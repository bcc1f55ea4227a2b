-------------------------- MODULE PersonalDataParser --------------------------
(***************************************************************************)
(* How ID1PersonalDataParser and ThalesPersonalDataParser come to a date of *)
(* birth: from the card's field, or on a Digi-ID, which has none, from the  *)
(* personal code (DateOfBirthUtil).  The card is external.                 *)
(***************************************************************************)
EXTENDS Integers, Sequences

CONSTANTS
    Codes,         \* personal codes on cards: their first seven digits, which are all
                   \* that is read, or <<>>
    Dates          \* dates of birth to look at, [year, month, day]

\* Codes consist of digits (others end in an exception of parseInt).
ASSUME CodesAssumption == \A c \in Codes : c = <<>> \/ (c \in Seq(0 .. 9) /\ Len(c) = 7)
ASSUME DatesAssumption == Dates \subseteq [year : 1800 .. 2199, month : Nat, day : Nat]

VARIABLES
    gender,        \* is there one on the card?
    birth,         \* what the field of date and place of birth holds
    code,          \* the personal code
    parsed         \* the result of parse: where the date of birth comes from, and the
                   \* date if from the code

personVars == <<gender, birth, code, parsed>>

NoDate == [year |-> 0, month |-> 0, day |-> 0]
From(source, date) == [from |-> source, date |-> date]

\* IllegalArgumentException; a field that is no date, null; or not called yet.
Illegal == From("exception", NoDate)
Null    == From("null", NoDate)
Open    == From("open", NoDate)

PersonInit ==
    /\ gender \in BOOLEAN
    /\ birth \in {"empty", "unreadable", "date"}
    /\ code \in Codes
    /\ parsed = Open

-----------------------------------------------------------------------------

\* What LocalDate.of takes (external).
LeapYear(y) == y % 4 = 0 /\ (y % 100 # 0 \/ y % 400 = 0)
IsDate(d) ==
    /\ d.month \in 1 .. 12
    /\ d.day \in 1 .. CASE d.month = 2 -> IF LeapYear(d.year) THEN 29 ELSE 28
                        [] d.month \in {4, 6, 9, 11} -> 30
                        [] d.month \notin {2, 4, 6, 9, 11} -> 31

\* Mutant of Century: as if nobody was born before 1900 or after 2099.
CenturyShort(digit) == IF digit \in 1 .. 4 THEN 1900 ELSE 2000

Century(digit) ==
    IF digit \in {1, 2} THEN 1800
    ELSE IF digit \in {3, 4} THEN 1900
    ELSE IF digit \in {5, 6} THEN 2000 ELSE 2100

\* DateOfBirthUtil.parseDateOfBirth; its DateTimeException is made an
\* IllegalArgumentException, too.
FromCode(c) ==
    LET date == [year |-> 10 * c[2] + c[3] + Century(c[1]),
                 month |-> 10 * c[4] + c[5], day |-> 10 * c[6] + c[7]]
    IN  IF c[1] \in 1 .. 8 /\ IsDate(date) THEN From("code", date) ELSE Illegal

\* A gender that is missing is looked for in the code, and not used.
GenderFails == ~gender /\ code # <<>> /\ code[1] \notin 1 .. 8

Parse ==
    /\ parsed = Open
    /\ \/ GenderFails /\ parsed' = Illegal
       \/ ~GenderFails /\ birth = "date" /\ parsed' = From("field", NoDate)
       \/ ~GenderFails /\ birth = "unreadable" /\ parsed' = Null
       \/ ~GenderFails /\ birth = "empty" /\ code = <<>> /\ parsed' = Illegal
       \/ ~GenderFails /\ birth = "empty" /\ code # <<>> /\ parsed' = FromCode(code)
    /\ UNCHANGED <<gender, birth, code>>

PersonSpec == PersonInit /\ [][Parse]_personVars

-----------------------------------------------------------------------------
(* Properties *)

\* The digits that the register gives to who was born on that date.
CodesOf(d) ==
    {<< first, (d.year % 100) \div 10, d.year % 10,
        d.month \div 10, d.month % 10, d.day \div 10, d.day % 10 >> :
        first \in {2 * ((d.year - 1800) \div 100) + k : k \in {1, 2}}}

\* The holder of a Digi-ID, man or woman, born on any real date of four centuries, gets
\* that date of birth; for a code that is nobody's, never another date.
DigiIdRead ==
    /\ birth = "empty" /\ parsed # Open =>
          \A d \in Dates : IsDate(d) /\ code \in CodesOf(d) => parsed = From("code", d)
    /\ parsed.from = "code" => IsDate(parsed.date) /\ code \in CodesOf(parsed.date)
===============================================================================
