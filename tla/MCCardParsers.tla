----------------------------- MODULE MCCardParsers -----------------------------
\* Instances of Tlv and PersonalDataParser for TLC.  They share no state: every answer is
\* read beside one person, and every person beside an answer that is still empty.
EXTENDS Tlv, PersonalDataParser

Field(tag, value) == [tag |-> tag, value |-> value]

\* 80, 81, DF21, DF2F; one whose value looks like another; nested ones, with a tag
\* of one octet or two, and one whose value is no object.
MCFields == {Field(128, <<1, 4>>), Field(129, <<7>>), Field(129, <<2, 0, 9>>),
             Field(57121, <<3>>), Field(57121, <<0>>), Field(57121, <<>>), Field(57135, <<1, 0>>),
             Field(133, <<128, 2, 5, 5>>),
             Field(165, <<128, 2, 6, 6>>), Field(165, <<128, 9, 6>>),
             Field(32585, Encoding(57121, <<2>>) \o Encoding(129, <<8, 8>>))}

MCTags == {98, 160, 32585}

\* Every month with the days around its ends, in years with and without a leap day, and
\* digits that are no date.
MCDates == [year : {1800, 1899, 1904, 1999, 2000, 2096, 2100, 2199}, month : 1 .. 12,
            day : {1, 9, 10, 28, 29, 30, 31}]

MCCodes == {<<first, y, y, m \div 10, m % 10, d \div 10, d % 10>> :
              first \in 0 .. 9, y \in {0, 9}, m \in {0, 1, 2, 11, 13}, d \in {0, 28, 29, 31, 32}}
            \cup UNION {CodesOf(d) : d \in MCDates} \cup {<<>>}

ReadAnswer == /\ code = <<>> /\ gender /\ birth = "date" /\ parsed = Open
              /\ TlvNext
              /\ UNCHANGED personVars

ReadPerson == /\ fields = <<>> /\ reading = "none"
              /\ Parse
              /\ UNCHANGED tlvVars

ParsersInit == TlvInit /\ PersonInit
ParsersNext == ReadAnswer \/ ReadPerson
ParsersSpec == ParsersInit /\ [][ParsersNext]_<<tlvVars, personVars>>
===============================================================================
