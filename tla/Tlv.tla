---------------------------------- MODULE Tlv ----------------------------------
(***************************************************************************)
(* TLV, and what Thales reads with it out of the card's answers: the size   *)
(* of a file, and the fields of a code's information.  The parser takes one *)
(* object a step.  The card (external) encodes data objects, and its answer *)
(* may arrive cut off.                                                     *)
(***************************************************************************)
EXTENDS Naturals, Sequences

CONSTANTS
    Fields,        \* what a card puts into its answers: [tag, value]
    Tags,          \* tags of answers
    SizeIfNone,    \* 0xE5: the size if none is announced
    MaxFields      \* bound on the fields of an answer

Octet == 0 .. 255

\* Tags of one octet, or of two when the first ends in 1F.
Long(first) == first % 32 = 31
TagOctets(tag) == IF tag > 255 THEN <<tag \div 256, tag % 256>> ELSE <<tag>>
IsTag(tag) == tag \in Nat /\ tag < 65536 /\ (Long(TagOctets(tag)[1]) <=> tag > 255)

\* Its bit 20 says that an object has others in it.
Constructed(first) == (first \div 32) % 2 = 1

ASSUME FieldsAssumption ==
    \A f \in Fields : f \in [tag : Nat, value : Seq(Octet)] /\ IsTag(f.tag)
ASSUME TagsAssumption ==
    \A tag \in Tags : IsTag(tag) /\ Constructed(TagOctets(tag)[1])

VARIABLES
    fields,        \* the fields of the card's answer
    ends,          \* ends[i]: octets of the answer's value up to the end of fields[i]
    content,       \* the answer's value
    outer,         \* the answer's tag
    answer,        \* the octets that have arrived
    reading,       \* "size", "counter" or "changed"; "none" if nothing is being read yet
    calls,         \* calls of parseTLVRecursive(data, start, end), the innermost last
    records,       \* what the outermost objects have in them
    result         \* what is read

card == <<fields, ends, content, outer>>
tlvVars == <<card, answer, reading, calls, records, result>>

NoResult == [of |-> "none", value |-> 0]

TlvInit ==
    /\ fields = <<>> /\ ends = <<>> /\ content = <<>> /\ outer \in Tags
    /\ answer = <<>> /\ reading = "none"
    /\ calls = <<>> /\ records = <<>> /\ result = NoResult

-----------------------------------------------------------------------------
(* The card, which encodes as the standard says (external) *)

\* An object with a length of one octet.
Encoding(tag, value) == TagOctets(tag) \o <<Len(value)>> \o value

\* The next field of the answer.
Put(f) ==
    /\ reading = "none" /\ Len(fields) < MaxFields
    /\ Len(content \o Encoding(f.tag, f.value)) < 128
    /\ content' = content \o Encoding(f.tag, f.value)
    /\ fields' = Append(fields, f)
    /\ ends' = Append(ends, Len(content'))
    /\ UNCHANGED <<outer, answer, reading, calls, records, result>>

Whole == Encoding(outer, content)

-----------------------------------------------------------------------------
(* TLV.parseTLVRecursive *)

Call(data) == [data |-> data, index |-> 0]
Top        == calls[Len(calls)]

\* The object that begins after i octets of d.
TagLength(d, i)   == IF Long(d[i + 1]) THEN 2 ELSE 1
Tag(d, i)         == IF Long(d[i + 1]) THEN 256 * d[i + 1] + d[i + 2] ELSE d[i + 1]
ValueStart(d, i)  == i + TagLength(d, i) + 1
ValueEnd(d, i)    == ValueStart(d, i) + d[ValueStart(d, i)]
Value(d, i)       == SubSeq(d, ValueStart(d, i) + 1, ValueEnd(d, i))

\* Is there one, and is it whole?  If not, the loop ends.
Goes(d, i) == i + 2 <= Len(d) /\ ValueStart(d, i) <= Len(d) /\ ValueEnd(d, i) <= Len(d)

\* Mutant of Returned: all objects are, however deep.
ReturnedDeep == Len(calls) > 1

\* Is what this call finds among what parseTLVRecursive(data) returns?  Only the
\* children of the outermost objects are.
Returned == Len(calls) = 2

\* One turn of the loop.
Turn ==
    /\ calls # <<>> /\ Goes(Top.data, Top.index)
    /\ LET d == Top.data
           i == Top.index
           advanced == [calls EXCEPT ![Len(calls)].index = ValueEnd(d, i)]
       IN  /\ calls' = IF Constructed(d[i + 1]) THEN Append(advanced, Call(Value(d, i)))
                       ELSE advanced
           /\ records' = IF Returned
                         THEN Append(records, [tag |-> Tag(d, i), value |-> Value(d, i)])
                         ELSE records
    /\ UNCHANGED <<card, answer, reading, result>>

\* A call ends.
Return ==
    /\ calls # <<>> /\ ~Goes(Top.data, Top.index)
    /\ calls' = SubSeq(calls, 1, Len(calls) - 1)
    /\ UNCHANGED <<card, answer, reading, records, result>>

-----------------------------------------------------------------------------
(* Thales *)

\* The first n octets of the answer arrive.
Receive(n) == answer' = SubSeq(Whole, 1, n)

\* TLV.from, and its tag: one object, tag and length of one octet each.
IsInformation(d) == Len(d) >= 2 /\ Len(d) >= 2 + d[2] /\ d[1] = 160

\* readFile: the answer to SELECT is parsed.
ReadSize(n) ==
    /\ reading = "none"
    /\ reading' = "size"
    /\ Receive(n)
    /\ calls' = <<Call(answer')>>
    /\ UNCHANGED <<card, records, result>>

\* codeRetryCounter and pinChangedFlag: extractTagValue parses if it is an A0 object.
ReadInformation(of, n) ==
    /\ reading = "none"
    /\ reading' = of
    /\ Receive(n)
    /\ calls' = IF IsInformation(answer') THEN <<Call(answer')>> ELSE <<>>
    /\ UNCHANGED <<card, records, result>>

First(places) == CHOOSE i \in places : \A j \in places : i <= j
Last(places)  == CHOOSE i \in places : \A j \in places : i >= j

\* The places of fields with one of the tags, and at least n octets.
Places(all, tags, n) == {i \in DOMAIN all : all[i].tag \in tags /\ Len(all[i].value) >= n}

TwoOctets(value) == 256 * value[1] + value[2]

\* Mutant of FileSize: the first size is taken.
FileSizeFirst(all) ==
    LET sizes == Places(all, {128, 129}, 2) IN
    IF sizes = {} THEN SizeIfNone ELSE TwoOctets(all[First(sizes)].value)

\* readFile: the last size, in a field 80 or 81 of two octets or more.
FileSize(all) ==
    LET sizes == Places(all, {128, 129}, 2) IN
    IF sizes = {} THEN SizeIfNone ELSE TwoOctets(all[Last(sizes)].value)

\* Mutant of TagValue: the last field with the tag.
TagValueLast(all, tag) ==
    LET found == Places(all, {tag}, 1) IN
    IF found = {} THEN 0 ELSE all[Last(found)].value[1]

\* extractTagValue: the first field with the tag; 0 if there is none.
TagValue(all, tag) ==
    LET found == Places(all, {tag}, 1) IN
    IF found = {} THEN 0 ELSE all[First(found)].value[1]

CodeTag(of) == IF of = "counter" THEN 57121 ELSE 57135

\* The parser is done, or was not called.
Deliver ==
    /\ reading # "none" /\ calls = <<>> /\ result = NoResult
    /\ result' = [of |-> reading,
                  value |-> IF reading = "size" THEN FileSize(records)
                            ELSE TagValue(records, CodeTag(reading))]
    /\ UNCHANGED <<card, answer, reading, calls, records>>

TlvNext ==
    \/ \E f \in Fields : Put(f)
    \/ \E n \in 0 .. Len(Whole) : ReadSize(n)
    \/ \E n \in 0 .. Len(Whole) : ReadInformation("counter", n)
    \/ \E n \in 0 .. Len(Whole) : ReadInformation("changed", n)
    \/ Turn \/ Return \/ Deliver

TlvSpec == TlvInit /\ [][TlvNext]_tlvVars

-----------------------------------------------------------------------------
(* Properties *)

Arrived == answer = Whole

\* Whatever stands before it, and however it is nested, the size read is what the
\* card announced last with two octets; a cut answer gives the default, never a part
\* of a size, nor the size of something inside.
SizeAnnounced ==
    LET sizes == Places(fields, {128, 129}, 2) IN
    result.of = "size" =>
        result.value = IF Arrived /\ sizes # {} THEN TwoOctets(fields[Last(sizes)].value)
                       ELSE SizeIfNone

\* A counter or flag that is not zero is one that the card has sent for it; if the
\* card sent one and all of the answer arrived, it is that.
FieldReported ==
    LET found == Places(fields, {CodeTag(result.of)}, 1) IN
    result.of \in {"counter", "changed"} =>
        result.value = IF Arrived /\ outer = 160 /\ found # {}
                       THEN fields[First(found)].value[1] ELSE 0
===============================================================================
