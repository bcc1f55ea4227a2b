---------------------------- MODULE CardData_proofs ---------------------------
(***************************************************************************)
(* Proofs about what is read from the card: files of every length that can  *)
(* be addressed and every way the card cuts its answers (CardFile), answers *)
(* of any number of data objects (Tlv), and dates of birth                 *)
(* (PersonalDataParser).                                                   *)
(***************************************************************************)
EXTENDS Tlv, PersonalDataParser, CardFile, SequenceTheorems, TLAPS

-----------------------------------------------------------------------------
(* Tlv: data objects *)

At(d, i, e) == i + Len(e) <= Len(d) /\ \A k \in 1 .. Len(e) : d[i + k] = e[k]

LEMMA OctetsAreNumbers ==
  ASSUME NEW v \in Seq(Octet)
  PROVE  v \in Seq(Nat)
<1>1. Octet \subseteq Nat
  BY DEF Octet
<1> QED
  BY <1>1, SeqMonotonic, Zenon

\* A tag has one octet or two, and the first says which.
LEMMA TagShape ==
  ASSUME NEW tag, IsTag(tag)
  PROVE  LET t == TagOctets(tag) IN
         /\ t \in Seq(Nat)
         /\ \/ Len(t) = 1 /\ ~Long(t[1]) /\ t[1] = tag
            \/ Len(t) = 2 /\ Long(t[1]) /\ 256 * t[1] + t[2] = tag
<1> DEFINE t == TagOctets(tag)
<1>1. tag \in Nat /\ (Long(t[1]) <=> tag > 255)
  BY DEF IsTag
<1>2. CASE tag > 255
  <2>1. t = <<tag \div 256, tag % 256>>
    BY <1>2 DEF TagOctets
  <2>2. tag \div 256 \in Nat /\ tag % 256 \in Nat /\ 256 * (tag \div 256) + (tag % 256) = tag
    BY <1>1
  <2> HIDE DEF t
  <2>3. t \in Seq(Nat) /\ Len(t) = 2 /\ 256 * t[1] + t[2] = tag
    BY <2>1, <2>2
  <2> QED
    BY <1>1, <1>2, <2>3 DEF t
<1>3. CASE ~(tag > 255)
  <2>1. t = <<tag>>
    BY <1>3 DEF TagOctets
  <2> HIDE DEF t
  <2>2. t \in Seq(Nat) /\ Len(t) = 1 /\ t[1] = tag
    BY <1>1, <2>1
  <2> QED
    BY <1>1, <1>3, <2>2 DEF t
<1> QED
  BY <1>2, <1>3

LEMMA Joined ==
  ASSUME NEW s \in Seq(Nat), NEW t \in Seq(Nat)
  PROVE  /\ s \o t \in Seq(Nat)
         /\ Len(s) \in Nat /\ Len(t) \in Nat
         /\ Len(s \o t) = Len(s) + Len(t)
         /\ \A i \in 1 .. Len(s) : (s \o t)[i] = s[i]
         /\ \A i \in 1 .. Len(t) : (s \o t)[Len(s) + i] = t[i]
<1> DEFINE whole == s \o t
<1>1. /\ whole \in Seq(Nat)
      /\ Len(whole) = Len(s) + Len(t)
      /\ \A i \in 1 .. Len(s) + Len(t) :
            whole[i] = IF i <= Len(s) THEN s[i] ELSE t[i - Len(s)]
  BY ConcatProperties
<1>2. Len(s) \in Nat /\ Len(t) \in Nat
  OBVIOUS
<1> HIDE DEF whole
<1>3. \A i \in 1 .. Len(s) : whole[i] = s[i]
  BY <1>1, <1>2
<1>4. \A i \in 1 .. Len(t) : whole[Len(s) + i] = t[i]
  <2>1. TAKE i \in 1 .. Len(t)
  <2>2. Len(s) + i \in 1 .. Len(s) + Len(t) /\ ~(Len(s) + i <= Len(s)) /\ Len(s) + i - Len(s) = i
    BY <1>2
  <2> QED
    BY <1>1, <2>2
<1> QED
  BY <1>1, <1>2, <1>3, <1>4 DEF whole

LEMMA JoinedThree ==
  ASSUME NEW s \in Seq(Nat), NEW n \in Nat, NEW v \in Seq(Nat)
  PROVE  LET e == s \o <<n>> \o v IN
         /\ e \in Seq(Nat) /\ Len(e) = Len(s) + 1 + Len(v)
         /\ \A k \in 1 .. Len(s) : e[k] = s[k]
         /\ e[Len(s) + 1] = n
         /\ \A k \in 1 .. Len(v) : e[Len(s) + 1 + k] = v[k]
<1> DEFINE h == s \o <<n>>
           e == h \o v
<1>1. /\ h \in Seq(Nat) /\ Len(h) = Len(s) + 1
      /\ \A k \in 1 .. Len(s) : h[k] = s[k]
      /\ h[Len(s) + 1] = n
  OBVIOUS
<1> HIDE DEF h
<1>2. /\ e \in Seq(Nat) /\ Len(e) = Len(h) + Len(v)
      /\ \A k \in 1 .. Len(h) : e[k] = h[k]
      /\ \A k \in 1 .. Len(v) : e[Len(h) + k] = v[k]
  BY <1>1, Joined
<1>3. Len(s) \in Nat
  OBVIOUS
<1> HIDE DEF e
<1> QED
  BY <1>1, <1>2, <1>3 DEF e, h

\* An encoding is tag, length and value.
LEMMA EncodingShape ==
  ASSUME NEW tag, IsTag(tag), NEW value \in Seq(Nat)
  PROVE  LET t == TagOctets(tag)
             e == Encoding(tag, value)
         IN  /\ e \in Seq(Nat) /\ Len(e) = Len(t) + 1 + Len(value)
             /\ \A k \in 1 .. Len(t) : e[k] = t[k]
             /\ e[Len(t) + 1] = Len(value)
             /\ \A k \in 1 .. Len(value) : e[Len(t) + 1 + k] = value[k]
<1>1. TagOctets(tag) \in Seq(Nat)
  BY TagShape, Zenon
<1>2. Len(value) \in Nat
  OBVIOUS
<1> QED
  BY <1>1, <1>2, JoinedThree, Zenon DEF Encoding

LEMMA Room ==
  ASSUME NEW i \in Nat, NEW a \in 1 .. 2, NEW b \in Nat, NEW m \in Nat, NEW l,
         i + l <= m, l = a + 1 + b
  PROVE  i + 2 <= m /\ i + a + 1 <= m /\ i + a + 1 + b <= m
OBVIOUS

\* What begins after i octets of d is an encoding.
Object(d, i, tag, value) ==
    /\ Goes(d, i)
    /\ ValueEnd(d, i) = i + Len(Encoding(tag, value))
    /\ Tag(d, i) = tag /\ Value(d, i) = value
    /\ d[i + 1] = TagOctets(tag)[1]

\* The parser reads there what was encoded.
LEMMA ObjectRead ==
  ASSUME NEW tag, IsTag(tag), NEW value \in Seq(Nat),
         NEW d \in Seq(Nat), NEW i \in Nat, At(d, i, Encoding(tag, value))
  PROVE  Object(d, i, tag, value)
<1> DEFINE t == TagOctets(tag)
           e == Encoding(tag, value)
           start == i + Len(t) + 1
<1>1. /\ t \in Seq(Nat)
      /\ \/ Len(t) = 1 /\ ~Long(t[1]) /\ t[1] = tag
         \/ Len(t) = 2 /\ Long(t[1]) /\ 256 * t[1] + t[2] = tag
  BY TagShape
<1>2. /\ e \in Seq(Nat) /\ Len(e) = Len(t) + 1 + Len(value)
      /\ \A k \in 1 .. Len(t) : e[k] = t[k]
      /\ e[Len(t) + 1] = Len(value)
      /\ \A k \in 1 .. Len(value) : e[Len(t) + 1 + k] = value[k]
  BY EncodingShape
<1>3. /\ i + Len(e) <= Len(d)
      /\ \A k \in 1 .. Len(e) : d[i + k] = e[k]
  BY DEF At
<1> HIDE DEF t, e
<1>4. Len(value) \in Nat /\ Len(d) \in Nat
  OBVIOUS
<1>5. d[i + 1] = t[1] /\ (Len(t) = 2 => d[i + 2] = t[2])
  <2>1. 1 \in 1 .. Len(t) /\ 1 \in 1 .. Len(e)
    BY <1>1, <1>2, <1>4
  <2>2. Len(t) = 2 => 2 \in 1 .. Len(t) /\ 2 \in 1 .. Len(e)
    BY <1>1, <1>2, <1>4
  <2> QED
    BY <1>2, <1>3, <2>1, <2>2, Zenon
<1>6. TagLength(d, i) = Len(t) /\ Tag(d, i) = tag
  BY <1>1, <1>5 DEF TagLength, Tag
<1>7. ValueStart(d, i) = start
  BY <1>6, Zenon DEF ValueStart
<1>8. d[start] = Len(value)
  <2>1. Len(t) + 1 \in 1 .. Len(e) /\ i + (Len(t) + 1) = start
    BY <1>1, <1>2, <1>4
  <2>2. d[i + (Len(t) + 1)] = e[Len(t) + 1]
    BY <1>3, <2>1, Zenon
  <2> QED
    BY <1>2, <2>1, <2>2, Zenon
<1>9. ValueEnd(d, i) = start + Len(value)
  BY <1>7, <1>8, Zenon DEF ValueEnd
<1>10. start + Len(value) = i + Len(e) /\ start \in Nat
  BY <1>1, <1>2, <1>4
<1>11. Goes(d, i)
  <2>1. i + 2 <= Len(d) /\ start <= Len(d) /\ start + Len(value) <= Len(d)
    <3>1. i + Len(e) <= Len(d) /\ Len(e) = Len(t) + 1 + Len(value) /\ Len(t) \in 1 .. 2
      BY <1>1, <1>2, <1>3
    <3> QED
      BY <1>4, <3>1, Room
  <2> QED
    BY <1>7, <1>9, <2>1, Zenon DEF Goes
<1>12. Value(d, i) = value
  <2> DEFINE v == SubSeq(d, start + 1, start + Len(value))
  <2>1. \A k \in start + 1 .. start + Len(value) : d[k] \in Nat
    BY <1>3, <1>4, <1>10
  <2>2. start + 1 \in Int /\ start + Len(value) \in Int
    BY <1>4, <1>10
  <2>3. /\ v \in Seq(Nat)
        /\ Len(v) = IF start + 1 <= start + Len(value) THEN start + Len(value) - (start + 1) + 1 ELSE 0
        /\ \A k \in 1 .. start + Len(value) - (start + 1) + 1 : v[k] = d[start + 1 + k - 1]
    BY <2>1, <2>2, SubSeqProperties
  <2> HIDE DEF v
  <2>4. Len(v) = Len(value)
    BY <2>3, <1>4, <1>10
  <2>5. \A k \in 1 .. Len(value) : v[k] = value[k]
    <3>1. TAKE k \in 1 .. Len(value)
    <3>2. /\ k \in 1 .. start + Len(value) - (start + 1) + 1
          /\ start + 1 + k - 1 = i + (Len(t) + 1 + k)
          /\ Len(t) + 1 + k \in 1 .. Len(e)
      BY <1>1, <1>2, <1>4, <1>10
    <3>3. v[k] = d[i + (Len(t) + 1 + k)]
      BY <2>3, <3>2
    <3>4. d[i + (Len(t) + 1 + k)] = e[Len(t) + 1 + k]
      BY <1>3, <3>2, Zenon
    <3> QED
      BY <1>2, <3>3, <3>4, Zenon
  <2>6. v = value
    BY <2>3, <2>4, <2>5, SeqEqual
  <2> QED
    BY <1>7, <1>9, <2>6, Zenon DEF Value, v
<1> QED
  BY <1>5, <1>6, <1>9, <1>10, <1>11, <1>12, Zenon DEF Object, t, e

\* It reads no object of which a part is missing.
LEMMA NothingInAPart ==
  ASSUME NEW tag, IsTag(tag), NEW value \in Seq(Nat), NEW n \in Nat,
         n < Len(Encoding(tag, value))
  PROVE  ~Goes(SubSeq(Encoding(tag, value), 1, n), 0)
<1> DEFINE t == TagOctets(tag)
           e == Encoding(tag, value)
           d == SubSeq(e, 1, n)
<1>1. /\ t \in Seq(Nat)
      /\ \/ Len(t) = 1 /\ ~Long(t[1]) /\ t[1] = tag
         \/ Len(t) = 2 /\ Long(t[1]) /\ 256 * t[1] + t[2] = tag
  BY TagShape
<1>2. /\ e \in Seq(Nat) /\ Len(e) = Len(t) + 1 + Len(value)
      /\ \A k \in 1 .. Len(t) : e[k] = t[k]
      /\ e[Len(t) + 1] = Len(value)
  BY EncodingShape
<1>3. n < Len(e)
  OBVIOUS
<1> HIDE DEF t, e
<1>4. Len(value) \in Nat
  OBVIOUS
<1>5. Len(d) = n /\ \A k \in 1 .. n : d[k] = e[k]
  BY <1>2, <1>3
<1> HIDE DEF d
<1>6. SUFFICES ASSUME Goes(d, 0) PROVE FALSE
  BY Zenon DEF d, e
<1>7. 0 + 2 <= n /\ d[0 + 1] = t[1]
  <2>1. 0 + 2 <= n
    BY <1>5, <1>6, Zenon DEF Goes
  <2>2. 1 \in 1 .. n /\ 1 \in 1 .. Len(t) /\ 0 + 1 = 1
    BY <1>1, <2>1
  <2> QED
    BY <1>2, <1>5, <2>1, <2>2, Zenon
<1>8. TagLength(d, 0) = Len(t)
  BY <1>1, <1>7 DEF TagLength
<1>9. ValueStart(d, 0) = Len(t) + 1
  BY <1>1, <1>8 DEF ValueStart
<1>10. Len(t) + 1 <= n
  BY <1>5, <1>6, <1>9, Zenon DEF Goes
<1>11. d[Len(t) + 1] = Len(value)
  BY <1>1, <1>2, <1>5, <1>10
<1>12. Len(t) + 1 + Len(value) <= n
  BY <1>5, <1>6, <1>9, <1>11, Zenon DEF Goes, ValueEnd
<1> QED
  BY <1>1, <1>2, <1>3, <1>4, <1>12

LEMMA PlaceOf ==
  ASSUME NEW d \in Seq(Nat), NEW x \in Seq(Nat)
  PROVE  /\ At(d \o x, Len(d), x)
         /\ \A i \in Nat : \A e \in Seq(Nat) : At(d, i, e) => At(d \o x, i, e)
<1> DEFINE w == d \o x
<1>1. /\ w \in Seq(Nat) /\ Len(d) \in Nat /\ Len(x) \in Nat
      /\ Len(w) = Len(d) + Len(x)
      /\ \A k \in 1 .. Len(d) : w[k] = d[k]
      /\ \A k \in 1 .. Len(x) : w[Len(d) + k] = x[k]
  BY Joined
<1> HIDE DEF w
<1>2. At(w, Len(d), x)
  BY <1>1 DEF At
<1>3. ASSUME NEW i \in Nat, NEW e \in Seq(Nat), At(d, i, e) PROVE At(w, i, e)
  <2>1. i + Len(e) <= Len(w) /\ Len(e) \in Nat
    BY <1>1, <1>3 DEF At
  <2>2. ASSUME NEW k \in 1 .. Len(e) PROVE w[i + k] = e[k]
    <3>1. i + k \in 1 .. Len(d)
      BY <1>1, <1>3, <2>1 DEF At
    <3>2. d[i + k] = e[k]
      BY <1>3, Zenon DEF At
    <3> QED
      BY <1>1, <3>1, <3>2, Zenon
  <2> QED
    BY <2>1, <2>2 DEF At
<1> QED
  BY <1>2, <1>3, Zenon DEF w

\* What the parser makes of an answer or a part of it.
LEMMA PartRead ==
  ASSUME outer \in Tags, content \in Seq(Nat),
         NEW n \in 0 .. Len(Whole), NEW d, d = SubSeq(Whole, 1, n)
  PROVE  /\ d \in Seq(Nat)
         /\ d = Whole \/ ~Goes(d, 0)
         /\ d = Whole => /\ Object(d, 0, outer, content)
                              /\ Constructed(d[1])
                              /\ ValueEnd(d, 0) = Len(d)
         /\ IsInformation(d) <=> d = Whole /\ outer = 160
<1> DEFINE t == TagOctets(outer)
           e == Whole
<1>1. IsTag(outer) /\ Constructed(t[1])
  BY TagsAssumption
<1>2. /\ t \in Seq(Nat)
      /\ \/ Len(t) = 1 /\ ~Long(t[1]) /\ t[1] = outer
         \/ Len(t) = 2 /\ Long(t[1]) /\ 256 * t[1] + t[2] = outer
  BY <1>1, TagShape
<1>3. /\ e \in Seq(Nat) /\ Len(e) = Len(t) + 1 + Len(content)
      /\ \A k \in 1 .. Len(t) : e[k] = t[k]
      /\ e[Len(t) + 1] = Len(content)
  BY <1>1, EncodingShape DEF Whole
<1>4. e = Encoding(outer, content)
  BY DEF Whole
<1>5. n < Len(e) => ~Goes(d, 0)
  <2>1. n \in Nat
    OBVIOUS
  <2> QED
    BY <1>1, <1>4, <2>1, NothingInAPart, Zenon
<1>6. n = Len(e) => d = e
  BY <1>3
<1>7. d \in Seq(Nat) /\ Len(d) = n /\ \A k \in 1 .. n : d[k] = e[k]
  BY <1>3
<1>8. Object(e, 0, outer, content)
  <2>1. At(e, 0, e)
    BY <1>3 DEF At
  <2> QED
    BY <1>1, <1>3, <1>4, <2>1, ObjectRead, Zenon
<1> HIDE DEF t, e
<1>9. Len(content) \in Nat /\ n <= Len(e) /\ n \in Nat /\ Len(e) \in Nat
  BY <1>3 DEF e
<1>10. Constructed(e[1]) /\ ValueEnd(e, 0) = Len(e)
  <2>1. 1 \in 1 .. Len(t)
    BY <1>2
  <2>2. 0 + Len(e) = Len(e)
    BY <1>9
  <2> QED
    BY <1>1, <1>3, <1>4, <1>8, <2>1, <2>2, Zenon DEF Object
<1>11. IsInformation(d) <=> d = e /\ outer = 160
  <2>1. ASSUME IsInformation(d) PROVE d = e /\ outer = 160
    <3>1. n >= 2 /\ n >= 2 + d[2] /\ d[1] = 160
      BY <1>7, <2>1, Zenon DEF IsInformation
    <3>2. e[1] = 160 /\ d[2] = e[2] /\ t[1] = 160
      <4>1. 1 \in 1 .. n /\ 2 \in 1 .. n /\ 1 \in 1 .. Len(t)
        BY <1>2, <1>9, <3>1
      <4> QED
        BY <1>3, <1>7, <3>1, <4>1, Zenon
    <3>3. ~Long(t[1])
      BY <3>2 DEF Long
    <3>4. Len(t) = 1 /\ outer = 160
      BY <1>2, <3>2, <3>3
    <3>5. e[2] = Len(content) /\ Len(e) = 2 + Len(content)
      BY <1>3, <1>9, <3>4
    <3>6. n = Len(e)
      BY <1>9, <3>1, <3>2, <3>5
    <3> QED
      BY <1>6, <3>4, <3>6
  <2>2. ASSUME d = e, outer = 160 PROVE IsInformation(d)
    <3>1. ~(outer > 255)
      BY <2>2
    <3>2. Len(t) = 1 /\ t[1] = 160
      BY <1>2, <2>2, <3>1 DEF t, TagOctets
    <3>3. 1 \in 1 .. Len(t) /\ Len(t) + 1 = 2
      BY <3>2
    <3>4. e[1] = 160 /\ e[2] = Len(content) /\ Len(e) = 2 + Len(content)
      BY <1>3, <1>9, <3>2, <3>3
    <3> QED
      BY <1>9, <2>2, <3>4 DEF IsInformation
  <2> QED
    BY <2>1, <2>2
<1>12. d = e \/ ~Goes(d, 0)
  <2>1. n = Len(e) \/ n < Len(e)
    BY <1>9
  <2> QED
    BY <1>5, <1>6, <2>1, Zenon
<1> QED
  BY <1>7, <1>8, <1>10, <1>11, <1>12, Zenon DEF e

-----------------------------------------------------------------------------

Calls == [data : Seq(Nat), index : Nat]

LEMMA TurnType ==
  ASSUME NEW d \in Seq(Nat), NEW i \in Nat, Goes(d, i)
  PROVE  /\ ValueEnd(d, i) \in Nat
         /\ Value(d, i) \in Seq(Nat)
         /\ Constructed(d[i + 1]) \in BOOLEAN
<1>1. TagLength(d, i) \in 1 .. 2
  BY DEF TagLength
<1>2. ValueStart(d, i) \in 1 .. Len(d)
  <2>1. ValueStart(d, i) <= Len(d)
    BY DEF Goes
  <2> QED
    BY <1>1, <2>1 DEF ValueStart
<1>3. d[ValueStart(d, i)] \in Nat
  BY <1>2, ElementOfSeq
<1>4. ValueEnd(d, i) \in Nat /\ ValueEnd(d, i) <= Len(d)
  <2>1. ValueEnd(d, i) <= Len(d)
    BY DEF Goes
  <2> QED
    BY <1>2, <1>3, <2>1 DEF ValueEnd
<1>5. Value(d, i) \in Seq(Nat)
  <2> DEFINE a == ValueStart(d, i) + 1
             b == ValueEnd(d, i)
  <2>1. a \in Int /\ b \in Int /\ a \in Nat /\ a > 0 /\ b <= Len(d)
    BY <1>2, <1>4
  <2>2. Value(d, i) = SubSeq(d, a, b)
    BY DEF Value
  <2> HIDE DEF a, b
  <2>3. \A k \in a .. b : k \in 1 .. Len(d)
    BY <2>1
  <2>4. \A k \in a .. b : d[k] \in Nat
    BY <2>3, ElementOfSeq
  <2> QED
    BY <2>1, <2>2, <2>4, SubSeqProperties
<1> QED
  BY <1>4, <1>5 DEF Constructed

\* The calls after a turn of the innermost one.
LEMMA Advance ==
  ASSUME NEW c \in Seq(Calls), c # <<>>, NEW e \in Nat, NEW b \in BOOLEAN, NEW x \in Calls
  PROVE  LET a == [c EXCEPT ![Len(c)].index = e]
             r == IF b THEN Append(a, x) ELSE a
         IN  /\ r \in Seq(Calls)
             /\ Len(c) \in Nat /\ Len(c) > 0
             /\ Len(r) = IF b THEN Len(c) + 1 ELSE Len(c)
             /\ \A k \in 1 .. Len(c) - 1 : r[k] = c[k]
             /\ r[Len(c)] = [data |-> c[Len(c)].data, index |-> e]
             /\ b => r[Len(c) + 1] = x
<1> DEFINE a == [c EXCEPT ![Len(c)].index = e]
           f == [data |-> c[Len(c)].data, index |-> e]
<1>1. Len(c) \in Nat /\ Len(c) > 0
  BY EmptySeq
<1>2. c[Len(c)] \in Calls
  BY <1>1, ElementOfSeq
<1>3. f \in Calls
  BY <1>2 DEF Calls
<1>4. a = [c EXCEPT ![Len(c)] = f]
  <2>1. \A y \in Calls : [y EXCEPT !.index = e] = [data |-> y.data, index |-> e]
    BY DEF Calls
  <2>2. a = [c EXCEPT ![Len(c)] = [c[Len(c)] EXCEPT !.index = e]]
    OBVIOUS
  <2> QED
    BY <1>2, <2>1, <2>2, Zenon
<1>5. /\ a \in Seq(Calls) /\ Len(a) = Len(c)
      /\ \A j \in 1 .. Len(c) : a[j] = IF j = Len(c) THEN f ELSE c[j]
  BY <1>1, <1>3, <1>4, ExceptSeq
<1> HIDE DEF a, f
<1>6. a[Len(c)] = f /\ \A k \in 1 .. Len(c) - 1 : a[k] = c[k]
  BY <1>1, <1>5
<1>7. /\ Append(a, x) \in Seq(Calls) /\ Len(Append(a, x)) = Len(c) + 1
      /\ \A k \in 1 .. Len(c) : Append(a, x)[k] = a[k]
      /\ Append(a, x)[Len(c) + 1] = x
  BY <1>1, <1>5
<1>8. CASE b
  <2>1. Append(a, x)[Len(c)] = f /\ \A k \in 1 .. Len(c) - 1 : Append(a, x)[k] = c[k]
    BY <1>1, <1>6, <1>7
  <2> QED
    BY <1>1, <1>7, <1>8, <2>1, Zenon DEF a, f
<1>9. CASE ~b
  BY <1>1, <1>5, <1>6, <1>9, Zenon DEF a, f
<1> QED
  BY <1>8, <1>9

LEMMA Popped ==
  ASSUME NEW c \in Seq(Calls), c # <<>>
  PROVE  LET r == SubSeq(c, 1, Len(c) - 1) IN
         /\ r \in Seq(Calls)
         /\ Len(c) \in Nat /\ Len(c) > 0 /\ Len(r) = Len(c) - 1
         /\ \A k \in 1 .. Len(c) - 1 : r[k] = c[k]
<1>1. Len(c) \in Nat /\ Len(c) > 0
  BY EmptySeq
<1>2. \A k \in 1 .. Len(c) - 1 : c[k] \in Calls
  BY <1>1, ElementOfSeq
<1> DEFINE r == SubSeq(c, 1, Len(c) - 1)
<1>3. /\ r \in Seq(Calls)
      /\ Len(r) = IF 1 <= Len(c) - 1 THEN Len(c) - 1 - 1 + 1 ELSE 0
      /\ \A k \in 1 .. Len(c) - 1 - 1 + 1 : r[k] = c[1 + k - 1]
  BY <1>1, <1>2, SubSeqProperties
<1> HIDE DEF r
<1>4. Len(r) = Len(c) - 1
  <2>1. \A n \in Nat : n > 0 => (IF 1 <= n - 1 THEN n - 1 - 1 + 1 ELSE 0) = n - 1
    OBVIOUS
  <2> QED
    BY <1>1, <1>3, <2>1, Zenon
<1>5. ASSUME NEW k \in 1 .. Len(c) - 1 PROVE r[k] = c[k]
  <2>1. k \in 1 .. Len(c) - 1 - 1 + 1 /\ 1 + k - 1 = k
    BY <1>1
  <2> QED
    BY <1>3, <2>1
<1> QED
  BY <1>1, <1>3, <1>4, <1>5, Zenon DEF r

-----------------------------------------------------------------------------
(* The invariant *)

Start(i) == IF i = 1 THEN 0 ELSE ends[i - 1]
Encoded(i) == Encoding(fields[i].tag, fields[i].value)

\* The answer's value consists of its fields, one after the other.
CardInv ==
    /\ fields \in Seq(Fields) /\ outer \in Tags
    /\ content \in Seq(Nat)
    /\ ends \in Seq(Nat) /\ Len(ends) = Len(fields)
    /\ Start(Len(fields) + 1) = Len(content)
    /\ \A i \in 1 .. Len(fields) :
          At(content, Start(i), Encoded(i)) /\ ends[i] = Start(i) + Len(Encoded(i))

\* What has arrived is the answer or a part of it.
AnswerInv ==
    /\ reading \in {"none", "size", "counter", "changed"}
    /\ reading = "none" => calls = <<>> /\ records = <<>> /\ result = NoResult
    /\ reading # "none" => \E n \in 0 .. Len(Whole) : answer = SubSeq(Whole, 1, n)

\* The outermost call has the answer.
CallsInv ==
    /\ calls \in Seq(Calls)
    /\ calls # <<>> => /\ reading # "none" /\ result = NoResult
                       /\ calls[1].data = answer
                       /\ reading = "size" \/ IsInformation(answer)

\* The second call is at the field after those that have been read.
RecordsInv ==
    /\ Len(calls) = 1 =>
          \/ calls[1].index = 0 /\ records = <<>>
          \/ answer = Whole /\ calls[1].index = Len(answer) /\ records = fields
    /\ Len(calls) > 1 =>
          /\ answer = Whole /\ calls[1].index = Len(answer)
          /\ calls[2].data = content /\ calls[2].index = Start(Len(records) + 1)
          /\ records \in Seq(Fields) /\ Len(records) <= Len(fields)
          /\ \A i \in 1 .. Len(records) : records[i] = fields[i]
    /\ reading # "none" /\ calls = <<>> =>
          records = IF answer = Whole /\ (reading = "size" \/ outer = 160)
                    THEN fields ELSE <<>>

ResultInv ==
    result # NoResult =>
        /\ reading # "none" /\ calls = <<>>
        /\ result.of = reading
        /\ result.value = IF reading = "size" THEN FileSize(records)
                          ELSE TagValue(records, CodeTag(reading))

InfoInv == CardInv /\ AnswerInv /\ CallsInv /\ RecordsInv /\ ResultInv

LEMMA InfoInit == TlvInit => InfoInv
<1> SUFFICES ASSUME TlvInit PROVE InfoInv
  OBVIOUS
<1> USE DEF TlvInit
<1>1. CardInv
  BY EmptySeq DEF CardInv, Start
<1>2. AnswerInv /\ RecordsInv /\ ResultInv
  BY EmptySeq DEF AnswerInv, RecordsInv, ResultInv
<1>3. CallsInv
  BY EmptySeq DEF CallsInv
<1> QED
  BY <1>1, <1>2, <1>3 DEF InfoInv

\* The parser finds every field at its place.
LEMMA FieldRead ==
  ASSUME CardInv, NEW i \in 1 .. Len(fields)
  PROVE  /\ Start(i) \in Nat /\ ends[i] = Start(i + 1)
         /\ Object(content, Start(i), fields[i].tag, fields[i].value)
         /\ ValueEnd(content, Start(i)) = Start(i + 1)
         /\ fields[i] \in Fields
         /\ fields[i] = [tag |-> fields[i].tag, value |-> fields[i].value]
<1>1. /\ Len(fields) \in Nat /\ i \in Nat /\ i > 0
  BY DEF CardInv
<1>2. fields[i] \in Fields
  BY ElementOfSeq DEF CardInv
<1>3. /\ IsTag(fields[i].tag) /\ fields[i] \in [tag : Nat, value : Seq(Octet)]
  BY <1>2, FieldsAssumption
<1>4. /\ fields[i].value \in Seq(Nat)
      /\ fields[i] = [tag |-> fields[i].tag, value |-> fields[i].value]
  <2>1. fields[i].value \in Seq(Octet)
    BY <1>3
  <2> QED
    BY <1>3, <2>1, OctetsAreNumbers
<1>5. Start(i) \in Nat
  <2>1. CASE i = 1
    BY <2>1 DEF Start
  <2>2. CASE i # 1
    <3>1. i - 1 \in 1 .. Len(ends)
      BY <1>1, <2>2 DEF CardInv
    <3>2. ends[i - 1] \in Nat
      BY <3>1, ElementOfSeq DEF CardInv
    <3> QED
      BY <2>2, <3>2 DEF Start
  <2> QED
    BY <2>1, <2>2
<1>6. ends[i] = Start(i + 1)
  BY <1>1 DEF Start
<1>7. At(content, Start(i), Encoded(i)) /\ ends[i] = Start(i) + Len(Encoded(i))
  BY DEF CardInv
<1>8. Object(content, Start(i), fields[i].tag, fields[i].value)
  BY <1>3, <1>4, <1>5, <1>7, ObjectRead, Zenon DEF CardInv, Encoded
<1>9. ValueEnd(content, Start(i)) = Start(i + 1)
  BY <1>6, <1>7, <1>8, Zenon DEF Object, Encoded
<1> QED
  BY <1>2, <1>4, <1>5, <1>6, <1>8, <1>9, Zenon

\* The card's steps.
LEMMA PutInv ==
  ASSUME InfoInv, NEW f \in Fields, Put(f)
  PROVE  InfoInv'
<1> DEFINE e == Encoding(f.tag, f.value)
           m == Len(fields)
<1>1. /\ content' = content \o e /\ fields' = Append(fields, f)
      /\ ends' = Append(ends, Len(content')) /\ reading = "none"
      /\ UNCHANGED <<outer, answer, reading, calls, records, result>>
  BY Zenon DEF Put
<1>2. /\ fields \in Seq(Fields) /\ outer \in Tags /\ content \in Seq(Nat)
      /\ ends \in Seq(Nat) /\ Len(ends) = m
      /\ Start(m + 1) = Len(content)
      /\ \A i \in 1 .. m : At(content, Start(i), Encoded(i)) /\ ends[i] = Start(i) + Len(Encoded(i))
  BY DEF InfoInv, CardInv
<1>3. IsTag(f.tag) /\ f.value \in Seq(Nat)
  <2>1. IsTag(f.tag) /\ f \in [tag : Nat, value : Seq(Octet)]
    BY FieldsAssumption
  <2>2. f.value \in Seq(Octet)
    BY <2>1
  <2> QED
    BY <2>1, <2>2, OctetsAreNumbers
<1>4. e \in Seq(Nat)
  BY <1>3, EncodingShape
<1> HIDE DEF e
<1>5. /\ content' \in Seq(Nat) /\ Len(content) \in Nat /\ Len(e) \in Nat
      /\ Len(content') = Len(content) + Len(e)
  BY <1>1, <1>2, <1>4, Joined
<1>6. m \in Nat
  BY <1>2
<1> HIDE DEF m
<1>7. /\ fields' \in Seq(Fields) /\ Len(fields') = m + 1 /\ fields'[m + 1] = f
      /\ \A i \in 1 .. m : fields'[i] = fields[i]
  BY <1>1, <1>2 DEF m
<1>8. /\ ends' \in Seq(Nat) /\ Len(ends') = m + 1 /\ ends'[m + 1] = Len(content')
      /\ \A i \in 1 .. m : ends'[i] = ends[i]
  <2>1. Len(content') \in Nat
    BY <1>5
  <2> QED
    BY <1>1, <1>2, <1>6, <2>1, AppendProperties
<1>9. \A i \in 1 .. m + 1 : Start(i)' = Start(i)
  <2>1. TAKE i \in 1 .. m + 1
  <2>2. i # 1 => i - 1 \in 1 .. m
    BY <1>6
  <2> QED
    BY <1>8, <2>2 DEF Start
<1>11. ASSUME NEW i \in 1 .. m + 1
       PROVE  At(content, Start(i), Encoded(i))' /\ ends'[i] = Start(i)' + Len(Encoded(i))'
  <2>1. CASE i = m + 1
    <3>1. Encoded(i)' = e
      BY <1>7, <2>1 DEF Encoded, e
    <3>2. Start(i)' = Len(content)
      BY <1>2, <1>9, <2>1
    <3>3. At(content', Len(content), e)
      BY <1>1, <1>2, <1>4, PlaceOf, Zenon
    <3> QED
      BY <1>5, <1>8, <2>1, <3>1, <3>2, <3>3
  <2>2. CASE i \in 1 .. m
    <3>1. Encoded(i)' = Encoded(i) /\ Start(i)' = Start(i)
      BY <1>7, <1>9, <2>2 DEF Encoded
    <3>2. Start(i) \in Nat
      BY <2>2, FieldRead DEF InfoInv, m
    <3>3. At(content, Start(i), Encoded(i)) /\ ends[i] = Start(i) + Len(Encoded(i))
      BY <1>2, <2>2
    <3>4. Encoded(i) \in Seq(Nat)
      <4>1. fields[i] \in Fields
        BY <2>2, FieldRead DEF InfoInv, m
      <4>2. IsTag(fields[i].tag) /\ fields[i] \in [tag : Nat, value : Seq(Octet)]
        BY <4>1, FieldsAssumption
      <4>3. fields[i].value \in Seq(Octet)
        BY <4>2
      <4> QED
        BY <4>2, <4>3, OctetsAreNumbers, EncodingShape DEF Encoded
    <3>5. At(content', Start(i), Encoded(i))
      BY <1>1, <1>2, <1>4, <3>2, <3>3, <3>4, PlaceOf, Zenon
    <3> QED
      BY <1>8, <2>2, <3>1, <3>3, <3>5
  <2> QED
    BY <1>6, <2>1, <2>2
<1>12. CardInv'
  <2>1. Start(Len(fields) + 1)' = Len(content')
    <3>1. Len(fields') + 1 # 1 /\ Len(fields') + 1 - 1 = m + 1
      BY <1>6, <1>7
    <3> QED
      BY <1>8, <3>1 DEF Start
  <2> QED
    BY <1>1, <1>2, <1>5, <1>7, <1>8, <1>11, <2>1 DEF CardInv
<1>13. calls = <<>> /\ records = <<>> /\ result = NoResult /\ reading = "none"
  BY <1>1 DEF InfoInv, AnswerInv
<1>14. AnswerInv' /\ CallsInv' /\ RecordsInv' /\ ResultInv'
  <2>1. calls' = <<>> /\ records' = <<>> /\ result' = NoResult /\ reading' = "none"
    BY <1>1, <1>13
  <2> QED
    BY <2>1, EmptySeq DEF AnswerInv, CallsInv, RecordsInv, ResultInv, NoResult
<1> QED
  BY <1>12, <1>14 DEF InfoInv

LEMMA ReadSizeInv ==
  ASSUME InfoInv, NEW n \in 0 .. Len(Whole), ReadSize(n)
  PROVE  InfoInv'
<1>1. /\ reading = "none" /\ reading' = "size"
      /\ answer' = SubSeq(Whole, 1, n)
      /\ calls' = <<[data |-> answer', index |-> 0]>>
      /\ UNCHANGED <<fields, ends, content, outer, records, result>>
  BY Zenon DEF ReadSize, Receive, Call, card
<1>2. records = <<>> /\ result = NoResult
  BY <1>1 DEF InfoInv, AnswerInv
<1>3. outer \in Tags /\ content \in Seq(Nat)
  BY DEF InfoInv, CardInv
<1>4. answer' \in Seq(Nat)
  BY <1>1, <1>3, PartRead
<1>5. Whole' = Whole
  BY <1>1, Zenon DEF Whole
<1>6. CardInv'
  BY <1>1 DEF InfoInv, CardInv, Start, Encoded
<1>7. AnswerInv'
  BY <1>1, <1>5 DEF AnswerInv
<1>8. calls' \in Seq(Calls) /\ Len(calls') = 1 /\ calls' # <<>>
      /\ calls'[1] = [data |-> answer', index |-> 0]
  BY <1>1, <1>4 DEF Calls
<1>9. CallsInv'
  BY <1>1, <1>2, <1>8 DEF CallsInv, NoResult
<1>10. RecordsInv' /\ ResultInv'
  BY <1>1, <1>2, <1>8 DEF RecordsInv, ResultInv, NoResult
<1> QED
  BY <1>6, <1>7, <1>9, <1>10 DEF InfoInv

LEMMA ReadInformationInv ==
  ASSUME InfoInv, NEW of \in {"counter", "changed"}, NEW n \in 0 .. Len(Whole),
         ReadInformation(of, n)
  PROVE  InfoInv'
<1>1. /\ reading = "none" /\ reading' = of
      /\ answer' = SubSeq(Whole, 1, n)
      /\ calls' = IF IsInformation(answer')
                  THEN <<[data |-> answer', index |-> 0]>> ELSE <<>>
      /\ UNCHANGED <<fields, ends, content, outer, records, result>>
  BY Zenon DEF ReadInformation, Receive, Call, card
<1>2. records = <<>> /\ result = NoResult
  BY <1>1 DEF InfoInv, AnswerInv
<1>3. outer \in Tags /\ content \in Seq(Nat)
  BY DEF InfoInv, CardInv
<1>4. /\ answer' \in Seq(Nat)
      /\ IsInformation(answer') <=> answer' = Whole /\ outer = 160
  <2>1. \A e : e = SubSeq(Whole, 1, n) =>
            /\ e \in Seq(Nat)
            /\ IsInformation(e) <=> e = Whole /\ outer = 160
    BY <1>3, PartRead, Zenon
  <2> QED
    BY <1>1, <2>1, Zenon
<1>5. Whole' = Whole
  BY <1>1, Zenon DEF Whole
<1>6. IsInformation(answer)' <=> IsInformation(answer')
  BY DEF IsInformation
<1>7. CardInv'
  BY <1>1 DEF InfoInv, CardInv, Start, Encoded
<1>8. CASE IsInformation(answer')
  <2>1. calls' \in Seq(Calls) /\ Len(calls') = 1 /\ calls' # <<>>
        /\ calls'[1] = [data |-> answer', index |-> 0]
    BY <1>1, <1>4, <1>8 DEF Calls
  <2>2. AnswerInv'
    BY <1>1, <1>5 DEF AnswerInv
  <2>3. CallsInv'
    BY <1>1, <1>2, <1>6, <1>8, <2>1 DEF CallsInv, NoResult
  <2>4. RecordsInv' /\ ResultInv'
    BY <1>1, <1>2, <2>1 DEF RecordsInv, ResultInv, NoResult
  <2> QED
    BY <1>7, <2>2, <2>3, <2>4 DEF InfoInv
<1>9. CASE ~IsInformation(answer')
  <2>1. calls' = <<>> /\ calls' \in Seq(Calls) /\ Len(calls') = 0
    BY <1>1, <1>9, EmptySeq
  <2>2. AnswerInv'
    BY <1>1, <1>5 DEF AnswerInv
  <2>3. CallsInv' /\ ResultInv'
    BY <1>1, <1>2, <2>1 DEF CallsInv, ResultInv, NoResult
  <2>4. RecordsInv'
    BY <1>1, <1>2, <1>4, <1>5, <1>9, <2>1 DEF RecordsInv
  <2> QED
    BY <1>7, <2>2, <2>3, <2>4 DEF InfoInv
<1> QED
  BY <1>8, <1>9

\* One turn of the loop.
LEMMA TurnInv ==
  ASSUME InfoInv, Turn
  PROVE  InfoInv'
<1> DEFINE d == calls[Len(calls)].data
           i == calls[Len(calls)].index
           b == Constructed(d[i + 1])
           x == [data |-> Value(d, i), index |-> 0]
           object == [tag |-> Tag(d, i), value |-> Value(d, i)]
           m == Len(calls)
<1>1. /\ calls # <<>> /\ Goes(d, i)
      /\ calls' = IF b THEN Append([calls EXCEPT ![m].index = ValueEnd(d, i)], x)
                  ELSE [calls EXCEPT ![m].index = ValueEnd(d, i)]
      /\ records' = IF m = 2 THEN Append(records, object) ELSE records
      /\ UNCHANGED <<fields, ends, content, outer, answer, reading, result>>
  BY Zenon DEF Turn, Top, Call, card, Returned
<1>2. calls \in Seq(Calls) /\ m \in Nat /\ m > 0
  BY <1>1, EmptySeq DEF InfoInv, CallsInv
<1>3. d \in Seq(Nat) /\ i \in Nat
  <2>1. calls[m] \in Calls
    BY <1>2, ElementOfSeq
  <2> QED
    BY <2>1 DEF Calls
<1>4. ValueEnd(d, i) \in Nat /\ x \in Calls /\ b \in BOOLEAN
  BY <1>1, <1>3, TurnType DEF Calls
<1>5. /\ calls' \in Seq(Calls)
      /\ Len(calls') = IF b THEN m + 1 ELSE m
      /\ \A k \in 1 .. m - 1 : calls'[k] = calls[k]
      /\ calls'[m] = [data |-> d, index |-> ValueEnd(d, i)]
      /\ b => calls'[m + 1] = x
  <2> DEFINE e == ValueEnd(d, i)
             r == IF b THEN Append([calls EXCEPT ![Len(calls)].index = e], x)
                  ELSE [calls EXCEPT ![Len(calls)].index = e]
  <2> HIDE DEF b, x, e
  <2>1. calls \in Seq(Calls) /\ calls # <<>> /\ e \in Nat /\ b \in BOOLEAN /\ x \in Calls
    BY <1>1, <1>2, <1>4 DEF e
  <2>2. /\ r \in Seq(Calls)
        /\ Len(r) = IF b THEN Len(calls) + 1 ELSE Len(calls)
        /\ \A k \in 1 .. Len(calls) - 1 : r[k] = calls[k]
        /\ r[Len(calls)] = [data |-> calls[Len(calls)].data, index |-> e]
        /\ b => r[Len(calls) + 1] = x
    BY <2>1, Advance
  <2>3. calls' = r
    BY <1>1, Zenon DEF e
  <2> QED
    BY <2>2, <2>3, Zenon DEF e
<1>6. CardInv' /\ AnswerInv' /\ ResultInv'
  <2>1. CardInv'
    BY <1>1 DEF InfoInv, CardInv, Start, Encoded
  <2>2. Whole' = Whole
    BY <1>1, Zenon DEF Whole
  <2>3. reading # "none" /\ result = NoResult
    BY <1>1 DEF InfoInv, CallsInv
  <2>4. AnswerInv'
    BY <1>1, <2>2, <2>3 DEF InfoInv, AnswerInv
  <2>5. ResultInv'
    BY <1>1, <2>3 DEF ResultInv, NoResult
  <2> QED
    BY <2>1, <2>4, <2>5
<1> HIDE DEF d, i, b, x, object, m
<1>7. CASE m = 1
  <2>1. /\ d = answer
        /\ \/ i = 0 /\ records = <<>>
           \/ answer = Whole /\ i = Len(answer) /\ records = fields
    BY <1>1, <1>2, <1>7 DEF InfoInv, CallsInv, RecordsInv, m, d, i
  <2>2. i = 0 /\ records = <<>>
    <3>1. i = Len(answer) => ~Goes(d, i)
      BY <1>3, <2>1 DEF Goes
    <3> QED
      BY <1>1, <2>1, <3>1
  <2>3. /\ answer = Whole /\ Object(answer, 0, outer, content)
        /\ Constructed(answer[1]) /\ ValueEnd(answer, 0) = Len(answer)
    <3>1. outer \in Tags /\ content \in Seq(Nat)
      BY DEF InfoInv, CardInv
    <3>2. PICK n \in 0 .. Len(Whole) : answer = SubSeq(Whole, 1, n)
      BY <1>1 DEF InfoInv, AnswerInv, CallsInv
    <3>3. Goes(answer, 0)
      BY <1>1, <2>1, <2>2, Zenon
    <3> QED
      BY <3>1, <3>2, <3>3, PartRead, Zenon
  <2>4. b /\ x = [data |-> content, index |-> 0]
    <3>1. b
      BY <2>1, <2>2, <2>3 DEF b
    <3>2. Value(d, i) = content
      BY <2>1, <2>2, <2>3, Zenon DEF Object
    <3> QED
      BY <3>1, <3>2 DEF x
  <2>5. /\ Len(calls') = 2
        /\ calls'[1] = [data |-> answer, index |-> Len(answer)]
        /\ calls'[2] = [data |-> content, index |-> 0]
    BY <1>5, <1>7, <2>1, <2>2, <2>3, <2>4
  <2>6. records' = <<>> /\ answer' = answer /\ content' = content /\ reading' = reading
    BY <1>1, <1>7, <2>2
  <2>7. CallsInv'
    BY <1>1, <1>5, <2>5, <2>6 DEF InfoInv, CallsInv, IsInformation
  <2>8. RecordsInv'
    <3>1. Whole' = answer'
      BY <1>1, <2>3, Zenon DEF Whole
    <3>2. Start(Len(records) + 1)' = 0 /\ records' \in Seq(Fields) /\ Len(records') = 0
      BY <2>6, EmptySeq DEF Start
    <3>3. Len(fields') \in Nat
      BY <1>6 DEF CardInv
    <3>4. Len(calls') # 1 /\ calls' # <<>>
      BY <2>5
    <3>5. \A k \in 1 .. Len(records') : records'[k] = fields'[k]
      BY <3>2
    <3>6. Len(records') <= Len(fields')
      BY <3>2, <3>3
    <3>7. /\ answer' = Whole' /\ (calls[1].index)' = Len(answer')
          /\ (calls[2].data)' = content' /\ (calls[2].index)' = Start(Len(records) + 1)'
      BY <2>5, <2>6, <3>1, <3>2
    <3> QED
      BY <3>2, <3>4, <3>5, <3>6, <3>7 DEF RecordsInv
  <2> QED
    BY <1>6, <2>7, <2>8 DEF InfoInv
<1>8. ASSUME m > 1
      PROVE  CallsInv'
  <2>1. calls'[1].data = answer /\ calls' # <<>>
    <3>1. 1 \in 1 .. m - 1
      BY <1>2, <1>8
    <3>2. calls'[1] = calls[1]
      BY <1>5, <3>1
    <3>3. Len(calls') # 0
      BY <1>2, <1>5
    <3> QED
      BY <1>1, <3>2, <3>3, EmptySeq DEF InfoInv, CallsInv
  <2> QED
    BY <1>1, <1>5, <2>1 DEF InfoInv, CallsInv, IsInformation
<1>9. ASSUME m > 1
      PROVE  /\ Len(calls') > 1 /\ Len(calls') # 1 /\ calls' # <<>>
             /\ calls'[1] = calls[1]
             /\ answer' = answer /\ Whole' = Whole /\ content' = content
             /\ fields' = fields /\ ends' = ends
             /\ answer = Whole /\ calls[1].index = Len(answer)
             /\ calls[2].data = content /\ calls[2].index = Start(Len(records) + 1)
             /\ records \in Seq(Fields) /\ Len(records) <= Len(fields)
             /\ \A j \in 1 .. Len(records) : records[j] = fields[j]
  <2>1. 1 \in 1 .. m - 1 /\ Len(calls') > 1 /\ Len(calls') # 1 /\ Len(calls') # 0
    BY <1>2, <1>5, <1>9
  <2>4. calls' # <<>>
    BY <2>1, EmptySeq
  <2>2. calls'[1] = calls[1]
    BY <1>5, <2>1
  <2>3. Whole' = Whole
    BY <1>1, Zenon DEF Whole
  <2> QED
    BY <1>1, <1>9, <2>1, <2>2, <2>3, <2>4 DEF InfoInv, RecordsInv, m
<1>10. CASE m = 2
  <2> DEFINE k == Len(records) + 1
  <2>1. d = content /\ i = Start(k)
    BY <1>9, <1>10 DEF d, i, m
  <2>2. Len(records) \in Nat /\ Len(fields) \in Nat
    BY <1>9, <1>10 DEF InfoInv, CardInv
  <2>3. k \in 1 .. Len(fields)
    <3>1. SUFFICES ASSUME Len(records) = Len(fields) PROVE FALSE
      BY <1>9, <1>10, <2>2
    <3>2. i = Len(content)
      BY <2>1, <3>1 DEF InfoInv, CardInv
    <3>3. ~Goes(d, i)
      BY <1>3, <2>1, <3>2 DEF Goes
    <3> QED
      BY <1>1, <3>3
  <2> HIDE DEF k
  <2>4. /\ object = fields[k] /\ fields[k] \in Fields
        /\ ValueEnd(d, i) = Start(k + 1)
    BY <2>1, <2>3, FieldRead, Zenon DEF InfoInv, Object, object
  <2>5. records' = Append(records, fields[k])
    BY <1>1, <1>10, <2>4
  <2>6. /\ records' \in Seq(Fields) /\ Len(records') = k
        /\ \A j \in 1 .. k : records'[j] = fields[j]
    BY <1>9, <1>10, <2>2, <2>4, <2>5 DEF k
  <2>7. calls'[2].data = content /\ calls'[2].index = Start(k + 1)
    BY <1>5, <1>10, <2>1, <2>4
  <2>8. Start(Len(records) + 1)' = Start(k + 1)
    BY <1>9, <1>10, <2>6 DEF Start
  <2>9. RecordsInv'
    <3>1. k <= Len(fields)
      BY <2>2, <2>3
    <3> QED
      BY <1>9, <1>10, <2>6, <2>7, <2>8, <3>1 DEF RecordsInv
  <2> QED
    BY <1>6, <1>8, <1>10, <2>9 DEF InfoInv
<1>11. CASE m > 2
  <2>1. m > 1 /\ 2 \in 1 .. m - 1
    BY <1>2, <1>11
  <2>2. calls'[2] = calls[2] /\ records' = records
    BY <1>1, <1>5, <1>11, <2>1
  <2>3. Start(Len(records) + 1)' = Start(Len(records) + 1)
    BY <1>9, <2>1, <2>2 DEF Start
  <2>4. RecordsInv'
    BY <1>9, <2>1, <2>2, <2>3 DEF RecordsInv
  <2> QED
    BY <1>6, <1>8, <2>1, <2>4 DEF InfoInv
<1> QED
  BY <1>2, <1>7, <1>10, <1>11

\* A call ends: the second one only after the last field.
LEMMA ReturnInv ==
  ASSUME InfoInv, Return
  PROVE  InfoInv'
<1> DEFINE d == calls[Len(calls)].data
           i == calls[Len(calls)].index
           m == Len(calls)
<1>1. /\ calls # <<>> /\ ~Goes(d, i)
      /\ calls' = SubSeq(calls, 1, Len(calls) - 1)
      /\ UNCHANGED <<fields, ends, content, outer, answer, reading, records, result>>
  BY Zenon DEF Return, Top, card
<1>2. calls \in Seq(Calls)
  BY DEF InfoInv, CallsInv
<1>3. /\ calls' \in Seq(Calls)
      /\ m \in Nat /\ m > 0 /\ Len(calls') = m - 1
      /\ \A k \in 1 .. m - 1 : calls'[k] = calls[k]
  BY <1>1, <1>2, Popped, Zenon
<1> HIDE DEF d, i, m
<1>4. /\ Whole' = Whole
      /\ reading # "none" /\ result = NoResult /\ reading \in {"size", "counter", "changed"}
      /\ calls[1].data = answer /\ (reading = "size" \/ IsInformation(answer))
  <2>1. Whole' = Whole
    BY <1>1, Zenon DEF Whole
  <2> QED
    BY <1>1, <2>1 DEF InfoInv, CallsInv, AnswerInv
<1>5. CardInv' /\ AnswerInv' /\ ResultInv'
  <2>1. CardInv'
    BY <1>1 DEF InfoInv, CardInv, Start, Encoded
  <2>2. AnswerInv'
    BY <1>1, <1>4 DEF InfoInv, AnswerInv
  <2>3. ResultInv'
    BY <1>1, <1>4 DEF ResultInv, NoResult
  <2> QED
    BY <2>1, <2>2, <2>3
<1>6. PICK n \in 0 .. Len(Whole) : answer = SubSeq(Whole, 1, n)
  BY <1>4 DEF InfoInv, AnswerInv
<1>7. CASE m = 1
  <2>1. calls' = <<>>
    BY <1>3, <1>7, EmptySeq
  <2>2. /\ d = answer
        /\ \/ i = 0 /\ records = <<>>
           \/ answer = Whole /\ i = Len(answer) /\ records = fields
    BY <1>4, <1>7 DEF InfoInv, RecordsInv, m, d, i
  <2>3. outer \in Tags /\ content \in Seq(Nat)
    BY DEF InfoInv, CardInv
  <2>4. /\ answer = Whole => Object(answer, 0, outer, content)
        /\ IsInformation(answer) <=> answer = Whole /\ outer = 160
    <3>1. \A e : e = SubSeq(Whole, 1, n) =>
              /\ e = Whole => Object(e, 0, outer, content)
              /\ IsInformation(e) <=> e = Whole /\ outer = 160
      BY <2>3, PartRead, Zenon
    <3> QED
      BY <1>6, <3>1, Zenon
  <2>5. i = 0 => answer # Whole
    BY <1>1, <2>2, <2>4, Zenon DEF Object
  <2>6. records = IF answer = Whole /\ (reading = "size" \/ outer = 160)
                  THEN fields ELSE <<>>
    BY <1>4, <2>2, <2>4, <2>5
  <2>7. CallsInv'
    BY <1>3, <2>1 DEF CallsInv
  <2>8. Len(calls') = 0
    BY <1>3, <1>7
  <2>9. RecordsInv'
    <3>1. records' = IF answer' = Whole' /\ (reading' = "size" \/ outer' = 160)
                     THEN fields' ELSE <<>>
      BY <1>1, <1>4, <2>6, Zenon
    <3> QED
      BY <2>8, <3>1 DEF RecordsInv
  <2> QED
    BY <1>5, <2>7, <2>9 DEF InfoInv
<1>8. CASE m > 1
  <2>1. /\ answer = Whole /\ calls[1].index = Len(answer)
        /\ calls[2].data = content /\ calls[2].index = Start(Len(records) + 1)
        /\ records \in Seq(Fields) /\ Len(records) <= Len(fields)
        /\ \A j \in 1 .. Len(records) : records[j] = fields[j]
    BY <1>8 DEF InfoInv, RecordsInv, m
  <2>2. 1 \in 1 .. m - 1 /\ Len(calls') # 0 /\ Len(calls') \in Nat
    BY <1>3, <1>8
  <2>3. calls' # <<>> /\ calls'[1] = calls[1]
    BY <1>3, <2>2, EmptySeq
  <2>4. CallsInv'
    BY <1>1, <1>3, <1>4, <2>3 DEF CallsInv, IsInformation, NoResult
  <2>5. CASE m = 2
    <3>1. d = content /\ i = Start(Len(records) + 1)
      BY <2>1, <2>5 DEF d, i, m
    <3>2. Len(records) \in Nat /\ Len(fields) \in Nat /\ fields \in Seq(Fields)
      BY <2>1 DEF InfoInv, CardInv
    <3>3. Len(records) = Len(fields)
      <4>1. SUFFICES ASSUME Len(records) + 1 \in 1 .. Len(fields) PROVE FALSE
        BY <2>1, <3>2
      <4>2. Goes(d, i)
        BY <3>1, <4>1, FieldRead, Zenon DEF InfoInv, Object
      <4> QED
        BY <1>1, <4>2
    <3>4. records = fields
      BY <2>1, <3>2, <3>3, SeqEqual
    <3>5. Len(calls') = 1
      BY <1>3, <2>5
    <3>6. RecordsInv'
      <4>1. answer' = Whole' /\ calls'[1].index = Len(answer') /\ records' = fields'
        BY <1>1, <1>4, <2>1, <2>3, <3>4, Zenon
      <4> QED
        BY <2>3, <3>5, <4>1 DEF RecordsInv
    <3> QED
      BY <1>5, <2>4, <3>6 DEF InfoInv
  <2>6. CASE m > 2
    <3>1. 2 \in 1 .. m - 1 /\ Len(calls') > 1 /\ Len(calls') # 1
      BY <1>3, <2>6
    <3>2. calls'[2] = calls[2]
      BY <1>3, <3>1
    <3>3. Start(Len(records) + 1)' = Start(Len(records) + 1)
      BY <1>1 DEF Start
    <3>4. RecordsInv'
      BY <1>1, <1>4, <2>1, <2>3, <3>1, <3>2, <3>3 DEF RecordsInv
    <3> QED
      BY <1>5, <2>4, <3>4 DEF InfoInv
  <2> QED
    BY <1>3, <1>8, <2>5, <2>6
<1> QED
  BY <1>3, <1>7, <1>8

LEMMA DeliverInv ==
  ASSUME InfoInv, Deliver
  PROVE  InfoInv'
<1>1. /\ reading # "none" /\ calls = <<>> /\ result = NoResult
      /\ result' = [of |-> reading,
                    value |-> IF reading = "size" THEN FileSize(records)
                              ELSE TagValue(records, CodeTag(reading))]
      /\ UNCHANGED <<fields, ends, content, outer, answer, reading, calls, records>>
  BY Zenon DEF Deliver, card
<1>2. /\ Whole' = Whole
      /\ FileSize(records)' = FileSize(records)
      /\ TagValue(records, CodeTag(reading))'
            = TagValue(records, CodeTag(reading))
  <2>1. records' = records /\ reading' = reading
    BY <1>1
  <2>2. Whole' = Whole
    BY <1>1, Zenon DEF Whole
  <2>3. FileSize(records)' = FileSize(records)
    BY <2>1
  <2>4. TagValue(records, CodeTag(reading))'
            = TagValue(records, CodeTag(reading))
    BY <2>1
  <2> QED
    BY <2>2, <2>3, <2>4
<1>3. CardInv'
  BY <1>1 DEF InfoInv, CardInv, Start, Encoded
<1>4. AnswerInv'
  BY <1>1, <1>2 DEF InfoInv, AnswerInv
<1>5. CallsInv'
  BY <1>1 DEF InfoInv, CallsInv
<1>6. RecordsInv'
  BY <1>1, <1>2 DEF InfoInv, RecordsInv, Start
<1>7. ResultInv'
  BY <1>1, <1>2 DEF ResultInv
<1> QED
  BY <1>3, <1>4, <1>5, <1>6, <1>7 DEF InfoInv

LEMMA InfoStep ==
  InfoInv /\ [TlvNext]_tlvVars => InfoInv'
<1> SUFFICES ASSUME InfoInv, [TlvNext]_tlvVars PROVE InfoInv'
  OBVIOUS
<1>1. CASE UNCHANGED tlvVars
  <2>1. UNCHANGED <<fields, ends, content, outer, answer, reading, calls, records, result>>
    BY <1>1 DEF tlvVars, card
  <2>2. /\ Whole' = Whole
        /\ FileSize(records)' = FileSize(records)
        /\ TagValue(records, CodeTag(reading))'
              = TagValue(records, CodeTag(reading))
    <3>1. records' = records /\ reading' = reading
      BY <2>1
    <3>2. Whole' = Whole
      BY <2>1, Zenon DEF Whole
    <3> QED
      BY <3>1, <3>2
  <2>3. CardInv'
    BY <2>1 DEF InfoInv, CardInv, Start, Encoded
  <2>4. AnswerInv' /\ RecordsInv' /\ ResultInv'
    BY <2>1, <2>2 DEF InfoInv, AnswerInv, RecordsInv, ResultInv, Start
  <2>5. CallsInv'
    BY <2>1 DEF InfoInv, CallsInv, IsInformation
  <2> QED
    BY <2>3, <2>4, <2>5 DEF InfoInv
<1>2. ASSUME NEW f \in Fields, Put(f) PROVE InfoInv'
  BY <1>2, PutInv
<1>3. ASSUME NEW n \in 0 .. Len(Whole), ReadSize(n) PROVE InfoInv'
  BY <1>3, ReadSizeInv
<1>4. ASSUME NEW n \in 0 .. Len(Whole), NEW of \in {"counter", "changed"},
             ReadInformation(of, n)
      PROVE  InfoInv'
  BY <1>4, ReadInformationInv
<1>5. ASSUME Turn PROVE InfoInv'
  BY <1>5, TurnInv
<1>6. ASSUME Return PROVE InfoInv'
  BY <1>6, ReturnInv
<1>7. ASSUME Deliver PROVE InfoInv'
  BY <1>7, DeliverInv
<1> QED
  BY <1>1, <1>2, <1>3, <1>4, <1>5, <1>6, <1>7, Zenon DEF TlvNext

\* The parser, the card and what Thales makes of them keep the invariant, whatever fields
\* the answer has.
THEOREM InfoInvariantHolds == TlvSpec => []InfoInv
<1>1. TlvInit => InfoInv
  BY InfoInit
<1>2. InfoInv /\ [TlvNext]_tlvVars => InfoInv'
  BY InfoStep
<1> QED
  BY <1>1, <1>2, PTL DEF TlvSpec

LEMMA Announced == InfoInv => SizeAnnounced
<1> SUFFICES ASSUME InfoInv, result.of = "size" PROVE SizeAnnounced
  BY DEF SizeAnnounced
<1>1. /\ reading = "size" /\ calls = <<>>
      /\ result.value = FileSize(records)
      /\ records = IF answer = Whole THEN fields ELSE <<>>
  BY DEF InfoInv, ResultInv, RecordsInv, NoResult
<1>2. Places(<<>>, {128, 129}, 2) = {}
  BY DEF Places
<1>3. CASE answer = Whole
  BY <1>1, <1>3, Zenon DEF SizeAnnounced, Arrived, FileSize
<1>4. CASE answer # Whole
  BY <1>1, <1>2, <1>4, Zenon DEF SizeAnnounced, Arrived, FileSize
<1> QED
  BY <1>3, <1>4

LEMMA Reported == InfoInv => FieldReported
<1> SUFFICES ASSUME InfoInv, result.of \in {"counter", "changed"} PROVE FieldReported
  BY DEF FieldReported
<1>1. /\ reading = result.of /\ calls = <<>> /\ reading # "size"
      /\ result.value = TagValue(records, CodeTag(result.of))
      /\ records = IF answer = Whole /\ outer = 160 THEN fields ELSE <<>>
  BY DEF InfoInv, ResultInv, RecordsInv, NoResult
<1>2. \A tag : Places(<<>>, {tag}, 1) = {}
  BY DEF Places
<1>3. CASE answer = Whole /\ outer = 160
  BY <1>1, <1>3, Zenon DEF FieldReported, Arrived, TagValue
<1>4. CASE ~(answer = Whole /\ outer = 160)
  BY <1>1, <1>2, <1>4, Zenon DEF FieldReported, Arrived, TagValue
<1> QED
  BY <1>3, <1>4

\* Thales.readFile takes the size announced last, of any number of fields in any order,
\* and its default after a cut answer.
THEOREM SizeAnnouncedHolds == TlvSpec => []SizeAnnounced
BY InfoInvariantHolds, Announced, PTL

\* Thales.extractTagValue gives the card's field, or 0 if there is none or the answer was
\* cut.
THEOREM FieldReportedHolds == TlvSpec => []FieldReported
BY InfoInvariantHolds, Reported, PTL

-----------------------------------------------------------------------------
(* PersonalDataParser: dates of birth *)

FirstDigits(y) == {2 * ((y - 1800) \div 100) + k : k \in {1, 2}}

\* The first digit stands for a century and for man or woman.
LEMMA FirstDigit ==
  ASSUME NEW c \in 1 .. 8, NEW n \in Nat, n < 100,
         NEW y, y = n + Century(c)
  PROVE  /\ y \in Nat /\ y % 100 = n
         /\ c \in FirstDigits(y)
<1>1. CASE c \in {1, 2}
  BY <1>1 DEF Century, FirstDigits
<1>2. CASE c \in {3, 4}
  BY <1>2 DEF Century, FirstDigits
<1>3. CASE c \in {5, 6}
  BY <1>3 DEF Century, FirstDigits
<1>4. CASE c \in {7, 8}
  BY <1>4 DEF Century, FirstDigits
<1> QED
  BY <1>1, <1>2, <1>3, <1>4

LEMMA CenturyOfYear ==
  ASSUME NEW y \in 1800 .. 2199, NEW c,
         c \in FirstDigits(y)
  PROVE  c \in 1 .. 8 /\ (y % 100) + Century(c) = y
<1>1. CASE y < 1900
  BY <1>1 DEF Century, FirstDigits
<1>2. CASE 1900 <= y /\ y < 2000
  BY <1>2 DEF Century, FirstDigits
<1>3. CASE 2000 <= y /\ y < 2100
  BY <1>3 DEF Century, FirstDigits
<1>4. CASE 2100 <= y
  BY <1>4 DEF Century, FirstDigits
<1> QED
  BY <1>1, <1>2, <1>3, <1>4

LEMMA TwoDigits ==
  ASSUME NEW a \in 0 .. 9, NEW b \in 0 .. 9
  PROVE  /\ 10 * a + b \in Nat /\ 10 * a + b < 100
         /\ (10 * a + b) \div 10 = a /\ (10 * a + b) % 10 = b
OBVIOUS

LEMMA Decimal ==
  ASSUME NEW n \in Nat
  PROVE  /\ 10 * (n \div 10) + (n % 10) = n
         /\ n % 100 \in Nat /\ (n % 100) % 10 = n % 10
<1>1. 10 * (n \div 10) + (n % 10) = n
  OBVIOUS
<1>2. n % 100 \in Nat /\ (n % 100) % 10 = n % 10
  OBVIOUS
<1> QED
  BY <1>1, <1>2

LEMMA Composed ==
  ASSUME NEW n \in Nat, NEW a, NEW b, a = n \div 10, b = n % 10
  PROVE  10 * a + b = n
BY Decimal

\* A code that is taken gives the date it belongs to.
LEMMA DateOfCode ==
  ASSUME NEW c \in Seq(0 .. 9), Len(c) = 7, FromCode(c).from = "code"
  PROVE  /\ IsDate(FromCode(c).date)
         /\ c \in CodesOf(FromCode(c).date)
<1> DEFINE n == 10 * c[2] + c[3]
           y == n + Century(c[1])
           m == 10 * c[4] + c[5]
           x == 10 * c[6] + c[7]
           date == [year |-> y, month |-> m, day |-> x]
<1>1. /\ c[1] \in 0 .. 9 /\ c[2] \in 0 .. 9 /\ c[3] \in 0 .. 9 /\ c[4] \in 0 .. 9
      /\ c[5] \in 0 .. 9 /\ c[6] \in 0 .. 9 /\ c[7] \in 0 .. 9
  <2>1. \A i \in 1 .. Len(c) : c[i] \in 0 .. 9
    BY ElementOfSeq
  <2> QED
    BY <2>1
<1>2. c[1] \in 1 .. 8 /\ IsDate(date) /\ FromCode(c).date = date
  BY DEF FromCode, From, Illegal
<1>3. n \in Nat /\ n < 100 /\ n \div 10 = c[2] /\ n % 10 = c[3]
  BY <1>1, TwoDigits
<1>4. m \div 10 = c[4] /\ m % 10 = c[5] /\ x \div 10 = c[6] /\ x % 10 = c[7]
  BY <1>1, TwoDigits
<1>9. y = n + Century(c[1])
  OBVIOUS
<1> HIDE DEF n, m, x, y
<1>5. /\ y \in Nat /\ y % 100 = n
      /\ c[1] \in FirstDigits(y)
  BY <1>2, <1>3, <1>9, FirstDigit, Zenon
<1>6. y % 10 = c[3]
  <2>1. y \in Nat
    BY <1>5
  <2>2. (y % 100) % 10 = y % 10
    BY <2>1, Decimal
  <2> QED
    BY <1>3, <1>5, <2>2
<1>7. c = <<c[1], (y % 100) \div 10, y % 10, m \div 10, m % 10, x \div 10, x % 10>>
  BY <1>3, <1>4, <1>5, <1>6
<1>8. c \in CodesOf(date)
  BY <1>5, <1>7 DEF CodesOf, FirstDigits
<1> QED
  BY <1>2, <1>8

\* Every date of four centuries is got from its codes.
LEMMA CodeOfDate ==
  ASSUME NEW d \in [year : 1800 .. 2199, month : Nat, day : Nat], IsDate(d),
         NEW c \in CodesOf(d)
  PROVE  FromCode(c) = From("code", d) /\ c # <<>> /\ c[1] \in 1 .. 8
<1>1. PICK first \in FirstDigits(d.year) :
        c = <<first, (d.year % 100) \div 10, d.year % 10,
              d.month \div 10, d.month % 10, d.day \div 10, d.day % 10>>
  BY DEF CodesOf, FirstDigits
<1>2. d.year \in 1800 .. 2199 /\ d.month \in Nat /\ d.day \in Nat
  OBVIOUS
<1>3. first \in 1 .. 8 /\ (d.year % 100) + Century(first) = d.year
  BY <1>2, CenturyOfYear
<1>4. /\ c # <<>> /\ c[1] = first /\ c[2] = (d.year % 100) \div 10 /\ c[3] = d.year % 10
      /\ c[4] = d.month \div 10 /\ c[5] = d.month % 10
      /\ c[6] = d.day \div 10 /\ c[7] = d.day % 10
  BY <1>1
<1>5. 10 * c[4] + c[5] = d.month /\ 10 * c[6] + c[7] = d.day
  <2>1. 10 * c[4] + c[5] = d.month
    BY <1>2, <1>4, Composed
  <2>2. 10 * c[6] + c[7] = d.day
    BY <1>2, <1>4, Composed
  <2> QED
    BY <2>1, <2>2
<1>6. 10 * c[2] + c[3] = d.year % 100
  <2>1. d.year \in Nat
    BY <1>2
  <2>2. d.year % 100 \in Nat /\ (d.year % 100) % 10 = d.year % 10
    BY <2>1, Decimal
  <2>3. 10 * ((d.year % 100) \div 10) + ((d.year % 100) % 10) = d.year % 100
    BY <2>2, Decimal
  <2> QED
    BY <1>4, <2>2, <2>3
<1>7. 10 * c[2] + c[3] + Century(c[1]) = d.year
  BY <1>3, <1>4, <1>6
<1>8. d = [year |-> 10 * c[2] + c[3] + Century(c[1]),
           month |-> 10 * c[4] + c[5], day |-> 10 * c[6] + c[7]]
  <2>1. d = [year |-> d.year, month |-> d.month, day |-> d.day]
    OBVIOUS
  <2> QED
    BY <1>5, <1>7, <2>1
<1> QED
  BY <1>3, <1>4, <1>8 DEF FromCode

PersonInv ==
    /\ code \in Codes
    /\ \/ parsed = Open
       \/ parsed.from # "code" /\ (birth = "empty" => GenderFails \/ code = <<>>)
       \/ birth = "empty" /\ code # <<>> /\ parsed = FromCode(code)

LEMMA PersonStep ==
  PersonInv /\ [Parse]_personVars => PersonInv'
<1> SUFFICES ASSUME PersonInv, [Parse]_personVars PROVE PersonInv'
  OBVIOUS
<1>1. CASE UNCHANGED personVars
  <2>1. UNCHANGED <<gender, birth, code, parsed>>
    BY <1>1 DEF personVars
  <2>2. FromCode(code)' = FromCode(code)
        /\ (GenderFails' <=> GenderFails)
    BY <2>1 DEF GenderFails
  <2> QED
    BY <2>1, <2>2 DEF PersonInv
<1>2. CASE Parse
  <2>1. UNCHANGED <<gender, birth, code>> /\ (GenderFails' <=> GenderFails)
        /\ FromCode(code)' = FromCode(code)
    BY <1>2 DEF Parse, GenderFails
  <2> USE DEF From, Illegal, Null, PersonInv
  <2>2. CASE GenderFails /\ parsed' = Illegal
    BY <2>1, <2>2
  <2>3. CASE birth = "date" /\ parsed' = From("field", NoDate)
    BY <2>1, <2>3
  <2>4. CASE birth = "unreadable" /\ parsed' = Null
    BY <2>1, <2>4
  <2>5. CASE code = <<>> /\ parsed' = Illegal
    BY <2>1, <2>5
  <2>6. CASE birth = "empty" /\ code # <<>> /\ parsed' = FromCode(code)
    BY <2>1, <2>6
  <2> QED
    BY <1>2, <2>2, <2>3, <2>4, <2>5, <2>6, Zenon DEF Parse
<1> QED
  BY <1>1, <1>2

LEMMA PersonRead == PersonInv => DigiIdRead
<1> SUFFICES ASSUME PersonInv PROVE DigiIdRead
  OBVIOUS
<1>1. ASSUME birth = "empty", parsed # Open,
             NEW d \in Dates, IsDate(d), code \in CodesOf(d)
      PROVE  parsed = From("code", d)
  <2>1. d \in [year : 1800 .. 2199, month : Nat, day : Nat]
    BY DatesAssumption
  <2>2. FromCode(code) = From("code", d) /\ code # <<>> /\ code[1] \in 1 .. 8
    BY <1>1, <2>1, CodeOfDate
  <2> QED
    BY <1>1, <2>2, Zenon DEF PersonInv, GenderFails
<1>2. ASSUME parsed.from = "code"
      PROVE  IsDate(parsed.date) /\ code \in CodesOf(parsed.date)
  <2>1. parsed = FromCode(code) /\ code # <<>> /\ code \in Codes
    BY <1>2 DEF PersonInv, Open, From
  <2>2. code \in Seq(0 .. 9) /\ Len(code) = 7
    BY <2>1, CodesAssumption
  <2> QED
    BY <1>2, <2>1, <2>2, DateOfCode, Zenon
<1> QED
  BY <1>1, <1>2, Zenon DEF DigiIdRead

\* For every personal code and every date of the four centuries, parse gives the holder of
\* a Digi-ID that date of birth.
THEOREM DigiIdReadHolds == PersonSpec => []DigiIdRead
<1>1. PersonInit => PersonInv
  BY DEF PersonInit, PersonInv
<1>2. PersonInv => DigiIdRead
  BY PersonRead
<1> QED
  BY <1>1, <1>2, PersonStep, PTL DEF PersonSpec

-----------------------------------------------------------------------------
(* CardFile: files *)

USE ByteAssumption, SizeAssumption, LengthsAssumption

-----------------------------------------------------------------------------
(* Offsets *)

LEMMA Division ==
  ASSUME NEW n \in Nat, NEW b \in Nat, b > 0
  PROVE  /\ n \div b \in Nat /\ n % b \in 0 .. b - 1
         /\ n = (n \div b) * b + (n % b)
BY SMTT(20)

LEMMA SmallQuotient ==
  ASSUME NEW n \in Nat, NEW b \in Nat, b > 0, NEW m \in Nat, n < b * m
  PROVE  n \div b < m
BY SMTT(20)

LEMMA SmallRemainder ==
  ASSUME NEW q \in Nat, NEW b \in Nat, q < b
  PROVE  q % b = q
BY SMTT(20)

LEMMA HalfOfByte == ByteValues \div 2 \in Nat /\ ByteValues \div 2 < ByteValues
BY SMTT(20)

LEMMA LimitType == Limit \in Nat
BY HalfOfByte, SMTT(20) DEF Limit

\* P1 and P2 hold every offset below the limit, and P1 then names no file.
LEMMA OffsetFits ==
  ASSUME NEW n \in Nat, n < Limit
  PROVE  /\ (n \div ByteValues) % ByteValues \in Bytes
         /\ n % ByteValues \in Bytes
         /\ ((n \div ByteValues) % ByteValues) * ByteValues + (n % ByteValues) = n
         /\ ~((n \div ByteValues) % ByteValues >= ByteValues \div 2)
<1> DEFINE q == n \div ByteValues
<1>1. q \in Nat /\ n % ByteValues \in 0 .. ByteValues - 1 /\ n = q * ByteValues + (n % ByteValues)
  BY Division
<1>2. q < ByteValues \div 2
  BY SmallQuotient, HalfOfByte DEF Limit
<1> HIDE DEF q
<1>3. q < ByteValues
  BY <1>1, <1>2, HalfOfByte
<1>4. q % ByteValues = q
  BY <1>1, <1>3, SmallRemainder
<1>5. q \in Bytes /\ n % ByteValues \in Bytes
  BY <1>1, <1>3 DEF Bytes
<1>6. ~(q >= ByteValues \div 2)
  BY <1>1, <1>2, HalfOfByte
<1> QED
  BY <1>1, <1>4, <1>5, <1>6 DEF q

-----------------------------------------------------------------------------
(* The inductive invariant *)

\* What has been read is the beginning of the file.
ReadInv == ~garbled /\ got <= length

\* The card reads at the end of what has been read.
PlaceInv ==
    pc = "read" => /\ command.p1 = (got \div ByteValues) % ByteValues
                   /\ command.p2 = got % ByteValues

\* Thales reads as much as is announced, or DefaultSize.
SizeInv ==
    pc \in {"loop", "read"} => size = IF announced.known THEN announced.size ELSE DefaultSize

AnnouncedInv == announced.known => announced.size >= length

EndInv ==
    /\ pc # "done" => outcome = "none"
    /\ WholeFile
    /\ ThrowsOnFailure

IInv == TypeOK /\ ReadInv /\ PlaceInv /\ SizeInv /\ AnnouncedInv /\ EndInv

LEMMA LengthFits ==
  ASSUME TypeOK
  PROVE  length \in Nat /\ length < Limit /\ got \in Nat
BY LimitType DEF TypeOK

LEMMA SizesType ==
  ASSUME NEW s \in Sizes
  PROVE  s.known \in BOOLEAN /\ s.size \in Nat
<1>1. CASE s = NoSize
  BY <1>1 DEF NoSize
<1>2. ASSUME NEW n \in FileLengths, s = [known |-> TRUE, size |-> n]
      PROVE  s.known \in BOOLEAN /\ s.size \in Nat
  BY <1>2, LimitType
<1> QED
  BY <1>1, <1>2 DEF Sizes

\* The offset that the card sees is where the reader is.
LEMMA AtTheEnd ==
  ASSUME IInv, pc = "read"
  PROVE  Offset = got /\ ~Names
<1>1. got \in Nat /\ got < Limit
  BY LengthFits, LimitType DEF IInv, ReadInv
<1> QED
  BY <1>1, OffsetFits DEF IInv, PlaceInv, Offset, Names

LEMMA InitInv == Init => IInv
<1> SUFFICES ASSUME Init PROVE IInv
  OBVIOUS
<1>1. TypeOK
  <2>1. 0 \in Bytes /\ announced \in Sizes
    BY DEF Init, Bytes
  <2> QED
    BY <2>1 DEF Init, TypeOK
<1>2. ReadInv
  BY <1>1, LengthFits DEF Init, ReadInv
<1> QED
  BY <1>1, <1>2 DEF Init, IInv, PlaceInv, SizeInv, AnnouncedInv, EndInv, WholeFile,
                    ThrowsOnFailure

LEMMA StepInv == IInv /\ [Next]_vars => IInv'
<1> SUFFICES ASSUME IInv, [Next]_vars PROVE IInv'
  OBVIOUS
<1> USE DEF IInv
<1>1. length \in Nat /\ length < Limit /\ got \in Nat /\ size \in Nat
  BY LengthFits DEF TypeOK
<1>2. announced.known \in BOOLEAN /\ announced.size \in Nat
  BY SizesType DEF TypeOK
<1>3. CASE Select
  <2>1. TypeOK'
    BY <1>2, <1>3 DEF Select, TypeOK
  <2> QED
    BY <1>3, <2>1 DEF Select, ReadInv, PlaceInv, SizeInv, AnnouncedInv, EndInv, WholeFile,
                      ThrowsOnFailure
<1>4. CASE ReadBinary
  <2>1. got < Limit
    BY <1>1, LimitType DEF ReadInv
  <2>2. /\ command'.p1 = (got \div ByteValues) % ByteValues
        /\ command'.p2 = got % ByteValues
        /\ command' \in [p1 : Bytes, p2 : Bytes, le : Nat]
    <3> DEFINE le == IF kind = "ID1" THEN ByteValues ELSE Least(DefaultSize, size - got)
    <3>1. le \in Nat
      <4>1. CASE kind = "ID1"
        BY <4>1
      <4>2. CASE kind # "ID1"
        <5>1. kind = "Thales" /\ got < size
          BY <4>2, <1>4 DEF ReadBinary, More, TypeOK
        <5> QED
          BY <1>1, <4>2, <5>1 DEF Least
      <4> QED
        BY <4>1, <4>2
    <3> QED
      BY <1>1, <1>4, <2>1, <3>1, OffsetFits DEF ReadBinary
  <2>3. UNCHANGED <<kind, length, announced, size, got, garbled, outcome, faulted>> /\ pc' = "read"
        /\ pc = "loop"
    BY <1>4 DEF ReadBinary
  <2>4. TypeOK'
    BY <2>2, <2>3 DEF TypeOK
  <2> QED
    BY <2>2, <2>3, <2>4 DEF ReadInv, PlaceInv, SizeInv, AnnouncedInv, EndInv, WholeFile,
                            ThrowsOnFailure
<1>5. CASE ReadAll
  <2>1. TypeOK'
    BY <1>5 DEF ReadAll, End, TypeOK
  <2>2. \/ got = length
        \/ kind = "Thales" /\ ~announced.known /\ DefaultSize < length
    BY <1>1, <1>2, <1>5 DEF ReadAll, More, ReadInv, SizeInv, AnnouncedInv
  <2> QED
    BY <1>5, <2>1, <2>2 DEF ReadAll, End, ReadInv, PlaceInv, SizeInv, AnnouncedInv, EndInv,
                            WholeFile, ThrowsOnFailure
<1>6. ASSUME NEW n \in 1 .. ByteValues, Answered(n) PROVE IInv'
  <2>1. pc = "read" /\ Offset = got
    BY <1>6, AtTheEnd DEF Answered
  <2>2. /\ got' = got + n /\ got' \in Nat /\ got' <= length
        /\ garbled' = (garbled \/ FALSE)
    BY <1>1, <1>6, <2>1 DEF Answered, Least, TypeOK
  <2>3. pc' = "loop" /\ UNCHANGED <<kind, length, announced, size, command, outcome, faulted>>
    BY <1>6 DEF Answered
  <2>4. TypeOK'
    BY <2>2, <2>3 DEF TypeOK
  <2> QED
    BY <2>1, <2>2, <2>3, <2>4 DEF ReadInv, PlaceInv, SizeInv, AnnouncedInv, EndInv,
                                  WholeFile, ThrowsOnFailure
<1>7. CASE PastTheEnd
  <2>1. got = length
    BY <1>1, <1>7, AtTheEnd DEF PastTheEnd, ReadInv
  <2>2. TypeOK'
    BY <1>7 DEF PastTheEnd, End, TypeOK
  <2> QED
    BY <1>7, <2>1, <2>2 DEF PastTheEnd, End, ReadInv, PlaceInv, SizeInv, AnnouncedInv,
                            EndInv, WholeFile, ThrowsOnFailure
<1>8. CASE Failed
  <2>1. TypeOK'
    BY <1>8 DEF Failed, End, TypeOK
  <2> QED
    BY <1>8, <2>1 DEF Failed, End, ReadInv, PlaceInv, SizeInv, AnnouncedInv, EndInv,
                      WholeFile, ThrowsOnFailure
<1>9. CASE UNCHANGED vars
  BY <1>9 DEF vars, TypeOK, ReadInv, PlaceInv, SizeInv, AnnouncedInv, EndInv, WholeFile,
              ThrowsOnFailure
<1> QED
  BY <1>3, <1>4, <1>5, <1>6, <1>7, <1>8, <1>9 DEF Next, Token, Exchange

THEOREM InvariantHolds == Spec => []IInv
BY InitInv, StepInv, PTL DEF Spec

-----------------------------------------------------------------------------
(* The theorems *)

\* The state has the types the code gives it: P1 and P2 of READ BINARY stay bytes.
THEOREM TypeCorrect == Spec => []TypeOK
<1>1. IInv => TypeOK
  BY DEF IInv
<1> QED
  BY <1>1, InvariantHolds, PTL

\* ID1.certificate and Thales.readFile return the whole file and nothing else, however
\* the card cuts it into answers, for files of every length that can be addressed.
THEOREM WholeFileHolds == Spec => []WholeFile
<1>1. IInv => WholeFile
  BY DEF IInv, EndInv
<1> QED
  BY <1>1, InvariantHolds, PTL

\* They throw only if the card or the link failed.
THEOREM ThrowsOnFailureHolds == Spec => []ThrowsOnFailure
<1>1. IInv => ThrowsOnFailure
  BY DEF IInv, EndInv
<1> QED
  BY <1>1, InvariantHolds, PTL
===============================================================================
