-------------------- MODULE SecureMessagingCodec_proofs -----------------------
(***************************************************************************)
(* Proofs about secure messaging octet by octet: padding and the counter at *)
(* every length, block size and value, and the codec for every set of       *)
(* commands and answers within its assumptions.                            *)
(***************************************************************************)
EXTENDS SecureMessagingCodec, SequenceTheorems, WellFoundedInduction, TLAPS

-----------------------------------------------------------------------------
(* Padding and the counter *)

\* One octet and as many zeros as the last block takes.
LEMMA PaddingSize ==
  ASSUME NEW n \in Nat, NEW b \in Nat \ {0}
  PROVE  /\ n % b \in 0 .. b - 1
         /\ b - 1 - (n % b) \in Nat
BY Z3

LEMMA Multiple ==
  ASSUME NEW q \in Int, NEW b \in Nat \ {0}
  PROVE  (b * q) % b = 0
BY Z3

LEMMA Division ==
  ASSUME NEW n \in Nat, NEW b \in Nat \ {0}
  PROVE  n = b * (n \div b) + (n % b) /\ n \div b \in Nat
BY SMTT(20)

LEMMA WholeBlocks ==
  ASSUME NEW n \in Nat, NEW b \in Nat \ {0}
  PROVE  n + b - (n % b) = b * (n \div b + 1) /\ n \div b + 1 \in Int
BY Division, SMTT(20)

\* What Pad gives, octet by octet.
LEMMA PadOctets ==
  ASSUME NEW d \in Seq(Int), NEW b \in Nat \ {0}
  PROVE  /\ Pad(d, b) \in Seq(Int)
         /\ Len(Pad(d, b)) = Len(d) + b - (Len(d) % b)
         /\ Len(Pad(d, b)) > Len(d)
         /\ \A i \in 1 .. Len(d) : Pad(d, b)[i] = d[i]
         /\ Pad(d, b)[Len(d) + 1] = PADDING_SM
         /\ \A i \in Len(d) + 2 .. Len(Pad(d, b)) : Pad(d, b)[i] = 0
<1> DEFINE z == b - 1 - (Len(d) % b)
           head == d \o <<PADDING_SM>>
<1>1. z \in Nat /\ z = b - 1 - (Len(d) % b) /\ Len(d) \in Nat /\ Len(d) % b \in 0 .. b - 1
  BY PaddingSize
<1> HIDE DEF z
<1>2. Zeros(z) \in Seq(Int) /\ Len(Zeros(z)) = z /\ \A i \in 1 .. z : Zeros(z)[i] = 0
  BY <1>1 DEF Zeros, Octet
<1>3. /\ head \in Seq(Int) /\ Len(head) = Len(d) + 1
      /\ \A i \in 1 .. Len(d) : head[i] = d[i]
      /\ head[Len(d) + 1] = PADDING_SM
  BY DEF Octet, PADDING_SM
<1> HIDE DEF head
<1>4. Pad(d, b) = head \o Zeros(z)
  BY DEF Pad, head, z
<1>5. /\ Pad(d, b) \in Seq(Int)
      /\ Len(Pad(d, b)) = Len(d) + 1 + z
      /\ \A i \in 1 .. Len(d) + 1 : Pad(d, b)[i] = head[i]
      /\ \A i \in Len(d) + 2 .. Len(d) + 1 + z : Pad(d, b)[i] = Zeros(z)[i - (Len(d) + 1)]
  <2>1. /\ head \o Zeros(z) \in Seq(Int)
        /\ Len(head \o Zeros(z)) = Len(head) + Len(Zeros(z))
        /\ \A i \in 1 .. Len(head) + Len(Zeros(z)) :
              (head \o Zeros(z))[i] = IF i <= Len(head) THEN head[i]
                                      ELSE Zeros(z)[i - Len(head)]
    BY <1>2, <1>3, ConcatProperties
  <2> DEFINE whole == head \o Zeros(z)
  <2> HIDE DEF whole
  <2>2. /\ whole \in Seq(Int) /\ Len(whole) = Len(d) + 1 + z
        /\ \A i \in 1 .. Len(d) + 1 + z :
              whole[i] = IF i <= Len(d) + 1 THEN head[i] ELSE Zeros(z)[i - (Len(d) + 1)]
    BY <1>1, <1>2, <1>3, <2>1 DEF whole
  <2>3. Pad(d, b) = whole
    BY <1>4 DEF whole
  <2>4. \A i \in 1 .. Len(d) + 1 : whole[i] = head[i]
    <3>1. \A i \in 1 .. Len(d) + 1 : i \in 1 .. Len(d) + 1 + z /\ i <= Len(d) + 1
      BY <1>1
    <3> QED
      BY <2>2, <3>1, Zenon
  <2>5. \A i \in Len(d) + 2 .. Len(d) + 1 + z : whole[i] = Zeros(z)[i - (Len(d) + 1)]
    <3>1. \A i \in Len(d) + 2 .. Len(d) + 1 + z :
             i \in 1 .. Len(d) + 1 + z /\ ~(i <= Len(d) + 1)
      BY <1>1
    <3> QED
      BY <2>2, <3>1, Zenon
  <2> QED
    BY <2>2, <2>3, <2>4, <2>5, Zenon
<1>6. Len(Pad(d, b)) = Len(d) + b - (Len(d) % b) /\ Len(Pad(d, b)) > Len(d)
  BY <1>1, <1>5
<1>7. /\ \A i \in 1 .. Len(d) : Pad(d, b)[i] = d[i]
      /\ Pad(d, b)[Len(d) + 1] = PADDING_SM
  <2>1. /\ \A i \in 1 .. Len(d) : i \in 1 .. Len(d) + 1
        /\ Len(d) + 1 \in 1 .. Len(d) + 1
    BY <1>1
  <2>2. \A i \in 1 .. Len(d) + 1 : Pad(d, b)[i] = head[i]
    BY <1>5
  <2> QED
    BY <1>3, <2>1, <2>2, Zenon
<1>8. \A i \in Len(d) + 2 .. Len(Pad(d, b)) : Pad(d, b)[i] = 0
  <2> SUFFICES ASSUME NEW i \in Len(d) + 2 .. Len(Pad(d, b))
               PROVE  Pad(d, b)[i] = 0
    OBVIOUS
  <2>1. i \in Len(d) + 2 .. Len(d) + 1 + z /\ i - (Len(d) + 1) \in 1 .. z
    BY <1>1, <1>5
  <2> QED
    BY <1>2, <1>5, <2>1
<1> QED
  BY <1>5, <1>6, <1>7, <1>8

\* The padding begins at the last 80 whatever the data is: it may hold 80 itself.
LEMMA LastMark ==
  ASSUME NEW d \in Seq(Int), NEW b \in Nat \ {0},
         NEW i \in Marks(Pad(d, b)), \A j \in Marks(Pad(d, b)) : j <= i
  PROVE  i = Len(d) + 1
<1>1. Len(d) \in Nat /\ Len(d) + 1 \in DOMAIN Pad(d, b)
  BY PadOctets
<1>2. Len(d) + 1 \in Marks(Pad(d, b))
  BY <1>1, PadOctets DEF Marks
<1>3. i \in 1 .. Len(Pad(d, b)) /\ Pad(d, b)[i] = 128
  BY PadOctets DEF Marks, PADDING_SM
<1>4. ~(i \in Len(d) + 2 .. Len(Pad(d, b)))
  BY <1>3, PadOctets
<1> QED
  BY <1>1, <1>2, <1>3, <1>4

\* Unpad gives back what Pad was given: an answer of any length, with any octets in it,
\* 80 and 00 at its end too, loses nothing (Pad in encryptData, unpad in decryptAndVerify).
THEOREM UnpadPad ==
  ASSUME NEW d \in Seq(Int), NEW b \in Nat \ {0}
  PROVE  Unpad(Pad(d, b)) = d
<1> DEFINE octets == Pad(d, b)
           last == CHOOSE i \in Marks(octets) : \A j \in Marks(octets) : j <= i
<1>1. /\ Len(d) \in Nat
      /\ Len(d) + 1 \in Marks(octets)
      /\ \A j \in Marks(octets) : j <= Len(d) + 1
  <2>1. Len(d) \in Nat /\ octets \in Seq(Int) /\ Len(octets) > Len(d)
    BY PadOctets
  <2>2. Len(d) + 1 \in Marks(octets)
    BY <2>1, PadOctets DEF Marks
  <2>3. ASSUME NEW j \in Marks(octets) PROVE j <= Len(d) + 1
    <3>1. j \in 1 .. Len(octets) /\ octets[j] = 128
      BY <2>1 DEF Marks, PADDING_SM
    <3>2. ~(j \in Len(d) + 2 .. Len(octets))
      BY <3>1, PadOctets
    <3> QED
      BY <2>1, <3>1, <3>2
  <2> QED
    BY <2>1, <2>2, <2>3
<1>2. last = Len(d) + 1
  <2>1. last \in Marks(octets) /\ \A j \in Marks(octets) : j <= last
    BY <1>1
  <2> QED
    BY <2>1, LastMark
<1>3. Unpad(octets) = SubSeq(octets, 1, Len(d))
  <2>1. Unpad(octets) = SubSeq(octets, 1, last - 1)
    BY <1>1 DEF Unpad
  <2> HIDE DEF last
  <2> QED
    BY <1>1, <1>2, <2>1
<1>4. SubSeq(octets, 1, Len(d)) = d
  BY <1>1, PadOctets
<1> QED
  BY <1>3, <1>4

\* What is encrypted fills its blocks, and is at most one block longer than the data.
THEOREM PadFillsBlocks ==
  ASSUME NEW d \in Seq(Int), NEW b \in Nat \ {0}
  PROVE  /\ Len(Pad(d, b)) % b = 0
         /\ Len(Pad(d, b)) \in Len(d) + 1 .. Len(d) + b
<1>1. Len(d) \in Nat /\ Len(d) % b \in 0 .. b - 1
  BY PaddingSize
<1>2. Len(Pad(d, b)) = Len(d) + b - (Len(d) % b)
  BY PadOctets
<1>3. Len(Pad(d, b)) % b = 0
  <2> DEFINE q == Len(d) \div b + 1
  <2>1. Len(Pad(d, b)) = b * q /\ q \in Int
    BY <1>1, <1>2, WholeBlocks
  <2> QED
    BY <2>1, Multiple
<1>4. Len(Pad(d, b)) \in Len(d) + 1 .. Len(d) + b
  BY <1>1, <1>2
<1> QED
  BY <1>3, <1>4

\* Different data is different when padded: the card and the reader never take one
\* message for another because of the padding.
THEOREM PadInjective ==
  ASSUME NEW c \in Seq(Int), NEW d \in Seq(Int), NEW b \in Nat \ {0},
         Pad(c, b) = Pad(d, b)
  PROVE  c = d
BY UnpadPad

\* A set of positions has a last one.
LEMMA LastPosition ==
  ASSUME NEW n \in Nat, NEW T, T \subseteq 1 .. n, T # {}
  PROVE  \E i \in T : \A j \in T : j <= i
<1> DEFINE distances == {n - i : i \in T}
           less == {p \in Nat \X Nat : p[1] < p[2]}
<1>1. distances \subseteq Nat /\ distances # {}
  <2>1. PICK i \in T : TRUE
    OBVIOUS
  <2>2. n - i \in distances
    BY <2>1
  <2>3. \A j \in T : n - j \in Nat
    OBVIOUS
  <2> QED
    BY <2>2, <2>3
<1>2. PICK m \in distances : \A k \in distances : ~(<<k, m>> \in less)
  <2>1. IsWellFoundedOn(less, Nat)
    BY NatLessThanWellFounded DEF OpToRel
  <2> HIDE DEF distances, less
  <2> QED
    BY <1>1, <2>1, WFMin
<1>3. \A k \in distances : m <= k
  <2> SUFFICES ASSUME NEW k \in distances PROVE m <= k
    OBVIOUS
  <2>1. k \in Nat /\ m \in Nat /\ ~(<<k, m>> \in less)
    BY <1>1, <1>2
  <2>2. ~(k < m)
    BY <2>1
  <2> QED
    BY <2>1, <2>2
<1>4. PICK i \in T : m = n - i
  OBVIOUS
<1>5. \A j \in T : j <= i
  <2> SUFFICES ASSUME NEW j \in T PROVE j <= i
    OBVIOUS
  <2>1. n - j \in distances
    OBVIOUS
  <2> QED
    BY <1>3, <1>4, <2>1
<1> QED
  BY <1>5

LEMMA NextOctet ==
  ASSUME NEW a \in 0 .. 255
  PROVE  /\ (a + 1) % 256 \in 0 .. 255
         /\ a # 255 => (a + 1) % 256 = a + 1 /\ (a + 1) % 256 # 0
<1>1. CASE a = 255
  BY <1>1
<1>2. CASE a # 255
  <2>1. a + 1 \in Nat /\ a + 1 < 256 /\ a + 1 # 0
    BY <1>2
  <2>2. (a + 1) % 256 = a + 1
    BY <2>1
  <2> QED
    BY <2>1, <2>2
<1> QED
  BY <1>1, <1>2

LEMMA Moves ==
  ASSUME NEW a \in 0 .. 255
  PROVE  (a + 1) % 256 # a
BY Z3

LEMMA IncrementType ==
  ASSUME NEW s \in Seq(Octet)
  PROVE  /\ IncrementSSC(s) \in Seq(Octet)
         /\ Len(IncrementSSC(s)) = Len(s)
         /\ DOMAIN IncrementSSC(s) = 1 .. Len(s)
<1>1. DOMAIN s = 1 .. Len(s) /\ \A i \in 1 .. Len(s) : s[i] \in Octet
  OBVIOUS
<1>2. ASSUME NEW i \in 1 .. Len(s)
      PROVE  (s[i] + 1) % 256 \in Octet
  BY <1>1, NextOctet DEF Octet
<1>3. IncrementSSC(s) = [i \in 1 .. Len(s) |-> IncrementSSC(s)[i]]
      /\ \A i \in 1 .. Len(s) : IncrementSSC(s)[i] \in Octet
  BY <1>1, <1>2 DEF IncrementSSC
<1> QED
  BY <1>3

LEMMA SameRemainder ==
  ASSUME NEW a \in 0 .. 255, NEW b \in 0 .. 255, (a + 1) % 256 = (b + 1) % 256
  PROVE  a = b
BY Z3

\* The octets that wrap are those that are 255 with all that follow them.
LEMMA Wraps ==
  ASSUME NEW s \in Seq(Octet), NEW i \in 1 .. Len(s)
  PROVE  (\A j \in 1 .. Len(s) : j > i => s[j] = 255)
           <=> (\A j \in 1 .. Len(s) : j > i => IncrementSSC(s)[j] = 0)
<1>1. Len(s) \in Nat /\ DOMAIN s = 1 .. Len(s) /\ \A j \in 1 .. Len(s) : s[j] \in Octet
  OBVIOUS
<1>2. ASSUME \A j \in 1 .. Len(s) : j > i => s[j] = 255,
             NEW j \in 1 .. Len(s), j > i
      PROVE  IncrementSSC(s)[j] = 0
  BY <1>1, <1>2 DEF IncrementSSC
<1>3. ASSUME NEW k \in 1 .. Len(s), k > i, s[k] # 255
      PROVE  \E j \in 1 .. Len(s) : j > i /\ IncrementSSC(s)[j] # 0
  <2> DEFINE others == {j \in 1 .. Len(s) : j > i /\ s[j] # 255}
  <2>1. PICK j \in others : \A m \in others : m <= j
    <3>1. others \subseteq 1 .. Len(s) /\ others # {}
      BY <1>3
    <3> HIDE DEF others
    <3> QED
      BY <1>1, <3>1, LastPosition
  <2>2. \A m \in 1 .. Len(s) : m > j => s[m] = 255
    BY <1>1, <2>1
  <2>3. IncrementSSC(s)[j] = (s[j] + 1) % 256 /\ s[j] \in 0 .. 254
    BY <1>1, <2>1, <2>2 DEF IncrementSSC, Octet
  <2>4. s[j] \in 0 .. 255 /\ s[j] # 255
    BY <2>3
  <2>5. IncrementSSC(s)[j] # 0
    BY <2>3, <2>4, NextOctet
  <2>6. j \in 1 .. Len(s) /\ j > i
    BY <2>1
  <2> QED
    BY <2>5, <2>6
<1> QED
  BY <1>2, <1>3

\* No two values of the counter have the same successor, at any width (incrementSSC):
\* two counters that differ stay different.
THEOREM IncrementInjective ==
  ASSUME NEW s \in Seq(Octet), NEW t \in Seq(Octet), Len(s) = Len(t),
         IncrementSSC(s) = IncrementSSC(t)
  PROVE  s = t
<1>1. \A i \in 1 .. Len(s) : s[i] \in Octet /\ t[i] \in Octet
  OBVIOUS
<1>2. ASSUME NEW i \in 1 .. Len(s)
      PROVE  s[i] = t[i]
  <2>1. (\A j \in 1 .. Len(s) : j > i => s[j] = 255)
          <=> (\A j \in 1 .. Len(s) : j > i => t[j] = 255)
    <3>1. (\A j \in 1 .. Len(s) : j > i => s[j] = 255)
            <=> (\A j \in 1 .. Len(s) : j > i => IncrementSSC(s)[j] = 0)
      BY Wraps
    <3>2. i \in 1 .. Len(t)
      OBVIOUS
    <3>3. (\A j \in 1 .. Len(t) : j > i => t[j] = 255)
            <=> (\A j \in 1 .. Len(t) : j > i => IncrementSSC(t)[j] = 0)
      BY <3>2, Wraps
    <3>4. \A j \in 1 .. Len(s) : IncrementSSC(s)[j] = IncrementSSC(t)[j]
      BY Zenon
    <3>5. 1 .. Len(t) = 1 .. Len(s)
      BY Zenon
    <3> QED
      BY <3>1, <3>3, <3>4, <3>5
  <2>2. CASE \A j \in 1 .. Len(s) : j > i => s[j] = 255
    <3>1. IncrementSSC(s)[i] = (s[i] + 1) % 256 /\ IncrementSSC(t)[i] = (t[i] + 1) % 256
      BY <2>1, <2>2 DEF IncrementSSC
    <3>2. (s[i] + 1) % 256 = (t[i] + 1) % 256
      BY <3>1
    <3>3. s[i] \in 0 .. 255 /\ t[i] \in 0 .. 255
      BY <1>1 DEF Octet
    <3> QED
      BY <3>2, <3>3, SameRemainder
  <2>3. CASE ~ \A j \in 1 .. Len(s) : j > i => s[j] = 255
    BY <2>1, <2>3 DEF IncrementSSC
  <2> QED
    BY <2>2, <2>3
<1> QED
  BY <1>2, SeqEqual

\* The counter never stands still: a command and its answer are never protected under
\* the same value.
THEOREM IncrementMoves ==
  ASSUME NEW s \in Seq(Octet), s # <<>>
  PROVE  IncrementSSC(s) # s
<1>1. Len(s) \in 1 .. Len(s) /\ s[Len(s)] \in Octet
  OBVIOUS
<1>2. IncrementSSC(s)[Len(s)] = (s[Len(s)] + 1) % 256
  BY <1>1 DEF IncrementSSC
<1>3. (s[Len(s)] + 1) % 256 # s[Len(s)]
  BY <1>1, Moves DEF Octet
<1> QED
  BY <1>2, <1>3

-----------------------------------------------------------------------------
(* The octets of data objects *)

LEMMA Joined ==
  ASSUME NEW s \in Seq(Int), NEW t \in Seq(Int)
  PROVE  /\ s \o t \in Seq(Int)
         /\ Len(s) \in Nat /\ Len(t) \in Nat
         /\ Len(s \o t) = Len(s) + Len(t)
         /\ \A i \in 1 .. Len(s) : (s \o t)[i] = s[i]
         /\ \A i \in 1 .. Len(t) : (s \o t)[Len(s) + i] = t[i]
<1>1. /\ s \o t \in Seq(Int)
      /\ Len(s \o t) = Len(s) + Len(t)
      /\ \A i \in 1 .. Len(s) + Len(t) :
            (s \o t)[i] = IF i <= Len(s) THEN s[i] ELSE t[i - Len(s)]
  BY ConcatProperties
<1>2. Len(s) \in Nat /\ Len(t) \in Nat
  OBVIOUS
<1> DEFINE whole == s \o t
<1> HIDE DEF whole
<1>3. \A i \in 1 .. Len(s) + Len(t) :
            whole[i] = IF i <= Len(s) THEN s[i] ELSE t[i - Len(s)]
  BY <1>1 DEF whole
<1>4. \A i \in 1 .. Len(s) : whole[i] = s[i]
  BY <1>2, <1>3
<1>5. \A i \in 1 .. Len(t) : whole[Len(s) + i] = t[i]
  <2> SUFFICES ASSUME NEW i \in 1 .. Len(t) PROVE whole[Len(s) + i] = t[i]
    OBVIOUS
  <2> DEFINE m == Len(s) + i
  <2>1. m \in 1 .. Len(s) + Len(t) /\ ~(m <= Len(s)) /\ m - Len(s) = i
    BY <1>2
  <2> HIDE DEF m
  <2>2. whole[m] = t[i]
    BY <1>3, <2>1
  <2> QED
    BY <2>2 DEF m
<1> QED
  BY <1>1, <1>2, <1>4, <1>5 DEF whole

\* BER: the first octet tells how many follow.
\* The longest value whose length has two octets.
Longest == 65535

LEMMA LengthOctets ==
  ASSUME NEW n \in Nat, n <= Longest
  PROVE  /\ Length(n) \in Seq(Int)
         /\ n < 128 => Len(Length(n)) = 1 /\ Length(n)[1] = n
         /\ 128 <= n /\ n < 256 =>
               Len(Length(n)) = 2 /\ Length(n)[1] = 129 /\ Length(n)[2] = n
         /\ 256 <= n => /\ Len(Length(n)) = 3 /\ Length(n)[1] = 130
                        /\ 256 * Length(n)[2] + Length(n)[3] = n
<1>1. CASE n < 128
  <2>1. Length(n) = <<n>>
    BY <1>1 DEF Length
  <2> QED
    BY <1>1, <2>1
<1>2. CASE 128 <= n /\ n < 256
  <2>1. Length(n) = <<129, n>>
    BY <1>2 DEF Length
  <2> QED
    BY <1>2, <2>1
<1>3. CASE 256 <= n
  <2> DEFINE high == n \div 256
             low == n % 256
  <2>1. Length(n) = <<130, high, low>>
    BY <1>3 DEF Length
  <2>2. high \in Int /\ low \in Int /\ 256 * high + low = n
    BY Division
  <2> HIDE DEF high, low
  <2> QED
    BY <1>3, <2>1, <2>2
<1> QED
  BY <1>1, <1>2, <1>3

LEMMA LengthType ==
  ASSUME NEW n \in Nat, n <= Longest
  PROVE  Length(n) \in Seq(Int) /\ Len(Length(n)) \in Nat \ {0}
BY LengthOctets

\* A tag, a length and the value.
LEMMA ObjectOctets ==
  ASSUME NEW tag \in Int, NEW value \in Seq(Int), Len(value) <= Longest
  PROVE  LET octets == Object(tag, value)
             length == Length(Len(value))
         IN  /\ octets \in Seq(Int) /\ length \in Seq(Int)
             /\ Len(length) \in Nat \ {0}
             /\ Len(octets) = 1 + Len(length) + Len(value)
             /\ octets[1] = tag
             /\ \A i \in 1 .. Len(length) : octets[1 + i] = length[i]
             /\ \A i \in 1 .. Len(value) : octets[1 + Len(length) + i] = value[i]
<1> DEFINE length == Length(Len(value))
           head == <<tag>> \o length
<1>1. length \in Seq(Int) /\ Len(length) \in Nat \ {0}
  <2>1. Len(value) \in Nat
    OBVIOUS
  <2> QED
    BY <2>1, LengthType, Zenon
<1> HIDE DEF length
<1>2. <<tag>> \in Seq(Int) /\ Len(<<tag>>) = 1 /\ <<tag>>[1] = tag
  OBVIOUS
<1>3. /\ head \in Seq(Int) /\ Len(head) = 1 + Len(length)
      /\ head[1] = tag
      /\ \A i \in 1 .. Len(length) : head[1 + i] = length[i]
  <2>1. /\ head \in Seq(Int) /\ Len(head) = Len(<<tag>>) + Len(length)
        /\ \A i \in 1 .. Len(<<tag>>) : head[i] = <<tag>>[i]
        /\ \A i \in 1 .. Len(length) : head[Len(<<tag>>) + i] = length[i]
    BY <1>1, <1>2, Joined
  <2> HIDE DEF head
  <2> QED
    BY <1>2, <2>1
<1> HIDE DEF head
<1> DEFINE octets == head \o value
<1>4. /\ octets \in Seq(Int) /\ Len(octets) = Len(head) + Len(value)
      /\ \A i \in 1 .. Len(head) : octets[i] = head[i]
      /\ \A i \in 1 .. Len(value) : octets[Len(head) + i] = value[i]
  BY <1>3, Joined, Zenon
<1> HIDE DEF octets
<1>5. \A i \in 1 .. Len(length) : 1 + i \in 1 .. Len(head)
  BY <1>1, <1>3
<1>6. octets[1] = tag /\ \A i \in 1 .. Len(length) : octets[1 + i] = length[i]
  <2>1. 1 \in 1 .. Len(head)
    BY <1>1, <1>3
  <2> QED
    BY <1>3, <1>4, <1>5, <2>1
<1>7. Object(tag, value) = octets
  BY DEF Object, octets, head, length
<1>8. /\ Len(octets) = 1 + Len(length) + Len(value)
      /\ \A i \in 1 .. Len(value) : octets[1 + Len(length) + i] = value[i]
  BY <1>3, <1>4
<1> QED
  BY <1>1, <1>4, <1>6, <1>7, <1>8, Zenon DEF length

LEMMA Pair ==
  ASSUME NEW a \in Int, NEW b \in Int
  PROVE  <<a>> \o <<b>> = <<a, b>>
<1> DEFINE p == <<a>>
           q == <<b>>
           s == <<a, b>>
<1>1. /\ p \in Seq(Int) /\ Len(p) = 1 /\ p[1] = a
      /\ q \in Seq(Int) /\ Len(q) = 1 /\ q[1] = b
      /\ s \in Seq(Int) /\ Len(s) = 2 /\ s[1] = a /\ s[2] = b
  OBVIOUS
<1> HIDE DEF p, q, s
<1> DEFINE t == p \o q
<1>2. /\ t \in Seq(Int) /\ Len(t) = Len(p) + Len(q)
      /\ \A i \in 1 .. Len(p) : t[i] = p[i]
      /\ \A i \in 1 .. Len(q) : t[Len(p) + i] = q[i]
  BY <1>1, Joined
<1> HIDE DEF t
<1>3. Len(t) = Len(s) /\ t[1] = s[1] /\ t[2] = s[2]
  BY <1>1, <1>2
<1>4. \A i \in 1 .. Len(t) : t[i] = s[i]
  BY <1>1, <1>3
<1>5. t = s
  BY <1>1, <1>2, <1>3, <1>4, SeqEqual
<1> QED
  BY <1>5 DEF p, q, s, t

\* An object of a short value.
LEMMA ShortObject ==
  ASSUME NEW tag \in Int, NEW value \in Seq(Int), Len(value) < 128
  PROVE  Object(tag, value) = <<tag, Len(value)>> \o value
<1> DEFINE n == Len(value)
<1>1. n \in Nat /\ n < 128
  OBVIOUS
<1> HIDE DEF n
<1>2. Length(n) = <<n>>
  BY <1>1 DEF Length
<1>3. <<tag>> \o <<n>> = <<tag, n>>
  BY <1>1, Pair
<1>4. Object(tag, value) = <<tag>> \o Length(n) \o value
  BY DEF Object, n
<1>5. Object(tag, value) = <<tag, n>> \o value
  BY <1>2, <1>3, <1>4, Zenon
<1> QED
  BY <1>5 DEF n

LEMMA Blocks ==
  ASSUME NEW n \in Nat
  PROVE  /\ 16 * (n \div 16 + 1) \in Nat
         /\ 16 * (n \div 16 + 1) = n + 16 - (n % 16)
         /\ n % 16 \in 0 .. 15
BY SMTT(20)

\* ISO 7816-4 pads as pad does.
LEMMA SamePadding ==
  ASSUME NEW octets \in Seq(Int)
  PROVE  IsoPadded(octets) = Pad(octets, 16)
<1> DEFINE n == Len(octets)
           blocks == 16 * (n \div 16 + 1)
           iso == IsoPadded(octets)
           padded == Pad(octets, 16)
<1>1. n \in Nat /\ \A i \in 1 .. n : octets[i] \in Int
  OBVIOUS
<1>2. blocks \in Nat /\ blocks = n + 16 - (n % 16) /\ n % 16 \in 0 .. 15
  BY <1>1, Blocks
<1>3. /\ padded \in Seq(Int) /\ Len(padded) = n + 16 - (n % 16)
      /\ \A i \in 1 .. n : padded[i] = octets[i]
      /\ padded[n + 1] = 128
      /\ \A i \in n + 2 .. Len(padded) : padded[i] = 0
  BY PadOctets DEF PADDING_SM
<1>4. iso = [i \in 1 .. blocks |->
                IF i <= n THEN octets[i] ELSE IF i = n + 1 THEN 128 ELSE 0]
  BY DEF IsoPadded
<1> HIDE DEF n, blocks, iso, padded
<1>5. iso \in Seq(Int) /\ Len(iso) = blocks
  BY <1>1, <1>2, <1>4
<1>6. ASSUME NEW i \in 1 .. Len(iso) PROVE iso[i] = padded[i]
  <2>1. i \in 1 .. blocks
    BY <1>5
  <2>2. iso[i] = IF i <= n THEN octets[i] ELSE IF i = n + 1 THEN 128 ELSE 0
    BY <1>4, <2>1
  <2>3. i \in 1 .. n \/ i = n + 1 \/ i \in n + 2 .. Len(padded)
    BY <1>1, <1>2, <1>3, <2>1
  <2>4. CASE i \in 1 .. n
    BY <1>1, <1>3, <2>2, <2>4
  <2>5. CASE i = n + 1
    BY <1>1, <1>3, <2>2, <2>5
  <2>6. CASE i \in n + 2 .. Len(padded)
    BY <1>1, <1>3, <2>2, <2>6
  <2> QED
    BY <2>3, <2>4, <2>5, <2>6
<1>7. Len(iso) = Len(padded)
  BY <1>2, <1>3, <1>5
<1>8. iso = padded
  BY <1>3, <1>5, <1>6, <1>7, SeqEqual
<1> QED
  BY <1>8 DEF iso, padded

LEMMA Ciphered ==
  ASSUME NEW octets \in Seq(Int)
  PROVE  /\ Encrypted(octets) \in Seq(Int)
         /\ Len(Encrypted(octets)) = Len(octets)
         /\ Decrypted(Encrypted(octets)) = octets
<1>1. /\ DOMAIN octets = 1 .. Len(octets) /\ Len(octets) \in Nat
      /\ \A i \in 1 .. Len(octets) : octets[i] \in Int
  OBVIOUS
<1> DEFINE cipher == Encrypted(octets)
           plain == Decrypted(cipher)
<1>2. cipher = [i \in 1 .. Len(octets) |-> octets[i] + 256]
  BY <1>1 DEF Encrypted
<1> HIDE DEF cipher
<1>3. /\ cipher \in Seq(Int) /\ Len(cipher) = Len(octets)
      /\ \A i \in 1 .. Len(octets) : cipher[i] = octets[i] + 256
  BY <1>1, <1>2
<1>4. DOMAIN cipher = 1 .. Len(octets)
  BY <1>3
<1>5. plain = [i \in 1 .. Len(octets) |-> cipher[i] - 256]
  BY <1>4 DEF Decrypted
<1>6. \A i \in 1 .. Len(octets) : cipher[i] - 256 = octets[i]
  <2> SUFFICES ASSUME NEW i \in 1 .. Len(octets) PROVE cipher[i] - 256 = octets[i]
    OBVIOUS
  <2>1. cipher[i] = octets[i] + 256 /\ octets[i] \in Int
    BY <1>1, <1>3
  <2> QED
    BY <2>1
<1> HIDE DEF plain
<1>7. /\ plain \in Seq(Int) /\ Len(plain) = Len(octets)
      /\ \A i \in 1 .. Len(octets) : plain[i] = octets[i]
  BY <1>1, <1>5, <1>6
<1>8. plain = octets
  BY <1>7, SeqEqual
<1> QED
  BY <1>3, <1>8 DEF cipher, plain

\* The octets that copyOfRange takes from inside.
LEMMA PartOctets ==
  ASSUME NEW r \in Seq(Int), NEW i \in Nat, NEW j \in i .. Len(r)
  PROVE  /\ Part(r, i, j) \in Seq(Int)
         /\ Len(Part(r, i, j)) = j - i
         /\ \A k \in 1 .. j - i : Part(r, i, j)[k] = r[i + k]
<1>1. /\ j \in Nat /\ j - i \in Nat /\ Len(r) \in Nat
      /\ \A k \in 1 .. j - i : i + k \in 1 .. Len(r) /\ i + k <= Len(r)
  OBVIOUS
<1>2. \A k \in 1 .. Len(r) : r[k] \in Int
  OBVIOUS
<1>3. Part(r, i, j) = [k \in 1 .. j - i |-> r[i + k]]
  BY <1>1 DEF Part
<1>4. \A k \in 1 .. j - i : r[i + k] \in Int
  BY <1>1, <1>2
<1> DEFINE n == j - i
<1> HIDE DEF n
<1>5. n \in Nat /\ Part(r, i, j) = [k \in 1 .. n |-> r[i + k]]
      /\ \A k \in 1 .. n : r[i + k] \in Int
  BY <1>1, <1>3, <1>4 DEF n
<1>6. /\ Part(r, i, j) \in Seq(Int) /\ Len(Part(r, i, j)) = n
      /\ \A k \in 1 .. n : Part(r, i, j)[k] = r[i + k]
  BY <1>5
<1> QED
  BY <1>6 DEF n

-----------------------------------------------------------------------------
(* What the reader reads of a data object *)

LEMMA AtOctet ==
  ASSUME NEW r \in Seq(Int), NEW i \in Nat, i < Len(r)
  PROVE  At(r, i) = r[i + 1] /\ At(r, i) \in Int
<1>1. i \in 0 .. Len(r) - 1 /\ i + 1 \in 1 .. Len(r)
  OBVIOUS
<1>2. At(r, i) = r[i + 1]
  BY <1>1 DEF At
<1>3. r[i + 1] \in Int
  BY <1>1
<1> QED
  BY <1>2, <1>3

LEMMA Value1 ==
  ASSUME NEW s \in Seq(Int), Len(s) = 1
  PROVE  Value(s) = s[1]
<1>1. s[1] \in Int
  OBVIOUS
<1>2. ~(2 < Len(s)) /\ ~(1 < Len(s)) /\ 0 < Len(s) /\ Len(s) - 0 = 1
  OBVIOUS
<1>3. Value(s) = 256 * 256 * 0 + 256 * 0 + s[1]
  BY <1>2 DEF Value
<1> QED
  BY <1>1, <1>3

LEMMA Value2 ==
  ASSUME NEW s \in Seq(Int), Len(s) = 2
  PROVE  Value(s) = 256 * s[1] + s[2]
<1>1. s[1] \in Int /\ s[2] \in Int
  OBVIOUS
<1>2. ~(2 < Len(s)) /\ 1 < Len(s) /\ 0 < Len(s) /\ Len(s) - 1 = 1 /\ Len(s) - 0 = 2
  OBVIOUS
<1>3. Value(s) = 256 * 256 * 0 + 256 * s[1] + s[2]
  BY <1>2 DEF Value
<1> QED
  BY <1>1, <1>3

\* One form of the length: the first octet and what follows it.
LEMMA LengthRead ==
  ASSUME NEW r \in Seq(Int), NEW n \in Nat, n <= Longest,
         1 + Len(Length(n)) <= Len(r),
         \A i \in 1 .. Len(Length(n)) : r[1 + i] = Length(n)[i]
  PROVE  LET first  == At(r, 1)
             octets == IF first > 128 THEN first % 16 ELSE 0
             size   == IF octets = 0 /\ first <= 128 THEN first
                       ELSE IF octets > 3 THEN 256 * 256
                       ELSE Value(Part(r, 2, 2 + octets))
         IN  1 + octets = Len(Length(n)) /\ size = n
<1> DEFINE first == At(r, 1)
           octets == IF first > 128 THEN first % 16 ELSE 0
           size == IF octets = 0 /\ first <= 128 THEN first
                   ELSE IF octets > 3 THEN 256 * 256
                   ELSE Value(Part(r, 2, 2 + octets))
           length == Length(n)
<1>1. /\ length \in Seq(Int) /\ Len(length) \in Nat \ {0}
      /\ n < 128 => Len(length) = 1 /\ length[1] = n
      /\ 128 <= n /\ n < 256 => Len(length) = 2 /\ length[1] = 129 /\ length[2] = n
      /\ 256 <= n => /\ Len(length) = 3 /\ length[1] = 130
                     /\ 256 * length[2] + length[3] = n
  BY LengthOctets, LengthType
<1>2. /\ 1 + Len(length) <= Len(r)
      /\ \A i \in 1 .. Len(length) : r[1 + i] = length[i]
  OBVIOUS
<1> HIDE DEF length
<1>3. first = length[1] /\ r[2] = length[1]
  <2>1. 1 \in 1 .. Len(length) /\ 1 < Len(r) /\ 1 + 1 = 2
    BY <1>1, <1>2
  <2>2. r[2] = length[1]
    BY <1>2, <2>1
  <2> QED
    BY <2>1, <2>2, AtOctet
<1> HIDE DEF first
<1>4. CASE n < 128
  <2>1. first = n /\ Len(length) = 1
    BY <1>1, <1>3, <1>4
  <2> QED
    BY <1>4, <2>1 DEF first, length
<1>5. CASE 128 <= n /\ n < 256
  <2>1. first = 129 /\ Len(length) = 2 /\ length[2] = n
    BY <1>1, <1>3, <1>5
  <2>2. octets = 1
    BY <2>1
  <2>3. size = Value(Part(r, 2, 3))
    BY <2>1, <2>2
  <2>4. /\ Part(r, 2, 3) \in Seq(Int) /\ Len(Part(r, 2, 3)) = 1
        /\ Part(r, 2, 3)[1] = r[3]
    <3>1. 3 \in 2 .. Len(r) /\ 2 \in Nat /\ 3 - 2 = 1
      BY <1>2, <2>1
    <3>2. 1 \in 1 .. 1 /\ 2 + 1 = 3
      OBVIOUS
    <3>3. /\ Part(r, 2, 3) \in Seq(Int) /\ Len(Part(r, 2, 3)) = 3 - 2
          /\ \A k \in 1 .. 3 - 2 : Part(r, 2, 3)[k] = r[2 + k]
      BY <3>1, PartOctets, Zenon
    <3> QED
      BY <3>1, <3>2, <3>3, Zenon
  <2>5. r[3] = length[2]
    <3>1. 2 \in 1 .. Len(length) /\ 1 + 2 = 3
      BY <2>1
    <3> QED
      BY <1>2, <3>1
  <2>6. size = n
    BY <2>1, <2>3, <2>4, <2>5, Value1
  <2> QED
    BY <2>1, <2>2, <2>6 DEF first, length
<1>6. CASE 256 <= n
  <2>1. first = 130 /\ Len(length) = 3 /\ 256 * length[2] + length[3] = n
    BY <1>1, <1>3, <1>6
  <2>2. octets = 2
    BY <2>1
  <2>3. size = Value(Part(r, 2, 4))
    BY <2>1, <2>2
  <2>4. /\ Part(r, 2, 4) \in Seq(Int) /\ Len(Part(r, 2, 4)) = 2
        /\ Part(r, 2, 4)[1] = r[3] /\ Part(r, 2, 4)[2] = r[4]
    <3>1. 4 \in 2 .. Len(r) /\ 2 \in Nat /\ 4 - 2 = 2
      BY <1>2, <2>1
    <3>2. 1 \in 1 .. 2 /\ 2 \in 1 .. 2 /\ 2 + 1 = 3 /\ 2 + 2 = 4
      OBVIOUS
    <3>3. /\ Part(r, 2, 4) \in Seq(Int) /\ Len(Part(r, 2, 4)) = 4 - 2
          /\ \A k \in 1 .. 4 - 2 : Part(r, 2, 4)[k] = r[2 + k]
      BY <3>1, PartOctets, Zenon
    <3> QED
      BY <3>1, <3>2, <3>3, Zenon
  <2>5. r[3] = length[2] /\ r[4] = length[3]
    <3>1. /\ 2 \in 1 .. Len(length) /\ 1 + 2 = 3
          /\ 3 \in 1 .. Len(length) /\ 1 + 3 = 4
      BY <2>1
    <3> QED
      BY <1>2, <3>1
  <2>6. size = n
    BY <2>1, <2>3, <2>4, <2>5, Value2
  <2> QED
    BY <2>1, <2>2, <2>6 DEF first, length
<1> QED
  BY <1>4, <1>5, <1>6

\* The ciphertext is found where it is, behind DO87 or DO85 with any length.
LEMMA HeaderRead ==
  ASSUME NEW r \in Seq(Int), NEW n \in Nat \ {0}, n <= Longest, NEW tag \in {DO85, DO87},
         1 + Len(Length(n)) + n <= Len(r),
         r[1] = tag,
         \A i \in 1 .. Len(Length(n)) : r[1 + i] = Length(n)[i],
         tag = DO87 => r[1 + Len(Length(n)) + 1] = 1
  PROVE  CipherText(r) =
            [from |-> 1 + Len(Length(n)) + IF tag = DO87 THEN 1 ELSE 0,
             to   |-> 1 + Len(Length(n)) + n]
<1> DEFINE first == At(r, 1)
           octets == IF first > 128 THEN first % 16 ELSE 0
           size == IF octets = 0 /\ first <= 128 THEN first
                   ELSE IF octets > 3 THEN 256 * 256
                   ELSE Value(Part(r, 2, 2 + octets))
           header == 2 + octets
           skip == IF At(r, 0) = DO87 THEN 1 ELSE 0
           l == Len(Length(n))
<1>1. CipherText(r) =
        IF At(r, 0) \notin {DO85, DO87} THEN [from |-> 0, to |-> 0]
        ELSE IF skip = 1 /\ At(r, header) # 1 THEN [from |-> Len(r), to |-> Len(r)]
        ELSE [from |-> header + skip, to |-> header + size]
  BY Zenon DEF CipherText
<1>2. l \in Nat \ {0}
  BY LengthType
<1>3. 1 + l + n <= Len(r) /\ (tag = DO87 => r[1 + l + 1] = 1)
  OBVIOUS
<1>4. 1 + octets = l /\ size = n
  <2>1. 1 + Len(Length(n)) <= Len(r)
    BY <1>2, <1>3
  <2> QED
    BY <2>1, LengthRead, Zenon
<1>5. At(r, 0) = tag
  BY <1>2, <1>3, AtOctet
<1>6. header = 1 + l
  <2>1. octets \in Int
    <3>1. 1 \in Nat /\ 1 < Len(r)
      BY <1>2, <1>3
    <3>2. first \in Int
      BY <3>1, AtOctet
    <3> QED
      BY <3>2
  <2> HIDE DEF octets, l
  <2> QED
    BY <1>2, <1>4, <2>1
<1> HIDE DEF octets, size, l
<1>7. tag = DO87 => At(r, header) = 1
  <2>1. header \in Nat /\ header < Len(r) /\ header + 1 = 1 + l + 1
    BY <1>2, <1>3, <1>6
  <2> HIDE DEF header
  <2>2. At(r, header) = r[header + 1]
    BY <2>1, AtOctet
  <2> QED
    BY <1>3, <2>1, <2>2
<1>8. skip = IF tag = DO87 THEN 1 ELSE 0
  BY <1>5, Zenon
<1> HIDE DEF header, skip
<1>9. ~(skip = 1 /\ At(r, header) # 1)
  BY <1>7, <1>8
<1>10. CipherText(r) = [from |-> header + skip, to |-> header + size]
  BY <1>1, <1>5, <1>9, Zenon
<1>11. CipherText(r) = [from |-> 1 + l + (IF tag = DO87 THEN 1 ELSE 0), to |-> 1 + l + n]
  BY <1>4, <1>6, <1>8, <1>10, Zenon
<1> QED
  BY <1>11, Zenon DEF l

Begins(r, octets) == Len(octets) <= Len(r) /\ \A i \in 1 .. Len(octets) : r[i] = octets[i]

LEMMA CipherFacts ==
  ASSUME NEW data \in Seq(Int)
  PROVE  LET cipher == Encrypted(IsoPadded(data))
         IN  /\ cipher \in Seq(Int)
             /\ Len(cipher) \in Nat \ {0} /\ Len(cipher) % 16 = 0
             /\ Len(cipher) <= Len(data) + 16
             /\ Decrypted(cipher) = Pad(data, 16)
             /\ Unpad(Decrypted(cipher)) = data
<1> DEFINE padded == Pad(data, 16)
           cipher == Encrypted(padded)
<1>1. IsoPadded(data) = padded
  BY SamePadding
<1>2. padded \in Seq(Int)
  BY PadOctets
<1>3. Len(padded) % 16 = 0 /\ Len(padded) <= Len(data) + 16 /\ Len(padded) > Len(data)
  BY PadFillsBlocks, PadOctets
<1>4. Unpad(padded) = data
  BY UnpadPad
<1> HIDE DEF padded
<1>5. cipher \in Seq(Int) /\ Len(cipher) = Len(padded) /\ Decrypted(cipher) = padded
  BY <1>2, Ciphered
<1> HIDE DEF cipher
<1>6. Len(cipher) \in Nat \ {0} /\ Len(cipher) % 16 = 0 /\ Len(cipher) <= Len(data) + 16
  <2>1. Len(cipher) \in Nat /\ Len(data) \in Nat
    BY <1>5
  <2>2. Len(cipher) > Len(data)
    BY <1>3, <1>5
  <2> QED
    BY <1>3, <1>5, <2>1, <2>2
<1>7. Encrypted(IsoPadded(data)) = cipher
  BY <1>1, Zenon DEF cipher
<1> QED
  BY <1>4, <1>5, <1>6, <1>7, Zenon DEF padded

\* The value of DO87 has an octet in front of the ciphertext.
Front(even) == IF even THEN 1 ELSE 0
CipherTag(even) == IF even THEN DO87 ELSE DO85
CipherValue(even, cipher) == IF even THEN <<1>> \o cipher ELSE cipher

LEMMA ValueOctets ==
  ASSUME NEW cipher \in Seq(Int), NEW even \in BOOLEAN
  PROVE  LET value == CipherValue(even, cipher)
         IN  /\ value \in Seq(Int)
             /\ Len(value) = Front(even) + Len(cipher)
             /\ \A k \in 1 .. Len(cipher) : value[Front(even) + k] = cipher[k]
             /\ even => value[1] = 1
<1>1. CASE even
  <2> DEFINE value == <<1>> \o cipher
             one == <<1>>
  <2>1. one \in Seq(Int) /\ Len(one) = 1 /\ one[1] = 1
    OBVIOUS
  <2> HIDE DEF one
  <2> DEFINE whole == one \o cipher
  <2>2. /\ whole \in Seq(Int) /\ Len(whole) = Len(one) + Len(cipher)
        /\ \A i \in 1 .. Len(one) : whole[i] = one[i]
        /\ \A i \in 1 .. Len(cipher) : whole[Len(one) + i] = cipher[i]
    BY <2>1, Joined
  <2> HIDE DEF whole
  <2>3. /\ whole \in Seq(Int) /\ Len(whole) = 1 + Len(cipher) /\ whole[1] = 1
        /\ \A i \in 1 .. Len(cipher) : whole[1 + i] = cipher[i]
    BY <2>1, <2>2
  <2>4. CipherValue(even, cipher) = whole /\ Front(even) = 1
    BY <1>1, Zenon DEF CipherValue, Front, whole, one
  <2> QED
    BY <2>3, <2>4, Zenon
<1>2. CASE ~even
  <2>1. CipherValue(even, cipher) = cipher /\ Front(even) = 0
    BY <1>2, Zenon DEF CipherValue, Front
  <2>2. Len(cipher) = 0 + Len(cipher) /\ \A k \in 1 .. Len(cipher) : 0 + k = k
    OBVIOUS
  <2>3. \A k \in 1 .. Len(cipher) : cipher[0 + k] = cipher[k]
    BY <2>2, Zenon
  <2> QED
    BY <1>2, <2>1, <2>2, <2>3, Zenon
<1> QED
  BY <1>1, <1>2

LEMMA CipherObjectIs ==
  ASSUME NEW data, data # <<>>, NEW even \in BOOLEAN
  PROVE  CipherObject(even, data) =
            Object(CipherTag(even), CipherValue(even, Encrypted(IsoPadded(data))))
BY Zenon DEF CipherObject, CipherTag, CipherValue

LEMMA Tags == DO85 \in Int /\ DO87 \in Int /\ DO85 # DO87 /\ DO8E \in Int /\ DO99 \in Int
BY DEF DO85, DO87, DO8E, DO99

\* Whatever follows it, the ciphertext is read as it was written.
LEMMA TextRead ==
  ASSUME NEW r \in Seq(Int), NEW data \in Seq(Int), data # <<>>, Len(data) + 17 <= Longest,
         NEW even \in BOOLEAN, Begins(r, CipherObject(even, data))
  PROVE  LET text == CipherText(r)
         IN  /\ CipherObject(even, data) \in Seq(Int)
             /\ text.from \in Nat /\ text.from <= text.to /\ text.to <= Len(r)
             /\ text.to = Len(CipherObject(even, data))
             /\ Part(r, text.from, text.to) = Encrypted(IsoPadded(data))
<1> DEFINE cipher == Encrypted(IsoPadded(data))
           value == CipherValue(even, cipher)
           tag == CipherTag(even)
           n == Len(value)
           length == Length(n)
           l == Len(length)
           object == Object(tag, value)
           front == Front(even)
<1>1. /\ cipher \in Seq(Int) /\ Len(cipher) \in Nat \ {0}
      /\ Len(cipher) <= Len(data) + 16
  BY CipherFacts
<1> HIDE DEF cipher
<1>2. /\ value \in Seq(Int) /\ n = front + Len(cipher)
      /\ \A k \in 1 .. Len(cipher) : value[front + k] = cipher[k]
      /\ even => value[1] = 1
  BY <1>1, ValueOctets
<1>3. /\ tag \in {DO85, DO87} /\ tag \in Int
      /\ tag = DO87 <=> even
      /\ front = IF tag = DO87 THEN 1 ELSE 0
  BY Tags, Zenon DEF CipherTag, Front
<1>4. front \in Nat /\ front <= 1 /\ (even => front = 1)
  BY DEF Front
<1>5. object = CipherObject(even, data)
  BY CipherObjectIs, Zenon DEF cipher
<1> HIDE DEF value, tag, front
<1>6. n \in Nat \ {0} /\ n <= Longest
  <2>1. Longest \in Int /\ Len(data) \in Nat /\ Len(data) + 17 <= Longest
    BY DEF Longest
  <2> DEFINE m == Len(cipher)
             d == Len(data)
  <2>2. m \in Nat \ {0} /\ m <= d + 16 /\ n = front + m /\ d \in Nat /\ d + 17 <= Longest
    BY <1>1, <1>2, <2>1
  <2> HIDE DEF m, d, n
  <2> QED
    BY <1>4, <2>1, <2>2
<1>7. /\ object \in Seq(Int) /\ l \in Nat \ {0}
      /\ Len(object) = 1 + l + n
      /\ object[1] = tag
      /\ \A i \in 1 .. l : object[1 + i] = length[i]
      /\ \A i \in 1 .. n : object[1 + l + i] = value[i]
  BY <1>2, <1>3, <1>6, ObjectOctets, Zenon
<1>8. Len(object) <= Len(r) /\ \A i \in 1 .. Len(object) : r[i] = object[i]
  BY <1>5, Zenon DEF Begins
<1> HIDE DEF object, length, n, l
<1>9. r[1] = tag /\ 1 + l + n <= Len(r)
  <2>1. 1 \in 1 .. Len(object)
    BY <1>6, <1>7
  <2> QED
    BY <1>7, <1>8, <2>1
<1>10. \A i \in 1 .. l : r[1 + i] = length[i]
  <2> SUFFICES ASSUME NEW i \in 1 .. l PROVE r[1 + i] = length[i]
    OBVIOUS
  <2>1. 1 + i \in 1 .. Len(object)
    BY <1>6, <1>7
  <2> QED
    BY <1>7, <1>8, <2>1, Zenon
<1>11. \A i \in 1 .. n : r[1 + l + i] = value[i]
  <2> SUFFICES ASSUME NEW i \in 1 .. n PROVE r[1 + l + i] = value[i]
    OBVIOUS
  <2>1. 1 + l + i \in 1 .. Len(object)
    BY <1>6, <1>7
  <2> QED
    BY <1>7, <1>8, <2>1, Zenon
<1>12. tag = DO87 => r[1 + l + 1] = 1
  <2>1. 1 \in 1 .. n
    BY <1>6
  <2> QED
    BY <1>2, <1>3, <1>11, <2>1, Zenon
<1>13. CipherText(r) = [from |-> 1 + l + front, to |-> 1 + l + n]
  <2>1. /\ 1 + Len(Length(n)) + n <= Len(r)
        /\ \A i \in 1 .. Len(Length(n)) : r[1 + i] = Length(n)[i]
        /\ tag = DO87 => r[1 + Len(Length(n)) + 1] = 1
    BY <1>9, <1>10, <1>12, Zenon DEF l, length
  <2>2. CipherText(r) = [from |-> 1 + Len(Length(n)) + IF tag = DO87 THEN 1 ELSE 0,
                         to   |-> 1 + Len(Length(n)) + n]
    BY <1>3, <1>6, <1>9, <2>1, HeaderRead, Zenon
  <2> QED
    BY <1>3, <2>2, Zenon DEF l, length
<1> DEFINE from == 1 + l + front
           to == 1 + l + n
<1>14. CipherText(r).from = from /\ CipherText(r).to = to
  BY <1>13
<1>15. /\ from \in Nat /\ to \in from .. Len(r) /\ from <= to /\ to <= Len(r)
       /\ to - from = Len(cipher)
  BY <1>1, <1>2, <1>4, <1>6, <1>7, <1>9
<1>16. to = Len(CipherObject(even, data)) /\ CipherObject(even, data) \in Seq(Int)
  BY <1>5, <1>7, Zenon
<1>17. \A k \in 1 .. Len(cipher) : r[from + k] = cipher[k]
  <2> SUFFICES ASSUME NEW k \in 1 .. Len(cipher) PROVE r[from + k] = cipher[k]
    OBVIOUS
  <2>1. from + k = 1 + l + (front + k) /\ front + k \in 1 .. n
    BY <1>1, <1>2, <1>4, <1>6, <1>7
  <2>2. r[1 + l + (front + k)] = value[front + k]
    BY <1>11, <2>1, Zenon
  <2> QED
    BY <1>2, <2>1, <2>2, Zenon
<1> HIDE DEF from, to
<1>18. Part(r, from, to) = cipher
  <2>1. /\ Part(r, from, to) \in Seq(Int) /\ Len(Part(r, from, to)) = Len(cipher)
        /\ \A k \in 1 .. Len(cipher) : Part(r, from, to)[k] = r[from + k]
    BY <1>15, PartOctets
  <2>2. \A k \in 1 .. Len(Part(r, from, to)) : Part(r, from, to)[k] = cipher[k]
    BY <1>17, <2>1
  <2> QED
    BY <1>1, <2>1, <2>2, SeqEqual
<1> QED
  BY <1>14, <1>15, <1>16, <1>18, Zenon DEF cipher

-----------------------------------------------------------------------------
(* The data objects of an answer *)

\* DO99 with the status 9000.
StatusObject(status) == IF status THEN Object(DO99, <<144, 0>>) ELSE <<>>
Objects(data, even, status) == CipherObject(even, data) \o StatusObject(status)

LEMMA Status ==
  /\ Object(DO99, <<144, 0>>) \in Seq(Int)
  /\ Object(DO99, <<144, 0>>) = <<DO99, 2, 144, 0>>
<1> DEFINE p == <<DO99, 2>>
           q == <<144, 0>>
           s == <<DO99, 2, 144, 0>>
           t == p \o q
<1>1. /\ p \in Seq(Int) /\ Len(p) = 2 /\ p[1] = DO99 /\ p[2] = 2
      /\ q \in Seq(Int) /\ Len(q) = 2 /\ q[1] = 144 /\ q[2] = 0
      /\ s \in Seq(Int) /\ Len(s) = 4
      /\ s[1] = DO99 /\ s[2] = 2 /\ s[3] = 144 /\ s[4] = 0
  BY Tags
<1> HIDE DEF p, q, s
<1>2. /\ t \in Seq(Int) /\ Len(t) = Len(p) + Len(q)
      /\ \A i \in 1 .. Len(p) : t[i] = p[i]
      /\ \A i \in 1 .. Len(q) : t[Len(p) + i] = q[i]
  <2>1. p \in Seq(Int) /\ q \in Seq(Int)
    BY <1>1, Zenon
  <2> QED
    BY <2>1, Joined
<1> HIDE DEF t
<1>3. Len(t) = 4 /\ t[1] = s[1] /\ t[2] = s[2] /\ t[3] = s[3] /\ t[4] = s[4]
  BY <1>1, <1>2
<1>4. \A i \in 1 .. Len(t) : t[i] = s[i]
  BY <1>1, <1>3
<1>5. t = s
  <2>1. Len(t) = Len(s)
    BY <1>1, <1>3
  <2> QED
    BY <1>1, <1>2, <1>4, <2>1, SeqEqual
<1>6. Object(DO99, q) = <<DO99, Len(q)>> \o q
  <2>1. Len(q) < 128
    BY <1>1
  <2> QED
    BY <1>1, <2>1, Tags, ShortObject, Zenon
<1>7. Object(DO99, q) = t
  BY <1>1, <1>6 DEF t, p
<1> QED
  BY <1>1, <1>5, <1>7, Zenon DEF q, s

LEMMA StatusFacts ==
  ASSUME NEW status \in BOOLEAN
  PROVE  /\ StatusObject(status) \in Seq(Int)
         /\ status => StatusObject(status) = <<DO99, 2, 144, 0>>
         /\ ~status => StatusObject(status) = <<>>
BY Status DEF StatusObject

LEMMA CipherObjectType ==
  ASSUME NEW data \in Seq(Int), Len(data) + 17 <= Longest, NEW even \in BOOLEAN
  PROVE  CipherObject(even, data) \in Seq(Int)
<1>1. CASE data = <<>>
  <2>1. CipherObject(even, data) = <<>>
    BY <1>1, Zenon DEF CipherObject
  <2> QED
    BY <2>1
<1>2. CASE data # <<>>
  <2> DEFINE clear == Encrypted(IsoPadded(data))
             value == CipherValue(even, clear)
  <2>1. clear \in Seq(Int) /\ Len(clear) \in Nat /\ Len(clear) <= Len(data) + 16
    BY CipherFacts
  <2> HIDE DEF clear
  <2>2. value \in Seq(Int) /\ Len(value) = Front(even) + Len(clear)
    BY <2>1, ValueOctets
  <2>3. Len(value) <= Longest
    <3> DEFINE m == Len(clear)
               d == Len(data)
               n == Len(value)
               f == Front(even)
    <3>1. /\ m \in Nat /\ m <= d + 16 /\ n = f + m /\ d \in Nat /\ d + 17 <= Longest
          /\ f \in Nat /\ f <= 1
      BY <2>1, <2>2 DEF Front
    <3>2. Longest \in Int
      BY DEF Longest
    <3> HIDE DEF m, d, n, f
    <3>3. n <= Longest
      BY <3>1, <3>2
    <3> QED
      BY <3>3, Zenon DEF n
  <2>4. CipherTag(even) \in Int
    BY Tags DEF CipherTag
  <2>5. CipherObject(even, data) = Object(CipherTag(even), value)
    BY <1>2, CipherObjectIs, Zenon DEF clear
  <2> HIDE DEF value
  <2> QED
    BY <2>2, <2>3, <2>4, <2>5, ObjectOctets, Zenon
<1> QED
  BY <1>1, <1>2

LEMMA ObjectsType ==
  ASSUME NEW data \in Seq(Int), Len(data) + 17 <= Longest,
         NEW even \in BOOLEAN, NEW status \in BOOLEAN
  PROVE  Objects(data, even, status) \in Seq(Int)
<1>1. CipherObject(even, data) \in Seq(Int)
  BY CipherObjectType, Zenon
<1>2. StatusObject(status) \in Seq(Int)
  BY StatusFacts
<1>3. CipherObject(even, data) \o StatusObject(status) \in Seq(Int)
  BY <1>1, <1>2, Joined
<1> QED
  BY <1>3, Zenon DEF Objects

LEMMA NoMarks == Unpad(<<>>) = <<>>
BY DEF Unpad, Marks

LEMMA NothingDecrypted ==
  ASSUME NEW s \in Seq(Int), Len(s) = 0
  PROVE  Unpad(Decrypted(s)) = <<>>
<1>1. s = <<>>
  OBVIOUS
<1>2. Decrypted(<<>>) = <<>>
  BY DEF Decrypted
<1> QED
  BY <1>1, <1>2, NoMarks

\* A response that begins with the objects of an answer gives the answer's data.
LEMMA ObjectsRead ==
  ASSUME NEW data \in Seq(Int), Len(data) + 17 <= Longest,
         NEW even \in BOOLEAN, NEW status \in BOOLEAN, Objects(data, even, status) # <<>>,
         NEW r \in Seq(Int), Begins(r, Objects(data, even, status))
  PROVE  LET text == CipherText(r)
         IN  /\ Objects(data, even, status) \in Seq(Int)
             /\ CipherObject(even, data) \in Seq(Int)
             /\ text.from \in Nat /\ text.from <= text.to /\ text.to <= Len(r)
             /\ (text.to - text.from) % 16 = 0
             /\ text.to = Len(CipherObject(even, data))
             /\ Unpad(Decrypted(Part(r, text.from, text.to))) = data
<1> DEFINE cipher == CipherObject(even, data)
           end == StatusObject(status)
           objects == Objects(data, even, status)
<1>1. end \in Seq(Int) /\ (status => end = <<DO99, 2, 144, 0>>) /\ (~status => end = <<>>)
  BY StatusFacts
<1>2. objects = cipher \o end
  BY DEF Objects
<1>3. Len(objects) <= Len(r) /\ \A i \in 1 .. Len(objects) : r[i] = objects[i]
  BY Zenon DEF Begins
<1>4. CASE data = <<>>
  <2>1. cipher = <<>>
    BY <1>4, Zenon DEF CipherObject
  <2>2. objects = end
    BY <1>1, <1>2, <2>1, ConcatEmptySeq
  <2>3. status /\ end = <<DO99, 2, 144, 0>>
    BY <1>1, <2>2
  <2> HIDE DEF end, objects
  <2>4. Len(end) = 4 /\ end[1] = DO99
    BY <2>3
  <2>5. 0 < Len(r) /\ r[1] = DO99
    BY <1>3, <2>2, <2>4
  <2>6. At(r, 0) = DO99
    BY <2>5, AtOctet
  <2>7. At(r, 0) \notin {DO85, DO87}
    BY <2>6 DEF DO85, DO87, DO99
  <2>8. CipherText(r) = [from |-> 0, to |-> 0]
    BY <2>7, Zenon DEF CipherText
  <2>9. CipherText(r).from = 0 /\ CipherText(r).to = 0
    BY <2>8
  <2>10. Part(r, 0, 0) \in Seq(Int) /\ Len(Part(r, 0, 0)) = 0
    <3>1. 0 \in 0 .. Len(r) /\ 0 - 0 = 0
      BY <2>5
    <3> QED
      BY <3>1, PartOctets
  <2>11. Unpad(Decrypted(Part(r, 0, 0))) = <<>>
    BY <2>10, NothingDecrypted
  <2>12. cipher \in Seq(Int) /\ Len(cipher) = 0 /\ objects \in Seq(Int)
    BY <1>1, <2>1, <2>2
  <2>13. 0 \in Nat /\ 0 <= 0 /\ 0 <= Len(r) /\ (0 - 0) % 16 = 0
    BY <2>5
  <2> HIDE DEF cipher
  <2> QED
    BY <1>4, <2>9, <2>11, <2>12, <2>13 DEF objects, cipher
<1>5. CASE data # <<>>
  <2> DEFINE text == CipherText(r)
             clear == Encrypted(IsoPadded(data))
  <2>1. cipher \in Seq(Int)
    BY CipherObjectType, Zenon
  <2> HIDE DEF cipher, end, objects
  <2>2. /\ objects \in Seq(Int) /\ Len(objects) = Len(cipher) + Len(end)
        /\ Len(cipher) \in Nat /\ Len(end) \in Nat
        /\ \A i \in 1 .. Len(cipher) : objects[i] = cipher[i]
    BY <1>1, <1>2, <2>1, Joined
  <2>3. Len(cipher) <= Len(r) /\ \A i \in 1 .. Len(cipher) : i \in 1 .. Len(objects)
    BY <1>3, <2>2
  <2>4. Begins(r, cipher)
    BY <1>3, <2>2, <2>3, Zenon DEF Begins
  <2>5. /\ text.from \in Nat /\ text.from <= text.to /\ text.to <= Len(r)
        /\ text.to = Len(cipher)
        /\ Part(r, text.from, text.to) = clear
    BY <1>5, <2>4, TextRead, Zenon DEF cipher
  <2>6. clear \in Seq(Int) /\ Len(clear) % 16 = 0 /\ Unpad(Decrypted(clear)) = data
    BY CipherFacts
  <2> HIDE DEF text, clear
  <2>7. Len(Part(r, text.from, text.to)) = text.to - text.from
    <3>1. text.to \in text.from .. Len(r)
      BY <2>2, <2>5
    <3> QED
      BY <2>5, <3>1, PartOctets
  <2>8. (text.to - text.from) % 16 = 0
    BY <2>5, <2>6, <2>7, Zenon
  <2> QED
    BY <2>1, <2>2, <2>5, <2>6, <2>8, Zenon DEF text, cipher, objects
<1> QED
  BY <1>4, <1>5

-----------------------------------------------------------------------------
(* The answer on its way *)

\* What the card sends.
Sent(objects) == objects \o Object(DO8E, TheMac) \o <<144, 0>>

LEMMA MacFacts ==
  /\ TheMac \in Seq(Int) /\ Len(TheMac) = 8
  /\ Object(DO8E, TheMac) = <<DO8E, 8>> \o TheMac
<1>1. TheMac \in Seq(Int) /\ Len(TheMac) = 8
  BY DEF TheMac, MAC_LENGTH
<1>2. Len(TheMac) < 128
  BY <1>1
<1>3. Object(DO8E, TheMac) = <<DO8E, Len(TheMac)>> \o TheMac
  BY <1>1, <1>2, Tags, ShortObject, Zenon
<1> QED
  BY <1>1, <1>3, Zenon

LEMMA MacObject ==
  LET object == Object(DO8E, TheMac)
  IN  /\ object \in Seq(Int) /\ Len(object) = 10
      /\ object[1] = DO8E /\ object[2] = 8
      /\ \A k \in 1 .. 8 : object[2 + k] = TheMac[k]
<1> DEFINE head == <<DO8E, 8>>
           object == head \o TheMac
<1>1. head \in Seq(Int) /\ Len(head) = 2 /\ head[1] = DO8E /\ head[2] = 8
  BY Tags
<1> HIDE DEF head
<1>2. /\ object \in Seq(Int) /\ Len(object) = Len(head) + Len(TheMac)
      /\ \A i \in 1 .. Len(head) : object[i] = head[i]
      /\ \A i \in 1 .. Len(TheMac) : object[Len(head) + i] = TheMac[i]
  BY <1>1, MacFacts, Joined
<1> HIDE DEF object
<1>3. /\ Len(object) = 10 /\ object[1] = DO8E /\ object[2] = 8
      /\ \A k \in 1 .. 8 : object[2 + k] = TheMac[k]
  BY <1>1, <1>2, MacFacts
<1>4. Object(DO8E, TheMac) = object
  BY MacFacts, Zenon DEF object, head
<1> QED
  BY <1>2, <1>3, <1>4, Zenon

LEMMA SentOctets ==
  ASSUME NEW objects \in Seq(Int)
  PROVE  LET r == Sent(objects)
             m == Len(objects)
         IN  /\ r \in Seq(Int) /\ Len(r) = m + 12
             /\ Begins(r, objects)
             /\ r[m + 1] = DO8E /\ r[m + 2] = 8
             /\ \A k \in 1 .. 8 : r[m + 2 + k] = TheMac[k]
<1> DEFINE object == Object(DO8E, TheMac)
           end == <<144, 0>>
           head == objects \o object
           r == head \o end
           m == Len(objects)
<1>1. /\ object \in Seq(Int) /\ Len(object) = 10
      /\ object[1] = DO8E /\ object[2] = 8
      /\ \A k \in 1 .. 8 : object[2 + k] = TheMac[k]
  BY MacObject
<1>2. end \in Seq(Int) /\ Len(end) = 2 /\ m \in Nat
  OBVIOUS
<1> HIDE DEF object, end
<1>3. /\ head \in Seq(Int) /\ Len(head) = Len(objects) + Len(object)
      /\ \A i \in 1 .. Len(objects) : head[i] = objects[i]
      /\ \A i \in 1 .. Len(object) : head[Len(objects) + i] = object[i]
  BY <1>1, Joined
<1> HIDE DEF head
<1>4. /\ r \in Seq(Int) /\ Len(r) = Len(head) + Len(end)
      /\ \A i \in 1 .. Len(head) : r[i] = head[i]
  BY <1>2, <1>3, Joined
<1>5. Sent(objects) = r
  BY Zenon DEF Sent, r, head, object, end
<1> HIDE DEF r, m
<1>6. Len(head) = m + 10 /\ Len(r) = m + 12
  BY <1>1, <1>2, <1>3, <1>4 DEF m
<1>7. ASSUME NEW i \in 1 .. m
      PROVE  r[i] = objects[i]
  <2>1. i \in 1 .. Len(objects) /\ i \in 1 .. Len(head)
    BY <1>2, <1>6 DEF m
  <2> QED
    BY <1>3, <1>4, <2>1, Zenon
<1>8. ASSUME NEW i \in 1 .. 10
      PROVE  r[m + i] = object[i]
  <2>1. i \in 1 .. Len(object) /\ m + i \in 1 .. Len(head)
    BY <1>1, <1>2, <1>6
  <2> QED
    BY <1>3, <1>4, <2>1, Zenon DEF m
<1>9. r[m + 1] = DO8E /\ r[m + 2] = 8
  <2>1. 1 \in 1 .. 10 /\ 2 \in 1 .. 10
    OBVIOUS
  <2> QED
    BY <1>1, <1>8, <2>1, Zenon
<1>10. ASSUME NEW k \in 1 .. 8
       PROVE  r[m + 2 + k] = TheMac[k]
  <2>1. 2 + k \in 1 .. 10 /\ m + 2 + k = m + (2 + k)
    BY <1>2
  <2> QED
    BY <1>1, <1>8, <2>1, Zenon
<1>11. Begins(r, objects)
  <2>1. Len(objects) <= Len(r)
    BY <1>2, <1>6 DEF m
  <2> QED
    BY <1>7, <2>1, Zenon DEF Begins, m
<1> QED
  BY <1>4, <1>5, <1>6, <1>9, <1>10, <1>11, Zenon DEF m

\* What is taken from in front of the MAC is the objects.
LEMMA FrontPart ==
  ASSUME NEW r \in Seq(Int), NEW objects \in Seq(Int), Begins(r, objects)
  PROVE  Part(r, 0, Len(objects)) = objects
<1> DEFINE m == Len(objects)
           part == Part(r, 0, m)
<1>1. m \in 0 .. Len(r) /\ m - 0 = m /\ m \in Nat /\ 0 \in Nat
  BY DEF Begins
<1>2. /\ part \in Seq(Int) /\ Len(part) = m - 0
      /\ \A k \in 1 .. m - 0 : part[k] = r[0 + k]
  BY <1>1, PartOctets
<1> HIDE DEF part
<1>3. \A k \in 1 .. m : 0 + k = k
  OBVIOUS
<1>4. \A k \in 1 .. m : part[k] = objects[k]
  BY <1>1, <1>2, <1>3, Zenon DEF Begins
<1>5. Len(part) = Len(objects)
  BY <1>1, <1>2, Zenon
<1>6. part = objects
  <2>1. \A k \in 1 .. Len(part) : part[k] = objects[k]
    BY <1>4, <1>5, Zenon
  <2> QED
    BY <1>2, <1>5, <2>1, SeqEqual
<1> QED
  BY <1>6, Zenon DEF part

LEMMA Offset ==
  ASSUME NEW c \in Nat, NEW i \in 1 .. 4
  PROVE  c + i \in 1 .. c + 4
OBVIOUS

\* The MAC is looked for where it is, behind DO99 or where that would be.
LEMMA MacFound ==
  ASSUME NEW data, NEW even, NEW status \in BOOLEAN,
         CipherObject(even, data) \in Seq(Int),
         NEW r \in Seq(Int), Begins(r, Objects(data, even, status)),
         Len(Objects(data, even, status)) < Len(r),
         r[Len(Objects(data, even, status)) + 1] = DO8E
  PROVE  StatusEnd(r, Len(CipherObject(even, data))) = Len(Objects(data, even, status))
<1> DEFINE cipher == CipherObject(even, data)
           end == StatusObject(status)
           objects == Objects(data, even, status)
           c == Len(cipher)
           m == Len(objects)
<1>1. end \in Seq(Int) /\ (status => end = <<DO99, 2, 144, 0>>) /\ (~status => end = <<>>)
  BY StatusFacts
<1>2. cipher \in Seq(Int) /\ objects = cipher \o end
  BY DEF Objects
<1>3. /\ m <= Len(r) /\ \A i \in 1 .. m : r[i] = objects[i]
      /\ m < Len(r) /\ r[m + 1] = DO8E
  BY Zenon DEF Begins
<1> HIDE DEF cipher, end, objects
<1>4. /\ objects \in Seq(Int) /\ m = c + Len(end) /\ c \in Nat
      /\ \A i \in 1 .. Len(end) : objects[c + i] = end[i]
  BY <1>1, <1>2, Joined
<1> HIDE DEF c, m
<1>5. CASE status
  <2>1. Len(end) = 4 /\ end[1] = DO99 /\ end = <<DO99, 2, 144, 0>>
    BY <1>1, <1>5
  <2>2. m = c + 4
    BY <1>4, <2>1
  <2>3. ASSUME NEW i \in 1 .. 4
        PROVE  r[c + i] = end[i]
    <3>1. i \in 1 .. Len(end)
      BY <2>1, Zenon
    <3>2. c + i \in 1 .. c + 4
      BY <1>4, Offset, Zenon
    <3> QED
      BY <1>3, <1>4, <2>2, <3>1, <3>2, Zenon
  <2>4. At(r, c) = DO99
    <3>1. c < Len(r) /\ 1 \in 1 .. 4
      BY <1>3, <1>4, <2>2
    <3>2. At(r, c) = r[c + 1]
      BY <1>4, <3>1, AtOctet
    <3> QED
      BY <2>1, <2>3, <3>1, <3>2, Zenon
  <2>5. Part(r, c, c + 4) = end
    <3> DEFINE part == Part(r, c, c + 4)
    <3>1. c + 4 \in c .. Len(r) /\ (c + 4) - c = 4
      BY <1>3, <1>4, <2>2
    <3>2. part \in Seq(Int) /\ Len(part) = 4 /\ \A k \in 1 .. 4 : part[k] = r[c + k]
      BY <1>4, <3>1, PartOctets
    <3> HIDE DEF part
    <3>3. \A k \in 1 .. Len(part) : part[k] = end[k]
      BY <2>3, <3>2, Zenon
    <3>4. Len(part) = Len(end)
      BY <2>1, <3>2
    <3>5. part = end
      BY <1>1, <3>2, <3>3, <3>4, SeqEqual
    <3> QED
      BY <3>5, Zenon DEF part
  <2>6. StatusEnd(r, c) = c + 4
    BY <2>1, <2>4, <2>5, Zenon DEF StatusEnd
  <2> QED
    BY <2>2, <2>6 DEF c, m, cipher, objects
<1>6. CASE ~status
  <2>1. m = c
    <3>1. Len(end) = 0
      BY <1>1, <1>6
    <3> QED
      BY <1>4, <3>1
  <2>2. At(r, c) = DO8E
    <3>1. c \in Nat /\ c < Len(r)
      BY <1>3, <1>4, <2>1
    <3>2. At(r, c) = r[c + 1]
      BY <3>1, AtOctet
    <3> QED
      BY <1>3, <2>1, <3>2, Zenon
  <2>3. At(r, c) # DO99
    BY <2>2 DEF DO8E, DO99
  <2>4. StatusEnd(r, c) = c
    BY <2>3, Zenon DEF StatusEnd
  <2> QED
    BY <2>1, <2>4 DEF c, m, cipher, objects
<1> QED
  BY <1>5, <1>6

-----------------------------------------------------------------------------
(* What the reader makes of it *)

\* An answer that arrives as it was sent is returned.
LEMMA Accepted ==
  ASSUME NEW data \in Seq(Int), Len(data) + 17 <= Longest,
         NEW even \in BOOLEAN, NEW status \in BOOLEAN, Objects(data, even, status) # <<>>,
         covered = <<Value(ssc)>> \o Pad(Objects(data, even, status), 16)
  PROVE  DecryptAndVerify(Sent(Objects(data, even, status))) = data
<1> DEFINE objects == Objects(data, even, status)
           cipher == CipherObject(even, data)
           r == Sent(objects)
           m == Len(objects)
           text == CipherText(r)
           mac == StatusEnd(r, text.to)
<1>1. objects \in Seq(Int) /\ cipher \in Seq(Int)
  BY CipherObjectType, ObjectsType, Zenon
<1> HIDE DEF objects
<1>2. /\ r \in Seq(Int) /\ Len(r) = m + 12
      /\ Begins(r, objects)
      /\ r[m + 1] = DO8E /\ r[m + 2] = 8
      /\ \A k \in 1 .. 8 : r[m + 2 + k] = TheMac[k]
  BY <1>1, SentOctets, Zenon
<1> HIDE DEF r
<1>3. /\ text.from <= text.to /\ text.to <= Len(r)
      /\ (text.to - text.from) % 16 = 0
      /\ text.to = Len(cipher)
      /\ Unpad(Decrypted(Part(r, text.from, text.to))) = data
  BY <1>2, ObjectsRead, Zenon DEF objects
<1> HIDE DEF text
<1>4. m \in Nat /\ m < Len(r) /\ m + 1 < Len(r) /\ (m + 1) + 1 = m + 2
  <2>1. m \in Nat
    BY <1>1
  <2>2. Len(r) = m + 12
    BY <1>2
  <2> HIDE DEF m
  <2> QED
    BY <2>1, <2>2
<1>5. StatusEnd(r, Len(cipher)) = m
  BY <1>1, <1>2, <1>4, MacFound, Zenon DEF objects
<1>6. mac = m
  BY <1>3, <1>5, Zenon
<1> HIDE DEF mac, m
<1>7. At(r, m) = DO8E /\ At(r, m + 1) = 8
  <2>1. m + 1 \in Nat
    BY <1>4
  <2>2. At(r, m) = r[m + 1] /\ At(r, m + 1) = r[(m + 1) + 1]
    BY <1>2, <1>4, <2>1, AtOctet
  <2> QED
    BY <1>2, <1>4, <2>2, Zenon
<1>8. Readable(r, text, mac)
  <2>1. Len(r) = m + 2 + 8 + 2
    BY <1>2, <1>4
  <2> QED
    BY <1>3, <1>6, <1>7, <2>1, Zenon DEF Readable, BLOCK_SIZE, MAC_LENGTH
<1>9. Part(r, m + 2, m + 2 + 8) = TheMac
  <2> DEFINE i == m + 2
             part == Part(r, i, i + 8)
  <2>1. i \in Nat /\ i + 8 \in i .. Len(r) /\ (i + 8) - i = 8
    BY <1>2, <1>4
  <2>2. \A k \in 1 .. 8 : r[i + k] = TheMac[k]
    BY <1>2, Zenon
  <2> HIDE DEF i
  <2>3. part \in Seq(Int) /\ Len(part) = 8 /\ \A k \in 1 .. 8 : part[k] = r[i + k]
    BY <1>2, <2>1, PartOctets
  <2> HIDE DEF part
  <2>4. \A k \in 1 .. Len(part) : part[k] = TheMac[k]
    BY <2>2, <2>3, Zenon
  <2>5. part = TheMac
    BY <2>3, <2>4, MacFacts, SeqEqual
  <2> QED
    BY <2>5, Zenon DEF part, i
<1>10. Part(r, 0, m) = objects
  BY <1>1, <1>2, FrontPart, Zenon DEF m
<1>11. covered = <<Value(ssc)>> \o Pad(objects, 16)
  BY Zenon DEF objects
<1>12. DecryptAndVerify(r) = Unpad(Decrypted(Part(r, text.from, text.to)))
  BY <1>6, <1>8, <1>9, <1>10, <1>11, Zenon
     DEF DecryptAndVerify, text, mac, BLOCK_SIZE, MAC_LENGTH
<1>13. DecryptAndVerify(r) = data
  BY <1>3, <1>12, Zenon
<1> QED
  BY <1>13, Zenon DEF r, objects

LEMMA SameRest ==
  ASSUME NEW h \in Seq(Int), NEW s \in Seq(Int), NEW t \in Seq(Int), h \o s = h \o t
  PROVE  s = t
<1>1. /\ Len(h) \in Nat /\ Len(s) \in Nat /\ Len(t) \in Nat
      /\ Len(h \o s) = Len(h) + Len(s)
      /\ \A i \in 1 .. Len(s) : (h \o s)[Len(h) + i] = s[i]
  BY Joined
<1>2. /\ Len(h \o t) = Len(h) + Len(t)
      /\ \A i \in 1 .. Len(t) : (h \o t)[Len(h) + i] = t[i]
  BY Joined
<1> DEFINE whole == h \o s
           other == h \o t
<1>3. whole = other
  OBVIOUS
<1> HIDE DEF whole, other
<1>4. Len(s) = Len(t)
  <2>1. Len(whole) = Len(h) + Len(s) /\ Len(whole) = Len(h) + Len(t)
    BY <1>1, <1>2, <1>3 DEF whole, other
  <2> QED
    BY <1>1, <2>1
<1>5. \A i \in 1 .. Len(s) : s[i] = t[i]
  BY <1>1, <1>2, <1>3, <1>4, Zenon DEF whole, other
<1> QED
  BY <1>4, <1>5, SeqEqual

\* Whatever arrives, it is returned as it was sent or not at all.
LEMMA AcceptedIsSent ==
  ASSUME NEW data \in Seq(Int), Len(data) + 17 <= Longest,
         NEW even \in BOOLEAN, NEW status \in BOOLEAN, Objects(data, even, status) # <<>>,
         Value(ssc) \in Int,
         covered = <<Value(ssc)>> \o Pad(Objects(data, even, status), 16),
         NEW r \in Seq(Int)
  PROVE  DecryptAndVerify(r) = data \/ DecryptAndVerify(r) = Error
<1> DEFINE objects == Objects(data, even, status)
           text == CipherText(r)
           mac == StatusEnd(r, text.to)
           part == Part(r, 0, mac)
           accepted == /\ Readable(r, text, mac)
                       /\ Part(r, mac + 2, mac + 2 + MAC_LENGTH) = TheMac
                       /\ covered = <<Value(ssc)>> \o Pad(part, BLOCK_SIZE)
<1>1. DecryptAndVerify(r) = IF accepted THEN Unpad(Decrypted(Part(r, text.from, text.to)))
                            ELSE Error
  BY Zenon DEF DecryptAndVerify
<1>2. ASSUME accepted
      PROVE  Unpad(Decrypted(Part(r, text.from, text.to))) = data
  <2>1. At(r, mac) = DO8E
    BY <1>2, Zenon DEF Readable
  <2>2. covered = <<Value(ssc)>> \o Pad(part, 16)
    BY <1>2, Zenon DEF BLOCK_SIZE
  <2> HIDE DEF accepted, text, mac
  <2>3. mac \in 0 .. Len(r) - 1
    BY <2>1 DEF At, DO8E
  <2>4. mac \in Nat /\ mac \in 0 .. Len(r) /\ mac - 0 = mac /\ 0 \in Nat
    BY <2>3
  <2>5. part \in Seq(Int) /\ Len(part) = mac /\ \A k \in 1 .. mac : part[k] = r[0 + k]
    BY <2>4, PartOctets
  <2> HIDE DEF part
  <2>6. objects \in Seq(Int)
    BY ObjectsType, Zenon
  <2>7. covered = <<Value(ssc)>> \o Pad(objects, 16)
    BY Zenon
  <2> HIDE DEF objects
  <2>8. Pad(part, 16) = Pad(objects, 16)
    <3> DEFINE head == <<Value(ssc)>>
               p == Pad(part, 16)
               q == Pad(objects, 16)
    <3>1. head \in Seq(Int) /\ p \in Seq(Int) /\ q \in Seq(Int)
      BY <2>5, <2>6, PadOctets
    <3>2. head \o p = head \o q
      BY <2>2, <2>7, Zenon
    <3> HIDE DEF head, p, q
    <3>3. p = q
      BY <3>1, <3>2, SameRest, Zenon
    <3> QED
      BY <3>3, Zenon DEF p, q
  <2>9. part = objects
    BY <2>5, <2>6, <2>8, PadInjective
  <2>10. Begins(r, objects)
    <3>1. Len(objects) = mac /\ mac <= Len(r) /\ \A k \in 1 .. mac : 0 + k = k
      BY <2>4, <2>5, <2>9
    <3>2. Len(objects) <= Len(r)
      BY <3>1, Zenon
    <3>3. \A k \in 1 .. Len(objects) : r[k] = objects[k]
      <4>1. \A k \in 1 .. mac : r[0 + k] = r[k]
        BY <3>1, Zenon
      <4>2. \A k \in 1 .. mac : part[k] = r[k]
        BY <2>5, <4>1, Zenon
      <4> QED
        BY <2>9, <3>1, <4>2, Zenon
    <3> QED
      BY <3>2, <3>3, Zenon DEF Begins
  <2> QED
    BY <2>10, ObjectsRead, Zenon DEF objects, text
<1> HIDE DEF accepted
<1> QED
  BY <1>1, <1>2, Zenon

-----------------------------------------------------------------------------
(* The data objects of a command *)

LEMMA Rejoined ==
  ASSUME NEW s \in Seq(Int), NEW t \in Seq(Int), NEW u \in Seq(Int)
  PROVE  (s \o t) \o u = s \o (t \o u)
BY ConcatAssociative

LEMMA Triple ==
  ASSUME NEW a \in Int, NEW b \in Int, NEW c \in Int
  PROVE  <<a, b>> \o <<c>> = <<a, b, c>>
<1> DEFINE p == <<a, b>>
           q == <<c>>
           s == <<a, b, c>>
           t == p \o q
<1>1. /\ p \in Seq(Int) /\ Len(p) = 2 /\ p[1] = a /\ p[2] = b
      /\ q \in Seq(Int) /\ Len(q) = 1 /\ q[1] = c
      /\ s \in Seq(Int) /\ Len(s) = 3 /\ s[1] = a /\ s[2] = b /\ s[3] = c
  OBVIOUS
<1> HIDE DEF p, q, s
<1>2. /\ t \in Seq(Int) /\ Len(t) = Len(p) + Len(q)
      /\ \A i \in 1 .. Len(p) : t[i] = p[i]
      /\ \A i \in 1 .. Len(q) : t[Len(p) + i] = q[i]
  BY <1>1, Joined
<1> HIDE DEF t
<1>3. Len(t) = Len(s) /\ Len(t) = 3 /\ t[1] = s[1] /\ t[2] = s[2] /\ t[3] = s[3]
  BY <1>1, <1>2
<1>4. \A i \in 1 .. Len(t) : t[i] = s[i]
  BY <1>3
<1>5. t = s
  BY <1>1, <1>2, <1>3, <1>4, SeqEqual
<1> QED
  BY <1>5 DEF p, q, s, t

\* The length of a padded command, at most seven blocks.
LEMMA SevenBlocks ==
  ASSUME NEW n \in Nat, n <= 111
  PROVE  n + 16 - (n % 16) <= 112
BY SMTT(20)

LEMMA LowOctet ==
  ASSUME NEW n \in Nat, n <= 255
  PROVE  n % 256 = n
BY SMT

LEMMA CommandCipher ==
  ASSUME NEW data \in Seq(Int), Len(data) <= 111
  PROVE  LET cipher == Encrypted(Pad(data, 16))
         IN  /\ cipher = Encrypted(IsoPadded(data)) /\ cipher \in Seq(Int)
             /\ Len(cipher) \in Nat /\ Len(cipher) <= 112 /\ Len(cipher) % 16 = 0
<1> DEFINE padded == Pad(data, 16)
           cipher == Encrypted(padded)
           n == Len(data)
<1>1. IsoPadded(data) = padded
  BY SamePadding
<1>2. padded \in Seq(Int) /\ Len(padded) = n + 16 - (n % 16)
  BY PadOctets
<1>3. Len(padded) % 16 = 0
  BY PadFillsBlocks
<1>4. n \in Nat /\ n <= 111
  OBVIOUS
<1> HIDE DEF n, padded
<1>5. Len(padded) <= 112
  BY <1>2, <1>4, SevenBlocks
<1>6. cipher \in Seq(Int) /\ Len(cipher) = Len(padded)
  BY <1>2, Ciphered
<1> HIDE DEF cipher
<1>7. Len(cipher) \in Nat /\ Len(cipher) <= 112 /\ Len(cipher) % 16 = 0
  BY <1>3, <1>5, <1>6
<1>8. Encrypted(IsoPadded(data)) = cipher
  BY <1>1, Zenon DEF cipher
<1> QED
  BY <1>6, <1>7, <1>8, Zenon DEF cipher, padded

LEMMA ShortCipher ==
  ASSUME NEW n \in Nat, n <= 112, n % 16 = 0
  PROVE  /\ n < 128 /\ n + 1 < 128 /\ n + 1 \in Nat
         /\ n % 256 = n /\ (n + 1) % 256 = n + 1
         /\ 2 + n \in Nat /\ 2 + n <= 115 /\ (2 + n) % 16 = 2
         /\ 3 + n \in Nat /\ 3 + n <= 115 /\ (3 + n) % 16 = 3
<1>1. n + 1 \in Nat /\ n <= 255 /\ n + 1 <= 255
  OBVIOUS
<1>2. n % 256 = n
  BY <1>1, LowOctet
<1>3. (n + 1) % 256 = n + 1
  BY <1>1, LowOctet
<1> QED
  BY <1>1, <1>2, <1>3

\* DO85 in front of an odd instruction's ciphertext.
LEMMA OddObject ==
  ASSUME NEW cipher \in Seq(Int), NEW n \in Nat, n = Len(cipher), n <= 112, n % 16 = 0
  PROVE  LET object == <<DO85, n % 256>> \o cipher
         IN  object = Object(DO85, cipher) /\ object \in Seq(Int) /\ Len(object) = 2 + n
<1> DEFINE head == <<DO85, n>>
<1>1. n < 128 /\ n % 256 = n
  BY ShortCipher, Zenon
<1>2. Len(cipher) < 128
  BY <1>1, Zenon
<1>3. Object(DO85, cipher) = head \o cipher
  BY <1>2, Tags, ShortObject, Zenon
<1>4. head \in Seq(Int) /\ Len(head) = 2
  BY Tags
<1> HIDE DEF head
<1>5. head \o cipher \in Seq(Int) /\ Len(head \o cipher) = Len(head) + Len(cipher)
  BY <1>4, Joined
<1>6. Len(head \o cipher) = 2 + n
  BY <1>4, <1>5, Zenon
<1> QED
  BY <1>1, <1>3, <1>5, <1>6, Zenon DEF head

\* DO87 in front of an even one's, with the octet that announces the padding.
LEMMA EvenObject ==
  ASSUME NEW cipher \in Seq(Int), NEW n \in Nat, n = Len(cipher), n <= 112, n % 16 = 0
  PROVE  LET object == <<DO87, (n + 1) % 256, 1>> \o cipher
         IN  /\ object = Object(DO87, <<1>> \o cipher)
             /\ object \in Seq(Int) /\ Len(object) = 3 + n
<1> DEFINE one == <<1>>
           head == <<DO87, n + 1>>
           three == <<DO87, n + 1, 1>>
           value == one \o cipher
<1>1. n + 1 < 128 /\ (n + 1) % 256 = n + 1 /\ n + 1 \in Nat
  BY ShortCipher, Zenon
<1>2. n + 1 \in Int /\ 1 \in Int /\ 1 + n = n + 1
  OBVIOUS
<1>3. one \in Seq(Int) /\ Len(one) = 1
  OBVIOUS
<1>4. head \in Seq(Int) /\ three \in Seq(Int) /\ Len(three) = 3
  BY <1>2, Tags
<1>5. head \o one = three
  BY <1>2, Tags, Triple, Zenon
<1> HIDE DEF one, head, three
<1>6. value \in Seq(Int) /\ Len(value) = Len(one) + Len(cipher)
  BY <1>3, Joined
<1>7. Len(value) = n + 1
  BY <1>2, <1>3, <1>6, Zenon
<1>8. three \o cipher \in Seq(Int) /\ Len(three \o cipher) = Len(three) + Len(cipher)
  BY <1>4, Joined
<1>9. head \o value = three \o cipher
  <2>1. head \in Seq(Int) /\ one \in Seq(Int) /\ cipher \in Seq(Int)
    BY <1>3, <1>4, Zenon
  <2>2. (head \o one) \o cipher = head \o (one \o cipher)
    BY <2>1, Rejoined
  <2> QED
    BY <1>5, <2>2, Zenon
<1> HIDE DEF value
<1>10. Object(DO87, value) = <<DO87, Len(value)>> \o value
  BY <1>1, <1>6, <1>7, Tags, ShortObject, Zenon
<1>11. Object(DO87, value) = three \o cipher
  BY <1>7, <1>9, <1>10, Zenon DEF head
<1>12. Len(three \o cipher) = 3 + n
  BY <1>4, <1>8, Zenon
<1> QED
  BY <1>1, <1>8, <1>11, <1>12, Zenon DEF three, value, one

\* The data object of a command is the one that the card expects, and its length tells
\* whether it is there.
LEMMA CommandObject ==
  ASSUME NEW data \in Seq(Int), Len(data) <= 111, NEW even \in BOOLEAN
  PROVE  LET object == Do8587(even, data)
         IN  /\ object = CipherObject(even, data) /\ object \in Seq(Int)
             /\ Len(object) \in Nat /\ Len(object) <= 115
             /\ \/ object = <<>> /\ Len(object) = 0
                \/ Len(object) % 16 = 2
                \/ Len(object) % 16 = 3
<1> DEFINE cipher == Encrypted(Pad(data, 16))
           object == Do8587(even, data)
           n == Len(cipher)
<1>1. /\ cipher = Encrypted(IsoPadded(data)) /\ cipher \in Seq(Int)
      /\ n \in Nat /\ n <= 112 /\ n % 16 = 0
  BY CommandCipher
<1>2. CASE data = <<>>
  <2>1. object = <<>> /\ CipherObject(even, data) = <<>>
    BY <1>2, Zenon DEF Do8587, CipherObject
  <2>2. <<>> \in Seq(Int) /\ Len(<<>>) = 0 /\ 0 \in Nat /\ 0 <= 115
    OBVIOUS
  <2> QED
    BY <2>1, <2>2, Zenon
<1>3. CASE data # <<>> /\ even
  <2>1. object = <<DO87, (n + 1) % 256, 1>> \o cipher
    BY <1>3, Zenon DEF Do8587, BLOCK_SIZE
  <2>2. CipherObject(even, data) = Object(DO87, <<1>> \o cipher)
    BY <1>1, <1>3, Zenon DEF CipherObject
  <2> HIDE DEF object, cipher
  <2>3. /\ object = Object(DO87, <<1>> \o cipher)
        /\ object \in Seq(Int) /\ Len(object) = 3 + n
    BY <1>1, <2>1, EvenObject, Zenon
  <2> HIDE DEF n
  <2>4. 3 + n \in Nat /\ 3 + n <= 115 /\ (3 + n) % 16 = 3
    BY <1>1, ShortCipher, Zenon
  <2> QED
    BY <2>2, <2>3, <2>4, Zenon DEF object
<1>4. CASE data # <<>> /\ ~even
  <2>1. object = <<DO85, n % 256>> \o cipher
    BY <1>4, Zenon DEF Do8587, BLOCK_SIZE
  <2>2. CipherObject(even, data) = Object(DO85, cipher)
    BY <1>1, <1>4, Zenon DEF CipherObject
  <2> HIDE DEF object, cipher
  <2>3. object = Object(DO85, cipher) /\ object \in Seq(Int) /\ Len(object) = 2 + n
    BY <1>1, <2>1, OddObject, Zenon
  <2> HIDE DEF n
  <2>4. 2 + n \in Nat /\ 2 + n <= 115 /\ (2 + n) % 16 = 2
    BY <1>1, ShortCipher, Zenon
  <2> QED
    BY <2>2, <2>3, <2>4, Zenon DEF object
<1> QED
  BY <1>2, <1>3, <1>4

\* The card's DO97.
LeObject(le) == IF le = NoLe THEN <<>> ELSE Object(DO97, <<le>>)

LEMMA CommandLe ==
  ASSUME NEW le \in Les \cup {NoLe}
  PROVE  /\ Do97(le) = LeObject(le) /\ Do97(le) \in Seq(Int)
         /\ \/ Do97(le) = <<>> /\ Len(Do97(le)) = 0
            \/ Len(Do97(le)) = 3
<1>1. CASE le = NoLe
  <2>1. Do97(le) = <<>> /\ LeObject(le) = <<>>
    BY <1>1, Zenon DEF Do97, LeObject
  <2>2. <<>> \in Seq(Int) /\ Len(<<>>) = 0
    OBVIOUS
  <2> QED
    BY <2>1, <2>2, Zenon
<1>2. CASE le # NoLe
  <2> DEFINE value == <<le>>
             three == <<DO97, 1, le>>
  <2>1. le \in Nat /\ le <= 255 /\ le \in Int /\ DO97 \in Int /\ 1 \in Int
    BY <1>2, LesAssumption DEF LesAssumption, Octet, DO97
  <2>2. value \in Seq(Int) /\ Len(value) = 1 /\ Len(value) < 128
    BY <2>1
  <2>3. Object(DO97, value) = <<DO97, Len(value)>> \o value
    <3> HIDE DEF value
    <3> QED
      BY <2>1, <2>2, ShortObject, Zenon
  <2>4. <<DO97, 1>> \o <<le>> = <<DO97, 1, le>>
    BY <2>1, Triple, Zenon
  <2>5. le % 256 = le
    BY <2>1, LowOctet
  <2>6. Do97(le) = three /\ LeObject(le) = Object(DO97, value)
    BY <1>2, <2>5, Zenon DEF Do97, LeObject
  <2>7. LeObject(le) = three
    BY <2>2, <2>3, <2>4, <2>6, Zenon
  <2>8. three \in Seq(Int) /\ Len(three) = 3
    BY <2>1
  <2> QED
    BY <2>6, <2>7, <2>8, Zenon
<1> QED
  BY <1>1, <1>2

-----------------------------------------------------------------------------
(* The protected command *)

CommandObjects(even, data, le) == CipherObject(even, data) \o LeObject(le)
Body(objects) == objects \o Object(DO8E, TheMac)

LEMMA ObjectCount ==
  ASSUME NEW a \in Nat, a <= 115, a = 0 \/ a % 16 = 2 \/ a % 16 = 3,
         NEW b \in Nat, b = 0 \/ b = 3
  PROVE  /\ (a + b) % 16 = 0 <=> a = 0 /\ b = 0
         /\ a + b + 10 <= 255
BY SMTT(20)

\* The octets that encryptAndMac sends, and what their MAC covers, are the standard's.
Protected(even, data, le, counter) ==
  LET objects == Do8587(even, data) \o Do97(le)
  IN  /\ objects = CommandObjects(even, data, le)
      /\ <<(Len(objects) + 2 + MAC_LENGTH) % 256>> \o objects
            \o <<DO8E, MAC_LENGTH>> \o TheMac
            = <<Len(Body(objects))>> \o Body(objects)
      /\ MacInput(counter, objects) =
            <<Value(counter)>> \o IF objects = <<>> THEN <<>> ELSE IsoPadded(objects)

LEMMA CommandProtected ==
  ASSUME NEW data \in Seq(Int), Len(data) <= 111, NEW even \in BOOLEAN,
         NEW le \in Les \cup {NoLe}, NEW counter
  PROVE  Protected(even, data, le, counter)
<1> DEFINE a == Do8587(even, data)
           b == Do97(le)
           objects == a \o b
           m == Len(objects)
<1>1. /\ a = CipherObject(even, data) /\ a \in Seq(Int)
      /\ Len(a) \in Nat /\ Len(a) <= 115
      /\ \/ a = <<>> /\ Len(a) = 0
         \/ Len(a) % 16 = 2
         \/ Len(a) % 16 = 3
  BY CommandObject, Zenon
<1>2. b = LeObject(le) /\ b \in Seq(Int) /\ ((b = <<>> /\ Len(b) = 0) \/ Len(b) = 3)
  BY CommandLe, Zenon
<1>3. objects = CommandObjects(even, data, le)
  BY <1>1, <1>2, Zenon DEF CommandObjects
<1> HIDE DEF a, b
<1>4. objects \in Seq(Int) /\ m = Len(a) + Len(b) /\ Len(b) \in Nat
  BY <1>1, <1>2, Joined
<1>5. (m % 16 = 0 <=> Len(a) = 0 /\ Len(b) = 0) /\ m + 10 <= 255 /\ m \in Nat
  <2> DEFINE p == Len(a)
             q == Len(b)
  <2>1. p \in Nat /\ p <= 115 /\ (p = 0 \/ p % 16 = 2 \/ p % 16 = 3)
    BY <1>1, Zenon
  <2>2. q \in Nat /\ (q = 0 \/ q = 3)
    BY <1>2, <1>4, Zenon
  <2> HIDE DEF p, q
  <2>3. /\ (p + q) % 16 = 0 <=> p = 0 /\ q = 0
        /\ p + q + 10 <= 255 /\ p + q \in Nat
    BY <2>1, <2>2, ObjectCount
  <2>4. m = p + q
    BY <1>4, Zenon DEF p, q
  <2> QED
    BY <2>3, <2>4, Zenon DEF p, q
<1>6. m % 16 = 0 <=> objects = <<>>
  <2>1. ASSUME m % 16 = 0
        PROVE  objects = <<>>
    <3>1. Len(a) = 0 /\ Len(b) = 0
      BY <1>5, <2>1, Zenon
    <3>2. a = <<>> /\ b = <<>>
      BY <1>1, <1>2, <3>1
    <3>3. <<>> \o <<>> = <<>>
      OBVIOUS
    <3> QED
      BY <3>2, <3>3, Zenon
  <2>2. ASSUME objects = <<>>
        PROVE  m % 16 = 0
    BY <2>2
  <2> QED
    BY <2>1, <2>2
<1> HIDE DEF objects
<1>7. (IF m % BLOCK_SIZE = 0 THEN objects ELSE Pad(objects, BLOCK_SIZE))
        = (IF objects = <<>> THEN <<>> ELSE IsoPadded(objects))
  <2>1. IsoPadded(objects) = Pad(objects, 16)
    BY <1>4, SamePadding
  <2> HIDE DEF m
  <2> QED
    BY <1>6, <2>1, Zenon DEF BLOCK_SIZE
<1>8. MacInput(counter, objects) =
        <<Value(counter)>> \o IF objects = <<>> THEN <<>> ELSE IsoPadded(objects)
  BY <1>7, Zenon DEF MacInput
<1> DEFINE mac == Object(DO8E, TheMac)
           body == objects \o mac
           two == <<DO8E, 8>>
           lc == <<m + 10>>
<1>9. /\ mac \in Seq(Int) /\ Len(mac) = 10 /\ mac = two \o TheMac
      /\ two \in Seq(Int) /\ TheMac \in Seq(Int)
  BY MacFacts, MacObject, Tags
<1>10. (m + 2 + 8) % 256 = m + 10 /\ lc \in Seq(Int)
  <2>1. m \in Nat /\ m + 10 <= 255
    BY <1>5, Zenon
  <2> HIDE DEF m
  <2>2. m + 10 \in Nat /\ m + 2 + 8 = m + 10 /\ m + 10 \in Int
    BY <2>1
  <2>3. (m + 10) % 256 = m + 10
    BY <2>1, <2>2, LowOctet, Zenon
  <2> QED
    BY <2>2, <2>3
<1> HIDE DEF mac, two, lc
<1>11. body \in Seq(Int) /\ Len(body) = m + 10
  <2>1. body \in Seq(Int) /\ Len(body) = Len(objects) + Len(mac)
    BY <1>4, <1>9, Joined
  <2> QED
    BY <1>9, <2>1, Zenon
<1>12. ((lc \o objects) \o two) \o TheMac = lc \o body
  <2>1. (objects \o two) \o TheMac = objects \o (two \o TheMac)
    BY <1>4, <1>9, Rejoined
  <2>2. (lc \o objects) \o two = lc \o (objects \o two)
    BY <1>4, <1>9, <1>10, Rejoined
  <2>3. objects \o two \in Seq(Int)
    BY <1>4, <1>9, Joined
  <2>4. (lc \o (objects \o two)) \o TheMac = lc \o ((objects \o two) \o TheMac)
    BY <1>9, <1>10, <2>3, Rejoined
  <2> QED
    BY <1>9, <2>1, <2>2, <2>4, Zenon
<1>13. body = Body(objects)
  BY Zenon DEF Body, mac
<1> HIDE DEF body
<1>14. <<Len(body)>> = lc
  BY <1>11, Zenon DEF lc
<1>15. <<(m + 2 + MAC_LENGTH) % 256>> \o objects \o <<DO8E, MAC_LENGTH>> \o TheMac
         = <<Len(body)>> \o body
  BY <1>10, <1>12, <1>14, Zenon DEF MAC_LENGTH, lc, two
<1> QED
  BY <1>3, <1>8, <1>13, <1>15, Zenon DEF objects, a, b, Protected

-----------------------------------------------------------------------------
(* The counter of two octets *)

Counter(s) == s \in Seq(Octet) /\ Len(s) = 2

LEMMA OctetsAreInts ==
  ASSUME NEW s \in Seq(Octet)
  PROVE  s \in Seq(Int)
<1>1. Octet \subseteq Int
  BY DEF Octet
<1> QED
  BY <1>1, SeqMonotonic

LEMMA Wrapped ==
  ASSUME NEW a \in Nat, NEW b \in Nat, a <= 255, b <= 255
  PROVE  256 * (IF b = 255 THEN (a + 1) % 256 ELSE a) + ((b + 1) % 256)
            = (256 * a + b + 1) % (256 * 256)
<1>1. CASE b = 255 /\ a = 255
  BY <1>1
<1>2. CASE b = 255 /\ a # 255
  <2>1. (a + 1) % 256 = a + 1 /\ (b + 1) % 256 = 0
    BY <1>2, LowOctet
  <2>2. 256 * a + b + 1 = 256 * (a + 1) /\ 256 * (a + 1) < 256 * 256 /\ 256 * (a + 1) \in Nat
    BY <1>2
  <2>3. (256 * (a + 1)) % (256 * 256) = 256 * (a + 1)
    BY <2>2
  <2> QED
    BY <1>2, <2>1, <2>2, <2>3
<1>3. CASE b # 255
  <2>1. (b + 1) % 256 = b + 1
    BY <1>3, LowOctet
  <2>2. 256 * a + b + 1 < 256 * 256 /\ 256 * a + b + 1 \in Nat
    BY <1>3
  <2>3. (256 * a + b + 1) % (256 * 256) = 256 * a + b + 1
    BY <2>2
  <2> QED
    BY <1>3, <2>1, <2>3
<1> QED
  BY <1>1, <1>2, <1>3

\* incrementSSC adds one, over the carry and the wrap to zero.
LEMMA CounterCounts ==
  ASSUME NEW s, Counter(s)
  PROVE  /\ Counter(IncrementSSC(s))
         /\ Value(s) \in Nat /\ Value(s) < Modulus
         /\ Value(IncrementSSC(s)) = (Value(s) + 1) % Modulus
<1> DEFINE t == IncrementSSC(s)
<1>1. s \in Seq(Octet) /\ Len(s) = 2 /\ s \in Seq(Int)
  BY OctetsAreInts DEF Counter
<1>2. t \in Seq(Octet) /\ Len(t) = 2
  BY <1>1, IncrementType
<1>3. t \in Seq(Int)
  BY <1>2, OctetsAreInts
<1>4. s[1] \in Nat /\ s[1] <= 255 /\ s[2] \in Nat /\ s[2] <= 255 /\ DOMAIN s = 1 .. 2
  <2>1. 1 \in 1 .. Len(s) /\ 2 \in 1 .. Len(s) /\ DOMAIN s = 1 .. Len(s)
    BY <1>1
  <2>2. s[1] \in Octet /\ s[2] \in Octet
    BY <1>1, <2>1, ElementOfSeq
  <2>3. \A x \in Octet : x \in Nat /\ x <= 255
    BY DEF Octet
  <2> QED
    BY <1>1, <2>1, <2>2, <2>3, Zenon
<1>5. t[2] = (s[2] + 1) % 256 /\ t[1] = IF s[2] = 255 THEN (s[1] + 1) % 256 ELSE s[1]
  <2>1. \A j \in 1 .. 2 : j > 2 => s[j] = 255
    OBVIOUS
  <2>2. (\A j \in 1 .. 2 : j > 1 => s[j] = 255) <=> s[2] = 255
    <3>1. 2 > 1 /\ \A j \in 1 .. 2 : j > 1 => j = 2
      OBVIOUS
    <3> QED
      BY <3>1
  <2>3. 1 \in DOMAIN s /\ 2 \in DOMAIN s
    BY <1>4
  <2> QED
    BY <1>4, <2>1, <2>2, <2>3 DEF IncrementSSC
<1>6. Value(s) = 256 * s[1] + s[2]
  BY <1>1, Value2
<1> HIDE DEF t
<1>7. Value(t) = 256 * t[1] + t[2]
  BY <1>2, <1>3, Value2
<1> DEFINE a == s[1]
           b == s[2]
<1>8. a \in Nat /\ b \in Nat /\ a <= 255 /\ b <= 255
  BY <1>4
<1>9. Value(t) = 256 * (IF b = 255 THEN (a + 1) % 256 ELSE a) + ((b + 1) % 256)
  BY <1>5, <1>7, Zenon
<1>10. Value(s) = 256 * a + b
  BY <1>6
<1> HIDE DEF a, b
<1>11. 256 * a + b \in Nat /\ 256 * a + b < 256 * 256
  BY <1>8
<1>12. Value(t) = (256 * a + b + 1) % (256 * 256)
  <2>1. 256 * (IF b = 255 THEN (a + 1) % 256 ELSE a) + ((b + 1) % 256)
          = (256 * a + b + 1) % (256 * 256)
    BY <1>8, Wrapped
  <2> QED
    BY <1>9, <2>1
<1> QED
  BY <1>2, <1>10, <1>11, <1>12, Zenon DEF Modulus, Counter, t

\* Two increments add two.
LEMMA TwoSteps ==
  ASSUME NEW n \in Nat, n < Modulus
  PROVE  (((n + 1) % Modulus) + 1) % Modulus = (n + 2) % Modulus /\ (n + 2) % Modulus \in Nat
<1>1. Modulus = 65536
  BY DEF Modulus
<1>2. n + 1 < 65536 => (n + 1) % 65536 = n + 1
  BY <1>1
<1>3. n + 1 = 65536 => (n + 1) % 65536 = 0 /\ (n + 2) % 65536 = 1
  OBVIOUS
<1>4. (0 + 1) % 65536 = 1
  OBVIOUS
<1>5. (n + 2) % 65536 \in Nat
  OBVIOUS
<1> QED
  BY <1>1, <1>2, <1>3, <1>4, <1>5

-----------------------------------------------------------------------------
(* The invariant *)

\* What is called stays, and it is what the card hears.
CallInv ==
  /\ call \in [ins : {"even", "odd"}, data : Commands, le : Les \cup {NoLe}]
  /\ heard = call.data
  /\ damaged \in BOOLEAN

\* The two counters agree whenever no command is on its way.
CounterInv ==
  /\ Counter(ssc) /\ cardSsc \in Nat /\ cardSsc < Modulus
  /\ pc # "card" => Value(ssc) = cardSsc

\* A command on its way carries the call under the card's next count; the host is two
\* ahead.
CommandInv ==
  pc = "card" => /\ Carries(call.data, cardSsc + 1)
                 /\ Value(ssc) = (cardSsc + 2) % Modulus

\* The MAC of an answer in the air covers what the card has sent, at the host's count; an
\* answer not damaged is still what was sent.
AnswerInv ==
  pc = "answered" =>
    /\ answer \in Answers /\ apdu \in Seq(Int)
    /\ \E even, status \in BOOLEAN :
          /\ Objects(answer, even, status) # <<>>
          /\ covered = <<Value(ssc)>> \o Pad(Objects(answer, even, status), 16)
          /\ ~damaged => apdu = Sent(Objects(answer, even, status))

CodecInv == CallInv /\ CounterInv /\ CommandInv /\ AnswerInv /\ AnswerReturned

LEMMA CallFacts ==
  ASSUME CallInv
  PROVE  /\ call.data \in Seq(Int) /\ Len(call.data) <= 111
         /\ call.le \in Les \cup {NoLe}
<1>1. call.data \in Commands /\ call.le \in Les \cup {NoLe}
  BY DEF CallInv
<1>2. call.data \in Seq(Octet) /\ Len(call.data) <= 111
  BY <1>1, CommandsAssumption, Zenon DEF CommandsAssumption
<1> QED
  BY <1>1, <1>2, OctetsAreInts

LEMMA AnswerFacts ==
  ASSUME NEW data \in Answers
  PROVE  data \in Seq(Int) /\ Len(data) + 17 <= Longest
<1>1. data \in Seq(Octet) /\ Len(data) + 17 < 65536
  BY AnswersAssumption, Z3 DEF AnswersAssumption
<1>2. data \in Seq(Int) /\ Len(data) \in Nat
  BY <1>1, OctetsAreInts
<1>3. Len(data) + 17 <= Longest
  BY <1>1, <1>2 DEF Longest
<1> QED
  BY <1>2, <1>3

LEMMA TwoOctets ==
  ASSUME NEW s \in [1 .. 2 -> Octet]
  PROVE  Counter(s)
<1>1. s = [i \in 1 .. 2 |-> s[i]] /\ \A i \in 1 .. 2 : s[i] \in Octet
  OBVIOUS
<1>2. s \in Seq(Octet) /\ Len(s) = 2
  BY <1>1, SeqDef
<1> QED
  BY <1>2 DEF Counter

LEMMA CodecInit == Init => CodecInv
<1> SUFFICES ASSUME Init PROVE CodecInv
  OBVIOUS
<1>1. CallInv
  BY DEF Init, CallInv
<1>2. pc = "host" /\ ssc \in Counters /\ cardSsc = Value(ssc)
  BY DEF Init
<1>3. Counter(ssc)
  <2>1. ssc \in [1 .. 2 -> Octet]
    BY <1>2, CountersAssumption DEF CountersAssumption
  <2> QED
    BY <2>1, TwoOctets
<1>4. CounterInv
  BY <1>2, <1>3, CounterCounts DEF CounterInv
<1>5. CommandInv /\ AnswerInv /\ AnswerReturned
  BY <1>2 DEF CommandInv, AnswerInv, AnswerReturned
<1> QED
  BY <1>1, <1>4, <1>5 DEF CodecInv

LEMMA CodecStep == CodecInv /\ [Next]_vars => CodecInv'
<1> SUFFICES ASSUME CodecInv, [Next]_vars PROVE CodecInv'
  OBVIOUS
<1>i. CallInv /\ CounterInv /\ CommandInv /\ AnswerInv /\ AnswerReturned
  BY DEF CodecInv
<1>1. CASE EncryptAndMac
  <2> DEFINE even == call.ins = "even"
             objects == Do8587(even, call.data) \o Do97(call.le)
             next == IncrementSSC(ssc)
  <2>1. /\ pc = "host" /\ pc' = "card" /\ ssc' = IncrementSSC(next)
        /\ UNCHANGED <<call, cardSsc, heard, answer, damaged, result>>
        /\ apdu' = <<(Len(objects) + 2 + MAC_LENGTH) % 256>> \o objects
                     \o <<DO8E, MAC_LENGTH>> \o TheMac
        /\ covered' = MacInput(next, objects)
    BY <1>1, Zenon DEF EncryptAndMac
  <2>2. CallInv'
    BY <1>i, <2>1 DEF CallInv
  <2>3. Counter(ssc) /\ Value(ssc) = cardSsc /\ cardSsc \in Nat /\ cardSsc < Modulus
    BY <1>i, <2>1 DEF CounterInv
  <2>4. /\ Counter(next) /\ Value(next) = (cardSsc + 1) % Modulus
        /\ Value(next) \in Nat /\ Value(next) < Modulus
    BY <2>3, CounterCounts
  <2>5. Counter(ssc') /\ Value(ssc') = (Value(next) + 1) % Modulus
    <3> HIDE DEF next
    <3>1. Counter(IncrementSSC(next)) /\ Value(IncrementSSC(next)) = (Value(next) + 1) % Modulus
      BY <2>4, CounterCounts
    <3> QED
      BY <2>1, <3>1, Zenon
  <2>6. Value(ssc') = (cardSsc + 2) % Modulus
    BY <2>3, <2>4, <2>5, TwoSteps, Zenon
  <2>7. CounterInv'
    BY <2>1, <2>3, <2>5 DEF CounterInv
  <2>8. Carries(call.data, cardSsc + 1)'
    <3>1. call.data \in Seq(Int) /\ Len(call.data) <= 111 /\ call.le \in Les \cup {NoLe}
      BY <1>i, CallFacts
    <3>2. even \in BOOLEAN
      OBVIOUS
    <3> HIDE DEF even
    <3>3. /\ objects = CommandObjects(even, call.data, call.le)
          /\ apdu' = <<Len(Body(objects))>> \o Body(objects)
          /\ MacInput(next, objects) =
                <<Value(next)>> \o IF objects = <<>> THEN <<>> ELSE IsoPadded(objects)
      <4>1. Protected(even, call.data, call.le, next)
        BY <3>1, <3>2, CommandProtected, Zenon
      <4>2. /\ objects = CommandObjects(even, call.data, call.le)
            /\ <<(Len(objects) + 2 + MAC_LENGTH) % 256>> \o objects
                  \o <<DO8E, MAC_LENGTH>> \o TheMac
                  = <<Len(Body(objects))>> \o Body(objects)
            /\ MacInput(next, objects) =
                  <<Value(next)>> \o IF objects = <<>> THEN <<>> ELSE IsoPadded(objects)
        BY <4>1, Zenon DEF Protected
      <4> HIDE DEF objects, next
      <4> QED
        BY <2>1, <4>2, Zenon
    <3> HIDE DEF objects, next
    <3>4. covered' = Covers(cardSsc + 1, objects)
      BY <2>1, <2>4, <3>3, Zenon DEF Covers
    <3>5. /\ apdu' = <<Len(Body(objects))>> \o Body(objects)
          /\ objects = CommandObjects(call.ins = "even", call.data, call.le)
      BY <3>3, Zenon DEF even
    <3> QED
      BY <2>1, <3>4, <3>5, Zenon DEF Carries, CommandObjects, LeObject, Body
  <2>9. CommandInv'
    BY <2>1, <2>6, <2>8, Zenon DEF CommandInv
  <2>10. AnswerInv' /\ AnswerReturned'
    BY <2>1 DEF AnswerInv, AnswerReturned
  <2> QED
    BY <2>2, <2>7, <2>9, <2>10 DEF CodecInv
<1>2. CASE Hear
  <2>1. /\ pc = "card" /\ pc' = "heard" /\ cardSsc' = (cardSsc + 2) % Modulus
        /\ heard' = IF Carries(call.data, cardSsc + 1) THEN call.data ELSE Error
        /\ UNCHANGED <<call, ssc, apdu, covered, answer, damaged, result>>
    BY <1>2, Zenon DEF Hear
  <2>2. Carries(call.data, cardSsc + 1) /\ Value(ssc) = (cardSsc + 2) % Modulus
    BY <1>i, <2>1, Zenon DEF CommandInv
  <2>3. heard' = call.data /\ call' = call /\ damaged' = damaged
    BY <2>1, <2>2, Zenon
  <2>4. CallInv'
    BY <1>i, <2>3, Zenon DEF CallInv
  <2>5. Counter(ssc) /\ Value(ssc) \in Nat /\ Value(ssc) < Modulus
    BY <1>i, CounterCounts DEF CounterInv
  <2>6. ssc' = ssc /\ cardSsc' = Value(ssc)
    BY <2>1, <2>2, Zenon
  <2>7. CounterInv'
    BY <2>5, <2>6, Zenon DEF CounterInv
  <2>8. CommandInv' /\ AnswerInv' /\ AnswerReturned'
    BY <2>1, Zenon DEF CommandInv, AnswerInv, AnswerReturned
  <2> QED
    BY <2>4, <2>7, <2>8 DEF CodecInv
<1>3. CASE Return
  <2>1. /\ pc = "answered" /\ pc' = "done" /\ result' = DecryptAndVerify(apdu)
        /\ UNCHANGED <<call, ssc, cardSsc, apdu, covered, heard, answer, damaged>>
    BY <1>3, Zenon DEF Return
  <2>2. CallInv' /\ CommandInv' /\ AnswerInv'
    BY <1>i, <2>1 DEF CallInv, CommandInv, AnswerInv
  <2>3. CounterInv'
    BY <1>i, <2>1, Zenon DEF CounterInv
  <2>4. answer \in Answers /\ apdu \in Seq(Int)
    BY <1>i, <2>1, Zenon DEF AnswerInv
  <2>5. PICK even \in BOOLEAN, status \in BOOLEAN :
            /\ Objects(answer, even, status) # <<>>
            /\ covered = <<Value(ssc)>> \o Pad(Objects(answer, even, status), 16)
            /\ ~damaged => apdu = Sent(Objects(answer, even, status))
    BY <1>i, <2>1, Zenon DEF AnswerInv
  <2>6. answer \in Seq(Int) /\ Len(answer) + 17 <= Longest
    BY <2>4, AnswerFacts
  <2>7. Value(ssc) \in Int
    BY <1>i, CounterCounts DEF CounterInv
  <2>8. CASE damaged
    <3>1. DecryptAndVerify(apdu) = answer \/ DecryptAndVerify(apdu) = Error
      BY <2>4, <2>5, <2>6, <2>7, AcceptedIsSent, Zenon
    <3>2. AnswerReturned'
      BY <2>1, <2>8, <3>1, Zenon DEF AnswerReturned
    <3> QED
      BY <2>2, <2>3, <3>2 DEF CodecInv
  <2>9. CASE ~damaged
    <3>1. DecryptAndVerify(Sent(Objects(answer, even, status))) = answer
      BY <2>5, <2>6, Accepted, Zenon
    <3>2. AnswerReturned'
      BY <2>1, <2>5, <2>9, <3>1, Zenon DEF AnswerReturned
    <3> QED
      BY <2>2, <2>3, <3>2 DEF CodecInv
  <2> QED
    BY <2>8, <2>9
<1>4. ASSUME NEW data \in Answers, NEW even \in BOOLEAN, NEW status \in BOOLEAN,
             Answer(data, even, status)
      PROVE  CodecInv'
  <2> DEFINE objects == Objects(data, even, status)
  <2>1. /\ pc = "heard" /\ pc' = "answered" /\ answer' = data
        /\ objects # <<>>
        /\ apdu' = Sent(objects)
        /\ covered' = Covers(cardSsc, objects)
        /\ UNCHANGED <<call, ssc, cardSsc, heard, damaged, result>>
    BY <1>4, Zenon DEF Answer, Sent, Objects, StatusObject
  <2>2. CallInv'
    BY <1>i, <2>1 DEF CallInv
  <2>3. CounterInv' /\ CommandInv' /\ AnswerReturned'
    BY <1>i, <2>1, Zenon DEF CounterInv, CommandInv, AnswerReturned
  <2>4. objects \in Seq(Int)
    BY AnswerFacts, ObjectsType, Zenon
  <2>5. Value(ssc) = cardSsc /\ cardSsc \in Nat /\ cardSsc < Modulus
    BY <1>i, <2>1 DEF CounterInv
  <2>6. cardSsc % Modulus = cardSsc
    BY <2>5 DEF Modulus
  <2> HIDE DEF objects
  <2>7. IsoPadded(objects) = Pad(objects, 16)
    BY <2>4, SamePadding
  <2>8. covered' = <<Value(ssc)>> \o Pad(objects, 16)
    BY <2>1, <2>5, <2>6, <2>7, Zenon DEF Covers
  <2>9. Sent(objects) \in Seq(Int)
    BY <2>4, SentOctets, Zenon
  <2>10. ssc' = ssc /\ answer' = data
    BY <2>1, Zenon
  <2>11. /\ Objects(answer', even, status) # <<>>
         /\ covered' = <<Value(ssc')>> \o Pad(Objects(answer', even, status), 16)
         /\ ~damaged' => apdu' = Sent(Objects(answer', even, status))
    BY <2>1, <2>8, <2>10, Zenon DEF objects
  <2>12. answer' \in Answers /\ apdu' \in Seq(Int)
    BY <2>1, <2>9, Zenon
  <2>13. AnswerInv'
    BY <2>11, <2>12, Zenon DEF AnswerInv
  <2> QED
    BY <2>2, <2>3, <2>13 DEF CodecInv
<1>5. ASSUME pc = "answered", apdu' \in Seq(Int), damaged' = TRUE,
             UNCHANGED <<pc, call, ssc, cardSsc, covered, heard, answer, result>>
      PROVE  CodecInv'
  <2>1. CallInv'
    BY <1>i, <1>5 DEF CallInv
  <2>2. CounterInv' /\ CommandInv' /\ AnswerReturned'
    BY <1>i, <1>5, Zenon DEF CounterInv, CommandInv, AnswerReturned
  <2>3. AnswerInv'
    BY <1>i, <1>5, Zenon DEF AnswerInv
  <2> QED
    BY <2>1, <2>2, <2>3 DEF CodecInv
<1>6. ASSUME NEW i \in DOMAIN apdu, NEW octet \in Meaningful, Change(i, octet)
      PROVE  CodecInv'
  <2>1. /\ pc = "answered" /\ apdu' = [apdu EXCEPT ![i] = octet] /\ damaged' = TRUE
        /\ UNCHANGED <<pc, call, ssc, cardSsc, covered, heard, answer, result>>
    BY <1>6, Zenon DEF Change
  <2>2. apdu \in Seq(Int)
    BY <1>i, <2>1, Zenon DEF AnswerInv
  <2>3. octet \in Int
    BY DEF Meaningful, DO85, DO87, DO8E, DO99
  <2>4. apdu' \in Seq(Int)
    BY <2>1, <2>2, <2>3, ExceptSeq
  <2> QED
    BY <1>5, <2>1, <2>4, Zenon
<1>7. ASSUME NEW n \in 1 .. 16, n <= Len(apdu), Cut(n)
      PROVE  CodecInv'
  <2>1. /\ pc = "answered" /\ apdu' = SubSeq(apdu, 1, Len(apdu) - n) /\ damaged' = TRUE
        /\ UNCHANGED <<pc, call, ssc, cardSsc, covered, heard, answer, result>>
    BY <1>7, Zenon DEF Cut
  <2>2. apdu \in Seq(Int)
    BY <1>i, <2>1, Zenon DEF AnswerInv
  <2>3. apdu' \in Seq(Int)
    BY <1>7, <2>1, <2>2
  <2> QED
    BY <1>5, <2>1, <2>3, Zenon
<1>8. CASE UNCHANGED vars
  <2>1. UNCHANGED <<pc, call, ssc, cardSsc, apdu, covered, heard, answer, damaged, result>>
    BY <1>8 DEF vars
  <2>2. CallInv' /\ CounterInv' /\ AnswerInv' /\ AnswerReturned'
    BY <1>i, <2>1, Zenon DEF CallInv, CounterInv, AnswerInv, AnswerReturned
  <2>3. CommandInv'
    BY <1>i, <2>1, Zenon DEF CommandInv, Carries
  <2> QED
    BY <2>2, <2>3 DEF CodecInv
<1> QED
  BY <1>1, <1>2, <1>3, <1>4, <1>6, <1>7, <1>8, Zenon DEF Next

LEMMA CodecInvariant == Spec => []CodecInv
BY CodecInit, CodecStep, PTL DEF Spec

\* A command of up to 111 bytes reaches the card as it was called, for every counter and
\* every le (encryptAndMac, incrementSSC).
THEOREM CommandHeardHolds == Spec => []CommandHeard
<1>1. CodecInv => CommandHeard
  BY DEF CodecInv, CallInv, CommandHeard
<1> QED
  BY <1>1, CodecInvariant, PTL

\* An answer of any length comes back whole, and whatever else arrives in its place gives
\* that answer or an error (decryptAndVerify).
THEOREM AnswerReturnedHolds == Spec => []AnswerReturned
<1>1. CodecInv => AnswerReturned
  BY DEF CodecInv
<1> QED
  BY <1>1, CodecInvariant, PTL
===============================================================================
