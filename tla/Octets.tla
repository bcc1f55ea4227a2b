-------------------------------- MODULE Octets --------------------------------
(***************************************************************************)
(* The operators of secure messaging on octets: padding to the block size,  *)
(* and the send sequence counter.                                          *)
(***************************************************************************)
EXTENDS Integers, Sequences

PADDING_SM == 128
Octet == 0 .. 255

Zeros(n) == [i \in 1 .. n |-> 0]

\* Mutant of Pad: a full block is left as it is.
PadIfShort(octets, blockSize) ==
    IF Len(octets) % blockSize = 0 THEN octets
    ELSE octets \o <<PADDING_SM>> \o Zeros(blockSize - 1 - (Len(octets) % blockSize))

\* 80 00*, at least one octet.
Pad(octets, blockSize) ==
    octets \o <<PADDING_SM>> \o Zeros(blockSize - 1 - (Len(octets) % blockSize))

Marks(octets) == {i \in DOMAIN octets : octets[i] = PADDING_SM}

\* Mutant of Unpad: the first 80 is where the padding begins.
UnpadFirst(octets) ==
    IF Marks(octets) = {} THEN octets
    ELSE SubSeq(octets, 1,
                (CHOOSE i \in Marks(octets) : \A j \in Marks(octets) : i <= j) - 1)

\* The last 80 is where the padding begins.
Unpad(octets) ==
    IF Marks(octets) = {} THEN octets
    ELSE SubSeq(octets, 1,
                (CHOOSE i \in Marks(octets) : \A j \in Marks(octets) : j <= i) - 1)

\* Mutant of IncrementSSC: without the carry.
IncrementLast(ssc) == [ssc EXCEPT ![Len(ssc)] = (@ + 1) % 256]

\* From the last octet on, until one does not wrap.
IncrementSSC(ssc) ==
    [i \in DOMAIN ssc |-> IF \A j \in DOMAIN ssc : j > i => ssc[j] = 255
                          THEN (ssc[i] + 1) % 256 ELSE ssc[i]]
===============================================================================
