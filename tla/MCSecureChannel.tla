--------------------------- MODULE MCSecureChannel ---------------------------
(* Instances of SecureChannel for TLC. *)
EXTENDS SecureChannel

\* No data, the most that one secure messaging C-APDU holds, and as much as takes
\* one chained C-APDU.
MCDataLengths == {0, 111, 256}

\* One byte more than fits, the two sides of the chaining boundary, two chained
\* C-APDUs.
MCBoundaryLengths == {112, 255, 256, 511}
=============================================================================
