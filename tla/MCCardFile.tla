------------------------------ MODULE MCCardFile ------------------------------
\* Instances of CardFile for TLC: bytes of eight values, so that an offset has two
\* bytes from 8 on, and the limit of what can be addressed is 32.
EXTENDS CardFile

MCFileLengths == 0 .. 31
===============================================================================
