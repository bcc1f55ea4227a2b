--------------------------- MODULE MCPlainTransport ---------------------------
\* Instances of PlainTransport for TLC.
EXTENDS PlainTransport

\* No data, both sides of the boundary of chaining, and lengths that take one full
\* chunk after another.
MCDataLengths == {0, 255, 256, 510, 511, 766}
===============================================================================
