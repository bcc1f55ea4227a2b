------------------------------- MODULE MCToken -------------------------------
\* Instances of Token for TLC: the hashes are strings.
EXTENDS Token
===============================================================================
