------------------------ MODULE MCSecureMessagingCodec ------------------------
\* Instances of SecureMessagingCodec for TLC: lengths on both sides of the blocks and
\* of the length forms; data of octets that look like padding.
EXTENDS SecureMessagingCodec

Filled(n, octet) == [i \in 1 .. n |-> octet]

MCCommands == {Filled(n, 128) : n \in {0, 15, 16, 111}}
MCAnswers  == {Filled(n, octet) : n \in {0, 15, 16, 111, 112, 127, 239, 240, 256},
                                  octet \in {0, 128}}
MCCounters == {<<0, 254>>, <<255, 255>>}
MCLes      == {229}
===============================================================================
