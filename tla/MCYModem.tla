------------------------------- MODULE MCYModem -------------------------------
\* Small instances of YModem: frames of three bytes, so that the image for
\* slot 1 begins with the block's last two bytes and that for slot 2 with its
\* last one, and images end inside a block and at the end of one.
EXTENDS YModem

MCNew == [hdr |-> 2, bytes |-> <<9, 5, 8, 7, 3, 9, 5, 8, 7, 5, 3, 0>>,
          ota |-> <<2, 7>>, len |-> 5,
          rdp |-> 0, rdpLen |-> 0, ours |-> TRUE]

MCRdp == [hdr |-> 1, bytes |-> <<6, 8, 7, 11, 6, 8, 7, 0, 11, 4>>,
          ota |-> <<1, 5>>, len |-> 4,
          rdp |-> 9, rdpLen |-> 1, ours |-> TRUE]

MCFiles == {MCNew, MCRdp}

ASSUME MCAssumption == NoZeroBlock /\ ChecksumTells
=============================================================================
