----------------------------- MODULE MCOtaUpdate -----------------------------
\* Small instances of OtaUpdate: a signature of two bytes, images of five and
\* four bytes over sectors of two, packets of at most three bytes, so that a
\* signature, the end of one image and the start of the next fall into one
\* packet or into two, in either order of OTA and RDP image.  The signature is
\* 8, 7 in every file.
EXTENDS OtaUpdate

MCOld == [hdr |-> 1, bytes |-> <<3, 8, 7, 4, 2, 4, 6, 8, 7, 2, 4, 4>>,
          ota |-> <<1, 7>>, len |-> 5,
          rdp |-> 6, rdpLen |-> 1, ours |-> TRUE]

MCNew == [hdr |-> 1, bytes |-> <<3, 6, 5, 8, 7, 2, 2, 8, 7, 4, 2>>,
          ota |-> <<3, 7>>, len |-> 4,
          rdp |-> 1, rdpLen |-> 2, ours |-> TRUE]

MCOther == [hdr |-> 1, bytes |-> <<3, 8, 7, 5, 8, 7, 5>>,
            ota |-> <<1, 4>>, len |-> 3,
            rdp |-> 0, rdpLen |-> 0, ours |-> FALSE]

MCFiles == {MCOld, MCNew, MCOther}

ASSUME MCAssumption == CutsAreNoticed
=============================================================================
