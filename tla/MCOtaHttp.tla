------------------------------ MODULE MCOtaHttp ------------------------------
\* A small instance of OtaHttp: a file with an RDP image, one without and one of
\* another product, with images longer than a packet, as in OtaUpdate's.  The
\* signature is 8, 7 in every file.
EXTENDS OtaHttp

MCWithRdp == [hdr |-> 1, bytes |-> <<3, 8, 7, 4, 2, 4, 6, 8, 7, 2, 4, 4>>,
              ota |-> <<1, 7>>, len |-> 5,
              rdp |-> 6, rdpLen |-> 1, ours |-> TRUE]

MCPlain == [hdr |-> 1, bytes |-> <<3, 1, 1, 8, 7, 2, 2, 8, 7, 4, 2>>,
            ota |-> <<3, 7>>, len |-> 4,
            rdp |-> 0, rdpLen |-> 0, ours |-> TRUE]

MCOther == [hdr |-> 2, bytes |-> <<3, 3, 8, 7, 5, 5, 8, 7, 5, 5>>,
            ota |-> <<2, 6>>, len |-> 4,
            rdp |-> 0, rdpLen |-> 0, ours |-> FALSE]

MCFiles == {MCWithRdp, MCPlain, MCOther}
=============================================================================
