------------------------------- MODULE OtaImage -------------------------------
(***************************************************************************)
(* What the updates of soc/realtek/8711b/misc/rtl8710b_ota.c and of        *)
(* common/utilities/uart_ymodem.c work on: the firmware file a server or a *)
(* terminal sends and the flash it is copied to.                           *)
(*                                                                         *)
(* A cell is one byte of flash or of the stream, and a file may hold any   *)
(* bytes.  A checksum is their sum, as in the code.                        *)
(***************************************************************************)
EXTENDS Integers, Sequences, FiniteSetsExt

CONSTANTS
    Files,          \* the firmware files a server may hold
    SigLen,         \* 8, the bytes of the signature
    SectorLen,      \* 4096, the bytes one erase clears
    SlotLen,        \* bytes of a slot
    Erased,         \* the value of an erased byte
    Corrupted,      \* the value of a byte damaged on its way
    Overwritten     \* the value of a byte programmed twice

OTA_INDEX == {1, 2}

\* A file is its bytes: the header of hdr bytes, for each slot an image of len
\* bytes at offset ota[s], and an RDP image of rdpLen bytes (0: none) at offset
\* rdp.  ours is FALSE when the images carry the custom signature of another
\* product.
Total(f) == Max({f.ota[s] + f.len : s \in OTA_INDEX} \cup {f.rdp + f.rdpLen})

ASSUME ImageAssumption ==
    /\ SigLen \in Nat \ {0}
    /\ SectorLen \in Nat /\ SigLen <= SectorLen
    /\ SlotLen \in Nat /\ SigLen < SlotLen /\ SectorLen <= SlotLen
    /\ \A f \in Files :
          /\ f.hdr \in Nat /\ f.rdp \in Nat
          /\ f.ota \in [OTA_INDEX -> Nat]
          /\ f.len \in SigLen + 1 .. SlotLen
          /\ f.rdpLen \in 0 .. SectorLen
          /\ f.ours \in BOOLEAN
          /\ f.bytes \in Seq(Nat)
          /\ f.hdr <= Total(f) /\ Total(f) <= Len(f.bytes)
    /\ {Erased, Corrupted, Overwritten} \subseteq Nat

NoFile == [hdr |-> 0, bytes |-> <<>>, ota |-> [s \in OTA_INDEX |-> 0], len |-> 0,
           rdp |-> 0, rdpLen |-> 0, ours |-> FALSE]

\* The offsets at which the stream of f may be damaged.
Offsets(f) == f.hdr .. Total(f) - 1

\* The byte of file f at offset o.
Served(f, o) == f.bytes[o + 1]

\* From address `at`, the cells are the complete image f carries for slot s.
IsImage(cells, at, f, s) ==
    \A k \in 0 .. f.len - 1 : cells[at + k] = Served(f, f.ota[s] + k)

Complete(cells, at, s) == \E f \in Files : IsImage(cells, at, f, s)

\* The file whose image for slot s is complete at address `at`.
Held(cells, at, s) ==
    IF Complete(cells, at, s) THEN CHOOSE f \in Files : IsImage(cells, at, f, s)
    ELSE NoFile

\* The boot loader (not in this repository) starts an image that has a
\* signature.  It is a constant: that of any file will do.
Signed(cells, at, s) ==
    \A k \in 0 .. SigLen - 1 :
        \E f \in Files : cells[at + k] = Served(f, f.ota[s] + k)

\* The signature ("81958711") is not what an erased flash reads as, and no image is
\* another one, nor the beginning of another one.
ASSUME SignatureAssumption ==
    \A f \in Files : \A s \in OTA_INDEX :
        /\ \A k \in 0 .. SigLen - 1 : Served(f, f.ota[s] + k) # Erased
        /\ \A g \in Files \ {f} : \E k \in 0 .. f.len - 1 :
              k < g.len /\ Served(f, f.ota[s] + k) # Served(g, g.ota[s] + k)

\* A damaged byte is not the one that was sent.
ASSUME DamageAssumption ==
    \A f \in Files : \A o \in 0 .. Total(f) - 1 : Served(f, o) # Corrupted

\* Overwritten is the value of no byte that is erased or served.
ASSUME OverwrittenAssumption ==
    /\ Overwritten \notin {Erased, Corrupted}
    /\ \A f \in Files : \A o \in 0 .. Total(f) - 1 : Served(f, o) # Overwritten

\* Programming a byte of flash that is not erased spoils it.
Program(cells, from, bytes) ==
    [k \in DOMAIN cells |->
        IF k \in from .. from + Len(bytes) - 1
        THEN IF cells[k] = Erased THEN bytes[k - from + 1] ELSE Overwritten
        ELSE cells[k]]

EraseSectorAt(cells, n) ==
    [k \in DOMAIN cells |->
        IF k \div SectorLen = n THEN Erased ELSE cells[k]]

\* A checksum: the sum of n bytes from index `from` on, added up one by one.
SumOf(bytes, from, n) ==
    LET sum[k \in Int] == IF k <= 0 THEN 0 ELSE sum[k - 1] + bytes[from + k - 1]
    IN  sum[n]

\* The bytes of f from offset o on, as the header's checksum has them.
FileSum(f, o, len) == SumOf([k \in o .. o + len - 1 |-> Served(f, k)], o, len)

Values == {Erased, Corrupted, Overwritten} \cup
          UNION {{Served(f, o) : o \in 0 .. Total(f) - 1} : f \in Files}
=============================================================================
