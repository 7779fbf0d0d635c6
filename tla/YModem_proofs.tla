----------------------------- MODULE YModem_proofs -----------------------------
(***************************************************************************)
(* Proofs about YModem for files, blocks, signatures and sectors of any    *)
(* length and for any number of faults: whatever the line does to the      *)
(* frames, nothing is written behind the image or twice, and the signature *)
(* buffer does not overflow; the running slot is left alone until a header *)
(* whose length noise has altered has more erased than a slot; a transfer  *)
(* whose frames come in order is accepted; and but for that overrun YModem *)
(* implements Firmware.                                                    *)
(*                                                                         *)
(* The last two rest on the order of the blocks: a terminal goes on only   *)
(* by an ACK, so it is never ahead of the receiver, and every block that   *)
(* stays in the image is the one due, one from before it in the file, or   *)
(* one of zeros.  That the sum of the image tells these apart is the       *)
(* assumption ChecksumTells of the last theorems; in the code a block that *)
(* happens to have the sum of the one whose place it takes passes the      *)
(* check.                                                                  *)
(***************************************************************************)
EXTENDS YModem, SequenceTheorems, WellFoundedInduction, TLAPS

-----------------------------------------------------------------------------
(* The invariant.                                                          *)

\* What a cell holds that is not spoiled, and a byte of a frame.
Bytes == (Values \cup {0, Pad}) \ {Overwritten}

\* A frame as the receiver has it.
FrameType(f) ==
    /\ f \in [kind : {"none", "block", "eot", "bad"}, no : Nat, data : Seq(Bytes),
              crc : BOOLEAN]
    /\ f.kind = "block" => Len(f.data) = BlockLen

\* IMAGE_LEN, IMAGE_OFFSET and the counters.
Downloads == [hd : BOOLEAN, len : Nat, begin : Nat, offset : Nat, written : Nat,
              signature : Seq(Bytes)]

Types ==
    /\ slot \in [OTA_INDEX -> [Cells -> Bytes]]
    /\ rdp \in BOOLEAN /\ ota2Set \in BOOLEAN
    /\ boot \in OTA_INDEX /\ cur \in OTA_INDEX
    /\ pc \in {"idle", "hello", "frame", "header", "erase", "eraseRdp", "write",
               "crc", "signature", "clear", "sign", "exit"}
    /\ FrameType(rx) /\ late \in BOOLEAN /\ harmed \in BOOLEAN
    /\ nxt \in Nat /\ step \in Nat /\ acks \in Nat /\ faults \in 0 .. MaxFaults
    /\ snd \in [n : Nat, state : {"off", "send", "await"}]
    /\ dw \in Downloads

\* Only a terminal sends, and only a file has a header; an idle line is silent.
FileInv ==
    /\ file \in Files \cup {NoFile}
    /\ snd.state # "off" \/ rx.kind # "none" \/ pc \notin {"idle", "hello"} =>
          file \in Files
    /\ pc = "idle" => rx.kind = "none" /\ snd.state = "off"

\* The frame in work is a block.
WorkInv == pc \in {"header", "erase", "eraseRdp", "write", "crc"} => rx.kind = "block"

\* How much of the image lies before offset o of the file.
Before(f, t, o) ==
    IF o <= f.ota[t] THEN 0
    ELSE IF o - f.ota[t] < f.len THEN o - f.ota[t] ELSE f.len

\* The signature and the rest are what of the image has gone by; the signature
\* is complete when the rest begins, but for an image that ends in that block.
TakenInv(f, t, d) ==
    /\ Len(d.signature) <= SigLen
    /\ Len(d.signature) + d.written = Before(f, t, d.offset)
    /\ d.written > 0 /\ Len(d.signature) < SigLen =>
          Len(d.signature) + d.written = f.len

\* The cells that what is to come will be written to are erased.
BlankInv(f, d, cells) ==
    /\ \A k \in Len(d.signature) + d.written .. f.len - 1 : cells[k] = Erased
    /\ d.written = 0 \/ Len(d.signature) = SigLen =>
          \A k \in 0 .. SigLen - 1 : cells[k] = Erased

\* The first n sectors are erased.
BlankBelow(cells, n) == \A k \in Cells : k \div SectorLen < n => cells[k] = Erased

\* A header has been taken, and it is the one that was sent.
InUse == dw.hd \/ pc \in {"erase", "eraseRdp"}
Intact == dw.len = file.len /\ dw.begin = file.ota[Target]

\* What the thread has done at each of its places.
ThreadInv ==
    /\ ~dw.hd => dw.offset = 0 /\ dw.written = 0 /\ dw.signature = <<>>
    /\ ~InUse => dw = NoDownload /\ step = 0
    /\ dw.hd => pc \in {"frame", "write", "crc", "signature", "clear", "sign", "exit"}
    /\ dw.hd /\ Intact => TakenInv(file, Target, dw)
    /\ pc \in {"write", "clear", "sign", "exit"} => dw.hd
    /\ pc = "erase" => /\ step < ErasedSectors(dw.len)
                       /\ \A s \in OTA_INDEX : BlankBelow(slot[s], step - SlotAt(s))
    /\ pc = "eraseRdp" => BlankBelow(slot[Target], ErasedSectors(dw.len))
    /\ dw.hd /\ Intact /\ pc \in {"frame", "write", "crc", "signature"} =>
          BlankInv(file, dw, slot[Target])
    /\ pc = "sign" => /\ Len(dw.signature) = SigLen /\ step <= SigLen
                      /\ \A k \in step .. SigLen - 1 : slot[Target][k] = Erased

\* A block with an altered header fails its CRC, after the flash is erased and the
\* block written: no other follows it, and its signature never gets to the flash.
AlteredInv ==
    InUse /\ ~Intact =>
        /\ pc \in {"erase", "eraseRdp", "write", "crc"}
        /\ ~rx.crc /\ rx.data # Zeros
        /\ pc # "crc" => dw.offset = 0 /\ dw.written = 0 /\ dw.signature = <<>>
        /\ pc = "write" => BlankBelow(slot[Target], 1)
        /\ pc = "crc" => /\ Len(dw.signature) <= SigLen
                         /\ Len(dw.signature) + dw.written <= BlockLen
                         /\ slot[Target][0] = Erased

Inv == Types /\ FileInv /\ WorkInv /\ ThreadInv /\ AlteredInv

-----------------------------------------------------------------------------
(* Files, bytes and cells.                                                 *)

LEMMA Lengths ==
    /\ SigLen \in Nat /\ SigLen > 0 /\ SectorLen \in Nat /\ SectorLen > 0
    /\ SlotLen \in Nat /\ BlockLen \in Nat /\ SigLen <= BlockLen /\ BlockLen > 0
    /\ SigLen < SlotLen /\ SectorLen <= SlotLen /\ BlockLen <= SectorLen
    /\ MaxFaults \in Nat /\ AlteredLens \subseteq Nat
  BY ImageAssumption, YModemAssumption

LEMMA FileFacts ==
    ASSUME NEW f \in Files, NEW t \in OTA_INDEX
    PROVE  /\ f.ota[t] \in Nat /\ f.bytes \in Seq(Nat) /\ Total(f) <= Len(f.bytes)
           /\ f.len \in Nat /\ SigLen < f.len /\ f.len <= SlotLen
           /\ BlockLen < f.len
<1>1. /\ f.ota \in [OTA_INDEX -> Nat] /\ f.len \in SigLen + 1 .. SlotLen
      /\ f.bytes \in Seq(Nat) /\ Total(f) <= Len(f.bytes)
    BY ImageAssumption
<1> QED
    BY <1>1, Lengths, YModemAssumption

\* An upper bound that is a member is the maximum.
LEMMA MaxIs ==
    ASSUME NEW S, NEW x \in S, \A y \in S : x >= y
    PROVE  Max(S) \in S /\ \A y \in S : Max(S) >= y
  BY DEF Max

LEMMA TotalBound ==
    ASSUME NEW f \in Files
    PROVE  /\ Total(f) \in Nat /\ f.ota[1] + f.len <= Total(f)
           /\ f.ota[2] + f.len <= Total(f)
<1> DEFINE a == f.ota[1] + f.len
           b == f.ota[2] + f.len
           c == f.rdp + f.rdpLen
           S == {a, b, c}
<1>1. a \in Nat /\ b \in Nat /\ c \in Nat
    <2>1. /\ f.ota \in [OTA_INDEX -> Nat] /\ f.len \in SigLen + 1 .. SlotLen
          /\ f.rdp \in Nat /\ f.rdpLen \in 0 .. SectorLen
        BY ImageAssumption
    <2>2. /\ f.ota[1] \in Nat /\ f.ota[2] \in Nat /\ f.len \in Nat
          /\ f.rdp \in Nat /\ f.rdpLen \in Nat
        BY <2>1, Lengths DEF OTA_INDEX
    <2> QED
        BY <2>2
<1>2. {f.ota[s] + f.len : s \in OTA_INDEX} \cup {f.rdp + f.rdpLen} = S
    BY DEF OTA_INDEX
<1>3. Total(f) = Max(S)
    BY <1>2 DEF Total
<1> HIDE DEF a, b, c
<1>4. \E x \in S : \A y \in S : x >= y
    BY <1>1
<1>5. Max(S) \in S /\ \A y \in S : Max(S) >= y
    BY <1>4, MaxIs
<1>6. Total(f) \in Nat /\ a <= Total(f) /\ b <= Total(f)
    BY <1>1, <1>3, <1>5
<1> QED
    BY <1>6 DEF a, b

LEMMA FixedBytes == {Erased, Corrupted, 0, Pad} \subseteq Bytes
  BY OverwrittenAssumption, YModemAssumption DEF Bytes, Values

LEMMA ServedByte ==
    ASSUME NEW f \in Files, NEW o \in Nat, o < Total(f)
    PROVE  Served(f, o) \in Bytes /\ Served(f, o) \in Nat
<1>1. o \in 0 .. Total(f) - 1 /\ Total(f) \in Nat
    BY TotalBound
<1>2. Served(f, o) \in Values
    BY <1>1 DEF Values
<1>3. Served(f, o) # Overwritten
    BY <1>1, OverwrittenAssumption
<1>4. f.bytes \in Seq(Nat) /\ Total(f) <= Len(f.bytes)
    BY FileFacts DEF OTA_INDEX
<1>5. o + 1 \in 1 .. Len(f.bytes)
    BY <1>1, <1>4, LenProperties
<1>6. f.bytes[o + 1] \in Nat
    BY <1>4, <1>5, ElementOfSeq
<1> QED
    BY <1>2, <1>3, <1>6 DEF Bytes, Served

\* Programming erased cells.
LEMMA ProgramBlank ==
    ASSUME NEW cells \in [Cells -> Bytes], NEW from \in Nat, NEW bytes \in Seq(Bytes),
           \A k \in from .. from + Len(bytes) - 1 : cells[k] = Erased
    PROVE  /\ Program(cells, from, bytes) \in [Cells -> Bytes]
           /\ \A k \in Cells : k \notin from .. from + Len(bytes) - 1 =>
                 Program(cells, from, bytes)[k] = cells[k]
<1>1. \A k \in from .. from + Len(bytes) - 1 : bytes[k - from + 1] \in Bytes
    <2> TAKE k \in from .. from + Len(bytes) - 1
    <2>1. k - from + 1 \in 1 .. Len(bytes)
        OBVIOUS
    <2> QED
        BY <2>1, ElementOfSeq
<1>2. DOMAIN cells = Cells /\ \A k \in Cells : cells[k] \in Bytes
    OBVIOUS
<1>3. Program(cells, from, bytes) =
        [k \in Cells |-> IF k \in from .. from + Len(bytes) - 1
                         THEN bytes[k - from + 1] ELSE cells[k]]
    BY <1>2, Zenon DEF Program
<1> QED
    BY <1>1, <1>2, <1>3

LEMMA EraseSectorOn ==
    ASSUME NEW cells \in [Cells -> Bytes], NEW n
    PROVE  /\ EraseSectorAt(cells, n) \in [Cells -> Bytes]
           /\ \A k \in Cells : EraseSectorAt(cells, n)[k] =
                 IF k \div SectorLen = n THEN Erased ELSE cells[k]
  BY FixedBytes DEF EraseSectorAt

\* An offset behind another is in the same sector or in one behind it.
LEMMA SectorGrows ==
    ASSUME NEW n \in Nat, n > 0, NEW a \in Nat, NEW b \in Nat, a <= b
    PROVE  a \div n \in Nat /\ b \div n \in Nat /\ a \div n <= b \div n
  OBVIOUS

LEMMA MinOfTwo ==
    ASSUME NEW a \in Nat, NEW b \in Nat
    PROVE  Min({a, b}) = IF a <= b THEN a ELSE b
<1>1. \A x \in {a, b} : (\A y \in {a, b} : x <= y) => x = IF a <= b THEN a ELSE b
    OBVIOUS
<1>2. \E x \in {a, b} : \A y \in {a, b} : x <= y
    OBVIOUS
<1> QED
    BY <1>1, <1>2 DEF Min

\* How many sectors are erased: at least one, and for a length a slot holds all
\* that the length is in.
LEMMA ErasedSectorsIs ==
    ASSUME NEW n \in Nat
    PROVE  /\ ErasedSectors(n) \in Nat /\ ErasedSectors(n) >= 1
           /\ SlotSectors \in Nat /\ SlotSectors >= 1
           /\ n \in 1 .. SlotLen => /\ ErasedSectors(n) = (n - 1) \div SectorLen + 1
                                    /\ ErasedSectors(n) <= SlotSectors
<1>1. SlotLen - 1 \in Nat /\ SectorLen \in Nat /\ SectorLen > 0
    BY Lengths
<1>2. SlotSectors \in Nat /\ SlotSectors >= 1
    BY <1>1, SectorGrows DEF SlotSectors
<1>3. FlashSectors \in Nat /\ FlashSectors = 2 * SlotSectors + 2
    BY <1>2 DEF FlashSectors
<1>4. CASE n = 0
    BY <1>2, <1>3, <1>4 DEF ErasedSectors
<1>5. CASE n > 0
    <2> DEFINE m == (n - 1) \div SectorLen + 1
    <2>1. n - 1 \in Nat
        BY <1>5
    <2>2. m \in Nat /\ m >= 1
        BY <1>1, <2>1, SectorGrows
    <2>3. ASSUME n <= SlotLen PROVE m <= SlotSectors
        <3>1. n - 1 <= SlotLen - 1
            BY <1>1, <2>1, <2>3, Lengths
        <3>2. (n - 1) \div SectorLen <= (SlotLen - 1) \div SectorLen
            BY <1>1, <2>1, <3>1, SectorGrows
        <3> QED
            BY <3>2, <1>1, <2>1, SectorGrows DEF SlotSectors
    <2> HIDE DEF m
    <2>4. ErasedSectors(n) = Min({FlashSectors, m})
        BY <1>5 DEF ErasedSectors, m
    <2>5. ErasedSectors(n) = IF FlashSectors <= m THEN FlashSectors ELSE m
        BY <1>3, <2>2, <2>4, MinOfTwo
    <2>6. /\ ErasedSectors(n) \in Nat /\ ErasedSectors(n) >= 1
          /\ n <= SlotLen => ErasedSectors(n) = m /\ m <= SlotSectors
        BY <1>2, <1>3, <2>2, <2>3, <2>5
    <2> QED
        BY <1>2, <2>6 DEF m
<1> QED
    BY <1>4, <1>5

\* Where a slot lies behind the target.
LEMMA SlotAtIs ==
    ASSUME cur \in OTA_INDEX, NEW s \in OTA_INDEX
    PROVE  /\ SlotAt(s) \in Nat /\ (s = Target => SlotAt(s) = 0)
           /\ s # Target => s = cur /\ SlotAt(s) >= SlotSectors
<1>1. SlotSectors \in Nat
    BY ErasedSectorsIs
<1> QED
    BY <1>1 DEF SlotAt, Target, OTA_INDEX

\* All that a length a slot holds is in, is erased.
LEMMA AllErased ==
    ASSUME NEW n \in 1 .. SlotLen, NEW cells, BlankBelow(cells, ErasedSectors(n)),
           NEW k \in 0 .. n - 1
    PROVE  cells[k] = Erased
<1>1. k \in Cells /\ k \in Nat /\ n - 1 \in Nat
    BY Lengths DEF Cells
<1>2. k \div SectorLen <= (n - 1) \div SectorLen
    BY <1>1, Lengths, SectorGrows
<1>3. k \div SectorLen < ErasedSectors(n)
    <2>1. /\ k \div SectorLen \in Nat /\ (n - 1) \div SectorLen \in Nat
          /\ ErasedSectors(n) = (n - 1) \div SectorLen + 1
        BY <1>1, Lengths, SectorGrows, ErasedSectorsIs
    <2> QED
        BY <1>2, <2>1
<1> QED
    BY <1>1, <1>3 DEF BlankBelow

\* The first sector holds the first block.
LEMMA FirstSector ==
    ASSUME NEW cells, BlankBelow(cells, 1), NEW k \in 0 .. BlockLen - 1
    PROVE  k \in Cells /\ cells[k] = Erased
<1>1. k \in Nat /\ k < SectorLen /\ k < SlotLen
    BY Lengths
<1>2. k \div SectorLen = 0
    BY <1>1, Lengths
<1> QED
    BY <1>1, <1>2, Lengths DEF BlankBelow, Cells

\* A part of a sequence.
LEMMA Part ==
    ASSUME NEW q \in Seq(Bytes), NEW a \in 1 .. Len(q) + 1, NEW b \in a - 1 .. Len(q)
    PROVE  SubSeq(q, a, b) \in Seq(Bytes) /\ Len(SubSeq(q, a, b)) = b - a + 1
<1>1. Len(q) \in Nat /\ \A i \in 1 .. Len(q) : q[i] \in Bytes
    BY LenProperties, ElementOfSeq
<1>2. a \in Int /\ b \in Int /\ \A i \in a .. b : q[i] \in Bytes
    BY <1>1
<1>3. /\ SubSeq(q, a, b) \in Seq(Bytes)
      /\ Len(SubSeq(q, a, b)) = IF a <= b THEN b - a + 1 ELSE 0
    BY <1>2, SubSeqProperties
<1> QED
    BY <1>1, <1>3

LEMMA TargetIs ==
    ASSUME cur \in OTA_INDEX
    PROVE  Target \in OTA_INDEX /\ Target # cur
  BY DEF Target, OTA_INDEX

\* The slots after a write to one of them.
LEMMA SlotWritten ==
    ASSUME slot \in [OTA_INDEX -> [Cells -> Bytes]], NEW t \in OTA_INDEX,
           NEW cells \in [Cells -> Bytes], slot' = [slot EXCEPT ![t] = cells]
    PROVE  slot' \in [OTA_INDEX -> [Cells -> Bytes]] /\ slot'[t] = cells
  OBVIOUS

-----------------------------------------------------------------------------
(* The frames.                                                             *)

LEMMA FixedFrames ==
    ASSUME NEW n \in Nat
    PROVE  /\ FrameType(NoFrame) /\ FrameType(BadFrame) /\ FrameType(EotFrame(n))
           /\ NoFrame.kind = "none" /\ BadFrame.kind = "bad"
           /\ EotFrame(n).kind = "eot"
<1>1. <<>> \in Seq(Bytes)
    BY EmptySeq
<1>2. NoFrame = [kind |-> "none", no |-> 0, data |-> <<>>, crc |-> FALSE]
    BY DEF NoFrame
<1> DEFINE R == [kind : {"none", "block", "eot", "bad"}, no : Nat, data : Seq(Bytes),
                 crc : BOOLEAN]
<1>3. NoFrame \in R /\ NoFrame.kind = "none"
    BY <1>1, <1>2
<1>4. BadFrame \in R /\ BadFrame.kind = "bad"
    BY <1>3 DEF BadFrame
<1>5. EotFrame(n) \in R /\ EotFrame(n).kind = "eot"
    BY <1>3 DEF EotFrame
<1> QED
    BY <1>3, <1>4, <1>5 DEF FrameType

\* A block of bytes is the data of a frame.
LEMMA BlockFrame ==
    ASSUME NEW n \in Nat, NEW c \in BOOLEAN, NEW d \in [1 .. BlockLen -> Bytes],
           NEW f, f = [kind |-> "block", no |-> n, data |-> d, crc |-> c]
    PROVE  FrameType(f)
<1>1. d \in Seq(Bytes) /\ Len(d) = BlockLen
    BY Lengths, SeqDef, LenProperties
<1> QED
    BY <1>1 DEF FrameType

LEMMA BlockIsBlock ==
    ASSUME NEW f \in Files, NEW n \in Nat
    PROVE  Block(f, n) \in [1 .. BlockLen -> Bytes]
<1>1. \A o \in Nat : Byte(f, o) \in Bytes
    <2> TAKE o \in Nat
    <2>1. CASE o < Total(f)
        BY <2>1, ServedByte DEF Byte
    <2>2. CASE ~(o < Total(f))
        BY <2>2, FixedBytes DEF Byte
    <2> QED
        BY <2>1, <2>2
<1> SUFFICES ASSUME NEW k \in 1 .. BlockLen
             PROVE  (IF n = 0 THEN Pad ELSE Byte(f, (n - 1) * BlockLen + k - 1)) \in Bytes
    BY DEF Block
<1>2. CASE n = 0
    BY <1>2, FixedBytes
<1>3. CASE n # 0
    <2>1. n - 1 \in Nat /\ k - 1 \in Nat /\ BlockLen \in Nat
        BY <1>3, Lengths
    <2> DEFINE m == (n - 1) * BlockLen
    <2>2. m \in Nat
        BY <2>1
    <2> HIDE DEF m
    <2>3. m + k - 1 \in Nat
        BY <2>1, <2>2
    <2> QED
        BY <1>1, <1>3, <2>3 DEF m
<1> QED
    BY <1>2, <1>3

LEMMA FrameIsFrame ==
    ASSUME file \in Files, NEW n \in Nat
    PROVE  /\ FrameType(Frame(n)) /\ Frame(n).kind \in {"block", "eot"}
           /\ Frame(n).kind = "block" => Frame(n).data \in [1 .. BlockLen -> Bytes]
<1> DEFINE d == Block(file, n)
<1>1. d \in [1 .. BlockLen -> Bytes]
    BY BlockIsBlock
<1>2. CASE n > LastBlock
    <2>1. Frame(n) = EotFrame(n)
        BY <1>2 DEF Frame
    <2> QED
        BY <2>1, FixedFrames
<1>3. CASE ~(n > LastBlock)
    <2>1. Frame(n) = [kind |-> "block", no |-> n, crc |-> TRUE, data |-> d]
        BY <1>3 DEF Frame
    <2> HIDE DEF d
    <2>2. Frame(n) = [kind |-> "block", no |-> n, data |-> d, crc |-> TRUE]
        BY <2>1
    <2> DEFINE f == Frame(n)
    <2>3. /\ f = [kind |-> "block", no |-> n, data |-> d, crc |-> TRUE]
          /\ TRUE \in BOOLEAN
        BY <2>2
    <2> HIDE DEF f
    <2>4. FrameType(f)
        BY <1>1, <2>3, BlockFrame
    <2>5. f.kind = "block" /\ f.data = d
        BY <2>3
    <2> QED
        BY <1>1, <2>4, <2>5 DEF f
<1> QED
    BY <1>2, <1>3

\* What noise makes of a frame is one too.
LEMMA SpoiledIsFrame ==
    ASSUME file \in Files, NEW n \in Nat, NEW f \in Spoiled(Frame(n))
    PROVE  FrameType(f) /\ f.kind \in {"block", "eot", "bad"}
<1> DEFINE g == Frame(n)
<1> DEFINE R == [kind : {"none", "block", "eot", "bad"}, no : Nat, data : Seq(Bytes),
                 crc : BOOLEAN]
<1>1. g \in R /\ (g.kind = "block" => g.data \in [1 .. BlockLen -> Bytes])
    BY FrameIsFrame DEF FrameType
<1>2. ASSUME g.kind = "block", NEW d \in [1 .. BlockLen -> Bytes],
             f = [g EXCEPT !.data = d, !.crc = FALSE]
      PROVE  FrameType(f) /\ f.kind = "block"
    <2>1. d \in Seq(Bytes) /\ Len(d) = BlockLen
        BY Lengths, SeqDef, LenProperties
    <2> HIDE DEF g
    <2>2. f \in R /\ f.kind = "block" /\ f.data = d
        BY <1>1, <1>2, <2>1
    <2> QED
        BY <2>1, <2>2 DEF FrameType
<1>3. \/ f = BadFrame \/ f = EotFrame(0)
      \/ /\ g.kind = "block"
         /\ \/ \E k \in 1 .. BlockLen : f = [g EXCEPT !.data[k] = Corrupted, !.crc = FALSE]
            \/ f = [g EXCEPT !.data = Zeros, !.crc = FALSE]
    BY DEF Spoiled
<1> HIDE DEF g
<1>4. CASE f = BadFrame \/ f = EotFrame(0)
    BY <1>4, FixedFrames
<1>5. CASE /\ g.kind = "block"
           /\ \E k \in 1 .. BlockLen : f = [g EXCEPT !.data[k] = Corrupted, !.crc = FALSE]
    <2>1. PICK k \in 1 .. BlockLen : f = [g EXCEPT !.data[k] = Corrupted, !.crc = FALSE]
        BY <1>5
    <2> DEFINE d == [g.data EXCEPT ![k] = Corrupted]
    <2>2. d \in [1 .. BlockLen -> Bytes]
        BY <1>1, <1>5, FixedBytes
    <2>3. f = [g EXCEPT !.data = d, !.crc = FALSE]
        BY <2>1
    <2> HIDE DEF d
    <2> QED
        BY <1>2, <1>5, <2>2, <2>3
<1>6. CASE g.kind = "block" /\ f = [g EXCEPT !.data = Zeros, !.crc = FALSE]
    <2>1. Zeros \in [1 .. BlockLen -> Bytes]
        BY FixedBytes DEF Zeros
    <2> QED
        BY <1>2, <1>6, <2>1
<1> QED
    BY <1>3, <1>4, <1>5, <1>6

-----------------------------------------------------------------------------
(* What goes to the flash.                                                 *)

LEMMA BeforeIs ==
    ASSUME NEW f, NEW t, NEW o
    PROVE  Before(f, t, o) = IF o <= f.ota[t] THEN 0
                             ELSE IF o - f.ota[t] < f.len THEN o - f.ota[t] ELSE f.len
  BY DEF Before

\* The part of a block that belongs to the image is what of the image lies
\* between the offset of the block and that of the next.
LEMMA PartResult ==
    ASSUME file \in Files, Target \in OTA_INDEX, Intact, rx.data \in Seq(Bytes),
           Len(rx.data) = BlockLen, dw.offset \in Nat
    PROVE  /\ PartOfImage \in Seq(Bytes)
           /\ Before(file, Target, dw.offset) + Len(PartOfImage)
                 = Before(file, Target, dw.offset + BlockLen)
           /\ Begin < dw.offset /\ EndsHere =>
                 Before(file, Target, dw.offset + BlockLen) = file.len
<1> DEFINE o == dw.offset
           b == file.ota[Target]
           l == file.len
           e == b + l
           q == rx.data
           p == PartOfImage
           x == Before(file, Target, o)
           u == o + BlockLen
           y == Before(file, Target, u)
<1>1. /\ o \in Nat /\ b \in Nat /\ l \in Nat /\ BlockLen \in Nat /\ BlockLen > 0
      /\ BlockLen < l /\ q \in Seq(Bytes) /\ Len(q) = BlockLen /\ e = b + l
    BY Lengths, FileFacts
<1>2. /\ x = IF o <= b THEN 0 ELSE IF o - b < l THEN o - b ELSE l
      /\ y = IF u <= b THEN 0 ELSE IF u - b < l THEN u - b ELSE l
      /\ u = o + BlockLen
    <2>1. x = IF o <= b THEN 0 ELSE IF o - b < l THEN o - b ELSE l
        BY BeforeIs
    <2> HIDE DEF u
    <2>2. y = IF u <= b THEN 0 ELSE IF u - b < l THEN u - b ELSE l
        BY BeforeIs
    <2> QED
        BY <2>1, <2>2 DEF u
<1>3. p = IF b \in o .. o + BlockLen - 1 THEN SubSeq(q, b - o + 1, BlockLen)
          ELSE IF b < o /\ e \in o + 1 .. o + BlockLen - 1 THEN SubSeq(q, 1, e - o)
          ELSE IF b < o /\ o < e THEN q ELSE <<>>
    BY DEF PartOfImage, Begin, End, EndsHere, Intact
<1>4. Begin < dw.offset /\ EndsHere <=> b < o /\ e \in o + 1 .. o + BlockLen - 1
    BY DEF Begin, End, EndsHere, Intact
<1> HIDE DEF o, b, l, e, q, p, x, y, u
<1>5. b < o /\ e \in o + 1 .. o + BlockLen - 1 => y = l
    BY <1>1, <1>2
<1>6. p \in Seq(Bytes) /\ x + Len(p) = y
    <2>1. CASE b \in o .. o + BlockLen - 1
        <3>1. b - o + 1 \in 1 .. Len(q) + 1 /\ BlockLen \in (b - o + 1) - 1 .. Len(q)
            BY <1>1, <2>1
        <3>2. p = SubSeq(q, b - o + 1, BlockLen)
            BY <1>3, <2>1
        <3>3. p \in Seq(Bytes) /\ Len(p) = BlockLen - (b - o + 1) + 1
            BY <1>1, <3>1, <3>2, Part
        <3>4. x = 0 /\ y = o + BlockLen - b
            BY <1>1, <1>2, <2>1
        <3> QED
            BY <1>1, <3>3, <3>4
    <2>2. CASE b < o /\ e \in o + 1 .. o + BlockLen - 1
        <3>1. 1 \in 1 .. Len(q) + 1 /\ e - o \in 1 - 1 .. Len(q)
            BY <1>1, <2>2
        <3>2. p = SubSeq(q, 1, e - o)
            BY <1>1, <1>3, <2>2
        <3>3. p \in Seq(Bytes) /\ Len(p) = e - o - 1 + 1
            BY <1>1, <3>1, <3>2, Part
        <3>4. x = o - b /\ y = l
            BY <1>1, <1>2, <2>2
        <3> QED
            BY <1>1, <3>3, <3>4
    <2>3. CASE b < o /\ o < e /\ ~(e \in o + 1 .. o + BlockLen - 1)
        <3>1. p = q
            BY <1>1, <1>3, <2>3
        <3>2. o + BlockLen <= e
            BY <1>1, <2>3
        <3>3. x = o - b /\ y = o + BlockLen - b
            BY <1>1, <1>2, <2>3, <3>2
        <3> QED
            BY <1>1, <3>1, <3>3
    <2>4. CASE o >= e \/ b >= o + BlockLen
        <3>1. p = <<>>
            BY <1>1, <1>3, <2>4
        <3>2. x = y /\ x \in Nat
            BY <1>1, <1>2, <2>4
        <3>3. p \in Seq(Bytes) /\ Len(p) = 0
            BY <3>1, EmptySeq
        <3> QED
            BY <3>2, <3>3
    <2> QED
        BY <1>1, <2>1, <2>2, <2>3, <2>4
<1> QED
    BY <1>4, <1>5, <1>6 DEF o, l, p, x, u, y

\* For any header, it is a part of the block.
LEMMA PartBound ==
    ASSUME rx.data \in Seq(Bytes), Len(rx.data) = BlockLen, dw \in Downloads
    PROVE  PartOfImage \in Seq(Bytes) /\ Len(PartOfImage) <= BlockLen
<1> DEFINE o == dw.offset
           b == Begin
           e == End
           q == rx.data
           p == PartOfImage
<1>1. /\ o \in Nat /\ b \in Nat /\ e \in Nat /\ BlockLen \in Nat
      /\ q \in Seq(Bytes) /\ Len(q) = BlockLen
    BY Lengths DEF Downloads, Begin, End
<1>2. p = IF b \in o .. o + BlockLen - 1 THEN SubSeq(q, b - o + 1, BlockLen)
          ELSE IF b < o /\ e \in o + 1 .. o + BlockLen - 1 THEN SubSeq(q, 1, e - o)
          ELSE IF b < o /\ o < e THEN q ELSE <<>>
    BY DEF PartOfImage, EndsHere
<1> HIDE DEF o, b, e, q, p
<1>3. CASE b \in o .. o + BlockLen - 1
    <2>1. b - o + 1 \in 1 .. Len(q) + 1 /\ BlockLen \in (b - o + 1) - 1 .. Len(q)
        BY <1>1, <1>3
    <2>2. p \in Seq(Bytes) /\ Len(p) = BlockLen - (b - o + 1) + 1
        BY <1>1, <1>2, <1>3, <2>1, Part
    <2> QED
        BY <1>1, <1>3, <2>2 DEF p
<1>4. CASE b < o /\ e \in o + 1 .. o + BlockLen - 1
    <2>1. 1 \in 1 .. Len(q) + 1 /\ e - o \in 1 - 1 .. Len(q)
        BY <1>1, <1>4
    <2>2. p = SubSeq(q, 1, e - o)
        BY <1>1, <1>2, <1>4
    <2>3. p \in Seq(Bytes) /\ Len(p) = e - o - 1 + 1
        BY <1>1, <2>1, <2>2, Part
    <2> QED
        BY <1>1, <1>4, <2>3 DEF p
<1>5. CASE ~(b \in o .. o + BlockLen - 1) /\ ~(b < o /\ e \in o + 1 .. o + BlockLen - 1)
    <2>1. p = q \/ p = <<>>
        BY <1>2, <1>5
    <2>2. <<>> \in Seq(Bytes) /\ Len(<<>>) = 0
        BY EmptySeq
    <2>3. CASE p = q
        <3>1. p \in Seq(Bytes) /\ Len(p) <= BlockLen
            BY <1>1, <2>3
        <3> QED
            BY <3>1 DEF p
    <2>4. CASE p = <<>>
        <3>1. p \in Seq(Bytes) /\ Len(p) <= BlockLen
            BY <1>1, <2>2, <2>4
        <3> QED
            BY <3>1 DEF p
    <2> QED
        BY <2>1, <2>3, <2>4
<1> QED
    BY <1>3, <1>4, <1>5

LEMMA BeforeBound ==
    ASSUME NEW f \in Files, NEW t \in OTA_INDEX, NEW o \in Nat
    PROVE  Before(f, t, o) \in Nat /\ Before(f, t, o) <= f.len
  BY FileFacts DEF Before

\* How the part is divided.
Divided(part, sig, data) ==
    /\ sig \in Seq(Bytes) /\ data \in Seq(Bytes) /\ Len(sig) + Len(data) = Len(part)
    /\ IF Begin < dw.offset /\ EndsHere THEN Len(sig) = 0
       ELSE /\ Len(dw.signature) + Len(sig) <= SigLen
            /\ Len(data) > 0 => Len(dw.signature) + Len(sig) = SigLen

LEMMA DividedResult ==
    ASSUME PartOfImage \in Seq(Bytes), dw.signature \in Seq(Bytes),
           Len(dw.signature) <= SigLen
    PROVE  Divided(PartOfImage, PartOfSignature,
                   SubSeq(PartOfImage, Len(PartOfSignature) + 1, Len(PartOfImage)))
<1> DEFINE p == PartOfImage
           s == PartOfSignature
           data == SubSeq(p, Len(s) + 1, Len(p))
           room == SigLen - Len(dw.signature)
           n == IF Len(p) <= room THEN Len(p) ELSE room
<1>1. Len(p) \in Nat /\ room \in Nat /\ p \in Seq(Bytes)
    BY Lengths, LenProperties
<1>2. ~(Begin < dw.offset /\ EndsHere) => s = SubSeq(p, 1, n)
    <2>1. Min({Len(p), room}) = n
        BY <1>1, MinOfTwo
    <2> QED
        BY <2>1 DEF PartOfSignature
<1>3. Begin < dw.offset /\ EndsHere => s = <<>>
    BY DEF PartOfSignature
<1>8. Len(dw.signature) = SigLen - room /\ Len(dw.signature) \in Nat
    BY Lengths, LenProperties
<1>9. SigLen \in Nat
    BY Lengths
<1> HIDE DEF p, s, room
<1>4. n \in 0 .. Len(p) /\ n <= room /\ (n < Len(p) => n = room)
    BY <1>1
<1> HIDE DEF n
<1>5. /\ s \in Seq(Bytes) /\ Len(s) \in 0 .. Len(p)
      /\ ~(Begin < dw.offset /\ EndsHere) => Len(s) = n
      /\ Begin < dw.offset /\ EndsHere => Len(s) = 0
    <2>1. CASE Begin < dw.offset /\ EndsHere
        <3>1. s \in Seq(Bytes) /\ Len(s) = 0
            BY <1>3, <2>1, EmptySeq
        <3> QED
            BY <1>1, <2>1, <3>1
    <2>2. CASE ~(Begin < dw.offset /\ EndsHere)
        <3>1. 1 \in 1 .. Len(p) + 1 /\ n \in 1 - 1 .. Len(p)
            BY <1>1, <1>4
        <3>2. s \in Seq(Bytes) /\ Len(s) = n - 1 + 1
            BY <1>1, <1>2, <2>2, <3>1, Part
        <3>3. Len(s) = n
            BY <1>4, <3>2
        <3> QED
            BY <1>4, <2>2, <3>2, <3>3
    <2> QED
        BY <2>1, <2>2
<1>6. data \in Seq(Bytes) /\ Len(s) + Len(data) = Len(p)
    <2>1. Len(s) + 1 \in 1 .. Len(p) + 1 /\ Len(p) \in (Len(s) + 1) - 1 .. Len(p)
        BY <1>1, <1>5
    <2>2. data \in Seq(Bytes) /\ Len(data) = Len(p) - (Len(s) + 1) + 1
        BY <1>1, <2>1, Part
    <2> HIDE DEF data
    <2> QED
        BY <1>1, <1>5, <2>2
<1> HIDE DEF data
<1>7. IF Begin < dw.offset /\ EndsHere THEN Len(s) = 0
      ELSE /\ Len(dw.signature) + Len(s) <= SigLen
           /\ Len(data) > 0 => Len(dw.signature) + Len(s) = SigLen
    <2>1. CASE Begin < dw.offset /\ EndsHere
        BY <1>5, <2>1
    <2>2. CASE ~(Begin < dw.offset /\ EndsHere)
        <3>1. Len(s) = n
            BY <1>5, <2>2
        <3>2. Len(dw.signature) + Len(s) <= SigLen
            BY <1>1, <1>4, <1>8, <1>9, <3>1
        <3>3. Len(data) > 0 => Len(dw.signature) + Len(s) = SigLen
            <4>1. Len(data) \in Nat
                BY <1>6, LenProperties
            <4>2. Len(data) > 0 => n < Len(p)
                BY <1>1, <1>4, <1>6, <3>1, <4>1
            <4> QED
                BY <1>1, <1>4, <1>8, <1>9, <3>1, <4>2
        <3> QED
            BY <2>2, <3>2, <3>3
    <2> QED
        BY <2>1, <2>2
<1> QED
    BY <1>5, <1>6, <1>7 DEF Divided, p, s, data

\* The block after: the counts, and the cells that are still to be written.
LEMMA BlockTaken ==
    ASSUME NEW part \in Seq(Bytes), NEW sig, NEW data, Divided(part, sig, data),
           file \in Files, Target \in OTA_INDEX, TakenInv(file, Target, dw),
           dw.offset \in Nat, dw.written \in Nat, dw.signature \in Seq(Bytes),
           Before(file, Target, dw.offset) + Len(part)
               = Before(file, Target, dw.offset + BlockLen),
           Begin < dw.offset /\ EndsHere =>
               Before(file, Target, dw.offset + BlockLen) = file.len,
           NEW d, d.offset = dw.offset + BlockLen, d.written = dw.written + Len(data),
           d.signature = dw.signature \o sig,
           NEW cells \in [Cells -> Bytes], BlankInv(file, dw, cells),
           NEW to, to = Program(cells, Len(dw.signature) + Len(sig) + dw.written, data)
    PROVE  /\ TakenInv(file, Target, d) /\ to \in [Cells -> Bytes]
           /\ BlankInv(file, d, to) /\ d.signature \in Seq(Bytes)
<1> DEFINE s0 == Len(dw.signature)
           w0 == dw.written
           sn == Len(sig)
           dn == Len(data)
           l == file.len
           y == Before(file, Target, dw.offset + BlockLen)
           at == s0 + sn + w0
<1>1. /\ s0 \in Nat /\ w0 \in Nat /\ sn \in Nat /\ dn \in Nat /\ l \in Nat /\ y \in Nat
      /\ y <= l /\ SigLen \in Nat /\ SigLen < l /\ l <= SlotLen /\ SlotLen \in Nat
    <2>1. s0 \in Nat /\ w0 \in Nat /\ sn \in Nat /\ dn \in Nat
        BY LenProperties DEF Divided
    <2>2. dw.offset + BlockLen \in Nat
        BY Lengths
    <2> QED
        BY <2>1, <2>2, Lengths, FileFacts, BeforeBound
<1>2. /\ s0 <= SigLen /\ (w0 > 0 /\ s0 < SigLen => s0 + w0 = l)
      /\ s0 + w0 + sn + dn = y
    <2>1. s0 + w0 = Before(file, Target, dw.offset) /\ sn + dn = Len(part)
        BY DEF TakenInv, Divided
    <2>2. s0 + w0 + (sn + dn) = y
        BY <2>1
    <2> QED
        BY SMTT(30), <1>1, <2>2 DEF TakenInv
<1>3. \/ sn = 0 /\ y = l
      \/ s0 + sn <= SigLen /\ (dn > 0 => s0 + sn = SigLen)
    BY DEF Divided
<1>4. /\ d.signature \in Seq(Bytes) /\ Len(d.signature) = s0 + sn
      /\ d.written = w0 + dn /\ Before(file, Target, d.offset) = y
    BY ConcatProperties DEF Divided
<1>5. /\ \A k \in s0 + w0 .. l - 1 : cells[k] = Erased
      /\ w0 = 0 \/ s0 = SigLen => \A k \in 0 .. SigLen - 1 : cells[k] = Erased
    BY DEF BlankInv
<1>6. to = Program(cells, at, data) /\ data \in Seq(Bytes) /\ at = s0 + sn + w0
    BY DEF Divided
<1> HIDE DEF s0, w0, sn, dn, l, y, at
<1>7. at \in Nat /\ at + dn = y /\ s0 + w0 <= at
    BY <1>1, <1>2, <1>6
<1>8. \A k \in at .. at + dn - 1 : cells[k] = Erased
    <2> SUFFICES ASSUME NEW k \in at .. at + dn - 1
                 PROVE  cells[k] = Erased
        OBVIOUS
    <2>1. k \in s0 + w0 .. l - 1
        BY <1>1, <1>7
    <2> QED
        BY <1>5, <2>1
<1>9. /\ to \in [Cells -> Bytes]
      /\ \A k \in Cells : k \notin at .. at + dn - 1 => to[k] = cells[k]
    <2>1. \A k \in at .. at + Len(data) - 1 : cells[k] = Erased
        BY <1>8 DEF dn
    <2>2. /\ Program(cells, at, data) \in [Cells -> Bytes]
          /\ \A k \in Cells : k \notin at .. at + Len(data) - 1 =>
                Program(cells, at, data)[k] = cells[k]
        BY <1>6, <1>7, <2>1, ProgramBlank
    <2> QED
        BY <1>6, <2>2 DEF dn
<1>10. s0 + sn <= SigLen /\ (w0 + dn > 0 /\ s0 + sn < SigLen => s0 + sn + (w0 + dn) = l)
    BY <1>1, <1>2, <1>3
<1>11. s0 + sn + (w0 + dn) = y
    BY <1>1, <1>2
<1>12. TakenInv(file, Target, d)
    BY <1>4, <1>10, <1>11 DEF TakenInv, l
<1>13. \A k \in s0 + sn + (w0 + dn) .. l - 1 : to[k] = Erased
    <2> SUFFICES ASSUME NEW k \in s0 + sn + (w0 + dn) .. l - 1
                 PROVE  to[k] = Erased
        OBVIOUS
    <2>1. k \in Cells /\ k \notin at .. at + dn - 1 /\ k \in s0 + w0 .. l - 1
        BY <1>1, <1>7, <1>11 DEF Cells
    <2> QED
        BY <1>5, <1>9, <2>1
<1>14. ASSUME w0 + dn = 0 \/ s0 + sn = SigLen, NEW k \in 0 .. SigLen - 1
       PROVE  to[k] = Erased
    <2>1. w0 = 0 \/ s0 = SigLen
        BY <1>1, <1>2, <1>3, <1>14
    <2>2. cells[k] = Erased
        BY <1>5, <2>1
    <2>3. k \notin at .. at + dn - 1
        BY <1>1, <1>6, <1>14
    <2>4. k \in Cells
        BY <1>1 DEF Cells
    <2> QED
        BY <1>9, <2>2, <2>3, <2>4
<1>15. BlankInv(file, d, to)
    <2>1. \A k \in Len(d.signature) + d.written .. file.len - 1 : to[k] = Erased
        BY <1>4, <1>13 DEF l
    <2>2. d.written = 0 \/ Len(d.signature) = SigLen =>
             \A k \in 0 .. SigLen - 1 : to[k] = Erased
        BY <1>4, <1>14
    <2> QED
        BY <2>1, <2>2 DEF BlankInv
<1> QED
    BY <1>4, <1>9, <1>12, <1>15

\* The block with an altered header: it goes to the first sector, behind its first
\* cell.
LEMMA AlteredTaken ==
    ASSUME NEW part \in Seq(Bytes), Len(part) <= BlockLen,
           NEW sig, NEW data, Divided(part, sig, data), dw.begin \in Nat,
           dw.offset = 0, dw.written = 0, dw.signature = <<>>,
           NEW cells \in [Cells -> Bytes], BlankBelow(cells, 1),
           NEW to, to = Program(cells, Len(dw.signature) + Len(sig) + dw.written, data)
    PROVE  /\ to \in [Cells -> Bytes] /\ to[0] = Erased
           /\ dw.signature \o sig \in Seq(Bytes)
           /\ Len(dw.signature \o sig) <= SigLen
           /\ Len(dw.signature \o sig) + (dw.written + Len(data)) <= BlockLen
<1> DEFINE sn == Len(sig)
           dn == Len(data)
<1>1. sig \in Seq(Bytes) /\ data \in Seq(Bytes) /\ sn + dn = Len(part)
    BY DEF Divided
<1>2. /\ dw.signature \in Seq(Bytes) /\ Len(dw.signature) = 0
      /\ dw.signature \o sig \in Seq(Bytes) /\ Len(dw.signature \o sig) = sn
    <2>1. dw.signature \in Seq(Bytes) /\ Len(dw.signature) = 0
        BY EmptySeq
    <2>2. /\ dw.signature \o sig \in Seq(Bytes)
          /\ Len(dw.signature \o sig) = Len(dw.signature) + Len(sig)
        BY <1>1, <2>1, ConcatProperties
    <2>3. sn \in Nat
        BY <1>1, LenProperties
    <2> QED
        BY <2>1, <2>2, <2>3
<1>3. ~(Begin < dw.offset /\ EndsHere)
    BY DEF Begin
<1>4. sn <= SigLen /\ (dn > 0 => sn = SigLen)
    <2>1. sn \in Nat
        BY <1>1, LenProperties
    <2> QED
        BY <1>2, <1>3, <2>1 DEF Divided
<1>5. /\ sn \in Nat /\ dn \in Nat /\ sn + dn <= BlockLen /\ BlockLen \in Nat
      /\ SigLen \in Nat /\ SigLen > 0 /\ BlockLen > 0
    BY <1>1, Lengths, LenProperties
<1>6. to = Program(cells, sn, data)
    BY <1>2, <1>5
<1>7. \A k \in sn .. sn + Len(data) - 1 : cells[k] = Erased
    <2> TAKE k \in sn .. sn + Len(data) - 1
    <2>1. k \in 0 .. BlockLen - 1
        BY <1>5
    <2> QED
        BY <2>1, FirstSector
<1>8. /\ to \in [Cells -> Bytes]
      /\ \A k \in Cells : k \notin sn .. sn + Len(data) - 1 => to[k] = cells[k]
    <2>1. sn \in Nat /\ data \in Seq(Bytes)
        BY <1>1, <1>5
    <2> HIDE DEF sn
    <2>2. /\ Program(cells, sn, data) \in [Cells -> Bytes]
          /\ \A k \in Cells : k \notin sn .. sn + Len(data) - 1 =>
                Program(cells, sn, data)[k] = cells[k]
        BY <1>7, <2>1, ProgramBlank
    <2> QED
        BY <1>6, <2>2
<1>9. to[0] = Erased
    <2>1. 0 \in 0 .. BlockLen - 1
        BY <1>5
    <2>2. 0 \in Cells /\ cells[0] = Erased
        BY <2>1, FirstSector
    <2>3. 0 \notin sn .. sn + Len(data) - 1
        BY <1>4, <1>5
    <2> QED
        BY <1>8, <2>2, <2>3
<1> QED
    BY <1>2, <1>4, <1>5, <1>8, <1>9

-----------------------------------------------------------------------------
(* The terminal and the line.                                              *)

\* The line leaves the frame in work a block with the bytes it has; all it can spoil
\* is its CRC.
WorkKept ==
    pc \in {"header", "erase", "eraseRdp", "write", "crc"} =>
        rx'.kind = "block" /\ rx'.data = rx.data /\ (rx'.crc => rx.crc)

\* The thread ends, or the power is lost.
LEMMA ExitInv ==
    ASSUME Exit, slot' \in [OTA_INDEX -> [Cells -> Bytes]], rdp' \in BOOLEAN,
           ota2Set' \in BOOLEAN, boot' \in OTA_INDEX, cur' \in OTA_INDEX
    PROVE  Inv'
<1>1. <<>> \in Seq(Bytes) /\ FrameType(NoFrame) /\ NoFrame.kind = "none"
    BY EmptySeq, FixedFrames
<1>2. /\ pc' = "idle" /\ rx' = NoFrame /\ late' = FALSE /\ nxt' = 0 /\ step' = 0
      /\ dw' = NoDownload /\ file' = NoFile /\ snd' = [n |-> 0, state |-> "off"]
      /\ acks' = 0 /\ faults' = 0 /\ harmed' = FALSE
    BY DEF Exit
<1>3. dw' \in Downloads
    BY <1>1, <1>2 DEF NoDownload, Downloads
<1>4. Types'
    <2>1. FrameType(rx')
        BY <1>1, <1>2 DEF FrameType
    <2>2. snd' \in [n : Nat, state : {"off", "send", "await"}]
        BY <1>2
    <2>3. faults' \in 0 .. MaxFaults
        BY <1>2, Lengths
    <2>4. /\ pc' \in {"idle", "hello", "frame", "header", "erase", "eraseRdp", "write",
                      "crc", "signature", "clear", "sign", "exit"}
          /\ late' \in BOOLEAN /\ harmed' \in BOOLEAN
          /\ nxt' \in Nat /\ step' \in Nat /\ acks' \in Nat
        BY <1>2
    <2> QED
        BY <1>3, <2>1, <2>2, <2>3, <2>4 DEF Types
<1>5. FileInv' /\ WorkInv'
    BY <1>1, <1>2 DEF FileInv, WorkInv
<1>6. ThreadInv' /\ AlteredInv'
    BY <1>2 DEF ThreadInv, AlteredInv, InUse, NoDownload
<1> QED
    BY <1>4, <1>5, <1>6 DEF Inv

\* The thread stays where it is.
LEMMA LineInv ==
    ASSUME Inv, UNCHANGED <<flash, cur, pc, nxt, dw, step, file>>,
           FrameType(rx'), late' \in BOOLEAN, harmed' \in BOOLEAN, acks' \in Nat,
           faults' \in 0 .. MaxFaults,
           snd' \in [n : Nat, state : {"off", "send", "await"}],
           snd'.state # "off" \/ rx'.kind # "none" => file \in Files,
           WorkKept, pc # "idle" \/ UNCHANGED <<rx, snd>>
    PROVE  Inv'
<1>1. Types'
    BY DEF Inv, Types, flash
<1>2. FileInv' /\ WorkInv'
    BY DEF Inv, FileInv, WorkInv, WorkKept
<1>3. UNCHANGED <<slot, cur, pc, nxt, dw, step, file>>
    BY DEF flash
<1>4. InUse' = InUse /\ Intact' = Intact /\ Target' = Target
    BY <1>3 DEF InUse, Intact, Target
<1>5. ThreadInv'
    BY <1>3, <1>4 DEF Inv, ThreadInv, SlotAt, ErasedSectors
<1>6. AlteredInv'
    BY <1>3, <1>4 DEF Inv, AlteredInv, WorkKept
<1> QED
    BY <1>1, <1>2, <1>5, <1>6 DEF Inv

\* What a delivery leaves in the buffer.
LEMMA DeliverResult ==
    ASSUME Inv, NEW f, FrameType(f), Deliver(f)
    PROVE  /\ FrameType(rx') /\ late' \in BOOLEAN /\ harmed' \in BOOLEAN
           /\ WorkKept
<1>1. /\ FrameType(rx) /\ late \in BOOLEAN /\ harmed \in BOOLEAN
      /\ pc \in {"header", "erase", "eraseRdp", "write", "crc"} => rx.kind = "block"
    BY DEF Inv, Types, WorkInv
<1>2. CASE Listening /\ rx' = f /\ harmed' = (harmed \/ f # Frame(nxt)) /\ late' = late
    BY <1>1, <1>2 DEF Listening, WorkKept
<1>3. CASE /\ late' = TRUE /\ harmed' = harmed
           /\ rx' = rx \/ rx' = [rx EXCEPT !.crc = FALSE]
    <2>1. /\ FrameType([rx EXCEPT !.crc = FALSE])
          /\ [rx EXCEPT !.crc = FALSE].kind = rx.kind
          /\ [rx EXCEPT !.crc = FALSE].data = rx.data /\ ~[rx EXCEPT !.crc = FALSE].crc
        <3> DEFINE R == [kind : {"none", "block", "eot", "bad"}, no : Nat,
                         data : Seq(Bytes), crc : BOOLEAN]
                   g == [rx EXCEPT !.crc = FALSE]
        <3>1. rx \in R
            BY <1>1 DEF FrameType
        <3>2. g \in R /\ g.kind = rx.kind /\ g.data = rx.data /\ ~g.crc
            BY <3>1
        <3> HIDE DEF g
        <3> QED
            BY <1>1, <3>2 DEF FrameType, g
    <2>2. /\ rx'.kind = rx.kind /\ FrameType(rx')
          /\ rx'.data = rx.data /\ (rx'.crc => rx.crc)
        BY <1>1, <1>3, <2>1
    <2> QED
        BY <1>1, <1>3, <2>2 DEF WorkKept
<1> QED
    BY <1>2, <1>3 DEF Deliver

\* Between frames, what the terminal keeps.
LEMMA TerminalFacts ==
    ASSUME Inv, snd.state # "off"
    PROVE  /\ pc # "idle"
           /\ file \in Files /\ snd \in [n : Nat, state : {"off", "send", "await"}]
           /\ snd.n \in Nat /\ faults \in 0 .. MaxFaults /\ acks \in Nat
           /\ FrameType(rx) /\ late \in BOOLEAN /\ harmed \in BOOLEAN
           /\ pc \in {"header", "erase", "eraseRdp", "write", "crc"} =>
                 rx.kind = "block"
  BY DEF Inv, Types, FileInv, WorkInv

LEMMA TerminalInv ==
    ASSUME Inv, Terminal
    PROVE  Inv'
<1> DEFINE S == [n : Nat, state : {"off", "send", "await"}]
<1>1. faults \in 0 .. MaxFaults /\ MaxFaults \in Nat /\ snd \in S
    BY Lengths DEF Inv, Types
<1>2. /\ faults < MaxFaults => faults + 1 \in 0 .. MaxFaults
      /\ [snd EXCEPT !.state = "await"] \in S /\ [snd EXCEPT !.state = "send"] \in S
      /\ [n |-> 0, state |-> "off"] \in S
    BY <1>1
<1> HIDE DEF S
<1>3. CASE Send
    <2>1. /\ snd.state # "off" /\ Deliver(Frame(snd.n))
          /\ snd' = [snd EXCEPT !.state = "await"]
          /\ UNCHANGED <<flash, cur, pc, nxt, dw, step, file, acks, faults>>
        BY <1>3 DEF Send, MaySend
    <2>2. pc # "idle" /\ file \in Files /\ snd.n \in Nat /\ faults \in 0 .. MaxFaults /\ acks \in Nat
        BY <2>1, TerminalFacts
    <2>3. FrameType(Frame(snd.n))
        BY <2>2, FrameIsFrame
    <2>4. /\ FrameType(rx') /\ late' \in BOOLEAN /\ harmed' \in BOOLEAN
          /\ WorkKept
        BY <2>1, <2>3, DeliverResult
    <2> QED
        BY <1>2, <2>1, <2>2, <2>4, TerminalFacts, LineInv DEF S
<1>4. CASE SendLost
    <2>1. /\ snd.state # "off" /\ faults < MaxFaults
          /\ snd' = [snd EXCEPT !.state = "await"] /\ faults' = faults + 1
          /\ UNCHANGED <<flash, cur, pc, nxt, dw, step, file, rx, late, acks, harmed>>
        BY <1>4 DEF SendLost, MaySend
    <2> QED
        BY <1>2, <2>1, TerminalFacts, LineInv DEF S, WorkKept
<1>5. CASE SendSpoiled
    <2>1. PICK f \in Spoiled(Frame(snd.n)) : Deliver(f)
        BY <1>5 DEF SendSpoiled
    <2>2. /\ snd.state # "off" /\ faults < MaxFaults
          /\ snd' = [snd EXCEPT !.state = "await"] /\ faults' = faults + 1
          /\ UNCHANGED <<flash, cur, pc, nxt, dw, step, file, acks>>
        BY <1>5 DEF SendSpoiled, MaySend
    <2>3. pc # "idle" /\ file \in Files /\ snd.n \in Nat /\ acks \in Nat
        BY <2>2, TerminalFacts
    <2>4. FrameType(f)
        BY <2>3, SpoiledIsFrame
    <2>5. /\ FrameType(rx') /\ late' \in BOOLEAN /\ harmed' \in BOOLEAN
          /\ WorkKept
        BY <2>1, <2>4, DeliverResult
    <2> QED
        BY <1>2, <2>2, <2>3, <2>5, TerminalFacts, LineInv DEF S
<1>6. CASE TakeAck
    <2>1. /\ snd.state = "await" /\ acks > 0 /\ acks' = acks - 1
          /\ \/ snd' = [n |-> 0, state |-> "off"]
             \/ snd' = [n |-> snd.n + 1, state |-> "send"]
          /\ UNCHANGED <<flash, cur, pc, nxt, dw, step, file, rx, late, faults, harmed>>
        BY <1>6 DEF TakeAck
    <2>2. snd.n \in Nat /\ acks \in Nat /\ file \in Files
        BY <2>1, TerminalFacts
    <2>3. snd' \in S /\ acks' \in Nat
        BY <2>1, <2>2 DEF S
    <2> QED
        BY <2>1, <2>3, TerminalFacts, LineInv DEF S, WorkKept
<1>7. CASE AckLost
    <2>1. /\ acks > 0 /\ acks' = acks - 1 /\ faults < MaxFaults /\ faults' = faults + 1
          /\ UNCHANGED <<flash, cur, pc, nxt, dw, step, file, rx, late, snd, harmed>>
        BY <1>7 DEF AckLost
    <2>2. /\ acks \in Nat /\ FrameType(rx) /\ late \in BOOLEAN /\ harmed \in BOOLEAN
          /\ snd.state # "off" \/ rx.kind # "none" => file \in Files
          /\ pc \in {"header", "erase", "eraseRdp", "write", "crc"} => rx.kind = "block"
        BY DEF Inv, Types, FileInv, WorkInv
    <2>3. acks' \in Nat
        BY <2>1, <2>2
    <2> QED
        BY <1>1, <1>2, <2>1, <2>2, <2>3, LineInv DEF S, WorkKept
<1>8. CASE TimesOut
    <2>1. /\ snd.state = "await" /\ snd' = [snd EXCEPT !.state = "send"]
          /\ UNCHANGED <<flash, cur, pc, nxt, dw, step, file, rx, late, acks, faults,
                         harmed>>
        BY <1>8 DEF TimesOut
    <2> QED
        BY <1>2, <2>1, TerminalFacts, LineInv DEF S, WorkKept
<1>9. CASE TimesOutEarly
    <2>1. /\ snd.state = "await" /\ snd' = [snd EXCEPT !.state = "send"]
          /\ faults < MaxFaults /\ faults' = faults + 1
          /\ UNCHANGED <<flash, cur, pc, nxt, dw, step, file, rx, late, acks, harmed>>
        BY <1>9 DEF TimesOutEarly
    <2> QED
        BY <1>2, <2>1, TerminalFacts, LineInv DEF S, WorkKept
<1>10. CASE Cancel
    <2>1. /\ snd.state # "off" /\ Deliver(BadFrame)
          /\ snd' = [n |-> 0, state |-> "off"]
          /\ UNCHANGED <<flash, cur, pc, nxt, dw, step, file, acks, faults>>
        BY <1>10 DEF Cancel
    <2>2. pc # "idle" /\ file \in Files /\ faults \in 0 .. MaxFaults /\ acks \in Nat
        BY <2>1, TerminalFacts
    <2>3. FrameType(BadFrame)
        BY FixedFrames
    <2>4. /\ FrameType(rx') /\ late' \in BOOLEAN /\ harmed' \in BOOLEAN
          /\ WorkKept
        BY <2>1, <2>3, DeliverResult
    <2> QED
        BY <1>2, <2>1, <2>2, <2>4, TerminalFacts, LineInv DEF S
<1> QED
    BY <1>3, <1>4, <1>5, <1>6, <1>7, <1>8, <1>9, <1>10 DEF Terminal

-----------------------------------------------------------------------------
(* The thread.                                                             *)

LEMMA UartYmodemInv ==
    ASSUME Inv, NEW f \in Files \cup {NoFile}, UartYmodem(f)
    PROVE  Inv'
<1>1. /\ pc = "idle" /\ pc' = "hello" /\ file' = f
      /\ snd' = [n |-> 0, state |-> IF f = NoFile THEN "off" ELSE "send"]
      /\ UNCHANGED <<flash, cur, rx, late, nxt, dw, step, acks, faults, harmed>>
    BY DEF UartYmodem
<1>2. /\ Types /\ rx.kind = "none" /\ ~dw.hd /\ ThreadInv
    BY <1>1 DEF Inv, FileInv, ThreadInv
<1>3. Types'
    <2>1. snd' \in [n : Nat, state : {"off", "send", "await"}]
        BY <1>1
    <2> QED
        BY <1>1, <1>2, <2>1 DEF Types, flash
<1>4. FileInv' /\ WorkInv'
    BY <1>1, <1>2 DEF FileInv, WorkInv
<1>5. ThreadInv' /\ AlteredInv'
    BY <1>1, <1>2 DEF ThreadInv, AlteredInv, InUse
<1> QED
    BY <1>3, <1>4, <1>5 DEF Inv

\* What the thread relies on.
LEMMA ThreadFacts ==
    ASSUME Inv
    PROVE  /\ Types /\ FileInv /\ ThreadInv /\ AlteredInv
           /\ Target \in OTA_INDEX /\ Target # cur
           /\ slot[Target] \in [Cells -> Bytes] /\ cur \in OTA_INDEX
           /\ pc \notin {"idle", "hello"} => file \in Files
  BY TargetIs DEF Inv, Types, FileInv

LEMMA TakeEotInv ==
    ASSUME Inv, TakeEot
    PROVE  Inv'
<1>1. /\ pc \in {"hello", "frame"} /\ rx.kind = "eot"
      /\ pc' = "signature" /\ acks' = acks + 1
      /\ UNCHANGED <<flash, cur, nxt, dw, step, file, rx, late, snd, faults, harmed>>
    BY DEF TakeEot
<1>2. Types /\ FileInv /\ ThreadInv /\ AlteredInv
    BY ThreadFacts
<1>3. Types'
    <2>1. acks' \in Nat
        BY <1>1, <1>2 DEF Types
    <2> QED
        BY <1>1, <1>2, <2>1 DEF Types, flash
<1>4. FileInv' /\ WorkInv'
    BY <1>1, <1>2 DEF FileInv, WorkInv
<1>5. /\ UNCHANGED <<slot, cur, dw, step, file>> /\ Intact' = Intact
      /\ Target' = Target
    BY <1>1 DEF flash, Intact, Target
<1>6. ThreadInv' /\ AlteredInv'
    BY <1>1, <1>2, <1>5 DEF ThreadInv, AlteredInv, InUse
<1> QED
    BY <1>3, <1>4, <1>6 DEF Inv

LEMMA TakeBlockInv ==
    ASSUME Inv, TakeBlock
    PROVE  Inv'
<1>1. /\ pc \in {"hello", "frame"} /\ rx.kind = "block"
      /\ pc' \in {"crc", "write", "header"}
      /\ (pc' = "write" => dw.hd) /\ (pc' = "header" => ~dw.hd)
      /\ UNCHANGED <<flash, cur, nxt, dw, step, file, line>>
    BY DEF TakeBlock
<1>2. Types /\ FileInv /\ ThreadInv /\ AlteredInv
    BY ThreadFacts
<1>3. Types'
    BY <1>1, <1>2 DEF Types, flash, line
<1>4. FileInv' /\ WorkInv'
    BY <1>1, <1>2 DEF FileInv, WorkInv, line
<1>5. /\ UNCHANGED <<slot, cur, dw, step, file>> /\ Intact' = Intact
      /\ Target' = Target
    BY <1>1 DEF flash, Intact, Target
<1>6. ThreadInv' /\ AlteredInv'
    BY <1>1, <1>2, <1>5 DEF ThreadInv, AlteredInv, InUse
<1> QED
    BY <1>3, <1>4, <1>6 DEF Inv

LEMMA TakeHeaderInv ==
    ASSUME Inv, TakeHeader
    PROVE  Inv'
<1>1. /\ pc = "header" /\ pc' = "erase" /\ ota2Set' = TRUE
      /\ UNCHANGED <<slot, rdp, boot, cur, nxt, step, file, rx, late, snd, acks, faults,
                     harmed>>
    BY DEF TakeHeader, line
<1>2. Types /\ FileInv /\ WorkInv /\ ThreadInv /\ Target \in OTA_INDEX
    BY ThreadFacts DEF Inv
<1>3. /\ dw = NoDownload /\ step = 0 /\ file \in Files /\ cur \in OTA_INDEX
      /\ slot \in [OTA_INDEX -> [Cells -> Bytes]] /\ Target' = Target
    BY <1>1, <1>2 DEF ThreadInv, InUse, FileInv, Types, Target
<1>4. PICK len \in Nat, begin \in Nat :
         /\ dw' = [dw EXCEPT !.len = len, !.begin = begin]
         /\ \/ len = file.len /\ begin = file.ota[Target]
            \/ ~rx.crc /\ rx.data # Zeros
    <2>1. file.len \in Nat /\ file.ota[Target] \in Nat
        BY <1>2, <1>3, FileFacts
    <2>2. CASE HeaderArrived /\ dw' = [dw EXCEPT !.len = file.len, !.begin = file.ota[Target]]
        BY <2>1, <2>2
    <2>3. ASSUME HeaderAltered, NEW len \in AlteredLens, NEW begin \in 0 .. BlockLen,
                 dw' = [dw EXCEPT !.len = len, !.begin = begin]
          PROVE  \E len_1 \in Nat, begin_1 \in Nat :
                    /\ dw' = [dw EXCEPT !.len = len_1, !.begin = begin_1]
                    /\ ~rx.crc /\ rx.data # Zeros
        <3>1. len \in Nat /\ begin \in Nat
            BY <2>3, Lengths
        <3> QED
            BY <2>3, <3>1 DEF HeaderAltered
    <2> QED
        BY <2>2, <2>3 DEF TakeHeader
<1>5. /\ dw'.len = len /\ dw'.begin = begin /\ ~dw'.hd /\ dw'.offset = 0
      /\ dw'.written = 0 /\ dw'.signature = <<>> /\ dw' \in Downloads
    <2>1. dw = [hd |-> FALSE, len |-> 0, begin |-> 0, offset |-> 0, written |-> 0,
                signature |-> <<>>]
        BY <1>3 DEF NoDownload
    <2>2. dw' = [hd |-> FALSE, len |-> len, begin |-> begin, offset |-> 0,
                 written |-> 0, signature |-> <<>>]
        BY <1>4, <2>1
    <2>3. <<>> \in Seq(Bytes)
        BY EmptySeq
    <2> QED
        BY <2>2, <2>3 DEF Downloads
<1>6. Types'
    BY <1>1, <1>2, <1>5 DEF Types
<1>7. FileInv' /\ WorkInv'
    BY <1>1, <1>2 DEF FileInv, WorkInv
<1>8. step' < ErasedSectors(dw'.len)
    <2>1. ErasedSectors(len) \in Nat /\ ErasedSectors(len) >= 1
        BY ErasedSectorsIs
    <2> QED
        BY <1>1, <1>3, <1>5, <2>1
<1>9. ASSUME NEW s \in OTA_INDEX
      PROVE  BlankBelow(slot'[s], step' - SlotAt(s)')
    <2>1. SlotAt(s)' = SlotAt(s) /\ SlotAt(s) \in Nat
        BY <1>3, SlotAtIs DEF SlotAt
    <2>2. \A k \in Cells : ~(k \div SectorLen < 0 - SlotAt(s))
        <3> TAKE k \in Cells
        <3>1. k \in Nat
            BY DEF Cells
        <3>2. k \div SectorLen \in Nat
            BY <3>1, Lengths, SectorGrows
        <3> QED
            BY <2>1, <3>2
    <2> QED
        BY <1>1, <1>3, <2>1, <2>2 DEF BlankBelow
<1>10. ThreadInv'
    BY <1>1, <1>5, <1>8, <1>9 DEF ThreadInv, InUse, ErasedSectors
<1>11. AlteredInv'
    BY <1>1, <1>3, <1>4, <1>5 DEF AlteredInv, Intact
<1> QED
    BY <1>6, <1>7, <1>10, <1>11 DEF Inv

\* One more sector.
LEMMA BlankGrows ==
    ASSUME NEW cells \in [Cells -> Bytes], NEW n \in Int, BlankBelow(cells, n)
    PROVE  BlankBelow(EraseSectorAt(cells, n), n + 1)
<1> SUFFICES ASSUME NEW k \in Cells, k \div SectorLen < n + 1
             PROVE  EraseSectorAt(cells, n)[k] = Erased
    BY DEF BlankBelow
<1>1. k \in Nat
    BY DEF Cells
<1>2. k \div SectorLen \in Nat
    BY <1>1, Lengths, SectorGrows
<1>3. EraseSectorAt(cells, n)[k] = IF k \div SectorLen = n THEN Erased ELSE cells[k]
    BY EraseSectorOn
<1> DEFINE v == k \div SectorLen
<1> HIDE DEF v
<1>4. v = n \/ v < n
    BY <1>2 DEF v
<1> QED
    BY <1>3, <1>4 DEF BlankBelow, v

LEMMA EraseSectorInv ==
    ASSUME Inv, EraseSector
    PROVE  Inv'
<1> DEFINE cells(s) == EraseSectorAt(slot[s], step - SlotAt(s))
<1>1. /\ pc = "erase" /\ slot' = [s \in OTA_INDEX |-> cells(s)] /\ step' = step + 1
      /\ rdp' = (rdp /\ step # RdpAt) /\ ota2Set' = (ota2Set /\ step # SystemAt)
      /\ boot' \in IF step = SystemAt THEN OTA_INDEX ELSE {boot}
      /\ pc' = IF step' = ErasedSectors(dw.len) THEN "eraseRdp" ELSE "erase"
      /\ UNCHANGED <<cur, nxt, dw, file, rx, late, snd, acks, faults, harmed>>
    BY DEF EraseSector, line
<1>2. /\ Types /\ FileInv /\ WorkInv /\ ThreadInv /\ AlteredInv
      /\ Target \in OTA_INDEX /\ cur \in OTA_INDEX /\ step \in Nat
      /\ slot \in [OTA_INDEX -> [Cells -> Bytes]] /\ dw \in Downloads
    BY ThreadFacts DEF Inv, Types
<1>3. /\ ~dw.hd /\ step < ErasedSectors(dw.len) /\ ErasedSectors(dw.len) \in Nat
      /\ \A s \in OTA_INDEX : BlankBelow(slot[s], step - SlotAt(s))
    <2>1. dw.len \in Nat
        BY <1>2 DEF Downloads
    <2> QED
        BY <1>1, <1>2, <2>1, ErasedSectorsIs DEF ThreadInv
<1>4. ASSUME NEW s \in OTA_INDEX
      PROVE  /\ cells(s) \in [Cells -> Bytes]
             /\ BlankBelow(cells(s), (step + 1) - SlotAt(s))
    <2>1. slot[s] \in [Cells -> Bytes]
        BY <1>2
    <2>2. SlotAt(s) \in Nat
        BY <1>2, SlotAtIs
    <2>3. step - SlotAt(s) \in Int /\ (step + 1) - SlotAt(s) = (step - SlotAt(s)) + 1
        BY <1>2, <2>2
    <2>4. BlankBelow(slot[s], step - SlotAt(s))
        BY <1>3
    <2> DEFINE n == step - SlotAt(s)
    <2>5. cells(s) = EraseSectorAt(slot[s], n) /\ (step + 1) - SlotAt(s) = n + 1
        BY <2>3
    <2>6. n \in Int /\ BlankBelow(slot[s], n)
        BY <2>3, <2>4
    <2> HIDE DEF n, cells
    <2>7. /\ EraseSectorAt(slot[s], n) \in [Cells -> Bytes]
          /\ BlankBelow(EraseSectorAt(slot[s], n), n + 1)
        BY <2>1, <2>6, EraseSectorOn, BlankGrows
    <2> QED
        BY <2>5, <2>7
<1> HIDE DEF cells
<1>5. /\ slot' \in [OTA_INDEX -> [Cells -> Bytes]]
      /\ \A s \in OTA_INDEX : slot'[s] = cells(s)
    BY <1>1, <1>4
<1>6. Types'
    <2>1. step' \in Nat /\ pc' \in {"erase", "eraseRdp"}
        BY <1>1, <1>2
    <2>2. boot' \in OTA_INDEX
        BY <1>1, <1>2 DEF Types
    <2>3. rdp' \in BOOLEAN /\ ota2Set' \in BOOLEAN
        BY <1>1
    <2> QED
        BY <1>1, <1>2, <1>5, <2>1, <2>2, <2>3 DEF Types
<1>7. FileInv' /\ WorkInv'
    BY <1>1, <1>2 DEF FileInv, WorkInv
<1>8. /\ Target' = Target /\ ErasedSectors(dw.len)' = ErasedSectors(dw.len)
      /\ \A s \in OTA_INDEX : SlotAt(s)' = SlotAt(s)
    BY <1>1 DEF Target, ErasedSectors, SlotAt
<1>9. /\ pc' \in {"erase", "eraseRdp"}
      /\ pc' = "erase" => /\ step' < ErasedSectors(dw.len)
                         /\ \A s \in OTA_INDEX : BlankBelow(slot'[s], step' - SlotAt(s))
      /\ pc' = "eraseRdp" => BlankBelow(slot'[Target], ErasedSectors(dw.len))
    <2>1. \A s \in OTA_INDEX : BlankBelow(slot'[s], step' - SlotAt(s))
        BY <1>1, <1>4, <1>5
    <2>2. CASE step' = ErasedSectors(dw.len)
        <3>1. SlotAt(Target) = 0
            BY <1>2, SlotAtIs
        <3>2. step' - SlotAt(Target) = ErasedSectors(dw.len)
            BY <1>3, <2>2, <3>1
        <3>3. BlankBelow(slot'[Target], ErasedSectors(dw.len))
            BY <1>2, <2>1, <3>2
        <3> QED
            BY <1>1, <2>2, <3>3
    <2>3. CASE step' # ErasedSectors(dw.len)
        <3>1. step' < ErasedSectors(dw.len)
            BY <1>1, <1>2, <1>3, <2>3
        <3> QED
            BY <1>1, <2>1, <2>3, <3>1
    <2> QED
        BY <2>2, <2>3
<1>10. ThreadInv'
    <2>1. ~dw'.hd /\ dw' = dw
        BY <1>1, <1>3
    <2> QED
        BY <1>2, <1>8, <1>9, <2>1 DEF ThreadInv, InUse, ErasedSectors
<1>11. AlteredInv'
    <2>1. InUse /\ Intact' = Intact
        BY <1>1 DEF InUse, Intact, Target
    <2> QED
        BY <1>1, <1>2, <1>9, <2>1 DEF AlteredInv
<1> QED
    BY <1>6, <1>7, <1>10, <1>11 DEF Inv

LEMMA EraseRdpInv ==
    ASSUME Inv, EraseRdp
    PROVE  Inv'
<1> DEFINE d == [dw EXCEPT !.hd = TRUE]
<1>1. /\ pc = "eraseRdp" /\ pc' = "write" /\ dw' = d
      /\ rdp' \in {rdp /\ file.rdpLen = 0, rdp, FALSE}
      /\ UNCHANGED <<slot, ota2Set, boot, cur, nxt, step, file, rx, late, snd, acks,
                     faults, harmed>>
    BY DEF EraseRdp, line
<1>2. /\ Types /\ FileInv /\ WorkInv /\ ThreadInv /\ AlteredInv /\ Target \in OTA_INDEX
      /\ file \in Files /\ dw \in Downloads /\ slot[Target] \in [Cells -> Bytes]
    BY <1>1, ThreadFacts DEF Inv, Types
<1>3. /\ ~dw.hd /\ dw.offset = 0 /\ dw.written = 0 /\ dw.signature = <<>>
      /\ BlankBelow(slot[Target], ErasedSectors(dw.len)) /\ InUse
    BY <1>1, <1>2 DEF ThreadInv, InUse
<1>4. /\ d.hd /\ d.offset = 0 /\ d.written = 0 /\ d.signature = <<>>
      /\ d.len = dw.len /\ d.begin = dw.begin /\ d \in Downloads
      /\ Len(d.signature) = 0
    BY <1>2, <1>3 DEF Downloads
<1> HIDE DEF d
<1>5. /\ SigLen \in Nat /\ file.len \in Nat /\ SigLen < file.len /\ file.len <= SlotLen
      /\ file.ota[Target] \in Nat
    BY <1>2, Lengths, FileFacts
<1>6. TakenInv(file, Target, d)
    <2>1. Before(file, Target, 0) = 0
        BY <1>5 DEF Before
    <2> QED
        BY <1>4, <1>5, <2>1 DEF TakenInv
<1>7. ASSUME Intact
      PROVE  BlankInv(file, d, slot[Target])
    <2>1. file.len \in 1 .. SlotLen /\ BlankBelow(slot[Target], ErasedSectors(file.len))
        BY <1>3, <1>5, <1>7, Lengths DEF Intact
    <2>2. \A k \in 0 .. file.len - 1 : slot[Target][k] = Erased
        BY <2>1, AllErased
    <2>3. \A k \in 0 .. SigLen - 1 : k \in 0 .. file.len - 1
        BY <1>5
    <2> QED
        BY <1>4, <2>2, <2>3 DEF BlankInv
<1>8. BlankBelow(slot[Target], 1)
    <2>1. ErasedSectors(dw.len) \in Nat /\ ErasedSectors(dw.len) >= 1
        BY <1>2, ErasedSectorsIs DEF Downloads
    <2> SUFFICES ASSUME NEW k \in Cells, k \div SectorLen < 1
                 PROVE  slot[Target][k] = Erased
        BY DEF BlankBelow
    <2>2. k \in Nat
        BY DEF Cells
    <2>3. k \div SectorLen \in Nat
        BY <2>2, Lengths, SectorGrows
    <2> DEFINE v == k \div SectorLen
    <2> HIDE DEF v
    <2>4. v < ErasedSectors(dw.len)
        BY <2>1, <2>3 DEF v
    <2> QED
        BY <1>3, <2>4 DEF BlankBelow, v
<1>9. Types'
    <2>1. rdp' \in BOOLEAN
        BY <1>1, <1>2, Zenon DEF Types
    <2> QED
        BY <1>1, <1>2, <1>4, <2>1 DEF Types
<1>10. FileInv' /\ WorkInv'
    BY <1>1, <1>2 DEF FileInv, WorkInv
<1>11. /\ Target' = Target /\ slot' = slot /\ file' = file /\ dw' = d /\ pc' = "write"
       /\ rx' = rx /\ Intact' = Intact
    BY <1>1, <1>4 DEF Target, Intact
<1>12. ThreadInv'
    BY <1>4, <1>6, <1>7, <1>11 DEF ThreadInv, InUse
<1>13. AlteredInv'
    BY <1>2, <1>3, <1>4, <1>8, <1>11 DEF AlteredInv
<1> QED
    BY <1>9, <1>10, <1>12, <1>13 DEF Inv

LEMMA WriteBlockInv ==
    ASSUME Inv, WriteBlock
    PROVE  Inv'
<1> DEFINE sig == PartOfSignature
           data == SubSeq(PartOfImage, Len(sig) + 1, Len(PartOfImage))
           at == Len(dw.signature) + Len(sig) + dw.written
           to == Program(slot[Target], at, data)
           d == [dw EXCEPT !.offset = @ + BlockLen, !.written = @ + Len(data),
                           !.signature = @ \o sig]
<1>1. /\ pc = "write" /\ pc' = "crc" /\ slot' = [slot EXCEPT ![Target] = to] /\ dw' = d
      /\ UNCHANGED <<rdp, ota2Set, boot, cur, nxt, step, file, rx, late, snd, acks,
                     faults, harmed>>
    BY DEF WriteBlock, line
<1>2. /\ Types /\ FileInv /\ WorkInv /\ ThreadInv /\ AlteredInv /\ Target \in OTA_INDEX
      /\ file \in Files /\ slot[Target] \in [Cells -> Bytes]
    BY <1>1, ThreadFacts DEF Inv
<1>3. /\ rx.data \in Seq(Bytes) /\ Len(rx.data) = BlockLen /\ rx.kind = "block"
      /\ dw \in Downloads /\ dw.begin \in Nat
      /\ dw.offset \in Nat /\ dw.written \in Nat /\ dw.signature \in Seq(Bytes)
    BY <1>1, <1>2 DEF Types, WorkInv, FrameType, Downloads
<1>4. /\ dw.hd
      /\ Intact => TakenInv(file, Target, dw) /\ BlankInv(file, dw, slot[Target])
      /\ ~Intact => /\ dw.offset = 0 /\ dw.written = 0 /\ dw.signature = <<>>
                    /\ BlankBelow(slot[Target], 1) /\ ~rx.crc /\ rx.data # Zeros
    BY <1>1, <1>2 DEF ThreadInv, AlteredInv, InUse
<1>5. PartOfImage \in Seq(Bytes) /\ Len(PartOfImage) <= BlockLen
    BY <1>3, PartBound
<1>6. Divided(PartOfImage, sig, data)
    <2>1. Len(dw.signature) <= SigLen
        BY <1>4, Lengths, EmptySeq DEF TakenInv
    <2> QED
        BY <1>3, <1>5, <2>1, DividedResult
<1>7. Len(data) \in Nat /\ sig \in Seq(Bytes) /\ BlockLen \in Nat
    BY <1>6, Lengths, LenProperties DEF Divided
<1> HIDE DEF sig, data
<1>8. /\ d.hd = dw.hd /\ d.offset = dw.offset + BlockLen
      /\ d.written = dw.written + Len(data) /\ d.signature = dw.signature \o sig
      /\ d.offset \in Nat /\ d.written \in Nat
    BY <1>3, <1>7
<1>9. to = Program(slot[Target], at, data)
    OBVIOUS
<1>10. d \in Downloads /\ d.len = dw.len /\ d.begin = dw.begin
    <2>1. dw.signature \o sig \in Seq(Bytes)
        BY <1>3, <1>7, ConcatProperties
    <2>2. dw.offset + BlockLen \in Nat /\ dw.written + Len(data) \in Nat
        BY <1>3, <1>7
    <2> QED
        BY <1>3, <2>1, <2>2 DEF Downloads
<1> HIDE DEF at, to, d
<1>11. ASSUME Intact
       PROVE  TakenInv(file, Target, d) /\ to \in [Cells -> Bytes] /\ BlankInv(file, d, to)
    <2>1. /\ Before(file, Target, dw.offset) + Len(PartOfImage)
                = Before(file, Target, dw.offset + BlockLen)
          /\ Begin < dw.offset /\ EndsHere =>
                Before(file, Target, dw.offset + BlockLen) = file.len
        BY <1>2, <1>3, <1>11, PartResult
    <2> QED
        BY ZenonT(30), <1>2, <1>3, <1>4, <1>5, <1>6, <1>8, <1>9, <1>11, <2>1, BlockTaken
        DEF at
<1>12. ASSUME ~Intact
       PROVE  /\ to \in [Cells -> Bytes] /\ to[0] = Erased
              /\ Len(d.signature) <= SigLen /\ Len(d.signature) + d.written <= BlockLen
    BY ZenonT(30), <1>2, <1>3, <1>4, <1>5, <1>6, <1>8, <1>9, <1>12, AlteredTaken DEF at
<1>13. slot' \in [OTA_INDEX -> [Cells -> Bytes]] /\ slot'[Target] = to
    BY <1>1, <1>2, <1>11, <1>12, SlotWritten DEF Types
<1>14. Types'
    BY <1>1, <1>2, <1>10, <1>13 DEF Types
<1>15. FileInv' /\ WorkInv'
    BY <1>1, <1>2, <1>3 DEF FileInv, WorkInv
<1>16. /\ Target' = Target /\ slot'[Target'] = to /\ file' = file /\ dw' = d
       /\ pc' = "crc" /\ d.hd /\ rx' = rx /\ Intact' = Intact
    BY <1>1, <1>4, <1>8, <1>10, <1>13 DEF Target, Intact
<1>17. ThreadInv'
    BY <1>11, <1>16 DEF ThreadInv, InUse
<1>18. AlteredInv'
    BY <1>4, <1>16, <1>12 DEF AlteredInv
<1> QED
    BY <1>14, <1>15, <1>17, <1>18 DEF Inv

LEMMA ZeroBlockEndsInv ==
    ASSUME Inv, ZeroBlockEnds
    PROVE  Inv'
<1>1. /\ pc = "crc" /\ pc' = "signature" /\ rx.data = Zeros
      /\ UNCHANGED <<flash, cur, nxt, dw, step, file, line>>
    BY DEF ZeroBlockEnds
<1>2. Types /\ FileInv /\ ThreadInv /\ AlteredInv
    BY ThreadFacts
<1>3. Types'
    BY <1>1, <1>2 DEF Types, flash, line
<1>4. FileInv' /\ WorkInv'
    BY <1>1, <1>2 DEF FileInv, WorkInv, line
<1>5. /\ UNCHANGED <<slot, cur, dw, step, file>> /\ Intact' = Intact
      /\ Target' = Target
    BY <1>1 DEF flash, Intact, Target
<1>6. ThreadInv' /\ AlteredInv'
    BY <1>1, <1>2, <1>5 DEF ThreadInv, AlteredInv, InUse
<1> QED
    BY <1>3, <1>4, <1>6 DEF Inv

LEMMA StartNextRoundInv ==
    ASSUME Inv, StartNextRound
    PROVE  Inv'
<1>1. /\ pc = "crc" /\ CrcFits /\ pc' = "frame" /\ nxt' = nxt + 1 /\ acks' = acks + 1
      /\ rx' \in {NoFrame, BadFrame, EotFrame(0)}
      /\ late' = FALSE /\ harmed' = (harmed \/ rx' # NoFrame)
      /\ UNCHANGED <<flash, cur, dw, step, file, snd, faults>>
    BY DEF StartNextRound
<1>2. Types /\ FileInv /\ ThreadInv /\ AlteredInv
    BY ThreadFacts
<1>3. Types'
    <2>1. nxt' \in Nat /\ acks' \in Nat /\ late' \in BOOLEAN
        <3>1. nxt \in Nat /\ acks \in Nat
            BY <1>2 DEF Types
        <3>2. nxt' = nxt + 1 /\ acks' = acks + 1 /\ late' = FALSE
            BY <1>1
        <3>3. late' \in BOOLEAN
            BY <3>2, Zenon
        <3> QED
            BY <3>1, <3>2, <3>3
    <2>2. harmed' \in BOOLEAN
        BY <1>1, <1>2, Zenon DEF Types
    <2>3. FrameType(rx')
        <3>1. FrameType(NoFrame) /\ FrameType(BadFrame) /\ FrameType(EotFrame(0))
            BY FixedFrames
        <3> DEFINE r == rx'
        <3>2. r \in {NoFrame, BadFrame, EotFrame(0)}
            BY <1>1
        <3> HIDE DEF r
        <3>3. FrameType(r)
            BY <3>1, <3>2
        <3> QED
            BY <3>3 DEF r
    <2> QED
        BY <1>1, <1>2, <2>1, <2>2, <2>3 DEF Types, flash
<1>4. FileInv' /\ WorkInv'
    BY <1>1, <1>2 DEF FileInv, WorkInv
<1>5. /\ UNCHANGED <<slot, cur, dw, step, file>> /\ Intact' = Intact
      /\ Target' = Target
    BY <1>1 DEF flash, Intact, Target
<1>6. InUse => Intact
    BY <1>1, <1>2 DEF AlteredInv, CrcFits
<1>7. ThreadInv' /\ AlteredInv'
    BY <1>1, <1>2, <1>5, <1>6 DEF ThreadInv, AlteredInv, InUse
<1> QED
    BY <1>3, <1>4, <1>7 DEF Inv

LEMMA VerifyInv ==
    ASSUME Inv, Verify
    PROVE  Inv'
<1>1. /\ pc = "signature" /\ dw.written # 0 /\ dw.written = dw.len - SigLen
      /\ pc' \in {"sign", "clear"} /\ step' = 0
      /\ UNCHANGED <<flash, cur, nxt, dw, file, line>>
    BY DEF Verify
<1>2. /\ Types /\ FileInv /\ WorkInv /\ ThreadInv /\ AlteredInv /\ Target \in OTA_INDEX
      /\ file \in Files
    BY <1>1, ThreadFacts DEF Inv
<1>3. dw.hd /\ Intact
    BY <1>1, <1>2 DEF ThreadInv, AlteredInv, InUse
<1>4. /\ TakenInv(file, Target, dw) /\ BlankInv(file, dw, slot[Target])
      /\ dw.written = file.len - SigLen
    BY <1>1, <1>2, <1>3 DEF ThreadInv, Intact
<1>5. Len(dw.signature) = SigLen
    <2> DEFINE n == Len(dw.signature)
    <2>1. n \in Nat /\ dw.written \in Nat
        BY <1>2, LenProperties DEF Types, Downloads
    <2>2. n <= SigLen /\ (dw.written > 0 /\ n < SigLen => n + dw.written = file.len)
        BY <1>4 DEF TakenInv
    <2>3. SigLen \in Nat /\ file.len \in Nat
        BY <1>2, Lengths, FileFacts
    <2> HIDE DEF n
    <2>4. n = SigLen
        BY <1>1, <1>4, <2>1, <2>2, <2>3
    <2> QED
        BY <2>4 DEF n
<1>6. \A k \in 0 .. SigLen - 1 : slot[Target][k] = Erased
    BY <1>4, <1>5 DEF BlankInv
<1>7. Types'
    BY <1>1, <1>2 DEF Types, flash, line
<1>8. FileInv' /\ WorkInv'
    BY <1>1, <1>2 DEF FileInv, WorkInv, line
<1>9. ThreadInv' /\ AlteredInv'
    <2>1. /\ Target' = Target /\ slot' = slot /\ file' = file /\ dw' = dw /\ step' = 0
          /\ 0 <= SigLen /\ Intact' = Intact
        BY <1>1, Lengths DEF Target, flash, Intact
    <2> QED
        BY <1>1, <1>3, <1>4, <1>5, <1>6, <2>1 DEF ThreadInv, AlteredInv, InUse
<1> QED
    BY <1>7, <1>8, <1>9 DEF Inv

LEMMA WriteSignatureInv ==
    ASSUME Inv, WriteSignature
    PROVE  Inv'
<1> DEFINE one == <<dw.signature[step + 1]>>
           to == Program(slot[Target], step, one)
<1>1. /\ pc = "sign" /\ step < SigLen /\ slot' = [slot EXCEPT ![Target] = to]
      /\ step' = step + 1
      /\ UNCHANGED <<rdp, ota2Set, boot, cur, pc, nxt, dw, file, line>>
    BY DEF WriteSignature
<1>2. /\ Types /\ FileInv /\ WorkInv /\ ThreadInv /\ AlteredInv /\ Target \in OTA_INDEX
      /\ file \in Files /\ slot[Target] \in [Cells -> Bytes]
    BY <1>1, ThreadFacts DEF Inv
<1>3. /\ Len(dw.signature) = SigLen /\ dw.hd /\ Intact
      /\ TakenInv(file, Target, dw)
      /\ \A k \in step .. SigLen - 1 : slot[Target][k] = Erased
    BY <1>1, <1>2 DEF ThreadInv, AlteredInv, InUse
<1>4. step \in Nat /\ SigLen \in Nat /\ step + 1 \in Nat /\ step + 1 <= SigLen
    <2>1. step \in Nat /\ SigLen \in Nat
        BY <1>2, Lengths DEF Types
    <2> QED
        BY <1>1, <2>1
<1>5. one \in Seq(Bytes) /\ Len(one) = 1
    <2>1. dw.signature \in Seq(Bytes) /\ step + 1 \in 1 .. Len(dw.signature)
        BY <1>2, <1>3, <1>4 DEF Types, Downloads
    <2>2. dw.signature[step + 1] \in Bytes
        BY <2>1, ElementOfSeq
    <2> QED
        BY <2>2
<1> HIDE DEF one
<1>6. /\ to \in [Cells -> Bytes]
      /\ \A k \in Cells : k \notin step .. step => to[k] = slot[Target][k]
    <2>1. step + Len(one) - 1 = step
        BY <1>4, <1>5
    <2>2. \A k \in step .. step + Len(one) - 1 : slot[Target][k] = Erased
        <3>1. step \in step .. SigLen - 1
            BY <1>1, <1>4
        <3>2. \A k \in step .. step : k = step
            BY <1>4
        <3> QED
            BY <1>3, <2>1, <3>1, <3>2
    <2> DEFINE cells == slot[Target]
    <2>3. /\ cells \in [Cells -> Bytes] /\ step \in Nat /\ one \in Seq(Bytes)
          /\ \A k \in step .. step + Len(one) - 1 : cells[k] = Erased
        BY <1>2, <1>4, <1>5, <2>2
    <2> HIDE DEF cells
    <2>4. /\ Program(cells, step, one) \in [Cells -> Bytes]
          /\ \A k \in Cells : k \notin step .. step + Len(one) - 1 =>
                Program(cells, step, one)[k] = cells[k]
        BY <2>3, ProgramBlank
    <2> QED
        BY <2>1, <2>4 DEF cells
<1> HIDE DEF to
<1>7. slot' \in [OTA_INDEX -> [Cells -> Bytes]] /\ slot'[Target] = to
    BY <1>1, <1>2, <1>6, SlotWritten DEF Types
<1>8. \A k \in step + 1 .. SigLen - 1 : to[k] = Erased
    <2> SUFFICES ASSUME NEW k \in step + 1 .. SigLen - 1
                 PROVE  to[k] = Erased
        OBVIOUS
    <2>1. k \in step .. SigLen - 1 /\ k \notin step .. step
        BY <1>4
    <2>2. k \in Cells
        <3>1. SlotLen \in Nat /\ SigLen <= SlotLen
            BY <1>2, Lengths, FileFacts
        <3> QED
            BY <1>4, <3>1 DEF Cells
    <2> QED
        BY <1>3, <1>6, <2>1, <2>2
<1>9. Types'
    BY <1>1, <1>2, <1>4, <1>7 DEF Types, line
<1>10. FileInv' /\ WorkInv'
    BY <1>1, <1>2 DEF FileInv, WorkInv, line
<1>11. ThreadInv' /\ AlteredInv'
    <2>1. /\ Target' = Target /\ slot'[Target'] = to /\ file' = file /\ dw' = dw
          /\ pc' = "sign" /\ step' = step + 1 /\ Intact' = Intact
        BY <1>1, <1>7 DEF Target, Intact
    <2> QED
        BY <1>3, <1>4, <1>8, <2>1 DEF ThreadInv, AlteredInv, InUse
<1> QED
    BY <1>9, <1>10, <1>11 DEF Inv

LEMMA OtaChangeInv ==
    ASSUME Inv, OtaChange
    PROVE  Inv'
<1>1. /\ pc = "sign" /\ boot' = Target /\ pc' = "exit"
      /\ UNCHANGED <<slot, rdp, ota2Set, cur, nxt, dw, step, file, line>>
    BY DEF OtaChange
<1>2. /\ Types /\ FileInv /\ WorkInv /\ ThreadInv /\ AlteredInv /\ Target \in OTA_INDEX
    BY <1>1, ThreadFacts DEF Inv
<1>3. Types'
    BY <1>1, <1>2 DEF Types, line
<1>4. FileInv' /\ WorkInv'
    BY <1>1, <1>2 DEF FileInv, WorkInv, line
<1>5. Intact' = Intact /\ Target' = Target
    BY <1>1 DEF Intact, Target
<1>6. ThreadInv' /\ AlteredInv'
    BY <1>1, <1>2, <1>5 DEF ThreadInv, AlteredInv, InUse
<1> QED
    BY <1>3, <1>4, <1>6 DEF Inv

LEMMA ThreadStep ==
    ASSUME Inv, Thread
    PROVE  Inv'
<1>1. /\ slot \in [OTA_INDEX -> [Cells -> Bytes]] /\ rdp \in BOOLEAN
      /\ ota2Set \in BOOLEAN /\ boot \in OTA_INDEX /\ cur \in OTA_INDEX
    BY DEF Inv, Types
<1>2. ASSUME NoResponse \/ RefuseFrame \/ CrcFails \/ DownloadFailed \/ TransferOver
      PROVE  Inv'
    <2>1. Exit /\ UNCHANGED <<slot, rdp, ota2Set, boot, cur>>
        BY <1>2 DEF NoResponse, RefuseFrame, CrcFails, DownloadFailed, TransferOver, flash
    <2> QED
        BY <1>1, <2>1, ExitInv
<1>3. ASSUME RefuseHeader
      PROVE  Inv'
    <2>1. /\ Exit /\ UNCHANGED <<slot, rdp, boot, cur>>
          /\ ota2Set' = ota2Set \/ ota2Set' = TRUE
        BY <1>3 DEF RefuseHeader
    <2>2. ota2Set' \in BOOLEAN
        BY <1>1, <2>1
    <2> QED
        BY <1>1, <2>1, <2>2, ExitInv
<1>4. ASSUME ClearSignatureZone
      PROVE  Inv'
    <2>1. /\ slot' = [slot EXCEPT ![Target] = EraseSectorAt(slot[Target], 0)]
          /\ Exit /\ UNCHANGED <<rdp, ota2Set, boot, cur>>
        BY <1>4 DEF ClearSignatureZone
    <2>2. Target \in OTA_INDEX /\ slot[Target] \in [Cells -> Bytes]
        BY ThreadFacts
    <2>3. EraseSectorAt(slot[Target], 0) \in [Cells -> Bytes]
        BY <2>2, EraseSectorOn
    <2>4. slot' \in [OTA_INDEX -> [Cells -> Bytes]]
        BY <1>1, <2>1, <2>2, <2>3, SlotWritten
    <2> QED
        BY <1>1, <2>1, <2>4, ExitInv
<1> QED
    BY <1>2, <1>3, <1>4, TakeEotInv, TakeBlockInv, TakeHeaderInv, EraseSectorInv,
       EraseRdpInv, WriteBlockInv, ZeroBlockEndsInv, StartNextRoundInv, VerifyInv,
       WriteSignatureInv, OtaChangeInv, Zenon DEF Thread

-----------------------------------------------------------------------------
(* The theorems.                                                           *)

LEMMA InitInv ==
    ASSUME Init
    PROVE  Inv
<1>1. PICK f \in {g \in Files : g.ours} :
         slot = [s \in OTA_INDEX |->
                   [k \in Cells |->
                      IF s = 1 /\ k < f.len THEN Served(f, f.ota[1] + k) ELSE Erased]]
    BY DEF Init
<1>2. /\ f \in Files /\ f.ota[1] \in Nat /\ f.len \in Nat /\ f.ota[1] + f.len <= Total(f)
      /\ Total(f) \in Nat
    <2>1. 1 \in OTA_INDEX /\ f \in Files
        BY DEF OTA_INDEX
    <2> QED
        BY <2>1, FileFacts, TotalBound
<1>3. slot \in [OTA_INDEX -> [Cells -> Bytes]]
    <2> SUFFICES ASSUME NEW s \in OTA_INDEX, NEW k \in Cells
                 PROVE  (IF s = 1 /\ k < f.len THEN Served(f, f.ota[1] + k)
                         ELSE Erased) \in Bytes
        BY <1>1
    <2>1. CASE s = 1 /\ k < f.len
        <3>1. k \in Nat
            BY Lengths DEF Cells
        <3> DEFINE o == f.ota[1] + k
        <3>2. o \in Nat /\ o < Total(f)
            BY <1>2, <2>1, <3>1
        <3> HIDE DEF o
        <3>3. Served(f, o) \in Bytes
            BY <1>2, <3>2, ServedByte
        <3> QED
            BY <2>1, <3>3 DEF o
    <2>2. CASE ~(s = 1 /\ k < f.len)
        BY <2>2, FixedBytes
    <2> QED
        BY <2>1, <2>2
<1>4. /\ rdp = TRUE /\ ota2Set \in BOOLEAN /\ boot = 1 /\ cur = 1 /\ pc = "idle"
      /\ rx = NoFrame /\ late = FALSE /\ nxt = 0 /\ dw = NoDownload /\ step = 0
      /\ file = NoFile /\ snd = [n |-> 0, state |-> "off"]
      /\ acks = 0 /\ faults = 0 /\ harmed = FALSE
    BY DEF Init
<1>5. FrameType(NoFrame) /\ NoFrame.kind = "none" /\ <<>> \in Seq(Bytes)
    BY FixedFrames, EmptySeq
<1>6. Types
    <2>1. dw \in Downloads
        BY <1>4, <1>5 DEF NoDownload, Downloads
    <2>2. snd \in [n : Nat, state : {"off", "send", "await"}]
        BY <1>4
    <2>3. faults \in 0 .. MaxFaults /\ boot \in OTA_INDEX /\ cur \in OTA_INDEX
        BY <1>4, Lengths DEF OTA_INDEX
    <2>4. FrameType(rx)
        BY <1>4, <1>5
    <2> QED
        BY <1>3, <1>4, <2>1, <2>2, <2>3, <2>4 DEF Types
<1>7. FileInv /\ WorkInv
    BY <1>4, <1>5 DEF FileInv, WorkInv
<1>8. ThreadInv /\ AlteredInv
    BY <1>4 DEF ThreadInv, AlteredInv, InUse, NoDownload
<1> QED
    BY <1>6, <1>7, <1>8 DEF Inv

LEMMA NextInv ==
    ASSUME Inv, [Next]_vars
    PROVE  Inv'
<1>1. ASSUME NEW f \in Files \cup {NoFile}, UartYmodem(f)
      PROVE  Inv'
    BY <1>1, UartYmodemInv
<1>2. ASSUME Restart
      PROVE  Inv'
    <2>1. cur' \in OTA_INDEX
        <3>1. boot \in OTA_INDEX /\ BootLoader \subseteq OTA_INDEX
            BY DEF Inv, Types, BootLoader, Bootable
        <3> QED
            BY <1>2, <3>1 DEF Restart
    <2>2. Exit /\ UNCHANGED <<slot, rdp, ota2Set, boot>>
        BY <1>2 DEF Restart, flash
    <2>3. /\ slot \in [OTA_INDEX -> [Cells -> Bytes]] /\ rdp \in BOOLEAN
          /\ ota2Set \in BOOLEAN /\ boot \in OTA_INDEX
        BY DEF Inv, Types
    <2> QED
        BY <2>1, <2>2, <2>3, ExitInv
<1>3. CASE UNCHANGED vars
    <2>1. UNCHANGED <<flash, cur, pc, nxt, dw, step, file, rx, late, snd, acks,
                      faults, harmed>>
        BY <1>3 DEF vars, line
    <2>2. Types'
        BY <2>1 DEF Inv, Types, flash
    <2>3. FileInv' /\ WorkInv'
        BY <2>1 DEF Inv, FileInv, WorkInv
    <2>4. /\ UNCHANGED <<slot, cur, pc, dw, step, file, rx>> /\ Intact' = Intact
          /\ InUse' = InUse /\ Target' = Target
        BY <2>1 DEF flash, Intact, InUse, Target
    <2>5. ThreadInv' /\ AlteredInv'
        BY <2>4 DEF Inv, ThreadInv, AlteredInv, SlotAt, ErasedSectors
    <2> QED
        BY <2>2, <2>3, <2>5 DEF Inv
<1> QED
    BY <1>1, <1>2, <1>3, TerminalInv, ThreadStep DEF Next

LEMMA InvAlways == Spec => []Inv
<1>1. Init => Inv
    BY InitInv
<1>2. Inv /\ [Next]_vars => Inv'
    BY NextInv
<1> QED
    BY <1>1, <1>2, PTL DEF Spec

\* The variables keep their types for files, blocks and sectors of any length: the
\* frames end where the buffers do, and uart_signature never overflows, however
\* many blocks are lost, repeated or spoiled.
THEOREM TypeCorrect == Spec => []TypeOK
<1>1. Inv => TypeOK
    <2> SUFFICES ASSUME Inv
                 PROVE  TypeOK
        OBVIOUS
    <2>1. Types /\ FileInv /\ ThreadInv /\ AlteredInv
        BY DEF Inv
    <2>2. slot \in [OTA_INDEX -> [Cells -> Values \cup {0, Pad}]]
        BY <2>1 DEF Types, Bytes
    <2>3. Len(dw.signature) <= SigLen
        <3>1. CASE dw.signature = <<>>
            BY <3>1, Lengths, EmptySeq
        <3>2. CASE dw.signature # <<>>
            BY <2>1, <3>2 DEF ThreadInv, TakenInv, AlteredInv, InUse
        <3> QED
            BY <3>1, <3>2
    <2>4. rx.kind \in {"none", "block", "eot", "bad"}
        BY <2>1 DEF Types, FrameType
    <2>5. snd.state \in {"off", "send", "await"} /\ file \in Files \cup {NoFile}
        BY <2>1 DEF Types, FileInv
    <2> QED
        BY <2>1, <2>2, <2>3, <2>4, <2>5 DEF Types, TypeOK
<1> QED
    BY <1>1, InvAlways, PTL

\* Whatever comes over the line, the thread writes no byte behind the image, where
\* nothing was erased, and none over another: flash_offset never passes the end.
THEOREM StaysWithinImage == Spec => []StaysInImage
<1>1. Inv => StaysInImage
    <2> SUFFICES ASSUME Inv, dw.hd
                 PROVE  /\ Len(dw.signature) + dw.written <= file.len
                        /\ \A k \in Cells : slot[Target][k] # Overwritten
        BY DEF StaysInImage
    <2>1. /\ file \in Files /\ Target \in OTA_INDEX
          /\ slot[Target] \in [Cells -> Bytes] /\ dw.offset \in Nat
        <3>1. pc \notin {"idle", "hello"} /\ Types
            BY DEF Inv, ThreadInv
        <3> QED
            BY <3>1, ThreadFacts DEF Types, Downloads
    <2>2. Len(dw.signature) + dw.written <= file.len
        <3>1. CASE Intact
            <4>1. TakenInv(file, Target, dw)
                BY <3>1 DEF Inv, ThreadInv
            <4> QED
                BY <2>1, <4>1, BeforeBound DEF TakenInv
        <3>2. CASE ~Intact
            <4> DEFINE n == Len(dw.signature) + dw.written
            <4>1. n <= BlockLen
                <5>1. CASE dw.signature = <<>> /\ dw.written = 0
                    BY <5>1, Lengths, EmptySeq
                <5>2. CASE ~(dw.signature = <<>> /\ dw.written = 0)
                    BY <3>2, <5>2 DEF Inv, AlteredInv, InUse
                <5> QED
                    BY <5>1, <5>2
            <4>2. n \in Nat /\ BlockLen \in Nat /\ file.len \in Nat /\ BlockLen < file.len
                BY <2>1, Lengths, FileFacts, LenProperties DEF Inv, Types, Downloads
            <4> HIDE DEF n
            <4>3. n <= file.len
                BY <4>1, <4>2
            <4> QED
                BY <4>3 DEF n
        <3> QED
            BY <3>1, <3>2
    <2>3. \A k \in Cells : slot[Target][k] # Overwritten
        BY <2>1 DEF Bytes
    <2> QED
        BY <2>2, <2>3
<1> QED
    BY <1>1, InvAlways, PTL

\* To erase a sector before the slot is to erase nothing of it.
LEMMA EraseNone ==
    ASSUME NEW cells \in [Cells -> Bytes], NEW n \in Int, n < 0
    PROVE  EraseSectorAt(cells, n) = cells
<1>1. \A k \in Cells : k \div SectorLen # n
    <2> TAKE k \in Cells
    <2>1. k \in Nat
        BY DEF Cells
    <2>2. k \div SectorLen \in Nat
        BY <2>1, Lengths, SectorGrows
    <2> QED
        BY <2>2
<1> QED
    BY <1>1 DEF EraseSectorAt

\* An erase for a length that a slot holds ends with the slot.
LEMMA ErasesTarget ==
    ASSUME Inv, EraseSector, dw.len \in 1 .. SlotLen
    PROVE  /\ slot' = [slot EXCEPT ![Target] = EraseSectorAt(slot[Target], step)]
           /\ ota2Set' = ota2Set /\ boot' = boot
<1>1. /\ Target \in OTA_INDEX /\ cur \in OTA_INDEX /\ Target # cur
      /\ slot \in [OTA_INDEX -> [Cells -> Bytes]] /\ step \in Nat
      /\ ota2Set \in BOOLEAN
    BY ThreadFacts DEF Types
<1>2. step < SlotSectors /\ SlotSectors \in Nat
    <2>1. step < ErasedSectors(dw.len)
        BY ThreadFacts DEF ThreadInv, EraseSector
    <2>2. dw.len \in Nat
        OBVIOUS
    <2>3. /\ ErasedSectors(dw.len) \in Nat /\ ErasedSectors(dw.len) <= SlotSectors
          /\ SlotSectors \in Nat
        BY <2>2, ErasedSectorsIs
    <2> QED
        BY <1>1, <2>1, <2>3
<1>3. step # SystemAt
    <2>1. RdpAt \in Nat /\ RdpAt >= SlotSectors
        BY <1>2 DEF RdpAt
    <2> QED
        BY <1>1, <1>2, <2>1 DEF SystemAt
<1>4. ASSUME NEW s \in OTA_INDEX
      PROVE  EraseSectorAt(slot[s], step - SlotAt(s)) =
                IF s = Target THEN EraseSectorAt(slot[Target], step) ELSE slot[s]
    <2>1. SlotAt(s) \in Nat /\ slot[s] \in [Cells -> Bytes]
        BY <1>1, SlotAtIs
    <2>2. CASE s = Target
        <3>1. step - SlotAt(s) = step
            BY <1>1, <2>2, SlotAtIs
        <3> QED
            BY <2>2, <3>1
    <2>3. CASE s # Target
        <3>1. SlotAt(s) >= SlotSectors
            BY <1>1, <2>3, SlotAtIs
        <3>2. step - SlotAt(s) \in Int /\ step - SlotAt(s) < 0
            BY <1>1, <1>2, <2>1, <3>1
        <3> QED
            BY <2>1, <2>3, <3>2, EraseNone
    <2> QED
        BY <2>2, <2>3
<1>5. slot' = [s \in OTA_INDEX |-> EraseSectorAt(slot[s], step - SlotAt(s))]
    BY DEF EraseSector
<1>6. slot' = [slot EXCEPT ![Target] = EraseSectorAt(slot[Target], step)]
    BY <1>1, <1>4, <1>5
<1>7. ota2Set' = ota2Set /\ boot' = boot
    BY <1>1, <1>3 DEF EraseSector
<1> QED
    BY <1>6, <1>7

\* The slot the running firmware is in is the image the device comes back with: no
\* step of a transfer touches it, whatever is booted next; but for an erase that
\* overruns the other slot, for a header whose length noise has set to 0 or to more
\* than a slot holds.
RunningImageUntouched == [][slot'[cur] = slot[cur] \/ Overrun]_vars

THEOREM RunningSlotUntouched == Spec => RunningImageUntouched
<1>1. Inv /\ [Next]_vars => [slot'[cur] = slot[cur] \/ Overrun]_vars
    <2> SUFFICES ASSUME Inv, Next, ~Overrun
                 PROVE  slot'[cur] = slot[cur]
        OBVIOUS
    <2>1. Target # cur /\ cur \in OTA_INDEX /\ slot \in [OTA_INDEX -> [Cells -> Bytes]]
        BY ThreadFacts DEF Types
    <2>2. slot' = slot \/ \E cells : slot' = [slot EXCEPT ![Target] = cells]
        <3>1. CASE Terminal
            BY <3>1 DEF Terminal, Send, SendLost, SendSpoiled, TakeAck, AckLost, TimesOut,
                        TimesOutEarly, Cancel, flash
        <3>2. CASE Thread
            <4>1. ASSUME EraseSector \/ WriteBlock \/ ClearSignatureZone \/ WriteSignature
                  PROVE  \E cells : slot' = [slot EXCEPT ![Target] = cells]
                <5>1. CASE EraseSector
                    BY <5>1, ErasesTarget DEF Overrun
                <5>2. CASE WriteBlock \/ ClearSignatureZone \/ WriteSignature
                    BY <5>2, Zenon DEF WriteBlock, ClearSignatureZone, WriteSignature
                <5> QED
                    BY <4>1, <5>1, <5>2
            <4>2. ASSUME ~(EraseSector \/ WriteBlock \/ ClearSignatureZone \/ WriteSignature)
                  PROVE  slot' = slot
                BY <3>2, <4>2 DEF Thread, NoResponse, RefuseFrame, TakeEot, TakeBlock,
                   RefuseHeader, TakeHeader, EraseRdp, CrcFails, ZeroBlockEnds,
                   StartNextRound, DownloadFailed, Verify, OtaChange, TransferOver, flash
            <4> QED
                BY <4>1, <4>2
        <3>3. CASE Restart
            BY <3>3 DEF Restart, flash
        <3>4. CASE \E f \in Files \cup {NoFile} : UartYmodem(f)
            BY <3>4 DEF UartYmodem, flash
        <3> QED
            BY <3>1, <3>2, <3>3, <3>4 DEF Next
    <2> QED
        BY <2>1, <2>2
<1> QED
    BY <1>1, InvAlways, PTL DEF Spec, RunningImageUntouched

-----------------------------------------------------------------------------
(* Induction.                                                              *)

\* Every set of natural numbers has a least one, which makes for induction over sets.
LEMMA Least ==
    ASSUME NEW S \in SUBSET Nat, S # {}
    PROVE  \E x \in S : \A y \in S : x <= y
<1> DEFINE R == OpToRel(<, Nat)
<1>1. IsWellFoundedOn(R, Nat)
    BY NatLessThanWellFounded
<1> HIDE DEF R
<1>2. PICK x \in S : \A y \in S : ~(<<y, x>> \in R)
    BY <1>1, WFMin
<1>3. \A a, b \in Nat : a < b => <<a, b>> \in R
    BY DEF R, OpToRel
<1>4. ASSUME NEW y \in S PROVE x <= y
    <2>1. x \in Nat /\ y \in Nat /\ ~(<<y, x>> \in R)
        BY <1>2
    <2>2. ~(y < x)
        BY <1>3, <2>1
    <2> QED
        BY <2>1, <2>2
<1> QED
    BY <1>4

LEMMA Induction ==
    ASSUME NEW S \in SUBSET Nat, 0 \in S, \A n \in S : n + 1 \in S
    PROVE  S = Nat
<1> SUFFICES ASSUME S # Nat PROVE FALSE
    OBVIOUS
<1>1. PICK x \in Nat \ S : \A y \in Nat \ S : x <= y
    BY Least
<1>2. x - 1 \in Nat /\ x - 1 \in S
    BY <1>1
<1> QED
    BY <1>1, <1>2

-----------------------------------------------------------------------------
(* Sums.                                                                   *)

\* There is a function that satisfies the recursion, so that the sum does.
LEMMA SumStep ==
    ASSUME NEW g, NEW a \in Int, NEW n \in Nat
    PROVE  SumOf(g, a, n + 1) = SumOf(g, a, n) + g[a + n] /\ SumOf(g, a, 0) = 0
<1> DEFINE Term(s, k) == IF k <= 0 THEN 0 ELSE s[k - 1] + g[a + k - 1]
           Is(s, m) == DOMAIN s = 0 .. m /\ \A k \in 0 .. m : s[k] = Term(s, k)
<1>1. \A m \in Nat : \E s : Is(s, m)
    <2> DEFINE S == {m \in Nat : \E s : Is(s, m)}
    <2>1. 0 \in S
        <3>1. Is([k \in 0 .. 0 |-> 0], 0)
            OBVIOUS
        <3> QED
            BY <3>1
    <2>2. ASSUME NEW m \in S PROVE m + 1 \in S
        <3>1. PICK s : Is(s, m)
            OBVIOUS
        <3> DEFINE t == [k \in 0 .. m + 1 |-> IF k <= m THEN s[k] ELSE s[m] + g[a + m]]
        <3>2. Is(t, m + 1)
            <4>1. DOMAIN t = 0 .. m + 1
                OBVIOUS
            <4>2. ASSUME NEW k \in 0 .. m PROVE t[k] = Term(t, k)
                <5>1. t[k] = s[k] /\ s[k] = Term(s, k)
                    BY <3>1
                <5>2. k > 0 => t[k - 1] = s[k - 1]
                    OBVIOUS
                <5> QED
                    BY <5>1, <5>2
            <4>3. t[m + 1] = Term(t, m + 1)
                <5>1. t[m + 1] = s[m] + g[a + m] /\ t[m] = s[m] /\ (m + 1) - 1 = m
                    OBVIOUS
                <5>2. a + (m + 1) - 1 = a + m
                    OBVIOUS
                <5> HIDE DEF t
                <5> QED
                    BY <5>1, <5>2
            <4> HIDE DEF t, Term
            <4>4. \A k \in 0 .. m + 1 : k \in 0 .. m \/ k = m + 1
                OBVIOUS
            <4> QED
                BY <4>1, <4>2, <4>3, <4>4
        <3> HIDE DEF t, Is
        <3>3. m + 1 \in Nat /\ \E u : Is(u, m + 1)
            BY <3>2
        <3> QED
            BY <3>3
    <2> HIDE DEF S, Is
    <2>3. S = Nat
        BY <2>1, <2>2, Induction DEF S
    <2> QED
        BY <2>3 DEF S
<1>2. ASSUME NEW m \in Nat, NEW p \in Nat, m <= p, NEW s, NEW t, Is(s, m), Is(t, p)
      PROVE  \A k \in 0 .. m : s[k] = t[k]
    <2> DEFINE S == {k \in Nat : k <= m => s[k] = t[k]}
    <2>1. 0 \in S
        BY <1>2
    <2>2. ASSUME NEW k \in S PROVE k + 1 \in S
        <3> SUFFICES ASSUME k + 1 <= m PROVE s[k + 1] = t[k + 1]
            OBVIOUS
        <3>1. s[k] = t[k] /\ (k + 1) - 1 = k
            OBVIOUS
        <3>2. k + 1 \in 0 .. m /\ k + 1 \in 0 .. p
            BY <1>2
        <3>3. s[k + 1] = Term(s, k + 1) /\ t[k + 1] = Term(t, k + 1)
            BY <1>2, <3>2
        <3>4. Term(s, k + 1) = s[k] + g[a + (k + 1) - 1] /\ Term(t, k + 1) = t[k] + g[a + (k + 1) - 1]
            BY <3>1
        <3> QED
            BY <3>1, <3>3, <3>4
    <2> HIDE DEF S
    <2>3. S = Nat
        BY <2>1, <2>2, Induction DEF S
    <2> QED
        BY <2>3 DEF S
<1> DEFINE F(k) == CHOOSE s : Is(s, k)
           h == [k \in Int |-> IF k <= 0 THEN 0 ELSE F(k)[k]]
<1>3. ASSUME NEW k \in Nat
      PROVE  Is(F(k), k)
    BY <1>1
<1>4. ASSUME NEW k \in Int PROVE h[k] = Term(h, k)
    <2>1. CASE k <= 0
        BY <2>1
    <2>2. CASE k > 0
        <3>1. k - 1 \in Nat /\ k \in Nat /\ k - 1 <= k
            BY <2>2
        <3> DEFINE s == F(k - 1)
                   t == F(k)
        <3>2. Is(s, k - 1) /\ Is(t, k)
            BY <1>3, <3>1
        <3> HIDE DEF s, t, Is
        <3>3. s[k - 1] = t[k - 1]
            BY <1>2, <3>1, <3>2
        <3>4. h[k] = t[k]
            BY <2>2 DEF t
        <3>5. h[k - 1] = t[k - 1]
            <4>1. CASE k = 1
                <5>1. t[0] = Term(t, 0)
                    BY <3>2, <4>1 DEF Is
                <5> QED
                    BY <4>1, <5>1
            <4>2. CASE k # 1
                BY <2>2, <3>3, <4>2 DEF s
            <4> QED
                BY <4>1, <4>2
        <3>6. t[k] = Term(t, k)
            BY <2>2, <3>2 DEF Is
        <3> HIDE DEF h
        <3> QED
            BY <2>2, <3>4, <3>5, <3>6
    <2> QED
        BY <2>1, <2>2
<1> DEFINE sum == CHOOSE s : s = [k \in Int |-> Term(s, k)]
<1>5. sum = [k \in Int |-> Term(sum, k)]
    <2>1. h = [k \in Int |-> h[k]]
        OBVIOUS
    <2> HIDE DEF h, Term
    <2>2. h = [k \in Int |-> Term(h, k)]
        BY <1>4, <2>1
    <2> QED
        BY <2>2
<1>6. \A k \in Int : SumOf(g, a, k) = sum[k]
    BY DEF SumOf
<1> HIDE DEF sum
<1>7. sum[n + 1] = Term(sum, n + 1) /\ sum[0] = 0
    BY <1>5
<1>8. Term(sum, n + 1) = sum[n] + g[a + n]
    <2>1. (n + 1) - 1 = n /\ a + (n + 1) - 1 = a + n /\ ~(n + 1 <= 0)
        OBVIOUS
    <2> QED
        BY <2>1
<1> QED
    BY <1>6, <1>7, <1>8

LEMMA SumIsInt ==
    ASSUME NEW g, NEW a \in Int, NEW n \in Nat, \A k \in 0 .. n - 1 : g[a + k] \in Int
    PROVE  SumOf(g, a, n) \in Int
<1> DEFINE S == {m \in Nat : m <= n => SumOf(g, a, m) \in Int}
<1>1. 0 \in S
    BY SumStep
<1>2. ASSUME NEW m \in S PROVE m + 1 \in S
    <2> SUFFICES ASSUME m + 1 <= n PROVE SumOf(g, a, m + 1) \in Int
        OBVIOUS
    <2>1. SumOf(g, a, m + 1) = SumOf(g, a, m) + g[a + m]
        BY SumStep
    <2>2. SumOf(g, a, m) \in Int /\ g[a + m] \in Int
        OBVIOUS
    <2> QED
        BY <2>1, <2>2
<1> HIDE DEF S
<1>3. S = Nat
    BY <1>1, <1>2, Induction DEF S
<1> QED
    BY <1>3 DEF S

Adds(g, a, n, p) == SumOf(g, a, n + p) = SumOf(g, a, n) + SumOf(g, a + n, p)

LEMMA SumSplit ==
    ASSUME NEW g, NEW a \in Int, NEW n \in Nat, NEW p \in Nat,
           \A k \in 0 .. n + p - 1 : g[a + k] \in Int
    PROVE  Adds(g, a, n, p)
<1> DEFINE T(m) == SumOf(g, a, n + m) = SumOf(g, a, n) + SumOf(g, a + n, m)
           S == {m \in Nat : m <= p => T(m)}
<1>1. 0 \in S
    <2>1. SumOf(g, a + n, 0) = 0 /\ n + 0 = n
        BY SumStep
    <2>2. SumOf(g, a, n) \in Int
        BY SumIsInt
    <2> QED
        BY <2>1, <2>2
<1>2. ASSUME NEW m \in S PROVE m + 1 \in S
    <2> SUFFICES ASSUME m + 1 <= p PROVE T(m + 1)
        OBVIOUS
    <2>1. SumOf(g, a + n, m + 1) = SumOf(g, a + n, m) + g[a + n + m]
        BY SumStep
    <2>2. SumOf(g, a, (n + m) + 1) = SumOf(g, a, n + m) + g[a + (n + m)]
        <3>1. n + m \in Nat
            OBVIOUS
        <3> QED
            BY <3>1, SumStep
    <2>3. T(m)
        OBVIOUS
    <2>4. SumOf(g, a, n) \in Int
        BY SumIsInt
    <2>5. SumOf(g, a + n, m) \in Int
        <3>1. \A k \in 0 .. m - 1 : g[a + n + k] \in Int
            <4> TAKE k \in 0 .. m - 1
            <4>1. n + k \in 0 .. n + p - 1 /\ a + n + k = a + (n + k)
                OBVIOUS
            <4> QED
                BY <4>1
        <3>2. a + n \in Int
            OBVIOUS
        <3> QED
            BY <3>1, <3>2, SumIsInt
    <2>6. g[a + (n + m)] \in Int /\ a + n + m = a + (n + m) /\ n + (m + 1) = (n + m) + 1
        OBVIOUS
    <2> DEFINE x == SumOf(g, a, n)
               y == SumOf(g, a + n, m)
               z == g[a + (n + m)]
    <2>7. SumOf(g, a, n + (m + 1)) = x + y + z /\ SumOf(g, a + n, m + 1) = y + z
        BY <2>1, <2>2, <2>3, <2>6
    <2>8. x \in Int /\ y \in Int /\ z \in Int
        BY <2>4, <2>5, <2>6
    <2> HIDE DEF x, y, z
    <2>9. SumOf(g, a, n + (m + 1)) = x + SumOf(g, a + n, m + 1)
        BY <2>7, <2>8
    <2> QED
        BY <2>9 DEF x
<1> HIDE DEF S
<1>3. S = Nat
    BY <1>1, <1>2, Induction DEF S
<1> QED
    BY <1>3 DEF S, Adds

SumsAlike(g, a, h, b, n) == SumOf(g, a, n) = SumOf(h, b, n)

LEMMA SumSame ==
    ASSUME NEW g, NEW h, NEW a \in Int, NEW b \in Int, NEW n \in Nat,
           \A k \in 0 .. n - 1 : g[a + k] = h[b + k]
    PROVE  SumsAlike(g, a, h, b, n)
<1> DEFINE S == {m \in Nat : m <= n => SumOf(g, a, m) = SumOf(h, b, m)}
<1>1. 0 \in S
    BY SumStep
<1>2. ASSUME NEW m \in S PROVE m + 1 \in S
    <2> SUFFICES ASSUME m + 1 <= n PROVE SumOf(g, a, m + 1) = SumOf(h, b, m + 1)
        OBVIOUS
    <2>1. /\ SumOf(g, a, m + 1) = SumOf(g, a, m) + g[a + m]
          /\ SumOf(h, b, m + 1) = SumOf(h, b, m) + h[b + m]
        BY SumStep
    <2>2. SumOf(g, a, m) = SumOf(h, b, m) /\ g[a + m] = h[b + m]
        OBVIOUS
    <2> QED
        BY <2>1, <2>2
<1> HIDE DEF S
<1>3. S = Nat
    BY <1>1, <1>2, Induction DEF S
<1> QED
    BY <1>3 DEF S, SumsAlike

-----------------------------------------------------------------------------
(* The order of the blocks.                                                 *)

\* The k-th byte of the image as far as it has been taken: in uart_signature or
\* in the slot.
Place(d, cells, k) ==
    IF k < Len(d.signature) THEN d.signature[k + 1] ELSE cells[k]

\* A block lies where it arrives in turn: the first is the name, the header is
\* looked for in the second, and every one after it is written behind the last.
TurnInv ==
    /\ pc \in {"idle", "hello"} => nxt = 0
    /\ pc \in {"header", "erase", "eraseRdp"} => nxt = 1
    /\ pc = "frame" => nxt >= 1
    /\ ~dw.hd => nxt <= 1
    /\ pc = "crc" /\ ~dw.hd => nxt = 0
    /\ dw.hd /\ pc \in {"frame", "write"} =>
          nxt >= 1 /\ dw.offset = (nxt - 1) * BlockLen
    /\ dw.hd /\ pc = "crc" => nxt >= 1 /\ dw.offset = nxt * BlockLen

\* The terminal is never ahead of the receiver, which gives an ACK for each block:
\* what is received in a turn is a block of the file that is not behind it, or
\* zeros, or fails the CRC.
BehindInv ==
    /\ pc \notin {"signature", "clear", "sign", "exit"} => snd.n + acks <= nxt
    /\ rx.kind = "block" =>
          /\ rx.no <= nxt /\ (snd.state # "off" => rx.no <= snd.n)
          /\ rx.crc => rx.data = Block(file, rx.no)
    /\ pc \in {"erase", "eraseRdp", "write"} \/ dw.hd =>
          /\ rx.kind = "block" => rx.no >= 1
          /\ snd.state # "off" => snd.n >= 1

\* The blocks of a transfer that is not harmed come in turn.
InTurnInv ==
    ~harmed =>
        /\ rx.kind = "block" => rx.no = nxt /\ nxt <= LastBlock
                                /\ rx.data = Block(file, nxt)
        /\ rx.kind = "eot" => nxt > LastBlock

\* The bytes whose blocks passed are those of blocks that are not behind their places,
\* or zeros, and those that belong there when nothing was harmed.
PassedInv ==
    dw.hd /\ Intact =>
        /\ dw.written > 0 => Len(dw.signature) = SigLen
        /\ pc \in {"frame", "write", "signature"} \/ (pc = "crc" /\ (rx.crc \/ rx.data = Zeros)) =>
              \E m \in [Nat -> Nat] :
                 /\ \A n \in Nat : m[n] <= n
                 /\ \A k \in 0 .. Before(file, Target, dw.offset) - 1 :
                       Place(dw, slot[Target], k) = Received(file, m)[file.ota[Target] + k]
        /\ ~harmed /\ pc \in {"frame", "write", "crc", "signature"} =>
              \A k \in 0 .. Before(file, Target, dw.offset) - 1 :
                  Place(dw, slot[Target], k) = Served(file, file.ota[Target] + k)

\* What the end of the transmission and the check find.
EndInv ==
    /\ pc = "clear" => slot[Target][0] = Erased
    /\ ~harmed /\ NoZeroBlock =>
          /\ pc = "signature" => /\ dw.hd /\ dw.written = file.len - SigLen
                                 /\ Before(file, Target, dw.offset) = file.len
          /\ pc = "clear" => ~file.ours \/ file.rdpLen > 0

OrderInv == TurnInv /\ BehindInv /\ InTurnInv /\ PassedInv /\ EndInv

-----------------------------------------------------------------------------
(* Blocks and offsets.                                                      *)

LEMMA BlockOffsets ==
    ASSUME NEW n \in Nat
    PROVE  n * BlockLen \in Nat /\ (n + 1) * BlockLen = n * BlockLen + BlockLen
  BY Lengths

LEMMA BlocksGrow ==
    ASSUME NEW m \in Nat, NEW n \in Nat, m <= n
    PROVE  m * BlockLen <= n * BlockLen
<1>1. PICK d \in Nat : n = m + d
    <2>1. n - m \in Nat /\ n = m + (n - m)
        OBVIOUS
    <2> QED
        BY <2>1
<1>2. BlockLen \in Nat
    BY Lengths
<1>3. (m + d) * BlockLen = m * BlockLen + d * BlockLen /\ d * BlockLen \in Nat
      /\ m * BlockLen \in Nat
    BY <1>2
<1> QED
    BY <1>1, <1>3

\* A number is not greater than the blocks it fills.
LEMMA Filled ==
    ASSUME NEW t \in Nat, t > 0, NEW b \in Nat, b > 0
    PROVE  /\ (t - 1) \div b \in Nat
           /\ t <= ((t - 1) \div b + 1) * b
<1> DEFINE q == (t - 1) \div b
           r == (t - 1) % b
<1>1. t - 1 = b * q + r /\ r \in 0 .. b - 1 /\ q \in Nat
    OBVIOUS
<1> HIDE DEF q, r
<1>2. (q + 1) * b = b * q + b /\ b * q \in Nat
    BY <1>1
<1> DEFINE u == b * q
<1>3. t - 1 = u + r /\ u \in Nat /\ (q + 1) * b = u + b
    BY <1>1, <1>2
<1> HIDE DEF u
<1>4. t <= (q + 1) * b
    BY <1>1, <1>3
<1> QED
    BY <1>1, <1>4 DEF q

LEMMA LastBlockIs ==
    ASSUME file \in Files, NEW t \in OTA_INDEX
    PROVE  /\ LastBlock \in Nat /\ LastBlock >= 1 /\ Total(file) \in Nat
           /\ file.ota[t] + file.len <= Total(file)
           /\ Total(file) <= LastBlock * BlockLen
<1>1. /\ file.len \in Nat /\ file.len > 0 /\ file.ota[t] \in Nat
    BY FileFacts, Lengths
<1>2. Total(file) \in Nat /\ file.ota[t] + file.len <= Total(file)
    BY TotalBound DEF OTA_INDEX
<1>3. Total(file) > 0
    BY <1>1, <1>2
<1> DEFINE q == (Total(file) - 1) \div BlockLen
<1>4. q \in Nat /\ Total(file) <= (q + 1) * BlockLen
    BY <1>2, <1>3, Lengths, Filled
<1> HIDE DEF q
<1>5. LastBlock = q + 1
    BY DEF LastBlock, q
<1> QED
    BY <1>2, <1>4, <1>5

\* The byte at place i of block n.
LEMMA BlockByte ==
    ASSUME NEW f \in Files, NEW n \in Nat, n >= 1, NEW i \in 1 .. BlockLen
    PROVE  Block(f, n)[i] = Byte(f, (n - 1) * BlockLen + i - 1)
  BY DEF Block

\* The block an offset is in, and its place there.
LEMMA Quotient ==
    ASSUME NEW q \in Nat, NEW r \in 0 .. BlockLen - 1
    PROVE  LET o == q * BlockLen + r
           IN  o \in Nat /\ o \div BlockLen = q /\ o % BlockLen = r
<1> DEFINE o == q * BlockLen + r
           p == o \div BlockLen
           c == o % BlockLen
           u == q * BlockLen
           v == p * BlockLen
<1>1. BlockLen \in Nat /\ BlockLen > 0 /\ u \in Nat /\ o \in Nat /\ o = u + r
    BY Lengths, BlockOffsets
<1>2. p \in Nat /\ c \in 0 .. BlockLen - 1 /\ o = v + c
    <2> HIDE DEF o
    <2> QED
        BY <1>1
<1>3. v \in Nat
    BY <1>2, BlockOffsets
<1>4. p < q => v + BlockLen <= u
    <2> SUFFICES ASSUME p < q PROVE v + BlockLen <= u
        OBVIOUS
    <2>1. p + 1 \in Nat /\ p + 1 <= q
        BY <1>2
    <2> HIDE DEF p
    <2>2. (p + 1) * BlockLen <= q * BlockLen
        BY <2>1, BlocksGrow
    <2> QED
        BY <1>2, <2>2, BlockOffsets
<1>5. q < p => u + BlockLen <= v
    <2> SUFFICES ASSUME q < p PROVE u + BlockLen <= v
        OBVIOUS
    <2>1. q + 1 \in Nat /\ q + 1 <= p
        BY <1>2
    <2> HIDE DEF p
    <2>2. (q + 1) * BlockLen <= p * BlockLen
        BY <1>2, <2>1, BlocksGrow
    <2> QED
        BY <2>2, BlockOffsets
<1> HIDE DEF o, p, c, u, v
<1>6. p = q
    BY <1>1, <1>2, <1>3, <1>4, <1>5
<1>7. u = v
    BY <1>6 DEF u, v
<1>8. c = r
    BY <1>1, <1>2, <1>3, <1>7
<1> QED
    BY <1>1, <1>6, <1>8 DEF o, p, c

\* Before the beginning of a block are the blocks before it.
LEMMA BlockBefore ==
    ASSUME NEW n \in Nat, NEW o \in Nat, o < n * BlockLen
    PROVE  o \div BlockLen \in Nat /\ o \div BlockLen < n /\ o % BlockLen \in 0 .. BlockLen - 1
<1> DEFINE p == o \div BlockLen
           c == o % BlockLen
           u == n * BlockLen
           v == p * BlockLen
<1>1. BlockLen \in Nat /\ BlockLen > 0 /\ u \in Nat
    BY Lengths, BlockOffsets
<1>2. p \in Nat /\ c \in 0 .. BlockLen - 1 /\ o = v + c
    BY <1>1
<1>3. v \in Nat
    BY <1>2, BlockOffsets
<1>4. n <= p => u <= v
    BY <1>2, BlocksGrow
<1> HIDE DEF p, c, u, v
<1>5. ~(n <= p)
    BY <1>1, <1>2, <1>3, <1>4 DEF u
<1> QED
    BY <1>2, <1>5 DEF p, c

\* What is received for a byte of the file, from a block that is not behind it.
LEMMA ReceivedByte ==
    ASSUME NEW f \in Files, NEW m, NEW o \in 0 .. Total(f) - 1,
           NEW n, n = (o \div BlockLen) + 1, m[n] \in Nat, m[n] <= n
    PROVE  /\ Received(f, m)[o] = Taken(f, m[n])[(o % BlockLen) + 1]
           /\ Received(f, m)[o] \in Int
<1> DEFINE q == o \div BlockLen
           r == o % BlockLen
           j == m[n]
<1>1. BlockLen \in Nat /\ BlockLen > 0 /\ o \in Nat /\ Total(f) \in Nat
    BY Lengths, TotalBound
<1>2. q \in Nat /\ r \in 0 .. BlockLen - 1 /\ o = q * BlockLen + r /\ n = q + 1
    BY <1>1
<1>3. Received(f, m)[o] = Taken(f, j)[r + 1]
    BY DEF Received
<1>4. r + 1 \in 1 .. BlockLen
    BY <1>1, <1>2
<1> HIDE DEF q, r, j
<1>5. CASE j = 0
    <2>1. Taken(f, j)[r + 1] = 0
        BY <1>4, <1>5 DEF Taken, Zeros
    <2> QED
        BY <1>3, <2>1 DEF j, r
<1>6. CASE j # 0
    <2> DEFINE u == (j - 1) * BlockLen
               v == q * BlockLen
    <2>1. j - 1 \in Nat /\ j - 1 <= q /\ j \in Nat /\ j >= 1
        BY <1>2, <1>6 DEF j
    <2>2. u \in Nat /\ v \in Nat /\ u <= v
        BY <1>2, <2>1, BlocksGrow, BlockOffsets
    <2>3. Taken(f, j)[r + 1] = Byte(f, u + (r + 1) - 1)
        BY <1>4, <1>6, <2>1, BlockByte DEF Taken
    <2>4. o = v + r
        BY <1>2
    <2> HIDE DEF u, v
    <2>5. u + (r + 1) - 1 = u + r /\ u + r \in Nat /\ u + r < Total(f)
        BY <1>1, <1>2, <2>2, <2>4
    <2> DEFINE at == u + r
    <2>6. at \in Nat /\ at < Total(f) /\ Taken(f, j)[r + 1] = Byte(f, at)
        BY <2>3, <2>5
    <2> HIDE DEF at
    <2>7. Byte(f, at) = Served(f, at)
        BY <2>6 DEF Byte
    <2>8. Served(f, at) \in Nat
        BY <2>6, ServedByte
    <2> QED
        BY <1>3, <2>6, <2>7, <2>8 DEF j, r
<1> QED
    BY <1>5, <1>6

\* The image lies in the file.
LEMMA InFile ==
    ASSUME NEW f \in Files, NEW t \in OTA_INDEX, NEW k \in 0 .. f.len - 1
    PROVE  /\ f.ota[t] + k \in 0 .. Total(f) - 1 /\ f.ota[t] + k \in Nat
           /\ f.ota[t] + k < Total(f) /\ k \in Nat
<1>1. f.ota[t] \in Nat /\ f.len \in Nat
    BY FileFacts
<1>2. Total(f) \in Nat /\ f.ota[t] + f.len <= Total(f)
    BY TotalBound DEF OTA_INDEX
<1> DEFINE b == f.ota[t]
           w == Total(f)
           l == f.len
<1>3. b \in Nat /\ l \in Nat /\ w \in Nat /\ b + l <= w /\ k \in 0 .. l - 1
    BY <1>1, <1>2
<1> HIDE DEF b, w, l
<1>4. b + k \in 0 .. w - 1 /\ b + k \in Nat /\ b + k < w /\ k \in Nat
    BY <1>3
<1> QED
    BY <1>4 DEF b, w

-----------------------------------------------------------------------------
(* The terminal and the line keep the order.                                *)

LEMMA SentIs ==
    ASSUME file \in Files, NEW n \in Nat
    PROVE  /\ Frame(n).kind = "block" => /\ Frame(n).no = n /\ n <= LastBlock
                                         /\ Frame(n).data = Block(file, n)
           /\ Frame(n).kind = "eot" => n > LastBlock
<1> DEFINE d == Block(file, n)
<1>1. CASE n > LastBlock
    <2>1. Frame(n) = EotFrame(n)
        BY <1>1 DEF Frame
    <2>2. Frame(n).kind = "eot"
        BY <2>1, FixedFrames
    <2> QED
        BY <1>1, <2>2
<1>2. CASE ~(n > LastBlock)
    <2>1. Frame(n) = [kind |-> "block", no |-> n, crc |-> TRUE, data |-> d]
        BY <1>2 DEF Frame
    <2> HIDE DEF d
    <2>2. Frame(n).kind = "block" /\ Frame(n).no = n /\ Frame(n).data = d
        BY <2>1
    <2>3. LastBlock \in Nat
        <3>1. 1 \in OTA_INDEX
            BY DEF OTA_INDEX
        <3> QED
            BY <3>1, LastBlockIs
    <2>4. n <= LastBlock
        BY <1>2, <2>3
    <2> QED
        BY <2>2, <2>4 DEF d
<1> QED
    BY <1>1, <1>2

\* Noise leaves the number of a block, but not its CRC.
LEMMA SpoiledIs ==
    ASSUME file \in Files, NEW n \in Nat, NEW f \in Spoiled(Frame(n)),
           f.kind = "block"
    PROVE  f.no = n /\ ~f.crc
<1> DEFINE g == Frame(n)
<1>1. /\ g \in [kind : {"none", "block", "eot", "bad"}, no : Nat, data : Seq(Bytes),
                crc : BOOLEAN]
      /\ g.kind = "block" => g.no = n
    BY FrameIsFrame, SentIs DEF FrameType
<1>2. BadFrame.kind # "block" /\ EotFrame(0).kind # "block"
    BY FixedFrames
<1>3. /\ g.kind = "block"
      /\ \/ \E k \in 1 .. BlockLen : f = [g EXCEPT !.data[k] = Corrupted, !.crc = FALSE]
         \/ f = [g EXCEPT !.data = Zeros, !.crc = FALSE]
    BY <1>2 DEF Spoiled
<1> HIDE DEF g
<1>4. \E d : f = [g EXCEPT !.data = d, !.crc = FALSE]
    <2>1. CASE \E k \in 1 .. BlockLen : f = [g EXCEPT !.data[k] = Corrupted, !.crc = FALSE]
        <3>1. PICK k \in 1 .. BlockLen : f = [g EXCEPT !.data[k] = Corrupted, !.crc = FALSE]
            BY <2>1
        <3>2. f = [g EXCEPT !.data = [g.data EXCEPT ![k] = Corrupted], !.crc = FALSE]
            BY <3>1
        <3> QED
            BY <3>2
    <2> QED
        BY <1>3, <2>1
<1>5. PICK d : f = [g EXCEPT !.data = d, !.crc = FALSE]
    BY <1>4
<1> QED
    BY <1>1, <1>3, <1>5

\* A step of the line, when it keeps what is said of the line.
LEMMA LineOrder ==
    ASSUME OrderInv, UNCHANGED <<flash, cur, pc, nxt, dw, step, file>>,
           BehindInv', InTurnInv', ~harmed' => ~harmed,
           pc = "crc" => rx'.data = rx.data /\ (rx'.crc => rx.crc)
    PROVE  OrderInv'
<1>1. UNCHANGED <<slot, Target>> /\ Intact' = Intact
    BY DEF flash, Target, Intact
<1>2. TurnInv'
    BY DEF OrderInv, TurnInv
<1>3. PassedInv'
    BY <1>1 DEF OrderInv, PassedInv
<1>4. EndInv'
    BY <1>1 DEF OrderInv, EndInv
<1> QED
    BY <1>2, <1>3, <1>4 DEF OrderInv

\* What the terminal sends, as it comes in.
Sendable(f) ==
    /\ FrameType(f)
    /\ f.kind = "block" => f.no = snd.n /\ (f.crc => f.data = Block(file, f.no))

LEMMA DeliverOrder ==
    ASSUME Inv, OrderInv, snd.state # "off",
           Listening \/ pc \notin {"idle", "hello", "frame"},
           NEW f, Sendable(f), Deliver(f), file \in Files,
           UNCHANGED <<flash, cur, pc, nxt, dw, step, file, acks>>,
           snd' \in [n : Nat, state : {"off", "send", "await"}],
           \/ snd'.n = snd.n /\ snd'.state # "off"
           \/ snd'.n = 0 /\ snd'.state = "off"
    PROVE  OrderInv'
<1>1. /\ nxt \in Nat /\ snd.n \in Nat /\ acks \in Nat /\ harmed \in BOOLEAN
      /\ rx \in [kind : {"none", "block", "eot", "bad"}, no : Nat, data : Seq(Bytes),
                 crc : BOOLEAN]
    BY DEF Inv, Types, FrameType
<1>2. BehindInv /\ InTurnInv
    BY DEF OrderInv
<1>3. LastBlock' = LastBlock
    BY DEF LastBlock
<1>4. CASE Listening /\ rx' = f /\ harmed' = (harmed \/ f # Frame(nxt))
    <2>1. pc \in {"hello", "frame"} /\ snd.n + acks <= nxt
        BY <1>2, <1>4 DEF Listening, BehindInv
    <2>2. /\ f.kind = "block" => /\ f.no = snd.n /\ f.no <= nxt
                                 /\ (f.crc => f.data = Block(file, f.no))
        BY <1>1, <2>1 DEF Sendable
    <2>3. BehindInv'
        <3>1. snd'.n + acks' <= nxt'
            BY <1>1, <2>1
        <3>2. rx'.kind = "block" =>
                 /\ rx'.no <= nxt' /\ (snd'.state # "off" => rx'.no <= snd'.n)
                 /\ rx'.crc => rx'.data = Block(file', rx'.no)
            BY <1>1, <1>4, <2>2
        <3>3. pc' \in {"erase", "eraseRdp", "write"} \/ dw'.hd =>
                 /\ rx'.kind = "block" => rx'.no >= 1
                 /\ snd'.state # "off" => snd'.n >= 1
            BY <1>1, <1>2, <1>4, <2>2 DEF BehindInv
        <3> QED
            BY <3>1, <3>2, <3>3 DEF BehindInv
    <2>4. InTurnInv'
        <3>1. CASE f = Frame(nxt)
            <4>1. /\ f.kind = "block" => /\ f.no = nxt /\ nxt <= LastBlock
                                         /\ f.data = Block(file, nxt)
                  /\ f.kind = "eot" => nxt > LastBlock
                BY <1>1, <3>1, SentIs
            <4> QED
                BY <1>3, <1>4, <4>1 DEF InTurnInv
        <3>2. CASE f # Frame(nxt)
            BY <1>4, <3>2 DEF InTurnInv
        <3> QED
            BY <3>1, <3>2
    <2>5. (~harmed' => ~harmed) /\ pc # "crc"
        BY <1>4, <2>1
    <2> QED
        BY <2>3, <2>4, <2>5, LineOrder
<1>5. CASE /\ ~Listening /\ harmed' = harmed
           /\ rx' = rx \/ rx' = [rx EXCEPT !.crc = FALSE]
    <2>1. /\ rx'.kind = rx.kind /\ rx'.no = rx.no /\ rx'.data = rx.data
          /\ rx'.crc => rx.crc
        BY <1>1, <1>5
    <2>2. BehindInv'
        <3>1. pc' \notin {"signature", "clear", "sign", "exit"} => snd'.n + acks' <= nxt'
            BY <1>1, <1>2 DEF BehindInv
        <3>2. rx'.kind = "block" =>
                 /\ rx'.no <= nxt' /\ (snd'.state # "off" => rx'.no <= snd'.n)
                 /\ rx'.crc => rx'.data = Block(file', rx'.no)
            BY <1>2, <2>1 DEF BehindInv
        <3>3. pc' \in {"erase", "eraseRdp", "write"} \/ dw'.hd =>
                 /\ rx'.kind = "block" => rx'.no >= 1
                 /\ snd'.state # "off" => snd'.n >= 1
            BY <1>2, <2>1 DEF BehindInv
        <3> QED
            BY <3>1, <3>2, <3>3 DEF BehindInv
    <2>3. InTurnInv'
        BY <1>2, <1>3, <1>5, <2>1 DEF InTurnInv
    <2> QED
        BY <1>5, <2>1, <2>2, <2>3, LineOrder
<1> QED
    BY <1>4, <1>5 DEF Deliver

LEMMA TerminalOrder ==
    ASSUME Inv, OrderInv, Terminal
    PROVE  OrderInv'
<1>1. /\ nxt \in Nat /\ acks \in Nat /\ harmed \in BOOLEAN
      /\ snd \in [n : Nat, state : {"off", "send", "await"}]
    BY DEF Inv, Types
<1>2. BehindInv /\ InTurnInv
    BY DEF OrderInv
<1>3. CASE Send
    <2>1. /\ snd.state = "send" /\ (Listening \/ pc \notin {"idle", "hello", "frame"})
          /\ Deliver(Frame(snd.n)) /\ snd' = [snd EXCEPT !.state = "await"]
          /\ UNCHANGED <<flash, cur, pc, nxt, dw, step, file, acks>>
        BY <1>3 DEF Send, MaySend
    <2>2. snd.state # "off" /\ file \in Files
        BY <1>3, TerminalFacts DEF Send, MaySend
    <2>3. Sendable(Frame(snd.n))
        BY <1>1, <2>2, FrameIsFrame, SentIs DEF Sendable
    <2> QED
        BY <1>1, <2>1, <2>2, <2>3, DeliverOrder
<1>4. CASE SendSpoiled
    <2>1. PICK f \in Spoiled(Frame(snd.n)) : Deliver(f)
        BY <1>4 DEF SendSpoiled
    <2>2. /\ Listening \/ pc \notin {"idle", "hello", "frame"}
          /\ snd' = [snd EXCEPT !.state = "await"] /\ snd.state # "off"
          /\ UNCHANGED <<flash, cur, pc, nxt, dw, step, file, acks>>
        BY <1>4 DEF SendSpoiled, MaySend
    <2>3. file \in Files
        BY <2>2, TerminalFacts
    <2>4. Sendable(f)
        BY <1>1, <2>3, SpoiledIsFrame, SpoiledIs DEF Sendable
    <2> QED
        BY <1>1, <2>1, <2>2, <2>3, <2>4, DeliverOrder
<1>5. CASE Cancel
    <2>1. /\ snd.state # "off" /\ Listening /\ Deliver(BadFrame)
          /\ snd' = [n |-> 0, state |-> "off"]
          /\ UNCHANGED <<flash, cur, pc, nxt, dw, step, file, acks>>
        BY <1>5 DEF Cancel
    <2>2. file \in Files /\ Sendable(BadFrame)
        BY <2>1, TerminalFacts, FixedFrames DEF Sendable
    <2> QED
        BY <2>1, <2>2, DeliverOrder
<1>6. ASSUME UNCHANGED <<flash, cur, pc, nxt, dw, step, file, rx, harmed>>,
             \/ snd'.n + acks' = snd.n + acks /\ snd'.n >= snd.n /\ snd'.state # "off"
                /\ snd.state # "off"
             \/ acks' <= acks /\ snd'.n = snd.n /\ snd'.state = snd.state
             \/ acks' <= acks /\ snd'.n = 0 /\ snd'.state = "off",
             acks' \in Nat, snd'.n \in Nat
      PROVE  OrderInv'
    <2>1. BehindInv'
        <3>1. pc' \notin {"signature", "clear", "sign", "exit"} => snd'.n + acks' <= nxt'
            BY <1>1, <1>2, <1>6 DEF BehindInv
        <3>2. rx'.kind = "block" =>
                 /\ rx'.no <= nxt' /\ (snd'.state # "off" => rx'.no <= snd'.n)
                 /\ rx'.crc => rx'.data = Block(file', rx'.no)
            <4>1. rx.no \in Nat
                BY DEF Inv, Types, FrameType
            <4> QED
                BY <1>1, <1>2, <1>6, <4>1 DEF BehindInv
        <3>3. pc' \in {"erase", "eraseRdp", "write"} \/ dw'.hd =>
                 /\ rx'.kind = "block" => rx'.no >= 1
                 /\ snd'.state # "off" => snd'.n >= 1
            BY <1>1, <1>2, <1>6 DEF BehindInv
        <3> QED
            BY <3>1, <3>2, <3>3 DEF BehindInv
    <2>2. InTurnInv'
        BY <1>2, <1>6 DEF InTurnInv, LastBlock
    <2> QED
        BY <1>6, <2>1, <2>2, LineOrder
<1>7. CASE SendLost \/ TimesOut \/ TimesOutEarly
    <2>1. /\ UNCHANGED <<flash, cur, pc, nxt, dw, step, file, rx, harmed, acks>>
          /\ snd.state # "off"
          /\ snd' = [snd EXCEPT !.state = "await"] \/ snd' = [snd EXCEPT !.state = "send"]
        BY <1>7 DEF SendLost, MaySend, TimesOut, TimesOutEarly
    <2>2. snd'.n = snd.n /\ snd'.state # "off"
        BY <1>1, <2>1
    <2> QED
        BY <1>1, <1>6, <2>1, <2>2
<1>8. CASE TakeAck
    <2>1. /\ UNCHANGED <<flash, cur, pc, nxt, dw, step, file, rx, harmed>>
          /\ snd.state # "off" /\ acks > 0 /\ acks' = acks - 1
          /\ \/ snd' = [n |-> 0, state |-> "off"]
             \/ snd' = [n |-> snd.n + 1, state |-> "send"]
        BY <1>8 DEF TakeAck
    <2> QED
        BY <1>1, <1>6, <2>1
<1>9. CASE AckLost
    <2>1. /\ UNCHANGED <<flash, cur, pc, nxt, dw, step, file, rx, harmed, snd>>
          /\ acks > 0 /\ acks' = acks - 1
        BY <1>9 DEF AckLost
    <2> QED
        BY <1>1, <1>6, <2>1
<1> QED
    BY <1>3, <1>4, <1>5, <1>7, <1>8, <1>9 DEF Terminal

-----------------------------------------------------------------------------
(* Where a block lies.                                                      *)

\* The place in the block of the k-th byte of the image.
InBlock(k) == file.ota[Target] + k - dw.offset + 1

LEMMA PartByte ==
    ASSUME file \in Files, Target \in OTA_INDEX, Intact, rx.data \in Seq(Bytes),
           Len(rx.data) = BlockLen, dw.offset \in Nat,
           NEW x, x = Before(file, Target, dw.offset),
           NEW k \in x .. x + Len(PartOfImage) - 1
    PROVE  /\ InBlock(k) \in 1 .. BlockLen
           /\ PartOfImage[k - x + 1] = rx.data[InBlock(k)]
<1> DEFINE o == dw.offset
           b == file.ota[Target]
           l == file.len
           e == b + l
           q == rx.data
           p == PartOfImage
           j == InBlock(k)
<1>1. /\ o \in Nat /\ b \in Nat /\ l \in Nat /\ BlockLen \in Nat /\ BlockLen > 0
      /\ BlockLen < l /\ q \in Seq(Bytes) /\ Len(q) = BlockLen /\ e = b + l
    BY Lengths, FileFacts
<1>9. \A i \in 1 .. BlockLen : q[i] \in Bytes
    BY <1>1, ElementOfSeq
<1>2. x = IF o <= b THEN 0 ELSE IF o - b < l THEN o - b ELSE l
    BY BeforeIs
<1>3. p = IF b \in o .. o + BlockLen - 1 THEN SubSeq(q, b - o + 1, BlockLen)
          ELSE IF b < o /\ e \in o + 1 .. o + BlockLen - 1 THEN SubSeq(q, 1, e - o)
          ELSE IF b < o /\ o < e THEN q ELSE <<>>
    BY DEF PartOfImage, Begin, End, EndsHere, Intact
<1>4. j = b + k - o + 1 /\ k \in x .. x + Len(p) - 1
    BY DEF InBlock
<1> HIDE DEF o, b, l, e, q, p, j
<1>5. CASE b \in o .. o + BlockLen - 1
    <2> DEFINE m == b - o + 1
    <2>1. m \in 1 .. BlockLen /\ m \in Int /\ \A i \in m .. BlockLen : q[i] \in Bytes
        BY <1>1, <1>5, <1>9
    <2>2. p = SubSeq(q, m, BlockLen)
        BY <1>3, <1>5
    <2>3. x = 0
        BY <1>1, <1>2, <1>5
    <2>4. m = b - o + 1
        OBVIOUS
    <2> HIDE DEF m
    <2>5. /\ Len(p) = BlockLen - m + 1
          /\ \A i \in 1 .. BlockLen - m + 1 : p[i] = q[m + i - 1]
        BY <1>1, <2>1, <2>2, SubSeqProperties
    <2>6. k \in Int /\ k - x + 1 \in 1 .. BlockLen - m + 1
        BY <1>1, <1>4, <2>1, <2>3, <2>5
    <2>7. p[k - x + 1] = q[m + (k - x + 1) - 1]
        BY <2>5, <2>6
    <2>8. m + (k - x + 1) - 1 = j /\ j \in 1 .. BlockLen
        BY <1>1, <1>4, <2>1, <2>3, <2>4, <2>6
    <2> QED
        BY <2>7, <2>8 DEF p, q, j
<1>6. CASE b < o /\ e \in o + 1 .. o + BlockLen - 1
    <2>1. 1 \in Int /\ e - o \in 1 .. BlockLen - 1 /\ \A i \in 1 .. e - o : q[i] \in Bytes
        BY <1>1, <1>6, <1>9
    <2>2. p = SubSeq(q, 1, e - o)
        BY <1>1, <1>3, <1>6
    <2>3. x = o - b
        BY <1>1, <1>2, <1>6
    <2> DEFINE m == e - o
    <2>4. m \in 1 .. BlockLen - 1 /\ p = SubSeq(q, 1, m) /\ \A i \in 1 .. m : q[i] \in Bytes
        BY <2>1, <2>2
    <2> HIDE DEF m
    <2>5. Len(p) = m - 1 + 1 /\ \A i \in 1 .. m - 1 + 1 : p[i] = q[1 + i - 1]
        BY <1>1, <2>1, <2>4, SubSeqProperties
    <2>6. k \in Int /\ k - x + 1 \in 1 .. m - 1 + 1
        <3>1. Len(p) = m /\ m \in Int /\ x \in Int
            BY <1>1, <2>3, <2>4, <2>5
        <3>2. k \in x .. x + m - 1
            BY <1>4, <3>1
        <3> QED
            BY <3>1, <3>2
    <2>7. p[k - x + 1] = q[1 + (k - x + 1) - 1]
        BY <2>5, <2>6
    <2>8. 1 + (k - x + 1) - 1 = j /\ j \in 1 .. BlockLen
        <3>1. k - x + 1 = j
            BY <1>1, <1>4, <2>3, <2>6
        <3> QED
            BY <1>1, <2>4, <2>6, <3>1
    <2> QED
        BY <2>7, <2>8 DEF p, q, j
<1>7. CASE b < o /\ o < e /\ ~(e \in o + 1 .. o + BlockLen - 1)
    <2>1. p = q /\ x = o - b
        BY <1>1, <1>2, <1>3, <1>7
    <2>2. k - x + 1 = j /\ j \in 1 .. BlockLen
        BY <1>1, <1>4, <1>7, <2>1
    <2> QED
        BY <2>1, <2>2 DEF p, q, j
<1>8. CASE o >= e \/ b >= o + BlockLen
    <2>1. p = <<>>
        <3>1. ~(b \in o .. o + BlockLen - 1) /\ ~(b < o /\ o < e)
            <4>1. o \in Nat /\ b \in Nat /\ BlockLen \in Nat /\ e \in Nat /\ b < e
                BY <1>1
            <4>2. CASE o >= e
                BY <4>1, <4>2
            <4>3. CASE b >= o + BlockLen
                <5>1. BlockLen > 0
                    BY <1>1
                <5> QED
                    BY <4>1, <4>3, <5>1
            <4> QED
                BY <1>8, <4>2, <4>3
        <3>2. e \in o + 1 .. o + BlockLen - 1 => o < e
            BY <1>1
        <3> QED
            BY <1>3, <3>1, <3>2
    <2>2. x \in Nat /\ Len(p) = 0
        BY <1>1, <1>2, <2>1
    <2> QED
        BY <1>4, <2>2
<1> QED
    BY <1>1, <1>5, <1>6, <1>7, <1>8

\* The two parts are the part that was divided.
LEMMA DividedByte ==
    ASSUME PartOfImage \in Seq(Bytes), Len(dw.signature) \in Nat,
           Len(dw.signature) <= SigLen,
           NEW sig, sig = PartOfSignature, NEW data,
           data = SubSeq(PartOfImage, Len(sig) + 1, Len(PartOfImage)),
           Divided(PartOfImage, sig, data)
    PROVE  /\ \A i \in 1 .. Len(sig) : sig[i] = PartOfImage[i]
           /\ \A i \in 1 .. Len(data) : data[i] = PartOfImage[Len(sig) + i]
<1> DEFINE p == PartOfImage
           room == SigLen - Len(dw.signature)
           n == IF Len(p) <= room THEN Len(p) ELSE room
<1>1. /\ Len(p) \in Nat /\ room \in Nat /\ p \in Seq(Bytes)
      /\ \A i \in 1 .. Len(p) : p[i] \in Bytes
    BY Lengths, LenProperties, ElementOfSeq
<1>2. sig = <<>> \/ sig = SubSeq(p, 1, n)
    <2>1. Min({Len(p), room}) = n
        BY <1>1, MinOfTwo
    <2> QED
        BY <2>1 DEF PartOfSignature
<1>3. data = SubSeq(p, Len(sig) + 1, Len(p)) /\ sig \in Seq(Bytes) /\ data \in Seq(Bytes)
      /\ Len(sig) + Len(data) = Len(p)
    BY DEF Divided
<1> HIDE DEF p, room
<1>4. n \in 0 .. Len(p)
    BY <1>1
<1> HIDE DEF n
<1>5. \A i \in 1 .. Len(sig) : sig[i] = p[i]
    <2>1. CASE sig = <<>>
        <3>1. Len(sig) = 0
            BY <2>1
        <3> QED
            BY <3>1
    <2>2. CASE sig = SubSeq(p, 1, n)
        <3>1. 1 \in Int /\ n \in Int /\ \A i \in 1 .. n : p[i] \in Bytes
            BY <1>1, <1>4
        <3>2. /\ Len(sig) = IF 1 <= n THEN n - 1 + 1 ELSE 0
              /\ \A i \in 1 .. n - 1 + 1 : sig[i] = p[1 + i - 1]
            BY <2>2, <3>1, SubSeqProperties
        <3> SUFFICES ASSUME NEW i \in 1 .. Len(sig) PROVE sig[i] = p[i]
            OBVIOUS
        <3>3. i \in 1 .. n - 1 + 1 /\ 1 + i - 1 = i
            BY <1>4, <3>2
        <3>4. sig[i] = p[1 + i - 1]
            BY <3>2, <3>3
        <3> QED
            BY <3>3, <3>4
    <2> QED
        BY <1>2, <2>1, <2>2
<1>6. \A i \in 1 .. Len(data) : data[i] = p[Len(sig) + i]
    <2> DEFINE s == Len(sig)
               m == Len(p)
               a == s + 1
    <2>1. s \in Nat /\ Len(data) \in Nat /\ s + Len(data) = m /\ m \in Nat
        BY <1>1, <1>3, LenProperties
    <2>2. data = SubSeq(p, a, m)
        BY <1>3
    <2>3. a = s + 1 /\ \A i \in 1 .. m : p[i] \in Bytes
        BY <1>1
    <2> HIDE DEF s, m, a
    <2>4. a \in Int /\ m \in Int /\ \A i \in a .. m : p[i] \in Bytes
        BY <2>1, <2>3
    <2>5. \A i \in 1 .. m - a + 1 : data[i] = p[a + i - 1]
        <3>1. \A i \in 1 .. m - a + 1 : SubSeq(p, a, m)[i] = p[a + i - 1]
            BY <2>4, SubSeqProperties
        <3> QED
            BY <2>2, <3>1
    <2> SUFFICES ASSUME NEW i \in 1 .. Len(data) PROVE data[i] = p[s + i]
        BY DEF s
    <2>6. i \in 1 .. m - a + 1 /\ a + i - 1 = s + i
        BY <2>1, <2>3
    <2>7. data[i] = p[a + i - 1]
        BY <2>5, <2>6
    <2> QED
        BY <2>6, <2>7
<1> QED
    BY <1>5, <1>6 DEF p

\* A byte programmed where it was erased.
LEMMA ProgramGives ==
    ASSUME NEW cells \in [Cells -> Bytes], NEW from \in Nat, NEW bytes \in Seq(Bytes),
           \A k \in from .. from + Len(bytes) - 1 : cells[k] = Erased,
           \A k \in from .. from + Len(bytes) - 1 : k \in Cells
    PROVE  \A k \in from .. from + Len(bytes) - 1 :
               Program(cells, from, bytes)[k] = bytes[k - from + 1]
<1>1. DOMAIN cells = Cells
    OBVIOUS
<1>2. Program(cells, from, bytes) =
        [j \in Cells |-> IF j \in from .. from + Len(bytes) - 1
                         THEN IF cells[j] = Erased THEN bytes[j - from + 1] ELSE Overwritten
                         ELSE cells[j]]
    BY <1>1, Zenon DEF Program
<1> QED
    BY <1>2

\* Of a part of n and m bytes, behind s and w, the byte for place k.
LEMMA NextByte ==
    ASSUME NEW s \in Nat, NEW w \in Nat, NEW n \in Nat, NEW m \in Nat, w > 0 => n = 0,
           NEW x, s + w = x, NEW at, at = s + n + w, NEW k \in x .. x + (n + m) - 1
    PROVE  /\ k < s + n => /\ k + 1 \in 1 .. s + n /\ ~(k + 1 <= s)
                           /\ k + 1 - s \in 1 .. n /\ k + 1 - s = k - x + 1
           /\ ~(k < s + n) => /\ k \in at .. at + m - 1 /\ k - at + 1 \in 1 .. m
                              /\ n + (k - at + 1) = k - x + 1
<1>1. x \in Nat /\ at \in Nat /\ k \in Nat /\ x <= k /\ k < x + n + m
    OBVIOUS
<1>2. CASE w = 0
    BY <1>1, <1>2
<1>3. CASE w # 0
    <2>1. n = 0 /\ w > 0
        BY <1>3
    <2> QED
        BY <1>1, <2>1
<1> QED
    BY <1>2, <1>3

\* What has been taken stays, and the bytes of the block follow it.
Appended(d, to, cells, part, x) ==
    /\ \A k \in 0 .. x - 1 : Place(d, to, k) = Place(dw, cells, k)
    /\ \A k \in x .. x + Len(part) - 1 : Place(d, to, k) = part[k - x + 1]

\* Programming a block, cut where the signature ends, appends it.
LEMMA BlockPlaced ==
    ASSUME NEW part \in Seq(Bytes), NEW sig, NEW data, Divided(part, sig, data),
           \A i \in 1 .. Len(sig) : sig[i] = part[i],
           \A i \in 1 .. Len(data) : data[i] = part[Len(sig) + i],
           file \in Files, Target \in OTA_INDEX, TakenInv(file, Target, dw),
           dw.offset \in Nat, dw.written \in Nat, dw.signature \in Seq(Bytes),
           dw.written > 0 => Len(dw.signature) = SigLen,
           Before(file, Target, dw.offset) + Len(part)
               = Before(file, Target, dw.offset + BlockLen),
           NEW d, d.signature = dw.signature \o sig,
           NEW cells \in [Cells -> Bytes], BlankInv(file, dw, cells),
           NEW to, to = Program(cells, Len(dw.signature) + Len(sig) + dw.written, data),
           NEW x, x = Before(file, Target, dw.offset)
    PROVE  Appended(d, to, cells, part, x)
<1> DEFINE s0 == Len(dw.signature)
           w0 == dw.written
           sn == Len(sig)
           dn == Len(data)
           l == file.len
           at == s0 + sn + w0
<1>1. /\ s0 \in Nat /\ w0 \in Nat /\ sn \in Nat /\ dn \in Nat /\ l \in Nat
      /\ SigLen \in Nat /\ l <= SlotLen /\ SlotLen \in Nat
      /\ sig \in Seq(Bytes) /\ data \in Seq(Bytes) /\ sn + dn = Len(part)
    <2>1. s0 \in Nat /\ w0 \in Nat /\ sn \in Nat /\ dn \in Nat
        BY LenProperties DEF Divided
    <2> QED
        BY <2>1, Lengths, FileFacts DEF Divided
<1>2. s0 + w0 = x /\ x + (sn + dn) <= l
    <2>1. s0 + w0 = x
        BY DEF TakenInv
    <2>2. dw.offset + BlockLen \in Nat
        BY Lengths
    <2>3. Before(file, Target, dw.offset + BlockLen) <= l
        BY <2>2, BeforeBound
    <2>4. x + (sn + dn) = Before(file, Target, dw.offset + BlockLen)
        BY <1>1
    <2> QED
        BY <2>1, <2>3, <2>4
<1>3. w0 > 0 => s0 = SigLen /\ sn = 0
    <2>1. Begin < dw.offset /\ EndsHere => sn = 0
        BY DEF Divided
    <2>2. ~(Begin < dw.offset /\ EndsHere) => s0 + sn <= SigLen
        BY DEF Divided
    <2>3. w0 > 0 => s0 = SigLen
        OBVIOUS
    <2> HIDE DEF s0, w0, sn
    <2> QED
        BY <1>1, <2>1, <2>2, <2>3
<1>4. /\ Len(d.signature) = s0 + sn
      /\ \A i \in 1 .. s0 + sn :
            d.signature[i] = IF i <= s0 THEN dw.signature[i] ELSE sig[i - s0]
    BY <1>1, ConcatProperties
<1>5. \A k \in s0 + w0 .. l - 1 : cells[k] = Erased
    BY DEF BlankInv
<1>6. to = Program(cells, at, data) /\ at = s0 + sn + w0
    OBVIOUS
<1>7. /\ \A i \in 1 .. sn : sig[i] = part[i]
      /\ \A i \in 1 .. dn : data[i] = part[sn + i]
    OBVIOUS
<1>8. /\ \A k : Place(d, to, k) = IF k < s0 + sn THEN d.signature[k + 1] ELSE to[k]
      /\ \A k : Place(dw, cells, k) = IF k < s0 THEN dw.signature[k + 1] ELSE cells[k]
    BY <1>4 DEF Place
<1>9. dn = Len(data) /\ Len(part) = sn + dn
    BY <1>1
<1> HIDE DEF s0, w0, sn, dn, l, at
<1>10. at \in Nat /\ at + dn <= l /\ s0 + w0 <= at
    BY <1>1, <1>2, <1>6
<1>11. \A k \in at .. at + dn - 1 : cells[k] = Erased /\ k \in Cells
    <2> TAKE k \in at .. at + dn - 1
    <2>1. k \in s0 + w0 .. l - 1 /\ k \in Cells
        BY <1>1, <1>10 DEF Cells
    <2> QED
        BY <1>5, <2>1
<1>12. /\ \A k \in Cells : k \notin at .. at + dn - 1 => to[k] = cells[k]
       /\ \A k \in at .. at + dn - 1 : to[k] = data[k - at + 1]
    <2>1. /\ \A k \in at .. at + Len(data) - 1 : cells[k] = Erased
          /\ \A k \in at .. at + Len(data) - 1 : k \in Cells
        BY <1>9, <1>11
    <2>2. \A k \in Cells : k \notin at .. at + Len(data) - 1 => to[k] = cells[k]
        BY SMTT(30), <1>1, <1>6, <1>10, <2>1, ProgramBlank
    <2>3. \A k \in at .. at + Len(data) - 1 :
             Program(cells, at, data)[k] = data[k - at + 1]
        BY <1>1, <1>10, <2>1, ProgramGives
    <2> QED
        BY <1>6, <1>9, <2>2, <2>3
<1>13. ASSUME NEW k \in 0 .. x - 1
       PROVE  Place(d, to, k) = Place(dw, cells, k)
    <2>1. CASE k < s0
        <3>1. k + 1 \in 1 .. s0 + sn /\ k + 1 <= s0 /\ k < s0 + sn
            BY <1>1, <1>2, <2>1
        <3>2. d.signature[k + 1] = dw.signature[k + 1]
            BY <1>4, <3>1
        <3> QED
            BY <1>8, <2>1, <3>1, <3>2
    <2>2. CASE ~(k < s0)
        <3>1. w0 > 0 /\ sn = 0
            BY <1>1, <1>2, <1>3, <2>2
        <3>2. ~(k < s0 + sn) /\ k \in Cells /\ k \notin at .. at + dn - 1
            BY <1>1, <1>2, <1>6, <2>2, <3>1 DEF Cells
        <3>3. to[k] = cells[k]
            BY <1>12, <3>2
        <3> QED
            BY <1>8, <2>2, <3>2, <3>3
    <2> QED
        BY <2>1, <2>2
<1>14. ASSUME NEW k \in x .. x + (sn + dn) - 1
       PROVE  Place(d, to, k) = part[k - x + 1]
    <2> DEFINE i == k + 1 - s0
               j == k - at + 1
    <2>1. /\ k < s0 + sn => /\ k + 1 \in 1 .. s0 + sn /\ ~(k + 1 <= s0)
                            /\ i \in 1 .. sn /\ i = k - x + 1
          /\ ~(k < s0 + sn) => /\ k \in at .. at + dn - 1 /\ j \in 1 .. dn
                               /\ sn + j = k - x + 1
        BY SMTT(30), <1>1, <1>2, <1>3, <1>6, NextByte
    <2>2. CASE k < s0 + sn
        <3>1. sig[i] = part[i]
            BY <1>7, <2>1, <2>2
        <3>2. d.signature[k + 1] = sig[i]
            <4> DEFINE c == k + 1
            <4>1. c \in 1 .. s0 + sn /\ ~(c <= s0) /\ i = c - s0
                <5>1. k \in Int /\ s0 \in Int /\ sn \in Int
                    BY <1>1, <1>2
                <5> QED
                    BY <2>1, <2>2, <5>1
            <4> HIDE DEF c, i
            <4>2. d.signature[c] = sig[c - s0]
                BY <1>4, <4>1
            <4> QED
                BY <4>1, <4>2 DEF c
        <3> QED
            BY <1>8, <2>1, <2>2, <3>1, <3>2
    <2>3. CASE ~(k < s0 + sn)
        <3>1. to[k] = data[j] /\ data[j] = part[sn + j]
            BY <1>7, <1>12, <2>1, <2>3
        <3> QED
            BY <1>8, <2>1, <2>3, <3>1
    <2> QED
        BY <2>2, <2>3
<1> QED
    BY <1>9, <1>13, <1>14 DEF Appended

-----------------------------------------------------------------------------
(* The thread keeps the order.                                              *)

\* The byte for the k-th place of the image, in the block whose turn it is.
LEMMA BlockBytes ==
    ASSUME file \in Files, Target \in OTA_INDEX, nxt \in Nat, nxt >= 1,
           dw.offset = (nxt - 1) * BlockLen,
           NEW k \in 0 .. file.len - 1, InBlock(k) \in 1 .. BlockLen
    PROVE  Block(file, nxt)[InBlock(k)] = Served(file, file.ota[Target] + k)
<1> DEFINE o == file.ota[Target] + k
           v == (nxt - 1) * BlockLen
           w == Total(file)
           i == InBlock(k)
           at == v + i - 1
<1>1. o \in Nat /\ o < w /\ w \in Nat
    BY InFile, TotalBound
<1>2. v \in Nat
    <2>1. nxt - 1 \in Nat
        OBVIOUS
    <2> QED
        BY <2>1, BlockOffsets
<1>3. i = o - v + 1 /\ i \in 1 .. BlockLen /\ BlockLen \in Nat
    <2>1. i = o - v + 1
        <3> DEFINE b == file.ota[Target]
        <3>1. b \in Nat /\ k \in Int /\ v = dw.offset
            BY FileFacts
        <3> HIDE DEF b, v
        <3>2. b + (k - dw.offset) + 1 = (b + k) - v + 1
            BY <1>2, <3>1
        <3> QED
            BY <3>2 DEF InBlock, b
    <2>2. i \in 1 .. BlockLen /\ BlockLen \in Nat
        BY Lengths
    <2> QED
        BY Zenon, <2>1, <2>2
<1>4. Block(file, nxt)[i] = Byte(file, at)
    BY <1>3, BlockByte
<1> HIDE DEF o, v, w, i
<1>5. at = o
    BY <1>1, <1>2, <1>3
<1> HIDE DEF at
<1>6. Byte(file, at) = Served(file, o)
    BY <1>1, <1>5 DEF Byte, w
<1> QED
    BY <1>4, <1>6 DEF o, i

\* What was taken for the image so far, and what is taken with this block.
LEMMA ReceivedBlock ==
    ASSUME file \in Files, Target \in OTA_INDEX, nxt \in Nat, nxt >= 1,
           dw.offset = (nxt - 1) * BlockLen,
           NEW k \in 0 .. file.len - 1, NEW m \in [Nat -> Nat],
           \A n \in Nat : m[n] <= n, NEW j \in Nat, j <= nxt,
           NEW m1, m1 = [m EXCEPT ![nxt] = j]
    PROVE  LET o == file.ota[Target] + k
           IN  /\ k < Before(file, Target, dw.offset) =>
                      Received(file, m1)[o] = Received(file, m)[o]
               /\ InBlock(k) \in 1 .. BlockLen =>
                      Received(file, m1)[o] = Taken(file, j)[InBlock(k)]
<1> DEFINE b == file.ota[Target]
           o == b + k
           v == (nxt - 1) * BlockLen
           q == o \div BlockLen
<1>1. o \in 0 .. Total(file) - 1 /\ o \in Nat /\ k \in Nat /\ b \in Nat /\ file.len \in Nat
    BY InFile, FileFacts
<1>2. nxt - 1 \in Nat /\ v \in Nat /\ BlockLen \in Nat /\ BlockLen > 0
    <2>1. nxt - 1 \in Nat
        OBVIOUS
    <2> QED
        BY <2>1, BlockOffsets, Lengths
<1>3. m1 \in [Nat -> Nat] /\ m1[nxt] = j /\ \A n \in Nat \ {nxt} : m1[n] = m[n]
    OBVIOUS
<1>4. q \in Nat /\ q + 1 \in Nat
    BY <1>1, <1>2
<1>5. m1[q + 1] \in Nat /\ m1[q + 1] <= q + 1 /\ m[q + 1] \in Nat /\ m[q + 1] <= q + 1
    <2> HIDE DEF q
    <2> QED
        BY <1>3, <1>4
<1>6. /\ Received(file, m1)[o] = Taken(file, m1[q + 1])[(o % BlockLen) + 1]
      /\ Received(file, m)[o] = Taken(file, m[q + 1])[(o % BlockLen) + 1]
    <2> DEFINE n == q + 1
    <2>1. n = (o \div BlockLen) + 1 /\ o \in 0 .. Total(file) - 1
        BY <1>1
    <2>2. m1[n] \in Nat /\ m1[n] <= n /\ m[n] \in Nat /\ m[n] <= n
        BY <1>5
    <2> HIDE DEF n, o
    <2>3. Received(file, m1)[o] = Taken(file, m1[n])[(o % BlockLen) + 1]
        BY <2>1 DEF Received
    <2>4. Received(file, m)[o] = Taken(file, m[n])[(o % BlockLen) + 1]
        BY <2>1 DEF Received
    <2> QED
        BY <2>3, <2>4 DEF n
<1>7. ASSUME k < Before(file, Target, dw.offset)
      PROVE  Received(file, m1)[o] = Received(file, m)[o]
    <2>1. o < v
        <3> DEFINE l == file.len
        <3>1. Before(file, Target, v) = IF v <= b THEN 0 ELSE IF v - b < l THEN v - b ELSE l
            BY BeforeIs
        <3>2. k < IF v <= b THEN 0 ELSE IF v - b < l THEN v - b ELSE l
            BY <1>7, <3>1
        <3>3. l \in Nat
            BY <1>1
        <3> HIDE DEF b, v, l
        <3> QED
            BY <1>1, <1>2, <3>2, <3>3
    <2>2. q < nxt - 1
        <3> HIDE DEF o
        <3> QED
            BY <1>1, <1>2, <2>1, BlockBefore
    <2> HIDE DEF q
    <2>3. q + 1 # nxt
        BY <1>4, <2>2
    <2> QED
        BY <1>3, <1>4, <1>6, <2>3
<1>8. ASSUME InBlock(k) \in 1 .. BlockLen
      PROVE  Received(file, m1)[o] = Taken(file, j)[InBlock(k)]
    <2> DEFINE r == InBlock(k) - 1
    <2>1. InBlock(k) = b + k - v + 1
        BY DEF InBlock
    <2>2. r \in 0 .. BlockLen - 1 /\ o = v + r /\ r + 1 = InBlock(k)
        <3> DEFINE i == InBlock(k)
        <3>1. i \in 1 .. BlockLen /\ i = b + k - v + 1
            BY <1>8, <2>1
        <3> HIDE DEF i, b, v
        <3>2. i - 1 \in 0 .. BlockLen - 1 /\ b + k = v + (i - 1) /\ (i - 1) + 1 = i
            BY <1>1, <1>2, <3>1
        <3> QED
            BY <3>2 DEF i
    <2> HIDE DEF r
    <2>3. q = nxt - 1 /\ o % BlockLen = r
        BY <1>2, <2>2, Quotient
    <2>4. q + 1 = nxt
        BY <2>3
    <2> QED
        BY <1>3, <1>6, <2>2, <2>3, <2>4
<1> QED
    BY <1>7, <1>8

\* The rest begins when the signature is complete.
LEMMA SignatureFull ==
    ASSUME file \in Files, Target \in OTA_INDEX, Intact, dw.offset \in Nat, dw.written \in Nat,
           dw.signature \in Seq(Bytes), TakenInv(file, Target, dw),
           dw.written > 0 => Len(dw.signature) = SigLen,
           NEW part, NEW sig, NEW data, Divided(part, sig, data),
           NEW d, d.signature = dw.signature \o sig, d.written = dw.written + Len(data)
    PROVE  d.written > 0 => Len(d.signature) = SigLen
<1> DEFINE s == Len(dw.signature)
           sn == Len(sig)
           dn == Len(data)
           w == dw.written
           x == Before(file, Target, dw.offset)
           b == file.ota[Target]
           o == dw.offset
           l == file.len
           e == b + l
<1>1. /\ s \in Nat /\ sn \in Nat /\ dn \in Nat /\ w \in Nat /\ SigLen \in Nat
      /\ o \in Nat /\ b \in Nat /\ l \in Nat /\ BlockLen \in Nat
    BY LenProperties, Lengths, FileFacts DEF Divided
<1>2. Len(d.signature) = s + sn /\ d.written = w + dn
    BY ConcatProperties DEF Divided
<1>3. s <= SigLen /\ s + w = x /\ (w > 0 => s = SigLen)
    BY DEF TakenInv
<1>4. x = IF o <= b THEN 0 ELSE IF o - b < l THEN o - b ELSE l
    BY BeforeIs
<1>5. BlockLen + SigLen <= l + 1 /\ e = b + l
    BY YModemAssumption
<1>6. IF b < o /\ e \in o + 1 .. o + BlockLen - 1 THEN sn = 0
      ELSE s + sn <= SigLen /\ (dn > 0 => s + sn = SigLen)
    BY DEF Divided, Begin, End, EndsHere, Intact
<1> HIDE DEF s, sn, dn, w, x, b, o, l, e
<1>7. CASE b < o /\ e \in o + 1 .. o + BlockLen - 1
    <2>1. o - b < l /\ x = o - b
        BY <1>1, <1>4, <1>5, <1>7
    <2>2. x >= SigLen
        BY <1>1, <1>5, <1>7, <2>1
    <2>3. s = SigLen
        BY <1>1, <1>3, <2>2
    <2> QED
        BY <1>1, <1>2, <1>6, <1>7, <2>3
<1>8. CASE ~(b < o /\ e \in o + 1 .. o + BlockLen - 1)
    <2>1. s + sn <= SigLen /\ (dn > 0 => s + sn = SigLen)
        BY <1>6, <1>8
    <2>2. w + dn > 0 => s + sn = SigLen
        BY <1>1, <1>3, <2>1
    <2> QED
        BY <1>2, <2>2
<1> QED
    BY <1>7, <1>8

\* The steps that leave the line alone.
LEMMA LineSame ==
    ASSUME OrderInv, UNCHANGED <<nxt, file, line>>,
           pc \in {"signature", "clear", "sign", "exit"} =>
               pc' \in {"signature", "clear", "sign", "exit"},
           pc' \in {"erase", "eraseRdp", "write"} \/ dw'.hd =>
               pc \in {"erase", "eraseRdp", "write"} \/ dw.hd
    PROVE  BehindInv' /\ InTurnInv'
<1>1. BehindInv /\ InTurnInv /\ UNCHANGED <<rx, snd, acks, harmed, nxt, file>>
    BY DEF OrderInv, line
<1>2. BehindInv'
    BY <1>1 DEF BehindInv
<1>3. InTurnInv'
    BY <1>1 DEF InTurnInv, LastBlock
<1> QED
    BY <1>2, <1>3

\* A block that is written extends what has passed.
LEMMA WriteBlockPassed ==
    ASSUME Inv, OrderInv, WriteBlock, Intact
    PROVE  PassedInv'
<1> DEFINE sig == PartOfSignature
           part == PartOfImage
           data == SubSeq(part, Len(sig) + 1, Len(part))
           at == Len(dw.signature) + Len(sig) + dw.written
           cells == slot[Target]
           to == Program(cells, at, data)
           d == [dw EXCEPT !.offset = @ + BlockLen, !.written = @ + Len(data),
                           !.signature = @ \o sig]
           x == Before(file, Target, dw.offset)
           y == Before(file, Target, dw.offset + BlockLen)
<1>1. /\ pc = "write" /\ pc' = "crc" /\ slot' = [slot EXCEPT ![Target] = to] /\ dw' = d
      /\ UNCHANGED <<rdp, ota2Set, boot, cur, nxt, step, file, line>>
    BY DEF WriteBlock
<1>2. /\ Types /\ WorkInv /\ ThreadInv /\ Target \in OTA_INDEX
      /\ file \in Files /\ cells \in [Cells -> Bytes]
    BY <1>1, ThreadFacts DEF Inv
<1>3. /\ rx.data \in Seq(Bytes) /\ Len(rx.data) = BlockLen /\ rx.kind = "block"
      /\ dw \in Downloads
      /\ dw.offset \in Nat /\ dw.written \in Nat /\ dw.signature \in Seq(Bytes)
      /\ rx.no \in Nat /\ nxt \in Nat
    BY <1>1, <1>2 DEF Types, WorkInv, FrameType, Downloads
<1>4. dw.hd /\ TakenInv(file, Target, dw) /\ BlankInv(file, dw, cells)
    BY <1>1, <1>2 DEF ThreadInv
<1>5. /\ part \in Seq(Bytes) /\ x + Len(part) = y
      /\ x \in Nat /\ Len(part) \in Nat
    <2>1. part \in Seq(Bytes) /\ x + Len(part) = y
        BY <1>2, <1>3, PartResult
    <2> QED
        BY <1>2, <1>3, <2>1, BeforeBound, LenProperties
<1>6. Divided(part, sig, data)
    BY <1>3, <1>4, <1>5, DividedResult DEF TakenInv
<1>7. /\ \A i \in 1 .. Len(sig) : sig[i] = part[i]
      /\ \A i \in 1 .. Len(data) : data[i] = part[Len(sig) + i]
    <2>1. Len(dw.signature) \in Nat /\ Len(dw.signature) <= SigLen
        BY <1>3, <1>4, LenProperties DEF TakenInv
    <2> QED
        BY <1>5, <1>6, <2>1, DividedByte
<1>8. \A k \in x .. y - 1 : InBlock(k) \in 1 .. BlockLen
                            /\ part[k - x + 1] = rx.data[InBlock(k)]
    <2>1. \A k \in x .. x + Len(part) - 1 : InBlock(k) \in 1 .. BlockLen
                            /\ part[k - x + 1] = rx.data[InBlock(k)]
        BY <1>2, <1>3, PartByte
    <2>2. x + Len(part) = y /\ x \in Nat /\ Len(part) \in Nat
        BY <1>5
    <2> HIDE DEF x, y, part
    <2> QED
        BY <2>1, <2>2
<1>9. Len(data) \in Nat /\ sig \in Seq(Bytes) /\ BlockLen \in Nat
    BY <1>6, Lengths, LenProperties DEF Divided
<1>10. /\ x \in Nat /\ y \in Nat /\ y <= file.len
    <2>1. dw.offset + BlockLen \in Nat
        BY <1>3, <1>9
    <2> QED
        BY <1>2, <1>3, <2>1, BeforeBound
<1>11. /\ TurnInv /\ BehindInv /\ InTurnInv /\ PassedInv
       /\ dw.written > 0 => Len(dw.signature) = SigLen
    BY <1>4 DEF OrderInv, PassedInv
<1> HIDE DEF sig, data, part
<1>12. /\ d.hd = dw.hd /\ d.offset = dw.offset + BlockLen
       /\ d.written = dw.written + Len(data) /\ d.signature = dw.signature \o sig
    BY <1>3, <1>9 DEF Downloads
<1>13. to = Program(cells, at, data)
    OBVIOUS
<1> HIDE DEF at, to, d, cells, x, y
<1>14. /\ \A k \in 0 .. x - 1 : Place(d, to, k) = Place(dw, cells, k)
       /\ \A k \in x .. x + Len(part) - 1 : Place(d, to, k) = part[k - x + 1]
    <2>1. Appended(d, to, cells, part, x)
        <3>1. /\ Divided(part, sig, data) /\ part \in Seq(Bytes) /\ file \in Files
              /\ Target \in OTA_INDEX /\ TakenInv(file, Target, dw)
              /\ BlankInv(file, dw, cells)
              /\ dw.offset \in Nat /\ dw.written \in Nat /\ dw.signature \in Seq(Bytes)
              /\ dw.written > 0 => Len(dw.signature) = SigLen
              /\ d.signature = dw.signature \o sig /\ cells \in [Cells -> Bytes]
            BY <1>2, <1>3, <1>4, <1>5, <1>6, <1>11, <1>12
        <3>2. /\ x = Before(file, Target, dw.offset)
              /\ Before(file, Target, dw.offset) + Len(part)
                   = Before(file, Target, dw.offset + BlockLen)
              /\ to = Program(cells, Len(dw.signature) + Len(sig) + dw.written, data)
            BY <1>5, <1>13 DEF x, y, at
        <3> QED
            BY <1>7, <3>1, <3>2, BlockPlaced
    <2> QED
        BY <2>1 DEF Appended
<1>15. \A k \in x .. y - 1 : Place(d, to, k) = rx.data[InBlock(k)]
    <2> TAKE k \in x .. y - 1
    <2>1. k \in x .. x + Len(part) - 1
        BY <1>5
    <2> QED
        BY <1>8, <1>14, <2>1
<1>16. d.written > 0 => Len(d.signature) = SigLen
    BY <1>2, <1>3, <1>4, <1>6, <1>11, <1>12, SignatureFull
<1>17. nxt >= 1 /\ dw.offset = (nxt - 1) * BlockLen
    BY <1>1, <1>4, <1>11 DEF TurnInv
<1>18. rx.no >= 1 /\ rx.no <= nxt /\ (rx.crc => rx.data = Block(file, rx.no))
    BY <1>1, <1>3, <1>11 DEF BehindInv
<1>19. ASSUME NEW k \in 0 .. y - 1
       PROVE  k \in 0 .. file.len - 1 /\ (k \in x .. y - 1 => InBlock(k) \in 1 .. BlockLen)
    <2>1. file.len \in Nat
        BY <1>2, FileFacts
    <2> QED
        BY <1>8, <1>10, <2>1
<1>20. \A k \in 0 .. y - 1 : k \in 0 .. x - 1 \/ k \in x .. y - 1
    BY <1>10
<1>21. ASSUME rx.crc \/ rx.data = Zeros
       PROVE  \E m1 \in [Nat -> Nat] :
                 /\ \A n \in Nat : m1[n] <= n
                 /\ \A k \in 0 .. y - 1 :
                       Place(d, to, k) = Received(file, m1)[file.ota[Target] + k]
    <2> DEFINE j == IF rx.data = Zeros THEN 0 ELSE rx.no
    <2>1. j \in Nat /\ j <= nxt /\ rx.data = Taken(file, j)
        BY <1>3, <1>17, <1>18, <1>21 DEF Taken
    <2> HIDE DEF j
    <2>2. PICK m \in [Nat -> Nat] :
             /\ \A n \in Nat : m[n] <= n
             /\ \A k \in 0 .. x - 1 :
                   Place(dw, cells, k) = Received(file, m)[file.ota[Target] + k]
        BY <1>1, <1>4, <1>11 DEF PassedInv, x, cells
    <2> DEFINE m1 == [m EXCEPT ![nxt] = j]
    <2>3. m1 \in [Nat -> Nat] /\ \A n \in Nat : m1[n] <= n
        BY <1>3, <2>1, <2>2
    <2>4. m1 = [m EXCEPT ![nxt] = j]
        OBVIOUS
    <2> HIDE DEF m1
    <2>5. ASSUME NEW k \in 0 .. y - 1
          PROVE  Place(d, to, k) = Received(file, m1)[file.ota[Target] + k]
        <3>1. /\ k < x => Received(file, m1)[file.ota[Target] + k]
                              = Received(file, m)[file.ota[Target] + k]
              /\ InBlock(k) \in 1 .. BlockLen =>
                    Received(file, m1)[file.ota[Target] + k] = Taken(file, j)[InBlock(k)]
            <4>1. k \in 0 .. file.len - 1
                BY <1>19
            <4>2. /\ m \in [Nat -> Nat] /\ \A n \in Nat : m[n] <= n
                BY <2>2
            <4>3. LET o == file.ota[Target] + k
                  IN  /\ k < Before(file, Target, dw.offset) =>
                             Received(file, m1)[o] = Received(file, m)[o]
                      /\ InBlock(k) \in 1 .. BlockLen =>
                             Received(file, m1)[o] = Taken(file, j)[InBlock(k)]
                BY <1>2, <1>3, <1>17, <2>1, <2>4, <4>1, <4>2, ReceivedBlock
            <4> QED
                BY <4>3 DEF x
        <3>2. CASE k \in 0 .. x - 1
            <4>1. k < x
                BY <1>10, <3>2
            <4> QED
                BY <1>14, <2>2, <3>1, <3>2, <4>1
        <3>3. CASE k \in x .. y - 1
            BY <1>15, <1>19, <2>1, <3>1, <3>3
        <3> QED
            BY <1>20, <3>2, <3>3
    <2> QED
        BY <2>3, <2>5
<1>22. ASSUME ~harmed, NEW k \in 0 .. y - 1
       PROVE  Place(d, to, k) = Served(file, file.ota[Target] + k)
    <2>1. CASE k \in 0 .. x - 1
        <3>1. Place(dw, cells, k) = Served(file, file.ota[Target] + k)
            BY <1>1, <1>4, <1>11, <1>22, <2>1 DEF PassedInv, x, cells
        <3> QED
            BY <1>14, <2>1, <3>1
    <2>2. CASE k \in x .. y - 1
        <3>1. rx.data = Block(file, nxt)
            BY <1>3, <1>11, <1>22 DEF InTurnInv
        <3>2. Block(file, nxt)[InBlock(k)] = Served(file, file.ota[Target] + k)
            BY <1>2, <1>3, <1>17, <1>19, <2>2, BlockBytes
        <3> QED
            BY <1>15, <2>2, <3>1, <3>2
    <2> QED
        BY <1>20, <2>1, <2>2
<1>23. /\ Target' = Target /\ file' = file /\ dw' = d /\ pc' = "crc" /\ rx' = rx
       /\ harmed' = harmed /\ nxt' = nxt
    BY <1>1 DEF Target, line
<1>24. slot'[Target] = to /\ Before(file, Target, d.offset) = y
    <2>1. slot' = [slot EXCEPT ![Target] = to] /\ Target \in DOMAIN slot
        BY <1>1, <1>2 DEF Types
    <2> QED
        BY <1>12, <2>1 DEF y
<1>25. dw'.written > 0 => Len(dw'.signature) = SigLen
    BY <1>16, <1>23
<1>26. rx'.crc \/ rx'.data = Zeros =>
         \E m \in [Nat -> Nat] :
            /\ \A n \in Nat : m[n] <= n
            /\ \A k \in 0 .. Before(file', Target', dw'.offset) - 1 :
                  Place(dw', slot'[Target'], k)
                      = Received(file', m)[file'.ota[Target'] + k]
    BY <1>21, <1>23, <1>24
<1>27. ~harmed' =>
         \A k \in 0 .. Before(file', Target', dw'.offset) - 1 :
             Place(dw', slot'[Target'], k) = Served(file', file'.ota[Target'] + k)
    BY <1>22, <1>23, <1>24
<1> QED
    BY <1>23, <1>25, <1>26, <1>27 DEF PassedInv, Zeros

LEMMA WriteBlockOrder ==
    ASSUME Inv, OrderInv, WriteBlock
    PROVE  OrderInv'
<1>1. /\ pc = "write" /\ pc' = "crc" /\ dw'.hd = dw.hd /\ dw'.len = dw.len
      /\ dw'.begin = dw.begin /\ dw'.offset = dw.offset + BlockLen
      /\ UNCHANGED <<rdp, ota2Set, boot, cur, nxt, step, file, line>>
    BY DEF WriteBlock, Inv, Types, Downloads
<1>2. dw.hd /\ TurnInv /\ nxt \in Nat
    BY <1>1 DEF OrderInv, Inv, Types, ThreadInv
<1>3. nxt >= 1 /\ dw.offset = (nxt - 1) * BlockLen
    BY <1>1, <1>2 DEF TurnInv
<1>4. TurnInv'
    <2>1. nxt - 1 \in Nat /\ (nxt - 1) + 1 = nxt
        BY <1>2, <1>3
    <2>2. nxt * BlockLen = (nxt - 1) * BlockLen + BlockLen
        BY <2>1, BlockOffsets
    <2> QED
        BY <1>1, <1>2, <1>3, <2>2 DEF TurnInv
<1>5. BehindInv' /\ InTurnInv'
    BY <1>1, LineSame
<1>6. PassedInv'
    <2>1. Intact' = Intact
        BY <1>1 DEF Intact, Target
    <2> QED
        BY <2>1, WriteBlockPassed DEF PassedInv
<1>7. EndInv'
    BY <1>1 DEF EndInv
<1> QED
    BY <1>4, <1>5, <1>6, <1>7 DEF OrderInv

\* The thread ends, or the power is lost.
LEMMA ExitOrder ==
    ASSUME Exit
    PROVE  OrderInv'
<1>1. /\ pc' = "idle" /\ rx' = NoFrame /\ nxt' = 0 /\ dw' = NoDownload /\ acks' = 0
      /\ snd' = [n |-> 0, state |-> "off"]
    BY DEF Exit
<1>2. /\ rx'.kind = "none" /\ ~dw'.hd /\ snd'.n = 0 /\ snd'.state = "off"
    BY <1>1, FixedFrames DEF NoDownload
<1>3. TurnInv' /\ BehindInv'
    BY <1>1, <1>2 DEF TurnInv, BehindInv
<1>4. InTurnInv' /\ PassedInv' /\ EndInv'
    BY <1>1, <1>2 DEF InTurnInv, PassedInv, EndInv
<1> QED
    BY <1>3, <1>4 DEF OrderInv

LEMMA UartYmodemOrder ==
    ASSUME Inv, OrderInv, NEW f \in Files \cup {NoFile}, UartYmodem(f)
    PROVE  OrderInv'
<1>1. /\ pc = "idle" /\ pc' = "hello"
      /\ snd' = [n |-> 0, state |-> IF f = NoFile THEN "off" ELSE "send"]
      /\ UNCHANGED <<flash, cur, rx, late, nxt, dw, step, acks, faults, harmed>>
    BY DEF UartYmodem
<1>2. rx.kind = "none" /\ ~dw.hd /\ nxt = 0 /\ acks \in Nat /\ acks <= 0
    <2>1. rx.kind = "none" /\ ~dw.hd /\ snd.n \in Nat /\ acks \in Nat
        BY <1>1 DEF Inv, Types, FileInv, ThreadInv
    <2>2. nxt = 0 /\ snd.n + acks <= nxt
        BY <1>1 DEF OrderInv, TurnInv, BehindInv
    <2> QED
        BY <2>1, <2>2
<1>3. TurnInv'
    BY <1>1, <1>2 DEF TurnInv
<1>4. BehindInv'
    BY <1>1, <1>2 DEF BehindInv
<1>5. InTurnInv' /\ PassedInv' /\ EndInv'
    BY <1>1, <1>2 DEF InTurnInv, PassedInv, EndInv
<1> QED
    BY <1>3, <1>4, <1>5 DEF OrderInv

\* A step on the way to the next block, or from the last one, that writes nothing.
LEMMA PassedSame ==
    ASSUME OrderInv, UNCHANGED <<slot, cur, dw, file, harmed>>,
           pc' \in {"frame", "write", "signature"} \/ (pc' = "crc" /\ (rx'.crc \/ rx'.data = Zeros))
               => pc \in {"frame", "write", "signature"} \/ (pc = "crc" /\ (rx.crc \/ rx.data = Zeros)),
           pc' \in {"frame", "write", "crc", "signature"} =>
               pc \in {"frame", "write", "crc", "signature"}
    PROVE  PassedInv'
<1>1. Target' = Target /\ Zeros' = Zeros /\ Intact' = Intact
    BY DEF Target, Zeros, Intact
<1>2. PassedInv
    BY DEF OrderInv
<1> QED
    BY <1>1, <1>2 DEF PassedInv

LEMMA TakeBlockOrder ==
    ASSUME Inv, OrderInv, TakeBlock
    PROVE  OrderInv'
<1>1. /\ pc \in {"hello", "frame"}
      /\ pc' = IF nxt = 0 THEN "crc" ELSE IF dw.hd THEN "write" ELSE "header"
      /\ UNCHANGED <<flash, cur, nxt, dw, step, file, line>>
    BY DEF TakeBlock
<1>2. TurnInv /\ nxt \in Nat /\ (dw.hd => pc = "frame")
    BY <1>1 DEF OrderInv, Inv, Types, ThreadInv
<1>3. TurnInv'
    <2>1. CASE nxt = 0
        <3>1. pc' = "crc" /\ ~dw.hd
            BY <1>1, <1>2, <2>1 DEF TurnInv
        <3> QED
            BY <1>1, <2>1, <3>1 DEF TurnInv
    <2>2. CASE nxt # 0 /\ dw.hd
        <3>1. pc' = "write" /\ nxt >= 1 /\ dw.offset = (nxt - 1) * BlockLen
            BY <1>1, <1>2, <2>2 DEF TurnInv
        <3> QED
            BY <1>1, <2>2, <3>1 DEF TurnInv
    <2>3. CASE nxt # 0 /\ ~dw.hd
        <3>1. pc' = "header" /\ nxt = 1
            <4>1. nxt <= 1
                BY <1>2, <2>3 DEF TurnInv
            <4> QED
                BY <1>1, <1>2, <2>3, <4>1
        <3> QED
            BY <1>1, <2>3, <3>1 DEF TurnInv
    <2> QED
        BY <2>1, <2>2, <2>3
<1>4. BehindInv' /\ InTurnInv'
    BY <1>1, LineSame
<1>5. PassedInv'
    <2>1. CASE dw.hd
        BY <1>1, <1>2, <2>1, PassedSame DEF flash, line
    <2>2. CASE ~dw.hd
        BY <1>1, <2>2 DEF PassedInv
    <2> QED
        BY <2>1, <2>2
<1>6. EndInv'
    BY <1>1 DEF EndInv
<1> QED
    BY <1>3, <1>4, <1>5, <1>6 DEF OrderInv

LEMMA TakeHeaderOrder ==
    ASSUME Inv, OrderInv, TakeHeader
    PROVE  OrderInv'
<1>1. /\ pc = "header" /\ pc' = "erase" /\ rx.no = 1
      /\ UNCHANGED <<slot, rdp, boot, cur, nxt, step, file, line>>
    BY DEF TakeHeader, HeaderArrived, HeaderAltered
<1>2. TurnInv /\ BehindInv /\ InTurnInv /\ snd.n \in Nat /\ ~dw.hd /\ rx.kind = "block"
      /\ dw'.hd = dw.hd
    BY <1>1 DEF OrderInv, Inv, Types, ThreadInv, WorkInv, TakeHeader, Downloads
<1>3. TurnInv'
    BY <1>1, <1>2 DEF TurnInv
<1>4. UNCHANGED <<rx, snd, acks, harmed, nxt, file>>
    BY <1>1 DEF line
<1>5. BehindInv'
    <2>1. snd.state # "off" => snd.n >= 1
        BY <1>1, <1>2 DEF BehindInv
    <2>2. snd.n + acks <= nxt
        BY <1>1, <1>2 DEF BehindInv
    <2> QED
        BY <1>1, <1>2, <1>4, <2>1, <2>2 DEF BehindInv
<1>6. InTurnInv'
    BY <1>2, <1>4 DEF InTurnInv, LastBlock
<1>7. PassedInv' /\ EndInv'
    BY <1>1, <1>2 DEF PassedInv, EndInv
<1> QED
    BY <1>3, <1>5, <1>6, <1>7 DEF OrderInv

LEMMA EraseSectorOrder ==
    ASSUME Inv, OrderInv, EraseSector
    PROVE  OrderInv'
<1>1. /\ pc = "erase" /\ pc' \in {"erase", "eraseRdp"}
      /\ UNCHANGED <<cur, nxt, dw, file, line>>
    BY DEF EraseSector
<1>2. TurnInv /\ ~dw.hd
    BY <1>1 DEF OrderInv, Inv, ThreadInv
<1>3. TurnInv'
    BY <1>1, <1>2 DEF TurnInv
<1>4. BehindInv' /\ InTurnInv'
    BY <1>1, LineSame
<1>5. PassedInv' /\ EndInv'
    BY <1>1, <1>2 DEF PassedInv, EndInv
<1> QED
    BY <1>3, <1>4, <1>5 DEF OrderInv

LEMMA EraseRdpOrder ==
    ASSUME Inv, OrderInv, EraseRdp
    PROVE  OrderInv'
<1>1. /\ pc = "eraseRdp" /\ pc' = "write" /\ dw' = [dw EXCEPT !.hd = TRUE]
      /\ UNCHANGED <<slot, cur, nxt, file, line>>
    BY DEF EraseRdp
<1>2. /\ nxt = 1 /\ dw \in Downloads /\ dw.offset = 0 /\ dw.written = 0
      /\ file \in Files /\ Target \in OTA_INDEX
    BY <1>1, ThreadFacts DEF OrderInv, TurnInv, Types, ThreadInv
<1>3. dw'.hd /\ dw'.offset = 0 /\ dw'.written = 0
    BY <1>1, <1>2 DEF Downloads
<1>4. Target' = Target /\ Before(file', Target', dw'.offset) = 0
    <2>1. file.ota[Target] \in Nat
        BY <1>2, FileFacts
    <2>2. Target' = Target
        BY <1>1 DEF Target
    <2> QED
        BY <1>1, <1>3, <2>1, <2>2 DEF Before
<1>5. TurnInv'
    <2>1. (1 - 1) * BlockLen = 0
        BY Lengths
    <2> QED
        BY <1>1, <1>2, <1>3, <2>1 DEF TurnInv
<1>6. BehindInv' /\ InTurnInv'
    BY <1>1, LineSame
<1>7. PassedInv'
    <2>1. 0 .. 0 - 1 = {}
        OBVIOUS
    <2> DEFINE m == [n \in Nat |-> 0]
    <2>2. m \in [Nat -> Nat] /\ \A n \in Nat : m[n] <= n
        OBVIOUS
    <2> HIDE DEF m
    <2>3. ~(dw'.written > 0) /\ 0 .. Before(file', Target', dw'.offset) - 1 = {}
        BY <1>3, <1>4, <2>1
    <2>4. \E n \in [Nat -> Nat] :
             /\ \A i \in Nat : n[i] <= i
             /\ \A k \in 0 .. Before(file', Target', dw'.offset) - 1 :
                   Place(dw', slot'[Target'], k)
                       = Received(file', n)[file'.ota[Target'] + k]
        BY <2>2, <2>3
    <2> QED
        BY <2>3, <2>4 DEF PassedInv
<1>8. EndInv'
    BY <1>1 DEF EndInv
<1> QED
    BY <1>5, <1>6, <1>7, <1>8 DEF OrderInv

LEMMA StartNextRoundOrder ==
    ASSUME Inv, OrderInv, StartNextRound
    PROVE  OrderInv'
<1>1. /\ pc = "crc" /\ pc' = "frame" /\ nxt' = nxt + 1 /\ acks' = acks + 1 /\ CrcFits
      /\ rx' \in {NoFrame, BadFrame, EotFrame(0)}
      /\ harmed' = (harmed \/ rx' # NoFrame)
      /\ UNCHANGED <<flash, cur, dw, step, file, snd>>
    BY DEF StartNextRound
<1>2. /\ TurnInv /\ BehindInv /\ PassedInv /\ nxt \in Nat /\ acks \in Nat /\ snd.n \in Nat
      /\ harmed \in BOOLEAN
    BY DEF OrderInv, Inv, Types
<1>3. rx'.kind # "block" /\ (~harmed' => ~harmed /\ rx'.kind = "none")
    BY <1>1, <1>2, FixedFrames
<1>4. TurnInv'
    <2>1. (nxt + 1) - 1 = nxt /\ nxt + 1 >= 1
        BY <1>2
    <2>2. dw.hd => dw.offset = nxt * BlockLen
        BY <1>1, <1>2 DEF TurnInv
    <2>3. ~dw.hd => nxt = 0
        BY <1>1, <1>2 DEF TurnInv
    <2> QED
        BY <1>1, <2>1, <2>2, <2>3 DEF TurnInv
<1>5. BehindInv'
    <2>1. snd'.n + acks' <= nxt'
        BY <1>1, <1>2 DEF BehindInv
    <2>2. dw.hd => (snd.state # "off" => snd.n >= 1)
        BY <1>2 DEF BehindInv
    <2> QED
        BY <1>1, <1>3, <2>1, <2>2 DEF BehindInv
<1>6. InTurnInv'
    BY <1>3 DEF InTurnInv
<1>7. PassedInv'
    <2>1. rx.crc \/ rx.data = Zeros
        BY <1>1 DEF CrcFits
    <2>2. Target' = Target /\ slot' = slot /\ Intact' = Intact
        BY <1>1 DEF Target, flash, Intact
    <2> QED
        BY <1>1, <1>2, <1>3, <2>1, <2>2 DEF PassedInv
<1>8. EndInv'
    BY <1>1 DEF EndInv
<1> QED
    BY <1>4, <1>5, <1>6, <1>7, <1>8 DEF OrderInv

\* An undisturbed transmission ends when the whole image has gone by.
LEMMA EndReached ==
    ASSUME Inv, OrderInv, ~harmed, rx.kind = "eot", pc \in {"hello", "frame"}
    PROVE  /\ dw.hd /\ dw.written = file.len - SigLen
           /\ Before(file, Target, dw.offset) = file.len
<1>1. /\ TurnInv /\ InTurnInv /\ PassedInv /\ FileInv /\ ThreadInv /\ Types
      /\ Target \in OTA_INDEX
    BY ThreadFacts DEF OrderInv
<1>2. file \in Files /\ nxt \in Nat
    BY <1>1 DEF FileInv, Types
<1>3. /\ LastBlock \in Nat /\ LastBlock >= 1 /\ Total(file) \in Nat
      /\ file.ota[Target] + file.len <= Total(file)
      /\ Total(file) <= LastBlock * BlockLen
    BY <1>1, <1>2, LastBlockIs
<1>4. nxt > LastBlock /\ nxt >= 2
    <2>1. nxt > LastBlock
        BY <1>1 DEF InTurnInv
    <2> QED
        BY <1>2, <1>3, <2>1
<1>5. dw.hd /\ pc = "frame"
    <2>1. ~dw.hd => nxt <= 1
        BY <1>1 DEF TurnInv
    <2>2. pc = "hello" => nxt = 0
        BY <1>1 DEF TurnInv
    <2> QED
        BY <1>2, <1>4, <2>1, <2>2
<1>6. Intact
    BY <1>5, ThreadFacts DEF AlteredInv, InUse
<1>7. dw.offset = (nxt - 1) * BlockLen
    BY <1>1, <1>5 DEF TurnInv
<1>8. LastBlock * BlockLen <= dw.offset
    <2>1. nxt - 1 \in Nat /\ LastBlock <= nxt - 1
        BY <1>2, <1>3, <1>4
    <2> QED
        BY <1>3, <1>7, <2>1, BlocksGrow
<1>9. /\ file.len \in Nat /\ file.ota[Target] \in Nat /\ SigLen \in Nat /\ SigLen < file.len
      /\ dw.offset \in Nat /\ dw.written \in Nat /\ Len(dw.signature) \in Nat
    BY <1>1, <1>2, FileFacts, Lengths, LenProperties DEF Types, Downloads
<1> DEFINE m == LastBlock * BlockLen
<1>10. m \in Nat /\ m <= dw.offset /\ Total(file) <= m
    BY <1>3, <1>8, Lengths, BlockOffsets
<1> HIDE DEF m
<1>11. file.ota[Target] + file.len <= dw.offset
    BY <1>3, <1>9, <1>10
<1>12. Before(file, Target, dw.offset) = file.len
    <2> DEFINE b == file.ota[Target]
               o == dw.offset
               l == file.len
               x == Before(file, Target, o)
    <2>1. x = IF o <= b THEN 0 ELSE IF o - b < l THEN o - b ELSE l
        BY BeforeIs
    <2>2. b \in Nat /\ o \in Nat /\ l \in Nat /\ l > 0 /\ b + l <= o
        BY <1>9, <1>11
    <2> HIDE DEF b, o, l, x
    <2>3. x = l
        BY <2>1, <2>2
    <2> QED
        BY <2>3 DEF x, l, o
<1>13. Len(dw.signature) + dw.written = file.len /\ Len(dw.signature) <= SigLen
    BY <1>1, <1>5, <1>12, <1>6 DEF ThreadInv, TakenInv
<1>14. dw.written > 0 => Len(dw.signature) = SigLen
    BY <1>1, <1>5, <1>6 DEF PassedInv
<1>15. dw.written = file.len - SigLen
    BY <1>9, <1>13, <1>14
<1> QED
    BY <1>5, <1>12, <1>15

LEMMA TakeEotOrder ==
    ASSUME Inv, OrderInv, TakeEot
    PROVE  OrderInv'
<1>1. /\ pc \in {"hello", "frame"} /\ rx.kind = "eot" /\ pc' = "signature"
      /\ UNCHANGED <<flash, cur, nxt, dw, step, file, rx, snd, harmed>>
    BY DEF TakeEot
<1>2. TurnInv /\ BehindInv /\ InTurnInv /\ (dw.hd => pc = "frame")
    BY <1>1 DEF OrderInv, Inv, ThreadInv
<1>3. UNCHANGED <<slot, Target>>
    BY <1>1 DEF flash, Target
<1>4. TurnInv'
    BY <1>1, <1>2 DEF TurnInv
<1>5. BehindInv'
    BY <1>1, <1>2 DEF BehindInv
<1>6. InTurnInv'
    BY <1>1, <1>2 DEF InTurnInv, LastBlock
<1>7. PassedInv'
    <2>1. CASE dw.hd
        BY <1>1, <1>2, <1>3, <2>1, PassedSame
    <2>2. CASE ~dw.hd
        BY <1>1, <2>2 DEF PassedInv
    <2> QED
        BY <2>1, <2>2
<1>8. EndInv'
    <2>1. ~harmed => /\ dw.hd /\ dw.written = file.len - SigLen
                     /\ Before(file, Target, dw.offset) = file.len
        BY <1>1, EndReached
    <2> QED
        BY <1>1, <1>3, <2>1 DEF EndInv
<1> QED
    BY <1>4, <1>5, <1>6, <1>7, <1>8 DEF OrderInv

LEMMA ZeroBlockEndsOrder ==
    ASSUME Inv, OrderInv, ZeroBlockEnds
    PROVE  OrderInv'
<1>1. /\ pc = "crc" /\ rx.data = Zeros /\ nxt = ZeroBlock /\ pc' = "signature"
      /\ UNCHANGED <<flash, cur, nxt, dw, step, file, line>>
    BY DEF ZeroBlockEnds
<1>2. TurnInv /\ InTurnInv /\ file \in Files /\ rx.kind = "block"
    BY <1>1, ThreadFacts DEF OrderInv, Inv, WorkInv
<1>3. TurnInv'
    BY <1>1, <1>2 DEF TurnInv
<1>4. BehindInv' /\ InTurnInv'
    BY <1>1, LineSame
<1>5. PassedInv'
    BY <1>1, PassedSame DEF flash, line
<1>6. EndInv'
    <2>1. ~harmed => ~NoZeroBlock
        BY <1>1, <1>2 DEF InTurnInv, NoZeroBlock
    <2> QED
        BY <1>1, <2>1 DEF EndInv, line, NoZeroBlock, Zeros
<1> QED
    BY <1>3, <1>4, <1>5, <1>6 DEF OrderInv

-----------------------------------------------------------------------------
(* The check at the end.                                                    *)

\* What the check adds up is the sum of the bytes of the image, wherever they lie.
LEMMA SumsMean ==
    ASSUME file \in Files, Target \in OTA_INDEX, dw.written \in Nat,
           dw.written = file.len - SigLen, Len(dw.signature) = SigLen,
           NEW cells, cells = slot[Target], NEW h,
           \A k \in 0 .. file.len - 1 :
               /\ h[file.ota[Target] + k] \in Int
               /\ Place(dw, cells, k) = h[file.ota[Target] + k]
    PROVE  SumOf(slot[Target], SigLen, dw.written)
               + SumOf(dw.signature, 1, Len(dw.signature))
             = SumOf(h, file.ota[Target], file.len)
<1> DEFINE l == file.len
           b == file.ota[Target]
           w == dw.written
           g == [k \in 0 .. l - 1 |-> Place(dw, cells, k)]
<1>1. l \in Nat /\ b \in Nat /\ w \in Nat /\ SigLen \in Nat /\ SigLen + w = l
    BY FileFacts, Lengths
<1>2. 0 \in Int /\ b \in Int /\ SigLen \in Int
    BY <1>1
<1> HIDE DEF l, b, w
<1>3. \A k \in 0 .. l - 1 : /\ g[k] = Place(dw, cells, k) /\ g[k] \in Int
                            /\ g[k] = h[b + k]
    BY DEF l, b
<1>4. \A k \in 0 .. l - 1 : Place(dw, cells, k) = IF k < SigLen THEN dw.signature[k + 1]
                                                  ELSE cells[k]
    BY DEF Place
<1> HIDE DEF g
<1>5. SumsAlike(g, 0, dw.signature, 1, SigLen)
    <2>1. \A k \in 0 .. SigLen - 1 : g[0 + k] = dw.signature[1 + k]
        <3> TAKE k \in 0 .. SigLen - 1
        <3>1. k \in 0 .. l - 1 /\ k < SigLen /\ 0 + k = k /\ 1 + k = k + 1
            BY <1>1
        <3> QED
            BY <1>3, <1>4, <3>1
    <2> QED
        BY <1>1, <2>1, SumSame
<1>6. SumsAlike(g, SigLen, cells, SigLen, w)
    <2>1. \A k \in 0 .. w - 1 : g[SigLen + k] = cells[SigLen + k]
        <3> TAKE k \in 0 .. w - 1
        <3>1. SigLen + k \in 0 .. l - 1 /\ ~(SigLen + k < SigLen)
            BY <1>1
        <3> DEFINE m == SigLen + k
        <3>2. m \in 0 .. l - 1 /\ ~(m < SigLen)
            BY <3>1
        <3> HIDE DEF m
        <3>3. g[m] = cells[m]
            BY <1>3, <1>4, <3>2
        <3> QED
            BY <3>3 DEF m
    <2> QED
        BY <1>1, <1>2, <2>1, SumSame
<1>7. \A k \in 0 .. l - 1 : g[0 + k] \in Int /\ g[0 + k] = h[b + k]
    <2> TAKE k \in 0 .. l - 1
    <2>1. 0 + k = k
        BY <1>1
    <2> QED
        BY <1>3, <2>1
<1>8. Adds(g, 0, SigLen, w)
    BY <1>1, <1>2, <1>7, SumSplit
<1>9. SumOf(g, 0, l) = SumOf(dw.signature, 1, SigLen) + SumOf(cells, SigLen, w)
    <2>1. 0 + SigLen = SigLen
        BY <1>1
    <2> QED
        BY <1>1, <1>5, <1>6, <1>8, <2>1 DEF Adds, SumsAlike
<1>10. SumOf(dw.signature, 1, SigLen) \in Int /\ SumOf(cells, SigLen, w) \in Int
    <2>1. \A k \in 0 .. SigLen - 1 : g[0 + k] \in Int
        BY <1>1, <1>7
    <2>2. \A k \in 0 .. w - 1 : g[SigLen + k] \in Int
        <3> TAKE k \in 0 .. w - 1
        <3> DEFINE m == SigLen + k
        <3>1. m \in 0 .. l - 1
            BY <1>1
        <3> HIDE DEF m
        <3>2. g[m] \in Int
            BY <1>3, <3>1
        <3> QED
            BY <3>2 DEF m
    <2>3. SumOf(g, 0, SigLen) \in Int
        BY <1>1, <1>2, <2>1, SumIsInt
    <2>4. SumOf(g, SigLen, w) \in Int
        BY <1>1, <1>2, <2>2, SumIsInt
    <2> QED
        BY <1>5, <1>6, <2>3, <2>4 DEF SumsAlike
<1>11. SumsAlike(g, 0, h, b, l)
    BY <1>1, <1>2, <1>7, SumSame
<1>12. SumOf(cells, SigLen, w) + SumOf(dw.signature, 1, SigLen) = SumOf(h, b, l)
    BY <1>9, <1>10, <1>11 DEF SumsAlike
<1> QED
    BY <1>12 DEF l, b, w

\* An image that is as it was sent passes the check.
LEMMA ServedSums ==
    ASSUME file \in Files, Target \in OTA_INDEX, dw.written \in Nat,
           dw.written = file.len - SigLen, Len(dw.signature) = SigLen,
           \A k \in 0 .. file.len - 1 :
               Place(dw, slot[Target], k) = Served(file, file.ota[Target] + k)
    PROVE  SumOf(slot[Target], SigLen, dw.written)
               + SumOf(dw.signature, 1, Len(dw.signature))
             = FileSum(file, file.ota[Target], file.len)
<1> DEFINE l == file.len
           b == file.ota[Target]
           h == [k \in b .. b + l - 1 |-> Served(file, k)]
<1>1. \A k \in 0 .. l - 1 : h[b + k] \in Int /\ h[b + k] = Served(file, b + k)
    <2> TAKE k \in 0 .. l - 1
    <2>1. b + k \in Nat /\ b + k < Total(file)
        BY InFile
    <2>2. Served(file, b + k) \in Nat
        BY <2>1, ServedByte
    <2>3. b + k \in b .. b + l - 1
        BY FileFacts
    <2> QED
        BY <2>2, <2>3
<1>2. FileSum(file, b, l) = SumOf(h, b, l)
    BY DEF FileSum
<1> HIDE DEF h
<1>3. SumOf(slot[Target], SigLen, dw.written) + SumOf(dw.signature, 1, Len(dw.signature))
        = SumOf(h, b, l)
    BY <1>1, SumsMean
<1> QED
    BY <1>2, <1>3

\* And an image that passes it is as it was sent, when the sum tells blocks apart.
LEMMA ChecksumMeans ==
    ASSUME ChecksumTells, VerifyOtaChecksum,
           file \in Files, Target \in OTA_INDEX, dw.written \in Nat,
           dw.written = file.len - SigLen, Len(dw.signature) = SigLen,
           NEW m \in [Nat -> Nat], \A n \in Nat : m[n] <= n,
           \A k \in 0 .. file.len - 1 :
               Place(dw, slot[Target], k) = Received(file, m)[file.ota[Target] + k]
    PROVE  \A k \in 0 .. file.len - 1 :
               Place(dw, slot[Target], k) = Served(file, file.ota[Target] + k)
<1> DEFINE l == file.len
           b == file.ota[Target]
           last == LastBlock
           short == [n \in 1 .. last |-> m[n]]
           h == Received(file, short)
<1>1. last \in Nat /\ Total(file) \in Nat /\ Total(file) <= last * BlockLen
    BY LastBlockIs
<1>2. \A n \in 1 .. last : short[n] = m[n] /\ short[n] \in 0 .. last /\ short[n] <= n
    <2> HIDE DEF last
    <2> TAKE n \in 1 .. last
    <2>1. n \in Nat /\ n <= last
        BY <1>1
    <2>2. m[n] \in Nat /\ m[n] <= n
        BY <2>1
    <2> QED
        BY <1>1, <2>1, <2>2
<1>3. short \in [1 .. last -> 0 .. last]
    BY <1>2
<1>4. ASSUME NEW k \in 0 .. l - 1
      PROVE  h[b + k] \in Int /\ h[b + k] = Received(file, m)[b + k]
    <2> DEFINE o == b + k
               n == (o \div BlockLen) + 1
    <2>1. o \in 0 .. Total(file) - 1 /\ o \in Nat
        BY InFile
    <2> HIDE DEF o
    <2>2. o < last * BlockLen
        <3> DEFINE u == last * BlockLen
        <3>1. u \in Nat /\ Total(file) <= u /\ Total(file) \in Nat
            BY <1>1, BlockOffsets
        <3> HIDE DEF u
        <3>2. o < u
            BY <2>1, <3>1
        <3> QED
            BY <3>2 DEF u
    <2>3. n \in 1 .. last /\ n \in Nat
        <3> DEFINE q == o \div BlockLen
        <3>1. q \in Nat /\ q < last
            BY <1>1, <2>1, <2>2, BlockBefore
        <3> HIDE DEF q
        <3>2. q + 1 \in 1 .. last /\ q + 1 \in Nat
            BY <1>1, <3>1
        <3> QED
            BY <3>2 DEF q
    <2>4. n = (o \div BlockLen) + 1
        OBVIOUS
    <2> HIDE DEF n, last
    <2>5. short[n] = m[n] /\ m[n] \in Nat /\ m[n] <= n
        BY <1>2, <2>3
    <2> HIDE DEF short
    <2>8. short[n] \in Nat /\ short[n] <= n
        BY <2>5
    <2>6. Received(file, short)[o] = Taken(file, short[n])[(o % BlockLen) + 1]
        BY <2>1, <2>4 DEF Received
    <2>9. Received(file, short)[o] \in Int
        BY <2>1, <2>4, <2>8, ReceivedByte
    <2>7. Received(file, m)[o] = Taken(file, m[n])[(o % BlockLen) + 1]
        BY <2>1, <2>4 DEF Received
    <2> QED
        BY <2>5, <2>6, <2>7, <2>9 DEF o
<1>5. last = (Total(file) - 1) \div BlockLen + 1
    BY DEF LastBlock
<1> HIDE DEF last, short
<1>6. SumOf(h, b, l) = FileSum(file, b, l)
    <2>1. SumOf(slot[Target], SigLen, dw.written)
              + SumOf(dw.signature, 1, Len(dw.signature)) = SumOf(h, b, l)
        <3> HIDE DEF h
        <3>1. \A k \in 0 .. l - 1 : h[b + k] \in Int /\ Place(dw, slot[Target], k) = h[b + k]
            BY <1>4
        <3> QED
            BY <3>1, SumsMean
    <2> QED
        BY <2>1 DEF VerifyOtaChecksum
<1>7. \A o \in b .. b + l - 1 : h[o] = Served(file, o)
    BY <1>2, <1>3, <1>5, <1>6 DEF ChecksumTells
<1> HIDE DEF h
<1> SUFFICES ASSUME NEW k \in 0 .. l - 1
             PROVE  Place(dw, slot[Target], k) = Served(file, b + k)
    OBVIOUS
<1>8. b + k \in b .. b + l - 1
    <2>1. b \in Nat /\ l \in Nat
        BY FileFacts
    <2> HIDE DEF b, l
    <2> QED
        BY <2>1
<1> QED
    BY <1>4, <1>7, <1>8

\* What the check finds of a transfer that reaches it.
LEMMA CheckFacts ==
    ASSUME Inv, OrderInv, Verify
    PROVE  /\ dw.hd /\ Intact /\ file \in Files /\ Target \in OTA_INDEX
           /\ dw.written \in Nat /\ dw.written = file.len - SigLen
           /\ Len(dw.signature) = SigLen
           /\ Before(file, Target, dw.offset) = file.len
<1>1. pc = "signature" /\ dw.written # 0 /\ dw.written = dw.len - SigLen
    BY DEF Verify
<1>2. /\ Types /\ ThreadInv /\ AlteredInv /\ PassedInv /\ Target \in OTA_INDEX
      /\ file \in Files
    BY <1>1, ThreadFacts DEF OrderInv
<1>3. dw.hd
    BY <1>1, <1>2 DEF ThreadInv
<1>4. Intact
    BY <1>1, <1>2, <1>3 DEF AlteredInv, InUse
<1>5. dw.written \in Nat /\ SigLen \in Nat /\ file.len \in Nat
    BY <1>2, Lengths, FileFacts DEF Types, Downloads
<1>6. Len(dw.signature) = SigLen
    BY <1>1, <1>2, <1>3, <1>4, <1>5 DEF PassedInv
<1>7. dw.written = file.len - SigLen
    BY <1>1, <1>4 DEF Intact
<1>8. SigLen + dw.written = Before(file, Target, dw.offset)
    BY <1>2, <1>3, <1>4, <1>6 DEF ThreadInv, TakenInv
<1>9. Before(file, Target, dw.offset) = file.len
    BY <1>5, <1>7, <1>8
<1> QED
    BY <1>2, <1>3, <1>4, <1>5, <1>6, <1>7, <1>9

LEMMA VerifyOrder ==
    ASSUME Inv, OrderInv, Verify
    PROVE  OrderInv'
<1>1. /\ pc = "signature" /\ pc' = (IF VerifyOtaChecksum THEN "sign" ELSE "clear")
      /\ UNCHANGED <<flash, cur, nxt, dw, file, line>>
    BY DEF Verify
<1>2. /\ dw.hd /\ Intact /\ file \in Files /\ Target \in OTA_INDEX
      /\ dw.written \in Nat /\ dw.written = file.len - SigLen
      /\ Len(dw.signature) = SigLen /\ Before(file, Target, dw.offset) = file.len
    BY CheckFacts
<1>3. TurnInv /\ PassedInv /\ BlankInv(file, dw, slot[Target])
    BY <1>1, <1>2, ThreadFacts DEF OrderInv, ThreadInv
<1>4. UNCHANGED <<slot, Target, rx, harmed>> /\ Intact' = Intact
    BY <1>1 DEF flash, Target, line, Intact
<1>5. TurnInv'
    BY <1>1, <1>2, <1>3 DEF TurnInv
<1>6. BehindInv' /\ InTurnInv'
    BY <1>1, LineSame
<1>7. PassedInv'
    BY <1>1, <1>2 DEF PassedInv
<1>8. EndInv'
    <2>1. CASE VerifyOtaChecksum
        BY <1>1, <2>1 DEF EndInv
    <2>2. CASE ~VerifyOtaChecksum
        <3>1. slot[Target][0] = Erased
            <4>1. 0 \in 0 .. SigLen - 1
                BY Lengths
            <4> QED
                BY <1>2, <1>3, <4>1 DEF BlankInv
        <3>2. ~harmed => ~file.ours \/ file.rdpLen > 0
            <4> SUFFICES ASSUME ~harmed, file.ours, ~(file.rdpLen > 0)
                         PROVE  FALSE
                OBVIOUS
            <4>1. \A k \in 0 .. file.len - 1 :
                     Place(dw, slot[Target], k) = Served(file, file.ota[Target] + k)
                BY <1>1, <1>2, <1>3 DEF PassedInv
            <4>2. VerifyOtaChecksum
                BY <1>2, <4>1, ServedSums DEF VerifyOtaChecksum
            <4> QED
                BY <2>2, <4>2
        <3> QED
            BY <1>1, <1>4, <2>2, <3>1, <3>2 DEF EndInv
    <2> QED
        BY <2>1, <2>2
<1> QED
    BY <1>5, <1>6, <1>7, <1>8 DEF OrderInv

LEMMA WriteSignatureOrder ==
    ASSUME Inv, OrderInv, WriteSignature
    PROVE  OrderInv'
<1>1. /\ pc = "sign"
      /\ UNCHANGED <<rdp, ota2Set, boot, cur, pc, nxt, dw, file, line>>
    BY DEF WriteSignature
<1>2. TurnInv /\ PassedInv /\ dw.hd
    BY <1>1 DEF OrderInv, Inv, ThreadInv
<1>3. TurnInv'
    BY <1>1, <1>2 DEF TurnInv
<1>4. BehindInv' /\ InTurnInv'
    BY <1>1, LineSame
<1>5. Intact' = Intact
    BY <1>1 DEF Intact, Target
<1>6. PassedInv' /\ EndInv'
    BY <1>1, <1>2, <1>5 DEF PassedInv, EndInv
<1> QED
    BY <1>3, <1>4, <1>6 DEF OrderInv

LEMMA OtaChangeOrder ==
    ASSUME Inv, OrderInv, OtaChange
    PROVE  OrderInv'
<1>1. /\ pc = "sign" /\ pc' = "exit"
      /\ UNCHANGED <<slot, cur, nxt, dw, step, file, line>>
    BY DEF OtaChange
<1>2. TurnInv /\ PassedInv /\ dw.hd
    BY <1>1 DEF OrderInv, Inv, ThreadInv
<1>3. TurnInv'
    BY <1>1, <1>2 DEF TurnInv
<1>4. BehindInv' /\ InTurnInv'
    BY <1>1, LineSame
<1>5. PassedInv' /\ EndInv'
    <2>1. Intact' = Intact
        BY <1>1 DEF Intact, Target
    <2> QED
        BY <1>1, <1>2, <2>1 DEF PassedInv, EndInv
<1> QED
    BY <1>3, <1>4, <1>5 DEF OrderInv

LEMMA NextOrder ==
    ASSUME Inv, OrderInv, [Next]_vars
    PROVE  OrderInv'
<1>1. ASSUME Thread
      PROVE  OrderInv'
    <2>1. ASSUME NoResponse \/ RefuseFrame \/ CrcFails \/ DownloadFailed \/ TransferOver
                 \/ RefuseHeader \/ ClearSignatureZone
          PROVE  Exit
        BY <2>1 DEF NoResponse, RefuseFrame, CrcFails, DownloadFailed, TransferOver,
                    RefuseHeader, ClearSignatureZone
    <2> QED
        BY <1>1, <2>1, ExitOrder, TakeEotOrder, TakeBlockOrder, TakeHeaderOrder,
           EraseSectorOrder, EraseRdpOrder, WriteBlockOrder, ZeroBlockEndsOrder,
           StartNextRoundOrder, VerifyOrder, WriteSignatureOrder, OtaChangeOrder,
           Zenon DEF Thread
<1>2. ASSUME Restart
      PROVE  OrderInv'
    BY <1>2, ExitOrder DEF Restart
<1>3. ASSUME NEW f \in Files \cup {NoFile}, UartYmodem(f)
      PROVE  OrderInv'
    BY <1>3, UartYmodemOrder
<1>4. CASE UNCHANGED vars
    <2>1. UNCHANGED <<slot, cur, pc, nxt, dw, step, file, rx, snd, acks, harmed>>
        BY <1>4 DEF vars, line, flash
    <2>2. Target' = Target /\ LastBlock' = LastBlock
        BY <2>1 DEF Target, LastBlock
    <2>3. TurnInv' /\ BehindInv' /\ InTurnInv'
        BY <2>1, <2>2 DEF OrderInv, TurnInv, BehindInv, InTurnInv
    <2>4. PassedInv'
        BY <2>1, PassedSame
    <2>5. EndInv'
        BY <2>1, <2>2 DEF OrderInv, EndInv
    <2> QED
        BY <2>3, <2>4, <2>5 DEF OrderInv
<1> QED
    BY <1>1, <1>2, <1>3, <1>4, TerminalOrder, Zenon DEF Next

LEMMA InitOrder ==
    ASSUME Init
    PROVE  OrderInv
<1>1. /\ pc = "idle" /\ rx = NoFrame /\ nxt = 0 /\ dw = NoDownload /\ acks = 0
      /\ snd = [n |-> 0, state |-> "off"]
    BY DEF Init
<1>2. rx.kind = "none" /\ ~dw.hd /\ snd.n = 0 /\ snd.state = "off"
    BY <1>1, FixedFrames DEF NoDownload
<1>3. TurnInv /\ BehindInv
    BY <1>1, <1>2 DEF TurnInv, BehindInv
<1>4. InTurnInv /\ PassedInv /\ EndInv
    BY <1>1, <1>2 DEF InTurnInv, PassedInv, EndInv
<1> QED
    BY <1>3, <1>4 DEF OrderInv

LEMMA OrderAlways == Spec => [](Inv /\ OrderInv)
<1>1. Init => Inv /\ OrderInv
    BY InitInv, InitOrder
<1>2. Inv /\ OrderInv /\ [Next]_vars => (Inv /\ OrderInv)'
    BY NextInv, NextOrder
<1> QED
    BY <1>1, <1>2, PTL DEF Spec

\* A transfer whose frames come in order is not refused, wherever the blocks cut the
\* signature and the image: when its end is reached, signature and rest are the whole
\* image and the check finds its sum, unless the image is another product's or has an
\* RDP part, or the file has the block of zeros that the code takes for its end.
THEOREM UnharmedAccepted ==
    ASSUME NoZeroBlock
    PROVE  Spec => []UnharmedNotRefused
<1>1. Inv /\ OrderInv => UnharmedNotRefused
    BY DEF OrderInv, EndInv, UnharmedNotRefused
<1> QED
    BY <1>1, OrderAlways, PTL

-----------------------------------------------------------------------------
(* What is signed is what was sent, when the sum tells blocks apart.         *)

SignInv ==
    pc = "sign" =>
        \A k \in 0 .. file.len - 1 :
            IF k < SigLen
            THEN /\ dw.signature[k + 1] = Served(file, file.ota[Target] + k)
                 /\ k < step => slot[Target][k] = dw.signature[k + 1]
            ELSE slot[Target][k] = Served(file, file.ota[Target] + k)

LEMMA VerifySigns ==
    ASSUME ChecksumTells, Inv, OrderInv, Verify
    PROVE  SignInv'
<1>1. /\ pc = "signature" /\ pc' = (IF VerifyOtaChecksum THEN "sign" ELSE "clear")
      /\ step' = 0 /\ UNCHANGED <<flash, cur, nxt, dw, file, line>>
    BY DEF Verify
<1>2. /\ dw.hd /\ Intact /\ file \in Files /\ Target \in OTA_INDEX
      /\ dw.written \in Nat /\ dw.written = file.len - SigLen
      /\ Len(dw.signature) = SigLen /\ Before(file, Target, dw.offset) = file.len
    BY CheckFacts
<1>3. UNCHANGED <<slot, Target>>
    BY <1>1 DEF flash, Target
<1> SUFFICES ASSUME VerifyOtaChecksum
             PROVE  SignInv'
    BY <1>1 DEF SignInv
<1>4. PICK m \in [Nat -> Nat] :
         /\ \A n \in Nat : m[n] <= n
         /\ \A k \in 0 .. file.len - 1 :
               Place(dw, slot[Target], k) = Received(file, m)[file.ota[Target] + k]
    BY <1>1, <1>2 DEF OrderInv, PassedInv
<1>5. \A k \in 0 .. file.len - 1 :
         Place(dw, slot[Target], k) = Served(file, file.ota[Target] + k)
    BY <1>2, <1>4, ChecksumMeans
<1>6. ASSUME NEW k \in 0 .. file.len - 1
      PROVE  IF k < SigLen
             THEN /\ dw.signature[k + 1] = Served(file, file.ota[Target] + k)
                  /\ k < step' => slot[Target][k] = dw.signature[k + 1]
             ELSE slot[Target][k] = Served(file, file.ota[Target] + k)
    <2>1. ~(k < step')
        BY <1>1, <1>2, FileFacts
    <2> QED
        BY <1>2, <1>5, <2>1 DEF Place
<1> QED
    BY <1>1, <1>3, <1>6 DEF SignInv

LEMMA WriteSignatureSigns ==
    ASSUME Inv, SignInv, WriteSignature
    PROVE  SignInv'
<1> DEFINE one == <<dw.signature[step + 1]>>
           cells == slot[Target]
           to == Program(cells, step, one)
<1>1. /\ pc = "sign" /\ step < SigLen /\ slot' = [slot EXCEPT ![Target] = to]
      /\ step' = step + 1
      /\ UNCHANGED <<rdp, ota2Set, boot, cur, pc, nxt, dw, file, line>>
    BY DEF WriteSignature
<1>2. /\ Types /\ ThreadInv /\ Target \in OTA_INDEX
      /\ file \in Files /\ cells \in [Cells -> Bytes]
    BY <1>1, ThreadFacts
<1>3. /\ Len(dw.signature) = SigLen /\ dw.hd
      /\ \A k \in step .. SigLen - 1 : cells[k] = Erased
    BY <1>1, <1>2 DEF ThreadInv
<1>4. /\ step \in Nat /\ SigLen \in Nat /\ file.len \in Nat /\ file.len <= SlotLen
      /\ SlotLen \in Nat /\ SigLen <= file.len
    BY <1>2, Lengths, FileFacts DEF Types
<1>5. one \in Seq(Bytes) /\ Len(one) = 1 /\ one[1] = dw.signature[step + 1]
    <2>1. dw.signature \in Seq(Bytes) /\ step + 1 \in 1 .. Len(dw.signature)
        BY <1>1, <1>2, <1>3, <1>4 DEF Types, Downloads
    <2>2. dw.signature[step + 1] \in Bytes
        BY <2>1, ElementOfSeq
    <2> QED
        BY <2>2
<1>6. to = Program(cells, step, one)
    OBVIOUS
<1> HIDE DEF one, to, cells
<1>7. /\ to \in [Cells -> Bytes] /\ to[step] = dw.signature[step + 1]
      /\ \A k \in Cells : k # step => to[k] = cells[k]
    <2>1. step + Len(one) - 1 = step
        BY <1>4, <1>5
    <2>2. step \in Cells /\ cells[step] = Erased
        BY <1>1, <1>3, <1>4 DEF Cells
    <2>3. \A k : k \in step .. step + Len(one) - 1 <=> k = step
        BY <1>4, <2>1
    <2>4. /\ \A k \in step .. step + Len(one) - 1 : cells[k] = Erased
          /\ \A k \in step .. step + Len(one) - 1 : k \in Cells
        BY <2>2, <2>3
    <2>5. /\ to \in [Cells -> Bytes]
          /\ \A k \in Cells : k \notin step .. step + Len(one) - 1 => to[k] = cells[k]
        <3>1. \A k \in step .. step + Len(one) - 1 : cells[k] = Erased
            BY <2>4
        <3>2. cells \in [Cells -> Bytes] /\ one \in Seq(Bytes) /\ step \in Nat
            BY <1>2, <1>4, <1>5
        <3>3. /\ Program(cells, step, one) \in [Cells -> Bytes]
              /\ \A k \in Cells : k \notin step .. step + Len(one) - 1 =>
                    Program(cells, step, one)[k] = cells[k]
            BY <3>1, <3>2, ProgramBlank
        <3> QED
            BY <1>6, <3>3
    <2>6. \A k \in step .. step + Len(one) - 1 : to[k] = one[k - step + 1]
        BY <1>2, <1>4, <1>5, <1>6, <2>4, ProgramGives
    <2>7. step - step + 1 = 1
        BY <1>4
    <2> QED
        BY <1>5, <2>3, <2>5, <2>6, <2>7
<1>8. /\ slot'[Target] = to /\ Target' = Target /\ file' = file /\ dw' = dw /\ pc' = pc
    BY <1>1, <1>2 DEF Types, Target
<1>9. ASSUME NEW k \in 0 .. file.len - 1
      PROVE  IF k < SigLen
             THEN /\ dw.signature[k + 1] = Served(file, file.ota[Target] + k)
                  /\ k < step + 1 => to[k] = dw.signature[k + 1]
             ELSE to[k] = Served(file, file.ota[Target] + k)
    <2>1. IF k < SigLen
          THEN /\ dw.signature[k + 1] = Served(file, file.ota[Target] + k)
               /\ k < step => cells[k] = dw.signature[k + 1]
          ELSE cells[k] = Served(file, file.ota[Target] + k)
        BY <1>1 DEF SignInv, cells
    <2>2. k \in Cells /\ k \in Nat
        BY <1>4 DEF Cells
    <2>3. CASE k = step
        BY <1>1, <1>7, <2>1, <2>3
    <2>4. CASE k # step
        <3>1. to[k] = cells[k]
            BY <1>7, <2>2, <2>4
        <3>2. k < step + 1 => k < step
            BY <1>4, <2>2, <2>4
        <3> QED
            BY <2>1, <3>1, <3>2
    <2> QED
        BY <2>3, <2>4
<1> QED
    BY <1>1, <1>8, <1>9 DEF SignInv

LEMMA SignAlways ==
    ASSUME ChecksumTells
    PROVE  Spec => []SignInv
<1>1. Init => SignInv
    BY DEF Init, SignInv
<1>2. ASSUME Inv, OrderInv, SignInv, [Next]_vars
      PROVE  SignInv'
    <2>1. CASE pc = "sign" /\ UNCHANGED <<slot, cur, pc, dw, step, file>>
        BY <1>2, <2>1 DEF SignInv, Target
    <2>2. CASE pc' # "sign"
        BY <2>2 DEF SignInv
    <2>3. CASE Verify \/ WriteSignature
        BY <1>2, <2>3, VerifySigns, WriteSignatureSigns
    <2>4. CASE Terminal
        <3>1. UNCHANGED <<slot, cur, pc, dw, step, file>>
            BY <2>4 DEF Terminal, Send, SendLost, SendSpoiled, TakeAck, AckLost, TimesOut,
                        TimesOutEarly, Cancel, flash
        <3> QED
            BY <2>1, <2>2, <3>1
    <2>5. CASE Thread /\ ~Verify /\ ~WriteSignature
        <3>1. pc' # "sign"
            BY <2>5 DEF Thread, NoResponse, RefuseFrame, TakeEot, TakeBlock, RefuseHeader,
               TakeHeader, EraseSector, EraseRdp, WriteBlock, CrcFails, ZeroBlockEnds,
               StartNextRound, DownloadFailed, ClearSignatureZone, OtaChange,
               TransferOver, Exit
        <3> QED
            BY <2>2, <3>1
    <2>6. CASE Restart \/ \E f \in Files \cup {NoFile} : UartYmodem(f)
        <3>1. pc' # "sign"
            BY <2>6 DEF Restart, Exit, UartYmodem
        <3> QED
            BY <2>2, <3>1
    <2>7. CASE UNCHANGED vars
        BY <2>1, <2>2, <2>7 DEF vars, flash
    <2> QED
        BY <1>2, <2>3, <2>4, <2>5, <2>6, <2>7 DEF Next
<1> QED
    BY <1>1, <1>2, OrderAlways, PTL DEF Spec

-----------------------------------------------------------------------------
(* What the boot loader sees, as in OtaUpdate_proofs.  A slot without a byte *)
(* of its signature holds nothing, and a signed slot holds the image it is   *)
(* signed for.                                                               *)

Unsigned(cells) == \E k \in 0 .. SigLen - 1 : cells[k] = Erased

\* holds of Firmware, by the refinement mapping of YModem.
Holding == [s \in OTA_INDEX |->
              IF s = 2 /\ ~ota2Set THEN NoFile ELSE Held(slot[s], 0, s)]

\* Where the thread may be though the address of OTA2 was never written; an erase for
\* an altered length may take it away.
Early == {"idle", "hello", "frame", "header", "crc", "signature"}

\* The state of the slots between two actions of any kind.
ImagesInv ==
    /\ \A s \in OTA_INDEX : Signed(slot[s], 0, s) => Complete(slot[s], 0, s)
    /\ ~ota2Set => /\ ~Complete(slot[2], 0, 2)
                   /\ (pc \in Early /\ ~dw.hd) \/ (InUse /\ ~Intact)
    /\ pc = "idle" => file = NoFile

LEMMA NoFileIsNone == NoFile \notin Files
<1>1. NoFile.len = 0
    BY DEF NoFile
<1>2. 1 \in OTA_INDEX
    BY DEF OTA_INDEX
<1> QED
    BY <1>1, <1>2, FileFacts, Lengths

LEMMA HeldIsImage ==
    ASSUME NEW s \in OTA_INDEX, NEW f \in Files, NEW cells, IsImage(cells, 0, f, s)
    PROVE  Complete(cells, 0, s) /\ Held(cells, 0, s) = f
<1>1. Complete(cells, 0, s)
    BY DEF Complete
<1>2. ASSUME NEW g \in Files, IsImage(cells, 0, g, s)
      PROVE  g = f
    <2> SUFFICES ASSUME g # f PROVE FALSE
        OBVIOUS
    <2>1. PICK k \in 0 .. f.len - 1 :
             k < g.len /\ Served(f, f.ota[s] + k) # Served(g, g.ota[s] + k)
        BY SignatureAssumption
    <2>2. k \in 0 .. g.len - 1
        BY <2>1, FileFacts
    <2> QED
        BY <1>2, <2>1, <2>2 DEF IsImage
<1>3. (CHOOSE g \in Files : IsImage(cells, 0, g, s)) = f
    BY <1>2
<1> QED
    BY <1>1, <1>3 DEF Held

LEMMA CompleteIsSigned ==
    ASSUME NEW s \in OTA_INDEX, NEW cells, Complete(cells, 0, s)
    PROVE  /\ Signed(cells, 0, s) /\ Held(cells, 0, s) \in Files
           /\ Held(cells, 0, s) # NoFile
<1>1. PICK f \in Files : IsImage(cells, 0, f, s)
    BY DEF Complete
<1>2. Held(cells, 0, s) = f
    BY <1>1, HeldIsImage
<1>3. \A k \in 0 .. SigLen - 1 : cells[0 + k] = Served(f, f.ota[s] + k)
    <2> TAKE k \in 0 .. SigLen - 1
    <2>1. k \in 0 .. f.len - 1
        BY FileFacts, Lengths
    <2> QED
        BY <1>1, <2>1 DEF IsImage
<1> QED
    BY <1>2, <1>3, NoFileIsNone DEF Signed

LEMMA UnsignedHoldsNone ==
    ASSUME NEW s \in OTA_INDEX, NEW cells, Unsigned(cells)
    PROVE  ~Signed(cells, 0, s) /\ ~Complete(cells, 0, s) /\ Held(cells, 0, s) = NoFile
<1>1. PICK k \in 0 .. SigLen - 1 : cells[k] = Erased
    BY DEF Unsigned
<1>2. 0 + k = k
    BY Lengths
<1>3. ~Signed(cells, 0, s)
    <2> SUFFICES ASSUME Signed(cells, 0, s) PROVE FALSE
        OBVIOUS
    <2>1. PICK f \in Files : cells[0 + k] = Served(f, f.ota[s] + k)
        BY DEF Signed
    <2> QED
        BY <1>1, <1>2, <2>1, SignatureAssumption
<1>4. ~Complete(cells, 0, s)
    BY <1>3, CompleteIsSigned
<1> QED
    BY <1>3, <1>4 DEF Held

\* A slot whose first byte is erased.
LEMMA FirstErased ==
    ASSUME NEW cells, cells[0] = Erased
    PROVE  Unsigned(cells)
<1>1. 0 \in 0 .. SigLen - 1
    BY Lengths
<1> QED
    BY <1>1 DEF Unsigned

\* A slot whose address is not set holds nothing.
LEMMA AddressOrNone ==
    ASSUME NEW set, NEW slots, ~set => ~Complete(slots[2], 0, 2)
    PROVE  [s \in OTA_INDEX |-> IF s = 2 /\ ~set THEN NoFile ELSE Held(slots[s], 0, s)]
             = [s \in OTA_INDEX |-> Held(slots[s], 0, s)]
<1>1. ~set => Held(slots[2], 0, 2) = NoFile
    BY DEF Held
<1>2. \A s \in OTA_INDEX : (IF s = 2 /\ ~set THEN NoFile ELSE Held(slots[s], 0, s))
                             = Held(slots[s], 0, s)
    BY <1>1
<1> QED
    BY <1>2

LEMMA HoldingIs ==
    ASSUME ImagesInv
    PROVE  Holding = [s \in OTA_INDEX |-> Held(slot[s], 0, s)]
  BY AddressOrNone DEF ImagesInv, Holding

LEMMA HoldingNext ==
    ASSUME ImagesInv'
    PROVE  Holding' = [s \in OTA_INDEX |-> Held(slot'[s], 0, s)]
  BY AddressOrNone DEF ImagesInv, Holding

\* What a step makes of the slot it writes is nothing, or the image on offer.
Replaced(cells) ==
    /\ ota2Set' = ota2Set /\ (pc' = "idle" => file' = NoFile)
    /\ slot' = [slot EXCEPT ![Target] = cells]
    /\ Unsigned(cells) \/ (ota2Set /\ \E f \in Files : IsImage(cells, 0, f, Target))
    /\ ~ota2Set => InUse' /\ ~Intact'

LEMMA ReplacedImages ==
    ASSUME Inv, ImagesInv, NEW cells, Replaced(cells)
    PROVE  /\ ImagesInv'
           /\ Holding' = [Holding EXCEPT ![Target] = Held(cells, 0, Target)]
<1>1. /\ Target \in OTA_INDEX /\ slot \in [OTA_INDEX -> [Cells -> Bytes]]
    BY TargetIs DEF Inv, Types
<1>2. /\ slot'[Target] = cells
      /\ \A s \in OTA_INDEX : s # Target => slot'[s] = slot[s]
    BY <1>1 DEF Replaced
<1>3. Signed(cells, 0, Target) => Complete(cells, 0, Target)
    BY <1>1, UnsignedHoldsNone, HeldIsImage DEF Replaced
<1>4. ImagesInv'
    <2>1. \A s \in OTA_INDEX : Signed(slot'[s], 0, s) => Complete(slot'[s], 0, s)
        <3> TAKE s \in OTA_INDEX
        <3>1. CASE s = Target
            BY <1>2, <1>3, <3>1
        <3>2. CASE s # Target
            BY <1>2, <3>2 DEF ImagesInv
        <3> QED
            BY <3>1, <3>2
    <2>2. ~ota2Set' => ~Complete(slot'[2], 0, 2)
        <3> SUFFICES ASSUME ~ota2Set
                     PROVE  ~Complete(slot'[2], 0, 2)
            BY DEF Replaced
        <3>1. ~Complete(cells, 0, Target)
            BY <1>1, UnsignedHoldsNone DEF Replaced
        <3>2. ~Complete(slot[2], 0, 2) /\ 2 \in OTA_INDEX
            BY DEF ImagesInv, OTA_INDEX
        <3> QED
            BY <1>2, <3>1, <3>2
    <2>3. /\ ~ota2Set' => InUse' /\ ~Intact'
          /\ pc' = "idle" => file' = NoFile
        BY DEF Replaced
    <2> QED
        BY <2>1, <2>2, <2>3 DEF ImagesInv
<1>5. Holding' = [Holding EXCEPT ![Target] = Held(cells, 0, Target)]
    <2>1. /\ Holding = [s \in OTA_INDEX |-> Held(slot[s], 0, s)]
          /\ Holding' = [s \in OTA_INDEX |-> Held(slot'[s], 0, s)]
        BY <1>4, HoldingIs, HoldingNext
    <2> DEFINE v == Held(cells, 0, Target)
    <2>2. \A s \in OTA_INDEX : s # Target => Held(slot'[s], 0, s) = Held(slot[s], 0, s)
        BY <1>2
    <2>3. Held(slot'[Target], 0, Target) = v
        BY <1>2
    <2> HIDE DEF v
    <2>4. Holding' = [Holding EXCEPT ![Target] = v]
        BY <1>1, <2>1, <2>2, <2>3
    <2> QED
        BY <2>4 DEF v
<1> QED
    BY <1>4, <1>5

\* The slot that is written held nothing, and holds nothing.
LEMMA StillNone ==
    ASSUME Inv, ImagesInv, NEW cells, Replaced(cells), Unsigned(cells),
           Unsigned(slot[Target])
    PROVE  ImagesInv' /\ Holding' = Holding
<1>1. Target \in OTA_INDEX
    BY TargetIs DEF Inv, Types
<1>2. ImagesInv' /\ Holding' = [Holding EXCEPT ![Target] = NoFile]
    BY <1>1, ReplacedImages, UnsignedHoldsNone
<1>3. Holding[Target] = NoFile
    BY <1>1, HoldingIs, UnsignedHoldsNone
<1>4. Holding = [s \in OTA_INDEX |-> Holding[s]]
    BY DEF Holding
<1>5. [Holding EXCEPT ![Target] = NoFile] = Holding
    BY <1>1, <1>3, <1>4
<1> QED
    BY <1>2, <1>5

\* A step that leaves the slots alone.
LEMMA SlotsKept ==
    ASSUME Inv, ImagesInv, slot' = slot, ota2Set' = ota2Set,
           ota2Set \/ (pc' \in Early /\ ~dw'.hd) \/ (InUse' /\ ~Intact'),
           pc' = "idle" => file' = NoFile
    PROVE  ImagesInv' /\ Holding' = Holding
<1>1. ImagesInv'
    BY DEF ImagesInv
<1> QED
    BY <1>1 DEF Holding

-----------------------------------------------------------------------------
(* Each action of the thread is one of Firmware, or none.                    *)

LEMMA Stutters ==
    ASSUME UNCHANGED <<Holding, boot, cur, file>>
    PROVE  [FW!Next]_(FW!vars)
  BY DEF FW!vars, Holding

LEMMA Withdraws ==
    ASSUME UNCHANGED <<Holding, boot, cur>>, file' = NoFile
    PROVE  [FW!Next]_(FW!vars)
<1>1. FW!Withdraw
    BY DEF FW!Withdraw, Holding
<1> QED
    BY <1>1 DEF FW!Next

LEMMA Erases ==
    ASSUME NEW s \in OTA_INDEX, s # cur, UNCHANGED <<boot, cur, file>>,
           Holding' = [Holding EXCEPT ![s] = NoFile]
    PROVE  [FW!Next]_(FW!vars)
<1>1. FW!Erase(s)
    BY DEF FW!Erase, Holding
<1> QED
    BY <1>1 DEF FW!Next

LEMMA Installs ==
    ASSUME NEW s \in OTA_INDEX, s # cur, UNCHANGED <<boot, cur, file>>,
           file # NoFile, Holding[s] = NoFile,
           Holding' = [Holding EXCEPT ![s] = file]
    PROVE  [FW!Next]_(FW!vars)
<1>1. FW!Install(s)
    BY DEF FW!Install, Holding
<1> QED
    BY <1>1 DEF FW!Next

LEMMA Selects ==
    ASSUME NEW s \in OTA_INDEX, boot' = s, UNCHANGED <<Holding, cur, file>>
    PROVE  [FW!Next]_(FW!vars)
<1>1. FW!Select(s)
    BY DEF FW!Select, Holding
<1> QED
    BY <1>1 DEF FW!Next

LEMMA Offers ==
    ASSUME NEW f \in Files, file = NoFile, file' = f, UNCHANGED <<Holding, boot, cur>>
    PROVE  [FW!Next]_(FW!vars)
<1>1. FW!Offer(f)
    BY DEF FW!Offer, Holding
<1> QED
    BY <1>1 DEF FW!Next

\* The boot loader takes a slot that holds an image, and the one to boot if that
\* is one of them.
LEMMA RestartRefines ==
    ASSUME Inv, ImagesInv, Restart
    PROVE  ImagesInv' /\ [FW!Next]_(FW!vars)
<1>1. /\ cur' \in BootLoader /\ file' = NoFile /\ pc' = "idle" /\ ~dw'.hd
      /\ UNCHANGED <<slot, ota2Set, boot>> /\ boot \in OTA_INDEX
    BY DEF Restart, Exit, NoDownload, flash, Inv, Types
<1>2. ImagesInv' /\ Holding' = Holding
    BY <1>1, SlotsKept DEF Early
<1>3. \A s \in OTA_INDEX : Holding[s] # NoFile <=> s \in Bootable
    <2> TAKE s \in OTA_INDEX
    <2>1. Holding[s] = IF s = 2 /\ ~ota2Set THEN NoFile ELSE Held(slot[s], 0, s)
        BY DEF Holding
    <2>2. s \in Bootable <=> Signed(slot[s], 0, s) /\ (s = 2 => ota2Set)
        BY DEF Bootable
    <2>3. Signed(slot[s], 0, s) <=> Complete(slot[s], 0, s)
        BY CompleteIsSigned DEF ImagesInv
    <2>4. Held(slot[s], 0, s) # NoFile <=> Complete(slot[s], 0, s)
        BY CompleteIsSigned DEF Held
    <2> QED
        BY <2>1, <2>2, <2>3, <2>4
<1>4. cur' \in OTA_INDEX /\ cur' \in Bootable /\ (boot \in Bootable => cur' = boot)
    BY <1>1 DEF BootLoader, Bootable
<1>5. FW!Restart(cur')
    BY <1>1, <1>2, <1>3, <1>4 DEF FW!Restart, Holding
<1> QED
    BY <1>2, <1>4, <1>5 DEF FW!Next

\* The thread ends.  When the address of OTA2 has been written, there is nothing in
\* that slot that it would bring to light.
LEMMA AddressSet ==
    ASSUME Inv, ImagesInv, slot' = slot, ota2Set' = TRUE, pc' = "idle" => file' = NoFile
    PROVE  ImagesInv' /\ Holding' = Holding
<1>1. CASE ota2Set
    <2>1. ota2Set' = ota2Set
        BY <1>1 DEF Inv, Types
    <2> QED
        BY <1>1, <2>1, SlotsKept
<1>2. CASE ~ota2Set
    <2>1. Held(slot[2], 0, 2) = NoFile
        BY <1>2 DEF ImagesInv, Held
    <2>2. Holding' = Holding
        BY <1>2, <2>1 DEF Holding
    <2>3. ImagesInv'
        BY DEF ImagesInv
    <2> QED
        BY <2>2, <2>3
<1> QED
    BY <1>1, <1>2

LEMMA ExitRefines ==
    ASSUME Inv, ImagesInv, Exit, UNCHANGED <<slot, boot, cur>>, ota2Set' \in {ota2Set, TRUE}
    PROVE  ImagesInv' /\ [FW!Next]_(FW!vars)
<1>1. pc' = "idle" /\ file' = NoFile /\ ~dw'.hd
    BY DEF Exit, NoDownload
<1>2. ImagesInv' /\ Holding' = Holding
    <2>1. CASE ota2Set' = ota2Set
        BY <1>1, <2>1, SlotsKept DEF Early
    <2>2. CASE ota2Set' = TRUE
        BY <1>1, <2>2, AddressSet
    <2> QED
        BY <2>1, <2>2
<1> QED
    BY <1>1, <1>2, Withdraws

LEMMA EndRefines ==
    ASSUME Inv, ImagesInv,
           \/ NoResponse \/ RefuseFrame \/ CrcFails \/ DownloadFailed \/ TransferOver
           \/ RefuseHeader
    PROVE  ImagesInv' /\ [FW!Next]_(FW!vars)
<1>1. Exit /\ UNCHANGED <<slot, boot, cur>> /\ ota2Set' \in {ota2Set, TRUE}
    BY DEF NoResponse, RefuseFrame, CrcFails, DownloadFailed, TransferOver, RefuseHeader,
           flash
<1> QED
    BY <1>1, ExitRefines

\* A transfer begins; without a terminal nothing is offered.
LEMMA UartYmodemRefines ==
    ASSUME Inv, ImagesInv, NEW f \in Files \cup {NoFile}, UartYmodem(f)
    PROVE  ImagesInv' /\ [FW!Next]_(FW!vars)
<1>1. /\ pc = "idle" /\ pc' = "hello" /\ file' = f
      /\ UNCHANGED <<slot, ota2Set, boot, cur, dw>>
    BY DEF UartYmodem, flash
<1>2. file = NoFile /\ ~dw'.hd
    BY <1>1 DEF ImagesInv, Inv, ThreadInv
<1>3. ImagesInv' /\ Holding' = Holding
    BY <1>1, <1>2, SlotsKept DEF Early
<1>4. CASE f = NoFile
    BY <1>1, <1>2, <1>3, <1>4, Stutters
<1>5. CASE f \in Files
    BY <1>1, <1>2, <1>3, <1>5, Offers
<1> QED
    BY <1>3, <1>4, <1>5

\* The terminal and the line do not touch the flash.
LEMMA TerminalRefines ==
    ASSUME Inv, ImagesInv, Terminal
    PROVE  ImagesInv' /\ [FW!Next]_(FW!vars)
<1>1. UNCHANGED <<slot, ota2Set, boot, cur, pc, dw, file>>
    BY DEF Terminal, Send, SendLost, SendSpoiled, TakeAck, AckLost, TimesOut,
           TimesOutEarly, Cancel, flash
<1>2. InUse' = InUse /\ Intact' = Intact
    BY <1>1 DEF InUse, Intact, Target
<1>3. ImagesInv' /\ Holding' = Holding
    BY <1>1, <1>2, SlotsKept DEF ImagesInv
<1> QED
    BY <1>1, <1>3, Stutters

\* The steps of the thread that write no slot.
LEMMA AsideRefines ==
    ASSUME Inv, ImagesInv,
           \/ TakeEot \/ TakeBlock \/ EraseRdp \/ ZeroBlockEnds \/ StartNextRound \/ Verify
    PROVE  ImagesInv' /\ [FW!Next]_(FW!vars)
<1>1. UNCHANGED <<slot, ota2Set, boot, cur, file>> /\ pc' # "idle"
    BY DEF TakeEot, TakeBlock, EraseRdp, ZeroBlockEnds, StartNextRound, Verify, flash
<1>2. ota2Set \/ (pc' \in Early /\ ~dw'.hd) \/ (InUse' /\ ~Intact')
    <2> SUFFICES ASSUME ~ota2Set
                 PROVE  (pc' \in Early /\ ~dw'.hd) \/ (InUse' /\ ~Intact')
        OBVIOUS
    <2>1. CASE pc \in Early /\ ~dw.hd
        <3>1. pc # "eraseRdp" /\ dw.written = 0
            BY <2>1 DEF Early, Inv, ThreadInv
        <3>2. ~EraseRdp /\ ~Verify
            BY <3>1 DEF EraseRdp, Verify
        <3>3. dw' = dw /\ pc' \in Early
            BY <2>1, <3>2 DEF TakeEot, TakeBlock, ZeroBlockEnds, StartNextRound, Early
        <3> QED
            BY <2>1, <3>3
    <2>2. CASE InUse /\ ~Intact
        <3>1. /\ pc \in {"erase", "eraseRdp", "write", "crc"}
              /\ ~rx.crc /\ rx.data # Zeros
            BY <2>2 DEF Inv, AlteredInv
        <3>2. EraseRdp
            BY <3>1 DEF TakeEot, TakeBlock, ZeroBlockEnds, StartNextRound, Verify, CrcFits
        <3>3. dw'.hd /\ dw'.len = dw.len /\ dw'.begin = dw.begin
              /\ UNCHANGED <<file, cur>>
            BY <3>2 DEF EraseRdp, Inv, Types, Downloads
        <3> QED
            BY <2>2, <3>3 DEF InUse, Intact, Target
    <2> QED
        BY <2>1, <2>2 DEF ImagesInv
<1>3. ImagesInv' /\ Holding' = Holding
    BY <1>1, <1>2, SlotsKept
<1> QED
    BY <1>1, <1>3, Stutters

LEMMA TakeHeaderRefines ==
    ASSUME Inv, ImagesInv, TakeHeader
    PROVE  ImagesInv' /\ [FW!Next]_(FW!vars)
<1>1. ota2Set' = TRUE /\ pc' = "erase" /\ UNCHANGED <<slot, boot, cur, file>>
    BY DEF TakeHeader
<1>2. ImagesInv' /\ Holding' = Holding
    BY <1>1, AddressSet
<1> QED
    BY <1>1, <1>2, Stutters

\* Erasing begins with the sector of the signature.
LEMMA FirstSectorErased ==
    ASSUME NEW cells \in [Cells -> Bytes], NEW n \in Nat, BlankBelow(cells, n)
    PROVE  Unsigned(EraseSectorAt(cells, n))
<1>1. 0 \in Cells /\ 0 \div SectorLen = 0
    BY Lengths DEF Cells
<1>2. EraseSectorAt(cells, n)[0] = IF 0 = n THEN Erased ELSE cells[0]
    BY <1>1, EraseSectorOn
<1>3. 0 < n => cells[0] = Erased
    BY <1>1 DEF BlankBelow
<1>4. EraseSectorAt(cells, n)[0] = Erased
    BY <1>2, <1>3
<1> QED
    BY <1>4, FirstErased

LEMMA EraseInSlotRefines ==
    ASSUME Inv, ImagesInv, EraseSector, dw.len \in 1 .. SlotLen
    PROVE  ImagesInv' /\ [FW!Next]_(FW!vars)
<1> DEFINE cells == EraseSectorAt(slot[Target], step)
<1>1. /\ pc = "erase" /\ slot' = [slot EXCEPT ![Target] = cells]
      /\ UNCHANGED <<ota2Set, boot, cur, dw, file>> /\ pc' \in {"erase", "eraseRdp"}
    BY ErasesTarget DEF EraseSector
<1>2. /\ Target \in OTA_INDEX /\ Target # cur
      /\ slot[Target] \in [Cells -> Bytes] /\ step \in Nat
      /\ \A s \in OTA_INDEX : BlankBelow(slot[s], step - SlotAt(s))
    BY <1>1, ThreadFacts DEF Types, ThreadInv
<1>3. BlankBelow(slot[Target], step)
    <2>1. step - SlotAt(Target) = step
        BY <1>2 DEF SlotAt
    <2> QED
        BY <1>2, <2>1
<1>4. Unsigned(cells)
    BY <1>2, <1>3, FirstSectorErased
<1> HIDE DEF cells
<1>5. ~ota2Set => InUse' /\ ~Intact'
    <2>1. ~ota2Set => ~Intact
        BY <1>1 DEF ImagesInv, Early
    <2> QED
        BY <1>1, <2>1 DEF InUse, Intact, Target
<1>6. Replaced(cells) /\ Held(cells, 0, Target) = NoFile
    BY <1>1, <1>2, <1>4, <1>5, UnsignedHoldsNone DEF Replaced
<1>7. ImagesInv' /\ Holding' = [Holding EXCEPT ![Target] = NoFile]
    BY <1>6, ReplacedImages
<1> QED
    BY <1>1, <1>2, <1>7, Erases

\* An erase that overruns the slot leaves of every slot what it was or nothing; the
\* address of OTA2 goes after the image it belongs to.
LEMMA OverrunRefines ==
    ASSUME Inv, ImagesInv, Overrun
    PROVE  ImagesInv' /\ FW!EraseOn
<1>1. /\ pc = "erase" /\ pc' \in {"erase", "eraseRdp"}
      /\ slot' = [s \in OTA_INDEX |-> EraseSectorAt(slot[s], step - SlotAt(s))]
      /\ ota2Set' = (ota2Set /\ step # SystemAt)
      /\ boot' \in IF step = SystemAt THEN OTA_INDEX ELSE {boot}
      /\ UNCHANGED <<cur, dw, file>> /\ dw.len \notin 1 .. SlotLen
    BY DEF Overrun, EraseSector
<1>2. /\ cur \in OTA_INDEX /\ boot \in OTA_INDEX /\ file \in Files
      /\ slot \in [OTA_INDEX -> [Cells -> Bytes]] /\ step \in Nat
      /\ ota2Set \in BOOLEAN
      /\ \A s \in OTA_INDEX : BlankBelow(slot[s], step - SlotAt(s))
    BY <1>1, ThreadFacts DEF Types, ThreadInv
<1>3. ASSUME NEW s \in OTA_INDEX
      PROVE  /\ SlotAt(s) \in Nat
             /\ step < SlotAt(s) => slot'[s] = slot[s]
             /\ step >= SlotAt(s) => Unsigned(slot'[s])
    <2>1. SlotAt(s) \in Nat /\ slot[s] \in [Cells -> Bytes]
        BY <1>2, SlotAtIs
    <2> DEFINE n == step - SlotAt(s)
    <2>2. slot'[s] = EraseSectorAt(slot[s], n) /\ BlankBelow(slot[s], n)
        BY <1>1, <1>2
    <2>3. /\ step < SlotAt(s) => n \in Int /\ n < 0
          /\ step >= SlotAt(s) => n \in Nat
        BY <1>2, <2>1
    <2> HIDE DEF n
    <2> QED
        BY <2>1, <2>2, <2>3, EraseNone, FirstSectorErased
<1>4. ASSUME NEW s \in OTA_INDEX
      PROVE  slot'[s] = slot[s] \/ Unsigned(slot'[s])
    BY <1>2, <1>3
<1>5. step = SystemAt => Unsigned(slot'[2])
    <2>1. SlotSectors \in Nat /\ 2 \in OTA_INDEX
        BY ErasedSectorsIs DEF OTA_INDEX
    <2>2. SystemAt >= SlotAt(2)
        BY <1>2, <2>1 DEF SystemAt, RdpAt, SlotAt, Target, OTA_INDEX
    <2> QED
        BY <1>3, <2>1, <2>2
<1>6. InUse' /\ ~Intact'
    <2>1. file.len \in 1 .. SlotLen
        <3>1. 1 \in OTA_INDEX
            BY DEF OTA_INDEX
        <3> QED
            BY <1>2, <3>1, FileFacts, Lengths
    <2> QED
        BY <1>1, <2>1 DEF InUse, Intact
<1>7. ImagesInv'
    <2>1. \A s \in OTA_INDEX : Signed(slot'[s], 0, s) => Complete(slot'[s], 0, s)
        BY <1>4, UnsignedHoldsNone DEF ImagesInv
    <2>2. ~ota2Set' => ~Complete(slot'[2], 0, 2)
        <3>1. 2 \in OTA_INDEX
            BY DEF OTA_INDEX
        <3>2. CASE ~ota2Set
            BY <1>4, <3>1, <3>2, UnsignedHoldsNone DEF ImagesInv
        <3>3. CASE step = SystemAt
            BY <1>5, <3>1, <3>3, UnsignedHoldsNone
        <3> QED
            BY <1>1, <3>2, <3>3
    <2> QED
        BY <1>1, <1>6, <2>1, <2>2 DEF ImagesInv
<1>8. /\ Holding = [s \in OTA_INDEX |-> Held(slot[s], 0, s)]
      /\ Holding' = [s \in OTA_INDEX |-> Held(slot'[s], 0, s)]
    BY <1>7, HoldingIs, HoldingNext
<1>9. \A s \in OTA_INDEX : Holding'[s] \in {Holding[s], NoFile}
    BY <1>4, <1>8, UnsignedHoldsNone
<1>10. DOMAIN Holding' = OTA_INDEX /\ boot' \in OTA_INDEX
    BY <1>1, <1>2, <1>8
<1> QED
    BY <1>1, <1>7, <1>9, <1>10 DEF FW!EraseOn, Holding

\* While blocks are taken, no cell of the signature is written.
LEMMA SignatureBlank ==
    ASSUME Inv, OrderInv, dw.hd, pc = "write"
    PROVE  slot[Target][0] = Erased
<1>1. CASE Intact
    <2>1. BlankInv(file, dw, slot[Target]) /\ dw.written \in Nat
          /\ (dw.written > 0 => Len(dw.signature) = SigLen)
        BY <1>1 DEF Inv, Types, Downloads, ThreadInv, OrderInv, PassedInv
    <2>2. dw.written = 0 \/ Len(dw.signature) = SigLen
        BY <2>1
    <2>3. 0 \in 0 .. SigLen - 1
        BY Lengths
    <2> QED
        BY <2>1, <2>2, <2>3 DEF BlankInv
<1>2. CASE ~Intact
    <2>1. BlankBelow(slot[Target], 1)
        BY <1>2 DEF Inv, AlteredInv, InUse
    <2>2. 0 \in 0 .. BlockLen - 1
        BY Lengths
    <2> QED
        BY <2>1, <2>2, FirstSector
<1> QED
    BY <1>1, <1>2

LEMMA SignatureStaysBlank ==
    ASSUME Inv', OrderInv', dw'.hd, pc' = "crc"
    PROVE  slot'[Target'][0] = Erased
<1>1. CASE Intact'
    <2>1. BlankInv(file', dw', slot'[Target']) /\ dw'.written \in Nat
          /\ (dw'.written > 0 => Len(dw'.signature) = SigLen)
        BY <1>1 DEF Inv, Types, Downloads, ThreadInv, OrderInv, PassedInv
    <2>2. dw'.written = 0 \/ Len(dw'.signature) = SigLen
        BY <2>1
    <2>3. 0 \in 0 .. SigLen - 1
        BY Lengths
    <2> QED
        BY <2>1, <2>2, <2>3 DEF BlankInv
<1>2. CASE ~Intact'
    BY <1>2 DEF Inv, AlteredInv, InUse
<1> QED
    BY <1>1, <1>2

LEMMA WriteBlockRefines ==
    ASSUME Inv, OrderInv, Inv', OrderInv', ImagesInv, WriteBlock
    PROVE  ImagesInv' /\ [FW!Next]_(FW!vars)
<1>1. /\ pc = "write" /\ pc' = "crc" /\ UNCHANGED <<ota2Set, boot, cur, file>>
      /\ dw'.hd = dw.hd /\ dw'.len = dw.len /\ dw'.begin = dw.begin
    BY DEF WriteBlock, Inv, Types, Downloads
<1>2. PICK cells : slot' = [slot EXCEPT ![Target] = cells]
    BY DEF WriteBlock
<1>3. /\ Target \in OTA_INDEX /\ slot \in [OTA_INDEX -> [Cells -> Bytes]] /\ dw.hd
    BY <1>1, ThreadFacts DEF Types, ThreadInv
<1>4. dw'.hd /\ Target' = Target /\ slot'[Target] = cells /\ Intact' = Intact
    BY <1>1, <1>2, <1>3 DEF Target, Intact
<1>5. slot[Target][0] = Erased
    BY <1>1, <1>3, SignatureBlank
<1>6. cells[0] = Erased
    <2>1. slot'[Target'][0] = Erased
        BY <1>1, <1>4, SignatureStaysBlank
    <2> QED
        BY <1>4, <2>1
<1>7. Unsigned(cells) /\ Unsigned(slot[Target])
    BY <1>5, <1>6, FirstErased
<1>8. ~ota2Set => InUse' /\ ~Intact'
    BY <1>1, <1>3, <1>4 DEF ImagesInv, InUse
<1>9. Replaced(cells)
    BY <1>1, <1>2, <1>7, <1>8 DEF Replaced
<1>10. ImagesInv' /\ Holding' = Holding
    BY <1>7, <1>9, StillNone
<1> QED
    BY <1>1, <1>10, Stutters

\* The places behind the last block, which only a header that is intact leads to.
LEMMA AddressKept ==
    ASSUME Inv, ImagesInv, pc \in {"clear", "sign", "exit"}
    PROVE  ota2Set
  BY DEF ImagesInv, Early, Inv, AlteredInv

\* What failed the check had no signature yet.
LEMMA ClearRefines ==
    ASSUME Inv, OrderInv, ImagesInv, ClearSignatureZone
    PROVE  ImagesInv' /\ [FW!Next]_(FW!vars)
<1> DEFINE cells == EraseSectorAt(slot[Target], 0)
<1>1. /\ pc = "clear" /\ slot' = [slot EXCEPT ![Target] = cells]
      /\ UNCHANGED <<ota2Set, boot, cur>> /\ file' = NoFile
    BY DEF ClearSignatureZone, Exit
<1>2. /\ Target \in OTA_INDEX /\ slot[Target] \in [Cells -> Bytes]
      /\ slot[Target][0] = Erased
    BY <1>1, ThreadFacts DEF OrderInv, EndInv
<1>3. ota2Set
    BY <1>1, AddressKept
<1>4. cells[0] = Erased
    <2>1. 0 \in Cells /\ 0 \div SectorLen = 0
        <3>1. file \in Files /\ 0 < SlotLen
            BY <1>1, <1>2, ThreadFacts, FileFacts, Lengths
        <3> QED
            BY <3>1, Lengths DEF Cells
    <2> QED
        BY <1>2, <2>1, EraseSectorOn
<1> HIDE DEF cells
<1>5. Replaced(cells) /\ Unsigned(cells) /\ Unsigned(slot[Target])
    BY <1>1, <1>2, <1>3, <1>4, FirstErased DEF Replaced
<1>6. ImagesInv' /\ Holding' = Holding
    BY <1>5, StillNone
<1> QED
    BY <1>1, <1>6, Withdraws

\* The last byte of the signature makes a whole image of the slot, and no other
\* byte does.
LEMMA WriteSignatureRefines ==
    ASSUME Inv, Inv', SignInv', ImagesInv, WriteSignature
    PROVE  ImagesInv' /\ [FW!Next]_(FW!vars)
<1> DEFINE cells == Program(slot[Target], step, <<dw.signature[step + 1]>>)
<1>1. /\ pc = "sign" /\ step < SigLen /\ slot' = [slot EXCEPT ![Target] = cells]
      /\ step' = step + 1 /\ UNCHANGED <<ota2Set, boot, cur, file, pc, dw>>
    BY DEF WriteSignature
<1>2. /\ Target \in OTA_INDEX /\ Target # cur /\ file \in Files
      /\ slot \in [OTA_INDEX -> [Cells -> Bytes]] /\ step \in Nat
      /\ \A k \in step .. SigLen - 1 : slot[Target][k] = Erased
    BY <1>1, ThreadFacts DEF Types, ThreadInv
<1>3. ota2Set
    BY <1>1, AddressKept
<1> HIDE DEF cells
<1>4. slot'[Target] = cells /\ Target' = Target
    BY <1>1, <1>2 DEF Target
<1>5. \A k \in step + 1 .. SigLen - 1 : cells[k] = Erased
    BY <1>1, <1>4 DEF Inv, ThreadInv
<1>6. Unsigned(slot[Target])
    <2>1. step \in step .. SigLen - 1 /\ step \in 0 .. SigLen - 1
        BY <1>1, <1>2, Lengths
    <2> QED
        BY <1>2, <2>1 DEF Unsigned
<1>7. CASE step + 1 < SigLen
    <2>1. step + 1 \in step + 1 .. SigLen - 1 /\ step + 1 \in 0 .. SigLen - 1
        BY <1>2, <1>7, Lengths
    <2>2. Unsigned(cells)
        BY <1>5, <2>1 DEF Unsigned
    <2>3. Replaced(cells)
        BY <1>1, <1>3, <2>2 DEF Replaced
    <2>4. ImagesInv' /\ Holding' = Holding
        BY <1>6, <2>2, <2>3, StillNone
    <2> QED
        BY <1>1, <2>4, Stutters
<1>8. CASE step + 1 = SigLen
    <2>1. IsImage(cells, 0, file, Target)
        <3> SUFFICES ASSUME NEW k \in 0 .. file.len - 1
                     PROVE  cells[0 + k] = Served(file, file.ota[Target] + k)
            BY DEF IsImage
        <3>1. IF k < SigLen
              THEN /\ dw.signature[k + 1] = Served(file, file.ota[Target] + k)
                   /\ k < SigLen => cells[k] = dw.signature[k + 1]
              ELSE cells[k] = Served(file, file.ota[Target] + k)
            BY <1>1, <1>4, <1>8 DEF SignInv
        <3>2. 0 + k = k
            OBVIOUS
        <3> QED
            BY <3>1, <3>2
    <2>2. Replaced(cells) /\ Held(cells, 0, Target) = file
        BY <1>1, <1>2, <1>3, <2>1, HeldIsImage DEF Replaced
    <2>3. ImagesInv' /\ Holding' = [Holding EXCEPT ![Target] = file]
        BY <2>2, ReplacedImages
    <2>4. Holding[Target] = NoFile /\ file # NoFile
        BY <1>2, <1>6, HoldingIs, UnsignedHoldsNone, NoFileIsNone
    <2> QED
        BY <1>1, <1>2, <2>3, <2>4, Installs
<1> QED
    BY <1>1, <1>2, <1>7, <1>8, Lengths

LEMMA OtaChangeRefines ==
    ASSUME Inv, ImagesInv, OtaChange
    PROVE  ImagesInv' /\ [FW!Next]_(FW!vars)
<1>1. /\ pc = "sign" /\ pc' = "exit" /\ boot' = Target /\ Target \in OTA_INDEX
      /\ UNCHANGED <<slot, ota2Set, cur, file>>
    BY ThreadFacts DEF OtaChange
<1>2. ImagesInv' /\ Holding' = Holding
    BY <1>1, AddressKept, SlotsKept
<1> QED
    BY <1>1, <1>2, Selects

LEMMA NextRefines ==
    ASSUME Inv, OrderInv, Inv', OrderInv', SignInv', ImagesInv, [Next]_vars
    PROVE  ImagesInv' /\ [FW!Next \/ (Overrun /\ FW!EraseOn)]_(FW!vars)
<1>1. CASE \E f \in Files \cup {NoFile} : UartYmodem(f)
    BY <1>1, UartYmodemRefines
<1>2. CASE Terminal
    BY <1>2, TerminalRefines
<1>3. CASE \/ NoResponse \/ RefuseFrame \/ CrcFails \/ DownloadFailed \/ TransferOver
           \/ RefuseHeader
    BY <1>3, EndRefines
<1>4. CASE \/ TakeEot \/ TakeBlock \/ EraseRdp \/ ZeroBlockEnds \/ StartNextRound
           \/ Verify
    BY <1>4, AsideRefines
<1>5. CASE TakeHeader
    BY <1>5, TakeHeaderRefines
<1>6. CASE EraseSector
    BY <1>6, EraseInSlotRefines, OverrunRefines DEF Overrun
<1>7. CASE WriteBlock
    BY <1>7, WriteBlockRefines
<1>8. CASE ClearSignatureZone
    BY <1>8, ClearRefines
<1>9. CASE WriteSignature
    BY <1>9, WriteSignatureRefines
<1>10. CASE OtaChange
    BY <1>10, OtaChangeRefines
<1>11. CASE Restart
    BY <1>11, RestartRefines
<1>12. CASE UNCHANGED vars
    <2>1. UNCHANGED <<slot, ota2Set, boot, cur, pc, dw, file>>
        BY <1>12 DEF vars, flash
    <2>2. InUse' = InUse /\ Intact' = Intact
        BY <2>1 DEF InUse, Intact, Target
    <2>3. ImagesInv' /\ Holding' = Holding
        BY <2>1, <2>2, SlotsKept DEF ImagesInv
    <2> QED
        BY <2>1, <2>3, Stutters
<1> QED
    BY <1>1, <1>2, <1>3, <1>4, <1>5, <1>6, <1>7, <1>8, <1>9, <1>10, <1>11, <1>12,
       Zenon DEF Next, Thread

\* A device as it leaves the factory runs the image in its first slot; there is
\* none in the other.
LEMMA InitRefines == Init => ImagesInv /\ FW!Init
<1> SUFFICES ASSUME Init
             PROVE  ImagesInv /\ FW!Init
    OBVIOUS
<1>1. PICK f \in Files :
         slot = [s \in OTA_INDEX |->
                   [k \in Cells |->
                      IF s = 1 /\ k < f.len THEN Served(f, f.ota[1] + k) ELSE Erased]]
    BY DEF Init
<1>2. /\ f.len \in Nat /\ f.len <= SlotLen /\ SlotLen \in Nat /\ SlotLen > 0
      /\ f.len > 0
    <2>1. 1 \in OTA_INDEX
        BY DEF OTA_INDEX
    <2> QED
        BY <2>1, FileFacts, Lengths
<1>3. IsImage(slot[1], 0, f, 1)
    <2> SUFFICES ASSUME NEW k \in 0 .. f.len - 1
                 PROVE  slot[1][0 + k] = Served(f, f.ota[1] + k)
        BY DEF IsImage
    <2>1. 0 + k = k /\ k \in Cells /\ k < f.len /\ 1 \in OTA_INDEX
        BY <1>2 DEF Cells, OTA_INDEX
    <2> QED
        BY <1>1, <2>1
<1>4. Unsigned(slot[2])
    <2>1. 0 \in Cells /\ 2 \in OTA_INDEX /\ 2 # 1
        BY <1>2 DEF Cells, OTA_INDEX
    <2>2. slot[2][0] = Erased
        BY <1>1, <2>1
    <2> QED
        BY <2>2, FirstErased
<1>5. /\ 1 \in OTA_INDEX /\ 2 \in OTA_INDEX
      /\ \A s \in OTA_INDEX : s = 1 \/ s = 2
    BY DEF OTA_INDEX
<1>6. Complete(slot[1], 0, 1) /\ Held(slot[1], 0, 1) = f
    BY <1>3, <1>5, HeldIsImage
<1>7. ~Signed(slot[2], 0, 2) /\ ~Complete(slot[2], 0, 2) /\ Held(slot[2], 0, 2) = NoFile
    BY <1>4, <1>5, UnsignedHoldsNone
<1>8. ImagesInv
    <2>1. pc = "idle" /\ file = NoFile /\ ~dw.hd
        BY DEF Init, NoDownload
    <2>2. \A s \in OTA_INDEX : Signed(slot[s], 0, s) => Complete(slot[s], 0, s)
        BY <1>5, <1>6, <1>7
    <2> QED
        BY <1>7, <2>1, <2>2 DEF ImagesInv, Early
<1>9. \A s \in OTA_INDEX : Holding[s] = IF s = 1 THEN f ELSE NoFile
    <2> TAKE s \in OTA_INDEX
    <2>1. Holding[s] = IF s = 2 /\ ~ota2Set THEN NoFile ELSE Held(slot[s], 0, s)
        BY DEF Holding
    <2> QED
        BY <1>5, <1>6, <1>7, <2>1
<1>10. Holding \in [OTA_INDEX -> Files \cup {NoFile}]
    <2>1. Holding = [s \in OTA_INDEX |-> Holding[s]]
        BY DEF Holding
    <2> QED
        BY <1>9, <2>1
<1>11. /\ boot \in OTA_INDEX /\ cur \in OTA_INDEX /\ file = NoFile
       /\ Holding[cur] # NoFile
    BY <1>5, <1>9, NoFileIsNone DEF Init
<1> QED
    BY <1>8, <1>10, <1>11 DEF FW!Init, Holding

\* The serial update is one of Firmware, for any files and blocks, and whatever is
\* lost, repeated, spoiled or cut on the line, and whenever the power goes, but for an
\* erase that overruns the slot: a slot always holds a whole image or nothing, the one
\* installed is the one the terminal sends, and the device only starts one that is
\* whole.  An overrun takes images whole, the running one with them, and the boot index.
\* The hypothesis is that the sum of an image tells misplaced blocks; the code's does not
\* tell two blocks with the same sum apart.
THEOREM Refinement ==
    ASSUME ChecksumTells
    PROVE  Spec => UpdatesFirmware
<1>1. Inv /\ OrderInv /\ (Inv /\ OrderInv)' /\ SignInv' /\ ImagesInv /\ [Next]_vars =>
          ImagesInv' /\ [FW!Next \/ (Overrun /\ FW!EraseOn)]_(FW!vars)
    BY NextRefines
<1>2. Spec => []SignInv
    BY SignAlways
<1> QED
    BY <1>1, <1>2, InitRefines, OrderAlways, PTL DEF Spec, UpdatesFirmware

-----------------------------------------------------------------------------
(* When no length in an altered header is outside the slot.                  *)

LengthInv == InUse => dw.len = file.len \/ dw.len \in AlteredLens

LEMMA LengthAlways == Spec => []LengthInv
<1>1. Init => LengthInv
    BY DEF Init, NoDownload, LengthInv, InUse
<1>2. ASSUME Inv, LengthInv, [Next]_vars
      PROVE  LengthInv'
    <2>1. CASE dw'.len = dw.len /\ file' = file /\ (InUse' => InUse)
        BY <1>2, <2>1 DEF LengthInv
    <2>2. CASE Exit
        BY <2>2 DEF Exit, NoDownload, LengthInv, InUse
    <2>3. CASE TakeHeader
        <3>1. file' = file /\ (dw'.len = file.len \/ dw'.len \in AlteredLens)
            BY <1>2, <2>3 DEF TakeHeader, Inv, Types, Downloads
        <3> QED
            BY <3>1 DEF LengthInv
    <2>4. CASE UNCHANGED <<pc, dw, file>>
        BY <2>1, <2>4 DEF InUse
    <2>5. CASE Terminal
        BY <2>4, <2>5 DEF Terminal, Send, SendLost, SendSpoiled, TakeAck, AckLost, TimesOut,
                    TimesOutEarly, Cancel
    <2>6. CASE Thread /\ ~TakeHeader
        <3>1. Exit \/ (dw'.len = dw.len /\ file' = file /\ (InUse' => InUse))
            BY <1>2, <2>6 DEF Thread, NoResponse, RefuseFrame, TakeEot, TakeBlock,
               RefuseHeader, EraseSector, EraseRdp, WriteBlock, CrcFails, ZeroBlockEnds,
               StartNextRound, DownloadFailed, Verify, ClearSignatureZone,
               WriteSignature, OtaChange, TransferOver, InUse, Inv, Types, Downloads
        <3> QED
            BY <2>1, <2>2, <3>1
    <2>7. CASE Restart
        BY <2>2, <2>7 DEF Restart
    <2>8. CASE \E f \in Files \cup {NoFile} : UartYmodem(f)
        BY <1>2, <2>8 DEF UartYmodem, LengthInv, InUse, Inv, ThreadInv
    <2>9. CASE UNCHANGED vars
        BY <2>4, <2>9 DEF vars
    <2> QED
        BY <1>2, <2>3, <2>5, <2>6, <2>7, <2>8, <2>9 DEF Next
<1> QED
    BY <1>1, <1>2, InvAlways, PTL DEF Spec

\* So long as what noise makes of the length in a header is a length a slot holds, the
\* serial update is one of Firmware without exception: nothing it does, and no loss of
\* power, leaves the device without the image it runs.
THEOREM RefinementInSlot ==
    ASSUME ChecksumTells, AlteredLens \subseteq 1 .. SlotLen
    PROVE  Spec => FW!Spec
<1>1. Inv /\ LengthInv => ~Overrun
    <2> SUFFICES ASSUME Inv, LengthInv, EraseSector
                 PROVE  dw.len \in 1 .. SlotLen
        BY DEF Overrun
    <2>1. file \in Files /\ 1 \in OTA_INDEX /\ InUse
        BY ThreadFacts DEF EraseSector, OTA_INDEX, InUse
    <2>2. file.len \in 1 .. SlotLen
        BY <2>1, FileFacts, Lengths
    <2> QED
        BY <2>1, <2>2 DEF LengthInv
<1>2. Spec => UpdatesFirmware
    BY Refinement
<1>3. Inv /\ LengthInv /\ [FW!Next \/ (Overrun /\ FW!EraseOn)]_(FW!vars) =>
          [FW!Next]_(FW!vars)
    BY <1>1
<1> QED
    BY <1>2, <1>3, InvAlways, LengthAlways, PTL DEF UpdatesFirmware, FW!Spec
=============================================================================
