-------------------------------- MODULE YModem --------------------------------
(***************************************************************************)
(* The firmware update over the serial line: uart_ymodem_thread of         *)
(* common/utilities/uart_ymodem.c, the terminal that sends the file, and   *)
(* the line between them, as far as the flash they leave behind.           *)
(*                                                                         *)
(* The receiver takes the frames for what they come after, not for the     *)
(* number they carry: block_num_check only compares the number with its    *)
(* complement.  It writes a block to the flash before it looks at its CRC, *)
(* and takes one of zeros, as its cleared buffer holds when a frame breaks *)
(* off behind its number, without CRC.  All that stands between a repeated *)
(* or skipped block and the boot loader is the check at the end.           *)
(***************************************************************************)
EXTENDS OtaImage

CONSTANTS
    BlockLen,       \* 128 or 1024, the data bytes of a frame
    Pad,            \* the byte the terminal fills up its last block with
    ZeroBlock,      \* 0xff, the block that ends the file when it is zero
    AlteredLens,    \* bound: the lengths noise may put into the header
    MaxFaults       \* bound: faults of the line and of the terminal's timer

\* A block fits in a sector.  The header of the file lies in its first block; no
\* image ends in a block in which its signature is still to be completed; no byte
\* that is sent has the value of one programmed twice.
ASSUME YModemAssumption ==
    /\ BlockLen \in Nat /\ SigLen <= BlockLen /\ BlockLen <= SectorLen
    /\ \A f \in Files : /\ f.hdr <= BlockLen /\ BlockLen < f.len
                       /\ BlockLen + SigLen <= f.len + 1
    /\ ZeroBlock \in Nat /\ AlteredLens \subseteq Nat /\ MaxFaults \in Nat
    /\ Overwritten \notin {0, Pad}

VARIABLES
    slot,       \* flash: the bytes of the two slots
    rdp,        \* flash: whether the RDP image is there
    ota2Set,    \* flash: whether the address of OTA2 is in the system data
    boot,       \* flash: the index OTA_Change last set
    cur,        \* ota_get_cur_index: the slot the running firmware is in
    pc,         \* where uart_ymodem_thread is; "idle" when there is none
    rx,         \* uart_irq_buf, once the line is silent
    late,       \* whether bytes came in while the thread worked
    nxt,        \* nxt_num
    dw,         \* hd_flags, IMAGE_LEN, IMAGE_OFFSET, file_offset,
                \* flash_write_len, uart_signature
    step,       \* sectors erased, or bytes of the signature written
    file,       \* the file the terminal sends; NoFile when it sends none
    snd,        \* the terminal: the frame it is at, and "send" or "await"
    acks,       \* MODEM_ACKs on their way to it
    faults,     \* faults so far
    harmed      \* whether the receiver got something else than its next frame

flash == <<slot, rdp, ota2Set, boot>>
line == <<rx, late, snd, acks, faults, harmed>>
vars == <<flash, cur, pc, nxt, dw, step, file, line>>

\* ota_get_cur_index tells the slot that runs, whatever is booted next.
Target == 3 - cur

Cells == 0 .. SlotLen - 1

\* The boot loader (not in this repository), as in OtaUpdate.
Bootable == {s \in OTA_INDEX : Signed(slot[s], 0, s) /\ (s = 2 => ota2Set)}
BootLoader == IF boot \in Bootable THEN {boot} ELSE Bootable

-----------------------------------------------------------------------------
(* Frames.                                                                 *)

NoFrame == [kind |-> "none", no |-> 0, data |-> <<>>, crc |-> FALSE]
EotFrame(n) == [NoFrame EXCEPT !.kind = "eot", !.no = n]
BadFrame == [NoFrame EXCEPT !.kind = "bad"]
Zeros == [k \in 1 .. BlockLen |-> 0]

LastBlock == (Total(file) - 1) \div BlockLen + 1

Byte(f, o) == IF o < Total(f) THEN Served(f, o) ELSE Pad

\* The n-th block of file f: its name, or its bytes.
Block(f, n) ==
    [k \in 1 .. BlockLen |->
        IF n = 0 THEN Pad ELSE Byte(f, (n - 1) * BlockLen + k - 1)]

\* The frame the terminal sends as its n-th: the name of the file, the blocks
\* of the file, the end of the transmission.
Frame(n) ==
    IF n > LastBlock THEN EotFrame(n)
    ELSE [kind |-> "block", no |-> n, crc |-> TRUE, data |-> Block(file, n)]

\* What noise makes of it: no frame at all, the end of the transmission, a byte
\* that does not fit the CRC, or a frame that broke off behind its number.
Spoiled(f) ==
    {BadFrame, EotFrame(0)} \cup
    (IF f.kind = "block"
     THEN {[f EXCEPT !.data[k] = Corrupted, !.crc = FALSE] : k \in 1 .. BlockLen}
          \cup {[f EXCEPT !.data = Zeros, !.crc = FALSE]}
     ELSE {})

Listening == pc \in {"hello", "frame"} /\ rx = NoFrame

-----------------------------------------------------------------------------
NoDownload == [hd |-> FALSE, len |-> 0, begin |-> 0, offset |-> 0, written |-> 0,
               signature |-> <<>>]

Init ==
    /\ \E f \in {g \in Files : g.ours} :
          slot = [s \in OTA_INDEX |->
                    [k \in Cells |->
                       IF s = 1 /\ k < f.len THEN Served(f, f.ota[1] + k)
                       ELSE Erased]]
    /\ rdp = TRUE
    /\ ota2Set \in BOOLEAN
    /\ boot = 1 /\ cur = 1
    /\ pc = "idle"
    /\ rx = NoFrame /\ late = FALSE
    /\ nxt = 0 /\ dw = NoDownload /\ step = 0
    /\ file = NoFile
    /\ snd = [n |-> 0, state |-> "off"]
    /\ acks = 0 /\ faults = 0 /\ harmed = FALSE

\* exit: the thread gives up the serial line; what the terminal still sends goes
\* to nobody, and it gives up too.
Exit ==
    /\ pc' = "idle"
    /\ rx' = NoFrame /\ late' = FALSE
    /\ nxt' = 0 /\ dw' = NoDownload /\ step' = 0
    /\ file' = NoFile
    /\ snd' = [n |-> 0, state |-> "off"]
    /\ acks' = 0 /\ faults' = 0 /\ harmed' = FALSE

\* The power is lost, or somebody resets the device.
Restart ==
    /\ cur' \in BootLoader
    /\ Exit
    /\ UNCHANGED flash

\* The firmware that runs is still in the flash it runs from.
Alive == Complete(slot[cur], 0, cur)

\* The command ATSY; a terminal is there, or is not.
UartYmodem(f) ==
    /\ pc = "idle" /\ Alive
    /\ pc' = "hello"
    /\ file' = f
    /\ snd' = [n |-> 0, state |-> IF f = NoFile THEN "off" ELSE "send"]
    /\ UNCHANGED <<flash, cur, rx, late, nxt, dw, step, acks, faults, harmed>>

-----------------------------------------------------------------------------
(* The terminal (not in this repository) and the line.                     *)

\* The frame f comes in.  While the thread works it is put behind the frame in
\* work, to be cleared with it; but uart_irq_buf holds only one frame of 1024
\* bytes, and the CRC of the frame in work may be overwritten before it is read.
Deliver(f) ==
    \/ /\ Listening
       /\ rx' = f
       /\ harmed' = (harmed \/ f # Frame(nxt))
       /\ UNCHANGED late
    \/ /\ ~Listening
       /\ late' = TRUE
       /\ rx' \in {rx} \cup (IF f.kind = "block" /\ rx.kind = "block" /\ f # rx
                             THEN {[rx EXCEPT !.crc = FALSE]} ELSE {})
       /\ UNCHANGED harmed

\* A terminal waits longer than the silence that ends a frame (50 ticks).
MaySend == snd.state = "send" /\ (Listening \/ pc \notin {"idle", "hello", "frame"})

Send ==
    /\ MaySend
    /\ Deliver(Frame(snd.n))
    /\ snd' = [snd EXCEPT !.state = "await"]
    /\ UNCHANGED <<flash, cur, pc, nxt, dw, step, file, acks, faults>>

SendLost ==
    /\ MaySend /\ faults < MaxFaults
    /\ snd' = [snd EXCEPT !.state = "await"]
    /\ faults' = faults + 1
    /\ UNCHANGED <<flash, cur, pc, nxt, dw, step, file, rx, late, acks, harmed>>

SendSpoiled ==
    /\ MaySend /\ faults < MaxFaults
    /\ \E f \in Spoiled(Frame(snd.n)) : Deliver(f)
    /\ snd' = [snd EXCEPT !.state = "await"]
    /\ faults' = faults + 1
    /\ UNCHANGED <<flash, cur, pc, nxt, dw, step, file, acks>>

TakeAck ==
    /\ snd.state = "await" /\ acks > 0
    /\ acks' = acks - 1
    /\ snd' = IF snd.n > LastBlock THEN [n |-> 0, state |-> "off"]
              ELSE [n |-> snd.n + 1, state |-> "send"]
    /\ UNCHANGED <<flash, cur, pc, nxt, dw, step, file, rx, late, faults, harmed>>

AckLost ==
    /\ acks > 0 /\ faults < MaxFaults
    /\ acks' = acks - 1
    /\ faults' = faults + 1
    /\ UNCHANGED <<flash, cur, pc, nxt, dw, step, file, rx, late, snd, harmed>>

\* Nothing is on its way: the frame or its ACK was lost.
TimesOut ==
    /\ snd.state = "await" /\ acks = 0 /\ Listening
    /\ snd' = [snd EXCEPT !.state = "send"]
    /\ UNCHANGED <<flash, cur, pc, nxt, dw, step, file, rx, late, acks, faults,
                   harmed>>

\* The thread is still at work (erasing takes seconds), or its ACK on its way.
TimesOutEarly ==
    /\ snd.state = "await" /\ faults < MaxFaults
    /\ acks > 0 \/ (pc # "idle" /\ ~Listening)
    /\ snd' = [snd EXCEPT !.state = "send"]
    /\ faults' = faults + 1
    /\ UNCHANGED <<flash, cur, pc, nxt, dw, step, file, rx, late, acks, harmed>>

\* The user gives up: the terminal sends CANs.
Cancel ==
    /\ snd.state # "off" /\ Listening
    /\ Deliver(BadFrame)
    /\ snd' = [n |-> 0, state |-> "off"]
    /\ UNCHANGED <<flash, cur, pc, nxt, dw, step, file, acks, faults>>

-----------------------------------------------------------------------------
(* The thread: a frame comes in.                                           *)

\* "no response after 2min"
NoResponse ==
    /\ pc = "hello" /\ rx = NoFrame
    /\ Exit
    /\ UNCHANGED <<flash, cur>>

\* Anything but SOH, STX and EOT ends the thread, CAN by way of a number that
\* is none.
RefuseFrame ==
    /\ pc \in {"hello", "frame"} /\ rx.kind = "bad"
    /\ Exit
    /\ UNCHANGED <<flash, cur>>

TakeEot ==
    /\ pc \in {"hello", "frame"} /\ rx.kind = "eot"
    /\ pc' = "signature"
    /\ acks' = acks + 1
    /\ UNCHANGED <<flash, cur, nxt, dw, step, file, rx, late, snd, faults, harmed>>

\* The first block is not written: it holds the name of the file.
TakeBlock ==
    /\ pc \in {"hello", "frame"} /\ rx.kind = "block"
    /\ pc' = IF nxt = 0 THEN "crc" ELSE IF dw.hd THEN "write" ELSE "header"
    /\ UNCHANGED <<flash, cur, nxt, dw, step, file, line>>

-----------------------------------------------------------------------------
(* data_write_to_flash.                                                    *)

\* Only the first block of a file reads as a header.
HeaderArrived ==
    /\ rx.no = 1
    /\ \A k \in 1 .. file.hdr : rx.data[k] = Served(file, k - 1)

\* Noise may spare the name and the address of the image alone.  Such a frame does
\* not fit its CRC, but that is looked at later.  A header of zeros is none.
HeaderAltered == rx.no = 1 /\ ~HeaderArrived /\ ~rx.crc /\ rx.data # Zeros

\* No image for this slot; or get_ota_address has written the default address
\* of OTA2 and refuses the address or the length in the header.
RefuseHeader ==
    /\ pc = "header"
    /\ ota2Set' \in {ota2Set, TRUE}
    /\ Exit
    /\ UNCHANGED <<slot, rdp, boot, cur>>

\* IMAGE_LEN and IMAGE_OFFSET as the header has them.  BlockLen stands for every
\* offset behind this block.  Only for OTA1 is the length looked at.
TakeHeader ==
    /\ pc = "header"
    /\ \/ HeaderArrived /\ dw' = [dw EXCEPT !.len = file.len, !.begin = file.ota[Target]]
       \/ /\ HeaderAltered
          /\ \E len \in AlteredLens, begin \in 0 .. BlockLen :
                /\ Target = 1 => len <= SlotLen
                /\ dw' = [dw EXCEPT !.len = len, !.begin = begin]
    /\ ota2Set' = TRUE
    /\ pc' = "erase"
    /\ UNCHANGED <<slot, rdp, boot, cur, nxt, step, file, line>>

\* The flash: slot 1, slot 2, the sector of the RDP image, and then, for the chip
\* ignores the higher bits of an address, what lies before slot 1: the boot loader
\* (not modelled) and the system data, with the address of OTA2 and boot.
SlotSectors == (SlotLen - 1) \div SectorLen + 1
FlashSectors == 2 * SlotSectors + 2

\* How many sectors behind Target's first one they are.
SlotAt(s) ==
    IF s = Target THEN 0 ELSE IF s = 2 THEN SlotSectors ELSE SlotSectors + 2
RdpAt == IF Target = 1 THEN 2 * SlotSectors ELSE SlotSectors
SystemAt == RdpAt + 1

\* ((len - 1) / 4096) + 1 in 32 bits: no length is 2^20 sectors, which like any
\* length of more than the flash is all there are.
ErasedSectors(len) ==
    IF len = 0 THEN FlashSectors
    ELSE Min({FlashSectors, (len - 1) \div SectorLen + 1})

\* erase_ota_target_flash, one sector; one behind the slot, when the length leads
\* there.
EraseSector ==
    /\ pc = "erase"
    /\ slot' = [s \in OTA_INDEX |-> EraseSectorAt(slot[s], step - SlotAt(s))]
    /\ rdp' = (rdp /\ step # RdpAt)
    /\ ota2Set' = (ota2Set /\ step # SystemAt)
    /\ boot' \in IF step = SystemAt THEN OTA_INDEX ELSE {boot}
    /\ step' = step + 1
    /\ pc' = IF step' = ErasedSectors(dw.len) THEN "eraseRdp" ELSE "erase"
    /\ UNCHANGED <<cur, nxt, dw, file, line>>

\* The RDP image is erased, and never written.
EraseRdp ==
    /\ pc = "eraseRdp"
    /\ rdp' \in IF HeaderArrived THEN {rdp /\ file.rdpLen = 0} ELSE {rdp, FALSE}
    /\ dw' = [dw EXCEPT !.hd = TRUE]
    /\ pc' = "write"
    /\ UNCHANGED <<slot, ota2Set, boot, cur, nxt, step, file, line>>

Begin == dw.begin
End == Begin + dw.len
EndsHere == End \in dw.offset + 1 .. dw.offset + BlockLen - 1

\* Mutant: the block in which the image ends is not cut.
PartOfImageUncut ==
    IF Begin \in dw.offset .. dw.offset + BlockLen - 1
    THEN SubSeq(rx.data, Begin - dw.offset + 1, BlockLen)
    ELSE IF Begin < dw.offset /\ dw.offset < End THEN rx.data
    ELSE <<>>

\* The part of the block that belongs to the image.
PartOfImage ==
    IF Begin \in dw.offset .. dw.offset + BlockLen - 1
    THEN SubSeq(rx.data, Begin - dw.offset + 1, BlockLen)
    ELSE IF Begin < dw.offset /\ EndsHere
         THEN SubSeq(rx.data, 1, End - dw.offset)
    ELSE IF Begin < dw.offset /\ dw.offset < End THEN rx.data
    ELSE <<>>

\* Mutant: what the block before held of the signature is not counted.
PartOfSignatureUncounted ==
    IF dw.signature = <<>> \/ Len(dw.signature) < SigLen
    THEN SubSeq(PartOfImage, 1, Min({Len(PartOfImage), SigLen}))
    ELSE <<>>

\* Its first bytes go to uart_signature, until that is full.
PartOfSignature ==
    IF Begin < dw.offset /\ EndsHere THEN <<>>
    ELSE SubSeq(PartOfImage, 1, Min({Len(PartOfImage), SigLen - Len(dw.signature)}))

\* flash_offset is what there is of the signature and of the rest.
WriteBlock ==
    LET data == SubSeq(PartOfImage, Len(PartOfSignature) + 1, Len(PartOfImage))
        at == Len(dw.signature) + Len(PartOfSignature) + dw.written
    IN  /\ pc = "write"
        /\ slot' = [slot EXCEPT ![Target] = Program(@, at, data)]
        /\ dw' = [dw EXCEPT !.offset = @ + BlockLen,
                            !.written = @ + Len(data),
                            !.signature = @ \o PartOfSignature]
        /\ pc' = "crc"
        /\ UNCHANGED <<rdp, ota2Set, boot, cur, nxt, step, file, line>>

-----------------------------------------------------------------------------
(* The CRC and the next round.                                             *)

\* Mutant: a block that fails its CRC is waited for again, without a NAK.
CrcFailsSilently ==
    /\ pc = "crc" /\ rx.data # Zeros /\ ~rx.crc
    /\ pc' = "crc"
    /\ UNCHANGED <<flash, cur, nxt, dw, step, file, line>>

CrcFails ==
    /\ pc = "crc" /\ rx.data # Zeros /\ ~rx.crc
    /\ Exit
    /\ UNCHANGED <<flash, cur>>

ZeroBlockEnds ==
    /\ pc = "crc" /\ rx.data = Zeros /\ nxt = ZeroBlock
    /\ pc' = "signature"
    /\ UNCHANGED <<flash, cur, nxt, dw, step, file, line>>

CrcFits == rx.crc \/ (rx.data = Zeros /\ nxt # ZeroBlock)

\* start_next_round clears the buffers, and with them a frame that came while
\* the thread worked; when it is still coming, its rest looks like noise.
StartNextRound ==
    /\ pc = "crc" /\ CrcFits
    /\ nxt' = nxt + 1
    /\ rx' \in {NoFrame} \cup (IF late THEN {BadFrame, EotFrame(0)} ELSE {})
    /\ harmed' = (harmed \/ rx' # NoFrame)
    /\ late' = FALSE
    /\ acks' = acks + 1
    /\ pc' = "frame"
    /\ UNCHANGED <<flash, cur, dw, step, file, snd, faults>>

-----------------------------------------------------------------------------
(* set_signature.                                                          *)

DownloadFailed ==
    /\ pc = "signature"
    /\ dw.written = 0 \/ dw.written # dw.len - SigLen
    /\ Exit
    /\ UNCHANGED <<flash, cur>>

\* Mutant: the length of what was written is all that is looked at.
VerifyOtaChecksumLength == file.ours

VerifyOtaChecksum ==
    /\ file.ours
    /\ SumOf(slot[Target], SigLen, dw.written)
          + SumOf(dw.signature, 1, Len(dw.signature))
        = FileSum(file, file.ota[Target], file.len)
    /\ file.rdpLen > 0 => rdp

Verify ==
    /\ pc = "signature" /\ dw.written # 0 /\ dw.written = dw.len - SigLen
    /\ pc' = IF VerifyOtaChecksum THEN "sign" ELSE "clear"
    /\ step' = 0
    /\ UNCHANGED <<flash, cur, nxt, dw, file, line>>

\* "clear the signature zone ... in case of boot from the wrong firmware"
ClearSignatureZone ==
    /\ pc = "clear"
    /\ slot' = [slot EXCEPT ![Target] = EraseSectorAt(@, 0)]
    /\ Exit
    /\ UNCHANGED <<rdp, ota2Set, boot, cur>>

WriteSignature ==
    /\ pc = "sign" /\ step < SigLen
    /\ slot' = [slot EXCEPT ![Target] =
                   Program(@, step, <<dw.signature[step + 1]>>)]
    /\ step' = step + 1
    /\ UNCHANGED <<rdp, ota2Set, boot, cur, pc, nxt, dw, file, line>>

\* Without AUTO_REBOOT the firmware goes on until somebody resets it.
OtaChange ==
    /\ pc = "sign" /\ step = SigLen
    /\ boot' = Target
    /\ pc' = "exit"
    /\ UNCHANGED <<slot, rdp, ota2Set, cur, nxt, dw, step, file, line>>

TransferOver ==
    /\ pc = "exit"
    /\ Exit
    /\ UNCHANGED <<flash, cur>>

-----------------------------------------------------------------------------
Terminal ==
    \/ Send \/ SendLost \/ SendSpoiled \/ TakeAck \/ AckLost
    \/ TimesOut \/ TimesOutEarly \/ Cancel

Thread ==
    \/ NoResponse \/ RefuseFrame \/ TakeEot \/ TakeBlock
    \/ RefuseHeader \/ TakeHeader \/ EraseSector \/ EraseRdp \/ WriteBlock
    \/ CrcFails \/ ZeroBlockEnds \/ StartNextRound
    \/ DownloadFailed \/ Verify \/ ClearSignatureZone \/ WriteSignature
    \/ OtaChange \/ TransferOver

Next ==
    \/ \E f \in Files \cup {NoFile} : UartYmodem(f)
    \/ Terminal \/ Thread
    \/ Restart

Spec == Init /\ [][Next]_vars

\* The thread runs as long as its code is there, and the terminal sends, takes an
\* ACK and times out, whenever they can.  A terminal that vanishes in the middle of
\* a file is excluded: after the first frame the thread waits for ever
\* (portMAX_DELAY).
FairSpec ==
    /\ Spec
    /\ WF_vars(Alive /\ Thread)
    /\ WF_vars(Send \/ TakeAck \/ TimesOut)

-----------------------------------------------------------------------------
(* Properties.                                                             *)

\* The variables keep their types; uart_signature never overflows.
TypeOK ==
    /\ slot \in [OTA_INDEX -> [Cells -> Values \cup {0, Pad}]]
    /\ rdp \in BOOLEAN /\ ota2Set \in BOOLEAN
    /\ boot \in OTA_INDEX /\ cur \in OTA_INDEX
    /\ pc \in {"idle", "hello", "frame", "header", "erase", "eraseRdp", "write",
               "crc", "signature", "clear", "sign", "exit"}
    /\ rx.kind \in {"none", "block", "eot", "bad"}
    /\ late \in BOOLEAN /\ harmed \in BOOLEAN
    /\ nxt \in Nat /\ step \in Nat /\ acks \in Nat
    /\ faults \in 0 .. MaxFaults
    /\ file \in Files \cup {NoFile}
    /\ snd.state \in {"off", "send", "await"}
    /\ Len(dw.signature) <= SigLen

\* A sector is erased for a header whose length noise has set to nothing, or to
\* more than a slot holds.
Overrun == EraseSector /\ dw.len \notin 1 .. SlotLen

\* The update is one of Firmware, but for Overrun and for files with blocks their sum
\* does not tell apart (ChecksumTells): whatever is lost, repeated or spoiled on the
\* line, so long as a spoiled byte does not fit the CRC, and whenever the power is
\* lost, a slot holds to the boot loader either nothing or the whole file the terminal
\* sent, and the slot that runs is not touched.  An erase that overruns the slot takes with it the running image
\* and the boot index; even so no slot holds a part of an image to the boot loader,
\* then or later.
FW == INSTANCE Firmware WITH
    Slots <- OTA_INDEX, Images <- Files, NoImage <- NoFile,
    holds <- [s \in OTA_INDEX |->
                IF s = 2 /\ ~ota2Set THEN NoFile ELSE Held(slot[s], 0, s)],
    running <- cur, offered <- file
UpdatesFirmware == FW!Init /\ [][FW!Next \/ (Overrun /\ FW!EraseOn)]_(FW!vars)

\* However many blocks are repeated, nothing is written behind the image, where
\* nothing was erased.
StaysInImage ==
    dw.hd => /\ Len(dw.signature) + dw.written <= file.len
             /\ \A k \in Cells : slot[Target][k] # Overwritten

\* The block that ends the file when it is zero is not zero in any file, and only
\* UnharmedNotRefused needs this: the code cuts off a file that has such a block.
NoZeroBlock == \A f \in Files : Block(f, ZeroBlock) # Zeros

\* What a transfer leaves of file f when the block it took as its n-th is the m[n]-th,
\* or one of zeros (0).
Taken(f, n) == IF n = 0 THEN Zeros ELSE Block(f, n)
Received(f, m) ==
    [o \in 0 .. Total(f) - 1 |-> Taken(f, m[(o \div BlockLen) + 1])[(o % BlockLen) + 1]]

\* Only UpdatesFirmware needs this: blocks out of their places, or zeroed, change the
\* sum of the image they are in, unless they leave it as it is.  It is more than the
\* code has: its sum does not tell two blocks with the same sum apart.
ChecksumTells ==
    \A f \in Files : \A s \in OTA_INDEX :
        LET last == (Total(f) - 1) \div BlockLen + 1
        IN  \A m \in [1 .. last -> 0 .. last] :
               /\ \A n \in 1 .. last : m[n] <= n
               /\ SumOf(Received(f, m), f.ota[s], f.len) = FileSum(f, f.ota[s], f.len)
               => \A o \in f.ota[s] .. f.ota[s] + f.len - 1 :
                     Received(f, m)[o] = Served(f, o)

\* A transfer whose frames come in order is not refused, wherever the blocks
\* cut the signature and the image: a frame that was lost, or sent again while
\* the thread was at work, does no harm.  A file with an RDP image is refused,
\* for that is never copied.
UnharmedNotRefused ==
    pc = "clear" \/ (pc = "signature" /\ dw.written # file.len - SigLen) =>
        harmed \/ ~file.ours \/ file.rdpLen > 0

\* The thread ends, though the line loses frames and ACKs, so that another
\* transfer can be started; unless the terminal, which took an old ACK for that of
\* its last frame, has gone, and it waits for the next one, or it has erased the
\* firmware it is part of.
TransferEnds ==
    pc # "idle" ~> pc = "idle" \/ (pc = "frame" /\ snd.state = "off") \/ ~Alive
=============================================================================
