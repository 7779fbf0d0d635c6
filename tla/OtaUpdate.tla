------------------------------ MODULE OtaUpdate ------------------------------
(***************************************************************************)
(* The firmware update over the air of the RTL8710B: the single-image task *)
(* of component/soc/realtek/8711b/misc/rtl8710b_ota.c, as far as the flash *)
(* it leaves behind at a loss of power.                                    *)
(*                                                                         *)
(* The flash holds two firmware slots (OTA1, OTA2), one RDP image and the  *)
(* index of the slot to boot.  The task erases the slot that is not        *)
(* running, copies the image for it out of the firmware file a server      *)
(* streams, all but the signature, verifies the checksums, writes the      *)
(* signature last and changes the boot index.                              *)
(*                                                                         *)
(* flash_stream_write of this chip never fails                             *)
(* (mbed/targets/hal/rtl8711b/flash_api.c), so its error path is left out. *)
(***************************************************************************)
EXTENDS OtaImage

CONSTANT BUF_SIZE       \* 512, the most bytes one read returns

ASSUME BufAssumption == BUF_SIZE \in Nat \ {0}

\* The images of a file lie behind its header, and the RDP image not within one
\* of the others; the task takes that on trust.
ASSUME LayoutAssumption ==
    \A f \in Files : \A s \in OTA_INDEX :
        /\ f.hdr <= f.ota[s]
        /\ f.rdpLen > 0 =>
              /\ f.hdr <= f.rdp
              /\ f.ota[s] + f.len <= f.rdp \/ f.rdp + f.rdpLen <= f.ota[s]

VARIABLES
    slot,       \* flash: the bytes of the two slots
    rdp,        \* flash: the bytes at RDP_FLASH_ADDR
    ota2Set,    \* flash: whether the address of OTA2 is in the system data
    boot,       \* flash: the index OTA_Change last set
    cur,        \* ota_get_cur_index: the slot the running firmware is in
    pc,         \* where the update task is; "idle" when TaskOTA is NULL
    file,       \* OtaTargetHdr: the headers of the file being received
    damaged,    \* the offset damaged in the stream; -1 when none is
    step,       \* sectors erased, or bytes of the signature written
    dw          \* the variables of download_new_fw_from_server

flash == <<slot, rdp, ota2Set, boot>>
vars == <<flash, cur, pc, file, damaged, step, dw>>

\* Mutant: the slot not booted next, instead of the slot not running.
TargetNotBooted == 3 - boot

\* The slot to upgrade: the one the running firmware is not in.
Target == 3 - cur

\* The images to copy, in the order they have in the file; the signature is
\* skipped in what is left to copy of the OTA image.
DownloadInfo ==
    LET o == [kind |-> "OTA", off |-> file.ota[Target], len |-> file.len - SigLen]
        r == [kind |-> "RDP", off |-> file.rdp, len |-> file.rdpLen]
    IN  IF file.rdpLen = 0 THEN <<o>>
        ELSE IF o.off < r.off THEN <<o, r>> ELSE <<r, o>>

-----------------------------------------------------------------------------
(* Contents.                                                               *)

Cells == 0 .. SlotLen - 1
RdpCells == 0 .. SectorLen - 1

IsRdp(c, f) == \A k \in 0 .. f.rdpLen - 1 : c[k] = Served(f, f.rdp + k)

\* The boot loader (not in this repository): it starts the slot of the boot
\* index, or the other one when that slot has no signature.
Bootable == {s \in OTA_INDEX : Signed(slot[s], 0, s) /\ (s = 2 => ota2Set)}
BootLoader == IF boot \in Bootable THEN {boot} ELSE Bootable

-----------------------------------------------------------------------------
\* Nothing downloaded yet.
NoDownload == [i |-> 1, remain |-> 0, started |-> FALSE, reuse |-> FALSE,
               closed |-> FALSE, received |-> 0, size |-> 0, otaSize |-> -1,
               buf |-> <<>>, signature |-> <<>>]

\* A device as it leaves the factory.
Init ==
    /\ \E f \in {g \in Files : g.ours} :
          /\ slot = [s \in OTA_INDEX |->
                       [k \in Cells |->
                          IF s = 1 /\ k < f.len THEN Served(f, f.ota[1] + k)
                          ELSE Erased]]
          /\ rdp = [k \in RdpCells |->
                      IF k < f.rdpLen THEN Served(f, f.rdp + k) ELSE Erased]
    /\ ota2Set \in BOOLEAN
    /\ boot = 1
    /\ cur = 1
    /\ pc = "idle"
    /\ file = NoFile
    /\ damaged = -1
    /\ step = 0
    /\ dw = NoDownload

-----------------------------------------------------------------------------
(* The end of the task.                                                    *)

\* update_ota_exit: TaskOTA is NULL again.
Exit ==
    /\ pc' = "idle"
    /\ file' = NoFile
    /\ damaged' = -1
    /\ step' = 0
    /\ dw' = NoDownload

\* The RAM is lost and the boot loader chooses an image.
Restart ==
    /\ cur' \in BootLoader
    /\ pc' = "idle"
    /\ file' = NoFile
    /\ damaged' = -1
    /\ step' = 0
    /\ dw' = NoDownload
    /\ UNCHANGED flash

-----------------------------------------------------------------------------
(* Steps 1 to 4: the headers, the address, the erasing.                    *)

\* The server holds f, and damages the byte at offset d of its stream.
UpdateOtaLocal(f, d) ==
    /\ pc = "idle"
    /\ pc' = "header"
    /\ file' = f
    /\ damaged' = d
    /\ UNCHANGED <<flash, cur, step, dw>>

\* No connection, a read that failed, or no image for this slot in the file.
RefuseHeader ==
    /\ pc = "header"
    /\ Exit
    /\ UNCHANGED <<flash, cur>>

TakeHeader ==
    /\ pc = "header"
    /\ pc' = "address"
    /\ UNCHANGED <<flash, cur, file, damaged, step, dw>>

\* get_ota_address: the default address of OTA2 is written when there is none,
\* and the file's flash offset or its length does not fit the slot.
RefuseAddress ==
    /\ pc = "address"
    /\ ota2Set' = TRUE
    /\ Exit
    /\ UNCHANGED <<slot, rdp, boot, cur>>

TakeAddress ==
    /\ pc = "address"
    /\ ota2Set' = TRUE
    /\ pc' = "erase"
    /\ UNCHANGED <<slot, rdp, boot, cur, file, damaged, step, dw>>

\* Mutant: the last, partly used sector is not counted.
SectorsRoundedDown(len) == len \div SectorLen

Sectors(len) == (len - 1) \div SectorLen + 1

\* Mutant: the sectors are erased from the last to the first.
EraseSectorBackwards ==
    /\ pc = "erase"
    /\ slot' = [slot EXCEPT ![Target] =
                   EraseSectorAt(slot[Target], Sectors(file.len) - 1 - step)]
    /\ step' = step + 1
    /\ pc' = IF step' = Sectors(file.len) THEN "eraseRdp" ELSE "erase"
    /\ UNCHANGED <<rdp, ota2Set, boot, cur, file, damaged, dw>>

\* erase_ota_target_flash, one sector.
EraseSector ==
    /\ pc = "erase"
    /\ slot' = [slot EXCEPT ![Target] = EraseSectorAt(slot[Target], step)]
    /\ step' = step + 1
    /\ pc' = IF step' = Sectors(file.len) THEN "eraseRdp" ELSE "erase"
    /\ UNCHANGED <<rdp, ota2Set, boot, cur, file, damaged, dw>>

\* The RDP sector is erased when the file has an RDP image.
EraseRdp ==
    /\ pc = "eraseRdp"
    /\ rdp' = IF file.rdpLen > 0 THEN [k \in RdpCells |-> Erased] ELSE rdp
    /\ pc' = "download"
    /\ dw' = [NoDownload EXCEPT !.remain = DownloadInfo[1].len,
                                !.received = file.hdr]
    /\ UNCHANGED <<slot, ota2Set, boot, cur, file, damaged, step>>

-----------------------------------------------------------------------------
(* Step 5: download_new_fw_from_server.  The images are copied one after    *)
(* the other; the packet in which an image ends is gone through again for  *)
(* the next one (IncFg), for it may hold its first bytes.                  *)

Image == DownloadInfo[dw.i]

\* The byte at offset o as it arrives.
Arriving(o) == IF o = damaged THEN Corrupted ELSE Served(file, o)

\* The loop for an image is left with `size` bytes of it written.
FinishImage(d) ==
    LET ota == IF Image.kind = "OTA" THEN d.size ELSE d.otaSize
    IN  IF dw.i < Len(DownloadInfo)
        THEN /\ dw' = [d EXCEPT !.i = @ + 1, !.size = 0, !.otaSize = ota,
                                !.started = FALSE, !.reuse = TRUE,
                                !.remain = DownloadInfo[dw.i + 1].len]
             /\ UNCHANGED <<pc, file, damaged, step>>
        ELSE IF ota = file.len - SigLen
             THEN /\ pc' = "verify"
                  /\ dw' = [d EXCEPT !.otaSize = ota]
                  /\ UNCHANGED <<file, damaged, step>>
             ELSE Exit

\* The part of the packet that belongs to the image: all of it once the image
\* has started, what lies behind ImgOffset when it starts in this packet.
BytesOfImage(buf, received) ==
    LET behind == received - Image.off
    IN  IF behind <= 0 THEN <<>>
        ELSE IF dw.started THEN buf
        ELSE SubSeq(buf, Len(buf) - behind + 1, Len(buf))

\* What is written of data when only dw.remain bytes are left to copy.
CutToRest(data) ==
    IF Len(data) > dw.remain THEN SubSeq(data, 1, dw.remain) ELSE data

\* Mutant: a signature split over two packets is not continued.
SignaturePartFirstOnly(bytes) ==
    IF Image.kind = "OTA" /\ ~dw.started
    THEN SubSeq(bytes, 1, Min({Len(bytes), SigLen})) ELSE <<>>

\* Mutant: what the signature buffer holds already is not counted.
SignaturePartUncounted(bytes) ==
    IF Image.kind = "OTA" THEN SubSeq(bytes, 1, Min({Len(bytes), SigLen}))
    ELSE <<>>

\* The bytes that go to the signature buffer and not to the flash.
SignaturePart(bytes) ==
    IF Image.kind = "OTA"
    THEN SubSeq(bytes, 1, Min({Len(bytes), SigLen - Len(dw.signature)}))
    ELSE <<>>

\* One pass of the loop over a packet; reuse is IncFg.
Consume(buf, received) ==
    LET bytes == BytesOfImage(buf, received)
        sig   == SignaturePart(bytes)
        data  == SubSeq(bytes, Len(sig) + 1, Len(bytes))
        kept  == CutToRest(data)
        d     == [dw EXCEPT !.received = received, !.buf = buf,
                            !.reuse = FALSE,
                            !.started = @ \/ received > Image.off,
                            !.signature = @ \o sig,
                            !.remain = @ - Len(data),
                            !.size = @ + Len(kept)]
    IN  /\ IF Image.kind = "OTA"
           THEN /\ slot' = [slot EXCEPT ![Target] =
                              Program(@, SigLen + dw.size, kept)]
                /\ rdp' = rdp
           ELSE /\ rdp' = Program(rdp, dw.size, kept)
                /\ slot' = slot
        /\ IF d.remain > 0
           THEN dw' = d /\ UNCHANGED <<pc, file, damaged, step>>
           ELSE FinishImage(d)
        /\ UNCHANGED <<ota2Set, boot, cur>>

\* read returns n bytes.
Receive(n) ==
    /\ pc = "download" /\ ~dw.reuse /\ ~dw.closed
    /\ dw.received + n <= Total(file)
    /\ Consume([k \in 1 .. n |-> Arriving(dw.received + k - 1)],
               dw.received + n)

ReusePacket ==
    /\ pc = "download" /\ dw.reuse
    /\ Consume(dw.buf, dw.received)

\* Mutant: the loop is not left, but read is called again.
ServerClosesRetry ==
    /\ pc = "download" /\ ~dw.reuse
    /\ dw' = [dw EXCEPT !.buf = [k \in DOMAIN @ |-> Corrupted], !.closed = TRUE]
    /\ UNCHANGED <<flash, cur, pc, file, damaged, step>>

\* read returns 0, now and from now on: the loop of this image is left, its
\* buffer cleared, and the next image is gone on with.
ServerCloses ==
    /\ pc = "download" /\ ~dw.reuse
    /\ FinishImage([dw EXCEPT !.buf = [k \in DOMAIN @ |-> Corrupted],
                              !.closed = TRUE])
    /\ UNCHANGED <<flash, cur>>

ReadFails ==
    /\ pc = "download" /\ ~dw.reuse /\ ~dw.closed
    /\ Exit
    /\ UNCHANGED <<flash, cur>>

-----------------------------------------------------------------------------
(* Steps 6 and 7.                                                          *)

\* Mutant: the checksum of the OTA image alone is looked at.
VerifyOtaChecksumNoRdp ==
    /\ file.ours
    /\ SumOf(slot[Target], SigLen, dw.otaSize)
          + SumOf(dw.signature, 1, Len(dw.signature))
        = FileSum(file, file.ota[Target], file.len)

\* verify_ota_checksum: the custom signature, the sum of what was written and
\* of the signature kept back, the sum of the RDP image.
VerifyOtaChecksum ==
    /\ file.ours
    /\ SumOf(slot[Target], SigLen, dw.otaSize)
          + SumOf(dw.signature, 1, Len(dw.signature))
        = FileSum(file, file.ota[Target], file.len)
    /\ SumOf(rdp, 0, file.rdpLen) = FileSum(file, file.rdp, file.rdpLen)

Verify ==
    /\ pc = "verify"
    /\ pc' = IF VerifyOtaChecksum THEN "sign" ELSE "clear"
    /\ step' = 0
    /\ UNCHANGED <<flash, cur, file, damaged, dw>>

\* "clear the signature zone ... in case of boot from the wrong firmware"
ClearSignatureZone ==
    /\ pc = "clear"
    /\ slot' = [slot EXCEPT ![Target] = EraseSectorAt(@, 0)]
    /\ Exit
    /\ UNCHANGED <<rdp, ota2Set, boot, cur>>

\* change_ota_signature: the signature is written byte by byte, then the boot
\* index is changed by OTA_Change of the ROM.
WriteSignature ==
    /\ pc = "sign" /\ step < SigLen
    /\ slot' = [slot EXCEPT ![Target] =
                   Program(@, step, <<dw.signature[step + 1]>>)]
    /\ step' = step + 1
    /\ UNCHANGED <<rdp, ota2Set, boot, cur, pc, file, damaged, dw>>

OtaChange ==
    /\ pc = "sign" /\ step = SigLen
    /\ boot' = Target
    /\ pc' = "reset"
    /\ UNCHANGED <<slot, rdp, ota2Set, cur, file, damaged, step, dw>>

OtaPlatformReset ==
    /\ pc = "reset"
    /\ Restart

-----------------------------------------------------------------------------
(* The world around the task.                                              *)

\* cmd_ota_image, at the console, at any time.
CmdOtaImage(s) ==
    /\ boot' = s
    /\ UNCHANGED <<slot, rdp, ota2Set, cur, pc, file, damaged, step, dw>>

PowerLoss == Restart

Update ==
    \/ RefuseHeader \/ TakeHeader \/ RefuseAddress \/ TakeAddress
    \/ EraseSector \/ EraseRdp
    \/ \E n \in 1 .. BUF_SIZE : Receive(n)
    \/ ReusePacket \/ ServerCloses \/ ReadFails
    \/ Verify \/ ClearSignatureZone \/ WriteSignature \/ OtaChange
    \/ OtaPlatformReset

Next ==
    \/ \E f \in Files : \E d \in Offsets(f) \cup {-1} : UpdateOtaLocal(f, d)
    \/ Update
    \/ \E s \in OTA_INDEX : CmdOtaImage(s)
    \/ PowerLoss

Spec == Init /\ [][Next]_vars

\* The task runs whenever it can, and a read returns at last: the sockets
\* have no timeout, but a server sends, closes or resets.
FairSpec == Spec /\ WF_vars(Update)

-----------------------------------------------------------------------------
(* Properties.                                                             *)

\* The variables keep their types.
TypeOK ==
    /\ slot \in [OTA_INDEX -> [Cells -> Values]]
    /\ rdp \in [RdpCells -> Values]
    /\ ota2Set \in BOOLEAN /\ boot \in OTA_INDEX /\ cur \in OTA_INDEX
    /\ pc \in {"idle", "header", "address", "erase", "eraseRdp", "download",
               "verify", "clear", "sign", "reset"}
    /\ file \in Files \cup {NoFile} /\ damaged \in Int /\ step \in Nat
    /\ dw \in [i : 1 .. 2, remain : Int, started : BOOLEAN, reuse : BOOLEAN,
              closed : BOOLEAN, received : Nat, size : Nat, otaSize : Int,
              buf : Seq(Values), signature : Seq(Values)]
    /\ dw.remain <= SlotLen /\ Len(dw.buf) <= BUF_SIZE
    /\ Len(dw.signature) <= SigLen

\* The firmware that runs out of the flash is never erased or written under
\* itself, whatever slot is set to boot next.
RunningImageUntouched ==
    [][cur' = cur => slot'[cur] = slot[cur]]_vars

\* The update is one of Firmware: power may be lost between any two bytes, yet
\* a slot holds, to the boot loader that looks at the signature only, either
\* nothing or the whole image the server offered.
FW == INSTANCE Firmware WITH
    Slots <- OTA_INDEX, Images <- Files, NoImage <- NoFile,
    holds <- [s \in OTA_INDEX |->
                IF s = 2 /\ ~ota2Set THEN NoFile ELSE Held(slot[s], 0, s)],
    running <- cur, offered <- file
UpdatesFirmware == FW!Spec

\* The boot index is changed only to an image that is, byte for byte, the one
\* the server holds, with its RDP image, though the checksum is but a sum.
CommitsServedImage ==
    pc = "reset" => IsImage(slot[Target], 0, file, Target) /\ IsRdp(rdp, file)

\* What a server that closes early leaves of the RDP image, its first n bytes with
\* the one at offset d damaged.
RdpCut(f, d, n) ==
    [k \in 0 .. f.rdpLen - 1 |->
        IF k >= n THEN Erased
        ELSE IF f.rdp + k = d THEN Corrupted ELSE Served(f, f.rdp + k)]

\* The RDP image is checked by its sum alone, and only CommitsServedImage needs
\* this: a cut image does not have the sum of the whole one by chance.
CutsAreNoticed ==
    \A f \in Files : \A d \in Offsets(f) \cup {-1} : \A n \in 0 .. f.rdpLen :
        SumOf(RdpCut(f, d, n), 0, f.rdpLen) = FileSum(f, f.rdp, f.rdpLen)
        => IsRdp(RdpCut(f, d, n), f)

\* No byte of flash is programmed twice without an erase between.
ProgrammedOnce ==
    /\ \A s \in OTA_INDEX : \A k \in Cells : slot[s][k] # Overwritten
    /\ \A k \in RdpCells : rdp[k] # Overwritten

\* However the server's stream is cut into packets, images that arrive
\* undamaged and complete pass the checksum.
UndamagedNotRefused ==
    pc = "clear" =>
        \/ ~file.ours \/ dw.closed
        \/ damaged - file.ota[Target] \in 0 .. file.len - 1
        \/ damaged - file.rdp \in 0 .. file.rdpLen - 1

\* The task ends: TaskOTA becomes NULL again and another update can start.
UpdateEnds == pc # "idle" ~> pc = "idle"
=============================================================================
