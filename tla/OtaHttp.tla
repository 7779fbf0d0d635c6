------------------------------- MODULE OtaHttp -------------------------------
(***************************************************************************)
(* The firmware update over HTTP: http_update_ota of rtl8710b_ota.c with   *)
(* update_ota_prepare_addr and parse_http_response, from the request, its  *)
(* redirects and the header of the response to the new boot index, as far  *)
(* as the flash it leaves behind at a loss of power.                       *)
(*                                                                         *)
(* Unlike the task of OtaUpdate it takes the address of OTA2 from the      *)
(* header file and writes it to the system data, takes the address of the  *)
(* image from nothing the server sends, leaves the RDP image alone and     *)
(* copies the image in a loop of its own.  The flash is one address space. *)
(***************************************************************************)
EXTENDS OtaImage

CONSTANTS
    BUF_SIZE,       \* 512, the most bytes one read returns
    OTA2_ADDR,      \* where OTA2 begins; OTA1_ADDR is 0
    FlashLen,       \* bytes of the flash
    Unset,          \* 0xFFFFFFFF
    Elsewhere,      \* an address of OTA2 other than OTA2_ADDR
    HeaderReads,    \* bound: how many reads the header of a response takes
    CutHeaders      \* whether a server may close in the header of the file

OTA1_ADDR == 0

\* The slots are apart and begin with a sector; the images of a file lie behind
\* its header, and each is longer than one read.
ASSUME HttpAssumption ==
    /\ BUF_SIZE \in Nat \ {0}
    /\ OTA2_ADDR \in Nat /\ FlashLen \in Nat /\ Unset # OTA2_ADDR
    /\ SlotLen <= OTA2_ADDR /\ OTA2_ADDR + SlotLen <= FlashLen
    /\ OTA2_ADDR % SectorLen = 0 /\ FlashLen % SectorLen = 0
    /\ Files \subseteq [hdr : Nat, bytes : Seq(Nat), ota : [OTA_INDEX -> Nat], len : Nat,
                        rdp : Nat, rdpLen : Nat, ours : BOOLEAN]
    /\ \A f \in Files : /\ f.len > BUF_SIZE
                        /\ \A s \in OTA_INDEX : f.hdr <= f.ota[s]
    /\ HeaderReads \in Nat
    /\ CutHeaders \in BOOLEAN

VARIABLES
    flash,      \* the bytes of the flash
    ota2Addr,   \* flash: the address of OTA2 at OFFSET_DATA
    boot,       \* flash: the index OTA_Change last set
    rdp,        \* flash: the file whose RDP image is at RDP_FLASH_ADDR
    cur,        \* ota_get_cur_index: the slot the running firmware is in
    pc,         \* where http_update_ota is; "idle" when nobody calls it
    ret,        \* ret: "sent" stands for the result of write, above 0
    parse,      \* rsp_result.parse_status
    reads,      \* reads of the header of the response so far
    file,       \* http_ota_target_hdr: the headers of the file
    damaged,    \* the offset damaged in the image read; -1 when none is
    step,       \* sectors erased, or bytes of the signature written
    dw          \* the variables of the download

stored == <<flash, ota2Addr, boot, rdp>>
served == <<file, damaged>>
response == <<parse, reads>>
vars == <<stored, cur, pc, ret, response, served, step, dw>>

\* http_ota_target_index, and the address that goes with it.
Target == 3 - cur
TargetAddr == IF Target = 1 THEN OTA1_ADDR ELSE OTA2_ADDR

FlashSectors == FlashLen \div SectorLen

\* The boot loader finds OTA2 by the address in the system data.
BootAddr(s) == IF s = 1 THEN OTA1_ADDR ELSE OTA2_ADDR
Bootable == {s \in OTA_INDEX : Signed(flash, BootAddr(s), s)
                               /\ (s = 2 => ota2Addr = OTA2_ADDR)}
BootLoader == IF boot \in Bootable THEN {boot} ELSE Bootable

NoDownload == [total |-> 0, closed |-> FALSE, started |-> FALSE, remain |-> 0,
               size |-> 0, signature |-> <<>>]

\* A device as it leaves the factory, whatever the system data hold.
Init ==
    /\ rdp \in {f \in Files : f.ours}
    /\ flash = [k \in 0 .. FlashLen - 1 |->
                  IF k < rdp.len THEN Served(rdp, rdp.ota[1] + k) ELSE Erased]
    /\ ota2Addr \in {Unset, Elsewhere, OTA2_ADDR}
    /\ boot = 1
    /\ cur = 1
    /\ pc = "idle"
    /\ ret = "error"
    /\ parse = 0 /\ reads = 0
    /\ file = NoFile /\ damaged = -1
    /\ step = 0
    /\ dw = NoDownload

-----------------------------------------------------------------------------
(* The call, its end, and what else happens to the flash.                  *)

HttpUpdateOta ==
    /\ pc = "idle"
    /\ pc' = "connect"
    /\ ret' = "error"
    /\ file' = NoFile /\ damaged' = -1
    /\ UNCHANGED <<stored, cur, response, step, dw>>

\* update_ota_exit.  A failure after the request returns what write returned.
Leave ==
    /\ pc' = "idle"
    /\ parse' = 0 /\ reads' = 0
    /\ step' = 0
    /\ dw' = NoDownload
    /\ file' = NoFile /\ damaged' = -1
    /\ UNCHANGED ret

\* The caller resets the processor, or the power is lost: the RAM is lost and
\* the boot loader chooses an image.
Restart ==
    /\ cur' \in BootLoader
    /\ pc' = "idle"
    /\ ret' = "error"
    /\ parse' = 0 /\ reads' = 0
    /\ file' = NoFile /\ damaged' = -1
    /\ step' = 0
    /\ dw' = NoDownload
    /\ UNCHANGED stored

\* cmd_ota_image, at the console, at any time.
CmdOtaImage(s) ==
    /\ boot' = s
    /\ UNCHANGED <<flash, ota2Addr, rdp, cur, pc, ret, response, served, step, dw>>

-----------------------------------------------------------------------------
(* The request and the header of its response.                             *)

\* No memory, or no connection.
ConnectFails ==
    /\ pc = "connect"
    /\ Leave
    /\ UNCHANGED <<stored, cur>>

\* update_ota_prepare_addr: with an image that fits its slot the addresses of
\* the header file are never refused.
Connect ==
    /\ pc = "connect"
    /\ pc' = IF Target = 2 THEN "address" ELSE "request"
    /\ UNCHANGED <<stored, cur, ret, response, served, step, dw>>

\* ota_write_ota2_addr, in two steps when there is another address.
EraseAddr ==
    /\ pc = "address" /\ ota2Addr \notin {Unset, OTA2_ADDR}
    /\ ota2Addr' = Unset
    /\ UNCHANGED <<flash, boot, rdp, cur, pc, ret, response, served, step, dw>>

WriteAddr ==
    /\ pc = "address" /\ ota2Addr \in {Unset, OTA2_ADDR}
    /\ ota2Addr' = OTA2_ADDR
    /\ pc' = "request"
    /\ UNCHANGED <<flash, boot, rdp, cur, ret, response, served, step, dw>>

SendFails ==
    /\ pc = "request"
    /\ Leave
    /\ UNCHANGED <<stored, cur>>

SendRequest ==
    /\ pc = "request"
    /\ pc' = "response"
    /\ ret' = "sent"
    /\ UNCHANGED <<stored, cur, response, served, step, dw>>

\* The states parse_http_response goes to from state p: 1 when it has the
\* status 200, 3 with the length of the body, 4 with the end of the header.
Parsed(p) == CASE p \in {0, 1} -> {1, 3, 4} [] p = 3 -> {3, 4}

\* One more read, and the header is still not complete.
ReadHeader(p) ==
    /\ pc = "response" /\ reads < HeaderReads
    /\ p \in Parsed(parse) /\ p < 4
    /\ parse' = p
    /\ reads' = reads + 1
    /\ UNCHANGED <<stored, cur, pc, ret, served, step, dw>>

\* The header is complete; `first` bytes of file f were read with it.
ReadBody(f, first) ==
    /\ pc = "response"
    /\ parse' = 4
    /\ pc' = "fileHeader"
    /\ file' = f
    /\ dw' = [NoDownload EXCEPT !.total = first]
    /\ UNCHANGED <<stored, cur, ret, reads, damaged, step>>

\* The first read holds a 302 and a location: the same again, from there.
Redirect ==
    /\ pc = "response" /\ parse = 0
    /\ pc' = "connect"
    /\ UNCHANGED <<stored, cur, ret, response, served, step, dw>>

\* A read that returns nothing, another status, no length or a length of 0.
ResponseFails ==
    /\ pc = "response"
    /\ Leave
    /\ UNCHANGED <<stored, cur>>

-----------------------------------------------------------------------------
(* The header of the file, and the erasing.                                *)

\* A read fails, no image for this slot, or one that is too long for it.
HeaderFails ==
    /\ pc = "fileHeader"
    /\ Leave
    /\ UNCHANGED <<stored, cur>>

\* The header of f when the server closes behind the name of the target: the
\* length and the offset are read as the 0 the buffer was cleared to.
Cut(f) == [f EXCEPT !.len = 0, !.rdpLen = 0, !.ota[Target] = 0]

\* restore_ota_file_hdr reads what is missing of the header, and goes on when
\* the server closes there: behind the target's own header, or within it.
TakeHeader ==
    /\ pc = "fileHeader"
    /\ pc' = "erase"
    /\ \E closed \in IF dw.total < file.hdr THEN BOOLEAN ELSE {FALSE} :
       \E cut \in IF closed /\ CutHeaders THEN BOOLEAN ELSE {FALSE} :
          /\ file' = IF cut THEN Cut(file) ELSE file
          /\ dw' = [dw EXCEPT !.total = Max({@, file.hdr}), !.closed = closed,
                              !.remain = file'.len - SigLen]
    /\ UNCHANGED <<stored, cur, ret, response, damaged, step>>

\* (len - 1) / 4096 + 1 in 32 bits: for a length of 0 that is 2^20, at least
\* all the sectors of the flash.
Sectors(len) ==
    IF len = 0 THEN FlashSectors ELSE (len - 1) \div SectorLen + 1

\* One sector; the chip takes the address modulo its length.
EraseSector ==
    /\ pc = "erase"
    /\ flash' = EraseSectorAt(flash, (TargetAddr \div SectorLen + step)
                                         % FlashSectors)
    /\ step' = step + 1
    /\ pc' = IF step' = Sectors(file.len) THEN "download" ELSE "erase"
    /\ UNCHANGED <<ota2Addr, boot, rdp, cur, ret, response, served, dw>>

-----------------------------------------------------------------------------
(* The download.                                                           *)

Offset == file.ota[Target]

\* n bytes from offset o of the stream on, as they arrive when d is damaged.
Arriving(o, n, d) ==
    [k \in 1 .. n |-> IF o + k - 1 = d THEN Corrupted
                      ELSE Served(file, o + k - 1)]

\* At most one byte of an image is damaged on its way.
Damages(o, n) == {damaged} \cup IF damaged = -1 THEN o .. o + n - 1 ELSE {}

CanRead(n) ==
    pc = "download" /\ ~dw.closed /\ dw.total + n <= Total(file)

\* The image has not begun.
SkipTo(n) ==
    /\ CanRead(n) /\ ~dw.started /\ dw.total <= Offset
    /\ dw' = [dw EXCEPT !.total = @ + n]
    /\ UNCHANGED <<stored, cur, pc, ret, response, served, step>>

\* Mutant: the signature is written with the rest.
StartImageSigned ==
    /\ pc = "download" /\ ~dw.started /\ dw.total > Offset
    /\ damaged' \in Damages(Offset, dw.total - Offset)
    /\ LET bytes == Arriving(Offset, dw.total - Offset, damaged')
           data == SubSeq(bytes, SigLen + 1, Len(bytes))
       IN  /\ flash' = Program(flash, TargetAddr, bytes)
           /\ dw' = [dw EXCEPT !.started = TRUE,
                               !.signature =
                                   SubSeq(bytes, 1, Min({Len(bytes), SigLen})),
                               !.size = Len(data),
                               !.remain = @ - Len(data)]
    /\ UNCHANGED <<ota2Addr, boot, rdp, cur, pc, ret, response, file, step>>

\* Mutant: what the first packet holds of the image is not counted.
StartImageUncounted ==
    /\ pc = "download" /\ ~dw.started /\ dw.total > Offset
    /\ damaged' \in Damages(Offset, dw.total - Offset)
    /\ LET bytes == Arriving(Offset, dw.total - Offset, damaged')
           sig == SubSeq(bytes, 1, Min({Len(bytes), SigLen}))
           data == SubSeq(bytes, SigLen + 1, Len(bytes))
       IN  /\ flash' = Program(flash, TargetAddr + SigLen, data)
           /\ dw' = [dw EXCEPT !.started = TRUE, !.signature = sig,
                               !.size = Len(data)]
    /\ UNCHANGED <<ota2Addr, boot, rdp, cur, pc, ret, response, file, step>>

\* The packet that reaches the image, which may be the first of all: the
\* signature, or a part of it, is kept back, the rest is written.
StartImage ==
    /\ pc = "download" /\ ~dw.started /\ dw.total > Offset
    /\ damaged' \in Damages(Offset, dw.total - Offset)
    /\ LET bytes == Arriving(Offset, dw.total - Offset, damaged')
           sig == SubSeq(bytes, 1, Min({Len(bytes), SigLen}))
           data == SubSeq(bytes, SigLen + 1, Len(bytes))
       IN  /\ flash' = Program(flash, TargetAddr + SigLen, data)
           /\ dw' = [dw EXCEPT !.started = TRUE, !.signature = sig,
                               !.size = Len(data), !.remain = @ - Len(data)]
    /\ UNCHANGED <<ota2Addr, boot, rdp, cur, pc, ret, response, file, step>>

\* Mutant: each read may bring the whole signature.
MoreSignatureWhole(n) ==
    /\ CanRead(n) /\ dw.started /\ Len(dw.signature) < SigLen
    /\ n <= SigLen
    /\ damaged' \in Damages(dw.total, n)
    /\ dw' = [dw EXCEPT !.signature = @ \o Arriving(dw.total, n, damaged'),
                        !.total = @ + n]
    /\ UNCHANGED <<stored, cur, pc, ret, response, file, step>>

\* The rest of a signature the packet cut.
MoreSignature(n) ==
    /\ CanRead(n) /\ dw.started /\ Len(dw.signature) < SigLen
    /\ n <= SigLen - Len(dw.signature)
    /\ damaged' \in Damages(dw.total, n)
    /\ dw' = [dw EXCEPT !.signature = @ \o Arriving(dw.total, n, damaged'),
                        !.total = @ + n]
    /\ UNCHANGED <<stored, cur, pc, ret, response, file, step>>

\* A packet of the image; the last one is cut to what remains.
Copy(n) ==
    /\ CanRead(n) /\ dw.started /\ Len(dw.signature) = SigLen
    /\ LET kept == Min({n, dw.remain})
       IN  /\ damaged' \in Damages(dw.total, kept)
           /\ flash' = Program(flash, TargetAddr + SigLen + dw.size,
                               Arriving(dw.total, kept, damaged'))
           /\ dw' = [dw EXCEPT !.total = @ + n, !.size = @ + kept,
                               !.remain = @ - kept]
           /\ pc' = IF dw.remain <= n THEN "verify" ELSE "download"
    /\ UNCHANGED <<ota2Addr, boot, rdp, cur, ret, response, file, step>>

\* Mutant: a read that returns 0 is taken for one that will be followed.
ReadFailsRetry ==
    /\ pc = "download"
    /\ dw' = [dw EXCEPT !.closed = TRUE]
    /\ UNCHANGED <<stored, cur, pc, ret, response, served, step>>

\* http_read_socket returns -2 when the server has closed as well.
ReadFails ==
    /\ pc = "download"
    /\ Leave
    /\ UNCHANGED <<stored, cur>>

-----------------------------------------------------------------------------
(* The end of the update.                                                  *)

\* What is at RDP_FLASH_ADDR, which this update never writes.
RdpCell(k) == IF k < rdp.rdpLen THEN Served(rdp, rdp.rdp + k) ELSE Erased

\* Mutant: nothing but the custom signature is looked at.
VerifyOtaChecksumNoSum == file.ours

VerifyOtaChecksum ==
    /\ file.ours
    /\ SumOf(flash, TargetAddr + SigLen, dw.size)
          + SumOf(dw.signature, 1, Len(dw.signature))
        = FileSum(file, Offset, file.len)
    /\ SumOf([k \in 0 .. file.rdpLen - 1 |-> RdpCell(k)], 0, file.rdpLen)
        = FileSum(file, file.rdp, file.rdpLen)

Verify ==
    /\ pc = "verify"
    /\ pc' = IF VerifyOtaChecksum THEN "sign" ELSE "clear"
    /\ step' = 0
    /\ UNCHANGED <<stored, cur, ret, response, served, dw>>

ClearSignatureZone ==
    /\ pc = "clear"
    /\ flash' = EraseSectorAt(flash, TargetAddr \div SectorLen)
    /\ pc' = "idle"
    /\ ret' = "error"
    /\ parse' = 0 /\ reads' = 0
    /\ step' = 0
    /\ file' = NoFile /\ damaged' = -1
    /\ dw' = NoDownload
    /\ UNCHANGED <<ota2Addr, boot, rdp, cur>>

\* change_ota_signature, as in OtaUpdate.
WriteSignature ==
    /\ pc = "sign" /\ step < SigLen
    /\ flash' = Program(flash, TargetAddr + step, <<dw.signature[step + 1]>>)
    /\ step' = step + 1
    /\ UNCHANGED <<ota2Addr, boot, rdp, cur, pc, ret, response, served, dw>>

OtaChange ==
    /\ pc = "sign" /\ step = SigLen
    /\ boot' = Target
    /\ pc' = "idle"
    /\ ret' = "ok"
    /\ parse' = 0 /\ reads' = 0
    /\ step' = 0
    /\ dw' = NoDownload
    /\ UNCHANGED <<flash, ota2Addr, rdp, cur, served>>

-----------------------------------------------------------------------------
Update ==
    \/ ConnectFails \/ Connect \/ EraseAddr \/ WriteAddr
    \/ SendFails \/ SendRequest
    \/ \E p \in 1 .. 3 : ReadHeader(p)
    \/ \E f \in Files : \E first \in 0 .. BUF_SIZE : ReadBody(f, first)
    \/ Redirect \/ ResponseFails
    \/ HeaderFails \/ TakeHeader \/ EraseSector
    \/ \E n \in 1 .. BUF_SIZE : SkipTo(n) \/ MoreSignature(n) \/ Copy(n)
    \/ StartImage \/ ReadFails
    \/ Verify \/ ClearSignatureZone \/ WriteSignature \/ OtaChange

Next ==
    \/ HttpUpdateOta
    \/ Update
    \/ \E s \in OTA_INDEX : CmdOtaImage(s)
    \/ Restart

Spec == Init /\ [][Next]_vars

\* The caller's task runs whenever it can, and a read returns at last.
FairSpec == Spec /\ WF_vars(Update)

-----------------------------------------------------------------------------
(* Properties.                                                             *)

\* The variables keep their types; http_signature never overflows.
TypeOK ==
    /\ flash \in [0 .. FlashLen - 1 -> Values]
    /\ ota2Addr \in {Unset, Elsewhere, OTA2_ADDR}
    /\ boot \in OTA_INDEX /\ cur \in OTA_INDEX
    /\ pc \in {"idle", "connect", "address", "request", "response",
               "fileHeader", "erase", "download", "verify", "clear", "sign"}
    /\ ret \in {"error", "sent", "ok"}
    /\ parse \in {0, 1, 3, 4} /\ reads \in 0 .. HeaderReads
    /\ dw.total \in Nat /\ dw.remain <= SlotLen
    /\ Len(dw.signature) <= SigLen

\* Whenever the power is lost, the boot loader finds an image to start, and
\* the one it starts is complete: "not write signature first for power down
\* protection".
BootsCompleteImage ==
    /\ BootLoader # {}
    /\ \A s \in BootLoader : Complete(flash, BootAddr(s), s)

\* The update is one of Firmware, in spite of an address of OTA2 that is erased
\* and written, and of an RDP image it leaves alone.
FW == INSTANCE Firmware WITH
    Slots <- OTA_INDEX, Images <- Files, NoImage <- NoFile,
    holds <- [s \in OTA_INDEX |->
                IF s = 2 /\ ota2Addr # OTA2_ADDR THEN NoFile
                ELSE Held(flash, BootAddr(s), s)],
    running <- cur, offered <- file
UpdatesFirmware == FW!Spec

\* When http_update_ota returns 0, the slot it chose holds the image the server
\* has, byte for byte, though the checksum is but a sum.
OkMeansServedImage ==
    ret = "ok" => IsImage(flash, TargetAddr, file, Target)

\* However the stream is cut into packets, an image that arrives undamaged
\* passes the checksum, unless its file brings another RDP image: this update
\* compares that with the one in flash and never copies it.
UndamagedNotRefused ==
    pc = "clear" =>
        \/ ~file.ours
        \/ damaged # -1
        \/ file.rdpLen > 0 /\ rdp # file

\* Each connection comes to an end: the call returns or is redirected.
AttemptEnds == pc \notin {"idle", "connect"} ~> pc \in {"idle", "connect"}
=============================================================================
