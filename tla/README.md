# Formal models of the RTL8710A/B SDK

The repository is the SDK of Realtek's RTL8710A/B (Ameba-Z) Wi-Fi chips with the
OpenBeken application hook. Most of it is vendored (lwIP, FreeRTOS, mbedTLS,
PolarSSL, FatFs, Paho MQTT, cJSON, CoAP, CMSIS), register programming, or glue to
libraries without source (the WLAN driver, the boot loader, WPS and simple
config). What is its own are small protocols between tasks, callbacks, the
network and the flash. These models are about those.

Everything is TLA+; TLC checks the `.cfg` files, TLAPS the `*_proofs` modules.
Paths below are relative to `src/component/` unless they say otherwise.

## 1. Inventory

| component | state it keeps | operations | talks to | what is hard | what makes it correct |
|---|---|---|---|---|---|
| **DHCP server** `common/network/dhcp/dhcps.c` | ONE conversation for all stations (state machine, address offered, address asked for), bitmap of taken addresses, owner of each | init, deinit, set pool, and the UDP callback (DISCOVER, REQUEST, DECLINE, RELEASE, any other type) | lwIP (tcpip thread), AT commands | messages of several stations interleave in one conversation; lost replies, restarts, a full pool | no address given twice; an ACK is for what was asked; a known station keeps its address |
| **OTA update, local server** `soc/realtek/8711b/misc/rtl8710b_ota.c` 730-1160 | two firmware slots, RDP image, OTA2 address, boot index (flash); download state (RAM) | start, headers, erase, copy, verify, sign, change index | boot loader, sockets, flash, console | power loss anywhere, packets cut anywhere, early close, damage | the device always boots a complete image; only the served image is committed |
| **OTA over HTTP** the same file, 1160-1900 | as above, but an address and a copy loop of its own | request, redirects, response header, then as above | as above | as above, and redirects, cut headers | as above; 0 is returned only for the served image |
| **Wi-Fi join** `common/api/wifi/wifi_conf.c` | `rtw_join_status`, `join_user_data`, `error_flag`, two semaphores, handler list | `wifi_connect`, `wifi_connect_bssid`, `wifi_disconnect`, 4 event handlers | driver (events, ioctls), `wifi_ind.c` | handlers between any two steps; timeouts; two callers; worker thread with a queue that may be full | a call is woken by its own join, blames the right cause, returns; CONNECTING is never orphaned |
| **Event dispatch** `common/api/wifi/wifi_ind.c` | table of 3 handlers per event; queue | register, unregister, indicate | driver, join, autoreconnect | an event is queued for a handler that goes away | an event reaches who is registered |
| **Device locks** `os/os_dep/device_lock.c` | a mutex per device, created on first use | lock, unlock | FreeRTOS, every user of the flash | creation raced by two tasks; a wait that times out and is taken up again | one mutex, one owner |
| **Flash access** `common/mbed/targets/hal/rtl8711b/flash_api.c` | global `ISER[8]`, `systick_ctrl`; within a call the page, the place in it and what remains | erase, write, status; words and streams of any length at any address, made of commands of at most 12 bytes in one page | device locks, the chip | preempted between saving and disabling; words and pages that a stream shares with others; power loss between two commands | nothing interrupts a command; every interrupt comes back; every byte is in its cell and nothing around it changes |
| **Serial update** `common/utilities/uart_ymodem.c` | ring buffer, frame counter, download state (statics); the two slots in flash | the thread: hello, frames, end of transmission, cancel, verify, sign | terminal, UART interrupt, `rtl8710b_ota.c`, flash | noise, lost and repeated frames and ACKs, frames while a sector is erased, power loss | as the other updates; a transfer that nothing disturbs is not refused; it ends |
| **TFTP** `common/network/tftp/tftp_client.c`, `tftp_server.c` | a block count, tries and a buffer per side | get and put, with retries of the block and of the whole call; the server serves one transfer after the other | UDP sockets, handlers of the application | lost, repeated, overtaking and late datagrams; a buffer that keeps what came before; both sides retry | the handlers get the blocks in order and once; an undisturbed transfer succeeds; both sides end |
| **DHCP client control** `common/api/lwip_netconf.c` | a state per interface | `LwIP_DHCP` and the static fallback | lwIP | polling, timeouts, link down | always ends with an address or a verdict |
| **Scan, SoftAP, restart, autoreconnect** `wifi_conf.c` | scan result handler, AP mode flags | scan, start/stop/restart AP, autoreconnect thread | driver | a scan callback after its timeout | buffers outlive their callbacks |
| **TCM heap** `os/os_dep/tcm_heap.c` | first-fit free list | alloc, free, split, merge | everyone | sequential | list sorted, no overlap, nothing lost |
| **OS abstraction** `os/freertos/freertos_service.c` | none | semaphores, mutexes, timers | FreeRTOS | — | modelled where used |
| SNTP, HTTP, WebSocket | per connection | — | sockets | — | not modelled, see 7 |
| UART adapter | configuration in flash, a socket | — | UART, sockets | — | not modelled, see 7 |
| AT commands, console | parsing | — | all of the above | — | not modelled; `cmd_ota_image` and ATPF are actions of the models |

The tasks that matter: the tcpip thread (runs the DHCP callback), the caller of a
join (application, console or autoreconnect), the driver's thread (dispatches
events), optionally the event worker, the task of an update (local, HTTP or
serial), the TFTP client and server, and the tasks that use the flash. The boot
loader, the WLAN driver, the SPI flash chip, the terminal of a serial update and
the network are external: they are modelled from what this code asks of them and
expects back.

## 2. Modules

| module | models | extends |
|---|---|---|
| `DHCPServer` | `dhcps.c` | |
| `Firmware` | ABSTRACT: what an update promises of the slots, whoever carries it out | |
| `OtaImage` | what the updates work on: files, bytes, sectors, checksums | |
| `OtaUpdate` | the local update task, an implementation of `Firmware` | `OtaImage`, `INSTANCE Firmware` |
| `OtaHttp` | `http_update_ota`, another one | `OtaImage`, `INSTANCE Firmware` |
| `YModem` | `uart_ymodem_thread`, a third one | `OtaImage`, `INSTANCE Firmware` |
| `Tftp` | `tftp_client.c` and `tftp_server.c`, with the network between them | |
| `FlashStream` | the commands of `flash_api.c` that move bytes | |
| `WifiConnect` | join, handlers, dispatch | |
| `FlashUse` | ABSTRACT: what the device lock promises of the flash | |
| `FlashLock` | `device_lock.c` and `flash_api.c`, an implementation of `FlashUse` | `INSTANCE FlashUse` |
| `MC*` | small instances for TLC | the module of the same name |
| `DHCPServer_proofs`, `WifiConnect_proofs`, `FlashLock_proofs`, `FlashStream_proofs`, `Tftp_proofs`, `OtaUpdate_proofs`, `OtaHttp_proofs`, `YModem_proofs` | theorems | the module of the same name, `TLAPS` |

### DHCPServer
One action is one datagram handled to its end, as it is in the tcpip thread, or
one call of the interface. `state`, `alloc`, `request` are
`dhcp_server_state_machine`, `dhcps_allocated_client_address` and
`client_request_ip`; `marked` is the bitmap `ip_range`, `mac` the array
`client_mac`. `Asked` is the option parser's effect on `request`, whatever the message;
`RequestVerdict` is the nest of conditions of the REQUEST case; `SearchNextIP`
and the two `check_client_...` are operators. The bitmap's undefined shift, by
(i % 32) - 1 for i = 128, is a nondeterministic bit. `sent` and `lease` are
history: the last reply, and what each station was told it holds. A station may
send any message at any time, and a reply may be lost: the station's belief is
only changed by an ACK.

### OtaUpdate and OtaHttp
A file is any sequence of bytes with the places of its header and images in it, and a
checksum is a SUM of bytes, as in the code, which a permutation fools. Bytes programmed over others that
were not erased become `Overwritten`. Erasing is one step per sector, signing
one step per byte, copying one step per read, and `PowerLoss`/`Restart` is
enabled between any two: RAM is lost, and `BootLoader` chooses the slot of the
boot index, or the other when that one has no signature. A read returns any
number of bytes up to the buffer; one byte may be damaged. `OtaUpdate` keeps two
slots and follows `IncFg`, the packet that is gone through twice, for the OTA
and the RDP image in either order. `OtaHttp` has one address space, the system
data word with the address of OTA2 (erased, then written), the response in
pieces, redirects and `SigCnt`/`RemainBytes`.

### Firmware
Four variables: the whole image a slot holds (or none), the slot to start with,
the slot that runs, the image on offer. A slot other than the running one is
erased or gets the offered image, at once; a restart runs the slot to start
with, or another that holds an image when that one holds none. In the three
implementations a slot is bytes, and a boot loader looks at the signature alone:
the refinement mapping says that a slot holds image i when it is signed and all
its bytes are those of i, is empty when it is not signed, and is NOTHING THE
SPECIFICATION KNOWS when it is signed and incomplete. So `UpdatesFirmware` says
at once that a device that loses its power at any byte boots a whole image, that
the running slot is left alone, and that what is installed is what was offered.

### YModem
The thread's steps are frames. The receiver does not look at the number of a
frame but for its complement, so frames are blocks of the file in order of
ARRIVAL; a block is written to flash before its CRC is looked at. The UART
interrupt fills `uart_irq_buf`: what comes in while the thread works lands behind
the frame in work and is cleared with it (`late`), or overwrites the end of it
(`Deliver`). The terminal sends a frame, awaits the ACK and repeats; the line
loses, spoils or truncates frames and loses ACKs, and the terminal's timeout may
come too early. A frame that breaks off behind its number leaves zeros, which
pass without CRC, and such a block ends the file when the thread is at block
255 (`ZeroBlock`). The header in the first block is used before the CRC of that block, so
noise there has three outcomes: a header that does not fit is refused
(`RefuseHeader`), one whose name and flash address are spared is taken with the length and
the offset the noise put there (`HeaderAltered`, `TakeHeader`), and a block of
zeros is no header. `EraseSector` erases as many sectors as the LENGTH IN THE FRAME has,
which for a length of 0 are 2^20, that is all of the flash: slot after slot, the sector of
the RDP image, and, since the chip ignores the high bits of an address, what lies before slot
1, the system data with the address of OTA2 and the boot index (`SlotAt`, `RdpAt`, `SystemAt`).
Once the slot it runs from is erased the thread may go on or stop (`Alive`). The CRC of an altered block
ends the transfer, but only after the erase. `step` counts sectors while erasing and
bytes while signing, with power loss between any two, as in `OtaUpdate`.

### Tftp
A step is what a side does from one return of `select` to the next call, which is
how both tasks run. Datagrams travel in two queues; a fault loses, repeats or
delays one or lets one overtake, and a timeout may come early. A call
has a socket of its own (`port`), and closing it drops what is on its way there;
the server's socket stays. `c.tries` and `c.retry` are the two retry counters of
the client, one inside the other. What is read without having been set is in
the model: after a timeout the server parses what its buffer still holds
(`s.buf`), and `full` is the `len` of what was sent last, a repetition included.
A DATA carries the number of its block as its data or, where `tftp_client_send`
sends its header alone, 0.

### FlashStream
A step is one command of the chip: program up to 12 bytes, or read a word. The
byte to be written to a cell IS the number of the cell, so that a byte in another
cell, one too many or one too few is seen. A bit that is 0 stays 0 until it is
erased: a byte programmed over another is `Overwritten`, over itself or as 0xff
harmless. The chip wraps at the end of a page (`TxData12B`), `u32` at `Wrap`.
The caller writes an image piece by piece, as the updates do, by streams of any
length and by words, and reads when it is complete. `buffer` is
how far the caller's data have been used; behind their end is `Junk`. `Legal` is
what callers owe: no call of length 0 at an unaligned address.

### WifiConnect
`pc[c]` is where a caller is, a label per statement that touches shared state;
`owned` says which of `join_result` and its semaphore live. `status` is
`rtw_join_status` as a set. The driver (`driver`, `openNet`, `fell`) joins,
finds no network, associates, ends the handshake or disconnects at any moment.
Without `CONFIG_WIFI_IND_USE_THREAD` (`Threaded = FALSE`) the handler runs in
the driver's thread, which is of higher priority than the callers, so that it
runs to its end between two steps of a caller. With it (`TRUE`) the event
goes through `queue`, and is dropped when that is full.

### FlashLock and FlashUse
A step is a test, a semaphore operation or the handling of one word of enable
bits. `running` is the task with the processor; `Switch` is possible while the
tick or an interrupt is enabled (`nvic`, `systick`), which is exactly what
`flash_write_lock` takes away, word by word. `ISER` and `systick_ctrl` are the
code's globals, one for all tasks. `FlashUse` has two variables, the user
and whether a command runs; the refinement mapping is the holder of the mutex
and "some task is at the command".

## 3. Runs

| run | instance | what it shows |
|---|---|---|
| `dhcp_server` | 2 stations, pool inside 127..129 (two overlapping pools), all message types incl. unknown ones | an ACK is for what was asked (`AckGivesWhatWasAsked`), a known station is never offered a second address |
| `dhcp_exclusive` | 3 stations that send known types only | `NoDoubleLease`, `OfferNotInUse` |
| `dhcp_inform` | 2 stations, unknown types | VIOLATED: `NoDoubleLease` (finding 1) |
| `ota_update` | 3 files (RDP images on different sides of the firmware, another product), one damaged byte, early close, power loss | implements `Firmware`, commits only the served image, never programs twice or under the running image, never refuses an undamaged stream, ends |
| `ota_http` | 3 files (with RDP, without, another product), response in up to 3 reads, redirects | implements `Firmware`, 0 only for the served image, every attempt ends |
| `ota_http_cut` | the same, connection may close inside the file's header | VIOLATED: `BootsCompleteImage` (finding 2) |
| `ymodem` | 2 files (with RDP and without), 2 faults of the line per transfer, in the length of the header too, power loss | implements `Firmware` but for an erase that overruns the slot, writes nothing behind the image, an unharmed transfer is not refused, every transfer ends |
| `tftp` | a file of 3 blocks, gets and puts, a call during an earlier one, 4 faults at a time | blocks in order and once, a get that returns 0 is whole, without faults both succeed, both sides end |
| `wifi_connect` | 1 caller, both functions, open/WPA, own semaphore or not | woken by its own join, blames the right phase, CONNECTING never outlives the call, returns |
| `wifi_connect_thread` | 2 callers, worker thread, queue of 2 | `join_result` outlives its handlers, `disconnect_sema` is transient |
| `flash_lock` | 3 tasks, 3 words of enable bits | one mutex, quiet commands, interrupts restored; implements `FlashUse` |
| `flash_stream` | an image of 33 bytes from every address of a page of 16, streams of every length, words, reads from everywhere | after every single command a gapless beginning of the image is there, each byte in its cell and nothing else changed; calls return |

### Bounds and why they are enough
* DHCP: with three stations there is one that holds, one that is offered and
  one that interferes, which is all the conditions of the code relate at a
  time. The addresses 127..129 keep the real word width (32) and contain 128,
  where the undefined shift is. The pools are of two addresses, so
  that exhaustion happens at once. `Foreign` stands for all other networks.
* OTA: signature 2 bytes, sector 2, packet at most 3, images 3 to 5. Hence a
  signature is cut by packets, a packet holds the end of one image and the
  start of the next, the last sector is partly used, and the last packet is longer
  than what remains. `HeaderReads` bounds the reads of one response header.
* YModem: frames of 3 bytes, so that an image begins and ends anywhere within a
  frame and the signature of 2 is cut; the block that ends the file when it is
  zero is the third of four (255 in the code). Two faults suffice for a fault during the repetition of another.
  The lengths noise may put into a header (`AlteredLens`) are 0, 6 and 9: none, exactly a slot
  of two sectors, and more than one. They lead to all of the flash, to the end of the slot
  and into what lies behind it. The altered offset is any in the block or one behind it.
  Not modelled: noise that fits the CRC, an offset and a length whose sum wraps at
  2^32, and more than one sector (the system data) before slot 1. `UpdatesFirmware` excepts
  the sectors erased for a length that is none or more than a slot (`Overrun`); even for these it says that
  a slot keeps its whole image or shows the boot loader none. `MCYModem` assumes of
  its two files what the code assumes of all (`ChecksumTells`, `NoZeroBlock`).
* Tftp: three blocks are a first, a middle and a short last one; three tries of a
  block and of a call, and a second call while the first is still
  served, are all that the counters tell apart. Faults are counted while something is
  under way and the count starts afresh when nothing is, so that no transfer is
  without them because an earlier one had them. All calls carry
  the same file, the block number does not wrap, the name of a file is never a block
  number (`NameNo`), and the application's `send_handle` gives nothing for a block the
  file has not. A datagram that no call awaits ends the server, as in the code.
* Wi-Fi: one caller suffices for what a handler does to a call; two meet in
  `JOIN_CONNECTING` and in the queue. The queue of 1 or 2 (8 in the code) is full
  at once.
* FlashStream: a page of 16 holds a burst of 12 and a word, and a burst and an
  unaligned beginning or end, in all combinations; 33 bytes touch three pages, the
  middle one whole, from all 16 places of the first, address 0 included. `Wrap` need
  only be larger than the flash.
* FlashLock: three words give a first, a middle and a last pass of each loop;
  three tasks one inside, one waiting and one creating. The proofs remove both
  bounds. The set of enabled interrupts (`Enabled`) does not change while tasks use the
  flash: code that enables or disables one between the saving of its word and the clearing
  of it (`flash_api.c:47-48`) is not modelled; its change would be lost when the flash is released.

Deadlock is checked in every run but `ymodem`: there a device that has erased its own
firmware stops for good, and there need not be another to start. `SYMMETRY` (stations, callers) is used only in
runs without liveness, and the models treat those sets alike.

### Fairness
* `OtaUpdate`: weak fairness of the task's steps. It is a FreeRTOS task that is
  ready unless it waits for a socket, so this asks one thing of the environment:
  a read returns at last, with bytes, with nothing or with an error. The code
  sets no receive timeout, and a server that falls silent without
  closing would hold the task for ever; what `UpdateEnds` shows is that the
  nested loops end however the stream is cut and wherever it stops. Nothing
  is assumed of the console or of power.
* `OtaHttp`: the same for the caller of `http_update_ota`. A redirect leads to a new
  attempt, and their number is bounded by nothing: `AttemptEnds` says that
  each attempt ends, not that the call does.
* `YModem`: weak fairness of the thread (ready unless it waits for a frame) as long as the code
  it runs from is there, and of the
  terminal's sending, taking an ACK and repeating after its timeout: a terminal that
  is switched off leaves the thread waiting with `portMAX_DELAY`, and nothing else
  would free it. `TransferEnds` also excepts a terminal that took an old ACK for that of its
  last frame and left, and a thread that has erased its own code.
* `Tftp`: both tasks run, a datagram that is on its way arrives or is lost, and a
  `select` times out when nothing is on its way. The faults are bounded, which is
  the usual sense of a network that works at last.
* `FlashStream`: weak fairness of the commands of a call. Interrupts are off, so
  nothing keeps the task from the next one.
* `WifiConnect`: weak fairness of each caller's steps, which include its timeout,
  and of the worker. Nothing is asked of the driver, which may never answer.

## 4. What is proved

All theorems hold for every value of the constants that the module's ASSUMEs
admit; a hypothesis beyond those is in the statement. TLC evaluates the ASSUMEs on
every run.

* `DHCPServer_proofs`: `TypeCorrect` (`Spec => []TypeOK`), and
  `LeasesExclusive`, with `OffersExclusive`: if no station sends a type the server does
  not know (`InformingClients = {}`), then always `NoDoubleLease` and `OfferNotInUse`.
  The invariant is not inductive: two stations could be one step from sharing an
  address. `LeaseInv` adds that a held address is marked, recorded for its holder and
  NOT the one in the standing offer, and that an offer just sent is the standing
  one. An ACK names an address that is free, the station's own, or the standing
  offer (`RequestVerdictResult`), and a fresh offer is unmarked
  (`SearchNextIPResult`) or the station's own (`CheckClientRequestIPResult`).
  `KnownStationKeeps` and `AckIsWhatWasAsked` need no such hypothesis: an address that
  is recorded for a station is marked, and so never another station's
  fresh one.
* `WifiConnect_proofs`: `TypeCorrect`; `JoinResultAllocated`
  (`ResultOutlivesHandlers`) and `DisconnectSemaEnds` for any callers, with the worker
  thread or without: `join_user_data` is a call's own only between its attaching and
  its detaching, and what is attached is allocated (`OwnedInv`). `ConnectingEnds`:
  without the worker thread, for any callers, `ConnectingMeansCall`. The difficulty is
  the handshake handler, which sets CONNECTING whether or not a call is there. The
  invariant says: the queue is empty (`Threaded = FALSE`), `join_user_data` is a
  caller at a place where it has attached (`AttachedInv`), the handshake handler is
  registered only while some call is between issue and unregister (`ListeningInv`).
  `WakesAreVerdicts` and `ErrorsNamePhases` are stated for one caller
  without the thread, as the run is: with the thread TLC finds both violated (section 5),
  and a second caller resets `error_flag` and `rtw_join_status` under the first. `WokenInv`
  says that the semaphore is down until `join_user_data` is set and that only the end of
  a join raises it; `PhaseInv`, that `rtw_join_status` never runs ahead of the
  driver.
* `FlashLock_proofs`: `TypeCorrect` (one mutex at most), `CommandsQuiet`,
  `InterruptsRestored` and `Refinement` (`Spec => Use!Spec`). `MutexInv`: to be
  inside is to hold the one mutex; the bit, the handle and the mutex agree.
  `InterruptsInv` says, for the task inside, which words are saved, which are
  disabled and which restored at each place of each loop; the other tasks do
  not touch them because they are not inside.
* `FlashStream_proofs`: `BytesCorrect` (`Spec => []BytesInPlace`), for any size of
  a page that words divide, any image, any lengths and any address a write or a
  read may begin at. `BytesInPlace` says nothing of where the loops are. `StreamInv`
  adds that the next byte is at `call.address + buffer`, in page j, that `size`
  more bring the stream to `addrEnd`, the end of page j or of the stream, and that
  `pageCnt - 1` pages lie between j and the page of the end. One lemma is about a
  command (`Programs`: within a page, the bytes marked new get into their cells
  and the others are what they were, since they carry what is there already);
  `FitsBegin`, `FitsEnd`, `FitsWithin` and `FitsBytes` show that each word the code
  puts together is of that kind. Reading needs only `Same`: what was read is what
  the flash holds. `TypeCorrect` says that no address of a loop leaves the flash and no
  count goes below 0, which is where `u32` would wrap; that needs what the variables
  hold between two calls, too (`RangeInv`).
* `Tftp_proofs`: `TypeCorrect` and `BlocksSound` (`BlocksInOrder`), for a file of any
  length and any number of tries, calls and faults. A DATA on its way carries its own
  block, or nothing when `tftp_client_send` repeats it (`ClientBound`, `ServerBound`, and the
  buffer the server reads again after a timeout); who stores has counted one block
  more than it has, and all of them are full while it goes on (`ClientSide`, `ServerSide`).
  `LosslessCompletes` (`LosslessSucceeds`): without a fault the transfer goes from one of ten
  phases to the next (`InPhase`), in each of which one datagram is on its way at most,
  but for the two ACKs that end a get, and nobody waits when there is none.
* `OtaUpdate_proofs`: all the safety of the local update, for files, signatures,
  sectors and packets of any length. `Places` says for each place of the task what
  is in the slot: blank below the sectors erased, the bytes `size` counts in their cells and
  the rest blank while it is downloaded, everything copied when it is verified. It holds
  because of where the stream stands (`Standing`, `Fits`): a packet begins where the
  image in work was left, or the image begins in it or behind it, also when the packet is
  gone through a second time. From it follow `TypeCorrect`, `NeverProgrammedTwice`,
  `RunningSlotUntouched` and `NoSignatureBeforeVerify`. A checksum is a sum, defined by
  recursion; five lemmas, by induction over the naturals (`Induction`, from the
  well-foundedness of <), give all that is needed of it: one more byte is one more
  summand, a sum splits, equal bytes have equal sums, one different byte a different sum.
  So `GoodStreamAccepted` (`UndamagedNotRefused`), and `CopyFaithful`: with one damaged
  byte at most, an image that adds up is the served one. `OnlyServedCommitted`
  (`CommitsServedImage`) is about the RDP image as well, of which the code looks at the
  sum alone: cut by a server that closes early AND damaged, it could add up by chance.
  `CutsAreNoticed` says that it does not, for these files; it is the theorem's hypothesis, and
  `MCOtaUpdate` assumes it of its own files. `Refinement` (`UpdatesFirmware`) needs
  it not. `ImagesInv`: a slot that has a whole signature is a whole image. Signing goes
  byte by byte, and the last one turns nothing into the image that was offered.
* `OtaHttp_proofs`: all the safety of the update over HTTP, for files, signatures, sectors and
  reads of any length. `TypeCorrect` holds whatever the server does. The other five say
  `~CutHeaders`, that a server does not close within the header of a file; without it the
  code reads a length of 0 and erases on, and `ota_http_cut` shows what becomes of the device
  (section 5). `Context` says what `file`, `step`, `ret` and `ota2Addr` mean between the
  actions (the address of OTA2 is set before its slot is touched, also when the system data
  word has to be erased first), `Stages` what is in the slot: blank below the sectors
  erased, then the bytes `size` counts in their cells and the rest blank, then everything
  (`Copying`, `Copied`). `Standing` relates the count of what has arrived to them, whichever
  of the four branches took it: before the image, the packet it begins in, the signature in
  pieces, the rest. What the checksum tells is `ChecksumTells`: the sum is right if and only
  if the damaged byte, of which there is one at most, is not in the image (`Undamaged`). So
  `OkFaithful` (`OkMeansServedImage`) and `GoodStreamAccepted` (`UndamagedNotRefused`), with
  `RdpAgrees` for the RDP image, which is compared and not written. `ImagesInv` (a signed
  slot is a whole image, the running one is signed, nothing is signed at an address of OTA2
  that is not set) gives `AlwaysBoots` (`BootsCompleteImage`), `RunningSlotUntouched` and
  `Refinement` (`UpdatesFirmware`).
* `YModem_proofs`: all the safety of the serial update, for files, blocks and signatures of
  any length, any bytes in them, any lengths and offsets noise puts into the header, and any
  number of faults. `TypeCorrect` (`uart_signature` never overflows)
  and `StaysWithinImage` hold whatever the line does to the frames, `RunningSlotUntouched`
  but for the steps of an erase that overruns the slot (`Overrun`):
  `TakenInv` relates `file_offset` to what has been kept back and written, for blocks that
  cut the signature and the image anywhere; `BlankInv` says that the cells still to be
  written are blank. After an altered header `AlteredInv` takes the place of both: the block
  does not fit its CRC, so it is the only one written, into a sector just erased and behind the
  first byte of the signature, which stays erased. `UnharmedAccepted` (`UnharmedNotRefused`) and `Refinement`
  (`UpdatesFirmware`) rest on the order of the blocks (`OrderInv`): a terminal goes on only by
  an ACK and each block gets one, so frame and ACKs together are never ahead of
  `nxt_num` (`BehindInv`); in a transfer that is not harmed the frame is the one in turn
  (`InTurnInv`); and a byte that has passed comes from its own place in the file
  or one before it, or is zero (`PassedInv`): the slot holds what `Received` makes of the
  file and a map of places to blocks. `SumsMean` gives the sum the check computes of it. That
  this sum tells such a file from the one sent is `ChecksumTells`, the hypothesis of
  `Refinement`, which `MCYModem` assumes of its own files. It is more than the code
  has: there a block that happens to have the sum of the one whose place it takes passes
  the check (section 5). With it `SignInv` says of every place at which the signature is
  written that the rest of the image is there, and `ImagesInv` that a signed slot is a whole
  image. `Refinement` excepts `Overrun` alone, and there still shows that images
  are taken whole; `RefinementInSlot` is the plain refinement, `Spec => FW!Spec`, when no
  length the noise may produce is none or more than a slot.
  `UnharmedAccepted` has a hypothesis, `NoZeroBlock`, of which `MCYModem` assumes
  that its own files meet it; without it the code does refuse the file (section 5).

What the proofs assume of the constants: `ImageAssumption`, the shape of a file;
`HttpAssumption`, that the two slots are apart and begin with a sector, and that an image is
longer than one read and lies behind the header;
`YModemAssumption`, that an image is longer than a block and does not end in the block in which
its signature is completed (images are hundreds of blocks long);
`LayoutAssumption`, that the header comes first and the images do not overlap;
`SignatureAssumption`, that a signature is not what erased flash reads as and that no image
is another one's beginning; `DamageAssumption` and `OverwrittenAssumption`, that the values for
damaged and twice programmed bytes are not among those served.

Assumed and not proved: a handler is not preempted by its caller (priorities); a
connected station's DISCONNECT is dispatched before `wext_set_ssid` returns; the
boot loader's choice; `flash_stream_write` never fails (it returns 1 in this
port); preemption comes through interrupts; FreeRTOS semaphores work.

Only model-checked:
* all liveness: fairness and ENABLED are beyond the prover here;
* what the two violation runs check, where the code does not keep what is said of it.

## 5. Findings and observations

Found by a run and listed with it in `PROJECT.json`:

1. `dhcps.c:788` An unknown message type in state OFFER is answered with a new
   OFFER of the sender's own leased address; the next REQUEST for that
   address, from anyone, matches the standing offer and is acknowledged.
2. `rtl8710b_ota.c:1750` A connection closed inside the header of the file, after the
   name of the target, leaves a length of 0, which becomes 2^20 sectors to erase.

Found by TLC while the models were built; the properties that hold say around them:

* `dhcps.c:711` ("for renew", 701) `client_request_ip` is cleared by an ACK only. Station A holds
  an address and B one; B asks for A's address in option 50 and is refused;
  then A, or anyone, sends a REQUEST without option 50 and is judged by the
  address B asked for: a renewal is answered with an address its station may not hold.
* `tftp_client.c:121` answers a repeated ACK with the header of the last DATA alone
  (the call of `send_handle` is commented out, `len` stays 4), and `tftp_server.c:42`
  takes a DATA shorter than a full packet for the last one. So one lost DATA is
  enough: the server times out and acknowledges the block before once more, stores
  an empty block and returns 0 with a file that is cut. `BlocksInOrder` excepts that
  last, empty block.
* `tftp_server.c:383`: any datagram but a request ends the server, a second ACK of the
  last block (`tftp_client.c:192`) among them.
* `tftp_server_send`: when the request for a get is repeated before ACK 1, block -1 is asked of
  `send_handle`, and the server finishes after the first block; the `len` that
  tells the last block is overwritten by a repeated block, so that a block beyond the
  end may be asked for. The client notices the first and ignores the second.
* `uart_ymodem.c:452` the length in the header is used before the CRC of its block. Noise
  that spares the name and the flash address makes `erase_ota_target_flash` erase that many
  sectors: behind the slot, into the running one, and for a length of 0 all of the flash.
  `UpdatesFirmware` excepts those steps (`Overrun`), and `TransferEnds` the device that does
  not survive them. For slot 1 `get_ota_address` looks at the length (699), which leaves
  only 0 to overrun the slot; for slot 2 nothing looks at it.
* `uart_ymodem.c:684`: a terminal that takes an old ACK for that of its last frame and
  leaves makes the thread wait for ever. The retry counter `can_counter` never
  gets to 3.
* `uart_ymodem.c:458-463` erases the RDP image, which is never written: a file with one is always
  refused, and the old RDP image is lost.
* `uart_ymodem.c:775`: a block of zeros that arrives as the 255th is taken for the end of
  the file, in an unharmed transfer as well: the file is cut there and refused
  (`NoZeroBlock` excludes it from `UnharmedNotRefused`).

With `Threaded = TRUE` TLC also finds `WokenByVerdict`, `CallReturns` and
`ConnectingMeansCall` violated: a DISCONNECT queued before `join_user_data` is set
is handled after it, and a HANDSHAKE_DONE handled after the call has ended leaves
CONNECTING set. The passing runs for these are therefore without the thread.

Met while reading, certain without a search, and outside the models:

* `rtl8710b_ota.c:828` `alloc` is freed after the headers and again at 878.
* `rtl8710b_ota.c:1863-1867` a failed signature is reported as success: `ret = 0`
  follows `ret = -1`. (It cannot fail in this port.)
* `rtl8710b_ota.c:1881, 1895` `request` and the redirect buffers are freed and not
  cleared.
* `rtl8710b_ota.c:446` an RDP header of length 0 would be gone through with an
  uninitialised packet.
* No socket of either update has a receive timeout (see Fairness).
* The only RDP image is erased before its successor is there (845); after a
  loss of power the old firmware starts without it. And over HTTP a file
  that brings ANOTHER RDP image is refused only after everything is erased and
  downloaded, since that update compares with the RDP image in flash.
* `wifi_conf.c:821, 876` a semaphore handed to `wifi_connect` is never flagged, and
  RTW_SUCCESS means only that the join was started; `wifi_conf.h:146` says
  otherwise.
* `wifi_conf.c:699` JOIN_SIMPLE_CONFIG is tested after it was cleared; 774 an
  unassigned semaphore is deleted; 985 `join_result` leaks; 881 the flags are
  read and written in steps.
* `wifi_ind.c:222` a fourth handler of an event is dropped silently.
* `device_lock.c:29` a mutex that could not be created is used; 55 the lock
  gives no order.
* `flash_api.c:49` clears pending interrupts with the enable bits.
* `dhcps.c:1100` init and deinit run beside the callback; an AP whose own address is
  inside the pool can give it away (194); the pool of a table that is full never
  recovers, since RELEASE and DECLINE free nothing, and 0 is offered (524); a pool outside 100 to 200
  indexes behind the table (110).
* `uart_ymodem.c:530, rtl8710b_ota.c:553` the check at the end is a length and a sum: a file whose
  blocks were shifted by a repeated one passes it when the sum happens to be the
  same (`ChecksumTells` excludes such files). No comment or document says otherwise. An
  all-zero block needs no CRC (353), a failed CRC ends the transfer, there is no NAK; a second ATSY
  shares the statics, and nothing excludes another update.
* `tftp_server.c:71` ("ensure get from the correct TID") compares a port with itself, and the client
  does alike: a late DATA of another file would be taken. `tftp_client_send` returns 0
  without the last ACK, its timeouts repeat nothing, and its index of blocks begins
  at 1, the server's at 0. File name and mode are read uninitialised from a request
  that lacks them.
* `rtl8710b_ota.c:458` an early close leaves the RDP image cut, and its sum is all that is looked
  at: cut and damaged, it could pass by chance (`CutsAreNoticed`).
* `flash_api.c:365` a stream of length 0 at an unaligned address counts `size` down past 0 and
  writes on; no caller makes one.

## 6. Plan

Done: the DHCP server, the two updates, the join, the flash under its locks. The
order was by what a device in the field loses when it goes wrong.

Done since: `Firmware` and its three implementations, the serial update, TFTP, the
streams of the flash.

Next modules, in order:
1. `EventHandlers`: the three rows of `wifi_ind.c`, registered and removed while
   events are dispatched, with join and autoreconnect as users.
2. `LwIPDHCP`: `LwIP_DHCP` of `lwip_netconf.c` (a second call, and the
   `dhcp_stop` of a disconnection, race the first), and `DHCPExchange`, client and server
   together with lost and repeated messages: a station that keeps trying gets an
   address.
3. `WifiScan`, `WifiAP`: the rest of `wifi_conf.c`.
4. `TcmHeap`; then the UART adapter and the other network clients.

Next theorems: every invariant and every refinement that a passing run checks is now a
theorem. What the provers leave is liveness; its safety half can be stated, as
`LosslessCompletes` does: that a call that goes on is in one of the named phases, and that
what a phase counts gets smaller. `OtaHttp`, `OtaUpdate` and `YModem` come first. Each new
module brings the theorems of its own invariants.

## 7. Not modelled

* Vendored code, the mbed HAL and its register access: not this repository's logic,
  or no protocol without a model of the hardware.
* The WLAN driver, boot loader, WPS/simple config: libraries without source.
* Text: requests, URLs, option encodings, AT syntax. A parser is modelled by
  what it decides.
* The heap: running out of memory is a branch where the code has one, but the
  allocator and the double frees above are not.
* The refusing DNS responder that `dhcps_init` starts: it keeps no state.
* SNTP, HTTP, WebSocket and the UART adapter: later, see 6.
* Two updates at once: each model has one; nothing in the code excludes the second.
