----------------------------- MODULE FlashStream -----------------------------
(***************************************************************************)
(* What flash_api.c does with the bytes of the flash between its lock and  *)
(* its unlock (FlashLock): streams of any length at any address, made of   *)
(* commands that program at most 12 bytes of aligned words in one page.    *)
(* A step is one command; the power may fail after any of them.            *)
(*                                                                         *)
(* A byte to be written is the number of the cell it belongs to, so that a *)
(* byte in the wrong cell is seen.  The callers write an image piece after *)
(* piece, behind each other, and then read it (the updates do).            *)
(***************************************************************************)
EXTENDS Integers, Sequences

CONSTANTS
    Page,       \* bytes of a page, 256 in the code
    Wrap,       \* 2^32: the arithmetic of u32
    FlashSize,  \* bound: cells of the flash
    ImageLen,   \* bound: bytes of the image
    MaxLen      \* bound: bytes of one call

ASSUME FlashStreamAssumption ==
    /\ {Page, Wrap, FlashSize} \subseteq Nat \ {0}
    /\ Page % 4 = 0 /\ Wrap % 4 = 0 /\ FlashSize % Page = 0
    /\ FlashSize + 4 < Wrap
    /\ ImageLen \in Nat \ {0} /\ MaxLen \in Nat
    /\ Page + ImageLen - 1 <= FlashSize

VARIABLES
    mem,        \* the flash
    base,       \* where the image goes
    written,    \* bytes of the image the calls before have written
    pc,         \* the next command of the call
    call,       \* address and len
    addrBegin,
    addrEnd,
    size,       \* bytes of the page, or to be read, that remain
    pageCnt,
    buffer,     \* bytes the caller's buffer has given so far
    got         \* bytes the caller's buffer has received so far

locals == <<call, addrBegin, addrEnd, size, pageCnt, buffer, got>>
vars == <<mem, base, written, pc, locals>>

Cells == 0 .. FlashSize - 1

\* Contents of a cell that are not a byte of the image.
Erased == -1
Other == -2         \* what was there before
Overwritten == -3   \* programmed twice
Junk == -4          \* from behind the end of the caller's buffer

NoCall == [address |-> 0, len |-> 0]

Init ==
    /\ base \in 0 .. Page - 1
    /\ \E outside \in {Erased, Other} :
          mem = [k \in Cells |-> IF k \in base .. base + ImageLen - 1
                                 THEN Erased ELSE outside]
    /\ written = 0 /\ pc = "idle" /\ call = NoCall
    /\ addrBegin = 0 /\ addrEnd = 0 /\ size = 0 /\ pageCnt = 0 /\ buffer = 0 /\ got = <<>>

-----------------------------------------------------------------------------
(* The flash.                                                              *)

PageOf(a) == a - (a % Page)

\* A bit that is 0 stays 0 until it is erased.
Programmed(old, new) == CASE old = Erased -> new
                          [] new \in {Erased, old} -> old
                          [] OTHER -> Overwritten

\* FLASH_TxData12B.  The chip stays in the page: behind its last byte comes
\* its first.
TxData12B(address, bytes) ==
    LET nth(k) == (IF k < address THEN k + Page ELSE k) - address + 1
    IN  mem' = [k \in Cells |->
                  IF PageOf(k) = PageOf(address) /\ nth(k) <= Len(bytes)
                  THEN Programmed(mem[k], bytes[nth(k)]) ELSE mem[k]]

\* HAL_READ32
Word(address) == [i \in 1 .. 4 |-> mem[address + i - 1]]

-----------------------------------------------------------------------------
(* flash_stream_write.                                                     *)

AlignUp(a) == ((((a - 1) % Wrap) \div 4 + 1) * 4) % Wrap

\* Byte i of the caller's buffer, from 0.
Byte(i) == IF i < call.len THEN call.address + i ELSE Junk
Bytes(n) == [i \in 1 .. n |-> Byte(buffer + i - 1)]

\* Mutant: a page is not told from the next.
AddrEndUnpaged(cnt, begin, c) == c.address + c.len

\* The end of the page, or of the stream on the last one.
AddrEnd(cnt, begin, c) == IF cnt = 1 THEN c.address + c.len
                          ELSE PageOf(begin) + Page

\* Nothing is asked for at aligned addresses only: elsewhere a size of 0 would
\* be counted down to 2^32 - 1.
Legal(c) == c.len = 0 => c.address % 4 = 0

\* Mutant: the loop does not look at what remains.
RoomUncounted(address) == 4 - (address % 4)

\* What goes into the word that address is in: the loop ends with the word, or
\* when a size that is counted down has come to 0.
Room(address) ==
    IF size \in 1 .. 3 - (address % 4) THEN size ELSE 4 - (address % 4)

StreamWrite(len) ==
    LET c == [address |-> base + written, len |-> len]
        pages == (PageOf(c.address + len) - PageOf(c.address)) \div Page + 1
    IN  /\ pc = "idle" /\ written + len <= ImageLen /\ Legal(c)
        /\ call' = c /\ pageCnt' = pages
        /\ addrBegin' = c.address /\ addrEnd' = AddrEnd(pages, c.address, c)
        /\ size' = addrEnd' - addrBegin'
        /\ pc' = "head"
        /\ UNCHANGED <<mem, base, written, buffer, got>>

\* What the page begins with goes into the word that it is in.
WriteHead ==
    LET off == addrBegin % 4
        n == Room(addrBegin)
        word == [i \in 1 .. 4 |-> IF i \in off + 1 .. off + n
                                  THEN Byte(buffer + i - 1 - off)
                                  ELSE mem[addrBegin - off + i - 1]]
    IN  /\ pc = "head" /\ pc' = "words"
        /\ IF off = 0 THEN UNCHANGED <<mem, size, buffer>>
           ELSE /\ TxData12B(addrBegin - off, word)
                /\ size' = (size - n) % Wrap /\ buffer' = buffer + n
        /\ addrBegin' = AlignUp(addrBegin)
        /\ UNCHANGED <<base, written, call, addrEnd, pageCnt, got>>

\* Three words at a time, then one.
WriteWords ==
    LET n == IF size >= 12 THEN 12 ELSE 4
    IN  /\ pc = "words" /\ size >= 4
        /\ TxData12B(addrBegin, Bytes(n))
        /\ size' = size - n /\ buffer' = buffer + n
        /\ addrBegin' = addrBegin + n
        /\ UNCHANGED <<base, written, pc, call, addrEnd, pageCnt, got>>

\* Mutant: the page is counted only when it ends within a word.
WriteTailUncounted ==
    LET word == Bytes(size) \o SubSeq(Word(addrBegin), size + 1, 4)
    IN  /\ pc = "words" /\ size < 4
        /\ IF size = 0 THEN UNCHANGED <<mem, pageCnt>>
           ELSE TxData12B(addrBegin, word) /\ pageCnt' = pageCnt - 1
        /\ buffer' = buffer + size
        /\ addrBegin' = addrEnd /\ addrEnd' = AddrEnd(pageCnt', addrEnd, call)
        /\ size' = addrEnd' - addrBegin'
        /\ pc' = IF pageCnt' = 0 THEN "written" ELSE "head"
        /\ UNCHANGED <<base, written, call, got>>

\* What is left of the page goes into the word that it begins.
WriteTail ==
    LET word == Bytes(size) \o SubSeq(Word(addrBegin), size + 1, 4)
    IN  /\ pc = "words" /\ size < 4
        /\ IF size = 0 THEN UNCHANGED mem ELSE TxData12B(addrBegin, word)
        /\ buffer' = buffer + size
        /\ pageCnt' = pageCnt - 1
        /\ addrBegin' = addrEnd /\ addrEnd' = AddrEnd(pageCnt', addrEnd, call)
        /\ size' = addrEnd' - addrBegin'
        /\ pc' = IF pageCnt' = 0 THEN "written" ELSE "head"
        /\ UNCHANGED <<base, written, call, got>>

-----------------------------------------------------------------------------
(* flash_write_word, for the next four bytes.                              *)

WriteWord ==
    /\ pc = "idle" /\ written + 4 <= ImageLen
    /\ call' = [address |-> base + written, len |-> 4]
    /\ pc' = "word"
    /\ UNCHANGED <<mem, base, written, addrBegin, addrEnd, size, pageCnt,
                   buffer, got>>

FirstWord ==
    LET off == call.address % 4
        old == Word(call.address - off)
    IN  /\ pc = "word"
        /\ TxData12B(call.address - off, SubSeq(old, 1, off) \o Bytes(4 - off))
        /\ buffer' = 4 - off
        /\ pc' = IF off = 0 THEN "written" ELSE "secondWord"
        /\ UNCHANGED <<base, written, call, addrBegin, addrEnd, size, pageCnt, got>>

SecondWord ==
    LET off == call.address % 4
        next == call.address - off + 4
    IN  /\ pc = "secondWord" /\ pc' = "written"
        /\ TxData12B(next, Bytes(off) \o SubSeq(Word(next), off + 1, 4))
        /\ buffer' = buffer + off
        /\ UNCHANGED <<base, written, call, addrBegin, addrEnd, size, pageCnt, got>>

-----------------------------------------------------------------------------
(* flash_stream_read and flash_read_word.                                  *)

StreamRead(address, len) ==
    /\ pc = "idle" /\ written = ImageLen /\ address + len <= FlashSize
    /\ call' = [address |-> address, len |-> len] /\ Legal(call')
    /\ addrBegin' = address /\ size' = len
    /\ pc' = "readHead"
    /\ UNCHANGED <<mem, base, written, addrEnd, pageCnt, buffer, got>>

ReadHead ==
    LET off == addrBegin % 4
        n == Room(addrBegin)
    IN  /\ pc = "readHead" /\ pc' = "readWords"
        /\ IF off = 0 THEN UNCHANGED <<size, got>>
           ELSE /\ got' = got \o SubSeq(Word(addrBegin - off), off + 1, off + n)
                /\ size' = (size - n) % Wrap
        /\ addrBegin' = AlignUp(addrBegin)
        /\ UNCHANGED <<mem, base, written, call, addrEnd, pageCnt, buffer>>

ReadWords ==
    /\ pc = "readWords" /\ size >= 4
    /\ got' = got \o Word(addrBegin)
    /\ addrBegin' = addrBegin + 4 /\ size' = size - 4
    /\ UNCHANGED <<mem, base, written, pc, call, addrEnd, pageCnt, buffer>>

ReadTail ==
    /\ pc = "readWords" /\ size < 4 /\ pc' = "read"
    /\ got' = IF size = 0 THEN got
              ELSE got \o SubSeq(Word(addrBegin), 1, size)
    /\ UNCHANGED <<mem, base, written, call, addrBegin, addrEnd, size, pageCnt,
                   buffer>>

ReadWord(address) ==
    LET off == address % 4
        first == Word(address - off)
    IN  /\ pc = "idle" /\ written = ImageLen /\ address + 4 <= FlashSize
        /\ call' = [address |-> address, len |-> 4]
        /\ got' = IF off = 0 THEN first
                  ELSE SubSeq(first, off + 1, 4)
                       \o SubSeq(Word(address - off + 4), 1, off)
        /\ pc' = "read"
        /\ UNCHANGED <<mem, base, written, addrBegin, addrEnd, size, pageCnt,
                       buffer>>

-----------------------------------------------------------------------------

\* The caller goes on behind what it has written.
Return ==
    /\ pc \in {"written", "read"} /\ pc' = "idle"
    /\ written' = IF pc = "written" THEN written + call.len ELSE written
    /\ call' = NoCall /\ addrBegin' = 0 /\ addrEnd' = 0 /\ size' = 0
    /\ pageCnt' = 0 /\ buffer' = 0 /\ got' = <<>>
    /\ UNCHANGED <<mem, base>>

Step ==
    \/ WriteHead \/ WriteWords \/ WriteTail
    \/ FirstWord \/ SecondWord
    \/ ReadHead \/ ReadWords \/ ReadTail
    \/ Return

Next ==
    \/ \E len \in 0 .. MaxLen : StreamWrite(len)
    \/ WriteWord
    \/ \E address \in Cells, len \in 0 .. MaxLen : StreamRead(address, len)
    \/ \E address \in Cells : ReadWord(address)
    \/ Step

Spec == Init /\ [][Next]_vars

\* Interrupts are off: nothing keeps the task from its next command.
FairSpec == Spec /\ WF_vars(Step)

-----------------------------------------------------------------------------

TypeOK ==
    /\ mem \in [Cells -> Cells \cup {Erased, Other, Overwritten, Junk}]
    /\ base \in 0 .. Page - 1 /\ written \in 0 .. ImageLen
    /\ pc \in {"idle", "head", "words", "word", "secondWord", "written",
               "readHead", "readWords", "read"}
    /\ call \in [address : Cells \cup {FlashSize}, len : 0 .. FlashSize]
    /\ addrBegin \in 0 .. FlashSize
    /\ addrEnd \in 0 .. FlashSize + Page
    /\ size \in 0 .. FlashSize /\ pageCnt \in Nat
    /\ buffer \in 0 .. call.len
    /\ got \in Seq(Cells \cup {Erased, Other})

ImageCells == base .. base + ImageLen - 1

\* The first n bytes of the image are in their cells, the others are erased,
\* and the cells around it are all as they were.
Holds(n) ==
    /\ \A k \in ImageCells : mem[k] = IF k < base + n THEN k ELSE Erased
    /\ \E outside \in {Erased, Other} :
          \A k \in Cells \ ImageCells : mem[k] = outside

\* Of what the caller has asked for, the flash holds at any moment, and so
\* after a loss of power, a beginning without a gap, every byte in its cell
\* and none programmed twice; the bytes around it, in the same words and the
\* same pages, are as they were.  A call that returns has written all it was
\* given, or given the bytes that the flash holds, in order.
BytesInPlace ==
    /\ Holds(written + buffer)
    /\ \A i \in 1 .. Len(got) : got[i] = mem[call.address + i - 1]
    /\ pc = "written" => buffer = call.len
    /\ pc = "read" => Len(got) = call.len

\* Every call returns: no loop over what remains counts past 0.
CallsReturn == pc # "idle" ~> pc = "idle"
=============================================================================
