-------------------------- MODULE FlashStream_proofs --------------------------
(***************************************************************************)
(* Proof that every byte of a stream or word gets into its own cell, once, *)
(* and that a read gives what is there, for any page size, image and calls.*)
(*                                                                         *)
(* Arithmetic of addresses first, then what one command does, the          *)
(* invariant, and one lemma for each action.                               *)
(***************************************************************************)
EXTENDS FlashStream, TLAPS

-----------------------------------------------------------------------------
(* Words and pages.                                                        *)

\* What % and \div are, for SMT to use once.
LEMMA DivMod ==
    ASSUME NEW m \in Nat \ {0}, NEW x \in Int
    PROVE  /\ x % m \in 0 .. m - 1 /\ x \div m \in Int
           /\ x = (x \div m) * m + (x % m)
  OBVIOUS

\* There is only one remainder.
LEMMA ModUnique ==
    ASSUME NEW m \in Nat \ {0}, NEW q \in Int, NEW r \in 0 .. m - 1
    PROVE  (q * m + r) % m = r
<1> DEFINE x == q * m + r
<1>1. x \in Int /\ x % m \in 0 .. m - 1 /\ x \div m \in Int
      /\ x = (x \div m) * m + (x % m)
  BY DivMod
<1>2. ((x \div m) - q) * m = r - (x % m)
  BY <1>1
<1>3. (x \div m) - q >= 1 => ((x \div m) - q) * m >= m
  BY <1>1
<1>4. (x \div m) - q <= -1 => ((x \div m) - q) * m <= -m
  BY <1>1
<1>5. (x \div m) - q = 0
  BY <1>1, <1>2, <1>3, <1>4
<1> QED
  BY <1>1, <1>2, <1>5

\* A product by at least 1 is no smaller.
LEMMA Multiple ==
    ASSUME NEW m \in Nat, NEW x \in Nat \ {0}
    PROVE  x * m \in Nat /\ x * m >= m
  OBVIOUS

\* A remainder is its own remainder.
LEMMA ModSmall ==
    ASSUME NEW m \in Nat \ {0}, NEW r \in 0 .. m - 1
    PROVE  r % m = r
<1>1. 0 * m + r = r
  OBVIOUS
<1> QED
  BY <1>1, ModUnique

\* The page of an address between two multiples of Page.
LEMMA PageOfUnique ==
    ASSUME NEW j \in Nat, NEW a \in j * Page .. j * Page + Page - 1
    PROVE  a \in Nat /\ PageOf(a) = j * Page
<1> DEFINE r == a - j * Page
<1>1. Page \in Nat \ {0} /\ j * Page \in Nat
  BY FlashStreamAssumption
<1>2. r \in 0 .. Page - 1 /\ a = j * Page + r /\ a \in Nat
  BY <1>1
<1>3. a % Page = r
  <2> HIDE DEF r
  <2> QED
    BY <1>1, <1>2, ModUnique
<1> QED
  BY <1>1, <1>2, <1>3 DEF PageOf

\* Every address lies in a page.
LEMMA PageOfResult ==
    ASSUME NEW a \in Nat
    PROVE  \E j \in Nat : /\ PageOf(a) = j * Page
                          /\ a \in j * Page .. j * Page + Page - 1
<1>1. Page \in Nat \ {0}
  BY FlashStreamAssumption
<1>2. /\ a % Page \in 0 .. Page - 1 /\ a \div Page \in Int
      /\ a = (a \div Page) * Page + (a % Page)
  BY <1>1, DivMod
<1>3. a \div Page >= 0
  <2> SUFFICES ASSUME a \div Page <= -1 PROVE FALSE
    BY <1>2
  <2>1. (a \div Page) * Page <= -Page
    BY <1>1, <1>2
  <2> QED
    BY <1>1, <1>2, <2>1
<1>4. PageOf(a) = (a \div Page) * Page
  BY <1>1, <1>2 DEF PageOf
<1> DEFINE q == a \div Page
<1>5. q \in Nat /\ PageOf(a) = q * Page /\ a \in q * Page .. q * Page + Page - 1
  BY <1>1, <1>2, <1>3, <1>4
<1> HIDE DEF q
<1> QED
  BY <1>5

\* A page begins with a word.
LEMMA Aligned ==
    ASSUME NEW m \in Nat, m % 4 = 0, NEW j \in Nat
    PROVE  j * m \in Nat /\ (j * m) % 4 = 0
<1> DEFINE q == m \div 4
<1>1. q \in Nat /\ m = 4 * q
  OBVIOUS
<1> HIDE DEF q
<1>2. j * m = (j * q) * 4
  BY <1>1
<1> QED
  BY <1>1, <1>2

\* What wraps at address 0 still gives the next word's address.
LEMMA AlignUpResult ==
    ASSUME NEW a \in 0 .. FlashSize
    PROVE  /\ AlignUp(a) \in Nat /\ AlignUp(a) % 4 = 0
           /\ AlignUp(a) \in a .. a + 3
<1>1. Wrap \in Nat \ {0} /\ Wrap % 4 = 0 /\ FlashSize \in Nat /\ FlashSize + 4 < Wrap
  BY FlashStreamAssumption
<1>2. CASE a = 0
  <2>1. (a - 1) % Wrap = Wrap - 1
    <3>1. (-1) * Wrap + (Wrap - 1) = a - 1
      BY <1>1, <1>2
    <3>2. ((-1) * Wrap + (Wrap - 1)) % Wrap = Wrap - 1
      BY <1>1, ModUnique
    <3> QED
      BY <3>1, <3>2
  <2>2. ((Wrap - 1) \div 4 + 1) * 4 = Wrap
    BY <1>1
  <2>3. Wrap % Wrap = 0
    <3>1. (1 * Wrap + 0) % Wrap = 0
      BY <1>1, ModUnique
    <3> QED
      BY <3>1, <1>1
  <2> QED
    BY <1>1, <1>2, <2>1, <2>2, <2>3 DEF AlignUp
<1>3. CASE a # 0
  <2>1. (a - 1) % Wrap = a - 1
    BY <1>1, <1>3, ModSmall
  <2> DEFINE u == ((a - 1) \div 4 + 1) * 4
  <2>2. u \in Nat /\ u % 4 = 0 /\ u \in a .. a + 3
    BY <1>1, <1>3
  <2>3. u % Wrap = u
    <3> HIDE DEF u
    <3> QED
      BY <1>1, <2>2, ModSmall
  <2> QED
    BY <2>1, <2>2, <2>3 DEF AlignUp
<1> QED
  BY <1>2, <1>3

-----------------------------------------------------------------------------
(* One command.                                                            *)

\* The bytes of a command at address at: those of the cells from lo to hi - 1
\* are new, the others what is there.
Fits(at, bytes, lo, hi) ==
    \A i \in 1 .. Len(bytes) :
       bytes[i] = IF at + i - 1 \in lo .. hi - 1 THEN at + i - 1
                  ELSE mem[at + i - 1]

Blank(lo, hi) == \A k \in lo .. hi - 1 : mem[k] = Erased

\* From f to g the cells from lo to hi - 1 get their bytes.
Adds(f, g, lo, hi) ==
    \A k \in Cells : g[k] = IF k \in lo .. hi - 1 THEN k ELSE f[k]

\* A command that stays in a page programs its bytes and no others.
LEMMA Programs ==
    ASSUME mem \in [Cells -> Int],
           NEW j \in Nat, NEW at \in Nat, NEW bytes \in Seq(Int),
           j * Page <= at, at + Len(bytes) <= j * Page + Page,
           at + Len(bytes) <= FlashSize, TxData12B(at, bytes),
           NEW lo \in Nat, NEW hi \in Nat,
           at <= lo, lo < hi, hi <= at + Len(bytes),
           Blank(lo, hi), Fits(at, bytes, lo, hi)
    PROVE  mem' \in [Cells -> Int] /\ Adds(mem, mem', lo, hi)
<1> DEFINE nth(k) == (IF k < at THEN k + Page ELSE k) - at + 1
<1> DEFINE inside(k) == PageOf(k) = PageOf(at) /\ nth(k) <= Len(bytes)
<1>1. /\ Page \in Nat \ {0} /\ j * Page \in Nat
      /\ FlashSize \in Nat \ {0} /\ Len(bytes) \in Nat
  BY SMTT(30), FlashStreamAssumption
<1>2. PageOf(at) = j * Page
  BY <1>1, PageOfUnique
<1>7. \A k \in at .. at + Len(bytes) - 1 :
         bytes[k - at + 1] = IF k \in lo .. hi - 1 THEN k ELSE mem[k]
  <2> SUFFICES ASSUME NEW k \in at .. at + Len(bytes) - 1
               PROVE  bytes[k - at + 1] = IF k \in lo .. hi - 1 THEN k ELSE mem[k]
    OBVIOUS
  <2> DEFINE i == k - at + 1
  <2>1. i \in 1 .. Len(bytes) /\ at + i - 1 = k
    BY <1>1
  <2> HIDE DEF i
  <2>2. bytes[i] = IF at + i - 1 \in lo .. hi - 1 THEN at + i - 1
                   ELSE mem[at + i - 1]
    BY <2>1 DEF Fits
  <2>3. bytes[i] = IF k \in lo .. hi - 1 THEN k ELSE mem[k]
    BY <2>1, <2>2
  <2> QED
    BY <2>3 DEF i
<1>8. \A k \in lo .. hi - 1 : mem[k] = Erased
  BY DEF Blank
<1>3. mem' = [k \in Cells |-> IF inside(k) THEN Programmed(mem[k], bytes[nth(k)])
                              ELSE mem[k]]
  BY DEF TxData12B
<1>4. ASSUME NEW k \in Cells
      PROVE  inside(k) <=> k \in at .. at + Len(bytes) - 1
  <2>1. k \in Nat
    BY <1>1 DEF Cells
  <2>2. CASE k \in at .. at + Len(bytes) - 1
    <3>1. PageOf(k) = j * Page
      BY <1>1, <2>1, <2>2, PageOfUnique
    <3> QED
      BY <1>1, <1>2, <2>1, <2>2, <3>1
  <2>3. CASE k >= at + Len(bytes)
    BY <1>1, <2>1, <2>3
  <2>4. CASE k < at
    <3>1. ASSUME PageOf(k) = j * Page PROVE k >= j * Page
      <4>1. PICK i \in Nat : /\ PageOf(k) = i * Page
                             /\ k \in i * Page .. i * Page + Page - 1
        BY <2>1, PageOfResult
      <4> QED
        BY <1>1, <2>1, <3>1, <4>1
    <3>2. PageOf(k) = j * Page => nth(k) > Len(bytes)
      BY <1>1, <2>1, <2>4, <3>1
    <3> QED
      BY <1>1, <1>2, <2>1, <2>4, <3>2
  <2> QED
    BY <1>1, <2>1, <2>2, <2>3, <2>4
<1>5. ASSUME NEW k \in Cells
      PROVE  mem'[k] = IF k \in lo .. hi - 1 THEN k ELSE mem[k]
  <2>1. k \in Nat /\ mem[k] \in Int
    BY <1>1 DEF Cells
  <2>2. CASE k \in at .. at + Len(bytes) - 1
    <3>1. mem'[k] = Programmed(mem[k], bytes[k - at + 1])
      <4>1. inside(k) /\ nth(k) = k - at + 1
        BY <1>4, <2>1, <2>2
      <4> HIDE DEF inside, nth
      <4> QED
        BY <1>3, <4>1
    <3>2. bytes[k - at + 1] = IF k \in lo .. hi - 1 THEN k ELSE mem[k]
      BY <1>7, <2>2
    <3>3. k \in lo .. hi - 1 => mem[k] = Erased
      BY <1>8
    <3> QED
      BY <2>1, <3>1, <3>2, <3>3 DEF Programmed, Erased
  <2>3. CASE k \notin at .. at + Len(bytes) - 1
    <3>1. ~inside(k)
      BY <1>4, <2>3
    <3>2. mem'[k] = mem[k]
      <4> HIDE DEF inside
      <4> QED
        BY <1>3, <3>1
    <3> QED
      BY <1>1, <2>1, <2>3, <3>2
  <2> QED
    BY <2>2, <2>3
<1>6. \A k \in Cells : mem'[k] \in Int
  BY <1>5, <1>1 DEF Cells
<1> QED
  BY <1>3, <1>5, <1>6 DEF Adds

HoldsIn(f, b, n) ==
    /\ \A k \in b .. b + ImageLen - 1 : f[k] = IF k < b + n THEN k ELSE Erased
    /\ \E outside \in {Erased, Other} :
          \A k \in Cells \ (b .. b + ImageLen - 1) : f[k] = outside

\* A beginning of n bytes becomes one of n + m bytes.
LEMMA Extends ==
    ASSUME NEW f, NEW g, NEW b \in 0 .. Page - 1, NEW n \in Nat, NEW m \in Nat,
           n + m <= ImageLen, HoldsIn(f, b, n), Adds(f, g, b + n, b + (n + m))
    PROVE  HoldsIn(g, b, n + m)
<1>1. /\ Page \in Nat /\ ImageLen \in Nat /\ FlashSize \in Nat
      /\ Page + ImageLen - 1 <= FlashSize
  BY FlashStreamAssumption
<1>2. \A k \in b .. b + ImageLen - 1 : k \in Cells
  BY <1>1 DEF Cells
<1>3. \A k \in b .. b + ImageLen - 1 :
         g[k] = IF k < b + (n + m) THEN k ELSE Erased
  BY <1>1, <1>2 DEF HoldsIn, Adds
<1>4. PICK outside \in {Erased, Other} :
         \A k \in Cells \ (b .. b + ImageLen - 1) : f[k] = outside
  BY DEF HoldsIn
<1>5. \A k \in Cells \ (b .. b + ImageLen - 1) : g[k] = outside
  BY <1>1, <1>4 DEF Cells, Adds
<1> QED
  BY <1>3, <1>5 DEF HoldsIn

-----------------------------------------------------------------------------
(* The invariant.                                                          *)

Writing == {"head", "words", "word", "secondWord", "written"}
Reading == {"readHead", "readWords", "read"}

ShapeInv ==
    /\ mem \in [Cells -> Int] /\ got \in Seq(Int)
    /\ base \in 0 .. Page - 1 /\ written \in Nat /\ buffer \in Nat
    /\ pc \in {"idle"} \cup Writing \cup Reading
    /\ call \in [address : Nat, len : Nat]
    /\ pc \in Writing => /\ got = <<>> /\ call.address = base + written
                         /\ written + call.len <= ImageLen
    /\ pc \in Reading => buffer = 0 /\ call.address + call.len <= FlashSize
    /\ pc = "idle" => buffer = 0 /\ got = <<>>
    /\ written + buffer <= ImageLen

\* A page is gone through from its first byte of the stream to addrEnd, and
\* the pages that are left are those up to the one of the end.
StreamInv ==
    pc \in {"head", "words"} =>
        LET at == call.address + buffer
            end == call.address + call.len
        IN  /\ addrBegin \in Nat /\ addrEnd \in Nat /\ size \in Nat
            /\ pageCnt \in Nat \ {0}
            /\ at + size = addrEnd
            /\ \E j \in Nat :
                  /\ at \in j * Page .. j * Page + Page
                  /\ pc = "head" => at < j * Page + Page
                  /\ PageOf(end) = j * Page + (pageCnt - 1) * Page
                  /\ addrEnd = IF pageCnt = 1 THEN end ELSE j * Page + Page
            /\ pc = "head" => addrBegin = at /\ (size = 0 => at % 4 = 0)
            /\ pc = "words" => addrBegin % 4 = 0 /\ (size > 0 => addrBegin = at)

WordInv ==
    /\ pc \in {"word", "secondWord"} => call.len = 4
    /\ pc = "word" => buffer = 0
    /\ pc = "secondWord" => call.address % 4 # 0
                            /\ buffer = 4 - (call.address % 4)

ReadInv ==
    /\ \A i \in 1 .. Len(got) : got[i] = mem[call.address + i - 1]
    /\ pc \in {"readHead", "readWords"} =>
          LET at == call.address + Len(got)
          IN  /\ addrBegin \in Nat /\ size \in Nat
              /\ Len(got) + size = call.len
              /\ pc = "readHead" => /\ got = <<>> /\ addrBegin = at
                                    /\ (size = 0 => at % 4 = 0)
              /\ pc = "readWords" => addrBegin % 4 = 0
                                     /\ (size > 0 => addrBegin = at)

DoneInv ==
    /\ pc = "written" => buffer = call.len
    /\ pc = "read" => Len(got) = call.len

Inv == /\ ShapeInv /\ StreamInv /\ WordInv /\ ReadInv /\ DoneInv
       /\ HoldsIn(mem, base, written + buffer)

\* The constants, with the facts every step needs.
LEMMA Constants ==
    /\ Page \in Nat \ {0} /\ Page % 4 = 0 /\ FlashSize \in Nat \ {0}
    /\ FlashSize % 4 = 0 /\ ImageLen \in Nat \ {0}
    /\ Page + ImageLen - 1 <= FlashSize
    /\ \A j \in Nat : j * Page \in Nat /\ (j * Page) % 4 = 0
    /\ Cells = 0 .. FlashSize - 1
<1>1. /\ Page \in Nat \ {0} /\ Page % 4 = 0 /\ FlashSize \in Nat \ {0}
      /\ FlashSize % Page = 0 /\ ImageLen \in Nat \ {0}
      /\ Page + ImageLen - 1 <= FlashSize
  BY FlashStreamAssumption
<1>2. PICK j \in Nat : PageOf(FlashSize) = j * Page
  BY <1>1, PageOfResult
<1>3. FlashSize = j * Page
  BY <1>1, <1>2 DEF PageOf
<1>4. \A i \in Nat : i * Page \in Nat /\ (i * Page) % 4 = 0
  BY <1>1, Aligned
<1> QED
  BY <1>1, <1>3, <1>4 DEF Cells

\* The invariant holds at the start.
LEMMA InitInv == Init => Inv
<1> SUFFICES ASSUME Init PROVE Inv
  OBVIOUS
<1>1. PICK outside \in {Erased, Other} :
         mem = [k \in Cells |-> IF k \in base .. base + ImageLen - 1
                                THEN Erased ELSE outside]
  BY DEF Init
<1>2. mem \in [Cells -> Int]
  BY <1>1 DEF Erased, Other
<1>3. HoldsIn(mem, base, written + buffer)
  BY <1>1, Constants DEF HoldsIn, Init
<1>4. ShapeInv /\ StreamInv /\ WordInv /\ ReadInv /\ DoneInv
  BY <1>2, Constants DEF Init, ShapeInv, StreamInv, WordInv, ReadInv, DoneInv,
     Writing, Reading, NoCall
<1> QED
  BY <1>3, <1>4 DEF Inv

\* The number of pages from the one of a to the one of e.
LEMMA Pages ==
    ASSUME NEW a \in Nat, NEW e \in Nat, a <= e,
           NEW pages, pages = (PageOf(e) - PageOf(a)) \div Page + 1
    PROVE  /\ pages \in Nat \ {0} /\ PageOf(e) \in Nat /\ PageOf(e) <= e
           /\ e < PageOf(e) + Page
           /\ \E j \in Nat : /\ PageOf(a) = j * Page
                             /\ a \in j * Page .. j * Page + Page - 1
                             /\ PageOf(e) = j * Page + (pages - 1) * Page
<1>1. PICK j \in Nat : /\ PageOf(a) = j * Page
                       /\ a \in j * Page .. j * Page + Page - 1
  BY PageOfResult
<1>2. PICK i \in Nat : /\ PageOf(e) = i * Page
                       /\ e \in i * Page .. i * Page + Page - 1
  BY PageOfResult
<1>3. Page \in Nat \ {0} /\ j * Page \in Nat /\ i * Page \in Nat
  BY Constants
<1>4. i >= j
  <2> SUFFICES ASSUME j - i >= 1 PROVE FALSE
    OBVIOUS
  <2>1. (j - i) * Page >= Page
    BY <1>3
  <2>2. (j - i) * Page = j * Page - i * Page
    BY <1>3
  <2> QED
    BY <1>1, <1>2, <1>3, <2>1, <2>2
<1>5. (i - j) * Page = i * Page - j * Page
  BY <1>3
<1>6. ((i - j) * Page) \div Page = i - j
  <2>1. \A x \in Int : (x * Page) \div Page = x
    BY <1>3
  <2> QED
    BY <2>1
<1>7. pages - 1 = i - j /\ pages \in Nat \ {0}
  BY <1>1, <1>2, <1>4, <1>5, <1>6
<1>8. PageOf(e) = j * Page + (pages - 1) * Page
  BY <1>2, <1>3, <1>5, <1>7
<1>9. PageOf(e) \in Nat /\ PageOf(e) <= e /\ e < PageOf(e) + Page
  BY <1>2, <1>3
<1>10. \E k \in Nat : /\ PageOf(a) = k * Page
                      /\ a \in k * Page .. k * Page + Page - 1
                      /\ PageOf(e) = k * Page + (pages - 1) * Page
  BY <1>1, <1>8
<1> QED
  BY <1>7, <1>9, <1>10

\* The first page of a stream, and the number of its pages.
LEMMA StreamWriteInv ==
    ASSUME Inv, NEW len \in 0 .. MaxLen, StreamWrite(len)
    PROVE  Inv'
<1> DEFINE a == base + written
<1> DEFINE e == a + len
<1> DEFINE c == [address |-> a, len |-> len]
<1> DEFINE pages == (PageOf(e) - PageOf(a)) \div Page + 1
<1>1. /\ len \in Nat /\ buffer = 0 /\ got = <<>> /\ a \in Nat /\ e \in Nat
      /\ pc = "idle" /\ written + len <= ImageLen /\ mem \in [Cells -> Int]
      /\ e = a + len /\ c.address = a /\ c.len = len
      /\ written \in Nat /\ base \in 0 .. Page - 1
  BY FlashStreamAssumption, Constants DEF Inv, ShapeInv, StreamWrite
<1>2. /\ call' = c /\ pageCnt' = pages /\ addrBegin' = a
      /\ addrEnd' = (IF pages = 1 THEN e ELSE PageOf(a) + Page)
      /\ size' = addrEnd' - a
      /\ pc' = "head" /\ (len = 0 => a % 4 = 0)
      /\ UNCHANGED <<mem, base, written, buffer, got>>
  BY DEF StreamWrite, Legal, AddrEnd
<1>3. ShapeInv'
  BY <1>1, <1>2, Constants DEF Inv, ShapeInv, Writing, Reading
<1>4. WordInv' /\ ReadInv' /\ DoneInv'
  BY <1>1, <1>2 DEF WordInv, ReadInv, DoneInv
<1>5. HoldsIn(mem, base, written + buffer)'
  BY <1>2 DEF Inv
<1>6. call'.address = a /\ call'.len = len
  BY <1>2
<1>12. pages = (PageOf(e) - PageOf(a)) \div Page + 1
  OBVIOUS
<1> HIDE DEF pages, e, a, c
<1>13. a <= e
  BY <1>1
<1>7. pages \in Nat \ {0} /\ PageOf(e) \in Nat /\ PageOf(e) <= e
  BY <1>1, <1>12, <1>13, Pages
<1>8. PICK j \in Nat : /\ PageOf(a) = j * Page
                       /\ a \in j * Page .. j * Page + Page - 1
                       /\ PageOf(e) = j * Page + (pages - 1) * Page
  BY <1>1, <1>12, <1>13, Pages
<1>9. j * Page \in Nat /\ Page \in Nat \ {0}
  BY Constants
<1>10. addrEnd' \in Nat /\ addrEnd' >= a /\ (size' = 0 => a % 4 = 0)
  BY <1>1, <1>2, <1>8, <1>9
<1>11. StreamInv'
  BY <1>1, <1>2, <1>6, <1>7, <1>8, <1>9, <1>10 DEF StreamInv
<1> QED
  BY <1>3, <1>4, <1>5, <1>11 DEF Inv

\* A command that programs the bytes of the image from lo to hi - 1.
LEMMA Writes ==
    ASSUME mem \in [Cells -> Int], base \in 0 .. Page - 1,
           NEW n \in Nat, NEW m \in Nat \ {0}, n + m <= ImageLen,
           NEW lo, lo = base + n, NEW hi, hi = base + (n + m),
           HoldsIn(mem, base, n),
           NEW j \in Nat, NEW at \in Nat, NEW bytes \in Seq(Int),
           j * Page <= at, at + Len(bytes) <= j * Page + Page,
           at + Len(bytes) <= FlashSize, at <= lo, hi <= at + Len(bytes),
           Fits(at, bytes, lo, hi), TxData12B(at, bytes)
    PROVE  mem' \in [Cells -> Int] /\ HoldsIn(mem', base, n + m)
<1>1. /\ Page \in Nat \ {0} /\ ImageLen \in Nat /\ Len(bytes) \in Nat
      /\ FlashSize \in Nat /\ Cells = 0 .. FlashSize - 1
  BY Constants
<1>2. base \in Nat /\ lo \in Nat /\ hi \in Nat /\ lo < hi
  BY <1>1
<1>3. Blank(lo, hi)
  <2> SUFFICES ASSUME NEW k \in lo .. hi - 1 PROVE mem[k] = Erased
    BY DEF Blank
  <2>1. k \in base .. base + ImageLen - 1 /\ ~(k < base + n)
    BY <1>1, <1>2
  <2> QED
    BY <2>1 DEF HoldsIn
<1>4. mem' \in [Cells -> Int] /\ Adds(mem, mem', lo, hi)
  BY <1>2, <1>3, Programs
<1>5. HoldsIn(mem', base, n + m)
  BY <1>4, Extends
<1> QED
  BY <1>4, <1>5

\* Where a stream is within its page.
LEMMA StreamFacts ==
    ASSUME Inv, pc \in {"head", "words"}, NEW at, at = call.address + buffer,
           NEW end, end = call.address + call.len
    PROVE  /\ at \in Nat /\ end \in Nat /\ at = base + written + buffer
           /\ buffer \in Nat /\ written \in Nat /\ base \in 0 .. Page - 1
           /\ size \in Nat /\ at + size = addrEnd /\ addrEnd <= end
           /\ call.address \in Nat /\ call.len \in Nat
           /\ call.address = base + written /\ written + call.len <= ImageLen
           /\ addrBegin \in Nat /\ addrEnd \in Nat /\ pageCnt \in Nat \ {0}
           /\ pc = "head" => addrBegin = at /\ (size = 0 => at % 4 = 0)
           /\ pc = "words" => addrBegin % 4 = 0 /\ (size > 0 => addrBegin = at)
           /\ \E j \in Nat :
                 /\ at \in j * Page .. j * Page + Page
                 /\ pc = "head" => at < j * Page + Page
                 /\ PageOf(end) = j * Page + (pageCnt - 1) * Page
                 /\ addrEnd = IF pageCnt = 1 THEN end ELSE j * Page + Page
                 /\ addrEnd <= j * Page + Page
<1>11. /\ buffer \in Nat /\ written \in Nat /\ base \in 0 .. Page - 1
       /\ call.address \in Nat /\ call.len \in Nat
       /\ call.address = base + written /\ written + call.len <= ImageLen
  BY DEF Inv, ShapeInv, Writing
<1>1. /\ at \in Nat /\ end \in Nat /\ at = base + written + buffer
      /\ buffer \in Nat /\ written \in Nat /\ base \in 0 .. Page - 1
      /\ call.address \in Nat /\ call.len \in Nat
      /\ call.address = base + written /\ written + call.len <= ImageLen
  BY <1>11
<1>2. /\ size \in Nat /\ at + size = addrEnd
      /\ addrBegin \in Nat /\ addrEnd \in Nat /\ pageCnt \in Nat \ {0}
      /\ pc = "head" => addrBegin = at /\ (size = 0 => at % 4 = 0)
      /\ pc = "words" => addrBegin % 4 = 0 /\ (size > 0 => addrBegin = at)
  BY DEF Inv, StreamInv
<1>3. PICK j \in Nat :
         /\ at \in j * Page .. j * Page + Page
         /\ pc = "head" => at < j * Page + Page
         /\ PageOf(end) = j * Page + (pageCnt - 1) * Page
         /\ addrEnd = IF pageCnt = 1 THEN end ELSE j * Page + Page
  BY DEF Inv, StreamInv
<1>4. PICK i \in Nat : /\ PageOf(end) = i * Page
                       /\ end \in i * Page .. i * Page + Page - 1
  BY <1>1, PageOfResult
<1>5. Page \in Nat \ {0} /\ j * Page \in Nat /\ i * Page \in Nat
  BY Constants
<1>6. CASE pageCnt = 1
  BY <1>1, <1>2, <1>3, <1>4, <1>5, <1>6
<1>7. CASE pageCnt > 1
  <2>1. pageCnt - 1 \in Nat \ {0}
    BY <1>2, <1>7
  <2>2. (pageCnt - 1) * Page >= Page
    BY <1>5, <2>1, Multiple
  <2>3. (pageCnt - 1) * Page \in Nat
    BY <1>5, <2>1, Multiple
  <2>4. addrEnd = j * Page + Page
    BY <1>3, <1>7
  <2>5. addrEnd <= PageOf(end)
    BY <1>3, <1>5, <2>2, <2>3, <2>4
  <2>6. PageOf(end) <= end
    BY <1>1, <1>4, <1>5
  <2> QED
    BY <1>1, <1>2, <1>3, <1>4, <1>5, <2>4, <2>5, <2>6
<1> QED
  BY <1>1, <1>2, <1>3, <1>5, <1>6, <1>7

-----------------------------------------------------------------------------
(* What the commands carry.                                                *)

\* The elements of two sequences, one behind the other.
LEMMA Joined ==
    ASSUME NEW s \in Seq(Int), NEW t \in Seq(Int)
    PROVE  /\ s \o t \in Seq(Int) /\ Len(s \o t) = Len(s) + Len(t)
           /\ \A i \in 1 .. Len(s) : (s \o t)[i] = s[i]
           /\ \A i \in Len(s) + 1 .. Len(s) + Len(t) : (s \o t)[i] = t[i - Len(s)]
  OBVIOUS

\* The elements of a part of a sequence.
LEMMA PartOf ==
    ASSUME NEW s \in Seq(Int), NEW a \in 1 .. Len(s) + 1, NEW b \in a - 1 .. Len(s)
    PROVE  /\ SubSeq(s, a, b) \in Seq(Int) /\ Len(SubSeq(s, a, b)) = b - a + 1
           /\ \A i \in 1 .. b - a + 1 : SubSeq(s, a, b)[i] = s[a + i - 1]
  OBVIOUS

\* What HAL_READ32 gives on the chip.
LEMMA WordResult ==
    ASSUME mem \in [Cells -> Int], NEW x \in Nat, x + 4 <= FlashSize
    PROVE  /\ Word(x) \in Seq(Int) /\ Len(Word(x)) = 4
           /\ \A i \in 1 .. 4 : Word(x)[i] = mem[x + i - 1]
<1>1. \A i \in 1 .. 4 : x + i - 1 \in Cells
  BY Constants
<1>2. \A i \in 1 .. 4 : mem[x + i - 1] \in Int
  BY <1>1
<1> QED
  BY <1>2 DEF Word

\* What the caller's buffer gives within its length.
LEMMA BytesResult ==
    ASSUME call \in [address : Nat, len : Nat], buffer \in Nat,
           NEW n \in Nat, buffer + n <= call.len
    PROVE  /\ Bytes(n) \in Seq(Int) /\ Len(Bytes(n)) = n
           /\ \A i \in 1 .. n : Bytes(n)[i] = call.address + buffer + i - 1
<1>1. call.address \in Nat /\ call.len \in Nat
  OBVIOUS
<1>2. \A i \in 1 .. n : Byte(buffer + i - 1) = call.address + buffer + i - 1
  BY <1>1 DEF Byte
<1>3. \A i \in 1 .. n : call.address + buffer + i - 1 \in Int
  BY <1>1
<1>4. Bytes(n) = [i \in 1 .. n |-> call.address + buffer + i - 1]
  BY <1>2 DEF Bytes
<1> QED
  BY <1>3, <1>4

\* A burst, or a whole word.
LEMMA FitsBytes ==
    ASSUME call \in [address : Nat, len : Nat], buffer \in Nat,
           NEW n \in Nat, buffer + n <= call.len, NEW lo, lo = call.address + buffer
    PROVE  Fits(lo, Bytes(n), lo, lo + n)
<1>1. lo \in Nat
  OBVIOUS
<1>2. /\ Len(Bytes(n)) = n
      /\ \A i \in 1 .. n : Bytes(n)[i] = call.address + buffer + i - 1
  BY BytesResult
<1>3. \A i \in 1 .. n : Bytes(n)[i] = lo + i - 1 /\ lo + i - 1 \in lo .. lo + n - 1
  BY <1>1, <1>2
<1> QED
  BY <1>2, <1>3 DEF Fits

\* Two parts, one behind the other.
LEMMA FitsBoth ==
    ASSUME NEW s \in Seq(Int), NEW t \in Seq(Int), NEW at \in Nat, NEW m,
           m = at + Len(s), NEW lo \in Nat, NEW hi \in Nat,
           Fits(at, s, lo, hi), Fits(m, t, lo, hi)
    PROVE  Fits(at, s \o t, lo, hi)
<1> DEFINE bytes == s \o t
<1> DEFINE new(k) == IF k \in lo .. hi - 1 THEN k ELSE mem[k]
<1>1. /\ bytes \in Seq(Int) /\ Len(bytes) = Len(s) + Len(t)
      /\ \A i \in 1 .. Len(s) : bytes[i] = s[i]
      /\ \A i \in Len(s) + 1 .. Len(s) + Len(t) : bytes[i] = t[i - Len(s)]
  BY Joined
<1>2. Len(s) \in Nat /\ Len(t) \in Nat
  OBVIOUS
<1>3. \A i \in 1 .. Len(s) : s[i] = new(at + i - 1)
  BY DEF Fits
<1>4. \A i \in 1 .. Len(t) : t[i] = new(m + i - 1)
  BY DEF Fits
<1> HIDE DEF bytes, new
<1>5. ASSUME NEW i \in 1 .. Len(bytes) PROVE bytes[i] = new(at + i - 1)
  <2>1. CASE i <= Len(s)
    BY <1>1, <1>2, <1>3, <2>1
  <2>2. CASE i > Len(s)
    <3> DEFINE k == i - Len(s)
    <3>1. k \in 1 .. Len(t) /\ i \in Len(s) + 1 .. Len(s) + Len(t)
          /\ m + k - 1 = at + i - 1
      BY <1>1, <1>2, <2>2
    <3>2. bytes[i] = t[k]
      BY <1>1, <3>1
    <3> HIDE DEF k
    <3>3. t[k] = new(m + k - 1)
      BY <1>4, <3>1
    <3> QED
      BY <3>1, <3>2, <3>3
  <2> QED
    BY <1>1, <1>2, <2>1, <2>2
<1>6. \A i \in 1 .. Len(bytes) : bytes[i] = new(at + i - 1)
  BY <1>5
<1>7. Fits(at, bytes, lo, hi)
  BY <1>6 DEF Fits, new
<1> QED
  BY <1>7 DEF bytes

\* A part of a word that is there.
LEMMA FitsOld ==
    ASSUME mem \in [Cells -> Int], NEW x \in Nat, x + 4 <= FlashSize,
           NEW a \in 1 .. 5, NEW b \in a - 1 .. 4, NEW lo \in Nat, NEW hi \in Nat,
           x + b <= lo \/ hi <= x + a - 1, NEW at, at = x + a - 1
    PROVE  /\ SubSeq(Word(x), a, b) \in Seq(Int)
           /\ Len(SubSeq(Word(x), a, b)) = b - a + 1
           /\ Fits(at, SubSeq(Word(x), a, b), lo, hi)
<1> DEFINE s == SubSeq(Word(x), a, b)
<1>1. /\ Word(x) \in Seq(Int) /\ Len(Word(x)) = 4
      /\ \A i \in 1 .. 4 : Word(x)[i] = mem[x + i - 1]
  BY WordResult
<1>2. /\ s \in Seq(Int) /\ Len(s) = b - a + 1
      /\ \A i \in 1 .. b - a + 1 : s[i] = Word(x)[a + i - 1]
  <2>1. a \in 1 .. Len(Word(x)) + 1 /\ b \in a - 1 .. Len(Word(x))
    BY <1>1
  <2> QED
    BY <1>1, <2>1, PartOf
<1> HIDE DEF s
<1>3. ASSUME NEW i \in 1 .. Len(s)
      PROVE  s[i] = IF at + i - 1 \in lo .. hi - 1 THEN at + i - 1
                    ELSE mem[at + i - 1]
  <2>1. /\ i \in 1 .. b - a + 1 /\ a + i - 1 \in 1 .. 4
        /\ x + (a + i - 1) - 1 = at + i - 1 /\ at + i - 1 \notin lo .. hi - 1
    BY <1>2
  <2> QED
    BY <1>1, <1>2, <2>1
<1>4. Fits(at, s, lo, hi)
  BY <1>3 DEF Fits
<1> QED
  BY <1>2, <1>4 DEF s

\* A word that begins with n new bytes.
LEMMA FitsBegin ==
    ASSUME mem \in [Cells -> Int], call \in [address : Nat, len : Nat],
           buffer \in Nat, NEW n \in 0 .. 4, buffer + n <= call.len,
           NEW lo, lo = call.address + buffer, lo + 4 <= FlashSize
    PROVE  /\ Bytes(n) \o SubSeq(Word(lo), n + 1, 4) \in Seq(Int)
           /\ Len(Bytes(n) \o SubSeq(Word(lo), n + 1, 4)) = 4
           /\ Fits(lo, Bytes(n) \o SubSeq(Word(lo), n + 1, 4), lo, lo + n)
<1> DEFINE s == Bytes(n)
<1> DEFINE t == SubSeq(Word(lo), n + 1, 4)
<1>1. lo \in Nat /\ n + 1 \in 1 .. 5 /\ 4 \in (n + 1) - 1 .. 4 /\ lo + n \in Nat
      /\ lo + n <= lo + (n + 1) - 1 /\ lo + n = lo + (n + 1) - 1
  OBVIOUS
<1>2. s \in Seq(Int) /\ Len(s) = n /\ Fits(lo, s, lo, lo + n)
  BY BytesResult, FitsBytes
<1>3. /\ t \in Seq(Int) /\ Len(t) = 4 - (n + 1) + 1
      /\ Fits(lo + n, t, lo, lo + n)
  BY <1>1, FitsOld
<1> HIDE DEF s, t
<1>4. Fits(lo, s \o t, lo, lo + n)
  BY <1>1, <1>2, <1>3, FitsBoth
<1>5. s \o t \in Seq(Int) /\ Len(s \o t) = Len(s) + Len(t)
  BY <1>2, <1>3, Joined
<1>6. Len(s \o t) = 4
  BY <1>2, <1>3, <1>5
<1> QED
  BY <1>4, <1>5, <1>6 DEF s, t

\* A word that ends with n new bytes.
LEMMA FitsEnd ==
    ASSUME mem \in [Cells -> Int], call \in [address : Nat, len : Nat],
           buffer \in Nat, NEW n \in 0 .. 4, buffer + n <= call.len,
           NEW at \in Nat, at + 4 <= FlashSize,
           NEW lo, lo = call.address + buffer, lo + n = at + 4
    PROVE  /\ SubSeq(Word(at), 1, 4 - n) \o Bytes(n) \in Seq(Int)
           /\ Len(SubSeq(Word(at), 1, 4 - n) \o Bytes(n)) = 4
           /\ Fits(at, SubSeq(Word(at), 1, 4 - n) \o Bytes(n), lo, lo + n)
<1> DEFINE s == SubSeq(Word(at), 1, 4 - n)
<1> DEFINE t == Bytes(n)
<1>1. lo \in Nat /\ 1 \in 1 .. 5 /\ 4 - n \in 1 - 1 .. 4 /\ lo + n \in Nat
      /\ at + (4 - n) <= lo /\ lo = at + (4 - n) /\ at = at + 1 - 1
  OBVIOUS
<1>2. t \in Seq(Int) /\ Len(t) = n /\ Fits(lo, t, lo, lo + n)
  BY BytesResult, FitsBytes
<1>3. /\ s \in Seq(Int) /\ Len(s) = (4 - n) - 1 + 1
      /\ Fits(at, s, lo, lo + n)
  BY <1>1, FitsOld
<1> HIDE DEF s, t
<1>4. lo = at + Len(s)
  BY SMTT(30), <1>1, <1>3
<1>5. Fits(at, s \o t, lo, lo + n)
  BY <1>1, <1>2, <1>3, <1>4, FitsBoth
<1>6. s \o t \in Seq(Int) /\ Len(s \o t) = Len(s) + Len(t)
  BY <1>2, <1>3, Joined
<1>7. Len(s \o t) = 4
  BY <1>2, <1>3, <1>6
<1> QED
  BY <1>5, <1>6, <1>7 DEF s, t

\* What the invariant says of a call that writes.
LEMMA WritingFacts ==
    ASSUME Inv, pc \in Writing
    PROVE  /\ mem \in [Cells -> Int] /\ HoldsIn(mem, base, written + buffer)
           /\ base \in 0 .. Page - 1 /\ written \in Nat /\ buffer \in Nat
           /\ call \in [address : Nat, len : Nat]
           /\ call.address \in Nat /\ call.len \in Nat
           /\ call.address = base + written /\ written + call.len <= ImageLen
           /\ got = <<>>
  BY DEF Inv, ShapeInv

\* A command of a call: the next n bytes get into their cells.
LEMMA Command ==
    ASSUME Inv, pc \in Writing, NEW n \in Nat \ {0}, buffer + n <= call.len,
           NEW lo, lo = call.address + buffer,
           NEW j \in Nat, NEW at \in Nat, NEW bytes \in Seq(Int),
           j * Page <= at, at + Len(bytes) <= j * Page + Page,
           at + Len(bytes) <= FlashSize, at <= lo, lo + n <= at + Len(bytes),
           Fits(at, bytes, lo, lo + n), TxData12B(at, bytes),
           buffer' = buffer + n, written' = written, base' = base
    PROVE  mem' \in [Cells -> Int] /\ HoldsIn(mem, base, written + buffer)'
<1>1. /\ mem \in [Cells -> Int] /\ HoldsIn(mem, base, written + buffer)
      /\ base \in 0 .. Page - 1 /\ written \in Nat /\ buffer \in Nat
      /\ call.address \in Nat /\ call.len \in Nat
      /\ call.address = base + written /\ written + call.len <= ImageLen
  BY WritingFacts
<1>2. Page \in Nat \ {0} /\ ImageLen \in Nat
  BY Constants
<1> DEFINE m == written + buffer
<1> DEFINE hi == lo + n
<1>3. m \in Nat /\ m + n <= ImageLen /\ lo = base + m /\ hi = base + (m + n)
  BY <1>1, <1>2
<1>4. /\ HoldsIn(mem, base, m) /\ hi <= at + Len(bytes)
      /\ Fits(at, bytes, lo, hi) /\ TxData12B(at, bytes)
  BY <1>1
<1>6. m + n = written + buffer'
  BY <1>1
<1> HIDE DEF m, hi
<1>5. mem' \in [Cells -> Int] /\ HoldsIn(mem', base, m + n)
  BY <1>1, <1>3, <1>4, Writes
<1> QED
  BY <1>5, <1>6

\* A word with n new bytes from byte off on.
HeadWord(off, n, at) ==
    [i \in 1 .. 4 |-> IF i \in off + 1 .. off + n THEN Byte(buffer + i - 1 - off)
                      ELSE mem[at + i - 1]]

\* A word with n new bytes, and old ones on both sides.
LEMMA FitsWithin ==
    ASSUME mem \in [Cells -> Int], call \in [address : Nat, len : Nat],
           buffer \in Nat, NEW off \in 1 .. 3, NEW n \in 1 .. 4 - off,
           buffer + n <= call.len, NEW at \in Nat, at + 4 <= FlashSize,
           NEW lo, lo = call.address + buffer, lo = at + off,
           NEW word, word = HeadWord(off, n, at)
    PROVE  /\ word \in Seq(Int) /\ Len(word) = 4
           /\ Fits(at, word, lo, lo + n)
<1>1. call.address \in Nat /\ call.len \in Nat
  OBVIOUS
<1>2. \A i \in off + 1 .. off + n : Byte(buffer + i - 1 - off) = at + i - 1
  BY <1>1 DEF Byte
<1>3. \A i \in 1 .. 4 : at + i - 1 \in Cells /\ mem[at + i - 1] \in Int
  BY Constants
<1>4. \A i \in 1 .. 4 :
         (IF i \in off + 1 .. off + n THEN Byte(buffer + i - 1 - off)
          ELSE mem[at + i - 1])
         = IF at + i - 1 \in lo .. lo + n - 1 THEN at + i - 1 ELSE mem[at + i - 1]
  <2> TAKE i \in 1 .. 4
  <2>1. i \in off + 1 .. off + n <=> at + i - 1 \in lo .. lo + n - 1
    OBVIOUS
  <2> QED
    BY <1>2, <2>1
<1>5. word = [i \in 1 .. 4 |->
                IF at + i - 1 \in lo .. lo + n - 1 THEN at + i - 1
                ELSE mem[at + i - 1]]
  BY <1>4 DEF HeadWord
<1>6. word \in Seq(Int) /\ Len(word) = 4
  BY <1>3, <1>5
<1> QED
  BY <1>5, <1>6 DEF Fits

\* The word that address a is in lies in the page and on the chip with it.
LEMMA WordInPage ==
    ASSUME NEW j \in Nat, NEW a \in Nat, j * Page <= a, a < j * Page + Page,
           a < FlashSize, NEW w, w = a - (a % 4)
    PROVE  /\ w \in Nat /\ w % 4 = 0 /\ j * Page <= w /\ w + 4 <= j * Page + Page
           /\ w + 4 <= FlashSize
<1>1. /\ Page \in Nat \ {0} /\ Page % 4 = 0 /\ FlashSize \in Nat
      /\ FlashSize % 4 = 0 /\ j * Page \in Nat /\ (j * Page) % 4 = 0
  BY Constants
<1> DEFINE p == j * Page
<1>2. p \in Nat /\ p % 4 = 0 /\ p <= a /\ a < p + Page
  BY <1>1
<1> HIDE DEF p
<1>3. /\ w \in Nat /\ w % 4 = 0 /\ p <= w /\ w + 4 <= p + Page
      /\ w + 4 <= FlashSize
  BY <1>1, <1>2
<1> QED
  BY <1>3 DEF p

-----------------------------------------------------------------------------
(* Streams.                                                                *)

\* The first word of a page, wherever the stream begins and ends in it.
LEMMA WriteHeadInv == ASSUME Inv, WriteHead PROVE Inv'
<1> DEFINE at == call.address + buffer
<1> DEFINE end == call.address + call.len
<1> DEFINE off == addrBegin % 4
<1> DEFINE n == Room(addrBegin)
<1> DEFINE word == [i \in 1 .. 4 |-> IF i \in off + 1 .. off + n
                                     THEN Byte(buffer + i - 1 - off)
                                     ELSE mem[addrBegin - off + i - 1]]
<1>1. /\ pc = "head" /\ pc' = "words" /\ addrBegin' = AlignUp(addrBegin)
      /\ off = 0 => UNCHANGED <<mem, size, buffer>>
      /\ off # 0 => /\ TxData12B(addrBegin - off, word)
                    /\ size' = (size - n) % Wrap /\ buffer' = buffer + n
      /\ UNCHANGED <<base, written, call, addrEnd, pageCnt, got>>
  BY DEF WriteHead
<1>2. /\ at \in Nat /\ end \in Nat /\ at = base + written + buffer
      /\ buffer \in Nat /\ written \in Nat /\ base \in 0 .. Page - 1
      /\ size \in Nat /\ at + size = addrEnd /\ addrEnd <= end
      /\ call.address \in Nat /\ call.len \in Nat
      /\ call.address = base + written /\ written + call.len <= ImageLen
      /\ addrBegin \in Nat /\ addrEnd \in Nat /\ pageCnt \in Nat \ {0}
      /\ addrBegin = at /\ (size = 0 => at % 4 = 0)
  BY <1>1, StreamFacts
<1>3. PICK j \in Nat : /\ at \in j * Page .. j * Page + Page
                       /\ at < j * Page + Page
                       /\ PageOf(end) = j * Page + (pageCnt - 1) * Page
                       /\ addrEnd = IF pageCnt = 1 THEN end ELSE j * Page + Page
                       /\ addrEnd <= j * Page + Page
  BY <1>1, StreamFacts
<1>4. /\ at = call.address + buffer /\ end = call.address + call.len
      /\ off = addrBegin % 4 /\ n = Room(addrBegin)
  OBVIOUS
<1>13. word = HeadWord(off, n, addrBegin - off)
  BY DEF HeadWord
<1> HIDE DEF at, end, off, n, word
<1>5. /\ Page \in Nat \ {0} /\ FlashSize \in Nat \ {0} /\ j * Page \in Nat
      /\ Page + ImageLen - 1 <= FlashSize /\ ImageLen \in Nat
      /\ Wrap \in Nat \ {0} /\ FlashSize + 4 < Wrap
  BY Constants, FlashStreamAssumption
<1>6. /\ AlignUp(addrBegin) \in Nat /\ AlignUp(addrBegin) % 4 = 0
      /\ AlignUp(addrBegin) \in addrBegin .. addrBegin + 3
  <2>1. addrBegin \in 0 .. FlashSize
    BY <1>2, <1>4, <1>5
  <2> QED
    BY <2>1, AlignUpResult
<1>7. /\ mem' \in [Cells -> Int] /\ HoldsIn(mem, base, written + buffer)'
      /\ buffer' \in Nat /\ size' \in Nat /\ buffer' + size' = buffer + size
      /\ buffer' >= buffer
      /\ size' > 0 => AlignUp(addrBegin) = call.address + buffer'
  <2>1. CASE off = 0
    <3>1. UNCHANGED <<mem, size, buffer, base, written>>
      BY <1>1, <2>1
    <3>2. AlignUp(addrBegin) = at
      BY <1>2, <1>4, <1>6, <2>1
    <3>3. mem' \in [Cells -> Int] /\ HoldsIn(mem, base, written + buffer)'
      BY <3>1 DEF Inv, ShapeInv
    <3> QED
      BY <1>2, <1>4, <3>1, <3>2, <3>3
  <2>2. CASE off # 0
    <3>1. /\ off \in 1 .. 3 /\ size > 0 /\ n \in 1 .. 4 - off /\ n <= size
          /\ n = size \/ n = 4 - off
      BY <1>2, <1>4, <2>2 DEF Room
    <3> DEFINE w == addrBegin - off
    <3>2. /\ w \in Nat /\ j * Page <= w /\ w + 4 <= j * Page + Page
          /\ w + 4 <= FlashSize
      <4>1. addrBegin < FlashSize /\ j * Page <= addrBegin
            /\ addrBegin < j * Page + Page /\ w = addrBegin - (addrBegin % 4)
        BY <1>2, <1>3, <1>4, <1>5, <3>1
      <4> HIDE DEF w
      <4> QED
        BY <1>2, <4>1, WordInPage
    <3>3. /\ at = call.address + buffer /\ at = w + off /\ buffer + n <= call.len
          /\ at + n <= w + 4 /\ w <= at /\ n \in Nat \ {0}
      BY <1>2, <1>4, <3>1
    <3>4. /\ mem \in [Cells -> Int] /\ call \in [address : Nat, len : Nat]
          /\ pc \in Writing
      BY <1>1 DEF Inv, ShapeInv, Writing
    <3>5. word = HeadWord(off, n, w)
      BY <1>13
    <3>6. /\ TxData12B(w, word) /\ size' = (size - n) % Wrap
          /\ buffer' = buffer + n /\ base' = base /\ written' = written
      BY <1>1, <2>2
    <3> HIDE DEF w
    <3>7. word \in Seq(Int) /\ Len(word) = 4 /\ Fits(w, word, at, at + n)
      BY <1>2, <3>1, <3>2, <3>3, <3>4, <3>5, FitsWithin
    <3>8. mem' \in [Cells -> Int] /\ HoldsIn(mem, base, written + buffer)'
      BY <3>2, <3>3, <3>4, <3>6, <3>7, Command
    <3>9. size' = size - n
      <4>1. size - n \in 0 .. Wrap - 1
        BY <1>2, <1>4, <1>5, <3>1
      <4> QED
        BY <1>5, <3>6, <4>1, ModSmall
    <3>10. size' > 0 => AlignUp(addrBegin) = call.address + buffer'
      BY <1>2, <1>4, <1>6, <3>1, <3>6, <3>9
    <3> QED
      BY <1>2, <3>1, <3>6, <3>8, <3>9, <3>10
  <2> QED
    BY <2>1, <2>2
<1>8. /\ pc' = "words" /\ addrBegin' = AlignUp(addrBegin)
      /\ UNCHANGED <<base, written, call, addrEnd, pageCnt, got>>
  BY <1>1
<1> DEFINE b == buffer'
<1> DEFINE s == size'
<1>14. b \in Nat /\ s \in Nat /\ b + s = buffer + size /\ b >= buffer
  BY <1>7
<1>17. b = buffer' /\ s = size'
  OBVIOUS
<1> HIDE DEF b, s
<1>15. /\ at \in Nat /\ call.address \in Nat /\ call.len \in Nat /\ buffer \in Nat
       /\ size \in Nat /\ written \in Nat /\ at = call.address + buffer
       /\ at + size = addrEnd /\ addrEnd \in Nat
  BY <1>2, <1>4
<1>16. buffer + size <= call.len /\ written + call.len <= ImageLen
  <2>1. end = call.address + call.len /\ addrEnd <= end
    BY <1>2, <1>4
  <2> QED
    BY <1>2, <1>15, <2>1
<1>9. ShapeInv'
  <2>1. written + b <= ImageLen
    BY <1>5, <1>14, <1>15, <1>16
  <2> QED
    BY <1>1, <1>2, <1>7, <1>8, <1>17, <2>1 DEF Inv, ShapeInv, Writing, Reading
<1>10. StreamInv'
  <2> DEFINE now == call.address + b
  <2>1. now \in Nat /\ now >= at /\ now + s = addrEnd
    <3> DEFINE a == call.address
    <3>1. a \in Nat /\ now = a + b /\ at = a + buffer
      BY <1>15
    <3> HIDE DEF a, now
    <3> QED
      BY <1>14, <1>15, <3>1
  <2>2. now \in j * Page .. j * Page + Page
    BY <1>3, <1>5, <1>14, <1>15, <2>1
  <2>3. /\ addrBegin' \in Nat /\ addrEnd' \in Nat /\ size' \in Nat
        /\ pageCnt' \in Nat \ {0} /\ addrBegin' % 4 = 0
        /\ size' > 0 => addrBegin' = now
        /\ call' = call /\ addrEnd' = addrEnd /\ pageCnt' = pageCnt /\ pc' = "words"
    BY <1>2, <1>6, <1>7, <1>8, <1>17
  <2>4. \E i \in Nat : /\ now \in i * Page .. i * Page + Page
                       /\ PageOf(end) = i * Page + (pageCnt - 1) * Page
                       /\ addrEnd = IF pageCnt = 1 THEN end ELSE i * Page + Page
    BY <1>3, <2>2
  <2>5. now = call'.address + buffer' /\ end = call'.address + call'.len
        /\ now + size' = addrEnd'
    BY <1>4, <1>17, <2>1, <2>3
  <2> HIDE DEF now
  <2> QED
    BY <2>3, <2>4, <2>5 DEF StreamInv
<1>11. ReadInv'
  BY <1>1, <1>8 DEF Inv, ShapeInv, Writing, ReadInv
<1>12. WordInv' /\ DoneInv'
  BY <1>8 DEF WordInv, DoneInv
<1> QED
  BY <1>7, <1>9, <1>10, <1>11, <1>12 DEF Inv

\* A burst or a word ends within the page.
LEMMA WriteWordsInv == ASSUME Inv, WriteWords PROVE Inv'
<1> DEFINE at == call.address + buffer
<1> DEFINE end == call.address + call.len
<1> DEFINE n == IF size >= 12 THEN 12 ELSE 4
<1> DEFINE bytes == Bytes(n)
<1>1. /\ pc = "words" /\ pc' = "words" /\ size >= 4
      /\ TxData12B(addrBegin, bytes)
      /\ size' = size - n /\ buffer' = buffer + n /\ addrBegin' = addrBegin + n
      /\ UNCHANGED <<base, written, call, addrEnd, pageCnt, got>>
  BY DEF WriteWords
<1>2. /\ at \in Nat /\ end \in Nat /\ at = base + written + buffer
      /\ buffer \in Nat /\ written \in Nat /\ base \in 0 .. Page - 1
      /\ size \in Nat /\ at + size = addrEnd /\ addrEnd <= end
      /\ call.address \in Nat /\ call.len \in Nat
      /\ call.address = base + written /\ written + call.len <= ImageLen
      /\ addrEnd \in Nat /\ pageCnt \in Nat \ {0}
      /\ addrBegin % 4 = 0 /\ addrBegin = at
  BY <1>1, StreamFacts
<1>3. PICK j \in Nat : /\ at \in j * Page .. j * Page + Page
                       /\ PageOf(end) = j * Page + (pageCnt - 1) * Page
                       /\ addrEnd = IF pageCnt = 1 THEN end ELSE j * Page + Page
                       /\ addrEnd <= j * Page + Page
  BY <1>1, StreamFacts
<1>4. /\ at = call.address + buffer /\ end = call.address + call.len
      /\ bytes = Bytes(n)
  OBVIOUS
<1>5. /\ Page \in Nat \ {0} /\ FlashSize \in Nat \ {0} /\ j * Page \in Nat
      /\ Page + ImageLen - 1 <= FlashSize /\ ImageLen \in Nat
  BY Constants
<1>6. n \in Nat \ {0} /\ n % 4 = 0 /\ n <= size
  BY <1>1, <1>2
<1> HIDE DEF at, end, n, bytes
<1>7. /\ buffer + n <= call.len /\ at + n <= j * Page + Page
      /\ at + n <= FlashSize /\ j * Page <= at
  <2>1. at + n <= addrEnd
    BY <1>2, <1>6
  <2>2. call.address + (buffer + n) <= call.address + call.len
    BY <1>2, <1>4, <1>6, <2>1
  <2>3. end <= FlashSize
    BY <1>2, <1>4, <1>5
  <2> QED
    BY <1>2, <1>3, <1>4, <1>5, <1>6, <2>1, <2>2, <2>3
<1>8. mem' \in [Cells -> Int] /\ HoldsIn(mem, base, written + buffer)'
  <2>1. /\ call \in [address : Nat, len : Nat] /\ pc \in Writing
    BY <1>1 DEF Inv, ShapeInv, Writing
  <2>2. bytes \in Seq(Int) /\ Len(bytes) = n /\ Fits(at, bytes, at, at + n)
    BY <1>2, <1>4, <1>6, <1>7, <2>1, BytesResult, FitsBytes
  <2>3. TxData12B(at, bytes) /\ buffer' = buffer + n /\ written' = written
        /\ base' = base
    BY <1>1, <1>2
  <2>4. /\ at + Len(bytes) <= j * Page + Page /\ at + Len(bytes) <= FlashSize
        /\ at <= at /\ at + n <= at + Len(bytes)
    BY <1>2, <1>6, <1>7, <2>2
  <2> QED
    BY <1>2, <1>4, <1>6, <1>7, <2>1, <2>2, <2>3, <2>4, Command
<1>9. ShapeInv'
  <2>1. buffer + n \in Nat /\ written + (buffer + n) <= ImageLen
    BY <1>2, <1>5, <1>6, <1>7
  <2> QED
    BY <1>1, <1>8, <2>1 DEF Inv, ShapeInv, Writing, Reading
<1>10. StreamInv'
  <2> DEFINE now == at + n
  <2>1. /\ now \in Nat /\ now + (size - n) = addrEnd /\ now % 4 = 0
        /\ size - n \in Nat
    BY <1>2, <1>6
  <2>2. now \in j * Page .. j * Page + Page
    BY <1>2, <1>3, <1>5, <1>6, <1>7
  <2>3. /\ addrBegin' = now /\ addrEnd' = addrEnd /\ size' = size - n
        /\ call' = call /\ pageCnt' = pageCnt /\ pc' = "words"
    BY <1>1, <1>2
  <2>4. \E i \in Nat : /\ now \in i * Page .. i * Page + Page
                       /\ PageOf(end) = i * Page + (pageCnt - 1) * Page
                       /\ addrEnd = IF pageCnt = 1 THEN end ELSE i * Page + Page
    BY <1>3, <2>2
  <2>5. now = call'.address + buffer' /\ end = call'.address + call'.len
    <3>1. call.address + (buffer + n) = (call.address + buffer) + n
      BY <1>2, <1>6
    <3> QED
      BY <1>1, <1>4, <2>3, <3>1
  <2> HIDE DEF now
  <2> QED
    BY <1>2, <2>1, <2>3, <2>4, <2>5 DEF StreamInv
<1>11. ReadInv'
  BY <1>1 DEF Inv, ShapeInv, Writing, ReadInv
<1>12. WordInv' /\ DoneInv'
  BY <1>1 DEF WordInv, DoneInv
<1> QED
  BY <1>8, <1>9, <1>10, <1>11, <1>12 DEF Inv

\* The last word of a page, and the page after it.
LEMMA WriteTailInv == ASSUME Inv, WriteTail PROVE Inv'
<1> DEFINE at == call.address + buffer
<1> DEFINE end == call.address + call.len
<1> DEFINE bytes == Bytes(size) \o SubSeq(Word(addrBegin), size + 1, 4)
<1> DEFINE left == pageCnt - 1
<1> DEFINE next == AddrEnd(left, addrEnd, call)
<1>1. /\ pc = "words" /\ size < 4
      /\ size = 0 => UNCHANGED mem
      /\ size # 0 => TxData12B(addrBegin, bytes)
      /\ buffer' = buffer + size /\ pageCnt' = left
      /\ addrBegin' = addrEnd /\ addrEnd' = next /\ size' = next - addrEnd
      /\ pc' = IF left = 0 THEN "written" ELSE "head"
      /\ UNCHANGED <<base, written, call, got>>
  BY DEF WriteTail
<1>2. /\ at \in Nat /\ end \in Nat /\ at = base + written + buffer
      /\ buffer \in Nat /\ written \in Nat /\ base \in 0 .. Page - 1
      /\ size \in Nat /\ at + size = addrEnd /\ addrEnd <= end
      /\ call.address \in Nat /\ call.len \in Nat
      /\ call.address = base + written /\ written + call.len <= ImageLen
      /\ addrEnd \in Nat /\ pageCnt \in Nat \ {0}
      /\ addrBegin % 4 = 0 /\ (size > 0 => addrBegin = at)
  BY <1>1, StreamFacts
<1>3. PICK j \in Nat : /\ at \in j * Page .. j * Page + Page
                       /\ PageOf(end) = j * Page + (pageCnt - 1) * Page
                       /\ addrEnd = IF pageCnt = 1 THEN end ELSE j * Page + Page
                       /\ addrEnd <= j * Page + Page
  BY <1>1, StreamFacts
<1>4. /\ at = call.address + buffer /\ end = call.address + call.len
  OBVIOUS
<1>17. bytes = Bytes(size) \o SubSeq(Word(addrBegin), size + 1, 4)
  OBVIOUS
<1>5. /\ Page \in Nat \ {0} /\ FlashSize \in Nat \ {0} /\ j * Page \in Nat
      /\ Page + ImageLen - 1 <= FlashSize /\ ImageLen \in Nat
  BY Constants
<1>6. left \in Nat /\ left = pageCnt - 1
      /\ next = IF left = 1 THEN end ELSE PageOf(addrEnd) + Page
  BY <1>2 DEF AddrEnd
<1> HIDE DEF at, end, bytes, left, next
<1>7. /\ buffer + size <= call.len /\ written + (buffer + size) <= ImageLen
      /\ call.address + (buffer + size) = addrEnd
  <2>1. call.address + (buffer + size) = addrEnd
    BY <1>2, <1>4
  <2>2. call.address + (buffer + size) <= call.address + call.len
    BY <1>2, <1>4, <2>1
  <2> QED
    BY <1>2, <1>5, <2>1, <2>2
<1>8. mem' \in [Cells -> Int] /\ HoldsIn(mem, base, written + buffer)'
  <2>1. /\ call \in [address : Nat, len : Nat] /\ pc \in Writing
        /\ mem \in [Cells -> Int]
    BY <1>1 DEF Inv, ShapeInv, Writing
  <2>2. CASE size = 0
    <3>1. mem' = mem /\ base' = base /\ written' = written /\ buffer' = buffer
      BY <1>1, <1>2, <2>2
    <3> QED
      BY <2>1, <3>1 DEF Inv
  <2>3. CASE size # 0
    <3>1. addrBegin = at /\ size \in 1 .. 3 /\ at = at - (at % 4)
      BY <1>1, <1>2, <2>3
    <3>2. at < FlashSize /\ j * Page <= at /\ at < j * Page + Page
      <4>1. end <= FlashSize
        BY <1>2, <1>4, <1>5
      <4> QED
        BY <1>2, <1>3, <1>5, <3>1, <4>1
    <3>3. at + 4 <= j * Page + Page /\ at + 4 <= FlashSize
      BY <1>2, <3>1, <3>2, WordInPage
    <3>4. bytes = Bytes(size) \o SubSeq(Word(at), size + 1, 4) /\ size \in 0 .. 4
      BY <1>17, <3>1
    <3>5. bytes \in Seq(Int) /\ Len(bytes) = 4 /\ Fits(at, bytes, at, at + size)
      BY <1>2, <1>4, <1>7, <2>1, <3>3, <3>4, FitsBegin
    <3>6. TxData12B(at, bytes) /\ buffer' = buffer + size /\ written' = written
          /\ base' = base
      BY <1>1, <2>3, <3>1
    <3>7. at + size <= at + 4 /\ at <= at /\ size \in Nat \ {0}
      BY <1>2, <3>1
    <3> QED
      BY <1>2, <1>4, <1>7, <2>1, <3>2, <3>3, <3>5, <3>6, <3>7, Command
  <2> QED
    BY <2>2, <2>3
<1>9. buffer + size \in Nat
  BY <1>2
<1>10. ShapeInv'
  BY <1>1, <1>2, <1>7, <1>8, <1>9 DEF Inv, ShapeInv, Writing, Reading
<1>11. StreamInv'
  <2>1. SUFFICES ASSUME left # 0 PROVE StreamInv'
    BY <1>1 DEF StreamInv
  <2>2. addrEnd = j * Page + Page /\ left \in Nat \ {0}
    BY <1>2, <1>3, <1>6, <2>1
  <2> DEFINE i == j + 1
  <2>3. i \in Nat /\ i * Page = j * Page + Page
    BY <1>5
  <2>4. i * Page \in Nat /\ (i * Page) % 4 = 0
    BY <2>3, Constants
  <2>5. PageOf(end) = i * Page + (left - 1) * Page
    <3>1. left * Page = (left - 1) * Page + Page
      BY <1>5, <2>2
    <3>2. PageOf(end) = j * Page + left * Page
      BY <1>3, <1>6
    <3>3. (left - 1) * Page \in Nat /\ left * Page \in Nat
      BY <1>5, <2>2
    <3> QED
      BY <1>5, <2>3, <3>1, <3>2, <3>3
  <2>6. addrEnd = i * Page /\ PageOf(addrEnd) = i * Page
    <3>1. addrEnd \in i * Page .. i * Page + Page - 1
      BY <1>5, <2>2, <2>3, <2>4
    <3> QED
      BY <2>2, <2>3, <3>1, PageOfUnique
  <2>7. next = IF left = 1 THEN end ELSE i * Page + Page
    BY <1>6, <2>6
  <2>8. next \in Nat /\ addrEnd <= next
    <3>1. CASE left = 1
      BY <1>2, <2>7, <3>1
    <3>2. CASE left # 1
      BY <1>5, <2>4, <2>6, <2>7, <3>2
    <3> QED
      BY <3>1, <3>2
  <2> HIDE DEF i
  <2>9. next - addrEnd \in Nat /\ addrEnd + (next - addrEnd) = next
    BY <1>2, <2>8
  <2>10. addrEnd \in i * Page .. i * Page + Page /\ addrEnd < i * Page + Page
         /\ addrEnd % 4 = 0
    BY <1>5, <2>4, <2>6
  <2>11. /\ addrBegin' = addrEnd /\ addrEnd' = next /\ size' = next - addrEnd
         /\ call' = call /\ pageCnt' = left /\ pc' = "head"
         /\ call'.address + buffer' = addrEnd /\ call'.address + call'.len = end
    BY <1>1, <1>4, <1>7, <2>1
  <2> QED
    BY <1>2, <2>2, <2>3, <2>5, <2>7, <2>8, <2>9, <2>10, <2>11 DEF StreamInv
<1>12. DoneInv'
  <2>1. SUFFICES ASSUME left = 0 PROVE buffer + size = call.len
    BY <1>1 DEF DoneInv
  <2>2. addrEnd = end
    BY <1>2, <1>3, <1>6, <2>1
  <2> QED
    BY <1>2, <1>4, <1>7, <2>2
<1>13. ReadInv'
  BY <1>1 DEF Inv, ShapeInv, Writing, ReadInv
<1>14. WordInv'
  BY <1>1 DEF WordInv
<1> QED
  BY <1>8, <1>10, <1>11, <1>12, <1>13, <1>14 DEF Inv

-----------------------------------------------------------------------------
(* Words.                                                                  *)

\* A word is asked for.
LEMMA WriteWordInv == ASSUME Inv, WriteWord PROVE Inv'
<1> DEFINE a == base + written
<1>1. /\ pc = "idle" /\ buffer = 0 /\ got = <<>> /\ mem \in [Cells -> Int]
      /\ base \in 0 .. Page - 1 /\ written \in Nat /\ written + 4 <= ImageLen
      /\ a \in Nat /\ a = base + written
  BY Constants DEF WriteWord, Inv, ShapeInv
<1>2. /\ call' = [address |-> a, len |-> 4] /\ pc' = "word"
      /\ UNCHANGED <<mem, base, written, buffer, got>>
  BY DEF WriteWord
<1> HIDE DEF a
<1>3. call'.address = a /\ call'.len = 4 /\ call' \in [address : Nat, len : Nat]
  BY <1>1, <1>2
<1>4. ShapeInv'
  BY <1>1, <1>2, <1>3, Constants DEF ShapeInv, Writing, Reading
<1>5. StreamInv' /\ WordInv' /\ ReadInv' /\ DoneInv'
  BY <1>1, <1>2, <1>3 DEF StreamInv, WordInv, ReadInv, DoneInv
<1>6. HoldsIn(mem, base, written + buffer)'
  BY <1>2 DEF Inv
<1> QED
  BY <1>4, <1>5, <1>6 DEF Inv

\* The word the address is in.
LEMMA FirstWordInv == ASSUME Inv, FirstWord PROVE Inv'
<1> DEFINE a == call.address
<1> DEFINE off == a % 4
<1> DEFINE n == 4 - off
<1> DEFINE w == a - off
<1> DEFINE bytes == SubSeq(Word(w), 1, off) \o Bytes(n)
<1>1. /\ pc = "word" /\ TxData12B(w, bytes) /\ buffer' = n
      /\ pc' = IF off = 0 THEN "written" ELSE "secondWord"
      /\ UNCHANGED <<base, written, call, addrBegin, addrEnd, size, pageCnt, got>>
  BY DEF FirstWord
<1>2. pc \in Writing
  BY <1>1 DEF Writing
<1>3. /\ mem \in [Cells -> Int] /\ HoldsIn(mem, base, written + buffer)
      /\ base \in 0 .. Page - 1 /\ written \in Nat /\ buffer \in Nat
      /\ call \in [address : Nat, len : Nat]
      /\ a \in Nat /\ a = base + written /\ written + call.len <= ImageLen
      /\ got = <<>>
  BY <1>2, WritingFacts
<1>4. call.len = 4 /\ buffer = 0
  BY <1>1 DEF Inv, WordInv
<1>5. /\ off \in 0 .. 3 /\ n \in 1 .. 4 /\ n = 4 - off /\ off = 4 - n /\ off = a % 4
      /\ w = a - off /\ w \in Nat /\ w <= a /\ a + n = w + 4 /\ a = call.address
  BY <1>3
<1>6. bytes = SubSeq(Word(w), 1, 4 - n) \o Bytes(n)
  BY <1>5
<1> HIDE DEF a, off, n, w, bytes
<1>7. /\ Page \in Nat \ {0} /\ FlashSize \in Nat \ {0} /\ ImageLen \in Nat
      /\ Page + ImageLen - 1 <= FlashSize
  BY Constants
<1>8. a < FlashSize /\ a = call.address + buffer /\ buffer + n <= call.len
      /\ n \in Nat \ {0} /\ n \in 0 .. 4
  BY <1>3, <1>4, <1>5, <1>7
<1>9. PICK j \in Nat : a \in j * Page .. j * Page + Page - 1
  BY <1>3, PageOfResult
<1>10. j * Page \in Nat
  BY Constants
<1>11. /\ j * Page <= w /\ w + 4 <= j * Page + Page /\ w + 4 <= FlashSize
  <2>1. j * Page <= a /\ a < j * Page + Page
    BY <1>3, <1>7, <1>9, <1>10
  <2> QED
    BY <1>3, <1>5, <1>8, <2>1, WordInPage
<1>12. bytes \in Seq(Int) /\ Len(bytes) = 4 /\ Fits(w, bytes, a, a + n)
  BY <1>3, <1>5, <1>6, <1>8, <1>11, FitsEnd
<1>13. mem' \in [Cells -> Int] /\ HoldsIn(mem, base, written + buffer)'
  <2>1. /\ TxData12B(w, bytes) /\ buffer' = buffer + n /\ written' = written
        /\ base' = base
    BY <1>1, <1>4, <1>5
  <2>2. a + n <= w + Len(bytes) /\ w + Len(bytes) <= j * Page + Page
        /\ w + Len(bytes) <= FlashSize
    BY <1>5, <1>11, <1>12
  <2> QED
    BY <1>2, <1>5, <1>8, <1>11, <1>12, <2>1, <2>2, Command
<1>14. written + n <= ImageLen /\ n \in Nat
  BY <1>3, <1>4, <1>5, <1>7
<1>15. ShapeInv'
  BY <1>1, <1>3, <1>13, <1>14 DEF Inv, ShapeInv, Writing, Reading
<1>16. StreamInv' /\ ReadInv'
  BY <1>1, <1>3 DEF StreamInv, ReadInv
<1>17. WordInv' /\ DoneInv'
  BY <1>1, <1>4, <1>5 DEF WordInv, DoneInv
<1> QED
  BY <1>13, <1>15, <1>16, <1>17 DEF Inv

\* The word behind it, which may begin another page.
LEMMA SecondWordInv == ASSUME Inv, SecondWord PROVE Inv'
<1> DEFINE a == call.address
<1> DEFINE off == a % 4
<1> DEFINE next == a - off + 4
<1> DEFINE bytes == Bytes(off) \o SubSeq(Word(next), off + 1, 4)
<1>1. /\ pc = "secondWord" /\ pc' = "written" /\ TxData12B(next, bytes)
      /\ buffer' = buffer + off
      /\ UNCHANGED <<base, written, call, addrBegin, addrEnd, size, pageCnt, got>>
  BY DEF SecondWord
<1>2. pc \in Writing
  BY <1>1 DEF Writing
<1>3. /\ mem \in [Cells -> Int] /\ HoldsIn(mem, base, written + buffer)
      /\ base \in 0 .. Page - 1 /\ written \in Nat /\ buffer \in Nat
      /\ call \in [address : Nat, len : Nat]
      /\ a \in Nat /\ a = base + written /\ written + call.len <= ImageLen
      /\ got = <<>>
  BY <1>2, WritingFacts
<1>4. call.len = 4 /\ off # 0 /\ buffer = 4 - off
  BY <1>1 DEF Inv, WordInv
<1>5. /\ off \in 1 .. 3 /\ next = a + buffer /\ next \in Nat /\ next % 4 = 0
      /\ a = call.address /\ buffer + off = 4
      /\ bytes = Bytes(off) \o SubSeq(Word(next), off + 1, 4)
  BY <1>3, <1>4
<1> HIDE DEF a, off, next, bytes
<1>6. /\ Page \in Nat \ {0} /\ FlashSize \in Nat \ {0} /\ ImageLen \in Nat
      /\ Page + ImageLen - 1 <= FlashSize
  BY Constants
<1>7. /\ next < FlashSize /\ next = call.address + buffer
      /\ buffer + off <= call.len /\ off \in Nat \ {0} /\ off \in 0 .. 4
  BY <1>3, <1>4, <1>5, <1>6
<1>8. PICK j \in Nat : next \in j * Page .. j * Page + Page - 1
  BY <1>5, PageOfResult
<1>9. j * Page \in Nat
  BY Constants
<1>10. /\ j * Page <= next /\ next + 4 <= j * Page + Page /\ next + 4 <= FlashSize
  <2>1. j * Page <= next /\ next < j * Page + Page /\ next = next - (next % 4)
    BY <1>5, <1>6, <1>8, <1>9
  <2> QED
    BY <1>5, <1>7, <2>1, WordInPage
<1>11. bytes \in Seq(Int) /\ Len(bytes) = 4 /\ Fits(next, bytes, next, next + off)
  BY <1>3, <1>5, <1>7, <1>10, FitsBegin
<1>12. mem' \in [Cells -> Int] /\ HoldsIn(mem, base, written + buffer)'
  <2>1. /\ TxData12B(next, bytes) /\ buffer' = buffer + off /\ written' = written
        /\ base' = base
    BY <1>1
  <2>2. next + off <= next + Len(bytes) /\ next + Len(bytes) <= j * Page + Page
        /\ next + Len(bytes) <= FlashSize /\ next <= next
    BY SMTT(30), <1>5, <1>10, <1>11
  <2> QED
    BY <1>2, <1>5, <1>7, <1>10, <1>11, <2>1, <2>2, Command
<1>13. buffer' = 4 /\ written + 4 <= ImageLen
  BY <1>1, <1>3, <1>4, <1>5
<1>14. ShapeInv'
  BY <1>1, <1>3, <1>12, <1>13 DEF Inv, ShapeInv, Writing, Reading
<1>15. StreamInv' /\ ReadInv' /\ WordInv' /\ DoneInv'
  BY <1>1, <1>3, <1>4, <1>13 DEF StreamInv, ReadInv, WordInv, DoneInv
<1> QED
  BY <1>12, <1>14, <1>15 DEF Inv

-----------------------------------------------------------------------------
(* Reading.                                                                *)

\* The bytes of s are those of the flash from address at on.
Same(at, s) == \A i \in 1 .. Len(s) : s[i] = mem[at + i - 1]

\* What is read fits where it comes from, with nothing new.
LEMMA SameFits ==
    ASSUME NEW at \in Nat, NEW s \in Seq(Int)
    PROVE  Same(at, s) <=> Fits(at, s, 0, 0)
<1>1. \A i \in 1 .. Len(s) : at + i - 1 \notin 0 .. 0 - 1
  OBVIOUS
<1> QED
  BY <1>1 DEF Same, Fits

\* What is read next goes behind what has been read.
LEMMA SameBoth ==
    ASSUME NEW at \in Nat, NEW s \in Seq(Int), NEW t \in Seq(Int), NEW m,
           m = at + Len(s), Same(at, s), Same(m, t)
    PROVE  /\ s \o t \in Seq(Int) /\ Len(s \o t) = Len(s) + Len(t)
           /\ Same(at, s \o t)
<1>1. m \in Nat
  OBVIOUS
<1>2. s \o t \in Seq(Int) /\ Len(s \o t) = Len(s) + Len(t)
  BY Joined
<1>3. Fits(at, s, 0, 0) /\ Fits(m, t, 0, 0)
  BY <1>1, SameFits
<1>4. Fits(at, s \o t, 0, 0)
  BY <1>3, FitsBoth
<1> QED
  BY <1>2, <1>4, SameFits

\* A word that is read.
LEMMA SameWord ==
    ASSUME mem \in [Cells -> Int], NEW x \in Nat, x + 4 <= FlashSize
    PROVE  Word(x) \in Seq(Int) /\ Len(Word(x)) = 4 /\ Same(x, Word(x))
  BY WordResult DEF Same

\* A part of a word that is read.
LEMMA SamePart ==
    ASSUME mem \in [Cells -> Int], NEW x \in Nat, x + 4 <= FlashSize,
           NEW a \in 1 .. 5, NEW b \in a - 1 .. 4, NEW at, at = x + a - 1
    PROVE  /\ SubSeq(Word(x), a, b) \in Seq(Int)
           /\ Len(SubSeq(Word(x), a, b)) = b - a + 1
           /\ Same(at, SubSeq(Word(x), a, b))
<1>1. at \in Nat /\ 0 <= x + a - 1 /\ 0 \in Nat
  OBVIOUS
<1>2. /\ SubSeq(Word(x), a, b) \in Seq(Int)
      /\ Len(SubSeq(Word(x), a, b)) = b - a + 1
      /\ Fits(at, SubSeq(Word(x), a, b), 0, 0)
  BY <1>1, FitsOld
<1> QED
  BY <1>1, <1>2, SameFits

\* The word an address is in is on the chip with it.
LEMMA WordOnChip ==
    ASSUME NEW a \in Nat, a < FlashSize
    PROVE  a - (a % 4) \in Nat /\ (a - (a % 4)) + 4 <= FlashSize
<1>1. FlashSize \in Nat /\ FlashSize % 4 = 0
  BY Constants
<1> QED
  BY <1>1

\* What the invariant says of a call that reads.
LEMMA ReadingFacts ==
    ASSUME Inv, pc \in Reading
    PROVE  /\ mem \in [Cells -> Int] /\ HoldsIn(mem, base, written + buffer)
           /\ base \in 0 .. Page - 1 /\ written \in Nat /\ buffer = 0
           /\ call \in [address : Nat, len : Nat]
           /\ call.address \in Nat /\ call.len \in Nat
           /\ call.address + call.len <= FlashSize
           /\ got \in Seq(Int) /\ Same(call.address, got)
           /\ Len(got) \in Nat /\ written + buffer <= ImageLen
  BY DEF Inv, ShapeInv, ReadInv, Same

\* A step that reads: what it leaves alone, and what it must give.
LEMMA Reads ==
    ASSUME mem \in [Cells -> Int], HoldsIn(mem, base, written + buffer),
           base \in 0 .. Page - 1, written \in Nat, buffer = 0,
           written + buffer <= ImageLen,
           UNCHANGED <<mem, base, written, buffer>>, pc' \in Reading,
           call' \in [address : Nat, len : Nat],
           call'.address + call'.len <= FlashSize,
           got' \in Seq(Int), Same(call'.address, got'),
           pc' = "readHead" =>
              /\ got' = <<>> /\ addrBegin' = call'.address
              /\ size' = call'.len /\ (size' = 0 => addrBegin' % 4 = 0),
           pc' = "readWords" =>
              /\ addrBegin' \in Nat /\ size' \in Nat
              /\ Len(got') + size' = call'.len /\ addrBegin' % 4 = 0
              /\ (size' > 0 => addrBegin' = call'.address + Len(got')),
           pc' = "read" => Len(got') = call'.len
    PROVE  Inv'
<1>1. ShapeInv'
  BY DEF ShapeInv, Writing, Reading
<1>2. \A i \in 1 .. Len(got') : got'[i] = mem'[call'.address + i - 1]
  BY DEF Same
<1>3. ReadInv'
  <2>1. CASE pc' = "readHead"
    <3>1. call'.address \in Nat /\ call'.len \in Nat /\ Len(got') = 0
      BY <2>1
    <3>2. Len(got') + size' = call'.len /\ addrBegin' = call'.address + Len(got')
      BY <2>1, <3>1
    <3> QED
      BY <1>2, <2>1, <3>1, <3>2 DEF ReadInv
  <2>2. CASE pc' = "readWords"
    BY <1>2, <2>2 DEF ReadInv
  <2>3. CASE pc' = "read"
    BY <1>2, <2>3 DEF ReadInv
  <2> QED
    BY <2>1, <2>2, <2>3 DEF Reading
<1>4. StreamInv' /\ WordInv' /\ DoneInv'
  BY DEF StreamInv, WordInv, DoneInv, Reading
<1>5. HoldsIn(mem, base, written + buffer)'
  OBVIOUS
<1> QED
  BY <1>1, <1>3, <1>4, <1>5 DEF Inv

\* What the invariant says between two calls.
LEMMA IdleFacts ==
    ASSUME Inv, pc = "idle"
    PROVE  /\ mem \in [Cells -> Int] /\ HoldsIn(mem, base, written + buffer)
           /\ base \in 0 .. Page - 1 /\ written \in Nat /\ buffer = 0
           /\ got = <<>> /\ written + buffer <= ImageLen
  BY DEF Inv, ShapeInv

\* A stream to be read.
LEMMA StreamReadInv ==
    ASSUME Inv, NEW address \in Cells, NEW len \in 0 .. MaxLen,
           StreamRead(address, len)
    PROVE  Inv'
<1>1. /\ pc = "idle" /\ address + len <= FlashSize
      /\ call' = [address |-> address, len |-> len] /\ Legal(call')
      /\ addrBegin' = address /\ size' = len /\ pc' = "readHead"
      /\ UNCHANGED <<mem, base, written, buffer, got>>
  BY DEF StreamRead
<1>2. address \in Nat /\ len \in Nat
  BY Constants, FlashStreamAssumption
<1>3. /\ call' \in [address : Nat, len : Nat]
      /\ call'.address = address /\ call'.len = len
  BY <1>1, <1>2
<1>4. /\ mem \in [Cells -> Int] /\ HoldsIn(mem, base, written + buffer)
      /\ base \in 0 .. Page - 1 /\ written \in Nat /\ buffer = 0
      /\ got = <<>> /\ written + buffer <= ImageLen
  BY <1>1, IdleFacts
<1>5. len = 0 => address % 4 = 0
  BY <1>1, <1>3 DEF Legal
<1>6. got' = <<>> /\ got' \in Seq(Int) /\ Same(address, got')
  BY <1>1, <1>4 DEF Same
<1>7. pc' \in Reading /\ pc' # "readWords" /\ pc' # "read"
  BY <1>1 DEF Reading
<1> QED
  BY <1>1, <1>3, <1>4, <1>5, <1>6, <1>7, Reads

\* The word a stream begins in.
LEMMA ReadHeadInv == ASSUME Inv, ReadHead PROVE Inv'
<1> DEFINE a == call.address
<1> DEFINE off == addrBegin % 4
<1> DEFINE n == Room(addrBegin)
<1> DEFINE w == addrBegin - off
<1> DEFINE part == SubSeq(Word(w), off + 1, off + n)
<1>1. /\ pc = "readHead" /\ pc' = "readWords" /\ addrBegin' = AlignUp(addrBegin)
      /\ off = 0 => UNCHANGED <<size, got>>
      /\ off # 0 => got' = got \o part /\ size' = (size - n) % Wrap
      /\ UNCHANGED <<mem, base, written, call, buffer>>
  BY DEF ReadHead
<1>2. pc \in Reading /\ pc' \in Reading
  BY <1>1 DEF Reading
<1>3. /\ mem \in [Cells -> Int] /\ HoldsIn(mem, base, written + buffer)
      /\ base \in 0 .. Page - 1 /\ written \in Nat /\ buffer = 0
      /\ call \in [address : Nat, len : Nat]
      /\ a \in Nat /\ call.len \in Nat
      /\ a + call.len <= FlashSize
      /\ got \in Seq(Int) /\ Same(a, got)
      /\ Len(got) \in Nat /\ written + buffer <= ImageLen
  BY <1>2, ReadingFacts
<1>4. /\ got = <<>> /\ Len(got) = 0 /\ addrBegin = a /\ size = call.len
      /\ (size = 0 => a % 4 = 0)
  <2>1. /\ got = <<>> /\ addrBegin = a + Len(got) /\ size \in Nat
        /\ Len(got) + size = call.len /\ (size = 0 => (a + Len(got)) % 4 = 0)
    BY <1>1 DEF Inv, ReadInv
  <2> QED
    BY <1>3, <2>1
<1>5. /\ a = call.address /\ off = a % 4 /\ n = Room(a) /\ w = a - off
      /\ part = SubSeq(Word(w), off + 1, off + n)
  BY <1>4
<1> HIDE DEF a, off, n, w, part
<1>6. /\ FlashSize \in Nat \ {0} /\ Wrap \in Nat \ {0} /\ FlashSize + 4 < Wrap
  BY Constants, FlashStreamAssumption
<1>11. a \in Nat /\ size \in Nat /\ (size = 0 => a % 4 = 0)
       /\ a + size <= FlashSize /\ size = call.len
  BY <1>3, <1>4
<1>12. /\ off = a % 4 /\ off \in 0 .. 3 /\ w = a - off
       /\ n = IF size \in 1 .. 3 - off THEN size ELSE 4 - off
  <2>1. off = a % 4 /\ n = Room(a) /\ w = a - off
    BY <1>5
  <2>2. off \in 0 .. 3
    BY <1>11, <2>1
  <2> QED
    BY <2>1, <2>2 DEF Room
<1>7. /\ AlignUp(a) \in Nat /\ AlignUp(a) % 4 = 0 /\ AlignUp(a) \in a .. a + 3
  <2>1. a \in 0 .. FlashSize
    BY <1>3, <1>6
  <2> QED
    BY <2>1, AlignUpResult
<1>8. /\ got' \in Seq(Int) /\ Same(a, got') /\ size' \in Nat
      /\ Len(got') + size' = call.len
      /\ size' > 0 => AlignUp(a) = a + Len(got')
  <2>1. CASE off = 0
    <3>1. size' = size /\ got' = got
      BY <1>1, <2>1
    <3>2. AlignUp(a) = a
      <4>1. a % 4 = 0
        BY <1>5, <2>1
      <4> QED
        BY <1>7, <1>11, <4>1
    <3>3. Len(got) + size = call.len /\ a = a + Len(got)
      BY <1>4, <1>11
    <3> QED
      BY <1>3, <1>11, <3>1, <3>2, <3>3
  <2>2. CASE off # 0
    <3>1. /\ off \in 1 .. 3 /\ size > 0 /\ n \in 1 .. 4 - off /\ n <= size
          /\ n = size \/ n = 4 - off
      BY <1>11, <1>12, <2>2
    <3>2. w \in Nat /\ w + 4 <= FlashSize
      <4>1. a < FlashSize
        BY <1>6, <1>11, <3>1
      <4> QED
        BY <1>5, <1>11, <4>1, WordOnChip
    <3>3. /\ off + 1 \in 1 .. 5 /\ off + n \in (off + 1) - 1 .. 4
          /\ a = w + (off + 1) - 1
      BY <1>11, <1>12, <3>1
    <3>4. /\ part \in Seq(Int) /\ Len(part) = (off + n) - (off + 1) + 1
          /\ Same(a, part)
      BY <1>3, <1>5, <3>2, <3>3, SamePart
    <3>5. got' = part
      BY <1>1, <1>4, <2>2, <3>4
    <3>6. Len(part) = n
      BY <3>1, <3>4
    <3>7. size' = size - n
      <4>1. size - n \in 0 .. Wrap - 1
        BY <1>6, <1>11, <3>1
      <4> QED
        BY <1>1, <1>6, <2>2, <4>1, ModSmall
    <3>8. size - n > 0 => AlignUp(a) = a + n
      BY <1>7, <1>11, <1>12, <3>1
    <3>9. size - n \in Nat /\ n + (size - n) = call.len
      BY <1>11, <3>1
    <3>10. got' \in Seq(Int) /\ Same(a, got') /\ Len(got') = n
      BY <3>4, <3>5, <3>6
    <3> QED
      BY <3>7, <3>8, <3>9, <3>10
  <2> QED
    BY <2>1, <2>2
<1>9. addrBegin' = AlignUp(a) /\ call' = call /\ pc' = "readWords"
      /\ UNCHANGED <<mem, base, written, buffer>>
  BY <1>1, <1>4
<1>10. /\ call' \in [address : Nat, len : Nat] /\ call'.address = a
       /\ call'.address + call'.len <= FlashSize /\ Same(call'.address, got')
       /\ addrBegin' \in Nat /\ addrBegin' % 4 = 0
       /\ Len(got') + size' = call'.len
       /\ size' > 0 => addrBegin' = call'.address + Len(got')
       /\ pc' # "readHead" /\ pc' # "read"
  BY <1>3, <1>5, <1>7, <1>8, <1>9
<1> QED
  BY <1>2, <1>3, <1>8, <1>9, <1>10, Reads

\* Where a read is, and that the next word is on the chip.
LEMMA ReadWordsFacts ==
    ASSUME Inv, pc = "readWords", NEW at, at = call.address + Len(got)
    PROVE  /\ at \in Nat /\ size \in Nat /\ Len(got) + size = call.len
           /\ at + size <= FlashSize /\ addrBegin \in Nat /\ addrBegin % 4 = 0
           /\ size > 0 => addrBegin = at /\ at + 4 <= FlashSize
<1>1. /\ call.address \in Nat /\ call.len \in Nat
      /\ call.address + call.len <= FlashSize /\ Len(got) \in Nat
  BY ReadingFacts DEF Reading
<1>2. /\ addrBegin \in Nat /\ size \in Nat /\ Len(got) + size = call.len
      /\ addrBegin % 4 = 0 /\ (size > 0 => addrBegin = call.address + Len(got))
  BY DEF Inv, ReadInv
<1>3. at \in Nat /\ at + size <= FlashSize /\ (size > 0 => addrBegin = at)
  <2> DEFINE a == call.address
  <2> DEFINE l == call.len
  <2> DEFINE g == Len(got)
  <2>1. a \in Nat /\ l \in Nat /\ g \in Nat /\ a + l <= FlashSize /\ g + size = l
        /\ at = a + g
    BY <1>1, <1>2
  <2> HIDE DEF a, l, g
  <2>2. FlashSize \in Nat
    BY Constants
  <2>3. at \in Nat /\ at + size <= FlashSize
    BY <1>2, <2>1, <2>2
  <2> QED
    BY <1>2, <2>3
<1>4. size > 0 => at + 4 <= FlashSize
  <2>1. FlashSize \in Nat /\ FlashSize % 4 = 0
    BY Constants
  <2>2. size > 0 => at % 4 = 0 /\ at < FlashSize
    BY SMTT(30), <1>2, <1>3, <2>1
  <2> QED
    BY <1>3, <2>1, <2>2
<1> QED
  BY <1>2, <1>3, <1>4

\* A whole word.
LEMMA ReadWordsInv == ASSUME Inv, ReadWords PROVE Inv'
<1> DEFINE a == call.address
<1> DEFINE at == call.address + Len(got)
<1> DEFINE word == Word(addrBegin)
<1>1. /\ pc = "readWords" /\ size >= 4 /\ got' = got \o word
      /\ addrBegin' = addrBegin + 4 /\ size' = size - 4
      /\ UNCHANGED <<mem, base, written, pc, call, buffer>>
  BY DEF ReadWords
<1>2. pc \in Reading /\ pc' \in Reading
  BY <1>1 DEF Reading
<1>3. /\ mem \in [Cells -> Int] /\ HoldsIn(mem, base, written + buffer)
      /\ base \in 0 .. Page - 1 /\ written \in Nat /\ buffer = 0
      /\ call \in [address : Nat, len : Nat]
      /\ a \in Nat /\ call.len \in Nat
      /\ a + call.len <= FlashSize
      /\ got \in Seq(Int) /\ Same(a, got)
      /\ Len(got) \in Nat /\ written + buffer <= ImageLen
  BY <1>2, ReadingFacts
<1>4. /\ at \in Nat /\ size \in Nat /\ Len(got) + size = call.len
      /\ addrBegin = at /\ addrBegin % 4 = 0 /\ at + 4 <= FlashSize
  BY <1>1, ReadWordsFacts
<1>5. a = call.address /\ at = a + Len(got) /\ word = Word(at)
  BY <1>4
<1> HIDE DEF a, at, word
<1>6. word \in Seq(Int) /\ Len(word) = 4 /\ Same(at, word)
  BY <1>3, <1>4, <1>5, SameWord
<1>7. got' \in Seq(Int) /\ Len(got') = Len(got) + 4 /\ Same(a, got')
  <2>1. /\ got \o word \in Seq(Int) /\ Len(got \o word) = Len(got) + Len(word)
        /\ Same(a, got \o word)
    BY <1>3, <1>5, <1>6, SameBoth
  <2> QED
    BY <1>1, <1>6, <2>1
<1>8. /\ size' \in Nat /\ addrBegin' \in Nat /\ addrBegin' % 4 = 0
      /\ Len(got') + size' = call.len /\ addrBegin' = a + Len(got')
  <2> DEFINE g == Len(got)
  <2>1. /\ g \in Nat /\ size \in Nat /\ size >= 4 /\ a \in Nat /\ at = a + g
        /\ at % 4 = 0 /\ g + size = call.len
    BY <1>1, <1>3, <1>4, <1>5
  <2>2. /\ size' = size - 4 /\ addrBegin' = at + 4 /\ Len(got') = g + 4
    BY <1>1, <1>4, <1>7
  <2> HIDE DEF g
  <2>3. /\ size - 4 \in Nat /\ at + 4 \in Nat /\ (at + 4) % 4 = 0
        /\ (g + 4) + (size - 4) = g + size /\ at + 4 = a + (g + 4)
    BY <2>1
  <2> QED
    BY <2>1, <2>2, <2>3
<1>9. /\ call' = call /\ UNCHANGED <<mem, base, written, buffer>>
      /\ pc' # "readHead" /\ pc' # "read"
  BY <1>1
<1> QED
  BY <1>2, <1>3, <1>5, <1>7, <1>8, <1>9, Reads

\* The rest of it, from the word it ends in.
LEMMA ReadTailInv == ASSUME Inv, ReadTail PROVE Inv'
<1> DEFINE a == call.address
<1> DEFINE at == call.address + Len(got)
<1> DEFINE part == SubSeq(Word(addrBegin), 1, size)
<1>1. /\ pc = "readWords" /\ size < 4 /\ pc' = "read"
      /\ size = 0 => got' = got
      /\ size # 0 => got' = got \o part
      /\ UNCHANGED <<mem, base, written, call, buffer>>
  BY DEF ReadTail
<1>2. pc \in Reading /\ pc' \in Reading
  BY <1>1 DEF Reading
<1>3. /\ mem \in [Cells -> Int] /\ HoldsIn(mem, base, written + buffer)
      /\ base \in 0 .. Page - 1 /\ written \in Nat /\ buffer = 0
      /\ call \in [address : Nat, len : Nat]
      /\ a \in Nat /\ call.len \in Nat
      /\ a + call.len <= FlashSize
      /\ got \in Seq(Int) /\ Same(a, got)
      /\ Len(got) \in Nat /\ written + buffer <= ImageLen
  BY <1>2, ReadingFacts
<1>4. /\ at \in Nat /\ size \in Nat /\ Len(got) + size = call.len
      /\ size > 0 => addrBegin = at /\ at + 4 <= FlashSize
  BY <1>1, ReadWordsFacts
<1>5. a = call.address /\ at = a + Len(got)
      /\ part = SubSeq(Word(addrBegin), 1, size)
  OBVIOUS
<1> HIDE DEF a, at, part
<1>6. got' \in Seq(Int) /\ Len(got') = Len(got) + size /\ Same(a, got')
  <2>1. CASE size = 0
    BY <1>1, <1>3, <2>1
  <2>2. CASE size # 0
    <3>1. size \in 1 - 1 .. 4 /\ 1 \in 1 .. 5 /\ addrBegin = at
          /\ at + 4 <= FlashSize /\ at = at + 1 - 1 /\ size - 1 + 1 = size
      BY <1>1, <1>4, <2>2
    <3>2. part \in Seq(Int) /\ Len(part) = size /\ Same(at, part)
      BY <1>3, <1>4, <1>5, <3>1, SamePart
    <3>3. /\ got \o part \in Seq(Int) /\ Len(got \o part) = Len(got) + Len(part)
          /\ Same(a, got \o part)
      BY <1>3, <1>5, <3>2, SameBoth
    <3> QED
      BY <1>1, <2>2, <3>2, <3>3
  <2> QED
    BY <2>1, <2>2
<1>7. /\ call' = call /\ UNCHANGED <<mem, base, written, buffer>>
      /\ pc' # "readHead" /\ pc' # "readWords"
  BY <1>1
<1> QED
  BY <1>2, <1>3, <1>4, <1>5, <1>6, <1>7, Reads

\* Four bytes from one or two words.
LEMMA ReadWordInv ==
    ASSUME Inv, NEW address \in Cells, ReadWord(address)
    PROVE  Inv'
<1> DEFINE off == address % 4
<1> DEFINE w == address - off
<1> DEFINE next == address - off + 4
<1> DEFINE s == SubSeq(Word(w), off + 1, 4)
<1> DEFINE t == SubSeq(Word(next), 1, off)
<1>1. /\ pc = "idle" /\ address + 4 <= FlashSize /\ pc' = "read"
      /\ call' = [address |-> address, len |-> 4]
      /\ off = 0 => got' = Word(w)
      /\ off # 0 => got' = s \o t
      /\ UNCHANGED <<mem, base, written, buffer>>
  BY DEF ReadWord
<1>2. address \in Nat /\ FlashSize \in Nat /\ FlashSize % 4 = 0
  BY Constants
<1>3. /\ mem \in [Cells -> Int] /\ HoldsIn(mem, base, written + buffer)
      /\ base \in 0 .. Page - 1 /\ written \in Nat /\ buffer = 0
      /\ got = <<>> /\ written + buffer <= ImageLen
  BY <1>1, IdleFacts
<1>4. /\ call' \in [address : Nat, len : Nat]
      /\ call'.address = address /\ call'.len = 4
  BY <1>1, <1>2
<1>5. /\ off \in 0 .. 3 /\ off = address % 4 /\ w = address - off /\ w \in Nat
      /\ next = w + 4 /\ next \in Nat /\ w + 4 <= FlashSize
      /\ off # 0 => next + 4 <= FlashSize
  BY SMTT(30), <1>1, <1>2
<1>6. s = SubSeq(Word(w), off + 1, 4) /\ t = SubSeq(Word(next), 1, off)
  OBVIOUS
<1> HIDE DEF off, w, next, s, t
<1>7. got' \in Seq(Int) /\ Len(got') = 4 /\ Same(address, got')
  <2>1. CASE off = 0
    <3>1. got' = Word(address) /\ address + 4 <= FlashSize
      BY <1>1, <1>2, <1>5, <2>1
    <3> QED
      BY <1>2, <1>3, <3>1, SameWord
  <2>2. CASE off # 0
    <3>1. /\ off + 1 \in 1 .. 5 /\ 4 \in (off + 1) - 1 .. 4
          /\ address = w + (off + 1) - 1 /\ next + 4 <= FlashSize
      BY <1>2, <1>5, <2>2
    <3>2. s \in Seq(Int) /\ Len(s) = 4 - (off + 1) + 1 /\ Same(address, s)
      BY <1>3, <1>5, <1>6, <3>1, SamePart
    <3>3. 1 \in 1 .. 5 /\ off \in 1 - 1 .. 4 /\ next = next + 1 - 1
      BY <1>5
    <3>4. t \in Seq(Int) /\ Len(t) = off - 1 + 1 /\ Same(next, t)
      BY <1>3, <1>5, <1>6, <3>1, <3>3, SamePart
    <3>5. next = address + Len(s)
      BY <1>2, <1>5, <3>2
    <3>6. /\ s \o t \in Seq(Int) /\ Len(s \o t) = Len(s) + Len(t)
          /\ Same(address, s \o t)
      BY <1>2, <3>2, <3>4, <3>5, SameBoth
    <3>7. Len(s) + Len(t) = 4
      BY SMTT(30), <1>5, <3>2, <3>4
    <3> QED
      BY <1>1, <2>2, <3>6, <3>7
  <2> QED
    BY <2>1, <2>2
<1>8. pc' \in Reading /\ pc' # "readHead" /\ pc' # "readWords"
  BY <1>1 DEF Reading
<1> QED
  BY <1>1, <1>3, <1>4, <1>7, <1>8, Reads

-----------------------------------------------------------------------------

\* What a call has written is written for the next one.
LEMMA ReturnInv == ASSUME Inv, Return PROVE Inv'
<1>1. /\ pc \in {"written", "read"} /\ pc' = "idle"
      /\ written' = (IF pc = "written" THEN written + call.len ELSE written)
      /\ call' = NoCall /\ buffer' = 0 /\ got' = <<>>
      /\ UNCHANGED <<mem, base>>
  BY DEF Return
<1>2. /\ mem \in [Cells -> Int] /\ HoldsIn(mem, base, written + buffer)
      /\ base \in 0 .. Page - 1 /\ written \in Nat /\ buffer \in Nat
      /\ written + buffer <= ImageLen
  BY DEF Inv, ShapeInv
<1>3. written' = written + buffer
  <2>1. CASE pc = "written"
    BY <1>1, <2>1 DEF Inv, DoneInv
  <2>2. CASE pc = "read"
    <3>1. buffer = 0
      BY <2>2, ReadingFacts DEF Reading
    <3> QED
      BY <1>1, <1>2, <2>2, <3>1
  <2> QED
    BY <1>1, <2>1, <2>2
<1> DEFINE m == written + buffer
<1>4. m \in Nat /\ m <= ImageLen /\ HoldsIn(mem, base, m) /\ written' = m
      /\ m + 0 = m
  BY <1>2, <1>3
<1> HIDE DEF m
<1>5. HoldsIn(mem, base, written + buffer)'
  BY <1>1, <1>4
<1>6. call' \in [address : Nat, len : Nat]
  BY <1>1 DEF NoCall
<1>7. ShapeInv'
  BY <1>1, <1>2, <1>4, <1>6 DEF ShapeInv, Writing, Reading
<1>8. StreamInv' /\ WordInv' /\ ReadInv' /\ DoneInv'
  BY <1>1 DEF StreamInv, WordInv, ReadInv, DoneInv
<1> QED
  BY <1>5, <1>7, <1>8 DEF Inv

\* Every step keeps the invariant.
LEMMA NextInv == Inv /\ [Next]_vars => Inv'
<1> SUFFICES ASSUME Inv, [Next]_vars PROVE Inv'
  OBVIOUS
<1>1. CASE \E len \in 0 .. MaxLen : StreamWrite(len)
  BY <1>1, StreamWriteInv
<1>2. CASE WriteWord
  BY <1>2, WriteWordInv
<1>3. CASE \E address \in Cells, len \in 0 .. MaxLen : StreamRead(address, len)
  BY <1>3, StreamReadInv
<1>4. CASE \E address \in Cells : ReadWord(address)
  BY <1>4, ReadWordInv
<1>5. CASE Step
  BY <1>5, WriteHeadInv, WriteWordsInv, WriteTailInv, FirstWordInv, SecondWordInv,
     ReadHeadInv, ReadWordsInv, ReadTailInv, ReturnInv DEF Step
<1>6. CASE UNCHANGED vars
  BY <1>6 DEF vars, locals, Inv, ShapeInv, StreamInv, WordInv, ReadInv, DoneInv
<1> QED
  BY <1>1, <1>2, <1>3, <1>4, <1>5, <1>6 DEF Next

\* The invariant is about the bytes.
LEMMA InvImplies == Inv => BytesInPlace
<1> SUFFICES ASSUME Inv PROVE BytesInPlace
  OBVIOUS
<1>1. Holds(written + buffer)
  BY DEF Inv, HoldsIn, Holds, ImageCells
<1>2. \A i \in 1 .. Len(got) : got[i] = mem[call.address + i - 1]
  BY DEF Inv, ReadInv
<1> QED
  BY <1>1, <1>2 DEF Inv, DoneInv, BytesInPlace

\* Whatever the size of a page, the image, the address it goes to and the
\* lengths of the calls: at any moment the flash holds a beginning of what
\* the callers have asked for without a gap, every byte in its cell and
\* programmed once, and nothing around it has changed; and a read gives what
\* the flash holds (flash_stream_write, flash_stream_read, flash_write_word
\* and flash_read_word).
THEOREM BytesCorrect == Spec => []BytesInPlace
<1>1. Init => Inv
  BY InitInv
<1>2. Inv /\ [Next]_vars => Inv'
  BY NextInv
<1>3. Inv => BytesInPlace
  BY InvImplies
<1> QED
  BY <1>1, <1>2, <1>3, PTL DEF Spec

-----------------------------------------------------------------------------
(* The variables of the calls, in and between them.                        *)

\* What the invariant says of the variables of a loop.
InLoop ==
    /\ pc \in {"head", "words"} =>
          /\ addrEnd \in 0 .. FlashSize /\ size \in 0 .. FlashSize
          /\ pageCnt \in Nat /\ buffer <= call.len
    /\ pc \in {"readHead", "readWords"} => size \in 0 .. FlashSize
    /\ pc \in {"head", "readHead"} => addrBegin \in 0 .. FlashSize
    /\ pc \in {"words", "readWords"} /\ size > 0 =>
          addrBegin + size \in 0 .. FlashSize

\* What they hold when the loop has been left, or not been entered.
RangeInv ==
    /\ addrBegin \in 0 .. FlashSize /\ addrEnd \in 0 .. FlashSize + Page
    /\ size \in 0 .. FlashSize /\ pageCnt \in Nat
    /\ pc = "idle" => call = NoCall

\* A call that writes stays on the chip.
LEMMA OnChip ==
    ASSUME Inv, pc \in Writing
    PROVE  /\ call.address \in Nat /\ call.len \in Nat /\ FlashSize \in Nat
           /\ call.address + call.len <= FlashSize
<1>1. /\ base \in 0 .. Page - 1 /\ written \in Nat
      /\ call.address \in Nat /\ call.len \in Nat
      /\ call.address = base + written /\ written + call.len <= ImageLen
  BY WritingFacts
<1>2. /\ Page \in Nat \ {0} /\ FlashSize \in Nat /\ ImageLen \in Nat
      /\ Page + ImageLen - 1 <= FlashSize
  BY Constants
<1> QED
  BY <1>1, <1>2

LEMMA InvInLoop == Inv => InLoop
<1> SUFFICES ASSUME Inv PROVE InLoop
  OBVIOUS
<1>1. CASE pc \in {"head", "words"}
  <2> DEFINE at == call.address + buffer
             end == call.address + call.len
  <2>1. /\ at \in Nat /\ end \in Nat /\ buffer \in Nat /\ size \in Nat
        /\ at + size = addrEnd /\ addrEnd <= end /\ addrEnd \in Nat
        /\ pageCnt \in Nat \ {0} /\ addrBegin \in Nat
        /\ pc = "head" => addrBegin = at
        /\ pc = "words" => (size > 0 => addrBegin = at)
    BY <1>1, StreamFacts
  <2>2. /\ call.address \in Nat /\ call.len \in Nat /\ FlashSize \in Nat
        /\ call.address + call.len <= FlashSize
    BY <1>1, OnChip DEF Writing
  <2>3. addrEnd \in 0 .. FlashSize /\ size \in 0 .. FlashSize /\ buffer <= call.len
    BY <2>1, <2>2
  <2>4. pc = "head" => addrBegin \in 0 .. FlashSize
    BY <2>1, <2>2
  <2>5. pc = "words" /\ size > 0 => addrBegin + size \in 0 .. FlashSize
    BY <2>1, <2>2
  <2> QED
    BY <1>1, <2>1, <2>3, <2>4, <2>5 DEF InLoop
<1>2. CASE pc \in {"readHead", "readWords"}
  <2> DEFINE a == call.address
             l == call.len
             g == Len(got)
  <2>1. a \in Nat /\ l \in Nat /\ a + l <= FlashSize /\ g \in Nat /\ FlashSize \in Nat
    BY <1>2, ReadingFacts, Constants DEF Reading
  <2>2. /\ addrBegin \in Nat /\ size \in Nat /\ g + size = l
        /\ pc = "readHead" => addrBegin = a + g
        /\ pc = "readWords" => (size > 0 => addrBegin = a + g)
    BY <1>2 DEF Inv, ReadInv
  <2> HIDE DEF a, l, g
  <2>3. size \in 0 .. FlashSize /\ (pc = "readHead" => addrBegin \in 0 .. FlashSize)
    BY <2>1, <2>2
  <2>4. pc = "readWords" /\ size > 0 => addrBegin + size \in 0 .. FlashSize
    BY <2>1, <2>2
  <2> QED
    BY <1>2, <2>3, <2>4 DEF InLoop
<1> QED
  BY <1>1, <1>2 DEF InLoop

\* Rounding up stays on the chip.
LEMMA AlignUpOnChip ==
    ASSUME NEW a \in 0 .. FlashSize
    PROVE  AlignUp(a) \in 0 .. FlashSize
<1>1. AlignUp(a) \in Nat /\ AlignUp(a) % 4 = 0 /\ AlignUp(a) \in a .. a + 3
  BY AlignUpResult
<1>2. FlashSize \in Nat /\ FlashSize % 4 = 0
  BY Constants
<1> DEFINE u == AlignUp(a)
<1> HIDE DEF u
<1>3. u \in Nat /\ u % 4 = 0 /\ u <= a + 3
  BY <1>1 DEF u
<1>4. u <= FlashSize
  BY <1>2, <1>3
<1> QED
  BY <1>2, <1>3, <1>4 DEF u

LEMMA RangeNext ==
    ASSUME Inv, InLoop, InLoop', RangeInv, [Next]_vars
    PROVE  RangeInv'
<1>1. Page \in Nat \ {0} /\ FlashSize \in Nat \ {0} /\ Page <= FlashSize
  BY Constants
<1>2. /\ addrBegin \in 0 .. FlashSize /\ addrEnd \in 0 .. FlashSize + Page
      /\ size \in 0 .. FlashSize /\ pageCnt \in Nat
      /\ pc = "idle" => call = NoCall
  BY DEF RangeInv
<1>3. ASSUME pc' \in {"head", "words"}, addrBegin' \in 0 .. FlashSize
      PROVE  RangeInv'
  <2>1. /\ addrEnd' \in 0 .. FlashSize /\ size' \in 0 .. FlashSize
        /\ pageCnt' \in Nat
    BY <1>3 DEF InLoop
  <2>2. addrEnd' \in 0 .. FlashSize + Page
    BY <1>1, <2>1
  <2> QED
    BY <1>3, <2>1, <2>2 DEF RangeInv
<1>4. CASE \E len \in 0 .. MaxLen : StreamWrite(len)
  <2>1. pc' = "head"
    BY <1>4 DEF StreamWrite
  <2>2. addrBegin' \in 0 .. FlashSize
    BY <2>1 DEF InLoop
  <2> QED
    BY <1>3, <2>1, <2>2
<1>5. CASE WriteWord \/ FirstWord \/ SecondWord
  <2>1. UNCHANGED <<addrBegin, addrEnd, size, pageCnt>> /\ pc' # "idle"
    BY <1>5 DEF WriteWord, FirstWord, SecondWord
  <2> QED
    BY <1>2, <2>1 DEF RangeInv
<1>6. CASE WriteHead
  <2>1. pc' = "words" /\ addrBegin' = AlignUp(addrBegin)
    BY <1>6 DEF WriteHead
  <2> QED
    BY <1>2, <1>3, <2>1, AlignUpOnChip
<1>7. CASE WriteWords
  <2> DEFINE n == IF size >= 12 THEN 12 ELSE 4
  <2>1. pc' = "words" /\ pc = "words" /\ size >= 4 /\ addrBegin' = addrBegin + n
    BY <1>7 DEF WriteWords
  <2>2. addrBegin + size \in 0 .. FlashSize
    BY <1>2, <2>1 DEF InLoop
  <2>3. n \in Nat /\ n <= size
    BY <1>2, <2>1
  <2> HIDE DEF n
  <2>4. addrBegin + n \in 0 .. FlashSize
    BY <1>1, <1>2, <2>2, <2>3
  <2> QED
    BY <1>3, <2>1, <2>4
<1>8. CASE WriteTail
  <2>1. /\ pc = "words" /\ pageCnt' = pageCnt - 1 /\ addrBegin' = addrEnd
        /\ addrEnd' = AddrEnd(pageCnt', addrEnd, call)
        /\ size' = addrEnd' - addrBegin'
        /\ pc' = IF pageCnt' = 0 THEN "written" ELSE "head"
    BY <1>8 DEF WriteTail
  <2>2. addrEnd \in 0 .. FlashSize
    BY <2>1 DEF InLoop
  <2>3. CASE pageCnt' = 0
    <3>6. pageCnt' # 1
      BY <2>3
    <3>7. pc' = "written"
      BY <2>1, <2>3
    <3>8. addrEnd \in Nat
      BY <1>1, <2>2
    <3>1. addrEnd' = PageOf(addrEnd) + Page /\ pc' = "written"
      BY <2>1, <3>6, <3>7, Zenon DEF AddrEnd
    <3>2. PICK j \in Nat : /\ PageOf(addrEnd) = j * Page
                           /\ addrEnd \in j * Page .. j * Page + Page - 1
      BY <3>8, PageOfResult
    <3> DEFINE p == j * Page
    <3>3. p \in Nat
      BY Constants
    <3> HIDE DEF p
    <3>4. addrEnd' = p + Page /\ addrEnd \in p .. p + Page - 1
      BY <3>1, <3>2 DEF p
    <3>5. /\ addrEnd' \in 0 .. FlashSize + Page /\ addrEnd' - addrEnd \in 0 .. FlashSize
      BY <1>1, <2>2, <3>3, <3>4
    <3> QED
      BY <2>1, <2>2, <2>3, <3>1, <3>5 DEF RangeInv
  <2>4. CASE pageCnt' # 0
    BY <1>3, <2>1, <2>2, <2>4
  <2> QED
    BY <2>3, <2>4
<1>9. CASE \E address \in Cells, len \in 0 .. MaxLen : StreamRead(address, len)
  <2>1. pc' = "readHead" /\ UNCHANGED <<addrEnd, pageCnt>>
    BY <1>9 DEF StreamRead
  <2> QED
    BY <1>2, <2>1 DEF InLoop, RangeInv
<1>10. CASE ReadHead
  <2>1. /\ pc' = "readWords" /\ addrBegin' = AlignUp(addrBegin)
        /\ UNCHANGED <<addrEnd, pageCnt>>
    BY <1>10 DEF ReadHead
  <2>2. addrBegin' \in 0 .. FlashSize
    BY <1>2, <2>1, AlignUpOnChip
  <2> QED
    BY <1>2, <2>1, <2>2 DEF InLoop, RangeInv
<1>11. CASE ReadWords
  <2>1. /\ pc' = "readWords" /\ pc = "readWords" /\ size >= 4
        /\ addrBegin' = addrBegin + 4 /\ UNCHANGED <<addrEnd, pageCnt>>
    BY <1>11 DEF ReadWords
  <2>2. addrBegin + size \in 0 .. FlashSize
    BY <1>2, <2>1 DEF InLoop
  <2>3. addrBegin' \in 0 .. FlashSize
    BY <1>1, <1>2, <2>1, <2>2
  <2> QED
    BY <1>2, <2>1, <2>3 DEF InLoop, RangeInv
<1>12. CASE ReadTail \/ \E address \in Cells : ReadWord(address)
  <2>1. UNCHANGED <<addrBegin, addrEnd, size, pageCnt>> /\ pc' = "read"
    BY <1>12 DEF ReadTail, ReadWord
  <2> QED
    BY <1>2, <2>1 DEF RangeInv
<1>13. CASE Return
  <2>1. /\ addrBegin' = 0 /\ addrEnd' = 0 /\ size' = 0 /\ pageCnt' = 0
        /\ call' = NoCall
    BY <1>13 DEF Return
  <2> QED
    BY <1>1, <2>1 DEF RangeInv
<1>14. CASE UNCHANGED vars
  BY <1>2, <1>14 DEF vars, locals, RangeInv
<1> QED
  BY <1>4, <1>5, <1>6, <1>7, <1>8, <1>9, <1>10, <1>11, <1>12, <1>13, <1>14
     DEF Next, Step

\* With the bytes in place, the contents of the flash are those of TypeOK.
LEMMA InvTypes == Inv /\ InLoop /\ RangeInv => TypeOK
<1> SUFFICES ASSUME Inv, InLoop, RangeInv PROVE TypeOK
  OBVIOUS
<1>1. /\ Page \in Nat \ {0} /\ FlashSize \in Nat \ {0} /\ ImageLen \in Nat
      /\ Page + ImageLen - 1 <= FlashSize /\ Cells = 0 .. FlashSize - 1
  BY Constants
<1>2. /\ mem \in [Cells -> Int] /\ got \in Seq(Int) /\ base \in 0 .. Page - 1
      /\ written \in Nat /\ buffer \in Nat /\ written + buffer <= ImageLen
      /\ call \in [address : Nat, len : Nat]
      /\ pc \in {"idle"} \cup Writing \cup Reading
      /\ HoldsIn(mem, base, written + buffer)
  BY DEF Inv, ShapeInv
<1>3. \A k \in Cells : mem[k] \in Cells \cup {Erased, Other}
  <2>1. \A k \in base .. base + ImageLen - 1 : mem[k] \in {k, Erased}
    BY <1>2 DEF HoldsIn
  <2>2. \A k \in Cells \ (base .. base + ImageLen - 1) : mem[k] \in {Erased, Other}
    BY <1>2 DEF HoldsIn
  <2> QED
    BY <2>1, <2>2
<1>4. mem \in [Cells -> Cells \cup {Erased, Other, Overwritten, Junk}]
  <2>1. \A k \in Cells : mem[k] \in Cells \cup {Erased, Other, Overwritten, Junk}
    BY <1>3
  <2> QED
    BY <1>2, <2>1
<1>5. /\ call.address \in Nat /\ call.len \in Nat
      /\ call.address + call.len <= FlashSize /\ buffer <= call.len
  <2>1. CASE pc = "idle"
    BY <1>1, <1>2, <2>1 DEF RangeInv, NoCall, Inv, ShapeInv
  <2>2. CASE pc \in Writing
    <3>1. /\ call.address \in Nat /\ call.len \in Nat
          /\ call.address + call.len <= FlashSize
      BY <2>2, OnChip
    <3>2. CASE pc \in {"head", "words"}
      BY <3>1, <3>2 DEF InLoop
    <3>3. CASE pc \in {"word", "secondWord"}
      <4>1. /\ call.len = 4 /\ (pc = "word" => buffer = 0)
            /\ pc = "secondWord" => buffer = 4 - (call.address % 4)
        BY <3>3 DEF Inv, WordInv
      <4>2. call.address % 4 \in 0 .. 3
        BY <3>1
      <4> QED
        BY <3>1, <3>3, <4>1, <4>2
    <3>4. CASE pc = "written"
      BY <3>1, <3>4 DEF Inv, DoneInv
    <3> QED
      BY <2>2, <3>2, <3>3, <3>4 DEF Writing
  <2>3. CASE pc \in Reading
    BY <1>1, <2>3, ReadingFacts
  <2> QED
    BY <1>2, <2>1, <2>2, <2>3
<1>6. call \in [address : Cells \cup {FlashSize}, len : 0 .. FlashSize]
  <2>1. call.address \in Cells \cup {FlashSize} /\ call.len \in 0 .. FlashSize
    BY <1>1, <1>5
  <2> QED
    BY <1>2, <2>1
<1>7. got \in Seq(Cells \cup {Erased, Other})
  <2> DEFINE n == Len(got)
  <2>1. n \in Nat /\ got \in [1 .. n -> Int] /\ call.address + n <= FlashSize
    <3>1. n \in Nat /\ got \in [1 .. n -> Int]
      BY <1>2
    <3>2. CASE pc \in Reading
      <4> DEFINE a == call.address
                 l == call.len
      <4>1. n <= l
        <5>1. CASE pc = "read"
          BY <1>5, <5>1 DEF Inv, DoneInv
        <5>2. CASE pc \in {"readHead", "readWords"}
          <6>1. n + size = l /\ size \in Nat
            BY <5>2 DEF Inv, ReadInv
          <6> HIDE DEF n, l
          <6> QED
            BY <3>1, <6>1
        <5> QED
          BY <3>2, <5>1, <5>2 DEF Reading
      <4>2. a \in Nat /\ l \in Nat /\ a + l <= FlashSize
        BY <1>5
      <4> HIDE DEF n, a, l
      <4>3. a + n <= FlashSize
        BY <1>1, <3>1, <4>1, <4>2
      <4> QED
        BY <3>1, <4>3 DEF a
    <3>3. CASE pc \notin Reading
      <4>1. n = 0
        BY <1>2, <3>3 DEF Inv, ShapeInv
      <4> QED
        BY <1>1, <1>5, <3>1, <4>1
    <3> QED
      BY <3>2, <3>3
  <2>2. \A i \in 1 .. n : got[i] = mem[call.address + i - 1]
    BY DEF Inv, ReadInv
  <2> HIDE DEF n
  <2>3. \A i \in 1 .. n : call.address + i - 1 \in Cells
    BY <1>1, <1>5, <2>1
  <2>4. \A i \in 1 .. n : got[i] \in Cells \cup {Erased, Other}
    BY <1>3, <2>2, <2>3
  <2>5. got \in [1 .. n -> Cells \cup {Erased, Other}]
    BY <2>1, <2>4
  <2> QED
    BY <2>1, <2>5
<1>8. written \in 0 .. ImageLen /\ buffer \in 0 .. call.len
  BY <1>1, <1>2, <1>5
<1> QED
  BY <1>2, <1>4, <1>6, <1>7, <1>8 DEF RangeInv, TypeOK, Writing, Reading

\* The variables keep their types for pages, images and calls of any length: the
\* unsigned counts of what remains never wrap, and no address leaves the chip.
THEOREM TypeCorrect == Spec => []TypeOK
<1>1. Init => Inv /\ RangeInv
  BY InitInv, Constants DEF Init, RangeInv
<1>2. Inv /\ [Next]_vars => Inv'
  BY NextInv
<1>3. Inv => InLoop
  BY InvInLoop
<1>4. Inv /\ InLoop /\ InLoop' /\ RangeInv /\ [Next]_vars => RangeInv'
  BY RangeNext
<1>5. Inv /\ InLoop /\ RangeInv => TypeOK
  BY InvTypes
<1> QED
  BY <1>1, <1>2, <1>3, <1>4, <1>5, PTL DEF Spec
=============================================================================
