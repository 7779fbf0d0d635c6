---------------------------- MODULE OtaUpdate_proofs ----------------------------
(***************************************************************************)
(* Proofs about OtaUpdate for files, signatures, sectors and packets of    *)
(* any length: however a server cuts its stream, every byte gets to its    *)
(* own cell, once, and the running slot is left alone; what is signed is   *)
(* what the server holds; the update implements Firmware.                  *)
(***************************************************************************)
EXTENDS OtaUpdate, SequenceTheorems, WellFoundedInduction, TLAPS

\* What a cell holds that is not spoiled.
Bytes == Values \ {Overwritten}

DRecord == [i : 1 .. 2, remain : Int, started : BOOLEAN, reuse : BOOLEAN,
            closed : BOOLEAN, received : Nat, size : Nat, otaSize : Int,
            buf : Seq(Bytes), signature : Seq(Bytes)]

DType(d) ==
    /\ d \in DRecord /\ d.remain <= SlotLen
    /\ Len(d.buf) <= BUF_SIZE /\ Len(d.signature) <= SigLen

\* The images to copy of file f to slot t, for itself.
OtaInfo(f, t) == [kind |-> "OTA", off |-> f.ota[t], len |-> f.len - SigLen]
RdpInfo(f) == [kind |-> "RDP", off |-> f.rdp, len |-> f.rdpLen]
Info(f, t) ==
    IF f.rdpLen = 0 THEN <<OtaInfo(f, t)>>
    ELSE IF f.ota[t] < f.rdp THEN <<OtaInfo(f, t), RdpInfo(f)>>
    ELSE <<RdpInfo(f), OtaInfo(f, t)>>

\* The byte of f at offset o as it arrives when the one at offset m is damaged.
Sent(f, m, o) == IF o = m THEN Corrupted ELSE Served(f, o)

\* The first n cells behind the signature are as they arrived, the others blank.
OtaInPlace(f, t, m, cells, n) ==
    \A k \in SigLen .. SigLen + n - 1 : cells[k] = Sent(f, m, f.ota[t] + k)
OtaBlank(f, cells, n) == \A k \in SigLen + n .. f.len - 1 : cells[k] = Erased
SignatureBlank(cells, n) == \A k \in n .. SigLen - 1 : cells[k] = Erased

RdpInPlace(f, m, r, n) == \A k \in 0 .. n - 1 : r[k] = Sent(f, m, f.rdp + k)
RdpBlank(f, r, n) == \A k \in n .. f.rdpLen - 1 : r[k] = Erased

\* The bytes kept back are the first of the image.
SignatureArrived(f, t, m, sig) ==
    \A k \in 1 .. Len(sig) : sig[k] = Sent(f, m, f.ota[t] + k - 1)

\* How many bytes of the image in work have been taken from the stream.
Taken(kind, d) == d.size + IF kind = "OTA" THEN Len(d.signature) ELSE 0

\* A packet that ends at offset `received` goes on where the image in work is
\* left, or the image begins in it or behind it.
Fits(f, m, image, d, buf, received) ==
    /\ IF d.started THEN received - Len(buf) = image.off + Taken(image.kind, d)
       ELSE received - Len(buf) <= image.off
    /\ received > image.off =>
          \A k \in 1 .. Len(buf) :
              buf[k] = Sent(f, m, received - Len(buf) + k - 1)

\* Where the stream stands: behind what has been taken of the image, or before it.
Standing(f, m, image, d) ==
    IF d.reuse
    THEN ~d.started /\ Fits(f, m, image, d, d.buf, d.received)
    ELSE IF d.started THEN d.received = image.off + Taken(image.kind, d)
    ELSE d.received <= image.off

\* The RDP image has been copied, as a whole unless the server closed.
RdpCopied(f, m, d, r) ==
    \E n \in 0 .. f.rdpLen : /\ RdpInPlace(f, m, r, n) /\ RdpBlank(f, r, n)
                             /\ ~d.closed => n = f.rdpLen

\* The OTA image is copied as far as d says, the RDP image has been or is not
\* begun.
CopyingOta(f, t, m, d, cells, r) ==
    /\ ~d.started => d.signature = <<>>
    /\ d.size > 0 => Len(d.signature) = SigLen
    /\ OtaInPlace(f, t, m, cells, d.size) /\ OtaBlank(f, cells, d.size)
    /\ d.i = 1 => RdpBlank(f, r, 0)
    /\ d.i = 2 => RdpCopied(f, m, d, r)

CopyingRdp(f, t, m, d, cells, r) ==
    /\ RdpInPlace(f, m, r, d.size) /\ RdpBlank(f, r, d.size)
    /\ d.i = 1 => d.signature = <<>> /\ OtaBlank(f, cells, 0)
    /\ d.i = 2 => /\ d.otaSize \in Nat /\ OtaInPlace(f, t, m, cells, d.otaSize)
                  /\ d.otaSize > 0 => Len(d.signature) = SigLen

Copying(f, t, m, d, cells, r) ==
    /\ d.i <= Len(Info(f, t))
    /\ d.remain > 0 /\ d.size + d.remain = Info(f, t)[d.i].len
    /\ ~d.started => d.size = 0
    /\ Standing(f, m, Info(f, t)[d.i], d)
    /\ SignatureBlank(cells, 0) /\ SignatureArrived(f, t, m, d.signature)
    /\ IF Info(f, t)[d.i].kind = "OTA" THEN CopyingOta(f, t, m, d, cells, r)
       ELSE CopyingRdp(f, t, m, d, cells, r)

\* Everything that arrived is where it belongs, the signature in the buffer.
Copied(f, t, m, d, cells, r) ==
    /\ OtaInPlace(f, t, m, cells, f.len - SigLen) /\ d.otaSize = f.len - SigLen
    /\ Len(d.signature) = SigLen /\ SignatureArrived(f, t, m, d.signature)
    /\ RdpCopied(f, m, d, r)

\* What the checksums tell: no byte of the OTA image is damaged, and the RDP
\* image adds up.
Checked(f, t, m, r) ==
    /\ m - f.ota[t] \notin 0 .. f.len - 1
    /\ SumOf(r, 0, f.rdpLen) = FileSum(f, f.rdp, f.rdpLen)

SignedUpTo(d, cells, n) ==
    /\ n <= SigLen /\ SignatureBlank(cells, n)
    /\ \A k \in 0 .. n - 1 : cells[k] = d.signature[k + 1]

BlankBelow(f, cells, n) ==
    \A k \in 0 .. f.len - 1 : k \div SectorLen < n => cells[k] = Erased

\* The state at each place of the task.
Places ==
    /\ pc = "idle" => file = NoFile
    /\ pc # "idle" => file \in Files
    /\ pc \in {"idle", "header", "address"} => step = 0
    /\ pc = "erase" => BlankBelow(file, slot[Target], step)
    /\ pc = "eraseRdp" => \A k \in 0 .. file.len - 1 : slot[Target][k] = Erased
    /\ pc = "download" => Copying(file, Target, damaged, dw, slot[Target], rdp)
    /\ pc \in {"verify", "clear", "sign", "reset"} =>
          Copied(file, Target, damaged, dw, slot[Target], rdp)
    /\ pc \in {"verify", "clear"} => SignatureBlank(slot[Target], 0)
    /\ pc = "clear" => ~VerifyOtaChecksum
    /\ pc \in {"sign", "reset"} => Checked(file, Target, damaged, rdp)
    /\ pc = "sign" => SignedUpTo(dw, slot[Target], step)
    /\ pc = "reset" => SignedUpTo(dw, slot[Target], SigLen)

Types ==
    /\ slot \in [OTA_INDEX -> [Cells -> Bytes]]
    /\ rdp \in [RdpCells -> Bytes]
    /\ ota2Set \in BOOLEAN /\ boot \in OTA_INDEX /\ cur \in OTA_INDEX
    /\ pc \in {"idle", "header", "address", "erase", "eraseRdp", "download",
               "verify", "clear", "sign", "reset"}
    /\ damaged \in Int /\ step \in Nat
    /\ DType(dw)

Inv == Types /\ Places

-----------------------------------------------------------------------------
(* Induction.                                                              *)

\* Every set of natural numbers has a least one, which makes for induction over sets.
LEMMA Least ==
    ASSUME NEW S \in SUBSET Nat, S # {}
    PROVE  \E x \in S : \A y \in S : x <= y
<1> DEFINE R == OpToRel(<, Nat)
<1>1. IsWellFoundedOn(R, Nat)
    BY NatLessThanWellFounded
<1> HIDE DEF R
<1>2. PICK x \in S : \A y \in S : ~(<<y, x>> \in R)
    BY <1>1, WFMin
<1>3. \A a, b \in Nat : a < b => <<a, b>> \in R
    BY DEF R, OpToRel
<1>4. ASSUME NEW y \in S PROVE x <= y
    <2>1. x \in Nat /\ y \in Nat /\ ~(<<y, x>> \in R)
        BY <1>2
    <2>2. ~(y < x)
        BY <1>3, <2>1
    <2> QED
        BY <2>1, <2>2
<1> QED
    BY <1>4

LEMMA Induction ==
    ASSUME NEW S \in SUBSET Nat, 0 \in S, \A n \in S : n + 1 \in S
    PROVE  S = Nat
<1> SUFFICES ASSUME S # Nat PROVE FALSE
    OBVIOUS
<1>1. PICK x \in Nat \ S : \A y \in Nat \ S : x <= y
    BY Least
<1>2. x - 1 \in Nat /\ x - 1 \in S
    BY <1>1
<1> QED
    BY <1>1, <1>2

-----------------------------------------------------------------------------
(* Sums.                                                                   *)

\* There is a function that satisfies the recursion, so that the sum does.
LEMMA SumStep ==
    ASSUME NEW g, NEW a \in Int, NEW n \in Nat
    PROVE  SumOf(g, a, n + 1) = SumOf(g, a, n) + g[a + n] /\ SumOf(g, a, 0) = 0
<1> DEFINE Term(s, k) == IF k <= 0 THEN 0 ELSE s[k - 1] + g[a + k - 1]
           Is(s, m) == DOMAIN s = 0 .. m /\ \A k \in 0 .. m : s[k] = Term(s, k)
<1>1. \A m \in Nat : \E s : Is(s, m)
    <2> DEFINE S == {m \in Nat : \E s : Is(s, m)}
    <2>1. 0 \in S
        <3>1. Is([k \in 0 .. 0 |-> 0], 0)
            OBVIOUS
        <3> QED
            BY <3>1
    <2>2. ASSUME NEW m \in S PROVE m + 1 \in S
        <3>1. PICK s : Is(s, m)
            OBVIOUS
        <3> DEFINE t == [k \in 0 .. m + 1 |-> IF k <= m THEN s[k] ELSE s[m] + g[a + m]]
        <3>2. Is(t, m + 1)
            <4>1. DOMAIN t = 0 .. m + 1
                OBVIOUS
            <4>2. ASSUME NEW k \in 0 .. m PROVE t[k] = Term(t, k)
                <5>1. t[k] = s[k] /\ s[k] = Term(s, k)
                    BY <3>1
                <5>2. k > 0 => t[k - 1] = s[k - 1]
                    OBVIOUS
                <5> QED
                    BY <5>1, <5>2
            <4>3. t[m + 1] = Term(t, m + 1)
                <5>1. t[m + 1] = s[m] + g[a + m] /\ t[m] = s[m] /\ (m + 1) - 1 = m
                    OBVIOUS
                <5>2. a + (m + 1) - 1 = a + m
                    OBVIOUS
                <5> HIDE DEF t
                <5> QED
                    BY <5>1, <5>2
            <4> HIDE DEF t, Term
            <4>4. \A k \in 0 .. m + 1 : k \in 0 .. m \/ k = m + 1
                OBVIOUS
            <4> QED
                BY <4>1, <4>2, <4>3, <4>4
        <3> HIDE DEF t, Is
        <3>3. m + 1 \in Nat /\ \E u : Is(u, m + 1)
            BY <3>2
        <3> QED
            BY <3>3
    <2> HIDE DEF S, Is
    <2>3. S = Nat
        BY <2>1, <2>2, Induction DEF S
    <2> QED
        BY <2>3 DEF S
<1>2. ASSUME NEW m \in Nat, NEW p \in Nat, m <= p, NEW s, NEW t, Is(s, m), Is(t, p)
      PROVE  \A k \in 0 .. m : s[k] = t[k]
    <2> DEFINE S == {k \in Nat : k <= m => s[k] = t[k]}
    <2>1. 0 \in S
        BY <1>2
    <2>2. ASSUME NEW k \in S PROVE k + 1 \in S
        <3> SUFFICES ASSUME k + 1 <= m PROVE s[k + 1] = t[k + 1]
            OBVIOUS
        <3>1. s[k] = t[k] /\ (k + 1) - 1 = k
            OBVIOUS
        <3>2. k + 1 \in 0 .. m /\ k + 1 \in 0 .. p
            BY <1>2
        <3>3. s[k + 1] = Term(s, k + 1) /\ t[k + 1] = Term(t, k + 1)
            BY <1>2, <3>2
        <3>4. Term(s, k + 1) = s[k] + g[a + (k + 1) - 1] /\ Term(t, k + 1) = t[k] + g[a + (k + 1) - 1]
            BY <3>1
        <3> QED
            BY <3>1, <3>3, <3>4
    <2> HIDE DEF S
    <2>3. S = Nat
        BY <2>1, <2>2, Induction DEF S
    <2> QED
        BY <2>3 DEF S
<1> DEFINE F(k) == CHOOSE s : Is(s, k)
           h == [k \in Int |-> IF k <= 0 THEN 0 ELSE F(k)[k]]
<1>3. ASSUME NEW k \in Nat
      PROVE  Is(F(k), k)
    BY <1>1
<1>4. ASSUME NEW k \in Int PROVE h[k] = Term(h, k)
    <2>1. CASE k <= 0
        BY <2>1
    <2>2. CASE k > 0
        <3>1. k - 1 \in Nat /\ k \in Nat /\ k - 1 <= k
            BY <2>2
        <3> DEFINE s == F(k - 1)
                   t == F(k)
        <3>2. Is(s, k - 1) /\ Is(t, k)
            BY <1>3, <3>1
        <3> HIDE DEF s, t, Is
        <3>3. s[k - 1] = t[k - 1]
            BY <1>2, <3>1, <3>2
        <3>4. h[k] = t[k]
            BY <2>2 DEF t
        <3>5. h[k - 1] = t[k - 1]
            <4>1. CASE k = 1
                <5>1. t[0] = Term(t, 0)
                    BY <3>2, <4>1 DEF Is
                <5> QED
                    BY <4>1, <5>1
            <4>2. CASE k # 1
                BY <2>2, <3>3, <4>2 DEF s
            <4> QED
                BY <4>1, <4>2
        <3>6. t[k] = Term(t, k)
            BY <2>2, <3>2 DEF Is
        <3> HIDE DEF h
        <3> QED
            BY <2>2, <3>4, <3>5, <3>6
    <2> QED
        BY <2>1, <2>2
<1> DEFINE sum == CHOOSE s : s = [k \in Int |-> Term(s, k)]
<1>5. sum = [k \in Int |-> Term(sum, k)]
    <2>1. h = [k \in Int |-> h[k]]
        OBVIOUS
    <2> HIDE DEF h, Term
    <2>2. h = [k \in Int |-> Term(h, k)]
        BY <1>4, <2>1
    <2> QED
        BY <2>2
<1>6. \A k \in Int : SumOf(g, a, k) = sum[k]
    BY DEF SumOf
<1> HIDE DEF sum
<1>7. sum[n + 1] = Term(sum, n + 1) /\ sum[0] = 0
    BY <1>5
<1>8. Term(sum, n + 1) = sum[n] + g[a + n]
    <2>1. (n + 1) - 1 = n /\ a + (n + 1) - 1 = a + n /\ ~(n + 1 <= 0)
        OBVIOUS
    <2> QED
        BY <2>1
<1> QED
    BY <1>6, <1>7, <1>8

LEMMA SumIsInt ==
    ASSUME NEW g, NEW a \in Int, NEW n \in Nat, \A k \in 0 .. n - 1 : g[a + k] \in Int
    PROVE  SumOf(g, a, n) \in Int
<1> DEFINE S == {m \in Nat : m <= n => SumOf(g, a, m) \in Int}
<1>1. 0 \in S
    BY SumStep
<1>2. ASSUME NEW m \in S PROVE m + 1 \in S
    <2> SUFFICES ASSUME m + 1 <= n PROVE SumOf(g, a, m + 1) \in Int
        OBVIOUS
    <2>1. SumOf(g, a, m + 1) = SumOf(g, a, m) + g[a + m]
        BY SumStep
    <2>2. SumOf(g, a, m) \in Int /\ g[a + m] \in Int
        OBVIOUS
    <2> QED
        BY <2>1, <2>2
<1> HIDE DEF S
<1>3. S = Nat
    BY <1>1, <1>2, Induction DEF S
<1> QED
    BY <1>3 DEF S

Adds(g, a, n, p) == SumOf(g, a, n + p) = SumOf(g, a, n) + SumOf(g, a + n, p)

LEMMA SumSplit ==
    ASSUME NEW g, NEW a \in Int, NEW n \in Nat, NEW p \in Nat,
           \A k \in 0 .. n + p - 1 : g[a + k] \in Int
    PROVE  Adds(g, a, n, p)
<1> DEFINE T(m) == SumOf(g, a, n + m) = SumOf(g, a, n) + SumOf(g, a + n, m)
           S == {m \in Nat : m <= p => T(m)}
<1>1. 0 \in S
    <2>1. SumOf(g, a + n, 0) = 0 /\ n + 0 = n
        BY SumStep
    <2>2. SumOf(g, a, n) \in Int
        BY SumIsInt
    <2> QED
        BY <2>1, <2>2
<1>2. ASSUME NEW m \in S PROVE m + 1 \in S
    <2> SUFFICES ASSUME m + 1 <= p PROVE T(m + 1)
        OBVIOUS
    <2>1. SumOf(g, a + n, m + 1) = SumOf(g, a + n, m) + g[a + n + m]
        BY SumStep
    <2>2. SumOf(g, a, (n + m) + 1) = SumOf(g, a, n + m) + g[a + (n + m)]
        <3>1. n + m \in Nat
            OBVIOUS
        <3> QED
            BY <3>1, SumStep
    <2>3. T(m)
        OBVIOUS
    <2>4. SumOf(g, a, n) \in Int
        BY SumIsInt
    <2>5. SumOf(g, a + n, m) \in Int
        <3>1. \A k \in 0 .. m - 1 : g[a + n + k] \in Int
            <4> TAKE k \in 0 .. m - 1
            <4>1. n + k \in 0 .. n + p - 1 /\ a + n + k = a + (n + k)
                OBVIOUS
            <4> QED
                BY <4>1
        <3>2. a + n \in Int
            OBVIOUS
        <3> QED
            BY <3>1, <3>2, SumIsInt
    <2>6. g[a + (n + m)] \in Int /\ a + n + m = a + (n + m) /\ n + (m + 1) = (n + m) + 1
        OBVIOUS
    <2> DEFINE x == SumOf(g, a, n)
               y == SumOf(g, a + n, m)
               z == g[a + (n + m)]
    <2>7. SumOf(g, a, n + (m + 1)) = x + y + z /\ SumOf(g, a + n, m + 1) = y + z
        BY <2>1, <2>2, <2>3, <2>6
    <2>8. x \in Int /\ y \in Int /\ z \in Int
        BY <2>4, <2>5, <2>6
    <2> HIDE DEF x, y, z
    <2>9. SumOf(g, a, n + (m + 1)) = x + SumOf(g, a + n, m + 1)
        BY <2>7, <2>8
    <2> QED
        BY <2>9 DEF x
<1> HIDE DEF S
<1>3. S = Nat
    BY <1>1, <1>2, Induction DEF S
<1> QED
    BY <1>3 DEF S, Adds

SumsAlike(g, a, h, b, n) == SumOf(g, a, n) = SumOf(h, b, n)

LEMMA SumSame ==
    ASSUME NEW g, NEW h, NEW a \in Int, NEW b \in Int, NEW n \in Nat,
           \A k \in 0 .. n - 1 : g[a + k] = h[b + k]
    PROVE  SumsAlike(g, a, h, b, n)
<1> DEFINE S == {m \in Nat : m <= n => SumOf(g, a, m) = SumOf(h, b, m)}
<1>1. 0 \in S
    BY SumStep
<1>2. ASSUME NEW m \in S PROVE m + 1 \in S
    <2> SUFFICES ASSUME m + 1 <= n PROVE SumOf(g, a, m + 1) = SumOf(h, b, m + 1)
        OBVIOUS
    <2>1. /\ SumOf(g, a, m + 1) = SumOf(g, a, m) + g[a + m]
          /\ SumOf(h, b, m + 1) = SumOf(h, b, m) + h[b + m]
        BY SumStep
    <2>2. SumOf(g, a, m) = SumOf(h, b, m) /\ g[a + m] = h[b + m]
        OBVIOUS
    <2> QED
        BY <2>1, <2>2
<1> HIDE DEF S
<1>3. S = Nat
    BY <1>1, <1>2, Induction DEF S
<1> QED
    BY <1>3 DEF S, SumsAlike

\* One byte that differs makes the sum differ.
LEMMA SumDiffers ==
    ASSUME NEW g, NEW h, NEW a \in Int, NEW b \in Int, NEW n \in Nat, NEW j \in 0 .. n - 1,
           \A k \in 0 .. n - 1 : g[a + k] \in Int /\ h[b + k] \in Int,
           \A k \in 0 .. n - 1 : k # j => g[a + k] = h[b + k],
           g[a + j] # h[b + j]
    PROVE  SumOf(g, a, n) # SumOf(h, b, n)
<1> DEFINE G(m) == SumOf(g, a, m)
           H(m) == SumOf(h, b, m)
           T(m) == /\ G(m) \in Int /\ H(m) \in Int
                   /\ IF j < m THEN G(m) # H(m) ELSE G(m) = H(m)
           S == {m \in Nat : m <= n => T(m)}
<1>1. 0 \in S
    <2>1. G(0) = 0 /\ H(0) = 0
        BY SumStep
    <2> QED
        BY <2>1
<1>2. ASSUME NEW m \in S PROVE m + 1 \in S
    <2> SUFFICES ASSUME m + 1 <= n PROVE T(m + 1)
        OBVIOUS
    <2>1. G(m + 1) = G(m) + g[a + m] /\ H(m + 1) = H(m) + h[b + m]
        BY SumStep
    <2>2. T(m) /\ g[a + m] \in Int /\ h[b + m] \in Int /\ (m # j => g[a + m] = h[b + m])
        OBVIOUS
    <2> DEFINE x == g[a + m]
               y == h[b + m]
    <2>3. j = m => x # y
        OBVIOUS
    <2>4. /\ G(m + 1) = G(m) + x /\ H(m + 1) = H(m) + y /\ x \in Int /\ y \in Int
          /\ m # j => x = y
        BY <2>1, <2>2
    <2> HIDE DEF G, H, x, y
    <2> QED
        BY <2>2, <2>3, <2>4
<1> HIDE DEF S, G, H
<1>3. S = Nat
    BY <1>1, <1>2, Induction DEF S
<1>4. T(n) /\ j < n
    BY <1>3 DEF S
<1>5. G(n) # H(n)
    BY <1>4
<1> QED
    BY <1>5 DEF G, H



-----------------------------------------------------------------------------
(* Files and cells.                                                        *)

LEMMA Lengths ==
    /\ SigLen \in Nat /\ SigLen > 0 /\ SectorLen \in Nat /\ SectorLen > 0
    /\ SigLen <= SectorLen /\ SlotLen \in Nat /\ SigLen < SlotLen
    /\ SectorLen <= SlotLen
  BY ImageAssumption

LEMMA FileFacts ==
    ASSUME NEW f \in Files
    PROVE  /\ f.hdr \in Nat /\ f.rdp \in Nat /\ f.ours \in BOOLEAN
           /\ f.bytes \in Seq(Nat) /\ Total(f) <= Len(f.bytes)
           /\ f.ota[1] \in Nat /\ f.ota[2] \in Nat
           /\ \A s \in OTA_INDEX : f.ota[s] \in Nat
           /\ f.len \in Nat /\ SigLen < f.len /\ f.len <= SlotLen
           /\ f.rdpLen \in Nat /\ f.rdpLen <= SectorLen
  BY ImageAssumption DEF OTA_INDEX

\* An upper bound that is a member is the maximum.
LEMMA MaxIs ==
    ASSUME NEW S, NEW x \in S, \A y \in S : x >= y
    PROVE  Max(S) \in S /\ \A y \in S : Max(S) >= y
  BY DEF Max

\* The stream ends behind each image.
LEMMA TotalBound ==
    ASSUME NEW f \in Files
    PROVE  /\ Total(f) \in Nat
           /\ f.ota[1] + f.len <= Total(f) /\ f.ota[2] + f.len <= Total(f)
           /\ f.rdp + f.rdpLen <= Total(f)
<1> DEFINE a == f.ota[1] + f.len
           b == f.ota[2] + f.len
           c == f.rdp + f.rdpLen
           S == {a, b, c}
<1>1. a \in Nat /\ b \in Nat /\ c \in Nat
    BY FileFacts
<1>2. {f.ota[s] + f.len : s \in OTA_INDEX} \cup {f.rdp + f.rdpLen} = S
    BY DEF OTA_INDEX
<1>3. Total(f) = Max(S)
    BY <1>2 DEF Total
<1> HIDE DEF a, b, c
<1>4. \E x \in S : \A y \in S : x >= y
    BY <1>1
<1>5. Max(S) \in S /\ \A y \in S : Max(S) >= y
    BY <1>4, MaxIs
<1>6. Total(f) \in Nat /\ a <= Total(f) /\ b <= Total(f) /\ c <= Total(f)
    BY <1>1, <1>3, <1>5
<1> QED
    BY <1>6 DEF a, b, c

LEMMA ServedByte ==
    ASSUME NEW f \in Files, NEW o \in Nat, o < Total(f)
    PROVE  Served(f, o) \in Nat
<1>1. o + 1 \in 1 .. Len(f.bytes)
    BY FileFacts, TotalBound
<1> QED
    BY <1>1, FileFacts, ElementOfSeq DEF Served

LEMMA SentByte ==
    ASSUME NEW f \in Files, NEW o \in Nat, o < Total(f), NEW m
    PROVE  Served(f, o) \in Bytes /\ Sent(f, m, o) \in Bytes
<1>1. o \in 0 .. Total(f) - 1
    BY TotalBound
<1>2. Served(f, o) \in Values
    BY <1>1 DEF Values
<1>3. Served(f, o) # Overwritten /\ Corrupted # Overwritten
    BY <1>1, OverwrittenAssumption
<1>4. Corrupted \in Values
    BY DEF Values
<1> QED
    BY <1>2, <1>3, <1>4 DEF Bytes, Sent

LEMMA ErasedByte == Erased \in Bytes /\ Corrupted \in Bytes
  BY OverwrittenAssumption DEF Bytes, Values

\* Programming erased cells.
LEMMA ProgramBlank ==
    ASSUME NEW n \in Int, NEW cells \in [0 .. n - 1 -> Bytes], NEW from \in Nat,
           NEW bytes \in Seq(Bytes),
           \A k \in from .. from + Len(bytes) - 1 : cells[k] = Erased
    PROVE  /\ Program(cells, from, bytes) \in [0 .. n - 1 -> Bytes]
           /\ \A k \in 0 .. n - 1 :
                 Program(cells, from, bytes)[k] =
                    IF k \in from .. from + Len(bytes) - 1
                    THEN bytes[k - from + 1] ELSE cells[k]
<1>1. \A k \in from .. from + Len(bytes) - 1 : bytes[k - from + 1] \in Bytes
    <2> TAKE k \in from .. from + Len(bytes) - 1
    <2>1. k - from + 1 \in 1 .. Len(bytes)
        OBVIOUS
    <2> QED
        BY <2>1, ElementOfSeq
<1>2. DOMAIN cells = 0 .. n - 1 /\ \A k \in 0 .. n - 1 : cells[k] \in Bytes
    OBVIOUS
<1>3. Program(cells, from, bytes) =
        [k \in 0 .. n - 1 |-> IF k \in from .. from + Len(bytes) - 1
                              THEN bytes[k - from + 1] ELSE cells[k]]
    BY <1>2, Zenon DEF Program
<1> QED
    BY <1>1, <1>2, <1>3

LEMMA EraseSectorOn ==
    ASSUME NEW D, NEW cells \in [D -> Bytes], NEW n
    PROVE  /\ EraseSectorAt(cells, n) \in [D -> Bytes]
           /\ \A k \in D : EraseSectorAt(cells, n)[k] =
                 IF k \div SectorLen = n THEN Erased ELSE cells[k]
  BY ErasedByte DEF EraseSectorAt

\* A part of a sequence.
LEMMA Part ==
    ASSUME NEW q \in Seq(Bytes), NEW a \in 1 .. Len(q) + 1, NEW b \in a - 1 .. Len(q)
    PROVE  /\ SubSeq(q, a, b) \in Seq(Bytes) /\ Len(SubSeq(q, a, b)) = b - a + 1
           /\ \A k \in 1 .. b - a + 1 : SubSeq(q, a, b)[k] = q[a + k - 1]
<1>1. Len(q) \in Nat /\ \A i \in 1 .. Len(q) : q[i] \in Bytes
    BY LenProperties, ElementOfSeq
<1>2. a \in Int /\ b \in Int /\ \A i \in a .. b : q[i] \in Bytes
    BY <1>1
<1>3. /\ SubSeq(q, a, b) \in Seq(Bytes)
      /\ Len(SubSeq(q, a, b)) = IF a <= b THEN b - a + 1 ELSE 0
      /\ \A k \in 1 .. b - a + 1 : SubSeq(q, a, b)[k] = q[a + k - 1]
    BY <1>2, SubSeqProperties
<1> QED
    BY <1>1, <1>3

-----------------------------------------------------------------------------
(* The images of a file.                                                   *)

\* The offset behind an image, its signature included.
End(image) == image.off + image.len + IF image.kind = "OTA" THEN SigLen ELSE 0

\* What image number j is, and that the next one lies behind it.
LEMMA InfoFacts ==
    ASSUME NEW f \in Files, NEW t \in OTA_INDEX, NEW j \in 1 .. Len(Info(f, t))
    PROVE  /\ Len(Info(f, t)) \in {1, 2} /\ j \in {1, 2}
           /\ Info(f, t)[j].off \in Nat /\ f.hdr <= Info(f, t)[j].off
           /\ Info(f, t)[j].len \in Nat /\ Info(f, t)[j].len > 0
           /\ Info(f, t)[j].len <= SlotLen
           /\ \/ /\ Info(f, t)[j].kind = "OTA" /\ Info(f, t)[j].off = f.ota[t]
                 /\ Info(f, t)[j].len = f.len - SigLen
              \/ /\ Info(f, t)[j].kind = "RDP" /\ Info(f, t)[j].off = f.rdp
                 /\ Info(f, t)[j].len = f.rdpLen
           /\ Len(Info(f, t)) = 1 => f.rdpLen = 0 /\ Info(f, t)[j].kind = "OTA"
           /\ Len(Info(f, t)) = 2 =>
                 /\ \/ Info(f, t)[1].kind = "OTA" /\ Info(f, t)[2].kind = "RDP"
                    \/ Info(f, t)[1].kind = "RDP" /\ Info(f, t)[2].kind = "OTA"
                 /\ End(Info(f, t)[1]) <= Info(f, t)[2].off
<1> DEFINE o == OtaInfo(f, t)
           r == RdpInfo(f)
<1>1. /\ f.hdr \in Nat /\ f.ota[t] \in Nat /\ f.rdp \in Nat /\ f.len \in Nat
      /\ f.rdpLen \in Nat /\ SigLen < f.len /\ f.len <= SlotLen
      /\ f.rdpLen <= SlotLen /\ SigLen \in Nat /\ SlotLen \in Nat
    BY FileFacts, Lengths
<1>2. /\ f.hdr <= f.ota[t]
      /\ f.rdpLen > 0 => f.hdr <= f.rdp
           /\ (f.ota[t] + f.len <= f.rdp \/ f.rdp + f.rdpLen <= f.ota[t])
    BY LayoutAssumption
<1>3. /\ o.kind = "OTA" /\ o.off = f.ota[t] /\ o.len = f.len - SigLen
      /\ r.kind = "RDP" /\ r.off = f.rdp /\ r.len = f.rdpLen
      /\ End(o) = f.ota[t] + f.len /\ End(r) = f.rdp + f.rdpLen
    <2>1. /\ f.ota[t] + (f.len - SigLen) + SigLen = f.ota[t] + f.len
          /\ f.rdp + f.rdpLen + 0 = f.rdp + f.rdpLen
        <3> DEFINE x == f.ota[t]
                   y == f.len
                   u == f.rdp
                   v == f.rdpLen
        <3>1. x \in Nat /\ y \in Nat /\ u \in Nat /\ v \in Nat /\ SigLen \in Nat
            BY <1>1
        <3> HIDE DEF x, y, u, v
        <3>2. x + (y - SigLen) + SigLen = x + y /\ u + v + 0 = u + v
            BY <3>1
        <3> QED
            BY <3>2 DEF x, y, u, v
    <2>2. /\ o.kind = "OTA" /\ o.off = f.ota[t] /\ o.len = f.len - SigLen
          /\ r.kind = "RDP" /\ r.off = f.rdp /\ r.len = f.rdpLen
        BY DEF OtaInfo, RdpInfo
    <2> HIDE DEF o, r
    <2>3. End(o) = o.off + o.len + SigLen /\ End(r) = r.off + r.len + 0
        BY <2>2 DEF End
    <2> QED
        BY <2>1, <2>2, <2>3
<1>4. /\ o.off \in Nat /\ f.hdr <= o.off
      /\ o.len \in Nat /\ o.len > 0 /\ o.len <= SlotLen
    BY <1>1, <1>2, <1>3
<1>5. f.rdpLen # 0 => /\ r.off \in Nat /\ f.hdr <= r.off
                      /\ r.len \in Nat /\ r.len > 0 /\ r.len <= SlotLen
    BY <1>1, <1>2, <1>3
<1>6. \/ Info(f, t) = <<o>> /\ f.rdpLen = 0
      \/ Info(f, t) = <<o, r>> /\ f.rdpLen # 0 /\ End(o) <= r.off
      \/ Info(f, t) = <<r, o>> /\ f.rdpLen # 0 /\ End(r) <= o.off
    <2>1. f.rdpLen # 0 /\ f.ota[t] < f.rdp => End(o) <= r.off
        BY SMTT(30), <1>1, <1>2, <1>3
    <2>2. f.rdpLen # 0 /\ ~(f.ota[t] < f.rdp) => End(r) <= o.off
        BY <1>1, <1>2, <1>3
    <2> QED
        BY <2>1, <2>2 DEF Info
<1> HIDE DEF o, r
<1>7. /\ Len(Info(f, t)) \in {1, 2} /\ j \in {1, 2}
      /\ Info(f, t)[j] = o \/ (Info(f, t)[j] = r /\ f.rdpLen # 0)
      /\ Len(Info(f, t)) = 1 => f.rdpLen = 0 /\ Info(f, t)[j] = o
      /\ Len(Info(f, t)) = 2 =>
            \/ Info(f, t)[1] = o /\ Info(f, t)[2] = r /\ End(o) <= r.off
            \/ Info(f, t)[1] = r /\ Info(f, t)[2] = o /\ End(r) <= o.off
    <2>1. CASE Info(f, t) = <<o>> /\ f.rdpLen = 0
        <3>1. Len(<<o>>) = 1 /\ <<o>>[1] = o
            OBVIOUS
        <3>2. j = 1
            BY <2>1, <3>1
        <3> QED
            BY <2>1, <3>1, <3>2
    <2>2. CASE Info(f, t) = <<o, r>> /\ f.rdpLen # 0 /\ End(o) <= r.off
        <3>1. Len(<<o, r>>) = 2 /\ <<o, r>>[1] = o /\ <<o, r>>[2] = r
            OBVIOUS
        <3>2. j \in {1, 2}
            BY <2>2, <3>1
        <3> QED
            BY <2>2, <3>1, <3>2
    <2>3. CASE Info(f, t) = <<r, o>> /\ f.rdpLen # 0 /\ End(r) <= o.off
        <3>1. Len(<<r, o>>) = 2 /\ <<r, o>>[1] = r /\ <<r, o>>[2] = o
            OBVIOUS
        <3>2. j \in {1, 2}
            BY <2>3, <3>1
        <3> QED
            BY <2>3, <3>1, <3>2
    <2> QED
        BY <1>6, <2>1, <2>2, <2>3
<1>8. \/ /\ Info(f, t)[j].kind = "OTA" /\ Info(f, t)[j].off = f.ota[t]
         /\ Info(f, t)[j].len = f.len - SigLen
      \/ /\ Info(f, t)[j].kind = "RDP" /\ Info(f, t)[j].off = f.rdp
         /\ Info(f, t)[j].len = f.rdpLen
    BY <1>3, <1>7
<1>9. /\ Info(f, t)[j].off \in Nat /\ f.hdr <= Info(f, t)[j].off
      /\ Info(f, t)[j].len \in Nat /\ Info(f, t)[j].len > 0
      /\ Info(f, t)[j].len <= SlotLen
    BY <1>4, <1>5, <1>7
<1>10. /\ Len(Info(f, t)) = 1 => f.rdpLen = 0 /\ Info(f, t)[j].kind = "OTA"
       /\ Len(Info(f, t)) = 2 =>
             /\ \/ Info(f, t)[1].kind = "OTA" /\ Info(f, t)[2].kind = "RDP"
                \/ Info(f, t)[1].kind = "RDP" /\ Info(f, t)[2].kind = "OTA"
             /\ End(Info(f, t)[1]) <= Info(f, t)[2].off
    BY <1>3, <1>7
<1> QED
    BY <1>7, <1>8, <1>9, <1>10

LEMMA PlanIs ==
    /\ DownloadInfo = Info(file, Target)
    /\ Image = Info(file, Target)[dw.i]
    /\ \A o : Arriving(o) = Sent(file, damaged, o)
  BY DEF DownloadInfo, Image, Info, OtaInfo, RdpInfo, Arriving, Sent

\* The lesser of two.
LEMMA MinOfTwo ==
    ASSUME NEW a \in Int, NEW b \in Int
    PROVE  Min({a, b}) = IF a <= b THEN a ELSE b
<1> DEFINE S == {a, b}
           x == IF a <= b THEN a ELSE b
<1>1. x \in S /\ \A y \in S : x <= y
    OBVIOUS
<1>2. Min(S) \in S /\ \A y \in S : Min(S) <= y
    BY <1>1 DEF Min
<1> HIDE DEF S, x
<1>3. S \subseteq Int /\ x \in Int
    BY DEF S, x
<1>4. Min(S) <= x /\ x <= Min(S) /\ Min(S) \in Int
    BY <1>1, <1>2, <1>3
<1>5. Min(S) = x
    BY <1>3, <1>4
<1> QED
    BY <1>5 DEF S, x

-----------------------------------------------------------------------------
(* One pass over a packet.                                                 *)

\* The task is copying image dw.i, and a packet buf that ends at `received` fits.
Ready(buf, received) ==
    /\ file \in Files /\ Target \in OTA_INDEX /\ damaged \in Int
    /\ dw \in DRecord /\ dw.i <= Len(Info(file, Target))
    /\ Len(dw.signature) <= SigLen
    /\ dw.remain > 0 /\ dw.size + dw.remain = Image.len
    /\ ~dw.started => dw.size = 0 /\ (Image.kind = "OTA" => dw.signature = <<>>)
    /\ Image.kind = "OTA" /\ dw.size > 0 => Len(dw.signature) = SigLen
    /\ SignatureArrived(file, Target, damaged, dw.signature)
    /\ dw.remain <= SlotLen
    /\ buf \in Seq(Bytes) /\ received \in Nat
    /\ Fits(file, damaged, Image, dw, buf, received)

LEMMA ReadyNumbers ==
    ASSUME NEW buf, NEW received, Ready(buf, received)
    PROVE  /\ dw.i \in 1 .. Len(Info(file, Target)) /\ Image.off \in Nat
           /\ Image.len \in Nat /\ dw.size \in Nat /\ dw.remain \in Int
           /\ Len(buf) \in Nat /\ Len(dw.signature) \in Nat /\ SigLen \in Nat
           /\ Taken(Image.kind, dw) \in Nat /\ dw.started \in BOOLEAN
           /\ Image.kind \in {"OTA", "RDP"} /\ dw.signature \in Seq(Bytes)
           /\ received \in Nat
<1>1. /\ dw.size \in Nat /\ dw.remain \in Int /\ dw.signature \in Seq(Bytes)
      /\ dw.i \in Nat /\ 1 <= dw.i /\ dw.started \in BOOLEAN
      /\ Len(buf) \in Nat /\ received \in Nat
    BY LenProperties DEF Ready, DRecord
<1>2. dw.i \in 1 .. Len(Info(file, Target))
    <2>1. Len(Info(file, Target)) \in Nat /\ dw.i <= Len(Info(file, Target))
        BY DEF Info, Ready
    <2> QED
        BY <1>1, <2>1
<1>3. Image.off \in Nat /\ Image.len \in Nat /\ Image.kind \in {"OTA", "RDP"}
    BY <1>2, InfoFacts, PlanIs DEF Ready
<1>4. Len(dw.signature) \in Nat /\ SigLen \in Nat
    BY <1>1, LenProperties, Lengths
<1> QED
    BY <1>1, <1>2, <1>3, <1>4 DEF Taken

\* The bytes of the packet that belong to the image go on where it is left.
LEMMA BytesOfImageResult ==
    ASSUME NEW buf, NEW received, Ready(buf, received)
    PROVE  LET bytes == BytesOfImage(buf, received)
               next == Image.off + Taken(Image.kind, dw)
           IN  /\ bytes \in Seq(Bytes) /\ Len(bytes) <= Len(buf)
               /\ received <= Image.off => bytes = <<>>
               /\ received > Image.off \/ dw.started => received - Len(bytes) = next
               /\ \A k \in 1 .. Len(bytes) :
                     bytes[k] = Sent(file, damaged, next + k - 1)
<1> DEFINE bytes == BytesOfImage(buf, received)
           taken == Taken(Image.kind, dw)
           off == Image.off
           begin == received - Len(buf)
<1>1. /\ off \in Nat /\ taken \in Nat /\ Len(buf) \in Nat /\ received \in Nat
      /\ begin \in Int /\ buf \in Seq(Bytes) /\ dw.started \in BOOLEAN
    BY ReadyNumbers DEF Ready
<1>2. /\ dw.started => begin = off + taken
      /\ ~dw.started => begin <= off
      /\ received > off => \A k \in 1 .. Len(buf) :
                              buf[k] = Sent(file, damaged, begin + k - 1)
    BY DEF Ready, Fits
<1>3. ~dw.started => taken = 0
    BY DEF Ready, Taken
<1>4. CASE received <= off
    <2>1. bytes = <<>>
        BY <1>1, <1>4 DEF BytesOfImage
    <2>2. dw.started => received = off + taken
        BY <1>1, <1>2, <1>4
    <2> QED
        BY <1>1, <1>4, <2>1, <2>2
<1>5. CASE received > off /\ dw.started
    <2>1. bytes = buf
        BY <1>1, <1>5 DEF BytesOfImage
    <2>2. begin = off + taken
        BY <1>2, <1>5
    <2> HIDE DEF bytes, taken, off
    <2>3. received - Len(bytes) = off + taken /\ ~(received <= off)
        BY <1>1, <1>5, <2>1, <2>2
    <2>4. \A k \in 1 .. Len(bytes) :
              bytes[k] = Sent(file, damaged, off + taken + k - 1)
        BY <1>2, <1>5, <2>1, <2>2
    <2> QED
        BY <1>1, <2>1, <2>3, <2>4 DEF bytes, taken, off
<1>6. CASE received > off /\ ~dw.started
    <2> DEFINE behind == received - off
               a == Len(buf) - behind + 1
    <2>1. bytes = SubSeq(buf, a, Len(buf))
        <3>1. ~(received - Image.off <= 0)
            BY <1>1, <1>6
        <3> QED
            BY <1>6, <3>1, Zenon DEF BytesOfImage
    <2>2. a \in 1 .. Len(buf) + 1 /\ Len(buf) \in a - 1 .. Len(buf)
        BY <1>1, <1>2, <1>6
    <2>3. /\ bytes \in Seq(Bytes) /\ Len(bytes) = Len(buf) - a + 1
          /\ \A k \in 1 .. Len(buf) - a + 1 : bytes[k] = buf[a + k - 1]
        BY <1>1, <2>1, <2>2, Part
    <2> HIDE DEF bytes, taken, off
    <2>7. taken = 0
        BY <1>3, <1>6
    <2>4. Len(bytes) = behind /\ received - Len(bytes) = off + taken
        BY <1>1, <2>3, <2>7
    <2>5. ASSUME NEW k \in 1 .. Len(bytes)
          PROVE  bytes[k] = Sent(file, damaged, off + taken + k - 1)
        <3>1. a + k - 1 \in 1 .. Len(buf) /\ k \in 1 .. Len(buf) - a + 1
            BY <1>1, <2>2, <2>3
        <3>2. begin + (a + k - 1) - 1 = off + taken + k - 1
            BY <1>1, <2>7
        <3> QED
            BY <1>2, <1>6, <2>3, <3>1, <3>2
    <2>6. Len(bytes) <= Len(buf) /\ ~(received <= off)
        BY <1>1, <1>6, <2>2, <2>4
    <2> QED
        BY <2>3, <2>4, <2>5, <2>6 DEF bytes, taken, off
<1> QED
    BY <1>1, <1>4, <1>5, <1>6

\* What goes to the signature buffer is the next part of the signature.
LEMMA SignaturePartResult ==
    ASSUME NEW buf, NEW received, Ready(buf, received),
           NEW bytes \in Seq(Bytes)
    PROVE  LET sig == SignaturePart(bytes)
           IN  /\ sig \in Seq(Bytes) /\ Len(sig) <= Len(bytes)
               /\ Image.kind = "RDP" => sig = <<>>
               /\ Image.kind = "OTA" =>
                     /\ Len(dw.signature) + Len(sig) <= SigLen
                     /\ Len(sig) < Len(bytes) =>
                           Len(dw.signature) + Len(sig) = SigLen
               /\ \A k \in 1 .. Len(sig) : sig[k] = bytes[k]
<1> DEFINE sig == SignaturePart(bytes)
           g == Len(dw.signature)
           n == Min({Len(bytes), SigLen - g})
<1>1. /\ Len(bytes) \in Nat /\ g \in Nat /\ SigLen \in Nat /\ g <= SigLen
      /\ Image.kind \in {"OTA", "RDP"}
    BY ReadyNumbers, LenProperties DEF Ready
<1>2. CASE Image.kind = "RDP"
    <2>1. sig = <<>>
        BY <1>2 DEF SignaturePart
    <2> QED
        BY <1>1, <1>2, <2>1
<1>3. CASE Image.kind = "OTA"
    <2>1. sig = SubSeq(bytes, 1, n)
        BY <1>3 DEF SignaturePart
    <2> HIDE DEF sig, g
    <2>2. n = IF Len(bytes) <= SigLen - g THEN Len(bytes) ELSE SigLen - g
        BY <1>1, MinOfTwo
    <2> HIDE DEF n
    <2>3. n \in 0 .. Len(bytes) /\ g + n <= SigLen
          /\ (n < Len(bytes) => g + n = SigLen)
        BY <1>1, <2>2
    <2>4. 1 \in 1 .. Len(bytes) + 1 /\ n \in 1 - 1 .. Len(bytes)
        BY <1>1, <2>3
    <2>5. /\ sig \in Seq(Bytes) /\ Len(sig) = n - 1 + 1
          /\ \A k \in 1 .. n - 1 + 1 : sig[k] = bytes[1 + k - 1]
        BY <2>1, <2>4, Part
    <2>6. Len(sig) = n /\ \A k \in 1 .. n : sig[k] = bytes[k]
        BY <2>3, <2>5
    <2> QED
        BY <1>3, <2>3, <2>5, <2>6 DEF sig, g
<1> QED
    BY <1>1, <1>2, <1>3

\* What is written: the rest of the bytes, as far as the image goes.
LEMMA RestResult ==
    ASSUME NEW buf, NEW received, Ready(buf, received),
           NEW bytes \in Seq(Bytes), NEW j \in 0 .. Len(bytes)
    PROVE  LET data == SubSeq(bytes, j + 1, Len(bytes))
               kept == CutToRest(data)
           IN  /\ data \in Seq(Bytes) /\ Len(data) = Len(bytes) - j
               /\ kept \in Seq(Bytes) /\ Len(kept) <= dw.remain
               /\ Len(kept) = Len(data) \/ (Len(kept) = dw.remain /\ Len(data) > dw.remain)
               /\ \A k \in 1 .. Len(kept) : kept[k] = bytes[j + k]
<1> DEFINE data == SubSeq(bytes, j + 1, Len(bytes))
           kept == CutToRest(data)
<1>1. Len(bytes) \in Nat /\ j \in Nat /\ dw.remain \in Int /\ dw.remain > 0
    BY ReadyNumbers, LenProperties DEF Ready
<1>2. j + 1 \in 1 .. Len(bytes) + 1 /\ Len(bytes) \in (j + 1) - 1 .. Len(bytes)
    BY <1>1
<1>3. /\ data \in Seq(Bytes) /\ Len(data) = Len(bytes) - (j + 1) + 1
      /\ \A k \in 1 .. Len(bytes) - (j + 1) + 1 : data[k] = bytes[(j + 1) + k - 1]
    BY <1>2, Part
<1> HIDE DEF data
<1>4. Len(data) = Len(bytes) - j /\ Len(data) \in Nat
    BY <1>1, <1>3
<1>5. \A k \in 1 .. Len(data) : data[k] = bytes[j + k]
    <2> TAKE k \in 1 .. Len(data)
    <2>1. k \in 1 .. Len(bytes) - (j + 1) + 1 /\ (j + 1) + k - 1 = j + k
        BY <1>1, <1>4
    <2> QED
        BY <1>3, <2>1
<1>6. CASE Len(data) <= dw.remain
    <2>1. kept = data
        BY <1>1, <1>4, <1>6 DEF CutToRest
    <2> QED
        BY <1>3, <1>4, <1>5, <1>6, <2>1 DEF data
<1>7. CASE Len(data) > dw.remain
    <2>1. kept = SubSeq(data, 1, dw.remain)
        BY <1>7 DEF CutToRest
    <2>2. 1 \in 1 .. Len(data) + 1 /\ dw.remain \in 1 - 1 .. Len(data)
        BY <1>1, <1>4, <1>7
    <2>3. /\ kept \in Seq(Bytes) /\ Len(kept) = dw.remain - 1 + 1
          /\ \A k \in 1 .. dw.remain - 1 + 1 : kept[k] = data[1 + k - 1]
        BY SMTT(30), <1>3, <2>1, <2>2, Part
    <2> HIDE DEF kept
    <2>4. Len(kept) = dw.remain /\ \A k \in 1 .. dw.remain : kept[k] = data[k]
        BY <1>1, <2>3
    <2>5. \A k \in 1 .. Len(kept) : kept[k] = bytes[j + k]
        BY <1>1, <1>4, <1>5, <1>7, <2>4
    <2> QED
        BY <1>1, <1>3, <1>4, <1>7, <2>3, <2>4, <2>5 DEF kept, data
<1> QED
    BY <1>1, <1>4, <1>6, <1>7

\* The variables of the download after the pass, before an image is finished.
PassOf(buf, received, d, kept) ==
    /\ d \in DRecord /\ Len(d.signature) <= SigLen /\ d.remain <= SlotLen
    /\ d.i = dw.i /\ d.closed = dw.closed /\ d.otaSize = dw.otaSize
    /\ ~d.reuse /\ d.buf = buf /\ d.received = received
    /\ d.size = dw.size + Len(kept) /\ d.size <= Image.len
    /\ kept \in Seq(Bytes)
    /\ Image.kind = "RDP" => d.signature = dw.signature
    /\ Image.kind = "OTA" /\ d.size > 0 => Len(d.signature) = SigLen
    /\ ~d.started => d.size = 0 /\ (Image.kind = "OTA" => d.signature = <<>>)
    /\ d.remain > 0 => /\ d.size + d.remain = Image.len
                       /\ Standing(file, damaged, Image, d)
    /\ ~(d.remain > 0) =>
          /\ d.size = Image.len
          /\ received - Len(buf) <= End(Image)
          /\ \A k \in 1 .. Len(buf) :
                buf[k] = Sent(file, damaged, received - Len(buf) + k - 1)

\* The bytes kept for the flash are those that follow what was written, and the
\* buffer holds the first bytes of the image.
Arrived(d, kept) ==
    /\ Image.kind = "RDP" =>
          \A k \in 1 .. Len(kept) :
              kept[k] = Sent(file, damaged, Image.off + dw.size + k - 1)
    /\ Image.kind = "OTA" =>
          \A k \in 1 .. Len(kept) :
              kept[k] = Sent(file, damaged, Image.off + SigLen + dw.size + k - 1)
    /\ SignatureArrived(file, Target, damaged, d.signature)

\* The local definitions of Consume.
Pass(buf, received, bytes, sig, data, kept, d) ==
    /\ bytes = BytesOfImage(buf, received)
    /\ sig = SignaturePart(bytes)
    /\ data = SubSeq(bytes, Len(sig) + 1, Len(bytes))
    /\ kept = CutToRest(data)
    /\ d = [dw EXCEPT !.received = received, !.buf = buf,
                      !.reuse = FALSE,
                      !.started = @ \/ received > Image.off,
                      !.signature = @ \o sig,
                      !.remain = @ - Len(data),
                      !.size = @ + Len(kept)]

LEMMA PassResult ==
    ASSUME NEW buf, NEW received, Ready(buf, received),
           NEW bytes, NEW sig, NEW data, NEW kept, NEW d,
           Pass(buf, received, bytes, sig, data, kept, d)
    PROVE  PassOf(buf, received, d, kept) /\ Arrived(d, kept)
<1> DEFINE g == Len(dw.signature)
           j == Len(sig)
           off == Image.off
           size == dw.size
           rem == dw.remain
           n == Len(bytes)
           w == Len(kept)
<1>1. /\ off \in Nat /\ Image.len \in Nat /\ size \in Nat /\ rem \in Int /\ rem > 0
      /\ Len(buf) \in Nat /\ g \in Nat /\ SigLen \in Nat /\ received \in Nat
      /\ Image.kind \in {"OTA", "RDP"} /\ dw.started \in BOOLEAN
      /\ size + rem = Image.len /\ dw.signature \in Seq(Bytes)
    BY ReadyNumbers DEF Ready
<1>2. /\ bytes \in Seq(Bytes) /\ n \in Nat /\ n <= Len(buf)
      /\ received <= off => bytes = <<>>
      /\ received > off \/ dw.started =>
            received - n = off + Taken(Image.kind, dw)
      /\ \A k \in 1 .. n :
            bytes[k] = Sent(file, damaged, off + Taken(Image.kind, dw) + k - 1)
    BY BytesOfImageResult, LenProperties DEF Pass
<1>3. /\ sig \in Seq(Bytes) /\ j \in Nat /\ j <= n
      /\ Image.kind = "RDP" => sig = <<>>
      /\ Image.kind = "OTA" => g + j <= SigLen /\ (j < n => g + j = SigLen)
      /\ \A k \in 1 .. j : sig[k] = bytes[k]
    BY <1>2, SignaturePartResult, LenProperties DEF Pass
<1>4. j \in 0 .. n
    BY <1>2, <1>3
<1>5. /\ data \in Seq(Bytes) /\ Len(data) = n - j
      /\ kept \in Seq(Bytes) /\ w \in Nat /\ w <= rem
      /\ w = n - j \/ (w = rem /\ n - j > rem)
      /\ \A k \in 1 .. w : kept[k] = bytes[j + k]
    <2>1. /\ SubSeq(bytes, j + 1, n) \in Seq(Bytes)
          /\ Len(SubSeq(bytes, j + 1, n)) = n - j
          /\ CutToRest(SubSeq(bytes, j + 1, n)) \in Seq(Bytes)
          /\ Len(CutToRest(SubSeq(bytes, j + 1, n))) <= dw.remain
          /\ \/ Len(CutToRest(SubSeq(bytes, j + 1, n))) = Len(SubSeq(bytes, j + 1, n))
             \/ /\ Len(CutToRest(SubSeq(bytes, j + 1, n))) = dw.remain
                /\ Len(SubSeq(bytes, j + 1, n)) > dw.remain
          /\ \A k \in 1 .. Len(CutToRest(SubSeq(bytes, j + 1, n))) :
                CutToRest(SubSeq(bytes, j + 1, n))[k] = bytes[j + k]
        BY <1>2, <1>4, RestResult
    <2>2. data = SubSeq(bytes, j + 1, n) /\ kept = CutToRest(SubSeq(bytes, j + 1, n))
        BY DEF Pass
    <2>3. Len(kept) \in Nat
        BY <2>1, <2>2, LenProperties
    <2> HIDE DEF j, n
    <2> QED
        BY <2>1, <2>2, <2>3
<1>6. /\ dw.signature \o sig \in Seq(Bytes) /\ Len(dw.signature \o sig) = g + j
      /\ \A k \in 1 .. g + j : (dw.signature \o sig)[k] =
             IF k <= g THEN dw.signature[k] ELSE sig[k - g]
    BY <1>1, <1>3, ConcatProperties
<1>7. /\ dw \in DRecord /\ dw.remain <= SlotLen /\ g <= SigLen
      /\ ~dw.started => size = 0 /\ (Image.kind = "OTA" => dw.signature = <<>>)
      /\ Image.kind = "OTA" /\ size > 0 => g = SigLen
      /\ SignatureArrived(file, Target, damaged, dw.signature)
      /\ buf \in Seq(Bytes) /\ Fits(file, damaged, Image, dw, buf, received)
    BY DEF Ready
<1>8. /\ d.i = dw.i /\ d.closed = dw.closed /\ d.otaSize = dw.otaSize
      /\ d.reuse = FALSE /\ d.buf = buf /\ d.received = received
      /\ d.started = (dw.started \/ received > off)
      /\ d.signature = dw.signature \o sig /\ d.remain = rem - Len(data)
      /\ d.size = size + w
    BY <1>7 DEF DRecord, Pass
<1> HIDE DEF g, j, off, size, rem, n, w
<1>0. /\ n \in Nat /\ j \in Nat /\ w \in Nat /\ j <= n /\ n <= Len(buf)
      /\ w <= rem /\ (w = n - j \/ (w = rem /\ n - j > rem))
      /\ Image.kind = "OTA" => g + j <= SigLen /\ (j < n => g + j = SigLen)
      /\ Image.kind = "RDP" => j = 0
      /\ Len(data) = n - j /\ d.remain = rem - (n - j) /\ d.size = size + w
      /\ Len(d.signature) = g + j
      /\ received <= off => n = 0
      /\ received > off \/ dw.started => received - n = off + Taken(Image.kind, dw)
    <2>1. bytes = <<>> => n = 0
        BY DEF n
    <2>2. sig = <<>> => j = 0
        BY DEF j
    <2> QED
        BY <1>2, <1>3, <1>5, <1>6, <1>8, <2>1, <2>2
<1>9. rem - Len(data) \in Int /\ size + w \in Nat
    BY <1>1, <1>2, <1>3, <1>5
<1>10. d \in DRecord
    <2>1. /\ dw.remain - Len(data) \in Int /\ dw.size + Len(kept) \in Nat
          /\ (dw.started \/ received > Image.off) \in BOOLEAN
        BY <1>1, <1>9 DEF rem, size, w
    <2>2. dw.signature \o sig \in Seq(Bytes) /\ buf \in Seq(Bytes) /\ received \in Nat
        BY <1>1, <1>6, <1>7
    <2>3. dw \in DRecord
        BY <1>7
    <2> DEFINE st == dw.started \/ received > Image.off
               sg == dw.signature \o sig
               re == dw.remain - Len(data)
               si == dw.size + Len(kept)
    <2>4. st \in BOOLEAN /\ sg \in Seq(Bytes) /\ re \in Int /\ si \in Nat
        BY <2>1, <2>2
    <2>5. d = [dw EXCEPT !.received = received, !.buf = buf, !.reuse = FALSE,
                         !.started = st, !.signature = sg, !.remain = re,
                         !.size = si]
        BY DEF Pass
    <2> HIDE DEF st, sg, re, si
    <2> QED
        BY <2>2, <2>3, <2>4, <2>5 DEF DRecord
<1>11. Len(d.signature) <= SigLen
    <2>1. CASE Image.kind = "OTA"
        BY <1>0, <2>1
    <2>2. CASE Image.kind = "RDP"
        BY <1>0, <1>1, <1>7, <2>2
    <2> QED
        BY <1>1, <2>1, <2>2
<1>12. d.remain <= SlotLen /\ d.size <= Image.len
    <2>1. rem <= SlotLen /\ SlotLen \in Int
        BY <1>7, Lengths DEF rem
    <2> QED
        BY <1>0, <1>1, <2>1
<1>13. Image.kind = "RDP" => d.signature = dw.signature /\ j = 0
    BY <1>0, <1>1, <1>3, <1>8, ConcatEmptySeq
<1>14. Image.kind = "OTA" /\ d.size > 0 => Len(d.signature) = SigLen
    <2> SUFFICES ASSUME Image.kind = "OTA", d.size > 0 PROVE g + j = SigLen
        BY <1>6, <1>8
    <2>1. CASE size > 0
        BY <1>1, <1>3, <1>7, <2>1
    <2>2. CASE ~(size > 0)
        <3>1. w > 0
            BY <1>1, <1>5, <1>8, <2>2
        <3> QED
            BY <1>1, <1>2, <1>3, <1>5, <3>1
    <2> QED
        BY <2>1, <2>2
<1>27. ~d.started => ~dw.started /\ received <= off
    <2>1. ~d.started => ~dw.started /\ ~(received > off)
        BY <1>8
    <2>2. ~(received > off) => received <= off
        BY <1>1
    <2> QED
        BY <2>1, <2>2
<1>15. ~d.started => n = 0
    BY <1>0, <1>1, <1>27
<1>16. ~d.started => d.size = 0 /\ (Image.kind = "OTA" => d.signature = <<>>)
    <2> SUFFICES ASSUME ~d.started
                 PROVE  d.size = 0 /\ (Image.kind = "OTA" => d.signature = <<>>)
        OBVIOUS
    <2>1. n = 0 /\ ~dw.started
        BY <1>8, <1>15
    <2>2. j = 0 /\ w = 0
        BY <1>1, <1>3, <1>5, <2>1
    <2>3. d.size = 0
        BY <1>1, <1>7, <1>8, <2>1, <2>2
    <2>4. Image.kind = "OTA" => g = 0 /\ Len(d.signature) = 0
        <3>1. Image.kind = "OTA" => g = 0
            BY <1>7, <2>1 DEF g
        <3> QED
            BY <1>0, <2>2, <3>1
    <2> QED
        BY <1>6, <1>8, <2>3, <2>4, EmptySeq
<1>17. Taken(Image.kind, d) = size + w + IF Image.kind = "OTA" THEN g + j ELSE 0
    BY <1>6, <1>8 DEF Taken
<1>18. Taken(Image.kind, dw) = size + IF Image.kind = "OTA" THEN g ELSE 0
    BY DEF Taken, size, g
<1>19. d.remain > 0 => d.size + d.remain = Image.len /\ w = n - j
    BY SMTT(30), <1>0, <1>1
<1>20. d.remain > 0 => Standing(file, damaged, Image, d)
    <2> SUFFICES ASSUME d.remain > 0
                 PROVE  IF d.started THEN received = off + Taken(Image.kind, d)
                        ELSE received <= off
        BY <1>8 DEF Standing, off
    <2>1. CASE d.started
        <3>1. received - n = off + Taken(Image.kind, dw)
            BY <1>0, <1>8, <2>1
        <3>2. CASE Image.kind = "OTA"
            BY <1>0, <1>1, <1>17, <1>18, <1>19, <2>1, <3>1, <3>2
        <3>3. CASE Image.kind = "RDP"
            BY <1>0, <1>1, <1>17, <1>18, <1>19, <2>1, <3>1, <3>3
        <3> QED
            BY <1>1, <3>2, <3>3
    <2>2. CASE ~d.started
        <3>1. received <= off
            BY <1>27, <2>2
        <3> QED
            BY <2>2, <3>1
    <2> QED
        BY <2>1, <2>2
<1>21. ~(d.remain > 0) =>
          /\ d.size = Image.len
          /\ received - Len(buf) <= End(Image)
          /\ \A k \in 1 .. Len(buf) :
                buf[k] = Sent(file, damaged, received - Len(buf) + k - 1)
    <2> SUFFICES ASSUME ~(d.remain > 0)
                 PROVE  /\ d.size = Image.len
                        /\ received - Len(buf) <= End(Image)
                        /\ \A k \in 1 .. Len(buf) :
                              buf[k] = Sent(file, damaged, received - Len(buf) + k - 1)
        OBVIOUS
    <2>1. w = rem /\ n > 0
        BY <1>0, <1>1
    <2>2. received > off
        BY <1>0, <1>1, <2>1
    <2>3. \A k \in 1 .. Len(buf) :
              buf[k] = Sent(file, damaged, received - Len(buf) + k - 1)
        BY <1>7, <2>2 DEF Fits, off
    <2>4. End(Image) = off + Image.len + IF Image.kind = "OTA" THEN SigLen ELSE 0
        BY DEF End, off
    <2>5. Taken(Image.kind, dw) <= Image.len + IF Image.kind = "OTA" THEN SigLen ELSE 0
        BY <1>1, <1>7, <1>18
    <2>6. received - Len(buf) <= off + Taken(Image.kind, dw)
        BY <1>1, <1>2, <1>18, <2>2
    <2>7. received - Len(buf) <= End(Image)
        <3>1. CASE Image.kind = "OTA"
            BY <1>1, <1>18, <2>4, <2>5, <2>6, <3>1
        <3>2. CASE Image.kind = "RDP"
            BY <1>1, <1>18, <2>4, <2>5, <2>6, <3>2
        <3> QED
            BY <1>1, <3>1, <3>2
    <2> QED
        BY <1>1, <1>8, <2>1, <2>3, <2>7
<1>22. Image.kind = "RDP" =>
          \A k \in 1 .. w : kept[k] = Sent(file, damaged, off + size + k - 1)
    <2> SUFFICES ASSUME Image.kind = "RDP", NEW k \in 1 .. w
                 PROVE  kept[k] = Sent(file, damaged, off + size + k - 1)
        OBVIOUS
    <2>1. j = 0 /\ k \in 1 .. n /\ j + k = k /\ Taken(Image.kind, dw) = size
        BY <1>1, <1>2, <1>5, <1>13, <1>18
    <2> QED
        BY <1>2, <1>5, <2>1
<1>23. Image.kind = "OTA" =>
          \A k \in 1 .. w : kept[k] = Sent(file, damaged, off + SigLen + size + k - 1)
    <2> SUFFICES ASSUME Image.kind = "OTA", NEW k \in 1 .. w
                 PROVE  kept[k] = Sent(file, damaged, off + SigLen + size + k - 1)
        OBVIOUS
    <2>1. j < n /\ j + k \in 1 .. n
        BY <1>0, <1>1
    <2>2. off + Taken(Image.kind, dw) + (j + k) - 1 = off + SigLen + size + k - 1
        <3>1. g + j = SigLen /\ k \in Nat
            BY <1>0, <2>1
        <3> QED
            BY SMTT(30), <1>0, <1>1, <1>18, <3>1
    <2> QED
        BY <1>2, <1>5, <2>1, <2>2
<1>24. SignatureArrived(file, Target, damaged, d.signature)
    <2>1. CASE Image.kind = "RDP"
        BY <1>7, <1>13, <2>1
    <2>2. CASE Image.kind = "OTA"
        <3> SUFFICES ASSUME NEW k \in 1 .. g + j
                     PROVE  (dw.signature \o sig)[k] =
                                Sent(file, damaged, file.ota[Target] + k - 1)
            BY <1>6, <1>8 DEF SignatureArrived
        <3>1. CASE k <= g
            BY <1>1, <1>6, <1>7, <3>1 DEF SignatureArrived, g
        <3>2. CASE k > g
            <4>1. k - g \in 1 .. j /\ k - g \in 1 .. n /\ g < SigLen
                BY <1>1, <1>2, <1>3, <2>2, <3>2
            <4>2. size = 0
                BY <1>1, <1>7, <2>2, <4>1
            <4>3. off = file.ota[Target]
                BY <2>2, ReadyNumbers, InfoFacts, PlanIs DEF Ready, off
            <4>4. off + Taken(Image.kind, dw) + (k - g) - 1 = file.ota[Target] + k - 1
                BY <1>1, <1>18, <2>2, <4>2, <4>3
            <4>5. (dw.signature \o sig)[k] = sig[k - g]
                BY <1>1, <1>6, <3>2
            <4> QED
                <5>1. sig[k - g] = bytes[k - g]
                    BY <1>3, <4>1
                <5>2. bytes[k - g] =
                          Sent(file, damaged, off + Taken(Image.kind, dw) + (k - g) - 1)
                    BY <1>2, <4>1
                <5> QED
                    BY <4>4, <4>5, <5>1, <5>2
        <3>3. k <= g \/ k > g
            BY <1>0, <1>1
        <3> QED
            BY <3>1, <3>2, <3>3
    <2> QED
        BY <1>1, <2>1, <2>2
<1>25. Arrived(d, kept)
    BY <1>22, <1>23, <1>24 DEF Arrived, w, size, off
<1>26. d.size = dw.size + Len(kept)
    BY <1>8 DEF size, w
<1> QED
    BY <1>5, <1>8, <1>26, <1>10, <1>11, <1>12, <1>13, <1>14, <1>16, <1>19, <1>20, <1>21, <1>25
       DEF PassOf

-----------------------------------------------------------------------------
(* What the pass writes, and the end of an image.                          *)

LEMMA WriteOta ==
    ASSUME NEW f \in Files, NEW t \in OTA_INDEX, NEW m,
           NEW cells \in [Cells -> Bytes], NEW size \in Nat, NEW kept \in Seq(Bytes),
           size + Len(kept) <= f.len - SigLen,
           OtaInPlace(f, t, m, cells, size), OtaBlank(f, cells, size),
           SignatureBlank(cells, 0),
           \A k \in 1 .. Len(kept) :
               kept[k] = Sent(f, m, f.ota[t] + SigLen + size + k - 1),
           NEW to, to = Program(cells, SigLen + size, kept)
    PROVE  /\ to \in [Cells -> Bytes]
           /\ OtaInPlace(f, t, m, to, size + Len(kept))
           /\ OtaBlank(f, to, size + Len(kept)) /\ SignatureBlank(to, 0)
<1> DEFINE w == Len(kept)
           from == SigLen + size
<1>1. /\ w \in Nat /\ SigLen \in Nat /\ f.len \in Nat /\ f.len <= SlotLen
      /\ SlotLen \in Nat /\ from \in Nat /\ from + w <= f.len /\ f.ota[t] \in Nat
    <2>1. w \in Nat /\ from \in Nat
        BY Lengths, LenProperties
    <2>2. f.len \in Nat /\ f.len <= SlotLen /\ f.ota[t] \in Nat
        BY FileFacts
    <2>3. SigLen \in Nat /\ SlotLen \in Nat
        BY Lengths
    <2>4. from + w <= f.len
        <3>1. size + w <= f.len - SigLen
            OBVIOUS
        <3> HIDE DEF w
        <3> QED
            BY <2>1, <2>2, <2>3, <3>1
    <2> QED
        BY <2>1, <2>2, <2>3, <2>4
<1>2. \A k \in from .. from + w - 1 : cells[k] = Erased
    BY SMTT(30), <1>1 DEF OtaBlank
<1>3. /\ to \in [Cells -> Bytes]
      /\ \A k \in Cells : to[k] = IF k \in from .. from + w - 1
                                  THEN kept[k - from + 1] ELSE cells[k]
    <2>1. cells \in [0 .. SlotLen - 1 -> Bytes] /\ SlotLen \in Int
        BY <1>1 DEF Cells
    <2> HIDE DEF w, from
    <2>2. /\ Program(cells, from, kept) \in [0 .. SlotLen - 1 -> Bytes]
          /\ \A k \in 0 .. SlotLen - 1 : Program(cells, from, kept)[k] =
                IF k \in from .. from + Len(kept) - 1
                THEN kept[k - from + 1] ELSE cells[k]
        BY <1>1, <1>2, <2>1, ProgramBlank DEF w
    <2>3. to = Program(cells, from, kept)
        BY DEF from
    <2> QED
        BY <2>2, <2>3 DEF Cells, w
<1>7. from = SigLen + size /\ from + w = SigLen + (size + w) /\ size \in Nat
    BY <1>1
<1> HIDE DEF w, from
<1>4. ASSUME NEW k \in SigLen .. SigLen + (size + w) - 1
      PROVE  to[k] = Sent(f, m, f.ota[t] + k)
    <2>1. k \in Cells /\ k \in Int /\ k <= from + w - 1 /\ SigLen <= k
        <3>1. k \in Int /\ SigLen <= k /\ k <= SigLen + (size + w) - 1
            BY <1>1, <1>7
        <3>2. k <= SlotLen - 1 /\ 0 <= k /\ k <= from + w - 1
            BY <1>1, <1>7, <3>1
        <3> QED
            BY <1>1, <3>1, <3>2 DEF Cells
    <2>2. CASE k < from
        BY <1>1, <1>3, <1>7, <2>1, <2>2 DEF OtaInPlace
    <2>3. CASE k >= from
        <3>3. from \in Int /\ w \in Int
            BY <1>1
        <3>1. k - from + 1 \in 1 .. w /\ k \in from .. from + w - 1
            BY <2>1, <2>3, <3>3
        <3>2. f.ota[t] + SigLen + size + (k - from + 1) - 1 = f.ota[t] + k
            BY SMTT(30), <1>1, <1>7
        <3> QED
            BY <1>3, <2>1, <3>1, <3>2 DEF w
    <2> QED
        BY <1>1, <2>2, <2>3
<1>5. ASSUME NEW k \in SigLen + (size + w) .. f.len - 1
      PROVE  to[k] = Erased
    <2>1. k \in Cells /\ k \in SigLen + size .. f.len - 1 /\ k \notin from .. from + w - 1
        BY <1>1, <1>7 DEF Cells
    <2> QED
        BY <1>3, <2>1 DEF OtaBlank
<1>6. ASSUME NEW k \in 0 .. SigLen - 1
      PROVE  to[k] = Erased
    <2>1. k \in Cells /\ k \notin from .. from + w - 1
        BY <1>1, <1>7 DEF Cells
    <2> QED
        BY <1>3, <2>1 DEF SignatureBlank
<1> QED
    BY <1>3, <1>4, <1>5, <1>6 DEF OtaInPlace, OtaBlank, SignatureBlank, w

LEMMA WriteRdp ==
    ASSUME NEW f \in Files, NEW m,
           NEW r \in [RdpCells -> Bytes], NEW size \in Nat, NEW kept \in Seq(Bytes),
           size + Len(kept) <= f.rdpLen,
           RdpInPlace(f, m, r, size), RdpBlank(f, r, size),
           \A k \in 1 .. Len(kept) : kept[k] = Sent(f, m, f.rdp + size + k - 1),
           NEW to, to = Program(r, size, kept)
    PROVE  /\ to \in [RdpCells -> Bytes]
           /\ RdpInPlace(f, m, to, size + Len(kept))
           /\ RdpBlank(f, to, size + Len(kept))
<1> DEFINE w == Len(kept)
<1>1. /\ w \in Nat /\ f.rdpLen \in Nat /\ f.rdpLen <= SectorLen
      /\ SectorLen \in Nat /\ size + w <= f.rdpLen /\ f.rdp \in Nat
    <2>1. w \in Nat /\ size + w <= f.rdpLen
        BY LenProperties
    <2>2. f.rdpLen \in Nat /\ f.rdpLen <= SectorLen /\ f.rdp \in Nat
        BY FileFacts
    <2>3. SectorLen \in Nat
        BY Lengths
    <2> QED
        BY <2>1, <2>2, <2>3
<1>2. \A k \in size .. size + w - 1 : r[k] = Erased
    BY <1>1 DEF RdpBlank
<1>3. /\ to \in [RdpCells -> Bytes]
      /\ \A k \in RdpCells : to[k] = IF k \in size .. size + w - 1
                                     THEN kept[k - size + 1] ELSE r[k]
    BY SMTT(30), <1>1, <1>2, ProgramBlank DEF RdpCells
<1> HIDE DEF w
<1>4. ASSUME NEW k \in 0 .. (size + w) - 1
      PROVE  to[k] = Sent(f, m, f.rdp + k)
    <2>1. k \in RdpCells
        BY <1>1 DEF RdpCells
    <2>2. CASE k < size
        BY <1>1, <1>3, <2>1, <2>2 DEF RdpInPlace
    <2>3. CASE k >= size
        <3>1. k - size + 1 \in 1 .. w /\ k \in size .. size + w - 1
            BY <1>1, <2>3
        <3>2. f.rdp + size + (k - size + 1) - 1 = f.rdp + k
            BY <1>1
        <3> QED
            BY <1>3, <2>1, <3>1, <3>2 DEF w
    <2> QED
        BY <1>1, <2>2, <2>3
<1>5. ASSUME NEW k \in size + w .. f.rdpLen - 1
      PROVE  to[k] = Erased
    <2>1. k \in RdpCells /\ k \in size .. f.rdpLen - 1 /\ k \notin size .. size + w - 1
        BY <1>1 DEF RdpCells
    <2> QED
        BY <1>3, <2>1 DEF RdpBlank
<1> QED
    BY <1>3, <1>4, <1>5 DEF RdpInPlace, RdpBlank, w

\* Image dw.i is done with, whole or cut off by the server; the next one begins
\* behind the packet's first byte.
Done(d, cells, r) ==
    /\ file \in Files /\ Target \in OTA_INDEX
    /\ d.i \in 1 .. Len(Info(file, Target)) /\ d.i = dw.i
    /\ DType(d) /\ d.size <= Image.len /\ (d.size = Image.len \/ d.closed)
    /\ d.received - Len(d.buf) <= End(Image)
    /\ d.received > End(Image) =>
          \A k \in 1 .. Len(d.buf) :
              d.buf[k] = Sent(file, damaged, d.received - Len(d.buf) + k - 1)
    /\ SignatureBlank(cells, 0) /\ SignatureArrived(file, Target, damaged, d.signature)
    /\ Image.kind = "OTA" => CopyingOta(file, Target, damaged, d, cells, r)
    /\ Image.kind = "RDP" => CopyingRdp(file, Target, damaged, d, cells, r)

\* The RDP image is done with.
LEMMA RdpDone ==
    ASSUME NEW d, NEW cells, NEW r, Done(d, cells, r), Image.kind = "RDP",
           Image.len = file.rdpLen
    PROVE  RdpCopied(file, damaged, d, r)
<1>1. RdpInPlace(file, damaged, r, d.size) /\ RdpBlank(file, r, d.size)
    BY DEF Done, CopyingRdp
<1>2. d.size \in 0 .. file.rdpLen /\ (~d.closed => d.size = file.rdpLen)
    <2>1. d.size \in Nat /\ d.size <= file.rdpLen
        BY DEF Done, DType, DRecord
    <2>2. file.rdpLen \in Nat
        BY FileFacts DEF Done
    <2> QED
        BY <2>1, <2>2 DEF Done
<1> QED
    BY <1>1, <1>2 DEF RdpCopied

\* The task goes on with d2, or is through with everything.
GoesOn(d2, cells, r) ==
    /\ DType(d2)
    /\ Copying(file, Target, damaged, d2, cells, r)

NextImage(d, ota) ==
    [d EXCEPT !.i = @ + 1, !.size = 0, !.otaSize = ota, !.started = FALSE,
              !.reuse = TRUE, !.remain = DownloadInfo[dw.i + 1].len]

LEMMA NextImageGoesOn ==
    ASSUME NEW d, NEW cells, NEW r, Done(d, cells, r), dw.i < Len(DownloadInfo),
           NEW d2,
           d2 = NextImage(d, IF Image.kind = "OTA" THEN d.size ELSE d.otaSize)
    PROVE  GoesOn(d2, cells, r)
<1> DEFINE info == Info(file, Target)
           two == info[2]
<1>1. /\ file \in Files /\ Target \in OTA_INDEX /\ dw.i \in 1 .. Len(info)
      /\ d.i = dw.i /\ dw.i < Len(info) /\ DownloadInfo = info /\ Image = info[dw.i]
    BY PlanIs DEF Done
<1>2. Len(info) = 2 /\ dw.i = 1
    BY <1>1, InfoFacts
<1>3. 2 \in 1 .. Len(info) /\ 1 \in 1 .. Len(info)
    BY <1>2
<1>4. /\ two.off \in Nat /\ two.len \in Nat /\ two.len > 0 /\ two.len <= SlotLen
      /\ End(Image) <= two.off
      /\ \/ Image.kind = "OTA" /\ two.kind = "RDP"
         \/ Image.kind = "RDP" /\ two.kind = "OTA"
    BY <1>1, <1>2, <1>3, InfoFacts
<1>5. Image.kind = "RDP" => Image.len = file.rdpLen
    BY SMTT(30), <1>1, <1>2, <1>3, InfoFacts
<1>14. End(Image) \in Int
    <2>1. Image.off \in Nat /\ Image.len \in Nat
        BY <1>1, <1>2, <1>3, InfoFacts
    <2> QED
        BY <2>1, Lengths DEF End
<1>6. /\ d \in DRecord /\ d.size \in Nat /\ d.otaSize \in Int /\ d.received \in Nat
      /\ d.buf \in Seq(Bytes) /\ Len(d.buf) \in Nat /\ Len(d.signature) \in Nat
      /\ Len(d.buf) <= BUF_SIZE /\ Len(d.signature) <= SigLen
    BY LenProperties DEF Done, DType, DRecord
<1> HIDE DEF info, two
<1>7. /\ d2.i = 2 /\ d2.size = 0 /\ d2.started = FALSE /\ d2.reuse = TRUE
      /\ d2.otaSize = (IF Image.kind = "OTA" THEN d.size ELSE d.otaSize)
      /\ d2.remain = two.len /\ d2.closed = d.closed /\ d2.received = d.received
      /\ d2.buf = d.buf /\ d2.signature = d.signature
    BY <1>1, <1>2, <1>6 DEF DRecord, NextImage, two
<1>8. d2 \in DRecord
    <2> DEFINE ota == IF Image.kind = "OTA" THEN d.size ELSE d.otaSize
    <2>1. ota \in Int /\ d.i + 1 \in 1 .. 2 /\ DownloadInfo[dw.i + 1].len \in Int
        BY <1>1, <1>2, <1>4, <1>6 DEF two
    <2>2. d2 = NextImage(d, ota)
        OBVIOUS
    <2> DEFINE i2 == d.i + 1
               rm == DownloadInfo[dw.i + 1].len
    <2>3. d2 = [d EXCEPT !.i = i2, !.size = 0, !.otaSize = ota, !.started = FALSE,
                         !.reuse = TRUE, !.remain = rm]
        BY <2>2 DEF NextImage
    <2>4. ota \in Int /\ i2 \in 1 .. 2 /\ rm \in Int /\ 0 \in Nat
        BY <2>1
    <2> HIDE DEF ota, i2, rm
    <2> QED
        BY <1>6, <2>3, <2>4 DEF DRecord
<1>9. DType(d2)
    BY <1>4, <1>6, <1>7, <1>8 DEF DType
<1>10. Standing(file, damaged, two, d2)
    <2>1. d.received - Len(d.buf) <= two.off
        <3>1. d.received - Len(d.buf) <= End(Image)
            BY DEF Done
        <3> QED
            BY <1>4, <1>6, <1>14, <3>1
    <2>2. d.received > two.off =>
             \A k \in 1 .. Len(d.buf) :
                 d.buf[k] = Sent(file, damaged, d.received - Len(d.buf) + k - 1)
        <3>1. d.received > two.off => d.received > End(Image)
            BY <1>4, <1>6, <1>14
        <3> QED
            BY <3>1 DEF Done
    <2> QED
        BY <1>7, <2>1, <2>2 DEF Standing, Fits
<1>11. SignatureBlank(cells, 0) /\ SignatureArrived(file, Target, damaged, d2.signature)
    BY <1>7 DEF Done
<1>12. CASE Image.kind = "OTA"
    <2>1. CopyingOta(file, Target, damaged, d, cells, r)
        BY <1>12 DEF Done
    <2>2. RdpBlank(file, r, 0)
        BY <1>1, <1>2, <2>1 DEF CopyingOta
    <2>3. RdpInPlace(file, damaged, r, 0)
        BY DEF RdpInPlace
    <2>4. d2.otaSize = d.size
        BY <1>7, <1>12
    <2>5. CopyingRdp(file, Target, damaged, d2, cells, r)
        BY <1>6, <1>7, <2>1, <2>2, <2>3, <2>4 DEF CopyingRdp, CopyingOta
    <2>6. two.kind = "RDP"
        BY <1>4, <1>12
    <2> QED
        BY <1>2, <1>4, <1>7, <1>9, <1>10, <1>11, <2>5, <2>6
           DEF GoesOn, Copying, info, two
<1>13. CASE Image.kind = "RDP"
    <2>1. CopyingRdp(file, Target, damaged, d, cells, r)
        BY <1>13 DEF Done
    <2>2. d.signature = <<>> /\ OtaBlank(file, cells, 0)
        BY <1>1, <1>2, <2>1 DEF CopyingRdp
    <2>3. OtaInPlace(file, Target, damaged, cells, 0)
        BY Lengths DEF OtaInPlace
    <2>4. RdpCopied(file, damaged, d2, r)
        BY <1>5, <1>7, <1>13, RdpDone DEF RdpCopied
    <2>5. CopyingOta(file, Target, damaged, d2, cells, r)
        BY <1>7, <2>2, <2>3, <2>4 DEF CopyingOta
    <2>6. two.kind = "OTA"
        BY <1>4, <1>13
    <2> QED
        BY <1>2, <1>4, <1>7, <1>9, <1>10, <1>11, <2>5, <2>6
           DEF GoesOn, Copying, info, two
<1> QED
    BY <1>4, <1>12, <1>13

\* With the length of the OTA image right, everything has been copied.
LEMMA LastImageCopied ==
    ASSUME NEW d, NEW cells, NEW r, Done(d, cells, r), ~(dw.i < Len(DownloadInfo)),
           NEW ota, ota = IF Image.kind = "OTA" THEN d.size ELSE d.otaSize,
           ota = file.len - SigLen,
           NEW d2, d2 = [d EXCEPT !.otaSize = ota]
    PROVE  DType(d2) /\ Copied(file, Target, damaged, d2, cells, r)
<1> DEFINE info == Info(file, Target)
<1>1. /\ file \in Files /\ Target \in OTA_INDEX /\ dw.i \in 1 .. Len(info)
      /\ d.i = dw.i /\ ~(dw.i < Len(info)) /\ DownloadInfo = info
      /\ Image = info[dw.i]
    BY PlanIs DEF Done
<1>2. dw.i = Len(info) /\ Len(info) \in {1, 2}
    BY <1>1, InfoFacts
<1>3. /\ Image.kind = "RDP" => Image.len = file.rdpLen
      /\ Image.kind \in {"OTA", "RDP"}
      /\ Len(info) = 1 => file.rdpLen = 0 /\ Image.kind = "OTA"
    BY <1>1, InfoFacts
<1>4. /\ d \in DRecord /\ d.size \in Nat /\ d.otaSize \in Int
      /\ file.len - SigLen \in Nat /\ file.len - SigLen > 0
    <2>1. d \in DRecord /\ d.size \in Nat /\ d.otaSize \in Int
        BY DEF Done, DType, DRecord
    <2>2. file.len - SigLen \in Nat /\ file.len - SigLen > 0
        BY <1>1, FileFacts, Lengths
    <2> QED
        BY <2>1, <2>2
<1>5. ota \in Int /\ ota > 0
    BY <1>4
<1>6. /\ d2 \in DRecord /\ d2.closed = d.closed /\ d2.signature = d.signature
      /\ d2.buf = d.buf /\ d2.remain = d.remain
    BY <1>4, <1>5 DEF DRecord
<1>7. DType(d2)
    BY <1>6 DEF DType, Done
<1> HIDE DEF info
<1>8. OtaInPlace(file, Target, damaged, cells, ota) /\ Len(d.signature) = SigLen
    <2>1. CASE Image.kind = "OTA"
        BY <1>5, <2>1 DEF Done, CopyingOta
    <2>2. CASE Image.kind = "RDP"
        <3>1. d.i = 2
            BY <1>1, <1>2, <1>3, <2>2
        <3> QED
            BY <1>5, <2>2, <3>1 DEF Done, CopyingRdp
    <2> QED
        BY <1>3, <2>1, <2>2
<1>9. RdpCopied(file, damaged, d, r)
    <2>1. CASE Image.kind = "OTA"
        <3>1. CASE Len(info) = 1
            <4>1. file.rdpLen = 0
                BY <1>3, <3>1
            <4>2. RdpInPlace(file, damaged, r, 0) /\ RdpBlank(file, r, 0)
                BY <4>1 DEF RdpInPlace, RdpBlank
            <4>3. 0 \in 0 .. file.rdpLen
                BY <4>1
            <4> QED
                BY <4>1, <4>2, <4>3 DEF RdpCopied
        <3>2. CASE Len(info) = 2
            BY <1>1, <1>2, <2>1, <3>2 DEF Done, CopyingOta
        <3> QED
            BY <1>2, <3>1, <3>2
    <2>2. CASE Image.kind = "RDP"
        BY <1>3, <2>2, RdpDone
    <2> QED
        BY <1>3, <2>1, <2>2
<1>10. SignatureArrived(file, Target, damaged, d2.signature)
    BY <1>6 DEF Done
<1>11. RdpCopied(file, damaged, d2, r)
    BY <1>6, <1>9 DEF RdpCopied
<1>12. d2.otaSize = file.len - SigLen
    BY <1>4, <1>5 DEF DRecord
<1> QED
    BY <1>6, <1>7, <1>8, <1>10, <1>11, <1>12 DEF Copied

-----------------------------------------------------------------------------
(* The actions.                                                            *)

LEMMA TargetIs ==
    ASSUME cur \in OTA_INDEX
    PROVE  Target \in OTA_INDEX /\ Target # cur /\ Target = 3 - cur
  BY DEF Target, OTA_INDEX

\* What Copying says of the images apart from where the stream stands.
LEMMA CopyingReady ==
    ASSUME Types, file \in Files,
           Copying(file, Target, damaged, dw, slot[Target], rdp),
           NEW buf \in Seq(Bytes), NEW received \in Nat,
           Fits(file, damaged, Image, dw, buf, received)
    PROVE  Ready(buf, received)
<1>1. Target \in OTA_INDEX /\ damaged \in Int /\ DType(dw)
    BY TargetIs DEF Types
<1>2. Image = Info(file, Target)[dw.i]
    BY PlanIs
<1>3. /\ ~dw.started => dw.size = 0
      /\ Image.kind = "OTA" => /\ ~dw.started => dw.signature = <<>>
                               /\ dw.size > 0 => Len(dw.signature) = SigLen
    BY <1>2 DEF Copying, CopyingOta
<1> QED
    BY <1>1, <1>2, <1>3 DEF Copying, Ready, DType

\* The cells after the pass, and the variables that go with them.
LEMMA PassWrites ==
    ASSUME Types, file \in Files, NEW buf, NEW received, Ready(buf, received),
           Copying(file, Target, damaged, dw, slot[Target], rdp),
           NEW d, NEW kept, PassOf(buf, received, d, kept), Arrived(d, kept),
           NEW cells, NEW r,
           \/ Image.kind = "OTA" /\ cells = Program(slot[Target], SigLen + dw.size, kept)
                /\ r = rdp
           \/ Image.kind = "RDP" /\ cells = slot[Target]
                /\ r = Program(rdp, dw.size, kept)
    PROVE  /\ cells \in [Cells -> Bytes] /\ r \in [RdpCells -> Bytes]
           /\ SignatureBlank(cells, 0)
           /\ Image.kind = "OTA" => CopyingOta(file, Target, damaged, d, cells, r)
           /\ Image.kind = "RDP" => CopyingRdp(file, Target, damaged, d, cells, r)
<1>1. /\ Target \in OTA_INDEX /\ slot[Target] \in [Cells -> Bytes]
      /\ rdp \in [RdpCells -> Bytes] /\ Image = Info(file, Target)[dw.i]
    BY TargetIs, PlanIs DEF Types
<1>2. /\ dw.i \in 1 .. Len(Info(file, Target)) /\ dw.size \in Nat
      /\ Image.kind \in {"OTA", "RDP"}
    BY ReadyNumbers
<1>3. /\ Image.kind = "OTA" => Image.len = file.len - SigLen
                                /\ Image.off = file.ota[Target]
      /\ Image.kind = "RDP" => Image.len = file.rdpLen /\ Image.off = file.rdp
    BY <1>1, <1>2, InfoFacts
<1>4. /\ kept \in Seq(Bytes) /\ d.size = dw.size + Len(kept) /\ d.size <= Image.len
      /\ d.i = dw.i /\ d.closed = dw.closed /\ d.otaSize = dw.otaSize
      /\ Image.kind = "RDP" => d.signature = dw.signature
      /\ Image.kind = "OTA" =>
            /\ d.size > 0 => Len(d.signature) = SigLen
            /\ ~d.started => d.signature = <<>>
    BY DEF PassOf
<1>5. SignatureBlank(slot[Target], 0)
    BY DEF Copying
<1>6. CASE Image.kind = "OTA"
    <2>1. CopyingOta(file, Target, damaged, dw, slot[Target], rdp)
        BY <1>1, <1>6 DEF Copying
    <2>2. cells = Program(slot[Target], SigLen + dw.size, kept) /\ r = rdp
        BY <1>6
    <2>3. dw.size + Len(kept) <= file.len - SigLen
        BY <1>3, <1>4, <1>6
    <2>4. \A k \in 1 .. Len(kept) :
              kept[k] = Sent(file, damaged, file.ota[Target] + SigLen + dw.size + k - 1)
        BY <1>3, <1>6 DEF Arrived
    <2>5. /\ OtaInPlace(file, Target, damaged, slot[Target], dw.size)
          /\ OtaBlank(file, slot[Target], dw.size)
        BY <2>1 DEF CopyingOta
    <2>6. /\ cells \in [Cells -> Bytes]
          /\ OtaInPlace(file, Target, damaged, cells, d.size)
          /\ OtaBlank(file, cells, d.size) /\ SignatureBlank(cells, 0)
        <3>1. /\ cells \in [Cells -> Bytes]
              /\ OtaInPlace(file, Target, damaged, cells, dw.size + Len(kept))
              /\ OtaBlank(file, cells, dw.size + Len(kept))
              /\ SignatureBlank(cells, 0)
            <4> DEFINE c == slot[Target]
                       n == dw.size
            <4>1. /\ kept \in Seq(Bytes) /\ n \in Nat /\ c \in [Cells -> Bytes]
                  /\ n + Len(kept) <= file.len - SigLen /\ SignatureBlank(c, 0)
                  /\ OtaInPlace(file, Target, damaged, c, n) /\ OtaBlank(file, c, n)
                  /\ Target \in OTA_INDEX
                BY <1>1, <1>2, <1>4, <1>5, <2>3, <2>5
            <4>2. \A k \in 1 .. Len(kept) :
                      kept[k] = Sent(file, damaged, file.ota[Target] + SigLen + n + k - 1)
                BY <2>4
            <4>3. cells = Program(c, SigLen + n, kept)
                BY <2>2
            <4> HIDE DEF c, n
            <4>4. /\ cells \in [Cells -> Bytes]
                  /\ OtaInPlace(file, Target, damaged, cells, n + Len(kept))
                  /\ OtaBlank(file, cells, n + Len(kept)) /\ SignatureBlank(cells, 0)
                BY <4>1, <4>2, <4>3, WriteOta
            <4> QED
                BY <4>4 DEF n
        <3>2. d.size = dw.size + Len(kept)
            BY <1>4
        <3> QED
            BY <3>1, <3>2
    <2>7. CopyingOta(file, Target, damaged, d, cells, r)
        BY <1>4, <1>6, <2>1, <2>2, <2>6 DEF CopyingOta, RdpCopied
    <2> QED
        BY <1>1, <1>6, <2>2, <2>6, <2>7
<1>7. CASE Image.kind = "RDP"
    <2>1. CopyingRdp(file, Target, damaged, dw, slot[Target], rdp)
        BY <1>1, <1>7 DEF Copying
    <2>2. cells = slot[Target] /\ r = Program(rdp, dw.size, kept)
        BY <1>7
    <2>3. dw.size + Len(kept) <= file.rdpLen
        BY <1>3, <1>4, <1>7
    <2>4. \A k \in 1 .. Len(kept) :
              kept[k] = Sent(file, damaged, file.rdp + dw.size + k - 1)
        BY <1>3, <1>7 DEF Arrived
    <2>5. RdpInPlace(file, damaged, rdp, dw.size) /\ RdpBlank(file, rdp, dw.size)
        BY <2>1 DEF CopyingRdp
    <2>6. /\ r \in [RdpCells -> Bytes]
          /\ RdpInPlace(file, damaged, r, d.size) /\ RdpBlank(file, r, d.size)
        BY <1>1, <1>2, <1>4, <2>2, <2>3, <2>4, <2>5, WriteRdp
    <2>7. CopyingRdp(file, Target, damaged, d, cells, r)
        BY <1>4, <1>7, <2>1, <2>2, <2>6 DEF CopyingRdp
    <2> QED
        BY <1>1, <1>5, <1>7, <2>2, <2>6, <2>7
<1> QED
    BY <1>2, <1>6, <1>7

\* The slots after a write to one of them.
LEMMA SlotWritten ==
    ASSUME slot \in [OTA_INDEX -> [Cells -> Bytes]], NEW t \in OTA_INDEX,
           NEW cells \in [Cells -> Bytes], slot' = [slot EXCEPT ![t] = cells]
    PROVE  slot' \in [OTA_INDEX -> [Cells -> Bytes]] /\ slot'[t] = cells
  OBVIOUS

\* The task ends, or the power is lost.
LEMMA IdleInv ==
    ASSUME pc' = "idle", file' = NoFile, damaged' = -1, step' = 0,
           dw' = NoDownload, slot' \in [OTA_INDEX -> [Cells -> Bytes]],
           rdp' \in [RdpCells -> Bytes], ota2Set' \in BOOLEAN,
           boot' \in OTA_INDEX, cur' \in OTA_INDEX
    PROVE  Inv'
<1>1. NoDownload \in DRecord
    <2>1. <<>> \in Seq(Bytes)
        BY EmptySeq
    <2> QED
        BY <2>1 DEF NoDownload, DRecord
<1>2. DType(NoDownload)
    BY <1>1, BufAssumption, Lengths DEF DType, NoDownload
<1>3. Types'
    BY <1>2 DEF Types
<1>4. Places'
    BY DEF Places
<1> QED
    BY <1>3, <1>4 DEF Inv

\* The download goes on, or everything has been copied.
LEMMA OnwardInv ==
    ASSUME Types, file \in Files, NEW cells \in [Cells -> Bytes],
           slot' = [slot EXCEPT ![Target] = cells], rdp' \in [RdpCells -> Bytes],
           UNCHANGED <<ota2Set, boot, cur, file, damaged, step>>, DType(dw'),
           \/ /\ pc' = "download"
              /\ Copying(file, Target, damaged, dw', cells, rdp')
           \/ /\ pc' = "verify" /\ SignatureBlank(cells, 0)
              /\ Copied(file, Target, damaged, dw', cells, rdp')
    PROVE  Inv'
<1>1. Target \in OTA_INDEX /\ Target' = Target
    BY TargetIs DEF Types, Target
<1>2. slot' \in [OTA_INDEX -> [Cells -> Bytes]] /\ slot'[Target] = cells
    BY <1>1, SlotWritten DEF Types
<1>3. slot'[Target'] = cells
    BY <1>1, <1>2
<1>4. Types'
    BY <1>2 DEF Types
<1>5. Places'
    BY <1>1, <1>3 DEF Places
<1> QED
    BY <1>4, <1>5 DEF Inv

\* Either way out of the loop for an image.
LEMMA FinishImageInv ==
    ASSUME Types, file \in Files, pc = "download",
           NEW cells \in [Cells -> Bytes], slot' = [slot EXCEPT ![Target] = cells],
           rdp' \in [RdpCells -> Bytes], UNCHANGED <<ota2Set, boot, cur>>,
           NEW d, Done(d, cells, rdp'), FinishImage(d)
    PROVE  Inv'
<1> DEFINE ota == IF Image.kind = "OTA" THEN d.size ELSE d.otaSize
<1>1. SignatureBlank(cells, 0) /\ Target \in OTA_INDEX
    BY DEF Done
<1>2. CASE dw.i < Len(DownloadInfo)
    <2>1. dw' = NextImage(d, ota) /\ UNCHANGED <<pc, file, damaged, step>>
        BY <1>2 DEF FinishImage, NextImage
    <2>2. GoesOn(dw', cells, rdp')
        BY <1>2, <2>1, NextImageGoesOn
    <2> QED
        BY <2>1, <2>2, OnwardInv DEF GoesOn
<1>3. CASE ~(dw.i < Len(DownloadInfo)) /\ ota = file.len - SigLen
    <2>1. /\ dw' = [d EXCEPT !.otaSize = ota] /\ pc' = "verify"
          /\ UNCHANGED <<file, damaged, step>>
        BY <1>3 DEF FinishImage
    <2>2. DType(dw') /\ Copied(file, Target, damaged, dw', cells, rdp')
        BY <1>3, <2>1, LastImageCopied
    <2> QED
        BY <1>1, <2>1, <2>2, OnwardInv
<1>4. CASE ~(dw.i < Len(DownloadInfo)) /\ ota # file.len - SigLen
    <2>1. Exit
        BY <1>4 DEF FinishImage
    <2>2. slot' \in [OTA_INDEX -> [Cells -> Bytes]]
        BY <1>1, SlotWritten DEF Types
    <2> QED
        BY <2>1, <2>2, IdleInv DEF Exit, Types
<1> QED
    BY <1>2, <1>3, <1>4

LEMMA ConsumeInv ==
    ASSUME Types, file \in Files, pc = "download",
           Copying(file, Target, damaged, dw, slot[Target], rdp),
           NEW buf \in Seq(Bytes), Len(buf) <= BUF_SIZE, NEW received \in Nat,
           Fits(file, damaged, Image, dw, buf, received), Consume(buf, received)
    PROVE  Inv'
<1> DEFINE bytes == BytesOfImage(buf, received)
           sig   == SignaturePart(bytes)
           data  == SubSeq(bytes, Len(sig) + 1, Len(bytes))
           kept  == CutToRest(data)
           d     == [dw EXCEPT !.received = received, !.buf = buf,
                               !.reuse = FALSE,
                               !.started = @ \/ received > Image.off,
                               !.signature = @ \o sig,
                               !.remain = @ - Len(data),
                               !.size = @ + Len(kept)]
           cells == IF Image.kind = "OTA"
                    THEN Program(slot[Target], SigLen + dw.size, kept)
                    ELSE slot[Target]
<1>1. Pass(buf, received, bytes, sig, data, kept, d)
    BY DEF Pass
<1>2. /\ Image.kind = "OTA" =>
            /\ slot' = [slot EXCEPT ![Target] = Program(slot[Target], SigLen + dw.size, kept)]
            /\ rdp' = rdp
      /\ Image.kind # "OTA" => rdp' = Program(rdp, dw.size, kept) /\ slot' = slot
      /\ d.remain > 0 => dw' = d /\ UNCHANGED <<pc, file, damaged, step>>
      /\ ~(d.remain > 0) => FinishImage(d)
      /\ UNCHANGED <<ota2Set, boot, cur>>
    BY DEF Consume
<1> HIDE DEF bytes, sig, data, kept, d
<1>3. Ready(buf, received)
    BY CopyingReady
<1>4. PassOf(buf, received, d, kept) /\ Arrived(d, kept)
    BY <1>1, <1>3, PassResult
<1>5. /\ dw.i \in 1 .. Len(Info(file, Target)) /\ Image.kind \in {"OTA", "RDP"}
      /\ Image = Info(file, Target)[dw.i]
    BY <1>3, ReadyNumbers, PlanIs
<1>6. Target \in OTA_INDEX /\ slot \in [OTA_INDEX -> [Cells -> Bytes]]
    BY TargetIs DEF Types
<1>7. slot' = [slot EXCEPT ![Target] = cells]
    BY <1>2, <1>6
<1>8. \/ /\ Image.kind = "OTA" /\ rdp' = rdp
         /\ cells = Program(slot[Target], SigLen + dw.size, kept)
      \/ /\ Image.kind = "RDP" /\ cells = slot[Target]
         /\ rdp' = Program(rdp, dw.size, kept)
    BY <1>2, <1>5
<1> HIDE DEF cells
<1>9. /\ cells \in [Cells -> Bytes] /\ rdp' \in [RdpCells -> Bytes]
      /\ SignatureBlank(cells, 0)
      /\ Image.kind = "OTA" => CopyingOta(file, Target, damaged, d, cells, rdp')
      /\ Image.kind = "RDP" => CopyingRdp(file, Target, damaged, d, cells, rdp')
    BY <1>3, <1>4, <1>8, PassWrites
<1>10. DType(d) /\ d.i = dw.i /\ SignatureArrived(file, Target, damaged, d.signature)
    BY <1>4 DEF PassOf, Arrived, DType
<1>11. CASE d.remain > 0
    <2>1. /\ d.size + d.remain = Image.len /\ Standing(file, damaged, Image, d)
          /\ ~d.started => d.size = 0
        BY <1>4, <1>11 DEF PassOf
    <2>2. Copying(file, Target, damaged, d, cells, rdp')
        BY <1>5, <1>9, <1>10, <1>11, <2>1 DEF Copying
    <2>3. dw' = d /\ UNCHANGED <<pc, file, damaged, step>>
        BY <1>2, <1>11
    <2> QED
        BY <1>2, <1>7, <1>9, <1>10, <2>2, <2>3, OnwardInv
<1>12. CASE ~(d.remain > 0)
    <2>1. /\ d.size = Image.len /\ d.size <= Image.len /\ d.buf = buf /\ d.received = received
          /\ received - Len(buf) <= End(Image)
          /\ \A k \in 1 .. Len(buf) :
                buf[k] = Sent(file, damaged, received - Len(buf) + k - 1)
        BY <1>4, <1>12 DEF PassOf
    <2>2. Done(d, cells, rdp')
        BY <1>5, <1>6, <1>9, <1>10, <2>1 DEF Done
    <2> QED
        BY <1>2, <1>7, <1>9, <1>12, <2>2, FinishImageInv
<1> QED
    BY <1>11, <1>12

LEMMA ReceiveInv ==
    ASSUME Inv, NEW n \in 1 .. BUF_SIZE, Receive(n)
    PROVE  Inv'
<1> DEFINE buf == [k \in 1 .. n |-> Arriving(dw.received + k - 1)]
           received == dw.received + n
<1>1. /\ Types /\ pc = "download" /\ file \in Files /\ ~dw.reuse /\ DType(dw)
      /\ Copying(file, Target, damaged, dw, slot[Target], rdp)
      /\ received <= Total(file) /\ Consume(buf, received)
    BY DEF Inv, Places, Types, Receive
<1>2. /\ n \in Nat /\ n <= BUF_SIZE /\ dw.received \in Nat /\ received \in Nat
      /\ Total(file) \in Nat
    BY <1>1, BufAssumption, TotalBound DEF DType, DRecord
<1>3. \A k \in 1 .. n : /\ buf[k] = Sent(file, damaged, dw.received + k - 1)
                        /\ buf[k] \in Bytes
    <2> TAKE k \in 1 .. n
    <2>1. buf[k] = Sent(file, damaged, dw.received + k - 1)
        BY PlanIs
    <2>2. dw.received + k - 1 \in Nat /\ dw.received + k - 1 < Total(file)
        BY <1>1, <1>2
    <2> QED
        BY <1>1, <2>1, <2>2, SentByte
<1>4. buf \in Seq(Bytes) /\ Len(buf) = n
    <2>1. buf \in [1 .. n -> Bytes]
        BY <1>3
    <2> HIDE DEF buf
    <2> QED
        BY <1>2, <2>1, SeqDef, LenProperties
<1>5. Fits(file, damaged, Image, dw, buf, received)
    <2>1. IF dw.started THEN dw.received = Image.off + Taken(Image.kind, dw)
          ELSE dw.received <= Image.off
        BY <1>1, PlanIs DEF Copying, Standing
    <2>2. received - Len(buf) = dw.received
        BY <1>2, <1>4
    <2> HIDE DEF buf, received
    <2>3. \A k \in 1 .. Len(buf) :
              buf[k] = Sent(file, damaged, received - Len(buf) + k - 1)
        BY <1>3, <1>4, <2>2
    <2> QED
        BY <2>1, <2>2, <2>3 DEF Fits
<1> HIDE DEF buf, received
<1> QED
    BY <1>1, <1>2, <1>4, <1>5, ConsumeInv

LEMMA ReusePacketInv ==
    ASSUME Inv, ReusePacket
    PROVE  Inv'
<1>1. /\ Types /\ pc = "download" /\ file \in Files /\ dw.reuse /\ DType(dw)
      /\ Copying(file, Target, damaged, dw, slot[Target], rdp)
      /\ Consume(dw.buf, dw.received)
    BY DEF Inv, Places, Types, ReusePacket
<1>2. dw.buf \in Seq(Bytes) /\ Len(dw.buf) <= BUF_SIZE /\ dw.received \in Nat
    BY <1>1 DEF DType, DRecord
<1>3. Fits(file, damaged, Image, dw, dw.buf, dw.received)
    BY <1>1, PlanIs DEF Copying, Standing
<1> QED
    BY <1>1, <1>2, <1>3, ConsumeInv

LEMMA ServerClosesInv ==
    ASSUME Inv, ServerCloses
    PROVE  Inv'
<1> DEFINE buf == [k \in DOMAIN dw.buf |-> Corrupted]
           d == [dw EXCEPT !.buf = buf, !.closed = TRUE]
<1>1. /\ Types /\ pc = "download" /\ file \in Files /\ ~dw.reuse /\ DType(dw)
      /\ Copying(file, Target, damaged, dw, slot[Target], rdp)
      /\ UNCHANGED <<flash, cur>>
    BY DEF Inv, Places, Types, ServerCloses
<1>2. FinishImage(d)
    BY DEF ServerCloses
<1>3. /\ dw \in DRecord /\ dw.buf \in Seq(Bytes) /\ dw.received \in Nat
      /\ dw.size \in Nat /\ dw.remain \in Int /\ Len(dw.signature) \in Nat
    BY <1>1, LenProperties DEF DType, DRecord
<1>4. buf \in Seq(Bytes) /\ Len(buf) = Len(dw.buf)
    <2>1. Len(dw.buf) \in Nat /\ DOMAIN dw.buf = 1 .. Len(dw.buf)
        BY <1>3, LenProperties
    <2>2. buf \in [1 .. Len(dw.buf) -> Bytes]
        BY <2>1, ErasedByte
    <2> HIDE DEF buf
    <2> QED
        BY <2>1, <2>2, SeqDef, LenProperties
<1> HIDE DEF buf
<1>5. /\ d \in DRecord /\ d.i = dw.i /\ d.buf = buf /\ d.closed = TRUE
      /\ d.received = dw.received /\ d.size = dw.size /\ d.started = dw.started
      /\ d.signature = dw.signature /\ d.otaSize = dw.otaSize
      /\ d.remain = dw.remain
    BY <1>3, <1>4 DEF DRecord
<1> HIDE DEF d
<1>6. DType(d)
    BY <1>1, <1>4, <1>5 DEF DType
<1>7. Target \in OTA_INDEX /\ Image = Info(file, Target)[dw.i]
    BY <1>1, TargetIs, PlanIs DEF Types
<1>8. /\ dw.i \in Nat /\ 1 <= dw.i /\ dw.i <= Len(Info(file, Target))
      /\ Len(Info(file, Target)) \in Nat
    <2>1. dw.i \in 1 .. 2
        BY <1>3 DEF DRecord
    <2>2. Len(Info(file, Target)) \in Nat
        BY DEF Info
    <2> QED
        BY <1>1, <2>1, <2>2 DEF Copying
<1>9. /\ Image.off \in Nat /\ Image.len \in Nat /\ Image.kind \in {"OTA", "RDP"}
    BY <1>1, <1>7, <1>8, InfoFacts
<1>10. dw.received <= End(Image) /\ End(Image) \in Int
    <2>1. IF dw.started THEN dw.received = Image.off + Taken(Image.kind, dw)
          ELSE dw.received <= Image.off
        BY <1>1, <1>7 DEF Copying, Standing
    <2>2. /\ dw.size <= Image.len /\ Len(dw.signature) <= SigLen /\ SigLen \in Nat
        BY <1>1, <1>3, <1>7, <1>9, Lengths DEF Copying, DType
    <2>3. CASE Image.kind = "OTA"
        BY <1>3, <1>9, <2>1, <2>2, <2>3 DEF Taken, End
    <2>4. CASE Image.kind = "RDP"
        BY <1>3, <1>9, <2>1, <2>2, <2>4 DEF Taken, End
    <2> QED
        BY <1>9, <2>3, <2>4
<1>11. d.received - Len(d.buf) <= End(Image) /\ ~(d.received > End(Image))
    <2>1. Len(dw.buf) \in Nat
        BY <1>3, LenProperties
    <2> QED
        BY <1>3, <1>4, <1>5, <1>10, <2>1
<1>12. /\ Image.kind = "OTA" =>
             CopyingOta(file, Target, damaged, d, slot[Target], rdp)
       /\ Image.kind = "RDP" =>
             CopyingRdp(file, Target, damaged, d, slot[Target], rdp)
    BY <1>1, <1>5, <1>7 DEF Copying, CopyingOta, CopyingRdp, RdpCopied
<1>13. SignatureBlank(slot[Target], 0) /\ SignatureArrived(file, Target, damaged, d.signature)
    BY <1>1, <1>5 DEF Copying
<1>16. d.size <= Image.len
    BY <1>1, <1>3, <1>5, <1>7, <1>9 DEF Copying
<1>14. Done(d, slot[Target], rdp)
    BY <1>1, <1>5, <1>6, <1>7, <1>8, <1>11, <1>12, <1>13, <1>16 DEF Done
<1>15. /\ slot' = [slot EXCEPT ![Target] = slot[Target]] /\ rdp' = rdp
       /\ slot[Target] \in [Cells -> Bytes] /\ rdp \in [RdpCells -> Bytes]
       /\ UNCHANGED <<ota2Set, boot, cur>>
    BY <1>1, <1>7 DEF Types, flash
<1> QED
    BY <1>1, <1>2, <1>14, <1>15, FinishImageInv

-----------------------------------------------------------------------------
(* The checksums.                                                          *)

\* The bytes of f from offset o on as they arrive.
SentFrom(f, m, o, n) == [k \in o .. o + n - 1 |-> Sent(f, m, k)]

\* A damaged byte changes the sum of what is sent, and nothing else does.
LEMMA SentSum ==
    ASSUME NEW f \in Files, NEW m \in Int, NEW o \in Nat, NEW n \in Nat,
           o + n <= Total(f)
    PROVE  /\ m - o \notin 0 .. n - 1 => SumOf(SentFrom(f, m, o, n), o, n) = FileSum(f, o, n)
           /\ m - o \in 0 .. n - 1 => SumOf(SentFrom(f, m, o, n), o, n) # FileSum(f, o, n)
<1> DEFINE g == SentFrom(f, m, o, n)
           h == [k \in o .. o + n - 1 |-> Served(f, k)]
<1>1. ASSUME NEW k \in 0 .. n - 1
      PROVE  /\ g[o + k] = Sent(f, m, o + k) /\ h[o + k] = Served(f, o + k)
             /\ g[o + k] \in Int /\ h[o + k] \in Int
             /\ o + k = m => g[o + k] = Corrupted /\ h[o + k] # Corrupted
             /\ o + k # m => g[o + k] = h[o + k]
    <2>1. o + k \in o .. o + n - 1 /\ o + k \in Int
        OBVIOUS
    <2>2. g[o + k] = Sent(f, m, o + k) /\ h[o + k] = Served(f, o + k)
        BY <2>1 DEF SentFrom
    <2>4. o + k \in Nat /\ o + k \in 0 .. Total(f) - 1
        BY TotalBound
    <2>3. Served(f, o + k) \in Int /\ Corrupted \in Int
        BY <2>4, ServedByte, TotalBound, ImageAssumption
    <2>5. Served(f, o + k) # Corrupted
        BY <2>4, DamageAssumption
    <2> HIDE DEF g, h
    <2> QED
        BY <2>2, <2>3, <2>5 DEF Sent
<1>2. FileSum(f, o, n) = SumOf(h, o, n)
    BY DEF FileSum
<1> HIDE DEF g, h
<1>3. ASSUME m - o \notin 0 .. n - 1
      PROVE  SumOf(g, o, n) = SumOf(h, o, n)
    <2>1. \A k \in 0 .. n - 1 : g[o + k] = h[o + k]
        <3> TAKE k \in 0 .. n - 1
        <3>1. o + k # m
            BY <1>3
        <3> QED
            BY <1>1, <3>1
    <2>2. SumsAlike(g, o, h, o, n)
        BY <2>1, SumSame
    <2> QED
        BY <2>2 DEF SumsAlike
<1>5. o \in Int
    OBVIOUS
<1>4. ASSUME m - o \in 0 .. n - 1
      PROVE  SumOf(g, o, n) # SumOf(h, o, n)
    <2> DEFINE j == m - o
    <2>1. j \in 0 .. n - 1 /\ o + j = m
        BY <1>4
    <2> HIDE DEF j
    <2>2. g[o + j] # h[o + j]
        BY <1>1, <2>1
    <2>3. \A k \in 0 .. n - 1 : k # j => g[o + k] = h[o + k]
        <3> TAKE k \in 0 .. n - 1
        <3> HAVE k # j
        <3>1. o + k # m
            BY <2>1
        <3> QED
            BY <1>1, <3>1
    <2>4. \A k \in 0 .. n - 1 : g[o + k] \in Int /\ h[o + k] \in Int
        BY <1>1
    <2> QED
        BY <1>5, <2>1, <2>2, <2>3, <2>4, SumDiffers
<1> QED
    BY <1>2, <1>3, <1>4 DEF g

\* The body in the slot and the signature kept back add up to what arrived.
LEMMA OtaSum ==
    ASSUME Types, file \in Files,
           Copied(file, Target, damaged, dw, slot[Target], rdp)
    PROVE  SumOf(slot[Target], SigLen, dw.otaSize)
              + SumOf(dw.signature, 1, Len(dw.signature))
            = SumOf(SentFrom(file, damaged, file.ota[Target], file.len),
                    file.ota[Target], file.len)
<1> DEFINE o == file.ota[Target]
           g == SentFrom(file, damaged, o, file.len)
           body == file.len - SigLen
<1>1. /\ o \in Nat /\ SigLen \in Nat /\ body \in Nat /\ file.len = SigLen + body
      /\ damaged \in Int /\ o + SigLen \in Int
    BY TargetIs, FileFacts, Lengths DEF Types
<1>2. \A k \in 0 .. file.len - 1 : g[o + k] = Sent(file, damaged, o + k)
    <2> TAKE k \in 0 .. file.len - 1
    <2>1. o + k \in o .. o + file.len - 1
        BY <1>1
    <2> QED
        BY <2>1 DEF SentFrom
<1>3. \A k \in 0 .. SigLen + body - 1 : g[o + k] \in Int
    <2> TAKE k \in 0 .. SigLen + body - 1
    <2>4. \A s \in OTA_INDEX : file.ota[s] + file.len <= Total(file)
        BY TotalBound DEF OTA_INDEX
    <2>1. o + file.len <= Total(file) /\ Total(file) \in Nat
        BY <2>4, TargetIs, TotalBound DEF Types
    <2>2. g[o + k] = Sent(file, damaged, o + k)
        BY <1>1, <1>2
    <2> HIDE DEF g, o, body
    <2>3. o + k \in Nat /\ o + k < Total(file)
        BY <1>1, <2>1
    <2> QED
        BY <2>2, <2>3, ServedByte, ImageAssumption DEF Sent
<1>4. dw.otaSize = body /\ Len(dw.signature) = SigLen
    BY DEF Copied
<1>9. /\ 1 \in Int /\ SigLen \in Int /\ o \in Int /\ o + SigLen \in Int
      /\ SigLen \in Nat /\ body \in Nat
    BY <1>1
<1> HIDE DEF g, o, body
<1>5. SumOf(dw.signature, 1, SigLen) = SumOf(g, o, SigLen)
    <2>1. \A k \in 0 .. SigLen - 1 : dw.signature[1 + k] = g[o + k]
        <3> TAKE k \in 0 .. SigLen - 1
        <3>1. 1 + k \in 1 .. SigLen /\ o + (1 + k) - 1 = o + k /\ k \in 0 .. file.len - 1
            BY <1>1
        <3> QED
            BY <1>2, <1>4, <3>1 DEF Copied, SignatureArrived, o
    <2>2. SumsAlike(dw.signature, 1, g, o, SigLen)
        BY <1>9, <2>1, SumSame
    <2> QED
        BY <2>2 DEF SumsAlike
<1>6. SumOf(slot[Target], SigLen, body) = SumOf(g, o + SigLen, body)
    <2>1. \A k \in 0 .. body - 1 : slot[Target][SigLen + k] = g[(o + SigLen) + k]
        <3> TAKE k \in 0 .. body - 1
        <3>1. /\ SigLen + k \in SigLen .. SigLen + body - 1
              /\ SigLen + k \in 0 .. file.len - 1
              /\ o + (SigLen + k) = (o + SigLen) + k
            BY <1>1
        <3> QED
            BY <1>2, <3>1 DEF Copied, OtaInPlace, o, body
    <2>2. SumsAlike(slot[Target], SigLen, g, o + SigLen, body)
        BY <1>9, <2>1, SumSame
    <2> QED
        BY <2>2 DEF SumsAlike
<1>7. SumOf(g, o, SigLen + body) = SumOf(g, o, SigLen) + SumOf(g, o + SigLen, body)
    <2>1. Adds(g, o, SigLen, body)
        BY <1>3, <1>9, SumSplit
    <2> QED
        BY <2>1 DEF Adds
<1>8. SumOf(g, o, SigLen) \in Int /\ SumOf(g, o + SigLen, body) \in Int
    <2>1. \A k \in 0 .. SigLen - 1 : g[o + k] \in Int
        BY <1>1, <1>3
    <2>2. \A k \in 0 .. body - 1 : g[(o + SigLen) + k] \in Int
        <3> TAKE k \in 0 .. body - 1
        <3>1. SigLen + k \in 0 .. SigLen + body - 1 /\ o + (SigLen + k) = (o + SigLen) + k
            BY <1>1
        <3> QED
            BY <1>3, <3>1
    <2>3. SumOf(g, o, SigLen) \in Int
        BY <1>1, <1>9, <2>1, SumIsInt
    <2>4. SumOf(g, o + SigLen, body) \in Int
        BY <1>1, <2>2, SumIsInt
    <2> QED
        BY <2>3, <2>4
<1> DEFINE x == SumOf(g, o, SigLen)
           y == SumOf(g, o + SigLen, body)
<1>10. x \in Int /\ y \in Int /\ SumOf(g, o, file.len) = x + y
    BY <1>1, <1>7, <1>8
<1>11. /\ SumOf(slot[Target], SigLen, dw.otaSize) = y
       /\ SumOf(dw.signature, 1, Len(dw.signature)) = x
    BY <1>4, <1>5, <1>6
<1> HIDE DEF x, y
<1>12. y + x = SumOf(g, o, file.len)
    BY <1>10
<1> QED
    BY <1>11, <1>12 DEF g, o

\* The RDP image, when it has been copied as a whole.
LEMMA RdpSum ==
    ASSUME NEW f \in Files, NEW m \in Int, NEW r, RdpInPlace(f, m, r, f.rdpLen)
    PROVE  /\ m - f.rdp \notin 0 .. f.rdpLen - 1 <=>
                 SumOf(r, 0, f.rdpLen) = FileSum(f, f.rdp, f.rdpLen)
           /\ m - f.rdp \notin 0 .. f.rdpLen - 1 => IsRdp(r, f)
<1> DEFINE g == SentFrom(f, m, f.rdp, f.rdpLen)
<1>1. /\ f.rdp \in Nat /\ f.rdpLen \in Nat /\ f.rdp + f.rdpLen <= Total(f)
      /\ f.rdp \in Int /\ 0 \in Int
    BY FileFacts, TotalBound
<1>2. \A k \in 0 .. f.rdpLen - 1 : r[0 + k] = g[f.rdp + k]
    <2> TAKE k \in 0 .. f.rdpLen - 1
    <2>1. 0 + k = k /\ f.rdp + k \in f.rdp .. f.rdp + f.rdpLen - 1
        BY <1>1
    <2> QED
        BY <2>1 DEF RdpInPlace, SentFrom
<1>3. SumOf(r, 0, f.rdpLen) = SumOf(g, f.rdp, f.rdpLen)
    <2> HIDE DEF g
    <2>1. SumsAlike(r, 0, g, f.rdp, f.rdpLen)
        BY <1>1, <1>2, SumSame
    <2> QED
        BY <2>1 DEF SumsAlike
<1>4. m - f.rdp \notin 0 .. f.rdpLen - 1 => IsRdp(r, f)
    <2> SUFFICES ASSUME m - f.rdp \notin 0 .. f.rdpLen - 1, NEW k \in 0 .. f.rdpLen - 1
                 PROVE  r[k] = Served(f, f.rdp + k)
        BY DEF IsRdp
    <2>1. f.rdp + k # m
        BY <1>1
    <2> QED
        BY <2>1 DEF RdpInPlace, Sent
<1> QED
    BY <1>1, <1>3, <1>4, SentSum

\* A passed check vouches for the OTA image and for the sum of the RDP image,
\* and images that arrived whole and undamaged pass.
LEMMA ChecksumTells ==
    ASSUME Types, file \in Files,
           Copied(file, Target, damaged, dw, slot[Target], rdp)
    PROVE  /\ VerifyOtaChecksum => Checked(file, Target, damaged, rdp)
           /\ /\ file.ours /\ ~dw.closed
              /\ damaged - file.ota[Target] \notin 0 .. file.len - 1
              /\ damaged - file.rdp \notin 0 .. file.rdpLen - 1
              => VerifyOtaChecksum
<1>1. /\ Target \in OTA_INDEX /\ damaged \in Int
      /\ file.ota[Target] \in Nat /\ file.len \in Nat
      /\ file.ota[Target] + file.len <= Total(file)
      /\ file.rdp \in Nat /\ file.rdpLen \in Nat /\ file.rdp + file.rdpLen <= Total(file)
    <2>1. Target \in OTA_INDEX /\ damaged \in Int
        BY TargetIs DEF Types
    <2>2. Target = 1 \/ Target = 2
        BY <2>1 DEF OTA_INDEX
    <2>3. file.ota[Target] + file.len <= Total(file)
        BY <2>2, TotalBound
    <2> QED
        BY <2>1, <2>3, FileFacts, TotalBound
<1> DEFINE sum == SumOf(slot[Target], SigLen, dw.otaSize)
                     + SumOf(dw.signature, 1, Len(dw.signature))
           total == FileSum(file, file.ota[Target], file.len)
           rsum == SumOf(rdp, 0, file.rdpLen)
           rtotal == FileSum(file, file.rdp, file.rdpLen)
<1>2. /\ damaged - file.ota[Target] \notin 0 .. file.len - 1 => sum = total
      /\ damaged - file.ota[Target] \in 0 .. file.len - 1 => sum # total
    <2>1. sum = SumOf(SentFrom(file, damaged, file.ota[Target], file.len),
                      file.ota[Target], file.len)
        BY OtaSum
    <2> HIDE DEF sum
    <2> QED
        BY <1>1, <2>1, SentSum
<1>3. ASSUME ~dw.closed, damaged - file.rdp \notin 0 .. file.rdpLen - 1
      PROVE  rsum = rtotal
    <2>1. RdpInPlace(file, damaged, rdp, file.rdpLen)
        BY <1>3 DEF Copied, RdpCopied
    <2> QED
        BY <1>1, <1>3, <2>1, RdpSum
<1>4. VerifyOtaChecksum <=> file.ours /\ sum = total /\ rsum = rtotal
    BY DEF VerifyOtaChecksum
<1>5. Checked(file, Target, damaged, rdp) <=>
        damaged - file.ota[Target] \notin 0 .. file.len - 1 /\ rsum = rtotal
    BY DEF Checked
<1> HIDE DEF sum, total, rsum, rtotal
<1> QED
    BY <1>2, <1>3, <1>4, <1>5

LEMMA RestartInv ==
    ASSUME Inv, Restart
    PROVE  Inv'
<1>1. cur' \in OTA_INDEX
    BY DEF Restart, BootLoader, Bootable, Inv, Types
<1> QED
    BY <1>1, IdleInv DEF Restart, flash, Inv, Types

\* A step that leaves the flash and the download alone.
LEMMA HeaderInv ==
    ASSUME Inv,
           \/ \E f \in Files : \E m \in Offsets(f) \cup {-1} : UpdateOtaLocal(f, m)
           \/ RefuseHeader \/ TakeHeader \/ RefuseAddress \/ TakeAddress
    PROVE  Inv'
<1>1. Types /\ Places
    BY DEF Inv
<1>2. CASE \E f \in Files : \E m \in Offsets(f) \cup {-1} : UpdateOtaLocal(f, m)
    <2>1. PICK f \in Files : \E m \in Offsets(f) \cup {-1} : UpdateOtaLocal(f, m)
        BY <1>2
    <2>2. PICK m \in Offsets(f) \cup {-1} : UpdateOtaLocal(f, m)
        BY <2>1
    <2>3. m \in Int
        BY <2>1, FileFacts, TotalBound DEF Offsets
    <2>4. Types'
        BY <1>1, <2>2, <2>3 DEF UpdateOtaLocal, Types, flash
    <2>5. Places'
        BY <1>1, <2>1, <2>2 DEF UpdateOtaLocal, Places
    <2> QED
        BY <2>4, <2>5 DEF Inv
<1>3. CASE RefuseHeader
    BY <1>1, <1>3, IdleInv DEF RefuseHeader, Exit, flash, Types
<1>4. CASE TakeHeader
    <2>1. Types'
        BY <1>1, <1>4 DEF TakeHeader, Types, flash
    <2>2. Places'
        BY <1>1, <1>4 DEF TakeHeader, Places
    <2> QED
        BY <2>1, <2>2 DEF Inv
<1>5. CASE RefuseAddress
    BY <1>1, <1>5, IdleInv DEF RefuseAddress, Exit, Types
<1>6. CASE TakeAddress
    <2>1. Types'
        BY <1>1, <1>6 DEF TakeAddress, Types
    <2>2. pc' = "erase" /\ step' = 0 /\ file' \in Files
        BY <1>1, <1>6 DEF TakeAddress, Places
    <2>3. BlankBelow(file', slot'[Target'], step')
        <3>1. \A k \in 0 .. file'.len - 1 : ~(k \div SectorLen < 0)
            <4>1. SectorLen \in Nat /\ SectorLen > 0 /\ file'.len \in Nat
                BY <2>2, Lengths, FileFacts
            <4> QED
                BY <4>1
        <3> QED
            BY <2>2, <3>1 DEF BlankBelow
    <2>4. Places'
        BY <2>2, <2>3 DEF Places
    <2> QED
        BY <2>1, <2>4 DEF Inv
<1> QED
    BY <1>2, <1>3, <1>4, <1>5, <1>6

\* An offset behind another is in the same sector or in one behind it.
LEMMA SectorGrows ==
    ASSUME NEW n \in Nat, n > 0, NEW a \in Nat, NEW b \in Nat, a <= b
    PROVE  a \div n \in Nat /\ b \div n \in Nat /\ a \div n <= b \div n
  OBVIOUS

LEMMA EraseSectorInv ==
    ASSUME Inv, EraseSector
    PROVE  Inv'
<1> DEFINE cells == EraseSectorAt(slot[Target], step)
<1>1. /\ Types /\ pc = "erase" /\ file \in Files /\ Target \in OTA_INDEX
      /\ BlankBelow(file, slot[Target], step) /\ step \in Nat
    BY TargetIs DEF Inv, Types, Places, EraseSector
<1>2. /\ slot' = [slot EXCEPT ![Target] = cells] /\ step' = step + 1
      /\ pc' = IF step' = Sectors(file.len) THEN "eraseRdp" ELSE "erase"
      /\ UNCHANGED <<rdp, ota2Set, boot, cur, file, damaged, dw>>
    BY DEF EraseSector
<1>3. /\ cells \in [Cells -> Bytes]
      /\ \A k \in Cells :
            cells[k] = IF k \div SectorLen = step THEN Erased ELSE slot[Target][k]
    <2>1. slot[Target] \in [Cells -> Bytes]
        BY <1>1 DEF Types
    <2> QED
        BY <2>1, EraseSectorOn
<1> HIDE DEF cells
<1>4. slot' \in [OTA_INDEX -> [Cells -> Bytes]] /\ slot'[Target] = cells
    BY <1>1, <1>2, <1>3, SlotWritten DEF Types
<1>5. SectorLen \in Nat /\ SectorLen > 0 /\ file.len \in Nat /\ file.len > 0 /\ file.len <= SlotLen /\ SlotLen \in Nat
    BY <1>1, Lengths, FileFacts
<1>6. BlankBelow(file, cells, step + 1)
    <2> SUFFICES ASSUME NEW k \in 0 .. file.len - 1, k \div SectorLen < step + 1
                 PROVE  cells[k] = Erased
        BY DEF BlankBelow
    <2>1. k \in Nat /\ k \in Cells
        BY <1>5 DEF Cells
    <2>2. k \div SectorLen \in Nat
        BY <1>5, <2>1, SectorGrows
    <2>3. CASE k \div SectorLen = step
        BY <1>3, <2>1, <2>3
    <2>4. CASE k \div SectorLen # step
        <3>1. k \div SectorLen < step
            BY <1>1, <2>2, <2>4
        <3>2. slot[Target][k] = Erased
            BY <1>1, <3>1 DEF BlankBelow
        <3> QED
            BY <1>3, <2>1, <2>4, <3>2
    <2> QED
        BY <2>3, <2>4
<1>7. ASSUME step + 1 = Sectors(file.len), NEW k \in 0 .. file.len - 1
      PROVE  cells[k] = Erased
    <2>1. k \in Nat /\ file.len - 1 \in Nat /\ k <= file.len - 1
        BY <1>5
    <2>2. /\ k \div SectorLen \in Nat /\ (file.len - 1) \div SectorLen \in Nat
          /\ k \div SectorLen <= (file.len - 1) \div SectorLen
        BY <1>5, <2>1, SectorGrows
    <2>3. step + 1 = (file.len - 1) \div SectorLen + 1
        BY <1>7 DEF Sectors
    <2>4. k \div SectorLen < step + 1
        BY <1>1, <2>2, <2>3
    <2> QED
        BY <1>6, <2>4 DEF BlankBelow
<1>8. Types'
    BY <1>1, <1>2, <1>4 DEF Types
<1>9. Target' = Target
    BY <1>2 DEF Target
<1>10. Places'
    <2>1. CASE step' = Sectors(file.len)
        BY <1>1, <1>2, <1>4, <1>7, <1>9, <2>1 DEF Places
    <2>2. CASE step' # Sectors(file.len)
        BY <1>1, <1>2, <1>4, <1>6, <1>9, <2>2 DEF Places
    <2> QED
        BY <2>1, <2>2
<1> QED
    BY <1>8, <1>10 DEF Inv

LEMMA EraseRdpInv ==
    ASSUME Inv, EraseRdp
    PROVE  Inv'
<1>1. /\ Types /\ file \in Files /\ Target \in OTA_INDEX
      /\ \A k \in 0 .. file.len - 1 : slot[Target][k] = Erased
    BY TargetIs DEF Inv, Types, Places, EraseRdp
<1> DEFINE len == Info(file, Target)[1].len
<1>2. /\ rdp' = IF file.rdpLen > 0 THEN [k \in RdpCells |-> Erased] ELSE rdp
      /\ dw' = [NoDownload EXCEPT !.remain = len, !.received = file.hdr]
      /\ pc' = "download"
      /\ UNCHANGED <<slot, ota2Set, boot, cur, file, damaged, step>>
    BY PlanIs DEF EraseRdp
<1>3. /\ file.hdr \in Nat /\ file.len \in Nat /\ SigLen < file.len
      /\ file.rdpLen \in Nat /\ file.rdpLen <= SectorLen /\ SectorLen \in Nat
      /\ SigLen \in Nat
    BY <1>1, FileFacts, Lengths
<1>4. 1 \in 1 .. Len(Info(file, Target)) /\ Len(Info(file, Target)) \in Nat
    <2>1. Len(Info(file, Target)) \in {1, 2}
        BY DEF Info
    <2> QED
        BY <2>1
<1>5. /\ len \in Nat /\ len > 0 /\ len <= SlotLen
      /\ file.hdr <= Info(file, Target)[1].off
      /\ Info(file, Target)[1].kind \in {"OTA", "RDP"}
    BY <1>1, <1>4, InfoFacts
<1> HIDE DEF len
<1>6. /\ dw'.i = 1 /\ dw'.remain = len /\ dw'.started = FALSE /\ dw'.reuse = FALSE
      /\ dw'.closed = FALSE /\ dw'.received = file.hdr /\ dw'.size = 0
      /\ dw'.otaSize = -1 /\ dw'.buf = <<>> /\ dw'.signature = <<>>
    BY <1>2 DEF NoDownload
<1>7. dw' \in DRecord
    <2>1. <<>> \in Seq(Bytes)
        BY EmptySeq
    <2>2. dw' = [i |-> 1, remain |-> len, started |-> FALSE, reuse |-> FALSE,
                closed |-> FALSE, received |-> file.hdr, size |-> 0,
                otaSize |-> -1, buf |-> <<>>, signature |-> <<>>]
        BY <1>2 DEF NoDownload
    <2>3. len \in Int /\ file.hdr \in Nat
        BY <1>3, <1>5
    <2> QED
        BY <2>1, <2>2, <2>3 DEF DRecord
<1>8. DType(dw')
    BY <1>3, <1>5, <1>6, <1>7, BufAssumption DEF DType
<1>9. rdp' \in [RdpCells -> Bytes] /\ RdpBlank(file, rdp', 0)
    <2>1. CASE file.rdpLen > 0
        BY <1>2, <1>3, <2>1, ErasedByte DEF RdpCells, RdpBlank
    <2>2. CASE file.rdpLen = 0
        BY <1>1, <1>2, <2>2 DEF Types, RdpBlank
    <2> QED
        BY <1>3, <2>1, <2>2
<1>10. OtaBlank(file, slot[Target], 0) /\ SignatureBlank(slot[Target], 0)
    BY <1>1, <1>3 DEF OtaBlank, SignatureBlank
<1>11. /\ OtaInPlace(file, Target, damaged, slot[Target], 0)
       /\ RdpInPlace(file, damaged, rdp', 0)
       /\ SignatureArrived(file, Target, damaged, <<>>)
    BY <1>3 DEF OtaInPlace, RdpInPlace, SignatureArrived
<1>12. CopyingOta(file, Target, damaged, dw', slot[Target], rdp')
    BY <1>6, <1>9, <1>10, <1>11 DEF CopyingOta
<1>13. CopyingRdp(file, Target, damaged, dw', slot[Target], rdp')
    BY <1>6, <1>9, <1>10, <1>11 DEF CopyingRdp
<1>14. Standing(file, damaged, Info(file, Target)[1], dw')
    BY <1>5, <1>6 DEF Standing
<1>15. Copying(file, Target, damaged, dw', slot[Target], rdp')
    <2>1. 1 <= Len(Info(file, Target)) /\ 0 + len = len
        BY <1>4, <1>5
    <2> QED
        BY <1>5, <1>6, <1>10, <1>11, <1>12, <1>13, <1>14, <2>1 DEF Copying, len
<1>16. slot' = [slot EXCEPT ![Target] = slot[Target]] /\ slot[Target] \in [Cells -> Bytes]
    BY <1>1, <1>2 DEF Types
<1> QED
    BY <1>1, <1>2, <1>8, <1>9, <1>15, <1>16, OnwardInv

LEMMA ReadFailsInv ==
    ASSUME Inv, ReadFails
    PROVE  Inv'
  BY IdleInv DEF ReadFails, Exit, flash, Inv, Types

LEMMA VerifyInv ==
    ASSUME Inv, Verify
    PROVE  Inv'
<1>1. /\ Types /\ file \in Files /\ SignatureBlank(slot[Target], 0)
      /\ Copied(file, Target, damaged, dw, slot[Target], rdp)
    BY DEF Inv, Places, Verify
<1>2. /\ pc' = (IF VerifyOtaChecksum THEN "sign" ELSE "clear") /\ step' = 0
      /\ UNCHANGED <<slot, rdp, ota2Set, boot, cur, file, damaged, dw>>
    BY DEF Verify, flash
<1>3. Types'
    BY <1>1, <1>2 DEF Types
<1>4. SignedUpTo(dw, slot[Target], 0)
    BY <1>1, Lengths DEF SignedUpTo
<1>5. Target' = Target /\ (VerifyOtaChecksum' <=> VerifyOtaChecksum)
    <2>1. Target' = Target
        BY <1>2 DEF Target
    <2> QED
        BY <1>2, <2>1 DEF VerifyOtaChecksum
<1>6. CASE VerifyOtaChecksum
    <2>1. Checked(file, Target, damaged, rdp)
        BY <1>1, <1>6, ChecksumTells
    <2>2. pc' = "sign"
        BY <1>2, <1>6
    <2>3. Places'
        BY <1>1, <1>2, <1>4, <1>5, <2>1, <2>2 DEF Places
    <2> QED
        BY <1>3, <2>3 DEF Inv
<1>7. CASE ~VerifyOtaChecksum
    <2>1. pc' = "clear"
        BY <1>2, <1>7
    <2>2. Places'
        BY <1>1, <1>2, <1>5, <1>7, <2>1 DEF Places
    <2> QED
        BY <1>3, <2>2 DEF Inv
<1> QED
    BY <1>6, <1>7

LEMMA ClearSignatureZoneInv ==
    ASSUME Inv, ClearSignatureZone
    PROVE  Inv'
<1>1. Types /\ Target \in OTA_INDEX /\ slot[Target] \in [Cells -> Bytes]
    BY TargetIs DEF Inv, Types
<1>2. /\ slot' = [slot EXCEPT ![Target] = EraseSectorAt(slot[Target], 0)]
      /\ Exit /\ UNCHANGED <<rdp, ota2Set, boot, cur>>
    BY <1>1 DEF ClearSignatureZone, Types
<1>3. EraseSectorAt(slot[Target], 0) \in [Cells -> Bytes]
    BY <1>1, EraseSectorOn
<1>4. slot' \in [OTA_INDEX -> [Cells -> Bytes]]
    BY <1>1, <1>2, <1>3, SlotWritten DEF Types
<1> QED
    BY <1>1, <1>2, <1>4, IdleInv DEF Exit, Types

LEMMA WriteSignatureInv ==
    ASSUME Inv, WriteSignature
    PROVE  Inv'
<1> DEFINE byte == dw.signature[step + 1]
           cells == Program(slot[Target], step, <<byte>>)
<1>1. /\ Types /\ pc = "sign" /\ file \in Files /\ Target \in OTA_INDEX
      /\ Copied(file, Target, damaged, dw, slot[Target], rdp)
      /\ Checked(file, Target, damaged, rdp)
      /\ SignedUpTo(dw, slot[Target], step) /\ step \in Nat /\ step < SigLen
    BY TargetIs DEF Inv, Types, Places, WriteSignature
<1>2. /\ slot' = [slot EXCEPT ![Target] = cells] /\ step' = step + 1
      /\ UNCHANGED <<rdp, ota2Set, boot, cur, pc, file, damaged, dw>>
    BY <1>1 DEF WriteSignature, Types
<1>3. byte \in Bytes
    <2>1. dw.signature \in Seq(Bytes) /\ Len(dw.signature) = SigLen
        BY <1>1 DEF Copied, Types, DType, DRecord
    <2>2. step + 1 \in 1 .. SigLen
        BY <1>1, Lengths
    <2> QED
        BY <2>1, <2>2, ElementOfSeq
<1>4. /\ cells \in [Cells -> Bytes]
      /\ \A k \in Cells : cells[k] = IF k = step THEN byte ELSE slot[Target][k]
    <2> HIDE DEF byte
    <2> DEFINE one == <<byte>>
               c == slot[Target]
    <2>1. /\ one \in Seq(Bytes) /\ Len(one) = 1 /\ one[1] = byte
        BY <1>3
    <2>2. c \in [0 .. SlotLen - 1 -> Bytes] /\ SlotLen \in Int
        BY <1>1, Lengths DEF Types, Cells
    <2>3. \A k \in step .. step + Len(one) - 1 : c[k] = Erased
        <3>1. step \in step .. SigLen - 1 /\ c[step] = Erased
            BY <1>1, Lengths DEF SignedUpTo, SignatureBlank
        <3>2. \A k \in step .. step + 1 - 1 : k = step
            BY <1>1
        <3> QED
            BY <2>1, <3>1, <3>2
    <2>4. cells = Program(c, step, one)
        OBVIOUS
    <2> HIDE DEF one, c, cells
    <2>5. /\ Program(c, step, one) \in [0 .. SlotLen - 1 -> Bytes]
          /\ \A k \in 0 .. SlotLen - 1 : Program(c, step, one)[k] =
                IF k \in step .. step + Len(one) - 1 THEN one[k - step + 1] ELSE c[k]
        BY <1>1, <2>1, <2>2, <2>3, ProgramBlank
    <2>6. ASSUME NEW k \in Cells
          PROVE  cells[k] = IF k = step THEN byte ELSE c[k]
        <3>1. k \in Int /\ k \in 0 .. SlotLen - 1
            BY <2>2 DEF Cells
        <3>2. k \in step .. step + Len(one) - 1 <=> k = step
            BY <1>1, <2>1, <3>1
        <3>3. k = step => k - step + 1 = 1
            BY <1>1
        <3> QED
            BY <2>1, <2>4, <2>5, <3>1, <3>2, <3>3
    <2> QED
        BY <2>4, <2>5, <2>6 DEF Cells, c
<1> HIDE DEF cells
<1>5. slot' \in [OTA_INDEX -> [Cells -> Bytes]] /\ slot'[Target] = cells
    BY <1>1, <1>2, <1>4, SlotWritten DEF Types
<1>6. /\ SigLen \in Nat /\ file.len \in Nat /\ file.len <= SlotLen
      /\ SlotLen \in Nat /\ SigLen < SlotLen /\ SigLen < file.len
    BY <1>1, Lengths, FileFacts
<1>7. Copied(file, Target, damaged, dw, cells, rdp)
    <2>1. OtaInPlace(file, Target, damaged, cells, file.len - SigLen)
        <3> SUFFICES ASSUME NEW k \in SigLen .. SigLen + (file.len - SigLen) - 1
                     PROVE  cells[k] = Sent(file, damaged, file.ota[Target] + k)
            BY DEF OtaInPlace
        <3>1. k \in Cells /\ k # step
            BY <1>1, <1>6 DEF Cells
        <3> QED
            BY <1>1, <1>4, <3>1 DEF Copied, OtaInPlace
    <2> QED
        BY <1>1, <2>1 DEF Copied
<1>8. SignedUpTo(dw, cells, step + 1)
    <2>1. ASSUME NEW k \in step + 1 .. SigLen - 1
          PROVE  cells[k] = Erased
        <3>1. k \in Cells /\ k # step /\ k \in step .. SigLen - 1
            BY <1>1, <1>6 DEF Cells
        <3> QED
            BY <1>1, <1>4, <3>1 DEF SignedUpTo, SignatureBlank
    <2>2. ASSUME NEW k \in 0 .. (step + 1) - 1
          PROVE  cells[k] = dw.signature[k + 1]
        <3>1. k \in Cells /\ k \in Int /\ step \in Int
            BY <1>1, <1>6 DEF Cells
        <3>2. CASE k = step
            BY <1>4, <3>1, <3>2
        <3>3. CASE k # step
            <4>1. k \in 0 .. step - 1
                BY <3>1, <3>3
            <4> QED
                BY <1>1, <1>4, <3>1, <3>3, <4>1 DEF SignedUpTo
        <3> QED
            BY <3>2, <3>3
    <2>3. step + 1 <= SigLen
        BY <1>1, <1>6
    <2>4. SignatureBlank(cells, step + 1)
        BY <2>1 DEF SignatureBlank
    <2>5. \A k \in 0 .. (step + 1) - 1 : cells[k] = dw.signature[k + 1]
        BY <2>2, Zenon
    <2> QED
        BY <2>3, <2>4, <2>5 DEF SignedUpTo
<1>9. Types'
    BY <1>1, <1>2, <1>5 DEF Types
<1>10. Places'
    <2>1. Target' = Target
        BY <1>2 DEF Target
    <2> QED
        BY <1>1, <1>2, <1>5, <1>7, <1>8, <2>1 DEF Places
<1> QED
    BY <1>9, <1>10 DEF Inv

LEMMA OtaChangeInv ==
    ASSUME Inv, OtaChange
    PROVE  Inv'
<1>1. /\ Types /\ file \in Files /\ Target \in OTA_INDEX
      /\ Copied(file, Target, damaged, dw, slot[Target], rdp)
      /\ Checked(file, Target, damaged, rdp)
      /\ SignedUpTo(dw, slot[Target], SigLen)
    BY TargetIs DEF Inv, Types, Places, OtaChange
<1>2. /\ boot' = Target /\ pc' = "reset"
      /\ UNCHANGED <<slot, rdp, ota2Set, cur, file, damaged, step, dw>>
    BY DEF OtaChange
<1>3. Types'
    BY <1>1, <1>2 DEF Types
<1>4. Places'
    BY <1>1, <1>2 DEF Places, Target
<1> QED
    BY <1>3, <1>4 DEF Inv

LEMMA CmdOtaImageInv ==
    ASSUME Inv, NEW s \in OTA_INDEX, CmdOtaImage(s)
    PROVE  Inv'
<1>1. /\ boot' = s
      /\ UNCHANGED <<slot, rdp, ota2Set, cur, pc, file, damaged, step, dw>>
    BY DEF CmdOtaImage
<1>2. Types'
    BY <1>1 DEF Inv, Types
<1>3. Target' = Target
    BY <1>1 DEF Target
<1>4. VerifyOtaChecksum' <=> VerifyOtaChecksum
    BY <1>1, <1>3 DEF VerifyOtaChecksum
<1>5. Places'
    BY <1>1, <1>3, <1>4 DEF Inv, Places
<1> QED
    BY <1>2, <1>5 DEF Inv

\* A device as it leaves the factory.
LEMMA InitInv == Init => Inv
<1> SUFFICES ASSUME Init
             PROVE  Inv
    OBVIOUS
<1>1. PICK f \in Files :
         /\ slot = [s \in OTA_INDEX |->
                      [k \in Cells |->
                         IF s = 1 /\ k < f.len THEN Served(f, f.ota[1] + k)
                         ELSE Erased]]
         /\ rdp = [k \in RdpCells |->
                     IF k < f.rdpLen THEN Served(f, f.rdp + k) ELSE Erased]
    BY DEF Init
<1>2. /\ f.ota[1] \in Nat /\ f.rdp \in Nat /\ f.len \in Nat /\ f.rdpLen \in Nat
      /\ Total(f) \in Nat /\ f.ota[1] + f.len <= Total(f)
      /\ f.rdp + f.rdpLen <= Total(f) /\ SlotLen \in Nat /\ SectorLen \in Nat
    BY FileFacts, TotalBound, Lengths
<1>3. \A k \in Cells : k < f.len => Served(f, f.ota[1] + k) \in Bytes
    <2> TAKE k \in Cells
    <2> HAVE k < f.len
    <2>1. f.ota[1] + k \in Nat /\ f.ota[1] + k < Total(f)
        BY <1>2 DEF Cells
    <2> QED
        BY <2>1, SentByte
<1>4. \A k \in RdpCells : k < f.rdpLen => Served(f, f.rdp + k) \in Bytes
    <2> TAKE k \in RdpCells
    <2> HAVE k < f.rdpLen
    <2>1. f.rdp + k \in Nat /\ f.rdp + k < Total(f)
        BY <1>2 DEF RdpCells
    <2> QED
        BY <2>1, SentByte
<1>5. slot \in [OTA_INDEX -> [Cells -> Bytes]]
    BY <1>1, <1>3, ErasedByte
<1>6. rdp \in [RdpCells -> Bytes]
    BY <1>1, <1>4, ErasedByte
<1>7. DType(NoDownload)
    <2>1. <<>> \in Seq(Bytes) /\ Len(<<>>) = 0
        BY EmptySeq
    <2>2. NoDownload \in DRecord
        BY <2>1 DEF NoDownload, DRecord
    <2> QED
        BY <2>2, BufAssumption, Lengths DEF DType, NoDownload
<1>8. Types
    BY <1>5, <1>6, <1>7 DEF Init, Types, OTA_INDEX
<1>9. Places
    BY DEF Init, Places
<1> QED
    BY <1>8, <1>9 DEF Inv

LEMMA NextInv == Inv /\ [Next]_vars => Inv'
<1> SUFFICES ASSUME Inv, [Next]_vars
             PROVE  Inv'
    OBVIOUS
<1>1. CASE \E f \in Files : \E d \in Offsets(f) \cup {-1} : UpdateOtaLocal(f, d)
    BY <1>1, HeaderInv
<1>2. CASE RefuseHeader \/ TakeHeader \/ RefuseAddress \/ TakeAddress
    BY <1>2, HeaderInv
<1>3. CASE EraseSector
    BY <1>3, EraseSectorInv
<1>4. CASE EraseRdp
    BY <1>4, EraseRdpInv
<1>5. CASE \E n \in 1 .. BUF_SIZE : Receive(n)
    BY <1>5, ReceiveInv
<1>6. CASE ReusePacket
    BY <1>6, ReusePacketInv
<1>7. CASE ServerCloses
    BY <1>7, ServerClosesInv
<1>8. CASE ReadFails
    BY <1>8, ReadFailsInv
<1>9. CASE Verify
    BY <1>9, VerifyInv
<1>10. CASE ClearSignatureZone
    BY <1>10, ClearSignatureZoneInv
<1>11. CASE WriteSignature
    BY <1>11, WriteSignatureInv
<1>12. CASE OtaChange
    BY <1>12, OtaChangeInv
<1>13. CASE OtaPlatformReset \/ PowerLoss
    BY <1>13, RestartInv DEF OtaPlatformReset, PowerLoss
<1>14. CASE \E s \in OTA_INDEX : CmdOtaImage(s)
    BY <1>14, CmdOtaImageInv
<1>15. CASE UNCHANGED vars
    <2>1. UNCHANGED <<slot, rdp, ota2Set, boot, cur, pc, file, damaged, step, dw>>
        BY <1>15 DEF vars, flash
    <2>2. Types' /\ Places'
        <3>1. Target' = Target
            BY <2>1 DEF Target
        <3>2. VerifyOtaChecksum' <=> VerifyOtaChecksum
            BY <2>1, <3>1 DEF VerifyOtaChecksum
        <3> QED
            BY <2>1, <3>1, <3>2 DEF Inv, Types, Places
    <2> QED
        BY <2>2 DEF Inv
<1> QED
    BY <1>1, <1>2, <1>3, <1>4, <1>5, <1>6, <1>7, <1>8, <1>9, <1>10, <1>11, <1>12,
       <1>13, <1>14, <1>15 DEF Next, Update

LEMMA InvAlways == Spec => []Inv
  BY InitInv, NextInv, PTL DEF Spec

-----------------------------------------------------------------------------
(* The theorems.                                                           *)

\* The variables keep their types: no packet is longer than the read buffer, no
\* more than the signature is kept back, and the count of what is left to copy,
\* which the code keeps unsigned, ends an image without running below it.
THEOREM TypeCorrect == Spec => []TypeOK
<1>1. Inv => TypeOK
    <2> SUFFICES ASSUME Inv
                 PROVE  TypeOK
        OBVIOUS
    <2>1. Bytes \subseteq Values
        BY DEF Bytes
    <2>2. slot \in [OTA_INDEX -> [Cells -> Values]] /\ rdp \in [RdpCells -> Values]
        BY <2>1 DEF Inv, Types
    <2>3. file \in Files \cup {NoFile}
        BY DEF Inv, Places
    <2>4. /\ dw.buf \in Seq(Values) /\ dw.signature \in Seq(Values)
          /\ dw \in DRecord /\ dw.remain <= SlotLen /\ Len(dw.buf) <= BUF_SIZE
          /\ Len(dw.signature) <= SigLen
        <3>1. /\ dw \in DRecord /\ dw.buf \in Seq(Bytes) /\ dw.signature \in Seq(Bytes)
              /\ dw.remain <= SlotLen /\ Len(dw.buf) <= BUF_SIZE
              /\ Len(dw.signature) <= SigLen
            BY DEF Inv, Types, DType, DRecord
        <3>2. \A q \in Seq(Bytes) : q \in Seq(Values)
            BY <2>1
        <3> QED
            BY <3>1, <3>2
    <2>5. dw \in [i : 1 .. 2, remain : Int, started : BOOLEAN, reuse : BOOLEAN,
                  closed : BOOLEAN, received : Nat, size : Nat, otaSize : Int,
                  buf : Seq(Values), signature : Seq(Values)]
        BY <2>4 DEF DRecord
    <2> QED
        BY <2>2, <2>3, <2>4, <2>5 DEF Inv, Types, TypeOK
<1> QED
    BY <1>1, InvAlways, PTL

\* No byte of flash is programmed twice without an erase between, however the
\* server cuts its stream into packets and wherever the power is lost: a packet
\* that is gone through again for the next image, or a signature that came in
\* parts, never sends a byte to a cell that has one.
THEOREM NeverProgrammedTwice == Spec => []ProgrammedOnce
<1>1. Inv => ProgrammedOnce
    BY DEF Inv, Types, Bytes, ProgrammedOnce
<1> QED
    BY <1>1, InvAlways, PTL

\* The slot the running firmware is in is never erased or written, whatever slot
\* the console makes the next to boot.
THEOREM RunningSlotUntouched == Spec => RunningImageUntouched
<1>1. Inv /\ [Next]_vars => [cur' = cur => slot'[cur] = slot[cur]]_vars
    <2> SUFFICES ASSUME Inv, [Next]_vars, cur' = cur, ~UNCHANGED vars
                 PROVE  slot'[cur] = slot[cur]
        OBVIOUS
    <2>1. /\ cur \in OTA_INDEX /\ Target \in OTA_INDEX /\ Target # cur
          /\ slot \in [OTA_INDEX -> [Cells -> Bytes]]
        BY TargetIs DEF Inv, Types
    <2>2. ASSUME NEW cells, slot' = [slot EXCEPT ![Target] = cells]
          PROVE  slot'[cur] = slot[cur]
        BY <2>1, <2>2
    <2>3. CASE EraseSector
        BY <2>2, <2>3 DEF EraseSector
    <2>4. ASSUME NEW buf, NEW received, Consume(buf, received)
          PROVE  slot'[cur] = slot[cur]
        <3> DEFINE kept == CutToRest(SubSeq(BytesOfImage(buf, received),
                              Len(SignaturePart(BytesOfImage(buf, received))) + 1,
                              Len(BytesOfImage(buf, received))))
                   cells == Program(slot[Target], SigLen + dw.size, kept)
        <3>1. slot' = [slot EXCEPT ![Target] = cells] \/ slot' = slot
            BY <2>1, <2>4 DEF Consume
        <3> HIDE DEF cells
        <3> QED
            BY <2>2, <3>1
    <2>5. CASE \E n \in 1 .. BUF_SIZE : Receive(n)
        BY <2>4, <2>5 DEF Receive
    <2>6. CASE ReusePacket
        BY <2>4, <2>6 DEF ReusePacket
    <2>7. CASE ClearSignatureZone
        <3>1. slot' = [slot EXCEPT ![Target] = EraseSectorAt(slot[Target], 0)]
            BY <2>1, <2>7 DEF ClearSignatureZone
        <3> QED
            BY <2>2, <3>1
    <2>8. CASE WriteSignature
        <3>1. slot' = [slot EXCEPT ![Target] =
                         Program(slot[Target], step, <<dw.signature[step + 1]>>)]
            BY <2>1, <2>8 DEF WriteSignature
        <3> QED
            BY <2>2, <3>1
    <2>9. CASE \/ \E f \in Files : \E d \in Offsets(f) \cup {-1} : UpdateOtaLocal(f, d)
               \/ RefuseHeader \/ TakeHeader \/ RefuseAddress \/ TakeAddress
               \/ EraseRdp
        BY <2>9 DEF UpdateOtaLocal, RefuseHeader, TakeHeader, RefuseAddress,
                    TakeAddress, EraseRdp, flash
    <2>10. CASE \/ ServerCloses \/ ReadFails \/ Verify \/ OtaChange
                \/ OtaPlatformReset \/ PowerLoss
                \/ \E s \in OTA_INDEX : CmdOtaImage(s)
        BY <2>10 DEF ServerCloses, ReadFails, Verify, OtaChange, OtaPlatformReset,
                     PowerLoss, Restart, CmdOtaImage, flash
    <2> QED
        BY <2>3, <2>5, <2>6, <2>7, <2>8, <2>9, <2>10 DEF Next, Update
<1>2. [][cur' = cur => slot'[cur] = slot[cur]]_vars => RunningImageUntouched
    BY DEF RunningImageUntouched
<1> QED
    BY <1>1, <1>2, InvAlways, PTL DEF Spec

\* From the erase of its last sector until the checksum has been looked at, the
\* slot being written has no byte of a signature: were the power lost, the boot
\* loader would pass it over.
UnverifiedNotSigned ==
    pc \in {"eraseRdp", "download", "verify"} =>
        \A k \in 0 .. SigLen - 1 : slot[Target][k] = Erased

THEOREM NoSignatureBeforeVerify == Spec => []UnverifiedNotSigned
<1>1. Inv => UnverifiedNotSigned
    <2> SUFFICES ASSUME Inv, pc \in {"eraseRdp", "download", "verify"}
                 PROVE  \A k \in 0 .. SigLen - 1 : slot[Target][k] = Erased
        BY DEF UnverifiedNotSigned
    <2>1. CASE pc = "eraseRdp"
        <3>1. file \in Files /\ \A k \in 0 .. file.len - 1 : slot[Target][k] = Erased
            BY <2>1 DEF Inv, Places
        <3>2. \A k \in 0 .. SigLen - 1 : k \in 0 .. file.len - 1
            BY <3>1, FileFacts, Lengths
        <3> QED
            BY <3>1, <3>2
    <2>2. CASE pc \in {"download", "verify"}
        BY <2>2 DEF Inv, Places, Copying, SignatureBlank
    <2> QED
        BY <2>1, <2>2
<1> QED
    BY <1>1, InvAlways, PTL

\* A stream that arrived undamaged and whole is never refused for its checksum,
\* however it was cut into packets: the packet that is gone through twice puts
\* every byte of either image into the sum, and the signature that was kept back
\* is in it too.
THEOREM GoodStreamAccepted == Spec => []UndamagedNotRefused
<1>1. Inv => UndamagedNotRefused
    BY ChecksumTells DEF Inv, Places, UndamagedNotRefused
<1> QED
    BY <1>1, InvAlways, PTL

LEMMA SignedIsImage ==
    ASSUME NEW f \in Files, NEW t \in OTA_INDEX, NEW m \in Int, NEW d, NEW cells, NEW r,
           Copied(f, t, m, d, cells, r), Checked(f, t, m, r),
           SignedUpTo(d, cells, SigLen)
    PROVE  IsImage(cells, 0, f, t)
<1>1. /\ f.ota[t] \in Nat /\ f.len \in Nat /\ SigLen \in Nat /\ SigLen < f.len
      /\ m - f.ota[t] \notin 0 .. f.len - 1
    BY FileFacts, Lengths DEF Checked
<1>2. ASSUME NEW k \in 0 .. f.len - 1
      PROVE  cells[0 + k] = Served(f, f.ota[t] + k)
    <2>1. 0 + k = k /\ f.ota[t] + k # m
        BY <1>1
    <2>2. CASE k < SigLen
        <3>1. /\ k \in 0 .. SigLen - 1 /\ k + 1 \in 1 .. SigLen
              /\ f.ota[t] + (k + 1) - 1 = f.ota[t] + k
            BY <1>1, <2>2
        <3>2. d.signature[k + 1] = Sent(f, m, f.ota[t] + (k + 1) - 1)
            BY <3>1 DEF Copied, SignatureArrived
        <3>3. cells[k] = d.signature[k + 1]
            BY <3>1 DEF SignedUpTo
        <3> QED
            BY <2>1, <3>1, <3>2, <3>3 DEF Sent
    <2>3. CASE k >= SigLen
        <3>1. k \in SigLen .. SigLen + (f.len - SigLen) - 1
            BY <1>1, <2>3
        <3> QED
            BY <2>1, <3>1 DEF Copied, OtaInPlace, Sent
    <2> QED
        BY <1>1, <2>2, <2>3
<1> QED
    BY <1>2 DEF IsImage

\* When the task has changed the boot index, the slot is the image the server
\* holds, byte for byte, whatever byte of the stream was damaged and however it was
\* cut: the one byte that may differ changes the sum.  So is the RDP image, unless
\* the server closed before its end.
CommitsUnlessCut ==
    pc = "reset" => /\ IsImage(slot[Target], 0, file, Target)
                    /\ ~dw.closed => IsRdp(rdp, file)

THEOREM CopyFaithful == Spec => []CommitsUnlessCut
<1>1. Inv => CommitsUnlessCut
    <2> SUFFICES ASSUME Inv, pc = "reset"
                 PROVE  /\ IsImage(slot[Target], 0, file, Target)
                        /\ ~dw.closed => IsRdp(rdp, file)
        BY DEF CommitsUnlessCut
    <2>1. /\ file \in Files /\ damaged \in Int /\ Target \in OTA_INDEX
          /\ Copied(file, Target, damaged, dw, slot[Target], rdp)
          /\ Checked(file, Target, damaged, rdp)
          /\ SignedUpTo(dw, slot[Target], SigLen)
        BY TargetIs DEF Inv, Types, Places
    <2>2. ASSUME ~dw.closed
          PROVE  IsRdp(rdp, file)
        <3>1. RdpInPlace(file, damaged, rdp, file.rdpLen)
            BY <2>1, <2>2 DEF Copied, RdpCopied
        <3>2. SumOf(rdp, 0, file.rdpLen) = FileSum(file, file.rdp, file.rdpLen)
            BY <2>1 DEF Checked
        <3> QED
            BY <2>1, <3>1, <3>2, RdpSum
    <2> QED
        BY <2>1, <2>2, SignedIsImage
<1> QED
    BY <1>1, InvAlways, PTL

\* What is there of the RDP image, by the definition of CutsAreNoticed.
LEMMA RdpIsNoticed ==
    ASSUME CutsAreNoticed, NEW f \in Files, NEW m \in Int, NEW r \in [RdpCells -> Bytes],
           NEW n \in 0 .. f.rdpLen, RdpInPlace(f, m, r, n), RdpBlank(f, r, n),
           SumOf(r, 0, f.rdpLen) = FileSum(f, f.rdp, f.rdpLen)
    PROVE  IsRdp(r, f)
<1>1. /\ f.rdp \in Nat /\ f.rdpLen \in Nat /\ f.hdr \in Nat /\ Total(f) \in Nat
      /\ f.rdp + f.rdpLen <= Total(f) /\ (f.rdpLen > 0 => f.hdr <= f.rdp)
    BY FileFacts, TotalBound, LayoutAssumption DEF OTA_INDEX
<1> DEFINE d == IF m - f.rdp \in 0 .. f.rdpLen - 1 THEN m ELSE -1
<1>2. d \in Offsets(f) \cup {-1}
    BY <1>1 DEF Offsets
<1>3. \A k \in 0 .. f.rdpLen - 1 : f.rdp + k = m <=> f.rdp + k = d
    BY <1>1
<1> HIDE DEF d
<1> DEFINE q == RdpCut(f, d, n)
<1>4. \A k \in 0 .. f.rdpLen - 1 : r[0 + k] = q[0 + k] /\ 0 + k = k
    <2> TAKE k \in 0 .. f.rdpLen - 1
    <2>1. k \in Int /\ n \in Int /\ 0 + k = k
        BY <1>1
    <2>2. q[k] = IF k >= n THEN Erased
                 ELSE IF f.rdp + k = d THEN Corrupted ELSE Served(f, f.rdp + k)
        BY DEF RdpCut
    <2>3. CASE k >= n
        BY <1>1, <2>1, <2>2, <2>3 DEF RdpBlank
    <2>4. CASE ~(k >= n)
        <3>1. r[k] = Sent(f, m, f.rdp + k)
            BY <1>1, <2>1, <2>4 DEF RdpInPlace
        <3> QED
            BY <1>3, <2>1, <2>2, <2>4, <3>1 DEF Sent
    <2> QED
        BY <2>3, <2>4
<1> HIDE DEF q
<1>5. SumOf(q, 0, f.rdpLen) = FileSum(f, f.rdp, f.rdpLen)
    <2>1. 0 \in Int /\ f.rdpLen \in Nat /\ \A k \in 0 .. f.rdpLen - 1 : r[0 + k] = q[0 + k]
        BY <1>1, <1>4
    <2>2. SumOf(r, 0, f.rdpLen) = SumOf(q, 0, f.rdpLen)
        BY <2>1, SumSame DEF SumsAlike
    <2> QED
        BY <2>2
<1>6. IsRdp(q, f)
    BY <1>2, <1>5 DEF CutsAreNoticed, q
<1> QED
    BY <1>4, <1>6 DEF IsRdp

\* The RDP image that goes with it is the one the server holds too, if a cut of it
\* is noticed: that image alone is copied although the server closed early.
THEOREM OnlyServedCommitted == CutsAreNoticed => (Spec => []CommitsServedImage)
<1> SUFFICES ASSUME CutsAreNoticed
             PROVE  Spec => []CommitsServedImage
    OBVIOUS
<1>1. Inv => CommitsServedImage
    <2> SUFFICES ASSUME Inv, pc = "reset"
                 PROVE  IsImage(slot[Target], 0, file, Target) /\ IsRdp(rdp, file)
        BY DEF CommitsServedImage
    <2>1. /\ file \in Files /\ damaged \in Int /\ rdp \in [RdpCells -> Bytes]
          /\ RdpCopied(file, damaged, dw, rdp)
          /\ SumOf(rdp, 0, file.rdpLen) = FileSum(file, file.rdp, file.rdpLen)
        BY DEF Inv, Types, Places, Copied, Checked
    <2>2. PICK n \in 0 .. file.rdpLen : RdpInPlace(file, damaged, rdp, n)
                                        /\ RdpBlank(file, rdp, n)
        BY <2>1 DEF RdpCopied
    <2>3. IsRdp(rdp, file)
        BY <2>1, <2>2, RdpIsNoticed
    <2>4. IsImage(slot[Target], 0, file, Target)
        BY TargetIs, SignedIsImage DEF Inv, Types, Places
    <2> QED
        BY <2>3, <2>4
<1> QED
    BY <1>1, InvAlways, PTL

-----------------------------------------------------------------------------
(* What the boot loader sees.  A slot without a byte of its signature holds  *)
(* nothing, and a signed slot holds the image it is signed for.             *)

Unsigned(cells) == \E k \in 0 .. SigLen - 1 : cells[k] = Erased

\* holds of Firmware, by the refinement mapping of OtaUpdate.
Holding == [s \in OTA_INDEX |->
              IF s = 2 /\ ~ota2Set THEN NoFile ELSE Held(slot[s], 0, s)]

\* The state of the slots between two actions of any kind.
ImagesInv ==
    /\ \A s \in OTA_INDEX : Signed(slot[s], 0, s) => Complete(slot[s], 0, s)
    /\ ~ota2Set => pc \in {"idle", "header", "address"} /\ ~Complete(slot[2], 0, 2)

LEMMA NoFileIsNone == NoFile \notin Files
<1>1. NoFile.len = 0
    BY DEF NoFile
<1> QED
    BY <1>1, FileFacts, Lengths

LEMMA HeldIsImage ==
    ASSUME NEW s \in OTA_INDEX, NEW f \in Files, NEW cells, IsImage(cells, 0, f, s)
    PROVE  Complete(cells, 0, s) /\ Held(cells, 0, s) = f
<1>1. Complete(cells, 0, s)
    BY DEF Complete
<1>2. ASSUME NEW g \in Files, IsImage(cells, 0, g, s)
      PROVE  g = f
    <2> SUFFICES ASSUME g # f PROVE FALSE
        OBVIOUS
    <2>1. PICK k \in 0 .. f.len - 1 :
             k < g.len /\ Served(f, f.ota[s] + k) # Served(g, g.ota[s] + k)
        BY SignatureAssumption
    <2>2. k \in 0 .. g.len - 1
        BY <2>1, FileFacts
    <2> QED
        BY <1>2, <2>1, <2>2 DEF IsImage
<1>3. (CHOOSE g \in Files : IsImage(cells, 0, g, s)) = f
    BY <1>2
<1> QED
    BY <1>1, <1>3 DEF Held

LEMMA CompleteIsSigned ==
    ASSUME NEW s \in OTA_INDEX, NEW cells, Complete(cells, 0, s)
    PROVE  /\ Signed(cells, 0, s) /\ Held(cells, 0, s) \in Files
           /\ Held(cells, 0, s) # NoFile
<1>1. PICK f \in Files : IsImage(cells, 0, f, s)
    BY DEF Complete
<1>2. Held(cells, 0, s) = f
    BY <1>1, HeldIsImage
<1>3. \A k \in 0 .. SigLen - 1 : cells[0 + k] = Served(f, f.ota[s] + k)
    <2> TAKE k \in 0 .. SigLen - 1
    <2>1. k \in 0 .. f.len - 1
        BY FileFacts, Lengths
    <2> QED
        BY <1>1, <2>1 DEF IsImage
<1> QED
    BY <1>2, <1>3, NoFileIsNone DEF Signed

LEMMA UnsignedHoldsNone ==
    ASSUME NEW s \in OTA_INDEX, NEW cells, Unsigned(cells)
    PROVE  ~Signed(cells, 0, s) /\ ~Complete(cells, 0, s) /\ Held(cells, 0, s) = NoFile
<1>1. PICK k \in 0 .. SigLen - 1 : cells[k] = Erased
    BY DEF Unsigned
<1>2. 0 + k = k
    BY Lengths
<1>3. ~Signed(cells, 0, s)
    <2> SUFFICES ASSUME Signed(cells, 0, s) PROVE FALSE
        OBVIOUS
    <2>1. PICK f \in Files : cells[0 + k] = Served(f, f.ota[s] + k)
        BY DEF Signed
    <2> QED
        BY <1>1, <1>2, <2>1, SignatureAssumption
<1>4. ~Complete(cells, 0, s)
    BY <1>3, CompleteIsSigned
<1> QED
    BY <1>3, <1>4 DEF Held

\* A slot whose first byte is erased.
LEMMA FirstErased ==
    ASSUME NEW cells, cells[0] = Erased
    PROVE  Unsigned(cells)
<1>1. 0 \in 0 .. SigLen - 1
    BY Lengths
<1> QED
    BY <1>1 DEF Unsigned

\* What a step makes of the slot it writes is nothing, or the image on offer.
Replaced(cells) ==
    /\ ota2Set /\ ota2Set' = ota2Set
    /\ slot' = [slot EXCEPT ![Target] = cells]
    /\ Unsigned(cells) \/ \E f \in Files : IsImage(cells, 0, f, Target)

LEMMA ReplacedImages ==
    ASSUME Inv, ImagesInv, NEW cells, Replaced(cells)
    PROVE  /\ ImagesInv'
           /\ Holding' = [Holding EXCEPT ![Target] = Held(cells, 0, Target)]
<1>1. /\ Target \in OTA_INDEX /\ slot \in [OTA_INDEX -> [Cells -> Bytes]]
    BY TargetIs DEF Inv, Types
<1>2. /\ slot'[Target] = cells
      /\ \A s \in OTA_INDEX : s # Target => slot'[s] = slot[s]
    BY <1>1 DEF Replaced
<1>3. Signed(cells, 0, Target) => Complete(cells, 0, Target)
    BY <1>1, UnsignedHoldsNone, HeldIsImage DEF Replaced
<1>4. ImagesInv'
    <2>1. \A s \in OTA_INDEX : Signed(slot'[s], 0, s) => Complete(slot'[s], 0, s)
        <3> TAKE s \in OTA_INDEX
        <3>1. CASE s = Target
            BY <1>2, <1>3, <3>1
        <3>2. CASE s # Target
            BY <1>2, <3>2 DEF ImagesInv
        <3> QED
            BY <3>1, <3>2
    <2>2. ota2Set'
        BY DEF Replaced
    <2> QED
        BY <2>1, <2>2 DEF ImagesInv
<1>5. Holding' = [Holding EXCEPT ![Target] = Held(cells, 0, Target)]
    <2>1. /\ Holding = [s \in OTA_INDEX |-> Held(slot[s], 0, s)]
          /\ Holding' = [s \in OTA_INDEX |-> Held(slot'[s], 0, s)]
        <3>1. ota2Set /\ ota2Set'
            BY DEF Replaced
        <3> QED
            BY <3>1 DEF Holding
    <2> DEFINE v == Held(cells, 0, Target)
    <2>2. \A s \in OTA_INDEX : s # Target => Held(slot'[s], 0, s) = Held(slot[s], 0, s)
        BY <1>2
    <2>3. Held(slot'[Target], 0, Target) = v
        BY <1>2
    <2> HIDE DEF v
    <2>4. Holding' = [Holding EXCEPT ![Target] = v]
        BY <1>1, <2>1, <2>2, <2>3
    <2> QED
        BY <2>4 DEF v
<1> QED
    BY <1>4, <1>5

\* The slot that is written held nothing, and holds nothing.
LEMMA StillNone ==
    ASSUME Inv, ImagesInv, NEW cells, Replaced(cells), Unsigned(cells),
           Unsigned(slot[Target])
    PROVE  ImagesInv' /\ Holding' = Holding
<1>1. Target \in OTA_INDEX
    BY TargetIs DEF Inv, Types
<1>2. ImagesInv' /\ Holding' = [Holding EXCEPT ![Target] = NoFile]
    BY <1>1, ReplacedImages, UnsignedHoldsNone
<1>3. Holding[Target] = NoFile
    BY <1>1, UnsignedHoldsNone DEF Holding
<1>4. Holding = [s \in OTA_INDEX |-> Holding[s]]
    BY DEF Holding
<1>5. [Holding EXCEPT ![Target] = NoFile] = Holding
    BY <1>1, <1>3, <1>4
<1> QED
    BY <1>2, <1>5

\* A step that leaves the slots alone.
LEMMA SlotsKept ==
    ASSUME Inv, ImagesInv, slot' = slot, ota2Set' = ota2Set,
           ota2Set \/ pc' \in {"idle", "header", "address"}
    PROVE  ImagesInv' /\ Holding' = Holding
<1>1. ImagesInv'
    BY DEF ImagesInv
<1> QED
    BY <1>1 DEF Holding

-----------------------------------------------------------------------------
(* Each action of the task is one of Firmware, or none.                    *)

LEMMA Stutters ==
    ASSUME UNCHANGED <<Holding, boot, cur, file>>
    PROVE  [FW!Next]_(FW!vars)
  BY DEF FW!vars, Holding

LEMMA Withdraws ==
    ASSUME UNCHANGED <<Holding, boot, cur>>, file' = NoFile
    PROVE  [FW!Next]_(FW!vars)
<1>1. FW!Withdraw
    BY DEF FW!Withdraw, Holding
<1> QED
    BY <1>1 DEF FW!Next

LEMMA Erases ==
    ASSUME NEW s \in OTA_INDEX, s # cur, UNCHANGED <<boot, cur, file>>,
           Holding' = [Holding EXCEPT ![s] = NoFile]
    PROVE  [FW!Next]_(FW!vars)
<1>1. FW!Erase(s)
    BY DEF FW!Erase, Holding
<1> QED
    BY <1>1 DEF FW!Next

LEMMA Installs ==
    ASSUME NEW s \in OTA_INDEX, s # cur, UNCHANGED <<boot, cur, file>>,
           file # NoFile, Holding[s] = NoFile,
           Holding' = [Holding EXCEPT ![s] = file]
    PROVE  [FW!Next]_(FW!vars)
<1>1. FW!Install(s)
    BY DEF FW!Install, Holding
<1> QED
    BY <1>1 DEF FW!Next

LEMMA Selects ==
    ASSUME NEW s \in OTA_INDEX, boot' = s, UNCHANGED <<Holding, cur, file>>
    PROVE  [FW!Next]_(FW!vars)
<1>1. FW!Select(s)
    BY DEF FW!Select, Holding
<1> QED
    BY <1>1 DEF FW!Next

LEMMA Offers ==
    ASSUME NEW f \in Files, file = NoFile, file' = f, UNCHANGED <<Holding, boot, cur>>
    PROVE  [FW!Next]_(FW!vars)
<1>1. FW!Offer(f)
    BY DEF FW!Offer, Holding
<1> QED
    BY <1>1 DEF FW!Next

\* The boot loader takes a slot that holds an image, and the one to boot if that
\* is one of them.
LEMMA RestartRefines ==
    ASSUME Inv, ImagesInv, Restart
    PROVE  ImagesInv' /\ [FW!Next]_(FW!vars)
<1>1. /\ cur' \in BootLoader /\ file' = NoFile /\ pc' = "idle"
      /\ UNCHANGED <<slot, ota2Set, boot>> /\ boot \in OTA_INDEX
    BY DEF Restart, flash, Inv, Types
<1>2. ImagesInv' /\ Holding' = Holding
    BY <1>1, SlotsKept
<1>3. \A s \in OTA_INDEX : Holding[s] # NoFile <=> s \in Bootable
    <2> TAKE s \in OTA_INDEX
    <2>1. Holding[s] = IF s = 2 /\ ~ota2Set THEN NoFile ELSE Held(slot[s], 0, s)
        BY DEF Holding
    <2>2. s \in Bootable <=> Signed(slot[s], 0, s) /\ (s = 2 => ota2Set)
        BY DEF Bootable
    <2>3. Signed(slot[s], 0, s) <=> Complete(slot[s], 0, s)
        BY CompleteIsSigned DEF ImagesInv
    <2>4. Held(slot[s], 0, s) # NoFile <=> Complete(slot[s], 0, s)
        BY CompleteIsSigned DEF Held
    <2> QED
        BY <2>1, <2>2, <2>3, <2>4
<1>4. cur' \in OTA_INDEX /\ cur' \in Bootable /\ (boot \in Bootable => cur' = boot)
    BY <1>1 DEF BootLoader, Bootable
<1>5. FW!Restart(cur')
    BY <1>1, <1>2, <1>3, <1>4 DEF FW!Restart, Holding
<1> QED
    BY <1>2, <1>4, <1>5 DEF FW!Next

\* The headers and the address.  When the address of OTA2 is written, there is
\* nothing in that slot that it would bring to light.
LEMMA HeaderRefines ==
    ASSUME Inv, ImagesInv,
           \/ \E f \in Files : \E m \in Offsets(f) \cup {-1} : UpdateOtaLocal(f, m)
           \/ RefuseHeader \/ TakeHeader \/ RefuseAddress \/ TakeAddress
    PROVE  ImagesInv' /\ [FW!Next]_(FW!vars)
<1>1. CASE \E f \in Files : \E m \in Offsets(f) \cup {-1} : UpdateOtaLocal(f, m)
    <2>1. PICK f \in Files : \E m \in Offsets(f) \cup {-1} : UpdateOtaLocal(f, m)
        BY <1>1
    <2>2. /\ pc = "idle" /\ pc' = "header" /\ file' = f
          /\ UNCHANGED <<slot, ota2Set, boot, cur>>
        BY <2>1 DEF UpdateOtaLocal, flash
    <2>3. ImagesInv' /\ Holding' = Holding /\ file = NoFile
        BY <2>2, SlotsKept DEF Inv, Places
    <2> QED
        BY <2>2, <2>3, Offers
<1>2. CASE RefuseHeader
    <2>1. /\ pc' = "idle" /\ file' = NoFile /\ UNCHANGED <<slot, ota2Set, boot, cur>>
        BY <1>2 DEF RefuseHeader, Exit, flash
    <2> QED
        BY <2>1, SlotsKept, Withdraws
<1>3. CASE TakeHeader
    <2>1. /\ pc' = "address" /\ UNCHANGED <<slot, ota2Set, boot, cur, file>>
        BY <1>3 DEF TakeHeader, flash
    <2> QED
        BY <2>1, SlotsKept, Stutters
<1>4. ASSUME slot' = slot, ota2Set' = TRUE
      PROVE  ImagesInv' /\ Holding' = Holding
    <2>1. CASE ota2Set
        <3>1. ota2Set' = ota2Set
            BY <1>4, <2>1 DEF Inv, Types
        <3> QED
            BY <1>4, <2>1, <3>1, SlotsKept
    <2>2. CASE ~ota2Set
        <3>1. Held(slot[2], 0, 2) = NoFile
            BY <2>2 DEF ImagesInv, Held
        <3>2. Holding' = Holding
            BY <1>4, <2>2, <3>1 DEF Holding
        <3>3. ImagesInv'
            BY <1>4 DEF ImagesInv
        <3> QED
            BY <3>2, <3>3
    <2> QED
        BY <2>1, <2>2
<1>5. CASE RefuseAddress
    <2>1. /\ file' = NoFile /\ ota2Set' = TRUE /\ UNCHANGED <<slot, boot, cur>>
        BY <1>5 DEF RefuseAddress, Exit
    <2> QED
        BY <1>4, <2>1, Withdraws
<1>6. CASE TakeAddress
    <2>1. /\ ota2Set' = TRUE /\ UNCHANGED <<slot, boot, cur, file>>
        BY <1>6 DEF TakeAddress
    <2> QED
        BY <1>4, <2>1, Stutters
<1> QED
    BY <1>1, <1>2, <1>3, <1>5, <1>6

\* Erasing begins with the sector of the signature.
LEMMA EraseSectorRefines ==
    ASSUME Inv, ImagesInv, EraseSector
    PROVE  ImagesInv' /\ [FW!Next]_(FW!vars)
<1> DEFINE cells == EraseSectorAt(slot[Target], step)
<1>1. /\ pc = "erase" /\ file \in Files /\ Target \in OTA_INDEX /\ Target # cur
      /\ slot[Target] \in [Cells -> Bytes] /\ step \in Nat
      /\ BlankBelow(file, slot[Target], step) /\ ota2Set
    BY TargetIs DEF Inv, Types, Places, ImagesInv, EraseSector
<1>2. /\ slot' = [slot EXCEPT ![Target] = cells]
      /\ UNCHANGED <<ota2Set, boot, cur, file>>
    BY DEF EraseSector
<1>3. \A k \in Cells : cells[k] = IF k \div SectorLen = step THEN Erased
                                 ELSE slot[Target][k]
    BY <1>1, EraseSectorOn
<1> HIDE DEF cells
<1>4. cells[0] = Erased
    <2>1. 0 \in Cells /\ 0 \in 0 .. file.len - 1 /\ 0 \div SectorLen = 0
        <3>1. SectorLen \in Nat /\ SectorLen > 0 /\ file.len \in Nat /\ file.len > 0
              /\ SlotLen \in Nat /\ SlotLen > 0
            BY <1>1, Lengths, FileFacts
        <3> QED
            BY <3>1 DEF Cells
    <2>2. CASE step = 0
        BY <1>3, <2>1, <2>2
    <2>3. CASE step > 0
        <3>1. slot[Target][0] = Erased
            BY <1>1, <2>1, <2>3 DEF BlankBelow
        <3> QED
            BY <1>3, <2>1, <2>3, <3>1
    <2> QED
        BY <1>1, <2>2, <2>3
<1>5. Replaced(cells) /\ Held(cells, 0, Target) = NoFile
    BY <1>1, <1>2, <1>4, FirstErased, UnsignedHoldsNone DEF Replaced
<1>6. ImagesInv' /\ Holding' = [Holding EXCEPT ![Target] = NoFile]
    BY <1>5, ReplacedImages
<1> QED
    BY <1>1, <1>2, <1>6, Erases

\* A pass over a packet leaves the cells of the signature alone.
LEMMA ConsumeRefines ==
    ASSUME Inv, ImagesInv, pc = "download", NEW buf, NEW received,
           Consume(buf, received)
    PROVE  ImagesInv' /\ [FW!Next]_(FW!vars)
<1> DEFINE kept == CutToRest(SubSeq(BytesOfImage(buf, received),
                      Len(SignaturePart(BytesOfImage(buf, received))) + 1,
                      Len(BytesOfImage(buf, received))))
           cells == IF Image.kind = "OTA"
                    THEN Program(slot[Target], SigLen + dw.size, kept)
                    ELSE slot[Target]
<1>1. /\ Target \in OTA_INDEX /\ slot \in [OTA_INDEX -> [Cells -> Bytes]] /\ ota2Set
      /\ dw.size \in Nat /\ SignatureBlank(slot[Target], 0)
    BY TargetIs DEF Inv, Types, DType, DRecord, Places, Copying, ImagesInv
<1>2. slot' = [slot EXCEPT ![Target] = cells]
    BY <1>1 DEF Consume
<1>3. UNCHANGED <<ota2Set, boot, cur>> /\ file' \in {file, NoFile}
    BY DEF Consume, FinishImage, Exit
<1>4. slot[Target][0] = Erased /\ slot[Target] \in [Cells -> Bytes] /\ 0 \in Cells
    <2>1. 0 \in 0 .. SigLen - 1 /\ 0 \in Cells
        BY Lengths DEF Cells
    <2> QED
        BY <1>1, <2>1 DEF SignatureBlank
<1>5. cells[0] = Erased
    <2>1. CASE Image.kind = "OTA"
        <3> DEFINE from == SigLen + dw.size
        <3>1. from \in Int /\ ~(0 >= from)
            BY <1>1, Lengths
        <3> HIDE DEF from, kept
        <3>2. 0 \notin from .. from + Len(kept) - 1
            BY <3>1
        <3>3. Program(slot[Target], from, kept)[0] = slot[Target][0]
            BY <1>4, <3>2 DEF Program
        <3> QED
            BY <1>4, <2>1, <3>3 DEF from
    <2> QED
        BY <1>4, <2>1
<1> HIDE DEF cells
<1>6. Replaced(cells) /\ Unsigned(cells) /\ Unsigned(slot[Target])
    BY <1>1, <1>2, <1>3, <1>4, <1>5, FirstErased DEF Replaced
<1>7. ImagesInv' /\ Holding' = Holding
    BY <1>6, StillNone
<1> QED
    BY <1>3, <1>7, Stutters, Withdraws

\* The steps of the download and of the check that write no slot.
LEMMA AsideRefines ==
    ASSUME Inv, ImagesInv, EraseRdp \/ ServerCloses \/ ReadFails \/ Verify
    PROVE  ImagesInv' /\ [FW!Next]_(FW!vars)
<1>1. ota2Set /\ UNCHANGED <<slot, ota2Set, boot, cur>> /\ file' \in {file, NoFile}
    BY DEF EraseRdp, ServerCloses, FinishImage, ReadFails, Verify, Exit, flash, ImagesInv
<1>2. ImagesInv' /\ Holding' = Holding
    BY <1>1, SlotsKept
<1> QED
    BY <1>1, <1>2, Stutters, Withdraws

\* What failed the check had no signature yet.
LEMMA ClearRefines ==
    ASSUME Inv, ImagesInv, ClearSignatureZone
    PROVE  ImagesInv' /\ [FW!Next]_(FW!vars)
<1> DEFINE cells == EraseSectorAt(slot[Target], 0)
<1>1. /\ Target \in OTA_INDEX /\ slot \in [OTA_INDEX -> [Cells -> Bytes]] /\ ota2Set
      /\ SignatureBlank(slot[Target], 0)
    BY TargetIs DEF Inv, Types, Places, ImagesInv, ClearSignatureZone
<1>2. /\ slot' = [slot EXCEPT ![Target] = cells]
      /\ UNCHANGED <<ota2Set, boot, cur>> /\ file' = NoFile
    BY <1>1 DEF ClearSignatureZone, Exit
<1>3. cells[0] = Erased /\ slot[Target][0] = Erased
    <2>1. 0 \in 0 .. SigLen - 1 /\ 0 \in Cells /\ 0 \div SectorLen = 0
        BY Lengths DEF Cells
    <2>2. slot[Target] \in [Cells -> Bytes]
        BY <1>1
    <2> QED
        BY <1>1, <2>1, <2>2, EraseSectorOn DEF SignatureBlank
<1> HIDE DEF cells
<1>4. Replaced(cells) /\ Unsigned(cells) /\ Unsigned(slot[Target])
    BY <1>1, <1>2, <1>3, FirstErased DEF Replaced
<1>5. ImagesInv' /\ Holding' = Holding
    BY <1>4, StillNone
<1> QED
    BY <1>2, <1>5, Withdraws

\* The last byte of the signature makes a whole image of the slot, and no other
\* byte does.
LEMMA WriteSignatureRefines ==
    ASSUME Inv, Inv', ImagesInv, WriteSignature
    PROVE  ImagesInv' /\ [FW!Next]_(FW!vars)
<1> DEFINE cells == Program(slot[Target], step, <<dw.signature[step + 1]>>)
<1>1. /\ Target \in OTA_INDEX /\ Target # cur /\ ota2Set
      /\ slot \in [OTA_INDEX -> [Cells -> Bytes]] /\ file \in Files
      /\ SignedUpTo(dw, slot[Target], step) /\ step \in Nat /\ step < SigLen
      /\ pc = "sign"
    BY TargetIs DEF Inv, Types, Places, ImagesInv, WriteSignature
<1>2. /\ slot' = [slot EXCEPT ![Target] = cells] /\ step' = step + 1
      /\ UNCHANGED <<ota2Set, boot, cur, file, pc, dw>>
    BY <1>1 DEF WriteSignature
<1> HIDE DEF cells
<1>3. slot'[Target] = cells /\ Target' = Target
    BY <1>1, <1>2 DEF Target
<1>4. SignedUpTo(dw, cells, step + 1)
    <2>1. SignedUpTo(dw', slot'[Target'], step')
        BY <1>1, <1>2 DEF Inv, Places
    <2> QED
        BY <1>2, <1>3, <2>1
<1>5. Unsigned(slot[Target])
    <2>1. step \in step .. SigLen - 1 /\ step \in 0 .. SigLen - 1
        BY <1>1, Lengths
    <2> QED
        BY <1>1, <2>1 DEF SignedUpTo, SignatureBlank, Unsigned
<1>6. CASE step + 1 < SigLen
    <2>1. step + 1 \in step + 1 .. SigLen - 1 /\ step + 1 \in 0 .. SigLen - 1
        BY <1>1, <1>6, Lengths
    <2>2. Unsigned(cells)
        BY <1>4, <2>1 DEF SignedUpTo, SignatureBlank, Unsigned
    <2>3. Replaced(cells)
        BY <1>1, <1>2, <2>2 DEF Replaced
    <2>4. ImagesInv' /\ Holding' = Holding
        BY <1>5, <2>2, <2>3, StillNone
    <2> QED
        BY <1>2, <2>4, Stutters
<1>7. CASE step + 1 = SigLen
    <2>1. IsImage(cells, 0, file, Target)
        <3>1. /\ Copied(file, Target, damaged', dw, cells, rdp') /\ damaged' \in Int
              /\ Checked(file, Target, damaged', rdp') /\ SignedUpTo(dw, cells, SigLen)
            BY <1>1, <1>2, <1>3, <1>4, <1>7 DEF Inv, Types, Places
        <3> QED
            BY <1>1, <3>1, SignedIsImage
    <2>2. Replaced(cells) /\ Held(cells, 0, Target) = file
        BY <1>1, <1>2, <2>1, HeldIsImage DEF Replaced
    <2>3. ImagesInv' /\ Holding' = [Holding EXCEPT ![Target] = file]
        BY <2>2, ReplacedImages
    <2>4. Holding[Target] = NoFile /\ file # NoFile
        BY <1>1, <1>5, UnsignedHoldsNone, NoFileIsNone DEF Holding
    <2> QED
        BY <1>1, <1>2, <2>3, <2>4, Installs
<1> QED
    BY <1>1, <1>6, <1>7, Lengths

\* The index to boot.
LEMMA IndexRefines ==
    ASSUME Inv, ImagesInv, OtaChange \/ \E s \in OTA_INDEX : CmdOtaImage(s)
    PROVE  ImagesInv' /\ [FW!Next]_(FW!vars)
<1>1. CASE OtaChange
    <2>1. /\ ota2Set /\ boot' = Target /\ Target \in OTA_INDEX
          /\ UNCHANGED <<slot, ota2Set, cur, file>>
        BY <1>1, TargetIs DEF OtaChange, ImagesInv, Inv, Types
    <2>2. ImagesInv' /\ Holding' = Holding
        BY <2>1, SlotsKept
    <2> QED
        BY <2>1, <2>2, Selects
<1>2. CASE \E s \in OTA_INDEX : CmdOtaImage(s)
    <2>1. PICK s \in OTA_INDEX : CmdOtaImage(s)
        BY <1>2
    <2>2. boot' = s /\ UNCHANGED <<slot, ota2Set, cur, file, pc>>
        BY <2>1 DEF CmdOtaImage
    <2>3. ImagesInv' /\ Holding' = Holding
        BY <2>2, SlotsKept DEF ImagesInv
    <2> QED
        BY <2>2, <2>3, Selects
<1> QED
    BY <1>1, <1>2

LEMMA NextRefines ==
    ASSUME Inv, Inv', ImagesInv, [Next]_vars
    PROVE  ImagesInv' /\ [FW!Next]_(FW!vars)
<1>1. CASE \/ \E f \in Files : \E d \in Offsets(f) \cup {-1} : UpdateOtaLocal(f, d)
           \/ RefuseHeader \/ TakeHeader \/ RefuseAddress \/ TakeAddress
    BY <1>1, HeaderRefines
<1>2. CASE EraseSector
    BY <1>2, EraseSectorRefines
<1>3. CASE EraseRdp \/ ServerCloses \/ ReadFails \/ Verify
    BY <1>3, AsideRefines
<1>4. CASE \E n \in 1 .. BUF_SIZE : Receive(n)
    BY <1>4, ConsumeRefines DEF Receive
<1>5. CASE ReusePacket
    BY <1>5, ConsumeRefines DEF ReusePacket
<1>6. CASE ClearSignatureZone
    BY <1>6, ClearRefines
<1>7. CASE WriteSignature
    BY <1>7, WriteSignatureRefines
<1>8. CASE OtaChange \/ \E s \in OTA_INDEX : CmdOtaImage(s)
    BY <1>8, IndexRefines
<1>9. CASE OtaPlatformReset \/ PowerLoss
    BY <1>9, RestartRefines DEF OtaPlatformReset, PowerLoss
<1>10. CASE UNCHANGED vars
    <2>1. UNCHANGED <<slot, ota2Set, boot, cur, pc, file>>
        BY <1>10 DEF vars, flash
    <2>2. ImagesInv' /\ Holding' = Holding
        BY <2>1, SlotsKept DEF ImagesInv
    <2> QED
        BY <2>1, <2>2, Stutters
<1> QED
    BY <1>1, <1>2, <1>3, <1>4, <1>5, <1>6, <1>7, <1>8, <1>9, <1>10 DEF Next, Update

\* A device as it leaves the factory runs the image in its first slot; there is
\* none in the other.
LEMMA InitRefines == Init => ImagesInv /\ FW!Init
<1> SUFFICES ASSUME Init
             PROVE  ImagesInv /\ FW!Init
    OBVIOUS
<1>1. PICK f \in Files :
         slot = [s \in OTA_INDEX |->
                   [k \in Cells |->
                      IF s = 1 /\ k < f.len THEN Served(f, f.ota[1] + k) ELSE Erased]]
    BY DEF Init
<1>2. /\ f.len \in Nat /\ f.len <= SlotLen /\ SlotLen \in Nat /\ SlotLen > 0
      /\ f.len > 0
    BY FileFacts, Lengths
<1>3. IsImage(slot[1], 0, f, 1)
    <2> SUFFICES ASSUME NEW k \in 0 .. f.len - 1
                 PROVE  slot[1][0 + k] = Served(f, f.ota[1] + k)
        BY DEF IsImage
    <2>1. 0 + k = k /\ k \in Cells /\ k < f.len /\ 1 \in OTA_INDEX
        BY <1>2 DEF Cells, OTA_INDEX
    <2> QED
        BY <1>1, <2>1
<1>4. Unsigned(slot[2])
    <2>1. 0 \in Cells /\ 2 \in OTA_INDEX /\ 2 # 1
        BY <1>2 DEF Cells, OTA_INDEX
    <2>2. slot[2][0] = Erased
        BY <1>1, <2>1
    <2> QED
        BY <2>2, FirstErased
<1>5. /\ 1 \in OTA_INDEX /\ 2 \in OTA_INDEX
      /\ \A s \in OTA_INDEX : s = 1 \/ s = 2
    BY DEF OTA_INDEX
<1>6. Complete(slot[1], 0, 1) /\ Held(slot[1], 0, 1) = f
    BY <1>3, <1>5, HeldIsImage
<1>7. ~Signed(slot[2], 0, 2) /\ ~Complete(slot[2], 0, 2) /\ Held(slot[2], 0, 2) = NoFile
    BY <1>4, <1>5, UnsignedHoldsNone
<1>8. ImagesInv
    BY <1>5, <1>6, <1>7 DEF ImagesInv, Init
<1>9. \A s \in OTA_INDEX : Holding[s] = IF s = 1 THEN f ELSE NoFile
    <2> TAKE s \in OTA_INDEX
    <2>1. Holding[s] = IF s = 2 /\ ~ota2Set THEN NoFile ELSE Held(slot[s], 0, s)
        BY DEF Holding
    <2> QED
        BY <1>5, <1>6, <1>7, <2>1
<1>10. Holding \in [OTA_INDEX -> Files \cup {NoFile}]
    <2>1. Holding = [s \in OTA_INDEX |-> Holding[s]]
        BY DEF Holding
    <2> QED
        BY <1>9, <2>1
<1>11. /\ boot \in OTA_INDEX /\ cur \in OTA_INDEX /\ file = NoFile
       /\ Holding[cur] # NoFile
    BY <1>5, <1>9, NoFileIsNone DEF Init
<1> QED
    BY <1>8, <1>10, <1>11 DEF FW!Init, Holding

\* The update is one of Firmware, for any files, lengths, packets and damage: the
\* power may be lost between any two bytes, yet a slot always holds a whole image
\* or nothing, the one installed is the one the server offered, and the device
\* always starts one that is whole.
THEOREM Refinement == Spec => UpdatesFirmware
<1>1. Inv /\ Inv' /\ ImagesInv /\ [Next]_vars => ImagesInv' /\ [FW!Next]_(FW!vars)
    BY NextRefines
<1> QED
    BY <1>1, InitRefines, InvAlways, PTL DEF Spec, UpdatesFirmware, FW!Spec
=============================================================================
