---------------------------- MODULE OtaHttp_proofs ----------------------------
(***************************************************************************)
(* Proofs about OtaHttp for files, signatures, sectors and reads of any    *)
(* length: the variables keep their types even when a server closes in the *)
(* header of the file; when it does not, each byte gets to its own cell    *)
(* however the stream is cut into reads, what is signed is what the server *)
(* has, the other slot is left alone, and the update implements Firmware.  *)
(***************************************************************************)
EXTENDS OtaHttp, SequenceTheorems, WellFoundedInduction, TLAPS

\* The byte of f at offset o as it arrives when the one at offset m is damaged.
Sent(f, m, o) == IF o = m THEN Corrupted ELSE Served(f, o)

\* The n cells of the slot at address `at` behind the signature are as they
\* arrived, those of the rest of the image are blank.
InPlace(f, t, m, fl, at, n) ==
    \A k \in SigLen .. SigLen + n - 1 : fl[at + k] = Sent(f, m, f.ota[t] + k)
Blank(f, fl, at, n) == \A k \in SigLen + n .. f.len - 1 : fl[at + k] = Erased
SignatureBlank(fl, at, n) == \A k \in n .. SigLen - 1 : fl[at + k] = Erased

\* The bytes kept back are the first of the image.
SignatureArrived(f, t, m, sig) ==
    \A k \in 1 .. Len(sig) : sig[k] = Sent(f, m, f.ota[t] + k - 1)

\* How far the stream has been read, and how much of it is in its place.  The
\* packet that reaches the image holds no more of it than one read brings.
Standing(f, t, d) ==
    IF d.started THEN d.total = f.ota[t] + Len(d.signature) + d.size
    ELSE d.size = 0 /\ d.signature = <<>> /\ d.total <= f.ota[t] + BUF_SIZE

Copying(f, t, m, d, fl, at) ==
    /\ d.remain > 0 /\ d.size \in Nat /\ d.size + d.remain = f.len - SigLen
    /\ Standing(f, t, d)
    /\ d.size > 0 => Len(d.signature) = SigLen
    /\ InPlace(f, t, m, fl, at, d.size) /\ Blank(f, fl, at, d.size)
    /\ SignatureBlank(fl, at, 0) /\ SignatureArrived(f, t, m, d.signature)

\* The image is where it belongs, the signature still in the buffer.
Copied(f, t, m, d, fl, at) ==
    /\ d.size = f.len - SigLen /\ InPlace(f, t, m, fl, at, f.len - SigLen)
    /\ SignatureArrived(f, t, m, d.signature)

\* What the checksum tells: no byte of the image is damaged.
Undamaged(f, t, m) == m - f.ota[t] \notin 0 .. f.len - 1

SignedUpTo(d, fl, at, n) ==
    /\ n <= SigLen /\ SignatureBlank(fl, at, n)
    /\ \A k \in 0 .. n - 1 : fl[at + k] = d.signature[k + 1]

BlankBelow(f, fl, at, n) ==
    \A k \in 0 .. f.len - 1 : k \div SectorLen < n => fl[at + k] = Erased

DRecord == [total : Nat, closed : BOOLEAN, started : BOOLEAN, remain : Int,
            size : Int, signature : Seq(Values)]

\* What is read belongs to a file of the server, of whose header less may be
\* known.
Origin(f) ==
    /\ file = f \/ (CutHeaders /\ \E t \in OTA_INDEX :
                       file = [f EXCEPT !.len = 0, !.rdpLen = 0, !.ota[t] = 0])
    /\ dw.total <= Total(f)

InFlight == {"fileHeader", "erase", "download", "verify", "clear", "sign"}

Types ==
    /\ flash \in [0 .. FlashLen - 1 -> Values]
    /\ ota2Addr \in {Unset, Elsewhere, OTA2_ADDR}
    /\ boot \in OTA_INDEX /\ cur \in OTA_INDEX
    /\ pc \in {"idle", "connect", "address", "request", "response"} \cup InFlight
    /\ ret \in {"error", "sent", "ok"}
    /\ reads \in 0 .. HeaderReads
    /\ parse \in IF pc \in InFlight THEN {4}
                 ELSE IF pc = "response" THEN {0, 1, 3} ELSE {0}
    /\ damaged \in Int /\ step \in Nat
    /\ dw \in DRecord /\ dw.remain <= SlotLen /\ Len(dw.signature) <= SigLen
    /\ pc \in {"verify", "clear", "sign"} => Len(dw.signature) = SigLen
    /\ pc \in InFlight => \E f \in Files : Origin(f)
    /\ pc = "fileHeader" => file \in Files /\ Origin(file)

\* Between the actions, unless a header is cut: what the result of a call means,
\* and that the address of OTA2 is set before its slot is touched.
Context ==
    /\ ret = "ok" => /\ pc = "idle" /\ file \in Files
                     /\ IsImage(flash, TargetAddr, file, Target)
    /\ pc \notin InFlight /\ ret # "ok" => file = NoFile
    /\ pc \in InFlight => file \in Files
    /\ pc \notin {"erase", "download", "verify", "clear", "sign"} => step = 0
    /\ pc = "address" => Target = 2
    /\ Target = 2 /\ pc \notin {"idle", "connect", "address"} => ota2Addr = OTA2_ADDR

\* The state at each stage of the download.
Stages ==
    /\ pc = "fileHeader" =>
          dw.total <= BUF_SIZE /\ dw.size = 0 /\ ~dw.started /\ dw.signature = <<>>
    /\ pc = "erase" =>
          /\ step < Sectors(file.len)
          /\ BlankBelow(file, flash, TargetAddr, step)
          /\ dw.remain = file.len - SigLen /\ ~dw.started
          /\ Standing(file, Target, dw)
    /\ pc = "download" => Copying(file, Target, damaged, dw, flash, TargetAddr)
    /\ pc \in {"verify", "clear", "sign"} =>
          Copied(file, Target, damaged, dw, flash, TargetAddr)
    /\ pc \in {"verify", "clear"} => SignatureBlank(flash, TargetAddr, 0)
    /\ pc = "clear" => ~VerifyOtaChecksum
    /\ pc = "sign" => /\ Undamaged(file, Target, damaged)
                      /\ SignedUpTo(dw, flash, TargetAddr, step)

\* What the boot loader finds: a signed slot holds a whole image, the running
\* one is signed, and nothing is at an address of OTA2 that is not set.
ImagesInv ==
    /\ \A s \in OTA_INDEX : Signed(flash, BootAddr(s), s) => Complete(flash, BootAddr(s), s)
    /\ cur \in Bootable
    /\ ota2Addr # OTA2_ADDR => ~Signed(flash, OTA2_ADDR, 2)

Inv == Types /\ Context /\ Stages

-----------------------------------------------------------------------------
(* Induction.                                                              *)

\* Every set of natural numbers has a least one, which makes for induction over sets.
LEMMA Least ==
    ASSUME NEW S \in SUBSET Nat, S # {}
    PROVE  \E x \in S : \A y \in S : x <= y
<1> DEFINE R == OpToRel(<, Nat)
<1>1. IsWellFoundedOn(R, Nat)
    BY NatLessThanWellFounded
<1> HIDE DEF R
<1>2. PICK x \in S : \A y \in S : ~(<<y, x>> \in R)
    BY <1>1, WFMin
<1>3. \A a, b \in Nat : a < b => <<a, b>> \in R
    BY DEF R, OpToRel
<1>4. ASSUME NEW y \in S PROVE x <= y
    <2>1. x \in Nat /\ y \in Nat /\ ~(<<y, x>> \in R)
        BY <1>2
    <2>2. ~(y < x)
        BY <1>3, <2>1
    <2> QED
        BY <2>1, <2>2
<1> QED
    BY <1>4

LEMMA Induction ==
    ASSUME NEW S \in SUBSET Nat, 0 \in S, \A n \in S : n + 1 \in S
    PROVE  S = Nat
<1> SUFFICES ASSUME S # Nat PROVE FALSE
    OBVIOUS
<1>1. PICK x \in Nat \ S : \A y \in Nat \ S : x <= y
    BY Least
<1>2. x - 1 \in Nat /\ x - 1 \in S
    BY <1>1
<1> QED
    BY <1>1, <1>2

-----------------------------------------------------------------------------
(* Sums.                                                                   *)

\* There is a function that satisfies the recursion, so that the sum does.
LEMMA SumStep ==
    ASSUME NEW g, NEW a \in Int, NEW n \in Nat
    PROVE  SumOf(g, a, n + 1) = SumOf(g, a, n) + g[a + n] /\ SumOf(g, a, 0) = 0
<1> DEFINE Term(s, k) == IF k <= 0 THEN 0 ELSE s[k - 1] + g[a + k - 1]
           Is(s, m) == DOMAIN s = 0 .. m /\ \A k \in 0 .. m : s[k] = Term(s, k)
<1>1. \A m \in Nat : \E s : Is(s, m)
    <2> DEFINE S == {m \in Nat : \E s : Is(s, m)}
    <2>1. 0 \in S
        <3>1. Is([k \in 0 .. 0 |-> 0], 0)
            OBVIOUS
        <3> QED
            BY <3>1
    <2>2. ASSUME NEW m \in S PROVE m + 1 \in S
        <3>1. PICK s : Is(s, m)
            OBVIOUS
        <3> DEFINE t == [k \in 0 .. m + 1 |-> IF k <= m THEN s[k] ELSE s[m] + g[a + m]]
        <3>2. Is(t, m + 1)
            <4>1. DOMAIN t = 0 .. m + 1
                OBVIOUS
            <4>2. ASSUME NEW k \in 0 .. m PROVE t[k] = Term(t, k)
                <5>1. t[k] = s[k] /\ s[k] = Term(s, k)
                    BY <3>1
                <5>2. k > 0 => t[k - 1] = s[k - 1]
                    OBVIOUS
                <5> QED
                    BY <5>1, <5>2
            <4>3. t[m + 1] = Term(t, m + 1)
                <5>1. t[m + 1] = s[m] + g[a + m] /\ t[m] = s[m] /\ (m + 1) - 1 = m
                    OBVIOUS
                <5>2. a + (m + 1) - 1 = a + m
                    OBVIOUS
                <5> HIDE DEF t
                <5> QED
                    BY <5>1, <5>2
            <4> HIDE DEF t, Term
            <4>4. \A k \in 0 .. m + 1 : k \in 0 .. m \/ k = m + 1
                OBVIOUS
            <4> QED
                BY <4>1, <4>2, <4>3, <4>4
        <3> HIDE DEF t, Is
        <3>3. m + 1 \in Nat /\ \E u : Is(u, m + 1)
            BY <3>2
        <3> QED
            BY <3>3
    <2> HIDE DEF S, Is
    <2>3. S = Nat
        BY <2>1, <2>2, Induction DEF S
    <2> QED
        BY <2>3 DEF S
<1>2. ASSUME NEW m \in Nat, NEW p \in Nat, m <= p, NEW s, NEW t, Is(s, m), Is(t, p)
      PROVE  \A k \in 0 .. m : s[k] = t[k]
    <2> DEFINE S == {k \in Nat : k <= m => s[k] = t[k]}
    <2>1. 0 \in S
        BY <1>2
    <2>2. ASSUME NEW k \in S PROVE k + 1 \in S
        <3> SUFFICES ASSUME k + 1 <= m PROVE s[k + 1] = t[k + 1]
            OBVIOUS
        <3>1. s[k] = t[k] /\ (k + 1) - 1 = k
            OBVIOUS
        <3>2. k + 1 \in 0 .. m /\ k + 1 \in 0 .. p
            BY <1>2
        <3>3. s[k + 1] = Term(s, k + 1) /\ t[k + 1] = Term(t, k + 1)
            BY <1>2, <3>2
        <3>4. Term(s, k + 1) = s[k] + g[a + (k + 1) - 1] /\ Term(t, k + 1) = t[k] + g[a + (k + 1) - 1]
            BY <3>1
        <3> QED
            BY <3>1, <3>3, <3>4
    <2> HIDE DEF S
    <2>3. S = Nat
        BY <2>1, <2>2, Induction DEF S
    <2> QED
        BY <2>3 DEF S
<1> DEFINE F(k) == CHOOSE s : Is(s, k)
           h == [k \in Int |-> IF k <= 0 THEN 0 ELSE F(k)[k]]
<1>3. ASSUME NEW k \in Nat
      PROVE  Is(F(k), k)
    BY <1>1
<1>4. ASSUME NEW k \in Int PROVE h[k] = Term(h, k)
    <2>1. CASE k <= 0
        BY <2>1
    <2>2. CASE k > 0
        <3>1. k - 1 \in Nat /\ k \in Nat /\ k - 1 <= k
            BY <2>2
        <3> DEFINE s == F(k - 1)
                   t == F(k)
        <3>2. Is(s, k - 1) /\ Is(t, k)
            BY <1>3, <3>1
        <3> HIDE DEF s, t, Is
        <3>3. s[k - 1] = t[k - 1]
            BY <1>2, <3>1, <3>2
        <3>4. h[k] = t[k]
            BY <2>2 DEF t
        <3>5. h[k - 1] = t[k - 1]
            <4>1. CASE k = 1
                <5>1. t[0] = Term(t, 0)
                    BY <3>2, <4>1 DEF Is
                <5> QED
                    BY <4>1, <5>1
            <4>2. CASE k # 1
                BY <2>2, <3>3, <4>2 DEF s
            <4> QED
                BY <4>1, <4>2
        <3>6. t[k] = Term(t, k)
            BY <2>2, <3>2 DEF Is
        <3> HIDE DEF h
        <3> QED
            BY <2>2, <3>4, <3>5, <3>6
    <2> QED
        BY <2>1, <2>2
<1> DEFINE sum == CHOOSE s : s = [k \in Int |-> Term(s, k)]
<1>5. sum = [k \in Int |-> Term(sum, k)]
    <2>1. h = [k \in Int |-> h[k]]
        OBVIOUS
    <2> HIDE DEF h, Term
    <2>2. h = [k \in Int |-> Term(h, k)]
        BY <1>4, <2>1
    <2> QED
        BY <2>2
<1>6. \A k \in Int : SumOf(g, a, k) = sum[k]
    BY DEF SumOf
<1> HIDE DEF sum
<1>7. sum[n + 1] = Term(sum, n + 1) /\ sum[0] = 0
    BY <1>5
<1>8. Term(sum, n + 1) = sum[n] + g[a + n]
    <2>1. (n + 1) - 1 = n /\ a + (n + 1) - 1 = a + n /\ ~(n + 1 <= 0)
        OBVIOUS
    <2> QED
        BY <2>1
<1> QED
    BY <1>6, <1>7, <1>8

LEMMA SumIsInt ==
    ASSUME NEW g, NEW a \in Int, NEW n \in Nat, \A k \in 0 .. n - 1 : g[a + k] \in Int
    PROVE  SumOf(g, a, n) \in Int
<1> DEFINE S == {m \in Nat : m <= n => SumOf(g, a, m) \in Int}
<1>1. 0 \in S
    BY SumStep
<1>2. ASSUME NEW m \in S PROVE m + 1 \in S
    <2> SUFFICES ASSUME m + 1 <= n PROVE SumOf(g, a, m + 1) \in Int
        OBVIOUS
    <2>1. SumOf(g, a, m + 1) = SumOf(g, a, m) + g[a + m]
        BY SumStep
    <2>2. SumOf(g, a, m) \in Int /\ g[a + m] \in Int
        OBVIOUS
    <2> QED
        BY <2>1, <2>2
<1> HIDE DEF S
<1>3. S = Nat
    BY <1>1, <1>2, Induction DEF S
<1> QED
    BY <1>3 DEF S

Adds(g, a, n, p) == SumOf(g, a, n + p) = SumOf(g, a, n) + SumOf(g, a + n, p)

LEMMA SumSplit ==
    ASSUME NEW g, NEW a \in Int, NEW n \in Nat, NEW p \in Nat,
           \A k \in 0 .. n + p - 1 : g[a + k] \in Int
    PROVE  Adds(g, a, n, p)
<1> DEFINE T(m) == SumOf(g, a, n + m) = SumOf(g, a, n) + SumOf(g, a + n, m)
           S == {m \in Nat : m <= p => T(m)}
<1>1. 0 \in S
    <2>1. SumOf(g, a + n, 0) = 0 /\ n + 0 = n
        BY SumStep
    <2>2. SumOf(g, a, n) \in Int
        BY SumIsInt
    <2> QED
        BY <2>1, <2>2
<1>2. ASSUME NEW m \in S PROVE m + 1 \in S
    <2> SUFFICES ASSUME m + 1 <= p PROVE T(m + 1)
        OBVIOUS
    <2>1. SumOf(g, a + n, m + 1) = SumOf(g, a + n, m) + g[a + n + m]
        BY SumStep
    <2>2. SumOf(g, a, (n + m) + 1) = SumOf(g, a, n + m) + g[a + (n + m)]
        <3>1. n + m \in Nat
            OBVIOUS
        <3> QED
            BY <3>1, SumStep
    <2>3. T(m)
        OBVIOUS
    <2>4. SumOf(g, a, n) \in Int
        BY SumIsInt
    <2>5. SumOf(g, a + n, m) \in Int
        <3>1. \A k \in 0 .. m - 1 : g[a + n + k] \in Int
            <4> TAKE k \in 0 .. m - 1
            <4>1. n + k \in 0 .. n + p - 1 /\ a + n + k = a + (n + k)
                OBVIOUS
            <4> QED
                BY <4>1
        <3>2. a + n \in Int
            OBVIOUS
        <3> QED
            BY <3>1, <3>2, SumIsInt
    <2>6. g[a + (n + m)] \in Int /\ a + n + m = a + (n + m) /\ n + (m + 1) = (n + m) + 1
        OBVIOUS
    <2> DEFINE x == SumOf(g, a, n)
               y == SumOf(g, a + n, m)
               z == g[a + (n + m)]
    <2>7. SumOf(g, a, n + (m + 1)) = x + y + z /\ SumOf(g, a + n, m + 1) = y + z
        BY <2>1, <2>2, <2>3, <2>6
    <2>8. x \in Int /\ y \in Int /\ z \in Int
        BY <2>4, <2>5, <2>6
    <2> HIDE DEF x, y, z
    <2>9. SumOf(g, a, n + (m + 1)) = x + SumOf(g, a + n, m + 1)
        BY <2>7, <2>8
    <2> QED
        BY <2>9 DEF x
<1> HIDE DEF S
<1>3. S = Nat
    BY <1>1, <1>2, Induction DEF S
<1> QED
    BY <1>3 DEF S, Adds

SumsAlike(g, a, h, b, n) == SumOf(g, a, n) = SumOf(h, b, n)

LEMMA SumSame ==
    ASSUME NEW g, NEW h, NEW a \in Int, NEW b \in Int, NEW n \in Nat,
           \A k \in 0 .. n - 1 : g[a + k] = h[b + k]
    PROVE  SumsAlike(g, a, h, b, n)
<1> DEFINE S == {m \in Nat : m <= n => SumOf(g, a, m) = SumOf(h, b, m)}
<1>1. 0 \in S
    BY SumStep
<1>2. ASSUME NEW m \in S PROVE m + 1 \in S
    <2> SUFFICES ASSUME m + 1 <= n PROVE SumOf(g, a, m + 1) = SumOf(h, b, m + 1)
        OBVIOUS
    <2>1. /\ SumOf(g, a, m + 1) = SumOf(g, a, m) + g[a + m]
          /\ SumOf(h, b, m + 1) = SumOf(h, b, m) + h[b + m]
        BY SumStep
    <2>2. SumOf(g, a, m) = SumOf(h, b, m) /\ g[a + m] = h[b + m]
        OBVIOUS
    <2> QED
        BY <2>1, <2>2
<1> HIDE DEF S
<1>3. S = Nat
    BY <1>1, <1>2, Induction DEF S
<1> QED
    BY <1>3 DEF S, SumsAlike

\* One byte that differs makes the sum differ.
LEMMA SumDiffers ==
    ASSUME NEW g, NEW h, NEW a \in Int, NEW b \in Int, NEW n \in Nat, NEW j \in 0 .. n - 1,
           \A k \in 0 .. n - 1 : g[a + k] \in Int /\ h[b + k] \in Int,
           \A k \in 0 .. n - 1 : k # j => g[a + k] = h[b + k],
           g[a + j] # h[b + j]
    PROVE  SumOf(g, a, n) # SumOf(h, b, n)
<1> DEFINE G(m) == SumOf(g, a, m)
           H(m) == SumOf(h, b, m)
           T(m) == /\ G(m) \in Int /\ H(m) \in Int
                   /\ IF j < m THEN G(m) # H(m) ELSE G(m) = H(m)
           S == {m \in Nat : m <= n => T(m)}
<1>1. 0 \in S
    <2>1. G(0) = 0 /\ H(0) = 0
        BY SumStep
    <2> QED
        BY <2>1
<1>2. ASSUME NEW m \in S PROVE m + 1 \in S
    <2> SUFFICES ASSUME m + 1 <= n PROVE T(m + 1)
        OBVIOUS
    <2>1. G(m + 1) = G(m) + g[a + m] /\ H(m + 1) = H(m) + h[b + m]
        BY SumStep
    <2>2. T(m) /\ g[a + m] \in Int /\ h[b + m] \in Int /\ (m # j => g[a + m] = h[b + m])
        OBVIOUS
    <2> DEFINE x == g[a + m]
               y == h[b + m]
    <2>3. j = m => x # y
        OBVIOUS
    <2>4. /\ G(m + 1) = G(m) + x /\ H(m + 1) = H(m) + y /\ x \in Int /\ y \in Int
          /\ m # j => x = y
        BY <2>1, <2>2
    <2> HIDE DEF G, H, x, y
    <2> QED
        BY <2>2, <2>3, <2>4
<1> HIDE DEF S, G, H
<1>3. S = Nat
    BY <1>1, <1>2, Induction DEF S
<1>4. T(n) /\ j < n
    BY <1>3 DEF S
<1>5. G(n) # H(n)
    BY <1>4
<1> QED
    BY <1>5 DEF G, H

-----------------------------------------------------------------------------
(* Files and cells.                                                        *)

LEMMA Lengths ==
    /\ SigLen \in Nat /\ SigLen > 0 /\ SectorLen \in Nat /\ SectorLen > 0
    /\ SigLen <= SectorLen /\ SlotLen \in Nat /\ SigLen < SlotLen
    /\ SectorLen <= SlotLen
  BY ImageAssumption

LEMMA FileFacts ==
    ASSUME NEW f \in Files
    PROVE  /\ f.hdr \in Nat /\ f.rdp \in Nat /\ f.ours \in BOOLEAN
           /\ f.bytes \in Seq(Nat) /\ Total(f) <= Len(f.bytes)
           /\ f.ota[1] \in Nat /\ f.ota[2] \in Nat
           /\ \A s \in OTA_INDEX : f.ota[s] \in Nat
           /\ f.len \in Nat /\ SigLen < f.len /\ f.len <= SlotLen
           /\ f.rdpLen \in Nat /\ f.rdpLen <= SectorLen
  BY ImageAssumption DEF OTA_INDEX

\* An upper bound that is a member is the maximum.
LEMMA MaxIs ==
    ASSUME NEW S, NEW x \in S, \A y \in S : x >= y
    PROVE  Max(S) \in S /\ \A y \in S : Max(S) >= y
  BY DEF Max

\* The stream ends behind each image.
LEMMA TotalBound ==
    ASSUME NEW f \in Files
    PROVE  /\ Total(f) \in Nat
           /\ f.ota[1] + f.len <= Total(f) /\ f.ota[2] + f.len <= Total(f)
           /\ f.rdp + f.rdpLen <= Total(f)
<1> DEFINE a == f.ota[1] + f.len
           b == f.ota[2] + f.len
           c == f.rdp + f.rdpLen
           S == {a, b, c}
<1>1. a \in Nat /\ b \in Nat /\ c \in Nat
    BY FileFacts
<1>2. {f.ota[s] + f.len : s \in OTA_INDEX} \cup {f.rdp + f.rdpLen} = S
    BY DEF OTA_INDEX
<1>3. Total(f) = Max(S)
    BY <1>2 DEF Total
<1> HIDE DEF a, b, c
<1>4. \E x \in S : \A y \in S : x >= y
    BY <1>1
<1>5. Max(S) \in S /\ \A y \in S : Max(S) >= y
    BY <1>4, MaxIs
<1>6. Total(f) \in Nat /\ a <= Total(f) /\ b <= Total(f) /\ c <= Total(f)
    BY <1>1, <1>3, <1>5
<1> QED
    BY <1>6 DEF a, b, c

\* The lesser of two.
LEMMA MinOfTwo ==
    ASSUME NEW a \in Int, NEW b \in Int
    PROVE  Min({a, b}) = IF a <= b THEN a ELSE b
<1> DEFINE S == {a, b}
           x == IF a <= b THEN a ELSE b
<1>1. x \in S /\ \A y \in S : x <= y
    OBVIOUS
<1>2. Min(S) \in S /\ \A y \in S : Min(S) <= y
    BY <1>1 DEF Min
<1> HIDE DEF S, x
<1>3. S \subseteq Int /\ x \in Int
    BY DEF S, x
<1>4. Min(S) <= x /\ x <= Min(S) /\ Min(S) \in Int
    BY <1>1, <1>2, <1>3
<1>5. Min(S) = x
    BY <1>3, <1>4
<1> QED
    BY <1>5 DEF S, x
\* An offset behind another is in the same sector or in one behind it.
LEMMA SectorGrows ==
    ASSUME NEW n \in Nat, n > 0, NEW a \in Nat, NEW b \in Nat, a <= b
    PROVE  a \div n \in Nat /\ b \div n \in Nat /\ a \div n <= b \div n
  OBVIOUS

-----------------------------------------------------------------------------
(* Sectors and slots.                                                      *)

\* What % and \div are, for SMT to use once.
LEMMA Division ==
    ASSUME NEW n \in Nat, n > 0, NEW x \in Nat
    PROVE  /\ x % n \in 0 .. n - 1 /\ x \div n \in Nat
           /\ x = (x \div n) * n + (x % n)
  OBVIOUS

\* Of two products by n the greater has the greater factor.
LEMMA Factors ==
    ASSUME NEW n \in Nat, n > 0, NEW p \in Int, NEW q \in Int, p * n < q * n
    PROVE  p < q
<1> SUFFICES ASSUME p >= q PROVE FALSE
    OBVIOUS
<1>1. p - q \in Nat /\ (p - q) * n >= 0
    OBVIOUS
<1>2. (p - q) * n = p * n - q * n
    OBVIOUS
<1>3. p * n \in Int /\ q * n \in Int
    OBVIOUS
<1> QED
    BY <1>1, <1>2, <1>3

\* What lies before the beginning of a sector is in a sector before it.
LEMMA SectorBelow ==
    ASSUME NEW n \in Nat, n > 0, NEW a \in Nat, a % n = 0, NEW k \in Nat, k < a
    PROVE  k \div n < a \div n
<1> DEFINE p == k \div n
           q == a \div n
<1>1. p \in Nat /\ q \in Nat /\ k % n \in 0 .. n - 1 /\ k = p * n + (k % n)
      /\ a = q * n + (a % n)
    BY Division
<1> HIDE DEF p, q
<1>2. p * n < q * n
    BY <1>1
<1>3. p < q
    BY <1>1, <1>2, Factors
<1> QED
    BY <1>3 DEF p, q

\* The sectors of a slot are counted from its first.
LEMMA SectorAdd ==
    ASSUME NEW n \in Nat, n > 0, NEW a \in Nat, a % n = 0, NEW j \in Nat
    PROVE  (a + j) \div n = a \div n + j \div n
<1> DEFINE x == (a + j) \div n
           p == a \div n
           q == j \div n
           r == (a + j) % n
           u == j % n
<1>1. /\ x \in Nat /\ p \in Nat /\ q \in Nat /\ r \in 0 .. n - 1 /\ u \in 0 .. n - 1
      /\ a + j = x * n + r /\ a = p * n /\ j = q * n + u
    <2>1. a + j \in Nat
        OBVIOUS
    <2> QED
        BY <2>1, Division
<1> HIDE DEF x, p, q, r, u
<1>2. (p + q) * n = p * n + q * n /\ (x + 1) * n = x * n + n
      /\ (p + q + 1) * n = p * n + q * n + n
    BY <1>1
<1>3. x * n \in Nat /\ p * n \in Nat /\ q * n \in Nat
    BY <1>1
<1>4. x * n < (p + q + 1) * n /\ (p + q) * n < (x + 1) * n
    BY <1>1, <1>2, <1>3
<1>5. x < p + q + 1 /\ p + q < x + 1
    BY <1>1, <1>4, Factors
<1>6. x = p + q
    BY <1>1, <1>5
<1> QED
    BY <1>6 DEF x, p, q

LEMMA Numbers ==
    /\ BUF_SIZE \in Nat /\ BUF_SIZE > 0 /\ OTA2_ADDR \in Nat /\ FlashLen \in Nat
    /\ SlotLen <= OTA2_ADDR /\ OTA2_ADDR + SlotLen <= FlashLen
    /\ OTA2_ADDR % SectorLen = 0 /\ FlashLen % SectorLen = 0
  BY HttpAssumption

LEMMA TargetIs ==
    ASSUME cur \in OTA_INDEX
    PROVE  /\ Target \in OTA_INDEX /\ Target # cur /\ TargetAddr = BootAddr(Target)
           /\ \A s \in OTA_INDEX : s = cur \/ s = Target
  BY DEF Target, OTA_INDEX, TargetAddr, BootAddr

LEMMA SlotAddr ==
    ASSUME NEW s \in OTA_INDEX
    PROVE  /\ BootAddr(s) \in Nat /\ BootAddr(s) + SlotLen <= FlashLen
           /\ BootAddr(s) % SectorLen = 0
           /\ \A k \in 0 .. SlotLen - 1 : BootAddr(s) + k \in 0 .. FlashLen - 1
<1>1. 0 % SectorLen = 0
    BY Lengths
<1>2. BootAddr(s) \in {0, OTA2_ADDR}
    BY DEF BootAddr, OTA1_ADDR
<1> QED
    BY <1>1, <1>2, Numbers, Lengths

\* No cell of one slot is a cell of the other.
LEMMA SlotsApart ==
    ASSUME NEW s \in OTA_INDEX, NEW t \in OTA_INDEX, s # t,
           NEW j \in 0 .. SlotLen - 1, NEW k \in 0 .. SlotLen - 1
    PROVE  BootAddr(s) + j # BootAddr(t) + k
  BY Numbers, Lengths DEF BootAddr, OTA1_ADDR, OTA_INDEX

\* The sectors of an image are sectors of the flash, and none of them has a cell
\* of the other slot.
LEMMA SectorOfSlot ==
    ASSUME NEW t \in OTA_INDEX, NEW len \in 1 .. SlotLen, NEW n \in Nat,
           n <= (len - 1) \div SectorLen
    PROVE  LET q == BootAddr(t) \div SectorLen + n
           IN  /\ q \in Nat /\ q % FlashSectors = q
               /\ \A j \in Nat : (BootAddr(t) + j) \div SectorLen = q
                                 <=> j \div SectorLen = n
               /\ \A s \in OTA_INDEX \ {t} : \A k \in 0 .. SlotLen - 1 :
                     (BootAddr(s) + k) \div SectorLen # q
<1> DEFINE a == BootAddr(t)
           q == a \div SectorLen + n
           m == (len - 1) \div SectorLen
<1>1. /\ a \in Nat /\ a + SlotLen <= FlashLen /\ a % SectorLen = 0
      /\ SectorLen \in Nat /\ SectorLen > 0 /\ len - 1 \in Nat /\ SlotLen \in Nat
      /\ len \in Nat /\ len <= SlotLen /\ FlashLen \in Nat /\ FlashLen % SectorLen = 0
    BY SlotAddr, Lengths, Numbers
<1>2. /\ a \div SectorLen \in Nat /\ q \in Nat /\ m \in Nat
      /\ (a + (len - 1)) \div SectorLen = a \div SectorLen + m
      /\ a \div SectorLen <= q /\ q <= (a + (len - 1)) \div SectorLen
    <2>1. a \div SectorLen \in Nat /\ m \in Nat
        BY <1>1, Division
    <2>2. (a + (len - 1)) \div SectorLen = a \div SectorLen + m
        BY <1>1, SectorAdd
    <2> QED
        BY <2>1, <2>2
<1>3. \A j \in Nat : (a + j) \div SectorLen = q <=> j \div SectorLen = n
    <2> TAKE j \in Nat
    <2>1. (a + j) \div SectorLen = a \div SectorLen + j \div SectorLen
        BY <1>1, SectorAdd
    <2>2. j \div SectorLen \in Nat
        BY <1>1, Division
    <2> QED
        BY <1>2, <2>1, <2>2
<1>4. q < FlashSectors
    <2> HIDE DEF a, m, q
    <2>1. a + (len - 1) \in Nat /\ a + (len - 1) < FlashLen
        BY <1>1
    <2>2. (a + (len - 1)) \div SectorLen < FlashLen \div SectorLen
        BY <1>1, <2>1, SectorBelow
    <2>3. FlashLen \div SectorLen \in Nat /\ (a + (len - 1)) \div SectorLen \in Nat
        BY <1>1, <2>1, Division
    <2> QED
        BY <1>2, <2>2, <2>3 DEF FlashSectors
<1>5. q % FlashSectors = q
    <2>1. FlashSectors \in Nat /\ FlashSectors > 0
        BY <1>1, <1>2, <1>4, Division DEF FlashSectors
    <2> DEFINE N == FlashSectors
    <2> HIDE DEF q, N
    <2>2. q \in Nat /\ q < N /\ N \in Nat /\ N > 0
        BY <1>2, <1>4, <2>1 DEF N
    <2>3. q % N \in 0 .. N - 1 /\ q \div N \in Nat /\ q = (q \div N) * N + (q % N)
        BY <2>2, Division
    <2>4. (q \div N) * N < 1 * N
        BY <2>2, <2>3
    <2>5. q \div N < 1
        BY <2>2, <2>3, <2>4, Factors
    <2>6. q \div N = 0
        BY <2>3, <2>5
    <2>7. q = q % N
        BY <2>2, <2>3, <2>6
    <2> QED
        BY <2>7 DEF N
<1>6. ASSUME NEW s \in OTA_INDEX \ {t}, NEW k \in 0 .. SlotLen - 1
      PROVE  (BootAddr(s) + k) \div SectorLen # q
    <2> DEFINE x == BootAddr(s) + k
    <2>1. BootAddr(s) \in Nat /\ x \in Nat /\ BootAddr(s) % SectorLen = 0
        BY <1>1, SlotAddr
    <2>2. x \div SectorLen \in Nat
        BY <1>1, <2>1, Division
    <2>3. x < a \/ a + (len - 1) < BootAddr(s)
        BY <1>1, Numbers DEF BootAddr, OTA1_ADDR, OTA_INDEX
    <2>4. CASE x < a
        <3>1. x \div SectorLen < a \div SectorLen
            BY <1>1, <2>1, <2>4, SectorBelow
        <3> QED
            BY <1>2, <2>2, <3>1
    <2>5. CASE a + (len - 1) < BootAddr(s)
        <3>1. a + (len - 1) \in Nat /\ BootAddr(s) <= x
            BY <1>1, <2>1
        <3>2. (a + (len - 1)) \div SectorLen < BootAddr(s) \div SectorLen
            BY <1>1, <2>1, <2>5, <3>1, SectorBelow
        <3>3. BootAddr(s) \div SectorLen <= x \div SectorLen
              /\ BootAddr(s) \div SectorLen \in Nat
            BY <1>1, <2>1, <3>1, SectorGrows
        <3> QED
            BY <1>2, <2>2, <3>2, <3>3
    <2> QED
        BY <2>3, <2>4, <2>5
<1> QED
    BY <1>2, <1>3, <1>5, <1>6

-----------------------------------------------------------------------------
(* What is read and what is written.                                       *)

LEMMA ServedByte ==
    ASSUME NEW f \in Files, NEW o \in Nat, o < Total(f)
    PROVE  Served(f, o) \in Values /\ Served(f, o) \in Int
<1>1. o \in 0 .. Total(f) - 1 /\ o + 1 \in 1 .. Len(f.bytes)
    BY TotalBound, FileFacts
<1>2. Served(f, o) \in Int
    BY <1>1, FileFacts, ElementOfSeq DEF Served
<1> QED
    BY <1>1, <1>2 DEF Values

LEMMA ErasedByte ==
    /\ Erased \in Values /\ Corrupted \in Values /\ Overwritten \in Values
    /\ Erased \in Int /\ Corrupted \in Int
  BY ImageAssumption DEF Values

\* A file of whose header less is known is no longer than before.
LEMMA CutFacts ==
    ASSUME NEW f \in Files, NEW t \in OTA_INDEX
    PROVE  LET c == [f EXCEPT !.len = 0, !.rdpLen = 0, !.ota[t] = 0]
           IN  /\ c.bytes = f.bytes /\ c.hdr = f.hdr /\ c.len = 0
               /\ \A s \in OTA_INDEX : c.ota[s] \in Nat
               /\ Total(c) \in Nat /\ Total(c) <= Total(f)
<1> DEFINE c == [f EXCEPT !.len = 0, !.rdpLen = 0, !.ota[t] = 0]
           x == c.ota[1] + c.len
           y == c.ota[2] + c.len
           z == c.rdp + c.rdpLen
           S == {x, y, z}
<1>1. /\ f.ota \in [OTA_INDEX -> Nat] /\ f.rdp \in Nat /\ f.len \in Nat
      /\ f.rdpLen \in Nat /\ f.hdr \in Nat
    BY ImageAssumption, FileFacts
<1>2. /\ c.bytes = f.bytes /\ c.hdr = f.hdr /\ c.len = 0 /\ c.rdpLen = 0 /\ c.rdp = f.rdp
      /\ c.ota = [f.ota EXCEPT ![t] = 0]
    <2>1. f \in [hdr : Nat, bytes : Seq(Nat), ota : [OTA_INDEX -> Nat], len : Nat,
                rdp : Nat, rdpLen : Nat, ours : BOOLEAN]
        BY HttpAssumption
    <2> QED
        BY <2>1
<1>3. /\ c.ota[1] \in {0, f.ota[1]} /\ c.ota[2] \in {0, f.ota[2]}
      /\ f.ota[1] \in Nat /\ f.ota[2] \in Nat
    BY <1>1, <1>2 DEF OTA_INDEX
<1>4. Total(c) = Max(S)
    BY DEF Total, OTA_INDEX
<1> HIDE DEF c
<1>5. x \in Nat /\ y \in Nat /\ z \in Nat
    BY <1>1, <1>2, <1>3
<1>6. x <= Total(f) /\ y <= Total(f) /\ z <= Total(f) /\ Total(f) \in Nat
    BY <1>1, <1>2, <1>3, TotalBound
<1> HIDE DEF x, y, z
<1>7. \E v \in S : \A w \in S : v >= w
    BY <1>5
<1>8. Max(S) \in S
    BY <1>7, MaxIs
<1>9. Total(c) \in Nat /\ Total(c) <= Total(f)
    BY <1>4, <1>5, <1>6, <1>8
<1>10. \A s \in OTA_INDEX : c.ota[s] \in Nat
    BY <1>1, <1>3 DEF OTA_INDEX
<1> QED
    BY <1>2, <1>9, <1>10 DEF c

\* What the update knows of the file it reads.
LEMMA SourceFacts ==
    ASSUME NEW f \in Files, Origin(f)
    PROVE  /\ \A o : Served(file, o) = Served(f, o)
           /\ file.hdr \in Nat /\ file.hdr <= Total(f)
           /\ \A s \in OTA_INDEX : file.ota[s] \in Nat
           /\ file.len \in Nat /\ file.len <= SlotLen
           /\ Total(file) \in Nat /\ Total(file) <= Total(f)
           /\ dw.total <= Total(f) /\ Total(f) \in Nat
<1>1. /\ f.hdr \in Nat /\ f.hdr <= Total(f) /\ Total(f) \in Nat /\ f.len \in Nat
      /\ f.len <= SlotLen /\ SlotLen \in Nat /\ dw.total <= Total(f)
      /\ \A s \in OTA_INDEX : f.ota[s] \in Nat
    <2>1. f.hdr <= f.ota[1]
        BY HttpAssumption DEF OTA_INDEX
    <2>2. /\ f.hdr \in Nat /\ f.ota[1] \in Nat /\ f.len \in Nat /\ f.len <= SlotLen
          /\ \A s \in OTA_INDEX : f.ota[s] \in Nat
        BY FileFacts
    <2>3. Total(f) \in Nat /\ f.ota[1] + f.len <= Total(f)
        BY TotalBound
    <2>4. f.hdr <= Total(f)
        BY <2>1, <2>2, <2>3
    <2> QED
        BY <2>2, <2>3, <2>4, Lengths DEF Origin
<1>2. CASE file = f
    BY <1>1, <1>2
<1>3. CASE file # f
    <2>1. PICK t \in OTA_INDEX : file = [f EXCEPT !.len = 0, !.rdpLen = 0, !.ota[t] = 0]
        BY <1>3 DEF Origin
    <2>2. /\ file.bytes = f.bytes /\ file.hdr = f.hdr /\ file.len = 0
          /\ \A s \in OTA_INDEX : file.ota[s] \in Nat
          /\ Total(file) \in Nat /\ Total(file) <= Total(f)
        BY <2>1, CutFacts
    <2> QED
        BY <1>1, <2>2 DEF Served
<1> QED
    BY <1>2, <1>3

\* n bytes as they arrive, none of them behind the end of the file.
LEMMA ArrivingBytes ==
    ASSUME NEW f \in Files, Origin(f), NEW o \in Nat, NEW n \in Nat,
           o + n <= Total(f), NEW d
    PROVE  /\ Arriving(o, n, d) \in Seq(Values) /\ Len(Arriving(o, n, d)) = n
           /\ \A k \in 1 .. n : Arriving(o, n, d)[k] = Sent(file, d, o + k - 1)
<1> DEFINE b == Arriving(o, n, d)
           S(k) == Sent(file, d, o + k - 1)
<1>1. b = [k \in 1 .. n |-> S(k)]
    BY DEF Arriving, Sent
<1>2. \A k \in 1 .. n : S(k) \in Values
    <2> TAKE k \in 1 .. n
    <2>1. o + k - 1 \in Nat /\ o + k - 1 < Total(f)
        BY TotalBound
    <2>2. Served(file, o + k - 1) = Served(f, o + k - 1)
        BY SourceFacts
    <2> QED
        BY <2>1, <2>2, ServedByte, ErasedByte DEF Sent
<1> HIDE DEF S
<1>3. [k \in 1 .. n |-> S(k)] \in Seq(Values)
    BY <1>2, IsASeq
<1>4. Len(b) = n
    BY <1>1, <1>3, LenProperties
<1> QED
    BY <1>1, <1>3, <1>4 DEF S

\* Nothing arrives when there is no place for it.
LEMMA ArrivingNone ==
    ASSUME NEW o, NEW n \in Int, n <= 0, NEW d
    PROVE  Arriving(o, n, d) = <<>>
<1>1. 1 .. n = {}
    OBVIOUS
<1> QED
    BY <1>1 DEF Arriving

\* A part of a sequence, which may be empty.
LEMMA Part ==
    ASSUME NEW q \in Seq(Values), NEW a \in Nat \ {0}, NEW b \in 0 .. Len(q)
    PROVE  /\ SubSeq(q, a, b) \in Seq(Values)
           /\ Len(SubSeq(q, a, b)) = IF a <= b THEN b - a + 1 ELSE 0
           /\ \A k \in 1 .. b - a + 1 : SubSeq(q, a, b)[k] = q[a + k - 1]
<1>1. Len(q) \in Nat /\ \A i \in 1 .. Len(q) : q[i] \in Values
    BY LenProperties, ElementOfSeq
<1>2. a \in Int /\ b \in Int /\ \A i \in a .. b : q[i] \in Values
    BY <1>1
<1> QED
    BY <1>2, SubSeqProperties

\* Programming any cells.
LEMMA ProgramCells ==
    ASSUME NEW fl \in [0 .. FlashLen - 1 -> Values], NEW from \in Int,
           NEW bytes \in Seq(Values)
    PROVE  /\ Program(fl, from, bytes) \in [0 .. FlashLen - 1 -> Values]
           /\ \A k \in 0 .. FlashLen - 1 :
                 Program(fl, from, bytes)[k] =
                    IF k \in from .. from + Len(bytes) - 1
                    THEN IF fl[k] = Erased THEN bytes[k - from + 1] ELSE Overwritten
                    ELSE fl[k]
<1> DEFINE V(k) == IF k \in from .. from + Len(bytes) - 1
                   THEN IF fl[k] = Erased THEN bytes[k - from + 1] ELSE Overwritten
                   ELSE fl[k]
<1>1. DOMAIN fl = 0 .. FlashLen - 1 /\ \A k \in 0 .. FlashLen - 1 : fl[k] \in Values
    OBVIOUS
<1>2. Program(fl, from, bytes) = [k \in 0 .. FlashLen - 1 |-> V(k)]
    BY <1>1, Zenon DEF Program
<1>3. ASSUME NEW k \in 0 .. FlashLen - 1
      PROVE  V(k) \in Values
    <2>1. CASE k \in from .. from + Len(bytes) - 1
        <3>1. Len(bytes) \in Nat /\ k - from + 1 \in 1 .. Len(bytes)
            BY <2>1, LenProperties
        <3>2. bytes[k - from + 1] \in Values
            BY <3>1, ElementOfSeq
        <3> QED
            BY <2>1, <3>2, ErasedByte
    <2>2. CASE k \notin from .. from + Len(bytes) - 1
        BY <1>1, <2>2
    <2> QED
        BY <2>1, <2>2
<1> HIDE DEF V
<1>4. Program(fl, from, bytes) \in [0 .. FlashLen - 1 -> Values]
      /\ \A k \in 0 .. FlashLen - 1 : Program(fl, from, bytes)[k] = V(k)
    BY <1>2, <1>3
<1> QED
    BY <1>4 DEF V

LEMMA EraseSectorCells ==
    ASSUME NEW fl \in [0 .. FlashLen - 1 -> Values], NEW n
    PROVE  /\ EraseSectorAt(fl, n) \in [0 .. FlashLen - 1 -> Values]
           /\ \A k \in 0 .. FlashLen - 1 : EraseSectorAt(fl, n)[k] =
                 IF k \div SectorLen = n THEN Erased ELSE fl[k]
  BY ErasedByte DEF EraseSectorAt

-----------------------------------------------------------------------------
(* Types.                                                                  *)

LEMMA NoDownloadType ==
    /\ NoDownload \in DRecord /\ NoDownload.remain = 0 /\ NoDownload.size = 0
    /\ NoDownload.signature = <<>> /\ ~NoDownload.started /\ Len(NoDownload.signature) = 0
<1>1. <<>> \in Seq(Values) /\ Len(<<>>) = 0
    BY EmptySeq
<1> QED
    BY <1>1 DEF NoDownload, DRecord

\* The call ends, or the power is lost.
LEMMA IdleTypes ==
    ASSUME pc' = "idle", ret' \in {"error", "sent", "ok"}, parse' = 0, reads' = 0,
           damaged' \in Int, step' = 0, dw' = NoDownload,
           flash' \in [0 .. FlashLen - 1 -> Values],
           ota2Addr' \in {Unset, Elsewhere, OTA2_ADDR},
           boot' \in OTA_INDEX, cur' \in OTA_INDEX
    PROVE  Types'
<1>1. 0 \in 0 .. HeaderReads
    BY HttpAssumption
<1>2. dw'.remain <= SlotLen /\ Len(dw'.signature) <= SigLen /\ dw' \in DRecord
    BY NoDownloadType, Lengths
<1> QED
    BY <1>1, <1>2 DEF Types, InFlight

LEMMA LeaveTypes ==
    ASSUME Types, Leave, UNCHANGED <<stored, cur>>
    PROVE  Types'
  BY IdleTypes DEF Leave, stored, Types

LEMMA RestartTypes ==
    ASSUME Types, Restart
    PROVE  Types'
<1>1. cur' \in OTA_INDEX
    BY DEF Restart, BootLoader, Bootable, Types
<1> QED
    BY <1>1, IdleTypes DEF Restart, stored, Types

\* The request and its response.
LEMMA RequestTypes ==
    ASSUME Types,
           \/ HttpUpdateOta \/ Connect \/ EraseAddr \/ WriteAddr \/ SendRequest
           \/ Redirect \/ \E p \in 1 .. 3 : ReadHeader(p)
           \/ \E s \in OTA_INDEX : CmdOtaImage(s)
    PROVE  Types'
<1>1. CASE HttpUpdateOta
    BY <1>1 DEF HttpUpdateOta, Types, InFlight, stored, response
<1>2. CASE Connect
    BY <1>2 DEF Connect, Types, InFlight, stored, response, served
<1>3. CASE EraseAddr
    BY <1>3 DEF EraseAddr, Types, InFlight, response, served
<1>4. CASE WriteAddr
    BY <1>4 DEF WriteAddr, Types, InFlight, response, served
<1>5. CASE SendRequest
    BY <1>5 DEF SendRequest, Types, InFlight, stored, response, served
<1>6. CASE Redirect
    BY <1>6 DEF Redirect, Types, InFlight, stored, response, served
<1>7. CASE \E p \in 1 .. 3 : ReadHeader(p)
    <2>1. PICK p \in 1 .. 3 : ReadHeader(p)
        BY <1>7
    <2>2. pc = "response" /\ parse \in {0, 1, 3} /\ reads \in Nat /\ HeaderReads \in Nat
        BY <2>1, HttpAssumption DEF ReadHeader, Types, InFlight
    <2>3. Parsed(parse) \subseteq {1, 3, 4}
        BY <2>2 DEF Parsed
    <2>4. parse' \in {1, 3} /\ reads' \in 0 .. HeaderReads
        BY <2>1, <2>2, <2>3, HttpAssumption DEF ReadHeader
    <2> QED
        BY <2>1, <2>2, <2>4 DEF ReadHeader, Types, InFlight, stored, served
<1>8. CASE \E s \in OTA_INDEX : CmdOtaImage(s)
    <2>1. PICK s \in OTA_INDEX : CmdOtaImage(s)
        BY <1>8
    <2>2. /\ boot' \in OTA_INDEX
          /\ UNCHANGED <<flash, ota2Addr, cur, pc, ret, parse, reads, file, damaged,
                         step, dw>>
        BY <2>1 DEF CmdOtaImage, response, served
    <2>3. \A f : Origin(f) => Origin(f)'
        BY <2>2 DEF Origin
    <2> QED
        BY <2>2, <2>3 DEF Types
<1> QED
    BY <1>1, <1>2, <1>3, <1>4, <1>5, <1>6, <1>7, <1>8

LEMMA ReadBodyTypes ==
    ASSUME Types, NEW f \in Files, NEW first \in 0 .. BUF_SIZE, ReadBody(f, first)
    PROVE  Types' /\ Origin(f)' /\ dw'.total = first
<1>1. /\ pc' = "fileHeader" /\ file' = f /\ parse' = 4
      /\ dw' = [NoDownload EXCEPT !.total = first]
      /\ UNCHANGED <<flash, ota2Addr, boot, cur, ret, reads, damaged, step>>
    BY DEF ReadBody, stored
<1>2. /\ dw' \in DRecord /\ dw'.total = first /\ dw'.remain = 0
      /\ Len(dw'.signature) = 0
    BY <1>1, NoDownloadType, Numbers DEF DRecord
<1>3. first <= Total(f)
    <2>1. BUF_SIZE < f.len
        BY HttpAssumption
    <2>2. f.len \in Nat /\ f.ota[1] \in Nat
        BY FileFacts
    <2>3. f.ota[1] + f.len <= Total(f) /\ Total(f) \in Nat
        BY TotalBound
    <2> QED
        BY <2>1, <2>2, <2>3, Numbers
<1>4. Origin(f)'
    BY <1>1, <1>2, <1>3 DEF Origin
<1>5. Origin(file)'
    BY <1>1, <1>4 DEF Origin
<1> QED
    BY <1>1, <1>2, <1>4, <1>5, Lengths DEF Types, InFlight

LEMMA MaxOfTwo ==
    ASSUME NEW a \in Int, NEW b \in Int
    PROVE  Max({a, b}) = IF a >= b THEN a ELSE b
<1> DEFINE S == {a, b}
           x == IF a >= b THEN a ELSE b
<1>1. x \in S /\ \A y \in S : x >= y
    OBVIOUS
<1>2. Max(S) \in S /\ \A y \in S : Max(S) >= y
    BY <1>1, MaxIs
<1> HIDE DEF S, x
<1>3. S \subseteq Int /\ x \in Int
    BY DEF S, x
<1>4. Max(S) >= x /\ x >= Max(S) /\ Max(S) \in Int
    BY <1>1, <1>2, <1>3
<1>5. Max(S) = x
    BY <1>3, <1>4
<1> QED
    BY <1>5 DEF S, x

\* What is known of the file once its header has been taken.
LEMMA HeaderTaken ==
    ASSUME Types, TakeHeader
    PROVE  /\ pc = "fileHeader" /\ pc' = "erase"
           /\ ~CutHeaders => file' = file
           /\ dw' \in DRecord /\ dw'.signature = dw.signature
           /\ dw'.size = dw.size /\ dw'.started = dw.started
           /\ dw'.remain = file'.len - SigLen
           /\ dw'.total = dw.total \/ dw'.total = file.hdr
           /\ \E f \in Files : Origin(f) /\ Origin(f)' /\ file'.len \in Nat
                               /\ file'.len <= SlotLen
<1>1. PICK closed \in BOOLEAN, cut \in BOOLEAN :
         /\ cut => CutHeaders
         /\ file' = IF cut THEN Cut(file) ELSE file
         /\ dw' = [dw EXCEPT !.total = Max({@, file.hdr}), !.closed = closed,
                              !.remain = file'.len - SigLen]
    BY Zenon DEF TakeHeader
<1>2. pc = "fileHeader" /\ pc' = "erase" /\ UNCHANGED cur
    BY DEF TakeHeader
<1>3. PICK f \in Files : f = file /\ Origin(f)
    BY <1>2 DEF Types
<1>4. /\ file.hdr \in Nat /\ file.hdr <= Total(f) /\ file.len \in Nat
      /\ file.len <= SlotLen /\ dw.total <= Total(f) /\ Total(f) \in Nat
    BY <1>3, SourceFacts
<1>5. dw \in DRecord /\ dw.total \in Nat
    BY DEF Types, DRecord
<1> DEFINE total == Max({dw.total, file.hdr})
<1>6. total \in {dw.total, file.hdr}
    BY <1>4, <1>5, MaxOfTwo
<1>7. /\ file' = f \/ (CutHeaders /\ \E t \in OTA_INDEX :
                          file' = [f EXCEPT !.len = 0, !.rdpLen = 0, !.ota[t] = 0])
      /\ file' = file \/ file'.len = 0
      /\ ~CutHeaders => file' = file
    <2>1. CASE ~cut
        BY <1>1, <1>3, <2>1 DEF Origin
    <2>2. CASE cut
        <3>1. file' = [file EXCEPT !.len = 0, !.rdpLen = 0, !.ota[Target] = 0]
            BY <1>1, <2>2 DEF Cut
        <3>2. CutHeaders /\ Target \in OTA_INDEX
            BY <1>1, <2>2, TargetIs DEF Types
        <3>3. file'.len = 0
            BY <1>3, <3>1, <3>2, CutFacts
        <3> QED
            BY <1>3, <3>1, <3>2, <3>3
    <2> QED
        BY <2>1, <2>2
<1>8. file'.len \in Nat /\ file'.len <= SlotLen
    <2>1. file' = file \/ file'.len = 0
        BY <1>7
    <2> QED
        BY <1>4, <2>1, Lengths
<1>9. dw' = [dw EXCEPT !.total = total, !.closed = closed,
                       !.remain = file'.len - SigLen]
    BY <1>1
<1> HIDE DEF total
<1>10. total \in Nat /\ file'.len - SigLen \in Int
    BY <1>4, <1>5, <1>6, <1>8, Lengths
<1>11. /\ dw' \in DRecord /\ dw'.signature = dw.signature
       /\ dw'.size = dw.size /\ dw'.started = dw.started
       /\ dw'.remain = file'.len - SigLen /\ dw'.total = total
    BY <1>5, <1>9, <1>10 DEF DRecord
<1>12. Origin(f)'
    <2>1. dw'.total <= Total(f)
        BY <1>4, <1>6, <1>11
    <2> QED
        BY <1>7, <2>1 DEF Origin
<1> QED
    BY <1>2, <1>3, <1>6, <1>7, <1>8, <1>11, <1>12

LEMMA TakeHeaderTypes ==
    ASSUME Types, TakeHeader
    PROVE  Types'
<1>1. /\ dw' \in DRecord /\ dw'.signature = dw.signature /\ pc' = "erase"
      /\ pc = "fileHeader" /\ dw'.remain = file'.len - SigLen
      /\ \E f \in Files : Origin(f)' /\ file'.len \in Nat /\ file'.len <= SlotLen
    BY HeaderTaken
<1>2. dw'.remain <= SlotLen
    BY <1>1, Lengths
<1>3. UNCHANGED <<flash, ota2Addr, boot, cur, ret, parse, reads, damaged, step>>
    BY DEF TakeHeader, stored, response
<1> QED
    BY <1>1, <1>2, <1>3 DEF Types, InFlight

-----------------------------------------------------------------------------
(* What each read of the download does.                                    *)

\* The damage there is stays the same, or is done to one of the bytes read.
DamagedIn(o, n) ==
    damaged' \in Int /\ (damaged' = damaged \/ (damaged = -1 /\ damaged' \in o .. o + n - 1))

LEMMA DamagesIs ==
    ASSUME damaged \in Int, NEW o \in Int, NEW n \in Int, damaged' \in Damages(o, n)
    PROVE  DamagedIn(o, n)
  BY DEF Damages, DamagedIn

\* During the download the file is one of the server, as far as it is known.
LEMMA Downloading ==
    ASSUME Types, pc \in InFlight
    PROVE  /\ \E f \in Files : Origin(f) /\ (UNCHANGED file =>
                                  (dw'.total <= Total(f) => Origin(f)'))
           /\ Offset \in Nat /\ TargetAddr \in Nat /\ Total(file) \in Nat
           /\ dw \in DRecord /\ dw.total \in Nat /\ dw.size \in Int /\ dw.remain \in Int
           /\ dw.signature \in Seq(Values) /\ Len(dw.signature) \in Nat
           /\ Len(dw.signature) <= SigLen /\ damaged \in Int
           /\ flash \in [0 .. FlashLen - 1 -> Values] /\ dw.remain <= SlotLen
<1>1. PICK f \in Files : Origin(f)
    BY DEF Types
<1>2. UNCHANGED file => (dw'.total <= Total(f) => Origin(f)')
    BY <1>1 DEF Origin
<1>3. Target \in OTA_INDEX /\ TargetAddr \in Nat
    BY TargetIs, SlotAddr DEF Types
<1>4. Offset \in Nat /\ Total(file) \in Nat
    BY <1>1, <1>3, SourceFacts DEF Offset
<1>5. /\ dw \in DRecord /\ dw.total \in Nat /\ dw.size \in Int /\ dw.remain \in Int
      /\ dw.signature \in Seq(Values) /\ Len(dw.signature) <= SigLen
      /\ damaged \in Int /\ flash \in [0 .. FlashLen - 1 -> Values]
      /\ dw.remain <= SlotLen
    BY DEF Types, DRecord
<1>6. Len(dw.signature) \in Nat
    BY <1>5, LenProperties
<1> QED
    BY <1>1, <1>2, <1>3, <1>4, <1>5, <1>6

\* What the first packet with bytes of the image adds to the flash.
FirstBytes == Arriving(Offset, dw.total - Offset, damaged')
FirstData == SubSeq(FirstBytes, SigLen + 1, Len(FirstBytes))

LEMMA StartResult ==
    ASSUME Types, StartImage
    PROVE  LET n == dw.total - Offset
               m == IF n <= SigLen THEN n ELSE SigLen
           IN  /\ pc = "download" /\ n \in Nat /\ n > 0 /\ ~dw.started
               /\ DamagedIn(Offset, n) /\ pc' = pc
               /\ FirstData \in Seq(Values) /\ Len(FirstData) = n - m
               /\ \A k \in 1 .. n - m :
                     FirstData[k] = Sent(file, damaged', Offset + SigLen + k - 1)
               /\ flash' = Program(flash, TargetAddr + SigLen, FirstData)
               /\ dw' \in DRecord /\ dw'.started /\ dw'.total = dw.total
               /\ Len(dw'.signature) = m
               /\ \A k \in 1 .. m : dw'.signature[k] = Sent(file, damaged', Offset + k - 1)
               /\ dw'.size = n - m /\ dw'.remain = dw.remain - (n - m)
               /\ UNCHANGED <<ota2Addr, boot, cur, ret, parse, reads, file, step>>
<1> DEFINE n == dw.total - Offset
           m == IF n <= SigLen THEN n ELSE SigLen
           b == FirstBytes
           sig == SubSeq(b, 1, Min({Len(b), SigLen}))
<1>1. /\ pc = "download" /\ ~dw.started /\ dw.total > Offset /\ pc' = pc
      /\ UNCHANGED <<ota2Addr, boot, cur, ret, parse, reads, file, step>>
    BY DEF StartImage, response
<1>2. /\ damaged' \in Damages(Offset, n)
      /\ flash' = Program(flash, TargetAddr + SigLen, FirstData)
      /\ dw' = [dw EXCEPT !.started = TRUE, !.signature = sig,
                          !.size = Len(FirstData), !.remain = @ - Len(FirstData)]
    BY Zenon DEF StartImage, FirstBytes, FirstData
<1>3. /\ Offset \in Nat /\ dw.total \in Nat /\ dw \in DRecord /\ dw.remain \in Int
      /\ damaged \in Int
    BY <1>1, Downloading DEF InFlight
<1>4. PICK f \in Files : Origin(f)
    BY <1>1 DEF Types, InFlight
<1>5. /\ n \in Nat /\ n > 0 /\ Offset + n <= Total(f) /\ Offset + n = dw.total
    <2>1. dw.total <= Total(f)
        BY <1>4, SourceFacts
    <2> QED
        BY <1>1, <1>3, <2>1
<1>6. DamagedIn(Offset, n)
    BY <1>2, <1>3, <1>5, DamagesIs
<1>7. /\ b \in Seq(Values) /\ Len(b) = n
      /\ \A k \in 1 .. n : b[k] = Sent(file, damaged', Offset + k - 1)
    BY <1>3, <1>4, <1>5, ArrivingBytes DEF FirstBytes
<1> HIDE DEF n, b
<1>8. Min({Len(b), SigLen}) = m /\ m \in 0 .. n /\ SigLen \in Nat
    BY <1>5, <1>7, MinOfTwo, Lengths
<1>9. /\ sig \in Seq(Values) /\ Len(sig) = m
      /\ \A k \in 1 .. m : sig[k] = b[k]
    <2>4. sig = SubSeq(b, 1, m)
        BY <1>8
    <2> HIDE DEF sig, m
    <2>1. sig = SubSeq(b, 1, m) /\ m \in 0 .. Len(b) /\ 1 \in Nat \ {0}
        BY <1>7, <1>8, <2>4
    <2>2. /\ sig \in Seq(Values) /\ Len(sig) = IF 1 <= m THEN m - 1 + 1 ELSE 0
          /\ \A k \in 1 .. m - 1 + 1 : sig[k] = b[1 + k - 1]
        BY <1>7, <2>1, Part
    <2>3. m \in Nat
        BY <1>8
    <2>5. \A k \in 1 .. m : sig[k] = b[k]
        <3> TAKE k \in 1 .. m
        <3>1. k \in 1 .. m - 1 + 1 /\ 1 + k - 1 = k
            BY <2>3
        <3> QED
            BY <2>2, <3>1
    <2> QED
        BY <2>2, <2>3, <2>5
<1> HIDE DEF sig
<1>10. /\ FirstData \in Seq(Values) /\ Len(FirstData) = n - m
       /\ \A k \in 1 .. n - m : FirstData[k] = b[SigLen + k]
    <2>1. FirstData = SubSeq(b, SigLen + 1, n) /\ SigLen + 1 \in Nat \ {0} /\ n \in 0 .. Len(b)
        BY <1>5, <1>7, <1>8 DEF FirstData, b
    <2>2. /\ FirstData \in Seq(Values)
          /\ Len(FirstData) = IF SigLen + 1 <= n THEN n - (SigLen + 1) + 1 ELSE 0
          /\ \A k \in 1 .. n - (SigLen + 1) + 1 : FirstData[k] = b[(SigLen + 1) + k - 1]
        BY <1>7, <2>1, Part
    <2>3. Len(FirstData) = n - m
        BY <1>5, <1>8, <2>2
    <2>4. \A k \in 1 .. n - m : FirstData[k] = b[SigLen + k]
        <3> TAKE k \in 1 .. n - m
        <3>1. k \in 1 .. n - (SigLen + 1) + 1 /\ (SigLen + 1) + k - 1 = SigLen + k
            BY <1>5, <1>8
        <3> QED
            BY <2>2, <3>1
    <2> QED
        BY <2>2, <2>3, <2>4
<1>11. \A k \in 1 .. n - m : FirstData[k] = Sent(file, damaged', Offset + SigLen + k - 1)
    <2> TAKE k \in 1 .. n - m
    <2>1. SigLen + k \in 1 .. n /\ Offset + (SigLen + k) - 1 = Offset + SigLen + k - 1
        BY <1>3, <1>5, <1>8
    <2> QED
        BY <1>7, <1>10, <2>1
<1>12. \A k \in 1 .. m : sig[k] = Sent(file, damaged', Offset + k - 1)
    <2> TAKE k \in 1 .. m
    <2>1. k \in 1 .. n
        BY <1>5, <1>8
    <2> QED
        BY <1>7, <1>9, <2>1
<1>13. /\ dw' \in DRecord /\ dw'.started /\ dw'.total = dw.total
       /\ dw'.signature = sig /\ dw'.size = n - m /\ dw'.remain = dw.remain - (n - m)
    <2>1. n - m \in Int
        BY <1>5, <1>8
    <2> DEFINE p == n - m
    <2> HIDE DEF m
    <2>2. p \in Int /\ Len(FirstData) = p
        BY <1>10, <2>1
    <2> HIDE DEF p
    <2>3. dw' = [dw EXCEPT !.started = TRUE, !.signature = sig, !.size = p, !.remain = @ - p]
        BY <1>2, <2>2
    <2> DEFINE v == dw.remain - p
    <2>5. dw \in DRecord /\ sig \in Seq(Values) /\ p \in Int /\ v \in Int
        BY <1>3, <1>9, <2>2
    <2>6. dw' = [dw EXCEPT !.started = TRUE, !.signature = sig, !.size = p, !.remain = v]
        BY <2>3
    <2> HIDE DEF v
    <2>7. /\ dw' \in DRecord /\ dw'.started /\ dw'.total = dw.total
          /\ dw'.signature = sig /\ dw'.size = p /\ dw'.remain = v
        BY <2>5, <2>6 DEF DRecord
    <2>4. /\ dw' \in DRecord /\ dw'.started /\ dw'.total = dw.total
          /\ dw'.signature = sig /\ dw'.size = p /\ dw'.remain = dw.remain - p
        BY <2>7 DEF v
    <2> QED
        BY <2>4 DEF p
<1> HIDE DEF m
<1>14. /\ Len(dw'.signature) = m
       /\ \A k \in 1 .. m : dw'.signature[k] = Sent(file, damaged', Offset + k - 1)
    BY <1>9, <1>12, <1>13
<1> QED
    BY <1>1, <1>2, <1>5, <1>6, <1>10, <1>11, <1>13, <1>14 DEF n, m

LEMMA SkipResult ==
    ASSUME Types, NEW n \in 1 .. BUF_SIZE, SkipTo(n)
    PROVE  /\ pc = "download" /\ ~dw.started /\ dw.total <= Offset
           /\ dw' \in DRecord /\ dw' = [dw EXCEPT !.total = dw.total + n]
           /\ dw'.total = dw.total + n /\ dw'.total <= Total(file)
           /\ ~dw'.started /\ dw'.remain = dw.remain /\ dw'.size = dw.size
           /\ dw'.signature = dw.signature
           /\ UNCHANGED <<flash, ota2Addr, boot, cur, pc, ret, parse, reads, file,
                          damaged, step>>
<1>1. /\ pc = "download" /\ ~dw.started /\ dw.total <= Offset
      /\ dw' = [dw EXCEPT !.total = dw.total + n] /\ dw.total + n <= Total(file)
      /\ UNCHANGED <<flash, ota2Addr, boot, cur, pc, ret, parse, reads, file,
                     damaged, step>>
    BY DEF SkipTo, CanRead, stored, response, served
<1>2. dw \in DRecord /\ dw.total + n \in Nat
    BY Numbers DEF Types, DRecord
<1>3. /\ dw' \in DRecord /\ dw'.total = dw.total + n /\ dw'.started = dw.started
      /\ dw'.remain = dw.remain /\ dw'.size = dw.size /\ dw'.signature = dw.signature
    BY <1>1, <1>2 DEF DRecord
<1> QED
    BY <1>1, <1>3

LEMMA MoreResult ==
    ASSUME Types, NEW n \in 1 .. BUF_SIZE, MoreSignature(n)
    PROVE  LET g == Len(dw.signature)
           IN  /\ pc = "download" /\ dw.started /\ g + n <= SigLen /\ n \in Nat
               /\ DamagedIn(dw.total, n)
               /\ dw' \in DRecord /\ dw'.started /\ dw'.total = dw.total + n
               /\ dw'.total <= Total(file) /\ dw'.remain = dw.remain
               /\ dw'.size = dw.size /\ Len(dw'.signature) = g + n
               /\ \A k \in 1 .. g : dw'.signature[k] = dw.signature[k]
               /\ \A k \in 1 .. n : dw'.signature[g + k]
                                    = Sent(file, damaged', dw.total + k - 1)
               /\ UNCHANGED <<flash, ota2Addr, boot, cur, pc, ret, parse, reads, file, step>>
<1> DEFINE b == Arriving(dw.total, n, damaged')
           g == Len(dw.signature)
           sig == dw.signature \o b
<1>1. /\ pc = "download" /\ dw.started /\ n <= SigLen - g
      /\ dw.total + n <= Total(file) /\ damaged' \in Damages(dw.total, n)
      /\ dw' = [dw EXCEPT !.signature = sig, !.total = dw.total + n]
      /\ UNCHANGED <<flash, ota2Addr, boot, cur, pc, ret, parse, reads, file, step>>
    BY DEF MoreSignature, CanRead, stored, response
<1>2. /\ dw.total \in Nat /\ dw \in DRecord /\ dw.signature \in Seq(Values)
      /\ g \in Nat /\ damaged \in Int /\ n \in Nat /\ SigLen \in Nat
    BY <1>1, Downloading, Numbers, Lengths DEF InFlight
<1>3. PICK f \in Files : Origin(f)
    BY <1>1 DEF Types, InFlight
<1>4. /\ b \in Seq(Values) /\ Len(b) = n
      /\ \A k \in 1 .. n : b[k] = Sent(file, damaged', dw.total + k - 1)
    <2>1. Total(file) <= Total(f) /\ Total(file) \in Nat /\ Total(f) \in Nat
        BY <1>3, SourceFacts
    <2>2. dw.total + n <= Total(f)
        BY <1>1, <1>2, <2>1
    <2> QED
        BY <1>2, <1>3, <2>2, ArrivingBytes
<1> HIDE DEF b, g
<1>5. /\ sig \in Seq(Values) /\ Len(sig) = g + n
      /\ \A k \in 1 .. g : sig[k] = dw.signature[k]
      /\ \A k \in 1 .. n : sig[g + k] = b[k]
    <2>1. /\ sig \in Seq(Values) /\ Len(sig) = Len(dw.signature) + Len(b)
          /\ \A i \in 1 .. Len(dw.signature) + Len(b) : sig[i] =
                IF i <= Len(dw.signature) THEN dw.signature[i] ELSE b[i - Len(dw.signature)]
        BY <1>2, <1>4, ConcatProperties
    <2> HIDE DEF sig
    <2>2. ASSUME NEW k \in 1 .. g
          PROVE  sig[k] = dw.signature[k]
        <3>1. k \in 1 .. g + n /\ k <= g
            BY <1>2
        <3> QED
            BY <1>4, <2>1, <3>1 DEF g
    <2>3. ASSUME NEW k \in 1 .. n
          PROVE  sig[g + k] = b[k]
        <3>1. g + k \in 1 .. g + n /\ ~(g + k <= g) /\ (g + k) - g = k
            BY <1>2
        <3> QED
            BY <1>4, <2>1, <3>1 DEF g
    <2> QED
        BY <1>4, <2>1, <2>2, <2>3 DEF g
<1> HIDE DEF sig
<1>6. DamagedIn(dw.total, n)
    BY <1>1, <1>2, DamagesIs
<1>7. dw.total + n \in Nat /\ g + n <= SigLen
    BY <1>1, <1>2
<1>8. /\ dw' \in DRecord /\ dw'.started = dw.started /\ dw'.total = dw.total + n
      /\ dw'.remain = dw.remain /\ dw'.size = dw.size /\ dw'.signature = sig
    BY <1>1, <1>2, <1>5, <1>7 DEF DRecord
<1>9. \A k \in 1 .. n : sig[g + k] = Sent(file, damaged', dw.total + k - 1)
    BY <1>4, <1>5
<1> QED
    BY <1>1, <1>2, <1>5, <1>6, <1>7, <1>8, <1>9 DEF g

\* The bytes of a packet that are kept.
Kept(n) == Min({n, dw.remain})
KeptBytes(n) == Arriving(dw.total, Kept(n), damaged')

LEMMA CopyResult ==
    ASSUME Types, NEW n \in 1 .. BUF_SIZE, Copy(n)
    PROVE  /\ pc = "download" /\ dw.started /\ Len(dw.signature) = SigLen /\ n \in Nat
           /\ Kept(n) = IF n <= dw.remain THEN n ELSE dw.remain
           /\ DamagedIn(dw.total, Kept(n))
           /\ KeptBytes(n) \in Seq(Values)
           /\ Kept(n) >= 0 =>
                 /\ Len(KeptBytes(n)) = Kept(n)
                 /\ \A k \in 1 .. Kept(n) :
                       KeptBytes(n)[k] = Sent(file, damaged', dw.total + k - 1)
           /\ flash' = Program(flash, TargetAddr + SigLen + dw.size, KeptBytes(n))
           /\ dw' \in DRecord /\ dw'.started /\ dw'.total = dw.total + n
           /\ dw'.total <= Total(file) /\ dw'.signature = dw.signature
           /\ dw'.size = dw.size + Kept(n) /\ dw'.remain = dw.remain - Kept(n)
           /\ pc' = IF dw.remain <= n THEN "verify" ELSE "download"
           /\ UNCHANGED <<ota2Addr, boot, cur, ret, parse, reads, file, step>>
<1> DEFINE kept == Kept(n)
<1>1. /\ pc = "download" /\ dw.started /\ Len(dw.signature) = SigLen
      /\ dw.total + n <= Total(file) /\ damaged' \in Damages(dw.total, kept)
      /\ flash' = Program(flash, TargetAddr + SigLen + dw.size, KeptBytes(n))
      /\ dw' = [dw EXCEPT !.total = dw.total + n, !.size = dw.size + kept,
                          !.remain = dw.remain - kept]
      /\ pc' = IF dw.remain <= n THEN "verify" ELSE "download"
      /\ UNCHANGED <<ota2Addr, boot, cur, ret, parse, reads, file, step>>
    BY DEF Copy, CanRead, response, Kept, KeptBytes
<1>2. /\ dw.total \in Nat /\ dw \in DRecord /\ dw.remain \in Int /\ dw.size \in Int
      /\ damaged \in Int /\ n \in Nat
    BY <1>1, Downloading, Numbers DEF InFlight
<1>3. /\ kept = IF n <= dw.remain THEN n ELSE dw.remain
      /\ kept \in Int /\ kept <= n
    BY <1>2, MinOfTwo DEF Kept
<1>4. PICK f \in Files : Origin(f)
    BY <1>1 DEF Types, InFlight
<1> HIDE DEF kept
<1>5. ASSUME kept >= 0
      PROVE  /\ KeptBytes(n) \in Seq(Values) /\ Len(KeptBytes(n)) = kept
             /\ \A k \in 1 .. kept :
                   KeptBytes(n)[k] = Sent(file, damaged', dw.total + k - 1)
    <2>1. Total(file) <= Total(f) /\ Total(file) \in Nat /\ Total(f) \in Nat
        BY <1>4, SourceFacts
    <2>2. dw.total + kept <= Total(f) /\ kept \in Nat
        BY <1>1, <1>2, <1>3, <1>5, <2>1
    <2>3. KeptBytes(n) = Arriving(dw.total, kept, damaged')
        BY DEF KeptBytes, kept
    <2> QED
        BY <1>2, <1>4, <2>2, <2>3, ArrivingBytes
<1>6. KeptBytes(n) \in Seq(Values)
    <2>1. CASE kept >= 0
        BY <1>5, <2>1
    <2>2. CASE ~(kept >= 0)
        <3>1. KeptBytes(n) = <<>>
            BY <1>3, <2>2, ArrivingNone DEF KeptBytes, kept
        <3> QED
            BY <3>1, EmptySeq
    <2> QED
        BY <2>1, <2>2
<1>7. DamagedIn(dw.total, kept)
    BY <1>1, <1>2, <1>3, DamagesIs
<1>8. /\ dw.total + n \in Nat /\ dw.size + kept \in Int /\ dw.remain - kept \in Int
    BY <1>2, <1>3
<1>9. /\ dw' \in DRecord /\ dw'.started = dw.started /\ dw'.total = dw.total + n
      /\ dw'.signature = dw.signature
      /\ dw'.size = dw.size + kept /\ dw'.remain = dw.remain - kept
    BY <1>1, <1>2, <1>8 DEF DRecord
<1> QED
    BY <1>1, <1>2, <1>3, <1>5, <1>6, <1>7, <1>9 DEF kept

\* The file is still one of the server after a read.
LEMMA OriginKept ==
    ASSUME Types, pc \in InFlight, UNCHANGED file, dw'.total \in Nat,
           dw'.total <= Total(file) \/ dw'.total = dw.total
    PROVE  \E f \in Files : Origin(f)'
<1>1. PICK f \in Files : Origin(f) /\ (dw'.total <= Total(f) => Origin(f)')
    BY Downloading
<1>2. /\ Total(file) \in Nat /\ Total(file) <= Total(f) /\ Total(f) \in Nat
      /\ dw.total <= Total(f)
    BY <1>1, SourceFacts
<1>3. dw'.total <= Total(f)
    BY <1>2
<1> QED
    BY <1>1, <1>3

LEMMA DownloadTypes ==
    ASSUME Types,
           StartImage \/ \E n \in 1 .. BUF_SIZE : SkipTo(n) \/ MoreSignature(n) \/ Copy(n)
    PROVE  Types'
<1>1. TargetAddr \in Nat /\ SigLen \in Nat
    BY TargetIs, SlotAddr, Lengths DEF Types
<1>2. CASE StartImage
    <2> DEFINE p == dw.total - Offset
               m == IF p <= SigLen THEN p ELSE SigLen
    <2>1. /\ pc = "download" /\ pc' = pc /\ p \in Nat /\ damaged' \in Int
          /\ FirstData \in Seq(Values)
          /\ flash' = Program(flash, TargetAddr + SigLen, FirstData)
          /\ dw' \in DRecord /\ dw'.total = dw.total /\ Len(dw'.signature) = m
          /\ dw'.remain = dw.remain - (p - m)
          /\ UNCHANGED <<ota2Addr, boot, cur, ret, parse, reads, file, step>>
        BY <1>2, StartResult DEF DamagedIn
    <2> HIDE DEF p
    <2>2. m <= SigLen /\ p - m \in Nat
        BY <1>1, <2>1
    <2> HIDE DEF m
    <2>3. flash' \in [0 .. FlashLen - 1 -> Values]
        BY <1>1, <2>1, ProgramCells DEF Types
    <2>4. dw'.remain <= SlotLen
        <3>1. dw.remain \in Int /\ dw.remain <= SlotLen /\ SlotLen \in Nat
            BY Lengths DEF Types, DRecord
        <3> QED
            BY <2>1, <2>2, <3>1
    <2>5. \E f \in Files : Origin(f)'
        BY <2>1, OriginKept DEF InFlight, DRecord
    <2> QED
        BY <2>1, <2>2, <2>3, <2>4, <2>5 DEF Types, InFlight
<1>3. ASSUME NEW n \in 1 .. BUF_SIZE, SkipTo(n)
      PROVE  Types'
    <2>1. /\ pc = "download" /\ dw' \in DRecord /\ dw'.total <= Total(file)
          /\ dw'.remain = dw.remain /\ dw'.signature = dw.signature
          /\ UNCHANGED <<flash, ota2Addr, boot, cur, pc, ret, parse, reads, file,
                         damaged, step>>
        BY <1>3, SkipResult
    <2>2. \E f \in Files : Origin(f)'
        BY <2>1, OriginKept DEF InFlight, DRecord
    <2> QED
        BY <2>1, <2>2 DEF Types, InFlight
<1>4. ASSUME NEW n \in 1 .. BUF_SIZE, MoreSignature(n)
      PROVE  Types'
    <2>1. /\ pc = "download" /\ dw' \in DRecord /\ dw'.total <= Total(file)
          /\ dw'.remain = dw.remain /\ Len(dw'.signature) = Len(dw.signature) + n
          /\ Len(dw.signature) + n <= SigLen /\ damaged' \in Int
          /\ UNCHANGED <<flash, ota2Addr, boot, cur, pc, ret, parse, reads, file, step>>
        BY <1>4, MoreResult DEF DamagedIn
    <2>2. \E f \in Files : Origin(f)'
        BY <2>1, OriginKept DEF InFlight, DRecord
    <2> QED
        BY <2>1, <2>2 DEF Types, InFlight
<1>5. ASSUME NEW n \in 1 .. BUF_SIZE, Copy(n)
      PROVE  Types'
    <2>1. /\ pc = "download" /\ dw' \in DRecord /\ dw'.total <= Total(file)
          /\ dw'.signature = dw.signature /\ Len(dw.signature) = SigLen
          /\ Kept(n) = (IF n <= dw.remain THEN n ELSE dw.remain) /\ n \in Nat
          /\ dw'.remain = dw.remain - Kept(n) /\ damaged' \in Int
          /\ KeptBytes(n) \in Seq(Values)
          /\ flash' = Program(flash, TargetAddr + SigLen + dw.size, KeptBytes(n))
          /\ pc' \in {"verify", "download"}
          /\ UNCHANGED <<ota2Addr, boot, cur, ret, parse, reads, file, step>>
        BY <1>5, CopyResult DEF DamagedIn
    <2>2. \E f \in Files : Origin(f)'
        BY <2>1, OriginKept DEF InFlight, DRecord
    <2>3. flash' \in [0 .. FlashLen - 1 -> Values]
        <3>1. TargetAddr + SigLen + dw.size \in Int
            BY <1>1 DEF Types, DRecord
        <3> QED
            BY <2>1, <3>1, ProgramCells DEF Types
    <2>4. dw'.remain <= SlotLen
        <3>1. dw.remain \in Int /\ dw.remain <= SlotLen /\ SlotLen \in Nat
            BY Lengths DEF Types, DRecord
        <3> QED
            BY <2>1, <3>1
    <2> QED
        BY <2>1, <2>2, <2>3, <2>4 DEF Types, InFlight
<1> QED
    BY <1>2, <1>3, <1>4, <1>5

LEMMA EndTypes ==
    ASSUME Types, EraseSector \/ Verify \/ ClearSignatureZone \/ WriteSignature \/ OtaChange
    PROVE  Types'
<1>1. TargetAddr \in Nat /\ Target \in OTA_INDEX /\ step \in Nat
    BY TargetIs, SlotAddr DEF Types
<1>2. \A f : UNCHANGED <<file, dw>> => (Origin(f) => Origin(f)')
    BY DEF Origin
<1>3. CASE EraseSector
    <2>1. /\ pc = "erase" /\ pc' \in {"download", "erase"} /\ step' = step + 1
          /\ \E q : flash' = EraseSectorAt(flash, q)
          /\ UNCHANGED <<ota2Addr, boot, cur, ret, parse, reads, file, damaged, dw>>
        BY <1>3 DEF EraseSector, response, served
    <2>2. flash' \in [0 .. FlashLen - 1 -> Values]
        BY <2>1, EraseSectorCells DEF Types
    <2> QED
        BY <1>1, <1>2, <2>1, <2>2 DEF Types, InFlight
<1>4. CASE Verify
    <2>1. /\ pc = "verify" /\ pc' \in {"sign", "clear"} /\ step' = 0
          /\ UNCHANGED <<flash, ota2Addr, boot, cur, ret, parse, reads, file, damaged, dw>>
        BY <1>4 DEF Verify, stored, response, served
    <2> QED
        BY <1>2, <2>1 DEF Types, InFlight
<1>5. CASE ClearSignatureZone
    <2>1. flash' \in [0 .. FlashLen - 1 -> Values]
        BY <1>5, EraseSectorCells DEF ClearSignatureZone, Types
    <2> QED
        BY <1>5, <2>1, IdleTypes DEF ClearSignatureZone, Types
<1>6. CASE WriteSignature
    <2>1. /\ pc = "sign" /\ step < SigLen /\ step' = step + 1
          /\ flash' = Program(flash, TargetAddr + step, <<dw.signature[step + 1]>>)
          /\ UNCHANGED <<ota2Addr, boot, cur, pc, ret, parse, reads, file, damaged, dw>>
        BY <1>6 DEF WriteSignature, response, served
    <2>2. dw.signature[step + 1] \in Values
        <3>1. dw.signature \in Seq(Values) /\ Len(dw.signature) = SigLen /\ SigLen \in Nat
            BY <2>1, Lengths DEF Types, DRecord
        <3>2. step + 1 \in 1 .. SigLen
            BY <1>1, <2>1, <3>1
        <3> QED
            BY <3>1, <3>2, ElementOfSeq
    <2>3. <<dw.signature[step + 1]>> \in Seq(Values)
        BY <2>2
    <2>4. flash' \in [0 .. FlashLen - 1 -> Values]
        <3> DEFINE one == <<dw.signature[step + 1]>>
                   at == TargetAddr + step
        <3>1. at \in Int /\ flash' = Program(flash, at, one) /\ one \in Seq(Values)
              /\ flash \in [0 .. FlashLen - 1 -> Values]
            BY <1>1, <2>1, <2>3 DEF Types
        <3> HIDE DEF one, at
        <3> QED
            BY <3>1, ProgramCells
    <2> QED
        BY <1>1, <1>2, <2>1, <2>4 DEF Types, InFlight
<1>7. CASE OtaChange
    BY <1>1, <1>7, IdleTypes DEF OtaChange, served, Types
<1> QED
    BY <1>3, <1>4, <1>5, <1>6, <1>7

\* A call or a connection that comes to nothing.
Fails == ConnectFails \/ SendFails \/ ResponseFails \/ HeaderFails \/ ReadFails

LEMMA FailsLeave ==
    ASSUME Fails
    PROVE  Leave /\ UNCHANGED <<stored, cur>> /\ pc # "idle"
  BY DEF Fails, ConnectFails, SendFails, ResponseFails, HeaderFails, ReadFails

LEMMA ActionTypes ==
    ASSUME Types, Next
    PROVE  Types'
<1>1. CASE \/ HttpUpdateOta \/ Connect \/ EraseAddr \/ WriteAddr \/ SendRequest
           \/ Redirect \/ (\E p \in 1 .. 3 : ReadHeader(p))
           \/ \E s \in OTA_INDEX : CmdOtaImage(s)
    BY <1>1, RequestTypes
<1>2. CASE Fails
    BY <1>2, FailsLeave, LeaveTypes
<1>3. CASE \E f \in Files : \E first \in 0 .. BUF_SIZE : ReadBody(f, first)
    BY <1>3, ReadBodyTypes
<1>4. CASE TakeHeader
    BY <1>4, TakeHeaderTypes
<1>5. CASE \/ StartImage
           \/ \E n \in 1 .. BUF_SIZE : SkipTo(n) \/ MoreSignature(n) \/ Copy(n)
    BY <1>5, DownloadTypes
<1>6. CASE EraseSector \/ Verify \/ ClearSignatureZone \/ WriteSignature \/ OtaChange
    BY <1>6, EndTypes
<1>7. CASE Restart
    BY <1>7, RestartTypes
<1> QED
    BY <1>1, <1>2, <1>3, <1>4, <1>5, <1>6, <1>7 DEF Next, Update, Fails

LEMMA TypesInit == Init => Types
<1> SUFFICES ASSUME Init
             PROVE  Types
    OBVIOUS
<1>1. rdp \in Files
    BY DEF Init
<1>2. \A k \in Nat : k < rdp.len => Served(rdp, rdp.ota[1] + k) \in Values
    <2> TAKE k \in Nat
    <2> HAVE k < rdp.len
    <2>1. rdp.ota[1] \in Nat /\ rdp.len \in Nat /\ rdp.ota[1] + rdp.len <= Total(rdp)
          /\ Total(rdp) \in Nat
        BY <1>1, FileFacts, TotalBound
    <2>2. rdp.ota[1] + k \in Nat /\ rdp.ota[1] + k < Total(rdp)
        BY <2>1
    <2> QED
        BY <1>1, <2>2, ServedByte
<1>3. flash \in [0 .. FlashLen - 1 -> Values]
    <2>1. flash = [k \in 0 .. FlashLen - 1 |->
                     IF k < rdp.len THEN Served(rdp, rdp.ota[1] + k) ELSE Erased]
        BY DEF Init
    <2>2. \A k \in 0 .. FlashLen - 1 : k \in Nat
        BY Numbers
    <2> QED
        BY <1>2, <2>1, <2>2, ErasedByte
<1>4. dw \in DRecord /\ dw.remain <= SlotLen /\ Len(dw.signature) <= SigLen
    BY NoDownloadType, Lengths DEF Init
<1> QED
    BY <1>3, <1>4, HttpAssumption DEF Init, Types, InFlight, OTA_INDEX

LEMMA TypesNext == Types /\ [Next]_vars => Types'
<1> SUFFICES ASSUME Types, [Next]_vars
             PROVE  Types'
    OBVIOUS
<1>1. CASE Next
    BY <1>1, ActionTypes
<1>2. CASE UNCHANGED vars
    <2>1. UNCHANGED <<flash, ota2Addr, boot, cur, pc, ret, parse, reads, file, damaged,
                      step, dw>>
        BY <1>2 DEF vars, stored, response, served
    <2>2. \A f : Origin(f) => Origin(f)'
        BY <2>1 DEF Origin
    <2> QED
        BY <2>1, <2>2 DEF Types
<1> QED
    BY <1>1, <1>2

LEMMA TypesAlways == Spec => []Types
  BY TypesInit, TypesNext, PTL DEF Spec

\* The variables keep their types, even when a server closes in the header of the
\* file and its length is read as 0: every byte that gets to the flash is one that was
\* served, damaged or erased, and http_signature, which takes what is missing of the
\* signature read by read, is never written behind its end.
THEOREM TypeCorrect == Spec => []TypeOK
<1>1. Types => TypeOK
    BY DEF Types, TypeOK, InFlight, DRecord
<1> QED
    BY <1>1, TypesAlways, PTL

-----------------------------------------------------------------------------
(* Slots of the flash.                                                     *)

\* The cells of the slots other than t are the same.
OthersKept(fl, fl2, t) ==
    \A s \in OTA_INDEX \ {t} : \A k \in 0 .. SlotLen - 1 :
        fl2[BootAddr(s) + k] = fl[BootAddr(s) + k]

\* Programming blank cells of a slot.
LEMMA ProgramSlot ==
    ASSUME NEW fl \in [0 .. FlashLen - 1 -> Values], NEW t \in OTA_INDEX,
           NEW from \in Nat, NEW bytes \in Seq(Values), from + Len(bytes) <= SlotLen,
           \A j \in from .. from + Len(bytes) - 1 : fl[BootAddr(t) + j] = Erased
    PROVE  LET fl2 == Program(fl, BootAddr(t) + from, bytes)
           IN  /\ \A j \in 0 .. SlotLen - 1 : fl2[BootAddr(t) + j] =
                     IF j \in from .. from + Len(bytes) - 1
                     THEN bytes[j - from + 1] ELSE fl[BootAddr(t) + j]
               /\ OthersKept(fl, fl2, t)
<1> DEFINE at == BootAddr(t)
           n == Len(bytes)
           fl2 == Program(fl, at + from, bytes)
<1>1. /\ at \in Nat /\ n \in Nat /\ SlotLen \in Nat
      /\ \A k \in 0 .. SlotLen - 1 : at + k \in 0 .. FlashLen - 1
    BY SlotAddr, Lengths, LenProperties
<1>2. \A k \in 0 .. FlashLen - 1 : fl2[k] =
         IF k \in at + from .. at + from + n - 1
         THEN IF fl[k] = Erased THEN bytes[k - (at + from) + 1] ELSE Overwritten
         ELSE fl[k]
    <2>1. at + from \in Int
        BY <1>1
    <2> QED
        BY <2>1, ProgramCells
<1> HIDE DEF fl2, n
<1>3. ASSUME NEW j \in 0 .. SlotLen - 1
      PROVE  fl2[at + j] = IF j \in from .. from + n - 1 THEN bytes[j - from + 1]
                           ELSE fl[at + j]
    <2> HIDE DEF at
    <2>3. at + j \in 0 .. FlashLen - 1
        BY <1>1
    <2>4. /\ (at + j \in at + from .. at + from + n - 1) <=> (j \in from .. from + n - 1)
          /\ (at + j) - (at + from) + 1 = j - from + 1
        <3>1. at \in Int /\ n \in Int /\ from \in Int /\ j \in Int
            BY <1>1
        <3> QED
            BY <3>1
    <2>1. /\ at + j \in 0 .. FlashLen - 1
          /\ (at + j \in at + from .. at + from + n - 1) <=> (j \in from .. from + n - 1)
          /\ (at + j) - (at + from) + 1 = j - from + 1
        BY <2>3, <2>4
    <2>2. j \in from .. from + n - 1 => fl[at + j] = Erased
        BY DEF at, n
    <2> QED
        BY <1>2, <2>1, <2>2
<1>4. ASSUME NEW s \in OTA_INDEX \ {t}, NEW k \in 0 .. SlotLen - 1
      PROVE  fl2[BootAddr(s) + k] = fl[BootAddr(s) + k]
    <2> DEFINE x == BootAddr(s) + k
    <2>1. x \in 0 .. FlashLen - 1
        BY SlotAddr
    <2>2. ASSUME x \in at + from .. at + from + n - 1
          PROVE  FALSE
        <3> DEFINE j == x - at
        <3>1. j \in 0 .. SlotLen - 1 /\ x = at + j
            <4> HIDE DEF x, at
            <4> QED
                BY <1>1, <2>1, <2>2 DEF n
        <3>2. BootAddr(s) + k # BootAddr(t) + j
            <4> HIDE DEF j
            <4> QED
                BY <3>1, SlotsApart
        <3> QED
            BY <3>1, <3>2
    <2> HIDE DEF x
    <2>3. fl2[x] = fl[x]
        BY <1>2, <2>1, <2>2
    <2> QED
        BY <2>3 DEF x
<1> QED
    BY <1>3, <1>4 DEF fl2, n, OthersKept

\* The sector of the flash that is number n of the slot t.
SectorOf(t, n) == (BootAddr(t) \div SectorLen + n) % FlashSectors

\* Erasing a sector of an image.
LEMMA EraseSlot ==
    ASSUME NEW fl \in [0 .. FlashLen - 1 -> Values], NEW t \in OTA_INDEX,
           NEW len \in 1 .. SlotLen, NEW n \in Nat, n <= (len - 1) \div SectorLen
    PROVE  LET fl2 == EraseSectorAt(fl, SectorOf(t, n))
           IN  /\ SectorOf(t, n) = BootAddr(t) \div SectorLen + n
               /\ \A j \in 0 .. SlotLen - 1 : fl2[BootAddr(t) + j] =
                     IF j \div SectorLen = n THEN Erased ELSE fl[BootAddr(t) + j]
               /\ OthersKept(fl, fl2, t)
<1> DEFINE at == BootAddr(t)
           q == at \div SectorLen + n
           fl2 == EraseSectorAt(fl, q)
<1>1. /\ q % FlashSectors = q
      /\ \A j \in Nat : (at + j) \div SectorLen = q <=> j \div SectorLen = n
      /\ \A s \in OTA_INDEX \ {t} : \A k \in 0 .. SlotLen - 1 :
            (BootAddr(s) + k) \div SectorLen # q
    BY SectorOfSlot
<1> HIDE DEF q
<1>2. \A k \in 0 .. FlashLen - 1 :
         fl2[k] = IF k \div SectorLen = q THEN Erased ELSE fl[k]
    BY EraseSectorCells
<1>3. \A s \in OTA_INDEX : \A k \in 0 .. SlotLen - 1 : BootAddr(s) + k \in 0 .. FlashLen - 1
    BY SlotAddr
<1> HIDE DEF fl2
<1>4. \A j \in 0 .. SlotLen - 1 : fl2[at + j] =
         IF j \div SectorLen = n THEN Erased ELSE fl[at + j]
    <2> TAKE j \in 0 .. SlotLen - 1
    <2>1. j \in Nat /\ at + j \in 0 .. FlashLen - 1
        BY <1>3, Lengths
    <2> QED
        BY <1>1, <1>2, <2>1
<1>5. \A s \in OTA_INDEX \ {t} : \A k \in 0 .. SlotLen - 1 :
         fl2[BootAddr(s) + k] = fl[BootAddr(s) + k]
    BY <1>1, <1>2, <1>3
<1> QED
    BY <1>1, <1>4, <1>5 DEF fl2, q, OthersKept, SectorOf

-----------------------------------------------------------------------------
(* One read of the download.                                               *)

\* Damage done to what is read now is none to what was read before.
LEMMA SentKept ==
    ASSUME NEW f, NEW o \in Int, NEW n \in Int, DamagedIn(o, n), NEW x \in Nat, x < o
    PROVE  Sent(f, damaged', x) = Sent(f, damaged, x)
  BY DEF Sent, DamagedIn

\* The numbers of a download in work.
LEMMA CopyingNumbers ==
    ASSUME Types, file \in Files, pc \in InFlight,
           Copying(file, Target, damaged, dw, flash, TargetAddr)
    PROVE  /\ Target \in OTA_INDEX /\ TargetAddr = BootAddr(Target) /\ TargetAddr \in Nat
           /\ Offset = file.ota[Target] /\ Offset \in Nat
           /\ SigLen \in Nat /\ SigLen > 0 /\ SlotLen \in Nat /\ BUF_SIZE \in Nat
           /\ file.len \in Nat /\ SigLen < file.len /\ file.len <= SlotLen
           /\ BUF_SIZE < file.len
           /\ dw.size \in Nat /\ dw.remain \in Nat /\ dw.remain > 0
           /\ dw.size + dw.remain = file.len - SigLen
           /\ dw.total \in Nat /\ Len(dw.signature) \in Nat /\ Len(dw.signature) <= SigLen
<1>1. Target \in OTA_INDEX /\ TargetAddr = BootAddr(Target) /\ TargetAddr \in Nat
    BY TargetIs, SlotAddr DEF Types
<1>2. /\ file.len \in Nat /\ SigLen < file.len /\ file.len <= SlotLen
      /\ BUF_SIZE < file.len
    BY FileFacts, HttpAssumption
<1>3. /\ dw.total \in Nat /\ Len(dw.signature) \in Nat /\ Len(dw.signature) <= SigLen
      /\ Offset \in Nat /\ dw.remain \in Int
    BY Downloading
<1>4. dw.size \in Nat /\ dw.remain > 0 /\ dw.size + dw.remain = file.len - SigLen
    BY DEF Copying
<1>5. dw.remain \in Nat
    BY <1>3, <1>4
<1> QED
    BY <1>1, <1>2, <1>3, <1>4, <1>5, Lengths, Numbers DEF Offset

\* A step of the download of which the slot is the worse for nothing but a part of
\* the image.
CopyingOn ==
    /\ OthersKept(flash, flash', Target) /\ SignatureBlank(flash', TargetAddr, 0)
    /\ \/ pc' = "download" /\ Copying(file, Target, damaged', dw', flash', TargetAddr)
       \/ pc' = "verify" /\ Copied(file, Target, damaged', dw', flash', TargetAddr)
    /\ UNCHANGED <<ota2Addr, boot, cur, ret, file>>

Regrouped(a, b, c, d, x) == a + b + c + x - 1 = a + d

LEMMA Regroup ==
    ASSUME NEW a \in Int, NEW b \in Int, NEW c \in Int, NEW d \in Int, NEW x,
           x = d - (b + c) + 1
    PROVE  Regrouped(a, b, c, d, x)
  BY DEF Regrouped

\* z bytes of the body of an image are in place, r are not; the next n are written.
NextWritten(f, t, m, m2, at, fl, fl2, z, r, n, o, bytes) ==
    /\ f \in Files /\ t \in OTA_INDEX /\ at = BootAddr(t) /\ o = f.ota[t] /\ o \in Nat
    /\ fl \in [0 .. FlashLen - 1 -> Values] /\ z \in Nat /\ r \in Nat /\ n \in Nat
    /\ SigLen + z + r = f.len /\ n <= r
    /\ InPlace(f, t, m, fl, at, z) /\ Blank(f, fl, at, z) /\ SignatureBlank(fl, at, 0)
    /\ bytes \in Seq(Values) /\ Len(bytes) = n
    /\ \A k \in 1 .. n : bytes[k] = Sent(f, m2, o + SigLen + z + k - 1)
    /\ z > 0 => \A x \in Nat : x < o + SigLen + z => Sent(f, m2, x) = Sent(f, m, x)
    /\ fl2 = Program(fl, at + SigLen + z, bytes)

LEMMA BodyGrows ==
    ASSUME NEW f, NEW t, NEW m, NEW m2, NEW at, NEW fl, NEW fl2, NEW z, NEW r, NEW n,
           NEW o, NEW bytes, NextWritten(f, t, m, m2, at, fl, fl2, z, r, n, o, bytes)
    PROVE  /\ InPlace(f, t, m2, fl2, at, z + n) /\ Blank(f, fl2, at, z + n)
           /\ SignatureBlank(fl2, at, 0) /\ OthersKept(fl, fl2, t)
<1> USE DEF NextWritten
<1> DEFINE len == f.len
           from == SigLen + z
<1>1. /\ at \in Nat /\ SigLen \in Nat /\ SlotLen \in Nat
      /\ len \in Nat /\ SigLen < len /\ len <= SlotLen
    BY SlotAddr, FileFacts, Lengths
<1>2. SigLen + z + r = len
    OBVIOUS
<1> HIDE DEF len
<1>3. from \in Nat /\ from + n <= len /\ at + SigLen + z = at + from /\ from >= SigLen
    BY <1>1, <1>2
<1>4. \A j \in from .. from + n - 1 : fl[at + j] = Erased
    <2> TAKE j \in from .. from + n - 1
    <2>1. j \in from .. len - 1
        BY <1>1, <1>3
    <2> QED
        BY <2>1 DEF Blank, len
<1> HIDE DEF from
<1>5. /\ \A j \in 0 .. SlotLen - 1 : fl2[at + j] =
            IF j \in from .. from + n - 1 THEN bytes[j - from + 1] ELSE fl[at + j]
      /\ OthersKept(fl, fl2, t)
    <2>1. from + Len(bytes) <= SlotLen
        BY <1>1, <1>3
    <2>2. \A j \in from .. from + Len(bytes) - 1 : fl[BootAddr(t) + j] = Erased
        BY <1>4
    <2>3. fl2 = Program(fl, BootAddr(t) + from, bytes)
        BY <1>3
    <2>4. /\ \A j \in 0 .. SlotLen - 1 :
                Program(fl, BootAddr(t) + from, bytes)[BootAddr(t) + j] =
                IF j \in from .. from + Len(bytes) - 1 THEN bytes[j - from + 1]
                ELSE fl[BootAddr(t) + j]
          /\ OthersKept(fl, Program(fl, BootAddr(t) + from, bytes), t)
        BY <1>3, <2>1, <2>2, ProgramSlot
    <2> QED
        BY <2>3, <2>4
<1>6. ASSUME NEW k \in SigLen .. SigLen + (z + n) - 1
      PROVE  fl2[at + k] = Sent(f, m2, o + k)
    <2>1. k \in 0 .. SlotLen - 1 /\ k \in Nat /\ k < from + n /\ k >= SigLen
        BY <1>1, <1>3 DEF from
    <2>2. CASE k >= from
        <3>1. k \in from .. from + n - 1 /\ k - from + 1 \in 1 .. n
            BY <1>3, <2>1, <2>2
        <3>2. o + SigLen + z + (k - from + 1) - 1 = o + k
            <4> DEFINE x == k - from + 1
            <4>1. o \in Int /\ SigLen \in Int /\ z \in Int /\ k \in Int
                  /\ x = k - (SigLen + z) + 1
                BY <1>1, <2>1 DEF from
            <4> HIDE DEF x
            <4>2. Regrouped(o, SigLen, z, k, x)
                BY <4>1, Regroup
            <4> QED
                BY <4>2 DEF Regrouped, x
        <3>3. bytes[k - from + 1] = Sent(f, m2, o + k)
            BY <3>1, <3>2
        <3> QED
            BY <1>5, <2>1, <3>1, <3>3
    <2>3. CASE ~(k >= from)
        <3>1. k \notin from .. from + n - 1 /\ k \in SigLen .. SigLen + z - 1 /\ z > 0
            BY <1>1, <1>3, <2>1, <2>3 DEF from
        <3>2. fl2[at + k] = fl[at + k]
            BY <1>5, <2>1, <3>1
        <3>3. fl[at + k] = Sent(f, m, o + k)
            BY <3>1 DEF InPlace
        <3>4. o + k \in Nat /\ o + k < o + SigLen + z
            <4>1. o \in Nat /\ SigLen \in Nat /\ z \in Nat /\ k \in Nat /\ k < SigLen + z
                BY <1>1, <2>1, <3>1
            <4> HIDE DEF NextWritten
            <4> QED
                BY <4>1
        <3>5. Sent(f, m2, o + k) = Sent(f, m, o + k)
            BY <3>1, <3>4
        <3> QED
            BY <3>2, <3>3, <3>5
    <2> QED
        BY <2>2, <2>3
<1>7. ASSUME NEW k \in SigLen + (z + n) .. len - 1
      PROVE  fl2[at + k] = Erased
    <2>1. /\ k \in 0 .. SlotLen - 1 /\ k \notin from .. from + n - 1
          /\ k \in SigLen + z .. len - 1
        BY <1>1, <1>3 DEF from
    <2>2. fl[at + k] = Erased
        BY <2>1 DEF Blank, len
    <2> QED
        BY <1>5, <2>1, <2>2
<1>8. ASSUME NEW k \in 0 .. SigLen - 1
      PROVE  fl2[at + k] = Erased
    <2>1. k \in 0 .. SlotLen - 1 /\ k \notin from .. from + n - 1
        BY <1>1, <1>3
    <2>2. fl[at + k] = Erased
        BY DEF SignatureBlank
    <2> QED
        BY <1>5, <2>1, <2>2
<1> QED
    BY <1>5, <1>6, <1>7, <1>8 DEF InPlace, Blank, SignatureBlank, len

\* The numbers of a first packet: n bytes of it belong to the image, m of them to the
\* signature.
LEMMA FirstNumbers ==
    ASSUME NEW total \in Nat, NEW o \in Nat, NEW len \in Nat, NEW r \in Int,
           NEW sig \in Nat, NEW buf \in Nat, sig < len, buf < len, r = len - sig,
           total <= o + buf, total - o \in Nat
    PROVE  LET n == total - o
               m == IF n <= sig THEN n ELSE sig
           IN  /\ m \in Nat /\ n - m \in Nat /\ m <= sig /\ n - m < r /\ n \in Int
               /\ n - m > 0 => m = sig
               /\ total = o + m + (n - m)
               /\ (n - m) + (r - (n - m)) = len - sig /\ r - (n - m) > 0 /\ r \in Nat
  OBVIOUS

LEMMA StartStage ==
    ASSUME Types, file \in Files, StartImage,
           Copying(file, Target, damaged, dw, flash, TargetAddr)
    PROVE  CopyingOn
<1> DEFINE n == dw.total - Offset
           m == IF n <= SigLen THEN n ELSE SigLen
           p == n - m
<1>1. /\ pc = "download" /\ n \in Nat /\ n > 0 /\ ~dw.started
      /\ DamagedIn(Offset, n) /\ pc' = pc
      /\ FirstData \in Seq(Values) /\ Len(FirstData) = p
      /\ \A k \in 1 .. p : FirstData[k] = Sent(file, damaged', Offset + SigLen + k - 1)
      /\ flash' = Program(flash, TargetAddr + SigLen, FirstData)
      /\ dw' \in DRecord /\ dw'.started /\ dw'.total = dw.total
      /\ Len(dw'.signature) = m
      /\ \A k \in 1 .. m : dw'.signature[k] = Sent(file, damaged', Offset + k - 1)
      /\ dw'.size = p /\ dw'.remain = dw.remain - p
      /\ UNCHANGED <<ota2Addr, boot, cur, ret, parse, reads, file, step>>
    BY StartResult
<1>2. /\ TargetAddr \in Nat /\ Offset = file.ota[Target] /\ Offset \in Nat
      /\ SigLen \in Nat /\ SigLen > 0 /\ BUF_SIZE \in Nat /\ Target \in OTA_INDEX
      /\ file.len \in Nat /\ SigLen < file.len /\ BUF_SIZE < file.len
      /\ dw.size + dw.remain = file.len - SigLen /\ TargetAddr = BootAddr(Target)
      /\ dw.total \in Nat /\ dw.remain \in Nat /\ dw.size \in Nat
    BY <1>1, CopyingNumbers DEF InFlight
<1>3. dw.size = 0 /\ dw.signature = <<>> /\ dw.total <= Offset + BUF_SIZE
    BY <1>1, <1>2 DEF Copying, Standing
<1>9. dw.remain = file.len - SigLen
    BY <1>2, <1>3
<1>4. /\ m \in Nat /\ p \in Nat /\ m <= SigLen /\ p < dw.remain
      /\ p > 0 => m = SigLen
      /\ dw.total = Offset + m + p
      /\ p + (dw.remain - p) = file.len - SigLen /\ dw.remain - p > 0
    <2>1. /\ dw.total \in Nat /\ Offset \in Nat /\ file.len \in Nat /\ dw.remain \in Int
          /\ SigLen \in Nat /\ BUF_SIZE \in Nat /\ SigLen < file.len /\ BUF_SIZE < file.len
          /\ dw.remain = file.len - SigLen
          /\ dw.total <= Offset + BUF_SIZE /\ dw.total - Offset \in Nat
        BY <1>1, <1>2, <1>3, <1>9
    <2> QED
        BY <2>1, FirstNumbers
<1> HIDE DEF n, m, p
<1>5. /\ InPlace(file, Target, damaged', flash', TargetAddr, 0 + p)
      /\ Blank(file, flash', TargetAddr, 0 + p)
      /\ SignatureBlank(flash', TargetAddr, 0)
      /\ OthersKept(flash, flash', Target)
    <2> DEFINE r == dw.remain
               o == Offset
               z == 0
    <2>1. /\ SigLen + z + r = file.len /\ p <= r /\ r \in Nat /\ o \in Nat
          /\ o = file.ota[Target] /\ z \in Nat /\ ~(z > 0)
        <3>1. /\ dw.remain \in Nat /\ file.len \in Nat /\ SigLen \in Nat
              /\ p \in Nat /\ p < dw.remain
            BY <1>2, <1>4
        <3> QED
            BY <1>2, <1>9, <3>1
    <2>2. /\ InPlace(file, Target, damaged, flash, TargetAddr, z)
          /\ Blank(file, flash, TargetAddr, z)
          /\ SignatureBlank(flash, TargetAddr, 0)
        BY <1>2, <1>3 DEF Copying
    <2>3. \A k \in 1 .. p : FirstData[k] = Sent(file, damaged', o + SigLen + z + k - 1)
        <3>1. o + SigLen + z = o + SigLen
            BY <1>2
        <3> QED
            BY <1>1, <3>1
    <2>4. flash' = Program(flash, TargetAddr + SigLen + z, FirstData)
        <3>1. TargetAddr + SigLen + z = TargetAddr + SigLen
            BY <1>2
        <3> QED
            BY <1>1, <3>1
    <2>5. /\ flash \in [0 .. FlashLen - 1 -> Values] /\ Len(FirstData) = p
          /\ FirstData \in Seq(Values) /\ p \in Nat
          /\ Target \in OTA_INDEX /\ TargetAddr = BootAddr(Target)
        BY <1>1, <1>2, <1>4 DEF Types
    <2> HIDE DEF r, o, z
    <2>6. NextWritten(file, Target, damaged, damaged', TargetAddr, flash, flash', z, r, p, o,
                      FirstData)
        BY <2>1, <2>2, <2>3, <2>4, <2>5 DEF NextWritten
    <2>7. /\ InPlace(file, Target, damaged', flash', TargetAddr, z + p)
          /\ Blank(file, flash', TargetAddr, z + p)
          /\ SignatureBlank(flash', TargetAddr, 0)
          /\ OthersKept(flash, flash', Target)
        BY <2>6, BodyGrows
    <2> QED
        BY <2>7 DEF z
<1>6. 0 + p = p /\ dw'.size = p /\ dw'.remain = dw.remain - p
    BY <1>1, <1>4
<1>7. dw'.size + dw'.remain = file.len - SigLen /\ dw'.remain > 0 /\ dw'.size \in Nat
      /\ dw'.total = Offset + m + p
    BY <1>1, <1>4, <1>6
<1>8. Copying(file, Target, damaged', dw', flash', TargetAddr)
    <2>1. Standing(file, Target, dw')
        BY <1>1, <1>2, <1>6, <1>7 DEF Standing
    <2>2. SignatureArrived(file, Target, damaged', dw'.signature)
        BY <1>1, <1>2 DEF SignatureArrived
    <2>3. dw'.size > 0 => Len(dw'.signature) = SigLen
        BY <1>1, <1>4, <1>6
    <2> QED
        BY <1>5, <1>6, <1>7, <2>1, <2>2, <2>3 DEF Copying
<1> QED
    BY <1>1, <1>5, <1>8 DEF CopyingOn

LEMMA SkipStage ==
    ASSUME Types, file \in Files, NEW n \in 1 .. BUF_SIZE, SkipTo(n),
           Copying(file, Target, damaged, dw, flash, TargetAddr)
    PROVE  CopyingOn
<1>1. /\ pc = "download" /\ ~dw.started /\ dw.total <= Offset
      /\ dw'.total = dw.total + n /\ ~dw'.started /\ dw'.remain = dw.remain
      /\ dw'.size = dw.size /\ dw'.signature = dw.signature
      /\ UNCHANGED <<flash, ota2Addr, boot, cur, pc, ret, parse, reads, file,
                     damaged, step>>
    BY SkipResult
<1>2. /\ Offset = file.ota[Target] /\ Offset \in Nat /\ dw.total \in Nat /\ BUF_SIZE \in Nat
    BY <1>1, CopyingNumbers DEF InFlight
<1>3. dw'.total <= Offset + BUF_SIZE
    <2>1. n \in Nat /\ n <= BUF_SIZE
        BY <1>2
    <2> QED
        BY <1>1, <1>2, <2>1
<1>4. Standing(file, Target, dw')
    BY <1>1, <1>2, <1>3 DEF Copying, Standing
<1>5. Copying(file, Target, damaged', dw', flash', TargetAddr)
    BY <1>1, <1>4 DEF Copying
<1>6. OthersKept(flash, flash', Target) /\ SignatureBlank(flash', TargetAddr, 0)
    BY <1>1 DEF Copying, OthersKept
<1> QED
    BY <1>1, <1>5, <1>6 DEF CopyingOn

\* The bytes that were kept back are as they arrived, whatever is damaged now.
LEMMA ArrivedKept ==
    ASSUME NEW f, NEW t, NEW o \in Nat, o = f.ota[t], NEW x \in Int, NEW n \in Int,
           DamagedIn(x, n), NEW sig, Len(sig) \in Nat, o + Len(sig) <= x,
           SignatureArrived(f, t, damaged, sig)
    PROVE  SignatureArrived(f, t, damaged', sig)
<1> DEFINE g == Len(sig)
<1>1. ASSUME NEW k \in 1 .. g
      PROVE  sig[k] = Sent(f, damaged', f.ota[t] + k - 1)
    <2> DEFINE y == o + k - 1
    <2>1. y \in Nat /\ y < x
        <3> HIDE DEF g
        <3>1. g \in Nat /\ o + g <= x
            BY DEF g
        <3> QED
            BY SMTT(30), <3>1
    <2>2. sig[k] = Sent(f, damaged, y)
        BY DEF SignatureArrived
    <2> HIDE DEF y
    <2>3. Sent(f, damaged', y) = Sent(f, damaged, y)
        BY <2>1, SentKept
    <2> QED
        BY <2>2, <2>3 DEF y
<1> QED
    BY <1>1 DEF SignatureArrived

LEMMA MoreStage ==
    ASSUME Types, file \in Files, NEW n \in 1 .. BUF_SIZE, MoreSignature(n),
           Copying(file, Target, damaged, dw, flash, TargetAddr)
    PROVE  CopyingOn
<1> DEFINE g == Len(dw.signature)
           o == Offset
<1>1. /\ pc = "download" /\ dw.started /\ g + n <= SigLen /\ n \in Nat
      /\ DamagedIn(dw.total, n)
      /\ dw'.started /\ dw'.total = dw.total + n
      /\ dw'.remain = dw.remain
      /\ dw'.size = dw.size /\ Len(dw'.signature) = g + n
      /\ \A k \in 1 .. g : dw'.signature[k] = dw.signature[k]
      /\ \A k \in 1 .. n : dw'.signature[g + k] = Sent(file, damaged', dw.total + k - 1)
      /\ UNCHANGED <<flash, ota2Addr, boot, cur, pc, ret, parse, reads, file, step>>
    BY MoreResult
<1>2. /\ o = file.ota[Target] /\ o \in Nat /\ dw.total \in Nat /\ g \in Nat
      /\ SigLen \in Nat /\ dw.size \in Nat
    BY <1>1, CopyingNumbers DEF InFlight
<1>3. dw.size = 0 /\ dw.total = o + g
    <2>1. g < SigLen
        BY <1>1, <1>2
    <2>2. g # SigLen
        BY <1>2, <2>1
    <2>3. ~(dw.size > 0) /\ dw.total = o + g + dw.size
        BY <1>1, <1>2, <2>2 DEF Copying, Standing
    <2> QED
        BY <1>2, <2>3
<1>4. SignatureArrived(file, Target, damaged', dw.signature)
    <2>1. o + Len(dw.signature) <= dw.total /\ Len(dw.signature) \in Nat
          /\ dw.total \in Int /\ n \in Int /\ o \in Nat /\ o = file.ota[Target]
        BY <1>1, <1>2, <1>3
    <2>2. SignatureArrived(file, Target, damaged, dw.signature) /\ DamagedIn(dw.total, n)
        BY <1>1 DEF Copying
    <2> HIDE DEF o, g
    <2> QED
        BY <2>1, <2>2, ArrivedKept
<1> HIDE DEF g, o
<1>5. ASSUME NEW k \in 1 .. g + n
      PROVE  dw'.signature[k] = Sent(file, damaged', o + k - 1)
    <2>1. CASE k \in 1 .. g
        BY <1>1, <1>2, <1>4, <2>1 DEF SignatureArrived, g
    <2>2. CASE k \notin 1 .. g
        <3> DEFINE j == k - g
        <3>1. j \in 1 .. n /\ k = g + j /\ dw.total + j - 1 = o + k - 1
            <4>1. g \in Nat /\ n \in Nat /\ o \in Nat /\ dw.total = o + g
                BY <1>1, <1>2, <1>3
            <4> QED
                BY <2>2, <4>1
        <3> HIDE DEF j
        <3>2. dw'.signature[g + j] = Sent(file, damaged', dw.total + j - 1)
            BY <1>1, <3>1
        <3> QED
            BY <3>1, <3>2
    <2> QED
        BY <2>1, <2>2
<1>6. SignatureArrived(file, Target, damaged', dw'.signature)
    BY <1>1, <1>2, <1>5 DEF SignatureArrived
<1>7. Standing(file, Target, dw')
    <2>1. dw'.total = o + (g + n) + dw'.size
        BY <1>1, <1>2, <1>3
    <2> QED
        BY <1>1, <1>2, <2>1 DEF Standing
<1>8. /\ InPlace(file, Target, damaged', flash', TargetAddr, dw'.size)
      /\ Blank(file, flash', TargetAddr, dw'.size)
      /\ SignatureBlank(flash', TargetAddr, 0)
    <2>1. SigLen .. SigLen + 0 - 1 = {}
        BY <1>2
    <2> QED
        BY <1>1, <1>3, <2>1 DEF Copying, InPlace
<1>9. ~(dw'.size > 0)
    BY <1>1, <1>3
<1>10. Copying(file, Target, damaged', dw', flash', TargetAddr)
    BY <1>1, <1>6, <1>7, <1>8, <1>9 DEF Copying
<1>11. OthersKept(flash, flash', Target)
    BY <1>1 DEF OthersKept
<1> QED
    BY <1>1, <1>8, <1>10, <1>11 DEF CopyingOn

LEMMA CopyStage ==
    ASSUME Types, file \in Files, NEW n \in 1 .. BUF_SIZE, Copy(n),
           Copying(file, Target, damaged, dw, flash, TargetAddr)
    PROVE  CopyingOn
<1> DEFINE kept == Kept(n)
           o == Offset
           z == dw.size
           r == dw.remain
<1>1. /\ pc = "download" /\ dw.started /\ Len(dw.signature) = SigLen /\ n \in Nat
      /\ kept = IF n <= r THEN n ELSE r
      /\ DamagedIn(dw.total, kept)
      /\ KeptBytes(n) \in Seq(Values)
      /\ kept >= 0 => /\ Len(KeptBytes(n)) = kept
                      /\ \A k \in 1 .. kept :
                            KeptBytes(n)[k] = Sent(file, damaged', dw.total + k - 1)
      /\ flash' = Program(flash, TargetAddr + SigLen + z, KeptBytes(n))
      /\ dw' \in DRecord /\ dw'.started /\ dw'.total = dw.total + n
      /\ dw'.signature = dw.signature
      /\ dw'.size = z + kept /\ dw'.remain = r - kept
      /\ pc' = IF r <= n THEN "verify" ELSE "download"
      /\ UNCHANGED <<ota2Addr, boot, cur, ret, parse, reads, file, step>>
    BY CopyResult
<1>2. /\ Target \in OTA_INDEX /\ TargetAddr = BootAddr(Target) /\ TargetAddr \in Nat
      /\ o = file.ota[Target] /\ o \in Nat /\ SigLen \in Nat
      /\ file.len \in Nat /\ SigLen < file.len
      /\ z \in Nat /\ r \in Nat /\ r > 0 /\ z + r = file.len - SigLen /\ dw.total \in Nat
    BY <1>1, CopyingNumbers DEF InFlight
<1>3. dw.total = o + SigLen + z
    BY <1>1, <1>2 DEF Copying, Standing
<1> HIDE DEF o, z, r, kept
<1>4. kept \in Nat /\ kept <= r /\ kept >= 0 /\ kept <= n /\ (r <= n => kept = r)
      /\ (~(r <= n) => kept = n)
    BY <1>1, <1>2
<1>5. /\ InPlace(file, Target, damaged', flash', TargetAddr, z + kept)
      /\ Blank(file, flash', TargetAddr, z + kept)
      /\ SignatureBlank(flash', TargetAddr, 0)
      /\ OthersKept(flash, flash', Target)
    <2> DEFINE b == KeptBytes(n)
    <2>1. b \in Seq(Values) /\ Len(b) = kept
          /\ \A k \in 1 .. kept : b[k] = Sent(file, damaged', o + SigLen + z + k - 1)
        BY <1>1, <1>3, <1>4
    <2>2. SigLen + z + r = file.len
        <3> DEFINE len == file.len
        <3>1. len \in Nat /\ SigLen \in Nat /\ z \in Nat /\ r \in Nat /\ z + r = len - SigLen
            BY <1>2
        <3> HIDE DEF len
        <3>2. SigLen + z + r = len
            BY <3>1
        <3> QED
            BY <3>2 DEF len
    <2>3. \A x \in Nat : x < o + SigLen + z => Sent(file, damaged', x) = Sent(file, damaged, x)
        <3> TAKE x \in Nat
        <3> HAVE x < o + SigLen + z
        <3>1. x < dw.total /\ dw.total \in Int /\ kept \in Int
            BY <1>2, <1>3, <1>4
        <3> QED
            BY <1>1, <3>1, SentKept
    <2>4. /\ InPlace(file, Target, damaged, flash, TargetAddr, z)
          /\ Blank(file, flash, TargetAddr, z) /\ SignatureBlank(flash, TargetAddr, 0)
          /\ flash \in [0 .. FlashLen - 1 -> Values]
        BY DEF Copying, Types, z
    <2> HIDE DEF b
    <2>5. flash' = Program(flash, TargetAddr + SigLen + z, b)
        BY <1>1 DEF b
    <2>6. NextWritten(file, Target, damaged, damaged', TargetAddr, flash, flash', z, r, kept,
                      o, b)
        BY <1>2, <1>4, <2>1, <2>2, <2>3, <2>4, <2>5 DEF NextWritten
    <2> QED
        BY <2>6, BodyGrows
<1>6. SignatureArrived(file, Target, damaged', dw'.signature)
    <2>1. SignatureArrived(file, Target, damaged, dw.signature)
        BY DEF Copying
    <2>2. Len(dw.signature) \in Nat /\ o + Len(dw.signature) <= dw.total
          /\ dw.total \in Int /\ kept \in Int
        <3>1. Len(dw.signature) = SigLen
            BY <1>1
        <3>2. o \in Nat /\ SigLen \in Nat /\ z \in Nat
            BY <1>2
        <3>3. o + SigLen <= o + SigLen + z /\ o + SigLen + z \in Int
            BY <3>2
        <3>4. kept \in Int
            BY <1>4
        <3> QED
            BY <1>3, <3>1, <3>2, <3>3, <3>4
    <2> QED
        BY <1>1, <1>2, <2>1, <2>2, ArrivedKept
<1>7. CASE r <= n
    <2>1. dw'.size = file.len - SigLen
        BY <1>1, <1>2, <1>4, <1>7
    <2>2. Copied(file, Target, damaged', dw', flash', TargetAddr)
        BY <1>1, <1>5, <1>6, <2>1 DEF Copied
    <2> QED
        BY <1>1, <1>5, <1>7, <2>2 DEF CopyingOn
<1>8. CASE ~(r <= n)
    <2>1. dw'.size + dw'.remain = file.len - SigLen /\ dw'.remain > 0 /\ dw'.size \in Nat
          /\ dw'.total = o + SigLen + dw'.size
        <3>1. z + kept + (r - kept) = z + r /\ r - kept > 0 /\ z + kept \in Nat
              /\ o + SigLen + z + n = o + SigLen + (z + kept)
            <4>1. z \in Nat /\ r \in Nat /\ n \in Nat /\ kept = n /\ n < r /\ o \in Nat
                  /\ SigLen \in Nat
                BY <1>1, <1>2, <1>4, <1>8
            <4> QED
                BY <4>1
        <3> QED
            BY <1>1, <1>2, <1>3, <3>1
    <2>2. Standing(file, Target, dw')
        BY <1>1, <1>2, <2>1 DEF Standing
    <2>3. Copying(file, Target, damaged', dw', flash', TargetAddr)
        BY <1>1, <1>5, <1>6, <2>1, <2>2 DEF Copying
    <2> QED
        BY <1>1, <1>5, <1>8, <2>3 DEF CopyingOn
<1> QED
    BY <1>7, <1>8

LEMMA DownloadStage ==
    ASSUME Types, file \in Files, Copying(file, Target, damaged, dw, flash, TargetAddr),
           StartImage \/ \E n \in 1 .. BUF_SIZE : SkipTo(n) \/ MoreSignature(n) \/ Copy(n)
    PROVE  CopyingOn
  BY StartStage, SkipStage, MoreStage, CopyStage

-----------------------------------------------------------------------------
(* The checksums.                                                          *)

\* The bytes of f from offset o on as they arrive.
SentFrom(f, m, o, n) == [k \in o .. o + n - 1 |-> Sent(f, m, k)]

\* A damaged byte changes the sum of what is sent, and nothing else does.
LEMMA SentSum ==
    ASSUME NEW f \in Files, NEW m \in Int, NEW o \in Nat, NEW n \in Nat,
           o + n <= Total(f)
    PROVE  /\ m - o \notin 0 .. n - 1 => SumOf(SentFrom(f, m, o, n), o, n) = FileSum(f, o, n)
           /\ m - o \in 0 .. n - 1 => SumOf(SentFrom(f, m, o, n), o, n) # FileSum(f, o, n)
<1> DEFINE g == SentFrom(f, m, o, n)
           h == [k \in o .. o + n - 1 |-> Served(f, k)]
<1>1. ASSUME NEW k \in 0 .. n - 1
      PROVE  /\ g[o + k] = Sent(f, m, o + k) /\ h[o + k] = Served(f, o + k)
             /\ g[o + k] \in Int /\ h[o + k] \in Int
             /\ o + k = m => g[o + k] = Corrupted /\ h[o + k] # Corrupted
             /\ o + k # m => g[o + k] = h[o + k]
    <2>1. o + k \in o .. o + n - 1 /\ o + k \in Int
        OBVIOUS
    <2>2. g[o + k] = Sent(f, m, o + k) /\ h[o + k] = Served(f, o + k)
        BY <2>1 DEF SentFrom
    <2>4. o + k \in Nat /\ o + k \in 0 .. Total(f) - 1
        BY TotalBound
    <2>3. Served(f, o + k) \in Int /\ Corrupted \in Int
        BY <2>4, ServedByte, TotalBound, ImageAssumption
    <2>5. Served(f, o + k) # Corrupted
        BY <2>4, DamageAssumption
    <2> HIDE DEF g, h
    <2> QED
        BY <2>2, <2>3, <2>5 DEF Sent
<1>2. FileSum(f, o, n) = SumOf(h, o, n)
    BY DEF FileSum
<1> HIDE DEF g, h
<1>3. ASSUME m - o \notin 0 .. n - 1
      PROVE  SumOf(g, o, n) = SumOf(h, o, n)
    <2>1. \A k \in 0 .. n - 1 : g[o + k] = h[o + k]
        <3> TAKE k \in 0 .. n - 1
        <3>1. o + k # m
            BY <1>3
        <3> QED
            BY <1>1, <3>1
    <2>2. SumsAlike(g, o, h, o, n)
        BY <2>1, SumSame
    <2> QED
        BY <2>2 DEF SumsAlike
<1>5. o \in Int
    OBVIOUS
<1>4. ASSUME m - o \in 0 .. n - 1
      PROVE  SumOf(g, o, n) # SumOf(h, o, n)
    <2> DEFINE j == m - o
    <2>1. j \in 0 .. n - 1 /\ o + j = m
        BY <1>4
    <2> HIDE DEF j
    <2>2. g[o + j] # h[o + j]
        BY <1>1, <2>1
    <2>3. \A k \in 0 .. n - 1 : k # j => g[o + k] = h[o + k]
        <3> TAKE k \in 0 .. n - 1
        <3> HAVE k # j
        <3>1. o + k # m
            BY <2>1
        <3> QED
            BY <1>1, <3>1
    <2>4. \A k \in 0 .. n - 1 : g[o + k] \in Int /\ h[o + k] \in Int
        BY <1>1
    <2> QED
        BY <1>5, <2>1, <2>2, <2>3, <2>4, SumDiffers
<1> QED
    BY <1>2, <1>3, <1>4 DEF g

\* The body in the slot and the signature kept back add up to what arrived.
LEMMA OtaSum ==
    ASSUME Types, file \in Files,
           Copied(file, Target, damaged, dw, flash, TargetAddr), Len(dw.signature) = SigLen
    PROVE  SumOf(flash, TargetAddr + SigLen, dw.size)
              + SumOf(dw.signature, 1, Len(dw.signature))
            = SumOf(SentFrom(file, damaged, Offset, file.len), Offset, file.len)
<1> DEFINE o == Offset
           at == TargetAddr
           len == file.len
           g == SentFrom(file, damaged, o, len)
           body == len - SigLen
<1>1. /\ o \in Nat /\ SigLen \in Nat /\ body \in Nat /\ len = SigLen + body
      /\ damaged \in Int /\ o + SigLen \in Int /\ o = file.ota[Target] /\ len \in Nat
      /\ at \in Nat /\ at + SigLen \in Int
      /\ Total(file) \in Nat /\ o + len <= Total(file)
    <2>1. Target \in OTA_INDEX /\ at \in Nat /\ damaged \in Int
        BY TargetIs, SlotAddr DEF Types
    <2>2. /\ file.ota[Target] \in Nat /\ file.len \in Nat /\ SigLen < len
          /\ Total(file) \in Nat /\ file.ota[Target] + file.len <= Total(file)
        BY <2>1, FileFacts, TotalBound DEF OTA_INDEX
    <2> QED
        BY SMTT(30), <2>1, <2>2, Lengths DEF Offset
<1> HIDE DEF len, o, at
<1>2. \A k \in 0 .. len - 1 : g[o + k] = Sent(file, damaged, o + k)
    <2> TAKE k \in 0 .. len - 1
    <2>1. o + k \in o .. o + len - 1
        BY <1>1
    <2> QED
        BY <2>1 DEF SentFrom
<1>3. \A k \in 0 .. SigLen + body - 1 : g[o + k] \in Int
    <2> TAKE k \in 0 .. SigLen + body - 1
    <2> HIDE DEF g, body
    <2>2. /\ k \in 0 .. len - 1 /\ o + k \in Int
          /\ o + k \in Nat /\ o + k < Total(file)
        BY <1>1
    <2>1. o + k \in Int /\ g[o + k] = Sent(file, damaged, o + k)
        BY <1>2, <2>2
    <2> QED
        BY <2>1, <2>2, ServedByte, ImageAssumption DEF Sent
<1>4. dw.size = body /\ Len(dw.signature) = SigLen
      /\ InPlace(file, Target, damaged, flash, at, body)
    BY DEF Copied, at, len, body
<1>9. /\ 1 \in Int /\ SigLen \in Int /\ o \in Int /\ o + SigLen \in Int
      /\ SigLen \in Nat /\ body \in Nat /\ at + SigLen \in Int
    BY <1>1
<1> HIDE DEF g, body
<1>5. SumOf(dw.signature, 1, SigLen) = SumOf(g, o, SigLen)
    <2>1. \A k \in 0 .. SigLen - 1 : dw.signature[1 + k] = g[o + k]
        <3> TAKE k \in 0 .. SigLen - 1
        <3>1. 1 + k \in 1 .. SigLen /\ o + (1 + k) - 1 = o + k /\ k \in 0 .. len - 1
            <4>1. 1 + k \in 1 .. SigLen
                BY <1>9
            <4>2. o + (1 + k) - 1 = o + k
                BY <1>9
            <4>3. SigLen \in Nat /\ body \in Nat /\ len = SigLen + body
                BY <1>1
            <4>4. k \in 0 .. len - 1
                BY <4>3
            <4> QED
                BY <4>1, <4>2, <4>4
        <3>2. dw.signature[1 + k] = Sent(file, damaged, o + (1 + k) - 1)
            BY <1>1, <1>4, <3>1 DEF Copied, SignatureArrived
        <3> QED
            BY <1>2, <3>1, <3>2
    <2>2. SumsAlike(dw.signature, 1, g, o, SigLen)
        BY <1>9, <2>1, SumSame
    <2> QED
        BY <2>2 DEF SumsAlike
<1>6. SumOf(flash, at + SigLen, body) = SumOf(g, o + SigLen, body)
    <2>1. \A k \in 0 .. body - 1 : flash[(at + SigLen) + k] = g[(o + SigLen) + k]
        <3> TAKE k \in 0 .. body - 1
        <3>1. /\ SigLen + k \in SigLen .. SigLen + body - 1
              /\ SigLen + k \in 0 .. len - 1
              /\ o + (SigLen + k) = (o + SigLen) + k
              /\ at + (SigLen + k) = (at + SigLen) + k
            BY <1>1
        <3>2. flash[at + (SigLen + k)] = Sent(file, damaged, o + (SigLen + k))
            BY <1>1, <1>4, <3>1 DEF InPlace
        <3> QED
            BY <1>2, <3>1, <3>2
    <2>2. SumsAlike(flash, at + SigLen, g, o + SigLen, body)
        BY <1>9, <2>1, SumSame
    <2> QED
        BY <2>2 DEF SumsAlike
<1>7. SumOf(g, o, SigLen + body) = SumOf(g, o, SigLen) + SumOf(g, o + SigLen, body)
    <2>1. Adds(g, o, SigLen, body)
        BY <1>3, <1>9, SumSplit
    <2> QED
        BY <2>1 DEF Adds
<1>8. SumOf(g, o, SigLen) \in Int /\ SumOf(g, o + SigLen, body) \in Int
    <2>1. \A k \in 0 .. SigLen - 1 : g[o + k] \in Int
        BY <1>1, <1>3
    <2>2. \A k \in 0 .. body - 1 : g[(o + SigLen) + k] \in Int
        <3> TAKE k \in 0 .. body - 1
        <3>1. SigLen + k \in 0 .. SigLen + body - 1 /\ o + (SigLen + k) = (o + SigLen) + k
            BY <1>1
        <3> QED
            BY <1>3, <3>1
    <2>3. SumOf(g, o, SigLen) \in Int
        BY <1>1, <1>9, <2>1, SumIsInt
    <2>4. SumOf(g, o + SigLen, body) \in Int
        BY <1>1, <2>2, SumIsInt
    <2> QED
        BY <2>3, <2>4
<1> DEFINE x == SumOf(g, o, SigLen)
           y == SumOf(g, o + SigLen, body)
<1>10. x \in Int /\ y \in Int /\ SumOf(g, o, len) = x + y
    BY <1>1, <1>7, <1>8
<1>11. /\ SumOf(flash, at + SigLen, dw.size) = y
       /\ SumOf(dw.signature, 1, Len(dw.signature)) = x
    BY <1>4, <1>5, <1>6
<1> HIDE DEF x, y
<1>12. y + x = SumOf(g, o, len)
    BY <1>10
<1> QED
    BY <1>11, <1>12 DEF g, o, at, len

\* A passed check vouches for the image, though its sum is but a sum.
LEMMA ChecksumTells ==
    ASSUME Types, file \in Files,
           Copied(file, Target, damaged, dw, flash, TargetAddr), Len(dw.signature) = SigLen
    PROVE  LET sum == SumOf(flash, TargetAddr + SigLen, dw.size)
                         + SumOf(dw.signature, 1, Len(dw.signature))
           IN  /\ Undamaged(file, Target, damaged) => sum = FileSum(file, Offset, file.len)
               /\ ~Undamaged(file, Target, damaged) => sum # FileSum(file, Offset, file.len)
<1>1. /\ damaged \in Int /\ Offset \in Nat /\ file.len \in Nat
      /\ Offset + file.len <= Total(file) /\ Offset = file.ota[Target]
    <2>1. (Target = 1 \/ Target = 2) /\ damaged \in Int
        BY TargetIs DEF Types, OTA_INDEX
    <2>2. Offset = file.ota[Target]
        BY DEF Offset
    <2> QED
        BY <2>1, <2>2, TotalBound, FileFacts
<1> DEFINE sum == SumOf(flash, TargetAddr + SigLen, dw.size)
                     + SumOf(dw.signature, 1, Len(dw.signature))
<1>2. sum = SumOf(SentFrom(file, damaged, Offset, file.len), Offset, file.len)
    BY OtaSum
<1> HIDE DEF sum
<1>3. /\ damaged - Offset \notin 0 .. file.len - 1 => sum = FileSum(file, Offset, file.len)
      /\ damaged - Offset \in 0 .. file.len - 1 => sum # FileSum(file, Offset, file.len)
    BY <1>1, <1>2, SentSum
<1>4. Undamaged(file, Target, damaged) <=> damaged - Offset \notin 0 .. file.len - 1
    BY <1>1 DEF Undamaged
<1> QED
    BY <1>3, <1>4 DEF sum

\* The RDP image in flash is the one of the file that was installed with it, and no
\* file without one disagrees with it.
LEMMA RdpAgrees ==
    ASSUME file \in Files, file.rdpLen = 0 \/ rdp = file
    PROVE  SumOf([k \in 0 .. file.rdpLen - 1 |-> RdpCell(k)], 0, file.rdpLen)
            = FileSum(file, file.rdp, file.rdpLen)
<1> DEFINE n == file.rdpLen
           o == file.rdp
           g == [k \in 0 .. n - 1 |-> RdpCell(k)]
           h == [k \in o .. o + n - 1 |-> Served(file, k)]
<1>1. n \in Nat /\ o \in Nat /\ o \in Int /\ 0 \in Int
    BY FileFacts
<1>2. FileSum(file, o, n) = SumOf(h, o, n)
    BY DEF FileSum
<1>3. CASE n = 0
    <2> HIDE DEF g, h
    <2>1. SumOf(g, 0, 0) = 0 /\ SumOf(h, o, 0) = 0
        BY <1>1, SumStep
    <2> QED
        BY <1>2, <1>3, <2>1 DEF g
<1>4. CASE rdp = file
    <2>1. \A k \in 0 .. n - 1 : g[0 + k] = h[o + k]
        <3> TAKE k \in 0 .. n - 1
        <3>1. 0 + k = k /\ k < n /\ o + k \in o .. o + n - 1
            BY <1>1
        <3>2. RdpCell(k) = Served(file, o + k)
            BY <1>4, <3>1 DEF RdpCell
        <3> QED
            BY <3>1, <3>2
    <2> HIDE DEF g, h, n, o
    <2>2. SumsAlike(g, 0, h, o, n)
        BY <1>1, <2>1, SumSame
    <2> QED
        BY <1>2, <2>2 DEF SumsAlike, g, n, o
<1> QED
    BY <1>3, <1>4

-----------------------------------------------------------------------------
(* The stages of an update.                                                *)

\* The call ends otherwise than well, or the power is lost.
LEMMA IdleStage ==
    ASSUME pc' = "idle", ret' # "ok", file' = NoFile, step' = 0
    PROVE  Context' /\ Stages'
  BY DEF Context, Stages, InFlight

\* Nothing in the state of an update refers to the index to boot.
LEMMA StageKept ==
    ASSUME Context, Stages,
           UNCHANGED <<flash, ota2Addr, rdp, cur, pc, ret, file, damaged, step, dw>>
    PROVE  Context' /\ Stages'
<1>1. /\ Target' = Target /\ TargetAddr' = TargetAddr
      /\ (VerifyOtaChecksum' <=> VerifyOtaChecksum)
    <2>1. Target' = Target
        BY DEF Target
    <2>2. TargetAddr' = TargetAddr /\ Offset' = Offset
        BY <2>1 DEF TargetAddr, Offset
    <2>3. \A k : RdpCell(k)' = RdpCell(k)
        BY DEF RdpCell
    <2> QED
        BY <2>2, <2>1, <2>3 DEF VerifyOtaChecksum
<1>2. Context'
    BY <1>1 DEF Context
<1>3. Stages'
    BY <1>1 DEF Stages
<1> QED
    BY <1>2, <1>3

\* The request and its response.  OTA2 is not touched before its address is set.
LEMMA RequestStage ==
    ASSUME Inv,
           \/ HttpUpdateOta \/ Connect \/ EraseAddr \/ WriteAddr \/ SendRequest
           \/ Redirect \/ \E p \in 1 .. 3 : ReadHeader(p)
    PROVE  Context' /\ Stages'
<1>1. /\ Context /\ UNCHANGED cur /\ Target' = Target
      /\ pc \in {"idle", "connect", "address", "request", "response"}
    BY DEF Inv, Target, HttpUpdateOta, Connect, EraseAddr, WriteAddr, SendRequest,
           Redirect, ReadHeader
<1>2. pc' \in {"connect", "address", "request", "response"} /\ step' = 0 /\ file' = NoFile
      /\ ret' # "ok"
    BY <1>1 DEF Context, InFlight, HttpUpdateOta, Connect, EraseAddr, WriteAddr,
           SendRequest, Redirect, ReadHeader, served
<1>3. pc' = "address" => Target' = 2
    BY <1>1 DEF Context, HttpUpdateOta, Connect, EraseAddr, WriteAddr,
           SendRequest, Redirect, ReadHeader
<1>4. Target' = 2 /\ pc' \in {"request", "response"} => ota2Addr' = OTA2_ADDR
    BY <1>1 DEF Context, HttpUpdateOta, Connect, EraseAddr, WriteAddr, stored,
           SendRequest, Redirect, ReadHeader
<1> QED
    BY <1>2, <1>3, <1>4 DEF Context, Stages, InFlight

LEMMA ReadBodyStage ==
    ASSUME Inv, NEW f \in Files, NEW first \in 0 .. BUF_SIZE, ReadBody(f, first)
    PROVE  Context' /\ Stages'
<1>1. /\ pc = "response" /\ pc' = "fileHeader" /\ file' = f
      /\ dw' = [NoDownload EXCEPT !.total = first]
      /\ UNCHANGED <<flash, ota2Addr, cur, ret, step>>
    BY DEF ReadBody, stored
<1>2. /\ dw'.total = first /\ dw'.size = 0 /\ ~dw'.started /\ dw'.signature = <<>>
    BY <1>1 DEF NoDownload
<1>3. Target' = Target
    BY <1>1 DEF Target
<1>4. first <= BUF_SIZE
    BY Numbers
<1> QED
    BY <1>1, <1>2, <1>3, <1>4 DEF Inv, Context, Stages, InFlight

\* Unless its header is cut, the file is known as it is on the server.
LEMMA TakeHeaderStage ==
    ASSUME Inv, ~CutHeaders, TakeHeader
    PROVE  Context' /\ Stages'
<1>1. /\ pc = "fileHeader" /\ pc' = "erase" /\ file' = file
      /\ dw'.signature = dw.signature /\ dw'.size = dw.size /\ dw'.started = dw.started
      /\ dw'.remain = file.len - SigLen
      /\ dw'.total = dw.total \/ dw'.total = file.hdr
    BY HeaderTaken DEF Inv
<1>2. /\ UNCHANGED <<flash, ota2Addr, cur, ret, step>>
    BY DEF TakeHeader, stored
<1>3. /\ file \in Files /\ Target \in OTA_INDEX /\ Target' = Target
      /\ TargetAddr' = TargetAddr /\ step = 0
      /\ dw.total <= BUF_SIZE /\ dw.size = 0 /\ ~dw.started /\ dw.signature = <<>>
      /\ dw.total \in Nat
    BY <1>1, <1>2, TargetIs DEF Inv, Types, Context, Stages, InFlight, Target, TargetAddr,
       DRecord
<1>4. /\ file.ota[Target] \in Nat /\ file.hdr <= file.ota[Target] /\ file.hdr \in Nat
      /\ file.len \in Nat /\ SigLen < file.len /\ SigLen \in Nat /\ BUF_SIZE \in Nat
    BY <1>3, FileFacts, HttpAssumption, Lengths, Numbers
<1>5. dw'.total <= file.ota[Target] + BUF_SIZE
    BY <1>1, <1>3, <1>4
<1>6. Standing(file, Target, dw')
    BY <1>1, <1>3, <1>5 DEF Standing
<1>7. step < Sectors(file.len)
    <2> DEFINE len == file.len
    <2>1. len \in Nat /\ len > 0 /\ SectorLen \in Nat /\ SectorLen > 0
        BY <1>4, Lengths
    <2> HIDE DEF len
    <2>2. (len - 1) \div SectorLen \in Nat
        BY <2>1, Division
    <2>3. 0 < Sectors(len)
        BY <2>1, <2>2 DEF Sectors
    <2> QED
        BY <1>3, <2>3 DEF len
<1>8. BlankBelow(file, flash, TargetAddr, 0)
    <2> SUFFICES ASSUME NEW k \in 0 .. file.len - 1, k \div SectorLen < 0
                 PROVE  FALSE
        BY DEF BlankBelow
    <2>1. k \div SectorLen \in Nat
        BY <1>4, Lengths, Division
    <2> QED
        BY <2>1
<1> QED
    BY <1>1, <1>2, <1>3, <1>6, <1>7, <1>8 DEF Inv, Context, Stages, InFlight

\* Each sector that is erased is one of the slot that is not running.
LEMMA EraseStage ==
    ASSUME Inv, EraseSector
    PROVE  /\ Context' /\ Stages'
           /\ OthersKept(flash, flash', Target) /\ SignatureBlank(flash', TargetAddr, 0)
<1> DEFINE at == TargetAddr
           len == file.len
           m == (len - 1) \div SectorLen
<1>1. /\ pc = "erase" /\ file \in Files /\ Target \in OTA_INDEX /\ at = BootAddr(Target)
      /\ flash \in [0 .. FlashLen - 1 -> Values] /\ step \in Nat
      /\ step < Sectors(len) /\ BlankBelow(file, flash, at, step)
      /\ dw.remain = len - SigLen /\ ~dw.started /\ Standing(file, Target, dw)
    BY TargetIs DEF Inv, Types, Context, Stages, InFlight, EraseSector
<1>2. /\ flash' = EraseSectorAt(flash, (at \div SectorLen + step) % FlashSectors)
      /\ step' = step + 1 /\ pc' = IF step' = Sectors(len) THEN "download" ELSE "erase"
      /\ UNCHANGED <<ota2Addr, cur, ret, file, damaged, dw>>
    BY DEF EraseSector, served
<1>3. /\ len \in Nat /\ SigLen < len /\ len <= SlotLen /\ SigLen \in Nat /\ SlotLen \in Nat
      /\ SectorLen \in Nat /\ SectorLen > 0 /\ SigLen <= SectorLen /\ SigLen > 0
    BY <1>1, FileFacts, Lengths
<1> HIDE DEF len, at
<1>4. len - 1 \in Nat /\ m \in Nat /\ len \in 1 .. SlotLen /\ Sectors(len) = m + 1
    <2>1. len - 1 \in Nat /\ len # 0
        BY <1>3
    <2> QED
        BY <1>3, <2>1, Division DEF Sectors
<1> HIDE DEF m
<1>5. step <= m
    BY <1>1, <1>4
<1>6. /\ \A j \in 0 .. SlotLen - 1 : flash'[at + j] =
             IF j \div SectorLen = step THEN Erased ELSE flash[at + j]
      /\ OthersKept(flash, flash', Target)
    <2> DEFINE fl2 == EraseSectorAt(flash, SectorOf(Target, step))
    <2>1. step <= (len - 1) \div SectorLen
        BY <1>5 DEF m
    <2>2. /\ \A j \in 0 .. SlotLen - 1 : fl2[BootAddr(Target) + j] =
                 IF j \div SectorLen = step THEN Erased ELSE flash[BootAddr(Target) + j]
          /\ OthersKept(flash, fl2, Target)
        <3> DEFINE t == Target
        <3>1. /\ flash \in [0 .. FlashLen - 1 -> Values] /\ t \in OTA_INDEX
              /\ len \in 1 .. SlotLen /\ step \in Nat /\ step <= (len - 1) \div SectorLen
            BY <1>1, <1>4, <2>1
        <3> HIDE DEF t
        <3>2. LET fl3 == EraseSectorAt(flash, SectorOf(t, step))
              IN  /\ \A j \in 0 .. SlotLen - 1 : fl3[BootAddr(t) + j] =
                        IF j \div SectorLen = step THEN Erased ELSE flash[BootAddr(t) + j]
                  /\ OthersKept(flash, fl3, t)
            BY ZenonT(30), <3>1, EraseSlot
        <3> QED
            BY <3>2 DEF t
    <2>3. flash' = fl2
        BY <1>1, <1>2 DEF SectorOf
    <2> HIDE DEF fl2
    <2> QED
        BY <1>1, <2>2, <2>3
<1>7. BlankBelow(file, flash', at, step + 1)
    <2> SUFFICES ASSUME NEW k \in 0 .. len - 1, k \div SectorLen < step + 1
                 PROVE  flash'[at + k] = Erased
        BY DEF BlankBelow, len
    <2>1. k \in Nat /\ k \in 0 .. SlotLen - 1
        BY <1>3
    <2>2. k \div SectorLen \in Nat
        BY <1>3, <2>1, Division
    <2>3. CASE k \div SectorLen = step
        BY <1>6, <2>1, <2>3
    <2>4. CASE k \div SectorLen # step
        <3>1. k \div SectorLen < step
            BY <1>1, <2>2, <2>4
        <3>2. flash[at + k] = Erased
            BY <1>1, <3>1 DEF BlankBelow, len
        <3> QED
            BY <1>6, <2>1, <2>4, <3>2
    <2> QED
        BY <2>3, <2>4
<1>8. SignatureBlank(flash', at, 0)
    <2> SUFFICES ASSUME NEW k \in 0 .. SigLen - 1
                 PROVE  flash'[at + k] = Erased
        BY DEF SignatureBlank
    <2>1. k \in 0 .. len - 1 /\ k < SectorLen /\ k \in Nat
        BY <1>3
    <2>2. k \div SectorLen = 0
        BY <1>3, <2>1
    <2> QED
        BY <1>1, <1>7, <2>1, <2>2 DEF BlankBelow, len
<1>9. Target' = Target /\ TargetAddr' = at
    BY <1>2 DEF Target, TargetAddr, at
<1>10. Context'
    BY <1>1, <1>2, <1>9 DEF Inv, Context, InFlight
<1>11. CASE step' = Sectors(len)
    <2>1. \A k \in 0 .. len - 1 : flash'[at + k] = Erased
        <3> TAKE k \in 0 .. len - 1
        <3>1. k \in Nat /\ k <= len - 1
            BY <1>3
        <3>2. k \div SectorLen \in Nat /\ k \div SectorLen <= m
            BY <1>3, <1>4, <3>1, SectorGrows DEF m
        <3>3. k \div SectorLen < step + 1
            BY <1>1, <1>2, <1>4, <1>11, <3>2
        <3> QED
            BY <1>7, <3>3 DEF BlankBelow, len
    <2>2. Blank(file, flash', at, 0)
        BY <1>3, <2>1 DEF Blank, len
    <2>3. dw.size = 0 /\ dw.signature = <<>> /\ Len(dw.signature) = 0
        BY <1>1, EmptySeq DEF Standing
    <2>4. InPlace(file, Target, damaged', flash', at, 0)
          /\ SignatureArrived(file, Target, damaged', dw.signature)
        BY <1>3, <2>3 DEF InPlace, SignatureArrived
    <2>5. /\ dw.remain > 0 /\ dw.size \in Nat /\ dw.size + dw.remain = len - SigLen
        BY <1>1, <1>3, <2>3
    <2>6. Copying(file, Target, damaged', dw', flash', at)
        BY <1>1, <1>2, <1>8, <2>2, <2>3, <2>4, <2>5 DEF Copying, len
    <2>7. pc' = "download"
        BY <1>2, <1>11
    <2>8. Stages'
        BY <1>2, <1>9, <2>6, <2>7 DEF Stages
    <2> QED
        BY <1>6, <1>8, <1>10, <2>8 DEF at
<1>12. CASE step' # Sectors(len)
    <2>1. step' < Sectors(len) /\ pc' = "erase"
        BY <1>1, <1>2, <1>4, <1>5, <1>12
    <2>2. Stages'
        BY <1>1, <1>2, <1>7, <1>9, <2>1 DEF Stages, len
    <2> QED
        BY <1>6, <1>8, <1>10, <2>2 DEF at
<1> QED
    BY <1>11, <1>12

LEMMA ReadStage ==
    ASSUME Inv,
           StartImage \/ \E n \in 1 .. BUF_SIZE : SkipTo(n) \/ MoreSignature(n) \/ Copy(n)
    PROVE  Context' /\ Stages' /\ CopyingOn
<1>1. pc = "download" /\ UNCHANGED <<step, rdp>>
    BY DEF StartImage, SkipTo, MoreSignature, Copy, CanRead, stored
<1>2. /\ file \in Files
      /\ Copying(file, Target, damaged, dw, flash, TargetAddr)
    BY <1>1 DEF Inv, Context, Stages, InFlight
<1>3. CopyingOn
    BY <1>2, DownloadStage DEF Inv
<1>4. Target' = Target /\ TargetAddr' = TargetAddr
    BY <1>3 DEF CopyingOn, Target, TargetAddr
<1>5. Context'
    BY <1>1, <1>2, <1>3, <1>4 DEF Inv, CopyingOn, Context, InFlight
<1>6. Stages'
    BY <1>3, <1>4 DEF CopyingOn, Stages
<1> QED
    BY <1>3, <1>5, <1>6

LEMMA VerifyStage ==
    ASSUME Inv, Verify
    PROVE  Context' /\ Stages'
<1>1. /\ pc = "verify" /\ file \in Files /\ Len(dw.signature) = SigLen
      /\ Copied(file, Target, damaged, dw, flash, TargetAddr)
      /\ SignatureBlank(flash, TargetAddr, 0)
    BY DEF Inv, Types, Context, Stages, InFlight, Verify
<1>2. /\ pc' = (IF VerifyOtaChecksum THEN "sign" ELSE "clear") /\ step' = 0
      /\ UNCHANGED <<flash, ota2Addr, rdp, cur, ret, file, damaged, dw>>
    BY DEF Verify, stored, served
<1>3. /\ Target' = Target /\ TargetAddr' = TargetAddr
      /\ (VerifyOtaChecksum' <=> VerifyOtaChecksum)
    <2>1. Target' = Target
        BY <1>2 DEF Target
    <2>2. TargetAddr' = TargetAddr /\ Offset' = Offset
        BY <1>2, <2>1 DEF TargetAddr, Offset
    <2>3. \A k : RdpCell(k)' = RdpCell(k)
        BY <1>2 DEF RdpCell
    <2> QED
        BY <1>2, <2>2, <2>1, <2>3 DEF VerifyOtaChecksum
<1>4. Context'
    BY <1>1, <1>2, <1>3 DEF Inv, Context, InFlight
<1>5. CASE VerifyOtaChecksum
    <2>1. Undamaged(file, Target, damaged)
        BY <1>1, <1>5, ChecksumTells DEF Inv, VerifyOtaChecksum
    <2>2. SignedUpTo(dw, flash, TargetAddr, 0)
        BY <1>1, Lengths DEF SignedUpTo
    <2>3. pc' = "sign"
        BY <1>2, <1>5
    <2>4. Stages'
        BY <1>1, <1>2, <1>3, <2>1, <2>2, <2>3 DEF Stages
    <2> QED
        BY <1>4, <2>4
<1>6. CASE ~VerifyOtaChecksum
    <2>1. pc' = "clear"
        BY <1>2, <1>6
    <2>2. Stages'
        BY <1>1, <1>2, <1>3, <1>6, <2>1 DEF Stages
    <2> QED
        BY <1>4, <2>2
<1> QED
    BY <1>5, <1>6

LEMMA ClearStage ==
    ASSUME Inv, ClearSignatureZone
    PROVE  /\ Context' /\ Stages'
           /\ OthersKept(flash, flash', Target) /\ SignatureBlank(flash', TargetAddr, 0)
<1>1. Context' /\ Stages'
    BY IdleStage DEF ClearSignatureZone
<1> DEFINE t == Target
           len == 1
           n == 0
           fl2 == EraseSectorAt(flash, SectorOf(t, n))
<1>2. /\ flash \in [0 .. FlashLen - 1 -> Values] /\ t \in OTA_INDEX /\ BootAddr(t) = TargetAddr
      /\ len \in 1 .. SlotLen /\ n \in Nat
    BY TargetIs, Lengths DEF Inv, Types
<1>3. n <= (len - 1) \div SectorLen
    <2>1. 0 \div SectorLen \in Nat
        BY Lengths, Division
    <2> QED
        BY <2>1
<1>4. BootAddr(t) \div SectorLen + n = TargetAddr \div SectorLen
    <2>1. TargetAddr \div SectorLen \in Nat
        BY <1>2, SlotAddr, Lengths, Division
    <2> QED
        BY <1>2, <2>1
<1>10. n = 0
    OBVIOUS
<1> HIDE DEF t, len, n
<1>5. /\ SectorOf(t, n) = BootAddr(t) \div SectorLen + n
      /\ \A j \in 0 .. SlotLen - 1 : fl2[BootAddr(t) + j] =
             IF j \div SectorLen = n THEN Erased ELSE flash[BootAddr(t) + j]
      /\ OthersKept(flash, fl2, t)
    BY <1>2, <1>3, EraseSlot
<1>6. flash' = fl2
    BY <1>4, <1>5 DEF ClearSignatureZone
<1> HIDE DEF fl2
<1>7. ASSUME NEW k \in 0 .. SigLen - 1
      PROVE  flash'[TargetAddr + k] = Erased
    <2>1. k \in 0 .. SlotLen - 1 /\ k < SectorLen /\ k \in Nat
        BY Lengths
    <2>2. k \div SectorLen = 0
        BY <2>1, Lengths
    <2> QED
        BY <1>2, <1>5, <1>6, <1>10, <2>1, <2>2
<1>8. SignatureBlank(flash', TargetAddr, 0)
    BY <1>7 DEF SignatureBlank
<1>9. OthersKept(flash, flash', Target)
    BY <1>5, <1>6 DEF t
<1> QED
    BY <1>1, <1>8, <1>9

\* One more byte of the signature: the rest of the slot stays as it is.
LEMMA WriteSignatureStage ==
    ASSUME Inv, WriteSignature
    PROVE  Context' /\ Stages' /\ OthersKept(flash, flash', Target)
<1> DEFINE at == TargetAddr
           t == Target
           byte == dw.signature[step + 1]
           one == <<byte>>
<1>1. /\ pc = "sign" /\ file \in Files /\ t \in OTA_INDEX /\ at = BootAddr(t)
      /\ flash \in [0 .. FlashLen - 1 -> Values] /\ step \in Nat /\ step < SigLen
      /\ Copied(file, t, damaged, dw, flash, at) /\ Undamaged(file, t, damaged)
      /\ SignedUpTo(dw, flash, at, step) /\ Len(dw.signature) = SigLen
      /\ dw.signature \in Seq(Values)
    BY TargetIs DEF Inv, Types, Context, Stages, InFlight, WriteSignature, DRecord
<1>2. /\ flash' = Program(flash, at + step, one) /\ step' = step + 1
      /\ UNCHANGED <<ota2Addr, cur, pc, ret, file, damaged, dw>>
    BY DEF WriteSignature, served
<1>3. SigLen \in Nat /\ SlotLen \in Nat /\ SigLen < SlotLen
    BY Lengths
<1>4. one \in Seq(Values) /\ Len(one) = 1 /\ one[1] = byte
    <2>1. step + 1 \in 1 .. Len(dw.signature)
        BY <1>1, <1>3
    <2>2. byte \in Values
        BY <1>1, <2>1, ElementOfSeq
    <2> QED
        BY <2>2
<1>12. t' = t /\ TargetAddr' = at
    BY <1>2 DEF Target, TargetAddr
<1>14. byte = dw.signature[step + 1]
    OBVIOUS
<1> HIDE DEF one, at, t, byte
<1>5. /\ \A j \in 0 .. SlotLen - 1 : flash'[at + j] =
             IF j = step THEN byte ELSE flash[at + j]
      /\ OthersKept(flash, flash', t)
    <2> DEFINE fl2 == Program(flash, BootAddr(t) + step, one)
    <2>1. step + Len(one) <= SlotLen
        BY <1>1, <1>3, <1>4
    <2>2. \A j \in step .. step + Len(one) - 1 : flash[BootAddr(t) + j] = Erased
        <3> TAKE j \in step .. step + Len(one) - 1
        <3>1. j \in step .. SigLen - 1
            BY <1>1, <1>3, <1>4
        <3> QED
            BY <1>1, <3>1 DEF SignedUpTo, SignatureBlank
    <2>3. /\ \A j \in 0 .. SlotLen - 1 : fl2[BootAddr(t) + j] =
                 IF j \in step .. step + Len(one) - 1
                 THEN one[j - step + 1] ELSE flash[BootAddr(t) + j]
          /\ OthersKept(flash, fl2, t)
        BY <1>1, <1>4, <2>1, <2>2, ProgramSlot
    <2>4. flash' = fl2
        BY <1>1, <1>2
    <2> HIDE DEF fl2
    <2>5. \A j \in 0 .. SlotLen - 1 : j \in step .. step + Len(one) - 1 <=> j = step
        BY <1>1, <1>4
    <2>6. step - step + 1 = 1
        BY <1>1
    <2> QED
        BY <1>1, <1>4, <2>3, <2>4, <2>5, <2>6
<1>6. InPlace(file, t, damaged, flash', at, file.len - SigLen)
    <2> DEFINE len == file.len
    <2>1. len \in Nat /\ SigLen < len /\ len <= SlotLen
        BY <1>1, FileFacts
    <2> HIDE DEF len
    <2>2. ASSUME NEW k \in SigLen .. SigLen + (len - SigLen) - 1
          PROVE  flash'[at + k] = flash[at + k]
        <3>1. k \in 0 .. SlotLen - 1 /\ k # step
            BY <1>1, <1>3, <2>1
        <3> QED
            BY <1>5, <3>1
    <2>3. InPlace(file, t, damaged, flash, at, len - SigLen)
        BY <1>1 DEF Copied, len
    <2> QED
        BY <2>2, <2>3 DEF InPlace, len
<1>7. Copied(file, t, damaged, dw, flash', at)
    BY <1>1, <1>6 DEF Copied
<1>8. SignatureBlank(flash', at, step + 1)
    <2> SUFFICES ASSUME NEW k \in step + 1 .. SigLen - 1
                 PROVE  flash'[at + k] = Erased
        BY DEF SignatureBlank
    <2>1. k \in 0 .. SlotLen - 1 /\ k # step /\ k \in step .. SigLen - 1
        BY <1>1, <1>3
    <2> QED
        BY <1>1, <1>5, <2>1 DEF SignedUpTo, SignatureBlank
<1>9. ASSUME NEW k \in 0 .. (step + 1) - 1
      PROVE  flash'[at + k] = dw.signature[k + 1]
    <2>1. k \in 0 .. SlotLen - 1
        BY <1>1, <1>3
    <2>2. CASE k = step
        BY <1>5, <1>14, <2>1, <2>2
    <2>3. CASE k # step
        <3>1. k \in 0 .. step - 1
            BY <1>1, <2>3
        <3> QED
            BY <1>1, <1>5, <2>1, <2>3, <3>1 DEF SignedUpTo
    <2> QED
        BY <2>2, <2>3
<1>10. SignedUpTo(dw, flash', at, step + 1)
    <2>1. step + 1 <= SigLen
        BY <1>1, <1>3
    <2> QED
        BY <1>8, <1>9, <2>1 DEF SignedUpTo
<1>11. Context'
    <2>1. Target' = Target
        BY <1>12 DEF t
    <2> QED
        BY <1>1, <1>2, <2>1 DEF Inv, Context, InFlight
<1>13. Stages'
    <2>1. Target' = t
        BY <1>12 DEF t
    <2> QED
        BY <1>1, <1>2, <1>7, <1>10, <1>12, <2>1 DEF Stages
<1> QED
    BY <1>5, <1>11, <1>13 DEF t

\* An undamaged image in its place, with its signature, is that of the file.
LEMMA SignedIsImage ==
    ASSUME NEW f \in Files, NEW t \in OTA_INDEX, NEW m \in Int, NEW d, NEW fl, NEW at,
           Copied(f, t, m, d, fl, at), SignedUpTo(d, fl, at, SigLen),
           Undamaged(f, t, m), Len(d.signature) = SigLen
    PROVE  IsImage(fl, at, f, t)
<1> DEFINE o == f.ota[t]
           len == f.len
<1>1. o \in Nat /\ len \in Nat /\ SigLen < len /\ SigLen \in Nat
    BY FileFacts, Lengths
<1>2. /\ InPlace(f, t, m, fl, at, len - SigLen) /\ SignatureArrived(f, t, m, d.signature)
      /\ \A k \in 0 .. SigLen - 1 : fl[at + k] = d.signature[k + 1]
    BY DEF Copied, SignedUpTo
<1>7. m - o \notin 0 .. len - 1
    BY DEF Undamaged
<1> HIDE DEF len
<1>3. ASSUME NEW k \in 0 .. len - 1
      PROVE  fl[at + k] = Served(f, o + k)
    <2>1. o + k # m
        <3> HIDE DEF o
        <3> QED
            BY <1>1, <1>7
    <2>2. CASE k < SigLen
        <3>1. k \in 0 .. SigLen - 1 /\ k + 1 \in 1 .. SigLen /\ o + (k + 1) - 1 = o + k
            <4> HIDE DEF o
            <4> QED
                BY <1>1, <2>2
        <3>2. d.signature[k + 1] = Sent(f, m, o + (k + 1) - 1)
            BY <1>2, <3>1 DEF SignatureArrived
        <3> QED
            BY <1>2, <2>1, <3>1, <3>2 DEF Sent
    <2>3. CASE ~(k < SigLen)
        <3>1. k \in SigLen .. SigLen + (len - SigLen) - 1
            BY <1>1, <2>3
        <3>2. fl[at + k] = Sent(f, m, o + k)
            BY <1>2, <3>1 DEF InPlace
        <3> QED
            BY <2>1, <3>2 DEF Sent
    <2> QED
        BY <2>2, <2>3
<1> QED
    BY <1>3 DEF IsImage, len

\* The last step of an update: its slot holds the file of the server.
LEMMA ChangeStage ==
    ASSUME Inv, OtaChange
    PROVE  /\ Context' /\ Stages'
           /\ ota2Addr = OTA2_ADDR \/ Target = 1
<1>1. /\ pc = "sign" /\ file \in Files /\ Target \in OTA_INDEX /\ step = SigLen
      /\ Copied(file, Target, damaged, dw, flash, TargetAddr)
      /\ Undamaged(file, Target, damaged) /\ damaged \in Int
      /\ SignedUpTo(dw, flash, TargetAddr, step) /\ Len(dw.signature) = SigLen
    BY TargetIs DEF Inv, Types, Context, Stages, InFlight, OtaChange
<1>2. IsImage(flash, TargetAddr, file, Target)
    BY <1>1, SignedIsImage
<1>3. /\ pc' = "idle" /\ ret' = "ok" /\ step' = 0
      /\ UNCHANGED <<flash, ota2Addr, cur, file>>
    BY DEF OtaChange, served
<1>4. Target' = Target /\ TargetAddr' = TargetAddr
    BY <1>3 DEF Target, TargetAddr
<1>5. Context' /\ Stages'
    BY <1>1, <1>2, <1>3, <1>4 DEF Context, Stages, InFlight
<1> QED
    BY <1>1, <1>5 DEF Inv, Context, OTA_INDEX

LEMMA NextStage ==
    ASSUME Inv, ~CutHeaders, [Next]_vars
    PROVE  Context' /\ Stages'
<1> USE DEF Inv
<1>1. CASE \/ HttpUpdateOta \/ Connect \/ EraseAddr \/ WriteAddr \/ SendRequest
           \/ Redirect \/ \E p \in 1 .. 3 : ReadHeader(p)
    BY <1>1, RequestStage
<1>2. CASE Fails
    <2>1. Leave /\ pc # "idle"
        BY <1>2, FailsLeave
    <2> QED
        BY <2>1, IdleStage DEF Leave, Context
<1>3. CASE \E f \in Files : \E first \in 0 .. BUF_SIZE : ReadBody(f, first)
    BY <1>3, ReadBodyStage
<1>4. CASE TakeHeader
    BY <1>4, TakeHeaderStage
<1>5. CASE EraseSector
    BY <1>5, EraseStage
<1>6. CASE \/ StartImage
           \/ \E n \in 1 .. BUF_SIZE : SkipTo(n) \/ MoreSignature(n) \/ Copy(n)
    BY <1>6, ReadStage
<1>7. CASE Verify
    BY <1>7, VerifyStage
<1>8. CASE ClearSignatureZone
    BY <1>8, ClearStage
<1>9. CASE WriteSignature
    BY <1>9, WriteSignatureStage
<1>10. CASE OtaChange
    BY <1>10, ChangeStage
<1>11. CASE (\E s \in OTA_INDEX : CmdOtaImage(s)) \/ UNCHANGED vars
    <2>1. UNCHANGED <<flash, ota2Addr, rdp, cur, pc, ret, file, damaged, step, dw>>
        BY <1>11 DEF CmdOtaImage, vars, stored, served
    <2> QED
        BY <2>1, StageKept
<1>12. CASE Restart
    BY <1>12, IdleStage DEF Restart
<1> QED
    BY <1>1, <1>2, <1>3, <1>4, <1>5, <1>6, <1>7, <1>8, <1>9, <1>10, <1>11, <1>12
    DEF Next, Update, Fails

\* What holds between any two actions.
LEMMA InvAlways == ~CutHeaders => (Spec => []Inv)
<1> SUFFICES ASSUME ~CutHeaders
             PROVE  Spec => []Inv
    OBVIOUS
<1>1. Init => Inv
    <2>1. Init => Context /\ Stages
        BY DEF Init, Context, Stages, InFlight
    <2> QED
        BY <2>1, TypesInit DEF Inv
<1>2. Inv /\ [Next]_vars => Inv'
    BY NextStage, TypesNext DEF Inv
<1> QED
    BY <1>1, <1>2, PTL DEF Spec

-----------------------------------------------------------------------------
(* The end of an update.                                                   *)

\* When http_update_ota returns 0, the slot it chose holds what the server has, byte
\* for byte: whatever the lengths, the reads and the byte that was damaged, the checksum,
\* though it is but a sum, lets nothing else through.
THEOREM OkFaithful == ~CutHeaders => (Spec => []OkMeansServedImage)
<1> SUFFICES ASSUME ~CutHeaders
             PROVE  Spec => []OkMeansServedImage
    OBVIOUS
<1>1. Inv => OkMeansServedImage
    BY DEF Inv, Context, OkMeansServedImage
<1> QED
    BY <1>1, InvAlways, PTL

\* However the stream is cut into reads, each byte gets to its own cell, so that an
\* image that arrives undamaged passes the checksum, unless its file brings an RDP image
\* other than the one in flash.
THEOREM GoodStreamAccepted == ~CutHeaders => (Spec => []UndamagedNotRefused)
<1> SUFFICES ASSUME ~CutHeaders
             PROVE  Spec => []UndamagedNotRefused
    OBVIOUS
<1>1. Inv => UndamagedNotRefused
    <2> SUFFICES ASSUME Inv, pc = "clear", file.ours, damaged = -1,
                        file.rdpLen = 0 \/ rdp = file
                 PROVE  FALSE
        <3>1. Inv /\ pc = "clear" => file \in Files
            BY DEF Inv, Context, InFlight
        <3>2. file \in Files => (~(file.rdpLen > 0) => file.rdpLen = 0)
            BY FileFacts
        <3> QED
            BY <3>1, <3>2 DEF UndamagedNotRefused
    <2>1. /\ file \in Files /\ Copied(file, Target, damaged, dw, flash, TargetAddr)
          /\ Len(dw.signature) = SigLen /\ ~VerifyOtaChecksum /\ Target \in OTA_INDEX
        BY TargetIs DEF Inv, Types, Context, Stages, InFlight
    <2>2. Undamaged(file, Target, damaged)
        <3>1. file.ota[Target] \in Nat
            BY <2>1, FileFacts
        <3> QED
            BY <3>1 DEF Undamaged
    <2>3. SumOf(flash, TargetAddr + SigLen, dw.size)
             + SumOf(dw.signature, 1, Len(dw.signature)) = FileSum(file, Offset, file.len)
        BY <2>1, <2>2, ChecksumTells DEF Inv
    <2>4. SumOf([k \in 0 .. file.rdpLen - 1 |-> RdpCell(k)], 0, file.rdpLen)
            = FileSum(file, file.rdp, file.rdpLen)
        BY <2>1, RdpAgrees
    <2> QED
        BY <2>1, <2>3, <2>4 DEF VerifyOtaChecksum
<1> QED
    BY <1>1, InvAlways, PTL

-----------------------------------------------------------------------------
(* What the boot loader sees.                                              *)

Unsigned(fl, at) == \E k \in 0 .. SigLen - 1 : fl[at + k] = Erased

\* holds of Firmware, by the refinement mapping of OtaHttp.
Holding == [s \in OTA_INDEX |->
              IF s = 2 /\ ota2Addr # OTA2_ADDR THEN NoFile ELSE Held(flash, BootAddr(s), s)]

LEMMA NoFileIsNone == NoFile \notin Files
<1>1. NoFile.len = 0
    BY DEF NoFile
<1> QED
    BY <1>1, FileFacts, Lengths

LEMMA HeldIsImage ==
    ASSUME NEW s \in OTA_INDEX, NEW f \in Files, NEW fl, NEW at, IsImage(fl, at, f, s)
    PROVE  Complete(fl, at, s) /\ Held(fl, at, s) = f
<1>1. Complete(fl, at, s)
    BY DEF Complete
<1>2. ASSUME NEW g \in Files, IsImage(fl, at, g, s)
      PROVE  g = f
    <2> SUFFICES ASSUME g # f PROVE FALSE
        OBVIOUS
    <2>1. PICK k \in 0 .. f.len - 1 :
             k < g.len /\ Served(f, f.ota[s] + k) # Served(g, g.ota[s] + k)
        BY SignatureAssumption
    <2>2. k \in 0 .. g.len - 1
        BY <2>1, FileFacts
    <2> QED
        BY <1>2, <2>1, <2>2 DEF IsImage
<1>3. (CHOOSE g \in Files : IsImage(fl, at, g, s)) = f
    BY <1>2
<1> QED
    BY <1>1, <1>3 DEF Held

LEMMA CompleteIsSigned ==
    ASSUME NEW s \in OTA_INDEX, NEW fl, NEW at, Complete(fl, at, s)
    PROVE  Signed(fl, at, s) /\ Held(fl, at, s) \in Files /\ Held(fl, at, s) # NoFile
<1>1. PICK f \in Files : IsImage(fl, at, f, s)
    BY DEF Complete
<1>2. Held(fl, at, s) = f
    BY <1>1, HeldIsImage
<1>3. \A k \in 0 .. SigLen - 1 : fl[at + k] = Served(f, f.ota[s] + k)
    <2> TAKE k \in 0 .. SigLen - 1
    <2>1. k \in 0 .. f.len - 1
        BY FileFacts, Lengths
    <2> QED
        BY <1>1, <2>1 DEF IsImage
<1> QED
    BY <1>2, <1>3, NoFileIsNone DEF Signed

LEMMA UnsignedHoldsNone ==
    ASSUME NEW s \in OTA_INDEX, NEW fl, NEW at, Unsigned(fl, at)
    PROVE  ~Signed(fl, at, s) /\ ~Complete(fl, at, s) /\ Held(fl, at, s) = NoFile
<1>1. PICK k \in 0 .. SigLen - 1 : fl[at + k] = Erased
    BY DEF Unsigned
<1>3. ~Signed(fl, at, s)
    <2> SUFFICES ASSUME Signed(fl, at, s) PROVE FALSE
        OBVIOUS
    <2>1. PICK f \in Files : fl[at + k] = Served(f, f.ota[s] + k)
        BY DEF Signed
    <2> QED
        BY <1>1, <2>1, SignatureAssumption
<1>4. ~Complete(fl, at, s)
    BY <1>3, CompleteIsSigned
<1> QED
    BY <1>3, <1>4 DEF Held

LEMMA BlankIsUnsigned ==
    ASSUME NEW fl, NEW at, NEW n \in Nat, n < SigLen, SignatureBlank(fl, at, n)
    PROVE  Unsigned(fl, at)
<1>1. n \in n .. SigLen - 1 /\ n \in 0 .. SigLen - 1
    BY Lengths
<1> QED
    BY <1>1 DEF SignatureBlank, Unsigned

\* A slot of which no cell changes holds what it held.
LEMMA SameSlot ==
    ASSUME NEW fl, NEW fl2, NEW t \in OTA_INDEX, OthersKept(fl, fl2, t),
           NEW s \in OTA_INDEX, s # t
    PROVE  /\ Signed(fl2, BootAddr(s), s) <=> Signed(fl, BootAddr(s), s)
           /\ Complete(fl2, BootAddr(s), s) <=> Complete(fl, BootAddr(s), s)
           /\ Held(fl2, BootAddr(s), s) = Held(fl, BootAddr(s), s)
<1> DEFINE at == BootAddr(s)
<1>1. \A k \in 0 .. SlotLen - 1 : fl2[at + k] = fl[at + k]
    BY DEF OthersKept
<1> HIDE DEF at
<1>2. \A f \in Files : IsImage(fl2, at, f, s) <=> IsImage(fl, at, f, s)
    <2> TAKE f \in Files
    <2>1. \A k \in 0 .. f.len - 1 : k \in 0 .. SlotLen - 1
        BY FileFacts, Lengths
    <2> QED
        BY <1>1, <2>1 DEF IsImage
<1>3. Signed(fl2, at, s) <=> Signed(fl, at, s)
    <2>1. \A k \in 0 .. SigLen - 1 : k \in 0 .. SlotLen - 1
        BY Lengths
    <2> QED
        BY <1>1, <2>1 DEF Signed
<1>4. Complete(fl2, at, s) <=> Complete(fl, at, s)
    BY <1>2 DEF Complete
<1>5. Held(fl2, at, s) = Held(fl, at, s)
    <2>1. CASE Complete(fl, at, s)
        <3>1. PICK f \in Files : IsImage(fl, at, f, s)
            BY <2>1 DEF Complete
        <3>2. Held(fl, at, s) = f /\ Held(fl2, at, s) = f
            BY <1>2, <3>1, HeldIsImage
        <3> QED
            BY <3>2
    <2>2. CASE ~Complete(fl, at, s)
        BY <1>4, <2>2 DEF Held
    <2> QED
        BY <2>1, <2>2
<1> QED
    BY <1>3, <1>4, <1>5 DEF at

\* A step that writes the slot that is not running, if its address is set, and makes
\* nothing of it, or an image.
Replaced ==
    /\ Target = 2 => ota2Addr = OTA2_ADDR
    /\ UNCHANGED <<ota2Addr, cur>> /\ OthersKept(flash, flash', Target)
    /\ \/ Unsigned(flash', TargetAddr)
       \/ \E f \in Files : IsImage(flash', TargetAddr, f, Target)

LEMMA ReplacedImages ==
    ASSUME Inv, ImagesInv, Replaced
    PROVE  /\ ImagesInv'
           /\ Holding' = [Holding EXCEPT ![Target] = Held(flash', TargetAddr, Target)]
<1> DEFINE t == Target
           fl2 == flash'
<1>1. /\ t \in OTA_INDEX /\ t # cur /\ TargetAddr = BootAddr(t)
      /\ \A s \in OTA_INDEX : s = cur \/ s = t
      /\ cur \in OTA_INDEX /\ (t = 2 => ota2Addr = OTA2_ADDR)
      /\ UNCHANGED <<ota2Addr, cur>> /\ OthersKept(flash, fl2, t)
    BY TargetIs DEF Inv, Types, Replaced
<1>2. Signed(fl2, BootAddr(t), t) => Complete(fl2, BootAddr(t), t)
    BY <1>1, UnsignedHoldsNone, HeldIsImage DEF Replaced
<1> HIDE DEF t, fl2
<1>3. \A s \in OTA_INDEX : s # t =>
         /\ Signed(fl2, BootAddr(s), s) <=> Signed(flash, BootAddr(s), s)
         /\ Complete(fl2, BootAddr(s), s) <=> Complete(flash, BootAddr(s), s)
         /\ Held(fl2, BootAddr(s), s) = Held(flash, BootAddr(s), s)
    BY <1>1, SameSlot
<1>4. \A s \in OTA_INDEX : Signed(fl2, BootAddr(s), s) => Complete(fl2, BootAddr(s), s)
    BY <1>2, <1>3 DEF ImagesInv
<1>5. Signed(fl2, BootAddr(cur), cur) /\ (cur = 2 => ota2Addr = OTA2_ADDR)
    BY <1>1, <1>3 DEF ImagesInv, Bootable
<1>6. ota2Addr # OTA2_ADDR => ~Signed(fl2, OTA2_ADDR, 2)
    <2> SUFFICES ASSUME ota2Addr # OTA2_ADDR PROVE ~Signed(fl2, OTA2_ADDR, 2)
        OBVIOUS
    <2>1. 2 \in OTA_INDEX /\ 2 # t /\ BootAddr(2) = OTA2_ADDR
        BY <1>1 DEF OTA_INDEX, BootAddr
    <2>2. Signed(fl2, BootAddr(2), 2) <=> Signed(flash, BootAddr(2), 2)
        BY <1>3, <2>1
    <2> QED
        BY <2>1, <2>2 DEF ImagesInv
<1>7. ImagesInv'
    <2>1. cur' \in Bootable'
        BY <1>1, <1>5 DEF Bootable, fl2
    <2> QED
        BY <1>1, <1>4, <1>6, <2>1 DEF ImagesInv, fl2
<1>8. Holding' = [Holding EXCEPT ![t] = Held(fl2, BootAddr(t), t)]
    <2> DEFINE V(s) == IF s = 2 /\ ota2Addr # OTA2_ADDR THEN NoFile
                       ELSE Held(flash, BootAddr(s), s)
               W(s) == IF s = 2 /\ ota2Addr # OTA2_ADDR THEN NoFile
                       ELSE Held(fl2, BootAddr(s), s)
               v == Held(fl2, BootAddr(t), t)
    <2>1. Holding = [s \in OTA_INDEX |-> V(s)] /\ Holding' = [s \in OTA_INDEX |-> W(s)]
        BY <1>1 DEF Holding, fl2
    <2>2. \A s \in OTA_INDEX : W(s) = IF s = t THEN v ELSE V(s)
        BY <1>1, <1>3
    <2> HIDE DEF V, W, v
    <2>3. Holding' = [Holding EXCEPT ![t] = v]
        BY <1>1, <2>1, <2>2
    <2> QED
        BY <2>3 DEF v
<1> QED
    BY <1>1, <1>7, <1>8 DEF t, fl2

\* The slot that is written held nothing, and holds nothing.
LEMMA StillNone ==
    ASSUME Inv, ImagesInv, Replaced, Unsigned(flash', TargetAddr),
           Unsigned(flash, TargetAddr)
    PROVE  ImagesInv' /\ Holding' = Holding
<1>1. Target \in OTA_INDEX /\ TargetAddr = BootAddr(Target)
    BY TargetIs DEF Inv, Types
<1>2. ImagesInv' /\ Holding' = [Holding EXCEPT ![Target] = NoFile]
    BY <1>1, ReplacedImages, UnsignedHoldsNone
<1>3. Holding[Target] = NoFile
    BY <1>1, UnsignedHoldsNone DEF Holding
<1>4. Holding = [s \in OTA_INDEX |-> Holding[s]]
    BY DEF Holding
<1>5. [Holding EXCEPT ![Target] = NoFile] = Holding
    BY <1>1, <1>3, <1>4
<1> QED
    BY <1>2, <1>5

\* A step that leaves the slots alone.
LEMMA SlotsKept ==
    ASSUME ImagesInv, UNCHANGED <<flash, ota2Addr, cur>>
    PROVE  ImagesInv' /\ Holding' = Holding
<1>1. Bootable' = Bootable
    BY DEF Bootable
<1> QED
    BY <1>1 DEF ImagesInv, Holding

-----------------------------------------------------------------------------
(* Each action is one of Firmware, or none.                                *)

LEMMA Stutters ==
    ASSUME UNCHANGED <<Holding, boot, cur, file>>
    PROVE  [FW!Next]_(FW!vars)
  BY DEF FW!vars, Holding

LEMMA Withdraws ==
    ASSUME UNCHANGED <<Holding, boot, cur>>, file' = NoFile
    PROVE  [FW!Next]_(FW!vars)
<1>1. FW!Withdraw
    BY DEF FW!Withdraw, Holding
<1> QED
    BY <1>1 DEF FW!Next

LEMMA Erases ==
    ASSUME NEW s \in OTA_INDEX, s # cur, UNCHANGED <<boot, cur, file>>,
           Holding' = [Holding EXCEPT ![s] = NoFile]
    PROVE  [FW!Next]_(FW!vars)
<1>1. FW!Erase(s)
    BY DEF FW!Erase, Holding
<1> QED
    BY <1>1 DEF FW!Next

LEMMA Installs ==
    ASSUME NEW s \in OTA_INDEX, s # cur, UNCHANGED <<boot, cur, file>>,
           file # NoFile, Holding[s] = NoFile,
           Holding' = [Holding EXCEPT ![s] = file]
    PROVE  [FW!Next]_(FW!vars)
<1>1. FW!Install(s)
    BY DEF FW!Install, Holding
<1> QED
    BY <1>1 DEF FW!Next

LEMMA Selects ==
    ASSUME NEW s \in OTA_INDEX, boot' = s, UNCHANGED <<Holding, cur, file>>
    PROVE  [FW!Next]_(FW!vars)
<1>1. FW!Select(s)
    BY DEF FW!Select, Holding
<1> QED
    BY <1>1 DEF FW!Next

LEMMA Offers ==
    ASSUME NEW f \in Files, file = NoFile, file' = f, UNCHANGED <<Holding, boot, cur>>
    PROVE  [FW!Next]_(FW!vars)
<1>1. FW!Offer(f)
    BY DEF FW!Offer, Holding
<1> QED
    BY <1>1 DEF FW!Next

\* The boot loader takes a slot that holds an image, and the one to boot if that
\* is one of them.
LEMMA RestartRefines ==
    ASSUME Inv, ImagesInv, Restart
    PROVE  ImagesInv' /\ [FW!Next]_(FW!vars)
<1>1. /\ cur' \in BootLoader /\ file' = NoFile
      /\ UNCHANGED <<flash, ota2Addr, boot>> /\ boot \in OTA_INDEX
    BY DEF Restart, stored, Inv, Types
<1>2. cur' \in OTA_INDEX /\ cur' \in Bootable /\ (boot \in Bootable => cur' = boot)
    BY <1>1 DEF BootLoader, Bootable
<1>3. ImagesInv' /\ Holding' = Holding
    <2>1. Bootable' = Bootable
        BY <1>1 DEF Bootable
    <2> QED
        BY <1>1, <1>2, <2>1 DEF ImagesInv, Holding
<1>4. \A s \in OTA_INDEX : Holding[s] # NoFile <=> s \in Bootable
    <2> TAKE s \in OTA_INDEX
    <2>1. Holding[s] = IF s = 2 /\ ota2Addr # OTA2_ADDR THEN NoFile
                       ELSE Held(flash, BootAddr(s), s)
        BY DEF Holding
    <2>2. s \in Bootable <=> Signed(flash, BootAddr(s), s) /\ (s = 2 => ota2Addr = OTA2_ADDR)
        BY DEF Bootable
    <2>3. Signed(flash, BootAddr(s), s) <=> Complete(flash, BootAddr(s), s)
        BY CompleteIsSigned DEF ImagesInv
    <2>4. Held(flash, BootAddr(s), s) # NoFile <=> Complete(flash, BootAddr(s), s)
        BY CompleteIsSigned DEF Held
    <2> QED
        BY <2>1, <2>2, <2>3, <2>4
<1>5. FW!Restart(cur')
    BY <1>1, <1>2, <1>3, <1>4 DEF FW!Restart, Holding
<1> QED
    BY <1>2, <1>3, <1>5 DEF FW!Next

\* The steps that write neither a slot nor the address of OTA2.
LEMMA AsideRefines ==
    ASSUME Inv, ImagesInv, ~CutHeaders,
           \/ HttpUpdateOta \/ Connect \/ SendRequest \/ Redirect \/ Fails \/ TakeHeader
           \/ Verify \/ \E p \in 1 .. 3 : ReadHeader(p)
    PROVE  ImagesInv' /\ [FW!Next]_(FW!vars)
<1>1. UNCHANGED <<flash, ota2Addr, boot, cur>> /\ file' \in {file, NoFile}
    <2>1. CASE Fails
        BY <2>1, FailsLeave DEF Leave, stored
    <2>2. CASE TakeHeader
        <3>1. file' = file
            BY <2>2, HeaderTaken DEF Inv
        <3> QED
            BY <2>2, <3>1 DEF TakeHeader, stored
    <2> QED
        BY <2>1, <2>2 DEF HttpUpdateOta, Connect, SendRequest, Redirect, Verify, ReadHeader,
           stored, served
<1>2. ImagesInv' /\ Holding' = Holding
    BY <1>1, SlotsKept
<1> QED
    BY <1>1, <1>2, Stutters, Withdraws

\* When the address of OTA2 is erased or written, there is nothing in that slot that
\* it would hide or bring to light.
LEMMA AddrRefines ==
    ASSUME Inv, ImagesInv, EraseAddr \/ WriteAddr
    PROVE  ImagesInv' /\ [FW!Next]_(FW!vars)
<1>1. /\ pc = "address" /\ Target = 2 /\ cur \in OTA_INDEX
      /\ UNCHANGED <<flash, boot, cur, file>>
    BY DEF Inv, Types, Context, EraseAddr, WriteAddr, served
<1>2. cur = 1
    BY <1>1, TargetIs DEF OTA_INDEX
<1>3. /\ ota2Addr' # OTA2_ADDR => ota2Addr # OTA2_ADDR
      /\ ota2Addr' = OTA2_ADDR \/ ota2Addr # OTA2_ADDR
    BY DEF EraseAddr, WriteAddr
<1>4. ImagesInv'
    <2>1. cur' \in Bootable'
        BY <1>1, <1>2 DEF ImagesInv, Bootable
    <2> QED
        BY <1>1, <1>3, <2>1 DEF ImagesInv
<1>5. 2 \in OTA_INDEX /\ BootAddr(2) = OTA2_ADDR
    BY DEF OTA_INDEX, BootAddr
<1>6. ota2Addr # OTA2_ADDR => Held(flash, BootAddr(2), 2) = NoFile
    BY <1>5, CompleteIsSigned DEF ImagesInv, Held
<1>7. Holding' = Holding
    BY <1>1, <1>3, <1>6 DEF Holding
<1> QED
    BY <1>1, <1>4, <1>7, Stutters

LEMMA OfferRefines ==
    ASSUME Inv, ImagesInv, NEW f \in Files, NEW first \in 0 .. BUF_SIZE, ReadBody(f, first)
    PROVE  ImagesInv' /\ [FW!Next]_(FW!vars)
<1>1. /\ pc = "response" /\ file' = f /\ UNCHANGED <<flash, ota2Addr, boot, cur>>
    BY DEF ReadBody, stored
<1>2. file = NoFile
    BY <1>1 DEF Inv, Context, InFlight
<1>3. ImagesInv' /\ Holding' = Holding
    BY <1>1, SlotsKept
<1> QED
    BY <1>1, <1>2, <1>3, Offers

\* Erasing begins with the sector of the signature.
LEMMA EraseRefines ==
    ASSUME Inv, ImagesInv, EraseSector
    PROVE  ImagesInv' /\ [FW!Next]_(FW!vars)
<1>1. /\ OthersKept(flash, flash', Target) /\ SignatureBlank(flash', TargetAddr, 0)
    BY EraseStage
<1>2. /\ UNCHANGED <<ota2Addr, boot, cur, file>> /\ pc = "erase"
    BY DEF EraseSector, served
<1>3. Target = 2 => ota2Addr = OTA2_ADDR
    BY <1>2 DEF Inv, Context
<1>4. Unsigned(flash', TargetAddr)
    BY <1>1, BlankIsUnsigned, Lengths
<1>5. Replaced
    BY <1>1, <1>2, <1>3, <1>4 DEF Replaced
<1>6. Target \in OTA_INDEX /\ Target # cur /\ TargetAddr = BootAddr(Target)
    BY TargetIs DEF Inv, Types
<1>7. ImagesInv' /\ Holding' = [Holding EXCEPT ![Target] = NoFile]
    BY <1>4, <1>5, <1>6, ReplacedImages, UnsignedHoldsNone
<1> QED
    BY <1>2, <1>6, <1>7, Erases

\* While the image is copied, and when it is refused, its signature is not there.
LEMMA CopyRefines ==
    ASSUME Inv, ImagesInv,
           \/ StartImage \/ \E n \in 1 .. BUF_SIZE : SkipTo(n) \/ MoreSignature(n) \/ Copy(n)
           \/ ClearSignatureZone
    PROVE  ImagesInv' /\ [FW!Next]_(FW!vars)
<1>1. /\ pc \in {"download", "clear"} /\ boot' = boot
    BY DEF StartImage, SkipTo, MoreSignature, Copy, CanRead, ClearSignatureZone, stored
<1>2. /\ OthersKept(flash, flash', Target) /\ SignatureBlank(flash', TargetAddr, 0)
      /\ UNCHANGED <<ota2Addr, cur>> /\ file' \in {file, NoFile}
    BY ReadStage, ClearStage DEF CopyingOn, ClearSignatureZone
<1>3. (Target = 2 => ota2Addr = OTA2_ADDR) /\ SignatureBlank(flash, TargetAddr, 0)
    BY <1>1 DEF Inv, Context, Stages, Copying
<1>4. Unsigned(flash', TargetAddr) /\ Unsigned(flash, TargetAddr)
    BY <1>2, <1>3, BlankIsUnsigned, Lengths
<1>5. Replaced
    BY <1>2, <1>3, <1>4 DEF Replaced
<1>6. ImagesInv' /\ Holding' = Holding
    BY <1>4, <1>5, StillNone
<1> QED
    BY <1>1, <1>2, <1>6, Stutters, Withdraws

\* The last byte of the signature makes a whole image of the slot, and no other
\* byte does.
LEMMA SignRefines ==
    ASSUME Inv, ImagesInv, WriteSignature
    PROVE  ImagesInv' /\ [FW!Next]_(FW!vars)
<1>1. /\ pc = "sign" /\ file \in Files /\ Target \in OTA_INDEX /\ Target # cur
      /\ TargetAddr = BootAddr(Target) /\ (Target = 2 => ota2Addr = OTA2_ADDR)
      /\ SignedUpTo(dw, flash, TargetAddr, step) /\ step \in Nat /\ step < SigLen
    BY TargetIs DEF Inv, Types, Context, Stages, InFlight, WriteSignature
<1>2. /\ step' = step + 1 /\ UNCHANGED <<ota2Addr, boot, cur, file, pc, dw>>
    BY DEF WriteSignature, served
<1>3. Context' /\ Stages' /\ OthersKept(flash, flash', Target) /\ Types'
    BY WriteSignatureStage, EndTypes DEF Inv
<1>4. Target' = Target /\ TargetAddr' = TargetAddr
    BY <1>2 DEF Target, TargetAddr
<1>5. /\ Copied(file, Target, damaged', dw, flash', TargetAddr)
      /\ Undamaged(file, Target, damaged') /\ damaged' \in Int
      /\ SignedUpTo(dw, flash', TargetAddr, step + 1) /\ Len(dw.signature) = SigLen
    BY <1>1, <1>2, <1>3, <1>4 DEF Stages, Types
<1>6. Unsigned(flash, TargetAddr)
    BY <1>1, BlankIsUnsigned DEF SignedUpTo
<1>7. CASE step + 1 < SigLen
    <2>1. Unsigned(flash', TargetAddr)
        BY <1>1, <1>5, <1>7, BlankIsUnsigned DEF SignedUpTo
    <2>2. Replaced
        BY <1>1, <1>2, <1>3, <2>1 DEF Replaced
    <2>3. ImagesInv' /\ Holding' = Holding
        BY <1>6, <2>1, <2>2, StillNone
    <2> QED
        BY <1>2, <2>3, Stutters
<1>8. CASE step + 1 = SigLen
    <2>1. IsImage(flash', TargetAddr, file, Target)
        BY <1>1, <1>5, <1>8, SignedIsImage
    <2>2. Replaced /\ Held(flash', TargetAddr, Target) = file
        BY <1>1, <1>2, <1>3, <2>1, HeldIsImage DEF Replaced
    <2>3. ImagesInv' /\ Holding' = [Holding EXCEPT ![Target] = file]
        BY <2>2, ReplacedImages
    <2>4. Holding[Target] = NoFile /\ file # NoFile
        BY <1>1, <1>6, UnsignedHoldsNone, NoFileIsNone DEF Holding
    <2> QED
        BY <1>1, <1>2, <2>3, <2>4, Installs
<1> QED
    BY <1>1, <1>7, <1>8, Lengths

\* The index to boot.
LEMMA IndexRefines ==
    ASSUME Inv, ImagesInv, OtaChange \/ \E s \in OTA_INDEX : CmdOtaImage(s)
    PROVE  ImagesInv' /\ [FW!Next]_(FW!vars)
<1>1. PICK s \in OTA_INDEX : boot' = s /\ UNCHANGED <<flash, ota2Addr, cur, file>>
    <2>1. Target \in OTA_INDEX
        BY TargetIs DEF Inv, Types
    <2> QED
        BY <2>1 DEF OtaChange, CmdOtaImage, served
<1>2. ImagesInv' /\ Holding' = Holding
    BY <1>1, SlotsKept
<1> QED
    BY <1>1, <1>2, Selects

LEMMA NextRefines ==
    ASSUME Inv, ImagesInv, ~CutHeaders, [Next]_vars
    PROVE  ImagesInv' /\ [FW!Next]_(FW!vars)
<1>1. CASE \/ HttpUpdateOta \/ Connect \/ SendRequest \/ Redirect \/ Fails \/ TakeHeader
           \/ Verify \/ \E p \in 1 .. 3 : ReadHeader(p)
    BY <1>1, AsideRefines
<1>2. CASE EraseAddr \/ WriteAddr
    BY <1>2, AddrRefines
<1>3. CASE \E f \in Files : \E first \in 0 .. BUF_SIZE : ReadBody(f, first)
    BY <1>3, OfferRefines
<1>4. CASE EraseSector
    BY <1>4, EraseRefines
<1>5. CASE \/ StartImage
           \/ \E n \in 1 .. BUF_SIZE : SkipTo(n) \/ MoreSignature(n) \/ Copy(n)
           \/ ClearSignatureZone
    BY <1>5, CopyRefines
<1>6. CASE WriteSignature
    BY <1>6, SignRefines
<1>7. CASE OtaChange \/ \E s \in OTA_INDEX : CmdOtaImage(s)
    BY <1>7, IndexRefines
<1>8. CASE Restart
    BY <1>8, RestartRefines
<1>9. CASE UNCHANGED vars
    <2>1. UNCHANGED <<flash, ota2Addr, boot, cur, file>>
        BY <1>9 DEF vars, stored, served
    <2>2. ImagesInv' /\ Holding' = Holding
        BY <2>1, SlotsKept
    <2> QED
        BY <2>1, <2>2, Stutters
<1> QED
    BY <1>1, <1>2, <1>3, <1>4, <1>5, <1>6, <1>7, <1>8, <1>9 DEF Next, Update, Fails

\* A device as it leaves the factory runs the image in its first slot; there is
\* none in the other, whatever the address in the system data.
LEMMA InitRefines == Init => ImagesInv /\ FW!Init
<1> SUFFICES ASSUME Init
             PROVE  ImagesInv /\ FW!Init
    OBVIOUS
<1>1. /\ rdp \in Files /\ cur = 1 /\ boot = 1 /\ file = NoFile
      /\ flash = [k \in 0 .. FlashLen - 1 |->
                    IF k < rdp.len THEN Served(rdp, rdp.ota[1] + k) ELSE Erased]
    BY DEF Init
<1> DEFINE len == rdp.len
<1>2. /\ len \in Nat /\ len <= SlotLen /\ SlotLen \in Nat /\ SlotLen > 0
      /\ SlotLen <= OTA2_ADDR /\ OTA2_ADDR + SlotLen <= FlashLen
      /\ OTA2_ADDR \in Nat /\ FlashLen \in Nat /\ SigLen > 0 /\ SigLen \in Nat
    BY <1>1, FileFacts, Lengths, Numbers
<1>3. /\ 1 \in OTA_INDEX /\ 2 \in OTA_INDEX /\ BootAddr(1) = 0 /\ BootAddr(2) = OTA2_ADDR
      /\ \A s \in OTA_INDEX : s = 1 \/ s = 2
    BY DEF OTA_INDEX, BootAddr, OTA1_ADDR
<1>4. IsImage(flash, 0, rdp, 1)
    <2> SUFFICES ASSUME NEW k \in 0 .. len - 1
                 PROVE  flash[0 + k] = Served(rdp, rdp.ota[1] + k)
        BY DEF IsImage
    <2> HIDE DEF len
    <2>1. 0 + k = k /\ k \in 0 .. FlashLen - 1 /\ k < len
        BY <1>2
    <2> QED
        BY <1>1, <2>1 DEF len
<1>5. Unsigned(flash, OTA2_ADDR)
    <2> HIDE DEF len
    <2>1. /\ 0 \in 0 .. SigLen - 1 /\ OTA2_ADDR + 0 = OTA2_ADDR
          /\ OTA2_ADDR \in 0 .. FlashLen - 1 /\ ~(OTA2_ADDR < len)
        BY <1>2
    <2>2. flash[OTA2_ADDR] = Erased
        BY <1>1, <2>1 DEF len
    <2> QED
        BY <2>1, <2>2 DEF Unsigned
<1>6. Complete(flash, 0, 1) /\ Held(flash, 0, 1) = rdp /\ Signed(flash, 0, 1)
    BY <1>1, <1>3, <1>4, HeldIsImage, CompleteIsSigned
<1>7. /\ ~Signed(flash, OTA2_ADDR, 2) /\ Held(flash, OTA2_ADDR, 2) = NoFile
    BY <1>3, <1>5, UnsignedHoldsNone
<1>8. ImagesInv
    <2>1. cur \in Bootable
        BY <1>1, <1>3, <1>6 DEF Bootable
    <2>2. \A s \in OTA_INDEX : Signed(flash, BootAddr(s), s) => Complete(flash, BootAddr(s), s)
        BY <1>3, <1>6, <1>7
    <2> QED
        BY <1>7, <2>1, <2>2 DEF ImagesInv
<1>9. \A s \in OTA_INDEX : Holding[s] = IF s = 1 THEN rdp ELSE NoFile
    <2> TAKE s \in OTA_INDEX
    <2>1. Holding[s] = IF s = 2 /\ ota2Addr # OTA2_ADDR THEN NoFile
                       ELSE Held(flash, BootAddr(s), s)
        BY DEF Holding
    <2> QED
        BY <1>3, <1>6, <1>7, <2>1
<1>10. Holding \in [OTA_INDEX -> Files \cup {NoFile}]
    <2>1. Holding = [s \in OTA_INDEX |-> Holding[s]]
        BY DEF Holding
    <2> QED
        BY <1>1, <1>9, <2>1
<1>11. /\ boot \in OTA_INDEX /\ cur \in OTA_INDEX /\ file = NoFile /\ Holding[cur] # NoFile
    BY <1>1, <1>3, <1>9, NoFileIsNone
<1> QED
    BY <1>8, <1>10, <1>11 DEF FW!Init, Holding

LEMMA ImagesAlways == ~CutHeaders => (Spec => [](Inv /\ ImagesInv))
<1> SUFFICES ASSUME ~CutHeaders
             PROVE  Spec => [](Inv /\ ImagesInv)
    OBVIOUS
<1>1. Init => ImagesInv
    BY InitRefines
<1>2. Inv /\ ImagesInv /\ [Next]_vars => ImagesInv'
    BY NextRefines
<1> QED
    BY <1>1, <1>2, InvAlways, PTL DEF Spec

\* Whenever the power is lost, in the middle of an erase, a copy or the writing of the
\* signature, the boot loader, which looks at the signature only, finds an image to
\* start, and each that it may start is complete.
THEOREM AlwaysBoots == ~CutHeaders => (Spec => []BootsCompleteImage)
<1> SUFFICES ASSUME ~CutHeaders
             PROVE  Spec => []BootsCompleteImage
    OBVIOUS
<1>1. Inv /\ ImagesInv => BootsCompleteImage
    <2> SUFFICES ASSUME ImagesInv
                 PROVE  BootsCompleteImage
        OBVIOUS
    <2>1. cur \in Bootable /\ BootLoader \subseteq Bootable
        BY DEF ImagesInv, BootLoader
    <2>2. BootLoader # {}
        BY <2>1 DEF BootLoader
    <2>3. \A s \in Bootable : Complete(flash, BootAddr(s), s)
        BY DEF ImagesInv, Bootable
    <2> QED
        BY <2>1, <2>2, <2>3 DEF BootsCompleteImage
<1> QED
    BY <1>1, ImagesAlways, PTL

\* While a device runs no step writes a byte of the slot it runs from: the sectors that
\* are erased, counted from the length in the header, and the bytes that are programmed,
\* counted from those that were read, all belong to the other slot.
RunningSlotKept == [][cur' = cur => OthersKept(flash, flash', Target)]_vars

THEOREM RunningSlotUntouched == ~CutHeaders => (Spec => RunningSlotKept)
<1> SUFFICES ASSUME ~CutHeaders
             PROVE  Spec => RunningSlotKept
    OBVIOUS
<1>1. Inv /\ [Next]_vars => [cur' = cur => OthersKept(flash, flash', Target)]_vars
    <2> SUFFICES ASSUME Inv, Next
                 PROVE  OthersKept(flash, flash', Target)
        OBVIOUS
    <2>1. CASE EraseSector
        BY <2>1, EraseStage
    <2>2. CASE \/ StartImage
               \/ \E n \in 1 .. BUF_SIZE : SkipTo(n) \/ MoreSignature(n) \/ Copy(n)
        BY <2>2, ReadStage DEF CopyingOn
    <2>3. CASE ClearSignatureZone
        BY <2>3, ClearStage
    <2>4. CASE WriteSignature
        BY <2>4, WriteSignatureStage
    <2>5. CASE flash' = flash
        BY <2>5 DEF OthersKept
    <2>6. CASE Fails
        BY <2>5, <2>6, FailsLeave DEF stored
    <2> QED
        BY <2>1, <2>2, <2>3, <2>4, <2>5, <2>6 DEF Next, Update, Fails, HttpUpdateOta, Connect,
           EraseAddr, WriteAddr, SendRequest, ReadHeader, ReadBody, Redirect, TakeHeader,
           Verify, OtaChange, CmdOtaImage, Restart, stored
<1> QED
    BY <1>1, InvAlways, PTL DEF Spec, RunningSlotKept

\* The update is one of Firmware, for any files, lengths, reads and damage: the power may
\* be lost between any two bytes, yet a slot always holds a whole image or nothing, the
\* one installed is the one the server offered, and the device always starts one that is
\* whole, though the address of OTA2 is erased and written on the way.
THEOREM Refinement == ~CutHeaders => (Spec => UpdatesFirmware)
<1> SUFFICES ASSUME ~CutHeaders
             PROVE  Spec => UpdatesFirmware
    OBVIOUS
<1>1. Inv /\ ImagesInv /\ [Next]_vars => [FW!Next]_(FW!vars)
    BY NextRefines
<1> QED
    BY <1>1, InitRefines, ImagesAlways, PTL DEF Spec, UpdatesFirmware, FW!Spec
=============================================================================
