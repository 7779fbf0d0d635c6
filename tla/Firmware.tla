------------------------------- MODULE Firmware -------------------------------
(***************************************************************************)
(* What an update promises of the firmware, whoever carries it out: the    *)
(* slot that runs is never touched, a slot holds a whole image or none,    *)
(* the image that is installed is the one that was offered, and whenever   *)
(* the device restarts it runs a whole image.  OtaUpdate, OtaHttp and      *)
(* YModem implement it, with an image that is there only byte by byte and  *)
(* a boot loader that looks at its signature only.                         *)
(***************************************************************************)
CONSTANTS
    Slots,
    Images,
    NoImage

VARIABLES
    holds,      \* the image a slot holds
    boot,       \* the slot to start with
    running,    \* the slot the firmware runs in
    offered     \* the image of the update in progress

vars == <<holds, boot, running, offered>>

Init ==
    /\ holds \in [Slots -> Images \cup {NoImage}]
    /\ boot \in Slots /\ running \in Slots
    /\ holds[running] # NoImage
    /\ offered = NoImage

Offer(i) ==
    /\ offered = NoImage
    /\ offered' = i
    /\ UNCHANGED <<holds, boot, running>>

Withdraw ==
    /\ offered' = NoImage
    /\ UNCHANGED <<holds, boot, running>>

Erase(s) ==
    /\ s # running
    /\ UNCHANGED <<boot, running, offered>>
    /\ holds' = [holds EXCEPT ![s] = NoImage]

Install(s) ==
    /\ s # running /\ offered # NoImage /\ holds[s] = NoImage
    /\ UNCHANGED <<boot, running, offered>>
    /\ holds' = [holds EXCEPT ![s] = offered]

Select(s) ==
    /\ boot' = s
    /\ UNCHANGED <<holds, running, offered>>

\* No step of an update: an erase that does not end with its slot takes what lies
\* behind it, and with it the record of the slot to start with.
EraseOn ==
    /\ \A s \in Slots : holds'[s] \in {holds[s], NoImage}
    /\ DOMAIN holds' = Slots
    /\ boot' \in Slots
    /\ UNCHANGED <<running, offered>>

\* The slot to start with, or another one when that holds nothing.
Restart(s) ==
    /\ holds[s] # NoImage
    /\ holds[boot] # NoImage => s = boot
    /\ running' = s
    /\ offered' = NoImage
    /\ UNCHANGED <<holds, boot>>

Next ==
    \/ \E s \in Slots : Select(s)
    \/ \E i \in Images : Offer(i)
    \/ Withdraw
    \/ \E s \in Slots : Erase(s) \/ Install(s) \/ Restart(s)

Spec == Init /\ [][Next]_vars
=============================================================================
