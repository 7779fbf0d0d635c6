------------------------------- MODULE FlashUse -------------------------------
(***************************************************************************)
(* What RT_DEV_LOCK_FLASH promises: the flash has one user at a time, a    *)
(* command of a user's is finished before the next one starts, and a user  *)
(* leaves no command behind.  FlashLock implements it.                     *)
(***************************************************************************)
CONSTANTS
    Tasks,
    NoTask

VARIABLES
    user,   \* the task that uses the flash, NoTask when none does
    busy    \* whether the flash executes a command

vars == <<user, busy>>

Init == user = NoTask /\ busy = FALSE

Acquire(t) ==
    /\ user = NoTask
    /\ user' = t
    /\ UNCHANGED busy

Start(t) ==
    /\ user = t /\ ~busy
    /\ busy' = TRUE
    /\ UNCHANGED user

Finish(t) ==
    /\ user = t /\ busy
    /\ busy' = FALSE
    /\ UNCHANGED user

Release(t) ==
    /\ user = t /\ ~busy
    /\ user' = NoTask
    /\ UNCHANGED busy

Next == \E t \in Tasks : Acquire(t) \/ Start(t) \/ Finish(t) \/ Release(t)

Spec == Init /\ [][Next]_vars
=============================================================================
