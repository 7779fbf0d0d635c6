------------------------------ MODULE FlashLock ------------------------------
(***************************************************************************)
(* The use of the flash by several tasks: device_mutex_lock and _unlock of *)
(* component/os/os_dep/device_lock.c around the commands of the mbed       *)
(* flash_api.c, as rtl8710b_ota.c and the serial updates bracket them.     *)
(*                                                                         *)
(* The mutex of a device is created by the first task that needs it.  The  *)
(* program runs out of the flash (XIP), so a command must not be           *)
(* interrupted: flash_write_lock saves the enabled interrupts, word by     *)
(* word, in ONE global array, disables them and stops the tick;            *)
(* flash_write_unlock restores them.  Until the tick stops the task may be *)
(* preempted half-way: that no other task overwrites the array then rests  *)
(* on the mutex alone.  Nobody else enables or disables an interrupt       *)
(* meanwhile; the change would be lost (flash_api.c:47-48).                *)
(***************************************************************************)
EXTENDS Integers, Sequences

CONSTANTS
    Tasks,      \* the tasks that use the flash
    NoTask,     \* no task
    LastWord,   \* 7: the interrupt controller has 8 words of enable bits
    Enabled     \* the words with an interrupt the program has enabled

Words == 0 .. LastWord

ASSUME ConstantsAssumption ==
    /\ NoTask \notin Tasks
    /\ LastWord \in Nat
    /\ Enabled \subseteq Words

VARIABLES
    pc,             \* where each task is
    running,        \* the task that has the processor
    mutexInit,      \* the bit of RT_DEV_LOCK_FLASH in mutex_init
    deviceMutex,    \* device_mutex: which of the mutexes, 0 for none
    holder,         \* of each mutex created: the task that has taken it
    nvic,           \* the words with an interrupt enabled
    systick,        \* whether the tick runs
    ISER,           \* the global ISER: the words saved as enabled
    systick_ctrl,   \* the global systick_ctrl
    i               \* of each task: i of flash_write_lock and _unlock

mutexes == <<mutexInit, deviceMutex, holder>>
interrupts == <<nvic, systick, ISER, systick_ctrl, i>>
vars == <<pc, running, mutexes, interrupts>>

Init ==
    /\ pc = [t \in Tasks |-> "idle"]
    /\ running \in Tasks
    /\ mutexInit = FALSE
    /\ deviceMutex = 0
    /\ holder = <<>>
    /\ nvic = Enabled
    /\ systick = TRUE
    /\ ISER = {}
    /\ systick_ctrl = FALSE
    /\ i = [t \in Tasks |-> 0]

-----------------------------------------------------------------------------
(* FreeRTOS (third-party code).                                            *)

\* A task loses the processor by an interrupt, or because it waits, or gives
\* it up in the rest of the program.
Blocked(t) == pc[t] = "take" /\ holder[deviceMutex] # NoTask
Preemptible == systick \/ nvic # {} \/ pc[running] = "idle" \/ Blocked(running)

Switch(t) ==
    /\ t # running /\ Preemptible
    /\ running' = t
    /\ UNCHANGED <<pc, mutexes, interrupts>>

Step(t, from, to) ==
    /\ running = t /\ pc[t] = from
    /\ pc' = [pc EXCEPT ![t] = to]
    /\ UNCHANGED running

-----------------------------------------------------------------------------
(* device_lock.c.  Nothing calls device_mutex_free.                        *)

\* device_mutex_init tests the bit before it enters the critical section ...
DeviceMutexLock(t) ==
    /\ Step(t, "idle", IF mutexInit THEN "take" ELSE "create")
    /\ UNCHANGED <<mutexes, interrupts>>

\* Mutant: the bit is not tested again.
DeviceMutexInitUntested(t) ==
    /\ Step(t, "create", "take")
    /\ holder' = Append(holder, NoTask)
    /\ deviceMutex' = Len(holder')
    /\ mutexInit' = TRUE
    /\ UNCHANGED interrupts

\* ... and again in it.
DeviceMutexInit(t) ==
    /\ Step(t, "create", "take")
    /\ IF mutexInit THEN UNCHANGED mutexes
       ELSE /\ holder' = Append(holder, NoTask)
            /\ deviceMutex' = Len(holder')
            /\ mutexInit' = TRUE
    /\ UNCHANGED interrupts

\* Mutant: the first timeout is taken for success.
MutexGetOnce(t) ==
    /\ Step(t, "take", "save")
    /\ holder' = [holder EXCEPT ![deviceMutex] = t]
    /\ UNCHANGED <<mutexInit, deviceMutex, interrupts>>

\* rtw_mutex_get_timeout, called again after each timeout.
MutexGet(t) ==
    /\ Step(t, "take", "save")
    /\ holder[deviceMutex] = NoTask
    /\ holder' = [holder EXCEPT ![deviceMutex] = t]
    /\ UNCHANGED <<mutexInit, deviceMutex, interrupts>>

DeviceMutexUnlock(t) ==
    /\ Step(t, "locked", "idle")
    /\ holder' = [holder EXCEPT ![deviceMutex] = NoTask]
    /\ UNCHANGED <<mutexInit, deviceMutex, interrupts>>

-----------------------------------------------------------------------------
(* flash_api.c.                                                            *)

\* The counter after this pass of the loop, and where the task is then.
NextWord(t) == [i EXCEPT ![t] = IF @ = LastWord THEN 0 ELSE @ + 1]
Loop(t, again, done) == IF i[t] = LastWord THEN done ELSE again

SaveWord(t) ==
    /\ Step(t, "save", "disable")
    /\ ISER' = IF i[t] \in nvic THEN ISER \cup {i[t]} ELSE ISER \ {i[t]}
    /\ UNCHANGED <<mutexes, nvic, systick, systick_ctrl, i>>

DisableWord(t) ==
    /\ Step(t, "disable", Loop(t, "save", "saveTick"))
    /\ nvic' = nvic \ {i[t]}
    /\ i' = NextWord(t)
    /\ UNCHANGED <<mutexes, systick, ISER, systick_ctrl>>

SaveTick(t) ==
    /\ Step(t, "saveTick", "stopTick")
    /\ systick_ctrl' = systick
    /\ UNCHANGED <<mutexes, nvic, systick, ISER, i>>

StopTick(t) ==
    /\ Step(t, "stopTick", "command")
    /\ systick' = FALSE
    /\ UNCHANGED <<mutexes, nvic, ISER, systick_ctrl, i>>

\* FLASH_Erase, FLASH_TxData12B, FLASH_SetStatus, ... between lock and unlock.
Command(t) ==
    /\ Step(t, "command", "restore")
    /\ UNCHANGED <<mutexes, interrupts>>

\* Mutant: the loop ends one word early.
RestoreWordShort(t) ==
    /\ Step(t, "restore", IF i[t] + 1 >= LastWord THEN "restoreTick" ELSE "restore")
    /\ nvic' = nvic \cup (ISER \cap {i[t]})
    /\ i' = [i EXCEPT ![t] = IF @ + 1 >= LastWord THEN 0 ELSE @ + 1]
    /\ UNCHANGED <<mutexes, systick, ISER, systick_ctrl>>

\* A bit written as 0 to the enable register changes nothing.
RestoreWord(t) ==
    /\ Step(t, "restore", Loop(t, "restore", "restoreTick"))
    /\ nvic' = nvic \cup (ISER \cap {i[t]})
    /\ i' = NextWord(t)
    /\ UNCHANGED <<mutexes, systick, ISER, systick_ctrl>>

RestoreTick(t) ==
    /\ Step(t, "restoreTick", "locked")
    /\ systick' = systick_ctrl
    /\ UNCHANGED <<mutexes, nvic, ISER, systick_ctrl, i>>

\* The next command under the same lock, as in the erase of a slot.
NextCommand(t) ==
    /\ Step(t, "locked", "save")
    /\ UNCHANGED <<mutexes, interrupts>>

-----------------------------------------------------------------------------
FlashWriteLock(t) == SaveWord(t) \/ DisableWord(t) \/ SaveTick(t) \/ StopTick(t)
FlashWriteUnlock(t) == RestoreWord(t) \/ RestoreTick(t)

Next ==
    \E t \in Tasks :
        \/ Switch(t)
        \/ DeviceMutexLock(t) \/ DeviceMutexInit(t) \/ MutexGet(t)
        \/ FlashWriteLock(t) \/ Command(t) \/ FlashWriteUnlock(t)
        \/ NextCommand(t) \/ DeviceMutexUnlock(t)

Spec == Init /\ [][Next]_vars

-----------------------------------------------------------------------------
(* Properties.                                                             *)

\* Where a task is while it has the device lock.
Inside == {"save", "disable", "saveTick", "stopTick", "command", "restore",
           "restoreTick", "locked"}

\* The variables keep their types, and there is one mutex at most.
TypeOK ==
    /\ pc \in [Tasks -> {"idle", "create", "take"} \cup Inside]
    /\ running \in Tasks
    /\ mutexInit \in BOOLEAN
    /\ deviceMutex \in {0, 1}
    /\ holder \in Seq(Tasks \cup {NoTask}) /\ Len(holder) = deviceMutex
    /\ nvic \subseteq Words
    /\ systick \in BOOLEAN
    /\ ISER \subseteq Words
    /\ systick_ctrl \in BOOLEAN
    /\ i \in [Tasks -> Words]

\* While the flash executes a command nothing can run that would fetch an
\* instruction from it: "Disable interrupt and systick exception before write
\* to flash when XIP".
QuietWhileFlashBusy ==
    \A t \in Tasks : pc[t] = "command" => nvic = {} /\ ~systick

\* However tasks preempt each other, what was enabled before is enabled when
\* the flash is left: "Restore interrupt and systick exception after write".
InterruptsComeBack ==
    (\A t \in Tasks : pc[t] \notin Inside) => nvic = Enabled /\ systick

\* The device lock gives each task the flash for itself.
Use == INSTANCE FlashUse WITH
           user <- IF deviceMutex = 0 THEN NoTask ELSE holder[deviceMutex],
           busy <- \E t \in Tasks : pc[t] = "command"

UsedByOne == Use!Spec
=============================================================================
