--------------------------- MODULE FlashLock_proofs ---------------------------
(***************************************************************************)
(* For any tasks and any words of enabled interrupts: the device lock      *)
(* excludes, it implements FlashUse, and no interleaving of the commands   *)
(* loses an interrupt.                                                     *)
(***************************************************************************)
EXTENDS FlashLock, SequenceTheorems, TLAPS

\* The bit, the handle and the mutex go together, and to be inside is to hold
\* the mutex: this is what makes the lazy creation safe.
MutexInv ==
    /\ mutexInit <=> deviceMutex = 1
    /\ ~mutexInit => \A t \in Tasks : pc[t] \in {"idle", "create"}
    /\ mutexInit => \A t \in Tasks : pc[t] \in Inside <=> holder[1] = t

Below(n) == {w \in Words : w < n}

\* Where the task that is inside has got to with the interrupts.
Progress(t) ==
    /\ pc[t] \in {"save", "disable"} =>
          nvic = Enabled \ Below(i[t]) /\ systick
          /\ ISER \cap Below(i[t]) = Enabled \cap Below(i[t])
    /\ pc[t] = "disable" => (i[t] \in ISER <=> i[t] \in Enabled)
    /\ pc[t] \in {"saveTick", "stopTick"} => nvic = {} /\ systick
    /\ pc[t] = "command" => nvic = {} /\ ~systick
    /\ pc[t] = "restore" => nvic = Enabled \cap Below(i[t])
    /\ pc[t] \in {"saveTick", "stopTick", "command", "restore"} => ISER = Enabled
    /\ pc[t] \in {"stopTick", "command", "restore", "restoreTick"} => systick_ctrl
    /\ pc[t] \in {"restoreTick", "locked"} => nvic = Enabled
    /\ pc[t] = "locked" => systick
    /\ pc[t] \notin {"save", "disable", "restore"} => i[t] = 0

InterruptsInv ==
    /\ \A t \in Tasks : Progress(t)
    /\ InterruptsComeBack

\* The inductive invariant.
IInv == TypeOK /\ MutexInv /\ InterruptsInv

-----------------------------------------------------------------------------
\* One more pass of a loop over the words.
LEMMA BelowNext ==
    ASSUME NEW n \in Words, NEW w \in Words
    PROVE  w \in Below(n + 1) <=> w \in Below(n) \/ w = n
  BY ConstantsAssumption DEF Below, Words

\* The last pass.
LEMMA BelowLast ==
    ASSUME NEW w \in Words PROVE w \in Below(LastWord) \/ w = LastWord
  BY ConstantsAssumption DEF Below, Words

\* The invariant holds at the start.
LEMMA InitIInv == Init => IInv
  <1> SUFFICES ASSUME Init PROVE IInv
    OBVIOUS
  <1>1. TypeOK
    <2>1. holder \in Seq(Tasks \cup {NoTask}) /\ Len(holder) = deviceMutex
      BY DEF Init
    <2>2. i \in [Tasks -> Words]
      BY ConstantsAssumption DEF Init, Words
    <2>3. pc \in [Tasks -> {"idle", "create", "take"} \cup Inside]
      BY DEF Init
    <2> QED BY <2>1, <2>2, <2>3, ConstantsAssumption DEF Init, TypeOK
  <1>2. MutexInv
    BY DEF Init, MutexInv
  <1>3. InterruptsInv
    BY DEF Init, InterruptsInv, Progress, InterruptsComeBack, Inside
  <1> QED BY <1>1, <1>2, <1>3 DEF IInv

\* Only one task is inside.
LEMMA OneInside ==
    ASSUME TypeOK, MutexInv,
           NEW t \in Tasks, pc[t] \in Inside,
           NEW s \in Tasks, s # t
    PROVE  pc[s] \notin Inside
  <1>1. mutexInit
    BY DEF MutexInv, Inside
  <1> QED BY <1>1 DEF MutexInv

\* A task that has not the flash for itself changes no interrupts.
LEMMA InterruptsKept ==
    ASSUME IInv, UNCHANGED interrupts,
           \A s \in Tasks : pc'[s] \in Inside <=> pc[s] \in Inside,
           \A s \in Tasks : pc'[s] # pc[s] => pc'[s] \notin Inside
    PROVE  InterruptsInv'
  <1>1. ASSUME NEW s \in Tasks PROVE Progress(s)'
    <2>1. CASE pc'[s] = pc[s]
      BY <2>1 DEF IInv, InterruptsInv, Progress, interrupts
    <2>2. CASE pc'[s] # pc[s]
      BY <2>2 DEF IInv, InterruptsInv, Progress, interrupts, Inside
    <2> QED BY <2>1, <2>2
  <1>2. InterruptsComeBack'
    BY DEF IInv, InterruptsInv, InterruptsComeBack, interrupts
  <1> QED BY <1>1, <1>2 DEF InterruptsInv

\* A step of the task inside that stays inside: only its own progress matters.
LEMMA InsideStep ==
    ASSUME IInv, NEW t \in Tasks, pc[t] \in Inside,
           NEW to \in Inside, pc' = [pc EXCEPT ![t] = to],
           \A s \in Tasks : s # t => i'[s] = i[s],
           Progress(t)'
    PROVE  InterruptsInv'
  <1> USE DEF IInv
  <1>0. pc'[t] = to
    BY DEF TypeOK
  <1>1. ASSUME NEW s \in Tasks, s # t PROVE Progress(s)'
    <2>1. pc[s] \notin Inside
      BY <1>1, OneInside
    <2>2. pc'[s] = pc[s] /\ i'[s] = i[s]
      BY <1>1 DEF TypeOK
    <2>3. i[s] = 0
      BY <2>1 DEF InterruptsInv, Progress, Inside
    <2> QED BY <2>1, <2>2, <2>3 DEF Progress, Inside
  <1>2. InterruptsComeBack'
    BY <1>0 DEF InterruptsComeBack
  <1> QED BY <1>1, <1>2 DEF InterruptsInv

\* Every step of a task keeps the types.
LEMMA TypeStep == IInv /\ Next => TypeOK'
  <1> SUFFICES ASSUME IInv, NEW t \in Tasks,
                      \/ Switch(t)
                      \/ DeviceMutexLock(t) \/ DeviceMutexInit(t) \/ MutexGet(t)
                      \/ FlashWriteLock(t) \/ Command(t) \/ FlashWriteUnlock(t)
                      \/ NextCommand(t) \/ DeviceMutexUnlock(t)
               PROVE  TypeOK'
    BY DEF Next
  <1> USE ConstantsAssumption DEF IInv
  <1>0. i[t] \in Words /\ NextWord(t) \in [Tasks -> Words]
    BY DEF TypeOK, Words, NextWord
  <1>1. CASE Switch(t)
    BY <1>1 DEF Switch, TypeOK, mutexes, interrupts
  <1>2. CASE DeviceMutexLock(t)
    BY <1>2 DEF DeviceMutexLock, Step, TypeOK, mutexes, interrupts
  <1>3. CASE DeviceMutexInit(t)
    <2>1. CASE mutexInit
      BY <1>3, <2>1 DEF DeviceMutexInit, Step, TypeOK, mutexes, interrupts
    <2>2. CASE ~mutexInit
      <3>1. deviceMutex = 0 /\ Len(holder) = 0
        BY <2>2 DEF MutexInv, TypeOK
      <3>2. holder' \in Seq(Tasks \cup {NoTask}) /\ Len(holder') = 1
        BY <1>3, <2>2, <3>1 DEF DeviceMutexInit, TypeOK
      <3> QED
        BY <1>3, <2>2, <3>2
           DEF DeviceMutexInit, Step, TypeOK, mutexes, interrupts
    <2> QED BY <2>1, <2>2
  <1>4. CASE MutexGet(t)
    <2>1. deviceMutex \in 1 .. Len(holder)
      BY <1>4 DEF MutexGet, Step, TypeOK, MutexInv
    <2>2. holder' \in Seq(Tasks \cup {NoTask}) /\ Len(holder') = Len(holder)
      BY <1>4, <2>1, ExceptSeq DEF MutexGet, TypeOK
    <2>3. pc' \in [Tasks -> {"idle", "create", "take"} \cup Inside]
      BY <1>4 DEF MutexGet, Step, TypeOK, Inside
    <2> QED
      BY <1>4, <2>2, <2>3 DEF MutexGet, Step, TypeOK, interrupts
  <1>5. CASE FlashWriteLock(t)
    <2>1. CASE SaveWord(t)
      BY <2>1, <1>0 DEF SaveWord, Step, TypeOK, Inside, mutexes
    <2>2. CASE DisableWord(t)
      BY <2>2, <1>0 DEF DisableWord, Loop, Step, TypeOK, Inside, mutexes
    <2>3. CASE SaveTick(t)
      BY <2>3 DEF SaveTick, Step, TypeOK, Inside, mutexes
    <2>4. CASE StopTick(t)
      BY <2>4 DEF StopTick, Step, TypeOK, Inside, mutexes
    <2> QED BY <1>5, <2>1, <2>2, <2>3, <2>4 DEF FlashWriteLock
  <1>6. CASE Command(t)
    BY <1>6 DEF Command, Step, TypeOK, Inside, mutexes, interrupts
  <1>7. CASE FlashWriteUnlock(t)
    <2>1. CASE RestoreWord(t)
      BY <2>1, <1>0 DEF RestoreWord, Loop, Step, TypeOK, Inside, mutexes
    <2>2. CASE RestoreTick(t)
      BY <2>2 DEF RestoreTick, Step, TypeOK, Inside, mutexes
    <2> QED BY <1>7, <2>1, <2>2 DEF FlashWriteUnlock
  <1>8. CASE NextCommand(t)
    BY <1>8 DEF NextCommand, Step, TypeOK, Inside, mutexes, interrupts
  <1>9. CASE DeviceMutexUnlock(t)
    <2>1. deviceMutex \in 1 .. Len(holder)
      BY <1>9 DEF DeviceMutexUnlock, Step, TypeOK, MutexInv, Inside
    <2>2. holder' \in Seq(Tasks \cup {NoTask}) /\ Len(holder') = Len(holder)
      BY <1>9, <2>1, ExceptSeq DEF DeviceMutexUnlock, TypeOK
    <2>3. pc' \in [Tasks -> {"idle", "create", "take"} \cup Inside]
      BY <1>9 DEF DeviceMutexUnlock, Step, TypeOK, Inside
    <2> QED
      BY <1>9, <2>2, <2>3 DEF DeviceMutexUnlock, Step, TypeOK, interrupts
  <1> QED BY <1>1, <1>2, <1>3, <1>4, <1>5, <1>6, <1>7, <1>8, <1>9

\* Every step of a task keeps the mutex, its bit and its holder together.
LEMMA MutexStep == IInv /\ Next => MutexInv'
  <1> SUFFICES ASSUME IInv, NEW t \in Tasks,
                      \/ Switch(t)
                      \/ DeviceMutexLock(t) \/ DeviceMutexInit(t) \/ MutexGet(t)
                      \/ FlashWriteLock(t) \/ Command(t) \/ FlashWriteUnlock(t)
                      \/ NextCommand(t) \/ DeviceMutexUnlock(t)
               PROVE  MutexInv'
    BY DEF Next
  <1> USE ConstantsAssumption DEF IInv
  <1>1. CASE Switch(t)
    BY <1>1 DEF Switch, MutexInv, mutexes
  <1>2. CASE DeviceMutexLock(t)
    BY <1>2 DEF DeviceMutexLock, Step, TypeOK, MutexInv, Inside, mutexes
  <1>3. CASE DeviceMutexInit(t)
    <2>1. CASE mutexInit
      BY <1>3, <2>1 DEF DeviceMutexInit, Step, TypeOK, MutexInv, Inside, mutexes
    <2>2. CASE ~mutexInit
      <3>1. holder' = Append(holder, NoTask) /\ Len(holder) = 0
        BY <1>3, <2>2 DEF DeviceMutexInit, TypeOK, MutexInv
      <3>2. holder'[1] = NoTask /\ deviceMutex' = 1 /\ mutexInit'
        BY <1>3, <2>2, <3>1 DEF DeviceMutexInit, TypeOK
      <3>3. \A s \in Tasks : pc'[s] \notin Inside
        BY <1>3, <2>2 DEF DeviceMutexInit, Step, TypeOK, MutexInv, Inside
      <3> QED BY <3>2, <3>3 DEF MutexInv
    <2> QED BY <2>1, <2>2
  <1>4. CASE MutexGet(t)
    <2>1. mutexInit /\ deviceMutex = 1 /\ holder[1] = NoTask
      BY <1>4 DEF MutexGet, Step, MutexInv
    <2>2. holder' = [holder EXCEPT ![1] = t] /\ holder'[1] = t
      BY <1>4, <2>1 DEF MutexGet, TypeOK
    <2>3. \A s \in Tasks : pc'[s] \in Inside <=> s = t
      BY <1>4, <2>1 DEF MutexGet, Step, TypeOK, MutexInv, Inside
    <2> QED BY <1>4, <2>1, <2>2, <2>3 DEF MutexGet, MutexInv
  <1>5. ASSUME UNCHANGED mutexes, NEW from \in Inside, NEW to \in Inside,
               Step(t, from, to)
        PROVE  MutexInv'
    <2>1. mutexInit
      BY <1>5 DEF Step, MutexInv, Inside
    <2>2. \A s \in Tasks : pc'[s] \in Inside <=> pc[s] \in Inside
      BY <1>5 DEF Step, TypeOK
    <2> QED BY <1>5, <2>1, <2>2 DEF MutexInv, mutexes
  <1>6. CASE FlashWriteLock(t)
    <2>1. CASE SaveWord(t)
      BY <2>1, <1>5 DEF SaveWord, Inside
    <2>2. CASE DisableWord(t)
      BY <2>2, <1>5 DEF DisableWord, Loop, Inside
    <2>3. CASE SaveTick(t)
      BY <2>3, <1>5 DEF SaveTick, Inside
    <2>4. CASE StopTick(t)
      BY <2>4, <1>5 DEF StopTick, Inside
    <2> QED BY <1>6, <2>1, <2>2, <2>3, <2>4 DEF FlashWriteLock
  <1>7. CASE Command(t)
    BY <1>7, <1>5 DEF Command, Inside
  <1>8. CASE FlashWriteUnlock(t)
    <2>1. CASE RestoreWord(t)
      BY <2>1, <1>5 DEF RestoreWord, Loop, Inside
    <2>2. CASE RestoreTick(t)
      BY <2>2, <1>5 DEF RestoreTick, Inside
    <2> QED BY <1>8, <2>1, <2>2 DEF FlashWriteUnlock
  <1>9. CASE NextCommand(t)
    BY <1>9, <1>5 DEF NextCommand, Inside
  <1>10. CASE DeviceMutexUnlock(t)
    <2>1. mutexInit /\ deviceMutex = 1 /\ pc[t] \in Inside
      BY <1>10 DEF DeviceMutexUnlock, Step, MutexInv, Inside
    <2>2. holder'[1] = NoTask
      BY <1>10, <2>1 DEF DeviceMutexUnlock, TypeOK
    <2>3. \A s \in Tasks : pc'[s] \notin Inside
      BY <1>10, <2>1, OneInside DEF DeviceMutexUnlock, Step, TypeOK, Inside
    <2> QED BY <1>10, <2>1, <2>2, <2>3 DEF DeviceMutexUnlock, MutexInv
  <1> QED BY <1>1, <1>2, <1>3, <1>4, <1>6, <1>7, <1>8, <1>9, <1>10

\* Every step of a task keeps the interrupts where its progress says.
LEMMA InterruptsStep == IInv /\ Next => InterruptsInv'
  <1> SUFFICES ASSUME IInv, NEW t \in Tasks,
                      \/ Switch(t)
                      \/ DeviceMutexLock(t) \/ DeviceMutexInit(t) \/ MutexGet(t)
                      \/ FlashWriteLock(t) \/ Command(t) \/ FlashWriteUnlock(t)
                      \/ NextCommand(t) \/ DeviceMutexUnlock(t)
               PROVE  InterruptsInv'
    BY DEF Next
  <1> USE ConstantsAssumption
  <1>0. /\ Progress(t) /\ TypeOK /\ i[t] \in Words
        /\ Enabled \subseteq Words /\ ISER \subseteq Words
    BY DEF IInv, InterruptsInv, TypeOK
  <1>n. /\ i[t] # LastWord => NextWord(t)[t] = i[t] + 1
        /\ i[t] = LastWord => NextWord(t)[t] = 0
        /\ \A s \in Tasks : s # t => NextWord(t)[s] = i[s]
    BY <1>0 DEF NextWord, TypeOK
  <1>1. CASE Switch(t)
    BY <1>1, InterruptsKept DEF Switch
  <1>2. CASE DeviceMutexLock(t)
    BY <1>0, <1>2, InterruptsKept DEF DeviceMutexLock, Step, TypeOK, Inside
  <1>3. CASE DeviceMutexInit(t)
    BY <1>0, <1>3, InterruptsKept DEF DeviceMutexInit, Step, TypeOK, Inside
  <1>4. CASE MutexGet(t)
    <2>1. \A s \in Tasks : pc[s] \notin Inside
      <3>1. mutexInit /\ holder[1] = NoTask
        BY <1>4 DEF IInv, MutexGet, Step, MutexInv
      <3> QED BY <3>1 DEF IInv, MutexInv
    <2>2. nvic = Enabled /\ systick /\ \A s \in Tasks : i[s] = 0
      BY <2>1 DEF IInv, InterruptsInv, InterruptsComeBack, Progress, Inside
    <2>3. \A s \in Tasks : pc'[s] = IF s = t THEN "save" ELSE pc[s]
      BY <1>0, <1>4 DEF MutexGet, Step, TypeOK
    <2>4. \A s \in Tasks : Progress(s)'
      BY <1>4, <2>1, <2>2, <2>3
         DEF MutexGet, Progress, Below, Inside, Words, interrupts
    <2>5. InterruptsComeBack'
      BY <2>3 DEF InterruptsComeBack, Inside
    <2> QED BY <2>4, <2>5 DEF InterruptsInv
  <1>5. CASE SaveWord(t)
    <2>1. pc[t] = "save" /\ pc'[t] = "disable" /\ i' = i /\ nvic' = nvic
      BY <1>0, <1>5 DEF SaveWord, Step, TypeOK
    <2>2. nvic = Enabled \ Below(i[t]) /\ systick
          /\ ISER \cap Below(i[t]) = Enabled \cap Below(i[t])
      BY <1>0, <2>1 DEF Progress
    <2>3. i[t] \notin Below(i[t])
      BY <1>0 DEF Below, Words
    <2>4. i[t] \in nvic <=> i[t] \in Enabled
      BY <2>2, <2>3
    <2>5. /\ ISER' \cap Below(i[t]) = Enabled \cap Below(i[t])
          /\ i[t] \in ISER' <=> i[t] \in Enabled
      BY <1>5, <2>2, <2>3, <2>4 DEF SaveWord
    <2>6. Progress(t)'
      BY <1>5, <2>1, <2>2, <2>5 DEF SaveWord, Progress, Below
    <2> QED BY <1>5, <2>1, <2>6, InsideStep DEF SaveWord, Step, Inside
  <1>6. CASE DisableWord(t)
    <2>1. pc[t] = "disable" /\ ISER' = ISER /\ systick' = systick
      BY <1>6 DEF DisableWord, Step
    <2>2. nvic = Enabled \ Below(i[t]) /\ systick
          /\ ISER \cap Below(i[t]) = Enabled \cap Below(i[t])
          /\ (i[t] \in ISER <=> i[t] \in Enabled)
      BY <1>0, <2>1 DEF Progress
    <2>3. \A w \in Words : w \in Below(i[t] + 1) <=> w \in Below(i[t]) \/ w = i[t]
      BY <1>0, BelowNext
    <2>4. CASE i[t] # LastWord
      <3>1. i'[t] = i[t] + 1 /\ pc'[t] = "save"
        BY <1>0, <1>6, <1>n, <2>4 DEF DisableWord, Loop, Step, TypeOK
      <3>2. nvic' = Enabled \ Below(i[t] + 1)
        BY <1>0, <1>6, <2>2, <2>3 DEF DisableWord
      <3>3. ISER \cap Below(i[t] + 1) = Enabled \cap Below(i[t] + 1)
        BY <1>0, <2>2, <2>3
      <3>4. Progress(t)'
        BY <2>1, <2>2, <3>1, <3>2, <3>3 DEF Progress, Below
      <3> QED
        BY <1>6, <1>n, <2>1, <2>4, <3>4, InsideStep
           DEF DisableWord, Loop, Step, Inside
    <2>5. CASE i[t] = LastWord
      <3>1. i'[t] = 0 /\ pc'[t] = "saveTick"
        BY <1>0, <1>6, <1>n, <2>5 DEF DisableWord, Loop, Step, TypeOK
      <3>a. \A w \in Words : w \in Below(i[t]) \/ w = i[t]
        BY <2>5, BelowLast
      <3>2. nvic' = {}
        BY <1>0, <1>6, <2>2, <3>a DEF DisableWord
      <3>3. ISER = Enabled
        BY <1>0, <2>2, <3>a
      <3>4. Progress(t)'
        BY <2>1, <2>2, <3>1, <3>2, <3>3 DEF Progress, Below
      <3> QED
        BY <1>6, <1>n, <2>1, <2>5, <3>4, InsideStep
           DEF DisableWord, Loop, Step, Inside
    <2> QED BY <2>4, <2>5
  <1>7. CASE SaveTick(t)
    <2>1. pc[t] = "saveTick" /\ pc'[t] = "stopTick"
      BY <1>0, <1>7 DEF SaveTick, Step, TypeOK
    <2>2. Progress(t)'
      BY <1>0, <1>7, <2>1 DEF SaveTick, Progress, Below
    <2> QED BY <1>7, <2>1, <2>2, InsideStep DEF SaveTick, Step, Inside
  <1>8. CASE StopTick(t)
    <2>1. pc[t] = "stopTick" /\ pc'[t] = "command"
      BY <1>0, <1>8 DEF StopTick, Step, TypeOK
    <2>2. Progress(t)'
      BY <1>0, <1>8, <2>1 DEF StopTick, Progress, Below
    <2> QED BY <1>8, <2>1, <2>2, InsideStep DEF StopTick, Step, Inside
  <1>9. CASE Command(t)
    <2>1. pc[t] = "command" /\ pc'[t] = "restore" /\ UNCHANGED interrupts
      BY <1>0, <1>9 DEF Command, Step, TypeOK
    <2>2. i[t] = 0 /\ nvic = {} /\ Below(0) \cap Words = {}
      BY <1>0, <2>1 DEF Progress, Below, Words
    <2>3. nvic = Enabled \cap Below(i[t])
      BY <1>0, <2>2
    <2>4. Progress(t)'
      BY <1>0, <2>1, <2>3 DEF interrupts, Progress, Below
    <2> QED BY <1>9, <2>1, <2>4, InsideStep DEF Command, Step, Inside, interrupts
  <1>10. CASE RestoreWord(t)
    <2>1. pc[t] = "restore" /\ ISER' = ISER /\ systick_ctrl' = systick_ctrl
      BY <1>10 DEF RestoreWord, Step
    <2>2. nvic = Enabled \cap Below(i[t]) /\ ISER = Enabled /\ systick_ctrl
      BY <1>0, <2>1 DEF Progress
    <2>3. CASE i[t] # LastWord
      <3>1. i'[t] = i[t] + 1 /\ pc'[t] = "restore"
        BY <1>0, <1>10, <1>n, <2>3 DEF RestoreWord, Loop, Step, TypeOK
      <3>2. nvic' = Enabled \cap Below(i[t] + 1)
        <4>1. \A w \in Words : w \in Below(i[t] + 1) <=> w \in Below(i[t]) \/ w = i[t]
          BY <1>0, BelowNext
        <4> QED BY <1>0, <1>10, <2>2, <4>1 DEF RestoreWord
      <3>3. Progress(t)'
        BY <2>1, <2>2, <3>1, <3>2 DEF Progress, Below
      <3> QED
        BY <1>10, <1>n, <2>1, <2>3, <3>3, InsideStep
           DEF RestoreWord, Loop, Step, Inside
    <2>4. CASE i[t] = LastWord
      <3>1. i'[t] = 0 /\ pc'[t] = "restoreTick"
        BY <1>0, <1>10, <1>n, <2>4 DEF RestoreWord, Loop, Step, TypeOK
      <3>2. nvic' = Enabled
        <4>1. \A w \in Words : w \in Below(i[t]) \/ w = i[t]
          BY <2>4, BelowLast
        <4> QED BY <1>0, <1>10, <2>2, <4>1 DEF RestoreWord
      <3>3. Progress(t)'
        BY <2>1, <2>2, <3>1, <3>2 DEF Progress, Below
      <3> QED
        BY <1>10, <1>n, <2>1, <2>4, <3>3, InsideStep
           DEF RestoreWord, Loop, Step, Inside
    <2> QED BY <2>3, <2>4
  <1>11. CASE RestoreTick(t)
    <2>1. pc[t] = "restoreTick" /\ pc'[t] = "locked"
      BY <1>0, <1>11 DEF RestoreTick, Step, TypeOK
    <2>2. Progress(t)'
      BY <1>0, <1>11, <2>1 DEF RestoreTick, Progress, Below
    <2> QED BY <1>11, <2>1, <2>2, InsideStep DEF RestoreTick, Step, Inside
  <1>12. CASE NextCommand(t)
    <2>1. pc[t] = "locked" /\ pc'[t] = "save" /\ UNCHANGED interrupts
      BY <1>0, <1>12 DEF NextCommand, Step, TypeOK
    <2>2. i[t] = 0 /\ nvic = Enabled /\ systick /\ Below(0) \cap Words = {}
      BY <1>0, <2>1 DEF Progress, Below, Words
    <2>3. /\ nvic = Enabled \ Below(i[t])
          /\ ISER \cap Below(i[t]) = Enabled \cap Below(i[t])
      BY <1>0, <2>2
    <2>4. Progress(t)'
      BY <1>0, <2>1, <2>2, <2>3 DEF interrupts, Progress, Below
    <2> QED
      BY <1>12, <2>1, <2>4, InsideStep DEF NextCommand, Step, Inside, interrupts
  <1>13. CASE DeviceMutexUnlock(t)
    <2>1. pc[t] = "locked" /\ UNCHANGED interrupts
      BY <1>13 DEF DeviceMutexUnlock, Step
    <2>2. nvic = Enabled /\ systick
      BY <1>0, <2>1 DEF Progress
    <2>3. \A s \in Tasks : pc'[s] = IF s = t THEN "idle" ELSE pc[s]
      BY <1>0, <1>13 DEF DeviceMutexUnlock, Step, TypeOK
    <2>4. \A s \in Tasks : Progress(s)'
      BY <1>0, <2>1, <2>3 DEF IInv, InterruptsInv, Progress, Below, interrupts
    <2>5. InterruptsComeBack'
      BY <2>1, <2>2 DEF InterruptsComeBack, interrupts
    <2> QED BY <2>4, <2>5 DEF InterruptsInv
  <1> QED
    BY <1>1, <1>2, <1>3, <1>4, <1>5, <1>6, <1>7, <1>8, <1>9, <1>10, <1>11,
       <1>12, <1>13 DEF FlashWriteLock, FlashWriteUnlock

-----------------------------------------------------------------------------
\* The invariant holds throughout.
LEMMA Invariance == Spec => []IInv
  <1>1. ASSUME IInv, UNCHANGED vars PROVE IInv'
    <2>1. TypeOK'
      BY <1>1 DEF IInv, TypeOK, vars, mutexes, interrupts
    <2>2. MutexInv'
      BY <1>1 DEF IInv, MutexInv, vars, mutexes
    <2>3. InterruptsInv'
      BY <1>1, InterruptsKept DEF vars
    <2> QED BY <2>1, <2>2, <2>3 DEF IInv
  <1>2. IInv /\ [Next]_vars => IInv'
    BY <1>1, TypeStep, MutexStep, InterruptsStep DEF IInv
  <1> QED BY <1>2, InitIInv, PTL DEF Spec

\* Whatever the number of tasks, at most one mutex is created and the
\* variables keep their types.
THEOREM TypeCorrect == Spec => []TypeOK
  BY Invariance, PTL DEF IInv

\* A command of the flash is never interrupted, though flash_write_lock can be.
THEOREM CommandsQuiet == Spec => []QuietWhileFlashBusy
  <1>1. IInv => QuietWhileFlashBusy
    BY DEF IInv, InterruptsInv, Progress, QuietWhileFlashBusy
  <1> QED BY <1>1, Invariance, PTL

\* No interleaving of lock, commands and unlock loses an interrupt or the tick.
THEOREM InterruptsRestored == Spec => []InterruptsComeBack
  <1>1. IInv => InterruptsComeBack
    BY DEF IInv, InterruptsInv
  <1> QED BY <1>1, Invariance, PTL

-----------------------------------------------------------------------------
(* The refinement.                                                         *)

user == IF deviceMutex = 0 THEN NoTask ELSE holder[deviceMutex]
busy == \E t \in Tasks : pc[t] = "command"

\* The task inside is the user of the flash, and executes the command if any.
LEMMA InsideUses ==
    ASSUME IInv, NEW t \in Tasks, pc[t] \in Inside
    PROVE  user = t /\ (busy <=> pc[t] = "command")
  <1>1. mutexInit /\ deviceMutex = 1 /\ holder[1] = t
    BY DEF IInv, MutexInv, Inside
  <1>2. \A s \in Tasks : s # t => pc[s] \notin Inside
    BY OneInside DEF IInv
  <1> QED BY <1>1, <1>2 DEF user, busy, Inside

\* Steps that neither take nor give the mutex, nor start or end a command.
LEMMA Unseen ==
    ASSUME IInv, UNCHANGED mutexes,
           \A s \in Tasks : pc'[s] = "command" <=> pc[s] = "command"
    PROVE  UNCHANGED <<user, busy>>
  <1>1. user' = user
    BY DEF user, mutexes
  <1>2. busy' = busy
    BY DEF busy
  <1> QED BY <1>1, <1>2

\* Every step of FlashLock is one of FlashUse, or unseen there.
LEMMA NextRefines == IInv /\ Next => Use!Next \/ UNCHANGED <<user, busy>>
  <1> SUFFICES ASSUME IInv, IInv', NEW t \in Tasks,
                      \/ Switch(t)
                      \/ DeviceMutexLock(t) \/ DeviceMutexInit(t) \/ MutexGet(t)
                      \/ FlashWriteLock(t) \/ Command(t) \/ FlashWriteUnlock(t)
                      \/ NextCommand(t) \/ DeviceMutexUnlock(t)
               PROVE  Use!Next \/ UNCHANGED <<user, busy>>
    BY TypeStep, MutexStep, InterruptsStep DEF Next, IInv
  <1>0. pc \in [Tasks -> {"idle", "create", "take"} \cup Inside]
    BY DEF IInv, TypeOK
  <1>1. CASE Switch(t)
    BY <1>1, Unseen DEF Switch
  <1>2. CASE DeviceMutexLock(t)
    BY <1>0, <1>2, Unseen DEF DeviceMutexLock, Step
  <1>3. CASE DeviceMutexInit(t)
    <2>1. CASE mutexInit
      BY <1>0, <1>3, <2>1, Unseen DEF DeviceMutexInit, Step
    <2>2. CASE ~mutexInit
      <3>1. user = NoTask
        BY <2>2 DEF IInv, MutexInv, TypeOK, user
      <3>2. \A s \in Tasks : pc[s] \notin Inside /\ pc'[s] \notin Inside
        BY <1>0, <1>3, <2>2 DEF IInv, MutexInv, DeviceMutexInit, Step, Inside
      <3>3. deviceMutex' = 1 /\ holder' = Append(holder, NoTask) /\ Len(holder) = 0
        BY <1>3, <2>2 DEF IInv, MutexInv, TypeOK, DeviceMutexInit
      <3>4. user' = NoTask
        BY <3>3 DEF user, IInv, TypeOK
      <3>5. busy' = busy
        BY <3>2 DEF busy, Inside
      <3> QED BY <3>1, <3>4, <3>5
    <2> QED BY <2>1, <2>2
  <1>4. CASE MutexGet(t)
    <2>1. mutexInit /\ deviceMutex = 1 /\ holder[1] = NoTask
      BY <1>4 DEF IInv, MutexGet, Step, MutexInv
    <2>2. pc'[t] = "save"
      BY <1>0, <1>4 DEF MutexGet, Step
    <2>3. user' = t /\ ~busy'
      <3>1. (user = t /\ (busy <=> pc[t] = "command"))'
        <4>1. mutexInit' /\ deviceMutex' = 1 /\ holder'[1] = t
          BY <2>2 DEF IInv, MutexInv, Inside
        <4>2. \A s \in Tasks : s # t => pc'[s] \notin Inside
          BY <4>1 DEF IInv, MutexInv
        <4> QED BY <4>1, <4>2, <2>2 DEF user, busy, Inside
      <3> QED BY <3>1, <2>2
    <2>4. user = NoTask
      BY <2>1 DEF user
    <2>5. ~busy
      <3>1. \A s \in Tasks : pc[s] \notin Inside
        BY <2>1, ConstantsAssumption DEF IInv, MutexInv
      <3> QED BY <3>1 DEF busy, Inside
    <2>6. Use!Acquire(t)
      BY <2>3, <2>4, <2>5 DEF Use!Acquire, user, busy
    <2> QED BY <2>6 DEF Use!Next
  <1>5. CASE FlashWriteLock(t)
    <2>1. CASE SaveWord(t)
      BY <1>0, <2>1, Unseen DEF SaveWord, Step
    <2>2. CASE DisableWord(t)
      BY <1>0, <2>2, Unseen DEF DisableWord, Loop, Step
    <2>3. CASE SaveTick(t)
      BY <1>0, <2>3, Unseen DEF SaveTick, Step
    <2>4. CASE StopTick(t)
      <3>1. pc[t] = "stopTick" /\ pc'[t] = "command"
        BY <1>0, <2>4 DEF StopTick, Step
      <3>2. user = t /\ ~busy
        BY <3>1, InsideUses DEF Inside
      <3>3. user' = user
        BY <2>4 DEF StopTick, user, mutexes
      <3>4. busy'
        BY <3>1 DEF busy
      <3>5. Use!Start(t)
        BY <3>2, <3>3, <3>4 DEF Use!Start, user, busy
      <3> QED BY <3>5 DEF Use!Next
    <2> QED BY <1>5, <2>1, <2>2, <2>3, <2>4 DEF FlashWriteLock
  <1>6. CASE Command(t)
    <2>1. pc[t] = "command" /\ pc'[t] = "restore"
          /\ \A s \in Tasks : s # t => pc'[s] = pc[s]
      BY <1>0, <1>6 DEF Command, Step
    <2>2. user = t /\ busy
      BY <2>1, InsideUses DEF Inside
    <2>3. user' = user
      BY <1>6 DEF Command, user, mutexes
    <2>4. ~busy'
      <3>1. \A s \in Tasks : s # t => pc[s] \notin Inside
        BY <2>1, OneInside DEF IInv, Inside
      <3> QED BY <2>1, <3>1 DEF busy, Inside
    <2>5. Use!Finish(t)
      BY <2>2, <2>3, <2>4 DEF Use!Finish, user, busy
    <2> QED BY <2>5 DEF Use!Next
  <1>7. CASE FlashWriteUnlock(t)
    <2>1. CASE RestoreWord(t)
      BY <1>0, <2>1, Unseen DEF RestoreWord, Loop, Step
    <2>2. CASE RestoreTick(t)
      BY <1>0, <2>2, Unseen DEF RestoreTick, Step
    <2> QED BY <1>7, <2>1, <2>2 DEF FlashWriteUnlock
  <1>8. CASE NextCommand(t)
    BY <1>0, <1>8, Unseen DEF NextCommand, Step
  <1>9. CASE DeviceMutexUnlock(t)
    <2>1. pc[t] = "locked" /\ pc[t] \in Inside
          /\ \A s \in Tasks : pc'[s] = "command" <=> pc[s] = "command"
      BY <1>0, <1>9 DEF DeviceMutexUnlock, Step, Inside
    <2>2. user = t /\ ~busy
      BY <2>1, InsideUses
    <2>3. busy' = busy
      BY <2>1 DEF busy
    <2>4. mutexInit /\ deviceMutex = 1
      BY <2>1 DEF IInv, MutexInv, Inside
    <2>5. user' = NoTask
      BY <1>9, <2>4 DEF DeviceMutexUnlock, user, IInv, TypeOK
    <2>6. Use!Release(t)
      BY <2>2, <2>3, <2>5 DEF Use!Release, user, busy
    <2> QED BY <2>6 DEF Use!Next
  <1> QED BY <1>1, <1>2, <1>3, <1>4, <1>5, <1>6, <1>7, <1>8, <1>9

\* The device lock gives each task the flash for itself: one user at a time,
\* no command before the last one ended, none left behind.
THEOREM Refinement == Spec => UsedByOne
  <1>1. Init => Use!Init
    BY DEF Init, Use!Init
  <1>2. IInv /\ [Next]_vars => [Use!Next]_(Use!vars)
    <2>1. ASSUME UNCHANGED vars PROVE UNCHANGED <<user, busy>>
      BY <2>1 DEF vars, mutexes, user, busy
    <2> QED BY <2>1, NextRefines DEF Use!vars, user, busy
  <1> QED BY <1>1, <1>2, Invariance, PTL DEF Spec, UsedByOne, Use!Spec
=============================================================================
