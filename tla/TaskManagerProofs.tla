------------------------- MODULE TaskManagerProofs -------------------------
(***************************************************************************)
(* Proofs about TaskManager, for any tasks, callers and limit.              *)
(***************************************************************************)
EXTENDS TaskManager, FiniteSetTheorems, TLAPS

-----------------------------------------------------------------------------
(* The inductive invariant                                                  *)

HasLock(c) == adder[c] \in {"test", "start", "starting"}

\* The lock is with the caller that is inside its section, and nobody else is.
LockFollowsAdder == \A c \in Callers : lock = c <=> HasLock(c)

\* Each caller has a task of its own, which has a thread only in "starting".
AddersHaveTasks ==
  \A c \in Callers :
    /\ adder[c] # "idle" => adding[c] \in Tasks
    /\ adder[c] \in {"lock", "test", "start", "undo"} => thread[adding[c]] = "created"
    /\ adder[c] = "starting" => thread[adding[c]] \in Alive

AddersDiffer ==
  \A c, d \in Callers : c # d /\ adder[c] # "idle" /\ adder[d] # "idle" => adding[c] # adding[d]

\* What the owner has done, and what AddTask has tested, still holds.
StoppingFollowsOwner ==
  /\ owner = "up" <=> ~stopping
  /\ stopping => ~hasQueue
  /\ \A c \in Callers : adder[c] \in {"start", "starting"} => ~stopping

\* The part of the invariant that needs no count of slots.
Control ==
  /\ TypeOK /\ LockFollowsAdder /\ AddersHaveTasks /\ AddersDiffer
  /\ StoppingFollowsOwner /\ ListIsRunningTasks /\ AbortedMeansQuiet

\* The queue has an item for each slot, and there are not too many.
QueueIsRight ==
  /\ MaxTasks = 0 => ~hasQueue
  /\ ~hasQueue => queued = 0
  /\ QueueCountsTasks

RoomIsRespected == MaxTasks > 0 => Cardinality(SlotHolders) <= MaxTasks

IInv == Control /\ QueueIsRight /\ RoomIsRespected
-----------------------------------------------------------------------------
LEMMA ControlInit == Init => Control
<1> SUFFICES ASSUME Init PROVE Control
  OBVIOUS
<1> USE DEF Init
<1>1. TypeOK
  BY DEF TypeOK, AdderSteps, Stages
<1>2. LockFollowsAdder /\ AddersHaveTasks /\ AddersDiffer
  BY TaskManagerAssumption DEF LockFollowsAdder, HasLock, AddersHaveTasks, AddersDiffer
<1>3. StoppingFollowsOwner /\ ListIsRunningTasks /\ AbortedMeansQuiet
  BY DEF StoppingFollowsOwner, ListIsRunningTasks, AbortedMeansQuiet, Running, Alive
<1> QED
  BY <1>1, <1>2, <1>3 DEF Control

LEMMA ControlNext == Control /\ [Next]_vars => Control'
<1> SUFFICES ASSUME Control, [Next]_vars PROVE Control'
  OBVIOUS
<1> USE TaskManagerAssumption
<1> USE DEF Control, TypeOK, LockFollowsAdder, HasLock, AddersHaveTasks, AddersDiffer, StoppingFollowsOwner,
            ListIsRunningTasks, AbortedMeansQuiet, Running, Alive, Stages, AdderSteps
<1>1. ASSUME NEW c \in Callers, NEW t \in Tasks, StartTask(c, t) PROVE Control'
  BY <1>1 DEF StartTask
<1>2. ASSUME NEW c \in Callers, Acquire(c) PROVE Control'
  BY <1>2 DEF Acquire
<1>3. ASSUME NEW c \in Callers, Refuse(c) PROVE Control'
  BY <1>3 DEF Refuse, Return
<1>4. ASSUME NEW c \in Callers, Push(c) PROVE Control'
  <2>1. queued' = queued \/ queued' = queued + 1
    <3>1. queued' = IF Limited THEN queued + 1 ELSE queued
      BY <1>4, Zenon DEF Push
    <3> QED
      BY <3>1
  <2>2. hasQueue' \in BOOLEAN
    BY <1>4, Zenon DEF Push
  <2>3. queued' \in Nat
    BY <2>1
  <2>4. TypeOK'
    BY <1>4, <2>2, <2>3 DEF Push
  <2>5. LockFollowsAdder' /\ AddersHaveTasks' /\ AddersDiffer'
    BY <1>4 DEF Push
  <2>6. StoppingFollowsOwner'
    BY <1>4 DEF Push
  <2>7. ListIsRunningTasks' /\ AbortedMeansQuiet'
    BY <1>4 DEF Push
  <2> QED
    BY <2>4, <2>5, <2>6, <2>7
<1>5. ASSUME NEW c \in Callers, PushTimesOut(c) PROVE Control'
  BY <1>5 DEF PushTimesOut
<1>6. ASSUME NEW c \in Callers, StartThread(c) PROVE Control'
  BY <1>6 DEF StartThread
<1>7. ASSUME NEW c \in Callers, StartThreadFails(c) PROVE Control'
  BY <1>7 DEF StartThreadFails
<1>8. ASSUME NEW c \in Callers, Track(c) PROVE Control'
  BY <1>8 DEF Track, Return
<1>9. ASSUME NEW c \in Callers, Undo(c) PROVE Control'
  BY <1>9 DEF Undo, Return, Remove
<1>10. ASSUME NEW t \in Tasks, ThreadStarts(t) PROVE Control'
  BY <1>10 DEF ThreadStarts, Move
<1>11. ASSUME NEW t \in Tasks, DelayOver(t) PROVE Control'
  BY <1>11 DEF DelayOver, Move
<1>12. ASSUME NEW t \in Tasks, DoRunEnds(t) PROVE Control'
  BY <1>12 DEF DoRunEnds, Move
<1>13. ASSUME NEW t \in Tasks, RemoveTask(t) PROVE Control'
  BY <1>13 DEF RemoveTask, Move, Remove
<1>14. ASSUME NEW t \in Tasks, Delete(t) PROVE Control'
  BY <1>14 DEF Delete, Move
<1>15. CASE Close
  <2>1. \A c \in Callers : ~HasLock(c)
    BY <1>15 DEF Close
  <2>2. StoppingFollowsOwner'
    <3>1. \A c \in Callers : adder[c] \notin {"start", "starting"}
      BY <2>1 DEF HasLock
    <3>2. stopping' = TRUE /\ hasQueue' = FALSE /\ owner' = "closed" /\ adder' = adder
      BY <1>15 DEF Close
    <3> HIDE DEF TypeOK, LockFollowsAdder, AddersHaveTasks, AddersDiffer, ListIsRunningTasks, AbortedMeansQuiet, Control
    <3> QED
      BY <3>1, <3>2
  <2>3. TypeOK'
    BY <1>15 DEF Close
  <2>4. LockFollowsAdder' /\ AddersHaveTasks' /\ AddersDiffer'
    BY <1>15 DEF Close
  <2>5. ListIsRunningTasks' /\ AbortedMeansQuiet'
    BY <1>15 DEF Close
  <2> QED
    BY <2>2, <2>3, <2>4, <2>5
<1>16. CASE StopTasks
  <2>1. tasks = {} => Running = {}
    BY <1>16 DEF StopTasks
  <2>2. TypeOK' /\ LockFollowsAdder' /\ AddersHaveTasks' /\ AddersDiffer' /\ ListIsRunningTasks'
    BY <1>16 DEF StopTasks
  <2>3. StoppingFollowsOwner' /\ AbortedMeansQuiet'
    BY <1>16, <2>1 DEF StopTasks
  <2> QED
    BY <2>2, <2>3
<1>17. CASE Reset
  <2>1. /\ owner \in {"up", "aborted"} /\ owner' = "up" /\ stopping' = FALSE
        /\ UNCHANGED <<lock, hasQueue, queued, tasks, adder, adding, thread, aborted>>
    BY <1>17 DEF Reset
  <2>2. TypeOK' /\ StoppingFollowsOwner' /\ AbortedMeansQuiet'
    BY <2>1
  <2>3. LockFollowsAdder' /\ AddersHaveTasks' /\ AddersDiffer' /\ ListIsRunningTasks'
    BY <2>1
  <2> QED
    BY <2>2, <2>3
<1>18. CASE UNCHANGED vars
  BY <1>18 DEF vars
<1> QED
  BY <1>1, <1>2, <1>3, <1>4, <1>5, <1>6, <1>7, <1>8, <1>9, <1>10, <1>11, <1>12, <1>13, <1>14, <1>15, <1>16, <1>17, <1>18 DEF Next, AddTask, Run
-----------------------------------------------------------------------------
(* What each step does to the tasks that have a slot                        *)

LEMMA HoldersAreTasks ==
  ASSUME Control
  PROVE  /\ SlotHolders \subseteq Tasks
         /\ IsFiniteSet(SlotHolders) /\ Cardinality(SlotHolders) \in Nat
<1>1. SlotHolders \subseteq Tasks
  BY DEF Control, TypeOK, AddersHaveTasks, SlotHolders, Running, Starting
<1> QED
  BY <1>1, TaskManagerAssumption, FS_Subset, FS_CardinalityType

LEMMA PushTakesASlot ==
  ASSUME Control, NEW c \in Callers, Push(c)
  PROVE  adding[c] \in Tasks \ SlotHolders /\ SlotHolders' = SlotHolders \union {adding[c]}
<1>1. adding[c] \in Tasks /\ thread[adding[c]] = "created"
  BY DEF Control, Push, AddersHaveTasks
<1>2. adding[c] \notin Running
  BY <1>1 DEF Running, Alive
<1>3. \A d \in Callers : Starting(d) => adding[d] # adding[c]
  BY DEF Control, Push, AddersDiffer, Starting
<1>4. Running' = Running
  BY DEF Push, Running
<1>5. \A d \in Callers : Starting(d)' <=> Starting(d) \/ d = c
  BY DEF Control, TypeOK, Push, Starting
<1>6. adding' = adding
  BY DEF Push
<1> QED
  BY <1>1, <1>2, <1>3, <1>4, <1>5, <1>6 DEF SlotHolders

LEMMA RemoveTaskFreesASlot ==
  ASSUME Control, NEW t \in Tasks, RemoveTask(t)
  PROVE  t \in SlotHolders /\ SlotHolders' = SlotHolders \ {t}
<1>1. t \in Running /\ Running' = Running \ {t}
  BY DEF Control, TypeOK, RemoveTask, Move, Running, Alive
<1>2. \A c \in Callers : Starting(c) => adding[c] # t
  BY DEF Control, AddersHaveTasks, Starting, RemoveTask, Move
<1>3. \A c \in Callers : Starting(c)' <=> Starting(c)
  BY DEF RemoveTask, Starting
<1>4. adding' = adding
  BY DEF RemoveTask
<1> QED
  BY <1>1, <1>2, <1>3, <1>4 DEF SlotHolders

LEMMA UndoFreesASlot ==
  ASSUME Control, NEW c \in Callers, Undo(c)
  PROVE  adding[c] \in SlotHolders /\ SlotHolders' = SlotHolders \ {adding[c]}
<1>1. adder[c] = "undo" /\ adding[c] \in Tasks /\ thread[adding[c]] = "created"
  BY DEF Control, Undo, AddersHaveTasks
<1>2. adding[c] \notin Running /\ Running' = Running
  BY <1>1 DEF Control, TypeOK, Undo, Running, Alive
<1>3. \A d \in Callers : Starting(d)' <=> Starting(d) /\ d # c
  BY <1>1 DEF Control, TypeOK, Undo, Return, Starting
<1>4. \A d \in Callers : Starting(d) /\ d # c => adding[d] # adding[c] /\ adding'[d] = adding[d]
  BY <1>1 DEF Control, TypeOK, Undo, Return, AddersDiffer, Starting
<1> QED
  BY <1>1, <1>2, <1>3, <1>4 DEF SlotHolders, Starting

\* The other steps take no slot and free none.
Other ==
  \/ \E c \in Callers, t \in Tasks : StartTask(c, t)
  \/ \E c \in Callers : Acquire(c) \/ Refuse(c) \/ PushTimesOut(c)
                          \/ StartThread(c) \/ StartThreadFails(c) \/ Track(c)
  \/ \E t \in Tasks : ThreadStarts(t) \/ DelayOver(t) \/ DoRunEnds(t) \/ Delete(t)
  \/ Close \/ StopTasks \/ Reset \/ UNCHANGED vars

LEMMA OthersKeepSlots ==
  ASSUME Control, Other
  PROVE  SlotHolders' = SlotHolders
<1> USE DEF Control, TypeOK, AddersHaveTasks, SlotHolders, Running, Alive, Starting
<1>1. ASSUME NEW c \in Callers, NEW t \in Tasks, StartTask(c, t) PROVE SlotHolders' = SlotHolders
  BY <1>1 DEF StartTask
<1>2. ASSUME NEW c \in Callers, Acquire(c) PROVE SlotHolders' = SlotHolders
  BY <1>2 DEF Acquire
<1>3. ASSUME NEW c \in Callers, Refuse(c) PROVE SlotHolders' = SlotHolders
  BY <1>3 DEF Refuse, Return
<1>4. ASSUME NEW c \in Callers, PushTimesOut(c) PROVE SlotHolders' = SlotHolders
  BY <1>4 DEF PushTimesOut
<1>5. ASSUME NEW c \in Callers, StartThread(c) PROVE SlotHolders' = SlotHolders
  BY <1>5 DEF StartThread, AddersDiffer
<1>6. ASSUME NEW c \in Callers, StartThreadFails(c) PROVE SlotHolders' = SlotHolders
  BY <1>6 DEF StartThreadFails
<1>7. ASSUME NEW c \in Callers, Track(c) PROVE SlotHolders' = SlotHolders
  BY <1>7 DEF Track, Return
<1>8. ASSUME NEW t \in Tasks, ThreadStarts(t) \/ DelayOver(t) \/ DoRunEnds(t) \/ Delete(t)
      PROVE SlotHolders' = SlotHolders
  BY <1>8 DEF ThreadStarts, DelayOver, DoRunEnds, Delete, Move
<1>9. CASE Close \/ StopTasks \/ Reset \/ UNCHANGED vars
  BY <1>9 DEF Close, StopTasks, Reset, vars
<1> QED
  BY <1>1, <1>2, <1>3, <1>4, <1>5, <1>6, <1>7, <1>8, <1>9 DEF Other

LEMMA StepsOfTheManager ==
  ASSUME [Next]_vars
  PROVE  \/ \E c \in Callers : Push(c) \/ Undo(c)
         \/ \E t \in Tasks : RemoveTask(t)
         \/ Other
BY Zenon DEF Next, AddTask, Run, Other
-----------------------------------------------------------------------------
(* Slots and items                                                          *)

\* A start that failed is not undone after a Reset.
NoStaleRemoval == ~StaleRemovals

LEMMA SlotsInit == Init => SlotHolders = {} /\ Cardinality(SlotHolders) = 0
<1> SUFFICES ASSUME Init PROVE SlotHolders = {}
  BY FS_EmptySet
<1> QED
  BY DEF Init, SlotHolders, Running, Alive, Starting

LEMMA SlotsPush ==
  ASSUME Control, QueueIsRight, RoomIsRespected, NEW c \in Callers, Push(c)
  PROVE  QueueIsRight' /\ RoomIsRespected'
<1> DEFINE n == Cardinality(SlotHolders)
           m == Cardinality(SlotHolders')
<1>1. m = n + 1 /\ n \in Nat
  BY PushTakesASlot, HoldersAreTasks, FS_AddElement
<1>2. SlotHolders = {} => n = 0
  BY FS_EmptySet
<1>3. MaxTasks \in Nat /\ queued \in Nat
  BY TaskManagerAssumption DEF Control, TypeOK
<1>4. ~stopping /\ stopping' = stopping
  BY DEF Push
<1>a. /\ Limited /\ hasQueue => queued < MaxTasks
      /\ hasQueue' = (hasQueue \/ Limited)
  BY Zenon DEF Push, HasRoom
<1>b. queued' = IF Limited THEN queued + 1 ELSE queued
  BY Zenon DEF Push
<1>c. Limited <=> MaxTasks > 0
  BY DEF Limited
<1>d. Control /\ QueueIsRight => hasQueue \in BOOLEAN /\ (hasQueue => MaxTasks # 0)
  BY DEF Control, TypeOK, QueueIsRight
<1>5. MaxTasks > 0 => queued = n /\ (hasQueue => queued < MaxTasks)
  BY <1>2, <1>3, <1>4, <1>a, <1>c DEF QueueIsRight, QueueCountsTasks
<1>6. MaxTasks > 0 => hasQueue' /\ queued' = queued + 1
  BY <1>a, <1>b, <1>c
<1>7. MaxTasks = 0 => ~hasQueue' /\ queued' = 0
  BY <1>3, <1>a, <1>b, <1>c, <1>d DEF QueueIsRight
<1>8. MaxTasks > 0 => n < MaxTasks
  <2>1. CASE hasQueue
    BY <2>1, <1>5
  <2>2. CASE ~hasQueue
    BY <2>2, <1>2, <1>3, <1>4 DEF QueueIsRight, QueueCountsTasks
  <2> QED
    BY <2>1, <2>2
<1>9. RoomIsRespected'
  <2> HIDE DEF n, m
  <2>1. MaxTasks > 0 => m <= MaxTasks
    BY <1>1, <1>3, <1>8
  <2> QED
    BY <2>1 DEF m, RoomIsRespected
<1>10. QueueIsRight'
  <2> HIDE DEF n, m
  <2>1. hasQueue' => MaxTasks > 0
    BY <1>3, <1>7
  <2>2. hasQueue' => queued' = m
    BY <1>1, <1>5, <1>6, <2>1
  <2>3. MaxTasks > 0 => hasQueue'
    BY <1>6
  <2>4. ~hasQueue' => queued' = 0
    BY <2>3, <1>7, <1>3
  <2> QED
    BY <2>2, <2>3, <2>4, <1>7, <1>3 DEF m, QueueIsRight, QueueCountsTasks
<1> QED
  BY <1>9, <1>10

\* RemoveTask and Undo: an item and a slot.
LEMMA SlotsRemove ==
  ASSUME Control, QueueIsRight, RoomIsRespected, NEW t \in SlotHolders,
         SlotHolders' = SlotHolders \ {t}, Remove(t), UNCHANGED <<hasQueue, stopping>>
  PROVE  QueueIsRight' /\ RoomIsRespected'
<1> DEFINE n == Cardinality(SlotHolders)
           m == Cardinality(SlotHolders')
<1>1. m = n - 1 /\ n \in Nat
  BY HoldersAreTasks, FS_RemoveElement
<1>2. n > 0
  BY HoldersAreTasks, FS_EmptySet
<1>3. MaxTasks \in Nat /\ queued \in Nat
  BY TaskManagerAssumption DEF Control, TypeOK
<1>4. queued' = IF queued > 0 THEN queued - 1 ELSE 0
  BY DEF Remove
<1>5. hasQueue => queued = n
  BY DEF QueueIsRight, QueueCountsTasks
<1> HIDE DEF n, m
<1>6. hasQueue => queued' = m
  BY <1>1, <1>2, <1>4, <1>5
<1>7. MaxTasks > 0 => m <= MaxTasks
  BY <1>1, <1>3 DEF n, RoomIsRespected
<1>8. ~hasQueue => queued' = 0
  BY <1>4 DEF QueueIsRight
<1>9. hasQueue' = hasQueue /\ stopping' = stopping
  OBVIOUS
<1>10. ~hasQueue /\ ~stopping /\ MaxTasks > 0 => FALSE
  BY DEF QueueIsRight, QueueCountsTasks
<1> QED
  BY <1>6, <1>7, <1>8, <1>9, <1>10 DEF QueueIsRight, QueueCountsTasks, RoomIsRespected, m

\* After Abort no task has a slot, unless a start that failed is yet to be undone.
LEMMA AbortedFreesSlots ==
  ASSUME NoStaleRemoval, Control, Reset, owner = "aborted"
  PROVE  SlotHolders = {}
<1>1. \A c \in Callers : ~Starting(c)
  BY TaskManagerAssumption DEF Control, TypeOK, Reset, NoStaleRemoval, LockFollowsAdder, HasLock, Starting
<1>2. Running = {}
  BY DEF Control, AbortedMeansQuiet
<1> QED
  BY <1>1, <1>2 DEF SlotHolders

LEMMA SlotsOther ==
  ASSUME NoStaleRemoval, Control, QueueIsRight, RoomIsRespected, Other
  PROVE  QueueIsRight' /\ RoomIsRespected'
<1>1. SlotHolders' = SlotHolders
  BY OthersKeepSlots
<1>2. RoomIsRespected'
  BY <1>1 DEF RoomIsRespected
<1>3. CASE UNCHANGED <<hasQueue, queued, stopping>>
  BY <1>1, <1>2, <1>3 DEF QueueIsRight, QueueCountsTasks
<1>4. CASE Close
  BY <1>2, <1>4 DEF Close, QueueIsRight, QueueCountsTasks
<1>5. CASE Reset
  <2>1. UNCHANGED <<hasQueue, queued>>
    BY <1>5 DEF Reset
  <2>2. CASE owner = "up"
    BY <1>1, <1>2, <1>5, <2>1, <2>2 DEF Reset, Control, StoppingFollowsOwner, QueueIsRight, QueueCountsTasks
  <2>3. CASE owner = "aborted"
    <3>1. SlotHolders = {}
      BY <1>5, <2>3, AbortedFreesSlots
    <3>2. ~hasQueue
      BY <2>3 DEF Control, StoppingFollowsOwner
    <3> QED
      BY <1>1, <1>2, <2>1, <3>1, <3>2 DEF QueueIsRight, QueueCountsTasks
  <2> QED
    BY <1>5, <2>2, <2>3 DEF Reset
<1>6. Close \/ Reset \/ UNCHANGED <<hasQueue, queued, stopping>>
  BY DEF Other, StartTask, Acquire, Refuse, PushTimesOut, StartThread, StartThreadFails, Track,
         ThreadStarts, DelayOver, DoRunEnds, Delete, StopTasks, vars
<1> QED
  BY <1>3, <1>4, <1>5, <1>6

LEMMA SlotsNext ==
  NoStaleRemoval /\ Control /\ QueueIsRight /\ RoomIsRespected /\ [Next]_vars => QueueIsRight' /\ RoomIsRespected'
<1> SUFFICES ASSUME NoStaleRemoval, Control, QueueIsRight, RoomIsRespected, [Next]_vars
             PROVE  QueueIsRight' /\ RoomIsRespected'
  OBVIOUS
<1>1. ASSUME NEW c \in Callers, Push(c) PROVE QueueIsRight' /\ RoomIsRespected'
  BY <1>1, SlotsPush
<1>2. ASSUME NEW c \in Callers, Undo(c) PROVE QueueIsRight' /\ RoomIsRespected'
  BY <1>2, UndoFreesASlot, SlotsRemove DEF Undo
<1>3. ASSUME NEW t \in Tasks, RemoveTask(t) PROVE QueueIsRight' /\ RoomIsRespected'
  BY <1>3, RemoveTaskFreesASlot, SlotsRemove DEF RemoveTask
<1>4. CASE Other
  BY <1>4, SlotsOther
<1> QED
  BY <1>1, <1>2, <1>3, <1>4, StepsOfTheManager
-----------------------------------------------------------------------------
(* Theorems                                                                 *)

THEOREM ControlCorrect == Spec => []Control
<1>1. Init => Control
  BY ControlInit
<1>2. Control /\ [Next]_vars => Control'
  BY ControlNext
<1> QED
  BY <1>1, <1>2, PTL DEF Spec

\* The variables of PLT_TaskManager keep their types.
THEOREM TaskManagerTypes == Spec => []TypeOK
<1>1. Control => TypeOK
  BY DEF Control
<1> QED
  BY <1>1, ControlCorrect, PTL

\* m_Tasks holds exactly the tasks that run, but for the one AddTask is starting.
THEOREM ListCorrect == Spec => []ListIsRunningTasks
<1>1. Control => ListIsRunningTasks
  BY DEF Control
<1> QED
  BY <1>1, ControlCorrect, PTL

\* When Abort returns, no thread of a task has RemoveTask (PltTaskManager.cpp:176) ahead
\* of it or is in it; one may still be deleting its task, which the manager has let go of.
THEOREM AbortIsComplete == Spec => []AbortedMeansQuiet
<1>1. Control => AbortedMeansQuiet
  BY DEF Control
<1> QED
  BY <1>1, ControlCorrect, PTL

\* AddTask starts no thread once Abort has set m_Stopping.
THEOREM StartsOnlyWhileOpen == Spec => NothingStartsWhileStopping
<1> DEFINE Quiet(t) == thread[t] = "created" /\ thread'[t] = "starting" => ~stopping
<1>1. Control /\ [Next]_vars => [\A t \in Tasks : Quiet(t)]_vars
  <2> SUFFICES ASSUME Control, [Next]_vars, NEW t \in Tasks, thread[t] = "created", thread'[t] = "starting"
               PROVE  ~stopping
    OBVIOUS
  <2>1. \E c \in Callers : StartThread(c)
    <3>1. ASSUME NEW c \in Callers, AddTask(c), ~StartThread(c) PROVE FALSE
      BY <3>1 DEF Control, TypeOK, AddersHaveTasks, AddTask, Acquire, Refuse, Push, PushTimesOut, StartThreadFails,
                  Track, Undo, Return
    <3>2. ASSUME NEW c \in Callers, NEW u \in Tasks, StartTask(c, u) PROVE FALSE
      BY <3>2 DEF Control, TypeOK, StartTask
    <3>3. ASSUME NEW u \in Tasks, Run(u) PROVE FALSE
      BY <3>3 DEF Control, TypeOK, Run, ThreadStarts, DelayOver, DoRunEnds, RemoveTask, Delete, Move
    <3>4. CASE Close \/ StopTasks \/ Reset \/ UNCHANGED vars
      BY <3>4 DEF Close, StopTasks, Reset, vars
    <3> QED
      BY <3>1, <3>2, <3>3, <3>4 DEF Next
  <2> QED
    BY <2>1 DEF Control, StoppingFollowsOwner, StartThread
<1> QED
  BY <1>1, ControlCorrect, PTL DEF Spec, NothingStartsWhileStopping

THEOREM InvariantCorrect ==
  ASSUME NoStaleRemoval
  PROVE  Spec => []IInv
<1>1. Init => IInv
  <2> SUFFICES ASSUME Init PROVE IInv
    OBVIOUS
  <2>1. QueueIsRight /\ RoomIsRespected
    BY SlotsInit, TaskManagerAssumption DEF Init, QueueIsRight, QueueCountsTasks, RoomIsRespected
  <2> QED
    BY <2>1, ControlInit DEF IInv
<1>2. IInv /\ [Next]_vars => IInv'
  BY ControlNext, SlotsNext DEF IInv
<1> QED
  BY <1>1, <1>2, PTL DEF Spec

\* The queue has one item for each task AddTask let in.
THEOREM QueueCorrect ==
  ASSUME NoStaleRemoval
  PROVE  Spec => []QueueCountsTasks
<1>1. IInv => QueueCountsTasks
  BY DEF IInv, QueueIsRight
<1> QED
  BY <1>1, InvariantCorrect, PTL

\* No more than m_MaxTasks tasks run at a time.
THEOREM LimitCorrect ==
  ASSUME NoStaleRemoval
  PROVE  Spec => []AtMostMaxTasks
<1>1. IInv => AtMostMaxTasks
  <2> SUFFICES ASSUME IInv, MaxTasks > 0 PROVE Cardinality(Running) <= MaxTasks
    BY DEF AtMostMaxTasks
  <2> DEFINE r == Cardinality(Running)
             n == Cardinality(SlotHolders)
  <2>1. IsFiniteSet(SlotHolders) /\ n \in Nat
    BY HoldersAreTasks DEF IInv
  <2>2. r \in Nat /\ r <= n
    BY <2>1, FS_Subset, FS_CardinalityType DEF SlotHolders
  <2>3. n <= MaxTasks
    BY DEF IInv, RoomIsRespected
  <2>4. MaxTasks \in Nat
    BY TaskManagerAssumption
  <2> HIDE DEF r, n
  <2>5. r <= MaxTasks
    BY <2>1, <2>2, <2>3, <2>4
  <2> QED
    BY <2>5 DEF r
<1> QED
  BY <1>1, InvariantCorrect, PTL

\* Each step of the manager is a step of TaskSlots, or changes no slot.
THEOREM SlotsAreImplemented ==
  ASSUME NoStaleRemoval
  PROVE  Spec => ImplementsTaskSlots
<1>1. Init => Slots!Init
  BY SlotsInit DEF Init, Slots!Init
<1>2. IInv /\ [Next]_vars => [Slots!Next]_<<SlotHolders, ~stopping>>
  <2> SUFFICES ASSUME IInv, [Next]_vars PROVE [Slots!Next]_<<SlotHolders, ~stopping>>
    OBVIOUS
  <2>1. ASSUME NEW c \in Callers, Push(c) PROVE Slots!Take(adding[c])
    <3> DEFINE n == Cardinality(SlotHolders)
    <3>1. adding[c] \in Tasks \ SlotHolders /\ SlotHolders' = SlotHolders \union {adding[c]}
      BY <2>1, PushTakesASlot DEF IInv
    <3>2. ~stopping /\ ~stopping'
      BY <2>1 DEF Push
    <3>3. MaxTasks = 0 \/ n < MaxTasks
      <4>1. MaxTasks = 0 \/ (Limited /\ HasRoom)
        <5>1. HasRoom
          BY <2>1 DEF Push
        <5>2. MaxTasks = 0 \/ Limited
          BY TaskManagerAssumption DEF Limited
        <5> QED
          BY <5>1, <5>2
      <4>2. CASE hasQueue
        <5>1. queued = n
          BY <4>2 DEF IInv, QueueIsRight, QueueCountsTasks
        <5>2. MaxTasks = 0 \/ queued < MaxTasks
          BY <4>1, <4>2, Zenon DEF HasRoom
        <5> QED
          BY <5>1, <5>2
      <4>3. CASE ~hasQueue
        <5>1. MaxTasks > 0 => n = 0
          BY <4>3, <3>2, FS_EmptySet DEF IInv, QueueIsRight, QueueCountsTasks
        <5>2. MaxTasks \in Nat
          BY TaskManagerAssumption
        <5> HIDE DEF n
        <5> QED
          BY <5>1, <5>2
      <4> QED
        BY <4>2, <4>3
    <3>4. Slots!HasRoom
      BY <3>3 DEF Slots!HasRoom, Slots!Cardinality, Cardinality
    <3> QED
      BY <3>1, <3>2, <3>4 DEF Slots!Take
  <2>2. ASSUME NEW c \in Callers, Undo(c) PROVE Slots!Free(adding[c]) /\ adding[c] \in Tasks
    <3>1. adding[c] \in SlotHolders /\ SlotHolders' = SlotHolders \ {adding[c]}
      BY <2>2, UndoFreesASlot DEF IInv
    <3>2. adding[c] \in Tasks
      BY <3>1, HoldersAreTasks DEF IInv
    <3> QED
      BY <2>2, <3>1, <3>2 DEF Undo, Slots!Free
  <2>3. ASSUME NEW t \in Tasks, RemoveTask(t) PROVE Slots!Free(t)
    BY <2>3, RemoveTaskFreesASlot DEF IInv, RemoveTask, Slots!Free
  <2>4. ASSUME Other PROVE [Slots!Next]_<<SlotHolders, ~stopping>>
    <3>1. SlotHolders' = SlotHolders
      BY <2>4, OthersKeepSlots DEF IInv
    <3>2. CASE Close
      BY <3>1, <3>2 DEF Close, Slots!Close, Slots!Next
    <3>3. CASE Reset /\ owner = "aborted"
      <4>1. SlotHolders = {}
        BY <3>3, AbortedFreesSlots DEF IInv
      <4> QED
        BY <3>1, <3>3, <4>1 DEF Reset, Slots!Open, Slots!Next
    <3>4. CASE Reset /\ owner = "up"
      BY <3>1, <3>4 DEF Reset, IInv, Control, StoppingFollowsOwner
    <3>5. CASE UNCHANGED stopping
      BY <3>1, <3>5
    <3>6. Close \/ Reset \/ UNCHANGED stopping
      BY <2>4 DEF Other, StartTask, Acquire, Refuse, PushTimesOut, StartThread, StartThreadFails, Track,
             ThreadStarts, DelayOver, DoRunEnds, Delete, StopTasks, vars
    <3> QED
      BY <3>2, <3>3, <3>4, <3>5, <3>6 DEF Reset
  <2>5. ASSUME NEW c \in Callers, Push(c) PROVE Slots!Next
    BY <2>1, <2>5, PushTakesASlot DEF IInv, Slots!Next
  <2>6. ASSUME NEW c \in Callers, Undo(c) PROVE Slots!Next
    BY <2>2, <2>6 DEF Slots!Next
  <2>7. ASSUME NEW t \in Tasks, RemoveTask(t) PROVE Slots!Next
    BY <2>3, <2>7 DEF Slots!Next
  <2> QED
    BY <2>4, <2>5, <2>6, <2>7, StepsOfTheManager
<1> QED
  BY <1>1, <1>2, InvariantCorrect, PTL DEF Spec, ImplementsTaskSlots, Slots!Spec

=============================================================================
