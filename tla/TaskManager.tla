---------------------------- MODULE TaskManager ----------------------------
(***************************************************************************)
(* PLT_TaskManager and the threads of its tasks (PltTaskManager.cpp,        *)
(* PltThreadTask.cpp): callers of StartTask, the threads they start, and    *)
(* the owner, who may abort all tasks and reset the manager.                *)
(*                                                                          *)
(* m_Queue limits the tasks: AddTask pushes an item, RemoveTask pops one.   *)
(* Both are done with m_TasksLock held, so nobody pops while a Push waits   *)
(* for room and nobody pushes while a Pop waits for an item: each succeeds  *)
(* at once or runs into its timeout.  AddTask is modelled in steps because  *)
(* it keeps the lock over the 20 ms of Push and until the thread has begun; *)
(* RemoveTask and the sections of Abort and Reset are one step under it.    *)
(***************************************************************************)
EXTENDS Naturals, FiniteSets

CONSTANTS
  Tasks,         \* task objects; one is free to be created again once deleted
  Callers,       \* threads that call StartTask
  Nobody,        \* the holder of a free lock, the task of an idle caller
  MaxTasks,      \* m_MaxTasks; 0: no limit
  StaleRemovals  \* whether the owner may call Reset while AddTask has still to
                 \*   remove a task whose thread could not be started

ASSUME TaskManagerAssumption ==
  /\ IsFiniteSet(Tasks) /\ Nobody \notin Tasks /\ Nobody \notin Callers
  /\ MaxTasks \in Nat /\ StaleRemovals \in BOOLEAN

VARIABLES
  lock,      \* m_TasksLock: the caller that holds it between steps, or Nobody
  stopping,  \* m_Stopping
  hasQueue,  \* m_Queue is not NULL
  queued,    \* the number of items in m_Queue
  tasks,     \* m_Tasks
  adder,     \* where each caller is in AddTask
  adding,    \* the task it adds
  thread,    \* each task object and its thread
  aborted,   \* each task's m_Abort
  owner      \* where the owner is in Abort

vars == <<lock, stopping, hasQueue, queued, tasks, adder, adding, thread, aborted, owner>>

\* "created": in AddTask.  "starting": its thread exists.  "waiting": it has set
\* m_Started.  "leaving": its DoRun is over.  "deleting": out of the manager.
Stages == {"none", "created", "starting", "waiting", "doing", "leaving", "deleting"}
Alive == {"starting", "waiting", "doing", "leaving"}

\* A caller has the lock in "test", "start" and "starting"; "undo" is the
\* RemoveTask of a task whose thread could not be started.
AdderSteps == {"idle", "lock", "test", "start", "starting", "undo"}

Running == {t \in Tasks : thread[t] \in Alive}
Starting(c) == adder[c] \in {"start", "undo"}

\* Tasks that AddTask has let in and RemoveTask has not let go.
SlotHolders == Running \union {adding[c] : c \in {d \in Callers : Starting(d)}}

Limited == MaxTasks > 0
HasRoom == Limited /\ hasQueue => queued < MaxTasks
-----------------------------------------------------------------------------
Init ==
  /\ lock = Nobody /\ stopping = FALSE /\ hasQueue = FALSE /\ queued = 0 /\ tasks = {}
  /\ adder = [c \in Callers |-> "idle"]
  /\ adding = [c \in Callers |-> Nobody]
  /\ thread = [t \in Tasks |-> "none"]
  /\ aborted = [t \in Tasks |-> FALSE]
  /\ owner = "up"

\* StartTask and PLT_ThreadTask::Start, up to AddTask.
StartTask(c, t) ==
  /\ adder[c] = "idle" /\ thread[t] = "none"
  /\ adder' = [adder EXCEPT ![c] = "lock"]
  /\ adding' = [adding EXCEPT ![c] = t]
  /\ thread' = [thread EXCEPT ![t] = "created"]
  /\ aborted' = [aborted EXCEPT ![t] = FALSE]
  /\ UNCHANGED <<lock, stopping, hasQueue, queued, tasks, owner>>

Acquire(c) ==
  /\ adder[c] = "lock" /\ lock = Nobody
  /\ lock' = c
  /\ adder' = [adder EXCEPT ![c] = "test"]
  /\ UNCHANGED <<stopping, hasQueue, queued, tasks, adding, thread, aborted, owner>>

\* AddTask is over: the caller is idle again.
Return(c) ==
  /\ adder' = [adder EXCEPT ![c] = "idle"]
  /\ adding' = [adding EXCEPT ![c] = Nobody]

\* The manager is stopping: the task is deleted.
Refuse(c) ==
  /\ adder[c] = "test" /\ stopping
  /\ lock' = Nobody
  /\ Return(c)
  /\ thread' = [thread EXCEPT ![adding[c]] = "none"]
  /\ UNCHANGED <<stopping, hasQueue, queued, tasks, aborted, owner>>

\* Mutant: the queue is one too long.
PushOneMore(c) ==
  /\ adder[c] = "test" /\ ~stopping
  /\ adder' = [adder EXCEPT ![c] = "start"]
  /\ queued <= MaxTasks
  /\ hasQueue' = (hasQueue \/ Limited)
  /\ queued' = IF Limited THEN queued + 1 ELSE queued
  /\ UNCHANGED <<lock, stopping, tasks, adding, thread, aborted, owner>>

\* There is no limit, or Push finds room.  The queue is created on first use.
Push(c) ==
  /\ adder[c] = "test" /\ ~stopping
  /\ adder' = [adder EXCEPT ![c] = "start"]
  /\ HasRoom
  /\ hasQueue' = (hasQueue \/ Limited)
  /\ queued' = IF Limited THEN queued + 1 ELSE queued
  /\ UNCHANGED <<lock, stopping, tasks, adding, thread, aborted, owner>>

\* Mutant: the lock is kept between two attempts.
PushKeepsLock(c) ==
  /\ adder[c] = "test" /\ ~stopping /\ ~HasRoom
  /\ UNCHANGED vars

\* 20 ms without room: the lock is released, to give others a chance.
PushTimesOut(c) ==
  /\ adder[c] = "test" /\ ~stopping /\ ~HasRoom
  /\ lock' = Nobody
  /\ adder' = [adder EXCEPT ![c] = "lock"]
  /\ UNCHANGED <<stopping, hasQueue, queued, tasks, adding, thread, aborted, owner>>

\* Mutant: the lock is released before the thread has begun.
StartThreadUnlocked(c) ==
  /\ adder[c] = "start"
  /\ lock' = Nobody
  /\ adder' = [adder EXCEPT ![c] = "starting"]
  /\ thread' = [thread EXCEPT ![adding[c]] = "starting"]
  /\ UNCHANGED <<stopping, hasQueue, queued, tasks, adding, aborted, owner>>

\* PLT_ThreadTask::StartThread creates the thread and waits for m_Started.
StartThread(c) ==
  /\ adder[c] = "start"
  /\ adder' = [adder EXCEPT ![c] = "starting"]
  /\ thread' = [thread EXCEPT ![adding[c]] = "starting"]
  /\ UNCHANGED <<lock, stopping, hasQueue, queued, tasks, adding, aborted, owner>>

StartThreadFails(c) ==
  /\ adder[c] = "start"
  /\ lock' = Nobody
  /\ adder' = [adder EXCEPT ![c] = "undo"]
  /\ UNCHANGED <<stopping, hasQueue, queued, tasks, adding, thread, aborted, owner>>

\* The thread has begun: the task is tracked and AddTask returns.
Track(c) ==
  /\ adder[c] = "starting" /\ thread[adding[c]] # "starting"
  /\ tasks' = tasks \union {adding[c]}
  /\ lock' = Nobody
  /\ Return(c)
  /\ UNCHANGED <<stopping, hasQueue, queued, thread, aborted, owner>>

\* Mutant: an item is taken although there is no queue.
RemoveUnguarded(t) ==
  /\ lock = Nobody
  /\ queued' = queued - 1
  /\ tasks' = tasks \ {t}

\* RemoveTask, under the lock.  Pop gives up after 100 ms on an empty queue.
Remove(t) ==
  /\ lock = Nobody
  /\ queued' = IF queued > 0 THEN queued - 1 ELSE 0
  /\ tasks' = tasks \ {t}

\* Mutant: the task is deleted, its slot is kept.
UndoWithoutPop(c) ==
  /\ adder[c] = "undo" /\ lock = Nobody
  /\ thread' = [thread EXCEPT ![adding[c]] = "none"]
  /\ Return(c)
  /\ UNCHANGED <<lock, stopping, hasQueue, queued, tasks, aborted, owner>>

\* AddTask removes the task whose thread was not started.
Undo(c) ==
  /\ adder[c] = "undo"
  /\ Remove(adding[c])
  /\ thread' = [thread EXCEPT ![adding[c]] = "none"]
  /\ Return(c)
  /\ UNCHANGED <<lock, stopping, hasQueue, aborted, owner>>
-----------------------------------------------------------------------------
(* PLT_ThreadTask::Run                                                      *)

Move(t, from, to) ==
  /\ thread[t] = from
  /\ thread' = [thread EXCEPT ![t] = to]

\* m_Started.SetValue(1)
ThreadStarts(t) ==
  /\ Move(t, "starting", "waiting")
  /\ UNCHANGED <<lock, stopping, hasQueue, queued, tasks, adder, adding, aborted, owner>>

\* The delay, if any, is over or cut short; an aborted task does nothing.
DelayOver(t) ==
  /\ Move(t, "waiting", IF aborted[t] THEN "leaving" ELSE "doing")
  /\ UNCHANGED <<lock, stopping, hasQueue, queued, tasks, adder, adding, aborted, owner>>

DoRunEnds(t) ==
  /\ Move(t, "doing", "leaving")
  /\ UNCHANGED <<lock, stopping, hasQueue, queued, tasks, adder, adding, aborted, owner>>

\* Mutant: the list is not changed.
RemoveTaskFromQueueOnly(t) ==
  /\ lock = Nobody
  /\ Move(t, "leaving", "deleting")
  /\ queued' = IF queued > 0 THEN queued - 1 ELSE 0
  /\ UNCHANGED <<lock, stopping, hasQueue, tasks, adder, adding, aborted, owner>>

RemoveTask(t) ==
  /\ Move(t, "leaving", "deleting")
  /\ Remove(t)
  /\ UNCHANGED <<lock, stopping, hasQueue, adder, adding, aborted, owner>>

\* The task is deleted, without the lock.
Delete(t) ==
  /\ Move(t, "deleting", "none")
  /\ UNCHANGED <<lock, stopping, hasQueue, queued, tasks, adder, adding, aborted, owner>>
-----------------------------------------------------------------------------
(* Abort and Reset                                                          *)

\* Mutant: Abort does not take the lock to stop the manager.
CloseWithoutLock ==
  /\ owner \in {"up", "aborting"}
  /\ stopping' = TRUE /\ hasQueue' = FALSE /\ queued' = 0
  /\ owner' = "closed"
  /\ UNCHANGED <<lock, tasks, adder, adding, thread, aborted>>

\* The first section of Abort: no task is added any more.
Close ==
  /\ owner \in {"up", "aborting"} /\ lock = Nobody
  /\ stopping' = TRUE /\ hasQueue' = FALSE /\ queued' = 0
  /\ owner' = "closed"
  /\ UNCHANGED <<lock, tasks, adder, adding, thread, aborted>>

\* Mutant: Abort returns without waiting for the tasks.
StopTasksOnce ==
  /\ owner = "closed" /\ lock = Nobody
  /\ aborted' = [t \in Tasks |-> aborted[t] \/ t \in tasks]
  /\ owner' = "aborted"
  /\ UNCHANGED <<lock, stopping, hasQueue, queued, tasks, adder, adding, thread>>

\* The second: running tasks are told to stop.  Abort sleeps and starts again
\* until none is left.
StopTasks ==
  /\ owner = "closed" /\ lock = Nobody
  /\ aborted' = [t \in Tasks |-> aborted[t] \/ t \in tasks]
  /\ owner' = IF tasks = {} THEN "aborted" ELSE "aborting"
  /\ UNCHANGED <<lock, stopping, hasQueue, queued, tasks, adder, adding, thread>>

\* Nothing in this program calls Reset.  A removal it overtakes would pop an item of
\* the queue made after it (PltTaskManager.cpp:188): see StaleRemovals.
Reset ==
  /\ StaleRemovals \/ \A c \in Callers : adder[c] # "undo"
  /\ owner \in {"up", "aborted"} /\ lock = Nobody
  /\ stopping' = FALSE
  /\ owner' = "up"
  /\ UNCHANGED <<lock, hasQueue, queued, tasks, adder, adding, thread, aborted>>
-----------------------------------------------------------------------------
AddTask(c) ==
  \/ Acquire(c) \/ Refuse(c) \/ Push(c) \/ PushTimesOut(c)
  \/ StartThread(c) \/ StartThreadFails(c) \/ Track(c) \/ Undo(c)

Run(t) == ThreadStarts(t) \/ DelayOver(t) \/ DoRunEnds(t) \/ RemoveTask(t) \/ Delete(t)

Next ==
  \/ \E c \in Callers, t \in Tasks : StartTask(c, t)
  \/ \E c \in Callers : AddTask(c)
  \/ \E t \in Tasks : Run(t)
  \/ Close \/ StopTasks \/ Reset

(***************************************************************************)
(* Every thread keeps running.  A mutex promises no more: one who waits for *)
(* it while others lock it again and again may wait for ever (m_TasksLock   *)
(* is a pthread mutex), so the fairness is weak, of the lock's steps too.   *)
(* A task ends when it is aborted; others may run for ever, as the task     *)
(* that listens for connections does.                                       *)
(***************************************************************************)
Fairness ==
  /\ \A c \in Callers :
       /\ WF_vars(Acquire(c)) /\ WF_vars(Undo(c))
       /\ WF_vars(Refuse(c) \/ Push(c) \/ PushTimesOut(c) \/ StartThread(c) \/ Track(c))
  /\ \A t \in Tasks :
       /\ WF_vars(ThreadStarts(t)) /\ WF_vars(DelayOver(t)) /\ WF_vars(Delete(t))
       /\ WF_vars(aborted[t] /\ DoRunEnds(t))
       /\ WF_vars(RemoveTask(t))
  /\ WF_vars(owner = "aborting" /\ Close) /\ WF_vars(StopTasks)

Spec == Init /\ [][Next]_vars /\ Fairness

-----------------------------------------------------------------------------
(* Properties                                                               *)

\* Every variable has its type.  Names the state of PLT_TaskManager.
TypeOK ==
  /\ lock \in Callers \union {Nobody}
  /\ stopping \in BOOLEAN /\ hasQueue \in BOOLEAN /\ queued \in Nat
  /\ tasks \subseteq Tasks
  /\ adder \in [Callers -> AdderSteps]
  /\ adding \in [Callers -> Tasks \union {Nobody}]
  /\ thread \in [Tasks -> Stages]
  /\ aborted \in [Tasks -> BOOLEAN]
  /\ owner \in {"up", "closed", "aborting", "aborted"}

\* No more than MaxTasks tasks run at a time, whatever is aborted and reset in
\* between (AddTask, RemoveTask, Abort).
AtMostMaxTasks == MaxTasks > 0 => Cardinality(Running) <= MaxTasks

\* The queue of an open manager has an item for each task that was let in: no slot
\* is lost, and RemoveTask never waits for an item in vain with the lock held.
QueueCountsTasks ==
  /\ hasQueue => queued = Cardinality(SlotHolders)
  /\ ~hasQueue /\ ~stopping /\ MaxTasks > 0 => SlotHolders = {}

\* Abort stops and waits for what is in m_Tasks: every pointer in it is to a task
\* that exists, and every running task is in it unless AddTask still holds the lock.
ListIsRunningTasks ==
  /\ tasks \subseteq Running
  /\ \A t \in Running \ tasks : \E c \in Callers : lock = c /\ adder[c] = "starting" /\ adding[c] = t

\* When Abort returns no thread of a task is before the end of its RemoveTask, nor is
\* one until Reset.  (A thread may still be deleting its task, out of the manager's
\* hands: Abort does not wait for that.)
AbortedMeansQuiet == owner = "aborted" => Running = {}

\* A thread is started only while the manager is not stopping, although m_Stopping
\* is tested two steps before (AddTask).
NothingStartsWhileStopping ==
  [][\A t \in Tasks : thread[t] = "created" /\ thread'[t] = "starting" => ~stopping]_vars

\* Abort returns if callers stop coming.  An HTTP server's are the thread that starts
\* and stops it and its listening task, which Abort ends like any other.
CallersStop == <>[][\A c \in Callers, t \in Tasks : ~StartTask(c, t)]_vars
AbortReturns == CallersStop => (owner = "closed" ~> owner = "aborted")

\* Nobody keeps m_TasksLock for good: a caller without room releases it every 20 ms,
\* and one that waits for the thread it has started with the lock held gets it.
LockIsReleased == []<>(lock = Nobody)

(***************************************************************************)
(* What the code does not do.                                               *)
(* PltTaskManager.h:66-67 says of the limit: "When the value is reached, a  *)
(* thread calling AddTask will block until a task has finished."  So once   *)
(* one has, a caller that need not share the room with others stops         *)
(* blocking.                                                                *)
(***************************************************************************)
AloneFromSomeTimeOn(c) == <>[](\A d \in Callers \ {c} : adder[d] = "idle")
BlockedUntilATaskFinishes ==
  \A c \in Callers :
    AloneFromSomeTimeOn(c) =>
      (adder[c] = "lock" /\ (\E t \in Tasks : thread[t] = "leaving") ~> adder[c] \notin {"lock", "test"})

\* The manager gives out slots as TaskSlots says.
Slots == INSTANCE TaskSlots WITH slots <- SlotHolders, open <- ~stopping
ImplementsTaskSlots == Slots!Spec
=============================================================================
