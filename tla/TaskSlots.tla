----------------------------- MODULE TaskSlots -----------------------------
(***************************************************************************)
(* What PLT_TaskManager promises (PltTaskManager.h): at most MaxTasks tasks *)
(* have a slot at any time (0: no limit), a stopped manager gives out no    *)
(* slot, and it is opened again only when every slot is free.               *)
(***************************************************************************)
EXTENDS Naturals, FiniteSets

CONSTANTS Tasks, MaxTasks

VARIABLES slots, open

Init == slots = {} /\ open = TRUE

HasRoom == MaxTasks = 0 \/ Cardinality(slots) < MaxTasks

Take(t) == open /\ HasRoom /\ t \notin slots /\ slots' = slots \union {t} /\ UNCHANGED open
Free(t) == t \in slots /\ slots' = slots \ {t} /\ UNCHANGED open
Close   == open' = FALSE /\ UNCHANGED slots
Open    == slots = {} /\ open' = TRUE /\ UNCHANGED slots

Next == (\E t \in Tasks : Take(t) \/ Free(t)) \/ Close \/ Open

Spec == Init /\ [][Next]_<<slots, open>>
=============================================================================
