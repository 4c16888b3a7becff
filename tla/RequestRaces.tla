---------------------------- MODULE RequestRaces ----------------------------
(***************************************************************************)
(* RendererManager's map of clients is shared by one thread per connection, *)
(* with no lock, over several calls (manager.cpp:41-51, 94-98).  This       *)
(* module adds to RequestHandling a history variable that says whether two  *)
(* threads have raced for it, and states what _clients keeps, with any      *)
(* number of threads, until they do.                                        *)
(***************************************************************************)
EXTENDS RequestHandling

VARIABLE raced

racesVars == <<vars, raced>>

\* From the miss of find(addr) to the end of _clients[addr] = def.
Window == {"findHeaders", "defaultRenderer", "locate", "link", "assign"}

(***************************************************************************)
(* Task t uses the map when it should not have: while u relinks the tree, or *)
(* looking up an address that is, to the comparator, the one that u has      *)
(* missed and may be about to bind.                                         *)
(***************************************************************************)
Races(t, u) ==
  /\ t # u
  /\ pc[t] \in {"findAddress", "locate", "link"} /\ pc'[t] # pc[t]
  /\ \/ pc[u] = "link"
     \/ pc[t] = "findAddress" /\ pc[u] \in Window /\ Equivalent(client[t], client[u])

\* The tasks that have made a copy of the default configuration and not bound it yet.
Binders == {t \in Tasks : pc[t] \in {"locate", "link", "assign"}}

RacesInit == Init /\ raced = FALSE
RacesNext == Next /\ raced' = (raced \/ \E t, u \in Tasks : Races(t, u))
RacesSpec == RacesInit /\ [][RacesNext]_racesVars
-----------------------------------------------------------------------------
(* Properties                                                               *)

\* A binding is changed or lost (manager.cpp:97) only by a race.
BindingsAreStable ==
  [][~raced' =>
       \A i \in DOMAIN clients :
         clients[i].value # 0 =>
           \E j \in DOMAIN clients' : clients'[j] = clients[i]]_racesVars

\* Until a race every copy of the default configuration (manager.cpp:96) stays
\* reachable: from _clients, or from the task that is about to put it there.  (Copies
\* made by find(headers) are reachable only until the request is answered: nothing
\* deletes them.)
DefaultCopiesStayReachable ==
  ~raced =>
    \A c \in DOMAIN copies :
      copies[c] = 0 =>
        \/ \E i \in DOMAIN clients : clients[i].value = c
        \/ \E t \in Binders : renderer[t] = c

\* Nobody dies of a null renderer (requests.cpp:23) but in a race: with no two
\* equivalent addresses in the making at a time, a request never gets nullptr.
NullRendererIsARace == crashed = "null renderer" => raced

\* The nodes whose value is set (manager.cpp:97) implement an abstract write-once map
\* for callers that do not race.
Bindings == INSTANCE ClientBindings WITH
  Renderer <- 1 .. MaxRequests,
  misused <- raced,
  bound <- [a \in {e.key : e \in {x \in ToSet(clients) : x.value # 0}} |->
              (CHOOSE e \in ToSet(clients) : e.key = a).value]
ImplementsClientBindings == Bindings!Spec
-----------------------------------------------------------------------------
(* What makes them inductive                                                *)

\* No two tasks are between a miss and the end of a binding with equivalent clients...
WindowsAreApart ==
  \A t, u \in Tasks :
    t # u /\ pc[t] \in Window /\ pc[u] \in Window => ~Equivalent(client[t], client[u])

\* ... so from a miss to the link of its node, no node is equivalent to the client.
MissIsRemembered ==
  \A t \in Tasks :
    pc[t] \in Window \ {"assign"} =>
      \A i \in DOMAIN clients : ~Equivalent(client[t], clients[i].key)

\* The value of a node is the renderer it was made for, but for one not assigned yet.
BeingAssigned(n) == \E t \in Tasks : pc[t] = "assign" /\ renderer[t] = n
NodesHoldTheirRenderers ==
  \A i \in DOMAIN clients :
    clients[i].value = IF BeingAssigned(clients[i].node) THEN 0 ELSE clients[i].node

\* No two nodes are made for one renderer, and no two tasks bind the same.
NodesDiffer == \A i, j \in DOMAIN clients : clients[i].node = clients[j].node => i = j
BindersDiffer == \A t, u \in Binders : renderer[t] = renderer[u] => t = u

\* A renderer gets its node when it is linked; the task that assigns has linked it.
RendererIsFresh ==
  \A t \in Tasks :
    /\ pc[t] \in {"locate", "link"} => \A i \in DOMAIN clients : clients[i].node # renderer[t]
    /\ pc[t] = "assign" =>
         /\ target[t] = renderer[t]
         /\ \E i \in DOMAIN clients : clients[i].node = renderer[t] /\ clients[i].key = client[t]

\* Every copy of the default configuration has a node, or is about to get one.
DefaultsHaveNodes ==
  \A c \in DOMAIN copies :
    copies[c] = 0 => \/ \E i \in DOMAIN clients : clients[i].node = c
                     \/ \E t \in Binders : renderer[t] = c

\* Whoever gets through the look-ups has a renderer.
RendererIsFound == \A t \in Tasks : pc[t] = "route" => renderer[t] # 0

\* A request makes one copy at most.
CopiesPending == {t \in Tasks : pc[t] \in {"start", "findAddress", "findHeaders", "defaultRenderer"}}
CopiesAreCounted == Len(copies) + Cardinality(CopiesPending) <= requests

(***************************************************************************)
(* What is so until two threads race.  find(addr) misses (manager.cpp:43)   *)
(* and operator[] searches again (manager.cpp:97), and neither knows of the *)
(* other: that the second search misses too, and so a fresh node is linked, *)
(* takes all of it.                                                         *)
(***************************************************************************)
RaceFree ==
  /\ ~torn
  /\ WindowsAreApart /\ MissIsRemembered
  /\ NodesHoldTheirRenderers /\ NodesDiffer
  /\ BindersDiffer /\ RendererIsFresh /\ DefaultsHaveNodes /\ RendererIsFound

RacesInv == raced \in BOOLEAN /\ (~raced => RaceFree) /\ CopiesAreCounted
=============================================================================
