-------------------------- MODULE RequestRacesProofs --------------------------
(***************************************************************************)
(* Theorems about RequestRaces: what RendererManager's map of clients keeps *)
(* until two threads race for it, for any number of threads, addresses,     *)
(* configurations and requests.                                             *)
(***************************************************************************)
EXTENDS RequestRaces, RequestHandlingProofs

\* No thread races in this step.
NoRace == \A t, u \in Tasks : ~Races(t, u)

\* A step of task t alone.
OthersStay(t) ==
  \A u \in Tasks \ {t} : /\ pc'[u] = pc[u] /\ client'[u] = client[u]
                         /\ renderer'[u] = renderer[u] /\ target'[u] = target[u]

\* No other task is binding an address equivalent to a, and none is bound.
IsFreeFor(a, t) ==
  /\ \A u \in Tasks \ {t} : pc[u] \in Window => ~Equivalent(a, client[u])
  /\ \A i \in DOMAIN clients : ~Equivalent(a, clients[i].key)

\* What the steps below need to know of a state.
LEMMA RacesFacts ==
  ASSUME IInv, RaceFree
  PROVE  /\ TypeInv /\ torn = FALSE
         /\ Keyed(clients) /\ IsChain(clients) /\ clients \in Seq(Entry)
         /\ Len(clients) \in Nat /\ DOMAIN clients = 1 .. Len(clients)
         /\ Len(copies) \in Nat /\ DOMAIN copies = 1 .. Len(copies)
         /\ pc \in [Tasks -> Labels] /\ renderer \in [Tasks -> 0 .. Len(copies)]
         /\ target \in [Tasks -> 0 .. Len(copies)]
         /\ client \in [Tasks -> Address \union {NoClient}]
         /\ \A i \in DOMAIN clients : clients[i].node \in 1 .. Len(copies)
<1>1. TypeInv /\ TypeOK /\ ClientsFormAChain
  BY DEF IInv, TypeInv
<1>2. torn = FALSE
  BY <1>1 DEF RaceFree, TypeOK
<1>3. Keyed(clients) /\ Len(clients) \in Nat /\ DOMAIN clients = 1 .. Len(clients)
  BY <1>1, ClientsAreKeyed
<1>4. IsChain(clients)
  BY <1>1, <1>2 DEF ClientsFormAChain
<1>5. Len(copies) \in Nat /\ DOMAIN copies = 1 .. Len(copies)
  BY <1>1, LenProperties DEF TypeOK
<1>6. /\ pc \in [Tasks -> Labels] /\ renderer \in [Tasks -> 0 .. Len(copies)]
      /\ target \in [Tasks -> 0 .. Len(copies)] /\ clients \in Seq(Entry)
      /\ client \in [Tasks -> Address \union {NoClient}]
  BY <1>1 DEF TypeOK
<1>7. \A i \in DOMAIN clients : clients[i].node \in 1 .. Len(copies)
  <2>1. \A i \in DOMAIN clients : clients[i] \in Entry
    BY <1>3, <1>6, ElementOfSeq
  <2>2. QED
    BY <2>1 DEF Entry
<1>8. QED
  BY <1>1, <1>2, <1>3, <1>4, <1>5, <1>6, <1>7

LEMMA EquivalentIsSymmetric == ASSUME NEW a, NEW b, Equivalent(a, b) PROVE Equivalent(b, a)
BY DEF Equivalent

-----------------------------------------------------------------------------
(* What a step of one task leaves to the others                             *)

\* Windows stay apart if the task that moves is apart from the others.
LEMMA WindowsStayApart ==
  ASSUME WindowsAreApart, NEW t \in Tasks, OthersStay(t),
         pc'[t] \in Window => \A u \in Tasks \ {t} : pc[u] \in Window => ~Equivalent(client'[t], client[u])
  PROVE  WindowsAreApart'
<1> SUFFICES ASSUME NEW u \in Tasks, NEW v \in Tasks, u # v, pc'[u] \in Window, pc'[v] \in Window
             PROVE  ~Equivalent(client'[u], client'[v])
  BY DEF WindowsAreApart, Equivalent, Less
<1>1. CASE u = t
  BY <1>1 DEF OthersStay
<1>2. CASE v = t
  BY <1>2, EquivalentIsSymmetric DEF OthersStay
<1>3. CASE u # t /\ v # t
  BY <1>3 DEF OthersStay, WindowsAreApart
<1>4. QED
  BY <1>1, <1>2, <1>3

\* Values stay right if the map does and the task that moves assigns none.
LEMMA HoldersStay ==
  ASSUME NodesHoldTheirRenderers, clients' = clients, NEW t \in Tasks, OthersStay(t),
         pc[t] # "assign", pc'[t] # "assign"
  PROVE  NodesHoldTheirRenderers'
<1> SUFFICES ASSUME NEW i \in DOMAIN clients
             PROVE  clients[i].value = IF \E u \in Tasks : pc'[u] = "assign" /\ renderer'[u] = clients[i].node
                                       THEN 0 ELSE clients[i].node
  BY DEF NodesHoldTheirRenderers, BeingAssigned
<1>1. (\E u \in Tasks : pc'[u] = "assign" /\ renderer'[u] = clients[i].node) <=> BeingAssigned(clients[i].node)
  BY DEF BeingAssigned, OthersStay
<1>2. clients[i].value = IF BeingAssigned(clients[i].node) THEN 0 ELSE clients[i].node
  BY DEF NodesHoldTheirRenderers
<1>3. QED
  BY <1>1, <1>2

\* The map and the copies stay, and the task is not binding a client before or after.
LEMMA QuietStep ==
  ASSUME RaceFree, NEW t \in Tasks, OthersStay(t), UNCHANGED <<clients, copies, torn>>,
         t \notin Binders, t \notin Binders',
         pc'[t] \in Window => IsFreeFor(client'[t], t),
         pc'[t] = "route" => renderer'[t] # 0
  PROVE  RaceFree'
<1>1. /\ pc[t] \notin {"locate", "link", "assign"} /\ pc'[t] \notin {"locate", "link", "assign"}
      /\ Binders' = Binders
  BY DEF Binders, OthersStay
<1>2. WindowsAreApart'
  BY WindowsStayApart DEF RaceFree, IsFreeFor
<1>3. MissIsRemembered'
  BY DEF RaceFree, MissIsRemembered, OthersStay, IsFreeFor, Equivalent, Less
<1>4. NodesHoldTheirRenderers'
  BY <1>1, HoldersStay DEF RaceFree
<1>5. NodesDiffer' /\ BindersDiffer' /\ DefaultsHaveNodes'
  BY <1>1 DEF RaceFree, NodesDiffer, BindersDiffer, DefaultsHaveNodes, Binders, OthersStay
<1>6. RendererIsFresh' /\ RendererIsFound'
  BY <1>1 DEF RaceFree, RendererIsFresh, RendererIsFound, OthersStay
<1>7. QED
  BY <1>2, <1>3, <1>4, <1>5, <1>6 DEF RaceFree

-----------------------------------------------------------------------------
(* Each step keeps what is so until a race                                  *)

\* A search without a race is not disturbed.
LEMMA SearchesAlone ==
  ASSUME IInv, RaceFree, NoRace, NEW t \in Tasks,
         pc[t] \in {"findAddress", "locate", "link"}, pc'[t] # pc[t]
  PROVE  ~Disturbed(t) /\ \A u \in Tasks \ {t} : pc[u] # "link"
<1>1. \A u \in Tasks \ {t} : pc[u] # "link"
  BY DEF NoRace, Races
<1>2. QED
  BY <1>1 DEF RaceFree, Disturbed

\* The steps around the connection leave the window alone.
LEMMA ConnectionStep ==
  ASSUME IInv, RaceFree, NEW t \in Tasks,
         Accept(t) \/ ReadRequest(t) \/ Disconnect(t) \/ SetupResponse(t) \/ Respond(t)
  PROVE  RaceFree'
<1>1. /\ pc[t] \in {"idle", "reading", "start", "route"}
      /\ pc'[t] \in {"idle", "reading", "start", "findAddress"}
      /\ UNCHANGED <<clients, copies, torn>>
  <2>1. pc \in [Tasks -> Labels]
    BY RacesFacts
  <2>2. CASE Accept(t) \/ ReadRequest(t)
    BY <2>1, <2>2 DEF Accept, ReadRequest, Step, mapVars
  <2>3. CASE Disconnect(t) \/ SetupResponse(t)
    BY <2>1, <2>3 DEF Disconnect, SetupResponse, Step, mapVars
  <2>4. CASE Respond(t)
    BY <2>1, <2>4 DEF Respond, Step, mapVars
  <2>5. QED
    BY <2>2, <2>3, <2>4
<1>2. OthersStay(t)
  BY RacesFacts DEF Accept, ReadRequest, Disconnect, SetupResponse, Respond, Step, mapVars, taskVars, OthersStay
<1>3. t \notin Binders /\ t \notin Binders' /\ pc'[t] \notin Window /\ pc'[t] # "route"
  BY <1>1 DEF Binders, Window
<1>4. QED
  BY <1>1, <1>2, <1>3, QuietStep

\* find(addr) finds a node whose value is set: whoever is about to set the value of an
\* equivalent one is in its window.
LEMMA FindAddressHitStep ==
  ASSUME IInv, RaceFree, NoRace, NEW t \in Tasks, FindAddressHit(t)
  PROVE  RaceFree'
<1>1. /\ pc[t] = "findAddress" /\ pc'[t] = "route"
      /\ UNCHANGED <<clients, copies, torn>> /\ OthersStay(t)
  BY RacesFacts DEF FindAddressHit, Step, mapVars, taskVars, OthersStay
<1>2. PICK g \in SearchResults(t) : Hit(clients, client[t], g) /\ renderer' = [renderer EXCEPT ![t] = clients[g[2]].value]
  BY DEF FindAddressHit
<1>3. g[2] \in DOMAIN clients /\ Equivalent(client[t], clients[g[2]].key)
  BY <1>2, RacesFacts, HitIsEquivalent
<1>4. ~BeingAssigned(clients[g[2]].node)
  <2> SUFFICES ASSUME NEW u \in Tasks, pc[u] = "assign", renderer[u] = clients[g[2]].node PROVE FALSE
    BY DEF BeingAssigned
  <2>1. PICK i \in DOMAIN clients : clients[i].node = renderer[u] /\ clients[i].key = client[u]
    BY DEF RaceFree, RendererIsFresh
  <2>2. i = g[2]
    BY <1>3, <2>1 DEF RaceFree, NodesDiffer
  <2>3. Equivalent(client[t], client[u])
    BY <1>3, <2>1, <2>2
  <2>4. QED
    BY <1>1, <2>3 DEF NoRace, Races, Window
<1>5. renderer'[t] # 0
  <2>1. clients[g[2]].value = clients[g[2]].node
    BY <1>3, <1>4 DEF RaceFree, NodesHoldTheirRenderers
  <2>3. clients[g[2]].node \in 1 .. Len(copies) /\ Len(copies) \in Nat
    BY <1>3, RacesFacts
  <2>2. QED
    BY <1>2, <2>1, <2>3, RacesFacts
<1>6. t \notin Binders /\ t \notin Binders' /\ pc'[t] \notin Window
  BY <1>1 DEF Binders, Window
<1>7. QED
  BY <1>1, <1>5, <1>6, QuietStep

\* find(addr) misses only a client no node is equivalent to, as the tree is a chain,
\* and one that nobody else has missed and may be about to bind.
LEMMA FindAddressMissStep ==
  ASSUME IInv, RaceFree, NoRace, NEW t \in Tasks, FindAddressMiss(t)
  PROVE  RaceFree'
<1>1. /\ pc[t] = "findAddress" /\ pc'[t] = "findHeaders" /\ client' = client
      /\ UNCHANGED <<clients, copies, torn>> /\ OthersStay(t)
  BY RacesFacts DEF FindAddressMiss, Step, mapVars, taskVars, OthersStay
<1>2. \A i \in DOMAIN clients : ~Equivalent(client[t], clients[i].key)
  <2>1. PICK g \in SearchResults(t) : ~Hit(clients, client[t], g)
    BY DEF FindAddressMiss
  <2>2. ~Disturbed(t)
    BY <1>1, SearchesAlone
  <2>3. g \in Gaps(clients, client[t])
    BY <2>1, <2>2 DEF SearchResults
  <2>4. client[t] \in Address
    BY <1>1, RacesFacts DEF TypeInv, TasksAreReady
  <2>5. \A i \in 1 .. Len(clients) : ~Equivalent(client[t], clients[i].key)
    BY <2>1, <2>3, <2>4, RacesFacts, MissesAreGenuine
  <2>6. QED
    BY <2>5, RacesFacts
<1>3. \A u \in Tasks \ {t} : pc[u] \in Window => ~Equivalent(client[t], client[u])
  BY <1>1 DEF NoRace, Races
<1>4. IsFreeFor(client'[t], t)
  BY <1>1, <1>2, <1>3 DEF IsFreeFor
<1>5. t \notin Binders /\ t \notin Binders' /\ pc'[t] # "route"
  BY <1>1 DEF Binders
<1>6. QED
  BY <1>1, <1>4, <1>5, QuietStep

\* Within its window a task stays apart from others and from the nodes that are there.
LEMMA StillFree ==
  ASSUME RaceFree, NEW t \in Tasks, pc[t] \in Window \ {"assign"}
  PROVE  IsFreeFor(client[t], t)
BY DEF RaceFree, WindowsAreApart, MissIsRemembered, IsFreeFor

LEMMA FindHeadersMissStep ==
  ASSUME IInv, RaceFree, NEW t \in Tasks, FindHeadersMiss(t)
  PROVE  RaceFree'
<1>1. /\ pc[t] = "findHeaders" /\ pc'[t] = "defaultRenderer" /\ client' = client
      /\ UNCHANGED <<clients, copies, torn>> /\ OthersStay(t)
  BY RacesFacts DEF FindHeadersMiss, Step, mapVars, taskVars, OthersStay
<1>2. IsFreeFor(client'[t], t)
  BY <1>1, StillFree DEF Window
<1>3. t \notin Binders /\ t \notin Binders' /\ pc'[t] # "route"
  BY <1>1 DEF Binders
<1>4. QED
  BY <1>1, <1>2, <1>3, QuietStep

LEMMA CopiesAppended ==
  ASSUME IInv, RaceFree, NEW v \in 0 .. Len(Renderers), copies' = Append(copies, v)
  PROVE  /\ Len(copies') = Len(copies) + 1 /\ DOMAIN copies' = 1 .. Len(copies) + 1
         /\ copies'[Len(copies) + 1] = v /\ \A c \in 1 .. Len(copies) : copies'[c] = copies[c]
<1>1. copies \in Seq(0 .. Len(Renderers))
  BY RacesFacts DEF TypeInv, TypeOK
<1>2. QED
  BY <1>1, AppendProperties

\* A copy made by find(headers) is never bound: it is served, and that is all.
LEMMA FindHeadersHitStep ==
  ASSUME IInv, RaceFree, NEW t \in Tasks, FindHeadersHit(t)
  PROVE  RaceFree'
<1>1. /\ pc[t] = "findHeaders" /\ pc'[t] = "route" /\ UNCHANGED <<clients, torn>> /\ OthersStay(t)
      /\ renderer'[t] = Len(copies')
  BY RacesFacts DEF FindHeadersHit, Step, mapVars, taskVars, OthersStay
<1> DEFINE first == FirstMatch(agent[t])
<1>2. first # 0 /\ first \in 0 .. Len(Renderers) /\ copies' = Append(copies, first)
  BY RacesFacts, FirstMatchType DEF FindHeadersHit, TypeInv, TypeOK
<1> HIDE DEF first
<1>3. /\ Len(copies') = Len(copies) + 1 /\ DOMAIN copies' = 1 .. Len(copies) + 1
      /\ copies'[Len(copies) + 1] = first /\ \A c \in 1 .. Len(copies) : copies'[c] = copies[c]
  BY <1>2, CopiesAppended
<1>4. Len(copies) \in Nat /\ DOMAIN copies = 1 .. Len(copies)
  BY RacesFacts
<1>5. Binders' = Binders /\ \A u \in Binders : u # t
  BY <1>1 DEF Binders, OthersStay
<1>6. WindowsAreApart' /\ MissIsRemembered'
  <2>1. pc'[t] \notin Window
    BY <1>1 DEF Window
  <2>2. WindowsAreApart'
    BY <1>1, <2>1, WindowsStayApart DEF RaceFree
  <2>3. MissIsRemembered'
    BY <1>1, <2>1 DEF RaceFree, MissIsRemembered, OthersStay
  <2>4. QED
    BY <2>2, <2>3
<1>7. NodesHoldTheirRenderers'
  BY <1>1, HoldersStay DEF RaceFree
<1>8. NodesDiffer' /\ BindersDiffer'
  BY <1>1, <1>5 DEF RaceFree, NodesDiffer, BindersDiffer, OthersStay, Binders
<1>9. RendererIsFresh' /\ RendererIsFound'
  BY <1>1, <1>3, <1>4 DEF RaceFree, RendererIsFresh, RendererIsFound, OthersStay
<1>10. DefaultsHaveNodes'
  <2> SUFFICES ASSUME NEW c \in 1 .. Len(copies) + 1, copies'[c] = 0
               PROVE  (\E i \in DOMAIN clients : clients[i].node = c) \/ \E u \in Binders : renderer'[u] = c
    BY <1>1, <1>3, <1>5 DEF DefaultsHaveNodes
  <2>1. c \in DOMAIN copies /\ copies[c] = 0
    BY <1>2, <1>3, <1>4
  <2>2. (\E i \in DOMAIN clients : clients[i].node = c) \/ \E u \in Binders : renderer[u] = c
    BY <2>1 DEF RaceFree, DefaultsHaveNodes
  <2>3. \A u \in Binders : renderer'[u] = renderer[u]
    BY <1>1, <1>5 DEF OthersStay, Binders
  <2>4. QED
    BY <2>2, <2>3
<1>11. QED
  BY <1>1, <1>6, <1>7, <1>8, <1>9, <1>10 DEF RaceFree

\* The copy of the default configuration is new: no node has been made for it, and
\* nobody else has it.
LEMMA DefaultRendererStep ==
  ASSUME IInv, RaceFree, NEW t \in Tasks, DefaultRenderer(t)
  PROVE  RaceFree'
<1>1. /\ pc[t] = "defaultRenderer" /\ pc'[t] = "locate" /\ UNCHANGED <<clients, torn, client>> /\ OthersStay(t)
      /\ renderer'[t] = Len(copies') /\ copies' = Append(copies, 0)
  BY RacesFacts DEF DefaultRenderer, Step, mapVars, taskVars, OthersStay
<1>2. /\ Len(copies) \in Nat /\ DOMAIN copies = 1 .. Len(copies)
      /\ \A i \in DOMAIN clients : clients[i].node \in 1 .. Len(copies)
      /\ \A u \in Tasks : renderer[u] \in 0 .. Len(copies)
  BY RacesFacts
<1>3. /\ Len(copies') = Len(copies) + 1 /\ DOMAIN copies' = 1 .. Len(copies) + 1
      /\ \A c \in 1 .. Len(copies) : copies'[c] = copies[c]
  <2>1. 0 \in 0 .. Len(Renderers)
    BY RacesFacts, FirstMatchType DEF TypeInv, TypeOK
  <2>2. QED
    BY <1>1, <2>1, CopiesAppended
<1>4. renderer'[t] = Len(copies) + 1
  BY <1>1, <1>3
<1>5. /\ t \in Binders' /\ t \notin Binders /\ Binders' = Binders \union {t}
      /\ \A u \in Binders : u \in Tasks /\ renderer'[u] = renderer[u]
  BY <1>1 DEF Binders, OthersStay
<1>6. WindowsAreApart' /\ MissIsRemembered'
  <2>1. IsFreeFor(client'[t], t)
    BY <1>1, StillFree DEF Window
  <2>2. WindowsAreApart'
    BY <1>1, <2>1, WindowsStayApart DEF RaceFree, IsFreeFor
  <2>3. MissIsRemembered'
    BY <1>1, <2>1 DEF RaceFree, MissIsRemembered, OthersStay, IsFreeFor
  <2>4. QED
    BY <2>2, <2>3
<1>7. NodesHoldTheirRenderers'
  BY <1>1, HoldersStay DEF RaceFree
<1>8. NodesDiffer'
  BY <1>1 DEF RaceFree, NodesDiffer
<1>9. BindersDiffer'
  <2>1. \A u \in Binders : renderer'[u] # renderer'[t]
    BY <1>2, <1>4, <1>5
  <2>2. \A u, v \in Binders : renderer'[u] = renderer'[v] => u = v
    BY <1>5 DEF RaceFree, BindersDiffer
  <2>3. QED
    BY <1>5, <2>1, <2>2 DEF BindersDiffer
<1>10. RendererIsFresh' /\ RendererIsFound'
  <2>1. \A i \in DOMAIN clients : clients[i].node # renderer'[t]
    BY <1>2, <1>4
  <2>2. QED
    BY <1>1, <2>1 DEF RaceFree, RendererIsFresh, RendererIsFound, OthersStay
<1>11. DefaultsHaveNodes'
  <2> SUFFICES ASSUME NEW c \in 1 .. Len(copies) + 1, copies'[c] = 0
               PROVE  (\E i \in DOMAIN clients : clients[i].node = c) \/ \E u \in Binders' : renderer'[u] = c
    BY <1>1, <1>3 DEF DefaultsHaveNodes
  <2>1. CASE c = Len(copies) + 1
    BY <1>4, <1>5, <2>1
  <2>2. CASE c # Len(copies) + 1
    <3>1. c \in DOMAIN copies /\ copies[c] = 0
      BY <1>2, <1>3, <2>2
    <3>2. (\E i \in DOMAIN clients : clients[i].node = c) \/ \E u \in Binders : renderer[u] = c
      BY <3>1 DEF RaceFree, DefaultsHaveNodes
    <3>3. QED
      BY <1>5, <3>2
  <2>3. QED
    BY <2>1, <2>2
<1>12. QED
  BY <1>1, <1>6, <1>7, <1>8, <1>9, <1>10, <1>11 DEF RaceFree

\* operator[] does not find the client either: nothing equivalent was linked since
\* find(addr).
LEMMA LocateNeverHits ==
  ASSUME IInv, RaceFree, NEW t \in Tasks, LocateHit(t)
  PROVE  FALSE
<1>1. PICK g \in SearchResults(t) : Hit(clients, client[t], g)
  BY DEF LocateHit
<1>2. g[2] \in DOMAIN clients /\ Equivalent(client[t], clients[g[2]].key)
  BY <1>1, RacesFacts, HitIsEquivalent
<1>3. pc[t] \in Window \ {"assign"}
  BY DEF LocateHit, Step, Window
<1>4. QED
  BY <1>2, <1>3 DEF RaceFree, MissIsRemembered

LEMMA LocateMissStep ==
  ASSUME IInv, RaceFree, NEW t \in Tasks, LocateMiss(t)
  PROVE  RaceFree'
<1>1. /\ pc[t] = "locate" /\ pc'[t] = "link"
      /\ UNCHANGED <<clients, torn, client, copies, renderer, target>> /\ OthersStay(t)
  BY RacesFacts DEF LocateMiss, Step, taskVars, OthersStay
<1>2. Binders' = Binders
  BY <1>1 DEF Binders, OthersStay
<1>3. WindowsAreApart' /\ MissIsRemembered'
  <2>1. IsFreeFor(client'[t], t)
    BY <1>1, StillFree DEF Window
  <2>2. WindowsAreApart'
    BY <1>1, <2>1, WindowsStayApart DEF RaceFree, IsFreeFor
  <2>3. MissIsRemembered'
    BY <1>1, <2>1 DEF RaceFree, MissIsRemembered, OthersStay, IsFreeFor
  <2>4. QED
    BY <2>2, <2>3
<1>4. NodesHoldTheirRenderers'
  BY <1>1, HoldersStay DEF RaceFree
<1>5. NodesDiffer' /\ BindersDiffer' /\ DefaultsHaveNodes'
  BY <1>1, <1>2 DEF RaceFree, NodesDiffer, BindersDiffer, DefaultsHaveNodes
<1>6. RendererIsFresh' /\ RendererIsFound'
  BY <1>1 DEF RaceFree, RendererIsFresh, RendererIsFound, OthersStay
<1>7. QED
  BY <1>1, <1>3, <1>4, <1>5, <1>6 DEF RaceFree

\* What linking a node does when nobody else is at it: the nodes there are keep their
\* order, and the new one is somewhere among them.
LEMMA LinkEffect ==
  ASSUME IInv, RaceFree, NoRace, NEW t \in Tasks, Link(t)
  PROVE  /\ pc[t] = "link" /\ pc'[t] = "assign" /\ target'[t] = renderer[t] /\ OthersStay(t)
         /\ torn' = FALSE /\ UNCHANGED <<client, renderer, copies, requests>>
         /\ renderer[t] \in 1 .. Len(copies) /\ client[t] \in Address
         /\ \E p \in 1 .. Len(clients) + 1 :
              /\ DOMAIN clients' = 1 .. Len(clients) + 1
              /\ clients'[p] = NewNode(t)
              /\ \A i \in 1 .. Len(clients) + 1 :
                   i # p => clients'[i] = IF i < p THEN clients[i] ELSE clients[i - 1]
<1>1. /\ pc[t] = "link" /\ pc'[t] = "assign" /\ target'[t] = renderer[t] /\ OthersStay(t)
      /\ UNCHANGED <<client, renderer, copies, requests>>
  BY RacesFacts DEF Link, Step, taskVars, OthersStay
<1>2. torn = FALSE /\ torn' = FALSE
  <2>1. torn = FALSE /\ \A u \in Tasks \ {t} : pc[u] # "link"
    BY <1>1, RacesFacts, SearchesAlone
  <2>2. QED
    BY <2>1 DEF Link
<1>3. renderer[t] \in 1 .. Len(copies) /\ client[t] \in Address
  <2>1. renderer[t] # 0 /\ client[t] \in Address
    BY <1>1, RacesFacts DEF TypeInv, TasksAreReady
  <2>2. renderer[t] \in 0 .. Len(copies) /\ Len(copies) \in Nat
    BY RacesFacts
  <2>3. QED
    BY <2>1, <2>2
<1>4. NewNode(t) \in Entry
  <2>1. Len(copies) \in Nat
    BY RacesFacts
  <2>2. QED
    BY <1>3, <2>1 DEF NewNode, Entry
<1>5. PICK p \in LinkPositions(clients, place[t].left, place[t].right) :
        clients' = InsertAt(clients, p, NewNode(t))
  BY <1>2 DEF Link
<1>6. p \in 1 .. Len(clients) + 1 /\ clients \in Seq(Entry) /\ Len(clients) \in Nat
  BY RacesFacts DEF LinkPositions
<1> DEFINE e == NewNode(t)
<1>7. e \in Entry /\ clients' = InsertAt(clients, p, e)
  BY <1>4, <1>5
<1> HIDE DEF e
<1>8. /\ clients' \in Seq(Entry) /\ Len(clients') = Len(clients) + 1
      /\ \A i \in 1 .. Len(clients) + 1 :
           clients'[i] = IF i < p THEN clients[i] ELSE IF i = p THEN e ELSE clients[i - 1]
  <2>1. PICK s \in Seq(Entry) : s = clients
    BY <1>6
  <2>2. InsertAt(s, p, e) \in Seq(Entry) /\ IsInsertion(InsertAt(s, p, e), s, p, e)
    BY <1>6, <1>7, <2>1, InsertAtInserts
  <2>3. clients' \in Seq(Entry) /\ IsInsertion(clients', clients, p, e)
    BY <1>7, <2>1, <2>2
  <2>4. QED
    BY <2>3 DEF IsInsertion
<1>9. DOMAIN clients' = 1 .. Len(clients) + 1
  BY <1>8, LenProperties
<1>10. clients'[p] = e /\ \A i \in 1 .. Len(clients) + 1 :
         i # p => clients'[i] = IF i < p THEN clients[i] ELSE clients[i - 1]
  BY <1>6, <1>8
<1>11. QED
  BY <1>1, <1>2, <1>3, <1>6, <1>9, <1>10 DEF e

\* Where a node of the new sequence was before, and where one of the old is after.
LEMMA LinkMoves ==
  ASSUME NEW n \in Nat, NEW p \in 1 .. n + 1
  PROVE  /\ \A i \in 1 .. n + 1 : i # p => (IF i < p THEN i ELSE i - 1) \in 1 .. n
         /\ \A i, j \in (1 .. n + 1) \ {p} :
              (IF i < p THEN i ELSE i - 1) = (IF j < p THEN j ELSE j - 1) => i = j
         /\ \A k \in 1 .. n : \E i \in 1 .. n + 1 : i # p /\ k = IF i < p THEN i ELSE i - 1
<1>1. ASSUME NEW k \in 1 .. n PROVE \E i \in 1 .. n + 1 : i # p /\ k = IF i < p THEN i ELSE i - 1
  <2>1. CASE k < p
    BY <2>1
  <2>2. CASE p <= k
    <3>1. k + 1 \in 1 .. n + 1 /\ k + 1 # p /\ ~(k + 1 < p) /\ k = (k + 1) - 1
      BY <2>2
    <3>2. QED
      BY <3>1
  <2>3. QED
    BY <2>1, <2>2
<1>2. ASSUME NEW i \in 1 .. n + 1, i # p PROVE (IF i < p THEN i ELSE i - 1) \in 1 .. n
  BY <1>2
<1>3. ASSUME NEW i \in (1 .. n + 1) \ {p}, NEW j \in (1 .. n + 1) \ {p},
             (IF i < p THEN i ELSE i - 1) = (IF j < p THEN j ELSE j - 1)
      PROVE  i = j
  BY <1>3
<1>4. QED
  BY <1>1, <1>2, <1>3

\* The nodes after a link are those before and the new one, each of them once.
LEMMA LinkKeepsNodes ==
  ASSUME IInv, RaceFree, NoRace, NEW t \in Tasks, Link(t)
  PROVE  /\ \A i \in DOMAIN clients' : clients'[i] = NewNode(t) \/ \E k \in DOMAIN clients : clients'[i] = clients[k]
         /\ \E i \in DOMAIN clients' : clients'[i] = NewNode(t)
         /\ \A k \in DOMAIN clients : \E i \in DOMAIN clients' : clients'[i] = clients[k]
         /\ NodesDiffer'
<1> DEFINE n == Len(clients)
           e == NewNode(t)
           old(i, p) == IF i < p THEN i ELSE i - 1
<1>1. PICK p \in 1 .. n + 1 :
        /\ DOMAIN clients' = 1 .. n + 1 /\ clients'[p] = e
        /\ \A i \in 1 .. n + 1 : i # p => clients'[i] = IF i < p THEN clients[i] ELSE clients[i - 1]
  BY LinkEffect
<1>2. \A i \in 1 .. n + 1 : i # p => clients'[i] = clients[old(i, p)]
  BY <1>1
<1>3. n \in Nat /\ DOMAIN clients = 1 .. n
  BY RacesFacts
<1>4. /\ \A i \in 1 .. n + 1 : i # p => old(i, p) \in 1 .. n
      /\ \A i, j \in (1 .. n + 1) \ {p} : old(i, p) = old(j, p) => i = j
      /\ \A k \in 1 .. n : \E i \in 1 .. n + 1 : i # p /\ k = old(i, p)
  BY <1>1, <1>3, LinkMoves
<1>5. e.node = renderer[t]
  BY DEF NewNode
<1>6. \A k \in 1 .. n : clients[k].node # e.node
  <2>1. pc[t] = "link"
    BY LinkEffect
  <2>2. \A k \in DOMAIN clients : clients[k].node # renderer[t]
    BY <2>1 DEF RaceFree, RendererIsFresh
  <2>3. QED
    BY <1>3, <1>5, <2>2
<1> HIDE DEF n, e, old
<1>7. ASSUME NEW i \in 1 .. n + 1, NEW j \in 1 .. n + 1, clients'[i].node = clients'[j].node PROVE i = j
  <2>1. CASE i = p \/ j = p
    BY <1>1, <1>2, <1>4, <1>6, <1>7, <2>1
  <2>2. CASE i # p /\ j # p
    <3>1. /\ old(i, p) \in 1 .. n /\ old(j, p) \in 1 .. n
          /\ clients[old(i, p)].node = clients[old(j, p)].node
      BY <1>2, <1>4, <1>7, <2>2
    <3>2. old(i, p) = old(j, p)
      BY <1>3, <3>1 DEF RaceFree, NodesDiffer
    <3>3. QED
      BY <1>4, <2>2, <3>2
  <2>3. QED
    BY <2>1, <2>2
<1>8. NodesDiffer'
  BY <1>1, <1>7 DEF NodesDiffer
<1>9. \A i \in 1 .. n + 1 : clients'[i] = e \/ \E k \in 1 .. n : clients'[i] = clients[k]
  BY <1>1, <1>2, <1>4
<1>10. \A k \in 1 .. n : \E i \in 1 .. n + 1 : clients'[i] = clients[k]
  BY <1>2, <1>4
<1>11. QED
  BY <1>1, <1>3, <1>8, <1>9, <1>10 DEF e

LEMMA LinkStep ==
  ASSUME IInv, RaceFree, NoRace, NEW t \in Tasks, Link(t)
  PROVE  RaceFree'
<1>1. /\ pc[t] = "link" /\ pc'[t] = "assign" /\ target'[t] = renderer[t] /\ OthersStay(t)
      /\ torn' = FALSE /\ UNCHANGED <<client, renderer, copies>>
  BY LinkEffect
<1> DEFINE e == NewNode(t)
<1>2. e.node = renderer[t] /\ e.key = client[t] /\ e.value = 0
  BY DEF NewNode
<1>3. /\ \A i \in DOMAIN clients' : clients'[i] = e \/ \E k \in DOMAIN clients : clients'[i] = clients[k]
      /\ \E i \in DOMAIN clients' : clients'[i] = e
      /\ \A k \in DOMAIN clients : \E i \in DOMAIN clients' : clients'[i] = clients[k]
      /\ NodesDiffer'
  BY LinkKeepsNodes
<1> HIDE DEF e
<1>4. \A k \in DOMAIN clients : clients[k].node # renderer[t]
  BY <1>1 DEF RaceFree, RendererIsFresh
<1>5. Binders' = Binders /\ \A u \in Binders : renderer[u] = renderer[t] => u = t
  BY <1>1 DEF Binders, OthersStay, RaceFree, BindersDiffer
<1>6. WindowsAreApart'
  <2>1. IsFreeFor(client'[t], t)
    BY <1>1, StillFree DEF Window
  <2>2. QED
    BY <1>1, <2>1, WindowsStayApart DEF RaceFree, IsFreeFor
<1>7. MissIsRemembered'
  <2> SUFFICES ASSUME NEW u \in Tasks, pc'[u] \in Window \ {"assign"}, NEW i \in DOMAIN clients'
               PROVE  ~Equivalent(client[u], clients'[i].key)
    BY <1>1 DEF MissIsRemembered
  <2>1. u # t /\ pc[u] \in Window \ {"assign"} /\ pc[t] \in Window
    BY <1>1 DEF OthersStay, Window
  <2>2. ~Equivalent(client[u], e.key)
    BY <1>2, <2>1 DEF RaceFree, WindowsAreApart
  <2>3. \A k \in DOMAIN clients : ~Equivalent(client[u], clients[k].key)
    BY <2>1 DEF RaceFree, MissIsRemembered
  <2>4. QED
    BY <1>3, <2>2, <2>3
<1>8. NodesHoldTheirRenderers'
  <2> SUFFICES ASSUME NEW i \in DOMAIN clients'
               PROVE  clients'[i].value = IF \E u \in Tasks : pc'[u] = "assign" /\ renderer[u] = clients'[i].node
                                          THEN 0 ELSE clients'[i].node
    BY <1>1 DEF NodesHoldTheirRenderers, BeingAssigned
  <2>1. CASE clients'[i] = e
    BY <1>1, <1>2, <2>1
  <2>2. ASSUME NEW k \in DOMAIN clients, clients'[i] = clients[k]
        PROVE  clients[k].value = IF \E u \in Tasks : pc'[u] = "assign" /\ renderer[u] = clients[k].node
                                  THEN 0 ELSE clients[k].node
    <3>1. clients[k].node # renderer[t]
      BY <1>4
    <3>2. (\E u \in Tasks : pc'[u] = "assign" /\ renderer[u] = clients[k].node) <=> BeingAssigned(clients[k].node)
      BY <1>1, <3>1 DEF BeingAssigned, OthersStay
    <3>3. clients[k].value = IF BeingAssigned(clients[k].node) THEN 0 ELSE clients[k].node
      BY DEF RaceFree, NodesHoldTheirRenderers
    <3>4. QED
      BY <3>2, <3>3
  <2>3. QED
    BY <1>3, <2>1, <2>2
<1>9. BindersDiffer' /\ RendererIsFound'
  BY <1>1, <1>5 DEF RaceFree, BindersDiffer, RendererIsFound, OthersStay
<1>10. RendererIsFresh'
  <2>1. ASSUME NEW u \in Tasks, pc'[u] \in {"locate", "link"}, NEW i \in DOMAIN clients'
        PROVE  clients'[i].node # renderer[u]
    <3>1. u # t /\ pc[u] \in {"locate", "link"} /\ u \in Binders
      BY <1>1, <2>1 DEF OthersStay, Binders
    <3>2. e.node # renderer[u]
      BY <1>2, <1>5, <3>1
    <3>3. \A k \in DOMAIN clients : clients[k].node # renderer[u]
      BY <3>1 DEF RaceFree, RendererIsFresh
    <3>4. QED
      BY <1>3, <3>2, <3>3
  <2>2. ASSUME NEW u \in Tasks, pc'[u] = "assign"
        PROVE  /\ target'[u] = renderer[u]
               /\ \E i \in DOMAIN clients' : clients'[i].node = renderer[u] /\ clients'[i].key = client[u]
    <3>1. CASE u = t
      BY <1>1, <1>2, <1>3, <3>1
    <3>2. CASE u # t
      <4>1. /\ target'[u] = renderer[u]
            /\ \E k \in DOMAIN clients : clients[k].node = renderer[u] /\ clients[k].key = client[u]
        BY <1>1, <2>2, <3>2 DEF RaceFree, RendererIsFresh, OthersStay
      <4>2. QED
        BY <1>3, <4>1
    <3>3. QED
      BY <3>1, <3>2
  <2>3. QED
    BY <1>1, <2>1, <2>2 DEF RendererIsFresh
<1>11. DefaultsHaveNodes'
  <2> SUFFICES ASSUME NEW c \in DOMAIN copies, copies[c] = 0
               PROVE  (\E i \in DOMAIN clients' : clients'[i].node = c) \/ \E u \in Binders : renderer[u] = c
    BY <1>1, <1>5 DEF DefaultsHaveNodes
  <2>1. (\E i \in DOMAIN clients : clients[i].node = c) \/ \E u \in Binders : renderer[u] = c
    BY DEF RaceFree, DefaultsHaveNodes
  <2>2. QED
    BY <1>3, <2>1
<1>12. QED
  BY <1>1, <1>3, <1>6, <1>7, <1>8, <1>9, <1>10, <1>11 DEF RaceFree

\* The assignment sets the value of the task's own node, and no other.
LEMMA AssignEffect ==
  ASSUME IInv, RaceFree, NEW t \in Tasks, Assign(t)
  PROVE  /\ pc[t] = "assign" /\ pc'[t] = "route" /\ OthersStay(t)
         /\ UNCHANGED <<torn, client, renderer, copies>>
         /\ renderer[t] # 0 /\ DOMAIN clients' = DOMAIN clients
         /\ \A i \in DOMAIN clients :
              /\ clients'[i].key = clients[i].key /\ clients'[i].node = clients[i].node
              /\ clients'[i].value = IF clients[i].node = renderer[t] THEN renderer[t] ELSE clients[i].value
              /\ clients[i].node # renderer[t] => clients'[i] = clients[i]
<1>1. /\ pc[t] = "assign" /\ pc'[t] = "route" /\ OthersStay(t)
      /\ UNCHANGED <<torn, client, renderer, copies>>
  BY RacesFacts DEF Assign, Step, taskVars, OthersStay
<1>2. renderer[t] # 0
  BY <1>1, RacesFacts DEF TypeInv, TasksAreReady
<1>3. target[t] = renderer[t]
  BY <1>1 DEF RaceFree, RendererIsFresh
<1>4. clients' = [i \in DOMAIN clients |->
                    IF clients[i].node = renderer[t]
                    THEN [clients[i] EXCEPT !.value = renderer[t]] ELSE clients[i]]
  BY <1>3 DEF Assign
<1>5. ASSUME NEW i \in DOMAIN clients
      PROVE  /\ clients'[i].key = clients[i].key /\ clients'[i].node = clients[i].node
             /\ clients'[i].value = IF clients[i].node = renderer[t] THEN renderer[t] ELSE clients[i].value
             /\ clients[i].node # renderer[t] => clients'[i] = clients[i]
  <2>1. clients[i] \in Entry
    BY RacesFacts, ElementOfSeq
  <2>2. QED
    BY <1>4, <2>1 DEF Entry
<1>6. QED
  BY <1>1, <1>2, <1>4, <1>5

LEMMA AssignStep ==
  ASSUME IInv, RaceFree, NEW t \in Tasks, Assign(t)
  PROVE  RaceFree'
<1>1. /\ pc[t] = "assign" /\ pc'[t] = "route" /\ OthersStay(t)
      /\ UNCHANGED <<torn, client, renderer, copies>>
      /\ renderer[t] # 0 /\ DOMAIN clients' = DOMAIN clients
      /\ \A i \in DOMAIN clients :
           /\ clients'[i].key = clients[i].key /\ clients'[i].node = clients[i].node
           /\ clients'[i].value = IF clients[i].node = renderer[t] THEN renderer[t] ELSE clients[i].value
  BY AssignEffect
<1>2. /\ Binders' = Binders \ {t} /\ t \in Binders
      /\ \A u \in Binders : renderer[u] = renderer[t] => u = t
  BY <1>1 DEF Binders, OthersStay, RaceFree, BindersDiffer
<1>3. WindowsAreApart' /\ MissIsRemembered'
  <2>1. pc'[t] \notin Window
    BY <1>1 DEF Window
  <2>2. WindowsAreApart'
    BY <1>1, <2>1, WindowsStayApart DEF RaceFree
  <2>3. MissIsRemembered'
    BY <1>1, <2>1 DEF RaceFree, MissIsRemembered, OthersStay
  <2>4. QED
    BY <2>2, <2>3
<1>4. NodesHoldTheirRenderers'
  <2> SUFFICES ASSUME NEW i \in DOMAIN clients
               PROVE  clients'[i].value = IF \E u \in Tasks : pc'[u] = "assign" /\ renderer[u] = clients[i].node
                                          THEN 0 ELSE clients[i].node
    BY <1>1 DEF NodesHoldTheirRenderers, BeingAssigned
  <2>1. clients[i].value = IF BeingAssigned(clients[i].node) THEN 0 ELSE clients[i].node
    BY DEF RaceFree, NodesHoldTheirRenderers
  <2>2. CASE clients[i].node = renderer[t]
    <3>1. ~\E u \in Tasks : pc'[u] = "assign" /\ renderer[u] = clients[i].node
      BY <1>1, <1>2, <2>2 DEF Binders, OthersStay
    <3>2. QED
      BY <1>1, <2>2, <3>1
  <2>3. CASE clients[i].node # renderer[t]
    <3>1. (\E u \in Tasks : pc'[u] = "assign" /\ renderer[u] = clients[i].node) <=> BeingAssigned(clients[i].node)
      BY <1>1, <2>3 DEF BeingAssigned, OthersStay
    <3>2. QED
      BY <1>1, <2>1, <2>3, <3>1
  <2>4. QED
    BY <2>2, <2>3
<1>5. NodesDiffer' /\ BindersDiffer' /\ RendererIsFound'
  BY <1>1, <1>2 DEF RaceFree, NodesDiffer, BindersDiffer, RendererIsFound, OthersStay
<1>6. RendererIsFresh'
  BY <1>1 DEF RaceFree, RendererIsFresh, OthersStay
<1>7. DefaultsHaveNodes'
  <2>1. \E i \in DOMAIN clients : clients[i].node = renderer[t]
    BY <1>1 DEF RaceFree, RendererIsFresh
  <2> SUFFICES ASSUME NEW c \in DOMAIN copies, copies[c] = 0
               PROVE  (\E i \in DOMAIN clients : clients[i].node = c) \/ \E u \in Binders \ {t} : renderer[u] = c
    BY <1>1, <1>2 DEF DefaultsHaveNodes
  <2>2. (\E i \in DOMAIN clients : clients[i].node = c) \/ \E u \in Binders : renderer[u] = c
    BY DEF RaceFree, DefaultsHaveNodes
  <2>3. QED
    BY <2>1, <2>2
<1>8. QED
  BY <1>1, <1>3, <1>4, <1>5, <1>6, <1>7 DEF RaceFree

\* Whoever dies changes nothing on the way.
LEMMA DeathStep ==
  ASSUME RaceFree,
         \/ UNCHANGED vars
         \/ \E t \in Tasks : \/ LogsMissingUserAgent(t) \/ FindHeadersThrows(t) \/ CopiesMissingDefault(t)
                             \/ LogsNullRenderer(t) \/ TornMapFails(t)
  PROVE  RaceFree'
<1>1. UNCHANGED <<pc, client, renderer, copies, clients, target, torn>>
  BY DEF LogsMissingUserAgent, FindHeadersThrows, CopiesMissingDefault, LogsNullRenderer, TornMapFails,
         Die, vars, taskVars, mapVars
<1>2. Binders' = Binders /\ WindowsAreApart' /\ MissIsRemembered'
  BY <1>1 DEF Binders, RaceFree, WindowsAreApart, MissIsRemembered
<1>3. NodesHoldTheirRenderers' /\ NodesDiffer' /\ BindersDiffer'
  BY <1>1, <1>2 DEF RaceFree, NodesHoldTheirRenderers, BeingAssigned, NodesDiffer, BindersDiffer
<1>4. RendererIsFresh' /\ DefaultsHaveNodes' /\ RendererIsFound'
  BY <1>1, <1>2 DEF RaceFree, RendererIsFresh, DefaultsHaveNodes, RendererIsFound
<1>5. QED
  BY <1>1, <1>2, <1>3, <1>4 DEF RaceFree

-----------------------------------------------------------------------------
(* Every step keeps it                                                      *)

LEMMA RaceFreeInit == ASSUME Init PROVE RaceFree
<1>1. torn = FALSE /\ clients = <<>> /\ copies = <<>> /\ \A t \in Tasks : pc[t] = "idle"
  BY DEF Init
<1>2. DOMAIN clients = {} /\ DOMAIN copies = {}
  BY <1>1
<1>3. QED
  BY <1>1, <1>2 DEF RaceFree, WindowsAreApart, MissIsRemembered, NodesHoldTheirRenderers, NodesDiffer,
                    BindersDiffer, Binders, RendererIsFresh, DefaultsHaveNodes, RendererIsFound, Window

LEMMA RaceFreeNext ==
  ASSUME IInv, RaceFree, NoRace, [Next]_vars
  PROVE  RaceFree'
<1>1. ASSUME NEW t \in Tasks, Accept(t) \/ ReadRequest(t) \/ Disconnect(t) \/ SetupResponse(t) \/ Respond(t)
      PROVE  RaceFree'
  BY <1>1, ConnectionStep
<1>2. ASSUME NEW t \in Tasks, FindAddressHit(t) \/ FindAddressMiss(t) PROVE RaceFree'
  BY <1>2, FindAddressHitStep, FindAddressMissStep
<1>3. ASSUME NEW t \in Tasks, FindHeadersHit(t) \/ FindHeadersMiss(t) \/ DefaultRenderer(t) PROVE RaceFree'
  BY <1>3, FindHeadersHitStep, FindHeadersMissStep, DefaultRendererStep
<1>4. ASSUME NEW t \in Tasks, LocateHit(t) \/ LocateMiss(t) PROVE RaceFree'
  BY <1>4, LocateNeverHits, LocateMissStep
<1>5. ASSUME NEW t \in Tasks, Link(t) \/ Assign(t) PROVE RaceFree'
  BY <1>5, LinkStep, AssignStep
<1>6. ASSUME NEW t \in Tasks, \/ LogsMissingUserAgent(t) \/ FindHeadersThrows(t) \/ CopiesMissingDefault(t)
                              \/ LogsNullRenderer(t) \/ TornMapFails(t)
      PROVE  RaceFree'
  BY <1>6, DeathStep
<1>7. CASE UNCHANGED vars
  BY <1>7, DeathStep
<1>8. ASSUME NEW t \in Tasks, Handle(t) PROVE RaceFree'
  BY <1>1, <1>2, <1>3, <1>4, <1>5, <1>6, <1>8 DEF Handle
<1>9. QED
  BY <1>1, <1>7, <1>8 DEF Next, Dead

-----------------------------------------------------------------------------
(* A request makes one copy at most                                         *)

\* A set of tasks with one more, and with one less.
LEMMA TasksMore ==
  ASSUME NEW S, S \subseteq Tasks, NEW t \in Tasks, t \notin S
  PROVE  Cardinality(S) \in Nat /\ Cardinality(S \union {t}) = Cardinality(S) + 1
<1>1. IsFiniteSet(S)
  BY ConfigurationAssumption, FS_Subset
<1>2. QED
  BY <1>1, FS_CardinalityType, FS_AddElement

LEMMA TasksFewer ==
  ASSUME NEW S, S \subseteq Tasks, NEW t \in S
  PROVE  /\ Cardinality(S) \in Nat /\ Cardinality(S \ {t}) \in Nat
         /\ Cardinality(S) = Cardinality(S \ {t}) + 1
<1>1. S \ {t} \subseteq Tasks /\ t \in Tasks /\ t \notin S \ {t} /\ (S \ {t}) \union {t} = S
  OBVIOUS
<1>2. Cardinality(S \ {t}) \in Nat /\ Cardinality((S \ {t}) \union {t}) = Cardinality(S \ {t}) + 1
  BY <1>1, TasksMore
<1>3. Cardinality((S \ {t}) \union {t}) = Cardinality(S)
  BY <1>1, Zenon
<1>4. QED
  BY <1>2, <1>3

LEMMA CountsAreNumbers ==
  ASSUME IInv
  PROVE  /\ pc \in [Tasks -> Labels] /\ CopiesPending \subseteq Tasks /\ Cardinality(CopiesPending) \in Nat
         /\ Len(copies) \in Nat /\ requests \in 0 .. MaxRequests /\ MaxRequests \in Nat
<1>1. CopiesPending \subseteq Tasks
  BY DEF CopiesPending
<1>2. Cardinality(CopiesPending) \in Nat
  BY <1>1, ConfigurationAssumption, FS_Subset, FS_CardinalityType
<1>3. pc \in [Tasks -> Labels] /\ copies \in Seq(0 .. Len(Renderers)) /\ requests \in 0 .. MaxRequests
  BY DEF IInv, TypeOK
<1>4. QED
  BY <1>1, <1>2, <1>3, LenProperties, ConfigurationAssumption

\* The steps that neither begin a look-up nor end one.
LEMMA CountStays ==
  ASSUME CopiesAreCounted, UNCHANGED <<copies, requests>>, CopiesPending' = CopiesPending
  PROVE  CopiesAreCounted'
BY DEF CopiesAreCounted

\* A request that is read may make a copy...
LEMMA CountReadRequest ==
  ASSUME IInv, CopiesAreCounted, NEW t \in Tasks, ReadRequest(t)
  PROVE  CopiesAreCounted'
<1>1. pc[t] = "reading" /\ pc' = [pc EXCEPT ![t] = "start"] /\ requests' = requests + 1 /\ copies' = copies
  BY DEF ReadRequest, Step
<1>2. t \notin CopiesPending /\ CopiesPending' = CopiesPending \union {t}
  BY <1>1, CountsAreNumbers DEF CopiesPending
<1>3. Cardinality(CopiesPending') = Cardinality(CopiesPending) + 1
  BY <1>2, CountsAreNumbers, TasksMore
<1>4. QED
  BY <1>1, <1>3, CountsAreNumbers DEF CopiesAreCounted

\* ... and no other once it has.
LEMMA CountLookUp ==
  ASSUME IInv, CopiesAreCounted, NEW t \in Tasks, FindAddressHit(t) \/ FindHeadersHit(t) \/ DefaultRenderer(t)
  PROVE  CopiesAreCounted'
<1> DEFINE first == FirstMatch(agent[t])
<1>1. first \in 0 .. Len(Renderers) /\ 0 \in 0 .. Len(Renderers) /\ copies \in Seq(0 .. Len(Renderers))
  BY FirstMatchType DEF IInv, TypeOK
<1>2. copies' = copies \/ copies' = Append(copies, first) \/ copies' = Append(copies, 0)
  BY DEF FindAddressHit, FindHeadersHit, DefaultRenderer
<1> HIDE DEF first
<1>3. Len(copies') = Len(copies) \/ Len(copies') = Len(copies) + 1
  BY <1>1, <1>2, AppendProperties
<1>4. /\ pc[t] \in {"findAddress", "findHeaders", "defaultRenderer"} /\ requests' = requests
      /\ \E b \in {"route", "locate"} : pc' = [pc EXCEPT ![t] = b]
  BY DEF FindAddressHit, FindHeadersHit, DefaultRenderer, Step
<1>5. t \in CopiesPending /\ CopiesPending' = CopiesPending \ {t}
  BY <1>4, CountsAreNumbers DEF CopiesPending
<1>6. /\ Cardinality(CopiesPending') \in Nat
      /\ Cardinality(CopiesPending) = Cardinality(CopiesPending') + 1
  BY <1>5, CountsAreNumbers, TasksFewer
<1>7. QED
  BY <1>3, <1>4, <1>6, CountsAreNumbers DEF CopiesAreCounted

LEMMA CountNext ==
  ASSUME IInv, CopiesAreCounted, [Next]_vars
  PROVE  CopiesAreCounted'
<1>1. ASSUME NEW t \in Tasks, NEW a, NEW b, Step(t, a, b), UNCHANGED <<copies, requests>>,
             a \in Labels, b \in Labels,
             a \in {"start", "findAddress", "findHeaders", "defaultRenderer"} <=>
               b \in {"start", "findAddress", "findHeaders", "defaultRenderer"}
      PROVE  CopiesAreCounted'
  <2>1. CopiesPending' = CopiesPending
    BY <1>1, CountsAreNumbers DEF CopiesPending, Step
  <2>2. QED
    BY <1>1, <2>1, CountStays
<1>2. ASSUME NEW t \in Tasks, Accept(t) \/ Disconnect(t) \/ SetupResponse(t) \/ Respond(t) PROVE CopiesAreCounted'
  <2>1. /\ UNCHANGED <<copies, requests>>
        /\ \/ Step(t, "idle", "reading") \/ Step(t, "reading", "idle")
           \/ Step(t, "start", "findAddress") \/ Step(t, "route", "reading")
    BY <1>2 DEF Accept, Disconnect, SetupResponse, Respond
  <2>2. QED
    BY <1>1, <2>1 DEF Labels
<1>3. ASSUME NEW t \in Tasks, FindAddressMiss(t) \/ FindHeadersMiss(t) PROVE CopiesAreCounted'
  <2>1. /\ UNCHANGED <<copies, requests>>
        /\ Step(t, "findAddress", "findHeaders") \/ Step(t, "findHeaders", "defaultRenderer")
    BY <1>3 DEF FindAddressMiss, FindHeadersMiss
  <2>2. QED
    BY <1>1, <2>1 DEF Labels
<1>4. ASSUME NEW t \in Tasks, LocateHit(t) \/ LocateMiss(t) \/ Link(t) \/ Assign(t) PROVE CopiesAreCounted'
  <2>1. /\ UNCHANGED <<copies, requests>>
        /\ \/ Step(t, "locate", "assign") \/ Step(t, "locate", "link")
           \/ Step(t, "link", "assign") \/ Step(t, "assign", "route")
    BY <1>4 DEF LocateHit, LocateMiss, Link, Assign
  <2>2. QED
    BY <1>1, <2>1 DEF Labels
<1>5. ASSUME NEW t \in Tasks, \/ LogsMissingUserAgent(t) \/ FindHeadersThrows(t) \/ CopiesMissingDefault(t)
                              \/ LogsNullRenderer(t) \/ TornMapFails(t)
      PROVE  CopiesAreCounted'
  <2>1. UNCHANGED <<pc, copies, requests>>
    BY <1>5 DEF LogsMissingUserAgent, FindHeadersThrows, CopiesMissingDefault, LogsNullRenderer, TornMapFails, Die
  <2>2. QED
    BY <2>1, CountStays DEF CopiesPending
<1>6. CASE UNCHANGED vars
  BY <1>6, CountStays DEF vars, CopiesPending
<1>7. ASSUME NEW t \in Tasks, Handle(t) PROVE CopiesAreCounted'
  BY <1>2, <1>3, <1>4, <1>5, <1>7, CountLookUp DEF Handle
<1>8. QED
  BY <1>2, <1>6, <1>7, CountReadRequest DEF Next, Dead

(***************************************************************************)
(* The invariant: _clients is written and read with no lock (manager.cpp:   *)
(* 41-51, 94-98), and until two threads race for it nothing goes wrong.     *)
(***************************************************************************)
THEOREM RacesInvariant == RacesSpec => [](IInv /\ RacesInv)
<1>1. RacesInit => RacesInv
  <2> SUFFICES ASSUME RacesInit PROVE RacesInv
    OBVIOUS
  <2>1. RaceFree
    BY RaceFreeInit DEF RacesInit
  <2>2. CopiesPending = {} /\ Len(copies) = 0 /\ requests = 0
    BY DEF RacesInit, Init, CopiesPending
  <2>3. Cardinality(CopiesPending) = 0
    BY <2>2, FS_EmptySet
  <2>4. CopiesAreCounted
    BY <2>2, <2>3 DEF CopiesAreCounted
  <2>5. QED
    BY <2>1, <2>4 DEF RacesInit, RacesInv
<1>2. IInv /\ RacesInv /\ [RacesNext]_racesVars => RacesInv'
  <2> SUFFICES ASSUME IInv, RacesInv, [RacesNext]_racesVars
               PROVE  RacesInv'
    OBVIOUS
  <2>1. [Next]_vars
    BY DEF RacesNext, racesVars
  <2>2. CopiesAreCounted'
    BY <2>1, CountNext DEF RacesInv
  <2>3. CASE UNCHANGED racesVars
    <3>1. UNCHANGED vars /\ raced' = raced
      BY <2>3 DEF racesVars
    <3>2. RaceFree => RaceFree'
      BY <3>1, DeathStep
    <3>3. QED
      BY <2>2, <3>1, <3>2 DEF RacesInv
  <2>4. CASE RacesNext
    <3>1. raced' \in BOOLEAN
      BY <2>4 DEF RacesNext
    <3>2. ASSUME ~raced' PROVE RaceFree'
      <4>1. ~raced /\ NoRace
        BY <2>4, <3>2 DEF RacesNext, NoRace
      <4>2. RaceFree
        BY <4>1 DEF RacesInv
      <4>3. QED
        BY <2>1, <4>1, <4>2, RaceFreeNext
    <3>3. QED
      BY <2>2, <3>1, <3>2 DEF RacesInv
  <2>5. QED
    BY <2>3, <2>4
<1>3. RacesSpec => Spec
  <2>1. RacesInit => Init
    BY DEF RacesInit
  <2>2. [RacesNext]_racesVars => [Next]_vars
    BY DEF RacesNext, racesVars
  <2>3. QED
    BY <2>1, <2>2, PTL DEF RacesSpec, Spec
<1>4. QED
  BY <1>1, <1>2, <1>3, IInvInductive, PTL DEF RacesSpec


-----------------------------------------------------------------------------
(* What follows                                                             *)

\* Until a race every copy of the default configuration (manager.cpp:96) is in _clients
\* or on its way there.
THEOREM DefaultCopiesReachable == RacesSpec => []DefaultCopiesStayReachable
<1>1. RacesInv => DefaultCopiesStayReachable
  <2> SUFFICES ASSUME RaceFree, NEW c \in DOMAIN copies, copies[c] = 0
               PROVE  (\E i \in DOMAIN clients : clients[i].value = c) \/ \E t \in Binders : renderer[t] = c
    BY DEF RacesInv, DefaultCopiesStayReachable
  <2>1. CASE \E t \in Binders : renderer[t] = c
    BY <2>1
  <2>2. CASE ~\E t \in Binders : renderer[t] = c
    <3>1. PICK i \in DOMAIN clients : clients[i].node = c
      BY <2>2 DEF RaceFree, DefaultsHaveNodes
    <3>2. ~BeingAssigned(c)
      BY <2>2 DEF BeingAssigned, Binders
    <3>3. clients[i].value = c
      BY <3>1, <3>2 DEF RaceFree, NodesHoldTheirRenderers
    <3>4. QED
      BY <3>3
  <2>3. QED
    BY <2>1, <2>2
<1>2. QED
  BY <1>1, RacesInvariant, PTL

\* The one step that ends the process with a null renderer is SetupResponse's.
LEMMA NullDeaths ==
  ASSUME [Next]_vars, crashed' = "null renderer"
  PROVE  crashed = "null renderer" \/ \E t \in Tasks : LogsNullRenderer(t)
<1>1. ASSUME NEW t \in Tasks, Accept(t) \/ ReadRequest(t) \/ Disconnect(t) PROVE crashed' = crashed
  BY <1>1 DEF Accept, ReadRequest, Disconnect, Step
<1>2. ASSUME NEW t \in Tasks, SetupResponse(t) \/ FindAddressHit(t) \/ FindAddressMiss(t) \/ FindHeadersHit(t) \/ FindHeadersMiss(t)
      PROVE  crashed' = crashed
  BY <1>2 DEF SetupResponse, FindAddressHit, FindAddressMiss, FindHeadersHit, FindHeadersMiss, Step
<1>3. ASSUME NEW t \in Tasks, DefaultRenderer(t) \/ LocateHit(t) \/ LocateMiss(t) \/ Link(t) \/ Assign(t) \/ Respond(t)
      PROVE  crashed' = crashed
  BY <1>3 DEF DefaultRenderer, LocateHit, LocateMiss, Link, Assign, Respond, Step
<1>4. ASSUME NEW t \in Tasks, LogsMissingUserAgent(t) \/ FindHeadersThrows(t) \/ CopiesMissingDefault(t) \/ TornMapFails(t)
      PROVE  crashed' \in {"no user agent", "bad expression", "no default", "torn map"}
  BY <1>4 DEF LogsMissingUserAgent, FindHeadersThrows, CopiesMissingDefault, TornMapFails, Die
<1>5. ASSUME NEW t \in Tasks, Handle(t) PROVE crashed = "null renderer" \/ LogsNullRenderer(t)
  BY <1>2, <1>3, <1>4, <1>5 DEF Handle
<1>6. CASE UNCHANGED vars
  BY <1>6 DEF vars
<1>7. QED
  BY <1>1, <1>5, <1>6 DEF Next, Dead

\* The null dereference of requests.cpp:23 is a race's doing, always.
THEOREM NullRenderersAreRaces == RacesSpec => []NullRendererIsARace
<1>1. RacesInit => NullRendererIsARace
  BY DEF RacesInit, Init, NullRendererIsARace
<1>2. RacesInv /\ NullRendererIsARace /\ [RacesNext]_racesVars => NullRendererIsARace'
  <2> SUFFICES ASSUME RacesInv, NullRendererIsARace, [RacesNext]_racesVars, crashed' = "null renderer", ~raced'
               PROVE  FALSE
    BY DEF NullRendererIsARace
  <2>1. [Next]_vars /\ ~raced
    <3>1. CASE RacesNext
      BY <3>1 DEF RacesNext
    <3>2. CASE UNCHANGED racesVars
      BY <3>2 DEF racesVars
    <3>3. QED
      BY <3>1, <3>2
  <2>2. PICK t \in Tasks : LogsNullRenderer(t)
    <3>1. crashed # "null renderer"
      BY <2>1 DEF NullRendererIsARace
    <3>2. QED
      BY <2>1, <3>1, NullDeaths
  <2>3. pc[t] = "route" /\ renderer[t] = 0
    BY <2>2 DEF LogsNullRenderer, Die
  <2>4. QED
    BY <2>1, <2>3 DEF RacesInv, RaceFree, RendererIsFound
<1>3. QED
  BY <1>1, <1>2, RacesInvariant, PTL DEF RacesSpec

\* A step with no race until its end: what the two theorems below look at.
LEMMA StepsOfTheMap ==
  ASSUME IInv, RacesInv, [RacesNext]_racesVars, ~raced'
  PROVE  /\ RaceFree /\ [Next]_vars
         /\ clients' = clients \/ \E t \in Tasks : (Link(t) /\ NoRace) \/ Assign(t)
<1>1. RaceFree /\ [Next]_vars
  BY DEF RacesNext, racesVars, RacesInv
<1>2. CASE UNCHANGED racesVars
  BY <1>1, <1>2 DEF racesVars, vars
<1>3. CASE RacesNext
  <2>1. NoRace
    BY <1>3 DEF RacesNext, NoRace
  <2>2. Elsewhere => clients' = clients
    BY <1>1, ElsewhereEffect DEF IInv, TypeInv
  <2>3. ASSUME NEW t \in Tasks,
               \/ SetupResponse(t) \/ FindAddressHit(t) \/ FindHeadersHit(t)
               \/ DefaultRenderer(t) \/ LocateHit(t) \/ LocateMiss(t)
        PROVE  clients' = clients
    BY <2>3 DEF SetupResponse, FindAddressHit, FindHeadersHit, DefaultRenderer, LocateHit, LocateMiss, mapVars
  <2>4. QED
    BY <1>1, <2>1, <2>2, <2>3, StepsOfRequests
<1>4. QED
  BY <1>1, <1>2, <1>3

\* Until a race a client keeps the renderer it has been bound to (manager.cpp:97).
THEOREM BindingsStay == RacesSpec => BindingsAreStable
<1> DEFINE Kept == \A i \in DOMAIN clients :
                     clients[i].value # 0 => \E j \in DOMAIN clients' : clients'[j] = clients[i]
<1>1. IInv /\ RacesInv /\ [RacesNext]_racesVars => [~raced' => Kept]_racesVars
  <2> SUFFICES ASSUME IInv, RacesInv, [RacesNext]_racesVars, ~raced',
                      NEW i \in DOMAIN clients, clients[i].value # 0
               PROVE  \E j \in DOMAIN clients' : clients'[j] = clients[i]
    OBVIOUS
  <2>1. /\ RaceFree
        /\ clients' = clients \/ \E t \in Tasks : (Link(t) /\ NoRace) \/ Assign(t)
    BY StepsOfTheMap
  <2>2. CASE clients' = clients
    BY <2>2
  <2>3. ASSUME NEW t \in Tasks, Link(t), NoRace PROVE \E j \in DOMAIN clients' : clients'[j] = clients[i]
    BY <2>1, <2>3, LinkKeepsNodes
  <2>4. ASSUME NEW t \in Tasks, Assign(t) PROVE \E j \in DOMAIN clients' : clients'[j] = clients[i]
    <3>1. /\ pc[t] = "assign" /\ DOMAIN clients' = DOMAIN clients
          /\ (clients[i].node # renderer[t] => clients'[i] = clients[i])
      BY <2>1, <2>4, AssignEffect
    <3>2. clients[i].node # renderer[t]
      <4>1. ASSUME clients[i].node = renderer[t] PROVE clients[i].value = 0
        <5>1. BeingAssigned(clients[i].node)
          BY <3>1, <4>1 DEF BeingAssigned
        <5>2. QED
          BY <2>1, <5>1 DEF RaceFree, NodesHoldTheirRenderers
      <4>2. QED
        BY <4>1
    <3>3. QED
      BY <3>1, <3>2
  <2>5. QED
    BY <2>1, <2>2, <2>3, <2>4
<1> HIDE DEF Kept
<1>2. RacesSpec => [][~raced' => Kept]_racesVars
  BY <1>1, RacesInvariant, PTL DEF RacesSpec
<1>3. QED
  BY <1>2 DEF BindingsAreStable, Kept

-----------------------------------------------------------------------------
(* The map implements ClientBindings                                        *)

\* The map of the bound addresses to their renderers that a sequence of nodes stands for.
BoundKeys(s) == {e.key : e \in {x \in ToSet(s) : x.value # 0}}
BoundIn(s) == [a \in BoundKeys(s) |-> (CHOOSE e \in ToSet(s) : e.key = a).value]

LEMMA BoundInIs ==
  ASSUME NEW s, Len(s) \in Nat, DOMAIN s = 1 .. Len(s), Keyed(s), IsChain(s)
  PROVE  /\ DOMAIN BoundIn(s) = BoundKeys(s)
         /\ BoundIn(s) = [a \in BoundKeys(s) |-> BoundIn(s)[a]]
         /\ \A a : a \in BoundKeys(s) <=> \E i \in DOMAIN s : s[i].value # 0 /\ s[i].key = a
         /\ \A i \in DOMAIN s : s[i].value # 0 => BoundIn(s)[s[i].key] = s[i].value
<1>1. \A a : a \in BoundKeys(s) <=> \E i \in DOMAIN s : s[i].value # 0 /\ s[i].key = a
  BY DEF BoundKeys, ToSet
<1>2. ASSUME NEW i \in DOMAIN s, s[i].value # 0 PROVE BoundIn(s)[s[i].key] = s[i].value
  <2> DEFINE found == CHOOSE e \in ToSet(s) : e.key = s[i].key
  <2>1. s[i] \in ToSet(s) /\ s[i].key = s[i].key
    BY DEF ToSet
  <2>2. found \in ToSet(s) /\ found.key = s[i].key
    BY <2>1
  <2>3. PICK j \in DOMAIN s : found = s[j]
    BY <2>2 DEF ToSet
  <2>4. j = i
    BY <2>2, <2>3, ChainKeysDiffer
  <2>5. s[i].key \in BoundKeys(s)
    BY <1>1, <1>2
  <2>6. BoundIn(s)[s[i].key] = found.value
    BY <2>5 DEF BoundIn
  <2>7. QED
    BY <2>3, <2>4, <2>6
<1>3. DOMAIN BoundIn(s) = BoundKeys(s) /\ BoundIn(s) = [a \in BoundKeys(s) |-> BoundIn(s)[a]]
  BY DEF BoundIn
<1>4. QED
  BY <1>1, <1>2, <1>3

\* The nodes of a link or an assignment before and after, as far as they are bound.
LEMMA SameBound ==
  ASSUME NEW s, Len(s) \in Nat, DOMAIN s = 1 .. Len(s), Keyed(s), IsChain(s),
         NEW u, Len(u) \in Nat, DOMAIN u = 1 .. Len(u), Keyed(u), IsChain(u),
         \A i \in DOMAIN s : s[i].value # 0 => \E j \in DOMAIN u : u[j] = s[i],
         \A j \in DOMAIN u : u[j].value # 0 => \E i \in DOMAIN s : u[j] = s[i]
  PROVE  BoundIn(u) = BoundIn(s)
<1>1. /\ \A a : a \in BoundKeys(s) <=> \E i \in DOMAIN s : s[i].value # 0 /\ s[i].key = a
      /\ \A i \in DOMAIN s : s[i].value # 0 => BoundIn(s)[s[i].key] = s[i].value
  BY BoundInIs
<1>2. /\ \A a : a \in BoundKeys(u) <=> \E i \in DOMAIN u : u[i].value # 0 /\ u[i].key = a
      /\ \A i \in DOMAIN u : u[i].value # 0 => BoundIn(u)[u[i].key] = u[i].value
  BY BoundInIs
<1>3. BoundKeys(u) = BoundKeys(s)
  <2>1. \A a : a \in BoundKeys(u) <=> a \in BoundKeys(s)
    BY <1>1, <1>2
  <2>2. QED
    BY <2>1
<1>4. ASSUME NEW a \in BoundKeys(s) PROVE BoundIn(u)[a] = BoundIn(s)[a]
  <2>1. PICK i \in DOMAIN s : s[i].value # 0 /\ s[i].key = a
    BY <1>1
  <2>2. PICK j \in DOMAIN u : u[j] = s[i]
    BY <2>1
  <2>3. BoundIn(s)[a] = s[i].value
    BY <1>1, <2>1
  <2>4. BoundIn(u)[a] = u[j].value
    BY <1>2, <2>1, <2>2
  <2>5. QED
    BY <2>2, <2>3, <2>4
<1>5. BoundIn(u) = [a \in BoundKeys(u) |-> BoundIn(u)[a]] /\ BoundIn(s) = [a \in BoundKeys(s) |-> BoundIn(s)[a]]
  BY BoundInIs
<1>6. QED
  BY <1>3, <1>4, <1>5

\* A map with one more binding.
Extended(m, a, r) == [b \in DOMAIN m \union {a} |-> IF b = a THEN r ELSE m[b]]

LEMMA OneMoreBound ==
  ASSUME NEW s, Len(s) \in Nat, DOMAIN s = 1 .. Len(s), Keyed(s), IsChain(s),
         NEW u, Len(u) \in Nat, DOMAIN u = DOMAIN s, DOMAIN u = 1 .. Len(u), Keyed(u), IsChain(u),
         NEW k \in DOMAIN s, s[k].value = 0, u[k].value # 0, u[k].key = s[k].key,
         \A i \in DOMAIN s : i # k => u[i] = s[i]
  PROVE  /\ \A b \in BoundKeys(s) : ~Equivalent(u[k].key, b)
         /\ BoundIn(u) = Extended(BoundIn(s), u[k].key, u[k].value)
<1>1. /\ \A a : a \in BoundKeys(s) <=> \E i \in DOMAIN s : s[i].value # 0 /\ s[i].key = a
      /\ \A i \in DOMAIN s : s[i].value # 0 => BoundIn(s)[s[i].key] = s[i].value
  BY BoundInIs
<1>2. /\ \A a : a \in BoundKeys(u) <=> \E i \in DOMAIN u : u[i].value # 0 /\ u[i].key = a
      /\ \A i \in DOMAIN u : u[i].value # 0 => BoundIn(u)[u[i].key] = u[i].value
  BY BoundInIs
<1>3. ASSUME NEW b \in BoundKeys(s)
      PROVE  /\ ~Equivalent(u[k].key, b) /\ b # u[k].key
             /\ b \in BoundKeys(u) /\ BoundIn(u)[b] = BoundIn(s)[b]
  <2>1. PICK i \in DOMAIN s : s[i].value # 0 /\ s[i].key = b
    BY <1>1
  <2>2. i # k /\ u[i] = s[i]
    BY <2>1
  <2>3. ~Equivalent(s[k].key, s[i].key) /\ s[k].key # s[i].key
    BY <2>2, ChainKeysDiffer
  <2>4. BoundIn(s)[b] = s[i].value
    BY <1>1, <2>1
  <2>5. b \in BoundKeys(u) /\ BoundIn(u)[b] = u[i].value
    BY <1>2, <2>1, <2>2
  <2>6. QED
    BY <2>1, <2>2, <2>3, <2>4, <2>5
<1>4. u[k].key \in BoundKeys(u) /\ BoundIn(u)[u[k].key] = u[k].value
  BY <1>2
<1>5. ASSUME NEW b \in BoundKeys(u), b # u[k].key PROVE b \in BoundKeys(s)
  <2>1. PICK i \in DOMAIN u : u[i].value # 0 /\ u[i].key = b
    BY <1>2
  <2>2. i # k /\ u[i] = s[i]
    BY <1>5, <2>1
  <2>3. QED
    BY <1>1, <2>1, <2>2
<1>6. BoundKeys(u) = BoundKeys(s) \union {u[k].key}
  BY <1>3, <1>4, <1>5
<1>7. BoundIn(u) = [b \in BoundKeys(u) |-> BoundIn(u)[b]]
  BY BoundInIs
<1>8. \A b \in BoundKeys(u) : BoundIn(u)[b] = IF b = u[k].key THEN u[k].value ELSE BoundIn(s)[b]
  BY <1>3, <1>4, <1>6
<1>9. DOMAIN BoundIn(s) = BoundKeys(s)
  BY BoundInIs
<1>10. BoundIn(u) = Extended(BoundIn(s), u[k].key, u[k].value)
  BY <1>6, <1>7, <1>8, <1>9 DEF Extended
<1>11. QED
  BY <1>3, <1>10

\* What the two lemmas above ask of _clients.
MapIsSound ==
  /\ Len(clients) \in Nat /\ DOMAIN clients = 1 .. Len(clients)
  /\ Keyed(clients) /\ IsChain(clients)

LEMMA MapStaysSound == IInv /\ RaceFree /\ IInv' /\ RaceFree' => MapIsSound /\ MapIsSound'
<1>1. IInv /\ RaceFree => MapIsSound
  BY RacesFacts DEF MapIsSound
<1>2. QED
  BY <1>1, PTL

\* The link of a node with a null value binds nobody.
LEMMA LinkBindsNobody ==
  ASSUME IInv, RaceFree, NoRace, NEW t \in Tasks, Link(t), MapIsSound, MapIsSound'
  PROVE  BoundIn(clients') = BoundIn(clients)
<1>1. NewNode(t).value = 0
  BY DEF NewNode
<1>2. /\ \A i \in DOMAIN clients' : clients'[i].value # 0 => \E k \in DOMAIN clients : clients'[i] = clients[k]
      /\ \A k \in DOMAIN clients : \E i \in DOMAIN clients' : clients'[i] = clients[k]
  BY <1>1, LinkKeepsNodes
<1>3. Len(clients') \in Nat /\ DOMAIN clients' = 1 .. Len(clients') /\ Keyed(clients') /\ IsChain(clients')
  BY DEF MapIsSound
<1>4. QED
  BY <1>2, <1>3, SameBound DEF MapIsSound

\* The assignment binds the client, which no node bound yet is equivalent to, to a
\* renderer nobody else is bound to.
LEMMA AssignBinds ==
  ASSUME IInv, RaceFree, CopiesAreCounted, NEW t \in Tasks, Assign(t), MapIsSound, MapIsSound'
  PROVE  /\ client[t] \in Address /\ renderer[t] \in 1 .. MaxRequests
         /\ \A b \in BoundKeys(clients) :
              ~Equivalent(client[t], b) /\ BoundIn(clients)[b] # renderer[t]
         /\ BoundIn(clients') = Extended(BoundIn(clients), client[t], renderer[t])
<1>1. /\ pc[t] = "assign" /\ DOMAIN clients' = DOMAIN clients
      /\ \A i \in DOMAIN clients :
           /\ clients'[i].key = clients[i].key /\ clients'[i].node = clients[i].node
           /\ clients[i].node = renderer[t] => clients'[i].value = renderer[t]
           /\ clients[i].node # renderer[t] => clients'[i] = clients[i]
  BY AssignEffect
<1>2. client[t] \in Address /\ renderer[t] # 0
  BY <1>1, RacesFacts DEF TypeInv, TasksAreReady
<1>3. renderer[t] \in 1 .. MaxRequests
  <2>1. renderer[t] \in 0 .. Len(copies)
    BY RacesFacts
  <2>2. /\ Len(copies) \in Nat /\ Len(copies) <= requests
        /\ requests \in 0 .. MaxRequests /\ MaxRequests \in Nat
    BY CountsAreNumbers DEF CopiesAreCounted
  <2>3. QED
    BY <1>2, <2>1, <2>2
<1>4. PICK k \in DOMAIN clients : clients[k].node = renderer[t] /\ clients[k].key = client[t]
  BY <1>1 DEF RaceFree, RendererIsFresh
<1>5. /\ clients[k].value = 0 /\ clients'[k].value = renderer[t] /\ clients'[k].key = client[t]
      /\ clients'[k].value # 0 /\ clients'[k].key = clients[k].key
  <2>1. BeingAssigned(clients[k].node)
    BY <1>1, <1>4 DEF BeingAssigned
  <2>2. clients[k].value = 0
    BY <2>1 DEF RaceFree, NodesHoldTheirRenderers
  <2>3. QED
    BY <1>1, <1>2, <1>4, <2>2
<1>6. \A i \in DOMAIN clients : i # k => clients'[i] = clients[i] /\ clients[i].node # renderer[t]
  BY <1>1, <1>4 DEF RaceFree, NodesDiffer
<1>7. /\ Len(clients) \in Nat /\ DOMAIN clients = 1 .. Len(clients) /\ Keyed(clients) /\ IsChain(clients)
      /\ Len(clients') \in Nat /\ DOMAIN clients' = 1 .. Len(clients') /\ Keyed(clients') /\ IsChain(clients')
  BY DEF MapIsSound
<1>8. /\ \A b \in BoundKeys(clients) : ~Equivalent(clients'[k].key, b)
      /\ BoundIn(clients') = Extended(BoundIn(clients), clients'[k].key, clients'[k].value)
  <2> DEFINE s == clients
             u == clients'
  <2>1. /\ Len(s) \in Nat /\ DOMAIN s = 1 .. Len(s) /\ Keyed(s) /\ IsChain(s)
        /\ Len(u) \in Nat /\ DOMAIN u = 1 .. Len(u) /\ Keyed(u) /\ IsChain(u)
        /\ DOMAIN u = DOMAIN s /\ k \in DOMAIN s
    BY <1>1, <1>4, <1>7
  <2>2. /\ s[k].value = 0 /\ u[k].value # 0 /\ u[k].key = s[k].key
        /\ \A i \in DOMAIN s : i # k => u[i] = s[i]
    BY <1>5, <1>6
  <2> HIDE DEF s, u
  <2>3. /\ \A b \in BoundKeys(s) : ~Equivalent(u[k].key, b)
        /\ BoundIn(u) = Extended(BoundIn(s), u[k].key, u[k].value)
    BY <2>1, <2>2, OneMoreBound
  <2>4. QED
    BY <2>3 DEF s, u
<1>9. ASSUME NEW b \in BoundKeys(clients) PROVE BoundIn(clients)[b] # renderer[t]
  <2>1. /\ \A a : a \in BoundKeys(clients) <=> \E i \in DOMAIN clients : clients[i].value # 0 /\ clients[i].key = a
        /\ \A i \in DOMAIN clients : clients[i].value # 0 => BoundIn(clients)[clients[i].key] = clients[i].value
    BY <1>7, BoundInIs
  <2>2. PICK i \in DOMAIN clients : clients[i].value # 0 /\ clients[i].key = b
    BY <2>1
  <2>3. clients[i].node # renderer[t]
    BY <1>5, <1>6, <2>2
  <2>4. clients[i].value = clients[i].node
    BY <2>2 DEF RaceFree, NodesHoldTheirRenderers
  <2>5. QED
    BY <2>1, <2>2, <2>3, <2>4
<1>10. QED
  BY <1>2, <1>3, <1>5, <1>8, <1>9

(***************************************************************************)
(* _clients[addr] = def (manager.cpp:97) is the one step that binds an      *)
(* address, once and for good, as long as no two threads race for the map:  *)
(* it implements the abstract write-once map, which owes nothing to callers *)
(* that do.                                                                 *)
(***************************************************************************)
THEOREM ClientBindingsAreImplemented == RacesSpec => ImplementsClientBindings
<1>1. RacesInit => Bindings!Init
  <2> SUFFICES ASSUME RacesInit PROVE Bindings!Init
    OBVIOUS
  <2>1. clients = <<>> /\ DOMAIN clients = {} /\ raced = FALSE
    BY DEF RacesInit, Init
  <2>2. BoundKeys(clients) = {}
    BY <2>1 DEF BoundKeys, ToSet
  <2>3. BoundIn(clients) = [a \in {} |-> 0]
    BY <2>2 DEF BoundIn
  <2>4. QED
    BY <2>1, <2>3 DEF Bindings!Init, BoundIn, BoundKeys
<1>2. IInv /\ RacesInv /\ IInv' /\ RacesInv' /\ [RacesNext]_racesVars
        => [Bindings!Next]_<<BoundIn(clients), raced>>
  <2> SUFFICES ASSUME IInv, RacesInv, IInv', RacesInv', [RacesNext]_racesVars
               PROVE  UNCHANGED <<BoundIn(clients), raced>> \/ Bindings!Next
    OBVIOUS
  <2>1. CASE raced' = TRUE
    BY <2>1 DEF Bindings!Misuse, Bindings!Next
  <2>2. ASSUME ~raced' PROVE UNCHANGED <<BoundIn(clients), raced>> \/ Bindings!Next
    <3>1. /\ RaceFree
          /\ clients' = clients \/ \E t \in Tasks : (Link(t) /\ NoRace) \/ Assign(t)
      BY <2>2, StepsOfTheMap
    <3>2. RaceFree' /\ CopiesAreCounted
      BY <2>2 DEF RacesInv
    <3>3. MapIsSound /\ MapIsSound'
      BY <3>1, <3>2, MapStaysSound
    <3>4. raced' = raced
      <4>1. CASE RacesNext
        BY <2>2, <4>1 DEF RacesNext, RacesInv
      <4>2. CASE UNCHANGED racesVars
        BY <4>2 DEF racesVars
      <4>3. QED
        BY <4>1, <4>2
    <3>5. CASE clients' = clients
      BY <3>4, <3>5
    <3>6. ASSUME NEW t \in Tasks, Link(t), NoRace PROVE BoundIn(clients') = BoundIn(clients)
      BY <3>1, <3>3, <3>6, LinkBindsNobody
    <3>7. ASSUME NEW t \in Tasks, Assign(t) PROVE Bindings!Next
      <4>1. /\ client[t] \in Address /\ renderer[t] \in 1 .. MaxRequests
            /\ \A b \in BoundKeys(clients) :
                 ~Equivalent(client[t], b) /\ BoundIn(clients)[b] # renderer[t]
            /\ BoundIn(clients') = Extended(BoundIn(clients), client[t], renderer[t])
        BY <3>1, <3>2, <3>3, <3>7, AssignBinds
      <4>2. DOMAIN BoundIn(clients) = BoundKeys(clients)
        BY DEF BoundIn
      <4>3. PICK a \in Address, r \in 1 .. MaxRequests : a = client[t] /\ r = renderer[t]
        BY <4>1
      <4>4. /\ \A b \in DOMAIN BoundIn(clients) : ~Equivalent(a, b) /\ BoundIn(clients)[b] # r
            /\ BoundIn(clients') = Extended(BoundIn(clients), a, r)
        BY <4>1, <4>2, <4>3
      <4>5. ~raced
        BY <2>2, <3>4
      <4>6. Bindings!Bind(a, r)
        BY <3>4, <4>4, <4>5 DEF Bindings!Bind, Bindings!Equivalent, Bindings!Less, Equivalent, Less, Extended, BoundIn, BoundKeys
      <4>7. QED
        BY <4>3, <4>6 DEF Bindings!Next, Bindings!Address, Address
    <3>8. QED
      BY <3>1, <3>4, <3>5, <3>6, <3>7
  <2>3. raced' \in BOOLEAN
    BY DEF RacesInv
  <2>4. QED
    BY <2>1, <2>2, <2>3
<1>3. QED
  BY <1>1, <1>2, RacesInvariant, PTL DEF RacesSpec, ImplementsClientBindings, Bindings!Spec, BoundIn, BoundKeys
=============================================================================
