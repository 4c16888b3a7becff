------------------------ MODULE RequestHandlingProofs ------------------------
(***************************************************************************)
(* Theorems about RequestHandling, for any number of tasks, any addresses   *)
(* and any configurations.                                                  *)
(***************************************************************************)
EXTENDS RequestHandling, SocketAddressTheorems, FiniteSetTheorems

-----------------------------------------------------------------------------
(* The operators the actions are built from                                 *)

\* A nonempty set of naturals has its minimum among its elements, below the others.
LEMMA MinIsLeast ==
  ASSUME NEW S \in SUBSET Nat, S # {}
  PROVE  Min(S) \in S /\ \A x \in S : Min(S) <= x
<1>1. PICK m \in S : \A x \in S : ~(<<x, m>> \in OpToRel(<, Nat))
  BY NatLessThanWellFounded, WFMin, Zenon
<1>2. \A x \in S : ~(x < m)
  BY <1>1, Zenon DEF OpToRel
<1>3. \A x \in S : m <= x
  BY <1>2
<1>4. QED
  BY <1>3 DEF Min

\* What init may have loaded is a sequence of configurations, and no step changes it.
LEMMA ConfigurationType ==
  ASSUME config \in Configurations
  PROVE  Renderers \in Seq(Candidate) /\ HasDefault \in BOOLEAN
  BY ConfigurationAssumption DEF Configuration, Renderers, HasDefault

LEMMA ConfigurationStays ==
  ASSUME [Next]_vars PROVE config' = config /\ Renderers' = Renderers /\ HasDefault' = HasDefault
<1>1. config' = config
  <2> USE DEF Step, Die
  <2>1. ASSUME NEW t \in Tasks, Accept(t) \/ ReadRequest(t) \/ Disconnect(t) PROVE config' = config
    BY <2>1 DEF Accept, ReadRequest, Disconnect
  <2>2. ASSUME NEW t \in Tasks, Handle(t) PROVE config' = config
    BY <2>2 DEF Handle, SetupResponse, LogsMissingUserAgent, FindAddressHit, FindAddressMiss, FindHeadersHit,
         FindHeadersThrows, FindHeadersMiss, DefaultRenderer, CopiesMissingDefault, LocateHit, LocateMiss,
         Link, Assign, TornMapFails, Respond, LogsNullRenderer
  <2>3. CASE UNCHANGED vars
    BY <2>3 DEF vars
  <2>4. QED
    BY <2>1, <2>2, <2>3 DEF Next, Dead
<1>2. QED
  BY <1>1 DEF Renderers, HasDefault

\* The first match of a look-up is a configuration, or 0.
LEMMA FirstMatchType ==
  ASSUME config \in Configurations, NEW ua PROVE FirstMatch(ua) \in 0 .. Len(Renderers)
<1> DEFINE accepted == {i \in DOMAIN Renderers : CandidateMatches(Renderers[i], ua)}
<1>1. Len(Renderers) \in Nat /\ DOMAIN Renderers = 1 .. Len(Renderers)
  BY ConfigurationType, LenProperties
<1>2. accepted \in SUBSET Nat /\ accepted \subseteq 1 .. Len(Renderers)
  BY <1>1
<1>3. accepted # {} => Min(accepted) \in 1 .. Len(Renderers)
  BY <1>2, MinIsLeast
<1>4. QED
  BY <1>1, <1>3 DEF FirstMatch

\* A function on 1 .. n is a sequence.
LEMMA FunctionIsSeq ==
  ASSUME NEW S, NEW n \in Nat, NEW f \in [1 .. n -> S]
  PROVE  f \in Seq(S)
  BY SeqDef

\* What remains of a sequence of nodes are nodes of the sequence.
LEMMA RemaindersType ==
  ASSUME NEW S, NEW s \in Seq(S), NEW r \in Remainders(s)
  PROVE  r \in Seq(S) /\ \A i \in 1 .. Len(r) : \E j \in 1 .. Len(s) : r[i] = s[j]
<1>1. PICK m \in 0 .. Len(s) : \E f \in [1 .. m -> DOMAIN s] : r = [i \in 1 .. m |-> s[f[i]]]
  BY DEF Remainders
<1>0. PICK f \in [1 .. m -> DOMAIN s] : r = [i \in 1 .. m |-> s[f[i]]]
  BY <1>1
<1>2. Len(s) \in Nat /\ DOMAIN s = 1 .. Len(s) /\ \A j \in 1 .. Len(s) : s[j] \in S
  BY LenProperties, ElementOfSeq
<1>3. m \in Nat /\ \A i \in 1 .. m : r[i] \in S
  BY <1>0, <1>1, <1>2
<1>4. r \in Seq(S) /\ Len(r) = m
  BY <1>0, <1>3, IsASeq, LenProperties
<1>5. QED
  BY <1>0, <1>2, <1>4

\* A search ends at nodes of the map or beyond its ends.
LEMMA SearchResultType ==
  ASSUME TypeOK, NEW t \in Tasks, NEW g \in SearchResults(t)
  PROVE  /\ g[1] \in 0 .. Len(clients) /\ g[2] \in 1 .. Len(clients) + 1
         /\ NodeAt(g[1]) \in 0 .. Len(copies) /\ NodeAt(g[2]) \in 0 .. Len(copies)
         /\ Hit(clients, client[t], g) =>
              clients[g[2]].node \in 1 .. Len(copies) /\ clients[g[2]].value \in 0 .. Len(copies)
<1>1. g \in Descents(clients, client[t])
  BY DEF SearchResults, Gaps
<1>2. g[1] \in 0 .. Len(clients) /\ g[2] \in 1 .. Len(clients) + 1
  BY <1>1 DEF Descents
<1>3. /\ Len(clients) \in Nat /\ DOMAIN clients = 1 .. Len(clients) /\ Len(copies) \in Nat
      /\ \A i \in 1 .. Len(clients) : clients[i] \in Entry
  BY LenProperties, ElementOfSeq DEF TypeOK
<1>4. \A p : NodeAt(p) \in 0 .. Len(copies)
  BY <1>3 DEF NodeAt, Entry
<1>5. Hit(clients, client[t], g) => clients[g[2]] \in Entry
  BY <1>2, <1>3 DEF Hit
<1>6. QED
  BY <1>2, <1>4, <1>5 DEF Entry

\* A new copy leaves everything typed as it was.
LEMMA CopiesGrow ==
  ASSUME TypeOK, NEW i \in 0 .. Len(Renderers), copies' = Append(copies, i)
  PROVE  /\ copies' \in Seq(0 .. Len(Renderers)) /\ Len(copies') = Len(copies) + 1
         /\ Len(copies) \in Nat
         /\ clients \in Seq(Entry')
<1>1. copies' \in Seq(0 .. Len(Renderers)) /\ Len(copies') = Len(copies) + 1 /\ Len(copies) \in Nat
  BY AppendProperties, LenProperties DEF TypeOK
<1>2. Entry \subseteq Entry'
  BY <1>1 DEF Entry
<1>3. QED
  BY <1>1, <1>2, SeqMonotonic DEF TypeOK

-----------------------------------------------------------------------------
(* Type correctness                                                         *)

TypeInv == TypeOK /\ TasksAreReady

LEMMA TypeInvInit == Init => TypeInv
<1> SUFFICES ASSUME Init PROVE TypeInv
  OBVIOUS
<1>1. Len(<<>>) = 0 /\ <<>> \in Seq(0 .. Len(Renderers)) /\ <<>> \in Seq(Entry)
  OBVIOUS
<1>2. TypeOK
  <2>1. copies \in Seq(0 .. Len(Renderers)) /\ Len(copies) = 0 /\ clients \in Seq(Entry)
    BY <1>1 DEF Init
  <2>2. place \in [Tasks -> [left : 0 .. Len(copies), right : 0 .. Len(copies)]]
    BY <2>1 DEF Init
  <2>3. torn \in BOOLEAN
    BY DEF Init
  <2>8. config \in Configurations
    BY DEF Init
  <2>7. crashed \in Deaths /\ requests \in 0 .. MaxRequests
    BY ConfigurationAssumption DEF Init, Deaths
  <2>4. pc \in [Tasks -> Labels] /\ client \in [Tasks -> Address \union {NoClient}]
    BY DEF Init, Labels
  <2>5. /\ agent \in [Tasks -> UserAgent \union {NoUserAgent}]
        /\ path \in [Tasks -> Path \union {<<>>}]
        /\ renderer \in [Tasks -> 0 .. Len(copies)]
        /\ target \in [Tasks -> 0 .. Len(copies)]
        /\ response \in [Tasks -> {0, 200, 500}]
    BY <2>1 DEF Init
  <2>6. QED
    BY <2>1, <2>2, <2>3, <2>4, <2>5, <2>7, <2>8 DEF TypeOK
<1>3. TasksAreReady
  BY DEF Init, TasksAreReady
<1>4. QED
  BY <1>2, <1>3 DEF TypeInv

\* The step that kills the process changes nothing else.
LEMMA TypeInvDie ==
  ASSUME TypeInv, NEW t \in Tasks, NEW a, NEW why \in Deaths, Die(t, a, why)
  PROVE  TypeInv'
<1>1. UNCHANGED <<config, pc, client, agent, path, renderer, copies, clients, place, target, torn,
                  response, requests>>
  BY DEF Die, taskVars, mapVars
<1>2. crashed' \in Deaths
  BY DEF Die
<1>3. Renderers' = Renderers /\ Entry' = Entry
  BY <1>1 DEF Renderers, Entry
<1>4. TypeOK'
  BY <1>1, <1>2, <1>3 DEF TypeInv, TypeOK
<1>5. TasksAreReady'
  BY <1>1 DEF TypeInv, TasksAreReady
<1>6. QED
  BY <1>4, <1>5 DEF TypeInv

LEMMA TypeInvNext == TypeInv /\ [Next]_vars => TypeInv'
<1> SUFFICES ASSUME TypeInv, [Next]_vars PROVE TypeInv'
  OBVIOUS
<1> USE DEF TypeInv, TypeOK, TasksAreReady, Step, Die, mapVars, taskVars, Labels, Deaths
<1>0. Len(copies) \in Nat /\ Len(Renderers) \in Nat
  BY ConfigurationType, LenProperties
<1>21. config' = config /\ Renderers' = Renderers
  BY ConfigurationStays
<1> USE <1>21
<1>1. ASSUME NEW t \in Tasks, Accept(t) PROVE TypeInv'
  BY <1>1 DEF Accept, Entry
<1>2. ASSUME NEW t \in Tasks, ReadRequest(t) PROVE TypeInv'
  BY <1>2, ConfigurationAssumption DEF ReadRequest, Entry
<1>3. ASSUME NEW t \in Tasks, Disconnect(t) PROVE TypeInv'
  BY <1>3 DEF Disconnect, Entry
<1>4. ASSUME NEW t \in Tasks, SetupResponse(t) PROVE TypeInv'
  BY <1>0, <1>4 DEF SetupResponse, Entry
<1>5. ASSUME NEW t \in Tasks, LogsMissingUserAgent(t) PROVE TypeInv'
  BY <1>5, TypeInvDie DEF LogsMissingUserAgent
<1>6. ASSUME NEW t \in Tasks, FindAddressHit(t) PROVE TypeInv'
  <2>1. PICK g \in SearchResults(t) :
          Hit(clients, client[t], g) /\ renderer' = [renderer EXCEPT ![t] = clients[g[2]].value]
    BY <1>6 DEF FindAddressHit
  <2>2. clients[g[2]].value \in 0 .. Len(copies)
    BY <2>1, SearchResultType
  <2>4. renderer' \in [Tasks -> 0 .. Len(copies)]
    BY <2>1, <2>2
  <2>5. /\ UNCHANGED <<copies, client, agent, path, clients, place, target, torn, response, requests, crashed>>
        /\ pc' = [pc EXCEPT ![t] = "route"]
    BY <1>6 DEF FindAddressHit
  <2>6. Entry' = Entry
    BY <2>5 DEF Entry
  <2>7. TypeOK'
    BY <2>4, <2>5, <2>6
  <2>8. /\ pc[t] = "findAddress" /\ pc \in [Tasks -> Labels] /\ TasksAreReady
        /\ renderer \in [Tasks -> 0 .. Len(copies)]
    BY <1>6 DEF FindAddressHit
  <2> HIDE DEF TypeInv, TypeOK, TasksAreReady, Step, Die, Labels
  <2>9. \A u \in Tasks : u # t => pc'[u] = pc[u] /\ renderer'[u] = renderer[u]
    BY <2>1, <2>5, <2>8
  <2> USE DEF TasksAreReady
  <2>10. TasksAreReady'
    BY <2>5, <2>8, <2>9
  <2>3. QED
    BY <2>7, <2>10 DEF TypeInv
<1>7. ASSUME NEW t \in Tasks, FindAddressMiss(t) PROVE TypeInv'
  BY <1>7 DEF FindAddressMiss, Entry
<1>18. ASSUME NEW t \in Tasks, FindHeadersHit(t) PROVE TypeInv'
  <2>1. FirstMatch(agent[t]) \in 0 .. Len(Renderers)
    BY FirstMatchType
  <2>2. /\ copies' \in Seq(0 .. Len(Renderers)) /\ Len(copies') = Len(copies) + 1
        /\ Len(copies) \in Nat /\ clients \in Seq(Entry')
    BY <1>18, <2>1, CopiesGrow DEF FindHeadersHit
  <2>3. QED
    BY <1>18, <2>2 DEF FindHeadersHit
<1>22. ASSUME NEW t \in Tasks, FindHeadersThrows(t) PROVE TypeInv'
  BY <1>22, TypeInvDie DEF FindHeadersThrows
<1>19. ASSUME NEW t \in Tasks, FindHeadersMiss(t) PROVE TypeInv'
  BY <1>19 DEF FindHeadersMiss, Entry
<1>8. ASSUME NEW t \in Tasks, DefaultRenderer(t) PROVE TypeInv'
  <2>1. /\ copies' \in Seq(0 .. Len(Renderers)) /\ Len(copies') = Len(copies) + 1
        /\ Len(copies) \in Nat /\ clients \in Seq(Entry')
    BY <1>0, <1>8, CopiesGrow DEF DefaultRenderer
  <2>2. /\ UNCHANGED <<config, client, agent, path, clients, place, target, torn, response, requests, crashed>>
        /\ pc' = [pc EXCEPT ![t] = "locate"] /\ renderer' = [renderer EXCEPT ![t] = Len(copies')]
        /\ pc[t] = "defaultRenderer"
    BY <1>8 DEF DefaultRenderer
  <2>3. /\ pc \in [Tasks -> Labels] /\ renderer \in [Tasks -> 0 .. Len(copies)]
        /\ target \in [Tasks -> 0 .. Len(copies)]
        /\ place \in [Tasks -> [left : 0 .. Len(copies), right : 0 .. Len(copies)]]
        /\ TypeOK /\ TasksAreReady
    OBVIOUS
  <2> HIDE DEF TypeInv, TypeOK, TasksAreReady, Step, Die, Labels, Deaths
  <2>4. "locate" \in Labels
    BY DEF Labels
  <2>5. 0 .. Len(copies) \subseteq 0 .. Len(copies') /\ Len(copies') \in 0 .. Len(copies') /\ Len(copies') # 0
    BY <2>1
  <2>6. pc' \in [Tasks -> Labels] /\ renderer' \in [Tasks -> 0 .. Len(copies')]
    BY <2>2, <2>3, <2>4, <2>5
  <2>7. /\ target' \in [Tasks -> 0 .. Len(copies')]
        /\ place' \in [Tasks -> [left : 0 .. Len(copies'), right : 0 .. Len(copies')]]
    BY <2>2, <2>3, <2>5
  <2>8. TypeOK'
    BY <2>1, <2>2, <2>3, <2>6, <2>7 DEF TypeOK
  <2>9. renderer'[t] # 0 /\ \A u \in Tasks : u # t => pc'[u] = pc[u] /\ renderer'[u] = renderer[u]
    BY <2>2, <2>3, <2>5
  <2>10. TasksAreReady'
    BY <2>2, <2>3, <2>9 DEF TasksAreReady
  <2>11. QED
    BY <2>8, <2>10 DEF TypeInv
<1>9. ASSUME NEW t \in Tasks, CopiesMissingDefault(t) PROVE TypeInv'
  BY <1>9, TypeInvDie DEF CopiesMissingDefault
<1>10. ASSUME NEW t \in Tasks, LocateHit(t) PROVE TypeInv'
  <2>1. PICK g \in SearchResults(t) :
          Hit(clients, client[t], g) /\ target' = [target EXCEPT ![t] = clients[g[2]].node]
    BY <1>10 DEF LocateHit
  <2>2. clients[g[2]].node \in 1 .. Len(copies)
    BY <2>1, SearchResultType
  <2>3. clients[g[2]].node \in 0 .. Len(copies)
    <3> HIDE DEF TypeInv
    <3>1. QED
      BY <1>0, <2>2
  <2>4. target' \in [Tasks -> 0 .. Len(copies)]
    BY <2>1, <2>3
  <2>5. /\ UNCHANGED <<copies, client, agent, path, clients, place, renderer, torn, response, requests, crashed>>
        /\ pc[t] = "locate" /\ pc' = [pc EXCEPT ![t] = "assign"]
    BY <1>10 DEF LocateHit
  <2>6. Entry' = Entry
    BY <2>5 DEF Entry
  <2>7. TypeOK'
    BY <2>4, <2>5, <2>6
  <2>8. pc \in [Tasks -> Labels] /\ TasksAreReady
    OBVIOUS
  <2> HIDE DEF TypeInv, TypeOK, Step, Die, Labels
  <2>9. TasksAreReady'
    BY <2>5, <2>8
  <2>10. QED
    BY <2>7, <2>9 DEF TypeInv
<1>20. ASSUME NEW t \in Tasks, LocateMiss(t) PROVE TypeInv'
  <2>1. PICK g \in SearchResults(t) :
          place' = [place EXCEPT ![t] = [left |-> NodeAt(g[1]), right |-> NodeAt(g[2])]]
    BY <1>20 DEF LocateMiss
  <2>2. NodeAt(g[1]) \in 0 .. Len(copies) /\ NodeAt(g[2]) \in 0 .. Len(copies)
    BY SearchResultType
  <2>3. place' \in [Tasks -> [left : 0 .. Len(copies), right : 0 .. Len(copies)]]
    BY <2>1, <2>2
  <2>4. QED
    BY <1>20, <2>3 DEF LocateMiss, Entry
<1>11. ASSUME NEW t \in Tasks, Link(t) PROVE TypeInv'
  <2>1. PICK rest \in IF torn THEN Remainders(clients) ELSE {clients} :
          \E p \in LinkPositions(rest, place[t].left, place[t].right) :
            clients' = InsertAt(rest, p, NewNode(t))
    BY <1>11 DEF Link
  <2>2. rest \in Seq(Entry)
    BY <2>1, RemaindersType
  <2>3. NewNode(t) \in Entry
    BY <1>0, <1>11 DEF Link, NewNode, Entry
  <2>4. PICK p \in LinkPositions(rest, place[t].left, place[t].right) :
          clients' = InsertAt(rest, p, NewNode(t))
    BY <2>1
  <2>6. p \in 1 .. Len(rest) + 1
    BY <2>4 DEF LinkPositions
  <2>7. clients' \in Seq(Entry)
    BY <2>2, <2>3, <2>4, <2>6, InsertAtElements
  <2>5. UNCHANGED <<config, client, agent, path, renderer, copies, response, crashed, requests>>
    BY <1>11 DEF Link
  <2>8. /\ pc[t] = "link" /\ pc' = [pc EXCEPT ![t] = "assign"]
        /\ target' = [target EXCEPT ![t] = renderer[t]]
        /\ place' = [place EXCEPT ![t] = [left |-> 0, right |-> 0]]
    BY <1>11 DEF Link
  <2>9. /\ pc \in [Tasks -> Labels] /\ renderer \in [Tasks -> 0 .. Len(copies)]
        /\ target \in [Tasks -> 0 .. Len(copies)]
        /\ place \in [Tasks -> [left : 0 .. Len(copies), right : 0 .. Len(copies)]]
        /\ TypeOK /\ TasksAreReady /\ "assign" \in Labels
    OBVIOUS
  <2> HIDE DEF TypeInv, TypeOK, TasksAreReady, Step, Die, Labels, Deaths
  <2>10. torn' \in BOOLEAN
    BY <1>11 DEF Link
  <2>11. /\ pc' \in [Tasks -> Labels] /\ target' \in [Tasks -> 0 .. Len(copies)]
         /\ place' \in [Tasks -> [left : 0 .. Len(copies), right : 0 .. Len(copies)]]
    BY <1>0, <2>8, <2>9
  <2>12. Entry' = Entry
    BY <2>5 DEF Entry
  <2>13. TypeOK'
    BY <2>5, <2>7, <2>9, <2>10, <2>11, <2>12 DEF TypeOK
  <2>14. \A u \in Tasks : pc'[u] = pc[u] \/ (pc'[u] = "assign" /\ u = t)
    BY <2>8, <2>9
  <2>15. TasksAreReady'
    BY <2>5, <2>8, <2>9, <2>14 DEF TasksAreReady
  <2>16. QED
    BY <2>13, <2>15 DEF TypeInv
<1>12. ASSUME NEW t \in Tasks, TornMapFails(t) PROVE TypeInv'
  <2>1. PICK a \in {"findAddress", "locate", "link"} : Die(t, a, "torn map")
    BY <1>12 DEF TornMapFails
  <2>2. QED
    BY <2>1, TypeInvDie
<1>13. ASSUME NEW t \in Tasks, Assign(t) PROVE TypeInv'
  <2>1. Len(clients) \in Nat /\ DOMAIN clients = 1 .. Len(clients)
        /\ \A i \in 1 .. Len(clients) : clients[i] \in Entry
    BY LenProperties, ElementOfSeq
  <2>2. ASSUME NEW i \in 1 .. Len(clients) PROVE clients'[i] \in Entry
    <3>1. clients'[i] = IF clients[i].node = target[t]
                        THEN [clients[i] EXCEPT !.value = renderer[t]] ELSE clients[i]
      BY <1>13, <2>1 DEF Assign
    <3>2. clients[i] \in Entry /\ renderer[t] \in 0 .. Len(copies)
      BY <2>1
    <3>3. [clients[i] EXCEPT !.value = renderer[t]] \in Entry
      BY <3>2 DEF Entry
    <3>4. QED
      BY <3>1, <3>2, <3>3
  <2>3. clients' \in [1 .. Len(clients) -> Entry]
    BY <1>13, <2>1, <2>2 DEF Assign
  <2>4. clients' \in Seq(Entry)
    BY <2>1, <2>3, FunctionIsSeq
  <2>5. Entry' = Entry /\ crashed' = crashed /\ torn' = torn
    BY <1>13 DEF Assign, Entry
  <2>6. QED
    BY <1>0, <1>13, <2>4, <2>5 DEF Assign
<1>14. ASSUME NEW t \in Tasks, Respond(t) PROVE TypeInv'
  <2>1. UNCHANGED <<config, copies, client, agent, path, clients, place, renderer, target, torn, requests, crashed>>
    BY <1>14 DEF Respond
  <2>2. /\ pc[t] = "route" /\ pc' = [pc EXCEPT ![t] = "reading"]
        /\ response' = [response EXCEPT ![t] = IF HasRoute(path[t]) THEN 200 ELSE 500]
    BY <1>14 DEF Respond
  <2>3. /\ pc \in [Tasks -> Labels] /\ response \in [Tasks -> {0, 200, 500}] /\ "reading" \in Labels
        /\ TypeOK /\ TasksAreReady
    OBVIOUS
  <2> HIDE DEF TypeInv, TypeOK, TasksAreReady, Step, Die, Labels, Deaths
  <2>4. Entry' = Entry
    BY <2>1 DEF Entry
  <2>5. pc' \in [Tasks -> Labels] /\ response' \in [Tasks -> {0, 200, 500}]
    BY <2>2, <2>3
  <2>6. TypeOK'
    BY <2>1, <2>3, <2>4, <2>5 DEF TypeOK
  <2>7. \A u \in Tasks : pc'[u] = pc[u] \/ (pc'[u] = "reading" /\ u = t)
    BY <2>2, <2>3
  <2>8. TasksAreReady'
    BY <2>1, <2>2, <2>3, <2>7 DEF TasksAreReady
  <2>9. QED
    BY <2>6, <2>8 DEF TypeInv
<1>15. ASSUME NEW t \in Tasks, LogsNullRenderer(t) PROVE TypeInv'
  BY <1>15, TypeInvDie DEF LogsNullRenderer
<1>16. CASE UNCHANGED vars
  <2>1. UNCHANGED <<pc, client, agent, path, renderer, copies, clients, place, target, torn, response, crashed,
                    requests>>
    BY <1>16 DEF vars
  <2>2. Entry' = Entry
    BY <2>1 DEF Entry
  <2>3. TypeOK'
    BY <2>1, <2>2
  <2>4. QED
    BY <2>1, <2>3
<1>17. QED
  BY <1>1, <1>2, <1>3, <1>4, <1>5, <1>6, <1>7, <1>8, <1>9, <1>10, <1>11, <1>12, <1>13,
     <1>14, <1>15, <1>16, <1>18, <1>19, <1>20, <1>22 DEF Next, Handle, Dead

\* Every reachable state is well typed.
THEOREM TypeCorrect == Spec => []TypeOK
<1>1. Init => TypeInv
  BY TypeInvInit
<1>2. TypeInv /\ [Next]_vars => TypeInv'
  BY TypeInvNext
<1>3. TypeInv => TypeOK
  BY DEF TypeInv
<1>4. QED
  BY <1>1, <1>2, <1>3, PTL DEF Spec

-----------------------------------------------------------------------------
(* The clients form a chain                                                 *)

ChainInv == ClientsFormAChain /\ PlacesAreSound

\* What a step leaves alone when it neither links nor looks for a place to.
SameOrder ==
  /\ Len(clients') = Len(clients) /\ DOMAIN clients' = DOMAIN clients
  /\ \A i \in 1 .. Len(clients) : /\ clients'[i].key = clients[i].key
                                  /\ clients'[i].node = clients[i].node

SameLinkers ==
  \A t \in Tasks : /\ pc'[t] = "link" <=> pc[t] = "link"
                   /\ pc[t] = "link" => client'[t] = client[t]

LEMMA ChainIsUndisturbed ==
  ASSUME TypeInv, ChainInv, SameOrder, SameLinkers, UNCHANGED <<place, torn>>
  PROVE  ChainInv'
<1>1. Len(clients) \in Nat /\ DOMAIN clients = 1 .. Len(clients)
  BY LenProperties DEF TypeInv, TypeOK
<1>2. ClientsFormAChain'
  BY <1>1 DEF ChainInv, ClientsFormAChain, SameOrder, IsChain
<1>3. ASSUME NEW p \in Int PROVE NodeAt(p)' = NodeAt(p)
  BY <1>1 DEF SameOrder, NodeAt
<1>4. ASSUME NEW t \in Tasks, pc[t] = "link", PlaceIsSound(t) PROVE PlaceIsSound(t)'
  <2>1. PICK p \in 1 .. Len(clients) + 1 :
          /\ place[t] = [left |-> NodeAt(p - 1), right |-> NodeAt(p)]
          /\ p # 1 => Less(clients[p - 1].key, client[t])
          /\ p # Len(clients) + 1 => Less(client[t], clients[p].key)
    BY <1>4 DEF PlaceIsSound
  <2>2. client'[t] = client[t] /\ place'[t] = place[t] /\ Len(clients') = Len(clients)
    BY <1>4 DEF SameLinkers, SameOrder
  <2>3. NodeAt(p - 1)' = NodeAt(p - 1) /\ NodeAt(p)' = NodeAt(p)
    BY <1>1, <1>3
  <2>4. /\ p # 1 => clients'[p - 1].key = clients[p - 1].key
        /\ p # Len(clients) + 1 => clients'[p].key = clients[p].key
    BY <1>1 DEF SameOrder
  <2>5. /\ place'[t] = [left |-> NodeAt(p - 1)', right |-> NodeAt(p)']
        /\ p # 1 => Less(clients'[p - 1].key, client'[t])
        /\ p # Len(clients') + 1 => Less(client'[t], clients'[p].key)
    BY <2>1, <2>2, <2>3, <2>4
  <2>6. QED
    BY <2>2, <2>5 DEF PlaceIsSound
<1>5. PlacesAreSound'
  BY <1>4 DEF ChainInv, PlacesAreSound, SameLinkers
<1>6. QED
  BY <1>2, <1>5 DEF ChainInv

\* Keys of nodes are addresses.
LEMMA ClientsAreKeyed ==
  ASSUME TypeOK
  PROVE  Keyed(clients) /\ Len(clients) \in Nat /\ DOMAIN clients = 1 .. Len(clients)
<1>1. Len(clients) \in Nat /\ DOMAIN clients = 1 .. Len(clients)
  BY LenProperties DEF TypeOK
<1>2. \A i \in 1 .. Len(clients) : clients[i] \in Entry
  BY ElementOfSeq DEF TypeOK
<1>3. QED
  BY <1>1, <1>2 DEF Keyed, Entry

\* A search that nothing disturbed and that misses has found a sound place.
LEMMA LocateMissIsSound ==
  ASSUME TypeInv, NEW t \in Tasks, LocateMiss(t), ~Disturbed(t)
  PROVE  PlaceIsSound(t)'
<1>1. PICK g \in SearchResults(t) :
        /\ ~Hit(clients, client[t], g)
        /\ place' = [place EXCEPT ![t] = [left |-> NodeAt(g[1]), right |-> NodeAt(g[2])]]
  BY DEF LocateMiss
<1>2. g \in Gaps(clients, client[t])
  BY DEF SearchResults
<1>3. /\ g[2] \in 1 .. Len(clients) + 1 /\ g[2] = g[1] + 1 /\ g[1] \in 0 .. Len(clients)
      /\ g[1] # 0 => Less(clients[g[1]].key, client[t])
      /\ g[2] # Len(clients) + 1 => Less(client[t], clients[g[2]].key)
  BY <1>1, <1>2 DEF Gaps, Descents, Hit
<1>4. Len(clients) \in Nat
  BY LenProperties DEF TypeInv, TypeOK
<1>5. g[1] = g[2] - 1 /\ (g[2] # 1 => g[1] # 0)
  BY <1>3, <1>4
<1>6. clients' = clients /\ client' = client
  BY DEF LocateMiss, taskVars
<1>7. place'[t] = [left |-> NodeAt(g[2] - 1), right |-> NodeAt(g[2])]
  BY <1>1, <1>5 DEF TypeInv, TypeOK
<1>8. NodeAt(g[2] - 1)' = NodeAt(g[2] - 1) /\ NodeAt(g[2])' = NodeAt(g[2])
  BY <1>6 DEF NodeAt
<1>9. QED
  BY <1>3, <1>5, <1>6, <1>7, <1>8 DEF PlaceIsSound

\* A node linked at a sound place extends the chain.
LEMMA LinkKeepsChain ==
  ASSUME TypeInv, ChainInv, NEW t \in Tasks, Link(t), ~torn'
  PROVE  IsChain(clients')
<1>1. ~torn /\ \A u \in Tasks \ {t} : pc[u] # "link"
  BY DEF Link
<1>2. pc[t] = "link" /\ IsChain(clients) /\ PlaceIsSound(t)
  BY <1>1 DEF Link, Step, ChainInv, ClientsFormAChain, PlacesAreSound
<1>3. PICK q \in LinkPositions(clients, place[t].left, place[t].right) :
        clients' = InsertAt(clients, q, NewNode(t))
  BY <1>1 DEF Link
<1>4. PICK p \in 1 .. Len(clients) + 1 :
        /\ place[t] = [left |-> NodeAt(p - 1), right |-> NodeAt(p)]
        /\ p # 1 => Less(clients[p - 1].key, client[t])
        /\ p # Len(clients) + 1 => Less(client[t], clients[p].key)
  BY <1>2 DEF PlaceIsSound
<1>5. Keyed(clients) /\ Len(clients) \in Nat /\ DOMAIN clients = 1 .. Len(clients)
  BY ClientsAreKeyed DEF TypeInv
<1>6. q \in 1 .. Len(clients) + 1
      /\ \A i \in 1 .. Len(clients) : /\ clients[i].node = place[t].left => i < q
                                      /\ clients[i].node = place[t].right => q <= i
  BY <1>3, <1>5 DEF LinkPositions
<1>7. p # 1 => p - 1 < q
  <2>1. p # 1 => p - 1 \in 1 .. Len(clients) /\ clients[p - 1].node = place[t].left
    BY <1>4, <1>5 DEF NodeAt
  <2>2. QED
    BY <1>6, <2>1
<1>8. p # Len(clients) + 1 => q <= p
  <2>1. p # Len(clients) + 1 => p \in 1 .. Len(clients) /\ clients[p].node = place[t].right
    BY <1>4, <1>5 DEF NodeAt
  <2>2. QED
    BY <1>6, <2>1
<1>9. q = p
  BY <1>5, <1>6, <1>7, <1>8
<1>10. NewNode(t) \in Entry /\ NewNode(t).key = client[t] /\ client[t] \in Address
  <2>1. Len(copies) \in Nat
    BY LenProperties DEF TypeInv, TypeOK
  <2>2. QED
    BY <1>2, <2>1 DEF NewNode, Entry, TypeInv, TypeOK, TasksAreReady
<1>11. clients \in Seq(Entry)
  BY DEF TypeInv, TypeOK
<1>12. QED
  BY <1>2, <1>3, <1>4, <1>5, <1>9, <1>10, <1>11, InsertKeepsChain

LEMMA ChainInvNext == TypeInv /\ ChainInv /\ [Next]_vars => ChainInv'
<1> SUFFICES ASSUME TypeInv, ChainInv, [Next]_vars PROVE ChainInv'
  OBVIOUS
<1> USE DEF Step, Die, mapVars, taskVars
<1>0. pc \in [Tasks -> Labels] /\ client \in [Tasks -> Address \union {NoClient}]
  BY DEF TypeInv, TypeOK
<1>1. SameOrder \/ clients' # clients
  BY DEF SameOrder
<1>2. ASSUME NEW t \in Tasks,
             \/ Accept(t) \/ ReadRequest(t) \/ Disconnect(t) \/ SetupResponse(t)
             \/ FindAddressHit(t) \/ FindAddressMiss(t) \/ FindHeadersHit(t)
             \/ FindHeadersMiss(t) \/ DefaultRenderer(t) \/ LocateHit(t) \/ Respond(t)
      PROVE  ChainInv'
  <2>1. UNCHANGED <<clients, place, torn>>
    BY <1>2 DEF Accept, ReadRequest, Disconnect, SetupResponse, FindAddressHit, FindAddressMiss,
         FindHeadersHit, FindHeadersMiss, DefaultRenderer, LocateHit, Respond
  <2>2. \E a, b \in Labels \ {"link"} : pc[t] = a /\ pc' = [pc EXCEPT ![t] = b]
    BY <1>2 DEF Accept, ReadRequest, Disconnect, SetupResponse, FindAddressHit, FindAddressMiss,
         FindHeadersHit, FindHeadersMiss, DefaultRenderer, LocateHit, Respond, Labels
  <2>3. client' = client \/ \E a : client' = [client EXCEPT ![t] = a]
    BY <1>2 DEF Accept, ReadRequest, Disconnect, SetupResponse, FindAddressHit, FindAddressMiss,
         FindHeadersHit, FindHeadersMiss, DefaultRenderer, LocateHit, Respond
  <2>4. SameLinkers
    BY <1>0, <2>2, <2>3 DEF SameLinkers
  <2>5. QED
    BY <1>1, <2>1, <2>4, ChainIsUndisturbed
<1>3. ASSUME NEW t \in Tasks,
             LogsMissingUserAgent(t) \/ FindHeadersThrows(t) \/ CopiesMissingDefault(t)
               \/ LogsNullRenderer(t) \/ TornMapFails(t)
      PROVE  ChainInv'
  <2>1. UNCHANGED <<pc, clients, client, place, torn>>
    BY <1>3 DEF LogsMissingUserAgent, FindHeadersThrows, CopiesMissingDefault, LogsNullRenderer, TornMapFails
  <2>2. QED
    BY <1>1, <2>1, ChainIsUndisturbed DEF SameLinkers
<1>4. ASSUME NEW t \in Tasks, LocateMiss(t) PROVE ChainInv'
  <2>1. UNCHANGED <<clients, client, torn>> /\ pc[t] = "locate" /\ pc' = [pc EXCEPT ![t] = "link"]
    BY <1>4 DEF LocateMiss
  <2>2. ClientsFormAChain'
    BY <2>1 DEF ChainInv, ClientsFormAChain
  <2>3. ASSUME ~torn', NEW u \in Tasks, pc'[u] = "link",
               \A v \in Tasks \ {u} : pc'[v] # "link"
        PROVE  PlaceIsSound(u)'
    <3>1. u = t
      BY <1>0, <2>1, <2>3
    <3>2. ~Disturbed(t)
      BY <1>0, <2>1, <2>3, <3>1 DEF Disturbed
    <3>3. QED
      BY <1>4, <3>1, <3>2, LocateMissIsSound
  <2>4. QED
    BY <2>2, <2>3 DEF ChainInv, PlacesAreSound
<1>5. ASSUME NEW t \in Tasks, Link(t) PROVE ChainInv'
  <2>1. ClientsFormAChain'
    BY <1>5, LinkKeepsChain DEF ClientsFormAChain
  <2>2. ~torn' => \A u \in Tasks : pc'[u] # "link"
    BY <1>0, <1>5 DEF Link
  <2>3. QED
    BY <2>1, <2>2 DEF ChainInv, PlacesAreSound
<1>6. ASSUME NEW t \in Tasks, Assign(t) PROVE ChainInv'
  <2>1. Len(clients) \in Nat /\ DOMAIN clients = 1 .. Len(clients)
        /\ \A i \in 1 .. Len(clients) : clients[i] \in Entry
    BY LenProperties, ElementOfSeq DEF TypeInv, TypeOK
  <2>2. clients' \in Seq(Entry') /\ DOMAIN clients' = DOMAIN clients
    BY <1>6, TypeInvNext DEF Assign, TypeInv, TypeOK
  <2>3. Len(clients') = Len(clients)
    BY <2>1, <2>2, LenProperties
  <2>4. \A i \in 1 .. Len(clients) :
          clients'[i].key = clients[i].key /\ clients'[i].node = clients[i].node
    BY <1>6, <2>1 DEF Assign, Entry
  <2>5. SameOrder
    BY <2>2, <2>3, <2>4 DEF SameOrder
  <2>6. SameLinkers /\ UNCHANGED <<place, torn>>
    BY <1>0, <1>6 DEF Assign, SameLinkers
  <2>7. QED
    BY <2>5, <2>6, ChainIsUndisturbed
<1>7. CASE UNCHANGED vars
  BY <1>1, <1>7, ChainIsUndisturbed DEF vars, SameLinkers
<1>8. QED
  BY <1>2, <1>3, <1>4, <1>5, <1>6, <1>7 DEF Next, Handle, Dead

\* The invariant is inductive.
THEOREM IInvInductive == Spec => []IInv
<1>1. Init => TypeInv /\ ChainInv
  <2>1. SUFFICES ASSUME Init PROVE TypeInv /\ ChainInv
    OBVIOUS
  <2>2. Len(clients) = 0
    BY <2>1 DEF Init
  <2>3. ClientsFormAChain /\ PlacesAreSound
    BY <2>1, <2>2 DEF Init, ClientsFormAChain, IsChain, PlacesAreSound
  <2>4. QED
    BY <2>1, <2>3, TypeInvInit DEF ChainInv
<1>2. TypeInv /\ ChainInv /\ [Next]_vars => TypeInv' /\ ChainInv'
  BY TypeInvNext, ChainInvNext
<1>3. TypeInv /\ ChainInv => IInv
  BY DEF IInv, TypeInv, ChainInv
<1>4. QED
  BY <1>1, <1>2, <1>3, PTL DEF Spec

(***************************************************************************)
(* The keys of _clients increase in IP address and port from node to node   *)
(* for as long as no two tasks link at once, although the comparator        *)
(* (manager.hpp:15-23) is not the order std::map asks for.                  *)
(***************************************************************************)
THEOREM ChainCorrect == Spec => []ClientsFormAChain
<1>1. IInv => ClientsFormAChain
  BY DEF IInv
<1>2. QED
  BY <1>1, IInvInductive, PTL

(***************************************************************************)
(* So what find(addr) and operator[] (manager.cpp:43,97) return does not    *)
(* depend on the shape of the tree.                                         *)
(***************************************************************************)
THEOREM LookupCorrect == Spec => []LookupIgnoresShape
<1>1. IInv => LookupIgnoresShape
  <2>1. SUFFICES ASSUME IInv, ~torn PROVE LookupIgnoresShape
    BY DEF LookupIgnoresShape
  <2>2. Keyed(clients) /\ IsChain(clients)
        /\ Len(clients) \in Nat /\ DOMAIN clients = 1 .. Len(clients)
    BY <2>1, ClientsAreKeyed DEF IInv, ClientsFormAChain
  <2>3. ASSUME NEW a \in Address PROVE Cardinality(Gaps(clients, a)) = 1
    <3>1. PICK g : g \in Gaps(clients, a)
      BY <2>2, GapExists
    <3>2. Gaps(clients, a) = {g}
      BY <2>2, <3>1, ChainHasOneGap
    <3>3. QED
      BY <3>2, FS_Singleton
  <2>4. \A i \in DOMAIN clients : Gaps(clients, clients[i].key) = {<<i - 1, i>>}
    BY <2>2, ChainFindsItsKeys
  <2>5. QED
    BY <2>3, <2>4 DEF LookupIgnoresShape
<1>2. QED
  BY <1>1, IInvInductive, PTL

-----------------------------------------------------------------------------
(* Null values in _clients                                                  *)

LEMMA NullValuesNext ==
  TypeInv /\ NullValuesAreBeingAssigned /\ [Next]_vars => NullValuesAreBeingAssigned'
<1> SUFFICES ASSUME TypeInv, NullValuesAreBeingAssigned, [Next]_vars
             PROVE  NullValuesAreBeingAssigned'
  OBVIOUS
<1> USE DEF Step, Die, mapVars, taskVars
<1>0. /\ pc \in [Tasks -> Labels] /\ target \in [Tasks -> 0 .. Len(copies)]
      /\ Len(clients) \in Nat /\ DOMAIN clients = 1 .. Len(clients)
      /\ \A i \in 1 .. Len(clients) : clients[i] \in Entry
  BY LenProperties, ElementOfSeq DEF TypeInv, TypeOK
<1>1. ASSUME UNCHANGED clients,
             \A t \in Tasks : pc[t] = "assign" => pc'[t] = "assign" /\ target'[t] = target[t]
      PROVE  NullValuesAreBeingAssigned'
  BY <1>1 DEF NullValuesAreBeingAssigned
<1>2. ASSUME NEW t \in Tasks,
             \/ Accept(t) \/ ReadRequest(t) \/ Disconnect(t) \/ SetupResponse(t)
             \/ FindAddressHit(t) \/ FindAddressMiss(t) \/ FindHeadersHit(t)
             \/ FindHeadersMiss(t) \/ DefaultRenderer(t) \/ LocateMiss(t) \/ Respond(t)
      PROVE  NullValuesAreBeingAssigned'
  <2>1. UNCHANGED <<clients, target>>
    BY <1>2 DEF Accept, ReadRequest, Disconnect, SetupResponse, FindAddressHit, FindAddressMiss,
         FindHeadersHit, FindHeadersMiss, DefaultRenderer, LocateMiss, Respond
  <2>2. pc[t] # "assign" /\ \E b \in Labels : pc' = [pc EXCEPT ![t] = b]
    BY <1>2 DEF Accept, ReadRequest, Disconnect, SetupResponse, FindAddressHit, FindAddressMiss,
         FindHeadersHit, FindHeadersMiss, DefaultRenderer, LocateMiss, Respond, Labels
  <2>3. QED
    BY <1>0, <1>1, <2>1, <2>2
<1>3. ASSUME NEW t \in Tasks,
             LogsMissingUserAgent(t) \/ FindHeadersThrows(t) \/ CopiesMissingDefault(t)
               \/ LogsNullRenderer(t) \/ TornMapFails(t)
      PROVE  NullValuesAreBeingAssigned'
  <2>1. UNCHANGED <<pc, clients, target>>
    BY <1>3 DEF LogsMissingUserAgent, FindHeadersThrows, CopiesMissingDefault, LogsNullRenderer, TornMapFails
  <2>2. QED
    BY <1>1, <2>1
<1>4. ASSUME NEW t \in Tasks, LocateHit(t) PROVE NullValuesAreBeingAssigned'
  <2>1. /\ UNCHANGED clients /\ pc[t] = "locate" /\ pc' = [pc EXCEPT ![t] = "assign"]
        /\ \E n : target' = [target EXCEPT ![t] = n]
    BY <1>4 DEF LocateHit
  <2>2. QED
    BY <1>0, <1>1, <2>1
<1>5. ASSUME NEW t \in Tasks, Link(t) PROVE NullValuesAreBeingAssigned'
  <2>1. /\ pc[t] = "link" /\ pc' = [pc EXCEPT ![t] = "assign"]
        /\ target' = [target EXCEPT ![t] = renderer[t]]
    BY <1>5 DEF Link
  <2>2. PICK rest \in IF torn THEN Remainders(clients) ELSE {clients} :
          \E p \in LinkPositions(rest, place[t].left, place[t].right) :
            clients' = InsertAt(rest, p, NewNode(t))
    BY <1>5 DEF Link
  <2>3. PICK p \in LinkPositions(rest, place[t].left, place[t].right) :
          clients' = InsertAt(rest, p, NewNode(t))
    BY <2>2
  <2>4. clients \in Seq(Entry)
    BY DEF TypeInv, TypeOK
  <2>5. rest \in Seq(Entry) /\ \A i \in 1 .. Len(rest) : \E j \in 1 .. Len(clients) : rest[i] = clients[j]
    BY <2>2, <2>4, RemaindersType
  <2>6. NewNode(t) \in Entry
    <3>1. Len(copies) \in Nat
      BY LenProperties DEF TypeInv, TypeOK
    <3>2. QED
      BY <2>1, <3>1 DEF NewNode, Entry, TypeInv, TypeOK, TasksAreReady
  <2>7. /\ p \in 1 .. Len(rest) + 1 /\ Len(rest) \in Nat
        /\ clients' \in Seq(Entry) /\ Len(clients') = Len(rest) + 1
        /\ \A i \in 1 .. Len(rest) + 1 :
             clients'[i] = IF i < p THEN rest[i] ELSE IF i = p THEN NewNode(t) ELSE rest[i - 1]
    <3>1. p \in 1 .. Len(rest) + 1
      BY <2>3 DEF LinkPositions
    <3>2. Len(rest) \in Nat
      BY <2>5, LenProperties
    <3> DEFINE e == NewNode(t)
               c == InsertAt(rest, p, e)
    <3>3. rest \in Seq(Entry) /\ e \in Entry
      BY <2>5, <2>6
    <3> HIDE DEF e
    <3>4. /\ c \in Seq(Entry) /\ Len(c) = Len(rest) + 1
          /\ \A i \in 1 .. Len(rest) + 1 :
               c[i] = IF i < p THEN rest[i] ELSE IF i = p THEN e ELSE rest[i - 1]
      BY <3>1, <3>3, InsertAtElements
    <3> HIDE DEF c
    <3>5. clients' = c
      BY <2>3 DEF c, e
    <3>6. QED
      BY <3>1, <3>2, <3>4, <3>5 DEF e
  <2>8. DOMAIN clients' = 1 .. Len(rest) + 1
    BY <2>7, LenProperties
  <2>9. ASSUME NEW i \in 1 .. Len(rest) + 1
        PROVE  clients'[i] = NewNode(t) \/ \E j \in 1 .. Len(clients) : clients'[i] = clients[j]
    <3>1. CASE i = p
      BY <2>7, <3>1
    <3>2. CASE i < p
      BY <2>5, <2>7, <3>2
    <3>3. CASE p < i
      <4>1. i - 1 \in 1 .. Len(rest) /\ clients'[i] = rest[i - 1]
        BY <2>7, <3>3
      <4>2. QED
        BY <2>5, <4>1
    <3>4. QED
      BY <2>7, <3>1, <3>2, <3>3
  <2>10. ASSUME NEW i \in 1 .. Len(rest) + 1, clients'[i].value = 0
         PROVE  \E u \in Tasks : pc'[u] = "assign" /\ target'[u] = clients'[i].node
    <3>1. CASE clients'[i] = NewNode(t)
      BY <1>0, <2>1, <3>1 DEF NewNode
    <3>2. CASE \E j \in 1 .. Len(clients) : clients'[i] = clients[j]
      <4>1. PICK u \in Tasks : pc[u] = "assign" /\ target[u] = clients'[i].node
        BY <1>0, <2>10, <3>2 DEF NullValuesAreBeingAssigned
      <4>2. pc'[u] = "assign" /\ target'[u] = target[u]
        BY <1>0, <2>1, <4>1
      <4>3. QED
        BY <4>1, <4>2
    <3>3. QED
      BY <2>9, <3>1, <3>2
  <2>11. QED
    BY <2>8, <2>10 DEF NullValuesAreBeingAssigned
<1>6. ASSUME NEW t \in Tasks, Assign(t) PROVE NullValuesAreBeingAssigned'
  <2>1. pc[t] = "assign" /\ pc' = [pc EXCEPT ![t] = "route"] /\ target' = [target EXCEPT ![t] = 0]
    BY <1>6 DEF Assign
  <2>2. renderer[t] # 0
    BY <2>1 DEF TypeInv, TasksAreReady
  <2>3. DOMAIN clients' = DOMAIN clients
    BY <1>6 DEF Assign
  <2>4. ASSUME NEW i \in 1 .. Len(clients), clients'[i].value = 0
        PROVE  \E u \in Tasks : pc'[u] = "assign" /\ target'[u] = clients'[i].node
    <3>1. clients'[i] = IF clients[i].node = target[t]
                        THEN [clients[i] EXCEPT !.value = renderer[t]] ELSE clients[i]
      BY <1>0, <1>6 DEF Assign
    <3>2. clients[i].node # target[t] /\ clients'[i] = clients[i]
      BY <1>0, <2>2, <2>4, <3>1 DEF Entry
    <3>3. PICK u \in Tasks : pc[u] = "assign" /\ target[u] = clients[i].node
      BY <1>0, <2>4, <3>2 DEF NullValuesAreBeingAssigned
    <3>4. u # t
      BY <3>2, <3>3
    <3>5. pc'[u] = "assign" /\ target'[u] = target[u]
      BY <1>0, <2>1, <3>3, <3>4
    <3>6. QED
      BY <3>2, <3>3, <3>5
  <2>5. QED
    BY <1>0, <2>3, <2>4 DEF NullValuesAreBeingAssigned
<1>7. CASE UNCHANGED vars
  BY <1>1, <1>7 DEF vars
<1>8. QED
  BY <1>2, <1>3, <1>4, <1>5, <1>6, <1>7 DEF Next, Handle, Dead

(***************************************************************************)
(* A null Renderer in _clients (between operator[]'s insertion and the      *)
(* assignment, manager.cpp:97) has a task about to replace it, even in a    *)
(* torn tree.                                                               *)
(***************************************************************************)
THEOREM NullValuesCorrect == Spec => []NullValuesAreBeingAssigned
<1>1. Init => NullValuesAreBeingAssigned
  BY DEF Init, NullValuesAreBeingAssigned
<1>2. Init => TypeInv
  BY TypeInvInit
<1>3. TypeInv /\ NullValuesAreBeingAssigned /\ [Next]_vars
        => TypeInv' /\ NullValuesAreBeingAssigned'
  BY TypeInvNext, NullValuesNext
<1>4. QED
  BY <1>1, <1>2, <1>3, PTL DEF Spec

-----------------------------------------------------------------------------
(* Why the process dies                                                     *)

\* A task has found null only next to another one.
NullNeedsAnother ==
  \A t \in Tasks : pc[t] = "route" /\ renderer[t] = 0 => \E u \in Tasks : u # t

LEMMA NullNeedsAnotherNext ==
  TypeInv /\ NullValuesAreBeingAssigned /\ NullNeedsAnother /\ [Next]_vars => NullNeedsAnother'
<1> SUFFICES ASSUME TypeInv, NullValuesAreBeingAssigned, NullNeedsAnother, [Next]_vars
             PROVE  NullNeedsAnother'
  OBVIOUS
<1> USE DEF Step, Die
<1>0. /\ pc \in [Tasks -> Labels] /\ renderer \in [Tasks -> 0 .. Len(copies)] /\ Len(copies) \in Nat
      /\ DOMAIN clients = 1 .. Len(clients)
  BY LenProperties DEF TypeInv, TypeOK
<1>1. ASSUME NEW t \in Tasks, NEW b, pc' = [pc EXCEPT ![t] = b],
             renderer' = renderer \/ \E r : renderer' = [renderer EXCEPT ![t] = r],
             b = "route" => renderer'[t] # 0 \/ \E u \in Tasks : u # t
      PROVE  NullNeedsAnother'
  BY <1>0, <1>1 DEF NullNeedsAnother
<1>2. ASSUME NEW t \in Tasks,
             \/ Accept(t) \/ ReadRequest(t) \/ Disconnect(t) \/ SetupResponse(t) \/ FindAddressMiss(t)
             \/ FindHeadersMiss(t) \/ DefaultRenderer(t) \/ LocateHit(t) \/ LocateMiss(t) \/ Link(t)
             \/ Respond(t)
      PROVE  NullNeedsAnother'
  <2>1. \E b \in Labels \ {"route"} : pc' = [pc EXCEPT ![t] = b]
    BY <1>2 DEF Accept, ReadRequest, Disconnect, SetupResponse, FindAddressMiss, FindHeadersMiss,
         DefaultRenderer, LocateHit, LocateMiss, Link, Respond, Labels
  <2>2. renderer' = renderer \/ \E r : renderer' = [renderer EXCEPT ![t] = r]
    BY <1>2 DEF Accept, ReadRequest, Disconnect, SetupResponse, FindAddressMiss, FindHeadersMiss,
         DefaultRenderer, LocateHit, LocateMiss, Link, Respond
  <2>3. QED
    BY <1>1, <2>1, <2>2
<1>3. ASSUME NEW t \in Tasks, FindAddressHit(t) PROVE NullNeedsAnother'
  <2>1. PICK g \in SearchResults(t) :
          Hit(clients, client[t], g) /\ renderer' = [renderer EXCEPT ![t] = clients[g[2]].value]
    BY <1>3 DEF FindAddressHit
  <2>2. g[2] \in DOMAIN clients
    <3>1. g[2] \in 1 .. Len(clients) + 1 /\ g[2] # Len(clients) + 1
      BY <2>1, SearchResultType DEF Hit, TypeInv
    <3>2. Len(clients) \in Nat
      BY LenProperties DEF TypeInv, TypeOK
    <3>3. QED
      BY <1>0, <3>1, <3>2
  <2>3. pc[t] = "findAddress" /\ pc' = [pc EXCEPT ![t] = "route"]
    BY <1>3 DEF FindAddressHit
  <2>4. renderer'[t] # 0 \/ \E u \in Tasks : u # t
    BY <1>0, <2>1, <2>2, <2>3 DEF NullValuesAreBeingAssigned
  <2>5. QED
    BY <1>1, <2>1, <2>3, <2>4
<1>4. ASSUME NEW t \in Tasks, FindHeadersHit(t) PROVE NullNeedsAnother'
  <2>1. Len(copies') = Len(copies) + 1
    BY <1>4, FirstMatchType, CopiesGrow DEF FindHeadersHit, TypeInv, TypeOK
  <2>2. pc' = [pc EXCEPT ![t] = "route"] /\ renderer' = [renderer EXCEPT ![t] = Len(copies')]
    BY <1>4 DEF FindHeadersHit
  <2>3. renderer'[t] # 0
    BY <1>0, <2>1, <2>2
  <2>4. QED
    BY <1>1, <2>2, <2>3
<1>5. ASSUME NEW t \in Tasks, Assign(t) PROVE NullNeedsAnother'
  <2>1. pc[t] = "assign" /\ pc' = [pc EXCEPT ![t] = "route"] /\ renderer' = renderer
    BY <1>5 DEF Assign
  <2>2. QED
    BY <1>1, <2>1 DEF TypeInv, TasksAreReady
<1>6. ASSUME NEW t \in Tasks,
             LogsMissingUserAgent(t) \/ FindHeadersThrows(t) \/ CopiesMissingDefault(t)
               \/ LogsNullRenderer(t) \/ TornMapFails(t)
      PROVE  NullNeedsAnother'
  BY <1>6 DEF LogsMissingUserAgent, FindHeadersThrows, CopiesMissingDefault, LogsNullRenderer, TornMapFails,
       NullNeedsAnother
<1>7. CASE UNCHANGED vars
  BY <1>7 DEF vars, NullNeedsAnother
<1>8. QED
  BY <1>2, <1>3, <1>4, <1>5, <1>6, <1>7 DEF Next, Handle, Dead

\* No configuration before the first match matches.
LEMMA FirstMatchIsFirst ==
  ASSUME config \in Configurations, NEW ua, NEW i \in DOMAIN Renderers,
         FirstMatch(ua) = 0 \/ i < FirstMatch(ua)
  PROVE  \A j \in 1 .. i : ~CandidateMatches(Renderers[j], ua)
<1> DEFINE accepted == {k \in DOMAIN Renderers : CandidateMatches(Renderers[k], ua)}
<1>1. Len(Renderers) \in Nat /\ DOMAIN Renderers = 1 .. Len(Renderers)
  BY ConfigurationType, LenProperties
<1>2. accepted \in SUBSET Nat /\ 0 \notin accepted
  BY <1>1
<1>3. accepted # {} => Min(accepted) \in accepted /\ \A k \in accepted : Min(accepted) <= k
  BY <1>2, MinIsLeast
<1>4. FirstMatch(ua) = IF accepted = {} THEN 0 ELSE Min(accepted)
  BY DEF FirstMatch
<1>5. ASSUME NEW j \in 1 .. i, CandidateMatches(Renderers[j], ua) PROVE FALSE
  <2>1. j \in accepted
    BY <1>1, <1>5
  <2> HIDE DEF accepted
  <2>2. FirstMatch(ua) = Min(accepted) /\ Min(accepted) \in Nat /\ Min(accepted) # 0 /\ Min(accepted) <= j
    BY <1>2, <1>3, <1>4, <2>1
  <2>3. QED
    BY <1>1, <2>2
<1>6. QED
  BY <1>5

(***************************************************************************)
(* The causes of death the model knows are the only ones: in particular one *)
(* task alone never finds a null renderer (requests.cpp:23), and an         *)
(* expression after the match is never compiled (manager.cpp:70).           *)
(***************************************************************************)
THEOREM CausesOfDeath == Spec => []KnownCausesOfDeath
<1> DEFINE Inv == TypeInv /\ NullValuesAreBeingAssigned /\ NullNeedsAnother /\ KnownCausesOfDeath
<1>1. Init => Inv
  BY TypeInvInit DEF Init, NullValuesAreBeingAssigned, NullNeedsAnother, KnownCausesOfDeath
<1>2. Inv /\ [Next]_vars => KnownCausesOfDeath'
  <2> SUFFICES ASSUME Inv, [Next]_vars PROVE KnownCausesOfDeath'
    OBVIOUS
  <2> USE DEF Die, Step
  <2>1. ASSUME NEW t \in Tasks,
               \/ Accept(t) \/ ReadRequest(t) \/ Disconnect(t) \/ SetupResponse(t)
               \/ FindAddressHit(t) \/ FindAddressMiss(t) \/ FindHeadersHit(t) \/ FindHeadersMiss(t)
               \/ DefaultRenderer(t) \/ LocateHit(t) \/ LocateMiss(t) \/ Link(t) \/ Assign(t) \/ Respond(t)
        PROVE  KnownCausesOfDeath'
    <3>1. crashed' = "no"
      BY <2>1 DEF Accept, ReadRequest, Disconnect, SetupResponse, FindAddressHit, FindAddressMiss,
           FindHeadersHit, FindHeadersMiss, DefaultRenderer, LocateHit, LocateMiss, Link, Assign, Respond
    <3>2. QED
      BY <3>1 DEF KnownCausesOfDeath
  <2>2. ASSUME NEW t \in Tasks, LogsMissingUserAgent(t) PROVE KnownCausesOfDeath'
    BY <2>2 DEF LogsMissingUserAgent, KnownCausesOfDeath, taskVars
  <2>3. ASSUME NEW t \in Tasks, FindHeadersThrows(t) PROVE KnownCausesOfDeath'
    <3>1. PICK i \in DOMAIN Renderers :
            /\ CandidateThrows(Renderers[i], agent[t])
            /\ FirstMatch(agent[t]) = 0 \/ i < FirstMatch(agent[t])
      BY <2>3 DEF FindHeadersThrows, LookupThrows
    <3>2. HasMalformed(Renderers[i])
      BY <3>1 DEF CandidateThrows, HasMalformed
    <3>3. \A j \in 1 .. i : ~CandidateMatches(Renderers[j], agent[t])
      BY <3>1, FirstMatchIsFirst DEF TypeInv, TypeOK
    <3>4. i \in Nat
      BY ConfigurationType, LenProperties DEF TypeInv, TypeOK
    <3>5. \A j \in 1 .. i - 1 : ~CandidateMatches(Renderers[j], agent[t])
      BY <3>3, <3>4
    <3>6. agent' = agent /\ Renderers' = Renderers /\ crashed' = "bad expression"
      BY <2>3, ConfigurationStays DEF FindHeadersThrows, taskVars
    <3>7. QED
      BY <3>1, <3>2, <3>5, <3>6 DEF KnownCausesOfDeath
  <2>4. ASSUME NEW t \in Tasks, CopiesMissingDefault(t) PROVE KnownCausesOfDeath'
    <3>1. ~HasDefault /\ crashed' = "no default"
      BY <2>4 DEF CopiesMissingDefault
    <3>2. ~HasDefault'
      BY <3>1, ConfigurationStays
    <3>3. QED
      BY <3>1, <3>2 DEF KnownCausesOfDeath
  <2>5. ASSUME NEW t \in Tasks, LogsNullRenderer(t) PROVE KnownCausesOfDeath'
    <3>1. PICK u \in Tasks : u # t
      BY <2>5 DEF LogsNullRenderer, NullNeedsAnother
    <3>2. Cardinality(Tasks) > 1
      <4>1. IsFiniteSet(Tasks) /\ Cardinality(Tasks) \in Nat
        BY ConfigurationAssumption, FS_CardinalityType
      <4>2. Cardinality({t, u}) = 2
        <5>1. IsFiniteSet({t}) /\ Cardinality({t}) = 1
          BY FS_Singleton
        <5>2. Cardinality({t} \union {u}) = Cardinality({t}) + 1
          BY <3>1, <5>1, FS_AddElement
        <5>3. {t} \union {u} = {t, u}
          OBVIOUS
        <5>4. QED
          BY <5>1, <5>2, <5>3
      <4>3. Cardinality({t, u}) <= Cardinality(Tasks)
        BY <4>1, FS_Subset
      <4>4. QED
        BY <4>1, <4>2, <4>3
    <3>3. crashed' = "null renderer"
      BY <2>5 DEF LogsNullRenderer
    <3>4. QED
      BY <3>2, <3>3 DEF KnownCausesOfDeath
  <2>6. ASSUME NEW t \in Tasks, TornMapFails(t) PROVE KnownCausesOfDeath'
    BY <2>6 DEF TornMapFails, KnownCausesOfDeath, mapVars
  <2>7. CASE UNCHANGED vars
    <3>1. UNCHANGED <<crashed, agent, torn, config>>
      BY <2>7 DEF vars
    <3>2. Renderers' = Renderers /\ HasDefault' = HasDefault
      BY <3>1 DEF Renderers, HasDefault
    <3>3. QED
      BY <3>1, <3>2 DEF KnownCausesOfDeath
  <2>8. QED
    BY <2>1, <2>2, <2>3, <2>4, <2>5, <2>6, <2>7 DEF Next, Handle, Dead
<1>3. Inv /\ [Next]_vars => Inv'
  BY <1>2, TypeInvNext, NullValuesNext, NullNeedsAnotherNext
<1>4. QED
  BY <1>1, <1>3, PTL DEF Spec

-----------------------------------------------------------------------------
(* Who is bound, and what a client is served                                *)

\* The steps that leave _clients, copies and the renderers of all tasks alone, and
\* take no task into or out of the binding of a client.
Elsewhere ==
  \/ \E t \in Tasks : \/ Accept(t) \/ ReadRequest(t) \/ Disconnect(t) \/ FindAddressMiss(t) \/ FindHeadersMiss(t)
                       \/ Respond(t) \/ LogsMissingUserAgent(t) \/ FindHeadersThrows(t) \/ CopiesMissingDefault(t)
                       \/ LogsNullRenderer(t) \/ TornMapFails(t)
  \/ UNCHANGED vars

Binding(t) == pc[t] \in {"locate", "link", "assign"}

LEMMA ElsewhereEffect ==
  ASSUME TypeInv, Elsewhere
  PROVE  /\ UNCHANGED <<clients, copies, renderer, torn, config>>
         /\ \A t \in Tasks : Binding(t)' <=> Binding(t)
         /\ \A t \in Tasks : pc'[t] = "assign" <=> pc[t] = "assign"
         /\ \A t \in Tasks : Binding(t) \/ pc'[t] = "route" => client'[t] = client[t] /\ agent'[t] = agent[t]
         /\ \A t \in Tasks : pc'[t] = "route" => pc[t] = "route"
<1> USE DEF TypeInv, TypeOK, Labels, Step, Die, mapVars, taskVars, Binding
<1>1. ASSUME NEW t \in Tasks, Accept(t) \/ ReadRequest(t) \/ Disconnect(t)
      PROVE  /\ UNCHANGED <<clients, copies, renderer, torn, config>>
             /\ \A u \in Tasks \ {t} : pc'[u] = pc[u] /\ client'[u] = client[u] /\ agent'[u] = agent[u]
             /\ pc[t] \in {"idle", "reading"} /\ pc'[t] \in {"idle", "reading", "start"}
  BY <1>1 DEF Accept, ReadRequest, Disconnect
<1>2. ASSUME NEW t \in Tasks, FindAddressMiss(t) \/ FindHeadersMiss(t) \/ Respond(t)
      PROVE  /\ UNCHANGED <<clients, copies, renderer, torn, config, client, agent>>
             /\ \A u \in Tasks \ {t} : pc'[u] = pc[u]
             /\ pc[t] \in {"findAddress", "findHeaders", "route"}
             /\ pc'[t] \in {"findHeaders", "defaultRenderer", "reading"}
  BY <1>2 DEF FindAddressMiss, FindHeadersMiss, Respond
<1>3. ASSUME NEW t \in Tasks,
             \/ LogsMissingUserAgent(t) \/ FindHeadersThrows(t) \/ CopiesMissingDefault(t)
             \/ LogsNullRenderer(t) \/ TornMapFails(t)
      PROVE  UNCHANGED <<clients, copies, renderer, torn, config, client, agent, pc>>
  BY <1>3 DEF LogsMissingUserAgent, FindHeadersThrows, CopiesMissingDefault, LogsNullRenderer, TornMapFails
<1>4. CASE \E t \in Tasks : Accept(t) \/ ReadRequest(t) \/ Disconnect(t)
  <2>1. PICK t \in Tasks : Accept(t) \/ ReadRequest(t) \/ Disconnect(t)
    BY <1>4
  <2>2. UNCHANGED <<clients, copies, renderer, torn, config>>
    BY <1>1, <2>1
  <2>3. /\ \A u \in Tasks \ {t} : pc'[u] = pc[u] /\ client'[u] = client[u] /\ agent'[u] = agent[u]
        /\ pc[t] \in {"idle", "reading"} /\ pc'[t] \in {"idle", "reading", "start"}
    BY <1>1, <2>1
  <2> HIDE DEF TypeInv, TypeOK, Step, Die
  <2>4. QED
    BY <2>2, <2>3
<1>5. CASE \E t \in Tasks : FindAddressMiss(t) \/ FindHeadersMiss(t) \/ Respond(t)
  <2>1. PICK t \in Tasks : FindAddressMiss(t) \/ FindHeadersMiss(t) \/ Respond(t)
    BY <1>5
  <2>2. UNCHANGED <<clients, copies, renderer, torn, config, client, agent>>
    BY <1>2, <2>1
  <2>3. /\ \A u \in Tasks \ {t} : pc'[u] = pc[u]
        /\ pc[t] \in {"findAddress", "findHeaders", "route"}
        /\ pc'[t] \in {"findHeaders", "defaultRenderer", "reading"}
    BY <1>2, <2>1
  <2> HIDE DEF TypeInv, TypeOK, Step, Die
  <2>4. QED
    BY <2>2, <2>3
<1>6. CASE \E t \in Tasks : \/ LogsMissingUserAgent(t) \/ FindHeadersThrows(t) \/ CopiesMissingDefault(t)
                           \/ LogsNullRenderer(t) \/ TornMapFails(t)
  <2>1. UNCHANGED <<clients, copies, renderer, torn, config, client, agent, pc>>
    BY <1>3, <1>6
  <2> HIDE DEF TypeInv, TypeOK, Step, Die
  <2>2. QED
    BY <2>1
<1>7. CASE UNCHANGED vars
  BY <1>7 DEF vars
<1>8. QED
  BY <1>4, <1>5, <1>6, <1>7 DEF Elsewhere

LEMMA StepsOfRequests ==
  ASSUME [Next]_vars
  PROVE  \/ Elsewhere
         \/ \E t \in Tasks : \/ SetupResponse(t) \/ FindAddressHit(t) \/ FindHeadersHit(t)
                              \/ DefaultRenderer(t) \/ LocateHit(t) \/ LocateMiss(t) \/ Link(t) \/ Assign(t)
  BY Zenon DEF Next, Handle, Dead, Elsewhere

\* _clients has a node the comparator takes for the one of task t's client.
HasEquivalent(t) == \E i \in DOMAIN clients : Equivalent(client[t], clients[i].key)

ServedTask(t) ==
  pc[t] = "route" /\ renderer[t] # 0 /\ copies[renderer[t]] # FirstMatch(agent[t]) =>
    copies[renderer[t]] = 0 /\ (torn \/ HasEquivalent(t))

\* Only copies of the default configuration are bound, and a task about to set a
\* value has a node to set it in.
BindingsAreDefaults ==
  /\ \A i \in DOMAIN clients : clients[i].value # 0 => copies[clients[i].value] = 0
  /\ \A t \in Tasks : Binding(t) => copies[renderer[t]] = 0
  /\ \A t \in Tasks : pc[t] = "assign" => torn \/ HasEquivalent(t)

ServedInv == BindingsAreDefaults /\ \A t \in Tasks : ServedTask(t)

\* What a step of task t has to do for the invariant to hold after it.
LEMMA ServedStep ==
  ASSUME TypeInv, ServedInv, config' = config, NEW t \in Tasks,
         \A u \in Tasks \ {t} : pc'[u] = pc[u] /\ renderer'[u] = renderer[u] /\ client'[u] = client[u] /\ agent'[u] = agent[u],
         \A c \in 1 .. Len(copies) : copies'[c] = copies[c],
         torn' \/ (~torn /\ \A i \in DOMAIN clients : \E j \in DOMAIN clients' : clients'[j].key = clients[i].key),
         \A i \in DOMAIN clients' : clients'[i].value # 0 => copies'[clients'[i].value] = 0,
         Binding(t)' => copies'[renderer'[t]] = 0,
         pc'[t] = "assign" => torn' \/ HasEquivalent(t)',
         ServedTask(t)'
  PROVE  ServedInv'
<1>1. \A u \in Tasks : renderer[u] \in 0 .. Len(copies) /\ (Binding(u) => renderer[u] # 0)
  BY DEF TypeInv, TypeOK, TasksAreReady, Binding
<1>2. \A u \in Tasks : renderer[u] # 0 => renderer[u] \in 1 .. Len(copies)
  <2>1. Len(copies) \in Nat
    BY LenProperties DEF TypeInv, TypeOK
  <2>2. QED
    BY <1>1, <2>1
<1>3. \A u \in Tasks \ {t} : FirstMatch(agent[u])' = FirstMatch(agent[u])
  BY DEF FirstMatch, Renderers
<1>4. ASSUME NEW u \in Tasks \ {t}, HasEquivalent(u) PROVE torn' \/ HasEquivalent(u)'
  BY <1>4 DEF HasEquivalent
<1>5. ASSUME NEW u \in Tasks \ {t} PROVE /\ Binding(u)' => copies'[renderer'[u]] = 0
                                         /\ pc'[u] = "assign" => torn' \/ HasEquivalent(u)'
  <2>1. Binding(u)' => Binding(u)
    BY DEF Binding
  <2>2. QED
    BY <1>1, <1>2, <1>4, <2>1 DEF ServedInv, BindingsAreDefaults
<1>6. ASSUME NEW u \in Tasks \ {t} PROVE ServedTask(u)'
  <2>1. SUFFICES ASSUME pc'[u] = "route", renderer'[u] # 0, copies'[renderer'[u]] # FirstMatch(agent[u])'
                 PROVE  copies'[renderer'[u]] = 0 /\ (torn' \/ HasEquivalent(u)')
    BY DEF ServedTask
  <2>2. pc[u] = "route" /\ renderer[u] # 0 /\ copies'[renderer'[u]] = copies[renderer[u]]
    BY <1>2, <2>1
  <2>3. copies[renderer[u]] # FirstMatch(agent[u])
    BY <1>3, <2>1, <2>2
  <2>4. QED
    BY <1>4, <2>2, <2>3 DEF ServedInv, ServedTask
<1>7. QED
  BY <1>5, <1>6 DEF ServedInv, BindingsAreDefaults

\* A hit is a node the comparator takes for the address looked for.
LEMMA HitIsEquivalent ==
  ASSUME TypeInv, NEW t \in Tasks, NEW g \in SearchResults(t), Hit(clients, client[t], g)
  PROVE  g[2] \in DOMAIN clients /\ Equivalent(client[t], clients[g[2]].key)
<1>1. g \in Descents(clients, client[t])
  BY DEF SearchResults, Gaps
<1>2. Len(clients) \in Nat /\ DOMAIN clients = 1 .. Len(clients)
  BY LenProperties DEF TypeInv, TypeOK
<1>3. QED
  BY <1>1, <1>2 DEF Descents, Hit, Equivalent

LEMMA ServedLink ==
  ASSUME TypeInv, ServedInv, [Next]_vars, NEW t \in Tasks, Link(t)
  PROVE  ServedInv'
<1> USE DEF Step, mapVars, taskVars
<1>1. PICK rest \in IF torn THEN Remainders(clients) ELSE {clients} :
        \E p \in LinkPositions(rest, place[t].left, place[t].right) :
          clients' = InsertAt(rest, p, NewNode(t))
  BY DEF Link
<1>2. PICK p \in LinkPositions(rest, place[t].left, place[t].right) : clients' = InsertAt(rest, p, NewNode(t))
  BY <1>1
<1>3. clients \in Seq(Entry) /\ Len(clients) \in Nat /\ DOMAIN clients = 1 .. Len(clients)
  BY LenProperties DEF TypeInv, TypeOK
<1>4. rest \in Seq(Entry) /\ \A i \in 1 .. Len(rest) : \E j \in 1 .. Len(clients) : rest[i] = clients[j]
  BY <1>1, <1>3, RemaindersType
<1>5. Len(rest) \in Nat /\ DOMAIN rest = 1 .. Len(rest)
  BY <1>4, LenProperties
<1>6. NewNode(t) \in Entry /\ NewNode(t).key = client[t] /\ NewNode(t).value = 0 /\ client[t] \in Address
  <2>1. Len(copies) \in Nat
    BY LenProperties DEF TypeInv, TypeOK
  <2>2. pc[t] = "link"
    BY DEF Link
  <2>3. QED
    BY <2>1, <2>2 DEF NewNode, Entry, TypeInv, TypeOK, TasksAreReady
<1>7. p \in 1 .. Len(rest) + 1
  BY <1>2 DEF LinkPositions
<1> DEFINE e == NewNode(t)
           c == InsertAt(rest, p, e)
<1>8. e \in Entry /\ e.key = client[t] /\ e.value = 0 /\ clients' = c
  BY <1>2, <1>6
<1> HIDE DEF e
<1>9. /\ \A i \in DOMAIN c : c[i] = e \/ \E k \in DOMAIN rest : c[i] = rest[k]
      /\ \E i \in DOMAIN c : c[i] = e
      /\ \A k \in DOMAIN rest : \E i \in DOMAIN c : c[i] = rest[k]
  <2>1. rest \in Seq(Entry) /\ e \in Entry /\ p \in 1 .. Len(rest) + 1
    BY <1>4, <1>7, <1>8
  <2> QED
    BY <2>1, InsertAtContents
<1> HIDE DEF c
<1>11. ASSUME NEW i \in DOMAIN clients', clients'[i].value # 0 PROVE copies'[clients'[i].value] = 0
  <2>1. \E j \in 1 .. Len(clients) : clients'[i] = clients[j]
    <3>1. clients'[i] # e
      BY <1>8, <1>11
    <3>2. PICK k \in DOMAIN rest : clients'[i] = rest[k]
      BY <1>8, <1>9, <1>11, <3>1
    <3>3. QED
      BY <1>4, <1>5, <3>2
  <2>2. copies' = copies
    BY DEF Link
  <2>3. \A j \in 1 .. Len(clients) : clients[j].value # 0 => copies[clients[j].value] = 0
    BY <1>3 DEF ServedInv, BindingsAreDefaults
  <2>4. QED
    BY <1>11, <2>1, <2>2, <2>3
<1>12. \E i \in DOMAIN clients' : clients'[i].key = client[t]
  BY <1>8, <1>9
<1>13. client' = client /\ pc' = [pc EXCEPT ![t] = "assign"] /\ pc[t] = "link" /\ UNCHANGED <<agent, copies, renderer, config>>
       /\ pc \in [Tasks -> Labels]
  BY DEF Link, TypeInv, TypeOK
<1>14. HasEquivalent(t)'
  <2>1. Equivalent(client[t], client[t])
    BY <1>6, LessIsStrict DEF Equivalent
  <2>2. QED
    BY <1>12, <1>13, <2>1 DEF HasEquivalent
<1>15. torn' \/ (~torn /\ \A i \in DOMAIN clients : \E j \in DOMAIN clients' : clients'[j].key = clients[i].key)
  <2>1. ASSUME ~torn' PROVE \A i \in DOMAIN clients : \E j \in DOMAIN clients' : clients'[j].key = clients[i].key
    <3>1. rest = clients
      BY <1>1, <2>1 DEF Link
    <3>2. QED
      BY <1>8, <1>9, <3>1
  <2>2. torn => torn'
    BY DEF Link
  <2>3. QED
    BY <2>1, <2>2
<1>16. Binding(t)' => copies'[renderer'[t]] = 0
  BY <1>13 DEF ServedInv, BindingsAreDefaults, Binding
<1>17. ServedTask(t)'
  BY <1>13 DEF ServedTask
<1>18. QED
  BY <1>11, <1>13, <1>14, <1>15, <1>16, <1>17, ServedStep

LEMMA ServedLookUps ==
  ASSUME TypeInv, ServedInv, [Next]_vars, NEW t \in Tasks,
         \/ SetupResponse(t) \/ FindAddressHit(t) \/ FindHeadersHit(t) \/ DefaultRenderer(t)
         \/ LocateHit(t) \/ LocateMiss(t)
  PROVE  ServedInv'
<1> USE DEF Step, mapVars, taskVars
<1> DEFINE lookUp == UNCHANGED <<clients, torn, client, agent, config>>
<1>0. Len(copies) \in Nat /\ copies \in Seq(0 .. Len(Renderers))
  BY LenProperties DEF TypeInv, TypeOK
<1>1. /\ lookUp /\ renderer \in [Tasks -> 0 .. Len(copies)] /\ pc \in [Tasks -> Labels]
      /\ \A u \in Tasks \ {t} : pc'[u] = pc[u] /\ renderer'[u] = renderer[u]
  BY DEF TypeInv, TypeOK, SetupResponse, FindAddressHit, FindHeadersHit, DefaultRenderer, LocateHit, LocateMiss
<1>2. \A x \in 1 .. Len(copies) : copies'[x] = copies[x]
  <2>1. CASE copies' = copies
    BY <2>1
  <2>2. CASE \E v \in 0 .. Len(Renderers) : copies' = Append(copies, v)
    BY <1>0, <2>2, CopiesGrow
  <2>3. FirstMatch(agent[t]) \in 0 .. Len(Renderers)
    BY FirstMatchType DEF TypeInv, TypeOK
  <2>4. 0 \in 0 .. Len(Renderers)
    BY <2>3
  <2>5. QED
    BY <2>1, <2>2, <2>3, <2>4
       DEF SetupResponse, FindAddressHit, FindHeadersHit, DefaultRenderer, LocateHit, LocateMiss
<1>3. \A i \in DOMAIN clients : clients[i].value \in 0 .. Len(copies)
  <2>1. clients \in Seq(Entry) /\ DOMAIN clients = 1 .. Len(clients)
    BY LenProperties DEF TypeInv, TypeOK
  <2>2. \A i \in DOMAIN clients : clients[i] \in Entry
    BY <2>1, ElementOfSeq
  <2>3. QED
    BY <2>2 DEF Entry
<1>4. \A i \in DOMAIN clients' : clients'[i].value # 0 => copies'[clients'[i].value] = 0
  <2>1. \A i \in DOMAIN clients : clients[i].value # 0 => clients[i].value \in 1 .. Len(copies)
    BY <1>0, <1>3
  <2>2. QED
    BY <1>1, <1>2, <2>1 DEF ServedInv, BindingsAreDefaults
<1>5. \A g \in SearchResults(t) : Hit(clients, client[t], g) =>
        g[2] \in DOMAIN clients /\ Equivalent(client[t], clients[g[2]].key)
  BY HitIsEquivalent
<1>6. HasEquivalent(t)' <=> HasEquivalent(t)
  BY <1>1 DEF HasEquivalent
<1>7. FirstMatch(agent[t])' = FirstMatch(agent[t])
  BY <1>1 DEF FirstMatch, Renderers
<1>8. /\ Binding(t)' => copies'[renderer'[t]] = 0
      /\ pc'[t] = "assign" => torn' \/ HasEquivalent(t)'
      /\ ServedTask(t)'
  <2>1. CASE SetupResponse(t)
    BY <1>1, <2>1 DEF SetupResponse, Binding, ServedTask
  <2>2. CASE FindAddressHit(t)
    <3>1. pc'[t] = "route"
      BY <1>1, <2>2 DEF FindAddressHit
    <3>2. PICK g \in SearchResults(t) : Hit(clients, client[t], g) /\ renderer' = [renderer EXCEPT ![t] = clients[g[2]].value]
      BY <2>2 DEF FindAddressHit
    <3>3. g[2] \in DOMAIN clients /\ HasEquivalent(t) /\ renderer'[t] = clients[g[2]].value
      BY <1>1, <1>5, <3>2 DEF HasEquivalent
    <3>4. renderer'[t] # 0 => copies'[renderer'[t]] = 0
      BY <1>1, <1>4, <3>3
    <3>5. QED
      BY <1>6, <3>1, <3>3, <3>4 DEF Binding, ServedTask
  <2>3. CASE FindHeadersHit(t)
    <3>1. pc'[t] = "route" /\ copies' = Append(copies, FirstMatch(agent[t])) /\ renderer'[t] = Len(copies')
      BY <1>1, <2>3 DEF FindHeadersHit
    <3>2. FirstMatch(agent[t]) \in 0 .. Len(Renderers)
      BY FirstMatchType DEF TypeInv, TypeOK
    <3>3. copies'[renderer'[t]] = FirstMatch(agent[t])
      BY <1>0, <3>1, <3>2, CopiesGrow
    <3>4. agent' = agent
      BY <1>1
    <3>5. QED
      BY <1>7, <3>1, <3>3, <3>4 DEF Binding, ServedTask
  <2>4. CASE DefaultRenderer(t)
    <3>1. pc'[t] = "locate" /\ copies' = Append(copies, 0) /\ renderer'[t] = Len(copies')
      BY <1>1, <2>4 DEF DefaultRenderer
    <3>2. 0 \in 0 .. Len(Renderers)
      BY LenProperties DEF TypeInv, TypeOK, Renderers, Configuration, ConfigurationAssumption
    <3>3. copies'[renderer'[t]] = 0
      BY <1>0, <3>1, <3>2, CopiesGrow
    <3>4. QED
      BY <3>1, <3>3 DEF ServedTask
  <2>5. CASE LocateHit(t)
    <3>1. pc[t] = "locate" /\ pc'[t] = "assign" /\ UNCHANGED <<renderer, copies>>
      BY <1>1, <2>5 DEF LocateHit
    <3>2. HasEquivalent(t)
      BY <1>5, <2>5 DEF LocateHit, HasEquivalent
    <3>3. QED
      BY <1>6, <3>1, <3>2 DEF Binding, ServedTask, ServedInv, BindingsAreDefaults
  <2>6. CASE LocateMiss(t)
    <3>1. pc[t] = "locate" /\ pc'[t] = "link" /\ UNCHANGED <<renderer, copies>>
      BY <1>1, <2>6 DEF LocateMiss
    <3>2. QED
      BY <3>1 DEF Binding, ServedTask, ServedInv, BindingsAreDefaults
  <2>7. QED
    BY <2>1, <2>2, <2>3, <2>4, <2>5, <2>6
<1>9. torn' \/ (~torn /\ \A i \in DOMAIN clients : \E j \in DOMAIN clients' : clients'[j].key = clients[i].key)
  BY <1>1
<1>10. QED
  BY <1>1, <1>2, <1>4, <1>8, <1>9, ServedStep

LEMMA ServedAssign ==
  ASSUME TypeInv, ServedInv, [Next]_vars, NEW t \in Tasks, Assign(t)
  PROVE  ServedInv'
<1> USE DEF Step, taskVars
<1>1. /\ pc[t] = "assign" /\ pc' = [pc EXCEPT ![t] = "route"]
      /\ UNCHANGED <<torn, client, agent, renderer, copies, config>>
  BY DEF Assign
<1>2. DOMAIN clients' = DOMAIN clients
      /\ \A i \in DOMAIN clients : /\ clients'[i].key = clients[i].key
                                   /\ clients'[i].value \in {clients[i].value, renderer[t]}
  <2>1. clients \in Seq(Entry) /\ DOMAIN clients = 1 .. Len(clients)
    BY LenProperties DEF TypeInv, TypeOK
  <2>2. \A i \in DOMAIN clients : clients[i] \in [key : Address, node : 1 .. Len(copies), value : 0 .. Len(copies)]
    BY <2>1, ElementOfSeq DEF Entry
  <2>3. clients' = [i \in DOMAIN clients |->
                     IF clients[i].node = target[t]
                     THEN [clients[i] EXCEPT !.value = renderer[t]] ELSE clients[i]]
    BY DEF Assign
  <2>4. QED
    BY <2>2, <2>3
<1>3. pc'[t] = "route" /\ copies[renderer[t]] = 0
  BY <1>1 DEF TypeInv, TypeOK, ServedInv, BindingsAreDefaults, Binding
<1>4. \A i \in DOMAIN clients' : clients'[i].value # 0 => copies'[clients'[i].value] = 0
  BY <1>1, <1>2, <1>3 DEF ServedInv, BindingsAreDefaults
<1>5. torn' \/ HasEquivalent(t)'
  BY <1>1, <1>2 DEF HasEquivalent, ServedInv, BindingsAreDefaults
<1>6. torn' \/ (~torn /\ \A i \in DOMAIN clients : \E j \in DOMAIN clients' : clients'[j].key = clients[i].key)
  BY <1>1, <1>2
<1>7. ServedTask(t)'
  BY <1>1, <1>3, <1>5 DEF ServedTask
<1>8. Binding(t)' => copies'[renderer'[t]] = 0
  BY <1>1, <1>3
<1>9. \A u \in Tasks \ {t} : pc'[u] = pc[u] /\ renderer'[u] = renderer[u] /\ client'[u] = client[u] /\ agent'[u] = agent[u]
  BY <1>1 DEF TypeInv, TypeOK
<1>10. QED
  BY <1>1, <1>3, <1>4, <1>5, <1>6, <1>7, <1>8, <1>9, ServedStep

LEMMA ServedElsewhere ==
  ASSUME TypeInv, ServedInv, Elsewhere
  PROVE  ServedInv'
<1>1. /\ UNCHANGED <<clients, copies, renderer, torn, config>>
      /\ \A t \in Tasks : Binding(t)' <=> Binding(t)
      /\ \A t \in Tasks : pc'[t] = "assign" <=> pc[t] = "assign"
      /\ \A t \in Tasks : Binding(t) \/ pc'[t] = "route" => client'[t] = client[t] /\ agent'[t] = agent[t]
      /\ \A t \in Tasks : pc'[t] = "route" => pc[t] = "route"
  BY ElsewhereEffect
<1>2. ASSUME NEW t \in Tasks, client'[t] = client[t] PROVE HasEquivalent(t)' <=> HasEquivalent(t)
  BY <1>1, <1>2 DEF HasEquivalent
<1>3. ASSUME NEW t \in Tasks, agent'[t] = agent[t] PROVE FirstMatch(agent[t])' = FirstMatch(agent[t])
  BY <1>1, <1>3 DEF FirstMatch, Renderers
<1>4. BindingsAreDefaults'
  <2>1. \A t \in Tasks : pc'[t] = "assign" => torn' \/ HasEquivalent(t)'
    BY <1>1, <1>2 DEF ServedInv, BindingsAreDefaults, Binding
  <2>2. QED
    BY <1>1, <2>1 DEF ServedInv, BindingsAreDefaults
<1>5. ASSUME NEW t \in Tasks PROVE ServedTask(t)'
  BY <1>1, <1>2, <1>3 DEF ServedInv, ServedTask
<1>6. QED
  BY <1>4, <1>5 DEF ServedInv

(***************************************************************************)
(* A client is served what its headers select, or the default renderer      *)
(* because _clients binds an address the comparator takes for its own       *)
(* (requests.cpp:11-19, manager.cpp:39-99).                                 *)
(***************************************************************************)
THEOREM ServedCorrect == Spec => []ServedByHeadersOrBinding
<1>1. Init => ServedInv
  BY DEF Init, ServedInv, BindingsAreDefaults, ServedTask, Binding
<1>2. TypeInv /\ ServedInv /\ [Next]_vars => ServedInv'
  BY ServedElsewhere, ServedLookUps, ServedLink, ServedAssign, StepsOfRequests
<1>3. Init => TypeInv
  BY TypeInvInit
<1>4. TypeInv /\ [Next]_vars => TypeInv'
  BY TypeInvNext
<1>5. ServedInv => ServedByHeadersOrBinding
  BY DEF ServedInv, ServedTask, HasEquivalent, ServedByHeadersOrBinding
<1>6. QED
  BY <1>1, <1>2, <1>3, <1>4, <1>5, PTL DEF Spec
=============================================================================
