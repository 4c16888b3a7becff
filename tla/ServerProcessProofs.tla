------------------------- MODULE ServerProcessProofs -------------------------
(***************************************************************************)
(* Theorems about ServerProcess, for any clients, network interfaces, limit *)
(* of tasks and number of descriptors.                                      *)
(***************************************************************************)
EXTENDS ServerProcess, FiniteSetTheorems, SequenceTheorems, WellFoundedInduction, TLAPS

-----------------------------------------------------------------------------
(* The operators the actions are built from                                 *)

LEMMA StatementsAre ==
  /\ DOMAIN Statements = 1 .. 5
  /\ Statements[1] = "init" /\ Statements[2] = "sendAlive" /\ Statements[3] = "listen"
  /\ Statements[4] = "gets" /\ Statements[5] = "return"
  BY DEF Statements

\* There is a first usable interface if there is any.
LEMMA FirstUsable ==
  ASSUME NEW list \in Seq(Interface), NEW usable \in SUBSET DOMAIN list, usable # {}
  PROVE  (CHOOSE i \in usable : \A j \in usable : i <= j) \in usable
<1>1. usable \in SUBSET Nat
  BY LenProperties
<1>2. PICK m \in usable : \A x \in usable : ~(<<x, m>> \in OpToRel(<, Nat))
  BY <1>1, NatLessThanWellFounded, WFMin, Zenon
<1>3. \A x \in usable : ~(x < m)
  BY <1>1, <1>2, Zenon DEF OpToRel
<1>4. \A x \in usable : m <= x
  BY <1>1, <1>3
<1>5. QED
  BY <1>4

\* serverInterface gives out the interface chosen, or one of the list, or none.
LEMMA ServerInterfaceType ==
  ASSUME TypeOK
  PROVE  /\ ServerInterface(interfaces) \in {<<>>} \union {<<i>> : i \in Interface}
         /\ chosen # <<>> => ServerInterface(interfaces) = chosen
<1> DEFINE usable == {i \in DOMAIN interfaces : interfaces[i].usable}
           first == CHOOSE i \in usable : \A j \in usable : i <= j
<1>1. interfaces \in Seq(Interface) /\ Len(interfaces) \in Nat /\ DOMAIN interfaces = 1 .. Len(interfaces)
  BY ProcessAssumption, LenProperties DEF TypeOK
<1>2. \A i \in DOMAIN interfaces : interfaces[i] \in Interface
  BY <1>1, ElementOfSeq
<1>3. usable # {} => first \in usable
  BY <1>1, FirstUsable
<1>4. usable # {} => interfaces[first] \in Interface
  BY <1>2, <1>3
<1>5. Len(interfaces) > 1 => interfaces[1] \in Interface
  BY <1>1, <1>2
<1>6. chosen \in {<<>>} \union {<<i>> : i \in Interface}
  BY DEF TypeOK
<1>7. ServerInterface(interfaces) = IF chosen # <<>> THEN chosen
                                    ELSE IF usable # {} THEN <<interfaces[first]>>
                                    ELSE IF Len(interfaces) > 1 THEN <<interfaces[1]>>
                                    ELSE <<>>
  BY DEF ServerInterface
<1> HIDE DEF usable, first
<1>8. QED
  BY <1>4, <1>5, <1>6, <1>7

-----------------------------------------------------------------------------
(* Steps in groups                                                          *)

\* The steps of the HTTP server's tasks and of its clients.
HttpStep == HttpListener \/ \E c \in Connections : Connect(c) \/ ReadRequest(c) \/ Answer(c) \/ EndTask(c)

\* All others but the start of the HTTP server.
SendAliveStep(th) ==
  \/ CallSendAlive(th) \/ Get(th) \/ Store(th) \/ ChooseInterface(th) \/ InterfaceThrows(th)
  \/ OpenSocket(th) \/ NoSocket(th) \/ BadDescriptor(th) \/ SendAliveReturns(th)
ThreadStep == Main \/ InterfacesChange \/ (\E th \in Threads : SendAliveStep(th)) \/ UNCHANGED vars

LEMMA StepsInGroups ==
  ASSUME [Next]_vars
  PROVE  HttpStep \/ ThreadStep \/ \E th \in Threads : Construct(th)
  BY Zenon DEF Next, HttpStep, ThreadStep, SendAliveStep, SendAlive, Over

HttpEffect ==
  /\ UNCHANGED <<mainVars, lifeVars, serverVars, interfaces, port>>
  /\ running
  /\ listening # "none" => listening' # "none"

LEMMA HttpStepEffect ==
  ASSUME HttpStep
  PROVE  HttpEffect
<1>1. ASSUME Accept \/ StartTask \/ AcceptFails PROVE HttpEffect
  BY <1>1 DEF HttpEffect, Accept, StartTask, AcceptFails, mainVars, lifeVars, serverVars
<1>2. ASSUME NEW c \in Connections, Connect(c) \/ ReadRequest(c) \/ Answer(c) \/ EndTask(c) PROVE HttpEffect
  BY <1>2 DEF HttpEffect, Connect, ReadRequest, Answer, EndTask, Serve, mainVars, lifeVars, serverVars
<1>3. QED
  BY <1>1, <1>2 DEF HttpStep, HttpListener

LEMMA ThreadStepEffect ==
  ASSUME ThreadStep
  PROVE  UNCHANGED httpVars
<1> USE DEF httpVars
<1>1. CASE Main
  BY <1>1 DEF Main, InitRenderers, InitThrows, Listen, Gets, Exit, Ends
<1>2. ASSUME NEW th \in Threads, SendAliveStep(th) PROVE UNCHANGED httpVars
  BY <1>2 DEF SendAliveStep, CallSendAlive, Get, Store, ChooseInterface, InterfaceThrows, OpenSocket, NoSocket,
              BadDescriptor, SendAliveReturns, Ends
<1>3. CASE InterfacesChange
  BY <1>3 DEF InterfacesChange
<1>4. CASE UNCHANGED vars
  BY <1>4 DEF vars
<1>5. QED
  BY <1>1, <1>2, <1>3, <1>4 DEF ThreadStep

-----------------------------------------------------------------------------
(* Type correctness                                                         *)

HttpTypeOK ==
  /\ listening \in {"none", "waiting", "starting", "gone"}
  /\ backlog \in Seq(Connections)
  /\ conn \in [Connections -> {"none", "backlog", "accepted", "reading", "handling"}]
  /\ cancellable \subseteq Connections
  /\ slots \subseteq Connections \union {ListenTask} /\ open \in BOOLEAN

LEMMA TypeInit == Init => TypeOK
<1> SUFFICES ASSUME Init PROVE TypeOK
  OBVIOUS
<1>1. statement \in DOMAIN Statements
  BY StatementsAre DEF Init
<1>2. call \in [Threads -> Places]
  BY DEF Init, Places
<1>3. HttpTypeOK
  BY DEF Init, Slots!Init, HttpTypeOK
<1>4. sockets \in 0 .. Descriptors /\ instances \in Nat
  BY ProcessAssumption DEF Init
<1>5. /\ configured \in BOOLEAN /\ running \in BOOLEAN /\ death \in Deaths /\ instance \in BOOLEAN
      /\ interfaces \in InterfaceLists /\ chosen = <<>> /\ announced \in BOOLEAN
      /\ port \in {"free", "taken", "listened"}
  BY DEF Init, Deaths
<1>6. QED
  BY <1>1, <1>2, <1>3, <1>4, <1>5 DEF TypeOK, HttpTypeOK

LEMMA TypeHttp == TypeOK /\ HttpStep => TypeOK'
<1> SUFFICES ASSUME TypeOK, HttpStep PROVE TypeOK'
  OBVIOUS
<1>1. /\ UNCHANGED <<statement, configured, running, death, call, instance, instances, interfaces, chosen,
                    sockets, announced, port>>
  BY HttpStepEffect DEF HttpEffect, mainVars, lifeVars, serverVars
<1>2. HttpTypeOK'
  <2> USE DEF TypeOK, HttpTypeOK
  <2>1. CASE Accept
    <3>1. Head(backlog) \in Connections /\ Tail(backlog) \in Seq(Connections)
      BY <2>1, HeadTailProperties DEF Accept
    <3>2. cancellable' \subseteq Connections
      BY <2>1, <3>1, Zenon DEF Accept
    <3>3. QED
      BY <2>1, <3>1, <3>2 DEF Accept
  <2>2. CASE StartTask
    BY <2>2 DEF StartTask, Slots!Take
  <2>3. CASE AcceptFails
    BY <2>3 DEF AcceptFails, Slots!Free
  <2>4. ASSUME NEW c \in Connections, Connect(c) PROVE HttpTypeOK'
    BY <2>4, AppendProperties DEF Connect
  <2>5. ASSUME NEW c \in Connections, ReadRequest(c) \/ Answer(c) \/ EndTask(c) PROVE HttpTypeOK'
    BY <2>5 DEF ReadRequest, Answer, EndTask, Serve, Slots!Free
  <2>6. QED
    BY <2>1, <2>2, <2>3, <2>4, <2>5 DEF HttpStep, HttpListener
<1>3. QED
  BY <1>1, <1>2 DEF TypeOK, HttpTypeOK

LEMMA TypeThread == TypeOK /\ ThreadStep => TypeOK'
<1> SUFFICES ASSUME TypeOK, ThreadStep PROVE TypeOK'
  OBVIOUS
<1>1. HttpTypeOK' /\ port' = port
  BY ThreadStepEffect DEF TypeOK, HttpTypeOK, httpVars
<1>2. \A s \in {"init", "sendAlive", "listen", "gets"} : After(s) => statement' \in DOMAIN Statements
  BY StatementsAre DEF TypeOK, After
<1>3. \A th \in Threads, a, b \in Places : Go(th, a, b) => call' \in [Threads -> Places]
  BY DEF Go, TypeOK
<1>4. ASSUME NEW why \in Deaths, Ends(why) PROVE TypeOK'
  BY <1>1, <1>4 DEF Ends, TypeOK, HttpTypeOK, mainVars, serverVars
<1> USE DEF TypeOK, HttpTypeOK, mainVars, lifeVars, serverVars
<1>5. CASE Main
  <2>1. CASE InitRenderers
    BY <1>1, <1>2, <2>1 DEF InitRenderers
  <2>2. CASE InitThrows \/ Exit
    BY <1>4, <2>2 DEF InitThrows, Exit, Deaths
  <2>3. CASE Listen
    <3>1. call' \in [Threads -> Places]
      BY <2>3 DEF Listen, Places
    <3>2. QED
      BY <1>1, <1>2, <2>3, <3>1 DEF Listen
  <2>4. CASE Gets
    BY <1>1, <1>2, <2>4 DEF Gets
  <2>5. QED
    BY <1>5, <2>1, <2>2, <2>3, <2>4 DEF Main
<1>6. CASE InterfacesChange
  BY <1>1, <1>6 DEF InterfacesChange
<1>7. ASSUME NEW th \in Threads, SendAliveStep(th) PROVE TypeOK'
  <2>1. CASE CallSendAlive(th) \/ Get(th) \/ Store(th)
    <3>1. call' \in [Threads -> Places]
      BY <1>3, <2>1 DEF CallSendAlive, Get, Store, Places
    <3>2. QED
      BY <1>1, <2>1, <3>1 DEF CallSendAlive, Get, Store
  <2>2. CASE ChooseInterface(th)
    <3>1. call' \in [Threads -> Places]
      BY <1>3, <2>2 DEF ChooseInterface, Places
    <3>2. chosen' \in {<<>>} \union {<<i>> : i \in Interface}
      BY <2>2, ServerInterfaceType DEF ChooseInterface
    <3>3. QED
      BY <1>1, <2>2, <3>1, <3>2 DEF ChooseInterface
  <2>3. CASE InterfaceThrows(th) \/ BadDescriptor(th)
    BY <1>4, <2>3 DEF InterfaceThrows, BadDescriptor, Deaths
  <2>4. CASE OpenSocket(th)
    <3>1. call' \in [Threads -> Places]
      BY <1>3, <2>4 DEF OpenSocket, Places
    <3>2. Used < Descriptors => sockets < Descriptors
      <4>1. IsFiniteSet(Held) /\ IsFiniteSet(cancellable)
        BY ProcessAssumption, FS_Subset DEF Held
      <4>2. Cardinality(Held) \in Nat /\ Cardinality(cancellable) \in Nat
        BY <4>1, FS_CardinalityType
      <4>3. sockets \in Nat /\ Descriptors \in Nat
        BY ProcessAssumption
      <4>4. QED
        BY <4>2, <4>3 DEF Used
    <3>3. sockets' \in 0 .. Descriptors
      BY <2>4, <3>2, ProcessAssumption DEF OpenSocket
    <3>4. announced' \in BOOLEAN
      BY <2>4 DEF OpenSocket
    <3>5. QED
      BY <1>1, <2>4, <3>1, <3>3, <3>4 DEF OpenSocket
  <2>5. CASE NoSocket(th)
    <3>1. call' \in [Threads -> Places]
      BY <1>3, <2>5 DEF NoSocket, Places
    <3>2. QED
      BY <1>1, <2>5, <3>1 DEF NoSocket
  <2>6. CASE SendAliveReturns(th)
    <3>1. call' \in [Threads -> Places]
      BY <1>3, <2>6 DEF SendAliveReturns, Places
    <3>2. statement' \in DOMAIN Statements
      BY <1>2, <2>6 DEF SendAliveReturns
    <3>3. QED
      BY <1>1, <2>6, <3>1, <3>2 DEF SendAliveReturns
  <2>7. QED
    BY <1>7, <2>1, <2>2, <2>3, <2>4, <2>5, <2>6 DEF SendAliveStep
<1>8. CASE UNCHANGED vars
  BY <1>8 DEF vars, httpVars
<1>9. QED
  BY <1>5, <1>6, <1>7, <1>8 DEF ThreadStep

LEMMA TypeConstruct ==
  ASSUME TypeOK, NEW th \in Threads, Construct(th)
  PROVE  TypeOK'
<1> USE DEF TypeOK, mainVars, lifeVars
<1>1. call' \in [Threads -> Places]
  BY DEF Construct, Go, Places
<1>2. /\ port' \in {"free", "taken", "listened"} /\ listening' \in {"none", "waiting", "starting", "gone"}
      /\ slots' \subseteq Connections \union {ListenTask} /\ open' \in BOOLEAN
  <2>1. CASE port = "free"
    BY <2>1 DEF Construct, StartHttp, Slots!Take
  <2>2. CASE port # "free"
    BY <2>2 DEF Construct, StartHttp
  <2>3. QED
    BY <2>1, <2>2
<1>3. instances' \in Nat
  BY DEF Construct
<1>4. QED
  BY <1>1, <1>2, <1>3 DEF Construct

LEMMA TypeNext == TypeOK /\ [Next]_vars => TypeOK'
  BY TypeHttp, TypeThread, TypeConstruct, StepsInGroups

(***************************************************************************)
(* The type invariant.                                                      *)
(***************************************************************************)
THEOREM TypeCorrect == Spec => []TypeOK
  BY TypeInit, TypeNext, PTL DEF Spec

-----------------------------------------------------------------------------
(* The order of main and of get()                                           *)

\* Which statement main leaves for which.
LEMMA MainGoesOn ==
  ASSUME TypeOK
  PROVE  /\ After("init") => statement = 1 /\ statement' = 2
         /\ After("sendAlive") => statement = 2 /\ statement' = 3
         /\ After("listen") => statement = 3 /\ statement' = 4
         /\ After("gets") => statement = 4 /\ statement' = 5
         /\ Statements[statement] = "sendAlive" => statement = 2
<1>1. statement \in 1 .. 5
  BY StatementsAre DEF TypeOK
<1>2. statement = 1 \/ statement = 2 \/ statement = 3 \/ statement = 4 \/ statement = 5
  BY <1>1
<1>3. QED
  BY <1>2, StatementsAre DEF After

\* The end of the process changes nothing else.
LEMMA EndEffect ==
  ASSUME NEW why, Ends(why)
  PROVE  /\ UNCHANGED <<statement, configured, call, instance, instances, chosen, sockets, announced>>
         /\ running' = FALSE /\ death' = why
  BY DEF Ends, mainVars, serverVars

LEMMA ThrowEffect ==
  ASSUME NEW th \in Threads, InterfaceThrows(th) \/ BadDescriptor(th)
  PROVE  /\ UNCHANGED <<statement, configured, call, instance, instances, chosen, sockets, announced>>
         /\ running' = FALSE
         /\ death' \in {"no interface", "no address", "bad descriptor"}
<1>1. ASSUME Ends("no interface") \/ Ends("no address") \/ Ends("bad descriptor") 
      PROVE  /\ UNCHANGED <<statement, configured, call, instance, instances, chosen, sockets, announced>>
             /\ running' = FALSE
             /\ death' \in {"no interface", "no address", "bad descriptor"}
  BY <1>1, EndEffect
<1>2. QED
  BY <1>1 DEF InterfaceThrows, BadDescriptor

LEMMA MainFirstSendAlive ==
  ASSUME TypeOK, MainComesFirst, NEW th \in Threads, SendAliveStep(th)
  PROVE  MainComesFirst'
<1> USE DEF TypeOK, mainVars, lifeVars, serverVars, Go, Threads
<1>1. CASE CallSendAlive(th)
  BY <1>1, MainGoesOn DEF CallSendAlive, MainComesFirst
<1>2. CASE Get(th)
  <2>1. CASE instance
    BY <1>2, <2>1 DEF Get, MainComesFirst
  <2>2. CASE ~instance
    BY <1>2, <2>2 DEF Get, MainComesFirst
  <2>3. QED
    BY <2>1, <2>2
<1>3. CASE Store(th)
  BY <1>3 DEF Store, MainComesFirst
<1>4. CASE ChooseInterface(th)
  BY <1>4 DEF ChooseInterface, MainComesFirst
<1>5. CASE InterfaceThrows(th) \/ BadDescriptor(th)
  <2>1. UNCHANGED <<statement, configured, call, instance, instances>>
    BY <1>5, ThrowEffect
  <2>2. QED
    BY <2>1 DEF MainComesFirst
<1>6. CASE OpenSocket(th)
  BY <1>6 DEF OpenSocket, MainComesFirst
<1>7. CASE NoSocket(th)
  BY <1>7 DEF NoSocket, MainComesFirst
<1>8. CASE SendAliveReturns(th)
  BY <1>8, MainGoesOn DEF SendAliveReturns, MainComesFirst
<1>9. QED
  BY <1>1, <1>2, <1>3, <1>4, <1>5, <1>6, <1>7, <1>8 DEF SendAliveStep

LEMMA MainFirstNext == TypeOK /\ MainComesFirst /\ [Next]_vars => MainComesFirst'
<1> SUFFICES ASSUME TypeOK, MainComesFirst, [Next]_vars PROVE MainComesFirst'
  OBVIOUS
<1>1. CASE HttpStep
  BY <1>1, HttpStepEffect DEF HttpEffect, mainVars, serverVars, MainComesFirst
<1>2. ASSUME NEW th \in Threads, Construct(th) PROVE MainComesFirst'
  BY <1>2 DEF Construct, Go, TypeOK, MainComesFirst, mainVars, Threads
<1>3. CASE ThreadStep
  <2>1. CASE InitRenderers
    BY <2>1, MainGoesOn DEF InitRenderers, MainComesFirst, serverVars
  <2>2. CASE InitThrows \/ Exit
    BY <2>2 DEF InitThrows, Exit, Ends, mainVars, serverVars, MainComesFirst
  <2>3. CASE Listen
    BY <2>3, MainGoesOn DEF Listen, TypeOK, MainComesFirst, Threads
  <2>4. CASE Gets
    BY <2>4, MainGoesOn DEF Gets, MainComesFirst, serverVars
  <2>5. CASE InterfacesChange
    BY <2>5 DEF InterfacesChange, mainVars, serverVars, MainComesFirst
  <2>6. CASE UNCHANGED vars
    BY <2>6 DEF vars, mainVars, serverVars, MainComesFirst
  <2>7. QED
    BY <1>3, <2>1, <2>2, <2>3, <2>4, <2>5, <2>6, MainFirstSendAlive DEF ThreadStep, Main
<1>4. QED
  BY <1>1, <1>2, <1>3, StepsInGroups

LEMMA StartedNext ==
  TypeOK /\ MainComesFirst /\ ServerIsStarted /\ BacklogIsWaiting /\ [Next]_vars => ServerIsStarted'
<1> SUFFICES ASSUME TypeOK, MainComesFirst, ServerIsStarted, BacklogIsWaiting, [Next]_vars PROVE ServerIsStarted'
  OBVIOUS
<1>1. CASE HttpStep
  <2>1. /\ UNCHANGED <<instances, port>> /\ (listening # "none" => listening' # "none")
    BY <1>1, HttpStepEffect DEF HttpEffect, serverVars
  <2>2. /\ listening' # "none" => port = "listened"
        /\ \A c \in Connections : conn'[c] # "none" => port = "listened"
    <3> USE DEF ServerIsStarted, TypeOK
    <3>1. CASE Accept
      BY <3>1 DEF Accept
    <3>2. CASE StartTask
      BY <3>2 DEF StartTask
    <3>3. CASE AcceptFails
      BY <3>3 DEF AcceptFails
    <3>4. ASSUME NEW c \in Connections, Connect(c) \/ ReadRequest(c) \/ Answer(c) \/ EndTask(c) PROVE /\ listening' # "none" => port = "listened"
             /\ \A d \in Connections : conn'[d] # "none" => port = "listened"
      BY <3>4 DEF Connect, ReadRequest, Answer, EndTask, Serve
    <3>5. QED
      BY <1>1, <3>1, <3>2, <3>3, <3>4 DEF HttpStep, HttpListener
  <2>3. QED
    BY <2>1, <2>2 DEF ServerIsStarted
<1>2. ASSUME NEW th \in Threads, Construct(th) PROVE ServerIsStarted'
  <2>1. instances' = instances + 1 /\ conn' = conn /\ instances \in Nat
    BY <1>2 DEF Construct, TypeOK
  <2>2. CASE port = "free"
    BY <1>2, <2>1, <2>2 DEF Construct, StartHttp, ServerIsStarted
  <2>3. CASE port # "free"
    BY <1>2, <2>1, <2>3 DEF Construct, StartHttp, ServerIsStarted, TypeOK
  <2>4. QED
    BY <2>2, <2>3
<1>3. CASE ThreadStep
  <2>1. UNCHANGED <<port, listening, conn>>
    BY <1>3, ThreadStepEffect DEF httpVars
  <2>2. instances' = instances
    <3>1. ASSUME NEW th \in Threads, SendAliveStep(th) PROVE instances' = instances
      BY <3>1 DEF SendAliveStep, CallSendAlive, Get, Store, ChooseInterface, InterfaceThrows, OpenSocket, NoSocket,
                  BadDescriptor, SendAliveReturns, Ends, serverVars
    <3>2. CASE Main
      BY <3>2 DEF Main, InitRenderers, InitThrows, Listen, Gets, Exit, Ends, serverVars
    <3>3. QED
      BY <1>3, <3>1, <3>2 DEF ThreadStep, InterfacesChange, vars, serverVars
  <2>3. QED
    BY <2>1, <2>2 DEF ServerIsStarted
<1>4. QED
  BY <1>1, <1>2, <1>3, StepsInGroups

\* By the time the announcer runs, main has set the server up.
LEMMA AnnouncerFindsInstance ==
  ASSUME TypeOK, MainComesFirst
  PROVE  call["announcer"] # "none" => instance
<1>1. statement \in 1 .. 5
  BY StatementsAre DEF TypeOK
<1>2. statement <= 3 \/ statement > 2
  BY <1>1
<1>3. QED
  BY <1>2, Zenon DEF MainComesFirst

InterfaceInv == InterfaceIsKept /\ DiesOnlyBeforeAnnouncing

LEMMA InterfaceNext == TypeOK /\ MainComesFirst /\ InterfaceInv /\ [Next]_vars => InterfaceInv'
<1> SUFFICES ASSUME TypeOK, MainComesFirst, InterfaceInv, [Next]_vars PROVE InterfaceInv'
  OBVIOUS
<1> USE DEF InterfaceInv, InterfaceIsKept, DiesOnlyBeforeAnnouncing
<1>1. CASE HttpStep
  <2>1. UNCHANGED <<running, death, call, instance, chosen, announced>>
    BY <1>1, HttpStepEffect DEF HttpEffect, lifeVars, serverVars
  <2>2. QED
    BY <2>1
<1>2. ASSUME NEW th \in Threads, Construct(th) PROVE InterfaceInv'
  BY <1>2 DEF Construct, Go, TypeOK, lifeVars, Threads
<1>3. CASE Main
  <2>1. CASE InitRenderers \/ Gets
    <3>1. UNCHANGED <<running, death, call, instance, chosen, announced>>
      BY <2>1 DEF InitRenderers, Gets, lifeVars, serverVars
    <3>2. QED
      BY <3>1
  <2>2. CASE Listen
    <3>1. UNCHANGED <<running, death, instance, chosen, announced>>
      BY <2>2 DEF Listen, lifeVars
    <3>2. \A th \in {"main", "announcer"} : call'[th] \in {"socket", "sent"} => call[th] \in {"socket", "sent"}
      BY <2>2 DEF Listen, TypeOK, Threads
    <3>3. QED
      BY <3>1, <3>2
  <2>3. CASE InitThrows \/ Exit
    <3>1. UNCHANGED <<call, instance, chosen, announced>> /\ running' = FALSE
      BY <2>3, EndEffect DEF InitThrows, Exit
    <3>2. death' \in {"none", "configuration"}
      BY <2>3, EndEffect DEF InitThrows, Exit
    <3>3. QED
      BY <3>1, <3>2
  <2>4. QED
    BY <1>3, <2>1, <2>2, <2>3 DEF Main
<1>4. CASE InterfacesChange
  BY <1>4 DEF InterfacesChange, lifeVars, serverVars
<1>5. ASSUME NEW th \in Threads, SendAliveStep(th) PROVE InterfaceInv'
  <2> USE DEF Go, TypeOK, Threads, lifeVars, serverVars
  <2>1. CASE CallSendAlive(th)
    BY <2>1 DEF CallSendAlive
  <2>2. CASE Get(th)
    BY <2>2 DEF Get
  <2>3. CASE Store(th)
    BY <2>3 DEF Store
  <2>4. CASE ChooseInterface(th)
    <3>1. chosen' # <<>> /\ chosen'[1].address
      BY <2>4 DEF ChooseInterface
    <3>2. QED
      BY <2>4, <3>1 DEF ChooseInterface
  <2>5. CASE InterfaceThrows(th)
    <3>1. chosen # <<>> => ServerInterface(interfaces) = chosen
      BY ServerInterfaceType
    <3>2. ~announced
      BY <2>5, <3>1 DEF InterfaceThrows
    <3>3. UNCHANGED <<announced, chosen, call, instance>> /\ running' = FALSE
      BY <2>5, ThrowEffect
    <3>4. QED
      BY <3>2, <3>3
  <2>6. CASE BadDescriptor(th)
    <3>1. UNCHANGED <<call, instance, chosen, announced>> /\ running' = FALSE /\ death' = "bad descriptor"
      BY <2>6, EndEffect DEF BadDescriptor
    <3>2. QED
      BY <3>1
  <2>7. CASE OpenSocket(th)
    <3>1. UNCHANGED <<running, death, instance, chosen>>
      BY <2>7 DEF OpenSocket
    <3>2. /\ announced' => announced \/ th # "searcher"
          /\ call[th] = "socket" /\ running
          /\ \A u \in {"main", "announcer"} \ {th} : call'[u] = call[u]
      <4>1. announced' => announced \/ th # "searcher"
        BY <2>7, Zenon DEF OpenSocket
      <4>2. call[th] = "socket" /\ running
        BY <2>7, Zenon DEF OpenSocket
      <4>3. \E to \in Places : call' = [call EXCEPT ![th] = to]
        BY <2>7 DEF OpenSocket, Places
      <4>4. QED
        BY <4>1, <4>2, <4>3
    <3>3. th # "searcher" => instance
      BY <3>2, AnnouncerFindsInstance, Zenon DEF MainComesFirst
    <3>4. th # "searcher" => chosen # <<>> /\ chosen[1].address
      <4>1. th # "searcher" => \E u \in {"main", "announcer"} : call[u] \in {"socket", "sent"}
        BY <3>2
      <4>2. QED
        BY <4>1, Zenon
    <3>5. th = "searcher" => \A u \in {"main", "announcer"} : call'[u] = call[u]
      BY <3>2
    <3>6. death \in {"no interface", "no address"} => FALSE
      BY <3>2
    <3>7. QED
      BY <3>1, <3>2, <3>3, <3>4, <3>5, <3>6
  <2>8. CASE NoSocket(th)
    BY <2>8 DEF NoSocket
  <2>9. CASE SendAliveReturns(th)
    BY <2>9 DEF SendAliveReturns
  <2>10. QED
    BY <1>5, <2>1, <2>2, <2>3, <2>4, <2>5, <2>6, <2>7, <2>8, <2>9 DEF SendAliveStep
<1>6. CASE UNCHANGED vars
  BY <1>6 DEF vars, lifeVars, serverVars
<1>7. QED
  BY <1>1, <1>2, <1>3, <1>4, <1>5, <1>6, StepsInGroups DEF ThreadStep

-----------------------------------------------------------------------------
(* Connections, slots and descriptors                                       *)

LEMMA BacklogNext ==
  TypeOK /\ BacklogIsWaiting /\ [Next]_vars => BacklogIsWaiting'
<1> SUFFICES ASSUME TypeOK, BacklogIsWaiting, [Next]_vars PROVE BacklogIsWaiting'
  OBVIOUS
<1>0. /\ backlog \in Seq(Connections) /\ Len(backlog) \in Nat /\ DOMAIN backlog = 1 .. Len(backlog)
      /\ \A i \in 1 .. Len(backlog) : backlog[i] \in Connections
  BY LenProperties, ElementOfSeq DEF TypeOK
<1>1. ASSUME UNCHANGED <<conn, backlog>> PROVE BacklogIsWaiting'
  BY <1>1 DEF BacklogIsWaiting
<1>2. CASE Accept
  <2>1. /\ Head(backlog) = backlog[1] /\ backlog' = Tail(backlog) /\ conn' = [conn EXCEPT ![backlog[1]] = "accepted"]
        /\ Tail(backlog) \in Seq(Connections) /\ Len(Tail(backlog)) = Len(backlog) - 1 /\ 1 \in 1 .. Len(backlog)
        /\ \A i \in 1 .. Len(Tail(backlog)) : Tail(backlog)[i] = backlog[i + 1]
    BY <1>0, <1>2, HeadTailProperties DEF Accept
  <2>2. DOMAIN backlog' = 1 .. Len(backlog) - 1
    BY <2>1, LenProperties
  <2>3. ASSUME NEW i \in 1 .. Len(backlog) - 1
        PROVE  backlog'[i] = backlog[i + 1] /\ i + 1 \in 1 .. Len(backlog) /\ i + 1 # 1
    BY <1>0, <2>1
  <2>4. ASSUME NEW i \in 1 .. Len(backlog) - 1 PROVE conn'[backlog'[i]] = "backlog"
    <3>1. backlog[i + 1] # backlog[1] /\ conn[backlog[i + 1]] = "backlog" /\ backlog[i + 1] \in Connections
      BY <1>0, <2>1, <2>3 DEF BacklogIsWaiting
    <3>2. QED
      BY <2>1, <2>3, <3>1 DEF TypeOK
  <2>5. ASSUME NEW i \in 1 .. Len(backlog) - 1, NEW j \in 1 .. Len(backlog) - 1, backlog'[i] = backlog'[j] PROVE i = j
    <3>1. i + 1 = j + 1
      BY <1>0, <2>3, <2>5 DEF BacklogIsWaiting
    <3>2. QED
      BY <1>0, <3>1
  <2>6. QED
    BY <2>2, <2>4, <2>5 DEF BacklogIsWaiting
<1>3. ASSUME NEW c \in Connections, Connect(c) PROVE BacklogIsWaiting'
  <2>1. conn[c] = "none" /\ conn' = [conn EXCEPT ![c] = "backlog"] /\ backlog' = Append(backlog, c)
    BY <1>3 DEF Connect
  <2>2. /\ Append(backlog, c) \in Seq(Connections) /\ Len(Append(backlog, c)) = Len(backlog) + 1
        /\ Append(backlog, c)[Len(backlog) + 1] = c
        /\ \A i \in 1 .. Len(backlog) : Append(backlog, c)[i] = backlog[i]
    BY <1>0, AppendProperties
  <2>3. DOMAIN backlog' = 1 .. Len(backlog) + 1
    BY <2>1, <2>2, LenProperties
  <2>4. \A i \in 1 .. Len(backlog) : backlog[i] # c /\ conn[backlog[i]] = "backlog"
    BY <1>0, <2>1 DEF BacklogIsWaiting
  <2>5. ASSUME NEW i \in 1 .. Len(backlog) + 1
        PROVE  conn'[backlog'[i]] = "backlog" /\ (i # Len(backlog) + 1 => i \in 1 .. Len(backlog) /\ backlog'[i] = backlog[i] /\ backlog'[i] # c)
               /\ (i = Len(backlog) + 1 => backlog'[i] = c)
    BY <1>0, <2>1, <2>2, <2>4 DEF TypeOK
  <2>6. QED
    BY <1>0, <2>3, <2>5 DEF BacklogIsWaiting
<1>4. ASSUME NEW c \in Connections, NEW to, conn[c] # "backlog", conn' = [conn EXCEPT ![c] = to], backlog' = backlog
      PROVE  BacklogIsWaiting'
  BY <1>0, <1>4 DEF BacklogIsWaiting, TypeOK
<1>5. CASE StartTask
  BY <1>4, <1>5 DEF StartTask
<1>6. CASE AcceptFails
  BY <1>1, <1>6 DEF AcceptFails
<1>7. ASSUME NEW c \in Connections, ReadRequest(c) \/ Answer(c) \/ EndTask(c) PROVE BacklogIsWaiting'
  BY <1>4, <1>7 DEF ReadRequest, Answer, EndTask, Serve
<1>8. CASE ThreadStep
  BY <1>1, <1>8, ThreadStepEffect DEF httpVars
<1>9. ASSUME NEW th \in Threads, Construct(th) PROVE BacklogIsWaiting'
  BY <1>1, <1>9 DEF Construct
<1>10. QED
  BY <1>2, <1>3, <1>5, <1>6, <1>7, <1>8, <1>9, StepsInGroups DEF HttpStep, HttpListener

\* The connections that have a task.
Served == {c \in Connections : conn[c] \in {"reading", "handling"}}

\* What is held at a time takes at most MaxTasks - 1 slots beside the listening task's.
LEMMA SlotsAreFinite ==
  ASSUME TypeOK
  PROVE  IsFiniteSet(slots) /\ Cardinality(slots) \in Nat /\ ListenTask \notin Served
<1>1. IsFiniteSet(Connections \union {ListenTask})
  BY ProcessAssumption, FS_AddElement
<1>2. IsFiniteSet(slots)
  BY <1>1, FS_Subset DEF TypeOK
<1>3. QED
  BY <1>2, FS_CardinalityType, ProcessAssumption DEF Served

LEMMA TakeKeepsLimit ==
  ASSUME TypeOK, SlotsAreHeld, NEW t, Slots!Take(t)
  PROVE  /\ slots' = slots \union {t} /\ open' = open /\ t \notin slots
         /\ Cardinality(slots') <= MaxTasks
<1>1. slots' = slots \union {t} /\ open' = open /\ t \notin slots
  BY DEF Slots!Take
<1>2. MaxTasks = 0 \/ Cardinality(slots) < MaxTasks
  BY DEF Slots!Take, Slots!HasRoom, Slots!Cardinality, Cardinality
<1>3. Cardinality(slots \union {t}) = Cardinality(slots) + 1
  BY <1>1, SlotsAreFinite, FS_AddElement
<1>4. QED
  BY <1>1, <1>2, <1>3, SlotsAreFinite, ProcessAssumption

LEMMA FreeKeepsLimit ==
  ASSUME TypeOK, SlotsAreHeld, NEW t, Slots!Free(t)
  PROVE  /\ slots' = slots \ {t} /\ open' = open
         /\ Cardinality(slots') <= MaxTasks
<1>1. slots' = slots \ {t} /\ open' = open /\ t \in slots
  BY DEF Slots!Free
<1>2. Cardinality(slots \ {t}) = Cardinality(slots) - 1
  BY <1>1, SlotsAreFinite, FS_RemoveElement
<1>3. QED
  BY <1>1, <1>2, SlotsAreFinite, ProcessAssumption DEF SlotsAreHeld

LEMMA SlotsNext ==
  TypeOK /\ SlotsAreHeld /\ BacklogIsWaiting /\ ServerIsStarted /\ [Next]_vars => SlotsAreHeld'
<1> SUFFICES ASSUME TypeOK, SlotsAreHeld, BacklogIsWaiting, ServerIsStarted, [Next]_vars PROVE SlotsAreHeld'
  OBVIOUS
<1> DEFINE listener == IF listening \in {"waiting", "starting"} THEN {ListenTask} ELSE {}
<1>0. /\ open /\ Cardinality(slots) <= MaxTasks /\ slots = Served \union listener
      /\ cancellable \subseteq Held
      /\ \A c \in Connections : conn[c] = "accepted" => listening = "starting"
      /\ \A c, d \in Connections : conn[c] = "accepted" /\ conn[d] = "accepted" => c = d
      /\ conn \in [Connections -> {"none", "backlog", "accepted", "reading", "handling"}]
      /\ ListenTask \notin Connections
  BY ProcessAssumption DEF SlotsAreHeld, Served, TypeOK
<1>1. ASSUME open', Cardinality(slots') <= MaxTasks, slots' = Served' \union listener', cancellable' \subseteq Held',
             \A c \in Connections : conn'[c] = "accepted" => listening' = "starting",
             \A c, d \in Connections : conn'[c] = "accepted" /\ conn'[d] = "accepted" => c = d
      PROVE  SlotsAreHeld'
  BY <1>1 DEF SlotsAreHeld, Served
<1>2. ASSUME UNCHANGED <<listening, conn, cancellable, slots, open>> PROVE SlotsAreHeld'
  BY <1>2 DEF SlotsAreHeld, Held
<1>3. CASE ThreadStep
  BY <1>2, <1>3, ThreadStepEffect DEF httpVars
<1>4. ASSUME NEW th \in Threads, Construct(th) PROVE SlotsAreHeld'
  <2>1. CASE port = "free"
    <3>1. listening = "none"
      BY <2>1 DEF ServerIsStarted
    <3>2. listening' = "waiting" /\ Slots!Take(ListenTask) /\ UNCHANGED <<conn, cancellable>>
      BY <1>4, <2>1 DEF Construct, StartHttp
    <3>3. slots' = slots \union {ListenTask} /\ open' = open /\ Cardinality(slots') <= MaxTasks
      BY <3>2, TakeKeepsLimit
    <3>4. Served' = Served /\ Held' = Held
      BY <3>2 DEF Served, Held
    <3>5. QED
      BY <1>0, <1>1, <3>1, <3>2, <3>3, <3>4
  <2>2. CASE port # "free"
    BY <1>2, <1>4, <2>2 DEF Construct, StartHttp
  <2>3. QED
    BY <2>1, <2>2
<1>5. CASE Accept
  <2>1. /\ Head(backlog) \in Connections /\ conn[Head(backlog)] = "backlog"
    <3>1. backlog \in Seq(Connections) /\ backlog # <<>>
      BY <1>5 DEF Accept, TypeOK
    <3>2. Head(backlog) \in Connections /\ Head(backlog) = backlog[1] /\ 1 \in DOMAIN backlog
      BY <3>1, HeadTailProperties, LenProperties, EmptySeq
    <3>3. QED
      BY <3>2 DEF BacklogIsWaiting
  <2>2. /\ listening = "waiting" /\ listening' = "starting" /\ UNCHANGED <<slots, open>>
        /\ conn' = [conn EXCEPT ![Head(backlog)] = "accepted"]
    BY <1>5, Zenon DEF Accept
  <2>3. cancellable' \subseteq cancellable \union {Head(backlog)}
    BY <1>5, Zenon DEF Accept
  <2>4. Served' = Served /\ Held' = Held \union {Head(backlog)}
    BY <1>0, <2>1, <2>2 DEF Served, Held
  <2>5. \A c \in Connections : conn'[c] = "accepted" => c = Head(backlog)
    BY <1>0, <2>2
  <2>6. QED
    BY <1>0, <1>1, <2>2, <2>3, <2>4, <2>5
<1>6. CASE StartTask
  <2>1. PICK c \in Connections : conn[c] = "accepted" /\ conn' = [conn EXCEPT ![c] = "reading"] /\ Slots!Take(c)
    BY <1>6 DEF StartTask
  <2>2. listening = "starting" /\ listening' = "waiting" /\ cancellable' = cancellable
    BY <1>6 DEF StartTask
  <2>3. slots' = slots \union {c} /\ open' = open /\ Cardinality(slots') <= MaxTasks
    BY <2>1, TakeKeepsLimit
  <2>4. Served' = Served \union {c} /\ Held' = Held
    BY <1>0, <2>1 DEF Served, Held
  <2>5. \A d \in Connections : conn'[d] # "accepted"
    BY <1>0, <2>1
  <2>6. QED
    BY <1>0, <1>1, <2>2, <2>3, <2>4, <2>5
<1>7. CASE AcceptFails
  <2>1. listening = "waiting" /\ listening' = "gone" /\ UNCHANGED <<conn, cancellable>> /\ Slots!Free(ListenTask)
    BY <1>7 DEF AcceptFails
  <2>2. slots' = slots \ {ListenTask} /\ open' = open /\ Cardinality(slots') <= MaxTasks
    BY <2>1, FreeKeepsLimit
  <2>3. Served' = Served /\ Held' = Held /\ ListenTask \notin Served
    BY <2>1, SlotsAreFinite DEF Served, Held
  <2>4. QED
    BY <1>0, <1>1, <2>1, <2>2, <2>3
<1>8. ASSUME NEW c \in Connections, Connect(c) PROVE SlotsAreHeld'
  <2>1. UNCHANGED <<slots, open, listening, cancellable>> /\ conn[c] = "none" /\ conn' = [conn EXCEPT ![c] = "backlog"]
    BY <1>8 DEF Connect
  <2>2. Served' = Served /\ Held' = Held
    BY <1>0, <2>1 DEF Served, Held
  <2>3. QED
    BY <1>0, <1>1, <2>1, <2>2
<1>9. ASSUME NEW c \in Connections, ReadRequest(c) \/ Answer(c) PROVE SlotsAreHeld'
  <2>1. UNCHANGED <<slots, open, listening, cancellable>>
    BY <1>9 DEF ReadRequest, Answer, Serve
  <2>2. \E to \in {"reading", "handling"} : conn[c] \in {"reading", "handling"} /\ conn' = [conn EXCEPT ![c] = to]
    BY <1>9 DEF ReadRequest, Answer, Serve
  <2>3. Served' = Served /\ Held' = Held
    BY <1>0, <2>2 DEF Served, Held
  <2>4. QED
    BY <1>0, <1>1, <2>1, <2>2, <2>3
<1>10. ASSUME NEW c \in Connections, EndTask(c) PROVE SlotsAreHeld'
  <2>1. listening' = listening /\ cancellable' = cancellable \ {c} /\ Slots!Free(c)
        /\ conn[c] = "reading" /\ conn' = [conn EXCEPT ![c] = "none"]
    BY <1>10 DEF EndTask, Serve
  <2>2. slots' = slots \ {c} /\ open' = open /\ Cardinality(slots') <= MaxTasks
    BY <2>1, FreeKeepsLimit
  <2>3. Served' = Served \ {c} /\ Held' = Held \ {c}
    BY <1>0, <2>1 DEF Served, Held
  <2>4. QED
    BY <1>0, <1>1, <2>1, <2>2, <2>3
<1>11. QED
  BY <1>3, <1>4, <1>5, <1>6, <1>7, <1>8, <1>9, <1>10, StepsInGroups DEF HttpStep, HttpListener

\* The listening task gives up only when the connections have used up what the
\* announcements have left.
LEMMA GivesUpLate ==
  ASSUME TypeOK, SlotsAreHeld, AcceptFails
  PROVE  sockets + 3 * (MaxTasks - 1) >= Descriptors
<1>1. listening = "waiting" /\ Used >= Descriptors
  BY DEF AcceptFails
<1>2. slots = Served \union {ListenTask} /\ Held = Served /\ cancellable \subseteq Held /\ Cardinality(slots) <= MaxTasks
  BY <1>1 DEF SlotsAreHeld, Served, Held
<1>3. ListenTask \notin Served /\ IsFiniteSet(slots)
  BY SlotsAreFinite
<1>4. IsFiniteSet(Served)
  BY <1>2, <1>3, FS_Subset
<1>5. Cardinality(slots) = Cardinality(Served) + 1
  BY <1>2, <1>3, <1>4, FS_AddElement
<1>6. IsFiniteSet(cancellable) /\ Cardinality(cancellable) <= Cardinality(Held)
  BY <1>2, <1>4, FS_Subset
<1>7. Cardinality(Held) \in Nat /\ Cardinality(cancellable) \in Nat /\ Cardinality(Held) <= MaxTasks - 1
  BY <1>2, <1>4, <1>5, <1>6, FS_CardinalityType, ProcessAssumption
<1>8. sockets \in Nat /\ Descriptors \in Nat /\ MaxTasks \in Nat
  BY ProcessAssumption DEF TypeOK
<1> DEFINE h == Cardinality(Held)
           k == Cardinality(cancellable)
<1>9. h \in Nat /\ k \in Nat /\ h <= MaxTasks - 1 /\ k <= h /\ sockets + h + 2 * k >= Descriptors
  BY <1>1, <1>6, <1>7 DEF Used
<1> HIDE DEF h, k
<1>10. QED
  BY <1>8, <1>9

LEMMA ListenerLastsNext ==
  TypeOK /\ SlotsAreHeld /\ ListenerLastsWhileDescriptorsDo /\ ServerIsStarted /\ [Next]_vars
    => ListenerLastsWhileDescriptorsDo'
<1> SUFFICES ASSUME TypeOK, SlotsAreHeld, ListenerLastsWhileDescriptorsDo, ServerIsStarted, [Next]_vars
             PROVE  ListenerLastsWhileDescriptorsDo'
  OBVIOUS
<1>0. sockets \in Nat /\ Descriptors \in Nat /\ MaxTasks \in Nat
  BY ProcessAssumption DEF TypeOK
<1>1. ASSUME sockets' = sockets, listening' = "gone" => listening = "gone" PROVE ListenerLastsWhileDescriptorsDo'
  BY <1>1 DEF ListenerLastsWhileDescriptorsDo
<1>2. CASE AcceptFails
  <2>1. sockets' = sockets
    BY <1>2 DEF AcceptFails, serverVars
  <2>2. QED
    BY <1>0, <1>2, <2>1, GivesUpLate DEF ListenerLastsWhileDescriptorsDo
<1>3. CASE Accept \/ StartTask
  BY <1>1, <1>3 DEF Accept, StartTask, serverVars
<1>4. ASSUME NEW c \in Connections, Connect(c) \/ ReadRequest(c) \/ Answer(c) \/ EndTask(c)
      PROVE  ListenerLastsWhileDescriptorsDo'
  BY <1>1, <1>4 DEF Connect, ReadRequest, Answer, EndTask, Serve, serverVars
<1>5. ASSUME NEW th \in Threads, Construct(th) PROVE ListenerLastsWhileDescriptorsDo'
  <2>1. sockets' = sockets
    BY <1>5 DEF Construct
  <2>2. listening' = "gone" => listening = "gone"
    <3>1. CASE port = "free"
      BY <1>5, <3>1 DEF Construct, StartHttp
    <3>2. CASE port # "free"
      BY <1>5, <3>2 DEF Construct, StartHttp
    <3>3. QED
      BY <3>1, <3>2
  <2>3. QED
    BY <1>1, <2>1, <2>2
<1>6. CASE ThreadStep
  <2>1. listening' = listening
    BY <1>6, ThreadStepEffect DEF httpVars
  <2>2. sockets' = sockets \/ sockets' = sockets + 1
    <3>1. ASSUME NEW th \in Threads, SendAliveStep(th) PROVE sockets' = sockets \/ sockets' = sockets + 1
      BY <3>1 DEF SendAliveStep, CallSendAlive, Get, Store, ChooseInterface, InterfaceThrows, OpenSocket, NoSocket,
                  BadDescriptor, SendAliveReturns, Ends, serverVars
    <3>2. CASE Main
      BY <3>2 DEF Main, InitRenderers, InitThrows, Listen, Gets, Exit, Ends, serverVars
    <3>3. QED
      BY <1>6, <3>1, <3>2 DEF ThreadStep, InterfacesChange, vars, serverVars
  <2>3. QED
    BY <1>0, <2>1, <2>2 DEF ListenerLastsWhileDescriptorsDo
<1>7. QED
  BY <1>2, <1>3, <1>4, <1>5, <1>6, StepsInGroups DEF HttpStep, HttpListener

-----------------------------------------------------------------------------
(* The theorems                                                             *)

LEMMA IInvInit == Init => IInv
<1> SUFFICES ASSUME Init PROVE IInv
  OBVIOUS
<1>1. TypeOK
  BY TypeInit
<1>2. SlotsAreHeld
  <2>1. slots = {} /\ open /\ listening = "none" /\ cancellable = {} /\ conn = [c \in Connections |-> "none"]
    BY DEF Init, Slots!Init
  <2>2. QED
    BY <2>1, FS_EmptySet, ProcessAssumption DEF SlotsAreHeld
<1>3. BacklogIsWaiting
  BY DEF Init, BacklogIsWaiting
<1>4. MainComesFirst
  BY DEF Init, MainComesFirst, Threads
<1>5. ServerIsStarted
  BY DEF Init, ServerIsStarted
<1>6. InterfaceIsKept /\ DiesOnlyBeforeAnnouncing
  BY DEF Init, InterfaceIsKept, DiesOnlyBeforeAnnouncing, Threads
<1>7. ListenerLastsWhileDescriptorsDo
  BY DEF Init, ListenerLastsWhileDescriptorsDo
<1>8. QED
  BY <1>1, <1>2, <1>3, <1>4, <1>5, <1>6, <1>7 DEF IInv

(***************************************************************************)
(* The inductive invariant.                                                 *)
(***************************************************************************)
THEOREM IInvInductive == Spec => []IInv
<1>1. IInv /\ [Next]_vars => IInv'
  BY TypeNext, MainFirstNext, StartedNext, InterfaceNext, BacklogNext, SlotsNext, ListenerLastsNext
     DEF IInv, InterfaceInv
<1>2. QED
  BY IInvInit, <1>1, PTL DEF Spec

(***************************************************************************)
(* However the threads of the process are scheduled, one server is          *)
(* constructed (mediaserver.hpp:22-27).                                     *)
(***************************************************************************)
THEOREM OneServerCorrect == Spec => []OneServer
<1>1. IInv => OneServer
  BY DEF IInv, MainComesFirst, OneServer
<1>2. QED
  BY <1>1, IInvInductive, PTL

(***************************************************************************)
(* No request is handled before the configurations are loaded               *)
(* (main.cpp:17).                                                           *)
(***************************************************************************)
THEOREM HandlersCorrect == Spec => []HandlersSeeConfiguration
<1>1. IInv => HandlersSeeConfiguration
  <2> SUFFICES ASSUME IInv, NEW c \in Connections, conn[c] = "handling" PROVE configured
    BY DEF HandlersSeeConfiguration
  <2>1. statement \in 1 .. 5
    BY StatementsAre DEF IInv, TypeOK
  <2>2. instances > 0
    BY DEF IInv, ServerIsStarted
  <2>3. statement # 1
    BY <2>2 DEF IInv, MainComesFirst
  <2>4. QED
    BY <2>1, <2>3 DEF IInv, MainComesFirst
<1>2. QED
  BY <1>1, IInvInductive, PTL

(***************************************************************************)
(* The announcing thread never brings the process down for want of an       *)
(* interface (upnp.cpp:80-86).                                              *)
(***************************************************************************)
THEOREM AnnouncerCorrect == Spec => []DiesOnlyBeforeAnnouncing
<1>1. IInv => DiesOnlyBeforeAnnouncing
  BY DEF IInv
<1>2. QED
  BY <1>1, IInvInductive, PTL

(***************************************************************************)
(* A server that has announced itself has started to listen                 *)
(* (mediaserver.cpp:22), if it could have the port.                         *)
(***************************************************************************)
THEOREM AnnouncedCorrect == Spec => []AnnouncedServersListen
<1>1. IInv => AnnouncedServersListen
  <2> SUFFICES ASSUME IInv, announced, port # "taken" PROVE listening \in {"waiting", "starting", "gone"}
    BY DEF AnnouncedServersListen
  <2>1. instance
    BY DEF IInv, InterfaceIsKept
  <2>2. instances > 0
    BY <2>1 DEF IInv, MainComesFirst
  <2>3. listening # "none"
    BY <2>2 DEF IInv, ServerIsStarted
  <2>4. QED
    BY <2>3 DEF IInv, TypeOK
<1>2. QED
  BY <1>1, IInvInductive, PTL

(***************************************************************************)
(* The listening task outlives every load of connections as long as the     *)
(* announcements leave the descriptors for it (PltHttpServerTask.cpp:438,   *)
(* upnp.cpp:90).                                                            *)
(***************************************************************************)
THEOREM ListenerCorrect == Spec => []ListenerLastsWhileDescriptorsDo
<1>1. IInv => ListenerLastsWhileDescriptorsDo
  BY DEF IInv
<1>2. QED
  BY <1>1, IInvInductive, PTL

-----------------------------------------------------------------------------
(* No connection is forgotten                                               *)

\* What the system took for the listening task is in the backlog until that accepts it.
EveryoneIsInTheBacklog ==
  \A c \in Connections : conn[c] = "backlog" => \E i \in DOMAIN backlog : backlog[i] = c

\* The listening task starts a task only for a connection it has accepted...
ListenerHasWork == listening = "starting" => \E c \in Connections : conn[c] = "accepted"

\* ... and then waits for nobody but the clients of connections that have a task.
WaitsForClientsOnly ==
  MaxTasks > 1 /\ listening = "starting" /\ ~Slots!HasRoom =>
    \E c \in Connections : conn[c] \in {"reading", "handling"} /\ c \in slots

WaitingInv == EveryoneIsInTheBacklog /\ ListenerHasWork

LEMMA WaitingInit == Init => WaitingInv
  BY DEF Init, WaitingInv, EveryoneIsInTheBacklog, ListenerHasWork

LEMMA WaitingAccept ==
  ASSUME IInv, WaitingInv, Accept
  PROVE  WaitingInv'
<1>1. /\ backlog \in Seq(Connections) /\ Len(backlog) \in Nat /\ DOMAIN backlog = 1 .. Len(backlog)
      /\ conn \in [Connections -> {"none", "backlog", "accepted", "reading", "handling"}]
  BY LenProperties DEF IInv, TypeOK
<1>2. /\ 1 \in 1 .. Len(backlog) /\ backlog[1] \in Connections
      /\ conn' = [conn EXCEPT ![backlog[1]] = "accepted"] /\ backlog' = Tail(backlog)
      /\ Len(Tail(backlog)) = Len(backlog) - 1 /\ Tail(backlog) \in Seq(Connections)
      /\ \A i \in 1 .. Len(Tail(backlog)) : Tail(backlog)[i] = backlog[i + 1]
  BY <1>1, HeadTailProperties, ElementOfSeq DEF Accept
<1>3. DOMAIN backlog' = 1 .. Len(backlog) - 1
  BY <1>2, LenProperties
<1>4. ASSUME NEW c \in Connections, conn'[c] = "backlog" PROVE \E i \in DOMAIN backlog' : backlog'[i] = c
  <2>1. conn[c] = "backlog" /\ c # backlog[1]
    BY <1>1, <1>2, <1>4
  <2>2. PICK k \in DOMAIN backlog : backlog[k] = c
    BY <2>1 DEF WaitingInv, EveryoneIsInTheBacklog
  <2>3. k # 1 /\ k - 1 \in 1 .. Len(backlog) - 1 /\ k = (k - 1) + 1
    BY <1>1, <2>1, <2>2
  <2>4. backlog'[k - 1] = c
    BY <1>2, <2>2, <2>3
  <2>5. QED
    BY <1>3, <2>3, <2>4
<1>5. conn'[backlog[1]] = "accepted"
  BY <1>1, <1>2
<1>6. QED
  BY <1>2, <1>4, <1>5 DEF WaitingInv, EveryoneIsInTheBacklog, ListenerHasWork

LEMMA WaitingConnect ==
  ASSUME IInv, WaitingInv, NEW c \in Connections, Connect(c)
  PROVE  WaitingInv'
<1>1. /\ backlog \in Seq(Connections) /\ Len(backlog) \in Nat /\ DOMAIN backlog = 1 .. Len(backlog)
      /\ conn \in [Connections -> {"none", "backlog", "accepted", "reading", "handling"}]
  BY LenProperties DEF IInv, TypeOK
<1>2. /\ conn[c] = "none" /\ conn' = [conn EXCEPT ![c] = "backlog"] /\ backlog' = Append(backlog, c)
      /\ listening' = listening
  BY DEF Connect
<1>3. /\ DOMAIN backlog' = 1 .. Len(backlog) + 1 /\ backlog'[Len(backlog) + 1] = c
      /\ \A i \in 1 .. Len(backlog) : backlog'[i] = backlog[i]
  BY <1>1, <1>2, AppendProperties
<1>4. EveryoneIsInTheBacklog'
  <2>1. ASSUME NEW d \in Connections, d # c, conn'[d] = "backlog"
        PROVE  \E i \in DOMAIN backlog' : backlog'[i] = d
    <3>1. conn[d] = "backlog"
      BY <1>1, <1>2, <2>1
    <3>2. PICK k \in 1 .. Len(backlog) : backlog[k] = d
      BY <1>1, <3>1 DEF WaitingInv, EveryoneIsInTheBacklog
    <3>3. QED
      BY <1>1, <1>3, <3>2
  <2>2. \E i \in DOMAIN backlog' : backlog'[i] = c
    BY <1>1, <1>3
  <2>3. QED
    BY <2>1, <2>2 DEF EveryoneIsInTheBacklog
<1>5. \A d \in Connections : conn[d] = "accepted" => conn'[d] = "accepted"
  BY <1>1, <1>2
<1>6. QED
  BY <1>2, <1>4, <1>5 DEF WaitingInv, ListenerHasWork

\* A connection that is neither in the backlog nor accepted does not matter, and the
\* one StartTask takes is the only one accepted.
LEMMA WaitingServed ==
  ASSUME IInv, WaitingInv,
         \/ StartTask \/ AcceptFails
         \/ \E c \in Connections : ReadRequest(c) \/ Answer(c) \/ EndTask(c)
  PROVE  WaitingInv'
<1>1. conn \in [Connections -> {"none", "backlog", "accepted", "reading", "handling"}]
  BY DEF IInv, TypeOK
<1>2. CASE AcceptFails
  BY <1>2 DEF AcceptFails, WaitingInv, EveryoneIsInTheBacklog, ListenerHasWork
<1>3. CASE StartTask
  <2>1. PICK c \in Connections : conn[c] = "accepted" /\ conn' = [conn EXCEPT ![c] = "reading"]
    BY <1>3 DEF StartTask
  <2>2. backlog' = backlog /\ listening' = "waiting"
    BY <1>3 DEF StartTask
  <2>3. \A d \in Connections : conn'[d] = "backlog" => conn[d] = "backlog"
    BY <1>1, <2>1
  <2>4. QED
    BY <2>2, <2>3 DEF WaitingInv, EveryoneIsInTheBacklog, ListenerHasWork
<1>4. ASSUME NEW c \in Connections, ReadRequest(c) \/ Answer(c) \/ EndTask(c) PROVE WaitingInv'
  <2>1. /\ conn[c] \in {"reading", "handling"} /\ backlog' = backlog /\ listening' = listening
        /\ \E to \in {"none", "reading", "handling"} : conn' = [conn EXCEPT ![c] = to]
    BY <1>4 DEF ReadRequest, Answer, EndTask, Serve
  <2>2. \A d \in Connections : /\ conn'[d] = "backlog" => conn[d] = "backlog"
                               /\ conn[d] = "accepted" => conn'[d] = "accepted"
    BY <1>1, <2>1
  <2>3. QED
    BY <2>1, <2>2 DEF WaitingInv, EveryoneIsInTheBacklog, ListenerHasWork
<1>5. QED
  BY <1>2, <1>3, <1>4

LEMMA WaitingNext == IInv /\ WaitingInv /\ [Next]_vars => WaitingInv'
<1> SUFFICES ASSUME IInv, WaitingInv, [Next]_vars PROVE WaitingInv'
  OBVIOUS
<1>1. CASE HttpStep
  BY <1>1, WaitingAccept, WaitingConnect, WaitingServed, Zenon DEF HttpStep, HttpListener
<1>2. ASSUME UNCHANGED <<conn, backlog>>, listening' = listening \/ listening' # "starting" PROVE WaitingInv'
  BY <1>2 DEF WaitingInv, EveryoneIsInTheBacklog, ListenerHasWork
<1>3. CASE ThreadStep
  BY <1>2, <1>3, ThreadStepEffect DEF httpVars
<1>4. ASSUME NEW th \in Threads, Construct(th) PROVE WaitingInv'
  BY <1>2, <1>4 DEF Construct, StartHttp
<1>5. QED
  BY <1>1, <1>3, <1>4, StepsInGroups

(***************************************************************************)
(* No connection is lost between the system, the listening task and the     *)
(* task manager (PltHttpServerTask.cpp:426-442), and when the listening     *)
(* task waits for a slot with a connection in its hands, some other         *)
(* connection has the slot: two slots are enough that the task, which has   *)
(* one itself, never waits for itself.  With one slot it would for ever.    *)
(***************************************************************************)
THEOREM NobodyIsForgotten ==
  Spec => [](EveryoneIsInTheBacklog /\ ListenerHasWork /\ WaitsForClientsOnly)
<1>1. Spec => [](IInv /\ WaitingInv)
  BY WaitingInit, WaitingNext, IInvInductive, PTL DEF Spec
<1>2. IInv => WaitsForClientsOnly
  <2> SUFFICES ASSUME IInv, MaxTasks > 1, listening = "starting", ~Slots!HasRoom
               PROVE  \E c \in Connections : conn[c] \in {"reading", "handling"} /\ c \in slots
    BY DEF WaitsForClientsOnly
  <2>1. slots = Served \union {ListenTask} /\ Cardinality(slots) <= MaxTasks
    BY DEF IInv, SlotsAreHeld, Served
  <2>2. Cardinality(slots) \in Nat /\ ~(Cardinality(slots) < MaxTasks)
    BY SlotsAreFinite DEF IInv, Slots!HasRoom, Slots!Cardinality, Cardinality
  <2>3. Served # {}
    <3>1. Cardinality({ListenTask}) = 1
      BY FS_Singleton
    <3>2. ASSUME Served = {} PROVE FALSE
      <4>1. slots = {ListenTask}
        BY <2>1, <3>2
      <4>2. Cardinality(slots) = 1
        BY <3>1, <4>1
      <4>3. QED
        BY <2>2, <4>2, ProcessAssumption
    <3>3. QED
      BY <3>2
  <2>4. QED
    BY <2>1, <2>3 DEF Served
<1>3. QED
  BY <1>1, <1>2, PTL DEF WaitingInv
=============================================================================
