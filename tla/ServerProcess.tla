---------------------------- MODULE ServerProcess ----------------------------
(***************************************************************************)
(* The process from its start to its end (Main/main.cpp): what main, the    *)
(* announcing and the searching thread of Upnp::Server, the listening task  *)
(* and the connection tasks of the HTTP server share: the MediaServerPP     *)
(* instance, the network interface it has chosen, the task slots, and the   *)
(* descriptors of the process.  What a request, an announcement and the     *)
(* configuration do inside is in RequestHandling, Ssdp and RendererConfig.  *)
(***************************************************************************)
EXTENDS Naturals, Sequences, FiniteSets

CONSTANTS
  Connections,     \* the clients that connect, a connection each at a time
  InterfaceLists,  \* what the system may list as its network interfaces
  MaxTasks,        \* max_clients of the HTTP server (50)
  Descriptors      \* those left for the sockets the process opens as it runs

\* A network interface: whether it broadcasts and is no loopback, and whether it
\* has an address.
Interface == [usable : BOOLEAN, address : BOOLEAN]

\* The threads that call Upnp::Server, and the task that takes connections.
Threads == {"main", "announcer", "searcher"}
ListenTask == "listen task"

ASSUME ProcessAssumption ==
  /\ IsFiniteSet(Connections)
  /\ InterfaceLists \subseteq Seq(Interface)
  /\ ListenTask \notin Connections
  /\ MaxTasks \in Nat \ {0}
  /\ Descriptors \in Nat

\* Mutants: main listens before it announces; sets the server up first of all.
ListensFirst == <<"init", "listen", "sendAlive", "gets", "return">>
AnnouncesFirst == <<"sendAlive", "init", "listen", "gets", "return">>

\* The statements of main; "return" lasts until the process is gone.
Statements == <<"init", "sendAlive", "listen", "gets", "return">>

VARIABLES
  statement,   \* main: the index of its statement
  running,     \* the process has neither died nor ended
  death,       \* what it died of
  configured,  \* gRM has been created and loaded
  call,        \* where each thread is in sendAlive
  instance,    \* MediaServerPP::_instance is set
  instances,   \* instances constructed
  interfaces,  \* the network interfaces there are
  chosen,      \* _serverInterface: <<>> or the one chosen
  sockets,     \* sockets Upnp::Server has opened: none is ever closed
  announced,   \* the server has announced itself
  port,        \* the HTTP port: free, taken by another process, or listened to
  listening,   \* what the listening task does
  backlog,     \* connections not accepted yet
  conn,        \* the state of each connection
  cancellable, \* accepted connections that got a pair of descriptors to cancel them by
  slots, open  \* the task manager of the HTTP server: see TaskSlots

Slots == INSTANCE TaskSlots WITH Tasks <- Connections \union {ListenTask}

mainVars == <<statement, configured>>
lifeVars == <<running, death>>
serverVars == <<call, instance, instances, chosen, sockets, announced>>
httpVars == <<port, listening, backlog, conn, cancellable, slots, open>>
vars == <<mainVars, lifeVars, serverVars, interfaces, httpVars>>

\* The descriptors in use: a socket has one, a connection two more to cancel it by.
Held == {c \in Connections : conn[c] \in {"accepted", "reading", "handling"}}
Used == sockets + Cardinality(Held) + 2 * Cardinality(cancellable)
-----------------------------------------------------------------------------
Init ==
  /\ statement = 1 /\ configured = FALSE
  /\ running = TRUE /\ death = "none"
  /\ call = [th \in Threads |-> IF th = "main" THEN "idle" ELSE "none"]
  /\ instance = FALSE /\ instances = 0 /\ chosen = <<>> /\ sockets = 0 /\ announced = FALSE
  /\ interfaces \in InterfaceLists
  /\ port \in {"free", "taken"} /\ listening = "none"
  /\ backlog = <<>> /\ conn = [c \in Connections |-> "none"] /\ cancellable = {}
  /\ Slots!Init

\* main goes on from statement s.
After(s) ==
  /\ running /\ Statements[statement] = s
  /\ statement' = statement + 1

\* The process ends, or dies: of an exception nothing catches, for one.
Ends(why) ==
  /\ running /\ running' = FALSE /\ death' = why
  /\ UNCHANGED <<mainVars, serverVars, interfaces, httpVars>>

\* gRM->setRootPath and gRM->init: they load the configuration...
InitRenderers ==
  /\ After("init")
  /\ configured' = TRUE
  /\ UNCHANGED <<lifeVars, serverVars, interfaces, httpVars>>

\* ... or throw.
InitThrows == Statements[statement] = "init" /\ Ends("configuration")

-----------------------------------------------------------------------------
(* Upnp::Server::sendAlive, by main and then by the announcing thread       *)

\* Thread th goes from one place in sendAlive to another.
Go(th, from, to) == running /\ call[th] = from /\ call' = [call EXCEPT ![th] = to]

\* sendAlive begins: the statement of main, or the announcer wakes up.
CallSendAlive(th) ==
  /\ th = "main" => Statements[statement] = "sendAlive"
  /\ th # "searcher"
  /\ Go(th, "idle", "get")
  /\ UNCHANGED <<mainVars, lifeVars, instance, instances, chosen, sockets, announced, interfaces, httpVars>>

\* MediaServerPP::get: there is an instance, or not...
Get(th) ==
  /\ Go(th, "get", IF instance THEN "interface" ELSE "construct")
  /\ UNCHANGED <<mainVars, lifeVars, instance, instances, chosen, sockets, announced, interfaces, httpVars>>

\* Mutant: nobody starts the HTTP server.
StartHttpNever == UNCHANGED <<port, listening, slots, open>>

\* PLT_HttpServer::Start: binds the port and starts the listening task, which
\* takes a slot.  Nobody looks at its result (mediaserver.cpp:22).
StartHttp ==
  IF port = "free"
  THEN port' = "listened" /\ listening' = "waiting" /\ Slots!Take(ListenTask)
  ELSE UNCHANGED <<port, listening, slots, open>>

\* ... the constructor starts the HTTP server...
Construct(th) ==
  /\ Go(th, "construct", "store")
  /\ instances' = instances + 1
  /\ StartHttp
  /\ UNCHANGED <<mainVars, lifeVars, instance, chosen, sockets, announced, interfaces,
                 backlog, conn, cancellable>>

\* ... before get stores the instance.
Store(th) ==
  /\ Go(th, "store", "interface")
  /\ instance' = TRUE
  /\ UNCHANGED <<mainVars, lifeVars, instances, chosen, sockets, announced, interfaces, httpVars>>

\* Mutant: the interface is looked for each time.
ServerInterfaceEachTime(list) ==
  LET usable == {i \in DOMAIN list : list[i].usable}
  IN  IF usable # {} THEN <<list[CHOOSE i \in usable : \A j \in usable : i <= j]>>
      ELSE IF Len(list) > 1 THEN <<list[1]>>
      ELSE <<>>

(***************************************************************************)
(* MediaServerPP::serverInterface: the one chosen before, the first usable  *)
(* one, or the first of at least two: the code compares the first item of   *)
(* the list with the last.                                                  *)
(***************************************************************************)
ServerInterface(list) ==
  LET usable == {i \in DOMAIN list : list[i].usable}
  IN  IF chosen # <<>> THEN chosen
      ELSE IF usable # {} THEN <<list[CHOOSE i \in usable : \A j \in usable : i <= j]>>
      ELSE IF Len(list) > 1 THEN <<list[1]>>
      ELSE <<>>

\* getNewMulticastSocket: it needs an interface with an address...
ChooseInterface(th) ==
  /\ ServerInterface(interfaces) # <<>>
  /\ ServerInterface(interfaces)[1].address
  /\ Go(th, "interface", "socket")
  /\ chosen' = ServerInterface(interfaces)
  /\ UNCHANGED <<mainVars, lifeVars, instance, instances, sockets, announced, interfaces, httpVars>>

\* ... and throws without one...
InterfaceThrows(th) ==
  /\ call[th] = "interface"
  /\ \/ ServerInterface(interfaces) = <<>> /\ Ends("no interface")
     \/ /\ ServerInterface(interfaces) # <<>>
        /\ ~ServerInterface(interfaces)[1].address
        /\ Ends("no address")

\* Mutant: the socket is taken for granted.
OpenSocketUnchecked(th) ==
  /\ Go(th, "socket", IF th = "searcher" THEN "receiving" ELSE "sent")
  /\ sockets' = sockets + 1
  /\ announced' = (announced \/ th # "searcher")
  /\ UNCHANGED <<mainVars, lifeVars, instance, instances, chosen, interfaces, httpVars>>

\* ... opens a socket, which nothing closes, and sends the announcements.  The
\* searching thread opens one, too, and receives from it ever after.
OpenSocket(th) ==
  /\ Used < Descriptors
  /\ Go(th, "socket", IF th = "searcher" THEN "receiving" ELSE "sent")
  /\ sockets' = sockets + 1
  /\ announced' = (announced \/ th # "searcher")
  /\ UNCHANGED <<mainVars, lifeVars, instance, instances, chosen, interfaces, httpVars>>

\* Without a descriptor, select() gets one that is not any: it may return...
NoSocket(th) ==
  /\ Used >= Descriptors
  /\ Go(th, "socket", IF th = "searcher" THEN "receiving" ELSE "sent")
  /\ UNCHANGED <<mainVars, lifeVars, instance, instances, chosen, sockets, announced, interfaces, httpVars>>

\* ... or anything may happen.
BadDescriptor(th) ==
  /\ Used >= Descriptors
  /\ call[th] = "socket" /\ Ends("bad descriptor")

\* The announcer goes to sleep after sendAlive, main to its next statement.
SendAliveReturns(th) ==
  /\ Go(th, "sent", "idle")
  /\ IF th = "main" THEN After("sendAlive") ELSE UNCHANGED statement
  /\ UNCHANGED <<configured, lifeVars, instance, instances, chosen, sockets, announced, interfaces, httpVars>>

\* Upnp::Server::listen starts the two threads.
Listen ==
  /\ After("listen")
  /\ call' = [call EXCEPT !["announcer"] = "idle", !["searcher"] = "socket"]
  /\ UNCHANGED <<configured, lifeVars, instance, instances, chosen, sockets, announced, interfaces, httpVars>>

\* main has read a q, or there is nothing more to read, at once if its input is
\* closed.  It returns with every thread still running...
Gets ==
  /\ After("gets")
  /\ UNCHANGED <<configured, lifeVars, serverVars, interfaces, httpVars>>

\* ... which the end of the process stops wherever they are.
Exit == Statements[statement] = "return" /\ Ends("none")

\* The network interfaces of the host change.
InterfacesChange ==
  /\ running /\ interfaces' \in InterfaceLists
  /\ UNCHANGED <<mainVars, lifeVars, serverVars, httpVars>>
-----------------------------------------------------------------------------
(* The HTTP server                                                          *)

\* A client connects: the system takes connections whether or not the listening
\* task still runs.
Connect(c) ==
  /\ running /\ port = "listened" /\ conn[c] = "none"
  /\ conn' = [conn EXCEPT ![c] = "backlog"]
  /\ backlog' = Append(backlog, c)
  /\ UNCHANGED <<mainVars, lifeVars, serverVars, interfaces, port, listening, cancellable, slots, open>>

\* PLT_HttpListenTask::DoRun accepts a connection, with two more descriptors to
\* cancel it by if there are as many...
Accept ==
  /\ running /\ listening = "waiting" /\ backlog # <<>>
  /\ Used < Descriptors
  /\ listening' = "starting"
  /\ backlog' = Tail(backlog)
  /\ conn' = [conn EXCEPT ![Head(backlog)] = "accepted"]
  /\ cancellable' = IF Used + 3 <= Descriptors THEN cancellable \union {Head(backlog)} ELSE cancellable
  /\ UNCHANGED <<mainVars, lifeVars, serverVars, interfaces, port, slots, open>>

\* Mutant: at the limit the connection is left without a task.
StartTaskUnlessFull ==
  /\ running /\ listening = "starting"
  /\ listening' = "waiting"
  /\ IF Slots!HasRoom
     THEN \E c \in Connections : /\ conn[c] = "accepted" /\ conn' = [conn EXCEPT ![c] = "reading"]
                                /\ Slots!Take(c)
     ELSE UNCHANGED <<conn, slots, open>>
  /\ UNCHANGED <<mainVars, lifeVars, serverVars, interfaces, port, backlog, cancellable>>

\* ... and starts a task for it, which waits for a slot...
StartTask ==
  /\ running /\ listening = "starting"
  /\ \E c \in Connections :
       /\ conn[c] = "accepted" /\ conn' = [conn EXCEPT ![c] = "reading"]
       /\ Slots!Take(c)
  /\ listening' = "waiting"
  /\ UNCHANGED <<mainVars, lifeVars, serverVars, interfaces, port, backlog, cancellable>>

\* ... or gets no descriptor for it, and ends for good.
AcceptFails ==
  /\ running /\ listening = "waiting" /\ backlog # <<>>
  /\ Used >= Descriptors
  /\ listening' = "gone"
  /\ Slots!Free(ListenTask)
  /\ UNCHANGED <<mainVars, lifeVars, serverVars, interfaces, port, backlog, conn, cancellable>>

\* The task of connection c goes from one state to another.
Serve(c, from, to) ==
  /\ running /\ conn[c] = from /\ conn' = [conn EXCEPT ![c] = to]
  /\ UNCHANGED <<mainVars, lifeVars, serverVars, interfaces, port, listening, backlog>>

\* PLT_HttpServerSocketTask::DoRun reads a request, has gRM find its renderer and
\* answers it...
ReadRequest(c) == Serve(c, "reading", "handling") /\ UNCHANGED <<cancellable, slots, open>>
Answer(c) == Serve(c, "handling", "reading") /\ UNCHANGED <<cancellable, slots, open>>

\* Mutant: the descriptors to cancel a connection by stay open.
EndTaskLeaking(c) == Serve(c, "reading", "none") /\ Slots!Free(c) /\ UNCHANGED cancellable

\* ... until the client is done, or silent for a minute: it closes the socket.
EndTask(c) ==
  /\ Serve(c, "reading", "none")
  /\ Slots!Free(c)
  /\ cancellable' = cancellable \ {c}

Over == ~running /\ UNCHANGED vars

SendAlive(th) ==
  \/ CallSendAlive(th) \/ Get(th) \/ Construct(th) \/ Store(th)
  \/ ChooseInterface(th) \/ InterfaceThrows(th)
  \/ OpenSocket(th) \/ NoSocket(th) \/ BadDescriptor(th) \/ SendAliveReturns(th)

Main == InitRenderers \/ InitThrows \/ Listen \/ Gets \/ Exit
HttpListener == Accept \/ StartTask \/ AcceptFails

Next ==
  \/ Main \/ \E th \in Threads : SendAlive(th)
  \/ HttpListener
  \/ \E c \in Connections : Connect(c) \/ ReadRequest(c) \/ Answer(c) \/ EndTask(c)
  \/ InterfacesChange
  \/ Over

\* The threads run; what main reads, and when clients connect, send and close, is
\* up to others.
Fairness == WF_vars(HttpListener) /\ \A c \in Connections : WF_vars(Answer(c))

Spec == Init /\ [][Next]_vars
FairSpec == Spec /\ Fairness
-----------------------------------------------------------------------------
(* Properties                                                               *)

Places == {"none", "idle", "get", "construct", "store", "interface", "socket", "sent", "receiving"}
Deaths == {"none", "configuration", "no interface", "no address", "bad descriptor"}

\* The type invariant.
TypeOK ==
  /\ statement \in DOMAIN Statements
  /\ configured \in BOOLEAN /\ running \in BOOLEAN /\ death \in Deaths
  /\ call \in [Threads -> Places]
  /\ instance \in BOOLEAN /\ instances \in Nat
  /\ interfaces \in InterfaceLists
  /\ chosen \in {<<>>} \union {<<i>> : i \in Interface}
  /\ sockets \in 0 .. Descriptors
  /\ announced \in BOOLEAN
  /\ port \in {"free", "taken", "listened"}
  /\ listening \in {"none", "waiting", "starting", "gone"}
  /\ backlog \in Seq(Connections)
  /\ conn \in [Connections -> {"none", "backlog", "accepted", "reading", "handling"}]
  /\ cancellable \subseteq Connections
  /\ slots \subseteq Connections \union {ListenTask} /\ open \in BOOLEAN

(***************************************************************************)
(* get() takes no lock and stores the instance only after its constructor,  *)
(* and gRM's is the same: two threads that call one for the first time at   *)
(* once would each construct an instance, and announce different servers.   *)
(* They do not, because main has called sendAlive before it starts them     *)
(* (main.cpp:19-21).                                                        *)
(***************************************************************************)
OneServer == instances <= 1

(***************************************************************************)
(* A request is handled only once gRM has loaded its configurations: the    *)
(* HTTP threads, which look them up without a lock, start in the            *)
(* constructor of MediaServerPP, and so after init (main.cpp:17-19).        *)
(***************************************************************************)
HandlersSeeConfiguration == \A c \in Connections : conn[c] = "handling" => configured

(***************************************************************************)
(* The process dies for want of an interface or an address                  *)
(* (mediaserver.cpp:53, upnp.cpp:85) only before its first announcement,    *)
(* whatever becomes of its interfaces later: an exception in the announcing *)
(* thread would take the whole server down.                                 *)
(***************************************************************************)
DiesOnlyBeforeAnnouncing == death \in {"no interface", "no address"} => ~announced

(***************************************************************************)
(* The server that announces itself answers at the port it announces: it    *)
(* listens there since before, unless another process has the port (Start's *)
(* result is ignored), or there was no descriptor for a connection.         *)
(***************************************************************************)
AnnouncedServersListen ==
  announced /\ port # "taken" => listening \in {"waiting", "starting", "gone"}

(***************************************************************************)
(* The listening task ends for good when it cannot accept a connection      *)
(* (PltHttpServerTask.cpp:438).  For want of a descriptor it does so only   *)
(* after the sockets that sendAlive leaves behind (upnp.cpp:90) have left   *)
(* fewer than three for each slot beside its own, and one to accept by: it  *)
(* never holds more connections, and each gives all its descriptors back.   *)
(***************************************************************************)
ListenerLastsWhileDescriptorsDo ==
  sockets + 3 * (MaxTasks - 1) < Descriptors => listening # "gone"

(***************************************************************************)
(* While the listening task lives, every connection gets a task, though     *)
(* they may be more than there are slots: if no client keeps its connection *)
(* for ever.                                                                *)
(***************************************************************************)
ConnectionsEnd == \A c \in Connections : []<>(c \notin slots)
ConnectionsGetTasks ==
  MaxTasks > 1 /\ ConnectionsEnd =>
    \A c \in Connections :
      conn[c] = "backlog" ~> conn[c] = "reading" \/ ~running \/ listening = "gone"
-----------------------------------------------------------------------------
(* What makes them inductive                                                *)

\* The slots are those of the listening task and of the connections it has started
\* a task for; only what it is about to start one for is held without one.
SlotsAreHeld ==
  /\ open /\ Cardinality(slots) <= MaxTasks
  /\ slots = {c \in Connections : conn[c] \in {"reading", "handling"}}
               \union (IF listening \in {"waiting", "starting"} THEN {ListenTask} ELSE {})
  /\ cancellable \subseteq Held
  /\ \A c \in Connections : conn[c] = "accepted" => listening = "starting"
  /\ \A c, d \in Connections : conn[c] = "accepted" /\ conn[d] = "accepted" => c = d

\* The connections not accepted yet are those in the backlog, once each.
BacklogIsWaiting ==
  /\ \A i \in DOMAIN backlog : conn[backlog[i]] = "backlog"
  /\ \A i, j \in DOMAIN backlog : backlog[i] = backlog[j] => i = j

\* The other threads start after main has announced the server, which it constructs
\* with the configuration loaded.
MainComesFirst ==
  /\ statement > 1 => configured
  /\ statement = 1 => instances = 0
  /\ statement > 2 => instance
  /\ statement <= 3 => call["announcer"] = "none" /\ call["searcher"] = "none"
  /\ statement # 2 => call["main"] = "idle"
  /\ call["main"] \in {"construct", "store"} => ~instance
  /\ call["main"] \in {"interface", "socket", "sent"} => instance
  /\ instances = IF instance \/ call["main"] = "store" THEN 1 ELSE 0
  /\ call["searcher"] \in {"none", "socket", "receiving"}
  /\ call["announcer"] \notin {"construct", "store"}

\* An instance has tried to start its HTTP server.
ServerIsStarted ==
  /\ instances > 0 /\ port # "taken" => port = "listened" /\ listening # "none"
  /\ port = "listened" => instances > 0
  /\ listening # "none" => port = "listened"
  /\ \A c \in Connections : conn[c] # "none" => port = "listened"

\* Whoever opens a socket for announcements has an interface with an address.
InterfaceIsKept ==
  /\ announced \/ (\E th \in {"main", "announcer"} : call[th] \in {"socket", "sent"}) =>
       chosen # <<>> /\ chosen[1].address
  /\ death # "none" => ~running
  /\ announced => instance

(***************************************************************************)
(* The inductive invariant.                                                 *)
(***************************************************************************)
IInv ==
  /\ TypeOK /\ SlotsAreHeld /\ BacklogIsWaiting /\ MainComesFirst /\ ServerIsStarted /\ InterfaceIsKept
  /\ DiesOnlyBeforeAnnouncing /\ ListenerLastsWhileDescriptorsDo
=============================================================================
