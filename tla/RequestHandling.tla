--------------------------- MODULE RequestHandling ---------------------------
(***************************************************************************)
(* HTTP requests of the media server, from the connection Platinum's        *)
(* listener accepts to the answer: MainHandler::SetupResponse               *)
(* (Network/requests.cpp) and the three look-ups of RendererManager         *)
(* (Renderers/manager.cpp) it makes, run by one PLT_HttpServerTask thread   *)
(* per connection.  RendererManager takes no lock, so the steps of the      *)
(* threads interleave, those of the standard library's map included.        *)
(***************************************************************************)
EXTENDS FiniteSets, SocketAddresses

CONSTANTS
  Tasks,               \* the connections the server has threads for
  UserAgent,           \* values of the USER-AGENT header
  NoUserAgent,         \* a request without that header
  Path,                \* request paths: sequences of path components
  Configurations,      \* what RendererManager::init may have loaded
  Routes,              \* MainHandler::_handlers, in order
  MaxRequests          \* bound: requests received

(***************************************************************************)
(* A configuration of a renderer, as far as the look-up by headers can tell.*)
(* matches: the agents its search expression is found in; extra: what       *)
(* becomes of its extraHeaders, each name of which is taken as an expression*)
(* and looked for in that entry's own value.  Nothing looks at expressions  *)
(* before the look-up compiles them: one may be malformed.                  *)
(***************************************************************************)
Candidate == [has_useragent : BOOLEAN, search : {"absent", "valid", "malformed"},
              matches : SUBSET UserAgent, extra : {"missed", "found", "malformed"}]

\* _renderers, in order, and whether there is a _defaultRenderer.
Configuration == [renderers : Seq(Candidate), default : BOOLEAN]

\* MainHandler::Route; every handler is a DiscoverHandler.
Route == [path : Path, includeChildren : BOOLEAN]

ASSUME ConfigurationAssumption ==
  /\ IsFiniteSet(Tasks)
  /\ NoUserAgent \notin UserAgent
  /\ Configurations \subseteq Configuration
  /\ Routes \in Seq(Route)
  /\ MaxRequests \in Nat

NoClient == [ip |-> 0 - 1, port |-> 0 - 1]

VARIABLES
  config,    \* what init() has loaded
  pc,        \* where each task is in the handling of its connection
  client,    \* the remote address of its connection
  agent,     \* the User-Agent of its current request
  path,      \* the path of its current request
  renderer,  \* SetupResponse's local: an index in copies, 0 for nullptr
  copies,    \* the Renderer objects made so far: each the index in _renderers
             \*   of the configuration it is a copy of, 0 for the default one
  clients,   \* _clients: its nodes in order
  place,     \* operator[]: the nodes a task's new node goes between, 0 for an end
  target,    \* operator[]: the node whose value a task assigns
  torn,      \* two tasks have linked nodes in _clients at the same time
  response,  \* the status of the last answer on each connection, 0 before any
  crashed,   \* why the process died
  requests   \* requests received, to bound them

mapVars == <<clients, place, target, torn>>
taskVars == <<client, agent, path>>
vars == <<config, pc, client, agent, path, renderer, copies, clients, place, target,
          torn, response, crashed, requests>>

Renderers == config.renderers
HasDefault == config.default
-----------------------------------------------------------------------------
(* Look-ups                                                                 *)

\* The test find(headers) makes of one configuration, the search first...
SearchMatches(c, ua) == ua # NoUserAgent /\ c.search = "valid" /\ ua \in c.matches

CandidateMatches(c, ua) ==
  /\ c.has_useragent
  /\ \/ SearchMatches(c, ua)
     \/ ~(ua # NoUserAgent /\ c.search = "malformed") /\ c.extra = "found"

\* ... and whether CompileRegexp throws in it.
CandidateThrows(c, ua) ==
  /\ c.has_useragent
  /\ \/ ua # NoUserAgent /\ c.search = "malformed"
     \/ ~SearchMatches(c, ua) /\ c.extra = "malformed"

\* The first configuration the loop of find(headers) accepts, 0 if it runs out.
FirstMatch(ua) ==
  LET accepted == {i \in DOMAIN Renderers : CandidateMatches(Renderers[i], ua)}
  IN  IF accepted = {} THEN 0 ELSE Min(accepted)

\* Mutant: every configuration is compiled, those after the match included.
LookupThrowsAnywhere(ua) == \E i \in DOMAIN Renderers : CandidateThrows(Renderers[i], ua)

\* The loop gets to a malformed expression before it accepts a configuration.
LookupThrows(ua) ==
  \E i \in DOMAIN Renderers :
    /\ CandidateThrows(Renderers[i], ua)
    /\ FirstMatch(ua) = 0 \/ i < FirstMatch(ua)

\* While a task relinks the tree, or after two did so at once, a search may miss
\* a whole subtree: it still ends between a lower and a not lower node.
Disturbed(t) == torn \/ \E u \in Tasks \ {t} : pc[u] = "link"

SearchResults(t) ==
  IF Disturbed(t) THEN Descents(clients, client[t]) ELSE Gaps(clients, client[t])

NodeAt(p) == IF p \in DOMAIN clients THEN clients[p].node ELSE 0

\* The route SetupResponse serves a path by, if there is one.
RouteMatches(r, p) == IF r.includeChildren THEN IsPrefix(r.path, p) ELSE r.path = p
HasRoute(p) == \E i \in DOMAIN Routes : RouteMatches(Routes[i], p)

-----------------------------------------------------------------------------
Init ==
  /\ config \in Configurations
  /\ pc = [t \in Tasks |-> "idle"]
  /\ client = [t \in Tasks |-> NoClient]
  /\ agent = [t \in Tasks |-> NoUserAgent]
  /\ path = [t \in Tasks |-> <<>>]
  /\ renderer = [t \in Tasks |-> 0]
  /\ copies = <<>>
  /\ clients = <<>>
  /\ place = [t \in Tasks |-> [left |-> 0, right |-> 0]]
  /\ target = [t \in Tasks |-> 0]
  /\ torn = FALSE
  /\ response = [t \in Tasks |-> 0]
  /\ crashed = "no"
  /\ requests = 0

\* A step of task t from label a to label b of a process that has not died.
Step(t, a, b) ==
  /\ pc[t] = a /\ pc' = [pc EXCEPT ![t] = b]
  /\ crashed = "no" /\ UNCHANGED <<crashed, config>>

\* The step of task t at label a that kills the process.
Die(t, a, why) ==
  /\ pc[t] = a /\ crashed = "no" /\ crashed' = why
  /\ UNCHANGED <<config, pc, renderer, copies, response, requests, taskVars, mapVars>>

(***************************************************************************)
(* PLT_HttpListenTask::DoRun accepts a connection and starts a thread for   *)
(* it.  Two open connections never have the same remote address.            *)
(***************************************************************************)
Accept(t) ==
  /\ Step(t, "idle", "reading")
  /\ \E a \in Address \ {client[u] : u \in Tasks} : client' = [client EXCEPT ![t] = a]
  /\ UNCHANGED <<agent, path, renderer, copies, mapVars, response, requests>>

\* PLT_HttpServerSocketTask::Read: the client sent a request...
ReadRequest(t) ==
  /\ requests < MaxRequests
  /\ Step(t, "reading", "start")
  /\ requests' = requests + 1
  /\ \E ua \in UserAgent \union {NoUserAgent} : agent' = [agent EXCEPT ![t] = ua]
  /\ \E p \in Path : path' = [path EXCEPT ![t] = p]
  /\ UNCHANGED <<client, renderer, copies, mapVars, response>>

\* ... or nothing more comes: it closed, fell silent or did not ask to keep alive.
Disconnect(t) ==
  /\ Step(t, "reading", "idle")
  /\ client' = [client EXCEPT ![t] = NoClient]
  /\ agent' = [agent EXCEPT ![t] = NoUserAgent]
  /\ path' = [path EXCEPT ![t] = <<>>]
  /\ response' = [response EXCEPT ![t] = 0]
  /\ UNCHANGED <<renderer, copies, mapVars, requests>>

\* Mutant: SetupResponse does not look the address up.
SetupResponseByHeadersOnly(t) ==
  /\ agent[t] # NoUserAgent
  /\ Step(t, "start", "findHeaders")
  /\ renderer' = [renderer EXCEPT ![t] = 0]
  /\ UNCHANGED <<copies, taskVars, mapVars, response, requests>>

\* Mutant: SetupResponse starts from the renderer of the request before.
SetupResponseKeepingRenderer(t) ==
  /\ agent[t] # NoUserAgent
  /\ Step(t, "start", IF renderer[t] = 0 THEN "findAddress" ELSE "route")
  /\ UNCHANGED <<renderer, copies, taskVars, mapVars, response, requests>>

(***************************************************************************)
(* MainHandler::SetupResponse logs the User-Agent before anything else,     *)
(* through the pointer GetHeader returned, then looks the renderer up.      *)
(***************************************************************************)
SetupResponse(t) ==
  /\ agent[t] # NoUserAgent
  /\ Step(t, "start", "findAddress")
  /\ renderer' = [renderer EXCEPT ![t] = 0]
  /\ UNCHANGED <<copies, taskVars, mapVars, response, requests>>

LogsMissingUserAgent(t) == agent[t] = NoUserAgent /\ Die(t, "start", "no user agent")

\* RendererManager::find(addr): a search of _clients that ends at a hit...
FindAddressHit(t) ==
  /\ Step(t, "findAddress", "route")
  /\ \E g \in SearchResults(t) :
       /\ Hit(clients, client[t], g)
       /\ renderer' = [renderer EXCEPT ![t] = clients[g[2]].value]
  /\ UNCHANGED <<copies, taskVars, mapVars, response, requests>>

\* ... or misses.
FindAddressMiss(t) ==
  /\ Step(t, "findAddress", "findHeaders")
  /\ \E g \in SearchResults(t) : ~Hit(clients, client[t], g)
  /\ UNCHANGED <<renderer, copies, taskVars, mapVars, response, requests>>

\* Mutant: the configuration itself is handed out, not a copy.
FindHeadersUncopied(t) ==
  /\ FirstMatch(agent[t]) # 0 /\ ~LookupThrows(agent[t])
  /\ Step(t, "findHeaders", "route")
  /\ renderer' = [renderer EXCEPT ![t] = FirstMatch(agent[t])]
  /\ UNCHANGED <<copies, taskVars, mapVars, response, requests>>

\* RendererManager::find(headers): a fresh copy of the first match...
FindHeadersHit(t) ==
  /\ FirstMatch(agent[t]) # 0 /\ ~LookupThrows(agent[t])
  /\ Step(t, "findHeaders", "route")
  /\ copies' = Append(copies, FirstMatch(agent[t]))
  /\ renderer' = [renderer EXCEPT ![t] = Len(copies')]
  /\ UNCHANGED <<taskVars, mapVars, response, requests>>

\* Mutant: a miss is retried.
FindHeadersAgain(t) ==
  /\ FirstMatch(agent[t]) = 0 /\ ~LookupThrows(agent[t])
  /\ Step(t, "findHeaders", "findAddress")
  /\ UNCHANGED <<renderer, copies, taskVars, mapVars, response, requests>>

\* ... or an exception nothing catches, which ends the process...
FindHeadersThrows(t) == LookupThrows(agent[t]) /\ Die(t, "findHeaders", "bad expression")

\* ... or the loop runs out.
FindHeadersMiss(t) ==
  /\ FirstMatch(agent[t]) = 0 /\ ~LookupThrows(agent[t])
  /\ Step(t, "findHeaders", "defaultRenderer")
  /\ UNCHANGED <<renderer, copies, taskVars, mapVars, response, requests>>

\* RendererManager::defaultRenderer: new Renderer(*_defaultRenderer)...
DefaultRenderer(t) ==
  /\ HasDefault
  /\ Step(t, "defaultRenderer", "locate")
  /\ copies' = Append(copies, 0)
  /\ renderer' = [renderer EXCEPT ![t] = Len(copies')]
  /\ UNCHANGED <<taskVars, mapVars, response, requests>>

CopiesMissingDefault(t) == ~HasDefault /\ Die(t, "defaultRenderer", "no default")

\* ... _clients[addr]: operator[] searches, and finds the key's node...
LocateHit(t) ==
  /\ Step(t, "locate", "assign")
  /\ \E g \in SearchResults(t) :
       /\ Hit(clients, client[t], g)
       /\ target' = [target EXCEPT ![t] = clients[g[2]].node]
  /\ UNCHANGED <<clients, place, torn, renderer, copies, taskVars, response, requests>>

\* ... or the place of a node to make for it...
LocateMiss(t) ==
  /\ Step(t, "locate", "link")
  /\ \E g \in SearchResults(t) :
       /\ ~Hit(clients, client[t], g)
       /\ place' = [place EXCEPT ![t] = [left |-> NodeAt(g[1]), right |-> NodeAt(g[2])]]
  /\ UNCHANGED <<clients, target, torn, renderer, copies, taskVars, response, requests>>

(***************************************************************************)
(* ... and, if the key is new, links a node for it there, with a null       *)
(* value.  The node is named after the copy it is made for.  A task that    *)
(* links while others have a place to link at invalidates their places:     *)
(* what they link then may end anywhere between the two nodes they chose,   *)
(* and may cut any other nodes off the tree.                                *)
(***************************************************************************)
NewNode(t) == [key |-> client[t], node |-> renderer[t], value |-> 0]

\* What can be left of a sequence some of whose elements were lost.
Remainders(s) ==
  UNION {{[i \in 1 .. m |-> s[f[i]]] :
            f \in {h \in [1 .. m -> DOMAIN s] : \A i, j \in 1 .. m : i < j => h[i] < h[j]}} :
         m \in 0 .. Len(s)}

LinkPositions(s, l, r) ==
  {p \in 1 .. Len(s) + 1 : \A i \in DOMAIN s : /\ s[i].node = l => i < p
                                               /\ s[i].node = r => p <= i}

Link(t) ==
  /\ Step(t, "link", "assign")
  /\ target' = [target EXCEPT ![t] = renderer[t]]
  /\ torn' = (torn \/ \E u \in Tasks \ {t} : pc[u] = "link")
  /\ \E rest \in IF torn THEN Remainders(clients) ELSE {clients} :
       \E p \in LinkPositions(rest, place[t].left, place[t].right) :
         clients' = InsertAt(rest, p, NewNode(t))
  /\ place' = [place EXCEPT ![t] = [left |-> 0, right |-> 0]]
  /\ UNCHANGED <<renderer, copies, taskVars, response, requests>>

\* A search or a link in a torn tree may also follow a wild pointer or never end.
TornMapFails(t) ==
  torn /\ \E a \in {"findAddress", "locate", "link"} : Die(t, a, "torn map")

\* Mutant: the value is not stored.
AssignNothing(t) ==
  /\ Step(t, "assign", "route")
  /\ target' = [target EXCEPT ![t] = 0]
  /\ UNCHANGED <<clients, place, torn, renderer, copies, taskVars, response, requests>>

\* Mutant: the value of every node is replaced.
AssignEverywhere(t) ==
  /\ Step(t, "assign", "route")
  /\ clients' = [i \in DOMAIN clients |-> [clients[i] EXCEPT !.value = renderer[t]]]
  /\ target' = [target EXCEPT ![t] = 0]
  /\ UNCHANGED <<place, torn, renderer, copies, taskVars, response, requests>>

\* ... = def
Assign(t) ==
  /\ Step(t, "assign", "route")
  /\ clients' = [i \in DOMAIN clients |->
                   IF clients[i].node = target[t]
                   THEN [clients[i] EXCEPT !.value = renderer[t]] ELSE clients[i]]
  /\ target' = [target EXCEPT ![t] = 0]
  /\ UNCHANGED <<place, torn, renderer, copies, taskVars, response, requests>>

(***************************************************************************)
(* The rest of SetupResponse: logs the renderer's name, and hands the       *)
(* request to the first route that matches; DiscoverHandler always          *)
(* succeeds.  RespondToClient turns the result into the answer's status.    *)
(***************************************************************************)
Respond(t) ==
  /\ renderer[t] # 0
  /\ Step(t, "route", "reading")
  /\ response' = [response EXCEPT ![t] = IF HasRoute(path[t]) THEN 200 ELSE 500]
  /\ UNCHANGED <<renderer, copies, taskVars, mapVars, requests>>

LogsNullRenderer(t) == renderer[t] = 0 /\ Die(t, "route", "null renderer")

\* A process that died stays dead.
Dead == crashed # "no" /\ UNCHANGED vars

Handle(t) ==
  \/ SetupResponse(t) \/ LogsMissingUserAgent(t)
  \/ FindAddressHit(t) \/ FindAddressMiss(t) \/ FindHeadersHit(t) \/ FindHeadersThrows(t)
  \/ FindHeadersMiss(t)
  \/ DefaultRenderer(t) \/ CopiesMissingDefault(t)
  \/ LocateHit(t) \/ LocateMiss(t) \/ Link(t) \/ Assign(t) \/ TornMapFails(t)
  \/ Respond(t) \/ LogsNullRenderer(t)

Next ==
  \/ \E t \in Tasks : Accept(t) \/ ReadRequest(t) \/ Disconnect(t) \/ Handle(t)
  \/ Dead

\* Once it has read a request a thread runs until it has answered it.
Fairness == \A t \in Tasks : WF_vars(Handle(t))

Spec == Init /\ [][Next]_vars
FairSpec == Spec /\ Fairness
-----------------------------------------------------------------------------
(* Properties                                                               *)

Entry == [key : Address, node : 1 .. Len(copies), value : 0 .. Len(copies)]

Labels == {"idle", "reading", "start", "findAddress", "findHeaders",
           "defaultRenderer", "locate", "link", "assign", "route"}

Deaths == {"no", "no user agent", "bad expression", "no default", "null renderer", "torn map"}

\* The type invariant: every renderer pointer is null or one of the copies made,
\* and every node of _clients was made for one of them.
TypeOK ==
  /\ config \in Configurations
  /\ pc \in [Tasks -> Labels]
  /\ client \in [Tasks -> Address \union {NoClient}]
  /\ agent \in [Tasks -> UserAgent \union {NoUserAgent}]
  /\ path \in [Tasks -> Path \union {<<>>}]
  /\ copies \in Seq(0 .. Len(Renderers))
  /\ renderer \in [Tasks -> 0 .. Len(copies)]
  /\ clients \in Seq(Entry)
  /\ place \in [Tasks -> [left : 0 .. Len(copies), right : 0 .. Len(copies)]]
  /\ target \in [Tasks -> 0 .. Len(copies)]
  /\ torn \in BOOLEAN
  /\ response \in [Tasks -> {0, 200, 500}]
  /\ crashed \in Deaths
  /\ requests \in 0 .. MaxRequests

(***************************************************************************)
(* SocketAddressComparator is not a strict weak order, which std::map asks  *)
(* for.  What keeps _clients searchable all the same: operator[] adds a     *)
(* node only between neighbours strictly below and above its key, so as     *)
(* long as no two tasks link at once the keys increase in IP address and in *)
(* port from each node to the next.                                         *)
(***************************************************************************)
ClientsFormAChain == ~torn => IsChain(clients)

(***************************************************************************)
(* Hence a search for any address ends at the same node whatever the shape  *)
(* of the tree, and a search for a bound address at the address's own node. *)
(***************************************************************************)
LookupIgnoresShape ==
  ~torn => /\ \A a \in Address : Cardinality(Gaps(clients, a)) = 1
           /\ \A i \in DOMAIN clients : Gaps(clients, clients[i].key) = {<<i - 1, i>>}

(***************************************************************************)
(* A client is served the configuration its headers select, unless its      *)
(* address is the same, to the comparator, as one bound in _clients: then   *)
(* it is served the default renderer, whatever its headers say.  (That may  *)
(* be another client's address: same IP, or higher IP with a lower port.)   *)
(***************************************************************************)
ServedByHeadersOrBinding ==
  \A t \in Tasks :
    pc[t] = "route" /\ renderer[t] # 0 /\ copies[renderer[t]] # FirstMatch(agent[t]) =>
      /\ copies[renderer[t]] = 0
      /\ torn \/ \E i \in DOMAIN clients : Equivalent(client[t], clients[i].key)

(***************************************************************************)
(* The process dies only of a request without User-Agent (requests.cpp:9),  *)
(* of a malformed expression in a configuration tried before the one that   *)
(* matches (manager.cpp:70, 82), of a missing default configuration         *)
(* (manager.cpp:96), or, when more than one task handles a request, of      *)
(* _clients read while it is written.                                       *)
(***************************************************************************)
HasMalformed(c) == c.search = "malformed" \/ c.extra = "malformed"
KnownCausesOfDeath ==
  /\ crashed = "no user agent" => \E t \in Tasks : agent[t] = NoUserAgent
  /\ crashed = "bad expression" =>
       \E t \in Tasks, i \in DOMAIN Renderers :
         HasMalformed(Renderers[i]) /\ \A j \in 1 .. i - 1 : ~CandidateMatches(Renderers[j], agent[t])
  /\ crashed = "no default" => ~HasDefault
  /\ crashed = "torn map" => torn
  /\ crashed = "null renderer" => Cardinality(Tasks) > 1

(***************************************************************************)
(* A node of _clients is null only while the task that linked it has not    *)
(* assigned its value yet: whoever finds it then dies (requests.cpp:23).    *)
(***************************************************************************)
NullValuesAreBeingAssigned ==
  \A i \in DOMAIN clients :
    clients[i].value = 0 =>
      \E t \in Tasks : pc[t] = "assign" /\ target[t] = clients[i].node

\* Every request is answered, or the process dies.
EveryRequestIsAnswered ==
  \A t \in Tasks : pc[t] = "start" ~> (pc[t] = "reading" \/ crashed # "no")

(***************************************************************************)
(* What the code does not do.                                               *)
(* Platinum's PLT_HttpServer.h offers PLT_HttpServer as "an asynchronous    *)
(* way to handle multiple HTTP requests concurrently"; a handler run by it  *)
(* must not bring the process down because another request is in progress.  *)
(***************************************************************************)
ConcurrentRequestsAreSafe == crashed # "null renderer"

(***************************************************************************)
(* The path of the description, which every discovery message advertises    *)
(* and DiscoverHandler has a branch for, is served.                         *)
(***************************************************************************)
DescriptionPath == <<"/description", "/fetch">>
AdvertisedLocationIsServed ==
  [][\A t \in Tasks : Respond(t) /\ path[t] = DescriptionPath => response'[t] = 200]_vars
-----------------------------------------------------------------------------
(* What makes ClientsFormAChain inductive                                   *)

\* A connection has an address, and a task about to bind a client has made a copy.
TasksAreReady ==
  \A t \in Tasks : /\ pc[t] # "idle" => client[t] \in Address
                   /\ pc[t] \in {"locate", "link", "assign"} => renderer[t] # 0

\* The place a task is about to link at is between neighbours below and above its key.
PlaceIsSound(t) ==
  \E p \in 1 .. Len(clients) + 1 :
    /\ place[t] = [left |-> NodeAt(p - 1), right |-> NodeAt(p)]
    /\ p # 1 => Less(clients[p - 1].key, client[t])
    /\ p # Len(clients) + 1 => Less(client[t], clients[p].key)

\* ... as long as nobody else is about to link: whoever links first then tears the tree.
PlacesAreSound ==
  ~torn => \A t \in Tasks :
             pc[t] = "link" /\ (\A u \in Tasks \ {t} : pc[u] # "link") => PlaceIsSound(t)

(***************************************************************************)
(* The inductive invariant: while the tree is not torn, the one task in the *)
(* middle of operator[] (manager.cpp:97) links where the order allows.      *)
(***************************************************************************)
IInv == TypeOK /\ TasksAreReady /\ ClientsFormAChain /\ PlacesAreSound
=============================================================================
