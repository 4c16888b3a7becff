-------------------------------- MODULE Ssdp --------------------------------
(***************************************************************************)
(* Discovery: the announcements and the answers to searches of             *)
(* Upnp::Server (Network/upnp.cpp), as the control points of the network    *)
(* see them.  A control point keeps an entry per USN for as long as the     *)
(* max-age of the last message it got; datagrams may be lost.  main sends   *)
(* one set of announcements and starts two threads: one that announces      *)
(* after 10, 20, and then every 180 seconds, and one that answers searches. *)
(*                                                                          *)
(* A unit of time is ten seconds.  Nothing the server does between two      *)
(* sleeps takes as long; a sleep may take Late units more than asked for.   *)
(***************************************************************************)
EXTENDS Integers, Sequences

CONSTANTS
  ControlPoints,     \* who listens to the server
  Watched,           \* the entries that are followed: <<control point, USN>>
  SearchTargets,     \* what control points search for
  ListenerReceives,  \* whether searches reach the listener's socket.  The code does
                     \*   not bind it to a port (upnp.cpp:152), so it gets nothing
                     \*   (FALSE); TRUE is for what the listener does with a search.
  SocketLimit,       \* sockets the process may open for its announcements
  MaxLosses,         \* bound: announcements of a target lost to an entry in a row
  MaxInbox,          \* bound: searches waiting in the listener's socket
  Late,              \* bound: how much longer than asked a sleep takes
  MaxStarts          \* bound: how often the server is started

-----------------------------------------------------------------------------
(* Messages                                                                 *)

Udn == "udn"

\* What sendAlive announces, in order.
AliveTargets == <<"rootdevice", Udn, "MediaServer", "ContentDirectory", "ConnectionManager">>

Target == {"rootdevice", Udn, "MediaServer", "ContentDirectory", "ConnectionManager"}

\* The USN of an announcement (buildMsg) and of an answer (sendDiscover): the
\* UDN, and the target after it unless the target is the UDN.
Usn == {<<Udn>>} \union {<<Udn, t>> : t \in Target}
NotifyUsn(nt) == IF nt # Udn THEN <<Udn, nt>> ELSE <<Udn>>

\* Mutant: the UDN goes before every target.
DiscoverUsnAlways(st) == <<Udn, st>>
DiscoverUsn(st) == IF st = Udn THEN <<st>> ELSE <<Udn, st>>

\* max-age, in units: 1800 s in buildMsg, 1200 s in sendDiscover.
AliveMaxAge == 180
ReplyMaxAge == 120

\* Mutant: no test for ssdp:all.
TestsWithoutAll == << [text |-> "ContentDirectory", target |-> "ContentDirectory"],
                      [text |-> "rootdevice",       target |-> "rootdevice"],
                      [text |-> "MediaServer",      target |-> "MediaServer"],
                      [text |-> Udn,                target |-> Udn] >>

(***************************************************************************)
(* The tests the listener makes of a search, in order: the text looked for  *)
(* and the target answered.  find_first_of(text) > 0 looks for any of the   *)
(* text's characters.  The first character of a search is the M of          *)
(* M-SEARCH: a text with an M is found at index 0; any other is found later *)
(* or not at all, and npos is greater than 0 too.                           *)
(***************************************************************************)
Tests == << [text |-> "ContentDirectory", target |-> "ContentDirectory"],
            [text |-> "rootdevice",       target |-> "rootdevice"],
            [text |-> "MediaServer",      target |-> "MediaServer"],
            [text |-> "ssdp:all",         target |-> "MediaServer"],
            [text |-> Udn,                target |-> Udn] >>

Found(text) == text # "MediaServer"

\* The delays of the announcing thread: 10 s, 20 s, then 180 s.
FirstDelay == 1

\* Mutant: a zero too many in the steady delay.
NextDelayTenfold(d) == IF d = FirstDelay THEN 2 ELSE 180
NextDelay(d) == IF d = FirstDelay THEN 2 ELSE 18

\* The longest time from one set of announcements to the next.
Period == 18 + Late

ShortestMaxAge == IF ListenerReceives THEN ReplyMaxAge ELSE AliveMaxAge

ASSUME DiscoveryAssumption ==
  /\ Watched \subseteq ControlPoints \X Usn
  /\ ListenerReceives \in BOOLEAN
  /\ SocketLimit \in Nat \ {0} /\ MaxInbox \in Nat /\ MaxLosses \in Nat /\ Late \in Nat /\ MaxStarts \in Nat

\* Not so many announcements in a row are lost that the entry expires meanwhile.
ASSUME LossAssumption == (MaxLosses + 1) * Period < ShortestMaxAge

VARIABLES
  phase,      \* what the announcing thread (main's, until it calls listen) does
  nextTarget, \* sendAlive: the index of the target it announces next
  delay,      \* the announcing thread's local
  timer,      \* what is left of its sleep; negative: it is late
  sockets,    \* sockets sendAlive has opened, or tried to: none is ever closed
  inbox,      \* searches waiting in the listener's socket
  answering,  \* the listener's search, and the test it makes next
  lease,      \* each entry's time to live, 0 when there is none
  missed,     \* the announcements lost to each entry in a row
  heard,      \* entries a message of the running process has refreshed
  owed,       \* searches that reached the host and are not answered yet
  starts      \* starts of the server, to bound them

serverVars == <<phase, nextTarget, delay, timer, sockets>>
listenerVars == <<inbox, answering, owed>>
entryVars == <<lease, missed, heard>>
vars == <<serverVars, listenerVars, entryVars, starts>>

Idle == [cp |-> "none", st |-> "none", test |-> 0]
Up == phase # "down"
SocketsExhausted == sockets > SocketLimit

\* Mutant: sendAlive leaves the last target out.
AnnouncingAllButOne == phase \in {"announcing", "sending"} /\ nextTarget < Len(AliveTargets)

\* sendAlive has targets left to send.
Announcing == phase \in {"announcing", "sending"} /\ nextTarget <= Len(AliveTargets)
-----------------------------------------------------------------------------
Init ==
  /\ phase = "down" /\ nextTarget = 1 /\ delay = FirstDelay /\ timer = 0 /\ sockets = 0
  /\ inbox = <<>> /\ answering = Idle /\ owed = {}
  /\ lease = [e \in Watched |-> 0]
  /\ missed = [e \in Watched |-> 0]
  /\ heard = [e \in Watched |-> FALSE]
  /\ starts = 0

\* sendAlive begins: it opens a multicast socket (getNewMulticastSocket).
BeginSendAlive(p) ==
  /\ phase' = p
  /\ nextTarget' = 1
  /\ sockets' = IF SocketsExhausted THEN sockets ELSE sockets + 1

\* The server is started: main calls sendAlive.
Start ==
  /\ ~Up /\ starts < MaxStarts
  /\ starts' = starts + 1
  /\ phase' = "announcing" /\ nextTarget' = 1 /\ sockets' = 1
  /\ heard' = [e \in Watched |-> FALSE]
  /\ UNCHANGED <<delay, timer, listenerVars, lease, missed>>

\* The entries E are refreshed by a message with max-age a.
Refresh(E, a) ==
  /\ lease' = [e \in Watched |-> IF e \in E THEN a ELSE lease[e]]
  /\ heard' = [e \in Watched |-> heard[e] \/ e \in E]

(***************************************************************************)
(* sendMessage, of the next target.  Each entry of its USN is refreshed or  *)
(* the datagram is lost on the way there.                                   *)
(***************************************************************************)
SendMessage ==
  /\ Announcing /\ ~SocketsExhausted
  /\ nextTarget' = nextTarget + 1
  /\ LET reached == {e \in Watched : e[2] = NotifyUsn(AliveTargets[nextTarget])}
     IN  \E E \in SUBSET reached :
           /\ \A e \in reached \ E : missed[e] < MaxLosses
           /\ Refresh(E, AliveMaxAge)
           /\ missed' = [e \in Watched |-> IF e \in E THEN 0
                                           ELSE IF e \in reached THEN missed[e] + 1
                                           ELSE missed[e]]
  /\ UNCHANGED <<phase, delay, timer, sockets, listenerVars, starts>>

\* Without a socket the message goes nowhere...
SendFails ==
  /\ Announcing /\ SocketsExhausted
  /\ nextTarget' = nextTarget + 1
  /\ UNCHANGED <<phase, delay, timer, sockets, listenerVars, entryVars, starts>>

\* ... main, done with sendAlive, calls listen, which starts the two threads.
Listen ==
  /\ phase = "announcing" /\ ~Announcing
  /\ phase' = "sleeping" /\ delay' = FirstDelay /\ timer' = FirstDelay
  /\ UNCHANGED <<nextTarget, sockets, listenerVars, entryVars, starts>>

\* The announcing thread wakes up and calls sendAlive...
Wake ==
  /\ phase = "sleeping" /\ timer <= 0
  /\ BeginSendAlive("sending")
  /\ UNCHANGED <<delay, timer, listenerVars, entryVars, starts>>

\* ... and goes back to sleep.
Sleep ==
  /\ phase = "sending" /\ ~Announcing
  /\ phase' = "sleeping" /\ delay' = NextDelay(delay) /\ timer' = NextDelay(delay)
  /\ UNCHANGED <<nextTarget, sockets, listenerVars, entryVars, starts>>

\* The process ends: main reads a q or the end of its input (and sends no
\* ssdp:byebye), is killed, or dies of a descriptor that is not one in select().
Stop ==
  /\ Up
  /\ phase' = "down" /\ nextTarget' = 1 /\ delay' = FirstDelay /\ timer' = 0 /\ sockets' = 0
  /\ inbox' = <<>> /\ answering' = Idle /\ owed' = {}
  /\ UNCHANGED <<entryVars, starts>>

\* A control point multicasts a search, which reaches the host of the server.
Search(cp, st) ==
  /\ phase \in {"sleeping", "sending"}
  /\ Len(inbox) < MaxInbox
  /\ owed' = owed \union {<<cp, st>>}
  /\ inbox' = IF ListenerReceives THEN Append(inbox, [cp |-> cp, st |-> st, test |-> 1]) ELSE inbox
  /\ UNCHANGED <<serverVars, answering, entryVars, starts>>

Receive ==
  /\ answering = Idle /\ inbox # <<>>
  /\ answering' = Head(inbox) /\ inbox' = Tail(inbox)
  /\ UNCHANGED <<serverVars, owed, entryVars, starts>>

\* Mutant: one test too many.
NextTestPastTheEnd ==
  answering' = IF answering.test > Len(Tests) THEN Idle
               ELSE [answering EXCEPT !.test = answering.test + 1]

\* The listener is done with its search after the last test.
NextTest ==
  answering' = IF answering.test = Len(Tests) THEN Idle
               ELSE [answering EXCEPT !.test = answering.test + 1]

\* A test that holds: sendDiscover, to the address the search came from...
SendDiscover ==
  /\ answering # Idle
  /\ Found(Tests[answering.test].text)
  /\ LET st == Tests[answering.test].target
         e == <<answering.cp, DiscoverUsn(st)>>
     IN  /\ \E E \in SUBSET ({e} \intersect Watched) : Refresh(E, ReplyMaxAge)
         /\ owed' = owed \ {<<answering.cp, st>>}
  /\ NextTest
  /\ UNCHANGED <<serverVars, inbox, missed, starts>>

\* ... or one that does not.
SkipTest ==
  /\ answering # Idle
  /\ ~Found(Tests[answering.test].text)
  /\ NextTest
  /\ UNCHANGED <<serverVars, inbox, owed, entryVars, starts>>

\* Ten seconds pass, with the announcing thread asleep.  The listener may be late.
Tick ==
  /\ \/ phase = "down"
     \/ phase = "sleeping" /\ timer > 0 - Late
  /\ timer' = IF Up THEN timer - 1 ELSE timer
  /\ lease' = [e \in Watched |-> IF lease[e] > 0 THEN lease[e] - 1 ELSE 0]
  /\ UNCHANGED <<phase, nextTarget, delay, sockets, listenerVars, missed, heard, starts>>

Announcer == SendMessage \/ SendFails \/ Listen \/ Wake \/ Sleep
Listener == Receive \/ SendDiscover \/ SkipTest

Next ==
  \/ Start \/ Announcer \/ Stop
  \/ \E cp \in ControlPoints, st \in SearchTargets : Search(cp, st)
  \/ Listener \/ Tick

\* The threads of the server run, and time passes whatever they do.
Fairness == WF_vars(Announcer) /\ WF_vars(Listener) /\ SF_vars(Tick)

Spec == Init /\ [][Next]_vars
FairSpec == Spec /\ Fairness
-----------------------------------------------------------------------------
(* Properties                                                               *)

Phases == {"down", "announcing", "sleeping", "sending"}
Searching == [cp : ControlPoints, st : SearchTargets, test : 1 .. Len(Tests)]

\* The type invariant.
TypeOK ==
  /\ phase \in Phases
  /\ nextTarget \in 1 .. Len(AliveTargets) + 1
  /\ delay \in {FirstDelay, 2, 18}
  /\ timer \in 0 - Late .. 18
  /\ sockets \in 0 .. SocketLimit + 1
  /\ inbox \in Seq(Searching)
  /\ answering \in Searching \union {Idle}
  /\ owed \subseteq ControlPoints \X SearchTargets
  /\ lease \in [Watched -> 0 .. AliveMaxAge]
  /\ missed \in [Watched -> 0 .. MaxLosses]
  /\ heard \in [Watched -> BOOLEAN]
  /\ starts \in 0 .. MaxStarts

(***************************************************************************)
(* The pace of the announcements (upnp.cpp:140) is enough: while the server *)
(* runs, no entry it has refreshed expires, although MaxLosses              *)
(* announcements in a row may be lost, sleeps take longer, the pace changes *)
(* and an answer to a search shortens the time an entry has to live.  That  *)
(* is so until the process has no descriptor left for another socket.       *)
(***************************************************************************)
KnownEntriesStayKnown ==
  Up /\ ~SocketsExhausted => \A e \in Watched : heard[e] => lease[e] > 0

\* Announcements and answers agree on the USN of a target: an answer never adds
\* an entry that no announcement refreshes.
AnnouncedUsns == {NotifyUsn(AliveTargets[i]) : i \in DOMAIN AliveTargets}
OnlyAnnouncedUsns ==
  \A e \in Watched : heard[e] \/ lease[e] > 0 => e[2] \in AnnouncedUsns

\* A server that keeps running gets known to every control point that listens,
\* without a search, before its descriptors run out.
RunningServerBecomesKnown ==
  SocketLimit > MaxLosses =>
    \A e \in Watched : e[2] \in AnnouncedUsns /\ Up ~> heard[e] \/ ~Up

\* A listener that gets searches answers those for every target that is
\* announced, but ConnectionManager, which it has no test for.
ListenerAnswers ==
  ListenerReceives =>
    \A s \in ControlPoints \X (SearchTargets \intersect (Target \ {"ConnectionManager"})) :
      s \in owed ~> s \notin owed

(***************************************************************************)
(* What the code does not do.                                               *)
(* "To ensure that the advertisements do not expire, a device should        *)
(* re-advertise well in advance of the expiration"                          *)
(* (UPnP_Vendor_Implementation_Guide_Jan2001.htm).  sendAlive leaks a       *)
(* socket per call; once there are no descriptors left it announces nothing.*)
(***************************************************************************)
AdvertisementsDoNotExpire == Up => \A e \in Watched : heard[e] => lease[e] > 0

(***************************************************************************)
(* "To be found, a device must send a response to the source IP address and *)
(* port that sent the request to the multicast channel" (the same guide).   *)
(* The listener's socket is not bound to the port searches are sent to.     *)
(***************************************************************************)
SearchesAreAnswered ==
  \A s \in ControlPoints \X (SearchTargets \intersect Target) : s \in owed ~> s \notin owed
-----------------------------------------------------------------------------
(* What makes KnownEntriesStayKnown inductive                               *)

\* The most time that can pass before the next announcement of entry e's target.
Wait(e) ==
  IF phase = "sleeping" THEN timer + Late
  ELSE IF \E i \in nextTarget .. Len(AliveTargets) : NotifyUsn(AliveTargets[i]) = e[2] THEN 0
  ELSE Period

\* An entry outlives that time and all the announcements that may still be lost.
LeaseCovers ==
  Up /\ ~SocketsExhausted =>
    \A e \in Watched : heard[e] => lease[e] > Wait(e) + (MaxLosses - missed[e]) * Period

\* An unbound socket receives nothing.
SearchesNeedAPort == ~ListenerReceives => inbox = <<>> /\ answering = Idle

\* The inductive invariant.
IInv == TypeOK /\ OnlyAnnouncedUsns /\ SearchesNeedAPort /\ LeaseCovers
=============================================================================
