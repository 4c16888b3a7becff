----------------------------- MODULE SsdpProofs -----------------------------
(***************************************************************************)
(* Proofs about Ssdp: the pace of the announcements keeps every entry the   *)
(* server has refreshed alive, for any number of control points, of losses  *)
(* and of late sleeps that LossAssumption allows.                           *)
(***************************************************************************)
EXTENDS Ssdp, TLAPS

\* The time the announcements that may still be lost take.
LEMMA LossBudget ==
  ASSUME NEW m \in 0 .. MaxLosses
  PROVE  /\ Period \in Nat /\ Period >= 18 + Late
         /\ (MaxLosses - m) * Period \in Nat
         /\ (MaxLosses - m) * Period + Period < ShortestMaxAge
         /\ m < MaxLosses =>
              (MaxLosses - m) * Period = (MaxLosses - (m + 1)) * Period + Period
<1> DEFINE P == Period
<1>1. P \in Nat /\ P >= 18 + Late
  BY DiscoveryAssumption DEF Period
<1>2. MaxLosses \in Nat /\ MaxLosses - m \in Nat /\ MaxLosses - m <= MaxLosses
  BY DiscoveryAssumption
<1> HIDE DEF P
<1>3. \A k \in Nat : k * P \in Nat /\ (k + 1) * P = k * P + P
  BY <1>1
<1>4. \A j, k \in Nat : j <= k => j * P <= k * P
  BY <1>1
<1>5. (MaxLosses + 1) * P < ShortestMaxAge
  BY LossAssumption DEF P
<1>6. ShortestMaxAge \in Nat
  BY DEF ShortestMaxAge, ReplyMaxAge, AliveMaxAge
<1>7. (MaxLosses - m) * P + P < ShortestMaxAge
  BY <1>1, <1>2, <1>3, <1>4, <1>5, <1>6
<1>8. ASSUME m < MaxLosses PROVE (MaxLosses - m) * P = (MaxLosses - (m + 1)) * P + P
  <2>1. MaxLosses - (m + 1) \in Nat /\ (MaxLosses - (m + 1)) + 1 = MaxLosses - m
    BY <1>8, <1>2
  <2> QED
    BY <2>1, <1>3
<1> QED
  BY <1>1, <1>2, <1>3, <1>7, <1>8 DEF P
-----------------------------------------------------------------------------
(* Type correctness                                                         *)

LEMMA LenOfTargets == Len(AliveTargets) = 5
BY DEF AliveTargets

LEMMA LenOfTests == Len(Tests) = 5
BY DEF Tests

LEMMA TargetsAnswered == \A i \in 1 .. 5 : Tests[i].target \in Target /\ Tests[i].target # "ConnectionManager"
BY DEF Tests, Target, Udn

LEMMA NextDelayType == \A d : NextDelay(d) \in {2, 18}
BY DEF NextDelay

\* Refreshing entries keeps the types of what it changes.
LEMMA RefreshType ==
  ASSUME TypeOK, NEW E, NEW a \in 0 .. AliveMaxAge, Refresh(E, a)
  PROVE  /\ lease' \in [Watched -> 0 .. AliveMaxAge]
         /\ heard' \in [Watched -> BOOLEAN]
BY DEF TypeOK, Refresh

\* What sendMessage does to an entry: it refreshes it, or is lost on the way, or
\* is not for it.
Refreshed(e) == lease'[e] = AliveMaxAge /\ missed'[e] = 0 /\ heard'[e] = TRUE
Lost(e) ==
  /\ missed[e] < MaxLosses
  /\ lease'[e] = lease[e] /\ missed'[e] = missed[e] + 1 /\ heard'[e] = heard[e]
Untouched(e) == lease'[e] = lease[e] /\ missed'[e] = missed[e] /\ heard'[e] = heard[e]

LEMMA SendMessageEffect ==
  ASSUME TypeOK, SendMessage
  PROVE  /\ \A e \in Watched : IF e[2] = NotifyUsn(AliveTargets[nextTarget])
                               THEN Refreshed(e) \/ Lost(e) ELSE Untouched(e)
         /\ missed' = [e \in Watched |-> missed'[e]]
         /\ lease' \in [Watched -> 0 .. AliveMaxAge]
         /\ heard' \in [Watched -> BOOLEAN]
<1> DEFINE reached == {e \in Watched : e[2] = NotifyUsn(AliveTargets[nextTarget])}
<1>1. PICK E \in SUBSET reached :
        /\ \A e \in reached \ E : missed[e] < MaxLosses
        /\ Refresh(E, AliveMaxAge)
        /\ missed' = [e \in Watched |-> IF e \in E THEN 0
                                        ELSE IF e \in reached THEN missed[e] + 1
                                        ELSE missed[e]]
  BY Zenon DEF SendMessage
<1>2. lease' \in [Watched -> 0 .. AliveMaxAge] /\ heard' \in [Watched -> BOOLEAN]
  <2>1. AliveMaxAge \in 0 .. AliveMaxAge
    BY DEF AliveMaxAge
  <2> QED
    BY <1>1, <2>1, RefreshType
<1>3. missed' = [e \in Watched |-> missed'[e]]
  <2> DEFINE count(e) == IF e \in E THEN 0 ELSE IF e \in reached THEN missed[e] + 1 ELSE missed[e]
  <2>1. missed' = [e \in Watched |-> count(e)]
    BY <1>1
  <2> HIDE DEF count
  <2> QED
    BY <2>1
<1>4. ASSUME NEW e \in Watched, e \in E PROVE e \in reached /\ Refreshed(e)
  BY <1>1, <1>4 DEF Refreshed, Refresh
<1>5. ASSUME NEW e \in reached, e \notin E PROVE Lost(e)
  BY <1>1, <1>5 DEF Lost, Refresh, TypeOK
<1>6. ASSUME NEW e \in Watched, e \notin reached PROVE Untouched(e)
  BY <1>1, <1>6 DEF Untouched, Refresh, TypeOK
<1> QED
  BY <1>2, <1>3, <1>4, <1>5, <1>6

LEMMA TypeInit == Init => TypeOK
<1> SUFFICES ASSUME Init PROVE TypeOK
  OBVIOUS
<1>1. inbox \in Seq(Searching)
  BY DEF Init
<1>2. timer \in 0 - Late .. 18
  BY DiscoveryAssumption DEF Init
<1>3. 0 \in 0 .. AliveMaxAge /\ 0 \in 0 .. MaxLosses /\ 0 \in 0 .. MaxStarts /\ 0 \in 0 .. SocketLimit + 1
  BY DiscoveryAssumption DEF AliveMaxAge
<1> QED
  BY <1>1, <1>2, <1>3, LenOfTargets DEF Init, TypeOK, Phases

LEMMA TypeNext == TypeOK /\ [Next]_vars => TypeOK'
<1> SUFFICES ASSUME TypeOK, [Next]_vars PROVE TypeOK'
  OBVIOUS
<1> USE DiscoveryAssumption
<1>1. CASE Start
  BY <1>1 DEF TypeOK, Start, Phases, listenerVars, AliveTargets
<1>2. CASE SendMessage
  <2>2. missed' \in [Watched -> 0 .. MaxLosses]
    <3>1. ASSUME NEW e \in Watched PROVE missed'[e] \in 0 .. MaxLosses
      <4>1. Refreshed(e) \/ Lost(e) \/ Untouched(e)
        BY <1>2, SendMessageEffect
      <4>2. missed[e] \in 0 .. MaxLosses
        BY DEF TypeOK
      <4> QED
        BY <4>1, <4>2 DEF Refreshed, Lost, Untouched
    <3> QED
      BY <1>2, <3>1, SendMessageEffect
  <2>3. lease' \in [Watched -> 0 .. AliveMaxAge] /\ heard' \in [Watched -> BOOLEAN]
    BY <1>2, SendMessageEffect
  <2>4. nextTarget' \in 1 .. Len(AliveTargets) + 1
    BY <1>2, LenOfTargets DEF SendMessage, Announcing, TypeOK
  <2> QED
    BY <1>2, <2>2, <2>3, <2>4 DEF TypeOK, SendMessage, listenerVars
<1>3. CASE SendFails
  <2>1. nextTarget' \in 1 .. Len(AliveTargets) + 1
    BY <1>3, LenOfTargets DEF SendFails, Announcing, TypeOK
  <2> QED
    BY <1>3, <2>1 DEF TypeOK, SendFails, listenerVars, entryVars
<1>4. CASE Listen
  BY <1>4 DEF TypeOK, Listen, Phases, FirstDelay, listenerVars, entryVars
<1>5. CASE Wake
  BY <1>5, LenOfTargets DEF TypeOK, Wake, BeginSendAlive, SocketsExhausted, Phases, listenerVars, entryVars
<1>6. CASE Sleep
  BY <1>6, NextDelayType DEF TypeOK, Sleep, Phases, listenerVars, entryVars
<1>7. CASE Stop
  BY <1>7, LenOfTargets DEF TypeOK, Stop, Phases, entryVars
<1>8. CASE \E cp \in ControlPoints, st \in SearchTargets : Search(cp, st)
  <2>1. PICK cp \in ControlPoints, st \in SearchTargets : Search(cp, st)
    BY <1>8
  <2>2. [cp |-> cp, st |-> st, test |-> 1] \in Searching
    BY LenOfTests DEF Searching
  <2>3. inbox' \in Seq(Searching)
    BY <2>1, <2>2 DEF Search, TypeOK
  <2> QED
    BY <2>1, <2>3 DEF TypeOK, Search, serverVars, entryVars
<1>9. CASE Receive
  <2>1. answering' \in Searching /\ inbox' \in Seq(Searching)
    BY <1>9 DEF TypeOK, Receive
  <2> QED
    BY <1>9, <2>1 DEF TypeOK, Receive, serverVars, entryVars
<1>10. ASSUME answering # Idle, NextTest PROVE answering' \in Searching \union {Idle}
  <2>1. answering \in Searching
    BY <1>10 DEF TypeOK
  <2>2. answering.test \in 1 .. 5
    BY <2>1, LenOfTests DEF Searching
  <2>3. CASE answering.test = 5
    BY <1>10, <2>3, LenOfTests DEF NextTest
  <2>4. CASE answering.test # 5
    <3>1. answering' = [answering EXCEPT !.test = answering.test + 1]
      BY <1>10, <2>4, LenOfTests DEF NextTest
    <3>2. answering.test + 1 \in 1 .. Len(Tests)
      BY <2>2, <2>4, LenOfTests
    <3> QED
      BY <2>1, <3>1, <3>2 DEF Searching
  <2> QED
    BY <2>3, <2>4
<1>11. CASE SendDiscover
  <2>1. PICK E : Refresh(E, ReplyMaxAge)
    BY <1>11 DEF SendDiscover
  <2>2. lease' \in [Watched -> 0 .. AliveMaxAge] /\ heard' \in [Watched -> BOOLEAN]
    <3>1. ReplyMaxAge \in 0 .. AliveMaxAge
      BY DEF ReplyMaxAge, AliveMaxAge
    <3> QED
      BY <2>1, <3>1, RefreshType
  <2>3. answering' \in Searching \union {Idle}
    BY <1>10, <1>11 DEF SendDiscover
  <2>4. UNCHANGED <<serverVars, inbox, missed, starts>> /\ owed' \subseteq owed
    BY <1>11 DEF SendDiscover
  <2> QED
    BY <2>2, <2>3, <2>4 DEF TypeOK, serverVars
<1>12. CASE SkipTest
  BY <1>10, <1>12 DEF TypeOK, SkipTest, serverVars, entryVars
<1>13. CASE Tick
  <2>1. timer' \in 0 - Late .. 18
    BY <1>13 DEF TypeOK, Tick, Up
  <2>2. lease' \in [Watched -> 0 .. AliveMaxAge]
    <3>1. \A n \in 0 .. AliveMaxAge : (IF n > 0 THEN n - 1 ELSE 0) \in 0 .. AliveMaxAge
      BY DEF AliveMaxAge
    <3>2. lease \in [Watched -> 0 .. AliveMaxAge]
      BY DEF TypeOK
    <3>3. lease' = [e \in Watched |-> IF lease[e] > 0 THEN lease[e] - 1 ELSE 0]
      BY <1>13 DEF Tick
    <3> QED
      BY <3>1, <3>2, <3>3
  <2> QED
    BY <1>13, <2>1, <2>2 DEF TypeOK, Tick, listenerVars
<1>14. CASE UNCHANGED vars
  BY <1>14 DEF TypeOK, vars, serverVars, listenerVars, entryVars
<1> QED
  BY <1>1, <1>2, <1>3, <1>4, <1>5, <1>6, <1>7, <1>8, <1>9, <1>11, <1>12, <1>13, <1>14
  DEF Next, Announcer, Listener

\* TypeOK: every counter stays within its bound and the listener's test within the five.
THEOREM DiscoveryTypes == Spec => []TypeOK
BY TypeInit, TypeNext, PTL DEF Spec
-----------------------------------------------------------------------------
(* USNs                                                                     *)

\* Announcements and answers have the USN of a target that is announced.
LEMMA AnnouncedUsn ==
  /\ \A i \in 1 .. 5 : NotifyUsn(AliveTargets[i]) \in AnnouncedUsns
  /\ \A t \in Target : DiscoverUsn(t) \in AnnouncedUsns
<1>1. DOMAIN AliveTargets = 1 .. 5
  BY DEF AliveTargets
<1>2. \A t \in Target : DiscoverUsn(t) = NotifyUsn(t)
  BY DEF DiscoverUsn, NotifyUsn
<1>3. \A t \in Target : \E i \in 1 .. 5 : AliveTargets[i] = t
  BY DEF AliveTargets, Target, Udn
<1> QED
  BY <1>1, <1>2, <1>3 DEF AnnouncedUsns

LEMMA UsnsInit == Init => OnlyAnnouncedUsns
BY DEF Init, OnlyAnnouncedUsns

LEMMA UsnsNext == TypeOK /\ OnlyAnnouncedUsns /\ [Next]_vars => OnlyAnnouncedUsns'
<1> SUFFICES ASSUME TypeOK, OnlyAnnouncedUsns, [Next]_vars,
                    NEW e \in Watched, heard'[e] \/ lease'[e] > 0
             PROVE  e[2] \in AnnouncedUsns
  BY DEF OnlyAnnouncedUsns
<1>1. ASSUME heard'[e] => heard[e], lease'[e] > 0 => lease[e] > 0
      PROVE  e[2] \in AnnouncedUsns
  BY <1>1 DEF OnlyAnnouncedUsns
<1>2. CASE Start
  BY <1>1, <1>2 DEF Start
<1>3. CASE SendMessage
  <2>1. nextTarget \in 1 .. 5
    BY <1>3, LenOfTargets DEF SendMessage, Announcing, TypeOK
  <2>2. CASE e[2] = NotifyUsn(AliveTargets[nextTarget])
    BY <2>1, <2>2, AnnouncedUsn
  <2>3. CASE e[2] # NotifyUsn(AliveTargets[nextTarget])
    BY <1>1, <1>3, <2>3, SendMessageEffect DEF Untouched
  <2> QED
    BY <2>2, <2>3
<1>4. CASE SendDiscover
  <2> DEFINE st == Tests[answering.test].target
  <2>1. st \in Target
    <3>1. answering \in Searching
      BY <1>4 DEF SendDiscover, TypeOK
    <3> QED
      BY <3>1, LenOfTests, TargetsAnswered DEF Searching
  <2>2. PICK E \in SUBSET ({<<answering.cp, DiscoverUsn(st)>>} \intersect Watched) : Refresh(E, ReplyMaxAge)
    BY <1>4 DEF SendDiscover
  <2>3. CASE e \in E
    BY <2>1, <2>2, <2>3, AnnouncedUsn
  <2>4. CASE e \notin E
    BY <1>1, <2>2, <2>4 DEF Refresh
  <2> QED
    BY <2>3, <2>4
<1>5. CASE Tick
  <2>1. heard' = heard /\ lease'[e] = (IF lease[e] > 0 THEN lease[e] - 1 ELSE 0)
    BY <1>5 DEF Tick
  <2>2. lease'[e] > 0 => lease[e] > 0
    BY <2>1
  <2> QED
    BY <1>1, <2>1, <2>2
<1>6. CASE UNCHANGED entryVars
  BY <1>1, <1>6 DEF entryVars
<1>7. SendFails \/ Listen \/ Wake \/ Sleep \/ Stop \/ Receive \/ SkipTest \/ UNCHANGED vars
        => UNCHANGED entryVars
  BY DEF SendFails, Listen, Wake, Sleep, Stop, Receive, SkipTest, vars
<1>8. (\E cp \in ControlPoints, st \in SearchTargets : Search(cp, st)) => UNCHANGED entryVars
  BY DEF Search
<1> QED
  BY <1>2, <1>3, <1>4, <1>5, <1>6, <1>7, <1>8 DEF Next, Announcer, Listener

\* OnlyAnnouncedUsns: an entry's USN is always one that announcements refresh, so
\* an answer never makes a control point list a device that is not there.
THEOREM UsnsCorrect == Spec => []OnlyAnnouncedUsns
<1>1. OnlyAnnouncedUsns /\ TypeOK /\ [Next]_vars => OnlyAnnouncedUsns'
  BY UsnsNext
<1> QED
  BY <1>1, UsnsInit, DiscoveryTypes, PTL DEF Spec
-----------------------------------------------------------------------------
(* The pace of the announcements                                            *)

\* The announced targets have different USNs.
LEMMA UsnsDiffer ==
  \A i, j \in 1 .. 5 : NotifyUsn(AliveTargets[i]) = NotifyUsn(AliveTargets[j]) => i = j
<1>1. \A i, j \in 1 .. 5 : AliveTargets[i] = AliveTargets[j] => i = j
  BY DEF AliveTargets, Udn
<1>2. \A s, t : NotifyUsn(s) = NotifyUsn(t) => s = t
  BY DEF NotifyUsn
<1> QED
  BY <1>1, <1>2

\* What LeaseCovers says of one entry.
Covered(e) == lease[e] > Wait(e) + (MaxLosses - missed[e]) * Period

\* Nothing waits longer than a period for its next announcement.
LEMMA WaitIsBounded == TypeOK => \A e \in Watched : Wait(e) \in 0 .. Period
BY DiscoveryAssumption DEF TypeOK, Wait, Period

LEMMA WaitIsBoundedNext == TypeOK' => \A e \in Watched : Wait(e)' \in 0 .. Period
<1>1. TypeOK' => (\A e \in Watched : Wait(e) \in 0 .. Period)'
  BY WaitIsBounded, PTL
<1> QED
  BY <1>1 DEF Period

\* An entry that was just refreshed is covered.
LEMMA RefreshedIsCovered ==
  ASSUME TypeOK', NEW e \in Watched, lease'[e] >= ShortestMaxAge
  PROVE  Covered(e)'
<1>1. Wait(e)' \in 0 .. Period
  BY WaitIsBoundedNext
<1>2. missed'[e] \in 0 .. MaxLosses /\ lease'[e] \in Nat
  <2>1. missed' \in [Watched -> 0 .. MaxLosses] /\ lease' \in [Watched -> 0 .. AliveMaxAge]
    BY DEF TypeOK, AliveMaxAge
  <2> QED
    BY <2>1 DEF AliveMaxAge
<1> DEFINE left == (MaxLosses - missed'[e]) * Period
<1>3. left \in Nat /\ left + Period < ShortestMaxAge /\ Period \in Nat
  BY <1>2, LossBudget
<1>4. ShortestMaxAge \in Nat
  BY DEF ShortestMaxAge, ReplyMaxAge, AliveMaxAge
<1>5. Covered(e)' <=> lease'[e] > Wait(e)' + left
  BY DEF Covered, Period
<1> HIDE DEF left
<1> QED
  BY <1>1, <1>2, <1>3, <1>4, <1>5

\* A step after which an entry waits no longer, has lost no more and lives as long.
LEMMA StaysCovered ==
  ASSUME TypeOK, TypeOK', NEW e \in Watched, Covered(e),
         lease'[e] = lease[e], missed'[e] = missed[e], Wait(e)' <= Wait(e)
  PROVE  Covered(e)'
<1>1. Wait(e) \in Int /\ Wait(e)' \in Int /\ lease[e] \in Int
  <2>1. Period \in Nat
    BY DiscoveryAssumption DEF Period
  <2>2. lease[e] \in Int
    BY DEF TypeOK
  <2> QED
    BY <2>1, <2>2, WaitIsBounded, WaitIsBoundedNext
<1> DEFINE left == (MaxLosses - missed[e]) * Period
<1>2. left \in Nat
  <2>1. missed[e] \in 0 .. MaxLosses
    BY DEF TypeOK
  <2> QED
    BY <2>1, LossBudget
<1>3. Covered(e) <=> lease[e] > Wait(e) + left
  BY DEF Covered
<1>4. Covered(e)' <=> lease'[e] > Wait(e)' + left
  BY DEF Covered, Period
<1> HIDE DEF left
<1> QED
  BY <1>1, <1>2, <1>3, <1>4

\* An entry one of whose announcements is lost is covered by what is left.
LEMMA LostIsCovered ==
  ASSUME TypeOK, TypeOK', NEW e \in Watched, Covered(e), Lost(e)
  PROVE  Covered(e)'
<1>1. Wait(e) \in 0 .. Period /\ Wait(e)' \in 0 .. Period
  BY WaitIsBounded, WaitIsBoundedNext
<1>2. missed[e] \in 0 .. MaxLosses /\ lease[e] \in Int
  BY DEF TypeOK
<1> DEFINE left == (MaxLosses - missed[e]) * Period
           rest == (MaxLosses - (missed[e] + 1)) * Period
<1>3. missed[e] < MaxLosses /\ missed'[e] = missed[e] + 1 /\ lease'[e] = lease[e]
  BY DEF Lost
<1>4. left = rest + Period /\ Period \in Nat /\ left \in Nat
  BY <1>2, <1>3, LossBudget
<1>5. rest \in Nat
  <2>1. missed[e] + 1 \in 0 .. MaxLosses
    BY <1>2, <1>3, DiscoveryAssumption
  <2> QED
    BY <2>1, LossBudget
<1>6. Covered(e) <=> lease[e] > Wait(e) + left
  BY DEF Covered
<1>7. Covered(e)' <=> lease'[e] > Wait(e)' + rest
  BY <1>3 DEF Covered, Period
<1> HIDE DEF left, rest
<1> QED
  BY <1>1, <1>2, <1>3, <1>4, <1>5, <1>6, <1>7

LEMMA CoversNext ==
  ASSUME TypeOK, TypeOK', OnlyAnnouncedUsns, SearchesNeedAPort, LeaseCovers, [Next]_vars
  PROVE  LeaseCovers'
<1> SUFFICES ASSUME Up', ~SocketsExhausted', NEW e \in Watched, heard'[e]
             PROVE  Covered(e)'
  BY DEF LeaseCovers, Covered, Period
<1>1. Up /\ ~SocketsExhausted /\ heard[e] => Covered(e)
  BY DEF LeaseCovers, Covered
<1>2. Wait(e) \in 0 .. Period /\ Wait(e)' \in 0 .. Period
  BY WaitIsBounded, WaitIsBoundedNext
<1>3. sockets \in Nat /\ nextTarget \in 1 .. 6 /\ timer \in Int /\ Late \in Nat /\ SocketLimit \in Nat
  BY DiscoveryAssumption, LenOfTargets DEF TypeOK
<1>4. ASSUME UNCHANGED serverVars PROVE Wait(e)' = Wait(e) /\ Up /\ ~SocketsExhausted
  BY <1>4 DEF serverVars, Wait, Period, Up, SocketsExhausted
<1>5. ASSUME UNCHANGED serverVars, UNCHANGED entryVars PROVE Covered(e)'
  <2>1. Wait(e)' = Wait(e) /\ Up /\ ~SocketsExhausted
    BY <1>4, <1>5
  <2>2. heard[e] /\ lease'[e] = lease[e] /\ missed'[e] = missed[e]
    BY <1>5 DEF entryVars
  <2> QED
    BY <1>1, <1>2, <2>1, <2>2, StaysCovered
<1>6. CASE Start
  BY <1>6 DEF Start
<1>7. CASE SendMessage
  <2>1. Up /\ ~SocketsExhausted /\ nextTarget \in 1 .. 5 /\ phase # "sleeping" /\ phase' = phase
        /\ nextTarget' = nextTarget + 1
    BY <1>3, <1>7, LenOfTargets DEF SendMessage, Announcing, Up
  <2>2. CASE Refreshed(e)
    BY <2>2, RefreshedIsCovered DEF Refreshed, ShortestMaxAge, ReplyMaxAge, AliveMaxAge
  <2>3. CASE Lost(e)
    BY <1>1, <2>1, <2>3, LostIsCovered DEF Lost
  <2>4. CASE e[2] # NotifyUsn(AliveTargets[nextTarget])
    <3>1. Untouched(e)
      BY <1>7, <2>4, SendMessageEffect
    <3>2. \A i \in nextTarget .. 5 : NotifyUsn(AliveTargets[i]) = e[2] => i \in nextTarget' .. 5
      BY <2>1, <2>4
    <3>3. Wait(e)' <= Wait(e)
      <4>1. CASE \E i \in nextTarget .. 5 : NotifyUsn(AliveTargets[i]) = e[2]
        <5>1. \E i \in nextTarget' .. 5 : NotifyUsn(AliveTargets[i]) = e[2]
          BY <3>2, <4>1
        <5>2. Wait(e)' = 0
          BY <2>1, <5>1, LenOfTargets DEF Wait
        <5> QED
          BY <1>2, <5>2
      <4>2. CASE ~\E i \in nextTarget .. 5 : NotifyUsn(AliveTargets[i]) = e[2]
        <5>1. Wait(e) = Period
          BY <2>1, <4>2, LenOfTargets DEF Wait
        <5> QED
          BY <1>2, <5>1, DiscoveryAssumption DEF Period
      <4> QED
        BY <4>1, <4>2
    <3> QED
      BY <1>1, <2>1, <3>1, <3>3, StaysCovered DEF Untouched
  <2> QED
    BY <1>7, <2>2, <2>3, <2>4, SendMessageEffect
<1>8. CASE SendFails
  BY <1>8 DEF SendFails, SocketsExhausted
<1>9. ASSUME Listen \/ Sleep PROVE Covered(e)'
  <2>1. Up /\ ~SocketsExhausted /\ phase # "sleeping" /\ nextTarget = 6
    BY <1>3, <1>9, LenOfTargets DEF Listen, Sleep, Announcing, Up, SocketsExhausted
  <2>2. Wait(e) = Period
    BY <2>1, LenOfTargets DEF Wait
  <2>3. heard[e] /\ lease'[e] = lease[e] /\ missed'[e] = missed[e]
    BY <1>9 DEF Listen, Sleep, entryVars
  <2>4. Wait(e)' <= Wait(e)
    BY <1>2, <2>2, DiscoveryAssumption DEF Period
  <2> QED
    BY <1>1, <2>1, <2>3, <2>4, StaysCovered
<1>10. CASE Wake
  <2>1. Up /\ ~SocketsExhausted
    BY <1>3, <1>10 DEF Wake, BeginSendAlive, SocketsExhausted, Up
  <2>2. heard[e] /\ lease'[e] = lease[e] /\ missed'[e] = missed[e]
    BY <1>10 DEF Wake, entryVars
  <2>3. phase' # "sleeping" /\ nextTarget' = 1
    BY <1>10 DEF Wake, BeginSendAlive
  <2>4. \E i \in 1 .. 5 : NotifyUsn(AliveTargets[i]) = e[2]
    <3>1. DOMAIN AliveTargets = 1 .. 5
      BY DEF AliveTargets
    <3> QED
      BY <2>2, <3>1 DEF OnlyAnnouncedUsns, AnnouncedUsns
  <2>5. Wait(e)' = 0
    BY <2>3, <2>4, LenOfTargets DEF Wait
  <2> QED
    BY <1>1, <1>2, <2>1, <2>2, <2>5, StaysCovered
<1>11. CASE Stop
  BY <1>11 DEF Stop, Up
<1>12. CASE \E cp \in ControlPoints, st \in SearchTargets : Search(cp, st)
  BY <1>5, <1>12 DEF Search
<1>13. CASE Receive \/ SkipTest
  BY <1>5, <1>13 DEF Receive, SkipTest
<1>14. CASE SendDiscover
  <2>1. ListenerReceives
    BY <1>14 DEF SendDiscover, SearchesNeedAPort
  <2>2. PICK E : Refresh(E, ReplyMaxAge)
    BY <1>14 DEF SendDiscover
  <2>3. CASE e \in E
    <3>1. lease'[e] = ShortestMaxAge
      BY <2>1, <2>2, <2>3 DEF Refresh, ShortestMaxAge
    <3> QED
      BY <3>1, RefreshedIsCovered DEF ShortestMaxAge, ReplyMaxAge, AliveMaxAge
  <2>4. CASE e \notin E
    <3>1. lease'[e] = lease[e] /\ missed'[e] = missed[e] /\ heard[e]
      BY <1>14, <2>2, <2>4 DEF Refresh, SendDiscover
    <3>2. Wait(e)' = Wait(e) /\ Up /\ ~SocketsExhausted
      BY <1>4, <1>14 DEF SendDiscover
    <3> QED
      BY <1>1, <1>2, <3>1, <3>2, StaysCovered
  <2> QED
    BY <2>3, <2>4
<1>15. CASE Tick
  <2>1. phase = "sleeping" /\ timer > 0 - Late /\ phase' = phase /\ timer' = timer - 1
        /\ Up /\ ~SocketsExhausted
    BY <1>15 DEF Tick, Up, SocketsExhausted
  <2>2. heard[e] /\ missed'[e] = missed[e]
        /\ lease'[e] = (IF lease[e] > 0 THEN lease[e] - 1 ELSE 0)
    BY <1>15 DEF Tick
  <2>3. Wait(e) = timer + Late /\ Wait(e)' = timer - 1 + Late
    BY <2>1 DEF Wait
  <2> DEFINE left == (MaxLosses - missed[e]) * Period
  <2>4. left \in Nat /\ lease[e] \in Int
    <3>1. missed[e] \in 0 .. MaxLosses /\ lease[e] \in Int
      BY DEF TypeOK
    <3> QED
      BY <3>1, LossBudget
  <2>5. lease[e] > Wait(e) + left
    BY <1>1, <2>1, <2>2 DEF Covered
  <2>6. Covered(e)' <=> lease'[e] > Wait(e)' + left
    BY <2>2 DEF Covered, Period
  <2> HIDE DEF left
  <2> QED
    BY <1>3, <2>1, <2>2, <2>3, <2>4, <2>5, <2>6
<1>16. CASE UNCHANGED vars
  BY <1>5, <1>16 DEF vars
<1> QED
  BY <1>6, <1>7, <1>8, <1>9, <1>10, <1>11, <1>12, <1>13, <1>14, <1>15, <1>16
  DEF Next, Announcer, Listener

LEMMA PortNext == SearchesNeedAPort /\ [Next]_vars => SearchesNeedAPort'
<1> SUFFICES ASSUME SearchesNeedAPort, [Next]_vars, ~ListenerReceives
             PROVE  inbox' = <<>> /\ answering' = Idle
  BY DEF SearchesNeedAPort, Idle
<1>1. inbox = <<>> /\ answering = Idle
  BY DEF SearchesNeedAPort
<1> QED
  BY <1>1 DEF Next, Announcer, Listener, Start, SendMessage, SendFails, Listen, Wake, Sleep, Stop,
     Search, Receive, SendDiscover, SkipTest, Tick, vars, listenerVars

(***************************************************************************)
(* The inductive invariant: each entry outlives the wait for its next       *)
(* announcement and all the announcements that may still be lost.           *)
(***************************************************************************)
THEOREM LeasesCover == Spec => []IInv
<1>1. Init => IInv
  <2>1. Init => SearchesNeedAPort /\ LeaseCovers
    BY DEF Init, SearchesNeedAPort, LeaseCovers, Up
  <2> QED
    BY <2>1, TypeInit, UsnsInit DEF IInv
<1>2. IInv /\ [Next]_vars => IInv'
  BY TypeNext, UsnsNext, CoversNext, PortNext DEF IInv
<1> QED
  BY <1>1, <1>2, PTL DEF Spec

(***************************************************************************)
(* KnownEntriesStayKnown: for any number of control points, no entry the    *)
(* running server has refreshed expires before its descriptors run out, if  *)
(* losses in a row and late sleeps are within LossAssumption.               *)
(***************************************************************************)
THEOREM PaceIsEnough == Spec => []KnownEntriesStayKnown
<1>1. IInv => KnownEntriesStayKnown
  <2> SUFFICES ASSUME IInv, Up, ~SocketsExhausted, NEW e \in Watched, heard[e]
               PROVE  lease[e] > 0
    BY DEF KnownEntriesStayKnown
  <2>1. lease[e] > Wait(e) + (MaxLosses - missed[e]) * Period
    BY DEF IInv, LeaseCovers
  <2>2. Wait(e) \in 0 .. Period /\ missed[e] \in 0 .. MaxLosses /\ lease[e] \in Int
    BY WaitIsBounded DEF IInv, TypeOK
  <2>3. (MaxLosses - missed[e]) * Period \in Nat /\ Period \in Nat
    BY <2>2, LossBudget
  <2> QED
    BY <2>1, <2>2, <2>3
<1> QED
  BY <1>1, LeasesCover, PTL
=============================================================================
