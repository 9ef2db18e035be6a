-------------------------- MODULE CodexBrokerProofs --------------------------
(***************************************************************************)
(* The broker keeps its promise about the credential, a report of a closed *)
(* broker stays true, its counters match its requests and a clean round    *)
(* trip is one, for any number of requests and callers.                    *)
(*                                                                         *)
(* The invariant behind both follows the two ends of the broker: who holds *)
(* the credential (Lending), and how far Close has come (Closing).  A      *)
(* drained broker is quiet because no request is admitted once closed is   *)
(* set, so that an empty WaitGroup stays empty (Drained).                  *)
(***************************************************************************)
EXTENDS CodexBroker, FiniteSetTheorems, TLAPS

\* The counter of requests in flight is 1 exactly while one request holds the
\* credential, and that request can use it.
Lending ==
  /\ stats.inFlight \in {0, 1}
  /\ stats.inFlight = 0 => Holding = {}
  /\ stats.inFlight = 1 => \E r \in Requests : Holding = {r}
  /\ KeyedForwards

\* The wait groups count the handlers and the forwards.
Counted ==
  /\ handlerWG = {r \in Requests : pc[r] \in Serving}
  /\ forwardWG = {r \in Requests : pc[r] \in Forwarding \union {"release"}}

\* How far the one execution of the body of Close has come.
Closing ==
  /\ closed <=> once # "unused"
  /\ ~closed => token = Token /\ apiKey = "key"
  /\ drain # "none" <=> once = "used"
  /\ stats.closedAt <=> drain = "done"
  /\ \A c \in Closers : closer[c] = "shutting" => once = "running"
  /\ \A c, d \in Closers : closer[c] = "shutting" /\ closer[d] = "shutting" => c = d

\* Once the handlers were waited for there are none.
Drained == drain \in {"forwards", "stamp", "done"} => handlerWG = {}

\* A report of a closed broker was made when it was drained.
Reported ==
  /\ \A c \in Closers : closer[c] = "ok" => drain = "done"
  /\ \A c \in Callers : report[c].status = "closed" => drain = "done"
  /\ ReportIsFinal

IInv == TypeOK /\ Lending /\ Counted /\ Closing /\ Drained /\ Reported

LEMMA InitIInv == Init => IInv
<1> SUFFICES ASSUME Init PROVE IInv
  OBVIOUS
<1> USE BrokerAssumption DEF Init
<1>1. TypeOK
  BY DEF TypeOK, Stats, NewStats, NoReport, Serving, Validating, Forwarding, Closers
<1>2. Lending
  BY DEF Lending, Holding, NewStats, Forwarding, KeyedForwards
<1>3. Counted /\ Drained
  BY DEF Counted, Drained, Serving, Validating, Forwarding
<1>4. Closing
  BY DEF Closing, NewStats, Closers
<1>5. Reported
  BY DEF Reported, ReportIsFinal, NoReport, Closers
<1>6. QED
  BY <1>1, <1>2, <1>3, <1>4, <1>5 DEF IInv

\* The counters after beginForward, and after finishForward.
Lent(s) == [s EXCEPT !.forwarded = @ + 1, !.inFlight = @ + 1]
Returned(s) == [s EXCEPT !.inFlight = IF @ > 0 THEN @ - 1 ELSE @, !.completed = TRUE]

LEMMA LentStats ==
  ASSUME NEW s \in Stats, NEW t, t = Lent(s)
  PROVE  /\ t \in Stats
         /\ t.forwarded = s.forwarded + 1 /\ t.inFlight = s.inFlight + 1
         /\ t.received = s.received /\ t.rejected = s.rejected
         /\ t.failures = s.failures /\ t.closedAt = s.closedAt
         /\ t.lastStatus = s.lastStatus
<1> DEFINE u == [s EXCEPT !.forwarded = s.forwarded + 1]
<1>1. /\ u \in Stats /\ u.forwarded = s.forwarded + 1
      /\ u.inFlight = s.inFlight /\ u.received = s.received
      /\ u.rejected = s.rejected /\ u.failures = s.failures /\ u.closedAt = s.closedAt
      /\ u.lastStatus = s.lastStatus
  BY DEF Stats
<1>2. t = [u EXCEPT !.inFlight = u.inFlight + 1]
  BY DEF Lent
<1> HIDE DEF u
<1>3. QED
  BY <1>1, <1>2 DEF Stats

LEMMA ReturnedStats ==
  ASSUME NEW s \in Stats, NEW t, t = Returned(s)
  PROVE  /\ t \in Stats
         /\ t.inFlight = IF s.inFlight > 0 THEN s.inFlight - 1 ELSE s.inFlight
         /\ t.received = s.received /\ t.rejected = s.rejected
         /\ t.failures = s.failures /\ t.closedAt = s.closedAt
         /\ t.forwarded = s.forwarded /\ t.lastStatus = s.lastStatus
<1> DEFINE n == IF s.inFlight > 0 THEN s.inFlight - 1 ELSE s.inFlight
           u == [s EXCEPT !.inFlight = n]
<1>1. n \in Nat
  BY DEF Stats
<1>2. u \in Stats
  BY <1>1 DEF Stats
<1>3. t = [u EXCEPT !.completed = TRUE]
  BY DEF Returned
<1>4. t \in Stats /\ t.inFlight = u.inFlight
  BY <1>2, <1>3 DEF Stats
<1>5. QED
  BY <1>1, <1>3, <1>4 DEF Stats

\* The two critical sections in those terms.
LEMMA BeginStats ==
  ASSUME NEW r \in Requests, MayForward, BeginForward(r)
  PROVE  stats' = Lent(stats)
BY DEF BeginForward, Lent, Reject, MayForward, Step

LEMMA FinishStats ==
  ASSUME NEW r \in Requests, FinishForward(r)
  PROVE  stats' = Returned(stats)
BY DEF FinishForward, Returned

\* A step of one handler that neither takes nor gives back the credential.
LEMMA HoldingKept ==
  ASSUME TypeOK, NEW r \in Requests, NEW from, NEW to, Step(r, from, to),
         from \in Forwarding <=> to \in Forwarding
  PROVE  Holding' = Holding
BY DEF TypeOK, Step, Holding

LEMMA HandlerKeepsTypes ==
  ASSUME TypeOK, NEW r \in Requests, Serve(r)
  PROVE  TypeOK'
<1> USE DEF TypeOK, guarded, requests, groups, closing
<1>1. ASSUME NEW from, NEW to \in Serving, Pass(r, from, to) PROVE TypeOK'
  BY <1>1 DEF Pass, Step
<1>2. ASSUME NEW from, Reject(r, from) PROVE TypeOK'
  <2>1. stats' \in Stats
    BY <1>2 DEF Reject, Stats
  <2>2. QED
    BY <1>2, <2>1 DEF Reject, Step, Serving
<1> USE DEF Serving, Validating, Forwarding
<1>3. CASE Admit(r)
  BY <1>3 DEF Admit, Step, Stats
<1>4. CASE TurnAway(r)
  BY <1>4 DEF TurnAway, Step
<1>5. CASE CheckTarget(r) \/ Authorize(r) \/ ReadBody(r) \/ Send(r)
  BY <1>1, <1>2, <1>5 DEF CheckTarget, Authorize, ReadBody, Send
<1>6. CASE BeginForward(r)
  <2>1. CASE MayForward
    <3>1. stats' \in Stats
      BY <1>6, <2>1, BeginStats, LentStats
    <3>2. QED
      BY <1>6, <2>1, <3>1 DEF BeginForward, Step
  <2>2. CASE ~MayForward
    BY <1>2, <1>6, <2>2 DEF BeginForward
  <2>3. QED
    BY <2>1, <2>2
<1>7. CASE Respond(r)
  <2>1. CASE Pass(r, "upstream", "failing")
    BY <1>1, <2>1
  <2>2. CASE ~Pass(r, "upstream", "failing")
    BY <1>7, <2>2 DEF Respond, Step, Stats
  <2>3. QED
    BY <2>1, <2>2
<1>8. CASE UpstreamFailure(r)
  <2>1. stats' \in Stats
    BY <1>8 DEF UpstreamFailure, Stats
  <2>2. QED
    BY <1>8, <2>1 DEF UpstreamFailure, Step
<1>9. CASE Relay(r)
  <2>1. CASE Pass(r, "relay", "failing")
    BY <1>1, <2>1
  <2>2. CASE ~Pass(r, "relay", "failing")
    BY <1>9, <2>2 DEF Relay, Step
  <2>3. QED
    BY <2>1, <2>2
<1>10. CASE FinishForward(r)
  <2>1. stats' \in Stats
    BY <1>10, FinishStats, ReturnedStats
  <2>2. QED
    BY <1>10, <2>1 DEF FinishForward, Step
<1>11. CASE Release(r) \/ Leave(r) \/ CancelRequest(r)
  BY <1>11 DEF Release, Leave, CancelRequest, Step
<1>12. QED
  BY <1>3, <1>4, <1>5, <1>6, <1>7, <1>8, <1>9, <1>10, <1>11 DEF Serve

LEMMA ShutdownKeepsTypes ==
  ASSUME TypeOK, Shutdown
  PROVE  TypeOK'
<1> USE BrokerAssumption DEF TypeOK, guarded, requests, groups, closing
<1>1. CASE EndLifetime \/ WaitForHandlers \/ WaitForForwards
  <2>1. CASE EndLifetime
    BY <2>1 DEF EndLifetime
  <2>2. CASE WaitForHandlers
    BY <2>2 DEF WaitForHandlers
  <2>3. CASE WaitForForwards
    BY <2>3 DEF WaitForForwards
  <2>4. QED
    BY <1>1, <2>1, <2>2, <2>3
<1>2. CASE Stamp
  <2>1. stats' \in Stats
    BY <1>2 DEF Stamp, Stats
  <2>2. QED
    BY <1>2, <2>1 DEF Stamp
<1>3. ASSUME NEW c \in Closers,
             BeginClose(c) \/ ShutServer(c) \/ JoinClose(c) \/ ReturnFromClose(c)
      PROVE  TypeOK'
  <2>1. CASE BeginClose(c)
    BY <2>1 DEF BeginClose
  <2>2. CASE ShutServer(c)
    BY <2>2 DEF ShutServer
  <2>3. CASE JoinClose(c)
    BY <2>3 DEF JoinClose
  <2>4. CASE ReturnFromClose(c)
    <3>1. PICK result \in {"ok", "error", "deadline"} :
            closer' = [closer EXCEPT ![c] = result]
      BY <2>4 DEF ReturnFromClose
    <3>2. QED
      BY <2>4, <3>1 DEF ReturnFromClose
  <2>5. QED
    BY <1>3, <2>1, <2>2, <2>3, <2>4
<1>4. ASSUME NEW c \in Callers, Snapshot(c) PROVE TypeOK'
  BY <1>4 DEF Snapshot
<1>5. QED
  BY <1>1, <1>2, <1>3, <1>4 DEF Shutdown

\* The credential is lent by BeginForward, and given back by FinishForward.
LEMMA LendingKept ==
  ASSUME TypeOK, Lending, Closing, NEW r \in Requests, Serve(r)
  PROVE  Lending'
<1> USE DEF Lending, KeyedForwards
<1>1. ASSUME NEW from, NEW to, Step(r, from, to), from \in Forwarding <=> to \in Forwarding,
             stats'.inFlight = stats.inFlight, key' = key
      PROVE  Lending'
  <2>1. Holding' = Holding
    BY <1>1, HoldingKept
  <2>2. QED
    BY <1>1, <2>1
<1>2. ASSUME NEW from, NEW to, Pass(r, from, to), from \in Forwarding <=> to \in Forwarding
      PROVE  Lending'
  BY <1>1, <1>2 DEF Pass
<1>3. ASSUME NEW from \in Validating, Reject(r, from) PROVE Lending'
  <2>1. stats'.inFlight = stats.inFlight /\ key' = key
    BY <1>3 DEF Reject, TypeOK, Stats
  <2>2. QED
    BY <1>1, <1>3, <2>1 DEF Reject, Validating, Forwarding
<1>4. CASE Admit(r) \/ TurnAway(r) \/ UpstreamFailure(r) \/ Release(r) \/ Leave(r)
  <2>1. stats'.inFlight = stats.inFlight /\ key' = key
    BY <1>4 DEF Admit, TurnAway, UpstreamFailure, Release, Leave, TypeOK, Stats
  <2>2. QED
    BY <1>1, <1>4, <2>1 DEF Admit, TurnAway, UpstreamFailure, Release, Leave, Forwarding
<1>5. CASE CheckTarget(r) \/ Authorize(r) \/ ReadBody(r) \/ Send(r)
  BY <1>2, <1>3, <1>5
     DEF CheckTarget, Authorize, ReadBody, Send, Validating, Forwarding
<1>6. CASE BeginForward(r)
  <2>1. CASE MayForward
    <3>1. /\ pc' = [pc EXCEPT ![r] = "forward"]
          /\ key' = [key EXCEPT ![r] = "key"]
      BY <1>6, <2>1 DEF BeginForward, Reject, Step, MayForward, Closing, guarded
    <3>2. stats.inFlight = 0 /\ stats'.inFlight = 1
      <4>1. stats' = Lent(stats)
        BY <1>6, <2>1, BeginStats
      <4>2. stats \in Stats /\ stats.inFlight = 0
        BY <2>1 DEF MayForward, TypeOK
      <4>3. stats'.inFlight = stats.inFlight + 1
        BY <4>1, <4>2, LentStats
      <4>4. QED
        BY <4>2, <4>3
    <3>3. Holding = {}
      BY <3>2
    <3>4. Holding' = {r}
      BY <3>1, <3>3 DEF Holding, Forwarding, TypeOK
    <3>5. QED
      BY <3>1, <3>2, <3>4 DEF TypeOK
  <2>2. CASE ~MayForward
    BY <1>3, <1>6, <2>2 DEF BeginForward, Validating
  <2>3. QED
    BY <2>1, <2>2
<1>7. CASE Respond(r) \/ Relay(r)
  <2>1. stats'.inFlight = stats.inFlight /\ key' = key
    BY <1>7 DEF Respond, Relay, Pass, TypeOK, Stats, requests
  <2>2. QED
    BY <1>1, <1>7, <2>1 DEF Respond, Relay, Pass, Forwarding
<1>8. CASE FinishForward(r)
  <2>1. r \in Holding
    BY <1>8 DEF FinishForward, Step, Holding, Forwarding
  <2>2. stats.inFlight = 1 /\ Holding = {r}
    BY <2>1
  <2>3. stats'.inFlight = 0
    BY <1>8, <2>2 DEF FinishForward, TypeOK, Stats
  <2>4. Holding' = {}
    BY <1>8, <2>2 DEF FinishForward, Step, Holding, Forwarding, TypeOK
  <2>5. QED
    BY <2>3, <2>4
<1>9. CASE CancelRequest(r)
  <2>1. Holding' = Holding
    BY <1>9 DEF CancelRequest, Holding
  <2>2. QED
    BY <1>9, <2>1 DEF CancelRequest
<1>10. QED
  BY <1>4, <1>5, <1>6, <1>7, <1>8, <1>9 DEF Serve

\* Each handler is in the wait groups between its admission and its end.
LEMMA CountedKept ==
  ASSUME TypeOK, Counted, NEW r \in Requests, Serve(r)
  PROVE  Counted'
<1> USE DEF TypeOK, Counted, Serving, Validating, Forwarding, Step, groups
<1>1. ASSUME NEW from, NEW to, Pass(r, from, to),
             from \in Serving <=> to \in Serving,
             from \in Forwarding \union {"release"} <=> to \in Forwarding \union {"release"}
      PROVE  Counted'
  BY <1>1 DEF Pass
<1>2. ASSUME NEW from \in Validating, Reject(r, from) PROVE Counted'
  BY <1>2 DEF Reject
<1>3. CASE Admit(r)
  BY <1>3 DEF Admit
<1>4. CASE TurnAway(r)
  BY <1>4 DEF TurnAway
<1>5. CASE CheckTarget(r) \/ Authorize(r) \/ ReadBody(r) \/ Send(r)
  BY <1>1, <1>2, <1>5 DEF CheckTarget, Authorize, ReadBody, Send
<1>6. CASE BeginForward(r)
  BY <1>2, <1>6 DEF BeginForward
<1>7. CASE Respond(r) \/ Relay(r)
  BY <1>1, <1>7 DEF Respond, Relay
<1>8. CASE UpstreamFailure(r) \/ FinishForward(r)
  BY <1>8 DEF UpstreamFailure, FinishForward
<1>9. CASE Release(r)
  BY <1>9 DEF Release
<1>10. CASE Leave(r)
  BY <1>10 DEF Leave
<1>11. CASE CancelRequest(r)
  BY <1>11 DEF CancelRequest
<1>12. QED
  BY <1>3, <1>4, <1>5, <1>6, <1>7, <1>8, <1>9, <1>10, <1>11 DEF Serve

\* What no handler touches.
LEMMA HandlerFrame ==
  ASSUME TypeOK, NEW r \in Requests, Serve(r)
  PROVE  /\ UNCHANGED <<guarded, lifetimeDone, closing>>
         /\ stats'.closedAt = stats.closedAt
<1>1. ASSUME NEW from, NEW to, Pass(r, from, to)
      PROVE  UNCHANGED <<guarded, lifetimeDone, closing>> /\ stats'.closedAt = stats.closedAt
  BY <1>1 DEF Pass
<1>2. ASSUME NEW from, Reject(r, from)
      PROVE  UNCHANGED <<guarded, lifetimeDone, closing>> /\ stats'.closedAt = stats.closedAt
  BY <1>2 DEF Reject, TypeOK, Stats
<1>3. CASE CheckTarget(r) \/ Authorize(r) \/ ReadBody(r) \/ Send(r)
  BY <1>1, <1>2, <1>3 DEF CheckTarget, Authorize, ReadBody, Send
<1>4. CASE BeginForward(r)
  <2>1. CASE MayForward
    <3>1. stats' = Lent(stats) /\ stats \in Stats
      BY <1>4, <2>1, BeginStats DEF TypeOK
    <3>2. stats'.closedAt = stats.closedAt
      BY <3>1, LentStats
    <3>3. QED
      BY <1>4, <2>1, <3>2 DEF BeginForward
  <2>2. CASE ~MayForward
    BY <1>2, <1>4, <2>2 DEF BeginForward
  <2>3. QED
    BY <2>1, <2>2
<1>5. CASE Respond(r)
  <2>1. CASE Pass(r, "upstream", "failing")
    BY <1>1, <2>1
  <2>2. CASE ~Pass(r, "upstream", "failing")
    BY <1>5, <2>2 DEF Respond, TypeOK, Stats
  <2>3. QED
    BY <2>1, <2>2
<1>6. CASE Relay(r)
  BY <1>1, <1>6 DEF Relay
<1>7. CASE FinishForward(r)
  <2>1. stats' = Returned(stats)
    BY <1>7, FinishStats
  <2>2. stats \in Stats
    BY DEF TypeOK
  <2>3. stats'.closedAt = stats.closedAt
    BY <2>1, <2>2, ReturnedStats
  <2>4. QED
    BY <1>7, <2>3 DEF FinishForward
<1>8. CASE Admit(r) \/ TurnAway(r) \/ UpstreamFailure(r)
  BY <1>8 DEF Admit, TurnAway, UpstreamFailure, TypeOK, Stats
<1>9. CASE Release(r) \/ Leave(r) \/ CancelRequest(r)
  BY <1>9 DEF Release, Leave, CancelRequest
<1>10. QED
  BY <1>3, <1>4, <1>5, <1>6, <1>7, <1>8, <1>9 DEF Serve

\* After the handlers were waited for, requests are turned away: they change
\* no counter and enter no wait group.
LEMMA DrainedIsQuiet ==
  ASSUME TypeOK, Counted, Closing, Drained, NEW r \in Requests, Serve(r),
         drain \in {"forwards", "stamp", "done"}
  PROVE  stats' = stats /\ handlerWG' = {}
<1>1. pc[r] \notin Serving
  BY DEF Drained, Counted
<1>2. closed
  BY DEF Closing
<1>3. TurnAway(r)
  BY <1>1, <1>2
     DEF Serve, Admit, CheckTarget, Authorize, ReadBody, BeginForward, Send, Respond,
         UpstreamFailure, Relay, FinishForward, Release, Leave, CancelRequest, Pass, Reject,
         Step, Serving, Validating, Forwarding
<1>4. QED
  BY <1>3 DEF TurnAway, Drained, groups

LEMMA HandlerKeepsIInv ==
  ASSUME IInv, NEW r \in Requests, Serve(r)
  PROVE  IInv'
<1> USE DEF IInv
<1>1. TypeOK'
  BY HandlerKeepsTypes
<1>2. Lending'
  BY LendingKept
<1>3. Counted'
  BY CountedKept
<1>4. /\ UNCHANGED <<guarded, lifetimeDone, closing>>
      /\ stats'.closedAt = stats.closedAt
  BY HandlerFrame
<1>5. Closing'
  BY <1>4 DEF Closing, guarded, closing
<1>6. Drained'
  BY <1>4, DrainedIsQuiet DEF Drained, closing
<1>7. Reported'
  <2>1. drain = "done" => stats' = stats
    BY DrainedIsQuiet
  <2>2. QED
    BY <1>4, <2>1 DEF Reported, ReportIsFinal, closing
<1>8. QED
  BY <1>1, <1>2, <1>3, <1>5, <1>6, <1>7

\* The steps of Close, one by one.
LEMMA ShutdownKeepsClosing ==
  ASSUME IInv, Shutdown
  PROVE  Closing'
<1> USE DEF IInv, Closing, TypeOK
<1>1. CASE EndLifetime \/ WaitForHandlers \/ WaitForForwards
  BY <1>1 DEF EndLifetime, WaitForHandlers, WaitForForwards, guarded, closing
<1>2. CASE Stamp
  <2>1. stats'.closedAt = TRUE
    BY <1>2 DEF Stamp, Stats
  <2>2. QED
    BY <1>2, <2>1 DEF Stamp, guarded
<1>3. ASSUME NEW c \in Closers, BeginClose(c) PROVE Closing'
  BY <1>3 DEF BeginClose, MayClose
<1>4. ASSUME NEW c \in Closers, ShutServer(c) PROVE Closing'
  BY <1>4 DEF ShutServer, guarded
<1>5. ASSUME NEW c \in Closers, JoinClose(c) \/ ReturnFromClose(c) PROVE Closing'
  BY <1>5 DEF JoinClose, ReturnFromClose, guarded
<1>6. ASSUME NEW c \in Callers, Snapshot(c) PROVE Closing'
  BY <1>6 DEF Snapshot, guarded
<1>7. QED
  BY <1>1, <1>2, <1>3, <1>4, <1>5, <1>6 DEF Shutdown

LEMMA ShutdownKeepsReports ==
  ASSUME IInv, Shutdown
  PROVE  Drained' /\ Reported'
<1> USE DEF IInv, Drained, Reported, ReportIsFinal, TypeOK, groups
<1>1. CASE EndLifetime \/ WaitForHandlers \/ WaitForForwards
  BY <1>1 DEF EndLifetime, WaitForHandlers, WaitForForwards, closing
<1>2. CASE Stamp
  BY <1>2 DEF Stamp
<1>3. ASSUME NEW c \in Closers, BeginClose(c) PROVE Drained' /\ Reported'
  BY <1>3 DEF BeginClose, MayClose
<1>4. ASSUME NEW c \in Closers, ShutServer(c) PROVE Drained' /\ Reported'
  <2>1. drain = "none"
    BY <1>4 DEF ShutServer, Closing
  <2>2. QED
    BY <1>4, <2>1 DEF ShutServer
<1>5. ASSUME NEW c \in Closers, JoinClose(c) \/ ReturnFromClose(c) PROVE Drained' /\ Reported'
  BY <1>5 DEF JoinClose, ReturnFromClose
<1>6. ASSUME NEW c \in Callers, Snapshot(c) PROVE Drained' /\ Reported'
  BY <1>6 DEF Snapshot, Closers
<1>7. QED
  BY <1>1, <1>2, <1>3, <1>4, <1>5, <1>6 DEF Shutdown

\* Close touches no handler, and no counter but the time of the closure.
LEMMA ShutdownFrame ==
  ASSUME TypeOK, Shutdown
  PROVE  /\ UNCHANGED <<requests, groups>>
         /\ UNCHANGED <<stats.inFlight, stats.forwarded, stats.received, stats.rejected,
                       stats.failures>>
BY DEF Shutdown, EndLifetime, WaitForHandlers, WaitForForwards, Stamp, BeginClose, ShutServer,
       JoinClose, ReturnFromClose, Snapshot, TypeOK, Stats

LEMMA ShutdownKeepsIInv ==
  ASSUME IInv, Shutdown
  PROVE  IInv'
<1>1. TypeOK' /\ Closing' /\ Drained' /\ Reported'
  BY ShutdownKeepsTypes, ShutdownKeepsClosing, ShutdownKeepsReports DEF IInv
<1>2. UNCHANGED <<requests, groups>> /\ stats'.inFlight = stats.inFlight
  BY ShutdownFrame DEF IInv
<1>3. Lending'
  BY <1>2 DEF IInv, Lending, Holding, KeyedForwards, requests
<1>4. Counted'
  BY <1>2 DEF IInv, Counted, requests, groups
<1>5. QED
  BY <1>1, <1>3, <1>4 DEF IInv

\* The inductive invariant of the broker.
THEOREM BrokerInvariant == Spec => []IInv
<1>1. IInv /\ [Next]_vars => IInv'
  <2> SUFFICES ASSUME IInv, [Next]_vars PROVE IInv'
    OBVIOUS
  <2>1. CASE Shutdown
    BY <2>1, ShutdownKeepsIInv
  <2>2. CASE \E r \in Requests : Serve(r)
    BY <2>2, HandlerKeepsIInv
  <2>3. CASE UNCHANGED vars
    BY <2>3
       DEF vars, guarded, requests, groups, closing, IInv, TypeOK, Lending, Holding,
           KeyedForwards, Counted, Closing, Drained, Reported, ReportIsFinal
  <2>4. QED
    BY <2>1, <2>2, <2>3 DEF Next
<1>2. QED
  BY <1>1, InitIInv, PTL DEF Spec

\* The state of the server, its handlers and its closers is well typed.
THEOREM BrokerTypeOK == Spec => []TypeOK
<1>1. IInv => TypeOK
  BY DEF IInv
<1>2. QED
  BY <1>1, BrokerInvariant, PTL

\* A request that was granted a forward carries the credential.
THEOREM BrokerKeyedForwards == Spec => []KeyedForwards
<1>1. IInv => KeyedForwards
  BY DEF IInv, Lending
<1>2. QED
  BY <1>1, BrokerInvariant, PTL

\* A report of a closed broker stays true, whatever handlers do after it.
THEOREM BrokerReportIsFinal == Spec => []ReportIsFinal
<1>1. IInv => ReportIsFinal
  BY DEF IInv, Reported
<1>2. QED
  BY <1>1, BrokerInvariant, PTL

-----------------------------------------------------------------------------
(* The broker implements BrokerPromise.                                    *)

\* What a step of a handler does to the credential: nothing, or it lends it
\* to a handler when nobody has it, or a handler gives it back.
LEMMA HandlerStep ==
  ASSUME IInv, NEW r \in Requests, Serve(r)
  PROVE  \/ Holding' = Holding /\ stats'.forwarded = stats.forwarded
         \/ P!Lend(r)
         \/ P!Return(r)
<1> USE DEF IInv, TypeOK
<1> DEFINE Same == Holding' = Holding /\ stats'.forwarded = stats.forwarded
<1>1. ASSUME NEW from, NEW to, Pass(r, from, to), from \in Forwarding <=> to \in Forwarding
      PROVE  Same
  BY <1>1, HoldingKept DEF Pass
<1>2. ASSUME NEW from, NEW to, Step(r, from, to), from \in Forwarding <=> to \in Forwarding,
             stats'.forwarded = stats.forwarded
      PROVE  Same
  BY <1>2, HoldingKept
<1>3. ASSUME NEW from \in Validating, Reject(r, from) PROVE Same
  <2>1. stats'.forwarded = stats.forwarded
    BY <1>3 DEF Reject, Stats
  <2>2. QED
    BY <1>2, <1>3, <2>1 DEF Reject, Validating, Forwarding
<1>4. CASE Admit(r) \/ TurnAway(r) \/ UpstreamFailure(r) \/ Release(r) \/ Leave(r)
  <2>1. stats'.forwarded = stats.forwarded
    BY <1>4 DEF Admit, TurnAway, UpstreamFailure, Release, Leave, Stats
  <2>2. QED
    BY <1>2, <1>4, <2>1 DEF Admit, TurnAway, UpstreamFailure, Release, Leave, Forwarding
<1>5. CASE CheckTarget(r) \/ Authorize(r) \/ ReadBody(r) \/ Send(r)
  BY <1>1, <1>3, <1>5
     DEF CheckTarget, Authorize, ReadBody, Send, Validating, Forwarding
<1>6. CASE BeginForward(r)
  <2>1. CASE MayForward
    <3>1. /\ pc' = [pc EXCEPT ![r] = "forward"]
          /\ stats' = Lent(stats)
          /\ closed' = closed
      <4>1. stats' = Lent(stats)
        BY <1>6, <2>1, BeginStats
      <4>2. QED
        BY <1>6, <2>1, <4>1 DEF BeginForward, Step, guarded
    <3>2. /\ ~closed /\ stats.inFlight = 0 /\ stats.forwarded < MaxRequests
      BY <2>1 DEF MayForward
    <3>3. Holding = {} /\ ~stats.closedAt
      BY <3>2 DEF Lending, Closing
    <3>4. Holding' = {r}
      BY <3>1, <3>3 DEF Holding, Forwarding
    <3>5. stats'.forwarded = stats.forwarded + 1 /\ stats'.closedAt = stats.closedAt
      BY <3>1, LentStats
    <3>6. P!Lend(r)
      <4>1. ~closed /\ closed' = closed
        BY <3>1, <3>2
      <4>2. stats.forwarded < MaxRequests /\ ~stats.closedAt
        BY <3>2, <3>3
      <4>3. QED
        BY <3>3, <3>4, <3>5, <4>1, <4>2, Zenon DEF P!Lend
    <3>7. QED
      BY <3>6
  <2>2. CASE ~MayForward
    BY <1>3, <1>6, <2>2 DEF BeginForward, Validating
  <2>3. QED
    BY <2>1, <2>2
<1>7. CASE Respond(r) \/ Relay(r)
  <2>1. stats'.forwarded = stats.forwarded
    BY <1>7 DEF Respond, Relay, Pass, Stats
  <2>2. QED
    BY <1>2, <1>7, <2>1 DEF Respond, Relay, Pass, Forwarding
<1>8. CASE FinishForward(r)
  <2>1. /\ pc[r] = "finish" /\ pc' = [pc EXCEPT ![r] = "release"]
        /\ stats' = Returned(stats)
        /\ closed' = closed
    <3>1. stats' = Returned(stats)
      BY <1>8, FinishStats
    <3>2. QED
      BY <1>8, <3>1 DEF FinishForward, Step, guarded
  <2>2. r \in Holding /\ Holding' = Holding \ {r}
    BY <2>1 DEF Holding, Forwarding
  <2>3. stats \in Stats
    OBVIOUS
  <2>4. stats'.forwarded = stats.forwarded /\ stats'.closedAt = stats.closedAt
    BY <2>1, <2>3, ReturnedStats
  <2>5. P!Return(r)
    BY <2>1, <2>2, <2>4 DEF P!Return
  <2>6. QED
    BY <2>5
<1>9. CASE CancelRequest(r)
  BY <1>9 DEF CancelRequest, Holding
<1>10. QED
  BY <1>4, <1>5, <1>6, <1>7, <1>8, <1>9 DEF Serve

\* The credential, the budget and the closure are handled as promised.
THEOREM BrokerKeepsPromise == Spec => PromiseKept
<1>1. Init => P!Init
  BY DEF Init, P!Init, NewStats, Holding, Forwarding
<1>2. IInv /\ [Next]_vars => [P!Next]_(P!promise)
  <2> SUFFICES ASSUME IInv, [Next]_vars PROVE P!Next \/ UNCHANGED P!promise
    OBVIOUS
  <2>1. ASSUME NEW r \in Requests, Serve(r) PROVE P!Next \/ UNCHANGED P!promise
    <3>1. closed' = closed /\ stats'.closedAt = stats.closedAt
      BY <2>1, HandlerFrame DEF IInv, guarded
    <3>2. CASE Holding' = Holding /\ stats'.forwarded = stats.forwarded
      BY <3>1, <3>2 DEF P!promise
    <3>3. CASE P!Lend(r) \/ P!Return(r)
      BY <3>3 DEF P!Next
    <3>4. QED
      BY <2>1, <3>2, <3>3, HandlerStep
  <2>2. CASE Shutdown
    <3>1. Holding' = Holding /\ stats'.forwarded = stats.forwarded
      BY <2>2, ShutdownFrame DEF IInv, Holding, requests
    <3>2. CASE Stamp
      <4>1. closed' = closed /\ closed /\ ~stats.closedAt
        BY <3>2 DEF Stamp, IInv, Closing, guarded
      <4>2. stats'.closedAt
        BY <3>2 DEF Stamp, IInv, TypeOK, Stats
      <4>3. Holding = {}
        BY <3>2 DEF Stamp, IInv, Drained, Counted, Holding, Serving
      <4>4. P!Drain
        BY <3>1, <4>1, <4>2, <4>3 DEF P!Drain
      <4>5. QED
        BY <4>4 DEF P!Next
    <3>3. ASSUME NEW c \in Closers, BeginClose(c) PROVE P!Next
      <4>1. ~closed /\ closed' /\ ~stats.closedAt /\ stats' = stats
        BY <3>3 DEF BeginClose, IInv, Closing
      <4>2. P!Shut
        BY <3>1, <4>1 DEF P!Shut
      <4>3. QED
        BY <4>2 DEF P!Next
    <3>4. CASE ~Stamp /\ ~\E c \in Closers : BeginClose(c)
      <4>1. closed' = closed /\ stats' = stats
        BY <2>2, <3>4 DEF Shutdown, EndLifetime, WaitForHandlers, WaitForForwards, ShutServer,
                          JoinClose, ReturnFromClose, Snapshot, guarded
      <4>2. QED
        BY <3>1, <4>1 DEF P!promise
    <3>5. QED
      BY <3>2, <3>3, <3>4
  <2>3. CASE UNCHANGED vars
    BY <2>3 DEF vars, guarded, requests, Holding, P!promise
  <2>4. QED
    BY <2>1, <2>2, <2>3 DEF Next
<1>3. QED
  BY <1>1, <1>2, BrokerInvariant, PTL DEF Spec, PromiseKept, P!Spec

-----------------------------------------------------------------------------
(* The counters match the requests.                                        *)

InValidation == {r \in Requests : pc[r] \in Validating}
InProgress   == {r \in Requests : pc[r] \in {"forward", "upstream", "failing", "relay"}}
Answered(a)  == {r \in Requests : answer[r] = a}

\* A request is answered by its upstream once, at the end of its forward.
AnsweredOnce ==
  \A r \in Requests :
    answer[r] \in {"relayed", "failed"} => pc[r] \in {"finish", "release", "leave", "done"}

Counters ==
  /\ stats.received = stats.rejected + stats.forwarded + Cardinality(InValidation)
  /\ stats.forwarded = Cardinality(InProgress) + Cardinality(Answered("relayed")) + stats.failures
  /\ stats.failures = Cardinality(Answered("failed"))

LEMMA CountersAreCounters == Counters <=> CountersMatchRequests
<1>1. InProgress = Holding \ {r \in Requests : pc[r] = "finish"}
  BY DEF InProgress, Holding, Forwarding
<1>2. QED
  BY <1>1 DEF Counters, CountersMatchRequests, InValidation, Answered

\* Sets of requests are finite, and counted one by one.
LEMMA Counting ==
  ASSUME NEW S \in SUBSET Requests, NEW r \in Requests
  PROVE  /\ Cardinality(S) \in Nat
         /\ r \notin S => Cardinality(S \union {r}) = Cardinality(S) + 1
         /\ r \in S => Cardinality(S \ {r}) = Cardinality(S) - 1
<1>1. IsFiniteSet(S)
  BY FS_Subset, BrokerAssumption DEF BrokerAssumption
<1>2. QED
  BY <1>1, FS_CardinalityType, FS_AddElement, FS_RemoveElement

\* finishForward leaves the counted requests alone.
LEMMA FinishedCounts ==
  ASSUME TypeOK, NEW r \in Requests, FinishForward(r)
  PROVE  UNCHANGED <<stats.received, stats.rejected, stats.forwarded, stats.failures>>
<1>1. stats' = Returned(stats)
  BY FinishStats
<1>2. stats \in Stats
  BY DEF TypeOK
<1>3. QED
  BY <1>1, <1>2, ReturnedStats

\* What a handler does to the four sets and the counters, by its step.
LEMMA HandlerCounts ==
  ASSUME TypeOK, AnsweredOnce, NEW r \in Requests, Serve(r)
  PROVE  /\ AnsweredOnce'
         /\ \/ \* admitted
               /\ r \notin InValidation /\ InValidation' = InValidation \union {r}
               /\ stats'.received = stats.received + 1
               /\ UNCHANGED <<stats.rejected, stats.forwarded, stats.failures>>
               /\ UNCHANGED <<InProgress, Answered("relayed"), Answered("failed")>>
            \/ \* rejected
               /\ r \in InValidation /\ InValidation' = InValidation \ {r}
               /\ stats'.rejected = stats.rejected + 1
               /\ UNCHANGED <<stats.received, stats.forwarded, stats.failures>>
               /\ UNCHANGED <<InProgress, Answered("relayed"), Answered("failed")>>
            \/ \* forwarded
               /\ r \in InValidation /\ InValidation' = InValidation \ {r}
               /\ r \notin InProgress /\ InProgress' = InProgress \union {r}
               /\ stats'.forwarded = stats.forwarded + 1
               /\ UNCHANGED <<stats.received, stats.rejected, stats.failures>>
               /\ UNCHANGED <<Answered("relayed"), Answered("failed")>>
            \/ \* relayed
               /\ r \in InProgress /\ InProgress' = InProgress \ {r}
               /\ r \notin Answered("relayed")
               /\ Answered("relayed")' = Answered("relayed") \union {r}
               /\ UNCHANGED <<InValidation, Answered("failed")>>
               /\ UNCHANGED <<stats.received, stats.rejected, stats.forwarded, stats.failures>>
            \/ \* failed
               /\ r \in InProgress /\ InProgress' = InProgress \ {r}
               /\ r \notin Answered("failed")
               /\ Answered("failed")' = Answered("failed") \union {r}
               /\ stats'.failures = stats.failures + 1
               /\ UNCHANGED <<InValidation, Answered("relayed")>>
               /\ UNCHANGED <<stats.received, stats.rejected, stats.forwarded>>
            \/ \* a step within one of them
               /\ UNCHANGED <<InValidation, InProgress, Answered("relayed"), Answered("failed")>>
               /\ UNCHANGED <<stats.received, stats.rejected, stats.forwarded, stats.failures>>
<1> USE DEF TypeOK, AnsweredOnce, InValidation, InProgress, Answered, Step
<1>1. ASSUME NEW from, NEW to, Pass(r, from, to),
             from \in Validating <=> to \in Validating,
             from \in {"forward", "upstream", "failing", "relay"} <=>
               to \in {"forward", "upstream", "failing", "relay"},
             from \notin {"finish", "release", "leave", "done"}
      PROVE  /\ AnsweredOnce'
             /\ UNCHANGED <<InValidation, InProgress, Answered("relayed"), Answered("failed")>>
             /\ UNCHANGED <<stats.received, stats.rejected, stats.forwarded, stats.failures>>
  BY <1>1 DEF Pass
<1>2. ASSUME NEW from \in Validating, Reject(r, from)
      PROVE  /\ AnsweredOnce'
             /\ r \in InValidation /\ InValidation' = InValidation \ {r}
             /\ UNCHANGED <<InProgress, Answered("relayed"), Answered("failed")>>
             /\ stats'.rejected = stats.rejected + 1
             /\ UNCHANGED <<stats.received, stats.forwarded, stats.failures>>
  <2>1. /\ stats'.rejected = stats.rejected + 1
        /\ UNCHANGED <<stats.received, stats.forwarded, stats.failures>>
    BY <1>2 DEF Reject, Stats
  <2>2. answer[r] \notin {"relayed", "failed"}
    BY <1>2 DEF Reject, Validating
  <2>3. QED
    BY <1>2, <2>1, <2>2 DEF Reject, Validating
<1>3. CASE Admit(r)
  <2>1. /\ stats'.received = stats.received + 1
        /\ UNCHANGED <<stats.rejected, stats.forwarded, stats.failures>>
    BY <1>3 DEF Admit, Stats
  <2>2. QED
    BY <1>3, <2>1 DEF Admit, Validating
<1>4. CASE TurnAway(r)
  BY <1>4 DEF TurnAway, Validating
<1>5. CASE CheckTarget(r) \/ Authorize(r) \/ ReadBody(r)
  <2>1. \/ \E from, to \in Validating : Pass(r, from, to)
        \/ \E from \in Validating : Reject(r, from)
    BY <1>5 DEF CheckTarget, Authorize, ReadBody, Validating
  <2>2. QED
    BY <1>1, <1>2, <2>1 DEF Validating
<1>6. CASE Send(r)
  BY <1>1, <1>6 DEF Send, Validating
<1>7. CASE BeginForward(r)
  <2>1. CASE MayForward
    <3>1. /\ pc[r] = "begin" /\ pc' = [pc EXCEPT ![r] = "forward"]
          /\ stats' = Lent(stats)
          /\ answer' = answer
      <4>1. stats' = Lent(stats)
        BY <1>7, <2>1, BeginStats
      <4>2. QED
        BY <1>7, <2>1, <4>1 DEF BeginForward
    <3>2. /\ stats'.forwarded = stats.forwarded + 1
          /\ UNCHANGED <<stats.received, stats.rejected, stats.failures>>
      BY <3>1, LentStats
    <3>3. QED
      BY <3>1, <3>2 DEF Validating
  <2>2. CASE ~MayForward
    BY <1>2, <1>7, <2>2 DEF BeginForward, Validating
  <2>3. QED
    BY <2>1, <2>2
<1>8. CASE Respond(r)
  <2>1. CASE Pass(r, "upstream", "failing")
    BY <1>1, <2>1 DEF Validating
  <2>2. CASE ~Pass(r, "upstream", "failing")
    <3>1. UNCHANGED <<stats.received, stats.rejected, stats.forwarded, stats.failures>>
      BY <1>8, <2>2 DEF Respond, Stats
    <3>2. QED
      BY <1>8, <2>2, <3>1 DEF Respond, Validating
  <2>3. QED
    BY <2>1, <2>2
<1>9. CASE UpstreamFailure(r)
  <2>1. /\ stats'.failures = stats.failures + 1
        /\ UNCHANGED <<stats.received, stats.rejected, stats.forwarded>>
    BY <1>9 DEF UpstreamFailure, Stats
  <2>2. answer[r] \notin {"relayed", "failed"}
    BY <1>9 DEF UpstreamFailure
  <2>3. QED
    BY <1>9, <2>1, <2>2 DEF UpstreamFailure, Validating
<1>10. CASE Relay(r)
  <2>1. CASE Pass(r, "relay", "failing")
    BY <1>1, <2>1 DEF Validating
  <2>2. CASE ~Pass(r, "relay", "failing")
    <3>1. answer[r] \notin {"relayed", "failed"}
      BY <1>10 DEF Relay, Pass
    <3>2. QED
      BY <1>10, <2>2, <3>1 DEF Relay, Validating
  <2>3. QED
    BY <2>1, <2>2
<1>11. CASE FinishForward(r)
  <2>1. /\ pc[r] = "finish" /\ pc' = [pc EXCEPT ![r] = "release"] /\ answer' = answer
    BY <1>11 DEF FinishForward
  <2>2. QED
    BY <1>11, <2>1, FinishedCounts DEF Validating
<1>12. CASE Release(r) \/ Leave(r)
  BY <1>12 DEF Release, Leave, Validating
<1>13. CASE CancelRequest(r)
  BY <1>13 DEF CancelRequest
<1>14. QED
  BY <1>3, <1>4, <1>5, <1>6, <1>7, <1>8, <1>9, <1>10, <1>11, <1>12, <1>13 DEF Serve

\* The sets of requests are counted, for what follows.
THEOREM BrokerCounts == Spec => [](AnsweredOnce /\ Counters)
<1>1. Init => AnsweredOnce /\ Counters
  <2> SUFFICES ASSUME Init PROVE AnsweredOnce /\ Counters
    OBVIOUS
  <2>1. InValidation = {} /\ InProgress = {} /\ Answered("relayed") = {} /\ Answered("failed") = {}
    BY DEF Init, InValidation, InProgress, Answered, Validating
  <2>2. QED
    BY <2>1, FS_EmptySet DEF Init, NewStats, AnsweredOnce, Counters
<1>2. IInv /\ AnsweredOnce /\ Counters /\ [Next]_vars => AnsweredOnce' /\ Counters'
  <2> SUFFICES ASSUME IInv, AnsweredOnce, Counters, [Next]_vars
               PROVE  AnsweredOnce' /\ Counters'
    OBVIOUS
  <2>1. ASSUME NEW r \in Requests, Serve(r) PROVE AnsweredOnce' /\ Counters'
    <3>1. /\ InValidation \in SUBSET Requests /\ InProgress \in SUBSET Requests
          /\ Answered("relayed") \in SUBSET Requests /\ Answered("failed") \in SUBSET Requests
      BY DEF InValidation, InProgress, Answered
    <3>2. /\ stats.received \in Nat /\ stats.rejected \in Nat
          /\ stats.forwarded \in Nat /\ stats.failures \in Nat
      BY DEF IInv, TypeOK, Stats
    <3>3. /\ Cardinality(InValidation) \in Nat /\ Cardinality(InProgress) \in Nat
          /\ Cardinality(Answered("relayed")) \in Nat /\ Cardinality(Answered("failed")) \in Nat
      BY <3>1, Counting
    <3>4. /\ r \notin InValidation =>
               Cardinality(InValidation \union {r}) = Cardinality(InValidation) + 1
          /\ r \in InValidation =>
               Cardinality(InValidation \ {r}) = Cardinality(InValidation) - 1
          /\ r \notin InProgress =>
               Cardinality(InProgress \union {r}) = Cardinality(InProgress) + 1
          /\ r \in InProgress =>
               Cardinality(InProgress \ {r}) = Cardinality(InProgress) - 1
      BY <3>1, Counting
    <3>5. /\ r \notin Answered("relayed") =>
               Cardinality(Answered("relayed") \union {r}) = Cardinality(Answered("relayed")) + 1
          /\ r \notin Answered("failed") =>
               Cardinality(Answered("failed") \union {r}) = Cardinality(Answered("failed")) + 1
      BY <3>1, Counting
    <3>6. TypeOK
      BY DEF IInv
    <3>7. AnsweredOnce'
      BY <2>1, <3>6, HandlerCounts
    <3>8. Counters'
      <4> DEFINE v == Cardinality(InValidation)
                 p == Cardinality(InProgress)
                 y == Cardinality(Answered("relayed"))
                 n == Cardinality(Answered("failed"))
      <4>1. \/ /\ v' = v + 1 /\ p' = p /\ y' = y /\ n' = n
               /\ stats'.received = stats.received + 1
               /\ UNCHANGED <<stats.rejected, stats.forwarded, stats.failures>>
            \/ /\ v' = v - 1 /\ p' = p /\ y' = y /\ n' = n
               /\ stats'.rejected = stats.rejected + 1
               /\ UNCHANGED <<stats.received, stats.forwarded, stats.failures>>
            \/ /\ v' = v - 1 /\ p' = p + 1 /\ y' = y /\ n' = n
               /\ stats'.forwarded = stats.forwarded + 1
               /\ UNCHANGED <<stats.received, stats.rejected, stats.failures>>
            \/ /\ v' = v /\ p' = p - 1 /\ y' = y + 1 /\ n' = n
               /\ UNCHANGED <<stats.received, stats.rejected, stats.forwarded, stats.failures>>
            \/ /\ v' = v /\ p' = p - 1 /\ y' = y /\ n' = n + 1
               /\ stats'.failures = stats.failures + 1
               /\ UNCHANGED <<stats.received, stats.rejected, stats.forwarded>>
            \/ /\ v' = v /\ p' = p /\ y' = y /\ n' = n
               /\ UNCHANGED <<stats.received, stats.rejected, stats.forwarded, stats.failures>>
        BY <2>1, <3>4, <3>5, <3>6, HandlerCounts
      <4>2. v \in Nat /\ p \in Nat /\ y \in Nat /\ n \in Nat
        BY <3>3
      <4>3. /\ stats.received = stats.rejected + stats.forwarded + v
            /\ stats.forwarded = p + y + stats.failures
            /\ stats.failures = n
        BY DEF Counters
      <4> HIDE DEF v, p, y, n
      <4>4. /\ stats'.received = stats'.rejected + stats'.forwarded + v'
            /\ stats'.forwarded = p' + y' + stats'.failures
            /\ stats'.failures = n'
        BY <3>2, <4>1, <4>2, <4>3
      <4>5. QED
        BY <4>4 DEF Counters, v, p, y, n
    <3>9. QED
      BY <3>7, <3>8
  <2>2. CASE Shutdown
    BY <2>2, ShutdownFrame
       DEF IInv, AnsweredOnce, Counters, InValidation, InProgress, Answered, requests
  <2>3. CASE UNCHANGED vars
    BY <2>3 DEF vars, requests, AnsweredOnce, Counters, InValidation, InProgress, Answered
  <2>4. QED
    BY <2>1, <2>2, <2>3 DEF Next
<1>3. QED
  BY <1>1, <1>2, BrokerInvariant, PTL DEF Spec

\* Every admitted request is counted once, every failure answered.
THEOREM BrokerCounters == Spec => []CountersMatchRequests
BY BrokerCounts, CountersAreCounters, PTL

-----------------------------------------------------------------------------
(* A clean round trip.                                                     *)

\* Rejections are counted; what is relayed has succeeded, and a success stays
\* the last status while nothing else is forwarded.
Outcomes ==
  /\ stats.rejected = 0 => Answered("rejected") = {}
  /\ \A r \in Requests : pc[r] = "relay" => stats.lastStatus = "success"
  /\ stats.forwarded = 1 /\ Answered("relayed") # {} => stats.lastStatus = "success"

\* With one request forwarded, none is in progress beside one that was relayed;
\* with none, none was relayed.
LEMMA FewForwards ==
  ASSUME TypeOK, Counters
  PROVE  /\ stats.forwarded = 0 => Answered("relayed") = {}
         /\ stats.forwarded = 1 => Answered("relayed") = {} \/ InProgress = {}
         /\ stats.failures = 0 => Answered("failed") = {}
         /\ stats.forwarded = 1 /\ stats.failures = 0 /\ InProgress = {} =>
              \E r \in Requests : Answered("relayed") = {r}
<1> DEFINE y == Answered("relayed")
<1>1. /\ InProgress \in SUBSET Requests /\ y \in SUBSET Requests
      /\ Answered("failed") \in SUBSET Requests
  BY DEF InProgress, Answered
<1>2. /\ stats.forwarded = Cardinality(InProgress) + Cardinality(y) + stats.failures
      /\ stats.failures = Cardinality(Answered("failed"))
      /\ stats.forwarded \in Nat /\ stats.failures \in Nat
  BY DEF Counters, TypeOK, Stats
<1>3. /\ \A S \in SUBSET Requests : Cardinality(S) \in Nat
      /\ \A S \in SUBSET Requests : \A r \in S : Cardinality(S \ {r}) = Cardinality(S) - 1
  <2>1. ASSUME NEW S \in SUBSET Requests
        PROVE  Cardinality(S) \in Nat
    BY FS_Subset, FS_CardinalityType, BrokerAssumption
  <2>2. ASSUME NEW S \in SUBSET Requests, NEW r \in S
        PROVE  Cardinality(S \ {r}) = Cardinality(S) - 1
    BY Counting
  <2> QED  BY <2>1, <2>2
<1>4. \A S \in SUBSET Requests : S # {} => Cardinality(S) >= 1
  <2> SUFFICES ASSUME NEW S \in SUBSET Requests, NEW r \in S PROVE Cardinality(S) >= 1
    OBVIOUS
  <2>1. S \ {r} \in SUBSET Requests
    OBVIOUS
  <2>2. Cardinality(S) \in Nat /\ Cardinality(S) - 1 \in Nat
    BY <1>3, <2>1
  <2> QED  BY <2>2
<1>5. \A S \in SUBSET Requests : Cardinality(S) = 1 => \E r \in Requests : S = {r}
  <2> SUFFICES ASSUME NEW S \in SUBSET Requests, Cardinality(S) = 1
               PROVE  \E r \in Requests : S = {r}
    OBVIOUS
  <2>1. PICK r \in S : TRUE
    BY FS_EmptySet
  <2>2. S \ {r} \in SUBSET Requests /\ Cardinality(S \ {r}) = 0
    BY <1>3
  <2>3. S \ {r} = {}
    BY <1>4, <2>2
  <2> QED  BY <2>1, <2>3
<1>6. Cardinality({}) = 0
  BY FS_EmptySet
<1> HIDE DEF y
<1>7. stats.forwarded = 0 => y = {}
  BY <1>1, <1>2, <1>3, <1>4
<1>8. stats.forwarded = 1 => y = {} \/ InProgress = {}
  BY <1>1, <1>2, <1>3, <1>4
<1>9. stats.failures = 0 => Answered("failed") = {}
  BY <1>1, <1>2, <1>4
<1>10. stats.forwarded = 1 /\ stats.failures = 0 /\ InProgress = {} => Cardinality(y) = 1
  BY <1>1, <1>2, <1>3, <1>6
<1> QED  BY <1>1, <1>5, <1>7, <1>8, <1>9, <1>10 DEF y

LEMMA HandlerOutcomes ==
  ASSUME IInv, AnsweredOnce, Counters, Outcomes, NEW r \in Requests, Serve(r)
  PROVE  Outcomes'
<1> USE DEF IInv, TypeOK, Outcomes, Answered, Step
<1>1. ASSUME NEW from, NEW to, Pass(r, from, to), to # "relay" PROVE Outcomes'
  BY <1>1 DEF Pass
<1>2. ASSUME NEW from, Reject(r, from) PROVE Outcomes'
  <2>1. /\ stats'.rejected = stats.rejected + 1 /\ stats.rejected \in Nat
        /\ UNCHANGED <<stats.forwarded, stats.lastStatus>>
    BY <1>2 DEF Reject, Stats
  <2> QED  BY <1>2, <2>1 DEF Reject
<1>3. CASE Admit(r)
  <2>1. UNCHANGED <<stats.rejected, stats.forwarded, stats.lastStatus>>
    BY <1>3 DEF Admit, Stats
  <2> QED  BY <1>3, <2>1 DEF Admit
<1>4. CASE TurnAway(r)
  BY <1>4 DEF TurnAway
<1>5. CASE CheckTarget(r) \/ Authorize(r) \/ ReadBody(r) \/ Send(r)
  BY <1>1, <1>2, <1>5 DEF CheckTarget, Authorize, ReadBody, Send
<1>6. CASE BeginForward(r)
  <2>1. CASE MayForward
    <3>1. /\ pc' = [pc EXCEPT ![r] = "forward"] /\ answer' = answer
          /\ stats' = Lent(stats)
      BY <1>6, <2>1, BeginStats DEF BeginForward, Reject, MayForward
    <3>2. /\ stats'.forwarded = stats.forwarded + 1 /\ stats.forwarded \in Nat
          /\ UNCHANGED <<stats.rejected, stats.lastStatus>>
      BY <3>1, LentStats DEF Stats
    <3>3. stats'.forwarded = 1 => stats.forwarded = 0
      BY <3>2
    <3>4. stats.forwarded = 0 => Answered("relayed") = {}
      BY FewForwards
    <3> QED  BY <3>1, <3>2, <3>3, <3>4
  <2>2. CASE ~MayForward
    BY <1>2, <1>6, <2>2 DEF BeginForward
  <2> QED  BY <2>1, <2>2
<1>7. CASE Respond(r)
  <2>1. CASE Pass(r, "upstream", "failing")
    BY <1>1, <2>1
  <2>2. CASE Step(r, "upstream", "relay") /\ stats' = [stats EXCEPT !.lastStatus = "success"]
    <3>1. /\ stats'.lastStatus = "success"
          /\ UNCHANGED <<stats.rejected, stats.forwarded>>
      BY <2>2 DEF Stats
    <3>2. answer' = answer
      BY <1>7, <2>2 DEF Respond, Pass, requests
    <3> QED  BY <3>1, <3>2
  <2>3. CASE /\ Step(r, "upstream", "failing")
             /\ stats' = [stats EXCEPT !.lastStatus = "error"]
    <3>1. UNCHANGED <<stats.rejected, stats.forwarded>> /\ answer' = answer
      BY <1>7, <2>3 DEF Respond, Pass, requests, Stats
    <3>2. stats.forwarded = 1 => Answered("relayed") = {}
      BY <2>3, FewForwards DEF InProgress
    <3>3. \A q \in Requests : pc'[q] # "relay"
      <4>1. r \in Holding /\ \A q \in Requests : pc[q] = "relay" => q \in Holding
        BY <2>3 DEF Holding, Forwarding
      <4>2. \A q \in Holding : q = r
        BY <4>1 DEF Lending
      <4> QED  BY <2>3, <4>1, <4>2
    <3> QED  BY <3>1, <3>2, <3>3
  <2> QED  BY <1>7, <2>1, <2>2, <2>3 DEF Respond
<1>8. CASE UpstreamFailure(r)
  <2>1. UNCHANGED <<stats.rejected, stats.forwarded, stats.lastStatus>>
    BY <1>8 DEF UpstreamFailure, Stats
  <2> QED  BY <1>8, <2>1 DEF UpstreamFailure
<1>9. CASE Relay(r)
  <2>1. CASE Pass(r, "relay", "failing")
    BY <1>1, <2>1
  <2>2. CASE ~Pass(r, "relay", "failing")
    BY <1>9, <2>2 DEF Relay
  <2> QED  BY <2>1, <2>2
<1>10. CASE FinishForward(r)
  <2>1. /\ stats' = Returned(stats)
        /\ pc' = [pc EXCEPT ![r] = "release"] /\ answer' = answer
    BY <1>10, FinishStats DEF FinishForward
  <2>2. UNCHANGED <<stats.rejected, stats.forwarded, stats.lastStatus>>
    BY <2>1, ReturnedStats
  <2> QED  BY <2>1, <2>2
<1>11. CASE Release(r) \/ Leave(r) \/ CancelRequest(r)
  BY <1>11 DEF Release, Leave, CancelRequest
<1> QED  BY <1>3, <1>4, <1>5, <1>6, <1>7, <1>8, <1>9, <1>10, <1>11 DEF Serve

\* A closed broker that counted one clean round trip served one request.
LEMMA CleanRoundTrip ==
  ASSUME IInv, Counters, Outcomes
  PROVE  SupportedMeansServed
<1> SUFFICES ASSUME NEW c \in Callers, report[c].status = "closed", RoundTrip(stats)
             PROVE  \E r \in Requests :
                      /\ answer[r] = "relayed" /\ stats.lastStatus = "success"
                      /\ \A q \in Requests \ {r} : answer[q] \in {"none", "unavailable"}
  BY DEF SupportedMeansServed, IInv, Reported, ReportIsFinal
<1>1. \A r \in Requests : pc[r] \notin Serving
  BY DEF IInv, Reported, Drained, Counted
<1>2. InProgress = {}
  BY <1>1 DEF InProgress, Serving, Forwarding
<1>3. stats.forwarded = 1 /\ stats.rejected = 0 /\ stats.failures = 0
  BY DEF RoundTrip
<1>4. PICK r \in Requests : Answered("relayed") = {r}
  BY <1>2, <1>3, FewForwards DEF IInv
<1>5. Answered("failed") = {} /\ Answered("rejected") = {}
  BY <1>3, FewForwards DEF IInv, Outcomes
<1>6. stats.lastStatus = "success"
  BY <1>3, <1>4 DEF Outcomes
<1> QED  BY <1>4, <1>5, <1>6 DEF Answered, IInv, TypeOK

\* A probe that reports one clean round trip saw one request relayed in full,
\* and none of the others was admitted.
THEOREM BrokerRoundTrip == Spec => []SupportedMeansServed
<1>1. Init => Outcomes
  BY DEF Init, NewStats, Outcomes, Answered
<1>2. IInv /\ AnsweredOnce /\ Counters /\ Outcomes /\ [Next]_vars => Outcomes'
  <2> SUFFICES ASSUME IInv, AnsweredOnce, Counters, Outcomes, [Next]_vars PROVE Outcomes'
    OBVIOUS
  <2>1. CASE Shutdown
    <3>1. UNCHANGED <<requests, stats.forwarded, stats.rejected>>
      BY <2>1, ShutdownFrame DEF IInv
    <3>2. stats'.lastStatus = stats.lastStatus
      BY <2>1 DEF Shutdown, EndLifetime, WaitForHandlers, WaitForForwards, Stamp, BeginClose,
                  ShutServer, JoinClose, ReturnFromClose, Snapshot, IInv, TypeOK, Stats
    <3> QED  BY <3>1, <3>2 DEF Outcomes, Answered, requests
  <2>2. CASE UNCHANGED vars
    BY <2>2 DEF vars, requests, Outcomes, Answered
  <2> QED  BY <2>1, <2>2, HandlerOutcomes DEF Next
<1>3. IInv /\ Counters /\ Outcomes => SupportedMeansServed
  BY CleanRoundTrip
<1> QED  BY <1>1, <1>2, <1>3, BrokerInvariant, BrokerCounts, PTL DEF Spec
=============================================================================
