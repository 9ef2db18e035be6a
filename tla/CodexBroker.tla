----------------------------- MODULE CodexBroker -----------------------------
(***************************************************************************)
(* The loopback Responses broker that lends a credential to one role child *)
(* (herdr-sentinel/internal/codexbroker/broker.go).                        *)
(*                                                                         *)
(*   Requests   the HTTP requests that reach the listener, each served by  *)
(*              a goroutine of its own                                     *)
(*   Callers    goroutines that close the broker and read its counters for *)
(*              a report (roleexec, agentprobe)                            *)
(*   Watcher    the goroutine that closes it when its lifetime ends        *)
(*   the goroutine that waits for the handlers (drain)                     *)
(*                                                                         *)
(* A step is one critical section of the mutex s.mu, one wait, or one call *)
(* that leaves the process.  A WaitGroup is the set of the requests it     *)
(* counts.  Which requests are well formed, and how the upstream and the   *)
(* client behave, are free choices; texts and sizes are abstracted.        *)
(***************************************************************************)
EXTENDS Naturals, FiniteSets

CONSTANTS
  Requests, Callers, Watcher,
  MaxRequests,          \* the budget of forwarded requests
  Token, OtherToken,    \* what requests present, and
  Empty                 \* the empty string

ASSUME BrokerAssumption ==
  /\ MaxRequests \in Nat \ {0}
  /\ IsFiniteSet(Requests)
  /\ Watcher \notin Callers
  /\ Token # Empty

VARIABLES
  closed, token, apiKey,   \* under s.mu, with
  stats,                   \* the counters of Stats
  pc, presents, key,       \* each request: its next step, its bearer token, and
                           \* the credential it was lent
  canceled,                \* requests whose context is done
  answer,                  \* what the client got
  handlerWG, forwardWG,
  lifetimeDone,
  once, closeErr,          \* closeOnce, and the error of httpServer.Close
  drain,                   \* the goroutine that waits, "done": closeDone is closed
  closer,                  \* each goroutine in Close
  report                   \* what each caller reported

guarded  == <<closed, token, apiKey>>
requests == <<pc, presents, key, canceled, answer>>
groups   == <<handlerWG, forwardWG>>
closing  == <<once, closeErr, drain, closer, report>>
vars     == <<guarded, stats, requests, groups, lifetimeDone, closing>>

Stats ==
  [received : Nat, forwarded : Nat, rejected : Nat, failures : Nat, inFlight : Nat,
   lastStatus : {"none", "success", "error"}, completed : BOOLEAN, closedAt : BOOLEAN]

\* Where a handler validates its request, holds the credential, and is
\* between its admission and its end.
Validating == {"target", "token", "body", "begin"}
Forwarding == {"forward", "upstream", "failing", "relay", "finish"}
Serving    == Validating \union Forwarding \union {"release", "leave"}

Closers == Callers \union {Watcher}

NewStats ==
  [received |-> 0, forwarded |-> 0, rejected |-> 0, failures |-> 0, inFlight |-> 0,
   lastStatus |-> "none", completed |-> FALSE, closedAt |-> FALSE]

NoReport == [status |-> "none", stats |-> NewStats]

Init ==
  /\ closed = FALSE /\ token = Token /\ apiKey = "key"
  /\ stats = NewStats
  /\ pc = [r \in Requests |-> "new"]
  /\ presents \in [Requests -> {Token, OtherToken, Empty}]
  /\ key = [r \in Requests |-> Empty]
  /\ canceled = {}
  /\ answer = [r \in Requests |-> "none"]
  /\ handlerWG = {} /\ forwardWG = {}
  /\ lifetimeDone = FALSE
  /\ once = "unused" /\ closeErr = FALSE /\ drain = "none"
  /\ closer = [c \in Closers |-> "idle"]
  /\ report = [c \in Callers |-> NoReport]

-----------------------------------------------------------------------------
(* ServeHTTP.                                                              *)

Step(r, from, to) == pc[r] = from /\ pc' = [pc EXCEPT ![r] = to]

\* reject: counted and answered; the handler returns.
Reject(r, from) ==
  /\ Step(r, from, "leave")
  /\ stats' = [stats EXCEPT !.rejected = @ + 1]
  /\ answer' = [answer EXCEPT ![r] = "rejected"]
  /\ UNCHANGED <<guarded, presents, key, canceled, groups, lifetimeDone, closing>>

Pass(r, from, to) ==
  /\ Step(r, from, to)
  /\ UNCHANGED <<guarded, stats, presents, key, canceled, answer, groups, lifetimeDone, closing>>

Admit(r) ==
  /\ ~closed
  /\ Step(r, "new", "target")
  /\ handlerWG' = handlerWG \union {r}
  /\ stats' = [stats EXCEPT !.received = @ + 1]
  /\ UNCHANGED <<guarded, presents, key, canceled, answer, forwardWG, lifetimeDone, closing>>

TurnAway(r) ==
  /\ closed
  /\ Step(r, "new", "done")
  /\ answer' = [answer EXCEPT ![r] = "unavailable"]
  /\ UNCHANGED <<guarded, stats, presents, key, canceled, groups, lifetimeDone, closing>>

\* The request target and the method.
CheckTarget(r) == Pass(r, "target", "token") \/ Reject(r, "target")

\* authorized: Close leaves the empty string for a token.
Authorized(r) == ~closed /\ presents[r] = token

Authorize(r) ==
  \/ Authorized(r) /\ Pass(r, "token", "body")
  \/ ~Authorized(r) /\ Reject(r, "token")

\* The content type, the body and its constraints.
ReadBody(r) == Pass(r, "body", "begin") \/ Reject(r, "body")

\* Fault: beginForward does not look at closed.
ForwardWhenClosed == stats.inFlight = 0 /\ stats.forwarded < MaxRequests

MayForward == ~closed /\ stats.inFlight = 0 /\ stats.forwarded < MaxRequests

\* Fault: the budget is refused without being counted.
RefuseUncounted(r) ==
  \/ /\ MayForward
     /\ Step(r, "begin", "forward")
     /\ stats' = [stats EXCEPT !.forwarded = @ + 1, !.inFlight = @ + 1]
     /\ forwardWG' = forwardWG \union {r}
     /\ key' = [key EXCEPT ![r] = apiKey]
     /\ UNCHANGED <<guarded, presents, canceled, answer, handlerWG, lifetimeDone, closing>>
  \/ ~MayForward /\ Pass(r, "begin", "leave")

BeginForward(r) ==
  \/ /\ MayForward
     /\ Step(r, "begin", "forward")
     /\ stats' = [stats EXCEPT !.forwarded = @ + 1, !.inFlight = @ + 1]
     /\ forwardWG' = forwardWG \union {r}
     /\ key' = [key EXCEPT ![r] = apiKey]
     /\ UNCHANGED <<guarded, presents, canceled, answer, handlerWG, lifetimeDone, closing>>
  \/ ~MayForward /\ Reject(r, "begin")

\* The upstream request is sent, unless it cannot be prepared or its context
\* is already done.
Send(r) ==
  \/ r \notin canceled /\ Pass(r, "forward", "upstream")
  \/ Pass(r, "forward", "failing")

\* client.Do returns: an error or an invalid status, or a status that is
\* recorded and is a failure unless it is a success.
Respond(r) ==
  \/ Pass(r, "upstream", "failing")
  \/ /\ \/ Step(r, "upstream", "relay") /\ stats' = [stats EXCEPT !.lastStatus = "success"]
        \/ Step(r, "upstream", "failing") /\ stats' = [stats EXCEPT !.lastStatus = "error"]
     /\ UNCHANGED <<guarded, presents, key, canceled, answer, groups, lifetimeDone, closing>>

UpstreamFailure(r) ==
  /\ Step(r, "failing", "finish")
  /\ stats' = [stats EXCEPT !.failures = @ + 1]
  /\ answer' = [answer EXCEPT ![r] = "failed"]
  /\ UNCHANGED <<guarded, presents, key, canceled, groups, lifetimeDone, closing>>

\* Fault: a copy that breaks off is not a failure.
RelayTruncated(r) ==
  /\ Step(r, "relay", "finish")
  /\ answer' \in {answer, [answer EXCEPT ![r] = "relayed"]}
  /\ UNCHANGED <<guarded, stats, presents, key, canceled, groups, lifetimeDone, closing>>

\* The response exceeds the limit or a copy fails, or all of it is copied.
Relay(r) ==
  \/ Pass(r, "relay", "failing")
  \/ /\ Step(r, "relay", "finish")
     /\ answer' = [answer EXCEPT ![r] = "relayed"]
     /\ UNCHANGED <<guarded, stats, presents, key, canceled, groups, lifetimeDone, closing>>

\* finishForward, in its critical section and after it.
FinishForward(r) ==
  /\ Step(r, "finish", "release")
  /\ stats' = [stats EXCEPT !.inFlight = IF @ > 0 THEN @ - 1 ELSE @, !.completed = TRUE]
  /\ UNCHANGED <<guarded, presents, key, canceled, answer, groups, lifetimeDone, closing>>

Release(r) ==
  /\ Step(r, "release", "leave")
  /\ forwardWG' = forwardWG \ {r}
  /\ UNCHANGED <<guarded, stats, presents, key, canceled, answer, handlerWG, lifetimeDone, closing>>

Leave(r) ==
  /\ Step(r, "leave", "done")
  /\ handlerWG' = handlerWG \ {r}
  /\ UNCHANGED <<guarded, stats, presents, key, canceled, answer, forwardWG, lifetimeDone, closing>>

\* Fault: requests are not bound to the lifetime of the broker.
CancelByClient(r) ==
  /\ ~lifetimeDone
  /\ pc[r] \in Forwarding /\ r \notin canceled
  /\ canceled' = canceled \union {r}
  /\ UNCHANGED <<guarded, stats, pc, presents, key, answer, groups, lifetimeDone, closing>>

\* The context of a forwarded request ends: its client went away, its time is
\* up, its connection was closed, or the lifetime of the broker ended.
CancelRequest(r) ==
  /\ pc[r] \in Forwarding /\ r \notin canceled
  /\ canceled' = canceled \union {r}
  /\ UNCHANGED <<guarded, stats, pc, presents, key, answer, groups, lifetimeDone, closing>>

Serve(r) ==
  \/ Admit(r) \/ TurnAway(r) \/ CheckTarget(r) \/ Authorize(r) \/ ReadBody(r)
  \/ BeginForward(r) \/ Send(r) \/ Respond(r) \/ UpstreamFailure(r) \/ Relay(r)
  \/ FinishForward(r) \/ Release(r) \/ Leave(r) \/ CancelRequest(r)

-----------------------------------------------------------------------------
(* Close, and those who call it.                                           *)

\* The lifetime ends by its timeout or through the context of its owner.
EndLifetime ==
  /\ ~lifetimeDone
  /\ lifetimeDone' = TRUE
  /\ UNCHANGED <<guarded, stats, requests, groups, closing>>

\* The watcher calls Close after the lifetime, callers whenever they like.
MayClose(c) == closer[c] = "idle" /\ (c = Watcher => lifetimeDone)

BeginClose(c) ==
  /\ MayClose(c) /\ once = "unused"
  /\ once' = "running"
  /\ closed' = TRUE /\ token' = Empty /\ apiKey' = Empty
  /\ lifetimeDone' = TRUE
  /\ closer' = [closer EXCEPT ![c] = "shutting"]
  /\ UNCHANGED <<stats, requests, groups, closeErr, drain, report>>

ShutServer(c) ==
  /\ closer[c] = "shutting"
  /\ closeErr' \in BOOLEAN
  /\ drain' = "handlers"
  /\ once' = "used"
  /\ closer' = [closer EXCEPT ![c] = "waiting"]
  /\ UNCHANGED <<guarded, stats, requests, groups, lifetimeDone, report>>

JoinClose(c) ==
  /\ MayClose(c) /\ once = "used"
  /\ closer' = [closer EXCEPT ![c] = "waiting"]
  /\ UNCHANGED <<guarded, stats, requests, groups, lifetimeDone, once, closeErr, drain, report>>

\* Fault: Close waits for the forwards only.
SkipHandlers ==
  /\ drain = "handlers"
  /\ drain' = "forwards"
  /\ UNCHANGED <<guarded, stats, requests, groups, lifetimeDone, once, closeErr, closer, report>>

WaitForHandlers ==
  /\ drain = "handlers" /\ handlerWG = {}
  /\ drain' = "forwards"
  /\ UNCHANGED <<guarded, stats, requests, groups, lifetimeDone, once, closeErr, closer, report>>

WaitForForwards ==
  /\ drain = "forwards" /\ forwardWG = {}
  /\ drain' = "stamp"
  /\ UNCHANGED <<guarded, stats, requests, groups, lifetimeDone, once, closeErr, closer, report>>

Stamp ==
  /\ drain = "stamp"
  /\ drain' = "done"
  /\ stats' = [stats EXCEPT !.closedAt = TRUE]
  /\ UNCHANGED <<guarded, requests, groups, lifetimeDone, once, closeErr, closer, report>>

\* Close returns: closeDone, or the deadline of five seconds.
ReturnFromClose(c) ==
  /\ closer[c] = "waiting"
  /\ \E result \in {"ok", "error", "deadline"} :
       /\ result # "deadline" => drain = "done" /\ (result = "error" <=> closeErr)
       /\ closer' = [closer EXCEPT ![c] = result]
  /\ UNCHANGED <<guarded, stats, requests, groups, lifetimeDone, once, closeErr, drain, report>>

\* The caller reports the counters, as those of a closed broker when Close
\* returned no error and the endpoint was the pinned one.
Snapshot(c) ==
  /\ closer[c] \in {"ok", "error", "deadline"} /\ report[c].status = "none"
  /\ \E status \in {"closed", "indeterminate"} :
       /\ status = "closed" => closer[c] = "ok"
       /\ report' = [report EXCEPT ![c] = [status |-> status, stats |-> stats]]
  /\ UNCHANGED <<guarded, stats, requests, groups, lifetimeDone, once, closeErr, drain, closer>>

Shutdown ==
  \/ EndLifetime \/ WaitForHandlers \/ WaitForForwards \/ Stamp
  \/ \E c \in Closers : BeginClose(c) \/ ShutServer(c) \/ JoinClose(c) \/ ReturnFromClose(c)
  \/ \E c \in Callers : Snapshot(c)

Next == Shutdown \/ \E r \in Requests : Serve(r)

Spec == Init /\ [][Next]_vars

\* The scheduler and the runtime: handlers run; connections are shut by
\* httpServer.Close, which ends reads of a body and writes to a client; the
\* end of the lifetime reaches the context of every request, and the transport
\* gives up a request whose context is done.
Runs(r) ==
  \/ CheckTarget(r) \/ Authorize(r) \/ BeginForward(r) \/ Send(r)
  \/ UpstreamFailure(r) \/ FinishForward(r) \/ Release(r) \/ Leave(r)
  \/ once = "used" /\ (ReadBody(r) \/ Relay(r))
  \/ r \in canceled /\ Respond(r)

Settles ==
  \/ WaitForHandlers \/ WaitForForwards \/ Stamp \/ BeginClose(Watcher)
  \/ \E c \in Closers : ShutServer(c)

FairSpec ==
  /\ Spec
  /\ WF_vars(Settles)
  /\ \A r \in Requests : WF_vars(Runs(r)) /\ WF_vars(lifetimeDone /\ CancelRequest(r))

-----------------------------------------------------------------------------
(* Properties.                                                             *)

\* Type correctness of the state of Server, the handlers and those in Close.
TypeOK ==
  /\ closed \in BOOLEAN /\ token \in {Token, Empty} /\ apiKey \in {"key", Empty}
  /\ stats \in Stats
  /\ pc \in [Requests -> Serving \union {"new", "done"}]
  /\ presents \in [Requests -> {Token, OtherToken, Empty}]
  /\ key \in [Requests -> {"key", Empty}]
  /\ canceled \subseteq Requests
  /\ answer \in [Requests -> {"none", "unavailable", "rejected", "failed", "relayed"}]
  /\ handlerWG \subseteq Requests /\ forwardWG \subseteq Requests
  /\ lifetimeDone \in BOOLEAN
  /\ once \in {"unused", "running", "used"} /\ closeErr \in BOOLEAN
  /\ drain \in {"none", "handlers", "forwards", "stamp", "done"}
  /\ closer \in [Closers -> {"idle", "shutting", "waiting", "ok", "error", "deadline"}]
  /\ report \in [Callers -> [status : {"none", "closed", "indeterminate"}, stats : Stats]]

Holding == {r \in Requests : pc[r] \in Forwarding}

\* Every request that was admitted is counted once, as rejected or as
\* forwarded, or it is still being validated; every forwarded one is still in
\* progress or answered, and every failure answered and counted.  (reject,
\* beginForward and upstreamFailure lock s.mu one after the other.)
CountersMatchRequests ==
  /\ stats.received = stats.rejected + stats.forwarded
                      + Cardinality({r \in Requests : pc[r] \in Validating})
  /\ stats.forwarded = Cardinality(Holding \ {r \in Requests : pc[r] = "finish"})
                       + Cardinality({r \in Requests : answer[r] = "relayed"}) + stats.failures
  /\ stats.failures = Cardinality({r \in Requests : answer[r] = "failed"})

\* A request that was granted a forward carries the credential: beginForward
\* reads it together with closed, and Close blanks it (broker.go:970).
KeyedForwards == \A r \in Holding : key[r] = "key"

\* A report of a closed broker stays true: nothing is counted after Close
\* returned without an error, by whichever handler (roleexec.go:711-715).
ReportIsFinal ==
  \A c \in Callers : report[c].status = "closed" => report[c].stats = stats

\* The round trip that a readiness probe demands (probe.go:340).
RoundTrip(s) == s.forwarded = 1 /\ s.rejected = 0 /\ s.failures = 0 /\ s.inFlight = 0

\* A probe that reports one clean round trip saw one: exactly one request was
\* relayed in full, and every other one came after the broker closed.
SupportedMeansServed ==
  \A c \in Callers :
    report[c].status = "closed" /\ RoundTrip(report[c].stats) =>
      \E r \in Requests :
        /\ answer[r] = "relayed" /\ stats.lastStatus = "success"
        /\ \A q \in Requests \ {r} : answer[q] \in {"none", "unavailable"}

\* The broker keeps the promise about the credential (BrokerPromise).
P == INSTANCE BrokerPromise WITH
       phase <- IF stats.closedAt THEN "drained" ELSE IF closed THEN "closing" ELSE "open",
       uses <- stats.forwarded,
       holding <- Holding

PromiseKept == P!Spec

\* When the lifetime ends, by its timeout or its owner, the broker drains: no
\* handler hangs in a read, in an upstream call or in a write.
LifetimeIsBounded == lifetimeDone ~> stats.closedAt
=============================================================================
