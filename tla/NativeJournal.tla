---------------------------- MODULE NativeJournal ----------------------------
(***************************************************************************)
(* The durable journal of one native session:                              *)
(* herdr-sentinel/internal/nativejournal/journal.go.                       *)
(*                                                                         *)
(* The journal is an append-only sequence of events and the state they     *)
(* replay to.  Every writer holds the advisory lock of the journal file    *)
(* over its whole load / check / append / publish cycle, so each operation *)
(* is one step.  A refused operation and an exact retry leave the file     *)
(* untouched: both are stuttering steps here.                              *)
(*                                                                         *)
(* Who calls the journal, and with which events, is left open: Requests is *)
(* any set of events.  What is stated here is what the journal enforces on *)
(* callers it does not trust; NativeSession composes it with the real      *)
(* callers.                                                                *)
(*                                                                         *)
(* Abstracted: event times (a writer whose time is not later than the last *)
(* event is refused, and retries), the launch intent (checked on every     *)
(* load, never changed), paths, hashes and the wording of reasons.         *)
(***************************************************************************)
EXTENDS Naturals, Sequences

CONSTANTS
  Ids,          \* event identifiers
  OtherKinds,   \* event kinds to which the journal gives no meaning
  Hosts,        \* complete host bindings (workspace, pane and terminal)
  NoHost,       \* an event without a host binding
  Reasons,      \* the non-blank reasons callers give
  NoReason,     \* an event without a reason
  Requests      \* the events callers submit

PreparedId == "native-journal-prepared"

TerminalStates == {"completed", "failed", "canceled"}

States == {"prepared", "dispatching", "submitted", "running",
           "cancel-requested", "indeterminate"} \union TerminalStates

\* Pre-start cancellation evidence: the session is over and no child ran.
PreStartKinds == {"wrapper-canceled-before-start",
                  "provider-canceled-before-claim",
                  "provider-canceled-before-start"}

JournalKinds == {"journal-created", "wrapper-claim", "host-dispatch-ack",
                 "wrapper-started", "wrapper-terminal"} \union PreStartKinds

Kinds == JournalKinds \union OtherKinds

(***************************************************************************)
(* exit: the exit code, if one is given.  digests: the digests of the      *)
(* captured stdout and stderr are given.                                   *)
(***************************************************************************)
Event == [id      : Ids \union {PreparedId},
          kind    : Kinds,
          state   : States,
          host    : Hosts \union {NoHost},
          reason  : Reasons \union {NoReason},
          exit    : {"none", "zero", "nonzero"},
          digests : BOOLEAN]

ASSUME JournalAssumption ==
  /\ PreparedId \notin Ids
  /\ OtherKinds \intersect JournalKinds = {}
  /\ NoHost \notin Hosts
  /\ NoReason \notin Reasons
  /\ Requests \subseteq {e \in Event : e.id \in Ids}

VARIABLES
  events,   \* the published events; <<>> before the journal exists
  state     \* the state they replay to

journalVars == <<events, state>>

-----------------------------------------------------------------------------
(* What appendRecord checks of one event.                                  *)

Has(evs, kind) == \E i \in DOMAIN evs : evs[i].kind = kind

HasId(evs, id) == \E i \in DOMAIN evs : evs[i].id = id

Explained(e) == e.reason # NoReason

\* The event is well formed on its own.
ValidEvent(e) ==
  /\ e.state = "canceled" =>
       Explained(e) /\ e.kind \in PreStartKinds \union {"wrapper-terminal"}
  /\ e.kind \in PreStartKinds =>
       e.state = "canceled" /\ e.exit = "none" /\ ~e.digests
  /\ e.exit # "none" \/ e.digests => e.state \in TerminalStates
  /\ e.kind = "wrapper-terminal" =>
       /\ e.state \in TerminalStates /\ e.exit # "none" /\ e.digests
       /\ e.state = "completed" => e.exit = "zero"
       /\ e.state = "failed" => e.exit = "nonzero"

\* A binding, once recorded, is the binding of every later event: the event is
\* compared with the latest one that carries a binding.
HostBindingHolds(evs, e) ==
  \/ e.host = NoHost
  \/ \A i \in DOMAIN evs :
       \/ evs[i].host \in {NoHost, e.host}
       \/ \E j \in DOMAIN evs : i < j /\ evs[j].host # NoHost

\* Fault: the claim is not looked for before a pre-claim settlement.
StateOnlyEvidence(evs, current, e) ==
  e.kind \in {"provider-canceled-before-claim", "provider-canceled-before-start"} =>
    current = "cancel-requested"

\* Pre-start cancellation recorded by the provider needs a requested
\* cancellation and a journal that proves the wrapper got no further.
CancellationEvidence(evs, current, e) ==
  /\ e.kind = "provider-canceled-before-start" =>
       /\ current = "cancel-requested"
       /\ \A i \in DOMAIN evs : /\ evs[i].kind # "wrapper-started"
                                /\ evs[i].state \notin TerminalStates
       /\ Has(evs, "wrapper-claim")
  /\ e.kind = "provider-canceled-before-claim" =>
       current = "cancel-requested" /\ ~Has(evs, "wrapper-claim")

\* The acknowledgement of a dispatch may arrive after the session moved on:
\* it is recorded without changing the state.
HostAck(e) == e.kind = "host-dispatch-ack"

AdmitsAck(current, e) ==
  /\ e.state = "submitted"
  /\ current \in {"dispatching", "submitted", "running", "cancel-requested",
                  "indeterminate"}

\* A start observed after a cancellation request does not withdraw the request.
LateStart(current, e) ==
  /\ current = "cancel-requested"
  /\ e.kind = "wrapper-started"
  /\ e.state = "running"

WrapperCancels(e) ==
  e.kind \in {"wrapper-terminal", "wrapper-canceled-before-start"}

\* The transition table of nextState.
Admits(current, e) ==
  \/ current = "prepared" /\ \/ e.state = "dispatching"
                             \/ e.state \in {"failed", "indeterminate"} /\ Explained(e)
  \/ current = "dispatching" /\ \/ e.state = "submitted" /\ e.kind = "wrapper-claim"
                                \/ e.state \in {"cancel-requested", "indeterminate", "failed"}
  \/ current = "submitted" /\ \/ e.state = "running" /\ e.kind = "wrapper-started"
                              \/ e.state \in {"cancel-requested", "indeterminate"}
                              \/ e.state = "failed" /\ Explained(e)
  \/ current = "running" /\ \/ e.state \in {"completed", "failed", "cancel-requested", "indeterminate"}
                            \/ e.state = "canceled" /\ WrapperCancels(e) /\ Explained(e)
  \/ current = "cancel-requested" /\ \/ e.state \in {"running", "completed", "failed", "indeterminate"}
                                     \/ /\ e.state = "canceled" /\ Explained(e)
                                        /\ e.kind \in PreStartKinds \union {"wrapper-terminal"}
  \/ current = "indeterminate" /\ Explained(e) /\
       \/ e.state \in {"indeterminate", "running", "completed", "failed"}
       \/ e.state = "canceled" /\ WrapperCancels(e)

\* Fault: terminal states are not immutable.
TransitionFromAnyState(current, e) ==
  IF HostAck(e) THEN AdmitsAck(current, e)
  ELSE \/ LateStart(current, e) \/ Admits(current, e)
       \/ current \in TerminalStates

Transition(current, e) ==
  /\ current \notin TerminalStates
  /\ IF HostAck(e) THEN AdmitsAck(current, e)
                   ELSE LateStart(current, e) \/ Admits(current, e)

\* Fault: an acknowledgement regresses the session to submitted.
AckMovesState(current, e) ==
  IF LateStart(current, e) THEN current ELSE e.state

NextState(current, e) ==
  IF HostAck(e) \/ LateStart(current, e) THEN current ELSE e.state

\* Nothing stands in the way of recording the event.
Admissible(e) ==
  /\ ValidEvent(e)
  /\ ~HasId(events, e.id)
  /\ HostBindingHolds(events, e)
  /\ CancellationEvidence(events, state, e)
  /\ Transition(state, e)

\* An exact retry, or an acknowledgement that arrives after the verdict.
NothingToDo(e) ==
  \/ \E i \in DOMAIN events : events[i] = e
  \/ /\ ValidEvent(e) /\ ~HasId(events, e.id) /\ HostBindingHolds(events, e)
     /\ state \in TerminalStates /\ HostAck(e) /\ e.state = "submitted"

\* The three outcomes of appendRecord: only "refused" is an error.
Outcome(e) ==
  IF Admissible(e) THEN "appended"
  ELSE IF NothingToDo(e) THEN "unchanged" ELSE "refused"

-----------------------------------------------------------------------------
Init == events = <<>> /\ state = "absent"

PreparedEvent ==
  [id |-> PreparedId, kind |-> "journal-created", state |-> "prepared",
   host |-> NoHost, reason |-> NoReason, exit |-> "none", digests |-> FALSE]

\* Create publishes by link: an existing journal is never replaced.
Create ==
  /\ events = <<>>
  /\ events' = <<PreparedEvent>>
  /\ state' = "prepared"

Publish(e) ==
  /\ events' = Append(events, e)
  /\ state' = NextState(state, e)

\* Append records any event but the two that authorise an execution.
AppendEvent(e) ==
  /\ events # <<>>
  /\ e.kind \notin {"wrapper-claim", "wrapper-started"}
  /\ Outcome(e) = "appended"
  /\ Publish(e)

\* ClaimExecution: the dispatching -> submitted transition, at most once.
CanClaim ==
  /\ events # <<>>
  /\ ~Has(events, "wrapper-claim")
  /\ state = "dispatching"

ClaimExecution(e) ==
  /\ e.kind = "wrapper-claim" /\ e.state = "submitted"
  /\ CanClaim
  /\ Outcome(e) = "appended"
  /\ Publish(e)

\* Fault: the start is granted by state alone, a late start included.
CanStartByState ==
  /\ events # <<>>
  /\ state \in {"submitted", "cancel-requested"}

\* StartExecution: the submitted -> running transition, at most once.
CanStart ==
  /\ events # <<>>
  /\ ~Has(events, "wrapper-started")
  /\ state = "submitted"

StartExecution(e) ==
  /\ e.kind = "wrapper-started" /\ e.state = "running"
  /\ CanStart
  /\ Outcome(e) = "appended"
  /\ Publish(e)

Next ==
  \/ Create
  \/ \E e \in Requests : AppendEvent(e)
  \/ \E e \in Requests : ClaimExecution(e)
  \/ \E e \in Requests : StartExecution(e)

Spec == Init /\ [][Next]_journalVars

-----------------------------------------------------------------------------
TypeOK ==
  /\ events \in Seq(Event)
  /\ state \in States \union {"absent"}
  /\ (events = <<>>) = (state = "absent")

AtMostOne(kind) ==
  \A i, j \in DOMAIN events :
    events[i].kind = kind /\ events[j].kind = kind => i = j

(***************************************************************************)
(* Whatever the callers submit, one execution is authorised at most: there *)
(* is one claim and one start, and the start follows the claim             *)
(* (ClaimExecution, StartExecution).                                       *)
(***************************************************************************)
OneLaunch ==
  /\ AtMostOne("wrapper-claim")
  /\ AtMostOne("wrapper-started")
  /\ \A i \in DOMAIN events : events[i].kind = "wrapper-started" =>
       \E j \in DOMAIN events : j < i /\ events[j].kind = "wrapper-claim"

(***************************************************************************)
(* Pre-start cancellation evidence recorded by the provider is true of the *)
(* whole journal, of the events before it and of every event that may      *)
(* still come: "before claim" excludes a claim, and "before start" follows *)
(* a claim and excludes a start (validateCancellationEvidence).            *)
(***************************************************************************)
PreStartEvidenceHolds ==
  /\ Has(events, "provider-canceled-before-claim") =>
       ~Has(events, "wrapper-claim") /\ ~Has(events, "wrapper-started")
  /\ Has(events, "provider-canceled-before-start") =>
       Has(events, "wrapper-claim") /\ ~Has(events, "wrapper-started")

(***************************************************************************)
(* A session has one verdict: the journal is in a terminal state exactly   *)
(* when its last event is terminal, and no earlier event is (nextState and *)
(* the silent drop of a late acknowledgement).                             *)
(***************************************************************************)
OneVerdict ==
  \A i \in DOMAIN events :
    events[i].state \in TerminalStates =>
      i = Len(events) /\ state = events[i].state

(***************************************************************************)
(* The caller may retry: an event identifier names one event for ever.     *)
(***************************************************************************)
DistinctIds ==
  \A i, j \in DOMAIN events : events[i].id = events[j].id => i = j

(***************************************************************************)
(* A journal at rest before the claim cannot hide a launch: while a claim  *)
(* may still be granted no start was recorded, and while a start may still *)
(* be granted there is a claim and no cancellation request.                *)
(***************************************************************************)
GrantsAreFresh ==
  /\ CanClaim => ~Has(events, "wrapper-started")
  /\ CanStart => /\ Has(events, "wrapper-claim")
                 /\ \A i \in DOMAIN events : events[i].state # "cancel-requested"
=============================================================================
