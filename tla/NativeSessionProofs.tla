------------------------- MODULE NativeSessionProofs -------------------------
(***************************************************************************)
(* What NativeSession guarantees, for any sets of wrappers, cancelers and  *)
(* recoverers, with an execution lease and without.                        *)
(*                                                                         *)
(* The argument.  One inductive invariant, IInv, says in eight parts what  *)
(* the journal rules out (JournalInv), where each process can be           *)
(* (LabelInv), what precedes the delivery of the command (DeliveryInv),    *)
(* that one wrapper at most is past the granted start, and what its child  *)
(* has come to (ChildInv), who holds the lease (HolderInv) and what it     *)
(* protects (LeaseInv), that a verdict is about the child (VerdictInv),    *)
(* and what the readers of the verdict have seen of it (ReaderInv).  A     *)
(* step of the journal is the grant of one event; the other seven parts    *)
(* see of it only what GrantEffect states, so that sequences appear in the *)
(* proofs about the journal alone.                                         *)
(***************************************************************************)
EXTENDS NativeSession, TLAPS

-----------------------------------------------------------------------------
(* The inductive invariant.                                                *)

LastEvent == events[Len(events)]

\* Before the claim nothing was started; a request of cancellation precedes no
\* start; a terminal state is that of the last event.
JournalInv ==
  /\ events \in Seq(Calls \union {J!PreparedEvent})
  /\ state \in J!States \union {"absent"}
  /\ events = <<>> <=> state = "absent"
  /\ state \in {"absent", "prepared", "dispatching"} => ~Claimed
  /\ state \in {"absent", "prepared", "dispatching", "submitted"} =>
       ~Started /\ ~CancelRequested
  /\ Started \/ state = "submitted" => Claimed
  /\ \A i, j \in DOMAIN events :
       events[i].kind = "provider-cancel" /\ events[j].kind = "wrapper-started" => j < i
  /\ state \in TerminalStates => LastEvent.state = state

\* Where the spawner has not sent the command.
BeforeDelivery ==
  {"create", "mkdir", "workspace", "reconcile", "reserve", "run", "roleWorkspaceFailed",
   "createReconciled", "createUncertain", "createFailed", "createInvalid", "dispatchRejected"}

\* From the grant of the start on.
AfterStart == {"receipt", "receiptRejected", "precheck", "launch", "wait", "beforeStart", "exited",
               "outcomeUnknown", "completed", "failed", "canceledZero", "canceledNonzero"}

\* Where a wrapper records the exit of its child.
Concluding == {"completed", "failed", "canceledZero", "canceledNonzero"}

\* Where a wrapper is not authorised yet, or finished.
Waiting == {"idle", "lease", "reload", "done"}

WrapperLabels ==
  Waiting \union AfterStart \union
  {"validate", "claim", "claimError", "claimUncertain", "outputs", "start",
   "startUncertain", "setupFailed"}

CancelerLabels ==
  {"idle", "requestEarly", "reloadEarly", "lease", "recheck", "settle", "verify",
   "verifyClaimed", "request", "confirm", "interrupt", "done"}

RecovererLabels ==
  {"idle", "lease", "reload", "list", "pane", "bound", "unbound", "hostUncertain",
   "markLost", "settleUnclaimed", "settleUnstarted"}

\* Every process is at a label of its own program.
LabelInv ==
  /\ DOMAIN pc = Procs
  /\ pc[Spawner] \in BeforeDelivery \union {"dispatchAck", "done"}
  /\ \A w \in Wrappers : pc[w] \in WrapperLabels
  /\ \A c \in Cancelers : pc[c] \in CancelerLabels
  /\ \A r \in Recoverers : pc[r] \in RecovererLabels
  /\ child \in [Wrappers -> {"none", "running", "zero", "nonzero"}]
  /\ interrupted \in [Wrappers -> BOOLEAN]

\* No wrapper runs before the command is sent.
DeliveryInv ==
  /\ pc[Spawner] \in BeforeDelivery => ~delivered
  /\ ~delivered => \A w \in Wrappers : pc[w] = "idle"
  /\ pc[Spawner] \in {"create", "mkdir", "workspace"} => workspace = "absent"

\* The wrapper was granted the start, or its child outlived it.
Launching(w) == pc[w] \in AfterStart \/ child[w] # "none"

\* One wrapper launches, and knows what became of its child.
ChildInv ==
  /\ \A w \in Wrappers : Launching(w) => Started
  /\ \A v, w \in Wrappers : Launching(v) /\ Launching(w) => v = w
  /\ \A w \in Wrappers :
       /\ child[w] # "none" =>
            pc[w] \in {"wait", "exited", "outcomeUnknown", "done"} \union Concluding
       /\ pc[w] = "wait" => child[w] # "none"
       /\ pc[w] \in {"exited", "outcomeUnknown"} => child[w] \in {"zero", "nonzero"}
       /\ pc[w] \in {"completed", "canceledZero"} => child[w] = "zero"
       /\ pc[w] \in {"failed", "canceledNonzero"} => child[w] = "nonzero"
       /\ pc[w] = "completed" => ~interrupted[w]

\* Who is at work holds the lease.
HolderInv ==
  Leased =>
    /\ \A w \in Wrappers : pc[w] \notin {"idle", "lease", "done"} => lease = w
    /\ \A c \in Cancelers : pc[c] \in {"recheck", "settle"} => lease = c
    /\ \A r \in Recoverers : pc[r] \notin {"idle", "lease"} => lease = r

\* What the holder of the lease found stays true under it.
LeaseInv ==
  Leased =>
    \A w \in Wrappers :
      /\ pc[w] \in {"validate", "claim", "outputs", "start"} => ~Started
      /\ pc[w] = "setupFailed" => \A v \in Wrappers : child[v] = "none"
      /\ pc[w] \in Concluding => outputs = "captured"

\* A verdict of the wrapper is the exit of its child, any other verdict is about
\* a session without a child; the failed set-up of a wrapper needs the lease.
VerdictInv ==
  state \in TerminalStates =>
    /\ LastEvent.kind = "wrapper-terminal" =>
         \E w \in Wrappers : /\ child[w] = LastEvent.exit
                             /\ state = "completed" => ~interrupted[w]
    /\ Leased \/ LastEvent.kind # "wrapper-setup-failed" =>
         \A w \in Wrappers :
           /\ pc[w] \notin AfterStart /\ child[w] # "running"
           /\ LastEvent.kind # "wrapper-terminal" => child[w] = "none"
    /\ Leased /\ LastEvent.kind = "wrapper-terminal" =>
         /\ outputs = "captured"
         /\ \A w \in Wrappers : pc[w] \in Waiting

\* The receipt and the workspace follow the verdict.
ReaderInv ==
  /\ collected # "none" => state \in TerminalStates /\ collected = state
  /\ workspace = "closed" => Settled

IInv ==
  /\ JournalInv
  /\ LabelInv
  /\ DeliveryInv
  /\ ChildInv
  /\ HolderInv
  /\ LeaseInv
  /\ VerdictInv
  /\ ReaderInv

\* All of it but the journal.
StateInv ==
  /\ LabelInv
  /\ DeliveryInv
  /\ ChildInv
  /\ HolderInv
  /\ LeaseInv
  /\ VerdictInv
  /\ ReaderInv

-----------------------------------------------------------------------------
(* The events the processes submit.                                        *)

LEMMA SpawnDomain ==
  DOMAIN SpawnEvents =
    {"roleWorkspaceFailed", "createReconciled", "createUncertain", "createFailed",
     "createInvalid", "dispatchRejected", "dispatchAck"}
BY DEF SpawnEvents

LEMMA WrapperDomain ==
  DOMAIN WrapperEvents =
    {"claimUncertain", "startUncertain", "receiptRejected", "setupFailed", "beforeStart",
     "outcomeUnknown", "completed", "failed", "canceledZero", "canceledNonzero"}
BY DEF WrapperEvents

LEMMA SettlingDomain ==
  DOMAIN SettlingEvents =
    {"settle", "settleUnclaimed", "settleUnstarted", "markLost", "unbound", "bound",
     "hostUncertain"}
BY DEF SettlingEvents

LEMMA EventTables ==
  /\ DOMAIN FinalEvent =
       DOMAIN SpawnEvents \union DOMAIN WrapperEvents \union DOMAIN SettlingEvents
  /\ \A label \in DOMAIN SpawnEvents : FinalEvent[label] = SpawnEvents[label]
  /\ \A label \in DOMAIN WrapperEvents : FinalEvent[label] = WrapperEvents[label]
  /\ \A label \in DOMAIN SettlingEvents : FinalEvent[label] = SettlingEvents[label]
<1>1. /\ DOMAIN SpawnEvents \cap DOMAIN WrapperEvents = {}
      /\ DOMAIN SpawnEvents \cap DOMAIN SettlingEvents = {}
      /\ DOMAIN WrapperEvents \cap DOMAIN SettlingEvents = {}
  BY SpawnDomain, WrapperDomain, SettlingDomain
<1>2. QED
  BY <1>1, Zenon DEF FinalEvent

LEMMA LastLabels ==
  DOMAIN FinalEvent =
    {"roleWorkspaceFailed", "createReconciled", "createUncertain", "createFailed",
     "createInvalid", "dispatchRejected", "dispatchAck", "claimUncertain", "startUncertain",
     "receiptRejected", "setupFailed", "beforeStart", "outcomeUnknown", "completed", "failed",
     "canceledZero", "canceledNonzero", "settle", "settleUnclaimed", "settleUnstarted",
     "markLost", "unbound", "bound", "hostUncertain"}
BY SpawnDomain, WrapperDomain, SettlingDomain, EventTables

\* Which of the last events is what: read off the table once and for all.
LEMMA FinalEvents ==
  ASSUME NEW label \in DOMAIN FinalEvent
  PROVE  LET e == FinalEvent[label] IN
         /\ e \in Calls
         /\ e.kind \notin {"wrapper-claim", "wrapper-started", "provider-cancel"}
         /\ e.state \in J!States
         /\ e.state \in TerminalStates <=>
              label \in {"roleWorkspaceFailed", "createFailed", "dispatchRejected",
                         "receiptRejected", "setupFailed", "beforeStart", "settle",
                         "settleUnclaimed", "settleUnstarted"} \union Concluding
         /\ e.kind = "wrapper-terminal" <=> label \in Concluding
         /\ label \in {"completed", "canceledZero"} => e.exit = "zero"
         /\ label \in {"failed", "canceledNonzero"} => e.exit = "nonzero"
         /\ e.state = "completed" <=> label = "completed"
         /\ e.kind = "wrapper-setup-failed" <=> label \in {"receiptRejected", "setupFailed"}
         /\ e.kind = "wrapper-canceled-before-start" <=> label = "beforeStart"
         /\ e.kind = "provider-canceled-before-claim" <=> label \in {"settle", "settleUnclaimed"}
         /\ e.kind = "provider-canceled-before-start" <=> label = "settleUnstarted"
         /\ e.kind = "provider-recovery" <=>
              label \in {"markLost", "unbound", "bound", "hostUncertain"}
<1> DEFINE e == FinalEvent[label]
<1>1. e \in Calls
  BY DEF Calls
<1>2. CASE label \in {"roleWorkspaceFailed", "createReconciled", "createUncertain",
     "createFailed", "createInvalid", "dispatchRejected", "dispatchAck"}
  BY <1>1, <1>2, SpawnDomain, EventTables DEF SpawnEvents, Call, Conclusion, J!States,
     TerminalStates, J!TerminalStates, Concluding
<1>3. CASE label \in {"claimUncertain", "startUncertain", "receiptRejected", "setupFailed",
     "beforeStart", "outcomeUnknown"}
  BY <1>1, <1>3, WrapperDomain, EventTables DEF WrapperEvents, Call, Conclusion, J!States,
     TerminalStates, J!TerminalStates, Concluding
<1>4. CASE label \in {"completed", "failed", "canceledZero", "canceledNonzero"}
  BY <1>1, <1>4, WrapperDomain, EventTables DEF WrapperEvents, Call, Conclusion, J!States,
     TerminalStates, J!TerminalStates, Concluding
<1>5. CASE label \in {"settle", "settleUnclaimed", "settleUnstarted", "markLost", "unbound",
     "bound", "hostUncertain"}
  BY <1>1, <1>5, SettlingDomain, EventTables DEF SettlingEvents, Call, Conclusion, J!States,
     TerminalStates, J!TerminalStates, Concluding
<1>6. QED
  BY <1>2, <1>3, <1>4, <1>5, LastLabels

LEMMA RequestFacts ==
  /\ Reservation.kind = "provider-dispatch" /\ Reservation.state = "dispatching"
  /\ Claim.kind = "wrapper-claim" /\ Claim.state = "submitted"
  /\ Start.kind = "wrapper-started" /\ Start.state = "running"
  /\ EarlyRequest.kind = "provider-cancel" /\ EarlyRequest.state = "cancel-requested"
  /\ LateRequest.kind = "provider-cancel" /\ LateRequest.state = "cancel-requested"
  /\ {Reservation, Claim, Start, EarlyRequest, LateRequest} \subseteq Calls
<1>1. {Reservation, Claim, Start, EarlyRequest, LateRequest} \subseteq Calls
  BY DEF Calls
<1>2. QED
  BY <1>1 DEF Reservation, Claim, Start, EarlyRequest, LateRequest, Call

LEMMA CallFacts ==
  ASSUME NEW e \in Calls
  PROVE  /\ e.state \in J!States
         /\ e.kind = "provider-cancel" => e.state = "cancel-requested"
         /\ e.kind = "wrapper-claim" => e.state = "submitted"
         /\ e.kind = "wrapper-started" => e.state = "running"
         /\ e.state = "completed" => e.kind = "wrapper-terminal" /\ e.exit = "zero"
<1>1. CASE e \in {Reservation, Claim, Start, EarlyRequest, LateRequest}
  BY <1>1, RequestFacts DEF J!States
<1>2. ASSUME NEW label \in DOMAIN FinalEvent, e = FinalEvent[label]
      PROVE  /\ e.state \in J!States
             /\ e.kind \notin {"wrapper-claim", "wrapper-started", "provider-cancel"}
             /\ e.state = "completed" => e.kind = "wrapper-terminal" /\ e.exit = "zero"
  BY <1>2, FinalEvents DEF Concluding
<1>3. QED
  BY <1>1, <1>2 DEF Calls

\* What a wrapper concludes from the exit of its child.
LEMMA Conclusions ==
  ASSUME NEW e \in Calls, e.kind = "wrapper-terminal"
  PROVE  \/ e.exit = "zero" /\ e.state \in {"completed", "canceled"}
         \/ e.exit = "nonzero" /\ e.state \in {"failed", "canceled"}
<1>1. PICK label \in DOMAIN FinalEvent : e = FinalEvent[label]
  BY RequestFacts DEF Calls
<1>2. label \in Concluding
  BY <1>1, FinalEvents
<1>3. QED
  BY <1>1, <1>2, WrapperDomain, EventTables DEF WrapperEvents, Conclusion, Concluding

-----------------------------------------------------------------------------
(* The journal.                                                            *)

LEMMA Journals ==
  ASSUME JournalInv
  PROVE  /\ Len(events) \in Nat
         /\ DOMAIN events = 1 .. Len(events)
         /\ events # <<>> => Len(events) # 0 /\ Len(events) \in DOMAIN events
BY DEF JournalInv

LEMMA Published ==
  ASSUME JournalInv, NEW e \in Calls, J!Publish(e)
  PROVE  /\ events' \in Seq(Calls \union {J!PreparedEvent})
         /\ events' # <<>>
         /\ DOMAIN events' = DOMAIN events \union {Len(events')}
         /\ Len(events') = Len(events) + 1
         /\ \A i \in DOMAIN events : events'[i] = events[i] /\ i < Len(events')
         /\ LastEvent' = e
         /\ events'[Len(events')] = e
BY Journals DEF JournalInv, J!Publish, LastEvent

LEMMA PublishedKinds ==
  ASSUME JournalInv, NEW e \in Calls, J!Publish(e)
  PROVE  /\ Claimed' <=> Claimed \/ e.kind = "wrapper-claim"
         /\ Started' <=> Started \/ e.kind = "wrapper-started"
         /\ CancelRequested' <=> CancelRequested \/ e.kind = "provider-cancel"
BY Published DEF Claimed, Started, CancelRequested, J!Has

\* What the journal grants to the processes.
Grant(e) ==
  /\ e.kind = "wrapper-claim" => J!CanClaim
  /\ e.kind = "wrapper-started" => J!CanStart
  /\ J!Admissible(e)
  /\ J!Publish(e)

LEMMA GrantStates ==
  ASSUME JournalInv, NEW e \in Calls, Grant(e)
  PROVE  /\ state \in J!States \ TerminalStates
         /\ state' \in J!States
         /\ state' \in TerminalStates => state' = e.state
         /\ e.state \in TerminalStates => state' = e.state
         /\ state' \in {"prepared", "dispatching"} => e.kind # "wrapper-claim" /\
              state \in {"absent", "prepared", "dispatching"}
         /\ state' \in {"prepared", "dispatching", "submitted"} =>
              /\ e.kind \notin {"wrapper-started", "provider-cancel"}
              /\ state \in {"absent", "prepared", "dispatching", "submitted"}
         /\ state' = "submitted" => state = "submitted" \/ e.kind = "wrapper-claim"
BY CallFacts DEF JournalInv, Grant, J!Admissible, J!Publish, J!Transition, J!AdmitsAck,
   J!LateStart, J!Admits, J!NextState, J!HostAck, J!TerminalStates, TerminalStates, J!States,
   J!CanClaim, J!CanStart, Claim, Start, Call

LEMMA GrantJournalInv ==
  ASSUME JournalInv, NEW e \in Calls, Grant(e)
  PROVE  JournalInv'
<1>1. J!Publish(e)
  BY DEF Grant
<1>2. /\ events' \in Seq(Calls \union {J!PreparedEvent})
      /\ events' # <<>>
      /\ state' \in J!States
      /\ state' # "absent"
  BY <1>1, Published, GrantStates DEF J!States, J!TerminalStates
<1>3. state' \in {"absent", "prepared", "dispatching"} => ~Claimed'
  BY <1>1, PublishedKinds, GrantStates, <1>2 DEF JournalInv
<1>4. state' \in {"absent", "prepared", "dispatching", "submitted"} =>
        ~Started' /\ ~CancelRequested'
  BY <1>1, PublishedKinds, GrantStates, <1>2 DEF JournalInv
<1>5. e.kind = "wrapper-started" => ~CancelRequested /\ ~Started
  BY DEF Grant, J!CanStart, JournalInv
<1>6. (Started \/ state = "submitted" => Claimed)'
  <2>1. e.kind = "wrapper-started" => state = "submitted"
    BY DEF Grant, J!CanStart
  <2>2. QED
    BY <1>1, <2>1, PublishedKinds, GrantStates DEF JournalInv
<1>7. (\A i, j \in DOMAIN events :
        events[i].kind = "provider-cancel" /\ events[j].kind = "wrapper-started" => j < i)'
  BY <1>1, <1>5, Published DEF JournalInv, CancelRequested, J!Has
<1>8. (state \in TerminalStates => LastEvent.state = state)'
  BY <1>1, GrantStates, Published
<1>9. QED
  BY <1>2, <1>3, <1>4, <1>6, <1>7, <1>8 DEF JournalInv

\* appendEvent publishes what is admissible and leaves the journal alone otherwise.
LEMMA SubmitIsGrant ==
  ASSUME JournalInv, NEW e \in Calls, Submit(e),
         e.kind \notin {"wrapper-claim", "wrapper-started"}
  PROVE  /\ UNCHANGED journal \/ Grant(e)
         /\ J!Outcome(e) = "refused" => UNCHANGED journal
BY DEF Submit, J!Outcome, Grant, J!Admissible

\* What the rest of the session sees of a granted event.
LEMMA GrantEffect ==
  ASSUME JournalInv, NEW e \in Calls, Grant(e)
  PROVE  /\ state \notin TerminalStates
         /\ state' \in TerminalStates => state' = e.state
         /\ e.state \in TerminalStates => state' = e.state
         /\ LastEvent' = e
         /\ Claimed' <=> Claimed \/ e.kind = "wrapper-claim"
         /\ Started' <=> Started \/ e.kind = "wrapper-started"
BY GrantStates, Published, PublishedKinds DEF Grant

LEMMA RecordEffect ==
  ASSUME IInv, NEW p \in Procs, Record(p)
  PROVE  LET e == FinalEvent[pc[p]] IN
         /\ pc[p] \in DOMAIN FinalEvent
         /\ e \in Calls
         /\ UNCHANGED journal \/ Grant(e)
BY SubmitIsGrant, FinalEvents DEF Record, IInv

-----------------------------------------------------------------------------
(* Every step keeps the invariant, process by process.                     *)

\* A last event that was published before, or refused.
LEMMA UnchangedRecord ==
  ASSUME IInv, NEW p \in Procs, Record(p), UNCHANGED journal
  PROVE  StateInv'
BY SessionAssumption, LastLabels
   DEF Record, Go, Rest, Procs, Resting, journal, processes, host, files, IInv, StateInv,
       LabelInv, DeliveryInv, ChildInv, HolderInv, LeaseInv, VerdictInv, ReaderInv,
       Waiting, AfterStart, WrapperLabels, Concluding, CancelerLabels, RecovererLabels,
       BeforeDelivery, Launching, Leased, LastEvent, Started, Settled, TerminalStates,
       J!TerminalStates

\* The verdicts of wrappers.
LEMMA WrapperRecord ==
  ASSUME IInv, NEW w \in Wrappers, Record(w), Grant(FinalEvent[pc[w]])
  PROVE  StateInv'
<1> DEFINE e == FinalEvent[pc[w]]
<1>1. pc[w] \in DOMAIN FinalEvent /\ e \in Calls
  BY RecordEffect DEF Procs
<1>2. /\ state \notin TerminalStates
      /\ state' \in TerminalStates => state' = e.state
      /\ e.state \in TerminalStates => state' = e.state
      /\ LastEvent' = e
      /\ Started' <=> Started
  BY <1>1, GrantEffect, FinalEvents DEF IInv
<1>3. /\ e.state \in TerminalStates =>
           pc[w] \in {"roleWorkspaceFailed", "createFailed", "dispatchRejected",
                      "receiptRejected", "setupFailed", "beforeStart", "settle",
                      "settleUnclaimed", "settleUnstarted"} \union Concluding
      /\ e.kind = "wrapper-terminal" <=> pc[w] \in Concluding
      /\ pc[w] \in {"completed", "canceledZero"} => e.exit = "zero"
      /\ pc[w] \in {"failed", "canceledNonzero"} => e.exit = "nonzero"
      /\ e.state = "completed" => pc[w] = "completed"
      /\ e.kind = "wrapper-setup-failed" <=> pc[w] \in {"receiptRejected", "setupFailed"}
  BY <1>1, FinalEvents
<1> HIDE DEF e
<1>4. QED
  BY <1>1, <1>2, <1>3, SessionAssumption, LastLabels
     DEF Record, Go, Rest, Procs, Resting, processes, host, files, IInv, StateInv,
         LabelInv, DeliveryInv, ChildInv, HolderInv, LeaseInv, VerdictInv, ReaderInv,
         Waiting, AfterStart, WrapperLabels, Concluding, CancelerLabels, RecovererLabels,
         BeforeDelivery, Launching, Leased, Settled, TerminalStates, J!TerminalStates

\* The verdicts of the others.
LEMMA OtherRecord ==
  ASSUME IInv, NEW p \in Procs \ Wrappers, Record(p), Grant(FinalEvent[pc[p]]),
         FinalEvent[pc[p]].state \in TerminalStates => \A w \in Wrappers : ~Launching(w)
  PROVE  StateInv'
<1> DEFINE e == FinalEvent[pc[p]]
<1>1. pc[p] \in DOMAIN FinalEvent /\ e \in Calls
  BY RecordEffect DEF Procs
<1>2. /\ state \notin TerminalStates
      /\ state' \in TerminalStates => state' = e.state
      /\ e.state \in TerminalStates => state' = e.state
      /\ LastEvent' = e
      /\ Started' <=> Started
  BY <1>1, GrantEffect, FinalEvents DEF IInv
<1>3. e.kind # "wrapper-terminal"
  <2>1. pc[p] \notin Concluding
    BY SessionAssumption
       DEF Procs, IInv, LabelInv, Concluding, CancelerLabels, RecovererLabels, BeforeDelivery
  <2>2. QED
    BY <1>1, <2>1, FinalEvents
<1>4. e.state \in TerminalStates => \A w \in Wrappers : ~Launching(w)
  OBVIOUS
<1> HIDE DEF e
<1>5. QED
  BY <1>1, <1>2, <1>3, <1>4, SessionAssumption, LastLabels
     DEF Record, Go, Rest, Procs, Resting, processes, host, files, IInv, StateInv,
         LabelInv, DeliveryInv, ChildInv, HolderInv, LeaseInv, VerdictInv, ReaderInv,
         Waiting, AfterStart, WrapperLabels, Concluding, CancelerLabels, RecovererLabels,
         BeforeDelivery, Launching, Leased, Settled, TerminalStates, J!TerminalStates

\* Who settles a session that was not started finds no wrapper past its start.
LEMMA Unstarted ==
  ASSUME IInv, ~Started \/ ~delivered
  PROVE  \A w \in Wrappers : ~Launching(w)
BY DEF IInv, ChildInv, DeliveryInv, Launching, AfterStart, Concluding

LEMMA SpawnerRecords ==
  ASSUME IInv, Record(Spawner)
  PROVE  StateInv'
<1>1. FinalEvent[pc[Spawner]].state \in TerminalStates => ~delivered
  BY FinalEvents DEF Record, IInv, LabelInv, DeliveryInv, BeforeDelivery, Concluding
<1>2. QED
  BY <1>1, Unstarted, RecordEffect, UnchangedRecord, OtherRecord, SessionAssumption DEF Procs

LEMMA CancelerRecords ==
  ASSUME IInv, NEW c \in Cancelers, Record(c)
  PROVE  StateInv'
<1>1. pc[c] = "settle"
  BY LastLabels DEF Record, IInv, LabelInv, CancelerLabels
<1>2. ASSUME Grant(FinalEvent[pc[c]]) PROVE ~Started
  BY <1>1, <1>2, RecordEffect, FinalEvents
     DEF Procs, Grant, J!Admissible, J!CancellationEvidence, IInv, JournalInv, Claimed
<1>3. QED
  BY <1>2, Unstarted, RecordEffect, UnchangedRecord, OtherRecord, SessionAssumption DEF Procs

LEMMA RecovererRecords ==
  ASSUME IInv, NEW r \in Recoverers, Record(r)
  PROVE  StateInv'
<1>1. pc[r] \in {"bound", "unbound", "hostUncertain", "markLost", "settleUnclaimed",
                 "settleUnstarted"}
  BY LastLabels DEF Record, IInv, LabelInv, RecovererLabels
<1>2. ASSUME Grant(FinalEvent[pc[r]]), FinalEvent[pc[r]].state \in TerminalStates
      PROVE  ~Started
  <2>1. \/ FinalEvent[pc[r]].kind = "provider-canceled-before-claim"
        \/ FinalEvent[pc[r]].kind = "provider-canceled-before-start"
    BY <1>1, <1>2, RecordEffect, FinalEvents DEF Procs, Concluding
  <2>2. QED
    BY <1>2, <2>1
       DEF Grant, J!Admissible, J!CancellationEvidence, IInv, JournalInv, Claimed, Started, J!Has
<1>3. QED
  BY <1>2, Unstarted, RecordEffect, UnchangedRecord, OtherRecord, SessionAssumption DEF Procs

\* A step that moves one process and publishes an event that decides nothing.
LEMMA UndecidedStep ==
  ASSUME IInv, NEW p \in Procs \ Wrappers, NEW e \in Calls, NEW label,
         UNCHANGED journal \/ Grant(e), e.state \notin TerminalStates,
         e.kind \notin {"wrapper-claim", "wrapper-started"},
         Go(p, label), UNCHANGED <<processes, host, files>>,
         p = Spawner => label \in {"run", "done"} /\ pc[p] = "reserve",
         p \in Cancelers => label \in {"reloadEarly", "confirm", "done"},
         p \notin Recoverers
  PROVE  StateInv'
<1>1. /\ state' \in TerminalStates <=> state \in TerminalStates
      /\ state \in TerminalStates => LastEvent' = LastEvent /\ state' = state
      /\ Started' <=> Started
  <2>1. CASE Grant(e)
    BY <2>1, GrantEffect DEF IInv
  <2>2. CASE UNCHANGED journal
    BY <2>2 DEF journal, LastEvent, Started
  <2>3. QED
    BY <2>1, <2>2
<1>2. QED
  BY <1>1, SessionAssumption
     DEF Go, Procs, Resting, processes, host, files, IInv, StateInv,
         LabelInv, DeliveryInv, ChildInv, HolderInv, LeaseInv, VerdictInv, ReaderInv,
         Waiting, AfterStart, WrapperLabels, Concluding, CancelerLabels, RecovererLabels,
         BeforeDelivery, Launching, Leased, LastEvent, Settled

LEMMA SpawnerReserves ==
  ASSUME IInv, Reserve
  PROVE  StateInv'
<1>1. Reservation.state \notin TerminalStates
  BY RequestFacts DEF TerminalStates, J!TerminalStates
<1>2. UNCHANGED journal \/ Grant(Reservation)
  BY RequestFacts, SubmitIsGrant DEF Reserve, IInv
<1>3. QED
  BY <1>1, <1>2, UndecidedStep, RequestFacts, SessionAssumption DEF Reserve, Procs

LEMMA CancelerRequests ==
  ASSUME IInv, NEW c \in Cancelers, NEW from, NEW e \in {EarlyRequest, LateRequest},
         NEW to \in {"reloadEarly", "confirm"}, Request(c, from, e, to)
  PROVE  StateInv'
<1>1. e.state \notin TerminalStates /\ e.kind = "provider-cancel" /\ e \in Calls
  BY RequestFacts DEF TerminalStates, J!TerminalStates
<1>2. UNCHANGED journal \/ Grant(e)
  BY <1>1, SubmitIsGrant DEF Request, IInv
<1>3. QED
  BY <1>1, <1>2, UndecidedStep, SessionAssumption DEF Request, Procs

LEMMA WrapperClaims ==
  ASSUME IInv, NEW w \in Wrappers, ClaimExecution(w)
  PROVE  StateInv'
<1>1. CASE UNCHANGED journal
  BY <1>1, SessionAssumption
     DEF ClaimExecution, Go, Procs, Resting, journal, processes, host, files, IInv, StateInv,
         LabelInv, DeliveryInv, ChildInv, HolderInv, LeaseInv, VerdictInv, ReaderInv,
         Waiting, AfterStart, WrapperLabels, Concluding, CancelerLabels, RecovererLabels,
         BeforeDelivery, Launching, Leased, LastEvent, Started, Settled
<1>2. CASE J!ClaimExecution(Claim)
  <2>1. Grant(Claim)
    BY <1>2, RequestFacts DEF J!ClaimExecution, Grant, J!Outcome
  <2>2. /\ state \notin TerminalStates /\ state' \notin TerminalStates
        /\ Started' <=> Started
    BY <2>1, GrantEffect, RequestFacts DEF IInv, TerminalStates, J!TerminalStates
  <2>3. QED
    BY <1>2, <2>2, SessionAssumption
       DEF ClaimExecution, Go, Procs, Resting, processes, host, files, IInv, StateInv,
           LabelInv, DeliveryInv, ChildInv, HolderInv, LeaseInv, VerdictInv, ReaderInv,
           Waiting, AfterStart, WrapperLabels, Concluding, CancelerLabels, RecovererLabels,
           BeforeDelivery, Launching, Leased, Settled
<1>3. QED
  BY <1>1, <1>2 DEF ClaimExecution

LEMMA WrapperStarts ==
  ASSUME IInv, NEW w \in Wrappers, StartExecution(w)
  PROVE  StateInv'
<1>1. CASE UNCHANGED journal /\ pc'[w] \notin AfterStart
  BY <1>1, SessionAssumption
     DEF StartExecution, Go, Procs, Resting, journal, processes, host, files, IInv, StateInv,
         LabelInv, DeliveryInv, ChildInv, HolderInv, LeaseInv, VerdictInv, ReaderInv,
         Waiting, AfterStart, WrapperLabels, Concluding, CancelerLabels, RecovererLabels,
         BeforeDelivery, Launching, Leased, LastEvent, Started, Settled
<1>2. CASE J!CanStart /\ J!StartExecution(Start)
  <2>1. Grant(Start)
    BY <1>2, RequestFacts DEF J!StartExecution, Grant, J!Outcome
  <2>2. /\ state \notin TerminalStates /\ state' \notin TerminalStates
        /\ Started' /\ ~Started
    BY <1>2, <2>1, GrantEffect, RequestFacts
       DEF IInv, TerminalStates, J!TerminalStates, J!CanStart, Started
  <2>3. QED
    BY <1>2, <2>2, SessionAssumption
       DEF StartExecution, Go, Procs, Resting, processes, host, files, IInv, StateInv,
           LabelInv, DeliveryInv, ChildInv, HolderInv, LeaseInv, VerdictInv, ReaderInv,
           Waiting, AfterStart, WrapperLabels, Concluding, CancelerLabels, RecovererLabels,
           BeforeDelivery, Launching, Leased, Settled
<1>3. QED
  BY <1>1, <1>2
     DEF StartExecution, Go, IInv, LabelInv, Procs, AfterStart

LEMMA SpawnInv ==
  ASSUME IInv, Spawn
  PROVE  StateInv'
<1> USE SessionAssumption
    DEF Move, Go, TryLease, Rest, Procs, Resting, journal, processes, host, files, IInv, StateInv,
        LabelInv, DeliveryInv, ChildInv, HolderInv, LeaseInv, VerdictInv, ReaderInv,
        Waiting, AfterStart, WrapperLabels, Concluding, CancelerLabels, RecovererLabels,
        BeforeDelivery, Launching, Leased, LastEvent, Started, Settled, TerminalStates,
        J!TerminalStates
<1>1. CASE MakeWorkdir
  BY <1>1 DEF MakeWorkdir
<1>2. CASE CreateWorkspace
  BY <1>2 DEF CreateWorkspace
<1>3. CASE Reconcile
  BY <1>3 DEF Reconcile
<1>4. CASE SendCommand
  BY <1>4 DEF SendCommand
<1>5. CASE CommitIntent
  BY <1>5 DEF CommitIntent, J!Create, JournalInv
<1>6. CASE Reserve
  BY <1>6, SpawnerReserves
<1>7. CASE Record(Spawner)
  BY <1>7, SpawnerRecords
<1>8. QED
  BY <1>1, <1>2, <1>3, <1>4, <1>5, <1>6, <1>7 DEF Spawn

LEMMA ExecuteInv ==
  ASSUME IInv, NEW w \in Wrappers, Execute(w)
  PROVE  StateInv'
<1> USE SessionAssumption
    DEF Move, Go, TryLease, Rest, Procs, Resting, journal, processes, host, files, IInv, StateInv,
        LabelInv, DeliveryInv, ChildInv, HolderInv, LeaseInv, VerdictInv, ReaderInv,
        Waiting, AfterStart, WrapperLabels, Concluding, CancelerLabels, RecovererLabels,
        BeforeDelivery, Launching, Leased, LastEvent, Started, Settled, TerminalStates,
        J!TerminalStates
<1>1. CASE BeginExecution(w)
  BY <1>1 DEF BeginExecution
<1>2. CASE AcquireLease(w)
  BY <1>2 DEF AcquireLease
<1>3. CASE Reload(w)
  BY <1>3 DEF Reload, JournalInv
<1>4. CASE ValidateIntent(w)
  BY <1>4 DEF ValidateIntent
<1>5. CASE InspectClaim(w)
  BY <1>5 DEF InspectClaim
<1>6. CASE CreateOutputs(w)
  BY <1>6 DEF CreateOutputs
<1>7. CASE RecordRoleLaunched(w)
  BY <1>7 DEF RecordRoleLaunched
<1>8. CASE Precheck(w)
  BY <1>8 DEF Precheck
<1>9. CASE LaunchChild(w)
  BY <1>9 DEF LaunchChild
<1>10. CASE PassOnInterrupt(w)
  BY <1>10 DEF PassOnInterrupt
<1>11. CASE ReapChild(w)
  BY <1>11 DEF ReapChild
<1>12. CASE Conclude(w)
  BY <1>12 DEF Conclude, Verdict
<1>13. CASE ClaimExecution(w)
  BY <1>13, WrapperClaims
<1>14. CASE StartExecution(w)
  BY <1>14, WrapperStarts
<1>15. CASE Record(w)
  BY <1>15, UnchangedRecord, WrapperRecord, RecordEffect
<1>16. QED
  BY <1>1, <1>2, <1>3, <1>4, <1>5, <1>6, <1>7, <1>8, <1>9, <1>10, <1>11,
     <1>12, <1>13, <1>14, <1>15
     DEF Execute

LEMMA CancelInv ==
  ASSUME IInv, NEW c \in Cancelers, Cancel(c)
  PROVE  StateInv'
<1> USE SessionAssumption
    DEF Move, Go, TryLease, Rest, Procs, Resting, journal, processes, host, files, IInv, StateInv,
        LabelInv, DeliveryInv, ChildInv, HolderInv, LeaseInv, VerdictInv, ReaderInv,
        Waiting, AfterStart, WrapperLabels, Concluding, CancelerLabels, RecovererLabels,
        BeforeDelivery, Launching, Leased, LastEvent, Started, Settled, TerminalStates,
        J!TerminalStates
<1>1. CASE BeginCancel(c)
  BY <1>1 DEF BeginCancel
<1>2. CASE ReloadRequested(c)
  BY <1>2 DEF ReloadRequested
<1>3. CASE AcquireToSettle(c)
  BY <1>3 DEF AcquireToSettle
<1>4. CASE RecheckClaim(c)
  BY <1>4 DEF RecheckClaim
<1>5. CASE VerifyPane(c)
  BY <1>5 DEF VerifyPane
<1>6. CASE ConfirmRequest(c)
  BY <1>6 DEF ConfirmRequest
<1>7. CASE Interrupt(c)
  BY <1>7 DEF Interrupt
<1>8. CASE Request(c, "requestEarly", EarlyRequest, "reloadEarly")
  BY <1>8, CancelerRequests, RequestFacts
<1>9. CASE Request(c, "request", LateRequest, "confirm")
  BY <1>9, CancelerRequests, RequestFacts
<1>10. CASE Record(c)
  BY <1>10, CancelerRecords
<1>11. QED
  BY <1>1, <1>2, <1>3, <1>4, <1>5, <1>6, <1>7, <1>8, <1>9, <1>10 DEF Cancel, ContinueCancel

LEMMA RecoverInv ==
  ASSUME IInv, NEW r \in Recoverers, Recover(r)
  PROVE  StateInv'
<1> USE SessionAssumption
    DEF Move, Go, TryLease, Rest, Procs, Resting, journal, processes, host, files, IInv, StateInv,
        LabelInv, DeliveryInv, ChildInv, HolderInv, LeaseInv, VerdictInv, ReaderInv,
        Waiting, AfterStart, WrapperLabels, Concluding, CancelerLabels, RecovererLabels,
        BeforeDelivery, Launching, Leased, LastEvent, Started, Settled, TerminalStates,
        J!TerminalStates
<1>1. CASE BeginRecovery(r)
  BY <1>1 DEF BeginRecovery, Classified
<1>2. CASE AcquireToRecover(r)
  BY <1>2 DEF AcquireToRecover
<1>3. CASE Diagnose(r)
  BY <1>3 DEF Diagnose, Classified
<1>4. CASE ListWorkspaces(r)
  BY <1>4 DEF ListWorkspaces
<1>5. CASE CheckPane(r)
  BY <1>5 DEF CheckPane
<1>6. CASE Record(r)
  BY <1>6, RecovererRecords
<1>7. QED
  BY <1>1, <1>2, <1>3, <1>4, <1>5, <1>6 DEF Recover

LEMMA SurroundingsInv ==
  ASSUME IInv,
         \/ \E w \in Wrappers : ChildExits(w) \/ KillChild(w) \/ SignalWrapper(w)
         \/ \E p \in Procs \ Recoverers : Crash(p)
         \/ Collect \/ CloseReceipt \/ CloseOwnedWorkspace
  PROVE  StateInv'
<1> USE SessionAssumption
    DEF Move, Go, TryLease, Rest, Procs, Resting, journal, processes, host, files, IInv, StateInv,
        LabelInv, DeliveryInv, ChildInv, HolderInv, LeaseInv, VerdictInv, ReaderInv,
        Waiting, AfterStart, WrapperLabels, Concluding, CancelerLabels, RecovererLabels,
        BeforeDelivery, Launching, Leased, LastEvent, Started, Settled, TerminalStates,
        J!TerminalStates
<1>1. CASE \E w \in Wrappers : ChildExits(w)
  BY <1>1 DEF ChildExits
<1>2. CASE \E w \in Wrappers : KillChild(w)
  BY <1>2 DEF KillChild
<1>3. CASE \E w \in Wrappers : SignalWrapper(w)
  BY <1>3 DEF SignalWrapper
<1>4. CASE \E p \in Procs \ Recoverers : Crash(p)
  BY <1>4 DEF Crash
<1>5. CASE Collect
  BY <1>5 DEF Collect
<1>6. CASE CloseReceipt
  BY <1>6 DEF CloseReceipt
<1>7. CASE CloseOwnedWorkspace
  BY <1>7 DEF CloseOwnedWorkspace
<1>8. QED
  BY <1>1, <1>2, <1>3, <1>4, <1>5, <1>6, <1>7

-----------------------------------------------------------------------------
(* Every step of the session is a step of the journal.                     *)

LEMMA Recorded ==
  ASSUME JournalInv, NEW p \in Procs, Record(p)
  PROVE  UNCHANGED journal \/ \E e \in Calls : Grant(e)
BY SubmitIsGrant, FinalEvents DEF Record

LEMMA JournalSteps ==
  ASSUME JournalInv, [Next]_vars
  PROVE  UNCHANGED journal \/ J!Create \/ \E e \in Calls : Grant(e)
<1>1. CASE UNCHANGED vars
  BY <1>1 DEF vars
<1>2. CASE Spawn
  <2>1. CASE CommitIntent
    BY <2>1 DEF CommitIntent
  <2>2. CASE Reserve
    BY <2>2, SubmitIsGrant, RequestFacts DEF Reserve
  <2>3. CASE Record(Spawner)
    BY <2>3, Recorded DEF Procs
  <2>4. QED
    BY <1>2, <2>1, <2>2, <2>3
       DEF Spawn, MakeWorkdir, CreateWorkspace, Reconcile, SendCommand, Move
<1>3. ASSUME NEW w \in Wrappers, Execute(w)
      PROVE  UNCHANGED journal \/ \E e \in Calls : Grant(e)
  <2>1. CASE ClaimExecution(w)
    BY <2>1, RequestFacts DEF ClaimExecution, J!ClaimExecution, Grant, J!Outcome
  <2>2. CASE StartExecution(w)
    BY <2>2, RequestFacts DEF StartExecution, J!StartExecution, Grant, J!Outcome
  <2>3. CASE Record(w)
    BY <2>3, Recorded DEF Procs
  <2>4. QED
    BY <1>3, <2>1, <2>2, <2>3
       DEF Execute, BeginExecution, AcquireLease, Reload, ValidateIntent, InspectClaim,
           CreateOutputs, RecordRoleLaunched, Precheck, LaunchChild, PassOnInterrupt, ReapChild,
           Conclude, Move
<1>4. ASSUME NEW c \in Cancelers, Cancel(c)
      PROVE  UNCHANGED journal \/ \E e \in Calls : Grant(e)
  <2>1. CASE Request(c, "requestEarly", EarlyRequest, "reloadEarly")
    BY <2>1, SubmitIsGrant, RequestFacts DEF Request
  <2>2. CASE Request(c, "request", LateRequest, "confirm")
    BY <2>2, SubmitIsGrant, RequestFacts DEF Request
  <2>3. CASE Record(c)
    BY <2>3, Recorded DEF Procs
  <2>4. QED
    BY <1>4, <2>1, <2>2, <2>3
       DEF Cancel, ContinueCancel, BeginCancel, ReloadRequested, AcquireToSettle, RecheckClaim,
           VerifyPane, ConfirmRequest, Interrupt, Move
<1>5. ASSUME NEW r \in Recoverers, Recover(r)
      PROVE  UNCHANGED journal \/ \E e \in Calls : Grant(e)
  <2>1. CASE Record(r)
    BY <2>1, Recorded DEF Procs
  <2>2. QED
    BY <1>5, <2>1
       DEF Recover, BeginRecovery, AcquireToRecover, Diagnose, ListWorkspaces, CheckPane, Move
<1>6. QED
  BY <1>1, <1>2, <1>3, <1>4, <1>5
     DEF Next, ChildExits, KillChild, SignalWrapper, Crash, Collect, CloseReceipt,
         CloseOwnedWorkspace

LEMMA NextJournalInv ==
  ASSUME JournalInv, [Next]_vars
  PROVE  JournalInv'
<1>1. CASE UNCHANGED journal
  BY <1>1 DEF journal, JournalInv, Claimed, Started, CancelRequested, LastEvent
<1>2. CASE J!Create
  <2>1. /\ events' = <<J!PreparedEvent>>
        /\ state' = "prepared"
        /\ J!PreparedEvent.kind = "journal-created"
    BY <1>2 DEF J!Create, J!PreparedEvent
  <2>2. /\ DOMAIN events' = {1} /\ events'[1] = J!PreparedEvent
        /\ events' \in Seq(Calls \union {J!PreparedEvent})
        /\ events' # <<>>
    BY <2>1
  <2>3. ~Claimed' /\ ~Started' /\ ~CancelRequested'
    BY <2>1, <2>2 DEF Claimed, Started, CancelRequested, J!Has
  <2>4. \A i \in DOMAIN events' : events'[i].kind # "provider-cancel"
    BY <2>1, <2>2
  <2>5. QED
    BY <2>1, <2>2, <2>3, <2>4 DEF JournalInv, TerminalStates, J!TerminalStates, J!States
<1>3. QED
  BY <1>1, <1>2, JournalSteps, GrantJournalInv

LEMMA InitIInv == Init => IInv
<1> SUFFICES ASSUME Init PROVE IInv
  OBVIOUS
<1>1. JournalInv
  BY DEF Init, J!Init, JournalInv, Claimed, Started, CancelRequested, J!Has, TerminalStates,
         J!TerminalStates
<1>2. StateInv
  BY <1>1, SessionAssumption
     DEF Init, J!Init, Procs, StateInv, LabelInv, DeliveryInv, ChildInv, HolderInv, LeaseInv,
         VerdictInv, ReaderInv, Waiting, AfterStart, WrapperLabels, Concluding, CancelerLabels,
         RecovererLabels, BeforeDelivery, Launching, TerminalStates, J!TerminalStates
<1>3. QED
  BY <1>1, <1>2 DEF IInv, StateInv

LEMMA NextIInv == IInv /\ [Next]_vars => IInv'
<1> SUFFICES ASSUME IInv, [Next]_vars PROVE IInv'
  OBVIOUS
<1>1. JournalInv'
  BY NextJournalInv DEF IInv
<1>2. StateInv'
  <2>1. CASE UNCHANGED vars
    BY <2>1
       DEF vars, journal, processes, host, files, IInv, StateInv, LabelInv, DeliveryInv, ChildInv,
           HolderInv, LeaseInv, VerdictInv, ReaderInv, Launching, Leased, LastEvent, Started,
           Settled
  <2>2. QED
    BY <2>1, SpawnInv, ExecuteInv, CancelInv, RecoverInv, SurroundingsInv DEF Next
<1>3. QED
  BY <1>1, <1>2 DEF IInv, StateInv

-----------------------------------------------------------------------------
(* The safety properties.                                                  *)

(***************************************************************************)
(* The inductive invariant holds of every reachable state, whoever runs,   *)
(* crashes, or runs again.                                                 *)
(***************************************************************************)
THEOREM SessionInvariant == Spec => []IInv
<1>1. QED
  BY InitIInv, NextIInv, PTL DEF Spec

(***************************************************************************)
(* However often the command is delivered or rerun, one child is started   *)
(* at most and only after a recorded start (Execute), for any number of    *)
(* wrappers.                                                               *)
(***************************************************************************)
THEOREM SessionOneChild == Spec => []OneChild
<1>1. IInv => OneChild
  BY DEF IInv, ChildInv, Launching, OneChild
<1>2. QED
  BY <1>1, SessionInvariant, PTL

(***************************************************************************)
(* The verdict in the journal is true of the child, whichever of spawner,  *)
(* wrapper, cancel and recover recorded it.                                *)
(***************************************************************************)
THEOREM SessionVerdict == Spec => []VerdictMatchesChild
<1>1. IInv => VerdictMatchesChild
  BY DEF IInv, VerdictInv, LastEvent, AfterStart, VerdictMatchesChild
<1>2. QED
  BY <1>1, SessionInvariant, PTL

(***************************************************************************)
(* A cancellation recorded before the start blocks the launch for good     *)
(* (Cancel, StartExecution), with and without a lease.                     *)
(***************************************************************************)
THEOREM SessionCancelBlocks == Spec => []CancelBlocksLaunch
<1>1. IInv => CancelBlocksLaunch
  <2> SUFFICES ASSUME IInv, NEW i \in DOMAIN events,
                      events[i].kind = "provider-cancel",
                      \A j \in 1 .. i : events[j].kind # "wrapper-started",
                      NEW w \in Wrappers
               PROVE  child[w] = "none"
    BY DEF CancelBlocksLaunch
  <2>1. ASSUME NEW j \in DOMAIN events, events[j].kind = "wrapper-started"
        PROVE  FALSE
    BY <2>1, Journals DEF IInv, JournalInv
  <2>2. QED
    BY <2>1 DEF IInv, ChildInv, Launching, Started, J!Has
<1>2. QED
  BY <1>1, SessionInvariant, PTL

(***************************************************************************)
(* The workspace is closed on a session without a running child, orphans   *)
(* included, in which none will be launched (CloseOwnedWorkspace), with    *)
(* and without a lease: a failed set-up does not settle the session.       *)
(***************************************************************************)
THEOREM SessionClosed == Spec => []ClosedWhenQuiet
<1>1. IInv => ClosedWhenQuiet
  BY DEF IInv, VerdictInv, ReaderInv, Settled, LastEvent, AfterStart, J!PreStartKinds,
         ClosedWhenQuiet
<1>2. QED
  BY <1>1, SessionInvariant, PTL

\* Only a wrapper completes a session, and only on exit zero.
LEMMA CompletedVerdict ==
  ASSUME JournalInv, state = "completed"
  PROVE  LastEvent.kind = "wrapper-terminal" /\ LastEvent.exit = "zero"
<1>1. LastEvent \in Calls \union {J!PreparedEvent} /\ LastEvent.state = "completed"
  BY Journals DEF JournalInv, LastEvent, TerminalStates, J!TerminalStates
<1>2. J!PreparedEvent.state = "prepared"
  BY DEF J!PreparedEvent
<1>3. QED
  BY <1>1, <1>2, CallFacts

(***************************************************************************)
(* The run receipt reports the verdict of the journal, and a completed     *)
(* role is one whose child exited with zero, uninterrupted (Collect).      *)
(***************************************************************************)
THEOREM SessionCollected == Spec => []CollectedIsVerdict
<1>1. IInv => CollectedIsVerdict
  BY CompletedVerdict DEF IInv, VerdictInv, ReaderInv, CollectedIsVerdict
<1>2. QED
  BY <1>1, SessionInvariant, PTL

-----------------------------------------------------------------------------
(* The lease.                                                              *)

\* Labels at which a process settles the session or gives it up.
Settling == {"settle", "settleUnclaimed", "settleUnstarted", "markLost", "unbound", "bound",
             "hostUncertain"}

SettlingKinds == {"provider-canceled-before-claim", "provider-canceled-before-start",
                  "provider-recovery"}

LEMMA NewEvent ==
  ASSUME JournalInv, NEW e \in Calls, UNCHANGED journal \/ Grant(e),
         NEW i \in DOMAIN events' \ DOMAIN events
  PROVE  events'[i] = e
BY Published DEF journal, Grant

LEMMA SettlingRecord ==
  ASSUME IInv, NEW p \in Procs, Record(p), NEW i \in DOMAIN events' \ DOMAIN events,
         events'[i].kind \in SettlingKinds
  PROVE  pc[p] \in Settling
BY RecordEffect, NewEvent, FinalEvents DEF IInv, SettlingKinds, Settling

\* Only cancel and recover settle a session before its start, or give it up.
LEMMA Settlers ==
  ASSUME IInv, Next, NEW i \in DOMAIN events' \ DOMAIN events,
         events'[i].kind \in SettlingKinds
  PROVE  \E p \in Procs : pc[p] \in Settling
<1> SUFFICES ASSUME \A p \in Procs : ~Record(p) PROVE FALSE
  BY SettlingRecord
<1>1. CASE \E e \in {Reservation, Claim, Start, EarlyRequest, LateRequest} : Grant(e)
  BY <1>1, NewEvent, RequestFacts DEF IInv, SettlingKinds
<1>2. CASE J!Create
  <2>1. events' = <<J!PreparedEvent>> /\ J!PreparedEvent.kind = "journal-created"
    BY <1>2 DEF J!Create, J!PreparedEvent
  <2>2. QED
    BY <2>1 DEF SettlingKinds
<1>3. ASSUME NEW e \in {Reservation, EarlyRequest, LateRequest}, Submit(e)
      PROVE  FALSE
  BY <1>1, <1>3, SubmitIsGrant, RequestFacts DEF IInv, journal
<1>4. ~Spawn
  BY <1>2, <1>3
     DEF Spawn, CommitIntent, MakeWorkdir, CreateWorkspace, Reconcile, Reserve, SendCommand, Move,
         Procs, journal
<1>5. ASSUME NEW w \in Wrappers, Execute(w) PROVE FALSE
  <2>1. CASE ClaimExecution(w)
    BY <1>1, <2>1, RequestFacts
       DEF ClaimExecution, J!ClaimExecution, Grant, J!Outcome, journal
  <2>2. CASE StartExecution(w)
    BY <1>1, <2>2, RequestFacts
       DEF StartExecution, J!StartExecution, Grant, J!Outcome, journal
  <2>3. QED
    BY <1>5, <2>1, <2>2
       DEF Execute, BeginExecution, AcquireLease, Reload, ValidateIntent, InspectClaim,
           CreateOutputs, RecordRoleLaunched, Precheck, LaunchChild, PassOnInterrupt, ReapChild,
           Conclude, Move, Procs, journal
<1>6. ASSUME NEW c \in Cancelers, Cancel(c) PROVE FALSE
  BY <1>3, <1>6
     DEF Cancel, ContinueCancel, BeginCancel, ReloadRequested, AcquireToSettle, RecheckClaim,
         VerifyPane, ConfirmRequest, Interrupt, Request, Move, Procs, journal
<1>7. ASSUME NEW r \in Recoverers, Recover(r) PROVE FALSE
  BY <1>7
     DEF Recover, BeginRecovery, AcquireToRecover, Diagnose, ListWorkspaces, CheckPane, Move,
         Procs, journal
<1>8. QED
  BY <1>4, <1>5, <1>6, <1>7
     DEF Next, ChildExits, KillChild, SignalWrapper, Crash, Collect, CloseReceipt,
         CloseOwnedWorkspace, journal

(***************************************************************************)
(* No step of cancel or recover settles a session, or gives its wrapper up *)
(* for lost, while a wrapper that holds the lease is authorised to run     *)
(* (Cancel, Recover).                                                      *)
(***************************************************************************)
THEOREM SessionLeaseGuards == Spec => LeaseGuardsRecovery
<1> DEFINE Guarded ==
      \A i \in DOMAIN events' \ DOMAIN events :
        /\ Leased
        /\ events'[i].kind \in {"provider-canceled-before-claim",
                                "provider-canceled-before-start", "provider-recovery"}
        => \A w \in Wrappers : pc[w] \notin Executing
<1>1. IInv /\ [Next]_vars => [Guarded]_vars
  <2> SUFFICES ASSUME IInv, Next, Leased, NEW i \in DOMAIN events' \ DOMAIN events,
                      events'[i].kind \in SettlingKinds, NEW w \in Wrappers
               PROVE  pc[w] \notin Executing
    BY DEF SettlingKinds
  <2>1. PICK p \in Procs : pc[p] \in Settling
    BY Settlers
  <2>2. p \in Cancelers \union Recoverers /\ lease = p
    BY <2>1, SessionAssumption
       DEF Procs, Settling, IInv, LabelInv, HolderInv, BeforeDelivery, WrapperLabels, Waiting,
           AfterStart, CancelerLabels
  <2>3. QED
    BY <2>2, SessionAssumption DEF IInv, HolderInv, Executing
<1>2. QED
  BY <1>1, SessionInvariant, PTL DEF Spec, LeaseGuardsRecovery

-----------------------------------------------------------------------------
(* The refinements.                                                        *)

LEMMA GrantIsJournalStep ==
  ASSUME JournalInv, NEW e \in Calls, Grant(e)
  PROVE  J!Next
<1>1. events # <<>>
  BY GrantStates DEF JournalInv, J!States, J!TerminalStates
<1>2. CASE e.kind \notin {"wrapper-claim", "wrapper-started"}
  BY <1>1, <1>2 DEF Grant, J!Next, J!AppendEvent, J!Outcome
<1>3. CASE e.kind = "wrapper-claim"
  BY <1>3, CallFacts DEF Grant, J!Next, J!ClaimExecution, J!Outcome
<1>4. CASE e.kind = "wrapper-started"
  BY <1>4, CallFacts DEF Grant, J!Next, J!StartExecution, J!Outcome
<1>5. QED
  BY <1>2, <1>3, <1>4

(***************************************************************************)
(* The session is one of the users NativeJournal allows for: what          *)
(* NativeJournalProofs proves of any requests holds of the requests of     *)
(* spawn, execute, cancel and recover.                                     *)
(***************************************************************************)
THEOREM SessionUsesJournal == Spec => JournalSpec
<1>1. Init => J!Init
  BY DEF Init
<1>2. IInv /\ [Next]_vars => [J!Next]_(J!journalVars)
  BY JournalSteps, GrantIsJournalStep DEF IInv, J!Next, J!journalVars, journal
<1>3. QED
  BY <1>1, <1>2, SessionInvariant, PTL DEF Spec, JournalSpec, J!Spec

\* The child of the session is the child of the wrapper that launched it.
TheChild ==
  /\ \A w \in Wrappers : child[w] # "none" => Process = child[w]
  /\ (\A w \in Wrappers : child[w] = "none") => Process = "none"

LEMMA ProcessIsTheChild == IInv => TheChild
<1> SUFFICES ASSUME IInv PROVE TheChild
  OBVIOUS
<1>1. ASSUME NEW w \in Wrappers, child[w] # "none"
      PROVE  Process = child[w]
  <2> DEFINE chosen == CHOOSE x \in Wrappers : child[x] # "none"
  <2>1. chosen \in Wrappers /\ child[chosen] # "none"
    BY <1>1
  <2>2. chosen = w
    BY <1>1, <2>1 DEF IInv, ChildInv, Launching
  <2>3. QED
    BY <1>1, <2>2 DEF Process
<1>2. QED
  BY <1>1 DEF Process, TheChild

\* What a step changes of what the promise is about: one thing at most.
Quiet == UNCHANGED <<child, collected>> /\ (workspace' = "closed" <=> workspace = "closed")

LEMMA StepsOneByOne ==
  ASSUME IInv, [Next]_vars
  PROVE  \/ Quiet
         \/ \E w \in Wrappers : LaunchChild(w) \/ ChildExits(w) \/ KillChild(w)
         \/ Collect \/ CloseOwnedWorkspace
<1> USE DEF Quiet, Move, Record, journal, processes, host, files
<1>1. CASE Spawn
  BY <1>1
     DEF Spawn, CommitIntent, MakeWorkdir, CreateWorkspace, Reconcile, Reserve, SendCommand, IInv,
         DeliveryInv
<1>2. ASSUME NEW w \in Wrappers, Execute(w) PROVE Quiet \/ LaunchChild(w)
  BY <1>2
     DEF Execute, BeginExecution, AcquireLease, Reload, ValidateIntent, ClaimExecution,
         InspectClaim, CreateOutputs, StartExecution, RecordRoleLaunched, Precheck,
         PassOnInterrupt, ReapChild, Conclude
<1>3. ASSUME NEW c \in Cancelers, Cancel(c) PROVE Quiet
  BY <1>3
     DEF Cancel, ContinueCancel, BeginCancel, ReloadRequested, AcquireToSettle, RecheckClaim,
         VerifyPane, ConfirmRequest, Interrupt, Request
<1>4. ASSUME NEW r \in Recoverers, Recover(r) PROVE Quiet
  BY <1>4 DEF Recover, BeginRecovery, AcquireToRecover, Diagnose, ListWorkspaces, CheckPane
<1>5. QED
  BY <1>1, <1>2, <1>3, <1>4 DEF Next, vars, SignalWrapper, Crash, CloseReceipt

LEMMA JournalIsFinal ==
  ASSUME JournalInv, [Next]_vars, state \in TerminalStates
  PROVE  state' = state
BY JournalSteps, GrantStates DEF journal, J!Create, JournalInv, TerminalStates, J!TerminalStates

\* A verdict that is entered is the verdict on the child.
Decided ==
  Leased /\ state \in TerminalStates =>
    \/ Process = "zero" /\ state \in {"completed", "canceled"}
    \/ Process = "nonzero" /\ state \in {"failed", "canceled"}
    \/ Process = "none" /\ state \in {"failed", "canceled"}

LEMMA DecidedByChild == IInv => Decided
<1> SUFFICES ASSUME IInv, Leased, state \in TerminalStates PROVE Decided
  BY DEF Decided
<1>1. CASE LastEvent.kind = "wrapper-terminal"
  <2>1. PICK w \in Wrappers : child[w] = LastEvent.exit
    BY <1>1 DEF IInv, VerdictInv
  <2>2. LastEvent \in Calls /\ LastEvent.state = state
    BY <1>1, Journals
       DEF IInv, JournalInv, LastEvent, J!PreparedEvent, TerminalStates, J!TerminalStates
  <2>3. \/ LastEvent.exit = "zero" /\ state \in {"completed", "canceled"}
        \/ LastEvent.exit = "nonzero" /\ state \in {"failed", "canceled"}
    BY <1>1, <2>2, Conclusions
  <2>4. QED
    BY <2>1, <2>3, ProcessIsTheChild DEF TheChild, Decided
<1>2. CASE LastEvent.kind # "wrapper-terminal"
  BY <1>2, ProcessIsTheChild, CompletedVerdict
     DEF Decided, TheChild, IInv, VerdictInv, TerminalStates, J!TerminalStates
<1>3. QED
  BY <1>1, <1>2

LEMMA SessionPromiseStep ==
  ASSUME IInv, TheChild, TheChild', Decided', Leased, Leased', [Next]_vars
  PROVE  [P!Next]_(P!promise)
<1> DEFINE verdict == IF state \in TerminalStates THEN state ELSE "none"
<1>1. CASE Quiet
  <2>1. Process' = Process
    BY <1>1 DEF Quiet, Process
  <2>2. CASE verdict' = verdict
    BY <1>1, <2>1, <2>2 DEF P!promise, Quiet
  <2>3. CASE verdict' # verdict
    <3>1. state \notin TerminalStates /\ state' \in TerminalStates
      BY <2>3, JournalIsFinal DEF IInv
    <3>2. \/ Process' = "zero" /\ state' \in {"completed", "canceled"}
          \/ Process' = "nonzero" /\ state' \in {"failed", "canceled"}
          \/ Process' = "none" /\ state' \in {"failed", "canceled"}
      BY <3>1 DEF Decided
    <3>3. QED
      BY <1>1, <2>1, <3>1, <3>2 DEF P!Next, P!Decide, Quiet
  <2>4. QED
    BY <2>2, <2>3
<1>2. ASSUME NEW w \in Wrappers, LaunchChild(w)
      PROVE  P!Launch \/ UNCHANGED P!promise
  <2>1. CASE Quiet
    BY <1>2, <2>1 DEF Quiet, LaunchChild, P!promise, Process, journal, host
  <2>2. CASE child' = [child EXCEPT ![w] = "running"]
    <3>1. Process = "none"
      BY <1>2
         DEF TheChild, LaunchChild, IInv, ChildInv, Launching, AfterStart, Concluding
    <3>2. Process' = "running"
      BY <2>2 DEF TheChild, IInv, LabelInv
    <3>3. state \notin TerminalStates /\ LastEvent' = LastEvent
      BY <1>2 DEF LaunchChild, IInv, VerdictInv, AfterStart, journal, LastEvent
    <3>4. QED
      BY <1>2, <3>1, <3>2, <3>3 DEF LaunchChild, P!Launch, journal, host
  <2>3. QED
    BY <1>2, <2>1, <2>2 DEF LaunchChild, Quiet, host
<1>3. ASSUME NEW w \in Wrappers, ChildExits(w) \/ KillChild(w)
      PROVE  P!Exit
  <2>1. child[w] = "running" /\ Process = "running"
    BY <1>3 DEF TheChild, ChildExits, KillChild
  <2>2. child'[w] \in {"zero", "nonzero"} /\ Process' = child'[w]
    BY <1>3 DEF TheChild, ChildExits, KillChild, IInv, LabelInv
  <2>3. QED
    BY <1>3, <2>1, <2>2 DEF ChildExits, KillChild, P!Exit, journal, host, files
<1>4. CASE Collect
  <2>1. P!Report
    BY <1>4 DEF Collect, P!Report, Process, processes, journal, host, TerminalStates,
       J!TerminalStates
  <2>2. QED
    BY <2>1 DEF P!Next
<1>5. CASE CloseOwnedWorkspace
  <2>1. P!Close
    BY <1>5 DEF CloseOwnedWorkspace, Settled, P!Close, Process, processes, journal, files,
       TerminalStates, J!TerminalStates
  <2>2. QED
    BY <2>1 DEF P!Next
<1>6. QED
  BY <1>1, <1>2, <1>3, <1>4, <1>5, StepsOneByOne DEF P!Next

\* No step takes the lease from a session that has one, or gives it one.
LEMMA LeasedIsFixed ==
  ASSUME [Next]_vars
  PROVE  Leased' <=> Leased
<1> USE SessionAssumption DEF Leased, Move, Go, TryLease, Procs, Resting
<1>1. CASE Spawn
  BY <1>1
     DEF Spawn, CommitIntent, MakeWorkdir, CreateWorkspace, Reconcile, Reserve, SendCommand, Record
<1>2. ASSUME NEW w \in Wrappers, Execute(w) PROVE Leased' <=> Leased
  BY <1>2
     DEF Execute, BeginExecution, AcquireLease, Reload, ValidateIntent, ClaimExecution,
         InspectClaim, CreateOutputs, StartExecution, RecordRoleLaunched, Precheck,
         PassOnInterrupt, LaunchChild, ReapChild, Conclude, Record
<1>3. ASSUME NEW c \in Cancelers, Cancel(c) PROVE Leased' <=> Leased
  BY <1>3
     DEF Cancel, ContinueCancel, BeginCancel, ReloadRequested, AcquireToSettle, RecheckClaim,
         VerifyPane, ConfirmRequest, Interrupt, Request, Record
<1>4. ASSUME NEW r \in Recoverers, Recover(r) PROVE Leased' <=> Leased
  BY <1>4
     DEF Recover, BeginRecovery, AcquireToRecover, Diagnose, ListWorkspaces, CheckPane, Record
<1>5. ASSUME NEW p \in Procs \ Recoverers, Crash(p) PROVE Leased' <=> Leased
  BY <1>5 DEF Crash
<1>6. QED
  BY <1>1, <1>2, <1>3, <1>4, <1>5
     DEF Next, vars, ChildExits, KillChild, SignalWrapper, Collect, CloseReceipt,
         CloseOwnedWorkspace

(***************************************************************************)
(* A session with a lease implements SessionPromise: a child is started    *)
(* only while the session is undecided, the verdict follows from that      *)
(* child and is final, report and closing follow the verdict.  (Without a  *)
(* lease it does not: a second wrapper whose set-up fails decides the      *)
(* session over the child of the first.)                                   *)
(***************************************************************************)
THEOREM SessionKeepsPromise == Spec /\ Leased => PromiseKept
<1>1. Init => P!Init
  BY DEF Init, J!Init, P!Init, Process, TerminalStates, J!TerminalStates
<1>2. Leased /\ [Next]_vars => Leased'
  BY LeasedIsFixed
<1>3. IInv /\ TheChild /\ TheChild' /\ Decided' /\ Leased /\ Leased' /\ [Next]_vars
        => [P!Next]_(P!promise)
  BY SessionPromiseStep
<1>4. QED
  BY <1>1, <1>2, <1>3, ProcessIsTheChild, DecidedByChild, SessionInvariant, PTL
     DEF Spec, PromiseKept, P!Spec
====
