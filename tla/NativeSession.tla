---------------------------- MODULE NativeSession ----------------------------
(***************************************************************************)
(* One native session and everyone who acts on it:                         *)
(* herdr-sentinel/internal/nativesession (native.go, process_unix.go,      *)
(* process_info.go) on top of the journal of NativeJournal.                *)
(*                                                                         *)
(*   Spawner    "session spawn": commits the intent, creates the Herdr     *)
(*              workspace, reserves and sends the wrapper command          *)
(*   Wrappers   "session execute-native" in the pane (one per delivery or  *)
(*              rerun of the command): claims, launches, waits, concludes  *)
(*   Cancelers  "session native-cancel", one per invocation                *)
(*   Recoverers "session native-recover", invoked again and again          *)
(*   operators  who collect the verdict, close the workspace and close the *)
(*              run receipt, each in one step                              *)
(*                                                                         *)
(* They are processes of their own: they share the journal, an advisory    *)
(* lease on the execution, the captured outputs, the run receipt and the   *)
(* host.  Each step of a process is one locked journal operation, one host *)
(* call or one look at the child; pc names the next one.                   *)
(*                                                                         *)
(* Every failure that the code handles is a free choice of its step, and a *)
(* process may crash between any two steps.  A journal append that fails   *)
(* outright leaves its caller with nothing to do but return: it is the     *)
(* crash before that step.  Recoverers keep nothing but the lease between  *)
(* their steps, so that a crashed recovery is one that did not start.      *)
(*                                                                         *)
(* Abstracted: paths, argv, hashes and identity checks (a check either     *)
(* passes or fails), wording, times, the two output files (one here).      *)
(***************************************************************************)
EXTENDS Naturals, Sequences, FiniteSets

CONSTANTS
  Spawner, Wrappers, Cancelers, Recoverers,
  LeaseModes,  \* whether the intent names an execution lease: journals of
               \* earlier versions do not
  Binding,     \* the workspace, pane and terminal created for the session
  NoHost,
  Nobody,      \* the holder of a free lease
  NoLease      \* and of the lease of a session that has none

Procs == {Spawner} \union Wrappers \union Cancelers \union Recoverers

ASSUME SessionAssumption ==
  /\ Spawner \notin Wrappers \union Cancelers \union Recoverers
  /\ Wrappers \intersect Cancelers = {}
  /\ (Wrappers \union Cancelers) \intersect Recoverers = {}
  /\ Nobody \notin Procs /\ NoLease \notin Procs \union {Nobody}
  /\ Binding # NoHost
  /\ LeaseModes \subseteq BOOLEAN

-----------------------------------------------------------------------------
(* The events the callers of the journal submit.  Reasons matter where a   *)
(* record claims something: the two requests of a cancellation.            *)

Call(id, kind, st, host, reason) ==
  [id |-> id, kind |-> kind, state |-> st, host |-> host, reason |-> reason,
   exit |-> "none", digests |-> FALSE]

Reservation == Call("dispatch-reserved", "provider-dispatch", "dispatching", Binding, "none")
Claim       == Call("wrapper-claim", "wrapper-claim", "submitted", Binding, "none")
Start       == Call("wrapper-running", "wrapper-started", "running", Binding, "none")

\* "operator canceled before wrapper claim; child launch is blocked"
EarlyRequest ==
  Call("cancel-requested", "provider-cancel", "cancel-requested", Binding, "launch is blocked")

LateRequest ==
  Call("cancel-requested", "provider-cancel", "cancel-requested", Binding, "given")

Conclusion(st, exit, reason) ==
  [id |-> "wrapper-terminal", kind |-> "wrapper-terminal", state |-> st, host |-> Binding,
   reason |-> reason, exit |-> exit, digests |-> TRUE]

\* The labels of processes about to record their last event, and these events:
\* those of Spawn,
SpawnEvents ==
  [roleWorkspaceFailed |-> Call("role-workspace-failed", "provider-observation", "failed", NoHost, "given"),
   createReconciled    |-> Call("host-create-reconciled", "provider-observation", "indeterminate", Binding, "given"),
   createUncertain     |-> Call("host-create-indeterminate", "provider-observation", "indeterminate", NoHost, "given"),
   createFailed        |-> Call("host-create-failed", "provider-observation", "failed", NoHost, "given"),
   createInvalid       |-> Call("host-create-invalid", "provider-observation", "indeterminate", NoHost, "given"),
   dispatchRejected    |-> Call("dispatch-rejected", "provider-dispatch", "failed", Binding, "given"),
   dispatchAck         |-> Call("dispatch-ack", "host-dispatch-ack", "submitted", Binding, "none")]

\* of the wrapper,
WrapperEvents ==
  [claimUncertain      |-> Call("wrapper-claim-uncertain", "wrapper-recovery", "indeterminate", Binding, "given"),
   startUncertain      |-> Call("wrapper-start-uncertain", "wrapper-recovery", "indeterminate", Binding, "given"),
   receiptRejected     |-> Call("wrapper-receipt-rejected", "wrapper-setup-failed", "failed", Binding, "given"),
   setupFailed         |-> Call("wrapper-setup-failed", "wrapper-setup-failed", "failed", Binding, "given"),
   beforeStart         |-> Call("wrapper-canceled-before-start", "wrapper-canceled-before-start", "canceled", Binding, "given"),
   outcomeUnknown      |-> Call("wrapper-indeterminate", "wrapper-recovery", "indeterminate", Binding, "given"),
   completed           |-> Conclusion("completed", "zero", "none"),
   failed              |-> Conclusion("failed", "nonzero", "given"),
   canceledZero        |-> Conclusion("canceled", "zero", "given"),
   canceledNonzero     |-> Conclusion("canceled", "nonzero", "given")]

\* and of Cancel and Recover.
SettlingEvents ==
  [settle              |-> Call("canceled-before-claim", "provider-canceled-before-claim", "canceled", Binding, "given"),
   settleUnclaimed     |-> Call("recovery-canceled-before-start", "provider-canceled-before-claim", "canceled", Binding, "given"),
   settleUnstarted     |-> Call("recovery-canceled-before-start", "provider-canceled-before-start", "canceled", Binding, "given"),
   markLost            |-> Call("recovery-wrapper-lease-lost", "provider-recovery", "indeterminate", Binding, "given"),
   unbound             |-> Call("recovery-unbound", "provider-recovery", "indeterminate", NoHost, "given"),
   bound               |-> Call("recovery-bound", "provider-recovery", "indeterminate", Binding, "given"),
   hostUncertain       |-> Call("recovery-host-uncertain", "provider-recovery", "indeterminate", Binding, "given")]

FinalEvent ==
  [label \in DOMAIN SpawnEvents \union DOMAIN WrapperEvents \union DOMAIN SettlingEvents |->
     IF label \in DOMAIN SpawnEvents THEN SpawnEvents[label]
     ELSE IF label \in DOMAIN WrapperEvents THEN WrapperEvents[label]
     ELSE SettlingEvents[label]]

Calls == {FinalEvent[label] : label \in DOMAIN FinalEvent} \union
         {Reservation, Claim, Start, EarlyRequest, LateRequest}

ProviderKinds == {"provider-observation", "provider-dispatch", "provider-cancel",
                  "provider-recovery", "wrapper-recovery", "wrapper-setup-failed"}

VARIABLES
  events, state,   \* the journal and the state it replays to
  pc,              \* the next step of each process
  lease,           \* who holds the execution lease
  child,           \* the child of each wrapper
  interrupted,     \* wrappers that passed an interruption on to their child
  signals,         \* wrappers with a buffered signal
  workspace,       \* the Herdr workspace of the session
  delivered,       \* the wrapper command reached the pane
  interrupts,      \* how many interrupts cancellations sent to the pane
  outputs,         \* the captured stdout and stderr
  receipt,         \* the status of the run receipt
  collected        \* the outcome recorded in the receipt

journal   == <<events, state>>
processes == <<child, interrupted, signals>>
host      == <<workspace, delivered, interrupts>>
files     == <<outputs, receipt, collected>>
vars      == <<journal, pc, lease, processes, host, files>>

J == INSTANCE NativeJournal WITH
       Ids <- {e.id : e \in Calls}, OtherKinds <- ProviderKinds, Hosts <- {Binding},
       Reasons <- {"given", "launch is blocked"}, NoReason <- "none", Requests <- Calls

TerminalStates == J!TerminalStates

Claimed == J!Has(events, "wrapper-claim")
Started == J!Has(events, "wrapper-started")
CancelRequested == J!Has(events, "provider-cancel")
Bound == \E i \in DOMAIN events : events[i].host = Binding

ReceiptClosed == receipt \in {"failed", "closed"}

\* Where a wrapper is authorised and not finished.
Executing == {"outputs", "start", "startUncertain", "receipt", "receiptRejected",
              "precheck", "launch", "wait", "beforeStart", "exited", "outcomeUnknown",
              "completed", "failed", "canceledZero", "canceledNonzero"}

\* Where a wrapper buffers signals.  Earlier, a signal kills it: a crash.
Catching == {"claim", "outputs", "start", "receipt", "precheck", "launch", "wait"}

Resting == {"idle", "done"}
-----------------------------------------------------------------------------
Init ==
  /\ J!Init
  /\ pc = [p \in Procs |-> IF p = Spawner THEN "create" ELSE "idle"]
  /\ lease \in {IF mode THEN Nobody ELSE NoLease : mode \in LeaseModes}
  /\ child = [w \in Wrappers |-> "none"]
  /\ interrupted = [w \in Wrappers |-> FALSE]
  /\ signals = [w \in Wrappers |-> FALSE]
  /\ workspace = "absent"
  /\ delivered = FALSE
  /\ interrupts = 0
  /\ outputs = "absent"
  /\ receipt = "created"
  /\ collected = "none"

Leased == lease # NoLease

\* A process that comes to rest lets go of the lease.
Go(p, label) ==
  /\ pc' = [pc EXCEPT ![p] = label]
  /\ lease' = IF label \in Resting /\ lease = p THEN Nobody ELSE lease

Rest(p) == IF p \in Recoverers THEN "idle" ELSE "done"

\* Fault: the lease is taken whoever holds it.
SeizeLease(p, label) ==
  /\ lease' = p
  /\ pc' = [pc EXCEPT ![p] = label]

\* TryExecutionLease does not wait: a held lease sends its caller home.
TryLease(p, label) ==
  IF lease = Nobody
    THEN lease' = p /\ pc' = [pc EXCEPT ![p] = label]
    ELSE Go(p, Rest(p))

\* Fault: the journal is not asked whether it admits the event.
SubmitUnchecked(e) == J!Publish(e)

\* appendEvent: the event is published, was published before, or is refused.
Submit(e) ==
  IF J!Outcome(e) = "appended" THEN J!Publish(e) ELSE UNCHANGED journal

\* The last event of a process: whatever becomes of it, its caller returns.
Record(p) ==
  /\ pc[p] \in DOMAIN FinalEvent
  /\ Submit(FinalEvent[pc[p]])
  /\ Go(p, Rest(p))
  /\ UNCHANGED <<processes, host, files>>

Move(p, from, to) ==
  /\ pc[p] = from
  /\ Go(p, to)
  /\ UNCHANGED <<journal, processes, host, files>>

-----------------------------------------------------------------------------
(* Spawn.                                                                  *)

CommitIntent ==
  /\ pc[Spawner] = "create"
  /\ J!Create
  /\ Go(Spawner, "mkdir")
  /\ UNCHANGED <<processes, host, files>>

MakeWorkdir ==
  \/ Move(Spawner, "mkdir", "workspace")
  \/ Move(Spawner, "mkdir", "roleWorkspaceFailed")

\* The response may be valid, lost with or without effect, invalid, or an error.
CreateWorkspace ==
  /\ pc[Spawner] = "workspace"
  /\ \/ workspace' = "open" /\ Go(Spawner, "reserve")
     \/ workspace' \in {"absent", "open"} /\ Go(Spawner, "reconcile")
     \/ workspace' = "open" /\ Go(Spawner, "createInvalid")
     \/ workspace' = "absent" /\ Go(Spawner, "createFailed")
  /\ UNCHANGED <<journal, processes, delivered, interrupts, files>>

\* ListWorkspaces after a lost response; the list may fail too.
Reconcile ==
  \/ workspace = "open" /\ Move(Spawner, "reconcile", "createReconciled")
  \/ Move(Spawner, "reconcile", "createUncertain")

Reserve ==
  /\ pc[Spawner] = "reserve"
  /\ Submit(Reservation)
  /\ Go(Spawner, IF J!Outcome(Reservation) = "refused" THEN "done" ELSE "run")
  /\ UNCHANGED <<processes, host, files>>

\* The command is delivered, its response is lost with or without effect (the
\* spawner returns without resending), or the host rejects it.
SendCommand ==
  /\ pc[Spawner] = "run"
  /\ \/ delivered' = TRUE /\ Go(Spawner, "dispatchAck")
     \/ delivered' \in BOOLEAN /\ Go(Spawner, "done")
     \/ delivered' = FALSE /\ Go(Spawner, "dispatchRejected")
  /\ UNCHANGED <<journal, processes, workspace, interrupts, files>>

Spawn ==
  CommitIntent \/ MakeWorkdir \/ CreateWorkspace \/ Reconcile \/ Reserve \/ SendCommand
    \/ Record(Spawner)

-----------------------------------------------------------------------------
(* Execute.                                                                *)

\* The first load, without the lease.
BeginExecution(w) ==
  /\ delivered
  /\ Move(w, "idle",
          IF state # "dispatching" THEN "done" ELSE IF Leased THEN "lease" ELSE "validate")

AcquireLease(w) ==
  /\ pc[w] = "lease"
  /\ TryLease(w, "reload")
  /\ UNCHANGED <<journal, processes, host, files>>

Reload(w) == Move(w, "reload", IF state = "dispatching" THEN "validate" ELSE "done")

\* The executable, the receipt and the work directory are still the intended
\* ones; from here on the wrapper buffers signals.
ValidateIntent(w) ==
  \/ Move(w, "validate", "claim")
  \/ Move(w, "validate", "setupFailed")

\* ClaimExecution may publish and still report an error (the directory sync
\* after the rename failed), or fail before it.
ClaimExecution(w) ==
  /\ pc[w] = "claim"
  /\ \/ J!CanClaim /\ J!ClaimExecution(Claim) /\ Go(w, "outputs")
     \/ J!CanClaim /\ J!ClaimExecution(Claim) /\ Go(w, "claimError")
     \/ UNCHANGED journal /\ Go(w, "claimError")
     \/ ~J!CanClaim /\ UNCHANGED journal /\ Go(w, "done")
  /\ UNCHANGED <<processes, host, files>>

InspectClaim(w) ==
  Move(w, "claimError", IF state = "submitted" THEN "claimUncertain" ELSE "done")

\* Exclusive creation of the outputs: what another wrapper captured stays.
CreateOutputs(w) ==
  /\ pc[w] = "outputs"
  /\ \/ outputs = "absent" /\ outputs' = "partial" /\ Go(w, "start")
     \/ UNCHANGED outputs /\ Go(w, "setupFailed")
  /\ UNCHANGED <<journal, processes, host, receipt, collected>>

\* Fault: a refused start is taken for the retry of a start that was set up.
AssumeStarted(w) ==
  /\ pc[w] = "start"
  /\ IF J!CanStart THEN J!StartExecution(Start) /\ Go(w, "receipt")
                   ELSE UNCHANGED journal /\ Go(w, "launch")
  /\ UNCHANGED <<processes, host, files>>

\* StartExecution: granted, refused, or failed before or after publication.
StartExecution(w) ==
  /\ pc[w] = "start"
  /\ \/ J!CanStart /\ J!StartExecution(Start) /\ Go(w, "receipt") /\ UNCHANGED outputs
     \/ J!CanStart /\ J!StartExecution(Start) /\ Go(w, "startUncertain") /\ outputs' = "absent"
     \/ UNCHANGED journal /\ Go(w, "startUncertain") /\ outputs' = "absent"
     \/ ~J!CanStart /\ UNCHANGED journal /\ Go(w, "done") /\ outputs' = "absent"
  /\ UNCHANGED <<processes, host, receipt, collected>>

\* recordRoleLaunched: a receipt that is closed, or no longer the intended
\* one, keeps the child from starting.
RecordRoleLaunched(w) ==
  /\ pc[w] = "receipt"
  /\ \/ ~ReceiptClosed /\ receipt' = "running" /\ Go(w, "precheck") /\ UNCHANGED outputs
     \/ UNCHANGED receipt /\ Go(w, "receiptRejected") /\ outputs' = "absent"
  /\ UNCHANGED <<journal, processes, host, collected>>

\* The last look at the journal and at the buffered signals.
Precheck(w) ==
  /\ pc[w] = "precheck"
  /\ IF CancelRequested \/ signals[w]
       THEN Go(w, "beforeStart") /\ outputs' = "absent"
       ELSE Go(w, "launch") /\ UNCHANGED outputs
  /\ UNCHANGED <<journal, processes, host, receipt, collected>>

LaunchChild(w) ==
  /\ pc[w] = "launch"
  /\ \/ child' = [child EXCEPT ![w] = "running"] /\ Go(w, "wait") /\ UNCHANGED outputs
     \/ UNCHANGED child /\ Go(w, "setupFailed") /\ outputs' = "absent"
  /\ UNCHANGED <<journal, interrupted, signals, host, receipt, collected>>

\* A buffered signal, or the request found by the ticker, is passed on to the
\* process group once; a group that is already gone counts as interrupted.
PassOnInterrupt(w) ==
  /\ pc[w] = "wait"
  /\ ~interrupted[w]
  /\ CancelRequested \/ signals[w]
  /\ interrupted' = [interrupted EXCEPT ![w] = TRUE]
  /\ UNCHANGED <<journal, pc, lease, child, signals, host, files>>

\* Fault: an interrupted child is not waited for.
ReapInterrupted(w) ==
  /\ child[w] # "running" \/ interrupted[w]
  /\ Move(w, "wait", "exited")

\* Wait returned and the process group is gone.
ReapChild(w) ==
  /\ child[w] # "running"
  /\ Move(w, "wait", "exited")

\* Fault: the exit code alone decides.
VerdictByExit(w) == IF child[w] = "zero" THEN "completed" ELSE "failed"

Verdict(w) ==
  IF interrupted[w]
    THEN IF child[w] = "zero" THEN "canceledZero" ELSE "canceledNonzero"
    ELSE IF child[w] = "zero" THEN "completed" ELSE "failed"

\* The outputs may fail to close or to hash, the group to disappear, the exit
\* code to be known: then the outcome is unknown.
Conclude(w) ==
  /\ pc[w] = "exited"
  /\ \/ outputs' = "captured" /\ Go(w, Verdict(w))
     \/ UNCHANGED outputs /\ Go(w, "outcomeUnknown")
  /\ UNCHANGED <<journal, processes, host, receipt, collected>>

Execute(w) ==
  \/ BeginExecution(w) \/ AcquireLease(w) \/ Reload(w) \/ ValidateIntent(w)
  \/ ClaimExecution(w) \/ InspectClaim(w) \/ CreateOutputs(w) \/ StartExecution(w)
  \/ RecordRoleLaunched(w) \/ Precheck(w) \/ LaunchChild(w) \/ PassOnInterrupt(w)
  \/ ReapChild(w) \/ Conclude(w) \/ Record(w)

\* The child exits by itself or of its interruption, orphaned or not.
ChildExits(w) ==
  /\ child[w] = "running"
  /\ \E code \in {"zero", "nonzero"} : child' = [child EXCEPT ![w] = code]
  /\ UNCHANGED <<journal, pc, lease, interrupted, signals, host, files>>

\* SIGKILL, when the grace period after an interruption is over.
KillChild(w) ==
  /\ pc[w] = "wait" /\ interrupted[w] /\ child[w] = "running"
  /\ child' = [child EXCEPT ![w] = "nonzero"]
  /\ UNCHANGED <<journal, pc, lease, interrupted, signals, host, files>>

\* SIGINT or SIGTERM from outside Sentinel.
SignalWrapper(w) ==
  /\ pc[w] \in Catching
  /\ ~signals[w]
  /\ signals' = [signals EXCEPT ![w] = TRUE]
  /\ UNCHANGED <<journal, pc, lease, child, interrupted, host, files>>

-----------------------------------------------------------------------------
(* Cancel.                                                                 *)

\* What the first load decides.
BeginCancel(c) ==
  /\ events # <<>>
  /\ Move(c, "idle",
          IF state = "dispatching" THEN "requestEarly"
          ELSE IF state \in {"submitted", "running"} THEN "verify" ELSE "done")

Request(c, from, request, to) ==
  /\ pc[c] = from
  /\ Submit(request)
  /\ Go(c, IF J!Outcome(request) = "refused" THEN "done" ELSE to)
  /\ UNCHANGED <<processes, host, files>>

ReloadRequested(c) ==
  Move(c, "reloadEarly",
       IF Claimed THEN "verifyClaimed" ELSE IF Leased THEN "lease" ELSE "settle")

AcquireToSettle(c) ==
  /\ pc[c] = "lease"
  /\ TryLease(c, "recheck")
  /\ UNCHANGED <<journal, processes, host, files>>

RecheckClaim(c) == Move(c, "recheck", IF Claimed THEN "done" ELSE "settle")

\* The host confirms the pane that the journal names, or the caller gives up.
VerifyPane(c) ==
  \/ workspace = "open" /\ Move(c, "verify", "request")
  \/ workspace = "open" /\ Move(c, "verifyClaimed", "interrupt")
  \/ Move(c, "verify", "done")
  \/ Move(c, "verifyClaimed", "done")

ConfirmRequest(c) ==
  Move(c, "confirm", IF state \in TerminalStates THEN "done" ELSE "interrupt")

\* The interrupt reaches a wrapper in the pane, the shell behind it, or is not
\* delivered.
Interrupt(c) ==
  /\ pc[c] = "interrupt"
  /\ Go(c, "done")
  /\ \/ /\ interrupts' = interrupts + 1
        /\ \/ UNCHANGED signals
           \/ \E w \in Wrappers : pc[w] \in Catching /\ signals' = [signals EXCEPT ![w] = TRUE]
     \/ UNCHANGED <<interrupts, signals>>
  /\ UNCHANGED <<journal, child, interrupted, workspace, delivered, files>>

ContinueCancel(c) ==
  \/ Request(c, "requestEarly", EarlyRequest, "reloadEarly")
  \/ Request(c, "request", LateRequest, "confirm")
  \/ ReloadRequested(c) \/ AcquireToSettle(c) \/ RecheckClaim(c) \/ VerifyPane(c)
  \/ ConfirmRequest(c) \/ Interrupt(c) \/ Record(c)

Cancel(c) == BeginCancel(c) \/ ContinueCancel(c)

-----------------------------------------------------------------------------
(* Recover.                                                                *)

\* What the record calls for once no wrapper decides.
Classified ==
  IF ~Bound THEN IF state \in {"prepared", "indeterminate"} THEN "list" ELSE "idle"
  ELSE IF state \in {"dispatching", "submitted", "running", "cancel-requested"} THEN "pane"
  ELSE "idle"

BeginRecovery(r) ==
  /\ events # <<>>
  /\ state \notin TerminalStates
  /\ Move(r, "idle", IF Leased THEN "lease" ELSE Classified)

AcquireToRecover(r) ==
  /\ pc[r] = "lease"
  /\ TryLease(r, "reload")
  /\ UNCHANGED <<journal, processes, host, files>>

\* Fault: recovery goes by what the host shows.
DiagnoseByHost(r) ==
  Move(r, "reload", IF state \in TerminalStates THEN "idle" ELSE Classified)

\* The record is read again under the lease.
Diagnose(r) ==
  Move(r, "reload",
       IF state \in TerminalStates THEN "idle"
       ELSE IF state = "cancel-requested" /\ ~Started
         THEN IF Claimed THEN "settleUnstarted" ELSE "settleUnclaimed"
       ELSE IF Claimed THEN "markLost" ELSE Classified)

\* A unique match, no unique match, or an error.
ListWorkspaces(r) ==
  \/ workspace = "open" /\ Move(r, "list", "bound")
  \/ workspace # "open" /\ Move(r, "list", "unbound")
  \/ Move(r, "list", "idle")

CheckPane(r) ==
  \/ workspace = "open" /\ Move(r, "pane", "idle")
  \/ Move(r, "pane", "hostUncertain")

Recover(r) ==
  \/ BeginRecovery(r) \/ AcquireToRecover(r) \/ Diagnose(r) \/ ListWorkspaces(r)
  \/ CheckPane(r) \/ Record(r)

-----------------------------------------------------------------------------
(* The operators, and the crashes.                                         *)

\* Collect: the verdict enters the receipt, once; captured outputs are
\* compared with the digests of the verdict.
Collect ==
  /\ state \in TerminalStates
  /\ events[Len(events)].digests => outputs = "captured"
  /\ collected = "none" /\ ~ReceiptClosed
  /\ collected' = state
  /\ receipt' = IF state = "completed" THEN receipt ELSE "failed"
  /\ UNCHANGED <<journal, pc, lease, processes, host, outputs>>

\* The operator sets a terminal status of the run.
CloseReceipt ==
  /\ ~ReceiptClosed
  /\ receipt' = "closed"
  /\ UNCHANGED <<journal, pc, lease, processes, host, outputs, collected>>

\* Fault: a session given up for lost counts as settled.
SettledOrLost == state \in TerminalStates \union {"indeterminate"}

\* The process outcome is known, or it is proven that none was started.
Settled ==
  /\ state \in TerminalStates
  /\ \/ events[Len(events)].kind = "wrapper-terminal"
     \/ events[Len(events)].kind \in J!PreStartKinds

CloseOwnedWorkspace ==
  /\ Settled
  /\ workspace = "open"
  /\ workspace' = "closed"
  /\ UNCHANGED <<journal, pc, lease, processes, delivered, interrupts, files>>

\* The kernel drops the lease of a dead process; its child lives on.
Crash(p) ==
  /\ pc[p] \notin Resting
  /\ Go(p, "done")
  /\ UNCHANGED <<journal, processes, host, files>>

Next ==
  \/ Spawn
  \/ \E w \in Wrappers : Execute(w) \/ ChildExits(w) \/ KillChild(w) \/ SignalWrapper(w)
  \/ \E c \in Cancelers : Cancel(c)
  \/ \E r \in Recoverers : Recover(r)
  \/ \E p \in Procs \ Recoverers : Crash(p)
  \/ Collect \/ CloseReceipt \/ CloseOwnedWorkspace

Spec == Init /\ [][Next]_vars

(***************************************************************************)
(* A process that has begun goes on unless it crashes (the scheduler of    *)
(* the operating system), a child that was interrupted is killed when its  *)
(* grace period is over (a timer of the wrapper), and the operator runs    *)
(* the recovery again as long as the session is open.  Nothing obliges     *)
(* anyone to cancel, the shell to run the command or a child to exit.      *)
(***************************************************************************)
Fairness ==
  /\ WF_vars(Spawn)
  /\ \A w \in Wrappers : WF_vars(pc[w] # "idle" /\ Execute(w)) /\ WF_vars(KillChild(w))
  /\ \A c \in Cancelers : WF_vars(ContinueCancel(c))
  /\ \A r \in Recoverers : WF_vars(Recover(r))

FairSpec == Spec /\ Fairness

-----------------------------------------------------------------------------
(***************************************************************************)
(* However often the command is delivered or rerun, whoever crashes, one   *)
(* child is started at most, and never without a recorded start, also for  *)
(* the journals without a lease ("duplicate wrappers exit without touching *)
(* the process", Execute).                                                 *)
(***************************************************************************)
OneChild ==
  \A w \in Wrappers : child[w] # "none" =>
    /\ Started
    /\ \A v \in Wrappers : child[v] # "none" => v = w

(***************************************************************************)
(* The verdict is true of the child: a conclusion of the wrapper names the *)
(* exit of a child that did run, with its outputs captured; any other      *)
(* verdict means that no child was ever started, nor will be.  It takes    *)
(* every writer of the journal to keep this: the spawner's observations,   *)
(* failed set-ups, the settlements of cancel and recover.  Without a lease *)
(* a failed set-up of a second wrapper is taken for the session's.         *)
(***************************************************************************)
VerdictMatchesChild ==
  (state \in TerminalStates /\ Leased) =>
    LET verdict == events[Len(events)] IN
    IF verdict.kind = "wrapper-terminal"
      THEN outputs = "captured" /\ \E w \in Wrappers : child[w] = verdict.exit
      ELSE \A w \in Wrappers : child[w] = "none" /\ pc[w] \notin {"precheck", "launch"}

(***************************************************************************)
(* A cancellation recorded before the start keeps the child from being     *)
(* started for good ("The durable request blocks StartExecution if it has  *)
(* not started yet", Cancel).                                              *)
(***************************************************************************)
CancelBlocksLaunch ==
  \A i \in DOMAIN events :
    /\ events[i].kind = "provider-cancel"
    /\ \A j \in 1 .. i : events[j].kind # "wrapper-started"
    => \A w \in Wrappers : child[w] = "none"

(***************************************************************************)
(* Sentinel closes the workspace only when no child of the session is left *)
(* in it, orphans of a crashed wrapper included (CloseOwnedWorkspace).     *)
(***************************************************************************)
ClosedWhenQuiet ==
  workspace = "closed" =>
    \A w \in Wrappers : child[w] # "running" /\ pc[w] \notin {"receipt", "precheck", "launch"}

(***************************************************************************)
(* A receipt that reports a completed role had a child that exited with    *)
(* zero without being interrupted, and reports what the journal reports    *)
(* (Collect).                                                              *)
(***************************************************************************)
CollectedIsVerdict ==
  collected # "none" =>
    /\ collected = state
    /\ collected = "completed" =>
         \E w \in Wrappers : child[w] = "zero" /\ ~interrupted[w]

(***************************************************************************)
(* Nobody settles a session, or gives its wrapper up for lost, while a     *)
(* wrapper is authorised to run or running ("native wrapper holds the      *)
(* execution lease; journal was not changed", Recover), if the session has *)
(* a lease.                                                                *)
(***************************************************************************)
LeaseGuardsRecovery ==
  [][\A i \in DOMAIN events' \ DOMAIN events :
       /\ Leased
       /\ events'[i].kind \in {"provider-canceled-before-claim",
                               "provider-canceled-before-start", "provider-recovery"}
       => \A w \in Wrappers : pc[w] \notin Executing]_vars

\* The processes use the journal as NativeJournal allows any caller to.
JournalSpec == J!Spec

\* The child of the session: whichever wrapper started it.
Process ==
  IF \A w \in Wrappers : child[w] = "none" THEN "none"
  ELSE child[CHOOSE w \in Wrappers : child[w] # "none"]

P == INSTANCE SessionPromise WITH
       process <- Process,
       verdict <- IF state \in TerminalStates THEN state ELSE "none",
       report <- collected,
       closed <- workspace = "closed"

(***************************************************************************)
(* The session keeps the promise of SessionPromise at every step: a child  *)
(* is started only while the session is undecided, the verdict follows     *)
(* from that child and is final, the report and the closing follow it.     *)
(***************************************************************************)
PromiseKept == P!Spec

(***************************************************************************)
(* The request of a cancellation is answered: the session gets its verdict *)
(* or is known to be undecidable, whoever crashes, if recovery is retried. *)
(***************************************************************************)
CancelIsAnswered ==
  state = "cancel-requested" ~> state \in TerminalStates \union {"indeterminate"}

(***************************************************************************)
(* A claimed session whose wrapper died does not stay submitted or running *)
(* for ever: recovery finds the lease free and says so.                    *)
(***************************************************************************)
LostWrapperIsNoticed ==
  /\ state \in {"submitted", "running"}
  /\ \A w \in Wrappers : pc[w] = "done"
  ~> state \in TerminalStates \union {"indeterminate"}

(***************************************************************************)
(* What the journal records of a cancellation is true: when it says that   *)
(* the launch is blocked, no child is started.                             *)
(***************************************************************************)
BlockedLaunchIsBlocked ==
  (\E i \in DOMAIN events : events[i].reason = "launch is blocked") =>
    \A w \in Wrappers : child[w] = "none"
=============================================================================
