------------------------------- MODULE RunReceipt -------------------------------
(***************************************************************************)
(* Lifecycle receipts of herdr-sentinel (internal/run) and the commands    *)
(* that write them: host events and signed callbacks (internal/adapter,    *)
(* internal/callbackauth), local sessions (internal/session), delegated    *)
(* Sorna runs and the run subcommands (cmd/sentinel).  An update locks the *)
(* receipt, loads it, applies a change to it and replaces the file; two    *)
(* commands write without the lock: run bootstrap, and any that is given   *)
(* another path as its --output.  Times are readings of one clock, except  *)
(* those that host events bring.                                           *)
(***************************************************************************)
EXTENDS Naturals, Sequences, SequencesExt

CONSTANTS
  Sentinels,    \* invocations of sentinel
  Paths,        \* receipt files of one workspace
  Batches,      \* unsigned events of the host, each [run, events]
  Callbacks,    \* signed ones, each [run, issued, expires, events]
  Statuses,     \* those that run status is given
  Artifacts,    \* artifacts that run artifact is given
  Skew,         \* ClockSkew
  MaxLifetime,
  Unlocked, Null, Refused,
  MaxStarts,    \* bound on commands, with MaxBootstraps on runs
  MaxBootstraps,
  MaxTime       \* bound on the clock

HostEvents == UNION {ToSet(batch.events) : batch \in Batches \union Callbacks}

ASSUME ReceiptAssumption ==
  /\ \A batch \in Batches \union Callbacks : batch.events \in Seq(HostEvents)
  /\ \A e \in HostEvents : e.at \in Nat
  /\ Unlocked \notin Sentinels

VARIABLES
  receipts,     \* path -> receipt, or Null
  held,         \* path -> holder of its lock file
  writer,       \* what each process does
  clock, starts,
  runs,         \* runs bootstrapped
  intruded      \* history: receipts written without the lock while it is held

receiptVars == <<receipts, held, writer, clock, starts, runs, intruded>>

NoCommand == [kind |-> "idle"]

-----------------------------------------------------------------------------
(* Receipts.                                                               *)

Event(type, source, at, status, uses) ==
  [type |-> type, source |-> source, at |-> at, status |-> status, uses |-> uses]

NewReceipt(run) ==
  [run |-> run, status |-> "created", created |-> clock, updated |-> clock,
   events |-> <<Event("workspace-created", Null, clock, Null, {})>>, artifacts |-> {}]

Sourced(r) == {i \in DOMAIN r.events : r.events[i].source # Null}

\* Validate, of what the changes below can get wrong.
Valid(r) ==
  /\ r.created <= r.updated
  /\ \A i \in DOMAIN r.events :
       /\ r.created <= r.events[i].at /\ r.events[i].at <= r.updated
       /\ r.events[i].uses \subseteq r.artifacts
  /\ \A i, j \in Sourced(r) : r.events[i].source = r.events[j].source => i = j

Checked(r) == IF Valid(r) THEN r ELSE Refused

Terminal == {"completed", "failed", "blocked", "cleaned"}

ValidTransition(from, to) ==
  from = to \/ from \notin Terminal \/ (from # "cleaned" /\ to = "cleaned")

AppendEvent(r, e) ==
  IF r = Refused THEN Refused
  ELSE Checked([r EXCEPT !.events = Append(@, e), !.updated = e.at])

SetStatus(r, status, at) ==
  IF r = Refused \/ ~ValidTransition(r.status, status) THEN Refused
  ELSE Checked([r EXCEPT !.status = status, !.updated = at])

\* AddArtifact refuses an ID that is taken; RegisterArtifact accepts its repetition.
AddArtifact(r, id)      == IF id \in r.artifacts THEN Refused ELSE [r EXCEPT !.artifacts = @ \union {id}]
RegisterArtifact(r, id) == [r EXCEPT !.artifacts = @ \union {id}]

-----------------------------------------------------------------------------
(* Host events.                                                            *)

Apply(r, e, run) ==
  IF r = Refused \/ run # r.run \/ ~(e.uses \subseteq r.artifacts) THEN Refused
  ELSE IF \E i \in Sourced(r) : r.events[i].source = e.source
  THEN IF e \in ToSet(r.events) THEN r ELSE Refused
  ELSE IF e.at < r.updated THEN Refused
  ELSE IF e.status = Null THEN AppendEvent(r, e) ELSE SetStatus(AppendEvent(r, e), e.status, e.at)

ApplyAll(r, batch) ==
  LET after[n \in 0..Len(batch.events)] ==
        IF n = 0 THEN r ELSE Apply(after[n - 1], batch.events[n], batch.run)
  IN  after[Len(batch.events)]

InWindow(envelope, now) ==
  /\ envelope.issued <= now + Skew /\ envelope.issued < envelope.expires
  /\ envelope.expires - envelope.issued <= MaxLifetime /\ now < envelope.expires

-----------------------------------------------------------------------------
(* Commands start.                                                         *)

\* A command fails at once when there is no receipt where it is told to read one.
BeginCommand(p, path, next) ==
  /\ writer[p] = NoCommand /\ starts < MaxStarts
  /\ receipts[path] # Null
  /\ starts' = starts + 1
  /\ writer' = [writer EXCEPT ![p] = next]
  /\ UNCHANGED <<receipts, held, clock, runs, intruded>>

\* `at` is when the command read the clock, `base` the receipt that it loaded,
\* `name` sets its artifacts apart, `result` tells that Sorna left its run.json.
NewCommand(kind, path, arg) ==
  [kind |-> kind, phase |-> "wait", path |-> path, arg |-> arg,
   at |-> clock, base |-> Null, name |-> starts, result |-> FALSE]

StartUpdate(p, kind, path, arg) == BeginCommand(p, path, NewCommand(kind, path, arg))

\* A callback is verified against the receipt before the lock is asked for.
StartCallback(p, path, envelope) ==
  /\ receipts[path] # Null /\ InWindow(envelope, clock)
  /\ ApplyAll(receipts[path], envelope) # Refused
  /\ BeginCommand(p, path, NewCommand("callback", path, envelope))

\* Another path is given as --output: what the change makes of the receipt goes there.
StartFork(p, path, output, forked) ==
  /\ receipts[path] # Null /\ forked # Refused
  /\ BeginCommand(p, path, [NewCommand("fork", output, Null) EXCEPT !.phase = "save", !.base = forked])

-----------------------------------------------------------------------------
(* The change that a command makes to the receipt it loaded.               *)

\* Mutant: the window is checked at the time of the verification.
LockedNowStale(p) == writer[p].at

LockedNow(p) == clock

SessionFiles(w) == {<<"session", w.name>>}

SessionLaunch(w, r) ==
  AppendEvent(SetStatus(r, "running", w.at), Event("role-launched", Null, w.at, "running", {}))

\* An oracle's run and a verifier's begin alike.
DelegatedLaunch(r) ==
  AppendEvent(
    AppendEvent(
      SetStatus(AddArtifact(r, <<"policy">>), "running", clock),
      Event("policy-applied", Null, clock, Null, {<<"policy">>})),
    Event("sorna-started", Null, clock, Null, {<<"policy">>}))

RecordLaunch(p, r) ==
  IF writer[p].kind = "session" THEN SessionLaunch(writer[p], r) ELSE DelegatedLaunch(r)

\* A session and an oracle's run bear the time at which the child had ended,
\* a verifier's that of the update.
SessionCompletion(w, r) ==
  LET done == AppendEvent(RegisterArtifact(r, <<"session", w.name>>),
                Event("role-completed", Null, w.at, w.arg, SessionFiles(w)))
  IN  IF w.arg = "failed" THEN SetStatus(done, "failed", w.at) ELSE done

OracleCompletion(w, r) ==
  SetStatus(AppendEvent(r, Event("sorna-completed", Null, w.at, Null, {<<"policy">>})), w.arg, clock)

VerifierCompletion(w, r) ==
  LET added == IF w.result THEN AddArtifact(r, <<"sorna-run">>) ELSE r
      uses  == {<<"policy">>} \union (IF w.result THEN {<<"sorna-run">>} ELSE {})
  IN  SetStatus(AppendEvent(added, Event("sorna-completed", Null, clock, Null, uses)), w.arg, clock)

RecordCompletion(p, r) ==
  CASE writer[p].kind = "session"  -> SessionCompletion(writer[p], r)
    [] writer[p].kind = "oracle"   -> OracleCompletion(writer[p], r)
    [] writer[p].kind = "verifier" -> VerifierCompletion(writer[p], r)

Changed(p) ==
  LET w == writer[p]
      r == w.base IN
  CASE w.kind = "status"   -> SetStatus(r, w.arg, clock)
    [] w.kind = "artifact" -> RegisterArtifact(r, w.arg)
    [] w.kind = "events"   -> ApplyAll(r, w.arg)
    [] w.kind = "callback" -> IF InWindow(w.arg, LockedNow(p)) THEN ApplyAll(r, w.arg) ELSE Refused
    [] OTHER               -> IF w.arg = Null THEN RecordLaunch(p, r) ELSE RecordCompletion(p, r)

-----------------------------------------------------------------------------
(* UpdateFile.                                                             *)

\* Mutant: the lock is shared.
LockShared(path) == TRUE

LockFree(path) == held[path] = Unlocked

Lock(p) ==
  /\ writer[p] # NoCommand /\ writer[p].phase = "wait"
  /\ LET path == writer[p].path IN
     /\ LockFree(path) /\ receipts[path] # Null
     /\ held' = [held EXCEPT ![path] = p]
     /\ writer' = [writer EXCEPT ![p].phase = "locked", ![p].base = receipts[path]]
     /\ intruded' = intruded \ {path}
  /\ UNCHANGED <<receipts, clock, starts, runs>>

Unlock(p) == held' = [path \in Paths |-> IF held[path] = p THEN Unlocked ELSE held[path]]

LaunchesChild(w) == w.kind \in {"session", "oracle", "verifier"} /\ w.arg = Null

\* Registrations and host events that the receipt already has are not written.
Unchanged(p) == writer[p].kind \in {"artifact", "events", "callback"} /\ Changed(p) = writer[p].base

PublishReceipt(p) ==
  /\ writer[p] # NoCommand /\ writer[p].phase = "locked"
  /\ LET w == writer[p] IN
     /\ receipts' = IF Changed(p) = Refused \/ Unchanged(p) THEN receipts
                    ELSE [receipts EXCEPT ![w.path] = Changed(p)]
     /\ writer' = [writer EXCEPT ![p] =
          IF Changed(p) # Refused /\ LaunchesChild(w) THEN [w EXCEPT !.phase = "child", !.base = Null]
          ELSE NoCommand]
  /\ Unlock(p)
  /\ UNCHANGED <<clock, starts, runs, intruded>>

\* The child ends, and the command asks for the lock again.
ChildEnds(p) ==
  /\ writer[p] # NoCommand /\ writer[p].phase = "child"
  /\ \E status \in {"completed", "failed"}, result \in IF writer[p].kind = "verifier" THEN BOOLEAN ELSE {FALSE} :
       writer' = [writer EXCEPT ![p].phase = "wait", ![p].arg = status, ![p].at = clock, ![p].result = result]
  /\ UNCHANGED <<receipts, held, clock, starts, runs, intruded>>

\* The command dies, or fails for a reason that is not modelled.
FailCommand(p) ==
  /\ writer[p] # NoCommand
  /\ writer' = [writer EXCEPT ![p] = NoCommand]
  /\ Unlock(p)
  /\ UNCHANGED <<receipts, clock, starts, runs, intruded>>

-----------------------------------------------------------------------------
(* Writers that do not lock.                                               *)

Intrude(path) == intruded' = IF held[path] = Unlocked THEN intruded ELSE intruded \union {path}

SaveFork(p) ==
  /\ writer[p] # NoCommand /\ writer[p].phase = "save"
  /\ receipts' = [receipts EXCEPT ![writer[p].path] = writer[p].base]
  /\ writer' = [writer EXCEPT ![p] = NoCommand]
  /\ Intrude(writer[p].path)
  /\ UNCHANGED <<held, clock, starts, runs>>

\* run bootstrap begins a run of its own and replaces the file.
Bootstrap(path) ==
  /\ runs < MaxBootstraps
  /\ runs' = runs + 1
  /\ receipts' = [receipts EXCEPT ![path] = NewReceipt(runs + 1)]
  /\ Intrude(path)
  /\ UNCHANGED <<held, writer, clock, starts>>

Tick == clock < MaxTime /\ clock' = clock + 1 /\ UNCHANGED <<receipts, held, writer, starts, runs, intruded>>

-----------------------------------------------------------------------------
ReceiptInit ==
  /\ receipts = [path \in Paths |-> Null]
  /\ held = [path \in Paths |-> Unlocked]
  /\ writer = [p \in Sentinels |-> NoCommand]
  /\ clock = 0 /\ starts = 0 /\ runs = 0 /\ intruded = {}

StartCommand(p, path) ==
  \/ \E status \in Statuses : StartUpdate(p, "status", path, status)
  \/ \E id \in Artifacts : StartUpdate(p, "artifact", path, id)
  \/ \E batch \in Batches : StartUpdate(p, "events", path, batch)
  \/ \E kind \in {"session", "oracle", "verifier"} : StartUpdate(p, kind, path, Null)
  \/ \E envelope \in Callbacks : StartCallback(p, path, envelope)
  \/ \E output \in Paths \ {path} :
       \/ \E batch \in Batches : StartFork(p, path, output, ApplyAll(receipts[path], batch))
       \/ \E id \in Artifacts : StartFork(p, path, output, RegisterArtifact(receipts[path], id))

ReceiptNext ==
  \/ \E p \in Sentinels :
       \/ \E path \in Paths : StartCommand(p, path)
       \/ Lock(p) \/ PublishReceipt(p) \/ ChildEnds(p) \/ FailCommand(p) \/ SaveFork(p)
  \/ \E path \in Paths : Bootstrap(path)
  \/ Tick

ReceiptSpec == ReceiptInit /\ [][ReceiptNext]_receiptVars

-----------------------------------------------------------------------------
(* Properties.                                                             *)

\* p's update replaces the file.
Updates(p, path) ==
  /\ writer[p] # NoCommand /\ writer[p].phase = "locked" /\ writer[p].path = path
  /\ writer'[p] # writer[p] /\ receipts'[path] # receipts[path]

\* However commands interleave, a locked update only adds to the receipt that
\* is there: it loses no event and no artifact, puts events in the order of
\* their times, and a receipt leaves a terminal status only to be cleaned
\* (run/update.go:9, run.go:271-292).  Exempt is an update during which a
\* command wrote without the lock.
ReceiptGrows ==
  [][\A p \in Sentinels, path \in Paths :
       (Updates(p, path) /\ path \notin intruded) =>
         LET old == receipts[path]
             new == receipts'[path] IN
         /\ new.run = old.run /\ old.artifacts \subseteq new.artifacts
         /\ IsPrefix(old.events, new.events)
         /\ \A i, j \in DOMAIN new.events : i < j => new.events[i].at <= new.events[j].at
         /\ old.status \in Terminal => new.status \in {old.status, "cleaned"}]_receiptVars

\* A callback changes only a receipt of the run that it was signed for, while it
\* has not expired, and as a whole: all its events are there, and no event of
\* the host twice (callbackauth.go:205-207).
CallbackIsCurrent ==
  [][\A p \in Sentinels, path \in Paths :
       (Updates(p, path) /\ writer[p].kind = "callback") =>
         LET new == receipts'[path]
             envelope == writer[p].arg IN
         /\ new.run = envelope.run /\ clock < envelope.expires
         /\ ToSet(envelope.events) \subseteq ToSet(new.events)
         /\ \A i, j \in Sourced(new) : new.events[i].source = new.events[j].source => i = j]_receiptVars
================================================================================
