# InGen in TLA+

A model of the stateful core of InGen: TLA+ modules translated from the source,
TLC runs that check them on small instances, and TLAPS proofs of what matters
most for instances of every size.  Paths are relative to the repository.  The
source lines that each definition stands for are in `PROJECT.json` under "map",
the hazards that the properties are for under "hazards".

1. [The system](#1-the-system)
2. [The modules and the code](#2-the-modules-and-the-code)
3. [The runs](#3-the-runs)
4. [Fairness](#4-fairness)
5. [The proofs](#5-the-proofs)
6. [Findings](#6-findings)
7. [What is not modelled](#7-what-is-not-modelled)
8. [Plan](#8-plan)

## 1. The system

InGen is a set of tools around verification that can be held against the code:
contracts are governed (Hammond), verified (Sorna, Malcolm, Paddock), worked on
by agents under supervision (herdr-sentinel), collected for CI (Nublar), kept
(Lockwood), traced (Amber) and compared over time (Sattler).  Almost all of it
is command-line programs that share files.  No server holds the state, and two
invocations may always run at once.  What protects them is advisory file locks,
exclusive creation, publication by link or rename, and records that are only
appended to.  That is where the hard behaviour of this system lives.

| Component | State it keeps | Operations | What is hard | What makes it correct |
|---|---|---|---|---|
| Sentinel native journal (`nativejournal`) | one append-only file per session: events and the state they replay to | Create, Append, ClaimExecution, StartExecution | callers race; retries; late acknowledgements; evidence about what did not happen | one claim and one start; nothing after a verdict; pre-start evidence is true |
| Sentinel native sessions (`nativesession`) | the journal, an execution lease, the child and its outputs, a Herdr workspace, the run receipt | Spawn, Execute, Cancel, Recover, Collect, CloseOwnedWorkspace | a crash between any two steps; lost host responses; signals; cancellation racing a start | one child; a verdict that is true of it; a cancellation that is answered |
| Responses broker (`codexbroker`) | budget, requests in flight, closed, counters | ServeHTTP, Close, Snapshot | goroutines racing the close, the budget and the deadline | the credential is used once at a time, within the budget and not after closing; a report stays true |
| Role execution (`roleexec`, `evidence`) | per execution ID: claim, scratch, prompt snapshot, captures, report | Execute; collectors verify | a death after the claim; inputs edited in between; a descendant that outlives the child; signals and failures at the end | one child per ID, over inputs read as pinned after the claim; a report that is true and that collectors accept |
| Run receipts, callbacks, local sessions (`run`, `callbackauth`, `adapter`, `session`) | receipt file: status, events, artifacts | UpdateFile, SetStatus, Register, Accept, session start and end, bootstrap | read, modify, write under a lock, with two writers that do not lock; verification against a receipt read earlier | no update lost; a batch is applied whole, once, in its window and to its run |
| Hammond registry (`store`, `governance`) | records of contract versions: history and state | Register, AppendEvent, CreateAmendment, Supersede | two files for one amendment; review cycles; lineages | approval by a quorum of its own cycle; a valid registry |
| Hammond authority | roots, snapshots, memberships | rotation, membership ledger | time, thresholds, monotonic ledgers | trust only moves forward |
| Nublar delivery (`githubchecks`) | GitHub's check runs, delivery receipts | Publish, `run deliver` | requests whose outcome is unknown; a paged list that changes | one check run per Nublar run; an exit code that is the truth |
| Nublar runs (`run`, `storage`) | run artifacts, written once | Collect, Save | exclusive publication | a run never changes |
| Lockwood (`custody`, `store`) | blobs, references, custody records, handling events | put, import, recover, append-event, register-redaction, promote-redaction, reconcile | interrupted intakes, racing publications, loss of power, a scan during writes | nothing accepted without what backs it; redactions respect holds and the chain |
| Sorna runs (`lifecycle`, `runner`, `evidence`) | a subject process and its group, an evidence bundle | `sorna run`, `evidence replay` | the subject exits while it is started or stopped; helpers; a death that leaves half a bundle | the verdict is what was observed; a verified bundle is one run's; the command ends |
| Sorna campaigns (`mutation`) | evidence directories, the campaign result | `mutation run`, `mutation verify` | restarts over the same directories; evidence made anew | success means every mutation was killed; what is passed is there now |
| Amber (`storage`, propagation) | provenance records by idempotency key | Create, Retry, Replay, Inject, Extract | a lock that is the process's own | no record lost, one per key |
| Paddock, Sattler, Malcolm | none | check, compare, parse | graphs, series, grammars | agreement with a reference definition |
| core | none | schema validation | | |

Interaction.  Sentinel's `session` commands work on one journal each and on the
run receipt they share; the wrapper they send to a Herdr pane is another process
of the same program.  The broker serves the role child of one role execution or
readiness probe.  Collection moves the verdict of a session into the receipt;
receipts become CI results for Nublar, which delivers them, and artifacts for
Lockwood; Hammond's approved contracts pin what Sorna and Sentinel verify; a
campaign starts `sorna run` once per mutation and reads the bundle it leaves.
All of these are files addressed by path and digest: no component calls another
one's functions across a trust boundary.  Each module below therefore stands
alone, but for `NativeSession`, which uses `NativeJournal`, and the modules of
Sorna, which share `RunVerdict`.

## 2. The modules and the code

| Module | Stands for | Uses |
|---|---|---|
| `NativeJournal` | `herdr-sentinel/internal/nativejournal/journal.go` | |
| `NativeSession` | `herdr-sentinel/internal/nativesession/{native,process_unix,process_info}.go`, the status of `run` receipts | `NativeJournal` (INSTANCE), `SessionPromise` (refinement) |
| `SessionPromise` | what readers of a verdict may rely on (abstract) | |
| `CodexBroker` | `herdr-sentinel/internal/codexbroker/broker.go`, its callers in `roleexec` and `agentprobe` | `BrokerPromise` (refinement) |
| `BrokerPromise` | what the owner of the credential may rely on (abstract) | |
| `RoleExecution` | `herdr-sentinel/internal/roleexec/{roleexec,process_unix}.go`, `validateReport` of `herdr-sentinel/evidence/evidence.go` | |
| `RunReceipt` | `herdr-sentinel/internal/{run,callbackauth,adapter,session}`, the `run` and `oracle` commands of `cmd/sentinel/main.go` | |
| `HammondStore` | `hammond/internal/store/filesystem.go` over `hammond/internal/governance/{validate,lifecycle,policy,lineage}.go` | |
| `ChecksDelivery` | `nublar/internal/delivery/githubchecks/githubchecks.go`, `deliverDecision` of `nublar/cmd/nublar/main.go`, the receipt store | |
| `LockwoodCustody` | `lockwood/internal/{store,custody}`, the commands of `lockwood/cmd/lockwood/main.go` that publish | |
| `RunVerdict` | what Sorna concludes from answers: statuses, verdicts, exit codes, the gate, the comparison of replays (no state) | |
| `SubjectRun` | `sorna/internal/lifecycle/process.go`, `runner`, `evidence`, the managed part of `sorna run` | `RunVerdict` (EXTENDS) |
| `MutationCampaign` | `sorna mutation run` and `sorna mutation verify` | `RunVerdict` |
| `RunReplay` | `sorna evidence replay` | `RunVerdict` |
| `MC*` | the instances that TLC checks | |
| `*Proofs` | the proofs | |

`MCSorna` and `MCStores` gather three modules each.  Their variable `part` is
chosen initially and says which of the three moves; the other two stay as they
are.  The state space is the sum of the three, and one run answers for them.

Operators marked "Fault" or "Mutant" in a comment are variants of the definition
below them, with a plausible bug.  Nothing else uses them: each takes the place
of its definition once, to see that a property notices.

### NativeJournal

`events` is the list of published events, `state` what they replay to.  Every
writer holds the file lock from its load to its rename, so that an operation is
one step; a refusal and an exact retry are stuttering steps.  `Outcome` is the
order of the checks of `appendRecord`; `Transition` the transition table with
the special cases of late acknowledgements and terminal evidence; `Grant`,
`ClaimExecution` and `StartExecution` the two operations that authorise a
wrapper.  Callers are arbitrary (`Requests`).  Event times, the launch intent
and the wording of reasons are abstracted.

### NativeSession

Processes with a program counter: the spawner, wrappers, cancelers, recoverers;
operators act in one step.  A step is one locked journal operation, one call of
the host, or one look at the child.  Labels are named for what comes next
("claim", "receipt", "wait"), and the labels in `FinalEvent` for the event with
which a process ends.  `lease` is the advisory lock on the execution (or
`NoLease`, for journals of an earlier version), which a crash frees; `child`,
`interrupted` and `signals` belong to the wrappers; `workspace`, `delivered`
and `interrupts` to the host; `outputs`, `receipt` and `collected` are files.
What the code handles as an error is a free choice of its step, and every
process may crash between two steps.  An append that fails outright is the
crash before it.  Identity checks (hashes, inodes, process groups) pass or fail
freely.

### CodexBroker

One process per request, one per closer (the callers and the watcher of the
lifetime), and the goroutine that drains.  A step is one critical section of
`s.mu`, one wait or one outgoing call.  A wait group is the set of requests it
counts; the bounded wait of Close is the result "deadline", which is always
possible.  Which requests are well formed is a free choice at each of the three
stages of validation.

### HammondStore

`records` are the files, `state` the state in each.  A mutation holds the store
lock and is one step, but `CreateAmendment` writes two files, so that it has
three outcomes: both, the successor alone (a crash or a failed sync), or, when
the rollback fails too, the predecessor alone.  `Valid` and `ValidIn` are the
rules of one record, `Quorum` the review policy, `ValidLineage` the rules of a
set of records, applied to two of them by the operations and to all by `hammond
lineage`.  There is one policy and one authority snapshot; the conditional
variants of the operations are the same steps with one more guard.

### ChecksDelivery

Each publisher is one `nublar run deliver` of the same run.  `checks` are the
check runs that GitHub has for the commit and the check name, oldest first, with
whether the list shows them and whose bodies they have carried.  A step is one
request, with its effect on GitHub and what the publisher learns of it.
"find" is the lookup before anything is written, "confirm" the one after a POST
of unknown outcome.  GitHub may list a check run late (`MayLag`), other Nublar
runs add check runs between two pages, and publishers overlap as they like.
The deadline is not a variable: giving up is always possible.  `known`,
`overlapped` and `lagged` are history variables that the properties need.

### RoleExecution

Each invocation of `sentinel role execute` is a process; several may be handed
one execution ID.  `claims`, `scratch`, `prompts`, `captures` and `reports` are
the files of each ID, `exit` and `helper` the child and what it forked, within
its process group or outside of it.  `Prepare` stands for everything that is
read before the claim; after it `Check` reads one input per step, in the order
of `verifyLaunchInputs`, while somebody edits and restores inputs.  Both
captures are one, whose contents are the number of writes to it.  The broker is
only its outcome here (`CodexBroker` has the rest).  Every invocation may die
between any two steps, and the child goes on.  `Accepted` is what a collector
asks of a report.  `stale` is history: the inputs that have been other than
pinned ever since the claim.

### RunReceipt

`receipts` are the files, `held` their lock files, `writer` what each command
does.  A locked update is lock, load and apply, and the rename, in that order.
`Apply` is the transition table of statuses with the identity of events;
`ApplyAll` a batch, which is refused as a whole; what the receipt has already is
not written again (`Unchanged`).  Signed callbacks are verified
when they start and again under the lock.  A session updates the receipt twice
around its child and takes the time before it waits for the lock.  Two writers
do not lock: `Bootstrap`, and `SaveFork` for `adapter herdr-events` and `run artifact`
given another path as their output; `intruded` says where that met a held lock.

### LockwoodCustody

`files` are the directory entries, `durable` those that a loss of power spares.
Every publication is two steps, `Link` and `Sync`; a command is a list of
publications (`todo`), and it may fail or die between any two steps.
`PowerLoss` takes any part of what is not durable.  Handling events are
published under the lock of their record, after the checks of `EnterEvent`:
`MayRegister` is the rule of redactions.  `recover` takes a record that a failed
intake saved (`pending`) or a copy of one that was printed (`Printed`).  The scan of
`reconcile` reads records, references and blobs in three steps, in which others
publish.  Digests lie in directories of their own.

### RunVerdict, SubjectRun, MutationCampaign and RunReplay

`RunVerdict` is pure: from the answers of a subject to the status of a case, the
verdict of a run, the outcome of a mutation, the exit codes, the gate and the
comparison of two runs.

`SubjectRun` is a row of invocations of `sorna run` over shared output
directories.  The command, the waiter goroutine and the subject are processes:
`leader` and `helper` the subject's group, `waiter` the goroutine that reaps it,
`exit` what it recorded.  Readiness is polled until the deadline; cases send a
reset, a setup and a target request, each answered as the subject pleases; Close
interrupts, escalates and waits.  The bundle is written file by file
(`WriteFile`, `WriteChecksums`), and the invocation may die anywhere; a checksum list
of which only the `FirstLines` were written verifies as far as it goes.  A mutation
run checks its baseline first.

`MutationCampaign` is the executor over its evidence directories: it starts a
child, attaches provenance in the three steps of the code (the manifest is
rewritten before the checksums), reads the bundle, keeps an entry, and writes the
result.  It may die and be started again; bundles may be made anew and the plan
edited behind its back; `Verify` reads what is there now.

`RunReplay` compares every recorded run with every replay of it and gives out
the report only if the loader of reports would take it.

## 3. The runs

Every property has a mutant of the modelled code that violates it under the
same configuration.

| Run (configuration) | Instance | What it shows |
|---|---|---|
| `journal` (`MCNativeJournal.cfg`) | 20 events over 12 identifiers and two host bindings, with events that no caller of the repository submits; 2,230 states | For any callers: one claim and one start (`OneLaunch`), true pre-start evidence (`PreStartEvidenceHolds`), nothing after a verdict (`OneVerdict`), no grant after a start or a cancellation (`GrantsAreFresh`). |
| `session` (`SessionCancel.cfg`) | one wrapper, one cancellation, one recoverer, a lease; 103,832 states | The session implements `SessionPromise` (`PromiseKept`) and uses the journal as specified (`JournalSpec`); the workspace is closed on a quiet session; what is collected is the verdict; a cancellation is answered and a dead wrapper noticed. |
| `rerun` (`SessionRerun.cfg`) | two wrappers, one cancellation, one recoverer, with and without a lease; 3.6 million states | However often the command is run there is one child; a cancellation recorded before the start blocks the launch; verdicts are true of the child; nobody settles a session while a wrapper works on it. |
| `broker` (`BrokerLive.cfg`) | two requests, a budget of one, one caller and the watcher; 118,944 states | The broker implements `BrokerPromise`; counters match the requests at every moment; a report of a closed broker is final; a probe that reports one clean round trip saw one; the end of the lifetime drains the broker. |
| `governance` (`HammondQuorum.cfg`) | two versions, two actors and two roles with a quorum of two, two cycles, up to six events, failing rollbacks; 414,860 states | Approval takes a quorum since the last review was opened, told by the order of events and not by cycle names. |
| `governance_lineage` (`HammondLineage.cfg`) | three versions, one approver, two timestamps; 529,671 states | Operations that look at two records keep the whole registry valid; a supersession stays possible until the successor is amended in its turn. |
| `delivery` (`ChecksDelivery.cfg`) | two deliveries after up to two earlier ones, pages of one check run, four pages, two attempts, two check runs of others, a list that may lag; 108,256 states | Duplicates take two publications at once or a lagging list; exit code 0 is the truth; a known check run is reused while the list grows under the lookup. |
| `sorna` (`Sorna.cfg`) | two invocations, one crash, two rules, helpers that hold the error pipe within the group and outside of it; a campaign of two mutations, two starts and one remade bundle; replays of two cases; 940,770 states | An invocation that ends has reaped the process it launched, and nothing that shares its error pipe outlives a recorded run; the verdict is what was observed; a verified bundle is one run's; the command ends; a campaign that succeeds killed every mutation and loses its result to signaled children only; what `mutation verify` passes is there now; replay reports are valid, and "matched" means the same. |
| `stores` (`Stores.cfg`) | Lockwood: two processes, three commands, one loss of power, three stores to start from.  Receipts: two processes, two files, two starts, two bootstraps, a clock up to 2.  Role executions: an agent with a broker and a governed command share an ID, two editable inputs, two edits, two writes.  1,810,497 states | Accepted records stay backed; redactions respect holds and the chain; a scan is sound in spite of writers (`AcceptedIsBacked`, `RegistrationIsCurrent`, `ScanIsSound`).  Receipts only grow and a callback is applied in its window (`ReceiptGrows`, `CallbackIsCurrent`).  One child per execution ID over inputs that were checked, and a report that is true and accepted (`LaunchIsChecked`, `ReportIsTrue`, `ReportVerifies`). |
| `blocked_launch`, `governance_rollback`, `orphaned_subject` | | The findings of section 6. |

Why these bounds.  In the session the interesting conflicts are pairwise:
wrapper against wrapper, wrapper against cancellation, either against a
recovery; two wrappers are the least for a second delivery, and the recoverer
is one process that may start again and again.  The broker's second request is
the one beyond the budget of one, which is the budget of the probe; greater
budgets are left to the proofs.  Two review cycles are the least for a stale
approval, three versions for a chain that operations on two records cannot see;
six events are a full review, an amendment and a supersession.  A page of one
check run makes every lookup of two read two requests with a change in between,
and four pages are reached and exceeded by two earlier check runs, two of
others and two new ones.  Two invocations of `sorna run` are the least for a
baseline and its mutation, or for a bundle that is written over; one crash is
enough for half a bundle under a complete one.  A campaign is interrupted and
resumed with two starts.  Three commands of Lockwood are an intake, an event
that depends on it, and a scan or a competing event; one loss of power after any
of them is one cut of the order in which entries became durable.  Two
invocations of a role are the least that can claim one ID, and two edits change
an input and restore it.

Symmetry is declared for wrappers in `rerun` and for processes and receipt files
in `stores`, which have no liveness properties.

`CHECK_DEADLOCK FALSE` is set everywhere: sessions, brokers, deliveries and
commands end, and a bounded registry has no more room for events.

## 4. Fairness

Only what the code's scheduling gives.

- `NativeSession!Fairness`: a process that has begun gets on (the operating
  system) unless it crashes, which is not excluded; a child that was interrupted
  is killed at the end of its grace period (a timer in `process_unix.go`);
  recovery is run again while the session is open, which is what Cancel and
  Recover tell the operator to do.  Nobody has to cancel, no shell has to run the
  command, no child has to exit.  Hence `CancelIsAnswered` and
  `LostWrapperIsNoticed` admit "indeterminate" as an answer.
- `CodexBroker!FairSpec`: goroutines run; after `httpServer.Close` reads and
  writes of the connections return; a request's context ends with the lifetime,
  and the transport gives up a request whose context is done.  Before that an
  upstream or a client may take for ever.
- `SubjectRun!Fairness`: the command and its waiter goroutine run, the operating
  system lets a killed process be reaped, and the startup deadline passes (strong
  fairness: it is a wall clock, which polls do not put off).  No subject has to
  answer, exit or heed a signal.  `CommandEnds` excludes a helper outside of the
  group that holds the error pipe: Close waits for that one without a bound
  (`process.go:383`).

## 5. The proofs

All theorems are about the specification of their module, for every value of the
constants that satisfies the named assumptions of the module.  Each specification has one
inductive invariant, a conjunction of named parts; the properties follow from it.

**`NativeJournalProofs`** (`JournalAssumption`: identifiers, kinds and hosts do
not collide with the reserved ones).  `IInv` adds `StateEvidence` to the
properties: a submitted journal has its claim, an undecided one has no
cancellation before it, and provider evidence comes with a terminal state.
Without it `OneLaunch` is not inductive: whether a claim is granted is decided by
the state, and `OneLaunch` is about the events.  Proved: `JournalTypeOK`,
`JournalOneLaunch`, `JournalPreStartEvidence`, `JournalOneVerdict`,
`JournalGrantsAreFresh`.

**`NativeSessionProofs`** (`SessionAssumption`: the processes of different kinds are
different, and the marks for a free lease, for none and for no host are no processes
and no host).  A step either leaves the journal alone or is the grant of one event, and
`GrantEffect` is all that the other parts of the invariant have to know of the
transition table.  `JournalInv` relates the journal's state to its events, `LabelInv`
says which labels a process may be at, `DeliveryInv` what precedes the delivery of the
command, `ChildInv` that one wrapper at most is past the granted start, and what its
child has come to, `HolderInv` who holds the lease and `LeaseInv` what the holder found
and stays true, `VerdictInv` that a verdict is true of the child, and `ReaderInv` what
the readers of the verdict have seen of it.  Proved, for any number of wrappers,
cancelers and recoverers: `SessionOneChild`, `SessionVerdict`, `SessionCancelBlocks`,
`SessionClosed`, `SessionCollected`, `SessionLeaseGuards`; that a session uses the
journal as it is specified (`SessionUsesJournal`), and, step by step, the refinement of
`SessionPromise` for sessions with a lease (`SessionKeepsPromise`).

**`CodexBrokerProofs`** (`BrokerAssumption`: a positive budget, finitely many
requests, a token that is not empty).  `IInv` follows the two ends of the
broker: who holds the credential (`Lending`), what the wait groups count
(`Counted`), how far Close has come (`Closing`), and that an empty wait group
stays empty once closed (`Drained`), which is what makes a report final.
Proved: `BrokerTypeOK`, `BrokerKeyedForwards`, `BrokerReportIsFinal`, the
refinement `BrokerKeepsPromise` (initial states map to initial states, every
step to a step or a stutter of `BrokerPromise`), `BrokerCounters`, for which
each handler step moves one request between the counted sets (`BrokerCounts`:
no request is answered twice), and `BrokerRoundTrip`: `Outcomes` ties the
outcome that was counted to what the upstream and the client saw, so that counters of one
clean round trip mean that there was one.

**`HammondStoreProofs`** (`StoreAssumption`).  `StoreInv` adds `Ascending`:
amendments lead to greater versions.  It holds although rollbacks fail, as does
`ReviewInv`: cycles are opened once, an approval is of the cycle that is open where it
stands, and an approved record has its quorum in its last cycle.
`LineageInv` (`LinksHold`: the links of a record are answered by the record they lead to,
and all lead to the same one; `VersionsBounded`) is what operations on two records need to keep the
registry valid.  It does not hold when the rollback of an amendment fails: then a link
leads nowhere, which is the finding `governance_rollback`.  Its theorems therefore
assume `~RollbackFails`.  Proved: `StoreTypeOK`, `StoreCurrentVersion`, `StoreHistory`,
`StoreReviews`, `StoreApproved` for any quorum policy, and, without failing rollbacks,
`StoreLineage`, `StoreRegistryValid`, `StoreSupersession`.

**`ChecksDeliveryProofs`** (`DeliveryAssumption`: positive page size, page and
attempt limits; the marks for earlier and for foreign check runs are no
publishers).  The heart of `IInv` is `Reading`: as long as the list is as long
as on the first page, the pages read so far hold no check run of the run ID but
the one that was noted.  The list only grows, so that equal length means equal
list (`ListGrows`), which is why the refusal of a changed total is what makes the
lookup sound.  `Bound` draws from it what a delivery may do given what was listed when
it started; `Serial` says what holds when publications do not overlap and the
list does not lag.  Proved: `DeliveryTypeOK`, `DeliveryOneCheck`,
`DeliveryExitIsOutcome`, `DeliveryKnownCheck`, `DeliveryAmbiguous`, for any number of
deliveries at once, any page size and any number of check runs of others.

**`LockwoodCustodyProofs`** (`LockwoodAssumption`: intakes are not empty, events
are about custody IDs, `Nobody` is no process).  `IInv` says that what a publication
needs is durable or comes before it in the same command (`Ordered`), that the
durable part of the store is closed under needs (`FilesOK`), that events are
published under the lock of their record and a redaction about to be published
is still permitted (`EventOK`), and that what a scan has seen stays (`ScanOK`).
The second part is what a loss of power relies on: it takes any part of the rest.
Proved: `CustodyAccepted`, `CustodyRegistration`, `CustodyScan`.

**`SentinelProofs`**, of role executions (`RoleAssumption`: requests name an execution
ID and an executable, and `None` is no exit status) and of receipts
(`ReceiptAssumption`: events of the host have times; `Unlocked` is no process).
`RoleInv` places the child, the broker, the inputs read so far, the claim and the
capture of each invocation by where it is (`ProcessOK`), says that one invocation holds
an ID (`OneHolder`) and that a published report is still the one its invocation would
write (`ReportsOK`).  `OneHolder` is what makes the other files of an ID private:
without it no step could keep the capture equal to its digest.  There is a lemma for
each action; `Frame` covers the invocations that do not move.  Proved: `RoleReports`,
`RoleVerifies`, `RoleLaunch`.
For receipts, `Leads` says that what a change makes of a valid receipt is refused or
grows from it.  It is shown for each change once and goes on through the sequences
of changes that commands make; a batch is a recursive function, whose existence and
growth are shown by induction over the set of the numbers of events that are done
(`ReachesAll`, from the well-foundedness of the numbers).  `ReceiptInv` adds that the
receipts are valid and in the order of their times, and that a command that holds
the lock has loaded the receipt that is there, unless somebody wrote without the lock
(`Locking`).  Proved: `ReceiptInvariant`, `ReceiptsGrow`, `CallbacksAreCurrent`.

**`SornaProofs`** (`SubjectAssumption`; `CampaignAssumption`: a plan has mutations and
they expect rules, `campaign/plan.go:203` and `mutation.go:61`; `ReplayAssumption`: an
oracle has a case, `oracle.go:140`).  `RunInv` ties where the command
is to how far its waiter and its process are (`Ordered`, `Waited`), to what its end
leaves of the subject's group (`Ended`), to its record and the answers it got
(`Recorded`, `Answered`) and to the files it wrote: checksums, or the first of them, are those of
the files of one run that ended with its record (`Bundles`), although a death may leave
half a bundle under them.  `CampaignInv` says of every entry which evidence it was told by
(`EntryTold`), and of a pass, while the executor works, that the directory is still
what it says (`Backed`).  Proved: `RunInvariant`, `RunNothingOutlives`,
`RunVerdictIsObserved`, `RunVerifiedIsOneRun`, `CampaignInvariant`, `CampaignConclusion`,
`CampaignVerified`, `ReplaySound`.

Proved without a run of their own: the theorems of types and of inductive invariants,
`BrokerKeyedForwards`, `BrokerCounts`, `StoreCurrentVersion`, `StoreHistory`,
`StoreReviews`, `StoreLineage` and `DeliveryAmbiguous`.

Only model-checked: the liveness properties `CancelIsAnswered`, `LostWrapperIsNoticed`,
`LifetimeIsBounded` and `CommandEnds`: fairness and ENABLED are out of the prover's
reach.

## 6. Findings

- `blocked_launch`: the reason "child launch is blocked" is chosen from a journal
  that is read before the event is appended; the claim and the start may come in
  between (`nativesession/native.go:739`).
- `governance_rollback`: when the predecessor of an amendment cannot be restored,
  or the process dies in the rollback, it links to a record that is not stored
  (`hammond/internal/store/filesystem.go:287`).
- `orphaned_subject`: a subject that forks its server and exits before it is ready
  makes Start return without a signal to the group, which serves on
  (`sorna/internal/lifecycle/process.go:267`).

Met while modelling, without a run of their own:

- Two cancellations that both load the journal before either has recorded its
  request both interrupt the pane: the second is an exact retry, and Cancel does
  not look (`native.go:809`).
- A supersession validates two records; when the successor has an amendment of its
  own, its link leads out of the pair and the supersession is refused for good
  (`store/filesystem.go:189`).  For the same reason a second amendment of one
  version is never accepted, where GOVERNANCE-SPEC.md:233-234 says that lineage may
  branch.
- `lineage.go:169` compares a supersession with the first approval that the
  successor ever received, in whatever cycle, not with the one that approved it.
- Once two check runs are listed for a run ID every later delivery fails; they can
  come from two publications at once, which `githubchecks.go:126-131` concedes.
- Lockwood acknowledges an event that is already there without a sync
  (`events_filesystem.go:34-37`), and promotes over a blob that somebody else may
  have linked and not synced; new directories are never synced in their parents.
- A local session's end is refused when its clock is behind an event of the receipt
  (`session.go:267`), and an oracle's completion may set `updated_at` back.
- Completions of native, oracle and verifier runs do not compare the run ID: after a
  second bootstrap of the path they are applied to the new receipt.  Bootstrap and
  `--output` write without the lock.
- The oracle and the verifier adapter register an artifact of the same ID, so that
  the second of them is refused.
- When Wait fails for another reason than the exit of the child, the report of a role
  execution is "failed" or "canceled" without an exit code, which collectors refuse
  (`roleexec.go:744`, `evidence.go:440`); a descendant that left the group may write
  to a capture after its digest was taken.  `ReportVerifies` excludes both.

## 7. What is not modelled

Parsing, hashing, schema validation and formatting: they decide whether an input
is accepted, and the modules leave that choice open.  The Herdr host, GitHub,
the upstream of the broker, subjects and role children are external: their
effects are modelled as the code in `src/` meets them.  `Assess`,
`ObservePaneProcesses`, audits, workflow gates and reports only read.  Malcolm is
a parser, Core a schema.

Within the modelled components:

- Sorna: the death of an executor takes its child with it (a child that outlives a
  killed executor and overwrites a bundle is left out); the gap between
  `VerifyPreparedSubject` and the launch; the run ID of a baseline, which the code
  does not compare; two writers over one output directory; external subjects and
  access telemetry.  A bundle of a campaign has no files of its own: one whose
  checksum list was cut between two lines by the death of the child or of the executor
  verifies, and is the whole bundle, or the attached one, of a process that died next.
- Lockwood: the age and grace period of orphans; `put --parent`; the authorization of
  a cleanup, which no command carries out; record files written by hand for `recover`.
- Receipts: encodings and keys of callbacks, SignFile.
- Role executions: the gap between the last read of an input and the start of the
  process; deriving policies and sandboxes, and PersistPolicy; a loss of power;
  systems without process groups (`process_other.go`).
- Amber: `storage.go:48` documents that its lock is the process's own, so that what two
  processes lose is no disagreement.

The repository is a monorepo of some 77,000 lines, most of them flags, parsing,
validation and rendering; the modules cover the part that keeps state several
actors share.  The remaining components are listed with a reason in
`PROJECT.json`.

## 8. Plan

Done: the journal, sessions and their promise, the broker, Hammond's store, delivery,
Lockwood, role executions, receipts with callbacks and local sessions, Sorna's runs,
campaigns and replays, each with its proofs.

Left, in the order of what could do most harm:

1. The monotonic membership ledger and the rotation of roots in Hammond.
2. Amber's file store with two processes, as the documented limitation it is.
3. Paddock's cycles and layers and Sattler's comparisons against reference
   definitions, over all small graphs and series.
