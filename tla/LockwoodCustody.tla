---------------------------- MODULE LockwoodCustody ----------------------------
(***************************************************************************)
(* Lockwood's root directory: blobs and their references                   *)
(* (lockwood/internal/store), custody records and handling events          *)
(* (lockwood/internal/custody), and the commands that share it.  Every     *)
(* file is published alike: written to a temporary file, linked to its     *)
(* name unless that is taken, its directory synced.  Commands may die      *)
(* between any two steps, and a loss of power takes, of the entries whose  *)
(* directory was not synced since, any part.  A directory that is new      *)
(* becomes durable with its first sync: the code never syncs its parent.   *)
(***************************************************************************)
EXTENDS Naturals, Sequences, SequencesExt

CONSTANTS
  Procs,        \* invocations of lockwood
  Ids,          \* custody IDs
  Digests,
  Plain,        \* the media type of ordinary artifacts
  Detached,     \* that of attestation envelopes
  Intakes,      \* each a sequence of [id, digest]: one for put, several for an import
  Earlier,      \* each a set of [id, digest] that is in the store when the model starts
  Envelopes,    \* digests that are published as envelopes, without a record
  Appended,     \* events of append-event
  Registered,   \* redactions of register-redaction
  Promotions,   \* [source, event, id] of promote-redaction
  Nobody, Nil,
  MaxCommands,  \* bound on the commands that start
  MaxLosses     \* bound on losses of power

ASSUME LockwoodAssumption ==
  /\ Intakes \subseteq Seq([id : Ids, digest : Digests]) /\ <<>> \notin Intakes
  /\ Earlier \subseteq SUBSET [id : Ids, digest : Digests]
  /\ Envelopes \subseteq Digests
  /\ \A e \in Appended \union Registered : e.custody \in Ids
  /\ Nobody \notin Procs

VARIABLES
  files,      \* the directory entries: path -> contents
  durable,    \* the paths that a loss of power spares
  pending,    \* publications of records that recover may be given: those that put
              \* saved for it, and copies of lost ones
  lock,       \* custody ID -> holder of its handling-event lock
  job,        \* what each process does
  report,     \* what the last scan of each process reported
  commands, losses,
  acked       \* history: what commands reported as published

vars == <<files, durable, pending, lock, job, report, commands, losses, acked>>

Idle == [kind |-> "idle", todo |-> <<>>, linked |-> FALSE, arg |-> Nil]
Job(kind, todo, arg) == [kind |-> kind, todo |-> todo, linked |-> FALSE, arg |-> arg]

-----------------------------------------------------------------------------
(* Paths.  Digests are taken to lie in directories of their own.           *)

Blob(d)         == [in |-> <<"blobs", d>>, name |-> d]
Reference(d, m) == [in |-> <<"references", d>>, name |-> m]
RecordFile(i)   == [in |-> <<"records">>, name |-> i]
EventFile(i, n) == [in |-> <<"events", i>>, name |-> n]

Exists(path) == path \in DOMAIN files
Verify(d)    == Exists(Blob(d))

Records     == {i \in Ids : Exists(RecordFile(i))}
Record(i)   == files[RecordFile(i)]
Recorded(d) == \E i \in Records : Record(i).digest = d

-----------------------------------------------------------------------------
(* The events of one record, in the order ListEvents returns them.         *)

EventsOf(i) == {files[f] : f \in {g \in DOMAIN files : g.in = <<"events", i>>}}

Before(e, f) == e.at < f.at \/ (e.at = f.at /\ e.id < f.id)

ActiveHolds(i) ==
  {e.hold : e \in {x \in EventsOf(i) :
     x.type = "placed" /\ ~\E r \in EventsOf(i) : r.type = "released" /\ r.hold = x.hold /\ Before(x, r)}}

Redactions(i) == {e \in EventsOf(i) : e.type = "redaction"}
Latest(i)     == CHOOSE e \in Redactions(i) : \A f \in Redactions(i) : f = e \/ Before(f, e)

CurrentSource(i) == IF Redactions(i) = {} THEN Record(i).digest ELSE Latest(i).result
CurrentTime(i)   == IF Redactions(i) = {} THEN 0 ELSE Latest(i).at

\* What registerRedactionLocked asks of a new redaction.
MayRegister(e) ==
  /\ Exists(RecordFile(e.custody))
  /\ ActiveHolds(e.custody) = {}
  /\ e.original = CurrentSource(e.custody)
  /\ e.at > CurrentTime(e.custody)
  /\ Verify(e.original) /\ Verify(e.result)

-----------------------------------------------------------------------------
(* What the commands publish.  A record that intake makes is stamped with  *)
(* the time of its verification, so that no two are the same.              *)

Publication(path, content) == [path |-> path, content |-> content]

Put(put, parents, stamp) ==
  <<Publication(Blob(put.digest), put.digest),
    Publication(Reference(put.digest, Plain), Plain),
    Publication(RecordFile(put.id),
                [digest |-> put.digest, parents |-> parents, stamp |-> stamp, promoted |-> FALSE])>>

\* Three publications for each artifact; the last one has the others as parents.
Intake(s, stamp) ==
  LET puts(n) == Put(s[n], IF n = Len(s) THEN {s[k].digest : k \in 1 .. n - 1} ELSE {}, stamp)
  IN  [k \in 1 .. 3 * Len(s) |-> puts((k + 2) \div 3)[((k - 1) % 3) + 1]]

Ready(p) == job[p] = Idle /\ commands < MaxCommands

Begin(p, next) ==
  /\ Ready(p)
  /\ commands' = commands + 1
  /\ job' = [job EXCEPT ![p] = next]
  /\ UNCHANGED <<files, durable, pending, lock, losses, acked>>

\* put, import-sorna and import-ci publish one record, import-role-execution several.
StartIntake(p, s) ==
  /\ Len(s) > 1 => \A n \in DOMAIN s : ~Exists(RecordFile(s[n].id))
  /\ Begin(p, Job(IF Len(s) = 1 THEN "put" ELSE "import", Intake(s, commands + 1), Nil))
  /\ UNCHANGED report

StartEnvelope(p, d) ==
  /\ Begin(p, Job("envelope", <<Publication(Blob(d), d), Publication(Reference(d, Detached), Detached)>>, Nil))
  /\ UNCHANGED report

\* Records in the store have been printed, and a copy of one outlives it.
Printed == {Publication(RecordFile(i), Record(i)) : i \in Records}

StartRecover(p, publication) ==
  /\ Verify(publication.content.digest)
  /\ Begin(p, Job("recover", <<publication>>, Nil))
  /\ UNCHANGED report

StartAppend(p, e) ==
  /\ Exists(RecordFile(e.custody))
  /\ Begin(p, Job("append", <<>>, e))
  /\ UNCHANGED report

StartRegister(p, e) == Begin(p, Job("register", <<>>, e)) /\ UNCHANGED report

StartPromote(p, m) ==
  /\ m.id # m.source /\ Exists(EventFile(m.source, m.event))
  /\ LET e == files[EventFile(m.source, m.event)] IN
     /\ e.type = "redaction" /\ Verify(e.original) /\ Verify(e.result)
     /\ Exists(RecordFile(m.source)) /\ Verify(Record(m.source).digest)
     /\ Recorded(e.original)
     /\ Begin(p, Job("promote",
          <<Publication(RecordFile(m.id),
              [digest |-> e.result, parents |-> {e.original}, stamp |-> 0, promoted |-> TRUE])>>, Nil))
  /\ UNCHANGED report

-----------------------------------------------------------------------------
(* Publication.  That the name is taken is found by the look before the    *)
(* link or by the link: but for events, which are published under a lock,  *)
(* both lead to the same comparison and the same sync.                     *)

Link(p) ==
  /\ job[p].todo # <<>> /\ ~job[p].linked
  /\ LET new == Head(job[p].todo) IN
     /\ Exists(new.path) => files[new.path] = new.content
     /\ files' = [f \in DOMAIN files \union {new.path} |-> IF f = new.path THEN new.content ELSE files[f]]
  /\ job' = [job EXCEPT ![p].linked = TRUE]
  /\ UNCHANGED <<durable, pending, lock, report, commands, losses, acked>>

\* Mutant: only the directory of records is synced.
SyncOfRecords(path) ==
  durable' = IF path.in = <<"records">> THEN durable \union {f \in DOMAIN files : f.in = path.in} ELSE durable

SyncDirectory(path) == durable' = durable \union {f \in DOMAIN files : f.in = path.in}

Release(p) == lock' = [i \in Ids |-> IF lock[i] = p THEN Nobody ELSE lock[i]]

\* The command succeeds and says that `path` is published.
Finish(p, path, repeated) ==
  /\ job' = [job EXCEPT ![p] = Idle]
  /\ acked' = acked \union {[path |-> path, repeated |-> repeated]}
  /\ Release(p)

Sync(p) ==
  /\ job[p].linked
  /\ LET new == Head(job[p].todo) IN
     /\ SyncDirectory(new.path)
     /\ IF Len(job[p].todo) = 1
        THEN Finish(p, new.path, FALSE)
        ELSE /\ job' = [job EXCEPT ![p] = Job(@.kind, Tail(@.todo), @.arg)]
             /\ UNCHANGED <<lock, acked>>
  /\ UNCHANGED <<files, pending, report, commands, losses>>

\* Mutant: append-event does not wait for the lock.
GrantedToAppend(p, i) == job[p].kind = "append" \/ lock[i] = Nobody

\* append-event and register-redaction: the lock is granted, and the command
\* reads under it.
Granted(p, i) == lock[i] = Nobody

EnterEvent(p) ==
  LET e    == job[p].arg
      file == EventFile(e.custody, e.id) IN
  /\ job[p].kind \in {"append", "register"} /\ job[p].todo = <<>>
  /\ Granted(p, e.custody)
  /\ IF Exists(file)
     THEN /\ files[file] = e
          /\ job[p].kind = "register" => Verify(e.original) /\ Verify(e.result)
          /\ Finish(p, file, TRUE)
     ELSE /\ job[p].kind = "register" => MayRegister(e)
          /\ job' = [job EXCEPT ![p].todo = <<Publication(file, e)>>]
          /\ lock' = [lock EXCEPT ![e.custody] = p]
          /\ UNCHANGED acked
  /\ UNCHANGED <<files, durable, pending, report, commands, losses>>

\* The command is refused, fails or dies.  A put whose record could not be
\* published saves it where --pending-record said.
Fail(p) ==
  /\ job[p] # Idle
  /\ job' = [job EXCEPT ![p] = Idle]
  /\ Release(p)
  /\ pending' \in {pending} \union
       (IF job[p].kind = "put" /\ Len(job[p].todo) = 1 THEN {pending \union {job[p].todo[1]}} ELSE {})
  /\ UNCHANGED <<files, durable, report, commands, losses, acked>>

PowerLoss ==
  /\ losses < MaxLosses
  /\ losses' = losses + 1
  /\ \E kept \in SUBSET (DOMAIN files \ durable), saved \in SUBSET (pending \union Printed) :
       /\ files' = [f \in durable \union kept |-> files[f]]
       /\ durable' = durable \union kept
       /\ pending' = saved
  /\ job' = [p \in Procs |-> Idle]
  /\ lock' = [i \in Ids |-> Nobody]
  /\ UNCHANGED <<report, commands, acked>>

-----------------------------------------------------------------------------
(* reconcile and cleanup-plan: records first, then references, then blobs. *)

ScanRecords(p) ==
  /\ Begin(p, Job("scan", <<>>,
       [stage |-> "references", began |-> DOMAIN files,
        referenced |-> {Record(i).digest : i \in Records},
        dangling |-> {i \in Records : ~Verify(Record(i).digest)}]))
  /\ report' = [report EXCEPT ![p] = Nil]

\* Mutant: a reference of any media type protects its blob.
ProtectedByAnyReference == {d \in Digests : (Exists(Reference(d, Plain)) \/ Exists(Reference(d, Detached))) /\ Verify(d)}

ProtectedReferences == {d \in Digests : Exists(Reference(d, Detached)) /\ Verify(d)}

ScanReferences(p) ==
  /\ job[p].kind = "scan" /\ job[p].arg.stage = "references"
  /\ job' = [job EXCEPT ![p].arg =
       [stage |-> "blobs", began |-> @.began,
        referenced |-> @.referenced \union ProtectedReferences, dangling |-> @.dangling]]
  /\ UNCHANGED <<files, durable, pending, lock, report, commands, losses, acked>>

ScanBlobs(p) ==
  /\ job[p].kind = "scan" /\ job[p].arg.stage = "blobs"
  /\ report' = [report EXCEPT ![p] =
       [orphans |-> {d \in Digests : Verify(d)} \ job[p].arg.referenced,
        dangling |-> job[p].arg.dangling]]
  /\ job' = [job EXCEPT ![p] = Idle]
  /\ UNCHANGED <<files, durable, pending, lock, commands, losses, acked>>

-----------------------------------------------------------------------------
\* The store that completed puts have left.
Stored(puts) ==
  LET all == UNION {ToSet(Put(put, {}, 0)) : put \in puts} IN
  [f \in {x.path : x \in all} |-> (CHOOSE x \in all : x.path = f).content]

Init ==
  /\ files \in {Stored(puts) : puts \in Earlier}
  /\ durable = DOMAIN files /\ pending = {}
  /\ lock = [i \in Ids |-> Nobody]
  /\ job = [p \in Procs |-> Idle] /\ report = [p \in Procs |-> Nil]
  /\ commands = 0 /\ losses = 0 /\ acked = {}

Command(p) ==
  \/ \E s \in Intakes : StartIntake(p, s)
  \/ \E d \in Envelopes : StartEnvelope(p, d)
  \/ \E r \in pending \union Printed : StartRecover(p, r)
  \/ \E e \in Appended : StartAppend(p, e)
  \/ \E e \in Registered : StartRegister(p, e)
  \/ \E m \in Promotions : StartPromote(p, m)
  \/ ScanRecords(p)

Next ==
  \/ \E p \in Procs :
       \/ Command(p) \/ EnterEvent(p) \/ Link(p) \/ Sync(p) \/ Fail(p)
       \/ ScanReferences(p) \/ ScanBlobs(p)
  \/ PowerLoss

Spec == Init /\ [][Next]_vars

-----------------------------------------------------------------------------
\* A record that intake or recovery published has its blob, its reference and
\* the records of its parents, and what a command reported as published is there,
\* after a loss of power too (store/filesystem.go:51, custody/filesystem.go:39,
\* CUSTODY-SPEC.md 5.3).  Exempt are records that promote-redaction published and
\* events that append-event found in place: neither syncs what it relies on.
AcceptedIsBacked ==
  /\ \A i \in Records : ~Record(i).promoted =>
       /\ Verify(Record(i).digest) /\ Exists(Reference(Record(i).digest, Plain))
       /\ \A d \in Record(i).parents : Recorded(d)
  /\ \A a \in acked : ~a.repeated => Exists(a.path)

\* Whatever ran in between, a redaction is published only while no hold is active
\* and its original is the current source (redaction.go:46-110).
RegistrationIsCurrent ==
  [][\A p \in Procs :
       (job[p].kind = "register" /\ ~job[p].linked /\ job'[p].linked) => MayRegister(job[p].arg)]_vars

\* A scan reports every blob that nothing references from its start to its end,
\* none that something referenced at its start, and no record without its blob
\* but for promoted ones (custody/recovery.go:82-161).
ScanIsSound ==
  [][\A p \in Procs : (report[p] = Nil /\ report'[p] # Nil) =>
       LET began == job[p].arg.began IN
       /\ \A d \in Digests :
            (Blob(d) \in began /\ ~Recorded(d) /\ ~Exists(Reference(d, Detached))) => d \in report'[p].orphans
       /\ \A d \in report'[p].orphans :
            /\ Reference(d, Detached) \notin began
            /\ \A i \in Records : Record(i).digest = d => RecordFile(i) \notin began
       /\ \A i \in report'[p].dangling : Record(i).promoted]_vars
===============================================================================
