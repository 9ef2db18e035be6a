------------------------- MODULE LockwoodCustodyProofs -------------------------
(***************************************************************************)
(* What the commands of one Lockwood root rely on, for any number of       *)
(* processes, commands, records and losses of power.                       *)
(***************************************************************************)
EXTENDS LockwoodCustody, TLAPS

(***************************************************************************)
(* Sequences of publications.                                              *)
(***************************************************************************)
IsSeq(s) == \E S : s \in Seq(S)

\* The rest of a sequence is its elements from the second on.
LEMMA TailOf ==
  ASSUME NEW s, IsSeq(s), s # <<>>
  PROVE  /\ Len(s) \in Nat \ {0} /\ DOMAIN s = 1 .. Len(s) /\ Head(s) = s[1]
         /\ IsSeq(Tail(s)) /\ DOMAIN Tail(s) = 1 .. Len(s) - 1
         /\ \A k \in 1 .. Len(s) - 1 : Tail(s)[k] = s[k + 1]
<1>1. PICK S : s \in Seq(S)
  BY DEF IsSeq
<1>2. /\ Len(s) \in Nat \ {0} /\ DOMAIN s = 1 .. Len(s) /\ Head(s) = s[1]
      /\ Tail(s) \in Seq(S) /\ Len(Tail(s)) = Len(s) - 1
      /\ \A k \in 1 .. Len(s) - 1 : Tail(s)[k] = s[k + 1]
  BY <1>1
<1>3. DOMAIN Tail(s) = 1 .. Len(s) - 1
  BY <1>2
<1> QED BY <1>2, <1>3 DEF IsSeq

\* The empty sequence and sequences of one element.
LEMMA Short ==
  /\ IsSeq(<<>>) /\ DOMAIN <<>> = {}
  /\ \A x : IsSeq(<<x>>) /\ DOMAIN <<x>> = {1} /\ <<x>>[1] = x /\ <<x>> # <<>> /\ Len(<<x>>) = 1 /\ Head(<<x>>) = x
<1>1. <<>> \in Seq({}) /\ DOMAIN <<>> = {}
  OBVIOUS
<1>2. ASSUME NEW x
      PROVE  /\ <<x>> \in Seq({x}) /\ DOMAIN <<x>> = {1} /\ <<x>>[1] = x
             /\ <<x>> # <<>> /\ Len(<<x>>) = 1 /\ Head(<<x>>) = x
  OBVIOUS
<1> QED BY <1>1, <1>2 DEF IsSeq

(***************************************************************************)
(* Paths.                                                                  *)
(***************************************************************************)
EventDirs == {<<"events", i>> : i \in Ids}

\* Blobs, references, records and events have paths of their own.
LEMMA PathsDiffer ==
  /\ \A d, i : Blob(d) # RecordFile(i) /\ Blob(d).in \notin EventDirs
  /\ \A d, m, i : Reference(d, m) # RecordFile(i) /\ Reference(d, m).in \notin EventDirs
  /\ \A d, e, m : Blob(d) # Reference(e, m)
  /\ \A i : RecordFile(i).in \notin EventDirs
  /\ \A i \in Ids : \A n : EventFile(i, n).in = <<"events", i>> /\ EventFile(i, n).in \in EventDirs
  /\ \A i, j : <<"events", i>> = <<"events", j>> => i = j
  /\ \A i, j : RecordFile(i) = RecordFile(j) => i = j
  /\ \A d, e, m, n : Reference(d, m) = Reference(e, n) => d = e /\ m = n
  /\ \A d, e : Blob(d) = Blob(e) => d = e
<1>1. \A x, y : <<"blobs", x>> # <<"events", y>> /\ <<"references", x>> # <<"events", y>> /\ <<"blobs", x>> # <<"references", y>>
  OBVIOUS
<1>2. \A x : Len(<<"records">>) = 1 /\ Len(<<"blobs", x>>) = 2 /\ Len(<<"references", x>>) = 2 /\ Len(<<"events", x>>) = 2
  OBVIOUS
<1>3. \A d, i, m : Blob(d) # RecordFile(i) /\ Reference(d, m) # RecordFile(i)
  BY <1>2 DEF Blob, RecordFile, Reference
<1>4. \A d, e, m : Blob(d) # Reference(e, m)
  BY <1>1 DEF Blob, Reference
<1>5. \A d, m, i : Blob(d).in \notin EventDirs /\ Reference(d, m).in \notin EventDirs /\ RecordFile(i).in \notin EventDirs
  BY <1>1, <1>2 DEF Blob, Reference, RecordFile, EventDirs
<1>6. \A i \in Ids : \A n : EventFile(i, n).in = <<"events", i>> /\ EventFile(i, n).in \in EventDirs
  BY DEF EventFile, EventDirs
<1>7. /\ \A i, j : <<"events", i>> = <<"events", j>> => i = j
      /\ \A i, j : RecordFile(i) = RecordFile(j) => i = j
      /\ \A d, e, m, n : Reference(d, m) = Reference(e, n) => d = e /\ m = n
      /\ \A d, e : Blob(d) = Blob(e) => d = e
  BY DEF RecordFile, Reference, Blob
<1> QED BY <1>3, <1>4, <1>5, <1>6, <1>7

(***************************************************************************)
(* The invariant.  Its parts are stated of values: fs and du stand for     *)
(* files and durable, todo for the publications a command still has to     *)
(* make, in their order.                                                   *)
(***************************************************************************)

\* What the publication n relies on is durable or comes before it.
Backed(path, todo, n, du) == path \in du \/ \E k \in 1 .. n - 1 : todo[k].path = path

RecordedBy(d, todo, n, fs, du) ==
  \/ \E i \in Ids : RecordFile(i) \in du /\ fs[RecordFile(i)].digest = d
  \/ \E k \in 1 .. n - 1, i \in Ids : todo[k].path = RecordFile(i) /\ todo[k].content.digest = d

Ordered(todo, fs, du) ==
  \A n \in DOMAIN todo :
    /\ \A d \in Digests, m \in {Plain, Detached} :
         todo[n].path = Reference(d, m) => Backed(Blob(d), todo, n, du)
    /\ \A i \in Ids : (todo[n].path = RecordFile(i) /\ ~todo[n].content.promoted) =>
         /\ Backed(Blob(todo[n].content.digest), todo, n, du)
         /\ Backed(Reference(todo[n].content.digest, Plain), todo, n, du)
         /\ \A d \in todo[n].content.parents : RecordedBy(d, todo, n, fs, du)

\* None of the publications is an event.
Calm(todo) == \A n \in DOMAIN todo : todo[n].path.in \notin EventDirs

\* What a record in the store relies on is durable.
Kept(c, fs, du) ==
  /\ Blob(c.digest) \in du /\ Reference(c.digest, Plain) \in du
  /\ \A d \in c.parents : \E i \in Ids : RecordFile(i) \in du /\ fs[RecordFile(i)].digest = d

FilesOK(fs, du) ==
  /\ du \subseteq DOMAIN fs
  /\ \A i \in Ids : (RecordFile(i) \in DOMAIN fs /\ ~fs[RecordFile(i)].promoted) => Kept(fs[RecordFile(i)], fs, du)
  /\ \A d \in Digests, m \in {Plain, Detached} : Reference(d, m) \in DOMAIN fs => Blob(d) \in du

PendingOK(pe, fs, du) == \A r \in pe : Ordered(<<r>>, fs, du) /\ Calm(<<r>>)

AckedOK(ac, du) == \A a \in ac : ~a.repeated => a.path \in du

Shaped(j) ==
  /\ j = [kind |-> j.kind, todo |-> j.todo, linked |-> j.linked, arg |-> j.arg]
  /\ IsSeq(j.todo) /\ j.linked \in BOOLEAN

LinkedOK(j, fs) ==
  j.linked => /\ j.todo # <<>>
              /\ Head(j.todo).path \in DOMAIN fs /\ fs[Head(j.todo).path] = Head(j.todo).content

ForEvent(j) == j.kind \in {"append", "register"}

\* A command publishes its event while it holds the lock of the record.
EventOK(p, j, lk) ==
  ForEvent(j) =>
    /\ j.arg.custody \in Ids
    /\ j.todo # <<>> => /\ lk[j.arg.custody] = p
                        /\ j.todo = <<Publication(EventFile(j.arg.custody, j.arg.id), j.arg)>>

\* What a scan has seen is still there.
ScanOK(j, fs) ==
  j.kind = "scan" =>
    /\ j.arg = [stage |-> j.arg.stage, began |-> j.arg.began,
                referenced |-> j.arg.referenced, dangling |-> j.arg.dangling]
    /\ j.arg.began \subseteq DOMAIN fs
    /\ \A d \in j.arg.referenced :
         \/ \E i \in Ids : RecordFile(i) \in DOMAIN fs /\ fs[RecordFile(i)].digest = d
         \/ Reference(d, Detached) \in DOMAIN fs
    /\ \A i \in Ids : RecordFile(i) \in j.arg.began => fs[RecordFile(i)].digest \in j.arg.referenced
    /\ j.arg.stage = "blobs" =>
         \A d \in Digests : Reference(d, Detached) \in j.arg.began => d \in j.arg.referenced
    /\ \A i \in j.arg.dangling :
         i \in Ids /\ RecordFile(i) \in DOMAIN fs /\ fs[RecordFile(i)].promoted

JobOK(p, j, fs, du, lk) ==
  /\ Shaped(j) /\ LinkedOK(j, fs) /\ Ordered(j.todo, fs, du)
  /\ ~ForEvent(j) => Calm(j.todo)
  /\ EventOK(p, j, lk) /\ ScanOK(j, fs)

\* A redaction that is about to be published may still be.
Registering(j) == j.kind = "register" /\ j.todo # <<>> /\ ~j.linked

IInv ==
  /\ FilesOK(files, durable) /\ PendingOK(pending, files, durable) /\ AckedOK(acked, durable)
  /\ job = [p \in Procs |-> job[p]] /\ lock = [i \in Ids |-> lock[i]] /\ report = [p \in Procs |-> report[p]]
  /\ \A p \in Procs : JobOK(p, job[p], files, durable, lock)
  /\ \A p \in Procs : Registering(job[p]) => MayRegister(job[p].arg)

(***************************************************************************)
(* What stays as the store grows.                                          *)
(***************************************************************************)
Agree(fs, gs, du) == \A f \in du : gs[f] = fs[f]
Grows(fs, gs) == DOMAIN fs \subseteq DOMAIN gs /\ \A f \in DOMAIN fs : gs[f] = fs[f]

LEMMA OrderedStays ==
  ASSUME NEW todo, NEW fs, NEW gs, NEW du, NEW eu,
         Ordered(todo, fs, du), du \subseteq eu, Agree(fs, gs, du)
  PROVE  Ordered(todo, gs, eu)
<1>1. ASSUME NEW path, NEW n, Backed(path, todo, n, du)
      PROVE  Backed(path, todo, n, eu)
  BY <1>1 DEF Backed
<1>2. ASSUME NEW d, NEW n, RecordedBy(d, todo, n, fs, du)
      PROVE  RecordedBy(d, todo, n, gs, eu)
  BY <1>2 DEF RecordedBy, Agree
<1> QED BY <1>1, <1>2 DEF Ordered

LEMMA KeptStays ==
  ASSUME NEW c, NEW fs, NEW gs, NEW du, NEW eu,
         Kept(c, fs, du), du \subseteq eu, Agree(fs, gs, du)
  PROVE  Kept(c, gs, eu)
BY DEF Kept, Agree

LEMMA PendingStays ==
  ASSUME NEW pe, NEW fs, NEW gs, NEW du, NEW eu,
         PendingOK(pe, fs, du), du \subseteq eu, Agree(fs, gs, du)
  PROVE  PendingOK(pe, gs, eu)
BY OrderedStays DEF PendingOK

\* The job of a process stays as it is while others act.
LEMMA JobStays ==
  ASSUME NEW p, NEW j, NEW fs, NEW gs, NEW du, NEW eu, NEW lk, NEW mk,
         JobOK(p, j, fs, du, lk), Grows(fs, gs), du \subseteq eu, du \subseteq DOMAIN fs,
         ForEvent(j) /\ j.todo # <<>> => mk[j.arg.custody] = p
  PROVE  JobOK(p, j, gs, eu, mk)
<1>1. Agree(fs, gs, du)
  BY DEF Agree, Grows
<1>2. Ordered(j.todo, gs, eu)
  BY <1>1, OrderedStays DEF JobOK
<1>3. LinkedOK(j, gs)
  BY DEF JobOK, LinkedOK, Grows
<1>4. EventOK(p, j, mk)
  BY DEF JobOK, EventOK
<1>5. ScanOK(j, gs)
  BY DEF JobOK, ScanOK, Grows
<1> QED BY <1>2, <1>3, <1>4, <1>5 DEF JobOK

LEMMA IdleOK ==
  ASSUME NEW p, NEW fs, NEW du, NEW lk
  PROVE  JobOK(p, Idle, fs, du, lk) /\ ~Registering(Idle)
BY Short DEF JobOK, Idle, Shaped, LinkedOK, Ordered, Calm, EventOK, ForEvent, ScanOK, Registering

LEMMA JobFields ==
  ASSUME NEW kind, NEW todo, NEW arg, IsSeq(todo)
  PROVE  /\ Shaped(Job(kind, todo, arg))
         /\ Job(kind, todo, arg).kind = kind /\ Job(kind, todo, arg).todo = todo
         /\ Job(kind, todo, arg).arg = arg /\ ~Job(kind, todo, arg).linked
BY DEF Job, Shaped

\* Once the first publication is made and durable, the others are in order.
LEMMA OrderedTail ==
  ASSUME NEW todo, NEW fs, NEW du, IsSeq(todo), todo # <<>>, Ordered(todo, fs, du),
         Head(todo).path \in du, fs[Head(todo).path] = Head(todo).content
  PROVE  Ordered(Tail(todo), fs, du)
<1>1. /\ Len(todo) \in Nat \ {0} /\ DOMAIN todo = 1 .. Len(todo) /\ Head(todo) = todo[1]
      /\ DOMAIN Tail(todo) = 1 .. Len(todo) - 1
      /\ \A k \in 1 .. Len(todo) - 1 : Tail(todo)[k] = todo[k + 1]
  BY TailOf
<1> DEFINE rest == Tail(todo)
<1>2. ASSUME NEW n \in 1 .. Len(todo) - 1, NEW k \in 1 .. (n + 1) - 1, k # 1
      PROVE  k - 1 \in 1 .. n - 1 /\ Tail(todo)[k - 1] = todo[k]
  BY <1>1, <1>2
<1>3. ASSUME NEW n \in 1 .. Len(todo) - 1, NEW path, Backed(path, todo, n + 1, du)
      PROVE  Backed(path, rest, n, du)
  BY <1>1, <1>2, <1>3 DEF Backed
<1>4. ASSUME NEW n \in 1 .. Len(todo) - 1, NEW d, RecordedBy(d, todo, n + 1, fs, du)
      PROVE  RecordedBy(d, rest, n, fs, du)
  BY <1>1, <1>2, <1>4 DEF RecordedBy
<1>5. ASSUME NEW n \in 1 .. Len(todo) - 1
      PROVE  n + 1 \in DOMAIN todo /\ rest[n] = todo[n + 1]
  BY <1>1
<1> HIDE DEF rest
<1> QED BY <1>1, <1>3, <1>4, <1>5 DEF Ordered, rest

LEMMA CalmTail ==
  ASSUME NEW todo, IsSeq(todo), todo # <<>>, Calm(todo)
  PROVE  Calm(Tail(todo))
<1>1. \A k \in DOMAIN Tail(todo) : k + 1 \in DOMAIN todo /\ Tail(todo)[k] = todo[k + 1]
  BY TailOf
<1> QED BY <1>1 DEF Calm

\* A redaction stays permitted while the events of its record stay as they are.
LEMMA StaysAllowed ==
  ASSUME NEW q, job'[q].arg = job[q].arg, Grows(files, files'), MayRegister(job[q].arg),
         \A f \in DOMAIN files' : f.in = <<"events", job[q].arg.custody>> => f \in DOMAIN files
  PROVE  MayRegister(job[q].arg)'
<1> DEFINE i == job[q].arg.custody
<1>1. EventsOf(i)' = EventsOf(i)
  BY DEF EventsOf, Grows
<1>2. ActiveHolds(i)' = ActiveHolds(i)
  BY <1>1 DEF ActiveHolds
<1>3. Redactions(i)' = Redactions(i)
  BY <1>1 DEF Redactions
<1>4. Latest(i)' = Latest(i)
  BY <1>3 DEF Latest
<1>5. Exists(RecordFile(i))' /\ Record(i)' = Record(i)
  BY DEF MayRegister, Exists, Record, Grows
<1>6. CurrentSource(i)' = CurrentSource(i) /\ CurrentTime(i)' = CurrentTime(i)
  BY <1>3, <1>4, <1>5 DEF CurrentSource, CurrentTime
<1>7. Verify(job[q].arg.original)' /\ Verify(job[q].arg.result)'
  BY DEF MayRegister, Verify, Exists, Grows
<1>8. job[q].arg' = job[q].arg
  OBVIOUS
<1> QED BY <1>2, <1>5, <1>6, <1>7, <1>8 DEF MayRegister

(***************************************************************************)
(* Commands start.                                                         *)
(***************************************************************************)
LEMMA BeginStep ==
  ASSUME IInv, NEW p \in Procs, NEW next, Begin(p, next),
         JobOK(p, next, files, durable, lock), ~Registering(next),
         \E x : report' = [report EXCEPT ![p] = x] \/ report' = report
  PROVE  IInv'
<1>1. /\ job' = [job EXCEPT ![p] = next]
      /\ UNCHANGED <<files, durable, pending, lock, acked>>
  BY DEF Begin
<1>2. job' = [q \in Procs |-> IF q = p THEN next ELSE job[q]]
  BY <1>1 DEF IInv
<1>3. \A q \in Procs : JobOK(q, job'[q], files, durable, lock)
  BY <1>2 DEF IInv
<1>4. ASSUME NEW q \in Procs, Registering(job'[q])
      PROVE  job'[q] = job[q] /\ MayRegister(job[q].arg)
  BY <1>2, <1>4 DEF IInv
<1>5. \A q \in Procs : Registering(job[q])' => MayRegister(job[q].arg)'
  BY <1>1, <1>4, StaysAllowed DEF Grows
<1>6. report' = [q \in Procs |-> report'[q]]
  BY DEF IInv
<1>7. job' = [q \in Procs |-> job'[q]]
  BY <1>2
<1> QED BY <1>1, <1>3, <1>5, <1>6, <1>7 DEF IInv

\* A command that only publishes: nothing but the order of its publications
\* matters.
LEMMA PublishesOK ==
  ASSUME NEW p, NEW kind, NEW todo, NEW fs, NEW du, NEW lk, kind \notin {"append", "register", "scan"},
         IsSeq(todo), Ordered(todo, fs, du), Calm(todo)
  PROVE  JobOK(p, Job(kind, todo, Nil), fs, du, lk) /\ ~Registering(Job(kind, todo, Nil))
<1> DEFINE j == Job(kind, todo, Nil)
<1>1. /\ j = [kind |-> kind, todo |-> todo, linked |-> FALSE, arg |-> Nil]
      /\ j.kind = kind /\ j.todo = todo /\ ~j.linked /\ Shaped(j)
  BY DEF Job, Shaped
<1> HIDE DEF j
<1>2. LinkedOK(j, fs) /\ EventOK(p, j, lk) /\ ScanOK(j, fs) /\ ~Registering(j)
  BY <1>1 DEF LinkedOK, EventOK, ForEvent, ScanOK, Registering
<1> QED BY <1>1, <1>2 DEF JobOK, j

\* Intake publishes the blob, the reference and the record of each artifact in
\* this order, and parents before the record that names them.
LEMMA IntakeOrdered ==
  ASSUME NEW s \in Seq([id : Ids, digest : Digests]), NEW stamp, NEW fs, NEW du
  PROVE  IsSeq(Intake(s, stamp)) /\ Ordered(Intake(s, stamp), fs, du) /\ Calm(Intake(s, stamp))
<1>a. ASSUME NEW S, s \in Seq(S)
      PROVE  Len(s) \in Nat /\ \A n \in 1 .. Len(s) : s[n] \in S
  BY <1>a
<1>1. Len(s) \in Nat /\ \A n \in 1 .. Len(s) : s[n] \in [id : Ids, digest : Digests]
  <2> DEFINE S == [id : Ids, digest : Digests]
  <2>1. s \in Seq(S)
    OBVIOUS
  <2> HIDE DEF S
  <2>2. Len(s) \in Nat /\ \A n \in 1 .. Len(s) : s[n] \in S
    BY <1>a, <2>1
  <2> QED BY <2>2 DEF S
<1> DEFINE L == Len(s)
           parents(n) == IF n = L THEN {s[k].digest : k \in 1 .. n - 1} ELSE {}
           at(n, r) == 3 * (n - 1) + r
           todo == Intake(s, stamp)
<1>2. L \in Nat /\ \A n \in 1 .. L : s[n] \in [id : Ids, digest : Digests]
  BY <1>1
<1>3. todo = [k \in 1 .. 3 * L |->
                Put(s[(k + 2) \div 3], parents((k + 2) \div 3), stamp)[((k - 1) % 3) + 1]]
  BY DEF Intake
<1> HIDE DEF todo, parents, L
<1>4. DOMAIN todo = 1 .. 3 * L
  BY <1>3
<1>5. ASSUME NEW k \in 1 .. 3 * L
      PROVE  /\ (k + 2) \div 3 \in 1 .. L /\ ((k - 1) % 3) + 1 \in 1 .. 3
             /\ k = 3 * (((k + 2) \div 3) - 1) + ((k - 1) % 3) + 1
  BY <1>2, <1>5
<1>6. ASSUME NEW n \in 1 .. L, NEW r \in 1 .. 3
      PROVE  todo[at(n, r)] = Put(s[n], parents(n), stamp)[r]
  <2> DEFINE k == at(n, r)
  <2>1. k \in 1 .. 3 * L /\ (k + 2) \div 3 = n /\ ((k - 1) % 3) + 1 = r
    BY <1>2
  <2> HIDE DEF k
  <2>2. todo[k] = Put(s[n], parents(n), stamp)[r]
    BY <1>3, <2>1
  <2> QED BY <2>2 DEF k
<1>7. ASSUME NEW k \in 1 .. 3 * L
      PROVE  \E n \in 1 .. L, r \in 1 .. 3 : k = at(n, r)
  <2> DEFINE n == (k + 2) \div 3
             r == ((k - 1) % 3) + 1
  <2>1. n \in 1 .. L /\ r \in 1 .. 3 /\ k = at(n, r)
    BY <1>5
  <2> HIDE DEF n, r
  <2> QED BY <2>1
<1>8. IsSeq(todo)
  <2>1. 3 * L \in Nat
    BY <1>2
  <2>2. todo \in [1 .. 3 * L -> {todo[k] : k \in 1 .. 3 * L}]
    BY <1>3, <1>4
  <2>3. todo \in Seq({todo[k] : k \in 1 .. 3 * L})
    BY <2>1, <2>2
  <2> QED BY <2>3 DEF IsSeq
<1>9. ASSUME NEW n \in 1 .. L
      PROVE  /\ todo[at(n, 1)].path = Blob(s[n].digest)
             /\ todo[at(n, 2)].path = Reference(s[n].digest, Plain)
             /\ todo[at(n, 3)].path = RecordFile(s[n].id)
             /\ todo[at(n, 3)].content.digest = s[n].digest
             /\ todo[at(n, 3)].content.parents = parents(n)
  <2>1. \A r \in 1 .. 3 : todo[at(n, r)] = Put(s[n], parents(n), stamp)[r]
    BY <1>6
  <2>2. /\ Put(s[n], parents(n), stamp)[1].path = Blob(s[n].digest)
        /\ Put(s[n], parents(n), stamp)[2].path = Reference(s[n].digest, Plain)
        /\ Put(s[n], parents(n), stamp)[3].path = RecordFile(s[n].id)
        /\ Put(s[n], parents(n), stamp)[3].content.digest = s[n].digest
        /\ Put(s[n], parents(n), stamp)[3].content.parents = parents(n)
    BY DEF Put, Publication
  <2> HIDE DEF at
  <2> QED BY <2>1, <2>2
<1>10. Calm(todo)
  <2>1. ASSUME NEW n \in 1 .. L, NEW r \in 1 .. 3
        PROVE  todo[at(n, r)].path.in \notin EventDirs
    <3>1. \A d, m, i : /\ Blob(d).in \notin EventDirs /\ Reference(d, m).in \notin EventDirs
                       /\ RecordFile(i).in \notin EventDirs
      BY PathsDiffer
    <3>2. r = 1 \/ r = 2 \/ r = 3
      OBVIOUS
    <3> QED BY <1>9, <3>1, <3>2
  <2> QED BY <2>1, <1>4, <1>7 DEF Calm
<1>11. ASSUME NEW n \in 1 .. L, NEW r \in 1 .. 3
       PROVE  /\ at(n, r) \in Nat
              /\ r = 2 => at(n, 1) \in 1 .. at(n, r) - 1
              /\ r = 3 => at(n, 1) \in 1 .. at(n, r) - 1 /\ at(n, 2) \in 1 .. at(n, r) - 1
              /\ \A m \in 1 .. n - 1 : at(m, 3) \in 1 .. at(n, r) - 1 /\ m \in 1 .. L
  BY <1>2
<1> HIDE DEF at
<1>12. ASSUME NEW n \in 1 .. L, NEW r \in 1 .. 3, NEW d \in Digests, NEW m,
              todo[at(n, r)].path = Reference(d, m)
       PROVE  Backed(Blob(d), todo, at(n, r), du)
  <2>1. r = 2
    BY <1>9, <1>12, PathsDiffer
  <2>2. s[n].digest = d
    BY <1>9, <1>12, <2>1, PathsDiffer
  <2> QED BY <1>9, <1>11, <2>1, <2>2 DEF Backed
<1>13. ASSUME NEW n \in 1 .. L, NEW r \in 1 .. 3, NEW i \in Ids, todo[at(n, r)].path = RecordFile(i)
       PROVE  LET c == todo[at(n, r)].content IN
              /\ Backed(Blob(c.digest), todo, at(n, r), du)
              /\ Backed(Reference(c.digest, Plain), todo, at(n, r), du)
              /\ \A d \in c.parents : RecordedBy(d, todo, at(n, r), fs, du)
  <2>1. r = 3
    BY <1>9, <1>13, PathsDiffer
  <2>2. todo[at(n, r)].content.digest = s[n].digest /\ todo[at(n, r)].content.parents = parents(n)
    BY <1>9, <2>1
  <2>3. /\ Backed(Blob(s[n].digest), todo, at(n, r), du)
        /\ Backed(Reference(s[n].digest, Plain), todo, at(n, r), du)
    BY <1>9, <1>11, <2>1 DEF Backed
  <2>4. ASSUME NEW d \in parents(n)
        PROVE  RecordedBy(d, todo, at(n, r), fs, du)
    <3>1. PICK m \in 1 .. n - 1 : d = s[m].digest
      BY <2>4 DEF parents
    <3>2. m \in 1 .. L /\ at(m, 3) \in 1 .. at(n, r) - 1
      BY <1>11, <3>1
    <3>3. s[m].id \in Ids /\ todo[at(m, 3)].path = RecordFile(s[m].id) /\ todo[at(m, 3)].content.digest = d
      BY <1>2, <1>9, <3>1, <3>2
    <3> QED BY <3>2, <3>3 DEF RecordedBy
  <2> QED BY <2>2, <2>3, <2>4
<1>14. ASSUME NEW k \in DOMAIN todo
       PROVE  /\ \A d \in Digests, m \in {Plain, Detached} :
                   todo[k].path = Reference(d, m) => Backed(Blob(d), todo, k, du)
              /\ \A i \in Ids : (todo[k].path = RecordFile(i) /\ ~todo[k].content.promoted) =>
                   /\ Backed(Blob(todo[k].content.digest), todo, k, du)
                   /\ Backed(Reference(todo[k].content.digest, Plain), todo, k, du)
                   /\ \A d \in todo[k].content.parents : RecordedBy(d, todo, k, fs, du)
  <2>1. PICK n \in 1 .. L, r \in 1 .. 3 : k = at(n, r)
    BY <1>4, <1>7
  <2> QED BY <2>1, <1>12, <1>13
<1> QED BY <1>8, <1>10, <1>14 DEF Ordered, todo

\* What a record in the store relies on is durable, so a copy may be recovered.
LEMMA PrintedOK ==
  ASSUME IInv
  PROVE  PendingOK(pending \union Printed, files, durable)
<1>1. FilesOK(files, durable) /\ PendingOK(pending, files, durable)
  BY DEF IInv
<1>2. ASSUME NEW i \in Ids, RecordFile(i) \in DOMAIN files, NEW r, r = Publication(RecordFile(i), files[RecordFile(i)])
      PROVE  Ordered(<<r>>, files, durable) /\ Calm(<<r>>)
  <2> DEFINE todo == <<r>>
             content == files[RecordFile(i)]
  <2>1. DOMAIN todo = {1} /\ todo[1].path = RecordFile(i) /\ todo[1].content = content
    BY <1>2, Short DEF Publication
  <2>2. ~content.promoted => Kept(content, files, durable)
    BY <1>1, <1>2 DEF FilesOK
  <2> HIDE DEF todo, content
  <2>3. ASSUME ~content.promoted
        PROVE  /\ Backed(Blob(content.digest), todo, 1, durable)
               /\ Backed(Reference(content.digest, Plain), todo, 1, durable)
               /\ \A d \in content.parents : RecordedBy(d, todo, 1, files, durable)
    BY <2>2, <2>3 DEF Kept, Backed, RecordedBy
  <2>4. Ordered(todo, files, durable) /\ Calm(todo)
    BY <2>1, <2>3, PathsDiffer DEF Ordered, Calm
  <2> QED BY <2>4 DEF todo
<1>3. \A r \in Printed : Ordered(<<r>>, files, durable) /\ Calm(<<r>>)
  BY <1>2 DEF Printed, Records, Record, Exists
<1> QED BY <1>1, <1>3 DEF PendingOK

LEMMA CommandStep ==
  ASSUME IInv, NEW p \in Procs, Command(p)
  PROVE  IInv'
<1>1. CASE \E s \in Intakes : StartIntake(p, s)
  <2>1. PICK s \in Intakes : StartIntake(p, s)
    BY <1>1
  <2>2. s \in Seq([id : Ids, digest : Digests])
    BY LockwoodAssumption
  <2> DEFINE kind == IF Len(s) = 1 THEN "put" ELSE "import"
             todo == Intake(s, commands + 1)
  <2>3. IsSeq(todo) /\ Ordered(todo, files, durable) /\ Calm(todo)
    BY <2>2, IntakeOrdered
  <2>4. Begin(p, Job(kind, todo, Nil)) /\ report' = report
    BY <2>1 DEF StartIntake
  <2>5. kind \notin {"append", "register", "scan"}
    OBVIOUS
  <2> HIDE DEF kind, todo
  <2> QED BY <2>3, <2>4, <2>5, PublishesOK, BeginStep
<1>2. CASE \E d \in Envelopes : StartEnvelope(p, d)
  <2>1. PICK d \in Envelopes : StartEnvelope(p, d)
    BY <1>2
  <2> DEFINE todo == <<Publication(Blob(d), d), Publication(Reference(d, Detached), Detached)>>
  <2>2. /\ DOMAIN todo = {1, 2} /\ todo[1].path = Blob(d) /\ todo[2].path = Reference(d, Detached)
        /\ IsSeq(todo)
    <3>1. ASSUME NEW x, NEW y
          PROVE  <<x, y>> \in Seq({x, y}) /\ DOMAIN <<x, y>> = {1, 2} /\ <<x, y>>[1] = x /\ <<x, y>>[2] = y
      OBVIOUS
    <3> DEFINE x == Publication(Blob(d), d)
               y == Publication(Reference(d, Detached), Detached)
    <3>2. x.path = Blob(d) /\ y.path = Reference(d, Detached)
      BY DEF Publication
    <3> HIDE DEF x, y
    <3>3. <<x, y>> \in Seq({x, y}) /\ DOMAIN <<x, y>> = {1, 2} /\ <<x, y>>[1] = x /\ <<x, y>>[2] = y
      BY <3>1
    <3>4. IsSeq(<<x, y>>)
      BY <3>3 DEF IsSeq
    <3> QED BY <3>2, <3>3, <3>4 DEF x, y
  <2>3. Begin(p, Job("envelope", todo, Nil)) /\ report' = report
    BY <2>1 DEF StartEnvelope
  <2> HIDE DEF todo
  <2>4. Backed(Blob(d), todo, 2, durable)
    BY <2>2 DEF Backed
  <2>5. Ordered(todo, files, durable) /\ Calm(todo)
    BY <2>2, <2>4, PathsDiffer DEF Ordered, Calm
  <2> QED BY <2>2, <2>3, <2>5, PublishesOK, BeginStep
<1>3. CASE \E r \in pending \union Printed : StartRecover(p, r)
  <2>1. PICK r \in pending \union Printed : StartRecover(p, r)
    BY <1>3
  <2>2. IsSeq(<<r>>) /\ Ordered(<<r>>, files, durable) /\ Calm(<<r>>)
    BY Short, PrintedOK DEF PendingOK
  <2>3. Begin(p, Job("recover", <<r>>, Nil)) /\ report' = report
    BY <2>1 DEF StartRecover
  <2> QED BY <2>2, <2>3, PublishesOK, BeginStep
<1>4. CASE \/ \E e \in Appended : StartAppend(p, e)
           \/ \E e \in Registered : StartRegister(p, e)
  <2>1. PICK kind \in {"append", "register"}, e \in Appended \union Registered :
          Begin(p, Job(kind, <<>>, e)) /\ report' = report
    BY <1>4 DEF StartAppend, StartRegister
  <2> DEFINE j == Job(kind, <<>>, e)
  <2>2. Shaped(j) /\ j.kind = kind /\ j.todo = <<>> /\ j.arg = e /\ ~j.linked
    BY Short DEF Job, Shaped
  <2>3. e.custody \in Ids
    BY LockwoodAssumption
  <2> HIDE DEF j
  <2>4. JobOK(p, j, files, durable, lock) /\ ~Registering(j)
    BY <2>2, <2>3, Short DEF JobOK, LinkedOK, Ordered, Calm, EventOK, ForEvent, ScanOK, Registering
  <2> QED BY <2>1, <2>4, BeginStep DEF j
<1>5. CASE \E m \in Promotions : StartPromote(p, m)
  <2>1. PICK m \in Promotions : StartPromote(p, m)
    BY <1>5
  <2> DEFINE e == files[EventFile(m.source, m.event)]
             new == Publication(RecordFile(m.id),
                      [digest |-> e.result, parents |-> {e.original}, stamp |-> 0, promoted |-> TRUE])
  <2>2. Begin(p, Job("promote", <<new>>, Nil)) /\ report' = report
    BY <2>1 DEF StartPromote
  <2>3. new.path = RecordFile(m.id) /\ new.content.promoted
    BY DEF Publication
  <2> HIDE DEF new
  <2>4. IsSeq(<<new>>) /\ Ordered(<<new>>, files, durable) /\ Calm(<<new>>)
    BY <2>3, Short, PathsDiffer DEF Ordered, Calm
  <2> QED BY <2>2, <2>4, PublishesOK, BeginStep
<1>6. CASE ScanRecords(p)
  <2> DEFINE arg == [stage |-> "references", began |-> DOMAIN files,
                     referenced |-> {Record(i).digest : i \in Records},
                     dangling |-> {i \in Records : ~Verify(Record(i).digest)}]
             j == Job("scan", <<>>, arg)
  <2>1. Begin(p, j) /\ report' = [report EXCEPT ![p] = Nil]
    BY <1>6 DEF ScanRecords
  <2>2. Shaped(j) /\ j.kind = "scan" /\ j.todo = <<>> /\ j.arg = arg /\ ~j.linked
    BY Short DEF Job, Shaped
  <2>3. \A i \in arg.dangling : i \in Ids /\ RecordFile(i) \in DOMAIN files /\ files[RecordFile(i)].promoted
    BY DEF IInv, FilesOK, Records, Record, Verify, Exists, Kept
  <2>4. \A d \in arg.referenced : \E i \in Ids : RecordFile(i) \in DOMAIN files /\ files[RecordFile(i)].digest = d
    BY DEF Records, Record, Exists
  <2>5. \A i \in Ids : RecordFile(i) \in arg.began => files[RecordFile(i)].digest \in arg.referenced
    BY DEF Records, Record, Exists
  <2>6. /\ arg = [stage |-> arg.stage, began |-> arg.began, referenced |-> arg.referenced, dangling |-> arg.dangling]
        /\ arg.began = DOMAIN files /\ arg.stage = "references"
    OBVIOUS
  <2> HIDE DEF arg, j
  <2>7. ScanOK(j, files)
    BY <2>2, <2>3, <2>4, <2>5, <2>6 DEF ScanOK
  <2>8. JobOK(p, j, files, durable, lock) /\ ~Registering(j)
    BY <2>2, <2>7, Short DEF JobOK, LinkedOK, Ordered, Calm, EventOK, ForEvent, Registering
  <2> QED BY <2>1, <2>8, BeginStep
<1> QED BY <1>1, <1>2, <1>3, <1>4, <1>5, <1>6 DEF Command

(***************************************************************************)
(* Publication.                                                            *)
(***************************************************************************)

\* Two processes that publish events publish them for different records.
LEMMA EventsApart ==
  ASSUME IInv, NEW p \in Procs, NEW q \in Procs, p # q, job[p].todo # <<>>,
         ForEvent(job[q]), job[q].todo # <<>>
  PROVE  Head(job[p].todo).path.in # <<"events", job[q].arg.custody>>
<1>1. JobOK(p, job[p], files, durable, lock) /\ JobOK(q, job[q], files, durable, lock)
  BY DEF IInv
<1>2. job[q].arg.custody \in Ids /\ lock[job[q].arg.custody] = q
  BY <1>1 DEF JobOK, EventOK
<1>3. CASE ForEvent(job[p])
  <2> DEFINE i == job[p].arg.custody
  <2>1. i \in Ids /\ lock[i] = p /\ Head(job[p].todo) = Publication(EventFile(i, job[p].arg.id), job[p].arg)
    BY <1>1, <1>3, Short DEF JobOK, EventOK
  <2>2. Head(job[p].todo).path.in = <<"events", i>>
    BY <2>1, PathsDiffer DEF Publication
  <2> HIDE DEF i
  <2> QED BY <1>2, <2>1, <2>2, PathsDiffer
<1>4. CASE ~ForEvent(job[p])
  <2>1. Calm(job[p].todo) /\ IsSeq(job[p].todo)
    BY <1>1, <1>4 DEF JobOK, Shaped
  <2>2. Head(job[p].todo).path.in \notin EventDirs
    BY <2>1, TailOf DEF Calm
  <2> QED BY <1>2, <2>2 DEF EventDirs
<1> QED BY <1>3, <1>4

LEMMA LinkStep ==
  ASSUME IInv, NEW p \in Procs, Link(p)
  PROVE  IInv'
<1> DEFINE todo == job[p].todo
           new  == Head(todo)
<1>1. /\ todo # <<>> /\ ~job[p].linked
      /\ new.path \in DOMAIN files => files[new.path] = new.content
      /\ files' = [f \in DOMAIN files \union {new.path} |-> IF f = new.path THEN new.content ELSE files[f]]
      /\ job' = [job EXCEPT ![p].linked = TRUE]
      /\ UNCHANGED <<durable, pending, lock, report, acked>>
  BY DEF Link, Exists
<1>2. /\ DOMAIN files' = DOMAIN files \union {new.path}
      /\ \A f \in DOMAIN files : files'[f] = files[f]
      /\ files'[new.path] = new.content
  BY <1>1
<1>3. JobOK(p, job[p], files, durable, lock) /\ FilesOK(files, durable)
  BY DEF IInv
<1>4. IsSeq(todo) /\ Ordered(todo, files, durable) /\ new = todo[1] /\ 1 \in DOMAIN todo
  BY <1>1, <1>3, TailOf DEF JobOK, Shaped
<1>5. Grows(files, files') /\ Agree(files, files', durable) /\ durable \subseteq DOMAIN files
  BY <1>2, <1>3 DEF Grows, Agree, FilesOK
<1>6. FilesOK(files', durable)
  <2>1. ASSUME NEW i \in Ids, RecordFile(i) \in DOMAIN files', ~files'[RecordFile(i)].promoted
        PROVE  Kept(files'[RecordFile(i)], files', durable)
    <3>1. CASE RecordFile(i) \in DOMAIN files
      BY <1>2, <1>3, <1>5, <2>1, <3>1, KeptStays DEF FilesOK
    <3>2. CASE RecordFile(i) \notin DOMAIN files
      <4>1. new.path = RecordFile(i) /\ files'[RecordFile(i)] = new.content
        BY <1>2, <2>1, <3>2
      <4>2. /\ Backed(Blob(new.content.digest), todo, 1, durable)
            /\ Backed(Reference(new.content.digest, Plain), todo, 1, durable)
            /\ \A d \in new.content.parents : RecordedBy(d, todo, 1, files, durable)
        BY <1>4, <2>1, <4>1 DEF Ordered
      <4>3. Kept(new.content, files, durable)
        BY <4>2 DEF Backed, RecordedBy, Kept
      <4> QED BY <1>5, <4>1, <4>3, KeptStays
    <3> QED BY <3>1, <3>2
  <2>2. ASSUME NEW d \in Digests, NEW m \in {Plain, Detached}, Reference(d, m) \in DOMAIN files'
        PROVE  Blob(d) \in durable
    <3>1. CASE Reference(d, m) \in DOMAIN files
      BY <1>3, <3>1 DEF FilesOK
    <3>2. CASE Reference(d, m) = new.path
      <4>1. Backed(Blob(d), todo, 1, durable)
        BY <1>4, <3>2 DEF Ordered
      <4> QED BY <4>1 DEF Backed
    <3> QED BY <1>2, <2>2, <3>1, <3>2
  <2> QED BY <1>2, <1>5, <2>1, <2>2 DEF FilesOK
<1>7. PendingOK(pending, files', durable)
  BY <1>5, PendingStays DEF IInv
<1>8. /\ job' = [q \in Procs |-> job'[q]] /\ \A q \in Procs : q # p => job'[q] = job[q]
      /\ job'[p] = [job[p] EXCEPT !.linked = TRUE]
  BY <1>1 DEF IInv
<1>9. /\ job'[p].kind = job[p].kind /\ job'[p].todo = todo /\ job'[p].arg = job[p].arg
      /\ job'[p].linked /\ Shaped(job'[p])
  BY <1>3, <1>8 DEF JobOK, Shaped
<1>10. JobOK(p, job[p], files', durable, lock)
  <2>1. ForEvent(job[p]) /\ job[p].todo # <<>> => lock[job[p].arg.custody] = p
    BY <1>3 DEF JobOK, EventOK
  <2> QED BY <1>3, <1>5, <2>1, JobStays
<1>11. JobOK(p, job'[p], files', durable, lock)
  BY <1>1, <1>2, <1>9, <1>10 DEF JobOK, LinkedOK, EventOK, ForEvent, ScanOK
<1>12. ASSUME NEW q \in Procs, q # p
       PROVE  JobOK(q, job'[q], files', durable, lock)
  <2>1. JobOK(q, job[q], files, durable, lock) /\ job'[q] = job[q]
    BY <1>8, <1>12 DEF IInv
  <2>2. ForEvent(job[q]) /\ job[q].todo # <<>> => lock[job[q].arg.custody] = q
    BY <2>1 DEF JobOK, EventOK
  <2>3. JobOK(q, job[q], files', durable, lock)
    BY <1>5, <2>1, <2>2, JobStays
  <2> QED BY <2>1, <2>3
<1>13. ASSUME NEW q \in Procs, Registering(job[q])'
       PROVE  MayRegister(job[q].arg)'
  <2>1. q # p /\ job'[q] = job[q] /\ Registering(job[q])
    BY <1>8, <1>9, <1>13 DEF Registering
  <2>2. MayRegister(job[q].arg)
    BY <2>1 DEF IInv
  <2>3. new.path.in # <<"events", job[q].arg.custody>>
    BY <1>1, <2>1, EventsApart DEF Registering, ForEvent
  <2>4. \A f \in DOMAIN files' : f.in = <<"events", job[q].arg.custody>> => f \in DOMAIN files
    BY <1>2, <2>3
  <2> QED BY <1>5, <2>1, <2>2, <2>4, StaysAllowed
<1> QED BY <1>1, <1>6, <1>7, <1>8, <1>11, <1>12, <1>13 DEF IInv

(***************************************************************************)
(* Locks.                                                                  *)
(***************************************************************************)

\* Everybody else's job, when one process changes its own and files stay.
LEMMA Others ==
  ASSUME IInv, NEW p \in Procs, files' = files, durable \subseteq durable',
         \A q \in Procs : q # p => job'[q] = job[q],
         \A i \in Ids : lock[i] \in Procs /\ lock[i] # p => lock'[i] = lock[i]
  PROVE  /\ \A q \in Procs : q # p => JobOK(q, job'[q], files', durable', lock')
         /\ \A q \in Procs : q # p /\ Registering(job[q])' => MayRegister(job[q].arg)'
<1>1. Grows(files, files') /\ durable \subseteq DOMAIN files
  BY DEF Grows, IInv, FilesOK
<1>2. ASSUME NEW q \in Procs, q # p
      PROVE  JobOK(q, job'[q], files', durable', lock')
  <2>1. JobOK(q, job[q], files, durable, lock) /\ job'[q] = job[q]
    BY <1>2 DEF IInv
  <2>2. ForEvent(job[q]) /\ job[q].todo # <<>> => lock'[job[q].arg.custody] = q
    BY <1>2, <2>1 DEF JobOK, EventOK
  <2>3. JobOK(q, job[q], files', durable', lock')
    BY <1>1, <2>1, <2>2, JobStays
  <2> QED BY <2>1, <2>3
<1>3. ASSUME NEW q \in Procs, q # p, Registering(job[q])'
      PROVE  MayRegister(job[q].arg)'
  <2>1. job'[q] = job[q] /\ Registering(job[q])
    BY <1>3
  <2>2. MayRegister(job[q].arg)
    BY <2>1 DEF IInv
  <2> QED BY <1>1, <2>1, <2>2, StaysAllowed DEF Grows
<1> QED BY <1>2, <1>3

\* A process whose job is over, whatever it has made durable.
LEMMA StopStep ==
  ASSUME IInv, NEW p \in Procs, job' = [job EXCEPT ![p] = Idle], Release(p),
         files' = files, durable \subseteq durable', durable' \subseteq DOMAIN files,
         PendingOK(pending', files, durable'), AckedOK(acked', durable'),
         report' = [q \in Procs |-> report'[q]]
  PROVE  IInv'
<1>1. job' = [q \in Procs |-> IF q = p THEN Idle ELSE job[q]]
  BY DEF IInv
<1>2. lock' = [i \in Ids |-> IF lock[i] = p THEN Nobody ELSE lock[i]]
  BY DEF Release
<1>3. /\ \A q \in Procs : q # p => JobOK(q, job'[q], files', durable', lock')
      /\ \A q \in Procs : q # p /\ Registering(job[q])' => MayRegister(job[q].arg)'
  BY <1>1, <1>2, Others
<1>4. JobOK(p, job'[p], files', durable', lock') /\ ~Registering(job'[p])
  BY <1>1, IdleOK
<1>5. FilesOK(files, durable')
  <2>1. FilesOK(files, durable) /\ Agree(files, files, durable)
    BY DEF IInv, Agree
  <2> QED BY <2>1, KeptStays DEF FilesOK
<1>6. job' = [q \in Procs |-> job'[q]] /\ lock' = [i \in Ids |-> lock'[i]]
  BY <1>1, <1>2
<1> QED BY <1>3, <1>4, <1>5, <1>6 DEF IInv

LEMMA FailStep ==
  ASSUME IInv, NEW p \in Procs, Fail(p)
  PROVE  IInv'
<1>1. /\ job' = [job EXCEPT ![p] = Idle] /\ Release(p)
      /\ UNCHANGED <<files, durable, report, acked>>
      /\ \/ pending' = pending
         \/ /\ job[p].kind = "put" /\ Len(job[p].todo) = 1
            /\ pending' = pending \union {job[p].todo[1]}
  BY DEF Fail
<1>2. JobOK(p, job[p], files, durable, lock) /\ PendingOK(pending, files, durable)
  BY DEF IInv
<1>3. ASSUME job[p].kind = "put", Len(job[p].todo) = 1
      PROVE  Ordered(<<job[p].todo[1]>>, files, durable) /\ Calm(<<job[p].todo[1]>>)
  <2> DEFINE todo == job[p].todo
             x == todo[1]
  <2>1. Ordered(todo, files, durable) /\ Calm(todo) /\ IsSeq(todo)
    BY <1>2, <1>3 DEF JobOK, ForEvent, Shaped
  <2>2. Len(todo) = 1 /\ (todo # <<>> => DOMAIN todo = 1 .. Len(todo))
    BY <1>3, <2>1, TailOf
  <2>3. todo # <<>>
    BY <2>2
  <2>4. 1 \in DOMAIN todo
    BY <2>2, <2>3
  <2>5. \A path, n : n = 1 => (Backed(path, todo, n, durable) => Backed(path, <<x>>, n, durable))
    BY DEF Backed
  <2>6. \A d, n : n = 1 => (RecordedBy(d, todo, n, files, durable) => RecordedBy(d, <<x>>, n, files, durable))
    BY DEF RecordedBy
  <2>7. DOMAIN <<x>> = {1} /\ <<x>>[1] = todo[1]
    BY Short
  <2> HIDE DEF todo, x
  <2> QED BY <2>1, <2>4, <2>5, <2>6, <2>7 DEF Ordered, Calm, todo, x
<1>4. PendingOK(pending', files, durable)
  BY <1>1, <1>2, <1>3 DEF PendingOK
<1>5. durable' \subseteq DOMAIN files /\ AckedOK(acked', durable')
  BY <1>1 DEF IInv, FilesOK
<1>6. report' = [q \in Procs |-> report'[q]]
  BY <1>1 DEF IInv
<1> QED BY <1>1, <1>4, <1>5, <1>6, StopStep

\* What a command has linked is durable once the directory is synced.
LEMMA SyncStep ==
  ASSUME IInv, NEW p \in Procs, Sync(p)
  PROVE  IInv'
<1> DEFINE todo == job[p].todo
           new  == Head(todo)
<1>1. /\ job[p].linked /\ SyncDirectory(new.path)
      /\ \/ Finish(p, new.path, FALSE)
         \/ /\ Len(todo) # 1
            /\ job' = [job EXCEPT ![p] = Job(@.kind, Tail(@.todo), @.arg)]
            /\ UNCHANGED <<lock, acked>>
      /\ UNCHANGED <<files, pending, report>>
  BY DEF Sync
<1>2. JobOK(p, job[p], files, durable, lock) /\ FilesOK(files, durable)
  BY DEF IInv
<1>3. todo # <<>> /\ new.path \in DOMAIN files /\ files[new.path] = new.content /\ IsSeq(todo)
  BY <1>1, <1>2 DEF JobOK, LinkedOK, Shaped
<1>4. /\ durable \subseteq durable' /\ durable' \subseteq DOMAIN files /\ new.path \in durable'
  BY <1>1, <1>2, <1>3 DEF SyncDirectory, FilesOK
<1>5. Agree(files, files, durable) /\ report' = [q \in Procs |-> report'[q]]
  BY <1>1 DEF Agree, IInv
<1>6. PendingOK(pending', files, durable')
  BY <1>1, <1>4, <1>5, PendingStays DEF IInv
<1>7. CASE Finish(p, new.path, FALSE)
  <2>1. /\ job' = [job EXCEPT ![p] = Idle] /\ Release(p)
        /\ acked' = acked \union {[path |-> new.path, repeated |-> FALSE]}
    BY <1>7 DEF Finish
  <2>2. AckedOK(acked', durable')
    BY <1>4, <2>1 DEF IInv, AckedOK
  <2> QED BY <1>1, <1>4, <1>5, <1>6, <2>1, <2>2, StopStep
<1>8. CASE /\ Len(todo) # 1
           /\ job' = [job EXCEPT ![p] = Job(@.kind, Tail(@.todo), @.arg)]
           /\ UNCHANGED <<lock, acked>>
  <2>1. ~ForEvent(job[p])
    BY <1>2, <1>3, <1>8, Short DEF JobOK, EventOK
  <2>2. Shaped(job[p])
    BY <1>2 DEF JobOK
  <2> DEFINE next == [kind |-> job[p].kind, todo |-> Tail(todo), linked |-> FALSE, arg |-> job[p].arg]
  <2>3. job' = [q \in Procs |-> IF q = p THEN next ELSE job[q]]
    BY <1>8 DEF IInv, Job
  <2>4. next.kind = job[p].kind /\ next.todo = Tail(todo) /\ ~next.linked /\ next.arg = job[p].arg
    OBVIOUS
  <2>5. IsSeq(Tail(todo)) /\ Calm(Tail(todo))
    BY <1>2, <1>3, <2>1, TailOf, CalmTail DEF JobOK
  <2>6. Ordered(Tail(todo), files, durable')
    <3>1. Ordered(todo, files, durable')
      BY <1>2, <1>4, <1>5, OrderedStays DEF JobOK
    <3> QED BY <1>3, <1>4, <3>1, OrderedTail
  <2>7. Shaped(next)
    BY <2>5 DEF Shaped
  <2> HIDE DEF next
  <2>8. ScanOK(next, files)
    BY <1>2, <2>4 DEF JobOK, ScanOK
  <2>9. JobOK(p, next, files, durable', lock') /\ ~Registering(next)
    BY <2>1, <2>4, <2>5, <2>6, <2>7, <2>8 DEF JobOK, LinkedOK, EventOK, ForEvent, Registering
  <2>10. /\ \A q \in Procs : q # p => JobOK(q, job'[q], files', durable', lock')
         /\ \A q \in Procs : q # p /\ Registering(job[q])' => MayRegister(job[q].arg)'
    BY <1>1, <1>4, <1>8, <2>3, Others
  <2>11. FilesOK(files, durable')
    BY <1>2, <1>4, <1>5, KeptStays DEF FilesOK
  <2>12. AckedOK(acked', durable')
    BY <1>4, <1>8 DEF IInv, AckedOK
  <2>13. job' = [q \in Procs |-> job'[q]] /\ job'[p] = next /\ lock' = [i \in Ids |-> lock'[i]]
    BY <1>8, <2>3 DEF IInv
  <2> QED BY <1>1, <1>5, <1>6, <2>9, <2>10, <2>11, <2>12, <2>13 DEF IInv
<1> QED BY <1>1, <1>7, <1>8

LEMMA EnterEventStep ==
  ASSUME IInv, NEW p \in Procs, EnterEvent(p)
  PROVE  IInv'
<1> DEFINE e    == job[p].arg
           file == EventFile(e.custody, e.id)
<1>1. /\ ForEvent(job[p]) /\ job[p].todo = <<>>
      /\ lock[e.custody] = Nobody
      /\ \/ Finish(p, file, TRUE)
         \/ /\ job[p].kind = "register" => MayRegister(e)
            /\ job' = [job EXCEPT ![p].todo = <<Publication(file, e)>>]
            /\ lock' = [lock EXCEPT ![e.custody] = p]
            /\ UNCHANGED acked
      /\ UNCHANGED <<files, durable, pending, report>>
  BY DEF EnterEvent, Granted, ForEvent
<1>2. JobOK(p, job[p], files, durable, lock) /\ FilesOK(files, durable) /\ PendingOK(pending, files, durable)
  BY DEF IInv
<1>3. e.custody \in Ids /\ Shaped(job[p])
  BY <1>1, <1>2 DEF JobOK, EventOK
<1>4. report' = [q \in Procs |-> report'[q]] /\ durable \subseteq DOMAIN files
  BY <1>1, <1>2 DEF IInv, FilesOK
<1>5. CASE Finish(p, file, TRUE)
  <2>1. /\ job' = [job EXCEPT ![p] = Idle] /\ Release(p)
        /\ acked' = acked \union {[path |-> file, repeated |-> TRUE]}
    BY <1>5 DEF Finish
  <2>2. AckedOK(acked', durable')
    BY <1>1, <2>1 DEF IInv, AckedOK
  <2> QED BY <1>1, <1>2, <1>4, <2>1, <2>2, StopStep
<1>6. CASE /\ job[p].kind = "register" => MayRegister(e)
           /\ job' = [job EXCEPT ![p].todo = <<Publication(file, e)>>]
           /\ lock' = [lock EXCEPT ![e.custody] = p]
           /\ UNCHANGED acked
  <2> DEFINE new == Publication(file, e)
             next == [kind |-> job[p].kind, todo |-> <<new>>, linked |-> job[p].linked, arg |-> e]
  <2>1. job' = [q \in Procs |-> IF q = p THEN next ELSE job[q]]
    BY <1>3, <1>6 DEF IInv, Shaped
  <2>2. next.kind = job[p].kind /\ next.todo = <<new>> /\ next.linked = job[p].linked /\ next.arg = e
    OBVIOUS
  <2>3. ~job[p].linked
    BY <1>1, <1>2 DEF JobOK, LinkedOK
  <2>4. lock' = [i \in Ids |-> IF i = e.custody THEN p ELSE lock[i]]
    BY <1>3, <1>6 DEF IInv
  <2>5. IsSeq(<<new>>) /\ Ordered(<<new>>, files, durable)
    <3>1. new.path = file /\ file.in \in EventDirs
      BY <1>3, PathsDiffer DEF Publication
    <3>2. \A d, m, i : file # Reference(d, m) /\ file # RecordFile(i)
      BY <3>1, PathsDiffer
    <3> HIDE DEF new, file
    <3> QED BY <3>1, <3>2, Short DEF Ordered
  <2>6. Shaped(next)
    BY <1>3, <2>2, <2>5 DEF Shaped
  <2>7. EventOK(p, next, lock')
    BY <1>3, <2>2, <2>4 DEF EventOK
  <2> HIDE DEF next, new, file
  <2>8. JobOK(p, next, files, durable, lock')
    BY <1>1, <2>2, <2>3, <2>5, <2>6, <2>7 DEF JobOK, LinkedOK, ForEvent, ScanOK
  <2>9. \A i \in Ids : lock[i] \in Procs /\ lock[i] # p => lock'[i] = lock[i]
    BY <1>1, <2>4, LockwoodAssumption
  <2>10. /\ \A q \in Procs : q # p => JobOK(q, job'[q], files', durable', lock')
         /\ \A q \in Procs : q # p /\ Registering(job[q])' => MayRegister(job[q].arg)'
    BY <1>1, <2>1, <2>9, Others
  <2>11. job'[p] = next /\ job' = [q \in Procs |-> job'[q]] /\ lock' = [i \in Ids |-> lock'[i]]
    BY <2>1, <2>4
  <2>12. Registering(job[p])' => MayRegister(job[p].arg)'
    <3>1. ASSUME Registering(job[p])'
          PROVE  MayRegister(e) /\ job'[p].arg = e
      BY <1>6, <2>2, <2>11, <3>1 DEF Registering
    <3> QED BY <1>1, <3>1, StaysAllowed DEF Grows
  <2> QED BY <1>1, <1>2, <1>4, <1>6, <2>8, <2>10, <2>11, <2>12 DEF IInv
<1> QED BY <1>1, <1>5, <1>6

(***************************************************************************)
(* Scans and losses of power.                                              *)
(***************************************************************************)
LEMMA ScanReferencesStep ==
  ASSUME IInv, NEW p \in Procs, ScanReferences(p)
  PROVE  IInv'
<1> DEFINE old == job[p].arg
           arg == [stage |-> "blobs", began |-> old.began,
                   referenced |-> old.referenced \union ProtectedReferences, dangling |-> old.dangling]
           next == [kind |-> job[p].kind, todo |-> job[p].todo, linked |-> job[p].linked, arg |-> arg]
<1>1. /\ job[p].kind = "scan" /\ job' = [job EXCEPT ![p].arg = arg]
      /\ UNCHANGED <<files, durable, pending, lock, report, acked>>
  BY DEF ScanReferences
<1>2. JobOK(p, job[p], files, durable, lock) /\ FilesOK(files, durable)
  BY DEF IInv
<1>3. job' = [q \in Procs |-> IF q = p THEN next ELSE job[q]]
  <2>1. ASSUME NEW x
        PROVE  [job EXCEPT ![p].arg = x]
                 = [q \in Procs |-> IF q = p
                      THEN [kind |-> job[p].kind, todo |-> job[p].todo, linked |-> job[p].linked, arg |-> x]
                      ELSE job[q]]
    BY <1>2 DEF IInv, JobOK, Shaped
  <2> HIDE DEF arg
  <2> QED BY <1>1, <2>1
<1>4. /\ next.kind = "scan" /\ next.todo = job[p].todo /\ next.linked = job[p].linked /\ next.arg = arg
      /\ Shaped(next)
  BY <1>1, <1>2 DEF JobOK, Shaped
<1>5. ScanOK(job[p], files)
  BY <1>2 DEF JobOK
<1>6. ASSUME NEW d \in Digests, Reference(d, Detached) \in old.began
      PROVE  d \in arg.referenced
  <2>1. Reference(d, Detached) \in DOMAIN files
    BY <1>1, <1>5, <1>6 DEF ScanOK
  <2>2. Blob(d) \in DOMAIN files
    BY <1>2, <2>1 DEF FilesOK
  <2> QED BY <2>1, <2>2 DEF ProtectedReferences, Exists, Verify
<1>7. ASSUME NEW d \in arg.referenced
      PROVE  \/ \E i \in Ids : RecordFile(i) \in DOMAIN files /\ files[RecordFile(i)].digest = d
             \/ Reference(d, Detached) \in DOMAIN files
  BY <1>1, <1>5, <1>7 DEF ScanOK, ProtectedReferences, Exists
<1>8. /\ arg.began = old.began /\ arg.dangling = old.dangling /\ old.referenced \subseteq arg.referenced
      /\ arg = [stage |-> arg.stage, began |-> arg.began, referenced |-> arg.referenced, dangling |-> arg.dangling]
  OBVIOUS
<1> HIDE DEF arg, next
<1>9. ScanOK(next, files)
  BY <1>1, <1>4, <1>5, <1>6, <1>7, <1>8 DEF ScanOK
<1>10. JobOK(p, next, files, durable, lock) /\ ~Registering(next)
  BY <1>1, <1>2, <1>4, <1>9 DEF JobOK, LinkedOK, EventOK, ForEvent, Registering
<1>11. /\ \A q \in Procs : q # p => JobOK(q, job'[q], files', durable', lock')
       /\ \A q \in Procs : q # p /\ Registering(job[q])' => MayRegister(job[q].arg)'
  BY <1>1, <1>3, Others
<1>12. job'[p] = next /\ job' = [q \in Procs |-> job'[q]]
  BY <1>3
<1> QED BY <1>1, <1>10, <1>11, <1>12 DEF IInv

LEMMA ScanBlobsStep ==
  ASSUME IInv, NEW p \in Procs, ScanBlobs(p)
  PROVE  IInv'
<1>1. /\ job[p].kind = "scan" /\ job' = [job EXCEPT ![p] = Idle]
      /\ \E x : report' = [report EXCEPT ![p] = x]
      /\ UNCHANGED <<files, durable, pending, lock, acked>>
  BY DEF ScanBlobs
<1>2. report' = [q \in Procs |-> report'[q]]
  BY <1>1 DEF IInv
<1>3. ASSUME NEW q \in Procs
      PROVE  /\ JobOK(q, job'[q], files', durable', lock')
             /\ Registering(job[q])' => MayRegister(job[q].arg)'
  <2>1. CASE q = p
    BY <1>1, <2>1, IdleOK DEF IInv
  <2>2. CASE q # p
    <3>1. \A r \in Procs : r # p => job'[r] = job[r]
      BY <1>1 DEF IInv
    <3> QED BY <1>1, <2>2, <3>1, Others
  <2> QED BY <2>1, <2>2
<1>4. job' = [q \in Procs |-> job'[q]]
  BY <1>1 DEF IInv
<1> QED BY <1>1, <1>2, <1>3, <1>4 DEF IInv

\* A loss of power leaves what was durable, and nobody at work.
LEMMA PowerLossStep ==
  ASSUME IInv, PowerLoss
  PROVE  IInv'
<1>1. PICK kept \in SUBSET (DOMAIN files \ durable), saved \in SUBSET (pending \union Printed) :
        /\ files' = [f \in durable \union kept |-> files[f]]
        /\ durable' = durable \union kept /\ pending' = saved
  BY DEF PowerLoss
<1>2. /\ job' = [p \in Procs |-> Idle] /\ lock' = [i \in Ids |-> Nobody]
      /\ UNCHANGED <<report, acked>>
  BY DEF PowerLoss
<1>3. FilesOK(files, durable) /\ PendingOK(pending, files, durable) /\ AckedOK(acked, durable)
  BY DEF IInv
<1>4. /\ DOMAIN files' = durable' /\ durable \subseteq durable' /\ durable' \subseteq DOMAIN files
      /\ \A f \in durable' : files'[f] = files[f]
      /\ Agree(files, files', durable)
  BY <1>1, <1>3 DEF FilesOK, Agree
<1>5. FilesOK(files', durable')
  <2>1. ASSUME NEW i \in Ids, RecordFile(i) \in durable', ~files'[RecordFile(i)].promoted
        PROVE  Kept(files'[RecordFile(i)], files', durable')
    BY <1>3, <1>4, <2>1, KeptStays DEF FilesOK
  <2> QED BY <1>3, <1>4, <2>1 DEF FilesOK
<1>6. PendingOK(pending', files', durable')
  <2>1. PendingOK(pending', files, durable)
    BY <1>1, PrintedOK DEF PendingOK
  <2> QED BY <1>4, <2>1, PendingStays
<1>7. AckedOK(acked', durable')
  BY <1>2, <1>3, <1>4 DEF AckedOK
<1>8. ASSUME NEW p \in Procs
      PROVE  JobOK(p, job'[p], files', durable', lock') /\ ~Registering(job'[p])
  BY <1>2, IdleOK
<1>9. /\ job' = [p \in Procs |-> job'[p]] /\ lock' = [i \in Ids |-> lock'[i]]
      /\ report' = [p \in Procs |-> report'[p]]
  BY <1>2 DEF IInv
<1> QED BY <1>5, <1>6, <1>7, <1>8, <1>9 DEF IInv

(***************************************************************************)
(* The invariant.                                                          *)
(***************************************************************************)
LEMMA InitOK == Init => IInv
<1> SUFFICES ASSUME Init
             PROVE  IInv
  OBVIOUS
<1>1. PICK puts \in Earlier : files = Stored(puts)
  BY DEF Init
<1>2. puts \subseteq [id : Ids, digest : Digests] /\ durable = DOMAIN files
  BY LockwoodAssumption DEF Init
<1> DEFINE all == UNION {ToSet(Put(put, {}, 0)) : put \in puts}
<1>3. files = [f \in {x.path : x \in all} |-> (CHOOSE x \in all : x.path = f).content]
  BY <1>1 DEF Stored
<1>4. ASSUME NEW x \in all
      PROVE  \E put \in puts :
               \/ x.path = Blob(put.digest)
               \/ x.path = Reference(put.digest, Plain)
               \/ x.path = RecordFile(put.id) /\ x.content.digest = put.digest /\ x.content.parents = {}
  <2>1. PICK put \in puts : x \in ToSet(Put(put, {}, 0))
    OBVIOUS
  <2>2. \A u, v, w : ToSet(<<u, v, w>>) = {u, v, w}
    BY DEF ToSet
  <2>3. \/ x = Publication(Blob(put.digest), put.digest)
        \/ x = Publication(Reference(put.digest, Plain), Plain)
        \/ x = Publication(RecordFile(put.id),
                 [digest |-> put.digest, parents |-> {}, stamp |-> 0, promoted |-> FALSE])
    <3> DEFINE u == Publication(Blob(put.digest), put.digest)
               v == Publication(Reference(put.digest, Plain), Plain)
               w == Publication(RecordFile(put.id),
                      [digest |-> put.digest, parents |-> {}, stamp |-> 0, promoted |-> FALSE])
    <3>1. Put(put, {}, 0) = <<u, v, w>>
      BY DEF Put
    <3> HIDE DEF u, v, w
    <3>2. x \in {u, v, w}
      BY <2>1, <2>2, <3>1
    <3> QED BY <3>2 DEF u, v, w
  <2> QED BY <2>3 DEF Publication
<1>5. ASSUME NEW put \in puts
      PROVE  Blob(put.digest) \in durable /\ Reference(put.digest, Plain) \in durable
  <2>1. /\ Publication(Blob(put.digest), put.digest) \in all
        /\ Publication(Reference(put.digest, Plain), Plain) \in all
    <3>1. ASSUME NEW a, NEW b, NEW c
          PROVE  a \in ToSet(<<a, b, c>>) /\ b \in ToSet(<<a, b, c>>)
      BY DEF ToSet
    <3>2. /\ Publication(Blob(put.digest), put.digest) \in ToSet(Put(put, {}, 0))
          /\ Publication(Reference(put.digest, Plain), Plain) \in ToSet(Put(put, {}, 0))
      BY <3>1 DEF Put
    <3> QED BY <3>2
  <2> HIDE DEF all
  <2> QED BY <1>2, <1>3, <2>1 DEF Publication
<1> HIDE DEF all
<1>6. ASSUME NEW i \in Ids, RecordFile(i) \in DOMAIN files
      PROVE  Kept(files[RecordFile(i)], files, durable)
  <2> DEFINE x == CHOOSE y \in all : y.path = RecordFile(i)
  <2>1. x \in all /\ x.path = RecordFile(i) /\ files[RecordFile(i)] = x.content
    BY <1>3, <1>6
  <2> HIDE DEF x
  <2>2. PICK put \in puts : x.content.digest = put.digest /\ x.content.parents = {}
    BY <1>4, <2>1, PathsDiffer
  <2> QED BY <1>5, <2>1, <2>2 DEF Kept
<1>7. ASSUME NEW d \in Digests, NEW m \in {Plain, Detached}, Reference(d, m) \in DOMAIN files
      PROVE  Blob(d) \in durable
  <2>1. PICK x \in all : x.path = Reference(d, m)
    BY <1>3, <1>7
  <2>2. PICK put \in puts : x.path = Reference(put.digest, Plain)
    BY <1>4, <2>1, PathsDiffer
  <2>3. Reference(d, m) = Reference(put.digest, Plain)
    BY <2>1, <2>2
  <2>4. d = put.digest
    BY ONLY <2>3 DEF Reference
  <2> QED BY <1>5, <2>4
<1>8. FilesOK(files, durable)
  BY <1>2, <1>6, <1>7 DEF FilesOK
<1>9. PendingOK(pending, files, durable) /\ AckedOK(acked, durable)
  BY DEF Init, PendingOK, AckedOK
<1>10. /\ job = [p \in Procs |-> job[p]] /\ lock = [i \in Ids |-> lock[i]] /\ report = [p \in Procs |-> report[p]]
       /\ \A p \in Procs : job[p] = Idle
  BY DEF Init
<1> QED BY <1>8, <1>9, <1>10, IdleOK DEF IInv

LEMMA StepOK == IInv /\ [Next]_vars => IInv'
<1> SUFFICES ASSUME IInv, [Next]_vars
             PROVE  IInv'
  OBVIOUS
<1>1. ASSUME NEW p \in Procs,
             Command(p) \/ EnterEvent(p) \/ Link(p) \/ Sync(p) \/ Fail(p) \/ ScanReferences(p) \/ ScanBlobs(p)
      PROVE  IInv'
  BY <1>1, CommandStep, EnterEventStep, LinkStep, SyncStep, FailStep, ScanReferencesStep, ScanBlobsStep
<1>2. CASE PowerLoss
  BY <1>2, PowerLossStep
<1>3. CASE UNCHANGED vars
  <2>1. ASSUME NEW q \in Procs, Registering(job[q])'
        PROVE  MayRegister(job[q].arg)'
    BY <1>3, <2>1, StaysAllowed DEF vars, IInv, Grows
  <2>2. UNCHANGED <<files, durable, pending, lock, job, report, acked>>
    BY <1>3 DEF vars
  <2> QED BY <2>1, <2>2 DEF IInv
<1> QED BY <1>1, <1>2, <1>3 DEF Next

THEOREM CustodyInvariant == Spec => []IInv
BY InitOK, StepOK, PTL DEF Spec

(***************************************************************************)
(* What commands may rely on.                                              *)
(***************************************************************************)

\* For any processes, commands, records and losses of power: accepted records
\* have their blob, their reference and the records of their parents, and what
\* was reported as published is there (custody/filesystem.go, store/reference.go).
THEOREM CustodyAccepted == Spec => []AcceptedIsBacked
<1>1. IInv => AcceptedIsBacked
  <2> SUFFICES ASSUME IInv
               PROVE  AcceptedIsBacked
    OBVIOUS
  <2>1. ASSUME NEW i \in Records, ~Record(i).promoted
        PROVE  /\ Verify(Record(i).digest) /\ Exists(Reference(Record(i).digest, Plain))
               /\ \A d \in Record(i).parents : Recorded(d)
    <3>1. Kept(files[RecordFile(i)], files, durable) /\ durable \subseteq DOMAIN files
      BY <2>1 DEF IInv, FilesOK, Records, Record, Exists
    <3> QED BY <3>1 DEF Kept, Record, Records, Recorded, Exists, Verify
  <2>2. \A a \in acked : ~a.repeated => Exists(a.path)
    BY DEF IInv, AckedOK, FilesOK, Exists
  <2> QED BY <2>1, <2>2 DEF AcceptedIsBacked
<1> QED BY <1>1, CustodyInvariant, PTL

\* A command starts with nothing linked, and reports nothing.
LEMMA CommandBegins ==
  ASSUME NEW q, Command(q)
  PROVE  /\ \E kind, todo, arg : job' = [job EXCEPT ![q] = Job(kind, todo, arg)]
         /\ report' = report \/ report' = [report EXCEPT ![q] = Nil]
<1>1. ASSUME NEW kind, NEW todo, NEW arg, Begin(q, Job(kind, todo, arg))
      PROVE  \E k, t, a : job' = [job EXCEPT ![q] = Job(k, t, a)]
  BY <1>1 DEF Begin
<1>2. ASSUME NEW s \in Intakes, StartIntake(q, s)
      PROVE  \E k, t, a : Begin(q, Job(k, t, a)) /\ report' = report
  BY <1>2 DEF StartIntake
<1>3. ASSUME NEW d \in Envelopes, StartEnvelope(q, d)
      PROVE  \E k, t, a : Begin(q, Job(k, t, a)) /\ report' = report
  BY <1>3 DEF StartEnvelope
<1>4. ASSUME NEW r \in pending \union Printed, StartRecover(q, r)
      PROVE  \E k, t, a : Begin(q, Job(k, t, a)) /\ report' = report
  BY <1>4 DEF StartRecover
<1>5. ASSUME NEW e, StartAppend(q, e) \/ StartRegister(q, e)
      PROVE  \E k, t, a : Begin(q, Job(k, t, a)) /\ report' = report
  BY <1>5 DEF StartAppend, StartRegister
<1>6. ASSUME NEW m \in Promotions, StartPromote(q, m)
      PROVE  \E k, t, a : Begin(q, Job(k, t, a)) /\ report' = report
  BY <1>6 DEF StartPromote
<1>7. ASSUME ScanRecords(q)
      PROVE  \E k, t, a : Begin(q, Job(k, t, a)) /\ report' = [report EXCEPT ![q] = Nil]
  BY <1>7 DEF ScanRecords
<1> QED BY <1>1, <1>2, <1>3, <1>4, <1>5, <1>6, <1>7 DEF Command

\* Only Link sets `linked`.
LEMMA LinkedByLink ==
  ASSUME IInv, Next, NEW p \in Procs, ~job[p].linked, job'[p].linked
  PROVE  Link(p)
<1> USE DEF IInv
<1>1. ASSUME NEW q \in Procs, Command(q)
      PROVE  FALSE
  <2>1. PICK kind, todo, arg : job' = [job EXCEPT ![q] = Job(kind, todo, arg)]
    BY <1>1, CommandBegins
  <2> QED BY <2>1 DEF Job
<1>2. ASSUME NEW q \in Procs, EnterEvent(q)
      PROVE  FALSE
  <2>1. Shaped(job[q])
    BY DEF JobOK
  <2>2. job' = [job EXCEPT ![q] = Idle] \/ \E x : job' = [job EXCEPT ![q].todo = x]
    BY <1>2 DEF EnterEvent, Finish
  <2> QED BY <2>1, <2>2 DEF Idle, Shaped
<1>3. ASSUME NEW q \in Procs, Sync(q)
      PROVE  FALSE
  <2>1. job' = [job EXCEPT ![q] = Idle] \/ job' = [job EXCEPT ![q] = Job(@.kind, Tail(@.todo), @.arg)]
    BY <1>3 DEF Sync, Finish
  <2> QED BY <2>1 DEF Idle, Job
<1>4. ASSUME NEW q \in Procs, Fail(q) \/ ScanBlobs(q)
      PROVE  FALSE
  BY <1>4 DEF Fail, ScanBlobs, Idle
<1>5. ASSUME NEW q \in Procs, ScanReferences(q)
      PROVE  FALSE
  <2>1. Shaped(job[q]) /\ \E x : job' = [job EXCEPT ![q].arg = x]
    BY <1>5 DEF ScanReferences, JobOK
  <2> QED BY <2>1 DEF Shaped
<1>6. ASSUME PowerLoss
      PROVE  FALSE
  BY <1>6 DEF PowerLoss, Idle
<1>7. ASSUME NEW q \in Procs, Link(q)
      PROVE  q = p
  <2>1. job' = [job EXCEPT ![q].linked = TRUE]
    BY <1>7 DEF Link
  <2> QED BY <2>1
<1> QED BY <1>1, <1>2, <1>3, <1>4, <1>5, <1>6, <1>7 DEF Next

\* A redaction is published only while no hold is active and its original is the
\* current source, whatever other processes append and register (redaction.go).
THEOREM CustodyRegistration == Spec => RegistrationIsCurrent
<1>1. IInv /\ [Next]_vars =>
        [\A p \in Procs :
           (job[p].kind = "register" /\ ~job[p].linked /\ job'[p].linked) => MayRegister(job[p].arg)]_vars
  <2> SUFFICES ASSUME IInv, Next, NEW p \in Procs, job[p].kind = "register", ~job[p].linked, job'[p].linked
               PROVE  MayRegister(job[p].arg)
    OBVIOUS
  <2>1. job[p].todo # <<>>
    BY LinkedByLink DEF Link
  <2> QED BY <2>1 DEF IInv, Registering
<1> QED BY <1>1, CustodyInvariant, PTL DEF Spec, RegistrationIsCurrent

\* Only ScanBlobs reports.
LEMMA ReportedByScan ==
  ASSUME IInv, Next, NEW p \in Procs, report[p] = Nil, report'[p] # Nil
  PROVE  ScanBlobs(p)
<1>1. ASSUME NEW q \in Procs, Command(q)
      PROVE  report' = report \/ report' = [report EXCEPT ![q] = Nil]
  BY <1>1, CommandBegins
<1>2. ASSUME NEW q \in Procs, EnterEvent(q) \/ Link(q) \/ Sync(q) \/ Fail(q) \/ ScanReferences(q)
      PROVE  report' = report
  BY <1>2 DEF EnterEvent, Link, Sync, Fail, ScanReferences
<1>3. ASSUME PowerLoss
      PROVE  report' = report
  BY <1>3 DEF PowerLoss
<1>4. ASSUME NEW q \in Procs, ScanBlobs(q)
      PROVE  q = p
  BY <1>4 DEF ScanBlobs, IInv
<1>5. ASSUME NEW q \in Procs
      PROVE  report' # [report EXCEPT ![q] = Nil]
  BY <1>5 DEF IInv
<1> QED BY <1>1, <1>2, <1>3, <1>4, <1>5 DEF Next

\* A scan calls no blob an orphan that something referenced when it began, and
\* overlooks none that nothing has referenced (custody/recovery.go).
THEOREM CustodyScan == Spec => ScanIsSound
<1> DEFINE Sound(p) ==
      LET began == job[p].arg.began IN
      /\ \A d \in Digests :
           (Blob(d) \in began /\ ~Recorded(d) /\ ~Exists(Reference(d, Detached))) => d \in report'[p].orphans
      /\ \A d \in report'[p].orphans :
           /\ Reference(d, Detached) \notin began
           /\ \A i \in Records : Record(i).digest = d => RecordFile(i) \notin began
      /\ \A i \in report'[p].dangling : Record(i).promoted
<1>1. ASSUME IInv, Next, NEW p \in Procs, report[p] = Nil, report'[p] # Nil
      PROVE  Sound(p)
  <2> DEFINE arg == job[p].arg
  <2>1. ScanBlobs(p) /\ job[p].kind = "scan" /\ arg.stage = "blobs"
    BY <1>1, ReportedByScan DEF ScanBlobs
  <2>2. /\ report'[p].orphans = {d \in Digests : Verify(d)} \ arg.referenced
        /\ report'[p].dangling = arg.dangling
    BY <1>1, <2>1 DEF ScanBlobs, IInv
  <2>3. ScanOK(job[p], files)
    BY <1>1 DEF IInv, JobOK
  <2>4. ASSUME NEW d \in Digests, Blob(d) \in arg.began, ~Recorded(d), ~Exists(Reference(d, Detached))
        PROVE  d \in report'[p].orphans
    <3>1. Verify(d)
      BY <2>1, <2>3, <2>4 DEF ScanOK, Verify, Exists
    <3>2. d \notin arg.referenced
      BY <2>1, <2>3, <2>4 DEF ScanOK, Recorded, Records, Record, Exists
    <3> QED BY <2>2, <3>1, <3>2
  <2>5. ASSUME NEW d \in report'[p].orphans
        PROVE  /\ Reference(d, Detached) \notin arg.began
               /\ \A i \in Records : Record(i).digest = d => RecordFile(i) \notin arg.began
    <3>1. d \in Digests /\ d \notin arg.referenced
      BY <2>2
    <3> QED BY <2>1, <2>3, <3>1 DEF ScanOK, Records, Record
  <2>6. ASSUME NEW i \in report'[p].dangling
        PROVE  Record(i).promoted
    BY <2>1, <2>2, <2>3 DEF ScanOK, Record
  <2> QED BY <2>4, <2>5, <2>6
<1> HIDE DEF Sound
<1>2. IInv /\ [Next]_vars => [\A p \in Procs : (report[p] = Nil /\ report'[p] # Nil) => Sound(p)]_vars
  BY <1>1
<1> QED BY <1>2, CustodyInvariant, PTL DEF Spec, ScanIsSound, Sound
================================================================================
