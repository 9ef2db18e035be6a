---------------------------- MODULE HammondStore ----------------------------
(***************************************************************************)
(* The governance records of the versions of one contract, as Hammond      *)
(* keeps them: hammond/internal/store/filesystem.go over the rules of      *)
(* hammond/internal/governance (validate.go, lifecycle.go, policy.go,      *)
(* lineage.go).                                                            *)
(*                                                                         *)
(* Each record is a file with a history of events and the state that it    *)
(* materializes.  Every mutation holds an exclusive lock on the store from *)
(* its first read to its last write, so that it is one step here; but      *)
(* CreateAmendment writes two files, and a crash or a failed write can end *)
(* it after either (Rollback).  Callers submit any event at any time: the  *)
(* command line builds an event from a record that it read earlier, and    *)
(* the store validates it against the one it holds.  A conditional         *)
(* mutation that finds another revision than its caller's is no step.      *)
(*                                                                         *)
(* One review policy with one authority snapshot, both immutable by their  *)
(* digests, governs all records.  Abstracted: reasons, kinds, URIs, the    *)
(* digests of well formed events, and event identifiers (an event with a   *)
(* known one is refused: no step).                                         *)
(***************************************************************************)
EXTENDS Naturals, Sequences, FiniteSets

CONSTANTS
  Contracts,          \* identities of the versions (number and digest) of a contract
  Version,            \* their version numbers
  Actors, Roles,
  Grants,             \* the authority snapshot: who may decide in which role
  MinimumApprovals,   \* distinct actors, and
  Threshold,          \* distinct actors in each role, to approve
  Cycles,             \* identifiers of review cycles
  MaxTime,            \* bound: timestamps are 1 .. MaxTime, and
  MaxEvents,          \* a record has at most so many events
  RollbackFails,      \* the rollback of an amendment can fail or crash
  Nil

ASSUME StoreAssumption ==
  /\ Version \in [Contracts -> Nat]
  /\ Grants \subseteq Actors \X Roles
  /\ MinimumApprovals \in Nat \ {0}
  /\ Threshold \in [Roles -> Nat]
  /\ MaxTime \in Nat /\ MaxEvents \in Nat
  /\ RollbackFails \in BOOLEAN

VARIABLES
  records,   \* the events of each record, <<>> when it is not stored
  state      \* the state in each record

vars == <<records, state>>

States == {"none", "registered", "in_review", "approved", "rejected", "superseded"}
Times  == 1 .. MaxTime

Event ==
  [type : {"registered", "review-opened", "approval-recorded", "rejection-recorded",
           "amendment-created", "superseded"},
   actor : Actors \union {Nil}, role : Roles \union {Nil}, cycle : Cycles \union {Nil},
   successor : Contracts \union {Nil}, at : Times]

Entry(type, actor, role, cycle, successor, at) ==
  [type |-> type, actor |-> actor, role |-> role, cycle |-> cycle,
   successor |-> successor, at |-> at]

Registered(at) == Entry("registered", Nil, Nil, Nil, Nil, at)

\* An amendment or a supersession.
Link(type, successor, at) == Entry(type, Nil, Nil, Nil, successor, at)

Decisions == {"approval-recorded", "rejection-recorded"}

\* The events that AppendEvent takes.
Submissions ==
  {Entry("review-opened", Nil, Nil, cycle, Nil, t) : t \in Times, cycle \in Cycles} \union
  {Entry(type, actor, role, cycle, Nil, t) :
     type \in Decisions, actor \in Actors, role \in Roles, cycle \in Cycles, t \in Times}

-----------------------------------------------------------------------------
(* The rules of a record.                                                  *)

OfType(events, type) == {i \in DOMAIN events : events[i].type = type}

\* The cycle of the last review that was opened.
ActiveCycle(events) ==
  LET opened == OfType(events, "review-opened")
  IN  IF opened = {} THEN Nil
      ELSE events[CHOOSE i \in opened : \A j \in opened : j <= i].cycle

\* Fault: approvals of earlier cycles count.
ApprovalsOfAnyCycle(events, cycle) ==
  {i \in OfType(events, "approval-recorded") : <<events[i].actor, events[i].role>> \in Grants}

\* Approvals of a cycle by actors with the role they claim.
Approvals(events, cycle) ==
  {i \in OfType(events, "approval-recorded") :
     events[i].cycle = cycle /\ <<events[i].actor, events[i].role>> \in Grants}

\* Distinct actors, in all and for each role.
Quorum(events, approvals) ==
  /\ Cardinality({events[i].actor : i \in approvals}) >= MinimumApprovals
  /\ \A role \in Roles :
       Cardinality({events[i].actor : i \in {j \in approvals : events[j].role = role}})
         >= Threshold[role]

Satisfied(events, cycle) == Quorum(events, Approvals(events, cycle))

\* The states in which an event is valid.
ValidIn ==
  {<<"review-opened", "registered">>, <<"review-opened", "rejected">>,
   <<"approval-recorded", "in_review">>, <<"rejection-recorded", "in_review">>,
   <<"amendment-created", "approved">>, <<"superseded", "approved">>}

NextState(events, e) ==
  IF e.type = "approval-recorded"
  THEN IF Satisfied(Append(events, e), e.cycle) THEN "approved" ELSE "in_review"
  ELSE IF e.type = "review-opened"      THEN "in_review"
  ELSE IF e.type = "rejection-recorded" THEN "rejected"
  ELSE IF e.type = "amendment-created"  THEN "approved"
  ELSE "superseded"

\* Events of a record do not go back in time; a cycle is opened once; a
\* decision names the active cycle and is authorised; an amendment leads to a
\* greater version.  (The earlier events of a stored record stay valid.)
Valid(c, events, st, e) ==
  /\ <<e.type, st>> \in ValidIn
  /\ \A i \in DOMAIN events : events[i].at <= e.at
  /\ e.type = "review-opened" =>
       \A i \in OfType(events, "review-opened") : events[i].cycle # e.cycle
  /\ e.type \in Decisions =>
       e.cycle = ActiveCycle(events) /\ <<e.actor, e.role>> \in Grants
  /\ e.type = "amendment-created" => Version[e.successor] > Version[c]

-----------------------------------------------------------------------------
(* The lineage of some records.                                            *)

Linked(events, successor) ==
  \E i \in OfType(events, "amendment-created") : events[i].successor = successor

\* validateEventOrder: the first event of a type does not come after a time.
HappenedBy(events, type, at) ==
  LET found == OfType(events, type)
  IN  found # {} /\ events[CHOOSE i \in found : \A j \in found : i <= j].at <= at

\* Fault: an approval at the very time of the supersession is too late.
ResolvesStrictly(recs, e) ==
  /\ e.successor \in DOMAIN recs
  /\ e.type = "amendment-created" => HappenedBy(recs[e.successor], "registered", e.at)
  /\ e.type = "superseded" => HappenedBy(recs[e.successor], "approval-recorded", e.at - 1)

Resolves(recs, e) ==
  /\ e.successor \in DOMAIN recs
  /\ e.type = "amendment-created" => HappenedBy(recs[e.successor], "registered", e.at)
  /\ e.type = "superseded" => HappenedBy(recs[e.successor], "approval-recorded", e.at)

Edge(recs, c, d) ==
  \E i \in DOMAIN recs[c] :
    recs[c][i].type \in {"amendment-created", "superseded"} /\ recs[c][i].successor = d

\* ValidateLineage of a function from contracts to the events of their records.
ValidLineage(recs) ==
  /\ \A c \in DOMAIN recs : \A i \in DOMAIN recs[c] :
       LET e == recs[c][i] IN
         /\ e.type \in {"amendment-created", "superseded"} => Resolves(recs, e)
         /\ e.type = "superseded" => Linked(recs[c], e.successor)
  /\ ~ \E T \in SUBSET DOMAIN recs :
         T # {} /\ \A c \in T : \E d \in T : Edge(recs, c, d)

-----------------------------------------------------------------------------
(* The operations of the store.                                            *)

Init == records = [c \in Contracts |-> <<>>] /\ state = [c \in Contracts |-> "none"]

Stored(c) == records[c] # <<>>

Register(c) ==
  /\ ~Stored(c)
  /\ \E t \in Times : records' = [records EXCEPT ![c] = <<Registered(t)>>]
  /\ state' = [state EXCEPT ![c] = "registered"]

Room(c) == Len(records[c]) < MaxEvents

\* An event is appended to a stored record (get, AppendEvent, write).
Extend(c, e) ==
  /\ Stored(c) /\ Room(c)
  /\ Valid(c, records[c], state[c], e)
  /\ records' = [records EXCEPT ![c] = Append(@, e)]
  /\ state' = [state EXCEPT ![c] = NextState(records[c], e)]

AppendEvent(c) == \E e \in Submissions : Extend(c, e)

Pair(c, cEvents, s, sEvents) == [x \in {c, s} |-> IF x = c THEN cEvents ELSE sEvents]

\* What a supersession asks of the two records.
MaySupersede(c, s, e) ==
  /\ state[s] = "approved"
  /\ Linked(records[c], s)
  /\ ValidLineage(Pair(c, Append(records[c], e), s, records[s]))

Supersede(c) ==
  \E s \in Contracts \ {c}, t \in Times :
    LET e == Link("superseded", s, t) IN MaySupersede(c, s, e) /\ Extend(c, e)

MayAmend(c, s, e, registered) ==
  /\ Stored(c) /\ Room(c) /\ ~Stored(s)
  /\ Valid(c, records[c], state[c], e)
  /\ ValidLineage(Pair(c, Append(records[c], e), s, registered))

\* Fault: the predecessor is published first.
PublishedPredecessorFirst(outcome, c, cEvents, s, sEvents) ==
  \/ outcome = "both" /\ records' = [records EXCEPT ![c] = cEvents, ![s] = sEvents]
  \/ outcome = "predecessor" /\ records' = [records EXCEPT ![c] = cEvents]

\* What is on disk when CreateAmendment ends: the successor is published
\* first, and stays when its writer crashes or its directory cannot be synced.
\* A failed predecessor is rolled back: the successor is removed, then the
\* predecessor restored.
Published(outcome, c, cEvents, s, sEvents) ==
  \/ outcome = "both" /\ records' = [records EXCEPT ![c] = cEvents, ![s] = sEvents]
  \/ outcome = "successor" /\ records' = [records EXCEPT ![s] = sEvents]
  \/ outcome = "predecessor" /\ RollbackFails /\ records' = [records EXCEPT ![c] = cEvents]

CreateAmendment(c) ==
  \E s \in Contracts \ {c}, t, u \in Times, outcome \in {"both", "successor", "predecessor"} :
    LET e == Link("amendment-created", s, t)
        registered == <<Registered(u)>>
    IN  /\ MayAmend(c, s, e, registered)
        /\ Published(outcome, c, Append(records[c], e), s, registered)
        /\ state' = IF outcome = "predecessor" THEN state
                                               ELSE [state EXCEPT ![s] = "registered"]

Next == \E c \in Contracts : Register(c) \/ AppendEvent(c) \/ CreateAmendment(c) \/ Supersede(c)

Spec == Init /\ [][Next]_vars

-----------------------------------------------------------------------------
(* Properties.                                                             *)

\* Type correctness of the records, and that exactly stored ones have a state.
TypeOK ==
  /\ records \in [Contracts -> Seq(Event)]
  /\ state \in [Contracts -> States]
  /\ \A c \in Contracts : Stored(c) <=> state[c] # "none"

Last(events, types) ==
  CHOOSE i \in DOMAIN events \union {0} :
    /\ i # 0 => events[i].type \in types
    /\ \A j \in DOMAIN events : j > i => events[j].type \notin types

\* An approved record was approved by a quorum since its last review was
\* opened, without a rejection since, by actors with the roles they claim:
\* told by the order of the events and not by their review cycles.
ApprovedByQuorum ==
  \A c \in Contracts : state[c] \in {"approved", "superseded"} =>
    LET start == Last(records[c], {"review-opened", "rejection-recorded"})
        since == {i \in OfType(records[c], "approval-recorded") : i > start}
    IN  /\ start # 0 /\ records[c][start].type = "review-opened"
        /\ Quorum(records[c], since)
        /\ \A i \in since : <<records[c][i].actor, records[c][i].role>> \in Grants

SupersededBy(c, d) ==
  \E i \in OfType(records[c], "superseded") : records[c][i].successor = d

\* Every superseded version was superseded by one that is approved, or
\* superseded in its turn: following them ends at an approved version
\* (GOVERNANCE-SPEC.md:92, "points to a successor").
CurrentVersionExists ==
  \A c \in Contracts : state[c] = "superseded" =>
    \E d \in Contracts :
      SupersededBy(c, d) /\ Version[d] > Version[c] /\ state[d] \in {"approved", "superseded"}

AllStored == [c \in {d \in Contracts : Stored(d)} |-> records[c]]

\* The registry as a whole passes "hammond lineage", though each operation
\* looks at the two records of its own only (unless a rollback fails).
RegistryValid == ValidLineage(AllStored)

\* An approved version with an approved successor can be superseded by it, as
\* long as the successor has no amendment of its own: the lineage of the two
\* records alone is validated, which a link out of the pair makes invalid.
SupersessionStaysPossible ==
  \A c, s \in Contracts :
    (/\ state[c] = "approved" /\ state[s] = "approved"
     /\ Linked(records[c], s) /\ \A d \in Contracts : ~Linked(records[s], d)) =>
      \E t \in Times :
        LET e == Link("superseded", s, t)
        IN  Valid(c, records[c], state[c], e) /\ MaySupersede(c, s, e)

\* Histories only grow, an approved version never goes back to review and a
\* superseded one is final (GOVERNANCE-SPEC.md:281, "silently rewritten").
History ==
  [][\A c \in Contracts :
       /\ Len(records[c]) <= Len(records'[c])
       /\ \A i \in DOMAIN records[c] : records'[c][i] = records[c][i]
       /\ state[c] = "approved" => state'[c] \in {"approved", "superseded"}
       /\ state[c] = "superseded" => records'[c] = records[c]]_vars

-----------------------------------------------------------------------------
(* What the repository says of the store, and the code does not keep.      *)

\* filesystem.go:198-200: "If publishing the predecessor snapshot fails, the
\* newly created successor is removed and the original predecessor is
\* restored": no link leads to a record that is not stored.
LinksResolve ==
  \A c, d \in Contracts : Linked(records[c], d) => Stored(d)
=============================================================================
