------------------------- MODULE HammondStoreProofs -------------------------
(***************************************************************************)
(* Proofs about HammondStore, for every set of versions, policy and grant: *)
(* its types, the growth of its histories, that approval is by a quorum    *)
(* and that supersession leads to an approved version, whatever fails; and *)
(* when rollbacks do not fail, that the registry as a whole is valid and   *)
(* supersession stays possible.                                            *)
(***************************************************************************)
EXTENDS HammondStore, SequenceTheorems, FiniteSetTheorems, WellFoundedInduction, TLAPS

\* No record loses or changes an event.
Grown ==
  \A c \in Contracts :
    /\ Len(records[c]) <= Len(records'[c])
    /\ \A i \in DOMAIN records[c] : i \in DOMAIN records'[c] /\ records'[c][i] = records[c][i]

\* The states a step may take a record through.
Moved ==
  \A c \in Contracts :
    /\ state[c] = "approved" => state'[c] \in {"approved", "superseded"}
    /\ state[c] = "superseded" => state'[c] = "superseded" /\ records'[c] = records[c]

-----------------------------------------------------------------------------
(* Events are well typed.                                                  *)

\* Every constructor of events yields one.
LEMMA EntryType ==
  ASSUME NEW type \in {"registered", "review-opened", "approval-recorded",
                       "rejection-recorded", "amendment-created", "superseded"},
         NEW actor \in Actors \union {Nil}, NEW role \in Roles \union {Nil},
         NEW cycle \in Cycles \union {Nil}, NEW successor \in Contracts \union {Nil},
         NEW at \in Times
  PROVE  /\ Entry(type, actor, role, cycle, successor, at) \in Event
         /\ Entry(type, actor, role, cycle, successor, at).type = type
         /\ Entry(type, actor, role, cycle, successor, at).successor = successor
BY DEF Entry, Event

\* A registration and a link are events.
LEMMA LinkType ==
  ASSUME NEW type \in {"amendment-created", "superseded"}, NEW s \in Contracts, NEW t \in Times
  PROVE  /\ Registered(t) \in Event /\ Registered(t).type = "registered"
         /\ Link(type, s, t) \in Event /\ Link(type, s, t).type = type
         /\ Link(type, s, t).successor = s
BY DEF Link, Registered, Entry, Event

\* The events that callers submit are events, and not of the linking types.
LEMMA SubmissionType ==
  ASSUME NEW e \in Submissions
  PROVE  e \in Event /\ e.type \in {"review-opened", "approval-recorded", "rejection-recorded"}
<1>1. CASE \E t \in Times, cycle \in Cycles : e = Entry("review-opened", Nil, Nil, cycle, Nil, t)
  BY <1>1, EntryType
<1>2. CASE \E type \in Decisions, actor \in Actors, role \in Roles, cycle \in Cycles, t \in Times :
             e = Entry(type, actor, role, cycle, Nil, t)
  BY <1>2, EntryType DEF Decisions
<1> QED  BY <1>1, <1>2 DEF Submissions

\* The state after an event is one of a stored record.
LEMMA NextStateType ==
  ASSUME NEW events \in Seq(Event), NEW e \in Event
  PROVE  NextState(events, e) \in States \ {"none"}
BY DEF NextState, States, Event

-----------------------------------------------------------------------------
(* The step of a record.                                                   *)

\* An appended event comes last and leaves the others where they are.
LEMMA AppendKeeps ==
  ASSUME NEW events \in Seq(Event), NEW e \in Event
  PROVE  /\ Append(events, e) \in Seq(Event)
         /\ Append(events, e) # <<>>
         /\ Len(Append(events, e)) = Len(events) + 1
         /\ DOMAIN Append(events, e) = 1 .. Len(events) + 1
         /\ DOMAIN events = 1 .. Len(events)
         /\ Append(events, e)[Len(events) + 1] = e
         /\ \A i \in DOMAIN events :
              i \in DOMAIN Append(events, e) /\ Append(events, e)[i] = events[i]
BY AppendProperties, LenProperties

\* What a history that stays, gets an event or begins keeps.
LEMMA HistoryKeeps ==
  ASSUME NEW old \in Seq(Event), NEW new,
         \/ new = old
         \/ \E e \in Event : new = Append(old, e)
         \/ old = <<>> /\ \E e \in Event : new = <<e>>
  PROVE  /\ Len(old) <= Len(new)
         /\ \A i \in DOMAIN old : i \in DOMAIN new /\ new[i] = old[i]
<1>1. CASE new = old
  BY <1>1, LenProperties
<1>2. CASE \E e \in Event : new = Append(old, e)
  BY <1>2, AppendKeeps, LenProperties
<1>3. CASE old = <<>> /\ \E e \in Event : new = <<e>>
  <2>1. PICK e \in Event : new = <<e>>
    BY <1>3
  <2>2. Len(old) = 0 /\ DOMAIN old = {} /\ Len(new) = 1
    BY <1>3, <2>1
  <2> QED  BY <2>2
<1> QED  BY <1>1, <1>2, <1>3

\* Extending a record keeps the types, the histories, and the states that are final.
LEMMA ExtendStep ==
  ASSUME TypeOK, NEW c \in Contracts, NEW e \in Event, Extend(c, e)
  PROVE  TypeOK' /\ Grown /\ Moved
<1>1. records[c] \in Seq(Event) /\ state[c] \in States
  BY DEF TypeOK
<1>2. NextState(records[c], e) \in States \ {"none"}
  BY <1>1, NextStateType
<1>3. records' = [records EXCEPT ![c] = Append(records[c], e)]
  BY DEF Extend
<1>4. state' = [state EXCEPT ![c] = NextState(records[c], e)]
  BY DEF Extend
<1>5. TypeOK'
  BY <1>1, <1>2, <1>3, <1>4, AppendKeeps DEF TypeOK, Stored
<1>6. Grown
  BY <1>1, <1>3, HistoryKeeps DEF TypeOK, Grown
<1>7. Moved
  <2>1. <<e.type, state[c]>> \in ValidIn
    BY DEF Extend, Valid
  <2>2. /\ state[c] # "superseded"
        /\ state[c] = "approved" => NextState(records[c], e) \in {"approved", "superseded"}
    BY <2>1 DEF ValidIn, NextState, Decisions, Event
  <2> QED  BY <1>3, <1>4, <2>2 DEF Moved, TypeOK
<1> QED  BY <1>5, <1>6, <1>7

\* A new record is stored where there was none.
LEMMA StoreStep ==
  ASSUME TypeOK, NEW s \in Contracts, NEW e \in Event, ~Stored(s),
         records' = [records EXCEPT ![s] = <<e>>],
         state' = [state EXCEPT ![s] = "registered"]
  PROVE  TypeOK' /\ Grown /\ Moved
<1>1. records[s] = <<>> /\ state[s] = "none"
  BY DEF TypeOK, Stored
<1>2. <<e>> \in Seq(Event) /\ <<e>> # <<>>
  OBVIOUS
<1>3. TypeOK'
  BY <1>1, <1>2 DEF TypeOK, Stored, States
<1>4. Grown
  BY <1>1, HistoryKeeps DEF TypeOK, Grown
<1>5. Moved
  BY <1>1 DEF Moved, TypeOK
<1> QED  BY <1>3, <1>4, <1>5

\* An amendment of an approved record that stores its successor too.
LEMMA AmendStep ==
  ASSUME TypeOK, NEW c \in Contracts, NEW s \in Contracts \ {c}, NEW e \in Event, NEW r \in Event,
         Stored(c), ~Stored(s), state[c] # "superseded",
         records' = [records EXCEPT ![c] = Append(records[c], e), ![s] = <<r>>],
         state' = [state EXCEPT ![s] = "registered"]
  PROVE  TypeOK' /\ Grown /\ Moved
<1>1. records[s] = <<>> /\ state[s] = "none" /\ state[c] # "none"
  BY DEF TypeOK, Stored
<1>2. <<r>> \in Seq(Event) /\ <<r>> # <<>>
  OBVIOUS
<1>3. records[c] \in Seq(Event)
  BY DEF TypeOK
<1>4. /\ records'[c] = Append(records[c], e) /\ records'[s] = <<r>>
      /\ \A d \in Contracts \ {c, s} : records'[d] = records[d]
  BY DEF TypeOK
<1>5. TypeOK'
  BY <1>1, <1>2, <1>3, <1>4, AppendKeeps DEF TypeOK, Stored, States
<1>6. Grown
  <2>1. ASSUME NEW d \in Contracts
        PROVE  \/ records'[d] = records[d]
               \/ \E x \in Event : records'[d] = Append(records[d], x)
               \/ records[d] = <<>> /\ \E x \in Event : records'[d] = <<x>>
    BY <1>1, <1>4
  <2> QED  BY <2>1, HistoryKeeps DEF TypeOK, Grown
<1>7. Moved
  BY <1>1, <1>4 DEF Moved, TypeOK
<1> QED  BY <1>5, <1>6, <1>7

\* A predecessor that keeps its amendment when the rollback failed.
LEMMA StrandedStep ==
  ASSUME TypeOK, NEW c \in Contracts, NEW e \in Event,
         Stored(c), state[c] # "superseded",
         records' = [records EXCEPT ![c] = Append(records[c], e)],
         state' = state
  PROVE  TypeOK' /\ Grown /\ Moved
<1>1. records[c] \in Seq(Event) /\ state[c] # "none"
  BY DEF TypeOK, Stored
<1>2. TypeOK'
  BY <1>1, AppendKeeps DEF TypeOK, Stored
<1>3. Grown
  BY <1>1, HistoryKeeps DEF TypeOK, Grown
<1>4. Moved
  BY DEF Moved, TypeOK
<1> QED  BY <1>2, <1>3, <1>4

\* What CreateAmendment leaves on disk, one step per outcome.
LEMMA CreateAmendmentStep ==
  ASSUME TypeOK, NEW c \in Contracts, CreateAmendment(c)
  PROVE  TypeOK' /\ Grown /\ Moved
<1>1. PICK s \in Contracts \ {c}, t \in Times, u \in Times,
           outcome \in {"both", "successor", "predecessor"} :
        /\ MayAmend(c, s, Link("amendment-created", s, t), <<Registered(u)>>)
        /\ Published(outcome, c, Append(records[c], Link("amendment-created", s, t)),
                     s, <<Registered(u)>>)
        /\ state' = IF outcome = "predecessor" THEN state
                                               ELSE [state EXCEPT ![s] = "registered"]
  BY DEF CreateAmendment
<1>2. DEFINE e == Link("amendment-created", s, t)
             r == Registered(u)
<1>3. e \in Event /\ r \in Event /\ e.type = "amendment-created"
  BY LinkType
<1> HIDE DEF e, r
<1>4. Stored(c) /\ ~Stored(s) /\ <<e.type, state[c]>> \in ValidIn
  BY <1>1 DEF MayAmend, Valid, e
<1>5. state[c] # "superseded"
  BY <1>3, <1>4 DEF ValidIn
<1>6. Published(outcome, c, Append(records[c], e), s, <<r>>)
  BY <1>1 DEF e, r
<1>7. CASE outcome = "both"
  <2>1. records' = [records EXCEPT ![c] = Append(records[c], e), ![s] = <<r>>]
    BY <1>6, <1>7 DEF Published
  <2> QED  BY <1>1, <1>3, <1>4, <1>5, <1>7, <2>1, AmendStep
<1>8. CASE outcome = "successor"
  <2>1. records' = [records EXCEPT ![s] = <<r>>]
    BY <1>6, <1>8 DEF Published
  <2> QED  BY <1>1, <1>3, <1>4, <1>8, <2>1, StoreStep
<1>9. CASE outcome = "predecessor"
  <2>1. records' = [records EXCEPT ![c] = Append(records[c], e)]
    BY <1>6, <1>9 DEF Published
  <2> QED  BY <1>1, <1>3, <1>4, <1>5, <1>9, <2>1, StrandedStep
<1> QED  BY <1>7, <1>8, <1>9

\* Every step keeps the types and lets histories only grow.
LEMMA EveryStep ==
  ASSUME TypeOK, [Next]_vars
  PROVE  TypeOK' /\ Grown /\ Moved
<1>1. CASE UNCHANGED vars
  BY <1>1, LenProperties DEF vars, TypeOK, Stored, Grown, Moved
<1>2. ASSUME NEW c \in Contracts, Register(c)
      PROVE  TypeOK' /\ Grown /\ Moved
  <2>1. PICK t \in Times : records' = [records EXCEPT ![c] = <<Registered(t)>>]
    BY <1>2 DEF Register
  <2>2. Registered(t) \in Event
    BY LinkType
  <2> QED  BY <1>2, <2>1, <2>2, StoreStep DEF Register
<1>3. ASSUME NEW c \in Contracts, AppendEvent(c)
      PROVE  TypeOK' /\ Grown /\ Moved
  BY <1>3, SubmissionType, ExtendStep DEF AppendEvent
<1>4. ASSUME NEW c \in Contracts, Supersede(c)
      PROVE  TypeOK' /\ Grown /\ Moved
  <2>1. PICK s \in Contracts, t \in Times : Extend(c, Link("superseded", s, t))
    BY <1>4 DEF Supersede
  <2>2. Link("superseded", s, t) \in Event
    BY LinkType
  <2> QED  BY <1>4, <2>1, <2>2, ExtendStep
<1> QED  BY <1>1, <1>2, <1>3, <1>4, CreateAmendmentStep DEF Next

-----------------------------------------------------------------------------
(* Supersession.                                                           *)

\* Amendments lead to greater versions.
Ascending ==
  \A c \in Contracts : \A i \in DOMAIN records[c] :
    records[c][i].type = "amendment-created" =>
      records[c][i].successor \in Contracts /\ Version[records[c][i].successor] > Version[c]

StoreInv == TypeOK /\ Ascending /\ CurrentVersionExists

\* An event that is new in a record was registered, submitted, a supersession,
\* or an amendment that leads to a greater version.
NewEvents ==
  \A c \in Contracts : \A i \in DOMAIN records'[c] :
    \/ i \in DOMAIN records[c] /\ records'[c][i] = records[c][i]
    \/ records'[c][i].type = "amendment-created" =>
         records'[c][i].successor \in Contracts /\ Version[records'[c][i].successor] > Version[c]

\* A record that becomes superseded names a successor that is approved and
\* of a greater version.
NewlySuperseded ==
  \A c \in Contracts : state'[c] = "superseded" /\ state[c] # "superseded" =>
    \E d \in Contracts :
      /\ state[d] = "approved" /\ Version[d] > Version[c]
      /\ \E i \in DOMAIN records'[c] :
           records'[c][i].type = "superseded" /\ records'[c][i].successor = d

\* The events of a history with one more.
LEMMA AppendedEvents ==
  ASSUME NEW events \in Seq(Event), NEW e \in Event, NEW i \in DOMAIN Append(events, e)
  PROVE  \/ i \in DOMAIN events /\ Append(events, e)[i] = events[i]
         \/ Append(events, e)[i] = e
BY AppendKeeps, LenProperties

\* The events a step adds, in the extension of a record.
LEMMA ExtendEvents ==
  ASSUME TypeOK, NEW c \in Contracts, NEW e \in Event, Extend(c, e),
         e.type = "amendment-created" => e.successor \in Contracts
  PROVE  NewEvents
<1>1. records' = [records EXCEPT ![c] = Append(records[c], e)]
  BY DEF Extend
<1>2. e.type = "amendment-created" => Version[e.successor] > Version[c]
  BY DEF Extend, Valid
<1> QED  BY <1>1, <1>2, AppendedEvents DEF NewEvents, TypeOK

\* The events an amendment adds.
LEMMA AmendEvents ==
  ASSUME TypeOK, NEW c \in Contracts, CreateAmendment(c)
  PROVE  NewEvents
<1>1. PICK s \in Contracts \ {c}, t \in Times, u \in Times,
           outcome \in {"both", "successor", "predecessor"} :
        /\ MayAmend(c, s, Link("amendment-created", s, t), <<Registered(u)>>)
        /\ Published(outcome, c, Append(records[c], Link("amendment-created", s, t)),
                     s, <<Registered(u)>>)
  BY DEF CreateAmendment
<1>2. DEFINE e == Link("amendment-created", s, t)
             r == Registered(u)
<1>3. e \in Event /\ r \in Event /\ e.successor = s /\ r.type = "registered"
  BY LinkType
<1>4. e.type = "amendment-created"
  BY LinkType
<1>5. Version[s] > Version[c]
  BY <1>1, <1>3, <1>4 DEF MayAmend, Valid
<1>6. Published(outcome, c, Append(records[c], e), s, <<r>>)
  BY <1>1
<1> HIDE DEF e, r
<1>7. ASSUME NEW d \in Contracts
      PROVE  \/ records'[d] = records[d]
             \/ d = c /\ records'[d] = Append(records[d], e)
             \/ records'[d] = <<r>>
  BY <1>6 DEF Published, TypeOK
<1>8. ASSUME NEW d \in Contracts, NEW i \in DOMAIN records'[d]
      PROVE  \/ i \in DOMAIN records[d] /\ records'[d][i] = records[d][i]
             \/ d = c /\ records'[d][i] = e
             \/ records'[d][i] = r
  <2>1. CASE records'[d] = records[d]
    BY <2>1
  <2>2. CASE d = c /\ records'[d] = Append(records[d], e)
    BY <1>3, <2>2, AppendedEvents DEF TypeOK
  <2>3. CASE records'[d] = <<r>>
    BY <2>3
  <2> QED  BY <1>7, <2>1, <2>2, <2>3
<1> QED  BY <1>3, <1>5, <1>8 DEF NewEvents

\* Each step of the store, for the invariant.
LEMMA StepEvents ==
  ASSUME StoreInv, Next
  PROVE  NewEvents /\ NewlySuperseded
<1> USE DEF StoreInv
<1>1. ASSUME NEW c \in Contracts, Register(c)
      PROVE  NewEvents /\ NewlySuperseded
  <2>1. PICK t \in Times : records' = [records EXCEPT ![c] = <<Registered(t)>>]
    BY <1>1 DEF Register
  <2>2. Registered(t).type = "registered"
    BY DEF Registered, Entry
  <2>3. NewEvents
    BY <2>1, <2>2 DEF NewEvents, TypeOK
  <2>4. NewlySuperseded
    BY <1>1 DEF Register, NewlySuperseded, TypeOK
  <2> QED  BY <2>3, <2>4
<1>2. ASSUME NEW c \in Contracts, AppendEvent(c)
      PROVE  NewEvents /\ NewlySuperseded
  <2>1. PICK e \in Submissions : Extend(c, e)
    BY <1>2 DEF AppendEvent
  <2>2. e \in Event /\ e.type \in {"review-opened", "approval-recorded", "rejection-recorded"}
    BY SubmissionType
  <2>3. NewEvents
    BY <2>1, <2>2, ExtendEvents
  <2>4. NextState(records[c], e) # "superseded"
    BY <2>2 DEF NextState
  <2>5. NewlySuperseded
    BY <2>1, <2>4 DEF Extend, NewlySuperseded, TypeOK
  <2> QED  BY <2>3, <2>5
<1>3. ASSUME NEW c \in Contracts, CreateAmendment(c)
      PROVE  NewEvents /\ NewlySuperseded
  <2>1. NewEvents
    BY <1>3, AmendEvents
  <2>2. \A d \in Contracts : state'[d] = state[d] \/ state'[d] = "registered"
    BY <1>3 DEF CreateAmendment, TypeOK
  <2> QED  BY <2>1, <2>2 DEF NewlySuperseded
<1>4. ASSUME NEW c \in Contracts, Supersede(c)
      PROVE  NewEvents /\ NewlySuperseded
  <2>1. PICK s \in Contracts \ {c}, t \in Times :
          MaySupersede(c, s, Link("superseded", s, t)) /\ Extend(c, Link("superseded", s, t))
    BY <1>4 DEF Supersede
  <2>2. DEFINE e == Link("superseded", s, t)
  <2>3. e \in Event /\ e.type = "superseded" /\ e.successor = s
    BY LinkType
  <2> HIDE DEF e
  <2>4. MaySupersede(c, s, e) /\ Extend(c, e)
    BY <2>1 DEF e
  <2>5. NewEvents
    BY <2>3, <2>4, ExtendEvents
  <2>6. state[s] = "approved" /\ Version[s] > Version[c]
    BY <2>4 DEF MaySupersede, Linked, OfType, Ascending
  <2>7. records[c] \in Seq(Event) /\ records'[c] = Append(records[c], e)
    BY <2>4 DEF Extend, TypeOK
  <2>8. /\ Len(records[c]) + 1 \in DOMAIN records'[c]
        /\ records'[c][Len(records[c]) + 1] = e
    BY <2>3, <2>7, AppendKeeps, LenProperties
  <2>9. \A d \in Contracts \ {c} : state'[d] = state[d]
    BY <2>4 DEF Extend, TypeOK
  <2> QED  BY <2>3, <2>5, <2>6, <2>8, <2>9 DEF NewlySuperseded
<1> QED  BY <1>1, <1>2, <1>3, <1>4 DEF Next

\* The invariant is inductive.
LEMMA StoreInvStep ==
  ASSUME StoreInv, [Next]_vars
  PROVE  StoreInv'
<1>1. TypeOK' /\ Grown /\ Moved
  BY EveryStep DEF StoreInv
<1>2. CASE UNCHANGED vars
  BY <1>2 DEF vars, StoreInv, TypeOK, Stored, Ascending, CurrentVersionExists, SupersededBy, OfType
<1>3. CASE Next
  <2>1. NewEvents /\ NewlySuperseded
    BY <1>3, StepEvents
  <2>2. Ascending'
    BY <2>1 DEF NewEvents, Ascending, StoreInv
  <2>3. CurrentVersionExists'
    <3> SUFFICES ASSUME NEW c \in Contracts, state'[c] = "superseded"
                 PROVE  \E d \in Contracts :
                          /\ SupersededBy(c, d)' /\ Version[d] > Version[c]
                          /\ state'[d] \in {"approved", "superseded"}
      BY DEF CurrentVersionExists
    <3>1. CASE state[c] = "superseded"
      <4>1. PICK d \in Contracts :
              /\ SupersededBy(c, d) /\ Version[d] > Version[c]
              /\ state[d] \in {"approved", "superseded"}
        BY <3>1 DEF StoreInv, CurrentVersionExists
      <4>2. state'[d] \in {"approved", "superseded"}
        BY <1>1, <4>1 DEF Moved
      <4>3. records'[c] = records[c]
        BY <1>1, <3>1 DEF Moved
      <4>4. SupersededBy(c, d)'
        BY <4>1, <4>3 DEF SupersededBy, OfType
      <4> QED  BY <4>1, <4>2, <4>4
    <3>2. CASE state[c] # "superseded"
      <4>1. PICK d \in Contracts :
              /\ state[d] = "approved" /\ Version[d] > Version[c]
              /\ \E i \in DOMAIN records'[c] :
                   records'[c][i].type = "superseded" /\ records'[c][i].successor = d
        BY <2>1, <3>2 DEF NewlySuperseded
      <4>2. state'[d] \in {"approved", "superseded"}
        BY <1>1, <4>1 DEF Moved
      <4>3. SupersededBy(c, d)'
        BY <4>1 DEF SupersededBy, OfType
      <4> QED  BY <4>1, <4>2, <4>3
    <3> QED  BY <3>1, <3>2
  <2> QED  BY <1>1, <2>2, <2>3 DEF StoreInv
<1> QED  BY <1>2, <1>3

\* The store starts empty.
LEMMA StoreInvInit ==
  ASSUME Init
  PROVE  StoreInv
<1>1. \A c \in Contracts : records[c] = <<>> /\ state[c] = "none"
  BY DEF Init
<1>2. TypeOK
  BY <1>1 DEF Init, TypeOK, Stored, States
<1>3. Ascending
  BY <1>1 DEF Ascending
<1>4. CurrentVersionExists
  BY <1>1 DEF CurrentVersionExists
<1> QED  BY <1>2, <1>3, <1>4 DEF StoreInv

-----------------------------------------------------------------------------
(* What a step does to one record.                                         *)

LinkTypes == {"amendment-created", "superseded"}

\* The record of d gets one more event.  A link is validated with the record
\* that it leads to, unless a rollback may strand it.
Extended(d, e) ==
  /\ Stored(d)
  /\ Valid(d, records[d], state[d], e)
  /\ records'[d] = Append(records[d], e)
  /\ state'[d] = NextState(records[d], e)
  /\ e.type \in LinkTypes =>
       /\ e.successor \in Contracts \ {d}
       /\ ~RollbackFails =>
            /\ records'[e.successor] # <<>>
            /\ ValidLineage(Pair(d, records'[d], e.successor, records'[e.successor]))

\* It is the same, is new, or gets one more event.
RecordStep(d) ==
  \/ records'[d] = records[d] /\ state'[d] = state[d]
  \/ ~Stored(d) /\ state'[d] = "registered" /\ \E t \in Times : records'[d] = <<Registered(t)>>
  \/ \E e \in Event : Extended(d, e)

\* One record at most becomes stored.
OneNewRecord ==
  \A c, d \in Contracts : ~Stored(c) /\ Stored(c)' /\ ~Stored(d) /\ Stored(d)' => c = d

LEMMA RecordSteps ==
  ASSUME TypeOK, [Next]_vars
  PROVE  OneNewRecord /\ \A d \in Contracts : RecordStep(d)
<1>1. CASE UNCHANGED vars
  BY <1>1 DEF vars, OneNewRecord, RecordStep, Stored
<1>2. ASSUME NEW c \in Contracts, Register(c)
      PROVE  OneNewRecord /\ \A d \in Contracts : RecordStep(d)
  <2>1. PICK t \in Times : records' = [records EXCEPT ![c] = <<Registered(t)>>]
    BY <1>2 DEF Register
  <2>2. \A d \in Contracts \ {c} : records'[d] = records[d] /\ state'[d] = state[d]
    BY <1>2, <2>1 DEF Register, TypeOK
  <2>3. records'[c] = <<Registered(t)>> /\ state'[c] = "registered"
    BY <1>2, <2>1 DEF Register, TypeOK
  <2> QED  BY <1>2, <2>2, <2>3 DEF Register, OneNewRecord, RecordStep, Stored
<1>3. ASSUME NEW c \in Contracts, AppendEvent(c)
      PROVE  OneNewRecord /\ \A d \in Contracts : RecordStep(d)
  <2>1. PICK e \in Submissions : Extend(c, e)
    BY <1>3 DEF AppendEvent
  <2>2. e \in Event /\ e.type \notin LinkTypes
    BY SubmissionType DEF LinkTypes
  <2>3. \A d \in Contracts \ {c} : records'[d] = records[d] /\ state'[d] = state[d]
    BY <2>1 DEF Extend, TypeOK
  <2>4. Extended(c, e)
    BY <2>1, <2>2 DEF Extend, Extended, TypeOK
  <2> QED  BY <2>2, <2>3, <2>4 DEF OneNewRecord, RecordStep, Stored, Extended
<1>4. ASSUME NEW c \in Contracts, Supersede(c)
      PROVE  OneNewRecord /\ \A d \in Contracts : RecordStep(d)
  <2>1. PICK s \in Contracts \ {c}, t \in Times :
          MaySupersede(c, s, Link("superseded", s, t)) /\ Extend(c, Link("superseded", s, t))
    BY <1>4 DEF Supersede
  <2> DEFINE e == Link("superseded", s, t)
  <2>2. e \in Event /\ e.type = "superseded" /\ e.successor = s
    BY LinkType
  <2> HIDE DEF e
  <2>3. MaySupersede(c, s, e) /\ Extend(c, e)
    BY <2>1 DEF e
  <2>4. \A d \in Contracts \ {c} : records'[d] = records[d] /\ state'[d] = state[d]
    BY <2>3 DEF Extend, TypeOK
  <2>5. records'[c] = Append(records[c], e) /\ state'[c] = NextState(records[c], e)
    BY <2>3 DEF Extend, TypeOK
  <2>6. records'[s] # <<>>
    BY <2>3, <2>4 DEF MaySupersede, TypeOK, Stored
  <2>7. Extended(c, e)
    BY <2>2, <2>3, <2>4, <2>5, <2>6 DEF MaySupersede, Extend, Extended
  <2> QED  BY <2>2, <2>4, <2>7 DEF OneNewRecord, RecordStep, Stored, Extended
<1>5. ASSUME NEW c \in Contracts, CreateAmendment(c)
      PROVE  OneNewRecord /\ \A d \in Contracts : RecordStep(d)
  <2>1. PICK s \in Contracts \ {c}, t \in Times, u \in Times,
             outcome \in {"both", "successor", "predecessor"} :
          /\ MayAmend(c, s, Link("amendment-created", s, t), <<Registered(u)>>)
          /\ Published(outcome, c, Append(records[c], Link("amendment-created", s, t)),
                       s, <<Registered(u)>>)
          /\ state' = IF outcome = "predecessor" THEN state
                                                 ELSE [state EXCEPT ![s] = "registered"]
    BY <1>5 DEF CreateAmendment
  <2> DEFINE e == Link("amendment-created", s, t)
  <2>2. e \in Event /\ e.type = "amendment-created" /\ e.successor = s
    BY LinkType
  <2> HIDE DEF e
  <2>3. /\ MayAmend(c, s, e, <<Registered(u)>>)
        /\ Published(outcome, c, Append(records[c], e), s, <<Registered(u)>>)
    BY <2>1 DEF e
  <2>4. Stored(c) /\ ~Stored(s) /\ state[c] = "approved" /\ NextState(records[c], e) = "approved"
    BY <2>2, <2>3 DEF MayAmend, Valid, ValidIn, NextState
  <2>5. \A d \in Contracts \ {c, s} : records'[d] = records[d] /\ state'[d] = state[d]
    BY <2>1, <2>3 DEF Published, TypeOK
  <2>6. state'[c] = NextState(records[c], e)
    BY <2>1, <2>4 DEF TypeOK
  <2>7. CASE outcome = "both"
    <3>1. /\ records'[c] = Append(records[c], e)
          /\ records'[s] = <<Registered(u)>> /\ state'[s] = "registered"
      BY <2>1, <2>3, <2>7 DEF Published, TypeOK
    <3>2. Extended(c, e)
      BY <2>2, <2>3, <2>4, <2>6, <3>1 DEF MayAmend, Extended
    <3> QED  BY <2>2, <2>4, <2>5, <3>1, <3>2 DEF OneNewRecord, RecordStep, Stored
  <2>8. CASE outcome = "successor"
    <3>1. /\ records'[c] = records[c]
          /\ records'[s] = <<Registered(u)>> /\ state'[s] = "registered"
      BY <2>1, <2>3, <2>8 DEF Published, TypeOK
    <3> QED  BY <2>4, <2>5, <2>6, <3>1 DEF OneNewRecord, RecordStep, Stored
  <2>9. CASE outcome = "predecessor"
    <3>1. /\ RollbackFails
          /\ records'[c] = Append(records[c], e)
          /\ records'[s] = records[s] /\ state'[s] = state[s]
      BY <2>1, <2>3, <2>9 DEF Published, TypeOK
    <3>2. Extended(c, e)
      BY <2>2, <2>3, <2>4, <2>6, <3>1 DEF MayAmend, Extended
    <3> QED  BY <2>2, <2>4, <2>5, <3>1, <3>2 DEF OneNewRecord, RecordStep, Stored
  <2> QED  BY <2>7, <2>8, <2>9
<1> QED  BY <1>1, <1>2, <1>3, <1>4, <1>5 DEF Next

-----------------------------------------------------------------------------
(* Approval.                                                               *)

\* No review is opened between two events.
NoneOpened(events, i, j) ==
  \A k \in DOMAIN events : i < k /\ k < j => events[k].type # "review-opened"

\* The last of the events that begin a review, or end it without approval,
\* begins one.
UnderReview(events, k) ==
  /\ k \in OfType(events, "review-opened")
  /\ \A j \in DOMAIN events :
       j > k => events[j].type \notin {"review-opened", "rejection-recorded"}

\* Cycles are opened once; an approval is authorised and of the cycle that is
\* open where it stands; what is approved has its quorum in the last cycle.
Reviewed(events, st) ==
  /\ \A i \in OfType(events, "approval-recorded") :
       /\ <<events[i].actor, events[i].role>> \in Grants
       /\ \E j \in OfType(events, "review-opened") :
            j < i /\ events[j].cycle = events[i].cycle /\ NoneOpened(events, j, i)
  /\ \A i, j \in OfType(events, "review-opened") : events[i].cycle = events[j].cycle => i = j
  /\ st \in {"in_review", "approved", "superseded"} =>
       \E k \in DOMAIN events : UnderReview(events, k)
  /\ st \in {"approved", "superseded"} => Satisfied(events, ActiveCycle(events))

ReviewInv == \A c \in Contracts : Reviewed(records[c], state[c])

\* The approvals of the open cycle are those since it was opened.
LEMMA OpenCycle ==
  ASSUME NEW events \in Seq(Event), NEW k \in DOMAIN events, UnderReview(events, k)
  PROVE  /\ ActiveCycle(events) = events[k].cycle
         /\ Last(events, {"review-opened", "rejection-recorded"}) = k
<1>1. DOMAIN events = 1 .. Len(events) /\ Len(events) \in Nat
  BY LenProperties
<1>2. ActiveCycle(events) = events[k].cycle
  <2> DEFINE opened == OfType(events, "review-opened")
             last == CHOOSE i \in opened : \A j \in opened : j <= i
  <2>1. k \in opened /\ \A j \in opened : j <= k
    BY <1>1 DEF UnderReview, OfType
  <2>2. last \in opened /\ \A j \in opened : j <= last
    BY <2>1
  <2>3. last = k
    BY <1>1, <2>1, <2>2 DEF OfType
  <2> QED  BY <2>1, <2>3 DEF ActiveCycle
<1>3. Last(events, {"review-opened", "rejection-recorded"}) = k
  <2> DEFINE types == {"review-opened", "rejection-recorded"}
             IsLast(i) == /\ i # 0 => events[i].type \in types
                          /\ \A j \in DOMAIN events : j > i => events[j].type \notin types
             last == CHOOSE i \in DOMAIN events \union {0} : IsLast(i)
  <2>1. k \in DOMAIN events \union {0} /\ IsLast(k)
    BY DEF UnderReview, OfType
  <2>2. last \in DOMAIN events \union {0} /\ IsLast(last)
    BY <2>1
  <2>3. last = k
    BY <1>1, <2>1, <2>2 DEF UnderReview, OfType
  <2> QED  BY <2>3 DEF Last
<1> QED  BY <1>2, <1>3

\* Positions of a type, after one more event.
LEMMA AppendedType ==
  ASSUME NEW events \in Seq(Event), NEW e \in Event, NEW type
  PROVE  /\ OfType(events, type) \subseteq OfType(Append(events, e), type)
         /\ OfType(events, type) \subseteq DOMAIN events
         /\ \A i \in OfType(Append(events, e), type) :
              i \in OfType(events, type) \/ (i = Len(events) + 1 /\ e.type = type)
<1> DEFINE longer == Append(events, e)
<1>1. /\ DOMAIN longer = 1 .. Len(events) + 1 /\ DOMAIN events = 1 .. Len(events)
      /\ Len(events) \in Nat
      /\ longer[Len(events) + 1] = e
      /\ \A i \in DOMAIN events : i \in DOMAIN longer /\ longer[i] = events[i]
  BY AppendKeeps, LenProperties
<1> HIDE DEF longer
<1>2. /\ OfType(events, type) \subseteq OfType(longer, type)
      /\ OfType(events, type) \subseteq DOMAIN events
      /\ \A i \in OfType(longer, type) :
           i \in OfType(events, type) \/ (i = Len(events) + 1 /\ e.type = type)
  BY <1>1 DEF OfType
<1> QED  BY <1>2 DEF longer

\* An event that is no decision leaves the approvals as they are.
LEMMA ApprovalsStay ==
  ASSUME NEW events \in Seq(Event), NEW e \in Event, e.type # "approval-recorded", NEW cycle,
         Satisfied(events, cycle)
  PROVE  Satisfied(Append(events, e), cycle)
<1> DEFINE longer == Append(events, e)
           approvals == Approvals(events, cycle)
<1>1. Approvals(longer, cycle) = approvals
  BY AppendKeeps, AppendedType DEF Approvals, OfType
<1>2. \A i \in approvals : longer[i] = events[i]
  BY AppendKeeps DEF Approvals, OfType
<1>3. {longer[i].actor : i \in approvals} = {events[i].actor : i \in approvals}
  BY <1>2
<1>4. ASSUME NEW role \in Roles
      PROVE  {longer[i].actor : i \in {j \in approvals : longer[j].role = role}} =
             {events[i].actor : i \in {j \in approvals : events[j].role = role}}
  BY <1>2
<1> HIDE DEF approvals, longer
<1>5. Quorum(events, approvals)
  BY DEF Satisfied, approvals
<1>6. Quorum(longer, approvals)
  BY <1>3, <1>4, <1>5 DEF Quorum
<1> QED  BY <1>1, <1>6 DEF Satisfied, longer

\* A valid event keeps what is known of the reviews of a record.
LEMMA ReviewedStep ==
  ASSUME NEW c \in Contracts, NEW events \in Seq(Event), NEW st, NEW e \in Event,
         Reviewed(events, st), Valid(c, events, st, e)
  PROVE  Reviewed(Append(events, e), NextState(events, e))
<1> DEFINE longer == Append(events, e)
           next == NextState(events, e)
<1>1. /\ longer \in Seq(Event)
      /\ DOMAIN longer = 1 .. Len(events) + 1 /\ DOMAIN events = 1 .. Len(events)
      /\ Len(events) \in Nat
      /\ longer[Len(events) + 1] = e
      /\ \A i \in DOMAIN events : i \in DOMAIN longer /\ longer[i] = events[i]
  BY AppendKeeps, LenProperties
<1> HIDE DEF longer
<1>2. <<e.type, st>> \in ValidIn
  BY DEF Valid
<1>3. st \in {"in_review", "approved"} => \E k \in DOMAIN events : UnderReview(events, k)
  BY DEF Reviewed
<1>4. ASSUME NEW i \in OfType(longer, "approval-recorded")
      PROVE  /\ <<longer[i].actor, longer[i].role>> \in Grants
             /\ \E j \in OfType(longer, "review-opened") :
                  j < i /\ longer[j].cycle = longer[i].cycle /\ NoneOpened(longer, j, i)
  <2>1. CASE i \in DOMAIN events
    <3>1. i \in OfType(events, "approval-recorded")
      BY <1>1, <2>1 DEF OfType
    <3>2. PICK j \in OfType(events, "review-opened") :
            j < i /\ events[j].cycle = events[i].cycle /\ NoneOpened(events, j, i)
      BY <3>1 DEF Reviewed
    <3>3. j \in OfType(longer, "review-opened") /\ NoneOpened(longer, j, i)
      BY <1>1, <2>1, <3>2 DEF OfType, NoneOpened
    <3> QED  BY <1>1, <2>1, <3>1, <3>2, <3>3 DEF Reviewed, OfType
  <2>2. CASE i = Len(events) + 1
    <3>1. e.type = "approval-recorded" /\ longer[i] = e
      BY <1>1, <2>2 DEF OfType
    <3>2. st = "in_review" /\ e.cycle = ActiveCycle(events) /\ <<e.actor, e.role>> \in Grants
      BY <1>2, <3>1 DEF ValidIn, Valid, Decisions
    <3>3. PICK k \in DOMAIN events : UnderReview(events, k)
      BY <1>3, <3>2
    <3>4. events[k].cycle = e.cycle
      BY <3>2, <3>3, OpenCycle
    <3>5. k \in OfType(longer, "review-opened") /\ k < i /\ NoneOpened(longer, k, i)
      BY <1>1, <2>2, <3>3 DEF UnderReview, OfType, NoneOpened
    <3> QED  BY <1>1, <3>1, <3>2, <3>4, <3>5
  <2> QED  BY <1>1, <2>1, <2>2 DEF OfType
<1>5. ASSUME NEW i \in OfType(longer, "review-opened"), NEW j \in OfType(longer, "review-opened"),
             longer[i].cycle = longer[j].cycle
      PROVE  i = j
  BY <1>1, <1>5 DEF OfType, Valid, Reviewed
<1>6. ASSUME next \in {"in_review", "approved", "superseded"}
      PROVE  \E k \in DOMAIN longer : UnderReview(longer, k)
  <2>1. CASE e.type = "review-opened"
    <3>1. UnderReview(longer, Len(events) + 1)
      BY <1>1, <2>1 DEF UnderReview, OfType
    <3> QED  BY <1>1, <3>1
  <2>2. CASE e.type # "review-opened"
    <3>1. e.type # "rejection-recorded" /\ st \in {"in_review", "approved"}
      BY <1>2, <1>6, <2>2 DEF NextState, ValidIn
    <3>2. PICK k \in DOMAIN events : UnderReview(events, k)
      BY <1>3, <3>1
    <3>3. UnderReview(longer, k)
      BY <1>1, <2>2, <3>1, <3>2 DEF UnderReview, OfType
    <3> QED  BY <1>1, <3>2, <3>3
  <2> QED  BY <2>1, <2>2
<1>7. ASSUME next \in {"approved", "superseded"}
      PROVE  Satisfied(longer, ActiveCycle(longer))
  <2>1. /\ e.type \notin {"review-opened", "rejection-recorded"}
        /\ st \in {"in_review", "approved"}
        /\ e.type # "approval-recorded" => st = "approved"
    BY <1>2, <1>7 DEF NextState, ValidIn
  <2>2. PICK k \in DOMAIN events : UnderReview(events, k)
    BY <1>3, <2>1
  <2>3. UnderReview(longer, k)
    BY <1>1, <2>1, <2>2 DEF UnderReview, OfType
  <2>4. ActiveCycle(longer) = ActiveCycle(events)
    BY <1>1, <2>2, <2>3, OpenCycle
  <2>5. CASE e.type = "approval-recorded"
    <3>1. e.cycle = ActiveCycle(events)
      BY <2>5 DEF Valid, Decisions
    <3> QED  BY <1>7, <2>4, <2>5, <3>1 DEF NextState, longer
  <2>6. CASE e.type # "approval-recorded"
    <3>1. Satisfied(events, ActiveCycle(events))
      BY <2>1, <2>6 DEF Reviewed
    <3> QED  BY <2>4, <2>6, <3>1, ApprovalsStay DEF longer
  <2> QED  BY <2>5, <2>6
<1> QED  BY <1>4, <1>5, <1>6, <1>7 DEF Reviewed, longer

LEMMA ReviewInvStep ==
  ASSUME TypeOK, ReviewInv, [Next]_vars
  PROVE  ReviewInv'
<1> SUFFICES ASSUME NEW c \in Contracts PROVE Reviewed(records'[c], state'[c])
  BY DEF ReviewInv
<1>1. records[c] \in Seq(Event) /\ Reviewed(records[c], state[c])
  BY DEF TypeOK, ReviewInv
<1>2. CASE records'[c] = records[c] /\ state'[c] = state[c]
  BY <1>1, <1>2
<1>3. CASE state'[c] = "registered" /\ \E t \in Times : records'[c] = <<Registered(t)>>
  <2>1. PICK t \in Times : records'[c] = <<Registered(t)>>
    BY <1>3
  <2>2. DOMAIN records'[c] = {1} /\ records'[c][1].type = "registered"
    BY <2>1, LinkType
  <2> QED  BY <1>3, <2>2 DEF Reviewed, OfType
<1>4. CASE \E e \in Event : Extended(c, e)
  BY <1>1, <1>4, ReviewedStep DEF Extended
<1> QED  BY <1>2, <1>3, <1>4, RecordSteps DEF RecordStep

LEMMA ReviewInvInit == Init => ReviewInv
<1> SUFFICES ASSUME Init, NEW c \in Contracts PROVE Reviewed(records[c], state[c])
  BY DEF ReviewInv
<1>1. records[c] = <<>> /\ state[c] = "none"
  BY DEF Init
<1> QED  BY <1>1 DEF Reviewed, OfType

\* What is known of the reviews makes an approved record one with a quorum.
LEMMA QuorumSinceReview ==
  ASSUME NEW events \in Seq(Event), NEW st \in {"approved", "superseded"}, Reviewed(events, st)
  PROVE  LET start == Last(events, {"review-opened", "rejection-recorded"})
             since == {i \in OfType(events, "approval-recorded") : i > start}
         IN  /\ start # 0 /\ events[start].type = "review-opened"
             /\ Quorum(events, since)
             /\ \A i \in since : <<events[i].actor, events[i].role>> \in Grants
<1>1. PICK k \in DOMAIN events : UnderReview(events, k)
  BY DEF Reviewed
<1>2. DOMAIN events = 1 .. Len(events) /\ Len(events) \in Nat
  BY LenProperties
<1> DEFINE start == Last(events, {"review-opened", "rejection-recorded"})
           since == {i \in OfType(events, "approval-recorded") : i > start}
<1>3. start = k
  BY <1>1, OpenCycle
<1> HIDE DEF start
<1>4. since = Approvals(events, events[k].cycle)
  <2>1. ASSUME NEW i \in OfType(events, "approval-recorded")
        PROVE  i > k <=> events[i].cycle = events[k].cycle
    <3>1. PICK j \in OfType(events, "review-opened") :
            j < i /\ events[j].cycle = events[i].cycle /\ NoneOpened(events, j, i)
      BY DEF Reviewed
    <3>2. /\ j <= k /\ j \in DOMAIN events /\ i \in DOMAIN events
          /\ k \in OfType(events, "review-opened")
      BY <1>1, <1>2 DEF UnderReview, OfType
    <3>3. i > k => j = k
      BY <1>1, <1>2, <3>1, <3>2 DEF NoneOpened, OfType
    <3>4. events[i].cycle = events[k].cycle => j = k
      BY <3>1, <3>2 DEF Reviewed
    <3> QED  BY <3>1, <3>3, <3>4
  <2> QED  BY <1>3, <2>1 DEF Approvals, Reviewed
<1>5. Quorum(events, since)
  BY <1>1, <1>4, OpenCycle DEF Reviewed, Satisfied
<1>6. start # 0 /\ events[start].type = "review-opened"
  BY <1>1, <1>2, <1>3 DEF UnderReview, OfType
<1>7. \A i \in since : <<events[i].actor, events[i].role>> \in Grants
  BY DEF Reviewed
<1> QED  BY <1>5, <1>6, <1>7 DEF start

-----------------------------------------------------------------------------
(* Lineage, when rollbacks do not fail.                                    *)

\* A link leads to another stored record, which is registered, or approved, at
\* its time; a superseded version was amended before.
LinkHolds(c, e) ==
  /\ e.successor \in Contracts \ {c} /\ Stored(e.successor)
  /\ e.type = "amendment-created" => HappenedBy(records[e.successor], "registered", e.at)
  /\ e.type = "superseded" =>
       /\ HappenedBy(records[e.successor], "approval-recorded", e.at)
       /\ Linked(records[c], e.successor)
       /\ state[c] = "superseded"

\* The links of a record hold, and all lead to the same record.
LinksHold(c) ==
  \A i \in DOMAIN records[c] : records[c][i].type \in LinkTypes =>
    /\ LinkHolds(c, records[c][i])
    /\ \A j \in DOMAIN records[c] : records[c][j].type \in LinkTypes =>
         records[c][j].successor = records[c][i].successor

VersionsBounded == \E n \in Nat : \A c \in Contracts : Stored(c) => Version[c] <= n

LineageInv == (\A c \in Contracts : LinksHold(c)) /\ VersionsBounded

\* A set of numbers has a least one.
LEMMA LeastNumber ==
  ASSUME NEW T \in SUBSET Nat, T # {}
  PROVE  \E n \in T : \A m \in T : n <= m
<1> DEFINE Less == OpToRel(<, Nat)
<1>1. \A x, y \in Nat : <<y, x>> \in Less <=> y < x
  BY DEF OpToRel
<1>2. IsWellFoundedOn(Less, Nat)
  BY NatLessThanWellFounded
<1> HIDE DEF Less
<1>3. PICK x \in T : \A y \in T : ~ (<<y, x>> \in Less)
  BY <1>2, WFMin
<1>4. ASSUME NEW m \in T
      PROVE  x <= m
  <2>1. x \in Nat /\ m \in Nat /\ ~ (m < x)
    BY <1>1, <1>3
  <2> QED  BY <2>1
<1> QED  BY <1>4

\* The first event of a type is one.
LEMMA FirstOfType ==
  ASSUME NEW events \in Seq(Event), NEW type, OfType(events, type) # {}
  PROVE  LET found == OfType(events, type)
             first == CHOOSE i \in found : \A j \in found : i <= j
         IN  first \in found /\ \A j \in found : first <= j
<1>1. OfType(events, type) \subseteq Nat
  BY LenProperties DEF OfType
<1> QED  BY <1>1, LeastNumber

\* What happened by some time has done so after one more event.
LEMMA HappenedStays ==
  ASSUME NEW events \in Seq(Event), NEW e \in Event, NEW type, NEW at,
         HappenedBy(events, type, at)
  PROVE  HappenedBy(Append(events, e), type, at)
<1> DEFINE longer == Append(events, e)
           found == OfType(events, type)
           later == OfType(longer, type)
           first == CHOOSE i \in found : \A j \in found : i <= j
           same == CHOOSE i \in later : \A j \in later : i <= j
<1>1. found # {} /\ events[first].at <= at
  BY DEF HappenedBy
<1>2. first \in found /\ \A j \in found : first <= j
  BY <1>1, FirstOfType
<1>3. longer \in Seq(Event) /\ later # {}
  BY <1>1, AppendedType, AppendKeeps
<1>4. same \in later /\ \A j \in later : same <= j
  BY <1>3, FirstOfType
<1>5. /\ found \subseteq later /\ found \subseteq 1 .. Len(events) /\ Len(events) \in Nat
      /\ \A i \in later : i \in found \/ i = Len(events) + 1
  BY AppendedType, LenProperties
<1> HIDE DEF first, same, later, found, longer
<1>6. same = first
  BY <1>2, <1>4, <1>5
<1>7. longer[first] = events[first]
  BY <1>2, <1>5, AppendKeeps DEF longer, found, OfType
<1>8. later # {} /\ longer[same].at <= at
  BY <1>1, <1>3, <1>6, <1>7
<1> QED  BY <1>8 DEF HappenedBy, longer, later, same

\* A stored record stays stored, and keeps what happened in it.
LEMMA RecordKeeps ==
  ASSUME TypeOK, NEW d \in Contracts, Stored(d), RecordStep(d)
  PROVE  /\ records'[d] # <<>>
         /\ \A type, at : HappenedBy(records[d], type, at) => HappenedBy(records'[d], type, at)
<1>1. records[d] \in Seq(Event)
  BY DEF TypeOK
<1>2. CASE records'[d] = records[d]
  BY <1>2 DEF Stored
<1>3. CASE \E e \in Event : Extended(d, e)
  BY <1>1, <1>3, AppendKeeps, HappenedStays DEF Extended
<1> QED  BY <1>2, <1>3 DEF RecordStep

\* A link that a step adds holds afterwards.
LEMMA NewLinkHolds ==
  ASSUME ~RollbackFails, TypeOK, NEW c \in Contracts, NEW e \in Event, Extended(c, e),
         e.type \in LinkTypes
  PROVE  /\ e.successor \in Contracts \ {c} /\ records'[e.successor] # <<>>
         /\ e.type = "amendment-created" => HappenedBy(records'[e.successor], "registered", e.at)
         /\ e.type = "superseded" =>
              /\ HappenedBy(records'[e.successor], "approval-recorded", e.at)
              /\ Linked(records'[c], e.successor)
              /\ state'[c] = "superseded"
         /\ \A i \in DOMAIN records'[c] : records'[c][i].type \in LinkTypes =>
              records'[c][i].successor \in {c, e.successor}
<1> DEFINE s == e.successor
           recs == Pair(c, records'[c], s, records'[s])
<1>1. /\ s \in Contracts \ {c} /\ records'[s] # <<>>
      /\ ValidLineage(recs)
      /\ records'[c] = Append(records[c], e)
      /\ state'[c] = NextState(records[c], e)
  BY DEF Extended
<1>2. DOMAIN recs = {c, s} /\ recs[c] = records'[c] /\ recs[s] = records'[s]
  BY <1>1 DEF Pair
<1> HIDE DEF recs
<1>3. /\ Len(records[c]) + 1 \in DOMAIN records'[c]
      /\ records'[c][Len(records[c]) + 1] = e
  BY <1>1, AppendKeeps, LenProperties DEF TypeOK
<1>4. ASSUME NEW i \in DOMAIN records'[c]
      PROVE  /\ records'[c][i].type \in LinkTypes => Resolves(recs, records'[c][i])
             /\ records'[c][i].type = "superseded" => Linked(recs[c], records'[c][i].successor)
  BY <1>1, <1>2 DEF ValidLineage, LinkTypes
<1>5. Resolves(recs, e) /\ (e.type = "superseded" => Linked(recs[c], s))
  BY <1>3, <1>4
<1>6. e.type = "superseded" => state'[c] = "superseded"
  BY <1>1 DEF NextState
<1>7. \A i \in DOMAIN records'[c] : records'[c][i].type \in LinkTypes =>
        records'[c][i].successor \in {c, s}
  BY <1>2, <1>4 DEF Resolves
<1> QED  BY <1>1, <1>2, <1>5, <1>6, <1>7 DEF Resolves

\* The links of every record hold after a step.
LEMMA LinksHoldStep ==
  ASSUME ~RollbackFails, TypeOK, \A d \in Contracts : LinksHold(d), [Next]_vars,
         NEW c \in Contracts
  PROVE  LinksHold(c)'
<1>1. /\ records[c] \in Seq(Event) /\ LinksHold(c)
      /\ \A d \in Contracts : RecordStep(d)
  BY RecordSteps DEF TypeOK
<1>2. ASSUME NEW i \in DOMAIN records[c], records[c][i].type \in LinkTypes
      PROVE  /\ records[c][i].successor \in Contracts \ {c}
             /\ records'[records[c][i].successor] # <<>>
             /\ records[c][i].type = "amendment-created" =>
                  HappenedBy(records'[records[c][i].successor], "registered", records[c][i].at)
             /\ records[c][i].type = "superseded" =>
                  HappenedBy(records'[records[c][i].successor], "approval-recorded",
                             records[c][i].at)
  <2>1. LinkHolds(c, records[c][i])
    BY <1>1, <1>2 DEF LinksHold
  <2> QED  BY <1>1, <2>1, RecordKeeps DEF LinkHolds
<1>3. CASE records'[c] = records[c] /\ state'[c] = state[c]
  BY <1>1, <1>2, <1>3 DEF LinksHold, LinkHolds, Stored
<1>4. CASE \E t \in Times : records'[c] = <<Registered(t)>>
  <2>1. PICK t \in Times : records'[c] = <<Registered(t)>>
    BY <1>4
  <2>2. \A i \in DOMAIN records'[c] : records'[c][i].type \notin LinkTypes
    BY <2>1, LinkType DEF LinkTypes
  <2> QED  BY <2>2 DEF LinksHold
<1>5. CASE \E e \in Event : Extended(c, e)
  <2>1. PICK e \in Event : Extended(c, e)
    BY <1>5
  <2>2. records'[c] = Append(records[c], e) /\ <<e.type, state[c]>> \in ValidIn
    BY <2>1 DEF Extended, Valid
  <2>3. \A i \in DOMAIN records[c] : records[c][i].type # "superseded"
    BY <1>1, <2>2 DEF LinksHold, LinkHolds, LinkTypes, ValidIn
  <2>4. \A i \in DOMAIN records'[c] :
          (i \in DOMAIN records[c] /\ records'[c][i] = records[c][i]) \/ records'[c][i] = e
    BY <1>1, <2>2, AppendedEvents
  <2>5. ASSUME NEW i \in DOMAIN records'[c], records'[c][i].type \in LinkTypes
        PROVE  LET f == records'[c][i] IN
                 /\ f.successor \in Contracts \ {c} /\ records'[f.successor] # <<>>
                 /\ f.type = "amendment-created" =>
                      HappenedBy(records'[f.successor], "registered", f.at)
                 /\ f.type = "superseded" =>
                      /\ HappenedBy(records'[f.successor], "approval-recorded", f.at)
                      /\ Linked(records'[c], f.successor)
                      /\ state'[c] = "superseded"
    <3>1. CASE i \in DOMAIN records[c] /\ records'[c][i] = records[c][i]
      BY <1>2, <2>3, <2>5, <3>1
    <3>2. CASE records'[c][i] = e
      BY <2>1, <2>5, <3>2, NewLinkHolds
    <3> QED  BY <2>4, <3>1, <3>2
  <2>6. ASSUME NEW i \in DOMAIN records'[c], records'[c][i].type \in LinkTypes,
               NEW j \in DOMAIN records'[c], records'[c][j].type \in LinkTypes
        PROVE  records'[c][j].successor = records'[c][i].successor
    <3>1. CASE e.type \in LinkTypes
      <4>1. /\ records'[c][i].successor \in {c, e.successor}
            /\ records'[c][j].successor \in {c, e.successor}
        BY <2>1, <2>6, <3>1, NewLinkHolds
      <4>2. records'[c][i].successor # c /\ records'[c][j].successor # c
        BY <2>5, <2>6
      <4> QED  BY <4>1, <4>2
    <3>2. CASE e.type \notin LinkTypes
      BY <1>1, <2>4, <2>6, <3>2 DEF LinksHold
    <3> QED  BY <3>1, <3>2
  <2> QED  BY <2>5, <2>6 DEF LinksHold, LinkHolds, Stored
<1> QED  BY <1>1, <1>3, <1>4, <1>5 DEF RecordStep

LEMMA LineageInvStep ==
  ASSUME ~RollbackFails, TypeOK, LineageInv, [Next]_vars
  PROVE  LineageInv'
<1>1. \A c \in Contracts : LinksHold(c)'
  BY LinksHoldStep DEF LineageInv
<1>2. VersionsBounded'
  <2>1. PICK n \in Nat : \A c \in Contracts : Stored(c) => Version[c] <= n
    BY DEF LineageInv, VersionsBounded
  <2>2. \A c \in Contracts : Version[c] \in Nat
    BY StoreAssumption
  <2>3. OneNewRecord
    BY RecordSteps
  <2>4. CASE \E c \in Contracts : ~Stored(c) /\ Stored(c)'
    <3>1. PICK c \in Contracts : ~Stored(c) /\ Stored(c)'
      BY <2>4
    <3>2. \A d \in Contracts : Stored(d)' => d = c \/ Stored(d)
      BY <2>3, <3>1 DEF OneNewRecord
    <3>3. PICK m \in Nat : n <= m /\ Version[c] <= m
      BY <2>1, <2>2
    <3>4. \A d \in Contracts : Stored(d)' => Version[d] <= m
      BY <2>1, <2>2, <3>2, <3>3
    <3> QED  BY <3>4 DEF VersionsBounded
  <2>5. CASE \A c \in Contracts : Stored(c)' => Stored(c)
    BY <2>1, <2>5 DEF VersionsBounded
  <2> QED  BY <2>4, <2>5
<1> QED  BY <1>1, <1>2 DEF LineageInv

LEMMA LineageInvInit == Init => LineageInv
<1> SUFFICES ASSUME Init PROVE LineageInv
  OBVIOUS
<1>1. \A c \in Contracts : records[c] = <<>>
  BY DEF Init
<1>2. VersionsBounded
  <2>1. 0 \in Nat /\ \A c \in Contracts : Stored(c) => Version[c] <= 0
    BY <1>1 DEF Stored
  <2> QED  BY <2>1 DEF VersionsBounded
<1> QED  BY <1>1, <1>2 DEF LineageInv, LinksHold

\* A link leads to a greater version: an amendment by itself, and a supersession
\* because an amendment leads there too.
LEMMA LinksAscend ==
  ASSUME Ascending, NEW c \in Contracts, LinksHold(c), NEW i \in DOMAIN records[c],
         records[c][i].type \in LinkTypes
  PROVE  Version[records[c][i].successor] > Version[c]
<1>1. CASE records[c][i].type = "amendment-created"
  BY <1>1 DEF Ascending
<1>2. CASE records[c][i].type = "superseded"
  <2>1. Linked(records[c], records[c][i].successor)
    BY <1>2 DEF LinksHold, LinkHolds
  <2> QED  BY <2>1 DEF Linked, OfType, Ascending
<1> QED  BY <1>1, <1>2 DEF LinkTypes

\* There is no cycle of links, in any number of records: the versions of one
\* would have a greatest.
LEMMA NoCycle ==
  ASSUME Ascending, LineageInv, NEW T \in SUBSET {d \in Contracts : Stored(d)}, T # {}
  PROVE  ~ \A c \in T : \E d \in T : Edge(records, c, d)
<1>1. PICK n \in Nat : \A c \in Contracts : Stored(c) => Version[c] <= n
  BY DEF LineageInv, VersionsBounded
<1>2. \A c \in Contracts : Version[c] \in Nat
  BY StoreAssumption
<1> DEFINE below == {n - Version[c] : c \in T}
<1>3. below \in SUBSET Nat /\ below # {}
  BY <1>1, <1>2
<1>4. PICK m \in below : \A k \in below : m <= k
  BY <1>3, LeastNumber
<1>5. PICK c \in T : m = n - Version[c]
  BY <1>4
<1>6. ASSUME NEW d \in T, Edge(records, c, d)
      PROVE  FALSE
  <2>1. Version[d] > Version[c]
    BY <1>6, LinksAscend DEF Edge, LineageInv, LinkTypes
  <2>2. n - Version[d] \in below
    OBVIOUS
  <2>3. m <= n - Version[d]
    BY <1>4, <2>2
  <2> QED  BY <1>2, <1>5, <2>1, <2>3
<1> QED  BY <1>6

\* The records that are stored make a valid registry.
LEMMA RegistryHolds ==
  ASSUME Ascending, LineageInv
  PROVE  RegistryValid
<1> DEFINE stored == {d \in Contracts : Stored(d)}
<1>1. DOMAIN AllStored = stored /\ \A c \in stored : AllStored[c] = records[c]
  BY DEF AllStored
<1>2. ASSUME NEW c \in stored, NEW i \in DOMAIN records[c]
      PROVE  /\ records[c][i].type \in LinkTypes => Resolves(AllStored, records[c][i])
             /\ records[c][i].type = "superseded" => Linked(records[c], records[c][i].successor)
  <2>1. records[c][i].type \in LinkTypes => LinkHolds(c, records[c][i])
    BY DEF LineageInv, LinksHold
  <2> QED  BY <1>1, <2>1 DEF LinkHolds, Resolves, LinkTypes
<1>3. ASSUME NEW T \in SUBSET stored, T # {}, \A c \in T : \E d \in T : Edge(AllStored, c, d)
      PROVE  FALSE
  <2>1. \A c \in T : \E d \in T : Edge(records, c, d)
    BY <1>1, <1>3 DEF Edge
  <2> QED  BY <1>3, <2>1, NoCycle
<1> QED  BY <1>1, <1>2, <1>3 DEF RegistryValid, ValidLineage, LinkTypes

\* What has reached a quorum was approved by someone.
LEMMA SomeApproval ==
  ASSUME NEW events \in Seq(Event), NEW cycle, Satisfied(events, cycle)
  PROVE  OfType(events, "approval-recorded") # {}
<1> SUFFICES ASSUME OfType(events, "approval-recorded") = {} PROVE FALSE
  OBVIOUS
<1>1. {events[i].actor : i \in Approvals(events, cycle)} = {}
  BY DEF Approvals
<1>2. Cardinality({events[i].actor : i \in Approvals(events, cycle)}) >= MinimumApprovals
  BY DEF Satisfied, Quorum
<1>3. 0 >= MinimumApprovals
  BY <1>1, <1>2, FS_EmptySet
<1> QED  BY <1>3, StoreAssumption

\* An approved successor without links of its own supersedes its predecessor
\* at the greatest time.
LEMMA SupersessionPossible ==
  ASSUME TypeOK, Ascending, ReviewInv, LineageInv
  PROVE  SupersessionStaysPossible
<1> SUFFICES ASSUME NEW c \in Contracts, NEW s \in Contracts,
                    state[c] = "approved", state[s] = "approved",
                    Linked(records[c], s), \A d \in Contracts : ~Linked(records[s], d)
             PROVE  \E t \in Times :
                      LET e == Link("superseded", s, t)
                      IN  Valid(c, records[c], state[c], e) /\ MaySupersede(c, s, e)
  BY DEF SupersessionStaysPossible
<1> DEFINE t == MaxTime
           e == Link("superseded", s, t)
<1>1. /\ records[c] \in Seq(Event) /\ records[s] \in Seq(Event)
      /\ LinksHold(c) /\ LinksHold(s)
  BY DEF TypeOK, LineageInv
<1>2. \A x \in Contracts : \A i \in DOMAIN records[x] : records[x][i] \in Event
  BY DEF TypeOK
<1>3. PICK a \in DOMAIN records[c] :
        records[c][a].type = "amendment-created" /\ records[c][a].successor = s
  BY DEF Linked, OfType
<1>4. s # c
  BY <1>1, <1>3 DEF LinksHold, LinkHolds, LinkTypes
<1>5. t \in Times /\ \A x \in Contracts : \A i \in DOMAIN records[x] : records[x][i].at <= t
  <2>1. MaxTime \in Nat
    BY StoreAssumption
  <2>2. \A x \in Contracts : \A i \in DOMAIN records[x] : records[x][i].at \in 1 .. MaxTime
    BY <1>2 DEF Event, Times
  <2> QED  BY <1>3, <2>1, <2>2 DEF Times
<1>6. e \in Event /\ e.type = "superseded" /\ e.successor = s /\ e.at = t
  BY <1>5, LinkType DEF Link, Entry
<1> HIDE DEF e, t
<1>7. Valid(c, records[c], state[c], e)
  BY <1>5, <1>6 DEF Valid, ValidIn, Decisions
<1>8. \A i \in DOMAIN records[c] : records[c][i].type \in LinkTypes =>
        records[c][i].type = "amendment-created" /\ records[c][i].successor = s
  BY <1>1, <1>3 DEF LinksHold, LinkHolds, LinkTypes
<1>9. \A i \in DOMAIN records[s] : records[s][i].type \notin LinkTypes
  BY <1>1 DEF LinksHold, LinkHolds, LinkTypes, Linked, OfType
<1>10. HappenedBy(records[s], "approval-recorded", t)
  <2>1. Satisfied(records[s], ActiveCycle(records[s]))
    BY DEF ReviewInv, Reviewed
  <2>2. OfType(records[s], "approval-recorded") # {}
    BY <1>1, <2>1, SomeApproval
  <2> DEFINE found == OfType(records[s], "approval-recorded")
             first == CHOOSE i \in found : \A j \in found : i <= j
  <2>3. first \in found
    BY <1>1, <2>2, FirstOfType
  <2>4. found \subseteq DOMAIN records[s]
    BY DEF OfType
  <2> HIDE DEF first
  <2>5. records[s][first].at <= t
    BY <1>5, <2>3, <2>4
  <2> QED  BY <2>2, <2>5 DEF HappenedBy, first
<1> DEFINE longer == Append(records[c], e)
           recs == Pair(c, longer, s, records[s])
<1>11. DOMAIN recs = {c, s} /\ recs[c] = longer /\ recs[s] = records[s]
  BY <1>4 DEF Pair
<1>12. /\ \A i \in DOMAIN longer :
            (i \in DOMAIN records[c] /\ longer[i] = records[c][i]) \/ longer[i] = e
       /\ \A i \in DOMAIN records[c] : i \in DOMAIN longer /\ longer[i] = records[c][i]
  BY <1>1, <1>6, AppendedEvents, AppendKeeps
<1> HIDE DEF recs, longer
<1>13. Linked(longer, s)
  BY <1>3, <1>12 DEF Linked, OfType
<1>14. ASSUME NEW i \in DOMAIN longer
       PROVE  /\ longer[i].type \in LinkTypes => Resolves(recs, longer[i])
              /\ longer[i].type = "superseded" => Linked(longer, longer[i].successor)
  <2>1. CASE i \in DOMAIN records[c] /\ longer[i] = records[c][i]
    BY <1>1, <1>8, <1>11, <2>1 DEF LinksHold, LinkHolds, LinkTypes, Resolves
  <2>2. CASE longer[i] = e
    BY <1>6, <1>10, <1>11, <1>13, <2>2 DEF Resolves
  <2> QED  BY <1>12, <2>1, <2>2
<1>15. ASSUME NEW T \in SUBSET {c, s}, T # {}, \A x \in T : \E y \in T : Edge(recs, x, y)
       PROVE  FALSE
  <2>1. \A y : ~Edge(recs, s, y)
    BY <1>9, <1>11 DEF Edge, LinkTypes
  <2>2. \A y : Edge(recs, c, y) => y = s
    BY <1>6, <1>8, <1>11, <1>12 DEF Edge, LinkTypes
  <2> QED  BY <1>15, <2>1, <2>2
<1>16. ValidLineage(recs)
  <2>1. ASSUME NEW x \in DOMAIN recs, NEW i \in DOMAIN recs[x]
        PROVE  /\ recs[x][i].type \in LinkTypes => Resolves(recs, recs[x][i])
               /\ recs[x][i].type = "superseded" => Linked(recs[x], recs[x][i].successor)
    BY <1>9, <1>11, <1>14 DEF LinkTypes
  <2> QED  BY <1>11, <1>15, <2>1 DEF ValidLineage, LinkTypes
<1>17. MaySupersede(c, s, e)
  BY <1>16 DEF MaySupersede, recs, longer
<1> QED  BY <1>5, <1>7, <1>17 DEF e

-----------------------------------------------------------------------------
(* The theorems.                                                           *)

\* The types, the direction of amendments and the chain of supersessions hold
\* together in every state of the store.
THEOREM StoreInvariant == Spec => []StoreInv
BY StoreInvInit, StoreInvStep, PTL DEF Spec

\* Records and states of the store are well typed, and a record has a state
\* exactly when it is stored.
THEOREM StoreTypeOK == Spec => []TypeOK
<1>1. StoreInv => TypeOK
  BY DEF StoreInv
<1> QED  BY <1>1, StoreInvariant, PTL

\* For any number of versions and whatever fails in an amendment, a superseded
\* version leads to a greater one that is approved, or superseded in its turn.
THEOREM StoreCurrentVersion == Spec => []CurrentVersionExists
<1>1. StoreInv => CurrentVersionExists
  BY DEF StoreInv
<1> QED  BY <1>1, StoreInvariant, PTL

\* No operation rewrites a history, reviews an approved version again or
\* touches a superseded one.
THEOREM StoreHistory == Spec => History
<1>1. TypeOK /\ [Next]_vars => [\A c \in Contracts :
       /\ Len(records[c]) <= Len(records'[c])
       /\ \A i \in DOMAIN records[c] : records'[c][i] = records[c][i]
       /\ state[c] = "approved" => state'[c] \in {"approved", "superseded"}
       /\ state[c] = "superseded" => records'[c] = records[c]]_vars
  BY EveryStep DEF Grown, Moved
<1> QED  BY <1>1, StoreTypeOK, PTL DEF Spec, History

\* What is known of the reviews of a record holds in every state.
THEOREM StoreReviews == Spec => []ReviewInv
<1>1. TypeOK /\ ReviewInv /\ [Next]_vars => ReviewInv'
  BY ReviewInvStep
<1> QED  BY <1>1, ReviewInvInit, StoreTypeOK, PTL DEF Spec

\* Approval is by a quorum, of any policy, since the last review was opened and
\* without a rejection since.
THEOREM StoreApproved == Spec => []ApprovedByQuorum
<1>1. TypeOK /\ ReviewInv => ApprovedByQuorum
  BY QuorumSinceReview DEF TypeOK, ReviewInv, ApprovedByQuorum
<1> QED  BY <1>1, StoreReviews, StoreTypeOK, PTL

\* The links of all records hold in every state, when rollbacks do not fail.
THEOREM StoreLineage ==
  ASSUME ~RollbackFails
  PROVE  Spec => []LineageInv
<1>1. TypeOK /\ LineageInv /\ [Next]_vars => LineageInv'
  BY LineageInvStep
<1> QED  BY <1>1, LineageInvInit, StoreTypeOK, PTL DEF Spec

\* Every state of the registry passes the validation of a whole lineage, of any
\* number of versions, though an operation looks at two records only; a rollback
\* that fails may strand a link (LinksResolve).
THEOREM StoreRegistryValid ==
  ASSUME ~RollbackFails
  PROVE  Spec => []RegistryValid
<1>1. StoreInv /\ LineageInv => RegistryValid
  BY RegistryHolds DEF StoreInv
<1> QED  BY <1>1, StoreInvariant, StoreLineage, PTL

\* An approved version with an approved successor that was not amended in turn
\* can be superseded by it, under any policy: nothing the store accepts before
\* makes that impossible.
THEOREM StoreSupersession ==
  ASSUME ~RollbackFails
  PROVE  Spec => []SupersessionStaysPossible
<1>1. StoreInv /\ ReviewInv /\ LineageInv => SupersessionStaysPossible
  BY SupersessionPossible DEF StoreInv
<1> QED  BY <1>1, StoreInvariant, StoreReviews, StoreLineage, PTL
=============================================================================
