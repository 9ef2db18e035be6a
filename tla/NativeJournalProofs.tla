------------------------- MODULE NativeJournalProofs -------------------------
(***************************************************************************)
(* What the journal of a native session guarantees whatever its callers    *)
(* submit: the invariants of NativeJournal, for every value of its         *)
(* constants.                                                              *)
(*                                                                         *)
(* The invariants are not inductive by themselves.  What they need is the  *)
(* link between the state and the events behind it (StateEvidence): a      *)
(* submitted session has its claim, a session on its way to the start has  *)
(* no cancellation request, and provider pre-start evidence is terminal.   *)
(***************************************************************************)
EXTENDS NativeJournal, TLAPS

\* What the events prove about the state that they replay to.
StateEvidence ==
  /\ state = "submitted" => Has(events, "wrapper-claim")
  /\ state \in {"prepared", "dispatching", "submitted"} =>
       \A i \in DOMAIN events : events[i].state # "cancel-requested"
  /\ \A i \in DOMAIN events :
       events[i].kind \in {"provider-canceled-before-claim",
                           "provider-canceled-before-start"} =>
         events[i].state \in TerminalStates

IInv ==
  /\ TypeOK
  /\ StateEvidence
  /\ OneVerdict
  /\ OneLaunch
  /\ PreStartEvidenceHolds

\* A step of the journal creates it or publishes one admissible event; claims
\* and starts are published only where they are granted.
Grant(e) ==
  /\ e \in Event
  /\ events # <<>>
  /\ Admissible(e)
  /\ Publish(e)
  /\ e.kind = "wrapper-claim" => CanClaim /\ e.state = "submitted"
  /\ e.kind = "wrapper-started" => CanStart /\ e.state = "running"

\* Every step of the journal is a Create or the grant of a requested event.
LEMMA StepIsGrant ==
  Next => Create \/ \E e \in Requests : Grant(e)
<1> SUFFICES ASSUME Next, ~Create PROVE \E e \in Requests : Grant(e)
  OBVIOUS
<1>1. PICK e \in Requests : AppendEvent(e) \/ ClaimExecution(e) \/ StartExecution(e)
  BY DEF Next
<1>2. e \in Event
  BY JournalAssumption
<1>3. Admissible(e) /\ Publish(e) /\ events # <<>>
  <2>1. Outcome(e) = "appended"
    BY <1>1 DEF AppendEvent, ClaimExecution, StartExecution
  <2>2. Admissible(e)
    BY <2>1 DEF Outcome
  <2>3. QED
    BY <1>1, <2>2 DEF AppendEvent, ClaimExecution, StartExecution, CanClaim, CanStart
<1>4. /\ e.kind = "wrapper-claim" => CanClaim /\ e.state = "submitted"
      /\ e.kind = "wrapper-started" => CanStart /\ e.state = "running"
  BY <1>1 DEF AppendEvent, ClaimExecution, StartExecution
<1>5. QED
  BY <1>2, <1>3, <1>4 DEF Grant

\* Publication leaves the earlier events as they are and adds one.
LEMMA PublishedEvents ==
  ASSUME TypeOK, NEW e \in Event, Publish(e)
  PROVE  /\ events' \in Seq(Event)
         /\ Len(events) \in Nat
         /\ Len(events') = Len(events) + 1
         /\ DOMAIN events = 1 .. Len(events)
         /\ DOMAIN events' = 1 .. (Len(events) + 1)
         /\ \A i \in DOMAIN events : events'[i] = events[i]
         /\ events'[Len(events) + 1] = e
BY DEF TypeOK, Publish

\* Which kinds and states a journal mentions after a publication.
LEMMA PublishedKinds ==
  ASSUME TypeOK, NEW e \in Event, Publish(e), NEW kind
  PROVE  Has(events', kind) <=> Has(events, kind) \/ e.kind = kind
BY PublishedEvents DEF Has

\* A terminal event makes the state terminal, and no event is recorded after.
LEMMA GrantVerdict ==
  ASSUME NEW e \in Event, Grant(e)
  PROVE  /\ state \notin TerminalStates
         /\ e.state \in TerminalStates => state' = e.state
         /\ state' \in States
         /\ state \in States
BY DEF Grant, Admissible, Transition, AdmitsAck, LateStart, Admits, NextState, HostAck,
       Publish, TerminalStates, States, Event

LEMMA GrantTypeOK ==
  ASSUME TypeOK, NEW e \in Event, Grant(e)
  PROVE  TypeOK'
<1>1. state' \in States
  BY GrantVerdict
<1>2. events' \in Seq(Event) /\ Len(events') = Len(events) + 1 /\ Len(events) \in Nat
  BY PublishedEvents DEF Grant
<1>3. events' # <<>>
  BY <1>2
<1>4. "absent" \notin States
  BY DEF States, TerminalStates
<1>5. QED
  BY <1>1, <1>2, <1>3, <1>4 DEF TypeOK

LEMMA GrantOneVerdict ==
  ASSUME TypeOK, OneVerdict, NEW e \in Event, Grant(e)
  PROVE  OneVerdict'
<1>1. \A i \in DOMAIN events : events[i].state \notin TerminalStates
  BY GrantVerdict DEF OneVerdict
<1>2. \A i \in DOMAIN events' :
        events'[i].state \in TerminalStates => i = Len(events') /\ events'[i] = e
  BY <1>1, PublishedEvents DEF Grant
<1>3. QED
  BY <1>2, GrantVerdict DEF OneVerdict

LEMMA GrantStateEvidence ==
  ASSUME TypeOK, StateEvidence, NEW e \in Event, Grant(e)
  PROVE  StateEvidence'
<1>1. Publish(e) /\ Transition(state, e) /\ ValidEvent(e)
  BY DEF Grant, Admissible
<1>2. (state = "submitted" => Has(events, "wrapper-claim"))'
  <2>1. SUFFICES ASSUME state' = "submitted"
                 PROVE  Has(events, "wrapper-claim") \/ e.kind = "wrapper-claim"
    BY <1>1, PublishedKinds
  <2>2. state = "submitted" \/ e.kind = "wrapper-claim"
    BY <1>1, <2>1 DEF Publish, NextState, Transition, AdmitsAck, LateStart, Admits, HostAck
  <2>3. QED
    BY <2>2 DEF StateEvidence
<1>3. (state \in {"prepared", "dispatching", "submitted"} =>
         \A i \in DOMAIN events : events[i].state # "cancel-requested")'
  <2>1. SUFFICES ASSUME state' \in {"prepared", "dispatching", "submitted"}
                 PROVE  \A i \in DOMAIN events' : events'[i].state # "cancel-requested"
    OBVIOUS
  <2>2. state \in {"prepared", "dispatching", "submitted"} /\ e.state # "cancel-requested"
    BY <1>1, <2>1 DEF Publish, NextState, Transition, AdmitsAck, LateStart, Admits, HostAck
  <2>3. \A i \in DOMAIN events : events[i].state # "cancel-requested"
    BY <2>2 DEF StateEvidence
  <2>4. QED
    BY <1>1, <2>2, <2>3, PublishedEvents
<1>4. (\A i \in DOMAIN events :
         events[i].kind \in {"provider-canceled-before-claim",
                             "provider-canceled-before-start"} =>
           events[i].state \in TerminalStates)'
  <2>1. e.kind \in PreStartKinds => e.state \in TerminalStates
    BY <1>1 DEF ValidEvent, TerminalStates
  <2>2. QED
    BY <1>1, <2>1, PublishedEvents DEF StateEvidence, PreStartKinds
<1>5. QED
  BY <1>2, <1>3, <1>4 DEF StateEvidence

LEMMA GrantOneLaunch ==
  ASSUME TypeOK, StateEvidence, OneLaunch, NEW e \in Event, Grant(e)
  PROVE  OneLaunch'
<1>1. Publish(e)
  BY DEF Grant
<1>2. ASSUME NEW kind, AtMostOne(kind), e.kind = kind => ~Has(events, kind)
      PROVE  AtMostOne(kind)'
  BY <1>1, <1>2, PublishedEvents DEF AtMostOne, Has
<1>3. AtMostOne("wrapper-claim")'
  BY <1>2 DEF OneLaunch, Grant, CanClaim
<1>4. AtMostOne("wrapper-started")'
  BY <1>2 DEF OneLaunch, Grant, CanStart
<1>5. ASSUME NEW i \in DOMAIN events', events'[i].kind = "wrapper-started"
      PROVE  \E j \in DOMAIN events' : j < i /\ events'[j].kind = "wrapper-claim"
  <2>1. CASE i \in DOMAIN events
    BY <1>1, <1>5, <2>1, PublishedEvents DEF OneLaunch
  <2>2. CASE i = Len(events) + 1
    <3>1. Has(events, "wrapper-claim")
      BY <1>1, <1>5, <2>2, PublishedEvents DEF Grant, CanStart, StateEvidence
    <3>2. QED
      BY <1>1, <2>2, <3>1, PublishedEvents DEF Has
  <2>3. QED
    BY <1>1, <1>5, <2>1, <2>2, PublishedEvents
<1>6. QED
  BY <1>3, <1>4, <1>5 DEF OneLaunch

LEMMA GrantPreStartEvidence ==
  ASSUME IInv, NEW e \in Event, Grant(e)
  PROVE  PreStartEvidenceHolds'
<1>1. Publish(e) /\ CancellationEvidence(events, state, e) /\ TypeOK
  BY DEF Grant, Admissible, IInv
<1>2. /\ ~Has(events, "provider-canceled-before-claim")
      /\ ~Has(events, "provider-canceled-before-start")
  BY GrantVerdict DEF IInv, StateEvidence, OneVerdict, Has
<1>3. Has(events, "wrapper-started") => Has(events, "wrapper-claim")
  BY DEF IInv, OneLaunch, Has
<1>4. CASE e.kind = "provider-canceled-before-claim"
  BY <1>1, <1>2, <1>3, <1>4, PublishedKinds DEF CancellationEvidence, PreStartEvidenceHolds
<1>5. CASE e.kind = "provider-canceled-before-start"
  <2>1. Has(events, "wrapper-claim") /\ ~Has(events, "wrapper-started")
    BY <1>1, <1>5 DEF CancellationEvidence, Has
  <2>2. QED
    BY <1>1, <1>2, <1>5, <2>1, PublishedKinds DEF PreStartEvidenceHolds
<1>6. CASE e.kind \notin {"provider-canceled-before-claim", "provider-canceled-before-start"}
  BY <1>1, <1>2, <1>6, PublishedKinds DEF PreStartEvidenceHolds
<1>7. QED
  BY <1>4, <1>5, <1>6

LEMMA InitIInv == Init => IInv
BY DEF Init, IInv, TypeOK, StateEvidence, OneVerdict, OneLaunch, AtMostOne,
       PreStartEvidenceHolds, Has, TerminalStates

LEMMA CreateIInv == Create => IInv'
<1> SUFFICES ASSUME Create PROVE IInv'
  OBVIOUS
<1>1. /\ events' = <<PreparedEvent>>
      /\ DOMAIN events' = {1}
      /\ Len(events') = 1
      /\ events'[1] = PreparedEvent
      /\ state' = "prepared"
  BY DEF Create
<1>2. /\ PreparedEvent \in Event
      /\ PreparedEvent.kind = "journal-created"
      /\ PreparedEvent.state = "prepared"
  BY DEF PreparedEvent, Event, Kinds, JournalKinds, States
<1>3. TypeOK'
  BY <1>1, <1>2 DEF TypeOK, States
<1>4. (StateEvidence /\ OneVerdict)'
  BY <1>1, <1>2 DEF StateEvidence, OneVerdict, TerminalStates
<1>5. (OneLaunch /\ PreStartEvidenceHolds)'
  BY <1>1, <1>2 DEF OneLaunch, AtMostOne, PreStartEvidenceHolds, Has
<1>6. QED
  BY <1>3, <1>4, <1>5 DEF IInv

LEMMA NextIInv == IInv /\ [Next]_journalVars => IInv'
<1> SUFFICES ASSUME IInv, [Next]_journalVars PROVE IInv'
  OBVIOUS
<1>1. CASE Create
  BY <1>1, CreateIInv
<1>2. ASSUME NEW e \in Requests, Grant(e) PROVE IInv'
  <2>1. e \in Event
    BY <1>2 DEF Grant
  <2>2. TypeOK' /\ StateEvidence' /\ OneVerdict' /\ OneLaunch'
    BY <1>2, <2>1, GrantTypeOK, GrantStateEvidence, GrantOneVerdict, GrantOneLaunch DEF IInv
  <2>3. PreStartEvidenceHolds'
    BY <1>2, <2>1, GrantPreStartEvidence
  <2>4. QED
    BY <2>2, <2>3 DEF IInv
<1>3. CASE UNCHANGED journalVars
  BY <1>3 DEF journalVars, IInv, TypeOK, StateEvidence, OneVerdict, OneLaunch, AtMostOne,
              PreStartEvidenceHolds, Has
<1>4. QED
  BY <1>1, <1>2, <1>3, StepIsGrant

\* The strengthened invariant holds of every journal.
THEOREM JournalInvariant == Spec => []IInv
<1>1. QED
  BY InitIInv, NextIInv, PTL DEF Spec

(***************************************************************************)
(* Type correctness of the journal, from its creation on.                  *)
(***************************************************************************)
THEOREM JournalTypeOK == Spec => []TypeOK
<1>1. IInv => TypeOK
  BY DEF IInv
<1>2. QED
  BY <1>1, JournalInvariant, PTL

(***************************************************************************)
(* At most one claim and one start, in that order, whoever appends to the  *)
(* journal (ClaimExecution, StartExecution).                               *)
(***************************************************************************)
THEOREM JournalOneLaunch == Spec => []OneLaunch
<1>1. IInv => OneLaunch
  BY DEF IInv
<1>2. QED
  BY <1>1, JournalInvariant, PTL

(***************************************************************************)
(* Provider pre-start cancellation evidence stays true of the whole        *)
(* journal (validateCancellationEvidence).                                 *)
(***************************************************************************)
THEOREM JournalPreStartEvidence == Spec => []PreStartEvidenceHolds
<1>1. IInv => PreStartEvidenceHolds
  BY DEF IInv
<1>2. QED
  BY <1>1, JournalInvariant, PTL

(***************************************************************************)
(* One verdict per journal: nothing follows a terminal event (nextState).  *)
(***************************************************************************)
THEOREM JournalOneVerdict == Spec => []OneVerdict
<1>1. IInv => OneVerdict
  BY DEF IInv
<1>2. QED
  BY <1>1, JournalInvariant, PTL

(***************************************************************************)
(* A claim is granted only where no start can have been recorded, a start  *)
(* only after a claim and only where no cancellation was requested.        *)
(***************************************************************************)
THEOREM JournalGrantsAreFresh == Spec => []GrantsAreFresh
<1>1. IInv => GrantsAreFresh
  <2> SUFFICES ASSUME IInv PROVE GrantsAreFresh
    OBVIOUS
  <2>1. CanClaim => ~Has(events, "wrapper-started")
    BY DEF CanClaim, IInv, OneLaunch, Has
  <2>2. CanStart => /\ Has(events, "wrapper-claim")
                    /\ \A i \in DOMAIN events : events[i].state # "cancel-requested"
    BY DEF CanStart, IInv, StateEvidence
  <2>3. QED
    BY <2>1, <2>2 DEF GrantsAreFresh
<1>2. QED
  BY <1>1, JournalInvariant, PTL
=============================================================================
