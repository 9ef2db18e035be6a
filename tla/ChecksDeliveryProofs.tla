-------------------------- MODULE ChecksDeliveryProofs --------------------------
(***************************************************************************)
(* The safety of a delivery, for any number of invocations, pages of any    *)
(* size and any number of check runs of this and of other Nublar runs.      *)
(*                                                                         *)
(* The heart of it is what a lookup knows (Reading): as long as the list is *)
(* as long as it was on its first page, the pages it has read hold no check *)
(* run of the run ID but the one it has noted.  The list only grows, so     *)
(* that an equal length means an equal list (ListGrows).                    *)
(***************************************************************************)
EXTENDS ChecksDelivery, FiniteSetTheorems, TLAPS

CheckRuns ==
    [by : Publishers \cup {Nobody, Earlier}, listed : BOOLEAN,
     writers : SUBSET (Publishers \cup {Earlier})]

\* The check runs on the pages an invocation has read.
Read(p) == {i \in Listed : Newer(i) < (scan[p].page - 1) * PageSize}

Only(id) == {id} \ {0}

\* What a lookup knows.
Reading(p) ==
    pc[p] \in Lookups =>
        /\ scan[p].page = 1 => match[p] = 0
        /\ scan[p].page # 1 => scan[p].total <= Total
        /\ (scan[p].page = 1 \/ scan[p].total = Total) => Ours(Read(p)) = Only(match[p])

\* What an invocation has found or has been told is about the run ID.
Outcome(p) ==
    /\ match[p] # 0 => match[p] \in Ours(DOMAIN checks)
    /\ receipt[p] = "accepted" =>
         ack[p] \in Ours(DOMAIN checks) /\ p \in checks[ack[p]].writers
    /\ pc[p] = "exit0" => p \in stored /\ receipt[p] = "accepted"

\* A check run that was listed when an invocation started keeps it from the
\* POST, and two of them from the PATCH too.
Bound(p) ==
    /\ known[p] <= Cardinality(Ours(Listed))
    /\ known[p] > 0 =>
         pc[p] \notin {"create", "confirm"} /\ \A i \in DOMAIN checks : checks[i].by # p
    /\ known[p] > 1 =>
         pc[p] # "update" /\ \A i \in DOMAIN checks : p \notin checks[i].writers
    /\ pc[p] = "idle" =>
         \A i \in DOMAIN checks : checks[i].by # p /\ p \notin checks[i].writers

\* Publications one after another, on a list that does not lag.
Alone == ~overlapped /\ ~lagged

\* Then the one that is under way sees all there is.
Serial ==
    /\ \A p, q \in Publishers : Publishing(p) /\ Publishing(q) => p = q
    /\ \A i \in DOMAIN checks : checks[i].listed
    /\ \A i, j \in Ours(DOMAIN checks) : i = j
    /\ \A p \in Publishers : pc[p] = "create" => Ours(DOMAIN checks) = {}

Local(p) == Reading(p) /\ Outcome(p) /\ Bound(p)

IInv == TypeOK /\ (\A p \in Publishers : Local(p)) /\ (Alone => Serial)

-----------------------------------------------------------------------------
(* The list.                                                                *)

\* Check runs are kept, listed ones stay listed, and bodies are not unwritten.
Grows ==
    /\ DOMAIN checks \subseteq DOMAIN checks'
    /\ \A i \in DOMAIN checks :
         /\ checks'[i].by = checks[i].by
         /\ checks[i].listed => checks'[i].listed
         /\ checks[i].writers \subseteq checks'[i].writers

\* Sets of check runs are finite.
LEMMA FiniteIds ==
    ASSUME NEW R, NEW s \in Seq(R), NEW S \in SUBSET DOMAIN s
    PROVE  IsFiniteSet(S) /\ Cardinality(S) \in Nat
<1>1. DOMAIN s = 1 .. Len(s) /\ Len(s) \in Nat
  OBVIOUS
<1>2. IsFiniteSet(DOMAIN s)
  BY <1>1, FS_Interval
<1>3. QED
  BY <1>2, FS_Subset, FS_CardinalityType

\* In particular sets of the check runs of the commit.
LEMMA Finite ==
    ASSUME TypeOK, NEW S \in SUBSET DOMAIN checks
    PROVE  IsFiniteSet(S) /\ Cardinality(S) \in Nat
BY FiniteIds DEF TypeOK

\* Check runs are numbered from 1; 0 names none.
LEMMA Ids ==
    ASSUME TypeOK
    PROVE  /\ DOMAIN checks = 1 .. Len(checks) /\ Len(checks) \in Nat
           /\ 0 \notin DOMAIN checks /\ DOMAIN checks \subseteq Nat
BY DEF TypeOK

\* The number of newer check runs is a position in the list.
LEMMA Positions ==
    ASSUME TypeOK
    PROVE  /\ Total \in Nat
           /\ \A i \in DOMAIN checks : Newer(i) \in Nat
           /\ \A i \in Listed : Newer(i) < Total
<1>1. Total \in Nat
  BY Finite DEF Total, Listed
<1>2. ASSUME NEW i \in DOMAIN checks
      PROVE  Newer(i) \in Nat
  BY Finite DEF Newer, Listed
<1>3. ASSUME NEW i \in Listed
      PROVE  Newer(i) < Total
  <2> DEFINE N == {j \in Listed : j > i}
  <2>1. N \in SUBSET Listed /\ i \notin N /\ Listed \in SUBSET DOMAIN checks
    BY DEF Listed, TypeOK
  <2>2. IsFiniteSet(Listed)
    BY <2>1, Finite
  <2>3. Cardinality(N) <= Cardinality(Listed) /\ Cardinality(N) # Cardinality(Listed)
    BY <2>1, <2>2, FS_Subset
  <2>4. Cardinality(N) \in Nat /\ Cardinality(Listed) \in Nat
    BY <2>1, Finite
  <2> QED
    BY <2>3, <2>4 DEF Newer, Total
<1> QED
  BY <1>1, <1>2, <1>3

\* A list that grows is at least as long, and the same if it is as long.
LEMMA ListGrows ==
    ASSUME TypeOK, TypeOK', Grows
    PROVE  /\ Total <= Total'
           /\ Total = Total' => Listed' = Listed /\ \A i \in Listed : Newer(i)' = Newer(i)
           /\ Ours(Listed) \subseteq Ours(Listed)'
           /\ Cardinality(Ours(Listed)) <= Cardinality(Ours(Listed)')
<1>1. Listed \subseteq Listed' /\ Ours(Listed) \subseteq Ours(Listed)'
  BY DEF Grows, Listed, Ours
<1>2. IsFiniteSet(Listed') /\ IsFiniteSet(Ours(Listed)')
  <2>1. checks' \in Seq(CheckRuns)
    BY DEF TypeOK, CheckRuns
  <2>2. Listed' \in SUBSET DOMAIN checks' /\ Ours(Listed)' \in SUBSET DOMAIN checks'
    BY DEF Listed, Ours
  <2> QED
    BY <2>1, <2>2, FiniteIds
<1> QED
  BY <1>1, <1>2, FS_Subset DEF Total, Newer

\* The same positions after a step.
LEMMA PositionsNext ==
    ASSUME TypeOK'
    PROVE  /\ Total' \in Nat /\ Cardinality(Ours(Listed)') \in Nat
           /\ \A i \in DOMAIN checks' : Newer(i)' \in Nat
<1>1. checks' \in Seq(CheckRuns)
  BY DEF TypeOK, CheckRuns
<1>2. Listed' \in SUBSET DOMAIN checks' /\ Ours(Listed)' \in SUBSET DOMAIN checks'
  BY DEF Listed, Ours
<1>3. ASSUME NEW i \in DOMAIN checks'
      PROVE  Newer(i)' \in Nat
  <2>1. {j \in Listed' : j > i} \in SUBSET DOMAIN checks'
    BY <1>2
  <2> QED
    BY <1>1, <2>1, FiniteIds DEF Newer
<1> QED
  BY <1>1, <1>2, <1>3, FiniteIds DEF Total

\* Before its first page an invocation has read nothing.
LEMMA FirstPage ==
    ASSUME TypeOK, NEW p \in Publishers, scan[p].page = 1
    PROVE  Ours(Read(p)) = Only(0)
<1>1. \A i \in Listed : Newer(i) \in Nat
  BY Positions DEF Listed
<1>2. (scan[p].page - 1) * PageSize = 0
  BY DeliveryAssumption
<1> QED
  BY <1>1, <1>2 DEF Ours, Read, Only

\* The same after a step.
LEMMA FirstPageNext ==
    ASSUME TypeOK', NEW p \in Publishers, scan'[p].page = 1
    PROVE  Ours(Read(p))' = Only(0)
<1>1. \A i \in Listed' : Newer(i)' \in Nat
  BY PositionsNext DEF Listed
<1>2. (scan'[p].page - 1) * PageSize = 0
  BY DeliveryAssumption
<1> QED
  BY <1>1, <1>2 DEF Ours, Read, Only

-----------------------------------------------------------------------------
(* Types.                                                                   *)

\* What an invocation's own step does to the check runs.
LEMMA ChecksTypes ==
    ASSUME TypeOK, NEW p \in Publishers
    PROVE  /\ \A listed \in BOOLEAN :
                checks' = Created(p, listed) =>
                  /\ checks' \in Seq(CheckRuns)
                  /\ Len(checks') = Len(checks) + 1
                  /\ Grows
           /\ match[p] # 0 /\ checks' = Patched(p) =>
                  /\ checks' \in Seq(CheckRuns)
                  /\ Len(checks') = Len(checks)
                  /\ Grows
<1>1. checks \in Seq(CheckRuns) /\ match[p] \in 0 .. Len(checks)
  BY DEF TypeOK, CheckRuns
<1>2. ASSUME NEW listed \in BOOLEAN, checks' = Created(p, listed)
      PROVE  checks' \in Seq(CheckRuns) /\ Len(checks') = Len(checks) + 1 /\ Grows
  <2>1. Check(p, listed, {p}) \in CheckRuns
    BY DEF Check, CheckRuns
  <2>2. checks' = Append(checks, Check(p, listed, {p}))
    BY <1>2 DEF Created
  <2>3. \A i \in DOMAIN checks : i \in DOMAIN checks' /\ checks'[i] = checks[i]
    BY <1>1, <2>1, <2>2
  <2>4. checks' \in Seq(CheckRuns) /\ Len(checks') = Len(checks) + 1
    BY <1>1, <2>1, <2>2
  <2> QED
    BY <2>3, <2>4 DEF Grows
<1>3. ASSUME match[p] # 0, checks' = Patched(p)
      PROVE  checks' \in Seq(CheckRuns) /\ Len(checks') = Len(checks) /\ Grows
  <2> DEFINE c == checks[match[p]]
             d == [c EXCEPT !.writers = @ \cup {p}]
  <2>1. match[p] \in DOMAIN checks /\ c \in CheckRuns
    BY <1>1, <1>3
  <2>2. d \in CheckRuns /\ d.by = c.by /\ d.listed = c.listed /\ c.writers \subseteq d.writers
    BY <2>1 DEF CheckRuns
  <2>3. checks' = [checks EXCEPT ![match[p]] = d]
    BY <1>3 DEF Patched
  <2> HIDE DEF d
  <2>4. DOMAIN checks' = DOMAIN checks
        /\ \A i \in DOMAIN checks : checks'[i] = IF i = match[p] THEN d ELSE checks[i]
    BY <2>3
  <2>5. checks' \in Seq(CheckRuns) /\ Len(checks') = Len(checks)
    BY <1>1, <2>1, <2>2, <2>3
  <2> QED
    BY <2>1, <2>2, <2>4, <2>5 DEF Grows
<1> QED
  BY <1>2, <1>3

-----------------------------------------------------------------------------
(* What a call that begins or ends changes of the invocations.              *)

Private(n) ==
    /\ pc \in [Publishers -> Statuses]
    /\ attempt \in [Publishers -> 1 .. MaxAttempts]
    /\ scan \in [Publishers -> [page : 1 .. MaxPages, total : Nat, scanned : Nat]]
    /\ match \in [Publishers -> 0 .. n]
    /\ receipt \in [Publishers -> {"none", "accepted", "failed"}]
    /\ \A p \in Publishers : pc[p] = "update" => match[p] # 0

\* The step of another invocation.
Same(q) ==
    /\ pc'[q] = pc[q] /\ scan'[q] = scan[q] /\ match'[q] = match[q]
    /\ receipt'[q] = receipt[q]

Others(p) == \A q \in Publishers \ {p} : Same(q)

\* What a lookup remembers is well typed.
LEMMA ScanType ==
    ASSUME NEW page \in 1 .. MaxPages, NEW total \in Nat, NEW scanned \in Nat
    PROVE  /\ Scan(page, total, scanned) \in [page : 1 .. MaxPages, total : Nat, scanned : Nat]
           /\ Scan(page, total, scanned).page = page
           /\ Scan(page, total, scanned).total = total
BY DEF Scan

\* Forget resets one invocation and no other.
LEMMA ForgetStep ==
    ASSUME NEW n \in Nat, Private(n), NEW p \in Publishers, Forget(p)
    PROVE  /\ attempt' \in [Publishers -> 1 .. MaxAttempts]
           /\ scan' \in [Publishers -> [page : 1 .. MaxPages, total : Nat, scanned : Nat]]
           /\ match' \in [Publishers -> 0 .. n]
           /\ match'[p] = 0 /\ scan'[p].page = 1
           /\ \A q \in Publishers \ {p} : scan'[q] = scan[q] /\ match'[q] = match[q]
<1> USE DeliveryAssumption
<1>1. /\ Scan(1, 0, 0) \in [page : 1 .. MaxPages, total : Nat, scanned : Nat]
      /\ Scan(1, 0, 0).page = 1
  BY ScanType
<1>2. attempt' \in [Publishers -> 1 .. MaxAttempts]
  BY DEF Forget, Private
<1>3. match' \in [Publishers -> 0 .. n] /\ match'[p] = 0
  BY DEF Forget, Private
<1> HIDE DeliveryAssumption
<1>4. scan' = [scan EXCEPT ![p] = Scan(1, 0, 0)]
      /\ scan \in [Publishers -> [page : 1 .. MaxPages, total : Nat, scanned : Nat]]
  BY DEF Forget, Private
<1>5. /\ scan' \in [Publishers -> [page : 1 .. MaxPages, total : Nat, scanned : Nat]]
      /\ scan'[p] = Scan(1, 0, 0)
      /\ \A q \in Publishers \ {p} : scan'[q] = scan[q]
  BY <1>1, <1>4
<1> QED
  BY <1>1, <1>2, <1>3, <1>5 DEF Forget, Private

\* Publish returns: one invocation goes on to keep its receipt.
LEMMA ReturnsStep ==
    ASSUME NEW n \in Nat, Private(n), NEW p \in Publishers,
           NEW s \in {"accepted", "failed"}, Returns(p, s)
    PROVE  /\ Private(n)' /\ Others(p)
           /\ pc'[p] = "save" /\ match'[p] = 0 /\ receipt'[p] = s
<1>1. Forget(p)
  BY DEF Returns
<1>2. /\ pc' \in [Publishers -> Statuses] /\ pc'[p] = "save"
      /\ receipt' \in [Publishers -> {"none", "accepted", "failed"}] /\ receipt'[p] = s
      /\ \A q \in Publishers \ {p} : pc'[q] = pc[q] /\ receipt'[q] = receipt[q]
  BY DEF Returns, Private, Statuses
<1>3. /\ attempt' \in [Publishers -> 1 .. MaxAttempts]
      /\ scan' \in [Publishers -> [page : 1 .. MaxPages, total : Nat, scanned : Nat]]
      /\ match' \in [Publishers -> 0 .. n] /\ match'[p] = 0
      /\ \A q \in Publishers \ {p} : scan'[q] = scan[q] /\ match'[q] = match[q]
  BY <1>1, ForgetStep
<1>4. \A q \in Publishers : pc'[q] = "update" => match'[q] # 0
  BY <1>2, <1>3 DEF Private
<1>5. Private(n)'
  BY <1>2, <1>3, <1>4 DEF Private
<1>6. Others(p)
  BY <1>2, <1>3 DEF Others, Same
<1> QED
  BY <1>2, <1>3, <1>5, <1>6

\* One invocation starts a lookup or its POST.
LEMMA TurnsStep ==
    ASSUME NEW n \in Nat, Private(n), NEW p \in Publishers,
           NEW where \in {"find", "create", "confirm"}, Turns(p, where), UNCHANGED receipt
    PROVE  /\ Private(n)' /\ Others(p)
           /\ pc'[p] = where /\ match'[p] = 0 /\ scan'[p].page = 1
<1>1. Forget(p)
  BY DEF Turns
<1>2. /\ pc' \in [Publishers -> Statuses] /\ pc'[p] = where
      /\ \A q \in Publishers \ {p} : pc'[q] = pc[q]
  BY DEF Turns, Private, Statuses
<1> QED
  BY <1>1, <1>2, ForgetStep DEF Private, Others, Same

-----------------------------------------------------------------------------
(* A page that is not refused.                                              *)

\* The pages up to it hold the noted check run and no other of the run ID; the
\* last one completes the list.
LEMMA PageRead ==
    ASSUME TypeOK, NEW p \in Publishers, pc[p] \in Lookups, Reading(p), ~PageRefused(p)
    PROVE  /\ Ours({i \in Listed : Newer(i) < scan[p].page * PageSize}) = Only(MatchAfter(p))
           /\ MatchAfter(p) # 0 => MatchAfter(p) \in Ours(Listed)
           /\ LastPage(p) => Ours(Listed) = Only(MatchAfter(p))
           /\ ~LastPage(p) => scan[p].page + 1 \in 1 .. MaxPages
<1> DEFINE k == scan[p].page
           A == Ours(PageOf(k))
           m == match[p]
<1>1. k \in 1 .. MaxPages /\ k \in Nat /\ PageSize \in Nat /\ MaxPages \in Nat
  BY DeliveryAssumption DEF TypeOK
<1>2. /\ Cardinality(A) + (IF m = 0 THEN 0 ELSE 1) <= 1
      /\ k # 1 => scan[p].total = Total
      /\ Total > k * PageSize => k # MaxPages
  <2>1. Total \in Nat /\ Cardinality(A) \in Nat /\ scan[p].total \in Nat
    BY Positions, Finite DEF PageOf, Ours, Listed, TypeOK
  <2> QED
    BY <2>1 DEF PageRefused
<1>3. Ours(Read(p)) = Only(m) /\ (k = 1 => m = 0)
  BY <1>2 DEF Reading
<1>4. Read(p) = {i \in Listed : Newer(i) < (k - 1) * PageSize}
  BY DEF Read
<1>5. PageOf(k) = {i \in Listed : (k - 1) * PageSize <= Newer(i) /\ Newer(i) < k * PageSize}
  BY DEF PageOf
<1>6. (k - 1) * PageSize <= k * PageSize /\ (k - 1) * PageSize \in Int /\ k * PageSize \in Int
  BY <1>1
<1>7. \A i \in Listed : Newer(i) \in Nat /\ Newer(i) < Total
  BY Positions DEF Listed
<1> DEFINE upto == {i \in Listed : Newer(i) < k * PageSize}
<1>8. upto = Read(p) \cup PageOf(k)
  <2> DEFINE a == (k - 1) * PageSize
             b == k * PageSize
  <2>1. a \in Int /\ b \in Int /\ a <= b
    BY <1>6
  <2>2. /\ Read(p) = {i \in Listed : Newer(i) < a}
        /\ PageOf(k) = {i \in Listed : a <= Newer(i) /\ Newer(i) < b}
        /\ upto = {i \in Listed : Newer(i) < b}
    BY <1>4, <1>5
  <2> HIDE DEF a, b, upto
  <2> QED
    BY <2>1, <2>2, <1>7
<1>9. Ours(upto) = Only(m) \cup A
  BY <1>3, <1>8 DEF Ours
<1>10. Ours(upto) = Only(MatchAfter(p)) /\ MatchAfter(p) \in Nat
  <2>1. IsFiniteSet(A) /\ Cardinality(A) \in Nat
    BY Finite DEF PageOf, Ours, Listed
  <2>2. m \in Nat
    BY DEF TypeOK
  <2>3. CASE A = {}
    BY <1>9, <2>2, <2>3 DEF MatchAfter
  <2>4. CASE A # {}
    <3>1. Cardinality(A) = 1 /\ m = 0
      BY <1>2, <2>1, <2>4, FS_EmptySet
    <3>2. PICK x : A = {x}
      BY <2>1, <3>1, FS_Singleton
    <3>3. MatchAfter(p) = x
      BY <2>4, <3>2 DEF MatchAfter
    <3>4. x \in Nat /\ x # 0
      <4>1. x \in DOMAIN checks
        BY <3>2 DEF PageOf, Ours, Listed
      <4> QED
        BY <4>1, Ids
    <3> QED
      BY <1>9, <3>1, <3>2, <3>3, <3>4 DEF Only
  <2> QED
    BY <2>3, <2>4
<1>11. MatchAfter(p) # 0 => MatchAfter(p) \in Ours(Listed)
  BY <1>10 DEF Only, Ours
<1>12. LastPage(p) => Ours(Listed) = Only(MatchAfter(p))
  <2> SUFFICES ASSUME LastPage(p) PROVE upto = Listed
    BY <1>10
  <2>1. Total <= k * PageSize /\ Total \in Nat
    BY Positions DEF LastPage
  <2> QED
    BY <1>6, <1>7, <2>1
<1>13. ~LastPage(p) => k + 1 \in 1 .. MaxPages
  <2>1. Total \in Nat
    BY Positions
  <2> QED
    BY <1>1, <1>2, <1>6, <2>1 DEF LastPage
<1> QED
  BY <1>10, <1>11, <1>12, <1>13

-----------------------------------------------------------------------------
(* The step of an invocation: it keeps the types, the list grows, the others *)
(* keep what they know, and so does it.                                     *)

\* No check run is created or written in the name of q.
Unmarked(q) ==
    \A i \in DOMAIN checks' :
        /\ checks'[i].by = q => i \in DOMAIN checks /\ checks[i].by = q
        /\ q \in checks'[i].writers => i \in DOMAIN checks /\ q \in checks[i].writers

Aside(q) ==
    /\ Same(q) /\ Unmarked(q)
    /\ known'[q] = known[q] /\ ack'[q] = ack[q]
    /\ q \in stored => q \in stored'

Sound(p) ==
    /\ TypeOK' /\ Grows /\ Local(p)'
    /\ \A q \in Publishers \ {p} : Aside(q)

\* An invocation that is left aside knows what it knew.
LEMMA AsideKept ==
    ASSUME TypeOK, TypeOK', Grows, NEW q \in Publishers, Aside(q), Local(q)
    PROVE  Local(q)'
<1>1. /\ pc'[q] = pc[q] /\ scan'[q] = scan[q] /\ match'[q] = match[q]
      /\ receipt'[q] = receipt[q]
      /\ known'[q] = known[q] /\ ack'[q] = ack[q]
      /\ q \in stored => q \in stored'
  BY DEF Aside, Same
<1>2. Reading(q)'
  <2> SUFFICES ASSUME pc[q] \in Lookups
               PROVE  /\ scan[q].page = 1 => match[q] = 0
                      /\ scan[q].page # 1 => scan[q].total <= Total'
                      /\ (scan[q].page = 1 \/ scan[q].total = Total') =>
                            Ours(Read(q))' = Only(match[q])
    BY <1>1 DEF Reading, Only
  <2>1. /\ scan[q].page = 1 => match[q] = 0
        /\ scan[q].page # 1 => scan[q].total <= Total
        /\ (scan[q].page = 1 \/ scan[q].total = Total) => Ours(Read(q)) = Only(match[q])
    BY DEF Local, Reading
  <2>2. Total \in Nat /\ Total' \in Nat /\ scan[q].total \in Nat /\ Total <= Total'
    BY Positions, ListGrows, PositionsNext DEF TypeOK
  <2>3. CASE scan[q].page = 1
    BY <1>1, <2>1, <2>3, FirstPage, FirstPageNext
  <2>4. CASE scan[q].page # 1 /\ scan[q].total = Total'
    <3>1. Total = Total'
      BY <2>1, <2>2, <2>4
    <3>2. Listed' = Listed /\ \A i \in Listed : Newer(i)' = Newer(i)
      BY <3>1, ListGrows
    <3>3. Read(q)' = Read(q)
      BY <1>1, <3>2 DEF Read
    <3>4. Ours(Read(q))' = Ours(Read(q))
      BY <3>3 DEF Ours, Read, Listed, Grows
    <3> QED
      BY <2>1, <2>4, <3>1, <3>4
  <2> QED
    BY <2>1, <2>2, <2>3, <2>4
<1>3. Outcome(q)'
  BY <1>1 DEF Local, Outcome, Ours, Grows
<1>4. Bound(q)'
  <2>1. known[q] <= Cardinality(Ours(Listed)')
    <3>1. known[q] \in Nat /\ known[q] <= Cardinality(Ours(Listed))
      BY DEF Local, Bound, TypeOK
    <3>2. Cardinality(Ours(Listed)) \in Nat /\ Cardinality(Ours(Listed)') \in Nat
      BY Finite, PositionsNext DEF Ours, Listed
    <3> QED
      BY <3>1, <3>2, ListGrows
  <2> QED
    BY <1>1, <2>1 DEF Local, Bound, Aside, Unmarked
<1> QED
  BY <1>2, <1>3, <1>4 DEF Local

\* What is common to the steps that leave the check runs alone.
LEMMA Quiet ==
    ASSUME TypeOK, UNCHANGED checks
    PROVE  /\ Grows /\ Listed' = Listed /\ Total' = Total
           /\ Ours(Listed)' = Ours(Listed)
           /\ Ours(DOMAIN checks)' = Ours(DOMAIN checks)
           /\ \A i \in Listed : Newer(i)' = Newer(i)
           /\ \A q \in Publishers : Unmarked(q)
<1>1. Listed' = Listed
  BY DEF Listed
<1> QED
  BY <1>1 DEF Grows, Total, Ours, Newer, Unmarked

\* A well typed state, with the number of its check runs as a constant.
LEMMA PrivateFirst ==
    ASSUME TypeOK
    PROVE  \E n \in Nat : n = Len(checks) /\ Private(n)
<1>1. Len(checks) \in Nat
  BY Ids
<1> QED
  BY <1>1 DEF TypeOK, Private

\* The types after a step, from those of the invocations and of the list.
LEMMA Assemble ==
    ASSUME TypeOK, NEW n \in Nat, n = Len(checks), Private(n)',
           checks' \in Seq(CheckRuns), n <= Len(checks'),
           ack' \in [Publishers -> 0 .. Len(checks')],
           stored' \subseteq Publishers, known' \in [Publishers -> Nat],
           overlapped' \in BOOLEAN, lagged' \in BOOLEAN
    PROVE  TypeOK'
<1>1. Len(checks') \in Nat
  OBVIOUS
<1>2. match' \in [Publishers -> 0 .. Len(checks')]
  BY <1>1 DEF Private
<1> QED
  BY <1>2 DEF TypeOK, Private, CheckRuns

\* An invocation starts: it knows what is listed.
LEMMA BeginStep ==
    ASSUME TypeOK, NEW p \in Publishers, Local(p), Begin(p)
    PROVE  Sound(p)
<1>1. PICK n \in Nat : n = Len(checks) /\ Private(n)
  BY PrivateFirst
<1>2. /\ UNCHANGED <<checks, ack, stored, lagged>>
      /\ pc[p] = "idle"
      /\ known' = [known EXCEPT ![p] = Cardinality(Ours(Listed))]
      /\ overlapped' \in BOOLEAN
  BY DEF Begin, TypeOK
<1>3. /\ Private(n)' /\ Others(p) /\ match'[p] = 0
      /\ \/ pc'[p] = "find" /\ scan'[p].page = 1 /\ receipt'[p] = receipt[p]
         \/ pc'[p] = "save" /\ receipt'[p] = "failed"
  BY <1>1, ReturnsStep, TurnsStep DEF Begin
<1>4. Cardinality(Ours(Listed)) \in Nat
  BY Finite DEF Ours, Listed
<1>5. known' \in [Publishers -> Nat] /\ known'[p] = Cardinality(Ours(Listed))
      /\ \A q \in Publishers \ {p} : known'[q] = known[q]
  BY <1>2, <1>4 DEF TypeOK
<1>6. TypeOK'
  <2>1. checks' \in Seq(CheckRuns) /\ n <= Len(checks')
        /\ ack' \in [Publishers -> 0 .. Len(checks')] /\ stored' \subseteq Publishers
        /\ lagged' \in BOOLEAN
    BY <1>1, <1>2, Ids DEF TypeOK, CheckRuns
  <2> QED
    BY <1>1, <1>2, <1>3, <1>5, <2>1, Assemble
<1>7. Reading(p)'
  BY <1>3, <1>6, FirstPageNext DEF Reading, Lookups
<1>8. Outcome(p)'
  BY <1>2, <1>3 DEF Local, Outcome, Ours
<1>9. Bound(p)'
  BY <1>2, <1>3, <1>4, <1>5, Quiet DEF Local, Bound
<1> QED
  BY <1>2, <1>3, <1>5, <1>6, <1>7, <1>8, <1>9, Quiet DEF Sound, Local, Aside, Others

\* A lookup goes on to its next page.
LEMMA NextPageStep ==
    ASSUME NEW n \in Nat, Private(n), NEW p \in Publishers,
           Total \in Nat, Cardinality(PageOf(scan[p].page)) \in Nat,
           MatchAfter(p) \in 0 .. n, pc[p] \in Lookups,
           scan[p].page + 1 \in 1 .. MaxPages, NextPage(p)
    PROVE  /\ Private(n)' /\ Others(p)
           /\ pc'[p] = pc[p] /\ receipt'[p] = receipt[p]
           /\ match'[p] = MatchAfter(p)
           /\ scan'[p].page = scan[p].page + 1 /\ scan'[p].total = Total
<1> DEFINE k == scan[p].page
           next == Scan(k + 1, Total, scan[p].scanned + Cardinality(PageOf(k)))
<1>1. /\ next \in [page : 1 .. MaxPages, total : Nat, scanned : Nat]
      /\ next.page = k + 1 /\ next.total = Total
  <2>1. scan[p].scanned + Cardinality(PageOf(k)) \in Nat
    BY DEF Private
  <2>2. k + 1 \in 1 .. MaxPages
    OBVIOUS
  <2> QED
    BY <2>1, <2>2 DEF Scan
<1>2. scan' = [scan EXCEPT ![p] = next]
      /\ scan \in [Publishers -> [page : 1 .. MaxPages, total : Nat, scanned : Nat]]
  BY DEF NextPage, Private
<1> HIDE DEF next
<1>3. /\ scan' \in [Publishers -> [page : 1 .. MaxPages, total : Nat, scanned : Nat]]
      /\ scan'[p] = next
      /\ \A q \in Publishers \ {p} : scan'[q] = scan[q]
  BY <1>1, <1>2
<1>4. /\ pc' \in [Publishers -> Statuses] /\ pc'[p] = pc[p]
      /\ attempt' \in [Publishers -> 1 .. MaxAttempts]
      /\ match' \in [Publishers -> 0 .. n] /\ match'[p] = MatchAfter(p)
      /\ receipt' = receipt
      /\ \A q \in Publishers \ {p} : pc'[q] = pc[q] /\ match'[q] = match[q]
  BY DeliveryAssumption DEF NextPage, Sends, Private
<1> QED
  BY <1>1, <1>3, <1>4 DEF Private, Others, Same, Lookups

\* A lookup ends with a check run to update.
LEMMA FoundStep ==
    ASSUME NEW n \in Nat, Private(n), NEW p \in Publishers,
           MatchAfter(p) \in 0 .. n, MatchAfter(p) # 0,
           Sends(p, "update"), match' = [match EXCEPT ![p] = MatchAfter(p)],
           scan' = [scan EXCEPT ![p] = Scan(1, 0, 0)], UNCHANGED receipt
    PROVE  /\ Private(n)' /\ Others(p)
           /\ pc'[p] = "update" /\ receipt'[p] = receipt[p]
           /\ match'[p] = MatchAfter(p)
<1>1. Scan(1, 0, 0) \in [page : 1 .. MaxPages, total : Nat, scanned : Nat]
  BY ScanType, DeliveryAssumption
<1>2. /\ scan' \in [Publishers -> [page : 1 .. MaxPages, total : Nat, scanned : Nat]]
      /\ \A q \in Publishers \ {p} : scan'[q] = scan[q]
  BY <1>1 DEF Private
<1>3. /\ pc' \in [Publishers -> Statuses] /\ pc'[p] = "update"
      /\ attempt' \in [Publishers -> 1 .. MaxAttempts]
      /\ match' \in [Publishers -> 0 .. n] /\ match'[p] = MatchAfter(p)
      /\ \A q \in Publishers \ {p} : pc'[q] = pc[q] /\ match'[q] = match[q]
  BY DeliveryAssumption DEF Sends, Private, Statuses
<1> QED
  BY <1>2, <1>3 DEF Private, Others, Same

\* A delivery that fails: nothing is left to know but what it was told.
LEMMA FailedKnows ==
    ASSUME TypeOK, TypeOK', Grows, NEW p \in Publishers, Local(p), pc[p] # "idle",
           pc'[p] \in {"save", "dead"}, match'[p] = 0,
           receipt'[p] = "failed" \/ (receipt'[p] = receipt[p] /\ ack'[p] = ack[p]),
           known'[p] = known[p],
           \/ Unmarked(p)
           \/ /\ known[p] <= 1
              /\ \A i \in DOMAIN checks' :
                   checks'[i].by = p => i \in DOMAIN checks /\ checks[i].by = p
    PROVE  Local(p)'
<1>1. Reading(p)'
  BY DEF Reading, Lookups
<1>2. Outcome(p)'
  BY DEF Local, Outcome, Grows, Ours
<1>3. known'[p] <= Cardinality(Ours(Listed)')
  <2>1. known[p] \in Nat /\ known[p] <= Cardinality(Ours(Listed))
    BY DEF Local, Bound, TypeOK
  <2>2. Cardinality(Ours(Listed)) \in Nat /\ Cardinality(Ours(Listed)') \in Nat
    BY Finite, PositionsNext DEF Ours, Listed
  <2> QED
    BY <2>1, <2>2, ListGrows
<1>4. Bound(p)'
  <2>1. known[p] \in Nat
    BY DEF TypeOK
  <2> QED
    BY <1>3, <2>1 DEF Local, Bound, Unmarked
<1> QED
  BY <1>1, <1>2, <1>4 DEF Local

\* A page arrives.  The POST follows only a list without a check run of the run ID.
LEMMA GetPageStep ==
    ASSUME TypeOK, NEW p \in Publishers, Local(p), GetPage(p)
    PROVE  /\ Sound(p)
           /\ pc'[p] = "create" => Ours(Listed) = {}
<1>1. PICK n \in Nat : n = Len(checks) /\ Private(n)
  BY PrivateFirst
<1>2. UNCHANGED <<checks, ack, stored, known, overlapped, lagged>> /\ pc[p] \in Lookups
  BY DEF GetPage
<1>3. ASSUME Private(n)' PROVE TypeOK'
  <2>1. /\ checks' \in Seq(CheckRuns) /\ n <= Len(checks')
        /\ ack' \in [Publishers -> 0 .. Len(checks')] /\ stored' \subseteq Publishers
        /\ known' \in [Publishers -> Nat] /\ lagged' \in BOOLEAN /\ overlapped' \in BOOLEAN
    BY <1>1, <1>2, Ids DEF TypeOK, CheckRuns
  <2> QED
    BY <1>1, <1>3, <2>1, Assemble
<1>4. ASSUME Others(p) PROVE \A q \in Publishers \ {p} : Aside(q)
  BY <1>2, <1>4, Quiet DEF Others, Aside
<1>5. Grows /\ Ours(Listed)' = Ours(Listed) /\ Unmarked(p)
  BY <1>2, Quiet
<1>6. CASE Returns(p, "failed")
  <2>1. /\ Private(n)' /\ Others(p)
        /\ pc'[p] = "save" /\ match'[p] = 0 /\ receipt'[p] = "failed"
    BY <1>1, <1>6, ReturnsStep
  <2>2. Local(p)'
    BY <1>2, <1>3, <1>5, <2>1, FailedKnows DEF Lookups
  <2> QED
    BY <1>3, <1>4, <1>5, <2>1, <2>2 DEF Sound
<1>7. CASE ~PageRefused(p) /\ ~LastPage(p) /\ NextPage(p)
  <2>1. /\ Ours({i \in Listed : Newer(i) < scan[p].page * PageSize}) = Only(MatchAfter(p))
        /\ MatchAfter(p) # 0 => MatchAfter(p) \in Ours(Listed)
        /\ scan[p].page + 1 \in 1 .. MaxPages
    BY <1>2, <1>7, PageRead DEF Local
  <2>2. Total \in Nat /\ Cardinality(PageOf(scan[p].page)) \in Nat
    BY Positions, Finite DEF PageOf, Listed
  <2>3. MatchAfter(p) \in 0 .. n
    BY <1>1, <2>1, Ids DEF Ours, Listed
  <2>4. /\ Private(n)' /\ Others(p)
        /\ pc'[p] = pc[p] /\ receipt'[p] = receipt[p]
        /\ match'[p] = MatchAfter(p)
        /\ scan'[p].page = scan[p].page + 1 /\ scan'[p].total = Total
    BY <1>1, <1>2, <1>7, <2>1, <2>2, <2>3, NextPageStep
  <2>5. Reading(p)'
    <3>1. scan[p].page \in Nat /\ scan[p].page >= 1
      BY DEF TypeOK
    <3>2. (scan'[p].page - 1) * PageSize = scan[p].page * PageSize
      BY <2>4, <3>1
    <3>3. Total' = Total /\ Listed' = Listed /\ \A i \in Listed : Newer(i)' = Newer(i)
      BY <1>2, Quiet
    <3>4. Read(p)' = {i \in Listed : Newer(i) < scan[p].page * PageSize}
      BY <3>2, <3>3 DEF Read
    <3>5. Ours(Read(p))' = Only(match'[p])
      BY <1>2, <2>1, <2>4, <3>4 DEF Ours
    <3>6. scan'[p].page # 1 /\ scan'[p].total <= Total'
      BY <2>2, <2>4, <3>1, <3>3
    <3> QED
      BY <3>5, <3>6 DEF Reading
  <2>6. Outcome(p)'
    BY <1>2, <2>1, <2>4 DEF Local, Outcome, Ours, Listed, Lookups
  <2>7. Bound(p)'
    BY <1>2, <1>5, <2>4 DEF Local, Bound
  <2> QED
    BY <1>2, <1>3, <1>4, <1>5, <2>4, <2>5, <2>6, <2>7 DEF Sound, Local, Lookups
<1>8. CASE ~PageRefused(p) /\ LastPage(p) /\ LookupEnds(p)
  <2>1. /\ Ours(Listed) = Only(MatchAfter(p))
        /\ MatchAfter(p) # 0 => MatchAfter(p) \in Ours(Listed)
    BY <1>2, <1>8, PageRead DEF Local
  <2>2. known[p] \in Nat /\ known[p] <= Cardinality(Ours(Listed))
    BY DEF Local, Bound, TypeOK
  <2>3. CASE MatchAfter(p) # 0 /\ Sends(p, "update")
             /\ match' = [match EXCEPT ![p] = MatchAfter(p)]
             /\ scan' = [scan EXCEPT ![p] = Scan(1, 0, 0)] /\ UNCHANGED receipt
    <3>1. MatchAfter(p) \in 0 .. n
      BY <1>1, <2>1, <2>3, Ids DEF Ours, Listed
    <3>2. /\ Private(n)' /\ Others(p)
          /\ pc'[p] = "update" /\ receipt'[p] = receipt[p]
          /\ match'[p] = MatchAfter(p)
      BY <1>1, <2>3, <3>1, FoundStep
    <3>3. Reading(p)'
      BY <3>2 DEF Reading, Lookups
    <3>4. Outcome(p)'
      BY <1>2, <2>1, <3>2 DEF Local, Outcome, Ours, Listed
    <3>5. Ours(Listed) = {MatchAfter(p)}
      BY <2>1, <2>3 DEF Only
    <3>6. Cardinality(Ours(Listed)) = 1
      BY <3>5, FS_Singleton
    <3>7. Bound(p)'
      BY <1>2, <1>5, <2>2, <3>2, <3>6 DEF Local, Bound
    <3> QED
      BY <1>3, <1>4, <1>5, <3>2, <3>3, <3>4, <3>7 DEF Sound, Local
  <2>4. CASE MatchAfter(p) = 0 /\ Turns(p, "create") /\ UNCHANGED receipt
    <3>1. /\ Private(n)' /\ Others(p) /\ receipt'[p] = receipt[p]
          /\ pc'[p] = "create" /\ match'[p] = 0
      BY <1>1, <2>4, TurnsStep
    <3>2. Ours(Listed) = {}
      BY <2>1, <2>4 DEF Only
    <3>3. known[p] = 0
      BY <2>2, <3>2, FS_EmptySet
    <3>4. Reading(p)'
      BY <3>1 DEF Reading, Lookups
    <3>5. Outcome(p)'
      BY <1>2, <3>1 DEF Local, Outcome, Ours
    <3>6. Bound(p)'
      BY <1>2, <1>5, <3>1, <3>3 DEF Local, Bound
    <3> QED
      BY <1>3, <1>4, <1>5, <3>1, <3>2, <3>4, <3>5, <3>6 DEF Sound, Local
  <2> QED
    BY <1>6, <1>8, <2>3, <2>4 DEF LookupEnds
<1> QED
  BY <1>6, <1>7, <1>8 DEF GetPage

\* A PATCH adds its body to the check run that was found.
LEMMA PatchedRuns ==
    ASSUME TypeOK, NEW p \in Publishers, match[p] # 0, checks' = Patched(p)
    PROVE  /\ DOMAIN checks' = DOMAIN checks
           /\ \A i \in DOMAIN checks :
                /\ checks'[i].by = checks[i].by /\ checks'[i].listed = checks[i].listed
                /\ checks'[i].writers =
                     IF i = match[p] THEN checks[i].writers \cup {p} ELSE checks[i].writers
           /\ \A q \in Publishers \ {p} : Unmarked(q)
<1> DEFINE c == checks[match[p]]
           d == [c EXCEPT !.writers = @ \cup {p}]
<1>1. match[p] \in DOMAIN checks /\ c \in CheckRuns
  <2>1. checks \in Seq(CheckRuns) /\ match[p] \in 0 .. Len(checks)
    BY DEF TypeOK, CheckRuns
  <2> QED
    BY <2>1
<1>2. d.by = c.by /\ d.listed = c.listed /\ d.writers = c.writers \cup {p}
  BY <1>1 DEF CheckRuns
<1>3. checks' = [checks EXCEPT ![match[p]] = d]
  BY DEF Patched
<1> HIDE DEF d
<1>4. DOMAIN checks' = DOMAIN checks
      /\ \A i \in DOMAIN checks : checks'[i] = IF i = match[p] THEN d ELSE checks[i]
  BY <1>3
<1>5. \A i \in DOMAIN checks :
        /\ checks'[i].by = checks[i].by /\ checks'[i].listed = checks[i].listed
        /\ checks'[i].writers =
             IF i = match[p] THEN checks[i].writers \cup {p} ELSE checks[i].writers
  BY <1>1, <1>2, <1>4
<1>6. \A q \in Publishers \ {p} : Unmarked(q)
  BY <1>4, <1>5 DEF Unmarked
<1> QED
  BY <1>4, <1>5, <1>6

\* An unanswered request created nothing.
LEMMA UnansweredRuns ==
    ASSUME TypeOK, NEW p \in Publishers, Unanswered(p)
    PROVE  /\ checks' \in Seq(CheckRuns) /\ Len(checks') = Len(checks) /\ Grows
           /\ \A q \in Publishers \ {p} : Unmarked(q)
           /\ \A i \in DOMAIN checks' : i \in DOMAIN checks /\ checks[i].by = checks'[i].by
           /\ pc[p] # "update" => Unmarked(p) /\ UNCHANGED checks
<1>1. CASE UNCHANGED checks
  BY <1>1, Quiet DEF TypeOK, CheckRuns
<1>2. CASE pc[p] = "update" /\ checks' = Patched(p)
  <2>1. match[p] # 0
    BY <1>2 DEF TypeOK
  <2>2. checks' \in Seq(CheckRuns) /\ Len(checks') = Len(checks) /\ Grows
    BY <1>2, <2>1, ChecksTypes
  <2>3. /\ DOMAIN checks' = DOMAIN checks
        /\ \A i \in DOMAIN checks : checks'[i].by = checks[i].by
        /\ \A q \in Publishers \ {p} : Unmarked(q)
    BY <1>2, <2>1, PatchedRuns
  <2> QED
    BY <1>2, <2>2, <2>3
<1> QED
  BY <1>1, <1>2 DEF Unanswered

\* A request is sent again.
LEMMA RetryStep ==
    ASSUME TypeOK, NEW p \in Publishers, Local(p), Retry(p)
    PROVE  Sound(p)
<1>1. /\ Unanswered(p) /\ attempt[p] < MaxAttempts
      /\ attempt' = [attempt EXCEPT ![p] = @ + 1]
      /\ UNCHANGED <<pc, scan, match, receipt, ack, stored, known, overlapped, lagged>>
      /\ pc[p] \in Lookups \cup {"update"}
  BY DEF Retry, Unanswered
<1>2. /\ checks' \in Seq(CheckRuns) /\ Len(checks') = Len(checks) /\ Grows
      /\ \A q \in Publishers \ {p} : Unmarked(q)
      /\ \A i \in DOMAIN checks' : i \in DOMAIN checks /\ checks[i].by = checks'[i].by
      /\ pc[p] # "update" => Unmarked(p) /\ UNCHANGED checks
  BY <1>1, UnansweredRuns
<1>3. attempt' \in [Publishers -> 1 .. MaxAttempts]
  BY <1>1, DeliveryAssumption DEF TypeOK
<1>4. TypeOK'
  BY <1>1, <1>2, <1>3 DEF TypeOK, CheckRuns
<1>5. \A q \in Publishers \ {p} : Aside(q)
  BY <1>1, <1>2 DEF Aside, Same
<1>6. CASE pc[p] # "update"
  <2>1. Aside(p)
    BY <1>1, <1>2, <1>6 DEF Aside, Same
  <2> QED
    BY <1>2, <1>4, <1>5, <2>1, AsideKept DEF Sound
<1>7. CASE pc[p] = "update"
  <2>1. Reading(p)'
    BY <1>1, <1>7 DEF Reading, Lookups
  <2>2. Outcome(p)'
    BY <1>1, <1>2, <1>7 DEF Local, Outcome, Ours, Grows
  <2>3. known[p] <= Cardinality(Ours(Listed)') /\ known[p] <= 1
    <3>1. known[p] \in Nat /\ known[p] <= Cardinality(Ours(Listed)) /\ ~(known[p] > 1)
      BY <1>7 DEF Local, Bound, TypeOK
    <3>2. Cardinality(Ours(Listed)) \in Nat /\ Cardinality(Ours(Listed)') \in Nat
      BY <1>4, Finite, PositionsNext DEF Ours, Listed
    <3> QED
      BY <1>2, <1>4, <3>1, <3>2, ListGrows
  <2>4. Bound(p)'
    <3>1. known[p] \in Nat
      BY DEF TypeOK
    <3> QED
      BY <1>1, <1>2, <1>7, <2>3, <3>1 DEF Local, Bound
  <2> QED
    BY <1>2, <1>4, <1>5, <2>1, <2>2, <2>4 DEF Sound, Local
<1> QED
  BY <1>6, <1>7

\* A publication fails.
LEMMA GiveUpStep ==
    ASSUME TypeOK, NEW p \in Publishers, Local(p), GiveUp(p)
    PROVE  Sound(p)
<1>1. PICK n \in Nat : n = Len(checks) /\ Private(n)
  BY PrivateFirst
<1>2. /\ Unanswered(p) /\ Returns(p, "failed")
      /\ UNCHANGED <<ack, stored, known, overlapped, lagged>>
      /\ pc[p] \in Lookups \cup {"update"}
  BY DEF GiveUp, Unanswered
<1>3. /\ checks' \in Seq(CheckRuns) /\ Len(checks') = Len(checks) /\ Grows
      /\ \A q \in Publishers \ {p} : Unmarked(q)
      /\ \A i \in DOMAIN checks' : i \in DOMAIN checks /\ checks[i].by = checks'[i].by
      /\ pc[p] # "update" => Unmarked(p) /\ UNCHANGED checks
  BY <1>2, UnansweredRuns
<1>4. /\ Private(n)' /\ Others(p)
      /\ pc'[p] = "save" /\ match'[p] = 0 /\ receipt'[p] = "failed"
  BY <1>1, <1>2, ReturnsStep
<1>5. TypeOK'
  <2>1. /\ n <= Len(checks') /\ ack' \in [Publishers -> 0 .. Len(checks')]
        /\ stored' \subseteq Publishers /\ known' \in [Publishers -> Nat]
        /\ lagged' \in BOOLEAN /\ overlapped' \in BOOLEAN
    BY <1>1, <1>2, <1>3, Ids DEF TypeOK
  <2> QED
    BY <1>1, <1>3, <1>4, <2>1, Assemble
<1>6. \A q \in Publishers \ {p} : Aside(q)
  BY <1>2, <1>3, <1>4 DEF Aside, Others
<1>7. Unmarked(p) \/ known[p] <= 1
  <2>1. known[p] \in Nat
    BY DEF TypeOK
  <2> QED
    BY <1>3, <2>1 DEF Local, Bound
<1>8. Local(p)'
  BY <1>2, <1>3, <1>4, <1>5, <1>7, FailedKnows DEF Lookups
<1> QED
  BY <1>3, <1>5, <1>6, <1>8 DEF Sound

\* An update is acknowledged.
LEMMA PatchStep ==
    ASSUME TypeOK, NEW p \in Publishers, Local(p), Patch(p)
    PROVE  Sound(p)
<1>1. PICK n \in Nat : n = Len(checks) /\ Private(n)
  BY PrivateFirst
<1>2. /\ pc[p] = "update" /\ checks' = Patched(p) /\ match[p] # 0
      /\ ack' = [ack EXCEPT ![p] = match[p]]
      /\ Returns(p, "accepted")
      /\ UNCHANGED <<stored, known, overlapped, lagged>>
  BY DEF Patch, TypeOK
<1>3. /\ checks' \in Seq(CheckRuns) /\ Len(checks') = Len(checks) /\ Grows
      /\ DOMAIN checks' = DOMAIN checks
      /\ \A i \in DOMAIN checks : checks'[i].by = checks[i].by
      /\ match[p] \in DOMAIN checks => p \in checks'[match[p]].writers
      /\ \A q \in Publishers \ {p} : Unmarked(q)
  <2>1. checks' \in Seq(CheckRuns) /\ Len(checks') = Len(checks) /\ Grows
    BY <1>2, ChecksTypes
  <2>2. /\ DOMAIN checks' = DOMAIN checks
        /\ \A i \in DOMAIN checks :
             /\ checks'[i].by = checks[i].by
             /\ checks'[i].writers =
                  IF i = match[p] THEN checks[i].writers \cup {p} ELSE checks[i].writers
        /\ \A q \in Publishers \ {p} : Unmarked(q)
    BY <1>2, PatchedRuns
  <2> QED
    BY <2>1, <2>2
<1>4. /\ Private(n)' /\ Others(p)
      /\ pc'[p] = "save" /\ match'[p] = 0 /\ receipt'[p] = "accepted"
  BY <1>1, <1>2, ReturnsStep
<1>5. /\ ack' \in [Publishers -> 0 .. Len(checks)] /\ ack'[p] = match[p]
      /\ \A q \in Publishers \ {p} : ack'[q] = ack[q]
  BY <1>2 DEF TypeOK
<1>6. TypeOK'
  <2>1. /\ n <= Len(checks') /\ ack' \in [Publishers -> 0 .. Len(checks')]
        /\ stored' \subseteq Publishers /\ known' \in [Publishers -> Nat]
        /\ lagged' \in BOOLEAN /\ overlapped' \in BOOLEAN
    BY <1>1, <1>2, <1>3, <1>5, Ids DEF TypeOK
  <2> QED
    BY <1>1, <1>3, <1>4, <2>1, Assemble
<1>7. \A q \in Publishers \ {p} : Aside(q)
  BY <1>2, <1>3, <1>4, <1>5 DEF Aside, Others
<1>8. Outcome(p)'
  <2>1. match[p] \in Ours(DOMAIN checks)
    BY <1>2 DEF Local, Outcome
  <2> QED
    BY <1>3, <1>4, <1>5, <2>1 DEF Outcome, Ours
<1>9. Bound(p)'
  <2>1. known[p] \in Nat /\ known[p] <= Cardinality(Ours(Listed)) /\ ~(known[p] > 1)
    BY <1>2 DEF Local, Bound, TypeOK
  <2>2. Cardinality(Ours(Listed)) \in Nat /\ Cardinality(Ours(Listed)') \in Nat
    BY <1>6, Finite, PositionsNext DEF Ours, Listed
  <2>3. known[p] <= Cardinality(Ours(Listed)')
    BY <1>3, <1>6, <2>1, <2>2, ListGrows
  <2> QED
    BY <1>2, <1>3, <1>4, <2>1, <2>3 DEF Local, Bound
<1>10. Reading(p)'
  BY <1>4 DEF Reading, Lookups
<1> QED
  BY <1>3, <1>6, <1>7, <1>8, <1>9, <1>10 DEF Sound, Local

\* A creation appends a check run and touches no other.
LEMMA AppendedRuns ==
    ASSUME TypeOK, NEW c \in CheckRuns, checks' = Append(checks, c)
    PROVE  /\ checks' \in Seq(CheckRuns) /\ Len(checks') = Len(checks) + 1 /\ Grows
           /\ DOMAIN checks' = DOMAIN checks \cup {Len(checks) + 1}
           /\ Len(checks) + 1 \notin DOMAIN checks
           /\ checks'[Len(checks) + 1] = c
           /\ \A i \in DOMAIN checks : checks'[i] = checks[i]
           /\ \A q \in Publishers : q # c.by /\ q \notin c.writers => Unmarked(q)
<1>1. checks \in Seq(CheckRuns) /\ Len(checks) \in Nat /\ DOMAIN checks = 1 .. Len(checks)
  BY DEF TypeOK, CheckRuns
<1>2. checks' \in Seq(CheckRuns) /\ Len(checks') = Len(checks) + 1
  BY <1>1
<1>3. /\ DOMAIN checks' = 1 .. Len(checks) + 1
      /\ checks'[Len(checks) + 1] = c
      /\ \A i \in DOMAIN checks : checks'[i] = checks[i]
  BY <1>1, <1>2
<1>4. /\ DOMAIN checks' = DOMAIN checks \cup {Len(checks) + 1}
      /\ Len(checks) + 1 \notin DOMAIN checks
  BY <1>1, <1>3
<1>5. Grows
  BY <1>3, <1>4 DEF Grows
<1>6. \A q \in Publishers : q # c.by /\ q \notin c.writers => Unmarked(q)
  BY <1>3, <1>4 DEF Unmarked
<1> QED
  BY <1>2, <1>3, <1>4, <1>5, <1>6

\* The check run of an invocation is one of the run ID.
LEMMA OwnCheck ==
    ASSUME NEW p \in Publishers, NEW listed \in BOOLEAN
    PROVE  /\ Check(p, listed, {p}) \in CheckRuns
           /\ Check(p, listed, {p}).by = p /\ Check(p, listed, {p}).listed = listed
           /\ Check(p, listed, {p}).writers = {p}
           /\ p # Nobody
BY DeliveryAssumption DEF Check, CheckRuns

\* What a POST that is applied does.
LEMMA AppliedRuns ==
    ASSUME TypeOK, NEW p \in Publishers, Applies(p)
    PROVE  /\ checks' \in Seq(CheckRuns) /\ Len(checks') = Len(checks) + 1 /\ Grows
           /\ DOMAIN checks' = DOMAIN checks \cup {Len(checks) + 1}
           /\ Len(checks) + 1 \notin DOMAIN checks
           /\ Len(checks) + 1 \in Ours(DOMAIN checks)'
           /\ p \in checks'[Len(checks) + 1].writers
           /\ checks'[Len(checks) + 1].listed \/ lagged'
           /\ \A i \in DOMAIN checks : checks'[i] = checks[i]
           /\ \A q \in Publishers \ {p} : Unmarked(q)
           /\ lagged' \in BOOLEAN /\ (lagged => lagged')
<1>1. PICK listed \in BOOLEAN : checks' = Created(p, listed) /\ lagged' = (lagged \/ ~listed)
  BY DeliveryAssumption DEF Applies
<1> DEFINE c == Check(p, listed, {p})
<1>2. c \in CheckRuns /\ c.by = p /\ c.listed = listed /\ c.writers = {p} /\ p # Nobody
  BY OwnCheck
<1>3. checks' = Append(checks, c)
  BY <1>1 DEF Created
<1>4. lagged' \in BOOLEAN /\ (lagged => lagged') /\ (listed \/ lagged')
  BY <1>1 DEF TypeOK
<1> HIDE DEF c
<1>5. /\ checks' \in Seq(CheckRuns) /\ Len(checks') = Len(checks) + 1 /\ Grows
      /\ DOMAIN checks' = DOMAIN checks \cup {Len(checks) + 1}
      /\ Len(checks) + 1 \notin DOMAIN checks
      /\ checks'[Len(checks) + 1] = c
      /\ \A i \in DOMAIN checks : checks'[i] = checks[i]
      /\ \A q \in Publishers : q # c.by /\ q \notin c.writers => Unmarked(q)
  BY <1>2, <1>3, AppendedRuns
<1> QED
  BY <1>2, <1>4, <1>5 DEF Ours

\* The POST, whatever comes of it.
LEMMA PostStep ==
    ASSUME TypeOK, NEW p \in Publishers, Local(p), Post(p)
    PROVE  Sound(p)
<1>1. PICK n \in Nat : n = Len(checks) /\ Private(n)
  BY PrivateFirst
<1>2. pc[p] = "create" /\ UNCHANGED <<stored, known, overlapped>>
  BY DEF Post
<1>3. known[p] = 0
  <2>1. known[p] \in Nat
    BY DEF TypeOK
  <2> QED
    BY <1>2, <2>1 DEF Local, Bound
<1>4. ASSUME Private(n)', checks' \in Seq(CheckRuns), n <= Len(checks'),
             ack' \in [Publishers -> 0 .. Len(checks')], lagged' \in BOOLEAN
      PROVE  TypeOK'
  <2>1. /\ stored' \subseteq Publishers /\ known' \in [Publishers -> Nat]
        /\ overlapped' \in BOOLEAN
    BY <1>2 DEF TypeOK
  <2> QED
    BY <1>1, <1>4, <2>1, Assemble
<1>5. ASSUME pc'[p] # "idle", TypeOK' PROVE Bound(p)'
  <2>1. Cardinality(Ours(Listed)') \in Nat
    BY <1>5, PositionsNext
  <2> QED
    BY <1>2, <1>3, <1>5, <2>1 DEF Bound
<1>6. Len(checks) \in Nat
  BY Ids
<1>7. CASE PostAcknowledged(p)
  <2>1. /\ Applies(p) /\ ack' = [ack EXCEPT ![p] = Len(checks) + 1]
        /\ Returns(p, "accepted")
    BY <1>7 DEF PostAcknowledged
  <2>2. /\ Private(n)' /\ Others(p)
        /\ pc'[p] = "save" /\ match'[p] = 0 /\ receipt'[p] = "accepted"
    BY <1>1, <2>1, ReturnsStep
  <2>3. /\ checks' \in Seq(CheckRuns) /\ Len(checks') = Len(checks) + 1 /\ Grows
        /\ Len(checks) + 1 \in Ours(DOMAIN checks)'
        /\ p \in checks'[Len(checks) + 1].writers
        /\ \A q \in Publishers \ {p} : Unmarked(q)
        /\ lagged' \in BOOLEAN
    BY <2>1, AppliedRuns
  <2>4. /\ ack' \in [Publishers -> 0 .. Len(checks')] /\ ack'[p] = Len(checks) + 1
        /\ \A q \in Publishers \ {p} : ack'[q] = ack[q]
    BY <1>6, <2>1, <2>3 DEF TypeOK
  <2>5. TypeOK'
    BY <1>1, <1>4, <1>6, <2>2, <2>3, <2>4
  <2>6. \A q \in Publishers \ {p} : Aside(q)
    BY <1>2, <2>2, <2>3, <2>4 DEF Aside, Others
  <2>7. Outcome(p)' /\ Reading(p)' /\ Bound(p)'
    BY <1>5, <2>2, <2>3, <2>4, <2>5 DEF Outcome, Reading, Lookups
  <2> QED
    BY <2>3, <2>5, <2>6, <2>7 DEF Sound, Local
<1>8. CASE PostRefused(p)
  <2>1. Returns(p, "failed") /\ UNCHANGED <<checks, lagged, ack>>
    BY <1>8 DEF PostRefused
  <2>2. /\ Private(n)' /\ Others(p)
        /\ pc'[p] = "save" /\ match'[p] = 0 /\ receipt'[p] = "failed"
    BY <1>1, <2>1, ReturnsStep
  <2>3. TypeOK'
    <3>1. /\ checks' \in Seq(CheckRuns) /\ n <= Len(checks')
          /\ ack' \in [Publishers -> 0 .. Len(checks')] /\ lagged' \in BOOLEAN
      BY <1>1, <1>6, <2>1 DEF TypeOK, CheckRuns
    <3> QED
      BY <1>4, <2>2, <3>1
  <2>4. Local(p)'
    BY <1>2, <2>1, <2>2, <2>3, Quiet, FailedKnows
  <2> QED
    BY <1>2, <2>1, <2>2, <2>3, <2>4, Quiet DEF Sound, Aside, Others
<1>9. CASE PostUncertain(p)
  <2>1. /\ UNCHANGED <<checks, lagged>> \/ Applies(p)
        /\ Turns(p, "confirm") /\ UNCHANGED receipt /\ UNCHANGED ack
    BY <1>9 DEF PostUncertain
  <2>2. /\ Private(n)' /\ Others(p)
        /\ pc'[p] = "confirm" /\ match'[p] = 0 /\ scan'[p].page = 1
    BY <1>1, <2>1, TurnsStep
  <2>3. /\ checks' \in Seq(CheckRuns) /\ n <= Len(checks') /\ Grows
        /\ \A q \in Publishers \ {p} : Unmarked(q)
        /\ lagged' \in BOOLEAN
    <3>1. CASE UNCHANGED <<checks, lagged>>
      BY <1>1, <1>6, <3>1, Quiet DEF TypeOK, CheckRuns
    <3>2. CASE Applies(p)
      BY <1>1, <1>6, <3>2, AppliedRuns
    <3> QED
      BY <2>1, <3>1, <3>2
  <2>4. ack' \in [Publishers -> 0 .. Len(checks')]
    <3>1. Len(checks') \in Nat
      BY <2>3
    <3> QED
      BY <1>1, <1>6, <2>1, <2>3, <3>1 DEF TypeOK
  <2>5. TypeOK'
    BY <1>4, <2>2, <2>3, <2>4
  <2>6. \A q \in Publishers \ {p} : Aside(q)
    BY <1>2, <2>1, <2>2, <2>3 DEF Aside, Others
  <2>7. Reading(p)'
    BY <2>2, <2>5, FirstPageNext DEF Reading
  <2>8. Outcome(p)'
    BY <2>1, <2>2, <2>3 DEF Local, Outcome, Ours, Grows
  <2>9. Bound(p)'
    BY <1>5, <2>2, <2>5
  <2> QED
    BY <2>3, <2>5, <2>6, <2>7, <2>8, <2>9 DEF Sound, Local
<1> QED
  BY <1>7, <1>8, <1>9 DEF Post

\* The receipt is kept, or not, and the process ends.
LEMMA SaveStep ==
    ASSUME TypeOK, NEW p \in Publishers, Local(p), Save(p)
    PROVE  Sound(p)
<1>1. PICK code \in {"exit0", "exit2"} :
        /\ pc' = [pc EXCEPT ![p] = code]
        /\ code = "exit0" => stored' = stored \cup {p} /\ receipt[p] = "accepted"
  BY DEF Save, Exits, Keep, KeepFails
<1>2. /\ UNCHANGED <<checks, attempt, scan, match, receipt, ack, known, overlapped, lagged>>
      /\ stored' \in {stored, stored \cup {p}}
      /\ pc[p] = "save"
  BY DEF Save, Keep, KeepFails, client
<1>3. /\ pc' \in [Publishers -> Statuses] /\ pc'[p] = code
      /\ \A q \in Publishers \ {p} : pc'[q] = pc[q]
  BY <1>1 DEF TypeOK, Statuses
<1>4. TypeOK'
  BY <1>2, <1>3 DEF TypeOK
<1>5. \A q \in Publishers \ {p} : Aside(q)
  BY <1>2, <1>3, Quiet DEF Aside, Same
<1>6. Reading(p)'
  BY <1>3 DEF Reading, Lookups
<1>7. Outcome(p)'
  BY <1>1, <1>2, <1>3 DEF Local, Outcome, Ours
<1>8. Bound(p)'
  BY <1>2, <1>3, Quiet DEF Local, Bound
<1> QED
  BY <1>2, <1>4, <1>5, <1>6, <1>7, <1>8, Quiet DEF Sound, Local

\* The process dies.
LEMMA CrashStep ==
    ASSUME TypeOK, NEW p \in Publishers, Local(p), Crash(p)
    PROVE  Sound(p)
<1>1. PICK n \in Nat : n = Len(checks) /\ Private(n)
  BY PrivateFirst
<1>2. /\ UNCHANGED <<checks, receipt, ack, known, stored, overlapped, lagged>>
      /\ pc[p] # "idle" /\ pc' = [pc EXCEPT ![p] = "dead"] /\ Forget(p)
  BY DEF Crash
<1>3. /\ pc' \in [Publishers -> Statuses] /\ pc'[p] = "dead"
      /\ \A q \in Publishers \ {p} : pc'[q] = pc[q]
  BY <1>2 DEF TypeOK, Statuses
<1>4. Private(n)' /\ Others(p) /\ match'[p] = 0
  <2>1. /\ attempt' \in [Publishers -> 1 .. MaxAttempts]
        /\ scan' \in [Publishers -> [page : 1 .. MaxPages, total : Nat, scanned : Nat]]
        /\ match' \in [Publishers -> 0 .. n] /\ match'[p] = 0
        /\ \A q \in Publishers \ {p} : scan'[q] = scan[q] /\ match'[q] = match[q]
    BY <1>1, <1>2, ForgetStep
  <2>2. \A q \in Publishers : pc'[q] = "update" => match'[q] # 0
    BY <1>1, <1>3, <2>1 DEF Private
  <2>3. Private(n)'
    BY <1>1, <1>2, <1>3, <2>1, <2>2 DEF Private
  <2>4. Others(p)
    BY <1>2, <1>3, <2>1 DEF Others, Same
  <2>5. QED
    BY <2>1, <2>3, <2>4
<1>5. TypeOK'
  <2>1. /\ checks' \in Seq(CheckRuns) /\ n <= Len(checks')
        /\ ack' \in [Publishers -> 0 .. Len(checks')] /\ stored' \subseteq Publishers
        /\ known' \in [Publishers -> Nat] /\ lagged' \in BOOLEAN /\ overlapped' \in BOOLEAN
    BY <1>1, <1>2, Ids DEF TypeOK, CheckRuns
  <2> QED
    BY <1>1, <1>4, <2>1, Assemble
<1>6. Local(p)'
  BY <1>2, <1>3, <1>4, <1>5, Quiet, FailedKnows
<1> QED
  BY <1>2, <1>4, <1>5, <1>6, Quiet DEF Sound, Aside, Others

\* Whatever an invocation does.
LEMMA InvocationStep ==
    ASSUME TypeOK, \A q \in Publishers : Local(q),
           NEW p \in Publishers, Begin(p) \/ Step(p) \/ Crash(p)
    PROVE  TypeOK' /\ \A q \in Publishers : Local(q)'
<1>1. Local(p)
  OBVIOUS
<1>2. Sound(p)
  <2>1. CASE Begin(p)
    BY <1>1, <2>1, BeginStep
  <2>2. CASE GetPage(p)
    BY <1>1, <2>2, GetPageStep
  <2>3. CASE Retry(p)
    BY <1>1, <2>3, RetryStep
  <2>4. CASE GiveUp(p)
    BY <1>1, <2>4, GiveUpStep
  <2>5. CASE Post(p)
    BY <1>1, <2>5, PostStep
  <2>6. CASE Patch(p)
    BY <1>1, <2>6, PatchStep
  <2>7. CASE Save(p)
    BY <1>1, <2>7, SaveStep
  <2>8. CASE Crash(p)
    BY <1>1, <2>8, CrashStep
  <2> QED
    BY <2>1, <2>2, <2>3, <2>4, <2>5, <2>6, <2>7, <2>8 DEF Step
<1>3. ASSUME NEW q \in Publishers \ {p} PROVE Local(q)'
  <2>1. Aside(q) /\ Local(q) /\ TypeOK' /\ Grows
    BY <1>2 DEF Sound
  <2> QED
    BY <2>1, AsideKept
<1> QED
  BY <1>2, <1>3 DEF Sound

\* What GitHub and other runs do.
LEMMA ForeignStep ==
    ASSUME TypeOK, CreateForeign
    PROVE  /\ TypeOK' /\ Grows /\ \A q \in Publishers : Aside(q)
           /\ Ours(DOMAIN checks)' = Ours(DOMAIN checks)
           /\ (\A i \in DOMAIN checks : checks[i].listed) =>
                  \A i \in DOMAIN checks' : checks'[i].listed
<1> DEFINE c == Check(Nobody, TRUE, {})
<1>1. c \in CheckRuns /\ c.by = Nobody /\ c.listed /\ c.writers = {}
  BY DEF Check, CheckRuns
<1>2. checks' = Append(checks, c)
  BY DEF CreateForeign
<1>3. UNCHANGED <<pc, attempt, scan, match, receipt, ack, known, stored, overlapped, lagged>>
  BY DEF CreateForeign, client
<1> HIDE DEF c
<1>4. /\ checks' \in Seq(CheckRuns) /\ Len(checks') = Len(checks) + 1 /\ Grows
      /\ DOMAIN checks' = DOMAIN checks \cup {Len(checks) + 1}
      /\ checks'[Len(checks) + 1] = c
      /\ \A i \in DOMAIN checks : checks'[i] = checks[i]
      /\ \A q \in Publishers : q # c.by /\ q \notin c.writers => Unmarked(q)
  BY <1>1, <1>2, AppendedRuns
<1>5. \A q \in Publishers : Unmarked(q)
  BY <1>1, <1>4, DeliveryAssumption
<1>6. TypeOK'
  <2>1. /\ Len(checks) \in Nat /\ match' \in [Publishers -> 0 .. Len(checks')]
        /\ ack' \in [Publishers -> 0 .. Len(checks')]
    BY <1>3, <1>4, Ids DEF TypeOK
  <2> QED
    BY <1>3, <1>4, <2>1 DEF TypeOK, CheckRuns
<1>7. \A q \in Publishers : Aside(q)
  BY <1>3, <1>5 DEF Aside, Same
<1>8. Ours(DOMAIN checks)' = Ours(DOMAIN checks)
  <2>1. Len(checks) + 1 \notin Ours(DOMAIN checks)'
    BY <1>1, <1>4 DEF Ours
  <2> QED
    BY <1>4, <2>1 DEF Ours
<1> QED
  BY <1>1, <1>4, <1>6, <1>7, <1>8

\* A check run is listed late.
LEMMA AppearStep ==
    ASSUME TypeOK, Appear
    PROVE  /\ TypeOK' /\ Grows /\ \A q \in Publishers : Aside(q)
           /\ Ours(DOMAIN checks)' = Ours(DOMAIN checks)
           /\ (\A i \in DOMAIN checks : checks[i].listed) =>
                  \A i \in DOMAIN checks' : checks'[i].listed
<1>1. PICK k \in DOMAIN checks :
        /\ checks' = [checks EXCEPT ![k].listed = TRUE]
        /\ UNCHANGED <<pc, attempt, scan, match, receipt, ack, known, stored, overlapped, lagged>>
  BY DEF Appear, client
<1> DEFINE c == checks[k]
           d == [c EXCEPT !.listed = TRUE]
<1>2. checks \in Seq(CheckRuns) /\ c \in CheckRuns
  <2>1. checks \in Seq(CheckRuns)
    BY DEF TypeOK, CheckRuns
  <2> QED
    BY <2>1
<1>3. d \in CheckRuns /\ d.by = c.by /\ d.listed /\ d.writers = c.writers
  BY <1>2 DEF CheckRuns
<1>4. checks' = [checks EXCEPT ![k] = d]
  BY <1>1
<1> HIDE DEF d
<1>5. /\ checks' \in Seq(CheckRuns) /\ Len(checks') = Len(checks)
      /\ DOMAIN checks' = DOMAIN checks
      /\ \A i \in DOMAIN checks : checks'[i] = IF i = k THEN d ELSE checks[i]
  BY <1>2, <1>3, <1>4
<1>6. \A i \in DOMAIN checks :
        /\ checks'[i].by = checks[i].by /\ checks'[i].writers = checks[i].writers
        /\ checks[i].listed => checks'[i].listed
  BY <1>3, <1>5
<1>7. TypeOK'
  BY <1>1, <1>5 DEF TypeOK, CheckRuns
<1>8. \A q \in Publishers : Aside(q)
  BY <1>1, <1>5, <1>6 DEF Aside, Same, Unmarked
<1> QED
  BY <1>5, <1>6, <1>7, <1>8 DEF Grows, Ours

-----------------------------------------------------------------------------
(* One publication at a time, on a list that does not lag.                  *)

\* Steps that create no check run of the run ID and start no publication.
LEMMA SerialKept ==
    ASSUME Serial,
           Ours(DOMAIN checks)' = Ours(DOMAIN checks),
           \A i \in DOMAIN checks' : checks'[i].listed,
           \A q \in Publishers : Publishing(q)' => Publishing(q),
           \A q \in Publishers :
              pc'[q] = "create" => pc[q] = "create" \/ Ours(DOMAIN checks) = {}
    PROVE  Serial'
BY DEF Serial

\* No step of a lone publication adds a second check run.
LEMMA SerialStep ==
    ASSUME TypeOK, \A q \in Publishers : Local(q), Alone => Serial, Next, Alone'
    PROVE  Serial'
<1>1. CASE CreateForeign \/ Appear
  <2>1. Serial /\ UNCHANGED pc
    BY <1>1 DEF Alone, CreateForeign, Appear
  <2>2. /\ Ours(DOMAIN checks)' = Ours(DOMAIN checks)
        /\ \A i \in DOMAIN checks' : checks'[i].listed
    BY <1>1, <2>1, ForeignStep, AppearStep DEF Serial
  <2> QED
    BY <2>1, <2>2, SerialKept DEF Publishing
<1>2. ASSUME NEW p \in Publishers, Begin(p) PROVE Serial'
  <2>1. /\ UNCHANGED checks /\ lagged' = lagged
        /\ overlapped' = (overlapped \/ \E q \in Publishers : Publishing(q))
    BY <1>2 DEF Begin
  <2>2. Serial /\ \A q \in Publishers : ~Publishing(q)
    BY <2>1 DEF Alone
  <2>3. /\ pc' = [pc EXCEPT ![p] = pc'[p]]
        /\ pc'[p] \in {"find", "save"}
    BY <1>2 DEF Begin, Turns, Returns, TypeOK
  <2>4. /\ pc \in [Publishers -> Statuses]
        /\ \A q \in Publishers \ {p} : pc'[q] = pc[q]
    BY <2>3 DEF TypeOK
  <2>5. Ours(DOMAIN checks)' = Ours(DOMAIN checks)
    BY <2>1 DEF Ours
  <2> QED
    BY <2>1, <2>2, <2>3, <2>4, <2>5 DEF Serial, Publishing
<1>3. ASSUME NEW p \in Publishers, Step(p) \/ Crash(p) PROVE Serial'
  <2>1. Alone /\ Serial
    <3>1. overlapped' = overlapped /\ (lagged => lagged')
      <4>1. Post(p) /\ lagged => lagged'
        BY AppliedRuns DEF Post, PostAcknowledged, PostRefused, PostUncertain
      <4> QED
        BY <1>3, <4>1 DEF Step, Crash, GetPage, Retry, GiveUp, Post, Patch, Save
    <3> QED
      BY <3>1 DEF Alone
  <2>2. \A i \in DOMAIN checks : checks[i].listed
    BY <2>1 DEF Serial
  <2>3. CASE GetPage(p)
    <3>1. UNCHANGED checks
      BY <2>3 DEF GetPage
    <3>2. /\ pc'[p] = "create" => Ours(Listed) = {}
          /\ \A q \in Publishers \ {p} : pc'[q] = pc[q]
      BY <2>3, GetPageStep DEF Sound, Aside, Same
    <3>3. Ours(Listed) = Ours(DOMAIN checks)
      BY <2>2 DEF Listed
    <3>4. Publishing(p)
      BY <2>3 DEF GetPage, Publishing
    <3>5. Ours(DOMAIN checks)' = Ours(DOMAIN checks)
      BY <3>1 DEF Ours
    <3> QED
      BY <2>1, <2>2, <3>1, <3>2, <3>3, <3>4, <3>5, SerialKept DEF Publishing
  <2>4. CASE Post(p)
    <3>1. pc[p] = "create" /\ Publishing(p) /\ Ours(DOMAIN checks) = {}
      BY <2>1, <2>4 DEF Post, Publishing, Serial
    <3>2. \A q \in Publishers \ {p} : ~Publishing(q) /\ pc'[q] = pc[q]
      BY <2>1, <2>4, <3>1, PostStep DEF Serial, Sound, Aside, Same
    <3>3. pc'[p] \in {"save", "confirm"}
      BY <2>4 DEF Post, PostAcknowledged, PostRefused, PostUncertain, Returns, Turns, TypeOK
    <3>4. \A q \in Publishers \ {p} : ~Publishing(q)' /\ pc'[q] # "create"
      BY <3>2 DEF Publishing
    <3>5. CASE UNCHANGED checks
      <4>1. Ours(DOMAIN checks)' = {}
        BY <3>1, <3>5 DEF Ours
      <4> QED
        BY <2>2, <3>3, <3>4, <3>5, <4>1 DEF Serial
    <3>6. CASE Applies(p)
      <4>1. /\ DOMAIN checks' = DOMAIN checks \cup {Len(checks) + 1}
            /\ checks'[Len(checks) + 1].listed
            /\ \A i \in DOMAIN checks : checks'[i] = checks[i]
        BY <3>6, AppliedRuns DEF Alone
      <4>2. Ours(DOMAIN checks)' \subseteq {Len(checks) + 1}
        BY <3>1, <4>1 DEF Ours
      <4>3. \A i \in DOMAIN checks' : checks'[i].listed
        BY <2>2, <4>1
      <4> QED
        BY <3>3, <3>4, <4>2, <4>3 DEF Serial
    <3> QED
      BY <2>4, <3>5, <3>6 DEF Post, PostAcknowledged, PostRefused, PostUncertain
  <2>5. CASE Retry(p) \/ GiveUp(p) \/ Patch(p)
    <3>1. /\ Ours(DOMAIN checks)' = Ours(DOMAIN checks)
          /\ \A i \in DOMAIN checks' : checks'[i].listed
      <4>1. UNCHANGED checks \/ (match[p] # 0 /\ checks' = Patched(p))
        BY <2>5 DEF Retry, GiveUp, Patch, Unanswered, TypeOK
      <4>2. CASE UNCHANGED checks
        BY <2>2, <4>2 DEF Ours
      <4>3. CASE match[p] # 0 /\ checks' = Patched(p)
        <5>1. /\ DOMAIN checks' = DOMAIN checks
              /\ \A i \in DOMAIN checks :
                   checks'[i].by = checks[i].by /\ checks'[i].listed = checks[i].listed
          BY <4>3, PatchedRuns
        <5>2. Ours(DOMAIN checks)' = Ours(DOMAIN checks)
          BY <5>1 DEF Ours
        <5> QED
          BY <2>2, <5>1, <5>2
      <4> QED
        BY <4>1, <4>2, <4>3
    <3>2. /\ Publishing(p)
          /\ pc'[p] \in {pc[p], "save"}
          /\ \A q \in Publishers \ {p} : pc'[q] = pc[q]
      BY <2>5 DEF Retry, GiveUp, Patch, Unanswered, Returns, TypeOK, Publishing
    <3> QED
      BY <2>1, <3>1, <3>2, SerialKept DEF Publishing
  <2>6. CASE Save(p) \/ Crash(p)
    <3>1. UNCHANGED checks
      BY <2>6 DEF Save, Crash
    <3>2. /\ pc'[p] \in {"exit0", "exit2", "dead"}
          /\ \A q \in Publishers \ {p} : pc'[q] = pc[q]
      BY <2>6 DEF Save, Exits, Keep, KeepFails, Crash, TypeOK
    <3>3. Ours(DOMAIN checks)' = Ours(DOMAIN checks)
      BY <3>1 DEF Ours
    <3> QED
      BY <2>1, <2>2, <3>1, <3>2, <3>3, SerialKept DEF Publishing, Lookups
  <2> QED
    BY <1>3, <2>3, <2>4, <2>5, <2>6 DEF Step
<1> QED
  BY <1>1, <1>2, <1>3 DEF Next

-----------------------------------------------------------------------------
(* The theorems.                                                            *)

\* The invariant holds when the deliveries start.
LEMMA InitIInv == Init => IInv
<1> SUFFICES ASSUME Init PROVE IInv
  OBVIOUS
<1>1. PICK n \in 0 .. MaxPast :
        /\ checks = [i \in 1 .. n |-> Check(Earlier, TRUE, {Earlier})]
        /\ overlapped = (n > 1)
  BY DEF Init
<1> DEFINE c == Check(Earlier, TRUE, {Earlier})
<1>2. c \in CheckRuns /\ c.by = Earlier /\ c.listed /\ c.writers = {Earlier}
  BY DEF Check, CheckRuns
<1>3. n \in Nat /\ checks = [i \in 1 .. n |-> c]
  BY <1>1, DeliveryAssumption
<1> HIDE DEF c
<1>4. /\ checks \in Seq(CheckRuns) /\ Len(checks) = n /\ DOMAIN checks = 1 .. n
      /\ \A i \in DOMAIN checks :
           checks[i].by = Earlier /\ checks[i].listed /\ checks[i].writers = {Earlier}
  BY <1>2, <1>3
<1>5. TypeOK
  <2>1. Scan(1, 0, 0) \in [page : 1 .. MaxPages, total : Nat, scanned : Nat]
    BY ScanType, DeliveryAssumption
  <2>2. scan \in [Publishers -> [page : 1 .. MaxPages, total : Nat, scanned : Nat]]
    BY <2>1 DEF Init
  <2>3. attempt \in [Publishers -> 1 .. MaxAttempts]
    BY DeliveryAssumption DEF Init
  <2>4. match \in [Publishers -> 0 .. Len(checks)] /\ ack \in [Publishers -> 0 .. Len(checks)]
    BY <1>3, <1>4 DEF Init
  <2>5. overlapped \in BOOLEAN
    BY <1>1
  <2> QED
    BY <1>4, <2>2, <2>3, <2>4, <2>5 DEF Init, TypeOK, CheckRuns, Statuses
<1>6. ASSUME NEW p \in Publishers PROVE Local(p)
  <2>1. Cardinality(Ours(Listed)) \in Nat
    BY <1>5, Finite DEF Ours, Listed
  <2>2. pc[p] = "idle" /\ match[p] = 0 /\ receipt[p] = "none" /\ known[p] = 0
    BY DEF Init
  <2>3. p # Earlier
    BY DeliveryAssumption
  <2> QED
    BY <1>4, <2>1, <2>2, <2>3 DEF Local, Reading, Outcome, Bound, Lookups
<1>7. ASSUME Alone PROVE Serial
  <2>1. n = 0 \/ n = 1
    <3>1. ~(n > 1)
      BY <1>1, <1>7, Zenon DEF Alone
    <3> QED
      BY <1>3, <3>1
  <2>2. \A p \in Publishers : pc[p] = "idle"
    BY DEF Init
  <2> QED
    BY <1>4, <2>1, <2>2 DEF Serial, Publishing, Lookups, Ours
<1> QED
  BY <1>5, <1>6, <1>7 DEF IInv

\* Every step keeps the invariant.
LEMMA NextIInv == IInv /\ [Next]_vars => IInv'
<1> SUFFICES ASSUME IInv, [Next]_vars PROVE IInv'
  OBVIOUS
<1>1. TypeOK /\ (\A q \in Publishers : Local(q)) /\ (Alone => Serial)
  BY DEF IInv
<1>2. CASE UNCHANGED vars
  <2>1. UNCHANGED <<checks, pc, attempt, scan, match, receipt, ack, known, stored,
                    overlapped, lagged>>
    BY <1>2 DEF vars, client
  <2>2. TypeOK'
    BY <1>1, <2>1 DEF TypeOK
  <2>3. \A q \in Publishers : Aside(q)
    BY <1>1, <2>1, Quiet DEF Aside, Same
  <2>4. \A q \in Publishers : Local(q)'
    BY <1>1, <2>1, <2>2, <2>3, Quiet, AsideKept
  <2>5. (Alone => Serial)'
    BY <1>1, <2>1 DEF Alone, Serial, Publishing, Ours
  <2> QED
    BY <2>2, <2>4, <2>5 DEF IInv
<1>3. CASE Next
  <2>1. TypeOK' /\ \A q \in Publishers : Local(q)'
    <3>1. CASE CreateForeign \/ Appear
      <4>1. TypeOK' /\ Grows /\ \A q \in Publishers : Aside(q)
        BY <1>1, <3>1, ForeignStep, AppearStep
      <4> QED
        BY <1>1, <4>1, AsideKept
    <3>2. CASE \E p \in Publishers : Begin(p) \/ Step(p) \/ Crash(p)
      BY <1>1, <3>2, InvocationStep
    <3> QED
      BY <1>3, <3>1, <3>2 DEF Next
  <2>2. (Alone => Serial)'
    BY <1>1, <1>3, SerialStep
  <2> QED
    BY <2>1, <2>2 DEF IInv
<1> QED
  BY <1>2, <1>3

(***************************************************************************)
(* The invariant of a delivery: what its lookup knows, what it was told, and *)
(* that deliveries one after another see each other's check run.            *)
(***************************************************************************)
THEOREM DeliveryInvariant == Spec => []IInv
<1> QED
  BY InitIInv, NextIInv, PTL DEF Spec

\* Invocations, requests and check runs are well typed; a lookup stays within
\* its pages, and an update has its check run.
THEOREM DeliveryTypeOK == Spec => []TypeOK
<1>1. IInv => TypeOK
  BY DEF IInv
<1> QED
  BY <1>1, DeliveryInvariant, PTL

\* Exit code 0 is the truth about GitHub and the store (`run deliver`).
THEOREM DeliveryExitIsOutcome == Spec => []ExitIsOutcome
<1>1. IInv => ExitIsOutcome
  BY DEF IInv, Local, Outcome, ExitIsOutcome
<1> QED
  BY <1>1, DeliveryInvariant, PTL

\* Deliveries one after another leave one check run (Publish), for pages of any
\* size and whatever other runs create meanwhile.
THEOREM DeliveryOneCheck == Spec => []OneCheck
<1>1. ASSUME IInv PROVE OneCheck
  <2> DEFINE O == Ours(DOMAIN checks)
  <2>1. IsFiniteSet(O) /\ Cardinality(O) \in Nat
    BY <1>1, Finite DEF Ours, IInv
  <2>2. SUFFICES ASSUME Alone PROVE Cardinality(O) <= 1
    BY <2>1, <2>2 DEF OneCheck, Alone
  <2>3. \A i, j \in O : i = j
    BY <1>1, <2>2 DEF IInv, Serial
  <2>4. CASE O = {}
    BY <2>4, FS_EmptySet
  <2>5. CASE O # {}
    <3>1. PICK x : O = {x}
      BY <2>3, <2>5
    <3> QED
      BY <3>1, FS_Singleton
  <2> QED
    BY <2>4, <2>5
<1> QED
  BY <1>1, DeliveryInvariant, PTL

\* A check run that is listed when a delivery starts is the one it uses (find),
\* with any number of deliveries at once.
THEOREM DeliveryKnownCheck == Spec => []KnownCheckIsReused
<1>1. IInv => KnownCheckIsReused
  BY DEF IInv, Local, Bound, KnownCheckIsReused
<1> QED
  BY <1>1, DeliveryInvariant, PTL

\* Of two check runs that are listed when a delivery starts it writes to none.
THEOREM DeliveryAmbiguous == Spec => []AmbiguousIsLeftAlone
<1>1. IInv => AmbiguousIsLeftAlone
  BY DEF IInv, Local, Bound, AmbiguousIsLeftAlone
<1> QED
  BY <1>1, DeliveryInvariant, PTL
=============================================================================
