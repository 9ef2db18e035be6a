----------------------------- MODULE SentinelProofs -----------------------------
(***************************************************************************)
(* Proofs about what herdr-sentinel keeps in files.                        *)
(*                                                                         *)
(* Role executions (RoleExecution), for any invocations, IDs, requests and *)
(* edits: one child per ID, reports that are true and that collectors      *)
(* accept, and launches of inputs that were read after the claim.          *)
(*                                                                         *)
(* Receipts (RunReceipt), for any commands, files and batches of events: a *)
(* change of a receipt is refused or lets it grow (Leads), which each      *)
(* change does and a sequence of changes as well; a command that holds the *)
(* lock makes its change to the receipt that is there (Locking).           *)
(***************************************************************************)
EXTENDS RoleExecution, RunReceipt, SequenceTheorems, WellFoundedInduction, TLAPS

-----------------------------------------------------------------------------
(* Role executions: the invariant.                                         *)

Before  == {"idle", "claim", "claimed", "private", "capture", "check", "broker", "start"}
Settled == {"drain", "digest", "report"}
Places  == Before \union {"wait"} \union Settled \union {"ended"}

Brokers == {"none", "unavailable", "mismatched", "open", "closed", "indeterminate",
            "undrained", "gone"}
Endings == {"0", "1", "signaled"}

\* What an invocation may know.
Invocations ==
  [req : Requests, next : Nat \ {0}, broker : Brokers, interrupted : BOOLEAN, told : BOOLEAN,
   capture : [digest : Nat \union {None}, failed : BOOLEAN]]

\* Type correctness of what the proof looks at.
RoleTypeOK ==
  /\ changed \subseteq Editable
  /\ claims = [id \in ExecutionIds |-> claims[id]]
  /\ captures \in [ExecutionIds -> Nat \union {None}]
  /\ reports = [id \in ExecutionIds |-> reports[id]]
  /\ pc \in [Executions -> Places]
  /\ inv = [p \in Executions |-> inv[p]]
  /\ \A p \in Executions : pc[p] # "idle" => inv[p] \in Invocations
  /\ exit \in [Executions -> {"none", "unstarted", "running"} \union Endings]
  /\ helper \in [Executions -> {"none", "group", "outside"}]
  /\ stale \in [Executions -> SUBSET Editable]

\* The child of an invocation is where the invocation is.
ChildOK(at, ex, h) ==
  /\ at \in Before => ex = "none"
  /\ at = "wait" => ex \notin {"none", "unstarted"}
  /\ at \in Settled => ex \notin {"none", "running"} /\ h # "group"
  /\ h # "none" => ex \notin {"none", "unstarted"}

\* It has a broker if it was asked for one, which is drained before the digests.
BrokerOK(at, i, ex) ==
  /\ at \in Before \ {"start", "idle"} => i.broker = "none"
  /\ at = "broker" => i.req.broker
  /\ at \in {"start", "wait"} => i.broker = IF i.req.broker THEN "open" ELSE "none"
  /\ at = "drain" => /\ (i.broker = "none") = ~i.req.broker
                     /\ i.broker \in {"none", "unavailable", "mismatched", "open"}
                     /\ i.broker \in {"unavailable", "mismatched"} => ex = "unstarted"
  /\ at \in {"digest", "report"} =>
       /\ (i.broker = "none") = ~i.req.broker
       /\ i.broker \in {"none", "unavailable", "closed", "indeterminate", "undrained"}
       /\ i.broker \in {"unavailable", "indeterminate"} => ex = "unstarted"

\* What has been checked was, at some moment since the claim, as pinned.
CheckOK(at, i, st) ==
  /\ at \in {"claim", "claimed", "private", "capture"} => i.next = 1
  /\ at = "check" => \A n \in 1 .. Len(Order) :
       n < i.next /\ Order[n] \in Pinned(i.req) => Order[n] \notin st
  /\ at \in {"broker", "start"} => st \intersect Pinned(i.req) = {}

\* What has been as pinned since the claim is at least what is so now.
StaleOK == \A p \in Executions : stale[p] \subseteq changed

\* An invocation that got the claim, or got it before it died with a child.
Holds(at, ex) == at \in Places \ {"idle", "claim", "ended"} \/ ex # "none"

ClaimOK(at, i, ex, cl) ==
  /\ Holds(at, ex) => cl[i.req.id] # None
  /\ Holds(at, ex) /\ at # "claimed" => cl[i.req.id] = i.req.executable

\* Its captures exist, and the digest is theirs unless somebody can still write.
CaptureOK(at, i, ex, h, ca) ==
  /\ ex # "none" \/ at \in {"check", "broker", "start"} => ca[i.req.id] \in Nat
  /\ at = "report" =>
       /\ i.capture.digest = None => i.capture.failed
       /\ i.capture.digest # None /\ h # "outside" => i.capture.digest = ca[i.req.id]

ProcessOK(at, i, ex, h, st, cl, ca) ==
  /\ ChildOK(at, ex, h) /\ BrokerOK(at, i, ex) /\ CheckOK(at, i, st)
  /\ ClaimOK(at, i, ex, cl) /\ CaptureOK(at, i, ex, h, ca)

ProcessesOK ==
  \A p \in Executions : ProcessOK(pc[p], inv[p], exit[p], helper[p], stale[p], claims, captures)

OneHolder ==
  \A p, q \in Executions :
    Holds(pc[p], exit[p]) /\ Holds(pc[q], exit[q]) /\ Id(p) = Id(q) => p = q

\* What is true of an invocation that published its report stays true.
ReportOK(i, ex, h, cl, ca) ==
  /\ ChildOK("report", ex, h) /\ BrokerOK("report", i, ex)
  /\ ClaimOK("report", i, ex, cl) /\ CaptureOK("report", i, ex, h, ca)

ReportsOK ==
  \A id \in ExecutionIds : reports[id] # None => \E p \in Executions :
    /\ pc[p] = "ended" /\ Id(p) = id /\ reports[id] = Report(p)
    /\ ReportOK(inv[p], exit[p], helper[p], claims, captures)

RoleInv == RoleTypeOK /\ StaleOK /\ ProcessesOK /\ OneHolder /\ ReportsOK

\* A step of p leaves the other invocations alone, and what they hold.
Frame(p) ==
  /\ changed' = changed /\ stale'[p] \subseteq changed
  /\ \A q \in Executions \ {p} :
       /\ pc'[q] = pc[q] /\ inv'[q] = inv[q] /\ exit'[q] = exit[q] /\ helper'[q] = helper[q]
       /\ stale'[q] \subseteq stale[q]
       /\ Holds(pc[q], exit[q]) => /\ claims'[Id(q)] = claims[Id(q)]
                                   /\ captures'[Id(q)] = captures[Id(q)]
-----------------------------------------------------------------------------
(* Role executions: lemmas.                                                *)

\* The order in which the inputs are read names all of them.
LEMMA OrderCovers ==
  ASSUME NEW req
  PROVE  \A k \in Pinned(req) : \E n \in 1 .. Len(Order) : Order[n] = k
<1>1. Len(Order) = 6
  BY DEF Order
<1>2. /\ Order[1] = "manifest" /\ Order[2] = "prompt" /\ Order[3] = "policy"
      /\ Order[4] = "executable" /\ Order[5] = "tools" /\ Order[6] = "gate"
  BY DEF Order
<1>3. Pinned(req) \subseteq {"manifest", "policy", "executable", "tools", "prompt", "gate"}
  BY DEF Pinned
<1> QED
  BY <1>1, <1>2, <1>3

\* An invocation that a step leaves alone stays as it should be.
LEMMA OthersKept ==
  ASSUME RoleTypeOK, ProcessesOK, NEW p \in Executions, Frame(p), NEW q \in Executions, q # p
  PROVE  ProcessOK(pc'[q], inv'[q], exit'[q], helper'[q], stale'[q], claims', captures')
<1>1. /\ pc'[q] = pc[q] /\ inv'[q] = inv[q] /\ exit'[q] = exit[q] /\ helper'[q] = helper[q]
      /\ stale'[q] \subseteq stale[q]
      /\ Holds(pc[q], exit[q]) => /\ claims'[Id(q)] = claims[Id(q)]
                                  /\ captures'[Id(q)] = captures[Id(q)]
  BY DEF Frame
<1>2. ProcessOK(pc[q], inv[q], exit[q], helper[q], stale[q], claims, captures)
  BY DEF ProcessesOK
<1>3. ChildOK(pc[q], exit[q], helper[q]) /\ BrokerOK(pc[q], inv[q], exit[q])
  BY <1>2 DEF ProcessOK
<1>4. CheckOK(pc[q], inv[q], stale'[q])
  BY <1>1, <1>2 DEF ProcessOK, CheckOK
<1>5. ClaimOK(pc[q], inv[q], exit[q], claims')
  BY <1>1, <1>2 DEF ProcessOK, ClaimOK, Id
<1>6. CaptureOK(pc[q], inv[q], exit[q], helper[q], captures')
  <2>1. exit[q] # "none" \/ pc[q] \in {"check", "broker", "start", "report"} => Holds(pc[q], exit[q])
    BY DEF Holds, Places, Before, Settled
  <2> QED
    BY <1>1, <1>2, <2>1 DEF ProcessOK, CaptureOK, Id
<1> QED
  BY <1>1, <1>3, <1>4, <1>5, <1>6 DEF ProcessOK

LEMMA AllKept ==
  ASSUME RoleTypeOK, ProcessesOK, NEW p \in Executions, Frame(p),
         ProcessOK(pc'[p], inv'[p], exit'[p], helper'[p], stale'[p], claims', captures')
  PROVE  ProcessesOK'
<1>1. \A q \in Executions \ {p} :
        ProcessOK(pc'[q], inv'[q], exit'[q], helper'[q], stale'[q], claims', captures')
  BY OthersKept
<1>2. \A q \in Executions :
        ProcessOK(pc'[q], inv'[q], exit'[q], helper'[q], stale'[q], claims', captures')
  BY <1>1
<1> QED
  BY <1>2 DEF ProcessesOK

\* Only who held already, or found the claim free, holds after a step.
LEMMA HolderKept ==
  ASSUME OneHolder, NEW p \in Executions, Frame(p),
         Holds(pc'[p], exit'[p]) =>
           /\ inv'[p].req.id = inv[p].req.id
           /\ \/ Holds(pc[p], exit[p])
              \/ \A q \in Executions \ {p} : Holds(pc[q], exit[q]) => Id(q) # Id(p)
  PROVE  OneHolder'
<1> SUFFICES ASSUME NEW q \in Executions, NEW r \in Executions,
                    Holds(pc'[q], exit'[q]), Holds(pc'[r], exit'[r]),
                    inv'[q].req.id = inv'[r].req.id
             PROVE  q = r
  BY DEF OneHolder, Id
<1>1. \A t \in Executions \ {p} : pc'[t] = pc[t] /\ inv'[t] = inv[t] /\ exit'[t] = exit[t]
  BY DEF Frame
<1>2. CASE q # p /\ r # p
  <2>1. Holds(pc[q], exit[q]) /\ Holds(pc[r], exit[r]) /\ inv[q].req.id = inv[r].req.id
    BY <1>1, <1>2
  <2> QED
    BY <2>1 DEF OneHolder, Id
<1>3. CASE q = p /\ r # p
  <2>1. Holds(pc[r], exit[r]) /\ inv[p].req.id = inv[r].req.id
    BY <1>1, <1>3
  <2> QED
    BY <1>3, <2>1 DEF OneHolder, Id
<1>4. CASE q # p /\ r = p
  <2>1. Holds(pc[q], exit[q]) /\ inv[q].req.id = inv[p].req.id
    BY <1>1, <1>4
  <2> QED
    BY <1>4, <2>1 DEF OneHolder, Id
<1> QED
  BY <1>2, <1>3, <1>4

\* A report stays what it is, and so does what it is about.
LEMMA ReportKept ==
  ASSUME NEW p \in Executions, NEW id \in ExecutionIds,
         pc[p] = "ended" /\ Id(p) = id /\ reports[id] = Report(p),
         ReportOK(inv[p], exit[p], helper[p], claims, captures),
         reports'[id] = reports[id],
         pc'[p] = pc[p] /\ inv'[p] = inv[p] /\ exit'[p] = exit[p] /\ helper'[p] = helper[p],
         claims'[Id(p)] = claims[Id(p)],
         captures'[Id(p)] = captures[Id(p)] \/ (helper[p] = "outside" /\ captures'[Id(p)] \in Nat)
  PROVE  /\ pc'[p] = "ended" /\ inv'[p].req.id = id /\ reports'[id] = Report(p)'
         /\ ReportOK(inv'[p], exit'[p], helper'[p], claims', captures')
<1>1. Report(p)' = Report(p)
  BY DEF Report, Status, ExitCode, ReportedBroker, Req
<1>2. ClaimOK("report", inv[p], exit[p], claims')
  BY DEF ReportOK, ClaimOK, Id
<1>3. CaptureOK("report", inv[p], exit[p], helper[p], captures')
  BY DEF ReportOK, CaptureOK, Id
<1> QED
  BY <1>1, <1>2, <1>3 DEF ReportOK, Id

LEMMA ReportsKept ==
  ASSUME ReportsOK, NEW p \in Executions, Frame(p), reports' = reports,
         pc[p] # "ended" \/ exit[p] = "running"
  PROVE  ReportsOK'
<1> SUFFICES ASSUME NEW id \in ExecutionIds, reports'[id] # None
             PROVE  \E q \in Executions :
                      /\ pc'[q] = "ended" /\ inv'[q].req.id = id /\ reports'[id] = Report(q)'
                      /\ ReportOK(inv'[q], exit'[q], helper'[q], claims', captures')
  BY DEF ReportsOK, Id
<1>1. PICK q \in Executions : /\ pc[q] = "ended" /\ Id(q) = id /\ reports[id] = Report(q)
                         /\ ReportOK(inv[q], exit[q], helper[q], claims, captures)
  BY DEF ReportsOK
<1>2. q # p
  BY <1>1 DEF ReportOK, ChildOK, Settled
<1>3. Holds(pc[q], exit[q])
  BY <1>1 DEF ReportOK, ChildOK, Settled, Holds
<1>4. /\ pc'[q] = pc[q] /\ inv'[q] = inv[q] /\ exit'[q] = exit[q] /\ helper'[q] = helper[q]
      /\ claims'[Id(q)] = claims[Id(q)] /\ captures'[Id(q)] = captures[Id(q)]
  BY <1>2, <1>3 DEF Frame
<1> QED
  BY <1>1, <1>4, ReportKept

-----------------------------------------------------------------------------
(* Role executions: one lemma for each action.                             *)

LEMMA Started ==
  ASSUME RoleTypeOK, NEW p \in Executions, pc[p] # "idle"
  PROVE  inv[p] \in Invocations /\ Req(p) \in Requests /\ Id(p) \in ExecutionIds
  BY RoleAssumption DEF RoleTypeOK, Invocations, Req, Id

LEMMA Holder ==
  ASSUME RoleInv, NEW p \in Executions, Holds(pc[p], exit[p])
  PROVE  /\ pc[p] # "idle" /\ inv[p] \in Invocations /\ Id(p) \in ExecutionIds
         /\ claims[Id(p)] # None
         /\ \A q \in Executions \ {p} : Holds(pc[q], exit[q]) => Id(q) # Id(p)
<1>1. ChildOK(pc[p], exit[p], helper[p]) /\ ClaimOK(pc[p], inv[p], exit[p], claims)
  BY DEF RoleInv, ProcessesOK, ProcessOK
<1>2. pc[p] # "idle"
  BY <1>1 DEF ChildOK, Holds, Before
<1> QED
  BY <1>1, <1>2, Started DEF RoleInv, OneHolder, ClaimOK, Id

\* After the step, p holds only if it held before or nobody held its ID.
StaysHolder(p) ==
  Holds(pc'[p], exit'[p]) =>
    /\ inv'[p].req.id = inv[p].req.id
    /\ Holds(pc[p], exit[p]) \/ \A q \in Executions \ {p} : Holds(pc[q], exit[q]) => Id(q) # Id(p)

\* What is left to show of a step that is not the publication of a report.
LEMMA StepKeeps ==
  ASSUME RoleInv, NEW p \in Executions, RoleTypeOK', Frame(p),
         ProcessOK(pc'[p], inv'[p], exit'[p], helper'[p], stale'[p], claims', captures'),
         StaysHolder(p), ReportsOK'
  PROVE  RoleInv'
<1>1. ProcessesOK'
  BY AllKept DEF RoleInv
<1>2. OneHolder'
  BY HolderKept DEF RoleInv, StaysHolder
<1>3. StaleOK'
  BY DEF RoleInv, StaleOK, Frame
<1> QED
  BY <1>1, <1>2, <1>3 DEF RoleInv

LEMMA PrepareKeeps ==
  ASSUME RoleInv, NEW p \in Executions, Prepare(p)
  PROVE  RoleInv'
<1>1. RoleTypeOK'
  <2>1. PICK req \in Requests : inv' = [inv EXCEPT ![p] = Invocation(req)]
    BY DEF Prepare
  <2>2. Invocation(req) \in Invocations
    BY DEF Invocation, Invocations, Brokers
  <2> QED
    BY <2>1, <2>2 DEF RoleInv, RoleTypeOK, Prepare, Step, inputVars, idFiles, childVars, Places, Before
<1>2. Frame(p)
  BY DEF RoleInv, RoleTypeOK, StaleOK, Frame, Prepare, Step, inputVars, idFiles, childVars,
      Invocation
<1>3. ProcessOK(pc'[p], inv'[p], exit'[p], helper'[p], stale'[p], claims', captures')
  BY DEF RoleInv, RoleTypeOK, Invocations, ProcessesOK, ProcessOK, ChildOK, BrokerOK,
      CheckOK, ClaimOK, CaptureOK, Holds, Prepare, Step, inputVars, idFiles, childVars,
      Invocation, Places, Before, Settled
<1>4. StaysHolder(p) /\ reports' = reports /\ pc[p] # "ended"
  BY DEF RoleInv, RoleTypeOK, ProcessesOK, ProcessOK, ChildOK, StaysHolder, Holds,
      Invocations, Prepare, Step, inputVars, idFiles, childVars, Invocation, Places,
      Before, Settled
<1>5. ReportsOK'
  BY <1>2, <1>4, ReportsKept DEF RoleInv
<1> QED
  BY <1>1, <1>2, <1>3, <1>4, <1>5, StepKeeps

LEMMA ClaimKeeps ==
  ASSUME RoleInv, NEW p \in Executions, Claim(p)
  PROVE  RoleInv'
<1>1. RoleTypeOK'
  BY DEF RoleInv, RoleTypeOK, Claim, Step, Refuse, Id, inputVars, childVars, Unclaimed,
      Places, Before, Settled, Endings, Invocations, Brokers
<1>0. \A q \in Executions \ {p} : Holds(pc[q], exit[q]) =>
        Id(q) \in ExecutionIds /\ claims[Id(q)] # None /\ claims'[Id(q)] = claims[Id(q)]
  <2>1. \A q \in Executions \ {p} :
          Holds(pc[q], exit[q]) => Id(q) \in ExecutionIds /\ claims[Id(q)] # None
    BY Holder
  <2>2. \/ claims' = claims
        \/ claims[Id(p)] = None /\ claims' = [claims EXCEPT ![Id(p)] = "empty"]
    BY DEF Claim, Unclaimed, Step, Refuse
  <2> QED
    BY <2>1, <2>2 DEF RoleInv, RoleTypeOK
<1>2. Frame(p)
  BY <1>0 DEF RoleInv, RoleTypeOK, StaleOK, Frame, Claim, Step, Refuse, inputVars, childVars
<1>3. ProcessOK(pc'[p], inv'[p], exit'[p], helper'[p], stale'[p], claims', captures')
  <2>1. pc[p] = "claim" /\ inv[p] \in Invocations /\ Id(p) \in ExecutionIds
    BY Started DEF RoleInv, Claim, Step, Refuse
  <2>2. ProcessOK(pc[p], inv[p], exit[p], helper[p], stale[p], claims, captures)
    BY DEF RoleInv, ProcessesOK
  <2>3. /\ inv' = inv /\ exit' = exit /\ helper' = helper /\ captures' = captures
        /\ \/ pc'[p] = "claimed" /\ claims'[Id(p)] = "empty"
           \/ pc'[p] = "ended"
    BY <2>1 DEF RoleInv, RoleTypeOK, Claim, Step, Refuse, childVars
  <2> QED
    BY RoleAssumption, <2>1, <2>2, <2>3
       DEF ProcessOK, ChildOK, BrokerOK, CheckOK, ClaimOK, CaptureOK, Holds, Id, Places, Before, Settled
<1>4. StaysHolder(p) /\ pc[p] # "ended" /\ reports' = reports
  <2>1. CASE claims[Id(p)] = None
    BY <1>0, <2>1 DEF RoleInv, RoleTypeOK, StaysHolder, Claim, Step, Refuse
  <2>2. CASE claims[Id(p)] # None
    BY <2>2 DEF RoleInv, RoleTypeOK, ProcessesOK, ProcessOK, ChildOK, StaysHolder, Holds, Claim,
        Unclaimed, Step, Refuse, childVars, Places, Before
  <2> QED
    BY <2>1, <2>2
<1>5. ReportsOK'
  BY <1>2, <1>4, ReportsKept DEF RoleInv
<1> QED
  BY <1>1, <1>2, <1>3, <1>4, <1>5, StepKeeps

LEMMA WriteClaimKeeps ==
  ASSUME RoleInv, NEW p \in Executions, WriteClaim(p)
  PROVE  RoleInv'
<1>1. RoleTypeOK'
  BY DEF RoleInv, RoleTypeOK, WriteClaim, Step, Req, Id, inputVars, childVars, Places,
      Before, Settled, Endings, Invocations, Brokers
<1>2. Frame(p)
  BY DEF RoleInv, RoleTypeOK, StaleOK, Frame, WriteClaim, Step, Req, Id, inputVars,
      childVars, OneHolder, Holds, Places, Before, Settled
<1>3. ProcessOK(pc'[p], inv'[p], exit'[p], helper'[p], stale'[p], claims', captures')
  <2>1. pc[p] = "claimed" /\ inv[p] \in Invocations /\ Id(p) \in ExecutionIds /\ Req(p) \in Requests
    BY Started DEF RoleInv, WriteClaim, Step
  <2>2. ProcessOK(pc[p], inv[p], exit[p], helper[p], stale[p], claims, captures)
    BY DEF RoleInv, ProcessesOK
  <2>3. /\ inv' = inv /\ exit' = exit /\ helper' = helper /\ captures' = captures
        /\ stale' = stale /\ pc'[p] = "private" /\ claims'[Id(p)] = Req(p).executable
    BY <2>1 DEF RoleInv, RoleTypeOK, WriteClaim, Step, childVars
  <2> QED
    BY RoleAssumption, <2>1, <2>2, <2>3
       DEF ProcessOK, ChildOK, BrokerOK, CheckOK, ClaimOK, CaptureOK, Holds, Id, Req, Places, Before, Settled
<1>4. StaysHolder(p) /\ reports' = reports /\ pc[p] # "ended"
  BY DEF RoleInv, RoleTypeOK, ProcessesOK, ProcessOK, ChildOK, StaysHolder, Holds,
      Invocations, WriteClaim, Step, Req, Id, inputVars, childVars, Places, Before,
      Settled
<1>5. ReportsOK'
  BY <1>2, <1>4, ReportsKept DEF RoleInv
<1> QED
  BY <1>1, <1>2, <1>3, <1>4, <1>5, StepKeeps

LEMMA PrivateKeeps ==
  ASSUME RoleInv, NEW p \in Executions, Private(p)
  PROVE  RoleInv'
<1>1. RoleTypeOK'
  BY DEF RoleInv, RoleTypeOK, Private, Step, Refuse, Req, Id, inputVars, childVars, Places,
      Before, Settled, Endings, Invocations, Brokers
<1>2. Frame(p)
  BY DEF RoleInv, RoleTypeOK, StaleOK, Frame, Private, Step, Refuse, Req, Id, inputVars,
      childVars
<1>3. ProcessOK(pc'[p], inv'[p], exit'[p], helper'[p], stale'[p], claims', captures')
  BY DEF RoleInv, RoleTypeOK, Invocations, ProcessesOK, ProcessOK, ChildOK, BrokerOK,
      CheckOK, ClaimOK, CaptureOK, Holds, Private, Step, Refuse, Req, Id, inputVars,
      childVars, Places, Before, Settled
<1>4. StaysHolder(p) /\ reports' = reports /\ pc[p] # "ended"
  BY DEF RoleInv, RoleTypeOK, ProcessesOK, ProcessOK, ChildOK, StaysHolder, Holds,
      Invocations, Private, Step, Refuse, Req, Id, inputVars, childVars, Places,
      Before, Settled
<1>5. ReportsOK'
  BY <1>2, <1>4, ReportsKept DEF RoleInv
<1> QED
  BY <1>1, <1>2, <1>3, <1>4, <1>5, StepKeeps

LEMMA CaptureKeeps ==
  ASSUME RoleInv, NEW p \in Executions, Capture(p)
  PROVE  RoleInv'
<1>1. RoleTypeOK'
  BY DEF RoleInv, RoleTypeOK, Capture, Step, Refuse, Id, inputVars, childVars, Places,
      Before, Settled, Endings, Invocations, Brokers
<1>0. pc[p] = "capture" /\ Holds(pc[p], exit[p])
  BY DEF Holds, Capture, Step, Refuse, Places, Before
<1>2. Frame(p)
  <2>1. \A q \in Executions \ {p} : Holds(pc[q], exit[q]) => Id(q) \in ExecutionIds /\ Id(q) # Id(p)
    BY <1>0, Holder
  <2>2. \A id \in ExecutionIds \ {Id(p)} : captures'[id] = captures[id]
    BY DEF RoleInv, RoleTypeOK, Capture, Step, Refuse
  <2> QED
    BY <2>1, <2>2 DEF RoleInv, RoleTypeOK, StaleOK, Frame, Capture, Step, Refuse, inputVars, childVars
<1>3. ProcessOK(pc'[p], inv'[p], exit'[p], helper'[p], stale'[p], claims', captures')
  <2>1. inv[p] \in Invocations /\ Id(p) \in ExecutionIds
    BY <1>0, Started DEF RoleInv
  <2>2. ProcessOK(pc[p], inv[p], exit[p], helper[p], stale[p], claims, captures)
    BY DEF RoleInv, ProcessesOK
  <2>3. inv' = inv /\ exit' = exit /\ helper' = helper /\ stale' = stale /\ claims' = claims
    BY DEF Capture, Step, Refuse, childVars
  <2>4. \/ pc'[p] = "check" /\ captures'[Id(p)] = 0
        \/ pc'[p] = "ended"
    BY <2>1 DEF RoleInv, RoleTypeOK, Capture, Step, Refuse
  <2>5. inv[p].next \in Nat \ {0}
    BY <2>1 DEF Invocations
  <2> QED
    BY <1>0, <2>1, <2>2, <2>3, <2>4, <2>5 DEF ProcessOK, ChildOK, BrokerOK, CheckOK, ClaimOK,
        CaptureOK, Holds, Id, Places, Before, Settled
<1>4. StaysHolder(p) /\ reports' = reports /\ pc[p] # "ended"
  BY DEF RoleInv, RoleTypeOK, ProcessesOK, ProcessOK, ChildOK, StaysHolder, Holds,
      Invocations, Capture, Step, Refuse, Id, inputVars, childVars, Places, Before,
      Settled
<1>5. ReportsOK'
  BY <1>2, <1>4, ReportsKept DEF RoleInv
<1> QED
  BY <1>1, <1>2, <1>3, <1>4, <1>5, StepKeeps

LEMMA CheckKeeps ==
  ASSUME RoleInv, NEW p \in Executions, Check(p)
  PROVE  RoleInv'
<1>0. inv[p] \in Invocations /\ inv'[p] \in Invocations /\ inv' = [q \in Executions |-> inv'[q]]
  <2>1. pc[p] = "check" /\ inv[p] \in Invocations
    BY Started DEF RoleInv, Check
  <2>2. inv' = inv \/ inv' = [inv EXCEPT ![p].next = @ + 1]
    BY DEF Check, Refuse, Step
  <2>3. inv'[p] \in Invocations
    BY <2>1, <2>2 DEF RoleInv, RoleTypeOK, Invocations
  <2> QED
    BY <2>1, <2>2, <2>3 DEF RoleInv, RoleTypeOK
<1>1. RoleTypeOK'
  BY <1>0 DEF RoleInv, RoleTypeOK, Frame, Check, Step, Refuse, Req, inputVars, idFiles,
      childVars, LaunchChecks, Places, Before, Settled, Endings
<1>2. Frame(p)
  BY DEF RoleInv, RoleTypeOK, StaleOK, Frame, Check, Step, Refuse, Req, inputVars, idFiles,
      childVars, LaunchChecks
<1>3. ProcessOK(pc'[p], inv'[p], exit'[p], helper'[p], stale'[p], claims', captures')
  <2>1. pc[p] = "check" /\ inv[p].next \in Nat \ {0}
    BY <1>0 DEF Check, Invocations
  <2>2. ProcessOK(pc[p], inv[p], exit[p], helper[p], stale[p], claims, captures)
    BY DEF RoleInv, ProcessesOK
  <2>3. exit' = exit /\ helper' = helper /\ stale' = stale /\ claims' = claims /\ captures' = captures
    BY DEF Check, childVars, idFiles
  <2>4. CASE inv' = inv /\ pc'[p] = "ended"
    BY <2>1, <2>2, <2>3, <2>4 DEF ProcessOK, ChildOK, BrokerOK, CheckOK, ClaimOK, CaptureOK,
        Holds, Places, Before, Settled
  <2>5. CASE /\ inv' = inv /\ inv[p].next > Len(Order)
             /\ pc'[p] = IF Req(p).broker THEN "broker" ELSE "start"
    <3>1. \A n \in 1 .. Len(Order) : Order[n] \in Pinned(Req(p)) => Order[n] \notin stale[p]
      <4>1. Len(Order) \in Nat
        BY DEF Order
      <4> QED
        BY <2>1, <2>2, <2>5, <4>1 DEF ProcessOK, CheckOK, Req
    <3>2. stale[p] \intersect Pinned(Req(p)) = {}
      BY <3>1, OrderCovers
    <3>3. Req(p).broker \in BOOLEAN
      BY RoleAssumption, <1>0 DEF Invocations, Req
    <3> QED
      BY <2>1, <2>2, <2>3, <2>5, <3>2, <3>3 DEF ProcessOK, ChildOK, BrokerOK, CheckOK, ClaimOK,
          CaptureOK, Holds, Req, Places, Before, Settled
  <2>6. CASE /\ pc'[p] = "check" /\ inv' = [inv EXCEPT ![p].next = @ + 1]
             /\ ~(Order[inv[p].next] \in LaunchChecks(Req(p)) \intersect changed)
    <3>1. /\ inv'[p].next = inv[p].next + 1 /\ inv'[p].req = inv[p].req
          /\ inv'[p].broker = inv[p].broker
      BY <1>0, <2>6 DEF RoleInv, RoleTypeOK, Invocations
    <3>2. Order[inv[p].next] \in Pinned(inv[p].req) => Order[inv[p].next] \notin stale[p]
      BY <2>6 DEF LaunchChecks, Req, RoleInv, StaleOK
    <3>3. CheckOK("check", inv'[p], stale[p])
      <4>1. Len(Order) \in Nat
        BY DEF Order
      <4> QED
        BY <2>1, <2>2, <3>1, <3>2, <4>1 DEF ProcessOK, CheckOK
    <3> QED
      BY <2>1, <2>2, <2>3, <2>6, <3>1, <3>3 DEF ProcessOK, ChildOK, BrokerOK, ClaimOK,
          CaptureOK, Holds, Places, Before, Settled
  <2> QED
    BY <2>4, <2>5, <2>6 DEF Check, Step, Refuse, RoleInv, RoleTypeOK
<1>4. StaysHolder(p) /\ reports' = reports /\ pc[p] # "ended"
  <2>1. pc[p] = "check" /\ Holds(pc[p], exit[p])
    BY DEF Check, Holds, Places, Before
  <2>2. inv'[p].req = inv[p].req
    BY <1>0 DEF RoleInv, RoleTypeOK, Check, Refuse, Step, Invocations
  <2> QED
    BY <2>1, <2>2 DEF StaysHolder, Check, idFiles
<1>5. ReportsOK'
  BY <1>2, <1>4, ReportsKept DEF RoleInv
<1> QED
  BY <1>1, <1>2, <1>3, <1>4, <1>5, StepKeeps

LEMMA BrokerKeeps ==
  ASSUME RoleInv, NEW p \in Executions, Broker(p)
  PROVE  RoleInv'
<1>0. inv[p] \in Invocations /\ inv'[p] \in Invocations /\ inv' = [q \in Executions |-> inv'[q]]
  <2>1. inv[p] \in Invocations
    BY Started DEF RoleInv, Broker, Step
  <2>2. PICK outcome \in {"unavailable", "mismatched", "open"} :
          inv' = [inv EXCEPT ![p].broker = outcome]
    BY DEF Broker
  <2>3. inv'[p] \in Invocations
    BY <2>1, <2>2 DEF RoleInv, RoleTypeOK, Invocations, Brokers
  <2> QED
    BY <2>1, <2>2, <2>3 DEF RoleInv, RoleTypeOK
<1>1. RoleTypeOK'
  BY <1>0 DEF RoleInv, RoleTypeOK, Frame, Broker, Step, inputVars, idFiles, Places, Before,
      Settled, Endings
<1>2. Frame(p)
  BY DEF RoleInv, RoleTypeOK, StaleOK, Frame, Broker, Step, inputVars, idFiles
<1>3. ProcessOK(pc'[p], inv'[p], exit'[p], helper'[p], stale'[p], claims', captures')
  BY DEF RoleInv, RoleTypeOK, Invocations, ProcessesOK, ProcessOK, ChildOK, BrokerOK,
      CheckOK, ClaimOK, CaptureOK, Holds, Broker, Step, inputVars, idFiles, Places,
      Before, Settled, Endings
<1>4. StaysHolder(p) /\ reports' = reports /\ pc[p] # "ended"
  BY DEF RoleInv, RoleTypeOK, ProcessesOK, ProcessOK, ChildOK, StaysHolder, Holds,
      Invocations, Broker, Step, inputVars, idFiles, Places, Before, Settled
<1>5. ReportsOK'
  BY <1>2, <1>4, ReportsKept DEF RoleInv
<1> QED
  BY <1>1, <1>2, <1>3, <1>4, <1>5, StepKeeps

LEMMA StartKeeps ==
  ASSUME RoleInv, NEW p \in Executions, Start(p)
  PROVE  RoleInv'
<1>1. RoleTypeOK'
  BY DEF RoleInv, RoleTypeOK, Start, Step, inputVars, idFiles, Places, Before, Settled,
      Endings, Invocations, Brokers
<1>2. Frame(p)
  BY DEF RoleInv, RoleTypeOK, StaleOK, Frame, Start, Step, inputVars, idFiles
<1>3. ProcessOK(pc'[p], inv'[p], exit'[p], helper'[p], stale'[p], claims', captures')
  BY DEF RoleInv, RoleTypeOK, Invocations, ProcessesOK, ProcessOK, ChildOK, BrokerOK,
      CheckOK, ClaimOK, CaptureOK, Holds, Start, Step, inputVars, idFiles, Places,
      Before, Settled, Endings
<1>4. StaysHolder(p) /\ reports' = reports /\ pc[p] # "ended"
  BY DEF RoleInv, RoleTypeOK, ProcessesOK, ProcessOK, ChildOK, StaysHolder, Holds,
      Invocations, Start, Step, inputVars, idFiles, Places, Before, Settled
<1>5. ReportsOK'
  BY <1>2, <1>4, ReportsKept DEF RoleInv
<1> QED
  BY <1>1, <1>2, <1>3, <1>4, <1>5, StepKeeps

LEMMA InterruptKeeps ==
  ASSUME RoleInv, NEW p \in Executions, Interrupt(p)
  PROVE  RoleInv'
<1>0. inv[p] \in Invocations /\ inv'[p] \in Invocations /\ inv' = [q \in Executions |-> inv'[q]]
  <2>1. inv[p] \in Invocations
    BY DEF RoleInv, RoleTypeOK, Interrupt
  <2> QED
    BY <2>1 DEF RoleInv, RoleTypeOK, Invocations, Brokers, Interrupt
<1>1. RoleTypeOK'
  BY <1>0 DEF RoleInv, RoleTypeOK, Frame, Interrupt, inputVars, idFiles, childVars, Places,
      Before, Settled, Endings
<1>2. Frame(p)
  BY DEF RoleInv, RoleTypeOK, StaleOK, Frame, Interrupt, inputVars, idFiles, childVars
<1>3. ProcessOK(pc'[p], inv'[p], exit'[p], helper'[p], stale'[p], claims', captures')
  BY DEF RoleInv, RoleTypeOK, Invocations, ProcessesOK, ProcessOK, ChildOK, BrokerOK,
      CheckOK, ClaimOK, CaptureOK, Holds, Interrupt, inputVars, idFiles, childVars,
      Places, Before, Settled
<1>4. StaysHolder(p) /\ reports' = reports /\ pc[p] # "ended"
  BY DEF RoleInv, RoleTypeOK, ProcessesOK, ProcessOK, ChildOK, StaysHolder, Holds,
      Invocations, Interrupt, inputVars, idFiles, childVars, Places, Before, Settled
<1>5. ReportsOK'
  BY <1>2, <1>4, ReportsKept DEF RoleInv
<1> QED
  BY <1>1, <1>2, <1>3, <1>4, <1>5, StepKeeps

LEMMA KillAfterKeeps ==
  ASSUME RoleInv, NEW p \in Executions, KillAfter(p)
  PROVE  RoleInv'
<1>1. RoleTypeOK'
  BY DEF RoleInv, RoleTypeOK, KillAfter, inputVars, idFiles, HelperLeft, Places, Before,
      Settled, Endings, Invocations, Brokers
<1>2. Frame(p)
  BY DEF RoleInv, RoleTypeOK, StaleOK, Frame, KillAfter, inputVars, idFiles, HelperLeft
<1>3. ProcessOK(pc'[p], inv'[p], exit'[p], helper'[p], stale'[p], claims', captures')
  BY DEF RoleInv, RoleTypeOK, Invocations, ProcessesOK, ProcessOK, ChildOK, BrokerOK,
      CheckOK, ClaimOK, CaptureOK, Holds, KillAfter, inputVars, idFiles, HelperLeft,
      Places, Before, Settled, Endings
<1>4. StaysHolder(p) /\ reports' = reports /\ pc[p] # "ended"
  BY DEF RoleInv, RoleTypeOK, ProcessesOK, ProcessOK, ChildOK, StaysHolder, Holds,
      Invocations, KillAfter, inputVars, idFiles, HelperLeft, Places, Before, Settled
<1>5. ReportsOK'
  BY <1>2, <1>4, ReportsKept DEF RoleInv
<1> QED
  BY <1>1, <1>2, <1>3, <1>4, <1>5, StepKeeps

LEMMA DoneKeeps ==
  ASSUME RoleInv, NEW p \in Executions, Done(p)
  PROVE  RoleInv'
<1>0. inv[p] \in Invocations /\ inv'[p] \in Invocations /\ inv' = [q \in Executions |-> inv'[q]]
  <2>1. inv[p] \in Invocations
    BY Started DEF RoleInv, Done, Step
  <2>2. PICK told \in BOOLEAN : inv' = [inv EXCEPT ![p].told = told]
    BY DEF Done
  <2>3. inv'[p] \in Invocations
    BY <2>1, <2>2 DEF RoleInv, RoleTypeOK, Invocations
  <2> QED
    BY <2>1, <2>2, <2>3 DEF RoleInv, RoleTypeOK
<1>1. RoleTypeOK'
  BY <1>0 DEF RoleInv, RoleTypeOK, Frame, Done, Step, inputVars, idFiles, HelperLeft, Places,
      Before, Settled, Endings
<1>2. Frame(p)
  BY DEF RoleInv, RoleTypeOK, StaleOK, Frame, Done, Step, inputVars, idFiles, HelperLeft
<1>3. ProcessOK(pc'[p], inv'[p], exit'[p], helper'[p], stale'[p], claims', captures')
  BY DEF RoleInv, RoleTypeOK, Invocations, ProcessesOK, ProcessOK, ChildOK, BrokerOK,
      CheckOK, ClaimOK, CaptureOK, Holds, Done, Step, inputVars, idFiles, HelperLeft,
      Places, Before, Settled, Endings
<1>4. StaysHolder(p) /\ reports' = reports /\ pc[p] # "ended"
  BY DEF RoleInv, RoleTypeOK, ProcessesOK, ProcessOK, ChildOK, StaysHolder, Holds,
      Invocations, Done, Step, inputVars, idFiles, HelperLeft, Places, Before, Settled
<1>5. ReportsOK'
  BY <1>2, <1>4, ReportsKept DEF RoleInv
<1> QED
  BY <1>1, <1>2, <1>3, <1>4, <1>5, StepKeeps

LEMMA DrainKeeps ==
  ASSUME RoleInv, NEW p \in Executions, Drain(p)
  PROVE  RoleInv'
<1>0. inv[p] \in Invocations /\ inv'[p] \in Invocations /\ inv' = [q \in Executions |-> inv'[q]]
  <2>1. inv[p] \in Invocations
    BY DEF RoleInv, RoleTypeOK, Drain, Step
  <2> QED
    BY <2>1 DEF RoleInv, RoleTypeOK, Invocations, Brokers, Drain, Step
<1>1. RoleTypeOK'
  BY <1>0 DEF RoleInv, RoleTypeOK, Frame, Drain, Step, inputVars, idFiles, childVars, Places,
      Before, Settled, Endings
<1>2. Frame(p)
  BY DEF RoleInv, RoleTypeOK, StaleOK, Frame, Drain, Step, inputVars, idFiles, childVars
<1>3. ProcessOK(pc'[p], inv'[p], exit'[p], helper'[p], stale'[p], claims', captures')
  <2>1. pc[p] = "drain" /\ pc'[p] = "digest"
    BY DEF RoleInv, RoleTypeOK, Drain, Step
  <2>2. ProcessOK(pc[p], inv[p], exit[p], helper[p], stale[p], claims, captures)
    BY DEF RoleInv, ProcessesOK
  <2>3. /\ exit' = exit /\ helper' = helper /\ stale' = stale /\ claims' = claims
        /\ captures' = captures
    BY DEF Drain, childVars, idFiles
  <2>4. /\ inv'[p].req = inv[p].req
        /\ \/ inv[p].broker \in {"none", "unavailable"} /\ inv'[p].broker = inv[p].broker
           \/ inv[p].broker = "open" /\ inv'[p].broker = "closed"
           \/ inv[p].broker = "mismatched" /\ inv'[p].broker = "indeterminate"
           \/ inv[p].broker \in {"open", "mismatched"} /\ inv'[p].broker = "undrained"
    BY <1>0 DEF RoleInv, RoleTypeOK, Drain, Invocations
  <2>5. BrokerOK("digest", inv'[p], exit[p])
    BY <2>1, <2>2, <2>4 DEF ProcessOK, BrokerOK, Before
  <2>6. ClaimOK("digest", inv'[p], exit[p], claims)
    BY <2>1, <2>2, <2>4 DEF ProcessOK, ClaimOK, Holds, Places, Settled
  <2> QED
    BY <2>1, <2>2, <2>3, <2>4, <2>5, <2>6 DEF ProcessOK, ChildOK, CheckOK, CaptureOK, Before,
        Settled
<1>4. StaysHolder(p) /\ reports' = reports /\ pc[p] # "ended"
  BY DEF RoleInv, RoleTypeOK, ProcessesOK, ProcessOK, ChildOK, StaysHolder, Holds,
      Invocations, Drain, Step, inputVars, idFiles, childVars, Places, Before, Settled
<1>5. ReportsOK'
  BY <1>2, <1>4, ReportsKept DEF RoleInv
<1> QED
  BY <1>1, <1>2, <1>3, <1>4, <1>5, StepKeeps

LEMMA DigestKeeps ==
  ASSUME RoleInv, NEW p \in Executions, Digest(p)
  PROVE  RoleInv'
<1>0. inv[p] \in Invocations /\ inv'[p] \in Invocations /\ inv' = [q \in Executions |-> inv'[q]]
  <2>1. inv[p] \in Invocations /\ Id(p) \in ExecutionIds
    BY Started DEF RoleInv, Digest, Step
  <2>2. PICK digest \in {captures[Id(p)], None}, failed \in BOOLEAN :
          inv' = [inv EXCEPT ![p].capture = [digest |-> digest, failed |-> failed]]
    BY DEF Digest
  <2>3. [digest |-> digest, failed |-> failed] \in [digest : Nat \union {None}, failed : BOOLEAN]
    BY <2>1 DEF RoleInv, RoleTypeOK
  <2>4. inv'[p] \in Invocations
    BY <2>1, <2>2, <2>3 DEF RoleInv, RoleTypeOK, Invocations
  <2> QED
    BY <2>1, <2>2, <2>4 DEF RoleInv, RoleTypeOK
<1>1. RoleTypeOK'
  BY <1>0 DEF RoleInv, RoleTypeOK, Frame, Digest, Step, Id, inputVars, idFiles, childVars,
      Places, Before, Settled, Endings
<1>2. Frame(p)
  BY DEF RoleInv, RoleTypeOK, StaleOK, Frame, Digest, Step, Id, inputVars, idFiles, childVars
<1>3. ProcessOK(pc'[p], inv'[p], exit'[p], helper'[p], stale'[p], claims', captures')
  BY DEF RoleInv, RoleTypeOK, Invocations, ProcessesOK, ProcessOK, ChildOK, BrokerOK,
      CheckOK, ClaimOK, CaptureOK, Holds, Digest, Step, Id, inputVars, idFiles,
      childVars, Places, Before, Settled
<1>4. StaysHolder(p) /\ reports' = reports /\ pc[p] # "ended"
  BY DEF RoleInv, RoleTypeOK, ProcessesOK, ProcessOK, ChildOK, StaysHolder, Holds,
      Invocations, Digest, Step, Id, inputVars, idFiles, childVars, Places, Before,
      Settled
<1>5. ReportsOK'
  BY <1>2, <1>4, ReportsKept DEF RoleInv
<1> QED
  BY <1>1, <1>2, <1>3, <1>4, <1>5, StepKeeps

LEMMA PublishKeeps ==
  ASSUME RoleInv, NEW p \in Executions, Publish(p)
  PROVE  RoleInv'
<1>1. RoleTypeOK'
  BY DEF RoleInv, RoleTypeOK, Publish, Step, Id, inputVars, childVars, Places, Before,
      Settled, Endings, Invocations, Brokers
<1>2. Frame(p)
  BY DEF RoleInv, RoleTypeOK, StaleOK, Frame, Publish, Step, Id, inputVars, childVars
<1>3. ProcessOK(pc'[p], inv'[p], exit'[p], helper'[p], stale'[p], claims', captures')
  BY DEF RoleInv, RoleTypeOK, Invocations, ProcessesOK, ProcessOK, ChildOK, BrokerOK,
      CheckOK, ClaimOK, CaptureOK, Holds, Publish, Step, Id, inputVars, childVars,
      Places, Before, Settled
<1>4. StaysHolder(p)
  BY DEF RoleInv, RoleTypeOK, StaysHolder, Holds, Publish, Step, childVars, Places, Before, Settled
<1>5. ReportsOK'
  <2>1. CASE reports' = reports
    <3>1. pc[p] # "ended"
      BY DEF Publish, Step
    <3> QED
      BY <1>2, <2>1, <3>1, ReportsKept DEF RoleInv
  <2>2. CASE reports' = [reports EXCEPT ![Id(p)] = Report(p)]
    <3>1. /\ pc[p] = "report" /\ pc'[p] = "ended" /\ inv' = inv /\ exit' = exit
          /\ helper' = helper /\ claims' = claims /\ captures' = captures
      BY DEF RoleInv, RoleTypeOK, Publish, Step, childVars
    <3>2. ReportOK(inv[p], exit[p], helper[p], claims, captures)
      BY <3>1 DEF RoleInv, ProcessesOK, ProcessOK, ReportOK
    <3>3. Report(p)' = Report(p)
      BY <3>1 DEF Report, Status, ExitCode, ReportedBroker, Req
    <3>4. Id(p) \in ExecutionIds
      BY <3>1, Started DEF RoleInv
    <3> SUFFICES ASSUME NEW id \in ExecutionIds, reports'[id] # None
                 PROVE  \E q \in Executions :
                          /\ pc'[q] = "ended" /\ inv'[q].req.id = id /\ reports'[id] = Report(q)'
                          /\ ReportOK(inv'[q], exit'[q], helper'[q], claims', captures')
      BY DEF ReportsOK, Id
    <3>5. CASE id = Id(p)
      <4>1. reports'[id] = Report(p)
        BY <2>2, <3>4, <3>5 DEF RoleInv, RoleTypeOK
      <4> QED
        BY <3>1, <3>2, <3>3, <3>5, <4>1 DEF Id
    <3>6. CASE id # Id(p)
      <4>1. reports'[id] = reports[id]
        BY <2>2, <3>4, <3>6 DEF RoleInv, RoleTypeOK
      <4>2. PICK q \in Executions : /\ pc[q] = "ended" /\ Id(q) = id /\ reports[id] = Report(q)
                               /\ ReportOK(inv[q], exit[q], helper[q], claims, captures)
        BY <4>1 DEF RoleInv, ReportsOK
      <4>3. pc'[q] = pc[q]
        BY <1>2, <3>1, <4>2 DEF Frame
      <4> QED
        BY <3>1, <4>1, <4>2, <4>3, ReportKept
    <3> QED
      BY <3>5, <3>6
  <2> QED
    BY <2>1, <2>2 DEF Publish, Step
<1> QED
  BY <1>1, <1>2, <1>3, <1>4, <1>5, StepKeeps

LEMMA DieKeeps ==
  ASSUME RoleInv, NEW p \in Executions, Die(p)
  PROVE  RoleInv'
<1>1. RoleTypeOK'
  BY DEF RoleInv, RoleTypeOK, Die, inputVars, idFiles, childVars, Serving, Places, Before,
      Settled, Endings, Invocations, Brokers
<1>2. Frame(p)
  BY DEF RoleInv, RoleTypeOK, StaleOK, Frame, Die, inputVars, idFiles, childVars, Serving
<1>3. ProcessOK(pc'[p], inv'[p], exit'[p], helper'[p], stale'[p], claims', captures')
  BY DEF RoleInv, RoleTypeOK, Invocations, ProcessesOK, ProcessOK, ChildOK, BrokerOK,
      CheckOK, ClaimOK, CaptureOK, Holds, Die, inputVars, idFiles, childVars, Serving,
      Places, Before, Settled
<1>4. StaysHolder(p) /\ reports' = reports /\ pc[p] # "ended"
  BY DEF RoleInv, RoleTypeOK, ProcessesOK, ProcessOK, ChildOK, StaysHolder, Holds,
      Invocations, Die, inputVars, idFiles, childVars, Serving, Places, Before, Settled
<1>5. ReportsOK'
  BY <1>2, <1>4, ReportsKept DEF RoleInv
<1> QED
  BY <1>1, <1>2, <1>3, <1>4, <1>5, StepKeeps

LEMMA ForkKeeps ==
  ASSUME RoleInv, NEW p \in Executions, Fork(p)
  PROVE  RoleInv'
<1>1. RoleTypeOK'
  BY DEF RoleInv, RoleTypeOK, Fork, inputVars, idFiles, Places, Before, Settled, Endings,
      Invocations, Brokers
<1>2. Frame(p)
  BY DEF RoleInv, RoleTypeOK, StaleOK, Frame, Fork, inputVars, idFiles
<1>3. ProcessOK(pc'[p], inv'[p], exit'[p], helper'[p], stale'[p], claims', captures')
  BY DEF RoleInv, RoleTypeOK, Invocations, ProcessesOK, ProcessOK, ChildOK, BrokerOK,
      CheckOK, ClaimOK, CaptureOK, Holds, Fork, inputVars, idFiles, Places, Before,
      Settled
<1>4. StaysHolder(p) /\ reports' = reports /\ exit[p] = "running"
  BY DEF RoleInv, RoleTypeOK, ProcessesOK, ProcessOK, ChildOK, StaysHolder, Holds,
      Invocations, Fork, inputVars, idFiles, Places, Before, Settled
<1>5. ReportsOK'
  BY <1>2, <1>4, ReportsKept DEF RoleInv
<1> QED
  BY <1>1, <1>2, <1>3, <1>4, <1>5, StepKeeps

LEMMA WriteKeeps ==
  ASSUME RoleInv, NEW p \in Executions, Write(p)
  PROVE  RoleInv'
<1>0. /\ Holds(pc[p], exit[p]) /\ Id(p) \in ExecutionIds /\ captures[Id(p)] \in Nat
      /\ captures' = [captures EXCEPT ![Id(p)] = captures[Id(p)] + 1]
      /\ \A q \in Executions \ {p} : Holds(pc[q], exit[q]) => Id(q) \in ExecutionIds /\ Id(q) # Id(p)
  <2>1. ProcessOK(pc[p], inv[p], exit[p], helper[p], stale[p], claims, captures)
    BY DEF RoleInv, ProcessesOK
  <2>2. exit[p] # "none"
    BY <2>1 DEF ProcessOK, ChildOK, Write, Alive
  <2>3. Holds(pc[p], exit[p])
    BY <2>2 DEF Holds
  <2>4. captures[Id(p)] \in Nat
    BY <2>1, <2>2 DEF ProcessOK, CaptureOK, Id
  <2> QED
    BY <2>3, <2>4, Holder DEF Write
<1>1. RoleTypeOK'
  BY <1>0 DEF RoleInv, RoleTypeOK, Write, inputVars, childVars
<1>2. Frame(p)
  BY <1>0 DEF RoleInv, RoleTypeOK, StaleOK, Frame, Write, inputVars, childVars
<1>3. ProcessOK(pc'[p], inv'[p], exit'[p], helper'[p], stale'[p], claims', captures')
  <2>1. ProcessOK(pc[p], inv[p], exit[p], helper[p], stale[p], claims, captures)
    BY DEF RoleInv, ProcessesOK
  <2>2. captures'[Id(p)] \in Nat
    BY <1>0 DEF RoleInv, RoleTypeOK
  <2>3. /\ pc' = pc /\ inv' = inv /\ exit' = exit /\ helper' = helper /\ stale' = stale
        /\ claims' = claims
    BY DEF Write, childVars
  <2>4. pc[p] = "report" => helper[p] = "outside"
    BY <2>1 DEF ProcessOK, ChildOK, Settled, Write, Alive, RoleInv, RoleTypeOK
  <2> QED
    BY <2>1, <2>2, <2>3, <2>4 DEF ProcessOK, CaptureOK, Id
<1>4. StaysHolder(p)
  BY <1>0 DEF StaysHolder, Write, childVars
<1>5. ReportsOK'
  <2> SUFFICES ASSUME NEW id \in ExecutionIds, reports'[id] # None
               PROVE  \E q \in Executions :
                        /\ pc'[q] = "ended" /\ inv'[q].req.id = id /\ reports'[id] = Report(q)'
                        /\ ReportOK(inv'[q], exit'[q], helper'[q], claims', captures')
    BY DEF ReportsOK, Id
  <2>1. /\ pc' = pc /\ inv' = inv /\ exit' = exit /\ helper' = helper /\ claims' = claims
        /\ reports' = reports
    BY DEF Write, childVars
  <2>2. PICK q \in Executions : /\ pc[q] = "ended" /\ Id(q) = id /\ reports[id] = Report(q)
                           /\ ReportOK(inv[q], exit[q], helper[q], claims, captures)
    BY <2>1 DEF RoleInv, ReportsOK
  <2>3. ChildOK("report", exit[q], helper[q])
    BY <2>2 DEF ReportOK
  <2>4. \/ captures'[Id(q)] = captures[Id(q)]
        \/ helper[q] = "outside" /\ captures'[Id(q)] \in Nat
    <3>1. CASE q = p
      BY <1>0, <2>3, <3>1 DEF RoleInv, RoleTypeOK, Write, Alive, ChildOK, Settled
    <3>2. CASE q # p
      <4>1. Holds(pc[q], exit[q])
        BY <2>3 DEF Holds, ChildOK, Settled
      <4> QED
        BY <1>2, <3>2, <4>1 DEF Frame
    <3> QED
      BY <3>1, <3>2
  <2> QED
    BY <2>1, <2>2, <2>4, ReportKept
<1> QED
  BY <1>1, <1>2, <1>3, <1>4, <1>5, StepKeeps

LEMMA ExitsKeeps ==
  ASSUME RoleInv, NEW p \in Executions, Exits(p)
  PROVE  RoleInv'
<1>1. RoleTypeOK'
  BY DEF RoleInv, RoleTypeOK, Exits, inputVars, idFiles, Places, Before, Settled, Endings,
      Invocations, Brokers
<1>2. Frame(p)
  BY DEF RoleInv, RoleTypeOK, StaleOK, Frame, Exits, inputVars, idFiles
<1>3. ProcessOK(pc'[p], inv'[p], exit'[p], helper'[p], stale'[p], claims', captures')
  BY DEF RoleInv, RoleTypeOK, Invocations, ProcessesOK, ProcessOK, ChildOK, BrokerOK,
      CheckOK, ClaimOK, CaptureOK, Holds, Exits, inputVars, idFiles, Places, Before,
      Settled, Endings
<1>4. StaysHolder(p) /\ reports' = reports /\ exit[p] = "running"
  BY DEF RoleInv, RoleTypeOK, ProcessesOK, ProcessOK, ChildOK, StaysHolder, Holds,
      Invocations, Exits, inputVars, idFiles, Places, Before, Settled
<1>5. ReportsOK'
  BY <1>2, <1>4, ReportsKept DEF RoleInv
<1> QED
  BY <1>1, <1>2, <1>3, <1>4, <1>5, StepKeeps

\* Edits only take from what has been changed ever since a claim.
LEMMA EditKeeps ==
  ASSUME RoleInv, NEW k \in Editable, Edit(k)
  PROVE  RoleInv'
<1>1. /\ claims' = claims /\ captures' = captures /\ reports' = reports /\ pc' = pc
      /\ inv' = inv /\ exit' = exit /\ helper' = helper
  BY DEF Edit, idFiles, childVars
<1>2. RoleTypeOK'
  BY <1>1 DEF RoleInv, RoleTypeOK, Edit
<1>3. StaleOK' /\ \A p \in Executions : stale'[p] \subseteq stale[p]
  BY DEF RoleInv, RoleTypeOK, StaleOK, Edit
<1>4. ProcessesOK'
  <2> SUFFICES ASSUME NEW p \in Executions
               PROVE  ProcessOK(pc[p], inv[p], exit[p], helper[p], stale'[p], claims, captures)
    BY <1>1 DEF ProcessesOK
  <2> QED
    BY <1>3 DEF RoleInv, ProcessesOK, ProcessOK, CheckOK
<1>5. OneHolder'
  BY <1>1 DEF RoleInv, OneHolder, Id
<1>6. ReportsOK'
  <2> SUFFICES ASSUME NEW id \in ExecutionIds, reports'[id] # None
               PROVE  \E p \in Executions :
                        /\ pc'[p] = "ended" /\ inv'[p].req.id = id /\ reports'[id] = Report(p)'
                        /\ ReportOK(inv'[p], exit'[p], helper'[p], claims', captures')
    BY DEF ReportsOK, Id
  <2>1. PICK p \in Executions : /\ pc[p] = "ended" /\ Id(p) = id /\ reports[id] = Report(p)
                           /\ ReportOK(inv[p], exit[p], helper[p], claims, captures)
    BY <1>1 DEF RoleInv, ReportsOK
  <2> QED
    BY <1>1, <2>1, ReportKept
<1> QED
  BY <1>2, <1>3, <1>4, <1>5, <1>6 DEF RoleInv

-----------------------------------------------------------------------------
(* Role executions: theorems.                                              *)

\* The inductive invariant: children, brokers, claims and captures are where
\* their invocation is, one invocation holds an ID, and a published report is
\* still the one that its invocation would write (roleexec.go:573-788).
THEOREM RoleInvariant == RoleSpec => []RoleInv
<1>1. RoleInit => RoleInv
  <2> SUFFICES ASSUME RoleInit
               PROVE  RoleInv
    OBVIOUS
  <2>1. RoleTypeOK /\ StaleOK
    BY DEF RoleInit, RoleTypeOK, StaleOK, Places, Before
  <2>2. ProcessesOK
    BY DEF RoleInit, ProcessesOK, ProcessOK, ChildOK, BrokerOK, CheckOK, ClaimOK, CaptureOK, Holds,
        Places, Before, Settled
  <2>3. OneHolder /\ ReportsOK
    BY DEF RoleInit, OneHolder, Holds, ReportsOK
  <2> QED
    BY <2>1, <2>2, <2>3 DEF RoleInv
<1>2. RoleInv /\ [RoleNext]_roleVars => RoleInv'
  <2> SUFFICES ASSUME RoleInv, [RoleNext]_roleVars
               PROVE  RoleInv'
    OBVIOUS
  <2>1. CASE UNCHANGED roleVars
    <3>1. /\ changed' = changed /\ claims' = claims /\ scratch' = scratch /\ prompts' = prompts
          /\ captures' = captures /\ reports' = reports /\ pc' = pc /\ inv' = inv
          /\ exit' = exit /\ helper' = helper /\ stale' = stale /\ edits' = edits
      BY <2>1 DEF roleVars, inputVars, idFiles, childVars
    <3>2. RoleTypeOK' /\ StaleOK'
      BY <3>1 DEF RoleInv, RoleTypeOK, StaleOK
    <3>3. ProcessesOK' /\ OneHolder'
      BY <3>1 DEF RoleInv, ProcessesOK, OneHolder, Id, Req
    <3>4. ReportsOK'
      BY <3>1 DEF RoleInv, ReportsOK, Id, Report, Status, ExitCode, ReportedBroker, Req
    <3> QED
      BY <3>2, <3>3, <3>4 DEF RoleInv
  <2>2. ASSUME NEW p \in Executions,
               \/ Prepare(p) \/ Claim(p) \/ WriteClaim(p) \/ Private(p) \/ Capture(p) \/ Check(p)
               \/ Broker(p) \/ Start(p) \/ Interrupt(p) \/ KillAfter(p) \/ Done(p)
               \/ Drain(p) \/ Digest(p) \/ Publish(p) \/ Die(p)
               \/ Fork(p) \/ Write(p) \/ Exits(p)
        PROVE  RoleInv'
    BY <2>2, PrepareKeeps, ClaimKeeps, WriteClaimKeeps, PrivateKeeps, CaptureKeeps, CheckKeeps,
        BrokerKeeps, StartKeeps, InterruptKeeps, KillAfterKeeps, DoneKeeps, DrainKeeps,
        DigestKeeps, PublishKeeps, DieKeeps, ForkKeeps, WriteKeeps, ExitsKeeps
  <2>3. ASSUME NEW k \in Editable, Edit(k)
        PROVE  RoleInv'
    BY <2>3, EditKeeps
  <2> QED
    BY <2>1, <2>2, <2>3 DEF RoleNext
<1> QED
  BY <1>1, <1>2, PTL DEF RoleSpec

\* However many invocations share an ID and wherever they die, one child is
\* launched for it and a report tells how it ended (roleexec.go:585-778).
THEOREM RoleReports == RoleSpec => []ReportIsTrue
<1>1. RoleInv => ReportIsTrue
  <2> SUFFICES ASSUME RoleInv
               PROVE  ReportIsTrue
    OBVIOUS
  <2>1. ASSUME NEW p \in Executions, NEW q \in Executions, Launched(p), Launched(q), Id(p) = Id(q)
        PROVE  p = q
    BY <2>1 DEF RoleInv, OneHolder, Holds, Launched
  <2>2. ASSUME NEW id \in ExecutionIds, reports[id] # None
        PROVE  LET r == reports[id]
                   p == r.by IN
               /\ claims[id] = r.executable
               /\ exit[p] # "running" /\ helper[p] # "group" /\ ~Serving(p)
               /\ r.status = "completed" => exit[p] = "0" /\ ~inv[p].interrupted
               /\ r.status = "failed" => exit[p] # "0" \/ ~inv[p].told
    <3>1. PICK p \in Executions : /\ pc[p] = "ended" /\ Id(p) = id /\ reports[id] = Report(p)
                             /\ ReportOK(inv[p], exit[p], helper[p], claims, captures)
      BY <2>2 DEF RoleInv, ReportsOK
    <3>2. reports[id].by = p /\ reports[id].executable = Req(p).executable
      BY <3>1 DEF Report
    <3>3. claims[id] = Req(p).executable
      BY <3>1 DEF ReportOK, ClaimOK, Holds, Places, Before, Settled, Id, Req
    <3>4. exit[p] # "running" /\ helper[p] # "group" /\ ~Serving(p)
      BY <3>1 DEF ReportOK, ChildOK, BrokerOK, Settled, Serving
    <3>5. /\ reports[id].status = "completed" => exit[p] = "0" /\ ~inv[p].interrupted
          /\ reports[id].status = "failed" => exit[p] # "0" \/ ~inv[p].told
      BY <3>1 DEF Report, Status
    <3> QED
      BY <3>2, <3>3, <3>4, <3>5
  <2> QED
    BY <2>1, <2>2 DEF ReportIsTrue
<1> QED
  BY <1>1, RoleInvariant, PTL

\* Collectors accept every report that is published, its captures included,
\* unless Wait failed or a process that left the group writes on
\* (evidence.go:440-594).
THEOREM RoleVerifies == RoleSpec => []ReportVerifies
<1>1. RoleInv => ReportVerifies
  <2> SUFFICES ASSUME RoleInv, NEW id \in ExecutionIds, reports[id] # None,
                      helper[reports[id].by] # "outside",
                      inv[reports[id].by].told \/ reports[id].status = "indeterminate"
               PROVE  Accepted(id)
    BY DEF ReportVerifies
  <2>1. PICK p \in Executions : /\ pc[p] = "ended" /\ Id(p) = id /\ reports[id] = Report(p)
                           /\ ReportOK(inv[p], exit[p], helper[p], claims, captures)
    BY DEF RoleInv, ReportsOK
  <2> DEFINE r == reports[id]
  <2>2. /\ r.by = p /\ r.status = Status(p) /\ r.code = ExitCode(p)
        /\ r.unstarted = (exit[p] = "unstarted") /\ r.digest = inv[p].capture.digest
        /\ r.broker = ReportedBroker(p)
    BY <2>1 DEF Report
  <2>3. /\ inv[p] \in Invocations
        /\ exit[p] \in {"none", "unstarted", "running"} \union Endings
    BY <2>1 DEF RoleInv, RoleTypeOK
  <2>4. /\ exit[p] \notin {"none", "running"}
        /\ (inv[p].broker = "none") = ~inv[p].req.broker
        /\ inv[p].broker \in {"none", "unavailable", "closed", "indeterminate", "undrained"}
        /\ inv[p].broker \in {"unavailable", "indeterminate"} => exit[p] = "unstarted"
    BY <2>1 DEF ReportOK, ChildOK, BrokerOK, Settled
  <2>5. /\ inv[p].capture.digest = None => inv[p].capture.failed
        /\ inv[p].capture.digest # None => inv[p].capture.digest = captures[id]
    BY <2>1, <2>2 DEF ReportOK, CaptureOK, Id
  <2>6. inv[p].told \/ r.status = "indeterminate"
    BY <2>2
  <2>7. r.status # "indeterminate" => r.digest # None
    BY <2>2, <2>5 DEF Status
  <2>8. /\ r.status = "completed" => r.code = "0"
        /\ r.status = "failed" => r.code # "0" /\ (r.code = None => r.unstarted)
        /\ r.status = "canceled" => r.code # None
    BY RoleAssumption, <2>2, <2>3, <2>4, <2>6 DEF Status, ExitCode, Endings
  <2>9. BrokerAccepted(r, Req(r.by))
    BY <2>2, <2>3, <2>4 DEF BrokerAccepted, Status, ExitCode, ReportedBroker, Req
  <2> QED
    BY <2>2, <2>5, <2>7, <2>8, <2>9 DEF Accepted
<1> QED
  BY <1>1, RoleInvariant, PTL

\* A child is launched only if each of its inputs was, at some moment after the
\* ID was claimed, what had been pinned (roleexec.go:512, verifyLaunchInputs).
THEOREM RoleLaunch == RoleSpec => LaunchIsChecked
<1>1. RoleInv /\ [RoleNext]_roleVars =>
        [\A p \in Executions :
           (exit[p] = "none" /\ exit'[p] = "running") => stale[p] \intersect Pinned(Req(p)) = {}]_roleVars
  <2> SUFFICES ASSUME RoleInv, RoleNext, NEW p \in Executions, exit[p] = "none", exit'[p] = "running"
               PROVE  stale[p] \intersect Pinned(Req(p)) = {}
    OBVIOUS
  <2>1. Start(p)
    <3>1. PICK q \in Executions : Broker(q) \/ Start(q) \/ KillAfter(q) \/ Exits(q)
      BY DEF RoleNext, Prepare, Claim, WriteClaim, Private, Capture, Check, Interrupt, Done, Drain,
          Digest, Publish, Die, Fork, Write, Edit, childVars
    <3> QED
      BY <3>1 DEF Broker, Start, KillAfter, Exits, Step, RoleInv, RoleTypeOK
  <2>2. CheckOK("start", inv[p], stale[p])
    BY <2>1 DEF Start, Step, RoleInv, ProcessesOK, ProcessOK
  <2> QED
    BY <2>2 DEF CheckOK, Req
<1> QED
  BY <1>1, RoleInvariant, PTL DEF RoleSpec, LaunchIsChecked

-----------------------------------------------------------------------------
(* Receipts: types and growth.                                             *)

Files == Artifacts \union {<<"policy">>, <<"sorna-run">>} \union ({"session"} \X Nat)

OwnStatuses == {"created", "running", "completed", "failed"}

ReceiptStatuses == Statuses \union OwnStatuses \union {e.status : e \in HostEvents}

OwnEvents ==
  [type : {"workspace-created", "role-launched", "role-completed",
           "policy-applied", "sorna-started", "sorna-completed"},
   source : {Null}, at : Nat, status : OwnStatuses \union {Null}, uses : SUBSET Files]

Receipts ==
  [run : Nat, status : ReceiptStatuses, created : Nat, updated : Nat,
   events : Seq(HostEvents \union OwnEvents), artifacts : SUBSET Files]

Sorted(r) == \A i, j \in DOMAIN r.events : i < j => r.events[i].at <= r.events[j].at

Sound(r) == r \in Receipts /\ Valid(r) /\ Sorted(r)

\* s is r with more events, more artifacts and a status that may follow.
Grows(r, s) ==
  /\ s.run = r.run /\ r.artifacts \subseteq s.artifacts
  /\ Len(r.events) <= Len(s.events) /\ \A i \in 1..Len(r.events) : s.events[i] = r.events[i]
  /\ r.status \in Terminal => s.status \in {r.status, "cleaned"}

\* What a change makes of a receipt is refused, or adds to it.
Leads(r, s) == s # Refused => Sound(s) /\ Grows(r, s)

-----------------------------------------------------------------------------
(* Receipts: growth is a preorder, and each change lets a receipt grow.    *)

LEMMA EventTimes == \A e \in HostEvents \union OwnEvents : e.at \in Nat
BY ReceiptAssumption DEF OwnEvents

LEMMA GrowsItself ==
  ASSUME NEW r \in Receipts
  PROVE  Grows(r, r)
BY DEF Grows, Receipts

LEMMA GrowsFurther ==
  ASSUME NEW r \in Receipts, NEW s \in Receipts, NEW t \in Receipts, Grows(r, s), Grows(s, t)
  PROVE  Grows(r, t)
<1>1. /\ Len(r.events) \in Nat /\ Len(s.events) \in Nat /\ Len(t.events) \in Nat
  BY DEF Receipts
<1>2. Len(r.events) <= Len(t.events) /\ \A i \in 1..Len(r.events) : t.events[i] = r.events[i]
  BY <1>1 DEF Grows
<1>3. r.status \in Terminal => t.status \in {r.status, "cleaned"}
  BY DEF Grows, Terminal
<1> QED
  BY <1>2, <1>3 DEF Grows

LEMMA LeadsByAppend ==
  ASSUME NEW r \in Receipts, NEW s, NEW e \in HostEvents \union OwnEvents, Leads(r, s)
  PROVE  /\ Leads(r, AppendEvent(s, e))
         /\ AppendEvent(s, e) # Refused => e \in ToSet(AppendEvent(s, e).events)
<1> SUFFICES ASSUME AppendEvent(s, e) # Refused
             PROVE  /\ Sound(AppendEvent(s, e)) /\ Grows(r, AppendEvent(s, e))
                    /\ e \in ToSet(AppendEvent(s, e).events)
  BY DEF Leads
<1> DEFINE t == [s EXCEPT !.events = Append(@, e), !.updated = e.at]
<1>1. s # Refused /\ Valid(t) /\ AppendEvent(s, e) = t
  BY DEF AppendEvent, Checked
<1>2. Sound(s) /\ Grows(r, s)
  BY <1>1 DEF Leads
<1>3. /\ s \in Receipts /\ s.events \in Seq(HostEvents \union OwnEvents) /\ Len(s.events) \in Nat
  BY <1>2 DEF Sound, Receipts
<1>4. /\ t \in Receipts /\ t.events = Append(s.events, e)
      /\ t.run = s.run /\ t.status = s.status /\ t.artifacts = s.artifacts /\ t.updated = e.at
  <2>1. e.at \in Nat /\ Append(s.events, e) \in Seq(HostEvents \union OwnEvents)
    BY <1>3, EventTimes
  <2> QED
    BY <1>3, <2>1 DEF Receipts
<1>5. /\ Len(t.events) = Len(s.events) + 1 /\ DOMAIN t.events = 1..(Len(s.events) + 1)
      /\ DOMAIN s.events = 1..Len(s.events)
      /\ t.events[Len(s.events) + 1] = e
      /\ \A i \in 1..Len(s.events) : t.events[i] = s.events[i]
  BY <1>3, <1>4
<1>6. Grows(s, t)
  BY <1>3, <1>4, <1>5 DEF Grows
<1>7. Sorted(t)
  <2> SUFFICES ASSUME NEW i \in DOMAIN t.events, NEW j \in DOMAIN t.events, i < j
               PROVE  t.events[i].at <= t.events[j].at
    BY DEF Sorted
  <2>1. CASE j = Len(s.events) + 1
    BY <1>1, <1>4, <1>5, <2>1 DEF Valid
  <2>2. CASE j # Len(s.events) + 1
    BY <1>2, <1>3, <1>5, <2>2 DEF Sound, Sorted
  <2> QED
    BY <2>1, <2>2
<1>8. e \in ToSet(t.events)
  BY <1>3, <1>5 DEF ToSet
<1> HIDE DEF t
<1> QED
  BY <1>1, <1>2, <1>3, <1>4, <1>6, <1>7, <1>8, GrowsFurther DEF Sound

LEMMA LeadsByStatus ==
  ASSUME NEW r \in Receipts, NEW s, NEW status \in ReceiptStatuses, NEW at \in Nat, Leads(r, s)
  PROVE  /\ Leads(r, SetStatus(s, status, at))
         /\ SetStatus(s, status, at) # Refused => SetStatus(s, status, at).events = s.events
<1> SUFFICES ASSUME SetStatus(s, status, at) # Refused
             PROVE  /\ Sound(SetStatus(s, status, at)) /\ Grows(r, SetStatus(s, status, at))
                    /\ SetStatus(s, status, at).events = s.events
  BY DEF Leads
<1> DEFINE t == [s EXCEPT !.status = status, !.updated = at]
<1>1. s # Refused /\ ValidTransition(s.status, status) /\ Valid(t) /\ SetStatus(s, status, at) = t
  BY DEF SetStatus, Checked
<1>2. Sound(s) /\ Grows(r, s)
  BY <1>1 DEF Leads
<1>3. /\ t \in Receipts /\ t.events = s.events
      /\ t.run = s.run /\ t.status = status /\ t.artifacts = s.artifacts
  BY <1>2 DEF Sound, Receipts
<1>4. Grows(s, t)
  BY <1>1, <1>2, <1>3 DEF Grows, ValidTransition, Sound, Receipts
<1>5. Sorted(t)
  BY <1>2, <1>3 DEF Sound, Sorted
<1> HIDE DEF t
<1> QED
  BY <1>1, <1>2, <1>3, <1>4, <1>5, GrowsFurther DEF Sound

LEMMA LeadsByArtifact ==
  ASSUME NEW r, Sound(r), NEW id \in Files
  PROVE  Leads(r, RegisterArtifact(r, id)) /\ Leads(r, AddArtifact(r, id))
<1> DEFINE s == [r EXCEPT !.artifacts = @ \union {id}]
<1>1. /\ s \in Receipts /\ s.events = r.events /\ s.artifacts = r.artifacts \union {id}
      /\ s.run = r.run /\ s.status = r.status /\ s.created = r.created /\ s.updated = r.updated
  BY DEF Sound, Receipts
<1>2. Valid(s) /\ Sorted(s)
  BY <1>1 DEF Sound, Valid, Sorted, Sourced
<1>3. Grows(r, s)
  BY <1>1 DEF Grows, Sound, Receipts
<1> HIDE DEF s
<1>4. RegisterArtifact(r, id) = s /\ AddArtifact(r, id) \in {s, Refused}
  BY DEF RegisterArtifact, AddArtifact, s
<1> QED
  BY <1>1, <1>2, <1>3, <1>4 DEF Leads, Sound

\* An event of the host is in the receipt that it leads to, which is of its run.
LEMMA LeadsByApply ==
  ASSUME NEW r \in Receipts, NEW s, Leads(r, s), NEW e \in HostEvents, NEW run
  PROVE  /\ Leads(r, Apply(s, e, run))
         /\ Apply(s, e, run) # Refused =>
              /\ s # Refused /\ s.run = run /\ e \in ToSet(Apply(s, e, run).events)
              /\ ToSet(s.events) \subseteq ToSet(Apply(s, e, run).events)
<1> SUFFICES ASSUME Apply(s, e, run) # Refused
             PROVE  /\ Leads(r, Apply(s, e, run))
                    /\ s # Refused /\ s.run = run /\ e \in ToSet(Apply(s, e, run).events)
                    /\ ToSet(s.events) \subseteq ToSet(Apply(s, e, run).events)
  BY DEF Leads
<1>1. s # Refused /\ run = s.run
  BY DEF Apply
<1>2. Sound(s) /\ Leads(s, s) /\ s \in Receipts
  BY <1>1, GrowsItself DEF Leads, Sound
<1>3. \A t : Sound(t) /\ Grows(s, t) => Leads(r, t) /\ ToSet(s.events) \subseteq ToSet(t.events)
  <2> SUFFICES ASSUME NEW t, Sound(t), Grows(s, t)
               PROVE  Leads(r, t) /\ ToSet(s.events) \subseteq ToSet(t.events)
    OBVIOUS
  <2>1. Leads(r, t)
    BY <1>1, <1>2, GrowsFurther DEF Leads, Sound
  <2>2. DOMAIN s.events = 1..Len(s.events) /\ DOMAIN t.events = 1..Len(t.events)
        /\ Len(s.events) \in Nat /\ Len(t.events) \in Nat
    BY <1>2 DEF Sound, Receipts
  <2> QED
    BY <2>1, <2>2 DEF Grows, ToSet
<1> DEFINE added == AppendEvent(s, e)
<1>4. Leads(s, added) /\ (added # Refused => e \in ToSet(added.events))
  BY <1>2, LeadsByAppend
<1>5. CASE Apply(s, e, run) = s /\ e \in ToSet(s.events)
  BY <1>1, <1>2, <1>3, <1>5, GrowsItself
<1>6. CASE Apply(s, e, run) = added
  BY <1>1, <1>3, <1>4, <1>6 DEF Leads
<1>7. CASE Apply(s, e, run) = SetStatus(added, e.status, e.at)
  <2>1. added # Refused
    BY <1>7 DEF SetStatus
  <2>2. e.status \in ReceiptStatuses /\ e.at \in Nat
    BY ReceiptAssumption DEF ReceiptStatuses
  <2>3. /\ Leads(s, Apply(s, e, run))
        /\ Apply(s, e, run).events = added.events
    BY <1>2, <1>4, <1>7, <2>2, LeadsByStatus
  <2> QED
    BY <1>1, <1>3, <1>4, <2>1, <2>3 DEF Leads
<1> QED
  BY <1>1, <1>5, <1>6, <1>7 DEF Apply

-----------------------------------------------------------------------------
(* Receipts: batches.                                                      *)

\* Induction up to a bound, over a set of numbers.
LEMMA ReachesAll ==
  ASSUME NEW bound \in Nat, NEW S, 0 \in S,
         \A n \in 0..bound : n \in S /\ n < bound => n + 1 \in S
  PROVE  0..bound \subseteq S
<1> DEFINE T == {n \in Nat : n \in 0..bound /\ n \notin S}
<1> SUFFICES ASSUME T # {} PROVE FALSE
  OBVIOUS
<1>1. PICK m \in T : \A n \in T : ~(<<n, m>> \in OpToRel(<, Nat))
  BY WFMin, NatLessThanWellFounded
<1>2. \A n \in T : ~(n < m)
  BY <1>1 DEF OpToRel
<1>3. m # 0 /\ m - 1 \in 0..bound /\ m - 1 < bound /\ m - 1 < m /\ m - 1 \in Nat
  OBVIOUS
<1>4. m - 1 \in S
  BY <1>2, <1>3
<1>5. (m - 1) + 1 \in S
  BY <1>3, <1>4
<1> QED
  BY <1>5

\* What each event of a batch makes of the receipt; only finitely many come
\* before it, so that there is such a function.
LEMMA BatchSteps ==
  ASSUME NEW r, NEW batch, batch.events \in Seq(HostEvents)
  PROVE  \E after :
           /\ after[0] = r /\ ApplyAll(r, batch) = after[Len(batch.events)]
           /\ \A n \in 1..Len(batch.events) :
                after[n] = Apply(after[n - 1], batch.events[n], batch.run)
<1> DEFINE bound == Len(batch.events)
           Made(after, n) == IF n = 0 THEN r ELSE Apply(after[n - 1], batch.events[n], batch.run)
           S == {k \in 0..bound : \E after : after = [n \in 0..k |-> Made(after, n)]}
<1>1. bound \in Nat
  OBVIOUS
<1>2. 0 \in S
  <2> DEFINE after == [n \in 0..0 |-> r]
  <2>1. \A n \in 0..0 : n = 0
    OBVIOUS
  <2>2. \A n \in 0..0 : Made(after, n) = r
    BY <2>1, Zenon
  <2>3. after = [n \in 0..0 |-> Made(after, n)]
    <3> HIDE DEF Made
    <3> QED
      BY <2>2, Zenon
  <2>4. 0 \in 0..bound
    BY <1>1
  <2> QED
    BY <2>3, <2>4, Zenon
<1>3. ASSUME NEW k \in 0..bound, k \in S, k < bound
      PROVE  k + 1 \in S
  <2>1. PICK before : before = [n \in 0..k |-> Made(before, n)]
    BY <1>3
  <2> DEFINE after == [n \in 0..(k + 1) |-> Made(before, n)]
  <2>2. \A n \in 0..(k + 1) : n = 0 \/ (n - 1 \in 0..k /\ n - 1 \in 0..(k + 1))
    BY <1>1
  <2>3. \A n \in 0..k : n \in 0..(k + 1) /\ before[n] = after[n]
    <3>1. \A n \in 0..k : n \in 0..(k + 1)
      BY <1>1
    <3> HIDE DEF Made
    <3>2. \A n \in 0..k : before[n] = Made(before, n)
      BY <2>1, Zenon
    <3> QED
      BY <3>1, <3>2, Zenon
  <2>4. \A n \in 0..(k + 1) : Made(after, n) = Made(before, n)
    BY <2>2, <2>3, Zenon
  <2>5. after = [n \in 0..(k + 1) |-> Made(after, n)]
    <3> HIDE DEF Made
    <3> QED
      BY <2>4, Zenon
  <2>6. k + 1 \in 0..bound
    BY <1>1, <1>3
  <2> QED
    BY <2>5, <2>6, Zenon
<1>4. bound \in S
  <2>1. 0..bound \subseteq S
    <3> HIDE DEF S
    <3> QED
      BY <1>1, <1>2, <1>3, ReachesAll
  <2> QED
    BY <1>1, <2>1
<1>5. PICK some : some = [n \in 0..bound |-> Made(some, n)]
  BY <1>4
<1> DEFINE after == CHOOSE after : after = [n \in 0..bound |-> Made(after, n)]
<1>6. after = [n \in 0..bound |-> Made(after, n)]
  BY <1>5, Zenon
<1>7. ApplyAll(r, batch) = after[bound]
  BY Zenon DEF ApplyAll
<1> HIDE DEF after
<1>8. \A n \in 0..bound : after[n] = Made(after, n)
  <2> HIDE DEF Made
  <2> QED
    BY <1>6, Zenon
<1>9. after[0] = r
  BY <1>1, <1>8
<1>10. \A n \in 1..bound : after[n] = Apply(after[n - 1], batch.events[n], batch.run)
  BY <1>1, <1>8
<1> QED
  BY <1>7, <1>9, <1>10

\* A batch leads to a receipt that has all of it; it is refused by receipts of
\* other runs.
LEMMA LeadsByBatch ==
  ASSUME NEW r, Sound(r), NEW batch \in Batches \union Callbacks
  PROVE  LET s == ApplyAll(r, batch) IN
         /\ Leads(r, s)
         /\ s # Refused => /\ ToSet(batch.events) \subseteq ToSet(s.events)
                           /\ s = r \/ r.run = batch.run
<1> DEFINE bound == Len(batch.events)
<1>1. batch.events \in Seq(HostEvents) /\ bound \in Nat
      /\ DOMAIN batch.events = 1..bound /\ \A k \in 1..bound : batch.events[k] \in HostEvents
  BY ReceiptAssumption
<1>2. PICK after :
        /\ after[0] = r /\ ApplyAll(r, batch) = after[bound]
        /\ \A n \in 1..bound : after[n] = Apply(after[n - 1], batch.events[n], batch.run)
  BY <1>1, BatchSteps
<1> DEFINE Has(n) ==
             /\ Leads(r, after[n])
             /\ after[n] # Refused =>
                  /\ \A k \in 1..n : batch.events[k] \in ToSet(after[n].events)
                  /\ n = 0 \/ r.run = batch.run
           S == {n \in 0..bound : Has(n)}
<1>3. r \in Receipts
  BY DEF Sound
<1>4. 0 \in S
  BY <1>1, <1>2, <1>3, GrowsItself DEF Leads
<1>5. ASSUME NEW n \in 0..bound, n \in S, n < bound
      PROVE  n + 1 \in S
  <2> DEFINE e == batch.events[n + 1]
  <2>1. n + 1 \in 1..bound /\ (n + 1) - 1 = n /\ n + 1 \in 0..bound
    BY <1>1, <1>5
  <2>2. after[n + 1] = Apply(after[n], e, batch.run) /\ e \in HostEvents
    BY <1>1, <1>2, <2>1
  <2>3. Has(n)
    BY <1>5
  <2>4. /\ Leads(r, after[n + 1])
        /\ after[n + 1] # Refused =>
             /\ after[n] # Refused /\ after[n].run = batch.run /\ e \in ToSet(after[n + 1].events)
             /\ ToSet(after[n].events) \subseteq ToSet(after[n + 1].events)
    <3> HIDE DEF e
    <3> QED
      BY <1>3, <2>2, <2>3, LeadsByApply
  <2>5. ASSUME after[n + 1] # Refused
        PROVE  /\ \A k \in 1..(n + 1) : batch.events[k] \in ToSet(after[n + 1].events)
               /\ r.run = batch.run
    <3>1. \A k \in 1..(n + 1) : k \in 1..n \/ k = n + 1
      BY <1>1
    <3>2. r.run = after[n].run
      BY <2>3, <2>4, <2>5 DEF Leads, Grows
    <3> QED
      BY <2>3, <2>4, <2>5, <3>1, <3>2
  <2> QED
    BY <2>1, <2>4, <2>5
<1>6. bound \in S
  <2> HIDE DEF S
  <2>1. 0..bound \subseteq S
    BY <1>1, <1>4, <1>5, ReachesAll
  <2> QED
    BY <1>1, <2>1
<1>7. ToSet(batch.events) = {batch.events[k] : k \in 1..bound}
  BY <1>1 DEF ToSet
<1> QED
  BY <1>2, <1>6, <1>7

-----------------------------------------------------------------------------
(* Receipts: the invariant.                                                *)

Launching == {"session", "oracle", "verifier"}

Commands ==
  [kind : {"status", "artifact", "events", "callback", "fork"} \union Launching,
   phase : {"wait", "locked", "child", "save"}, path : Paths,
   arg : Statuses \union Artifacts \union Batches \union Callbacks \union {Null, "completed", "failed"},
   at : Nat, base : Receipts \union {Null}, name : Nat, result : BOOLEAN]

\* Type correctness of the receipts, their locks and the commands.
ReceiptTypeOK ==
  /\ receipts \in [Paths -> Receipts \union {Null}]
  /\ held \in [Paths -> Sentinels \union {Unlocked}]
  /\ writer \in [Sentinels -> Commands \union {NoCommand}]
  /\ clock \in Nat /\ starts \in Nat /\ runs \in Nat
  /\ intruded \subseteq Paths

\* What the commands are given.
Given(w) ==
  /\ w.kind = "status" => w.arg \in Statuses
  /\ w.kind = "artifact" => w.arg \in Artifacts
  /\ w.kind = "events" => w.arg \in Batches
  /\ w.kind = "callback" => w.arg \in Callbacks
  /\ w.kind \in Launching => w.arg \in {Null, "completed", "failed"}
  /\ w.phase = "child" => w.kind \in Launching
  /\ w.kind = "fork" => w.phase = "save"

\* A command that has the lock works on the receipt that is there, unless somebody
\* wrote without the lock.
Locking(p) ==
  LET w == writer[p] IN
  w.phase = "locked" =>
    /\ held[w.path] = p
    /\ w.path \in intruded \/ w.base = receipts[w.path]

ReceiptInv ==
  /\ ReceiptTypeOK
  /\ \A path \in Paths : receipts[path] # Null => Sound(receipts[path])
  /\ \A p \in Sentinels : writer[p] # NoCommand =>
       /\ Given(writer[p]) /\ Locking(p)
       /\ writer[p].phase \in {"locked", "save"} => Sound(writer[p].base)

-----------------------------------------------------------------------------
(* Receipts: what commands make of them.                                   *)

LEMMA OwnEventType ==
  ASSUME NEW type \in {"role-launched", "role-completed", "policy-applied", "sorna-started", "sorna-completed"},
         NEW at \in Nat, NEW status \in OwnStatuses \union {Null}, NEW uses \in SUBSET Files
  PROVE  Event(type, Null, at, status, uses) \in HostEvents \union OwnEvents
BY DEF Event, OwnEvents

LEMMA LaunchLeads ==
  ASSUME NEW p \in Sentinels, writer[p] \in Commands, NEW r, Sound(r), clock \in Nat
  PROVE  Leads(r, RecordLaunch(p, r))
<1>1. r \in Receipts /\ Leads(r, r) /\ writer[p].at \in Nat
  BY GrowsItself DEF Sound, Leads, Commands
<1>2. "running" \in ReceiptStatuses
  BY DEF ReceiptStatuses, OwnStatuses
<1>3. <<"policy">> \in Files
  BY DEF Files
<1>4. CASE writer[p].kind = "session"
  <2>1. Leads(r, SetStatus(r, "running", writer[p].at))
    BY <1>1, <1>2, LeadsByStatus
  <2>2. Event("role-launched", Null, writer[p].at, "running", {}) \in HostEvents \union OwnEvents
    BY <1>1, OwnEventType DEF OwnStatuses
  <2> QED
    BY <1>1, <1>4, <2>1, <2>2, LeadsByAppend DEF RecordLaunch, SessionLaunch
<1>5. CASE writer[p].kind # "session"
  <2> DEFINE a == SetStatus(AddArtifact(r, <<"policy">>), "running", clock)
             applied == Event("policy-applied", Null, clock, Null, {<<"policy">>})
             started == Event("sorna-started", Null, clock, Null, {<<"policy">>})
  <2>1. Leads(r, AddArtifact(r, <<"policy">>))
    BY <1>3, LeadsByArtifact
  <2>2. Leads(r, a)
    BY <1>1, <1>2, <2>1, LeadsByStatus
  <2>3. applied \in HostEvents \union OwnEvents /\ started \in HostEvents \union OwnEvents
    <3>1. {<<"policy">>} \in SUBSET Files
      BY <1>3
    <3> QED
      BY <3>1, OwnEventType
  <2>4. RecordLaunch(p, r) = AppendEvent(AppendEvent(a, applied), started)
    BY <1>5 DEF RecordLaunch, DelegatedLaunch
  <2> HIDE DEF a, applied, started
  <2>5. Leads(r, AppendEvent(a, applied))
    BY <1>1, <2>2, <2>3, LeadsByAppend
  <2> QED
    BY <1>1, <2>3, <2>4, <2>5, LeadsByAppend
<1> QED
  BY <1>4, <1>5

LEMMA CompletionLeads ==
  ASSUME NEW p \in Sentinels, writer[p] \in Commands, NEW r, Sound(r), clock \in Nat,
         writer[p].kind \in Launching, writer[p].arg \in {"completed", "failed"}
  PROVE  Leads(r, RecordCompletion(p, r))
<1> DEFINE w == writer[p]
<1>1. r \in Receipts /\ Leads(r, r) /\ w.at \in Nat /\ w.name \in Nat /\ w.result \in BOOLEAN
  BY GrowsItself DEF Sound, Leads, Commands
<1>2. w.arg \in ReceiptStatuses /\ "failed" \in ReceiptStatuses /\ w.arg \in OwnStatuses \union {Null}
  BY DEF ReceiptStatuses, OwnStatuses
<1>3. <<"policy">> \in Files /\ <<"sorna-run">> \in Files /\ <<"session", w.name>> \in Files
  BY <1>1 DEF Files
<1>4. CASE w.kind = "session"
  <2> DEFINE e == Event("role-completed", Null, w.at, w.arg, SessionFiles(w))
             done == AppendEvent(RegisterArtifact(r, <<"session", w.name>>), e)
  <2>1. SessionFiles(w) \in SUBSET Files
    BY <1>3 DEF SessionFiles
  <2>2. e \in HostEvents \union OwnEvents
    BY <1>1, <1>2, <2>1, OwnEventType
  <2>3. Leads(r, RegisterArtifact(r, <<"session", w.name>>))
    BY <1>3, LeadsByArtifact
  <2>4. RecordCompletion(p, r) \in {done, SetStatus(done, "failed", w.at)}
    BY <1>4 DEF RecordCompletion, SessionCompletion
  <2>5. Leads(r, done)
    <3> HIDE DEF e
    <3> QED
      BY <1>1, <2>2, <2>3, LeadsByAppend
  <2>6. Leads(r, SetStatus(done, "failed", w.at))
    <3> HIDE DEF done, w
    <3> QED
      BY <1>1, <1>2, <2>5, LeadsByStatus
  <2> QED
    BY <2>4, <2>5, <2>6
<1>5. CASE w.kind = "oracle"
  <2> DEFINE e == Event("sorna-completed", Null, w.at, Null, {<<"policy">>})
  <2>1. e \in HostEvents \union OwnEvents
    <3>1. {<<"policy">>} \in SUBSET Files
      BY <1>3
    <3> QED
      BY <1>1, <3>1, OwnEventType
  <2>2. RecordCompletion(p, r) = SetStatus(AppendEvent(r, e), w.arg, clock)
    BY <1>5 DEF RecordCompletion, OracleCompletion
  <2> HIDE DEF e
  <2>3. Leads(r, AppendEvent(r, e))
    BY <1>1, <2>1, LeadsByAppend
  <2> QED
    BY <1>1, <1>2, <2>2, <2>3, LeadsByStatus
<1>6. CASE w.kind = "verifier"
  <2> DEFINE added == IF w.result THEN AddArtifact(r, <<"sorna-run">>) ELSE r
             uses == {<<"policy">>} \union (IF w.result THEN {<<"sorna-run">>} ELSE {})
             e == Event("sorna-completed", Null, clock, Null, uses)
  <2>1. uses \in SUBSET Files
    BY <1>3
  <2>2. e \in HostEvents \union OwnEvents
    <3> HIDE DEF uses
    <3> QED
      BY <2>1, OwnEventType
  <2>3. Leads(r, added)
    BY <1>1, <1>3, LeadsByArtifact
  <2>4. RecordCompletion(p, r) = SetStatus(AppendEvent(added, e), w.arg, clock)
    BY <1>6 DEF RecordCompletion, VerifierCompletion
  <2> HIDE DEF added, e
  <2>5. Leads(r, AppendEvent(added, e))
    BY <1>1, <2>2, <2>3, LeadsByAppend
  <2> QED
    BY <1>1, <1>2, <2>4, <2>5, LeadsByStatus
<1> QED
  BY <1>4, <1>5, <1>6 DEF Launching

LEMMA ChangeLeads ==
  ASSUME ReceiptInv, NEW p \in Sentinels, writer[p] # NoCommand, writer[p].phase = "locked"
  PROVE  Leads(writer[p].base, Changed(p))
<1> DEFINE w == writer[p]
<1>1. /\ w \in Commands /\ Given(w) /\ Sound(w.base) /\ clock \in Nat /\ w.kind # "fork"
  BY DEF ReceiptInv, ReceiptTypeOK, Given
<1>2. w.base \in Receipts /\ Leads(w.base, w.base)
  BY <1>1, GrowsItself DEF Sound, Leads
<1>3. CASE w.kind = "status"
  <2>1. w.arg \in ReceiptStatuses
    BY <1>1, <1>3 DEF Given, ReceiptStatuses
  <2> QED
    BY <1>1, <1>2, <1>3, <2>1, LeadsByStatus DEF Changed
<1>4. CASE w.kind = "artifact"
  <2>1. w.arg \in Files
    BY <1>1, <1>4 DEF Given, Files
  <2> QED
    BY <1>1, <1>4, <2>1, LeadsByArtifact DEF Changed
<1>5. CASE w.kind = "events"
  BY <1>1, <1>5, LeadsByBatch DEF Changed, Given
<1>6. CASE w.kind = "callback"
  <2>1. Changed(p) \in {ApplyAll(w.base, w.arg), Refused}
    BY <1>6 DEF Changed
  <2> QED
    BY <1>1, <1>6, <2>1, LeadsByBatch DEF Given, Leads
<1>7. CASE w.kind \in Launching
  <2>1. Changed(p) = IF w.arg = Null THEN RecordLaunch(p, w.base) ELSE RecordCompletion(p, w.base)
    BY <1>7 DEF Changed, Launching
  <2>2. w.arg = Null \/ w.arg \in {"completed", "failed"}
    BY <1>1, <1>7 DEF Given
  <2> QED
    BY <1>1, <1>7, <2>1, <2>2, LaunchLeads, CompletionLeads
<1> QED
  BY <1>1, <1>3, <1>4, <1>5, <1>6, <1>7 DEF Commands

-----------------------------------------------------------------------------
(* Receipts: every step keeps the invariant.                               *)

LEMMA InitReceiptInv == ReceiptInit => ReceiptInv
<1> SUFFICES ASSUME ReceiptInit PROVE ReceiptInv
  OBVIOUS
<1>1. ReceiptTypeOK
  BY DEF ReceiptInit, ReceiptTypeOK
<1> QED
  BY <1>1 DEF ReceiptInit, ReceiptInv

\* A command that does not move keeps what it relies on, if the locks of others
\* do, and a receipt that changes under its lock was written without it.
LEMMA OthersKeep ==
  ASSUME ReceiptInv, NEW q \in Sentinels, writer[q] # NoCommand, writer'[q] = writer[q],
         \A path \in Paths : held[path] = q => held'[path] = q,
         \A path \in Paths : held[path] = q =>
           path \in intruded' \/ (path \notin intruded /\ receipts'[path] = receipts[path])
  PROVE  /\ Given(writer'[q]) /\ Locking(q)'
         /\ writer'[q].phase \in {"locked", "save"} => Sound(writer'[q].base)
<1>1. writer[q] \in Commands /\ Given(writer[q]) /\ Locking(q)
      /\ (writer[q].phase \in {"locked", "save"} => Sound(writer[q].base))
  BY DEF ReceiptInv, ReceiptTypeOK
<1>2. writer[q].path \in Paths
  BY <1>1 DEF Commands
<1> QED
  BY <1>1, <1>2 DEF Locking

LEMMA BeginKeeps ==
  ASSUME ReceiptInv, NEW p \in Sentinels, NEW path \in Paths, NEW next,
         BeginCommand(p, path, next), next \in Commands, Given(next), next.phase # "locked",
         next.phase = "save" => Sound(next.base)
  PROVE  ReceiptInv'
<1>1. /\ receipts' = receipts /\ held' = held /\ intruded' = intruded
      /\ clock' = clock /\ runs' = runs /\ starts' = starts + 1
      /\ writer' = [writer EXCEPT ![p] = next]
  BY DEF BeginCommand
<1>2. ReceiptTypeOK'
  BY <1>1 DEF ReceiptInv, ReceiptTypeOK
<1>3. writer'[p] = next /\ \A q \in Sentinels \ {p} : writer'[q] = writer[q]
  BY <1>1 DEF ReceiptInv, ReceiptTypeOK
<1>4. \A q \in Sentinels : writer'[q] # NoCommand =>
        /\ Given(writer'[q]) /\ Locking(q)'
        /\ writer'[q].phase \in {"locked", "save"} => Sound(writer'[q].base)
  <2> SUFFICES ASSUME NEW q \in Sentinels, writer'[q] # NoCommand
               PROVE  /\ Given(writer'[q]) /\ Locking(q)'
                      /\ writer'[q].phase \in {"locked", "save"} => Sound(writer'[q].base)
    OBVIOUS
  <2>1. CASE q = p
    BY <1>3, <2>1 DEF Locking
  <2>2. CASE q # p
    BY <1>1, <1>3, <2>2, OthersKeep
  <2> QED
    BY <2>1, <2>2
<1> QED
  BY <1>1, <1>2, <1>4 DEF ReceiptInv, Valid, Sorted, Sound, Sourced

LEMMA CommandKeeps ==
  ASSUME ReceiptInv, NEW p \in Sentinels, NEW path \in Paths, StartCommand(p, path)
  PROVE  ReceiptInv'
<1>1. \A kind \in {"status", "artifact", "events", "callback"} \union Launching,
         arg \in Statuses \union Artifacts \union Batches \union Callbacks \union {Null} :
        /\ NewCommand(kind, path, arg) \in Commands
        /\ NewCommand(kind, path, arg).phase = "wait" /\ NewCommand(kind, path, arg).kind = kind
        /\ NewCommand(kind, path, arg).arg = arg
  BY DEF NewCommand, Commands, ReceiptInv, ReceiptTypeOK
<1>2. ASSUME NEW kind \in {"status", "artifact", "events", "callback"} \union Launching,
             NEW arg \in Statuses \union Artifacts \union Batches \union Callbacks \union {Null},
             kind = "status" => arg \in Statuses, kind = "artifact" => arg \in Artifacts,
             kind = "events" => arg \in Batches, kind = "callback" => arg \in Callbacks,
             kind \in Launching => arg = Null,
             BeginCommand(p, path, NewCommand(kind, path, arg))
      PROVE  ReceiptInv'
  <2> DEFINE next == NewCommand(kind, path, arg)
  <2>1. next \in Commands /\ next.phase = "wait" /\ next.kind = kind /\ next.arg = arg
    BY <1>1
  <2>2. Given(next)
    BY <1>2, <2>1 DEF Given, Launching
  <2> HIDE DEF next
  <2> QED
    BY <1>2, <2>1, <2>2, BeginKeeps DEF next
<1>3. CASE \E status \in Statuses : StartUpdate(p, "status", path, status)
  BY <1>2, <1>3 DEF StartUpdate, Launching
<1>4. CASE \E id \in Artifacts : StartUpdate(p, "artifact", path, id)
  BY <1>2, <1>4 DEF StartUpdate, Launching
<1>5. CASE \E batch \in Batches : StartUpdate(p, "events", path, batch)
  BY <1>2, <1>5 DEF StartUpdate, Launching
<1>6. CASE \E kind \in Launching : StartUpdate(p, kind, path, Null)
  BY <1>2, <1>6 DEF StartUpdate, Launching
<1>7. CASE \E envelope \in Callbacks : StartCallback(p, path, envelope)
  BY <1>2, <1>7 DEF StartCallback, Launching
<1>8. ASSUME NEW output \in Paths, NEW forked, Leads(receipts[path], forked),
             StartFork(p, path, output, forked)
      PROVE  ReceiptInv'
  <2> DEFINE next == [NewCommand("fork", output, Null) EXCEPT !.phase = "save", !.base = forked]
  <2>1. forked # Refused /\ BeginCommand(p, path, next)
    BY <1>8 DEF StartFork
  <2>2. Sound(forked)
    BY <1>8, <2>1 DEF Leads
  <2>3. /\ next \in Commands /\ next.kind = "fork" /\ next.phase = "save" /\ next.base = forked
        /\ next.arg = Null
    BY <2>2 DEF NewCommand, Commands, ReceiptInv, ReceiptTypeOK, Sound
  <2>4. Given(next)
    BY <2>3 DEF Given, Launching
  <2> HIDE DEF next
  <2> QED
    BY <2>1, <2>2, <2>3, <2>4, BeginKeeps
<1>9. CASE \E output \in Paths \ {path}, batch \in Batches :
             StartFork(p, path, output, ApplyAll(receipts[path], batch))
  BY <1>8, <1>9, LeadsByBatch DEF StartFork, ReceiptInv
<1>10. CASE \E output \in Paths \ {path}, id \in Artifacts :
             StartFork(p, path, output, RegisterArtifact(receipts[path], id))
  BY <1>8, <1>10, LeadsByArtifact DEF StartFork, ReceiptInv, Files
<1> QED
  BY <1>3, <1>4, <1>5, <1>6, <1>7, <1>9, <1>10 DEF StartCommand, Launching

\* Steps after which p is at a command that has no lock, or at none.
LEMMA ReleaseKeeps ==
  ASSUME ReceiptInv, NEW p \in Sentinels, NEW next,
         writer' = [writer EXCEPT ![p] = next],
         next = NoCommand \/ (next \in Commands /\ Given(next) /\ next.phase \in {"wait", "child"}),
         held' = held \/ Unlock(p),
         receipts' \in [Paths -> Receipts \union {Null}],
         \A path \in Paths : receipts'[path] # Null => Sound(receipts'[path]),
         \A path \in Paths :
           receipts'[path] = receipts[path] \/ held[path] \in {p, Unlocked} \/ path \in intruded',
         intruded \subseteq intruded', intruded' \subseteq Paths,
         clock' = clock, starts' = starts, runs' = runs
  PROVE  ReceiptInv'
<1>1. writer'[p] = next /\ \A q \in Sentinels \ {p} : writer'[q] = writer[q]
  BY DEF ReceiptInv, ReceiptTypeOK
<1>2. ReceiptTypeOK'
  BY DEF ReceiptInv, ReceiptTypeOK, Unlock
<1>3. \A path \in Paths : \A q \in Sentinels \ {p} : held[path] = q => held'[path] = q
  BY DEF Unlock
<1>4. \A q \in Sentinels : writer'[q] # NoCommand =>
        /\ Given(writer'[q]) /\ Locking(q)'
        /\ writer'[q].phase \in {"locked", "save"} => Sound(writer'[q].base)
  <2> SUFFICES ASSUME NEW q \in Sentinels, writer'[q] # NoCommand
               PROVE  /\ Given(writer'[q]) /\ Locking(q)'
                      /\ writer'[q].phase \in {"locked", "save"} => Sound(writer'[q].base)
    OBVIOUS
  <2>1. CASE q = p
    BY <1>1, <2>1 DEF Locking
  <2>2. CASE q # p
    <3>1. \A path \in Paths : held[path] = q =>
            path \in intruded' \/ (path \notin intruded /\ receipts'[path] = receipts[path])
      BY <2>2, ReceiptAssumption
    <3> QED
      BY <1>1, <1>3, <2>2, <3>1, OthersKeep
  <2> QED
    BY <2>1, <2>2
<1> QED
  BY <1>2, <1>4 DEF ReceiptInv, Valid, Sorted, Sound, Sourced

LEMMA LockKeeps ==
  ASSUME ReceiptInv, NEW p \in Sentinels, Lock(p)
  PROVE  ReceiptInv'
<1> DEFINE w == writer[p]
           next == [w EXCEPT !.phase = "locked", !.base = receipts[w.path]]
<1>1. /\ w # NoCommand /\ w.phase = "wait" /\ LockFree(w.path) /\ receipts[w.path] # Null
      /\ held' = [held EXCEPT ![w.path] = p] /\ intruded' = intruded \ {w.path}
      /\ receipts' = receipts /\ clock' = clock /\ starts' = starts /\ runs' = runs
      /\ writer' = [writer EXCEPT ![p].phase = "locked", ![p].base = receipts[w.path]]
  BY DEF Lock
<1>2. w \in Commands /\ w.path \in Paths /\ Given(w) /\ w.kind # "fork"
  BY <1>1 DEF ReceiptInv, ReceiptTypeOK, Given, Commands
<1>3. Sound(receipts[w.path]) /\ receipts[w.path] \in Receipts
  BY <1>1, <1>2 DEF ReceiptInv, Sound
<1>4. writer' = [writer EXCEPT ![p] = next]
  BY <1>1 DEF ReceiptInv, ReceiptTypeOK
<1>5. /\ next \in Commands /\ next.phase = "locked" /\ next.base = receipts[w.path]
      /\ next.path = w.path /\ next.kind = w.kind /\ next.arg = w.arg
  BY <1>2, <1>3 DEF Commands
<1>6. Given(next)
  BY <1>2, <1>5 DEF Given
<1> HIDE DEF next
<1>7. writer'[p] = next /\ \A q \in Sentinels \ {p} : writer'[q] = writer[q]
  BY <1>4 DEF ReceiptInv, ReceiptTypeOK
<1>8. ReceiptTypeOK'
  BY <1>1, <1>2, <1>4, <1>5 DEF ReceiptInv, ReceiptTypeOK
<1>9. held'[w.path] = p /\ w.path \notin intruded'
  BY <1>1, <1>2 DEF ReceiptInv, ReceiptTypeOK
<1>10. \A q \in Sentinels : writer'[q] # NoCommand =>
        /\ Given(writer'[q]) /\ Locking(q)'
        /\ writer'[q].phase \in {"locked", "save"} => Sound(writer'[q].base)
  <2> SUFFICES ASSUME NEW q \in Sentinels, writer'[q] # NoCommand
               PROVE  /\ Given(writer'[q]) /\ Locking(q)'
                      /\ writer'[q].phase \in {"locked", "save"} => Sound(writer'[q].base)
    OBVIOUS
  <2>1. CASE q = p
    BY <1>1, <1>3, <1>5, <1>6, <1>7, <1>9, <2>1 DEF Locking
  <2>2. CASE q # p
    <3>1. \A path \in Paths : held[path] = q => path # w.path /\ held'[path] = q
      BY <1>1, ReceiptAssumption DEF LockFree, ReceiptInv, ReceiptTypeOK
    <3>2. \A path \in Paths : held[path] = q =>
            path \in intruded' \/ (path \notin intruded /\ receipts'[path] = receipts[path])
      BY <1>1, <3>1
    <3> QED
      BY <1>7, <2>2, <3>1, <3>2, OthersKeep
  <2> QED
    BY <2>1, <2>2
<1>11. \A path \in Paths : receipts'[path] # Null => Sound(receipts'[path])
  BY <1>1 DEF ReceiptInv
<1> QED
  BY <1>8, <1>10, <1>11 DEF ReceiptInv

LEMMA UpdateKeeps ==
  ASSUME ReceiptInv, NEW p \in Sentinels, PublishReceipt(p)
  PROVE  ReceiptInv'
<1> DEFINE w == writer[p]
           child == [w EXCEPT !.phase = "child", !.base = Null]
           next == IF Changed(p) # Refused /\ LaunchesChild(w) THEN child ELSE NoCommand
<1>1. /\ w # NoCommand /\ w.phase = "locked" /\ Unlock(p)
      /\ receipts' = IF Changed(p) = Refused \/ Unchanged(p) THEN receipts
                     ELSE [receipts EXCEPT ![w.path] = Changed(p)]
      /\ writer' = [writer EXCEPT ![p] = next]
      /\ clock' = clock /\ starts' = starts /\ runs' = runs /\ intruded' = intruded
  BY DEF PublishReceipt
<1>2. w \in Commands /\ w.path \in Paths /\ Given(w) /\ held[w.path] = p
  BY <1>1 DEF ReceiptInv, ReceiptTypeOK, Locking, Commands
<1>3. Changed(p) # Refused => Sound(Changed(p))
  BY <1>1, ChangeLeads DEF Leads
<1>4. next = NoCommand \/ (next \in Commands /\ Given(next) /\ next.phase \in {"wait", "child"})
  <2> SUFFICES ASSUME LaunchesChild(w)
               PROVE  child \in Commands /\ Given(child) /\ child.phase = "child"
    OBVIOUS
  <2>1. /\ child \in Commands /\ child.phase = "child" /\ child.kind = w.kind /\ child.arg = w.arg
    BY <1>2 DEF Commands
  <2> QED
    BY <1>2, <2>1 DEF Given, LaunchesChild, Launching
<1> HIDE DEF next
<1>5. /\ receipts' \in [Paths -> Receipts \union {Null}]
      /\ \A path \in Paths : receipts'[path] # Null => Sound(receipts'[path])
      /\ \A path \in Paths : receipts'[path] = receipts[path] \/ held[path] = p
  <2>1. CASE receipts' = receipts
    BY <2>1 DEF ReceiptInv, ReceiptTypeOK
  <2>2. CASE Changed(p) # Refused /\ receipts' = [receipts EXCEPT ![w.path] = Changed(p)]
    <3> DEFINE new == Changed(p)
    <3>1. new \in Receipts /\ Sound(new)
      BY <1>3, <2>2 DEF Sound
    <3> HIDE DEF new
    <3> QED
      BY <1>2, <2>2, <3>1 DEF ReceiptInv, ReceiptTypeOK, new
  <2> QED
    BY <1>1, <2>1, <2>2
<1>6. intruded' \subseteq Paths
  BY <1>1 DEF ReceiptInv, ReceiptTypeOK
<1> QED
  BY <1>1, <1>4, <1>5, <1>6, ReleaseKeeps

LEMMA ChildEndsKeeps ==
  ASSUME ReceiptInv, NEW p \in Sentinels, ChildEnds(p)
  PROVE  ReceiptInv'
<1> DEFINE w == writer[p]
<1>1. PICK status \in {"completed", "failed"}, result \in BOOLEAN :
        writer' = [writer EXCEPT ![p].phase = "wait", ![p].arg = status, ![p].at = clock, ![p].result = result]
  BY DEF ChildEnds
<1> DEFINE next == [w EXCEPT !.phase = "wait", !.arg = status, !.at = clock, !.result = result]
<1>2. /\ w # NoCommand /\ w.phase = "child" /\ receipts' = receipts /\ held' = held
      /\ clock' = clock /\ starts' = starts /\ runs' = runs /\ intruded' = intruded
  BY DEF ChildEnds
<1>3. w \in Commands /\ Given(w) /\ w.kind \in Launching /\ clock \in Nat
  BY <1>2 DEF ReceiptInv, ReceiptTypeOK, Given
<1>4. writer' = [writer EXCEPT ![p] = next]
  BY <1>1 DEF ReceiptInv, ReceiptTypeOK
<1>5. next \in Commands /\ next.phase = "wait" /\ next.kind = w.kind /\ next.arg = status
  BY <1>3 DEF Commands
<1>6. Given(next)
  BY <1>3, <1>5 DEF Given, Launching
<1> HIDE DEF next
<1>7. /\ receipts' \in [Paths -> Receipts \union {Null}] /\ intruded' \subseteq Paths
      /\ \A path \in Paths : receipts'[path] # Null => Sound(receipts'[path])
  BY <1>2 DEF ReceiptInv, ReceiptTypeOK
<1> QED
  BY <1>2, <1>4, <1>5, <1>6, <1>7, ReleaseKeeps

LEMMA FailKeeps ==
  ASSUME ReceiptInv, NEW p \in Sentinels, FailCommand(p)
  PROVE  ReceiptInv'
<1>1. /\ receipts' \in [Paths -> Receipts \union {Null}] /\ intruded' \subseteq Paths
      /\ \A path \in Paths : receipts'[path] # Null => Sound(receipts'[path])
  BY DEF FailCommand, ReceiptInv, ReceiptTypeOK
<1> QED
  BY <1>1, ReleaseKeeps DEF FailCommand

LEMMA SaveForkKeeps ==
  ASSUME ReceiptInv, NEW p \in Sentinels, SaveFork(p)
  PROVE  ReceiptInv'
<1> DEFINE w == writer[p]
<1>1. w \in Commands /\ w.path \in Paths /\ Sound(w.base)
  BY DEF SaveFork, ReceiptInv, ReceiptTypeOK, Commands
<1>2. receipts' = [receipts EXCEPT ![w.path] = w.base] /\ Intrude(w.path)
      /\ writer' = [writer EXCEPT ![p] = NoCommand] /\ held' = held
      /\ clock' = clock /\ starts' = starts /\ runs' = runs
  BY DEF SaveFork
<1> HIDE DEF w
<1>3. /\ receipts' \in [Paths -> Receipts \union {Null}]
      /\ \A path \in Paths : receipts'[path] # Null => Sound(receipts'[path])
      /\ \A path \in Paths : receipts'[path] = receipts[path] \/ path = w.path
  BY <1>1, <1>2 DEF ReceiptInv, ReceiptTypeOK, Sound
<1>4. /\ intruded \subseteq intruded' /\ intruded' \subseteq Paths
      /\ held[w.path] = Unlocked \/ w.path \in intruded'
  BY <1>1, <1>2 DEF Intrude, ReceiptInv, ReceiptTypeOK
<1> QED
  BY <1>2, <1>3, <1>4, ReleaseKeeps

LEMMA NewReceiptSound == ASSUME clock \in Nat, NEW run \in Nat PROVE Sound(NewReceipt(run))
<1> DEFINE e == Event("workspace-created", Null, clock, Null, {})
           r == NewReceipt(run)
<1>1. e \in OwnEvents /\ e.at = clock /\ e.source = Null /\ e.uses = {}
  BY DEF Event, OwnEvents
<1>2. <<e>> \in Seq(HostEvents \union OwnEvents) /\ DOMAIN <<e>> = {1} /\ <<e>>[1] = e
  BY <1>1
<1>3. /\ r.run = run /\ r.status = "created" /\ r.created = clock /\ r.updated = clock
      /\ r.events = <<e>> /\ r.artifacts = {}
  BY DEF NewReceipt
<1>4. r \in Receipts
  <2> HIDE DEF e
  <2> QED
    BY <1>2 DEF NewReceipt, Receipts, ReceiptStatuses, OwnStatuses, e
<1> HIDE DEF e, r
<1> QED
  BY <1>1, <1>2, <1>3, <1>4 DEF Sound, Valid, Sorted, Sourced, r

\* Bootstraps and the clock move no command.
LEMMA BootstrapKeeps ==
  ASSUME ReceiptInv, NEW path \in Paths, Bootstrap(path)
  PROVE  ReceiptInv'
<1>1. /\ receipts' = [receipts EXCEPT ![path] = NewReceipt(runs + 1)] /\ Intrude(path)
      /\ runs' = runs + 1 /\ held' = held /\ writer' = writer /\ clock' = clock /\ starts' = starts
  BY DEF Bootstrap
<1>2. Sound(NewReceipt(runs + 1)) /\ NewReceipt(runs + 1) \in Receipts
  BY NewReceiptSound DEF ReceiptInv, ReceiptTypeOK, Sound
<1> DEFINE new == NewReceipt(runs + 1)
<1>3. ReceiptTypeOK'
  BY <1>1, <1>2 DEF ReceiptInv, ReceiptTypeOK, Intrude
<1>4. \A other \in Paths : receipts'[other] # Null => Sound(receipts'[other])
  <2> HIDE DEF new
  <2> QED
    BY <1>1, <1>2 DEF ReceiptInv, ReceiptTypeOK, new
<1>5. \A other \in Paths :
        other \in intruded' \/ (other \notin intruded /\ receipts'[other] = receipts[other])
          \/ held[other] = Unlocked
  BY <1>1 DEF Intrude, ReceiptInv, ReceiptTypeOK
<1>6. \A q \in Sentinels : writer'[q] # NoCommand =>
        /\ Given(writer'[q]) /\ Locking(q)'
        /\ writer'[q].phase \in {"locked", "save"} => Sound(writer'[q].base)
  <2> SUFFICES ASSUME NEW q \in Sentinels, writer'[q] # NoCommand
               PROVE  /\ Given(writer'[q]) /\ Locking(q)'
                      /\ writer'[q].phase \in {"locked", "save"} => Sound(writer'[q].base)
    OBVIOUS
  <2>1. \A other \in Paths : held[other] = q =>
          other \in intruded' \/ (other \notin intruded /\ receipts'[other] = receipts[other])
    BY <1>5, ReceiptAssumption
  <2> QED
    BY <1>1, <2>1, OthersKeep
<1> QED
  BY <1>3, <1>4, <1>6 DEF ReceiptInv

LEMMA TickKeeps == ReceiptInv /\ (Tick \/ UNCHANGED receiptVars) => ReceiptInv'
<1> SUFFICES ASSUME ReceiptInv, Tick \/ UNCHANGED receiptVars PROVE ReceiptInv'
  OBVIOUS
<1>1. /\ receipts' = receipts /\ held' = held /\ writer' = writer /\ starts' = starts
      /\ runs' = runs /\ intruded' = intruded /\ clock' \in Nat
  BY DEF Tick, receiptVars, ReceiptInv, ReceiptTypeOK
<1> QED
  BY <1>1 DEF ReceiptInv, ReceiptTypeOK, Locking

LEMMA NextReceiptInv == ReceiptInv /\ [ReceiptNext]_receiptVars => ReceiptInv'
<1> SUFFICES ASSUME ReceiptInv, [ReceiptNext]_receiptVars PROVE ReceiptInv'
  OBVIOUS
<1>1. CASE \E p \in Sentinels, path \in Paths : StartCommand(p, path)
  BY <1>1, CommandKeeps
<1>2. CASE \E p \in Sentinels : Lock(p)
  BY <1>2, LockKeeps
<1>3. CASE \E p \in Sentinels : PublishReceipt(p)
  BY <1>3, UpdateKeeps
<1>4. CASE \E p \in Sentinels : ChildEnds(p)
  BY <1>4, ChildEndsKeeps
<1>5. CASE \E p \in Sentinels : FailCommand(p)
  BY <1>5, FailKeeps
<1>6. CASE \E p \in Sentinels : SaveFork(p)
  BY <1>6, SaveForkKeeps
<1>7. CASE \E path \in Paths : Bootstrap(path)
  BY <1>7, BootstrapKeeps
<1>8. CASE Tick \/ UNCHANGED receiptVars
  BY <1>8, TickKeeps
<1> QED
  BY <1>1, <1>2, <1>3, <1>4, <1>5, <1>6, <1>7, <1>8 DEF ReceiptNext

\* Receipts are sound at all times, and a command that holds the lock works on the
\* receipt that is there unless somebody wrote without the lock.
THEOREM ReceiptInvariant == ReceiptSpec => []ReceiptInv
<1>1. ReceiptInit => ReceiptInv
  BY InitReceiptInv
<1>2. ReceiptInv /\ [ReceiptNext]_receiptVars => ReceiptInv'
  BY NextReceiptInv
<1> QED
  BY <1>1, <1>2, PTL DEF ReceiptSpec

-----------------------------------------------------------------------------
(* Receipts: theorems.                                                     *)

\* The update of a receipt is the change that the command was going to make.
LEMMA UpdateIsChange ==
  ASSUME ReceiptInv, ReceiptNext, NEW p \in Sentinels, NEW path \in Paths, Updates(p, path)
  PROVE  /\ writer[p].path = path /\ Changed(p) # Refused /\ ~Unchanged(p)
         /\ receipts'[path] = Changed(p) /\ PublishReceipt(p)
<1>1. /\ writer[p] # NoCommand /\ writer[p].phase = "locked" /\ writer[p].path = path
      /\ writer'[p] # writer[p] /\ receipts'[path] # receipts[path]
  BY DEF Updates
<1>2. writer \in [Sentinels -> Commands \union {NoCommand}]
  BY DEF ReceiptInv, ReceiptTypeOK
<1>3. ASSUME NEW q \in Sentinels, NEW other \in Paths, StartCommand(q, other)
      PROVE  FALSE
  <2>1. receipts' = receipts
    BY <1>3 DEF StartCommand, StartUpdate, StartCallback, StartFork, BeginCommand
  <2> QED
    BY <1>1, <2>1
<1>4. ASSUME NEW q \in Sentinels, Lock(q) \/ ChildEnds(q) \/ FailCommand(q)
      PROVE  FALSE
  BY <1>1, <1>4 DEF Lock, ChildEnds, FailCommand
<1>5. ASSUME NEW q \in Sentinels, SaveFork(q)
      PROVE  FALSE
  BY <1>1, <1>2, <1>5 DEF SaveFork
<1>6. ASSUME NEW other \in Paths, Bootstrap(other)
      PROVE  FALSE
  BY <1>1, <1>6 DEF Bootstrap
<1>7. ~Tick
  BY <1>1 DEF Tick
<1>8. PICK q \in Sentinels : PublishReceipt(q)
  BY <1>3, <1>4, <1>5, <1>6, <1>7 DEF ReceiptNext
<1>9. q = p
  BY <1>1, <1>2, <1>8 DEF PublishReceipt
<1>10. receipts \in [Paths -> Receipts \union {Null}]
  BY DEF ReceiptInv, ReceiptTypeOK
<1> QED
  BY <1>1, <1>8, <1>9, <1>10 DEF PublishReceipt

\* A locked update only adds to the receipt that is there (run/update.go:9).
THEOREM ReceiptsGrow == ReceiptSpec => ReceiptGrows
<1>1. ASSUME ReceiptInv, ReceiptNext, NEW p \in Sentinels, NEW path \in Paths,
             Updates(p, path), path \notin intruded
      PROVE  LET old == receipts[path]
                 new == receipts'[path] IN
             /\ new.run = old.run /\ old.artifacts \subseteq new.artifacts
             /\ IsPrefix(old.events, new.events)
             /\ \A i, j \in DOMAIN new.events : i < j => new.events[i].at <= new.events[j].at
             /\ old.status \in Terminal => new.status \in {old.status, "cleaned"}
  <2> DEFINE old == receipts[path]
             new == receipts'[path]
  <2>1. /\ writer[p] # NoCommand /\ writer[p].phase = "locked" /\ writer[p].path = path
        /\ new = Changed(p) /\ Changed(p) # Refused
    BY <1>1, UpdateIsChange DEF Updates
  <2>2. writer[p].base = old /\ Sound(writer[p].base)
    BY <1>1, <2>1 DEF ReceiptInv, Locking
  <2>3. Sound(old) /\ Sound(new) /\ Grows(old, new)
    BY <1>1, <2>1, <2>2, ChangeLeads DEF Leads
  <2> HIDE DEF old, new
  <2>4. IsPrefix(old.events, new.events)
    <3>1. /\ old.events \in Seq(HostEvents \union OwnEvents)
          /\ new.events \in Seq(HostEvents \union OwnEvents)
      BY <2>3 DEF Sound, Receipts
    <3>2. /\ Len(old.events) <= Len(new.events)
          /\ \A i \in 1..Len(old.events) : new.events[i] = old.events[i]
      BY <2>3 DEF Grows
    <3>3. SubSeq(old.events, 1, Len(old.events)) = SubSeq(new.events, 1, Len(old.events))
      BY <3>1, <3>2
    <3> QED
      BY <3>2, <3>3 DEF IsPrefix
  <2> QED
    BY <2>3, <2>4 DEF Sound, Sorted, Grows, old, new
<1>2. ReceiptInv /\ [ReceiptNext]_receiptVars =>
        [\A p \in Sentinels, path \in Paths :
           (Updates(p, path) /\ path \notin intruded) =>
             LET old == receipts[path]
                 new == receipts'[path] IN
             /\ new.run = old.run /\ old.artifacts \subseteq new.artifacts
             /\ IsPrefix(old.events, new.events)
             /\ \A i, j \in DOMAIN new.events : i < j => new.events[i].at <= new.events[j].at
             /\ old.status \in Terminal => new.status \in {old.status, "cleaned"}]_receiptVars
  BY <1>1, Zenon
<1> QED
  BY <1>2, ReceiptInvariant, PTL DEF ReceiptSpec, ReceiptGrows

\* A callback is applied whole, once, in its window and to its run
\* (callbackauth.go:205-207).
THEOREM CallbacksAreCurrent == ReceiptSpec => CallbackIsCurrent
<1>1. ASSUME ReceiptInv, ReceiptNext, NEW p \in Sentinels, NEW path \in Paths,
             Updates(p, path), writer[p].kind = "callback"
      PROVE  LET new == receipts'[path]
                 envelope == writer[p].arg IN
             /\ new.run = envelope.run /\ clock < envelope.expires
             /\ ToSet(envelope.events) \subseteq ToSet(new.events)
             /\ \A i, j \in Sourced(new) : new.events[i].source = new.events[j].source => i = j
  <2> DEFINE new == receipts'[path]
             envelope == writer[p].arg
             base == writer[p].base
  <2>1. /\ writer[p] # NoCommand /\ writer[p].phase = "locked"
        /\ new = Changed(p) /\ Changed(p) # Refused /\ new # base
    BY <1>1, UpdateIsChange DEF Updates, Unchanged
  <2>2. Sound(base) /\ envelope \in Callbacks
    BY <1>1, <2>1 DEF ReceiptInv, Given
  <2>3. InWindow(envelope, clock) /\ new = ApplyAll(base, envelope)
    BY <1>1, <2>1 DEF Changed, LockedNow
  <2> HIDE DEF new, envelope, base
  <2>4. /\ Sound(new) /\ Grows(base, new)
        /\ ToSet(envelope.events) \subseteq ToSet(new.events) /\ base.run = envelope.run
    BY <2>1, <2>2, <2>3, LeadsByBatch DEF Leads
  <2>5. new.run = envelope.run /\ clock < envelope.expires
    BY <2>3, <2>4 DEF Grows, InWindow
  <2> QED
    BY <2>4, <2>5 DEF Sound, Valid, new, envelope
<1>2. ReceiptInv /\ [ReceiptNext]_receiptVars =>
        [\A p \in Sentinels, path \in Paths :
           (Updates(p, path) /\ writer[p].kind = "callback") =>
             LET new == receipts'[path]
                 envelope == writer[p].arg IN
             /\ new.run = envelope.run /\ clock < envelope.expires
             /\ ToSet(envelope.events) \subseteq ToSet(new.events)
             /\ \A i, j \in Sourced(new) : new.events[i].source = new.events[j].source => i = j]_receiptVars
  BY <1>1, Zenon
<1> QED
  BY <1>2, ReceiptInvariant, PTL DEF ReceiptSpec, CallbackIsCurrent
================================================================================
