----------------------------- MODULE RoleExecution -----------------------------
(***************************************************************************)
(* `sentinel role execute` (internal/roleexec): an execution ID is claimed *)
(* by an exclusive file, the pinned inputs are read again, a child runs in *)
(* a process group of its own, with a broker or without one, and a report  *)
(* is linked that collectors verify (evidence).  Invocations may be handed *)
(* the same ID and may die between any two steps; the child goes on then.  *)
(* Both captures of a child are one, whose contents are the number of      *)
(* writes to it.                                                           *)
(***************************************************************************)
EXTENDS Naturals, Sequences

CONSTANTS
  Executions,      \* invocations
  ExecutionIds,        \* execution IDs
  Requests,   \* what they are asked: [id, executable, agent, broker, governed]
  Editable,   \* the pinned inputs that somebody edits and restores
  None,
  MaxEdits,   \* bounds
  MaxWrites

ASSUME RoleAssumption ==
  /\ \A r \in Requests : r.id \in ExecutionIds /\ r.executable \notin {None, "empty"}
  /\ \A r \in Requests : r.agent \in BOOLEAN /\ r.broker \in BOOLEAN /\ r.governed \in BOOLEAN
  /\ None \notin Nat /\ None \notin {"0", "1", "signaled"} /\ None # "empty"

VARIABLES
  changed,                             \* inputs that are not what was pinned
  edits,
  claims, scratch, prompts, captures, reports,  \* the files of each ID
  pc,                                  \* where each invocation is
  inv,                                 \* and what it knows
  exit,                                \* its child: "none", "unstarted", "running" or how it ended
  helper,                              \* what the child forked: "none", "group", "outside"
  stale                                \* history: inputs changed ever since the claim

inputVars == <<changed, edits>>
idFiles   == <<claims, scratch, prompts, captures, reports>>
childVars == <<exit, helper>>
roleVars == <<inputVars, idFiles, pc, inv, childVars, stale>>

\* `next` is the place of the input that is read next, `told` whether Wait gave
\* an exit status, `capture` the digest of the captures and whether syncing,
\* closing or hashing them failed.
Invocation(req) ==
  [req |-> req, next |-> 1, broker |-> "none", interrupted |-> FALSE, told |-> TRUE,
   capture |-> [digest |-> None, failed |-> TRUE]]

RoleInit ==
  /\ changed = {} /\ edits = 0
  /\ claims = [id \in ExecutionIds |-> None] /\ scratch = {} /\ prompts = {}
  /\ captures = [id \in ExecutionIds |-> None] /\ reports = [id \in ExecutionIds |-> None]
  /\ pc = [p \in Executions |-> "idle"] /\ inv = [p \in Executions |-> None]
  /\ exit = [p \in Executions |-> "none"] /\ helper = [p \in Executions |-> "none"]
  /\ stale = [p \in Executions |-> {}]

Req(p) == inv[p].req
Id(p)  == inv[p].req.id

Step(p, from, to) == pc[p] = from /\ pc' = [pc EXCEPT ![p] = to]

\* An error return.
Refuse(p, from) == Step(p, from, "ended") /\ UNCHANGED inv

-----------------------------------------------------------------------------
(* Inputs, in the order in which verifyLaunchInputs reads them.            *)

Order == <<"manifest", "prompt", "policy", "executable", "tools", "gate">>

Pinned(req) ==
  {"manifest", "policy", "executable", "tools"}
    \union (IF req.agent THEN {"prompt"} ELSE {}) \union (IF req.governed THEN {"gate"} ELSE {})

\* Mutant: the policy is taken as it was before the claim.
LaunchChecksButPolicy(req) == Pinned(req) \ {"policy"}

LaunchChecks(req) == Pinned(req)

Edit(k) ==
  /\ edits < MaxEdits /\ edits' = edits + 1
  /\ IF k \in changed
     THEN /\ changed' = changed \ {k}
          /\ stale' = [p \in Executions |-> stale[p] \ {k}]
     ELSE changed' = changed \union {k} /\ UNCHANGED stale
  /\ UNCHANGED <<idFiles, pc, inv, childVars>>

-----------------------------------------------------------------------------
(* Claim and launch.                                                       *)

\* The reads of the preparation are one step: it passes only if every input is
\* what was pinned and the ID has left neither scratch nor prompt.
Prepare(p) ==
  /\ Step(p, "idle", "claim")
  /\ \E req \in Requests :
       /\ changed \intersect Pinned(req) = {}
       /\ req.id \notin scratch /\ (req.agent => req.id \notin prompts)
       /\ inv' = [inv EXCEPT ![p] = Invocation(req)]
  /\ UNCHANGED <<inputVars, idFiles, childVars, stale>>

\* Mutant: the claim is created without O_EXCL.
UnclaimedOrTaken(id) == TRUE

Unclaimed(id) == claims[id] = None

Claim(p) ==
  /\ \/ /\ Step(p, "claim", "claimed") /\ Unclaimed(Id(p))
        /\ claims' = [claims EXCEPT ![Id(p)] = "empty"]
        /\ stale' = [stale EXCEPT ![p] = changed]
        /\ UNCHANGED inv
     \/ Refuse(p, "claim") /\ ~Unclaimed(Id(p)) /\ UNCHANGED <<claims, stale>>
  /\ UNCHANGED <<inputVars, scratch, prompts, captures, reports, childVars>>

WriteClaim(p) ==
  /\ Step(p, "claimed", "private")
  /\ claims' = [claims EXCEPT ![Id(p)] = Req(p).executable]
  /\ UNCHANGED <<inputVars, scratch, prompts, captures, reports, inv, childVars, stale>>

\* The scratch directories and the prompt snapshot, which is linked.
Private(p) ==
  /\ \/ Step(p, "private", "capture") /\ (Req(p).agent => Id(p) \notin prompts) /\ UNCHANGED inv
     \/ Refuse(p, "private") /\ Req(p).agent /\ Id(p) \in prompts
  /\ scratch' = scratch \union {Id(p)}
  /\ prompts' = IF Req(p).agent THEN prompts \union {Id(p)} ELSE prompts
  /\ UNCHANGED <<inputVars, claims, captures, reports, childVars, stale>>

Capture(p) ==
  /\ \/ /\ Step(p, "capture", "check") /\ captures[Id(p)] = None
        /\ captures' = [captures EXCEPT ![Id(p)] = 0]
        /\ UNCHANGED inv
     \/ Refuse(p, "capture") /\ captures[Id(p)] # None /\ UNCHANGED captures
  /\ UNCHANGED <<inputVars, claims, scratch, prompts, reports, childVars, stale>>

\* The inputs are read one after the other; what has changed ends the execution
\* without a report.
Check(p) ==
  /\ pc[p] = "check"
  /\ \/ /\ inv[p].next > Len(Order)
        /\ Step(p, "check", IF Req(p).broker THEN "broker" ELSE "start")
        /\ UNCHANGED inv
     \/ /\ inv[p].next <= Len(Order)
        /\ LET changedNow == Order[inv[p].next] \in LaunchChecks(Req(p)) \intersect changed IN
           \/ changedNow /\ Refuse(p, "check")
           \/ ~changedNow /\ Step(p, "check", "check") /\ inv' = [inv EXCEPT ![p].next = @ + 1]
  /\ UNCHANGED <<inputVars, idFiles, childVars, stale>>

\* The broker starts, or does not, or not at the endpoint that was pinned.
Broker(p) ==
  /\ \E outcome \in {"unavailable", "mismatched", "open"} :
       /\ Step(p, "broker", IF outcome = "open" THEN "start" ELSE "drain")
       /\ inv' = [inv EXCEPT ![p].broker = outcome]
       /\ exit' = IF outcome = "open" THEN exit ELSE [exit EXCEPT ![p] = "unstarted"]
  /\ UNCHANGED <<inputVars, idFiles, helper, stale>>

Start(p) ==
  /\ \/ Step(p, "start", "wait") /\ exit' = [exit EXCEPT ![p] = "running"]
     \/ Step(p, "start", "drain") /\ exit' = [exit EXCEPT ![p] = "unstarted"]
  /\ UNCHANGED <<inputVars, idFiles, inv, helper, stale>>

-----------------------------------------------------------------------------
(* The child (external) and what it forks.                                 *)

Alive(p) == exit[p] = "running" \/ helper[p] # "none"

Fork(p) ==
  /\ exit[p] = "running" /\ helper[p] = "none"
  /\ \E kind \in {"group", "outside"} : helper' = [helper EXCEPT ![p] = kind]
  /\ UNCHANGED <<inputVars, idFiles, pc, inv, exit, stale>>

Write(p) ==
  /\ Alive(p) /\ captures[Id(p)] < MaxWrites
  /\ captures' = [captures EXCEPT ![Id(p)] = @ + 1]
  /\ UNCHANGED <<inputVars, claims, scratch, prompts, reports, pc, inv, childVars, stale>>

Exits(p) ==
  /\ exit[p] = "running"
  /\ \E how \in {"0", "1", "signaled"} : exit' = [exit EXCEPT ![p] = how]
  /\ UNCHANGED <<inputVars, idFiles, pc, inv, helper, stale>>

-----------------------------------------------------------------------------
(* runWithCancellation.                                                    *)

\* A signal, or the end of the time the broker was given, is passed on to the
\* group.  The leader may have ended, and not been waited for, by then.
Interrupt(p) ==
  /\ pc[p] = "wait" /\ ~inv[p].interrupted
  /\ inv' = [inv EXCEPT ![p].interrupted = TRUE]
  /\ UNCHANGED <<inputVars, idFiles, pc, childVars, stale>>

\* What a kill of the group leaves of the helper.
HelperLeft(p) == IF helper[p] = "group" THEN "none" ELSE helper[p]

KillAfter(p) ==
  /\ pc[p] = "wait" /\ inv[p].interrupted
  /\ exit' = [exit EXCEPT ![p] = IF @ = "running" THEN "signaled" ELSE @]
  /\ helper' = [helper EXCEPT ![p] = HelperLeft(p)]
  /\ UNCHANGED <<inputVars, idFiles, pc, inv, stale>>

\* Wait has returned: what is left of the group is terminated and killed.
Done(p) ==
  /\ Step(p, "wait", "drain") /\ exit[p] # "running"
  /\ \E told \in BOOLEAN : inv' = [inv EXCEPT ![p].told = told]
  /\ helper' = [helper EXCEPT ![p] = HelperLeft(p)]
  /\ UNCHANGED <<inputVars, idFiles, exit, stale>>

-----------------------------------------------------------------------------
(* The report.                                                             *)

\* Close gives an error when it cannot wait for the broker any longer.
Drain(p) ==
  /\ Step(p, "drain", "digest")
  /\ \/ inv[p].broker \in {"none", "unavailable"} /\ UNCHANGED inv
     \/ inv[p].broker = "open" /\ inv' = [inv EXCEPT ![p].broker = "closed"]
     \/ inv[p].broker = "mismatched" /\ inv' = [inv EXCEPT ![p].broker = "indeterminate"]
     \/ inv[p].broker \in {"open", "mismatched"} /\ inv' = [inv EXCEPT ![p].broker = "undrained"]
  /\ UNCHANGED <<inputVars, idFiles, childVars, stale>>

\* Sync, close and hash: the digest is known, with an error or without, or not.
Digest(p) ==
  /\ Step(p, "digest", "report")
  /\ \E digest \in {captures[Id(p)], None}, failed \in BOOLEAN :
       /\ digest = None => failed
       /\ inv' = [inv EXCEPT ![p].capture = [digest |-> digest, failed |-> failed]]
  /\ UNCHANGED <<inputVars, idFiles, childVars, stale>>

ReportedBroker(p) == IF inv[p].broker = "undrained" THEN "indeterminate" ELSE inv[p].broker

\* Mutant: no exit code is reported of a child that was interrupted.
ExitCodeUnlessInterrupted(p) ==
  IF exit[p] = "unstarted" \/ ~inv[p].told \/ inv[p].interrupted THEN None ELSE exit[p]

\* A child that ended by a signal has exit code -1.
ExitCode(p) == IF exit[p] = "unstarted" \/ ~inv[p].told THEN None ELSE exit[p]

Status(p) ==
  IF inv[p].capture.failed \/ inv[p].broker = "undrained" THEN "indeterminate"
  ELSE IF exit[p] = "unstarted" THEN "failed"
  ELSE IF inv[p].interrupted THEN "canceled"
  ELSE IF inv[p].told /\ exit[p] = "0" THEN "completed" ELSE "failed"

\* `by` is the invocation, which a reader does not know.
Report(p) ==
  [by |-> p, executable |-> Req(p).executable, status |-> Status(p), code |-> ExitCode(p),
   unstarted |-> exit[p] = "unstarted", digest |-> inv[p].capture.digest,
   broker |-> ReportedBroker(p)]

\* The report is linked; when that or the sync of the directory fails there is none.
Publish(p) ==
  /\ \/ /\ Step(p, "report", "ended") /\ reports[Id(p)] = None
        /\ reports' = [reports EXCEPT ![Id(p)] = Report(p)]
     \/ Step(p, "report", "ended") /\ UNCHANGED reports
  /\ UNCHANGED <<inputVars, claims, scratch, prompts, captures, inv, childVars, stale>>

Serving(p) == inv[p].broker \in {"open", "mismatched"}

\* Whatever ends the invocation, and its broker with it: a crash, a kill, a
\* signal outside of the wait, an error of a file before the child is started.
Die(p) ==
  /\ pc[p] \notin {"idle", "ended"} /\ pc' = [pc EXCEPT ![p] = "ended"]
  /\ inv' = IF Serving(p) THEN [inv EXCEPT ![p].broker = "gone"] ELSE inv
  /\ UNCHANGED <<inputVars, idFiles, childVars, stale>>

RoleNext ==
  \/ \E p \in Executions :
       \/ Prepare(p) \/ Claim(p) \/ WriteClaim(p) \/ Private(p) \/ Capture(p) \/ Check(p)
       \/ Broker(p) \/ Start(p) \/ Interrupt(p) \/ KillAfter(p) \/ Done(p)
       \/ Drain(p) \/ Digest(p) \/ Publish(p) \/ Die(p)
       \/ Fork(p) \/ Write(p) \/ Exits(p)
  \/ \E k \in Editable : Edit(k)

RoleSpec == RoleInit /\ [][RoleNext]_roleVars

-----------------------------------------------------------------------------
(* What a collector asks of a report (evidence.Verify), but for the inputs *)
(* that the report names, which may change at any time.                    *)

BrokerAccepted(r, req) ==
  /\ (r.broker = "none") = ~req.broker
  /\ r.broker = "unavailable" => r.status \in {"failed", "indeterminate"} /\ r.code = None
  /\ r.broker \in {"none", "unavailable", "closed", "indeterminate"}
  /\ r.status = "completed" /\ req.broker => r.broker = "closed"

Accepted(id) ==
  LET r == reports[id] IN
  /\ r.status # "indeterminate" => r.digest # None
  /\ r.status = "completed" => r.code = "0"
  /\ r.status = "failed" => r.code # "0" /\ (r.code = None => r.unstarted)
  /\ r.status = "canceled" => r.code # None
  /\ r.digest # None => r.digest = captures[id]
  /\ BrokerAccepted(r, Req(r.by))

-----------------------------------------------------------------------------
(* Properties.                                                             *)

Launched(p) == exit[p] \notin {"none", "unstarted"}

\* However many invocations share an ID and wherever they die, one child is
\* launched for it, the claim names the executable of the report, and the report
\* tells how the child ended: completed of its own accord with code 0 and its
\* broker closed, or not; by then nothing of its group runs, nor the broker
\* (roleexec.go:585-778).
ReportIsTrue ==
  /\ \A p, q \in Executions : (Launched(p) /\ Launched(q) /\ Id(p) = Id(q)) => p = q
  /\ \A id \in ExecutionIds : reports[id] # None =>
       LET r == reports[id]
           p == r.by IN
       /\ claims[id] = r.executable
       /\ exit[p] # "running" /\ helper[p] # "group" /\ ~Serving(p)
       /\ r.status = "completed" => exit[p] = "0" /\ ~inv[p].interrupted
       /\ r.status = "failed" => exit[p] # "0" \/ ~inv[p].told

\* Every report that is published is one that collectors accept, captures
\* included, unless Wait failed or a process that left the group of the child
\* writes on (evidence.go:440-560, roleexec.go:733-757).
ReportVerifies ==
  \A id \in ExecutionIds : reports[id] # None =>
    LET p == reports[id].by IN
    (inv[p].told \/ reports[id].status = "indeterminate") /\ helper[p] # "outside" => Accepted(id)

\* A child is launched only if each of its inputs was, at some moment after the
\* ID was claimed, what had been pinned (roleexec.go:512, verifyLaunchInputs).
LaunchIsChecked ==
  [][\A p \in Executions :
       (exit[p] = "none" /\ exit'[p] = "running") => stale[p] \intersect Pinned(Req(p)) = {}]_roleVars
===============================================================================
