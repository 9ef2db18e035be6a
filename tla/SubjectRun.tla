------------------------------ MODULE SubjectRun ------------------------------
(***************************************************************************)
(* sorna run on a subject it manages: successive invocations of the        *)
(* command, each of which launches a process in a group of its own, polls  *)
(* its readiness endpoint, sends the cases, stops the process and writes   *)
(* the evidence bundle file by file.  The subject comes and goes as it     *)
(* likes, may fork a helper, and the invocation itself may die at any      *)
(* point, leaving the subject and the half-written bundle behind.          *)
(*                                                                         *)
(* Run r is plan[r]: [mutation, broken, out, base], where broken is the    *)
(* set of rules the subject of that run violates, out the output directory *)
(* and base the directory of the baseline of a mutation run.               *)
(***************************************************************************)
EXTENDS RunVerdict, FiniteSets

CONSTANTS Rules,         \* the cases of the oracle are Rules, 1..n, in order
          Cases,         \* [Rules -> [isolated, setup, prohibited]]
          Expected,      \* the rules a mutation is expected to break
          Dirs,          \* output directories
          Invocations,   \* how many invocations there are
          Plans,         \* what they may be: sequences of that length
          HelperKinds,   \* what the subject may fork, see below
          Sandboxed,     \* the executable of the subject is verified after Start
          Crashes        \* how many invocations may die

Runs == 1..Invocations

Invocation == [mutation : BOOLEAN, broken : SUBSET Rules, out : Dirs, base : Dirs]

(* A helper is in the subject's process group or outside of it, and may     *)
(* hold the pipe that is the subject's standard error.                      *)
InGroup == {"group", "group-held"}
Held    == {"group-held", "outside-held"}

ASSUME SubjectAssumption ==
    /\ Rules = 1..Cardinality(Rules) /\ IsFiniteSet(Rules) /\ Rules # {}
    /\ Cases \in [Rules -> [isolated : BOOLEAN, setup : BOOLEAN, prohibited : BOOLEAN]]
    /\ Invocations \in Nat
    /\ Plans \subseteq [Runs -> Invocation]
    /\ \A p \in Plans : \A r \in Runs : p[r].mutation => p[r].base # p[r].out
    /\ HelperKinds \subseteq (InGroup \cup {"outside", "outside-held"})
    /\ Expected \subseteq Rules /\ Expected # {}
    /\ Sandboxed \in BOOLEAN
    /\ Crashes \in Nat

VARIABLES plan,      \* what each invocation is
          run,       \* the current or next invocation
          pc,        \* where its main goroutine is
          leader,    \* the process each run launched
          helper,    \* what that process forked
          waiter,    \* the goroutine that waits for the process
          stopAsked, \* Process.stopAsked of the current run
          why,       \* what Close was called for
          outcome,   \* Record.Outcome of each run
          address,   \* the run whose subject serves the address, 0 for nobody
          rule,      \* the case being executed
          reply,     \* the answers to its requests so far
          results,   \* statuses of the cases executed so far
          by,        \* who answered the target request of each rule
          record,    \* the run records
          files,     \* the bundle in each directory, as run numbers, 0 torn or absent
          exit,      \* how each invocation ended
          crashes

subject == <<leader, helper, address>>
process == <<waiter, stopAsked, why, outcome>>
local   == <<rule, reply, results, by>>
vars    == <<plan, run, pc, subject, process, local, record, files, exit, crashes>>

NoReply  == [isolation |-> "none", setup |-> "none", target |-> "none"]
NoRecord == [verdict |-> "none", mutation |-> "none", base |-> 0]
NoBundle == [run |-> 0, lifecycle |-> 0, manifest |-> 0,
             sums |-> [run |-> 0, lifecycle |-> 0, manifest |-> 0]]

Current == plan[run]

(***************************************************************************)
(* evidence.Verify: what the checksums list, which is the lifecycle at     *)
(* least, is as listed, and manifest and run record carry one run ID.  A   *)
(* list cut between two of its lines verifies.                             *)
(***************************************************************************)
Verified(d) ==
    LET f == files[d]
    IN  /\ f.sums.lifecycle # 0
        /\ \A file \in {"lifecycle", "manifest", "run"} : f.sums[file] \in {0, f[file]}
        /\ f.manifest # 0 /\ f.manifest = f.run

ValidBaseline(d) ==
    /\ Verified(d)
    /\ record[files[d].run].verdict = "pass"
    /\ ~plan[files[d].run].mutation

(***************************************************************************)
(* The subject, at its own pace.                                           *)
(***************************************************************************)
HelperAlive(r) == helper[r] \in HelperKinds

Bind(r) ==
    /\ leader[r] = "alive" /\ address = 0
    /\ address' = r
    /\ UNCHANGED <<leader, helper>>

Fork(r) ==
    /\ leader[r] = "alive" /\ helper[r] = "none"
    /\ \E kind \in HelperKinds : helper' = [helper EXCEPT ![r] = kind]
    /\ UNCHANGED <<leader, address>>

(* A helper inherits the listening socket and may go on serving.            *)
Exits(r) ==
    /\ leader[r] = "alive"
    /\ leader' = [leader EXCEPT ![r] = "exited"]
    /\ address' \in IF address # r THEN {address} ELSE IF HelperAlive(r) THEN {0, r} ELSE {0}
    /\ UNCHANGED helper

HelperExits(r) ==
    /\ HelperAlive(r)
    /\ helper' = [helper EXCEPT ![r] = "gone"]
    /\ address' \in IF address = r /\ leader[r] # "alive" THEN {0} ELSE {address}
    /\ UNCHANGED leader

SubjectStep ==
    /\ \E r \in Runs : Bind(r) \/ Fork(r) \/ Exits(r) \/ HelperExits(r)
    /\ UNCHANGED <<plan, run, pc, process, local, record, files, exit, crashes>>

(***************************************************************************)
(* The waiter: cmd.Wait reaps the process and then waits for the end of    *)
(* its standard error; the fields are set under the mutex, done is closed  *)
(* afterwards.                                                             *)
(***************************************************************************)
Reap(r) ==
    /\ leader[r] = "exited"
    /\ leader' = [leader EXCEPT ![r] = "reaped"]
    /\ UNCHANGED <<plan, run, pc, helper, address, process, local, record, files, exit, crashes>>

WaiterRecords ==
    /\ pc # "idle" /\ waiter = "waiting"
    /\ leader[run] = "reaped" /\ helper[run] \notin Held
    /\ waiter' = "recorded"
    /\ outcome' = IF stopAsked THEN outcome ELSE [outcome EXCEPT ![run] = "exited"]
    /\ UNCHANGED <<plan, run, pc, subject, stopAsked, why, local, record, files, exit, crashes>>

WaiterCloses ==
    /\ pc # "idle" /\ waiter = "recorded"
    /\ waiter' = "closed"
    /\ UNCHANGED <<plan, run, pc, subject, stopAsked, why, outcome, local, record, files, exit, crashes>>

Done == waiter = "closed"

(***************************************************************************)
(* The command.                                                            *)
(***************************************************************************)
Stay == UNCHANGED <<plan, run, exit>>

GoTo(next) == pc' = next /\ Stay /\ UNCHANGED local

(* What an invocation holds in memory.                                      *)
Fresh ==
    /\ rule' = 1 /\ reply' = NoReply
    /\ results' = [r \in Rules |-> "none"] /\ by' = [r \in Rules |-> 0]

End(code) ==
    /\ exit' = [exit EXCEPT ![run] = code]
    /\ run' = run + 1
    /\ pc' = "idle"
    /\ Fresh
    /\ UNCHANGED plan

(* runSubject up to the launch: a mutation run needs a valid baseline.      *)
Begin ==
    /\ pc = "idle" /\ run \in Runs
    /\ waiter' = "waiting" /\ stopAsked' = FALSE /\ why' = "none"
    /\ \/ /\ Current.mutation => ValidBaseline(Current.base)
          /\ leader' = [leader EXCEPT ![run] = "alive"]
          /\ outcome' = [outcome EXCEPT ![run] = "starting"]
          /\ record' = [record EXCEPT ![run].base =
                            IF Current.mutation THEN files[Current.base].run ELSE 0]
          /\ GoTo("check")
       \/ /\ Current.mutation /\ ~ValidBaseline(Current.base)
          /\ End(1)
          /\ UNCHANGED <<leader, outcome, record>>
    /\ UNCHANGED <<helper, address, files, crashes>>

(* The loop of Start: a look at done, a probe, then done, deadline or tick. *)
CheckDone ==
    /\ pc = "check"
    /\ \/ /\ Done
          /\ outcome' = [outcome EXCEPT ![run] = "exited-before-ready"]
          /\ End(1)
       \/ /\ ~Done
          /\ GoTo("probe")
          /\ UNCHANGED outcome
    /\ UNCHANGED <<subject, waiter, stopAsked, why, record, files, crashes>>

Probe ==
    /\ pc = "probe"
    /\ \/ /\ address # 0
          /\ outcome' = [outcome EXCEPT ![run] = "ready"]
          /\ GoTo(IF Sandboxed THEN "verify" ELSE "cases")
       \/ /\ GoTo("pause")
          /\ UNCHANGED outcome
    /\ UNCHANGED <<subject, waiter, stopAsked, why, record, files, crashes>>

Tick ==
    /\ pc = "pause"
    /\ GoTo("check")
    /\ UNCHANGED <<subject, process, record, files, crashes>>

(* Close first sets stopAsked; a start that is given up ends in it.         *)
CallClose(reason) == stopAsked' = TRUE /\ why' = reason /\ GoTo("interrupt")

Abandon(from) ==
    /\ pc = from
    /\ CallClose("abandon")
    /\ UNCHANGED <<subject, waiter, outcome, record, files, crashes>>

StartupTimeout == Abandon("pause")

(* The running executable is compared with the one the policy allows.       *)
VerifyExecutable ==
    \/ Abandon("verify")
    \/ /\ pc = "verify"
       /\ GoTo("cases")
       /\ UNCHANGED <<subject, process, record, files, crashes>>

(***************************************************************************)
(* The cases.  One request is one step: whoever serves the address answers *)
(* it, or it is refused.                                                   *)
(***************************************************************************)
TargetReply(r) ==
    {"refused"} \cup IF address = 0 THEN {}
                     ELSE {IF (r \in plan[address].broken) = Cases[r].prohibited
                           THEN "met" ELSE "unmet"}

Replies(stage) ==
    {"refused"} \cup IF address = 0 THEN {} ELSE
                     IF stage = "isolation" THEN {"2xx", "other"} ELSE {"met", "unmet"}

Request(stage) ==
    /\ reply[stage] = "none"
    /\ \E answer \in Replies(stage) : reply' = [reply EXCEPT ![stage] = answer]
    /\ UNCHANGED <<rule, results, by>>

Finish(answer, who) ==
    /\ results' = [results EXCEPT ![rule] = CaseStatus(Cases[rule], answer)]
    /\ by' = [by EXCEPT ![rule] = who]
    /\ rule' = rule + 1
    /\ reply' = NoReply

ExecuteCase ==
    /\ pc = "cases" /\ rule \in Rules
    /\ \/ Cases[rule].isolated /\ Request("isolation")
       \/ /\ Cases[rule].isolated => reply.isolation = "2xx"
          /\ Cases[rule].setup /\ Request("setup")
       \/ /\ ~Reached(Cases[rule], reply)
          /\ Cases[rule].isolated => reply.isolation # "none"
          /\ reply.isolation \in {"none", "2xx"} => reply.setup # "none"
          /\ Finish(reply, 0)
       \/ /\ Reached(Cases[rule], reply)
          /\ \E answer \in TargetReply(rule) :
                Finish([reply EXCEPT !.target = answer], IF answer = "refused" THEN 0 ELSE address)
    /\ Stay
    /\ UNCHANGED <<pc, subject, process, record, files, crashes>>

(* executeCases ends with the classification and the verdict.               *)
Conclude ==
    /\ pc = "cases" /\ rule \notin Rules
    /\ record' = [record EXCEPT ![run].verdict = VerdictFor(results),
                                ![run].mutation = IF Current.mutation
                                                  THEN Classify(Expected, results) ELSE "none"]
    /\ CallClose("stop")
    /\ UNCHANGED <<subject, waiter, outcome, files, crashes>>

(***************************************************************************)
(* Process.Close, for a start given up (why = "abandon", whose error       *)
(* nobody looks at) and for the end of a run (why = "stop").               *)
(***************************************************************************)

(* A signal to the group fails when no process of it is left.               *)
GroupExists == leader[run] # "reaped" \/ helper[run] \in InGroup

(* Fault: a run whose process could not be stopped is recorded.             *)
ClosedAnyway(ok) == IF why = "stop" THEN GoTo("write-run") ELSE End(1)

(* A stopped run is recorded; one that could not be stopped is not, and an  *)
(* abandoned start is reported.                                             *)
Closed(ok) == IF why = "stop" /\ ok THEN GoTo("write-run") ELSE End(1)

(* Fault: the process is not waited for.                                    *)
FinishStopUnwaited(how) ==
    /\ outcome' = [outcome EXCEPT ![run] = how]
    /\ Closed(TRUE)
    /\ UNCHANGED subject

FinishStop(how) ==
    /\ Done
    /\ outcome' = [outcome EXCEPT ![run] = how]
    /\ Closed(TRUE)
    /\ UNCHANGED subject

(* done, or SIGINT to the group.                                            *)
Interrupt ==
    /\ pc = "interrupt"
    /\ \/ FinishStop("stopped")
       \/ /\ ~Done
          /\ GoTo(IF GroupExists THEN "signalled" ELSE "missed")
          /\ UNCHANGED <<subject, outcome>>

(* The second look at done after a signal that found nobody.                *)
SignalFailed ==
    /\ pc \in {"missed", "kill-missed"}
    /\ \/ FinishStop(IF pc = "missed" THEN "stopped" ELSE "killed")
       \/ ~Done /\ Closed(FALSE) /\ UNCHANGED <<subject, outcome>>

(* done within the shutdown window, or without a limit after the kill.      *)
StopSeen ==
    /\ pc \in {"signalled", "killed"}
    /\ FinishStop(IF pc = "signalled" THEN "stopped" ELSE "killed")

(* Fault: the process is killed, its group is not.                          *)
EscalateAlone ==
    /\ pc = "signalled"
    /\ leader' = [leader EXCEPT ![run] = IF @ = "alive" THEN "exited" ELSE @]
    /\ address' = IF address = run THEN 0 ELSE address
    /\ GoTo("killed")
    /\ UNCHANGED <<helper, outcome>>

(* The shutdown window has passed: the whole group is killed.               *)
Escalate ==
    /\ pc = "signalled"
    /\ IF GroupExists
       THEN /\ leader' = [leader EXCEPT ![run] = IF @ = "alive" THEN "exited" ELSE @]
            /\ helper' = [helper EXCEPT ![run] = IF @ \in InGroup THEN "gone" ELSE @]
            /\ address' \in IF address # run THEN {address}
                            ELSE IF helper'[run] \in HelperKinds THEN {0, run} ELSE {0}
            /\ GoTo("killed")
       ELSE GoTo("kill-missed") /\ UNCHANGED subject
    /\ UNCHANGED outcome

Close ==
    /\ Interrupt \/ SignalFailed \/ StopSeen \/ Escalate
    /\ UNCHANGED <<waiter, stopAsked, why, record, files, crashes>>

(***************************************************************************)
(* WriteBundleWithPolicies, over whatever the directory held.              *)
(***************************************************************************)
Put(file, value) == files' = [files EXCEPT ![Current.out][file] = value]

WriteFile(from, file, to) ==
    /\ pc = from
    /\ Put(file, run)
    /\ GoTo(to)
    /\ UNCHANGED <<subject, process, record, crashes>>

(* The checksums are sorted by path: lifecycle, manifest, run.               *)
FirstLines(n) ==
    LET f == files[Current.out]
    IN  [lifecycle |-> IF n >= 1 THEN f.lifecycle ELSE 0,
         manifest  |-> IF n >= 2 THEN f.manifest ELSE 0,
         run       |-> IF n >= 3 THEN f.run ELSE 0]

WriteChecksums ==
    /\ pc = "write-sums"
    /\ Put("sums", FirstLines(3))
    /\ End(ExitCode(record[run].mutation, record[run].verdict))
    /\ UNCHANGED <<subject, process, record, crashes>>

WriteBundle ==
    \/ WriteFile("write-run", "run", "write-lifecycle")
    \/ WriteFile("write-lifecycle", "lifecycle", "write-manifest")
    \/ WriteFile("write-manifest", "manifest", "write-sums")
    \/ WriteChecksums

(* The invocation is killed; a file it was writing may be left torn, and    *)
(* the checksums with any number of their lines.                            *)
Die ==
    /\ pc # "idle" /\ crashes < Crashes
    /\ crashes' = crashes + 1
    /\ End(2)
    /\ \/ UNCHANGED files
       \/ pc = "write-run"       /\ Put("run", 0)
       \/ pc = "write-lifecycle" /\ Put("lifecycle", 0)
       \/ pc = "write-manifest"  /\ Put("manifest", 0)
       \/ pc = "write-sums"      /\ \E n \in 0..3 : Put("sums", FirstLines(n))
    /\ UNCHANGED <<subject, process, record>>

Command ==
    \/ Begin \/ CheckDone \/ Probe \/ Tick \/ StartupTimeout \/ VerifyExecutable
    \/ ExecuteCase \/ Conclude \/ Close \/ WriteBundle

Init ==
    /\ plan \in Plans
    /\ run = 1 /\ pc = "idle"
    /\ leader = [r \in Runs |-> "none"] /\ helper = [r \in Runs |-> "none"]
    /\ waiter = "closed" /\ stopAsked = TRUE /\ why = "none"
    /\ outcome = [r \in Runs |-> "none"]
    /\ address = 0
    /\ rule = 1 /\ reply = NoReply
    /\ results = [r \in Rules |-> "none"] /\ by = [r \in Rules |-> 0]
    /\ record = [r \in Runs |-> NoRecord]
    /\ files = [d \in Dirs |-> NoBundle]
    /\ exit = [r \in Runs |-> 3]
    /\ crashes = 0

Next ==
    \/ Command \/ SubjectStep \/ WaiterRecords \/ WaiterCloses \/ Die
    \/ \E r \in Runs : Reap(r)

(* The command and its waiter are scheduled; the startup deadline is one    *)
(* timer and the loop cannot tick past it for ever.                         *)
Fairness ==
    /\ WF_vars(Command)
    /\ SF_vars(StartupTimeout)
    /\ \A r \in Runs : WF_vars(Reap(r))
    /\ WF_vars(WaiterRecords) /\ WF_vars(WaiterCloses)

Spec == Init /\ [][Next]_vars /\ Fairness

-------------------------------------------------------------------------------
(***************************************************************************)
(* Properties.                                                             *)
(***************************************************************************)
(* An invocation that came to its own end, however its start and its stop   *)
(* went and whenever its subject exited, has reaped the process it          *)
(* launched, and nothing that shares that process's standard error runs on  *)
(* after a run that was recorded.                                           *)
NothingOutlives ==
    \A r \in Runs :
        /\ exit[r] \in {0, 1} => leader[r] \in {"none", "reaped"}
        /\ exit[r] = 0 => ~(HelperAlive(r) /\ helper[r] \in Held)

(* A pass means that every rule was answered, by a subject that keeps it;   *)
(* a kill means that an expected rule was answered by one that breaks it:   *)
(* a subject that died or never came up is neither.                         *)
VerdictIsObserved ==
    pc # "idle" =>
        LET broken(q) == by[q] # 0 /\ q \in plan[by[q]].broken
        IN  /\ record[run].verdict = "pass" => \A q \in Rules : by[q] # 0 /\ ~broken(q)
            /\ record[run].mutation = "killed" => \E q \in Expected : broken(q)

(* A bundle that verifies is the work of one invocation, one that stopped   *)
(* its subject and got to the end of its record: a crash between two files, *)
(* and a later run over what it left, never pass for a whole.               *)
VerifiedIsOneRun ==
    \A d \in Dirs : Verified(d) =>
        /\ files[d].run = files[d].manifest /\ files[d].lifecycle = files[d].manifest
        /\ record[files[d].run].verdict # "none"
        /\ outcome[files[d].run] \in {"stopped", "killed"}

(* Every invocation ends, unless a process outside the subject's group      *)
(* keeps its standard error open: Close waits for the process without a     *)
(* limit once it has been killed.                                           *)
CommandEnds ==
    \A r \in Runs : (run = r /\ pc # "idle") ~> (run # r \/ helper[r] = "outside-held")

(* The comment of Start: a failed startup cannot leave an orphaned subject. *)
NoOrphanedSubject ==
    \A r \in Runs : outcome[r] = "exited-before-ready" /\ exit[r] = 1 => address # r
===============================================================================
