------------------------------ MODULE RunVerdict ------------------------------
(***************************************************************************)
(* What sorna concludes from the answers of a subject: the status of a     *)
(* case, the verdict of a run, the outcome of a mutation, the exit codes,  *)
(* the gate's decision and the comparison of a run with its replay.  No    *)
(* state: the modules of the run and of the campaign extend this one.      *)
(***************************************************************************)
EXTENDS Naturals

Statuses == {"pass", "fail", "error", "inconclusive"}
Verdicts == Statuses
Outcomes == {"killed", "survived", "inconclusive"}

(***************************************************************************)
(* One case.  `case` says whether it declares an isolation reset and a     *)
(* setup and whether it is a must_not rule; `answer` what came back for    *)
(* each request: "refused" is any transport error.                         *)
(***************************************************************************)
IsolationStatus(reply) ==
    IF reply = "2xx" THEN "pass" ELSE IF reply = "other" THEN "inconclusive" ELSE "error"

SetupStatus(reply) ==
    IF reply = "met" THEN "pass" ELSE IF reply = "unmet" THEN "fail" ELSE "error"

(* Fault: a subject that does not answer fails the case.                    *)
TargetStatusOfRefusal(prohibited, reply) ==
    IF reply = "undecodable" THEN "error"
    ELSE IF (reply = "met") # prohibited THEN "pass" ELSE "fail"

(* The target request: no answer, or one that cannot be evaluated, is an    *)
(* error; a must_not rule passes when some assertion does not hold.         *)
TargetStatus(prohibited, reply) ==
    IF reply \in {"refused", "undecodable"} THEN "error"
    ELSE IF (reply = "met") # prohibited THEN "pass" ELSE "fail"

(* A reset that got no 2xx answer, refused ones included, leaves the case   *)
(* inconclusive; a setup step that errored makes it an error.               *)
CaseStatus(case, answer) ==
    IF case.isolated /\ IsolationStatus(answer.isolation) # "pass" THEN "inconclusive"
    ELSE IF case.setup /\ SetupStatus(answer.setup) = "error" THEN "error"
    ELSE IF case.setup /\ SetupStatus(answer.setup) # "pass" THEN "inconclusive"
    ELSE TargetStatus(case.prohibited, answer.target)

(* What the run keeps of a case for a replay to compare: the fingerprint of *)
(* the requests it sent and the hash of the observation, 0 when there is    *)
(* none, and the outcomes of its setup and its assertions.                  *)
Reached(case, answer) ==
    /\ case.isolated => IsolationStatus(answer.isolation) = "pass"
    /\ case.setup => SetupStatus(answer.setup) = "pass"

CaseResult(case, answer, intent, seen) ==
    [status      |-> CaseStatus(case, answer),
     request     |-> IF Reached(case, answer) THEN intent ELSE 0,
     observation |-> IF Reached(case, answer) /\ answer.target # "refused" THEN seen ELSE 0,
     shape       |-> IF Reached(case, answer) THEN answer.target ELSE "setup"]

(***************************************************************************)
(* A run: `results` maps the rules to their statuses.                      *)
(***************************************************************************)
(* Summary.Errors > 0 and its like.                                         *)
Has(results, status) == \E r \in DOMAIN results : results[r] = status

VerdictFor(results) ==
    IF Has(results, "error") THEN "error"
    ELSE IF Has(results, "fail") THEN "fail"
    ELSE IF Has(results, "inconclusive") THEN "inconclusive"
    ELSE "pass"

(* A target is unresolved when it was not observed as passed or failed.     *)
ExpectedStatus(results, r) == IF r \in DOMAIN results THEN results[r] ELSE "unobserved"

Classify(expected, results) ==
    LET seen == {ExpectedStatus(results, r) : r \in expected}
    IN  IF "fail" \in seen THEN "killed"
        ELSE IF expected = {} \/ seen \cap {"unobserved", "inconclusive", "error"} # {}
             THEN "inconclusive"
        ELSE "survived"

(* The exit code of sorna run: a mutation run succeeds when it kills.       *)
ExitCode(mutation, verdict) ==
    IF mutation # "none" THEN IF mutation = "killed" THEN 0 ELSE 1
    ELSE IF verdict = "pass" THEN 0 ELSE 1

(***************************************************************************)
(* The diagnosis a campaign keeps of a mutation, and its validation.       *)
(***************************************************************************)
Diagnosis(expected, results) == [r \in expected |-> ExpectedStatus(results, r)]

DiagnosisAgrees(outcome, diagnosis) ==
    LET statuses == {diagnosis[r] : r \in DOMAIN diagnosis}
    IN  /\ DOMAIN diagnosis # {}
        /\ outcome = "killed"       => "fail" \in statuses
        /\ outcome = "survived"     => statuses \subseteq {"pass"}
        /\ outcome = "inconclusive" => /\ "fail" \notin statuses
                                       /\ statuses \ {"pass", "fail"} # {}

(***************************************************************************)
(* The gate over a verified bundle: the contract or the mutation, and the  *)
(* minimum of observation coverage the caller asks for, "" for none.       *)
(***************************************************************************)
CoverageRank(coverage) ==
    IF coverage = "periodic-best-effort" THEN 2
    ELSE IF coverage = "periodic-best-effort-with-gaps" THEN 1 ELSE 0

GateReasons(mutation, verdict, coverage, minimum) ==
    (IF mutation # "none" /\ mutation # "killed" THEN {"mutation"} ELSE {})
    \cup (IF mutation = "none" /\ verdict # "pass" THEN {"contract"} ELSE {})
    \cup (IF minimum # "" /\ CoverageRank(coverage) < CoverageRank(minimum)
          THEN {"coverage"} ELSE {})

GateStatus(mutation, verdict, coverage, minimum) ==
    IF GateReasons(mutation, verdict, coverage, minimum) = {} THEN "passed" ELSE "failed"

(***************************************************************************)
(* Replay: two runs of one oracle, as functions from cases to CaseResult.  *)
(***************************************************************************)
Compared(a, b) == IF a = 0 \/ b = 0 THEN "unavailable" ELSE IF a = b THEN "same" ELSE "changed"

OutcomeDrift(a, b) == a.status # b.status \/ a.shape # b.shape

(* Fault: requests are not compared.                                        *)
RuleComparisonByOutcome(recorded, replayed, c) ==
    IF c \notin DOMAIN recorded \/ c \notin DOMAIN replayed
    THEN [status |-> "missing", request |-> "unavailable", observation |-> "unavailable"]
    ELSE [status      |-> IF OutcomeDrift(recorded[c], replayed[c]) THEN "outcome-drift" ELSE "match",
          request     |-> Compared(recorded[c].request, replayed[c].request),
          observation |-> Compared(recorded[c].observation, replayed[c].observation)]

RuleComparison(recorded, replayed, c) ==
    IF c \notin DOMAIN recorded
    THEN [status |-> "added", request |-> "unavailable", observation |-> "unavailable"]
    ELSE IF c \notin DOMAIN replayed
    THEN [status |-> "missing", request |-> "unavailable", observation |-> "unavailable"]
    ELSE LET request == Compared(recorded[c].request, replayed[c].request)
         IN [status      |-> IF OutcomeDrift(recorded[c], replayed[c]) THEN "outcome-drift"
                             ELSE IF request = "changed" THEN "request-drift" ELSE "match",
             request     |-> request,
             observation |-> Compared(recorded[c].observation, replayed[c].observation)]

StatusesOf(side) == [c \in DOMAIN side |-> side[c].status]

(* The report: drift of a case or of the verdict, overruled by a replay     *)
(* with errors, then by one that is not fully evaluated.                    *)
CompareReplay(recorded, replayed) ==
    LET cases == DOMAIN recorded \cup DOMAIN replayed
        rules == [c \in cases |-> RuleComparison(recorded, replayed, c)]
        now   == StatusesOf(replayed)
        drift == \/ \E c \in cases : rules[c].status # "match"
                 \/ VerdictFor(StatusesOf(recorded)) # VerdictFor(now)
        status == IF Has(now, "error") THEN "error"
                  ELSE IF Has(now, "inconclusive") THEN "inconclusive"
                  ELSE IF drift THEN "drifted" ELSE "matched"
        has(field, value) == \E c \in cases : rules[c][field] = value
    IN [status      |-> status,
        rules       |-> rules,
        verdicts    |-> <<VerdictFor(StatusesOf(recorded)), VerdictFor(now)>>,
        request     |-> IF has("request", "unavailable") THEN "unavailable"
                        ELSE IF has("request", "changed") THEN "changed" ELSE "same",
        observation |-> IF status \in {"error", "inconclusive"} THEN "unavailable"
                        ELSE IF has("observation", "changed") THEN "changed" ELSE "same"]

(* What the loader of a report demands of it.                               *)
ValidReplay(report) ==
    LET rules    == {report.rules[c] : c \in DOMAIN report.rules}
        semantic == \E x \in rules : x.status \in {"outcome-drift", "missing", "added"}
        requests == {x.request : x \in rules}
        changed  == \E x \in rules : x.observation = "changed"
        visible  == \/ semantic
                    \/ report.verdicts[1] # report.verdicts[2]
                    \/ requests # {"same"}
    IN  /\ rules # {}
        /\ \A x \in rules : x.status = "request-drift" => x.request = "changed"
        /\ report.request = (IF "unavailable" \in requests THEN "unavailable"
                             ELSE IF "changed" \in requests THEN "changed" ELSE "same")
        /\ report.observation = (IF report.status \in {"error", "inconclusive"} THEN "unavailable"
                                 ELSE IF changed THEN "changed" ELSE "same")
        /\ report.status = "matched"      => ~visible
        /\ report.status = "drifted"      => visible
        /\ report.status = "error"        => report.verdicts[2] = "error"
        /\ report.status = "inconclusive" => report.verdicts[2] \in {"inconclusive", "fail"}

===============================================================================
