------------------------------- MODULE RunReplay -------------------------------
(***************************************************************************)
(* sorna evidence replay: the oracle of a recorded run is executed again   *)
(* against another subject, and the two runs are compared case by case.    *)
(***************************************************************************)
EXTENDS RunVerdict

CONSTANTS CaseKinds,   \* the kinds of case an oracle may have, as in SubjectRun
          Answers,     \* what may come back for the requests of a case
          Intents,     \* fingerprints the requests may have, never 0
          Seen,        \* hashes an observation may have, never 0
          CaseIds      \* the cases of the oracle

(* An oracle has a case (oracle.go:140).                                    *)
ASSUME ReplayAssumption == 0 \notin Intents /\ 0 \notin Seen /\ CaseIds # {}

VARIABLES kinds,       \* the oracle: the kind of each case
          recorded,    \* the recorded run and the replay of it
          replayed,
          report

replayVars == <<kinds, recorded, replayed, report>>

ResultsOf(kind) == {CaseResult(kind, a, i, s) : a \in Answers, i \in Intents, s \in Seen}

RunsOf(k) == {run \in [CaseIds -> UNION {ResultsOf(k[c]) : c \in CaseIds}] :
               \A c \in CaseIds : run[c] \in ResultsOf(k[c])}

NoReport == [status |-> "none"]

ReplayInit ==
    /\ kinds \in [CaseIds -> CaseKinds]
    /\ recorded \in RunsOf(kinds) /\ replayed \in RunsOf(kinds)
    /\ report = NoReport

(* Mutation evidence and another oracle are refused; the report is handed   *)
(* out only if the loader of reports would take it.                         *)
Replay ==
    /\ report = NoReport
    /\ \E mutated, sameOracle \in BOOLEAN :
          report' = IF mutated \/ ~sameOracle THEN [status |-> "refused"]
                    ELSE LET built == CompareReplay(recorded, replayed)
                         IN  IF ValidReplay(built) THEN built ELSE [status |-> "invalid"]
    /\ UNCHANGED <<kinds, recorded, replayed>>

ReplayNext == Replay

ReplaySpec == ReplayInit /\ [][ReplayNext]_replayVars

(* No pair of runs the runner can produce makes a report that its own       *)
(* validation refuses, and matched is never said of runs that differ in a   *)
(* case's outcome, in its requests or in the verdict, nor of a replay that  *)
(* left something unevaluated.                                              *)
ReplayIsSound ==
    /\ report.status # "invalid"
    /\ report.status = "matched" =>
          /\ VerdictFor(StatusesOf(recorded)) = VerdictFor(StatusesOf(replayed))
          /\ \A c \in CaseIds : /\ recorded[c].status = replayed[c].status
                                /\ recorded[c].request = replayed[c].request
                                /\ replayed[c].status \in {"pass", "fail"}

===============================================================================
