--------------------------- MODULE MutationCampaign ---------------------------
(***************************************************************************)
(* sorna mutation run and sorna mutation verify.  The executor takes the   *)
(* mutations of the plan one after the other: it starts a child sorna run, *)
(* attaches the campaign's provenance to the bundle the child left, checks *)
(* it, and keeps an entry; the entries become the campaign result.  The    *)
(* executor may die and be started again over the same directory, the      *)
(* child may die at any point, and evidence may be made anew afterwards.   *)
(***************************************************************************)
EXTENDS RunVerdict, Integers, Sequences, FiniteSets

CONSTANTS Mutations,   \* the planned mutations are Mutations, 1..n, in order
          ExpectedRuleIDs, \* the rules each is expected to break
          Observed,    \* what a child may observe: functions from rules to statuses
          Campaigns,   \* how many times the executor is started
          Remakes      \* how many bundles are made anew behind its back

(* Plans without mutations, and mutations without rules that they are       *)
(* expected to break, are refused (plan.go:203, mutation.go:61).            *)
ASSUME CampaignAssumption ==
    /\ Mutations = 1..Cardinality(Mutations) /\ IsFiniteSet(Mutations) /\ Mutations # {}
    /\ ExpectedRuleIDs # {}
    /\ Observed # {} /\ \A o \in Observed : o \in [DOMAIN o -> Statuses]
    /\ Campaigns \in Nat /\ Remakes \in Nat

VARIABLES campaign,  \* which start of the executor this is
          at,        \* where it is
          m,         \* the mutation it is at
          child,     \* how the child of this mutation ended: its exit code
          bundle,    \* the evidence directory of each mutation
          entries,   \* the entries so far
          result,    \* the campaign result file
          code,      \* exit code of the last executor, 3 while there is none
          planFile,  \* version of the plan file
          verdicts,  \* what a verification of what is there now said
          remakes

campaignVars == <<campaign, at, m, child, bundle, entries, result, code, planFile, verdicts, remakes>>

(***************************************************************************)
(* An evidence directory: who made it (the campaign, or Foreign), how far  *)
(* the child got, what it observed, and how far the provenance got.        *)
(***************************************************************************)
Foreign == 0
Absent  == [exists |-> FALSE, maker |-> Foreign, whole |-> FALSE,
            seen |-> CHOOSE o \in Observed : TRUE, attached |-> "no", remade |-> 0]

(* The manifest is rewritten before the checksums: in between it has not    *)
(* the hash the checksums list.  Files under campaign/ that no checksum     *)
(* lists are not looked at.                                                 *)
VerifiedEvidence(b) == b.exists /\ b.whole /\ b.attached \in {"no", "directory", "all"}

(* The hashes of manifest and checksums tell any two bundles apart.         *)
Hash(b) == <<b.maker, b.remade, b.attached, b.seen>>

OutcomeOf(b) == Classify(ExpectedRuleIDs, b.seen)

NoEntry == [status |-> "error", exit |-> 0, outcome |-> "", reason |-> FALSE,
            evidence |-> <<>>, diagnosis |-> <<>>]
NoResult == [entries |-> <<>>, status |-> "none", plan |-> 0]

(***************************************************************************)
(* buildCampaignResult, and ValidateResult over what it built.             *)
(***************************************************************************)
ResultStatus(list) ==
    LET statuses == {list[i].status : i \in DOMAIN list}
    IN  IF "error" \in statuses THEN "error" ELSE IF "failed" \in statuses THEN "failed" ELSE "passed"

(* Fault: an error needs evidence as well.                                  *)
ValidEntryOfEvidence(e) ==
    /\ e.evidence # <<>> /\ e.exit >= 0
    /\ e.status = "passed" => e.outcome = "killed"

ValidEntry(e) ==
    /\ e.status # "error" => e.evidence # <<>> /\ e.exit >= 0
    /\ e.status = "error" => e.reason
    /\ e.status = "passed" => e.outcome = "killed"
    /\ e.status = "failed" => e.outcome # ""
    /\ e.outcome \in Outcomes => DiagnosisAgrees(e.outcome, e.diagnosis)

ValidResult(r) ==
    /\ r.entries # <<>>
    /\ \A i \in DOMAIN r.entries : ValidEntry(r.entries[i])
    /\ r.status = ResultStatus(r.entries)

CampaignExitCode(status) == IF status = "passed" THEN 0 ELSE IF status = "failed" THEN 1 ELSE 2

(***************************************************************************)
(* The executor.                                                           *)
(***************************************************************************)
Keep(entry) ==
    /\ entries' = Append(entries, entry)
    /\ m' = m + 1
    /\ at' = "mutation"

Start ==
    /\ at = "idle" /\ campaign < Campaigns
    /\ campaign' = campaign + 1
    /\ at' = "mutation" /\ m' = 1 /\ entries' = <<>> /\ code' = 3
    /\ UNCHANGED <<child, bundle, result, planFile, remakes>>

(* A mutation that does not resolve to a verified subject, or whose         *)
(* directory exists, is an error and starts nothing.                        *)
Refuse ==
    /\ at = "mutation" /\ m \in Mutations
    /\ Keep([NoEntry EXCEPT !.exit = -1, !.reason = TRUE])
    /\ UNCHANGED <<campaign, child, bundle, result, code, planFile, remakes>>

(* Fault: a directory that is there already is used.                        *)
LaunchAnyway ==
    /\ at = "mutation" /\ m \in Mutations
    /\ at' = "child"
    /\ UNCHANGED <<campaign, m, child, bundle, entries, result, code, planFile, remakes>>

Launch ==
    /\ at = "mutation" /\ m \in Mutations
    /\ ~bundle[m].exists
    /\ at' = "child"
    /\ UNCHANGED <<campaign, m, child, bundle, entries, result, code, planFile, remakes>>

(* The child writes no bundle, part of one, or all of it, and exits by      *)
(* itself or is killed by a signal.                                         *)
ChildEnds ==
    /\ at = "child"
    /\ at' = "attach"
    /\ \/ /\ UNCHANGED bundle
          /\ child' \in {1, 2, -1}
       \/ /\ bundle' = [bundle EXCEPT ![m].exists = TRUE, ![m].maker = campaign]
          /\ child' \in {1, -1}
       \/ \E seen \in Observed :
            /\ bundle' = [bundle EXCEPT ![m] = [Absent EXCEPT !.exists = TRUE, !.whole = TRUE,
                                                    !.maker = campaign, !.seen = seen]]
            /\ child' \in {ExitCode(Classify(ExpectedRuleIDs, seen), VerdictFor(seen)), -1}
    /\ UNCHANGED <<campaign, m, entries, result, code, planFile, remakes>>

(* AttachCampaignProvenance: only over a verified bundle without any; the   *)
(* directory and its files, then the manifest, then the checksums.          *)
Attachable(b) == VerifiedEvidence(b) /\ b.attached = "no"

AttachStep(from, to) ==
    /\ bundle[m].attached = from
    /\ bundle' = [bundle EXCEPT ![m].attached = to]
    /\ at' = IF to = "all" THEN "read" ELSE "attach"
    /\ UNCHANGED <<campaign, m, child, entries, result, code, planFile, remakes>>

Attach ==
    /\ at = "attach"
    /\ \/ Attachable(bundle[m]) /\ AttachStep("no", "directory")
       \/ AttachStep("directory", "manifest")
       \/ AttachStep("manifest", "all")

AttachFails ==
    /\ at = "attach" /\ ~Attachable(bundle[m])
    /\ bundle[m].attached = "no"
    /\ Keep([NoEntry EXCEPT !.exit = child, !.reason = TRUE])
    /\ UNCHANGED <<campaign, child, bundle, result, code, planFile, remakes>>

(* VerifiedEvidence and hashed, the bundle gives the entry its outcome.             *)
Completed(b) ==
    [status    |-> IF OutcomeOf(b) = "killed" THEN "passed" ELSE "failed",
     exit      |-> child,
     outcome   |-> OutcomeOf(b),
     reason    |-> TRUE,
     evidence  |-> Hash(b),
     diagnosis |-> Diagnosis(ExpectedRuleIDs, b.seen)]

ReadEvidence ==
    /\ at = "read"
    /\ Keep(IF VerifiedEvidence(bundle[m]) THEN Completed(bundle[m])
            ELSE [NoEntry EXCEPT !.exit = child, !.reason = TRUE])
    /\ UNCHANGED <<campaign, child, bundle, result, code, planFile, remakes>>

(* The result is written only if it is valid; the exit code is its status.  *)
ConcludeCampaign ==
    /\ at = "mutation" /\ m \notin Mutations
    /\ at' = "idle"
    /\ LET built == [entries |-> entries, status |-> ResultStatus(entries), plan |-> planFile]
       IN  IF ValidResult(built)
           THEN result' = built /\ code' = CampaignExitCode(built.status)
           ELSE code' = 2 /\ UNCHANGED result
    /\ UNCHANGED <<campaign, m, child, bundle, entries, planFile, remakes>>

(* The executor dies, and its child with it, as at an interrupt from the    *)
(* terminal; the directories stay as they are.                              *)
KillExecutor ==
    /\ at # "idle"
    /\ at' = "idle" /\ code' = 4
    /\ UNCHANGED <<campaign, m, child, bundle, entries, result, planFile, remakes>>

(***************************************************************************)
(* Around it: somebody removes a directory to run again, makes a bundle    *)
(* anew in its place, or edits the plan.                                   *)
(***************************************************************************)
Remake ==
    /\ at = "idle" /\ remakes < Remakes
    /\ remakes' = remakes + 1
    /\ \E n \in Mutations :
          \/ bundle' = [bundle EXCEPT ![n] = Absent]
          \/ \E seen \in Observed :
               bundle' = [bundle EXCEPT ![n] = [Absent EXCEPT !.exists = TRUE, !.whole = TRUE,
                                                    !.seen = seen, !.remade = remakes']]
    /\ UNCHANGED <<campaign, at, m, child, entries, result, code, planFile>>

EditPlan ==
    /\ at = "idle" /\ planFile = 1
    /\ planFile' = 2
    /\ UNCHANGED <<campaign, at, m, child, bundle, entries, result, code, remakes>>

(***************************************************************************)
(* sorna mutation verify, and the envelope it makes for a coordinator.     *)
(***************************************************************************)
(* Fault: any bundle that verifies will do.                                 *)
EntryHoldsUnhashed(i) ==
    result.entries[i].evidence # <<>> => VerifiedEvidence(bundle[i])

EntryHolds(i) ==
    LET e == result.entries[i]
    IN  e.evidence # <<>> => VerifiedEvidence(bundle[i]) /\ Hash(bundle[i]) = e.evidence

ResultHolds ==
    /\ ValidResult(result)
    /\ result.plan = planFile
    /\ \A i \in DOMAIN result.entries : EntryHolds(i)

Verify ==
    /\ at = "idle"
    /\ verdicts' = IF result # NoResult /\ ResultHolds THEN result.status ELSE "unverified"
    /\ UNCHANGED <<campaign, at, m, child, bundle, entries, result, code, planFile, remakes>>

CampaignInit ==
    /\ campaign = 0 /\ at = "idle" /\ m = 1 /\ child = 0
    /\ bundle = [n \in Mutations |-> Absent]
    /\ entries = <<>> /\ result = NoResult
    /\ code = 3 /\ planFile = 1 /\ verdicts = "none" /\ remakes = 0

Executor ==
    \/ Start \/ Refuse \/ Launch \/ ChildEnds \/ Attach \/ AttachFails \/ ReadEvidence
    \/ ConcludeCampaign

CampaignNext ==
    \/ Verify
    \/ (Executor \/ KillExecutor \/ Remake \/ EditPlan) /\ verdicts' = "none"

CampaignSpec == CampaignInit /\ [][CampaignNext]_campaignVars

-------------------------------------------------------------------------------
(***************************************************************************)
(* Properties.                                                             *)
(***************************************************************************)
(* An executor that exits 0 killed every planned mutation in this very      *)
(* campaign: a rerun over what an earlier one left cannot pass on evidence  *)
(* it did not make, and a child without a whole bundle never counts.  And   *)
(* one that gets through its mutations leaves its result, unless a child    *)
(* was killed by a signal after it had written its bundle: only that makes  *)
(* the result invalid, and then all of it is lost.                          *)
ConclusionIsSound ==
    [][ConcludeCampaign =>
        /\ code' = 0 => \A n \in Mutations :
             /\ bundle[n].maker = campaign /\ VerifiedEvidence(bundle[n])
             /\ bundle[n].attached = "all"
             /\ OutcomeOf(bundle[n]) = "killed"
        /\ \/ result' = [entries |-> entries, status |-> ResultStatus(entries), plan |-> planFile]
           \/ \E i \in DOMAIN entries : entries[i].exit = -1 /\ entries[i].evidence # <<>>]_campaignVars

(* A verification that reports passed vouches for what lies there now: for  *)
(* every mutation a bundle that some campaign made and that kills, under    *)
(* the plan as it is; a bundle made anew outside of a campaign does not     *)
(* pass, even if it kills.                                                  *)
PassedIsTrueNow ==
    [][Verify /\ verdicts' = "passed" =>
        \A n \in Mutations : /\ n \in DOMAIN result.entries
                             /\ bundle[n].maker # Foreign
                             /\ VerifiedEvidence(bundle[n]) /\ OutcomeOf(bundle[n]) = "killed"
                             /\ result.plan = planFile]_campaignVars

===============================================================================
