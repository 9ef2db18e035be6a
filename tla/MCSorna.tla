-------------------------------- MODULE MCSorna --------------------------------
(***************************************************************************)
(* Instances of the modules of sorna: managed runs (SubjectRun), and from  *)
(* other initial states the campaign that starts such runs                 *)
(* (MutationCampaign) and the replay of a recorded one (RunReplay).        *)
(* `part` tells which of the three moves.                                  *)
(***************************************************************************)
EXTENDS SubjectRun, MutationCampaign, RunReplay

VARIABLE part

MCRules == 1..2
MCCases == <<[isolated |-> TRUE, setup |-> FALSE, prohibited |-> FALSE],
             [isolated |-> FALSE, setup |-> TRUE, prohibited |-> TRUE]>>
MCPlans ==
  {<<[mutation |-> FALSE, broken |-> {}, out |-> "base", base |-> "base"],
     [mutation |-> TRUE, broken |-> {2}, out |-> "mut", base |-> "base"]>>,
   <<[mutation |-> FALSE, broken |-> {}, out |-> "base", base |-> "base"],
     [mutation |-> FALSE, broken |-> {1}, out |-> "base", base |-> "base"]>>}

MCObserved ==
  {[r \in {1, 2} |-> IF r = 1 THEN a ELSE "pass"] : a \in {"pass", "fail", "inconclusive"}}

\* Both cases declare a reset and a setup; 0 stands for no fingerprint.
MCCaseKinds == {[isolated |-> TRUE, setup |-> TRUE, prohibited |-> FALSE]}
MCAnswers == [isolation : {"2xx", "other"}, setup : {"met", "unmet", "refused"},
              target : {"met", "unmet", "refused", "undecodable"}]

subjectVars == vars
allVars == <<part, subjectVars, campaignVars, replayVars>>

\* A replay only compares fingerprints and hashes, so those of the recorded run
\* are 1 without loss: the others rename them.
Renamed == \A c \in CaseIds : recorded[c].request \in {0, 1} /\ recorded[c].observation \in {0, 1}

\* The parts that do not move stay in some initial state.
SornaInit ==
  /\ part \in {"run", "campaign", "replay"}
  /\ Init /\ (part = "run" \/ plan = CHOOSE p \in Plans : TRUE)
  /\ CampaignInit
  /\ \/ part = "replay" /\ ReplayInit /\ Renamed
     \/ /\ part # "replay"
        /\ kinds = <<>> /\ recorded = <<>> /\ replayed = <<>> /\ report = NoReport

RunPart      == part = "run" /\ Next /\ UNCHANGED <<part, campaignVars, replayVars>>
CampaignPart == part = "campaign" /\ CampaignNext /\ UNCHANGED <<part, subjectVars, replayVars>>
ReplayPart   == part = "replay" /\ ReplayNext /\ UNCHANGED <<part, subjectVars, campaignVars>>

SornaNext == RunPart \/ CampaignPart \/ ReplayPart

\* SubjectRun's Fairness, of the part that moves.
InRun(A) == part = "run" /\ A
RunFairness ==
  /\ WF_vars(InRun(Command)) /\ SF_vars(InRun(StartupTimeout))
  /\ \A r \in Runs : WF_vars(InRun(Reap(r)))
  /\ WF_vars(InRun(WaiterRecords)) /\ WF_vars(InRun(WaiterCloses))

SornaSpec == SornaInit /\ [][SornaNext]_allVars /\ RunFairness
===============================================================================
