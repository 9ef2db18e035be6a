------------------------------ MODULE SornaProofs ------------------------------
(***************************************************************************)
(* Proofs about sorna: managed runs (SubjectRun), for any oracle, any      *)
(* plans of invocations, any helpers and any number of crashes; campaigns  *)
(* (MutationCampaign), for any plan, any observations and any number of    *)
(* executors, deaths and remade bundles; replays (RunReplay), for any      *)
(* oracle and any answers.                                                 *)
(*                                                                         *)
(* Runs: the invariant ties what the command does (pc) to how far its      *)
(* waiter and its process are (Waited), to its record (Recorded), to the   *)
(* answers it got (Answered) and to the files it wrote (Bundles).          *)
(*                                                                         *)
(* Campaigns: what an entry says is held against the evidence it names     *)
(* (EntryTold) and, while the executor works, against the directory        *)
(* (Backed).                                                               *)
(***************************************************************************)
EXTENDS SubjectRun, MutationCampaign, RunReplay, FiniteSetTheorems, SequenceTheorems, TLAPS

-----------------------------------------------------------------------------
(* Runs: the invariant.                                                    *)

Starting == {"check", "probe", "pause", "verify", "cases"}
Closing  == {"interrupt", "signalled", "missed", "killed", "kill-missed"}
Writing  == {"write-run", "write-lifecycle", "write-manifest", "write-sums"}

Codes   == {0, 1, 2}
Bundle  == [run : Runs \cup {0}, lifecycle : Runs \cup {0}, manifest : Runs \cup {0},
            sums : [run : Runs \cup {0}, lifecycle : Runs \cup {0}, manifest : Runs \cup {0}]]
Reply   == [isolation : {"none", "refused", "2xx", "other"},
            setup : {"none", "refused", "met", "unmet"}, target : {"none"}]
Record  == [verdict : Verdicts \cup {"none"}, mutation : Outcomes \cup {"none"},
            base : Runs \cup {0}]

\* Type correctness of the runs, their processes, records and bundles.
RunTypeOK ==
  /\ plan \in Plans
  /\ run \in 1..(Invocations + 1)
  /\ pc \in Starting \cup Closing \cup Writing \cup {"idle"}
  /\ leader \in [Runs -> {"none", "alive", "exited", "reaped"}]
  /\ helper \in [Runs -> HelperKinds \cup {"none", "gone"}]
  /\ address \in Runs \cup {0}
  /\ waiter \in {"waiting", "recorded", "closed"}
  /\ stopAsked \in BOOLEAN /\ why \in {"none", "abandon", "stop"}
  /\ outcome \in [Runs -> {"none", "starting", "exited-before-ready", "ready", "exited",
                           "stopped", "killed"}]
  /\ rule \in 1..(Cardinality(Rules) + 1)
  /\ reply \in Reply
  /\ results \in [Rules -> Statuses \cup {"none"}]
  /\ by \in [Rules -> Runs \cup {0}]
  /\ record \in [Runs -> Record]
  /\ files \in [Dirs -> Bundle]
  /\ exit \in [Runs -> Codes \cup {3}]

\* The runs to come left no trace yet; the current one has a process.
Ordered ==
  /\ \A r \in Runs : (r > run \/ (r = run /\ pc = "idle")) =>
       leader[r] = "none" /\ helper[r] = "none" /\ record[r] = NoRecord
  /\ \A r \in Runs : r >= run => exit[r] = 3
  /\ pc # "idle" => run \in Runs /\ leader[run] # "none"

\* What the command relies on when it does not wait: the waiter is past cmd.Wait
\* when the process is reaped and its standard error is closed; a signal finds
\* nobody when the process is reaped; only what was waited for is recorded.
Waited ==
  /\ pc # "idle" /\ waiter # "waiting" => leader[run] = "reaped" /\ helper[run] \notin Held
  /\ pc \in {"missed", "kill-missed"} => leader[run] = "reaped"
  /\ pc \in Writing => waiter = "closed"

\* A run that ended by itself left nothing; what could fork is gone.
Ended ==
  \A r \in Runs :
    /\ exit[r] \in {0, 1} => leader[r] \in {"none", "reaped"}
    /\ exit[r] = 0 => leader[r] = "reaped" /\ helper[r] \notin Held

\* A verdict is recorded between the cases and the stop.
Recorded ==
  /\ pc \in Starting => record[run].verdict = "none" /\ record[run].mutation = "none"
  /\ pc \in Closing /\ why = "stop" => record[run].verdict # "none"
  /\ pc \in Writing => record[run].verdict # "none" /\ outcome[run] \in {"stopped", "killed"}

Broken(q) == by[q] # 0 /\ q \in plan[by[q]].broken
Kept(q)   == by[q] # 0 /\ q \notin plan[by[q]].broken

\* The rules before the current one have a status; a pass and a failure were
\* answered by a subject that keeps, or breaks, the rule.
Answered ==
  \A q \in Rules :
    /\ q < rule => results[q] \in Statuses
    /\ results[q] = "pass" => Kept(q)
    /\ results[q] = "fail" => Broken(q)

\* The files are written in their order, whatever a directory held: a manifest and
\* a run record of one run mean that its lifecycle came in between and that the run
\* ended with its record; the current run has written what comes before it is at.
Bundles ==
  /\ \A d \in Dirs :
       LET f == files[d] IN
         /\ f.manifest < run \/ (f.manifest = run /\ pc = "write-sums")
         /\ f.manifest # 0 /\ f.manifest = f.run =>
              /\ f.lifecycle = f.run
              /\ record[f.run].verdict # "none"
              /\ outcome[f.run] \in {"stopped", "killed"}
  /\ pc \in Writing \ {"write-run"} => files[Current.out].run = run
  /\ pc \in {"write-manifest", "write-sums"} => files[Current.out].lifecycle = run

RunInv ==
  /\ RunTypeOK /\ Ordered /\ Waited /\ Ended
  /\ Recorded /\ Answered /\ Bundles /\ VerdictIsObserved

-----------------------------------------------------------------------------
(* Numbers, and the initial states.                                        *)

\* Rules are numbered from 1.
LEMMA RuleNumbers ==
  /\ Cardinality(Rules) \in Nat
  /\ \A q : q \in Rules <=> q \in 1..Cardinality(Rules)
<1>1. Cardinality(Rules) \in Nat
  BY SubjectAssumption, FS_CardinalityType
<1>2. Rules = 1..Cardinality(Rules)
  BY SubjectAssumption
<1> QED  BY <1>1, <1>2

LEMMA InitRunInv == Init => RunInv
<1> SUFFICES ASSUME Init PROVE RunInv
  OBVIOUS
<1> USE SubjectAssumption DEF Init
<1>1. RunTypeOK
  <2>1. Cardinality(Rules) \in Nat /\ Invocations \in Nat
    BY FS_CardinalityType
  <2>2. NoRecord \in Record /\ NoBundle \in Bundle /\ NoReply \in Reply
    BY DEF NoRecord, NoBundle, NoReply, Record, Bundle, Reply, Verdicts, Outcomes
  <2> QED  BY <2>1, <2>2 DEF RunTypeOK, Codes
<1>2. Ordered /\ Waited /\ Ended
  BY DEF Ordered, Waited, Ended, Writing, Runs
<1>3. Recorded /\ VerdictIsObserved
  BY DEF Recorded, VerdictIsObserved, Starting, Closing, Writing
<1>4. Answered
  <2>1. \A q \in Rules : ~(q < 1)
    BY RuleNumbers
  <2> QED  BY <2>1 DEF Answered
<1>5. Bundles
  BY DEF Bundles, NoBundle, Writing
<1> QED  BY <1>1, <1>2, <1>3, <1>4, <1>5 DEF RunInv

-----------------------------------------------------------------------------
(* What a step does to the processes and to the order of the runs.         *)

\* A process is reaped after its exit, only a live one forks, and no trace
\* appears where there was none.
SubjectMoves ==
  /\ leader' \in [Runs -> {"none", "alive", "exited", "reaped"}]
  /\ helper' \in [Runs -> HelperKinds \cup {"none", "gone"}]
  /\ address' \in Runs \cup {0}
  /\ \A r \in Runs :
       /\ leader[r] \in {"none", "reaped"} => leader'[r] = leader[r]
       /\ leader[r] # "none" => leader'[r] # "none"
       /\ \/ helper'[r] = helper[r]
          \/ leader[r] = "alive"
          \/ helper[r] # "none" /\ helper'[r] = "gone"

\* The invocation goes on, or another one is awaited.
Within ==
  /\ UNCHANGED <<plan, run, exit>> /\ SubjectMoves
  /\ pc = "idle" <=> pc' = "idle"

\* The invocation begins.
Begins ==
  /\ pc = "idle" /\ run \in Runs /\ pc' = "check"
  /\ leader' = [leader EXCEPT ![run] = "alive"]
  /\ UNCHANGED <<plan, run, exit, helper, address>>

\* The invocation ends, with a code that says what it left.
Ends ==
  /\ run \in Runs /\ run' = run + 1 /\ pc' = "idle" /\ Fresh
  /\ \E c \in Codes :
       /\ exit' = [exit EXCEPT ![run] = c]
       /\ c \in {0, 1} => leader[run] \in {"none", "reaped"}
       /\ c = 0 => leader[run] = "reaped" /\ helper[run] \notin Held
  /\ UNCHANGED <<plan, subject>>

\* The processes of a subject move by themselves.
LEMMA SubjectAlone ==
  ASSUME RunTypeOK, NEW r \in Runs, Bind(r) \/ Fork(r) \/ Exits(r) \/ HelperExits(r)
  PROVE  SubjectMoves
<1> USE DEF RunTypeOK, SubjectMoves
<1>1. 0 \notin Runs
  BY DEF Runs
<1>2. CASE Bind(r)
  BY <1>2 DEF Bind
<1>3. CASE Fork(r)
  BY <1>3 DEF Fork
<1>4. CASE Exits(r)
  BY <1>4 DEF Exits
<1>5. CASE HelperExits(r)
  <2>1. helper[r] # "none"
    BY <1>5, SubjectAssumption DEF HelperExits, HelperAlive, InGroup
  <2> QED  BY <1>5, <2>1 DEF HelperExits
<1> QED  BY <1>2, <1>3, <1>4, <1>5

\* A process is reaped.
LEMMA ReapMoves ==
  ASSUME RunTypeOK, NEW r \in Runs, Reap(r)
  PROVE  SubjectMoves
BY DEF RunTypeOK, SubjectMoves, Reap

\* The group is killed.
LEMMA EscalateMoves ==
  ASSUME RunTypeOK, run \in Runs, Escalate
  PROVE  SubjectMoves
<1> USE DEF RunTypeOK, SubjectMoves
<1>1. CASE GroupExists
  <2>1. /\ leader' = [leader EXCEPT ![run] =
                         IF leader[run] = "alive" THEN "exited" ELSE leader[run]]
        /\ helper' = [helper EXCEPT ![run] =
                         IF helper[run] \in InGroup THEN "gone" ELSE helper[run]]
        /\ address' \in {address, 0, run}
    BY <1>1 DEF Escalate
  <2>2. "none" \notin InGroup
    BY DEF InGroup
  <2> QED  BY <2>1, <2>2
<1>2. CASE ~GroupExists
  BY <1>2 DEF Escalate, subject
<1> QED  BY <1>1, <1>2

\* Nothing moves.
LEMMA NothingMoves ==
  ASSUME RunTypeOK, UNCHANGED subject
  PROVE  SubjectMoves
BY DEF RunTypeOK, SubjectMoves, subject

\* What stops a process waits for it: Closed ends or records the run.
LEMMA ClosedEnds ==
  ASSUME RunTypeOK, Ordered, pc # "idle", NEW ok, Closed(ok), UNCHANGED subject,
         leader[run] = "reaped"
  PROVE  Within \/ Ends
<1>1. run \in Runs
  BY DEF Ordered
<1>2. CASE GoTo("write-run")
  BY <1>2, NothingMoves DEF GoTo, Stay, Within
<1>3. CASE End(1)
  BY <1>1, <1>3 DEF End, Ends, Codes
<1> QED  BY <1>2, <1>3 DEF Closed

LEMMA CloseKinds ==
  ASSUME RunInv, Close
  PROVE  Within \/ Ends
<1> USE DEF RunInv
<1>1. pc \in Closing /\ run \in Runs
  BY DEF Close, Interrupt, SignalFailed, StopSeen, Escalate, Closing, Ordered
<1>2. pc # "idle"
  BY <1>1 DEF Closing
<1>3. Done => leader[run] = "reaped"
  BY <1>2 DEF Waited, Done
<1>4. ASSUME NEW how, FinishStop(how)
      PROVE  Within \/ Ends
  BY <1>2, <1>3, <1>4, ClosedEnds DEF FinishStop
<1>5. ASSUME UNCHANGED subject, NEW next \in Closing, GoTo(next)
      PROVE  Within
  BY <1>2, <1>5, NothingMoves DEF GoTo, Stay, Within, Closing
<1>6. CASE Interrupt
  BY <1>4, <1>5, <1>6 DEF Interrupt, Closing
<1>7. CASE SignalFailed
  <2>1. leader[run] = "reaped"
    BY <1>7 DEF SignalFailed, Waited
  <2> QED  BY <1>2, <1>4, <1>7, <2>1, ClosedEnds DEF SignalFailed
<1>8. CASE StopSeen
  BY <1>4, <1>8 DEF StopSeen
<1>9. CASE Escalate
  <2>1. pc' # "idle" /\ UNCHANGED <<plan, run, exit>>
    BY <1>9 DEF Escalate, GoTo, Stay
  <2> QED  BY <1>1, <1>2, <1>9, <2>1, EscalateMoves DEF Within
<1> QED  BY <1>6, <1>7, <1>8, <1>9 DEF Close

\* Every step is of one of the three kinds.
LEMMA StepKinds ==
  ASSUME RunInv, Next
  PROVE  Within \/ Begins \/ Ends
<1> USE DEF RunInv
<1>1. pc # "idle" => run \in Runs
  BY DEF Ordered
<1>2. ASSUME UNCHANGED subject, UNCHANGED <<plan, run, exit>>, pc # "idle", pc' # "idle"
      PROVE  Within
  BY <1>2, NothingMoves DEF Within
<1>3. CASE Begin
  <2>1. CASE GoTo("check")
    BY <1>3, <2>1 DEF Begin, GoTo, Stay, Begins, End
  <2>2. CASE End(1)
    <3>1. leader[run] = "none"
      BY <1>3 DEF Begin, Ordered
    <3>2. UNCHANGED subject
      BY <1>3, <2>2 DEF Begin, subject, GoTo, End
    <3> QED  BY <1>3, <2>2, <3>1, <3>2 DEF Begin, End, Ends, Codes
  <2> QED  BY <1>3, <2>1, <2>2 DEF Begin
<1>4. CASE CheckDone
  <2>1. CASE Done /\ End(1)
    <3>1. leader[run] = "reaped"
      BY <1>4, <2>1 DEF CheckDone, Done, Waited
    <3> QED  BY <1>1, <1>4, <2>1, <3>1 DEF CheckDone, End, Ends, Codes
  <2>2. CASE GoTo("probe")
    BY <1>2, <1>4, <2>2 DEF CheckDone, GoTo, Stay
  <2> QED  BY <1>4, <2>1, <2>2 DEF CheckDone
<1>5. CASE Probe \/ Tick \/ StartupTimeout \/ VerifyExecutable \/ Conclude \/ ExecuteCase
  BY <1>2, <1>5
     DEF Probe, Tick, StartupTimeout, VerifyExecutable, Abandon, Conclude, ExecuteCase,
         CallClose, GoTo, Stay
<1>6. CASE Close
  BY <1>6, CloseKinds
<1>7. CASE WriteBundle
  <2>1. ASSUME NEW from \in Writing, NEW file, NEW to \in Writing, WriteFile(from, file, to)
        PROVE  Within
    BY <1>2, <2>1 DEF WriteFile, GoTo, Stay, Writing
  <2>2. CASE WriteChecksums
    <3>1. pc = "write-sums" /\ waiter = "closed" /\ UNCHANGED subject
      BY <2>2 DEF WriteChecksums, Waited, Writing
    <3>2. leader[run] = "reaped" /\ helper[run] \notin Held
      BY <3>1 DEF Waited
    <3>3. \A mutation, verdict : ExitCode(mutation, verdict) \in Codes
      BY DEF ExitCode, Codes
    <3> QED  BY <1>1, <2>2, <3>1, <3>2, <3>3 DEF WriteChecksums, End, Ends
  <2> QED  BY <1>7, <2>1, <2>2 DEF WriteBundle, Writing
<1>8. CASE SubjectStep
  BY <1>8, SubjectAlone DEF SubjectStep, Within
<1>9. CASE WaiterRecords \/ WaiterCloses
  BY <1>2, <1>9 DEF WaiterRecords, WaiterCloses
<1>10. CASE Die
  BY <1>1, <1>10 DEF Die, End, Ends, Codes
<1>11. ASSUME NEW r \in Runs, Reap(r)
       PROVE  Within
  BY <1>11, ReapMoves DEF Reap, Within
<1> QED  BY <1>3, <1>4, <1>5, <1>6, <1>7, <1>8, <1>9, <1>10, <1>11 DEF Next, Command

-----------------------------------------------------------------------------
(* The order of the runs, and what a process leaves.                       *)

\* What a step of the processes keeps of Ordered and Ended.
LEMMA EndedStep ==
  ASSUME RunInv, Within \/ Begins \/ Ends
  PROVE  Ended'
<1> USE DEF RunInv, RunTypeOK, Ended
<1>1. CASE Within
  <2>1. "gone" \notin Held
    BY DEF Held
  <2> QED  BY <1>1, <2>1 DEF Within, SubjectMoves
<1>2. CASE Begins
  <2>1. exit[run] = 3
    BY <1>2 DEF Begins, Ordered, Runs
  <2> QED  BY <1>2, <2>1 DEF Begins
<1>3. CASE Ends
  <2>1. UNCHANGED <<leader, helper>>
    BY <1>3 DEF Ends, subject
  <2> QED  BY <1>3, <2>1 DEF Ends
<1> QED  BY <1>1, <1>2, <1>3

\* Only the record of the current run changes, while it goes on or begins.
RecordKept == \A r \in Runs : r # run \/ (pc = "idle" /\ pc' = "idle") => record'[r] = record[r]

LEMMA OrderedStep ==
  ASSUME RunInv, Within \/ Begins \/ Ends, RecordKept
  PROVE  Ordered'
<1> USE DEF RunInv, RunTypeOK, Ordered
<1>1. Runs = 1..Invocations /\ Invocations \in Nat
  BY SubjectAssumption DEF Runs
<1>2. CASE Within
  BY <1>1, <1>2 DEF Within, SubjectMoves, RecordKept
<1>3. CASE Begins
  BY <1>1, <1>3 DEF Begins, RecordKept
<1>4. CASE Ends
  <2>1. UNCHANGED <<leader, helper>>
    BY <1>4 DEF Ends, subject
  <2>2. \A r \in Runs : r >= run' => r > run
    BY <1>1, <1>4 DEF Ends
  <2> QED  BY <1>1, <1>4, <2>1, <2>2 DEF Ends, RecordKept
<1> QED  BY <1>2, <1>3, <1>4

-----------------------------------------------------------------------------
(* The waiter.                                                             *)

\* With nothing new about the waiter, what the command relies on stays.
LEMMA WaitedKept ==
  ASSUME RunInv, Within, UNCHANGED waiter,
         pc' = pc \/ pc' \notin {"missed", "kill-missed"} \cup Writing
  PROVE  Waited'
<1> USE DEF RunInv, Waited
<1>1. pc' # "idle" /\ waiter' # "waiting" => leader'[run] = "reaped" /\ helper'[run] \notin Held
  <2> SUFFICES ASSUME pc' # "idle", waiter # "waiting"
               PROVE  leader'[run] = "reaped" /\ helper'[run] \notin Held
    OBVIOUS
  <2>1. run \in Runs /\ leader[run] = "reaped" /\ helper[run] \notin Held
    BY DEF Within, Ordered
  <2>2. "gone" \notin Held
    BY DEF Held
  <2> QED  BY <2>1, <2>2 DEF Within, SubjectMoves
<1>2. pc' \in {"missed", "kill-missed"} => leader'[run] = "reaped"
  <2> SUFFICES ASSUME pc' \in {"missed", "kill-missed"} PROVE leader'[run] = "reaped"
    OBVIOUS
  <2>1. leader[run] = "reaped" /\ run \in Runs
    BY DEF Ordered
  <2> QED  BY <2>1 DEF Within, SubjectMoves
<1> QED  BY <1>1, <1>2 DEF Within

\* An ended invocation relies on nothing.
LEMMA WaitedIdle ==
  ASSUME pc' = "idle"
  PROVE  Waited'
BY DEF Waited, Writing

LEMMA CloseWaited ==
  ASSUME RunInv, Close
  PROVE  Waited'
<1> USE DEF RunInv
<1>1. waiter' = waiter /\ run \in Runs
  BY DEF Close, Interrupt, SignalFailed, StopSeen, Escalate, Ordered
<1>2. ASSUME NEW how, FinishStop(how)
      PROVE  Waited'
  <2>1. CASE GoTo("write-run")
    <3>1. waiter = "closed" /\ pc # "idle"
      BY <1>2 DEF FinishStop, Done, Close, Interrupt, SignalFailed, StopSeen, Escalate
    <3> QED  BY <1>1, <1>2, <2>1, <3>1
             DEF FinishStop, GoTo, Stay, Waited, Writing, subject
  <2>2. CASE End(1)
    BY <2>2, WaitedIdle DEF End
  <2> QED  BY <1>2, <2>1, <2>2 DEF FinishStop, Closed
<1>3. CASE Interrupt /\ ~Done
  <2>1. /\ run' = run /\ UNCHANGED subject
        /\ pc' = IF GroupExists THEN "signalled" ELSE "missed"
    BY <1>3 DEF Interrupt, FinishStop, GoTo, Stay
  <2>2. ~GroupExists => leader[run] = "reaped"
    BY DEF GroupExists
  <2> QED  BY <1>1, <1>3, <2>1, <2>2 DEF Waited, Interrupt, Writing, subject
<1>4. CASE SignalFailed
  BY <1>2, <1>4, WaitedIdle DEF SignalFailed, Closed, End
<1>5. CASE Escalate
  <2>1. CASE GroupExists
    <3>1. pc' = "killed" /\ Within
      BY <1>1, <1>5, <2>1, EscalateMoves DEF Escalate, GoTo, Stay, Within
    <3> QED  BY <1>1, <3>1, WaitedKept DEF Writing
  <2>2. CASE ~GroupExists
    <3>1. pc' = "kill-missed" /\ run' = run /\ UNCHANGED subject /\ leader[run] = "reaped"
      BY <1>5, <2>2 DEF Escalate, GoTo, Stay, GroupExists
    <3> QED  BY <1>1, <1>5, <3>1 DEF Waited, Escalate, Writing, subject
  <2> QED  BY <2>1, <2>2
<1> QED  BY <1>2, <1>3, <1>4, <1>5 DEF Close, Interrupt, StopSeen, FinishStop

LEMMA WaitedStep ==
  ASSUME RunInv, Next
  PROVE  Waited'
<1> USE DEF RunInv
<1>1. ASSUME UNCHANGED <<waiter, subject, plan, run, exit>>, pc # "idle",
             pc' \in Starting \cup {"interrupt"}
      PROVE  Waited'
  <2>1. Within
    BY <1>1, NothingMoves DEF Within, Starting
  <2> QED  BY <1>1, <2>1, WaitedKept DEF Starting, Writing
<1>2. CASE Begin
  <2>1. pc' = "idle" \/ (pc' = "check" /\ waiter' = "waiting")
    BY <1>2 DEF Begin, GoTo, End
  <2> QED  BY <2>1 DEF Waited, Writing
<1>3. CASE CheckDone
  <2>1. CASE End(1)
    BY <2>1, WaitedIdle DEF End
  <2>2. CASE GoTo("probe")
    BY <1>1, <1>3, <2>2 DEF CheckDone, GoTo, Stay, Starting
  <2> QED  BY <1>3, <2>1, <2>2 DEF CheckDone
<1>4. CASE Probe \/ Tick \/ StartupTimeout \/ VerifyExecutable \/ Conclude
  BY <1>1, <1>4
     DEF Probe, Tick, StartupTimeout, VerifyExecutable, Abandon, Conclude, CallClose, GoTo,
         Stay, Starting, process
<1>5. CASE ExecuteCase
  BY <1>1, <1>5 DEF ExecuteCase, Stay, process, Starting
<1>6. CASE Close
  BY <1>6, CloseWaited
<1>7. CASE WriteBundle
  <2>1. ASSUME NEW from \in Writing, NEW file, NEW to \in Writing, WriteFile(from, file, to)
        PROVE  Waited'
    <3>1. waiter = "closed" /\ waiter' = waiter /\ run' = run /\ UNCHANGED subject
      BY <2>1 DEF WriteFile, Waited, process, GoTo, Stay
    <3>2. pc # "idle" /\ pc' = to
      BY <2>1 DEF WriteFile, GoTo, Writing
    <3> QED  BY <3>1, <3>2 DEF Waited, Writing, subject
  <2>2. CASE WriteChecksums
    BY <2>2, WaitedIdle DEF WriteChecksums, End
  <2> QED  BY <1>7, <2>1, <2>2 DEF WriteBundle, Writing
<1>8. CASE SubjectStep
  <2>1. Within
    BY <1>8, SubjectAlone DEF SubjectStep, Within
  <2> QED  BY <1>8, <2>1, WaitedKept DEF SubjectStep, process
<1>9. CASE WaiterRecords
  BY <1>9 DEF WaiterRecords, Waited, Writing, subject
<1>10. CASE WaiterCloses
  BY <1>10 DEF WaiterCloses, Waited, Writing, subject
<1>11. CASE Die
  BY <1>11, WaitedIdle DEF Die, End
<1>12. ASSUME NEW r \in Runs, Reap(r)
       PROVE  Waited'
  <2>1. Within
    BY <1>12, ReapMoves DEF Reap, Within
  <2> QED  BY <1>12, <2>1, WaitedKept DEF Reap, process
<1> QED
  BY <1>2, <1>3, <1>4, <1>5, <1>6, <1>7, <1>8, <1>9, <1>10, <1>11, <1>12 DEF Next, Command

-----------------------------------------------------------------------------
(* The records.                                                            *)

LEMMA PlanType ==
  ASSUME RunTypeOK, NEW r \in Runs
  PROVE  plan[r] \in Invocation
BY SubjectAssumption DEF RunTypeOK

\* A record is changed when its run begins and when it concludes.
LEMMA RecordChanges ==
  ASSUME RunInv, Next
  PROVE  \/ ~Conclude /\ record' = record
         \/ /\ Begin /\ pc' = "check"
            /\ \E b \in Runs \cup {0} : record' = [record EXCEPT ![run].base = b]
         \/ /\ Conclude
            /\ \E k \in Outcomes \cup {"none"} :
                 /\ k # "none" => k = Classify(Expected, results)
                 /\ record' = [record EXCEPT ![run].verdict = VerdictFor(results),
                                             ![run].mutation = k]
<1> USE DEF RunInv, RunTypeOK
<1>1. CASE Begin
  <2>1. CASE GoTo("check")
    <3>1. /\ pc' = "check"
          /\ record' = [record EXCEPT ![run].base =
                          IF Current.mutation THEN files[Current.base].run ELSE 0]
      BY <1>1, <2>1 DEF Begin, GoTo, End
    <3>2. Current.base \in Dirs
      BY <1>1, PlanType DEF Begin, Invocation, Current
    <3>3. (IF Current.mutation THEN files[Current.base].run ELSE 0) \in Runs \cup {0}
      BY <3>2 DEF Bundle
    <3> QED  BY <1>1, <3>1, <3>3
  <2>2. CASE ~GoTo("check")
    BY <1>1, <2>2 DEF Begin, Conclude
  <2> QED  BY <2>1, <2>2
<1>2. CASE Conclude
  <2>1. Classify(Expected, results) \in Outcomes
    BY DEF Classify, Outcomes
  <2> QED  BY <1>2, <2>1 DEF Conclude, Outcomes
<1>3. ASSUME ~Conclude,
             \/ CheckDone \/ Probe \/ Tick \/ StartupTimeout \/ VerifyExecutable
             \/ ExecuteCase \/ Close \/ WriteBundle
      PROVE  record' = record
  BY <1>3 DEF CheckDone, Probe, Tick, StartupTimeout, VerifyExecutable, Abandon, ExecuteCase,
              Close, WriteBundle, WriteFile, WriteChecksums
<1>4. ASSUME \/ SubjectStep \/ WaiterRecords \/ WaiterCloses \/ Die
             \/ \E r \in Runs : Reap(r)
      PROVE  record' = record
  BY <1>4 DEF SubjectStep, WaiterRecords, WaiterCloses, Die, Reap
<1> QED  BY <1>1, <1>2, <1>3, <1>4 DEF Next, Command

\* A verdict is one of four.
LEMMA VerdictType ==
  ASSUME NEW statuses
  PROVE  VerdictFor(statuses) \in Verdicts
BY DEF VerdictFor, Verdicts, Statuses

\* What a step does to the records, in those terms.
LEMMA RecordStep ==
  ASSUME RunInv, Next
  PROVE  /\ record' \in [Runs -> Record]
         /\ RecordKept
         /\ run \in Runs =>
              IF Conclude
              THEN /\ record'[run].verdict = VerdictFor(results)
                   /\ record'[run].mutation \in {"none", Classify(Expected, results)}
              ELSE /\ record'[run].verdict = record[run].verdict
                   /\ record'[run].mutation = record[run].mutation
<1> USE DEF RunInv, RunTypeOK
<1>1. CASE ~Conclude /\ record' = record
  BY <1>1 DEF RecordKept
<1>2. CASE /\ Begin /\ pc' = "check"
           /\ \E b \in Runs \cup {0} : record' = [record EXCEPT ![run].base = b]
  <2>1. run \in Runs
    BY <1>2 DEF Begin
  <2>2. PICK b \in Runs \cup {0} : record' = [record EXCEPT ![run].base = b]
    BY <1>2
  <2>3. /\ record' \in [Runs -> Record]
        /\ \A q \in Runs \ {run} : record'[q] = record[q]
        /\ record'[run].verdict = record[run].verdict
        /\ record'[run].mutation = record[run].mutation
    <3>1. /\ record'[run] = [record[run] EXCEPT !.base = b]
          /\ record' = [record EXCEPT ![run] = record'[run]]
      BY <2>1, <2>2
    <3> DEFINE x == record[run]
    <3>2. x \in Record /\ record'[run] = [x EXCEPT !.base = b]
      BY <2>1, <3>1
    <3> HIDE DEF x
    <3>3. /\ record'[run] \in Record
          /\ record'[run].verdict = x.verdict /\ record'[run].mutation = x.mutation
      BY <3>2 DEF Record
    <3> QED  BY <2>1, <3>1, <3>3 DEF x
  <2>4. pc = "idle" /\ pc' = "check" /\ ~Conclude
    BY <1>2 DEF Begin, Conclude
  <2> QED  BY <2>1, <2>3, <2>4 DEF RecordKept
<1>3. CASE /\ Conclude
           /\ \E k \in Outcomes \cup {"none"} :
                /\ k # "none" => k = Classify(Expected, results)
                /\ record' = [record EXCEPT ![run].verdict = VerdictFor(results),
                                            ![run].mutation = k]
  <2>1. PICK k \in Outcomes \cup {"none"} :
          /\ k # "none" => k = Classify(Expected, results)
          /\ record' = [record EXCEPT ![run].verdict = VerdictFor(results), ![run].mutation = k]
    BY <1>3
  <2>2. run \in Runs /\ pc # "idle"
    BY <1>3 DEF Conclude, Ordered
  <2>3. /\ record' \in [Runs -> Record]
        /\ \A q \in Runs \ {run} : record'[q] = record[q]
        /\ record'[run].verdict = VerdictFor(results) /\ record'[run].mutation = k
    <3>1. VerdictFor(results) \in Verdicts
      BY VerdictType
    <3>2. /\ record'[run] = [[record[run] EXCEPT !.verdict = VerdictFor(results)]
                              EXCEPT !.mutation = k]
          /\ \A q \in Runs \ {run} : record'[q] = record[q]
          /\ record' = [record EXCEPT ![run] = record'[run]]
      BY <2>1, <2>2
    <3> DEFINE x == record[run]
               v == VerdictFor(results)
               h == [x EXCEPT !.verdict = v]
    <3>3. x \in Record
      BY <2>2
    <3>4. v \in Verdicts /\ record'[run] = [h EXCEPT !.mutation = k]
      BY <3>1, <3>2
    <3> HIDE DEF x, v
    <3>5. h \in Record /\ h.verdict = v
      BY <3>3, <3>4 DEF Record
    <3> HIDE DEF h
    <3>6. /\ record'[run] \in Record
          /\ record'[run].verdict = v /\ record'[run].mutation = k
      BY <3>4, <3>5 DEF Record
    <3> QED  BY <2>2, <3>2, <3>6 DEF v
  <2> QED  BY <1>3, <2>1, <2>2, <2>3 DEF RecordKept
<1> QED  BY <1>1, <1>2, <1>3, RecordChanges

-----------------------------------------------------------------------------
(* The answers.                                                            *)

\* A case whose target is not reached neither passes nor fails; one whose
\* target is reached has the status of its answer.
LEMMA CaseStatuses ==
  ASSUME NEW case, NEW answer
  PROVE  /\ CaseStatus(case, answer) \in Statuses
         /\ ~Reached(case, answer) => CaseStatus(case, answer) \in {"error", "inconclusive"}
         /\ Reached(case, answer) =>
              CaseStatus(case, answer) = TargetStatus(case.prohibited, answer.target)
BY DEF CaseStatus, Reached, IsolationStatus, SetupStatus, TargetStatus, Statuses

\* Whether a target is reached does not depend on its answer.
LEMMA ReachedBefore ==
  ASSUME NEW case, NEW answer \in Reply, NEW target
  PROVE  /\ Reached(case, [answer EXCEPT !.target = target]) <=> Reached(case, answer)
         /\ [answer EXCEPT !.target = target].target = target
BY DEF Reached, Reply

\* An answer of the target says whether the subject keeps the rule.
LEMMA TargetTells ==
  ASSUME RunTypeOK, NEW q \in Rules, NEW answer \in TargetReply(q)
  PROVE  LET status == TargetStatus(Cases[q].prohibited, answer) IN
           /\ status \in {"pass", "fail"} => answer # "refused" /\ address # 0
           /\ status = "pass" => q \notin plan[address].broken
           /\ status = "fail" => q \in plan[address].broken
<1>1. Cases[q].prohibited \in BOOLEAN
  BY SubjectAssumption
<1> QED  BY <1>1 DEF TargetReply, TargetStatus

\* What a case leaves: nothing new, or the status of its rule.
LEMMA ExecuteCaseStep ==
  ASSUME RunInv, ExecuteCase
  PROVE  /\ reply' \in Reply
         /\ \/ UNCHANGED <<rule, results, by>>
            \/ \E status \in Statuses, who \in Runs \cup {0} :
                 /\ rule \in Rules /\ rule' = rule + 1
                 /\ results' = [results EXCEPT ![rule] = status]
                 /\ by' = [by EXCEPT ![rule] = who]
                 /\ status = "pass" => who # 0 /\ rule \notin plan[who].broken
                 /\ status = "fail" => who # 0 /\ rule \in plan[who].broken
<1> USE DEF RunInv, RunTypeOK
<1>1. rule \in Rules
  BY DEF ExecuteCase
<1>2. NoReply \in Reply
  BY DEF NoReply, Reply
<1>3. CASE Request("isolation")
  <2>1. PICK a \in {"refused", "2xx", "other"} : reply' = [reply EXCEPT !.isolation = a]
    BY <1>3 DEF Request, Replies
  <2>2. reply' \in Reply
    BY <2>1 DEF Reply
  <2> QED  BY <1>3, <2>2 DEF Request
<1>4. CASE Request("setup")
  <2>1. PICK a \in {"refused", "met", "unmet"} : reply' = [reply EXCEPT !.setup = a]
    BY <1>4 DEF Request, Replies
  <2>2. reply' \in Reply
    BY <2>1 DEF Reply
  <2> QED  BY <1>4, <2>2 DEF Request
<1>5. CASE ~Reached(Cases[rule], reply) /\ Finish(reply, 0)
  <2>1. CaseStatus(Cases[rule], reply) \in {"error", "inconclusive"}
    BY <1>5, CaseStatuses
  <2> QED  BY <1>1, <1>2, <1>5, <2>1 DEF Finish, Statuses
<1>6. CASE /\ Reached(Cases[rule], reply)
           /\ \E answer \in TargetReply(rule) :
                Finish([reply EXCEPT !.target = answer], IF answer = "refused" THEN 0 ELSE address)
  <2>1. PICK answer \in TargetReply(rule) :
          Finish([reply EXCEPT !.target = answer], IF answer = "refused" THEN 0 ELSE address)
    BY <1>6
  <2> DEFINE full == [reply EXCEPT !.target = answer]
             status == CaseStatus(Cases[rule], full)
             who == IF answer = "refused" THEN 0 ELSE address
  <2>2. Reached(Cases[rule], full) /\ full.target = answer
    BY <1>6, ReachedBefore
  <2>3. Finish(full, who)
    BY <2>1
  <2> HIDE DEF full
  <2>4. status \in Statuses /\ status = TargetStatus(Cases[rule].prohibited, answer)
    BY <2>2, CaseStatuses
  <2>5. /\ rule' = rule + 1 /\ reply' = NoReply
        /\ results' = [results EXCEPT ![rule] = status]
        /\ by' = [by EXCEPT ![rule] = who]
    BY <2>3 DEF Finish
  <2> HIDE DEF status
  <2>6. /\ status \in {"pass", "fail"} => who = address /\ address # 0
        /\ status = "pass" => rule \notin plan[address].broken
        /\ status = "fail" => rule \in plan[address].broken
    BY <1>1, <2>4, TargetTells
  <2> QED  BY <1>1, <1>2, <2>4, <2>5, <2>6
<1> QED  BY <1>3, <1>4, <1>5, <1>6 DEF ExecuteCase

\* Only a case changes them, and the end of an invocation.
LEMMA LocalStep ==
  ASSUME RunInv, Next
  PROVE  \/ UNCHANGED local
         \/ Fresh /\ pc' = "idle"
         \/ ExecuteCase
<1>1. ASSUME NEW ok, Closed(ok)
      PROVE  UNCHANGED local \/ (Fresh /\ pc' = "idle")
  BY <1>1 DEF Closed, GoTo, End
<1>2. CASE Close
  BY <1>1, <1>2
     DEF Close, Interrupt, SignalFailed, StopSeen, Escalate, FinishStop, GoTo
<1>3. CASE \/ Begin \/ CheckDone \/ Probe \/ Tick \/ StartupTimeout \/ VerifyExecutable
           \/ Conclude \/ WriteBundle
  BY <1>3 DEF Begin, CheckDone, Probe, Tick, StartupTimeout, VerifyExecutable, Abandon, CallClose,
              Conclude, WriteBundle, WriteFile, WriteChecksums, GoTo, End
<1>4. CASE SubjectStep \/ WaiterRecords \/ WaiterCloses \/ Die \/ \E r \in Runs : Reap(r)
  BY <1>4 DEF SubjectStep, WaiterRecords, WaiterCloses, Die, Reap, End
<1> QED  BY <1>2, <1>3, <1>4 DEF Next, Command

\* The plan is made once.
LEMMA PlanStays ==
  ASSUME RunInv, Next
  PROVE  plan' = plan
BY StepKinds DEF Within, Begins, Ends

LEMMA AnsweredStep ==
  ASSUME RunInv, Next
  PROVE  Answered'
<1> USE DEF RunInv, RunTypeOK, Answered, Kept, Broken
<1>1. plan' = plan
  BY PlanStays
<1>2. CASE UNCHANGED local
  BY <1>1, <1>2 DEF local
<1>3. CASE Fresh
  <2>1. \A q \in Rules : ~(q < 1)
    BY RuleNumbers
  <2> QED  BY <1>3, <2>1 DEF Fresh
<1>4. CASE ExecuteCase
  <2>1. CASE UNCHANGED <<rule, results, by>>
    BY <1>1, <2>1
  <2>2. CASE \E status \in Statuses, who \in Runs \cup {0} :
               /\ rule \in Rules /\ rule' = rule + 1
               /\ results' = [results EXCEPT ![rule] = status]
               /\ by' = [by EXCEPT ![rule] = who]
               /\ status = "pass" => who # 0 /\ rule \notin plan[who].broken
               /\ status = "fail" => who # 0 /\ rule \in plan[who].broken
    <3>1. PICK status \in Statuses, who \in Runs \cup {0} :
            /\ rule \in Rules /\ rule' = rule + 1
            /\ results' = [results EXCEPT ![rule] = status]
            /\ by' = [by EXCEPT ![rule] = who]
            /\ status = "pass" => who # 0 /\ rule \notin plan[who].broken
            /\ status = "fail" => who # 0 /\ rule \in plan[who].broken
      BY <2>2
    <3>2. results'[rule] = status /\ by'[rule] = who
      BY <3>1
    <3>3. \A q \in Rules \ {rule} : results'[q] = results[q] /\ by'[q] = by[q]
      BY <3>1
    <3>4. \A q \in Rules : q < rule + 1 => q = rule \/ q < rule
      BY <3>1, RuleNumbers
    <3> QED  BY <1>1, <3>1, <3>2, <3>3, <3>4
  <2> QED  BY <1>4, <2>1, <2>2, ExecuteCaseStep
<1> QED  BY <1>2, <1>3, <1>4, LocalStep

-----------------------------------------------------------------------------
(* The verdict.                                                            *)

LEMMA ObservedStep ==
  ASSUME RunInv, Next
  PROVE  VerdictIsObserved'
<1> USE DEF RunInv
<1> DEFINE Told == /\ record'[run'].verdict = "pass" => \A q \in Rules : Kept(q)'
                   /\ record'[run'].mutation = "killed" => \E q \in Expected : Broken(q)'
<1>1. SUFFICES ASSUME pc' # "idle" PROVE Told
  BY DEF VerdictIsObserved, Kept, Broken
<1>2. run' = run /\ run \in Runs /\ (Within \/ Begins)
  BY <1>1, StepKinds DEF Within, Begins, Ends, Ordered
<1>3. plan' = plan
  BY PlanStays
<1>4. CASE Begins
  <2>1. record[run] = NoRecord
    BY <1>4 DEF Begins, Ordered
  <2>2. ~Conclude
    BY <1>4 DEF Begins, Conclude
  <2>3. record'[run].verdict = "none" /\ record'[run].mutation = "none"
    BY <1>2, <2>1, <2>2, RecordStep DEF NoRecord
  <2> QED  BY <1>2, <2>3
<1>5. CASE Conclude
  <2>1. /\ record'[run].verdict = VerdictFor(results)
        /\ record'[run].mutation \in {"none", Classify(Expected, results)}
    BY <1>2, <1>5, RecordStep
  <2>2. by' = by
    BY <1>5 DEF Conclude, CallClose, GoTo, local
  <2>3. \A q \in Rules : results[q] \in Statuses
    <3>1. rule \in 1..(Cardinality(Rules) + 1) /\ rule \notin Rules
      BY <1>5 DEF Conclude, RunTypeOK
    <3>2. \A q \in Rules : q < rule
      BY <3>1, RuleNumbers
    <3> QED  BY <3>2 DEF Answered
  <2>4. VerdictFor(results) = "pass" => \A q \in Rules : results[q] = "pass"
    BY <2>3 DEF VerdictFor, Has, Statuses, RunTypeOK
  <2>5. Classify(Expected, results) = "killed" => \E q \in Expected : results[q] = "fail"
    BY DEF Classify, ExpectedStatus
  <2>6. Expected \subseteq Rules
    BY SubjectAssumption
  <2> QED  BY <1>2, <1>3, <2>1, <2>2, <2>4, <2>5, <2>6 DEF Answered, Kept, Broken
<1>6. CASE Within /\ ~Conclude
  <2>1. /\ record'[run].verdict = record[run].verdict
        /\ record'[run].mutation = record[run].mutation
    BY <1>2, <1>6, RecordStep
  <2>2. pc # "idle"
    BY <1>1, <1>6 DEF Within
  <2>3. CASE ExecuteCase
    <3>1. record[run].verdict = "none" /\ record[run].mutation = "none"
      BY <2>3 DEF ExecuteCase, Recorded, Starting
    <3> QED  BY <1>2, <2>1, <3>1
  <2>4. CASE UNCHANGED local
    <3>1. /\ record[run].verdict = "pass" => \A q \in Rules : Kept(q)
          /\ record[run].mutation = "killed" => \E q \in Expected : Broken(q)
      BY <2>2 DEF VerdictIsObserved, Kept, Broken
    <3> QED  BY <1>2, <1>3, <2>1, <2>4, <3>1 DEF local, Kept, Broken
  <2> QED  BY <1>1, <2>3, <2>4, LocalStep
<1> QED  BY <1>2, <1>4, <1>5, <1>6

-----------------------------------------------------------------------------
(* What is recorded of a run.                                              *)

\* How a run got to what it is at.
LEMMA PcStep ==
  ASSUME RunInv, Next, pc' # "idle"
  PROVE  /\ pc' \in Starting => pc \in Starting \cup {"idle"}
         /\ pc' \in Closing =>
              \/ Conclude
              \/ pc \in Starting /\ why' = "abandon"
              \/ pc \in Closing /\ why' = why
         /\ pc' \in Writing =>
              \/ pc = pc'
              \/ pc \in Writing
              \/ /\ pc \in Closing /\ why = "stop" /\ pc' = "write-run" /\ waiter = "closed"
                 /\ \E how \in {"stopped", "killed"} : outcome' = [outcome EXCEPT ![run] = how]
<1> USE DEF RunInv, Starting, Closing, Writing
<1>1. ASSUME NEW ok, Closed(ok)
      PROVE  pc' = "write-run" /\ why = "stop" /\ ok
  BY <1>1 DEF Closed, End, GoTo
<1>2. ASSUME NEW how, FinishStop(how)
      PROVE  /\ pc' = "write-run" /\ why = "stop" /\ waiter = "closed"
             /\ outcome' = [outcome EXCEPT ![run] = how]
  BY <1>1, <1>2 DEF FinishStop, Done
<1>3. CASE Close
  <2>1. why' = why
    BY <1>3 DEF Close
  <2>2. CASE Interrupt
    BY <1>2, <2>1, <2>2 DEF Interrupt, GoTo
  <2>3. CASE SignalFailed
    BY <1>1, <1>2, <2>1, <2>3 DEF SignalFailed
  <2>4. CASE StopSeen
    BY <1>2, <2>1, <2>4 DEF StopSeen
  <2>5. CASE Escalate
    BY <2>1, <2>5 DEF Escalate, GoTo
  <2> QED  BY <1>3, <2>2, <2>3, <2>4, <2>5 DEF Close
<1>4. CASE \/ Begin \/ CheckDone \/ Probe \/ Tick \/ StartupTimeout \/ VerifyExecutable
           \/ ExecuteCase \/ Conclude
  BY <1>4 DEF Begin, CheckDone, Probe, Tick, StartupTimeout, VerifyExecutable, Abandon, CallClose,
              ExecuteCase, Conclude, GoTo, End
<1>5. CASE WriteBundle
  BY <1>5 DEF WriteBundle, WriteFile, WriteChecksums, GoTo, End
<1>6. CASE SubjectStep \/ WaiterRecords \/ WaiterCloses \/ Die \/ \E r \in Runs : Reap(r)
  BY <1>6 DEF SubjectStep, WaiterRecords, WaiterCloses, Die, Reap, process, End
<1> QED  BY <1>3, <1>4, <1>5, <1>6 DEF Next, Command

\* The outcome of the current run only, and of no run that is being written.
LEMMA OutcomeStep ==
  ASSUME RunInv, Next
  PROVE  /\ outcome' \in [Runs -> {"none", "starting", "exited-before-ready", "ready", "exited",
                                   "stopped", "killed"}]
         /\ \A r \in Runs : r # run => outcome'[r] = outcome[r]
         /\ pc \in Writing => outcome' = outcome
<1> USE DEF RunInv, RunTypeOK, Writing
<1>1. \/ outcome' = outcome
      \/ /\ pc \notin Writing
         /\ \E how \in {"starting", "exited-before-ready", "ready", "exited", "stopped", "killed"} :
              outcome' = [outcome EXCEPT ![run] = how]
  <2>1. CASE Begin \/ CheckDone \/ Probe
    BY <2>1 DEF Begin, CheckDone, Probe
  <2>2. CASE Close
    BY <2>2 DEF Close, Interrupt, SignalFailed, StopSeen, Escalate, FinishStop
  <2>3. CASE \/ Tick \/ StartupTimeout \/ VerifyExecutable \/ ExecuteCase \/ Conclude \/ WriteBundle
    BY <2>3 DEF Tick, StartupTimeout, VerifyExecutable, Abandon, ExecuteCase, Conclude,
                WriteBundle, WriteFile, WriteChecksums, process
  <2>4. CASE WaiterRecords
    <3>1. pc \notin Writing
      BY <2>4 DEF WaiterRecords, Waited
    <3> QED  BY <2>4, <3>1 DEF WaiterRecords
  <2>5. CASE SubjectStep \/ WaiterCloses \/ Die \/ \E r \in Runs : Reap(r)
    BY <2>5 DEF SubjectStep, WaiterCloses, Die, Reap, process
  <2> QED  BY <2>1, <2>2, <2>3, <2>4, <2>5 DEF Next, Command
<1> QED  BY <1>1

LEMMA RecordedStep ==
  ASSUME RunInv, Next
  PROVE  Recorded'
<1> USE DEF RunInv
<1> SUFFICES ASSUME pc' # "idle" PROVE Recorded'
  BY DEF Recorded, Starting, Closing, Writing
<1>1. run' = run /\ run \in Runs
  BY StepKinds DEF Within, Begins, Ends, Ordered
<1>2. Conclude => /\ pc' \in Closing
                  /\ record'[run].verdict # "none"
  <2>1. Conclude => record'[run].verdict \in Verdicts
    BY <1>1, RecordStep, VerdictType
  <2>2. "none" \notin Verdicts
    BY DEF Verdicts, Statuses
  <2> QED  BY <2>1, <2>2 DEF Conclude, CallClose, GoTo, Closing
<1>3. ~Conclude => /\ record'[run].verdict = record[run].verdict
                   /\ record'[run].mutation = record[run].mutation
  BY <1>1, RecordStep
<1>4. CASE pc' \in Starting
  <2>1. pc' \notin Closing \cup Writing
    BY <1>4 DEF Starting, Closing, Writing
  <2>2. CASE pc \in Starting
    BY <1>1, <1>2, <1>3, <2>1, <2>2 DEF Recorded
  <2>3. CASE pc = "idle"
    <3>1. record[run] = NoRecord
      BY <1>1, <2>3 DEF Ordered
    <3> QED  BY <1>1, <1>2, <1>3, <2>1, <3>1 DEF Recorded, NoRecord
  <2> QED  BY <1>4, <2>2, <2>3, PcStep
<1>5. CASE pc' \in Closing
  <2>1. pc' \notin Starting \cup Writing
    BY <1>5 DEF Starting, Closing, Writing
  <2> QED  BY <1>1, <1>2, <1>3, <1>5, <2>1, PcStep DEF Recorded
<1>6. CASE pc' \in Writing
  <2>1. pc' \notin Starting \cup Closing /\ ~Conclude
    BY <1>2, <1>6 DEF Starting, Closing, Writing
  <2>2. CASE pc \in Writing
    BY <1>1, <1>3, <2>1, <2>2, OutcomeStep DEF Recorded
  <2>3. CASE pc \in Closing /\ why = "stop" /\
             \E how \in {"stopped", "killed"} : outcome' = [outcome EXCEPT ![run] = how]
    <3>1. outcome'[run] \in {"stopped", "killed"}
      BY <1>1, <2>3 DEF RunTypeOK
    <3> QED  BY <1>1, <1>3, <2>1, <2>3, <3>1 DEF Recorded
  <2> QED  BY <1>6, <2>2, <2>3, PcStep
<1> QED  BY <1>4, <1>5, <1>6 DEF Recorded

-----------------------------------------------------------------------------
(* The bundles.                                                            *)

\* One file of a bundle is written.
LEMMA PutFile ==
  ASSUME NEW f \in [Dirs -> Bundle], NEW g, NEW d \in Dirs, NEW v,
         \/ v \in Runs \cup {0} /\ g = [f EXCEPT ![d].run = v]
         \/ v \in Runs \cup {0} /\ g = [f EXCEPT ![d].lifecycle = v]
         \/ v \in Runs \cup {0} /\ g = [f EXCEPT ![d].manifest = v]
         \/ v \in [run : Runs \cup {0}, lifecycle : Runs \cup {0}, manifest : Runs \cup {0}]
            /\ g = [f EXCEPT ![d].sums = v]
  PROVE  g \in [Dirs -> Bundle]
<1> DEFINE x == f[d]
<1>1. x \in Bundle
  OBVIOUS
<1>2. ASSUME NEW y \in Bundle, g = [f EXCEPT ![d] = y]
      PROVE  g \in [Dirs -> Bundle]
  BY <1>2
<1>3. CASE v \in Runs \cup {0} /\ g = [f EXCEPT ![d].run = v]
  <2>1. g = [f EXCEPT ![d] = [x EXCEPT !.run = v]]
    BY <1>3
  <2> HIDE DEF x
  <2>2. [x EXCEPT !.run = v] \in Bundle
    BY <1>1, <1>3 DEF Bundle
  <2> QED  BY <1>2, <2>1, <2>2
<1>4. CASE v \in Runs \cup {0} /\ g = [f EXCEPT ![d].lifecycle = v]
  <2>1. g = [f EXCEPT ![d] = [x EXCEPT !.lifecycle = v]]
    BY <1>4
  <2> HIDE DEF x
  <2>2. [x EXCEPT !.lifecycle = v] \in Bundle
    BY <1>1, <1>4 DEF Bundle
  <2> QED  BY <1>2, <2>1, <2>2
<1>5. CASE v \in Runs \cup {0} /\ g = [f EXCEPT ![d].manifest = v]
  <2>1. g = [f EXCEPT ![d] = [x EXCEPT !.manifest = v]]
    BY <1>5
  <2> HIDE DEF x
  <2>2. [x EXCEPT !.manifest = v] \in Bundle
    BY <1>1, <1>5 DEF Bundle
  <2> QED  BY <1>2, <2>1, <2>2
<1>6. CASE /\ v \in [run : Runs \cup {0}, lifecycle : Runs \cup {0}, manifest : Runs \cup {0}]
           /\ g = [f EXCEPT ![d].sums = v]
  <2>1. g = [f EXCEPT ![d] = [x EXCEPT !.sums = v]]
    BY <1>6
  <2> HIDE DEF x
  <2>2. [x EXCEPT !.sums = v] \in Bundle
    BY <1>1, <1>6 DEF Bundle
  <2> QED  BY <1>2, <2>1, <2>2
<1> QED  BY <1>3, <1>4, <1>5, <1>6

\* What a step does to the files: nothing, a file of the directory of the current
\* run, or the first lines of the checksums of what that directory holds.
LEMMA FilesStep ==
  ASSUME RunInv, Next
  PROVE  \/ files' = files
         \/ /\ run \in Runs /\ pc \in Writing /\ Current.out \in Dirs
            /\ \/ \E v \in {0, run} :
                    \/ /\ pc = "write-run"
                       /\ files' = [files EXCEPT ![Current.out].run = v]
                    \/ /\ pc = "write-lifecycle"
                       /\ files' = [files EXCEPT ![Current.out].lifecycle = v]
                    \/ /\ pc = "write-manifest" /\ (v = run => pc' = "write-sums")
                       /\ files' = [files EXCEPT ![Current.out].manifest = v]
               \/ /\ pc = "write-sums"
                  /\ \E n \in 0..3 : files' = [files EXCEPT ![Current.out].sums = FirstLines(n)]
<1> USE DEF RunInv
<1>1. pc # "idle" => run \in Runs /\ Current.out \in Dirs
  BY PlanType DEF Ordered, Invocation, Current
<1>2. CASE WriteBundle
  BY <1>1, <1>2 DEF WriteBundle, WriteFile, WriteChecksums, Put, GoTo, Writing
<1>3. CASE Die
  <2>1. pc # "idle" /\ 0 \notin Runs
    BY <1>3 DEF Die, Runs
  <2> QED  BY <1>1, <1>3, <2>1 DEF Die, Put, Writing
<1>4. CASE Command /\ ~WriteBundle
  BY <1>4 DEF Command, Begin, CheckDone, Probe, Tick, StartupTimeout, VerifyExecutable, Abandon,
              ExecuteCase, Conclude, Close
<1>5. CASE SubjectStep \/ WaiterRecords \/ WaiterCloses \/ \E r \in Runs : Reap(r)
  BY <1>5 DEF SubjectStep, WaiterRecords, WaiterCloses, Reap
<1> QED  BY <1>2, <1>3, <1>4, <1>5 DEF Next

LEMMA FilesType ==
  ASSUME RunInv, Next
  PROVE  files' \in [Dirs -> Bundle]
<1> USE DEF RunInv, RunTypeOK
<1>1. CASE files' = files
  BY <1>1
<1>2. ASSUME run \in Runs, Current.out \in Dirs
      PROVE  /\ 0 \in Runs \cup {0} /\ run \in Runs \cup {0}
             /\ \A n \in 0..3 : FirstLines(n) \in [run : Runs \cup {0}, lifecycle : Runs \cup {0},
                                                   manifest : Runs \cup {0}]
  <2>1. files[Current.out] \in Bundle
    BY <1>2
  <2> QED  BY <1>2, <2>1 DEF Bundle, FirstLines
<1> QED  BY <1>1, <1>2, FilesStep, PutFile

\* What is in the directories, seen one at a time.
LEMMA FilesSeen ==
  ASSUME RunInv, Next
  PROVE  /\ \A d \in Dirs :
              \/ /\ files'[d].run = files[d].run /\ files'[d].lifecycle = files[d].lifecycle
                 /\ files'[d].manifest = files[d].manifest
              \/ /\ run \in Runs /\ d = Current.out
                 /\ \/ /\ pc = "write-run" /\ files'[d].run \in {0, run}
                       /\ files'[d].manifest = files[d].manifest
                    \/ /\ pc = "write-lifecycle" /\ files'[d].run = files[d].run
                       /\ files'[d].manifest = files[d].manifest
                    \/ /\ pc = "write-manifest" /\ files'[d].run = files[d].run
                       /\ files'[d].lifecycle = files[d].lifecycle
                       /\ \/ files'[d].manifest = 0
                          \/ files'[d].manifest = run /\ pc' = "write-sums"
         /\ pc \in Writing /\ pc' # "idle" =>
              /\ files'[Current.out].run = files[Current.out].run \/ pc = "write-run"
              /\ files'[Current.out].lifecycle = files[Current.out].lifecycle
                 \/ pc = "write-lifecycle"
<1> USE DEF RunInv, RunTypeOK
<1>1. CASE files' = files
  BY <1>1
<1>2. CASE run \in Runs /\ pc \in Writing /\ Current.out \in Dirs
  <2> USE <1>2
  <2> DEFINE out == Current.out
             x   == files[out]
  <2>1. x \in Bundle
    OBVIOUS
  <2>2. ASSUME NEW v, files' = [files EXCEPT ![out].run = v]
        PROVE  /\ files'[out].run = v /\ files'[out].lifecycle = x.lifecycle
               /\ files'[out].manifest = x.manifest
               /\ \A d \in Dirs \ {out} : files'[d] = files[d]
    <3>1. files'[out] = [x EXCEPT !.run = v] /\ \A d \in Dirs \ {out} : files'[d] = files[d]
      BY <2>2
    <3> HIDE DEF x, out
    <3> QED  BY <2>1, <3>1 DEF Bundle
  <2>3. ASSUME NEW v, files' = [files EXCEPT ![out].lifecycle = v]
        PROVE  /\ files'[out].run = x.run /\ files'[out].manifest = x.manifest
               /\ \A d \in Dirs \ {out} : files'[d] = files[d]
    <3>1. files'[out] = [x EXCEPT !.lifecycle = v] /\ \A d \in Dirs \ {out} : files'[d] = files[d]
      BY <2>3
    <3> HIDE DEF x, out
    <3> QED  BY <2>1, <3>1 DEF Bundle
  <2>4. ASSUME NEW v, files' = [files EXCEPT ![out].manifest = v]
        PROVE  /\ files'[out].run = x.run /\ files'[out].lifecycle = x.lifecycle
               /\ files'[out].manifest = v
               /\ \A d \in Dirs \ {out} : files'[d] = files[d]
    <3>1. files'[out] = [x EXCEPT !.manifest = v] /\ \A d \in Dirs \ {out} : files'[d] = files[d]
      BY <2>4
    <3> HIDE DEF x, out
    <3> QED  BY <2>1, <3>1 DEF Bundle
  <2>5. ASSUME NEW v, files' = [files EXCEPT ![out].sums = v]
        PROVE  /\ files'[out].run = x.run /\ files'[out].lifecycle = x.lifecycle
               /\ files'[out].manifest = x.manifest
               /\ \A d \in Dirs \ {out} : files'[d] = files[d]
    <3>1. files'[out] = [x EXCEPT !.sums = v] /\ \A d \in Dirs \ {out} : files'[d] = files[d]
      BY <2>5
    <3> HIDE DEF x, out
    <3> QED  BY <2>1, <3>1 DEF Bundle
  <2>6. CASE pc = "write-run" /\ \E v \in {0, run} : files' = [files EXCEPT ![out].run = v]
    BY <2>2, <2>6
  <2>7. CASE pc = "write-lifecycle" /\ \E v \in {0, run} : files' = [files EXCEPT ![out].lifecycle = v]
    BY <2>3, <2>7
  <2>8. CASE /\ pc = "write-manifest"
             /\ \E v \in {0, run} : /\ v = run => pc' = "write-sums"
                                    /\ files' = [files EXCEPT ![out].manifest = v]
    BY <2>4, <2>8
  <2>9. CASE \E n \in 0..3 : files' = [files EXCEPT ![out].sums = FirstLines(n)]
    BY <2>5, <2>9
  <2> QED  BY <1>1, <2>6, <2>7, <2>8, <2>9, FilesStep
<1> QED  BY <1>1, <1>2, FilesStep

\* From the checksums an invocation goes nowhere but to its end.
LEMMA SumsLast ==
  ASSUME RunInv, Next, pc = "write-sums", pc' # "idle"
  PROVE  pc' = pc
<1>1. CASE WriteBundle
  BY <1>1 DEF WriteBundle, WriteFile, WriteChecksums, End
<1>2. ~Close
  BY DEF Close, Interrupt, SignalFailed, StopSeen, Escalate
<1>3. CASE Command /\ ~WriteBundle
  BY <1>2, <1>3 DEF Command, Begin, CheckDone, Probe, Tick, StartupTimeout, VerifyExecutable,
                    Abandon, ExecuteCase, Conclude
<1>4. CASE SubjectStep \/ WaiterRecords \/ WaiterCloses \/ Die \/ \E r \in Runs : Reap(r)
  BY <1>4 DEF SubjectStep, WaiterRecords, WaiterCloses, Die, Reap, End
<1> QED  BY <1>1, <1>3, <1>4 DEF Next

\* The files are written in their order.
LEMMA FilesWritten ==
  ASSUME RunInv, Next, pc' \in Writing \ {"write-run"}
  PROVE  /\ pc = "write-run" => files'[Current.out].run = run
         /\ pc' \in {"write-manifest", "write-sums"} /\ pc = "write-lifecycle" =>
              files'[Current.out].lifecycle = run
         /\ pc \in Writing
         /\ pc' \in {"write-manifest", "write-sums"} =>
              pc \in {"write-lifecycle", "write-manifest", "write-sums"}
<1> USE DEF RunInv, RunTypeOK
<1>1. CASE WriteBundle
  <2>1. run \in Runs /\ Current.out \in Dirs
    BY <1>1, PlanType
       DEF Ordered, Invocation, Current, WriteBundle, WriteFile, WriteChecksums
  <2> DEFINE out == Current.out
             x   == files[out]
  <2>2. x \in Bundle
    BY <2>1
  <2>3. CASE WriteFile("write-run", "run", "write-lifecycle")
    <3>1. pc = "write-run" /\ pc' = "write-lifecycle" /\ files'[out] = [x EXCEPT !.run = run]
      BY <2>1, <2>3 DEF WriteFile, Put, GoTo
    <3> HIDE DEF x, out
    <3>2. files'[out].run = run
      BY <2>2, <3>1 DEF Bundle
    <3> QED  BY <3>1, <3>2 DEF Writing, out
  <2>4. CASE WriteFile("write-lifecycle", "lifecycle", "write-manifest")
    <3>1. /\ pc = "write-lifecycle" /\ pc' = "write-manifest"
          /\ files'[out] = [x EXCEPT !.lifecycle = run]
      BY <2>1, <2>4 DEF WriteFile, Put, GoTo
    <3> HIDE DEF x, out
    <3>2. files'[out].lifecycle = run
      BY <2>2, <3>1 DEF Bundle
    <3> QED  BY <3>1, <3>2 DEF Writing, out
  <2>5. CASE WriteFile("write-manifest", "manifest", "write-sums")
    BY <2>5 DEF WriteFile, GoTo, Writing
  <2>6. CASE WriteChecksums
    BY <2>6 DEF WriteChecksums, End, Writing
  <2> QED  BY <1>1, <2>3, <2>4, <2>5, <2>6 DEF WriteBundle
<1>2. CASE ~WriteBundle
  <2>1. pc' = pc
    <3>1. ~Die
      BY DEF Die, End, Writing
    <3>2. ~(Begin \/ CheckDone \/ Probe \/ Tick \/ StartupTimeout \/ VerifyExecutable \/ Conclude)
      BY DEF Begin, CheckDone, Probe, Tick, StartupTimeout, VerifyExecutable, Abandon,
             Conclude, CallClose, GoTo, End, Writing
    <3>3. ASSUME NEW ok, Closed(ok)
          PROVE  FALSE
      BY <3>3 DEF Closed, End, GoTo, Writing
    <3>4. ~Close
      <4>1. ASSUME NEW how, FinishStop(how)
            PROVE  FALSE
        BY <3>3, <4>1 DEF FinishStop
      <4> QED  BY <3>3, <4>1
               DEF Close, Interrupt, SignalFailed, StopSeen, Escalate, GoTo, Writing
    <3>5. CASE \/ ExecuteCase \/ SubjectStep \/ WaiterRecords \/ WaiterCloses
               \/ \E r \in Runs : Reap(r)
      BY <3>5 DEF ExecuteCase, SubjectStep, WaiterRecords, WaiterCloses, Reap
    <3> QED  BY <1>2, <3>1, <3>2, <3>4, <3>5 DEF Next, Command
  <2>2. pc # "write-run" /\ pc \in Writing
    BY <2>1
  <2>3. pc = "write-lifecycle" => pc' \notin {"write-manifest", "write-sums"}
    BY <2>1
  <2> QED  BY <2>1, <2>2, <2>3 DEF Writing
<1> QED  BY <1>1, <1>2

LEMMA BundlesStep ==
  ASSUME RunInv, Next
  PROVE  Bundles'
<1> USE DEF RunInv, RunTypeOK
<1>0. Invocations \in Nat /\ Runs = 1..Invocations
  BY SubjectAssumption DEF Runs
<1>1. plan' = plan /\ run' \in {run, run + 1} /\ (pc' # "idle" => run' = run /\ run \in Runs)
  BY StepKinds DEF Within, Begins, Ends, Ordered
<1>2. ASSUME NEW r \in Runs, r < run \/ (r = run /\ pc \in Writing),
             record[r].verdict # "none", outcome[r] \in {"stopped", "killed"}
      PROVE  record'[r].verdict # "none" /\ outcome'[r] \in {"stopped", "killed"}
  <2>1. r = run => ~Conclude
    BY <1>0, <1>2 DEF Conclude, Writing
  <2> QED  BY <1>0, <1>2, <2>1, RecordStep, OutcomeStep DEF RecordKept
<1>3. ASSUME NEW d \in Dirs
      PROVE  LET f == files'[d] IN
               /\ f.manifest < run' \/ (f.manifest = run' /\ pc' = "write-sums")
               /\ f.manifest # 0 /\ f.manifest = f.run =>
                    /\ f.lifecycle = f.run
                    /\ record'[f.run].verdict # "none"
                    /\ outcome'[f.run] \in {"stopped", "killed"}
  <2> DEFINE f == files[d]
             g == files'[d]
  <2>1. f \in Bundle /\ f.manifest \in Runs \cup {0}
    BY DEF Bundle
  <2>2. /\ f.manifest < run \/ (f.manifest = run /\ pc = "write-sums")
        /\ f.manifest # 0 /\ f.manifest = f.run =>
             /\ f.lifecycle = f.run
             /\ record[f.run].verdict # "none" /\ outcome[f.run] \in {"stopped", "killed"}
    BY DEF Bundles
  <2> HIDE DEF f, g
  <2>3. CASE g.run = f.run /\ g.lifecycle = f.lifecycle /\ g.manifest = f.manifest
    <3>1. f.manifest = run /\ pc = "write-sums" =>
            f.manifest < run' \/ (f.manifest = run' /\ pc' = "write-sums")
      BY <1>0, <1>1, <2>1, SumsLast, StepKinds DEF Within, Begins, Ends
    <3>2. f.manifest < run' \/ (f.manifest = run' /\ pc' = "write-sums")
      BY <1>0, <1>1, <2>1, <2>2, <3>1
    <3>3. ASSUME f.manifest # 0, f.manifest = f.run
          PROVE  record'[f.run].verdict # "none" /\ outcome'[f.run] \in {"stopped", "killed"}
      BY <1>2, <2>1, <2>2, <3>3 DEF Writing
    <3> QED  BY <2>2, <2>3, <3>2, <3>3 DEF g
  <2>4. CASE pc = "write-run" /\ g.run \in {0, run} /\ g.manifest = f.manifest
    BY <1>0, <1>1, <2>1, <2>2, <2>4 DEF g
  <2>5. CASE /\ pc = "write-lifecycle" /\ d = Current.out /\ g.run = f.run
             /\ g.manifest = f.manifest
    <3>1. f.run = run
      BY <2>5 DEF Bundles, Writing, f
    <3> QED  BY <1>0, <1>1, <2>1, <2>2, <2>5, <3>1 DEF g
  <2>6. CASE /\ pc = "write-manifest" /\ d = Current.out /\ run \in Runs
             /\ g.run = f.run /\ g.lifecycle = f.lifecycle
             /\ g.manifest = 0 \/ (g.manifest = run /\ pc' = "write-sums")
    <3>1. f.run = run /\ f.lifecycle = run
      BY <2>6 DEF Bundles, Writing, f
    <3>2. record[run].verdict # "none" /\ outcome[run] \in {"stopped", "killed"}
      BY <2>6 DEF Recorded, Writing
    <3>3. record'[run].verdict # "none" /\ outcome'[run] \in {"stopped", "killed"}
      BY <1>2, <2>6, <3>2 DEF Writing
    <3>4. g.manifest < run' \/ (g.manifest = run' /\ pc' = "write-sums")
      BY <1>0, <1>1, <2>6
    <3> QED  BY <2>6, <3>1, <3>3, <3>4 DEF g
  <2> QED  BY <2>3, <2>4, <2>5, <2>6, FilesSeen DEF f, g
<1>4. pc' # "idle" => (Current.out)' = Current.out
  BY <1>1 DEF Current
<1>5. pc' \in Writing \ {"write-run"} => files'[(Current.out)'].run = run'
  <2> SUFFICES ASSUME pc' \in Writing \ {"write-run"}
               PROVE  files'[(Current.out)'].run = run'
    OBVIOUS
  <2>1. pc' # "idle"
    BY DEF Writing
  <2>2. CASE pc = "write-run"
    BY <1>1, <1>4, <2>1, <2>2, FilesWritten
  <2>3. CASE pc \in Writing \ {"write-run"}
    BY <1>1, <1>4, <2>1, <2>3, FilesSeen DEF Bundles
  <2> QED  BY <2>1, <2>2, <2>3, FilesWritten
<1>6. pc' \in {"write-manifest", "write-sums"} => files'[(Current.out)'].lifecycle = run'
  <2> SUFFICES ASSUME pc' \in {"write-manifest", "write-sums"}
               PROVE  files'[(Current.out)'].lifecycle = run'
    OBVIOUS
  <2>1. pc' # "idle" /\ pc' \in Writing \ {"write-run"}
    BY DEF Writing
  <2>2. CASE pc = "write-lifecycle"
    BY <1>1, <1>4, <2>1, <2>2, FilesWritten
  <2>3. CASE pc \in {"write-manifest", "write-sums"}
    <3>1. pc \in Writing /\ pc # "write-lifecycle"
      BY <2>3 DEF Writing
    <3> QED  BY <1>1, <1>4, <2>1, <2>3, <3>1, FilesSeen DEF Bundles
  <2> QED  BY <2>1, <2>2, <2>3, FilesWritten
<1> QED  BY <1>3, <1>5, <1>6 DEF Bundles

-----------------------------------------------------------------------------
(* Types.                                                                  *)

\* Where the command, the waiter and the loop over the cases may be.
LEMMA CommandTypes ==
  ASSUME RunInv, Next
  PROVE  /\ pc' \in Starting \cup Closing \cup Writing \cup {"idle"}
         /\ waiter' \in {"waiting", "recorded", "closed"}
         /\ stopAsked' \in BOOLEAN /\ why' \in {"none", "abandon", "stop"}
<1> USE DEF RunInv, RunTypeOK, Starting, Closing, Writing
<1>1. ASSUME NEW ok, Closed(ok)
      PROVE  pc' \in {"write-run", "idle"}
  BY <1>1 DEF Closed, End, GoTo
<1>2. CASE Close
  <2>1. UNCHANGED <<waiter, stopAsked, why>>
    BY <1>2 DEF Close
  <2>2. pc' \in {"write-run", "idle", "signalled", "missed", "killed", "kill-missed"}
    BY <1>1, <1>2 DEF Close, Interrupt, SignalFailed, StopSeen, Escalate, FinishStop, GoTo
  <2> QED  BY <2>1, <2>2
<1>3. CASE Begin \/ CheckDone \/ Probe \/ Tick \/ ExecuteCase
  BY <1>3 DEF Begin, CheckDone, Probe, Tick, ExecuteCase, GoTo, End, process
<1>4. CASE StartupTimeout \/ VerifyExecutable \/ Conclude
  BY <1>4 DEF StartupTimeout, VerifyExecutable, Abandon, Conclude, CallClose, GoTo, process
<1>5. CASE WriteBundle
  BY <1>5 DEF WriteBundle, WriteFile, WriteChecksums, GoTo, End, process
<1>6. CASE SubjectStep \/ WaiterRecords \/ WaiterCloses \/ Die \/ \E r \in Runs : Reap(r)
  BY <1>6 DEF SubjectStep, WaiterRecords, WaiterCloses, Die, Reap, End, process
<1> QED  BY <1>2, <1>3, <1>4, <1>5, <1>6 DEF Next, Command

\* The loop over the cases.
LEMMA LocalTypes ==
  ASSUME RunInv, Next
  PROVE  /\ rule' \in 1..(Cardinality(Rules) + 1)
         /\ reply' \in Reply
         /\ results' \in [Rules -> Statuses \cup {"none"}]
         /\ by' \in [Rules -> Runs \cup {0}]
<1> USE DEF RunInv, RunTypeOK
<1>1. CASE UNCHANGED local
  BY <1>1 DEF local
<1>2. CASE Fresh
  <2>1. 1 \in 1..(Cardinality(Rules) + 1)
    BY RuleNumbers
  <2>2. NoReply \in Reply
    BY DEF NoReply, Reply
  <2> QED  BY <1>2, <2>1, <2>2 DEF Fresh
<1>3. CASE ExecuteCase
  <2>1. CASE UNCHANGED <<rule, results, by>>
    BY <1>3, <2>1, ExecuteCaseStep
  <2>2. CASE \E status \in Statuses, who \in Runs \cup {0} :
               /\ rule \in Rules /\ rule' = rule + 1
               /\ results' = [results EXCEPT ![rule] = status]
               /\ by' = [by EXCEPT ![rule] = who]
    <3>1. rule + 1 \in 1..(Cardinality(Rules) + 1)
      BY <2>2, RuleNumbers
    <3> QED  BY <1>3, <2>2, <3>1, ExecuteCaseStep
  <2> QED  BY <1>3, <2>1, <2>2, ExecuteCaseStep
<1> QED  BY <1>1, <1>2, <1>3, LocalStep

\* The runs and their processes.
LEMMA RunTypes ==
  ASSUME RunInv, Next
  PROVE  /\ plan' \in Plans
         /\ run' \in 1..(Invocations + 1)
         /\ leader' \in [Runs -> {"none", "alive", "exited", "reaped"}]
         /\ helper' \in [Runs -> HelperKinds \cup {"none", "gone"}]
         /\ address' \in Runs \cup {0}
         /\ exit' \in [Runs -> Codes \cup {3}]
<1> USE DEF RunInv, RunTypeOK
<1>1. CASE Within
  BY <1>1 DEF Within, SubjectMoves
<1>2. CASE Begins
  BY <1>2 DEF Begins
<1>3. CASE Ends
  <2>1. run + 1 \in 1..(Invocations + 1)
    BY <1>3, SubjectAssumption DEF Ends, Runs
  <2> QED  BY <1>3, <2>1 DEF Ends, subject
<1> QED  BY <1>1, <1>2, <1>3, StepKinds

-----------------------------------------------------------------------------
(* The theorems.                                                           *)

LEMMA NextRunInv ==
  ASSUME RunInv, [Next]_vars
  PROVE  RunInv'
<1>1. CASE Next
  <2>1. RunTypeOK'
    BY <1>1, CommandTypes, LocalTypes, RunTypes, RecordStep, OutcomeStep, FilesType DEF RunTypeOK
  <2>2. Ended' /\ Ordered'
    BY <1>1, StepKinds, EndedStep, OrderedStep, RecordStep
  <2>3. Waited' /\ Recorded' /\ Answered' /\ Bundles' /\ VerdictIsObserved'
    BY <1>1, WaitedStep, RecordedStep, AnsweredStep, BundlesStep, ObservedStep
  <2> QED  BY <2>1, <2>2, <2>3 DEF RunInv
<1>2. CASE UNCHANGED vars
  <2> USE <1>2 DEF vars, subject, process, local, RunInv
  <2>1. RunTypeOK' /\ Ordered' /\ Waited' /\ Ended'
    BY DEF RunTypeOK, Ordered, Waited, Ended
  <2>2. Recorded' /\ Answered' /\ Bundles' /\ VerdictIsObserved'
    BY DEF Recorded, Answered, Kept, Broken, Bundles, Current, VerdictIsObserved
  <2> QED  BY <2>1, <2>2
<1> QED  BY <1>1, <1>2

\* Type correctness and the ties between the command, its waiter, its process,
\* its record, its answers and its files hold throughout, for any oracle, any
\* plan of invocations, any helpers and any number of crashes.
THEOREM RunInvariant == Spec => []RunInv
<1>1. Init => RunInv
  BY InitRunInv
<1>2. RunInv /\ [Next]_vars => RunInv'
  BY NextRunInv
<1> QED  BY <1>1, <1>2, PTL DEF Spec

\* An invocation that came to its own end has reaped its process, and nothing
\* that shares its standard error runs on after a run that was recorded.
THEOREM RunNothingOutlives == Spec => []NothingOutlives
<1>1. RunInv => NothingOutlives
  BY DEF RunInv, Ended, NothingOutlives
<1> QED  BY <1>1, RunInvariant, PTL

\* A pass was answered on every rule by a subject that keeps it, a kill on an
\* expected rule by a subject that breaks it.
THEOREM RunVerdictIsObserved == Spec => []VerdictIsObserved
<1>1. RunInv => VerdictIsObserved
  BY DEF RunInv
<1> QED  BY <1>1, RunInvariant, PTL

\* A bundle that verifies is the work of one invocation, which stopped its
\* subject and got to the end of its record, whatever died in between.
THEOREM RunVerifiedIsOneRun == Spec => []VerifiedIsOneRun
<1>1. RunInv => VerifiedIsOneRun
  BY DEF RunInv, Bundles, Verified, VerifiedIsOneRun
<1> QED  BY <1>1, RunInvariant, PTL

-----------------------------------------------------------------------------
(* Campaigns: the invariant.                                               *)

Count == Cardinality(Mutations)

ExitCodes == {-1, 0, 1, 2}

Directory == [exists : BOOLEAN, maker : 0..Campaigns, whole : BOOLEAN, seen : Observed,
              attached : {"no", "directory", "manifest", "all"}, remade : 0..Remakes]

Entry == [status : {"error", "failed", "passed"}, exit : ExitCodes, outcome : Outcomes \cup {""},
          reason : BOOLEAN, evidence : {<<>>} \cup {Hash(b) : b \in Directory},
          diagnosis : {<<>>} \cup [ExpectedRuleIDs -> Statuses \cup {"unobserved"}]]

\* Type correctness of a campaign: what is told of the entries below included.
CampaignTypeOK ==
  /\ campaign \in 0..Campaigns
  /\ at \in {"idle", "mutation", "child", "attach", "read"}
  /\ m \in 1..(Count + 1)
  /\ child \in ExitCodes
  /\ bundle \in [Mutations -> Directory]
  /\ entries \in Seq(Entry)
  /\ remakes \in 0..Remakes

\* An entry that is no error names evidence of some executor, with what it saw.
EntryTold(e) ==
  /\ e.status = "error" => e.reason /\ e.evidence = <<>> /\ e.outcome = ""
  /\ e.status # "error" =>
       \E b \in Directory :
         /\ b.maker # Foreign
         /\ e.evidence = Hash(b) /\ e.outcome = OutcomeOf(b)
         /\ e.diagnosis = Diagnosis(ExpectedRuleIDs, b.seen)
         /\ e.status = "passed" <=> OutcomeOf(b) = "killed"

\* The directory of a mutation is what a pass of this executor says.
Backed(n) ==
  /\ bundle[n].maker = campaign /\ VerifiedEvidence(bundle[n])
  /\ bundle[n].attached = "all" /\ OutcomeOf(bundle[n]) = "killed"

\* How far the executor is with the mutation it is at: a directory that is there
\* is its own child's, and provenance is attached only to one that is there.
AtMutation ==
  /\ \A n \in Mutations : ~bundle[n].exists => bundle[n].attached = "no" /\ ~bundle[n].whole
  /\ at # "idle" => campaign # Foreign /\ Len(entries) = m - 1
  /\ at \in {"child", "attach", "read"} => m \in Mutations
  /\ at = "child" => ~bundle[m].exists
  /\ at \in {"attach", "read"} /\ bundle[m].exists => bundle[m].maker = campaign
  /\ at = "read" => bundle[m].attached = "all"

\* Entries are told, of the executor that works as of the one that left a result.
EntriesTold ==
  /\ \A i \in DOMAIN entries : EntryTold(entries[i])
  /\ at # "idle" => \A i \in DOMAIN entries : entries[i].status = "passed" => Backed(i)
  /\ result # NoResult =>
       /\ result.entries \in Seq(Entry) /\ Len(result.entries) = Count
       /\ \A i \in DOMAIN result.entries : EntryTold(result.entries[i])

CampaignInv == CampaignTypeOK /\ AtMutation /\ EntriesTold

-----------------------------------------------------------------------------
(* Campaigns: evidence and entries.                                        *)

LEMMA Planned ==
  /\ Count \in Nat /\ Count # 0
  /\ \A n : n \in Mutations <=> n \in 1..Count
<1>1. IsFiniteSet(Mutations) /\ Mutations = 1..Count /\ Mutations # {}
  BY CampaignAssumption DEF Count
<1>2. Count \in Nat
  BY <1>1, FS_CardinalityType DEF Count
<1>3. Count # 0
  BY <1>1, <1>2
<1> QED  BY <1>1, <1>2, <1>3

\* The hash tells who made a directory and what was seen.
LEMMA HashTells ==
  ASSUME NEW b \in Directory
  PROVE  /\ Hash(b) # <<>>
         /\ \A d \in Directory : Hash(b) = Hash(d) => b.maker = d.maker /\ b.seen = d.seen
BY DEF Hash

LEMMA OutcomeType ==
  ASSUME NEW b
  PROVE  OutcomeOf(b) \in Outcomes
BY DEF OutcomeOf, Classify, Outcomes

\* What was observed is a status or nothing.
LEMMA ObservedStatus ==
  ASSUME NEW b \in Directory, NEW r
  PROVE  ExpectedStatus(b.seen, r) \in Statuses \cup {"unobserved"}
<1>1. b.seen \in [DOMAIN b.seen -> Statuses]
  BY CampaignAssumption DEF Directory
<1>2. CASE r \in DOMAIN b.seen
  BY <1>1, <1>2 DEF ExpectedStatus
<1>3. CASE r \notin DOMAIN b.seen
  BY <1>3 DEF ExpectedStatus
<1> QED  BY <1>2, <1>3

\* The diagnosis of a directory agrees with its outcome.
LEMMA DiagnosisTold ==
  ASSUME NEW b \in Directory
  PROVE  /\ Diagnosis(ExpectedRuleIDs, b.seen)
              \in [ExpectedRuleIDs -> Statuses \cup {"unobserved"}]
         /\ DiagnosisAgrees(OutcomeOf(b), Diagnosis(ExpectedRuleIDs, b.seen))
<1> DEFINE status(r) == ExpectedStatus(b.seen, r)
           seen      == {status(r) : r \in ExpectedRuleIDs}
           diagnosis == Diagnosis(ExpectedRuleIDs, b.seen)
<1>1. \A r : status(r) \in Statuses \cup {"unobserved"}
  BY ObservedStatus
<1>2. diagnosis = [r \in ExpectedRuleIDs |-> status(r)]
  BY DEF Diagnosis
<1>3. OutcomeOf(b) = IF "fail" \in seen THEN "killed"
                     ELSE IF \/ ExpectedRuleIDs = {}
                             \/ seen \cap {"unobserved", "inconclusive", "error"} # {}
                     THEN "inconclusive" ELSE "survived"
  BY DEF OutcomeOf, Classify
<1> HIDE DEF status, diagnosis
<1>4. DOMAIN diagnosis = ExpectedRuleIDs /\ {diagnosis[r] : r \in DOMAIN diagnosis} = seen
  BY <1>2
<1>5. seen \subseteq Statuses \cup {"unobserved"} /\ seen # {} /\ ExpectedRuleIDs # {}
  BY <1>1, CampaignAssumption
<1>6. diagnosis \in [ExpectedRuleIDs -> Statuses \cup {"unobserved"}]
  BY <1>1, <1>2
<1> HIDE DEF seen
<1>7. DiagnosisAgrees(OutcomeOf(b), diagnosis)
  <2>1. OutcomeOf(b) = "killed" => "fail" \in seen
    BY <1>3
  <2>2. OutcomeOf(b) = "survived" => seen \subseteq {"pass"}
    BY <1>3, <1>5 DEF Statuses
  <2>3. OutcomeOf(b) = "inconclusive" => "fail" \notin seen /\ seen \ {"pass", "fail"} # {}
    BY <1>3, <1>5
  <2> QED  BY <1>4, <1>5, <2>1, <2>2, <2>3 DEF DiagnosisAgrees
<1> QED  BY <1>6, <1>7 DEF diagnosis

\* An entry that is told is valid, unless its child was killed by a signal after
\* it had written its evidence.
LEMMA ToldIsValid ==
  ASSUME NEW e \in Entry, EntryTold(e), e.exit # -1 \/ e.evidence = <<>>
  PROVE  ValidEntry(e)
<1>1. CASE e.status = "error"
  BY <1>1 DEF EntryTold, ValidEntry, Outcomes
<1>2. CASE e.status # "error"
  <2>1. PICK b \in Directory :
          /\ e.evidence = Hash(b) /\ e.outcome = OutcomeOf(b)
          /\ e.diagnosis = Diagnosis(ExpectedRuleIDs, b.seen)
          /\ e.status = "passed" <=> OutcomeOf(b) = "killed"
    BY <1>2 DEF EntryTold
  <2>2. e.evidence # <<>>
    BY <2>1, HashTells
  <2>3. e.exit \in ExitCodes /\ e.exit # -1
    BY <2>2 DEF Entry
  <2>4. e.exit >= 0
    BY <2>3 DEF ExitCodes
  <2>5. e.outcome # "" /\ DiagnosisAgrees(e.outcome, e.diagnosis)
    BY <2>1, OutcomeType, DiagnosisTold DEF Outcomes
  <2> QED  BY <1>2, <2>1, <2>2, <2>4, <2>5 DEF ValidEntry
<1> QED  BY <1>1, <1>2

\* What the executor keeps is an entry, and told.
LEMMA FailureTold ==
  ASSUME NEW c \in ExitCodes
  PROVE  LET e == [NoEntry EXCEPT !.exit = c, !.reason = TRUE]
         IN  e \in Entry /\ EntryTold(e) /\ e.status = "error"
BY DEF NoEntry, Entry, EntryTold, ExitCodes

LEMMA CompletedTold ==
  ASSUME child \in ExitCodes, NEW b \in Directory, b.maker # Foreign
  PROVE  LET e == Completed(b)
         IN  /\ e \in Entry /\ EntryTold(e)
             /\ e.status = "passed" => OutcomeOf(b) = "killed"
<1>1. OutcomeOf(b) \in Outcomes
  BY OutcomeType
<1>2. Diagnosis(ExpectedRuleIDs, b.seen) \in [ExpectedRuleIDs -> Statuses \cup {"unobserved"}]
  BY DiagnosisTold
<1>3. Completed(b) \in Entry
  BY <1>1, <1>2 DEF Completed, Entry
<1>4. EntryTold(Completed(b))
  BY <1>1, <1>2 DEF Completed, EntryTold
<1> QED  BY <1>3, <1>4 DEF Completed

-----------------------------------------------------------------------------
(* Campaigns: the steps.                                                   *)

LEMMA AbsentType == Absent \in Directory
<1>1. (CHOOSE o \in Observed : TRUE) \in Observed
  BY CampaignAssumption
<1>2. 0 \in 0..Campaigns /\ 0 \in 0..Remakes
  BY CampaignAssumption
<1> QED  BY <1>1, <1>2 DEF Absent, Directory, Foreign

LEMMA InitCampaignInv == CampaignInit => CampaignInv
<1> SUFFICES ASSUME CampaignInit PROVE CampaignInv
  OBVIOUS
<1>1. 1 \in 1..(Count + 1) /\ 0 \in 0..Campaigns /\ 0 \in 0..Remakes
  BY Planned, CampaignAssumption
<1>2. CampaignTypeOK
  BY <1>1, AbsentType DEF CampaignInit, CampaignTypeOK, ExitCodes
<1>3. Absent.attached = "no" /\ ~Absent.whole /\ ~Absent.exists
  BY DEF Absent
<1>4. AtMutation /\ EntriesTold
  BY <1>3 DEF CampaignInit, AtMutation, EntriesTold
<1> QED  BY <1>2, <1>4 DEF CampaignInv

\* An entry is kept, and the next mutation begins.
LEMMA KeepStep ==
  ASSUME CampaignInv, at # "idle", m \in Mutations, NEW e \in Entry, EntryTold(e), Keep(e),
         e.status = "passed" => Backed(m), UNCHANGED <<campaign, child, bundle, result, remakes>>
  PROVE  CampaignInv'
<1> USE DEF CampaignInv, CampaignTypeOK
<1>1. m \in 1..Count /\ Count \in Nat
  BY Planned
<1>2. /\ entries' \in Seq(Entry) /\ Len(entries') = Len(entries) + 1
      /\ \A i \in 1..Len(entries) : entries'[i] = entries[i]
      /\ entries'[Len(entries) + 1] = e
    BY AppendProperties DEF Keep
<1>3. Len(entries) = m - 1
  BY DEF AtMutation
<1>4. CampaignTypeOK'
  BY <1>1, <1>2 DEF Keep
<1>5. AtMutation'
  BY <1>1, <1>2, <1>3 DEF Keep, AtMutation
<1>6. \A i \in DOMAIN entries' : \/ i = m /\ entries'[i] = e
                                 \/ i \in DOMAIN entries /\ entries'[i] = entries[i]
  BY <1>1, <1>2, <1>3
<1>7. \A n : Backed(n)' <=> Backed(n)
  BY DEF Backed
<1>8. EntriesTold'
  BY <1>6, <1>7 DEF EntriesTold
<1> QED  BY <1>4, <1>5, <1>8

\* Nothing is kept, the executor goes on with the mutation it is at, and nobody
\* touches the directories of the mutations before.
LEMMA SameMutation ==
  ASSUME CampaignInv, at # "idle", m \in Mutations, NEW x \in Directory,
         bundle' = [bundle EXCEPT ![m] = x],
         at' \in {"child", "attach", "read"}, child' \in ExitCodes,
         ~x.exists => x.attached = "no" /\ ~x.whole,
         at' = "child" => ~x.exists,
         at' \in {"attach", "read"} /\ x.exists => x.maker = campaign,
         at' = "read" => x.attached = "all",
         UNCHANGED <<campaign, m, entries, result, remakes>>
  PROVE  CampaignInv'
<1> USE DEF CampaignInv, CampaignTypeOK
<1>1. bundle'[m] = x /\ \A n \in Mutations \ {m} : bundle'[n] = bundle[n]
  OBVIOUS
<1>2. CampaignTypeOK'
  OBVIOUS
<1>3. AtMutation'
  BY <1>1 DEF AtMutation
<1>4. \A i \in DOMAIN entries : i \in Mutations \ {m}
  BY Planned DEF AtMutation
<1>5. \A i \in DOMAIN entries : Backed(i)' <=> Backed(i)
  BY <1>1, <1>4 DEF Backed
<1>6. EntriesTold'
  BY <1>5 DEF EntriesTold
<1> QED  BY <1>2, <1>3, <1>6

\* The executor stops, or has not started.
LEMMA NoExecutor ==
  ASSUME CampaignInv, at' = "idle", bundle' \in [Mutations -> Directory],
         \A n \in Mutations : ~bundle'[n].exists => bundle'[n].attached = "no" /\ ~bundle'[n].whole,
         remakes' \in 0..Remakes,
         \/ result' = result
         \/ /\ result'.entries = entries /\ m \notin Mutations /\ at # "idle",
         UNCHANGED <<campaign, m, child, entries>>
  PROVE  CampaignInv'
<1> USE DEF CampaignInv, CampaignTypeOK
<1>1. CampaignTypeOK' /\ AtMutation'
  BY DEF AtMutation
<1>2. CASE result' = result
  BY <1>1, <1>2 DEF EntriesTold
<1>3. CASE result'.entries = entries /\ m \notin Mutations /\ at # "idle"
  <2>1. Len(entries) = Count
    BY <1>3, Planned DEF AtMutation
  <2> QED  BY <1>1, <1>3, <2>1 DEF EntriesTold
<1> QED  BY <1>2, <1>3

LEMMA ChildStep ==
  ASSUME CampaignInv, ChildEnds
  PROVE  CampaignInv'
<1> USE DEF CampaignInv, CampaignTypeOK
<1>1. m \in Mutations /\ ~bundle[m].exists /\ campaign # Foreign
  BY DEF ChildEnds, AtMutation
<1>2. bundle[m].attached = "no" /\ ~bundle[m].whole
  BY <1>1 DEF AtMutation
<1> DEFINE was == bundle[m]
<1>3. was \in Directory /\ ~was.exists /\ was.attached = "no" /\ ~was.whole
  BY <1>1, <1>2
<1>4. ASSUME NEW x \in Directory, bundle' = [bundle EXCEPT ![m] = x], child' \in ExitCodes,
             x.attached = "no", ~x.exists => ~x.whole, x.exists => x.maker = campaign
      PROVE  CampaignInv'
  BY <1>1, <1>4, SameMutation DEF ChildEnds
<1>5. CASE UNCHANGED bundle /\ child' \in {1, 2, -1}
  <2>1. bundle' = [bundle EXCEPT ![m] = was]
    BY <1>1, <1>5
  <2> QED  BY <1>3, <1>4, <1>5, <2>1 DEF ExitCodes
<1>6. CASE /\ bundle' = [bundle EXCEPT ![m].exists = TRUE, ![m].maker = campaign]
           /\ child' \in {1, -1}
  <2>1. bundle' = [bundle EXCEPT ![m] = [[was EXCEPT !.exists = TRUE] EXCEPT !.maker = campaign]]
    BY <1>1, <1>6
  <2> HIDE DEF was
  <2> DEFINE there == [was EXCEPT !.exists = TRUE]
             x     == [there EXCEPT !.maker = campaign]
  <2>2. there \in Directory /\ there.attached = "no" /\ there.exists
    BY <1>3 DEF Directory
  <2> HIDE DEF there
  <2>3. x \in Directory /\ x.attached = "no" /\ x.exists /\ x.maker = campaign
    BY <2>2 DEF Directory
  <2>4. bundle' = [bundle EXCEPT ![m] = x]
    BY <2>1 DEF there
  <2> HIDE DEF x
  <2> QED  BY <1>4, <1>6, <2>3, <2>4 DEF ExitCodes
<1>7. CASE \E seen \in Observed :
             /\ bundle' = [bundle EXCEPT ![m] = [Absent EXCEPT !.exists = TRUE, !.whole = TRUE,
                                                     !.maker = campaign, !.seen = seen]]
             /\ child' \in {ExitCode(Classify(ExpectedRuleIDs, seen), VerdictFor(seen)), -1}
  <2>1. PICK seen \in Observed :
             /\ bundle' = [bundle EXCEPT ![m] = [Absent EXCEPT !.exists = TRUE, !.whole = TRUE,
                                                     !.maker = campaign, !.seen = seen]]
             /\ child' \in {ExitCode(Classify(ExpectedRuleIDs, seen), VerdictFor(seen)), -1}
    BY <1>7
  <2> DEFINE x == [Absent EXCEPT !.exists = TRUE, !.whole = TRUE, !.maker = campaign, !.seen = seen]
  <2>2. x \in Directory /\ x.attached = "no" /\ x.exists /\ x.maker = campaign
    BY AbsentType DEF Absent, Directory
  <2>3. child' \in ExitCodes
    BY <2>1 DEF ExitCode, ExitCodes
  <2>4. bundle' = [bundle EXCEPT ![m] = x]
    BY <2>1
  <2> HIDE DEF x
  <2> QED  BY <1>4, <2>2, <2>3, <2>4
<1> QED  BY <1>5, <1>6, <1>7 DEF ChildEnds

LEMMA AttachStepInv ==
  ASSUME CampaignInv, Attach
  PROVE  CampaignInv'
<1> USE DEF CampaignInv, CampaignTypeOK
<1>1. m \in Mutations /\ at = "attach"
  BY DEF Attach, AtMutation
<1>2. PICK from \in {"no", "directory", "manifest"}, to \in {"directory", "manifest", "all"} :
        /\ AttachStep(from, to)
        /\ from = "no" => Attachable(bundle[m])
  BY DEF Attach
<1> DEFINE was == bundle[m]
           x   == [was EXCEPT !.attached = to]
<1>3. was.exists /\ was.maker = campaign /\ was \in Directory
  <2>1. was.exists
    BY <1>1, <1>2 DEF AttachStep, Attachable, VerifiedEvidence, AtMutation
  <2> QED  BY <1>1, <2>1 DEF AtMutation
<1>4. bundle' = [bundle EXCEPT ![m] = x]
  BY <1>1, <1>2 DEF AttachStep
<1>5. at' \in {"attach", "read"} /\ (at' = "read" => to = "all")
  BY <1>2 DEF AttachStep
<1>6. UNCHANGED <<campaign, m, child, entries, result, remakes>>
  BY <1>2 DEF AttachStep
<1> HIDE DEF was
<1>7. x \in Directory /\ x.exists /\ x.maker = campaign /\ x.attached = to
  BY <1>3 DEF Directory
<1> HIDE DEF x
<1> QED  BY <1>1, <1>4, <1>5, <1>6, <1>7, SameMutation

LEMMA ExecutorStep ==
  ASSUME CampaignInv, Executor
  PROVE  CampaignInv'
<1> USE DEF CampaignInv, CampaignTypeOK
<1>1. CASE Start
  <2>1. 1 \in 1..(Count + 1) /\ campaign + 1 \in 1..Campaigns
    BY <1>1, Planned, CampaignAssumption DEF Start
  <2>2. CampaignTypeOK'
    BY <1>1, <2>1 DEF Start
  <2>3. AtMutation' /\ EntriesTold'
    BY <1>1, <2>1 DEF Start, AtMutation, EntriesTold, Foreign
  <2> QED  BY <2>2, <2>3
<1>2. CASE Refuse
  <2> DEFINE e == [NoEntry EXCEPT !.exit = -1, !.reason = TRUE]
  <2>1. e \in Entry /\ EntryTold(e) /\ e.status = "error"
    BY FailureTold DEF ExitCodes
  <2>2. Keep(e)
    BY <1>2 DEF Refuse
  <2> HIDE DEF e
  <2> QED  BY <1>2, <2>1, <2>2, KeepStep DEF Refuse
<1>3. CASE Launch
  <2> DEFINE x == bundle[m]
  <2>1. m \in Mutations /\ at = "mutation" /\ at' = "child" /\ ~x.exists
    BY <1>3 DEF Launch
  <2>2. x \in Directory /\ bundle' = [bundle EXCEPT ![m] = x]
    BY <1>3, <2>1 DEF Launch
  <2>3. x.attached = "no" /\ ~x.whole
    BY <2>1 DEF AtMutation
  <2> HIDE DEF x
  <2> QED  BY <1>3, <2>1, <2>2, <2>3, SameMutation DEF Launch
<1>4. CASE ChildEnds \/ Attach
  BY <1>4, ChildStep, AttachStepInv
<1>5. CASE AttachFails
  <2> DEFINE e == [NoEntry EXCEPT !.exit = child, !.reason = TRUE]
  <2>1. e \in Entry /\ EntryTold(e) /\ e.status = "error"
    BY FailureTold
  <2>2. Keep(e) /\ m \in Mutations /\ at = "attach"
    BY <1>5 DEF AttachFails, AtMutation
  <2> HIDE DEF e
  <2> QED  BY <1>5, <2>1, <2>2, KeepStep DEF AttachFails
<1>6. CASE ReadEvidence
  <2>1. m \in Mutations /\ at = "read"
    BY <1>6 DEF ReadEvidence, AtMutation
  <2>2. bundle[m] \in Directory
    BY <2>1
  <2>3. CASE VerifiedEvidence(bundle[m])
    <3> DEFINE e == Completed(bundle[m])
    <3>1. bundle[m].maker = campaign /\ campaign # Foreign /\ bundle[m].attached = "all"
      BY <2>1, <2>3 DEF AtMutation, VerifiedEvidence
    <3>2. e \in Entry /\ EntryTold(e) /\ (e.status = "passed" => OutcomeOf(bundle[m]) = "killed")
      BY <2>2, <3>1, CompletedTold
    <3>3. Keep(e)
      BY <1>6, <2>3 DEF ReadEvidence
    <3> HIDE DEF e
    <3>4. e.status = "passed" => Backed(m)
      BY <2>3, <3>1, <3>2 DEF Backed
    <3> QED  BY <1>6, <2>1, <3>2, <3>3, <3>4, KeepStep DEF ReadEvidence
  <2>4. CASE ~VerifiedEvidence(bundle[m])
    <3> DEFINE e == [NoEntry EXCEPT !.exit = child, !.reason = TRUE]
    <3>1. e \in Entry /\ EntryTold(e) /\ e.status = "error"
      BY FailureTold
    <3>2. Keep(e)
      BY <1>6, <2>4 DEF ReadEvidence
    <3> HIDE DEF e
    <3> QED  BY <1>6, <2>1, <3>1, <3>2, KeepStep DEF ReadEvidence
  <2> QED  BY <2>3, <2>4
<1>7. CASE ConcludeCampaign
  <2>1. at' = "idle" /\ at # "idle" /\ m \notin Mutations
    BY <1>7 DEF ConcludeCampaign
  <2>2. result' = result \/ result'.entries = entries
    BY <1>7 DEF ConcludeCampaign
  <2>3. UNCHANGED <<campaign, m, child, bundle, entries, remakes>>
    BY <1>7 DEF ConcludeCampaign
  <2> QED  BY <2>1, <2>2, <2>3, NoExecutor DEF AtMutation
<1> QED  BY <1>1, <1>2, <1>3, <1>4, <1>5, <1>6, <1>7 DEF Executor

LEMMA RemakeStep ==
  ASSUME CampaignInv, Remake
  PROVE  CampaignInv'
<1> USE DEF CampaignInv, CampaignTypeOK
<1>1. remakes' \in 0..Remakes
  <2>1. Remakes \in Nat /\ remakes < Remakes /\ remakes' = remakes + 1
    BY CampaignAssumption DEF Remake
  <2> QED  BY <2>1
<1>2. PICK n \in Mutations, x \in Directory :
        /\ bundle' = [bundle EXCEPT ![n] = x]
        /\ ~x.exists => x.attached = "no" /\ ~x.whole
  <2>1. PICK n \in Mutations :
          \/ bundle' = [bundle EXCEPT ![n] = Absent]
          \/ \E seen \in Observed :
               bundle' = [bundle EXCEPT ![n] = [Absent EXCEPT !.exists = TRUE, !.whole = TRUE,
                                                    !.seen = seen, !.remade = remakes']]
    BY DEF Remake
  <2>2. CASE bundle' = [bundle EXCEPT ![n] = Absent]
    <3>1. Absent.attached = "no" /\ ~Absent.whole
      BY DEF Absent
    <3> QED  BY <2>2, <3>1, AbsentType
  <2>3. CASE \E seen \in Observed :
               bundle' = [bundle EXCEPT ![n] = [Absent EXCEPT !.exists = TRUE, !.whole = TRUE,
                                                    !.seen = seen, !.remade = remakes']]
    <3>1. PICK seen \in Observed :
               bundle' = [bundle EXCEPT ![n] = [Absent EXCEPT !.exists = TRUE, !.whole = TRUE,
                                                    !.seen = seen, !.remade = remakes']]
      BY <2>3
    <3> DEFINE x == [Absent EXCEPT !.exists = TRUE, !.whole = TRUE, !.seen = seen,
                                   !.remade = remakes']
    <3>2. x \in Directory /\ x.exists
      BY <1>1, AbsentType DEF Absent, Directory
    <3>3. bundle' = [bundle EXCEPT ![n] = x]
      BY <3>1
    <3> HIDE DEF x
    <3> QED  BY <3>2, <3>3
  <2> QED  BY <2>1, <2>2, <2>3
<1>3. /\ bundle' \in [Mutations -> Directory]
      /\ \A k \in Mutations : bundle'[k] = x \/ bundle'[k] = bundle[k]
  BY <1>2
<1>4. \A k \in Mutations : ~bundle'[k].exists => bundle'[k].attached = "no" /\ ~bundle'[k].whole
  BY <1>2, <1>3 DEF AtMutation
<1>5. at' = "idle" /\ UNCHANGED <<campaign, m, child, entries, result>>
  BY DEF Remake
<1> QED  BY <1>1, <1>3, <1>4, <1>5, NoExecutor

LEMMA NextCampaignInv ==
  ASSUME CampaignInv, [CampaignNext]_campaignVars
  PROVE  CampaignInv'
<1> USE DEF CampaignInv, CampaignTypeOK
<1>1. CASE Executor
  BY <1>1, ExecutorStep
<1>2. CASE Remake
  BY <1>2, RemakeStep
<1>3. CASE KillExecutor
  BY <1>3, NoExecutor DEF KillExecutor, AtMutation
<1>4. CASE Verify \/ EditPlan
  BY <1>4, NoExecutor DEF Verify, EditPlan, AtMutation
<1>5. CASE UNCHANGED campaignVars
  BY <1>5 DEF campaignVars, AtMutation, EntriesTold, Backed
<1> QED  BY <1>1, <1>2, <1>3, <1>4, <1>5 DEF CampaignNext

-----------------------------------------------------------------------------
(* Campaigns: the theorems.                                                *)

\* Entries and directories agree throughout a campaign, for any plan, any
\* observations, any number of executors, deaths and remade bundles.
THEOREM CampaignInvariant == CampaignSpec => []CampaignInv
<1> QED  BY InitCampaignInv, NextCampaignInv, PTL DEF CampaignSpec

\* All entries are there when an executor concludes.
LEMMA AllEntries ==
  ASSUME CampaignInv, ConcludeCampaign
  PROVE  DOMAIN entries = Mutations /\ entries # <<>> /\ \A i \in Mutations : entries[i] \in Entry
<1> USE DEF CampaignInv, CampaignTypeOK
<1>1. Len(entries) = Count
  BY Planned DEF ConcludeCampaign, AtMutation
<1>2. DOMAIN entries = 1..Count
  BY <1>1
<1> QED  BY <1>1, <1>2, Planned

\* Only passed entries make a list that passed.
LEMMA PassedStatus ==
  ASSUME NEW list \in Seq(Entry), ResultStatus(list) = "passed"
  PROVE  \A i \in DOMAIN list : list[i].status = "passed"
<1> SUFFICES ASSUME NEW i \in DOMAIN list PROVE list[i].status = "passed"
  OBVIOUS
<1>1. list[i].status \in {"error", "failed", "passed"}
  <2>1. list[i] \in Entry
    OBVIOUS
  <2> QED  BY <2>1 DEF Entry
<1> QED  BY <1>1 DEF ResultStatus

LEMMA ConcludeSound ==
  ASSUME CampaignInv, ConcludeCampaign
  PROVE  /\ code' = 0 => \A n \in Mutations : Backed(n)
         /\ \/ result' = [entries |-> entries, status |-> ResultStatus(entries), plan |-> planFile]
            \/ \E i \in DOMAIN entries : entries[i].exit = -1 /\ entries[i].evidence # <<>>
<1> DEFINE built == [entries |-> entries, status |-> ResultStatus(entries), plan |-> planFile]
<1> USE DEF CampaignInv, CampaignTypeOK
<1>1. at # "idle" /\ at = "mutation"
  BY DEF ConcludeCampaign
<1>2. code' = 0 => \A n \in Mutations : Backed(n)
  <2> SUFFICES ASSUME code' = 0 PROVE \A n \in Mutations : Backed(n)
    OBVIOUS
  <2>1. ResultStatus(entries) = "passed"
    BY DEF ConcludeCampaign, CampaignExitCode
  <2> QED  BY <1>1, <2>1, AllEntries, PassedStatus DEF EntriesTold
<1>3. CASE \A i \in DOMAIN entries : entries[i].exit # -1 \/ entries[i].evidence = <<>>
  <2>1. \A i \in DOMAIN entries : ValidEntry(entries[i])
    BY <1>3, AllEntries, ToldIsValid DEF EntriesTold
  <2>2. ValidResult(built)
    BY <2>1, AllEntries DEF ValidResult
  <2> QED  BY <1>2, <2>2 DEF ConcludeCampaign
<1> QED  BY <1>2, <1>3

\* An executor that exits 0 killed every planned mutation in its own campaign,
\* and one that gets through leaves its result, unless a child was killed by a
\* signal after it had written its bundle.
THEOREM CampaignConclusion == CampaignSpec => ConclusionIsSound
<1> DEFINE Sound ==
      ConcludeCampaign =>
        /\ code' = 0 => \A n \in Mutations :
             /\ bundle[n].maker = campaign /\ VerifiedEvidence(bundle[n])
             /\ bundle[n].attached = "all"
             /\ OutcomeOf(bundle[n]) = "killed"
        /\ \/ result' = [entries |-> entries, status |-> ResultStatus(entries), plan |-> planFile]
           \/ \E i \in DOMAIN entries : entries[i].exit = -1 /\ entries[i].evidence # <<>>
<1>1. CampaignInv => [Sound]_campaignVars
  BY ConcludeSound DEF Backed
<1>2. CampaignInv /\ [CampaignNext]_campaignVars => [Sound]_campaignVars
  BY <1>1
<1> HIDE DEF Sound
<1>3. CampaignSpec => [][Sound]_campaignVars
  BY <1>2, CampaignInvariant, PTL DEF CampaignSpec
<1> QED  BY <1>3 DEF Sound, ConclusionIsSound

LEMMA VerifySound ==
  ASSUME CampaignInv, Verify, verdicts' = "passed", NEW n \in Mutations
  PROVE  /\ n \in DOMAIN result.entries /\ bundle[n].maker # Foreign
         /\ VerifiedEvidence(bundle[n]) /\ OutcomeOf(bundle[n]) = "killed"
         /\ result.plan = planFile
<1> USE DEF CampaignInv, CampaignTypeOK
<1>1. result # NoResult /\ ResultHolds /\ result.status = "passed"
  BY DEF Verify
<1>2. /\ result.entries \in Seq(Entry) /\ Len(result.entries) = Count
      /\ \A i \in DOMAIN result.entries : EntryTold(result.entries[i])
  BY <1>1 DEF EntriesTold
<1>3. n \in DOMAIN result.entries
  BY <1>2, Planned
<1> DEFINE e == result.entries[n]
<1>4. e.status = "passed"
  BY <1>1, <1>2, <1>3, PassedStatus DEF ResultHolds, ValidResult
<1>5. PICK b \in Directory :
        b.maker # Foreign /\ e.evidence = Hash(b) /\ OutcomeOf(b) = "killed"
  BY <1>2, <1>3, <1>4 DEF EntryTold
<1>6. VerifiedEvidence(bundle[n]) /\ Hash(bundle[n]) = Hash(b)
  BY <1>1, <1>3, <1>5, HashTells DEF ResultHolds, EntryHolds
<1>7. bundle[n] \in Directory
  OBVIOUS
<1>8. bundle[n].maker = b.maker /\ bundle[n].seen = b.seen
  BY <1>6, <1>7, HashTells
<1>9. OutcomeOf(bundle[n]) = "killed"
  BY <1>5, <1>8 DEF OutcomeOf
<1> QED  BY <1>1, <1>3, <1>5, <1>6, <1>8, <1>9 DEF ResultHolds

\* A verification that passes vouches for the bundles that are there now: each
\* is the one an executor made, and kills, under the plan as it is.
THEOREM CampaignVerified == CampaignSpec => PassedIsTrueNow
<1> DEFINE True ==
      Verify /\ verdicts' = "passed" =>
        \A n \in Mutations : /\ n \in DOMAIN result.entries
                             /\ bundle[n].maker # Foreign
                             /\ VerifiedEvidence(bundle[n]) /\ OutcomeOf(bundle[n]) = "killed"
                             /\ result.plan = planFile
<1>1. CampaignInv /\ [CampaignNext]_campaignVars => [True]_campaignVars
  BY VerifySound
<1> HIDE DEF True
<1>2. CampaignSpec => [][True]_campaignVars
  BY <1>1, CampaignInvariant, PTL DEF CampaignSpec
<1> QED  BY <1>2 DEF True, PassedIsTrueNow

-----------------------------------------------------------------------------
(* Replays.                                                                *)

\* A case that passes or fails was reached, and has the fingerprint of a request.
LEMMA ResultTold ==
  ASSUME NEW kind, NEW x \in ResultsOf(kind)
  PROVE  x.status \in Statuses /\ (x.status \in {"pass", "fail"} => x.request # 0)
<1>1. PICK a \in Answers, i \in Intents, s \in Seen : x = CaseResult(kind, a, i, s)
  BY DEF ResultsOf
<1>2. /\ x.status = CaseStatus(kind, a)
      /\ x.request = IF Reached(kind, a) THEN i ELSE 0
  BY <1>1 DEF CaseResult
<1>3. i # 0
  BY ReplayAssumption
<1>4. /\ CaseStatus(kind, a) \in Statuses
      /\ ~Reached(kind, a) => CaseStatus(kind, a) \in {"error", "inconclusive"}
  BY CaseStatuses
<1> QED  BY <1>2, <1>3, <1>4

\* Two runs of one oracle.
OneOracle == recorded \in RunsOf(kinds) /\ replayed \in RunsOf(kinds)

LEMMA RunTold ==
  ASSUME NEW r \in RunsOf(kinds)
  PROVE  /\ DOMAIN r = CaseIds /\ DOMAIN StatusesOf(r) = CaseIds
         /\ \A c \in CaseIds : /\ r[c].status \in Statuses
                               /\ r[c].status \in {"pass", "fail"} => r[c].request # 0
                               /\ StatusesOf(r)[c] = r[c].status
<1>1. DOMAIN r = CaseIds /\ \A c \in CaseIds : r[c] \in ResultsOf(kinds[c])
  BY DEF RunsOf
<1> QED  BY <1>1, ResultTold DEF StatusesOf

\* What the comparison says of a case.
LEMMA CaseCompared ==
  ASSUME OneOracle, NEW c \in CaseIds
  PROVE  LET x == RuleComparison(recorded, replayed, c) IN
           /\ x.request = Compared(recorded[c].request, replayed[c].request)
           /\ x.status = "request-drift" => x.request = "changed"
           /\ x.status = "match" =>
                /\ ~OutcomeDrift(recorded[c], replayed[c]) /\ x.request # "changed"
           /\ x.status # "match" => x.status = "outcome-drift" \/ x.request = "changed"
BY RunTold DEF OneOracle, RuleComparison

\* The report that is built of two runs of one oracle.
LEMMA ReportTold ==
  ASSUME OneOracle
  PROVE  LET built == CompareReplay(recorded, replayed)
             now   == StatusesOf(replayed)
             rules == [c \in CaseIds |-> RuleComparison(recorded, replayed, c)]
             drift == \/ \E c \in CaseIds : rules[c].status # "match"
                      \/ VerdictFor(StatusesOf(recorded)) # VerdictFor(now)
         IN  /\ built.rules = rules
             /\ built.verdicts = <<VerdictFor(StatusesOf(recorded)), VerdictFor(now)>>
             /\ built.status = IF Has(now, "error") THEN "error"
                               ELSE IF Has(now, "inconclusive") THEN "inconclusive"
                               ELSE IF drift THEN "drifted" ELSE "matched"
             /\ built.request =
                  IF \E c \in CaseIds : rules[c].request = "unavailable" THEN "unavailable"
                  ELSE IF \E c \in CaseIds : rules[c].request = "changed" THEN "changed" ELSE "same"
             /\ built.observation =
                  IF built.status \in {"error", "inconclusive"} THEN "unavailable"
                  ELSE IF \E c \in CaseIds : rules[c].observation = "changed"
                       THEN "changed" ELSE "same"
<1>1. DOMAIN recorded \cup DOMAIN replayed = CaseIds
  BY RunTold DEF OneOracle
<1> QED  BY <1>1 DEF CompareReplay

LEMMA ReplayReport ==
  ASSUME OneOracle
  PROVE  LET built == CompareReplay(recorded, replayed) IN
           /\ ValidReplay(built)
           /\ built.status # "invalid"
           /\ built.status = "matched" =>
                /\ VerdictFor(StatusesOf(recorded)) = VerdictFor(StatusesOf(replayed))
                /\ \A c \in CaseIds : /\ recorded[c].status = replayed[c].status
                                      /\ recorded[c].request = replayed[c].request
                                      /\ replayed[c].status \in {"pass", "fail"}
<1> DEFINE built == CompareReplay(recorded, replayed)
           was   == StatusesOf(recorded)
           now   == StatusesOf(replayed)
           rules == [c \in CaseIds |-> RuleComparison(recorded, replayed, c)]
           drift == \/ \E c \in CaseIds : rules[c].status # "match"
                    \/ VerdictFor(was) # VerdictFor(now)
<1>1. /\ built.rules = rules
      /\ built.verdicts = <<VerdictFor(was), VerdictFor(now)>>
      /\ built.status = IF Has(now, "error") THEN "error"
                        ELSE IF Has(now, "inconclusive") THEN "inconclusive"
                        ELSE IF drift THEN "drifted" ELSE "matched"
      /\ built.request =
           IF \E c \in CaseIds : rules[c].request = "unavailable" THEN "unavailable"
           ELSE IF \E c \in CaseIds : rules[c].request = "changed" THEN "changed" ELSE "same"
      /\ built.observation =
           IF built.status \in {"error", "inconclusive"} THEN "unavailable"
           ELSE IF \E c \in CaseIds : rules[c].observation = "changed" THEN "changed" ELSE "same"
  BY ReportTold
<1>2. \A c \in CaseIds :
        /\ rules[c].request = Compared(recorded[c].request, replayed[c].request)
        /\ rules[c].status = "request-drift" => rules[c].request = "changed"
        /\ rules[c].status = "match" =>
             ~OutcomeDrift(recorded[c], replayed[c]) /\ rules[c].request # "changed"
        /\ rules[c].status # "match" =>
             rules[c].status = "outcome-drift" \/ rules[c].request = "changed"
  BY CaseCompared
<1>3. DOMAIN now = CaseIds /\ \A c \in CaseIds : now[c] = replayed[c].status
  BY RunTold DEF OneOracle
<1>4. Has(now, "error") <=> VerdictFor(now) = "error"
  BY DEF VerdictFor
<1>5. Has(now, "inconclusive") /\ ~Has(now, "error") => VerdictFor(now) \in {"inconclusive", "fail"}
  BY DEF VerdictFor
<1>6. DOMAIN rules = CaseIds /\ CaseIds # {}
  BY ReplayAssumption
<1> HIDE DEF rules
\* A matched report is of cases that passed or failed alike, with the same requests.
<1>7. ASSUME built.status = "matched"
      PROVE  /\ VerdictFor(was) = VerdictFor(now)
             /\ \A c \in CaseIds : /\ recorded[c].status = replayed[c].status
                                   /\ recorded[c].request = replayed[c].request
                                   /\ replayed[c].status \in {"pass", "fail"}
                                   /\ rules[c].status = "match" /\ rules[c].request = "same"
  <2>1. ~Has(now, "error") /\ ~Has(now, "inconclusive") /\ ~drift
    BY <1>1, <1>7
  <2>2. \A c \in CaseIds : replayed[c].status \notin {"error", "inconclusive"}
    BY <1>3, <2>1 DEF Has
  <2>3. ASSUME NEW c \in CaseIds
        PROVE  /\ recorded[c].status = replayed[c].status
               /\ recorded[c].request = replayed[c].request
               /\ replayed[c].status \in {"pass", "fail"}
               /\ rules[c].status = "match" /\ rules[c].request = "same"
    <3>1. rules[c].status = "match"
      BY <2>1
    <3>2. recorded[c].status = replayed[c].status
      BY <1>2, <3>1 DEF OutcomeDrift
    <3>3. replayed[c].status \in {"pass", "fail"}
      BY <2>2, RunTold DEF OneOracle, Statuses
    <3>4. recorded[c].request # 0 /\ replayed[c].request # 0
      BY <3>2, <3>3, RunTold DEF OneOracle
    <3>5. Compared(recorded[c].request, replayed[c].request) # "changed"
      BY <1>2, <3>1
    <3> QED  BY <1>2, <3>1, <3>2, <3>3, <3>4, <3>5 DEF Compared
  <2> QED  BY <2>1, <2>3
<1> DEFINE seen     == {rules[c] : c \in CaseIds}
           requests == {x.request : x \in seen}
           visible  == \/ \E x \in seen : x.status \in {"outcome-drift", "missing", "added"}
                       \/ VerdictFor(was) # VerdictFor(now)
                       \/ requests # {"same"}
<1>8. built.status = "matched" => ~visible
  <2> SUFFICES ASSUME built.status = "matched" PROVE ~visible
    OBVIOUS
  <2>1. \A x \in seen : x.status = "match" /\ x.request = "same"
    BY <1>7
  <2>2. requests = {"same"}
    BY <1>6, <2>1
  <2> QED  BY <1>7, <2>1, <2>2
<1>9. built.status = "drifted" => visible
  <2> SUFFICES ASSUME built.status = "drifted" PROVE visible
    OBVIOUS
  <2>1. drift
    BY <1>1
  <2>2. CASE VerdictFor(was) # VerdictFor(now)
    BY <2>2
  <2>3. CASE \E c \in CaseIds : rules[c].status # "match"
    <3>1. PICK c \in CaseIds : rules[c].status # "match"
      BY <2>3
    <3>2. rules[c] \in seen /\ rules[c].request \in requests
      OBVIOUS
    <3> QED  BY <1>2, <3>1, <3>2
  <2> QED  BY <2>1, <2>2, <2>3
<1>10. built.request = IF "unavailable" \in requests THEN "unavailable"
                       ELSE IF "changed" \in requests THEN "changed" ELSE "same"
  BY <1>1
<1>11. seen # {} /\ \A x \in seen : x.status = "request-drift" => x.request = "changed"
  BY <1>2, <1>6
<1>12. seen = {built.rules[c] : c \in DOMAIN built.rules}
  BY <1>1, <1>6
<1>13. built.verdicts[1] = VerdictFor(was) /\ built.verdicts[2] = VerdictFor(now)
  BY <1>1
<1>14. built.status = "error" => built.verdicts[2] = "error"
  BY <1>1, <1>4, <1>13
<1>15. built.status = "inconclusive" => built.verdicts[2] \in {"inconclusive", "fail"}
  BY <1>1, <1>5, <1>13
<1>16. built.status # "invalid"
  BY <1>1
<1>17. built.observation = IF built.status \in {"error", "inconclusive"} THEN "unavailable"
                           ELSE IF \E x \in seen : x.observation = "changed"
                                THEN "changed" ELSE "same"
  BY <1>1
<1> HIDE DEF built, was, now, drift
<1>18. ValidReplay(built)
  BY <1>8, <1>9, <1>10, <1>11, <1>12, <1>13, <1>14, <1>15, <1>17 DEF ValidReplay
<1> QED  BY <1>7, <1>16, <1>18 DEF built, was, now

\* No two runs of one oracle make a report that its validation refuses, and
\* matched is said only of runs that agree in every case, in its requests and
\* in the verdict, and that evaluated everything.
THEOREM ReplaySound == ReplaySpec => []ReplayIsSound
<1> DEFINE Inv == OneOracle /\ ReplayIsSound
<1>1. ReplayInit => Inv
  BY DEF ReplayInit, OneOracle, ReplayIsSound, NoReport
<1>2. Inv /\ [ReplayNext]_replayVars => Inv'
  <2> SUFFICES ASSUME Inv, [ReplayNext]_replayVars PROVE Inv'
    OBVIOUS
  <2>1. CASE UNCHANGED replayVars
    BY <2>1 DEF replayVars, OneOracle, ReplayIsSound
  <2>2. CASE Replay
    <3>1. UNCHANGED <<kinds, recorded, replayed>>
      BY <2>2 DEF Replay
    <3>2. \/ report' = [status |-> "refused"]
          \/ report' = CompareReplay(recorded, replayed)
      BY <2>2, ReplayReport DEF Replay
    <3>3. report'.status # "invalid" /\ (report'.status = "matched" =>
                                           report' = CompareReplay(recorded, replayed))
      BY <3>2, ReplayReport
    <3> QED  BY <3>1, <3>3, ReplayReport DEF OneOracle, ReplayIsSound
  <2> QED  BY <2>1, <2>2 DEF ReplayNext
<1>3. Inv => ReplayIsSound
  OBVIOUS
<1> QED  BY <1>1, <1>2, <1>3, PTL DEF ReplaySpec
===============================================================================
