---------------------------- MODULE SessionPromise ----------------------------
(***************************************************************************)
(* What a native session promises to those who read its verdict, whatever  *)
(* happens behind it: at most one child runs, for as long as the session   *)
(* is undecided; the verdict is about that child, and final; the run       *)
(* receipt reports the verdict; the workspace is closed on a quiet         *)
(* session.  NativeSession implements this specification.                  *)
(***************************************************************************)
VARIABLES
  process,   \* the child: "none", "running", and its exit "zero" or "nonzero"
  verdict,   \* "none" until the session is decided
  report,    \* the verdict in the run receipt
  closed     \* the workspace was closed by Sentinel

promise == <<process, verdict, report, closed>>

Init == process = "none" /\ verdict = "none" /\ report = "none" /\ closed = FALSE

Launch ==
  /\ process = "none" /\ verdict = "none"
  /\ process' = "running"
  /\ UNCHANGED <<verdict, report, closed>>

Exit ==
  /\ process = "running"
  /\ process' \in {"zero", "nonzero"}
  /\ UNCHANGED <<verdict, report, closed>>

\* A child that ran decides the session by its exit, or was canceled.
Decide ==
  /\ verdict = "none"
  /\ \/ process = "zero" /\ verdict' \in {"completed", "canceled"}
     \/ process = "nonzero" /\ verdict' \in {"failed", "canceled"}
     \/ process = "none" /\ verdict' \in {"failed", "canceled"}
  /\ UNCHANGED <<process, report, closed>>

Report ==
  /\ verdict # "none" /\ report = "none"
  /\ report' = verdict
  /\ UNCHANGED <<process, verdict, closed>>

Close ==
  /\ verdict # "none"
  /\ closed' = TRUE
  /\ UNCHANGED <<process, verdict, report>>

Next == Launch \/ Exit \/ Decide \/ Report \/ Close

Spec == Init /\ [][Next]_promise
=============================================================================
