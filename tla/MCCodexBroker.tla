---------------------------- MODULE MCCodexBroker ----------------------------
(***************************************************************************)
(* The instance of CodexBroker that TLC checks.                            *)
(***************************************************************************)
EXTENDS CodexBroker

CONSTANTS r1, r2, caller

TwoRequests == {r1, r2}
OneCaller   == {caller}
=============================================================================
