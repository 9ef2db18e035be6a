--------------------------- MODULE MCNativeSession ---------------------------
(***************************************************************************)
(* Instances of NativeSession: which processes take part.                  *)
(***************************************************************************)
EXTENDS NativeSession, TLC

CONSTANTS wrapper1, wrapper2, cancel1, cancel2, recover1

OneWrapper  == {wrapper1}
TwoWrappers == {wrapper1, wrapper2}
OneCanceler == {cancel1}
OneRecoverer == {recover1}
NoRecoverer == {}

\* The wrappers, and the cancelers, are interchangeable.
Symmetry == Permutations(Wrappers) \union Permutations(Cancelers)
=============================================================================
