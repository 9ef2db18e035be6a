-------------------------- MODULE MCChecksDelivery --------------------------
(* Two deliveries of one run, after up to two that left their check runs;    *)
(* pages of one check run, so that a list of two takes two requests.         *)
EXTENDS ChecksDelivery

CONSTANTS p1, p2
=============================================================================
