---------------------------- MODULE BrokerPromise ----------------------------
(***************************************************************************)
(* What the Responses broker promises to whoever lends it a credential:    *)
(* the credential is used for one request at a time, MaxRequests times in  *)
(* all and never anew once the broker is closing; when it is drained,      *)
(* nothing uses it any more.  CodexBroker implements this specification.   *)
(***************************************************************************)
EXTENDS Naturals

CONSTANTS Requests, MaxRequests

VARIABLES
  phase,    \* "open", "closing", "drained"
  uses,     \* how often the credential was lent to a request
  holding   \* the requests that hold it

promise == <<phase, uses, holding>>

Init == phase = "open" /\ uses = 0 /\ holding = {}

Lend(r) ==
  /\ phase = "open" /\ holding = {} /\ uses < MaxRequests
  /\ uses' = uses + 1
  /\ holding' = {r}
  /\ UNCHANGED phase

Return(r) ==
  /\ r \in holding
  /\ holding' = holding \ {r}
  /\ UNCHANGED <<phase, uses>>

Shut ==
  /\ phase = "open"
  /\ phase' = "closing"
  /\ UNCHANGED <<uses, holding>>

Drain ==
  /\ phase = "closing" /\ holding = {}
  /\ phase' = "drained"
  /\ UNCHANGED <<uses, holding>>

Next == Shut \/ Drain \/ \E r \in Requests : Lend(r) \/ Return(r)

Spec == Init /\ [][Next]_promise
=============================================================================
