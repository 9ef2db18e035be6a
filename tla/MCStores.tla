-------------------------------- MODULE MCStores --------------------------------
(***************************************************************************)
(* Instances of the three modules of files that several commands share:    *)
(* Lockwood's root (LockwoodCustody), Sentinel's receipts (RunReceipt) and *)
(* its role executions (RoleExecution).  `part` tells which of them moves. *)
(***************************************************************************)
EXTENDS LockwoodCustody, RunReceipt, RoleExecution

CONSTANTS a, b, c, d0, d1, d2, p1, p2, file1, file2

VARIABLE part

\* Lockwood: two artifacts and an import of two, holds on record a that are
\* placed and released, and redactions of it, one of them appended as well.
MCIntakes ==
  {<<[id |-> a, digest |-> d0]>>, <<[id |-> b, digest |-> d1]>>,
   <<[id |-> b, digest |-> d1], [id |-> c, digest |-> d2]>>}
MCEarlier ==
  {{}, {[id |-> a, digest |-> d0]}, {[id |-> a, digest |-> d0], [id |-> b, digest |-> d1]}}
Redact(n, t, o, x) ==
  [custody |-> a, id |-> n, type |-> "redaction", at |-> t, hold |-> Nil, original |-> o, result |-> x]
Hold(n, t, type) ==
  [custody |-> a, id |-> n, type |-> type, at |-> t, hold |-> a, original |-> Nil, result |-> Nil]
MCAppended == {Hold(1, 1, "placed"), Hold(2, 2, "released"), Redact(3, 1, d0, d1)}
MCRegistered == {Redact(3, 1, d0, d1), Redact(4, 2, d1, d0), Redact(5, 2, d0, d1)}
MCPromotions == {[source |-> a, event |-> 3, id |-> b]}

\* Sentinel: a signed and an unsigned batch that overlap.
Host(source, at, status, uses) ==
  [type |-> "host", source |-> source, at |-> at, status |-> status, uses |-> uses]
MCBatches == {[run |-> 1, events |-> <<Host("e1", 1, Null, {}), Host("e3", 2, "running", {})>>]}
MCCallbacks ==
  {[run |-> 1, issued |-> 0, expires |-> 2,
    events |-> <<Host("e1", 1, Null, {}), Host("e2", 1, "completed", {<<"report">>})>>]}
MCArtifacts == {<<"report">>}

\* Role executions: an agent with a broker and a governed command share an ID.
MCRequests ==
  {[id |-> 1, executable |-> "x1", agent |-> TRUE, broker |-> TRUE, governed |-> FALSE],
   [id |-> 1, executable |-> "x2", agent |-> FALSE, broker |-> FALSE, governed |-> TRUE]}

MCSymmetry == Permutations({p1, p2}) \union Permutations({file1, file2})

custodyVars == vars
allVars == <<part, custodyVars, receiptVars, roleVars>>

\* The parts that do not move stay in some initial state.
StoresInit ==
  /\ part \in {"custody", "receipt", "role"}
  /\ Init /\ (part = "custody" \/ DOMAIN files = {})
  /\ ReceiptInit /\ RoleInit

StoresNext ==
  \/ part = "custody" /\ Next /\ UNCHANGED <<part, receiptVars, roleVars>>
  \/ part = "receipt" /\ ReceiptNext /\ UNCHANGED <<part, custodyVars, roleVars>>
  \/ part = "role" /\ RoleNext /\ UNCHANGED <<part, custodyVars, receiptVars>>

StoresSpec == StoresInit /\ [][StoresNext]_allVars
================================================================================
