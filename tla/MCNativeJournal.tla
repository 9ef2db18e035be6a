--------------------------- MODULE MCNativeJournal ---------------------------
(***************************************************************************)
(* Callers for NativeJournal: the events native.go submits, and events no  *)
(* caller of the repository submits but the journal must withstand         *)
(* (another binding, the same identifier with other content, an untyped    *)
(* observation that moves the state).                                      *)
(***************************************************************************)
EXTENDS NativeJournal, TLC

CONSTANTS h1, h2

Ev(id, kind, st, host, reason, exit, digests) ==
  [id |-> id, kind |-> kind, state |-> st, host |-> host,
   reason |-> reason, exit |-> exit, digests |-> digests]

Plain(id, kind, st, host, reason) == Ev(id, kind, st, host, reason, "none", FALSE)

MCIds == {"reserve", "claim", "claim2", "start", "start2", "ack", "cancel",
          "settle", "before-start", "terminal", "observe", "observe2"}

MCHosts == {h1, h2}

MCRequests ==
  { Plain("reserve", "provider", "dispatching", h1, NoReason),
    Plain("reserve", "provider", "dispatching", h2, NoReason),
    Plain("claim", "wrapper-claim", "submitted", h1, NoReason),
    Plain("claim2", "wrapper-claim", "submitted", NoHost, NoReason),
    Plain("start", "wrapper-started", "running", h1, NoReason),
    Plain("start2", "wrapper-started", "running", NoHost, NoReason),
    Plain("ack", "host-dispatch-ack", "submitted", h1, NoReason),
    Plain("ack", "host-dispatch-ack", "submitted", h2, NoReason),
    Plain("cancel", "provider", "cancel-requested", h1, "given"),
    Plain("settle", "provider-canceled-before-claim", "canceled", h1, "given"),
    Plain("settle", "provider-canceled-before-start", "canceled", h1, "given"),
    Plain("before-start", "wrapper-canceled-before-start", "canceled", h1, "given"),
    Ev("terminal", "wrapper-terminal", "completed", h1, NoReason, "zero", TRUE),
    Ev("terminal", "wrapper-terminal", "failed", h1, "given", "nonzero", TRUE),
    Ev("terminal", "wrapper-terminal", "canceled", NoHost, "given", "zero", TRUE),
    Plain("observe", "provider", "indeterminate", h2, "given"),
    Plain("observe", "provider", "indeterminate", NoHost, "given"),
    Plain("observe", "provider", "failed", NoHost, "given"),
    Plain("observe2", "provider", "running", h1, "given"),
    Plain("observe2", "provider", "cancel-requested", NoHost, "given") }
=============================================================================
