--------------------------- MODULE ChecksDelivery ---------------------------
(***************************************************************************)
(* Delivery of one Nublar run to GitHub Checks: `nublar run deliver`        *)
(* (nublar/cmd/nublar), its publisher (nublar/internal/delivery/            *)
(* githubchecks) and the receipt it keeps (nublar/internal/storage).        *)
(*                                                                          *)
(* Every element of Publishers is one invocation for the same run ID: the   *)
(* first delivery, or a later one by an operator or a CI job.  Nothing      *)
(* locks them out from each other.  What they share is the list of check    *)
(* runs GitHub keeps for the commit.  A request is one step: its effect on  *)
(* GitHub, if any, and what the invocation learns of it, which may be less. *)
(***************************************************************************)
EXTENDS Integers, Sequences, FiniteSets

CONSTANTS
    Publishers,   \* invocations of the command
    PageSize,     \* check runs in a page of the list (100)
    MaxPages,     \* pages a lookup reads at most (10)
    MaxAttempts,  \* times a GET or a PATCH is sent at most
    MaxPast,      \* bound: check runs that earlier deliveries of the run left
    MaxForeign,   \* bound: check runs that other Nublar runs create
    MayLag        \* may GitHub list a check run later than it creates it?

Nobody == "nobody"    \* the creator of a check run of another external ID
Earlier == "earlier"  \* a delivery that ended before the ones that are modelled

ASSUME DeliveryAssumption ==
    /\ PageSize \in Nat \ {0} /\ MaxPages \in Nat \ {0}
    /\ MaxAttempts \in Nat \ {0}
    /\ MaxPast \in Nat /\ MaxForeign \in Nat
    /\ MayLag \in BOOLEAN /\ {Nobody, Earlier} \cap Publishers = {}

VARIABLES
    checks,      \* GitHub's check runs of the commit, by ID
    pc,          \* where each invocation is
    attempt,     \* how often it has sent the request at hand
    scan,        \* its lookup: the next page, the first total, the runs seen
    match,       \* the check run its lookup has found, 0 for none
    receipt,     \* the outcome it reports
    ack,         \* the check run GitHub acknowledged to it
    stored,      \* the invocations whose receipt is in the store
    known,       \* history: matching runs listed when it started
    overlapped,  \* history: have two publications been under way at once?
    lagged       \* history: has a check run been listed late?

client == <<attempt, scan, match, receipt, ack, known>>
vars == <<checks, pc, client, stored, overlapped, lagged>>

(***************************************************************************)
(* GitHub.  A check run has a creator, and `writers` are the deliveries      *)
(* whose body it has carried.                                               *)
(***************************************************************************)
Check(by, listed, writers) == [by |-> by, listed |-> listed, writers |-> writers]

Listed == {i \in DOMAIN checks : checks[i].listed}

Total == Cardinality(Listed)

\* The list has the newest first.
Newer(i) == Cardinality({j \in Listed : j > i})

PageOf(k) == {i \in Listed : (k - 1) * PageSize <= Newer(i) /\ Newer(i) < k * PageSize}

Ours(ids) == {i \in ids : checks[i].by # Nobody}

Created(p, listed) == Append(checks, Check(p, listed, {p}))

Patched(p) == [checks EXCEPT ![match[p]].writers = @ \cup {p}]

(***************************************************************************)
(* The invocation.                                                          *)
(***************************************************************************)
Lookups == {"find", "confirm"}
Publishing(p) == pc[p] \in Lookups \cup {"create", "update"}
Ended(p) == pc[p] \in {"exit0", "exit2", "dead"}

Scan(page, total, scanned) == [page |-> page, total |-> total, scanned |-> scanned]

Init ==
    /\ \E n \in 0 .. MaxPast :
          /\ checks = [i \in 1 .. n |-> Check(Earlier, TRUE, {Earlier})]
          /\ overlapped = (n > 1)
    /\ pc = [p \in Publishers |-> "idle"]
    /\ attempt = [p \in Publishers |-> 1]
    /\ scan = [p \in Publishers |-> Scan(1, 0, 0)]
    /\ match = [p \in Publishers |-> 0]
    /\ receipt = [p \in Publishers |-> "none"]
    /\ ack = [p \in Publishers |-> 0]
    /\ stored = {}
    /\ known = [p \in Publishers |-> 0]
    /\ lagged = FALSE

\* What a function call knew is gone when it returns.
Forget(p) ==
    /\ attempt' = [attempt EXCEPT ![p] = 1]
    /\ scan' = [scan EXCEPT ![p] = Scan(1, 0, 0)]
    /\ match' = [match EXCEPT ![p] = 0]

\* Publish returns with a receipt; `run deliver` goes on to keep it.
Returns(p, status) ==
    /\ pc' = [pc EXCEPT ![p] = "save"]
    /\ receipt' = [receipt EXCEPT ![p] = status]
    /\ Forget(p)

\* The next request: whatever it is, it has all its attempts ahead.
Sends(p, where) ==
    /\ pc' = [pc EXCEPT ![p] = where]
    /\ attempt' = [attempt EXCEPT ![p] = 1]

\* It starts a lookup, or the POST a lookup leads to.
Turns(p, where) ==
    /\ pc' = [pc EXCEPT ![p] = where]
    /\ Forget(p)

\* Without a token the delivery fails before any request.
Begin(p) ==
    /\ pc[p] = "idle"
    /\ known' = [known EXCEPT ![p] = Cardinality(Ours(Listed))]
    /\ overlapped' = (overlapped \/ \E q \in Publishers : Publishing(q))
    /\ \/ Turns(p, "find") /\ UNCHANGED receipt
       \/ Returns(p, "failed")
    /\ UNCHANGED <<checks, ack, stored, lagged>>

\* What makes a lookup refuse a page it has received.
PageRefused(p) ==
    LET page == scan[p].page
        seen == PageOf(page)
        scanned == scan[p].scanned + Cardinality(seen)
        total == IF page = 1 THEN Total ELSE scan[p].total
        more == Total > page * PageSize
    IN  \/ total > PageSize * MaxPages
        \/ Total # total
        \/ scanned > total
        \/ Cardinality(Ours(seen)) + (IF match[p] = 0 THEN 0 ELSE 1) > 1
        \/ ~more /\ scanned # total
        \/ more /\ (scanned >= total \/ page = MaxPages)

\* Fault: a match lasts no longer than its page.
MatchOnPage(p) ==
    IF Ours(PageOf(scan[p].page)) = {} THEN 0
    ELSE CHOOSE i \in Ours(PageOf(scan[p].page)) : TRUE

MatchAfter(p) ==
    IF Ours(PageOf(scan[p].page)) = {} THEN match[p]
    ELSE CHOOSE i \in Ours(PageOf(scan[p].page)) : TRUE

LastPage(p) == Total <= scan[p].page * PageSize

\* An update follows a match.  Without one the first lookup leads to the POST;
\* the lookup after an uncertain POST gives up: it refuses to send it again.
LookupEnds(p) ==
    \/ /\ MatchAfter(p) # 0
       /\ Sends(p, "update")
       /\ match' = [match EXCEPT ![p] = MatchAfter(p)]
       /\ scan' = [scan EXCEPT ![p] = Scan(1, 0, 0)]
       /\ UNCHANGED receipt
    \/ /\ MatchAfter(p) = 0 /\ pc[p] = "find"
       /\ Turns(p, "create")
       /\ UNCHANGED receipt
    \/ /\ MatchAfter(p) = 0 /\ pc[p] = "confirm"
       /\ Returns(p, "failed")

NextPage(p) ==
    /\ Sends(p, pc[p])
    /\ scan' = [scan EXCEPT ![p] =
                  Scan(@.page + 1, Total,
                       @.scanned + Cardinality(PageOf(@.page)))]
    /\ match' = [match EXCEPT ![p] = MatchAfter(p)]
    /\ UNCHANGED receipt

GetPage(p) ==
    /\ pc[p] \in Lookups
    /\ \/ PageRefused(p) /\ Returns(p, "failed")
       \/ ~PageRefused(p) /\ ~LastPage(p) /\ NextPage(p)
       \/ ~PageRefused(p) /\ LastPage(p) /\ LookupEnds(p)
    /\ UNCHANGED <<checks, ack, stored, known, overlapped, lagged>>

\* A GET or a PATCH that got no usable answer: a PATCH may have been applied.
Unanswered(p) ==
    /\ pc[p] \in Lookups \cup {"update"}
    /\ \/ UNCHANGED checks
       \/ pc[p] = "update" /\ checks' = Patched(p)

\* A timeout, 408, 429 or 5xx is tried again while attempts are left; any other
\* failure, the last attempt, and the deadline end the publication: giving up is
\* always possible.
Retry(p) ==
    /\ Unanswered(p)
    /\ attempt[p] < MaxAttempts
    /\ attempt' = [attempt EXCEPT ![p] = @ + 1]
    /\ UNCHANGED <<pc, scan, match, receipt, ack, stored, known,
                   overlapped, lagged>>

GiveUp(p) ==
    /\ Unanswered(p)
    /\ Returns(p, "failed")
    /\ UNCHANGED <<ack, stored, known, overlapped, lagged>>

\* GitHub creates the check run; MayLag lets it be listed later.
Applies(p) ==
    \E listed \in {TRUE} \cup {~MayLag} :
        /\ checks' = Created(p, listed)
        /\ lagged' = (lagged \/ ~listed)

\* The POST is sent once.  It is acknowledged as the expected check run, or
\* refused (a 4xx), or its outcome is uncertain: then the list is consulted.
\* After the deadline nothing is sent: an uncertain outcome, and no lookup works.
PostAcknowledged(p) ==
    /\ Applies(p)
    /\ ack' = [ack EXCEPT ![p] = Len(checks) + 1]
    /\ Returns(p, "accepted")

PostRefused(p) ==
    /\ Returns(p, "failed")
    /\ UNCHANGED <<checks, lagged, ack>>

\* Fault: the POST is tried again like any other request.
PostUncertainResent(p) ==
    /\ UNCHANGED <<checks, lagged>> \/ Applies(p)
    /\ Turns(p, "create")
    /\ UNCHANGED <<receipt, ack>>

PostUncertain(p) ==
    /\ \/ UNCHANGED <<checks, lagged>>
       \/ Applies(p)
    /\ Turns(p, "confirm")
    /\ UNCHANGED <<receipt, ack>>

Post(p) ==
    /\ pc[p] = "create"
    /\ PostAcknowledged(p) \/ PostRefused(p) \/ PostUncertain(p)
    /\ UNCHANGED <<stored, known, overlapped>>

\* The PATCH is acknowledged as the check run it was sent for.  (A 2xx answer
\* for another run, commit or conclusion is the last case of GiveUp.)
Patch(p) ==
    /\ pc[p] = "update"
    /\ checks' = Patched(p)
    /\ ack' = [ack EXCEPT ![p] = match[p]]
    /\ Returns(p, "accepted")
    /\ UNCHANGED <<stored, known, overlapped, lagged>>

\* The receipt joins the store, or the store fails.
Keep(p) == stored' = stored \cup {p}
KeepFails == UNCHANGED stored

Exits(p, code) == pc' = [pc EXCEPT ![p] = code]

\* Fault: an accepted delivery exits with 0 although its receipt is lost.
SaveIgnored(p) ==
    /\ pc[p] = "save"
    /\ Keep(p) \/ KeepFails
    /\ Exits(p, IF receipt[p] = "accepted" THEN "exit0" ELSE "exit2")
    /\ UNCHANGED <<checks, client, overlapped, lagged>>

\* The receipt, accepted or failed, is exported and stored; the exit code is 0
\* only for an accepted delivery whose receipt was kept.
Save(p) ==
    /\ pc[p] = "save"
    /\ \/ Keep(p) /\ Exits(p, IF receipt[p] = "accepted" THEN "exit0" ELSE "exit2")
       \/ KeepFails /\ Exits(p, "exit2")
    /\ UNCHANGED <<checks, client, overlapped, lagged>>

(***************************************************************************)
(* The surroundings.                                                        *)
(***************************************************************************)
\* The process dies; the job is cancelled.
Crash(p) ==
    /\ pc[p] # "idle" /\ ~Ended(p)
    /\ pc' = [pc EXCEPT ![p] = "dead"]
    /\ Forget(p)
    /\ UNCHANGED <<checks, receipt, ack, known, stored, overlapped, lagged>>

\* Another Nublar run publishes under the same check name.
CreateForeign ==
    /\ Cardinality({i \in DOMAIN checks : checks[i].by = Nobody}) < MaxForeign
    /\ checks' = Append(checks, Check(Nobody, TRUE, {}))
    /\ UNCHANGED <<pc, client, stored, overlapped, lagged>>

\* A check run that was created appears in the list.
Appear ==
    \E i \in DOMAIN checks :
        /\ ~checks[i].listed
        /\ checks' = [checks EXCEPT ![i].listed = TRUE]
        /\ UNCHANGED <<pc, client, stored, overlapped, lagged>>

Step(p) == GetPage(p) \/ Retry(p) \/ GiveUp(p) \/ Post(p) \/ Patch(p) \/ Save(p)

Next ==
    \/ \E p \in Publishers : Begin(p) \/ Step(p) \/ Crash(p)
    \/ CreateForeign
    \/ Appear

Spec == Init /\ [][Next]_vars

(***************************************************************************)
(* What should hold.                                                        *)
(***************************************************************************)
Statuses == {"idle", "find", "create", "confirm", "update", "save", "exit0",
             "exit2", "dead"}

\* Types; a lookup stays within its pages, and an update has its check run.
TypeOK ==
    /\ checks \in Seq([by : Publishers \cup {Nobody, Earlier},
                       listed : BOOLEAN,
                       writers : SUBSET (Publishers \cup {Earlier})])
    /\ pc \in [Publishers -> Statuses]
    /\ attempt \in [Publishers -> 1 .. MaxAttempts]
    /\ scan \in [Publishers -> [page : 1 .. MaxPages, total : Nat, scanned : Nat]]
    /\ match \in [Publishers -> 0 .. Len(checks)]
    /\ receipt \in [Publishers -> {"none", "accepted", "failed"}]
    /\ ack \in [Publishers -> 0 .. Len(checks)]
    /\ stored \subseteq Publishers
    /\ known \in [Publishers -> Nat]
    /\ overlapped \in BOOLEAN /\ lagged \in BOOLEAN
    /\ \A p \in Publishers : pc[p] = "update" => match[p] # 0

\* Deliveries one after another leave one check run for the run ID, whatever
\* answers were lost and wherever a process died: a second one takes two
\* publications under way at once, or a list that lags behind a creation.
OneCheck ==
    Cardinality(Ours(DOMAIN checks)) > 1 => overlapped \/ lagged

\* Exit code 0 is the truth: the receipt is stored as accepted, and the check
\* run it acknowledges is one of this run ID that carried this delivery's body.
ExitIsOutcome ==
    \A p \in Publishers : pc[p] = "exit0" =>
        /\ p \in stored /\ receipt[p] = "accepted"
        /\ ack[p] \in Ours(DOMAIN checks)
        /\ p \in checks[ack[p]].writers

\* A delivery that starts when its check run is listed creates no other, even
\* as the list grows while it reads it page by page.
KnownCheckIsReused ==
    \A p \in Publishers :
        known[p] > 0 => \A i \in DOMAIN checks : checks[i].by # p

\* A delivery that starts when two check runs are listed for its run ID writes
\* to neither of them: it fails.
AmbiguousIsLeftAlone ==
    \A p \in Publishers :
        known[p] > 1 => \A i \in DOMAIN checks : p \notin checks[i].writers
=============================================================================
