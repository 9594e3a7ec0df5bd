------------------------------ MODULE Billing ------------------------------
(***************************************************************************)
(* The subscription row of one organization.                               *)
(*                                                                         *)
(* The payment provider reports events by webhooks and delivers each one   *)
(* until it is answered with a success, so a delivery may be repeated, may *)
(* overlap another one of the same event and may overtake earlier events.  *)
(* Requests of the organization's members let time take effect: a payment  *)
(* that stays failed makes the organization read-only and then suspended.  *)
(* Handlers and requests are transactions that read the row, compute, and  *)
(* write the columns they changed when they commit; nothing is locked in   *)
(* between.                                                                *)
(***************************************************************************)
EXTENDS Integers

CONSTANTS
    Events,        \* webhook ids
    Handlers,      \* webhook deliveries in progress at once
    Requests,      \* API requests in progress at once
    GraceDays,     \* from the first failed payment to read-only: 14
    SuspendDays,   \* from the first failed payment to suspended: 30
    LastDay,       \* bound of the clock
    MaxFaults      \* bound: database faults, answers the provider does not get

ASSUME ConstantsAssumption ==
    /\ GraceDays \in Nat /\ SuspendDays \in Nat /\ GraceDays <= SuspendDays
    /\ LastDay \in Nat /\ MaxFaults \in Nat

VARIABLES
    day,         \* the clock
    row,         \* the subscriptions row: status, first_payment_failed_at, grace_period_ends_at
    event,       \* what the provider reports under each webhook id
    acked,       \* events the provider got a success for
    recorded,    \* billing_webhook_deliveries
    hook,        \* the transaction of each delivery in progress
    req,         \* the transaction of each request in progress
    faults,
    effects,     \* history: commits of each event's effects
    mails,       \* history: receipts sent for each event
    dropped,     \* history: events whose handler raised
    failures,    \* history: days a failed payment was noted
    expired,     \* history: events by which the provider ended the subscription
    overtaken    \* history: a transaction wrote a row that changed after it read it

vars == <<day, row, event, acked, recorded, hook, req, faults,
          effects, mails, dropped, failures, expired, overtaken>>
history == <<effects, mails, dropped, failures, expired, overtaken>>

Never    == -1
Days     == 0..LastDay
Statuses == {"none", "active", "past_due", "read_only", "suspended", "cancelled"}
Row      == [status : Statuses, first : Days \cup {Never}, grace : Int]
NoRow    == [status |-> "none", first |-> Never, grace |-> Never]
Active   == [status |-> "active", first |-> Never, grace |-> Never]

Kinds == {"renewed", "paid", "failed", "cancelled", "expired"}
Idle  == [pc |-> "idle"]

Deliveries  == [pc : {"record", "dispatch"}, event : Events]
Writes      == [pc : {"commit"}, event : Events, snap : Row, to : Row]
Transitions == [pc : {"commit"}, snap : Row, to : Row]

TypeOK ==
    /\ day \in Days
    /\ row \in Row
    /\ event \in [Events -> Kinds \cup {"none"}]
    /\ acked \subseteq Events /\ recorded \subseteq Events /\ dropped \subseteq Events
    /\ hook \in [Handlers -> Deliveries \cup Writes \cup {Idle}]
    /\ req \in [Requests -> Transitions \cup {Idle}]
    /\ faults \in 0..MaxFaults
    /\ effects \in [Events -> Nat] /\ mails \in [Events -> Nat]
    /\ failures \subseteq Days /\ expired \subseteq Events
    /\ overtaken \in BOOLEAN

\* An organization that never subscribed, or one that did.
Init ==
    /\ day = 0
    /\ row \in {NoRow, Active}
    /\ event = [e \in Events |-> "none"]
    /\ acked = {} /\ recorded = {}
    /\ hook = [h \in Handlers |-> Idle]
    /\ req = [q \in Requests |-> Idle]
    /\ faults = 0
    /\ effects = [e \in Events |-> 0] /\ mails = [e \in Events |-> 0]
    /\ dropped = {} /\ failures = {} /\ expired = {} /\ overtaken = FALSE

-----------------------------------------------------------------------------
(* What a transaction makes of the row it read.                            *)

\* mark_subscription_payment_failed: the grace period runs from the first failure.
MarkGraceFromNow(s, d) ==          \* seeded defect: there is no grace
    LET f == IF s.first = Never THEN d ELSE s.first
    IN [status |-> IF s.status = "active" THEN "past_due" ELSE s.status, first |-> f, grace |-> d]

MarkFailed(s, d) ==
    LET f == IF s.first = Never THEN d ELSE s.first
    IN [status |-> IF s.status = "active" THEN "past_due" ELSE s.status,
        first |-> f, grace |-> f + GraceDays]

\* clear_billing_failure_flags
ClearKeepsFlags(s) ==              \* seeded defect: the flags stay
    [s EXCEPT !.status = IF @ \in {"past_due", "read_only"} THEN "active" ELSE @]

ClearFailure(s) ==
    [status |-> IF s.status \in {"past_due", "read_only"} THEN "active" ELSE s.status,
     first |-> Never, grace |-> Never]

\* dispatch_dodo_webhook_event: only upsert creates a row.
Dispatched(k, s, d) ==
    IF k # "renewed" /\ s = NoRow THEN s ELSE
    CASE k = "renewed" -> Active
      [] k = "paid" -> ClearFailure(s)
      [] k = "failed" -> MarkFailed(s, d)
      [] k = "cancelled" -> [s EXCEPT !.status = "cancelled"]
      [] k = "expired" -> [s EXCEPT !.status = "suspended"]
      [] OTHER -> s

LapsedMisspelt(s, d) ==            \* seeded defect: a status the guard does not know
    IF s.status = "past_due" /\ d >= s.grace THEN [s EXCEPT !.status = "grace_period"] ELSE s

\* refresh_subscription_automatic_transitions: both transitions may happen at once.
Lapsed(s, d) ==
    LET due == s.status = "past_due" /\ s.grace # Never /\ d >= s.grace
        now == IF due THEN "read_only" ELSE s.status
    IN [s EXCEPT !.status =
           IF now = "read_only" /\ s.first # Never /\ d >= s.first + SuspendDays
             THEN "suspended" ELSE now]

\* The flush writes the columns that changed, over what is there by then.
Flushed(snap, to) ==
    [c \in {"status", "first", "grace"} |-> IF to[c] = snap[c] THEN row[c] ELSE to[c]]

-----------------------------------------------------------------------------
(* process_dodopayments_webhook.                                           *)

Goto(h, s) == hook' = [hook EXCEPT ![h] = s]

\* The answer, a success or not, ends the delivery; the provider may miss it.
Answered(e) ==
    \/ acked' = acked \cup {e} /\ UNCHANGED faults
    \/ faults < MaxFaults /\ faults' = faults + 1 /\ UNCHANGED acked

Delivered(h, e) == hook[h] = Idle /\ event[e] # "none" /\ e \notin acked

Duplicate(h, e) ==
    /\ Delivered(h, e)
    /\ e \in recorded
    /\ Answered(e)
    /\ UNCHANGED <<day, row, event, recorded, hook, req, history>>

Receive(h, e) ==
    /\ Delivered(h, e)
    /\ e \notin recorded
    /\ Goto(h, [pc |-> "record", event |-> e])
    /\ UNCHANGED <<day, row, event, acked, recorded, req, faults, history>>

InsertingAtOnce(h) ==              \* seeded defect: the check is made without an insert
    hook[h].pc = "record"

\* The insert waits for another transaction that inserted the same webhook id.
Inserting(h) ==
    /\ hook[h].pc = "record"
    /\ \A i \in Handlers : hook[i].pc \in {"dispatch", "commit"} => hook[i].event # hook[h].event

RecordUnchecked(h) ==              \* seeded defect: webhook_id is not unique
    /\ hook[h].pc = "record"
    /\ Goto(h, [hook[h] EXCEPT !.pc = "dispatch"])
    /\ UNCHANGED <<day, row, event, acked, recorded, req, faults, history>>

Record(h) ==
    /\ Inserting(h)
    /\ hook[h].event \notin recorded
    /\ Goto(h, [hook[h] EXCEPT !.pc = "dispatch"])
    /\ UNCHANGED <<day, row, event, acked, recorded, req, faults, history>>

\* The unique index rejects it: the request fails and the provider delivers again.
RecordRejected(h) ==
    /\ Inserting(h)
    /\ hook[h].event \in recorded
    /\ Goto(h, Idle)
    /\ UNCHANGED <<day, row, event, acked, recorded, req, faults, history>>

\* The handler reads the row and changes its copy; a payment's receipt is sent
\* before the transaction commits.
Dispatch(h) ==
    LET e == hook[h].event IN
    /\ hook[h].pc = "dispatch"
    /\ Goto(h, [pc |-> "commit", event |-> e, snap |-> row, to |-> Dispatched(event[e], row, day)])
    /\ mails' = [mails EXCEPT ![e] = IF event[e] = "paid" THEN @ + 1 ELSE @]
    /\ UNCHANGED <<day, row, event, acked, recorded, req, faults,
                   effects, dropped, failures, expired, overtaken>>

\* An exception of the handler is answered with an error, but what the session
\* holds by then, the delivery record, is committed.
DispatchRaises(h) ==
    LET e == hook[h].event IN
    /\ hook[h].pc = "dispatch"
    /\ recorded' = recorded \cup {e}
    /\ dropped' = dropped \cup {e}
    /\ Goto(h, Idle)
    /\ UNCHANGED <<day, row, event, acked, req, faults, effects, mails, failures, expired, overtaken>>

Commit(h) ==
    LET e == hook[h].event
        t == hook[h]
    IN /\ t.pc = "commit"
       /\ ~(event[e] = "renewed" /\ t.snap = NoRow /\ row # NoRow)
       /\ row' = Flushed(t.snap, t.to)
       /\ recorded' = recorded \cup {e}
       /\ effects' = [effects EXCEPT ![e] = @ + 1]
       /\ failures' = IF event[e] = "failed" /\ t.to.first # Never
                        THEN failures \cup {t.to.first} ELSE failures
       /\ expired' = IF event[e] = "expired" THEN expired \cup {e} ELSE expired
       /\ overtaken' = (overtaken \/ row # t.snap)
       /\ Answered(e)
       /\ Goto(h, Idle)
       /\ UNCHANGED <<day, event, req, mails, dropped>>

\* Two first subscriptions: org_id is unique, the second transaction is rolled back.
CommitRejected(h) ==
    LET t == hook[h] IN
    /\ t.pc = "commit"
    /\ event[t.event] = "renewed" /\ t.snap = NoRow /\ row # NoRow
    /\ Goto(h, Idle)
    /\ UNCHANGED <<day, row, event, acked, recorded, req, faults, history>>

HandlerFaultHidden(h) ==           \* seeded defect: a fault is answered with a success
    /\ hook[h] # Idle
    /\ faults < MaxFaults
    /\ faults' = faults + 1
    /\ acked' = acked \cup {hook[h].event}
    /\ Goto(h, Idle)
    /\ UNCHANGED <<day, row, event, recorded, req, history>>

\* A fault of the database rolls everything back and is answered with an error.
HandlerFault(h) ==
    /\ hook[h] # Idle
    /\ faults < MaxFaults
    /\ faults' = faults + 1
    /\ Goto(h, Idle)
    /\ UNCHANGED <<day, row, event, acked, recorded, req, history>>

-----------------------------------------------------------------------------
(* API requests.                                                           *)

\* enforce_org_subscription_state: what a status lets through.
Admits(status, request) ==
    CASE status \in {"suspended", "cancelled"} -> request = "billing"
      [] status = "read_only" -> request \in {"read", "billing"}
      [] OTHER -> TRUE

\* A request that is refused rolls its transition back, an admitted one keeps it.
Refresh(q, request) ==
    LET to == Lapsed(row, day) IN
    /\ req[q] = Idle
    /\ to # row
    /\ Admits(to.status, request)
    /\ req' = [req EXCEPT ![q] = [pc |-> "commit", snap |-> row, to |-> to]]
    /\ UNCHANGED <<day, row, event, acked, recorded, hook, faults, history>>

RefreshCommit(q) ==
    /\ req[q].pc = "commit"
    /\ row' = Flushed(req[q].snap, req[q].to)
    /\ overtaken' = (overtaken \/ row # req[q].snap)
    /\ req' = [req EXCEPT ![q] = Idle]
    /\ UNCHANGED <<day, event, acked, recorded, hook, faults,
                   effects, mails, dropped, failures, expired>>

\* The request fails for a reason of its own.
RefreshAborts(q) ==
    /\ req[q].pc = "commit"
    /\ req' = [req EXCEPT ![q] = Idle]
    /\ UNCHANGED <<day, row, event, acked, recorded, hook, faults, history>>

-----------------------------------------------------------------------------
(* The provider and the clock.                                             *)

Report(e, k) ==
    /\ event[e] = "none"
    /\ event' = [event EXCEPT ![e] = k]
    /\ UNCHANGED <<day, row, acked, recorded, hook, req, faults, history>>

Tick ==
    /\ day < LastDay
    /\ day' = day + 1
    /\ UNCHANGED <<row, event, acked, recorded, hook, req, faults, history>>

Handle(h) ==
    Record(h) \/ RecordRejected(h) \/ Dispatch(h) \/ DispatchRaises(h) \/ Commit(h) \/ CommitRejected(h)

Deliver == \E h \in Handlers, e \in Events : Duplicate(h, e) \/ Receive(h, e)

Request(q) ==
    (\E k \in {"read", "write", "billing"} : Refresh(q, k)) \/ RefreshCommit(q) \/ RefreshAborts(q)

Next ==
    \/ Tick
    \/ \E e \in Events, k \in Kinds : Report(e, k)
    \/ Deliver
    \/ \E h \in Handlers : Handle(h) \/ HandlerFault(h)
    \/ \E q \in Requests : Request(q)

Spec == Init /\ [][Next]_vars

(* The provider repeats a delivery until it gets a success, and a handler  *)
(* that started goes on.                                                   *)
Fairness == WF_vars(Deliver) /\ \A h \in Handlers : WF_vars(Handle(h))

FairSpec == Spec /\ Fairness

-----------------------------------------------------------------------------
(* Properties.                                                             *)

\* Whatever is delivered twice, at once or after a lost answer, the effects of an
\* event are committed at most once, and not at all once its handler raised.
EffectsAtMostOnce ==
    \A e \in Events : effects[e] + (IF e \in dropped THEN 1 ELSE 0) <= 1

\* One receipt per payment, although it is sent before the commit: the delivery
\* record is inserted first and keeps every other delivery of the event waiting.
\* Only a fault after the receipt sends a second one.
ReceiptSentOnce ==
    faults = 0 => \A e \in Events : mails[e] <= 1

\* The status and the failure columns belong together: an active organization has
\* no failure pending, one that is past due or read-only has a first failure, with
\* the whole grace period, and is read-only only after that period.  Transactions
\* that overtake each other mix the columns of two states: the claim excepts them.
FlagsMatchStatus ==
    /\ (row.first = Never <=> row.grace = Never)
    /\ row.first # Never => row.grace = row.first + GraceDays
    /\ ~overtaken =>
        /\ row.status = "active" => row.first = Never
        /\ row.status \in {"past_due", "read_only"} => row.first # Never
        /\ row.status = "read_only" => row.first + GraceDays <= day

\* However transactions overtake each other, an organization loses access only if
\* a payment failed, and only the promised number of days after such a failure.
NeverRestrictedEarly ==
    /\ row.status = "past_due" => failures # {}
    /\ row.status = "read_only" => \E f \in failures : f + GraceDays <= day
    /\ row.status = "suspended" => expired # {} \/ \E f \in failures : f + SuspendDays <= day

\* Every event the provider reports takes effect in the end, unless its handler raised.
EventsTakeEffect ==
    \A e \in Events : event[e] # "none" ~> (effects[e] > 0 \/ e \in dropped)
=============================================================================
