--------------------------- MODULE BillingProofs ---------------------------
(***************************************************************************)
(* Proofs about Billing for any webhook ids, any number of deliveries and  *)
(* requests in progress at once, any grace periods and any bounds.         *)
(***************************************************************************)
EXTENDS Billing, TLAPS

-----------------------------------------------------------------------------
(* Type correctness.                                                       *)

\* What the transactions make of a row is a row.
LEMMA RowsAreRows ==
    ASSUME NEW s \in Row, NEW d \in Days, NEW k \in Kinds
    PROVE  Dispatched(k, s, d) \in Row /\ Lapsed(s, d) \in Row
<1> USE ConstantsAssumption
<1>1. Active \in Row /\ MarkFailed(s, d) \in Row /\ ClearFailure(s) \in Row
  BY DEF Active, MarkFailed, ClearFailure, Row, Statuses, Days, Never
<1>2. [s EXCEPT !.status = "cancelled"] \in Row /\ [s EXCEPT !.status = "suspended"] \in Row
  BY DEF Row, Statuses
<1>3. Dispatched(k, s, d) \in Row
  BY <1>1, <1>2 DEF Dispatched, Kinds
<1>4. Lapsed(s, d) \in Row
  BY DEF Lapsed, Row, Statuses
<1>5. QED
  BY <1>3, <1>4

\* The row after a flush, column by column.
LEMMA FlushedColumns ==
    ASSUME row \in Row, NEW snap \in Row, NEW to \in Row
    PROVE  /\ Flushed(snap, to) \in Row
           /\ Flushed(snap, to).status = (IF to.status = snap.status THEN row.status ELSE to.status)
           /\ Flushed(snap, to).first = (IF to.first = snap.first THEN row.first ELSE to.first)
           /\ Flushed(snap, to).grace = (IF to.grace = snap.grace THEN row.grace ELSE to.grace)
           /\ row = snap => Flushed(snap, to) = to
<1>1. Flushed(snap, to) = [status |-> IF to.status = snap.status THEN row.status ELSE to.status,
                           first |-> IF to.first = snap.first THEN row.first ELSE to.first,
                           grace |-> IF to.grace = snap.grace THEN row.grace ELSE to.grace]
  BY DEF Flushed
<1>2. QED
  BY <1>1 DEF Row

\* A transaction's record by its program counter.
LEMMA HookCases ==
    ASSUME TypeOK, NEW h \in Handlers
    PROVE  /\ hook[h] # Idle <=> hook[h].pc \in {"record", "dispatch", "commit"}
           /\ hook[h].pc \in {"record", "dispatch"} => hook[h] \in Deliveries
           /\ hook[h].pc = "commit" => hook[h] \in Writes
           /\ hook[h].pc \in {"record", "dispatch", "commit"} => hook[h].event \in Events
           /\ hook[h].pc = "commit" => hook[h].snap \in Row /\ hook[h].to \in Row
BY DEF TypeOK, Deliveries, Writes, Idle

LEMMA RequestCases ==
    ASSUME TypeOK, NEW q \in Requests, req[q].pc = "commit"
    PROVE  req[q] \in Transitions /\ req[q].snap \in Row /\ req[q].to \in Row
BY DEF TypeOK, Transitions, Idle

LEMMA TypeStep == TypeOK /\ [Next]_vars => TypeOK'
<1> SUFFICES ASSUME TypeOK, [Next]_vars PROVE TypeOK'
  OBVIOUS
<1> USE ConstantsAssumption
<1>1. CASE UNCHANGED vars
  BY <1>1 DEF vars, TypeOK
<1>2. CASE Tick
  BY <1>2 DEF Tick, TypeOK, history, Days, Row
<1>3. ASSUME NEW e \in Events, NEW k \in Kinds, Report(e, k) PROVE TypeOK'
  BY <1>3 DEF Report, TypeOK, history
<1>4. ASSUME NEW h \in Handlers, NEW e \in Events, Duplicate(h, e) \/ Receive(h, e) PROVE TypeOK'
  <2>1. CASE Duplicate(h, e)
    BY <2>1 DEF Duplicate, Answered, TypeOK, history
  <2>2. CASE Receive(h, e)
    BY <2>2 DEF Receive, Goto, Deliveries, TypeOK, history
  <2>3. QED
    BY <1>4, <2>1, <2>2
<1>5. ASSUME NEW h \in Handlers, Handle(h) \/ HandlerFault(h) PROVE TypeOK'
  <2>1. CASE Record(h)
    <3>1. hook[h] \in Deliveries
      BY <2>1, HookCases DEF Record, Inserting
    <3>2. [hook[h] EXCEPT !.pc = "dispatch"] \in Deliveries
      BY <3>1 DEF Deliveries
    <3>3. QED
      BY <2>1, <3>2 DEF Record, Goto, TypeOK, history
  <2>2. CASE RecordRejected(h)
    BY <2>2 DEF RecordRejected, Goto, TypeOK, history
  <2>3. CASE Dispatch(h)
    <3>1. hook[h].event \in Events
      BY <2>3, HookCases DEF Dispatch
    <3>2. row \in Row /\ day \in Days /\ event[hook[h].event] \in Kinds \cup {"none"}
      BY <3>1 DEF TypeOK
    <3>3. Dispatched(event[hook[h].event], row, day) \in Row
      BY <3>2, RowsAreRows DEF Dispatched
    <3>4. [pc |-> "commit", event |-> hook[h].event, snap |-> row,
           to |-> Dispatched(event[hook[h].event], row, day)] \in Writes
      BY <3>1, <3>2, <3>3 DEF Writes
    <3>5. mails' \in [Events -> Nat]
      BY <2>3, <3>1 DEF Dispatch, TypeOK
    <3>6. hook' \in [Handlers -> Deliveries \cup Writes \cup {Idle}]
      BY <2>3, <3>4 DEF Dispatch, Goto, TypeOK
    <3>7. QED
      BY <2>3, <3>5, <3>6 DEF Dispatch, TypeOK
  <2>4. CASE DispatchRaises(h)
    BY <2>4, HookCases DEF DispatchRaises, Goto, TypeOK
  <2>5. CASE Commit(h)
    <3>1. hook[h] \in Writes /\ hook[h].event \in Events /\ hook[h].snap \in Row /\ hook[h].to \in Row
      BY <2>5, HookCases DEF Commit
    <3>2. row' \in Row
      BY <2>5, <3>1, FlushedColumns DEF Commit, TypeOK
    <3>3. effects' \in [Events -> Nat] /\ hook' \in [Handlers -> Deliveries \cup Writes \cup {Idle}]
      BY <2>5, <3>1 DEF Commit, Goto, TypeOK
    <3>4. failures' \subseteq Days /\ expired' \subseteq Events
      BY <2>5, <3>1 DEF Commit, TypeOK, Row
    <3>5. acked' \subseteq Events /\ faults' \in 0..MaxFaults /\ recorded' \subseteq Events
      BY <2>5, <3>1 DEF Commit, Answered, TypeOK
    <3>6. QED
      BY <2>5, <3>2, <3>3, <3>4, <3>5 DEF Commit, TypeOK
  <2>6. CASE CommitRejected(h)
    BY <2>6 DEF CommitRejected, Goto, TypeOK, history
  <2>7. CASE HandlerFault(h)
    BY <2>7 DEF HandlerFault, Goto, TypeOK, history
  <2>8. QED
    BY <1>5, <2>1, <2>2, <2>3, <2>4, <2>5, <2>6, <2>7 DEF Handle
<1>6. ASSUME NEW q \in Requests, Request(q) PROVE TypeOK'
  <2>1. ASSUME NEW k \in {"read", "write", "billing"}, Refresh(q, k) PROVE TypeOK'
    <3>1. Lapsed(row, day) \in Row /\ row \in Row
      <4>1. "paid" \in Kinds /\ row \in Row /\ day \in Days
        BY DEF TypeOK, Kinds
      <4>2. QED
        BY <4>1, RowsAreRows
    <3>2. [pc |-> "commit", snap |-> row, to |-> Lapsed(row, day)] \in Transitions
      BY <3>1 DEF Transitions
    <3>3. QED
      BY <2>1, <3>2 DEF Refresh, TypeOK, history
  <2>2. CASE RefreshCommit(q)
    <3>1. row' \in Row
      BY <2>2, RequestCases, FlushedColumns DEF RefreshCommit, TypeOK
    <3>2. QED
      BY <2>2, <3>1 DEF RefreshCommit, TypeOK
  <2>3. CASE RefreshAborts(q)
    BY <2>3 DEF RefreshAborts, TypeOK, history
  <2>4. QED
    BY <1>6, <2>1, <2>2, <2>3 DEF Request
<1>7. QED
  BY <1>1, <1>2, <1>3, <1>4, <1>5, <1>6 DEF Next, Deliver

LEMMA TypeInit == Init => TypeOK
<1> SUFFICES ASSUME Init PROVE TypeOK
  OBVIOUS
<1>1. 0 \in Days /\ 0 \in 0..MaxFaults
  BY ConstantsAssumption DEF Days
<1>2. row \in Row
  BY DEF Init, Row, Statuses, NoRow, Active, Never
<1>3. QED
  BY <1>1, <1>2 DEF Init, TypeOK

\* The day, the row, the deliveries, the transactions and the histories stay in
\* their types, whatever is delivered when.
THEOREM TypeCorrect == Spec => []TypeOK
BY TypeInit, TypeStep, PTL DEF Spec
-----------------------------------------------------------------------------
(* Effects at most once.                                                   *)

\* The transactions that hold an uncommitted delivery record.
Inserted(h) == hook[h].pc \in {"dispatch", "commit"}

\* Only a committed delivery record goes with committed effects or a raised
\* handler; an uncommitted one belongs to one transaction and to an event that
\* is not recorded yet.
OnceInv ==
    /\ \A e \in Events \ recorded : effects[e] = 0 /\ e \notin dropped
    /\ EffectsAtMostOnce
    /\ \A h \in Handlers : Inserted(h) => hook[h].event \notin recorded
    /\ \A h, i \in Handlers : Inserted(h) /\ Inserted(i) /\ h # i => hook[h].event # hook[i].event

LEMMA OnceStep == TypeOK /\ OnceInv /\ [Next]_vars => OnceInv'
<1> SUFFICES ASSUME TypeOK, OnceInv, [Next]_vars PROVE OnceInv'
  OBVIOUS
<1>1. ASSUME UNCHANGED <<recorded, effects, dropped, hook>> PROVE OnceInv'
  BY <1>1 DEF OnceInv, EffectsAtMostOnce, Inserted
<1>2. CASE UNCHANGED vars
  BY <1>1, <1>2 DEF vars
<1>3. CASE Tick
  BY <1>1, <1>3 DEF Tick, history
<1>4. ASSUME NEW e \in Events, NEW k \in Kinds, Report(e, k) PROVE OnceInv'
  BY <1>1, <1>4 DEF Report, history
<1>5. ASSUME NEW q \in Requests, Request(q) PROVE OnceInv'
  BY <1>1, <1>5 DEF Request, Refresh, RefreshCommit, RefreshAborts, history
<1>6. ASSUME NEW h \in Handlers, UNCHANGED <<recorded, effects, dropped>>,
             hook' = [hook EXCEPT ![h] = Idle] \/ (\E e \in Events : Goto(h, [pc |-> "record", event |-> e]))
      PROVE  OnceInv'
  <2>1. \A i \in Handlers : Inserted(i)' => Inserted(i) /\ hook'[i] = hook[i]
    BY <1>6 DEF Inserted, Goto, Idle, TypeOK
  <2>2. QED
    BY <1>6, <2>1 DEF OnceInv, EffectsAtMostOnce, Inserted
<1>7. ASSUME NEW h \in Handlers, NEW e \in Events, Duplicate(h, e) \/ Receive(h, e) PROVE OnceInv'
  BY <1>1, <1>6, <1>7 DEF Duplicate, Receive, history
<1>8. ASSUME NEW h \in Handlers, Handle(h) \/ HandlerFault(h) PROVE OnceInv'
  <2>1. CASE Record(h)
    <3>1. hook[h] \in Deliveries /\ hook[h].pc = "record"
      BY <2>1, HookCases DEF Record, Inserting
    <3>2. \A i \in Handlers : i # h => hook'[i] = hook[i]
      BY <2>1 DEF Record, Goto, TypeOK
    <3>3. hook'[h].event = hook[h].event
      BY <2>1, <3>1 DEF Record, Goto, TypeOK, Deliveries
    <3>4. \A i \in Handlers : i # h /\ Inserted(i) => hook[i].event # hook[h].event
      BY <2>1 DEF Record, Inserting, Inserted
    <3>5. QED
      BY <2>1, <3>2, <3>3, <3>4 DEF OnceInv, EffectsAtMostOnce, Inserted, Record, history
  <2>2. CASE RecordRejected(h)
    BY <1>6, <2>2 DEF RecordRejected, Goto, history
  <2>3. CASE Dispatch(h)
    <3>1. \A i \in Handlers : (Inserted(i)' <=> Inserted(i)) /\ (Inserted(i) => hook'[i].event = hook[i].event)
      BY <2>3 DEF Dispatch, Goto, Inserted, TypeOK
    <3>2. QED
      BY <2>3, <3>1 DEF Dispatch, OnceInv, EffectsAtMostOnce
  <2>4. ASSUME DispatchRaises(h) \/ Commit(h) PROVE OnceInv'
    <3> DEFINE e == hook[h].event
    <3>1. e \in Events /\ Inserted(h) /\ e \notin recorded
      BY <2>4, HookCases DEF DispatchRaises, Commit, Inserted, OnceInv
    <3>2. recorded' = recorded \cup {e} /\ hook' = [hook EXCEPT ![h] = Idle]
      BY <2>4 DEF DispatchRaises, Commit, Goto
    <3>3. \A i \in Handlers : Inserted(i)' => i # h /\ Inserted(i) /\ hook'[i] = hook[i]
      BY <3>2 DEF Inserted, Idle, TypeOK
    <3>4. effects[e] = 0 /\ e \notin dropped
      BY <3>1 DEF OnceInv
    <3>5. \/ effects' = [effects EXCEPT ![e] = @ + 1] /\ dropped' = dropped
          \/ effects' = effects /\ dropped' = dropped \cup {e}
      BY <2>4 DEF DispatchRaises, Commit
    <3>6. EffectsAtMostOnce'
      BY <3>1, <3>4, <3>5 DEF EffectsAtMostOnce, OnceInv, TypeOK
    <3>7. \A f \in Events \ recorded' : effects'[f] = 0 /\ f \notin dropped'
      BY <3>1, <3>2, <3>5 DEF OnceInv, TypeOK
    <3>8. QED
      BY <3>1, <3>2, <3>3, <3>6, <3>7 DEF OnceInv, Inserted
  <2>5. CASE CommitRejected(h)
    BY <1>6, <2>5 DEF CommitRejected, Goto, history
  <2>6. CASE HandlerFault(h)
    BY <1>6, <2>6 DEF HandlerFault, Goto, history
  <2>7. QED
    BY <1>8, <2>1, <2>2, <2>3, <2>4, <2>5, <2>6 DEF Handle
<1>9. QED
  BY <1>2, <1>3, <1>4, <1>5, <1>7, <1>8 DEF Next, Deliver

\* The effects of an event are committed at most once, however its deliveries
\* overlap, repeat and fail.
THEOREM EffectsOnce == Spec => []EffectsAtMostOnce
<1>1. Init => TypeOK /\ OnceInv
  BY TypeInit DEF Init, OnceInv, EffectsAtMostOnce, Inserted, Idle
<1>2. TypeOK /\ OnceInv /\ [Next]_vars => TypeOK' /\ OnceInv'
  BY TypeStep, OnceStep
<1>3. OnceInv => EffectsAtMostOnce
  BY DEF OnceInv
<1>4. QED
  BY <1>1, <1>2, <1>3, PTL DEF Spec
-----------------------------------------------------------------------------
(* One receipt per payment.                                                *)

\* Without faults a receipt that was sent belongs to a payment whose transaction
\* commits or has committed.
MailInv ==
    faults = 0 =>
        \A e \in Events :
            /\ mails[e] <= 1
            /\ mails[e] # 0 =>
                 /\ event[e] = "paid"
                 /\ e \in recorded \/ \E h \in Handlers : hook[h].pc = "commit" /\ hook[h].event = e

\* Faults are never forgotten.
LEMMA FaultsGrow == TypeOK /\ [Next]_vars => faults' \in Nat /\ faults <= faults'
<1> SUFFICES ASSUME TypeOK, [Next]_vars PROVE faults' \in Nat /\ faults <= faults'
  OBVIOUS
<1>1. faults \in Nat
  BY ConstantsAssumption DEF TypeOK
<1>2. ASSUME NEW e, Answered(e) PROVE faults' \in Nat /\ faults <= faults'
  BY <1>1, <1>2 DEF Answered
<1>3. CASE UNCHANGED faults
  BY <1>1, <1>3
<1>4. ASSUME NEW h \in Handlers, Handle(h) \/ HandlerFault(h) PROVE faults' \in Nat /\ faults <= faults'
  BY <1>1, <1>2, <1>4 DEF Handle, Record, RecordRejected, Dispatch, DispatchRaises, Commit,
     CommitRejected, HandlerFault
<1>5. ASSUME NEW h \in Handlers, NEW e \in Events, Duplicate(h, e) \/ Receive(h, e)
      PROVE  faults' \in Nat /\ faults <= faults'
  BY <1>1, <1>2, <1>5 DEF Duplicate, Receive
<1>6. ASSUME NEW q \in Requests, Request(q) PROVE faults' \in Nat /\ faults <= faults'
  BY <1>3, <1>6 DEF Request, Refresh, RefreshCommit, RefreshAborts
<1>7. QED
  BY <1>3, <1>4, <1>5, <1>6 DEF Next, vars, Tick, Report, Deliver

LEMMA MailStep == TypeOK /\ OnceInv /\ MailInv /\ [Next]_vars => MailInv'
<1> SUFFICES ASSUME TypeOK, OnceInv, MailInv, [Next]_vars, faults' = 0 PROVE MailInv'
  BY DEF MailInv
<1>1. faults = 0 /\ faults' = faults
  BY FaultsGrow DEF TypeOK
<1>2. ASSUME UNCHANGED <<recorded, mails, event, hook>> PROVE MailInv'
  BY <1>1, <1>2 DEF MailInv
<1>3. CASE UNCHANGED vars
  BY <1>2, <1>3 DEF vars
<1>4. CASE Tick
  BY <1>2, <1>4 DEF Tick, history
<1>5. ASSUME NEW e \in Events, NEW k \in Kinds, Report(e, k) PROVE MailInv'
  BY <1>1, <1>5 DEF Report, history, MailInv, TypeOK
<1>6. ASSUME NEW q \in Requests, Request(q) PROVE MailInv'
  BY <1>2, <1>6 DEF Request, Refresh, RefreshCommit, RefreshAborts, history
<1>7. ASSUME NEW h \in Handlers, hook[h].pc # "commit", UNCHANGED <<mails, event>>,
             recorded \subseteq recorded', NEW s, Goto(h, s)
      PROVE  MailInv'
  <2>1. \A i \in Handlers : hook[i].pc = "commit" => hook'[i] = hook[i]
    BY <1>7 DEF Goto, TypeOK
  <2>2. QED
    BY <1>1, <1>7, <2>1 DEF MailInv
<1>8. ASSUME NEW h \in Handlers, NEW e \in Events, Duplicate(h, e) \/ Receive(h, e) PROVE MailInv'
  BY <1>2, <1>7, <1>8 DEF Duplicate, Receive, Delivered, Idle, history
<1>9. ASSUME NEW h \in Handlers, Handle(h) \/ HandlerFault(h) PROVE MailInv'
  <2>1. CASE Record(h)
    BY <1>7, <2>1 DEF Record, Inserting, history
  <2>2. CASE RecordRejected(h)
    BY <1>7, <2>2 DEF RecordRejected, Inserting, history
  <2>3. CASE Dispatch(h)
    <3> DEFINE e == hook[h].event
    <3>1. e \in Events /\ hook[h].pc = "dispatch" /\ e \notin recorded
      BY <2>3, HookCases DEF Dispatch, OnceInv, Inserted
    <3>2. \A i \in Handlers : hook[i].pc = "commit" => hook[i].event # e /\ hook'[i] = hook[i]
      BY <2>3, <3>1 DEF Dispatch, Goto, OnceInv, Inserted, TypeOK
    <3>3. mails[e] = 0
      BY <1>1, <3>1, <3>2 DEF MailInv, TypeOK
    <3>4. hook'[h].pc = "commit" /\ hook'[h].event = e
      BY <2>3 DEF Dispatch, Goto, TypeOK
    <3>5. mails' = [mails EXCEPT ![e] = IF event[e] = "paid" THEN @ + 1 ELSE @]
          /\ UNCHANGED <<event, recorded>>
      BY <2>3 DEF Dispatch
    <3>6. ASSUME NEW f \in Events
          PROVE  /\ mails'[f] <= 1
                 /\ mails'[f] # 0 =>
                      /\ event'[f] = "paid"
                      /\ f \in recorded' \/ \E i \in Handlers : hook'[i].pc = "commit" /\ hook'[i].event = f
      <4>1. CASE f = e
        BY <3>1, <3>3, <3>4, <3>5, <4>1 DEF TypeOK
      <4>2. CASE f # e
        <5>1. mails'[f] = mails[f]
          BY <3>5, <4>2 DEF TypeOK
        <5>2. QED
          BY <1>1, <3>2, <3>5, <5>1 DEF MailInv
      <4>3. QED
        BY <4>1, <4>2
    <3>7. QED
      BY <3>6 DEF MailInv
  <2>4. CASE DispatchRaises(h)
    BY <1>7, <2>4 DEF DispatchRaises
  <2>5. CASE Commit(h)
    <3>1. \A i \in Handlers : hook[i].pc = "commit" => hook[i].event \in recorded' \/ hook'[i] = hook[i]
      BY <2>5 DEF Commit, Goto, TypeOK
    <3>2. QED
      BY <1>1, <2>5, <3>1 DEF Commit, MailInv
  <2>6. CASE CommitRejected(h)
    <3>1. hook[h].event \in Events /\ event[hook[h].event] # "paid"
      BY <2>6, HookCases DEF CommitRejected
    <3>2. \A i \in Handlers : i # h => hook'[i] = hook[i]
      BY <2>6 DEF CommitRejected, Goto, TypeOK
    <3>3. UNCHANGED <<mails, event, recorded>>
      BY <2>6 DEF CommitRejected, history
    <3>4. QED
      BY <1>1, <3>1, <3>2, <3>3 DEF MailInv
  <2>7. CASE HandlerFault(h)
    BY <1>1, <2>7 DEF HandlerFault, TypeOK
  <2>8. QED
    BY <1>9, <2>1, <2>2, <2>3, <2>4, <2>5, <2>6, <2>7 DEF Handle
<1>10. QED
  BY <1>3, <1>4, <1>5, <1>6, <1>8, <1>9 DEF Next, Deliver

\* A payment is acknowledged to the owner by one receipt, unless a fault rolled
\* its transaction back after the receipt was sent.
THEOREM OneReceipt == Spec => []ReceiptSentOnce
<1>1. Init => TypeOK /\ OnceInv /\ MailInv
  BY TypeInit DEF Init, OnceInv, EffectsAtMostOnce, Inserted, Idle, MailInv
<1>2. TypeOK /\ OnceInv /\ MailInv /\ [Next]_vars => TypeOK' /\ OnceInv' /\ MailInv'
  BY TypeStep, OnceStep, MailStep
<1>3. MailInv => ReceiptSentOnce
  BY DEF MailInv, ReceiptSentOnce
<1>4. QED
  BY <1>1, <1>2, <1>3, PTL DEF Spec
-----------------------------------------------------------------------------
(* Status and failure columns.                                             *)

\* The two failure columns of a row, and its status and its first failure.
Paired(s) ==
    /\ s.first = Never <=> s.grace = Never
    /\ s.first # Never => s.grace = s.first + GraceDays

Matched(s, d) ==
    /\ s.status = "active" => s.first = Never
    /\ s.status \in {"past_due", "read_only"} => s.first # Never
    /\ s.status = "read_only" => s.first + GraceDays <= d

\* A transaction read a row with paired columns and writes one; what it writes
\* matches as long as none has been overtaken.
Consistent(t) ==
    /\ Paired(t.snap) /\ Paired(t.to)
    /\ ~overtaken => Matched(t.to, day)

FlagsInv ==
    /\ Paired(row)
    /\ ~overtaken => Matched(row, day)
    /\ \A h \in Handlers : hook[h].pc = "commit" => Consistent(hook[h])
    /\ \A q \in Requests : req[q].pc = "commit" => Consistent(req[q])

\* Each column decides for itself what is written, but both failure columns
\* change or none does.
LEMMA PairedFlush ==
    ASSUME row \in Row, NEW snap \in Row, NEW to \in Row, Paired(row), Paired(snap), Paired(to)
    PROVE  Paired(Flushed(snap, to))
<1>1. Flushed(snap, to).first = (IF to.first = snap.first THEN row.first ELSE to.first)
  BY FlushedColumns
<1>2. Flushed(snap, to).grace = (IF to.grace = snap.grace THEN row.grace ELSE to.grace)
  BY FlushedColumns
<1>3. to.first = snap.first <=> to.grace = snap.grace
  BY ConstantsAssumption DEF Paired, Row, Days, Never
<1>4. QED
  BY <1>1, <1>2, <1>3 DEF Paired

\* Handlers and time keep a row's columns together.
LEMMA RowsMatch ==
    ASSUME NEW s \in Row, NEW d \in Days, NEW k \in Kinds \cup {"none"}, Paired(s)
    PROVE  /\ Paired(Dispatched(k, s, d)) /\ Paired(Lapsed(s, d))
           /\ Matched(s, d) => Matched(Dispatched(k, s, d), d) /\ Matched(Lapsed(s, d), d)
<1> USE ConstantsAssumption DEF Row, Days, Never, Paired, Matched
<1>1. Paired(Active) /\ Matched(Active, d)
  BY DEF Active
<1>2. Paired(ClearFailure(s)) /\ (Matched(s, d) => Matched(ClearFailure(s), d))
  BY DEF ClearFailure
<1>3. Paired(MarkFailed(s, d)) /\ (Matched(s, d) => Matched(MarkFailed(s, d), d))
  BY DEF MarkFailed
<1>4. ASSUME NEW c \in {"cancelled", "suspended"}
      PROVE  Paired([s EXCEPT !.status = c]) /\ Matched([s EXCEPT !.status = c], d)
  OBVIOUS
<1>5. Paired(Lapsed(s, d)) /\ (Matched(s, d) => Matched(Lapsed(s, d), d))
  BY DEF Lapsed
<1>6. Paired(Dispatched(k, s, d)) /\ (Matched(s, d) => Matched(Dispatched(k, s, d), d))
  BY <1>1, <1>2, <1>3, <1>4 DEF Dispatched
<1>7. QED
  BY <1>5, <1>6

LEMMA FlagsStep == TypeOK /\ FlagsInv /\ [Next]_vars => FlagsInv'
<1> SUFFICES ASSUME TypeOK, FlagsInv, [Next]_vars PROVE FlagsInv'
  OBVIOUS
<1>1. row \in Row /\ day \in Days
  BY DEF TypeOK
<1>2. ASSUME UNCHANGED <<row, day, overtaken>>,
             \A h \in Handlers : hook'[h].pc = "commit" => hook'[h] = hook[h] \/ Consistent(hook'[h]),
             \A q \in Requests : req'[q].pc = "commit" => req'[q] = req[q] \/ Consistent(req'[q])
      PROVE  FlagsInv'
  BY <1>2 DEF FlagsInv, Consistent
<1>3. CASE UNCHANGED vars
  BY <1>2, <1>3 DEF vars
<1>4. CASE Tick
  <2>1. \A s : s \in Row /\ Matched(s, day) => Matched(s, day')
    BY <1>1, <1>4, ConstantsAssumption DEF Tick, Matched, Row, Days, Never
  <2>2. \A h \in Handlers : hook[h].pc = "commit" => hook[h].to \in Row
    BY HookCases
  <2>3. \A q \in Requests : req[q].pc = "commit" => req[q].to \in Row
    BY RequestCases
  <2>4. UNCHANGED <<row, hook, req, overtaken>>
    BY <1>4 DEF Tick, history
  <2>5. QED
    BY <1>1, <2>1, <2>2, <2>3, <2>4 DEF FlagsInv, Consistent
<1>5. ASSUME NEW e \in Events, NEW k \in Kinds, Report(e, k) PROVE FlagsInv'
  BY <1>2, <1>5 DEF Report, history
<1>6. ASSUME NEW h \in Handlers, NEW s, s.pc # "commit" \/ Consistent(s), Goto(h, s),
             UNCHANGED <<row, day, overtaken, req>>
      PROVE  FlagsInv'
  <2>1. \A i \in Handlers : hook'[i] = hook[i] \/ hook'[i] = s
    BY <1>6 DEF Goto, TypeOK
  <2>2. QED
    BY <1>2, <1>6, <2>1
<1>7. ASSUME NEW t, Consistent(t), t.snap \in Row, t.to \in Row, row' = Flushed(t.snap, t.to),
             overtaken' = (overtaken \/ row # t.snap), day' = day,
             \A h \in Handlers : hook'[h].pc = "commit" => hook'[h] = hook[h],
             \A q \in Requests : req'[q].pc = "commit" => req'[q] = req[q]
      PROVE  FlagsInv'
  <2>1. Paired(row')
    BY <1>1, <1>7, PairedFlush DEF FlagsInv, Consistent
  <2>2. ~overtaken' => row' = t.to /\ ~overtaken
    BY <1>1, <1>7, FlushedColumns
  <2>3. ~overtaken' => Matched(row', day')
    BY <1>7, <2>2 DEF Consistent
  <2>4. ASSUME NEW u, Consistent(u) PROVE Consistent(u)'
    BY <1>7, <2>2, <2>4 DEF Consistent
  <2>5. QED
    BY <1>7, <2>1, <2>3, <2>4 DEF FlagsInv, Consistent
<1>8. ASSUME NEW h \in Handlers, NEW e \in Events, Duplicate(h, e) \/ Receive(h, e) PROVE FlagsInv'
  BY <1>2, <1>6, <1>8 DEF Duplicate, Receive, history
<1>9. ASSUME NEW h \in Handlers, Handle(h) \/ HandlerFault(h) PROVE FlagsInv'
  <2>1. CASE Record(h)
    <3>1. [hook[h] EXCEPT !.pc = "dispatch"].pc # "commit"
      BY <2>1, HookCases DEF Record, Inserting, Deliveries
    <3>2. QED
      BY <1>6, <2>1, <3>1 DEF Record, history
  <2>2. CASE RecordRejected(h) \/ CommitRejected(h) \/ HandlerFault(h) \/ DispatchRaises(h)
    BY <1>6, <2>2 DEF RecordRejected, CommitRejected, HandlerFault, DispatchRaises, Idle, history
  <2>3. CASE Dispatch(h)
    <3> DEFINE e == hook[h].event
               s == [pc |-> "commit", event |-> e, snap |-> row, to |-> Dispatched(event[e], row, day)]
    <3>1. e \in Events /\ event[e] \in Kinds \cup {"none"}
      BY <2>3, HookCases DEF Dispatch, TypeOK
    <3>2. Consistent(s)
      BY <1>1, <3>1, RowsMatch DEF FlagsInv, Consistent
    <3>3. Goto(h, s) /\ UNCHANGED <<row, day, overtaken, req>>
      BY <2>3 DEF Dispatch
    <3> HIDE DEF s
    <3>4. QED
      BY <1>6, <3>2, <3>3
  <2>4. CASE Commit(h)
    <3>1. Consistent(hook[h]) /\ hook[h].snap \in Row /\ hook[h].to \in Row
      BY <2>4, HookCases DEF Commit, FlagsInv
    <3>2. row' = Flushed(hook[h].snap, hook[h].to) /\ day' = day
          /\ overtaken' = (overtaken \/ row # hook[h].snap) /\ req' = req
      BY <2>4 DEF Commit
    <3>3. \A i \in Handlers : hook'[i].pc = "commit" => hook'[i] = hook[i]
      BY <2>4 DEF Commit, Goto, Idle, TypeOK
    <3>4. QED
      BY <1>7, <3>1, <3>2, <3>3
  <2>5. QED
    BY <1>9, <2>1, <2>2, <2>3, <2>4 DEF Handle
<1>10. ASSUME NEW q \in Requests, Request(q) PROVE FlagsInv'
  <2>1. ASSUME NEW k \in {"read", "write", "billing"}, Refresh(q, k) PROVE FlagsInv'
    <3> DEFINE s == [pc |-> "commit", snap |-> row, to |-> Lapsed(row, day)]
    <3>1. Consistent(s)
      BY <1>1, RowsMatch DEF FlagsInv, Consistent
    <3>2. req' = [req EXCEPT ![q] = s] /\ UNCHANGED <<row, day, overtaken, hook>>
      BY <2>1 DEF Refresh, history
    <3> HIDE DEF s
    <3>3. \A p \in Requests : req'[p] = req[p] \/ req'[p] = s
      BY <3>2 DEF TypeOK
    <3>4. QED
      BY <1>2, <3>1, <3>2, <3>3
  <2>2. CASE RefreshCommit(q)
    <3>1. Consistent(req[q]) /\ req[q].snap \in Row /\ req[q].to \in Row
      BY <2>2, RequestCases DEF RefreshCommit, FlagsInv
    <3>2. row' = Flushed(req[q].snap, req[q].to) /\ day' = day
          /\ overtaken' = (overtaken \/ row # req[q].snap) /\ hook' = hook
      BY <2>2 DEF RefreshCommit
    <3>3. \A p \in Requests : req'[p].pc = "commit" => req'[p] = req[p]
      BY <2>2 DEF RefreshCommit, Idle, TypeOK
    <3>4. QED
      BY <1>7, <3>1, <3>2, <3>3
  <2>3. CASE RefreshAborts(q)
    <3>1. \A p \in Requests : req'[p].pc = "commit" => req'[p] = req[p]
      BY <2>3 DEF RefreshAborts, Idle, TypeOK
    <3>2. QED
      BY <1>2, <2>3, <3>1 DEF RefreshAborts, history
  <2>4. QED
    BY <1>10, <2>1, <2>2, <2>3 DEF Request
<1>11. QED
  BY <1>3, <1>4, <1>5, <1>8, <1>9, <1>10 DEF Next, Deliver

\* In every order of webhooks, requests and days the failure columns belong
\* together, and the status belongs to them unless transactions overtook each other.
THEOREM FlagsAgree == Spec => []FlagsMatchStatus
<1>1. Init => TypeOK /\ FlagsInv
  <2> SUFFICES ASSUME Init PROVE TypeOK /\ FlagsInv
    OBVIOUS
  <2>1. Paired(row) /\ Matched(row, day)
    BY DEF Init, NoRow, Active, Paired, Matched, Never
  <2>2. QED
    BY <2>1, TypeInit DEF Init, FlagsInv, Idle
<1>2. TypeOK /\ FlagsInv /\ [Next]_vars => TypeOK' /\ FlagsInv'
  BY TypeStep, FlagsStep
<1>3. FlagsInv => FlagsMatchStatus
  BY DEF FlagsInv, FlagsMatchStatus, Paired, Matched
<1>4. QED
  BY <1>1, <1>2, <1>3, PTL DEF Spec
-----------------------------------------------------------------------------
(* No restriction before its time.                                         *)

\* The failures fs and the events x that ended the subscription justify a row on day d.
Due(s, fs, x, d) ==
    /\ s.first # Never => s.first \in fs
    /\ s.status = "past_due" => fs # {}
    /\ s.status = "read_only" => \E f \in fs : f + GraceDays <= d
    /\ s.status = "suspended" => x # {} \/ \E f \in fs : f + SuspendDays <= d

\* What is known once a transaction commits.
FailuresAfter(t) ==
    IF event[t.event] = "failed" /\ t.to.first # Never THEN failures \cup {t.to.first} ELSE failures
ExpiredAfter(t) == IF event[t.event] = "expired" THEN expired \cup {t.event} ELSE expired

DueInv ==
    /\ Due(row, failures, expired, day)
    /\ \A h \in Handlers : hook[h].pc = "commit" =>
          Due(hook[h].to, FailuresAfter(hook[h]), ExpiredAfter(hook[h]), day)
    /\ \A q \in Requests : req[q].pc = "commit" => Due(req[q].to, failures, expired, day)

\* What justifies a row justifies it later, with more failures too.
LEMMA DueLater ==
    ASSUME NEW s, NEW fs, NEW gs, NEW x, NEW y, NEW d \in Int, NEW e \in Int,
           gs \subseteq Days, fs \subseteq gs, x \subseteq y, d <= e, Due(s, fs, x, d)
    PROVE  Due(s, gs, y, e)
<1>1. \A f \in fs : f \in Int /\ f \in gs
  BY DEF Days
<1>2. \A f \in fs : /\ f + GraceDays <= d => f + GraceDays <= e
                    /\ f + SuspendDays <= d => f + SuspendDays <= e
  BY <1>1, ConstantsAssumption
<1>3. QED
  BY <1>1, <1>2 DEF Due

\* Columns of two justified rows make a justified row.
LEMMA DueFlush ==
    ASSUME row \in Row, NEW snap \in Row, NEW to \in Row, NEW fs, NEW x, NEW d,
           Due(row, fs, x, d), Due(to, fs, x, d)
    PROVE  Due(Flushed(snap, to), fs, x, d)
<1>1. Flushed(snap, to).status \in {row.status, to.status}
  BY FlushedColumns
<1>2. Flushed(snap, to).first \in {row.first, to.first}
  BY FlushedColumns
<1>3. QED
  BY <1>1, <1>2 DEF Due

\* Handlers justify what they write by the failure or the end they report, time by
\* the failure it counts from.
LEMMA RowsAreDue ==
    ASSUME NEW s \in Row, NEW d \in Days, NEW k \in Kinds \cup {"none"}, NEW fs, NEW x, NEW e,
           fs \subseteq Days, Paired(s), Due(s, fs, x, d)
    PROVE  /\ Due(Lapsed(s, d), fs, x, d)
           /\ k \notin {"failed", "expired"} => Due(Dispatched(k, s, d), fs, x, d)
           /\ k = "expired" => Due(Dispatched(k, s, d), fs, x \cup {e}, d)
           /\ k = "failed" /\ Dispatched(k, s, d).first = Never => Due(Dispatched(k, s, d), fs, x, d)
           /\ k = "failed" /\ Dispatched(k, s, d).first # Never =>
                Due(Dispatched(k, s, d), fs \cup {Dispatched(k, s, d).first}, x, d)
<1> USE ConstantsAssumption
<1>1. Due(Lapsed(s, d), fs, x, d)
  BY DEF Lapsed, Due, Paired, Row, Days, Never
<1>2. Due(Active, fs, x, d) /\ Due(ClearFailure(s), fs, x, d)
  BY DEF Due, Active, ClearFailure, Row
<1>3. Due([s EXCEPT !.status = "cancelled"], fs, x, d)
  BY DEF Due, Row
<1>4. Due([s EXCEPT !.status = "suspended"], fs, x \cup {e}, d) /\ Due(s, fs, x \cup {e}, d)
  BY DEF Due, Row
<1>5. MarkFailed(s, d).first # Never /\ Due(MarkFailed(s, d), fs \cup {MarkFailed(s, d).first}, x, d)
  BY DEF MarkFailed, Due, Row, Days, Never
<1>6. CASE k = "failed"
  <2>1. Dispatched(k, s, d) = MarkFailed(s, d) \/ (Dispatched(k, s, d) = s /\ s = NoRow)
    BY <1>6 DEF Dispatched
  <2>2. s = NoRow => s.first = Never
    BY DEF NoRow
  <2>3. QED
    BY <1>1, <1>5, <1>6, <2>1, <2>2
<1>7. CASE k = "expired"
  <2>1. Dispatched(k, s, d) \in {s, [s EXCEPT !.status = "suspended"]}
    BY <1>7 DEF Dispatched
  <2>2. QED
    BY <1>1, <1>4, <1>7, <2>1
<1>8. CASE k \notin {"failed", "expired"}
  <2>1. Dispatched(k, s, d) \in {Active, ClearFailure(s), [s EXCEPT !.status = "cancelled"], s}
    BY <1>8 DEF Dispatched, Kinds
  <2>2. QED
    BY <1>1, <1>2, <1>3, <1>8, <2>1
<1>9. QED
  BY <1>6, <1>7, <1>8

LEMMA DueStep == TypeOK /\ FlagsInv /\ DueInv /\ [Next]_vars => DueInv'
<1> SUFFICES ASSUME TypeOK, FlagsInv, DueInv, [Next]_vars PROVE DueInv'
  OBVIOUS
<1>1. row \in Row /\ day \in Days /\ day \in Int /\ failures \subseteq Days
  BY DEF TypeOK, Days
<1>2. ASSUME UNCHANGED <<row, day, event, failures, expired>>,
             \A h \in Handlers : hook'[h].pc = "commit" =>
                 hook'[h] = hook[h] \/ Due(hook'[h].to, FailuresAfter(hook'[h]), ExpiredAfter(hook'[h]), day),
             \A q \in Requests : req'[q].pc = "commit" =>
                 req'[q] = req[q] \/ Due(req'[q].to, failures, expired, day)
      PROVE  DueInv'
  BY <1>2 DEF DueInv, FailuresAfter, ExpiredAfter
<1>3. CASE UNCHANGED vars
  BY <1>2, <1>3 DEF vars
<1>4. \A h \in Handlers : hook[h].pc = "commit" => FailuresAfter(hook[h]) \subseteq Days
  BY <1>1, HookCases DEF FailuresAfter, Row
<1>5. CASE Tick
  <2>1. day' \in Int /\ day <= day' /\ UNCHANGED <<row, event, hook, req, failures, expired>>
    BY <1>1, <1>5 DEF Tick, history
  <2>2. Due(row, failures, expired, day')
    BY <1>1, <2>1, ConstantsAssumption DEF DueInv, Due, Days
  <2>3. \A q \in Requests : req[q].pc = "commit" => Due(req[q].to, failures, expired, day')
    BY <1>1, <2>1, ConstantsAssumption DEF DueInv, Due, Days
  <2>4. ASSUME NEW h \in Handlers, hook[h].pc = "commit"
        PROVE  Due(hook[h].to, FailuresAfter(hook[h]), ExpiredAfter(hook[h]), day')
    BY <1>1, <1>4, <2>1, <2>4, DueLater DEF DueInv
  <2>5. QED
    BY <2>1, <2>2, <2>3, <2>4 DEF DueInv, FailuresAfter, ExpiredAfter
<1>6. ASSUME NEW e \in Events, NEW k \in Kinds, Report(e, k) PROVE DueInv'
  <2>1. UNCHANGED <<row, day, hook, req, failures, expired>>
    BY <1>6 DEF Report, history
  <2>2. \A f \in Events : event'[f] = event[f] \/ event[f] = "none"
    BY <1>6 DEF Report, TypeOK
  <2>3. ASSUME NEW h \in Handlers, hook[h].pc = "commit"
        PROVE  Due(hook[h].to, FailuresAfter(hook[h])', ExpiredAfter(hook[h])', day)
    <3>1. hook[h].event \in Events /\ hook[h].to \in Row
      BY <2>3, HookCases
    <3>2. FailuresAfter(hook[h]) \subseteq FailuresAfter(hook[h])' /\ FailuresAfter(hook[h])' \subseteq Days
          /\ ExpiredAfter(hook[h]) \subseteq ExpiredAfter(hook[h])'
      BY <1>1, <2>1, <2>2, <3>1 DEF FailuresAfter, ExpiredAfter, Row
    <3>3. Due(hook[h].to, FailuresAfter(hook[h]), ExpiredAfter(hook[h]), day)
      BY <2>3 DEF DueInv
    <3>4. QED
      BY <1>1, <3>2, <3>3, DueLater
  <2>4. QED
    BY <2>1, <2>3 DEF DueInv
<1>7. ASSUME NEW h \in Handlers, NEW s, Goto(h, s), UNCHANGED <<row, day, event, failures, expired, req>>,
             s.pc # "commit" \/ Due(s.to, FailuresAfter(s), ExpiredAfter(s), day)
      PROVE  DueInv'
  <2>1. \A i \in Handlers : hook'[i] = hook[i] \/ hook'[i] = s
    BY <1>7 DEF Goto, TypeOK
  <2>2. QED
    BY <1>2, <1>7, <2>1
<1>8. ASSUME NEW h \in Handlers, NEW e \in Events, Duplicate(h, e) \/ Receive(h, e) PROVE DueInv'
  BY <1>2, <1>7, <1>8 DEF Duplicate, Receive, history
<1>9. ASSUME NEW h \in Handlers, Handle(h) \/ HandlerFault(h) PROVE DueInv'
  <2>1. CASE Record(h)
    <3>1. [hook[h] EXCEPT !.pc = "dispatch"].pc # "commit"
      BY <2>1, HookCases DEF Record, Inserting, Deliveries
    <3>2. QED
      BY <1>7, <2>1, <3>1 DEF Record, history
  <2>2. CASE RecordRejected(h) \/ CommitRejected(h) \/ HandlerFault(h) \/ DispatchRaises(h)
    BY <1>7, <2>2 DEF RecordRejected, CommitRejected, HandlerFault, DispatchRaises, Idle, history
  <2>3. CASE Dispatch(h)
    <3> DEFINE e == hook[h].event
               s == [pc |-> "commit", event |-> e, snap |-> row, to |-> Dispatched(event[e], row, day)]
    <3>1. e \in Events /\ event[e] \in Kinds \cup {"none"}
      BY <2>3, HookCases DEF Dispatch, TypeOK
    <3>2. Due(s.to, FailuresAfter(s), ExpiredAfter(s), day)
      BY <1>1, <3>1, RowsAreDue DEF FlagsInv, DueInv, FailuresAfter, ExpiredAfter
    <3>3. Goto(h, s) /\ UNCHANGED <<row, day, event, failures, expired, req>>
      BY <2>3 DEF Dispatch
    <3> HIDE DEF s
    <3>4. QED
      BY <1>7, <3>2, <3>3
  <2>4. CASE Commit(h)
    <3> DEFINE t == hook[h]
    <3>1. t.snap \in Row /\ t.to \in Row /\ Due(t.to, failures', expired', day)
          /\ failures \subseteq failures' /\ failures' \subseteq Days /\ expired \subseteq expired'
      BY <1>1, <1>4, <2>4, HookCases DEF Commit, DueInv, FailuresAfter, ExpiredAfter
    <3>2. \A s : Due(s, failures, expired, day) => Due(s, failures', expired', day)
      BY <1>1, <3>1, DueLater
    <3>3. row' = Flushed(t.snap, t.to) /\ UNCHANGED <<day, event, req>>
      BY <2>4 DEF Commit
    <3>4. Due(row', failures', expired', day)
      BY <1>1, <3>1, <3>2, <3>3, DueFlush DEF DueInv
    <3>5. ASSUME NEW i \in Handlers, hook'[i].pc = "commit"
          PROVE  Due(hook'[i].to, FailuresAfter(hook[i])', ExpiredAfter(hook[i])', day)
      <4>1. hook'[i] = hook[i] /\ hook[i].pc = "commit"
        BY <2>4, <3>5 DEF Commit, Goto, Idle, TypeOK
      <4>2. hook[i].to \in Row
        BY <4>1, HookCases
      <4>3. FailuresAfter(hook[i]) \subseteq FailuresAfter(hook[i])' /\ FailuresAfter(hook[i])' \subseteq Days
            /\ ExpiredAfter(hook[i]) \subseteq ExpiredAfter(hook[i])'
        BY <3>1, <3>3, <4>1, <4>2 DEF FailuresAfter, ExpiredAfter, Row
      <4>4. Due(hook[i].to, FailuresAfter(hook[i]), ExpiredAfter(hook[i]), day)
        BY <4>1 DEF DueInv
      <4>5. QED
        BY <1>1, <4>1, <4>3, <4>4, DueLater
    <3>6. QED
      BY <3>2, <3>3, <3>4, <3>5 DEF DueInv
  <2>5. QED
    BY <1>9, <2>1, <2>2, <2>3, <2>4 DEF Handle
<1>10. ASSUME NEW q \in Requests, Request(q) PROVE DueInv'
  <2>1. ASSUME NEW k \in {"read", "write", "billing"}, Refresh(q, k) PROVE DueInv'
    <3> DEFINE s == [pc |-> "commit", snap |-> row, to |-> Lapsed(row, day)]
    <3>1. Due(s.to, failures, expired, day)
      BY <1>1, RowsAreDue DEF FlagsInv, DueInv
    <3>2. req' = [req EXCEPT ![q] = s] /\ UNCHANGED <<row, day, event, failures, expired, hook>>
      BY <2>1 DEF Refresh, history
    <3> HIDE DEF s
    <3>3. \A p \in Requests : req'[p] = req[p] \/ req'[p] = s
      BY <3>2 DEF TypeOK
    <3>4. QED
      BY <1>2, <3>1, <3>2, <3>3
  <2>2. CASE RefreshCommit(q)
    <3>1. req[q].snap \in Row /\ req[q].to \in Row /\ Due(req[q].to, failures, expired, day)
      BY <2>2, RequestCases DEF RefreshCommit, DueInv
    <3>2. row' = Flushed(req[q].snap, req[q].to) /\ UNCHANGED <<day, event, failures, expired, hook>>
      BY <2>2 DEF RefreshCommit
    <3>3. \A p \in Requests : req'[p].pc = "commit" => req'[p] = req[p]
      BY <2>2 DEF RefreshCommit, Idle, TypeOK
    <3>4. Due(row', failures, expired, day)
      BY <1>1, <3>1, <3>2, DueFlush DEF DueInv
    <3>5. QED
      BY <3>2, <3>3, <3>4 DEF DueInv, FailuresAfter, ExpiredAfter
  <2>3. CASE RefreshAborts(q)
    <3>1. \A p \in Requests : req'[p].pc = "commit" => req'[p] = req[p]
      BY <2>3 DEF RefreshAborts, Idle, TypeOK
    <3>2. QED
      BY <1>2, <2>3, <3>1 DEF RefreshAborts, history
  <2>4. QED
    BY <1>10, <2>1, <2>2, <2>3 DEF Request
<1>11. QED
  BY <1>3, <1>5, <1>6, <1>8, <1>9, <1>10 DEF Next, Deliver

\* However transactions overtake each other, nobody loses access before the promised
\* number of days after a failed payment.
THEOREM NoEarlyRestriction == Spec => []NeverRestrictedEarly
<1>1. Init => TypeOK /\ FlagsInv /\ DueInv
  <2> SUFFICES ASSUME Init PROVE TypeOK /\ FlagsInv /\ DueInv
    OBVIOUS
  <2>1. Paired(row) /\ Matched(row, day) /\ Due(row, failures, expired, day)
    BY DEF Init, NoRow, Active, Paired, Matched, Never, Due
  <2>2. QED
    BY <2>1, TypeInit DEF Init, FlagsInv, DueInv, Idle
<1>2. TypeOK /\ FlagsInv /\ DueInv /\ [Next]_vars => TypeOK' /\ FlagsInv' /\ DueInv'
  BY TypeStep, FlagsStep, DueStep
<1>3. DueInv => NeverRestrictedEarly
  BY DEF DueInv, Due, NeverRestrictedEarly
<1>4. QED
  BY <1>1, <1>2, <1>3, PTL DEF Spec
=============================================================================
