--------------------------- MODULE PlanProcessing ---------------------------
(***************************************************************************)
(* The plans of one project from upload to ready: the upload, retry and    *)
(* delete handlers of the API and the Celery task process_plan, which      *)
(* extracts the pages of the PDF and writes one sheets row for each.       *)
(*                                                                         *)
(* Every database transaction is one step.  create_plan and retry_plan     *)
(* publish their message before get_db commits; process_plan takes no lock *)
(* and does not look at the status, so several executions for one plan may *)
(* overlap.                                                                *)
(***************************************************************************)
EXTENDS Integers, FiniteSets

CONSTANTS
    Plans,             \* the plans uploaded to one project
    Workers,           \* executors consuming the default queue
    PageCount,         \* pages of a plan's PDF
    Chunk,             \* SHEET_INSERT_CHUNK: rows per insert transaction
    MaxRetries,        \* bound: retry requests that pass their check
    MaxRedeliveries,   \* bound: messages the broker hands out a second time
    MaxFaults          \* bound: database, broker and child-process failures

ASSUME ConstantsAssumption ==
    /\ PageCount \in Nat
    /\ Chunk \in Nat \ {0}
    /\ MaxRetries \in Nat /\ MaxRedeliveries \in Nat /\ MaxFaults \in Nat

Pages == 1..PageCount

VARIABLES
    status,       \* plans.status; "absent" before the upload commits, "deleted" after
    substep,      \* plans.processing_substep
    processed,    \* plans.processed_pages
    sheets,       \* pages that have a sheets row
    upload,       \* progress of the upload request
    retrying,     \* the columns a retry request has read and not yet written
    deleting,     \* delete requests past the last-plan check
    msgs,         \* copies of the process_plan message ready in the queue
    worker,
    overlapped,   \* history: plans two executions of process_plan worked on at once
    missed,       \* history: plans whose message found no row yet
    retries, redeliveries, faults

vars == <<status, substep, processed, sheets, upload, retrying, deleting, msgs,
          worker, overlapped, missed, retries, redeliveries, faults>>
row      == <<status, substep, processed>>
requests == <<upload, retrying, deleting>>
history  == <<overlapped, missed>>
counters == <<retries, redeliveries, faults>>

NoRetry == [status |-> "none", substep |-> "none", processed |-> 0]
Seen    == [status : {"processing", "error"}, substep : {"none", "extract", "persist"},
            processed : 0..PageCount]
Idle    == [pc |-> "idle"]
Jobs    == [pc : {"download", "extract", "persist", "saved", "failing", "done"},
            plan : Plans, page : 0..PageCount]

TypeOK ==
    /\ status \in [Plans -> {"absent", "processing", "ready", "error", "deleted"}]
    /\ substep \in [Plans -> {"none", "extract", "persist"}]
    /\ processed \in [Plans -> 0..PageCount]
    /\ sheets \in [Plans -> SUBSET Pages]
    /\ upload \in [Plans -> {"none", "queued", "committed", "refused"}]
    /\ retrying \in [Plans -> Seen \cup {NoRetry}]
    /\ deleting \in [Plans -> BOOLEAN]
    /\ msgs \in [Plans -> Nat]
    /\ worker \in [Workers -> Jobs \cup {Idle}]
    /\ overlapped \subseteq Plans /\ missed \subseteq Plans
    /\ retries \in 0..MaxRetries
    /\ redeliveries \in 0..MaxRedeliveries
    /\ faults \in 0..MaxFaults

Init ==
    /\ status = [p \in Plans |-> "absent"]
    /\ substep = [p \in Plans |-> "none"]
    /\ processed = [p \in Plans |-> 0]
    /\ sheets = [p \in Plans |-> {}]
    /\ upload = [p \in Plans |-> "none"]
    /\ retrying = [p \in Plans |-> NoRetry]
    /\ deleting = [p \in Plans |-> FALSE]
    /\ msgs = [p \in Plans |-> 0]
    /\ worker = [w \in Workers |-> Idle]
    /\ overlapped = {} /\ missed = {}
    /\ retries = 0 /\ redeliveries = 0 /\ faults = 0

Exists(p) == status[p] \notin {"absent", "deleted"}

Publish(p) == msgs' = [msgs EXCEPT ![p] = @ + 1]

-----------------------------------------------------------------------------
(* create_plan: the row is flushed, the task queued, and get_db commits.   *)

\* A broker that is down is logged and does not stop the upload.
Upload(p) ==
    /\ upload[p] = "none"
    /\ upload' = [upload EXCEPT ![p] = "queued"]
    /\ \/ Publish(p) /\ UNCHANGED faults
       \/ faults < MaxFaults /\ faults' = faults + 1 /\ UNCHANGED msgs
    /\ UNCHANGED <<row, sheets, retrying, deleting, worker, history, retries, redeliveries>>

CommitUpload(p) ==
    /\ upload[p] = "queued"
    /\ upload' = [upload EXCEPT ![p] = "committed"]
    /\ status' = [status EXCEPT ![p] = "processing"]
    /\ UNCHANGED <<substep, processed, sheets, retrying, deleting, msgs, worker, history, counters>>

AbortUpload(p) ==
    /\ upload[p] = "queued"
    /\ faults < MaxFaults
    /\ faults' = faults + 1
    /\ upload' = [upload EXCEPT ![p] = "refused"]
    /\ UNCHANGED <<row, sheets, retrying, deleting, msgs, worker, history, retries, redeliveries>>

-----------------------------------------------------------------------------
(* retry_plan.                                                             *)

RetryRead(p) ==
    /\ status[p] \in {"error", "processing"}
    /\ retrying[p] = NoRetry
    /\ retries < MaxRetries
    /\ retries' = retries + 1
    /\ retrying' = [retrying EXCEPT ![p] =
           [status |-> status[p], substep |-> substep[p], processed |-> processed[p]]]
    /\ UNCHANGED <<row, sheets, upload, deleting, msgs, worker, history, redeliveries, faults>>

\* The flush updates only the columns whose value differs from the one read,
\* and raises when there are such columns and the row is gone.
Unflushable(p) ==
    ~Exists(p) /\ retrying[p] # [status |-> "processing", substep |-> "none", processed |-> 0]

RetryRaises(p) ==
    /\ retrying[p] # NoRetry
    /\ Unflushable(p)
    /\ retrying' = [retrying EXCEPT ![p] = NoRetry]
    /\ UNCHANGED <<row, sheets, upload, deleting, msgs, worker, history, counters>>

RetryCommit(p) ==
    /\ retrying[p] # NoRetry
    /\ ~Unflushable(p)
    /\ status' = IF retrying[p].status # "processing"
                   THEN [status EXCEPT ![p] = "processing"] ELSE status
    /\ substep' = IF retrying[p].substep # "none"
                    THEN [substep EXCEPT ![p] = "none"] ELSE substep
    /\ processed' = IF retrying[p].processed # 0
                      THEN [processed EXCEPT ![p] = 0] ELSE processed
    /\ retrying' = [retrying EXCEPT ![p] = NoRetry]
    /\ \/ Publish(p) /\ UNCHANGED faults
       \/ faults < MaxFaults /\ faults' = faults + 1 /\ UNCHANGED msgs
    /\ UNCHANGED <<sheets, upload, deleting, worker, history, retries, redeliveries>>

\* The commit fails after the task was queued.
RetryAborts(p) ==
    /\ retrying[p] # NoRetry
    /\ ~Unflushable(p)
    /\ faults < MaxFaults
    /\ faults' = faults + 1
    /\ retrying' = [retrying EXCEPT ![p] = NoRetry]
    /\ Publish(p)
    /\ UNCHANGED <<row, sheets, upload, deleting, worker, history, retries, redeliveries>>

-----------------------------------------------------------------------------
(* delete_plan: sheets and their measurements go with the row.             *)

DeleteCheck(p) ==
    /\ Exists(p) /\ ~deleting[p]
    /\ Cardinality({q \in Plans : Exists(q)}) > 1
    /\ deleting' = [deleting EXCEPT ![p] = TRUE]
    /\ UNCHANGED <<row, sheets, upload, retrying, msgs, worker, history, counters>>

DeleteCommit(p) ==
    /\ deleting[p]
    /\ deleting' = [deleting EXCEPT ![p] = FALSE]
    /\ status' = [status EXCEPT ![p] = "deleted"]
    /\ sheets' = [sheets EXCEPT ![p] = {}]
    /\ UNCHANGED <<substep, processed, upload, retrying, msgs, worker, history, counters>>

-----------------------------------------------------------------------------
(* process_plan.                                                           *)

Working == {"download", "extract", "persist", "saved", "failing"}
WorksOn(w, p) == worker[w].pc \in Working /\ worker[w].plan = p

Receive(w, p, pc) ==
    /\ worker[w] = Idle
    /\ msgs[p] > 0
    /\ msgs' = [msgs EXCEPT ![p] = @ - 1]
    /\ worker' = [worker EXCEPT ![w] = [pc |-> pc, plan |-> p, page |-> 0]]

Goto(w, pc) == worker' = [worker EXCEPT ![w].pc = pc]
Reach(w, pc, n) == worker' = [worker EXCEPT ![w] = [pc |-> pc, plan |-> @.plan, page |-> n]]
At(w, pc) == worker[w].pc = pc

MarkOverlap(p) ==
    overlapped' = IF \E v \in Workers : WorksOn(v, p) THEN overlapped \cup {p} ELSE overlapped

BeginKeepsSheets(w, p) ==          \* seeded defect: the rows of the last attempt stay
    /\ Exists(p)
    /\ Receive(w, p, "download")
    /\ status' = [status EXCEPT ![p] = "processing"]
    /\ processed' = [processed EXCEPT ![p] = 0]
    /\ substep' = [substep EXCEPT ![p] = "none"]
    /\ MarkOverlap(p)
    /\ UNCHANGED <<sheets, requests, missed, counters>>

\* The first transaction drops the sheets of an earlier attempt, whatever the
\* status of the plan is.
Begin(w, p) ==
    /\ Exists(p)
    /\ Receive(w, p, "download")
    /\ sheets' = [sheets EXCEPT ![p] = {}]
    /\ status' = [status EXCEPT ![p] = "processing"]
    /\ processed' = [processed EXCEPT ![p] = 0]
    /\ substep' = [substep EXCEPT ![p] = "none"]
    /\ MarkOverlap(p)
    /\ UNCHANGED <<requests, missed, counters>>

\* The row is not there, or not there yet: the message is consumed.
BeginMissing(w, p) ==
    /\ ~Exists(p)
    /\ Receive(w, p, "done")
    /\ missed' = missed \cup {p}
    /\ UNCHANGED <<row, sheets, requests, overlapped, counters>>

BeginFails(w, p) ==
    /\ faults < MaxFaults
    /\ faults' = faults + 1
    /\ Receive(w, p, "failing")
    /\ MarkOverlap(p)
    /\ UNCHANGED <<row, sheets, requests, missed, retries, redeliveries>>

Download(w) ==
    /\ At(w, "download")
    /\ Goto(w, "extract")
    /\ UNCHANGED <<row, sheets, requests, msgs, history, counters>>

\* _progress and _persist_progress: an update in a session of their own.
Report(p, n, sub) ==
    IF Exists(p)
      THEN /\ processed' = [processed EXCEPT ![p] = n]
           /\ substep' = [substep EXCEPT ![p] = sub]
      ELSE UNCHANGED <<processed, substep>>

ExtractPage(w) ==
    LET n == worker[w].page + 1 IN
    /\ At(w, "extract")
    /\ n \in Pages
    /\ Reach(w, "extract", n)
    /\ Report(worker[w].plan, n, "extract")
    /\ UNCHANGED <<status, sheets, requests, msgs, history, counters>>

ExtractDone(w) ==
    /\ At(w, "extract")
    /\ worker[w].page = PageCount
    /\ Reach(w, "persist", 0)
    /\ Report(worker[w].plan, 0, "persist")
    /\ UNCHANGED <<status, sheets, requests, msgs, history, counters>>

\* Download or parsing raises: process_plan returns after _mark_error.
ExtractFails(w) ==
    /\ At(w, "download") \/ At(w, "extract")
    /\ Goto(w, "failing")
    /\ UNCHANGED <<row, sheets, requests, msgs, history, counters>>

LastOfChunk(n) == IF n + Chunk < PageCount THEN n + Chunk ELSE PageCount
ChunkFromSecond(n) == (n + 2)..LastOfChunk(n)               \* seeded defect
ChunkAfter(n) == (n + 1)..LastOfChunk(n)

PersistChunk(w) ==
    LET p == worker[w].plan
        n == worker[w].page
    IN /\ At(w, "persist")
       /\ n < PageCount
       /\ Exists(p) /\ ChunkAfter(n) \cap sheets[p] = {}
       /\ sheets' = [sheets EXCEPT ![p] = @ \cup ChunkAfter(n)]
       /\ Reach(w, "saved", LastOfChunk(n))
       /\ UNCHANGED <<row, requests, msgs, history, counters>>

\* The plan is gone (foreign key) or one of the pages is there (uq_sheets_plan_page).
PersistRejected(w) ==
    LET p == worker[w].plan
        n == worker[w].page
    IN /\ At(w, "persist")
       /\ n < PageCount
       /\ ~Exists(p) \/ ChunkAfter(n) \cap sheets[p] # {}
       /\ Goto(w, "failing")
       /\ UNCHANGED <<row, sheets, requests, msgs, history, counters>>

ReportSavedAhead(w) ==             \* seeded defect: the next chunk counts as saved
    /\ At(w, "saved")
    /\ Goto(w, "persist")
    /\ Report(worker[w].plan, LastOfChunk(worker[w].page), "persist")
    /\ UNCHANGED <<status, sheets, requests, msgs, history, counters>>

ReportSaved(w) ==
    /\ At(w, "saved")
    /\ Goto(w, "persist")
    /\ Report(worker[w].plan, worker[w].page, "persist")
    /\ UNCHANGED <<status, sheets, requests, msgs, history, counters>>

MarkReady(w) ==
    LET p == worker[w].plan IN
    /\ At(w, "persist")
    /\ worker[w].page = PageCount
    /\ status' = IF Exists(p) THEN [status EXCEPT ![p] = "ready"] ELSE status
    /\ Report(p, PageCount, "none")
    /\ Goto(w, "done")
    /\ UNCHANGED <<sheets, requests, msgs, history, counters>>

MarkErrorForgotten(w) ==           \* seeded defect: the failure is only logged
    /\ At(w, "failing")
    /\ Goto(w, "done")
    /\ UNCHANGED <<row, sheets, requests, msgs, history, counters>>

MarkErrorMisspelt(w) ==            \* seeded defect: a status the clients do not know
    LET p == worker[w].plan IN
    /\ At(w, "failing")
    /\ status' = IF Exists(p) THEN [status EXCEPT ![p] = "failed"] ELSE status
    /\ substep' = IF Exists(p) THEN [substep EXCEPT ![p] = "none"] ELSE substep
    /\ Goto(w, "done")
    /\ UNCHANGED <<processed, sheets, requests, msgs, history, counters>>

MarkError(w) ==
    LET p == worker[w].plan IN
    /\ At(w, "failing")
    /\ status' = IF Exists(p) THEN [status EXCEPT ![p] = "error"] ELSE status
    /\ substep' = IF Exists(p) THEN [substep EXCEPT ![p] = "none"] ELSE substep
    /\ Goto(w, "done")
    /\ UNCHANGED <<processed, sheets, requests, msgs, history, counters>>

Ack(w) ==
    /\ At(w, "done")
    /\ worker' = [worker EXCEPT ![w] = Idle]
    /\ UNCHANGED <<row, sheets, requests, msgs, history, counters>>

-----------------------------------------------------------------------------
(* What can go wrong around a task.                                        *)

Redeliver(w) ==
    /\ worker[w] # Idle
    /\ redeliveries < MaxRedeliveries
    /\ redeliveries' = redeliveries + 1
    /\ Publish(worker[w].plan)
    /\ UNCHANGED <<row, sheets, requests, history, retries, faults>>

WorkerKilled(w) == Redeliver(w) /\ worker' = [worker EXCEPT ![w] = Idle]

\* The broker's visibility timeout passes while the task still runs.
VisibilityTimeout(w) == Redeliver(w) /\ UNCHANGED worker

\* A prefork child dies: its message is acknowledged.
ChildLost(w) ==
    /\ worker[w] # Idle
    /\ faults < MaxFaults
    /\ faults' = faults + 1
    /\ worker' = [worker EXCEPT ![w] = Idle]
    /\ UNCHANGED <<row, sheets, requests, msgs, history, retries, redeliveries>>

\* A database call raises.  A progress update that fails is only logged; an
\* exception out of _mark_error ends the task.
DatabaseFault(w) ==
    /\ faults < MaxFaults
    /\ faults' = faults + 1
    /\ \/ At(w, "extract") /\ worker[w].page + 1 \in Pages /\ Reach(w, "extract", worker[w].page + 1)
       \/ At(w, "extract") /\ worker[w].page = PageCount /\ Reach(w, "persist", 0)
       \/ At(w, "saved") /\ Goto(w, "persist")
       \/ At(w, "persist") /\ Goto(w, "failing")
       \/ At(w, "failing") /\ Goto(w, "done")
    /\ UNCHANGED <<row, sheets, requests, msgs, history, retries, redeliveries>>

-----------------------------------------------------------------------------
Request(p) ==
    \/ Upload(p) \/ CommitUpload(p) \/ AbortUpload(p)
    \/ RetryRead(p) \/ RetryRaises(p) \/ RetryCommit(p) \/ RetryAborts(p)
    \/ DeleteCheck(p) \/ DeleteCommit(p)

Receives(w) == \E p \in Plans : Begin(w, p) \/ BeginMissing(w, p) \/ BeginFails(w, p)

Process(w) ==
    \/ Download(w) \/ ExtractPage(w) \/ ExtractDone(w) \/ ExtractFails(w)
    \/ PersistChunk(w) \/ PersistRejected(w) \/ ReportSaved(w)
    \/ MarkReady(w) \/ MarkError(w) \/ Ack(w)

Trouble(w) == WorkerKilled(w) \/ VisibilityTimeout(w) \/ ChildLost(w) \/ DatabaseFault(w)

Next ==
    \/ \E p \in Plans : Request(p)
    \/ \E w \in Workers : Receives(w) \/ Process(w) \/ Trouble(w)

Spec == Init /\ [][Next]_vars

(***************************************************************************)
(* A request past its check commits, and a worker goes on receiving and    *)
(* executing messages.                                                     *)
(***************************************************************************)
Fairness ==
    /\ \A p \in Plans : WF_vars(CommitUpload(p)) /\ WF_vars(RetryCommit(p) \/ RetryRaises(p))
                        /\ WF_vars(DeleteCommit(p))
    /\ \A w \in Workers : WF_vars(Receives(w) \/ Process(w))

FairSpec == Spec /\ Fairness

-----------------------------------------------------------------------------
(* Properties.                                                             *)

\* A ready plan has the sheet of every page, through retries, redeliveries and
\* crashes between two chunks, unless two executions worked on it at once.
ReadyHasEveryPage ==
    \A p \in Plans \ overlapped : status[p] = "ready" => sheets[p] = Pages

\* "Saving sheets k of n" is never ahead of the rows: the pages reported saved
\* have been committed (same exception).
ReportedPagesAreSaved ==
    \A p \in Plans \ overlapped :
        Exists(p) /\ substep[p] = "persist" => 1..processed[p] \subseteq sheets[p]

\* An execution that had the plan to itself never meets rows it did not write:
\* what it is about to insert is not there, so uq_sheets_plan_page cannot fail
\* it half way, whatever an earlier attempt left behind.
ChunkIsNew ==
    \A w \in Workers :
        LET p == worker[w].plan
        IN At(w, "persist") /\ p \notin overlapped
              => ChunkAfter(worker[w].page) \cap sheets[p] = {}

\* An uploaded plan settles: it becomes ready, is marked as failed or is deleted,
\* unless the worker took its message before the upload committed or something
\* failed on the way.
UploadsSettle ==
    \A p \in Plans :
        status[p] = "processing" ~> (status[p] # "processing" \/ p \in missed \/ faults > 0)
=============================================================================
