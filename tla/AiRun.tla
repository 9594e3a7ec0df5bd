------------------------------- MODULE AiRun -------------------------------
(***************************************************************************)
(* The lifecycle of AI Auto-Takeoff runs: the POST and cancel handlers of  *)
(* the API, the Celery chain that carries a run from start_ai_run through  *)
(* the pipeline stages to finalize_ai_run, and the ai_runs row they share. *)
(*                                                                         *)
(* Every database transaction is one step.  Between two transactions of    *)
(* one task or request any other task or request may run: nothing in the   *)
(* code takes a row lock on ai_runs and update_status_sync writes the      *)
(* status whatever it was.  Whether a task gets the per-plan advisory lock *)
(* is left open here (PlanLock models the lock itself).                    *)
(***************************************************************************)
EXTENDS Integers, FiniteSets

CONSTANTS
    Runs,              \* one POST request, and the ai_runs row it may create
    Plans,
    PlanOf,            \* the plan a request names
    Workers,           \* executors consuming the ai_pipeline queue
    BodyCount,         \* stages between start and finalize; four in the code
    MaxCancels,        \* bound: cancel requests that pass their check
    MaxRedeliveries,   \* bound: messages the broker hands out a second time
    MaxFaults          \* bound: database, broker and child-process failures

ASSUME ConstantsAssumption ==
    /\ PlanOf \in [Runs -> Plans]
    /\ BodyCount \in Nat \ {0}
    /\ MaxCancels \in Nat /\ MaxRedeliveries \in Nat /\ MaxFaults \in Nat

(***************************************************************************)
(* The tasks of the chain by position: 0 is start_ai_run, 1..BodyCount are *)
(* the stage tasks and Finalize is finalize_ai_run.  PIPELINE_STAGES, the  *)
(* keys of summary_jsonb.stages, are the positions from 1 to Finalize.     *)
(***************************************************************************)
Start    == 0
Body     == 1..BodyCount
Finalize == BodyCount + 1
Tasks    == 0..Finalize
Stages   == 1..Finalize

Status   == {"absent", "queued", "running", "completed", "failed", "cancelled"}
Active   == {"queued", "running"}
Terminal == {"completed", "failed", "cancelled"}

(***************************************************************************)
(* Where a worker stands in the task it executes: the next transaction.    *)
(***************************************************************************)
BusyPC ==
    {"locked", "contended",          \* start_ai_run, after pg_try_advisory_lock
     "body", "recording",            \* _run_stage, inside and after the body
     "completing", "stamping",       \* finalize_ai_run
     "failing", "failed", "raised",  \* the except blocks
     "done", "ack"}                  \* returned; the message not yet acknowledged
Idle     == [pc |-> "idle"]
Jobs     == [pc : BusyPC, run : Runs, task : Tasks]

VARIABLES
    status,       \* ai_runs.status
    entry,        \* summary_jsonb.stages: absent, a timing, or a timing with an error
    applied,      \* how often the effects of a stage body were committed
    api,          \* progress of the POST request
    cancelling,   \* cancel requests past their status check
    msgs,         \* copies of a chain message ready in the queue
    worker,
    revived,      \* history: runs whose terminal status start_ai_run overwrote
    cancels, redeliveries, faults

vars == <<status, entry, applied, api, cancelling, msgs, worker, revived,
          cancels, redeliveries, faults>>
row      == <<status, entry, applied>>
counters == <<cancels, redeliveries, faults>>
history  == <<revived>>

TypeOK ==
    /\ status \in [Runs -> Status]
    /\ entry \in [Runs -> [Stages -> {"none", "ok", "error"}]]
    /\ applied \in [Runs -> [Body -> Nat]]
    /\ api \in [Runs -> {"idle", "admitted", "committed", "answered", "refused", "errored"}]
    /\ cancelling \in [Runs -> BOOLEAN]
    /\ msgs \in [Runs -> [Tasks -> Nat]]
    /\ worker \in [Workers -> Jobs \cup {Idle}]
    /\ revived \subseteq Runs
    /\ cancels \in 0..MaxCancels
    /\ redeliveries \in 0..MaxRedeliveries
    /\ faults \in 0..MaxFaults

Init ==
    /\ status = [r \in Runs |-> "absent"]
    /\ entry = [r \in Runs |-> [s \in Stages |-> "none"]]
    /\ applied = [r \in Runs |-> [s \in Body |-> 0]]
    /\ api = [r \in Runs |-> "idle"]
    /\ cancelling = [r \in Runs |-> FALSE]
    /\ msgs = [r \in Runs |-> [t \in Tasks |-> 0]]
    /\ worker = [w \in Workers |-> Idle]
    /\ revived = {}
    /\ cancels = 0 /\ redeliveries = 0 /\ faults = 0

-----------------------------------------------------------------------------
(* The POST handler: check, insert and commit, then enqueue.               *)

ActiveOn(p) == {r \in Runs : PlanOf[r] = p /\ status[r] \in Active}

\* assert_no_active_run_for_plan found nothing.
Admit(r) ==
    /\ api[r] = "idle"
    /\ ActiveOn(PlanOf[r]) = {}
    /\ api' = [api EXCEPT ![r] = "admitted"]
    /\ UNCHANGED <<row, cancelling, msgs, worker, history, counters>>

\* One active run: 409.  More than one: scalar_one_or_none raises, 500.
Refuse(r) ==
    /\ api[r] = "idle"
    /\ ActiveOn(PlanOf[r]) # {}
    /\ api' = [api EXCEPT ![r] =
                  IF Cardinality(ActiveOn(PlanOf[r])) = 1 THEN "refused" ELSE "errored"]
    /\ UNCHANGED <<row, cancelling, msgs, worker, history, counters>>

CreateRun(r) ==
    /\ api[r] = "admitted"
    /\ status' = [status EXCEPT ![r] = "queued"]
    /\ api' = [api EXCEPT ![r] = "committed"]
    /\ UNCHANGED <<entry, applied, cancelling, msgs, worker, history, counters>>

Enqueue(r) ==
    /\ api[r] = "committed"
    /\ msgs' = [msgs EXCEPT ![r][Start] = @ + 1]
    /\ api' = [api EXCEPT ![r] = "answered"]
    /\ UNCHANGED <<row, cancelling, worker, history, counters>>

\* apply_async raises, or the API process dies, after the commit.
EnqueueFails(r) ==
    /\ api[r] = "committed"
    /\ faults < MaxFaults
    /\ faults' = faults + 1
    /\ api' = [api EXCEPT ![r] = "errored"]
    /\ UNCHANGED <<row, cancelling, msgs, worker, history, cancels, redeliveries>>

-----------------------------------------------------------------------------
(* The cancel handler.  _sync_cancel looks the row up in the identity map  *)
(* of the session that already read it, so its second check sees the       *)
(* status of the first.                                                    *)

CancelCheck(r) ==
    /\ status[r] \in Active
    /\ ~cancelling[r]
    /\ cancels < MaxCancels
    /\ cancels' = cancels + 1
    /\ cancelling' = [cancelling EXCEPT ![r] = TRUE]
    /\ UNCHANGED <<row, api, msgs, worker, history, redeliveries, faults>>

CancelWriteMisspelt(r) ==          \* seeded defect: a status the readers do not know
    /\ cancelling[r]
    /\ status' = [status EXCEPT ![r] = "canceled"]
    /\ cancelling' = [cancelling EXCEPT ![r] = FALSE]
    /\ UNCHANGED <<entry, applied, api, msgs, worker, revived, counters>>

CancelWrite(r) ==
    /\ cancelling[r]
    /\ status' = [status EXCEPT ![r] = "cancelled"]
    /\ cancelling' = [cancelling EXCEPT ![r] = FALSE]
    /\ UNCHANGED <<entry, applied, api, msgs, worker, revived, counters>>

-----------------------------------------------------------------------------
(* A worker takes a message and runs the first transaction of its task.    *)

Take(w, r, t, pc) ==
    /\ worker[w] = Idle
    /\ msgs[r][t] > 0
    /\ msgs' = [msgs EXCEPT ![r][t] = @ - 1]
    /\ worker' = [worker EXCEPT ![w] = [pc |-> pc, run |-> r, task |-> t]]
    /\ UNCHANGED <<row, api, cancelling, history, counters>>

At(w, pc) == worker[w].pc = pc

Goto(w, pc) == worker' = [worker EXCEPT ![w].pc = pc]

\* start_ai_run goes on for a queued run, and for a running one: the message
\* may be a redelivery.
StartAccepts == Active

StartSkip(w, r) == status[r] \notin StartAccepts /\ Take(w, r, Start, "done")

StartLock(w, r) ==
    /\ status[r] \in StartAccepts
    /\ \E acquired \in BOOLEAN :
          Take(w, r, Start, IF acquired THEN "locked" ELSE "contended")

\* update_status_sync(running): the status it overwrites is not looked at.
StartRunning(w) ==
    /\ At(w, "locked")
    /\ LET r == worker[w].run IN
         /\ status' = [status EXCEPT ![r] = "running"]
         /\ revived' = IF status[r] \in Terminal THEN revived \cup {r} ELSE revived
    /\ Goto(w, "done")
    /\ UNCHANGED <<entry, applied, api, cancelling, msgs, counters>>

\* The lock is taken: the run fails, and the task returns normally.
StartContended(w) ==
    /\ At(w, "contended")
    /\ status' = [status EXCEPT ![worker[w].run] = "failed"]
    /\ Goto(w, "done")
    /\ UNCHANGED <<entry, applied, api, cancelling, msgs, history, counters>>

-----------------------------------------------------------------------------
(* _run_stage                                                              *)

ShortCircuitForgetsFailed == {"completed", "cancelled"}     \* seeded defect
ShortCircuitOn == Terminal

StageSkip(w, r) ==
    \E t \in Body : status[r] \in ShortCircuitOn /\ Take(w, r, t, "done")

StageBegin(w, r) ==
    \E t \in Body : status[r] \notin ShortCircuitOn /\ Take(w, r, t, "body")

Apply(r, t) == applied' = [applied EXCEPT ![r][t] = @ + 1]

StageBody(w) ==
    /\ At(w, "body")
    /\ Apply(worker[w].run, worker[w].task)
    /\ Goto(w, "recording")
    /\ UNCHANGED <<status, entry, api, cancelling, msgs, history, counters>>

\* The body raises, before or after the transactions it commits on the way.
StageBodyRaises(w) ==
    /\ At(w, "body")
    /\ UNCHANGED applied \/ Apply(worker[w].run, worker[w].task)
    /\ Goto(w, "failing")
    /\ UNCHANGED <<status, entry, api, cancelling, msgs, history, counters>>

StageRecord(w) ==
    /\ At(w, "recording")
    /\ entry' = [entry EXCEPT ![worker[w].run][worker[w].task] = "ok"]
    /\ Goto(w, "done")
    /\ UNCHANGED <<status, applied, api, cancelling, msgs, history, counters>>

FailureRecord(w) ==
    /\ At(w, "failing")
    /\ entry' = [entry EXCEPT ![worker[w].run][worker[w].task] = "error"]
    /\ Goto(w, "failed")
    /\ UNCHANGED <<status, applied, api, cancelling, msgs, history, counters>>

FailureStatusForgotten(w) ==       \* seeded defect: the failure is only logged
    /\ At(w, "failed")
    /\ Goto(w, "raised")
    /\ UNCHANGED <<row, api, cancelling, msgs, history, counters>>

\* finalize_run_sync(failed) in the except block of any of the tasks.
FailureStatus(w) ==
    /\ At(w, "failed")
    /\ status' = [status EXCEPT ![worker[w].run] = "failed"]
    /\ Goto(w, "raised")
    /\ UNCHANGED <<entry, applied, api, cancelling, msgs, history, counters>>

-----------------------------------------------------------------------------
(* finalize_ai_run                                                         *)

FinalizeForgetsFailed == {"cancelled"}                      \* seeded defect
FinalizeSkipsOn == {"failed", "cancelled"}

FinalizeSkip(w, r) == status[r] \in FinalizeSkipsOn /\ Take(w, r, Finalize, "done")

FinalizeBegin(w, r) ==
    status[r] \notin FinalizeSkipsOn /\ Take(w, r, Finalize, "completing")

FinalizeCompleted(w) ==
    /\ At(w, "completing")
    /\ status' = [status EXCEPT ![worker[w].run] = "completed"]
    /\ Goto(w, "stamping")
    /\ UNCHANGED <<entry, applied, api, cancelling, msgs, history, counters>>

FinalizeRecord(w) ==
    /\ At(w, "stamping")
    /\ entry' = [entry EXCEPT ![worker[w].run][Finalize] = "ok"]
    /\ Goto(w, "done")
    /\ UNCHANGED <<status, applied, api, cancelling, msgs, history, counters>>

-----------------------------------------------------------------------------
(* Celery: the next message of the chain is published when a task has      *)
(* returned, and the message it came from is acknowledged last.            *)

Publish(r, t) == msgs' = [msgs EXCEPT ![r][t] = @ + 1]

ChainSkipsStage(t) == IF t = 1 THEN 3 ELSE t + 1             \* seeded defect
ChainSwapsStages(t) ==                                       \* seeded defect
    CASE t = 0 -> 2 [] t = 2 -> 1 [] OTHER -> Finalize
ChainNext(t) == t + 1

HandOff(w) ==
    /\ At(w, "done")
    /\ LET r == worker[w].run
           t == worker[w].task
       IN IF t = Finalize THEN UNCHANGED msgs ELSE Publish(r, ChainNext(t))
    /\ Goto(w, "ack")
    /\ UNCHANGED <<row, api, cancelling, history, counters>>

\* An exception in autoretry_for puts the same task back; any other ends the
\* chain.  The limit of three retries is not reached: the attempt after a
\* recorded failure short-circuits, and MaxFaults bounds unrecorded ones.
Retry(w) ==
    /\ At(w, "raised")
    /\ Publish(worker[w].run, worker[w].task)
    /\ Goto(w, "ack")
    /\ UNCHANGED <<row, api, cancelling, history, counters>>

GiveUp(w) ==
    /\ At(w, "raised")
    /\ Goto(w, "ack")
    /\ UNCHANGED <<row, api, cancelling, msgs, history, counters>>

Ack(w) ==
    /\ At(w, "ack")
    /\ worker' = [worker EXCEPT ![w] = Idle]
    /\ UNCHANGED <<row, api, cancelling, msgs, history, counters>>

-----------------------------------------------------------------------------
(* What can go wrong around a task.                                        *)

Busy(w) == worker[w] # Idle

WorkerKilledAcksEarly(w) ==        \* seeded defect: acks_late off
    /\ Busy(w)
    /\ redeliveries < MaxRedeliveries
    /\ redeliveries' = redeliveries + 1
    /\ worker' = [worker EXCEPT ![w] = Idle]
    /\ UNCHANGED <<row, api, cancelling, msgs, history, cancels, faults>>

\* acks_late: an unacknowledged message is handed out again when its worker
\* is gone, or when the visibility timeout passes while the worker still runs.
WorkerKilled(w) ==
    /\ Busy(w)
    /\ redeliveries < MaxRedeliveries
    /\ redeliveries' = redeliveries + 1
    /\ Publish(worker[w].run, worker[w].task)
    /\ worker' = [worker EXCEPT ![w] = Idle]
    /\ UNCHANGED <<row, api, cancelling, history, cancels, faults>>

VisibilityTimeout(w) ==
    /\ Busy(w)
    /\ redeliveries < MaxRedeliveries
    /\ redeliveries' = redeliveries + 1
    /\ Publish(worker[w].run, worker[w].task)
    /\ UNCHANGED <<row, api, cancelling, worker, history, cancels, faults>>

\* A prefork child dies: task_reject_on_worker_lost is off, so the parent
\* acknowledges the message and the chain ends there.
ChildLost(w) ==
    /\ Busy(w)
    /\ faults < MaxFaults
    /\ faults' = faults + 1
    /\ worker' = [worker EXCEPT ![w] = Idle]
    /\ UNCHANGED <<row, api, cancelling, msgs, history, cancels, redeliveries>>

\* A database call of a task raises.  start_ai_run and finalize_ai_run have no
\* timing to record; when recording the failure fails too, the inner except
\* swallows that and the task ends with the row as it is.
DatabaseFault(w) ==
    /\ Busy(w)
    /\ faults < MaxFaults
    /\ faults' = faults + 1
    /\ \/ At(w, "recording") /\ Goto(w, "failing")
       \/ worker[w].pc \in {"locked", "contended", "completing", "stamping"} /\ Goto(w, "failed")
       \/ worker[w].pc \in {"failing", "failed"} /\ Goto(w, "raised")
    /\ UNCHANGED <<row, api, cancelling, msgs, history, cancels, redeliveries>>

-----------------------------------------------------------------------------
Request(r) == Admit(r) \/ Refuse(r) \/ CreateRun(r) \/ Enqueue(r)

TakeTask(w) ==
    \E r \in Runs :
        \/ StartSkip(w, r) \/ StartLock(w, r)
        \/ StageSkip(w, r) \/ StageBegin(w, r)
        \/ FinalizeSkip(w, r) \/ FinalizeBegin(w, r)

RunTask(w) ==
    \/ StartRunning(w) \/ StartContended(w)
    \/ StageBody(w) \/ StageBodyRaises(w) \/ StageRecord(w)
    \/ FailureRecord(w) \/ FailureStatus(w)
    \/ FinalizeCompleted(w) \/ FinalizeRecord(w)
    \/ HandOff(w) \/ Retry(w) \/ GiveUp(w) \/ Ack(w)

Environment ==
    \/ \E r \in Runs : EnqueueFails(r)
    \/ \E w \in Workers : WorkerKilled(w) \/ VisibilityTimeout(w) \/ ChildLost(w) \/ DatabaseFault(w)

Next ==
    \/ \E r \in Runs : Request(r) \/ CancelCheck(r) \/ CancelWrite(r)
    \/ \E w \in Workers : TakeTask(w) \/ RunTask(w)
    \/ Environment

Spec == Init /\ [][Next]_vars

(***************************************************************************)
(* A request handler that has passed its check runs to its end, and a      *)
(* worker goes on taking and executing tasks (each model and storage call  *)
(* has a client timeout).  Nobody has to start or cancel a run.            *)
(***************************************************************************)
Fairness ==
    /\ \A r \in Runs : WF_vars(CreateRun(r) \/ Enqueue(r)) /\ WF_vars(CancelWrite(r))
    /\ \A w \in Workers : WF_vars(TakeTask(w)) /\ WF_vars(RunTask(w))

FairSpec == Spec /\ Fairness

-----------------------------------------------------------------------------
(* Properties.                                                             *)

\* A completed run has had every stage: the effects of each body were
\* committed and each has an entry in summary_jsonb.stages, so the summary the
\* user is shown is the whole pipeline's.  start_ai_run may turn a terminal run
\* back to running; the stages that short-circuited meanwhile are then missing,
\* so the claim is made for runs that never had that.
CompletedRanEveryStage ==
    \A r \in Runs : status[r] = "completed" /\ r \notin revived =>
        \A t \in Body : applied[r][t] > 0 /\ entry[r][t] # "none"

\* Stage entries appear in pipeline order, whatever is cancelled, redelivered,
\* retried or lost: a stage of a run that was not revived never has an entry
\* before the stages it builds on (stage_index only grows for the clients).
StagesInOrder ==
    \A r \in Runs \ revived : \A t \in Stages :
        entry[r][t] # "none" => \A u \in 1..(t - 1) : entry[r][u] # "none"

\* As long as no message is handed out twice and no failure goes unrecorded, the
\* effects of a stage body (extracted_schedules rows, summary counters) are
\* committed at most once per run: a Celery retry of a stage that raised does
\* not do the work again, whatever the user cancels meanwhile.
AppliedAtMostOnce ==
    redeliveries = 0 /\ faults = 0 =>
        \A r \in Runs : \A t \in Body : applied[r][t] <= 1

\* With each message delivered once and no database fault, a completed or failed
\* run changes its status only through a cancel request that read the status
\* before it became terminal.
OnlyStaleCancelOverwrites ==
    [][redeliveries = 0 /\ faults = 0 =>
         \A r \in Runs :
            /\ status[r] \in {"completed", "failed"}
            /\ status'[r] # status[r]
            => status'[r] = "cancelled" /\ cancelling[r]]_vars

\* Every run that was queued settles: from some moment on its status is terminal
\* for good, through cancels, lock contention, raising stages and redeliveries,
\* unless a child process, the broker or the database failed on the way.
EveryRunSettles ==
    \A r \in Runs :
        status[r] = "queued" ~> (faults > 0 \/ [](status[r] \in Terminal))

\* With each message delivered once and no fault, the chain, the requests and
\* their interleavings show the clients only what AiRunPromise describes, and
\* every run makes the progress it promises.
Promise == INSTANCE AiRunPromise WITH status <- status, cancelling <- cancelling
KeepsPromise == Promise!Spec
=============================================================================
