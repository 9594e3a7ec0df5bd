------------------------------ MODULE PlanLock ------------------------------
(***************************************************************************)
(* The advisory lock of one plan, taken by AI runs and auto-name tasks.    *)
(*                                                                         *)
(* pg_try_advisory_lock belongs to the database connection it was called   *)
(* on, is re-entrant there and survives commit and session close; only     *)
(* pg_advisory_unlock on that connection or its end releases it.  The      *)
(* connections are those of the pool each worker process keeps, a queue:   *)
(* a transaction takes the head and gives it back at the tail.  The tasks  *)
(* of a run execute in any process, one task per process at a time.        *)
(***************************************************************************)
EXTENDS Integers, Sequences, FiniteSets

CONSTANTS
    Runs,              \* AI runs of the plan
    AutoNames,         \* auto-name requests for the plan
    Processes,         \* prefork children consuming the ai_pipeline queue
    MaxAttempts,       \* executions of an auto-name task: one and max_retries
    MaxCancels,        \* bound: cancelled runs
    MaxFaults          \* bound: redeliveries, database faults and dead processes together

ASSUME ConstantsAssumption ==
    /\ Runs \cap AutoNames = {}
    /\ MaxAttempts \in Nat \ {0}
    /\ MaxCancels \in Nat /\ MaxFaults \in Nat

None  == <<>>
Jobs  == Runs \cup AutoNames
Conns == Processes \X {1, 2}

VARIABLES
    pool,       \* a process's idle connections; at most two are ever in use at once
    holder,     \* the connection that holds the lock
    depth,      \* how often it took the lock
    status,     \* ai_runs.status
    claim,      \* the connection a job got the lock on, while it counts on it
    attempts,   \* executions of an auto-name task so far
    broken,     \* history: auto-name tasks that raised
    queue,      \* messages ready: a job and a task
    exec,       \* the task a process executes and how far it is
    cancels, redeliveries, faults

vars == <<pool, holder, depth, status, claim, attempts, broken, queue, exec,
          cancels, redeliveries, faults>>
counters == <<cancels, redeliveries, faults>>

Tasks == {"start", "stage", "finalize", "name"}
Idle  == [pc |-> "idle"]

TypeOK ==
    /\ pool \in [Processes -> {<<>>, <<1>>, <<1, 2>>, <<2, 1>>}]
    /\ holder \in Conns \cup {None}
    /\ depth \in Nat /\ (depth = 0 <=> holder = None)
    /\ status \in [Runs -> {"queued", "running", "completed", "failed", "cancelled"}]
    /\ claim \in [Jobs -> Conns \cup {None}]
    /\ attempts \in [AutoNames -> 0..MaxAttempts]
    /\ broken \subseteq AutoNames
    /\ queue \subseteq Jobs \X Tasks
    /\ exec \in [Processes -> [pc : {"work", "closing", "done", "raised"}, job : Jobs, task : Tasks]
                              \cup {Idle}]
    /\ cancels \in 0..MaxCancels
    /\ redeliveries \in 0..MaxFaults
    /\ faults \in 0..MaxFaults

Init ==
    /\ pool = [p \in Processes |-> <<>>]
    /\ holder = None /\ depth = 0
    /\ status = [r \in Runs |-> "queued"]
    /\ claim = [j \in Jobs |-> None]
    /\ attempts = [a \in AutoNames |-> 0]
    /\ broken = {}
    /\ queue = (Runs \X {"start"}) \cup (AutoNames \X {"name"})
    /\ exec = [p \in Processes |-> Idle]
    /\ cancels = 0 /\ redeliveries = 0 /\ faults = 0

-----------------------------------------------------------------------------
(* Connections and the lock.                                               *)

\* The connection the next transaction of a process gets, and the pool after it.
NextConn(s) == IF s = <<>> THEN 1 ELSE Head(s)
After(s)    == IF s = <<>> THEN <<1>> ELSE Append(Tail(s), Head(s))
After2(s)   == After(After(s))

\* After the transactions of a stage body or a renaming: as many as the sheets
\* need, and a second connection once a model call inside one of them records
\* its cost in a session of its own.
AfterBody(s) == {After(s), After2(s)}
AfterStage(s) == AfterBody(s) \cup (IF Len(After(s)) = 1 THEN {<<1, 2>>, <<2, 1>>} ELSE {})

Free(c) == holder \in {None, c}
TryLock(c) == holder' = c /\ depth' = depth + 1

\* The lock after n unlock calls on connection c: an unlock elsewhere does nothing.
UnlockTimes(c, n) ==
    LET left == IF holder # c THEN depth ELSE IF depth > n THEN depth - n ELSE 0
    IN depth' = left /\ holder' = IF left = 0 THEN None ELSE holder
UnlockAll(c) == UnlockTimes(c, depth)       \* seeded defect: every level is released
Unlock(c) == UnlockTimes(c, 1)

Conn(p, s) == <<p, NextConn(s)>>
Pool(p, s) == pool' = [pool EXCEPT ![p] = s]

Receive(p, j, t) == exec[p] = Idle /\ <<j, t>> \in queue /\ queue' = queue \ {<<j, t>>}
Enter(p, j, t, pc) == exec' = [exec EXCEPT ![p] = [pc |-> pc, job |-> j, task |-> t]]
Goto(p, pc) == exec' = [exec EXCEPT ![p].pc = pc]
At(p, t, pc) == exec[p] # Idle /\ exec[p].task = t /\ exec[p].pc = pc

SetStatus(r, s) == status' = [status EXCEPT ![r] = s]
Claim(j, c)     == claim' = [claim EXCEPT ![j] = c]
Terminal        == {"completed", "failed", "cancelled"}

-----------------------------------------------------------------------------
(* start_ai_run.                                                           *)

StartSkip(p, r) ==
    /\ Receive(p, r, "start")
    /\ status[r] \in Terminal
    /\ Enter(p, r, "start", "done")
    /\ Pool(p, After(pool[p]))
    /\ UNCHANGED <<holder, depth, status, claim, attempts, broken, counters>>

\* The lock and the status are one transaction, the refresh of the row a second.
StartAccepted(p, r) ==
    LET c == Conn(p, pool[p]) IN
    /\ Receive(p, r, "start")
    /\ status[r] \notin Terminal
    /\ Free(c)
    /\ TryLock(c)
    /\ SetStatus(r, "running")
    /\ Claim(r, c)
    /\ Enter(p, r, "start", "done")
    /\ Pool(p, After2(pool[p]))
    /\ UNCHANGED <<attempts, broken, counters>>

StartContendedMisspelt(p, r) ==    \* seeded defect: a status no client knows
    /\ Receive(p, r, "start")
    /\ status[r] \notin Terminal
    /\ ~Free(Conn(p, pool[p]))
    /\ SetStatus(r, "locked")
    /\ Claim(r, None)
    /\ Enter(p, r, "start", "done")
    /\ Pool(p, After2(pool[p]))
    /\ UNCHANGED <<holder, depth, attempts, broken, counters>>

StartContendedGoesOn(p, r) ==      \* seeded defect: no return after the refusal
    /\ Receive(p, r, "start")
    /\ status[r] \notin Terminal
    /\ ~Free(Conn(p, pool[p]))
    /\ SetStatus(r, "running")
    /\ Enter(p, r, "start", "done")
    /\ Pool(p, After2(pool[p]))
    /\ UNCHANGED <<holder, depth, claim, attempts, broken, counters>>

StartContended(p, r) ==
    /\ Receive(p, r, "start")
    /\ status[r] \notin Terminal
    /\ ~Free(Conn(p, pool[p]))
    /\ SetStatus(r, "failed")
    /\ Claim(r, None)
    /\ Enter(p, r, "start", "done")
    /\ Pool(p, After2(pool[p]))
    /\ UNCHANGED <<holder, depth, attempts, broken, counters>>

\* The update after the lock raises: the except block unlocks on the next
\* connection and marks the run as failed (two more transactions).
StartBreaks(p, r) ==
    LET c == Conn(p, pool[p])
        d == Conn(p, After(pool[p]))
    IN /\ redeliveries + faults < MaxFaults
       /\ faults' = faults + 1
       /\ Receive(p, r, "start")
       /\ status[r] \notin Terminal
       /\ Free(c)
       /\ IF c = d THEN UNCHANGED <<holder, depth>> ELSE TryLock(c)
       /\ SetStatus(r, "failed")
       /\ Claim(r, None)
       /\ Enter(p, r, "start", "raised")
       /\ Pool(p, After2(After2(pool[p])))
       /\ UNCHANGED <<attempts, broken, cancels, redeliveries>>

-----------------------------------------------------------------------------
(* _run_stage: one stage stands for the four.                              *)

StageSkip(p, r) ==
    /\ Receive(p, r, "stage")
    /\ status[r] \in Terminal
    /\ Enter(p, r, "stage", "done")
    /\ Pool(p, After(pool[p]))
    /\ UNCHANGED <<holder, depth, status, claim, attempts, broken, counters>>

StageBegin(p, r) ==
    /\ Receive(p, r, "stage")
    /\ status[r] \notin Terminal
    /\ Enter(p, r, "stage", "work")
    /\ UNCHANGED <<pool, holder, depth, status, claim, attempts, broken, counters>>

\* The timing and the re-read of the row.
StageEnds(p) ==
    /\ At(p, "stage", "work")
    /\ Goto(p, "done")
    /\ \E s \in AfterStage(pool[p]) : Pool(p, After2(s))
    /\ UNCHANGED <<holder, depth, status, claim, attempts, broken, queue, counters>>

\* The except block: the timing, then the unlock, then three more transactions.
StageFails(p) ==
    LET r == exec[p].job IN
    /\ At(p, "stage", "work")
    /\ Goto(p, "raised")
    /\ \E s \in AfterStage(pool[p]) :
           /\ Unlock(Conn(p, After(s)))
           /\ Pool(p, After2(After2(After(s))))
    /\ SetStatus(r, "failed")
    /\ Claim(r, None)
    /\ UNCHANGED <<attempts, broken, queue, counters>>

-----------------------------------------------------------------------------
(* finalize_ai_run.                                                        *)

FinalizeSkip(p, r) ==
    /\ Receive(p, r, "finalize")
    /\ status[r] \in {"failed", "cancelled"}
    /\ Enter(p, r, "finalize", "done")
    /\ Pool(p, After(pool[p]))
    /\ UNCHANGED <<holder, depth, status, claim, attempts, broken, counters>>

FinalizeRelease(p, r) ==
    /\ Receive(p, r, "finalize")
    /\ status[r] \notin {"failed", "cancelled"}
    /\ Unlock(Conn(p, pool[p]))
    /\ Claim(r, None)
    /\ Enter(p, r, "finalize", "closing")
    /\ Pool(p, After(pool[p]))
    /\ UNCHANGED <<status, attempts, broken, counters>>

\* A later call raises: the except block unlocks once more, on the next connection.
FinalizeBreaks(p, r) ==
    LET c == Conn(p, pool[p])
        d == Conn(p, After(pool[p]))
    IN /\ redeliveries + faults < MaxFaults
       /\ faults' = faults + 1
       /\ Receive(p, r, "finalize")
       /\ status[r] \notin {"failed", "cancelled"}
       /\ IF c = d THEN UnlockTimes(c, 2) ELSE Unlock(IF holder = c THEN c ELSE d)
       /\ SetStatus(r, "failed")
       /\ Claim(r, None)
       /\ Enter(p, r, "finalize", "raised")
       /\ Pool(p, After2(After2(pool[p])))
       /\ UNCHANGED <<attempts, broken, cancels, redeliveries>>

\* The status, the lock_state and the timing.
FinalizeCompleted(p) ==
    /\ At(p, "finalize", "closing")
    /\ SetStatus(exec[p].job, "completed")
    /\ Goto(p, "done")
    /\ Pool(p, After2(After(pool[p])))
    /\ UNCHANGED <<holder, depth, claim, attempts, broken, queue, counters>>

-----------------------------------------------------------------------------
(* reextract_plan_titles_task.                                             *)

NameLocked(p, a) ==
    LET c == Conn(p, pool[p]) IN
    /\ Receive(p, a, "name")
    /\ Free(c)
    /\ TryLock(c)
    /\ Claim(a, c)
    /\ attempts' = [attempts EXCEPT ![a] = IF @ < MaxAttempts THEN @ + 1 ELSE @]
    /\ Enter(p, a, "name", "work")
    /\ Pool(p, After(pool[p]))
    /\ UNCHANGED <<status, broken, counters>>

NameRetriesForever(p, a) ==        \* seeded defect: the retries are not counted
    /\ exec[p] = Idle
    /\ <<a, "name">> \in queue
    /\ ~Free(Conn(p, pool[p]))
    /\ Pool(p, After(pool[p]))
    /\ UNCHANGED <<holder, depth, status, claim, attempts, broken, queue, exec, counters>>

\* The lock is busy: the task puts itself back.
NameBusy(p, a) ==
    /\ exec[p] = Idle
    /\ <<a, "name">> \in queue
    /\ ~Free(Conn(p, pool[p]))
    /\ attempts[a] + 1 < MaxAttempts
    /\ attempts' = [attempts EXCEPT ![a] = @ + 1]
    /\ Pool(p, After(pool[p]))
    /\ UNCHANGED <<holder, depth, status, claim, broken, queue, exec, counters>>

\* With its retries used up, self.retry raises, and the except block unlocks a
\* lock the task does not have.
NameGivesUp(p, a) ==
    /\ Receive(p, a, "name")
    /\ ~Free(Conn(p, pool[p]))
    /\ attempts[a] + 1 >= MaxAttempts
    /\ attempts' = [attempts EXCEPT ![a] = MaxAttempts]
    /\ broken' = broken \cup {a}
    /\ Unlock(Conn(p, After(pool[p])))
    /\ Enter(p, a, "name", "done")
    /\ Pool(p, After2(pool[p]))
    /\ UNCHANGED <<status, claim, counters>>

\* The renaming, then the unlock of the finally block.
NameEnds(p) ==
    LET a == exec[p].job IN
    /\ At(p, "name", "work")
    /\ Goto(p, "done")
    /\ \E s \in AfterBody(pool[p]) : Unlock(Conn(p, s)) /\ Pool(p, After(s))
    /\ Claim(a, None)
    /\ UNCHANGED <<status, attempts, broken, queue, counters>>

\* The download or the renaming raises: the finally block unlocks and the except
\* block unlocks again, each on the connection it gets.
NameFails(p) ==
    LET a == exec[p].job IN
    /\ At(p, "name", "work")
    /\ Goto(p, "raised")
    /\ \E s \in {pool[p]} \cup AfterBody(pool[p]) :
           LET c == Conn(p, s)
               d == Conn(p, After(s))
           IN /\ IF c = d THEN UnlockTimes(c, 2) ELSE Unlock(IF holder = c THEN c ELSE d)
              /\ Pool(p, After2(s))
    /\ broken' = broken \cup {a}
    /\ Claim(a, None)
    /\ UNCHANGED <<status, attempts, queue, counters>>

-----------------------------------------------------------------------------
(* Around the tasks.                                                       *)

Following(j, t) ==
    CASE t = "start" -> {<<j, "stage">>} [] t = "stage" -> {<<j, "finalize">>} [] OTHER -> {}

Returned(p) ==
    /\ exec[p].pc = "done"
    /\ queue' = queue \cup Following(exec[p].job, exec[p].task)
    /\ exec' = [exec EXCEPT ![p] = Idle]
    /\ UNCHANGED <<pool, holder, depth, status, claim, attempts, broken, counters>>

\* The exception is one of autoretry_for, or it ends the chain.
Raised(p) ==
    LET j == exec[p].job
        t == exec[p].task
    IN /\ exec[p].pc = "raised"
       /\ \/ queue' = queue \cup {<<j, t>>} /\ (t = "name" => attempts[j] < MaxAttempts)
          \/ UNCHANGED queue
       /\ exec' = [exec EXCEPT ![p] = Idle]
       /\ UNCHANGED <<pool, holder, depth, status, claim, attempts, broken, counters>>

\* cancel_run unlocks on a connection of the API's pool, which never has the lock.
Cancel(r) ==
    /\ cancels < MaxCancels
    /\ cancels' = cancels + 1
    /\ status[r] \in {"queued", "running"}
    /\ SetStatus(r, "cancelled")
    /\ Claim(r, None)
    /\ UNCHANGED <<pool, holder, depth, attempts, broken, queue, exec, redeliveries, faults>>

\* Tasks of other plans use the connections of the process too.
OtherTask(p) ==
    /\ exec[p] = Idle
    /\ \E s \in AfterStage(pool[p]) : Pool(p, s)
    /\ UNCHANGED <<holder, depth, status, claim, attempts, broken, queue, exec, counters>>

\* The database ends the sessions of a dead process and with them their locks.
Die(p) ==
    /\ Pool(p, <<>>)
    /\ exec' = [exec EXCEPT ![p] = Idle]
    /\ IF holder # None /\ holder[1] = p
         THEN holder' = None /\ depth' = 0
         ELSE UNCHANGED <<holder, depth>>

\* acks_late: the message of a killed worker comes back, a lost child's does not.
WorkerKilled(p) ==
    /\ exec[p] # Idle
    /\ redeliveries + faults < MaxFaults
    /\ redeliveries' = redeliveries + 1
    /\ queue' = queue \cup {<<exec[p].job, exec[p].task>>}
    /\ Die(p)
    /\ UNCHANGED <<status, claim, attempts, broken, cancels, faults>>

VisibilityTimeout(p) ==
    /\ exec[p] # Idle
    /\ redeliveries + faults < MaxFaults
    /\ redeliveries' = redeliveries + 1
    /\ queue' = queue \cup {<<exec[p].job, exec[p].task>>}
    /\ UNCHANGED <<pool, holder, depth, status, claim, attempts, broken, exec, cancels, faults>>

ChildLost(p) ==
    /\ redeliveries + faults < MaxFaults
    /\ faults' = faults + 1
    /\ Die(p)
    /\ UNCHANGED <<status, claim, attempts, broken, queue, cancels, redeliveries>>

-----------------------------------------------------------------------------
RunTask(p, r) ==
    \/ StartSkip(p, r) \/ StartAccepted(p, r) \/ StartContended(p, r)
    \/ StageSkip(p, r) \/ StageBegin(p, r)
    \/ FinalizeSkip(p, r) \/ FinalizeRelease(p, r)

NameTask(p, a) == NameLocked(p, a) \/ NameBusy(p, a) \/ NameGivesUp(p, a)

Execute(p) ==
    \/ StageEnds(p) \/ StageFails(p) \/ FinalizeCompleted(p)
    \/ NameEnds(p) \/ NameFails(p) \/ Returned(p) \/ Raised(p)

Step(p) ==
    \/ \E r \in Runs : RunTask(p, r)
    \/ \E a \in AutoNames : NameTask(p, a)
    \/ Execute(p)

Environment ==
    \/ \E r \in Runs : Cancel(r)
    \/ \E p \in Processes : \/ OtherTask(p) \/ WorkerKilled(p) \/ VisibilityTimeout(p) \/ ChildLost(p)
                            \/ \E r \in Runs : StartBreaks(p, r) \/ FinalizeBreaks(p, r)

Next == Environment \/ \E p \in Processes : Step(p)

Spec == Init /\ [][Next]_vars

(* A worker process goes on receiving messages and executing tasks.        *)
Fairness == \A p \in Processes : WF_vars(Step(p))

FairSpec == Spec /\ Fairness

-----------------------------------------------------------------------------
(* Properties.                                                             *)

\* While a run or an auto-name task counts on the lock, the connection it got
\* the lock on still has it, and so no other connection can get it: releases by
\* others, on whatever connection the pool hands them, cancels and the refused
\* starts take nothing from it.  An auto-name task that raises unlocks once too
\* often, and so may a task executed twice: the claim excepts both.
ClaimsAreHeld ==
    broken = {} /\ redeliveries = 0 /\ faults = 0 =>
        \A j \in Jobs : claim[j] # None => holder = claim[j]

\* A stage works on the plan only under the lock: its run has not been refused,
\* and no unlock of another job has taken the lock away (same exceptions).
StagesRunUnderTheLock ==
    broken = {} /\ redeliveries = 0 /\ faults = 0 =>
        \A p \in Processes :
            LET r == exec[p].job
            IN At(p, "stage", "work") /\ status[r] = "running"
                  => holder # None /\ holder = claim[r]

\* Nobody waits for the lock: every run reaches a terminal status and every
\* auto-name task ends, whoever keeps the lock, unless a process dies.
JobsEnd ==
    /\ \A r \in Runs : <>(status[r] \in Terminal \/ faults > 0)
    /\ \A a \in AutoNames :
           <>(faults > 0 \/ (<<a, "name">> \notin queue /\ \A p \in Processes :
                                                     exec[p] # Idle => exec[p].job # a))
=============================================================================
