---------------------------- MODULE AiRunProofs ----------------------------
(***************************************************************************)
(* Proofs about AiRun for every set of runs and workers, every length of   *)
(* the chain and every bound on cancels, redeliveries and faults.          *)
(***************************************************************************)
EXTENDS AiRun, TLAPS

\* Every stage body before position t was committed and has its entry.
Before(r, t) ==
    \A u \in Body : u < t => applied[r][u] > 0 /\ entry[r][u] # "none"

\* Nothing of a run exists before its row does.
NotYetCreated ==
    \A r \in Runs : api[r] \in {"idle", "admitted"} =>
        /\ status[r] = "absent"
        /\ ~cancelling[r]
        /\ \A t \in Tasks : msgs[r][t] = 0
        /\ \A w \in Workers : worker[w] # Idle => worker[w].run # r

\* The position a program counter belongs to.
PCMatchesTask ==
    \A w \in Workers :
        /\ At(w, "body") \/ At(w, "recording") \/ At(w, "failing") => worker[w].task \in Body
        /\ At(w, "locked") \/ At(w, "contended") => worker[w].task = Start
        /\ At(w, "completing") \/ At(w, "stamping") => worker[w].task = Finalize

\* What position t of a run may rest on: the stages before it, unless the run
\* is over and nothing of it will be done any more.
Earned(r, t) == status[r] \in Terminal \/ Before(r, t)

\* A message for position t of a live run means the stages before t are done.
MessagesEarned ==
    \A r \in Runs \ revived : \A t \in Tasks :
        msgs[r][t] > 0 => Earned(r, t)

\* So does a worker at position t; one past the check of its task knows it for
\* good, and one about to hand on knows it of position t + 1.
WorkersEarned ==
    \A w \in Workers : worker[w] # Idle /\ worker[w].run \notin revived =>
        LET r == worker[w].run
            t == worker[w].task
        IN /\ Earned(r, t)
           /\ worker[w].pc \in {"body", "recording", "failing", "completing", "stamping"}
                 => Before(r, t)
           /\ worker[w].pc = "recording" => applied[r][t] > 0
           /\ worker[w].pc = "done" => Earned(r, t + 1)

CompletedEarned == \A r \in Runs \ revived : status[r] = "completed" => Before(r, Finalize)

ChainInv ==
    /\ TypeOK
    /\ NotYetCreated
    /\ PCMatchesTask
    /\ MessagesEarned
    /\ WorkersEarned
    /\ CompletedEarned
    /\ StagesInOrder

-----------------------------------------------------------------------------
(* Type correctness.                                                       *)

LEMMA TaskFacts ==
    /\ Start \in Tasks /\ Finalize \in Tasks /\ Finalize \in Stages
    /\ Body \subseteq Tasks /\ Body \subseteq Stages
    /\ Tasks \subseteq Nat
    /\ \A t \in Tasks : t # Finalize => t + 1 \in Tasks
    /\ \A t \in Body : t < Finalize
BY ConstantsAssumption DEF Tasks, Body, Start, Finalize, Stages

\* A worker with a program counter other than "idle" has a job.
LEMMA BusyIsJob ==
    ASSUME TypeOK, NEW w \in Workers, worker[w].pc # "idle" \/ worker[w] # Idle
    PROVE  worker[w] \in Jobs
BY DEF TypeOK, Idle

\* A step is a request's, a worker's or the environment's, or it is none.
LEMMA StepCases ==
    ASSUME [Next]_vars
    PROVE  \/ \E q \in Runs : Request(q) \/ CancelCheck(q) \/ CancelWrite(q)
           \/ \E w \in Workers : TakeTask(w)
           \/ \E w \in Workers : RunTask(w)
           \/ Environment \/ UNCHANGED vars
BY DEF Next

LEMMA GotoType ==
    ASSUME TypeOK, NEW w \in Workers, worker[w] \in Jobs, NEW pc \in BusyPC, Goto(w, pc)
    PROVE  worker' \in [Workers -> Jobs \cup {Idle}]
<1>1. [worker[w] EXCEPT !.pc = pc] \in Jobs
  BY DEF Jobs
<1>2. worker' = [worker EXCEPT ![w] = [worker[w] EXCEPT !.pc = pc]]
  BY DEF Goto, TypeOK
<1>3. QED
  BY <1>1, <1>2 DEF TypeOK

LEMMA TakeType ==
    ASSUME TypeOK, NEW w \in Workers, NEW r \in Runs, NEW t \in Tasks, NEW pc \in BusyPC,
           Take(w, r, t, pc)
    PROVE  TypeOK'
<1>1. [pc |-> pc, run |-> r, task |-> t] \in Jobs
  BY DEF Jobs
<1>2. worker' \in [Workers -> Jobs \cup {Idle}]
  BY <1>1 DEF Take, TypeOK
<1>3. msgs' \in [Runs -> [Tasks -> Nat]]
  BY DEF Take, TypeOK
<1>4. QED
  BY <1>2, <1>3 DEF Take, TypeOK, row, history, counters

LEMMA PublishType ==
    ASSUME TypeOK, NEW r \in Runs, NEW t \in Tasks, Publish(r, t)
    PROVE  msgs' \in [Runs -> [Tasks -> Nat]]
<1>1. msgs[r] \in [Tasks -> Nat] /\ msgs[r][t] + 1 \in Nat
  BY DEF TypeOK
<1>2. msgs' = [msgs EXCEPT ![r] = [msgs[r] EXCEPT ![t] = @ + 1]]
  BY DEF TypeOK, Publish
<1>3. [msgs[r] EXCEPT ![t] = @ + 1] \in [Tasks -> Nat]
  BY <1>1
<1>4. QED
  BY <1>2, <1>3 DEF TypeOK

LEMMA ApplyType ==
    ASSUME TypeOK, NEW r \in Runs, NEW t \in Tasks, Apply(r, t)
    PROVE  applied' \in [Runs -> [Body -> Nat]]
<1>1. applied[r] \in [Body -> Nat] /\ (t \in Body => applied[r][t] + 1 \in Nat)
  BY DEF TypeOK
<1>2. applied' = [applied EXCEPT ![r] = [applied[r] EXCEPT ![t] = @ + 1]]
  BY DEF TypeOK, Apply
<1>3. [applied[r] EXCEPT ![t] = @ + 1] \in [Body -> Nat]
  BY <1>1
<1>4. QED
  BY <1>2, <1>3 DEF TypeOK

\* One step per group of actions; a step that only moves a worker or writes one
\* column is typed by the lemmas above.
LEMMA TypeStep == TypeOK /\ [Next]_vars => TypeOK'
<1> SUFFICES ASSUME TypeOK, [Next]_vars PROVE TypeOK'
  OBVIOUS
<1> USE ConstantsAssumption, TaskFacts
<1>1. ASSUME NEW r \in Runs, Request(r) PROVE TypeOK'
  <2>1. CASE Admit(r)
    BY <2>1 DEF Admit, TypeOK, row, history, counters
  <2>2. CASE Refuse(r)
    BY <2>2 DEF Refuse, TypeOK, row, history, counters
  <2>3. CASE CreateRun(r)
    BY <2>3 DEF CreateRun, TypeOK, Status, history, counters
  <2>4. CASE Enqueue(r)
    BY <2>4 DEF Enqueue, TypeOK, row, history, counters
  <2>5. QED
    BY <1>1, <2>1, <2>2, <2>3, <2>4 DEF Request
<1>2. ASSUME NEW r \in Runs, CancelCheck(r) PROVE TypeOK'
  BY <1>2 DEF CancelCheck, TypeOK, row, history
<1>3. ASSUME NEW r \in Runs, CancelWrite(r) PROVE TypeOK'
  BY <1>3 DEF CancelWrite, TypeOK, Status, counters
<1>4. ASSUME NEW w \in Workers, TakeTask(w) PROVE TypeOK'
  <2> PICK r \in Runs :
        \/ StartSkip(w, r) \/ StartLock(w, r) \/ StageSkip(w, r) \/ StageBegin(w, r)
        \/ FinalizeSkip(w, r) \/ FinalizeBegin(w, r)
    BY <1>4 DEF TakeTask
  <2>1. PICK t \in Tasks, pc \in BusyPC : Take(w, r, t, pc)
    BY DEF StartSkip, StartLock, StageSkip, StageBegin, FinalizeSkip, FinalizeBegin, BusyPC
  <2>2. QED
    BY <2>1, TakeType
<1>5. ASSUME NEW w \in Workers, RunTask(w) PROVE TypeOK'
  <2>1. worker[w] \in Jobs
    BY <1>5, BusyIsJob DEF RunTask, StartRunning, StartContended, StageBody, StageBodyRaises,
       StageRecord, FailureRecord, FailureStatus, FinalizeCompleted, FinalizeRecord, HandOff,
       Retry, GiveUp, Ack, At
  <2>2. worker[w].run \in Runs /\ worker[w].task \in Tasks
    BY <2>1 DEF Jobs
  <2>3. worker' \in [Workers -> Jobs \cup {Idle}]
    <3>1. CASE Ack(w)
      BY <3>1 DEF Ack, TypeOK
    <3>2. CASE ~Ack(w)
      <4>1. PICK pc \in BusyPC : Goto(w, pc)
        BY <1>5, <3>2 DEF RunTask, StartRunning, StartContended, StageBody, StageBodyRaises,
           StageRecord, FailureRecord, FailureStatus, FinalizeCompleted, FinalizeRecord,
           HandOff, Retry, GiveUp, BusyPC
      <4>2. QED
        BY <4>1, <2>1, GotoType
    <3>3. QED
      BY <3>1, <3>2
  <2>4. CASE StartRunning(w) \/ StartContended(w) \/ FailureStatus(w) \/ FinalizeCompleted(w)
    BY <2>2, <2>3, <2>4 DEF StartRunning, StartContended, FailureStatus, FinalizeCompleted,
       TypeOK, Status, counters, history
  <2>5. CASE StageBody(w) \/ StageBodyRaises(w)
    <3>1. applied' \in [Runs -> [Body -> Nat]]
      BY <2>2, <2>5, ApplyType DEF StageBody, StageBodyRaises, TypeOK
    <3>2. QED
      BY <3>1, <2>3, <2>5 DEF StageBody, StageBodyRaises, TypeOK, counters, history
  <2>6. CASE StageRecord(w) \/ FailureRecord(w)
    <3> DEFINE r == worker[w].run
    <3>1. PICK e \in {"ok", "error"} : entry' = [entry EXCEPT ![r][worker[w].task] = e]
      BY <2>6 DEF StageRecord, FailureRecord
    <3>2. entry' = [entry EXCEPT ![r] = [entry[r] EXCEPT ![worker[w].task] = e]]
      BY <3>1, <2>2 DEF TypeOK
    <3>3. [entry[r] EXCEPT ![worker[w].task] = e] \in [Stages -> {"none", "ok", "error"}]
      BY <2>2 DEF TypeOK
    <3>4. entry' \in [Runs -> [Stages -> {"none", "ok", "error"}]]
      BY <3>2, <3>3, <2>2 DEF TypeOK
    <3>5. QED
      BY <3>4, <2>3, <2>6 DEF StageRecord, FailureRecord, TypeOK, counters, history
  <2>7. CASE FinalizeRecord(w)
    BY <2>2, <2>3, <2>7 DEF FinalizeRecord, TypeOK, counters, history
  <2>8. CASE HandOff(w) \/ Retry(w) \/ GiveUp(w) \/ Ack(w)
    <3>1. msgs' \in [Runs -> [Tasks -> Nat]]
      BY <2>2, <2>8, PublishType DEF HandOff, ChainNext, Retry, GiveUp, Ack, TypeOK
    <3>2. QED
      BY <3>1, <2>3, <2>8 DEF HandOff, Retry, GiveUp, Ack, TypeOK, row, counters, history
  <2>9. QED
    BY <1>5, <2>4, <2>5, <2>6, <2>7, <2>8 DEF RunTask
<1>6. CASE Environment
  <2>1. ASSUME NEW r \in Runs, EnqueueFails(r) PROVE TypeOK'
    BY <2>1 DEF EnqueueFails, TypeOK, row, history
  <2>2. ASSUME NEW w \in Workers, WorkerKilled(w) \/ VisibilityTimeout(w) PROVE TypeOK'
    <3>1. worker[w].run \in Runs /\ worker[w].task \in Tasks
      BY <2>2, BusyIsJob DEF WorkerKilled, VisibilityTimeout, Busy, Jobs
    <3>2. msgs' \in [Runs -> [Tasks -> Nat]]
      BY <2>2, <3>1, PublishType DEF WorkerKilled, VisibilityTimeout
    <3>3. QED
      BY <2>2, <3>2 DEF WorkerKilled, VisibilityTimeout, TypeOK, row, history
  <2>3. ASSUME NEW w \in Workers, ChildLost(w) PROVE TypeOK'
    BY <2>3 DEF ChildLost, TypeOK, row, history
  <2>4. ASSUME NEW w \in Workers, DatabaseFault(w) PROVE TypeOK'
    <3>1. worker[w] \in Jobs
      BY <2>4, BusyIsJob DEF DatabaseFault, Busy
    <3>2. PICK pc \in BusyPC : Goto(w, pc)
      BY <2>4 DEF DatabaseFault, BusyPC
    <3>3. worker' \in [Workers -> Jobs \cup {Idle}]
      BY <3>1, <3>2, GotoType
    <3>4. QED
      BY <2>4, <3>3 DEF DatabaseFault, TypeOK, row, history
  <2>5. QED
    BY <1>6, <2>1, <2>2, <2>3, <2>4 DEF Environment
<1>7. CASE UNCHANGED vars
  BY <1>7 DEF vars, TypeOK
<1>8. QED
  BY <1>1, <1>2, <1>3, <1>4, <1>5, <1>6, <1>7 DEF Next

\* Every variable keeps its type: in particular no status but the six the
\* clients know is ever written, and no message leaves the chain.
THEOREM TypeCorrect == Spec => []TypeOK
<1>1. Init => TypeOK
  BY ConstantsAssumption DEF Init, TypeOK, Status
<1>2. QED
  BY <1>1, TypeStep, PTL DEF Spec

-----------------------------------------------------------------------------
(* The chain invariant.                                                    *)

\* Committed effects and entries stay: nothing resets a stage.
Grows ==
    \A r \in Runs :
        /\ \A u \in Body : applied[r][u] > 0 => applied'[r][u] > 0
        /\ \A u \in Stages : entry[r][u] # "none" => entry'[r][u] # "none"

LEMMA StepGrows == TypeOK /\ [Next]_vars => Grows
<1> SUFFICES ASSUME TypeOK, [Next]_vars PROVE Grows
  OBVIOUS
<1>1. ASSUME UNCHANGED <<applied, entry>> PROVE Grows
  BY <1>1 DEF Grows
<1>2. ASSUME NEW w \in Workers, StageBody(w) \/ StageBodyRaises(w) PROVE Grows
  <2>1. CASE UNCHANGED applied
    BY <1>2, <2>1 DEF StageBody, StageBodyRaises, Grows
  <2>2. CASE Apply(worker[w].run, worker[w].task)
    <3>1. \A r \in Runs : \A u \in Body :
             applied'[r][u] = applied[r][u] \/ applied'[r][u] = applied[r][u] + 1
      BY <2>2 DEF Apply, TypeOK
    <3>2. \A r \in Runs : \A u \in Body : applied[r][u] \in Nat
      BY DEF TypeOK
    <3>3. UNCHANGED entry
      BY <1>2 DEF StageBody, StageBodyRaises
    <3>4. QED
      BY <3>1, <3>2, <3>3 DEF Grows
  <2>3. QED
    BY <1>2, <2>1, <2>2 DEF StageBody, StageBodyRaises
<1>3. ASSUME NEW w \in Workers, StageRecord(w) \/ FailureRecord(w) \/ FinalizeRecord(w)
      PROVE Grows
  <2>1. UNCHANGED applied
    BY <1>3 DEF StageRecord, FailureRecord, FinalizeRecord
  <2>2. PICK r \in Runs, s \in Tasks, e \in {"ok", "error"} :
           entry' = [entry EXCEPT ![r][s] = e]
    BY <1>3, BusyIsJob, TaskFacts DEF StageRecord, FailureRecord, FinalizeRecord, At, Jobs
  <2>3. \A q \in Runs : \A u \in Stages : entry'[q][u] \in {entry[q][u], "ok", "error"}
    BY <2>2 DEF TypeOK
  <2>4. QED
    BY <2>1, <2>3 DEF Grows
<1>4. CASE UNCHANGED vars
  BY <1>1, <1>4 DEF vars
<1>5. ASSUME NEW r \in Runs, Request(r) \/ CancelCheck(r) \/ CancelWrite(r) PROVE Grows
  BY <1>1, <1>5 DEF Request, Admit, Refuse, CreateRun, Enqueue, CancelCheck, CancelWrite, row
<1>6. ASSUME NEW w \in Workers, TakeTask(w) PROVE Grows
  BY <1>1, <1>6 DEF TakeTask, StartSkip, StartLock, StageSkip, StageBegin, FinalizeSkip,
     FinalizeBegin, Take, row
<1>7. ASSUME NEW w \in Workers, RunTask(w) PROVE Grows
  BY <1>1, <1>2, <1>3, <1>7 DEF RunTask, StartRunning, StartContended, FailureStatus,
     FinalizeCompleted, HandOff, Retry, GiveUp, Ack, row
<1>8. CASE Environment
  BY <1>1, <1>8 DEF Environment, EnqueueFails, WorkerKilled, VisibilityTimeout, ChildLost,
     DatabaseFault, row
<1>9. QED
  BY <1>4, <1>5, <1>6, <1>7, <1>8 DEF Next

LEMMA BeforeStays ==
    ASSUME TypeOK, [Next]_vars, NEW r \in Runs, NEW t \in Int, Before(r, t)
    PROVE  Before(r, t)'
<1>1. Body \subseteq Stages
  BY TaskFacts
<1>2. QED
  BY <1>1, StepGrows DEF Before, Grows

\* A run that start_ai_run does not revive stays over once it is over.
LEMMA TerminalStays ==
    ASSUME TypeOK, NotYetCreated, [Next]_vars, NEW r \in Runs \ revived',
           status[r] \in Terminal
    PROVE  status'[r] \in Terminal
<1> USE DEF Terminal
<1>1. CASE UNCHANGED status
  BY <1>1
<1>2. ASSUME NEW q \in Runs, CreateRun(q) PROVE status'[r] \in Terminal
  BY <1>2 DEF CreateRun, NotYetCreated, TypeOK
<1>3. ASSUME NEW q \in Runs, CancelWrite(q) PROVE status'[r] \in Terminal
  BY <1>3 DEF CancelWrite, TypeOK
<1>4. ASSUME NEW w \in Workers,
             StartContended(w) \/ FailureStatus(w) \/ FinalizeCompleted(w)
      PROVE  status'[r] \in Terminal
  BY <1>4 DEF StartContended, FailureStatus, FinalizeCompleted, TypeOK
<1>5. ASSUME NEW w \in Workers, StartRunning(w) PROVE status'[r] \in Terminal
  <2>1. worker[w].run # r
    BY <1>5 DEF StartRunning
  <2>2. QED
    BY <1>5, <2>1 DEF StartRunning, TypeOK
<1>6. ASSUME NEW q \in Runs, Request(q) \/ CancelCheck(q) \/ CancelWrite(q)
      PROVE  status'[r] \in Terminal
  BY <1>1, <1>2, <1>3, <1>6 DEF Request, Admit, Refuse, Enqueue, CancelCheck, row
<1>7. ASSUME NEW w \in Workers, TakeTask(w) PROVE status'[r] \in Terminal
  BY <1>1, <1>7 DEF TakeTask, StartSkip, StartLock, StageSkip, StageBegin, FinalizeSkip,
     FinalizeBegin, Take, row
<1>8. ASSUME NEW w \in Workers, RunTask(w) PROVE status'[r] \in Terminal
  BY <1>1, <1>4, <1>5, <1>8 DEF RunTask, StageBody, StageBodyRaises, StageRecord,
     FailureRecord, FinalizeRecord, HandOff, Retry, GiveUp, Ack, row
<1>9. CASE Environment
  BY <1>1, <1>9 DEF Environment, EnqueueFails, WorkerKilled, VisibilityTimeout, ChildLost,
     DatabaseFault, row
<1>10. CASE UNCHANGED vars
  BY <1>1, <1>10 DEF vars
<1>11. QED
  BY <1>6, <1>7, <1>8, <1>9, <1>10 DEF Next

LEMMA RevivedGrows ==
    ASSUME [Next]_vars
    PROVE  revived \subseteq revived'
<1>1. ASSUME NEW r \in Runs, Request(r) \/ CancelCheck(r) \/ CancelWrite(r)
      PROVE  UNCHANGED revived
  BY <1>1 DEF Request, Admit, Refuse, CreateRun, Enqueue, CancelCheck, CancelWrite, history
<1>2. ASSUME NEW w \in Workers, TakeTask(w) PROVE UNCHANGED revived
  BY <1>2 DEF TakeTask, StartSkip, StartLock, StageSkip, StageBegin, FinalizeSkip,
     FinalizeBegin, Take, history
<1>3. ASSUME NEW w \in Workers, RunTask(w) PROVE revived \subseteq revived'
  <2>1. CASE StartRunning(w)
    BY <2>1 DEF StartRunning
  <2>2. CASE ~StartRunning(w)
    BY <1>3, <2>2 DEF RunTask, StartContended, StageBody, StageBodyRaises, StageRecord,
       FailureRecord, FailureStatus, FinalizeCompleted, FinalizeRecord, HandOff, Retry, GiveUp,
       Ack, history
  <2>3. QED
    BY <2>1, <2>2
<1>4. CASE Environment
  BY <1>4 DEF Environment, EnqueueFails, WorkerKilled, VisibilityTimeout, ChildLost,
     DatabaseFault, history
<1>5. CASE UNCHANGED vars
  BY <1>5 DEF vars
<1>6. QED
  BY <1>1, <1>2, <1>3, <1>4, <1>5 DEF Next

LEMMA EarnedStays ==
    ASSUME TypeOK, NotYetCreated, [Next]_vars, NEW r \in Runs \ revived', NEW t \in Int,
           Earned(r, t)
    PROVE  Earned(r, t)'
<1>1. CASE status[r] \in Terminal
  BY <1>1, TerminalStays DEF Earned
<1>2. CASE Before(r, t)
  BY <1>2, BeforeStays DEF Earned
<1>3. QED
  BY <1>1, <1>2 DEF Earned

-----------------------------------------------------------------------------
(* Each part of the invariant is preserved.                                *)

\* Where the message copies of the next state come from.
LEMMA MessageSource ==
    ASSUME TypeOK, [Next]_vars, NEW r \in Runs, NEW t \in Tasks, msgs'[r][t] > 0
    PROVE  \/ msgs[r][t] > 0
           \/ t = Start
           \/ \E w \in Workers :
                 /\ worker[w] # Idle /\ worker[w].run = r
                 /\ \/ t = worker[w].task
                    \/ worker[w].pc = "done" /\ t = worker[w].task + 1
<1> DEFINE Goal == \/ msgs[r][t] > 0
                   \/ t = Start
                   \/ \E w \in Workers :
                         /\ worker[w] # Idle /\ worker[w].run = r
                         /\ \/ t = worker[w].task
                            \/ worker[w].pc = "done" /\ t = worker[w].task + 1
<1> SUFFICES Goal
  OBVIOUS
<1>1. CASE UNCHANGED msgs
  BY <1>1
<1>2. ASSUME NEW q \in Runs, Request(q) PROVE Goal
  <2>1. CASE Enqueue(q)
    BY <2>1 DEF Enqueue, TypeOK
  <2>2. CASE ~Enqueue(q)
    BY <1>1, <1>2, <2>2 DEF Request, Admit, Refuse, CreateRun
  <2>3. QED
    BY <2>1, <2>2
<1>3. ASSUME NEW q \in Runs, CancelCheck(q) \/ CancelWrite(q) PROVE Goal
  BY <1>1, <1>3 DEF CancelCheck, CancelWrite
<1>4. ASSUME NEW w \in Workers, TakeTask(w) PROVE Goal
  <2> PICK q \in Runs, u \in Tasks, pc \in BusyPC : Take(w, q, u, pc)
    BY <1>4, TaskFacts DEF TakeTask, StartSkip, StartLock, StageSkip, StageBegin, FinalizeSkip,
       FinalizeBegin, BusyPC
  <2>1. msgs[r] \in [Tasks -> Nat] /\ msgs[q] \in [Tasks -> Nat]
    BY DEF TypeOK
  <2>2. msgs'[r][t] = msgs[r][t] \/ (q = r /\ u = t /\ msgs[r][t] > 0)
    BY <2>1 DEF Take, TypeOK
  <2>3. QED
    BY <2>2
<1>5. ASSUME NEW w \in Workers, worker[w] # Idle, NEW u \in Tasks, Publish(worker[w].run, u),
             u = worker[w].task \/ (worker[w].pc = "done" /\ u = worker[w].task + 1)
      PROVE  Goal
  <2>1. worker[w].run \in Runs
    BY <1>5, BusyIsJob DEF Jobs
  <2>2. CASE worker[w].run = r /\ u = t
    BY <1>5, <2>2
  <2>3. CASE ~(worker[w].run = r /\ u = t)
    BY <1>5, <2>1, <2>3 DEF Publish, TypeOK
  <2>4. QED
    BY <2>2, <2>3
<1>6. ASSUME NEW w \in Workers, RunTask(w) PROVE Goal
  <2>1. CASE HandOff(w) \/ Retry(w)
    <3>1. worker[w] \in Jobs /\ worker[w] # Idle
      BY <2>1, BusyIsJob DEF HandOff, Retry, At, Idle
    <3>2. CASE UNCHANGED msgs
      BY <1>1, <3>2
    <3>3. CASE HandOff(w) /\ ~UNCHANGED msgs
      BY <1>5, <3>1, <3>3, TaskFacts DEF HandOff, ChainNext, At, Jobs
    <3>4. CASE Retry(w)
      <4>1. Publish(worker[w].run, worker[w].task) /\ worker[w].task \in Tasks
        BY <3>1, <3>4 DEF Retry, Jobs
      <4>2. QED
        BY <1>5, <3>1, <4>1 DEF Publish
    <3>5. QED
      BY <2>1, <3>2, <3>3, <3>4
  <2>2. CASE ~(HandOff(w) \/ Retry(w))
    BY <1>1, <1>6, <2>2 DEF RunTask, StartRunning, StartContended, StageBody, StageBodyRaises,
       StageRecord, FailureRecord, FailureStatus, FinalizeCompleted, FinalizeRecord, GiveUp, Ack
  <2>3. QED
    BY <2>1, <2>2
<1>7. CASE Environment
  <2>1. ASSUME NEW w \in Workers, WorkerKilled(w) \/ VisibilityTimeout(w) PROVE Goal
    <3>1. worker[w] # Idle /\ Publish(worker[w].run, worker[w].task)
      BY <2>1 DEF WorkerKilled, VisibilityTimeout, Busy
    <3>2. worker[w].task \in Tasks
      BY <3>1, BusyIsJob DEF Jobs
    <3>3. QED
      BY <1>5, <3>1, <3>2 DEF Publish
  <2>2. QED
    BY <1>1, <1>7, <2>1 DEF Environment, EnqueueFails, ChildLost, DatabaseFault
<1>8. CASE UNCHANGED vars
  BY <1>1, <1>8 DEF vars
<1>9. QED
  BY <1>2, <1>3, <1>4, <1>6, <1>7, <1>8 DEF Next

LEMMA MessagesStep ==
    ASSUME ChainInv, [Next]_vars
    PROVE  MessagesEarned'
<1> SUFFICES ASSUME NEW r \in Runs \ revived', NEW t \in Tasks, msgs'[r][t] > 0
             PROVE  Earned(r, t)'
  BY DEF MessagesEarned
<1> USE DEF ChainInv
<1>1. r \notin revived /\ t \in Int
  BY RevivedGrows, TaskFacts
<1>2. Earned(r, t)
  <2>1. CASE msgs[r][t] > 0
    BY <2>1, <1>1 DEF MessagesEarned
  <2>2. CASE t = Start
    BY <2>2, ConstantsAssumption DEF Earned, Before, Start, Body
  <2>3. CASE \E w \in Workers :
               /\ worker[w] # Idle /\ worker[w].run = r
               /\ \/ t = worker[w].task
                  \/ worker[w].pc = "done" /\ t = worker[w].task + 1
    BY <2>3, <1>1 DEF WorkersEarned
  <2>4. QED
    BY <2>1, <2>2, <2>3, MessageSource
<1>3. QED
  BY <1>1, <1>2, EarnedStays

\* What a worker that changes its job can have done: taken a message, moved on
\* in its task, or gone idle.
LEMMA WorkerMoves ==
    ASSUME TypeOK, [Next]_vars, NEW w \in Workers, worker'[w] # worker[w], worker'[w] # Idle
    PROVE  TakeTask(w) \/ RunTask(w) \/ DatabaseFault(w)
<1> DEFINE Goal == TakeTask(w) \/ RunTask(w) \/ DatabaseFault(w)
<1>1. ASSUME NEW r \in Runs, Request(r) \/ CancelCheck(r) \/ CancelWrite(r) PROVE UNCHANGED worker
  BY <1>1 DEF Request, Admit, Refuse, CreateRun, Enqueue, CancelCheck, CancelWrite
<1>2. ASSUME NEW v \in Workers, v # w, TakeTask(v) PROVE worker'[w] = worker[w]
  BY <1>2 DEF TakeTask, StartSkip, StartLock, StageSkip, StageBegin, FinalizeSkip,
     FinalizeBegin, Take, TypeOK
<1>3. ASSUME NEW v \in Workers, v # w, RunTask(v) PROVE worker'[w] = worker[w]
  BY <1>3 DEF RunTask, StartRunning, StartContended, StageBody, StageBodyRaises, StageRecord,
     FailureRecord, FailureStatus, FinalizeCompleted, FinalizeRecord, HandOff, Retry, GiveUp,
     Ack, Goto, TypeOK
<1>4. ASSUME NEW v \in Workers, v # w, DatabaseFault(v) PROVE worker'[w] = worker[w]
  BY <1>4 DEF DatabaseFault, Goto, TypeOK
<1>5. ASSUME NEW v \in Workers, WorkerKilled(v) \/ ChildLost(v) \/ VisibilityTimeout(v)
      PROVE  worker'[w] = worker[w] \/ worker'[w] = Idle
  BY <1>5 DEF WorkerKilled, ChildLost, VisibilityTimeout, TypeOK
<1>6. ASSUME NEW r \in Runs, EnqueueFails(r) PROVE UNCHANGED worker
  BY <1>6 DEF EnqueueFails
<1>7. CASE UNCHANGED vars
  BY <1>7 DEF vars
<1>8. CASE Next
  BY <1>1, <1>2, <1>3, <1>4, <1>5, <1>6, <1>8 DEF Next, Environment
<1>9. QED
  BY <1>7, <1>8

LEMMA PCStep ==
    ASSUME ChainInv, [Next]_vars
    PROVE  PCMatchesTask'
<1> USE DEF ChainInv
<1> SUFFICES ASSUME NEW w \in Workers
             PROVE  /\ worker'[w].pc \in {"body", "recording", "failing"} => worker'[w].task \in Body
                    /\ worker'[w].pc \in {"locked", "contended"} => worker'[w].task = Start
                    /\ worker'[w].pc \in {"completing", "stamping"} => worker'[w].task = Finalize
  BY DEF PCMatchesTask, At
<1>1. CASE worker'[w] = worker[w]
  BY <1>1 DEF PCMatchesTask, At
<1>2. CASE worker'[w] = Idle
  BY <1>2 DEF Idle
<1>3. CASE TakeTask(w)
  <2> PICK r \in Runs :
        \/ StartSkip(w, r) \/ StartLock(w, r) \/ StageSkip(w, r) \/ StageBegin(w, r)
        \/ FinalizeSkip(w, r) \/ FinalizeBegin(w, r)
    BY <1>3 DEF TakeTask
  <2>1. PICK t \in Tasks, pc \in BusyPC :
          /\ worker'[w] = [pc |-> pc, run |-> r, task |-> t]
          /\ \/ pc = "done"
             \/ pc \in {"locked", "contended"} /\ t = Start
             \/ pc = "body" /\ t \in Body
             \/ pc = "completing" /\ t = Finalize
    BY TaskFacts DEF StartSkip, StartLock, StageSkip, StageBegin, FinalizeSkip, FinalizeBegin,
       Take, BusyPC, TypeOK
  <2>2. QED
    BY <2>1
<1>4. ASSUME NEW from \in BusyPC, NEW to \in BusyPC, At(w, from), Goto(w, to), worker[w] # Idle,
             \/ <<from, to>> \in {<<"body", "recording">>, <<"body", "failing">>,
                                  <<"recording", "failing">>, <<"completing", "stamping">>}
             \/ to \in {"failed", "raised", "done", "ack"}
      PROVE  /\ worker'[w].pc \in {"body", "recording", "failing"} => worker'[w].task \in Body
             /\ worker'[w].pc \in {"locked", "contended"} => worker'[w].task = Start
             /\ worker'[w].pc \in {"completing", "stamping"} => worker'[w].task = Finalize
  <2>1. worker[w] \in Jobs
    BY <1>4, BusyIsJob
  <2>2. worker'[w].pc = to /\ worker'[w].task = worker[w].task
    BY <1>4, <2>1 DEF Goto, TypeOK, Jobs
  <2>3. QED
    BY <1>4, <2>2 DEF PCMatchesTask, At
<1>5. CASE RunTask(w) \/ DatabaseFault(w)
  <2>1. CASE worker'[w] = Idle
    BY <2>1, <1>2
  <2>2. CASE worker'[w] # Idle
    <3>1. PICK from \in BusyPC, to \in BusyPC :
            /\ At(w, from) /\ Goto(w, to) /\ worker[w] # Idle
            /\ \/ <<from, to>> \in {<<"body", "recording">>, <<"body", "failing">>,
                                   <<"recording", "failing">>, <<"completing", "stamping">>}
               \/ to \in {"failed", "raised", "done", "ack"}
      <4>1. CASE RunTask(w)
        BY <2>2, <4>1 DEF RunTask, StartRunning, StartContended, StageBody,
           StageBodyRaises, StageRecord, FailureRecord, FailureStatus, FinalizeCompleted,
           FinalizeRecord, HandOff, Retry, GiveUp, Ack, At, BusyPC, Idle, TypeOK
      <4>2. CASE DatabaseFault(w)
        BY <4>2 DEF DatabaseFault, Busy, At, BusyPC, Idle
      <4>3. QED
        BY <1>5, <4>1, <4>2
    <3>2. QED
      BY <1>4, <3>1
  <2>3. QED
    BY <2>1, <2>2
<1>6. QED
  BY <1>1, <1>2, <1>3, <1>5, WorkerMoves

\* What WorkersEarned says of one worker.
WorkerEarned(w) ==
    LET r == worker[w].run
        t == worker[w].task
    IN /\ Earned(r, t)
       /\ worker[w].pc \in {"body", "recording", "failing", "completing", "stamping"}
             => Before(r, t)
       /\ worker[w].pc = "recording" => applied[r][t] > 0
       /\ worker[w].pc = "done" => Earned(r, t + 1)

LEMMA TakeEarns ==
    ASSUME ChainInv, [Next]_vars, NEW w \in Workers, TakeTask(w),
           worker'[w].run \notin revived'
    PROVE  WorkerEarned(w)'
<1> USE DEF ChainInv
<1> PICK r \in Runs :
      \/ StartSkip(w, r) \/ StartLock(w, r) \/ StageSkip(w, r) \/ StageBegin(w, r)
      \/ FinalizeSkip(w, r) \/ FinalizeBegin(w, r)
  BY DEF TakeTask
<1>1. PICK t \in Tasks, pc \in BusyPC :
        /\ Take(w, r, t, pc)
        /\ \/ pc = "done" /\ (t = Start \/ status[r] \in Terminal)
           \/ pc \in {"locked", "contended"}
           \/ pc = "body" /\ status[r] \notin Terminal
           \/ pc = "completing" /\ t = Finalize /\ status[r] \notin {"failed", "cancelled"}
  BY TaskFacts DEF StartSkip, StartLock, StageSkip, StageBegin, FinalizeSkip, FinalizeBegin,
     BusyPC, ShortCircuitOn, FinalizeSkipsOn, Terminal
<1>2. worker'[w] = [pc |-> pc, run |-> r, task |-> t] /\ msgs[r][t] > 0
  BY <1>1 DEF Take, TypeOK
<1>3. r \in Runs \ revived' /\ r \in Runs \ revived /\ t \in Int
  BY <1>2, RevivedGrows, TaskFacts
<1>4. Earned(r, t)
  BY <1>2, <1>3 DEF MessagesEarned
<1>5. Earned(r, t)'
  BY <1>3, <1>4, EarnedStays
<1>6. pc = "body" \/ pc = "completing" => Before(r, t)'
  <2>1. pc = "body" => Before(r, t)
    BY <1>1, <1>4 DEF Earned
  <2>2. pc = "completing" => Before(r, t)
    BY <1>1, <1>3, <1>4 DEF Earned, CompletedEarned, Terminal
  <2>3. QED
    BY <2>1, <2>2, <1>3, BeforeStays
<1>7. pc = "done" => Earned(r, t + 1)'
  <2>1. CASE status[r] \in Terminal
    BY <1>3, <2>1, TerminalStays DEF Earned
  <2>2. CASE t = Start
    BY <2>2, ConstantsAssumption DEF Earned, Before, Start, Body
  <2>3. QED
    BY <1>1, <2>1, <2>2
<1>8. pc \notin {"recording", "failing", "stamping"}
  BY <1>1
<1>9. QED
  BY <1>2, <1>5, <1>6, <1>7, <1>8 DEF WorkerEarned

LEMMA RunEarns ==
    ASSUME ChainInv, [Next]_vars, NEW w \in Workers, RunTask(w) \/ DatabaseFault(w),
           worker'[w] # Idle, worker'[w].run \notin revived'
    PROVE  WorkerEarned(w)'
<1> USE DEF ChainInv
<1>1. worker[w] \in Jobs /\ worker[w] # Idle
  BY BusyIsJob DEF RunTask, StartRunning, StartContended, StageBody, StageBodyRaises,
     StageRecord, FailureRecord, FailureStatus, FinalizeCompleted, FinalizeRecord, HandOff,
     Retry, GiveUp, Ack, At, DatabaseFault, Busy, Idle
<1> PICK r \in Runs, t \in Tasks : worker[w].run = r /\ worker[w].task = t
  BY <1>1 DEF Jobs
<1>2. PICK from \in BusyPC, pc \in BusyPC :
        /\ At(w, from) /\ Goto(w, pc)
        /\ \/ from = "body" /\ pc = "recording" /\ Apply(r, t)
           \/ from = "recording" /\ pc = "done" /\ StageRecord(w)
           \/ from \in {"locked", "contended", "stamping"} /\ pc = "done"
           \/ <<from, pc>> \in {<<"body", "failing">>, <<"recording", "failing">>,
                                <<"completing", "stamping">>}
           \/ pc \in {"failed", "raised", "ack"}
  <2>1. CASE RunTask(w)
    BY <2>1, <1>1 DEF RunTask, StartRunning, StartContended, StageBody, StageBodyRaises, StageRecord,
       FailureRecord, FailureStatus, FinalizeCompleted, FinalizeRecord, HandOff, Retry, GiveUp,
       Ack, At, BusyPC, TypeOK
  <2>2. CASE DatabaseFault(w)
    BY <2>2, <1>1 DEF DatabaseFault, At, BusyPC, Jobs
  <2>3. QED
    BY <2>1, <2>2
<1>3. /\ worker'[w].pc = pc /\ worker'[w].run = r /\ worker'[w].task = t
      /\ r \in Runs /\ t \in Tasks
  BY <1>1, <1>2 DEF Goto, TypeOK, Jobs
<1>4. r \in Runs \ revived' /\ r \in Runs \ revived /\ t \in Int /\ t + 1 \in Int
  BY <1>3, RevivedGrows, TaskFacts
<1>5. WorkerEarned(w)
  BY <1>1, <1>4 DEF WorkersEarned, WorkerEarned
<1>6. Earned(r, t)'
  BY <1>4, <1>5, EarnedStays DEF WorkerEarned
<1>7. from \in {"body", "recording", "completing", "stamping"} => Before(r, t)'
  BY <1>2, <1>4, <1>5, BeforeStays DEF WorkerEarned, At
<1>8. pc = "recording" => applied'[r][t] > 0
  <2>1. SUFFICES ASSUME pc = "recording" PROVE applied'[r][t] > 0
    OBVIOUS
  <2>2. Apply(r, t) /\ t \in Body
    BY <1>2, <2>1 DEF PCMatchesTask, At
  <2>3. applied[r][t] \in Nat /\ applied[r] \in [Body -> Nat]
    BY <1>3, <2>2 DEF TypeOK
  <2>4. applied'[r][t] = applied[r][t] + 1
    BY <1>3, <2>2, <2>3 DEF Apply, TypeOK
  <2>5. QED
    BY <2>3, <2>4
<1>9. pc = "done" => Earned(r, t + 1)'
  <2>1. SUFFICES ASSUME pc = "done" PROVE Before(r, t + 1)'
    BY DEF Earned
  <2>2. CASE from = "recording"
    <3>1. StageRecord(w) /\ t \in Body /\ t \in Stages
      BY <1>2, <2>1, <2>2, TaskFacts DEF PCMatchesTask, At
    <3>2. applied[r][t] > 0
      BY <1>2, <1>5, <2>2 DEF WorkerEarned, At
    <3>3. applied'[r][t] > 0
      BY <3>1, <3>2 DEF StageRecord
    <3>4. entry'[r][t] = "ok"
      <4>1. entry' = [entry EXCEPT ![r][t] = "ok"] /\ entry[r] \in [Stages -> {"none", "ok", "error"}]
        BY <3>1, <1>3 DEF StageRecord, TypeOK
      <4>2. QED
        BY <4>1, <3>1, <1>3 DEF TypeOK
    <3>5. Before(r, t)'
      BY <1>7, <2>2
    <3>6. QED
      BY <3>3, <3>4, <3>5, <1>3, TaskFacts, ConstantsAssumption DEF Before, Body, Tasks, Finalize
  <2>3. CASE from \in {"locked", "contended"}
    <3>1. t = Start
      BY <1>2, <2>3 DEF PCMatchesTask, At
    <3>2. QED
      BY <3>1, ConstantsAssumption DEF Before, Start, Body
  <2>4. CASE from = "stamping"
    <3>1. t = Finalize
      BY <1>2, <2>4 DEF PCMatchesTask, At
    <3>2. Before(r, t)'
      BY <1>7, <2>4
    <3>3. QED
      BY <3>1, <3>2, ConstantsAssumption DEF Before, Body, Finalize
  <2>5. QED
    BY <1>2, <2>1, <2>2, <2>3, <2>4
<1>10. pc \notin {"body", "completing"}
       /\ (pc \in {"recording", "failing", "stamping"} => from \in {"body", "recording", "completing"})
  BY <1>2
<1>11. QED
  BY <1>3, <1>6, <1>7, <1>8, <1>9, <1>10 DEF WorkerEarned

LEMMA WorkersStep ==
    ASSUME ChainInv, [Next]_vars
    PROVE  WorkersEarned'
<1> USE DEF ChainInv
<1> SUFFICES ASSUME NEW w \in Workers, worker'[w] # Idle, worker'[w].run \notin revived'
             PROVE  WorkerEarned(w)'
  BY DEF WorkersEarned, WorkerEarned
<1>1. CASE worker'[w] # worker[w]
  BY <1>1, WorkerMoves, TakeEarns, RunEarns
<1>2. CASE worker'[w] = worker[w]
  <2>1. worker[w] \in Jobs
    BY <1>2, BusyIsJob
  <2> PICK r \in Runs, t \in Tasks : worker[w].run = r /\ worker[w].task = t
    BY <2>1 DEF Jobs
  <2>2. t \in Body => t \in Stages
    BY TaskFacts
  <2>3. r \in Runs \ revived' /\ r \in Runs \ revived /\ t \in Int /\ t + 1 \in Int
    BY <1>2, <2>2, RevivedGrows, TaskFacts
  <2>4. WorkerEarned(w)
    BY <1>2, <2>3 DEF WorkersEarned, WorkerEarned
  <2>5. Earned(r, t)' /\ (worker[w].pc = "done" => Earned(r, t + 1)')
    BY <2>3, <2>4, EarnedStays DEF WorkerEarned
  <2>6. worker[w].pc \in {"body", "recording", "failing", "completing", "stamping"}
           => Before(r, t)'
    BY <2>3, <2>4, BeforeStays DEF WorkerEarned
  <2>7. worker[w].pc = "recording" => applied'[r][t] > 0
    <3>1. worker[w].pc = "recording" => t \in Body
      BY DEF PCMatchesTask, At
    <3>2. QED
      BY <3>1, <2>2, <2>4, StepGrows DEF WorkerEarned, Grows
  <2>8. QED
    BY <1>2, <2>5, <2>6, <2>7 DEF WorkerEarned
<1>3. QED
  BY <1>1, <1>2

LEMMA CompletedStep ==
    ASSUME ChainInv, [Next]_vars
    PROVE  CompletedEarned'
<1> USE DEF ChainInv
<1> SUFFICES ASSUME NEW r \in Runs \ revived', status'[r] = "completed"
             PROVE  Before(r, Finalize)'
  BY DEF CompletedEarned
<1>1. r \notin revived /\ Finalize \in Int
  BY RevivedGrows, TaskFacts
<1>2. status[r] = "completed" \/ \E w \in Workers : FinalizeCompleted(w) /\ worker[w].run = r
  <2> DEFINE Goal == status[r] = "completed" \/ \E w \in Workers : FinalizeCompleted(w) /\ worker[w].run = r
  <2>1. ASSUME NEW q \in Runs, Request(q) \/ CancelCheck(q) \/ CancelWrite(q) PROVE Goal
    BY <2>1 DEF Request, Admit, Refuse, CreateRun, Enqueue, CancelCheck, CancelWrite, row, TypeOK
  <2>2. ASSUME NEW w \in Workers, TakeTask(w) PROVE Goal
    BY <2>2 DEF TakeTask, StartSkip, StartLock, StageSkip, StageBegin, FinalizeSkip,
       FinalizeBegin, Take, row
  <2>3. ASSUME NEW w \in Workers, RunTask(w) PROVE Goal
    <3>1. CASE FinalizeCompleted(w)
      BY <3>1 DEF FinalizeCompleted, TypeOK
    <3>2. CASE ~FinalizeCompleted(w)
      BY <2>3, <3>2 DEF RunTask, StartRunning, StartContended, StageBody, StageBodyRaises,
         StageRecord, FailureRecord, FailureStatus, FinalizeRecord, HandOff, Retry, GiveUp,
         Ack, row, TypeOK
    <3>3. QED
      BY <3>1, <3>2
  <2>4. ASSUME Environment \/ UNCHANGED vars PROVE Goal
    BY <2>4 DEF Environment, EnqueueFails, WorkerKilled, VisibilityTimeout, ChildLost,
       DatabaseFault, row, vars
  <2>5. QED
    BY <2>1, <2>2, <2>3, <2>4, StepCases
<1>3. Before(r, Finalize)
  <2>1. CASE status[r] = "completed"
    BY <2>1, <1>1 DEF CompletedEarned
  <2>2. CASE \E w \in Workers : FinalizeCompleted(w) /\ worker[w].run = r
    BY <2>2, <1>1 DEF FinalizeCompleted, At, Idle, WorkersEarned, PCMatchesTask
  <2>3. QED
    BY <1>2, <2>1, <2>2
<1>4. QED
  BY <1>1, <1>3, BeforeStays

LEMMA StagesInOrderStep ==
    ASSUME ChainInv, [Next]_vars
    PROVE  StagesInOrder'
<1> USE DEF ChainInv
<1> SUFFICES ASSUME NEW r \in Runs \ revived', NEW t \in Stages, entry'[r][t] # "none",
                    NEW u \in 1..(t - 1)
             PROVE  entry'[r][u] # "none"
  BY DEF StagesInOrder
<1>1. r \notin revived /\ u \in Stages /\ u \in Body /\ u < t
  BY RevivedGrows, ConstantsAssumption DEF Stages, Body, Finalize
<1>2. \/ entry[r][t] # "none"
      \/ \E w \in Workers : /\ worker[w] # Idle /\ worker[w].run = r /\ worker[w].task = t
                            /\ worker[w].pc \in {"recording", "failing", "stamping"}
  <2> DEFINE Goal ==
        \/ entry[r][t] # "none"
        \/ \E w \in Workers : /\ worker[w] # Idle /\ worker[w].run = r /\ worker[w].task = t
                              /\ worker[w].pc \in {"recording", "failing", "stamping"}
  <2>1. ASSUME NEW q \in Runs, Request(q) \/ CancelCheck(q) \/ CancelWrite(q) PROVE Goal
    BY <2>1 DEF Request, Admit, Refuse, CreateRun, Enqueue, CancelCheck, CancelWrite, row
  <2>2. ASSUME NEW w \in Workers, TakeTask(w) PROVE Goal
    BY <2>2 DEF TakeTask, StartSkip, StartLock, StageSkip, StageBegin, FinalizeSkip,
       FinalizeBegin, Take, row
  <2>3. ASSUME NEW w \in Workers, RunTask(w) PROVE Goal
    <3>1. CASE StageRecord(w) \/ FailureRecord(w) \/ FinalizeRecord(w)
      <4>1. /\ worker[w] # Idle
            /\ worker[w].pc \in {"recording", "failing", "stamping"}
            /\ \E e \in {"ok", "error"} :
                  entry' = [entry EXCEPT ![worker[w].run][worker[w].task] = e]
        BY <3>1 DEF StageRecord, FailureRecord, FinalizeRecord, At, Idle, PCMatchesTask
      <4>2. CASE worker[w].run = r /\ worker[w].task = t
        BY <4>1, <4>2
      <4>3. CASE ~(worker[w].run = r /\ worker[w].task = t)
        BY <4>1, <4>3 DEF TypeOK
      <4>4. QED
        BY <4>2, <4>3
    <3>2. CASE ~(StageRecord(w) \/ FailureRecord(w) \/ FinalizeRecord(w))
      BY <2>3, <3>2 DEF RunTask, StartRunning, StartContended, StageBody, StageBodyRaises,
         FailureStatus, FinalizeCompleted, HandOff, Retry, GiveUp, Ack, row
    <3>3. QED
      BY <3>1, <3>2
  <2>4. ASSUME Environment \/ UNCHANGED vars PROVE Goal
    BY <2>4 DEF Environment, EnqueueFails, WorkerKilled, VisibilityTimeout, ChildLost,
       DatabaseFault, row, vars
  <2>5. QED
    BY <2>1, <2>2, <2>3, <2>4, StepCases
<1>3. entry[r][u] # "none"
  <2>1. CASE entry[r][t] # "none"
    BY <2>1, <1>1 DEF StagesInOrder
  <2>2. ASSUME NEW w \in Workers, worker[w] # Idle, worker[w].run = r, worker[w].task = t,
               worker[w].pc \in {"recording", "failing", "stamping"}
        PROVE  entry[r][u] # "none"
    <3>1. Before(r, t)
      BY <2>2, <1>1 DEF WorkersEarned
    <3>2. QED
      BY <3>1, <1>1 DEF Before
  <2>3. QED
    BY <1>2, <2>1, <2>2
<1>4. QED
  BY <1>1, <1>3, StepGrows DEF Grows

LEMMA NotYetCreatedStep ==
    ASSUME ChainInv, [Next]_vars
    PROVE  NotYetCreated'
<1> USE DEF ChainInv
<1> DEFINE New(r) == api[r] \in {"idle", "admitted"}
<1> SUFFICES ASSUME NEW r \in Runs, New(r)'
             PROVE  /\ status'[r] = "absent"
                    /\ ~cancelling'[r]
                    /\ \A t \in Tasks : msgs'[r][t] = 0
                    /\ \A w \in Workers : worker'[w] # Idle => worker'[w].run # r
  BY DEF NotYetCreated
<1> DEFINE Untouched == /\ New(r)
                        /\ status'[r] = status[r] /\ cancelling'[r] = cancelling[r]
                        /\ msgs'[r] = msgs[r]
                        /\ \A w \in Workers : worker'[w] # Idle /\ worker'[w].run = r
                              => worker[w] # Idle /\ worker[w].run = r
<1>1. ASSUME NEW q \in Runs, Request(q) PROVE Untouched
  BY <1>1 DEF Request, Admit, Refuse, CreateRun, Enqueue, row, TypeOK
<1>2. ASSUME NEW q \in Runs, CancelCheck(q) \/ CancelWrite(q) PROVE Untouched
  BY <1>2 DEF CancelCheck, CancelWrite, row, TypeOK, NotYetCreated, Active
<1>3. ASSUME NEW w \in Workers, TakeTask(w) PROVE Untouched
  <2> PICK q \in Runs, u \in Tasks, pc \in BusyPC : Take(w, q, u, pc)
    BY <1>3, TaskFacts DEF TakeTask, StartSkip, StartLock, StageSkip, StageBegin, FinalizeSkip,
       FinalizeBegin, BusyPC
  <2>1. New(r)
    BY DEF Take
  <2>2. q # r
    BY <2>1 DEF Take, NotYetCreated
  <2>3. QED
    BY <2>1, <2>2 DEF Take, row, TypeOK
<1>4. ASSUME NEW w \in Workers, worker[w] # Idle, UNCHANGED <<api, cancelling>>,
             UNCHANGED status \/ \E s \in Status : status' = [status EXCEPT ![worker[w].run] = s],
             UNCHANGED msgs \/ \E t \in Tasks : Publish(worker[w].run, t),
             UNCHANGED worker \/ worker' = [worker EXCEPT ![w] = Idle] \/ \E pc \in BusyPC : Goto(w, pc)
      PROVE  Untouched
  <2>1. worker[w] \in Jobs /\ worker[w].run \in Runs
    BY <1>4, BusyIsJob DEF Jobs
  <2>2. New(r) /\ worker[w].run # r
    BY <1>4 DEF NotYetCreated
  <2>3. status'[r] = status[r]
    BY <1>4, <2>1, <2>2 DEF TypeOK
  <2>4. msgs'[r] = msgs[r]
    BY <1>4, <2>1, <2>2 DEF Publish, TypeOK
  <2>5. \A v \in Workers : worker'[v] # Idle => worker[v] # Idle /\ worker'[v].run = worker[v].run
    <3>1. CASE UNCHANGED worker \/ worker' = [worker EXCEPT ![w] = Idle]
      BY <3>1 DEF TypeOK
    <3>2. ASSUME NEW pc \in BusyPC, Goto(w, pc)
          PROVE  \A v \in Workers : worker'[v] # Idle => worker[v] # Idle /\ worker'[v].run = worker[v].run
      BY <1>4, <2>1, <3>2 DEF Goto, TypeOK, Jobs
    <3>3. QED
      BY <1>4, <3>1, <3>2
  <2>6. QED
    BY <1>4, <2>2, <2>3, <2>4, <2>5
<1>5. ASSUME NEW w \in Workers, RunTask(w) PROVE Untouched
  <2>1. worker[w] # Idle
    BY <1>5 DEF RunTask, StartRunning, StartContended, StageBody, StageBodyRaises, StageRecord,
       FailureRecord, FailureStatus, FinalizeCompleted, FinalizeRecord, HandOff, Retry, GiveUp,
       Ack, At, Idle
  <2>2. worker[w].task \in Tasks
    BY <2>1, BusyIsJob DEF Jobs
  <2>3. UNCHANGED <<api, cancelling>>
    BY <1>5 DEF RunTask, StartRunning, StartContended, StageBody, StageBodyRaises, StageRecord,
       FailureRecord, FailureStatus, FinalizeCompleted, FinalizeRecord, HandOff, Retry, GiveUp, Ack
  <2>4. UNCHANGED status \/ \E s \in Status : status' = [status EXCEPT ![worker[w].run] = s]
    BY <1>5 DEF RunTask, StartRunning, StartContended, StageBody, StageBodyRaises, StageRecord,
       FailureRecord, FailureStatus, FinalizeCompleted, FinalizeRecord, HandOff, Retry, GiveUp,
       Ack, row, Status
  <2>5. UNCHANGED msgs \/ \E t \in Tasks : Publish(worker[w].run, t)
    <3>1. CASE HandOff(w)
      BY <3>1, <2>2, TaskFacts DEF HandOff, ChainNext
    <3>2. CASE Retry(w)
      BY <3>2, <2>2 DEF Retry
    <3>3. CASE ~HandOff(w) /\ ~Retry(w)
      BY <1>5, <3>3 DEF RunTask, StartRunning, StartContended, StageBody, StageBodyRaises, StageRecord,
         FailureRecord, FailureStatus, FinalizeCompleted, FinalizeRecord, GiveUp, Ack
    <3>4. QED
      BY <3>1, <3>2, <3>3
  <2>6. UNCHANGED worker \/ worker' = [worker EXCEPT ![w] = Idle] \/ \E pc \in BusyPC : Goto(w, pc)
    BY <1>5 DEF RunTask, StartRunning, StartContended, StageBody, StageBodyRaises, StageRecord,
       FailureRecord, FailureStatus, FinalizeCompleted, FinalizeRecord, HandOff, Retry, GiveUp,
       Ack, BusyPC
  <2>7. QED
    BY <1>4, <2>1, <2>3, <2>4, <2>5, <2>6
<1>6. ASSUME Environment PROVE Untouched
  <2>1. ASSUME NEW q \in Runs, EnqueueFails(q) PROVE Untouched
    BY <2>1 DEF EnqueueFails, row, TypeOK
  <2>2. ASSUME NEW w \in Workers, WorkerKilled(w) \/ VisibilityTimeout(w) PROVE Untouched
    <3>1. worker[w] # Idle /\ worker[w].task \in Tasks
      BY <2>2, BusyIsJob DEF WorkerKilled, VisibilityTimeout, Busy, Jobs
    <3>2. /\ UNCHANGED <<api, cancelling, status>>
          /\ Publish(worker[w].run, worker[w].task)
          /\ UNCHANGED worker \/ worker' = [worker EXCEPT ![w] = Idle]
      BY <2>2 DEF WorkerKilled, VisibilityTimeout, row
    <3>3. QED
      BY <1>4, <3>1, <3>2
  <2>3. ASSUME NEW w \in Workers, ChildLost(w) \/ DatabaseFault(w) PROVE Untouched
    <3>1. /\ worker[w] # Idle /\ UNCHANGED <<api, cancelling, status, msgs>>
          /\ worker' = [worker EXCEPT ![w] = Idle] \/ \E pc \in BusyPC : Goto(w, pc)
      BY <2>3 DEF ChildLost, DatabaseFault, Busy, row, BusyPC
    <3>2. QED
      BY <1>4, <3>1
  <2>4. QED
    BY <1>6, <2>1, <2>2, <2>3 DEF Environment
<1>7. ASSUME UNCHANGED vars PROVE Untouched
  <2>1. UNCHANGED <<status, api, cancelling, msgs, worker>>
    BY <1>7 DEF vars
  <2>2. QED
    BY <2>1
<1> HIDE DEF Untouched
<1>8. Untouched
  BY <1>1, <1>2, <1>3, <1>5, <1>6, <1>7 DEF Next
<1>9. QED
  BY <1>8 DEF Untouched, NotYetCreated

LEMMA ChainInvHolds == Spec => []ChainInv
<1>1. Init => ChainInv
  BY ConstantsAssumption, TaskFacts DEF Init, ChainInv, TypeOK, Status, NotYetCreated,
     PCMatchesTask, MessagesEarned, WorkersEarned, CompletedEarned, StagesInOrder, At, Idle
<1>2. ChainInv /\ [Next]_vars => ChainInv'
  <2> SUFFICES ASSUME ChainInv, [Next]_vars PROVE ChainInv'
    OBVIOUS
  <2>1. TypeOK'
    BY TypeStep DEF ChainInv
  <2>2. QED
    BY <2>1, NotYetCreatedStep, PCStep, MessagesStep, WorkersStep, CompletedStep,
       StagesInOrderStep DEF ChainInv
<1>3. QED
  BY <1>1, <1>2, PTL DEF Spec

\* However requests, cancels, retries, redeliveries, crashes and database faults
\* interleave, a run that shows as completed and was never revived has the
\* effects and the summary entry of every stage.
THEOREM CompletedIsComplete == Spec => []CompletedRanEveryStage
<1>1. ChainInv => CompletedRanEveryStage
  BY TaskFacts DEF ChainInv, CompletedEarned, CompletedRanEveryStage, Before
<1>2. QED
  BY <1>1, ChainInvHolds, PTL

\* Under the same interleavings the entries of summary_jsonb.stages appear in
\* pipeline order.
THEOREM EntriesAreOrdered == Spec => []StagesInOrder
<1>1. ChainInv => StagesInOrder
  BY DEF ChainInv
<1>2. QED
  BY <1>1, ChainInvHolds, PTL
-----------------------------------------------------------------------------
(* One message or one worker.  As long as nothing is delivered twice and   *)
(* nothing fails unrecorded (Clean), the chain of a run is one token: a    *)
(* message, or a worker that has not published the next one.  Its place    *)
(* bounds the status of the run and the effects of its stages.             *)

Clean == redeliveries = 0 /\ faults = 0

\* A worker is at a task of the run and has not yet published what follows it.
Holds(w, r) == worker[w] # Idle /\ worker[w].run = r /\ worker[w].pc # "ack"

\* The row is there or not, and nothing of the run has been queued yet.
Fresh(r) == api[r] \in {"idle", "admitted", "committed"}

OneToken ==
    \A r \in Runs :
        /\ \A t \in Tasks : msgs[r][t] <= 1
        /\ \A t, u \in Tasks : msgs[r][t] > 0 /\ msgs[r][u] > 0 => t = u
        /\ \A v, w \in Workers : Holds(v, r) /\ Holds(w, r) => v = w
        /\ \A w \in Workers, t \in Tasks : Holds(w, r) => msgs[r][t] = 0
        /\ Fresh(r) => (\A w \in Workers : ~Holds(w, r)) /\ \A t \in Tasks : msgs[r][t] = 0

\* The statuses a run may have when its message waits, and while it executes.
Waiting(t) == IF t = Start THEN {"queued", "cancelled"} ELSE {"running", "failed", "cancelled"}

Executing(t, pc) ==
    IF pc \in {"locked", "contended"} THEN {"queued", "cancelled"}
    ELSE IF pc = "stamping" THEN {"completed", "cancelled"}
    ELSE IF pc = "raised" THEN {"failed", "cancelled"}
    ELSE IF pc = "done" THEN
        IF t = Finalize THEN {"completed", "failed", "cancelled"} ELSE {"running", "failed", "cancelled"}
    ELSE {"running", "cancelled"}

StatusFits ==
    \A r \in Runs :
        /\ \A t \in Tasks : msgs[r][t] > 0 => status[r] \in Waiting(t)
        /\ \A w \in Workers : Holds(w, r) =>
              /\ status[r] \in Executing(worker[w].task, worker[w].pc)
              /\ worker[w].pc \in {"failed", "raised"} => worker[w].task \in Body
        /\ api[r] = "committed" => status[r] \in {"queued", "cancelled"}

\* Stages not reached have had no effect; one that is to be executed again short-circuits.
AppliedFits ==
    \A r \in Runs :
        /\ \A u \in Body : applied[r][u] <= 1
        /\ \A t \in Tasks : msgs[r][t] > 0 =>
              \A u \in Body : u > t \/ (u = t /\ status[r] \notin Terminal) => applied[r][u] = 0
        /\ \A w \in Workers : Holds(w, r) =>
              \A u \in Body : u > worker[w].task \/ (u = worker[w].task /\ At(w, "body")) => applied[r][u] = 0
        /\ Fresh(r) => \A u \in Body : applied[r][u] = 0

TokenInv == OneToken /\ StatusFits /\ AppliedFits
CleanInv == Clean => TokenInv

\* The steps of a clean behaviour.
LEMMA CleanStep ==
    ASSUME TypeOK, [Next]_vars, Clean'
    PROVE  /\ Clean
           /\ \/ \E r \in Runs : Request(r) \/ CancelCheck(r) \/ CancelWrite(r)
              \/ \E w \in Workers : TakeTask(w) \/ RunTask(w)
              \/ UNCHANGED vars
<1>1. redeliveries \in Nat /\ faults \in Nat
  BY ConstantsAssumption DEF TypeOK
<1>2. ~Environment
  BY <1>1 DEF Environment, EnqueueFails, WorkerKilled, VisibilityTimeout, ChildLost, DatabaseFault,
     Clean
<1>3. ASSUME NEW r \in Runs, Request(r) \/ CancelCheck(r) \/ CancelWrite(r)
      PROVE  UNCHANGED <<redeliveries, faults>>
  BY <1>3 DEF Request, Admit, Refuse, CreateRun, Enqueue, CancelCheck, CancelWrite, counters
<1>4. ASSUME NEW w \in Workers, TakeTask(w)
      PROVE  UNCHANGED <<redeliveries, faults>>
  BY <1>4 DEF TakeTask, StartSkip, StartLock, StageSkip, StageBegin, FinalizeSkip, FinalizeBegin,
     Take, counters
<1>5. ASSUME NEW w \in Workers, RunTask(w)
      PROVE  UNCHANGED <<redeliveries, faults>>
  BY <1>5 DEF RunTask, StartRunning, StartContended, StageBody, StageBodyRaises, StageRecord,
     FailureRecord, FailureStatus, FinalizeCompleted, FinalizeRecord, HandOff, Retry, GiveUp, Ack,
     counters
<1> QED
  BY <1>2, <1>3, <1>4, <1>5 DEF Next, vars, counters, Clean

\* What a worker does with a token: takes it, keeps it, passes it on, drops it.
Keeps(w, pc) == worker[w] # Idle /\ ~At(w, "ack") /\ pc # "ack" /\ Goto(w, pc) /\ UNCHANGED <<msgs, api>>
Passes(w, t) == worker[w] # Idle /\ ~At(w, "ack") /\ Goto(w, "ack") /\ Publish(worker[w].run, t) /\ UNCHANGED api
Drops(w) == /\ (worker[w] # Idle /\ Goto(w, "ack")) \/ (At(w, "ack") /\ worker' = [worker EXCEPT ![w] = Idle])
            /\ UNCHANGED <<msgs, api>>

LEMMA TakeFacts ==
    ASSUME TypeOK, OneToken, NEW w \in Workers, NEW q \in Runs, NEW t \in Tasks,
           NEW pc \in BusyPC \ {"ack"}, Take(w, q, t, pc)
    PROVE  /\ ~Fresh(q) /\ msgs[q][t] > 0 /\ \A v \in Workers : ~Holds(v, q)
           /\ \A u \in Tasks : msgs'[q][u] = 0
           /\ Holds(w, q)' /\ worker'[w].pc = pc /\ worker'[w].task = t
           /\ \A v \in Workers \ {w} : worker'[v] = worker[v]
           /\ \A r \in Runs \ {q} : msgs'[r] = msgs[r] /\ ~Holds(w, r) /\ ~Holds(w, r)'
           /\ UNCHANGED <<status, entry, applied, api>>
<1>1. worker[w] = Idle /\ msgs[q][t] > 0 /\ msgs[q] \in [Tasks -> Nat]
  BY DEF Take, TypeOK
<1>2. worker'[w] = [pc |-> pc, run |-> q, task |-> t] /\ \A v \in Workers \ {w} : worker'[v] = worker[v]
  BY DEF Take, TypeOK
<1>3. \A u \in Tasks : msgs'[q][u] = 0
  <2>1. \A u \in Tasks : msgs'[q][u] = IF u = t THEN msgs[q][t] - 1 ELSE msgs[q][u]
    BY <1>1 DEF Take, TypeOK
  <2>2. msgs[q][t] = 1 /\ \A u \in Tasks \ {t} : msgs[q][u] = 0
    BY <1>1 DEF OneToken
  <2> QED
    BY <2>1, <2>2
<1>4. \A r \in Runs \ {q} : msgs'[r] = msgs[r]
  BY DEF Take, TypeOK
<1>5. \A v \in Workers : ~Holds(v, q)
  BY <1>1 DEF OneToken
<1>6. ~Fresh(q)
  BY <1>1 DEF OneToken
<1>7. worker'[w] # Idle
  BY <1>2 DEF Idle, BusyPC
<1> QED
  BY <1>1, <1>2, <1>3, <1>4, <1>5, <1>6, <1>7 DEF Holds, Take, row

LEMMA KeepFacts ==
    ASSUME TypeOK, NEW w \in Workers, NEW pc \in BusyPC, Keeps(w, pc)
    PROVE  /\ worker[w].run \in Runs /\ worker[w].task \in Tasks /\ Holds(w, worker[w].run)
           /\ worker'[w].pc = pc /\ worker'[w].task = worker[w].task /\ worker'[w].run = worker[w].run
           /\ \A v \in Workers \ {w} : worker'[v] = worker[v]
           /\ \A v \in Workers, r \in Runs : Holds(v, r)' <=> Holds(v, r)
           /\ UNCHANGED <<msgs, api>>
<1>1. worker[w] \in Jobs
  BY BusyIsJob DEF Keeps
<1>2. worker'[w] = [worker[w] EXCEPT !.pc = pc] /\ \A v \in Workers \ {w} : worker'[v] = worker[v]
  BY DEF Keeps, Goto, TypeOK
<1>3. worker'[w].pc = pc /\ worker'[w].task = worker[w].task /\ worker'[w].run = worker[w].run
  BY <1>1, <1>2 DEF Jobs
<1>4. worker'[w] # Idle
  BY <1>1, <1>3 DEF Idle, BusyPC
<1> QED
  BY <1>1, <1>2, <1>3, <1>4 DEF Holds, Keeps, At, Jobs

LEMMA PassFacts ==
    ASSUME TypeOK, OneToken, NEW w \in Workers, NEW t \in Tasks, Passes(w, t), NEW q, q = worker[w].run
    PROVE  /\ q \in Runs /\ worker[w].task \in Tasks /\ Holds(w, q) /\ ~Fresh(q)
           /\ \A u \in Tasks : msgs'[q][u] = IF u = t THEN 1 ELSE 0
           /\ \A v \in Workers \ {w} : worker'[v] = worker[v]
           /\ \A v \in Workers : ~Holds(v, q)'
           /\ \A r \in Runs : ~Holds(w, r)'
           /\ \A r \in Runs \ {q} : msgs'[r] = msgs[r] /\ ~Holds(w, r)
           /\ UNCHANGED api
<1>1. worker[w] \in Jobs
  BY BusyIsJob DEF Passes
<1>2. worker'[w] = [worker[w] EXCEPT !.pc = "ack"] /\ \A v \in Workers \ {w} : worker'[v] = worker[v]
  BY DEF Passes, Goto, TypeOK
<1>3. q \in Runs /\ worker[w].task \in Tasks /\ Holds(w, q) /\ worker'[w].pc = "ack"
  BY <1>1, <1>2 DEF Jobs, Holds, Passes, At
<1>4. /\ ~Fresh(q) /\ \A u \in Tasks : msgs[q][u] = 0
      /\ \A v \in Workers \ {w} : ~Holds(v, q)
  BY <1>3 DEF OneToken
<1>5. \A u \in Tasks : msgs'[q][u] = IF u = t THEN 1 ELSE 0
  <2>1. \A u \in Tasks : msgs'[q][u] = IF u = t THEN msgs[q][t] + 1 ELSE msgs[q][u]
    BY <1>3 DEF Passes, Publish, TypeOK
  <2> QED
    BY <1>4, <2>1
<1>6. \A r \in Runs \ {q} : msgs'[r] = msgs[r]
  BY <1>3 DEF Passes, Publish, TypeOK
<1>7. \A r \in Runs : ~Holds(w, r)'
  BY <1>3 DEF Holds
<1>8. \A v \in Workers : ~Holds(v, q)'
  <2>1. \A v \in Workers \ {w} : ~Holds(v, q)'
    BY <1>2, <1>4 DEF Holds
  <2> QED
    BY <1>3, <1>7, <2>1
<1>9. \A r \in Runs \ {q} : ~Holds(w, r)
  BY DEF Holds
<1> QED
  BY <1>2, <1>3, <1>4, <1>5, <1>6, <1>7, <1>8, <1>9 DEF Passes

LEMMA DropFacts ==
    ASSUME TypeOK, NEW w \in Workers, Drops(w)
    PROVE  /\ \A v \in Workers \ {w} : worker'[v] = worker[v]
           /\ \A r \in Runs : ~Holds(w, r)'
           /\ UNCHANGED <<msgs, api>>
<1>1. CASE worker[w] # Idle /\ Goto(w, "ack")
  <2>1. worker[w] \in Jobs
    BY <1>1, BusyIsJob
  <2>2. worker'[w] = [worker[w] EXCEPT !.pc = "ack"] /\ \A v \in Workers \ {w} : worker'[v] = worker[v]
    BY <1>1 DEF Goto, TypeOK
  <2>3. worker'[w].pc = "ack"
    BY <2>1, <2>2 DEF Jobs
  <2> QED
    BY <2>2, <2>3 DEF Holds, Drops
<1>2. CASE worker' = [worker EXCEPT ![w] = Idle]
  BY <1>2 DEF Holds, Drops, TypeOK
<1> QED
  BY <1>1, <1>2 DEF Drops

\* The steps of a task: which token they keep, pass on or drop.
LEMMA KeepSteps ==
    ASSUME TypeOK, NEW w \in Workers
    PROVE  /\ StartRunning(w) \/ StartContended(w) => Keeps(w, "done")
           /\ StageBody(w) => Keeps(w, "recording")
           /\ StageBodyRaises(w) => Keeps(w, "failing")
           /\ StageRecord(w) \/ FinalizeRecord(w) => Keeps(w, "done")
           /\ FailureRecord(w) => Keeps(w, "failed")
           /\ FailureStatus(w) => Keeps(w, "raised")
           /\ FinalizeCompleted(w) => Keeps(w, "stamping")
<1>1. worker[w].pc # "idle" => worker[w] # Idle
  BY DEF Idle
<1> QED
  BY <1>1 DEF StartRunning, StartContended, StageBody, StageBodyRaises, StageRecord, FailureRecord,
     FailureStatus, FinalizeCompleted, FinalizeRecord, At, Keeps

LEMMA EndSteps ==
    ASSUME TypeOK, NEW w \in Workers
    PROVE  /\ HandOff(w) => \/ worker[w].task # Finalize /\ Passes(w, worker[w].task + 1)
                            \/ Drops(w) /\ UNCHANGED row
           /\ Retry(w) => Passes(w, worker[w].task)
           /\ GiveUp(w) \/ Ack(w) => Drops(w) /\ UNCHANGED row
<1>1. worker[w].pc # "idle" => worker[w] # Idle
  BY DEF Idle
<1> QED
  BY <1>1 DEF HandOff, Retry, GiveUp, Ack, At, Passes, Drops, ChainNext, row

LEMMA OneTokenStep ==
    ASSUME ChainInv, OneToken, Clean', [Next]_vars
    PROVE  OneToken'
<1> USE DEF ChainInv
<1>1. CASE UNCHANGED vars
  BY <1>1 DEF vars, OneToken, Holds, Fresh
<1>2. ASSUME NEW q \in Runs, Request(q) \/ CancelCheck(q) \/ CancelWrite(q)
      PROVE  OneToken'
  <2>1. CASE Enqueue(q)
    <3>1. api[q] = "committed" /\ api' = [api EXCEPT ![q] = "answered"] /\ UNCHANGED worker
      BY <2>1 DEF Enqueue
    <3>2. /\ \A u \in Tasks : msgs'[q][u] = IF u = Start THEN msgs[q][u] + 1 ELSE msgs[q][u]
          /\ \A r \in Runs \ {q} : msgs'[r] = msgs[r]
      BY <2>1 DEF Enqueue, TypeOK
    <3>3. (\A w \in Workers : ~Holds(w, q)) /\ \A t \in Tasks : msgs[q][t] = 0
      BY <3>1 DEF OneToken, Fresh
    <3>4. \A w \in Workers, r \in Runs : Holds(w, r)' <=> Holds(w, r)
      BY <3>1 DEF Holds
    <3>5. \A r \in Runs \ {q} : Fresh(r)' <=> Fresh(r)
      BY <3>1 DEF Fresh, TypeOK
    <3>6. ~Fresh(q)'
      BY <3>1 DEF Fresh, TypeOK
    <3>7. \A u \in Tasks : msgs'[q][u] = IF u = Start THEN 1 ELSE 0
      BY <3>2, <3>3
    <3> QED
      BY <3>2, <3>3, <3>4, <3>5, <3>6, <3>7 DEF OneToken
  <2>2. CASE Admit(q) \/ Refuse(q) \/ CreateRun(q) \/ CancelCheck(q) \/ CancelWrite(q)
    <3>1. UNCHANGED <<msgs, worker>> /\ \A r \in Runs : Fresh(r)' => Fresh(r)
      BY <2>2 DEF Admit, Refuse, CreateRun, CancelCheck, CancelWrite, Fresh, TypeOK
    <3> QED
      BY <3>1 DEF OneToken, Holds
  <2> QED
    BY <1>2, <2>1, <2>2 DEF Request
<1>3. ASSUME NEW w \in Workers, TakeTask(w)
      PROVE  OneToken'
  <2> PICK q \in Runs, t \in Tasks, pc \in BusyPC \ {"ack"} : Take(w, q, t, pc)
    BY <1>3, TaskFacts DEF TakeTask, StartSkip, StartLock, StageSkip, StageBegin, FinalizeSkip,
       FinalizeBegin, BusyPC
  <2>1. /\ ~Fresh(q)' /\ \A r \in Runs : Fresh(r)' <=> Fresh(r)
    BY TakeFacts DEF Fresh
  <2>2. /\ \A u \in Tasks : msgs'[q][u] = 0
        /\ \A v \in Workers : Holds(v, q)' => v = w
    BY TakeFacts DEF Holds
  <2>3. \A r \in Runs \ {q} : msgs'[r] = msgs[r] /\ \A v \in Workers : Holds(v, r)' <=> Holds(v, r)
    BY TakeFacts DEF Holds
  <2> QED
    BY <2>1, <2>2, <2>3 DEF OneToken
<1>4. ASSUME NEW w \in Workers, NEW pc \in BusyPC, Keeps(w, pc)
      PROVE  OneToken'
  BY <1>4, KeepFacts DEF OneToken, Fresh
<1>5. ASSUME NEW w \in Workers, NEW t \in Tasks, Passes(w, t)
      PROVE  OneToken'
  <2>1. PICK q \in Runs : q = worker[w].run
    BY <1>5, PassFacts
  <2>2. /\ ~Fresh(q)' /\ \A r \in Runs : Fresh(r)' <=> Fresh(r)
    BY <1>5, <2>1, PassFacts DEF Fresh
  <2>3. \A u \in Tasks : msgs'[q][u] = IF u = t THEN 1 ELSE 0
    BY <1>5, <2>1, PassFacts
  <2>4. \A v \in Workers : ~Holds(v, q)'
    BY <1>5, <2>1, PassFacts
  <2>5. \A r \in Runs \ {q} : msgs'[r] = msgs[r] /\ \A v \in Workers : Holds(v, r)' <=> Holds(v, r)
    BY <1>5, <2>1, PassFacts DEF Holds
  <2> QED
    BY <2>2, <2>3, <2>4, <2>5 DEF OneToken
<1>6. ASSUME NEW w \in Workers, Drops(w)
      PROVE  OneToken'
  <2>1. \A r \in Runs : Fresh(r)' <=> Fresh(r)
    BY <1>6, DropFacts DEF Fresh
  <2>2. \A r \in Runs, v \in Workers : Holds(v, r)' => Holds(v, r)
    BY <1>6, DropFacts DEF Holds
  <2> QED
    BY <1>6, <2>1, <2>2, DropFacts DEF OneToken
<1>7. ASSUME NEW w \in Workers, RunTask(w)
      PROVE  OneToken'
  <2>1. worker[w].task \in Tasks \/ worker[w] = Idle
    BY BusyIsJob DEF Jobs
  <2>2. Passes(w, worker[w].task + 1) /\ worker[w].task # Finalize => worker[w].task + 1 \in Tasks
    BY <2>1, TaskFacts DEF Passes
  <2>3. CASE HandOff(w) \/ Retry(w) \/ GiveUp(w) \/ Ack(w)
    BY <1>5, <1>6, <2>1, <2>2, <2>3, EndSteps DEF Passes
  <2>4. CASE ~(HandOff(w) \/ Retry(w) \/ GiveUp(w) \/ Ack(w))
    BY <1>4, <1>7, <2>4, KeepSteps DEF RunTask, BusyPC
  <2> QED
    BY <2>3, <2>4
<1> QED
  BY <1>1, <1>2, <1>3, <1>7, CleanStep

\* A step that moves no token leaves what its statuses may be, but for the status itself.
LEMMA StatusFitsStep ==
    ASSUME ChainInv, OneToken, StatusFits, Clean', [Next]_vars
    PROVE  StatusFits'
<1> USE DEF ChainInv
<1>1. CASE UNCHANGED vars
  BY <1>1 DEF vars, StatusFits, Holds
<1>2. ASSUME NEW q \in Runs, Request(q) \/ CancelCheck(q) \/ CancelWrite(q)
      PROVE  StatusFits'
  <2>1. \A w \in Workers, r \in Runs : (Holds(w, r)' <=> Holds(w, r)) /\ worker' = worker
    BY <1>2 DEF Request, Admit, Refuse, CreateRun, Enqueue, CancelCheck, CancelWrite, Holds
  <2>2. CASE Admit(q) \/ Refuse(q) \/ CancelCheck(q)
    <3>1. UNCHANGED <<msgs, status, worker>> /\ \A r \in Runs : api'[r] = "committed" => api[r] = "committed"
      BY <2>2 DEF Admit, Refuse, CancelCheck, row, TypeOK
    <3> QED
      BY <3>1 DEF StatusFits, Holds
  <2>3. CASE CreateRun(q)
    <3>1. UNCHANGED <<msgs, worker>> /\ Fresh(q) /\ status'[q] = "queued"
      BY <2>3 DEF CreateRun, Fresh, TypeOK
    <3>2. \A r \in Runs \ {q} : status'[r] = status[r] /\ api'[r] = api[r]
      BY <2>3 DEF CreateRun, TypeOK
    <3>3. (\A w \in Workers : ~Holds(w, q)) /\ \A t \in Tasks : msgs[q][t] = 0
      BY <3>1 DEF OneToken
    <3> QED
      BY <3>1, <3>2, <3>3 DEF StatusFits, Holds
  <2>4. CASE Enqueue(q)
    <3>1. /\ UNCHANGED <<status, worker>> /\ api[q] = "committed" /\ api'[q] = "answered"
          /\ \A r \in Runs \ {q} : api'[r] = api[r] /\ msgs'[r] = msgs[r]
          /\ \A u \in Tasks : u # Start => msgs'[q][u] = msgs[q][u]
      BY <2>4 DEF Enqueue, row, TypeOK
    <3>2. (\A w \in Workers : ~Holds(w, q)) /\ \A t \in Tasks : msgs[q][t] = 0
      BY <3>1 DEF OneToken, Fresh
    <3>3. status[q] \in Waiting(Start)
      BY <3>1 DEF StatusFits, Waiting
    <3> QED
      BY <3>1, <3>2, <3>3 DEF StatusFits, Holds
  <2>5. CASE CancelWrite(q)
    <3>1. UNCHANGED <<msgs, worker, api>> /\ \A r \in Runs : status'[r] = status[r] \/ status'[r] = "cancelled"
      BY <2>5 DEF CancelWrite, TypeOK
    <3>2. \A t, pc : "cancelled" \in Waiting(t) /\ "cancelled" \in Executing(t, pc)
      BY DEF Waiting, Executing
    <3>3. ASSUME NEW r \in Runs, NEW t \in Tasks, msgs[r][t] > 0
          PROVE  status'[r] \in Waiting(t)
      BY <3>1, <3>2, <3>3 DEF StatusFits
    <3>4. ASSUME NEW r \in Runs, NEW w \in Workers, Holds(w, r)
          PROVE  /\ status'[r] \in Executing(worker[w].task, worker[w].pc)
                 /\ worker[w].pc \in {"failed", "raised"} => worker[w].task \in Body
      BY <3>1, <3>2, <3>4 DEF StatusFits
    <3>5. \A r \in Runs : api[r] = "committed" => status'[r] \in {"queued", "cancelled"}
      BY <3>1 DEF StatusFits
    <3> QED
      BY <2>1, <3>1, <3>3, <3>4, <3>5 DEF StatusFits
  <2> QED
    BY <1>2, <2>2, <2>3, <2>4, <2>5 DEF Request
<1>3. ASSUME NEW w \in Workers, TakeTask(w)
      PROVE  StatusFits'
  <2>1. PICK q \in Runs, t \in Tasks, pc \in BusyPC \ {"ack"} :
            Take(w, q, t, pc) /\ (status[q] \in Waiting(t) => status[q] \in Executing(t, pc) /\ pc \notin {"failed", "raised"})
    <3>1. PICK q \in Runs : \/ StartSkip(w, q) \/ StartLock(w, q)
                            \/ StageSkip(w, q) \/ StageBegin(w, q)
                            \/ FinalizeSkip(w, q) \/ FinalizeBegin(w, q)
      BY <1>3 DEF TakeTask
    <3>2. Start # Finalize /\ \A t \in Body : t # Start /\ t # Finalize
      BY ConstantsAssumption DEF Start, Finalize, Body
    <3>3. CASE StartSkip(w, q)
      BY <3>3, <3>2, TaskFacts DEF StartSkip, StartAccepts, Active, Waiting, Executing, BusyPC
    <3>4. CASE StartLock(w, q)
      BY <3>4, <3>2, TaskFacts DEF StartLock, StartAccepts, Active, Waiting, Executing, BusyPC
    <3>5. CASE StageSkip(w, q)
      BY <3>5, <3>2, TaskFacts DEF StageSkip, ShortCircuitOn, Terminal, Waiting, Executing, BusyPC
    <3>6. CASE StageBegin(w, q)
      BY <3>6, <3>2, TaskFacts DEF StageBegin, ShortCircuitOn, Terminal, Waiting, Executing, BusyPC
    <3>7. CASE FinalizeSkip(w, q)
      BY <3>7, <3>2, TaskFacts DEF FinalizeSkip, FinalizeSkipsOn, Waiting, Executing, BusyPC
    <3>8. CASE FinalizeBegin(w, q)
      BY <3>8, <3>2, TaskFacts DEF FinalizeBegin, FinalizeSkipsOn, Waiting, Executing, BusyPC
    <3> QED
      BY <3>1, <3>3, <3>4, <3>5, <3>6, <3>7, <3>8
  <2>2. status[q] \in Executing(t, pc) /\ pc \notin {"failed", "raised"} /\ UNCHANGED <<status, api>>
    BY <2>1, TakeFacts DEF StatusFits
  <2>3. /\ \A u \in Tasks : msgs'[q][u] = 0
        /\ \A v \in Workers : Holds(v, q)' => v = w
        /\ worker'[w].task = t /\ worker'[w].pc = pc
    BY <2>1, TakeFacts DEF Holds
  <2>4. \A r \in Runs \ {q} : msgs'[r] = msgs[r] /\ \A v \in Workers : Holds(v, r)' => Holds(v, r) /\ worker'[v] = worker[v]
    BY <2>1, TakeFacts DEF Holds
  <2> QED
    BY <2>2, <2>3, <2>4 DEF StatusFits
<1>4. ASSUME NEW w \in Workers, NEW pc \in BusyPC, Keeps(w, pc), NEW st \in Status,
             status' = [status EXCEPT ![worker[w].run] = st], st \in Executing(worker[w].task, pc),
             pc \in {"failed", "raised"} => worker[w].task \in Body
      PROVE  StatusFits'
  <2>1. PICK q \in Runs : q = worker[w].run /\ Holds(w, q)
    BY <1>4, KeepFacts
  <2>2. ~Fresh(q) /\ (\A t \in Tasks : msgs[q][t] = 0) /\ \A v \in Workers : Holds(v, q) => v = w
    BY <2>1 DEF OneToken
  <2>3. status'[q] = st /\ \A r \in Runs \ {q} : status'[r] = status[r]
    BY <1>4, <2>1 DEF TypeOK
  <2>4. \A v \in Workers, r \in Runs \ {q} : Holds(v, r)' => Holds(v, r) /\ worker'[v] = worker[v]
    BY <1>4, <2>1, KeepFacts DEF Holds
  <2>5. \A v \in Workers : Holds(v, q)' => v = w
    BY <1>4, <2>2, KeepFacts
  <2>6. worker'[w].pc = pc /\ worker'[w].task = worker[w].task /\ UNCHANGED <<msgs, api>>
    BY <1>4, KeepFacts
  <2> QED
    BY <1>4, <2>2, <2>3, <2>4, <2>5, <2>6 DEF StatusFits, Fresh
<1>5. ASSUME NEW w \in Workers, NEW t \in Tasks, Passes(w, t), UNCHANGED status,
             status[worker[w].run] \in Waiting(t)
      PROVE  StatusFits'
  <2>1. PICK q \in Runs : q = worker[w].run
    BY <1>5, PassFacts
  <2>2. \A u \in Tasks : msgs'[q][u] > 0 => u = t
    BY <1>5, <2>1, PassFacts
  <2>3. \A v \in Workers : ~Holds(v, q)'
    BY <1>5, <2>1, PassFacts
  <2>4. \A r \in Runs \ {q} : msgs'[r] = msgs[r] /\ \A v \in Workers : Holds(v, r)' => Holds(v, r) /\ worker'[v] = worker[v]
    BY <1>5, <2>1, PassFacts DEF Holds
  <2>5. UNCHANGED api
    BY <1>5 DEF Passes
  <2> QED
    BY <1>5, <2>1, <2>2, <2>3, <2>4, <2>5 DEF StatusFits
<1>6. ASSUME NEW w \in Workers, Drops(w), UNCHANGED status
      PROVE  StatusFits'
  <2>1. \A r \in Runs, v \in Workers : Holds(v, r)' => Holds(v, r) /\ worker'[v] = worker[v]
    BY <1>6, DropFacts DEF Holds
  <2> QED
    BY <1>6, <2>1, DropFacts DEF StatusFits
<1>7. ASSUME NEW w \in Workers, RunTask(w)
      PROVE  StatusFits'
  <2>1. CASE Drops(w) /\ UNCHANGED row
    BY <1>6, <2>1 DEF row
  <2>2. CASE worker[w] # Idle /\ ~At(w, "ack")
    <3>1. PICK q \in Runs, t \in Tasks, at \in BusyPC : worker[w].run = q /\ worker[w].task = t /\ worker[w].pc = at
      BY <2>2, BusyIsJob DEF Jobs
    <3>2. /\ status[q] \in Executing(t, at) /\ status[q] \in Status /\ status = [status EXCEPT ![q] = status[q]]
          /\ at \in {"failed", "raised"} => t \in Body
      BY <2>2, <3>1 DEF StatusFits, Holds, At, TypeOK
    <3>3. /\ Start # Finalize /\ \A u \in Body : u # Start /\ u # Finalize
          /\ \A u \in Tasks : u + 1 # Start /\ u # u + 1
      BY ConstantsAssumption DEF Start, Finalize, Body, Tasks
    <3>4. /\ at \in {"locked", "contended"} => t = Start
          /\ at \in {"body", "recording", "failing"} => t \in Body
          /\ at \in {"completing", "stamping"} => t = Finalize
      BY <3>1 DEF PCMatchesTask, At
    <3>5. CASE HandOff(w) /\ t # Finalize /\ Passes(w, t + 1)
      <4>1. at = "done" /\ UNCHANGED status
        BY <3>1, <3>5 DEF HandOff, At, row
      <4>2. t + 1 \in Tasks
        BY <3>5, TaskFacts
      <4>3. status[q] \in Waiting(t + 1)
        BY <3>2, <3>3, <3>5, <4>1, <4>2 DEF Executing, Waiting
      <4> QED
        BY <1>5, <3>1, <3>5, <4>1, <4>2, <4>3
    <3>6. CASE Retry(w) /\ Passes(w, t)
      <4>1. at = "raised" /\ UNCHANGED status
        BY <3>1, <3>6 DEF Retry, At, row
      <4>2. status[q] \in Waiting(t)
        BY <3>2, <3>3, <4>1 DEF Executing, Waiting
      <4> QED
        BY <1>5, <3>1, <3>6, <4>1, <4>2
    <3>7. ASSUME NEW pc \in BusyPC, Keeps(w, pc), NEW st \in Status, status' = [status EXCEPT ![q] = st],
                 st \in Executing(t, pc), pc \in {"failed", "raised"} => t \in Body
          PROVE  StatusFits'
      BY <1>4, <3>1, <3>7
    <3>8. CASE StartRunning(w) \/ StartContended(w)
      <4>1. at \in {"locked", "contended"} /\ Keeps(w, "done")
        BY <3>1, <3>8, KeepSteps DEF StartRunning, StartContended, At
      <4>2. PICK st \in {"running", "failed"} : status' = [status EXCEPT ![q] = st]
        BY <3>1, <3>8 DEF StartRunning, StartContended
      <4> QED
        BY <3>3, <3>4, <3>7, <4>1, <4>2 DEF Executing, BusyPC, Status
    <3>9. CASE StageBody(w) \/ StageBodyRaises(w) \/ StageRecord(w) \/ FailureRecord(w) \/ FinalizeRecord(w)
      <4>1. UNCHANGED status
        BY <3>9 DEF StageBody, StageBodyRaises, StageRecord, FailureRecord, FinalizeRecord
      <4>2. CASE StageBody(w) \/ StageBodyRaises(w)
        <5>1. at = "body" /\ (Keeps(w, "recording") \/ Keeps(w, "failing"))
          BY <3>1, <4>2, KeepSteps DEF StageBody, StageBodyRaises, At
        <5> QED
          BY <3>2, <3>7, <4>1, <5>1 DEF Executing, BusyPC
      <4>3. CASE StageRecord(w) \/ FinalizeRecord(w)
        <5>1. at \in {"recording", "stamping"} /\ Keeps(w, "done")
          BY <3>1, <4>3, KeepSteps DEF StageRecord, FinalizeRecord, At
        <5> QED
          BY <3>2, <3>3, <3>4, <3>7, <4>1, <5>1 DEF Executing, BusyPC
      <4>4. CASE FailureRecord(w)
        <5>1. at = "failing" /\ Keeps(w, "failed")
          BY <3>1, <4>4, KeepSteps DEF FailureRecord, At
        <5> QED
          BY <3>2, <3>4, <3>7, <4>1, <5>1 DEF Executing, BusyPC
      <4> QED
        BY <3>9, <4>2, <4>3, <4>4
    <3>10. CASE FailureStatus(w)
      <4>1. at = "failed" /\ Keeps(w, "raised") /\ status' = [status EXCEPT ![q] = "failed"]
        BY <3>1, <3>10, KeepSteps DEF FailureStatus, At
      <4> QED
        BY <3>2, <3>7, <4>1 DEF Executing, BusyPC, Status
    <3>11. CASE FinalizeCompleted(w)
      <4>1. at = "completing" /\ Keeps(w, "stamping") /\ status' = [status EXCEPT ![q] = "completed"]
        BY <3>1, <3>11, KeepSteps DEF FinalizeCompleted, At
      <4> QED
        BY <3>7, <4>1 DEF Executing, BusyPC, Status
    <3> QED
      BY <1>7, <2>1, <3>1, <3>5, <3>6, <3>8, <3>9, <3>10, <3>11, EndSteps DEF RunTask
  <2> QED
    BY <1>7, <2>1, <2>2, KeepSteps, EndSteps DEF RunTask, Keeps, Passes
<1> QED
  BY <1>1, <1>2, <1>3, <1>7, CleanStep

LEMMA AppliedFitsStep ==
    ASSUME ChainInv, OneToken, StatusFits, AppliedFits, Clean', [Next]_vars
    PROVE  AppliedFits'
<1> USE DEF ChainInv
<1>1. CASE UNCHANGED vars
  BY <1>1 DEF vars, AppliedFits, Holds, Fresh, At
<1>2. ASSUME NEW q \in Runs, Request(q) \/ CancelCheck(q) \/ CancelWrite(q)
      PROVE  AppliedFits'
  <2>1. /\ UNCHANGED <<applied, worker>>
        /\ \A r \in Runs : Fresh(r)' => Fresh(r)
        /\ \A r \in Runs, t \in Tasks : msgs'[r][t] > 0 => msgs[r][t] > 0 \/ (r = q /\ Fresh(q))
    BY <1>2 DEF Request, Admit, Refuse, CreateRun, Enqueue, CancelCheck, CancelWrite, Fresh, row, TypeOK
  <2>2. \A r \in Runs : status[r] \in Terminal \/ status'[r] = status[r] \/ Fresh(r) \/ status'[r] \in Terminal
    BY <1>2 DEF Request, Admit, Refuse, CreateRun, Enqueue, CancelCheck, CancelWrite, row, Fresh, Terminal, TypeOK
  <2>3. \A r \in Runs : status[r] \in Terminal /\ ~Fresh(r) => status'[r] \in Terminal
    BY <1>2 DEF Request, Admit, Refuse, CreateRun, Enqueue, CancelCheck, CancelWrite, row, Fresh, Terminal, TypeOK
  <2>4. \A r \in Runs, t \in Tasks : msgs'[r][t] > 0 =>
            \A u \in Body : u > t \/ (u = t /\ status'[r] \notin Terminal) => applied[r][u] = 0
    BY <2>1, <2>2, <2>3 DEF AppliedFits
  <2> QED
    BY <2>1, <2>4 DEF AppliedFits, Holds, At
<1>3. ASSUME NEW w \in Workers, TakeTask(w)
      PROVE  AppliedFits'
  <2>1. PICK q \in Runs, t \in Tasks, pc \in BusyPC \ {"ack"} :
            Take(w, q, t, pc) /\ (pc = "body" => status[q] \notin Terminal)
    BY <1>3, TaskFacts DEF TakeTask, StartSkip, StartLock, StageSkip, StageBegin, FinalizeSkip,
       FinalizeBegin, BusyPC, ShortCircuitOn
  <2>2. /\ \A u \in Tasks : msgs'[q][u] = 0
        /\ \A v \in Workers : Holds(v, q)' => v = w
        /\ worker'[w].task = t /\ worker'[w].pc = pc /\ msgs[q][t] > 0
        /\ UNCHANGED <<applied, status, api>>
    BY <2>1, TakeFacts DEF Holds
  <2>3. \A r \in Runs \ {q} : msgs'[r] = msgs[r] /\ \A v \in Workers : Holds(v, r)' => Holds(v, r) /\ worker'[v] = worker[v]
    BY <2>1, TakeFacts DEF Holds
  <2>4. \A u \in Body : u > t \/ (u = t /\ pc = "body") => applied[q][u] = 0
    BY <2>1, <2>2 DEF AppliedFits
  <2> QED
    BY <2>2, <2>3, <2>4 DEF AppliedFits, At, Fresh
<1>4. ASSUME NEW w \in Workers, NEW pc \in BusyPC, Keeps(w, pc), pc # "body",
             UNCHANGED status \/ \E st : status' = [status EXCEPT ![worker[w].run] = st],
             LET q == worker[w].run
                 t == worker[w].task
             IN applied' = applied \/ (At(w, "body") /\ t \in Body /\ Apply(q, t))
      PROVE  AppliedFits'
  <2>1. PICK q \in Runs, t \in Tasks : q = worker[w].run /\ t = worker[w].task /\ Holds(w, q)
    BY <1>4, KeepFacts
  <2>2. ~Fresh(q) /\ (\A u \in Tasks : msgs[q][u] = 0) /\ \A v \in Workers : Holds(v, q) => v = w
    BY <2>1 DEF OneToken
  <2>3. \A v \in Workers, r \in Runs \ {q} : Holds(v, r)' => Holds(v, r) /\ worker'[v] = worker[v]
    BY <1>4, <2>1, KeepFacts DEF Holds
  <2>4. /\ \A v \in Workers : Holds(v, q)' => v = w
        /\ worker'[w].pc = pc /\ worker'[w].task = t /\ UNCHANGED <<msgs, api>>
    BY <1>4, <2>1, <2>2, KeepFacts
  <2>5. /\ \A r \in Runs \ {q} : applied'[r] = applied[r]
        /\ \A u \in Body : applied'[q][u] <= 1 /\ (u > t => applied'[q][u] = 0)
    <3>1. CASE applied' = applied
      BY <2>1, <3>1 DEF AppliedFits
    <3>2. CASE At(w, "body") /\ t \in Body /\ Apply(q, t)
      <4>1. /\ \A r \in Runs \ {q} : applied'[r] = applied[r]
            /\ \A u \in Body : applied'[q][u] = IF u = t THEN applied[q][t] + 1 ELSE applied[q][u]
        BY <3>2 DEF Apply, TypeOK
      <4>2. applied[q][t] = 0 /\ \A u \in Body : applied[q][u] <= 1 /\ (u > t => applied[q][u] = 0)
        BY <2>1, <3>2 DEF AppliedFits
      <4>3. ASSUME NEW u \in Body
            PROVE  applied'[q][u] <= 1 /\ (u > t => applied'[q][u] = 0)
        <5>1. t \in Int /\ u \in Int
          BY <3>2 DEF Body
        <5>2. CASE u = t
          BY <3>2, <4>1, <4>2, <5>1, <5>2
        <5>3. CASE u # t
          BY <4>1, <4>2, <5>3
        <5> QED
          BY <5>2, <5>3
      <4> QED
        BY <4>1, <4>3
    <3> QED
      BY <1>4, <2>1, <3>1, <3>2
  <2>6. \A r \in Runs : \A u \in Body : applied'[r][u] <= 1
    BY <2>5 DEF AppliedFits
  <2>7. \A r \in Runs, s \in Tasks : msgs'[r][s] > 0 =>
            \A u \in Body : u > s \/ (u = s /\ status'[r] \notin Terminal) => applied'[r][u] = 0
    <3>1. ASSUME NEW r \in Runs \ {q}
          PROVE  status'[r] = status[r]
      BY <1>4, <2>1, <3>1 DEF TypeOK
    <3> QED
      BY <2>2, <2>4, <2>5, <3>1 DEF AppliedFits
  <2>8. ASSUME NEW r \in Runs, NEW v \in Workers, Holds(v, r)',
               NEW u \in Body, u > worker'[v].task \/ (u = worker'[v].task /\ At(v, "body")')
        PROVE  applied'[r][u] = 0
    <3>1. CASE r = q
      BY <1>4, <2>4, <2>5, <2>8, <3>1 DEF At
    <3>2. CASE r # q
      BY <2>3, <2>5, <2>8, <3>2 DEF AppliedFits, At
    <3> QED
      BY <3>1, <3>2
  <2>9. \A r \in Runs : Fresh(r)' => \A u \in Body : applied'[r][u] = 0
    BY <2>2, <2>4, <2>5 DEF AppliedFits, Fresh
  <2> QED
    BY <2>6, <2>7, <2>8, <2>9 DEF AppliedFits
<1>5. ASSUME NEW w \in Workers, NEW t \in Tasks, Passes(w, t), UNCHANGED row,
             \/ t = worker[w].task + 1
             \/ t = worker[w].task /\ status[worker[w].run] \in Terminal
      PROVE  AppliedFits'
  <2>1. PICK q \in Runs : q = worker[w].run /\ Holds(w, q) /\ worker[w].task \in Tasks
    BY <1>5, PassFacts
  <2>2. \A u \in Tasks : msgs'[q][u] > 0 => u = t
    BY <1>5, <2>1, PassFacts
  <2>3. \A v \in Workers : ~Holds(v, q)'
    BY <1>5, <2>1, PassFacts
  <2>4. \A r \in Runs \ {q} : msgs'[r] = msgs[r] /\ \A v \in Workers : Holds(v, r)' => Holds(v, r) /\ worker'[v] = worker[v]
    BY <1>5, <2>1, PassFacts DEF Holds
  <2>5. UNCHANGED <<api, applied, status>>
    BY <1>5 DEF Passes, row
  <2>6. \A u \in Body : u > t \/ (u = t /\ status[q] \notin Terminal) => applied[q][u] = 0
    <3>1. \A u \in Body : u > worker[w].task => applied[q][u] = 0
      BY <2>1 DEF AppliedFits
    <3>2. ASSUME NEW u \in Body, u > t \/ (u = t /\ status[q] \notin Terminal)
          PROVE  u > worker[w].task
      <4>1. worker[w].task \in Nat /\ u \in Nat
        BY <2>1, TaskFacts
      <4> QED
        BY <1>5, <2>1, <3>2, <4>1
    <3> QED
      BY <3>1, <3>2
  <2>7. ASSUME NEW r \in Runs, NEW u \in Tasks, msgs'[r][u] > 0
        PROVE  \A s \in Body : s > u \/ (s = u /\ status[r] \notin Terminal) => applied[r][s] = 0
    BY <2>2, <2>4, <2>6, <2>7 DEF AppliedFits
  <2>8. ASSUME NEW r \in Runs, NEW v \in Workers, Holds(v, r)'
        PROVE  Holds(v, r) /\ worker'[v] = worker[v]
    BY <2>3, <2>4, <2>8
  <2> QED
    BY <2>5, <2>7, <2>8 DEF AppliedFits, At, Fresh
<1>6. ASSUME NEW w \in Workers, Drops(w), UNCHANGED row
      PROVE  AppliedFits'
  <2>1. \A r \in Runs, v \in Workers : Holds(v, r)' => Holds(v, r) /\ worker'[v] = worker[v]
    BY <1>6, DropFacts DEF Holds
  <2> QED
    BY <1>6, <2>1, DropFacts DEF AppliedFits, row, At, Fresh
<1>7. ASSUME NEW w \in Workers, RunTask(w)
      PROVE  AppliedFits'
  <2>1. CASE HandOff(w)
    <3>1. worker[w].task # Finalize /\ Passes(w, worker[w].task + 1) => worker[w].task + 1 \in Tasks
      BY PassFacts, BusyIsJob, TaskFacts DEF Jobs, Passes
    <3>2. UNCHANGED row
      BY <2>1 DEF HandOff
    <3> QED
      BY <1>5, <1>6, <2>1, <3>1, <3>2, EndSteps
  <2>2. CASE Retry(w)
    <3>1. worker[w] \in Jobs
      BY <2>2, BusyIsJob DEF Retry, At
    <3>2. Holds(w, worker[w].run) /\ worker[w].pc = "raised"
      BY <2>2, <3>1 DEF Retry, At, Holds, Idle
    <3>3. status[worker[w].run] \in Terminal /\ worker[w].task \in Tasks
      BY <3>1, <3>2 DEF StatusFits, Executing, Terminal, Jobs
    <3> QED
      BY <1>5, <2>2, <3>3, EndSteps DEF Retry
  <2>3. CASE GiveUp(w) \/ Ack(w)
    BY <1>6, <2>3, EndSteps
  <2>4. CASE StageBody(w) \/ StageBodyRaises(w)
    <3>1. \E pc \in {"recording", "failing"} : Keeps(w, pc)
      BY <2>4, KeepSteps
    <3>2. At(w, "body") /\ worker[w].task \in Body
      BY <2>4 DEF StageBody, StageBodyRaises, PCMatchesTask
    <3>3. applied' = applied \/ Apply(worker[w].run, worker[w].task)
      BY <2>4 DEF StageBody, StageBodyRaises
    <3>4. UNCHANGED status
      BY <2>4 DEF StageBody, StageBodyRaises
    <3> QED
      BY <1>4, <3>1, <3>2, <3>3, <3>4 DEF BusyPC
  <2>5. CASE \/ StartRunning(w) \/ StartContended(w) \/ StageRecord(w) \/ FailureRecord(w)
             \/ FailureStatus(w) \/ FinalizeCompleted(w) \/ FinalizeRecord(w)
    <3>1. \E pc \in {"done", "failed", "raised", "stamping"} : Keeps(w, pc)
      BY <2>5, KeepSteps
    <3>2. UNCHANGED applied /\ (UNCHANGED status \/ \E st : status' = [status EXCEPT ![worker[w].run] = st])
      BY <2>5 DEF StartRunning, StartContended, StageRecord, FailureRecord, FailureStatus,
         FinalizeCompleted, FinalizeRecord
    <3> QED
      BY <1>4, <3>1, <3>2 DEF BusyPC
  <2> QED
    BY <1>7, <2>1, <2>2, <2>3, <2>4, <2>5 DEF RunTask
<1> QED
  BY <1>1, <1>2, <1>3, <1>7, CleanStep

LEMMA TokenInvHolds == Spec => [](ChainInv /\ CleanInv)
<1>1. Init => CleanInv
  BY DEF Init, CleanInv, TokenInv, OneToken, StatusFits, AppliedFits, Holds, Idle
<1>2. ChainInv /\ CleanInv /\ [Next]_vars => CleanInv'
  <2> SUFFICES ASSUME ChainInv, CleanInv, [Next]_vars, Clean'
               PROVE  TokenInv'
    BY DEF CleanInv
  <2>1. TokenInv
    BY CleanStep DEF ChainInv, CleanInv
  <2> QED
    BY <2>1, OneTokenStep, StatusFitsStep, AppliedFitsStep DEF TokenInv
<1> QED
  BY <1>1, <1>2, ChainInvHolds, PTL DEF Spec

\* For any interleaving of requests, cancels, retries and workers in which no message is
\* delivered twice and no failure goes unrecorded, a stage takes effect once.
THEOREM AppliedOnce == Spec => []AppliedAtMostOnce
<1>1. CleanInv => AppliedAtMostOnce
  BY DEF CleanInv, Clean, TokenInv, AppliedFits, AppliedAtMostOnce
<1> QED
  BY <1>1, TokenInvHolds, PTL

-----------------------------------------------------------------------------
(* What the clients see.  As long as the behaviour is clean, the status a  *)
(* task is about to overwrite is known from where it stands, so each write *)
(* is a step of AiRunPromise.                                              *)

\* The status of a run whose worker has not yet returned.
LEMMA StatusAtWorker ==
    ASSUME ChainInv, TokenInv, NEW w \in Workers, NEW pc \in BusyPC \ {"ack"}, At(w, pc)
    PROVE  worker[w].run \in Runs /\ status[worker[w].run] \in Executing(worker[w].task, pc)
<1>1. worker[w] \in Jobs
  BY BusyIsJob DEF ChainInv, At, BusyPC
<1>2. Holds(w, worker[w].run)
  BY <1>1 DEF At, Holds, Idle, BusyPC
<1> QED
  BY <1>1, <1>2 DEF TokenInv, StatusFits, At, Jobs

LEMMA PromiseStep ==
    ASSUME ChainInv, CleanInv, Clean, [Next]_vars
    PROVE  [Promise!Next]_(Promise!vars)
<1> USE DEF Promise!Next, Promise!Advance, Promise!Move, Promise!vars
<1> TokenInv
  BY DEF CleanInv
<1>1. ASSUME UNCHANGED <<status, cancelling>> PROVE [Promise!Next]_(Promise!vars)
  BY <1>1
<1>2. CASE UNCHANGED vars
  BY <1>1, <1>2 DEF vars
<1>3. ASSUME NEW r \in Runs, Request(r) PROVE [Promise!Next]_(Promise!vars)
  <2>1. CASE CreateRun(r)
    <3>1. status[r] = "absent"
      BY <2>1 DEF CreateRun, ChainInv, NotYetCreated
    <3>2. Promise!Queue(r)
      BY <2>1, <3>1 DEF CreateRun, Promise!Queue
    <3> QED
      BY <3>2
  <2>2. CASE Admit(r) \/ Refuse(r) \/ Enqueue(r)
    BY <1>1, <2>2 DEF Admit, Refuse, Enqueue, row
  <2> QED
    BY <1>3, <2>1, <2>2 DEF Request
<1>4. ASSUME NEW r \in Runs, CancelCheck(r) PROVE [Promise!Next]_(Promise!vars)
  <2>1. Promise!AcceptCancel(r)
    BY <1>4 DEF CancelCheck, Active, row, Promise!AcceptCancel
  <2> QED
    BY <2>1
<1>5. ASSUME NEW r \in Runs, CancelWrite(r) PROVE [Promise!Next]_(Promise!vars)
  <2>1. Promise!Cancel(r)
    BY <1>5 DEF CancelWrite, Promise!Cancel
  <2> QED
    BY <2>1
<1>6. ASSUME NEW w \in Workers, TakeTask(w) PROVE [Promise!Next]_(Promise!vars)
  BY <1>1, <1>6 DEF TakeTask, StartSkip, StartLock, StageSkip, StageBegin, FinalizeSkip,
     FinalizeBegin, Take, row
<1>7. ASSUME NEW w \in Workers, RunTask(w) PROVE [Promise!Next]_(Promise!vars)
  <2> DEFINE r == worker[w].run
  <2>1. CASE StartRunning(w)
    <3>1. r \in Runs /\ status[r] \in {"queued", "cancelled"}
      BY <2>1, StatusAtWorker DEF StartRunning, Executing, BusyPC
    <3>2. Promise!Begin(r) \/ Promise!Cross(r)
      BY <2>1, <3>1 DEF StartRunning, Promise!Begin, Promise!Cross
    <3> QED
      BY <3>1, <3>2
  <2>2. CASE StartContended(w)
    <3>1. r \in Runs /\ status[r] \in {"queued", "cancelled"}
      BY <2>2, StatusAtWorker DEF StartContended, Executing, BusyPC
    <3>2. Promise!Fail(r) \/ Promise!Cross(r)
      BY <2>2, <3>1 DEF StartContended, Promise!Fail, Promise!Cross
    <3> QED
      BY <3>1, <3>2
  <2>3. CASE FailureStatus(w)
    <3>1. r \in Runs /\ status[r] \in {"running", "cancelled"}
      BY <2>3, StatusAtWorker DEF FailureStatus, Executing, BusyPC
    <3>2. Promise!Fail(r) \/ Promise!Cross(r)
      BY <2>3, <3>1 DEF FailureStatus, Promise!Fail, Promise!Cross
    <3> QED
      BY <3>1, <3>2
  <2>4. CASE FinalizeCompleted(w)
    <3>1. r \in Runs /\ status[r] \in {"running", "cancelled"}
      BY <2>4, StatusAtWorker DEF FinalizeCompleted, Executing, BusyPC
    <3>2. Promise!Complete(r) \/ Promise!Cross(r)
      BY <2>4, <3>1 DEF FinalizeCompleted, Promise!Complete, Promise!Cross
    <3> QED
      BY <3>1, <3>2
  <2>5. CASE ~(StartRunning(w) \/ StartContended(w) \/ FailureStatus(w) \/ FinalizeCompleted(w))
    BY <1>1, <1>7, <2>5 DEF RunTask, StageBody, StageBodyRaises, StageRecord, FailureRecord,
       FinalizeRecord, HandOff, Retry, GiveUp, Ack, row
  <2> QED
    BY <2>1, <2>2, <2>3, <2>4, <2>5
<1>8. CASE Environment
  BY <1>1, <1>8 DEF Environment, EnqueueFails, WorkerKilled, VisibilityTimeout, ChildLost,
     DatabaseFault, row
<1> QED
  BY <1>2, <1>3, <1>4, <1>5, <1>6, <1>7, <1>8 DEF Next

\* Up to the first redelivery or unrecorded failure every step of the chain, the
\* requests and the cancels is a step of AiRunPromise or leaves what the clients
\* see as it is.
THEOREM CleanStepsKeepPromise == Spec => Promise!Init /\ [][Clean => [Promise!Next]_(Promise!vars)]_vars
<1>1. Init => Promise!Init
  BY DEF Init, Promise!Init
<1>2. ChainInv /\ CleanInv /\ [Next]_vars => (Clean => [Promise!Next]_(Promise!vars))
  BY PromiseStep
<1> QED
  BY <1>1, <1>2, TokenInvHolds, PTL DEF Spec

\* Where the broker delivers each message once and nothing fails unrecorded,
\* AiRun implements the safety part of AiRunPromise.
THEOREM ImplementsPromise ==
    ASSUME MaxRedeliveries = 0, MaxFaults = 0
    PROVE  Spec => Promise!Init /\ [][Promise!Next]_(Promise!vars)
<1>1. Init => Promise!Init
  BY DEF Init, Promise!Init
<1>2. ChainInv /\ CleanInv /\ [Next]_vars => [Promise!Next]_(Promise!vars)
  <2>1. ChainInv => Clean
    BY DEF ChainInv, TypeOK, Clean
  <2> QED
    BY <2>1, PromiseStep
<1> QED
  BY <1>1, <1>2, TokenInvHolds, PTL DEF Spec

\* Up to the first redelivery or unrecorded failure, a completed or failed run
\* changes its status only by a cancel that read the status before.
THEOREM StaleCancelOnly == Spec => OnlyStaleCancelOverwrites
<1> DEFINE Stale == redeliveries = 0 /\ faults = 0 =>
                      \A r \in Runs :
                        /\ status[r] \in {"completed", "failed"}
                        /\ status'[r] # status[r]
                        => status'[r] = "cancelled" /\ cancelling[r]
<1>1. ChainInv /\ CleanInv /\ [Next]_vars => [Stale]_vars
  <2> SUFFICES ASSUME ChainInv, CleanInv, [Next]_vars, Clean, NEW r \in Runs,
                      status[r] \in {"completed", "failed"}, status'[r] # status[r]
               PROVE  status'[r] = "cancelled" /\ cancelling[r]
    BY DEF Clean
  <2>1. PICK q \in Runs : Promise!Queue(q) \/ Promise!Advance(q) \/ Promise!Cross(q)
                          \/ Promise!AcceptCancel(q) \/ Promise!Cancel(q)
    BY PromiseStep DEF Promise!Next, Promise!vars
  <2>2. q = r /\ status[q] \in {"completed", "failed"}
    BY <2>1 DEF Promise!Queue, Promise!Advance, Promise!Begin, Promise!Complete, Promise!Fail,
       Promise!Cross, Promise!Move, Promise!AcceptCancel, Promise!Cancel, ChainInv, TypeOK
  <2>3. Promise!Cancel(r)
    BY <2>1, <2>2 DEF Promise!Queue, Promise!Advance, Promise!Begin, Promise!Complete, Promise!Fail,
       Promise!Cross, Promise!Move, Promise!AcceptCancel
  <2> QED
    BY <2>3 DEF Promise!Cancel, ChainInv, TypeOK
<1> QED
  BY <1>1, TokenInvHolds, PTL DEF Spec, OnlyStaleCancelOverwrites
=============================================================================
