------------------------ MODULE PlanProcessingProofs ------------------------
(***************************************************************************)
(* Proofs about PlanProcessing for every number of plans, workers and      *)
(* pages, every chunk size and every bound on retries, redeliveries and    *)
(* faults.                                                                 *)
(***************************************************************************)
EXTENDS PlanProcessing, TLAPS

\* Nothing refers to a plan before its row commits.
NotYetUploaded ==
    \A p \in Plans : upload[p] # "committed" =>
        status[p] = "absent" /\ substep[p] = "none" /\ retrying[p] = NoRetry /\ ~deleting[p]

\* A plan without a row has no sheets: they are dropped with it.
NoOrphanSheets == \A p \in Plans : ~Exists(p) => sheets[p] = {}

\* An execution that has the plan to itself.
SoleWorker ==
    \A p \in Plans \ overlapped : \A v, w \in Workers :
        WorksOn(v, p) /\ WorksOn(w, p) => v = w

\* What such an execution has written: nothing before the first chunk, then the
\* rows of exactly the pages it counts, as long as the plan is there.
RowsMatchPage ==
    \A w \in Workers :
        LET p == worker[w].plan
        IN worker[w].pc \in Working /\ p \notin overlapped =>
             /\ worker[w].pc \in {"download", "extract"} => sheets[p] = {}
             /\ worker[w].pc \in {"persist", "saved"} /\ Exists(p)
                   => sheets[p] = 1..worker[w].page

\* Only a plan whose row was found is worked on.
WorkIsUploaded ==
    \A w \in Workers : worker[w].pc \in Working \ {"failing"} => upload[worker[w].plan] = "committed"

PlanInv ==
    /\ TypeOK
    /\ NotYetUploaded
    /\ WorkIsUploaded
    /\ NoOrphanSheets
    /\ SoleWorker
    /\ RowsMatchPage
    /\ ReadyHasEveryPage
    /\ ReportedPagesAreSaved

-----------------------------------------------------------------------------
(* Type correctness.                                                       *)

\* The next row a chunk ends at is a page, and the chunk holds the rows up to it.
LEMMA ChunkFacts ==
    ASSUME NEW n \in 0..PageCount
    PROVE  /\ LastOfChunk(n) \in 0..PageCount
           /\ ChunkAfter(n) \subseteq Pages
           /\ n < PageCount => (1..n) \cup ChunkAfter(n) = 1..LastOfChunk(n)
           /\ (1..n) \cap ChunkAfter(n) = {}
BY ConstantsAssumption DEF LastOfChunk, ChunkAfter, Pages

LEMMA WorkerType ==
    ASSUME TypeOK, NEW w \in Workers, NEW job \in Jobs, worker' = [worker EXCEPT ![w] = job]
    PROVE  worker' \in [Workers -> Jobs \cup {Idle}]
BY DEF TypeOK

\* A busy worker has a job; one that moves on keeps the plan of its job.
LEMMA BusyIsJob ==
    ASSUME TypeOK, NEW w \in Workers, worker[w].pc # "idle" \/ worker[w] # Idle
    PROVE  worker[w] \in Jobs /\ worker[w].plan \in Plans /\ worker[w].page \in 0..PageCount
BY DEF TypeOK, Idle, Jobs

LEMMA MoveFacts ==
    ASSUME TypeOK, NEW w \in Workers, worker[w] \in Jobs,
           NEW pc \in {"download", "extract", "persist", "saved", "failing", "done"},
           NEW n \in 0..PageCount,
           (Goto(w, pc) /\ n = worker[w].page) \/ Reach(w, pc, n)
    PROVE  /\ worker' = [worker EXCEPT ![w] = [pc |-> pc, plan |-> worker[w].plan, page |-> n]]
           /\ worker' \in [Workers -> Jobs \cup {Idle}]
<1>1. [worker[w] EXCEPT !.pc = pc] = [pc |-> pc, plan |-> worker[w].plan, page |-> worker[w].page]
  BY DEF Jobs
<1>2. worker' = [worker EXCEPT ![w] = [pc |-> pc, plan |-> worker[w].plan, page |-> n]]
  BY <1>1 DEF Goto, Reach, TypeOK
<1>3. [pc |-> pc, plan |-> worker[w].plan, page |-> n] \in Jobs
  BY DEF Jobs
<1>4. QED
  BY <1>2, <1>3, WorkerType

\* What a step of process_plan after its first transaction does to its worker.
LEMMA ProcessMoves ==
    ASSUME TypeOK, NEW w \in Workers, Process(w) \/ DatabaseFault(w)
    PROVE  /\ worker[w] \in Jobs /\ worker[w].plan \in Plans /\ worker[w].page \in 0..PageCount
           /\ \/ worker' = [worker EXCEPT ![w] = Idle]
              \/ \E pc \in {"download", "extract", "persist", "saved", "failing", "done"},
                    n \in 0..PageCount :
                      (Goto(w, pc) /\ n = worker[w].page) \/ Reach(w, pc, n)
<1>1. worker[w] \in Jobs /\ worker[w].plan \in Plans /\ worker[w].page \in 0..PageCount
  BY BusyIsJob DEF Process, Download, ExtractPage, ExtractDone, ExtractFails, PersistChunk,
     PersistRejected, ReportSaved, MarkReady, MarkError, Ack, DatabaseFault, At
<1>2. LastOfChunk(worker[w].page) \in 0..PageCount /\ 0 \in 0..PageCount /\ Pages \subseteq 0..PageCount
  BY <1>1, ChunkFacts, ConstantsAssumption DEF Pages
<1>3. ASSUME Process(w)
      PROVE  \/ worker' = [worker EXCEPT ![w] = Idle]
             \/ \E pc \in {"download", "extract", "persist", "saved", "failing", "done"},
                    n \in 0..PageCount :
                      (Goto(w, pc) /\ n = worker[w].page) \/ Reach(w, pc, n)
  BY <1>1, <1>2, <1>3 DEF Process, Download, ExtractPage, ExtractDone, ExtractFails, PersistChunk,
     PersistRejected, ReportSaved, MarkReady, MarkError, Ack
<1>4. ASSUME DatabaseFault(w)
      PROVE  \E pc \in {"download", "extract", "persist", "saved", "failing", "done"},
                    n \in 0..PageCount :
                      (Goto(w, pc) /\ n = worker[w].page) \/ Reach(w, pc, n)
  BY <1>1, <1>2, <1>4 DEF DatabaseFault
<1>5. QED
  BY <1>1, <1>3, <1>4

LEMMA ReportType ==
    ASSUME TypeOK, NEW p \in Plans, NEW n \in 0..PageCount, NEW sub \in {"none", "extract", "persist"},
           Report(p, n, sub)
    PROVE  processed' \in [Plans -> 0..PageCount] /\ substep' \in [Plans -> {"none", "extract", "persist"}]
BY DEF TypeOK, Report

LEMMA ReceiveType ==
    ASSUME TypeOK, NEW w \in Workers, NEW p \in Plans,
           NEW pc \in {"download", "done", "failing"}, Receive(w, p, pc)
    PROVE  /\ worker' \in [Workers -> Jobs \cup {Idle}]
           /\ msgs' \in [Plans -> Nat]
<1>1. [pc |-> pc, plan |-> p, page |-> 0] \in Jobs
  BY ConstantsAssumption DEF Jobs
<1>2. QED
  BY <1>1 DEF Receive, TypeOK

LEMMA TypeStep == TypeOK /\ [Next]_vars => TypeOK'
<1> SUFFICES ASSUME TypeOK, [Next]_vars PROVE TypeOK'
  OBVIOUS
<1> USE ConstantsAssumption
<1>1. ASSUME NEW p \in Plans, Request(p) PROVE TypeOK'
  <2>1. CASE Upload(p)
    BY <2>1 DEF Upload, Publish, TypeOK, row, history
  <2>2. CASE CommitUpload(p)
    BY <2>2 DEF CommitUpload, TypeOK, history, counters
  <2>3. CASE AbortUpload(p)
    BY <2>3 DEF AbortUpload, TypeOK, row, history
  <2>4. CASE RetryRead(p)
    BY <2>4 DEF RetryRead, TypeOK, Seen, row, history
  <2>5. CASE RetryRaises(p)
    BY <2>5 DEF RetryRaises, TypeOK, row, history, counters
  <2>6. CASE RetryCommit(p) \/ RetryAborts(p)
    BY <2>6 DEF RetryCommit, RetryAborts, Publish, TypeOK, history, row
  <2>7. CASE DeleteCheck(p)
    BY <2>7 DEF DeleteCheck, TypeOK, row, history, counters
  <2>8. CASE DeleteCommit(p)
    BY <2>8 DEF DeleteCommit, TypeOK, history, counters
  <2>9. QED
    BY <1>1, <2>1, <2>2, <2>3, <2>4, <2>5, <2>6, <2>7, <2>8 DEF Request
<1>2. ASSUME NEW w \in Workers, NEW p \in Plans, Begin(w, p) \/ BeginMissing(w, p) \/ BeginFails(w, p)
      PROVE  TypeOK'
  <2>1. worker' \in [Workers -> Jobs \cup {Idle}] /\ msgs' \in [Plans -> Nat]
    BY <1>2, ReceiveType DEF Begin, BeginMissing, BeginFails
  <2>2. QED
    BY <1>2, <2>1 DEF Begin, BeginMissing, BeginFails, MarkOverlap, TypeOK, row, requests, counters
<1>3. ASSUME NEW w \in Workers, Process(w) \/ DatabaseFault(w) PROVE TypeOK'
  <2>1. worker[w].plan \in Plans /\ worker[w].page \in 0..PageCount
    BY <1>3, ProcessMoves
  <2>2. worker' \in [Workers -> Jobs \cup {Idle}]
    <3>1. CASE worker' = [worker EXCEPT ![w] = Idle]
      BY <3>1 DEF TypeOK
    <3>2. CASE worker' # [worker EXCEPT ![w] = Idle]
      BY <1>3, <3>2, ProcessMoves, MoveFacts
    <3>3. QED
      BY <3>1, <3>2
  <2>3. CASE ExtractPage(w) \/ ExtractDone(w) \/ ReportSaved(w) \/ MarkReady(w)
    <3>1. PICK n \in 0..PageCount, sub \in {"none", "extract", "persist"} : Report(worker[w].plan, n, sub)
      BY <2>1, <2>3 DEF ExtractPage, ExtractDone, ReportSaved, MarkReady, Pages
    <3>2. processed' \in [Plans -> 0..PageCount] /\ substep' \in [Plans -> {"none", "extract", "persist"}]
      BY <2>1, <3>1, ReportType
    <3>3. QED
      BY <2>1, <2>2, <2>3, <3>2 DEF ExtractPage, ExtractDone, ReportSaved, MarkReady, TypeOK, requests,
         history, counters
  <2>4. CASE PersistChunk(w)
    BY <2>1, <2>2, <2>4, ChunkFacts DEF PersistChunk, TypeOK, row, requests, history, counters
  <2>5. CASE Download(w) \/ ExtractFails(w) \/ PersistRejected(w) \/ MarkError(w) \/ Ack(w)
    BY <2>1, <2>2, <2>5 DEF Download, ExtractFails, PersistRejected, MarkError, Ack, TypeOK, row,
       requests, history, counters
  <2>6. CASE DatabaseFault(w)
    BY <2>2, <2>6 DEF DatabaseFault, TypeOK, row, requests, history, counters
  <2>7. QED
    BY <1>3, <2>3, <2>4, <2>5, <2>6 DEF Process
<1>4. ASSUME NEW w \in Workers, WorkerKilled(w) \/ VisibilityTimeout(w) PROVE TypeOK'
  <2>1. worker[w].plan \in Plans
    BY <1>4, BusyIsJob DEF WorkerKilled, VisibilityTimeout, Redeliver
  <2>2. QED
    BY <1>4, <2>1 DEF WorkerKilled, VisibilityTimeout, Redeliver, Publish, TypeOK, row, requests, history
<1>5. ASSUME NEW w \in Workers, ChildLost(w) PROVE TypeOK'
  BY <1>5 DEF ChildLost, TypeOK, row, requests, history
<1>6. CASE UNCHANGED vars
  BY <1>6 DEF vars, TypeOK
<1>7. QED
  BY <1>1, <1>2, <1>3, <1>4, <1>5, <1>6 DEF Next, Receives, Trouble

\* Every column keeps its type: no status or substep but those the polling
\* clients know, and never more pages processed than the PDF has.
THEOREM TypeCorrect == Spec => []TypeOK
<1>1. Init => TypeOK
  BY ConstantsAssumption DEF Init, TypeOK
<1>2. QED
  BY <1>1, TypeStep, PTL DEF Spec

-----------------------------------------------------------------------------
(* The invariant.                                                          *)

\* The jobs of the other workers stay, and a worker that starts to work on a plan
\* someone works on marks the plan as overlapped.
LEMMA WorkersStep ==
    ASSUME TypeOK, [Next]_vars, NEW p \in Plans \ overlapped', NEW w \in Workers, WorksOn(w, p)'
    PROVE  /\ p \notin overlapped
           /\ WorksOn(w, p) \/ \A v \in Workers : ~WorksOn(v, p)
<1>1. p \notin overlapped
  BY DEF Next, Request, Upload, CommitUpload, AbortUpload, RetryRead, RetryRaises, RetryAborts, RetryCommit,
     DeleteCheck, DeleteCommit, history, Receives, Begin, BeginMissing, BeginFails, MarkOverlap,
     Process, Download, ExtractPage, ExtractDone, ExtractFails, PersistChunk, PersistRejected,
     ReportSaved, MarkReady, MarkError, Ack, Trouble, WorkerKilled, VisibilityTimeout, Redeliver,
     ChildLost, DatabaseFault, vars
<1>2. ASSUME NEW q \in Plans, Request(q) PROVE WorksOn(w, p)
  BY <1>2 DEF Request, Upload, CommitUpload, AbortUpload, RetryRead, RetryRaises, RetryAborts, RetryCommit,
     DeleteCheck, DeleteCommit, WorksOn
<1>3. ASSUME NEW v \in Workers, Receives(v)
      PROVE  WorksOn(w, p) \/ \A u \in Workers : ~WorksOn(u, p)
  <2>1. PICK q \in Plans, pc \in {"download", "done", "failing"} :
          Receive(v, q, pc) /\ (pc # "done" => MarkOverlap(q))
    BY <1>3 DEF Receives, Begin, BeginMissing, BeginFails
  <2>2. CASE v # w
    BY <2>1, <2>2 DEF Receive, TypeOK, WorksOn
  <2>3. CASE v = w
    <3>1. worker'[w] = [pc |-> pc, plan |-> q, page |-> 0]
      BY <2>1, <2>3 DEF Receive, TypeOK
    <3>2. q = p /\ pc # "done"
      BY <3>1 DEF WorksOn, Working
    <3>3. QED
      BY <2>1, <3>2 DEF MarkOverlap
  <2>4. QED
    BY <2>2, <2>3
<1>4. ASSUME NEW v \in Workers, Process(v) \/ DatabaseFault(v) PROVE WorksOn(w, p)
  <2>1. CASE v # w
    <3>1. worker'[w] = worker[w]
      BY <1>4, <2>1, ProcessMoves DEF Goto, Reach, TypeOK
    <3>2. QED
      BY <3>1 DEF WorksOn
  <2>2. CASE v = w
    <3>1. worker'[w] # Idle
      BY DEF WorksOn, Working, Idle
    <3>2. worker[w] \in Jobs
      BY <1>4, <2>2, ProcessMoves
    <3>3. worker'[w].plan = worker[w].plan
      BY <1>4, <2>2, <3>1, <3>2, ProcessMoves, MoveFacts DEF TypeOK
    <3>4. worker[w].pc \in Working
      <4>1. worker[w].pc # "done"
        BY <1>4, <2>2, <3>1 DEF Process, Download, ExtractPage, ExtractDone, ExtractFails,
           PersistChunk, PersistRejected, ReportSaved, MarkReady, MarkError, Ack, At,
           DatabaseFault, TypeOK
      <4>2. QED
        BY <3>2, <4>1 DEF Jobs, Working
    <3>5. QED
      BY <3>3, <3>4 DEF WorksOn
  <2>3. QED
    BY <2>1, <2>2
<1>5. ASSUME NEW v \in Workers, WorkerKilled(v) \/ VisibilityTimeout(v) \/ ChildLost(v)
      PROVE  WorksOn(w, p)
  <2>1. worker'[w] = worker[w] \/ worker'[w] = Idle
    BY <1>5 DEF WorkerKilled, VisibilityTimeout, ChildLost, TypeOK
  <2>2. worker'[w] # Idle
    BY DEF WorksOn, Working, Idle
  <2>3. QED
    BY <2>1, <2>2 DEF WorksOn
<1>6. CASE UNCHANGED vars
  BY <1>6 DEF vars, WorksOn
<1>7. QED
  BY <1>1, <1>2, <1>3, <1>4, <1>5, <1>6 DEF Next, Trouble

LEMMA SoleWorkerStep ==
    ASSUME PlanInv, [Next]_vars
    PROVE  SoleWorker'
<1> SUFFICES ASSUME NEW p \in Plans \ overlapped', NEW v \in Workers, NEW w \in Workers,
                    WorksOn(v, p)', WorksOn(w, p)', v # w
             PROVE  FALSE
  BY DEF SoleWorker, WorksOn
<1> USE DEF PlanInv
<1>1. p \notin overlapped /\ ~(WorksOn(v, p) /\ WorksOn(w, p))
  BY WorkersStep DEF SoleWorker
<1>2. \A u \in Workers : ~WorksOn(u, p)
  BY <1>1, WorkersStep
<1>3. \E u \in Workers : \A x \in Workers : x # u => worker'[x] = worker[x]
  <2>1. ASSUME NEW q \in Plans, Request(q) PROVE UNCHANGED worker
    BY <2>1 DEF Request, Upload, CommitUpload, AbortUpload, RetryRead, RetryRaises, RetryAborts, RetryCommit,
       DeleteCheck, DeleteCommit
  <2>2. ASSUME NEW u \in Workers, Receives(u) \/ Process(u) \/ Trouble(u)
        PROVE  \A x \in Workers : x # u => worker'[x] = worker[x]
    <3>1. CASE Receives(u)
      BY <3>1 DEF Receives, Begin, BeginMissing, BeginFails, Receive, TypeOK
    <3>2. CASE Process(u) \/ DatabaseFault(u)
      BY <3>2, ProcessMoves DEF Goto, Reach, TypeOK
    <3>3. CASE WorkerKilled(u) \/ VisibilityTimeout(u) \/ ChildLost(u)
      BY <3>3 DEF WorkerKilled, VisibilityTimeout, ChildLost, TypeOK
    <3>4. QED
      BY <2>2, <3>1, <3>2, <3>3 DEF Trouble
  <2>3. CASE UNCHANGED vars
    BY <2>3 DEF vars
  <2>4. QED
    BY <2>1, <2>2, <2>3 DEF Next
<1>4. WorksOn(v, p) \/ WorksOn(w, p)
  BY <1>3 DEF WorksOn
<1>5. QED
  BY <1>2, <1>4

LEMMA UploadStep ==
    ASSUME PlanInv, [Next]_vars
    PROVE  NotYetUploaded' /\ NoOrphanSheets'
<1> USE DEF PlanInv
<1>1. ASSUME NEW p \in Plans, Request(p) PROVE NotYetUploaded' /\ NoOrphanSheets'
  <2>1. CASE Upload(p) \/ AbortUpload(p)
    BY <2>1 DEF Upload, AbortUpload, NotYetUploaded, NoOrphanSheets, Exists, row, TypeOK
  <2>2. CASE CommitUpload(p)
    BY <2>2 DEF CommitUpload, NotYetUploaded, NoOrphanSheets, Exists, TypeOK
  <2>3. CASE RetryRead(p) \/ RetryRaises(p) \/ RetryAborts(p)
    BY <2>3 DEF RetryRead, RetryRaises, RetryAborts, NotYetUploaded, NoOrphanSheets, Exists, row, TypeOK
  <2>4. CASE RetryCommit(p)
    <3>1. upload[p] = "committed"
      BY <2>4 DEF RetryCommit, NotYetUploaded
    <3>2. ~Exists(p) => status' = status
      BY <2>4 DEF RetryCommit, Unflushable
    <3>3. QED
      BY <2>4, <3>1, <3>2 DEF RetryCommit, NotYetUploaded, NoOrphanSheets, Exists, TypeOK
  <2>5. CASE DeleteCheck(p)
    BY <2>5 DEF DeleteCheck, NotYetUploaded, NoOrphanSheets, Exists, row, TypeOK
  <2>6. CASE DeleteCommit(p)
    BY <2>6 DEF DeleteCommit, NotYetUploaded, NoOrphanSheets, Exists, TypeOK
  <2>7. QED
    BY <1>1, <2>1, <2>2, <2>3, <2>4, <2>5, <2>6 DEF Request
<1>2. ASSUME NEW w \in Workers, NEW p \in Plans, Begin(w, p) PROVE NotYetUploaded' /\ NoOrphanSheets'
  BY <1>2 DEF Begin, NotYetUploaded, NoOrphanSheets, Exists, requests, TypeOK
<1>3. ASSUME UNCHANGED <<row, sheets, requests>> PROVE NotYetUploaded' /\ NoOrphanSheets'
  BY <1>3 DEF NotYetUploaded, NoOrphanSheets, Exists, row, requests
<1>4. ASSUME NEW w \in Workers, Process(w) PROVE NotYetUploaded' /\ NoOrphanSheets'
  <2>1. worker[w].plan \in Plans
    BY <1>4, ProcessMoves
  <2>2. CASE ExtractPage(w) \/ ExtractDone(w) \/ ReportSaved(w)
    BY <2>1, <2>2 DEF ExtractPage, ExtractDone, ReportSaved, Report, NotYetUploaded, NoOrphanSheets,
       Exists, requests, TypeOK
  <2>3. CASE MarkReady(w) \/ MarkError(w)
    BY <2>1, <2>3 DEF MarkReady, MarkError, Report, NotYetUploaded, NoOrphanSheets, Exists,
       requests, TypeOK
  <2>4. CASE PersistChunk(w)
    BY <2>1, <2>4 DEF PersistChunk, NotYetUploaded, NoOrphanSheets, Exists, row, requests, TypeOK
  <2>5. CASE Download(w) \/ ExtractFails(w) \/ PersistRejected(w) \/ Ack(w)
    BY <1>3, <2>5 DEF Download, ExtractFails, PersistRejected, Ack
  <2>6. QED
    BY <1>4, <2>2, <2>3, <2>4, <2>5 DEF Process
<1>5. ASSUME NEW w \in Workers, Trouble(w) PROVE NotYetUploaded' /\ NoOrphanSheets'
  BY <1>3, <1>5 DEF Trouble, WorkerKilled, VisibilityTimeout, Redeliver, ChildLost, DatabaseFault
<1>6. ASSUME NEW w \in Workers, NEW p \in Plans, BeginMissing(w, p) \/ BeginFails(w, p)
      PROVE  NotYetUploaded' /\ NoOrphanSheets'
  BY <1>3, <1>6 DEF BeginMissing, BeginFails
<1>7. CASE UNCHANGED vars
  BY <1>3, <1>7 DEF vars, row, requests
<1>8. QED
  BY <1>1, <1>2, <1>4, <1>5, <1>6, <1>7 DEF Next, Receives

\* How a worker comes to its next job: it keeps the job, goes on in it, ends, or
\* receives a plan in the first transaction of process_plan.
LEMMA WorkerCases ==
    ASSUME TypeOK, [Next]_vars, NEW w \in Workers
    PROVE  \/ worker'[w] = worker[w] /\ ~Process(w) /\ ~DatabaseFault(w)
           \/ worker'[w] = Idle
           \/ Process(w) \/ DatabaseFault(w)
           \/ \E p \in Plans : Begin(w, p) \/ BeginFails(w, p)
           \/ worker'[w].pc = "done"
<1> SUFFICES ASSUME ~Process(w), ~DatabaseFault(w)
             PROVE  \/ worker'[w] = worker[w]
                    \/ worker'[w] = Idle
                    \/ \E p \in Plans : Begin(w, p) \/ BeginFails(w, p)
                    \/ worker'[w].pc = "done"
  OBVIOUS
<1> DEFINE Goal == \/ worker'[w] = worker[w]
                   \/ worker'[w] = Idle
                   \/ \E p \in Plans : Begin(w, p) \/ BeginFails(w, p)
                   \/ worker'[w].pc = "done"
<1>1. ASSUME NEW p \in Plans, Request(p) PROVE Goal
  BY <1>1 DEF Request, Upload, CommitUpload, AbortUpload, RetryRead, RetryRaises, RetryAborts, RetryCommit,
       DeleteCheck, DeleteCommit
<1>2. ASSUME NEW v \in Workers, NEW p \in Plans, Begin(v, p) \/ BeginFails(v, p) \/ BeginMissing(v, p)
      PROVE  Goal
  <2>1. CASE v = w /\ BeginMissing(v, p)
    BY <2>1 DEF BeginMissing, Receive, TypeOK
  <2>2. CASE v = w /\ ~BeginMissing(v, p)
    BY <1>2, <2>2
  <2>3. CASE v # w
    <3>1. worker'[w] = worker[w]
      BY <1>2, <2>3 DEF Begin, BeginFails, BeginMissing, Receive, TypeOK
    <3>2. QED
      BY <3>1
  <2>4. QED
    BY <2>1, <2>2, <2>3
<1>3. ASSUME NEW v \in Workers, Process(v) \/ DatabaseFault(v) PROVE Goal
  BY <1>3, ProcessMoves DEF Goto, Reach, TypeOK
<1>4. ASSUME NEW v \in Workers, WorkerKilled(v) \/ VisibilityTimeout(v) \/ ChildLost(v) PROVE Goal
  BY <1>4 DEF WorkerKilled, VisibilityTimeout, ChildLost, TypeOK
<1>5. ASSUME UNCHANGED vars PROVE Goal
  BY <1>5 DEF vars
<1> HIDE DEF Goal
<1>6. Goal
  BY <1>1, <1>2, <1>3, <1>4, <1>5 DEF Next, Receives, Trouble
<1>7. QED
  BY <1>6 DEF Goal

\* Rows appear only in the chunk a worker persists, and go only with the plan or
\* at the start of an execution; a row that exists stays until the plan is deleted.
LEMMA SheetsStep ==
    ASSUME PlanInv, [Next]_vars, NEW p \in Plans \ overlapped'
    PROVE  /\ \/ sheets'[p] = sheets[p]
              \/ sheets'[p] = {} /\ (~Exists(p)' \/ \E w \in Workers : Begin(w, p))
              \/ \E w \in Workers : PersistChunk(w) /\ worker[w].plan = p
           /\ Exists(p)' => Exists(p) \/ upload[p] # "committed"
           /\ upload[p] = "committed" => upload'[p] = "committed"
<1> USE DEF PlanInv
<1> DEFINE Goal ==
      /\ \/ sheets'[p] = sheets[p]
         \/ sheets'[p] = {} /\ (~Exists(p)' \/ \E w \in Workers : Begin(w, p))
         \/ \E w \in Workers : PersistChunk(w) /\ worker[w].plan = p
      /\ Exists(p)' => Exists(p) \/ upload[p] # "committed"
      /\ upload[p] = "committed" => upload'[p] = "committed"
<1>1. ASSUME UNCHANGED <<row, sheets, upload>> PROVE Goal
  BY <1>1 DEF row, Exists
<1>2. ASSUME NEW q \in Plans, Request(q) PROVE Goal
  <2>1. CASE Upload(q) \/ AbortUpload(q)
    BY <2>1 DEF Upload, AbortUpload, Exists, row, TypeOK
  <2>2. CASE CommitUpload(q)
    BY <2>2 DEF CommitUpload, Exists, TypeOK
  <2>3. CASE RetryRead(q) \/ RetryRaises(q) \/ RetryAborts(q) \/ DeleteCheck(q)
    BY <1>1, <2>3 DEF RetryRead, RetryRaises, RetryAborts, DeleteCheck
  <2>4. CASE RetryCommit(q)
    <3>1. ~Exists(q) => status' = status
      BY <2>4 DEF RetryCommit, Unflushable
    <3>2. QED
      BY <2>4, <3>1 DEF RetryCommit, Exists, TypeOK
  <2>5. CASE DeleteCommit(q)
    BY <2>5 DEF DeleteCommit, Exists, TypeOK
  <2>6. QED
    BY <1>2, <2>1, <2>2, <2>3, <2>4, <2>5 DEF Request
<1>3. ASSUME NEW w \in Workers, NEW q \in Plans, Begin(w, q) PROVE Goal
  <2>1. CASE q = p
    <3>1. sheets'[p] = {} /\ Exists(p) /\ UNCHANGED upload
      BY <1>3, <2>1 DEF Begin, TypeOK, requests
    <3>2. \E v \in Workers : Begin(v, p)
      BY <1>3, <2>1
    <3>3. QED
      BY <3>1, <3>2
  <2>2. CASE q # p
    BY <1>3, <2>2 DEF Begin, Exists, requests, TypeOK
  <2>3. QED
    BY <2>1, <2>2
<1>4. ASSUME NEW w \in Workers, NEW q \in Plans, BeginMissing(w, q) \/ BeginFails(w, q) PROVE Goal
  BY <1>1, <1>4 DEF BeginMissing, BeginFails, requests
<1>5. ASSUME NEW w \in Workers, Process(w) PROVE Goal
  <2>1. CASE PersistChunk(w)
    <3>1. CASE worker[w].plan = p
      <4>1. \E v \in Workers : PersistChunk(v) /\ worker[v].plan = p
        BY <2>1, <3>1
      <4>2. QED
        BY <2>1, <4>1 DEF PersistChunk, row, requests, Exists
    <3>2. CASE worker[w].plan # p
      BY <2>1, <3>2 DEF PersistChunk, row, requests, Exists, TypeOK
    <3>3. QED
      BY <3>1, <3>2
  <2>2. CASE MarkReady(w) \/ MarkError(w)
    BY <2>2 DEF MarkReady, MarkError, Exists, requests, TypeOK
  <2>3. CASE ~PersistChunk(w) /\ ~MarkReady(w) /\ ~MarkError(w)
    BY <1>5, <2>3 DEF Process, Download, ExtractPage, ExtractDone, ExtractFails, PersistRejected,
       ReportSaved, Ack, row, requests, Exists
  <2>4. QED
    BY <2>1, <2>2, <2>3
<1>6. ASSUME NEW w \in Workers, Trouble(w) PROVE Goal
  BY <1>1, <1>6 DEF Trouble, WorkerKilled, VisibilityTimeout, Redeliver, ChildLost, DatabaseFault,
     requests
<1>7. ASSUME UNCHANGED vars PROVE Goal
  BY <1>1, <1>7 DEF vars, row
<1> HIDE DEF Goal
<1>8. Goal
  BY <1>2, <1>3, <1>4, <1>5, <1>6, <1>7 DEF Next, Receives
<1>9. QED
  BY <1>8 DEF Goal

\* An execution that begins on a plan nobody else works on.
LEMMA BeginAlone ==
    ASSUME NEW w \in Workers, NEW p \in Plans \ overlapped', Begin(w, p), NEW v \in Workers
    PROVE  ~WorksOn(v, p)
BY DEF Begin, MarkOverlap

LEMMA WorkIsUploadedStep ==
    ASSUME PlanInv, [Next]_vars
    PROVE  WorkIsUploaded'
<1> USE DEF PlanInv
<1> SUFFICES ASSUME NEW w \in Workers, worker'[w].pc \in Working \ {"failing"}
             PROVE  upload'[worker'[w].plan] = "committed"
  BY DEF WorkIsUploaded
<1>1. \A p \in Plans : upload[p] = "committed" => upload'[p] = "committed"
  BY DEF Next, Request, Upload, CommitUpload, AbortUpload, RetryRead, RetryRaises, RetryAborts, RetryCommit,
     DeleteCheck, DeleteCommit, Receives, Begin, BeginMissing, BeginFails, requests,
     Process, Download, ExtractPage, ExtractDone, ExtractFails, PersistChunk, PersistRejected,
     ReportSaved, MarkReady, MarkError, Ack, Trouble, WorkerKilled, VisibilityTimeout, Redeliver,
     ChildLost, DatabaseFault, vars, TypeOK
<1>2. CASE worker'[w] = worker[w]
  BY <1>1, <1>2, BusyIsJob DEF WorkIsUploaded, Working
<1>3. CASE Process(w) \/ DatabaseFault(w)
  <2>1. worker[w] \in Jobs /\ worker[w].plan \in Plans
    BY <1>3, ProcessMoves
  <2>2. worker'[w].plan = worker[w].plan /\ worker[w].pc \in Working \ {"failing"}
    BY <1>3, <2>1 DEF Process, Download, ExtractPage, ExtractDone, ExtractFails, PersistChunk,
       PersistRejected, ReportSaved, MarkReady, MarkError, Ack, DatabaseFault, At, Goto, Reach,
       Working, Idle, Jobs, TypeOK
  <2>3. QED
    BY <1>1, <2>1, <2>2 DEF WorkIsUploaded
<1>4. ASSUME NEW p \in Plans, Begin(w, p) \/ BeginFails(w, p)
      PROVE  upload'[worker'[w].plan] = "committed"
  <2>1. Begin(w, p) /\ worker'[w].plan = p
    BY <1>4 DEF Begin, BeginFails, Receive, TypeOK, Working
  <2>2. upload[p] = "committed"
    BY <2>1 DEF Begin, Exists, NotYetUploaded
  <2>3. QED
    BY <1>1, <2>1, <2>2
<1>5. worker'[w] # Idle /\ worker'[w].pc # "done"
  BY DEF Working, Idle
<1>6. QED
  BY <1>2, <1>3, <1>4, <1>5, WorkerCases

LEMMA RowsStep ==
    ASSUME PlanInv, [Next]_vars
    PROVE  RowsMatchPage'
<1> USE DEF PlanInv
<1> DEFINE Match(w, p) ==
      /\ worker[w].pc \in {"download", "extract"} => sheets[p] = {}
      /\ worker[w].pc \in {"persist", "saved"} /\ Exists(p) => sheets[p] = 1..worker[w].page
<1> SUFFICES ASSUME NEW w \in Workers, worker'[w].pc \in Working, worker'[w].plan \notin overlapped'
             PROVE  Match(w, worker[w].plan)'
  BY DEF RowsMatchPage
<1>1. worker'[w] \in Jobs /\ worker'[w].plan \in Plans
  BY TypeStep DEF TypeOK, Working, Idle, Jobs
<1> PICK p \in Plans \ overlapped' : worker'[w].plan = p
  BY <1>1
<1>2. p \notin overlapped /\ WorksOn(w, p)'
  BY WorkersStep DEF WorksOn
<1>3. CASE worker'[w] = worker[w] /\ ~Process(w)
  <2>1. WorksOn(w, p) /\ worker[w].plan = p
    BY <1>2, <1>3 DEF WorksOn
  <2>2. Match(w, p)
    BY <1>2, <2>1 DEF RowsMatchPage, WorksOn
  <2>3. ASSUME NEW v \in Workers, Begin(v, p) PROVE FALSE
    BY <2>1, <2>3, BeginAlone
  <2>4. ASSUME NEW v \in Workers, PersistChunk(v), worker[v].plan = p PROVE FALSE
    <3>1. WorksOn(v, p)
      BY <2>4 DEF PersistChunk, At, WorksOn, Working
    <3>2. v = w
      BY <1>2, <2>1, <3>1 DEF SoleWorker
    <3>3. QED
      BY <1>3, <2>4, <3>2 DEF Process
  <2>5. worker[w].pc \in {"persist", "saved"} => upload[p] = "committed"
    BY <2>1 DEF WorkIsUploaded, Working
  <2>6. sheets'[p] = sheets[p] \/ (sheets'[p] = {} /\ ~Exists(p)')
    BY <2>3, <2>4, SheetsStep
  <2>7. worker[w].pc \in {"persist", "saved"} /\ Exists(p)' => Exists(p)
    BY <2>5, SheetsStep
  <2>8. QED
    BY <1>3, <2>1, <2>2, <2>6, <2>7
<1>4. CASE Process(w) \/ DatabaseFault(w)
  <2>1. worker[w] \in Jobs /\ worker[w].plan \in Plans /\ worker[w].page \in 0..PageCount
    BY <1>4, ProcessMoves
  <2>2. worker'[w] # Idle
    BY DEF Working, Idle
  <2>3. PICK pc \in {"download", "extract", "persist", "saved", "failing", "done"}, n \in 0..PageCount :
          (Goto(w, pc) /\ n = worker[w].page) \/ Reach(w, pc, n)
    BY <1>4, <2>2, ProcessMoves DEF TypeOK
  <2>4. worker' = [worker EXCEPT ![w] = [pc |-> pc, plan |-> worker[w].plan, page |-> n]]
    BY <2>1, <2>3, MoveFacts
  <2>5. worker'[w] = [pc |-> pc, plan |-> worker[w].plan, page |-> n] /\ worker[w].plan = p
    BY <2>4 DEF TypeOK
  <2>6. worker[w].pc \in Working => Match(w, p)
    BY <1>2, <2>5 DEF RowsMatchPage
  <2>7. CASE PersistChunk(w)
    <3>1. /\ Exists(p) /\ sheets[p] = 1..worker[w].page /\ worker[w].page < PageCount
      BY <2>5, <2>6, <2>7 DEF PersistChunk, At, Working
    <3>2. sheets'[p] = sheets[p] \cup ChunkAfter(worker[w].page)
      BY <2>5, <2>7 DEF PersistChunk, TypeOK
    <3>3. pc = "saved" /\ n = LastOfChunk(worker[w].page)
      BY <2>1, <2>5, <2>7 DEF PersistChunk, Reach, TypeOK
    <3>4. sheets'[p] = 1..n
      BY <2>1, <3>1, <3>2, <3>3, ChunkFacts
    <3>5. QED
      BY <2>5, <3>3, <3>4
  <2>8. CASE ~PersistChunk(w)
    <3>1. UNCHANGED sheets
      BY <1>4, <2>8 DEF Process, Download, ExtractPage, ExtractDone, ExtractFails, PersistRejected,
         ReportSaved, MarkReady, MarkError, Ack, DatabaseFault
    <3>2. /\ worker[w].pc \in Working
          /\ pc = "extract" => worker[w].pc \in {"download", "extract"}
          /\ pc = "persist" => \/ worker[w].pc = "extract" /\ n = 0
                               \/ worker[w].pc = "saved" /\ n = worker[w].page
          /\ pc \notin {"download", "saved"}
      BY <1>4, <2>1, <2>5, <2>8 DEF Process, Download, ExtractPage, ExtractDone, ExtractFails,
         PersistRejected, ReportSaved, MarkReady, MarkError, Ack, DatabaseFault, At, Goto, Reach,
         Working, Idle, Jobs, TypeOK
    <3>3. pc = "persist" /\ worker[w].pc = "saved" /\ Exists(p)' => Exists(p)
      BY <2>5, SheetsStep DEF WorkIsUploaded, Working
    <3>4. pc \in {"download", "extract"} => sheets'[p] = {}
      BY <2>6, <3>1, <3>2
    <3>5. pc \in {"persist", "saved"} /\ Exists(p)' => sheets'[p] = 1..n
      <4>1. CASE worker[w].pc = "extract" /\ n = 0
        <5>1. sheets[p] = {} /\ 1..0 = {}
          BY <2>6, <3>2, <4>1
        <5>2. QED
          BY <3>1, <4>1, <5>1
      <4>2. CASE worker[w].pc = "saved" /\ n = worker[w].page
        BY <2>6, <3>1, <3>2, <3>3, <4>2
      <4>3. QED
        BY <3>2, <4>1, <4>2
    <3>6. QED
      BY <2>5, <3>4, <3>5
  <2>9. QED
    BY <2>7, <2>8
<1>5. ASSUME NEW q \in Plans, Begin(w, q) \/ BeginFails(w, q) PROVE Match(w, worker[w].plan)'
  <2>1. CASE Begin(w, q)
    <3>1. worker'[w] = [pc |-> "download", plan |-> q, page |-> 0] /\ sheets'[q] = {}
      BY <2>1 DEF Begin, Receive, TypeOK
    <3>2. QED
      BY <3>1
  <2>2. CASE BeginFails(w, q)
    <3>1. worker'[w].pc = "failing"
      BY <2>2 DEF BeginFails, Receive, TypeOK
    <3>2. QED
      BY <3>1
  <2>3. QED
    BY <1>5, <2>1, <2>2
<1>6. worker'[w] # Idle /\ worker'[w].pc # "done"
  BY DEF Working, Idle
<1>7. QED
  BY <1>3, <1>4, <1>5, <1>6, WorkerCases

\* A chunk adds rows of the plan's pages and drops none.
LEMMA ChunkGrows ==
    ASSUME PlanInv, NEW w \in Workers, NEW p \in Plans, PersistChunk(w), worker[w].plan = p
    PROVE  sheets[p] \subseteq sheets'[p] /\ sheets'[p] \subseteq sheets[p] \cup Pages
<1>1. worker[w].page \in 0..PageCount
  BY BusyIsJob DEF PlanInv, PersistChunk, At
<1>2. ChunkAfter(worker[w].page) \subseteq Pages
  BY <1>1, ChunkFacts
<1>3. QED
  BY <1>2 DEF PersistChunk, PlanInv, TypeOK

LEMMA ReadyStep ==
    ASSUME PlanInv, [Next]_vars
    PROVE  ReadyHasEveryPage'
<1> USE DEF PlanInv
<1> SUFFICES ASSUME NEW p \in Plans \ overlapped', status'[p] = "ready"
             PROVE  sheets'[p] = Pages
  BY DEF ReadyHasEveryPage
<1>1. status[p] = "ready" \/ \E w \in Workers : MarkReady(w) /\ worker[w].plan = p /\ Exists(p)
  <2> DEFINE Goal == status[p] = "ready" \/ \E w \in Workers : MarkReady(w) /\ worker[w].plan = p /\ Exists(p)
  <2>1. ASSUME NEW q \in Plans, Request(q) PROVE Goal
    BY <2>1 DEF Request, Upload, CommitUpload, AbortUpload, RetryRead, RetryRaises, RetryAborts, RetryCommit,
       DeleteCheck, DeleteCommit, row, TypeOK
  <2>2. ASSUME NEW w \in Workers, Receives(w) PROVE Goal
    BY <2>2 DEF Receives, Begin, BeginMissing, BeginFails, row, TypeOK
  <2>3. ASSUME NEW w \in Workers, Process(w) PROVE Goal
    <3>1. CASE MarkReady(w)
      <4>1. CASE worker[w].plan = p /\ Exists(p)
        BY <3>1, <4>1
      <4>2. CASE ~(worker[w].plan = p /\ Exists(p))
        BY <3>1, <4>2 DEF MarkReady, TypeOK
      <4>3. QED
        BY <4>1, <4>2
    <3>2. CASE ~MarkReady(w)
      BY <2>3, <3>2 DEF Process, Download, ExtractPage, ExtractDone, ExtractFails, PersistChunk,
         PersistRejected, ReportSaved, MarkError, Ack, row, TypeOK
    <3>3. QED
      BY <3>1, <3>2
  <2>4. ASSUME NEW w \in Workers, Trouble(w) PROVE Goal
    BY <2>4 DEF Trouble, WorkerKilled, VisibilityTimeout, Redeliver, ChildLost, DatabaseFault, row
  <2>5. ASSUME UNCHANGED vars PROVE Goal
    BY <2>5 DEF vars
  <2> HIDE DEF Goal
  <2>6. Goal
    BY <2>1, <2>2, <2>3, <2>4, <2>5 DEF Next
  <2>7. QED
    BY <2>6 DEF Goal
<1>2. CASE status[p] = "ready"
  <2>1. sheets[p] = Pages
    <3>1. p \notin overlapped
      BY DEF Next, Request, Upload, CommitUpload, AbortUpload, RetryRead, RetryRaises, RetryAborts, RetryCommit,
         DeleteCheck, DeleteCommit, history, Receives, Begin, BeginMissing, BeginFails, MarkOverlap,
         Process, Download, ExtractPage, ExtractDone, ExtractFails, PersistChunk, PersistRejected,
         ReportSaved, MarkReady, MarkError, Ack, Trouble, WorkerKilled, VisibilityTimeout, Redeliver,
         ChildLost, DatabaseFault, vars
    <3>2. QED
      BY <1>2, <3>1 DEF ReadyHasEveryPage
  <2>2. Exists(p)'
    BY DEF Exists
  <2>3. ASSUME NEW w \in Workers, Begin(w, p) PROVE FALSE
    BY <2>3 DEF Begin, TypeOK
  <2>4. QED
    BY <2>1, <2>2, <2>3, SheetsStep, ChunkGrows
<1>3. ASSUME NEW w \in Workers, MarkReady(w), worker[w].plan = p, Exists(p)
      PROVE  sheets'[p] = Pages
  <2>1. p \notin overlapped /\ UNCHANGED sheets
    BY <1>3 DEF MarkReady, history
  <2>2. sheets[p] = 1..PageCount
    BY <1>3, <2>1 DEF MarkReady, At, RowsMatchPage, Working
  <2>3. QED
    BY <2>1, <2>2 DEF Pages
<1>4. QED
  BY <1>1, <1>2, <1>3

LEMMA ReportedStep ==
    ASSUME PlanInv, [Next]_vars
    PROVE  ReportedPagesAreSaved'
<1> USE DEF PlanInv
<1> SUFFICES ASSUME NEW p \in Plans \ overlapped', Exists(p)', substep'[p] = "persist"
             PROVE  1..processed'[p] \subseteq sheets'[p]
  BY DEF ReportedPagesAreSaved
<1>1. \/ processed'[p] = 0
      \/ substep[p] = "persist" /\ processed'[p] = processed[p]
      \/ \E w \in Workers : ReportSaved(w) /\ worker[w].plan = p /\ Exists(p)
  <2> DEFINE Goal ==
        \/ processed'[p] = 0
        \/ substep[p] = "persist" /\ processed'[p] = processed[p]
        \/ \E w \in Workers : ReportSaved(w) /\ worker[w].plan = p /\ Exists(p)
  <2>1. ASSUME NEW q \in Plans, Request(q) PROVE Goal
    BY <2>1 DEF Request, Upload, CommitUpload, AbortUpload, RetryRead, RetryRaises, RetryAborts, RetryCommit,
       DeleteCheck, DeleteCommit, row, TypeOK
  <2>2. ASSUME NEW w \in Workers, Receives(w) PROVE Goal
    BY <2>2 DEF Receives, Begin, BeginMissing, BeginFails, row, TypeOK
  <2>3. ASSUME NEW w \in Workers, Process(w) PROVE Goal
    <3>0. worker[w].plan \in Plans
      BY <2>3, ProcessMoves
    <3>1. CASE ReportSaved(w)
      <4>1. CASE worker[w].plan = p /\ Exists(p)
        BY <3>1, <4>1
      <4>2. CASE ~(worker[w].plan = p /\ Exists(p))
        BY <3>0, <3>1, <4>2 DEF ReportSaved, Report, TypeOK
      <4>3. QED
        BY <4>1, <4>2
    <3>2. CASE ExtractPage(w) \/ ExtractDone(w) \/ MarkReady(w) \/ MarkError(w)
      BY <3>0, <3>2 DEF ExtractPage, ExtractDone, MarkReady, MarkError, Report, TypeOK
    <3>3. CASE ~(ReportSaved(w) \/ ExtractPage(w) \/ ExtractDone(w) \/ MarkReady(w) \/ MarkError(w))
      BY <2>3, <3>3 DEF Process, Download, ExtractFails, PersistChunk, PersistRejected, Ack, row
    <3>4. QED
      BY <3>1, <3>2, <3>3
  <2>4. ASSUME NEW w \in Workers, Trouble(w) PROVE Goal
    BY <2>4 DEF Trouble, WorkerKilled, VisibilityTimeout, Redeliver, ChildLost, DatabaseFault, row
  <2>5. ASSUME UNCHANGED vars PROVE Goal
    BY <2>5 DEF vars
  <2> HIDE DEF Goal
  <2>6. Goal
    BY <2>1, <2>2, <2>3, <2>4, <2>5 DEF Next
  <2>7. QED
    BY <2>6 DEF Goal
<1>2. p \notin overlapped
  BY DEF Next, Request, Upload, CommitUpload, AbortUpload, RetryRead, RetryRaises, RetryAborts, RetryCommit,
     DeleteCheck, DeleteCommit, history, Receives, Begin, BeginMissing, BeginFails, MarkOverlap,
     Process, Download, ExtractPage, ExtractDone, ExtractFails, PersistChunk, PersistRejected,
     ReportSaved, MarkReady, MarkError, Ack, Trouble, WorkerKilled, VisibilityTimeout, Redeliver,
     ChildLost, DatabaseFault, vars
<1>3. CASE processed'[p] = 0
  BY <1>3
<1>4. CASE substep[p] = "persist" /\ processed'[p] = processed[p]
  <2>1. Exists(p)
    BY <1>4, SheetsStep DEF NotYetUploaded
  <2>2. 1..processed[p] \subseteq sheets[p]
    BY <1>2, <1>4, <2>1 DEF ReportedPagesAreSaved
  <2>3. ASSUME NEW w \in Workers, Begin(w, p) PROVE FALSE
    BY <2>3 DEF Begin, TypeOK
  <2>4. sheets[p] \subseteq sheets'[p]
    BY <2>3, SheetsStep, ChunkGrows
  <2>5. QED
    BY <1>4, <2>2, <2>4
<1>5. ASSUME NEW w \in Workers, ReportSaved(w), worker[w].plan = p, Exists(p)
      PROVE  1..processed'[p] \subseteq sheets'[p]
  <2>1. sheets[p] = 1..worker[w].page /\ UNCHANGED sheets
    BY <1>2, <1>5 DEF ReportSaved, At, RowsMatchPage, Working
  <2>2. processed'[p] = worker[w].page
    BY <1>5 DEF ReportSaved, Report, TypeOK
  <2>3. QED
    BY <2>1, <2>2
<1>6. QED
  BY <1>1, <1>3, <1>4, <1>5

LEMMA PlanInvHolds == Spec => []PlanInv
<1>1. Init => PlanInv
  BY ConstantsAssumption DEF Init, PlanInv, TypeOK, NotYetUploaded, WorkIsUploaded, NoOrphanSheets,
     SoleWorker, RowsMatchPage, ReadyHasEveryPage, ReportedPagesAreSaved, WorksOn, Working, Idle
<1>2. PlanInv /\ [Next]_vars => PlanInv'
  <2> SUFFICES ASSUME PlanInv, [Next]_vars PROVE PlanInv'
    OBVIOUS
  <2>1. TypeOK'
    BY TypeStep DEF PlanInv
  <2>2. QED
    BY <2>1, UploadStep, WorkIsUploadedStep, SoleWorkerStep, RowsStep, ReadyStep, ReportedStep
       DEF PlanInv
<1>3. QED
  BY <1>1, <1>2, PTL DEF Spec

\* However uploads, retries, deletes, redeliveries and crashes interleave with
\* process_plan, a plan shown as ready has a sheet for every page, unless two
\* executions worked on it at once.
THEOREM ReadyIsComplete == Spec => []ReadyHasEveryPage
<1>1. PlanInv => ReadyHasEveryPage
  BY DEF PlanInv
<1>2. QED
  BY <1>1, PlanInvHolds, PTL

\* Under the same interleavings the progress the clients poll never counts a
\* sheet that is not committed.
THEOREM ProgressIsHonest == Spec => []ReportedPagesAreSaved
<1>1. PlanInv => ReportedPagesAreSaved
  BY DEF PlanInv
<1>2. QED
  BY <1>1, PlanInvHolds, PTL

\* An execution that has the plan to itself cannot run into uq_sheets_plan_page.
THEOREM NoDuplicateRow == Spec => []ChunkIsNew
<1>1. PlanInv => ChunkIsNew
  <2> SUFFICES ASSUME PlanInv, NEW w \in Workers, At(w, "persist"), worker[w].plan \notin overlapped
               PROVE  ChunkAfter(worker[w].page) \cap sheets[worker[w].plan] = {}
    BY DEF ChunkIsNew
  <2>1. worker[w].plan \in Plans /\ worker[w].page \in 0..PageCount
    BY BusyIsJob DEF At, PlanInv
  <2>2. sheets[worker[w].plan] = {} \/ sheets[worker[w].plan] = 1..worker[w].page
    BY <2>1 DEF PlanInv, NoOrphanSheets, RowsMatchPage, At, Working
  <2>3. QED
    BY <2>1, <2>2, ChunkFacts
<1>2. QED
  BY <1>1, PlanInvHolds, PTL
=============================================================================
