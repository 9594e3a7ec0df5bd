--------------------------- MODULE PlanLockProofs ---------------------------
(***************************************************************************)
(* Proofs about PlanLock for any runs, auto-name requests, processes and   *)
(* bounds.                                                                 *)
(***************************************************************************)
EXTENDS PlanLock, FiniteSetTheorems, SequenceTheorems, TLAPS

-----------------------------------------------------------------------------
(* The inductive invariant.  While nothing has been repeated or broken     *)
(* (Clean), a job is one message or one execution, its status fits how far *)
(* it is, and the lock was taken at least as often as jobs may still       *)
(* release it: whatever an unlock takes away, the rest keeps its level.    *)

Clean == broken = {} /\ redeliveries = 0 /\ faults = 0

Busy(p, j) == exec[p] # Idle /\ exec[p].job = j

Message(j, t) == <<j, t>> \in queue

OneToken ==
    /\ \A j \in Jobs, p, q \in Processes : Busy(p, j) /\ Busy(q, j) => p = q
    /\ \A j \in Jobs, p \in Processes, t \in Tasks : Busy(p, j) => ~Message(j, t)
    /\ \A j \in Jobs, t, u \in Tasks : Message(j, t) /\ Message(j, u) => t = u

RightTasks ==
    /\ \A j \in Jobs, t \in Tasks : Message(j, t) => (t = "name" <=> j \in AutoNames)
    /\ \A p \in Processes : exec[p] # Idle => (exec[p].task = "name" <=> exec[p].job \in AutoNames)

\* The statuses a run may have when its message waits, and while it executes.
Waiting(t) ==
    IF t = "start" THEN {"queued", "cancelled"} ELSE {"running", "failed", "cancelled"}

Executing(t, pc) ==
    IF pc = "raised" THEN {"failed"}
    ELSE IF pc \in {"work", "closing"} THEN {"running", "cancelled"}
    ELSE IF t = "finalize" THEN {"failed", "cancelled", "completed"}
    ELSE {"running", "failed", "cancelled"}

StatusFits ==
    /\ \A r \in Runs, t \in Tasks : Message(r, t) => status[r] \in Waiting(t)
    /\ \A p \in Processes : \A r \in Runs : Busy(p, r) =>
           /\ status[r] \in Executing(exec[p].task, exec[p].pc)
           /\ exec[p].pc \in {"work", "raised"} => exec[p].task = "stage"
           /\ exec[p].pc = "closing" => exec[p].task = "finalize"

Closing(r) == \E p \in Processes : Busy(p, r) /\ At(p, "finalize", "closing")
Working(j, t) == \E p \in Processes : Busy(p, j) /\ At(p, t, "work")

\* A run counts on the lock from its start to its release, a renaming while it works.
ClaimsFit ==
    /\ \A r \in Runs : claim[r] # None <=> status[r] = "running" /\ ~Closing(r)
    /\ \A a \in AutoNames : claim[a] # None <=> Working(a, "name")

\* The jobs whose unlock is still to come.
Owing == {j \in Jobs : claim[j] # None \/ Working(j, "stage")}

LevelsSuffice ==
    /\ IsFiniteSet(Owing) /\ Cardinality(Owing) <= depth
    /\ \A j \in Jobs : claim[j] # None => holder = claim[j]

CleanInv == OneToken /\ RightTasks /\ StatusFits /\ ClaimsFit /\ LevelsSuffice

LockInv == TypeOK /\ (Clean => CleanInv)

-----------------------------------------------------------------------------
(* Type correctness.                                                       *)

Pools == {<<>>, <<1>>, <<1, 2>>, <<2, 1>>}
Executions == [pc : {"work", "closing", "done", "raised"}, job : Jobs, task : Tasks] \cup {Idle}

LEMMA PairAppended ==
    ASSUME NEW x \in Nat, NEW y \in Nat
    PROVE  Append(<<x>>, y) = <<x, y>>
<1> DEFINE s == Append(<<x>>, y)
           t == <<x, y>>
<1>1. s \in Seq(Nat) /\ t \in Seq(Nat) /\ Len(s) = 2 /\ Len(t) = 2
  OBVIOUS
<1>2. s[1] = t[1] /\ s[2] = t[2]
  OBVIOUS
<1> HIDE DEF s, t
<1>3. \A i \in 1..Len(s) : s[i] = t[i]
  BY <1>1, <1>2
<1>4. s = t
  BY <1>1, <1>3, SeqEqual
<1> QED
  BY <1>4 DEF s, t

\* Transactions turn the queue of connections round.
LEMMA PoolFacts ==
    ASSUME NEW s \in Pools
    PROVE  /\ NextConn(s) \in {1, 2}
           /\ After(s) \in Pools /\ After2(s) \in Pools
           /\ AfterBody(s) \subseteq Pools /\ AfterStage(s) \subseteq Pools
<1>1. \A q \in Pools : NextConn(q) \in {1, 2} /\ After(q) \in Pools
  <2>1. NextConn(<<>>) = 1 /\ After(<<>>) = <<1>>
    BY DEF NextConn, After
  <2>2. NextConn(<<1>>) = 1 /\ After(<<1>>) = <<1>>
    BY DEF NextConn, After
  <2>3. NextConn(<<1, 2>>) = 1 /\ After(<<1, 2>>) = <<2, 1>>
    <3>1. <<1, 2>> # <<>> /\ Head(<<1, 2>>) = 1 /\ Tail(<<1, 2>>) = <<2>>
      OBVIOUS
    <3>2. Append(<<2>>, 1) = <<2, 1>>
      BY PairAppended
    <3> QED
      BY <3>1, <3>2 DEF NextConn, After
  <2>4. NextConn(<<2, 1>>) = 2 /\ After(<<2, 1>>) = <<1, 2>>
    <3>1. <<2, 1>> # <<>> /\ Head(<<2, 1>>) = 2 /\ Tail(<<2, 1>>) = <<1>>
      OBVIOUS
    <3>2. Append(<<1>>, 2) = <<1, 2>>
      BY PairAppended
    <3> QED
      BY <3>1, <3>2 DEF NextConn, After
  <2> QED
    BY <2>1, <2>2, <2>3, <2>4 DEF Pools
<1>2. After2(s) \in Pools
  BY <1>1 DEF After2
<1> QED
  BY <1>1, <1>2 DEF AfterBody, AfterStage, Pools

LEMMA ConnType ==
    ASSUME NEW p \in Processes, NEW s \in Pools
    PROVE  Conn(p, s) \in Conns
BY PoolFacts DEF Conn, Conns

LEMMA NoneIsNoConn == None \notin Conns
BY DEF None, Conns

LockType == holder \in Conns \cup {None} /\ depth \in Nat /\ (depth = 0 <=> holder = None)

LEMMA UnlockType ==
    ASSUME LockType, NEW c \in Conns, NEW n \in Nat, UnlockTimes(c, n)
    PROVE  LockType'
BY NoneIsNoConn DEF LockType, UnlockTimes

LEMMA TryLockType ==
    ASSUME LockType, NEW c \in Conns, TryLock(c)
    PROVE  LockType'
BY NoneIsNoConn DEF LockType, TryLock

LEMMA PoolType ==
    ASSUME TypeOK, NEW p \in Processes, NEW s \in Pools, Pool(p, s)
    PROVE  pool' \in [Processes -> Pools]
BY DEF TypeOK, Pool, Pools

LEMMA EnterType ==
    ASSUME TypeOK, NEW p \in Processes, NEW j \in Jobs, NEW t \in Tasks,
           NEW pc \in {"work", "closing", "done", "raised"}, Enter(p, j, t, pc)
    PROVE  exec' \in [Processes -> Executions]
BY DEF TypeOK, Enter, Executions

LEMMA GotoType ==
    ASSUME TypeOK, NEW p \in Processes, exec[p] # Idle,
           NEW pc \in {"work", "closing", "done", "raised"}, Goto(p, pc)
    PROVE  exec' \in [Processes -> Executions] /\ exec[p].job \in Jobs /\ exec[p].task \in Tasks
BY DEF TypeOK, Goto, Executions

\* The type without the pool, the lock and the executions.
RestOK ==
    /\ status \in [Runs -> {"queued", "running", "completed", "failed", "cancelled"}]
    /\ claim \in [Jobs -> Conns \cup {None}]
    /\ attempts \in [AutoNames -> 0..MaxAttempts]
    /\ broken \subseteq AutoNames
    /\ queue \subseteq Jobs \X Tasks
    /\ cancels \in 0..MaxCancels /\ redeliveries \in 0..MaxFaults /\ faults \in 0..MaxFaults

LEMMA TypeParts ==
    /\ TypeOK <=> /\ pool \in [Processes -> Pools] /\ LockType
                  /\ exec \in [Processes -> Executions] /\ RestOK
    /\ TypeOK' <=> /\ pool' \in [Processes -> Pools] /\ LockType'
                   /\ exec' \in [Processes -> Executions] /\ RestOK'
BY DEF TypeOK, Pools, LockType, Executions, RestOK

LEMMA StartTypes ==
    ASSUME TypeOK, NEW p \in Processes, NEW r \in Runs,
           StartSkip(p, r) \/ StartAccepted(p, r) \/ StartContended(p, r) \/ StartBreaks(p, r)
    PROVE  TypeOK'
<1> USE DEF Receive
<1>1. pool[p] \in Pools /\ r \in Jobs /\ LockType
  BY TypeParts DEF Jobs
<1>2. /\ After(pool[p]) \in Pools /\ After2(pool[p]) \in Pools /\ After2(After2(pool[p])) \in Pools
      /\ Conn(p, pool[p]) \in Conns
  BY <1>1, PoolFacts, ConnType
<1>3. pool' \in [Processes -> Pools]
  BY <1>2, PoolType DEF StartSkip, StartAccepted, StartContended, StartBreaks
<1>4. exec' \in [Processes -> Executions]
  BY <1>1, EnterType DEF StartSkip, StartAccepted, StartContended, StartBreaks, Tasks
<1>5. UNCHANGED <<holder, depth>> => LockType'
  BY <1>1 DEF LockType
<1>6. LockType'
  BY <1>1, <1>2, <1>5, TryLockType DEF StartSkip, StartAccepted, StartContended, StartBreaks
<1>7. RestOK'
  <2>1. /\ status' \in [Runs -> {"queued", "running", "completed", "failed", "cancelled"}]
        /\ claim' \in [Jobs -> Conns \cup {None}]
    BY <1>1, <1>2 DEF StartSkip, StartAccepted, StartContended, StartBreaks, SetStatus, Claim, TypeOK
  <2>2. faults' \in 0..MaxFaults /\ UNCHANGED <<attempts, broken, cancels, redeliveries>>
    BY ConstantsAssumption DEF StartSkip, StartAccepted, StartContended, StartBreaks, counters, TypeOK
  <2>3. queue' \subseteq Jobs \X Tasks
    BY DEF StartSkip, StartAccepted, StartContended, StartBreaks, TypeOK
  <2> QED
    BY <2>1, <2>2, <2>3 DEF TypeOK, RestOK
<1> QED
  BY <1>3, <1>4, <1>6, <1>7, TypeParts

LEMMA StageTypes ==
    ASSUME TypeOK, NEW p \in Processes,
           (\E r \in Runs : StageSkip(p, r) \/ StageBegin(p, r)) \/ StageEnds(p) \/ StageFails(p)
    PROVE  TypeOK'
<1>1. pool[p] \in Pools /\ LockType
  BY TypeParts
<1>2. \A s \in AfterStage(pool[p]) :
          /\ s \in Pools /\ After2(s) \in Pools /\ After2(After2(After(s))) \in Pools
          /\ Conn(p, After(s)) \in Conns
  BY <1>1, PoolFacts, ConnType
<1>3. UNCHANGED <<holder, depth>> => LockType'
  BY <1>1 DEF LockType
<1>4. ASSUME NEW r \in Runs, StageSkip(p, r) \/ StageBegin(p, r)
      PROVE  TypeOK'
  <2>1. r \in Jobs /\ After(pool[p]) \in Pools
    BY <1>1, PoolFacts DEF Jobs
  <2>2. pool' \in [Processes -> Pools]
    BY <1>4, <2>1, PoolType, TypeParts DEF StageSkip, StageBegin
  <2>3. exec' \in [Processes -> Executions]
    BY <1>4, <2>1, EnterType DEF StageSkip, StageBegin, Tasks
  <2>4. LockType' /\ RestOK'
    BY <1>3, <1>4 DEF StageSkip, StageBegin, Receive, counters, TypeOK, RestOK
  <2> QED
    BY <2>2, <2>3, <2>4, TypeParts
<1>5. CASE StageEnds(p)
  <2>1. pool' \in [Processes -> Pools]
    BY <1>2, <1>5, PoolType DEF StageEnds
  <2>2. exec' \in [Processes -> Executions]
    BY <1>5, GotoType DEF StageEnds, At
  <2>3. LockType' /\ RestOK'
    BY <1>3, <1>5 DEF StageEnds, counters, TypeOK, RestOK
  <2> QED
    BY <2>1, <2>2, <2>3, TypeParts
<1>6. CASE StageFails(p)
  <2>1. PICK s \in AfterStage(pool[p]) :
            Unlock(Conn(p, After(s))) /\ Pool(p, After2(After2(After(s))))
    BY <1>6 DEF StageFails
  <2>2. pool' \in [Processes -> Pools]
    BY <1>2, <2>1, PoolType
  <2>3. LockType'
    BY <1>1, <1>2, <2>1, UnlockType DEF Unlock
  <2>4. exec' \in [Processes -> Executions] /\ exec[p].job \in Jobs
    BY <1>6, GotoType DEF StageFails, At
  <2>5. RestOK'
    BY <1>6, <2>4 DEF StageFails, SetStatus, Claim, counters, TypeOK, RestOK
  <2> QED
    BY <2>2, <2>3, <2>4, <2>5, TypeParts
<1> QED
  BY <1>4, <1>5, <1>6

LEMMA FinalizeTypes ==
    ASSUME TypeOK, NEW p \in Processes,
           \/ \E r \in Runs : FinalizeSkip(p, r) \/ FinalizeRelease(p, r) \/ FinalizeBreaks(p, r)
           \/ FinalizeCompleted(p)
    PROVE  TypeOK'
<1>1. pool[p] \in Pools /\ LockType
  BY TypeParts
<1>2. /\ After(pool[p]) \in Pools /\ After2(After(pool[p])) \in Pools /\ After2(After2(pool[p])) \in Pools
      /\ Conn(p, pool[p]) \in Conns /\ Conn(p, After(pool[p])) \in Conns
  BY <1>1, PoolFacts, ConnType
<1>3. UNCHANGED <<holder, depth>> => LockType'
  BY <1>1 DEF LockType
<1>4. ASSUME NEW r \in Runs, FinalizeSkip(p, r) \/ FinalizeRelease(p, r) \/ FinalizeBreaks(p, r)
      PROVE  TypeOK'
  <2>1. r \in Jobs
    BY DEF Jobs
  <2>2. pool' \in [Processes -> Pools]
    BY <1>2, <1>4, PoolType DEF FinalizeSkip, FinalizeRelease, FinalizeBreaks
  <2>3. exec' \in [Processes -> Executions]
    BY <1>4, <2>1, EnterType DEF FinalizeSkip, FinalizeRelease, FinalizeBreaks, Tasks
  <2>4. LockType'
    BY <1>1, <1>2, <1>3, <1>4, UnlockType DEF FinalizeSkip, FinalizeRelease, FinalizeBreaks, Unlock
  <2>5. RestOK'
    <3>1. /\ status' \in [Runs -> {"queued", "running", "completed", "failed", "cancelled"}]
          /\ claim' \in [Jobs -> Conns \cup {None}]
      BY <1>4, <2>1 DEF FinalizeSkip, FinalizeRelease, FinalizeBreaks, SetStatus, Claim, TypeOK
    <3>2. faults' \in 0..MaxFaults /\ UNCHANGED <<attempts, broken, cancels, redeliveries>>
      BY <1>4, ConstantsAssumption DEF FinalizeSkip, FinalizeRelease, FinalizeBreaks, counters, TypeOK
    <3>3. queue' \subseteq Jobs \X Tasks
      BY <1>4 DEF FinalizeSkip, FinalizeRelease, FinalizeBreaks, Receive, TypeOK
    <3> QED
      BY <3>1, <3>2, <3>3 DEF TypeOK, RestOK
  <2> QED
    BY <2>2, <2>3, <2>4, <2>5, TypeParts
<1>5. CASE FinalizeCompleted(p)
  <2>1. pool' \in [Processes -> Pools]
    BY <1>2, <1>5, PoolType DEF FinalizeCompleted
  <2>2. exec' \in [Processes -> Executions] /\ exec[p].job \in Jobs
    BY <1>5, GotoType DEF FinalizeCompleted, At
  <2>3. LockType' /\ RestOK'
    BY <1>3, <1>5, <2>2 DEF FinalizeCompleted, SetStatus, counters, TypeOK, RestOK
  <2> QED
    BY <2>1, <2>2, <2>3, TypeParts
<1> QED
  BY <1>4, <1>5

LEMMA NameTypes ==
    ASSUME TypeOK, RightTasks, NEW p \in Processes,
           (\E a \in AutoNames : NameTask(p, a)) \/ NameEnds(p) \/ NameFails(p)
    PROVE  TypeOK'
<1>1. pool[p] \in Pools /\ LockType
  BY TypeParts
<1>2. /\ After(pool[p]) \in Pools /\ After2(pool[p]) \in Pools
      /\ Conn(p, pool[p]) \in Conns /\ Conn(p, After(pool[p])) \in Conns
  BY <1>1, PoolFacts, ConnType
<1>3. UNCHANGED <<holder, depth>> => LockType'
  BY <1>1 DEF LockType
<1>4. ASSUME NEW a \in AutoNames, NameTask(p, a)
      PROVE  TypeOK'
  <2>1. a \in Jobs
    BY DEF Jobs
  <2>2. pool' \in [Processes -> Pools]
    BY <1>2, <1>4, PoolType DEF NameTask, NameLocked, NameBusy, NameGivesUp
  <2>3. exec' \in [Processes -> Executions]
    <3>1. UNCHANGED exec => exec' \in [Processes -> Executions]
      BY TypeParts
    <3> QED
      BY <1>4, <2>1, <3>1, EnterType DEF NameTask, NameLocked, NameBusy, NameGivesUp, Tasks
  <2>4. LockType'
    BY <1>1, <1>2, <1>3, <1>4, TryLockType, UnlockType DEF NameTask, NameLocked, NameBusy, NameGivesUp, Unlock
  <2>5. RestOK'
    <3>1. attempts' \in [AutoNames -> 0..MaxAttempts]
      BY <1>4, ConstantsAssumption DEF NameTask, NameLocked, NameBusy, NameGivesUp, TypeOK
    <3>2. broken' \subseteq AutoNames /\ queue' \subseteq Jobs \X Tasks /\ UNCHANGED <<status, counters>>
      BY <1>4 DEF NameTask, NameLocked, NameBusy, NameGivesUp, Receive, TypeOK
    <3>3. claim' \in [Jobs -> Conns \cup {None}]
      BY <1>2, <1>4, <2>1 DEF NameTask, NameLocked, NameBusy, NameGivesUp, Claim, TypeOK
    <3> QED
      BY <3>1, <3>2, <3>3 DEF TypeOK, RestOK, counters
  <2> QED
    BY <2>2, <2>3, <2>4, <2>5, TypeParts
<1>5. ASSUME NEW s \in Pools
      PROVE  /\ After(s) \in Pools /\ After2(s) \in Pools
             /\ Conn(p, s) \in Conns /\ Conn(p, After(s)) \in Conns
  BY PoolFacts, ConnType
<1>6. AfterBody(pool[p]) \subseteq Pools
  BY <1>1, PoolFacts
<1>7. CASE NameEnds(p)
  <2>1. PICK s \in AfterBody(pool[p]) : Unlock(Conn(p, s)) /\ Pool(p, After(s))
    BY <1>7 DEF NameEnds
  <2>2. pool' \in [Processes -> Pools] /\ LockType'
    BY <1>1, <1>5, <1>6, <2>1, PoolType, UnlockType DEF Unlock
  <2>3. exec' \in [Processes -> Executions] /\ exec[p].job \in Jobs
    BY <1>7, GotoType DEF NameEnds, At
  <2>4. RestOK'
    BY <1>7, <2>3 DEF NameEnds, Claim, counters, TypeOK, RestOK
  <2> QED
    BY <2>2, <2>3, <2>4, TypeParts
<1>8. CASE NameFails(p)
  <2>1. PICK s \in {pool[p]} \cup AfterBody(pool[p]) :
            /\ \/ UnlockTimes(Conn(p, s), 2) \/ Unlock(Conn(p, s)) \/ Unlock(Conn(p, After(s)))
            /\ Pool(p, After2(s))
    BY <1>8 DEF NameFails
  <2>2. pool' \in [Processes -> Pools] /\ LockType'
    BY <1>1, <1>5, <1>6, <2>1, PoolType, UnlockType DEF Unlock
  <2>3. exec' \in [Processes -> Executions]
    BY <1>8, GotoType DEF NameFails, At
  <2>4. exec[p].job \in AutoNames /\ exec[p].job \in Jobs
    BY <1>8 DEF NameFails, At, RightTasks, Jobs
  <2>5. RestOK'
    BY <1>8, <2>4 DEF NameFails, Claim, counters, TypeOK, RestOK
  <2> QED
    BY <2>2, <2>3, <2>5, TypeParts
<1> QED
  BY <1>4, <1>7, <1>8

\* What happens around the tasks.
LEMMA AroundTypes ==
    ASSUME TypeOK, NEW p \in Processes,
           \/ Returned(p) \/ Raised(p) \/ OtherTask(p)
           \/ WorkerKilled(p) \/ VisibilityTimeout(p) \/ ChildLost(p)
    PROVE  TypeOK'
<1>1. pool[p] \in Pools /\ LockType /\ <<>> \in Pools
  BY TypeParts DEF Pools
<1>2. UNCHANGED <<holder, depth>> => LockType'
  BY <1>1 DEF LockType
<1>3. exec[p] # Idle => exec[p].job \in Jobs /\ exec[p].task \in Tasks
  BY DEF TypeOK
<1>4. exec' = [exec EXCEPT ![p] = Idle] \/ UNCHANGED exec => exec' \in [Processes -> Executions]
  BY DEF TypeOK, Executions
<1>5. Die(p) => pool' \in [Processes -> Pools] /\ exec' \in [Processes -> Executions] /\ LockType'
  BY <1>1, <1>2, <1>4, PoolType DEF Die, LockType
<1>6. CASE Returned(p) \/ Raised(p)
  <2>1. exec[p] # Idle
    BY <1>6 DEF Returned, Raised, Idle
  <2>2. Following(exec[p].job, exec[p].task) \subseteq Jobs \X Tasks
    BY <1>3, <2>1 DEF Following, Tasks
  <2>3. queue' \subseteq Jobs \X Tasks
    BY <1>3, <1>6, <2>1, <2>2 DEF Returned, Raised, TypeOK
  <2>4. RestOK'
    BY <1>6, <2>3 DEF Returned, Raised, counters, TypeOK, RestOK
  <2> QED
    BY <1>2, <1>4, <1>6, <2>4, TypeParts DEF Returned, Raised
<1>7. CASE OtherTask(p)
  <2>1. pool' \in [Processes -> Pools]
    BY <1>1, <1>7, PoolFacts, PoolType DEF OtherTask
  <2> QED
    BY <1>2, <1>4, <1>7, <2>1, TypeParts DEF OtherTask, counters, RestOK
<1>8. CASE WorkerKilled(p) \/ VisibilityTimeout(p)
  <2>1. queue' \subseteq Jobs \X Tasks
    BY <1>3, <1>8 DEF WorkerKilled, VisibilityTimeout, TypeOK
  <2>2. redeliveries' \in 0..MaxFaults
    BY <1>8, ConstantsAssumption DEF WorkerKilled, VisibilityTimeout, TypeOK
  <2>3. RestOK'
    BY <1>8, <2>1, <2>2 DEF WorkerKilled, VisibilityTimeout, TypeOK, RestOK
  <2> QED
    BY <1>2, <1>4, <1>5, <1>8, <2>3, TypeParts DEF WorkerKilled, VisibilityTimeout
<1>9. CASE ChildLost(p)
  <2>1. faults' \in 0..MaxFaults
    BY <1>9, ConstantsAssumption DEF ChildLost, TypeOK
  <2>2. RestOK'
    BY <1>9, <2>1 DEF ChildLost, TypeOK, RestOK
  <2> QED
    BY <1>5, <1>9, <2>2, TypeParts DEF ChildLost
<1> QED
  BY <1>6, <1>7, <1>8, <1>9

\* Every step, by what it is about.
LEMMA StepCases ==
    ASSUME [Next]_vars
    PROVE  \/ UNCHANGED vars
           \/ \E r \in Runs : Cancel(r)
           \/ \E p \in Processes :
                 \/ \E r \in Runs : \/ StartSkip(p, r) \/ StartAccepted(p, r) \/ StartContended(p, r)
                                    \/ StartBreaks(p, r)
                 \/ (\E r \in Runs : StageSkip(p, r) \/ StageBegin(p, r)) \/ StageEnds(p) \/ StageFails(p)
                 \/ \E r \in Runs : FinalizeSkip(p, r) \/ FinalizeRelease(p, r) \/ FinalizeBreaks(p, r)
                 \/ FinalizeCompleted(p)
                 \/ (\E a \in AutoNames : NameTask(p, a)) \/ NameEnds(p) \/ NameFails(p)
                 \/ Returned(p) \/ Raised(p) \/ OtherTask(p)
                 \/ WorkerKilled(p) \/ VisibilityTimeout(p) \/ ChildLost(p)
BY DEF Next, Environment, Step, RunTask, Execute

LEMMA TypeStep ==
    ASSUME TypeOK, RightTasks, [Next]_vars
    PROVE  TypeOK'
<1>1. CASE UNCHANGED vars
  BY <1>1 DEF TypeOK, vars
<1>2. ASSUME NEW r \in Runs, Cancel(r)
      PROVE  TypeOK'
  <2>1. r \in Jobs
    BY DEF Jobs
  <2>2. cancels' \in 0..MaxCancels
    BY <1>2, ConstantsAssumption DEF Cancel, TypeOK
  <2> QED
    BY <1>2, <2>1, <2>2 DEF Cancel, SetStatus, Claim, TypeOK
<1> QED
  BY <1>1, <1>2, StepCases, StartTypes, StageTypes, FinalizeTypes, NameTypes, AroundTypes

-----------------------------------------------------------------------------
(* Tasks.                                                                  *)

\* Runs have the tasks of runs, and what comes back is what was received.
LEMMA TasksStep ==
    ASSUME TypeOK, RightTasks, [Next]_vars
    PROVE  RightTasks'
<1> USE ConstantsAssumption DEF Message
<1>1. CASE UNCHANGED <<queue, exec>>
  BY <1>1 DEF RightTasks
<1>2. ASSUME NEW p \in Processes, NEW j \in Jobs, NEW t \in Tasks, NEW pc,
             Receive(p, j, t), Enter(p, j, t, pc)
      PROVE  RightTasks'
  <2>1. queue' \subseteq queue
    BY <1>2 DEF Receive
  <2>2. t = "name" <=> j \in AutoNames
    BY <1>2 DEF Receive, RightTasks
  <2>3. \A q \in Processes : exec'[q] = IF q = p THEN [pc |-> pc, job |-> j, task |-> t] ELSE exec[q]
    BY <1>2 DEF Enter, TypeOK
  <2> QED
    BY <2>1, <2>2, <2>3 DEF RightTasks
<1>3. ASSUME NEW p \in Processes, NEW pc, exec[p] # Idle, Goto(p, pc), UNCHANGED queue
      PROVE  RightTasks'
  <2>1. exec'[p].job = exec[p].job /\ exec'[p].task = exec[p].task
    BY <1>3 DEF Goto, TypeOK
  <2>2. \A q \in Processes : q # p => exec'[q] = exec[q]
    BY <1>3 DEF Goto, TypeOK
  <2> QED
    BY <1>3, <2>1, <2>2 DEF RightTasks
<1>4. ASSUME NEW p \in Processes, exec[p] # Idle,
             queue' \subseteq queue \cup {<<exec[p].job, exec[p].task>>} \cup Following(exec[p].job, exec[p].task),
             exec' = [exec EXCEPT ![p] = Idle] \/ UNCHANGED exec
      PROVE  RightTasks'
  <2>1. \A q \in Processes : exec'[q] # Idle => exec'[q] = exec[q]
    BY <1>4 DEF TypeOK
  <2>2. \A j \in Jobs, t \in Tasks : <<j, t>> \in Following(exec[p].job, exec[p].task) =>
            t # "name" /\ exec[p].task # "name" /\ j = exec[p].job
    BY DEF Following
  <2> QED
    BY <1>4, <2>1, <2>2 DEF RightTasks, TypeOK
<1>5. ASSUME NEW p \in Processes, NEW r \in Runs,
             \/ StartSkip(p, r) \/ StartAccepted(p, r) \/ StartContended(p, r) \/ StartBreaks(p, r)
             \/ StageSkip(p, r) \/ StageBegin(p, r)
             \/ FinalizeSkip(p, r) \/ FinalizeRelease(p, r) \/ FinalizeBreaks(p, r)
      PROVE  RightTasks'
  <2>1. r \in Jobs /\ {"start", "stage", "finalize"} \subseteq Tasks
    BY DEF Jobs, Tasks
  <2> QED
    BY <1>2, <1>5, <2>1 DEF StartSkip, StartAccepted, StartContended, StartBreaks, StageSkip, StageBegin,
                            FinalizeSkip, FinalizeRelease, FinalizeBreaks
<1>6. ASSUME NEW p \in Processes, NEW a \in AutoNames, NameTask(p, a)
      PROVE  RightTasks'
  <2>1. a \in Jobs /\ "name" \in Tasks
    BY DEF Jobs, Tasks
  <2> QED
    BY <1>1, <1>2, <1>6, <2>1 DEF NameTask, NameLocked, NameBusy, NameGivesUp
<1>7. ASSUME NEW p \in Processes,
             StageEnds(p) \/ StageFails(p) \/ FinalizeCompleted(p) \/ NameEnds(p) \/ NameFails(p)
      PROVE  RightTasks'
  BY <1>3, <1>7 DEF StageEnds, StageFails, FinalizeCompleted, NameEnds, NameFails, At
<1>8. ASSUME NEW p \in Processes, Returned(p) \/ Raised(p)
      PROVE  RightTasks'
  <2>1. exec[p] # Idle
    BY <1>8 DEF Returned, Raised, Idle
  <2> QED
    BY <1>4, <1>8, <2>1 DEF Returned, Raised
<1>9. ASSUME NEW p \in Processes, WorkerKilled(p) \/ VisibilityTimeout(p)
      PROVE  RightTasks'
  BY <1>4, <1>9 DEF WorkerKilled, VisibilityTimeout, Die
<1>10. ASSUME NEW p \in Processes, ChildLost(p)
       PROVE  RightTasks'
  BY <1>10 DEF ChildLost, Die, RightTasks, TypeOK
<1>11. ASSUME NEW p \in Processes, OtherTask(p)
       PROVE  RightTasks'
  BY <1>1, <1>11 DEF OtherTask
<1>12. ASSUME NEW r \in Runs, Cancel(r)
       PROVE  RightTasks'
  BY <1>1, <1>12 DEF Cancel
<1>13. CASE UNCHANGED vars
  BY <1>1, <1>13 DEF vars
<1> QED
  BY <1>5, <1>6, <1>7, <1>8, <1>9, <1>10, <1>11, <1>12, <1>13, StepCases

-----------------------------------------------------------------------------
(* Steps that keep a history clean.                                        *)

\* A history that is clean after a step was clean before, and the step repeats and
\* breaks nothing.
LEMMA CleanSteps ==
    ASSUME TypeOK, Clean', [Next]_vars
    PROVE  /\ Clean
           /\ \/ UNCHANGED vars
              \/ \E r \in Runs : Cancel(r)
              \/ \E p \in Processes, r \in Runs :
                    \/ StartSkip(p, r) \/ StartAccepted(p, r) \/ StartContended(p, r)
                    \/ StageSkip(p, r) \/ StageBegin(p, r) \/ FinalizeSkip(p, r) \/ FinalizeRelease(p, r)
              \/ \E p \in Processes, a \in AutoNames : NameLocked(p, a) \/ NameBusy(p, a)
              \/ \E p \in Processes :
                    \/ StageEnds(p) \/ StageFails(p) \/ FinalizeCompleted(p) \/ NameEnds(p)
                    \/ Returned(p) \/ Raised(p) \/ OtherTask(p)
<1> USE DEF Clean, counters
<1>1. \A p \in Processes, r \in Runs : ~StartBreaks(p, r) /\ ~FinalizeBreaks(p, r)
  BY DEF StartBreaks, FinalizeBreaks, TypeOK
<1>2. \A p \in Processes, a \in AutoNames : ~NameGivesUp(p, a)
  BY DEF NameGivesUp
<1>3. \A p \in Processes : /\ ~NameFails(p) /\ ~WorkerKilled(p)
                           /\ ~VisibilityTimeout(p) /\ ~ChildLost(p)
  BY DEF NameFails, WorkerKilled, VisibilityTimeout, ChildLost, TypeOK
<1>4. CASE UNCHANGED vars
  BY <1>4 DEF vars
<1>5. CASE \E r \in Runs : Cancel(r)
  BY <1>5 DEF Cancel
<1>6. CASE \E p \in Processes, r \in Runs :
              \/ StartSkip(p, r) \/ StartAccepted(p, r) \/ StartContended(p, r)
              \/ StageSkip(p, r) \/ StageBegin(p, r) \/ FinalizeSkip(p, r) \/ FinalizeRelease(p, r)
  BY <1>6 DEF StartSkip, StartAccepted, StartContended, StageSkip, StageBegin, FinalizeSkip, FinalizeRelease
<1>7. CASE \E p \in Processes, a \in AutoNames : NameLocked(p, a) \/ NameBusy(p, a)
  BY <1>7 DEF NameLocked, NameBusy
<1>8. CASE \E p \in Processes :
              \/ StageEnds(p) \/ StageFails(p) \/ FinalizeCompleted(p) \/ NameEnds(p)
              \/ Returned(p) \/ Raised(p) \/ OtherTask(p)
  BY <1>8 DEF StageEnds, StageFails, FinalizeCompleted, NameEnds, Returned, Raised, OtherTask
<1> QED
  BY <1>1, <1>2, <1>3, <1>4, <1>5, <1>6, <1>7, <1>8, StepCases DEF NameTask

\* The three ways a job's token moves.
Taken(p, j, t, pc) == Receive(p, j, t) /\ Enter(p, j, t, pc)
Moved(p, pc) == exec[p] # Idle /\ Goto(p, pc) /\ UNCHANGED queue
Left(p) == /\ exec[p] # Idle /\ exec' = [exec EXCEPT ![p] = Idle]
           /\ \/ UNCHANGED queue
              \/ \E t \in Tasks : queue' = queue \cup {<<exec[p].job, t>>}

LEMMA TakenFacts ==
    ASSUME TypeOK, NEW p \in Processes, NEW j \in Jobs, NEW t \in Tasks, NEW pc, Taken(p, j, t, pc)
    PROVE  /\ exec[p] = Idle /\ Message(j, t)
           /\ exec'[p] # Idle /\ exec'[p].pc = pc /\ exec'[p].job = j /\ exec'[p].task = t
           /\ \A q \in Processes \ {p} : exec'[q] = exec[q]
           /\ \A k \in Jobs, u \in Tasks : Message(k, u)' => Message(k, u) /\ (k # j \/ u # t)
<1>1. exec'[p] = [pc |-> pc, job |-> j, task |-> t]
  BY DEF Taken, Enter, TypeOK
<1>2. exec'[p] # Idle
  BY <1>1 DEF Idle
<1>3. \A q \in Processes \ {p} : exec'[q] = exec[q]
  BY DEF Taken, Enter, TypeOK
<1>4. \A k \in Jobs, u \in Tasks : Message(k, u)' => Message(k, u) /\ (k # j \/ u # t)
  BY DEF Taken, Receive, Message
<1> QED
  BY <1>1, <1>2, <1>3, <1>4 DEF Taken, Receive, Message

LEMMA MovedFacts ==
    ASSUME TypeOK, NEW p \in Processes, NEW pc, Moved(p, pc)
    PROVE  /\ exec[p].job \in Jobs /\ exec'[p].job = exec[p].job /\ exec'[p].task = exec[p].task
           /\ exec'[p].pc = pc /\ exec'[p] # Idle
           /\ \A q \in Processes \ {p} : exec'[q] = exec[q]
           /\ \A k \in Jobs, u \in Tasks : Message(k, u)' <=> Message(k, u)
<1>1. exec[p] \in [pc : {"work", "closing", "done", "raised"}, job : Jobs, task : Tasks]
  BY DEF Moved, TypeOK
<1>2. exec'[p] = [exec[p] EXCEPT !.pc = pc]
  BY DEF Moved, Goto, TypeOK
<1>3. exec'[p] # Idle
  BY <1>1, <1>2 DEF Idle
<1> QED
  BY <1>1, <1>2, <1>3 DEF Moved, Goto, Message, TypeOK

LEMMA LeftFacts ==
    ASSUME TypeOK, NEW p \in Processes, Left(p)
    PROVE  /\ exec[p].job \in Jobs /\ exec'[p] = Idle
           /\ \A q \in Processes \ {p} : exec'[q] = exec[q]
           /\ \E t \in Tasks : \A k \in Jobs, u \in Tasks :
                  Message(k, u)' => Message(k, u) \/ (k = exec[p].job /\ u = t)
BY DEF Left, Message, TypeOK

\* Which of them a step is.
LEMMA TokenMoves ==
    ASSUME TypeOK, NEW p \in Processes
    PROVE  /\ \A r \in Runs :
                  /\ StartSkip(p, r) \/ StartAccepted(p, r) \/ StartContended(p, r) => Taken(p, r, "start", "done")
                  /\ StageSkip(p, r) => Taken(p, r, "stage", "done")
                  /\ StageBegin(p, r) => Taken(p, r, "stage", "work")
                  /\ FinalizeSkip(p, r) => Taken(p, r, "finalize", "done")
                  /\ FinalizeRelease(p, r) => Taken(p, r, "finalize", "closing")
           /\ \A a \in AutoNames : NameLocked(p, a) => Taken(p, a, "name", "work")
           /\ StageEnds(p) \/ FinalizeCompleted(p) \/ NameEnds(p) => Moved(p, "done")
           /\ StageFails(p) => Moved(p, "raised")
           /\ Returned(p) \/ Raised(p) => Left(p)
<1>1. Returned(p) => Left(p)
  <2> SUFFICES ASSUME Returned(p) PROVE Left(p)
    OBVIOUS
  <2>1. exec[p] # Idle
    BY DEF Returned, Idle
  <2>2. Following(exec[p].job, exec[p].task) = {} \/
        \E t \in Tasks : Following(exec[p].job, exec[p].task) = {<<exec[p].job, t>>}
    BY DEF Following, Tasks
  <2> QED
    BY <2>1, <2>2 DEF Returned, Left
<1>2. Raised(p) => Left(p)
  <2> SUFFICES ASSUME Raised(p) PROVE Left(p)
    OBVIOUS
  <2>1. exec[p] # Idle
    BY DEF Raised, Idle
  <2>2. exec[p].task \in Tasks
    BY <2>1 DEF TypeOK
  <2> QED
    BY <2>1, <2>2 DEF Raised, Left
<1>3. StageEnds(p) \/ FinalizeCompleted(p) \/ NameEnds(p) => Moved(p, "done")
  BY DEF StageEnds, FinalizeCompleted, NameEnds, At, Moved
<1>4. StageFails(p) => Moved(p, "raised")
  BY DEF StageFails, At, Moved
<1> QED
  BY <1>1, <1>2, <1>3, <1>4 DEF StartSkip, StartAccepted, StartContended, StageSkip, StageBegin, FinalizeSkip,
                                FinalizeRelease, NameLocked, Taken

\* A token stays one token.
LEMMA TokenStep ==
    ASSUME TypeOK, OneToken, Clean', [Next]_vars
    PROVE  OneToken'
<1>1. CASE UNCHANGED <<queue, exec>>
  BY <1>1 DEF OneToken, Busy, Message
<1>2. ASSUME NEW p \in Processes, NEW j \in Jobs, NEW t \in Tasks, NEW pc, Taken(p, j, t, pc)
      PROVE  OneToken'
  <2>1. /\ exec'[p] # Idle /\ exec'[p].job = j
        /\ \A q \in Processes \ {p} : exec'[q] = exec[q] /\ ~Busy(q, j)
    BY <1>2, TakenFacts DEF OneToken, Busy
  <2>2. \A k \in Jobs, u \in Tasks : Message(k, u)' => Message(k, u) /\ k # j
    BY <1>2, TakenFacts DEF OneToken
  <2>3. \A k \in Jobs, q \in Processes : Busy(q, k)' => (q = p /\ k = j) \/ (q # p /\ k # j /\ Busy(q, k))
    BY <2>1 DEF Busy
  <2>4. \A k \in Jobs, q, w \in Processes : Busy(q, k)' /\ Busy(w, k)' => q = w
    BY <2>3 DEF OneToken
  <2>5. \A k \in Jobs, q \in Processes, u \in Tasks : Busy(q, k)' => ~Message(k, u)'
    BY <2>2, <2>3 DEF OneToken
  <2>6. \A k \in Jobs, u, w \in Tasks : Message(k, u)' /\ Message(k, w)' => u = w
    BY <2>2 DEF OneToken
  <2> QED
    BY <2>4, <2>5, <2>6 DEF OneToken
<1>3. ASSUME NEW p \in Processes, NEW pc, Moved(p, pc)
      PROVE  OneToken'
  <2>1. exec[p] # Idle
    BY <1>3 DEF Moved
  <2> QED
    BY <1>3, <2>1, MovedFacts DEF OneToken, Busy
<1>4. ASSUME NEW p \in Processes, Left(p)
      PROVE  OneToken'
  <2>1. exec[p] # Idle
    BY <1>4 DEF Left
  <2> QED
    BY <1>4, <2>1, LeftFacts DEF OneToken, Busy
<1>5. Runs \subseteq Jobs /\ AutoNames \subseteq Jobs /\ Tasks = {"start", "stage", "finalize", "name"}
  BY DEF Jobs, Tasks
<1>6. ASSUME NEW p \in Processes, NEW a \in AutoNames, NameBusy(p, a)
      PROVE  OneToken'
  BY <1>1, <1>6 DEF NameBusy
<1>7. ASSUME NEW p \in Processes, OtherTask(p)
      PROVE  OneToken'
  BY <1>1, <1>7 DEF OtherTask
<1>8. ASSUME NEW r \in Runs, Cancel(r)
      PROVE  OneToken'
  BY <1>1, <1>8 DEF Cancel
<1>9. CASE UNCHANGED vars
  BY <1>1, <1>9 DEF vars
<1> QED
  BY <1>2, <1>3, <1>4, <1>5, <1>6, <1>7, <1>8, <1>9, CleanSteps, TokenMoves

-----------------------------------------------------------------------------
(* Statuses.                                                               *)

LEMMA StatusStep ==
    ASSUME TypeOK, RightTasks, OneToken, StatusFits, Clean', [Next]_vars
    PROVE  StatusFits'
<1> DEFINE Only(r, st) == status'[r] = st /\ \A s \in Runs \ {r} : status'[s] = status[s]
<1>1. CASE UNCHANGED <<queue, exec, status>>
  BY <1>1 DEF StatusFits, Busy, Message
<1>2. ASSUME NEW p \in Processes, NEW r \in Runs, NEW t \in Tasks, NEW pc, NEW st, Taken(p, r, t, pc),
             Only(r, st), st \in Executing(t, pc), pc \in {"work", "closing", "done"},
             pc = "work" => t = "stage", pc = "closing" => t = "finalize"
      PROVE  StatusFits'
  <2>1. r \in Jobs
    BY DEF Jobs
  <2>2. /\ exec'[p].pc = pc /\ exec'[p].job = r /\ exec'[p].task = t
        /\ \A q \in Processes \ {p} : exec'[q] = exec[q] /\ ~Busy(q, r)
    BY <1>2, <2>1, TakenFacts DEF OneToken
  <2>3. \A k \in Jobs, u \in Tasks : Message(k, u)' => Message(k, u) /\ k # r
    BY <1>2, <2>1, TakenFacts DEF OneToken
  <2>4. \A s \in Runs, u \in Tasks : Message(s, u)' => status'[s] \in Waiting(u)
    BY <1>2, <2>3 DEF StatusFits, Jobs
  <2>5. ASSUME NEW q \in Processes, NEW s \in Runs, Busy(q, s)'
        PROVE  /\ status'[s] \in Executing(exec'[q].task, exec'[q].pc)
               /\ exec'[q].pc \in {"work", "raised"} => exec'[q].task = "stage"
               /\ exec'[q].pc = "closing" => exec'[q].task = "finalize"
    <3>1. CASE q = p
      BY <1>2, <2>2, <2>5, <3>1 DEF Busy
    <3>2. CASE q # p
      <4>1. exec'[q] = exec[q] /\ Busy(q, s) /\ s # r
        BY <2>2, <2>5, <3>2 DEF Busy
      <4> QED
        BY <1>2, <4>1 DEF StatusFits
    <3> QED
      BY <3>1, <3>2
  <2> QED
    BY <2>4, <2>5 DEF StatusFits
<1>3. ASSUME NEW p \in Processes, NEW a \in AutoNames, Taken(p, a, "name", "work"), UNCHANGED status
      PROVE  StatusFits'
  <2>1. a \in Jobs /\ a \notin Runs /\ "name" \in Tasks
    BY ConstantsAssumption DEF Jobs, Tasks
  <2>2. \A q \in Processes, s \in Runs : Busy(q, s)' => Busy(q, s) /\ exec'[q] = exec[q]
    BY <1>3, <2>1, TakenFacts DEF Busy
  <2>3. \A s \in Runs, u \in Tasks : Message(s, u)' => Message(s, u)
    BY <1>3, <2>1, TakenFacts DEF Jobs
  <2> QED
    BY <1>3, <2>2, <2>3 DEF StatusFits
<1>4. ASSUME NEW p \in Processes, NEW pc, NEW r \in Runs, NEW st, Moved(p, pc), Busy(p, r), Only(r, st),
             st \in Executing(exec[p].task, pc), pc \in {"done", "raised"}, pc = "raised" => exec[p].task = "stage"
      PROVE  StatusFits'
  <2>1. r \in Jobs
    BY DEF Jobs
  <2>2. /\ exec'[p].job = r /\ exec'[p].task = exec[p].task /\ exec'[p].pc = pc
        /\ \A q \in Processes \ {p} : exec'[q] = exec[q] /\ ~Busy(q, r)
    BY <1>4, <2>1, MovedFacts DEF OneToken, Busy
  <2>3. \A k \in Jobs, u \in Tasks : Message(k, u)' => Message(k, u) /\ k # r
    BY <1>4, <2>1, MovedFacts DEF OneToken
  <2>4. \A s \in Runs, u \in Tasks : Message(s, u)' => status'[s] \in Waiting(u)
    BY <1>4, <2>3 DEF StatusFits, Jobs
  <2>5. ASSUME NEW q \in Processes, NEW s \in Runs, Busy(q, s)'
        PROVE  /\ status'[s] \in Executing(exec'[q].task, exec'[q].pc)
               /\ exec'[q].pc \in {"work", "raised"} => exec'[q].task = "stage"
               /\ exec'[q].pc = "closing" => exec'[q].task = "finalize"
    <3>1. CASE q = p
      BY <1>4, <2>2, <2>5, <3>1 DEF Busy
    <3>2. CASE q # p
      <4>1. exec'[q] = exec[q] /\ Busy(q, s) /\ s # r
        BY <2>2, <2>5, <3>2 DEF Busy
      <4> QED
        BY <1>4, <4>1 DEF StatusFits
    <3> QED
      BY <3>1, <3>2
  <2> QED
    BY <2>4, <2>5 DEF StatusFits
<1>5. \A r \in Runs : \A st : SetStatus(r, st) => Only(r, st)
  BY DEF SetStatus, TypeOK
<1>6. \A r \in Runs : UNCHANGED status => Only(r, status[r])
  OBVIOUS
<1>7. Runs \subseteq Jobs /\ {"start", "stage", "finalize"} \subseteq Tasks
  BY DEF Jobs, Tasks
<1>8. \A r \in Runs : status[r] \in {"queued", "running", "completed", "failed", "cancelled"}
  BY DEF TypeOK
<1>9. ASSUME NEW p \in Processes, NEW r \in Runs, StartSkip(p, r) \/ StartAccepted(p, r) \/ StartContended(p, r)
      PROVE  StatusFits'
  <2>1. Taken(p, r, "start", "done")
    BY <1>9, TokenMoves
  <2>2. status[r] \in {"queued", "cancelled"}
    BY <1>7, <2>1, TakenFacts DEF StatusFits, Waiting
  <2>3. PICK st \in {"cancelled", "running", "failed"} : Only(r, st)
    BY <1>5, <1>6, <1>9, <2>2 DEF StartSkip, StartAccepted, StartContended, Terminal
  <2>4. st \in Executing("start", "done")
    BY DEF Executing
  <2> HIDE DEF Only
  <2> QED
    BY <1>2, <1>7, <2>1, <2>3, <2>4
<1>10. ASSUME NEW p \in Processes, NEW r \in Runs, StageSkip(p, r) \/ StageBegin(p, r)
       PROVE  StatusFits'
  <2>1. PICK pc \in {"done", "work"} : Taken(p, r, "stage", pc) /\ (pc = "work" => status[r] \notin Terminal)
    BY <1>10, TokenMoves DEF StageBegin
  <2>2. status[r] \in {"running", "failed", "cancelled"}
    BY <1>7, <2>1, TakenFacts DEF StatusFits, Waiting
  <2>3. Only(r, status[r])
    BY <1>6, <1>10 DEF StageSkip, StageBegin
  <2>4. status[r] \in Executing("stage", pc)
    BY <2>1, <2>2 DEF Executing, Terminal
  <2> HIDE DEF Only
  <2> QED
    BY <1>2, <1>7, <2>1, <2>3, <2>4
<1>11. ASSUME NEW p \in Processes, NEW r \in Runs, FinalizeSkip(p, r) \/ FinalizeRelease(p, r)
       PROVE  StatusFits'
  <2>1. PICK pc \in {"done", "closing"} :
            /\ Taken(p, r, "finalize", pc)
            /\ IF pc = "done" THEN status[r] \in {"failed", "cancelled"} ELSE status[r] \notin {"failed", "cancelled"}
    BY <1>11, TokenMoves DEF FinalizeSkip, FinalizeRelease
  <2>2. status[r] \in {"running", "failed", "cancelled"}
    BY <1>7, <2>1, TakenFacts DEF StatusFits, Waiting
  <2>3. Only(r, status[r])
    BY <1>6, <1>11 DEF FinalizeSkip, FinalizeRelease
  <2>4. status[r] \in Executing("finalize", pc)
    BY <2>1, <2>2 DEF Executing
  <2> HIDE DEF Only
  <2> QED
    BY <1>2, <1>7, <2>1, <2>3, <2>4
<1>12. ASSUME NEW p \in Processes, StageEnds(p) \/ StageFails(p) \/ FinalizeCompleted(p)
       PROVE  StatusFits'
  <2> DEFINE r == exec[p].job
  <2>1. /\ exec[p] # Idle /\ exec[p].task \in {"stage", "finalize"}
        /\ exec[p].task = "stage" => exec[p].pc = "work"
    BY <1>12 DEF StageEnds, StageFails, FinalizeCompleted, At
  <2>2. r \in Runs /\ Busy(p, r)
    BY <2>1 DEF RightTasks, Busy, TypeOK, Jobs
  <2>3. exec[p].pc = "work" => status[r] \in {"running", "cancelled"}
    BY <2>2 DEF StatusFits, Executing
  <2> HIDE DEF r
  <2>4. CASE StageEnds(p)
    <3>1. Moved(p, "done") /\ exec[p].task = "stage" /\ exec[p].pc = "work"
      BY <2>4, TokenMoves DEF StageEnds, At
    <3>2. Only(r, status[r]) /\ status[r] \in Executing(exec[p].task, "done")
      BY <1>6, <2>2, <2>3, <2>4, <3>1 DEF StageEnds, Executing
    <3> HIDE DEF Only
    <3> QED
      BY <1>4, <2>2, <3>1, <3>2
  <2>5. CASE StageFails(p)
    <3>1. Moved(p, "raised") /\ exec[p].task = "stage"
      BY <2>5, TokenMoves DEF StageFails, At
    <3>2. Only(r, "failed") /\ "failed" \in Executing(exec[p].task, "raised")
      BY <1>5, <2>2, <2>5 DEF StageFails, Executing, r
    <3> HIDE DEF Only
    <3> QED
      BY <1>4, <2>2, <3>1, <3>2
  <2>6. CASE FinalizeCompleted(p)
    <3>1. Moved(p, "done") /\ exec[p].task = "finalize"
      BY <2>6, TokenMoves DEF FinalizeCompleted, At
    <3>2. Only(r, "completed") /\ "completed" \in Executing(exec[p].task, "done")
      BY <1>5, <2>2, <2>6, <3>1 DEF FinalizeCompleted, Executing, r
    <3> HIDE DEF Only
    <3> QED
      BY <1>4, <2>2, <3>1, <3>2
  <2> QED
    BY <1>12, <2>4, <2>5, <2>6
<1>13. ASSUME NEW p \in Processes, NameEnds(p)
       PROVE  StatusFits'
  <2>1. Moved(p, "done") /\ exec[p].job \in AutoNames /\ UNCHANGED status
    BY <1>13, TokenMoves DEF NameEnds, At, RightTasks
  <2>2. exec[p].job \notin Runs
    BY <2>1, ConstantsAssumption
  <2>3. \A q \in Processes, s \in Runs : Busy(q, s)' => Busy(q, s) /\ exec'[q] = exec[q]
    BY <2>1, <2>2, MovedFacts DEF Busy
  <2>4. \A s \in Runs, u \in Tasks : Message(s, u)' => Message(s, u)
    BY <1>7, <2>1, MovedFacts
  <2> QED
    BY <2>1, <2>3, <2>4 DEF StatusFits
<1>14. ASSUME NEW p \in Processes, Returned(p) \/ Raised(p)
       PROVE  StatusFits'
  <2>1. /\ exec[p] # Idle /\ exec' = [exec EXCEPT ![p] = Idle] /\ UNCHANGED status
        /\ exec[p].pc \in {"done", "raised"} /\ exec[p].job \in Jobs /\ exec[p].task \in Tasks
    BY <1>14 DEF Returned, Raised, Idle, TypeOK
  <2>2. \A q \in Processes, s \in Runs : Busy(q, s)' => Busy(q, s) /\ exec'[q] = exec[q]
    BY <2>1 DEF Busy, TypeOK
  <2>3. \A s \in Runs, u \in Tasks : Message(s, u)' =>
            \/ Message(s, u)
            \/ s = exec[p].job /\ Returned(p) /\ <<s, u>> \in Following(s, exec[p].task)
            \/ s = exec[p].job /\ Raised(p) /\ u = exec[p].task
    BY <1>14, <2>1 DEF Returned, Raised, Message, Following
  <2>4. \A s \in Runs : s = exec[p].job =>
            /\ status[s] \in Executing(exec[p].task, exec[p].pc)
            /\ exec[p].pc = "raised" => exec[p].task = "stage"
    BY <2>1 DEF StatusFits, Busy
  <2>5. \A s \in Runs, u \in Tasks : <<s, u>> \in Following(s, exec[p].task) =>
            u \in {"stage", "finalize"} /\ exec[p].task \in {"start", "stage"}
    BY DEF Following
  <2>6. ASSUME NEW s \in Runs, NEW u \in Tasks, Message(s, u)'
        PROVE  status'[s] \in Waiting(u)
    <3>1. CASE Message(s, u)
      BY <2>1, <3>1 DEF StatusFits
    <3>2. CASE s = exec[p].job /\ Returned(p) /\ <<s, u>> \in Following(s, exec[p].task)
      BY <2>1, <2>4, <2>5, <3>2 DEF Returned, Executing, Waiting
    <3>3. CASE s = exec[p].job /\ Raised(p) /\ u = exec[p].task
      BY <2>1, <2>4, <3>3 DEF Raised, Executing, Waiting
    <3> QED
      BY <2>3, <2>6, <3>1, <3>2, <3>3
  <2> QED
    BY <2>1, <2>2, <2>6 DEF StatusFits
<1>15. ASSUME NEW r \in Runs, Cancel(r)
       PROVE  StatusFits'
  <2>1. UNCHANGED <<queue, exec>> /\ status[r] \in {"queued", "running"} /\ Only(r, "cancelled")
    BY <1>5, <1>15 DEF Cancel
  <2>2. \A t \in Tasks : "cancelled" \in Waiting(t)
    BY DEF Waiting
  <2>3. \A t \in Tasks : \A pc : status[r] \in Executing(t, pc) => "cancelled" \in Executing(t, pc)
    BY <2>1 DEF Executing
  <2>4. \A p \in Processes : exec[p] # Idle => exec[p].task \in Tasks
    BY DEF TypeOK
  <2> QED
    BY <2>1, <2>2, <2>3, <2>4 DEF StatusFits, Busy, Message
<1>16. ASSUME NEW p \in Processes, NEW a \in AutoNames, NameLocked(p, a) \/ NameBusy(p, a)
       PROVE  StatusFits'
  BY <1>1, <1>3, <1>16, TokenMoves DEF NameLocked, NameBusy
<1>17. ASSUME NEW p \in Processes, OtherTask(p)
       PROVE  StatusFits'
  BY <1>1, <1>17 DEF OtherTask
<1>18. CASE UNCHANGED vars
  BY <1>1, <1>18 DEF vars
<1> QED
  BY <1>9, <1>10, <1>11, <1>12, <1>13, <1>14, <1>15, <1>16, <1>17, <1>18, CleanSteps

-----------------------------------------------------------------------------
(* Who counts on the lock.                                                 *)

\* What a job does is what the one process that executes it does.
LEMMA AtWork ==
    ASSUME OneToken, NEW j \in Jobs
    PROVE  /\ \A p \in Processes : Busy(p, j) =>
                  /\ Closing(j) <=> At(p, "finalize", "closing")
                  /\ \A t : Working(j, t) <=> At(p, t, "work")
           /\ (\A p \in Processes : ~Busy(p, j)) => ~Closing(j) /\ \A t : ~Working(j, t)
BY DEF OneToken, Closing, Working

LEMMA AtWorkNext ==
    ASSUME OneToken', NEW j \in Jobs
    PROVE  /\ \A p \in Processes : Busy(p, j)' =>
                  /\ Closing(j)' <=> At(p, "finalize", "closing")'
                  /\ \A t : Working(j, t)' <=> At(p, t, "work")'
           /\ (\A p \in Processes : ~Busy(p, j)') => ~Closing(j)' /\ \A t : ~Working(j, t)'
BY DEF OneToken, Closing, Working

\* The other jobs stay where they are.
LEMMA OthersStay ==
    ASSUME NEW p \in Processes, NEW j \in Jobs, ~Busy(p, j), ~Busy(p, j)',
           \A q \in Processes \ {p} : exec'[q] = exec[q]
    PROVE  (Closing(j)' <=> Closing(j)) /\ \A t : Working(j, t)' <=> Working(j, t)
<1>1. \A q \in Processes : Busy(q, j)' <=> Busy(q, j)
  BY DEF Busy
<1>2. \A q \in Processes : Busy(q, j) => q # p /\ exec'[q] = exec[q]
  OBVIOUS
<1> QED
  BY <1>1, <1>2 DEF Closing, Working, At

\* Before and after a task is received.
LEMMA ReceivedJob ==
    ASSUME TypeOK, OneToken, OneToken', NEW p \in Processes, NEW j \in Jobs, NEW t \in Tasks, NEW pc,
           Taken(p, j, t, pc)
    PROVE  /\ ~Closing(j) /\ \A u : ~Working(j, u)
           /\ Closing(j)' <=> t = "finalize" /\ pc = "closing"
           /\ \A u : Working(j, u)' <=> t = u /\ pc = "work"
           /\ \A k \in Jobs \ {j} : (Closing(k)' <=> Closing(k)) /\ \A u : Working(k, u)' <=> Working(k, u)
<1>1. /\ exec[p] = Idle /\ exec'[p] # Idle /\ exec'[p].job = j /\ exec'[p].task = t /\ exec'[p].pc = pc
      /\ Message(j, t) /\ \A q \in Processes \ {p} : exec'[q] = exec[q]
  BY TakenFacts
<1>2. \A q \in Processes : ~Busy(q, j)
  BY <1>1 DEF OneToken
<1>3. ~Closing(j) /\ \A u : ~Working(j, u)
  BY <1>2, AtWork
<1>4. Busy(p, j)' /\ \A k \in Jobs \ {j} : ~Busy(p, k) /\ ~Busy(p, k)'
  BY <1>1 DEF Busy
<1>5. (At(p, "finalize", "closing")' <=> t = "finalize" /\ pc = "closing") /\
      \A u : At(p, u, "work")' <=> t = u /\ pc = "work"
  BY <1>1 DEF At
<1>6. (Closing(j)' <=> t = "finalize" /\ pc = "closing") /\ \A u : Working(j, u)' <=> t = u /\ pc = "work"
  BY <1>4, <1>5, AtWorkNext
<1>7. \A k \in Jobs \ {j} : (Closing(k)' <=> Closing(k)) /\ \A u : Working(k, u)' <=> Working(k, u)
  BY <1>1, <1>4, OthersStay
<1> QED
  BY <1>3, <1>6, <1>7

\* Before and after a task goes on or ends.
LEMMA EndedJob ==
    ASSUME TypeOK, OneToken, OneToken', NEW p \in Processes, NEW j, j = exec[p].job,
           (\E pc \in {"done", "raised"} : Moved(p, pc)) \/ Left(p)
    PROVE  /\ j \in Jobs /\ Busy(p, j)
           /\ Closing(j) <=> At(p, "finalize", "closing")
           /\ \A u : Working(j, u) <=> At(p, u, "work")
           /\ ~Closing(j)' /\ \A u : ~Working(j, u)'
           /\ \A k \in Jobs \ {j} : (Closing(k)' <=> Closing(k)) /\ \A u : Working(k, u)' <=> Working(k, u)
<1>1. j \in Jobs /\ exec[p] # Idle
  BY MovedFacts, LeftFacts DEF Moved, Left
<1>2. Busy(p, j)
  BY <1>1 DEF Busy
<1>3. \A q \in Processes \ {p} : exec'[q] = exec[q]
  BY MovedFacts, LeftFacts
<1>4. exec'[p] = Idle \/ (exec'[p].job = j /\ exec'[p].pc \notin {"closing", "work"})
  BY MovedFacts, LeftFacts
<1>5. (Closing(j) <=> At(p, "finalize", "closing")) /\ \A u : Working(j, u) <=> At(p, u, "work")
  BY <1>1, <1>2, AtWork
<1>6. \A q \in Processes \ {p} : ~Busy(q, j)'
  <2>1. \A q \in Processes \ {p} : ~Busy(q, j)
    BY <1>1, <1>2 DEF OneToken
  <2> QED
    BY <1>3, <2>1 DEF Busy
<1>7. ~Closing(j)' /\ \A u : ~Working(j, u)'
  BY <1>4, <1>6 DEF Closing, Working, At
<1>8. \A k \in Jobs \ {j} : ~Busy(p, k) /\ ~Busy(p, k)'
  BY <1>1, <1>4 DEF Busy
<1>9. \A k \in Jobs \ {j} : (Closing(k)' <=> Closing(k)) /\ \A u : Working(k, u)' <=> Working(k, u)
  BY <1>3, <1>8, OthersStay
<1> QED
  BY <1>1, <1>2, <1>5, <1>7, <1>9

-----------------------------------------------------------------------------
(* The level of the lock and the jobs that may still release it.           *)

LEMMA OneMore ==
    ASSUME NEW S, NEW T, NEW j, NEW d \in Nat, IsFiniteSet(S), Cardinality(S) <= d, T \subseteq S \cup {j}
    PROVE  IsFiniteSet(T) /\ Cardinality(T) <= d + 1
<1>1. /\ IsFiniteSet(S \cup {j}) /\ Cardinality(S) \in Nat
      /\ Cardinality(S \cup {j}) = IF j \in S THEN Cardinality(S) ELSE Cardinality(S) + 1
  BY FS_AddElement, FS_CardinalityType
<1>2. IsFiniteSet(T) /\ Cardinality(T) <= Cardinality(S \cup {j}) /\ Cardinality(T) \in Nat
  BY <1>1, FS_Subset, FS_CardinalityType
<1> QED
  BY <1>1, <1>2

LEMMA OneLess ==
    ASSUME NEW S, NEW T, NEW j \in S, NEW d \in Nat, IsFiniteSet(S), Cardinality(S) <= d, T \subseteq S \ {j}
    PROVE  /\ IsFiniteSet(T) /\ Cardinality(T) \in Nat /\ Cardinality(T) <= d - 1
           /\ T # {} => Cardinality(T) >= 1
<1>1. IsFiniteSet(S \ {j}) /\ Cardinality(S \ {j}) = Cardinality(S) - 1 /\ Cardinality(S) \in Nat
  BY FS_RemoveElement, FS_CardinalityType
<1>2. IsFiniteSet(T) /\ Cardinality(T) <= Cardinality(S \ {j}) /\ Cardinality(T) \in Nat
  BY <1>1, FS_Subset, FS_CardinalityType
<1>3. T # {} => Cardinality(T) # 0
  BY <1>2, FS_EmptySet
<1> QED
  BY <1>1, <1>2, <1>3

LEMMA Keeps ==
    ASSUME LevelsSuffice, UNCHANGED <<holder, depth>>, Owing' \subseteq Owing,
           \A j \in Jobs : claim'[j] \in {claim[j], None}, depth \in Nat
    PROVE  LevelsSuffice'
<1>1. IsFiniteSet(Owing') /\ Cardinality(Owing') <= Cardinality(Owing)
  BY FS_Subset DEF LevelsSuffice
<1>2. Cardinality(Owing') \in Nat /\ Cardinality(Owing) \in Nat
  BY <1>1, FS_CardinalityType DEF LevelsSuffice
<1> QED
  BY <1>1, <1>2 DEF LevelsSuffice

LEMMA Locks ==
    ASSUME LevelsSuffice, depth \in Nat, NEW j \in Jobs, NEW c \in Conns, Free(c), TryLock(c),
           claim'[j] = c, \A k \in Jobs \ {j} : claim'[k] = claim[k], Owing' \subseteq Owing \cup {j}
    PROVE  LevelsSuffice'
<1>1. IsFiniteSet(Owing') /\ Cardinality(Owing') <= depth + 1
  BY OneMore DEF LevelsSuffice
<1>2. \A k \in Jobs : claim'[k] # None => c = claim'[k]
  BY DEF LevelsSuffice, Free
<1> QED
  BY <1>1, <1>2 DEF LevelsSuffice, TryLock

LEMMA Releases ==
    ASSUME LevelsSuffice, depth \in Nat, NEW j \in Owing, NEW c, Unlock(c),
           claim'[j] = None, \A k \in Jobs \ {j} : claim'[k] = claim[k], Owing' \subseteq Owing \ {j}
    PROVE  LevelsSuffice'
<1>1. /\ IsFiniteSet(Owing') /\ Cardinality(Owing') \in Nat /\ Cardinality(Owing') <= depth - 1
      /\ Owing' # {} => Cardinality(Owing') >= 1
  BY OneLess DEF LevelsSuffice
<1>2. depth' >= depth - 1 /\ depth' \in Nat /\ (depth' >= 1 => holder' = holder)
  BY <1>1 DEF Unlock, UnlockTimes
<1>3. Cardinality(Owing') <= depth'
  BY <1>1, <1>2
<1>4. ASSUME NEW k \in Jobs, claim'[k] # None
      PROVE  holder' = claim'[k]
  <2>1. k \in Owing'
    BY <1>4 DEF Owing
  <2>2. holder' = holder
    BY <1>1, <1>2, <1>3, <2>1
  <2>3. k # j /\ claim'[k] = claim[k]
    BY <1>4
  <2> QED
    BY <1>4, <2>2, <2>3 DEF LevelsSuffice
<1> QED
  BY <1>1, <1>3, <1>4 DEF LevelsSuffice

LEMMA ClaimsStep ==
    ASSUME TypeOK, RightTasks, CleanInv, OneToken', Clean', [Next]_vars
    PROVE  ClaimsFit' /\ LevelsSuffice'
<1> USE DEF CleanInv
<1>1. Runs \subseteq Jobs /\ AutoNames \subseteq Jobs /\ Runs \cap AutoNames = {} /\ depth \in Nat
  BY ConstantsAssumption DEF Jobs, TypeOK
<1>2. {"start", "stage", "finalize", "name"} = Tasks
  BY DEF Tasks
<1>3. CASE UNCHANGED <<exec, status, claim, holder, depth>>
  <2>1. \A r \in Jobs : (Closing(r)' <=> Closing(r)) /\ \A t : Working(r, t)' <=> Working(r, t)
    BY <1>3 DEF Closing, Working, At, Busy
  <2>2. Owing' = Owing
    BY <1>3, <2>1 DEF Owing
  <2>3. ClaimsFit'
    BY <1>1, <1>3, <2>1 DEF ClaimsFit
  <2> QED
    BY <1>1, <1>3, <2>2, <2>3, Keeps
<1>4. \A j \in Jobs : \A c : Claim(j, c) => claim'[j] = c /\ \A k \in Jobs \ {j} : claim'[k] = claim[k]
  BY DEF Claim, TypeOK
<1>5. \A r \in Runs : \A st : SetStatus(r, st) => status'[r] = st /\ \A k \in Runs \ {r} : status'[k] = status[k]
  BY DEF SetStatus, TypeOK
<1>6. ASSUME NEW p \in Processes, NEW r \in Runs, StartSkip(p, r) \/ StartContended(p, r)
      PROVE  ClaimsFit' /\ LevelsSuffice'
  <2>1. Taken(p, r, "start", "done")
    BY <1>6, TokenMoves
  <2>2. /\ ~Closing(r) /\ \A u : ~Working(r, u)
        /\ ~Closing(r)' /\ \A u : ~Working(r, u)'
        /\ \A k \in Jobs \ {r} : (Closing(k)' <=> Closing(k)) /\ \A u : Working(k, u)' <=> Working(k, u)
    BY <1>1, <1>2, <2>1, ReceivedJob
  <2>3. /\ status'[r] # "running" /\ \A k \in Runs \ {r} : status'[k] = status[k]
        /\ claim'[r] = None /\ \A k \in Jobs \ {r} : claim'[k] = claim[k]
        /\ UNCHANGED <<holder, depth>>
    BY <1>1, <1>4, <1>5, <1>6 DEF StartSkip, StartContended, Terminal, ClaimsFit
  <2>4. ClaimsFit'
    BY <1>1, <2>2, <2>3 DEF ClaimsFit
  <2>5. Owing' \subseteq Owing
    BY <2>2, <2>3 DEF Owing
  <2> QED
    BY <1>1, <2>3, <2>4, <2>5, Keeps
<1>7. ASSUME NEW p \in Processes, NEW r \in Runs, StartAccepted(p, r)
      PROVE  ClaimsFit' /\ LevelsSuffice'
  <2> DEFINE c == Conn(p, pool[p])
  <2>1. Taken(p, r, "start", "done") /\ c \in Conns
    BY <1>7, TokenMoves, ConnType, TypeParts
  <2>2. /\ ~Closing(r)' /\ \A u : ~Working(r, u)'
        /\ \A k \in Jobs \ {r} : (Closing(k)' <=> Closing(k)) /\ \A u : Working(k, u)' <=> Working(k, u)
    BY <1>1, <1>2, <2>1, ReceivedJob
  <2>3. /\ status'[r] = "running" /\ \A k \in Runs \ {r} : status'[k] = status[k]
        /\ claim'[r] = c /\ \A k \in Jobs \ {r} : claim'[k] = claim[k]
        /\ Free(c) /\ TryLock(c)
    BY <1>1, <1>4, <1>5, <1>7 DEF StartAccepted
  <2> HIDE DEF c
  <2>4. ClaimsFit'
    BY <1>1, <2>1, <2>2, <2>3, NoneIsNoConn DEF ClaimsFit
  <2>5. Owing' \subseteq Owing \cup {r}
    BY <2>2, <2>3 DEF Owing
  <2> QED
    BY <1>1, <2>1, <2>3, <2>4, <2>5, Locks
<1>8. ASSUME NEW p \in Processes, NEW r \in Runs, StageSkip(p, r) \/ StageBegin(p, r) \/ FinalizeSkip(p, r)
      PROVE  ClaimsFit' /\ LevelsSuffice'
  <2>1. PICK t \in {"stage", "finalize"}, pc \in {"done", "work"} :
            Taken(p, r, t, pc) /\ (pc = "work" => t = "stage" /\ status[r] \notin Terminal)
    BY <1>8, TokenMoves DEF StageBegin
  <2>2. status[r] \in {"running", "failed", "cancelled"}
    BY <1>1, <1>2, <2>1, TakenFacts DEF StatusFits, Waiting
  <2>3. /\ ~Closing(r) /\ ~Closing(r)' /\ \A u : ~Working(r, u)
        /\ Working(r, "stage")' => status[r] = "running"
        /\ \A k \in Jobs \ {r} : (Closing(k)' <=> Closing(k)) /\ \A u : Working(k, u)' <=> Working(k, u)
    BY <1>1, <1>2, <2>1, <2>2, ReceivedJob DEF Terminal
  <2>4. UNCHANGED <<status, claim, holder, depth>>
    BY <1>8 DEF StageSkip, StageBegin, FinalizeSkip
  <2>5. ClaimsFit'
    BY <1>1, <2>3, <2>4 DEF ClaimsFit
  <2>6. Owing' \subseteq Owing
    BY <2>3, <2>4 DEF Owing, ClaimsFit
  <2> QED
    BY <1>1, <2>4, <2>5, <2>6, Keeps
<1>9. ASSUME NEW p \in Processes, NEW r \in Runs, FinalizeRelease(p, r)
      PROVE  ClaimsFit' /\ LevelsSuffice'
  <2>1. Taken(p, r, "finalize", "closing")
    BY <1>9, TokenMoves
  <2>2. status[r] = "running"
    BY <1>1, <1>2, <1>9, <2>1, TakenFacts DEF FinalizeRelease, StatusFits, Waiting
  <2>3. /\ ~Closing(r) /\ Closing(r)' /\ \A u : ~Working(r, u)'
        /\ \A k \in Jobs \ {r} : (Closing(k)' <=> Closing(k)) /\ \A u : Working(k, u)' <=> Working(k, u)
    BY <1>1, <1>2, <2>1, ReceivedJob
  <2>4. /\ UNCHANGED status /\ Unlock(Conn(p, pool[p]))
        /\ claim'[r] = None /\ \A k \in Jobs \ {r} : claim'[k] = claim[k]
    BY <1>1, <1>4, <1>9 DEF FinalizeRelease
  <2>5. r \in Owing
    BY <1>1, <2>2, <2>3 DEF Owing, ClaimsFit
  <2>6. ClaimsFit'
    BY <1>1, <2>3, <2>4 DEF ClaimsFit
  <2>7. Owing' \subseteq Owing \ {r}
    BY <2>3, <2>4 DEF Owing
  <2> QED
    BY <1>1, <2>4, <2>5, <2>6, <2>7, Releases
<1>10. ASSUME NEW p \in Processes, NEW a \in AutoNames, NameLocked(p, a)
       PROVE  ClaimsFit' /\ LevelsSuffice'
  <2> DEFINE c == Conn(p, pool[p])
  <2>1. Taken(p, a, "name", "work") /\ c \in Conns
    BY <1>10, TokenMoves, ConnType, TypeParts
  <2>2. /\ Working(a, "name")'
        /\ \A k \in Jobs \ {a} : (Closing(k)' <=> Closing(k)) /\ \A u : Working(k, u)' <=> Working(k, u)
    BY <1>1, <1>2, <2>1, ReceivedJob
  <2>3. /\ UNCHANGED status /\ Free(c) /\ TryLock(c)
        /\ claim'[a] = c /\ \A k \in Jobs \ {a} : claim'[k] = claim[k]
    BY <1>1, <1>4, <1>10 DEF NameLocked
  <2> HIDE DEF c
  <2>4. ClaimsFit'
    BY <1>1, <2>1, <2>2, <2>3, NoneIsNoConn DEF ClaimsFit
  <2>5. Owing' \subseteq Owing \cup {a}
    BY <2>2, <2>3 DEF Owing
  <2> QED
    BY <1>1, <2>1, <2>3, <2>4, <2>5, Locks
<1>11. ASSUME NEW p \in Processes, StageEnds(p) \/ FinalizeCompleted(p)
       PROVE  ClaimsFit' /\ LevelsSuffice'
  <2>0. PICK j : j = exec[p].job
    OBVIOUS
  <2>1. Moved(p, "done")
    BY <1>11, TokenMoves
  <2>2. /\ j \in Jobs /\ Busy(p, j) /\ (Closing(j) <=> At(p, "finalize", "closing"))
        /\ ~Closing(j)' /\ \A u : ~Working(j, u)'
        /\ \A k \in Jobs \ {j} : (Closing(k)' <=> Closing(k)) /\ \A u : Working(k, u)' <=> Working(k, u)
    BY <2>0, <2>1, EndedJob
  <2>3. j \in Runs
    BY <1>11, <2>0, <2>2 DEF StageEnds, FinalizeCompleted, At, RightTasks, Jobs
  <2>4. UNCHANGED <<claim, holder, depth>> /\ \A k \in Runs \ {j} : status'[k] = status[k]
    BY <1>5, <1>11, <2>0, <2>3 DEF StageEnds, FinalizeCompleted
  <2>5. claim[j] # None <=> status'[j] = "running"
    <3>1. CASE StageEnds(p)
      <4>1. ~Closing(j) /\ UNCHANGED status
        BY <2>2, <3>1 DEF StageEnds, At
      <4> QED
        BY <2>3, <4>1 DEF ClaimsFit
    <3>2. CASE FinalizeCompleted(p)
      <4>1. Closing(j) /\ status'[j] = "completed"
        BY <1>5, <2>0, <2>2, <2>3, <3>2 DEF FinalizeCompleted
      <4> QED
        BY <2>3, <4>1 DEF ClaimsFit
    <3> QED
      BY <1>11, <3>1, <3>2
  <2>6. ClaimsFit'
    BY <1>1, <2>2, <2>3, <2>4, <2>5 DEF ClaimsFit
  <2>7. Owing' \subseteq Owing
    BY <2>2, <2>4 DEF Owing
  <2> QED
    BY <1>1, <2>4, <2>6, <2>7, Keeps
<1>12. ASSUME NEW p \in Processes, StageFails(p) \/ NameEnds(p)
       PROVE  ClaimsFit' /\ LevelsSuffice'
  <2>0. PICK j : j = exec[p].job
    OBVIOUS
  <2>1. \E pc \in {"done", "raised"} : Moved(p, pc)
    BY <1>12, TokenMoves
  <2>2. /\ j \in Jobs /\ Busy(p, j) /\ \A u : Working(j, u) <=> At(p, u, "work")
        /\ ~Closing(j)' /\ \A u : ~Working(j, u)'
        /\ \A k \in Jobs \ {j} : (Closing(k)' <=> Closing(k)) /\ \A u : Working(k, u)' <=> Working(k, u)
    BY <2>0, <2>1, EndedJob
  <2>3. /\ StageFails(p) => j \in Runs /\ Working(j, "stage") /\ SetStatus(j, "failed")
        /\ NameEnds(p) => j \in AutoNames /\ Working(j, "name") /\ UNCHANGED status
    BY <2>0, <2>2 DEF StageFails, NameEnds, At, RightTasks, Jobs
  <2>4. PICK c : Unlock(c)
    BY <1>12 DEF StageFails, NameEnds
  <2>5. claim'[j] = None /\ \A k \in Jobs \ {j} : claim'[k] = claim[k]
    BY <1>4, <1>12, <2>0, <2>2 DEF StageFails, NameEnds
  <2>6. j \in Owing
    BY <1>12, <2>2, <2>3 DEF Owing, ClaimsFit
  <2>7. /\ \A k \in Runs \ {j} : status'[k] = status[k]
        /\ j \in Runs => status'[j] # "running"
    BY <1>1, <1>5, <1>12, <2>3
  <2>8. ClaimsFit'
    BY <1>1, <2>2, <2>5, <2>7 DEF ClaimsFit
  <2>9. Owing' \subseteq Owing \ {j}
    BY <2>2, <2>5 DEF Owing
  <2> QED
    BY <1>1, <2>4, <2>5, <2>6, <2>8, <2>9, Releases
<1>13. ASSUME NEW p \in Processes, Returned(p) \/ Raised(p)
       PROVE  ClaimsFit' /\ LevelsSuffice'
  <2>0. PICK j : j = exec[p].job
    OBVIOUS
  <2>1. Left(p)
    BY <1>13, TokenMoves
  <2>2. /\ j \in Jobs /\ (Closing(j) <=> At(p, "finalize", "closing")) /\ \A u : Working(j, u) <=> At(p, u, "work")
        /\ ~Closing(j)' /\ \A u : ~Working(j, u)'
        /\ \A k \in Jobs \ {j} : (Closing(k)' <=> Closing(k)) /\ \A u : Working(k, u)' <=> Working(k, u)
    BY <2>0, <2>1, EndedJob
  <2>3. ~Closing(j) /\ \A u : ~Working(j, u)
    BY <1>13, <2>2 DEF Returned, Raised, At
  <2>4. UNCHANGED <<claim, status, holder, depth>>
    BY <1>13 DEF Returned, Raised
  <2>5. \A k \in Jobs : (Closing(k)' <=> Closing(k)) /\ \A u : Working(k, u)' <=> Working(k, u)
    BY <2>2, <2>3
  <2>6. ClaimsFit' /\ Owing' \subseteq Owing
    BY <1>1, <2>4, <2>5 DEF ClaimsFit, Owing
  <2> QED
    BY <1>1, <2>4, <2>6, Keeps
<1>14. ASSUME NEW r \in Runs, Cancel(r)
       PROVE  ClaimsFit' /\ LevelsSuffice'
  <2>1. UNCHANGED <<exec, holder, depth>>
    BY <1>14 DEF Cancel
  <2>2. /\ status'[r] = "cancelled" /\ \A k \in Runs \ {r} : status'[k] = status[k]
        /\ claim'[r] = None /\ \A k \in Jobs \ {r} : claim'[k] = claim[k]
    BY <1>1, <1>4, <1>5, <1>14 DEF Cancel
  <2>3. \A k \in Jobs : (Closing(k)' <=> Closing(k)) /\ \A t : Working(k, t)' <=> Working(k, t)
    BY <2>1 DEF Closing, Working, At, Busy
  <2>4. ClaimsFit' /\ Owing' \subseteq Owing
    BY <1>1, <2>2, <2>3 DEF ClaimsFit, Owing
  <2> QED
    BY <1>1, <2>1, <2>2, <2>4, Keeps
<1>15. ASSUME NEW p \in Processes, (\E a \in AutoNames : NameBusy(p, a)) \/ OtherTask(p)
       PROVE  ClaimsFit' /\ LevelsSuffice'
  BY <1>3, <1>15 DEF NameBusy, OtherTask
<1>16. CASE UNCHANGED vars
  BY <1>3, <1>16 DEF vars
<1> QED
  BY <1>6, <1>7, <1>8, <1>9, <1>10, <1>11, <1>12, <1>13, <1>14, <1>15, <1>16, CleanSteps

-----------------------------------------------------------------------------
(* The theorems.                                                           *)

Inv == LockInv /\ RightTasks

LEMMA InitInv == Init => Inv
<1> SUFFICES ASSUME Init PROVE Inv
  OBVIOUS
<1> USE DEF Init
<1>1. TypeOK
  <2>1. RestOK /\ LockType
    BY ConstantsAssumption, NoneIsNoConn DEF RestOK, LockType, Jobs, Tasks
  <2> QED
    BY <2>1, TypeParts DEF Pools, Executions
<1>2. OneToken /\ RightTasks /\ StatusFits
  BY ConstantsAssumption DEF OneToken, RightTasks, StatusFits, Busy, Message, Waiting
<1>3. ClaimsFit
  BY DEF ClaimsFit, Working, Busy, Jobs
<1>4. Owing = {}
  BY DEF Owing, Working, Busy
<1>5. LevelsSuffice
  BY <1>4, FS_EmptySet DEF LevelsSuffice
<1> QED
  BY <1>1, <1>2, <1>3, <1>5 DEF Inv, LockInv, CleanInv

LEMMA InvStep == Inv /\ [Next]_vars => Inv'
<1> SUFFICES ASSUME Inv, [Next]_vars PROVE Inv'
  OBVIOUS
<1>1. TypeOK' /\ RightTasks'
  BY TypeStep, TasksStep DEF Inv, LockInv
<1>2. ASSUME Clean'
      PROVE  CleanInv'
  <2>1. CleanInv
    BY <1>2, CleanSteps DEF Inv, LockInv
  <2>2. OneToken'
    BY <1>2, <2>1, TokenStep DEF Inv, LockInv, CleanInv
  <2>3. StatusFits'
    BY <1>2, <2>1, StatusStep DEF Inv, LockInv, CleanInv
  <2>4. ClaimsFit' /\ LevelsSuffice'
    BY <1>2, <2>1, <2>2, ClaimsStep DEF Inv, LockInv
  <2> QED
    BY <1>1, <2>2, <2>3, <2>4 DEF CleanInv
<1> QED
  BY <1>1, <1>2 DEF Inv, LockInv

LEMMA Invariance == Spec => []Inv
BY InitInv, InvStep, PTL DEF Spec

\* Pools, lock, jobs, messages and executions stay in their types, whatever fails.
THEOREM TypeCorrect == Spec => []TypeOK
<1>1. Inv => TypeOK
  BY DEF Inv, LockInv
<1> QED
  BY <1>1, Invariance, PTL

\* For any runs, auto-name tasks, processes and cancels: a connection on which a job
\* counts (acquire_plan_lock answered true and nothing of the job released it) has
\* the lock, although unlocks land on whatever connection the pool hands out.
THEOREM ClaimsHold == Spec => []ClaimsAreHeld
<1>1. Inv => ClaimsAreHeld
  BY DEF Inv, LockInv, CleanInv, Clean, LevelsSuffice, ClaimsAreHeld
<1> QED
  BY <1>1, Invariance, PTL

\* No stage of a running run works on a plan without the lock.
THEOREM StagesAreLocked == Spec => []StagesRunUnderTheLock
<1>1. Inv => StagesRunUnderTheLock
  <2> SUFFICES ASSUME Inv, Clean, NEW p \in Processes, At(p, "stage", "work"), status[exec[p].job] = "running"
               PROVE  holder # None /\ holder = claim[exec[p].job]
    BY DEF StagesRunUnderTheLock, Clean
  <2> DEFINE r == exec[p].job
  <2>1. r \in Runs /\ r \in Jobs /\ Busy(p, r)
    BY DEF Inv, LockInv, RightTasks, At, TypeOK, Jobs, Busy
  <2>2. ~Closing(r)
    BY <2>1, AtWork DEF Inv, LockInv, CleanInv, At
  <2>3. claim[r] # None
    BY <2>1, <2>2 DEF Inv, LockInv, CleanInv, ClaimsFit
  <2> QED
    BY <2>1, <2>3 DEF Inv, LockInv, CleanInv, LevelsSuffice
<1> QED
  BY <1>1, Invariance, PTL
=============================================================================
