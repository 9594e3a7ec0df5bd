---------------------------- MODULE AutoTakeoff -----------------------------
(***************************************************************************)
(* The button of the viewer that starts and stops an AI run of the plan on *)
(* the screen, and the hook that tells it which run that is: a list read   *)
(* when the plan changes, at every poll, after every click and when the    *)
(* room says that a run has ended.                                         *)
(*                                                                         *)
(* The life of a run is AiRun's; here it is active, ended or cancelled.    *)
(* The wording of the label beside the button is left out.                 *)
(***************************************************************************)
EXTENDS Integers, FiniteSets, Sequences, SequencesExt

CONSTANTS
    Plans,
    MaxRuns, MaxReads,   \* bounds: runs ever created, reads under way at once
    MaxOps, MaxFaults    \* bounds: clicks and changes of plan; failures and lost events

VARIABLES
    runs,               \* server: the runs
    events,             \* the room: ends of runs on their way
    plan,               \* activePlanId
    run,                \* useActiveAiRun: the run shown, a set of one at most
    asks, answers,      \* the hook's reads: asked, and answered by the server in this order
    submitting, calls,  \* the button: its flag and its request
    behind,             \* history: the runs have changed since a read for the button
    inOrder, strayed,   \* history: of the read shown last, its order and its plan
    ops, faults

hook == <<run, asks, answers>>
button == <<submitting, calls>>
shown == <<inOrder, strayed>>
vars == <<runs, events, plan, hook, button, behind, shown, ops, faults>>

Runs == [id : 1..MaxRuns, plan : Plans, status : {"active", "ended", "cancelled"}]
Read == [plan : Plans, live : BOOLEAN, click : BOOLEAN, n : 1..MaxReads]

TypeOK ==
    /\ runs \subseteq Runs /\ events \subseteq 1..MaxRuns /\ plan \in Plans
    /\ run \subseteq Runs /\ Cardinality(run) <= 1
    /\ asks \subseteq Read
    /\ \A i \in DOMAIN answers :
          answers[i] \in [plan : Plans, live : BOOLEAN, click : BOOLEAN, rows : SUBSET Runs, late : BOOLEAN]
    /\ calls \subseteq [kind : {"create", "cancel"}, plan : Plans, id : 0..MaxRuns, pc : {"sent", "ok", "told", "failed"}]
    /\ {submitting, behind, inOrder, strayed} \subseteq BOOLEAN
    /\ ops \in 0..MaxOps /\ faults \in 0..MaxFaults

Op == ops < MaxOps /\ ops' = ops + 1
Fault == faults < MaxFaults /\ faults' = faults + 1
Active(rs) == {r \in rs : r.status = "active"}
Newest(rs) == {r \in rs : \A q \in rs : q.id <= r.id}

\* findActiveOrLatestForPlan
Latest(rs, p) ==
    LET own == {r \in rs : r.plan = p}
    IN IF Active(own) # {} THEN Newest(Active(own)) ELSE Newest(own)

-----------------------------------------------------------------------------
(* The hook.                                                               *)

\* A read takes the ticket of the plan on the screen, also when its caller
\* still remembers another plan.
Asked(as, p, click) ==
    LET n == CHOOSE k \in 1..MaxReads : \A a \in as : a.n # k
    IN as \cup {[plan |-> p, live |-> TRUE, click |-> click, n |-> n]}
Room == Cardinality(asks) + Len(answers) < MaxReads

refresh(p, click) == Room /\ asks' = Asked(asks, p, click)

\* The change of plan takes back the tickets of the reads under way.  The run shown
\* stays until the new plan's is read.
SelectPlan(p) ==
    /\ p # plan /\ Op /\ plan' = p /\ Room
    /\ asks' = Asked({[a EXCEPT !.live = FALSE] : a \in asks}, p, FALSE)
    /\ answers' = [i \in DOMAIN answers |-> [answers[i] EXCEPT !.live = FALSE]]
    /\ behind' = TRUE
    /\ UNCHANGED <<runs, events, run, button, shown, faults>>

Poll ==
    /\ refresh(plan, FALSE)
    /\ UNCHANGED <<runs, events, plan, run, answers, button, behind, shown, ops, faults>>

Serve(a) ==
    /\ a \in asks /\ asks' = asks \ {a}
    /\ answers' = Append(answers, [plan |-> a.plan, live |-> a.live, click |-> a.click, rows |-> runs, late |-> FALSE])
    /\ behind' = (behind /\ ~(a.live /\ a.plan = plan))
    /\ UNCHANGED <<runs, events, plan, run, button, shown, ops, faults>>

\* The click that waits for a read is over when the read is.
Over(r) ==
    /\ submitting' = (submitting /\ ~r.click)
    /\ calls' = IF r.click THEN {} ELSE calls

Overtaken(i) ==
    answers' = RemoveAt([j \in DOMAIN answers |-> [answers[j] EXCEPT !.late = @ \/ (j < i /\ answers[i].live)]], i)

AnsweredAnyway(i) ==                \* seeded defect: the ticket is not looked at
    /\ i \in DOMAIN answers /\ Overtaken(i)
    /\ run' = Latest(answers[i].rows, answers[i].plan)
    /\ IF answers[i].live THEN inOrder' = ~answers[i].late /\ strayed' = (answers[i].plan # plan) ELSE UNCHANGED shown
    /\ Over(answers[i])
    /\ UNCHANGED <<runs, events, plan, asks, behind, ops, faults>>

Answered(i) ==
    /\ i \in DOMAIN answers /\ Overtaken(i)
    /\ IF answers[i].live
       THEN /\ run' = Latest(answers[i].rows, answers[i].plan)
            /\ inOrder' = ~answers[i].late /\ strayed' = (answers[i].plan # plan)
       ELSE UNCHANGED <<run, shown>>
    /\ Over(answers[i])
    /\ UNCHANGED <<runs, events, plan, asks, behind, ops, faults>>

ReadFails(a) ==
    /\ a \in asks /\ asks' = asks \ {a} /\ Fault
    /\ Over(a)
    /\ UNCHANGED <<runs, events, plan, run, answers, behind, shown, ops>>

-----------------------------------------------------------------------------
(* The button.                                                             *)

\* A run that is active is stopped, else one is started for the plan.
handleClick ==
    /\ ~submitting /\ submitting' = TRUE /\ Op
    /\ calls' = {IF Active(run) # {}
                 THEN [kind |-> "cancel", plan |-> plan, id |-> (CHOOSE r \in run : TRUE).id, pc |-> "sent"]
                 ELSE [kind |-> "create", plan |-> plan, id |-> 0, pc |-> "sent"]}
    /\ UNCHANGED <<runs, events, plan, hook, behind, shown, faults>>

To(c, pc) == calls' = (calls \ {c}) \cup {[c EXCEPT !.pc = pc]}
Changed == behind' = TRUE
With(p) == [id |-> Cardinality(runs) + 1, plan |-> p, status |-> "active"]
Set(r, s) == runs' = (runs \ {r}) \cup {[r EXCEPT !.status = s]}

\* create_run refuses a plan with an active run, cancel_run a run that is not active:
\* both refusals are followed by a read, any other error is not.
Done(c) ==
    /\ c \in calls /\ c.pc = "sent"
    /\ \/ /\ c.kind = "create" /\ Latest(runs, c.plan) \cap Active(runs) = {} /\ Cardinality(runs) < MaxRuns
          /\ runs' = runs \cup {With(c.plan)} /\ Changed /\ To(c, "ok") /\ UNCHANGED <<events, faults>>
       \/ \E r \in Active(runs) :
             /\ c.kind = "cancel" /\ r.id = c.id
             /\ Set(r, "cancelled") /\ Changed /\ events' = events \cup {r.id}
             /\ To(c, "ok") /\ UNCHANGED faults
       \/ /\ IF c.kind = "create" THEN Active(Latest(runs, c.plan)) # {}
             ELSE \A r \in Active(runs) : r.id # c.id
          /\ To(c, "told") /\ UNCHANGED <<runs, events, behind, faults>>
       \/ Fault /\ To(c, "failed") /\ UNCHANGED <<runs, events, behind>>
    /\ UNCHANGED <<plan, hook, submitting, shown, ops>>

\* The read after a click goes on from the closure of the click.
ClickAnswered(c) ==
    /\ c \in calls /\ c.pc \in {"ok", "told"}
    /\ calls' = {} /\ refresh(c.plan, TRUE)
    /\ UNCHANGED <<runs, events, plan, run, answers, submitting, behind, shown, ops, faults>>

FailsWaiting(c) ==                  \* seeded defect: only a click that is answered is over
    /\ c \in calls /\ c.pc = "failed" /\ calls' = {}
    /\ UNCHANGED <<runs, events, plan, hook, submitting, behind, shown, ops, faults>>

ClickFails(c) ==
    /\ c \in calls /\ c.pc = "failed" /\ calls' = {}
    /\ submitting' = FALSE
    /\ UNCHANGED <<runs, events, plan, hook, behind, shown, ops, faults>>

-----------------------------------------------------------------------------
(* The worker, the colleagues and the room.                                *)

Ends(r) ==
    /\ r \in Active(runs) /\ Set(r, "ended") /\ Changed
    /\ events' = events \cup {r.id}
    /\ UNCHANGED <<plan, hook, button, shown, ops, faults>>

Colleague(p) ==
    /\ Active(Latest(runs, p)) = {} /\ Cardinality(runs) < MaxRuns /\ Fault
    /\ runs' = runs \cup {With(p)} /\ Changed
    /\ UNCHANGED <<events, plan, hook, button, shown, ops>>

\* The listener reads for the plan on the screen, whosever the run is.
EventArrives(id) ==
    /\ id \in events /\ events' = events \ {id}
    /\ refresh(plan, FALSE)
    /\ UNCHANGED <<runs, plan, run, answers, button, behind, shown, ops, faults>>

-----------------------------------------------------------------------------
Init ==
    /\ runs = {} /\ events = {} /\ plan \in Plans
    /\ run = {} /\ asks = Asked({}, plan, FALSE) /\ answers = <<>>
    /\ submitting = FALSE /\ calls = {}
    /\ behind = TRUE /\ inOrder = TRUE /\ strayed = FALSE
    /\ ops = 0 /\ faults = 0

Next ==
    \/ \E p \in Plans : SelectPlan(p) \/ Colleague(p)
    \/ Poll \/ handleClick
    \/ \E a \in asks : Serve(a) \/ ReadFails(a)
    \/ \E i \in DOMAIN answers : Answered(i)
    \/ \E c \in calls : Done(c) \/ ClickAnswered(c) \/ ClickFails(c)
    \/ \E r \in runs : Ends(r)
    \/ \E id \in events : EventArrives(id)

Spec == Init /\ [][Next]_vars

-----------------------------------------------------------------------------
\* Once the reads are answered the button is about the plan's run as it is.  Excepted:
\* the runs changed since, the answers crossed, or the last one was asked by a click
\* made before the plan was changed.
RunIsPlans ==
    asks = {} /\ answers = <<>> /\ ~behind /\ inOrder /\ ~strayed => run = Latest(runs, plan)

\* The button waits for its request or for the read after it, so that it is never left
\* disabled and a second click never starts a second run.
ButtonWaits ==
    /\ submitting <=> calls # {} \/ (\E a \in asks : a.click) \/ (\E i \in DOMAIN answers : answers[i].click)
    /\ Cardinality(calls) <= 1

RunIsShown == RunIsPlans /\ ButtonWaits
=============================================================================
