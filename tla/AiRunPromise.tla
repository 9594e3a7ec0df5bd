---------------------------- MODULE AiRunPromise ----------------------------
(***************************************************************************)
(* What the API promises of the status of an Auto-Takeoff run to the       *)
(* clients that poll it, when the broker delivers each message once and    *)
(* the database answers: queued, running, then completed or failed, and    *)
(* cancelled on request.  The code has no lock or conditional update on    *)
(* ai_runs.status, so a cancel and the task in flight may cross: a request *)
(* that was accepted while the run was active may cancel it after it       *)
(* ended, and the task that did not see the cancel may write over it.      *)
(***************************************************************************)
CONSTANT Runs

VARIABLES status, cancelling

vars == <<status, cancelling>>

Init ==
    /\ status = [r \in Runs |-> "absent"]
    /\ cancelling = [r \in Runs |-> FALSE]

Move(r, from, to) ==
    /\ status[r] \in from
    /\ status' = [status EXCEPT ![r] = to]
    /\ UNCHANGED cancelling

Queue(r)    == Move(r, {"absent"}, "queued")
Begin(r)    == Move(r, {"queued"}, "running")
Complete(r) == Move(r, {"running"}, "completed")
Fail(r)     == Move(r, {"queued", "running"}, "failed")
Cross(r)    == \E to \in {"running", "completed", "failed"} : Move(r, {"cancelled"}, to)

AcceptCancel(r) ==
    /\ status[r] \in {"queued", "running"}
    /\ ~cancelling[r]
    /\ cancelling' = [cancelling EXCEPT ![r] = TRUE]
    /\ UNCHANGED status

Cancel(r) ==
    /\ cancelling[r]
    /\ status' = [status EXCEPT ![r] = "cancelled"]
    /\ cancelling' = [cancelling EXCEPT ![r] = FALSE]

Advance(r) == Begin(r) \/ Complete(r) \/ Fail(r)

Next ==
    \E r \in Runs : Queue(r) \/ Advance(r) \/ Cross(r) \/ AcceptCancel(r) \/ Cancel(r)

\* A queued run does not stay queued nor a running one running, and an accepted
\* cancel is written.
Fairness == \A r \in Runs : WF_vars(Advance(r)) /\ WF_vars(Cancel(r))

Spec == Init /\ [][Next]_vars /\ Fairness
=============================================================================
