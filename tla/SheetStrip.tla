----------------------------- MODULE SheetStrip -----------------------------
(***************************************************************************)
(* Names of sheets in the strip beside the plan: given by hand with an     *)
(* optimistic value, or by a background task that one button starts.       *)
(*                                                                         *)
(* The button's handler polls the list every two seconds for two minutes   *)
(* and is also told by an event; the loops of two clicks share one abort   *)
(* flag.  An optimistic name is shown until the list has that very name.   *)
(***************************************************************************)
EXTENDS Integers, FiniteSets

CONSTANTS
    Sheets,       \* sheets of the plan
    Manual,       \* names a user types
    MaxOps,       \* bound: renames and uses of the button
    MaxFaults     \* bound: requests that fail, events that are lost

Clicks == 1..2    \* bound: times the button is used

VARIABLES
    row,          \* server: name and sheet_name_source of each sheet
    clock,        \* changes of the server so far
    task,         \* the background task of each click
    event,        \* sheets.auto_named on their way
    list,         \* planSheets
    optimistic,   \* optimisticNames
    editing,      \* editingSheetId
    confirm,      \* autoNameConfirmOpen
    renames,      \* renames in flight
    loads,        \* refreshes in flight and who awaits them
    spinner,      \* autoNameInProgress
    abort,        \* autoNameAbortRef
    pending,      \* pendingAutoNamePlanIdRef, as a flag: there is one plan
    finish,       \* completeAutoNameFinishRef: the click whose closure it is
    loop,         \* the handlers of the clicks
    seen,         \* history: newest state listed, whether the last one was the newest, whether one was missed
    overtaken,    \* history: sheets the server named otherwise while an optimistic name was shown
    ops, faults

server  == <<row, clock, task, event>>
strip   == <<optimistic, editing, confirm, renames>>
flags   == <<abort, pending, finish>>
naming  == <<spinner, flags, loop>>
history == <<seen, overtaken>>
bounds  == <<ops, faults>>
vars == <<server, list, strip, loads, naming, history, bounds>>

None  == "none"
Auto  == "auto"
Rows  == [name : Manual \cup {None, Auto}, source : {None, "auto", "manual"}]
Waits == {<<w, k>> : w \in {"poll", "close"}, k \in Clicks} \cup {<<"event", 0>>, <<"rename", 0>>}

TypeOK ==
    /\ row \in [Sheets -> Rows] /\ list \in [Sheets -> Rows] /\ clock \in Nat /\ event \in Nat
    /\ task \in [Clicks -> {None, "queued", "all", "done"}]
    /\ optimistic \in [Sheets -> Manual \cup {None}]
    /\ editing \in Sheets \cup {None} /\ confirm \in BOOLEAN
    /\ renames \subseteq [sheet : Sheets, name : Manual, pc : {"sent", "ok"}]
    /\ loads \subseteq [by : Waits, rows : [Sheets -> Rows], at : 0..clock]
    /\ {spinner, abort, pending} \subseteq BOOLEAN
    /\ finish \in Clicks \cup {0}
    /\ loop \in [Clicks -> [pc : {"idle", "post", "poll", "sleep"}, before : [Sheets -> Rows], late : BOOLEAN]]
    /\ seen \in [at : 0..clock, inOrder : BOOLEAN, missed : BOOLEAN] /\ overtaken \subseteq Sheets
    /\ ops \in 0..MaxOps /\ faults \in 0..MaxFaults

-----------------------------------------------------------------------------
(* Refreshes of the list.                                                  *)

Load(by) == [by |-> by, rows |-> row, at |-> clock]
Ask(by)  == loads' = loads \cup {Load(by)}
Faulty   == faults < MaxFaults /\ faults' = faults + 1

\* The entries the new list confirms are dropped; other names leave them alone.
Confirmed(rows) ==
    [s \in Sheets |->
        IF rows[s] = [name |-> optimistic[s], source |-> "manual"] THEN None ELSE optimistic[s]]

\* An answer is as old as its request or as new as now; or the request fails.
Refreshed(l) ==
    \/ \E a \in {<<l.rows, l.at>>, <<row, clock>>} :
         /\ list' = a[1] /\ optimistic' = Confirmed(a[1])
         /\ seen' = [seen EXCEPT !.at = IF a[2] > @ THEN a[2] ELSE @, !.inOrder = a[2] >= seen.at]
         /\ UNCHANGED faults
    \/ /\ Faulty
       /\ seen' = [seen EXCEPT !.missed = TRUE]
       /\ UNCHANGED <<list, optimistic>>

-----------------------------------------------------------------------------
(* Renaming by hand.                                                       *)

Untouched == UNCHANGED <<server, list, loads, naming, history>>

StartEdit(s) ==
    /\ editing = None
    /\ editing' = s
    /\ Untouched /\ UNCHANGED <<optimistic, confirm, renames, bounds>>

\* Escape, or a name that is empty or the one of the list.
CancelEdit ==
    /\ editing # None
    /\ editing' = None
    /\ Untouched /\ UNCHANGED <<optimistic, confirm, renames, bounds>>

\* Enter or leaving the field.  A name is compared with the list, not with what is shown.
Rename(n) ==
    /\ editing # None /\ n # list[editing].name
    /\ ops < MaxOps /\ ops' = ops + 1
    /\ optimistic' = [optimistic EXCEPT ![editing] = n]
    /\ renames' = renames \cup {[sheet |-> editing, name |-> n, pc |-> "sent"]}
    /\ editing' = None
    /\ Untouched /\ UNCHANGED <<confirm, faults>>

ServeRename(r) ==
    /\ r \in renames /\ r.pc = "sent"
    /\ row' = [row EXCEPT ![r.sheet] = [name |-> r.name, source |-> "manual"]]
    /\ overtaken' = IF optimistic[r.sheet] \in {None, r.name} THEN overtaken \ {r.sheet}
                                                             ELSE overtaken \cup {r.sheet}
    /\ clock' = clock + 1
    /\ renames' = (renames \ {r}) \cup {[r EXCEPT !.pc = "ok"]}
    /\ UNCHANGED <<task, event, list, optimistic, editing, confirm, loads, naming, seen, bounds>>

RenameOk(r) ==
    /\ r \in renames /\ r.pc = "ok"
    /\ renames' = renames \ {r}
    /\ Ask(<<"rename", 0>>)
    /\ UNCHANGED <<server, list, optimistic, editing, confirm, naming, history, bounds>>

RenameFailsQuietly(r) ==          \* seeded defect: the optimistic name stays
    /\ r \in renames /\ r.pc = "sent"
    /\ Faulty
    /\ renames' = renames \ {r}
    /\ editing' = r.sheet
    /\ Untouched /\ UNCHANGED <<optimistic, confirm, ops>>

\* The override goes and the editor opens again, whatever is edited by then.
RenameFails(r) ==
    /\ r \in renames /\ r.pc = "sent"
    /\ Faulty
    /\ renames' = renames \ {r}
    /\ optimistic' = [optimistic EXCEPT ![r.sheet] = None]
    /\ editing' = r.sheet
    /\ Untouched /\ UNCHANGED <<confirm, ops>>

-----------------------------------------------------------------------------
(* The button.                                                             *)

ByHand == \E s \in Sheets : list[s].source = "manual"
In(k, pc) == loop[k].pc = pc
Goto(k, pc) == loop' = [loop EXCEPT ![k].pc = pc]
Unnamed == UNCHANGED <<row, clock, list, optimistic, editing, renames, history>>

\* Names typed by hand ask for a confirmation first.
Click ==
    /\ ~spinner /\ ~confirm /\ ByHand
    /\ confirm' = TRUE
    /\ Untouched /\ UNCHANGED <<optimistic, editing, renames, bounds>>

CancelConfirm ==
    /\ confirm
    /\ confirm' = FALSE
    /\ Untouched /\ UNCHANGED <<optimistic, editing, renames, bounds>>

\* The clicks are used in order; the confirmation may overwrite.
AutoName(k, overwrite) ==
    /\ ~spinner
    /\ \A j \in Clicks : j < k <=> task[j] # None
    /\ ops < MaxOps /\ ops' = ops + 1
    /\ confirm \/ (~overwrite /\ ~ByHand)
    /\ confirm' = FALSE
    /\ spinner' = TRUE
    /\ loop' = [loop EXCEPT ![k] = [pc |-> "post", before |-> list, late |-> FALSE]]
    /\ task' = [task EXCEPT ![k] = IF overwrite THEN "all" ELSE "queued"]
    /\ Unnamed /\ UNCHANGED <<event, loads, flags, faults>>

\* Accepted: the flag of the loops is lowered, for a loop that sleeps as well.
Posted(k) ==
    /\ In(k, "post")
    /\ abort' = FALSE /\ pending' = TRUE /\ finish' = k
    /\ Goto(k, "poll") /\ Ask(<<"poll", k>>)
    /\ Unnamed /\ UNCHANGED <<task, event, confirm, spinner, bounds>>

\* Refused; or accepted and the answer lost.
PostFails(k) ==
    /\ In(k, "post") /\ Faulty
    /\ task' \in {task, [task EXCEPT ![k] = "done"]}
    /\ spinner' = FALSE
    /\ Goto(k, "idle")
    /\ Unnamed /\ UNCHANGED <<event, loads, confirm, flags, ops>>

\* finishSuccess of click k, and giving up: once, then a last refresh.
Finish(k, others) ==
    IF abort
      THEN loads' = others /\ UNCHANGED flags
      ELSE /\ abort' = TRUE /\ pending' = FALSE /\ finish' = 0
           /\ loads' = others \cup {Load(<<"close", k>>)}

\* The handler compares what it was given, or what is listed, with the names before.
Polled(k, l) ==
    /\ l \in loads /\ l.by = <<"poll", k>>
    /\ Refreshed(l)
    /\ IF list' # loop[k].before
         THEN Finish(k, loads \ {l}) /\ Goto(k, "idle")
         ELSE /\ loads' = loads \ {l} /\ UNCHANGED flags
              /\ Goto(k, IF abort THEN "idle" ELSE "sleep")
    /\ UNCHANGED <<server, editing, confirm, renames, spinner, overtaken, ops>>

\* Two minutes are over.
Deadline(k) ==
    /\ loop[k].pc \in {"poll", "sleep"} /\ ~loop[k].late
    /\ loop' = [loop EXCEPT ![k].late = TRUE]
    /\ UNCHANGED <<server, list, strip, loads, spinner, flags, history, bounds>>

GivesUpLoudly(k) ==               \* seeded defect: the warning, and the spinner is forgotten
    /\ In(k, "sleep") /\ loop[k].late
    /\ Goto(k, "idle")
    /\ IF pending THEN abort' = TRUE /\ pending' = FALSE /\ finish' = 0 ELSE UNCHANGED flags
    /\ Unnamed /\ UNCHANGED <<task, event, confirm, loads, spinner, bounds>>

\* Nobody finished: a last refresh and a warning.
GivesUp(k) ==
    /\ In(k, "sleep") /\ loop[k].late
    /\ Goto(k, "idle")
    /\ IF pending THEN Finish(k, loads) ELSE UNCHANGED <<flags, loads>>
    /\ Unnamed /\ UNCHANGED <<task, event, confirm, spinner, bounds>>

Wakes(k) ==
    /\ In(k, "sleep") /\ ~loop[k].late
    /\ IF abort THEN Goto(k, "idle") /\ UNCHANGED loads
                ELSE Goto(k, "poll") /\ Ask(<<"poll", k>>)
    /\ Unnamed /\ UNCHANGED <<task, event, confirm, spinner, flags, bounds>>

\* The last refresh is there, or failed: the spinner ends.
Closes(k, l) ==
    /\ l \in loads /\ l.by = <<"close", k>>
    /\ loads' = loads \ {l}
    /\ Refreshed(l)
    /\ spinner' = FALSE
    /\ UNCHANGED <<server, editing, confirm, renames, flags, loop, overtaken, ops>>

-----------------------------------------------------------------------------
(* The task, its event and the refreshes they and renames ask for.         *)

\* Names typed by hand are skipped unless the click said otherwise.
TaskNames(k) ==
    /\ task[k] \in {"queued", "all"}
    /\ LET named == {s \in Sheets : task[k] = "all" \/ row[s].source # "manual"}
       IN /\ row' = [s \in Sheets |-> IF s \in named THEN [name |-> Auto, source |-> "auto"] ELSE row[s]]
          /\ overtaken' = overtaken \cup {s \in named : optimistic[s] # None}
    /\ clock' = clock + 1
    /\ task' = [task EXCEPT ![k] = "done"]
    /\ event' = event + 1
    /\ UNCHANGED <<list, strip, loads, naming, seen, bounds>>

EventArrives ==
    /\ event > 0
    /\ event' = event - 1
    /\ \/ Ask(<<"event", 0>>) /\ UNCHANGED <<seen, faults>>
       \/ Faulty /\ seen' = [seen EXCEPT !.missed = TRUE] /\ UNCHANGED loads
    /\ UNCHANGED <<row, clock, task, list, strip, naming, overtaken, ops>>

\* Refreshed, or not, the click that waits is finished.
EventHandled(l) ==
    /\ l \in loads /\ l.by = <<"event", 0>>
    /\ Refreshed(l)
    /\ IF pending THEN Finish(finish, loads \ {l}) ELSE loads' = loads \ {l} /\ UNCHANGED flags
    /\ UNCHANGED <<server, editing, confirm, renames, spinner, loop, overtaken, ops>>

Renamed(l) ==
    /\ l \in loads /\ l.by = <<"rename", 0>>
    /\ loads' = loads \ {l}
    /\ Refreshed(l)
    /\ UNCHANGED <<server, editing, confirm, renames, naming, overtaken, ops>>

-----------------------------------------------------------------------------
Init ==
    /\ row = [s \in Sheets |-> [name |-> None, source |-> None]] /\ list = row
    /\ clock = 0 /\ task = [k \in Clicks |-> None] /\ event = 0
    /\ optimistic = [s \in Sheets |-> None] /\ editing = None /\ confirm = FALSE
    /\ renames = {} /\ loads = {}
    /\ spinner = FALSE /\ abort = FALSE /\ pending = FALSE /\ finish = 0
    /\ loop = [k \in Clicks |-> [pc |-> "idle", before |-> row, late |-> FALSE]]
    /\ seen = [at |-> 0, inOrder |-> TRUE, missed |-> FALSE] /\ overtaken = {}
    /\ ops = 0 /\ faults = 0

Handler(k) ==
    \/ Posted(k) \/ PostFails(k) \/ Deadline(k) \/ Wakes(k) \/ GivesUp(k)
    \/ \E l \in loads : Polled(k, l) \/ Closes(k, l)

Next ==
    \/ \E s \in Sheets : StartEdit(s)
    \/ CancelEdit
    \/ \E n \in Manual : Rename(n)
    \/ \E r \in renames : ServeRename(r) \/ RenameOk(r) \/ RenameFails(r)
    \/ Click \/ CancelConfirm
    \/ \E k \in Clicks, o \in BOOLEAN : AutoName(k, o)
    \/ \E k \in Clicks : Handler(k) \/ TaskNames(k)
    \/ EventArrives
    \/ \E l \in loads : EventHandled(l) \/ Renamed(l)

Spec == Init /\ [][Next]_vars

-----------------------------------------------------------------------------
Shown(s) == IF optimistic[s] # None THEN optimistic[s] ELSE list[s].name
Quiet == renames = {} /\ loads = {} /\ event = 0

\* When nothing is under way and no refresh was missed or answered out of
\* order, the strip shows the names the server has: a failed rename takes its
\* optimistic value back, the others give way to the list (sheet-index.tsx:204).
NamesShown ==
    Quiet /\ seen.inOrder /\ ~seen.missed =>
        \A s \in Sheets : Shown(s) = row[s].name \/ s \in overtaken

\* While the button spins somebody will end it: a request, a loop with the
\* flag lowered or a last refresh; and no last refresh outlives the spinner,
\* or it would end the spinner of the next click.
SpinnerHasItsEnd ==
    /\ spinner =>
       \/ \E k \in Clicks : In(k, "post")
       \/ ~abort /\ \E k \in Clicks : ~In(k, "idle")
       \/ \E l \in loads : l.by[1] = "close"
    /\ Cardinality({l \in loads : l.by[1] = "close"}) <= IF spinner THEN 1 ELSE 0
=============================================================================
