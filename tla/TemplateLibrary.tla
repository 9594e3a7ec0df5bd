-------------------------- MODULE TemplateLibrary --------------------------
(***************************************************************************)
(* The library of condition templates: a list that is read again after     *)
(* every change, a dialog that edits one template and one that asks before *)
(* a template is deleted.                                                  *)
(*                                                                         *)
(* Both dialogs can be left while their request is under way, and opened   *)
(* for another template before it is answered.                             *)
(***************************************************************************)
EXTENDS Integers, FiniteSets

CONSTANTS
    Templates,
    MaxOps,      \* bound: dialogs opened and reads asked for by the user
    MaxFaults    \* bound: requests that fail or whose answer is lost

VARIABLES
    version,           \* server: version of each template, 0 once deleted
    list,              \* templates: the versions shown
    loading, refreshing, failed, reads,  \* the flags, and the reads of the list in flight
    editing, fetching, form, gets,       \* the edit dialog: its template, its flag, its form
    saving, saves,
    target, deleting, deletes,           \* the delete dialog
    crossed,           \* history: a read for another template was in flight when the dialog opened
    seen,              \* history: newest list shown, and whether the last answer was the newest
    untold,            \* history: templates changed by a request that reported an error
    ops, faults

library == <<list, loading, refreshing, failed, reads>>
dialog  == <<editing, fetching, form, gets>>
removal == <<target, deleting, deletes>>
vars == <<version, library, dialog, saving, saves, removal, crossed, seen, untold, ops, faults>>

None == "none"
NoForm == [of |-> None, valid |-> FALSE]
Versions == [Templates -> 0..MaxOps + MaxFaults + 1]
Live == {t \in Templates : version[t] > 0}

TypeOK ==
    /\ version \in Versions /\ list \in Versions
    /\ {loading, refreshing, failed, fetching, saving, deleting, crossed} \subseteq BOOLEAN
    /\ reads \subseteq [n : Nat, silent : BOOLEAN, after : {None, "delete"}, rows : Versions]
    /\ {editing, target} \subseteq Templates \cup {None}
    /\ form \in [of : Templates \cup {None}, valid : BOOLEAN]
    /\ gets \subseteq [of : Templates, n : 0..MaxOps]
    /\ saves \subseteq [to : Templates, from : Templates, crossed : BOOLEAN, pc : {"sent", "ok"}]
    /\ deletes \subseteq [of : Templates, pc : {"sent", "ok"}]
    /\ seen \in [n : Nat, inOrder : BOOLEAN] /\ untold \subseteq Templates
    /\ ops \in 0..MaxOps /\ faults \in 0..MaxFaults

Op == ops < MaxOps /\ ops' = ops + 1
Fault == faults < MaxFaults /\ faults' = faults + 1

-----------------------------------------------------------------------------
(* The list.                                                               *)

Newest == CHOOSE n \in {seen.n} \cup {r.n : r \in reads} : n >= seen.n /\ \A r \in reads : n >= r.n

\* loadTemplates: the server reads the rows when it is asked or just before it answers.
Load(silent, after) ==
    /\ reads' = reads \cup {[n |-> Newest + 1, silent |-> silent, after |-> after, rows |-> version']}
    /\ loading' = (loading \/ ~silent) /\ refreshing' = (refreshing \/ silent) /\ failed' = FALSE

\* The reload of a deletion ends the deletion.
ListEnds(r, ok) ==
    /\ reads' = reads \ {r}
    /\ seen' = [n |-> IF r.n > seen.n THEN r.n ELSE seen.n, inOrder |-> ok /\ r.n > seen.n]
    /\ loading' = (loading /\ r.silent) /\ refreshing' = (refreshing /\ ~r.silent)
    /\ deleting' = (deleting /\ r.after # "delete")
    /\ UNCHANGED <<version, dialog, saving, saves, target, deletes, crossed, untold, ops>>

ListArrives(r) ==
    /\ r \in reads
    /\ list' \in {r.rows, version}
    /\ ListEnds(r, TRUE)
    /\ UNCHANGED <<failed, faults>>

ListFails(r) ==
    /\ r \in reads /\ Fault
    /\ list' = [t \in Templates |-> 0] /\ failed' = TRUE
    /\ ListEnds(r, FALSE)

Shown == {t \in Templates : list[t] > 0}
Modal == editing # None \/ target # None

Refresh ==
    /\ ~loading /\ ~refreshing /\ ~Modal /\ Op
    /\ UNCHANGED version
    /\ Load(Shown # {}, None)
    /\ UNCHANGED <<list, dialog, saving, saves, removal, crossed, seen, untold, faults>>

Dismiss ==
    /\ failed /\ ~Modal /\ failed' = FALSE
    /\ UNCHANGED <<version, list, loading, refreshing, reads, dialog, saving, saves, removal, crossed, seen, untold, ops, faults>>

-----------------------------------------------------------------------------
(* The edit dialog.                                                        *)

Quiet == UNCHANGED <<version, library, removal, seen, untold>>

OpenEditUnmarked(t) ==              \* seeded defect: the form is shown while it is read
    /\ t \in Shown /\ ~Modal /\ Op
    /\ editing' = t
    /\ gets' = gets \cup {[of |-> t, n |-> ops]}
    /\ crossed' = (\E g \in gets : g.of # t)
    /\ UNCHANGED <<form, fetching, saving, saves, faults>> /\ Quiet

OpenEdit(t) ==
    /\ t \in Shown /\ ~Modal /\ Op
    /\ editing' = t /\ fetching' = TRUE
    /\ gets' = gets \cup {[of |-> t, n |-> ops]}
    /\ crossed' = (\E g \in gets : g.of # t)
    /\ UNCHANGED <<form, saving, saves, faults>> /\ Quiet

CloseEdit ==
    /\ editing # None /\ editing' = None /\ form' = NoForm
    /\ UNCHANGED <<fetching, gets, saving, saves, crossed, ops, faults>> /\ Quiet

\* Whatever template it was asked for, it fills the form.
Filled(g) ==
    /\ g \in gets /\ g.of \in Live /\ gets' = gets \ {g}
    /\ form' = [of |-> g.of, valid |-> TRUE] /\ fetching' = FALSE
    /\ UNCHANGED <<editing, saving, saves, crossed, ops, faults>> /\ Quiet

NotFilled(g) ==
    /\ g \in gets /\ gets' = gets \ {g}
    /\ IF g.of \in Live THEN Fault ELSE UNCHANGED faults
    /\ form' = NoForm /\ fetching' = FALSE
    /\ UNCHANGED <<editing, saving, saves, crossed, ops>> /\ Quiet

Fields == editing # None /\ form # NoForm /\ ~fetching

\* A field, or a line of the assembly added, changed or removed.
Edit ==
    /\ Fields /\ form' = [form EXCEPT !.valid = ~@]
    /\ UNCHANGED <<editing, fetching, gets, saving, saves, crossed, ops, faults>> /\ Quiet

\* An invalid form is not sent.
Save ==
    /\ Fields /\ ~saving /\ form.valid
    /\ saving' = TRUE
    /\ saves' = saves \cup {[to |-> editing, from |-> form.of, crossed |-> crossed, pc |-> "sent"]}
    /\ UNCHANGED <<dialog, crossed, ops, faults>> /\ Quiet

ServeSave(s) ==
    /\ s \in saves /\ s.pc = "sent" /\ s.to \in Live
    /\ version' = [version EXCEPT ![s.to] = @ + 1]
    /\ saves' = (saves \ {s}) \cup {[s EXCEPT !.pc = "ok"]}
    /\ UNCHANGED <<library, dialog, saving, removal, crossed, seen, untold, ops, faults>>

SavedQuietly(s) ==                  \* seeded defect: the page is not told
    /\ s \in saves /\ s.pc = "ok" /\ saves' = saves \ {s} /\ saving' = FALSE
    /\ editing' = None /\ form' = NoForm
    /\ UNCHANGED <<version, library, fetching, gets, removal, crossed, seen, untold, ops, faults>>

\* The dialog closes, whichever template it is open for by now.
Saved(s) ==
    /\ s \in saves /\ s.pc = "ok" /\ saves' = saves \ {s} /\ saving' = FALSE
    /\ editing' = None /\ form' = IF editing = None THEN form ELSE NoForm
    /\ UNCHANGED version
    /\ Load(TRUE, None)
    /\ UNCHANGED <<list, fetching, gets, removal, crossed, seen, untold, ops, faults>>

SaveFails(s) ==
    /\ s \in saves /\ saves' = saves \ {s} /\ saving' = FALSE
    /\ IF s.pc = "ok" \/ s.to \in Live THEN Fault ELSE UNCHANGED faults
    /\ untold' = IF s.pc = "ok" THEN untold \cup {s.to} ELSE untold
    /\ UNCHANGED <<version, library, dialog, removal, crossed, seen, ops>>

-----------------------------------------------------------------------------
(* The question before a deletion.                                         *)

Calm == UNCHANGED <<dialog, saving, saves, crossed>>

AskDelete(t) ==
    /\ t \in Shown /\ ~Modal /\ Op /\ target' = t
    /\ UNCHANGED <<version, library, deleting, deletes, seen, untold, faults>> /\ Calm

CancelDelete ==
    /\ target # None /\ target' = None
    /\ UNCHANGED <<version, library, deleting, deletes, seen, untold, ops, faults>> /\ Calm

ConfirmDelete ==
    /\ target # None /\ ~deleting /\ deleting' = TRUE
    /\ deletes' = deletes \cup {[of |-> target, pc |-> "sent"]}
    /\ UNCHANGED <<version, library, target, seen, untold, ops, faults>> /\ Calm

ServeDelete(d) ==
    /\ d \in deletes /\ d.pc = "sent" /\ d.of \in Live
    /\ version' = [version EXCEPT ![d.of] = 0]
    /\ deletes' = (deletes \ {d}) \cup {[d EXCEPT !.pc = "ok"]}
    /\ UNCHANGED <<library, target, deleting, seen, untold, ops, faults>> /\ Calm

\* The dialog closes, whichever template it asks about by now.
Deleted(d) ==
    /\ d \in deletes /\ d.pc = "ok" /\ deletes' = deletes \ {d} /\ target' = None
    /\ UNCHANGED version
    /\ Load(TRUE, "delete")
    /\ UNCHANGED <<list, deleting, seen, untold, ops, faults>> /\ Calm

DeleteFails(d) ==
    /\ d \in deletes /\ deletes' = deletes \ {d} /\ deleting' = FALSE /\ failed' = TRUE
    /\ IF d.pc = "ok" \/ d.of \in Live THEN Fault ELSE UNCHANGED faults
    /\ untold' = IF d.pc = "ok" THEN untold \cup {d.of} ELSE untold
    /\ UNCHANGED <<version, list, loading, refreshing, reads, target, seen, ops>> /\ Calm

-----------------------------------------------------------------------------
Init ==
    /\ version = [t \in Templates |-> 1] /\ list = [t \in Templates |-> 0]
    /\ loading = TRUE /\ refreshing = FALSE /\ failed = FALSE
    /\ reads = {[n |-> 1, silent |-> FALSE, after |-> None, rows |-> version]}
    /\ editing = None /\ fetching = FALSE /\ form = NoForm /\ gets = {}
    /\ saving = FALSE /\ saves = {}
    /\ target = None /\ deleting = FALSE /\ deletes = {}
    /\ crossed = FALSE /\ seen = [n |-> 0, inOrder |-> TRUE] /\ untold = {}
    /\ ops = 0 /\ faults = 0

Next ==
    \/ \E r \in reads : ListArrives(r) \/ ListFails(r)
    \/ Refresh \/ Dismiss
    \/ \E t \in Templates : OpenEdit(t) \/ AskDelete(t)
    \/ CloseEdit \/ Edit \/ Save
    \/ \E g \in gets : Filled(g) \/ NotFilled(g)
    \/ \E s \in saves : ServeSave(s) \/ Saved(s) \/ SaveFails(s)
    \/ CancelDelete \/ ConfirmDelete
    \/ \E d \in deletes : ServeDelete(d) \/ Deleted(d) \/ DeleteFails(d)

Spec == Init /\ [][Next]_vars

-----------------------------------------------------------------------------
\* What is saved to a template was filled from that template.  Excepted is a dialog
\* opened while the read of another template was under way.
SavedWhereFilled == \A s \in saves : s.from = s.to \/ s.crossed

\* When nothing is under way the list is the library's.  Excepted are a last answer
\* that failed or was overtaken, and changes that reported an error.
ListIsLibrary ==
    reads = {} /\ saves = {} /\ deletes = {} /\ seen.inOrder =>
        \A t \in Templates \ untold : list[t] = version[t]

\* A flag that disables a button has a request that will clear it.
FlagsHaveCalls ==
    /\ loading => \E r \in reads : ~r.silent
    /\ refreshing => \E r \in reads : r.silent
    /\ fetching => gets # {}
    /\ saving = (saves # {})
    /\ deleting => deletes # {} \/ \E r \in reads : r.after = "delete"

TemplatesAreRight == SavedWhereFilled /\ ListIsLibrary /\ FlagsHaveCalls
=============================================================================
