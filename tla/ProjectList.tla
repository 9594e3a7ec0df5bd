---------------------------- MODULE ProjectList -----------------------------
(***************************************************************************)
(* The page of the projects: a list read through one shared query and the  *)
(* dialogs that create, edit and delete a project.                         *)
(*                                                                         *)
(* A creation is up to four requests: the project, its cover, a removal if *)
(* the cover is refused, and its first plan.  Every dialog can be left     *)
(* with its requests under way and opened again before they are answered.  *)
(* The page may stay after a creation has told the router to leave it.     *)
(***************************************************************************)
EXTENDS Integers, FiniteSets

CONSTANTS
    MaxId,       \* bound: projects ever created; the first two are there from the start
    MaxOps,      \* bound: submissions and questions
    MaxFaults    \* bound: requests that fail or whose answer is lost

VARIABLES
    exists, rev, bare,            \* server: the projects, their versions, those without a cover
    loaded, listed, shown, fetch, snap, \* the query, as in ConditionPanel
    newOpen, submitting, creations, \* the new project's dialog
    editing, saving, edits, \* the edit dialog
    target, confirmName, busy, deletes,     \* the delete dialog
    typedHere,   \* history: the name was typed since the dialog was opened
    kept, untold, behind,         \* history: removals that failed; changes nobody was told of; the last read is not the newest
    ops, faults

server == <<exists, rev, bare>>
query  == <<loaded, listed, shown, fetch, snap, behind>>
creation == <<newOpen, submitting, creations>>
edition  == <<editing, saving, edits>>
deletion == <<target, confirmName, busy, deletes, typedHere>>
vars == <<server, query, creation, edition, deletion, kept, untold, ops, faults>>

Ids == 1..MaxId
None == 0
Revs == [Ids -> 0..MaxOps + 1]
NoSnap == [ids |-> {}, rev |-> [p \in Ids |-> 0]]

TypeOK ==
    /\ exists \subseteq Ids /\ rev \in Revs /\ bare \subseteq exists
    /\ loaded \in BOOLEAN /\ listed \subseteq Ids /\ shown \in Revs
    /\ fetch \in {"idle", "asked", "read"} /\ snap.ids \subseteq Ids /\ snap.rev \in Revs
    /\ creations \subseteq [n : 1..MaxOps, id : Ids \cup {None}, plan : BOOLEAN,
                            step : {"post", "cover", "undo", "plan"}, served : BOOLEAN]
    /\ {editing, target, confirmName} \subseteq Ids \cup {None}
    /\ edits \subseteq [of : Ids, cover : BOOLEAN, step : {"patch", "cover"}, rev : 0..MaxOps + 1, served : BOOLEAN]
    /\ deletes \subseteq [of : Ids, pc : {"sent", "ok", "reloading", "done"}]
    /\ {newOpen, submitting, saving, busy, typedHere, behind} \subseteq BOOLEAN
    /\ kept \subseteq Ids /\ untold \subseteq Ids
    /\ ops \in 0..MaxOps /\ faults \in 0..MaxFaults

Op == ops < MaxOps /\ ops' = ops + 1
Fault == faults < MaxFaults /\ faults' = faults + 1

-----------------------------------------------------------------------------
(* The list.                                                               *)

Settled(ds) == {IF d.pc = "reloading" THEN [d EXCEPT !.pc = "done"] ELSE d : d \in ds}

\* A read cancels the one under way and frees whoever waits for it, unless there is no data yet.
refresh ==
    /\ fetch' = IF loaded \/ fetch = "idle" THEN "asked" ELSE fetch
    /\ snap' = IF loaded THEN NoSnap ELSE snap
    /\ behind' = (~loaded /\ fetch = "read")

fetchProjects ==
    /\ fetch = "asked" /\ fetch' = "read"
    /\ snap' = [ids |-> exists, rev |-> rev]
    /\ UNCHANGED <<server, loaded, listed, shown, behind, creation, edition, deletion, kept, untold, ops, faults>>

Land ==
    /\ fetch = "read" /\ fetch' = "idle" /\ snap' = NoSnap
    /\ loaded' = TRUE /\ listed' = snap.ids /\ shown' = snap.rev /\ behind' = (behind /\ ~loaded)
    /\ deletes' = Settled(deletes)
    /\ UNCHANGED <<server, creation, edition, target, confirmName, busy, typedHere, kept, untold, ops, faults>>

LoadFails ==
    /\ fetch # "idle" /\ fetch' = "idle" /\ snap' = NoSnap /\ Fault
    /\ behind' = TRUE /\ deletes' = Settled(deletes)
    /\ UNCHANGED <<server, loaded, listed, shown, creation, edition, target, confirmName, busy, typedHere, kept, untold, ops>>

Modal == newOpen \/ editing # None \/ target # None

-----------------------------------------------------------------------------
(* A new project.                                                          *)

OpenNew ==
    /\ ~Modal /\ newOpen' = TRUE
    /\ UNCHANGED <<server, query, submitting, creations, edition, deletion, kept, untold, ops, faults>>

\* Escape, a press outside or Cancel; what was sent goes on.
CloseNew ==
    /\ newOpen /\ newOpen' = FALSE /\ submitting' = FALSE
    /\ UNCHANGED <<server, query, creations, edition, deletion, kept, untold, ops, faults>>

SubmitNew(plan) ==
    /\ newOpen /\ ~submitting /\ Op /\ submitting' = TRUE
    /\ creations' = creations \cup
          {[n |-> ops + 1, id |-> None, plan |-> plan, step |-> "post", served |-> FALSE]}
    /\ UNCHANGED <<server, query, newOpen, edition, deletion, kept, untold, faults>>

ServeCreation(c) ==
    /\ c \in creations /\ ~c.served
    /\ \E id \in Ids :
          /\ IF c.step = "post" THEN id \notin exists /\ rev[id] = 0 /\ (\A i \in Ids : i < id => rev[i] > 0)
             ELSE id = c.id /\ id \in exists
          /\ creations' = (creations \ {c}) \cup {[c EXCEPT !.id = id, !.served = TRUE]}
          /\ rev' = IF c.step = "post" THEN [rev EXCEPT ![id] = 1] ELSE rev
          /\ exists' = CASE c.step = "post" -> exists \cup {id}
                         [] c.step = "undo" -> exists \ {id}
                         [] c.step \in {"cover", "plan"} -> exists
          /\ bare' = IF c.step = "post" THEN bare \cup {id} ELSE bare \ {id}
    /\ UNCHANGED <<query, newOpen, submitting, edition, deletion, kept, untold, ops, faults>>

Steps(c, step) == creations' = (creations \ {c}) \cup {[c EXCEPT !.step = step, !.served = FALSE]}

\* With the last answer the dialog closes, whichever attempt it is open for, and the list is read.
CreationGoesOn(c) ==
    /\ c \in creations /\ c.served
    /\ \/ c.step = "post" /\ Steps(c, "cover") /\ UNCHANGED <<newOpen, submitting, query, deletes>>
       \/ c.step = "cover" /\ c.plan /\ Steps(c, "plan") /\ UNCHANGED <<newOpen, submitting, query, deletes>>
       \/ /\ c.step = "undo" /\ creations' = creations \ {c} /\ submitting' = FALSE
          /\ UNCHANGED <<newOpen, query, deletes>>
       \/ /\ c.step = "plan" \/ (c.step = "cover" /\ ~c.plan)
          /\ creations' = creations \ {c} /\ newOpen' = FALSE /\ submitting' = FALSE
          /\ refresh /\ deletes' = Settled(deletes) /\ UNCHANGED <<loaded, listed, shown>>
    /\ UNCHANGED <<server, edition, target, confirmName, busy, typedHere, kept, untold, ops, faults>>

Refused(c) == ~c.served /\ c.step # "post" /\ c.id \notin exists

CoverKept(c) ==                     \* seeded defect: without its cover the project stays
    /\ c \in creations /\ IF Refused(c) THEN UNCHANGED faults ELSE Fault
    /\ creations' = creations \ {c} /\ submitting' = FALSE
    /\ kept' = IF c.step \in {"post", "undo"} THEN kept \cup ({c.id} \ {None}) ELSE kept
    /\ untold' = untold \cup ({c.id} \ {None})
    /\ UNCHANGED <<server, query, newOpen, edition, deletion, ops>>

\* A cover that fails is followed by the removal of the project, once; every other
\* failure ends the creation and leaves what it has made.
CreationFails(c) ==
    /\ c \in creations /\ IF Refused(c) THEN UNCHANGED faults ELSE Fault
    /\ IF c.step = "cover" THEN Steps(c, "undo") /\ UNCHANGED submitting
       ELSE creations' = creations \ {c} /\ submitting' = FALSE
    /\ kept' = IF c.step \in {"post", "undo"} THEN kept \cup ({c.id} \ {None}) ELSE kept
    /\ untold' = untold \cup ({c.id} \ {None})
    /\ UNCHANGED <<server, query, newOpen, edition, deletion, ops>>

-----------------------------------------------------------------------------
(* A project's name, description and cover.                                *)

\* Opened for a project, the form is filled from the list and may be sent.
OpenEdit(p) ==
    /\ p \in listed /\ ~Modal /\ editing' = p
    /\ saving' = FALSE
    /\ UNCHANGED <<server, query, creation, edits, deletion, kept, untold, ops, faults>>

CloseEdit ==
    /\ editing # None /\ editing' = None
    /\ UNCHANGED <<server, query, creation, saving, edits, deletion, kept, untold, ops, faults>>

SubmitEdit(cover) ==
    /\ editing # None /\ ~saving /\ Op /\ saving' = TRUE
    /\ edits' = edits \cup {[of |-> editing, cover |-> cover, step |-> "patch", rev |-> 0, served |-> FALSE]}
    /\ UNCHANGED <<server, query, creation, editing, deletion, kept, untold, faults>>

ServeEdit(e) ==
    /\ e \in edits /\ ~e.served /\ e.of \in exists
    /\ rev' = [rev EXCEPT ![e.of] = IF e.step = "patch" THEN @ + 1 ELSE @]
    /\ edits' = (edits \ {e}) \cup {[e EXCEPT !.served = TRUE, !.rev = rev'[e.of]]}
    /\ bare' = IF e.step = "cover" THEN bare \ {e.of} ELSE bare
    /\ UNCHANGED <<exists, query, creation, editing, saving, deletion, kept, untold, ops, faults>>

\* The list takes the answer, is read again, and the dialog closes whichever project it shows.
EditGoesOn(e) ==
    /\ e \in edits /\ e.served
    /\ IF e.step = "patch" /\ e.cover
       THEN /\ edits' = (edits \ {e}) \cup {[e EXCEPT !.step = "cover", !.served = FALSE]}
            /\ UNCHANGED <<query, editing, saving, deletes>>
       ELSE /\ edits' = edits \ {e} /\ editing' = None /\ saving' = FALSE
            /\ shown' = IF e.of \in listed THEN [shown EXCEPT ![e.of] = e.rev] ELSE shown
            /\ refresh /\ deletes' = Settled(deletes) /\ UNCHANGED <<loaded, listed>>
    /\ UNCHANGED <<server, creation, target, confirmName, busy, typedHere, kept, untold, ops, faults>>

EditFails(e) ==
    /\ e \in edits /\ edits' = edits \ {e} /\ saving' = FALSE
    /\ IF ~e.served /\ e.of \notin exists THEN UNCHANGED faults ELSE Fault
    /\ untold' = untold \cup {e.of}
    /\ UNCHANGED <<server, query, creation, editing, deletion, kept, ops>>

-----------------------------------------------------------------------------
(* A project's removal.                                                    *)

TargetAlone(p) ==                   \* seeded defect: the name typed is not forgotten
    target' = p /\ typedHere' = FALSE /\ UNCHANGED confirmName

\* The name typed is forgotten whenever the dialog changes project, and so when it opens or closes.
Target(p) == target' = p /\ confirmName' = None /\ typedHere' = FALSE

AskDelete(p) ==
    /\ p \in listed /\ ~Modal /\ Op /\ Target(p)
    /\ UNCHANGED <<server, query, creation, edition, busy, deletes, kept, untold, faults>>

Keep ==
    /\ target # None /\ Target(None)
    /\ UNCHANGED <<server, query, creation, edition, busy, deletes, kept, untold, ops, faults>>

TypeName ==
    /\ target # None /\ ~busy /\ confirmName' = target /\ typedHere' = TRUE
    /\ UNCHANGED <<server, query, creation, edition, target, busy, deletes, kept, untold, ops, faults>>

handleDelete ==
    /\ target # None /\ ~busy /\ confirmName = target /\ busy' = TRUE
    /\ deletes' = deletes \cup {[of |-> target, pc |-> "sent"]}
    /\ typedHere' = typedHere
    /\ UNCHANGED <<server, query, creation, edition, target, confirmName, kept, untold, ops, faults>>

ServeDelete(d) ==
    /\ d \in deletes /\ d.pc = "sent" /\ d.of \in exists
    /\ exists' = exists \ {d.of} /\ bare' = bare \ {d.of}
    /\ deletes' = (deletes \ {d}) \cup {[d EXCEPT !.pc = "ok"]}
    /\ UNCHANGED <<rev, query, creation, edition, target, confirmName, busy, typedHere, kept, untold, ops, faults>>

DeletedQuietly(d) ==                \* seeded defect: the list is not read again
    /\ d \in deletes /\ d.pc = "ok"
    /\ deletes' = (deletes \ {d}) \cup {[d EXCEPT !.pc = "done"]}
    /\ UNCHANGED <<server, query, creation, edition, target, confirmName, busy, typedHere, kept, untold, ops, faults>>

Deleted(d) ==
    /\ d \in deletes /\ d.pc = "ok" /\ refresh
    /\ deletes' = Settled(deletes \ {d}) \cup {[d EXCEPT !.pc = "reloading"]}
    /\ UNCHANGED <<server, loaded, listed, shown, creation, edition, target, confirmName, busy, typedHere, kept, untold, ops, faults>>

\* The dialog closes, whichever project it asks about by now.
DeleteEnds(d) ==
    /\ d \in deletes /\ d.pc = "done"
    /\ deletes' = deletes \ {d} /\ busy' = FALSE /\ Target(None)
    /\ UNCHANGED <<server, query, creation, edition, kept, untold, ops, faults>>

DeleteFails(d) ==
    /\ d \in deletes /\ d.pc \in {"sent", "ok"}
    /\ IF d.of \in exists \/ d.pc = "ok" THEN Fault ELSE UNCHANGED faults
    /\ deletes' = deletes \ {d} /\ busy' = FALSE /\ untold' = untold \cup {d.of}
    /\ UNCHANGED <<server, query, creation, edition, target, confirmName, typedHere, kept, ops>>

-----------------------------------------------------------------------------
Init ==
    /\ exists = {1, 2} /\ rev = [p \in Ids |-> IF p <= 2 THEN 1 ELSE 0] /\ bare = {}
    /\ loaded = FALSE /\ listed = {} /\ shown = [p \in Ids |-> 0]
    /\ fetch = "asked" /\ snap = NoSnap /\ behind = FALSE
    /\ newOpen = FALSE /\ submitting = FALSE /\ creations = {}
    /\ editing = None /\ saving = FALSE /\ edits = {}
    /\ target = None /\ confirmName = None /\ busy = FALSE /\ deletes = {} /\ typedHere = FALSE
    /\ kept = {} /\ untold = {} /\ ops = 0 /\ faults = 0

Next ==
    \/ fetchProjects \/ Land \/ LoadFails
    \/ OpenNew \/ CloseNew \/ (\E plan \in BOOLEAN : SubmitNew(plan))
    \/ \E c \in creations : ServeCreation(c) \/ CreationGoesOn(c) \/ CreationFails(c)
    \/ \E p \in listed : OpenEdit(p) \/ AskDelete(p)
    \/ CloseEdit \/ (\E cover \in BOOLEAN : SubmitEdit(cover))
    \/ \E e \in edits : ServeEdit(e) \/ EditGoesOn(e) \/ EditFails(e)
    \/ Keep \/ TypeName \/ handleDelete
    \/ \E d \in deletes : ServeDelete(d) \/ Deleted(d) \/ DeleteEnds(d) \/ DeleteFails(d)

Spec == Init /\ [][Next]_vars

-----------------------------------------------------------------------------
\* A project without a cover is being given one or taken back.  Excepted are a project
\* whose creation was not answered and one whose removal failed.
NoBareProjects == \A p \in bare \ kept : \E c \in creations : c.id = p

\* The button that removes a project can be pressed only when the name was typed since
\* the dialog was opened for it.
MeantProject == target # None /\ confirmName = target => typedHere

\* When nothing is under way the list is the server's.  Excepted are a last read that
\* failed or had been asked for before the last change, for want of data, and what was changed by a request that reported an error.
ListIsServer ==
    loaded /\ fetch = "idle" /\ ~behind /\ creations = {} /\ edits = {} /\ deletes = {} =>
        \A p \in Ids \ untold : (p \in listed <=> p \in exists) /\ (p \in exists => shown[p] = rev[p])

\* A flag that disables a dialog has a request that will clear it, and one project is
\* removed at a time.
FlagsHaveCalls ==
    /\ submitting => creations # {}
    /\ saving => edits # {}
    /\ busy <=> deletes # {}
    /\ Cardinality(deletes) <= 1
    /\ \A d \in deletes : d.pc = "reloading" => fetch # "idle"

ProjectListIsRight == NoBareProjects /\ MeantProject /\ ListIsServer /\ FlagsHaveCalls
=============================================================================
