--------------------------- MODULE ConditionPanel ---------------------------
(***************************************************************************)
(* The conditions panel of the plan viewer: a list read through one shared *)
(* query, a form for the selected condition or a new one, and the dialogs  *)
(* that delete, import and copy conditions.                                *)
(*                                                                         *)
(* A newer read of the list cancels an older one.  The form follows the    *)
(* listed record, the selection falls back to the first condition when its *)
(* own is gone, and the buttons wait for a flag that every handler clears. *)
(***************************************************************************)
EXTENDS Integers, FiniteSets, FiniteSetsExt

CONSTANTS
    MaxId,       \* bound: conditions ever created; the list is in the order of creation
    MaxOps,      \* bound: requests of the panel
    MaxUpsets    \* bound: changes made by a colleague, requests refused for no fault of the panel

VARIABLES
    exists, rev, \* server: conditions, and the version of each record
    next,        \* server: the next condition created
    loaded, listed, shown, \* the query: whether it has data; conditions and versions
    fetch, snap, \* the read in flight and what the server gave it
    active, initialised, creating,
    form,        \* condition and version the form was filled from; whether the user typed since
    saving, deleteOpen, importOpen, dupOpen,
    calls,       \* requests in flight and handlers waiting for a read
    told,        \* a colleague's event on its way
    asked, mine, \* history: condition whose deletion was asked; the one just created here
    excuse,      \* history: why a dialog or a button may surprise
    ops, upsets

server == <<exists, rev, next>>
query  == <<loaded, listed, shown, fetch, snap>>
choice == <<active, initialised, creating, form>>
dialogs == <<deleteOpen, importOpen, dupOpen>>
notes  == <<asked, mine, excuse>>
bounds == <<ops, upsets>>
vars == <<server, query, choice, saving, dialogs, calls, told, notes, bounds>>

Ids == 1..MaxId
None == 0
Ops == {"create", "save", "delete", "import", "check", "template"}
Writes == {"create", "save", "delete", "import"}

TypeOK ==
    /\ exists \subseteq Ids /\ rev \in [Ids -> 0..(MaxOps + MaxUpsets)] /\ next \in 1..(MaxId + 1)
    /\ loaded \in BOOLEAN /\ listed \subseteq Ids /\ shown \in [Ids -> 0..(MaxOps + MaxUpsets)]
    /\ fetch \in {"idle", "asked", "read"} /\ snap.ids \subseteq Ids
    /\ {active, asked, mine} \subseteq Ids \cup {None}
    /\ form.of \in Ids \cup {None} /\ form.typed \in BOOLEAN
    /\ {initialised, creating, saving, deleteOpen, importOpen, dupOpen, told} \subseteq BOOLEAN
    /\ excuse \subseteq {"cleared", "gone", "copied"}
    /\ (\E c \in calls : c.pc = "reloading") => fetch # "idle"
    /\ \A c \in calls : c.op \in Ops /\ c.pc \in {"sent", "ok", "refused", "reloading", "done"}
    /\ ops \in 0..MaxOps /\ upsets \in 0..MaxUpsets

NoSnap == [ids |-> {}, rev |-> [c \in Ids |-> 0]]
First(s) == IF s = {} THEN None ELSE Min(s)

-----------------------------------------------------------------------------
(* The list and what follows it.                                           *)

Rec(a, l, r) == IF a \in l THEN <<a, r[a]>> ELSE <<None, 0>>
Filled(new, record) == [of |-> IF new THEN None ELSE record[1],
                        base |-> IF new THEN 0 ELSE record[2], typed |-> FALSE]

FormKeyedById(a, new, l, r) ==      \* seeded defect: the form follows the id, not the record
    form' = IF new # creating \/ Rec(a, l, r)[1] # Rec(active, listed, shown)[1]
            THEN Filled(new, Rec(a, l, r)) ELSE form

\* The form is filled again whenever the mode or the listed record changes.
FormFollows(a, new, l, r) ==
    form' = IF new # creating \/ Rec(a, l, r) # Rec(active, listed, shown)
            THEN Filled(new, Rec(a, l, r)) ELSE form

\* Without data the list is a new empty array at each rendering, which clears the selection.
Choose(a, new) ==
    /\ active' = IF loaded THEN a ELSE None
    /\ creating' = new
    /\ FormFollows(active', new, listed, shown)

\* The selection when the list changes.
Fallback(l, a) ==
    CASE l = {}                         -> <<None, FALSE>>
      [] l # {} /\ a \in l              -> <<a, initialised>>
      [] l # {} /\ a \notin l \cup {None} -> <<Min(l), TRUE>>
      [] l # {} /\ a = None             -> <<IF initialised THEN None ELSE Min(l), TRUE>>

Settled(cs) == {IF c.pc = "reloading" THEN [c EXCEPT !.pc = "done"] ELSE c : c \in cs}

ReloadBeside(cs) ==                 \* seeded defect: the older read goes on
    /\ UNCHANGED snap
    /\ fetch' = IF fetch = "idle" THEN "asked" ELSE fetch
    /\ calls' = cs

\* A read of the list cancels the one in flight and frees whoever waits for it,
\* unless there is no data yet: then it is the same read.
Reload(cs) ==
    /\ snap' = IF loaded \/ fetch = "idle" THEN NoSnap ELSE snap
    /\ fetch' = IF loaded \/ fetch = "idle" THEN "asked" ELSE fetch
    /\ calls' = IF loaded THEN {IF c \in calls /\ c.pc = "reloading" THEN [c EXCEPT !.pc = "done"] ELSE c : c \in cs}
                ELSE cs

Read ==
    /\ fetch = "asked" /\ fetch' = "read"
    /\ snap' = [ids |-> exists, rev |-> rev]
    /\ UNCHANGED <<server, loaded, listed, shown, choice, saving, dialogs, calls, told, notes, bounds>>

Land ==
    /\ fetch = "read" /\ fetch' = "idle"
    /\ loaded' = TRUE /\ listed' = snap.ids /\ shown' = snap.rev /\ UNCHANGED creating
    /\ LET picked == IF snap.ids = listed /\ snap.rev = shown /\ loaded THEN <<active, initialised>>
                     ELSE Fallback(snap.ids, active)
       IN active' = picked[1] /\ initialised' = picked[2]
    /\ FormFollows(active', creating, snap.ids, snap.rev)
    /\ calls' = Settled(calls)
    /\ excuse' = IF asked \in listed \ snap.ids THEN excuse \cup {"gone"} ELSE excuse
    /\ snap' = NoSnap
    /\ UNCHANGED <<server, saving, dialogs, told, asked, mine, bounds>>

Upset == upsets < MaxUpsets /\ upsets' = upsets + 1

LoadFailsUntold ==                  \* seeded defect: whoever waits is not told
    /\ fetch # "idle" /\ fetch' = "idle"
    /\ Upset
    /\ snap' = NoSnap
    /\ UNCHANGED <<server, loaded, listed, shown, choice, saving, dialogs, calls, told, notes, ops>>

LoadFails ==
    /\ fetch # "idle" /\ fetch' = "idle"
    /\ Upset
    /\ calls' = Settled(calls) /\ snap' = NoSnap
    /\ UNCHANGED <<server, loaded, listed, shown, choice, saving, dialogs, told, notes, ops>>

\* A colleague edits, deletes or creates a condition; the room tells.
Colleague ==
    /\ Upset
    /\ told' = TRUE
    /\ \/ \E c \in exists : rev' = [rev EXCEPT ![c] = @ + 1] /\ UNCHANGED <<exists, next>>
       \/ \E c \in exists : exists' = exists \ {c} /\ UNCHANGED <<rev, next>>
       \/ next <= MaxId /\ exists' = exists \cup {next} /\ next' = next + 1 /\ UNCHANGED rev
    /\ UNCHANGED <<query, choice, saving, dialogs, calls, notes, ops>>

EventArrives ==
    /\ told /\ told' = FALSE
    /\ Reload(calls)
    /\ UNCHANGED <<server, loaded, listed, shown, choice, saving, dialogs, notes, bounds>>

-----------------------------------------------------------------------------
(* Selecting and editing.  A dialog keeps the pointer out of the panel.    *)

Modal == (deleteOpen /\ active \in listed) \/ importOpen \/ dupOpen
Panel == UNCHANGED <<server, query, initialised, saving, dialogs, calls, told, asked, excuse, bounds>>

SelectRow(c) == ~Modal /\ c \in listed /\ Choose(c, FALSE) /\ mine' = None /\ Panel
StartNew == ~Modal /\ Choose(None, TRUE) /\ mine' = None /\ Panel
CancelNew ==
    /\ ~Modal /\ creating /\ ~saving
    /\ Choose(IF listed = {} THEN active ELSE Min(listed), FALSE)
    /\ mine' = None /\ Panel

\* A press beside the controls clears the selection, in a dialog of the panel too:
\* the deletion's is then no longer drawn, though it may still be open.
ClearSelection ==
    /\ Choose(None, FALSE) /\ mine' = None
    /\ deleteOpen' \in IF deleteOpen THEN BOOLEAN ELSE {FALSE}
    /\ excuse' = IF deleteOpen THEN excuse \cup {"cleared"} ELSE excuse
    /\ UNCHANGED <<server, query, initialised, saving, importOpen, dupOpen, calls, told, asked, bounds>>

Edit ==
    /\ ~Modal /\ (creating \/ active \in listed)
    /\ form' = [form EXCEPT !.typed = TRUE]
    /\ UNCHANGED <<active, creating, mine>> /\ Panel

-----------------------------------------------------------------------------
(* Requests.  Buttons are disabled while "saving" is set.                  *)

Send(op, target) ==
    /\ ops < MaxOps /\ ops' = ops + 1
    /\ calls' = calls \cup {[op |-> op, target |-> target, pc |-> "sent", made |-> None,
                             rest |-> IF op = "delete" THEN First(listed \ {target}) ELSE None, n |-> ops + 1]}

Idle == UNCHANGED <<server, query, choice, told, upsets>>

SaveAnyTime ==                      \* seeded defect: the button is not disabled
    /\ ~Modal
    /\ \/ creating /\ Send("create", None)
       \/ ~creating /\ active \in listed /\ Send("save", active)
    /\ saving' = TRUE
    /\ Idle /\ UNCHANGED <<dialogs, notes>>

Save ==
    /\ ~saving /\ ~Modal
    /\ \/ creating /\ Send("create", None)
       \/ ~creating /\ active \in listed /\ Send("save", active)
    /\ saving' = TRUE
    /\ Idle /\ UNCHANGED <<dialogs, notes>>

AskDeleteAnyTime ==                 \* seeded defect: the button is not disabled
    /\ ~Modal /\ ~creating /\ active \in listed
    /\ deleteOpen' = TRUE /\ asked' = active /\ excuse' = excuse \ {"cleared", "gone"}
    /\ Idle /\ UNCHANGED <<importOpen, dupOpen, saving, calls, mine, ops>>

AskDelete ==
    /\ ~saving /\ ~Modal /\ ~creating /\ active \in listed
    /\ deleteOpen' = TRUE /\ asked' = active /\ excuse' = excuse \ {"cleared", "gone"}
    /\ Idle /\ UNCHANGED <<importOpen, dupOpen, saving, calls, mine, ops>>

Forget == asked' = None /\ excuse' = excuse \ {"cleared", "gone"}

CancelDelete ==
    /\ deleteOpen /\ active \in listed
    /\ deleteOpen' = FALSE /\ Forget
    /\ Idle /\ UNCHANGED <<importOpen, dupOpen, saving, calls, mine, ops>>

ConfirmDelete ==
    /\ deleteOpen /\ active \in listed /\ ~saving
    /\ Send("delete", active) /\ saving' = TRUE
    /\ mine' = None
    /\ Idle /\ UNCHANGED <<dialogs, asked, excuse>>

OpenImport ==
    /\ ~saving /\ ~Modal /\ (creating \/ active \in listed)
    /\ importOpen' = TRUE
    /\ Idle /\ UNCHANGED <<deleteOpen, dupOpen, saving, calls, notes, ops>>

CloseImport ==
    /\ importOpen /\ importOpen' = FALSE
    /\ Idle /\ UNCHANGED <<deleteOpen, dupOpen, saving, calls, notes, ops>>

Import ==
    /\ importOpen /\ ~saving
    /\ Send("import", None) /\ saving' = TRUE
    /\ Idle /\ UNCHANGED <<dialogs, notes>>

\* The library is searched for the name first, and nothing is disabled meanwhile.
SaveAsTemplate ==
    /\ ~saving /\ ~Modal /\ ~creating /\ active \in listed
    /\ Send("check", active)
    /\ Idle /\ UNCHANGED <<dialogs, saving, notes>>

AnswerDuplicate(anyway) ==
    /\ dupOpen /\ dupOpen' = FALSE
    /\ \/ ~anyway /\ UNCHANGED <<calls, saving, ops, notes>>
       \/ /\ anyway /\ ~saving /\ active \in listed
          /\ Send("template", active) /\ saving' = TRUE /\ UNCHANGED notes
    /\ Idle /\ UNCHANGED <<deleteOpen, importOpen>>

-----------------------------------------------------------------------------
(* The server and the answers.                                             *)

At(c, pc) == c \in calls /\ c.pc = pc
To(c, pc) == (calls \ {c}) \cup {[c EXCEPT !.pc = pc]}
Client == UNCHANGED <<query, choice, saving, dialogs, told, notes, ops>>

Serve(c) ==
    /\ At(c, "sent") /\ c.target \in exists \cup {None}
    /\ \/ /\ c.op \in {"create", "import"} /\ next <= MaxId
          /\ exists' = exists \cup {next} /\ next' = next + 1
          /\ calls' = (calls \ {c}) \cup {[c EXCEPT !.pc = "ok", !.made = next]}
          /\ UNCHANGED rev
       \/ /\ c.op = "save"
          /\ rev' = [rev EXCEPT ![c.target] = @ + 1]
          /\ calls' = To(c, "ok") /\ UNCHANGED <<exists, next>>
       \/ /\ c.op = "delete"
          /\ exists' = exists \ {c.target}
          /\ calls' = To(c, "ok") /\ UNCHANGED <<rev, next>>
       \/ /\ c.op \in {"check", "template"}
          /\ calls' = To(c, "ok") /\ UNCHANGED server
    /\ Client /\ UNCHANGED upsets

Refuse(c) ==
    /\ At(c, "sent")
    /\ IF c.target \in exists \cup {None} THEN Upset ELSE UNCHANGED upsets
    /\ calls' = To(c, "refused")
    /\ UNCHANGED server /\ Client

Answer == UNCHANGED <<server, loaded, listed, shown, told, bounds>>

SavedOk(c) ==
    /\ At(c, "ok") /\ c.op \in {"create", "save"}
    /\ Choose(IF c.op = "create" THEN c.made ELSE c.target, c.op = "save" /\ creating)
    /\ mine' = IF c.op = "create" /\ loaded THEN c.made ELSE None
    /\ Reload(To(c, "reloading"))
    /\ Answer /\ UNCHANGED <<initialised, saving, dialogs, asked, excuse>>

DeleteOk(c) ==
    /\ At(c, "ok") /\ c.op = "delete"
    /\ deleteOpen' = FALSE /\ Forget
    /\ Choose(c.rest, creating) /\ mine' = None
    /\ Reload(To(c, "reloading"))
    /\ Answer /\ UNCHANGED <<initialised, saving, importOpen, dupOpen>>

ImportOk(c) ==
    /\ At(c, "ok") /\ c.op = "import"
    /\ importOpen' = FALSE
    /\ Reload(To(c, "reloading"))
    /\ Answer /\ UNCHANGED <<choice, saving, deleteOpen, dupOpen, notes>>

\* The copy goes on from the closure of the click: the condition is the one it named.
Checked(c) ==
    /\ At(c, "ok") /\ c.op = "check"
    /\ \/ dupOpen' = TRUE /\ calls' = calls \ {c} /\ UNCHANGED saving
       \/ /\ calls' = (calls \ {c}) \cup {[c EXCEPT !.op = "template", !.pc = "sent"]}
          /\ saving' = TRUE /\ UNCHANGED dupOpen
    /\ Answer /\ UNCHANGED <<fetch, snap, choice, deleteOpen, importOpen, notes>>

\* The last lines of a handler; an import selects its condition only here.
Finish(c) ==
    /\ \/ At(c, "done") \/ At(c, "refused")
       \/ At(c, "ok") /\ c.op = "template"
    /\ saving' = IF c.op = "check" THEN saving ELSE FALSE
    /\ calls' = calls \ {c}
    /\ IF At(c, "done") /\ c.op = "import"
       THEN Choose(c.made, FALSE) /\ mine' = None
       ELSE UNCHANGED <<active, creating, form, mine>>
    /\ excuse' = IF c.op = "template" /\ \E d \in calls \ {c} : d.op \in Writes
                 THEN excuse \cup {"copied"} ELSE excuse
    /\ Answer /\ UNCHANGED <<fetch, snap, initialised, dialogs, asked>>

-----------------------------------------------------------------------------
Init ==
    /\ exists = 1..2 /\ rev = [c \in Ids |-> 0] /\ next = 3
    /\ loaded = FALSE /\ listed = {} /\ shown = rev
    /\ fetch = "asked" /\ snap = NoSnap
    /\ active = None /\ initialised = FALSE /\ creating = FALSE
    /\ form = Filled(TRUE, <<None, 0>>)
    /\ saving = FALSE /\ deleteOpen = FALSE /\ importOpen = FALSE /\ dupOpen = FALSE
    /\ calls = {} /\ told = FALSE /\ asked = None /\ mine = None /\ excuse = {}
    /\ ops = 0 /\ upsets = 0

Next ==
    \/ Read \/ Land \/ LoadFails \/ Colleague \/ EventArrives
    \/ \E c \in Ids : SelectRow(c)
    \/ StartNew \/ CancelNew \/ ClearSelection \/ Edit
    \/ Save \/ AskDelete \/ CancelDelete \/ ConfirmDelete
    \/ OpenImport \/ CloseImport \/ Import \/ SaveAsTemplate
    \/ \E anyway \in BOOLEAN : AnswerDuplicate(anyway)
    \/ \E c \in calls :
          \/ Serve(c) \/ Refuse(c) \/ SavedOk(c) \/ DeleteOk(c)
          \/ ImportOk(c) \/ Checked(c) \/ Finish(c)

Spec == Init /\ [][Next]_vars

-----------------------------------------------------------------------------
\* The form is filled from the version of the record that the list shows, so that a
\* save, which sends every field, never undoes a colleague's change the list had shown.
FormIsOfWhatIsListed ==
    ~creating /\ active \in listed => form.of = active /\ form.base = shown[active]

\* A condition created here stays selected when the list is read again, until the
\* user selects another or it is deleted.
CreatedStaysSelected == mine \in exists => active = mine

\* The question before a deletion is about the condition whose Delete was pressed.
\* Excepted: that condition was deleted by a colleague, or the selection was cleared
\* by a press inside the dialog, or a copy to the library cleared the flag too early.
DeletesWhatWasAsked ==
    deleteOpen /\ active \in listed => active = asked \/ excuse # {}

\* Two writes are never in flight at once, so Create pressed twice makes one condition.
\* Excepted: a copy to the library that ends during a write clears the flag of that write.
OneWriteAtATime ==
    Cardinality({c \in calls : c.op \in Writes /\ c.pc = "sent"}) <= 1 \/ "copied" \in excuse

\* The form and the selection stay with what the list shows and the user chose.
SelectionIsRight == FormIsOfWhatIsListed /\ CreatedStaysSelected

\* A write is the one that was asked for, once.
WritesAreRight == DeletesWhatWasAsked /\ OneWriteAtATime
=============================================================================
