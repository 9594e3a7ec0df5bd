----------------------------- MODULE Quantities -----------------------------
(***************************************************************************)
(* The quantities panel: a tree of the measurements by condition and sheet *)
(* whose rows are renamed, overridden, reassigned and deleted in place.    *)
(*                                                                         *)
(* Each field sends when Enter is pressed and when it loses the focus.     *)
(* Renames hold a lock until one frame after the answer and are dropped    *)
(* while it is held; a value has no lock; either answer closes whatever    *)
(* field of its kind is open by then.                                      *)
(***************************************************************************)
EXTENDS Integers, FiniteSets

CONSTANTS
    Rows,        \* measurements, all of one condition
    Sheets, SheetOf, \* sheets and the one each measurement is on
    Names,       \* labels a user types
    MaxOps,      \* bound: requests the panel sends
    MaxFaults    \* bound: requests refused for no fault of the panel

VARIABLES
    label,       \* server: label of each measurement
    exists,      \* server: the measurements that exist
    listed, shown, \* measurements: the rows and their labels
    editing,     \* editingId
    renaming, name,   \* renamingId and renameDraft
    lock, skip,  \* renameSubmitLockRef, renameBlurSkipRef
    menu, deleteId,
    open,        \* expandedSheets whose condition is in expandedConds: their rows can be seen
    calls,       \* requests in flight
    want, upset, \* history: the label last submitted; rows with a refused or dropped change
    ops, faults

server == <<label, exists>>
list   == <<listed, shown>>
rename == <<renaming, name, lock, skip>>
panel  == <<menu, deleteId>>
notes  == <<want, upset>>
vars == <<server, list, editing, rename, panel, open, calls, notes, ops, faults>>

None  == "none"
Ops   == {"rename", "value", "reset", "reassign", "delete"}

TypeOK ==
    /\ label \in [Rows -> Names \cup {None}] /\ shown \in [Rows -> Names \cup {None}]
    /\ exists \subseteq Rows /\ listed \subseteq Rows
    /\ {editing, renaming, menu, deleteId} \subseteq Rows \cup {None}
    /\ name \in Names \cup {None}
    /\ lock \in {"free", "held", "frame"} /\ skip \in BOOLEAN
    /\ open \subseteq Sheets
    /\ calls \subseteq [row : Rows, op : Ops, to : Names \cup {None},
                        old : BOOLEAN, pc : {"sent", "ok", "refused"}, n : 1..MaxOps]
    /\ want \in [Rows -> Names \cup {None}] /\ upset \subseteq Rows
    /\ ops \in 0..MaxOps /\ faults \in 0..MaxFaults

-----------------------------------------------------------------------------
(* The tree.                                                               *)

Tree(o) == open' = o /\ UNCHANGED <<server, list, editing, rename, panel, calls, notes, ops, faults>>

Listing == {SheetOf[m] : m \in listed}
ToggleCond == IF open = {} THEN \E o \in SUBSET Listing : o # {} /\ Tree(o) ELSE Tree({})
ToggleSheet(s) == s \in Listing /\ Tree(IF s \in open THEN open \ {s} ELSE open \cup {s})
ExpandAll == open # Listing /\ Tree(Listing)
CollapseAll == open # {} /\ Tree({})

Visible == {m \in listed : SheetOf[m] \in open}

-----------------------------------------------------------------------------
(* Fields.                                                                 *)

Field(m) == m # None /\ m \in Visible
Typing == UNCHANGED <<server, list, panel, open, calls, notes, ops, faults>>

\* A request compares versions: it is old when the row has changed since the panel read it.
Send(m, op, to) ==
    /\ ops < MaxOps /\ ops' = ops + 1
    /\ calls' = calls \cup {[row |-> m, op |-> op, to |-> to, pc |-> "sent", n |-> ops + 1,
                             old |-> \E c \in calls : c.row = m /\ c.pc = "ok"]}

StartEditBeside(m) ==               \* seeded defect: the rename field stays open
    /\ m \in listed
    /\ editing' = m
    /\ UNCHANGED <<renaming, name, lock, skip>>

StartEdit(m) ==
    /\ m \in listed
    /\ editing' = m
    /\ renaming' = None /\ name' = None
    /\ UNCHANGED <<lock, skip>>

StartRename(m) ==
    /\ m \in listed
    /\ renaming' = m /\ name' = shown[m]
    /\ editing' = None
    /\ UNCHANGED <<lock, skip>>

\* The pencil or a double click, where the row can be seen.
OpenField(m) ==
    /\ m \in Visible
    /\ \/ editing # m /\ StartEdit(m)
       \/ renaming # m /\ StartRename(m)
    /\ Typing

TypeName(n) == Field(renaming) /\ name' = n /\ Typing /\ UNCHANGED <<editing, renaming, lock, skip>>

EscapeEdit == Field(editing) /\ editing' = None /\ Typing /\ UNCHANGED rename

\* Whether a field that is removed loses the focus first is the browser's choice.
EscapeRename ==
    /\ Field(renaming)
    /\ renaming' = None /\ name' = None /\ skip' \in BOOLEAN
    /\ Typing /\ UNCHANGED <<editing, lock>>

\* Enter or leaving the field: an untouched editing, and an empty one as zero, are numbers too.
CommitEdit ==
    /\ Field(editing)
    /\ \/ editing' = None /\ UNCHANGED <<calls, ops>>
       \/ Send(editing, "value", None) /\ UNCHANGED editing
    /\ UNCHANGED <<server, list, rename, panel, open, notes, faults>>

BlurSkipped ==
    /\ Field(renaming) /\ skip
    /\ skip' = FALSE
    /\ Typing /\ UNCHANGED <<editing, renaming, name, lock>>

SubmitUnlocked ==                   \* seeded defect: nothing keeps two renames apart
    /\ Field(renaming) /\ ~skip /\ name # shown[renaming]
    /\ Send(renaming, "rename", name)
    /\ want' = [want EXCEPT ![renaming] = name]
    /\ UNCHANGED <<server, list, editing, renaming, name, lock, skip, panel, open, upset, faults>>

\* One rename at a time; another is dropped without a word.
SubmitRename ==
    /\ Field(renaming) /\ ~skip
    /\ \/ /\ lock # "free"
          /\ upset' = upset \cup {renaming}
          /\ UNCHANGED <<renaming, name, lock, calls, want, ops>>
       \/ /\ lock = "free" /\ name = shown[renaming]
          /\ renaming' = None /\ name' = None /\ lock' = "frame"
          /\ UNCHANGED <<calls, notes, ops>>
       \/ /\ lock = "free" /\ name # shown[renaming]
          /\ Send(renaming, "rename", name)
          /\ lock' = "held" /\ want' = [want EXCEPT ![renaming] = name]
          /\ UNCHANGED <<renaming, name, upset>>
    /\ UNCHANGED <<server, list, editing, skip, panel, open, faults>>

FrameOver == lock = "frame" /\ lock' = "free" /\ Typing /\ UNCHANGED <<editing, renaming, name, skip>>

-----------------------------------------------------------------------------
(* The menu of a row and the question before a deletion.                   *)

Menu == UNCHANGED <<server, list, open, notes, faults>>

OpenMenu(m) ==
    /\ m \in Visible /\ menu # m /\ deleteId = None
    /\ menu' = m
    /\ Menu /\ UNCHANGED <<deleteId, editing, rename, calls, ops>>

CloseMenu == menu # None /\ menu' = None /\ Menu /\ UNCHANGED <<deleteId, editing, rename, calls, ops>>

\* A row that is gone by now opens no field.
MenuField ==
    /\ menu # None /\ menu' = None
    /\ IF menu \in listed THEN StartEdit(menu) \/ StartRename(menu) ELSE UNCHANGED <<editing, rename>>
    /\ Menu /\ UNCHANGED <<deleteId, calls, ops>>

\* The menu stays open until the reset is answered.
MenuSends(op) ==
    /\ menu # None /\ op \in {"reset", "reassign"}
    /\ Send(menu, op, None)
    /\ menu' = IF op = "reset" THEN menu ELSE None
    /\ Menu /\ UNCHANGED <<deleteId, editing, rename>>

MenuDelete ==
    /\ menu # None
    /\ deleteId' = menu /\ menu' = None
    /\ Menu /\ UNCHANGED <<editing, rename, calls, ops>>

AnswerDelete(yes) ==
    /\ deleteId # None
    /\ IF yes THEN Send(deleteId, "delete", None) ELSE UNCHANGED <<calls, ops>>
    /\ deleteId' = None
    /\ Menu /\ UNCHANGED <<menu, editing, rename>>

-----------------------------------------------------------------------------
(* Answers.                                                                *)

At(c, pc) == c \in calls /\ c.pc = pc
Moved(c, pc) == (calls \ {c}) \cup {[c EXCEPT !.pc = pc]}

Serve(c) ==
    /\ At(c, "sent") /\ c.row \in exists /\ (~c.old \/ c.op = "delete")
    /\ label' = IF c.op = "rename" THEN [label EXCEPT ![c.row] = c.to] ELSE label
    /\ exists' = IF c.op = "delete" THEN exists \ {c.row} ELSE exists
    /\ calls' = {IF d.row = c.row /\ d.pc = "sent" THEN [d EXCEPT !.old = TRUE] ELSE d : d \in calls \ {c}}
                    \cup {[c EXCEPT !.pc = "ok"]}
    /\ UNCHANGED <<list, editing, rename, panel, open, notes, ops, faults>>

Refuse(c) ==
    /\ At(c, "sent")
    /\ IF c.row \notin exists \/ c.old THEN UNCHANGED faults ELSE faults < MaxFaults /\ faults' = faults + 1
    /\ calls' = Moved(c, "refused")
    /\ UNCHANGED <<server, list, editing, rename, panel, open, notes, ops>>

\* The finally of each handler closes the field of its kind, whosever it is.
Closed(c) ==
    /\ editing' = IF c.op = "value" THEN None ELSE editing
    /\ renaming' = IF c.op = "rename" THEN None ELSE renaming
    /\ name' = IF c.op = "rename" THEN None ELSE name
    /\ lock' = IF c.op = "rename" THEN "frame" ELSE lock
    /\ menu' = IF c.op = "reset" /\ c.pc = "ok" THEN None ELSE menu
    /\ calls' = calls \ {c}
    /\ UNCHANGED <<server, skip, deleteId, open, want, ops, faults>>

AnsweredUnmerged(c) ==              \* seeded defect: the answer is not put into the list
    /\ At(c, "ok")
    /\ Closed(c)
    /\ listed' = IF c.op = "delete" THEN listed \ {c.row} ELSE listed
    /\ UNCHANGED <<shown, upset>>

Answered(c) ==
    /\ At(c, "ok")
    /\ Closed(c)
    /\ listed' = IF c.op = "delete" THEN listed \ {c.row} ELSE listed
    /\ shown' = IF c.op = "rename" THEN [shown EXCEPT ![c.row] = c.to] ELSE shown
    /\ UNCHANGED upset

\* A conflict reloads the rows.
Failed(c) ==
    /\ At(c, "refused")
    /\ Closed(c)
    /\ listed' = IF c.old THEN listed \cap exists ELSE listed
    /\ shown' = IF c.old THEN label ELSE shown
    /\ upset' = upset \cup {c.row}

-----------------------------------------------------------------------------
Init ==
    /\ label = [m \in Rows |-> None] /\ exists = Rows
    /\ listed = Rows /\ shown = label
    /\ editing = None /\ renaming = None /\ name = None
    /\ lock = "free" /\ skip = FALSE /\ menu = None /\ deleteId = None
    /\ open = Sheets
    /\ calls = {} /\ want = label /\ upset = {} /\ ops = 0 /\ faults = 0

Next ==
    \/ ToggleCond \/ ExpandAll \/ CollapseAll \/ \E s \in Sheets : ToggleSheet(s)
    \/ \E m \in Rows : OpenField(m) \/ OpenMenu(m)
    \/ \E n \in Names \cup {None} : TypeName(n)
    \/ EscapeEdit \/ EscapeRename \/ CommitEdit \/ BlurSkipped \/ SubmitRename \/ FrameOver
    \/ CloseMenu \/ MenuField \/ MenuDelete
    \/ \E op \in Ops : MenuSends(op)
    \/ \E yes \in BOOLEAN : AnswerDelete(yes)
    \/ \E c \in calls : Serve(c) \/ Refuse(c) \/ Answered(c) \/ Failed(c)

Spec == Init /\ [][Next]_vars

-----------------------------------------------------------------------------
\* One field is open at most, through every mix of late answers, menus and double
\* clicks: what is typed goes to one place.
OneFieldOpen == editing = None \/ renaming = None

\* Enter and the loss of focus, or two rows, never have two renames on their way:
\* the second would be refused as a conflict with the first.
OneRenameInFlight == Cardinality({c \in calls : c.op = "rename"}) <= 1

\* A row bears the name last submitted for it, on the server and in the list, once
\* nothing is in flight.  Excepted are names that were refused, or dropped while
\* another rename was in flight.
NamesAsSubmitted ==
    calls = {} => \A m \in listed \ upset : shown[m] = want[m] /\ label[m] = want[m]
=============================================================================
