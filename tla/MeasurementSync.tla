-------------------------- MODULE MeasurementSync --------------------------
(***************************************************************************)
(* The measurements one browser shows, against the rows of the server.     *)
(*                                                                         *)
(* PlanViewerWorkspace keeps two lists: the rows of the sheet on screen    *)
(* and the rows of the project.  Every change it makes is a request whose  *)
(* answer is merged into both, followed by a debounced reload; changes of  *)
(* collaborators arrive as events that ask for the same reload.  Reloads   *)
(* carry no sequence number and are not cancelled, callbacks keep the      *)
(* sheet that was on screen when they were created, and an update carries  *)
(* the version it was computed from.                                       *)
(***************************************************************************)
EXTENDS Integers, Sequences, SequencesExt, FiniteSets, Functions, Bags

CONSTANTS
    Sheets,      \* sheets of the plan
    Slots,       \* requests of this browser in flight at once
    MaxIds,      \* bound: rows ever inserted
    MaxLoads,    \* bound: reloads in flight
    MaxOps,      \* bound: what the user does
    MaxUpsets    \* bound: what collaborators change, requests that fail, answers that are lost

ASSUME BoundsAssumption ==
    MaxIds \in Nat \ {0} /\ MaxLoads \in Nat /\ MaxOps \in Nat /\ MaxUpsets \in Nat

Off == "off"
ASSUME OffAssumption == Off \notin Sheets

VARIABLES
    rows,        \* measurements of the server by id
    clock,       \* changes of the server so far
    sheet,       \* activeSheetId
    sheetList,   \* sheetMeasurements
    projectList, \* projectMeasurements: version shown of each id, 0 if none
    undo, redo,  \* measurementUndoStack, measurementRedoStack
    call,        \* requests that change rows
    loads,       \* reloads in flight
    timer,       \* the pending reload: the sheet its callback was created for
    events,      \* contruo.measurements_changed not yet received
    drag,        \* the marker being dragged
    landed,      \* history: latest state of the server each list was given
    inOrder,     \* history: each list's last answer was the newest, for the sheet on screen
    silent,      \* history: ids changed by a request that reported an error
    overlap,     \* history: two undo or redo requests were in flight at once
    ops, upsets

data    == <<rows, clock>>
lists   == <<sheetList, projectList>>
stacks  == <<undo, redo>>
net     == <<loads, timer, events>>
history == <<landed, inOrder, silent, overlap>>
bounds  == <<ops, upsets>>
vars == <<data, sheet, lists, stacks, call, net, drag, history, bounds>>

Ids   == 1..MaxIds
Views == {"sheet", "project"}
None  == 0
Idle  == [op |-> "idle"]

\* A row: version 0 before it is inserted and after it is deleted.  The drawing is the
\* id under which it was first saved: undo and redo keep the drawing, not the id.
Absent == [ver |-> 0, sheet |-> Off, drawing |-> None]
Live   == {i \in Ids : rows[i].ver > 0}
Unused == {i \in Ids : rows[i] = Absent}

Inserting == {c \in Slots : call[c].op \in {"create", "redo"} /\ call[c].pc = "sent"}
Undoing   == {c \in Slots : call[c].op = "undo"}

Versions == [Ids -> Nat]
Requests ==
    [op : {"create"}, pc : {"sent"}, sheet : Sheets, on : Sheets, drawing : {None}]
    \cup [op : {"redo"}, pc : {"sent"}, sheet : Sheets, on : Sheets, drawing : Ids]
    \cup [op : {"patch"}, pc : {"sent", "write"}, sheet : Sheets, id : Ids,
          ver : Nat, basis : Nat, seen : Nat]
    \cup [op : {"delete", "undo"}, pc : {"sent", "ok"}, sheet : Sheets,
          ids : SUBSET Ids, tried : SUBSET Ids, done : SUBSET Ids]
    \cup [op : {"create", "redo"}, pc : {"ok"}, sheet : Sheets, id : Ids]
    \cup [op : {"patch"}, pc : {"ok"}, sheet : Sheets, id : Ids, ver : Nat]
    \cup [op : {"create", "redo", "patch", "delete", "undo"}, pc : {"error", "conflict"}, sheet : Sheets]

TypeOK ==
    /\ rows \in [Ids -> [ver : Nat, sheet : Sheets \cup {Off}, drawing : Ids \cup {None}]]
    /\ clock \in Nat
    /\ sheet \in Sheets
    /\ sheetList \in Seq([id : Ids, ver : Nat]) /\ projectList \in Versions
    /\ undo \in Seq(Ids) /\ redo \in Seq([drawing : Ids, on : Sheets])
    /\ call \in [Slots -> Requests \cup {Idle}]
    /\ IsABag(loads)
    /\ BagToSet(loads) \subseteq [view : Views, sheet : Sheets \cup {Off}, at : Nat, ids : Versions]
    /\ timer \in Sheets \cup {Off} /\ events \in Nat
    /\ drag = Idle \/ drag \in {r \in Requests : r.op = "patch" /\ r.pc = "sent"}
    /\ landed \in [Views -> Nat] /\ inOrder \in [Views -> BOOLEAN]
    /\ silent \subseteq Ids /\ overlap \in BOOLEAN
    /\ ops \in 0..MaxOps /\ upsets \in 0..MaxUpsets

-----------------------------------------------------------------------------
(* Reloads.                                                                *)

\* A reload answers with the versions at some moment between request and answer.
Rows(v, s) ==
    [i \in Ids |-> IF v = "project" \/ rows[i].sheet = s THEN rows[i].ver ELSE 0]

Load(v, s) == [view |-> v, sheet |-> IF v = "sheet" THEN s ELSE Off, at |-> clock, ids |-> Rows(v, s)]
Room == BagCardinality(loads) + 2 <= MaxLoads

\* loadSheetMeasurements, which also starts loadProjectMeasurements
Reload(s) == Room /\ loads' = loads (+) SetToBag({Load(v, s) : v \in Views})

Shown(list) == {list[k].id : k \in DOMAIN list}
Version(list, i) == list[SelectInSeq(list, LAMBDA m : m.id = i)].ver

\* mergeMeasurementRow, removeMeasurementIds
Merge(list, m) ==
    IF m.id \in Shown(list) THEN ReplaceAt(list, SelectInSeq(list, LAMBDA x : x.id = m.id), m)
    ELSE Append(list, m)

\* The entries of a list that belong to S, in their order (Array.filter).
Filtered(list, S) ==
    LET kept == {k \in DOMAIN list : list[k] \in S}
        Rank(k) == Cardinality({j \in kept : j <= k})
    IN [n \in 1..Cardinality(kept) |-> list[CHOOSE k \in kept : Rank(k) = n]]

Without(list, ids) == Filtered(list, {m \in Range(list) : m.id \notin ids})

\* Whatever changes the lists, the effect on them drops undo entries of rows not shown.
Pruned(stack, list) == Filtered(stack, Shown(list))

\* Tried again while in flight: the server reads later than the request was sent.
Read(l) ==
    /\ loads' = (loads (-) SetToBag({l})) (+) SetToBag({[l EXCEPT !.at = clock, !.ids = Rows(l.view, l.sheet)]})
    /\ l.at < clock
    /\ UNCHANGED <<data, sheet, lists, stacks, call, timer, events, drag, history, bounds>>

Upset == upsets < MaxUpsets /\ upsets' = upsets + 1

\* Nothing ties an answer to the sheet on screen, or to the answers before it.
Arrives(l, list, ok) ==
    /\ loads' = loads (-) SetToBag({l})
    /\ IF l.view = "sheet"
         THEN /\ sheetList' = list
              /\ undo' = Pruned(undo, list)
              /\ UNCHANGED projectList
         ELSE /\ projectList' = IF ok THEN l.ids ELSE [i \in Ids |-> 0]
              /\ UNCHANGED <<sheetList, undo>>
    /\ inOrder' = [inOrder EXCEPT ![l.view] =
          ok /\ l.sheet \in {sheet, Off} /\ l.at >= landed[l.view]]
    /\ landed' = [landed EXCEPT ![l.view] = IF l.at > @ THEN l.at ELSE @]
    /\ UNCHANGED <<data, sheet, redo, call, timer, events, drag, silent, overlap, ops>>

\* The order of the rows matters to nothing here.
Listed(l) ==
    LET shown == SetToSeq({i \in Ids : l.ids[i] > 0})
    IN [k \in DOMAIN shown |-> [id |-> shown[k], ver |-> l.ids[shown[k]]]]

Land(l) == Arrives(l, Listed(l), TRUE) /\ UNCHANGED upsets

LoadFails(l) ==
    /\ Upset
    /\ Arrives(l, <<>>, FALSE)

\* scheduleMeasurementsResync: a new request replaces the pending one.
TimerFires ==
    /\ timer # Off
    /\ Reload(timer)
    /\ timer' = Off
    /\ UNCHANGED <<data, sheet, lists, stacks, call, events, drag, history, bounds>>

EventArrives ==
    /\ events > 0
    /\ events' = events - 1
    /\ timer' = sheet
    /\ UNCHANGED <<data, sheet, lists, stacks, call, loads, drag, history, bounds>>

SwitchSheet(s) ==
    /\ s # sheet
    /\ ops < MaxOps
    /\ ops' = ops + 1
    /\ sheet' = s
    /\ Reload(s)
    /\ undo' = <<>> /\ redo' = <<>> /\ drag' = Idle
    /\ UNCHANGED <<data, lists, call, timer, events, history, upsets>>

-----------------------------------------------------------------------------
(* What the user asks for.                                                 *)

Goto(c, r) == call' = [call EXCEPT ![c] = r]
Sends(c, r) ==
    /\ call[c] = Idle
    /\ ops < MaxOps
    /\ ops' = ops + 1
    /\ Goto(c, r)
    /\ UNCHANGED <<data, sheet, lists, net, landed, inOrder, silent, upsets>>
Unchanging == UNCHANGED <<stacks, drag, overlap>>

\* A finished line or area, or a count marker.
Create(c) ==
    /\ Cardinality(Unused) > Cardinality(Inserting)
    /\ Sends(c, [op |-> "create", pc |-> "sent", sheet |-> sheet, on |-> sheet, drawing |-> None])
    /\ Unchanging

\* versionForId: None sends no If-Match.
Unversioned(i) == None            \* seeded defect: the header is left out
VersionForId(i) == IF i \in Shown(sheetList) THEN Version(sheetList, i) ELSE projectList[i]
Quiet == loads = EmptyBag /\ timer = Off /\ events = 0 /\ \A c \in Slots : call[c] = Idle
Calm  == Quiet /\ \A v \in Views : inOrder[v]

\* basis: the version the author was shown, while the lists are in step on that row
Patch(i, basis) ==
    [op |-> "patch", pc |-> "sent", sheet |-> sheet, id |-> i, ver |-> VersionForId(i),
     basis |-> IF Calm /\ i \notin silent THEN basis ELSE None, seen |-> None]

\* The quantities panel edits what the project list shows.
PatchInPanel(c, i) ==
    /\ projectList[i] > 0
    /\ Sends(c, Patch(i, projectList[i]))
    /\ Unchanging

\* The bar under the canvas edits the selected row of the sheet list.
PatchSelected(c, i) ==
    /\ i \in Shown(sheetList)
    /\ Sends(c, Patch(i, Version(sheetList, i)))
    /\ Unchanging

\* A dragged marker keeps the version it had when it was picked up.
DragStart(i) ==
    /\ drag = Idle /\ ops < MaxOps
    /\ i \in Shown(sheetList)
    /\ drag' = Patch(i, Version(sheetList, i))
    /\ UNCHANGED <<data, sheet, lists, stacks, call, net, history, bounds>>

DragEnd(c) ==
    /\ drag # Idle
    /\ Sends(c, drag)
    /\ drag' = Idle
    /\ UNCHANGED <<stacks, overlap>>

DragKept ==                       \* seeded defect: the preview is left where it was dropped
    /\ drag # Idle
    /\ drag' = [op |-> "preview", id |-> drag.id]
    /\ UNCHANGED <<data, sheet, lists, stacks, call, net, history, bounds>>

DragAbandoned ==
    /\ drag # Idle
    /\ drag' = Idle
    /\ UNCHANGED <<data, sheet, lists, stacks, call, net, history, bounds>>

\* Delete on the selection, or the row's button in the panel.
Delete(c, ids) ==
    /\ ids # {}
    /\ \A i \in ids : projectList[i] > 0
    /\ Sends(c, [op |-> "delete", pc |-> "sent", sheet |-> sheet, ids |-> ids, tried |-> {}, done |-> {}])
    /\ Unchanging

Overlaps(c) == \E d \in Slots \ {c} : call[d].op \in {"undo", "redo"}

\* Ctrl+Z: the drawing goes on the redo stack before the row is deleted.
Undo(c) ==
    /\ undo # <<>>
    /\ LET i == Last(undo)
       IN /\ Sends(c, [op |-> "undo", pc |-> "sent", sheet |-> sheet, ids |-> {i}, tried |-> {}, done |-> {}])
          /\ redo' = Append(redo, [drawing |-> rows[i].drawing, on |-> rows[i].sheet])
    /\ overlap' = (overlap \/ Overlaps(c))
    /\ UNCHANGED <<undo, drag>>

\* Ctrl+Shift+Z: the drawing stays on the stack until the row is there.
Redo(c) ==
    /\ redo # <<>>
    /\ Cardinality(Unused) > Cardinality(Inserting)
    /\ Sends(c, [op |-> "redo", pc |-> "sent", sheet |-> sheet, on |-> Last(redo).on, drawing |-> Last(redo).drawing])
    /\ overlap' = (overlap \/ Overlaps(c))
    /\ UNCHANGED <<stacks, drag>>

-----------------------------------------------------------------------------
(* The server.                                                             *)

Serves(c, r) ==
    /\ Goto(c, r)
    /\ UNCHANGED <<sheet, lists, stacks, net, drag, landed, inOrder, overlap, ops>>
Changed(i, row) == rows' = [rows EXCEPT ![i] = row] /\ clock' = clock + 1

Result(c, pc) == [op |-> call[c].op, pc |-> pc, sheet |-> call[c].sheet]

Insert(c, i) ==
    /\ c \in Inserting
    /\ i \in Unused /\ \A j \in Unused : i <= j
    /\ Changed(i, [ver |-> 1, sheet |-> call[c].on,
                   drawing |-> IF call[c].drawing = None THEN i ELSE call[c].drawing])
    /\ Serves(c, [op |-> call[c].op, pc |-> "ok", sheet |-> call[c].sheet, id |-> i])
    /\ UNCHANGED <<silent, upsets>>

\* update_measurement compares the version and writes in two statements.
Compare(c) ==
    /\ call[c].op = "patch" /\ call[c].pc = "sent"
    /\ LET now == rows[call[c].id].ver
       IN Serves(c, IF now = 0 THEN Result(c, "error")
                    ELSE IF call[c].ver \notin {None, now} THEN Result(c, "conflict")
                    ELSE [call[c] EXCEPT !.seen = now, !.pc = "write", !.ver = None])
    /\ UNCHANGED <<data, silent, upsets>>

Write(c) ==
    /\ call[c].op = "patch" /\ call[c].pc = "write"
    /\ LET i == call[c].id
       IN IF i \in Live
            THEN /\ Changed(i, [rows[i] EXCEPT !.ver = @ + 1])
                 /\ Serves(c, [op |-> "patch", pc |-> "ok", sheet |-> call[c].sheet, id |-> i, ver |-> rows[i].ver + 1])
            ELSE Serves(c, Result(c, "error")) /\ UNCHANGED data
    /\ UNCHANGED <<silent, upsets>>

\* One of the deletions of a request: of a row that is gone it is refused.
Remove1(c, i) ==
    /\ call[c].op \in {"delete", "undo"} /\ call[c].pc = "sent"
    /\ i \in call[c].ids \ call[c].tried
    /\ LET tried == call[c].tried \cup {i}
           done == IF i \in Live THEN call[c].done \cup {i} ELSE call[c].done
           pc == IF tried # call[c].ids THEN "sent" ELSE IF done = tried THEN "ok" ELSE "error"
       IN /\ IF i \in Live THEN Changed(i, [rows[i] EXCEPT !.ver = 0]) ELSE UNCHANGED data
          /\ Serves(c, IF pc = "error" THEN Result(c, pc)
                       ELSE [call[c] EXCEPT !.tried = tried, !.done = done, !.pc = pc])
          /\ silent' = IF pc = "error" THEN silent \cup done ELSE silent
    /\ UNCHANGED upsets

\* The request is refused or lost before it took effect, or its answer is lost.
Touched(r) == IF r.op \in {"delete", "undo"} THEN r.done ELSE {r.id}
CallFails(c) ==
    /\ Upset
    /\ call[c] # Idle
    /\ \/ call[c].pc = "sent" /\ (call[c].op \in {"delete", "undo"} => call[c].tried = {}) /\ UNCHANGED silent
       \/ call[c].pc = "ok" /\ silent' = silent \cup Touched(call[c])
    /\ Serves(c, Result(c, "error"))
    /\ UNCHANGED data

\* Another browser inserts, updates or deletes a row and broadcasts that.
Collaborator ==
    /\ Upset
    /\ events' = events + 1
    /\ \/ \E i \in Live, v \in {0, 1} : Changed(i, [rows[i] EXCEPT !.ver = (@ + 1) * v])
       \/ /\ Cardinality(Unused) > Cardinality(Inserting)
          /\ \E i \in Unused, s \in Sheets :
                /\ \A j \in Unused : i <= j
                /\ Changed(i, [ver |-> 1, sheet |-> s, drawing |-> i])
    /\ UNCHANGED <<sheet, lists, stacks, call, loads, timer, drag, history, ops>>

-----------------------------------------------------------------------------
(* Answers.  Each is applied by the callback of the render that sent the   *)
(* request: its reload is for the sheet that was on screen then.           *)

Answered(c, op, pc) ==
    /\ call[c].op = op /\ call[c].pc = pc
    /\ Goto(c, Idle)
    /\ UNCHANGED <<data, sheet, events, drag, history, bounds>>

ResyncForgotten(c) == UNCHANGED timer   \* seeded defect: the merged lists are trusted
Resync(c) == timer' = call[c].sheet

\* The row of a create is appended, not merged.
CreateOk(c) ==
    /\ Answered(c, "create", "ok")
    /\ LET i == call[c].id
       IN /\ sheetList' = Append(sheetList, [id |-> i, ver |-> 1])
          /\ projectList' = [projectList EXCEPT ![i] = 1]
          /\ undo' = Pruned(Append(undo, i), sheetList')
    /\ redo' = <<>>
    /\ Reload(call[c].sheet)
    /\ Resync(c)

RedoKeepsTop(c) ==                \* seeded defect: the drawing stays on the stack
    /\ Answered(c, "redo", "ok")
    /\ sheetList' = Merge(sheetList, [id |-> call[c].id, ver |-> 1])
    /\ projectList' = [projectList EXCEPT ![call[c].id] = 1]
    /\ undo' = Pruned(Append(undo, call[c].id), sheetList')
    /\ Resync(c)
    /\ UNCHANGED <<redo, loads>>

RedoOk(c) ==
    /\ Answered(c, "redo", "ok")
    /\ LET i == call[c].id
       IN /\ sheetList' = Merge(sheetList, [id |-> i, ver |-> 1])
          /\ projectList' = [projectList EXCEPT ![i] = 1]
          /\ undo' = Pruned(Append(undo, i), sheetList')
    /\ redo' = IF redo = <<>> THEN redo ELSE Front(redo)
    /\ Resync(c)
    /\ UNCHANGED loads

PatchOk(c) ==
    /\ Answered(c, "patch", "ok")
    /\ sheetList' = Merge(sheetList, [id |-> call[c].id, ver |-> call[c].ver])
    /\ projectList' = [projectList EXCEPT ![call[c].id] = call[c].ver]
    /\ Resync(c)
    /\ UNCHANGED <<stacks, loads>>

PatchConflict(c) ==
    /\ Answered(c, "patch", "conflict")
    /\ Reload(call[c].sheet)
    /\ UNCHANGED <<lists, stacks, timer>>

Forget(c, u) ==
    /\ sheetList' = Without(sheetList, call[c].ids)
    /\ projectList' = [i \in Ids |-> IF i \in call[c].ids THEN 0 ELSE projectList[i]]
    /\ undo' = Pruned(u, sheetList')
    /\ Resync(c)
    /\ UNCHANGED <<redo, loads>>

DeleteOk(c) == Answered(c, "delete", "ok") /\ Forget(c, undo)
UndoOk(c)   == Answered(c, "undo", "ok") /\ Forget(c, IF undo = <<>> THEN undo ELSE Front(undo))

\* A failed undo takes the top of the redo stack back; the others only show an error.
CallError(c) ==
    /\ \E op \in {"create", "redo", "patch", "delete", "undo"} : Answered(c, op, "error")
    /\ redo' = IF call[c].op = "undo" /\ redo # <<>> THEN Front(redo) ELSE redo
    /\ UNCHANGED <<lists, undo, loads, timer>>

Respond(c) ==
    \/ CreateOk(c) \/ RedoOk(c) \/ PatchOk(c) \/ PatchConflict(c)
    \/ DeleteOk(c) \/ UndoOk(c) \/ CallError(c)
Serve(c) ==
    \/ \E i \in Ids : Insert(c, i) \/ Remove1(c, i)
    \/ Compare(c) \/ Write(c)
User(c) ==
    \/ Create(c) \/ DragEnd(c) \/ Undo(c) \/ Redo(c)
    \/ \E i \in Ids : PatchInPanel(c, i) \/ PatchSelected(c, i)
    \/ \E ids \in SUBSET Ids : Delete(c, ids)

\* The workspace with the first drawing of the session on screen.
Init ==
    /\ sheet \in Sheets
    /\ rows = [i \in Ids |-> IF i = 1 THEN [ver |-> 1, sheet |-> sheet, drawing |-> 1] ELSE Absent]
    /\ sheetList = <<[id |-> 1, ver |-> 1]>> /\ undo = <<1>>
    /\ projectList = [i \in Ids |-> rows[i].ver]
    /\ clock = 0
    /\ loads = EmptyBag /\ timer = Off /\ events = 0
    /\ redo = <<>>
    /\ call = [c \in Slots |-> Idle]
    /\ drag = Idle
    /\ landed = [v \in Views |-> 0] /\ inOrder = [v \in Views |-> TRUE]
    /\ silent = {} /\ overlap = FALSE
    /\ ops = 0 /\ upsets = 0

Next ==
    \/ \E c \in Slots : User(c) \/ Serve(c) \/ CallFails(c) \/ Respond(c)
    \/ \E i \in Ids : DragStart(i)
    \/ DragAbandoned
    \/ \E s \in Sheets : SwitchSheet(s)
    \/ \E l \in BagToSet(loads) : Read(l) \/ Land(l) \/ LoadFails(l)
    \/ TimerFires \/ EventArrives \/ Collaborator

Spec == Init /\ [][Next]_vars

-----------------------------------------------------------------------------
SheetAgrees ==
    /\ IsInjective([k \in DOMAIN sheetList |-> sheetList[k].id])
    /\ \A i \in Ids \ silent :
          LET there == i \in Live /\ rows[i].sheet = sheet
          IN (i \in Shown(sheetList) <=> there) /\ (there => Version(sheetList, i) = rows[i].ver)
ProjectAgrees == \A i \in Ids \ silent : projectList[i] = rows[i].ver

\* When nothing is in flight both lists show the server's rows, each once: every change
\* of this browser or of another one is followed by a reload that starts after it.
\* Excepted are a list whose last answer was late, failed or of the sheet left behind,
\* and rows changed by a request that reported an error.
ListsMatchServer ==
    Quiet => /\ inOrder["sheet"] => SheetAgrees
             /\ inOrder["project"] => ProjectAgrees

\* An edit made while the lists are in step replaces the version its author was shown,
\* unless another update came between the comparison and the write.
NoBlindOverwrite ==
    \A c \in Slots :
        call[c].op = "patch" /\ call[c].pc = "write" /\ call[c].basis # None =>
            rows[call[c].id].ver \in {call[c].basis, 0} \/ rows[call[c].id].ver # call[c].seen

\* A drawing is in at most one row, and not in a row and on the redo stack: undo and
\* redo move it.  Excepted are overlapping undos and redos, and requests that took
\* effect but reported an error.
OneRowPerDrawing ==
    ~overlap =>
        /\ \A i, j \in Live \ silent : i # j => rows[i].drawing # rows[j].drawing
        /\ Undoing = {} /\ (\A c \in Slots : call[c].op # "redo") =>
              \A i \in Live \ silent, k \in DOMAIN redo : redo[k].drawing # rows[i].drawing
=============================================================================
