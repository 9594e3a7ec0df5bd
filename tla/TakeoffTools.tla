---------------------------- MODULE TakeoffTools ----------------------------
(***************************************************************************)
(* The tools of the plan workspace: drawing lines, areas and counts, and   *)
(* calibrating a sheet.                                                    *)
(*                                                                         *)
(* Tool, condition, sheet and permission are states of their own, changed  *)
(* by keys, the toolbar, the panels and the answers of requests; effects   *)
(* that depend on some of them reset the drafts.  What is modelled is      *)
(* which draft, dialog and request goes with which tool and sheet.         *)
(***************************************************************************)
EXTENDS Integers, Sequences, SequencesExt, FiniteSets

CONSTANTS
    Sheets,       \* sheets of the plan
    Conditions,   \* conditions of the project
    TypeOf,       \* their measurement_type
    Spots,        \* places on a sheet; two points at one spot are too close to count
    Slots,        \* creations in flight at once
    MaxPoints     \* bound: points of a draft

VARIABLES
    sheet,        \* activeSheetId
    tool,         \* activeTool
    condition,    \* activeConditionId
    canEdit,      \* canEditMeasurements
    scaled,       \* sheets whose scale_value is known to this browser
    line, ring,   \* linearDraft, areaRing
    dots,         \* countPendingDots: the creations they stand for
    posts,        \* creations in flight
    step,         \* scaleStep
    scaleLine,    \* scaleDraft
    measured,     \* the line pendingPdfLength is the length of, while a dialog may show it
    frames,       \* the two animation frames before the distance is asked for
    saving,       \* the calibration in flight
    strayed,      \* history: another sheet was opened while this calibration line was drawn
    hurried       \* history: the user acted before the frames of this line were over

drafts  == <<line, ring, dots>>
flow    == <<tool, step, scaleLine, measured, frames, strayed, hurried>>
vars == <<sheet, condition, canEdit, scaled, drafts, posts, saving, flow>>

Takeoffs == {"linear", "area", "count"}
Tools    == Takeoffs \cup {"select", "scale"}
Points   == [on : Sheets, spot : Spots]
None     == "none"
Idle     == [kind |-> None]

TypeOK ==
    /\ sheet \in Sheets /\ tool \in Tools
    /\ condition \in Conditions \cup {None}
    /\ canEdit \in BOOLEAN /\ scaled \subseteq Sheets
    /\ line \in SeqOf(Points, MaxPoints) /\ ring \in SeqOf(Points, MaxPoints)
    /\ dots \subseteq Slots
    /\ posts \in [Slots -> [kind : Takeoffs, sheet : Sheets, condition : Conditions,
                            from : SUBSET Sheets, size : Nat] \cup {Idle}]
    /\ step \in {"idle", "intro", "picking", "input"}
    /\ scaleLine \in SeqOf(Points, 2) /\ measured \in SeqOf(Points, 2)
    /\ saving = Idle \/ saving \in [kind : {"scale"}, sheet : Sheets, line : SeqOf(Points, 2)]
    /\ frames \in BOOLEAN /\ strayed \in BOOLEAN /\ hurried \in BOOLEAN

-----------------------------------------------------------------------------
(* Effects of a change of tool, sheet, condition or permission.            *)

Cleared == line' = <<>> /\ ring' = <<>> /\ dots' = {}

\* seeded defect: the effect that closes the dialogs is gone
ScaleFlowKeepsDialog(t, may) ==
    /\ tool' = IF t = "scale" /\ ~may THEN "select" ELSE t
    /\ step' = IF tool' = "scale" THEN "intro" ELSE step
    /\ scaleLine' = <<>> /\ measured' = measured
    /\ strayed' = FALSE /\ hurried' = frames
    /\ UNCHANGED frames

\* seeded defect: the first point is there when the tool is picked again
ScaleFlowKeepsPoint(t, may) ==
    /\ tool' = IF t = "scale" /\ ~may THEN "select" ELSE t
    /\ step' = IF tool' = "scale" THEN "intro" ELSE "idle"
    /\ scaleLine' = scaleLine /\ measured' = measured
    /\ strayed' = FALSE /\ hurried' = frames
    /\ UNCHANGED frames

\* The two effects on the scale flow: without the permission its tool is left.
ScaleFlow(t, may) ==
    /\ tool' = IF t = "scale" /\ ~may THEN "select" ELSE t
    /\ step' = IF tool' = "scale" THEN "intro" ELSE "idle"
    /\ scaleLine' = <<>>
    /\ measured' = IF frames THEN measured ELSE <<>>
    /\ strayed' = (strayed /\ (frames \/ saving' # Idle))
    /\ hurried' = frames
    /\ UNCHANGED frames

SetTool(t) ==
    IF t = tool
      THEN UNCHANGED <<flow, drafts>>
      ELSE ScaleFlow(t, canEdit) /\ Cleared

\* A modal dialog takes the keys and the clicks.
Modal == step \in {"intro", "input"}
Frame == UNCHANGED <<sheet, condition, canEdit, scaled, posts, saving>>

-----------------------------------------------------------------------------
(* What the user selects.                                                  *)

\* Toolbar and letters; the button and the letter of the scale tool need the permission.
PickTool(t) ==
    /\ ~Modal /\ t # tool
    /\ t = "scale" => canEdit
    /\ Frame
    /\ SetTool(t)

\* Digits and the toolbar's menu switch the drawing tool to the condition's type.
PickCondition(c) ==
    /\ ~Modal /\ c # condition
    /\ condition' = c
    /\ UNCHANGED <<sheet, canEdit, scaled, posts, saving>>
    /\ IF tool \in Takeoffs /\ TypeOf[c] # tool
         THEN SetTool(TypeOf[c])
         ELSE dots' = {} /\ UNCHANGED <<flow, line, ring>>

\* The condition panel, "None" in the menu and a list without the condition do not.
ConditionSet(c) ==
    /\ c # condition
    /\ condition' = c
    /\ dots' = {}
    /\ UNCHANGED <<sheet, canEdit, scaled, line, ring, posts, saving, flow>>

SelectSheetKeepingDrafts(s) ==    \* seeded defect: nor on the sheet
    /\ ~Modal /\ s # sheet
    /\ sheet' = s
    /\ strayed' = (strayed \/ scaleLine # <<>> \/ frames)
    /\ UNCHANGED <<condition, canEdit, scaled, drafts, posts, saving>>
    /\ UNCHANGED <<tool, step, scaleLine, measured, frames, hurried>>

\* The strip, [ and ], a search result, another plan, a row of the quantities panel.
SelectSheet(s) ==
    /\ ~Modal /\ s # sheet
    /\ sheet' = s
    /\ Cleared
    /\ strayed' = (strayed \/ scaleLine # <<>> \/ frames)
    /\ UNCHANGED <<condition, canEdit, scaled, posts, saving>>
    /\ UNCHANGED <<tool, step, scaleLine, measured, frames, hurried>>

\* The role of the user is another one after a refresh of the session.
PermissionChanges ==
    /\ canEdit' = ~canEdit
    /\ UNCHANGED <<sheet, condition, scaled, posts, saving>>
    /\ IF tool = "scale"
         THEN ScaleFlow(tool, canEdit') /\ Cleared
         ELSE UNCHANGED <<flow, drafts>>

-----------------------------------------------------------------------------
(* Drawing.                                                                *)

Enabled(t) ==
    /\ canEdit /\ tool = t /\ sheet \in scaled
    /\ condition # None /\ TypeOf[condition] = t
Close(d, p) == d # <<>> /\ Last(d).spot = p.spot
Extended(d, p) == IF Close(d, p) THEN d ELSE Append(d, p)
Drawn == UNCHANGED flow

ClickLine(p) ==
    /\ Enabled("linear") /\ Len(line) < MaxPoints
    /\ line' = Extended(line, p)
    /\ Frame /\ Drawn /\ UNCHANGED <<ring, dots>>

ClickArea(p) ==
    /\ Enabled("area") /\ Len(ring) < MaxPoints
    /\ ring' = Extended(ring, p)
    /\ Frame /\ Drawn /\ UNCHANGED <<line, dots>>

Posts(c, kind, pts) ==
    /\ condition # None
    /\ posts[c] = Idle
    /\ posts' = [posts EXCEPT ![c] = [kind |-> kind, sheet |-> sheet, condition |-> condition,
                                      from |-> {p.on : p \in ToSet(pts)}, size |-> Len(pts)]]
    /\ UNCHANGED <<sheet, condition, canEdit, scaled, saving>>

\* Enter, which asks for the tool alone, or a double click: the draft stays meanwhile.
FinishLine(c) ==
    /\ tool = "linear" /\ Len(line) >= 2
    /\ Posts(c, "linear", line)
    /\ Drawn /\ UNCHANGED drafts

FinishRing(c) ==
    /\ tool = "area" /\ Len(ring) >= 3
    /\ Posts(c, "area", ring)
    /\ Drawn /\ UNCHANGED drafts

\* Finished with too few points or without a condition a line is dropped.
DropLine ==
    /\ \/ Enabled("linear") /\ Len(line) = 1
       \/ tool = "linear" /\ Len(line) >= 2 /\ condition = None
    /\ line' = <<>>
    /\ Frame /\ Drawn /\ UNCHANGED <<ring, dots>>

\* A count is sent as it is placed and shown as a dot until the answer.
PlaceCount(c, p) ==
    /\ Enabled("count")
    /\ Posts(c, "count", <<p>>)
    /\ dots' = dots \cup {c}
    /\ Drawn /\ UNCHANGED <<line, ring>>

\* Ctrl+Z takes the last point back before it touches what is saved.
TakeBack ==
    /\ ~Modal
    /\ IF tool = "area" /\ ring # <<>>
         THEN ring' = Front(ring) /\ UNCHANGED line
         ELSE line # <<>> /\ line' = Front(line) /\ UNCHANGED ring
    /\ Frame /\ Drawn /\ UNCHANGED dots

\* Escape: the ring, else the line, else the count tool.
Escape ==
    /\ ~Modal
    /\ Frame
    /\ \/ /\ ring # <<>> /\ ring' = <<>>
          /\ Drawn /\ UNCHANGED <<line, dots>>
       \/ /\ ring = <<>> /\ line # <<>> /\ line' = <<>>
          /\ Drawn /\ UNCHANGED <<ring, dots>>
       \/ ring = <<>> /\ line = <<>> /\ tool = "count" /\ SetTool("select")

-----------------------------------------------------------------------------
(* Answers to the creations.                                               *)

Answered(c) ==
    /\ posts[c] # Idle
    /\ posts' = [posts EXCEPT ![c] = Idle]
    /\ UNCHANGED <<sheet, condition, canEdit, scaled, saving>>

\* The server takes the measurement only under a condition of its type.
Accepted(c) == TypeOf[posts[c].condition] = posts[c].kind

\* A line or an area ends its tool, whatever is being drawn by then.
DrawingSaved(c) ==
    /\ posts[c].kind \in {"linear", "area"} /\ Accepted(c)
    /\ Answered(c)
    /\ IF tool # "select"
         THEN SetTool("select")
         ELSE /\ line' = IF posts[c].kind = "linear" THEN <<>> ELSE line
              /\ ring' = IF posts[c].kind = "area" THEN <<>> ELSE ring
              /\ Drawn /\ UNCHANGED dots

CountForgotten(c) ==              \* seeded defect: the dot of a failed count stays
    /\ posts[c].kind = "count" /\ Accepted(c)
    /\ Answered(c)
    /\ Drawn /\ UNCHANGED drafts

\* A count answers with its row or with an error: the dot goes in both cases.
CountAnswered(c) ==
    /\ posts[c].kind = "count"
    /\ Answered(c)
    /\ dots' = dots \ {c}
    /\ Drawn /\ UNCHANGED <<line, ring>>

DrawingRefused(c) ==
    /\ posts[c].kind \in {"linear", "area"}
    /\ Answered(c)
    /\ Drawn /\ UNCHANGED drafts

-----------------------------------------------------------------------------
(* Calibration.                                                            *)

ContinueIntro ==
    /\ step = "intro"
    /\ step' = "picking"
    /\ Frame /\ UNCHANGED <<tool, drafts, scaleLine, measured, frames, strayed, hurried>>

\* Leaving sets the tool: whether the dialog closes is up to the effect on the tool.
LeaveScale ==
    IF tool # "select" THEN SetTool("select")
    ELSE scaleLine' = <<>> /\ UNCHANGED <<tool, drafts, step, measured, frames, strayed, hurried>>

CancelScale ==
    /\ Modal /\ saving = Idle
    /\ Frame
    /\ LeaveScale

\* The second point ends the line, unless it is where the first one is.
ClickScale(p) ==
    /\ canEdit /\ tool = "scale" /\ step = "picking"
    /\ IF Len(scaleLine) = 1 /\ ~Close(scaleLine, p)
         THEN /\ scaleLine' = Append(scaleLine, p)
              /\ measured' = scaleLine'
              /\ frames' = TRUE
         ELSE scaleLine' = <<p>> /\ UNCHANGED <<measured, frames>>
    /\ hurried' = (hurried \/ frames)
    /\ Frame /\ UNCHANGED <<tool, drafts, step, strayed>>

\* Nothing takes the frames back.
FramesOver ==
    /\ frames
    /\ frames' = FALSE
    /\ step' = "input"
    /\ Frame /\ UNCHANGED <<tool, drafts, scaleLine, measured, strayed, hurried>>

SubmitScale ==
    /\ step = "input" /\ saving = Idle
    /\ saving' = [kind |-> "scale", sheet |-> sheet, line |-> measured]
    /\ UNCHANGED <<sheet, condition, canEdit, scaled, drafts, posts, flow>>

\* Saved, and the sheets were fetched again.
ScaleSaved ==
    /\ saving # Idle
    /\ saving' = Idle
    /\ scaled' = scaled \cup {saving.sheet}
    /\ UNCHANGED <<sheet, condition, canEdit, posts>>
    /\ LeaveScale

\* Not saved, or saved and the sheets could not be fetched: the dialog shows the error.
ScaleNotSaved ==
    /\ saving # Idle
    /\ saving' = Idle
    /\ UNCHANGED <<sheet, condition, canEdit, scaled, drafts, posts, flow>>

-----------------------------------------------------------------------------
Init ==
    /\ sheet \in Sheets /\ tool = "select"
    /\ condition \in Conditions \cup {None}
    /\ canEdit \in BOOLEAN /\ scaled \in SUBSET Sheets
    /\ line = <<>> /\ ring = <<>> /\ dots = {}
    /\ posts = [c \in Slots |-> Idle]
    /\ step = "idle" /\ scaleLine = <<>> /\ measured = <<>> /\ frames = FALSE
    /\ saving = Idle
    /\ strayed = FALSE /\ hurried = FALSE

Click(p) ==
    \/ ClickLine(p) \/ ClickArea(p) \/ ClickScale(p)
    \/ \E c \in Slots : PlaceCount(c, p)

Next ==
    \/ \E t \in Tools : PickTool(t)
    \/ \E c \in Conditions : PickCondition(c)
    \/ \E c \in Conditions \cup {None} : ConditionSet(c)
    \/ \E s \in Sheets : SelectSheet(s)
    \/ PermissionChanges
    \/ \E spot \in Spots : Click([on |-> sheet, spot |-> spot])
    \/ DropLine \/ TakeBack \/ Escape
    \/ \E c \in Slots : FinishLine(c) \/ FinishRing(c) \/ DrawingSaved(c) \/ DrawingRefused(c)
                           \/ CountAnswered(c)
    \/ ContinueIntro \/ CancelScale \/ FramesOver \/ SubmitScale \/ ScaleSaved \/ ScaleNotSaved

Spec == Init /\ [][Next]_vars

-----------------------------------------------------------------------------
\* Points are only kept for the tool and the sheet they were drawn with: what one tool
\* leaves behind is never finished, taken back or shown by another one.
DraftsHaveTheirTool ==
    /\ line # <<>> => tool = "linear"
    /\ ring # <<>> => tool = "area"
    /\ \A p \in ToSet(line \o ring) : p.on = sheet

\* A measurement on its way is drawn on the sheet it is sent for, with enough points,
\* whatever was opened while it was drawn.
MeasurementsAreWhole ==
    \A c \in Slots : posts[c] # Idle =>
        /\ posts[c].from = {posts[c].sheet}
        /\ posts[c].size >= IF posts[c].kind = "area" THEN 3 ELSE IF posts[c].kind = "linear" THEN 2 ELSE 1

\* A dot that is shown is a count on its way, for the sheet and the condition on screen.
DotsAreOnTheirWay ==
    \A c \in dots : posts[c] # Idle /\ posts[c].kind = "count"
                    /\ posts[c].sheet = sheet /\ posts[c].condition = condition

\* The calibration dialogs are open for a user who is calibrating and can leave them,
\* and the length they ask the distance of is that of the line on screen.  Excepted is
\* a user who acts within two frames after the second point.
ScaleDialogHasItsTool ==
    ~hurried => /\ step # "idle" => tool = "scale" /\ canEdit
                /\ step = "input" => measured = scaleLine /\ Len(measured) = 2

\* A sheet is calibrated by a line drawn on that sheet.  Excepted is a line during
\* which another sheet was opened.
CalibratedByOwnLine ==
    saving # Idle /\ ~strayed => {p.on : p \in ToSet(saving.line)} = {saving.sheet}
=============================================================================
