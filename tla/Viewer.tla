------------------------------- MODULE Viewer -------------------------------
(***************************************************************************)
(* The plan viewer's parts side by side: the canvas, the drawing tools and *)
(* the sheet strip.  They share nothing but the sheet on screen, so each   *)
(* behaviour has one of them in use, chosen at the start.                  *)
(***************************************************************************)
EXTENDS Integers, Sequences, FiniteSets

CONSTANTS
    Sheets, PlanOf, Zooms,                                   \* PlanCanvas
    ToolSheets, Conditions, TypeOf, Spots, Slots, MaxPoints, \* TakeoffTools
    StripSheets, Manual, MaxRenames,                         \* SheetStrip
    MaxOps, MaxFaults

ASSUME ViewerAssumption ==
    /\ 1 \in Zooms /\ TypeOf \in [Conditions -> {"linear", "area", "count"}]
    /\ MaxPoints \in Nat /\ MaxRenames \in Nat /\ MaxOps \in Nat /\ MaxFaults \in Nat

VARIABLES
    part,
    sheet, ops, faults,
    url, urlCall, pdf, pdfCall, view, pan, token, tasks, viewport, overlay, picture, rects,
    query, centred, gestures,
    tool, condition, canEdit, scaled, line, ring, dots, posts, step, scaleLine, measured,
    frames, saving, strayed, hurried,
    row, clock, task, event, list, optimistic, editing, confirm, renames, loads, spinner,
    abort, pending, finish, loop, seen, overtaken

Canvas == INSTANCE PlanCanvas
Tools  == INSTANCE TakeoffTools WITH Sheets <- ToolSheets
Strip  == INSTANCE SheetStrip WITH Sheets <- StripSheets, MaxOps <- MaxRenames

shared == <<sheet, ops, faults>>
canvas == <<url, urlCall, pdf, pdfCall, view, pan, token, tasks, viewport, overlay, picture,
            rects, query, centred, gestures>>
tools  == <<tool, condition, canEdit, scaled, line, ring, dots, posts, step, scaleLine,
            measured, frames, saving, strayed, hurried>>
strip  == <<row, clock, task, event, list, optimistic, editing, confirm, renames, loads,
            spinner, abort, pending, finish, loop, seen, overtaken>>
vars   == <<part, shared, canvas, tools, strip>>

NoCanvas ==
    /\ url = 0 /\ urlCall = 0 /\ pdf = 0 /\ pdfCall = 0 /\ view = 0 /\ pan = 0 /\ token = 0
    /\ tasks = 0 /\ viewport = 0 /\ overlay = 0 /\ picture = 0 /\ rects = 0 /\ query = 0
    /\ centred = 0 /\ gestures = 0
NoTools ==
    /\ tool = 0 /\ condition = 0 /\ canEdit = 0 /\ scaled = 0 /\ line = 0 /\ ring = 0 /\ dots = 0
    /\ posts = 0 /\ step = 0 /\ scaleLine = 0 /\ measured = 0 /\ frames = 0 /\ saving = 0
    /\ strayed = 0 /\ hurried = 0
NoStrip ==
    /\ row = 0 /\ clock = 0 /\ task = 0 /\ event = 0 /\ list = 0 /\ optimistic = 0 /\ editing = 0
    /\ confirm = 0 /\ renames = 0 /\ loads = 0 /\ spinner = 0 /\ abort = 0 /\ pending = 0
    /\ finish = 0 /\ loop = 0 /\ seen = 0 /\ overtaken = 0

Init ==
    \/ part = "canvas" /\ Canvas!Init /\ NoTools /\ NoStrip
    \/ part = "tools" /\ Tools!Init /\ NoCanvas /\ NoStrip /\ ops = 0 /\ faults = 0
    \/ part = "strip" /\ Strip!Init /\ NoCanvas /\ NoTools /\ sheet = 0

Next ==
    \/ part = "canvas" /\ Canvas!Next /\ UNCHANGED <<part, tools, strip>>
    \/ part = "tools" /\ Tools!Next /\ UNCHANGED <<part, ops, faults, canvas, strip>>
    \/ part = "strip" /\ Strip!Next /\ UNCHANGED <<part, sheet, canvas, tools>>

Spec == Init /\ [][Next]_vars

-----------------------------------------------------------------------------
TypeOK ==
    CASE part = "canvas" -> Canvas!TypeOK
      [] part = "tools"  -> Tools!TypeOK
      [] part = "strip"  -> Strip!TypeOK

\* When nothing is awaited the canvas, its overlays and the matches are of the sheet
\* and the zoom on screen, and at all times the document is that of the sheet's plan
\* and a focus asked for on one sheet moves no other.
CanvasIsRight ==
    part = "canvas" => Canvas!CanvasShowsSheet /\ Canvas!DocumentOfPlan /\ Canvas!FocusStaysOnSheet

\* A measurement that is sent was drawn whole on its sheet with the tool in use, a dot
\* that is shown is a count on its way there, and the calibration dialogs ask for the
\* length of the line on screen, which was drawn on the sheet that it calibrates.
DrawingsAreWhole ==
    part = "tools" =>
        /\ Tools!DraftsHaveTheirTool /\ Tools!MeasurementsAreWhole /\ Tools!DotsAreOnTheirWay
        /\ Tools!ScaleDialogHasItsTool /\ Tools!CalibratedByOwnLine

\* When nothing is under way the strip shows the server's names, and the button's
\* spinner has somebody to end it.
NamesShown == part = "strip" => Strip!NamesShown /\ Strip!SpinnerHasItsEnd
=============================================================================
