------------------------------- MODULE Panels -------------------------------
(***************************************************************************)
(* What surrounds the canvas: the locks of the measurements, the list of   *)
(* the quantities, the conditions panel, and the section of it that shows  *)
(* the selected condition's assembly.  None gives another anything that it *)
(* keeps, so each behaviour is of one of them, chosen at the start: people *)
(* in a room, or one user at one of the panels.                            *)
(***************************************************************************)
EXTENDS ConditionPanel

CONSTANTS
    Users, Editors,               \* SelectLocks
    Measurements,                 \* SelectLocks, Quantities
    Sheets, SheetOf, Names,       \* Quantities
    Conditions, FirstCondition, MaxLines, MaxLineOps,  \* AssemblyLines
    OpenSections                  \* bound: the sections of this instance

ASSUME RoomAssumption == Editors \subseteq Users /\ "none" \notin Measurements
ASSUME ListAssumption == SheetOf \in [Measurements -> Sheets]
ASSUME SectionsAssumption ==
    /\ MaxId \in Nat /\ MaxId >= 2 /\ MaxOps \in Nat /\ MaxUpsets \in Nat
    /\ FirstCondition \in Conditions /\ MaxLines \in Nat \ {0} /\ MaxLineOps \in Nat
    /\ OpenSections \subseteq {"room", "list", "panel", "lines"}

VARIABLES
    section,
    rows, inSight, selected, tool, here, presence, seen, silent, lockMap, dropped, stale,
    unlooked, untold, raced,
    label, rowExists, listing, rowShown, editing, renaming, name, lock, skip, menu, deleteId, open,
    rowCalls, want, upset,
    lineExists, lineOf, lineSaved, lineCondition, lineItems, lineText, lineLoading, lineLoads,
    lineAdding, lineAdds, lineDeletingId, lineRemovals, linePatches, lineFocus, lineTimer,
    linePreview, linePreviews, lineStrayed, lineUnsaved, lineStolen, lineUntold

Room == INSTANCE SelectLocks WITH listed <- inSight
List == INSTANCE Quantities WITH Rows <- Measurements, listed <- listing, exists <- rowExists,
    shown <- rowShown, calls <- rowCalls, faults <- upsets, MaxFaults <- MaxUpsets
Lines == INSTANCE AssemblyLines WITH exists <- lineExists, of <- lineOf, saved <- lineSaved,
    condition <- lineCondition, items <- lineItems, text <- lineText, loading <-
    lineLoading, loads <- lineLoads, adding <- lineAdding, adds <- lineAdds, deletingId <-
    lineDeletingId, removals <- lineRemovals, patches <- linePatches, focus <- lineFocus,
    timer <- lineTimer, preview <- linePreview, previews <- linePreviews, strayed <-
    lineStrayed, unsaved <- lineUnsaved, stolen <- lineStolen, untold <- lineUntold, faults
    <- upsets, MaxId <- MaxLines, MaxOps <- MaxLineOps, MaxFaults <- MaxUpsets

people == <<rows, inSight, selected, tool, here, presence, seen, silent, lockMap, dropped, stale,
            unlooked, untold, raced>>
quantities == <<label, rowExists, listing, rowShown, editing, renaming, name, lock, skip, menu,
                deleteId, open, rowCalls, want, upset>>
panel == <<server, query, choice, saving, dialogs, calls, told, notes>>
lines == <<lineExists, lineOf, lineSaved, lineCondition, lineItems, lineText, lineLoading,
    lineLoads, lineAdding, lineAdds, lineDeletingId, lineRemovals, linePatches, lineFocus,
    lineTimer, linePreview, linePreviews, lineStrayed, lineUnsaved, lineStolen, lineUntold>>
panels == <<section, people, quantities, panel, lines, ops, upsets>>

NoRoom ==
    /\ rows = 0 /\ inSight = 0 /\ selected = 0 /\ tool = 0 /\ here = 0 /\ presence = 0 /\ seen = 0
    /\ silent = 0 /\ lockMap = 0 /\ dropped = 0 /\ stale = 0 /\ unlooked = 0 /\ untold = 0 /\ raced = 0
NoList ==
    /\ label = 0 /\ rowExists = 0 /\ listing = 0 /\ rowShown = 0 /\ editing = 0 /\ renaming = 0
    /\ name = 0 /\ lock = 0 /\ skip = 0 /\ menu = 0 /\ deleteId = 0 /\ open = 0 /\ rowCalls = 0
    /\ want = 0 /\ upset = 0
NoPanel ==
    /\ exists = 0 /\ rev = 0 /\ next = 0 /\ loaded = 0 /\ listed = 0 /\ shown = 0
    /\ fetch = 0 /\ snap = 0 /\ active = 0 /\ initialised = 0 /\ creating = 0 /\ form = 0
    /\ saving = 0 /\ deleteOpen = 0 /\ importOpen = 0 /\ dupOpen = 0 /\ calls = 0 /\ told = 0
    /\ asked = 0 /\ mine = 0 /\ excuse = 0
NoLines ==
    /\ lineExists = 0 /\ lineOf = 0 /\ lineSaved = 0 /\ lineCondition = 0 /\ lineItems = 0
    /\ lineText = 0 /\ lineLoading = 0 /\ lineLoads = 0 /\ lineAdding = 0 /\ lineAdds = 0
    /\ lineDeletingId = 0 /\ lineRemovals = 0 /\ linePatches = 0 /\ lineFocus = 0 /\ lineTimer = 0
    /\ linePreview = 0 /\ linePreviews = 0 /\ lineStrayed = 0 /\ lineUnsaved = 0 /\ lineStolen = 0
    /\ lineUntold = 0

PanelsInit ==
    /\ section \in OpenSections
    /\ \/ section = "room" /\ Room!Init /\ NoList /\ NoPanel /\ NoLines /\ ops = 0 /\ upsets = 0
       \/ section = "list" /\ List!Init /\ NoRoom /\ NoPanel /\ NoLines
       \/ section = "panel" /\ Init /\ NoRoom /\ NoList /\ NoLines
       \/ section = "lines" /\ Lines!Init /\ NoRoom /\ NoList /\ NoPanel

PanelsNext ==
    \/ section = "room" /\ Room!Next /\ UNCHANGED <<section, quantities, panel, lines, bounds>>
    \/ section = "list" /\ List!Next /\ UNCHANGED <<section, people, panel, lines>>
    \/ section = "panel" /\ Next /\ UNCHANGED <<section, people, quantities, lines>>
    \/ section = "lines" /\ Lines!Next /\ UNCHANGED <<section, people, quantities, panel>>

PanelsSpec == PanelsInit /\ [][PanelsNext]_panels

-----------------------------------------------------------------------------
PanelsTypeOK ==
    CASE section = "room"  -> Room!TypeOK
      [] section = "list"  -> List!TypeOK
      [] section = "panel" -> TypeOK
      [] section = "lines" -> Lines!TypeOK

\* A lock is the selection of its holder and nothing else: deselecting, another tool
\* and leaving release it (sprints/sprint-13.md:60), and a lock on a measurement that is
\* gone means that its deletion was never announced.  Two people hold one measurement
\* only if one of them could not have seen the other's lock.
LocksAreRight ==
    section = "room" => Room!LocksFollowSelection /\ Room!GhostsAreUntold /\ Room!TwoHoldersExplained

\* One field is open, one renaming is in flight, and a row shows the label last
\* submitted for it unless that request was refused or dropped.
NamesAsSubmitted ==
    section = "list" => List!OneFieldOpen /\ List!OneRenameInFlight /\ List!NamesAsSubmitted

\* The selection, the form and the list of conditions belong together.
ChoiceIsRight == section = "panel" => SelectionIsRight

\* The panel's writes go to the condition meant, one at a time; the lines of an assembly
\* are the condition's, and show what is saved and what it amounts to.
ChangesAreRight ==
    /\ section = "panel" => WritesAreRight
    /\ section = "lines" => Lines!LinesAreRight
=============================================================================
