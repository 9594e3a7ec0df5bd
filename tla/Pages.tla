------------------------------- MODULE Pages --------------------------------
(***************************************************************************)
(* The pages outside the plan viewer - the projects, a project, the        *)
(* templates, the team, the subscription - and one part of the viewer that *)
(* shares nothing with the rest of it, the button of the AI runs.  None    *)
(* keeps anything for another, so each behaviour is on one of them, chosen *)
(* at the start.                                                           *)
(***************************************************************************)
EXTENDS Integers, FiniteSets

CONSTANTS
    Plans, Projects, Home,        \* ProjectPage
    Templates, MaxLibraryOps,     \* TemplateLibrary
    People, Seats, MaxTeamOps,    \* TeamPage
    MaxQty, MaxBillingOps,        \* BillingPage
    MaxProjects,                  \* ProjectList
    MaxRuns, MaxReads,            \* AutoTakeoff
    MaxPageOps,                   \* ProjectPage, ProjectList, AutoTakeoff
    MaxUpsets                     \* bound: requests that fail

ASSUME PagesAssumption ==
    /\ Home \in Projects /\ MaxProjects \in Nat /\ MaxProjects >= 2 /\ IsFiniteSet(People)
    /\ {MaxQty, MaxReads} \subseteq Nat \ {0} /\ {MaxRuns, Seats} \subseteq Nat
    /\ {MaxPageOps, MaxLibraryOps, MaxTeamOps, MaxBillingOps, MaxUpsets} \subseteq Nat
ASSUME NoneIsNobody == "none" \notin Plans \cup Projects \cup Templates \cup People

VARIABLES
    page,
    status, owner, here, url, selected, pushed, project, plans, projectLoading, listLoading,
    failed, listError, refreshing, loads, uploadOpen, upload, target, deleting, polled, report,
    loops, timer, pollTold,
    version, list, libLoading, libRefreshing, libFailed, libReads, editing, fetching, libForm, gets,
    libSaving, saves, libTarget, libDeleting, deletes, crossed, libSeen, untold,
    role, off, invited, members, pending, room, teamLoading, teamReads, showInvite, email, inviting,
    teamTarget, teamCalls, confirmed, chosen, teamSeen, aside,
    summary, seatLoading, seatLoads, addOpen, qty, seatTimer, preview, previewing, asks, adding,
    charges, removeOpen, removeQty, removing, drops, going,
    plExists, plRev, plBare, plLoaded, plListed, plShown, plFetch, plSnap, plNewOpen, plSubmitting,
    plCreations, plEditing, plSaving, plEdits, plTarget, plConfirmName, plBusy, plDeletes,
    plTypedHere, plKept, plUntold, plBehind,
    aiRuns, aiEvents, aiPlan, aiRun, aiAsks, aiAnswers, aiSubmitting, aiCalls, aiBehind, aiInOrder,
    aiStrayed,
    ops, upsets

Project == INSTANCE ProjectPage WITH listed <- plans, told <- pollTold, faults <- upsets,
    MaxOps <- MaxPageOps, MaxFaults <- MaxUpsets
Library == INSTANCE TemplateLibrary WITH loading <- libLoading, refreshing <- libRefreshing,
    failed <- libFailed, reads <- libReads, target <- libTarget, deleting <- libDeleting,
    seen <- libSeen, form <- libForm, saving <- libSaving, faults <- upsets,
    MaxOps <- MaxLibraryOps, MaxFaults <- MaxUpsets
Team == INSTANCE TeamPage WITH loading <- teamLoading, reads <- teamReads, target <- teamTarget,
    seen <- teamSeen, calls <- teamCalls, MaxOps <- MaxTeamOps
Billing == INSTANCE BillingPage WITH loading <- seatLoading, loads <- seatLoads,
    timer <- seatTimer, faults <- upsets, MaxOps <- MaxBillingOps, MaxFaults <- MaxUpsets

List == INSTANCE ProjectList WITH exists <- plExists, rev <- plRev, bare <- plBare, loaded <-
    plLoaded, listed <- plListed, shown <- plShown, fetch <- plFetch, snap <- plSnap, newOpen <-
    plNewOpen, submitting <- plSubmitting, creations <- plCreations, editing <- plEditing,
    saving <- plSaving, edits <- plEdits, target <- plTarget, confirmName <- plConfirmName, busy
    <- plBusy, deletes <- plDeletes, typedHere <- plTypedHere, kept <- plKept, untold <-
    plUntold, behind <- plBehind, faults <- upsets, MaxId <- MaxProjects, MaxOps <- MaxPageOps,
    MaxFaults <- MaxUpsets
Button == INSTANCE AutoTakeoff WITH runs <- aiRuns, events <- aiEvents, plan <- aiPlan, run <-
    aiRun, asks <- aiAsks, answers <- aiAnswers, submitting <- aiSubmitting, calls <- aiCalls,
    behind <- aiBehind, inOrder <- aiInOrder, strayed <- aiStrayed, faults <- upsets, MaxOps <- MaxPageOps, MaxFaults <- MaxUpsets

projectPage == <<status, owner, here, url, selected, pushed, project, plans, projectLoading,
    listLoading, failed, listError, refreshing, loads, uploadOpen, upload, target, deleting,
    polled, report, loops, timer, pollTold>>
library == <<version, list, libLoading, libRefreshing, libFailed, libReads, editing, fetching, libForm,
             gets, libSaving, saves, libTarget, libDeleting, deletes, crossed, libSeen, untold>>
team == <<role, off, invited, members, pending, room, teamLoading, teamReads, showInvite, email,
          inviting, teamTarget, teamCalls, confirmed, chosen, teamSeen, aside>>
billing == <<summary, seatLoading, seatLoads, addOpen, qty, seatTimer, preview, previewing, asks,
             adding, charges, removeOpen, removeQty, removing, drops, going>>
projectList == <<plExists, plRev, plBare, plLoaded, plListed, plShown, plFetch, plSnap,
    plNewOpen, plSubmitting, plCreations, plEditing, plSaving, plEdits, plTarget, plConfirmName,
    plBusy, plDeletes, plTypedHere, plKept, plUntold, plBehind>>
button == <<aiRuns, aiEvents, aiPlan, aiRun, aiAsks, aiAnswers, aiSubmitting, aiCalls, aiBehind,
    aiInOrder, aiStrayed>>
rest == <<library, team, billing>>
parts == <<projectList, button>>
pages == <<page, projectPage, rest, parts, ops, upsets>>

NoProject ==
    /\ status = 0 /\ owner = 0 /\ here = 0 /\ url = 0 /\ selected = 0 /\ pushed = 0
    /\ project = 0 /\ plans = 0 /\ projectLoading = 0 /\ listLoading = 0 /\ failed = 0
    /\ listError = 0 /\ refreshing = 0 /\ loads = 0 /\ uploadOpen = 0 /\ upload = 0 /\ target = 0
    /\ deleting = 0 /\ polled = 0 /\ report = 0 /\ loops = 0 /\ timer = 0 /\ pollTold = 0
NoLibrary ==
    /\ version = 0 /\ list = 0 /\ libLoading = 0 /\ libRefreshing = 0 /\ libFailed = 0
    /\ libReads = 0 /\ editing = 0 /\ fetching = 0 /\ libForm = 0 /\ gets = 0 /\ libSaving = 0
    /\ saves = 0 /\ libTarget = 0 /\ libDeleting = 0 /\ deletes = 0 /\ crossed = 0 /\ libSeen = 0
    /\ untold = 0
NoTeam ==
    /\ role = 0 /\ off = 0 /\ invited = 0 /\ members = 0 /\ pending = 0 /\ room = 0
    /\ teamLoading = 0 /\ teamReads = 0 /\ showInvite = 0 /\ email = 0 /\ inviting = 0
    /\ teamTarget = 0 /\ teamCalls = 0 /\ confirmed = 0 /\ chosen = 0 /\ teamSeen = 0 /\ aside = 0
NoBilling ==
    /\ summary = 0 /\ seatLoading = 0 /\ seatLoads = 0 /\ addOpen = 0 /\ qty = 0 /\ seatTimer = 0
    /\ preview = 0 /\ previewing = 0 /\ asks = 0 /\ adding = 0 /\ charges = 0 /\ removeOpen = 0
    /\ removeQty = 0 /\ removing = 0 /\ drops = 0 /\ going = 0

NoList ==
    /\ plExists = 0 /\ plRev = 0 /\ plBare = 0 /\ plLoaded = 0 /\ plListed = 0 /\ plShown = 0
    /\ plFetch = 0 /\ plSnap = 0 /\ plNewOpen = 0 /\ plSubmitting = 0 /\ plCreations = 0 /\ plEditing = 0
    /\ plSaving = 0 /\ plEdits = 0 /\ plTarget = 0 /\ plConfirmName = 0 /\ plBusy = 0 /\ plDeletes = 0
    /\ plTypedHere = 0 /\ plKept = 0 /\ plUntold = 0 /\ plBehind = 0
NoButton ==
    /\ aiRuns = 0 /\ aiEvents = 0 /\ aiPlan = 0 /\ aiRun = 0 /\ aiAsks = 0 /\ aiAnswers = 0
    /\ aiSubmitting = 0 /\ aiCalls = 0 /\ aiBehind = 0 /\ aiInOrder = 0 /\ aiStrayed = 0
NoParts == NoList /\ NoButton
NoPages == NoProject /\ NoLibrary /\ NoTeam /\ NoBilling

PagesInit ==
    \/ page = "project" /\ Project!Init /\ NoLibrary /\ NoTeam /\ NoBilling /\ NoParts
    \/ page = "templates" /\ Library!Init /\ NoProject /\ NoTeam /\ NoBilling /\ NoParts
    \/ page = "team" /\ Team!Init /\ NoProject /\ NoLibrary /\ NoBilling /\ NoParts
    \/ page = "billing" /\ Billing!Init /\ NoProject /\ NoLibrary /\ NoTeam /\ NoParts
    \/ page = "projects" /\ List!Init /\ NoPages /\ NoButton
    \/ page = "takeoff" /\ Button!Init /\ NoPages /\ NoList

PagesNext ==
    \/ page = "project" /\ Project!Next /\ UNCHANGED <<page, rest, parts>>
    \/ page = "templates" /\ Library!Next /\ UNCHANGED <<page, projectPage, team, billing, parts>>
    \/ page = "team" /\ Team!Next /\ UNCHANGED <<page, projectPage, library, billing, parts>>
    \/ page = "billing" /\ Billing!Next /\ UNCHANGED <<page, projectPage, library, team, parts>>
    \/ page = "projects" /\ List!Next /\ UNCHANGED <<page, projectPage, rest, button>>
    \/ page = "takeoff" /\ Button!Next /\ UNCHANGED <<page, projectPage, rest, projectList>>

PagesSpec == PagesInit /\ [][PagesNext]_pages

-----------------------------------------------------------------------------
PagesTypeOK ==
    CASE page = "project"   -> Project!TypeOK
      [] page = "templates" -> Library!TypeOK
      [] page = "team"      -> Team!TypeOK
      [] page = "billing"   -> Billing!TypeOK
      [] page = "projects"  -> List!TypeOK
      [] page = "takeoff"   -> Button!TypeOK

\* The projects: a project's page holds the plans of the project of its route, its
\* spinners end, it deletes the plan it asked about, and a plan that is ready is noticed.
\* The list leaves no project without a cover, removes the one whose name was typed and
\* follows the server.  The button of the AI runs is about the plan on the screen.
ProjectsAreRight ==
    /\ page = "project" => Project!ProjectIsRight /\ Project!ReadyIsNoticed
    /\ page = "projects" => List!ProjectListIsRight
    /\ page = "takeoff" => Button!RunIsShown

\* A template is saved where it was read, and the list follows the library.
TemplatesAreRight == page = "templates" => Library!TemplatesAreRight

\* The settings: the team's lists follow the organization and its members have what was
\* chosen for them; the estimate settles on the quantity and a purchase is made once.
SettingsAreRight ==
    /\ page = "team" => Team!TeamIsRight
    /\ page = "billing" => Billing!SeatsAreEstimated
=============================================================================
