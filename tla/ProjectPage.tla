---------------------------- MODULE ProjectPage ----------------------------
(***************************************************************************)
(* A project's page: it loads the project, then its plans and sheets, adds *)
(* and deletes plans from the top bar, and polls the plan it shows the     *)
(* progress of until that plan is ready.                                   *)
(*                                                                         *)
(* The page stays mounted when the project of the route changes, which is  *)
(* what its own guard against late answers assumes.                        *)
(***************************************************************************)
EXTENDS Integers, FiniteSets

CONSTANTS
    Plans, Projects,
    Home,        \* the project the page is opened on
    MaxOps,      \* bound: what the user does
    MaxFaults    \* bound: requests that fail

VARIABLES
    status, owner,               \* server: state and project of each plan
    here, url, selected,         \* the route's project and ?plan=, and the plan picked
    project, listed,             \* what the page holds: the project, the plans' states
    projectLoading, listLoading, failed, listError, refreshing,
    loads,                       \* loadAll calls in flight
    uploadOpen, upload,          \* the upload dialog and its request
    target, deleting,            \* the plan to delete; the request or the read that follows
    pushed,                      \* a project the router was told to go back to
    polled, report, loops, timer, \* the hook: its plan, what it reports, its polls, timerRef
    told,                        \* history: its final state was reported
    ops, faults

server == <<status, owner>>
route  == <<here, url, selected, pushed>>
held   == <<project, listed, projectLoading, listLoading, failed, listError, refreshing>>
topBar == <<uploadOpen, upload, target, deleting>>
hook   == <<polled, report, loops, timer, told>>
vars == <<server, route, held, loads, topBar, hook, ops, faults>>

None == "none"
Terminal == {"ready", "error"}
States == {"processing", "ready", "error"}
Known(l) == {p \in Plans : l[p] \in States}
Listing(pj) == [p \in Plans |-> IF owner[p] = pj THEN status[p] ELSE "no"]
Empty == [p \in Plans |-> "no"]
LoadKinds == {"page", "ready", "refresh", "delete"}

TypeOK ==
    /\ status \in [Plans -> States \cup {"no"}] /\ owner \in [Plans -> Projects \cup {None}]
    /\ here \in Projects /\ {project, pushed} \subseteq Projects \cup {None}
    /\ {url, selected, polled, target, timer, deleting} \subseteq Plans \cup {None}
    /\ listed \in [Plans -> States \cup {"no"}]
    /\ {projectLoading, listLoading, failed, listError, refreshing, uploadOpen} \subseteq BOOLEAN
    /\ loads \subseteq [for : Projects, kind : LoadKinds, at : {"project", "list", "got"},
                        snap : [Plans -> States \cup {"no"}]]
    /\ upload \in [for : Projects \cup {None}, plan : Plans \cup {None}]
    /\ report \in States \cup {None}
    /\ loops \subseteq [plan : Plans, at : {"asking", "waiting"}]
    /\ told \in BOOLEAN
    /\ ops \in 0..MaxOps /\ faults \in 0..MaxFaults

Op == ops < MaxOps /\ ops' = ops + 1
Fault == faults < MaxFaults /\ faults' = faults + 1

-----------------------------------------------------------------------------
(* Which plan's progress is shown, and the polls.                          *)

\* The first plan in the list that is ready, or else the first.
Resolved(l, sel) ==
    IF sel \in Known(l) THEN sel
    ELSE IF Known(l) = {} THEN None
    ELSE CHOOSE p \in Known(l) : l[p] = "ready" \/ \A q \in Known(l) : l[q] # "ready"

Progress(l, u, sel, loading) ==
    LET p == IF u # None /\ (Known(l) = {} \/ u \in Known(l)) THEN u ELSE Resolved(l, sel)
        shown == IF Known(l) = {} THEN u # None /\ loading ELSE p # None /\ l[p] # "ready"
    IN IF shown THEN p ELSE None

\* A change of plan clears the timer it remembers; a poll being answered is let
\* live, since the flag that should stop it is set and reset at once.
Watch(l, u, sel, loading, drawn) ==
    LET p == IF drawn THEN Progress(l, u, sel, loading) ELSE None
        kept == IF polled = None THEN {} ELSE loops \ {[plan |-> timer, at |-> "waiting"]}
    IN IF p = polled THEN UNCHANGED hook
       ELSE /\ polled' = p /\ report' = None /\ timer' = None /\ told' = FALSE
            /\ loops' = IF p = None THEN {} ELSE kept \cup {[plan |-> p, at |-> "asking"]}

Load(pj, kind) == [for |-> pj, kind |-> kind, at |-> IF kind = "page" THEN "project" ELSE "list", snap |-> Empty]

PollForgetful(l) ==                 \* seeded defect: the page is not told
    /\ l \in loops /\ l.at = "asking" /\ status[l.plan] # "no"
    /\ report' = IF l.plan = polled THEN status[l.plan] ELSE None
    /\ IF status[l.plan] \in Terminal
       THEN loops' = loops \ {l} /\ UNCHANGED timer
       ELSE loops' = (loops \ {l}) \cup {[l EXCEPT !.at = "waiting"]} /\ timer' = l.plan
    /\ told' = (told \/ (l.plan = polled /\ status[l.plan] \in Terminal))
    /\ UNCHANGED <<server, route, held, topBar, polled, loads, ops, faults>>

\* An answer for another plan than the hook's is reset while rendering, and with it
\* whatever was known of the hook's own plan.
PollAnswered(l) ==
    /\ l \in loops /\ l.at = "asking" /\ status[l.plan] # "no"
    /\ report' = IF l.plan = polled THEN status[l.plan] ELSE None
    /\ IF status[l.plan] \in Terminal
       THEN loops' = loops \ {l} /\ UNCHANGED timer
       ELSE loops' = (loops \ {l}) \cup {[l EXCEPT !.at = "waiting"]} /\ timer' = l.plan
    /\ loads' = IF l.plan = polled /\ status[l.plan] = "ready" THEN loads \cup {Load(here, "ready")} ELSE loads
    /\ told' = (told \/ (l.plan = polled /\ status[l.plan] \in Terminal))
    /\ UNCHANGED <<server, route, held, topBar, polled, ops, faults>>

PollFails(l) ==
    /\ l \in loops /\ l.at = "asking"
    /\ IF status[l.plan] = "no" THEN UNCHANGED faults ELSE Fault
    /\ loops' = (loops \ {l}) \cup {[l EXCEPT !.at = "waiting"]} /\ timer' = l.plan
    /\ UNCHANGED <<server, route, held, topBar, loads, polled, report, told, ops>>

PollAgain(l) ==
    /\ l \in loops /\ l.at = "waiting"
    /\ loops' = (loops \ {l}) \cup {[l EXCEPT !.at = "asking"]}
    /\ timer' = IF timer = l.plan THEN None ELSE timer
    /\ UNCHANGED <<server, route, held, topBar, loads, polled, report, told, ops, faults>>

\* The button under a failed plan; nobody polls after it.
RetryPlan ==
    /\ report = "error" /\ polled # None /\ status[polled] = "error" /\ Op
    /\ status' = [status EXCEPT ![polled] = "processing"]
    /\ UNCHANGED <<owner, route, held, loads, topBar, hook, faults>>

Process(p) ==
    /\ status[p] = "processing"
    /\ \E s \in Terminal : status' = [status EXCEPT ![p] = s]
    /\ UNCHANGED <<owner, route, held, loads, topBar, hook, ops, faults>>

-----------------------------------------------------------------------------
(* loadAll.                                                                *)

Pending == UNCHANGED <<server, topBar, ops>>
To(l, at) == (loads \ {l}) \cup {[l EXCEPT !.at = at]}

ProjectArrives(l) ==
    /\ l \in loads /\ l.at = "project"
    /\ IF l.for = here
       THEN /\ project' = here /\ projectLoading' = FALSE /\ loads' = To(l, "list")
            /\ Watch(listed, url, selected, listLoading, ~failed)
       ELSE loads' = loads \ {l} /\ UNCHANGED <<project, projectLoading, hook>>
    /\ UNCHANGED <<route, listed, listLoading, failed, listError, refreshing, faults>> /\ Pending

ListRead(l) ==
    /\ l \in loads /\ l.at = "list"
    /\ loads' = (loads \ {l}) \cup {[l EXCEPT !.at = "got", !.snap = Listing(l.for)]}
    /\ UNCHANGED <<route, held, hook, faults>> /\ Pending

\* ?plan= is followed once it is in the list.
Follow(l) == IF url \in Known(l) THEN url ELSE selected

ListAnywhere(l) ==                  \* seeded defect: a late answer is not told from one in time
    /\ l \in loads /\ l.at = "got" /\ loads' = loads \ {l}
    /\ project' = l.for /\ listed' = l.snap /\ listError' = FALSE
    /\ listLoading' = FALSE
    /\ selected' = Follow(l.snap)
    /\ Watch(l.snap, url, selected', listLoading', ~failed)
    /\ refreshing' = IF l.kind \in {"refresh", "delete"} THEN FALSE ELSE refreshing
    /\ IF l.kind = "delete" THEN deleting' = None /\ target' = None ELSE UNCHANGED <<deleting, target>>
    /\ UNCHANGED <<server, here, url, pushed, projectLoading, failed, uploadOpen, upload, ops, faults>>

ListArrives(l) ==
    /\ l \in loads /\ l.at = "got" /\ loads' = loads \ {l}
    /\ IF l.for = here
       THEN /\ project' = here /\ listed' = l.snap /\ listError' = FALSE
            /\ listLoading' = IF l.kind = "page" THEN FALSE ELSE listLoading
            /\ selected' = Follow(l.snap)
            /\ Watch(l.snap, url, selected', listLoading', ~failed)
       ELSE UNCHANGED <<project, listed, listError, listLoading, selected, hook>>
    /\ refreshing' = IF l.kind \in {"refresh", "delete"} THEN FALSE ELSE refreshing
    /\ IF l.kind = "delete" THEN deleting' = None /\ target' = None ELSE UNCHANGED <<deleting, target>>
    /\ UNCHANGED <<server, here, url, pushed, projectLoading, failed, uploadOpen, upload, ops, faults>>

\* A silent read that fails says nothing to anybody.
LoadFails(l) ==
    /\ l \in loads /\ l.at # "got" /\ Fault /\ loads' = loads \ {l}
    /\ IF l.kind = "page" /\ l.for = here
       THEN /\ projectLoading' = FALSE /\ listLoading' = FALSE
            /\ failed' = (failed \/ l.at = "project") /\ listError' = (listError \/ l.at = "list")
            /\ project' = IF l.at = "project" THEN None ELSE project
            /\ Watch(listed, url, selected, FALSE, project' # None)
       ELSE UNCHANGED <<projectLoading, listLoading, failed, listError, project, hook>>
    /\ refreshing' = IF l.kind \in {"refresh", "delete"} THEN FALSE ELSE refreshing
    /\ IF l.kind = "delete" THEN deleting' = None /\ target' = None ELSE UNCHANGED <<deleting, target>>
    /\ UNCHANGED <<server, route, listed, uploadOpen, upload, ops>>

-----------------------------------------------------------------------------
(* What the user does.                                                     *)

Page == project # None /\ ~failed

Enter(pj) ==
    /\ here' = pj
    /\ project' = None /\ listed' = Empty /\ failed' = FALSE /\ listError' = FALSE
    /\ projectLoading' = TRUE /\ listLoading' = TRUE
    /\ loads' = loads \cup {Load(pj, "page")}
    /\ polled' = None /\ report' = None /\ loops' = {} /\ timer' = None /\ told' = FALSE

Navigate(pj) ==
    /\ pj # here /\ pushed = None /\ Op
    /\ Enter(pj) /\ url' = None
    /\ UNCHANGED <<server, selected, pushed, refreshing, topBar, faults>>

\* The router.replace of an upload that ended on another project's page.
Pushed ==
    /\ pushed # None /\ pushed' = None
    /\ IF pushed = here THEN UNCHANGED <<here, held, loads, hook>> ELSE Enter(pushed) /\ UNCHANGED refreshing
    /\ UNCHANGED <<server, url, selected, topBar, ops, faults>>

SelectPlan(p) ==
    /\ Page /\ p \in Known(listed) /\ p # url /\ Op
    /\ url' = p /\ selected' = p
    /\ Watch(listed, p, p, listLoading, TRUE)
    /\ UNCHANGED <<server, here, pushed, held, loads, topBar, faults>>

\* The button beside the error, and the viewer's wish for fresh sheets.
Reload ==
    /\ Page /\ listError /\ ~listLoading /\ Op
    /\ projectLoading' = TRUE /\ listLoading' = TRUE /\ listError' = FALSE /\ failed' = FALSE
    /\ loads' = loads \cup {Load(here, "page")}
    /\ Watch(listed, url, selected, TRUE, TRUE)
    /\ UNCHANGED <<server, route, project, listed, refreshing, topBar, faults>>

Refresh ==
    /\ Page /\ ~listLoading /\ Known(listed) # {} /\ Op
    /\ refreshing' = TRUE /\ listError' = FALSE
    /\ loads' = loads \cup {Load(here, "refresh")}
    /\ UNCHANGED <<server, route, project, listed, projectLoading, listLoading, failed, topBar, hook, faults>>

Bar == UNCHANGED <<server, route, held, loads, hook, faults>>

OpenUpload(open) ==
    /\ Page /\ open # uploadOpen /\ target = None
    /\ uploadOpen' = open
    /\ Bar /\ UNCHANGED <<upload, target, deleting, ops>>

NoUpload == [for |-> None, plan |-> None]
Uploading == upload # NoUpload

Upload ==
    /\ Page /\ uploadOpen /\ ~Uploading /\ Op
    /\ upload' = [for |-> here, plan |-> None]
    /\ Bar /\ UNCHANGED <<uploadOpen, target, deleting>>

UploadSaved(p) ==
    /\ Uploading /\ upload.plan = None /\ owner[p] = None
    /\ owner' = [owner EXCEPT ![p] = upload.for]
    /\ status' = [status EXCEPT ![p] = "processing"]
    /\ upload' = [upload EXCEPT !.plan = p]
    /\ UNCHANGED <<route, held, loads, uploadOpen, target, deleting, hook, ops, faults>>

UploadFails ==
    /\ Uploading /\ upload.plan = None /\ Fault
    /\ upload' = NoUpload
    /\ UNCHANGED <<server, route, held, loads, uploadOpen, target, deleting, hook, ops>>

\* The plan is put into whatever list is there, and the router sent to its project.
UploadOk ==
    /\ Uploading /\ upload.plan # None
    /\ upload' = NoUpload /\ uploadOpen' = FALSE
    /\ url' = upload.plan /\ selected' = upload.plan
    /\ pushed' = IF upload.for = here THEN pushed ELSE upload.for
    /\ listed' = [listed EXCEPT ![upload.plan] = "processing"]
    /\ Watch(listed', url', selected', listLoading, project # None /\ ~failed)
    /\ UNCHANGED <<server, here, project, projectLoading, listLoading, failed, listError, refreshing,
                   loads, target, deleting, ops, faults>>

AskDelete(p) ==
    /\ Page /\ target = None /\ ~uploadOpen /\ p \in Known(listed) /\ Cardinality(Known(listed)) > 1
    /\ target' = p
    /\ Bar /\ UNCHANGED <<uploadOpen, upload, deleting, ops>>

KeepPlan ==
    /\ target # None /\ deleting = None /\ target' = None
    /\ Bar /\ UNCHANGED <<uploadOpen, upload, deleting, ops>>

Delete ==
    /\ target # None /\ deleting = None /\ deleting' = target /\ Op
    /\ Bar /\ UNCHANGED <<uploadOpen, upload, target>>

Siblings(p) == {q \in Plans : owner[q] = owner[p] /\ status[q] # "no"}

\* The server keeps the last plan of a project; the page drops a deleted one before
\* it reads the list again.
DeleteOk ==
    /\ deleting # None /\ status[deleting] # "no" /\ Cardinality(Siblings(deleting)) > 1
    /\ ~\E l \in loads : l.kind = "delete"
    /\ status' = [status EXCEPT ![deleting] = "no"]
    /\ listed' = [listed EXCEPT ![deleting] = "no"]
    /\ selected' = IF selected = deleting THEN None ELSE selected
    /\ refreshing' = TRUE /\ listError' = FALSE
    /\ loads' = loads \cup {Load(here, "delete")}
    /\ Watch(listed', url, selected', listLoading, project # None /\ ~failed)
    /\ UNCHANGED <<owner, here, url, pushed, project, projectLoading, listLoading, failed,
                   uploadOpen, upload, target, deleting, ops, faults>>

DeleteFails ==
    /\ deleting # None /\ ~\E l \in loads : l.kind = "delete"
    /\ IF status[deleting] = "no" \/ Cardinality(Siblings(deleting)) <= 1 THEN UNCHANGED faults ELSE Fault
    /\ deleting' = None
    /\ UNCHANGED <<server, route, held, loads, uploadOpen, upload, target, hook, ops>>

-----------------------------------------------------------------------------
Init ==
    /\ owner \in {[p \in Plans |-> IF p \in s THEN Home ELSE None] : s \in SUBSET Plans}
    /\ status \in [Plans -> {"no", "processing"}]
    /\ \A p \in Plans : (status[p] = "no") = (owner[p] = None)
    /\ here = Home /\ url \in {p \in Plans : status[p] # "no"} \cup {None} /\ selected = url /\ pushed = None
    /\ project = None /\ listed = Empty /\ projectLoading = TRUE /\ listLoading = TRUE
    /\ failed = FALSE /\ listError = FALSE /\ refreshing = FALSE
    /\ loads = {Load(Home, "page")}
    /\ uploadOpen = FALSE /\ upload = NoUpload /\ target = None /\ deleting = None
    /\ polled = None /\ report = None /\ loops = {} /\ timer = None
    /\ told = FALSE /\ ops = 0 /\ faults = 0

Next ==
    \/ \E l \in loops : PollAnswered(l) \/ PollFails(l) \/ PollAgain(l)
    \/ \E p \in Plans : Process(p) \/ SelectPlan(p) \/ UploadSaved(p) \/ AskDelete(p)
    \/ \E l \in loads : ProjectArrives(l) \/ ListRead(l) \/ ListArrives(l) \/ LoadFails(l)
    \/ \E pj \in Projects : Navigate(pj)
    \/ \E open \in BOOLEAN : OpenUpload(open)
    \/ RetryPlan \/ Pushed \/ Reload \/ Refresh \/ Upload \/ UploadFails \/ UploadOk
    \/ KeepPlan \/ Delete \/ DeleteOk \/ DeleteFails

Spec == Init /\ [][Next]_vars

-----------------------------------------------------------------------------
\* The page holds the project of its route and plans of no other, whatever answers
\* arrive late.  Excepted: until the router has gone back, a plan whose upload ended
\* after the user left.
PageShowsProject ==
    /\ project \in {here, None}
    /\ pushed = None => \A p \in Known(listed) : owner[p] = here

\* A spinner has a read to wait for.
SpinnersEnd ==
    projectLoading \/ listLoading => \E l \in loads : l.for = here /\ l.kind = "page"

\* A deletion that is being carried out keeps its dialog, and its target.
DeletesItsTarget == deleting # None => target = deleting

\* A plan whose progress is shown is polled until its end is told, and one told to be
\* ready is being read again, until the list says so too or the plan is gone.
ReadyIsNoticed ==
    polled # None =>
        /\ told \/ \E l \in loops : l.plan = polled
        /\ report = "ready" /\ owner[polled] = here /\ status[polled] # "no" =>
              faults > 0 \/ \E l \in loads : l.for = here /\ (l.at # "got" \/ l.snap[polled] = "ready")

ProjectIsRight == PageShowsProject /\ SpinnersEnd /\ DeletesItsTarget
=============================================================================
