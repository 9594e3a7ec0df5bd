----------------------------- MODULE PlanCanvas -----------------------------
(***************************************************************************)
(* How the sheet on screen gets its picture.                               *)
(*                                                                         *)
(* The workspace asks for the URL of the plan's document, PlanPdfCanvas    *)
(* loads the document and renders the page of the sheet in steps that      *)
(* await pdf.js; a newer render makes the older ones stale by a token.     *)
(* Zooming, fitting and focusing await the page too, and the sheet may     *)
(* change meanwhile.                                                       *)
(***************************************************************************)
EXTENDS Integers, FiniteSets

CONSTANTS
    Sheets, PlanOf,   \* the plan of each sheet
    Zooms,            \* zoom multipliers; 1 among them
    MaxOps,           \* bound: what the user does
    MaxFaults         \* bound: requests that fail

VARIABLES
    sheet,       \* the active sheet: its id is the viewport key, its page the page number
    url,         \* docBundle: the plan whose URL is known
    urlCall,     \* the plan whose URL is asked for; a cancelled call has no effect
    pdf,         \* pdfRef: the plan whose document is loaded
    pdfCall,     \* the plan whose document is being loaded
    view,        \* fitMode and zoomMultiplier
    pan,         \* what the pan was computed for
    token,       \* renderTokenRef
    tasks,       \* renderings in progress
    viewport,    \* viewportRef and pageCssSize: the page and view they belong to
    overlay,     \* pageViewport: what the overlays are drawn with
    picture,     \* the canvas
    rects,       \* searchRects
    query,       \* whether a text is searched
    centred,     \* centeredForKeyRef
    gestures,    \* zoom, fit and focus waiting for their page
    ops, faults

document == <<url, urlCall, pdf, pdfCall>>
screen   == <<viewport, overlay, picture, rects>>
vars == <<sheet, document, view, pan, token, tasks, screen, query, centred, gestures, ops, faults>>

None  == "none"
Blank == [sheet |-> None]
Fits  == {"page", "width"}
Views == [fit : Fits, zoom : Zooms]
FitPage == [fit |-> "page", zoom |-> 1]
Page(s, v) == [sheet |-> s, view |-> v]

Init ==
    /\ sheet \in Sheets
    /\ url = None /\ urlCall = PlanOf[sheet] /\ pdf = None /\ pdfCall = None
    /\ view = FitPage /\ pan = [how |-> "origin", of |-> None]
    /\ token = 0 /\ tasks = {}
    /\ viewport = Blank /\ overlay = Blank /\ picture = Blank /\ rects = Blank
    /\ query = FALSE /\ centred = None /\ gestures = {}
    /\ ops = 0 /\ faults = 0

-----------------------------------------------------------------------------
(* The effects that follow a change.                                       *)

\* seeded defect: the older renderings stay current
RenderingUnmarked(s, p) ==
    /\ token' = token
    /\ tasks' = {t \in tasks : t.pc # "render"}
                   \cup IF p = None THEN {} ELSE {[token |-> token, sheet |-> s, pc |-> "page"]}

\* renderPage: a new token, the running render is cancelled, the page is awaited.
Rendering(s, p) ==
    /\ token' = token + 1
    /\ tasks' = {t \in tasks : t.pc # "render"}
                   \cup IF p = None THEN {} ELSE {[token |-> token + 1, sheet |-> s, pc |-> "page"]}

\* Once per sheet, as soon as some size is known.
Centring(s, key, size) ==
    IF key # s /\ size # Blank
      THEN centred' = s /\ pan' = [how |-> "centre", of |-> size.sheet]
      ELSE centred' = key /\ UNCHANGED pan

DocumentedLate(u, s) ==           \* seeded defect: the document stays until the next one is there
    /\ pdf' = pdf
    /\ pdfCall' = u
    /\ overlay' = Blank
    /\ Rendering(s, pdf)

\* A document URL, or none, replaces the document on screen.
Documented(u, s) ==
    /\ pdf' = None
    /\ pdfCall' = u
    /\ overlay' = Blank
    /\ Rendering(s, None)

-----------------------------------------------------------------------------
(* The document.                                                           *)

Faulty == faults < MaxFaults /\ faults' = faults + 1

UrlArrives ==
    /\ urlCall # None
    /\ url' = urlCall /\ urlCall' = None
    /\ Documented(urlCall, sheet)
    /\ UNCHANGED <<sheet, view, pan, viewport, picture, rects, query, centred, gestures, ops, faults>>

UrlFails ==
    /\ urlCall # None
    /\ Faulty
    /\ url' = None /\ urlCall' = None
    /\ Documented(None, sheet)
    /\ UNCHANGED <<sheet, view, pan, viewport, picture, rects, query, centred, gestures, ops>>

\* The end of loading is what starts the first rendering.
PdfArrives ==
    /\ pdfCall # None
    /\ pdf' = pdfCall /\ pdfCall' = None
    /\ Rendering(sheet, pdfCall)
    /\ UNCHANGED <<sheet, url, urlCall, view, pan, screen, query, centred, gestures, ops, faults>>

PdfFails ==
    /\ pdfCall # None
    /\ Faulty
    /\ pdfCall' = None
    /\ Rendering(sheet, None)
    /\ UNCHANGED <<sheet, url, urlCall, pdf, view, pan, screen, query, centred, gestures, ops>>

-----------------------------------------------------------------------------
(* A rendering.                                                            *)

Stale(t) == t.token # token
Later(t, pc) == tasks' = (tasks \ {t}) \cup {[t EXCEPT !.pc = pc]}
Ends(t) == tasks' = tasks \ {t}

Dropped(t) ==
    /\ Stale(t)
    /\ Ends(t)
    /\ UNCHANGED <<sheet, document, view, pan, token, screen, query, centred, gestures, ops, faults>>

\* Sizing the canvas erases it; a size may be what the centring waits for.
PageKnown(t) ==
    /\ ~Stale(t) /\ t.pc = "page"
    /\ viewport' = Page(t.sheet, view) /\ overlay' = viewport'
    /\ picture' = Blank
    /\ Centring(sheet, centred, viewport')
    /\ Later(t, "render")
    /\ UNCHANGED <<sheet, document, view, token, rects, query, gestures, ops, faults>>

Rendered(t) ==
    /\ ~Stale(t) /\ t.pc = "render"
    /\ picture' = viewport
    /\ IF query THEN Later(t, "text") /\ UNCHANGED rects
                ELSE Ends(t) /\ rects' = Blank
    /\ UNCHANGED <<sheet, document, view, pan, token, viewport, overlay, query, centred, gestures, ops, faults>>

TextOfAnyRun(t) ==                \* seeded defect: matches of an older page are shown
    /\ t.pc = "text"
    /\ rects' = Page(t.sheet, view)
    /\ Ends(t)
    /\ UNCHANGED <<sheet, document, view, pan, token, viewport, overlay, picture, query, centred, gestures, ops, faults>>

TextFound(t) ==
    /\ ~Stale(t) /\ t.pc = "text"
    /\ rects' = viewport
    /\ Ends(t)
    /\ UNCHANGED <<sheet, document, view, pan, token, viewport, overlay, picture, query, centred, gestures, ops, faults>>

-----------------------------------------------------------------------------
(* The user.                                                               *)

Acts == ops < MaxOps /\ ops' = ops + 1

\* Of another plan: its URL is asked for, and the document goes unless its URL is known.
SelectSheet(s) ==
    /\ s # sheet
    /\ Acts
    /\ sheet' = s
    /\ view' = FitPage
    /\ LET known == [how |-> "origin", of |-> None]
       IN IF viewport = Blank THEN centred' = None /\ pan' = known
          ELSE centred' = s /\ pan' = [how |-> "centre", of |-> viewport.sheet]
    /\ IF PlanOf[s] = PlanOf[sheet]
         THEN Rendering(s, pdf) /\ UNCHANGED <<urlCall, pdf, pdfCall, overlay>>
         ELSE /\ urlCall' = PlanOf[s]
              /\ Documented(IF url = PlanOf[s] THEN url ELSE None, s)
    /\ UNCHANGED <<url, viewport, picture, rects, query, gestures, faults>>

Search ==
    /\ Acts
    /\ query' = ~query
    /\ Rendering(sheet, pdf)
    /\ UNCHANGED <<sheet, document, view, pan, screen, centred, gestures, faults>>

Gesture(kind) ==
    /\ pdf # None
    /\ Acts
    /\ gestures' = gestures \cup {[kind |-> kind, sheet |-> sheet]}
    /\ UNCHANGED <<sheet, document, view, pan, token, tasks, screen, query, centred, faults>>

Drag ==
    /\ Acts
    /\ pan' = [how |-> "drag", of |-> sheet]
    /\ UNCHANGED <<sheet, document, view, token, tasks, screen, query, centred, gestures, faults>>

Applied(g, v) ==
    /\ view' = v
    /\ pan' = [how |-> g.kind, of |-> g.sheet]
    /\ IF v = view THEN UNCHANGED <<token, tasks>> ELSE Rendering(sheet, pdf)
    /\ gestures' = gestures \ {g}
    /\ UNCHANGED <<sheet, document, screen, query, centred, ops, faults>>

Wheel(g) == g.kind = "wheel" /\ \E z \in Zooms : Applied(g, [view EXCEPT !.zoom = z])
Fit(g)   == g.kind \in Fits /\ Applied(g, [fit |-> g.kind, zoom |-> 1])

FocusAnyway(g) == g.kind = "focus" /\ \E z \in Zooms : Applied(g, [view EXCEPT !.zoom = z])  \* seeded defect: no check

\* focusPdfRect looks at the key again after the wait.
Focus(g) ==
    /\ g.kind = "focus"
    /\ g.sheet = sheet
    /\ \E z \in Zooms : Applied(g, [view EXCEPT !.zoom = z])

FocusSkipped(g) ==
    /\ g.kind = "focus" /\ g.sheet # sheet
    /\ gestures' = gestures \ {g}
    /\ UNCHANGED <<sheet, document, view, pan, token, tasks, screen, query, centred, ops, faults>>

Next ==
    \/ UrlArrives \/ UrlFails \/ PdfArrives \/ PdfFails
    \/ \E t \in tasks : Dropped(t) \/ PageKnown(t) \/ Rendered(t) \/ TextFound(t)
    \/ \E s \in Sheets : SelectSheet(s)
    \/ \E kind \in {"wheel", "focus"} \cup Fits : Gesture(kind)
    \/ Search \/ Drag
    \/ \E g \in gestures : Wheel(g) \/ Fit(g) \/ Focus(g) \/ FocusSkipped(g)

Spec == Init /\ [][Next]_vars

-----------------------------------------------------------------------------
TypeOK ==
    /\ sheet \in Sheets
    /\ {url, urlCall, pdf, pdfCall} \subseteq {PlanOf[s] : s \in Sheets} \cup {None}
    /\ view \in Views
    /\ token \in Nat
    /\ tasks \subseteq [token : 1..token, sheet : Sheets, pc : {"page", "render", "text"}]
    /\ {viewport, overlay, picture, rects} \subseteq [sheet : Sheets, view : Views] \cup {Blank}
    /\ query \in BOOLEAN /\ centred \in Sheets \cup {None}

\* When nothing is awaited the canvas, the overlays drawn over it, the transform that
\* turns clicks into points of the plan and the highlighted matches all belong to the
\* sheet and the zoom on screen, whatever order the document, the renderings and the
\* gestures ended in.
CanvasShowsSheet ==
    tasks = {} /\ urlCall = None /\ pdfCall = None /\ pdf # None =>
        /\ picture = Page(sheet, view) /\ viewport = picture /\ overlay = picture
        /\ rects = IF query THEN picture ELSE Blank

\* The document on screen, or on its way, is the one of the sheet's plan.
DocumentOfPlan == {pdf, pdfCall, urlCall} \subseteq {PlanOf[sheet], None}

\* A focus asked for on one sheet never moves another one.
FocusStaysOnSheet == pan.how = "focus" => pan.of = sheet
=============================================================================
