--------------------------- MODULE AssemblyLines ----------------------------
(***************************************************************************)
(* The assembly of a condition, in the conditions panel: lines that are    *)
(* loaded when the condition changes, added, removed, and saved field by   *)
(* field when a field is left, with a preview of each formula.             *)
(*                                                                         *)
(* The section stays mounted when the condition changes, so that answers   *)
(* of one condition's requests arrive under another.  A line's text stands *)
(* for its formula; name and unit are saved the same way, apart.  The      *)
(* reading of the measurements that follows each change is another's.      *)
(***************************************************************************)
EXTENDS Integers, FiniteSets

CONSTANTS
    Conditions,
    FirstCondition, \* the condition of the first rendering, and of the line there from the start
    MaxId,       \* bound: lines ever created; the first is there from the start
    MaxOps,      \* bound: what the user does
    MaxFaults    \* bound: requests that fail or whose answer is lost

VARIABLES
    exists, of, saved,        \* server: lines, their conditions and texts
    condition,                \* conditionId
    items, text,              \* the lines shown and their texts
    loading, loads,           \* the flag, and the loads in flight
    adding, adds, deletingId, removals, patches, \* flags and requests
    focus, timer,             \* the field being typed in; the debounced preview
    preview, previews,        \* the text whose value is shown, and the requests for more
    strayed, unsaved, stolen, untold, \* history: why a line may surprise
    ops, faults

server == <<exists, of, saved>>
rows == <<items, text>>
load == <<loading, loads>>
writes == <<adding, adds, deletingId, removals, patches>>
values == <<preview, previews>>
notes == <<strayed, unsaved, stolen, untold>>
vars == <<server, condition, rows, load, writes, focus, timer, values, notes, ops, faults>>

Ids == 1..MaxId
None == 0
Texts == [Ids -> 0..MaxOps + 1]
Of(c) == {i \in exists : of[i] = c}

TypeOK ==
    /\ exists \subseteq Ids /\ of \in [Ids -> Conditions] /\ saved \in Texts
    /\ condition \in Conditions /\ items \subseteq Ids /\ text \in Texts
    /\ loads \subseteq [of : Conditions, n : 0..MaxOps, served : BOOLEAN, ids : SUBSET Ids, text : Texts, old : BOOLEAN]
    /\ adds \subseteq [of : Conditions, id : Ids \cup {None}] /\ removals \subseteq [id : Ids, served : BOOLEAN]
    /\ patches \subseteq [id : Ids, text : 1..MaxOps + 1, served : BOOLEAN]
    /\ {deletingId, focus} \subseteq Ids \cup {None} /\ {loading, adding, strayed} \subseteq BOOLEAN
    /\ timer \in [id : Ids \cup {None}, text : 0..MaxOps + 1]
    /\ preview \in Texts /\ previews \subseteq [id : Ids, text : 1..MaxOps + 1, by : Conditions]
    /\ {unsaved, stolen, untold} \subseteq SUBSET Ids
    /\ ops \in 0..MaxOps /\ faults \in 0..MaxFaults

Op == ops < MaxOps /\ ops' = ops + 1
Fault == faults < MaxFaults /\ faults' = faults + 1
Blank == [i \in Ids |-> 0]
NoTimer == [id |-> None, text |-> 0]
Aged == {IF l.served THEN [l EXCEPT !.old = TRUE] ELSE l : l \in loads}

-----------------------------------------------------------------------------
(* Loading, and the previews.                                              *)

Ask(c, n) == [of |-> c, n |-> n, served |-> FALSE, ids |-> {}, text |-> Blank, old |-> FALSE]

\* A field that goes with the rows of the other condition is not left: nothing is saved.
Select(c) ==
    /\ c # condition /\ Op /\ condition' = c
    /\ loading' = TRUE /\ loads' = loads \cup {Ask(c, ops')} /\ preview' = Blank
    /\ focus' = None /\ unsaved' = unsaved \cup ({focus} \ {None})
    /\ UNCHANGED <<server, rows, writes, timer, previews, strayed, stolen, untold, faults>>

ServeLoad(l) ==
    /\ l \in loads /\ ~l.served
    /\ loads' = (loads \ {l}) \cup {[l EXCEPT !.served = TRUE, !.ids = Of(l.of), !.text = saved]}
    /\ UNCHANGED <<server, condition, rows, loading, writes, focus, timer, values, notes, ops, faults>>

\* Whatever condition it was asked for, it fills the list, and each line's value is asked for.
Loaded(l) ==
    /\ l \in loads /\ l.served /\ loads' = loads \ {l} /\ loading' = FALSE
    /\ items' = l.ids /\ text' = [i \in Ids |-> IF i \in l.ids THEN l.text[i] ELSE 0]
    /\ previews' = previews \cup {[id |-> i, text |-> l.text[i], by |-> l.of] : i \in l.ids}
    /\ strayed' = (l.of # condition \/ l.old)
    /\ stolen' = stolen \cup {q.id : q \in previews} \cup ({timer.id} \ {None})
    /\ unsaved' = IF l.old \/ focus # None THEN unsaved \cup l.ids ELSE (unsaved \ l.ids) \cup {w.id : w \in patches}
    /\ focus' = None
    /\ UNCHANGED <<server, condition, writes, timer, preview, untold, ops, faults>>

LoadFails(l) ==
    /\ l \in loads /\ Fault /\ loads' = loads \ {l} /\ loading' = FALSE
    /\ items' = {} /\ text' = Blank /\ strayed' = TRUE /\ focus' = None
    /\ UNCHANGED <<server, condition, writes, timer, values, unsaved, stolen, untold, ops>>

\* An answer takes the place of the value shown, also when a newer one is there.
Previewed(q) ==
    /\ q \in previews /\ previews' = previews \ {q}
    /\ preview' = [preview EXCEPT ![q.id] = q.text]
    /\ stolen' = IF (\E r \in previews \ {q} : r.id = q.id) \/ q.by # of[q.id] THEN stolen \cup {q.id} ELSE stolen
    /\ UNCHANGED <<server, condition, rows, load, writes, focus, timer, strayed, unsaved, untold, ops, faults>>

\* One timer for all the rows, which asks as the first rendering would have.
TimerFires ==
    /\ timer # NoTimer /\ timer' = NoTimer
    /\ previews' = previews \cup {[id |-> timer.id, text |-> timer.text, by |-> FirstCondition]}
    /\ stolen' = IF \E q \in previews : q.id = timer.id THEN stolen \cup {timer.id} ELSE stolen
    /\ UNCHANGED <<server, condition, rows, load, writes, focus, preview, strayed, unsaved, untold, ops, faults>>

-----------------------------------------------------------------------------
(* The fields.                                                             *)

Row(i) == ~loading /\ i \in items

Type(i) ==
    /\ Row(i) /\ i # deletingId /\ focus \in {None, i} /\ Op
    /\ focus' = i /\ text' = [text EXCEPT ![i] = ops + 2]
    /\ timer' = [id |-> i, text |-> ops + 2]
    /\ stolen' = stolen \cup ({timer.id} \ {None, i})
    /\ UNCHANGED <<server, condition, items, load, writes, values, strayed, unsaved, untold, faults>>

Left ==
    /\ focus # None /\ Row(focus) /\ focus' = None
    /\ unsaved' = IF \E w \in patches : w.id = focus THEN unsaved \cup {focus} ELSE unsaved
    /\ UNCHANGED <<server, condition, rows, load, adding, adds, deletingId, removals, timer, values, strayed, stolen, untold, ops, faults>>

LeaveOnceSaving ==                  \* seeded defect: nothing is sent while another field is
    /\ Left
    /\ patches' = IF patches = {} THEN {[id |-> focus, text |-> text[focus], served |-> FALSE]} ELSE patches

\* Every field that is left is sent.
Leave ==
    /\ Left
    /\ patches' = patches \cup {[id |-> focus, text |-> text[focus], served |-> FALSE]}

ServePatch(w) ==
    /\ w \in patches /\ ~w.served /\ w.id \in exists
    /\ patches' = (patches \ {w}) \cup {[w EXCEPT !.served = TRUE]}
    /\ saved' = [saved EXCEPT ![w.id] = w.text] /\ loads' = Aged
    /\ UNCHANGED <<exists, of, condition, rows, loading, adding, adds, deletingId, removals, focus, timer, values, notes, ops, faults>>

\* Nothing comes of the answer, nor of a failure.
Patched(w) ==
    /\ w \in patches /\ patches' = patches \ {w}
    /\ IF w.served THEN UNCHANGED <<unsaved, faults>>
       ELSE /\ IF w.id \in exists THEN Fault ELSE UNCHANGED faults
            /\ unsaved' = unsaved \cup {w.id}
    /\ UNCHANGED <<server, condition, rows, load, adding, adds, deletingId, removals, focus, timer, values, strayed, stolen, untold, ops>>

-----------------------------------------------------------------------------
(* Lines added and removed.                                                *)

Rest == UNCHANGED <<condition, focus, timer, patches, ops>>

addItem ==
    /\ ~loading /\ ~adding /\ Op /\ adding' = TRUE
    /\ adds' = adds \cup {[of |-> condition, id |-> None]}
    /\ UNCHANGED <<server, condition, rows, load, deletingId, removals, patches, focus, timer, values, notes, faults>>

ServeAdd(a) ==
    /\ a \in adds /\ a.id = None
    /\ \E i \in Ids \ exists :
          /\ saved[i] = 0 /\ exists' = exists \cup {i} /\ saved' = [saved EXCEPT ![i] = 1]
          /\ of' = [of EXCEPT ![i] = a.of] /\ adds' = (adds \ {a}) \cup {[a EXCEPT !.id = i]}
    /\ loads' = Aged
    /\ UNCHANGED <<rows, loading, adding, deletingId, removals, values, notes, faults>> /\ Rest

\* The line is put under the condition on the screen.
Added(a) ==
    /\ a \in adds /\ a.id # None /\ adds' = adds \ {a} /\ adding' = FALSE
    /\ items' = items \cup {a.id} /\ text' = [text EXCEPT ![a.id] = 1]
    /\ previews' = previews \cup {[id |-> a.id, text |-> 1, by |-> a.of]}
    /\ strayed' = (strayed \/ a.of # condition \/ a.id \in items \/ a.id \notin exists)
    /\ stolen' = IF a.id \in items \cup {q.id : q \in previews} THEN stolen \cup {a.id} ELSE stolen
    /\ unsaved' = IF a.id \in items THEN unsaved \cup {a.id} ELSE unsaved
    /\ UNCHANGED <<server, load, deletingId, removals, preview, untold, faults>> /\ Rest

AddFails(a) ==
    /\ a \in adds /\ Fault /\ adds' = adds \ {a} /\ adding' = FALSE
    /\ untold' = untold \cup ({a.id} \ {None})
    /\ UNCHANGED <<server, rows, load, deletingId, removals, values, strayed, unsaved, stolen>> /\ Rest

RemoveAnyTime(i) ==                 \* seeded defect: only the line's own button waits
    /\ Row(i) /\ deletingId # i /\ focus = None /\ Op /\ deletingId' = i
    /\ removals' = removals \cup {[id |-> i, served |-> FALSE]}
    /\ UNCHANGED <<server, condition, rows, load, adding, adds, patches, focus, timer, values, notes, faults>>

removeItem(i) ==
    /\ Row(i) /\ deletingId = None /\ focus = None /\ Op /\ deletingId' = i
    /\ removals' = removals \cup {[id |-> i, served |-> FALSE]}
    /\ UNCHANGED <<server, condition, rows, load, adding, adds, patches, focus, timer, values, notes, faults>>

ServeRemoval(d) ==
    /\ d \in removals /\ ~d.served /\ d.id \in exists
    /\ exists' = exists \ {d.id} /\ loads' = Aged
    /\ removals' = (removals \ {d}) \cup {[d EXCEPT !.served = TRUE]}
    /\ UNCHANGED <<of, saved, rows, loading, adding, adds, deletingId, values, notes, faults>> /\ Rest

Finally(d) == deletingId' = IF deletingId = d.id THEN None ELSE deletingId

Removed(d) ==
    /\ d \in removals /\ d.served /\ removals' = removals \ {d} /\ Finally(d)
    /\ items' = items \ {d.id} /\ text' = [text EXCEPT ![d.id] = 0] /\ preview' = [preview EXCEPT ![d.id] = 0]
    /\ UNCHANGED <<server, load, adding, adds, previews, notes, faults>> /\ Rest

RemovalFails(d) ==
    /\ d \in removals /\ removals' = removals \ {d} /\ Finally(d)
    /\ IF d.served \/ d.id \in exists THEN Fault ELSE UNCHANGED faults
    /\ untold' = untold \cup {d.id}
    /\ UNCHANGED <<server, rows, load, adding, adds, values, strayed, unsaved, stolen>> /\ Rest

-----------------------------------------------------------------------------
Init ==
    /\ exists = {1} /\ of = [i \in Ids |-> FirstCondition] /\ saved = [Blank EXCEPT ![1] = 1]
    /\ condition = FirstCondition /\ items = {} /\ text = Blank
    /\ loading = TRUE /\ loads = {Ask(FirstCondition, 0)}
    /\ adding = FALSE /\ adds = {} /\ deletingId = None /\ removals = {} /\ patches = {}
    /\ focus = None /\ timer = NoTimer /\ preview = Blank /\ previews = {}
    /\ strayed = FALSE /\ unsaved = {} /\ stolen = {} /\ untold = {}
    /\ ops = 0 /\ faults = 0

Next ==
    \/ \E c \in Conditions : Select(c)
    \/ \E l \in loads : ServeLoad(l) \/ Loaded(l) \/ LoadFails(l)
    \/ (\E q \in previews : Previewed(q)) \/ TimerFires
    \/ \E i \in items : Type(i) \/ removeItem(i)
    \/ Leave \/ \E w \in patches : ServePatch(w) \/ Patched(w)
    \/ addItem \/ \E a \in adds : ServeAdd(a) \/ Added(a) \/ AddFails(a)
    \/ \E d \in removals : ServeRemoval(d) \/ Removed(d) \/ RemovalFails(d)

Spec == Init /\ [][Next]_vars

-----------------------------------------------------------------------------
\* One line is added and one removed at a time, and the flags end with the requests.
OneAtATime ==
    /\ adding <=> adds # {}
    /\ deletingId # None <=> removals # {}
    /\ Cardinality(adds) <= 1 /\ Cardinality(removals) <= 1
    /\ loading => loads # {}

Quiet == ~loading /\ loads = {} /\ adds = {} /\ removals = {}

\* When no request is under way the lines are the condition's.  Excepted are answers for
\* another condition, loads that failed or were overtaken, changes that reported an error.
LinesAreConditions == Quiet /\ ~strayed => items \ untold = Of(condition) \ untold

\* A line that nobody types in shows what is saved, unless its saving failed, crossed
\* another or was cut short.
TextIsSaved ==
    Quiet /\ ~strayed /\ patches = {} /\ focus = None =>
        \A i \in items \ (unsaved \cup untold) : text[i] = saved[i]

\* A line shows the value of the formula it shows.  Excepted are a timer taken by another
\* row, requests that crossed and those asked as the first condition.
ValueIsFormulas ==
    Quiet /\ ~strayed /\ previews = {} /\ timer = NoTimer =>
        \A i \in items \ stolen : preview[i] = text[i]

LinesAreRight == OneAtATime /\ LinesAreConditions /\ TextIsSaved /\ ValueIsFormulas
=============================================================================
