---------------------------- MODULE SelectLocks ----------------------------
(***************************************************************************)
(* Selecting a measurement locks it for the others in the room.            *)
(*                                                                         *)
(* The lock is a field of the presence each client broadcasts; nobody      *)
(* grants it.  A client refuses what it sees locked by another at the time *)
(* of a click, and announces the selection of exactly one measurement with *)
(* the select tool, however it came to be selected alone.                  *)
(***************************************************************************)
EXTENDS Integers, FiniteSets

CONSTANTS Users, Editors, Measurements

VARIABLES
    rows,        \* server: the measurements that exist
    listed,      \* sheetMeasurements of each client
    selected,    \* selectedIds
    tool,        \* activeTool
    here,        \* users in the room
    presence,    \* lockedMeasurementId as announced
    seen,        \* presence of each other user as received
    silent,      \* users suspended for longer than STALE_MS
    lockMap,     \* useRemoteMeasurementLockMap, memoised
    dropped,     \* the Delete each client waits for: <<ids, how far>>
    stale,       \* clients told that measurements changed
    unlooked,    \* history: holders that did not take their lock by a click on it
    untold,      \* history: measurements deleted without an announcement
    raced        \* history: holders whose click came before the other's presence

vars == <<rows, listed, selected, tool, here, presence, seen, silent, lockMap, dropped, stale, unlooked, untold, raced>>

None == "none"
Idle == [ids |-> {}, pc |-> "idle"]

TypeOK ==
    /\ rows \subseteq Measurements
    /\ listed \in [Users -> SUBSET Measurements] /\ selected \in [Users -> SUBSET Measurements]
    /\ tool \in [Users -> {"select", "draw"}]
    /\ untold \subseteq Measurements
    /\ {here, silent, stale, unlooked, raced} \subseteq SUBSET Users
    /\ presence \in [Users -> Measurements \cup {None}]
    /\ seen \in [Users -> [Users -> Measurements \cup {None}]]
    /\ lockMap \in [Users -> SUBSET Measurements]
    /\ dropped \in [Users -> [ids : SUBSET Measurements, pc : {"idle", "sent", "ok", "refused"}]]

-----------------------------------------------------------------------------
Awake(u) == u \in here \ silent

\* The lock a client announces; viewers and other tools hold none.
Own(u, sel, t) ==
    IF u \in Editors /\ t = "select" /\ Cardinality(sel) = 1 THEN CHOOSE m \in sel : TRUE ELSE None

LocksOfAll(v, sight, quiet) == {sight[u] : u \in here' \ ({v} \cup quiet)}   \* seeded defect: who holds none counts too

Locks(v, sight, quiet) == {sight[u] : u \in here' \ ({v} \cup quiet)} \ {None}

\* The effect after a change of selection or tool; by is the measurement clicked, if any.
Announce(u, by) ==
    LET lock == Own(u, selected'[u], tool'[u]) IN
    /\ presence' = [presence EXCEPT ![u] = lock]
    /\ IF lock \in {None, presence[u]}
         THEN IF lock = None THEN unlooked' = unlooked \ {u} /\ raced' = raced \ {u}
                             ELSE UNCHANGED <<unlooked, raced>>
         ELSE /\ unlooked' = IF lock = by THEN unlooked \ {u} ELSE unlooked \cup {u}
              /\ raced' = IF lock \notin lockMap[u] /\ \E v \in here \ {u} : presence[v] = lock
                             THEN raced \cup {u} ELSE raced \ {u}

Seen == UNCHANGED <<here, seen, silent, lockMap>>

-----------------------------------------------------------------------------
(* One client.                                                             *)

HitAny(u) == listed[u]              \* seeded defect: a hit test that does not skip locked shapes

Hit(u) == listed[u] \ lockMap[u]

\* A shape on the canvas or a row of the quantities; with Ctrl it is added or taken away.
Select(u, m, multi) ==
    /\ Awake(u) /\ m \in Hit(u) /\ (multi \/ selected[u] # {m})
    /\ selected' = [selected EXCEPT ![u] =
                        IF ~multi THEN {m} ELSE IF m \in @ THEN @ \ {m} ELSE @ \cup {m}]
    /\ UNCHANGED tool
    /\ Announce(u, m)
    /\ Seen /\ UNCHANGED <<rows, listed, dropped, stale, untold>>

\* Escape, or a click on empty paper.
Deselect(u) ==
    /\ Awake(u) /\ tool[u] = "select" /\ selected[u] # {}
    /\ selected' = [selected EXCEPT ![u] = {}]
    /\ UNCHANGED tool
    /\ Announce(u, None)
    /\ Seen /\ UNCHANGED <<rows, listed, dropped, stale, untold>>

SetToolQuietly(u) ==                \* seeded defect: the effect does not depend on the tool
    /\ Awake(u) /\ u \in Editors
    /\ tool' = [tool EXCEPT ![u] = IF @ = "select" THEN "draw" ELSE "select"]
    /\ Seen /\ UNCHANGED <<rows, listed, selected, presence, dropped, stale, unlooked, raced, untold>>

\* The selection stays: back at the select tool the lock is announced again.
SetTool(u) ==
    /\ Awake(u) /\ u \in Editors
    /\ tool' = [tool EXCEPT ![u] = IF @ = "select" THEN "draw" ELSE "select"]
    /\ UNCHANGED selected
    /\ Announce(u, None)
    /\ Seen /\ UNCHANGED <<rows, listed, dropped, stale, untold>>

\* What others hold is left out of a deletion.
Delete(u) ==
    LET ids == selected[u] \ lockMap[u] IN
    /\ Awake(u) /\ u \in Editors /\ ids # {} /\ dropped[u] = Idle
    /\ dropped' = [dropped EXCEPT ![u] = [ids |-> ids, pc |-> "sent"]]
    /\ Seen /\ UNCHANGED <<rows, listed, selected, tool, presence, stale, unlooked, raced, untold>>

\* One request per id: the ones that exist go, one that is gone spoils the answer.
ServeDelete(u) ==
    /\ dropped[u].pc = "sent"
    /\ rows' = rows \ dropped[u].ids
    /\ LET whole == dropped[u].ids \subseteq rows
       IN /\ dropped' = [dropped EXCEPT ![u].pc = IF whole THEN "ok" ELSE "refused"]
          /\ untold' = IF whole THEN untold ELSE untold \cup dropped[u].ids
    /\ Seen /\ UNCHANGED <<listed, selected, tool, presence, stale, unlooked, raced>>

\* The whole selection is cleared, whatever was selected meanwhile, and the others are told.
DeleteOk(u) ==
    /\ Awake(u) /\ dropped[u].pc = "ok"
    /\ selected' = [selected EXCEPT ![u] = {}]
    /\ listed' = [listed EXCEPT ![u] = @ \ dropped[u].ids]
    /\ dropped' = [dropped EXCEPT ![u] = Idle]
    /\ stale' = stale \cup here
    /\ UNCHANGED tool
    /\ Announce(u, None)
    /\ Seen /\ UNCHANGED <<rows, untold>>

\* A refusal is swallowed: nobody is told.
DeleteRefused(u) ==
    /\ Awake(u) /\ dropped[u].pc = "refused"
    /\ dropped' = [dropped EXCEPT ![u] = Idle]
    /\ Seen /\ UNCHANGED <<rows, listed, selected, tool, presence, stale, unlooked, raced, untold>>

ResyncKeepingSelection(u) ==        \* seeded defect: what is gone stays selected
    /\ Awake(u) /\ u \in stale
    /\ stale' = stale \ {u}
    /\ listed' = [listed EXCEPT ![u] = rows]
    /\ Seen /\ UNCHANGED <<rows, selected, tool, presence, dropped, unlooked, raced, untold>>

\* The list is read again and the selection pruned to it.
Resync(u) ==
    /\ Awake(u) /\ u \in stale
    /\ stale' = stale \ {u}
    /\ listed' = [listed EXCEPT ![u] = rows]
    /\ selected' = [selected EXCEPT ![u] = @ \cap rows]
    /\ UNCHANGED tool
    /\ Announce(u, None)
    /\ Seen /\ UNCHANGED <<rows, dropped, untold>>

-----------------------------------------------------------------------------
(* The room.                                                               *)

Local == UNCHANGED <<rows, listed, selected, tool, dropped, stale, unlooked, raced, untold>>

\* The newest presence of u arrives at v, whose map is computed again.
Deliver(u, v) ==
    /\ {u, v} \subseteq here /\ u # v /\ seen[v][u] # presence[u]
    /\ seen' = [seen EXCEPT ![v][u] = presence[u]]
    /\ UNCHANGED <<here, silent, presence>>
    /\ lockMap' = [lockMap EXCEPT ![v] = Locks(v, seen'[v], silent)]
    /\ Local

\* A suspended client keeps its place and its lock; no map is computed for that.
\* Bound: one at a time.
Suspend(u) ==
    /\ u \in here /\ silent = {}
    /\ silent' = silent \cup {u}
    /\ UNCHANGED <<here, presence, seen, lockMap>> /\ Local

\* The heartbeat again: lockedAt changes, and the maps of the others with it.
Resume(u) ==
    /\ u \in silent
    /\ silent' = silent \ {u}
    /\ UNCHANGED <<here, presence, seen>>
    /\ lockMap' = [v \in Users |-> IF v \in here \ {u} THEN Locks(v, seen[v], silent') ELSE lockMap[v]]
    /\ Local

\* The tab is closed or the connection is gone.
Leave(u) ==
    /\ u \in here
    /\ here' = here \ {u} /\ silent' = silent \ {u} /\ stale' = stale \ {u}
    /\ unlooked' = unlooked \ {u} /\ raced' = raced \ {u}
    /\ presence' = [presence EXCEPT ![u] = None]
    /\ seen' = [v \in Users |-> IF v = u THEN [w \in Users |-> None] ELSE [seen[v] EXCEPT ![u] = None]]
    /\ lockMap' = [v \in Users |-> IF v \in here' THEN Locks(v, seen'[v], silent') ELSE {}]
    /\ selected' = [selected EXCEPT ![u] = {}] /\ listed' = [listed EXCEPT ![u] = {}]
    /\ tool' = [tool EXCEPT ![u] = "select"]
    /\ UNCHANGED <<rows, dropped, untold>>

Enter(u) ==
    /\ u \notin here /\ dropped[u] = Idle
    /\ here' = here \cup {u}
    /\ listed' = [listed EXCEPT ![u] = rows]
    /\ seen' = [seen EXCEPT ![u] = [v \in Users |-> IF v \in here THEN presence[v] ELSE None]]
    /\ lockMap' = [lockMap EXCEPT ![u] = Locks(u, seen'[u], silent)]
    /\ UNCHANGED <<rows, selected, tool, presence, silent, dropped, stale, unlooked, raced, untold>>

\* The answer to somebody who left is heard by nobody.
Unheard(u) ==
    /\ u \notin here /\ dropped[u].pc \in {"ok", "refused"}
    /\ dropped' = [dropped EXCEPT ![u] = Idle]
    /\ untold' = untold \cup dropped[u].ids
    /\ Seen /\ UNCHANGED <<rows, listed, selected, tool, presence, stale, unlooked, raced>>

-----------------------------------------------------------------------------
Init ==
    /\ rows = Measurements /\ here = Users
    /\ listed = [u \in Users |-> Measurements] /\ selected = [u \in Users |-> {}]
    /\ tool = [u \in Users |-> "select"]
    /\ presence = [u \in Users |-> None] /\ seen = [v \in Users |-> presence]
    /\ silent = {} /\ lockMap = [u \in Users |-> {}]
    /\ dropped = [u \in Users |-> Idle]
    /\ stale = {} /\ unlooked = {} /\ untold = {} /\ raced = {}

Client(u) ==
    \/ \E m \in Measurements, multi \in BOOLEAN : Select(u, m, multi)
    \/ Deselect(u) \/ SetTool(u)
    \/ Delete(u) \/ ServeDelete(u) \/ DeleteOk(u) \/ DeleteRefused(u) \/ Resync(u) \/ Unheard(u)
    \/ Suspend(u) \/ Resume(u) \/ Leave(u) \/ Enter(u)

Next == \E u \in Users : Client(u) \/ \E v \in Users : Deliver(u, v)

Spec == Init /\ [][Next]_vars

-----------------------------------------------------------------------------
Holds(u, m) == u \in here /\ presence[u] = m

\* A lock is the selection of its holder and nothing else: deselecting, another
\* tool and leaving release it (sprints/sprint-13.md:60), and when all presence
\* has arrived and nobody is suspended every client sees the same locks.
LocksFollowSelection ==
    /\ \A u \in here : presence[u] = Own(u, selected[u], tool[u])
    /\ silent = {} /\ (\A u, v \in here : u # v => seen[v][u] = presence[u]) =>
          \A v \in here : lockMap[v] = {presence[u] : u \in here \ {v}} \ {None}

\* Two clients hold one measurement only if one of them clicked before the other's
\* presence was there, or came to hold it without clicking it: a multiple selection
\* shrank to it, or the select tool came back.
TwoHoldersExplained ==
    \A u, v \in here, m \in Measurements :
        u # v /\ Holds(u, m) /\ Holds(v, m) => {u, v} \cap (raced \cup unlooked) # {}

\* Once everybody who was told has read the list again, a lock on a measurement
\* that is gone means that its deletion was never announced: one of several
\* requests was refused, or the tab was closed before the answers.
GhostsAreUntold ==
    stale = {} /\ (\A u \in Users : dropped[u] = Idle) =>
        \A u \in here : presence[u] \in rows \cup untold \cup {None}
=============================================================================
