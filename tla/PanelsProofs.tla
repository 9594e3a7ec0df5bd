---------------------------- MODULE PanelsProofs ----------------------------
(***************************************************************************)
(* Proofs about the four panels of Panels, for any users, editors,         *)
(* measurements, sheets, labels, conditions, lines and bounds: the locks   *)
(* of a room, the list of the quantities, the conditions panel, and the    *)
(* lines of an assembly.                                                   *)
(***************************************************************************)
EXTENDS Panels, FiniteSetTheorems, WellFoundedInduction, TLAPS

-----------------------------------------------------------------------------
(* The room.  An announcement is a function of the selection and the tool; *)
(* a map is computed from what its owner has received; and what is listed  *)
(* exists, or was deleted in one of three ways.                            *)

\* What v's map says when computed now, the presence of quiet left out.
Sight(v, quiet) == {seen[v][u] : u \in here \ ({v} \cup quiet)} \ {Room!None}

Announced == \A u \in Users :
    presence[u] = IF u \in here THEN Room!Own(u, selected[u], tool[u]) ELSE Room!None

\* Nobody keeps anything of those who left.
AbsentForgotten == \A u \in Users \ here :
    /\ selected[u] = {}
    /\ \A v \in Users : seen[v][u] = Room!None

\* A map is computed whenever something arrives, not when somebody falls silent.
MapsComputed ==
    /\ \A v \in here : lockMap[v] = Sight(v, {}) \/ lockMap[v] = Sight(v, silent)
    /\ \A u, v \in silent : u = v

\* A deletion that is served but not yet announced.
ServedDelete(m) == \E w \in Users : dropped[w].pc = "ok" /\ m \in dropped[w].ids

GoneQuietly(m) == m \in untold \/ ServedDelete(m)

ListsExplained ==
    /\ \A u \in Users : selected[u] \subseteq inSight[u]
    /\ \A u \in here \ stale : \A m \in inSight[u] : m \in rows \/ GoneQuietly(m)

RoomInv == Room!TypeOK /\ Announced /\ AbsentForgotten /\ MapsComputed /\ ListsExplained /\ Room!TwoHoldersExplained

-----------------------------------------------------------------------------
(* Facts about the operators of the room.                                  *)

\* The lock announced is one of the shapes selected.
LEMMA OwnIsSelected ==
    ASSUME NEW u, NEW sel, NEW t
    PROVE  Room!Own(u, sel, t) \in sel \cup {Room!None}
<1>1. CASE sel = {}
  <2>1. Room!Cardinality(sel) = 0
    BY <1>1, FS_EmptySet DEF Room!Cardinality, Cardinality
  <2> QED
    BY <2>1 DEF Room!Own
<1>2. CASE sel # {}
  BY <1>2 DEF Room!Own
<1> QED
  BY <1>1, <1>2

LEMMA NothingSelected ==
    ASSUME NEW u, NEW t
    PROVE  Room!Own(u, {}, t) = Room!None
BY OwnIsSelected

\* An announcement concerns its client only and keeps the types.
LEMMA AnnounceType ==
    ASSUME Room!TypeOK, NEW u \in Users, NEW by, Room!Announce(u, by), selected'[u] \subseteq Measurements
    PROVE  /\ presence' = [presence EXCEPT ![u] = Room!Own(u, selected'[u], tool'[u])]
           /\ presence' \in [Users -> Measurements \cup {Room!None}]
           /\ unlooked' \in SUBSET Users /\ raced' \in SUBSET Users
<1>1. Room!Own(u, selected'[u], tool'[u]) \in Measurements \cup {Room!None}
  BY OwnIsSelected
<1>2. presence' = [presence EXCEPT ![u] = Room!Own(u, selected'[u], tool'[u])]
  BY DEF Room!Announce
<1>3. presence' \in [Users -> Measurements \cup {Room!None}]
  BY <1>1, <1>2 DEF Room!TypeOK
<1>4. unlooked' \in SUBSET Users /\ raced' \in SUBSET Users
  BY DEF Room!Announce, Room!TypeOK
<1> QED
  BY <1>2, <1>3, <1>4

\* A map is a set of measurements.
LEMMA LocksType ==
    ASSUME NEW v, NEW quiet, here' \in SUBSET Users,
           NEW sight \in [Users -> Measurements \cup {Room!None}]
    PROVE  Room!Locks(v, sight, quiet) \in SUBSET Measurements
BY DEF Room!Locks

\* Every step of a room, by the variables it may change.
LEMMA RoomCases ==
    ASSUME [Room!Next]_(Room!vars)
    PROVE  \/ UNCHANGED Room!vars
           \/ \E u \in Users, m \in Measurements, multi \in BOOLEAN : Room!Select(u, m, multi)
           \/ \E u \in Users : \/ Room!Deselect(u) \/ Room!SetTool(u) \/ Room!Delete(u) \/ Room!ServeDelete(u)
                               \/ Room!DeleteOk(u) \/ Room!DeleteRefused(u) \/ Room!Resync(u) \/ Room!Unheard(u)
                               \/ Room!Suspend(u) \/ Room!Resume(u) \/ Room!Leave(u) \/ Room!Enter(u)
           \/ \E u, v \in Users : Room!Deliver(u, v)
BY DEF Room!Next, Room!Client

-----------------------------------------------------------------------------
(* Type correctness.                                                       *)

LEMMA RoomTypeStep == Room!TypeOK /\ [Room!Next]_(Room!vars) => Room!TypeOK'
<1> SUFFICES ASSUME Room!TypeOK, [Room!Next]_(Room!vars) PROVE Room!TypeOK'
  OBVIOUS
<1>1. CASE UNCHANGED Room!vars
  BY <1>1 DEF Room!TypeOK, Room!vars
<1>2. ASSUME NEW u \in Users, NEW m \in Measurements, NEW multi \in BOOLEAN, Room!Select(u, m, multi)
      PROVE  Room!TypeOK'
  <2>1. selected' \in [Users -> SUBSET Measurements]
    BY <1>2 DEF Room!Select, Room!TypeOK
  <2>2. /\ presence' \in [Users -> Measurements \cup {Room!None}]
        /\ unlooked' \in SUBSET Users /\ raced' \in SUBSET Users
    BY <1>2, <2>1, AnnounceType DEF Room!Select
  <2> QED
    BY <1>2, <2>1, <2>2 DEF Room!Select, Room!Seen, Room!TypeOK
<1>3. ASSUME NEW u \in Users, Room!Deselect(u) \/ Room!SetTool(u) \/ Room!Resync(u)
      PROVE  Room!TypeOK'
  <2>1. selected' \in [Users -> SUBSET Measurements]
    BY <1>3 DEF Room!Deselect, Room!SetTool, Room!Resync, Room!TypeOK
  <2>2. /\ presence' \in [Users -> Measurements \cup {Room!None}]
        /\ unlooked' \in SUBSET Users /\ raced' \in SUBSET Users
    BY <1>3, <2>1, AnnounceType DEF Room!Deselect, Room!SetTool, Room!Resync
  <2>3. CASE Room!Deselect(u)
    BY <2>3, <2>1, <2>2 DEF Room!Deselect, Room!Seen, Room!TypeOK
  <2>4. CASE Room!SetTool(u)
    BY <2>4, <2>1, <2>2 DEF Room!SetTool, Room!Seen, Room!TypeOK
  <2>5. CASE Room!Resync(u)
    BY <2>5, <2>1, <2>2 DEF Room!Resync, Room!Seen, Room!TypeOK
  <2> QED
    BY <1>3, <2>3, <2>4, <2>5
<1>4. ASSUME NEW u \in Users, Room!DeleteOk(u)
      PROVE  Room!TypeOK'
  <2>1. selected' \in [Users -> SUBSET Measurements]
    BY <1>4 DEF Room!DeleteOk, Room!TypeOK
  <2>2. /\ presence' \in [Users -> Measurements \cup {Room!None}]
        /\ unlooked' \in SUBSET Users /\ raced' \in SUBSET Users
    BY <1>4, <2>1, AnnounceType DEF Room!DeleteOk
  <2> QED
    BY <1>4, <2>1, <2>2 DEF Room!DeleteOk, Room!Seen, Room!Idle, Room!TypeOK
<1>5. ASSUME NEW u \in Users, Room!Delete(u)
      PROVE  Room!TypeOK'
  BY <1>5 DEF Room!Delete, Room!Seen, Room!TypeOK
<1>6. ASSUME NEW u \in Users, Room!ServeDelete(u)
      PROVE  Room!TypeOK'
  BY <1>6 DEF Room!ServeDelete, Room!Seen, Room!TypeOK
<1>7. ASSUME NEW u \in Users, Room!DeleteRefused(u) \/ Room!Unheard(u)
      PROVE  Room!TypeOK'
  <2>1. dropped' \in [Users -> [ids : SUBSET Measurements, pc : {"idle", "sent", "ok", "refused"}]]
    <3>1. Room!Idle \in [ids : SUBSET Measurements, pc : {"idle", "sent", "ok", "refused"}]
      BY DEF Room!Idle
    <3>2. dropped' = [dropped EXCEPT ![u] = Room!Idle]
      BY <1>7 DEF Room!DeleteRefused, Room!Unheard
    <3> QED
      BY <3>1, <3>2 DEF Room!TypeOK
  <2>2. untold' \subseteq Measurements
    BY <1>7 DEF Room!DeleteRefused, Room!Unheard, Room!TypeOK
  <2> QED
    BY <1>7, <2>1, <2>2 DEF Room!DeleteRefused, Room!Unheard, Room!Seen, Room!TypeOK
<1>8. ASSUME NEW u \in Users, Room!Suspend(u) \/ Room!Resume(u)
      PROVE  Room!TypeOK'
  <2>1. CASE Room!Suspend(u)
    BY <2>1 DEF Room!Suspend, Room!Local, Room!TypeOK
  <2>2. CASE Room!Resume(u)
    <3>1. here' \in SUBSET Users /\ \A v \in Users : seen[v] \in [Users -> Measurements \cup {Room!None}]
      BY <2>2 DEF Room!Resume, Room!TypeOK
    <3>2. \A v \in Users : Room!Locks(v, seen[v], silent') \in SUBSET Measurements
      BY <3>1, LocksType
    <3>3. lockMap' \in [Users -> SUBSET Measurements]
      BY <2>2, <3>2 DEF Room!Resume, Room!TypeOK
    <3> QED
      BY <2>2, <3>3 DEF Room!Resume, Room!Local, Room!TypeOK
  <2> QED
    BY <1>8, <2>1, <2>2
<1>9. ASSUME NEW u \in Users, NEW v \in Users, Room!Deliver(u, v)
      PROVE  Room!TypeOK'
  <2>1. seen' \in [Users -> [Users -> Measurements \cup {Room!None}]] /\ here' \in SUBSET Users
    BY <1>9 DEF Room!Deliver, Room!TypeOK
  <2>2. seen'[v] \in [Users -> Measurements \cup {Room!None}]
    BY <2>1
  <2>3. Room!Locks(v, seen'[v], silent) \in SUBSET Measurements
    BY <2>1, <2>2, LocksType
  <2>4. lockMap' \in [Users -> SUBSET Measurements]
    BY <1>9, <2>3 DEF Room!Deliver, Room!TypeOK
  <2> QED
    BY <1>9, <2>1, <2>4 DEF Room!Deliver, Room!Local, Room!TypeOK
<1>10. ASSUME NEW u \in Users, Room!Leave(u)
       PROVE  Room!TypeOK'
  <2>1. here' \in SUBSET Users /\ silent' \in SUBSET Users /\ stale' \in SUBSET Users
    BY <1>10 DEF Room!Leave, Room!TypeOK
  <2>2. seen' \in [Users -> [Users -> Measurements \cup {Room!None}]]
    BY <1>10 DEF Room!Leave, Room!TypeOK
  <2>3. \A v \in Users : Room!Locks(v, seen'[v], silent') \in SUBSET Measurements
    BY <2>1, <2>2, LocksType
  <2>4. lockMap' \in [Users -> SUBSET Measurements]
    BY <1>10, <2>3 DEF Room!Leave
  <2>5. /\ unlooked' \in SUBSET Users /\ raced' \in SUBSET Users
        /\ presence' \in [Users -> Measurements \cup {Room!None}]
        /\ selected' \in [Users -> SUBSET Measurements]
        /\ inSight' \in [Users -> SUBSET Measurements]
        /\ tool' \in [Users -> {"select", "draw"}]
    BY <1>10 DEF Room!Leave, Room!TypeOK
  <2> QED
    BY <1>10, <2>1, <2>2, <2>4, <2>5 DEF Room!Leave, Room!TypeOK
<1>11. ASSUME NEW u \in Users, Room!Enter(u)
       PROVE  Room!TypeOK'
  <2>1. here' \in SUBSET Users /\ inSight' \in [Users -> SUBSET Measurements]
    BY <1>11 DEF Room!Enter, Room!TypeOK
  <2>2. seen' \in [Users -> [Users -> Measurements \cup {Room!None}]]
    BY <1>11 DEF Room!Enter, Room!TypeOK
  <2>3. Room!Locks(u, seen'[u], silent) \in SUBSET Measurements
    BY <2>1, <2>2, LocksType
  <2>4. lockMap' \in [Users -> SUBSET Measurements]
    BY <1>11, <2>3 DEF Room!Enter, Room!TypeOK
  <2> QED
    BY <1>11, <2>1, <2>2, <2>4 DEF Room!Enter, Room!TypeOK
<1> QED
  BY <1>1, <1>2, <1>3, <1>4, <1>5, <1>6, <1>7, <1>8, <1>9, <1>10, <1>11, RoomCases
-----------------------------------------------------------------------------
(* Announcements, and what is known of those who left.                     *)

\* A change of a selection or a tool is announced at once, and by nobody else.
LEMMA AnnouncedStep ==
    Room!TypeOK /\ Announced /\ AbsentForgotten /\ [Room!Next]_(Room!vars) => Announced'
<1> SUFFICES ASSUME Room!TypeOK, Announced, AbsentForgotten, [Room!Next]_(Room!vars) PROVE Announced'
  OBVIOUS
<1>1. CASE UNCHANGED <<here, selected, tool, presence>>
  BY <1>1 DEF Announced
<1>2. ASSUME NEW u \in Users, NEW by, Room!Awake(u), Room!Announce(u, by), UNCHANGED here,
             \A v \in Users \ {u} : selected'[v] = selected[v] /\ tool'[v] = tool[v]
      PROVE  Announced'
  <2>1. presence' = [presence EXCEPT ![u] = Room!Own(u, selected'[u], tool'[u])]
    BY <1>2 DEF Room!Announce
  <2>2. u \in here'
    BY <1>2 DEF Room!Awake
  <2> QED
    BY <1>2, <2>1, <2>2 DEF Announced, Room!TypeOK
<1>3. ASSUME NEW u \in Users, NEW m \in Measurements, NEW multi \in BOOLEAN, Room!Select(u, m, multi)
      PROVE  Announced'
  BY <1>3, <1>2 DEF Room!Select, Room!Seen, Room!TypeOK
<1>4. ASSUME NEW u \in Users, Room!Deselect(u)
      PROVE  Announced'
  BY <1>4, <1>2 DEF Room!Deselect, Room!Seen, Room!TypeOK
<1>5. ASSUME NEW u \in Users, Room!SetTool(u)
      PROVE  Announced'
  BY <1>5, <1>2 DEF Room!SetTool, Room!Seen, Room!TypeOK
<1>6. ASSUME NEW u \in Users, Room!DeleteOk(u)
      PROVE  Announced'
  BY <1>6, <1>2 DEF Room!DeleteOk, Room!Seen, Room!TypeOK
<1>7. ASSUME NEW u \in Users, Room!Resync(u)
      PROVE  Announced'
  BY <1>7, <1>2 DEF Room!Resync, Room!Seen, Room!TypeOK
<1>8. ASSUME NEW u \in Users, Room!Leave(u)
      PROVE  Announced'
  BY <1>8 DEF Room!Leave, Announced, Room!TypeOK
<1>9. ASSUME NEW u \in Users, Room!Enter(u)
      PROVE  Announced'
  <2>1. Room!Own(u, selected[u], tool[u]) = Room!None
    BY <1>9, NothingSelected DEF Room!Enter, AbsentForgotten
  <2> QED
    BY <1>9, <2>1 DEF Room!Enter, Announced, Room!TypeOK
<1>10. ASSUME NEW u \in Users,
              Room!Delete(u) \/ Room!ServeDelete(u) \/ Room!DeleteRefused(u) \/ Room!Unheard(u) \/ Room!Suspend(u) \/ Room!Resume(u)
       PROVE  Announced'
  BY <1>10, <1>1 DEF Room!Delete, Room!ServeDelete, Room!DeleteRefused, Room!Unheard, Room!Suspend, Room!Resume, Room!Seen, Room!Local
<1>11. ASSUME NEW u \in Users, NEW v \in Users, Room!Deliver(u, v)
       PROVE  Announced'
  BY <1>11, <1>1 DEF Room!Deliver, Room!Local
<1>12. CASE UNCHANGED Room!vars
  BY <1>12, <1>1 DEF Room!vars
<1> QED
  BY <1>3, <1>4, <1>5, <1>6, <1>7, <1>8, <1>9, <1>10, <1>11, <1>12, RoomCases

\* Leaving takes the selection and the presence received away.
LEMMA AbsentStep ==
    Room!TypeOK /\ Announced /\ AbsentForgotten /\ [Room!Next]_(Room!vars) => AbsentForgotten'
<1> SUFFICES ASSUME Room!TypeOK, Announced, AbsentForgotten, [Room!Next]_(Room!vars) PROVE AbsentForgotten'
  OBVIOUS
<1>1. ASSUME UNCHANGED <<here, seen>>, \A v \in Users \ here : selected'[v] = selected[v]
      PROVE  AbsentForgotten'
  BY <1>1 DEF AbsentForgotten
<1>2. ASSUME NEW u \in Users, NEW m \in Measurements, NEW multi \in BOOLEAN, Room!Select(u, m, multi)
      PROVE  AbsentForgotten'
  BY <1>2, <1>1 DEF Room!Select, Room!Seen, Room!Awake, Room!TypeOK
<1>3. ASSUME NEW u \in Users, Room!Deselect(u) \/ Room!SetTool(u) \/ Room!DeleteOk(u) \/ Room!Resync(u)
      PROVE  AbsentForgotten'
  BY <1>3, <1>1 DEF Room!Deselect, Room!SetTool, Room!DeleteOk, Room!Resync, Room!Seen, Room!Awake, Room!TypeOK
<1>4. ASSUME NEW u \in Users,
             Room!Delete(u) \/ Room!ServeDelete(u) \/ Room!DeleteRefused(u) \/ Room!Unheard(u) \/ Room!Suspend(u) \/ Room!Resume(u)
      PROVE  AbsentForgotten'
  BY <1>4, <1>1 DEF Room!Delete, Room!ServeDelete, Room!DeleteRefused, Room!Unheard, Room!Suspend, Room!Resume, Room!Seen, Room!Local
<1>5. ASSUME NEW u \in Users, Room!Leave(u)
      PROVE  AbsentForgotten'
  BY <1>5 DEF Room!Leave, AbsentForgotten, Room!TypeOK
<1>6. ASSUME NEW u \in Users, Room!Enter(u)
      PROVE  AbsentForgotten'
  BY <1>6 DEF Room!Enter, AbsentForgotten, Announced, Room!TypeOK
<1>7. ASSUME NEW u \in Users, NEW v \in Users, Room!Deliver(u, v)
      PROVE  AbsentForgotten'
  BY <1>7 DEF Room!Deliver, Room!Local, AbsentForgotten, Room!TypeOK
<1>8. CASE UNCHANGED Room!vars
  BY <1>8, <1>1 DEF Room!vars
<1> QED
  BY <1>2, <1>3, <1>4, <1>5, <1>6, <1>7, <1>8, RoomCases
-----------------------------------------------------------------------------
(* Maps.                                                                   *)

\* A map is computed again whenever what it depends on changes, except for falling
\* silent, which only one does at a time and which waking up makes good.
LEMMA MapsStep ==
    Room!TypeOK /\ Announced /\ AbsentForgotten /\ MapsComputed /\ [Room!Next]_(Room!vars) => MapsComputed'
<1> SUFFICES ASSUME Room!TypeOK, Announced, AbsentForgotten, MapsComputed, [Room!Next]_(Room!vars)
             PROVE  MapsComputed'
  OBVIOUS
<1>1. CASE UNCHANGED <<here, seen, silent, lockMap>>
  BY <1>1 DEF MapsComputed, Sight
<1>2. ASSUME NEW u \in Users, NEW m \in Measurements, NEW multi \in BOOLEAN, Room!Select(u, m, multi)
      PROVE  MapsComputed'
  BY <1>2, <1>1 DEF Room!Select, Room!Seen
<1>3. ASSUME NEW u \in Users, Room!Deselect(u) \/ Room!SetTool(u) \/ Room!DeleteOk(u) \/ Room!Resync(u)
      PROVE  MapsComputed'
  BY <1>3, <1>1 DEF Room!Deselect, Room!SetTool, Room!DeleteOk, Room!Resync, Room!Seen
<1>4. ASSUME NEW u \in Users, Room!Delete(u) \/ Room!ServeDelete(u) \/ Room!DeleteRefused(u) \/ Room!Unheard(u)
      PROVE  MapsComputed'
  BY <1>4, <1>1 DEF Room!Delete, Room!ServeDelete, Room!DeleteRefused, Room!Unheard, Room!Seen
<1>5. ASSUME NEW u \in Users, Room!Suspend(u)
      PROVE  MapsComputed'
  <2>1. \A v \in here : Sight(v, {})' = Sight(v, {}) /\ Sight(v, silent) = Sight(v, {})
    BY <1>5 DEF Room!Suspend, Sight
  <2> QED
    BY <1>5, <2>1 DEF Room!Suspend, MapsComputed
<1>6. ASSUME NEW u \in Users, Room!Resume(u)
      PROVE  MapsComputed'
  <2>1. silent = {u} /\ silent' = {} /\ UNCHANGED <<here, seen>>
    BY <1>6 DEF Room!Resume, MapsComputed
  <2>2. ASSUME NEW v \in here, v # u
        PROVE  lockMap'[v] = Sight(v, silent)'
    BY <1>6, <2>1, <2>2 DEF Room!Resume, Sight, Room!Locks, Room!TypeOK
  <2>3. ASSUME u \in here
        PROVE  lockMap'[u] = Sight(u, {})'
    <3>1. Sight(u, {u}) = Sight(u, {}) /\ Sight(u, {})' = Sight(u, {})
      BY <2>1 DEF Sight
    <3>2. lockMap'[u] = lockMap[u]
      BY <1>6, <2>3 DEF Room!Resume, Room!TypeOK
    <3> QED
      BY <2>1, <2>3, <3>1, <3>2 DEF MapsComputed
  <2> QED
    BY <2>1, <2>2, <2>3 DEF MapsComputed
<1>7. ASSUME NEW u \in Users, Room!Leave(u)
      PROVE  MapsComputed'
  <2>1. \A v \in here' : lockMap'[v] = Sight(v, silent)'
    BY <1>7 DEF Room!Leave, Sight, Room!Locks, Room!TypeOK
  <2>2. \A v, w \in silent' : v = w
    BY <1>7 DEF Room!Leave, MapsComputed
  <2> QED
    BY <2>1, <2>2 DEF MapsComputed
<1>8. ASSUME NEW u \in Users, Room!Enter(u)
      PROVE  MapsComputed'
  <2>1. lockMap'[u] = Sight(u, silent)'
    BY <1>8 DEF Room!Enter, Sight, Room!Locks, Room!TypeOK
  <2>2. ASSUME NEW v \in here
        PROVE  Sight(v, {})' = Sight(v, {}) /\ Sight(v, silent)' = Sight(v, silent)
    <3>1. /\ v # u /\ here' = here \cup {u} /\ silent' = silent
          /\ seen'[v] = seen[v] /\ seen[v][u] = Room!None
      BY <1>8, <2>2 DEF Room!Enter, AbsentForgotten, Room!TypeOK
    <3> QED
      BY <3>1 DEF Sight
  <2>3. \A v \in here : lockMap'[v] = lockMap[v]
    BY <1>8 DEF Room!Enter, Room!TypeOK
  <2>4. here' = here \cup {u} /\ silent' = silent
    BY <1>8 DEF Room!Enter
  <2> QED
    BY <2>1, <2>2, <2>3, <2>4 DEF MapsComputed
<1>9. ASSUME NEW u \in Users, NEW v \in Users, Room!Deliver(u, v)
      PROVE  MapsComputed'
  <2>1. lockMap'[v] = Sight(v, silent)'
    BY <1>9 DEF Room!Deliver, Sight, Room!Locks, Room!TypeOK
  <2>2. UNCHANGED <<here, silent>> /\ \A w \in here \ {v} : seen'[w] = seen[w] /\ lockMap'[w] = lockMap[w]
    BY <1>9 DEF Room!Deliver, Room!TypeOK
  <2>3. \A w \in here \ {v} : Sight(w, {})' = Sight(w, {}) /\ Sight(w, silent)' = Sight(w, silent)
    BY <2>2 DEF Sight
  <2> QED
    BY <2>1, <2>2, <2>3 DEF MapsComputed
<1>10. CASE UNCHANGED Room!vars
  BY <1>10, <1>1 DEF Room!vars
<1> QED
  BY <1>2, <1>3, <1>4, <1>5, <1>6, <1>7, <1>8, <1>9, <1>10, RoomCases
-----------------------------------------------------------------------------
(* Lists.                                                                  *)

\* What is selected is listed, and what is listed by a client with nothing to read
\* again exists, or its deletion was not announced, or will be.
LEMMA ListsStep ==
    Room!TypeOK /\ AbsentForgotten /\ ListsExplained /\ [Room!Next]_(Room!vars) => ListsExplained'
<1> SUFFICES ASSUME Room!TypeOK, AbsentForgotten, ListsExplained, [Room!Next]_(Room!vars)
             PROVE  ListsExplained'
  OBVIOUS
<1>1. ASSUME UNCHANGED <<rows, inSight, here, dropped, stale, untold>>,
             \A u \in Users : selected'[u] \subseteq inSight[u]
      PROVE  ListsExplained'
  BY <1>1 DEF ListsExplained, GoneQuietly, ServedDelete
<1>2. ASSUME UNCHANGED <<rows, inSight, here, stale, selected>>,
             \A m \in Measurements : GoneQuietly(m) => GoneQuietly(m)'
      PROVE  ListsExplained'
  BY <1>2 DEF ListsExplained, Room!TypeOK
<1>3. ASSUME NEW u \in Users, NEW m \in Measurements, NEW multi \in BOOLEAN, Room!Select(u, m, multi)
      PROVE  ListsExplained'
  <2>1. \A v \in Users : selected'[v] \subseteq inSight[v]
    BY <1>3 DEF Room!Select, Room!Hit, ListsExplained, Room!TypeOK
  <2> QED
    BY <1>3, <2>1, <1>1 DEF Room!Select, Room!Seen
<1>4. ASSUME NEW u \in Users, Room!Deselect(u) \/ Room!SetTool(u)
      PROVE  ListsExplained'
  <2>1. \A v \in Users : selected'[v] \subseteq inSight[v]
    BY <1>4 DEF Room!Deselect, Room!SetTool, ListsExplained, Room!TypeOK
  <2> QED
    BY <1>4, <2>1, <1>1 DEF Room!Deselect, Room!SetTool, Room!Seen
<1>5. ASSUME NEW u \in Users, Room!Delete(u)
      PROVE  ListsExplained'
  <2>1. \A m \in Measurements : ServedDelete(m) => ServedDelete(m)'
    BY <1>5 DEF Room!Delete, ServedDelete, Room!Idle, Room!TypeOK
  <2> QED
    BY <1>5, <2>1, <1>2 DEF Room!Delete, Room!Seen, GoneQuietly
<1>6. ASSUME NEW u \in Users, Room!ServeDelete(u)
      PROVE  ListsExplained'
  <2>1. \A m \in dropped[u].ids : GoneQuietly(m)'
    BY <1>6 DEF Room!ServeDelete, GoneQuietly, ServedDelete, Room!TypeOK
  <2>2. \A m \in Measurements : GoneQuietly(m) => GoneQuietly(m)'
    BY <1>6 DEF Room!ServeDelete, GoneQuietly, ServedDelete, Room!TypeOK
  <2>3. UNCHANGED <<inSight, selected, here, stale>> /\ rows' = rows \ dropped[u].ids
    BY <1>6 DEF Room!ServeDelete, Room!Seen
  <2> QED
    BY <2>1, <2>2, <2>3 DEF ListsExplained, Room!TypeOK
<1>7. ASSUME NEW u \in Users, Room!DeleteOk(u)
      PROVE  ListsExplained'
  <2>1. here' \ stale' = {}
    BY <1>7 DEF Room!DeleteOk, Room!Seen
  <2>2. \A v \in Users : selected'[v] \subseteq inSight'[v]
    BY <1>7 DEF Room!DeleteOk, ListsExplained, Room!TypeOK
  <2> QED
    BY <2>1, <2>2 DEF ListsExplained
<1>8. ASSUME NEW u \in Users, Room!DeleteRefused(u)
      PROVE  ListsExplained'
  <2>1. \A m \in Measurements : ServedDelete(m) => ServedDelete(m)'
    BY <1>8 DEF Room!DeleteRefused, ServedDelete, Room!TypeOK
  <2> QED
    BY <1>8, <2>1, <1>2 DEF Room!DeleteRefused, Room!Seen, GoneQuietly
<1>9. ASSUME NEW u \in Users, Room!Unheard(u)
      PROVE  ListsExplained'
  <2>1. \A m \in Measurements : GoneQuietly(m) => GoneQuietly(m)'
    BY <1>9 DEF Room!Unheard, GoneQuietly, ServedDelete, Room!TypeOK
  <2> QED
    BY <1>9, <2>1, <1>2 DEF Room!Unheard, Room!Seen
<1>10. ASSUME NEW u \in Users, Room!Resync(u)
       PROVE  ListsExplained'
  <2>1. UNCHANGED <<rows, here, untold, dropped>> /\ stale' = stale \ {u}
    BY <1>10 DEF Room!Resync, Room!Seen
  <2>2. inSight' = [inSight EXCEPT ![u] = rows] /\ \A v \in Users : selected'[v] \subseteq inSight'[v]
    BY <1>10 DEF Room!Resync, ListsExplained, Room!TypeOK
  <2> QED
    BY <2>1, <2>2 DEF ListsExplained, GoneQuietly, ServedDelete, Room!TypeOK
<1>11. ASSUME NEW u \in Users, Room!Suspend(u) \/ Room!Resume(u)
       PROVE  ListsExplained'
  BY <1>11, <1>1 DEF Room!Suspend, Room!Resume, Room!Local, ListsExplained
<1>12. ASSUME NEW u \in Users, NEW v \in Users, Room!Deliver(u, v)
       PROVE  ListsExplained'
  BY <1>12, <1>1 DEF Room!Deliver, Room!Local, ListsExplained
<1>13. ASSUME NEW u \in Users, Room!Leave(u)
       PROVE  ListsExplained'
  <2>1. /\ UNCHANGED <<rows, untold, dropped>>
        /\ here' = here \ {u} /\ stale' = stale \ {u}
        /\ selected' = [selected EXCEPT ![u] = {}] /\ inSight' = [inSight EXCEPT ![u] = {}]
    BY <1>13 DEF Room!Leave
  <2> QED
    BY <2>1 DEF ListsExplained, GoneQuietly, ServedDelete, Room!TypeOK
<1>14. ASSUME NEW u \in Users, Room!Enter(u)
       PROVE  ListsExplained'
  <2>1. /\ UNCHANGED <<rows, untold, dropped, stale, selected>>
        /\ here' = here \cup {u} /\ inSight' = [inSight EXCEPT ![u] = rows] /\ selected[u] = {}
    BY <1>14 DEF Room!Enter, AbsentForgotten
  <2> QED
    BY <2>1 DEF ListsExplained, GoneQuietly, ServedDelete, Room!TypeOK
<1>15. CASE UNCHANGED Room!vars
  BY <1>15, <1>1 DEF Room!vars, ListsExplained
<1> QED
  BY <1>3, <1>4, <1>5, <1>6, <1>7, <1>8, <1>9, <1>10, <1>11, <1>12, <1>13, <1>14, <1>15, RoomCases

-----------------------------------------------------------------------------
(* Two holders of one measurement.                                         *)

\* Who takes a lock somebody else has did not click it, or clicked it before the
\* other's presence was there.
LEMMA HoldersStep ==
    Room!TypeOK /\ Announced /\ Room!TwoHoldersExplained /\ [Room!Next]_(Room!vars) => Room!TwoHoldersExplained'
<1> SUFFICES ASSUME Room!TypeOK, Announced, Room!TwoHoldersExplained, [Room!Next]_(Room!vars)
             PROVE  Room!TwoHoldersExplained'
  OBVIOUS
<1> USE RoomAssumption DEF Room!None
<1>1. CASE UNCHANGED <<here, presence, unlooked, raced>>
  BY <1>1 DEF Room!TwoHoldersExplained, Room!Holds
<1>2. ASSUME NEW u \in Users, NEW by, Room!Announce(u, by), UNCHANGED here,
             by = Room!None \/ by \notin lockMap[u], selected'[u] \subseteq Measurements
      PROVE  Room!TwoHoldersExplained'
  <2> DEFINE taken == Room!Own(u, selected'[u], tool'[u])
  <2>1. presence' = [presence EXCEPT ![u] = taken] /\ taken \in Measurements \cup {Room!None}
    BY <1>2, OwnIsSelected, AnnounceType
  <2>2. /\ unlooked \ {u} = unlooked' \ {u} /\ raced \ {u} = raced' \ {u}
        /\ \/ taken = Room!None
           \/ taken = presence[u] /\ unlooked' = unlooked /\ raced' = raced
           \/ u \in unlooked' \cup raced'
           \/ \A v \in here \ {u} : presence[v] # taken
    BY <1>2 DEF Room!Announce
  <2> HIDE DEF taken
  <2>3. ASSUME NEW v \in here \ {u}, NEW m \in Measurements, presence'[u] = m, presence'[v] = m, u \in here
        PROVE  {u, v} \cap (raced' \cup unlooked') # {}
    <3>1. taken = m /\ presence[v] = m /\ taken # Room!None
      BY <2>1, <2>3 DEF Room!TypeOK
    <3>2. CASE taken = presence[u] /\ unlooked' = unlooked /\ raced' = raced
      BY <2>3, <3>1, <3>2 DEF Room!TwoHoldersExplained, Room!Holds
    <3> QED
      BY <2>2, <2>3, <3>1, <3>2
  <2>4. ASSUME NEW v \in here \ {u}, NEW w \in here \ {u}, NEW m \in Measurements,
               v # w, presence'[v] = m, presence'[w] = m
        PROVE  {v, w} \cap (raced' \cup unlooked') # {}
    <3>1. presence[v] = m /\ presence[w] = m
      BY <2>1, <2>4 DEF Room!TypeOK
    <3>2. {v, w} \cap (raced \cup unlooked) # {}
      BY <2>4, <3>1 DEF Room!TwoHoldersExplained, Room!Holds
    <3> QED
      BY <2>2, <3>2
  <2> QED
    BY <1>2, <2>3, <2>4 DEF Room!TwoHoldersExplained, Room!Holds
<1>3. ASSUME NEW u \in Users, NEW m \in Measurements, NEW multi \in BOOLEAN, Room!Select(u, m, multi)
      PROVE  Room!TwoHoldersExplained'
  <2>1. selected'[u] \subseteq Measurements /\ m \notin lockMap[u]
    BY <1>3 DEF Room!Select, Room!Hit, Room!TypeOK
  <2> QED
    BY <1>3, <2>1, <1>2 DEF Room!Select, Room!Seen
<1>4. ASSUME NEW u \in Users, Room!Deselect(u) \/ Room!SetTool(u) \/ Room!DeleteOk(u) \/ Room!Resync(u)
      PROVE  Room!TwoHoldersExplained'
  <2>1. selected'[u] \subseteq Measurements /\ Room!Announce(u, Room!None) /\ UNCHANGED here
    BY <1>4 DEF Room!Deselect, Room!SetTool, Room!DeleteOk, Room!Resync, Room!Seen, Room!TypeOK
  <2> QED
    BY <2>1, <1>2
<1>5. ASSUME NEW u \in Users,
             Room!Delete(u) \/ Room!ServeDelete(u) \/ Room!DeleteRefused(u) \/ Room!Unheard(u) \/ Room!Suspend(u) \/ Room!Resume(u)
      PROVE  Room!TwoHoldersExplained'
  BY <1>5, <1>1 DEF Room!Delete, Room!ServeDelete, Room!DeleteRefused, Room!Unheard, Room!Suspend, Room!Resume, Room!Seen, Room!Local
<1>6. ASSUME NEW u \in Users, NEW v \in Users, Room!Deliver(u, v)
      PROVE  Room!TwoHoldersExplained'
  BY <1>6, <1>1 DEF Room!Deliver, Room!Local
<1>7. ASSUME NEW u \in Users, Room!Leave(u)
      PROVE  Room!TwoHoldersExplained'
  <2>1. here' = here \ {u} /\ unlooked' = unlooked \ {u} /\ raced' = raced \ {u}
    BY <1>7 DEF Room!Leave
  <2>2. \A v \in here' : v # u /\ presence'[v] = presence[v]
    BY <1>7, <2>1 DEF Room!Leave, Room!TypeOK
  <2>3. ASSUME NEW v \in here', NEW w \in here', NEW m \in Measurements,
               v # w, presence'[v] = m, presence'[w] = m
        PROVE  {v, w} \cap (raced' \cup unlooked') # {}
    <3>1. {v, w} \cap (raced \cup unlooked) # {}
      BY <2>1, <2>2, <2>3 DEF Room!TwoHoldersExplained, Room!Holds
    <3> QED
      BY <2>1, <2>2, <2>3, <3>1
  <2> QED
    BY <2>3 DEF Room!TwoHoldersExplained, Room!Holds
<1>8. ASSUME NEW u \in Users, Room!Enter(u)
      PROVE  Room!TwoHoldersExplained'
  <2>1. presence[u] = Room!None /\ here' = here \cup {u} /\ UNCHANGED <<presence, raced, unlooked>>
    BY <1>8 DEF Room!Enter, Announced
  <2> QED
    BY <2>1 DEF Room!TwoHoldersExplained, Room!Holds
<1>9. CASE UNCHANGED Room!vars
  BY <1>9, <1>1 DEF Room!vars
<1> QED
  BY <1>3, <1>4, <1>5, <1>6, <1>7, <1>8, <1>9, RoomCases

-----------------------------------------------------------------------------
(* The room's invariant.                                                   *)

LEMMA RoomStart == Room!Init => RoomInv
<1> SUFFICES ASSUME Room!Init PROVE RoomInv
  OBVIOUS
<1>2. Room!TypeOK
  BY DEF Room!Init, Room!Idle, Room!TypeOK
<1>3. \A u \in Users : selected[u] = {} /\ presence[u] = Room!None
  BY DEF Room!Init
<1>4. Announced
  BY <1>3, NothingSelected DEF Announced
<1>5. AbsentForgotten
  BY <1>3 DEF Room!Init, AbsentForgotten
<1>6. MapsComputed
  BY DEF Room!Init, MapsComputed, Sight
<1>7. ListsExplained
  BY <1>3 DEF Room!Init, ListsExplained
<1>8. Room!TwoHoldersExplained
  BY <1>3, RoomAssumption DEF Room!Init, Room!None, Room!TwoHoldersExplained, Room!Holds
<1> QED
  BY <1>2, <1>4, <1>5, <1>6, <1>7, <1>8 DEF RoomInv

LEMMA RoomStep == RoomInv /\ [Room!Next]_(Room!vars) => RoomInv'
BY RoomTypeStep, AnnouncedStep, AbsentStep, MapsStep, ListsStep, HoldersStep DEF RoomInv

\* The invariant has what is stated of the locks.
LEMMA RoomPromises ==
    RoomInv => Room!TypeOK /\ Room!LocksFollowSelection /\ Room!GhostsAreUntold /\ Room!TwoHoldersExplained
<1> SUFFICES ASSUME RoomInv
             PROVE  Room!TypeOK /\ Room!LocksFollowSelection /\ Room!GhostsAreUntold /\ Room!TwoHoldersExplained
  OBVIOUS
<1>1. Room!LocksFollowSelection
  <2>1. ASSUME silent = {}, \A u, v \in here : u # v => seen[v][u] = presence[u], NEW v \in here
        PROVE  lockMap[v] = {presence[u] : u \in here \ {v}} \ {Room!None}
    BY <2>1 DEF RoomInv, MapsComputed, Sight
  <2>2. \A u \in here : presence[u] = Room!Own(u, selected[u], tool[u])
    BY DEF RoomInv, Announced, Room!TypeOK
  <2> QED
    BY <2>1, <2>2 DEF Room!LocksFollowSelection
<1>2. Room!GhostsAreUntold
  <2>1. ASSUME stale = {}, \A u \in Users : dropped[u] = Room!Idle, NEW u \in here
        PROVE  presence[u] \in rows \cup untold \cup {Room!None}
    <3>1. u \in Users /\ presence[u] = Room!Own(u, selected[u], tool[u])
      BY DEF RoomInv, Announced, Room!TypeOK
    <3>2. presence[u] \in selected[u] \cup {Room!None}
      BY <3>1, OwnIsSelected
    <3>3. selected[u] \subseteq inSight[u] /\ \A m \in inSight[u] : m \in rows \/ GoneQuietly(m)
      BY <2>1, <3>1 DEF RoomInv, ListsExplained
    <3>4. \A m : ~ServedDelete(m)
      BY <2>1 DEF ServedDelete, Room!Idle
    <3> QED
      BY <3>2, <3>3, <3>4 DEF GoneQuietly
  <2> QED
    BY <2>1 DEF Room!GhostsAreUntold
<1> QED
  BY <1>1, <1>2 DEF RoomInv
-----------------------------------------------------------------------------
(* The list of the quantities.                                             *)

Renames == {c \in rowCalls : c.op = "rename"}

\* The lock is held from the request to the answer, so that there is one rename.
RenameLocked ==
    /\ \A c, d \in Renames : c = d
    /\ Renames # {} => lock = "held"

\* What is wanted of a row is in the request on its way, or everywhere.
WantedOrAsked == \A m \in Measurements :
    /\ \A c \in Renames : c.row = m => want[m] = c.to /\ (c.pc = "ok" => label[m] = c.to)
    /\ m \notin upset /\ (\A c \in Renames : c.row # m) => label[m] = want[m] /\ rowShown[m] = want[m]

ListInv == List!TypeOK /\ List!OneFieldOpen /\ RenameLocked /\ WantedOrAsked

RowCall == [row : Measurements, op : List!Ops, to : Names \cup {List!None},
         old : BOOLEAN, pc : {"sent", "ok", "refused"}, n : 1..MaxOps]

-----------------------------------------------------------------------------
(* Type correctness.                                                       *)

LEMMA SendType ==
    ASSUME List!TypeOK, NEW m \in Measurements, NEW op \in List!Ops, NEW to \in Names \cup {List!None}, List!Send(m, op, to)
    PROVE  rowCalls' \subseteq RowCall /\ ops' \in 0..MaxOps
<1>1. ops' = ops + 1 /\ ops' \in 0..MaxOps /\ ops + 1 \in 1..MaxOps
  BY SectionsAssumption DEF List!Send, List!TypeOK
<1>2. PICK old \in BOOLEAN : rowCalls' = rowCalls \cup {[row |-> m, op |-> op, to |-> to, pc |-> "sent", n |-> ops + 1, old |-> old]}
  BY DEF List!Send
<1>3. rowCalls \subseteq RowCall
  BY DEF List!TypeOK, RowCall
<1> QED
  BY <1>1, <1>2, <1>3 DEF RowCall

LEMMA ListTypeStep ==
    ASSUME List!TypeOK, [List!Next]_(List!vars)
    PROVE  List!TypeOK'
<1>1. CASE UNCHANGED List!vars
  BY <1>1 DEF List!TypeOK, List!vars, List!server, List!list, List!rename, List!panel, List!notes
<1>2. ASSUME NEW o \in SUBSET Sheets, List!Tree(o)
      PROVE  List!TypeOK'
  BY <1>2 DEF List!Tree, List!TypeOK, List!server, List!list, List!rename, List!panel, List!notes
<1>3. List!Listing \subseteq Sheets
  BY ListAssumption DEF List!Listing, List!TypeOK
<1>4. CASE List!ToggleCond \/ List!ExpandAll \/ List!CollapseAll \/ \E s \in Sheets : List!ToggleSheet(s)
  <2>1. PICK o \in SUBSET Sheets : List!Tree(o)
    BY <1>3, <1>4 DEF List!ToggleCond, List!ExpandAll, List!CollapseAll, List!ToggleSheet, List!TypeOK
  <2> QED
    BY <2>1, <1>2
<1>5. ASSUME NEW m \in Measurements, List!OpenField(m)
      PROVE  List!TypeOK'
  BY <1>5
     DEF List!OpenField, List!StartEdit, List!StartRename, List!Typing, List!TypeOK, List!server,
         List!list, List!rename, List!panel, List!notes
<1>6. ASSUME NEW m \in Measurements, List!OpenMenu(m)
      PROVE  List!TypeOK'
  BY <1>6
     DEF List!OpenMenu, List!Menu, List!TypeOK, List!server, List!list, List!rename, List!panel,
         List!notes
<1>7. ASSUME NEW n \in Names \cup {List!None}, List!TypeName(n)
      PROVE  List!TypeOK'
  BY <1>7
     DEF List!TypeName, List!Typing, List!TypeOK, List!server, List!list, List!rename, List!panel,
         List!notes
<1>8. CASE List!EscapeEdit \/ List!EscapeRename \/ List!BlurSkipped \/ List!FrameOver
  BY <1>8
     DEF List!EscapeEdit, List!EscapeRename, List!BlurSkipped, List!FrameOver, List!Typing,
         List!TypeOK, List!server, List!list, List!rename, List!panel, List!notes
<1>9. CASE List!CommitEdit
  <2>1. rowCalls' \subseteq RowCall /\ ops' \in 0..MaxOps
    BY <1>9, SendType DEF List!CommitEdit, List!Field, List!Visible, List!Ops, List!TypeOK, RowCall
  <2> QED
    BY <1>9, <2>1
       DEF List!CommitEdit, List!TypeOK, RowCall, List!server, List!list, List!rename, List!panel,
           List!notes
<1>10. CASE List!SubmitRename
  <2>1. renaming \in Measurements
    BY <1>10 DEF List!SubmitRename, List!Field, List!Visible, List!TypeOK
  <2>2. rowCalls' \subseteq RowCall /\ ops' \in 0..MaxOps
    BY <1>10, <2>1, SendType DEF List!SubmitRename, List!Ops, List!TypeOK, RowCall
  <2>3. want' \in [Measurements -> Names \cup {List!None}] /\ upset' \subseteq Measurements
    BY <1>10, <2>1 DEF List!SubmitRename, List!TypeOK, List!notes
  <2>4. /\ renaming' \in Measurements \cup {List!None} /\ name' \in Names \cup {List!None}
        /\ lock' \in {"free", "held", "frame"}
    BY <1>10 DEF List!SubmitRename, List!TypeOK
  <2> QED
    BY <1>10, <2>2, <2>3, <2>4
       DEF List!SubmitRename, List!TypeOK, RowCall, List!server, List!list, List!panel
<1>11. CASE List!CloseMenu \/ List!MenuField \/ List!MenuDelete
  BY <1>11
     DEF List!CloseMenu, List!MenuField, List!MenuDelete, List!StartEdit, List!StartRename,
         List!Menu, List!TypeOK, List!server, List!list, List!rename, List!panel, List!notes
<1>12. ASSUME NEW op \in List!Ops, List!MenuSends(op)
       PROVE  List!TypeOK'
  <2>1. rowCalls' \subseteq RowCall /\ ops' \in 0..MaxOps
    BY <1>12, SendType DEF List!MenuSends, List!TypeOK
  <2> QED
    BY <1>12, <2>1
       DEF List!MenuSends, List!Menu, List!TypeOK, RowCall, List!server, List!list, List!rename,
           List!panel, List!notes
<1>13. ASSUME NEW yes \in BOOLEAN, List!AnswerDelete(yes)
       PROVE  List!TypeOK'
  <2>1. rowCalls' \subseteq RowCall /\ ops' \in 0..MaxOps
    BY <1>13, SendType DEF List!AnswerDelete, List!Ops, List!TypeOK, RowCall
  <2> QED
    BY <1>13, <2>1
       DEF List!AnswerDelete, List!Menu, List!TypeOK, RowCall, List!server, List!list, List!rename,
           List!panel, List!notes
<1>14. ASSUME NEW c \in rowCalls, List!Serve(c)
       PROVE  List!TypeOK'
  <2>1. c \in RowCall /\ rowCalls \subseteq RowCall
    BY DEF List!TypeOK, RowCall
  <2>2. \A d \in RowCall : [d EXCEPT !.old = TRUE] \in RowCall /\ [d EXCEPT !.pc = "ok"] \in RowCall
    BY DEF RowCall
  <2>3. rowCalls' \subseteq RowCall
    BY <1>14, <2>1, <2>2 DEF List!Serve
  <2>4. label' \in [Measurements -> Names \cup {List!None}] /\ rowExists' \subseteq Measurements
    BY <1>14, <2>1 DEF List!Serve, List!TypeOK, RowCall
  <2> QED
    BY <1>14, <2>3, <2>4
       DEF List!Serve, List!TypeOK, RowCall, List!list, List!rename, List!panel, List!notes
<1>15. ASSUME NEW c \in rowCalls, List!Refuse(c)
       PROVE  List!TypeOK'
  <2>1. c \in RowCall /\ rowCalls \subseteq RowCall
    BY DEF List!TypeOK, RowCall
  <2>2. [c EXCEPT !.pc = "refused"] \in RowCall
    BY <2>1 DEF RowCall
  <2>3. rowCalls' \subseteq RowCall
    BY <1>15, <2>1, <2>2 DEF List!Refuse, List!Moved
  <2>4. upsets' \in 0..MaxUpsets
    BY <1>15, SectionsAssumption DEF List!Refuse, List!TypeOK
  <2> QED
    BY <1>15, <2>3, <2>4
       DEF List!Refuse, List!TypeOK, RowCall, List!server, List!list, List!rename, List!panel,
           List!notes
<1>16. ASSUME NEW c \in rowCalls, List!Answered(c) \/ List!Failed(c)
       PROVE  List!TypeOK'
  <2>1. c \in RowCall
    BY DEF List!TypeOK, RowCall
  <2>2. listing' \subseteq Measurements /\ rowShown' \in [Measurements -> Names \cup {List!None}] /\ upset' \subseteq Measurements
    BY <1>16, <2>1 DEF List!Answered, List!Failed, List!TypeOK, RowCall
  <2>3. List!Closed(c)
    BY <1>16 DEF List!Answered, List!Failed
  <2>4. /\ {editing', renaming', menu', deleteId'} \subseteq Measurements \cup {List!None}
        /\ name' \in Names \cup {List!None} /\ lock' \in {"free", "held", "frame"} /\ rowCalls' \subseteq rowCalls
    BY <2>3 DEF List!Closed, List!TypeOK
  <2> QED
    BY <2>2, <2>3, <2>4 DEF List!Closed, List!TypeOK, List!server
<1> QED
  BY <1>1, <1>4, <1>5, <1>6, <1>7, <1>8, <1>9, <1>10, <1>11, <1>12, <1>13, <1>14, <1>15, <1>16
     DEF List!Next
-----------------------------------------------------------------------------
(* One field.                                                              *)

\* Opening a field closes the other kind; everything else only closes fields.
LEMMA OneFieldStep ==
    ASSUME List!OneFieldOpen, [List!Next]_(List!vars)
    PROVE  List!OneFieldOpen'
<1>1. CASE UNCHANGED <<editing, renaming>>
  BY <1>1 DEF List!OneFieldOpen
<1>2. CASE List!ToggleCond \/ List!ExpandAll \/ List!CollapseAll \/ \E s \in Sheets : List!ToggleSheet(s)
  BY <1>2, <1>1
     DEF List!ToggleCond, List!ExpandAll, List!CollapseAll, List!ToggleSheet, List!Tree, List!rename
<1>3. CASE \E m \in Measurements : List!OpenField(m) \/ List!OpenMenu(m)
  BY <1>3
     DEF List!OpenField, List!OpenMenu, List!StartEdit, List!StartRename, List!OneFieldOpen,
         List!rename
<1>4. CASE (\E n \in Names \cup {List!None} : List!TypeName(n)) \/ List!BlurSkipped \/ List!FrameOver
  BY <1>4, <1>1 DEF List!TypeName, List!BlurSkipped, List!FrameOver
<1>5. CASE List!EscapeEdit \/ List!EscapeRename \/ List!CommitEdit \/ List!SubmitRename
  BY <1>5
     DEF List!EscapeEdit, List!EscapeRename, List!CommitEdit, List!SubmitRename, List!OneFieldOpen,
         List!rename
<1>6. CASE List!CloseMenu \/ List!MenuField \/ List!MenuDelete
  BY <1>6
     DEF List!CloseMenu, List!MenuField, List!MenuDelete, List!StartEdit, List!StartRename,
         List!OneFieldOpen, List!rename
<1>7. CASE (\E op \in List!Ops : List!MenuSends(op)) \/ (\E yes \in BOOLEAN : List!AnswerDelete(yes))
  BY <1>7, <1>1 DEF List!MenuSends, List!AnswerDelete, List!rename
<1>8. CASE \E c \in rowCalls : List!Serve(c) \/ List!Refuse(c)
  BY <1>8, <1>1 DEF List!Serve, List!Refuse, List!rename
<1>9. CASE \E c \in rowCalls : List!Answered(c) \/ List!Failed(c)
  BY <1>9 DEF List!Answered, List!Failed, List!Closed, List!OneFieldOpen
<1>10. CASE UNCHANGED List!vars
  BY <1>10, <1>1 DEF List!vars, List!rename
<1> QED
  BY <1>2, <1>3, <1>4, <1>5, <1>6, <1>7, <1>8, <1>9, <1>10 DEF List!Next

-----------------------------------------------------------------------------
(* Renames.                                                                *)

\* What a step does to the renames in flight: nothing, with labels, rows and notes
\* unchanged; one more under the lock; or progress of the one there is.
RowsQuiet == UNCHANGED <<Renames, label, rowShown, want>> /\ upset \subseteq upset'
                  /\ (lock' = lock \/ Renames = {})

LEMMA SendQuiet ==
    ASSUME NEW m, NEW op \in {"value", "reset", "reassign", "delete"}, NEW to, List!Send(m, op, to)
    PROVE  Renames' = Renames
BY DEF List!Send, Renames

\* Steps that neither send a rename nor answer anything.
LEMMA QuietSteps ==
    ASSUME RenameLocked, [List!Next]_(List!vars)
    PROVE  \/ RowsQuiet
           \/ List!SubmitRename /\ lock = "free" /\ name # rowShown[renaming]
           \/ \E c \in rowCalls : List!Serve(c) \/ List!Refuse(c) \/ List!Answered(c) \/ List!Failed(c)
<1> USE DEF List!server, List!list, List!rename, List!notes
<1>1. CASE UNCHANGED <<rowCalls, label, rowShown, want, upset, lock>>
  BY <1>1 DEF RowsQuiet, Renames
<1>2. CASE List!ToggleCond \/ List!ExpandAll \/ List!CollapseAll \/ \E s \in Sheets : List!ToggleSheet(s)
  BY <1>2, <1>1 DEF List!ToggleCond, List!ExpandAll, List!CollapseAll, List!ToggleSheet, List!Tree
<1>3. CASE \E m \in Measurements : List!OpenField(m) \/ List!OpenMenu(m)
  BY <1>3, <1>1
     DEF List!OpenField, List!OpenMenu, List!StartEdit, List!StartRename, List!Typing, List!Menu
<1>4. CASE (\E n \in Names \cup {List!None} : List!TypeName(n)) \/ List!EscapeEdit \/ List!EscapeRename \/ List!BlurSkipped
  BY <1>4, <1>1 DEF List!TypeName, List!EscapeEdit, List!EscapeRename, List!BlurSkipped, List!Typing
<1>5. CASE List!FrameOver
  <2>1. Renames = {}
    BY <1>5 DEF List!FrameOver, RenameLocked
  <2> QED
    BY <1>5, <2>1 DEF List!FrameOver, List!Typing, RowsQuiet, Renames
<1>6. CASE List!CommitEdit
  <2>1. Renames' = Renames
    BY <1>6, SendQuiet DEF List!CommitEdit, Renames
  <2> QED
    BY <1>6, <2>1 DEF List!CommitEdit, RowsQuiet
<1>7. CASE List!SubmitRename /\ ~(lock = "free" /\ name # rowShown[renaming])
  <2>1. lock' = lock \/ Renames = {}
    BY <1>7 DEF List!SubmitRename, RenameLocked
  <2>2. UNCHANGED <<rowCalls, label, rowShown, want>> /\ upset \subseteq upset'
    BY <1>7 DEF List!SubmitRename
  <2> QED
    BY <2>1, <2>2 DEF RowsQuiet, Renames
<1>8. CASE List!CloseMenu \/ List!MenuField \/ List!MenuDelete
  BY <1>8, <1>1
     DEF List!CloseMenu, List!MenuField, List!MenuDelete, List!StartEdit, List!StartRename,
         List!Menu
<1>9. CASE (\E op \in List!Ops : List!MenuSends(op)) \/ (\E yes \in BOOLEAN : List!AnswerDelete(yes))
  <2>1. Renames' = Renames
    BY <1>9, SendQuiet DEF List!MenuSends, List!AnswerDelete, Renames
  <2> QED
    BY <1>9, <2>1 DEF List!MenuSends, List!AnswerDelete, List!Menu, RowsQuiet
<1>10. CASE UNCHANGED List!vars
  BY <1>10, <1>1 DEF List!vars
<1> QED
  BY <1>2, <1>3, <1>4, <1>5, <1>6, <1>7, <1>8, <1>9, <1>10 DEF List!Next

\* A rename leaves nothing else in flight, and its answer finds the row as it was wanted.
LEMMA RenamesStep ==
    ASSUME List!TypeOK, RenameLocked, WantedOrAsked, [List!Next]_(List!vars)
    PROVE  RenameLocked' /\ WantedOrAsked'
<1>1. CASE RowsQuiet
  <2>1. RenameLocked'
    BY <1>1 DEF RowsQuiet, RenameLocked
  <2>2. WantedOrAsked'
    BY <1>1 DEF RowsQuiet, WantedOrAsked
  <2> QED
    BY <2>1, <2>2
<1>2. CASE List!SubmitRename /\ lock = "free" /\ name # rowShown[renaming]
  <2>1. Renames = {} /\ renaming \in Measurements
    BY <1>2 DEF List!SubmitRename, RenameLocked, List!Field, List!Visible, List!TypeOK
  <2>2. PICK c : rowCalls' = rowCalls \cup {c} /\ c.row = renaming /\ c.op = "rename" /\ c.to = name /\ c.pc = "sent"
    <3>1. List!Send(renaming, "rename", name)
      BY <1>2 DEF List!SubmitRename
    <3> DEFINE new == [row |-> renaming, op |-> "rename", to |-> name, pc |-> "sent", n |-> ops + 1,
                       old |-> \E d \in rowCalls : d.row = renaming /\ d.pc = "ok"]
    <3>2. rowCalls' = rowCalls \cup {new}
      BY <3>1 DEF List!Send
    <3>3. new.row = renaming /\ new.op = "rename" /\ new.to = name /\ new.pc = "sent"
      OBVIOUS
    <3> HIDE DEF new
    <3> QED
      BY <3>2, <3>3
  <2>3. Renames' = {c}
    BY <2>1, <2>2 DEF Renames
  <2>4. /\ lock' = "held" /\ want' = [want EXCEPT ![renaming] = name]
        /\ UNCHANGED <<label, rowShown, upset>>
    BY <1>2 DEF List!SubmitRename, List!server, List!list
  <2>5. RenameLocked'
    BY <2>3, <2>4 DEF RenameLocked
  <2>6. WantedOrAsked'
    BY <2>1, <2>2, <2>3, <2>4 DEF WantedOrAsked, List!TypeOK
  <2> QED
    BY <2>5, <2>6
<1>3. ASSUME NEW c \in rowCalls, List!Serve(c)
      PROVE  RenameLocked' /\ WantedOrAsked'
  <2>1. c \in RowCall /\ c.row \in Measurements /\ rowCalls \subseteq RowCall
    BY DEF List!TypeOK, RowCall
  <2>2. UNCHANGED <<rowShown, want, upset, lock>>
    BY <1>3 DEF List!Serve, List!list, List!rename, List!notes
  <2> DEFINE Aged(d) == IF d.row = c.row /\ d.pc = "sent" THEN [d EXCEPT !.old = TRUE] ELSE d
             done == [c EXCEPT !.pc = "ok"]
  <2>5. \A d \in rowCalls : Aged(d).row = d.row /\ Aged(d).op = d.op /\ Aged(d).to = d.to /\ Aged(d).pc = d.pc
    BY <2>1 DEF RowCall
  <2>6. done.row = c.row /\ done.op = c.op /\ done.to = c.to
    BY <2>1 DEF RowCall
  <2>7. rowCalls' = {Aged(d) : d \in rowCalls \ {c}} \cup {done}
    BY <1>3 DEF List!Serve
  <2> HIDE DEF Aged, done
  <2>3. CASE c.op = "rename"
    <3>1. Renames = {c}
      BY <2>3 DEF RenameLocked, Renames
    <3>2. Renames' = {done}
      <4>1. \A d \in rowCalls \ {c} : d.op # "rename"
        BY <3>1 DEF Renames
      <4> QED
        BY <2>3, <2>5, <2>6, <2>7, <4>1 DEF Renames
    <3>4. label' = [label EXCEPT ![c.row] = c.to]
      BY <1>3, <2>3 DEF List!Serve
    <3>5. RenameLocked'
      BY <2>2, <3>1, <3>2 DEF RenameLocked
    <3>6. want[c.row] = c.to
      BY <2>1, <3>1 DEF WantedOrAsked
    <3>7. ASSUME NEW m \in Measurements, m # c.row
          PROVE  label'[m] = label[m] /\ (m \notin upset => label[m] = want[m] /\ rowShown[m] = want[m])
      BY <3>1, <3>4, <3>7 DEF WantedOrAsked, List!TypeOK
    <3>8. label'[c.row] = c.to
      BY <2>1, <3>4 DEF List!TypeOK
    <3>9. WantedOrAsked'
      BY <2>2, <2>6, <3>2, <3>6, <3>7, <3>8 DEF WantedOrAsked
    <3> QED
      BY <3>5, <3>9
  <2>4. CASE c.op # "rename"
    <3>1. \A d \in Renames : Aged(d) \in Renames'
      BY <2>4, <2>5, <2>7 DEF Renames
    <3>2. \A e \in Renames' : \E d \in Renames : e = Aged(d)
      <4> SUFFICES ASSUME NEW e \in Renames' PROVE \E d \in Renames : e = Aged(d)
        OBVIOUS
      <4>1. e \in rowCalls' /\ e.op = "rename"
        BY DEF Renames
      <4>2. PICK d \in rowCalls \ {c} : e = Aged(d)
        BY <2>4, <2>6, <2>7, <4>1
      <4>3. d \in Renames
        BY <2>5, <4>1, <4>2 DEF Renames
      <4> QED
        BY <4>2, <4>3
    <3>5. label' = label
      BY <1>3, <2>4 DEF List!Serve
    <3>6. RenameLocked'
      BY <2>2, <3>2 DEF RenameLocked
    <3>7. \A d \in Renames : d \in rowCalls
      BY DEF Renames
    <3>8. WantedOrAsked'
      BY <2>2, <2>5, <3>1, <3>2, <3>5, <3>7 DEF WantedOrAsked
    <3> QED
      BY <3>6, <3>8
  <2> QED
    BY <2>3, <2>4
<1>4. ASSUME NEW c \in rowCalls, List!Refuse(c)
      PROVE  RenameLocked' /\ WantedOrAsked'
  <2> DEFINE e == [c EXCEPT !.pc = "refused"]
  <2>1. e.row = c.row /\ e.op = c.op /\ e.to = c.to /\ e.pc = "refused"
    BY DEF List!TypeOK
  <2>2. rowCalls' = (rowCalls \ {c}) \cup {e} /\ UNCHANGED <<label, rowShown, want, upset, lock>>
    BY <1>4 DEF List!Refuse, List!Moved, List!server, List!list, List!rename, List!notes
  <2> HIDE DEF e
  <2>3. Renames' = IF c.op = "rename" THEN (Renames \ {c}) \cup {e} ELSE Renames
    BY <2>1, <2>2 DEF Renames
  <2>4. RenameLocked'
    BY <2>2, <2>3 DEF RenameLocked, Renames
  <2>5. c.op = "rename" => c \in Renames
    BY DEF Renames
  <2>6. WantedOrAsked'
    BY <2>1, <2>2, <2>3, <2>5 DEF WantedOrAsked
  <2> QED
    BY <2>4, <2>6
<1>5. ASSUME NEW c \in rowCalls, List!Answered(c) \/ List!Failed(c)
      PROVE  RenameLocked' /\ WantedOrAsked'
  <2>1. /\ c.row \in Measurements /\ rowCalls' = rowCalls \ {c}
        /\ lock' = (IF c.op = "rename" THEN "frame" ELSE lock)
        /\ UNCHANGED <<label, want>>
    BY <1>5 DEF List!Answered, List!Failed, List!Closed, List!server, List!TypeOK
  <2>2. Renames' = IF c.op = "rename" THEN {} ELSE Renames
    BY <2>1 DEF Renames, RenameLocked
  <2>3. RenameLocked'
    BY <2>1, <2>2 DEF RenameLocked
  <2>4. c.op = "rename" => \A d \in Renames : d = c
    BY DEF RenameLocked, Renames
  <2>5. c.op = "rename" => c \in Renames
    BY DEF Renames
  <2>6. CASE List!Answered(c)
    <3>1. /\ rowShown' = IF c.op = "rename" THEN [rowShown EXCEPT ![c.row] = c.to] ELSE rowShown
          /\ upset' = upset /\ c.pc = "ok"
      BY <2>6 DEF List!Answered, List!At
    <3>2. CASE c.op = "rename"
      <4>1. want[c.row] = c.to /\ label[c.row] = c.to
        BY <2>1, <2>5, <3>1, <3>2 DEF WantedOrAsked
      <4>2. \A m \in Measurements : m # c.row /\ m \notin upset => label[m] = want[m] /\ rowShown[m] = want[m]
        BY <2>4, <3>2 DEF WantedOrAsked
      <4>3. rowShown'[c.row] = c.to /\ \A m \in Measurements : m # c.row => rowShown'[m] = rowShown[m]
        BY <2>1, <3>1, <3>2 DEF List!TypeOK
      <4>4. Renames' = {}
        BY <2>2, <3>2
      <4> QED
        BY <2>1, <2>3, <3>1, <4>1, <4>2, <4>3, <4>4 DEF WantedOrAsked
    <3>3. CASE c.op # "rename"
      BY <2>1, <2>2, <2>3, <3>1, <3>3 DEF WantedOrAsked
    <3> QED
      BY <3>2, <3>3
  <2>7. CASE List!Failed(c)
    <3>1. (rowShown' = label \/ rowShown' = rowShown) /\ upset' = upset \cup {c.row}
      BY <2>7 DEF List!Failed
    <3>2. \A m \in Measurements : m \notin upset' /\ (\A d \in Renames' : d.row # m) => \A d \in Renames : d.row # m
      BY <2>2, <2>4, <3>1
    <3>3. ASSUME NEW m \in Measurements, m \notin upset', \A d \in Renames' : d.row # m
          PROVE  label'[m] = want'[m] /\ rowShown'[m] = want'[m]
      BY <2>1, <3>1, <3>2, <3>3 DEF WantedOrAsked
    <3>4. \A d \in Renames' : d \in Renames
      BY <2>2
    <3>5. \A m \in Measurements, d \in Renames' : d.row = m => want'[m] = d.to /\ (d.pc = "ok" => label'[m] = d.to)
      BY <2>1, <3>4 DEF WantedOrAsked
    <3> QED
      BY <2>3, <3>3, <3>5 DEF WantedOrAsked
  <2> QED
    BY <1>5, <2>6, <2>7
<1> QED
  BY <1>1, <1>2, <1>3, <1>4, <1>5, QuietSteps

-----------------------------------------------------------------------------
(* The invariant.                                                          *)

LEMMA ListInit ==
    ASSUME List!Init
    PROVE  ListInv
<1>1. List!TypeOK
  <2>1. [m \in Measurements |-> List!None] \in [Measurements -> Names \cup {List!None}]
    OBVIOUS
  <2>2. ops \in 0..MaxOps /\ upsets \in 0..MaxUpsets
    BY SectionsAssumption DEF List!Init
  <2> QED
    BY <2>1, <2>2 DEF List!Init, List!TypeOK
<1>2. List!OneFieldOpen /\ RenameLocked /\ WantedOrAsked
  BY DEF List!Init, List!OneFieldOpen, RenameLocked, WantedOrAsked, Renames
<1> QED
  BY <1>1, <1>2 DEF ListInv

LEMMA ListStep ==
    ASSUME ListInv, [List!Next]_(List!vars)
    PROVE  ListInv'
BY ListTypeStep, OneFieldStep, RenamesStep DEF ListInv

\* What the panel promises of its fields and names.
LEMMA ListPromises ==
    ASSUME ListInv
    PROVE  List!OneFieldOpen /\ List!OneRenameInFlight /\ List!NamesAsSubmitted
<1>0. List!OneRenameInFlight <=> Cardinality(Renames) <= 1
  BY DEF List!OneRenameInFlight, Renames, List!Cardinality, Cardinality
<1>1. List!OneRenameInFlight
  <2>1. CASE Renames = {}
    BY <2>1, <1>0, FS_EmptySet
  <2>2. CASE Renames # {}
    <3>1. PICK c : Renames = {c}
      <4>1. PICK c : c \in Renames
        BY <2>2
      <4>2. \A d \in Renames : d = c
        BY <4>1 DEF ListInv, RenameLocked
      <4> QED
        BY <4>1, <4>2
    <3>2. Cardinality({c}) = 1
      BY FS_Singleton
    <3> QED
      BY <3>1, <3>2, <1>0
  <2> QED
    BY <2>1, <2>2
<1>2. List!NamesAsSubmitted
  BY DEF ListInv, WantedOrAsked, List!NamesAsSubmitted, List!TypeOK, Renames
<1> QED
  BY <1>1, <1>2 DEF ListInv
-----------------------------------------------------------------------------
(* The panel's invariant.                                                  *)

Some == Ids \cup {None}
Revs == [Ids -> 0..(MaxOps + MaxUpsets)]
Form == [of : Some, base : Nat, typed : BOOLEAN]
Request == [op : Ops, target : Some, pc : {"sent", "ok", "refused", "reloading", "done"},
            made : Some, rest : Some, n : 1..MaxOps]

ServerType == exists \subseteq Ids /\ rev \in [Ids -> Nat] /\ next \in 1..(MaxId + 1)
QueryType ==
    /\ loaded \in BOOLEAN /\ listed \subseteq Ids /\ shown \in Revs
    /\ fetch \in {"idle", "asked", "read"} /\ snap \in [ids : SUBSET Ids, rev : Revs]
    /\ ~loaded => listed = {}
ChoiceType == active \in Some /\ initialised \in BOOLEAN /\ creating \in BOOLEAN /\ form \in Form
FlagsType ==
    /\ saving \in BOOLEAN /\ deleteOpen \in BOOLEAN /\ importOpen \in BOOLEAN /\ dupOpen \in BOOLEAN
    /\ told \in BOOLEAN /\ asked \in Some /\ mine \in Some
    /\ excuse \subseteq {"cleared", "gone", "copied"}

\* What holds of any requests on their way.
WellFormed(cs) == cs \subseteq Request /\ IsFiniteSet(cs) /\ \A c \in cs : c.op = "save" => c.target # None
Waits(cs) == \E c \in cs : c.pc = "reloading"
OneWrite(cs) == \A c, d \in cs : c.op \in Writes /\ d.op \in Writes => c = d
NoWrite(cs) == \A c \in cs : c.op \notin Writes
OnlyDeletes(cs) == \A c \in cs : c.op \in Writes => c.op = "delete"
MadeBefore(cs, n) == \A c \in cs : c.made < n
SavesIn(cs) == {c \in cs : c.op = "save" /\ c.pc = "sent"}

CallsType == WellFormed(calls) /\ (Waits(calls) => fetch # "idle")

\* A version counts the saves that were sent and are not still on their way, and upsets.
RevsCounted ==
    /\ ops \in 0..MaxOps /\ upsets \in 0..MaxUpsets
    /\ \A c \in Ids : rev[c] + Cardinality(SavesIn(calls)) <= ops + upsets

PanelTypes == ServerType /\ QueryType /\ ChoiceType /\ FlagsType /\ CallsType /\ RevsCounted

\* What was created here is listed by every read that starts afterwards.
CreatedInv ==
    /\ \A c \in exists : c < next
    /\ mine < next /\ MadeBefore(calls, next)
    /\ mine \in exists => active = mine /\ loaded /\ (fetch = "read" => mine \in snap.ids)

\* The flag covers the one write, until a copy clears it early.
OneWriter == "copied" \in excuse \/ (OneWrite(calls) /\ (~saving => NoWrite(calls)))

\* While the question is open nothing on its way selects another condition.
QuestionStands ==
    deleteOpen /\ excuse = {} =>
        active = asked /\ asked \in listed /\ ~importOpen /\ OnlyDeletes(calls)

PanelInv == PanelTypes /\ FormIsOfWhatIsListed /\ CreatedInv /\ OneWriter /\ QuestionStands

-----------------------------------------------------------------------------
(* The operators of the panel.                                             *)

LEMMA MinInSet ==
    ASSUME NEW S \in SUBSET Nat, S # {}
    PROVE  Min(S) \in S
<1> DEFINE R == {ss \in Nat \X Nat : ss[1] < ss[2]}
<1>1. IsWellFoundedOn(R, Nat)
  BY NatLessThanWellFounded, Zenon DEF OpToRel
<1>2. \A x, y \in Nat : y < x => <<y, x>> \in R
  OBVIOUS
<1> HIDE DEF R
<1>3. \E x \in S : \A y \in S : ~(<<y, x>> \in R)
  BY <1>1, WFMin
<1>4. PICK x \in S : \A y \in S : ~(y < x)
  BY <1>2, <1>3
<1>5. \A y \in S : x <= y
  BY <1>4
<1> QED
  BY <1>5 DEF Min

LEMMA FirstOfIds ==
    ASSUME NEW s \in SUBSET Ids
    PROVE  /\ First(s) \in Some
           /\ s # {} => First(s) \in s /\ Min(s) \in s /\ Min(s) \in Some
<1>1. s \subseteq Nat
  BY SectionsAssumption DEF Ids
<1>2. s # {} => Min(s) \in s
  BY <1>1, MinInSet
<1> QED
  BY <1>2 DEF First, Some

\* Without its condition the selection falls back; otherwise it stays.
LEMMA FallbackPicks ==
    ASSUME NEW l \in SUBSET Ids, NEW a \in Some, initialised \in BOOLEAN
    PROVE  /\ Fallback(l, a)[1] \in Some /\ Fallback(l, a)[2] \in BOOLEAN
           /\ a \in l => Fallback(l, a)[1] = a
<1>0. a \in l => a # None
  BY SectionsAssumption DEF Ids, None
<1>1. CASE l = {}
  <2>1. Fallback(l, a) = <<None, FALSE>>
    BY <1>1 DEF Fallback
  <2>2. Fallback(l, a)[1] = None /\ Fallback(l, a)[2] \in BOOLEAN
    BY <2>1
  <2>3. a \notin l
    BY <1>1
  <2> QED
    BY <2>2, <2>3 DEF Some
<1>2. CASE l # {} /\ a \in l
  <2>1. Fallback(l, a) = <<a, initialised>>
    BY <1>0, <1>2 DEF Fallback
  <2> QED
    BY <2>1
<1>3. CASE l # {} /\ a \notin l \cup {None}
  <2>1. Fallback(l, a) = <<Min(l), TRUE>>
    BY <1>3 DEF Fallback
  <2> QED
    BY <1>3, <2>1, FirstOfIds
<1>4. CASE l # {} /\ a \notin l /\ a = None
  <2>1. Fallback(l, a) = <<IF initialised THEN None ELSE Min(l), TRUE>>
    BY <1>4 DEF Fallback
  <2> QED
    BY <1>4, <2>1, FirstOfIds DEF Some
<1> QED
  BY <1>1, <1>2, <1>3, <1>4

LEMMA RecOf ==
    ASSUME NEW a \in Some, NEW l \in SUBSET Ids, NEW r \in Revs, NEW new \in BOOLEAN
    PROVE  /\ a \in l => Rec(a, l, r)[1] = a /\ Rec(a, l, r)[2] = r[a]
           /\ a \notin l => Rec(a, l, r)[1] = None
           /\ Filled(new, Rec(a, l, r)) \in Form
           /\ ~new => Filled(new, Rec(a, l, r)).of = Rec(a, l, r)[1]
           /\ ~new => Filled(new, Rec(a, l, r)).base = Rec(a, l, r)[2]
<1>1. a \in l => Rec(a, l, r) = <<a, r[a]>> /\ r[a] \in Nat
  BY SectionsAssumption DEF Rec, Revs
<1>2. a \notin l => Rec(a, l, r) = <<None, 0>>
  BY DEF Rec
<1>3. Rec(a, l, r)[1] \in Some /\ Rec(a, l, r)[2] \in Nat
  BY <1>1, <1>2 DEF Some
<1>4. Filled(new, Rec(a, l, r)) \in Form
  BY <1>3 DEF Filled, Form, Some
<1> QED
  BY <1>1, <1>2, <1>4 DEF Filled

\* The form is of what is selected and listed, after every selection and every reading.
LEMMA FormFollowed ==
    ASSUME QueryType, ChoiceType, FormIsOfWhatIsListed,
           NEW a \in Some, NEW new \in BOOLEAN, NEW l \in SUBSET Ids, NEW r \in Revs,
           FormFollows(a, new, l, r), active' = a, creating' = new, listed' = l, shown' = r
    PROVE  form' \in Form /\ FormIsOfWhatIsListed'
<1> DEFINE now == Rec(a, l, r)
           was == Rec(active, listed, shown)
<1>1. CASE form' = Filled(new, now)
  BY <1>1, RecOf DEF FormIsOfWhatIsListed
<1>2. CASE form' = form /\ new = creating /\ now = was
  <2>1. form' \in Form
    BY <1>2 DEF ChoiceType
  <2>2. ASSUME ~new, a \in l
        PROVE  form.of = a /\ form.base = r[a]
    <3>1. now[1] = a /\ now[2] = r[a]
      BY <2>2, RecOf
    <3>2. a # None
      BY <2>2, SectionsAssumption DEF Ids, None
    <3>3. active \in Some /\ listed \in SUBSET Ids /\ shown \in Revs
      BY DEF QueryType, ChoiceType
    <3>4. active \in listed
      BY <1>2, <3>1, <3>2, <3>3, RecOf
    <3>5. was[1] = active /\ was[2] = shown[active]
      BY <3>3, <3>4, RecOf
    <3> QED
      BY <1>2, <2>2, <3>1, <3>4, <3>5 DEF FormIsOfWhatIsListed
  <2> QED
    BY <1>2, <2>1, <2>2 DEF FormIsOfWhatIsListed
<1> QED
  BY <1>1, <1>2 DEF FormFollows

LEMMA ChosenIsRight ==
    ASSUME QueryType, ChoiceType, FormIsOfWhatIsListed, NEW a \in Some, NEW new \in BOOLEAN,
           Choose(a, new), UNCHANGED <<listed, shown>>
    PROVE  /\ active' \in Some /\ creating' \in BOOLEAN /\ form' \in Form
           /\ loaded => active' = a
           /\ FormIsOfWhatIsListed'
<1>1. active' \in Some /\ creating' = new /\ FormFollows(active', new, listed, shown) /\ (loaded => active' = a)
  BY DEF Choose, Some
<1>2. listed \in SUBSET Ids /\ shown \in Revs
  BY DEF QueryType
<1> QED
  BY <1>1, <1>2, FormFollowed

-----------------------------------------------------------------------------
(* Requests.                                                               *)

Freed(cs, old) == {IF c \in old /\ c.pc = "reloading" THEN [c EXCEPT !.pc = "done"] ELSE c : c \in cs}

\* Freeing those of cs that wait, all of them or those in old, changes no request else.
LEMMA FreedKeeps ==
    ASSUME NEW cs, WellFormed(cs), NEW old
    PROVE  /\ WellFormed(Freed(cs, old)) /\ SavesIn(Freed(cs, old)) \subseteq SavesIn(cs)
           /\ \A e \in Freed(cs, old) : e.pc = "reloading" => e \in cs \ old
           /\ OneWrite(cs) => OneWrite(Freed(cs, old))
           /\ NoWrite(cs) => NoWrite(Freed(cs, old))
           /\ OnlyDeletes(cs) => OnlyDeletes(Freed(cs, old))
           /\ \A n : MadeBefore(cs, n) => MadeBefore(Freed(cs, old), n)
<1> DEFINE F(c) == IF c \in old /\ c.pc = "reloading" THEN [c EXCEPT !.pc = "done"] ELSE c
           f == [c \in cs |-> F(c)]
           new == Freed(cs, old)
<1>1. \A c \in cs : /\ F(c) \in Request /\ F(c).op = c.op /\ F(c).target = c.target /\ F(c).made = c.made
                    /\ F(c).pc = "sent" => F(c) = c
                    /\ F(c).pc = "reloading" => F(c) = c /\ c \notin old
  BY DEF WellFormed, Request
<1>2. new = {F(c) : c \in cs}
  BY DEF Freed
<1> HIDE DEF F, new
<1>3. f \in Surjection(cs, new)
  BY <1>2 DEF Surjection
<1>4. IsFiniteSet(new)
  BY <1>3, FS_Surjection DEF WellFormed
<1>5. WellFormed(new)
  BY <1>1, <1>2, <1>4 DEF WellFormed
<1>6. SavesIn(new) \subseteq SavesIn(cs)
  BY <1>1, <1>2 DEF SavesIn
<1>7. \A e \in new : e.pc = "reloading" => e \in cs \ old
  BY <1>1, <1>2
<1>8. OneWrite(cs) => OneWrite(new)
  BY <1>1, <1>2 DEF OneWrite
<1>9. (NoWrite(cs) => NoWrite(new)) /\ (OnlyDeletes(cs) => OnlyDeletes(new))
  BY <1>1, <1>2 DEF NoWrite, OnlyDeletes
<1>10. \A n : MadeBefore(cs, n) => MadeBefore(new, n)
  BY <1>1, <1>2 DEF MadeBefore
<1> QED
  BY <1>5, <1>6, <1>7, <1>8, <1>9, <1>10 DEF new

\* The end of a reading frees everybody who waits.
LEMMA SettledKeeps ==
    ASSUME NEW cs, WellFormed(cs)
    PROVE  /\ WellFormed(Settled(cs)) /\ SavesIn(Settled(cs)) \subseteq SavesIn(cs)
           /\ ~Waits(Settled(cs))
           /\ OneWrite(cs) => OneWrite(Settled(cs))
           /\ NoWrite(cs) => NoWrite(Settled(cs))
           /\ OnlyDeletes(cs) => OnlyDeletes(Settled(cs))
           /\ \A n : MadeBefore(cs, n) => MadeBefore(Settled(cs), n)
<1>1. Settled(cs) = Freed(cs, cs)
  BY DEF Settled, Freed
<1>2. ~Waits(Freed(cs, cs))
  BY FreedKeeps DEF Waits
<1> QED
  BY <1>1, <1>2, FreedKeeps

\* A reading that starts keeps the list and forgets what an older one was given.
LEMMA ReloadKeeps ==
    ASSUME QueryType, NEW cs, WellFormed(cs), Reload(cs)
    PROVE  /\ WellFormed(calls') /\ SavesIn(calls') \subseteq SavesIn(cs)
           /\ fetch' \in {"asked", "read"} /\ snap' \in [ids : SUBSET Ids, rev : Revs]
           /\ loaded => fetch' = "asked"
           /\ fetch' = "read" => fetch = "read" /\ snap' = snap
           /\ OneWrite(cs) => OneWrite(calls')
           /\ NoWrite(cs) => NoWrite(calls')
           /\ OnlyDeletes(cs) => OnlyDeletes(calls')
           /\ \A n : MadeBefore(cs, n) => MadeBefore(calls', n)
<1>1. /\ fetch' \in {"asked", "read"} /\ (loaded => fetch' = "asked")
      /\ fetch' = "read" => fetch = "read" /\ snap' = snap
  BY DEF Reload, QueryType
<1>2. NoSnap \in [ids : SUBSET Ids, rev : Revs]
  BY SectionsAssumption DEF NoSnap, Revs
<1>3. snap' \in [ids : SUBSET Ids, rev : Revs]
  BY <1>2 DEF Reload, QueryType
<1>4. CASE loaded
  <2>1. calls' = Freed(cs, calls)
    BY <1>4 DEF Reload, Freed
  <2> QED
    BY <1>1, <1>3, <2>1, FreedKeeps
<1>5. CASE ~loaded
  <2>1. calls' = cs
    BY <1>5 DEF Reload
  <2> QED
    BY <1>1, <1>3, <2>1
<1> QED
  BY <1>4, <1>5

\* A request takes its next step.
LEMMA MovedKeeps ==
    ASSUME WellFormed(calls), NEW c \in calls, NEW e \in Request, NEW cs, cs = (calls \ {c}) \cup {e},
           e.op = c.op, e.target = c.target, e.pc # "sent"
    PROVE  /\ WellFormed(cs) /\ SavesIn(cs) = SavesIn(calls) \ {c}
           /\ OneWrite(calls) => OneWrite(cs)
           /\ NoWrite(calls) => NoWrite(cs)
           /\ OnlyDeletes(calls) => OnlyDeletes(cs)
           /\ \A n : MadeBefore(calls, n) /\ e.made < n => MadeBefore(cs, n)
           /\ e.pc # "reloading" => (Waits(cs) => Waits(calls))
<1>1. IsFiniteSet(cs)
  BY FS_RemoveElement, FS_AddElement DEF WellFormed
<1>2. WellFormed(cs)
  BY <1>1 DEF WellFormed
<1>3. SavesIn(cs) = SavesIn(calls) \ {c}
  BY DEF SavesIn
<1>4. OneWrite(calls) => OneWrite(cs)
  BY DEF OneWrite
<1>5. (NoWrite(calls) => NoWrite(cs)) /\ (OnlyDeletes(calls) => OnlyDeletes(cs))
  BY DEF NoWrite, OnlyDeletes
<1>6. \A n : MadeBefore(calls, n) /\ e.made < n => MadeBefore(cs, n)
  BY DEF MadeBefore
<1>7. e.pc # "reloading" => (Waits(cs) => Waits(calls))
  BY DEF Waits
<1> QED
  BY <1>2, <1>3, <1>4, <1>5, <1>6, <1>7

\* A request that is sent is the last of them.
LEMMA SendAdds ==
    ASSUME PanelTypes, NEW op \in Ops, NEW target \in Some, op = "save" => target # None, Send(op, target)
    PROVE  \E e \in Request :
              /\ e.op = op /\ e.pc = "sent" /\ e.made = None
              /\ calls' = calls \cup {e} /\ WellFormed(calls')
              /\ Waits(calls') => Waits(calls)
              /\ ops' = ops + 1 /\ ops' \in 0..MaxOps
              /\ \A c \in Ids : rev[c] + Cardinality(SavesIn(calls')) <= ops' + upsets
<1> DEFINE e == [op |-> op, target |-> target, pc |-> "sent", made |-> None,
                 rest |-> IF op = "delete" THEN First(listed \ {target}) ELSE None, n |-> ops + 1]
<1>1. ops' = ops + 1 /\ ops' \in 0..MaxOps /\ ops + 1 \in 1..MaxOps
  BY SectionsAssumption DEF Send, PanelTypes, RevsCounted
<1>2. First(listed \ {target}) \in Some
  BY FirstOfIds DEF PanelTypes, QueryType
<1>3. e \in Request
  BY <1>1, <1>2 DEF Request, Some
<1>4. e.op = op /\ e.pc = "sent" /\ e.made = None /\ e.target = target
  OBVIOUS
<1>5. calls' = calls \cup {e}
  BY DEF Send
<1> HIDE DEF e
<1>6. IsFiniteSet(calls) /\ IsFiniteSet(calls')
  BY <1>5, FS_AddElement DEF PanelTypes, CallsType, WellFormed
<1>7. WellFormed(calls')
  BY <1>3, <1>4, <1>5, <1>6 DEF PanelTypes, CallsType, WellFormed
<1>8. Waits(calls') => Waits(calls)
  BY <1>4, <1>5 DEF Waits
<1>9. IsFiniteSet(SavesIn(calls)) /\ SavesIn(calls') \in SUBSET (SavesIn(calls) \cup {e})
  <2>1. SavesIn(calls) \in SUBSET calls /\ SavesIn(calls') \in SUBSET (SavesIn(calls) \cup {e})
    BY <1>5 DEF SavesIn
  <2> QED
    BY <2>1, <1>6, FS_Subset
<1>10. /\ IsFiniteSet(SavesIn(calls) \cup {e})
       /\ Cardinality(SavesIn(calls) \cup {e}) <= Cardinality(SavesIn(calls)) + 1
       /\ Cardinality(SavesIn(calls)) \in Nat
  <2>1. Cardinality(SavesIn(calls)) \in Nat
    BY <1>9, FS_CardinalityType
  <2>2. /\ IsFiniteSet(SavesIn(calls) \cup {e})
        /\ Cardinality(SavesIn(calls) \cup {e}) =
              IF e \in SavesIn(calls) THEN Cardinality(SavesIn(calls)) ELSE Cardinality(SavesIn(calls)) + 1
    BY <1>9, FS_AddElement
  <2> QED
    BY <2>1, <2>2
<1>11. Cardinality(SavesIn(calls')) <= Cardinality(SavesIn(calls) \cup {e})
       /\ Cardinality(SavesIn(calls')) \in Nat /\ Cardinality(SavesIn(calls) \cup {e}) \in Nat
  <2>1. IsFiniteSet(SavesIn(calls'))
    BY <1>9, <1>10, FS_Subset
  <2>2. Cardinality(SavesIn(calls')) <= Cardinality(SavesIn(calls) \cup {e})
    BY <1>9, <1>10, FS_Subset
  <2> QED
    BY <2>1, <2>2, <1>10, FS_CardinalityType
<1>12. ASSUME NEW c \in Ids
       PROVE  rev[c] + Cardinality(SavesIn(calls')) <= ops' + upsets
  <2>1. rev[c] \in Nat /\ ops \in Nat /\ upsets \in Nat
    BY SectionsAssumption DEF PanelTypes, ServerType, RevsCounted
  <2>2. rev[c] + Cardinality(SavesIn(calls)) <= ops + upsets
    BY DEF PanelTypes, RevsCounted
  <2> QED
    BY <2>1, <2>2, <1>1, <1>10, <1>11
<1> QED
  BY <1>1, <1>3, <1>4, <1>5, <1>7, <1>8, <1>12

-----------------------------------------------------------------------------
(* The list.                                                               *)

\* Versions grow with upsets only, unless a save is served.
LEMMA CountsStay ==
    ASSUME PanelTypes, SavesIn(calls') \subseteq SavesIn(calls), WellFormed(calls'),
           ops' = ops, upsets' \in upsets..MaxUpsets, rev' \in [Ids -> Nat],
           \A c \in Ids : rev'[c] <= rev[c] + (upsets' - upsets)
    PROVE  RevsCounted'
<1>1. IsFiniteSet(SavesIn(calls)) /\ SavesIn(calls') \in SUBSET SavesIn(calls)
  <2>1. IsFiniteSet(calls) /\ SavesIn(calls) \in SUBSET calls
    BY DEF PanelTypes, CallsType, WellFormed, SavesIn
  <2> QED
    BY <2>1, FS_Subset
<1>2. Cardinality(SavesIn(calls)) \in Nat
  BY <1>1, FS_CardinalityType
<1>3. IsFiniteSet(SavesIn(calls')) /\ Cardinality(SavesIn(calls')) <= Cardinality(SavesIn(calls))
  BY <1>1, FS_Subset
<1>4. Cardinality(SavesIn(calls')) \in Nat
  BY <1>3, FS_CardinalityType
<1>5. ops \in 0..MaxOps /\ upsets \in 0..MaxUpsets /\ MaxOps \in Nat /\ MaxUpsets \in Nat
  BY SectionsAssumption DEF PanelTypes, RevsCounted
<1>6. ASSUME NEW c \in Ids
      PROVE  rev'[c] + Cardinality(SavesIn(calls')) <= ops' + upsets'
  <2>1. rev[c] \in Nat /\ rev'[c] \in Nat /\ rev[c] + Cardinality(SavesIn(calls)) <= ops + upsets
    BY DEF PanelTypes, RevsCounted, ServerType
  <2> QED
    BY <2>1, <1>2, <1>3, <1>4, <1>5
<1>7. ops' \in 0..MaxOps /\ upsets' \in 0..MaxUpsets
  BY <1>5
<1> QED
  BY <1>6, <1>7 DEF RevsCounted

LEMMA CountsKept ==
    ASSUME PanelTypes, SavesIn(calls') \subseteq SavesIn(calls), WellFormed(calls'),
           ops' = ops, upsets' = upsets \/ Upset, rev' = rev
    PROVE  RevsCounted'
<1>1. ops \in 0..MaxOps /\ upsets \in 0..MaxUpsets /\ MaxOps \in Nat /\ MaxUpsets \in Nat /\ rev \in [Ids -> Nat]
  BY SectionsAssumption DEF PanelTypes, RevsCounted, ServerType
<1>2. upsets' \in upsets..MaxUpsets
  BY <1>1 DEF Upset
<1>3. \A c \in Ids : rev'[c] <= rev[c] + (upsets' - upsets)
  BY <1>1, <1>2
<1> QED
  BY <1>1, <1>2, <1>3, CountsStay

LEMMA VersionsBounded ==
    ASSUME PanelTypes
    PROVE  rev \in Revs
<1>1. SavesIn(calls) \in SUBSET calls /\ IsFiniteSet(calls)
  BY DEF PanelTypes, CallsType, WellFormed, SavesIn
<1>2. Cardinality(SavesIn(calls)) \in Nat
  BY <1>1, FS_Subset, FS_CardinalityType
<1>3. ASSUME NEW c \in Ids
      PROVE  rev[c] \in 0..(MaxOps + MaxUpsets)
  <2>1. ops \in 0..MaxOps /\ upsets \in 0..MaxUpsets /\ MaxOps \in Nat /\ MaxUpsets \in Nat
    BY SectionsAssumption DEF PanelTypes, RevsCounted
  <2>2. rev[c] \in Nat /\ rev[c] + Cardinality(SavesIn(calls)) <= ops + upsets
    BY DEF PanelTypes, RevsCounted, ServerType
  <2> QED
    BY <2>1, <2>2, <1>2
<1> QED
  BY <1>3 DEF PanelTypes, ServerType, Revs

LEMMA ReadStep ==
    ASSUME PanelInv, Read
    PROVE  PanelInv'
<1> USE DEF server, choice, dialogs, notes, bounds
<1>1. rev \in Revs
  BY VersionsBounded DEF PanelInv
<1>2. QueryType'
  BY <1>1 DEF Read, PanelInv, PanelTypes, QueryType, ServerType
<1>3. CallsType' /\ ServerType' /\ ChoiceType' /\ FlagsType' /\ RevsCounted'
  BY DEF Read, PanelInv, PanelTypes, ServerType, CallsType, ChoiceType, FlagsType, RevsCounted
<1>4. FormIsOfWhatIsListed' /\ OneWriter' /\ QuestionStands'
  BY DEF Read, PanelInv, FormIsOfWhatIsListed, OneWriter, QuestionStands
<1>5. CreatedInv'
  BY DEF Read, PanelInv, CreatedInv
<1> QED
  BY <1>2, <1>3, <1>4, <1>5 DEF PanelInv, PanelTypes

LEMMA LandStep ==
    ASSUME PanelInv, Land
    PROVE  PanelInv'
<1> USE DEF server, dialogs, bounds
<1> DEFINE same == snap.ids = listed /\ snap.rev = shown /\ loaded
           picked == IF same THEN <<active, initialised>> ELSE Fallback(snap.ids, active)
<1>0. /\ fetch = "read" /\ fetch' = "idle" /\ loaded' = TRUE /\ listed' = snap.ids /\ shown' = snap.rev
      /\ active' = picked[1] /\ initialised' = picked[2] /\ creating' = creating
      /\ FormFollows(active', creating, snap.ids, snap.rev)
      /\ calls' = Settled(calls) /\ snap' = NoSnap
      /\ UNCHANGED <<exists, rev, next, saving, deleteOpen, importOpen, dupOpen, told, asked, mine, ops, upsets>>
  BY DEF Land
<1>1. snap.ids \in SUBSET Ids /\ snap.rev \in Revs /\ active \in Some /\ initialised \in BOOLEAN /\ creating \in BOOLEAN
  BY DEF PanelInv, PanelTypes, QueryType, ChoiceType
<1>2. active' \in Some /\ initialised' \in BOOLEAN /\ (active \in snap.ids => active' = active)
  <2>1. CASE same
    BY <2>1, <1>0, <1>1
  <2>2. CASE ~same
    BY <2>2, <1>0, <1>1, FallbackPicks
  <2> QED
    BY <2>1, <2>2
<1> HIDE DEF picked, same
<1>3. form' \in Form /\ FormIsOfWhatIsListed'
  BY <1>0, <1>1, <1>2, FormFollowed DEF PanelInv, PanelTypes
<1>4. QueryType'
  <2>1. NoSnap \in [ids : SUBSET Ids, rev : Revs]
    BY SectionsAssumption DEF NoSnap, Revs
  <2> QED
    BY <1>0, <1>1, <2>1 DEF QueryType
<1>5. ChoiceType' /\ ServerType'
  BY <1>0, <1>1, <1>2, <1>3 DEF ChoiceType, PanelInv, PanelTypes, ServerType
<1>6. WellFormed(calls') /\ ~Waits(calls') /\ SavesIn(calls') \subseteq SavesIn(calls)
  BY <1>0, SettledKeeps DEF PanelInv, PanelTypes, CallsType
<1>7. CallsType' /\ RevsCounted'
  BY <1>0, <1>6, CountsKept DEF CallsType, PanelInv
<1>8. excuse \subseteq excuse' /\ excuse' \subseteq excuse \cup {"gone"} /\ (asked \in listed \ snap.ids => "gone" \in excuse')
  BY DEF Land
<1>9. FlagsType'
  BY <1>0, <1>8 DEF FlagsType, PanelInv, PanelTypes
<1>10. CreatedInv'
  <2>1. MadeBefore(calls', next')
    BY <1>0, SettledKeeps DEF PanelInv, PanelTypes, CallsType, CreatedInv
  <2>2. mine \in exists => active' = mine
    BY <1>0, <1>2 DEF PanelInv, CreatedInv
  <2> QED
    BY <1>0, <2>1, <2>2 DEF PanelInv, CreatedInv
<1>11. /\ OneWrite(calls) => OneWrite(calls')
       /\ NoWrite(calls) => NoWrite(calls')
       /\ OnlyDeletes(calls) => OnlyDeletes(calls')
  BY <1>0, SettledKeeps DEF PanelInv, PanelTypes, CallsType
<1>12. OneWriter'
  BY <1>0, <1>8, <1>11 DEF PanelInv, OneWriter
<1>13. QuestionStands'
  <2> SUFFICES ASSUME deleteOpen', excuse' = {}
               PROVE  active' = asked' /\ asked' \in listed' /\ ~importOpen' /\ OnlyDeletes(calls')
    BY DEF QuestionStands
  <2>1. active = asked /\ asked \in listed /\ ~importOpen /\ OnlyDeletes(calls)
    BY <1>0, <1>8 DEF PanelInv, QuestionStands
  <2>2. asked \in snap.ids
    BY <1>8, <2>1
  <2> QED
    BY <1>0, <1>2, <1>11, <2>1, <2>2
<1> QED
  BY <1>3, <1>4, <1>5, <1>7, <1>9, <1>10, <1>12, <1>13 DEF PanelInv, PanelTypes

LEMMA LoadFailsStep ==
    ASSUME PanelInv, LoadFails
    PROVE  PanelInv'
<1> USE DEF server, choice, dialogs, notes
<1>0. /\ fetch' = "idle" /\ calls' = Settled(calls) /\ snap' = NoSnap /\ Upset
      /\ UNCHANGED <<exists, rev, next, loaded, listed, shown, active, initialised, creating, form, saving,
                     deleteOpen, importOpen, dupOpen, told, asked, mine, excuse, ops>>
  BY DEF LoadFails
<1>1. WellFormed(calls)
  BY DEF PanelInv, PanelTypes, CallsType
<1>2. /\ WellFormed(calls') /\ ~Waits(calls') /\ SavesIn(calls') \subseteq SavesIn(calls)
      /\ OneWrite(calls) => OneWrite(calls')
      /\ NoWrite(calls) => NoWrite(calls')
      /\ OnlyDeletes(calls) => OnlyDeletes(calls')
      /\ MadeBefore(calls, next) => MadeBefore(calls', next)
  BY <1>0, <1>1, SettledKeeps
<1>3. QueryType'
  <2>1. NoSnap \in [ids : SUBSET Ids, rev : Revs]
    BY SectionsAssumption DEF NoSnap, Revs
  <2> QED
    BY <1>0, <2>1 DEF QueryType, PanelInv, PanelTypes
<1>4. CallsType' /\ RevsCounted'
  BY <1>0, <1>2, CountsKept DEF CallsType, PanelInv
<1>5. ServerType' /\ ChoiceType' /\ FlagsType'
  BY <1>0 DEF PanelInv, PanelTypes, ServerType, ChoiceType, FlagsType
<1>6. FormIsOfWhatIsListed' /\ CreatedInv' /\ OneWriter' /\ QuestionStands'
  BY <1>0, <1>2 DEF PanelInv, FormIsOfWhatIsListed, CreatedInv, OneWriter, QuestionStands
<1> QED
  BY <1>3, <1>4, <1>5, <1>6 DEF PanelInv, PanelTypes

\* A colleague's new condition is newer than the one created here.
LEMMA ColleagueStep ==
    ASSUME PanelInv, Colleague
    PROVE  PanelInv'
<1> USE DEF query, choice, dialogs, notes
<1>0. /\ told' = TRUE /\ Upset
      /\ UNCHANGED <<loaded, listed, shown, fetch, snap, active, initialised, creating, form, saving,
                     deleteOpen, importOpen, dupOpen, calls, asked, mine, excuse, ops>>
  BY DEF Colleague
<1>1. MaxId \in Nat /\ next \in Nat /\ rev \in [Ids -> Nat] /\ exists \subseteq Ids /\ upsets' = upsets + 1
      /\ upsets \in Nat /\ upsets' \in upsets..MaxUpsets
  BY <1>0, SectionsAssumption DEF PanelInv, PanelTypes, ServerType, RevsCounted, Upset
<1>2. ServerType' /\ \/ exists' \subseteq exists /\ next' = next
                     \/ exists' = exists \cup {next} /\ next' = next + 1
  <2>1. ASSUME NEW c \in exists, rev' = [rev EXCEPT ![c] = @ + 1], UNCHANGED <<exists, next>>
        PROVE  ServerType'
    BY <1>1, <2>1 DEF PanelInv, PanelTypes, ServerType
  <2>2. ASSUME NEW c \in exists, exists' = exists \ {c}, UNCHANGED <<rev, next>>
        PROVE  ServerType'
    BY <2>2 DEF PanelInv, PanelTypes, ServerType
  <2>3. ASSUME next <= MaxId, exists' = exists \cup {next}, next' = next + 1, UNCHANGED rev
        PROVE  ServerType'
    BY <1>1, <2>3 DEF PanelInv, PanelTypes, ServerType, Ids
  <2> QED
    BY <2>1, <2>2, <2>3 DEF Colleague
<1>3. \A c \in Ids : rev'[c] <= rev[c] + (upsets' - upsets)
  BY <1>1 DEF Colleague
<1>4. RevsCounted'
  <2>1. WellFormed(calls') /\ SavesIn(calls') \subseteq SavesIn(calls) /\ rev' \in [Ids -> Nat]
    BY <1>0, <1>2 DEF PanelInv, PanelTypes, CallsType, ServerType
  <2> QED
    BY <1>0, <1>1, <1>3, <2>1, CountsStay DEF PanelInv
<1>5. QueryType' /\ ChoiceType' /\ FlagsType' /\ CallsType'
  BY <1>0 DEF PanelInv, PanelTypes, QueryType, ChoiceType, FlagsType, CallsType
<1>6. CreatedInv'
  <2>1. MadeBefore(calls', next')
    BY <1>0, <1>1, <1>2, SectionsAssumption DEF PanelInv, PanelTypes, CallsType, WellFormed, CreatedInv, MadeBefore, Request, Some, Ids, None
  <2>2. mine \in Nat
    BY SectionsAssumption DEF PanelInv, PanelTypes, FlagsType, Some, Ids, None
  <2>3. (\A c \in exists' : c < next') /\ mine' < next' /\ (mine' \in exists' => mine \in exists)
    <3>1. exists \subseteq Nat
      BY <1>1 DEF Ids
    <3>2. (\A c \in exists : c < next) /\ mine < next
      BY DEF PanelInv, CreatedInv
    <3>3. CASE exists' \subseteq exists /\ next' = next
      BY <1>0, <3>2, <3>3
    <3>4. CASE exists' = exists \cup {next} /\ next' = next + 1
      BY <1>0, <1>1, <2>2, <3>1, <3>2, <3>4
    <3> QED
      BY <1>2, <3>3, <3>4
  <2> QED
    BY <1>0, <2>1, <2>3 DEF PanelInv, CreatedInv
<1>7. FormIsOfWhatIsListed' /\ OneWriter' /\ QuestionStands'
  BY <1>0 DEF PanelInv, FormIsOfWhatIsListed, OneWriter, QuestionStands
<1> QED
  BY <1>2, <1>4, <1>5, <1>6, <1>7 DEF PanelInv, PanelTypes

LEMMA EventStep ==
    ASSUME PanelInv, EventArrives
    PROVE  PanelInv'
<1> USE DEF server, choice, dialogs, notes, bounds
<1>0. /\ told' = FALSE /\ Reload(calls)
      /\ UNCHANGED <<exists, rev, next, loaded, listed, shown, active, initialised, creating, form, saving,
                     deleteOpen, importOpen, dupOpen, asked, mine, excuse, ops, upsets>>
  BY DEF EventArrives
<1>1. QueryType /\ WellFormed(calls)
  BY DEF PanelInv, PanelTypes, CallsType
<1>2. /\ WellFormed(calls') /\ SavesIn(calls') \subseteq SavesIn(calls)
      /\ fetch' \in {"asked", "read"} /\ snap' \in [ids : SUBSET Ids, rev : Revs]
      /\ fetch' = "read" => fetch = "read" /\ snap' = snap
      /\ OneWrite(calls) => OneWrite(calls')
      /\ NoWrite(calls) => NoWrite(calls')
      /\ OnlyDeletes(calls) => OnlyDeletes(calls')
      /\ MadeBefore(calls, next) => MadeBefore(calls', next)
  BY <1>0, <1>1, ReloadKeeps
<1>3. QueryType' /\ CallsType'
  BY <1>0, <1>1, <1>2 DEF QueryType, CallsType
<1>4. RevsCounted'
  BY <1>0, <1>2, CountsKept DEF PanelInv
<1>5. ServerType' /\ ChoiceType' /\ FlagsType'
  BY <1>0 DEF PanelInv, PanelTypes, ServerType, ChoiceType, FlagsType
<1>6. FormIsOfWhatIsListed' /\ CreatedInv' /\ OneWriter' /\ QuestionStands'
  BY <1>0, <1>2 DEF PanelInv, FormIsOfWhatIsListed, CreatedInv, OneWriter, QuestionStands
<1> QED
  BY <1>3, <1>4, <1>5, <1>6 DEF PanelInv, PanelTypes

-----------------------------------------------------------------------------
(* Selecting, and the dialogs.                                             *)

\* A selection that the user makes is of nothing that was created or asked here.
LEMMA ChoosingStep ==
    ASSUME PanelInv, NEW a \in Some, NEW new \in BOOLEAN, Choose(a, new), mine' = None,
           UNCHANGED <<server, query, initialised, saving, importOpen, dupOpen, calls, told, asked, bounds>>,
           deleteOpen' \in BOOLEAN, excuse \subseteq excuse', excuse' \subseteq excuse \cup {"cleared"},
           deleteOpen' => deleteOpen, deleteOpen => ~(active \in listed) \/ "cleared" \in excuse'
    PROVE  PanelInv'
<1> USE DEF server, query, bounds
<1>1. active' \in Some /\ creating' \in BOOLEAN /\ form' \in Form /\ FormIsOfWhatIsListed'
  BY ChosenIsRight DEF PanelInv, PanelTypes
<1>2. ServerType' /\ QueryType' /\ CallsType' /\ RevsCounted' /\ ChoiceType'
  BY <1>1 DEF PanelInv, PanelTypes, ServerType, QueryType, CallsType, RevsCounted, ChoiceType
<1>3. FlagsType'
  BY DEF PanelInv, PanelTypes, FlagsType, Some
<1>4. None \notin exists' /\ None < next'
  BY SectionsAssumption DEF PanelInv, PanelTypes, ServerType, Ids, None
<1>5. CreatedInv'
  BY <1>4 DEF PanelInv, CreatedInv
<1>6. OneWriter'
  BY DEF PanelInv, OneWriter
<1>7. QuestionStands'
  <2>1. deleteOpen' /\ excuse' = {} => deleteOpen /\ excuse = {} /\ active \notin listed
    OBVIOUS
  <2> QED
    BY <2>1 DEF PanelInv, QuestionStands
<1> QED
  BY <1>1, <1>2, <1>3, <1>5, <1>6, <1>7 DEF PanelInv, PanelTypes

LEMMA SelectStep ==
    ASSUME PanelInv, (\E c \in Ids : SelectRow(c)) \/ StartNew \/ CancelNew \/ ClearSelection
    PROVE  PanelInv'
<1>0. /\ deleteOpen \in BOOLEAN /\ excuse \subseteq excuse \cup {"cleared"}
      /\ active \in Some /\ listed \in SUBSET Ids
  BY DEF PanelInv, PanelTypes, FlagsType, ChoiceType, QueryType
<1>1. ASSUME NEW a \in Some, NEW new \in BOOLEAN, ~Modal, Choose(a, new), mine' = None, Panel
      PROVE  PanelInv'
  <2>1. UNCHANGED <<server, query, initialised, saving, importOpen, dupOpen, calls, told, asked, bounds>>
        /\ deleteOpen' = deleteOpen /\ excuse' = excuse /\ (deleteOpen => ~(active \in listed))
    BY <1>1 DEF Panel, Modal, dialogs
  <2> QED
    BY <1>0, <1>1, <2>1, ChoosingStep
<1>2. ASSUME NEW c \in Ids, SelectRow(c) PROVE PanelInv'
  <2>1. c \in Some
    BY DEF Some
  <2> QED
    BY <1>1, <1>2, <2>1 DEF SelectRow
<1>3. CASE StartNew
  BY <1>1, <1>3 DEF StartNew, Some
<1>4. CASE CancelNew
  <2>1. (IF listed = {} THEN active ELSE Min(listed)) \in Some
    BY <1>0, FirstOfIds
  <2> QED
    BY <1>1, <1>4, <2>1 DEF CancelNew
<1>5. CASE ClearSelection
  <2>1. /\ None \in Some /\ Choose(None, FALSE) /\ mine' = None
        /\ UNCHANGED <<server, query, initialised, saving, importOpen, dupOpen, calls, told, asked, bounds>>
        /\ deleteOpen' \in BOOLEAN /\ (deleteOpen' => deleteOpen)
        /\ excuse \subseteq excuse' /\ excuse' \subseteq excuse \cup {"cleared"}
        /\ (deleteOpen => "cleared" \in excuse')
    BY <1>0, <1>5 DEF ClearSelection, Some
  <2> QED
    BY <2>1, ChoosingStep
<1> QED
  BY <1>2, <1>3, <1>4, <1>5

LEMMA EditStep ==
    ASSUME PanelInv, Edit
    PROVE  PanelInv'
<1>0. /\ form' = [form EXCEPT !.typed = TRUE]
      /\ UNCHANGED <<exists, rev, next, loaded, listed, shown, fetch, snap, active, initialised, creating, saving,
                     deleteOpen, importOpen, dupOpen, calls, told, asked, mine, excuse, ops, upsets>>
  BY DEF Edit, Panel, server, query, dialogs, bounds
<1>1. form' \in Form /\ form'.of = form.of /\ form'.base = form.base
  BY <1>0 DEF PanelInv, PanelTypes, ChoiceType, Form
<1>2. FormIsOfWhatIsListed'
  BY <1>0, <1>1 DEF PanelInv, FormIsOfWhatIsListed
<1>3. PanelTypes'
  BY <1>0, <1>1 DEF PanelInv, PanelTypes, ServerType, QueryType, ChoiceType, FlagsType, CallsType, RevsCounted
<1>4. CreatedInv' /\ OneWriter' /\ QuestionStands'
  BY <1>0 DEF PanelInv, CreatedInv, OneWriter, QuestionStands
<1> QED
  BY <1>2, <1>3, <1>4 DEF PanelInv

LEMMA DialogStep ==
    ASSUME PanelInv, AskDelete \/ CancelDelete \/ OpenImport \/ CloseImport
    PROVE  PanelInv'
<1>0. /\ UNCHANGED <<exists, rev, next, loaded, listed, shown, fetch, snap, active, initialised, creating, form, saving,
                     dupOpen, calls, told, mine, ops, upsets>>
      /\ deleteOpen' \in BOOLEAN /\ importOpen' \in BOOLEAN /\ asked' \in Some
      /\ excuse' \subseteq excuse /\ ("copied" \in excuse => "copied" \in excuse')
  BY DEF AskDelete, CancelDelete, OpenImport, CloseImport, Forget, Idle, server, query, choice, dialogs, notes,
         PanelInv, PanelTypes, FlagsType, ChoiceType, Some
<1>1. FormIsOfWhatIsListed' /\ CreatedInv'
  BY <1>0 DEF PanelInv, FormIsOfWhatIsListed, CreatedInv
<1>2. PanelTypes'
  BY <1>0 DEF PanelInv, PanelTypes, ServerType, QueryType, ChoiceType, FlagsType, CallsType, RevsCounted
<1>3. OneWriter'
  BY <1>0 DEF PanelInv, OneWriter
<1>4. QuestionStands'
  <2>1. CASE AskDelete
    <3>1. asked' = active /\ active \in listed /\ ~saving /\ importOpen' = importOpen /\ ~importOpen
      BY <2>1 DEF AskDelete, Modal
    <3>2. excuse' = {} => "copied" \notin excuse
      BY <1>0
    <3>3. excuse' = {} => OnlyDeletes(calls)
      BY <3>1, <3>2 DEF PanelInv, OneWriter, NoWrite, OnlyDeletes
    <3> QED
      BY <1>0, <3>1, <3>3 DEF QuestionStands
  <2>2. CASE CancelDelete
    BY <2>2 DEF CancelDelete, QuestionStands
  <2>3. CASE OpenImport
    <3>1. ~(deleteOpen /\ active \in listed) /\ deleteOpen' = deleteOpen /\ excuse' = excuse
      BY <2>3 DEF OpenImport, Modal, notes
    <3> QED
      BY <3>1 DEF PanelInv, QuestionStands
  <2>4. CASE CloseImport
    <3>1. importOpen' = FALSE /\ deleteOpen' = deleteOpen /\ excuse' = excuse /\ asked' = asked
      BY <2>4 DEF CloseImport, notes
    <3> QED
      BY <1>0, <3>1 DEF PanelInv, QuestionStands
  <2> QED
    BY <2>1, <2>2, <2>3, <2>4
<1> QED
  BY <1>1, <1>2, <1>3, <1>4 DEF PanelInv

-----------------------------------------------------------------------------
(* Sending.                                                                *)

\* A write is sent when nothing says that one is on its way; what else is sent writes nothing.
LEMMA SendingStep ==
    ASSUME PanelInv, NEW op \in Ops, NEW target \in Some, op = "save" => target # None, Send(op, target),
           UNCHANGED <<exists, rev, next, loaded, listed, shown, fetch, snap, active, initialised, creating, form,
                       deleteOpen, importOpen, told, asked, excuse, upsets>>,
           saving' \in BOOLEAN, dupOpen' \in BOOLEAN, mine' \in {None, mine},
           op \in Writes => ~saving /\ saving', saving => saving',
           op \in Writes \ {"delete"} => ~(deleteOpen /\ active \in listed) \/ importOpen
    PROVE  PanelInv'
<1>1. PICK e \in Request :
              /\ e.op = op /\ e.pc = "sent" /\ e.made = None
              /\ calls' = calls \cup {e} /\ WellFormed(calls')
              /\ Waits(calls') => Waits(calls)
              /\ ops' = ops + 1 /\ ops' \in 0..MaxOps
              /\ \A c \in Ids : rev[c] + Cardinality(SavesIn(calls')) <= ops' + upsets
  BY SendAdds DEF PanelInv
<1>2. CallsType'
  BY <1>1 DEF PanelInv, PanelTypes, CallsType
<1>3. RevsCounted'
  BY <1>1 DEF PanelInv, PanelTypes, RevsCounted
<1>4. ServerType' /\ QueryType' /\ ChoiceType' /\ FlagsType'
  BY DEF PanelInv, PanelTypes, ServerType, QueryType, ChoiceType, FlagsType, Some
<1>5. FormIsOfWhatIsListed'
  BY DEF PanelInv, FormIsOfWhatIsListed
<1>6. CreatedInv'
  <2>1. None \notin exists' /\ None < next'
    BY SectionsAssumption DEF PanelInv, PanelTypes, ServerType, Ids, None
  <2>2. MadeBefore(calls', next')
    BY <1>1, <2>1 DEF PanelInv, CreatedInv, MadeBefore
  <2> QED
    BY <2>1, <2>2 DEF PanelInv, CreatedInv
<1>7. OneWriter'
  <2>1. CASE "copied" \in excuse
    BY <2>1 DEF OneWriter
  <2>2. CASE "copied" \notin excuse /\ op \in Writes
    <3>1. NoWrite(calls)
      BY <2>2 DEF PanelInv, OneWriter
    <3>2. OneWrite(calls')
      BY <1>1, <3>1 DEF NoWrite, OneWrite
    <3> QED
      BY <2>2, <3>2 DEF OneWriter
  <2>3. CASE "copied" \notin excuse /\ op \notin Writes
    <3>1. OneWrite(calls) /\ (~saving => NoWrite(calls))
      BY <2>3 DEF PanelInv, OneWriter
    <3>2. OneWrite(calls') /\ (NoWrite(calls) => NoWrite(calls'))
      BY <1>1, <2>3, <3>1 DEF NoWrite, OneWrite
    <3> QED
      BY <3>1, <3>2 DEF OneWriter
  <2> QED
    BY <2>1, <2>2, <2>3
<1>8. QuestionStands'
  <2> SUFFICES ASSUME deleteOpen, excuse = {}
               PROVE  active = asked /\ asked \in listed /\ ~importOpen /\ OnlyDeletes(calls')
    BY DEF QuestionStands
  <2>1. active = asked /\ asked \in listed /\ ~importOpen /\ OnlyDeletes(calls)
    BY DEF PanelInv, QuestionStands
  <2>2. op \in Writes => op = "delete"
    BY <2>1
  <2> QED
    BY <1>1, <2>1, <2>2 DEF OnlyDeletes
<1> QED
  BY <1>2, <1>3, <1>4, <1>5, <1>6, <1>7, <1>8 DEF PanelInv, PanelTypes

LEMMA RequestStep ==
    ASSUME PanelInv, Save \/ ConfirmDelete \/ Import \/ SaveAsTemplate \/ (\E anyway \in BOOLEAN : AnswerDuplicate(anyway))
    PROVE  PanelInv'
<1> USE DEF server, query, choice, dialogs, notes
<1>0. /\ listed \subseteq Ids /\ active \in Some /\ saving \in BOOLEAN /\ dupOpen \in BOOLEAN
      /\ (active \in listed => active # None)
  BY SectionsAssumption DEF PanelInv, PanelTypes, QueryType, ChoiceType, FlagsType, Ids, None
<1>1. CASE Save
  <2>1. PICK op \in {"create", "save"}, target \in Some : Send(op, target) /\ (op = "save" => target # None)
    BY <1>0, <1>1 DEF Save, Some
  <2>2. ~saving /\ saving' = TRUE /\ ~(deleteOpen /\ active \in listed)
    BY <1>1 DEF Save, Modal
  <2>3. UNCHANGED <<exists, rev, next, loaded, listed, shown, fetch, snap, active, initialised, creating, form,
                    deleteOpen, importOpen, dupOpen, told, asked, mine, excuse, upsets>>
    BY <1>1 DEF Save, Idle
  <2>4. op \in Ops
    BY DEF Ops
  <2> QED
    BY <1>0, <2>1, <2>2, <2>3, <2>4, SendingStep
<1>2. CASE ConfirmDelete
  <2>1. /\ Send("delete", active) /\ "delete" \in Ops /\ ~saving /\ saving' = TRUE /\ mine' = None
        /\ UNCHANGED <<exists, rev, next, loaded, listed, shown, fetch, snap, active, initialised, creating, form,
                       deleteOpen, importOpen, dupOpen, told, asked, excuse, upsets>>
    BY <1>2 DEF ConfirmDelete, Idle, Ops
  <2> QED
    BY <1>0, <2>1, SendingStep
<1>3. CASE Import
  <2>1. /\ Send("import", None) /\ "import" \in Ops /\ None \in Some /\ ~saving /\ saving' = TRUE /\ importOpen
        /\ UNCHANGED <<exists, rev, next, loaded, listed, shown, fetch, snap, active, initialised, creating, form,
                       deleteOpen, importOpen, dupOpen, told, asked, mine, excuse, upsets>>
    BY <1>3 DEF Import, Idle, Ops, Some
  <2> QED
    BY <1>0, <2>1, SendingStep
<1>4. CASE SaveAsTemplate
  <2>1. /\ Send("check", active) /\ "check" \in Ops /\ "check" \notin Writes /\ saving' = saving
        /\ UNCHANGED <<exists, rev, next, loaded, listed, shown, fetch, snap, active, initialised, creating, form,
                       deleteOpen, importOpen, dupOpen, told, asked, mine, excuse, upsets>>
    BY <1>4 DEF SaveAsTemplate, Idle, Ops, Writes
  <2> QED
    BY <1>0, <2>1, SendingStep
<1>5. ASSUME NEW anyway \in BOOLEAN, AnswerDuplicate(anyway)
      PROVE  PanelInv'
  <2>1. /\ dupOpen' = FALSE
        /\ UNCHANGED <<exists, rev, next, loaded, listed, shown, fetch, snap, active, initialised, creating, form,
                       deleteOpen, importOpen, told, asked, mine, excuse, upsets>>
    BY <1>5 DEF AnswerDuplicate, Idle
  <2>2. CASE UNCHANGED <<calls, saving, ops>>
    <3>1. PanelTypes'
      BY <2>1, <2>2 DEF PanelInv, PanelTypes, ServerType, QueryType, ChoiceType, FlagsType, CallsType, RevsCounted
    <3>2. FormIsOfWhatIsListed' /\ CreatedInv' /\ OneWriter' /\ QuestionStands'
      BY <2>1, <2>2 DEF PanelInv, FormIsOfWhatIsListed, CreatedInv, OneWriter, QuestionStands
    <3> QED
      BY <3>1, <3>2 DEF PanelInv
  <2>3. CASE Send("template", active) /\ saving' = TRUE
    <3>1. "template" \in Ops /\ "template" \notin Writes
      BY DEF Ops, Writes
    <3> QED
      BY <1>0, <2>1, <2>3, <3>1, SendingStep
  <2> QED
    BY <1>5, <2>2, <2>3 DEF AnswerDuplicate
<1> QED
  BY <1>1, <1>2, <1>3, <1>4, <1>5

-----------------------------------------------------------------------------
(* The server and the answers.                                             *)

LEMMA MadeLater ==
    ASSUME PanelInv
    PROVE  MadeBefore(calls, next + 1)
<1>1. next \in Nat /\ \A c \in calls : c.made \in Nat /\ c.made < next
  BY SectionsAssumption DEF PanelInv, PanelTypes, ServerType, CallsType, WellFormed, Request, Some, Ids, None,
                            CreatedInv, MadeBefore
<1> QED
  BY <1>1 DEF MadeBefore

\* What the server does to a request leaves everything here but the request as it is.
LEMMA ServedStep ==
    ASSUME PanelInv, NEW c \in calls, NEW e \in Request, calls' = (calls \ {c}) \cup {e},
           e.op = c.op, e.target = c.target, e.pc \in {"ok", "refused"}, e.made < next',
           Client, ServerType', RevsCounted', next' \in {next, next + 1},
           exists' \subseteq exists \/ (exists' = exists \cup {next} /\ next' = next + 1)
    PROVE  PanelInv'
<1> USE DEF query, choice, dialogs, notes
<1>0. UNCHANGED <<loaded, listed, shown, fetch, snap, active, initialised, creating, form, saving,
                  deleteOpen, importOpen, dupOpen, told, asked, mine, excuse, ops>>
  BY DEF Client
<1>1. /\ WellFormed(calls') /\ (Waits(calls') => Waits(calls))
      /\ OneWrite(calls) => OneWrite(calls')
      /\ NoWrite(calls) => NoWrite(calls')
      /\ OnlyDeletes(calls) => OnlyDeletes(calls')
      /\ MadeBefore(calls, next') => MadeBefore(calls', next')
  <2>1. WellFormed(calls)
    BY DEF PanelInv, PanelTypes, CallsType
  <2> QED
    BY <2>1, MovedKeeps
<1>2. CallsType'
  BY <1>0, <1>1 DEF PanelInv, PanelTypes, CallsType
<1>3. QueryType' /\ ChoiceType' /\ FlagsType'
  BY <1>0 DEF PanelInv, PanelTypes, QueryType, ChoiceType, FlagsType
<1>4. FormIsOfWhatIsListed' /\ OneWriter' /\ QuestionStands'
  BY <1>0, <1>1 DEF PanelInv, FormIsOfWhatIsListed, OneWriter, QuestionStands
<1>5. CreatedInv'
  <2>1. MadeBefore(calls', next')
    BY <1>1, MadeLater DEF PanelInv, CreatedInv
  <2>2. next \in Nat /\ exists \subseteq Nat /\ mine \in Nat
    BY SectionsAssumption DEF PanelInv, PanelTypes, ServerType, FlagsType, Some, Ids, None
  <2>3. (\A d \in exists : d < next) /\ mine < next
    BY DEF PanelInv, CreatedInv
  <2>4. (\A d \in exists' : d < next') /\ mine < next' /\ (mine \in exists' => mine \in exists)
    <3>1. CASE exists' \subseteq exists
      BY <2>2, <2>3, <3>1
    <3>2. CASE exists' = exists \cup {next} /\ next' = next + 1
      BY <2>2, <2>3, <3>2
    <3> QED
      BY <3>1, <3>2
  <2> QED
    BY <1>0, <2>1, <2>4 DEF PanelInv, CreatedInv
<1> QED
  BY <1>2, <1>3, <1>4, <1>5 DEF PanelInv, PanelTypes

\* A save that is served is counted in the version instead.
LEMMA ServeStep ==
    ASSUME PanelInv, NEW c \in calls, Serve(c)
    PROVE  PanelInv'
<1>0. /\ c.pc = "sent" /\ c.target \in exists \cup {None} /\ Client /\ upsets' = upsets /\ ops' = ops
  BY DEF Serve, At, Client
<1>1. c \in Request /\ calls \subseteq Request /\ WellFormed(calls) /\ c.made < next
  BY DEF PanelInv, PanelTypes, CallsType, WellFormed, CreatedInv, MadeBefore
<1>2. MaxId \in Nat /\ next \in 1..(MaxId + 1) /\ rev \in [Ids -> Nat] /\ exists \subseteq Ids /\ c.made \in Nat
  BY <1>1, SectionsAssumption DEF PanelInv, PanelTypes, ServerType, Request, Some, Ids, None
<1> DEFINE ok == [c EXCEPT !.pc = "ok"]
           made == [c EXCEPT !.pc = "ok", !.made = next]
<1>3. ok \in Request /\ ok.op = c.op /\ ok.target = c.target /\ ok.pc = "ok" /\ ok.made = c.made
  BY <1>1 DEF Request
<1>4. next <= MaxId => made \in Request /\ made.op = c.op /\ made.target = c.target /\ made.pc = "ok" /\ made.made = next
  <2>1. next <= MaxId => next \in Some
    BY <1>2 DEF Some, Ids
  <2> QED
    BY <1>1, <2>1 DEF Request
<1> HIDE DEF ok, made
<1>5. CASE /\ next <= MaxId /\ exists' = exists \cup {next} /\ next' = next + 1
           /\ calls' = (calls \ {c}) \cup {made} /\ rev' = rev
  <2>1. ServerType'
    BY <1>2, <1>5 DEF ServerType, Ids
  <2>2. WellFormed(calls') /\ SavesIn(calls') \subseteq SavesIn(calls)
    BY <1>1, <1>4, <1>5, MovedKeeps
  <2>3. RevsCounted'
    BY <1>0, <1>5, <2>2, CountsKept DEF PanelInv
  <2>4. made.made < next'
    BY <1>2, <1>4, <1>5
  <2> QED
    BY <1>0, <1>4, <1>5, <2>1, <2>3, <2>4, ServedStep
<1>6. CASE /\ c.op = "save" /\ rev' = [rev EXCEPT ![c.target] = @ + 1]
           /\ calls' = To(c, "ok") /\ UNCHANGED <<exists, next>>
  <2>1. calls' = (calls \ {c}) \cup {ok}
    BY <1>6 DEF To, ok
  <2>2. c.target \in Ids
    BY <1>0, <1>1, <1>2, <1>6 DEF WellFormed
  <2>3. ServerType'
    BY <1>2, <1>6, <2>2 DEF PanelInv, PanelTypes, ServerType
  <2>4. SavesIn(calls') = SavesIn(calls) \ {c}
    BY <1>1, <1>3, <2>1, MovedKeeps
  <2>5. c \in SavesIn(calls) /\ IsFiniteSet(SavesIn(calls))
    <3>1. SavesIn(calls) \in SUBSET calls /\ IsFiniteSet(calls) /\ c \in SavesIn(calls)
      BY <1>0, <1>1, <1>6 DEF SavesIn, WellFormed
    <3> QED
      BY <3>1, FS_Subset
  <2>6. Cardinality(SavesIn(calls')) = Cardinality(SavesIn(calls)) - 1
    BY <2>4, <2>5, FS_RemoveElement
  <2>7. Cardinality(SavesIn(calls)) \in Nat
    BY <2>5, FS_CardinalityType
  <2>8. RevsCounted'
    <3>1. ops \in 0..MaxOps /\ upsets \in 0..MaxUpsets /\ MaxOps \in Nat /\ MaxUpsets \in Nat
      BY SectionsAssumption DEF PanelInv, PanelTypes, RevsCounted
    <3>2. ASSUME NEW d \in Ids PROVE rev'[d] + Cardinality(SavesIn(calls')) <= ops + upsets
      <4>1. rev[d] \in Nat /\ rev[d] + Cardinality(SavesIn(calls)) <= ops + upsets
        BY <1>2 DEF PanelInv, PanelTypes, RevsCounted
      <4>2. rev'[d] \in {rev[d], rev[d] + 1}
        BY <1>2, <1>6, <2>2
      <4> QED
        BY <2>6, <2>7, <3>1, <4>1, <4>2
    <3> QED
      BY <1>0, <3>1, <3>2 DEF RevsCounted
  <2>9. ok.made < next' /\ exists' \subseteq exists /\ next' \in {next, next + 1} /\ ok.pc \in {"ok", "refused"}
    BY <1>1, <1>3, <1>6
  <2> QED
    BY <1>0, <1>3, <2>1, <2>3, <2>8, <2>9, ServedStep
<1>7. CASE calls' = To(c, "ok") /\ exists' \subseteq exists /\ UNCHANGED <<rev, next>>
  <2>1. calls' = (calls \ {c}) \cup {ok}
    BY <1>7 DEF To, ok
  <2>2. ServerType'
    BY <1>2, <1>7 DEF PanelInv, PanelTypes, ServerType
  <2>3. WellFormed(calls') /\ SavesIn(calls') \subseteq SavesIn(calls)
    BY <1>1, <1>3, <2>1, MovedKeeps
  <2>4. RevsCounted'
    BY <1>0, <1>7, <2>3, CountsKept DEF PanelInv
  <2>5. ok.made < next' /\ exists' \subseteq exists /\ next' \in {next, next + 1} /\ ok.pc \in {"ok", "refused"}
    BY <1>1, <1>3, <1>7
  <2> QED
    BY <1>0, <1>3, <2>1, <2>2, <2>4, <2>5, ServedStep
<1> QED
  BY <1>5, <1>6, <1>7 DEF Serve, server, made

LEMMA RefuseStep ==
    ASSUME PanelInv, NEW c \in calls, Refuse(c)
    PROVE  PanelInv'
<1> DEFINE e == [c EXCEPT !.pc = "refused"]
<1>0. /\ calls' = (calls \ {c}) \cup {e} /\ UNCHANGED <<exists, rev, next>> /\ Client /\ ops' = ops
      /\ upsets' = upsets \/ Upset
  BY DEF Refuse, To, server, Client
<1>1. c \in Request /\ WellFormed(calls) /\ c.made < next
  BY DEF PanelInv, PanelTypes, CallsType, WellFormed, CreatedInv, MadeBefore
<1>2. e \in Request /\ e.op = c.op /\ e.target = c.target /\ e.pc = "refused" /\ e.made = c.made
  BY <1>1 DEF Request
<1> HIDE DEF e
<1>3. WellFormed(calls') /\ SavesIn(calls') \subseteq SavesIn(calls)
  BY <1>0, <1>1, <1>2, MovedKeeps
<1>4. ServerType' /\ RevsCounted'
  BY <1>0, <1>3, CountsKept DEF PanelInv, PanelTypes, ServerType
<1>5. e.made < next' /\ exists' \subseteq exists /\ next' \in {next, next + 1} /\ e.pc \in {"ok", "refused"}
  BY <1>0, <1>1, <1>2
<1> QED
  BY <1>0, <1>2, <1>4, <1>5, ServedStep

\* An answer that reads the list again.
LEMMA AnsweredReads ==
    ASSUME PanelInv, NEW c \in calls, c.pc = "ok", Reload(To(c, "reloading"))
    PROVE  /\ WellFormed(calls') /\ SavesIn(calls') \subseteq SavesIn(calls)
           /\ fetch' \in {"asked", "read"} /\ snap' \in [ids : SUBSET Ids, rev : Revs]
           /\ loaded => fetch' = "asked"
           /\ fetch' = "read" => fetch = "read" /\ snap' = snap
           /\ OneWrite(calls) => OneWrite(calls')
           /\ NoWrite(calls) => NoWrite(calls')
           /\ OnlyDeletes(calls) => OnlyDeletes(calls')
           /\ MadeBefore(calls', next) /\ c.made < next /\ c \in Request
<1> DEFINE e == [c EXCEPT !.pc = "reloading"]
           cs == To(c, "reloading")
<1>1. c \in Request /\ WellFormed(calls) /\ MadeBefore(calls, next) /\ c.made < next /\ QueryType
  BY DEF PanelInv, PanelTypes, CallsType, WellFormed, CreatedInv, MadeBefore
<1>2. e \in Request /\ e.op = c.op /\ e.target = c.target /\ e.pc = "reloading" /\ e.made = c.made
  BY <1>1 DEF Request
<1>3. cs = (calls \ {c}) \cup {e}
  BY DEF To
<1> HIDE DEF e, cs
<1>4. /\ WellFormed(cs) /\ SavesIn(cs) \subseteq SavesIn(calls)
      /\ OneWrite(calls) => OneWrite(cs)
      /\ NoWrite(calls) => NoWrite(cs)
      /\ OnlyDeletes(calls) => OnlyDeletes(cs)
      /\ MadeBefore(cs, next)
  BY <1>1, <1>2, <1>3, MovedKeeps
<1>5. Reload(cs)
  BY DEF cs
<1>6. /\ WellFormed(calls') /\ SavesIn(calls') \subseteq SavesIn(cs)
      /\ fetch' \in {"asked", "read"} /\ snap' \in [ids : SUBSET Ids, rev : Revs]
      /\ loaded => fetch' = "asked"
      /\ fetch' = "read" => fetch = "read" /\ snap' = snap
      /\ OneWrite(cs) => OneWrite(calls')
      /\ NoWrite(cs) => NoWrite(calls')
      /\ OnlyDeletes(cs) => OnlyDeletes(calls')
      /\ MadeBefore(calls', next)
  BY <1>1, <1>4, <1>5, ReloadKeeps
<1> QED
  BY <1>1, <1>4, <1>6

\* The three answers that do: what was created is selected before the list can show it.
LEMMA SavedStep ==
    ASSUME PanelInv, NEW c \in calls, SavedOk(c)
    PROVE  PanelInv'
<1> USE DEF server, dialogs, bounds
<1>0. /\ c.pc = "ok" /\ c.op \in {"create", "save"} /\ Reload(To(c, "reloading"))
      /\ Choose(IF c.op = "create" THEN c.made ELSE c.target, c.op = "save" /\ creating)
      /\ mine' = IF c.op = "create" /\ loaded THEN c.made ELSE None
      /\ UNCHANGED <<exists, rev, next, loaded, listed, shown, initialised, saving, deleteOpen, importOpen, dupOpen,
                     told, asked, excuse, ops, upsets>>
  BY DEF SavedOk, At, Answer
<1>1. /\ WellFormed(calls') /\ SavesIn(calls') \subseteq SavesIn(calls)
      /\ fetch' \in {"asked", "read"} /\ snap' \in [ids : SUBSET Ids, rev : Revs]
      /\ loaded => fetch' = "asked"
      /\ OneWrite(calls) => OneWrite(calls')
      /\ NoWrite(calls) => NoWrite(calls')
      /\ MadeBefore(calls', next) /\ c.made < next /\ c \in Request
  BY <1>0, AnsweredReads
<1> DEFINE a == IF c.op = "create" THEN c.made ELSE c.target
           new == c.op = "save" /\ creating
<1>2. a \in Some /\ new \in BOOLEAN
  BY <1>1 DEF Request, PanelInv, PanelTypes, ChoiceType
<1>3. Choose(a, new)
  BY <1>0
<1> HIDE DEF a, new
<1>4. /\ active' \in Some /\ creating' \in BOOLEAN /\ form' \in Form
      /\ (loaded => active' = a) /\ FormIsOfWhatIsListed'
  BY <1>0, <1>2, <1>3, ChosenIsRight DEF PanelInv, PanelTypes
<1>5. CallsType' /\ RevsCounted'
  BY <1>0, <1>1, CountsKept DEF CallsType, PanelInv
<1>6. QueryType' /\ ServerType' /\ ChoiceType'
  BY <1>0, <1>1, <1>4 DEF PanelInv, PanelTypes, QueryType, ServerType, ChoiceType
<1>7. FlagsType'
  BY <1>0, <1>1 DEF PanelInv, PanelTypes, FlagsType, Request, Some
<1>8. CreatedInv'
  <2>1. None \notin exists /\ None < next
    BY SectionsAssumption DEF PanelInv, PanelTypes, ServerType, Ids, None
  <2>2. mine' < next
    BY <1>0, <1>1, <2>1
  <2>3. mine' \in exists => loaded /\ active' = mine'
    BY <1>0, <1>4, <2>1 DEF a
  <2> QED
    BY <1>0, <1>1, <2>2, <2>3 DEF PanelInv, CreatedInv
<1>9. OneWriter'
  BY <1>0, <1>1 DEF PanelInv, OneWriter
<1>10. QuestionStands'
  <2>1. ~OnlyDeletes(calls)
    BY <1>0 DEF OnlyDeletes, Writes
  <2> QED
    BY <1>0, <2>1 DEF PanelInv, QuestionStands
<1> QED
  BY <1>4, <1>5, <1>6, <1>7, <1>8, <1>9, <1>10 DEF PanelInv, PanelTypes

LEMMA DeletedStep ==
    ASSUME PanelInv, NEW c \in calls, DeleteOk(c)
    PROVE  PanelInv'
<1> USE DEF server, bounds
<1>0. /\ c.pc = "ok" /\ c.op = "delete" /\ Reload(To(c, "reloading"))
      /\ Choose(c.rest, creating) /\ mine' = None /\ deleteOpen' = FALSE /\ asked' = None
      /\ excuse' = excuse \ {"cleared", "gone"}
      /\ UNCHANGED <<exists, rev, next, loaded, listed, shown, initialised, saving, importOpen, dupOpen, told, ops, upsets>>
  BY DEF DeleteOk, At, Answer, Forget
<1>1. /\ WellFormed(calls') /\ SavesIn(calls') \subseteq SavesIn(calls)
      /\ fetch' \in {"asked", "read"} /\ snap' \in [ids : SUBSET Ids, rev : Revs]
      /\ OneWrite(calls) => OneWrite(calls')
      /\ NoWrite(calls) => NoWrite(calls')
      /\ MadeBefore(calls', next) /\ c \in Request
  BY <1>0, AnsweredReads
<1>2. c.rest \in Some /\ creating \in BOOLEAN
  BY <1>1 DEF Request, PanelInv, PanelTypes, ChoiceType
<1>3. active' \in Some /\ creating' \in BOOLEAN /\ form' \in Form /\ FormIsOfWhatIsListed'
  BY <1>0, <1>2, ChosenIsRight DEF PanelInv, PanelTypes
<1>4. CallsType' /\ RevsCounted'
  BY <1>0, <1>1, CountsKept DEF CallsType, PanelInv
<1>5. QueryType' /\ ServerType' /\ ChoiceType'
  BY <1>0, <1>1, <1>3 DEF PanelInv, PanelTypes, QueryType, ServerType, ChoiceType
<1>6. FlagsType'
  BY <1>0 DEF PanelInv, PanelTypes, FlagsType, Some
<1>7. CreatedInv'
  <2>1. None \notin exists /\ None < next
    BY SectionsAssumption DEF PanelInv, PanelTypes, ServerType, Ids, None
  <2> QED
    BY <1>0, <1>1, <2>1 DEF PanelInv, CreatedInv
<1>8. OneWriter' /\ QuestionStands'
  BY <1>0, <1>1 DEF PanelInv, OneWriter, QuestionStands
<1> QED
  BY <1>3, <1>4, <1>5, <1>6, <1>7, <1>8 DEF PanelInv, PanelTypes

LEMMA ImportedStep ==
    ASSUME PanelInv, NEW c \in calls, ImportOk(c)
    PROVE  PanelInv'
<1> USE DEF server, bounds, choice, notes
<1>0. /\ c.pc = "ok" /\ c.op = "import" /\ Reload(To(c, "reloading")) /\ importOpen' = FALSE
      /\ UNCHANGED <<exists, rev, next, loaded, listed, shown, active, initialised, creating, form, saving,
                     deleteOpen, dupOpen, told, asked, mine, excuse, ops, upsets>>
  BY DEF ImportOk, At, Answer
<1>1. /\ WellFormed(calls') /\ SavesIn(calls') \subseteq SavesIn(calls)
      /\ fetch' \in {"asked", "read"} /\ snap' \in [ids : SUBSET Ids, rev : Revs]
      /\ fetch' = "read" => fetch = "read" /\ snap' = snap
      /\ OneWrite(calls) => OneWrite(calls')
      /\ NoWrite(calls) => NoWrite(calls')
      /\ OnlyDeletes(calls) => OnlyDeletes(calls')
      /\ MadeBefore(calls', next)
  BY <1>0, AnsweredReads
<1>2. CallsType' /\ RevsCounted'
  BY <1>0, <1>1, CountsKept DEF CallsType, PanelInv
<1>3. QueryType' /\ ServerType' /\ ChoiceType' /\ FlagsType'
  BY <1>0, <1>1 DEF PanelInv, PanelTypes, QueryType, ServerType, ChoiceType, FlagsType
<1>4. FormIsOfWhatIsListed' /\ CreatedInv' /\ OneWriter' /\ QuestionStands'
  BY <1>0, <1>1 DEF PanelInv, FormIsOfWhatIsListed, CreatedInv, OneWriter, QuestionStands
<1> QED
  BY <1>2, <1>3, <1>4 DEF PanelInv, PanelTypes

\* A request that ends takes nothing with it.
LEMMA EndedKeeps ==
    ASSUME PanelInv, NEW c \in calls, NEW cs, cs = calls \ {c}
    PROVE  /\ WellFormed(cs) /\ SavesIn(cs) \subseteq SavesIn(calls) /\ (Waits(cs) => Waits(calls))
           /\ OneWrite(calls) => OneWrite(cs) /\ (c.op \in Writes => NoWrite(cs))
           /\ NoWrite(calls) => NoWrite(cs)
           /\ OnlyDeletes(calls) => OnlyDeletes(cs)
           /\ MadeBefore(cs, next)
<1>1. WellFormed(calls) /\ MadeBefore(calls, next)
  BY DEF PanelInv, PanelTypes, CallsType, CreatedInv
<1>2. IsFiniteSet(cs)
  BY <1>1, FS_RemoveElement DEF WellFormed
<1>3. WellFormed(cs)
  BY <1>1, <1>2 DEF WellFormed
<1>4. SavesIn(cs) \subseteq SavesIn(calls) /\ (Waits(cs) => Waits(calls)) /\ MadeBefore(cs, next)
  BY <1>1 DEF SavesIn, Waits, MadeBefore
<1>5. OneWrite(calls) => OneWrite(cs) /\ (c.op \in Writes => NoWrite(cs))
  BY DEF OneWrite, NoWrite
<1>6. (NoWrite(calls) => NoWrite(cs)) /\ (OnlyDeletes(calls) => OnlyDeletes(cs))
  BY DEF NoWrite, OnlyDeletes
<1> QED
  BY <1>3, <1>4, <1>5, <1>6

LEMMA CheckedStep ==
    ASSUME PanelInv, NEW c \in calls, Checked(c)
    PROVE  PanelInv'
<1> USE DEF server, bounds, choice, notes
<1> DEFINE cs == calls \ {c}
           e == [c EXCEPT !.op = "template", !.pc = "sent"]
<1>0. /\ c.op = "check"
      /\ \/ dupOpen' = TRUE /\ calls' = cs /\ saving' = saving
         \/ dupOpen' = dupOpen /\ calls' = cs \cup {e} /\ saving' = TRUE
      /\ UNCHANGED <<exists, rev, next, loaded, listed, shown, fetch, snap, active, initialised, creating, form,
                     deleteOpen, importOpen, told, asked, mine, excuse, ops, upsets>>
  BY DEF Checked, Answer
<1>1. /\ WellFormed(cs) /\ SavesIn(cs) \subseteq SavesIn(calls) /\ (Waits(cs) => Waits(calls))
      /\ OneWrite(calls) => OneWrite(cs)
      /\ NoWrite(calls) => NoWrite(cs)
      /\ OnlyDeletes(calls) => OnlyDeletes(cs)
      /\ MadeBefore(cs, next)
  BY EndedKeeps
<1>2. e \in Request /\ e.op = "template" /\ e.pc = "sent" /\ e.made = c.made /\ c.made < next
  BY DEF PanelInv, PanelTypes, CallsType, WellFormed, CreatedInv, MadeBefore, Request, Ops
<1>3. "template" \notin Writes
  BY DEF Writes
<1> HIDE DEF cs, e
<1>4. /\ WellFormed(calls') /\ SavesIn(calls') \subseteq SavesIn(calls) /\ (Waits(calls') => Waits(calls))
      /\ OneWrite(calls) => OneWrite(calls')
      /\ NoWrite(calls) => NoWrite(calls')
      /\ OnlyDeletes(calls) => OnlyDeletes(calls')
      /\ MadeBefore(calls', next)
  <2>1. CASE calls' = cs
    BY <1>1, <2>1
  <2>2. CASE calls' = cs \cup {e}
    <3>1. IsFiniteSet(calls')
      BY <1>1, <2>2, FS_AddElement DEF WellFormed
    <3>2. WellFormed(calls')
      BY <1>1, <1>2, <2>2, <3>1 DEF WellFormed
    <3>3. SavesIn(calls') \subseteq SavesIn(calls) /\ (Waits(calls') => Waits(calls)) /\ MadeBefore(calls', next)
      BY <1>1, <1>2, <2>2 DEF SavesIn, Waits, MadeBefore
    <3>4. (OneWrite(cs) => OneWrite(calls')) /\ (NoWrite(cs) => NoWrite(calls')) /\ (OnlyDeletes(cs) => OnlyDeletes(calls'))
      BY <1>2, <1>3, <2>2 DEF OneWrite, NoWrite, OnlyDeletes
    <3> QED
      BY <1>1, <3>2, <3>3, <3>4
  <2> QED
    BY <1>0, <2>1, <2>2
<1>5. CallsType' /\ RevsCounted'
  BY <1>0, <1>4, CountsKept DEF CallsType, PanelInv, PanelTypes
<1>6. QueryType' /\ ServerType' /\ ChoiceType' /\ FlagsType'
  BY <1>0 DEF PanelInv, PanelTypes, QueryType, ServerType, ChoiceType, FlagsType
<1>7. FormIsOfWhatIsListed' /\ CreatedInv' /\ QuestionStands'
  BY <1>0, <1>4 DEF PanelInv, FormIsOfWhatIsListed, CreatedInv, QuestionStands
<1>8. OneWriter'
  BY <1>0, <1>4 DEF PanelInv, OneWriter
<1> QED
  BY <1>5, <1>6, <1>7, <1>8 DEF PanelInv, PanelTypes

\* The one write ends with its flag; a copy that ends during a write is the excuse.
LEMMA FinishStep ==
    ASSUME PanelInv, NEW c \in calls, Finish(c)
    PROVE  PanelInv'
<1> USE DEF server, bounds, dialogs
<1> DEFINE cs == calls \ {c}
<1>0. /\ calls' = cs /\ saving' = (IF c.op = "check" THEN saving ELSE FALSE)
      /\ excuse' = (IF c.op = "template" /\ \E d \in cs : d.op \in Writes THEN excuse \cup {"copied"} ELSE excuse)
      /\ UNCHANGED <<exists, rev, next, loaded, listed, shown, fetch, snap, initialised,
                     deleteOpen, importOpen, dupOpen, told, asked, ops, upsets>>
  BY DEF Finish, Answer
<1>1. /\ WellFormed(cs) /\ SavesIn(cs) \subseteq SavesIn(calls) /\ (Waits(cs) => Waits(calls))
      /\ OneWrite(calls) => OneWrite(cs) /\ (c.op \in Writes => NoWrite(cs))
      /\ NoWrite(calls) => NoWrite(cs)
      /\ OnlyDeletes(calls) => OnlyDeletes(cs)
      /\ MadeBefore(cs, next)
  BY EndedKeeps
<1>2. c \in Request
  BY DEF PanelInv, PanelTypes, CallsType, WellFormed
<1> HIDE DEF cs
<1>3. CallsType' /\ RevsCounted'
  BY <1>0, <1>1, CountsKept DEF CallsType, PanelInv, PanelTypes
<1>4. QueryType' /\ ServerType'
  BY <1>0 DEF PanelInv, PanelTypes, QueryType, ServerType
<1>5. excuse \subseteq excuse' /\ excuse' \subseteq excuse \cup {"copied"}
  BY <1>0
<1>6. OneWriter'
  <2> SUFFICES ASSUME "copied" \notin excuse' PROVE OneWrite(calls') /\ (~saving' => NoWrite(calls'))
    BY DEF OneWriter
  <2>1. OneWrite(calls) /\ (~saving => NoWrite(calls))
    BY <1>5 DEF PanelInv, OneWriter
  <2>2. CASE c.op = "check"
    BY <1>0, <1>1, <2>1, <2>2
  <2>3. CASE c.op \in Writes
    BY <1>0, <1>1, <2>1, <2>3
  <2>4. CASE c.op = "template"
    <3>1. NoWrite(cs)
      BY <1>0, <2>4 DEF NoWrite
    <3> QED
      BY <1>0, <1>1, <2>1, <3>1
  <2> QED
    BY <1>2, <2>2, <2>3, <2>4 DEF Request, Ops, Writes
<1>7. CASE c.pc = "done" /\ c.op = "import"
  <2>1. Choose(c.made, FALSE) /\ mine' = None /\ c.made \in Some
    BY <1>2, <1>7 DEF Finish, At, Request
  <2>2. active' \in Some /\ creating' \in BOOLEAN /\ form' \in Form /\ FormIsOfWhatIsListed'
    BY <1>0, <2>1, ChosenIsRight DEF PanelInv, PanelTypes
  <2>3. ChoiceType' /\ FlagsType'
    BY <1>0, <1>5, <2>1, <2>2 DEF PanelInv, PanelTypes, ChoiceType, FlagsType, Some
  <2>4. None \notin exists /\ None < next
    BY SectionsAssumption DEF PanelInv, PanelTypes, ServerType, Ids, None
  <2>5. CreatedInv'
    BY <1>0, <1>1, <2>1, <2>4 DEF PanelInv, CreatedInv
  <2>6. ~OnlyDeletes(calls)
    BY <1>7 DEF OnlyDeletes, Writes
  <2>7. QuestionStands'
    BY <1>0, <1>5, <2>6 DEF PanelInv, QuestionStands
  <2> QED
    BY <1>3, <1>4, <1>6, <2>2, <2>3, <2>5, <2>7 DEF PanelInv, PanelTypes
<1>8. CASE ~(c.pc = "done" /\ c.op = "import")
  <2>1. UNCHANGED <<active, creating, form, mine>>
    BY <1>8 DEF Finish, At
  <2>2. ChoiceType' /\ FlagsType'
    BY <1>0, <1>5, <2>1 DEF PanelInv, PanelTypes, ChoiceType, FlagsType
  <2>3. FormIsOfWhatIsListed' /\ CreatedInv'
    BY <1>0, <1>1, <2>1 DEF PanelInv, FormIsOfWhatIsListed, CreatedInv
  <2>4. QuestionStands'
    BY <1>0, <1>1, <1>5, <2>1 DEF PanelInv, QuestionStands
  <2> QED
    BY <1>3, <1>4, <1>6, <2>2, <2>3, <2>4 DEF PanelInv, PanelTypes
<1> QED
  BY <1>7, <1>8

-----------------------------------------------------------------------------
(* The panel.                                                              *)

LEMMA PanelInit ==
    ASSUME Init
    PROVE  PanelInv
<1>1. MaxId \in Nat /\ MaxId >= 2 /\ MaxOps \in Nat /\ MaxUpsets \in Nat
  BY SectionsAssumption
<1>2. rev = [c \in Ids |-> 0] /\ exists = 1..2 /\ next = 3 /\ ops = 0 /\ upsets = 0 /\ calls = {}
  BY DEF Init
<1>3. ServerType
  BY <1>1, <1>2 DEF ServerType, Ids
<1>4. rev \in Revs /\ NoSnap \in [ids : SUBSET Ids, rev : Revs]
  BY <1>1, <1>2 DEF Revs, NoSnap
<1>5. QueryType
  BY <1>4 DEF Init, QueryType
<1>6. form \in Form /\ None \in Some
  BY DEF Init, Filled, Form, Some
<1>7. ChoiceType /\ FlagsType
  BY <1>6 DEF Init, ChoiceType, FlagsType
<1>8. WellFormed(calls) /\ SavesIn(calls) = {} /\ ~Waits(calls) /\ OneWrite(calls) /\ NoWrite(calls)
      /\ MadeBefore(calls, next)
  BY <1>2, FS_EmptySet DEF WellFormed, SavesIn, Waits, OneWrite, NoWrite, MadeBefore
<1>9. Cardinality(SavesIn(calls)) = 0
  BY <1>8, FS_EmptySet
<1>10. CallsType /\ RevsCounted
  BY <1>1, <1>2, <1>8, <1>9 DEF CallsType, RevsCounted
<1>11. CreatedInv
  <2>1. mine = None /\ None \notin exists /\ None < next /\ \A c \in exists : c < next
    BY <1>2 DEF Init, None
  <2> QED
    BY <1>8, <2>1 DEF CreatedInv
<1>12. FormIsOfWhatIsListed /\ OneWriter /\ QuestionStands
  BY <1>8 DEF Init, FormIsOfWhatIsListed, OneWriter, QuestionStands
<1> QED
  BY <1>3, <1>5, <1>7, <1>10, <1>11, <1>12 DEF PanelInv, PanelTypes

LEMMA PanelStep ==
    ASSUME PanelInv, [Next]_vars
    PROVE  PanelInv'
<1>1. CASE UNCHANGED vars
  <2> USE DEF vars, server, query, choice, dialogs, notes, bounds
  <2>1. PanelTypes'
    BY <1>1 DEF PanelInv, PanelTypes, ServerType, QueryType, ChoiceType, FlagsType, CallsType, RevsCounted
  <2>2. FormIsOfWhatIsListed' /\ CreatedInv' /\ OneWriter' /\ QuestionStands'
    BY <1>1 DEF PanelInv, FormIsOfWhatIsListed, CreatedInv, OneWriter, QuestionStands
  <2> QED
    BY <2>1, <2>2 DEF PanelInv
<1>2. CASE Read \/ Land \/ LoadFails \/ Colleague \/ EventArrives
  BY <1>2, ReadStep, LandStep, LoadFailsStep, ColleagueStep, EventStep
<1>3. CASE (\E c \in Ids : SelectRow(c)) \/ StartNew \/ CancelNew \/ ClearSelection \/ Edit
  BY <1>3, SelectStep, EditStep
<1>4. CASE AskDelete \/ CancelDelete \/ OpenImport \/ CloseImport
  BY <1>4, DialogStep
<1>5. CASE Save \/ ConfirmDelete \/ Import \/ SaveAsTemplate \/ (\E anyway \in BOOLEAN : AnswerDuplicate(anyway))
  BY <1>5, RequestStep
<1>6. ASSUME NEW c \in calls,
             Serve(c) \/ Refuse(c) \/ SavedOk(c) \/ DeleteOk(c) \/ ImportOk(c) \/ Checked(c) \/ Finish(c)
      PROVE  PanelInv'
  BY <1>6, ServeStep, RefuseStep, SavedStep, DeletedStep, ImportedStep, CheckedStep, FinishStep
<1> QED
  BY <1>1, <1>2, <1>3, <1>4, <1>5, <1>6 DEF Next

LEMMA PanelPromises ==
    ASSUME PanelInv
    PROVE  TypeOK /\ SelectionIsRight /\ WritesAreRight
<1>1. TypeOK
  <2>1. rev \in [Ids -> 0..(MaxOps + MaxUpsets)]
    BY VersionsBounded DEF PanelInv, Revs
  <2>2. (\E c \in calls : c.pc = "reloading") => fetch # "idle"
    BY DEF PanelInv, PanelTypes, CallsType, Waits
  <2>3. \A c \in calls : c.op \in Ops /\ c.pc \in {"sent", "ok", "refused", "reloading", "done"}
    BY DEF PanelInv, PanelTypes, CallsType, WellFormed, Request
  <2>4. form.of \in Ids \cup {None} /\ form.typed \in BOOLEAN /\ snap.ids \subseteq Ids
    BY DEF PanelInv, PanelTypes, ChoiceType, QueryType, Form, Some
  <2> QED
    BY <2>1, <2>2, <2>3, <2>4 DEF TypeOK, PanelInv, PanelTypes, ServerType, QueryType, ChoiceType, FlagsType,
                                  RevsCounted, Revs, Some
<1>2. SelectionIsRight
  BY DEF SelectionIsRight, CreatedStaysSelected, PanelInv, CreatedInv
<1>3. DeletesWhatWasAsked
  BY DEF DeletesWhatWasAsked, PanelInv, QuestionStands
<1>4. OneWriteAtATime
  <2> DEFINE W == {c \in calls : c.op \in Writes /\ c.pc = "sent"}
  <2>1. CASE "copied" \in excuse
    BY <2>1 DEF OneWriteAtATime
  <2>2. CASE "copied" \notin excuse
    <3>1. \A c, d \in W : c = d
      BY <2>2 DEF PanelInv, OneWriter, OneWrite
    <3> HIDE DEF W
    <3>2. CASE W = {}
      <4>1. Cardinality(W) = 0
        BY <3>2, FS_EmptySet
      <4> QED
        BY <4>1 DEF OneWriteAtATime, W
    <3>3. CASE W # {}
      <4>1. PICK c : c \in W
        BY <3>3
      <4>2. W = {c}
        BY <3>1, <4>1
      <4>3. Cardinality(W) = 1
        BY <4>2, FS_Singleton
      <4> QED
        BY <4>3 DEF OneWriteAtATime, W
    <3> QED
      BY <3>2, <3>3
  <2> QED
    BY <2>1, <2>2
<1> QED
  BY <1>1, <1>2, <1>3, <1>4 DEF WritesAreRight

-----------------------------------------------------------------------------
(* The lines' invariant.  Texts of lines that ever existed are not 0.      *)

Load == [of : Conditions, n : 0..MaxLineOps, served : BOOLEAN, ids : SUBSET Lines!Ids, text : Lines!Texts, old : BOOLEAN]
Known(i) == lineSaved[i] # 0

StoreType ==
    /\ lineExists \subseteq Lines!Ids /\ lineOf \in [Lines!Ids -> Conditions] /\ lineSaved \in Lines!Texts
    /\ \A i \in lineExists : Known(i)
RowsType ==
    /\ lineCondition \in Conditions /\ lineItems \subseteq Lines!Ids /\ lineText \in Lines!Texts
    /\ \A i \in lineItems : Known(i) /\ lineText[i] # 0
    /\ lineFocus \in lineItems \cup {Lines!None}
LoadsType ==
    /\ lineLoading \in BOOLEAN /\ lineLoads \subseteq Load
    /\ \A l \in lineLoads : l.served => \A i \in l.ids : Known(i) /\ l.text[i] # 0
AddsType ==
    /\ lineAdding \in BOOLEAN /\ lineAdds \subseteq [of : Conditions, id : Lines!Ids \cup {Lines!None}]
    /\ \A a \in lineAdds : a.id # Lines!None => Known(a.id) /\ lineOf[a.id] = a.of
RemovalsType ==
    /\ lineDeletingId \in Lines!Ids \cup {Lines!None} /\ lineRemovals \subseteq [id : Lines!Ids, served : BOOLEAN]
    /\ \A d \in lineRemovals : Known(d.id) /\ (d.served => d.id \notin lineExists)
PatchesType ==
    /\ linePatches \subseteq [id : Lines!Ids, text : 1..MaxLineOps + 1, served : BOOLEAN]
    /\ \A w \in linePatches : Known(w.id)
ValuesType ==
    /\ lineTimer \in [id : Lines!Ids \cup {Lines!None}, text : 0..MaxLineOps + 1]
    /\ lineTimer = Lines!NoTimer \/ (lineTimer.id # Lines!None /\ lineTimer.text # 0 /\ Known(lineTimer.id))
    /\ linePreview \in Lines!Texts
    /\ linePreviews \subseteq [id : Lines!Ids, text : 1..MaxLineOps + 1, by : Conditions]
NotesType ==
    /\ lineStrayed \in BOOLEAN /\ lineUnsaved \subseteq Lines!Ids /\ lineStolen \subseteq Lines!Ids
    /\ lineUntold \subseteq Lines!Ids /\ ops \in 0..MaxLineOps /\ upsets \in 0..MaxUpsets

LinesTypes ==
    /\ StoreType /\ RowsType /\ LoadsType /\ AddsType /\ RemovalsType /\ PatchesType
    /\ ValuesType /\ NotesType

\* The flags and the requests; a line that is being removed is not typed in.
FlagsFit ==
    /\ lineAdding <=> lineAdds # {}
    /\ \A a, b \in lineAdds : a = b
    /\ lineDeletingId # Lines!None <=> lineRemovals # {}
    /\ \A d, e \in lineRemovals : d = e
    /\ \A d \in lineRemovals : d.id = lineDeletingId
    /\ lineDeletingId # Lines!None => lineFocus # lineDeletingId
    /\ lineLoading => lineLoads # {}

\* An answer on its way is what the server has, or marked as old.
FreshLoads == \A l \in lineLoads : l.served /\ ~l.old =>
    l.ids = Lines!Of(l.of) /\ \A i \in l.ids : l.text[i] = lineSaved[i]

Moving == {a.id : a \in lineAdds} \cup {d.id : d \in lineRemovals}
InStep == lineLoads = {} /\ ~lineStrayed

\* The lines shown, but for those on their way in or out; one on its way in that is not
\* shown has never been typed in.
LinesShown == InStep =>
    /\ \A i \in Lines!Ids \ (lineUntold \cup Moving) : i \in lineItems <=> i \in Lines!Of(lineCondition)
    /\ \A a \in lineAdds : a.id \in Lines!Of(lineCondition) \ lineItems =>
          lineSaved[a.id] = 1 /\ a.id # lineTimer.id /\ \A w \in linePatches : w.id # a.id

\* What was typed is in the one patch on its way, or saved.
TextsShown == InStep => \A i \in lineItems \ (lineUnsaved \cup {lineFocus}) :
    /\ \A w, v \in linePatches : w.id = i /\ v.id = i => w = v
    /\ (\A w \in linePatches : w.id # i) => lineText[i] = lineSaved[i]
    /\ \A w \in linePatches : w.id = i => lineText[i] = w.text /\ (w.served => lineSaved[i] = w.text)

\* The timer has the text, or else every request on its way, or else the value shown.
ValuesShown == InStep => \A i \in lineItems \ lineStolen :
    /\ lineTimer.id = i => lineTimer.text = lineText[i]
    /\ lineTimer.id # i => \A q \in linePreviews : q.id = i => q.text = lineText[i]
    /\ lineTimer.id # i /\ (\A q \in linePreviews : q.id # i) => linePreview[i] = lineText[i]

LinesInv == LinesTypes /\ FlagsFit /\ FreshLoads /\ LinesShown /\ TextsShown /\ ValuesShown

\* Ids are positive, and 0 stands for none.
LEMMA LineIds ==
    /\ \A i \in Lines!Ids : i # Lines!None /\ i \in Nat
    /\ Lines!None = 0 /\ 1 \in Lines!Ids /\ MaxLineOps \in Nat /\ Lines!Blank \in Lines!Texts
BY SectionsAssumption DEF Lines!Ids, Lines!None, Lines!Blank, Lines!Texts

\* When the server changes the lines every answer on its way becomes old.
LEMMA AgedLoads ==
    ASSUME LoadsType, lineLoads' = Lines!Aged, lineLoading' = lineLoading, \A i : Known(i) => Known(i)'
    PROVE  LoadsType' /\ FreshLoads' /\ (lineLoads' = {} <=> lineLoads = {})
<1> DEFINE A(l) == IF l.served THEN [l EXCEPT !.old = TRUE] ELSE l
<1>1. \A l \in lineLoads : /\ A(l) \in Load /\ A(l).served = l.served /\ (l.served => A(l).old)
                           /\ A(l).ids = l.ids /\ A(l).text = l.text
  BY DEF LoadsType, Load
<1>2. lineLoads' = {A(l) : l \in lineLoads}
  BY DEF Lines!Aged
<1> HIDE DEF A
<1>3. LoadsType'
  BY <1>1, <1>2 DEF LoadsType
<1>4. FreshLoads'
  BY <1>1, <1>2 DEF FreshLoads
<1> QED
  BY <1>2, <1>3, <1>4

-----------------------------------------------------------------------------
(* Loading.                                                                *)

LEMMA SelectLines ==
    ASSUME LinesInv, NEW c \in Conditions, Lines!Select(c)
    PROVE  LinesInv'
<1> USE DEF Lines!server, Lines!rows, Lines!writes
<1> DEFINE ask == Lines!Ask(c, ops')
<1>0. /\ lineCondition' = c /\ lineLoading' = TRUE /\ lineLoads' = lineLoads \cup {ask} /\ linePreview' = Lines!Blank
      /\ lineFocus' = Lines!None /\ lineUnsaved' = lineUnsaved \cup ({lineFocus} \ {Lines!None})
      /\ ops < MaxLineOps /\ ops' = ops + 1
      /\ UNCHANGED <<lineExists, lineOf, lineSaved, lineItems, lineText, lineAdding, lineAdds, lineDeletingId,
                     lineRemovals, linePatches, lineTimer, linePreviews, lineStrayed, lineStolen, lineUntold, upsets>>
  BY DEF Lines!Select, Lines!Op
<1>1. ops' \in 0..MaxLineOps
  BY <1>0, LineIds DEF LinesInv, LinesTypes, NotesType
<1>2. ask \in Load /\ ask.served = FALSE
  BY <1>1, LineIds DEF Lines!Ask, Load
<1> HIDE DEF ask
<1>3. LoadsType' /\ FreshLoads'
  BY <1>0, <1>2 DEF LinesInv, LinesTypes, LoadsType, FreshLoads, Known, Lines!Of
<1>4. StoreType' /\ RowsType' /\ AddsType' /\ RemovalsType' /\ PatchesType'
  BY <1>0 DEF LinesInv, LinesTypes, StoreType, RowsType, AddsType, RemovalsType, PatchesType, Known
<1>5. ValuesType' /\ NotesType'
  BY <1>0, <1>1, LineIds DEF LinesInv, LinesTypes, ValuesType, NotesType, Known, RowsType
<1>6. FlagsFit'
  BY <1>0 DEF LinesInv, FlagsFit
<1>7. ~InStep'
  BY <1>0 DEF InStep
<1> QED
  BY <1>3, <1>4, <1>5, <1>6, <1>7 DEF LinesInv, LinesTypes, LinesShown, TextsShown, ValuesShown

LEMMA ServeLoadStep ==
    ASSUME LinesInv, NEW l \in lineLoads, Lines!ServeLoad(l)
    PROVE  LinesInv'
<1> USE DEF Lines!server, Lines!rows, Lines!writes, Lines!values, Lines!notes
<1> DEFINE s == [l EXCEPT !.served = TRUE, !.ids = Lines!Of(l.of), !.text = lineSaved]
<1>0. /\ ~l.served /\ lineLoads' = (lineLoads \ {l}) \cup {s}
      /\ UNCHANGED <<lineExists, lineOf, lineSaved, lineCondition, lineItems, lineText, lineLoading, lineAdding, lineAdds,
                     lineDeletingId, lineRemovals, linePatches, lineFocus, lineTimer, linePreview, linePreviews,
                     lineStrayed, lineUnsaved, lineStolen, lineUntold, ops, upsets>>
  BY DEF Lines!ServeLoad
<1>1. l \in Load
  BY DEF LinesInv, LinesTypes, LoadsType
<1>2. Lines!Of(l.of) \subseteq lineExists /\ lineExists \subseteq Lines!Ids /\ lineSaved \in Lines!Texts
      /\ \A i \in lineExists : Known(i)
  BY DEF LinesInv, LinesTypes, StoreType, Lines!Of
<1>3. s \in Load /\ s.of = l.of /\ s.ids = Lines!Of(l.of) /\ s.text = lineSaved
  BY <1>1, <1>2 DEF Load
<1> HIDE DEF s
<1>4. LoadsType'
  BY <1>0, <1>2, <1>3 DEF LinesInv, LinesTypes, LoadsType, Known
<1>5. FreshLoads'
  BY <1>0, <1>3 DEF LinesInv, FreshLoads, Lines!Of
<1>6. StoreType' /\ RowsType' /\ AddsType' /\ RemovalsType' /\ PatchesType' /\ ValuesType' /\ NotesType'
  BY <1>0 DEF LinesInv, LinesTypes, StoreType, RowsType, AddsType, RemovalsType, PatchesType, ValuesType, NotesType, Known
<1>7. FlagsFit' /\ ~InStep'
  BY <1>0 DEF LinesInv, FlagsFit, InStep
<1> QED
  BY <1>4, <1>5, <1>6, <1>7 DEF LinesInv, LinesTypes, LinesShown, TextsShown, ValuesShown

\* Only here do the lines come into step again: with an answer of this condition that is not old.
LEMMA LoadedStep ==
    ASSUME LinesInv, NEW l \in lineLoads, Lines!Loaded(l)
    PROVE  LinesInv'
<1> USE DEF Lines!server, Lines!writes
<1> DEFINE asks == {[id |-> i, text |-> l.text[i], by |-> l.of] : i \in l.ids}
<1>0. /\ l.served /\ lineLoads' = lineLoads \ {l} /\ lineLoading' = FALSE
      /\ lineItems' = l.ids /\ lineText' = [i \in Lines!Ids |-> IF i \in l.ids THEN l.text[i] ELSE 0]
      /\ linePreviews' = linePreviews \cup asks
      /\ lineStrayed' = (l.of # lineCondition \/ l.old)
      /\ lineStolen' = lineStolen \cup {q.id : q \in linePreviews} \cup ({lineTimer.id} \ {Lines!None})
      /\ lineUnsaved' = IF l.old \/ lineFocus # Lines!None THEN lineUnsaved \cup l.ids
                        ELSE (lineUnsaved \ l.ids) \cup {w.id : w \in linePatches}
      /\ lineFocus' = Lines!None
      /\ UNCHANGED <<lineExists, lineOf, lineSaved, lineCondition, lineAdding, lineAdds, lineDeletingId, lineRemovals,
                     linePatches, lineTimer, linePreview, lineUntold, ops, upsets>>
  BY DEF Lines!Loaded
<1>1. l \in Load /\ \A i \in l.ids : Known(i) /\ l.text[i] # 0
  BY <1>0 DEF LinesInv, LinesTypes, LoadsType
<1>2. l.ids \subseteq Lines!Ids /\ l.text \in Lines!Texts /\ l.of \in Conditions /\ l.old \in BOOLEAN
  BY <1>1 DEF Load
<1>3. \A i \in Lines!Ids : l.text[i] \in 0..MaxLineOps + 1
  BY <1>2 DEF Lines!Texts
<1>4. lineText' \in Lines!Texts /\ \A i \in l.ids : lineText'[i] = l.text[i]
  BY <1>0, <1>2, <1>3, LineIds DEF Lines!Texts
<1>5. asks \subseteq [id : Lines!Ids, text : 1..MaxLineOps + 1, by : Conditions]
  <2>1. \A i \in l.ids : l.text[i] \in 1..MaxLineOps + 1
    BY <1>1, <1>2, <1>3, LineIds
  <2> QED
    BY <1>2, <2>1
<1>6. (\A q \in asks : q.id \in l.ids /\ q.text = l.text[q.id]) /\ \A i \in l.ids : \E q \in asks : q.id = i
  <2>1. \A q \in asks : q.id \in l.ids /\ q.text = l.text[q.id]
    OBVIOUS
  <2>2. ASSUME NEW i \in l.ids PROVE \E q \in asks : q.id = i
    <3>1. [id |-> i, text |-> l.text[i], by |-> l.of] \in asks
      OBVIOUS
    <3> QED
      BY <3>1
  <2> QED
    BY <2>1, <2>2
<1> HIDE DEF asks
<1>7. RowsType'
  BY <1>0, <1>1, <1>2, <1>4 DEF LinesInv, LinesTypes, RowsType, Known
<1>8. LoadsType' /\ FreshLoads'
  <2>1. LoadsType'
    BY <1>0 DEF LinesInv, LinesTypes, LoadsType, Known
  <2>2. FreshLoads'
    BY <1>0 DEF LinesInv, FreshLoads, Lines!Of
  <2> QED
    BY <2>1, <2>2
<1>9. StoreType' /\ AddsType' /\ RemovalsType' /\ PatchesType'
  BY <1>0 DEF LinesInv, LinesTypes, StoreType, AddsType, RemovalsType, PatchesType, Known
<1>10. ValuesType'
  BY <1>0, <1>5 DEF LinesInv, LinesTypes, ValuesType, Known
<1>11. NotesType'
  <2>1. lineStolen' \subseteq Lines!Ids
    BY <1>0 DEF LinesInv, LinesTypes, ValuesType, NotesType
  <2>2. lineUnsaved' \subseteq Lines!Ids
    BY <1>0, <1>2 DEF LinesInv, LinesTypes, PatchesType, NotesType
  <2> QED
    BY <1>0, <1>2, <2>1, <2>2 DEF LinesInv, LinesTypes, NotesType
<1>12. FlagsFit'
  BY <1>0 DEF LinesInv, FlagsFit
<1>13. InStep' => l.ids = Lines!Of(lineCondition) /\ \A i \in l.ids : l.text[i] = lineSaved[i]
  BY <1>0 DEF InStep, LinesInv, FreshLoads
<1>14. LinesShown'
  BY <1>0, <1>13 DEF LinesShown, Lines!Of
<1>15. TextsShown'
  <2> SUFFICES ASSUME InStep', NEW i \in lineItems', i \notin lineUnsaved'
               PROVE  (\A w \in linePatches' : w.id # i) /\ lineText'[i] = lineSaved'[i]
    BY DEF TextsShown
  <2> QED
    BY <1>0, <1>4, <1>13
<1>16. ValuesShown'
  <2> SUFFICES ASSUME NEW i \in lineItems', i \notin lineStolen'
               PROVE  /\ lineTimer'.id # i
                      /\ \A q \in linePreviews' : q.id = i => q.text = lineText'[i]
                      /\ \E q \in linePreviews' : q.id = i
    BY DEF ValuesShown
  <2>1. i # Lines!None /\ i \in l.ids
    BY <1>0, <1>2, LineIds
  <2> QED
    BY <1>0, <1>4, <1>6, <2>1
<1> QED
  BY <1>7, <1>8, <1>9, <1>10, <1>11, <1>12, <1>14, <1>15, <1>16 DEF LinesInv, LinesTypes

LEMMA LoadFailsLines ==
    ASSUME LinesInv, NEW l \in lineLoads, Lines!LoadFails(l)
    PROVE  LinesInv'
<1> USE DEF Lines!server, Lines!writes, Lines!values
<1>0. /\ lineLoads' = lineLoads \ {l} /\ lineLoading' = FALSE /\ lineItems' = {} /\ lineText' = Lines!Blank
      /\ lineStrayed' = TRUE /\ lineFocus' = Lines!None /\ upsets < MaxUpsets /\ upsets' = upsets + 1
      /\ UNCHANGED <<lineExists, lineOf, lineSaved, lineCondition, lineAdding, lineAdds, lineDeletingId, lineRemovals,
                     linePatches, lineTimer, linePreview, linePreviews, lineUnsaved, lineStolen, lineUntold, ops>>
  BY DEF Lines!LoadFails, Lines!Fault
<1>1. RowsType' /\ StoreType' /\ AddsType' /\ RemovalsType' /\ PatchesType' /\ ValuesType'
  BY <1>0, LineIds DEF LinesInv, LinesTypes, RowsType, StoreType, AddsType, RemovalsType, PatchesType, ValuesType, Known
<1>2. LoadsType' /\ FreshLoads'
  BY <1>0 DEF LinesInv, LinesTypes, LoadsType, FreshLoads, Known, Lines!Of
<1>3. NotesType'
  BY <1>0, SectionsAssumption DEF LinesInv, LinesTypes, NotesType
<1>4. FlagsFit' /\ ~InStep'
  BY <1>0 DEF LinesInv, FlagsFit, InStep
<1> QED
  BY <1>1, <1>2, <1>3, <1>4 DEF LinesInv, LinesTypes, LinesShown, TextsShown, ValuesShown

-----------------------------------------------------------------------------
(* The previews and the fields.                                            *)

\* Only the values shown, and the notes of them, are touched.
LEMMA ValuesOnly ==
    ASSUME LinesInv, ValuesType', NotesType', ValuesShown', UNCHANGED lineUnsaved, UNCHANGED lineUntold,
           UNCHANGED lineStrayed, lineTimer'.id \in {lineTimer.id, Lines!None},
           UNCHANGED <<lineExists, lineOf, lineSaved, lineCondition, lineItems, lineText, lineLoading, lineLoads,
                       lineAdding, lineAdds, lineDeletingId, lineRemovals, linePatches, lineFocus>>
    PROVE  LinesInv'
<1>1. StoreType' /\ RowsType' /\ LoadsType' /\ AddsType' /\ RemovalsType' /\ PatchesType'
  BY DEF LinesInv, LinesTypes, StoreType, RowsType, LoadsType, AddsType, RemovalsType, PatchesType, Known
<1>2. FlagsFit' /\ FreshLoads'
  BY DEF LinesInv, FlagsFit, FreshLoads, Lines!Of
<1>3. TextsShown'
  BY DEF LinesInv, TextsShown, InStep
<1>4. LinesShown'
  <2> SUFFICES ASSUME InStep' PROVE LinesShown'
    BY DEF LinesShown
  <2>1. InStep /\ LinesShown
    BY DEF InStep, LinesInv
  <2>2. \A a \in lineAdds : a.id \in Lines!Of(lineCondition) => a.id # Lines!None
    BY LineIds DEF LinesInv, LinesTypes, StoreType, Lines!Of
  <2>3. Lines!Of(lineCondition)' = Lines!Of(lineCondition) /\ Moving' = Moving
    BY DEF Lines!Of, Moving
  <2> QED
    BY <2>1, <2>2, <2>3 DEF LinesShown
<1> QED
  BY <1>1, <1>2, <1>3, <1>4 DEF LinesInv, LinesTypes

LEMMA PreviewedStep ==
    ASSUME LinesInv, NEW q \in linePreviews, Lines!Previewed(q)
    PROVE  LinesInv'
<1> USE DEF Lines!server, Lines!rows, Lines!load, Lines!writes
<1>0. /\ linePreviews' = linePreviews \ {q} /\ linePreview' = [linePreview EXCEPT ![q.id] = q.text]
      /\ lineStolen' = IF (\E r \in linePreviews \ {q} : r.id = q.id) \/ q.by # lineOf[q.id]
                       THEN lineStolen \cup {q.id} ELSE lineStolen
      /\ UNCHANGED <<lineExists, lineOf, lineSaved, lineCondition, lineItems, lineText, lineLoading, lineLoads, lineAdding,
                     lineAdds, lineDeletingId, lineRemovals, linePatches, lineFocus, lineTimer, lineStrayed, lineUnsaved,
                     lineUntold, ops, upsets>>
  BY DEF Lines!Previewed
<1>1. q.id \in Lines!Ids /\ q.text \in 1..MaxLineOps + 1 /\ linePreview \in [Lines!Ids -> 0..MaxLineOps + 1]
  BY DEF LinesInv, LinesTypes, ValuesType, Lines!Texts
<1>2. linePreview' \in Lines!Texts
  BY <1>0, <1>1, LineIds DEF Lines!Texts
<1>3. ValuesType' /\ NotesType'
  <2>1. ValuesType'
    BY <1>0, <1>2 DEF LinesInv, LinesTypes, ValuesType, Known
  <2>2. NotesType'
    BY <1>0, <1>1 DEF LinesInv, LinesTypes, NotesType
  <2> QED
    BY <2>1, <2>2
<1>4. ValuesShown'
  <2> SUFFICES ASSUME InStep', NEW i \in lineItems', i \notin lineStolen'
               PROVE  /\ lineTimer'.id = i => lineTimer'.text = lineText'[i]
                      /\ lineTimer'.id # i => \A r \in linePreviews' : r.id = i => r.text = lineText'[i]
                      /\ lineTimer'.id # i /\ (\A r \in linePreviews' : r.id # i) => linePreview'[i] = lineText'[i]
    BY DEF ValuesShown
  <2>1. i \in Lines!Ids /\ i \in lineItems /\ i \notin lineStolen /\ InStep
    BY <1>0 DEF InStep, LinesInv, LinesTypes, RowsType
  <2>2. /\ lineTimer.id = i => lineTimer.text = lineText[i]
        /\ lineTimer.id # i => \A r \in linePreviews : r.id = i => r.text = lineText[i]
        /\ lineTimer.id # i /\ (\A r \in linePreviews : r.id # i) => linePreview[i] = lineText[i]
    BY <2>1 DEF LinesInv, ValuesShown
  <2>3. CASE q.id = i
    BY <1>0, <1>1, <2>1, <2>2, <2>3
  <2>4. CASE q.id # i
    BY <1>0, <1>1, <2>1, <2>2, <2>4
  <2> QED
    BY <2>3, <2>4
<1> QED
  BY <1>0, <1>3, <1>4, ValuesOnly

\* An earlier request for the row's value makes the value a matter of chance.
LEMMA TimerFiresStep ==
    ASSUME LinesInv, Lines!TimerFires
    PROVE  LinesInv'
<1> USE DEF Lines!server, Lines!rows, Lines!load, Lines!writes
<1> DEFINE ask == [id |-> lineTimer.id, text |-> lineTimer.text, by |-> FirstCondition]
<1>0. /\ lineTimer # Lines!NoTimer /\ lineTimer' = Lines!NoTimer /\ linePreviews' = linePreviews \cup {ask}
      /\ lineStolen' = IF \E q \in linePreviews : q.id = lineTimer.id THEN lineStolen \cup {lineTimer.id} ELSE lineStolen
      /\ UNCHANGED <<lineExists, lineOf, lineSaved, lineCondition, lineItems, lineText, lineLoading, lineLoads, lineAdding,
                     lineAdds, lineDeletingId, lineRemovals, linePatches, lineFocus, linePreview, lineStrayed, lineUnsaved,
                     lineUntold, ops, upsets>>
  BY DEF Lines!TimerFires
<1>1. lineTimer.id \in Lines!Ids /\ lineTimer.text \in 1..MaxLineOps + 1
  BY <1>0, LineIds DEF LinesInv, LinesTypes, ValuesType
<1>2. ask \in [id : Lines!Ids, text : 1..MaxLineOps + 1, by : Conditions] /\ ask.id = lineTimer.id /\ ask.text = lineTimer.text
  BY <1>1, SectionsAssumption
<1> HIDE DEF ask
<1>3. Lines!NoTimer \in [id : Lines!Ids \cup {Lines!None}, text : 0..MaxLineOps + 1] /\ Lines!NoTimer.id = Lines!None
  BY LineIds DEF Lines!NoTimer
<1>4. ValuesType' /\ NotesType'
  <2>1. ValuesType'
    BY <1>0, <1>2, <1>3 DEF LinesInv, LinesTypes, ValuesType, Known
  <2>2. NotesType'
    BY <1>0, <1>1 DEF LinesInv, LinesTypes, NotesType
  <2> QED
    BY <2>1, <2>2
<1>5. ValuesShown'
  <2> SUFFICES ASSUME InStep', NEW i \in lineItems', i \notin lineStolen'
               PROVE  /\ lineTimer'.id # i
                      /\ \A r \in linePreviews' : r.id = i => r.text = lineText'[i]
                      /\ (\A r \in linePreviews' : r.id # i) => linePreview'[i] = lineText'[i]
    BY DEF ValuesShown
  <2>1. i \in Lines!Ids /\ i \in lineItems /\ i \notin lineStolen /\ InStep
    BY <1>0 DEF InStep, LinesInv, LinesTypes, RowsType
  <2>2. /\ lineTimer.id = i => lineTimer.text = lineText[i]
        /\ lineTimer.id # i => \A r \in linePreviews : r.id = i => r.text = lineText[i]
        /\ lineTimer.id # i /\ (\A r \in linePreviews : r.id # i) => linePreview[i] = lineText[i]
    BY <2>1 DEF LinesInv, ValuesShown
  <2>3. lineTimer'.id # i
    BY <1>0, <1>3, <2>1, LineIds
  <2>4. CASE lineTimer.id = i
    BY <1>0, <1>2, <2>2, <2>3, <2>4
  <2>5. CASE lineTimer.id # i
    BY <1>0, <1>2, <2>2, <2>3, <2>5
  <2> QED
    BY <2>4, <2>5
<1> QED
  BY <1>0, <1>3, <1>4, <1>5, ValuesOnly

LEMMA TypeStep ==
    ASSUME LinesInv, NEW i \in lineItems, Lines!Type(i)
    PROVE  LinesInv'
<1> USE DEF Lines!server, Lines!load, Lines!writes, Lines!values
<1> DEFINE typed == [id |-> i, text |-> ops + 2]
<1>0. /\ i # lineDeletingId /\ lineFocus \in {Lines!None, i} /\ ops < MaxLineOps /\ ops' = ops + 1
      /\ lineFocus' = i /\ lineText' = [lineText EXCEPT ![i] = ops + 2] /\ lineTimer' = typed
      /\ lineStolen' = lineStolen \cup ({lineTimer.id} \ {Lines!None, i})
      /\ UNCHANGED <<lineExists, lineOf, lineSaved, lineCondition, lineItems, lineLoading, lineLoads, lineAdding, lineAdds,
                     lineDeletingId, lineRemovals, linePatches, linePreview, linePreviews, lineStrayed, lineUnsaved,
                     lineUntold, upsets>>
  BY DEF Lines!Type, Lines!Row, Lines!Op
<1>1. i \in Lines!Ids /\ i # Lines!None /\ Known(i) /\ lineText \in [Lines!Ids -> 0..MaxLineOps + 1] /\ lineItems \subseteq Lines!Ids
  BY LineIds DEF LinesInv, LinesTypes, RowsType, Lines!Texts
<1>2. ops + 2 \in 1..MaxLineOps + 1 /\ ops + 2 # 0 /\ ops' \in 0..MaxLineOps /\ ops + 2 \in 0..MaxLineOps + 1
  BY <1>0, LineIds DEF LinesInv, LinesTypes, NotesType
<1>3. lineText' \in Lines!Texts /\ lineText'[i] = ops + 2 /\ \A j \in lineItems : j # i => lineText'[j] = lineText[j]
  BY <1>0, <1>1, <1>2 DEF Lines!Texts
<1>4. typed \in [id : Lines!Ids \cup {Lines!None}, text : 0..MaxLineOps + 1] /\ typed.id = i /\ typed.text = ops + 2
  BY <1>1, <1>2
<1> HIDE DEF typed
<1>5. RowsType'
  BY <1>0, <1>1, <1>2, <1>3 DEF LinesInv, LinesTypes, RowsType, Known
<1>6. ValuesType'
  BY <1>0, <1>1, <1>2, <1>4 DEF LinesInv, LinesTypes, ValuesType, Known
<1>7. NotesType'
  BY <1>0, <1>2 DEF LinesInv, LinesTypes, NotesType, ValuesType
<1>8. StoreType' /\ LoadsType' /\ AddsType' /\ RemovalsType' /\ PatchesType'
  BY <1>0 DEF LinesInv, LinesTypes, StoreType, LoadsType, AddsType, RemovalsType, PatchesType, Known
<1>9. FlagsFit'
  BY <1>0 DEF LinesInv, FlagsFit
<1>10. FreshLoads'
  BY <1>0 DEF LinesInv, FreshLoads, Lines!Of
<1>11. InStep' => InStep
  BY <1>0 DEF InStep
<1>12. LinesShown'
  <2> SUFFICES ASSUME InStep' PROVE LinesShown'
    BY DEF LinesShown
  <2>1. LinesShown /\ InStep
    BY <1>11 DEF LinesInv
  <2>2. Lines!Of(lineCondition)' = Lines!Of(lineCondition) /\ Moving' = Moving
    BY <1>0 DEF Lines!Of, Moving
  <2> QED
    BY <1>0, <1>4, <2>1, <2>2 DEF LinesShown
<1>13. TextsShown'
  <2> SUFFICES ASSUME InStep', NEW j \in lineItems', j \notin lineUnsaved', j # lineFocus'
               PROVE  /\ \A w, v \in linePatches' : w.id = j /\ v.id = j => w = v
                      /\ (\A w \in linePatches' : w.id # j) => lineText'[j] = lineSaved'[j]
                      /\ \A w \in linePatches' : w.id = j => lineText'[j] = w.text /\ (w.served => lineSaved'[j] = w.text)
    BY DEF TextsShown
  <2>1. j \in lineItems \ (lineUnsaved \cup {lineFocus}) /\ j # i /\ InStep
    BY <1>0, <1>1, <1>11, LineIds
  <2>2. lineText'[j] = lineText[j]
    BY <1>3, <2>1
  <2> QED
    BY <1>0, <2>1, <2>2 DEF LinesInv, TextsShown
<1>14. ValuesShown'
  <2> SUFFICES ASSUME InStep', NEW j \in lineItems', j \notin lineStolen'
               PROVE  /\ lineTimer'.id = j => lineTimer'.text = lineText'[j]
                      /\ lineTimer'.id # j => \A q \in linePreviews' : q.id = j => q.text = lineText'[j]
                      /\ lineTimer'.id # j /\ (\A q \in linePreviews' : q.id # j) => linePreview'[j] = lineText'[j]
    BY DEF ValuesShown
  <2>1. CASE j = i
    BY <1>0, <1>3, <1>4, <2>1
  <2>2. CASE j # i
    <3>1. j \in lineItems \ lineStolen /\ InStep /\ lineTimer.id # j /\ lineText'[j] = lineText[j] /\ lineTimer'.id # j
      BY <1>0, <1>1, <1>3, <1>4, <1>11, <2>2, LineIds
    <3> QED
      BY <1>0, <3>1 DEF LinesInv, ValuesShown
  <2> QED
    BY <2>1, <2>2
<1> QED
  BY <1>5, <1>6, <1>7, <1>8, <1>9, <1>10, <1>12, <1>13, <1>14 DEF LinesInv, LinesTypes

\* A patch of the same line that is still on its way may come after this one.
LEMMA LeaveStep ==
    ASSUME LinesInv, Lines!Leave
    PROVE  LinesInv'
<1> USE DEF Lines!server, Lines!rows, Lines!load, Lines!values
<1> DEFINE patch == [id |-> lineFocus, text |-> lineText[lineFocus], served |-> FALSE]
<1>0. /\ lineFocus # Lines!None /\ lineFocus \in lineItems /\ lineFocus' = Lines!None
      /\ linePatches' = linePatches \cup {patch}
      /\ lineUnsaved' = IF \E w \in linePatches : w.id = lineFocus THEN lineUnsaved \cup {lineFocus} ELSE lineUnsaved
      /\ UNCHANGED <<lineExists, lineOf, lineSaved, lineCondition, lineItems, lineText, lineLoading, lineLoads, lineAdding,
                     lineAdds, lineDeletingId, lineRemovals, lineTimer, linePreview, linePreviews, lineStrayed, lineStolen,
                     lineUntold, ops, upsets>>
  BY DEF Lines!Leave, Lines!Left, Lines!Row
<1>1. /\ lineFocus \in Lines!Ids /\ Known(lineFocus) /\ lineText[lineFocus] # 0 /\ lineItems \subseteq Lines!Ids
      /\ lineText \in [Lines!Ids -> 0..MaxLineOps + 1]
  BY <1>0 DEF LinesInv, LinesTypes, RowsType, Lines!Texts
<1>2. lineText[lineFocus] \in 1..MaxLineOps + 1
  BY <1>1, LineIds
<1>3. /\ patch \in [id : Lines!Ids, text : 1..MaxLineOps + 1, served : BOOLEAN]
      /\ patch.id = lineFocus /\ patch.text = lineText[lineFocus] /\ patch.served = FALSE
  BY <1>1, <1>2
<1> HIDE DEF patch
<1>4. PatchesType'
  BY <1>0, <1>1, <1>3 DEF LinesInv, LinesTypes, PatchesType, Known
<1>5. NotesType'
  BY <1>0, <1>1 DEF LinesInv, LinesTypes, NotesType
<1>6. StoreType' /\ RowsType' /\ LoadsType' /\ AddsType' /\ RemovalsType' /\ ValuesType'
  BY <1>0 DEF LinesInv, LinesTypes, StoreType, RowsType, LoadsType, AddsType, RemovalsType, ValuesType, Known
<1>7. FlagsFit'
  BY <1>0 DEF LinesInv, FlagsFit
<1>8. FreshLoads'
  BY <1>0 DEF LinesInv, FreshLoads, Lines!Of
<1>9. ValuesShown'
  BY <1>0 DEF LinesInv, ValuesShown, InStep
<1>10. LinesShown'
  <2> SUFFICES ASSUME InStep' PROVE LinesShown'
    BY DEF LinesShown
  <2>1. LinesShown /\ InStep
    BY <1>0 DEF InStep, LinesInv
  <2>2. Lines!Of(lineCondition)' = Lines!Of(lineCondition) /\ Moving' = Moving
    BY <1>0 DEF Lines!Of, Moving
  <2> QED
    BY <1>0, <1>3, <2>1, <2>2 DEF LinesShown
<1>11. TextsShown'
  <2> SUFFICES ASSUME InStep', NEW j \in lineItems', j \notin lineUnsaved'
               PROVE  /\ \A w, v \in linePatches' : w.id = j /\ v.id = j => w = v
                      /\ (\A w \in linePatches' : w.id # j) => lineText'[j] = lineSaved'[j]
                      /\ \A w \in linePatches' : w.id = j => lineText'[j] = w.text /\ (w.served => lineSaved'[j] = w.text)
    BY DEF TextsShown
  <2>1. InStep /\ j \in lineItems /\ j \notin lineUnsaved
    BY <1>0 DEF InStep
  <2>2. CASE j = lineFocus
    <3>1. \A w \in linePatches : w.id # j
      BY <1>0, <2>2
    <3> QED
      BY <1>0, <1>3, <2>2, <3>1
  <2>3. CASE j # lineFocus
    BY <1>0, <1>3, <2>1, <2>3 DEF LinesInv, TextsShown
  <2> QED
    BY <2>2, <2>3
<1> QED
  BY <1>4, <1>5, <1>6, <1>7, <1>8, <1>9, <1>10, <1>11 DEF LinesInv, LinesTypes

LEMMA ServePatchStep ==
    ASSUME LinesInv, NEW w \in linePatches, Lines!ServePatch(w)
    PROVE  LinesInv'
<1> USE DEF Lines!rows, Lines!values, Lines!notes
<1> DEFINE done == [w EXCEPT !.served = TRUE]
<1>0. /\ ~w.served /\ w.id \in lineExists /\ linePatches' = (linePatches \ {w}) \cup {done}
      /\ lineSaved' = [lineSaved EXCEPT ![w.id] = w.text] /\ lineLoads' = Lines!Aged
      /\ UNCHANGED <<lineExists, lineOf, lineCondition, lineItems, lineText, lineLoading, lineAdding, lineAdds,
                     lineDeletingId, lineRemovals, lineFocus, lineTimer, linePreview, linePreviews, lineStrayed,
                     lineUnsaved, lineStolen, lineUntold, ops, upsets>>
  BY DEF Lines!ServePatch
<1>1. /\ w \in [id : Lines!Ids, text : 1..MaxLineOps + 1, served : BOOLEAN] /\ Known(w.id)
      /\ lineSaved \in [Lines!Ids -> 0..MaxLineOps + 1] /\ lineItems \subseteq Lines!Ids
  BY DEF LinesInv, LinesTypes, PatchesType, StoreType, RowsType, Lines!Texts
<1>2. /\ done \in [id : Lines!Ids, text : 1..MaxLineOps + 1, served : BOOLEAN]
      /\ done.id = w.id /\ done.text = w.text /\ done.served = TRUE
  BY <1>1
<1> HIDE DEF done
<1>3. w.text \in 0..MaxLineOps + 1 /\ w.text # 0 /\ w.id \in Lines!Ids
  BY <1>1, LineIds
<1>4. /\ lineSaved' \in Lines!Texts /\ lineSaved'[w.id] = w.text
      /\ \A i \in Lines!Ids : i # w.id => lineSaved'[i] = lineSaved[i]
  BY <1>0, <1>1, <1>3 DEF Lines!Texts
<1>5. \A i : Known(i) => Known(i)'
  BY <1>0, <1>1, <1>3 DEF Known
<1>6. LoadsType' /\ FreshLoads' /\ (lineLoads' = {} <=> lineLoads = {})
  BY <1>0, <1>5, AgedLoads DEF LinesInv, LinesTypes
<1>7. StoreType'
  BY <1>0, <1>4, <1>5 DEF LinesInv, LinesTypes, StoreType
<1>8. RowsType' /\ AddsType' /\ RemovalsType'
  BY <1>0, <1>5 DEF LinesInv, LinesTypes, RowsType, AddsType, RemovalsType
<1>9. PatchesType'
  BY <1>0, <1>1, <1>2, <1>5 DEF LinesInv, LinesTypes, PatchesType
<1>10. ValuesType' /\ NotesType'
  BY <1>0, <1>5 DEF LinesInv, LinesTypes, ValuesType, NotesType
<1>11. FlagsFit'
  BY <1>0, <1>6 DEF LinesInv, FlagsFit
<1>12. InStep' => InStep
  BY <1>0, <1>6 DEF InStep
<1>13. ValuesShown'
  BY <1>0, <1>12 DEF LinesInv, ValuesShown
<1>14. LinesShown'
  <2> SUFFICES ASSUME InStep' PROVE LinesShown'
    BY DEF LinesShown
  <2>1. LinesShown /\ InStep
    BY <1>12 DEF LinesInv
  <2>2. Lines!Of(lineCondition)' = Lines!Of(lineCondition) /\ Moving' = Moving
    BY <1>0 DEF Lines!Of, Moving
  <2>3. Lines!Of(lineCondition) \subseteq Lines!Ids
    BY DEF Lines!Of, LinesInv, LinesTypes, StoreType
  <2>4. ASSUME NEW a \in lineAdds, a.id \in Lines!Of(lineCondition) \ lineItems
        PROVE  lineSaved'[a.id] = 1 /\ a.id # lineTimer'.id /\ \A v \in linePatches' : v.id # a.id
    <3>1. lineSaved[a.id] = 1 /\ a.id # lineTimer.id /\ \A v \in linePatches : v.id # a.id
      BY <2>1, <2>4 DEF LinesShown
    <3>2. a.id # w.id /\ a.id \in Lines!Ids
      BY <2>3, <2>4, <3>1
    <3> QED
      BY <1>0, <1>2, <1>4, <3>1, <3>2
  <2> QED
    BY <1>0, <2>1, <2>2, <2>4 DEF LinesShown
<1>15. TextsShown'
  <2> SUFFICES ASSUME InStep', NEW j \in lineItems', j \notin lineUnsaved', j # lineFocus'
               PROVE  /\ \A u, v \in linePatches' : u.id = j /\ v.id = j => u = v
                      /\ (\A u \in linePatches' : u.id # j) => lineText'[j] = lineSaved'[j]
                      /\ \A u \in linePatches' : u.id = j => lineText'[j] = u.text /\ (u.served => lineSaved'[j] = u.text)
    BY DEF TextsShown
  <2>1. j \in lineItems \ (lineUnsaved \cup {lineFocus}) /\ InStep /\ j \in Lines!Ids
    BY <1>0, <1>1, <1>12
  <2>2. /\ \A u, v \in linePatches : u.id = j /\ v.id = j => u = v
        /\ (\A u \in linePatches : u.id # j) => lineText[j] = lineSaved[j]
        /\ \A u \in linePatches : u.id = j => lineText[j] = u.text /\ (u.served => lineSaved[j] = u.text)
    BY <2>1 DEF LinesInv, TextsShown
  <2>3. CASE j = w.id
    <3>1. \A u \in linePatches' : u.id = j => u = done
      BY <1>0, <2>2, <2>3
    <3>2. done \in linePatches' /\ lineText[j] = w.text
      BY <1>0, <2>2, <2>3
    <3> QED
      BY <1>0, <1>2, <1>4, <2>3, <3>1, <3>2
  <2>4. CASE j # w.id
    <3>1. \A u : u.id = j => (u \in linePatches' <=> u \in linePatches)
      BY <1>0, <1>2, <2>4
    <3>2. lineSaved'[j] = lineSaved[j] /\ lineText'[j] = lineText[j]
      BY <1>0, <1>4, <2>1, <2>4
    <3> QED
      BY <2>2, <3>1, <3>2
  <2> QED
    BY <2>3, <2>4
<1> QED
  BY <1>6, <1>7, <1>8, <1>9, <1>10, <1>11, <1>13, <1>14, <1>15 DEF LinesInv, LinesTypes

LEMMA PatchedStep ==
    ASSUME LinesInv, NEW w \in linePatches, Lines!Patched(w)
    PROVE  LinesInv'
<1> USE DEF Lines!server, Lines!rows, Lines!load, Lines!values
<1>0. /\ linePatches' = linePatches \ {w}
      /\ IF w.served THEN UNCHANGED <<lineUnsaved, upsets>>
         ELSE upsets' \in 0..MaxUpsets /\ lineUnsaved' = lineUnsaved \cup {w.id}
      /\ UNCHANGED <<lineExists, lineOf, lineSaved, lineCondition, lineItems, lineText, lineLoading, lineLoads, lineAdding,
                     lineAdds, lineDeletingId, lineRemovals, lineFocus, lineTimer, linePreview, linePreviews, lineStrayed,
                     lineStolen, lineUntold, ops>>
  BY SectionsAssumption DEF Lines!Patched, Lines!Fault, LinesInv, LinesTypes, NotesType
<1>1. w.id \in Lines!Ids
  BY DEF LinesInv, LinesTypes, PatchesType
<1>2. NotesType' /\ PatchesType'
  <2>1. NotesType'
    BY <1>0, <1>1 DEF LinesInv, LinesTypes, NotesType
  <2>2. PatchesType'
    BY <1>0 DEF LinesInv, LinesTypes, PatchesType, Known
  <2> QED
    BY <2>1, <2>2
<1>3. StoreType' /\ RowsType' /\ LoadsType' /\ AddsType' /\ RemovalsType' /\ ValuesType'
  BY <1>0 DEF LinesInv, LinesTypes, StoreType, RowsType, LoadsType, AddsType, RemovalsType, ValuesType, Known
<1>4. FlagsFit'
  BY <1>0 DEF LinesInv, FlagsFit
<1>5. FreshLoads' /\ ValuesShown'
  BY <1>0 DEF LinesInv, FreshLoads, Lines!Of, ValuesShown, InStep
<1>6. LinesShown'
  <2> SUFFICES ASSUME InStep' PROVE LinesShown'
    BY DEF LinesShown
  <2>1. LinesShown /\ InStep
    BY <1>0 DEF InStep, LinesInv
  <2>2. Lines!Of(lineCondition)' = Lines!Of(lineCondition) /\ Moving' = Moving
    BY <1>0 DEF Lines!Of, Moving
  <2> QED
    BY <1>0, <2>1, <2>2 DEF LinesShown
<1>7. TextsShown'
  <2> SUFFICES ASSUME InStep', NEW j \in lineItems', j \notin lineUnsaved', j # lineFocus'
               PROVE  /\ \A u, v \in linePatches' : u.id = j /\ v.id = j => u = v
                      /\ (\A u \in linePatches' : u.id # j) => lineText'[j] = lineSaved'[j]
                      /\ \A u \in linePatches' : u.id = j => lineText'[j] = u.text /\ (u.served => lineSaved'[j] = u.text)
    BY DEF TextsShown
  <2>1. j \in lineItems \ (lineUnsaved \cup {lineFocus}) /\ InStep
    BY <1>0 DEF InStep
  <2>2. /\ \A u, v \in linePatches : u.id = j /\ v.id = j => u = v
        /\ (\A u \in linePatches : u.id # j) => lineText[j] = lineSaved[j]
        /\ \A u \in linePatches : u.id = j => lineText[j] = u.text /\ (u.served => lineSaved[j] = u.text)
    BY <2>1 DEF LinesInv, TextsShown
  <2>3. CASE j = w.id
    <3>1. w.served
      BY <1>0, <2>3
    <3> QED
      BY <1>0, <2>2, <2>3, <3>1
  <2>4. CASE j # w.id
    BY <1>0, <2>2, <2>4
  <2> QED
    BY <2>3, <2>4
<1> QED
  BY <1>2, <1>3, <1>4, <1>5, <1>6, <1>7 DEF LinesInv, LinesTypes

-----------------------------------------------------------------------------
(* Lines added.                                                            *)

LEMMA AddItemStep ==
    ASSUME LinesInv, Lines!addItem
    PROVE  LinesInv'
<1> USE DEF Lines!server, Lines!rows, Lines!load, Lines!values, Lines!notes
<1> DEFINE new == [of |-> lineCondition, id |-> Lines!None]
<1>0. /\ ~lineAdding /\ lineAdding' = TRUE /\ lineAdds' = lineAdds \cup {new} /\ ops < MaxLineOps /\ ops' = ops + 1
      /\ UNCHANGED <<lineExists, lineOf, lineSaved, lineCondition, lineItems, lineText, lineLoading, lineLoads,
                     lineDeletingId, lineRemovals, linePatches, lineFocus, lineTimer, linePreview, linePreviews,
                     lineStrayed, lineUnsaved, lineStolen, lineUntold, upsets>>
  BY DEF Lines!addItem, Lines!Op
<1>1. new \in [of : Conditions, id : Lines!Ids \cup {Lines!None}] /\ new.id = Lines!None
  BY DEF LinesInv, LinesTypes, RowsType
<1> HIDE DEF new
<1>2. lineAdds = {} /\ lineAdds' = {new}
  BY <1>0 DEF LinesInv, FlagsFit
<1>3. AddsType'
  BY <1>0, <1>1, <1>2 DEF AddsType
<1>4. NotesType'
  BY <1>0, LineIds DEF LinesInv, LinesTypes, NotesType
<1>5. StoreType' /\ RowsType' /\ LoadsType' /\ RemovalsType' /\ PatchesType' /\ ValuesType'
  BY <1>0 DEF LinesInv, LinesTypes, StoreType, RowsType, LoadsType, RemovalsType, PatchesType, ValuesType, Known
<1>6. FlagsFit'
  BY <1>0, <1>2 DEF LinesInv, FlagsFit
<1>7. FreshLoads' /\ ValuesShown' /\ TextsShown'
  BY <1>0 DEF LinesInv, FreshLoads, Lines!Of, ValuesShown, TextsShown, InStep
<1>8. LinesShown'
  <2> SUFFICES ASSUME InStep' PROVE LinesShown'
    BY DEF LinesShown
  <2>1. LinesShown /\ InStep
    BY <1>0 DEF InStep, LinesInv
  <2>2. Lines!Of(lineCondition)' = Lines!Of(lineCondition) /\ Lines!Of(lineCondition) \subseteq Lines!Ids
    BY <1>0 DEF Lines!Of, LinesInv, LinesTypes, StoreType
  <2>3. Moving' = Moving \cup {Lines!None} /\ Lines!None \notin Lines!Ids
    BY <1>0, <1>1, <1>2, LineIds DEF Moving
  <2> QED
    BY <1>0, <1>1, <1>2, <2>1, <2>2, <2>3 DEF LinesShown
<1> QED
  BY <1>3, <1>4, <1>5, <1>6, <1>7, <1>8 DEF LinesInv, LinesTypes

\* The new line's id was never used, so that nothing on the screen is about it.
LEMMA ServeAddStep ==
    ASSUME LinesInv, NEW a \in lineAdds, Lines!ServeAdd(a)
    PROVE  LinesInv'
<1> USE DEF Lines!rows, Lines!values, Lines!notes
<1>1. PICK i \in Lines!Ids \ lineExists :
          /\ lineSaved[i] = 0 /\ lineExists' = lineExists \cup {i} /\ lineSaved' = [lineSaved EXCEPT ![i] = 1]
          /\ lineOf' = [lineOf EXCEPT ![i] = a.of] /\ lineAdds' = (lineAdds \ {a}) \cup {[a EXCEPT !.id = i]}
  BY DEF Lines!ServeAdd
<1> DEFINE b == [a EXCEPT !.id = i]
<1>0. /\ a.id = Lines!None /\ lineLoads' = Lines!Aged
      /\ UNCHANGED <<lineCondition, lineItems, lineText, lineLoading, lineAdding, lineDeletingId, lineRemovals,
                     linePatches, lineFocus, lineTimer, linePreview, linePreviews, lineStrayed, lineUnsaved, lineStolen,
                     lineUntold, ops, upsets>>
  BY DEF Lines!ServeAdd, Lines!Rest
<1>2. /\ a \in [of : Conditions, id : Lines!Ids \cup {Lines!None}] /\ \A c \in lineAdds : a = c
      /\ lineSaved \in [Lines!Ids -> 0..MaxLineOps + 1] /\ lineOf \in [Lines!Ids -> Conditions]
  BY DEF LinesInv, LinesTypes, AddsType, StoreType, FlagsFit, Lines!Texts
<1>3. b \in [of : Conditions, id : Lines!Ids \cup {Lines!None}] /\ b.id = i /\ b.of = a.of
  BY <1>2
<1>4. lineAdds' = {b} /\ lineAdds = {a}
  BY <1>1, <1>2
<1> HIDE DEF b
<1>5. /\ lineSaved' \in Lines!Texts /\ lineSaved'[i] = 1 /\ \A j \in Lines!Ids : j # i => lineSaved'[j] = lineSaved[j]
      /\ lineOf' \in [Lines!Ids -> Conditions] /\ lineOf'[i] = a.of /\ \A j \in Lines!Ids : j # i => lineOf'[j] = lineOf[j]
  BY <1>1, <1>2, LineIds DEF Lines!Texts
<1>6. ~Known(i) /\ Known(i)' /\ \A j : Known(j) => Known(j)'
  BY <1>1, <1>2, <1>5 DEF Known
<1>7. LoadsType' /\ FreshLoads' /\ (lineLoads' = {} <=> lineLoads = {})
  BY <1>0, <1>6, AgedLoads DEF LinesInv, LinesTypes
<1>8. StoreType'
  BY <1>1, <1>5, <1>6 DEF LinesInv, LinesTypes, StoreType
<1>9. RowsType' /\ PatchesType' /\ ValuesType' /\ NotesType'
  BY <1>0, <1>6 DEF LinesInv, LinesTypes, RowsType, PatchesType, ValuesType, NotesType
<1>10. RemovalsType'
  BY <1>0, <1>1, <1>6 DEF LinesInv, LinesTypes, RemovalsType
<1>11. AddsType'
  BY <1>0, <1>3, <1>4, <1>5, <1>6 DEF LinesInv, LinesTypes, AddsType
<1>12. FlagsFit'
  BY <1>0, <1>4, <1>7 DEF LinesInv, FlagsFit
<1>13. InStep' => InStep
  BY <1>0, <1>7 DEF InStep
<1>14. i \notin lineItems /\ lineItems \subseteq Lines!Ids
  BY <1>6 DEF LinesInv, LinesTypes, RowsType
<1>15. ValuesShown'
  BY <1>0, <1>13 DEF LinesInv, ValuesShown
<1>16. TextsShown'
  <2> SUFFICES ASSUME InStep', NEW j \in lineItems', j \notin lineUnsaved', j # lineFocus'
               PROVE  /\ \A u, v \in linePatches' : u.id = j /\ v.id = j => u = v
                      /\ (\A u \in linePatches' : u.id # j) => lineText'[j] = lineSaved'[j]
                      /\ \A u \in linePatches' : u.id = j => lineText'[j] = u.text /\ (u.served => lineSaved'[j] = u.text)
    BY DEF TextsShown
  <2>1. j \in lineItems \ (lineUnsaved \cup {lineFocus}) /\ InStep /\ lineSaved'[j] = lineSaved[j]
    BY <1>0, <1>5, <1>13, <1>14
  <2> QED
    BY <1>0, <2>1 DEF LinesInv, TextsShown
<1>17. LinesShown'
  <2> SUFFICES ASSUME InStep' PROVE LinesShown'
    BY DEF LinesShown
  <2>1. LinesShown /\ InStep
    BY <1>13 DEF LinesInv
  <2>2. \A j \in Lines!Ids : j # i => (j \in Lines!Of(lineCondition)' <=> j \in Lines!Of(lineCondition))
    BY <1>0, <1>1, <1>5 DEF Lines!Of
  <2>3. Moving' = (Moving \ {Lines!None}) \cup {i} \/ Moving' = Moving \cup {i}
    <3>1. Moving' = {i} \cup {d.id : d \in lineRemovals}
      BY <1>0, <1>3, <1>4 DEF Moving
    <3>2. Moving = {Lines!None} \cup {d.id : d \in lineRemovals}
      BY <1>0, <1>4 DEF Moving
    <3>3. Lines!None \notin {d.id : d \in lineRemovals}
      BY LineIds DEF LinesInv, LinesTypes, RemovalsType
    <3> QED
      BY <3>1, <3>2, <3>3
  <2>4. Lines!None \notin Lines!Ids
    BY LineIds
  <2>5. \A j \in Lines!Ids \ (lineUntold' \cup Moving') : j \in lineItems' <=> j \in Lines!Of(lineCondition)'
    BY <1>0, <2>1, <2>2, <2>3, <2>4 DEF LinesShown
  <2>6. i # lineTimer.id /\ \A w \in linePatches : w.id # i
    BY <1>6, LineIds DEF LinesInv, LinesTypes, ValuesType, PatchesType, Lines!NoTimer
  <2> QED
    BY <1>0, <1>3, <1>4, <1>5, <2>5, <2>6 DEF LinesShown
<1> QED
  BY <1>7, <1>8, <1>9, <1>10, <1>11, <1>12, <1>15, <1>16, <1>17 DEF LinesInv, LinesTypes

\* The row is of the condition on the screen, and new there; otherwise the lines stray.
LEMMA AddedStep ==
    ASSUME LinesInv, NEW a \in lineAdds, Lines!Added(a)
    PROVE  LinesInv'
<1> USE DEF Lines!server, Lines!load
<1> DEFINE ask == [id |-> a.id, text |-> 1, by |-> a.of]
<1>0. /\ a.id # Lines!None /\ lineAdds' = lineAdds \ {a} /\ lineAdding' = FALSE
      /\ lineItems' = lineItems \cup {a.id} /\ lineText' = [lineText EXCEPT ![a.id] = 1]
      /\ linePreviews' = linePreviews \cup {ask}
      /\ lineStrayed' = (lineStrayed \/ a.of # lineCondition \/ a.id \in lineItems \/ a.id \notin lineExists)
      /\ lineStolen' = IF a.id \in lineItems \cup {q.id : q \in linePreviews} THEN lineStolen \cup {a.id} ELSE lineStolen
      /\ lineUnsaved' = IF a.id \in lineItems THEN lineUnsaved \cup {a.id} ELSE lineUnsaved
      /\ UNCHANGED <<lineExists, lineOf, lineSaved, lineCondition, lineLoading, lineLoads, lineDeletingId, lineRemovals,
                     linePatches, lineFocus, lineTimer, linePreview, lineUntold, ops, upsets>>
  BY DEF Lines!Added, Lines!Rest
<1>1. /\ a.id \in Lines!Ids /\ a.of \in Conditions /\ Known(a.id) /\ lineOf[a.id] = a.of /\ lineAdds = {a}
      /\ lineText \in [Lines!Ids -> 0..MaxLineOps + 1] /\ lineItems \subseteq Lines!Ids
  BY <1>0 DEF LinesInv, LinesTypes, AddsType, RowsType, FlagsFit, Lines!Texts
<1>2. lineAdds' = {}
  BY <1>0, <1>1
<1>3. 1 \in 0..MaxLineOps + 1 /\ 1 \in 1..MaxLineOps + 1
  BY LineIds
<1>4. ask \in [id : Lines!Ids, text : 1..MaxLineOps + 1, by : Conditions] /\ ask.id = a.id /\ ask.text = 1
  BY <1>1, <1>3
<1> HIDE DEF ask
<1>5. lineText' \in Lines!Texts /\ lineText'[a.id] = 1 /\ \A j \in Lines!Ids : j # a.id => lineText'[j] = lineText[j]
  BY <1>0, <1>1, <1>3 DEF Lines!Texts
<1>6. RowsType'
  BY <1>0, <1>1, <1>5 DEF LinesInv, LinesTypes, RowsType, Known
<1>7. AddsType'
  BY <1>0, <1>2 DEF AddsType
<1>8. ValuesType'
  BY <1>0, <1>4 DEF LinesInv, LinesTypes, ValuesType, Known
<1>9. NotesType'
  BY <1>0, <1>1 DEF LinesInv, LinesTypes, NotesType, StoreType, RowsType
<1>10. StoreType' /\ LoadsType' /\ RemovalsType' /\ PatchesType'
  BY <1>0 DEF LinesInv, LinesTypes, StoreType, LoadsType, RemovalsType, PatchesType, Known
<1>11. FlagsFit'
  BY <1>0, <1>2 DEF LinesInv, FlagsFit
<1>12. FreshLoads'
  BY <1>0 DEF LinesInv, FreshLoads, Lines!Of
<1>13. ASSUME InStep'
       PROVE  /\ InStep /\ a.id \notin lineItems /\ a.id \in Lines!Of(lineCondition)
              /\ lineSaved[a.id] = 1 /\ a.id # lineTimer.id /\ \A w \in linePatches : w.id # a.id
  <2>1. InStep /\ a.of = lineCondition /\ a.id \notin lineItems /\ a.id \in lineExists
    BY <1>0, <1>13 DEF InStep
  <2>2. a.id \in Lines!Of(lineCondition)
    BY <1>1, <2>1 DEF Lines!Of
  <2> QED
    BY <2>1, <2>2 DEF LinesInv, LinesShown
<1>14. LinesShown'
  <2> SUFFICES ASSUME InStep' PROVE LinesShown'
    BY DEF LinesShown
  <2>1. LinesShown /\ InStep /\ a.id \in Lines!Of(lineCondition)
    BY <1>13 DEF LinesInv
  <2>2. Lines!Of(lineCondition)' = Lines!Of(lineCondition)
    BY <1>0 DEF Lines!Of
  <2>3. Moving = Moving' \cup {a.id}
    BY <1>0, <1>1, <1>2 DEF Moving
  <2> QED
    BY <1>0, <1>2, <2>1, <2>2, <2>3 DEF LinesShown
<1>15. TextsShown'
  <2> SUFFICES ASSUME InStep', NEW j \in lineItems', j \notin lineUnsaved', j # lineFocus'
               PROVE  /\ \A u, v \in linePatches' : u.id = j /\ v.id = j => u = v
                      /\ (\A u \in linePatches' : u.id # j) => lineText'[j] = lineSaved'[j]
                      /\ \A u \in linePatches' : u.id = j => lineText'[j] = u.text /\ (u.served => lineSaved'[j] = u.text)
    BY DEF TextsShown
  <2>1. CASE j = a.id
    BY <1>0, <1>5, <1>13, <2>1
  <2>2. CASE j # a.id
    <3>1. j \in lineItems \ (lineUnsaved \cup {lineFocus}) /\ InStep /\ lineText'[j] = lineText[j]
      BY <1>0, <1>1, <1>5, <1>13, <2>2
    <3> QED
      BY <1>0, <3>1 DEF LinesInv, TextsShown
  <2> QED
    BY <2>1, <2>2
<1>16. ValuesShown'
  <2> SUFFICES ASSUME InStep', NEW j \in lineItems', j \notin lineStolen'
               PROVE  /\ lineTimer'.id = j => lineTimer'.text = lineText'[j]
                      /\ lineTimer'.id # j => \A q \in linePreviews' : q.id = j => q.text = lineText'[j]
                      /\ lineTimer'.id # j /\ (\A q \in linePreviews' : q.id # j) => linePreview'[j] = lineText'[j]
    BY DEF ValuesShown
  <2>1. CASE j = a.id
    <3>1. j \notin {q.id : q \in linePreviews}
      BY <1>0, <2>1
    <3>2. \A q \in linePreviews : q.id # j
      BY <3>1
    <3>3. ask \in linePreviews'
      BY <1>0
    <3> QED
      BY <1>0, <1>4, <1>5, <1>13, <2>1, <3>2, <3>3
  <2>2. CASE j # a.id
    <3>1. j \in lineItems \ lineStolen /\ InStep /\ lineText'[j] = lineText[j]
      BY <1>0, <1>1, <1>5, <1>13, <2>2
    <3>2. \A q : q.id = j => (q \in linePreviews' <=> q \in linePreviews)
      BY <1>0, <1>4, <2>2
    <3> QED
      BY <1>0, <3>1, <3>2 DEF LinesInv, ValuesShown
  <2> QED
    BY <2>1, <2>2
<1> QED
  BY <1>6, <1>7, <1>8, <1>9, <1>10, <1>11, <1>12, <1>14, <1>15, <1>16 DEF LinesInv, LinesTypes

\* The user was told of a failure: the line may be there all the same.
LEMMA AddFailsStep ==
    ASSUME LinesInv, NEW a \in lineAdds, Lines!AddFails(a)
    PROVE  LinesInv'
<1> USE DEF Lines!server, Lines!rows, Lines!load, Lines!values
<1>0. /\ lineAdds' = lineAdds \ {a} /\ lineAdding' = FALSE /\ lineUntold' = lineUntold \cup ({a.id} \ {Lines!None})
      /\ upsets < MaxUpsets /\ upsets' = upsets + 1
      /\ UNCHANGED <<lineExists, lineOf, lineSaved, lineCondition, lineItems, lineText, lineLoading, lineLoads,
                     lineDeletingId, lineRemovals, linePatches, lineFocus, lineTimer, linePreview, linePreviews,
                     lineStrayed, lineUnsaved, lineStolen, ops>>
  BY DEF Lines!AddFails, Lines!Rest, Lines!Fault
<1>1. a.id \in Lines!Ids \cup {Lines!None} /\ lineAdds = {a}
  BY DEF LinesInv, LinesTypes, AddsType, FlagsFit
<1>2. lineAdds' = {}
  BY <1>0, <1>1
<1>3. AddsType' /\ FlagsFit'
  BY <1>0, <1>2 DEF AddsType, LinesInv, FlagsFit
<1>4. NotesType'
  BY <1>0, <1>1, SectionsAssumption DEF LinesInv, LinesTypes, NotesType
<1>5. StoreType' /\ RowsType' /\ LoadsType' /\ RemovalsType' /\ PatchesType' /\ ValuesType'
  BY <1>0 DEF LinesInv, LinesTypes, StoreType, RowsType, LoadsType, RemovalsType, PatchesType, ValuesType, Known
<1>6. FreshLoads' /\ ValuesShown' /\ TextsShown'
  BY <1>0 DEF LinesInv, FreshLoads, Lines!Of, ValuesShown, TextsShown, InStep
<1>7. LinesShown'
  <2> SUFFICES ASSUME InStep' PROVE LinesShown'
    BY DEF LinesShown
  <2>1. LinesShown /\ InStep
    BY <1>0 DEF InStep, LinesInv
  <2>2. Lines!Of(lineCondition)' = Lines!Of(lineCondition)
    BY <1>0 DEF Lines!Of
  <2>3. Moving = Moving' \cup {a.id} /\ Lines!None \notin Lines!Ids
    BY <1>0, <1>1, <1>2, LineIds DEF Moving
  <2> QED
    BY <1>0, <1>2, <2>1, <2>2, <2>3 DEF LinesShown
<1> QED
  BY <1>3, <1>4, <1>5, <1>6, <1>7 DEF LinesInv, LinesTypes

-----------------------------------------------------------------------------
(* Lines removed.                                                          *)

LEMMA RemoveItemStep ==
    ASSUME LinesInv, NEW i \in lineItems, Lines!removeItem(i)
    PROVE  LinesInv'
<1> USE DEF Lines!server, Lines!rows, Lines!load, Lines!values, Lines!notes
<1> DEFINE new == [id |-> i, served |-> FALSE]
<1>0. /\ lineDeletingId = Lines!None /\ lineFocus = Lines!None /\ lineDeletingId' = i
      /\ lineRemovals' = lineRemovals \cup {new} /\ ops < MaxLineOps /\ ops' = ops + 1
      /\ UNCHANGED <<lineExists, lineOf, lineSaved, lineCondition, lineItems, lineText, lineLoading, lineLoads, lineAdding,
                     lineAdds, linePatches, lineFocus, lineTimer, linePreview, linePreviews, lineStrayed, lineUnsaved,
                     lineStolen, lineUntold, upsets>>
  BY DEF Lines!removeItem, Lines!Op
<1>1. i \in Lines!Ids /\ i # Lines!None /\ Known(i) /\ lineRemovals = {}
  BY <1>0, LineIds DEF LinesInv, LinesTypes, RowsType, FlagsFit
<1>2. lineRemovals' = {new} /\ new \in [id : Lines!Ids, served : BOOLEAN] /\ new.id = i /\ new.served = FALSE
  BY <1>0, <1>1
<1> HIDE DEF new
<1>3. RemovalsType'
  BY <1>0, <1>1, <1>2 DEF RemovalsType, Known
<1>4. FlagsFit'
  BY <1>0, <1>1, <1>2 DEF LinesInv, FlagsFit
<1>5. NotesType'
  BY <1>0, LineIds DEF LinesInv, LinesTypes, NotesType
<1>6. StoreType' /\ RowsType' /\ LoadsType' /\ AddsType' /\ PatchesType' /\ ValuesType'
  BY <1>0 DEF LinesInv, LinesTypes, StoreType, RowsType, LoadsType, AddsType, PatchesType, ValuesType, Known
<1>7. FreshLoads' /\ ValuesShown' /\ TextsShown'
  BY <1>0 DEF LinesInv, FreshLoads, Lines!Of, ValuesShown, TextsShown, InStep
<1>8. LinesShown'
  <2> SUFFICES ASSUME InStep' PROVE LinesShown'
    BY DEF LinesShown
  <2>1. LinesShown /\ InStep
    BY <1>0 DEF InStep, LinesInv
  <2>2. Lines!Of(lineCondition)' = Lines!Of(lineCondition)
    BY <1>0 DEF Lines!Of
  <2>3. Moving' = Moving \cup {i}
    BY <1>0, <1>1, <1>2 DEF Moving
  <2> QED
    BY <1>0, <2>1, <2>2, <2>3 DEF LinesShown
<1> QED
  BY <1>3, <1>4, <1>5, <1>6, <1>7, <1>8 DEF LinesInv, LinesTypes

LEMMA ServeRemovalStep ==
    ASSUME LinesInv, NEW d \in lineRemovals, Lines!ServeRemoval(d)
    PROVE  LinesInv'
<1> USE DEF Lines!rows, Lines!values, Lines!notes
<1> DEFINE done == [d EXCEPT !.served = TRUE]
<1>0. /\ lineExists' = lineExists \ {d.id} /\ lineLoads' = Lines!Aged /\ lineRemovals' = (lineRemovals \ {d}) \cup {done}
      /\ UNCHANGED <<lineOf, lineSaved, lineCondition, lineItems, lineText, lineLoading, lineAdding, lineAdds,
                     lineDeletingId, linePatches, lineFocus, lineTimer, linePreview, linePreviews, lineStrayed,
                     lineUnsaved, lineStolen, lineUntold, ops, upsets>>
  BY DEF Lines!ServeRemoval, Lines!Rest
<1>1. d \in [id : Lines!Ids, served : BOOLEAN] /\ Known(d.id) /\ lineRemovals = {d}
  BY DEF LinesInv, LinesTypes, RemovalsType, FlagsFit
<1>2. done \in [id : Lines!Ids, served : BOOLEAN] /\ done.id = d.id
  BY <1>1
<1>3. lineRemovals' = {done}
  BY <1>0, <1>1
<1> HIDE DEF done
<1>4. \A i : Known(i)' = Known(i)
  BY <1>0 DEF Known
<1>5. LoadsType' /\ FreshLoads' /\ (lineLoads' = {} <=> lineLoads = {})
  BY <1>0, <1>4, AgedLoads DEF LinesInv, LinesTypes
<1>6. StoreType'
  BY <1>0, <1>4 DEF LinesInv, LinesTypes, StoreType
<1>7. RemovalsType'
  BY <1>0, <1>1, <1>2, <1>3, <1>4 DEF LinesInv, LinesTypes, RemovalsType
<1>8. RowsType' /\ AddsType' /\ PatchesType' /\ ValuesType' /\ NotesType'
  BY <1>0, <1>4 DEF LinesInv, LinesTypes, RowsType, AddsType, PatchesType, ValuesType, NotesType
<1>9. FlagsFit'
  BY <1>0, <1>1, <1>2, <1>3, <1>5 DEF LinesInv, FlagsFit
<1>10. InStep' => InStep
  BY <1>0, <1>5 DEF InStep
<1>11. ValuesShown' /\ TextsShown'
  BY <1>0, <1>10 DEF LinesInv, ValuesShown, TextsShown
<1>12. LinesShown'
  <2> SUFFICES ASSUME InStep' PROVE LinesShown'
    BY DEF LinesShown
  <2>1. LinesShown /\ InStep
    BY <1>10 DEF LinesInv
  <2>2. Lines!Of(lineCondition)' = Lines!Of(lineCondition) \ {d.id}
    BY <1>0 DEF Lines!Of
  <2>3. Moving' = Moving /\ d.id \in Moving
    BY <1>0, <1>1, <1>2, <1>3 DEF Moving
  <2> QED
    BY <1>0, <2>1, <2>2, <2>3 DEF LinesShown
<1> QED
  BY <1>5, <1>6, <1>7, <1>8, <1>9, <1>11, <1>12 DEF LinesInv, LinesTypes

\* The line is gone, and nobody types in it.
LEMMA RemovedStep ==
    ASSUME LinesInv, NEW d \in lineRemovals, Lines!Removed(d)
    PROVE  LinesInv'
<1> USE DEF Lines!server, Lines!load
<1>0. /\ d.served /\ lineRemovals' = lineRemovals \ {d}
      /\ lineDeletingId' = IF lineDeletingId = d.id THEN Lines!None ELSE lineDeletingId
      /\ lineItems' = lineItems \ {d.id} /\ lineText' = [lineText EXCEPT ![d.id] = 0]
      /\ linePreview' = [linePreview EXCEPT ![d.id] = 0]
      /\ UNCHANGED <<lineExists, lineOf, lineSaved, lineCondition, lineLoading, lineLoads, lineAdding, lineAdds,
                     linePatches, lineFocus, lineTimer, linePreviews, lineStrayed, lineUnsaved, lineStolen,
                     lineUntold, ops, upsets>>
  BY DEF Lines!Removed, Lines!Rest, Lines!Finally, Lines!notes
<1>1. /\ d.id \in Lines!Ids /\ d.id \notin lineExists /\ lineRemovals = {d} /\ lineDeletingId = d.id /\ lineFocus # d.id
      /\ lineText \in [Lines!Ids -> 0..MaxLineOps + 1] /\ linePreview \in [Lines!Ids -> 0..MaxLineOps + 1]
      /\ lineItems \subseteq Lines!Ids
  BY <1>0, LineIds DEF LinesInv, LinesTypes, RemovalsType, FlagsFit, RowsType, ValuesType, Lines!Texts
<1>2. lineRemovals' = {} /\ lineDeletingId' = Lines!None
  BY <1>0, <1>1
<1>3. 0 \in 0..MaxLineOps + 1
  BY LineIds
<1>4. /\ lineText' \in Lines!Texts /\ linePreview' \in Lines!Texts
      /\ \A j \in lineItems' : j \in lineItems /\ lineText'[j] = lineText[j] /\ linePreview'[j] = linePreview[j]
  BY <1>0, <1>1, <1>3 DEF Lines!Texts
<1>5. RowsType'
  BY <1>0, <1>1, <1>4 DEF LinesInv, LinesTypes, RowsType, Known
<1>6. ValuesType'
  BY <1>0, <1>4 DEF LinesInv, LinesTypes, ValuesType, Known
<1>7. RemovalsType'
  BY <1>2 DEF RemovalsType
<1>8. StoreType' /\ LoadsType' /\ AddsType' /\ PatchesType' /\ NotesType'
  BY <1>0 DEF LinesInv, LinesTypes, StoreType, LoadsType, AddsType, PatchesType, NotesType, Known
<1>9. FlagsFit'
  BY <1>0, <1>2 DEF LinesInv, FlagsFit
<1>10. FreshLoads'
  BY <1>0 DEF LinesInv, FreshLoads, Lines!Of
<1>11. ValuesShown' /\ TextsShown'
  <2>1. InStep' => InStep
    BY <1>0 DEF InStep
  <2>2. ValuesShown'
    BY <1>0, <1>4, <2>1 DEF LinesInv, ValuesShown
  <2>3. TextsShown'
    BY <1>0, <1>4, <2>1 DEF LinesInv, TextsShown
  <2> QED
    BY <2>2, <2>3
<1>12. LinesShown'
  <2> SUFFICES ASSUME InStep' PROVE LinesShown'
    BY DEF LinesShown
  <2>1. LinesShown /\ InStep
    BY <1>0 DEF InStep, LinesInv
  <2>2. Lines!Of(lineCondition)' = Lines!Of(lineCondition) /\ d.id \notin Lines!Of(lineCondition)
    BY <1>0, <1>1 DEF Lines!Of
  <2>3. Moving = Moving' \cup {d.id}
    BY <1>0, <1>1, <1>2 DEF Moving
  <2> QED
    BY <1>0, <2>1, <2>2, <2>3 DEF LinesShown
<1> QED
  BY <1>5, <1>6, <1>7, <1>8, <1>9, <1>10, <1>11, <1>12 DEF LinesInv, LinesTypes

LEMMA RemovalFailsStep ==
    ASSUME LinesInv, NEW d \in lineRemovals, Lines!RemovalFails(d)
    PROVE  LinesInv'
<1> USE DEF Lines!server, Lines!rows, Lines!load, Lines!values
<1>0. /\ lineRemovals' = lineRemovals \ {d} /\ lineUntold' = lineUntold \cup {d.id} /\ upsets' \in 0..MaxUpsets
      /\ lineDeletingId' = IF lineDeletingId = d.id THEN Lines!None ELSE lineDeletingId
      /\ UNCHANGED <<lineExists, lineOf, lineSaved, lineCondition, lineItems, lineText, lineLoading, lineLoads, lineAdding,
                     lineAdds, linePatches, lineFocus, lineTimer, linePreview, linePreviews, lineStrayed, lineUnsaved,
                     lineStolen, ops>>
  BY SectionsAssumption DEF Lines!RemovalFails, Lines!Rest, Lines!Finally, Lines!Fault, LinesInv, LinesTypes, NotesType
<1>1. d.id \in Lines!Ids /\ lineRemovals = {d} /\ lineDeletingId = d.id
  BY DEF LinesInv, LinesTypes, RemovalsType, FlagsFit
<1>2. lineRemovals' = {} /\ lineDeletingId' = Lines!None
  BY <1>0, <1>1
<1>3. RemovalsType' /\ FlagsFit'
  BY <1>0, <1>2 DEF RemovalsType, LinesInv, FlagsFit
<1>4. NotesType'
  BY <1>0, <1>1 DEF LinesInv, LinesTypes, NotesType
<1>5. StoreType' /\ RowsType' /\ LoadsType' /\ AddsType' /\ PatchesType' /\ ValuesType'
  BY <1>0 DEF LinesInv, LinesTypes, StoreType, RowsType, LoadsType, AddsType, PatchesType, ValuesType, Known
<1>6. FreshLoads' /\ ValuesShown' /\ TextsShown'
  BY <1>0 DEF LinesInv, FreshLoads, Lines!Of, ValuesShown, TextsShown, InStep
<1>7. LinesShown'
  <2> SUFFICES ASSUME InStep' PROVE LinesShown'
    BY DEF LinesShown
  <2>1. LinesShown /\ InStep
    BY <1>0 DEF InStep, LinesInv
  <2>2. Lines!Of(lineCondition)' = Lines!Of(lineCondition)
    BY <1>0 DEF Lines!Of
  <2>3. Moving = Moving' \cup {d.id}
    BY <1>0, <1>1, <1>2 DEF Moving
  <2> QED
    BY <1>0, <2>1, <2>2, <2>3 DEF LinesShown
<1> QED
  BY <1>3, <1>4, <1>5, <1>6, <1>7 DEF LinesInv, LinesTypes

-----------------------------------------------------------------------------
(* The lines' start, steps and promises.                                   *)

LEMMA LinesInit == Lines!Init => LinesInv
<1> SUFFICES ASSUME Lines!Init PROVE LinesInv
  OBVIOUS
<1> DEFINE ask == Lines!Ask(FirstCondition, 0)
<1>0. /\ lineExists = {1} /\ lineOf = [i \in Lines!Ids |-> FirstCondition] /\ lineSaved = [Lines!Blank EXCEPT ![1] = 1]
      /\ lineCondition = FirstCondition /\ lineItems = {} /\ lineText = Lines!Blank
      /\ lineLoading = TRUE /\ lineLoads = {ask} /\ lineAdding = FALSE /\ lineAdds = {} /\ lineDeletingId = Lines!None
      /\ lineRemovals = {} /\ linePatches = {} /\ lineFocus = Lines!None /\ lineTimer = Lines!NoTimer
      /\ linePreview = Lines!Blank /\ linePreviews = {} /\ lineStrayed = FALSE /\ lineUnsaved = {} /\ lineStolen = {}
      /\ lineUntold = {} /\ ops = 0 /\ upsets = 0
  BY DEF Lines!Init
<1>1. 0 \in 0..MaxLineOps /\ 0 \in 0..MaxLineOps + 1 /\ 1 \in 0..MaxLineOps + 1 /\ 0 \in 0..MaxUpsets
  BY SectionsAssumption, LineIds
<1>2. ask \in Load /\ ask.served = FALSE
  BY <1>1, LineIds, SectionsAssumption DEF Lines!Ask, Load
<1> HIDE DEF ask
<1>3. lineSaved \in Lines!Texts /\ lineSaved[1] = 1
  BY <1>0, <1>1, LineIds DEF Lines!Texts, Lines!Blank
<1>4. StoreType
  BY <1>0, <1>3, LineIds, SectionsAssumption DEF StoreType, Known
<1>5. Lines!NoTimer \in [id : Lines!Ids \cup {Lines!None}, text : 0..MaxLineOps + 1]
  BY <1>1 DEF Lines!NoTimer
<1>6. RowsType /\ LoadsType /\ AddsType /\ RemovalsType /\ PatchesType /\ ValuesType /\ NotesType
  BY <1>0, <1>1, <1>2, <1>5, LineIds, SectionsAssumption
     DEF RowsType, LoadsType, AddsType, RemovalsType, PatchesType, ValuesType, NotesType
<1>7. FlagsFit /\ FreshLoads /\ ~InStep
  BY <1>0, <1>2 DEF FlagsFit, FreshLoads, InStep
<1> QED
  BY <1>4, <1>6, <1>7 DEF LinesInv, LinesTypes, LinesShown, TextsShown, ValuesShown

LEMMA LinesStep == LinesInv /\ [Lines!Next]_(Lines!vars) => LinesInv'
<1> SUFFICES ASSUME LinesInv, [Lines!Next]_(Lines!vars) PROVE LinesInv'
  OBVIOUS
<1>1. CASE \E c \in Conditions : Lines!Select(c)
  BY <1>1, SelectLines
<1>2. CASE \E l \in lineLoads : Lines!ServeLoad(l) \/ Lines!Loaded(l) \/ Lines!LoadFails(l)
  BY <1>2, ServeLoadStep, LoadedStep, LoadFailsLines
<1>3. CASE (\E q \in linePreviews : Lines!Previewed(q)) \/ Lines!TimerFires
  BY <1>3, PreviewedStep, TimerFiresStep
<1>4. CASE \E i \in lineItems : Lines!Type(i) \/ Lines!removeItem(i)
  BY <1>4, TypeStep, RemoveItemStep
<1>5. CASE Lines!Leave \/ \E w \in linePatches : Lines!ServePatch(w) \/ Lines!Patched(w)
  BY <1>5, LeaveStep, ServePatchStep, PatchedStep
<1>6. CASE Lines!addItem \/ \E a \in lineAdds : Lines!ServeAdd(a) \/ Lines!Added(a) \/ Lines!AddFails(a)
  BY <1>6, AddItemStep, ServeAddStep, AddedStep, AddFailsStep
<1>7. CASE \E d \in lineRemovals : Lines!ServeRemoval(d) \/ Lines!Removed(d) \/ Lines!RemovalFails(d)
  BY <1>7, ServeRemovalStep, RemovedStep, RemovalFailsStep
<1>8. CASE UNCHANGED Lines!vars
  BY <1>8 DEF Lines!vars, Lines!server, Lines!rows, Lines!load, Lines!writes, Lines!values, Lines!notes, LinesInv,
     LinesTypes, StoreType, RowsType, LoadsType, AddsType, RemovalsType, PatchesType, ValuesType, NotesType, Known,
     FlagsFit, FreshLoads, LinesShown, TextsShown, ValuesShown, InStep, Moving, Lines!Of
<1> QED
  BY <1>1, <1>2, <1>3, <1>4, <1>5, <1>6, <1>7, <1>8 DEF Lines!Next

LEMMA LinesPromises == LinesInv => Lines!TypeOK /\ Lines!LinesAreRight
<1> SUFFICES ASSUME LinesInv PROVE Lines!TypeOK /\ Lines!LinesAreRight
  OBVIOUS
<1>1. Lines!TypeOK
  BY DEF LinesInv, LinesTypes, StoreType, RowsType, LoadsType, AddsType, RemovalsType, PatchesType, ValuesType, NotesType,
     Lines!TypeOK, Load
<1>2. Lines!OneAtATime
  <2>1. ASSUME NEW S, \A a, b \in S : a = b PROVE Lines!Cardinality(S) <= 1
    <3>1. CASE S = {}
      <4>1. Cardinality(S) = 0
        BY <3>1, FS_EmptySet
      <4> QED
        BY <4>1 DEF Lines!Cardinality, Cardinality
    <3>2. CASE S # {}
      <4>1. PICK a : a \in S
        BY <3>2
      <4>2. S = {a}
        BY <2>1, <4>1
      <4>3. Cardinality({a}) = 1
        BY FS_Singleton
      <4> QED
        BY <4>2, <4>3 DEF Lines!Cardinality, Cardinality
    <3> QED
      BY <3>1, <3>2
  <2>2. /\ \A a, b \in lineAdds : a = b
        /\ \A d, e \in lineRemovals : d = e
    BY DEF LinesInv, FlagsFit
  <2> QED
    BY <2>1, <2>2 DEF LinesInv, FlagsFit, Lines!OneAtATime
<1>3. Lines!LinesAreConditions
  <2> SUFFICES ASSUME Lines!Quiet, ~lineStrayed
               PROVE  lineItems \ lineUntold = Lines!Of(lineCondition) \ lineUntold
    BY DEF Lines!LinesAreConditions
  <2>1. InStep /\ Moving = {}
    BY DEF Lines!Quiet, InStep, Moving
  <2>2. lineItems \subseteq Lines!Ids /\ Lines!Of(lineCondition) \subseteq Lines!Ids
    BY DEF LinesInv, LinesTypes, RowsType, StoreType, Lines!Of
  <2> QED
    BY <2>1, <2>2 DEF LinesInv, LinesShown
<1>4. Lines!TextIsSaved
  <2> SUFFICES ASSUME Lines!Quiet, ~lineStrayed, linePatches = {}, lineFocus = Lines!None,
                      NEW i \in lineItems \ (lineUnsaved \cup lineUntold)
               PROVE  lineText[i] = lineSaved[i]
    BY DEF Lines!TextIsSaved
  <2>1. InStep /\ i \in lineItems \ (lineUnsaved \cup {lineFocus})
    BY LineIds DEF Lines!Quiet, InStep, LinesInv, LinesTypes, RowsType
  <2> QED
    BY <2>1 DEF LinesInv, TextsShown
<1>5. Lines!ValueIsFormulas
  <2> SUFFICES ASSUME Lines!Quiet, ~lineStrayed, linePreviews = {}, lineTimer = Lines!NoTimer,
                      NEW i \in lineItems \ lineStolen
               PROVE  linePreview[i] = lineText[i]
    BY DEF Lines!ValueIsFormulas
  <2>1. InStep /\ lineTimer.id = Lines!None /\ i # Lines!None
    BY LineIds DEF Lines!Quiet, InStep, Lines!NoTimer, LinesInv, LinesTypes, RowsType
  <2> QED
    BY <2>1 DEF LinesInv, ValuesShown
<1> QED
  BY <1>1, <1>2, <1>3, <1>4, <1>5 DEF Lines!LinesAreRight

-----------------------------------------------------------------------------
(* Each behaviour is of one of the four.                                   *)

PanelsInv ==
    /\ section \in {"room", "list", "panel", "lines"}
    /\ section = "room" => RoomInv
    /\ section = "list" => ListInv
    /\ section = "panel" => PanelInv
    /\ section = "lines" => LinesInv

LEMMA PanelsStart == PanelsInit => PanelsInv
BY RoomStart, ListInit, PanelInit, LinesInit DEF PanelsInit, PanelsInv

LEMMA PanelsStep == PanelsInv /\ [PanelsNext]_panels => PanelsInv'
<1> SUFFICES ASSUME PanelsInv, [PanelsNext]_panels PROVE PanelsInv'
  OBVIOUS
<1>1. CASE section = "room" /\ Room!Next /\ UNCHANGED <<section, quantities, panel, lines, bounds>>
  BY <1>1, RoomStep DEF PanelsInv
<1>2. CASE section = "list" /\ List!Next /\ UNCHANGED <<section, people, panel, lines>>
  BY <1>2, ListStep DEF PanelsInv
<1>3. CASE section = "panel" /\ Next /\ UNCHANGED <<section, people, quantities, lines>>
  BY <1>3, PanelStep DEF PanelsInv
<1>4. CASE section = "lines" /\ Lines!Next /\ UNCHANGED <<section, people, quantities, panel>>
  BY <1>4, LinesStep DEF PanelsInv
<1>5. CASE UNCHANGED panels
  <2>1. UNCHANGED section /\ UNCHANGED vars
    BY <1>5 DEF panels, panel, vars, bounds
  <2>2. UNCHANGED Room!vars
    BY <1>5 DEF panels, people, Room!vars
  <2>3. UNCHANGED List!vars
    BY <1>5 DEF panels, quantities, List!vars, List!server, List!list, List!rename, List!panel, List!notes
  <2>4. UNCHANGED Lines!vars
    BY <1>5 DEF panels, lines, Lines!vars, Lines!server, Lines!rows, Lines!load, Lines!writes, Lines!values, Lines!notes
  <2>5. section = "room" => RoomInv'
    BY <2>2, RoomStep DEF PanelsInv
  <2>6. section = "list" => ListInv'
    BY <2>3, ListStep DEF PanelsInv
  <2>7. section = "panel" => PanelInv'
    BY <2>1, PanelStep DEF PanelsInv
  <2>8. section = "lines" => LinesInv'
    BY <2>4, LinesStep DEF PanelsInv
  <2> QED
    BY <2>1, <2>5, <2>6, <2>7, <2>8 DEF PanelsInv
<1> QED
  BY <1>1, <1>2, <1>3, <1>4, <1>5 DEF PanelsNext

LEMMA PanelsHold == PanelsSpec => []PanelsInv
BY PanelsStart, PanelsStep, PTL DEF PanelsSpec

\* Selection, presence, maps and requests of the room, rows, fields and requests of the
\* list, and the panel and the lines, keep to their types.
THEOREM TypeCorrect == PanelsSpec => []PanelsTypeOK
<1>1. PanelsInv => PanelsTypeOK
  BY RoomPromises, PanelPromises, LinesPromises DEF PanelsInv, ListInv, PanelsTypeOK
<1> QED
  BY <1>1, PanelsHold, PTL

\* For any users, editors and measurements: a lock is the selection of its holder
\* (the effect of collaboration-room-shell.tsx that announces it), every map agrees with
\* the presence once all of it has arrived, a lock on a measurement that is gone has an
\* unannounced deletion behind it, and two people hold one measurement only if one of
\* them could not have seen the other's lock.
THEOREM LocksAreSelections == PanelsSpec => []LocksAreRight
<1>1. PanelsInv => LocksAreRight
  BY RoomPromises DEF PanelsInv, LocksAreRight
<1> QED
  BY <1>1, PanelsHold, PTL

\* For any rows, labels, number of requests and refusals: one field of the quantities is
\* open, one rename is in flight, and a row bears the name last submitted for it, on the
\* server and in the list, unless that was refused or dropped (submitRename, its lock and
\* the answers of quantities-panel.tsx).
THEOREM NamesStayAsSubmitted == PanelsSpec => []NamesAsSubmitted
<1>1. PanelsInv => NamesAsSubmitted
  BY ListPromises DEF PanelsInv, NamesAsSubmitted
<1> QED
  BY <1>1, PanelsHold, PTL

\* The form of the conditions panel is that of the listed condition that is selected, and
\* one that was created here stays selected (ConditionManagerPanel's effects after each read).
THEOREM ChoiceRight == PanelsSpec => []ChoiceIsRight
<1>1. PanelsInv => ChoiceIsRight
  BY PanelPromises DEF PanelsInv, ChoiceIsRight
<1> QED
  BY <1>1, PanelsHold, PTL

\* The panel writes to the condition that was meant, one write at a time, and the lines of
\* the assembly are the condition's, with the texts that are saved and their values.
THEOREM ChangesRight == PanelsSpec => []ChangesAreRight
<1>1. PanelsInv => ChangesAreRight
  BY PanelPromises, LinesPromises DEF PanelsInv, ChangesAreRight
<1> QED
  BY <1>1, PanelsHold, PTL
=============================================================================
