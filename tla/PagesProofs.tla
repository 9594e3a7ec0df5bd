---------------------------- MODULE PagesProofs -----------------------------
(***************************************************************************)
(* Proofs about the pages outside the plan viewer and the button of the AI *)
(* runs, for any number of plans, projects, templates, people, seats and   *)
(* runs, and any bounds.                                                   *)
(***************************************************************************)
EXTENDS Pages, FiniteSetTheorems, SequenceTheorems, WellFoundedInduction, TLAPS

-----------------------------------------------------------------------------
(* A set of numbers has a least one.                                       *)

LEMMA LeastOf ==
    ASSUME NEW S \in SUBSET Nat, S # {}
    PROVE  \E m \in S : \A x \in S : m <= x
<1> DEFINE R == {ss \in Nat \X Nat : ss[1] < ss[2]}
<1>1. IsWellFoundedOn(R, Nat)
  BY NatLessThanWellFounded, Zenon DEF OpToRel
<1>2. \A x, y \in Nat : y < x => <<y, x>> \in R
  OBVIOUS
<1> HIDE DEF R
<1>3. \E x \in S : \A y \in S : ~(<<y, x>> \in R)
  BY <1>1, WFMin
<1>4. PICK x \in S : \A y \in S : ~(y < x)
  BY <1>2, <1>3
<1>5. \A y \in S : x <= y
  BY <1>4
<1> QED
  BY <1>5

-----------------------------------------------------------------------------
(* Numbers that are bounded have a highest one.                            *)

LEMMA HighestOf ==
    ASSUME NEW S \in SUBSET Nat, S # {}, NEW b \in Nat, \A x \in S : x <= b
    PROVE  \E n \in S : \A x \in S : x <= n
<1> DEFINE D == {b - x : x \in S}
<1>1. D \in SUBSET Nat /\ D # {}
  <2>1. \A x \in S : b - x \in Nat
    OBVIOUS
  <2> QED
    BY <2>1
<1> HIDE DEF D
<1>2. PICK m \in D : \A d \in D : m <= d
  BY <1>1, LeastOf
<1>3. \A d \in D : m <= d
  BY <1>2
<1> USE DEF D
<1>4. PICK n \in S : m = b - n
  OBVIOUS
<1>5. \A x \in S : b - n <= b - x
  BY <1>3, <1>4
<1> QED
  BY <1>5

-----------------------------------------------------------------------------
(* The templates: the invariant of the library.                            *)

LibListType ==
    /\ version \in Library!Versions /\ list \in Library!Versions
    /\ libLoading \in BOOLEAN /\ libRefreshing \in BOOLEAN /\ libFailed \in BOOLEAN
    /\ libReads \subseteq [n : Nat, silent : BOOLEAN, after : {"none", "delete"}, rows : Library!Versions]
    /\ libSeen \in [n : Nat, inOrder : BOOLEAN] /\ untold \subseteq Templates
LibDialogType ==
    /\ editing \in Templates \cup {"none"} /\ fetching \in BOOLEAN /\ crossed \in BOOLEAN
    /\ libForm \in [of : Templates \cup {"none"}, valid : BOOLEAN]
    /\ gets \subseteq [of : Templates, n : 0..MaxLibraryOps]
LibWriteType ==
    /\ libSaving \in BOOLEAN /\ libDeleting \in BOOLEAN /\ libTarget \in Templates \cup {"none"}
    /\ saves \subseteq [to : Templates, from : Templates, crossed : BOOLEAN, pc : {"sent", "ok"}]
    /\ deletes \subseteq [of : Templates, pc : {"sent", "ok"}]
    /\ ops \in 0..MaxLibraryOps /\ upsets \in 0..MaxUpsets

\* The numbers of the reads have a highest one.
LibBounded == \E b \in Nat : libSeen.n <= b /\ \A r \in libReads : r.n <= b

\* Until a change is answered, the newest read that is not overtaken is of the library as it
\* is; after its answer the list is.
LibChange(t) ==
    \/ \E s \in saves : s.to = t /\ s.pc = "ok"
    \/ \E d \in deletes : d.of = t /\ d.pc = "ok"
LibNewest(r) == libSeen.n < r.n /\ \A q \in libReads : q.n <= r.n
LibFollows ==
    \A t \in Templates \ untold :
        \/ LibChange(t)
        \/ /\ \A r \in libReads : LibNewest(r) => r.rows[t] = version[t]
           /\ (\A r \in libReads : r.n <= libSeen.n) /\ libSeen.inOrder => list[t] = version[t]

\* A form is of the template its dialog was opened for, unless another one was being read.
LibForms ==
    /\ libForm.of = "none" => libForm = Library!NoForm
    /\ editing # "none" /\ ~crossed =>
        /\ \A g \in gets : g.of = editing
        /\ libForm.of \in {"none", editing} \/ fetching

\* A template's version counts the dialogs that were opened and the requests that failed;
\* a dialog that can still save it is not yet counted.
LibSent == \E s \in saves : s.pc = "sent"
LibBudget ==
    \A t \in Templates :
        /\ version[t] <= 1 + ops + upsets
        /\ (saves = {} /\ editing # "none") \/ LibSent => version[t] <= ops + upsets

LibFlags ==
    /\ libLoading => \E r \in libReads : ~r.silent
    /\ libRefreshing => \E r \in libReads : r.silent
LibDeletes == libDeleting => deletes # {} \/ \E r \in libReads : r.after = "delete"
LibSaves == libSaving = (saves # {}) /\ \A s1, s2 \in saves : s1 = s2

LibListInv == LibListType /\ LibBounded /\ LibFollows /\ LibFlags
LibDialogInv == LibDialogType /\ LibForms /\ (fetching => gets # {})
LibWriteInv == LibWriteType /\ LibBudget /\ LibDeletes /\ LibSaves /\ Library!SavedWhereFilled
LibInv == LibListInv /\ LibDialogInv /\ LibWriteInv

-----------------------------------------------------------------------------
(* The list of the templates.                                              *)

LEMMA LibLatest ==
    ASSUME LibListInv
    PROVE  Library!Newest \in Nat /\ libSeen.n <= Library!Newest /\ \A r \in libReads : r.n <= Library!Newest
<1> DEFINE S == {libSeen.n} \cup {r.n : r \in libReads}
<1>1. S \in SUBSET Nat /\ libSeen.n \in S /\ \A r \in libReads : r.n \in S
  BY DEF LibListInv, LibListType
<1>2. PICK b \in Nat : \A x \in S : x <= b
  BY DEF LibListInv, LibBounded
<1> HIDE DEF S
<1>3. PICK n \in S : \A x \in S : x <= n
  BY <1>1, <1>2, HighestOf
<1>4. n >= libSeen.n /\ \A r \in libReads : n >= r.n
  BY <1>1, <1>3
<1> USE DEF S
<1>5. \E k \in {libSeen.n} \cup {r.n : r \in libReads} : k >= libSeen.n /\ \A r \in libReads : k >= r.n
  BY <1>4
<1>6. Library!Newest \in S /\ Library!Newest >= libSeen.n /\ \A r \in libReads : Library!Newest >= r.n
  BY <1>5 DEF Library!Newest
<1>7. Library!Newest \in Nat
  BY <1>1, <1>6
<1>8. ASSUME NEW r \in libReads PROVE r.n <= Library!Newest
  BY <1>1, <1>6, <1>7, <1>8
<1>9. libSeen.n <= Library!Newest
  BY <1>1, <1>6, <1>7
<1> QED
  BY <1>7, <1>8, <1>9

\* A read that starts after a change finds it.
LEMMA LibReadAgain ==
    ASSUME LibListInv, NEW silent \in BOOLEAN, NEW after \in {"none", "delete"},
           Library!Load(silent, after), version' \in Library!Versions, UNCHANGED <<list, libSeen>>,
           untold' \subseteq Templates
    PROVE  /\ LibListInv'
           /\ libReads \subseteq libReads' /\ \E r \in libReads' : r.after = after
<1> DEFINE new == [n |-> Library!Newest + 1, silent |-> silent, after |-> after, rows |-> version']
<1>0. /\ libReads' = libReads \cup {new} /\ libLoading' = (libLoading \/ ~silent)
      /\ libRefreshing' = (libRefreshing \/ silent) /\ libFailed' = FALSE
  BY DEF Library!Load
<1>1. Library!Newest \in Nat /\ libSeen.n <= Library!Newest /\ \A r \in libReads : r.n <= Library!Newest
  BY LibLatest
<1>2. new \in [n : Nat, silent : BOOLEAN, after : {"none", "delete"}, rows : Library!Versions]
  BY <1>1
<1>3. /\ new.n = Library!Newest + 1 /\ new.silent = silent /\ new.after = after /\ new.rows = version'
      /\ new \in libReads'
  BY <1>0
<1> HIDE DEF new
<1>4. libSeen.n \in Nat /\ \A r \in libReads : r.n \in Nat
  BY DEF LibListInv, LibListType
<1>5. LibListType'
  BY <1>0, <1>2 DEF LibListInv, LibListType
<1>6. \A r \in libReads' : r.n <= Library!Newest + 1
  BY <1>0, <1>1, <1>3, <1>4
<1>7. libSeen.n <= Library!Newest + 1 /\ libSeen.n < new.n
  BY <1>1, <1>3, <1>4
<1>8. LibBounded'
  BY <1>1, <1>6, <1>7 DEF LibBounded
<1>9. \A r \in libReads : ~(new.n <= r.n)
  BY <1>1, <1>3, <1>4
<1>10. \A r \in libReads' : LibNewest(r)' => r = new
  BY <1>0, <1>3, <1>9 DEF LibNewest
<1>11. ~(new.n <= libSeen.n)
  BY <1>3, <1>4, <1>1
<1>12. LibFollows'
  BY <1>3, <1>10, <1>11 DEF LibFollows
<1>13. LibFlags'
  BY <1>0, <1>3 DEF LibListInv, LibFlags
<1> QED
  BY <1>0, <1>3, <1>5, <1>8, <1>12, <1>13 DEF LibListInv

LEMMA LibListStep ==
    ASSUME LibInv, NEW r \in libReads, Library!ListArrives(r) \/ Library!ListFails(r)
    PROVE  LibInv'
<1>0. /\ libReads' = libReads \ {r}
      /\ libLoading' = (libLoading /\ r.silent) /\ libRefreshing' = (libRefreshing /\ ~r.silent)
      /\ libDeleting' = (libDeleting /\ r.after # "delete")
      /\ UNCHANGED <<version, editing, fetching, libForm, gets, libSaving, saves, libTarget, deletes,
                     crossed, untold, ops>>
  BY DEF Library!ListArrives, Library!ListFails, Library!ListEnds, Library!dialog
<1>1. libSeen'.n = (IF r.n > libSeen.n THEN r.n ELSE libSeen.n) /\ libSeen' \in [n : Nat, inOrder : BOOLEAN]
      /\ (libSeen'.inOrder => r.n > libSeen.n)
  <2>1. r.n \in Nat /\ libSeen.n \in Nat
    BY DEF LibInv, LibListInv, LibListType
  <2>2. PICK ok \in BOOLEAN : libSeen' = [n |-> IF r.n > libSeen.n THEN r.n ELSE libSeen.n, inOrder |-> ok /\ r.n > libSeen.n]
    BY DEF Library!ListArrives, Library!ListFails, Library!ListEnds
  <2> QED
    BY <2>1, <2>2
<1>2. list' \in Library!Versions /\ libFailed' \in BOOLEAN /\ upsets' \in 0..MaxUpsets /\ upsets' >= upsets
      /\ (libSeen'.inOrder => list' \in {r.rows, version})
  <2>1. r.rows \in Library!Versions /\ version \in Library!Versions /\ libFailed \in BOOLEAN /\ upsets \in 0..MaxUpsets
        /\ MaxUpsets \in Nat /\ MaxLibraryOps \in Nat /\ libSeen.n \in Nat /\ r.n \in Nat
    BY PagesAssumption DEF LibInv, LibListInv, LibListType, LibWriteInv, LibWriteType
  <2>2. CASE Library!ListArrives(r)
    BY <2>1, <2>2 DEF Library!ListArrives
  <2>3. CASE Library!ListFails(r)
    <3>1. [t \in Templates |-> 0] \in Library!Versions
      BY <2>1 DEF Library!Versions
    <3>2. ~libSeen'.inOrder
      BY <2>3 DEF Library!ListFails, Library!ListEnds
    <3> QED
      BY <2>1, <2>3, <3>1, <3>2 DEF Library!ListFails, Library!Fault
  <2> QED
    BY <2>2, <2>3
<1>3. LibListType'
  BY <1>0, <1>1, <1>2 DEF LibInv, LibListInv, LibListType
<1>4. \A q \in libReads \cup {r} : q.n \in Nat
  BY DEF LibInv, LibListInv, LibListType
<1>5. LibBounded'
  <2>1. PICK b \in Nat : libSeen.n <= b /\ \A q \in libReads : q.n <= b
    BY DEF LibInv, LibListInv, LibBounded
  <2>2. libSeen'.n <= b
    BY <1>1, <2>1
  <2> QED
    BY <1>0, <2>1, <2>2 DEF LibBounded
<1>6. LibFollows'
  <2> SUFFICES ASSUME NEW t \in Templates \ untold, ~LibChange(t)
               PROVE  /\ \A q \in libReads' : LibNewest(q)' => q.rows[t] = version[t]
                      /\ (\A q \in libReads' : q.n <= libSeen'.n) /\ libSeen'.inOrder => list'[t] = version[t]
    BY <1>0 DEF LibFollows, LibChange
  <2>0. libSeen.n \in Nat
    BY DEF LibInv, LibListInv, LibListType
  <2>1. \A q \in libReads : LibNewest(q) => q.rows[t] = version[t]
    BY DEF LibInv, LibListInv, LibFollows
  <2>2. ASSUME NEW q \in libReads', LibNewest(q)' PROVE q.rows[t] = version[t]
    <3>1. q \in libReads /\ q.n > libSeen'.n /\ \A p \in libReads \ {r} : p.n <= q.n
      BY <1>0, <2>2 DEF LibNewest
    <3>2. libSeen.n < q.n /\ r.n <= q.n
      BY <1>1, <1>4, <2>0, <3>1
    <3> QED
      BY <2>1, <3>1, <3>2 DEF LibNewest
  <2>3. ASSUME \A q \in libReads' : q.n <= libSeen'.n, libSeen'.inOrder PROVE list'[t] = version[t]
    <3>1. r.n > libSeen.n /\ libSeen'.n = r.n
      BY <1>1, <2>3
    <3>2. \A q \in libReads : q.n <= r.n
      BY <1>0, <1>4, <2>3, <3>1
    <3>3. LibNewest(r)
      BY <2>0, <3>1, <3>2 DEF LibNewest
    <3> QED
      BY <1>2, <2>1, <2>3, <3>3
  <2> QED
    BY <2>2, <2>3
<1>7. LibFlags'
  BY <1>0 DEF LibInv, LibListInv, LibListType, LibFlags
<1>8. LibDialogInv'
  BY <1>0 DEF LibInv, LibDialogInv, LibDialogType, LibForms
<1>9. LibWriteType'
  BY <1>0, <1>2 DEF LibInv, LibWriteInv, LibWriteType
<1>10. LibDeletes' /\ LibSaves' /\ Library!SavedWhereFilled'
  BY <1>0 DEF LibInv, LibWriteInv, LibDeletes, LibSaves, Library!SavedWhereFilled
<1>11. LibBudget'
  <2>1. version \in Library!Versions /\ ops \in Nat /\ upsets \in Nat /\ upsets' \in Nat
    BY <1>2, PagesAssumption DEF LibInv, LibListInv, LibListType, LibWriteInv, LibWriteType
  <2>2. \A t \in Templates : version[t] \in Nat
    BY <2>1 DEF Library!Versions
  <2> QED
    BY <1>0, <1>2, <2>1, <2>2 DEF LibInv, LibWriteInv, LibBudget, LibSent
<1> QED
  BY <1>3, <1>5, <1>6, <1>7, <1>8, <1>9, <1>10, <1>11 DEF LibInv, LibListInv, LibWriteInv

LEMMA LibNumbers ==
    ASSUME LibInv
    PROVE  /\ ops \in Nat /\ upsets \in Nat /\ MaxLibraryOps \in Nat /\ MaxUpsets \in Nat
           /\ ops <= MaxLibraryOps /\ upsets <= MaxUpsets
           /\ \A t \in Templates : version[t] \in Nat
<1>1. version \in Library!Versions
  BY DEF LibInv, LibListInv, LibListType
<1> QED
  BY <1>1, PagesAssumption DEF LibInv, LibWriteInv, LibWriteType, Library!Versions

\* A user's step counts, and so does a request that fails.
LEMMA LibCounts ==
    ASSUME LibInv, NEW o, NEW u, o = 1 \/ o = 0, u = 1 \/ u = 0, ops' = ops + o, upsets' = upsets + u,
           UNCHANGED version
    PROVE  /\ \A t \in Templates : version'[t] <= 1 + ops' + upsets'
           /\ \A t \in Templates : version[t] <= ops + upsets => version'[t] <= ops' + upsets'
           /\ o = 1 \/ u = 1 => \A t \in Templates : version'[t] <= ops' + upsets'
BY LibNumbers DEF LibInv, LibWriteInv, LibBudget

LEMMA LibReadingStep ==
    ASSUME LibInv, Library!Refresh \/ Library!Dismiss
    PROVE  LibInv'
<1>1. CASE Library!Refresh
  <2>0. /\ ops < MaxLibraryOps /\ ops' = ops + 1
        /\ UNCHANGED <<version, list, editing, fetching, libForm, gets, libSaving, saves, libTarget, libDeleting,
                       deletes, crossed, libSeen, untold, upsets>>
    BY <1>1 DEF Library!Refresh, Library!Op, Library!dialog, Library!removal
  <2>1. /\ (Library!Shown # {}) \in BOOLEAN /\ Library!Load(Library!Shown # {}, "none")
    BY <1>1 DEF Library!Refresh, Library!None
  <2>2. LibListInv /\ version' \in Library!Versions /\ untold' \subseteq Templates
    BY <2>0 DEF LibInv, LibListInv, LibListType
  <2>3. LibListInv' /\ libReads \subseteq libReads'
    BY <2>0, <2>1, <2>2, LibReadAgain
  <2>4. LibDialogInv'
    BY <2>0 DEF LibInv, LibDialogInv, LibDialogType, LibForms
  <2>5. LibWriteType'
    BY <2>0, LibNumbers DEF LibInv, LibWriteInv, LibWriteType
  <2>6. LibDeletes' /\ LibSaves' /\ Library!SavedWhereFilled'
    BY <2>0, <2>3 DEF LibInv, LibWriteInv, LibDeletes, LibSaves, Library!SavedWhereFilled
  <2>7. LibBudget'
    BY <2>0, LibNumbers DEF LibInv, LibWriteInv, LibBudget, LibSent
  <2> QED
    BY <2>3, <2>4, <2>5, <2>6, <2>7 DEF LibInv, LibWriteInv
<1>2. CASE Library!Dismiss
  <2>0. /\ libFailed' = FALSE
        /\ UNCHANGED <<version, list, libLoading, libRefreshing, libReads, editing, fetching, libForm, gets, libSaving,
                       saves, libTarget, libDeleting, deletes, crossed, libSeen, untold, ops, upsets>>
    BY <1>2 DEF Library!Dismiss, Library!dialog, Library!removal
  <2>1. LibListInv'
    BY <2>0 DEF LibInv, LibListInv, LibListType, LibBounded, LibFollows, LibChange, LibNewest, LibFlags
  <2>2. LibDialogInv'
    BY <2>0 DEF LibInv, LibDialogInv, LibDialogType, LibForms
  <2>3. LibWriteInv'
    BY <2>0 DEF LibInv, LibWriteInv, LibWriteType, LibBudget, LibSent, LibDeletes, LibSaves, Library!SavedWhereFilled
  <2> QED
    BY <2>1, <2>2, <2>3 DEF LibInv
<1> QED
  BY <1>1, <1>2

-----------------------------------------------------------------------------
(* The dialog of a template, and the one that asks.                        *)

LEMMA LibOpenStep ==
    ASSUME LibInv, NEW t \in Templates, Library!OpenEdit(t)
    PROVE  LibInv'
<1>0. /\ editing = "none" /\ ops < MaxLibraryOps /\ ops' = ops + 1 /\ editing' = t /\ fetching' = TRUE
      /\ gets' = gets \cup {[of |-> t, n |-> ops]} /\ crossed' = (\E g \in gets : g.of # t)
      /\ UNCHANGED <<version, list, libLoading, libRefreshing, libFailed, libReads, libForm, libSaving, saves,
                     libTarget, libDeleting, deletes, libSeen, untold, upsets>>
  BY DEF Library!OpenEdit, Library!Modal, Library!None, Library!Op, Library!Quiet, Library!library, Library!removal
<1>1. LibListInv'
  BY <1>0 DEF LibInv, LibListInv, LibListType, LibBounded, LibFollows, LibChange, LibNewest, LibFlags
<1>2. [of |-> t, n |-> ops] \in [of : Templates, n : 0..MaxLibraryOps]
  BY LibNumbers
<1>3. LibDialogType'
  BY <1>0, <1>2 DEF LibInv, LibDialogInv, LibDialogType
<1>4. LibForms'
  BY <1>0 DEF LibInv, LibDialogInv, LibForms
<1>5. fetching' => gets' # {}
  BY <1>0
<1>6. LibWriteType'
  BY <1>0, LibNumbers DEF LibInv, LibWriteInv, LibWriteType
<1>7. LibDeletes' /\ LibSaves' /\ Library!SavedWhereFilled'
  BY <1>0 DEF LibInv, LibWriteInv, LibDeletes, LibSaves, Library!SavedWhereFilled
<1>8. LibBudget'
  BY <1>0, LibNumbers DEF LibInv, LibWriteInv, LibBudget, LibSent
<1> QED
  BY <1>1, <1>3, <1>4, <1>5, <1>6, <1>7, <1>8 DEF LibInv, LibDialogInv, LibWriteInv

LEMMA LibFormStep ==
    ASSUME LibInv, \/ Library!CloseEdit \/ Library!Edit
                   \/ \E g \in gets : Library!Filled(g) \/ Library!NotFilled(g)
    PROVE  LibInv'
<1>0. /\ editing' \in {editing, "none"} /\ upsets' - upsets \in {0, 1} /\ upsets' \in 0..MaxUpsets
      /\ UNCHANGED <<version, list, libLoading, libRefreshing, libFailed, libReads, libSaving, saves,
                     libTarget, libDeleting, deletes, crossed, libSeen, untold, ops>>
  <2>1. CASE UNCHANGED upsets
    BY <2>1, LibNumbers DEF Library!CloseEdit, Library!Edit, Library!Filled, Library!NotFilled, Library!Quiet,
         Library!library, Library!removal, Library!None
  <2>2. CASE Library!Fault /\ \E g \in gets : Library!NotFilled(g)
    BY <2>2, LibNumbers DEF Library!NotFilled, Library!Quiet, Library!Fault,
         Library!library, Library!removal, Library!None
  <2> QED
    BY <2>1, <2>2 DEF Library!CloseEdit, Library!Edit, Library!Filled, Library!NotFilled
<1>1. LibListInv'
  BY <1>0 DEF LibInv, LibListInv, LibListType, LibBounded, LibFollows, LibChange, LibNewest, LibFlags
<1>2. LibDialogInv'
  <2>0. "none" \notin Templates
    BY NoneIsNobody
  <2>1. CASE Library!CloseEdit
    BY <1>0, <2>1 DEF Library!CloseEdit, Library!None, Library!NoForm, LibInv, LibDialogInv, LibDialogType, LibForms
  <2>2. CASE Library!Edit
    <3>1. libForm' = [libForm EXCEPT !.valid = ~@] /\ libForm # Library!NoForm /\ UNCHANGED <<editing, fetching, gets>>
      BY <2>2 DEF Library!Edit, Library!Fields
    <3>2. libForm' \in [of : Templates \cup {"none"}, valid : BOOLEAN] /\ libForm'.of = libForm.of
      BY <3>1 DEF LibInv, LibDialogInv, LibDialogType
    <3> QED
      BY <1>0, <3>1, <3>2 DEF LibInv, LibDialogInv, LibDialogType, LibForms
  <2>3. ASSUME NEW g \in gets, Library!Filled(g) PROVE LibDialogInv'
    <3>1. /\ gets' = gets \ {g} /\ libForm' = [of |-> g.of, valid |-> TRUE] /\ fetching' = FALSE
          /\ UNCHANGED <<editing, crossed>>
      BY <1>0, <2>3 DEF Library!Filled
    <3>2. g.of \in Templates /\ libForm'.of = g.of
      BY <3>1 DEF LibInv, LibDialogInv, LibDialogType
    <3>3. LibDialogType'
      BY <3>1, <3>2 DEF LibInv, LibDialogInv, LibDialogType
    <3>4. LibForms'
      BY <2>0, <3>1, <3>2 DEF LibInv, LibDialogInv, LibForms
    <3> QED
      BY <3>1, <3>3, <3>4 DEF LibDialogInv
  <2>4. ASSUME NEW g \in gets, Library!NotFilled(g) PROVE LibDialogInv'
    <3>1. /\ gets' = gets \ {g} /\ libForm' = Library!NoForm /\ fetching' = FALSE
          /\ UNCHANGED <<editing, crossed>>
      BY <1>0, <2>4 DEF Library!NotFilled
    <3>2. libForm' \in [of : Templates \cup {"none"}, valid : BOOLEAN] /\ libForm'.of = "none"
      BY <3>1 DEF Library!NoForm, Library!None
    <3>3. LibDialogType'
      BY <3>1, <3>2 DEF LibInv, LibDialogInv, LibDialogType
    <3>4. LibForms'
      BY <3>1, <3>2 DEF LibInv, LibDialogInv, LibForms
    <3> QED
      BY <3>1, <3>3, <3>4 DEF LibDialogInv
  <2> QED
    BY <2>1, <2>2, <2>3, <2>4
<1>3. LibWriteType'
  BY <1>0 DEF LibInv, LibWriteInv, LibWriteType
<1>4. LibDeletes' /\ LibSaves' /\ Library!SavedWhereFilled'
  BY <1>0 DEF LibInv, LibWriteInv, LibDeletes, LibSaves, Library!SavedWhereFilled
<1>5. LibBudget'
  BY <1>0, LibNumbers DEF LibInv, LibWriteInv, LibBudget, LibSent
<1> QED
  BY <1>1, <1>2, <1>3, <1>4, <1>5 DEF LibInv, LibWriteInv

LEMMA LibQuestionStep ==
    ASSUME LibInv, (\E t \in Templates : Library!AskDelete(t)) \/ Library!CancelDelete \/ Library!ConfirmDelete
    PROVE  LibInv'
<1>0. /\ libTarget' \in Templates \cup {"none"} /\ ops' - ops \in {0, 1} /\ ops' \in 0..MaxLibraryOps
      /\ \/ UNCHANGED <<libDeleting, deletes>>
         \/ libDeleting' = TRUE /\ libTarget \in Templates /\ deletes' = deletes \cup {[of |-> libTarget, pc |-> "sent"]}
      /\ UNCHANGED <<version, list, libLoading, libRefreshing, libFailed, libReads, editing, fetching, libForm, gets,
                     libSaving, saves, crossed, libSeen, untold, upsets>>
  <2>0. libTarget \in Templates \cup {"none"}
    BY DEF LibInv, LibWriteInv, LibWriteType
  <2>1. CASE \E t \in Templates : Library!AskDelete(t)
    BY <2>0, <2>1, LibNumbers DEF Library!AskDelete, Library!Op, Library!Calm, Library!library, Library!dialog
  <2>2. CASE Library!CancelDelete \/ Library!ConfirmDelete
    BY <2>0, <2>2, LibNumbers DEF Library!CancelDelete, Library!ConfirmDelete, Library!Calm, Library!library,
         Library!dialog, Library!None
  <2> QED
    BY <2>1, <2>2
<1>1. [of |-> libTarget, pc |-> "sent"].pc # "ok"
  OBVIOUS
<1>2. \A t \in Templates : LibChange(t)' <=> LibChange(t)
  BY <1>0, <1>1 DEF LibChange
<1>3. LibListInv'
  BY <1>0, <1>2 DEF LibInv, LibListInv, LibListType, LibBounded, LibFollows, LibNewest, LibFlags
<1>4. LibDialogInv'
  BY <1>0 DEF LibInv, LibDialogInv, LibDialogType, LibForms
<1>5. LibWriteType'
  <2>1. CASE libTarget \in Templates /\ libDeleting' = TRUE /\ deletes' = deletes \cup {[of |-> libTarget, pc |-> "sent"]}
    <3>1. [of |-> libTarget, pc |-> "sent"] \in [of : Templates, pc : {"sent", "ok"}]
      BY <2>1
    <3> QED
      BY <1>0, <2>1, <3>1 DEF LibInv, LibWriteInv, LibWriteType
  <2> QED
    BY <1>0, <2>1 DEF LibInv, LibWriteInv, LibWriteType
<1>6. LibDeletes' /\ LibSaves' /\ Library!SavedWhereFilled'
  <2>1. LibDeletes'
    BY <1>0 DEF LibInv, LibWriteInv, LibDeletes
  <2> QED
    BY <1>0, <2>1 DEF LibInv, LibWriteInv, LibSaves, Library!SavedWhereFilled
<1>7. LibBudget'
  BY <1>0, LibNumbers DEF LibInv, LibWriteInv, LibBudget, LibSent
<1> QED
  BY <1>3, <1>4, <1>5, <1>6, <1>7 DEF LibInv, LibWriteInv

-----------------------------------------------------------------------------
(* Saving a template.                                                      *)

LEMMA LibSaveStep ==
    ASSUME LibInv, Library!Save
    PROVE  LibInv'
<1> DEFINE new == [to |-> editing, from |-> libForm.of, crossed |-> crossed, pc |-> "sent"]
<1>0. /\ editing # "none" /\ libForm # Library!NoForm /\ ~fetching /\ ~libSaving /\ libSaving' = TRUE
      /\ saves' = saves \cup {new}
      /\ UNCHANGED <<version, list, libLoading, libRefreshing, libFailed, libReads, editing, fetching, libForm, gets,
                     libTarget, libDeleting, deletes, crossed, libSeen, untold, ops, upsets>>
  BY DEF Library!Save, Library!Fields, Library!Quiet, Library!None, Library!library, Library!dialog, Library!removal
<1>1. saves = {} /\ saves' = {new}
  BY <1>0 DEF LibInv, LibWriteInv, LibSaves, LibWriteType
<1>2. editing \in Templates /\ libForm.of \in Templates /\ (crossed \/ libForm.of = editing) /\ crossed \in BOOLEAN
  BY <1>0 DEF LibInv, LibDialogInv, LibDialogType, LibForms
<1>3. /\ new \in [to : Templates, from : Templates, crossed : BOOLEAN, pc : {"sent", "ok"}]
      /\ new.pc = "sent" /\ (new.from = new.to \/ new.crossed)
  BY <1>2
<1> HIDE DEF new
<1>4. \A t \in Templates : LibChange(t)' <=> LibChange(t)
  BY <1>0, <1>1, <1>3 DEF LibChange
<1>5. LibListInv'
  BY <1>0, <1>4 DEF LibInv, LibListInv, LibListType, LibBounded, LibFollows, LibNewest, LibFlags
<1>6. LibDialogInv'
  BY <1>0 DEF LibInv, LibDialogInv, LibDialogType, LibForms
<1>7. LibWriteType'
  BY <1>0, <1>1, <1>3 DEF LibInv, LibWriteInv, LibWriteType
<1>8. LibDeletes' /\ LibSaves' /\ Library!SavedWhereFilled'
  BY <1>0, <1>1, <1>3 DEF LibInv, LibWriteInv, LibDeletes, LibSaves, Library!SavedWhereFilled
<1>9. LibBudget'
  BY <1>0, <1>1, LibNumbers DEF LibInv, LibWriteInv, LibBudget, LibSent
<1> QED
  BY <1>5, <1>6, <1>7, <1>8, <1>9 DEF LibInv, LibWriteInv

\* There is one request to save, if any.
LEMMA LibOneSave ==
    ASSUME LibInv, NEW s \in saves
    PROVE  /\ saves = {s} /\ s.to \in Templates /\ s.from \in Templates /\ s.pc \in {"sent", "ok"}
           /\ s \in [to : Templates, from : Templates, crossed : BOOLEAN, pc : {"sent", "ok"}]
           /\ (s.from = s.to \/ s.crossed)
           /\ s.pc = "sent" => \A t \in Templates : version[t] <= ops + upsets
<1>1. saves = {s}
  BY DEF LibInv, LibWriteInv, LibSaves
<1>2. s \in [to : Templates, from : Templates, crossed : BOOLEAN, pc : {"sent", "ok"}]
  BY DEF LibInv, LibWriteInv, LibWriteType
<1>3. s.pc = "sent" => \A t \in Templates : version[t] <= ops + upsets
  BY DEF LibInv, LibWriteInv, LibBudget, LibSent
<1> QED
  BY <1>1, <1>2, <1>3 DEF LibInv, LibWriteInv, Library!SavedWhereFilled

LEMMA LibServeSaveStep ==
    ASSUME LibInv, NEW s \in saves, Library!ServeSave(s)
    PROVE  LibInv'
<1> DEFINE done == [s EXCEPT !.pc = "ok"]
<1>0. /\ s.pc = "sent" /\ version' = [version EXCEPT ![s.to] = @ + 1] /\ saves' = (saves \ {s}) \cup {done}
      /\ UNCHANGED <<list, libLoading, libRefreshing, libFailed, libReads, editing, fetching, libForm, gets, libSaving,
                     libTarget, libDeleting, deletes, crossed, libSeen, untold, ops, upsets>>
  BY DEF Library!ServeSave, Library!library, Library!dialog, Library!removal
<1>1. saves' = {done}
  BY <1>0, LibOneSave
<1>2. /\ done \in [to : Templates, from : Templates, crossed : BOOLEAN, pc : {"sent", "ok"}]
      /\ done.pc = "ok" /\ done.to = s.to /\ (done.from = done.to \/ done.crossed)
  BY LibOneSave
<1> HIDE DEF done
<1>3. version \in Library!Versions
  BY DEF LibInv, LibListInv, LibListType
<1>4. version \in [Templates -> Nat]
  BY <1>3, LibNumbers DEF Library!Versions
<1>5. \A t \in Templates : version'[t] = IF t = s.to THEN version[t] + 1 ELSE version[t]
  BY <1>0, <1>4
<1>6. \A t \in Templates : version'[t] \in Nat /\ version'[t] <= 1 + ops + upsets
  BY <1>0, <1>4, <1>5, LibOneSave, LibNumbers
<1>7. version' \in Library!Versions
  <2>1. \A t \in Templates : version'[t] \in 0..(MaxLibraryOps + MaxUpsets + 1)
    BY <1>6, LibNumbers
  <2>2. version' = [t \in Templates |-> version'[t]]
    BY <1>0, <1>4
  <2> QED
    BY <2>1, <2>2 DEF Library!Versions
<1>8. LibListType'
  BY <1>0, <1>7 DEF LibInv, LibListInv, LibListType
<1>9. LibFollows'
  <2> SUFFICES ASSUME NEW t \in Templates \ untold, ~LibChange(t)'
               PROVE  /\ \A r \in libReads : LibNewest(r) => r.rows[t] = version'[t]
                      /\ (\A r \in libReads : r.n <= libSeen.n) /\ libSeen.inOrder => list[t] = version'[t]
    BY <1>0 DEF LibFollows, LibNewest
  <2>1. t # s.to
    BY <1>1, <1>2 DEF LibChange
  <2>2. ~LibChange(t)
    BY <1>0, LibOneSave DEF LibChange
  <2> QED
    BY <1>5, <2>1, <2>2 DEF LibInv, LibListInv, LibFollows
<1>10. LibBounded' /\ LibFlags'
  BY <1>0 DEF LibInv, LibListInv, LibBounded, LibFlags
<1>11. LibDialogInv'
  BY <1>0 DEF LibInv, LibDialogInv, LibDialogType, LibForms
<1>12. LibWriteType'
  BY <1>0, <1>1, <1>2 DEF LibInv, LibWriteInv, LibWriteType
<1>13. LibDeletes' /\ LibSaves' /\ Library!SavedWhereFilled'
  BY <1>0, <1>1, <1>2 DEF LibInv, LibWriteInv, LibDeletes, LibSaves, Library!SavedWhereFilled
<1>14. LibBudget'
  BY <1>0, <1>1, <1>2, <1>6 DEF LibBudget, LibSent
<1> QED
  BY <1>8, <1>9, <1>10, <1>11, <1>12, <1>13, <1>14 DEF LibInv, LibListInv, LibWriteInv

LEMMA LibSavedStep ==
    ASSUME LibInv, NEW s \in saves, Library!Saved(s)
    PROVE  LibInv'
<1>0. /\ saves' = {} /\ libSaving' = FALSE /\ editing' = "none" /\ libForm' \in {libForm, Library!NoForm}
      /\ Library!Load(TRUE, "none")
      /\ UNCHANGED <<version, list, fetching, gets, libTarget, libDeleting, deletes, crossed, libSeen, untold, ops, upsets>>
  BY LibOneSave DEF Library!Saved, Library!None, Library!removal
<1>1. LibListInv /\ version' \in Library!Versions /\ untold' \subseteq Templates
  BY <1>0 DEF LibInv, LibListInv, LibListType
<1>2. LibListInv' /\ libReads \subseteq libReads'
  BY <1>0, <1>1, LibReadAgain
<1>3. Library!NoForm \in [of : Templates \cup {"none"}, valid : BOOLEAN]
  BY DEF Library!NoForm, Library!None
<1>4. LibDialogInv'
  BY <1>0, <1>3 DEF LibInv, LibDialogInv, LibDialogType, LibForms
<1>5. LibWriteType'
  BY <1>0 DEF LibInv, LibWriteInv, LibWriteType
<1>6. LibDeletes' /\ LibSaves' /\ Library!SavedWhereFilled'
  BY <1>0, <1>2 DEF LibInv, LibWriteInv, LibDeletes, LibSaves, Library!SavedWhereFilled
<1>7. LibBudget'
  BY <1>0 DEF LibInv, LibWriteInv, LibBudget, LibSent
<1> QED
  BY <1>2, <1>4, <1>5, <1>6, <1>7 DEF LibInv, LibWriteInv

LEMMA LibSaveFailsStep ==
    ASSUME LibInv, NEW s \in saves, Library!SaveFails(s)
    PROVE  LibInv'
<1>0. /\ saves' = {} /\ libSaving' = FALSE
      /\ untold' = (IF s.pc = "ok" THEN untold \cup {s.to} ELSE untold)
      /\ \/ upsets' = upsets + 1 /\ upsets < MaxUpsets
         \/ upsets' = upsets /\ s.pc = "sent"
      /\ UNCHANGED <<version, list, libLoading, libRefreshing, libFailed, libReads, editing, fetching, libForm, gets,
                     libTarget, libDeleting, deletes, crossed, libSeen, ops>>
  BY LibOneSave DEF Library!SaveFails, Library!Fault, Library!library, Library!dialog, Library!removal
<1>1. untold' \subseteq Templates /\ upsets' \in 0..MaxUpsets
  BY <1>0, LibOneSave, LibNumbers DEF LibInv, LibListInv, LibListType
<1>2. \A t \in Templates \ untold' : t \in Templates \ untold /\ (LibChange(t) => LibChange(t)')
  BY <1>0, LibOneSave DEF LibChange
<1>3. LibFollows'
  BY <1>0, <1>2 DEF LibInv, LibListInv, LibFollows, LibNewest
<1>4. LibListInv'
  BY <1>0, <1>1, <1>3 DEF LibInv, LibListInv, LibListType, LibBounded, LibFlags
<1>5. LibDialogInv'
  BY <1>0 DEF LibInv, LibDialogInv, LibDialogType, LibForms
<1>6. LibWriteType'
  BY <1>0, <1>1 DEF LibInv, LibWriteInv, LibWriteType
<1>7. LibDeletes' /\ LibSaves' /\ Library!SavedWhereFilled'
  BY <1>0 DEF LibInv, LibWriteInv, LibDeletes, LibSaves, Library!SavedWhereFilled
<1>8. LibBudget'
  <2>1. ~LibSent'
    BY <1>0 DEF LibSent
  <2>2. \A t \in Templates : version[t] <= 1 + ops + upsets
    BY DEF LibInv, LibWriteInv, LibBudget
  <2>3. \A t \in Templates : version[t] <= ops + upsets'
    BY <1>0, <2>2, LibOneSave, LibNumbers
  <2> QED
    BY <1>0, <1>1, <2>1, <2>3, LibNumbers DEF LibBudget
<1> QED
  BY <1>4, <1>5, <1>6, <1>7, <1>8 DEF LibInv, LibWriteInv

-----------------------------------------------------------------------------
(* Deleting a template.                                                    *)

LEMMA LibServeDeleteStep ==
    ASSUME LibInv, NEW d \in deletes, Library!ServeDelete(d)
    PROVE  LibInv'
<1> DEFINE done == [d EXCEPT !.pc = "ok"]
<1>0. /\ version' = [version EXCEPT ![d.of] = 0] /\ d.pc = "sent" /\ deletes' = (deletes \ {d}) \cup {done}
      /\ UNCHANGED <<list, libLoading, libRefreshing, libFailed, libReads, editing, fetching, libForm, gets, libSaving,
                     saves, libTarget, libDeleting, crossed, libSeen, untold, ops, upsets>>
  BY DEF Library!ServeDelete, Library!library, Library!Calm, Library!dialog
<1>1. d \in [of : Templates, pc : {"sent", "ok"}]
  BY DEF LibInv, LibWriteInv, LibWriteType
<1>2. done \in [of : Templates, pc : {"sent", "ok"}] /\ done.pc = "ok" /\ done.of = d.of /\ done \in deletes'
  BY <1>0, <1>1
<1> HIDE DEF done
<1>3. version \in Library!Versions
  BY DEF LibInv, LibListInv, LibListType
<1>4. version \in [Templates -> Nat]
  BY <1>3, LibNumbers DEF Library!Versions
<1>5. \A t \in Templates : version'[t] = IF t = d.of THEN 0 ELSE version[t]
  BY <1>0, <1>4
<1>6. version' \in Library!Versions
  <2>1. 0 \in 0..(MaxLibraryOps + MaxUpsets + 1)
    BY LibNumbers
  <2> QED
    BY <1>0, <1>3, <2>1 DEF Library!Versions
<1>7. LibListType'
  BY <1>0, <1>6 DEF LibInv, LibListInv, LibListType
<1>8. LibFollows'
  <2> SUFFICES ASSUME NEW t \in Templates \ untold, ~LibChange(t)'
               PROVE  /\ \A r \in libReads : LibNewest(r) => r.rows[t] = version'[t]
                      /\ (\A r \in libReads : r.n <= libSeen.n) /\ libSeen.inOrder => list[t] = version'[t]
    BY <1>0 DEF LibFollows, LibNewest
  <2>1. t # d.of
    BY <1>2 DEF LibChange
  <2>2. ~LibChange(t)
    BY <1>0 DEF LibChange
  <2> QED
    BY <1>5, <2>1, <2>2 DEF LibInv, LibListInv, LibFollows
<1>9. LibBounded' /\ LibFlags'
  BY <1>0 DEF LibInv, LibListInv, LibBounded, LibFlags
<1>10. LibDialogInv'
  BY <1>0 DEF LibInv, LibDialogInv, LibDialogType, LibForms
<1>11. LibWriteType'
  BY <1>0, <1>2 DEF LibInv, LibWriteInv, LibWriteType
<1>12. LibDeletes' /\ LibSaves' /\ Library!SavedWhereFilled'
  BY <1>0, <1>2 DEF LibInv, LibWriteInv, LibDeletes, LibSaves, Library!SavedWhereFilled
<1>13. LibBudget'
  BY <1>0, <1>5, LibNumbers DEF LibInv, LibWriteInv, LibBudget, LibSent
<1> QED
  BY <1>7, <1>8, <1>9, <1>10, <1>11, <1>12, <1>13 DEF LibInv, LibListInv, LibWriteInv

LEMMA LibDeletedStep ==
    ASSUME LibInv, NEW d \in deletes, Library!Deleted(d)
    PROVE  LibInv'
<1>0. /\ deletes' = deletes \ {d} /\ libTarget' = "none" /\ Library!Load(TRUE, "delete")
      /\ UNCHANGED <<version, list, editing, fetching, libForm, gets, libSaving, saves, libDeleting, crossed, libSeen,
                     untold, ops, upsets>>
  BY DEF Library!Deleted, Library!None, Library!Calm, Library!dialog
<1>1. LibListInv /\ version' \in Library!Versions /\ untold' \subseteq Templates
  BY <1>0 DEF LibInv, LibListInv, LibListType
<1>2. LibListInv' /\ \E r \in libReads' : r.after = "delete"
  BY <1>0, <1>1, LibReadAgain
<1>3. LibDialogInv'
  BY <1>0 DEF LibInv, LibDialogInv, LibDialogType, LibForms
<1>4. LibWriteType'
  BY <1>0 DEF LibInv, LibWriteInv, LibWriteType
<1>5. LibDeletes' /\ LibSaves' /\ Library!SavedWhereFilled'
  BY <1>0, <1>2 DEF LibInv, LibWriteInv, LibDeletes, LibSaves, Library!SavedWhereFilled
<1>6. LibBudget'
  BY <1>0 DEF LibInv, LibWriteInv, LibBudget, LibSent
<1> QED
  BY <1>2, <1>3, <1>4, <1>5, <1>6 DEF LibInv, LibWriteInv

LEMMA LibDeleteFailsStep ==
    ASSUME LibInv, NEW d \in deletes, Library!DeleteFails(d)
    PROVE  LibInv'
<1>0. /\ deletes' = deletes \ {d} /\ libDeleting' = FALSE /\ libFailed' = TRUE
      /\ untold' = (IF d.pc = "ok" THEN untold \cup {d.of} ELSE untold)
      /\ (upsets' = upsets + 1 /\ upsets < MaxUpsets) \/ upsets' = upsets
      /\ UNCHANGED <<version, list, libLoading, libRefreshing, libReads, editing, fetching, libForm, gets, libSaving,
                     saves, libTarget, crossed, libSeen, ops>>
  BY DEF Library!DeleteFails, Library!Fault, Library!Calm, Library!dialog
<1>1. d.of \in Templates /\ untold' \subseteq Templates /\ upsets' \in 0..MaxUpsets
  BY <1>0, LibNumbers DEF LibInv, LibListInv, LibListType, LibWriteInv, LibWriteType
<1>2. \A t \in Templates \ untold' : t \in Templates \ untold /\ (LibChange(t) => LibChange(t)')
  BY <1>0 DEF LibChange
<1>3. LibFollows'
  BY <1>0, <1>2 DEF LibInv, LibListInv, LibFollows, LibNewest
<1>4. LibListInv'
  BY <1>0, <1>1, <1>3 DEF LibInv, LibListInv, LibListType, LibBounded, LibFlags
<1>5. LibDialogInv'
  BY <1>0 DEF LibInv, LibDialogInv, LibDialogType, LibForms
<1>6. LibWriteType'
  BY <1>0, <1>1 DEF LibInv, LibWriteInv, LibWriteType
<1>7. LibDeletes' /\ LibSaves' /\ Library!SavedWhereFilled'
  BY <1>0 DEF LibInv, LibWriteInv, LibDeletes, LibSaves, Library!SavedWhereFilled
<1>8. LibBudget'
  BY <1>0, <1>1, LibNumbers DEF LibInv, LibWriteInv, LibBudget, LibSent
<1> QED
  BY <1>4, <1>5, <1>6, <1>7, <1>8 DEF LibInv, LibWriteInv

LEMMA LibStart == Library!Init => LibInv
<1> SUFFICES ASSUME Library!Init PROVE LibInv
  OBVIOUS
<1> DEFINE first == [n |-> 1, silent |-> FALSE, after |-> "none", rows |-> version]
<1>0. /\ version = [t \in Templates |-> 1] /\ list = [t \in Templates |-> 0]
      /\ libLoading = TRUE /\ libRefreshing = FALSE /\ libFailed = FALSE /\ libReads = {first}
      /\ editing = "none" /\ fetching = FALSE /\ libForm = Library!NoForm /\ gets = {}
      /\ libSaving = FALSE /\ saves = {} /\ libTarget = "none" /\ libDeleting = FALSE /\ deletes = {}
      /\ crossed = FALSE /\ libSeen = [n |-> 0, inOrder |-> TRUE] /\ untold = {} /\ ops = 0 /\ upsets = 0
  BY DEF Library!Init, Library!None
<1>1. MaxLibraryOps \in Nat /\ MaxUpsets \in Nat
  BY PagesAssumption
<1>2. version \in Library!Versions /\ list \in Library!Versions
  BY <1>0, <1>1 DEF Library!Versions
<1>3. first \in [n : Nat, silent : BOOLEAN, after : {"none", "delete"}, rows : Library!Versions]
      /\ first.n = 1 /\ first.rows = version /\ first.silent = FALSE
  BY <1>2
<1> HIDE DEF first
<1>4. LibListType
  BY <1>0, <1>2, <1>3 DEF LibListType
<1>5. LibBounded /\ LibFollows /\ LibFlags
  <2>1. libSeen.n = 0
    BY <1>0
  <2> QED
    BY <1>0, <1>3, <2>1 DEF LibBounded, LibFollows, LibFlags
<1>6. LibDialogInv
  BY <1>0 DEF LibDialogInv, LibDialogType, LibForms, Library!NoForm, Library!None
<1>7. LibWriteInv
  <2>1. LibWriteType
    <3>1. 0 \in 0..MaxLibraryOps /\ 0 \in 0..MaxUpsets
      BY <1>1
    <3> QED
      BY <1>0, <3>1 DEF LibWriteType
  <2>2. \A t \in Templates : version[t] = 1
    BY <1>0
  <2>3. LibBudget
    BY <1>0, <2>2 DEF LibBudget, LibSent
  <2> QED
    BY <1>0, <2>1, <2>3 DEF LibWriteInv, LibDeletes, LibSaves, Library!SavedWhereFilled
<1> QED
  BY <1>4, <1>5, <1>6, <1>7 DEF LibInv, LibListInv

LEMMA LibStep == LibInv /\ [Library!Next]_(Library!vars) => LibInv'
<1> SUFFICES ASSUME LibInv, [Library!Next]_(Library!vars) PROVE LibInv'
  OBVIOUS
<1>1. CASE Library!Next
  BY <1>1, LibListStep, LibReadingStep, LibOpenStep, LibQuestionStep, LibFormStep, LibSaveStep, LibServeSaveStep,
     LibSavedStep, LibSaveFailsStep, LibServeDeleteStep, LibDeletedStep, LibDeleteFailsStep DEF Library!Next
<1>2. CASE UNCHANGED Library!vars
  <2>0. UNCHANGED <<version, list, libLoading, libRefreshing, libFailed, libReads, editing, fetching, libForm, gets,
                    libSaving, saves, libTarget, libDeleting, deletes, crossed, libSeen, untold, ops, upsets>>
    BY <1>2 DEF Library!vars, Library!library, Library!dialog, Library!removal
  <2>1. LibListInv'
    BY <2>0 DEF LibInv, LibListInv, LibListType, LibBounded, LibFollows, LibChange, LibNewest, LibFlags
  <2>2. LibDialogInv'
    BY <2>0 DEF LibInv, LibDialogInv, LibDialogType, LibForms
  <2>3. LibWriteInv'
    BY <2>0 DEF LibInv, LibWriteInv, LibWriteType, LibBudget, LibSent, LibDeletes, LibSaves, Library!SavedWhereFilled
  <2> QED
    BY <2>1, <2>2, <2>3 DEF LibInv
<1> QED
  BY <1>1, <1>2

LEMMA LibPromises == LibInv => Library!TypeOK /\ Library!TemplatesAreRight
<1> SUFFICES ASSUME LibInv PROVE Library!TypeOK /\ Library!TemplatesAreRight
  OBVIOUS
<1>1. Library!TypeOK
  BY DEF LibInv, LibListInv, LibListType, LibDialogInv, LibDialogType, LibWriteInv, LibWriteType, Library!TypeOK, Library!None
<1>2. Library!FlagsHaveCalls
  BY DEF LibInv, LibListInv, LibFlags, LibDialogInv, LibWriteInv, LibDeletes, LibSaves, Library!FlagsHaveCalls
<1>3. Library!ListIsLibrary
  BY DEF LibInv, LibListInv, LibFollows, LibChange, Library!ListIsLibrary
<1> QED
  BY <1>1, <1>2, <1>3 DEF LibInv, LibWriteInv, Library!TemplatesAreRight

-----------------------------------------------------------------------------
(* The team's page: its invariant.                                         *)

Role == Team!Roles \cup {"none"}
TeamCalls == [kind : {"invite", "role", "off", "cancel", "resend"}, of : People, to : Role,
              n : 0..MaxTeamOps, pc : {"sent", "ok"}]
TeamReads == [n : Nat, rows : Team!Tables, after : {"none", "invite"}]

TeamServerType == role \in [People -> Role] /\ off \subseteq People /\ invited \subseteq People
TeamListType ==
    /\ members \in [role : [People -> Role], off : SUBSET People] /\ pending \subseteq People
    /\ room \in BOOLEAN /\ teamLoading \in BOOLEAN /\ teamReads \subseteq TeamReads
    /\ teamSeen \in [n : Nat, inOrder : BOOLEAN]
TeamFormType ==
    /\ showInvite \in BOOLEAN /\ inviting \in BOOLEAN
    /\ email \in People \cup {"none"} /\ teamTarget \in People \cup {"none"}
TeamCallType ==
    /\ teamCalls \subseteq TeamCalls
    /\ confirmed \subseteq People /\ chosen \in [People -> Role] /\ aside \subseteq People
    /\ ops \in 0..MaxTeamOps /\ upsets \in 0..MaxUpsets
TeamTypes == TeamServerType /\ TeamListType /\ TeamFormType /\ TeamCallType

TeamBounded == \E b \in Nat : teamSeen.n <= b /\ \A r \in teamReads : r.n <= b

\* Until a change is answered, the newest read that is not overtaken is of the team as it
\* is; after its answer the lists are.
TeamChange(p) == \E c \in teamCalls : c.of = p /\ c.pc = "ok"
TeamNewest(r) == teamSeen.n < r.n /\ \A q \in teamReads : q.n <= r.n
TeamAsIs(m, o, i, p) == m[p] = role[p] /\ (p \in o <=> p \in off) /\ (p \in i <=> p \in invited)
TeamFollows ==
    \A p \in People \ aside :
        \/ TeamChange(p)
        \/ /\ \A r \in teamReads : TeamNewest(r) => TeamAsIs(r.rows.role, r.rows.off, r.rows.invited, p)
           /\ (\A r \in teamReads : r.n <= teamSeen.n) /\ teamSeen.inOrder =>
                TeamAsIs(members.role, members.off, pending, p)

\* A role that was chosen is the member's, or is asked for by the one request that changes it.
TeamRole(c, p) == c.kind = "role" /\ c.of = p
TeamChosen ==
    \A p \in People \ aside : chosen[p] # "none" =>
        /\ (\A c \in teamCalls : ~TeamRole(c, p)) => role[p] = chosen[p]
        /\ \A c \in teamCalls : TeamRole(c, p) =>
              /\ c.to = chosen[p] /\ (c.pc = "ok" => role[p] = chosen[p])
              /\ \A d \in teamCalls : TeamRole(d, p) => d = c

TeamOff == off \subseteq confirmed /\ \A c \in teamCalls : c.kind = "off" => c.of \in confirmed

TeamInv ==
    /\ TeamTypes /\ TeamBounded /\ TeamFollows /\ TeamChosen /\ TeamOff
    /\ Team!FormHasSeats /\ Team!InviteEnds

-----------------------------------------------------------------------------
(* The lists of the team.                                                  *)

LEMMA TeamNumbers ==
    ASSUME TeamInv
    PROVE  /\ ops \in Nat /\ upsets \in Nat /\ MaxTeamOps \in Nat /\ MaxUpsets \in Nat
           /\ ops <= MaxTeamOps /\ upsets <= MaxUpsets
BY PagesAssumption DEF TeamInv, TeamTypes, TeamCallType

LEMMA TeamLatest ==
    ASSUME TeamInv
    PROVE  Team!Newest \in Nat /\ teamSeen.n <= Team!Newest /\ \A r \in teamReads : r.n <= Team!Newest
<1> DEFINE S == {teamSeen.n} \cup {r.n : r \in teamReads}
<1>1. S \in SUBSET Nat /\ teamSeen.n \in S /\ \A r \in teamReads : r.n \in S
  BY DEF TeamInv, TeamTypes, TeamListType, TeamReads
<1>2. PICK b \in Nat : \A x \in S : x <= b
  BY DEF TeamInv, TeamBounded
<1> HIDE DEF S
<1>3. PICK n \in S : \A x \in S : x <= n
  BY <1>1, <1>2, HighestOf
<1>4. n >= teamSeen.n /\ \A r \in teamReads : n >= r.n
  BY <1>1, <1>3
<1> USE DEF S
<1>5. \E k \in {teamSeen.n} \cup {r.n : r \in teamReads} : k >= teamSeen.n /\ \A r \in teamReads : k >= r.n
  BY <1>4
<1>6. Team!Newest \in S /\ Team!Newest >= teamSeen.n /\ \A r \in teamReads : Team!Newest >= r.n
  BY <1>5 DEF Team!Newest
<1>7. Team!Newest \in Nat
  BY <1>1, <1>6
<1>8. ASSUME NEW r \in teamReads PROVE r.n <= Team!Newest
  BY <1>1, <1>6, <1>7, <1>8
<1>9. teamSeen.n <= Team!Newest
  BY <1>1, <1>6, <1>7
<1> QED
  BY <1>7, <1>8, <1>9

\* The server's tables.
LEMMA TeamTables ==
    ASSUME TeamInv
    PROVE  /\ Team!Now \in Team!Tables /\ Team!Now.role = role /\ Team!Now.off = off /\ Team!Now.invited = invited
           /\ \A t \in Team!Tables : t.role \in [People -> Role] /\ t.off \in SUBSET People /\ t.invited \in SUBSET People
BY DEF TeamInv, TeamTypes, TeamServerType, Team!Now, Team!Tables, Role, Team!None

LEMMA TeamReadStep ==
    ASSUME TeamInv, NEW r \in teamReads, Team!Fetched(r) \/ Team!FetchFails(r)
    PROVE  TeamInv'
<1>0. /\ teamReads' = teamReads \ {r} /\ teamLoading' = FALSE /\ inviting' = (inviting /\ r.after # "invite")
      /\ UNCHANGED <<role, off, invited, email, teamTarget, teamCalls, confirmed, chosen, aside, ops>>
  BY DEF Team!Fetched, Team!FetchFails, Team!ReadEnds, Team!server, Team!past
<1>1. r \in TeamReads /\ r.rows \in Team!Tables /\ r.n \in Nat /\ teamSeen.n \in Nat /\ \A q \in teamReads : q.n \in Nat
  BY DEF TeamInv, TeamTypes, TeamListType, TeamReads
<1>2. teamSeen'.n = (IF r.n > teamSeen.n THEN r.n ELSE teamSeen.n) /\ teamSeen' \in [n : Nat, inOrder : BOOLEAN]
      /\ (teamSeen'.inOrder => r.n > teamSeen.n)
      /\ (teamSeen'.inOrder => Team!Fetched(r))
  <2>1. CASE Team!Fetched(r)
    BY <1>1, <2>1 DEF Team!Fetched, Team!ReadEnds
  <2>2. CASE Team!FetchFails(r)
    BY <1>1, <2>2 DEF Team!FetchFails, Team!ReadEnds
  <2> QED
    BY <2>1, <2>2
<1>3. /\ members' \in [role : [People -> Role], off : SUBSET People] /\ pending' \subseteq People
      /\ room' \in BOOLEAN /\ showInvite' \in BOOLEAN /\ (showInvite' => room') /\ upsets' \in 0..MaxUpsets
      /\ Team!Fetched(r) => \E m, i \in {r.rows, Team!Now} :
            members'.role = m.role /\ members'.off = m.off /\ pending' = i.invited
  <2>1. CASE Team!Fetched(r)
    <3>1. PICK m, i \in {r.rows, Team!Now} :
             /\ members' = [role |-> m.role, off |-> m.off] /\ room' = Team!Room(m) /\ pending' = i.invited
             /\ showInvite' = (showInvite /\ room')
      BY <2>1 DEF Team!Fetched
    <3>2. m \in Team!Tables /\ i \in Team!Tables
      BY <1>1, TeamTables
    <3>3. m.role \in [People -> Role] /\ m.off \in SUBSET People /\ i.invited \in SUBSET People
      BY <3>2, TeamTables
    <3>4. room' \in BOOLEAN
      BY <3>1 DEF Team!Room
    <3>5. upsets' \in 0..MaxUpsets
      BY <2>1 DEF Team!Fetched, TeamInv, TeamTypes, TeamCallType
    <3>6. members'.role = m.role /\ members'.off = m.off
      BY <3>1
    <3>7. members' \in [role : [People -> Role], off : SUBSET People]
      BY <3>1, <3>3
    <3>8. showInvite' \in BOOLEAN /\ (showInvite' => room')
      BY <3>1, <3>4
    <3>9. \E k, j \in {r.rows, Team!Now} : members'.role = k.role /\ members'.off = k.off /\ pending' = j.invited
      BY <3>1, <3>6
    <3> QED
      BY <3>1, <3>3, <3>4, <3>5, <3>7, <3>8, <3>9
  <2>2. CASE Team!FetchFails(r) /\ ~Team!Fetched(r)
    <3>1. UNCHANGED <<members, pending, room, showInvite>> /\ upsets < MaxUpsets /\ upsets' = upsets + 1
      BY <2>2 DEF Team!FetchFails, Team!Upset
    <3>2. upsets' \in 0..MaxUpsets
      BY <3>1, TeamNumbers
    <3> QED
      BY <2>2, <3>1, <3>2 DEF TeamInv, TeamTypes, TeamListType, TeamFormType, Team!FormHasSeats
  <2> QED
    BY <2>1, <2>2
<1>4. TeamServerType' /\ TeamListType' /\ TeamFormType' /\ TeamCallType'
  <2>1. TeamServerType'
    BY <1>0 DEF TeamInv, TeamTypes, TeamServerType
  <2>2. TeamListType'
    BY <1>0, <1>2, <1>3 DEF TeamInv, TeamTypes, TeamListType
  <2>3. TeamFormType'
    BY <1>0, <1>3 DEF TeamInv, TeamTypes, TeamFormType
  <2>4. TeamCallType'
    BY <1>0, <1>3 DEF TeamInv, TeamTypes, TeamCallType
  <2> QED
    BY <2>1, <2>2, <2>3, <2>4
<1>5. TeamBounded'
  <2>1. PICK b \in Nat : teamSeen.n <= b /\ \A q \in teamReads : q.n <= b
    BY DEF TeamInv, TeamBounded
  <2>2. teamSeen'.n <= b
    BY <1>2, <2>1
  <2> QED
    BY <1>0, <2>1, <2>2 DEF TeamBounded
<1>6. TeamFollows'
  <2> SUFFICES ASSUME NEW p \in People \ aside, ~TeamChange(p)
               PROVE  /\ \A q \in teamReads' : TeamNewest(q)' => TeamAsIs(q.rows.role, q.rows.off, q.rows.invited, p)
                      /\ (\A q \in teamReads' : q.n <= teamSeen'.n) /\ teamSeen'.inOrder =>
                            TeamAsIs(members'.role, members'.off, pending', p)
    BY <1>0 DEF TeamFollows, TeamChange, TeamAsIs
  <2>1. \A q \in teamReads : TeamNewest(q) => TeamAsIs(q.rows.role, q.rows.off, q.rows.invited, p)
    BY DEF TeamInv, TeamFollows
  <2>2. ASSUME NEW q \in teamReads', TeamNewest(q)' PROVE TeamAsIs(q.rows.role, q.rows.off, q.rows.invited, p)
    <3>1. q \in teamReads /\ q.n > teamSeen'.n /\ \A s \in teamReads \ {r} : s.n <= q.n
      BY <1>0, <2>2 DEF TeamNewest
    <3>2. teamSeen.n < q.n /\ r.n <= q.n
      BY <1>1, <1>2, <3>1
    <3> QED
      BY <2>1, <3>1, <3>2 DEF TeamNewest
  <2>3. ASSUME \A q \in teamReads' : q.n <= teamSeen'.n, teamSeen'.inOrder
        PROVE  TeamAsIs(members'.role, members'.off, pending', p)
    <3>1. r.n > teamSeen.n /\ teamSeen'.n = r.n
      BY <1>2, <2>3
    <3>2. \A q \in teamReads : q.n <= r.n
      BY <1>0, <1>1, <2>3, <3>1
    <3>3. TeamAsIs(r.rows.role, r.rows.off, r.rows.invited, p)
      BY <1>1, <2>1, <3>1, <3>2 DEF TeamNewest
    <3>4. PICK m, i \in {r.rows, Team!Now} : members'.role = m.role /\ members'.off = m.off /\ pending' = i.invited
      BY <1>2, <1>3, <2>3
    <3>5. TeamAsIs(role, off, invited, p)
      BY DEF TeamAsIs
    <3> QED
      BY <3>3, <3>4, <3>5, TeamTables DEF TeamAsIs
  <2> QED
    BY <2>2, <2>3
<1>7. TeamChosen' /\ TeamOff'
  BY <1>0 DEF TeamInv, TeamChosen, TeamRole, TeamOff
<1>8. Team!FormHasSeats' /\ Team!InviteEnds'
  BY <1>0, <1>3 DEF TeamInv, Team!FormHasSeats, Team!InviteEnds
<1> QED
  BY <1>4, <1>5, <1>6, <1>7, <1>8 DEF TeamInv, TeamTypes

-----------------------------------------------------------------------------
(* What the manager does.                                                  *)

LEMMA TeamScreen ==
    ASSUME TeamInv, Team!Screen, \A c \in teamCalls' \ teamCalls : c.pc = "sent", teamCalls \subseteq teamCalls'
    PROVE  /\ TeamServerType' /\ TeamListType' /\ TeamBounded' /\ TeamFollows'
           /\ UNCHANGED <<role, off, invited, members, pending, room, teamLoading, teamReads, teamSeen, aside, upsets>>
<1>0. UNCHANGED <<role, off, invited, members, pending, room, teamLoading, teamReads, teamSeen, aside, upsets>>
  BY DEF Team!Screen, Team!server, Team!lists
<1>1. \A p \in People : TeamChange(p)' <=> TeamChange(p)
  BY DEF TeamChange
<1>2. TeamServerType' /\ TeamListType'
  BY <1>0 DEF TeamInv, TeamTypes, TeamServerType, TeamListType
<1>3. TeamBounded' /\ TeamFollows'
  BY <1>0, <1>1 DEF TeamInv, TeamBounded, TeamFollows, TeamNewest, TeamAsIs
<1> QED
  BY <1>0, <1>2, <1>3

LEMMA TeamFormStep ==
    ASSUME TeamInv, Team!ToggleInvite \/ Team!KeepMember \/ \E p \in People : Team!TypeEmail(p) \/ Team!AskDeactivate(p)
    PROVE  TeamInv'
<1>0. /\ Team!Screen /\ UNCHANGED <<inviting, teamCalls, confirmed, chosen, ops>>
      /\ email' \in People \cup {"none"} /\ teamTarget' \in People \cup {"none"}
      /\ showInvite' \in BOOLEAN /\ (showInvite' => room)
  <2>1. email \in People \cup {"none"} /\ teamTarget \in People \cup {"none"} /\ showInvite \in BOOLEAN
        /\ (showInvite => room)
    BY DEF TeamInv, TeamTypes, TeamFormType, Team!FormHasSeats
  <2>2. CASE Team!ToggleInvite
    BY <2>1, <2>2 DEF Team!ToggleInvite
  <2>3. CASE Team!KeepMember
    BY <2>1, <2>3 DEF Team!KeepMember, Team!form, Team!None
  <2>4. ASSUME NEW p \in People, Team!TypeEmail(p) \/ Team!AskDeactivate(p)
        PROVE  /\ Team!Screen /\ UNCHANGED <<inviting, teamCalls, confirmed, chosen, ops>>
               /\ email' \in People \cup {"none"} /\ teamTarget' \in People \cup {"none"} /\ showInvite' = showInvite
    BY <2>1, <2>4 DEF Team!TypeEmail, Team!AskDeactivate, Team!form
  <2> QED
    BY <2>1, <2>2, <2>3, <2>4
<1>1. /\ TeamServerType' /\ TeamListType' /\ TeamBounded' /\ TeamFollows'
      /\ UNCHANGED <<role, off, invited, members, pending, room, teamLoading, teamReads, teamSeen, aside, upsets>>
  BY <1>0, TeamScreen
<1>2. TeamFormType'
  BY <1>0 DEF TeamInv, TeamTypes, TeamFormType
<1>3. TeamCallType' /\ TeamChosen' /\ TeamOff'
  BY <1>0, <1>1 DEF TeamInv, TeamTypes, TeamCallType, TeamChosen, TeamRole, TeamOff
<1>4. Team!FormHasSeats' /\ Team!InviteEnds'
  BY <1>0, <1>1 DEF TeamInv, Team!FormHasSeats, Team!InviteEnds
<1> QED
  BY <1>1, <1>2, <1>3, <1>4 DEF TeamInv, TeamTypes

\* A request that is sent.
LEMMA TeamSent ==
    ASSUME TeamInv, NEW kind \in {"invite", "role", "off", "cancel", "resend"}, NEW p \in People, NEW to \in Role,
           Team!Send(kind, p, to), Team!Screen
    PROVE  /\ TeamServerType' /\ TeamListType' /\ TeamBounded' /\ TeamFollows'
           /\ UNCHANGED <<role, off, invited, members, pending, room, teamLoading, teamReads, teamSeen, aside, upsets>>
           /\ ops' \in 0..MaxTeamOps
           /\ \E c \in TeamCalls : /\ teamCalls' = teamCalls \cup {c}
                                   /\ c.kind = kind /\ c.of = p /\ c.to = to /\ c.pc = "sent"
<1> DEFINE c == [kind |-> kind, of |-> p, to |-> to, n |-> ops, pc |-> "sent"]
<1>1. teamCalls' = teamCalls \cup {c} /\ ops' \in 0..MaxTeamOps /\ ops \in 0..MaxTeamOps
  BY TeamNumbers DEF Team!Send, Team!Op
<1>2. c \in TeamCalls /\ c.kind = kind /\ c.of = p /\ c.to = to /\ c.pc = "sent"
  BY <1>1 DEF TeamCalls
<1> HIDE DEF c
<1>3. /\ TeamServerType' /\ TeamListType' /\ TeamBounded' /\ TeamFollows'
      /\ UNCHANGED <<role, off, invited, members, pending, room, teamLoading, teamReads, teamSeen, aside, upsets>>
  <2>1. \A d \in teamCalls' \ teamCalls : d.pc = "sent"
    BY <1>1, <1>2
  <2>2. teamCalls \subseteq teamCalls'
    BY <1>1
  <2> QED
    BY <2>1, <2>2, TeamScreen
<1> QED
  BY <1>1, <1>2, <1>3

LEMMA TeamRequestStep ==
    ASSUME TeamInv, Team!handleInvite \/ Team!handleDeactivate
                    \/ \E p \in People : \E kind \in {"cancel", "resend"} : Team!handleInvitation(p, kind)
    PROVE  TeamInv'
<1>0. "none" \in Role /\ email \in People \cup {"none"} /\ teamTarget \in People \cup {"none"}
      /\ inviting \in BOOLEAN /\ showInvite \in BOOLEAN
  BY DEF Role, TeamInv, TeamTypes, TeamFormType
<1>1. \E kind \in {"invite", "off", "cancel", "resend"}, p \in People :
         /\ Team!Send(kind, p, "none") /\ Team!Screen
         /\ inviting' \in BOOLEAN /\ teamTarget' \in People \cup {"none"} /\ (inviting' => inviting \/ kind = "invite")
         /\ UNCHANGED <<showInvite, email, chosen>>
         /\ confirmed' = IF kind = "off" THEN confirmed \cup {p} ELSE confirmed
  <2>1. CASE Team!handleInvite
    BY <1>0, <2>1 DEF Team!handleInvite, Team!None
  <2>2. CASE Team!handleDeactivate
    BY <1>0, <2>2 DEF Team!handleDeactivate, Team!None, Team!form
  <2>3. ASSUME NEW p \in People, NEW kind \in {"cancel", "resend"}, Team!handleInvitation(p, kind)
        PROVE  /\ Team!Send(kind, p, "none") /\ Team!Screen
               /\ UNCHANGED <<inviting, teamTarget, showInvite, email, chosen, confirmed>>
    BY <2>3 DEF Team!handleInvitation, Team!None, Team!form
  <2> QED
    BY <1>0, <2>1, <2>2, <2>3
<1>2. PICK kind \in {"invite", "off", "cancel", "resend"}, p \in People :
         /\ Team!Send(kind, p, "none") /\ Team!Screen
         /\ inviting' \in BOOLEAN /\ teamTarget' \in People \cup {"none"} /\ (inviting' => inviting \/ kind = "invite")
         /\ UNCHANGED <<showInvite, email, chosen>>
         /\ confirmed' = IF kind = "off" THEN confirmed \cup {p} ELSE confirmed
  BY <1>1
<1>3. /\ TeamServerType' /\ TeamListType' /\ TeamBounded' /\ TeamFollows'
      /\ UNCHANGED <<role, off, invited, members, pending, room, teamLoading, teamReads, teamSeen, aside, upsets>>
      /\ ops' \in 0..MaxTeamOps
      /\ \E c \in TeamCalls : /\ teamCalls' = teamCalls \cup {c}
                              /\ c.kind = kind /\ c.of = p /\ c.to = "none" /\ c.pc = "sent"
  BY <1>0, <1>2, TeamSent
<1>4. PICK c \in TeamCalls : teamCalls' = teamCalls \cup {c} /\ c.kind = kind /\ c.of = p
  BY <1>3
<1>5. TeamFormType'
  BY <1>0, <1>2 DEF TeamFormType
<1>6. TeamCallType'
  BY <1>2, <1>3, <1>4 DEF TeamInv, TeamTypes, TeamCallType
<1>7. TeamChosen'
  <2>1. \A q \in People : ~TeamRole(c, q)
    BY <1>4 DEF TeamRole
  <2> QED
    BY <1>2, <1>3, <1>4, <2>1 DEF TeamInv, TeamChosen, TeamRole
<1>8. TeamOff'
  BY <1>2, <1>3, <1>4 DEF TeamInv, TeamOff
<1>9. Team!FormHasSeats' /\ Team!InviteEnds'
  BY <1>2, <1>3, <1>4 DEF TeamInv, Team!FormHasSeats, Team!InviteEnds
<1> QED
  BY <1>3, <1>5, <1>6, <1>7, <1>8, <1>9 DEF TeamInv, TeamTypes

LEMMA TeamRoleStep ==
    ASSUME TeamInv, NEW p \in People, NEW to \in Team!Roles, Team!handleRoleChange(p, to)
    PROVE  TeamInv'
<1>0. /\ Team!Send("role", p, to) /\ Team!Screen /\ UNCHANGED <<showInvite, email, inviting, teamTarget, confirmed>>
      /\ chosen' = [chosen EXCEPT ![p] = IF \E c \in teamCalls : c.kind = "role" /\ c.of = p THEN "none" ELSE to]
  BY DEF Team!handleRoleChange, Team!form, Team!None
<1>1. /\ TeamServerType' /\ TeamListType' /\ TeamBounded' /\ TeamFollows'
      /\ UNCHANGED <<role, off, invited, members, pending, room, teamLoading, teamReads, teamSeen, aside, upsets>>
      /\ ops' \in 0..MaxTeamOps
      /\ \E c \in TeamCalls : /\ teamCalls' = teamCalls \cup {c}
                              /\ c.kind = "role" /\ c.of = p /\ c.to = to /\ c.pc = "sent"
  <2>1. to \in Role
    BY DEF Role
  <2> QED
    BY <1>0, <2>1, TeamSent
<1>2. PICK c \in TeamCalls : teamCalls' = teamCalls \cup {c} /\ c.kind = "role" /\ c.of = p /\ c.to = to /\ c.pc = "sent"
  BY <1>1
<1>3. chosen \in [People -> Role]
  BY DEF TeamInv, TeamTypes, TeamCallType
<1>4. \A q \in People : chosen'[q] = IF q # p THEN chosen[q]
                                    ELSE IF \E d \in teamCalls : d.kind = "role" /\ d.of = p THEN "none" ELSE to
  BY <1>0, <1>3
<1>5. chosen' \in [People -> Role]
  BY <1>0, <1>3 DEF Role
<1>6. TeamFormType'
  BY <1>0 DEF TeamInv, TeamTypes, TeamFormType
<1>7. TeamCallType'
  BY <1>0, <1>1, <1>2, <1>5 DEF TeamInv, TeamTypes, TeamCallType
<1>8. TeamChosen'
  <2> SUFFICES ASSUME NEW q \in People \ aside, chosen'[q] # "none"
               PROVE  /\ (\A d \in teamCalls' : ~TeamRole(d, q)) => role[q] = chosen'[q]
                      /\ \A d \in teamCalls' : TeamRole(d, q) =>
                            /\ d.to = chosen'[q] /\ (d.pc = "ok" => role[q] = chosen'[q])
                            /\ \A e \in teamCalls' : TeamRole(e, q) => e = d
    BY <1>1 DEF TeamChosen, TeamRole
  <2>1. CASE q = p
    <3>1. \A d \in teamCalls : ~TeamRole(d, q)
      BY <1>4, <2>1 DEF TeamRole
    <3>2. chosen'[q] = to
      BY <1>4, <2>1, <3>1 DEF TeamRole
    <3>3. TeamRole(c, q)
      BY <1>2, <2>1 DEF TeamRole
    <3> QED
      BY <1>2, <3>1, <3>2, <3>3
  <2>2. CASE q # p
    <3>1. ~TeamRole(c, q)
      BY <1>2, <2>2 DEF TeamRole
    <3> QED
      BY <1>2, <1>4, <2>2, <3>1 DEF TeamInv, TeamChosen
  <2> QED
    BY <2>1, <2>2
<1>9. TeamOff' /\ Team!FormHasSeats' /\ Team!InviteEnds'
  BY <1>0, <1>1, <1>2 DEF TeamInv, TeamOff, Team!FormHasSeats, Team!InviteEnds
<1> QED
  BY <1>1, <1>6, <1>7, <1>8, <1>9 DEF TeamInv, TeamTypes

-----------------------------------------------------------------------------
(* The server and its answers.                                             *)

LEMMA TeamServeStep ==
    ASSUME TeamInv, NEW c \in teamCalls, Team!Serve(c)
    PROVE  TeamInv'
<1> DEFINE done == [c EXCEPT !.pc = "ok"]
<1>0. /\ c.pc = "sent" /\ teamCalls' = (teamCalls \ {c}) \cup {done}
      /\ role' = (IF c.kind = "role" THEN [role EXCEPT ![c.of] = c.to] ELSE role)
      /\ off' = (IF c.kind = "off" THEN off \cup {c.of} ELSE off)
      /\ invited' \in {invited, invited \cup {c.of}, invited \ {c.of}}
      /\ UNCHANGED <<members, pending, room, teamLoading, teamReads, showInvite, email, inviting, teamTarget, confirmed,
                     chosen, aside, teamSeen, ops, upsets>>
  BY DEF Team!Serve, Team!lists, Team!form, Team!past
<1>1. c \in TeamCalls /\ c.of \in People /\ c.to \in Role
  BY DEF TeamInv, TeamTypes, TeamCallType, TeamCalls
<1>2. done \in TeamCalls /\ done.pc = "ok" /\ done.of = c.of /\ done.kind = c.kind /\ done.to = c.to /\ done \in teamCalls'
  BY <1>0, <1>1 DEF TeamCalls
<1> HIDE DEF done
<1>3. role \in [People -> Role] /\ off \subseteq People /\ invited \subseteq People
  BY DEF TeamInv, TeamTypes, TeamServerType
<1>4. \A p \in People : role'[p] = IF c.kind = "role" /\ p = c.of THEN c.to ELSE role[p]
  BY <1>0, <1>1, <1>3
<1>5. TeamServerType'
  <2>1. role' \in [People -> Role]
    BY <1>0, <1>1, <1>3
  <2>2. off' \subseteq People /\ invited' \subseteq People
    BY <1>0, <1>1, <1>3
  <2> QED
    BY <2>1, <2>2 DEF TeamServerType
<1>6. TeamListType' /\ TeamFormType' /\ TeamBounded'
  BY <1>0 DEF TeamInv, TeamTypes, TeamListType, TeamFormType, TeamBounded
<1>7. TeamCallType'
  BY <1>0, <1>2 DEF TeamInv, TeamTypes, TeamCallType
<1>8. TeamFollows'
  <2> SUFFICES ASSUME NEW p \in People \ aside, ~TeamChange(p)'
               PROVE  /\ \A r \in teamReads : TeamNewest(r) => TeamAsIs(r.rows.role, r.rows.off, r.rows.invited, p)'
                      /\ (\A r \in teamReads : r.n <= teamSeen.n) /\ teamSeen.inOrder =>
                            TeamAsIs(members.role, members.off, pending, p)'
    BY <1>0 DEF TeamFollows, TeamNewest, TeamAsIs
  <2>1. p # c.of
    BY <1>2 DEF TeamChange
  <2>2. ~TeamChange(p)
    BY <1>0, <2>1 DEF TeamChange
  <2>3. /\ \A r \in teamReads : TeamNewest(r) => TeamAsIs(r.rows.role, r.rows.off, r.rows.invited, p)
        /\ (\A r \in teamReads : r.n <= teamSeen.n) /\ teamSeen.inOrder => TeamAsIs(members.role, members.off, pending, p)
    BY <2>2 DEF TeamInv, TeamFollows
  <2>4. role'[p] = role[p] /\ (p \in off' <=> p \in off) /\ (p \in invited' <=> p \in invited)
    BY <1>0, <1>4, <2>1
  <2> QED
    BY <1>0, <2>3, <2>4 DEF TeamAsIs
<1>9. TeamChosen'
  <2> SUFFICES ASSUME NEW p \in People \ aside, chosen[p] # "none"
               PROVE  /\ (\A d \in teamCalls' : ~TeamRole(d, p)) => role'[p] = chosen[p]
                      /\ \A d \in teamCalls' : TeamRole(d, p) =>
                            /\ d.to = chosen[p] /\ (d.pc = "ok" => role'[p] = chosen[p])
                            /\ \A e \in teamCalls' : TeamRole(e, p) => e = d
    BY <1>0 DEF TeamChosen, TeamRole
  <2>0. /\ (\A d \in teamCalls : ~TeamRole(d, p)) => role[p] = chosen[p]
        /\ \A d \in teamCalls : TeamRole(d, p) =>
              /\ d.to = chosen[p] /\ (d.pc = "ok" => role[p] = chosen[p])
              /\ \A e \in teamCalls : TeamRole(e, p) => e = d
    BY DEF TeamInv, TeamChosen
  <2>1. TeamRole(done, p) <=> TeamRole(c, p)
    BY <1>2 DEF TeamRole
  <2>2. CASE TeamRole(c, p)
    <3>1. role'[p] = chosen[p] /\ done.to = chosen[p]
      BY <1>2, <1>4, <2>0, <2>2 DEF TeamRole
    <3>2. \A d \in teamCalls' : TeamRole(d, p) => d = done
      BY <1>0, <2>0, <2>2
    <3> QED
      BY <3>1, <3>2
  <2>3. CASE ~TeamRole(c, p)
    <3>1. role'[p] = role[p]
      BY <1>4, <2>3 DEF TeamRole
    <3>2. \A d \in teamCalls' : TeamRole(d, p) => d \in teamCalls
      BY <1>0, <2>1, <2>3
    <3>3. (\A d \in teamCalls' : ~TeamRole(d, p)) => (\A d \in teamCalls : ~TeamRole(d, p))
      BY <1>0, <2>3
    <3> QED
      BY <2>0, <3>1, <3>2, <3>3
  <2> QED
    BY <2>2, <2>3
<1>10. TeamOff'
  BY <1>0, <1>2 DEF TeamInv, TeamOff
<1>11. Team!FormHasSeats' /\ Team!InviteEnds'
  BY <1>0, <1>2 DEF TeamInv, Team!FormHasSeats, Team!InviteEnds
<1> QED
  BY <1>5, <1>6, <1>7, <1>8, <1>9, <1>10, <1>11 DEF TeamInv, TeamTypes

\* Without a call that is answered or fails, the others are as they were.
LEMMA TeamWithout ==
    ASSUME TeamInv, NEW c \in teamCalls, teamCalls' = teamCalls \ {c}, UNCHANGED <<role, chosen, off, confirmed>>,
           c.pc = "ok" \/ c.of \in aside', aside \subseteq aside'
    PROVE  TeamChosen' /\ TeamOff'
<1>1. TeamOff'
  BY DEF TeamInv, TeamOff
<1> SUFFICES ASSUME NEW p \in People \ aside', chosen[p] # "none"
             PROVE  /\ (\A d \in teamCalls' : ~TeamRole(d, p)) => role[p] = chosen[p]
                    /\ \A d \in teamCalls' : TeamRole(d, p) =>
                          /\ d.to = chosen[p] /\ (d.pc = "ok" => role[p] = chosen[p])
                          /\ \A e \in teamCalls' : TeamRole(e, p) => e = d
  BY <1>1 DEF TeamChosen, TeamRole
<1>2. /\ (\A d \in teamCalls : ~TeamRole(d, p)) => role[p] = chosen[p]
      /\ \A d \in teamCalls : TeamRole(d, p) =>
            /\ d.to = chosen[p] /\ (d.pc = "ok" => role[p] = chosen[p])
            /\ \A e \in teamCalls : TeamRole(e, p) => e = d
  BY DEF TeamInv, TeamChosen
<1>3. CASE TeamRole(c, p)
  <2>1. c.pc = "ok"
    BY <1>3 DEF TeamRole
  <2> QED
    BY <1>2, <1>3, <2>1
<1>4. CASE ~TeamRole(c, p)
  BY <1>2, <1>4
<1> QED
  BY <1>3, <1>4

LEMMA TeamAnsweredStep ==
    ASSUME TeamInv, NEW c \in teamCalls, Team!Answered(c)
    PROVE  TeamInv'
<1> DEFINE after == IF c.kind = "invite" THEN "invite" ELSE "none"
           new == [n |-> Team!Newest + 1, rows |-> Team!Now', after |-> after]
<1>0. /\ c.pc = "ok" /\ teamCalls' = teamCalls \ {c} /\ teamReads' = teamReads \cup {new}
      /\ UNCHANGED <<role, off, invited, members, pending, room, teamLoading, inviting, teamTarget, confirmed, chosen,
                     aside, teamSeen, ops, upsets>>
      /\ email' \in {email, "none"} /\ showInvite' \in {showInvite, FALSE}
  BY DEF Team!Answered, Team!Fetch, Team!server, Team!lists, Team!past, Team!None
<1>1. Team!Newest \in Nat /\ teamSeen.n <= Team!Newest /\ \A r \in teamReads : r.n <= Team!Newest
  BY TeamLatest
<1>2. Team!Now' = Team!Now
  BY <1>0 DEF Team!Now
<1>3. /\ new \in TeamReads /\ new.n = Team!Newest + 1 /\ new.after = after /\ new.rows = Team!Now
      /\ new \in teamReads'
  BY <1>0, <1>1, <1>2, TeamTables DEF TeamReads
<1>4. (c.kind = "invite" => \E r \in teamReads' : r.after = "invite") /\ teamReads \subseteq teamReads'
  BY <1>0, <1>3
<1> HIDE DEF after, new
<1>5. teamSeen.n \in Nat /\ \A r \in teamReads : r.n \in Nat
  BY DEF TeamInv, TeamTypes, TeamListType, TeamReads
<1>6. TeamServerType'
  BY <1>0 DEF TeamInv, TeamTypes, TeamServerType
<1>7. TeamListType'
  BY <1>0, <1>3 DEF TeamInv, TeamTypes, TeamListType
<1>8. TeamFormType'
  BY <1>0 DEF TeamInv, TeamTypes, TeamFormType
<1>9. TeamCallType'
  BY <1>0 DEF TeamInv, TeamTypes, TeamCallType
<1>10. TeamBounded'
  <2>1. \A r \in teamReads' : r.n <= Team!Newest + 1
    BY <1>0, <1>1, <1>3, <1>5
  <2>2. teamSeen.n <= Team!Newest + 1
    BY <1>1, <1>5
  <2> QED
    BY <1>0, <1>1, <2>1, <2>2 DEF TeamBounded
<1>11. TeamFollows'
  <2>1. \A r \in teamReads : ~(new.n <= r.n)
    BY <1>1, <1>3, <1>5
  <2>2. \A r \in teamReads' : TeamNewest(r)' => r = new
    BY <1>0, <1>3, <2>1 DEF TeamNewest
  <2>3. ~(new.n <= teamSeen.n)
    BY <1>1, <1>3, <1>5
  <2>4. \A p \in People : TeamAsIs(new.rows.role, new.rows.off, new.rows.invited, p)
    BY <1>3, TeamTables DEF TeamAsIs
  <2>5. ~(\A r \in teamReads' : r.n <= teamSeen'.n)
    BY <1>0, <1>3, <2>3
  <2>6. ASSUME NEW p \in People \ aside', NEW r \in teamReads', TeamNewest(r)'
        PROVE  TeamAsIs(r.rows.role, r.rows.off, r.rows.invited, p)
    BY <2>2, <2>4, <2>6
  <2> QED
    BY <1>0, <2>5, <2>6 DEF TeamFollows, TeamAsIs
<1>12. TeamChosen' /\ TeamOff'
  BY <1>0, TeamWithout
<1>13. Team!FormHasSeats' /\ Team!InviteEnds'
  <2>1. Team!FormHasSeats'
    BY <1>0 DEF TeamInv, Team!FormHasSeats
  <2>2. (\E d \in teamCalls : d.kind = "invite") => (\E d \in teamCalls' : d.kind = "invite") \/ c.kind = "invite"
    BY <1>0
  <2>3. Team!InviteEnds'
    BY <1>0, <1>4, <2>2 DEF TeamInv, Team!InviteEnds
  <2> QED
    BY <2>1, <2>3
<1> QED
  BY <1>6, <1>7, <1>8, <1>9, <1>10, <1>11, <1>12, <1>13 DEF TeamInv, TeamTypes

LEMMA TeamFailsStep ==
    ASSUME TeamInv, NEW c \in teamCalls, Team!Fails(c)
    PROVE  TeamInv'
<1>0. /\ teamCalls' = teamCalls \ {c} /\ inviting' = (inviting /\ c.kind # "invite") /\ aside' = aside \cup {c.of}
      /\ upsets' = upsets \/ (upsets' = upsets + 1 /\ upsets < MaxUpsets)
      /\ UNCHANGED <<role, off, invited, members, pending, room, teamLoading, teamReads, showInvite, email, teamTarget,
                     confirmed, chosen, teamSeen, ops>>
  BY DEF Team!Fails, Team!Upset, Team!server, Team!lists
<1>1. c.of \in People /\ upsets' \in 0..MaxUpsets
  BY <1>0, TeamNumbers DEF TeamInv, TeamTypes, TeamCallType, TeamCalls
<1>2. TeamServerType' /\ TeamListType' /\ TeamFormType'
  BY <1>0 DEF TeamInv, TeamTypes, TeamServerType, TeamListType, TeamFormType
<1>3. TeamCallType'
  BY <1>0, <1>1 DEF TeamInv, TeamTypes, TeamCallType
<1>4. TeamBounded'
  BY <1>0 DEF TeamInv, TeamBounded
<1>5. TeamFollows'
  <2>1. \A p \in People \ aside' : p \in People \ aside /\ (TeamChange(p) => TeamChange(p)')
    BY <1>0 DEF TeamChange
  <2> QED
    BY <1>0, <2>1 DEF TeamInv, TeamFollows, TeamNewest, TeamAsIs
<1>6. TeamChosen' /\ TeamOff'
  BY <1>0, TeamWithout
<1>7. Team!FormHasSeats' /\ Team!InviteEnds'
  BY <1>0 DEF TeamInv, Team!FormHasSeats, Team!InviteEnds
<1> QED
  BY <1>2, <1>3, <1>4, <1>5, <1>6, <1>7 DEF TeamInv, TeamTypes

LEMMA TeamAcceptStep ==
    ASSUME TeamInv, NEW p \in People, NEW to \in Team!Roles, Team!Accept(p, to)
    PROVE  TeamInv'
<1>0. /\ upsets' = upsets + 1 /\ upsets < MaxUpsets /\ invited' = invited \ {p}
      /\ role' = [role EXCEPT ![p] = to] /\ aside' = aside \cup {p}
      /\ UNCHANGED <<off, members, pending, room, teamLoading, teamReads, showInvite, email, inviting, teamTarget,
                     teamCalls, confirmed, chosen, teamSeen, ops>>
  BY DEF Team!Accept, Team!Upset, Team!lists, Team!form
<1>1. role \in [People -> Role] /\ to \in Role /\ upsets' \in 0..MaxUpsets
  BY <1>0, TeamNumbers DEF TeamInv, TeamTypes, TeamServerType, Role
<1>2. TeamServerType'
  BY <1>0, <1>1 DEF TeamInv, TeamTypes, TeamServerType
<1>3. TeamListType' /\ TeamFormType'
  BY <1>0 DEF TeamInv, TeamTypes, TeamListType, TeamFormType
<1>4. TeamCallType'
  BY <1>0, <1>1 DEF TeamInv, TeamTypes, TeamCallType
<1>5. TeamBounded'
  BY <1>0 DEF TeamInv, TeamBounded
<1>6. \A q \in People \ aside' : q \in People \ aside /\ role'[q] = role[q] /\ (q \in invited' <=> q \in invited)
  BY <1>0, <1>1
<1>7. TeamFollows'
  BY <1>0, <1>6 DEF TeamInv, TeamFollows, TeamNewest, TeamAsIs, TeamChange
<1>8. TeamChosen'
  BY <1>0, <1>6 DEF TeamInv, TeamChosen, TeamRole
<1>9. TeamOff' /\ Team!FormHasSeats' /\ Team!InviteEnds'
  BY <1>0 DEF TeamInv, TeamOff, Team!FormHasSeats, Team!InviteEnds
<1> QED
  BY <1>2, <1>3, <1>4, <1>5, <1>7, <1>8, <1>9 DEF TeamInv, TeamTypes

LEMMA TeamStart == Team!Init => TeamInv
<1> SUFFICES ASSUME Team!Init PROVE TeamInv
  OBVIOUS
<1> DEFINE first == [n |-> 1, rows |-> Team!Now, after |-> "none"]
<1>0. /\ role \in [People -> Role] /\ off = {} /\ invited \subseteq People
      /\ members = [role |-> [p \in People |-> "none"], off |-> {}] /\ pending = {}
      /\ room = TRUE /\ teamLoading = TRUE /\ teamReads = {first}
      /\ showInvite = FALSE /\ email = "none" /\ inviting = FALSE /\ teamTarget = "none" /\ teamCalls = {}
      /\ confirmed = {} /\ chosen = role /\ aside = {}
      /\ teamSeen = [n |-> 0, inOrder |-> TRUE] /\ ops = 0 /\ upsets = 0
  BY DEF Team!Init, Team!None, Role
<1>1. MaxTeamOps \in Nat /\ MaxUpsets \in Nat
  BY PagesAssumption
<1>2. /\ Team!Now \in Team!Tables /\ Team!Now.role = role /\ Team!Now.off = off /\ Team!Now.invited = invited
  BY <1>0 DEF Team!Now, Team!Tables, Role, Team!None
<1>3. first \in TeamReads /\ first.n = 1 /\ first.rows = Team!Now
  BY <1>2 DEF TeamReads
<1> HIDE DEF first
<1>4. TeamServerType
  BY <1>0 DEF TeamServerType
<1>5. TeamListType
  <2>1. [p \in People |-> "none"] \in [People -> Role]
    BY DEF Role
  <2> QED
    BY <1>0, <1>3, <2>1 DEF TeamListType
<1>6. TeamFormType
  BY <1>0 DEF TeamFormType
<1>7. TeamCallType
  <2>1. 0 \in 0..MaxTeamOps /\ 0 \in 0..MaxUpsets
    BY <1>1
  <2> QED
    BY <1>0, <2>1 DEF TeamCallType
<1>8. TeamBounded /\ TeamFollows
  <2>1. teamSeen.n = 0
    BY <1>0
  <2> QED
    BY <1>0, <1>2, <1>3, <2>1 DEF TeamBounded, TeamFollows, TeamAsIs
<1>9. TeamChosen /\ TeamOff /\ Team!FormHasSeats /\ Team!InviteEnds
  BY <1>0 DEF TeamChosen, TeamOff, Team!FormHasSeats, Team!InviteEnds
<1> QED
  BY <1>4, <1>5, <1>6, <1>7, <1>8, <1>9 DEF TeamInv, TeamTypes

LEMMA TeamStep == TeamInv /\ [Team!Next]_(Team!vars) => TeamInv'
<1> SUFFICES ASSUME TeamInv, [Team!Next]_(Team!vars) PROVE TeamInv'
  OBVIOUS
<1>1. CASE Team!Next
  BY <1>1, TeamReadStep, TeamFormStep, TeamRequestStep, TeamRoleStep, TeamServeStep, TeamAnsweredStep, TeamFailsStep,
     TeamAcceptStep DEF Team!Next
<1>2. CASE UNCHANGED Team!vars
  <2>0. UNCHANGED <<role, off, invited, members, pending, room, teamLoading, teamReads, showInvite, email, inviting,
                    teamTarget, teamCalls, confirmed, chosen, teamSeen, aside, ops, upsets>>
    BY <1>2 DEF Team!vars, Team!server, Team!lists, Team!form, Team!past
  <2>1. TeamTypes'
    BY <2>0 DEF TeamInv, TeamTypes, TeamServerType, TeamListType, TeamFormType, TeamCallType
  <2>2. TeamBounded' /\ TeamFollows'
    BY <2>0 DEF TeamInv, TeamBounded, TeamFollows, TeamNewest, TeamAsIs, TeamChange
  <2>3. TeamChosen' /\ TeamOff' /\ Team!FormHasSeats' /\ Team!InviteEnds'
    BY <2>0 DEF TeamInv, TeamChosen, TeamRole, TeamOff, Team!FormHasSeats, Team!InviteEnds
  <2> QED
    BY <2>1, <2>2, <2>3 DEF TeamInv
<1> QED
  BY <1>1, <1>2

LEMMA TeamPromises == TeamInv => Team!TypeOK /\ Team!TeamIsRight
<1> SUFFICES ASSUME TeamInv PROVE Team!TypeOK /\ Team!TeamIsRight
  OBVIOUS
<1>1. Team!TypeOK
  BY TeamTables DEF TeamInv, TeamTypes, TeamServerType, TeamListType, TeamFormType, TeamCallType, TeamReads, TeamCalls,
     Role, Team!TypeOK, Team!None
<1>2. Team!ListsAreOrganization
  <2>1. ASSUME teamReads = {}, teamCalls = {}, teamSeen.inOrder, NEW p \in People \ aside
        PROVE  TeamAsIs(members.role, members.off, pending, p)
    BY <2>1 DEF TeamInv, TeamFollows, TeamChange
  <2> QED
    BY <2>1 DEF TeamAsIs, Team!ListsAreOrganization
<1>3. Team!ChangesAsChosen
  BY DEF TeamInv, TeamChosen, TeamRole, TeamOff, Team!ChangesAsChosen, Team!None
<1> QED
  BY <1>1, <1>2, <1>3 DEF TeamInv, Team!TeamIsRight

-----------------------------------------------------------------------------
(* The billing page: its invariant.                                        *)

SeatSummaries == {[known |-> FALSE, seats |-> 0]} \cup [known : {TRUE}, seats : -1..MaxQty]
SeatAsked == [qty : 1..MaxQty, n : 1..MaxBillingOps]
SeatCharges == [qty : 1..MaxQty, shown : 1..MaxQty, n : 1..MaxBillingOps]

SeatReadType ==
    /\ seatLoading \in BOOLEAN /\ seatLoads \subseteq {"first", "add", "remove"} /\ summary \in SeatSummaries
SeatDialogType ==
    /\ addOpen \in BOOLEAN /\ seatTimer \in BOOLEAN /\ previewing \in BOOLEAN
    /\ qty \in 1..MaxQty /\ preview \in 0..MaxQty /\ asks \subseteq SeatAsked
SeatBuyType == adding \in BOOLEAN /\ charges \subseteq SeatCharges
SeatBackType ==
    /\ removeOpen \in BOOLEAN /\ removing \in BOOLEAN
    /\ removeQty \in 0..MaxQty /\ drops \subseteq 0..MaxQty
    /\ going \subseteq {"checkout", "payment", "away"}
SeatBounds == ops \in 0..MaxBillingOps /\ upsets \in 0..MaxUpsets

\* An estimate is asked for the quantity of the field.
SeatEstimates ==
    /\ \A a \in asks : a.qty = qty
    /\ Billing!EstimateCatchesUp /\ Billing!EstimateIsComing

\* The button waits for the purchase and then for the read that follows it.
SeatPurchase ==
    /\ \A c, d \in charges : c = d
    /\ charges # {} => adding /\ "add" \notin seatLoads
    /\ "add" \in seatLoads => adding

SeatDialogInv == SeatDialogType /\ SeatEstimates
SeatInv == SeatReadType /\ SeatDialogInv /\ SeatBuyType /\ SeatBackType /\ SeatBounds /\ SeatPurchase

-----------------------------------------------------------------------------
(* Its steps.                                                              *)

LEMMA SeatNumbers ==
    ASSUME SeatInv
    PROVE  /\ ops \in Nat /\ upsets \in Nat /\ MaxBillingOps \in Nat /\ MaxUpsets \in Nat /\ MaxQty \in Nat /\ MaxQty >= 1
           /\ ops <= MaxBillingOps /\ upsets <= MaxUpsets
           /\ qty \in 1..MaxQty /\ preview \in 0..MaxQty
BY PagesAssumption DEF SeatInv, SeatBounds, SeatDialogInv, SeatDialogType

LEMMA SeatFault ==
    ASSUME SeatInv, Billing!Fault
    PROVE  upsets' \in 0..MaxUpsets
BY SeatNumbers DEF Billing!Fault

LEMMA SeatOp ==
    ASSUME SeatInv, Billing!Op
    PROVE  ops' \in 0..MaxBillingOps /\ ops + 1 \in 1..MaxBillingOps
BY SeatNumbers DEF Billing!Op

LEMMA SeatLoadedStep ==
    ASSUME SeatInv, NEW who \in {"first", "add", "remove"}, Billing!Loaded(who)
    PROVE  SeatInv'
<1>0. /\ who \in seatLoads /\ seatLoads' = seatLoads \ {who} /\ seatLoading' = FALSE
      /\ (summary' \in [known : {TRUE}, seats : -1..MaxQty] \/ summary' = summary)
      /\ (upsets' = upsets \/ Billing!Fault)
      /\ adding' = (IF who = "add" THEN FALSE ELSE adding) /\ removing' = (IF who = "remove" THEN FALSE ELSE removing)
      /\ UNCHANGED <<addOpen, qty, seatTimer, preview, previewing, asks, charges, removeOpen, removeQty, drops, going, ops>>
  BY DEF Billing!Loaded, Billing!dialog, Billing!NoSub
<1>1. SeatReadType'
  BY <1>0 DEF SeatInv, SeatReadType, SeatSummaries
<1>2. SeatDialogInv'
  BY <1>0 DEF SeatInv, SeatDialogInv, SeatDialogType, SeatEstimates, Billing!EstimateCatchesUp, Billing!EstimateIsComing
<1>3. SeatBuyType' /\ SeatBackType'
  BY <1>0 DEF SeatInv, SeatBuyType, SeatBackType
<1>4. SeatBounds'
  BY <1>0, SeatFault DEF SeatInv, SeatBounds
<1>5. SeatPurchase'
  BY <1>0 DEF SeatInv, SeatPurchase
<1> QED
  BY <1>1, <1>2, <1>3, <1>4, <1>5 DEF SeatInv

\* The dialog's effect drops the estimate that was asked, and waits in an open dialog.
LEMMA SeatEffectStep ==
    ASSUME SeatInv, \/ Billing!OpenAdd \/ \E n \in 1..MaxQty : Billing!TypeQty(n)
                    \/ \E cancel \in BOOLEAN : Billing!CloseAdd(cancel)
    PROVE  SeatInv'
<1> DEFINE Effect ==
             /\ addOpen' \in BOOLEAN /\ qty' \in 1..MaxQty /\ preview' \in {preview, 0}
             /\ seatTimer' = addOpen' /\ asks' = {} /\ ops' \in 0..MaxBillingOps
             /\ UNCHANGED <<seatLoading, seatLoads, summary, previewing, adding, charges, removeOpen, removeQty, removing,
                            drops, going, upsets>>
<1>0. Effect
  <2>1. CASE Billing!OpenAdd
    BY <2>1, SeatNumbers DEF Billing!OpenAdd, Billing!EstimateAgain, Billing!reads, Billing!buy, Billing!giveBack, Billing!bounds
  <2>2. ASSUME NEW n \in 1..MaxQty, Billing!TypeQty(n) PROVE Effect
    BY <2>2, SeatOp DEF Billing!TypeQty, Billing!EstimateAgain, Billing!reads, Billing!buy, Billing!giveBack
  <2>3. ASSUME NEW cancel \in BOOLEAN, Billing!CloseAdd(cancel) PROVE Effect
    <3>1. /\ addOpen' = FALSE /\ seatTimer' = FALSE /\ asks' = {} /\ preview' = IF cancel THEN preview ELSE 0
          /\ UNCHANGED <<seatLoading, seatLoads, summary, qty, previewing, adding, charges, removeOpen, removeQty, removing,
                         drops, going, ops, upsets>>
      BY <2>3 DEF Billing!CloseAdd, Billing!None, Billing!EstimateAgain, Billing!reads, Billing!buy, Billing!giveBack,
         Billing!bounds
    <3>2. ops' \in 0..MaxBillingOps /\ qty' \in 1..MaxQty
      BY <3>1, SeatNumbers
    <3>3. preview' \in {preview, 0} /\ addOpen' \in BOOLEAN /\ seatTimer' = addOpen'
      BY <3>1
    <3> QED
      BY <3>1, <3>2, <3>3
  <2> QED
    BY <2>1, <2>2, <2>3
<1>1. SeatReadType'
  BY <1>0 DEF SeatInv, SeatReadType
<1>2. SeatDialogInv'
  <2>1. SeatDialogType'
    BY <1>0, SeatNumbers DEF SeatInv, SeatDialogInv, SeatDialogType
  <2>2. SeatEstimates'
    BY <1>0 DEF SeatEstimates, Billing!EstimateCatchesUp, Billing!EstimateIsComing
  <2> QED
    BY <2>1, <2>2 DEF SeatDialogInv
<1>3. SeatBuyType' /\ SeatBackType' /\ SeatBounds' /\ SeatPurchase'
  BY <1>0 DEF SeatInv, SeatBuyType, SeatBackType, SeatBounds, SeatPurchase
<1> QED
  BY <1>1, <1>2, <1>3 DEF SeatInv

LEMMA SeatEstimateStep ==
    ASSUME SeatInv, Billing!TimerFires \/ \E a \in asks : Billing!Estimated(a)
    PROVE  SeatInv'
<1>1. CASE Billing!TimerFires
  <2> DEFINE new == [qty |-> qty, n |-> ops + 1]
  <2>0. /\ seatTimer' = FALSE /\ ops' \in 0..MaxBillingOps /\ previewing' = TRUE /\ asks' = asks \cup {new}
        /\ UNCHANGED <<seatLoading, seatLoads, summary, addOpen, qty, preview, adding, charges, removeOpen, removeQty,
                       removing, drops, going, upsets>>
    BY <1>1, SeatOp DEF Billing!TimerFires, Billing!reads, Billing!buy, Billing!giveBack
  <2>1. new \in SeatAsked /\ new.qty = qty
    BY <1>1, SeatOp, SeatNumbers DEF Billing!TimerFires, SeatAsked
  <2> HIDE DEF new
  <2>2. SeatDialogType'
    BY <2>0, <2>1 DEF SeatInv, SeatDialogInv, SeatDialogType
  <2>3. SeatEstimates'
    BY <2>0, <2>1 DEF SeatInv, SeatDialogInv, SeatEstimates, Billing!EstimateCatchesUp, Billing!EstimateIsComing
  <2>4. SeatReadType' /\ SeatBuyType' /\ SeatBackType' /\ SeatBounds' /\ SeatPurchase'
    BY <2>0 DEF SeatInv, SeatReadType, SeatBuyType, SeatBackType, SeatBounds, SeatPurchase
  <2> QED
    BY <2>2, <2>3, <2>4 DEF SeatInv, SeatDialogInv
<1>2. ASSUME NEW a \in asks, Billing!Estimated(a) PROVE SeatInv'
  <2>0. /\ asks' = asks \ {a} /\ previewing' = FALSE /\ preview' \in {a.qty, 0} /\ (upsets' = upsets \/ Billing!Fault)
        /\ UNCHANGED <<seatLoading, seatLoads, summary, addOpen, qty, seatTimer, adding, charges, removeOpen, removeQty,
                       removing, drops, going, ops>>
    BY <1>2 DEF Billing!Estimated, Billing!None, Billing!reads, Billing!buy, Billing!giveBack
  <2>1. a.qty = qty
    BY DEF SeatInv, SeatDialogInv, SeatEstimates
  <2>2. SeatDialogType'
    <3>1. preview' \in 0..MaxQty
      BY <2>0, <2>1, SeatNumbers
    <3> QED
      BY <2>0, <3>1 DEF SeatInv, SeatDialogInv, SeatDialogType
  <2>3. SeatEstimates'
    <3>1. \A b \in asks' : b.qty = qty'
      BY <2>0 DEF SeatInv, SeatDialogInv, SeatEstimates
    <3>2. preview' \in {0, qty'} /\ ~previewing'
      BY <2>0, <2>1
    <3> QED
      BY <3>1, <3>2 DEF SeatEstimates, Billing!EstimateCatchesUp, Billing!EstimateIsComing, Billing!None
  <2>4. SeatReadType' /\ SeatBuyType' /\ SeatBackType' /\ SeatPurchase'
    BY <2>0 DEF SeatInv, SeatReadType, SeatBuyType, SeatBackType, SeatPurchase
  <2>5. SeatBounds'
    BY <2>0, SeatFault DEF SeatInv, SeatBounds
  <2> QED
    BY <2>2, <2>3, <2>4, <2>5 DEF SeatInv, SeatDialogInv
<1> QED
  BY <1>1, <1>2

LEMMA SeatConfirmStep ==
    ASSUME SeatInv, Billing!Confirm
    PROVE  SeatInv'
<1> DEFINE new == [qty |-> qty, shown |-> preview, n |-> ops + 1]
<1>0. /\ ops' \in 0..MaxBillingOps /\ ~adding /\ preview # 0 /\ adding' = TRUE /\ charges' = charges \cup {new}
      /\ UNCHANGED <<seatLoading, seatLoads, summary, addOpen, qty, seatTimer, preview, previewing, asks, removeOpen,
                     removeQty, removing, drops, going, upsets>>
  BY SeatOp DEF Billing!Confirm, Billing!None, Billing!reads, Billing!dialog, Billing!giveBack
<1>1. new \in SeatCharges
  BY <1>0, SeatOp, SeatNumbers DEF Billing!Confirm, SeatCharges
<1> HIDE DEF new
<1>2. charges = {} /\ "add" \notin seatLoads
  BY <1>0 DEF SeatInv, SeatPurchase
<1>3. SeatReadType' /\ SeatBackType' /\ SeatBounds'
  BY <1>0 DEF SeatInv, SeatReadType, SeatBackType, SeatBounds
<1>4. SeatDialogInv'
  BY <1>0 DEF SeatInv, SeatDialogInv, SeatDialogType, SeatEstimates, Billing!EstimateCatchesUp, Billing!EstimateIsComing
<1>5. SeatBuyType' /\ SeatPurchase'
  BY <1>0, <1>1, <1>2 DEF SeatInv, SeatBuyType, SeatPurchase
<1> QED
  BY <1>3, <1>4, <1>5 DEF SeatInv

LEMMA SeatChargedStep ==
    ASSUME SeatInv, NEW c \in charges, Billing!Charged(c) \/ Billing!ChargeFails(c)
    PROVE  SeatInv'
<1>0. charges = {c} /\ adding /\ "add" \notin seatLoads
  BY DEF SeatInv, SeatPurchase
<1>1. CASE Billing!Charged(c)
  <2>0. /\ charges' = {} /\ addOpen' = FALSE /\ preview' = 0 /\ seatTimer' \in {FALSE, seatTimer} /\ asks' \in {{}, asks}
        /\ seatLoading' = TRUE /\ seatLoads' = seatLoads \cup {"add"}
        /\ UNCHANGED <<summary, qty, previewing, adding, removeOpen, removeQty, removing, drops, going, ops, upsets>>
    BY <1>0, <1>1 DEF Billing!Charged, Billing!None, Billing!EstimateAgain, Billing!Load, Billing!giveBack, Billing!bounds
  <2>1. SeatDialogType'
    <3>1. 0 \in 0..MaxQty
      BY SeatNumbers
    <3>2. asks' \subseteq SeatAsked /\ seatTimer' \in BOOLEAN
      BY <2>0 DEF SeatInv, SeatDialogInv, SeatDialogType
    <3> QED
      BY <2>0, <3>1, <3>2 DEF SeatInv, SeatDialogInv, SeatDialogType
  <2>2. SeatEstimates'
    BY <2>0 DEF SeatInv, SeatDialogInv, SeatEstimates, Billing!EstimateCatchesUp, Billing!EstimateIsComing
  <2>3. SeatReadType' /\ SeatBuyType' /\ SeatBackType' /\ SeatBounds'
    BY <2>0 DEF SeatInv, SeatReadType, SeatBuyType, SeatBackType, SeatBounds
  <2>4. SeatPurchase'
    BY <1>0, <2>0 DEF SeatPurchase
  <2> QED
    BY <2>1, <2>2, <2>3, <2>4 DEF SeatInv, SeatDialogInv
<1>2. CASE Billing!ChargeFails(c)
  <2>0. /\ charges' = {} /\ adding' = FALSE /\ upsets' \in 0..MaxUpsets
        /\ UNCHANGED <<seatLoading, seatLoads, summary, addOpen, qty, seatTimer, preview, previewing, asks, removeOpen,
                       removeQty, removing, drops, going, ops>>
    BY <1>0, <1>2, SeatFault DEF Billing!ChargeFails, Billing!reads, Billing!dialog, Billing!giveBack
  <2>1. SeatDialogInv'
    BY <2>0 DEF SeatInv, SeatDialogInv, SeatDialogType, SeatEstimates, Billing!EstimateCatchesUp, Billing!EstimateIsComing
  <2>2. SeatReadType' /\ SeatBuyType' /\ SeatBackType' /\ SeatBounds' /\ SeatPurchase'
    BY <1>0, <2>0 DEF SeatInv, SeatReadType, SeatBuyType, SeatBackType, SeatBounds, SeatPurchase
  <2> QED
    BY <2>1, <2>2 DEF SeatInv
<1> QED
  BY <1>1, <1>2

\* Giving seats back and leaving the page touch neither the estimate nor the purchase.
LEMMA SeatAside ==
    ASSUME SeatInv, SeatReadType', SeatBackType', SeatBounds', seatLoads' \subseteq seatLoads \cup {"remove"},
           seatLoads \subseteq seatLoads',
           UNCHANGED <<addOpen, qty, seatTimer, preview, previewing, asks, adding, charges>>
    PROVE  SeatInv'
<1>1. SeatDialogInv'
  BY DEF SeatInv, SeatDialogInv, SeatDialogType, SeatEstimates, Billing!EstimateCatchesUp, Billing!EstimateIsComing
<1>2. SeatBuyType' /\ SeatPurchase'
  BY DEF SeatInv, SeatBuyType, SeatPurchase
<1> QED
  BY <1>1, <1>2 DEF SeatInv

\* A quantity is cut to the seats that may be given back.
LEMMA SeatClamped ==
    ASSUME SeatInv, NEW n \in 0..MaxQty
    PROVE  Billing!Clamp(n, IF Billing!Subscribed THEN summary.seats ELSE 0) \in 0..MaxQty
<1>1. summary.seats \in -1..MaxQty
  <2>1. CASE summary = [known |-> FALSE, seats |-> 0]
    <3>1. summary.seats = 0
      BY <2>1
    <3> QED
      BY <3>1, SeatNumbers
  <2>2. CASE summary \in [known : {TRUE}, seats : -1..MaxQty]
    BY <2>2
  <2> QED
    BY <2>1, <2>2 DEF SeatInv, SeatReadType, SeatSummaries
<1> QED
  BY <1>1, SeatNumbers DEF Billing!Clamp, Billing!Subscribed, Billing!NoSub

LEMMA SeatBackStep ==
    ASSUME SeatInv, \/ Billing!OpenRemove \/ Billing!CloseRemove \/ Billing!ConfirmRemove
                    \/ \E n \in 1..MaxQty : Billing!TypeRemoveQty(n)
                    \/ \E d \in drops : Billing!Scheduled(d) \/ Billing!ScheduleFails(d)
    PROVE  SeatInv'
<1>0. removeQty \in 0..MaxQty
  BY DEF SeatInv, SeatBackType
<1> DEFINE Back ==
             /\ UNCHANGED <<addOpen, qty, seatTimer, preview, previewing, asks, adding, charges, summary, going>>
             /\ seatLoads' \in {seatLoads, seatLoads \cup {"remove"}} /\ seatLoading' \in {TRUE, seatLoading}
             /\ removeOpen' \in BOOLEAN /\ removing' \in BOOLEAN
             /\ removeQty' \in 0..MaxQty /\ drops' \subseteq 0..MaxQty
             /\ SeatBounds'
<1>1. Back
  <2> USE DEF Billing!reads, Billing!dialog, Billing!buy, Billing!bounds
  <2>0. /\ removeOpen \in BOOLEAN /\ removing \in BOOLEAN /\ removeQty \in 0..MaxQty /\ drops \subseteq 0..MaxQty
        /\ ops \in 0..MaxBillingOps /\ upsets \in 0..MaxUpsets /\ 1 \in 0..MaxQty
    BY SeatNumbers DEF SeatInv, SeatBackType, SeatBounds
  <2>1. CASE Billing!OpenRemove \/ Billing!CloseRemove
    BY <2>0, <2>1 DEF Billing!OpenRemove, Billing!CloseRemove, SeatBounds
  <2>2. CASE Billing!ConfirmRemove
    BY <2>0, <2>2, SeatClamped, SeatOp DEF Billing!ConfirmRemove, SeatBounds
  <2>3. ASSUME NEW n \in 1..MaxQty, Billing!TypeRemoveQty(n) PROVE Back
    BY <2>0, <2>3, SeatClamped, SeatOp DEF Billing!TypeRemoveQty, SeatBounds
  <2>4. ASSUME NEW d \in drops, Billing!Scheduled(d) PROVE Back
    BY <2>0, <2>4 DEF Billing!Scheduled, Billing!Load, SeatBounds
  <2>5. ASSUME NEW d \in drops, Billing!ScheduleFails(d) PROVE Back
    BY <2>0, <2>5, SeatFault DEF Billing!ScheduleFails, SeatBounds
  <2> QED
    BY <2>1, <2>2, <2>3, <2>4, <2>5
<1>2. SeatReadType'
  BY <1>1 DEF SeatInv, SeatReadType
<1>3. SeatBackType'
  BY <1>1 DEF SeatInv, SeatBackType
<1> QED
  BY <1>1, <1>2, <1>3, SeatAside

LEMMA SeatGoStep ==
    ASSUME SeatInv, NEW way \in {"checkout", "payment"}, Billing!Go(way) \/ Billing!Gone(way) \/ Billing!GoFails(way)
    PROVE  SeatInv'
<1>0. /\ going' \subseteq going \cup {way, "away"}
      /\ UNCHANGED <<addOpen, qty, seatTimer, preview, previewing, asks, adding, charges, summary, seatLoading, seatLoads,
                     removeOpen, removeQty, removing, drops, ops>>
      /\ (upsets' = upsets \/ Billing!Fault)
  BY DEF Billing!Go, Billing!Gone, Billing!GoFails, Billing!reads, Billing!dialog, Billing!buy, Billing!giveBack,
     Billing!bounds
<1>1. SeatReadType' /\ SeatBackType'
  BY <1>0 DEF SeatInv, SeatReadType, SeatBackType
<1>2. SeatBounds'
  BY <1>0, SeatFault DEF SeatInv, SeatBounds
<1> QED
  BY <1>0, <1>1, <1>2, SeatAside

LEMMA SeatStart == Billing!Init => SeatInv
<1> SUFFICES ASSUME Billing!Init PROVE SeatInv
  OBVIOUS
<1>0. /\ seatLoading = TRUE /\ seatLoads = {"first"} /\ summary = [known |-> FALSE, seats |-> 0]
      /\ addOpen = FALSE /\ qty = 1 /\ seatTimer = FALSE /\ preview = 0 /\ previewing = FALSE /\ asks = {}
      /\ adding = FALSE /\ charges = {} /\ removeOpen = FALSE /\ removeQty = 1 /\ removing = FALSE /\ drops = {}
      /\ going \subseteq {"checkout"} /\ ops = 0 /\ upsets = 0
  BY DEF Billing!Init, Billing!None
<1>1. 0 \in 0..MaxBillingOps /\ 0 \in 0..MaxUpsets /\ 1 \in 1..MaxQty /\ 0 \in 0..MaxQty /\ 1 \in 0..MaxQty
  BY PagesAssumption
<1>2. SeatReadType
  BY <1>0 DEF SeatReadType, SeatSummaries
<1>3. SeatDialogInv
  BY <1>0, <1>1 DEF SeatDialogInv, SeatDialogType, SeatEstimates, Billing!EstimateCatchesUp, Billing!EstimateIsComing
<1>4. SeatBuyType /\ SeatBackType /\ SeatBounds /\ SeatPurchase
  BY <1>0, <1>1 DEF SeatBuyType, SeatBackType, SeatBounds, SeatPurchase
<1> QED
  BY <1>2, <1>3, <1>4 DEF SeatInv

LEMMA SeatStep == SeatInv /\ [Billing!Next]_(Billing!vars) => SeatInv'
<1> SUFFICES ASSUME SeatInv, [Billing!Next]_(Billing!vars) PROVE SeatInv'
  OBVIOUS
<1>1. CASE Billing!Next
  BY <1>1, SeatLoadedStep, SeatEffectStep, SeatEstimateStep, SeatConfirmStep, SeatChargedStep, SeatBackStep, SeatGoStep
     DEF Billing!Next
<1>2. CASE UNCHANGED Billing!vars
  <2>0. UNCHANGED <<seatLoading, seatLoads, summary, addOpen, qty, seatTimer, preview, previewing, asks, adding, charges,
                    removeOpen, removeQty, removing, drops, going, ops, upsets>>
    BY <1>2 DEF Billing!vars, Billing!reads, Billing!dialog, Billing!buy, Billing!giveBack, Billing!bounds
  <2>1. SeatReadType' /\ SeatBackType' /\ SeatBounds'
    BY <2>0 DEF SeatInv, SeatReadType, SeatBackType, SeatBounds
  <2> QED
    BY <2>0, <2>1, SeatAside
<1> QED
  BY <1>1, <1>2

LEMMA SeatPromises == SeatInv => Billing!TypeOK /\ Billing!SeatsAreEstimated
<1> SUFFICES ASSUME SeatInv PROVE Billing!TypeOK /\ Billing!SeatsAreEstimated
  OBVIOUS
<1>1. Billing!TypeOK
  BY DEF SeatInv, SeatReadType, SeatSummaries, SeatDialogInv, SeatDialogType, SeatAsked, SeatBuyType, SeatCharges,
     SeatBackType, SeatBounds, Billing!TypeOK, Billing!Asked, Billing!NoSub
<1>2. Billing!OneChargeAtATime
  <2>1. CASE charges = {}
    <3>1. Cardinality(charges) = 0
      BY <2>1, FS_EmptySet
    <3> QED
      BY <3>1 DEF Billing!OneChargeAtATime, Billing!Cardinality, Cardinality
  <2>2. ASSUME NEW c \in charges PROVE Billing!OneChargeAtATime
    <3>1. charges = {c}
      BY DEF SeatInv, SeatPurchase
    <3>2. Cardinality(charges) = 1
      BY <3>1, FS_Singleton
    <3> QED
      BY <3>2 DEF Billing!OneChargeAtATime, Billing!Cardinality, Cardinality
  <2> QED
    BY <2>1, <2>2
<1> QED
  BY <1>1, <1>2 DEF SeatInv, SeatDialogInv, SeatEstimates, Billing!SeatsAreEstimated

-----------------------------------------------------------------------------
(* The list of the projects: its invariant.                                *)

PlIds == 1..MaxProjects
PlRevs == [PlIds -> 0..MaxPageOps + 1]
PlCreationsT == [n : 1..MaxPageOps, id : PlIds \cup {0}, plan : BOOLEAN,
                 step : {"post", "cover", "undo", "plan"}, served : BOOLEAN]
PlEditsT == [of : PlIds, cover : BOOLEAN, step : {"patch", "cover"}, rev : 0..MaxPageOps + 1, served : BOOLEAN]
PlDeletesT == [of : PlIds, pc : {"sent", "ok", "reloading", "done"}]

PlServerType == plExists \subseteq PlIds /\ plRev \in PlRevs /\ plBare \subseteq plExists
PlQueryType ==
    /\ plLoaded \in BOOLEAN /\ plListed \subseteq PlIds /\ plShown \in PlRevs /\ plBehind \in BOOLEAN
    /\ plFetch \in {"idle", "asked", "read"} /\ plSnap \in [ids : SUBSET PlIds, rev : PlRevs]
PlNewType == plNewOpen \in BOOLEAN /\ plSubmitting \in BOOLEAN /\ plCreations \subseteq PlCreationsT
PlEditType ==
    /\ plEditing \in PlIds \cup {0} /\ plSaving \in BOOLEAN /\ plEdits \subseteq PlEditsT /\ IsFiniteSet(plEdits)
PlDeleteType ==
    /\ plTarget \in PlIds \cup {0} /\ plConfirmName \in PlIds \cup {0} /\ plBusy \in BOOLEAN
    /\ plTypedHere \in BOOLEAN /\ plDeletes \subseteq PlDeletesT
PlPastType == plKept \subseteq PlIds /\ plUntold \subseteq PlIds /\ ops \in 0..MaxPageOps /\ upsets \in 0..MaxUpsets
PlTypes == PlServerType /\ PlQueryType /\ PlNewType /\ PlEditType /\ PlDeleteType /\ PlPastType

\* A version counts the changes that were submitted and are not still on their way.
PlPatches(es) == {e \in es : e.step = "patch" /\ ~e.served}
PlCounted ==
    /\ Cardinality(PlPatches(plEdits)) <= ops
    /\ \A p \in PlIds : plRev[p] + Cardinality(PlPatches(plEdits)) <= ops + 1

\* A creation that is asked to go on is of a project that was made, and one that ends has
\* given it its cover or taken it back.
PlMade ==
    \A c \in plCreations :
        /\ c.step = "post" /\ ~c.served => c.id = 0
        /\ c.step # "post" \/ c.served => c.id # 0
        /\ c.id # 0 => plRev[c.id] > 0
        /\ c.step = "plan" \/ (c.step # "post" /\ c.served) => c.id \notin plBare
        /\ c.step = "undo" => c.id \in plUntold

\* Until a change of a project is answered, the snapshot is of the project as it is, and
\* then so is the list.
PlPending(p) ==
    \/ \E c \in plCreations : c.id = p
    \/ \E e \in plEdits : e.of = p
    \/ \E d \in plDeletes : d.of = p /\ d.pc \in {"sent", "ok"}
PlAsIs(ids, revs, p) == (p \in ids <=> p \in plExists) /\ (p \in plExists => revs[p] = plRev[p])
PlFollows ==
    /\ plFetch = "read" /\ plBehind => ~plLoaded
    /\ plFetch = "asked" => ~plBehind
    /\ \A p \in PlIds \ plUntold :
          \/ PlPending(p)
          \/ /\ plFetch = "read" /\ ~plBehind => PlAsIs(plSnap.ids, plSnap.rev, p)
             /\ plFetch = "idle" /\ plLoaded /\ ~plBehind => PlAsIs(plListed, plShown, p)

PlOneDelete ==
    /\ plBusy <=> plDeletes # {}
    /\ \A d1, d2 \in plDeletes : d1 = d2
    /\ \A d \in plDeletes : d.pc = "reloading" => plFetch # "idle"

PlFlags == (plSubmitting => plCreations # {}) /\ (plSaving => plEdits # {})

PlInv ==
    /\ PlTypes /\ PlCounted /\ PlMade /\ PlFollows /\ PlOneDelete
    /\ List!NoBareProjects /\ List!MeantProject /\ PlFlags

-----------------------------------------------------------------------------
(* What its steps have in common.                                          *)

LEMMA PlNumbers ==
    ASSUME PlInv
    PROVE  /\ ops \in Nat /\ upsets \in Nat /\ MaxPageOps \in Nat /\ MaxUpsets \in Nat
           /\ ops <= MaxPageOps /\ upsets <= MaxUpsets
           /\ MaxProjects \in Nat /\ MaxProjects >= 2 /\ 0 \notin PlIds
           /\ \A p \in PlIds : plRev[p] \in Nat
           /\ IsFiniteSet(PlPatches(plEdits)) /\ Cardinality(PlPatches(plEdits)) \in Nat
<1>1. IsFiniteSet(plEdits) /\ PlPatches(plEdits) \in SUBSET plEdits
  BY DEF PlInv, PlTypes, PlEditType, PlPatches
<1>2. IsFiniteSet(PlPatches(plEdits))
  BY <1>1, FS_Subset
<1>3. Cardinality(PlPatches(plEdits)) \in Nat
  BY <1>2, FS_CardinalityType
<1>4. \A p \in PlIds : plRev[p] \in Nat
  BY PagesAssumption DEF PlInv, PlTypes, PlServerType, PlRevs
<1>5. /\ ops \in Nat /\ upsets \in Nat /\ MaxPageOps \in Nat /\ MaxUpsets \in Nat
      /\ ops <= MaxPageOps /\ upsets <= MaxUpsets
      /\ MaxProjects \in Nat /\ MaxProjects >= 2 /\ 0 \notin PlIds
  BY PagesAssumption DEF PlInv, PlTypes, PlPastType, PlIds
<1> QED
  BY <1>2, <1>3, <1>4, <1>5

LEMMA PlFault ==
    ASSUME PlInv, List!Fault
    PROVE  upsets' \in 0..MaxUpsets
BY PlNumbers DEF List!Fault

LEMMA PlOp ==
    ASSUME PlInv, List!Op
    PROVE  ops' = ops + 1 /\ ops' \in 0..MaxPageOps /\ ops + 1 \in 1..MaxPageOps
BY PlNumbers DEF List!Op

LEMMA PlNoSnap ==
    ASSUME PlInv
    PROVE  List!NoSnap \in [ids : SUBSET PlIds, rev : PlRevs]
<1>1. [p \in PlIds |-> 0] \in PlRevs
  BY PlNumbers DEF PlRevs
<1> QED
  BY <1>1 DEF List!NoSnap, List!Ids, PlIds

\* A read that ends frees whoever waits for it.
LEMMA PlSettled ==
    ASSUME NEW ds \in SUBSET PlDeletesT
    PROVE  /\ List!Settled(ds) \subseteq PlDeletesT
           /\ List!Settled(ds) # {} <=> ds # {}
           /\ \A x \in List!Settled(ds) : x.pc # "reloading"
           /\ \A d \in ds : d.pc # "reloading" => d \in List!Settled(ds)
           /\ (\A d1, d2 \in ds : d1 = d2) => \A x, y \in List!Settled(ds) : x = y
<1> DEFINE S(d) == IF d.pc = "reloading" THEN [d EXCEPT !.pc = "done"] ELSE d
<1>1. \A d \in ds : S(d) \in PlDeletesT /\ S(d).pc # "reloading" /\ (d.pc # "reloading" => S(d) = d)
  BY DEF PlDeletesT
<1>2. List!Settled(ds) = {S(d) : d \in ds}
  BY DEF List!Settled
<1> HIDE DEF S
<1> QED
  BY <1>1, <1>2

\* After a change is answered the list is to be read again, or the read there is comes late.
LEMMA PlReadAgain ==
    ASSUME PlInv, List!refresh, UNCHANGED plLoaded
    PROVE  /\ (plFetch' = "asked" /\ ~plBehind') \/ (plFetch' = "read" /\ plBehind' /\ ~plLoaded')
           /\ plFetch' \in {"asked", "read"} /\ plBehind' \in BOOLEAN
           /\ plSnap' \in [ids : SUBSET PlIds, rev : PlRevs]
<1>1. plLoaded \in BOOLEAN /\ plFetch \in {"idle", "asked", "read"} /\ plSnap \in [ids : SUBSET PlIds, rev : PlRevs]
  BY DEF PlInv, PlTypes, PlQueryType
<1>2. /\ plFetch' = (IF plLoaded \/ plFetch = "idle" THEN "asked" ELSE plFetch)
      /\ plSnap' = (IF plLoaded THEN List!NoSnap ELSE plSnap)
      /\ plBehind' = (~plLoaded /\ plFetch = "read")
  BY DEF List!refresh
<1> QED
  BY <1>1, <1>2, PlNoSnap

LEMMA PlFollowsRead ==
    ASSUME (plFetch' = "asked" /\ ~plBehind') \/ (plFetch' = "read" /\ plBehind' /\ ~plLoaded')
    PROVE  PlFollows'
BY DEF PlFollows

LEMMA PlFollowsKept ==
    ASSUME PlInv, UNCHANGED <<plExists, plRev, plLoaded, plListed, plShown, plFetch, plSnap, plBehind>>,
           plUntold \subseteq plUntold', \A p \in PlIds \ plUntold' : PlPending(p) => PlPending(p)'
    PROVE  PlFollows'
BY DEF PlInv, PlFollows, PlAsIs

LEMMA PlFollowsServed ==
    ASSUME PlInv, UNCHANGED <<plLoaded, plListed, plShown, plFetch, plSnap, plBehind, plUntold>>, NEW p \in PlIds,
           PlPending(p)', \A q \in PlIds : PlPending(q) => PlPending(q)',
           \A q \in PlIds \ {p} : (q \in plExists' <=> q \in plExists) /\ plRev'[q] = plRev[q]
    PROVE  PlFollows'
<1> SUFFICES ASSUME NEW q \in PlIds \ plUntold, ~PlPending(q)'
             PROVE  /\ plFetch = "read" /\ ~plBehind => PlAsIs(plSnap.ids, plSnap.rev, q)'
                    /\ plFetch = "idle" /\ plLoaded /\ ~plBehind => PlAsIs(plListed, plShown, q)'
  BY DEF PlInv, PlFollows, PlAsIs
<1>1. q # p /\ ~PlPending(q)
  OBVIOUS
<1>2. (q \in plExists' <=> q \in plExists) /\ plRev'[q] = plRev[q]
  BY <1>1
<1> QED
  BY <1>1, <1>2 DEF PlInv, PlFollows, PlAsIs

\* No more patches on their way than there were.
LEMMA PlCountKept ==
    ASSUME PlInv, PlPatches(plEdits') \subseteq PlPatches(plEdits), ops' \in Nat, ops <= ops',
           \A p \in PlIds : plRev'[p] = plRev[p] \/ plRev'[p] = 1
    PROVE  PlCounted'
<1>1. IsFiniteSet(PlPatches(plEdits)) /\ Cardinality(PlPatches(plEdits)) \in Nat /\ ops \in Nat
  BY PlNumbers
<1>2. IsFiniteSet(PlPatches(plEdits')) /\ Cardinality(PlPatches(plEdits')) <= Cardinality(PlPatches(plEdits))
  BY <1>1, FS_Subset
<1>3. Cardinality(PlPatches(plEdits')) \in Nat
  BY <1>2, FS_CardinalityType
<1>4. Cardinality(PlPatches(plEdits)) <= ops /\ \A p \in PlIds : plRev[p] + Cardinality(PlPatches(plEdits)) <= ops + 1
  BY DEF PlInv, PlCounted
<1>5. Cardinality(PlPatches(plEdits')) <= ops'
  BY <1>1, <1>2, <1>3, <1>4
<1>6. ASSUME NEW p \in PlIds PROVE plRev'[p] + Cardinality(PlPatches(plEdits')) <= ops' + 1
  BY <1>1, <1>2, <1>3, <1>4, PlNumbers
<1> QED
  BY <1>5, <1>6 DEF PlCounted

-----------------------------------------------------------------------------
(* Reading the list.                                                       *)

\* The reads change nothing but the query and who waits for it.
LEMMA PlReading ==
    ASSUME PlInv,
           UNCHANGED <<plExists, plRev, plBare, plNewOpen, plSubmitting, plCreations, plEditing, plSaving, plEdits, plTarget,
                       plConfirmName, plBusy, plTypedHere, plKept, plUntold, ops>>,
           plDeletes' \in {plDeletes, List!Settled(plDeletes)}, upsets' \in 0..MaxUpsets, PlQueryType', PlFollows',
           plFetch' # "idle" \/ plDeletes' = List!Settled(plDeletes)
    PROVE  PlInv'
<1>0. plDeletes \in SUBSET PlDeletesT
  BY DEF PlInv, PlTypes, PlDeleteType
<1>1. /\ List!Settled(plDeletes) \subseteq PlDeletesT
      /\ List!Settled(plDeletes) # {} <=> plDeletes # {}
      /\ \A x \in List!Settled(plDeletes) : x.pc # "reloading"
      /\ \A x, y \in List!Settled(plDeletes) : x = y
  BY <1>0, PlSettled DEF PlInv, PlOneDelete
<1>2. PlServerType' /\ PlNewType' /\ PlEditType' /\ PlPastType'
  BY DEF PlInv, PlTypes, PlServerType, PlNewType, PlEditType, PlPastType
<1>3. PlDeleteType'
  BY <1>0, <1>1 DEF PlInv, PlTypes, PlDeleteType
<1>4. PlCounted' /\ PlMade' /\ PlFlags' /\ List!NoBareProjects' /\ List!MeantProject'
  BY DEF PlInv, PlCounted, PlMade, PlFlags, List!NoBareProjects, List!MeantProject
<1>5. PlOneDelete'
  <2>1. CASE plDeletes' = plDeletes /\ plFetch' # "idle"
    BY <2>1 DEF PlInv, PlOneDelete
  <2>2. CASE plDeletes' = List!Settled(plDeletes)
    BY <1>1, <2>2 DEF PlInv, PlOneDelete
  <2> QED
    BY <2>1, <2>2
<1> QED
  BY <1>2, <1>3, <1>4, <1>5 DEF PlInv, PlTypes

\* Whoever waits for a read neither makes nor changes a project.
LEMMA PlPendingStays ==
    ASSUME PlInv, UNCHANGED <<plCreations, plEdits>>, plDeletes' \in {plDeletes, List!Settled(plDeletes)}
    PROVE  \A p \in PlIds : PlPending(p) => PlPending(p)'
<1>0. plDeletes \in SUBSET PlDeletesT
  BY DEF PlInv, PlTypes, PlDeleteType
<1>1. \A d \in plDeletes : d.pc \in {"sent", "ok"} => d \in plDeletes'
  BY <1>0, PlSettled
<1> QED
  BY <1>1 DEF PlPending

LEMMA PlReadStep ==
    ASSUME PlInv, List!fetchProjects \/ List!Land \/ List!LoadFails
    PROVE  PlInv'
<1> USE DEF List!server, List!creation, List!edition, List!deletion
<1>0. /\ plLoaded \in BOOLEAN /\ plListed \subseteq PlIds /\ plShown \in PlRevs /\ plBehind \in BOOLEAN
      /\ plSnap \in [ids : SUBSET PlIds, rev : PlRevs] /\ plExists \subseteq PlIds /\ plRev \in PlRevs
      /\ upsets \in 0..MaxUpsets
  BY DEF PlInv, PlTypes, PlQueryType, PlServerType, PlPastType
<1>1. CASE List!fetchProjects
  <2>1. /\ plFetch' = "read" /\ plSnap' = [ids |-> plExists, rev |-> plRev]
        /\ UNCHANGED <<plExists, plRev, plBare, plNewOpen, plSubmitting, plCreations, plEditing, plSaving, plEdits,
                       plTarget, plConfirmName, plBusy, plDeletes, plTypedHere, plKept, plUntold, ops, upsets, plLoaded,
                       plListed, plShown, plBehind>>
    BY <1>1 DEF List!fetchProjects
  <2>2. PlQueryType'
    BY <1>0, <2>1 DEF PlQueryType
  <2>3. plSnap'.ids = plExists /\ plSnap'.rev = plRev
    BY <2>1
  <2>4. PlFollows'
    <3>1. plBehind => ~plLoaded
      BY <1>1 DEF PlInv, PlFollows, List!fetchProjects
    <3> QED
      BY <2>1, <2>3, <3>1 DEF PlInv, PlFollows, PlAsIs
  <2> QED
    BY <1>0, <2>1, <2>2, <2>4, PlReading
<1>2. CASE List!Land
  <2>1. /\ plFetch = "read" /\ plFetch' = "idle" /\ plSnap' = List!NoSnap /\ plLoaded' = TRUE
        /\ plListed' = plSnap.ids /\ plShown' = plSnap.rev /\ plBehind' = (plBehind /\ ~plLoaded)
        /\ plDeletes' = List!Settled(plDeletes)
        /\ UNCHANGED <<plExists, plRev, plBare, plNewOpen, plSubmitting, plCreations, plEditing, plSaving, plEdits,
                       plTarget, plConfirmName, plBusy, plTypedHere, plKept, plUntold, ops, upsets>>
    BY <1>2 DEF List!Land
  <2>2. PlQueryType'
    BY <1>0, <2>1, PlNoSnap DEF PlQueryType
  <2>3. \A p \in PlIds : PlPending(p) => PlPending(p)'
    BY <2>1, PlPendingStays
  <2>4. PlFollows'
    <3>1. plBehind => ~plLoaded
      BY <2>1 DEF PlInv, PlFollows
    <3>2. plBehind' = plBehind
      BY <1>0, <2>1, <3>1
    <3> QED
      BY <2>1, <2>3, <3>2 DEF PlInv, PlFollows, PlAsIs
  <2> QED
    BY <1>0, <2>1, <2>2, <2>4, PlReading
<1>3. CASE List!LoadFails
  <2>1. /\ plFetch' = "idle" /\ plSnap' = List!NoSnap /\ List!Fault /\ plBehind' = TRUE
        /\ plDeletes' = List!Settled(plDeletes)
        /\ UNCHANGED <<plExists, plRev, plBare, plLoaded, plListed, plShown, plNewOpen, plSubmitting, plCreations, plEditing,
                       plSaving, plEdits, plTarget, plConfirmName, plBusy, plTypedHere, plKept, plUntold, ops>>
    BY <1>3 DEF List!LoadFails
  <2>2. PlQueryType'
    BY <1>0, <2>1, PlNoSnap DEF PlQueryType
  <2>3. PlFollows'
    BY <2>1 DEF PlFollows
  <2>4. upsets' \in 0..MaxUpsets
    BY <2>1, PlFault
  <2> QED
    BY <2>1, <2>2, <2>3, <2>4, PlReading
<1> QED
  BY <1>1, <1>2, <1>3

-----------------------------------------------------------------------------
(* A new project.                                                          *)

LEMMA PlNewFrame ==
    ASSUME PlInv,
           UNCHANGED <<plEditing, plSaving, plEdits, plTarget, plConfirmName, plBusy, plTypedHere>>,
           PlServerType', PlQueryType', PlNewType', PlPastType', PlCounted', PlMade', PlFollows', List!NoBareProjects',
           plSubmitting' => plCreations' # {},
           \/ plDeletes' = plDeletes /\ (plFetch' # "idle" \/ plFetch' = plFetch)
           \/ plDeletes' = List!Settled(plDeletes)
    PROVE  PlInv'
<1>0. plDeletes \in SUBSET PlDeletesT
  BY DEF PlInv, PlTypes, PlDeleteType
<1>1. /\ List!Settled(plDeletes) \subseteq PlDeletesT
      /\ List!Settled(plDeletes) # {} <=> plDeletes # {}
      /\ \A x \in List!Settled(plDeletes) : x.pc # "reloading"
      /\ \A x, y \in List!Settled(plDeletes) : x = y
  BY <1>0, PlSettled DEF PlInv, PlOneDelete
<1>2. PlEditType' /\ PlFlags' /\ List!MeantProject'
  BY DEF PlInv, PlTypes, PlEditType, PlFlags, List!MeantProject
<1>3. PlDeleteType'
  BY <1>0, <1>1 DEF PlInv, PlTypes, PlDeleteType
<1>4. PlOneDelete'
  <2>1. CASE plDeletes' = plDeletes /\ (plFetch' # "idle" \/ plFetch' = plFetch)
    BY <2>1 DEF PlInv, PlOneDelete
  <2>2. CASE plDeletes' = List!Settled(plDeletes)
    BY <1>1, <2>2 DEF PlInv, PlOneDelete
  <2> QED
    BY <2>1, <2>2
<1> QED
  BY <1>2, <1>3, <1>4 DEF PlInv, PlTypes

LEMMA PlNewDialogStep ==
    ASSUME PlInv, List!OpenNew \/ List!CloseNew
    PROVE  PlInv'
<1>0. /\ plNewOpen' \in BOOLEAN /\ plSubmitting' \in {plSubmitting, FALSE}
      /\ UNCHANGED <<plExists, plRev, plBare, plLoaded, plListed, plShown, plFetch, plSnap, plBehind, plCreations, plEditing,
                     plSaving, plEdits, plTarget, plConfirmName, plBusy, plDeletes, plTypedHere, plKept, plUntold, ops,
                     upsets>>
  BY DEF List!OpenNew, List!CloseNew, List!server, List!query, List!edition, List!deletion
<1>1. PlServerType' /\ PlQueryType' /\ PlNewType' /\ PlPastType'
  BY <1>0 DEF PlInv, PlTypes, PlServerType, PlQueryType, PlNewType, PlPastType
<1>2. PlCounted' /\ PlMade' /\ List!NoBareProjects' /\ (plSubmitting' => plCreations' # {})
  <2>1. plSubmitting' => plSubmitting
    BY <1>0
  <2>2. plSubmitting' => plCreations' # {}
    BY <1>0, <2>1 DEF PlInv, PlFlags
  <2>3. PlCounted' /\ PlMade' /\ List!NoBareProjects'
    BY <1>0 DEF PlInv, PlCounted, PlMade, List!NoBareProjects
  <2> QED
    BY <2>2, <2>3
<1>3. PlFollows'
  BY <1>0 DEF PlInv, PlFollows, PlPending, PlAsIs
<1> QED
  BY <1>0, <1>1, <1>2, <1>3, PlNewFrame

LEMMA PlSubmitNewStep ==
    ASSUME PlInv, NEW plan \in BOOLEAN, List!SubmitNew(plan)
    PROVE  PlInv'
<1> DEFINE new == [n |-> ops + 1, id |-> 0, plan |-> plan, step |-> "post", served |-> FALSE]
<1>0. /\ List!Op /\ plSubmitting' = TRUE /\ plCreations' = plCreations \cup {new}
      /\ UNCHANGED <<plExists, plRev, plBare, plLoaded, plListed, plShown, plFetch, plSnap, plBehind, plNewOpen, plEditing,
                     plSaving, plEdits, plTarget, plConfirmName, plBusy, plDeletes, plTypedHere, plKept, plUntold, upsets>>
  BY DEF List!SubmitNew, List!None, List!server, List!query, List!edition, List!deletion
<1>1. new \in PlCreationsT /\ new.id = 0 /\ new.step = "post" /\ new.served = FALSE
  BY <1>0, PlOp DEF PlCreationsT
<1> HIDE DEF new
<1>2. ops' = ops + 1 /\ ops' \in 0..MaxPageOps
  BY <1>0, PlOp
<1>3. PlServerType' /\ PlQueryType' /\ PlNewType' /\ PlPastType'
  BY <1>0, <1>1, <1>2 DEF PlInv, PlTypes, PlServerType, PlQueryType, PlNewType, PlPastType
<1>4. PlCounted'
  <2>1. PlPatches(plEdits') \subseteq PlPatches(plEdits) /\ ops' \in Nat /\ ops <= ops' /\ plRev' = plRev
    BY <1>0, <1>2, PlNumbers
  <2> QED
    BY <2>1, PlCountKept
<1>5. PlMade' /\ List!NoBareProjects' /\ (plSubmitting' => plCreations' # {})
  BY <1>0, <1>1 DEF PlInv, PlMade, List!NoBareProjects
<1>6. PlFollows'
  <2>1. \A p \in PlIds : PlPending(p) => PlPending(p)'
    BY <1>0 DEF PlPending
  <2> QED
    BY <1>0, <2>1, PlFollowsKept
<1> QED
  BY <1>0, <1>3, <1>4, <1>5, <1>6, PlNewFrame

\* What a creation on its way says of its project.
LEMMA PlCreation ==
    ASSUME PlInv, NEW c \in plCreations
    PROVE  /\ c \in PlCreationsT /\ c.id \in PlIds \cup {0}
           /\ (c.step = "post" /\ ~c.served => c.id = 0)
           /\ (c.step # "post" \/ c.served => c.id \in PlIds)
           /\ (c.id # 0 => plRev[c.id] > 0)
           /\ (c.step = "plan" \/ (c.step # "post" /\ c.served) => c.id \notin plBare)
           /\ (c.step = "undo" => c.id \in plUntold)
<1>1. c \in PlCreationsT /\ c.id \in PlIds \cup {0}
  BY DEF PlInv, PlTypes, PlNewType, PlCreationsT
<1> QED
  BY <1>1 DEF PlInv, PlMade

LEMMA PlServeCreationStep ==
    ASSUME PlInv, NEW c \in plCreations, List!ServeCreation(c)
    PROVE  PlInv'
<1>1. PICK id \in PlIds :
          /\ IF c.step = "post" THEN id \notin plExists /\ plRev[id] = 0
             ELSE id = c.id /\ id \in plExists
          /\ plCreations' = (plCreations \ {c}) \cup {[c EXCEPT !.id = id, !.served = TRUE]}
          /\ plRev' = IF c.step = "post" THEN [plRev EXCEPT ![id] = 1] ELSE plRev
          /\ plExists' = CASE c.step = "post" -> plExists \cup {id}
                           [] c.step = "undo" -> plExists \ {id}
                           [] c.step \in {"cover", "plan"} -> plExists
          /\ plBare' = IF c.step = "post" THEN plBare \cup {id} ELSE plBare \ {id}
  BY DEF List!ServeCreation, List!Ids, PlIds
<1> DEFINE done == [c EXCEPT !.id = id, !.served = TRUE]
<1>0. /\ ~c.served
      /\ UNCHANGED <<plLoaded, plListed, plShown, plFetch, plSnap, plBehind, plNewOpen, plSubmitting, plEditing, plSaving,
                     plEdits, plTarget, plConfirmName, plBusy, plDeletes, plTypedHere, plKept, plUntold, ops, upsets>>
  BY DEF List!ServeCreation, List!query, List!edition, List!deletion
<1>2. /\ c \in PlCreationsT /\ c.step \in {"post", "cover", "undo", "plan"}
      /\ (c.step = "post" => c.id = 0) /\ (c.step # "post" => c.id = id) /\ (c.step = "undo" => c.id \in plUntold)
  BY <1>0, <1>1, PlCreation DEF PlCreationsT
<1>3. done \in PlCreationsT /\ done.id = id /\ done.served = TRUE /\ done.step = c.step /\ plCreations' = (plCreations \ {c}) \cup {done}
  BY <1>1, <1>2 DEF PlCreationsT
<1> HIDE DEF done
<1>4. /\ plExists \subseteq PlIds /\ plRev \in PlRevs /\ plBare \subseteq plExists /\ id # 0 /\ 1 \in 0..MaxPageOps + 1
  BY PlNumbers DEF PlInv, PlTypes, PlServerType
<1>5. \A q \in PlIds : plRev'[q] = IF c.step = "post" /\ q = id THEN 1 ELSE plRev[q]
  BY <1>1, <1>4 DEF PlRevs
<1>6. plExists' = (IF c.step = "post" THEN plExists \cup {id} ELSE IF c.step = "undo" THEN plExists \ {id} ELSE plExists)
  BY <1>1, <1>2
<1>7. PlServerType'
  <2>1. plRev' \in PlRevs
    BY <1>1, <1>4 DEF PlRevs
  <2>2. plExists' \subseteq PlIds /\ plBare' \subseteq plExists'
    BY <1>1, <1>4, <1>6
  <2> QED
    BY <2>1, <2>2 DEF PlServerType
<1>8. PlQueryType' /\ PlPastType'
  BY <1>0 DEF PlInv, PlTypes, PlQueryType, PlPastType
<1>9. PlNewType'
  BY <1>0, <1>3 DEF PlInv, PlTypes, PlNewType
<1>10. PlCounted'
  <2>1. PlPatches(plEdits') \subseteq PlPatches(plEdits) /\ ops' \in Nat /\ ops <= ops'
    BY <1>0, PlNumbers
  <2>2. \A q \in PlIds : plRev'[q] = plRev[q] \/ plRev'[q] = 1
    BY <1>5
  <2> QED
    BY <2>1, <2>2, PlCountKept
<1>11. PlMade'
  <2> SUFFICES ASSUME NEW d \in plCreations'
               PROVE  /\ d.step = "post" /\ ~d.served => d.id = 0
                      /\ d.step # "post" \/ d.served => d.id # 0
                      /\ d.id # 0 => plRev'[d.id] > 0
                      /\ d.step = "plan" \/ (d.step # "post" /\ d.served) => d.id \notin plBare'
                      /\ d.step = "undo" => d.id \in plUntold
    BY <1>0 DEF PlMade
  <2>1. CASE d = done
    <3>1. plRev'[id] > 0
      BY <1>1, <1>2, <1>4, <1>5, PlCreation
    <3>2. c.step # "post" => id \notin plBare'
      BY <1>1
    <3> QED
      BY <1>2, <1>3, <1>4, <2>1, <3>1, <3>2
  <2>2. CASE d \in plCreations
    <3>1. d.id # 0 => d.id \in PlIds /\ plRev[d.id] > 0
      BY <2>2, PlCreation
    <3>2. d.id # 0 => plRev'[d.id] > 0
      BY <1>5, <3>1
    <3>3. d.id # 0 /\ c.step = "post" => d.id # id
      BY <1>1, <3>1
    <3>4. d.id # 0 /\ d.id \notin plBare => d.id \notin plBare'
      BY <1>1, <3>3
    <3> QED
      BY <2>2, <3>2, <3>4, PlCreation, PlNumbers
  <2> QED
    BY <1>3, <2>1, <2>2
<1>12. List!NoBareProjects'
  <2> SUFFICES ASSUME NEW p \in plBare' \ plKept PROVE \E d \in plCreations' : d.id = p
    BY <1>0 DEF List!NoBareProjects
  <2>1. CASE p = id
    BY <1>3, <2>1
  <2>2. CASE p # id
    <3>1. PICK d \in plCreations : d.id = p
      BY <1>1, <2>2 DEF PlInv, List!NoBareProjects
    <3>2. d # c
      BY <1>2, <1>4, <1>7, <2>2, <3>1, PlNumbers DEF PlServerType
    <3> QED
      BY <1>3, <3>1, <3>2
  <2> QED
    BY <2>1, <2>2
<1>13. PlFollows'
  <2>1. PlPending(id)'
    BY <1>3 DEF PlPending
  <2>2. ASSUME NEW q \in PlIds, PlPending(q) PROVE PlPending(q)'
    <3>1. (\E d \in plCreations : d.id = q) => \E d \in plCreations' : d.id = q
      BY <1>2, <1>3, <1>4, PlNumbers
    <3> QED
      BY <1>0, <2>2, <3>1 DEF PlPending
  <2>3. \A q \in PlIds \ {id} : (q \in plExists' <=> q \in plExists) /\ plRev'[q] = plRev[q]
    BY <1>5, <1>6
  <2> QED
    BY <1>0, <2>1, <2>2, <2>3, PlFollowsServed
<1>14. plSubmitting' => plCreations' # {}
  BY <1>3
<1> QED
  BY <1>0, <1>7, <1>8, <1>9, <1>10, <1>11, <1>12, <1>13, <1>14, PlNewFrame

\* A creation that ends has given its project its cover, taken it back or said what it left.
LEMMA PlEndsCreation ==
    ASSUME PlInv, NEW c \in plCreations, plCreations' = plCreations \ {c}, UNCHANGED <<plExists, plRev, plBare>>,
           plKept \subseteq plKept', plUntold \subseteq plUntold',
           c.id \notin plBare \ plKept'
    PROVE  PlMade' /\ List!NoBareProjects'
<1>1. PlMade'
  BY DEF PlInv, PlMade
<1>2. ASSUME NEW p \in plBare \ plKept' PROVE \E d \in plCreations' : d.id = p
  <2>1. PICK d \in plCreations : d.id = p
    BY DEF PlInv, List!NoBareProjects
  <2> QED
    BY <2>1
<1> QED
  BY <1>1, <1>2 DEF List!NoBareProjects

\* A creation that goes on is of the same project.
LEMMA PlNextRequest ==
    ASSUME PlInv, NEW c \in plCreations, NEW step \in {"cover", "undo", "plan"}, List!Steps(c, step), c.id \in PlIds,
           UNCHANGED <<plExists, plRev, plBare, plNewOpen, plSubmitting>>, plKept \subseteq plKept', plUntold \subseteq plUntold',
           step = "plan" => c.id \notin plBare, step = "undo" => c.id \in plUntold'
    PROVE  /\ PlNewType' /\ PlMade' /\ List!NoBareProjects' /\ plCreations' # {}
           /\ \A p \in PlIds : PlPending(p) /\ UNCHANGED <<plEdits, plDeletes>> => PlPending(p)'
<1> DEFINE now == [c EXCEPT !.step = step, !.served = FALSE]
<1>1. plCreations' = (plCreations \ {c}) \cup {now} /\ c \in PlCreationsT /\ plRev[c.id] > 0 /\ c.id # 0
  BY PlCreation, PlNumbers DEF List!Steps
<1>2. now \in PlCreationsT /\ now.step = step /\ now.served = FALSE /\ now.id = c.id
  BY <1>1 DEF PlCreationsT
<1> HIDE DEF now
<1>3. PlNewType'
  BY <1>1, <1>2 DEF PlInv, PlTypes, PlNewType
<1>4. PlMade'
  BY <1>1, <1>2 DEF PlInv, PlMade
<1>5. ASSUME NEW p \in plBare \ plKept' PROVE \E d \in plCreations' : d.id = p
  <2>1. PICK d \in plCreations : d.id = p
    BY DEF PlInv, List!NoBareProjects
  <2> QED
    BY <1>1, <1>2, <2>1
<1>6. List!NoBareProjects'
  BY <1>5 DEF List!NoBareProjects
<1>7. ASSUME NEW p \in PlIds, PlPending(p), UNCHANGED <<plEdits, plDeletes>> PROVE PlPending(p)'
  <2>1. (\E d \in plCreations : d.id = p) => \E d \in plCreations' : d.id = p
    BY <1>1, <1>2
  <2> QED
    BY <1>7, <2>1 DEF PlPending
<1> QED
  BY <1>1, <1>3, <1>4, <1>6, <1>7

LEMMA PlCreationGoesOnStep ==
    ASSUME PlInv, NEW c \in plCreations, List!CreationGoesOn(c)
    PROVE  PlInv'
<1>0. /\ c.served
      /\ UNCHANGED <<plExists, plRev, plBare, plEditing, plSaving, plEdits, plTarget, plConfirmName, plBusy, plTypedHere,
                     plKept, plUntold, ops, upsets>>
  BY DEF List!CreationGoesOn, List!server, List!edition
<1>1. PlServerType' /\ PlPastType'
  BY <1>0 DEF PlInv, PlTypes, PlServerType, PlPastType
<1>2. PlCounted'
  BY <1>0 DEF PlInv, PlCounted
<1>3. ASSUME NEW step \in {"cover", "undo", "plan"}, List!Steps(c, step), c.step # "undo", step # "undo",
             step = "plan" => c.step = "cover",
             UNCHANGED <<plNewOpen, plSubmitting, plLoaded, plListed, plShown, plFetch, plSnap, plBehind, plDeletes>>
      PROVE  PlInv'
  <2>1. c.id \in PlIds /\ (step = "plan" => c.id \notin plBare)
    BY <1>0, <1>3, PlCreation
  <2>2. /\ PlNewType' /\ PlMade' /\ List!NoBareProjects' /\ plCreations' # {}
        /\ \A p \in PlIds : PlPending(p) /\ UNCHANGED <<plEdits, plDeletes>> => PlPending(p)'
    BY <1>0, <1>3, <2>1, PlNextRequest
  <2>3. PlQueryType'
    BY <1>3 DEF PlInv, PlTypes, PlQueryType
  <2>4. PlFollows'
    BY <1>0, <1>3, <2>2, PlFollowsKept
  <2> QED
    BY <1>0, <1>1, <1>2, <1>3, <2>2, <2>3, <2>4, PlNewFrame
<1>4. CASE \/ c.step = "post" /\ List!Steps(c, "cover") /\ UNCHANGED <<plNewOpen, plSubmitting, List!query, plDeletes>>
           \/ c.step = "cover" /\ List!Steps(c, "plan") /\ UNCHANGED <<plNewOpen, plSubmitting, List!query, plDeletes>>
  BY <1>3, <1>4 DEF List!query
<1>5. CASE c.step = "undo" /\ plCreations' = plCreations \ {c} /\ plSubmitting' = FALSE
           /\ UNCHANGED <<plNewOpen, List!query, plDeletes>>
  <2>0. UNCHANGED <<plLoaded, plListed, plShown, plFetch, plSnap, plBehind>>
    BY <1>5 DEF List!query
  <2>1. c.id \notin plBare /\ c.id \in plUntold
    BY <1>0, <1>5, PlCreation
  <2>2. PlMade' /\ List!NoBareProjects'
    BY <1>0, <1>5, <2>1, PlEndsCreation
  <2>3. PlQueryType' /\ PlNewType'
    BY <1>5, <2>0 DEF PlInv, PlTypes, PlQueryType, PlNewType
  <2>4. \A p \in PlIds \ plUntold' : PlPending(p) => PlPending(p)'
    BY <1>0, <1>5, <2>1 DEF PlPending
  <2>5. PlFollows'
    BY <1>0, <2>0, <2>4, PlFollowsKept
  <2> QED
    BY <1>0, <1>1, <1>2, <1>5, <2>0, <2>2, <2>3, <2>5, PlNewFrame
<1>6. CASE /\ c.step = "plan" \/ c.step = "cover"
           /\ plCreations' = plCreations \ {c} /\ plNewOpen' = FALSE /\ plSubmitting' = FALSE
           /\ List!refresh /\ plDeletes' = List!Settled(plDeletes) /\ UNCHANGED <<plLoaded, plListed, plShown>>
  <2>1. c.id \notin plBare
    BY <1>0, <1>6, PlCreation
  <2>2. PlMade' /\ List!NoBareProjects'
    BY <1>0, <1>6, <2>1, PlEndsCreation
  <2>3. /\ (plFetch' = "asked" /\ ~plBehind') \/ (plFetch' = "read" /\ plBehind' /\ ~plLoaded')
        /\ plFetch' \in {"asked", "read"} /\ plBehind' \in BOOLEAN
        /\ plSnap' \in [ids : SUBSET PlIds, rev : PlRevs]
    BY <1>6, PlReadAgain
  <2>4. PlFollows'
    BY <2>3, PlFollowsRead
  <2>5. PlQueryType' /\ PlNewType'
    BY <1>6, <2>3 DEF PlInv, PlTypes, PlQueryType, PlNewType
  <2> QED
    BY <1>0, <1>1, <1>2, <1>6, <2>2, <2>4, <2>5, PlNewFrame
<1> QED
  BY <1>4, <1>5, <1>6 DEF List!CreationGoesOn

LEMMA PlCreationFailsStep ==
    ASSUME PlInv, NEW c \in plCreations, List!CreationFails(c)
    PROVE  PlInv'
<1>0. /\ upsets' = upsets \/ List!Fault
      /\ plKept' = (IF c.step \in {"post", "undo"} THEN plKept \cup ({c.id} \ {0}) ELSE plKept)
      /\ plUntold' = plUntold \cup ({c.id} \ {0})
      /\ UNCHANGED <<plExists, plRev, plBare, plLoaded, plListed, plShown, plFetch, plSnap, plBehind, plNewOpen, plEditing,
                     plSaving, plEdits, plTarget, plConfirmName, plBusy, plDeletes, plTypedHere, ops>>
  BY DEF List!CreationFails, List!None, List!server, List!query, List!edition, List!deletion
<1>1. c.id \in PlIds \cup {0} /\ upsets' \in 0..MaxUpsets
  BY <1>0, PlCreation, PlFault DEF PlInv, PlTypes, PlPastType
<1>2. PlServerType' /\ PlQueryType'
  BY <1>0 DEF PlInv, PlTypes, PlServerType, PlQueryType
<1>3. PlPastType'
  <2>1. plKept' \subseteq PlIds /\ plUntold' \subseteq PlIds
    BY <1>0, <1>1 DEF PlInv, PlTypes, PlPastType
  <2> QED
    BY <1>0, <1>1, <2>1 DEF PlInv, PlTypes, PlPastType
<1>4. PlCounted'
  BY <1>0 DEF PlInv, PlCounted
<1>5. CASE c.step = "cover" /\ List!Steps(c, "undo") /\ UNCHANGED plSubmitting
  <2>1. c.id \in PlIds /\ c.id \in plUntold'
    BY <1>0, <1>5, PlCreation, PlNumbers
  <2>2. /\ PlNewType' /\ PlMade' /\ List!NoBareProjects' /\ plCreations' # {}
        /\ \A p \in PlIds : PlPending(p) /\ UNCHANGED <<plEdits, plDeletes>> => PlPending(p)'
    <3>1. plKept \subseteq plKept' /\ plUntold \subseteq plUntold'
      BY <1>0
    <3> QED
      BY <1>0, <1>5, <2>1, <3>1, PlNextRequest
  <2>3. PlFollows'
    <3>1. plUntold \subseteq plUntold'
      BY <1>0
    <3> QED
      BY <1>0, <2>2, <3>1, PlFollowsKept
  <2> QED
    BY <1>0, <1>2, <1>3, <1>4, <2>2, <2>3, PlNewFrame
<1>6. CASE c.step # "cover" /\ plCreations' = plCreations \ {c} /\ plSubmitting' = FALSE
  <2>0. plKept \subseteq plKept' /\ plUntold \subseteq plUntold'
    BY <1>0
  <2>1. c.id \notin plBare \ plKept'
    <3>1. plBare \subseteq PlIds
      BY DEF PlInv, PlTypes, PlServerType
    <3>2. CASE c.step \in {"post", "undo"}
      BY <1>0, <3>1, <3>2, PlNumbers
    <3>3. CASE c.step = "plan"
      BY <3>3, PlCreation
    <3>4. c.step \in {"post", "cover", "undo", "plan"}
      BY PlCreation DEF PlCreationsT
    <3> QED
      BY <1>6, <3>2, <3>3, <3>4
  <2>2. PlMade' /\ List!NoBareProjects'
    BY <1>0, <1>6, <2>0, <2>1, PlEndsCreation
  <2>3. PlNewType'
    BY <1>0, <1>6 DEF PlInv, PlTypes, PlNewType
  <2>4. \A p \in PlIds \ plUntold' : PlPending(p) => PlPending(p)'
    BY <1>0, <1>6, PlNumbers DEF PlPending
  <2>5. PlFollows'
    BY <1>0, <2>0, <2>4, PlFollowsKept
  <2> QED
    BY <1>0, <1>2, <1>3, <1>4, <1>6, <2>2, <2>3, <2>5, PlNewFrame
<1> QED
  BY <1>5, <1>6 DEF List!CreationFails

-----------------------------------------------------------------------------
(* A project's name, description and cover.                                *)

LEMMA PlEditFrame ==
    ASSUME PlInv,
           UNCHANGED <<plExists, plNewOpen, plSubmitting, plCreations, plTarget, plConfirmName, plBusy, plTypedHere, plKept>>,
           PlServerType', PlQueryType', PlEditType', PlPastType', PlCounted', PlFollows',
           plSaving' => plEdits' # {}, plUntold \subseteq plUntold', plBare' \subseteq plBare,
           \A p \in PlIds : plRev[p] > 0 => plRev'[p] > 0,
           \/ plDeletes' = plDeletes /\ (plFetch' # "idle" \/ plFetch' = plFetch)
           \/ plDeletes' = List!Settled(plDeletes)
    PROVE  PlInv'
<1>0. plDeletes \in SUBSET PlDeletesT
  BY DEF PlInv, PlTypes, PlDeleteType
<1>1. /\ List!Settled(plDeletes) \subseteq PlDeletesT
      /\ List!Settled(plDeletes) # {} <=> plDeletes # {}
      /\ \A x \in List!Settled(plDeletes) : x.pc # "reloading"
      /\ \A x, y \in List!Settled(plDeletes) : x = y
  BY <1>0, PlSettled DEF PlInv, PlOneDelete
<1>2. PlNewType' /\ PlFlags' /\ List!MeantProject' /\ List!NoBareProjects'
  BY DEF PlInv, PlTypes, PlNewType, PlFlags, List!MeantProject, List!NoBareProjects
<1>3. PlDeleteType'
  BY <1>0, <1>1 DEF PlInv, PlTypes, PlDeleteType
<1>4. PlOneDelete'
  <2>1. CASE plDeletes' = plDeletes /\ (plFetch' # "idle" \/ plFetch' = plFetch)
    BY <2>1 DEF PlInv, PlOneDelete
  <2>2. CASE plDeletes' = List!Settled(plDeletes)
    BY <1>1, <2>2 DEF PlInv, PlOneDelete
  <2> QED
    BY <2>1, <2>2
<1>5. PlMade'
  <2>1. ASSUME NEW c \in plCreations
        PROVE  /\ c.step = "post" /\ ~c.served => c.id = 0
               /\ c.step # "post" \/ c.served => c.id # 0
               /\ c.id # 0 => plRev'[c.id] > 0
               /\ c.step = "plan" \/ (c.step # "post" /\ c.served) => c.id \notin plBare'
               /\ c.step = "undo" => c.id \in plUntold'
    BY PlCreation, PlNumbers
  <2> QED
    BY <2>1 DEF PlMade
<1> QED
  BY <1>2, <1>3, <1>4, <1>5 DEF PlInv, PlTypes

LEMMA PlEditDialogStep ==
    ASSUME PlInv, (\E p \in plListed : List!OpenEdit(p)) \/ List!CloseEdit
    PROVE  PlInv'
<1>0. /\ plEditing' \in plListed \cup {0} /\ plSaving' \in {plSaving, FALSE}
      /\ UNCHANGED <<plExists, plRev, plBare, plLoaded, plListed, plShown, plFetch, plSnap, plBehind, plNewOpen, plSubmitting,
                     plCreations, plEdits, plTarget, plConfirmName, plBusy, plDeletes, plTypedHere, plKept, plUntold,
                     ops, upsets>>
  BY DEF List!OpenEdit, List!CloseEdit, List!None, List!server, List!query, List!creation, List!deletion
<1>1. PlServerType' /\ PlQueryType' /\ PlPastType'
  BY <1>0 DEF PlInv, PlTypes, PlServerType, PlQueryType, PlPastType
<1>2. PlEditType'
  <2>1. plListed \subseteq PlIds
    BY DEF PlInv, PlTypes, PlQueryType
  <2> QED
    BY <1>0, <2>1 DEF PlInv, PlTypes, PlEditType
<1>3. plSaving' => plEdits' # {}
  <2>1. plSaving' => plSaving
    BY <1>0
  <2> QED
    BY <1>0, <2>1 DEF PlInv, PlFlags
<1>4. PlCounted'
  BY <1>0 DEF PlInv, PlCounted
<1>5. PlFollows'
  BY <1>0 DEF PlInv, PlFollows, PlPending, PlAsIs
<1> QED
  BY <1>0, <1>1, <1>2, <1>3, <1>4, <1>5, PlEditFrame

LEMMA PlSubmitEditStep ==
    ASSUME PlInv, NEW cover \in BOOLEAN, List!SubmitEdit(cover)
    PROVE  PlInv'
<1> DEFINE new == [of |-> plEditing, cover |-> cover, step |-> "patch", rev |-> 0, served |-> FALSE]
<1>0. /\ plEditing # 0 /\ List!Op /\ plSaving' = TRUE /\ plEdits' = plEdits \cup {new}
      /\ UNCHANGED <<plExists, plRev, plBare, plLoaded, plListed, plShown, plFetch, plSnap, plBehind, plNewOpen, plSubmitting,
                     plCreations, plEditing, plTarget, plConfirmName, plBusy, plDeletes, plTypedHere, plKept, plUntold,
                     upsets>>
  BY DEF List!SubmitEdit, List!None, List!server, List!query, List!creation, List!deletion
<1>1. plEditing \in PlIds /\ IsFiniteSet(plEdits) /\ plEdits \subseteq PlEditsT
  BY <1>0 DEF PlInv, PlTypes, PlEditType
<1>2. new \in PlEditsT
  <2>1. 0 \in 0..MaxPageOps + 1
    BY PlNumbers
  <2> QED
    BY <1>1, <2>1 DEF PlEditsT
<1> HIDE DEF new
<1>3. ops' = ops + 1 /\ ops' \in 0..MaxPageOps
  BY <1>0, PlOp
<1>4. PlServerType' /\ PlQueryType' /\ PlPastType'
  BY <1>0, <1>3 DEF PlInv, PlTypes, PlServerType, PlQueryType, PlPastType
<1>5. PlEditType'
  <2>1. IsFiniteSet(plEdits \cup {new})
    BY <1>1, FS_AddElement
  <2> QED
    BY <1>0, <1>1, <1>2, <2>1 DEF PlInv, PlTypes, PlEditType
<1>6. PlCounted'
  <2>1. /\ IsFiniteSet(PlPatches(plEdits)) /\ Cardinality(PlPatches(plEdits)) \in Nat /\ ops \in Nat
        /\ \A p \in PlIds : plRev[p] \in Nat
    BY PlNumbers
  <2>2. /\ IsFiniteSet(PlPatches(plEdits) \cup {new})
        /\ Cardinality(PlPatches(plEdits) \cup {new}) = IF new \in PlPatches(plEdits)
                THEN Cardinality(PlPatches(plEdits)) ELSE Cardinality(PlPatches(plEdits)) + 1
    BY <2>1, FS_AddElement
  <2>3. PlPatches(plEdits') \in SUBSET (PlPatches(plEdits) \cup {new})
    BY <1>0 DEF PlPatches
  <2>4. IsFiniteSet(PlPatches(plEdits')) /\ Cardinality(PlPatches(plEdits')) <= Cardinality(PlPatches(plEdits) \cup {new})
    BY <2>2, <2>3, FS_Subset
  <2>5. Cardinality(PlPatches(plEdits')) \in Nat
    BY <2>4, FS_CardinalityType
  <2>6. Cardinality(PlPatches(plEdits')) <= Cardinality(PlPatches(plEdits)) + 1
    BY <2>1, <2>2, <2>4, <2>5
  <2>7. Cardinality(PlPatches(plEdits)) <= ops /\ \A p \in PlIds : plRev[p] + Cardinality(PlPatches(plEdits)) <= ops + 1
    BY DEF PlInv, PlCounted
  <2>8. Cardinality(PlPatches(plEdits')) <= ops'
    BY <1>3, <2>1, <2>5, <2>6, <2>7
  <2>9. ASSUME NEW p \in PlIds PROVE plRev'[p] + Cardinality(PlPatches(plEdits')) <= ops' + 1
    BY <1>0, <1>3, <2>1, <2>5, <2>6, <2>7
  <2> QED
    BY <2>8, <2>9 DEF PlCounted
<1>7. PlFollows'
  <2>1. \A p \in PlIds : PlPending(p) => PlPending(p)'
    BY <1>0 DEF PlPending
  <2> QED
    BY <1>0, <2>1, PlFollowsKept
<1> QED
  BY <1>0, <1>4, <1>5, <1>6, <1>7, PlEditFrame

LEMMA PlServeEditStep ==
    ASSUME PlInv, NEW e \in plEdits, List!ServeEdit(e)
    PROVE  PlInv'
<1> DEFINE done == [e EXCEPT !.served = TRUE, !.rev = plRev'[e.of]]
<1>0. /\ ~e.served /\ plRev' = [plRev EXCEPT ![e.of] = IF e.step = "patch" THEN @ + 1 ELSE @]
      /\ plEdits' = (plEdits \ {e}) \cup {done} /\ plBare' \in {plBare, plBare \ {e.of}}
      /\ UNCHANGED <<plExists, plLoaded, plListed, plShown, plFetch, plSnap, plBehind, plNewOpen, plSubmitting,
                     plCreations, plEditing, plSaving, plTarget, plConfirmName, plBusy, plDeletes, plTypedHere, plKept,
                     plUntold, ops, upsets>>
  BY DEF List!ServeEdit, List!query, List!creation, List!deletion
<1>1. e \in PlEditsT /\ e.of \in PlIds /\ IsFiniteSet(plEdits) /\ plEdits \subseteq PlEditsT
  BY DEF PlInv, PlTypes, PlEditType, PlEditsT
<1>2. plRev \in PlRevs /\ plRev \in [PlIds -> Nat] /\ plExists \subseteq PlIds /\ plBare \subseteq plExists
  BY PlNumbers DEF PlInv, PlTypes, PlServerType, PlRevs
<1>3. \A p \in PlIds : plRev'[p] = IF e.step = "patch" /\ p = e.of THEN plRev[p] + 1 ELSE plRev[p]
  BY <1>0, <1>1, <1>2
<1>4. done.served = TRUE /\ done.of = e.of /\ done.step = e.step /\ done.cover = e.cover /\ done.rev = plRev'[e.of]
  BY <1>1 DEF PlEditsT
<1>5. PlPatches(plEdits') = PlPatches(plEdits) \ {e}
  BY <1>0, <1>4 DEF PlPatches
<1>6. PlCounted'
  <2>1. CASE e.step = "patch"
    <3>1. e \in PlPatches(plEdits)
      BY <1>0, <2>1 DEF PlPatches
    <3>2. /\ IsFiniteSet(PlPatches(plEdits)) /\ Cardinality(PlPatches(plEdits)) \in Nat /\ ops \in Nat
          /\ \A p \in PlIds : plRev[p] \in Nat
      BY PlNumbers
    <3>3. Cardinality(PlPatches(plEdits) \ {e}) = Cardinality(PlPatches(plEdits)) - 1
      BY <3>1, <3>2, FS_RemoveElement
    <3>4. Cardinality(PlPatches(plEdits)) <= ops /\ \A p \in PlIds : plRev[p] + Cardinality(PlPatches(plEdits)) <= ops + 1
      BY DEF PlInv, PlCounted
    <3>5. Cardinality(PlPatches(plEdits')) = Cardinality(PlPatches(plEdits)) - 1
      BY <1>5, <3>3
    <3>6. ASSUME NEW p \in PlIds PROVE plRev'[p] + Cardinality(PlPatches(plEdits')) <= ops + 1
      BY <1>3, <3>2, <3>4, <3>5
    <3>7. Cardinality(PlPatches(plEdits')) <= ops
      BY <3>2, <3>4, <3>5
    <3> QED
      BY <1>0, <3>6, <3>7 DEF PlCounted
  <2>2. CASE e.step # "patch"
    <3>1. PlPatches(plEdits') \subseteq PlPatches(plEdits) /\ ops' \in Nat /\ ops <= ops'
      BY <1>0, <1>5, PlNumbers
    <3>2. \A p \in PlIds : plRev'[p] = plRev[p] \/ plRev'[p] = 1
      BY <1>3, <2>2
    <3> QED
      BY <3>1, <3>2, PlCountKept
  <2> QED
    BY <2>1, <2>2
<1>7. plRev' \in PlRevs
  <2>1. IsFiniteSet(PlPatches(plEdits')) /\ Cardinality(PlPatches(plEdits')) \in Nat
    <3>1. IsFiniteSet(PlPatches(plEdits))
      BY PlNumbers
    <3>2. IsFiniteSet(PlPatches(plEdits) \ {e})
      BY <3>1, FS_RemoveElement
    <3> QED
      BY <1>5, <3>2, FS_CardinalityType
  <2>2. ASSUME NEW p \in PlIds PROVE plRev'[p] \in 0..MaxPageOps + 1
    <3>1. plRev'[p] + Cardinality(PlPatches(plEdits')) <= ops + 1
      BY <1>0, <1>6 DEF PlCounted
    <3>2. plRev'[p] \in Nat
      BY <1>3, PlNumbers
    <3> QED
      BY <2>1, <3>1, <3>2, PlNumbers
  <2>3. plRev' = [p \in PlIds |-> plRev'[p]]
    BY <1>0, <1>2
  <2> QED
    BY <2>2, <2>3 DEF PlRevs
<1>8. done \in PlEditsT
  BY <1>1, <1>7 DEF PlEditsT, PlRevs
<1> HIDE DEF done
<1>9. PlServerType'
  BY <1>0, <1>2, <1>7 DEF PlServerType
<1>10. PlQueryType' /\ PlPastType'
  BY <1>0 DEF PlInv, PlTypes, PlQueryType, PlPastType
<1>11. PlEditType'
  <2>1. IsFiniteSet(plEdits \ {e})
    BY <1>1, FS_RemoveElement
  <2>2. IsFiniteSet((plEdits \ {e}) \cup {done})
    BY <2>1, FS_AddElement
  <2> QED
    BY <1>0, <1>1, <1>8, <2>2 DEF PlInv, PlTypes, PlEditType
<1>12. PlFollows'
  <2>1. PlPending(e.of)'
    BY <1>0, <1>4 DEF PlPending
  <2>2. ASSUME NEW q \in PlIds, PlPending(q) PROVE PlPending(q)'
    <3>1. (\E d \in plEdits : d.of = q) => \E d \in plEdits' : d.of = q
      BY <1>0, <1>4
    <3> QED
      BY <1>0, <2>2, <3>1 DEF PlPending
  <2>3. \A q \in PlIds \ {e.of} : (q \in plExists' <=> q \in plExists) /\ plRev'[q] = plRev[q]
    BY <1>0, <1>3
  <2> QED
    BY <1>0, <1>1, <2>1, <2>2, <2>3, PlFollowsServed
<1>13. plSaving' => plEdits' # {}
  BY <1>0
<1>14. \A p \in PlIds : plRev[p] > 0 => plRev'[p] > 0
  BY <1>3, PlNumbers
<1> QED
  BY <1>0, <1>6, <1>9, <1>10, <1>11, <1>12, <1>13, <1>14, PlEditFrame

\* Without an edit, or with its next request, no more patches are on their way.
LEMMA PlEditGoesOnStep ==
    ASSUME PlInv, NEW e \in plEdits, List!EditGoesOn(e)
    PROVE  PlInv'
<1>0. /\ e.served
      /\ UNCHANGED <<plExists, plRev, plBare, plLoaded, plListed, plNewOpen, plSubmitting, plCreations, plTarget,
                     plConfirmName, plBusy, plTypedHere, plKept, plUntold, ops, upsets>>
  BY DEF List!EditGoesOn, List!server, List!query, List!creation
<1>1. e \in PlEditsT /\ e.of \in PlIds /\ e.rev \in 0..MaxPageOps + 1 /\ IsFiniteSet(plEdits) /\ plEdits \subseteq PlEditsT
  BY DEF PlInv, PlTypes, PlEditType, PlEditsT
<1>2. PlServerType' /\ PlPastType'
  BY <1>0 DEF PlInv, PlTypes, PlServerType, PlPastType
<1>3. IsFiniteSet(plEdits \ {e})
  BY <1>1, FS_RemoveElement
<1>4. CASE e.step = "patch" /\ e.cover
  <2> DEFINE now == [e EXCEPT !.step = "cover", !.served = FALSE]
  <2>0. /\ plEdits' = (plEdits \ {e}) \cup {now}
        /\ UNCHANGED <<plShown, plFetch, plSnap, plBehind, plEditing, plSaving, plDeletes>>
    BY <1>4 DEF List!EditGoesOn, List!query
  <2>1. now \in PlEditsT /\ now.step = "cover" /\ now.of = e.of
    BY <1>1 DEF PlEditsT
  <2> HIDE DEF now
  <2>2. PlQueryType'
    BY <1>0, <2>0 DEF PlInv, PlTypes, PlQueryType
  <2>3. IsFiniteSet((plEdits \ {e}) \cup {now})
    BY <1>3, FS_AddElement
  <2>4. PlEditType'
    BY <2>0, <2>1, <2>3, <1>1 DEF PlInv, PlTypes, PlEditType
  <2>5. PlCounted'
    <3>1. PlPatches(plEdits') \subseteq PlPatches(plEdits) /\ ops' \in Nat /\ ops <= ops' /\ plRev' = plRev
      BY <1>0, <2>0, <2>1, PlNumbers DEF PlPatches
    <3> QED
      BY <3>1, PlCountKept
  <2>6. PlFollows'
    <3>1. ASSUME NEW q \in PlIds, PlPending(q) PROVE PlPending(q)'
      <4>1. (\E d \in plEdits : d.of = q) => \E d \in plEdits' : d.of = q
        BY <2>0, <2>1
      <4> QED
        BY <1>0, <2>0, <3>1, <4>1 DEF PlPending
    <3> QED
      BY <1>0, <2>0, <3>1, PlFollowsKept
  <2>7. plSaving' => plEdits' # {}
    BY <2>0
  <2> QED
    BY <1>0, <1>2, <2>0, <2>2, <2>4, <2>5, <2>6, <2>7, PlEditFrame
<1>5. CASE ~(e.step = "patch" /\ e.cover)
  <2>0. /\ plEdits' = plEdits \ {e} /\ plEditing' = 0 /\ plSaving' = FALSE
        /\ plShown' = (IF e.of \in plListed THEN [plShown EXCEPT ![e.of] = e.rev] ELSE plShown)
        /\ List!refresh /\ plDeletes' = List!Settled(plDeletes)
    BY <1>5 DEF List!EditGoesOn, List!None
  <2>1. /\ (plFetch' = "asked" /\ ~plBehind') \/ (plFetch' = "read" /\ plBehind' /\ ~plLoaded')
        /\ plFetch' \in {"asked", "read"} /\ plBehind' \in BOOLEAN
        /\ plSnap' \in [ids : SUBSET PlIds, rev : PlRevs]
    BY <1>0, <2>0, PlReadAgain
  <2>2. PlFollows'
    BY <2>1, PlFollowsRead
  <2>3. PlQueryType'
    <3>1. plShown' \in PlRevs
      BY <1>1, <2>0 DEF PlInv, PlTypes, PlQueryType, PlRevs
    <3> QED
      BY <1>0, <2>1, <3>1 DEF PlInv, PlTypes, PlQueryType
  <2>4. PlEditType'
    BY <1>1, <1>3, <2>0 DEF PlInv, PlTypes, PlEditType
  <2>5. PlCounted'
    <3>1. PlPatches(plEdits') \subseteq PlPatches(plEdits) /\ ops' \in Nat /\ ops <= ops' /\ plRev' = plRev
      BY <1>0, <2>0, PlNumbers DEF PlPatches
    <3> QED
      BY <3>1, PlCountKept
  <2> QED
    BY <1>0, <1>2, <2>0, <2>2, <2>3, <2>4, <2>5, PlEditFrame
<1> QED
  BY <1>4, <1>5

LEMMA PlEditFailsStep ==
    ASSUME PlInv, NEW e \in plEdits, List!EditFails(e)
    PROVE  PlInv'
<1>0. /\ plEdits' = plEdits \ {e} /\ plSaving' = FALSE /\ plUntold' = plUntold \cup {e.of}
      /\ upsets' = upsets \/ List!Fault
      /\ UNCHANGED <<plExists, plRev, plBare, plLoaded, plListed, plShown, plFetch, plSnap, plBehind, plNewOpen, plSubmitting,
                     plCreations, plEditing, plTarget, plConfirmName, plBusy, plDeletes, plTypedHere, plKept, ops>>
  BY DEF List!EditFails, List!server, List!query, List!creation, List!deletion
<1>1. e.of \in PlIds /\ IsFiniteSet(plEdits) /\ plEdits \subseteq PlEditsT /\ upsets' \in 0..MaxUpsets
  BY <1>0, PlFault DEF PlInv, PlTypes, PlEditType, PlEditsT, PlPastType
<1>2. PlServerType' /\ PlQueryType'
  BY <1>0 DEF PlInv, PlTypes, PlServerType, PlQueryType
<1>3. PlPastType'
  BY <1>0, <1>1 DEF PlInv, PlTypes, PlPastType
<1>4. PlEditType'
  <2>1. IsFiniteSet(plEdits \ {e})
    BY <1>1, FS_RemoveElement
  <2> QED
    BY <1>0, <1>1, <2>1 DEF PlInv, PlTypes, PlEditType
<1>5. PlCounted'
  <2>1. PlPatches(plEdits') \subseteq PlPatches(plEdits) /\ ops' \in Nat /\ ops <= ops' /\ plRev' = plRev
    BY <1>0, PlNumbers DEF PlPatches
  <2> QED
    BY <2>1, PlCountKept
<1>6. PlFollows'
  <2>1. \A p \in PlIds \ plUntold' : PlPending(p) => PlPending(p)'
    BY <1>0 DEF PlPending
  <2>2. plUntold \subseteq plUntold'
    BY <1>0
  <2> QED
    BY <1>0, <2>1, <2>2, PlFollowsKept
<1> QED
  BY <1>0, <1>2, <1>3, <1>4, <1>5, <1>6, PlEditFrame

-----------------------------------------------------------------------------
(* A project's removal.                                                    *)

LEMMA PlDeleteFrame ==
    ASSUME PlInv,
           UNCHANGED <<plRev, plNewOpen, plSubmitting, plCreations, plEditing, plSaving, plEdits, plKept>>,
           ops' \in Nat, ops <= ops',
           PlServerType', PlQueryType', PlDeleteType', PlPastType', PlFollows', PlOneDelete', List!MeantProject',
           plUntold \subseteq plUntold', plBare' \subseteq plBare
    PROVE  PlInv'
<1>1. PlNewType' /\ PlEditType' /\ PlFlags' /\ List!NoBareProjects'
  BY DEF PlInv, PlTypes, PlNewType, PlEditType, PlFlags, List!NoBareProjects
<1>2. PlMade'
  BY DEF PlInv, PlMade
<1>3. PlCounted'
  BY PlCountKept
<1> QED
  BY <1>1, <1>2, <1>3 DEF PlInv, PlTypes

\* Asked about, kept, named.
LEMMA PlQuestionStep ==
    ASSUME PlInv, (\E p \in plListed : List!AskDelete(p)) \/ List!Keep \/ List!TypeName
    PROVE  PlInv'
<1>0. /\ UNCHANGED <<plExists, plRev, plBare, plLoaded, plListed, plShown, plFetch, plSnap, plBehind, plNewOpen, plSubmitting,
                     plCreations, plEditing, plSaving, plEdits, plBusy, plDeletes, plKept, plUntold, upsets>>
      /\ ops' = ops \/ List!Op
      /\ \/ plTarget' \in plListed \cup {0} /\ plConfirmName' = 0 /\ plTypedHere' = FALSE
         \/ plTarget' = plTarget /\ plConfirmName' = plTarget /\ plTypedHere' = TRUE
  BY DEF List!AskDelete, List!Keep, List!TypeName, List!Target, List!None, List!server, List!query, List!creation, List!edition
<1>1. plListed \subseteq PlIds /\ 0 \notin PlIds
  BY PlNumbers DEF PlInv, PlTypes, PlQueryType
<1>2. ops' \in 0..MaxPageOps /\ ops' \in Nat /\ ops <= ops'
  BY <1>0, PlOp, PlNumbers
<1>3. PlServerType' /\ PlQueryType' /\ PlPastType'
  BY <1>0, <1>2 DEF PlInv, PlTypes, PlServerType, PlQueryType, PlPastType
<1>4. PlDeleteType'
  BY <1>0, <1>1 DEF PlInv, PlTypes, PlDeleteType
<1>5. List!MeantProject'
  BY <1>0, <1>1 DEF List!MeantProject, List!None
<1>6. PlFollows'
  BY <1>0 DEF PlInv, PlFollows, PlPending, PlAsIs
<1>7. PlOneDelete'
  BY <1>0 DEF PlInv, PlOneDelete
<1> QED
  BY <1>0, <1>2, <1>3, <1>4, <1>5, <1>6, <1>7, PlDeleteFrame

LEMMA PlHandleDeleteStep ==
    ASSUME PlInv, List!handleDelete
    PROVE  PlInv'
<1> DEFINE new == [of |-> plTarget, pc |-> "sent"]
<1>0. /\ plTarget # 0 /\ ~plBusy /\ plBusy' = TRUE /\ plDeletes' = plDeletes \cup {new}
      /\ UNCHANGED <<plExists, plRev, plBare, plLoaded, plListed, plShown, plFetch, plSnap, plBehind, plNewOpen, plSubmitting,
                     plCreations, plEditing, plSaving, plEdits, plTarget, plConfirmName, plTypedHere, plKept, plUntold,
                     ops, upsets>>
  BY DEF List!handleDelete, List!None, List!server, List!query, List!creation, List!edition
<1>1. plDeletes' = {new}
  BY <1>0 DEF PlInv, PlOneDelete
<1>2. new \in PlDeletesT /\ new.pc = "sent"
  BY <1>0 DEF PlInv, PlTypes, PlDeleteType, PlDeletesT
<1> HIDE DEF new
<1>3. PlServerType' /\ PlQueryType' /\ PlPastType'
  BY <1>0 DEF PlInv, PlTypes, PlServerType, PlQueryType, PlPastType
<1>4. PlDeleteType'
  BY <1>0, <1>1, <1>2 DEF PlInv, PlTypes, PlDeleteType
<1>5. List!MeantProject'
  BY <1>0 DEF PlInv, List!MeantProject
<1>6. PlFollows'
  <2>1. \A p \in PlIds : PlPending(p) => PlPending(p)'
    BY <1>0 DEF PlPending
  <2> QED
    BY <1>0, <2>1, PlFollowsKept
<1>7. PlOneDelete'
  BY <1>0, <1>1, <1>2 DEF PlOneDelete
<1> QED
  BY <1>0, <1>3, <1>4, <1>5, <1>6, <1>7, PlDeleteFrame, PlNumbers

LEMMA PlTheDelete ==
    ASSUME PlInv, NEW d \in plDeletes
    PROVE  plDeletes = {d} /\ plBusy = TRUE /\ d \in PlDeletesT /\ d.of \in PlIds
BY DEF PlInv, PlOneDelete, PlTypes, PlDeleteType, PlDeletesT

LEMMA PlServeDeleteStep ==
    ASSUME PlInv, NEW d \in plDeletes, List!ServeDelete(d)
    PROVE  PlInv'
<1> DEFINE now == [d EXCEPT !.pc = "ok"]
<1>0. /\ plExists' = plExists \ {d.of} /\ plBare' = plBare \ {d.of} /\ plDeletes' = (plDeletes \ {d}) \cup {now}
      /\ UNCHANGED <<plRev, plLoaded, plListed, plShown, plFetch, plSnap, plBehind, plNewOpen, plSubmitting,
                     plCreations, plEditing, plSaving, plEdits, plTarget, plConfirmName, plBusy, plTypedHere, plKept, plUntold,
                     ops, upsets>>
  BY DEF List!ServeDelete, List!query, List!creation, List!edition
<1>1. plDeletes' = {now} /\ plBusy /\ d.of \in PlIds /\ d \in PlDeletesT
  BY <1>0, PlTheDelete
<1>2. now \in PlDeletesT /\ now.pc = "ok" /\ now.of = d.of
  BY <1>1 DEF PlDeletesT
<1> HIDE DEF now
<1>3. PlServerType' /\ PlQueryType' /\ PlPastType'
  BY <1>0 DEF PlInv, PlTypes, PlServerType, PlQueryType, PlPastType
<1>4. PlDeleteType'
  BY <1>0, <1>1, <1>2 DEF PlInv, PlTypes, PlDeleteType
<1>5. List!MeantProject'
  BY <1>0 DEF PlInv, List!MeantProject
<1>6. PlFollows'
  <2>1. PlPending(d.of)'
    BY <1>1, <1>2 DEF PlPending
  <2>2. ASSUME NEW q \in PlIds, PlPending(q) PROVE PlPending(q)'
    BY <1>0, <1>2, <2>1, <2>2, PlTheDelete DEF PlPending
  <2>3. \A q \in PlIds \ {d.of} : (q \in plExists' <=> q \in plExists) /\ plRev'[q] = plRev[q]
    BY <1>0
  <2> QED
    BY <1>0, <1>1, <2>1, <2>2, <2>3, PlFollowsServed
<1>7. PlOneDelete'
  BY <1>0, <1>1, <1>2 DEF PlOneDelete
<1> QED
  BY <1>0, <1>3, <1>4, <1>5, <1>6, <1>7, PlDeleteFrame, PlNumbers

LEMMA PlDeletedStep ==
    ASSUME PlInv, NEW d \in plDeletes, List!Deleted(d)
    PROVE  PlInv'
<1> DEFINE now == [d EXCEPT !.pc = "reloading"]
<1>0. /\ List!refresh /\ plDeletes' = List!Settled(plDeletes \ {d}) \cup {now}
      /\ UNCHANGED <<plExists, plRev, plBare, plLoaded, plListed, plShown, plNewOpen, plSubmitting, plCreations, plEditing,
                     plSaving, plEdits, plTarget, plConfirmName, plBusy, plTypedHere, plKept, plUntold, ops, upsets>>
  BY DEF List!Deleted, List!server, List!creation, List!edition
<1>1. plDeletes = {d} /\ plBusy /\ d.of \in PlIds /\ d \in PlDeletesT
  BY PlTheDelete
<1>2. plDeletes' = {now}
  <2>1. List!Settled(plDeletes \ {d}) = {}
    BY <1>1 DEF List!Settled
  <2> QED
    BY <1>0, <2>1
<1>3. now \in PlDeletesT /\ now.pc = "reloading"
  BY <1>1 DEF PlDeletesT
<1> HIDE DEF now
<1>4. /\ (plFetch' = "asked" /\ ~plBehind') \/ (plFetch' = "read" /\ plBehind' /\ ~plLoaded')
      /\ plFetch' \in {"asked", "read"} /\ plBehind' \in BOOLEAN
      /\ plSnap' \in [ids : SUBSET PlIds, rev : PlRevs]
  BY <1>0, PlReadAgain
<1>5. PlFollows'
  BY <1>4, PlFollowsRead
<1>6. PlServerType' /\ PlQueryType' /\ PlPastType'
  BY <1>0, <1>4 DEF PlInv, PlTypes, PlServerType, PlQueryType, PlPastType
<1>7. PlDeleteType'
  BY <1>0, <1>2, <1>3 DEF PlInv, PlTypes, PlDeleteType
<1>8. List!MeantProject'
  BY <1>0 DEF PlInv, List!MeantProject
<1>9. PlOneDelete'
  BY <1>0, <1>1, <1>2, <1>4 DEF PlOneDelete
<1> QED
  BY <1>0, <1>5, <1>6, <1>7, <1>8, <1>9, PlDeleteFrame, PlNumbers

LEMMA PlDeleteOverStep ==
    ASSUME PlInv, NEW d \in plDeletes, List!DeleteEnds(d) \/ List!DeleteFails(d)
    PROVE  PlInv'
<1>0. /\ plDeletes' = plDeletes \ {d} /\ plBusy' = FALSE
      /\ UNCHANGED <<plExists, plRev, plBare, plLoaded, plListed, plShown, plFetch, plSnap, plBehind, plNewOpen, plSubmitting,
                     plCreations, plEditing, plSaving, plEdits, plKept, ops>>
      /\ upsets' = upsets \/ List!Fault
      /\ plTarget' \in {plTarget, 0} /\ (plTarget' # 0 => UNCHANGED <<plConfirmName, plTypedHere>>)
      /\ plConfirmName' \in {plConfirmName, 0} /\ plTypedHere' \in {plTypedHere, FALSE}
      /\ \/ d.pc = "done" /\ plUntold' = plUntold
         \/ plUntold' = plUntold \cup {d.of}
  BY DEF List!DeleteEnds, List!DeleteFails, List!Target, List!None, List!server, List!query, List!creation, List!edition
<1>1. plDeletes' = {} /\ d.of \in PlIds
  BY <1>0, PlTheDelete
<1>2. upsets' \in 0..MaxUpsets
  BY <1>0, PlFault DEF PlInv, PlTypes, PlPastType
<1>3. PlServerType' /\ PlQueryType'
  BY <1>0 DEF PlInv, PlTypes, PlServerType, PlQueryType
<1>4. PlPastType'
  BY <1>0, <1>1, <1>2 DEF PlInv, PlTypes, PlPastType
<1>5. PlDeleteType'
  BY <1>0, <1>1 DEF PlInv, PlTypes, PlDeleteType
<1>6. List!MeantProject'
  BY <1>0 DEF PlInv, List!MeantProject, List!None
<1>7. PlFollows'
  <2>1. \A p \in PlIds \ plUntold' : PlPending(p) => PlPending(p)'
    BY <1>0, PlTheDelete DEF PlPending
  <2>2. plUntold \subseteq plUntold'
    BY <1>0
  <2> QED
    BY <1>0, <2>1, <2>2, PlFollowsKept
<1>8. PlOneDelete'
  BY <1>0, <1>1 DEF PlOneDelete
<1>9. plUntold \subseteq plUntold'
  BY <1>0
<1> QED
  BY <1>0, <1>3, <1>4, <1>5, <1>6, <1>7, <1>8, <1>9, PlDeleteFrame, PlNumbers

-----------------------------------------------------------------------------
(* Every state of the page.                                                *)

LEMMA PlStart == List!Init => PlInv
<1> SUFFICES ASSUME List!Init PROVE PlInv
  OBVIOUS
<1>0. /\ plExists = {1, 2} /\ plRev = [p \in PlIds |-> IF p <= 2 THEN 1 ELSE 0] /\ plBare = {}
      /\ plLoaded = FALSE /\ plListed = {} /\ plShown = [p \in PlIds |-> 0]
      /\ plFetch = "asked" /\ plSnap = [ids |-> {}, rev |-> [p \in PlIds |-> 0]] /\ plBehind = FALSE
      /\ plNewOpen = FALSE /\ plSubmitting = FALSE /\ plCreations = {}
      /\ plEditing = 0 /\ plSaving = FALSE /\ plEdits = {}
      /\ plTarget = 0 /\ plConfirmName = 0 /\ plBusy = FALSE /\ plDeletes = {} /\ plTypedHere = FALSE
      /\ plKept = {} /\ plUntold = {} /\ ops = 0 /\ upsets = 0
  BY DEF List!Init, List!None, List!NoSnap, List!Ids, PlIds
<1>1. /\ MaxPageOps \in Nat /\ MaxUpsets \in Nat /\ MaxProjects \in Nat /\ MaxProjects >= 2
      /\ 0 \in 0..MaxPageOps + 1 /\ 1 \in 0..MaxPageOps + 1 /\ 0 \in 0..MaxPageOps /\ 0 \in 0..MaxUpsets
  BY PagesAssumption
<1>2. plRev \in PlRevs /\ [p \in PlIds |-> 0] \in PlRevs /\ plExists \subseteq PlIds
  BY <1>0, <1>1 DEF PlRevs, PlIds
<1>3. PlServerType /\ PlQueryType /\ PlNewType /\ PlDeleteType /\ PlPastType
  BY <1>0, <1>1, <1>2 DEF PlServerType, PlQueryType, PlNewType, PlDeleteType, PlPastType
<1>4. PlEditType
  BY <1>0, FS_EmptySet DEF PlEditType
<1>5. PlCounted
  <2>1. PlPatches(plEdits) = {} /\ Cardinality({}) = 0
    BY <1>0, FS_EmptySet DEF PlPatches
  <2>2. \A p \in PlIds : plRev[p] + 0 <= 1
    BY <1>0
  <2> QED
    BY <1>0, <2>1, <2>2 DEF PlCounted
<1>6. PlMade /\ PlOneDelete /\ PlFlags /\ List!NoBareProjects
  BY <1>0 DEF PlMade, PlOneDelete, PlFlags, List!NoBareProjects
<1>7. PlFollows
  BY <1>0 DEF PlFollows
<1>8. List!MeantProject
  BY <1>0 DEF List!MeantProject, List!None
<1> QED
  BY <1>3, <1>4, <1>5, <1>6, <1>7, <1>8 DEF PlInv, PlTypes

LEMMA PlStep == PlInv /\ [List!Next]_(List!vars) => PlInv'
<1> SUFFICES ASSUME PlInv, [List!Next]_(List!vars) PROVE PlInv'
  OBVIOUS
<1>1. CASE List!Next
  <2>1. CASE \/ List!fetchProjects \/ List!Land \/ List!LoadFails
             \/ List!OpenNew \/ List!CloseNew \/ (\E b \in BOOLEAN : List!SubmitNew(b))
    BY <2>1, PlReadStep, PlNewDialogStep, PlSubmitNewStep
  <2>2. CASE \E c \in plCreations : List!ServeCreation(c) \/ List!CreationGoesOn(c) \/ List!CreationFails(c)
    BY <2>2, PlServeCreationStep, PlCreationGoesOnStep, PlCreationFailsStep
  <2>3. CASE \E p \in plListed : List!OpenEdit(p) \/ List!AskDelete(p)
    BY <2>3, PlEditDialogStep, PlQuestionStep
  <2>4. CASE List!CloseEdit \/ (\E b \in BOOLEAN : List!SubmitEdit(b))
    BY <2>4, PlEditDialogStep, PlSubmitEditStep
  <2>5. CASE \E e \in plEdits : List!ServeEdit(e) \/ List!EditGoesOn(e) \/ List!EditFails(e)
    BY <2>5, PlServeEditStep, PlEditGoesOnStep, PlEditFailsStep
  <2>6. CASE List!Keep \/ List!TypeName \/ List!handleDelete
    BY <2>6, PlQuestionStep, PlHandleDeleteStep
  <2>7. CASE \E d \in plDeletes : List!ServeDelete(d) \/ List!Deleted(d) \/ List!DeleteEnds(d) \/ List!DeleteFails(d)
    BY <2>7, PlServeDeleteStep, PlDeletedStep, PlDeleteOverStep
  <2> QED
    BY <1>1, <2>1, <2>2, <2>3, <2>4, <2>5, <2>6, <2>7 DEF List!Next
<1>2. CASE UNCHANGED List!vars
  <2>0. UNCHANGED <<plExists, plRev, plBare, plLoaded, plListed, plShown, plFetch, plSnap, plBehind, plNewOpen, plSubmitting,
                    plCreations, plEditing, plSaving, plEdits, plTarget, plConfirmName, plBusy, plDeletes, plTypedHere, plKept,
                    plUntold, ops, upsets>>
    BY <1>2 DEF List!vars, List!server, List!query, List!creation, List!edition, List!deletion
  <2>1. PlTypes' /\ PlCounted' /\ PlMade'
    BY <2>0 DEF PlInv, PlTypes, PlServerType, PlQueryType, PlNewType, PlEditType, PlDeleteType, PlPastType, PlCounted, PlMade
  <2>2. PlFollows' /\ PlOneDelete' /\ PlFlags'
    BY <2>0 DEF PlInv, PlFollows, PlPending, PlAsIs, PlOneDelete, PlFlags
  <2>3. List!NoBareProjects' /\ List!MeantProject'
    BY <2>0 DEF PlInv, List!NoBareProjects, List!MeantProject
  <2> QED
    BY <2>1, <2>2, <2>3 DEF PlInv
<1> QED
  BY <1>1, <1>2

LEMMA PlPromises == PlInv => List!TypeOK /\ List!ProjectListIsRight
<1> SUFFICES ASSUME PlInv PROVE List!TypeOK /\ List!ProjectListIsRight
  OBVIOUS
<1>1. List!TypeOK
  BY DEF PlInv, PlTypes, PlServerType, PlQueryType, PlNewType, PlEditType, PlDeleteType, PlPastType, PlIds, PlRevs,
     PlCreationsT, PlEditsT, PlDeletesT, List!TypeOK, List!Ids, List!Revs, List!None
<1>2. List!ListIsServer
  <2>1. ASSUME plCreations = {}, plEdits = {}, plDeletes = {}, NEW p \in PlIds PROVE ~PlPending(p)
    BY <2>1 DEF PlPending
  <2> QED
    BY <2>1 DEF PlInv, PlFollows, PlAsIs, List!ListIsServer, List!Ids, PlIds
<1>3. List!Cardinality(plDeletes) <= 1
  <2>1. CASE plDeletes = {}
    <3>1. Cardinality(plDeletes) = 0
      BY <2>1, FS_EmptySet
    <3> QED
      BY <3>1 DEF List!Cardinality, Cardinality
  <2>2. ASSUME NEW d \in plDeletes PROVE List!Cardinality(plDeletes) <= 1
    <3>1. plDeletes = {d}
      BY PlTheDelete
    <3>2. Cardinality(plDeletes) = 1
      BY <3>1, FS_Singleton
    <3> QED
      BY <3>2 DEF List!Cardinality, Cardinality
  <2> QED
    BY <2>1, <2>2
<1>4. List!FlagsHaveCalls
  BY <1>3 DEF PlInv, PlFlags, PlOneDelete, List!FlagsHaveCalls
<1> QED
  BY <1>1, <1>2, <1>4 DEF PlInv, List!ProjectListIsRight

-----------------------------------------------------------------------------
(* The button of the AI runs: its invariant.                               *)

AiRunsT == [id : 1..MaxRuns, plan : Plans, status : {"active", "ended", "cancelled"}]
AiRead == [plan : Plans, live : BOOLEAN, click : BOOLEAN, n : 1..MaxReads]

\* The rows of one read: no run is there twice.
AiRows == {rs \in SUBSET AiRunsT : \A r, q \in rs : r.id = q.id => r = q}
AiAnswersT == [plan : Plans, live : BOOLEAN, click : BOOLEAN, rows : AiRows, late : BOOLEAN]
AiCallsT == [kind : {"create", "cancel"}, plan : Plans, id : 0..MaxRuns, pc : {"sent", "ok", "told", "failed"}]

AiServerType ==
    /\ aiRuns \in AiRows /\ IsFiniteSet(aiRuns) /\ \A r \in aiRuns : r.id <= Cardinality(aiRuns)
    /\ aiEvents \subseteq 1..MaxRuns /\ aiPlan \in Plans
AiHookType ==
    /\ aiRun \subseteq AiRunsT /\ \A r, q \in aiRun : r = q
    /\ aiAsks \subseteq AiRead /\ IsFiniteSet(aiAsks) /\ aiAnswers \in Seq(AiAnswersT)
AiButtonType == aiCalls \subseteq AiCallsT /\ aiSubmitting \in BOOLEAN
AiPastType ==
    /\ aiBehind \in BOOLEAN /\ aiInOrder \in BOOLEAN /\ aiStrayed \in BOOLEAN
    /\ ops \in 0..MaxPageOps /\ upsets \in 0..MaxUpsets
AiTypes == AiServerType /\ AiHookType /\ AiButtonType /\ AiPastType

\* A click is one request or one read, and the button waits for it.
AiAsked == \E a \in aiAsks : a.click
AiServed == \E i \in DOMAIN aiAnswers : aiAnswers[i].click
AiOneClick ==
    /\ aiSubmitting <=> aiCalls # {} \/ AiAsked \/ AiServed
    /\ \A c, d \in aiCalls : c = d
    /\ aiCalls # {} => ~AiAsked /\ ~AiServed
    /\ AiAsked => ~AiServed
    /\ \A a, b \in aiAsks : a.click /\ b.click => a = b
    /\ \A i, j \in DOMAIN aiAnswers : aiAnswers[i].click /\ aiAnswers[j].click => i = j

\* Of what is served but not answered: an answer of the plan with the runs as they are is
\* among it and none after it is older, or whatever is older comes late.
AiToCome ==
    \E i \in DOMAIN aiAnswers :
        /\ aiAnswers[i].live /\ aiAnswers[i].plan = aiPlan
        /\ \A j \in DOMAIN aiAnswers : i <= j => aiAnswers[j].rows = aiRuns
AiShown ==
    /\ \A i \in DOMAIN aiAnswers : aiAnswers[i].live /\ ~aiAnswers[i].late => aiAnswers[i].rows = aiRuns
    /\ aiInOrder /\ ~aiStrayed => aiRun = Button!Latest(aiRuns, aiPlan)
AiFollows == ~aiBehind => AiToCome \/ AiShown

AiInv == AiTypes /\ AiOneClick /\ AiFollows

-----------------------------------------------------------------------------
(* What its steps have in common.                                          *)

LEMMA RemovedAt ==
    ASSUME NEW T, NEW s \in Seq(T), NEW i \in 1..Len(s)
    PROVE  /\ Button!RemoveAt(s, i) \in Seq(T) /\ Len(Button!RemoveAt(s, i)) = Len(s) - 1
           /\ \A k \in 1..Len(s) - 1 : Button!RemoveAt(s, i)[k] = IF k < i THEN s[k] ELSE s[k + 1]
<1> DEFINE before == SubSeq(s, 1, i - 1)
           after  == SubSeq(s, i + 1, Len(s))
<1>1. Len(s) \in Nat /\ \A k \in 1..Len(s) : s[k] \in T
  BY LenProperties, ElementOfSeq
<1>2. before \in Seq(T) /\ Len(before) = i - 1 /\ \A k \in 1..i - 1 : before[k] = s[k]
  <2>1. \A k \in 1..i - 1 : s[k] \in T
    BY <1>1
  <2>2. /\ before \in Seq(T) /\ Len(before) = IF 1 <= i - 1 THEN i - 1 - 1 + 1 ELSE 0
        /\ \A k \in 1..i - 1 - 1 + 1 : before[k] = s[1 + k - 1]
    BY <1>1, <2>1, SubSeqProperties
  <2> HIDE DEF before
  <2> QED
    BY <1>1, <2>2
<1>3. after \in Seq(T) /\ Len(after) = Len(s) - i /\ \A k \in 1..Len(s) - i : after[k] = s[i + k]
  <2>1. \A k \in i + 1..Len(s) : s[k] \in T
    BY <1>1
  <2>2. /\ after \in Seq(T) /\ Len(after) = IF i + 1 <= Len(s) THEN Len(s) - (i + 1) + 1 ELSE 0
        /\ \A k \in 1..Len(s) - (i + 1) + 1 : after[k] = s[i + 1 + k - 1]
    BY <1>1, <2>1, SubSeqProperties
  <2> HIDE DEF after
  <2> QED
    BY <1>1, <2>2
<1>4. Button!RemoveAt(s, i) = before \o after
  BY DEF Button!RemoveAt
<1> HIDE DEF before, after
<1>5. /\ before \o after \in Seq(T) /\ Len(before \o after) = i - 1 + (Len(s) - i)
      /\ \A k \in 1..i - 1 + (Len(s) - i) : (before \o after)[k] = IF k <= i - 1 THEN before[k] ELSE after[k - (i - 1)]
  <2>1. /\ before \o after \in Seq(T) /\ Len(before \o after) = Len(before) + Len(after)
        /\ \A k \in 1..Len(before) + Len(after) :
              (before \o after)[k] = IF k <= Len(before) THEN before[k] ELSE after[k - Len(before)]
    BY <1>2, <1>3, ConcatProperties
  <2> QED
    BY <1>2, <1>3, <2>1
<1>6. ASSUME NEW k \in 1..Len(s) - 1 PROVE (before \o after)[k] = IF k < i THEN s[k] ELSE s[k + 1]
  <2>1. CASE k < i
    BY <1>1, <1>2, <1>5, <2>1
  <2>2. CASE ~(k < i)
    <3>1. k - (i - 1) \in 1..Len(s) - i /\ i + (k - (i - 1)) = k + 1 /\ k \in 1..i - 1 + (Len(s) - i) /\ ~(k <= i - 1) /\ ~(k < i)
      BY <1>1, <2>2
    <3> QED
      BY <1>3, <1>5, <3>1
  <2> QED
    BY <2>1, <2>2
<1> QED
  BY <1>1, <1>4, <1>5, <1>6

LEMMA AiNumbers ==
    ASSUME AiInv
    PROVE  /\ MaxRuns \in Nat /\ MaxReads \in Nat /\ MaxReads >= 1 /\ MaxPageOps \in Nat /\ MaxUpsets \in Nat
           /\ ops \in Nat /\ upsets \in Nat
           /\ Len(aiAnswers) \in Nat /\ DOMAIN aiAnswers = 1..Len(aiAnswers)
           /\ \A i \in DOMAIN aiAnswers : aiAnswers[i] \in AiAnswersT
           /\ Cardinality(aiAsks) \in Nat /\ Cardinality(aiRuns) \in Nat
<1>1. aiAnswers \in Seq(AiAnswersT)
  BY DEF AiInv, AiTypes, AiHookType
<1>2. Len(aiAnswers) \in Nat /\ DOMAIN aiAnswers = 1..Len(aiAnswers)
  BY <1>1, LenProperties
<1>3. \A i \in DOMAIN aiAnswers : aiAnswers[i] \in AiAnswersT
  BY <1>1, <1>2, ElementOfSeq
<1>4. Cardinality(aiAsks) \in Nat /\ Cardinality(aiRuns) \in Nat
  BY FS_CardinalityType DEF AiInv, AiTypes, AiHookType, AiServerType
<1>5. MaxRuns \in Nat /\ MaxReads \in Nat /\ MaxReads >= 1 /\ MaxPageOps \in Nat /\ MaxUpsets \in Nat
      /\ ops \in Nat /\ upsets \in Nat
  BY PagesAssumption DEF AiInv, AiTypes, AiPastType
<1> QED
  BY <1>2, <1>3, <1>4, <1>5

LEMMA AiFault ==
    ASSUME AiInv, Button!Fault
    PROVE  upsets' \in 0..MaxUpsets
BY AiNumbers DEF Button!Fault

LEMMA AiOp ==
    ASSUME AiInv, Button!Op
    PROVE  ops' \in 0..MaxPageOps
BY AiNumbers DEF Button!Op

\* Fewer holders than tickets leave a ticket that none holds.
LEMMA FreeTicket ==
    ASSUME NEW holders, NEW tickets, IsFiniteSet(holders), IsFiniteSet(tickets), Cardinality(holders) < Cardinality(tickets)
    PROVE  \E k \in tickets : \A a \in holders : a.n # k
<1> SUFFICES ASSUME \A k \in tickets : \E a \in holders : a.n = k PROVE FALSE
  OBVIOUS
<1> DEFINE of == [k \in tickets |-> CHOOSE a \in holders : a.n = k]
<1>1. \A k \in tickets : of[k] \in holders /\ of[k].n = k
  OBVIOUS
<1>2. of \in [tickets -> holders]
  BY <1>1
<1> HIDE DEF of
<1>3. PICK x, y \in tickets : x # y /\ of[x] = of[y]
  BY <1>2, FS_PigeonHole
<1> QED
  BY <1>1, <1>3

LEMMA AiTicket ==
    ASSUME AiInv, NEW as \in SUBSET AiRead, IsFiniteSet(as), Cardinality(as) < MaxReads
    PROVE  \E k \in 1..MaxReads : \A a \in as : a.n # k
<1>1. IsFiniteSet(1..MaxReads) /\ Cardinality(1..MaxReads) = MaxReads
  <2>1. IsFiniteSet(1..MaxReads) /\ Cardinality(1..MaxReads) = IF 1 > MaxReads THEN 0 ELSE MaxReads - 1 + 1
    <3>1. 1 \in Int /\ MaxReads \in Int
      BY AiNumbers
    <3> QED
      BY <3>1, FS_Interval
  <2> QED
    BY <2>1, AiNumbers
<1> QED
  BY <1>1, FreeTicket

LEMMA AiNewRead ==
    ASSUME AiInv, NEW as \in SUBSET AiRead, IsFiniteSet(as), Cardinality(as) < MaxReads, NEW p \in Plans, NEW click \in BOOLEAN
    PROVE  \E new \in AiRead : /\ Button!Asked(as, p, click) = as \cup {new} /\ IsFiniteSet(as \cup {new})
                               /\ new.plan = p /\ new.live = TRUE /\ new.click = click
<1> DEFINE k == CHOOSE k \in 1..MaxReads : \A a \in as : a.n # k
           new == [plan |-> p, live |-> TRUE, click |-> click, n |-> k]
<1>1. k \in 1..MaxReads
  BY AiTicket
<1>2. Button!Asked(as, p, click) = as \cup {new}
  BY DEF Button!Asked
<1> HIDE DEF k
<1>3. new \in AiRead /\ new.plan = p /\ new.live = TRUE /\ new.click = click
  BY <1>1 DEF AiRead
<1> HIDE DEF new
<1>4. IsFiniteSet(as \cup {new})
  BY FS_AddElement
<1> QED
  BY <1>2, <1>3, <1>4

LEMMA AiRoom ==
    ASSUME AiInv, Button!Room
    PROVE  Cardinality(aiAsks) < MaxReads
<1>1. Cardinality(aiAsks) + Len(aiAnswers) < MaxReads
  BY DEF Button!Room, Button!Cardinality, Cardinality
<1> QED
  BY <1>1, AiNumbers

\* The run shown of a list of runs is one at most.
LEMMA AiLatest ==
    ASSUME AiInv, NEW rs \in AiRows, NEW p
    PROVE  Button!Latest(rs, p) \subseteq rs /\ rs \subseteq AiRunsT /\ \A r, q \in Button!Latest(rs, p) : r = q
<1>1. rs \subseteq AiRunsT /\ \A r, q \in rs : r.id = q.id => r = q
  BY DEF AiRows
<1>2. \A r \in rs : r.id \in Nat
  BY <1>1, AiNumbers DEF AiRunsT
<1>3. ASSUME NEW qs \in SUBSET rs
      PROVE  Button!Newest(qs) \subseteq rs /\ \A r, q \in Button!Newest(qs) : r = q
  <2>1. ASSUME NEW r \in Button!Newest(qs), NEW q \in Button!Newest(qs) PROVE r = q
    <3>1. r \in rs /\ q \in rs /\ r.id <= q.id /\ q.id <= r.id
      BY DEF Button!Newest
    <3>2. r.id = q.id
      BY <1>2, <3>1
    <3> QED
      BY <1>1, <3>1, <3>2
  <2> QED
    BY <2>1 DEF Button!Newest
<1> DEFINE own == {r \in rs : r.plan = p}
<1>4. own \subseteq rs /\ Button!Active(own) \subseteq rs
  BY DEF Button!Active
<1>5. Button!Latest(rs, p) \in {Button!Newest(own), Button!Newest(Button!Active(own))}
  BY DEF Button!Latest
<1> HIDE DEF own
<1> QED
  BY <1>1, <1>3, <1>4, <1>5

LEMMA SequenceOf ==
    ASSUME NEW T, NEW n \in Nat, NEW f \in [1..n -> T]
    PROVE  f \in Seq(T) /\ Len(f) = n /\ DOMAIN f = 1..n
<1>1. f \in Seq(T)
  BY SeqDef
<1>2. DOMAIN f = 1..Len(f) /\ Len(f) \in Nat
  BY <1>1, LenProperties
<1> QED
  BY <1>1, <1>2

LEMMA AiFollowsKept ==
    ASSUME AiInv, UNCHANGED <<aiRuns, aiPlan, aiRun, aiAnswers, aiBehind, aiInOrder, aiStrayed>>
    PROVE  AiFollows'
BY DEF AiInv, AiFollows, AiToCome, AiShown, Button!Latest, Button!Newest, Button!Active

\* A read nobody waits for.
LEMMA AiReadingStep ==
    ASSUME AiInv, Button!Poll \/ \E id \in aiEvents : Button!EventArrives(id)
    PROVE  AiInv'
<1>0. /\ Button!Room /\ aiAsks' = Button!Asked(aiAsks, aiPlan, FALSE) /\ aiEvents' \subseteq aiEvents
      /\ UNCHANGED <<aiRuns, aiPlan, aiRun, aiAnswers, aiSubmitting, aiCalls, aiBehind, aiInOrder, aiStrayed, ops, upsets>>
  BY DEF Button!Poll, Button!EventArrives, Button!refresh, Button!button, Button!shown
<1>1. aiAsks \in SUBSET AiRead /\ IsFiniteSet(aiAsks) /\ Cardinality(aiAsks) < MaxReads /\ aiPlan \in Plans
  BY <1>0, AiRoom DEF AiInv, AiTypes, AiHookType, AiServerType
<1>2. PICK new \in AiRead : /\ aiAsks' = aiAsks \cup {new} /\ IsFiniteSet(aiAsks \cup {new})
                            /\ new.plan = aiPlan /\ new.live = TRUE /\ new.click = FALSE
  <2>1. \E new \in AiRead : /\ Button!Asked(aiAsks, aiPlan, FALSE) = aiAsks \cup {new} /\ IsFiniteSet(aiAsks \cup {new})
                            /\ new.plan = aiPlan /\ new.live = TRUE /\ new.click = FALSE
    BY <1>1, AiNewRead
  <2> QED
    BY <1>0, <2>1
<1>3. AiHookType'
  BY <1>0, <1>1, <1>2 DEF AiInv, AiTypes, AiHookType
<1>4. AiServerType' /\ AiButtonType' /\ AiPastType'
  BY <1>0 DEF AiInv, AiTypes, AiServerType, AiButtonType, AiPastType
<1>5. AiOneClick'
  BY <1>0, <1>2 DEF AiInv, AiOneClick, AiAsked, AiServed
<1>6. AiFollows'
  BY <1>0, AiFollowsKept
<1> QED
  BY <1>3, <1>4, <1>5, <1>6 DEF AiInv, AiTypes

LEMMA AiSelectPlanStep ==
    ASSUME AiInv, NEW p \in Plans, Button!SelectPlan(p)
    PROVE  AiInv'
<1> DEFINE Off(a) == [a EXCEPT !.live = FALSE]
           as == {Off(a) : a \in aiAsks}
<1>0. /\ Button!Room /\ Button!Op /\ aiPlan' = p /\ aiAsks' = Button!Asked(as, p, FALSE)
      /\ aiAnswers' = [i \in DOMAIN aiAnswers |-> Off(aiAnswers[i])] /\ aiBehind' = TRUE
      /\ UNCHANGED <<aiRuns, aiEvents, aiRun, aiSubmitting, aiCalls, aiInOrder, aiStrayed, upsets>>
  BY DEF Button!SelectPlan, Button!button, Button!shown
<1>1. aiAsks \in SUBSET AiRead /\ IsFiniteSet(aiAsks) /\ Cardinality(aiAsks) < MaxReads
  BY <1>0, AiRoom DEF AiInv, AiTypes, AiHookType
<1>2. \A a \in aiAsks : Off(a) \in AiRead /\ Off(a).click = a.click
  BY <1>1 DEF AiRead
<1>3. \A i \in DOMAIN aiAnswers : Off(aiAnswers[i]) \in AiAnswersT /\ Off(aiAnswers[i]).click = aiAnswers[i].click
  BY AiNumbers DEF AiAnswersT
<1> HIDE DEF Off
<1>4. as \in SUBSET AiRead /\ IsFiniteSet(as) /\ Cardinality(as) < MaxReads
  <2> DEFINE f == [a \in aiAsks |-> Off(a)]
  <2>1. f \in Surjection(aiAsks, as)
    BY DEF Surjection
  <2>2. IsFiniteSet(as) /\ Cardinality(as) <= Cardinality(aiAsks)
    BY <1>1, <2>1, FS_Surjection
  <2>3. Cardinality(as) \in Nat /\ Cardinality(aiAsks) \in Nat /\ MaxReads \in Nat
    BY <1>1, <2>2, FS_CardinalityType, AiNumbers
  <2>4. as \in SUBSET AiRead
    BY <1>2
  <2> HIDE DEF as, f
  <2>5. Cardinality(as) < MaxReads
    <3>1. \A k, l, m \in Nat : k <= l /\ l < m => k < m
      OBVIOUS
    <3> QED
      BY <1>1, <2>2, <2>3, <3>1, Zenon
  <2> QED
    BY <2>2, <2>4, <2>5
<1>5. PICK new \in AiRead : /\ aiAsks' = as \cup {new} /\ IsFiniteSet(as \cup {new})
                            /\ new.plan = p /\ new.live = TRUE /\ new.click = FALSE
  <2>1. \E new \in AiRead : /\ Button!Asked(as, p, FALSE) = as \cup {new} /\ IsFiniteSet(as \cup {new})
                            /\ new.plan = p /\ new.live = TRUE /\ new.click = FALSE
    BY <1>4, AiNewRead
  <2> QED
    BY <1>0, <2>1
<1>6. /\ aiAnswers' \in Seq(AiAnswersT) /\ DOMAIN aiAnswers' = DOMAIN aiAnswers
      /\ \A i \in DOMAIN aiAnswers : aiAnswers'[i].click = aiAnswers[i].click
  <2>1. Len(aiAnswers) \in Nat /\ DOMAIN aiAnswers = 1..Len(aiAnswers)
    BY AiNumbers
  <2>2. aiAnswers' \in [1..Len(aiAnswers) -> AiAnswersT]
    BY <1>0, <1>3, <2>1
  <2>3. aiAnswers' \in Seq(AiAnswersT) /\ DOMAIN aiAnswers' = DOMAIN aiAnswers
    BY <2>1, <2>2, SequenceOf
  <2> QED
    BY <1>0, <1>3, <2>3
<1>7. ops' \in 0..MaxPageOps
  BY <1>0, AiOp
<1>8. AiHookType'
  BY <1>0, <1>4, <1>5, <1>6 DEF AiInv, AiTypes, AiHookType
<1>9. AiServerType' /\ AiButtonType' /\ AiPastType'
  BY <1>0, <1>7 DEF AiInv, AiTypes, AiServerType, AiButtonType, AiPastType
<1>10. AiOneClick'
  <2>1. AiServed' <=> AiServed
    BY <1>6 DEF AiServed
  <2>2. AiAsked' <=> AiAsked
    BY <1>2, <1>5 DEF AiAsked
  <2>3. \A a, b \in aiAsks' : a.click /\ b.click => a = b
    BY <1>2, <1>5 DEF AiInv, AiOneClick
  <2>4. \A i, j \in DOMAIN aiAnswers' : aiAnswers'[i].click /\ aiAnswers'[j].click => i = j
    BY <1>6 DEF AiInv, AiOneClick
  <2> HIDE DEF as
  <2> QED
    BY <1>0, <2>1, <2>2, <2>3, <2>4 DEF AiInv, AiOneClick
<1>11. AiFollows'
  BY <1>0 DEF AiFollows
<1> QED
  BY <1>8, <1>9, <1>10, <1>11 DEF AiInv, AiTypes

\* The server answers with the runs as they are.
LEMMA AiServeStep ==
    ASSUME AiInv, NEW a \in aiAsks, Button!Serve(a)
    PROVE  AiInv'
<1> DEFINE new == [plan |-> a.plan, live |-> a.live, click |-> a.click, rows |-> aiRuns, late |-> FALSE]
           N == Len(aiAnswers)
<1>0. /\ aiAsks' = aiAsks \ {a} /\ aiAnswers' = Append(aiAnswers, new)
      /\ aiBehind' = (aiBehind /\ ~(a.live /\ a.plan = aiPlan))
      /\ UNCHANGED <<aiRuns, aiEvents, aiPlan, aiRun, aiSubmitting, aiCalls, aiInOrder, aiStrayed, ops, upsets>>
  BY DEF Button!Serve, Button!button, Button!shown
<1>1. a \in AiRead /\ IsFiniteSet(aiAsks) /\ aiAsks \subseteq AiRead /\ aiAnswers \in Seq(AiAnswersT) /\ aiRuns \in AiRows
  BY DEF AiInv, AiTypes, AiHookType, AiServerType
<1>2. new \in AiAnswersT
  BY <1>1 DEF AiAnswersT, AiRead
<1>3. new.plan = a.plan /\ new.live = a.live /\ new.click = a.click /\ new.rows = aiRuns
  OBVIOUS
<1> HIDE DEF new
<1>4. /\ aiAnswers' \in Seq(AiAnswersT) /\ N \in Nat /\ DOMAIN aiAnswers = 1..N /\ DOMAIN aiAnswers' = 1..N + 1
      /\ \A i \in 1..N : aiAnswers'[i] = aiAnswers[i]
      /\ aiAnswers'[N + 1] = new
  <2>1. /\ Append(aiAnswers, new) \in Seq(AiAnswersT) /\ Len(Append(aiAnswers, new)) = Len(aiAnswers) + 1
        /\ \A i \in 1..Len(aiAnswers) : Append(aiAnswers, new)[i] = aiAnswers[i]
        /\ Append(aiAnswers, new)[Len(aiAnswers) + 1] = new
    BY <1>1, <1>2, AppendProperties
  <2>2. DOMAIN Append(aiAnswers, new) = 1..Len(Append(aiAnswers, new))
    BY <2>1, LenProperties
  <2> QED
    BY <1>0, <2>1, <2>2, AiNumbers
<1> HIDE DEF N
<1>5. \A i \in DOMAIN aiAnswers' : (i \in DOMAIN aiAnswers /\ aiAnswers'[i] = aiAnswers[i]) \/ (i = N + 1 /\ aiAnswers'[i] = new)
  BY <1>4
<1>6. /\ N + 1 \in DOMAIN aiAnswers' /\ aiAnswers'[N + 1] = new
      /\ \A i \in DOMAIN aiAnswers : i \in DOMAIN aiAnswers' /\ aiAnswers'[i] = aiAnswers[i]
  BY <1>4
<1>7. AiHookType'
  <2>1. IsFiniteSet(aiAsks \ {a})
    BY <1>1, FS_RemoveElement
  <2> QED
    BY <1>0, <1>1, <1>4, <2>1 DEF AiInv, AiTypes, AiHookType
<1>8. AiServerType' /\ AiButtonType'
  BY <1>0 DEF AiInv, AiTypes, AiServerType, AiButtonType
<1>9. AiPastType'
  <2>1. aiBehind' \in BOOLEAN
    BY <1>0
  <2> QED
    BY <1>0, <2>1 DEF AiInv, AiTypes, AiPastType
<1>10. AiOneClick'
  <2>1. AiServed' <=> AiServed \/ a.click
    BY <1>3, <1>5, <1>6 DEF AiServed
  <2>2. CASE a.click
    <3>1. AiAsked /\ ~AiAsked' /\ AiServed' /\ ~AiServed /\ aiCalls = {}
      BY <1>0, <2>1, <2>2 DEF AiInv, AiOneClick, AiAsked
    <3>2. \A i \in DOMAIN aiAnswers' : aiAnswers'[i].click => i = N + 1
      BY <1>5, <3>1 DEF AiServed
    <3> QED
      BY <1>0, <3>1, <3>2 DEF AiInv, AiOneClick
  <2>3. CASE ~a.click
    <3>1. (AiAsked' <=> AiAsked) /\ (AiServed' <=> AiServed)
      BY <1>0, <2>1, <2>3 DEF AiAsked
    <3>2. \A i \in DOMAIN aiAnswers' : aiAnswers'[i].click => i \in DOMAIN aiAnswers /\ aiAnswers[i].click
      BY <1>3, <1>5, <2>3
    <3> QED
      BY <1>0, <3>1, <3>2 DEF AiInv, AiOneClick
  <2> QED
    BY <2>2, <2>3
<1>11. AiFollows'
  <2>1. SUFFICES ASSUME ~aiBehind' PROVE AiToCome' \/ AiShown'
    BY DEF AiFollows
  <2>2. CASE a.live /\ a.plan = aiPlan
    <3>1. \A j \in DOMAIN aiAnswers' : N + 1 <= j => aiAnswers'[j].rows = aiRuns
      BY <1>3, <1>4
    <3>2. AiToCome'
      BY <1>0, <1>3, <1>6, <2>2, <3>1 DEF AiToCome
    <3> QED
      BY <3>2
  <2>3. CASE ~aiBehind
    <3>1. CASE AiToCome
      <4>1. PICK i \in DOMAIN aiAnswers :
                /\ aiAnswers[i].live /\ aiAnswers[i].plan = aiPlan
                /\ \A j \in DOMAIN aiAnswers : i <= j => aiAnswers[j].rows = aiRuns
        BY <3>1 DEF AiToCome
      <4>2. \A j \in DOMAIN aiAnswers' : i <= j => aiAnswers'[j].rows = aiRuns
        BY <1>3, <1>5, <4>1
      <4> QED
        BY <1>0, <1>6, <4>1, <4>2 DEF AiToCome
    <3>2. CASE AiShown
      <4>1. \A i \in DOMAIN aiAnswers' : aiAnswers'[i].live /\ ~aiAnswers'[i].late => aiAnswers'[i].rows = aiRuns
        BY <1>3, <1>5, <3>2 DEF AiShown
      <4> QED
        BY <1>0, <3>2, <4>1 DEF AiShown, Button!Latest, Button!Newest, Button!Active
    <3> QED
      BY <2>3, <3>1, <3>2 DEF AiInv, AiFollows
  <2> QED
    BY <1>0, <2>1, <2>2, <2>3
<1> QED
  BY <1>7, <1>8, <1>9, <1>10, <1>11 DEF AiInv, AiTypes

LEMMA AiReadFailsStep ==
    ASSUME AiInv, NEW a \in aiAsks, Button!ReadFails(a)
    PROVE  AiInv'
<1>0. /\ aiAsks' = aiAsks \ {a} /\ Button!Fault
      /\ aiSubmitting' = (aiSubmitting /\ ~a.click) /\ aiCalls' = (IF a.click THEN {} ELSE aiCalls)
      /\ UNCHANGED <<aiRuns, aiEvents, aiPlan, aiRun, aiAnswers, aiBehind, aiInOrder, aiStrayed, ops>>
  BY DEF Button!ReadFails, Button!Over, Button!shown
<1>1. upsets' \in 0..MaxUpsets /\ IsFiniteSet(aiAsks \ {a}) /\ a.click \in BOOLEAN
  BY <1>0, AiFault, FS_RemoveElement DEF AiInv, AiTypes, AiHookType, AiRead
<1>2. AiHookType'
  BY <1>0, <1>1 DEF AiInv, AiTypes, AiHookType
<1>3. AiServerType'
  BY <1>0 DEF AiInv, AiTypes, AiServerType
<1>4. AiButtonType'
  BY <1>0 DEF AiInv, AiTypes, AiButtonType
<1>5. AiPastType'
  BY <1>0, <1>1 DEF AiInv, AiTypes, AiPastType
<1>6. AiOneClick'
  <2>1. CASE a.click
    <3>1. ~AiAsked' /\ ~AiServed' /\ aiCalls' = {} /\ ~aiSubmitting'
      BY <1>0, <2>1 DEF AiInv, AiOneClick, AiAsked, AiServed
    <3> QED
      BY <1>0, <3>1 DEF AiInv, AiOneClick
  <2>2. CASE ~a.click
    <3>1. (AiAsked' <=> AiAsked) /\ (AiServed' <=> AiServed) /\ aiCalls' = aiCalls /\ (aiSubmitting' <=> aiSubmitting)
      BY <1>0, <2>2 DEF AiAsked, AiServed
    <3> QED
      BY <1>0, <3>1 DEF AiInv, AiOneClick
  <2> QED
    BY <2>1, <2>2
<1>7. AiFollows'
  BY <1>0, AiFollowsKept
<1> QED
  BY <1>2, <1>3, <1>4, <1>5, <1>6, <1>7 DEF AiInv, AiTypes

\* What is answered leaves the queue; where the answers before it end up, and that they
\* come late if it was still wanted.
LEMMA AiOvertaken ==
    ASSUME AiInv, NEW i \in DOMAIN aiAnswers, Button!Overtaken(i)
    PROVE  /\ aiAnswers' \in Seq(AiAnswersT)
           /\ \E src \in [DOMAIN aiAnswers' -> DOMAIN aiAnswers \ {i}] :
                 /\ \A k \in DOMAIN aiAnswers' :
                       /\ aiAnswers'[k].plan = aiAnswers[src[k]].plan /\ aiAnswers'[k].live = aiAnswers[src[k]].live
                       /\ aiAnswers'[k].click = aiAnswers[src[k]].click /\ aiAnswers'[k].rows = aiAnswers[src[k]].rows
                       /\ aiAnswers'[k].late <=> aiAnswers[src[k]].late \/ (src[k] < i /\ aiAnswers[i].live)
                 /\ \A j \in DOMAIN aiAnswers \ {i} : \E k \in DOMAIN aiAnswers' : src[k] = j
                 /\ \A k, l \in DOMAIN aiAnswers' : (k <= l => src[k] <= src[l]) /\ (src[k] = src[l] => k = l)
<1> DEFINE N == Len(aiAnswers)
           Late(j) == [aiAnswers[j] EXCEPT !.late = @ \/ (j < i /\ aiAnswers[i].live)]
           marked == [j \in DOMAIN aiAnswers |-> Late(j)]
           src == [k \in 1..N - 1 |-> IF k < i THEN k ELSE k + 1]
<1>1. N \in Nat /\ DOMAIN aiAnswers = 1..N /\ i \in 1..N /\ \A j \in 1..N : aiAnswers[j] \in AiAnswersT
  BY AiNumbers
<1>2. aiAnswers' = Button!RemoveAt(marked, i)
  BY DEF Button!Overtaken
<1>3. \A j \in 1..N : /\ Late(j) \in AiAnswersT
                      /\ Late(j).plan = aiAnswers[j].plan /\ Late(j).live = aiAnswers[j].live
                      /\ Late(j).click = aiAnswers[j].click /\ Late(j).rows = aiAnswers[j].rows
                      /\ Late(j).late <=> aiAnswers[j].late \/ (j < i /\ aiAnswers[i].live)
  BY <1>1 DEF AiAnswersT
<1> HIDE DEF Late
<1>4. marked \in Seq(AiAnswersT) /\ Len(marked) = N /\ \A j \in 1..N : marked[j] = Late(j)
  <2>1. marked \in [1..N -> AiAnswersT]
    BY <1>1, <1>3
  <2>2. \A j \in 1..N : marked[j] = Late(j)
    BY <1>1
  <2> HIDE DEF marked
  <2> QED
    BY <1>1, <2>1, <2>2, SequenceOf
<1> HIDE DEF marked
<1>5. /\ aiAnswers' \in Seq(AiAnswersT) /\ Len(aiAnswers') = N - 1
      /\ \A k \in 1..N - 1 : aiAnswers'[k] = IF k < i THEN marked[k] ELSE marked[k + 1]
  BY <1>1, <1>2, <1>4, RemovedAt
<1>6. DOMAIN aiAnswers' = 1..N - 1
  BY <1>5, LenProperties
<1> HIDE DEF N
<1>7. \A k \in 1..N - 1 : src[k] \in 1..N /\ src[k] # i /\ aiAnswers'[k] = Late(src[k])
  <2> SUFFICES ASSUME NEW k \in 1..N - 1 PROVE src[k] \in 1..N /\ src[k] # i /\ aiAnswers'[k] = Late(src[k])
    OBVIOUS
  <2>1. CASE k < i
    BY <1>1, <1>4, <1>5, <2>1
  <2>2. CASE ~(k < i)
    <3>1. k + 1 \in 1..N /\ k + 1 # i
      BY <1>1, <2>2
    <3> QED
      BY <1>4, <1>5, <2>2, <3>1
  <2> QED
    BY <2>1, <2>2
<1>8. src \in [DOMAIN aiAnswers' -> DOMAIN aiAnswers \ {i}]
  BY <1>1, <1>6, <1>7
<1>9. \A k, l \in 1..N - 1 : (k <= l => src[k] <= src[l]) /\ (src[k] = src[l] => k = l)
  BY <1>1
<1>10. ASSUME NEW j \in (1..N) \ {i} PROVE \E k \in 1..N - 1 : src[k] = j
  <2>1. CASE j < i
    <3>1. j \in 1..N - 1 /\ src[j] = j
      BY <1>1, <2>1
    <3> QED
      BY <3>1
  <2>2. CASE ~(j < i)
    <3>1. j - 1 \in 1..N - 1 /\ ~(j - 1 < i) /\ j - 1 + 1 = j
      BY <1>1, <2>2
    <3>2. src[j - 1] = j
      BY <3>1
    <3> QED
      BY <3>1, <3>2
  <2> QED
    BY <2>1, <2>2
<1> HIDE DEF src
<1>11. \A k \in DOMAIN aiAnswers' :
          /\ aiAnswers'[k].plan = aiAnswers[src[k]].plan /\ aiAnswers'[k].live = aiAnswers[src[k]].live
          /\ aiAnswers'[k].click = aiAnswers[src[k]].click /\ aiAnswers'[k].rows = aiAnswers[src[k]].rows
          /\ aiAnswers'[k].late <=> aiAnswers[src[k]].late \/ (src[k] < i /\ aiAnswers[i].live)
  BY <1>3, <1>6, <1>7
<1>12. \A j \in DOMAIN aiAnswers \ {i} : \E k \in DOMAIN aiAnswers' : src[k] = j
  BY <1>1, <1>6, <1>10
<1> QED
  BY <1>5, <1>6, <1>8, <1>9, <1>11, <1>12

LEMMA AiAnsweredStep ==
    ASSUME AiInv, NEW i \in DOMAIN aiAnswers, Button!Answered(i)
    PROVE  AiInv'
<1>0. /\ Button!Overtaken(i)
      /\ IF aiAnswers[i].live
         THEN /\ aiRun' = Button!Latest(aiAnswers[i].rows, aiAnswers[i].plan)
              /\ aiInOrder' = ~aiAnswers[i].late /\ aiStrayed' = (aiAnswers[i].plan # aiPlan)
         ELSE UNCHANGED <<aiRun, aiInOrder, aiStrayed>>
      /\ aiSubmitting' = (aiSubmitting /\ ~aiAnswers[i].click)
      /\ aiCalls' = (IF aiAnswers[i].click THEN {} ELSE aiCalls)
      /\ UNCHANGED <<aiRuns, aiEvents, aiPlan, aiAsks, aiBehind, ops, upsets>>
  BY DEF Button!Answered, Button!Over, Button!shown
<1>1. aiAnswers[i] \in AiAnswersT /\ aiAnswers[i].rows \in AiRows /\ \A j \in DOMAIN aiAnswers : aiAnswers[j] \in AiAnswersT
  BY AiNumbers DEF AiAnswersT
<1>2. aiAnswers' \in Seq(AiAnswersT)
  BY <1>0, AiOvertaken
<1>3. PICK src \in [DOMAIN aiAnswers' -> DOMAIN aiAnswers \ {i}] :
         /\ \A k \in DOMAIN aiAnswers' :
               /\ aiAnswers'[k].plan = aiAnswers[src[k]].plan /\ aiAnswers'[k].live = aiAnswers[src[k]].live
               /\ aiAnswers'[k].click = aiAnswers[src[k]].click /\ aiAnswers'[k].rows = aiAnswers[src[k]].rows
               /\ aiAnswers'[k].late <=> aiAnswers[src[k]].late \/ (src[k] < i /\ aiAnswers[i].live)
         /\ \A j \in DOMAIN aiAnswers \ {i} : \E k \in DOMAIN aiAnswers' : src[k] = j
         /\ \A k, l \in DOMAIN aiAnswers' : (k <= l => src[k] <= src[l]) /\ (src[k] = src[l] => k = l)
  BY <1>0, AiOvertaken
<1>4. \A k \in DOMAIN aiAnswers' : src[k] \in DOMAIN aiAnswers /\ src[k] # i
  BY <1>3
<1>5. AiHookType'
  <2>1. aiRun' \subseteq AiRunsT /\ \A r, q \in aiRun' : r = q
    <3>1. CASE aiAnswers[i].live
      BY <1>0, <1>1, <3>1, AiLatest
    <3>2. CASE ~aiAnswers[i].live
      BY <1>0, <3>2 DEF AiInv, AiTypes, AiHookType
    <3> QED
      BY <3>1, <3>2
  <2> QED
    BY <1>0, <1>2, <2>1 DEF AiInv, AiTypes, AiHookType
<1>6. AiServerType'
  BY <1>0 DEF AiInv, AiTypes, AiServerType
<1>7. AiButtonType'
  <2>1. aiSubmitting' \in BOOLEAN
    BY <1>0
  <2> QED
    BY <1>0, <2>1 DEF AiInv, AiTypes, AiButtonType
<1>8. AiPastType'
  <2>1. aiInOrder' \in BOOLEAN /\ aiStrayed' \in BOOLEAN
    BY <1>0 DEF AiInv, AiTypes, AiPastType
  <2> QED
    BY <1>0, <2>1 DEF AiInv, AiTypes, AiPastType
<1>9. AiOneClick'
  <2>1. \A k, l \in DOMAIN aiAnswers' : aiAnswers'[k].click /\ aiAnswers'[l].click => k = l
    BY <1>3, <1>4 DEF AiInv, AiOneClick
  <2>2. AiAsked' <=> AiAsked
    BY <1>0 DEF AiAsked
  <2>3. CASE aiAnswers[i].click
    <3>1. ~AiServed'
      BY <1>3, <1>4, <2>3 DEF AiServed, AiInv, AiOneClick
    <3>2. AiServed /\ ~AiAsked /\ aiCalls' = {} /\ ~aiSubmitting'
      BY <1>0, <2>3 DEF AiServed, AiInv, AiOneClick
    <3> QED
      BY <1>0, <2>1, <2>2, <3>1, <3>2 DEF AiInv, AiOneClick
  <2>4. CASE ~aiAnswers[i].click
    <3>1. AiServed' => AiServed
      BY <1>3, <1>4 DEF AiServed
    <3>2. AiServed => AiServed'
      <4>1. ASSUME NEW j \in DOMAIN aiAnswers, aiAnswers[j].click PROVE AiServed'
        <5>1. j \in DOMAIN aiAnswers \ {i}
          BY <2>4, <4>1
        <5>2. PICK k \in DOMAIN aiAnswers' : src[k] = j
          BY <1>3, <5>1
        <5> QED
          BY <1>3, <4>1, <5>2 DEF AiServed
      <4> QED
        BY <4>1 DEF AiServed
    <3>3. aiCalls' = aiCalls /\ (aiSubmitting' <=> aiSubmitting)
      BY <1>0, <2>4
    <3> QED
      BY <1>0, <2>1, <2>2, <3>1, <3>2, <3>3 DEF AiInv, AiOneClick
  <2> QED
    BY <2>3, <2>4
<1>10. AiFollows'
  <2> SUFFICES ASSUME ~aiBehind PROVE AiToCome' \/ AiShown'
    BY <1>0 DEF AiFollows
  <2>0. UNCHANGED <<aiRuns, aiPlan>> /\ (AiToCome \/ AiShown) /\ \A j \in DOMAIN aiAnswers : j \in Nat
    BY <1>0, AiNumbers DEF AiInv, AiFollows
  <2>1. ASSUME NEW at \in DOMAIN aiAnswers \ {i}, aiAnswers[at].live, aiAnswers[at].plan = aiPlan,
               \A j \in DOMAIN aiAnswers : at <= j => aiAnswers[j].rows = aiRuns
        PROVE  AiToCome'
    <3>1. PICK k \in DOMAIN aiAnswers' : src[k] = at
      BY <1>3
    <3>2. \A l \in DOMAIN aiAnswers' : k <= l => aiAnswers'[l].rows = aiRuns
      BY <1>3, <1>4, <2>1, <3>1
    <3>3. aiAnswers'[k].live /\ aiAnswers'[k].plan = aiPlan
      BY <1>3, <2>1, <3>1
    <3> QED
      BY <2>0, <3>2, <3>3 DEF AiToCome
  <2>2. ASSUME aiAnswers[i].live, aiAnswers[i].plan = aiPlan,
               \A j \in DOMAIN aiAnswers : i <= j => aiAnswers[j].rows = aiRuns
        PROVE  AiShown'
    <3>1. ASSUME NEW k \in DOMAIN aiAnswers', ~aiAnswers'[k].late PROVE aiAnswers'[k].rows = aiRuns
      <4>1. i <= src[k]
        BY <1>3, <1>4, <2>0, <2>2, <3>1
      <4> QED
        BY <1>3, <1>4, <2>2, <4>1
    <3>2. aiAnswers[i].rows = aiRuns
      BY <2>0, <2>2
    <3>3. aiRun' = Button!Latest(aiRuns', aiPlan')
      BY <1>0, <2>0, <2>2, <3>2
    <3> QED
      BY <2>0, <3>1, <3>3 DEF AiShown, Button!Latest, Button!Newest, Button!Active
  <2>3. ASSUME AiShown PROVE AiShown'
    <3>1. \A k \in DOMAIN aiAnswers' : aiAnswers'[k].live /\ ~aiAnswers'[k].late => aiAnswers'[k].rows = aiRuns
      BY <1>3, <1>4, <2>3 DEF AiShown
    <3>2. aiInOrder' /\ ~aiStrayed' => aiRun' = Button!Latest(aiRuns', aiPlan')
      <4>1. CASE aiAnswers[i].live
        <5>1. ASSUME ~aiAnswers[i].late, aiAnswers[i].plan = aiPlan PROVE aiRun' = Button!Latest(aiRuns', aiPlan')
          BY <1>0, <2>0, <2>3, <4>1, <5>1 DEF AiShown
        <5> QED
          BY <1>0, <4>1, <5>1
      <4>2. CASE ~aiAnswers[i].live
        BY <1>0, <2>0, <2>3, <4>2 DEF AiShown
      <4> QED
        BY <4>1, <4>2
    <3> QED
      BY <2>0, <3>1, <3>2 DEF AiShown, Button!Latest, Button!Newest, Button!Active
  <2>4. CASE AiToCome
    BY <2>1, <2>2, <2>4 DEF AiToCome
  <2> QED
    BY <2>0, <2>3, <2>4
<1> QED
  BY <1>5, <1>6, <1>7, <1>8, <1>9, <1>10 DEF AiInv, AiTypes

-----------------------------------------------------------------------------
(* The button, the worker and the colleagues.                              *)

\* A new run gets a number of its own.
LEMMA AiRunAdded ==
    ASSUME AiInv, NEW p \in Plans, Button!Cardinality(aiRuns) < MaxRuns, aiRuns' = aiRuns \cup {Button!With(p)},
           UNCHANGED <<aiEvents, aiPlan>>
    PROVE  AiServerType'
<1> DEFINE new == [id |-> Cardinality(aiRuns) + 1, plan |-> p, status |-> "active"]
<1>1. Button!With(p) = new /\ Cardinality(aiRuns) < MaxRuns
  BY DEF Button!With, Button!Cardinality, Cardinality
<1>2. Cardinality(aiRuns) \in Nat /\ MaxRuns \in Nat
  BY AiNumbers
<1>3. new \in AiRunsT /\ new.id = Cardinality(aiRuns) + 1
  BY <1>1, <1>2 DEF AiRunsT
<1> HIDE DEF new
<1>4. /\ aiRuns \subseteq AiRunsT /\ (\A r, q \in aiRuns : r.id = q.id => r = q)
      /\ IsFiniteSet(aiRuns) /\ \A r \in aiRuns : r.id <= Cardinality(aiRuns) /\ r.id \in Nat
  BY <1>2 DEF AiInv, AiTypes, AiServerType, AiRows, AiRunsT
<1>5. new \notin aiRuns /\ \A r \in aiRuns : r.id # new.id
  BY <1>2, <1>3, <1>4
<1>6. IsFiniteSet(aiRuns \cup {new}) /\ Cardinality(aiRuns \cup {new}) = Cardinality(aiRuns) + 1
  BY <1>4, <1>5, FS_AddElement
<1>7. aiRuns' = aiRuns \cup {new}
  BY <1>1
<1>8. aiRuns' \in AiRows
  BY <1>3, <1>4, <1>5, <1>7 DEF AiRows
<1>9. \A r \in aiRuns' : r.id <= Cardinality(aiRuns')
  <2>1. Cardinality(aiRuns') = Cardinality(aiRuns) + 1
    BY <1>6, <1>7
  <2> QED
    BY <1>2, <1>3, <1>4, <1>7, <2>1
<1> QED
  BY <1>6, <1>7, <1>8, <1>9 DEF AiInv, AiTypes, AiServerType

LEMMA AiRunSet ==
    ASSUME AiInv, NEW r \in aiRuns, NEW s \in {"active", "ended", "cancelled"}, Button!Set(r, s),
           aiEvents' = aiEvents \cup {r.id}, UNCHANGED aiPlan
    PROVE  AiServerType'
<1> DEFINE new == [r EXCEPT !.status = s]
<1>1. aiRuns' = (aiRuns \ {r}) \cup {new}
  BY DEF Button!Set
<1>2. /\ aiRuns \subseteq AiRunsT /\ (\A p, q \in aiRuns : p.id = q.id => p = q)
      /\ IsFiniteSet(aiRuns) /\ \A q \in aiRuns : q.id <= Cardinality(aiRuns)
  BY DEF AiInv, AiTypes, AiServerType, AiRows
<1>3. new \in AiRunsT /\ new.id = r.id /\ r.id \in 1..MaxRuns
  BY <1>2 DEF AiRunsT
<1> HIDE DEF new
<1>4. new \notin aiRuns \ {r} /\ \A q \in aiRuns \ {r} : q.id # new.id
  BY <1>2, <1>3
<1>5. IsFiniteSet(aiRuns \ {r}) /\ Cardinality(aiRuns \ {r}) = Cardinality(aiRuns) - 1
  BY <1>2, FS_RemoveElement
<1>6. IsFiniteSet(aiRuns') /\ Cardinality(aiRuns') = Cardinality(aiRuns \ {r}) + 1
  BY <1>1, <1>4, <1>5, FS_AddElement
<1>7. Cardinality(aiRuns') = Cardinality(aiRuns)
  BY <1>5, <1>6, AiNumbers
<1>8. aiRuns' \in AiRows
  BY <1>1, <1>2, <1>3, <1>4 DEF AiRows
<1>9. \A q \in aiRuns' : q.id <= Cardinality(aiRuns')
  BY <1>1, <1>2, <1>3, <1>7
<1>10. aiEvents' \subseteq 1..MaxRuns
  BY <1>3 DEF AiInv, AiTypes, AiServerType
<1> QED
  BY <1>6, <1>8, <1>9, <1>10 DEF AiInv, AiTypes, AiServerType

LEMMA AiButtonFrame ==
    ASSUME AiInv, UNCHANGED <<aiPlan, aiRun, aiAsks, aiAnswers, aiInOrder, aiStrayed>>,
           AiServerType', AiButtonType', ops' \in 0..MaxPageOps, upsets' \in 0..MaxUpsets,
           aiSubmitting' <=> aiCalls' # {} \/ AiAsked \/ AiServed,
           \A c, d \in aiCalls' : c = d, aiCalls' # {} => ~AiAsked /\ ~AiServed,
           aiBehind' = TRUE \/ UNCHANGED <<aiRuns, aiBehind>>
    PROVE  AiInv'
<1>1. AiHookType'
  BY DEF AiInv, AiTypes, AiHookType
<1>2. AiPastType'
  <2>1. aiBehind' \in BOOLEAN
    BY DEF AiInv, AiTypes, AiPastType
  <2> QED
    BY <2>1 DEF AiInv, AiTypes, AiPastType
<1>3. AiOneClick'
  BY DEF AiInv, AiOneClick, AiAsked, AiServed
<1>4. AiFollows'
  <2>1. CASE aiBehind'
    BY <2>1 DEF AiFollows
  <2>2. CASE UNCHANGED <<aiRuns, aiBehind>>
    BY <2>2, AiFollowsKept
  <2> QED
    BY <2>1, <2>2
<1> QED
  BY <1>1, <1>2, <1>3, <1>4 DEF AiInv, AiTypes

LEMMA AiClickStep ==
    ASSUME AiInv, Button!handleClick
    PROVE  AiInv'
<1> DEFINE of == CHOOSE r \in aiRun : TRUE
           stop == [kind |-> "cancel", plan |-> aiPlan, id |-> of.id, pc |-> "sent"]
           start == [kind |-> "create", plan |-> aiPlan, id |-> 0, pc |-> "sent"]
<1>0. /\ ~aiSubmitting /\ aiSubmitting' = TRUE /\ Button!Op
      /\ aiCalls' = {IF Button!Active(aiRun) # {} THEN stop ELSE start}
      /\ UNCHANGED <<aiRuns, aiEvents, aiPlan, aiRun, aiAsks, aiAnswers, aiBehind, aiInOrder, aiStrayed, upsets>>
  BY DEF Button!handleClick, Button!hook, Button!shown
<1>1. ops' \in 0..MaxPageOps /\ upsets' \in 0..MaxUpsets
  BY <1>0, AiOp DEF AiInv, AiTypes, AiPastType
<1>2. aiPlan \in Plans /\ 0 \in 0..MaxRuns
  BY AiNumbers DEF AiInv, AiTypes, AiServerType
<1>3. start \in AiCallsT
  BY <1>2 DEF AiCallsT
<1>4. Button!Active(aiRun) # {} => stop \in AiCallsT
  <2> SUFFICES ASSUME Button!Active(aiRun) # {} PROVE stop \in AiCallsT
    OBVIOUS
  <2>1. of \in aiRun
    BY DEF Button!Active
  <2> HIDE DEF of
  <2>2. of.id \in 0..MaxRuns
    BY <2>1, AiNumbers DEF AiInv, AiTypes, AiHookType, AiRunsT
  <2> QED
    BY <1>2, <2>2 DEF AiCallsT
<1> HIDE DEF stop, start
<1>5. AiButtonType' /\ aiCalls' # {} /\ \A c, d \in aiCalls' : c = d
  BY <1>0, <1>3, <1>4 DEF AiButtonType
<1>6. ~AiAsked /\ ~AiServed
  BY <1>0 DEF AiInv, AiOneClick
<1>7. AiServerType'
  BY <1>0 DEF AiInv, AiTypes, AiServerType
<1> QED
  BY <1>0, <1>1, <1>5, <1>6, <1>7, AiButtonFrame

LEMMA AiTheCall ==
    ASSUME AiInv, NEW c \in aiCalls
    PROVE  aiCalls = {c} /\ c \in AiCallsT /\ c.plan \in Plans /\ aiSubmitting /\ ~AiAsked /\ ~AiServed
BY DEF AiInv, AiOneClick, AiTypes, AiButtonType, AiCallsT

LEMMA AiDoneStep ==
    ASSUME AiInv, NEW c \in aiCalls, Button!Done(c)
    PROVE  AiInv'
<1>0. UNCHANGED <<aiPlan, aiRun, aiAsks, aiAnswers, aiSubmitting, aiInOrder, aiStrayed, ops>>
  BY DEF Button!Done, Button!hook, Button!shown
<1>1. aiCalls = {c} /\ c \in AiCallsT /\ c.plan \in Plans /\ aiSubmitting /\ ~AiAsked /\ ~AiServed
  BY AiTheCall
<1>2. ASSUME NEW pc \in {"ok", "told", "failed"}, Button!To(c, pc), AiServerType', upsets' \in 0..MaxUpsets,
             aiBehind' = TRUE \/ UNCHANGED <<aiRuns, aiBehind>>
      PROVE  AiInv'
  <2> DEFINE now == [c EXCEPT !.pc = pc]
  <2>1. aiCalls' = {now}
    BY <1>1, <1>2 DEF Button!To
  <2>2. now \in AiCallsT
    BY <1>1 DEF AiCallsT
  <2> HIDE DEF now
  <2>3. AiButtonType'
    BY <1>0, <2>1, <2>2 DEF AiInv, AiTypes, AiButtonType
  <2>4. ops' \in 0..MaxPageOps
    BY <1>0 DEF AiInv, AiTypes, AiPastType
  <2> QED
    BY <1>0, <1>1, <1>2, <2>1, <2>3, <2>4, AiButtonFrame
<1>3. upsets \in 0..MaxUpsets
  BY DEF AiInv, AiTypes, AiPastType
<1>4. CASE /\ Button!Cardinality(aiRuns) < MaxRuns
           /\ aiRuns' = aiRuns \cup {Button!With(c.plan)} /\ Button!Changed /\ Button!To(c, "ok") /\ UNCHANGED <<aiEvents, upsets>>
  <2>1. AiServerType'
    BY <1>0, <1>1, <1>4, AiRunAdded
  <2> QED
    BY <1>2, <1>3, <1>4, <2>1 DEF Button!Changed
<1>5. ASSUME NEW r \in Button!Active(aiRuns), Button!Set(r, "cancelled"), Button!Changed, aiEvents' = aiEvents \cup {r.id},
             Button!To(c, "ok"), UNCHANGED upsets
      PROVE  AiInv'
  <2>1. r \in aiRuns
    BY DEF Button!Active
  <2>2. AiServerType'
    BY <1>0, <1>5, <2>1, AiRunSet
  <2> QED
    BY <1>2, <1>3, <1>5, <2>2 DEF Button!Changed
<1>6. CASE Button!To(c, "told") /\ UNCHANGED <<aiRuns, aiEvents, aiBehind, upsets>>
  <2>1. AiServerType'
    BY <1>0, <1>6 DEF AiInv, AiTypes, AiServerType
  <2> QED
    BY <1>2, <1>3, <1>6, <2>1
<1>7. CASE Button!Fault /\ Button!To(c, "failed") /\ UNCHANGED <<aiRuns, aiEvents, aiBehind>>
  <2>1. AiServerType'
    BY <1>0, <1>7 DEF AiInv, AiTypes, AiServerType
  <2> QED
    BY <1>2, <1>7, <2>1, AiFault
<1> QED
  BY <1>4, <1>5, <1>6, <1>7 DEF Button!Done

\* The read after a click takes its place.
LEMMA AiClickAnsweredStep ==
    ASSUME AiInv, NEW c \in aiCalls, Button!ClickAnswered(c)
    PROVE  AiInv'
<1>0. /\ aiCalls' = {} /\ Button!Room /\ aiAsks' = Button!Asked(aiAsks, c.plan, TRUE)
      /\ UNCHANGED <<aiRuns, aiEvents, aiPlan, aiRun, aiAnswers, aiSubmitting, aiBehind, aiInOrder, aiStrayed, ops, upsets>>
  BY DEF Button!ClickAnswered, Button!refresh, Button!shown
<1>1. c.plan \in Plans /\ aiSubmitting /\ ~AiAsked /\ ~AiServed
  BY AiTheCall
<1>2. aiAsks \in SUBSET AiRead /\ IsFiniteSet(aiAsks) /\ Cardinality(aiAsks) < MaxReads
  BY <1>0, AiRoom DEF AiInv, AiTypes, AiHookType
<1>3. PICK new \in AiRead : aiAsks' = aiAsks \cup {new} /\ IsFiniteSet(aiAsks \cup {new}) /\ new.click = TRUE
  <2>1. \E new \in AiRead : /\ Button!Asked(aiAsks, c.plan, TRUE) = aiAsks \cup {new} /\ IsFiniteSet(aiAsks \cup {new})
                            /\ new.plan = c.plan /\ new.live = TRUE /\ new.click = TRUE
    BY <1>1, <1>2, AiNewRead
  <2> QED
    BY <1>0, <2>1
<1>4. AiHookType'
  BY <1>0, <1>2, <1>3 DEF AiInv, AiTypes, AiHookType
<1>5. AiServerType' /\ AiButtonType' /\ AiPastType'
  BY <1>0 DEF AiInv, AiTypes, AiServerType, AiButtonType, AiPastType
<1>6. AiOneClick'
  <2>1. \A a \in aiAsks' : a.click => a = new
    BY <1>1, <1>3 DEF AiAsked
  <2>2. AiAsked' /\ ~AiServed'
    BY <1>0, <1>1, <1>3 DEF AiAsked, AiServed
  <2> QED
    BY <1>0, <1>1, <2>1, <2>2 DEF AiInv, AiOneClick
<1>7. AiFollows'
  BY <1>0, AiFollowsKept
<1> QED
  BY <1>4, <1>5, <1>6, <1>7 DEF AiInv, AiTypes

LEMMA AiClickFailsStep ==
    ASSUME AiInv, NEW c \in aiCalls, Button!ClickFails(c)
    PROVE  AiInv'
<1>0. /\ aiCalls' = {} /\ aiSubmitting' = FALSE
      /\ UNCHANGED <<aiRuns, aiEvents, aiPlan, aiRun, aiAsks, aiAnswers, aiBehind, aiInOrder, aiStrayed, ops, upsets>>
  BY DEF Button!ClickFails, Button!hook, Button!shown
<1>1. ~AiAsked /\ ~AiServed
  BY AiTheCall
<1>2. AiServerType' /\ AiButtonType'
  BY <1>0 DEF AiInv, AiTypes, AiServerType, AiButtonType
<1>3. ops' \in 0..MaxPageOps /\ upsets' \in 0..MaxUpsets
  BY <1>0 DEF AiInv, AiTypes, AiPastType
<1> QED
  BY <1>0, <1>1, <1>2, <1>3, AiButtonFrame

\* What the worker and the colleagues do.
LEMMA AiElsewhereStep ==
    ASSUME AiInv, (\E r \in aiRuns : Button!Ends(r)) \/ \E p \in Plans : Button!Colleague(p)
    PROVE  AiInv'
<1>0. /\ UNCHANGED <<aiPlan, aiRun, aiAsks, aiAnswers, aiSubmitting, aiCalls, aiInOrder, aiStrayed, ops>>
      /\ aiBehind' = TRUE /\ (upsets' = upsets \/ Button!Fault)
  BY DEF Button!Ends, Button!Colleague, Button!hook, Button!button, Button!shown, Button!Changed
<1>1. AiServerType'
  <2>1. CASE \E r \in aiRuns : Button!Ends(r)
    <3>1. PICK r \in aiRuns : Button!Set(r, "ended") /\ aiEvents' = aiEvents \cup {r.id}
      BY <2>1 DEF Button!Ends
    <3> QED
      BY <1>0, <3>1, AiRunSet
  <2>2. CASE \E p \in Plans : Button!Colleague(p)
    <3>1. PICK p \in Plans : /\ Button!Cardinality(aiRuns) < MaxRuns /\ aiRuns' = aiRuns \cup {Button!With(p)}
                             /\ UNCHANGED aiEvents
      BY <2>2 DEF Button!Colleague
    <3> QED
      BY <1>0, <3>1, AiRunAdded
  <2> QED
    BY <2>1, <2>2
<1>2. AiButtonType'
  BY <1>0 DEF AiInv, AiTypes, AiButtonType
<1>3. ops' \in 0..MaxPageOps /\ upsets' \in 0..MaxUpsets
  BY <1>0, AiFault DEF AiInv, AiTypes, AiPastType
<1>4. /\ aiSubmitting <=> aiCalls # {} \/ AiAsked \/ AiServed
      /\ \A c, d \in aiCalls : c = d
      /\ aiCalls # {} => ~AiAsked /\ ~AiServed
  BY DEF AiInv, AiOneClick
<1> QED
  BY <1>0, <1>1, <1>2, <1>3, <1>4, AiButtonFrame

-----------------------------------------------------------------------------
(* Every state of the button.                                              *)

LEMMA AiStart == Button!Init => AiInv
<1> SUFFICES ASSUME Button!Init PROVE AiInv
  OBVIOUS
<1> DEFINE k == CHOOSE n \in 1..MaxReads : \A a \in {} : a.n # n
           first == [plan |-> aiPlan, live |-> TRUE, click |-> FALSE, n |-> k]
<1>0. /\ aiRuns = {} /\ aiEvents = {} /\ aiPlan \in Plans /\ aiRun = {} /\ aiAnswers = <<>>
      /\ aiAsks = Button!Asked({}, aiPlan, FALSE)
      /\ aiSubmitting = FALSE /\ aiCalls = {} /\ aiBehind = TRUE /\ aiInOrder = TRUE /\ aiStrayed = FALSE
      /\ ops = 0 /\ upsets = 0
  BY DEF Button!Init
<1>1. MaxPageOps \in Nat /\ MaxUpsets \in Nat /\ MaxReads \in Nat /\ MaxReads >= 1
  BY PagesAssumption
<1>2. aiAsks = {first}
  BY <1>0 DEF Button!Asked
<1>3. k \in 1..MaxReads
  <2>1. 1 \in 1..MaxReads
    BY <1>1
  <2> QED
    BY <2>1
<1> HIDE DEF k
<1>4. first \in AiRead /\ first.click = FALSE
  BY <1>0, <1>3 DEF AiRead
<1> HIDE DEF first
<1>5. AiHookType
  <2>1. IsFiniteSet({first})
    BY FS_Singleton
  <2>2. aiAnswers \in Seq(AiAnswersT)
    BY <1>0, EmptySeq
  <2> QED
    BY <1>0, <1>2, <1>4, <2>1, <2>2 DEF AiHookType
<1>6. AiServerType
  <2>1. aiRuns \in AiRows
    BY <1>0 DEF AiRows
  <2> QED
    BY <1>0, <2>1, FS_EmptySet DEF AiServerType
<1>7. AiButtonType /\ AiFollows
  BY <1>0 DEF AiButtonType, AiFollows
<1>8. AiPastType
  <2>1. 0 \in 0..MaxPageOps /\ 0 \in 0..MaxUpsets
    BY <1>1
  <2> QED
    BY <1>0, <2>1 DEF AiPastType
<1>9. AiOneClick
  <2>1. DOMAIN aiAnswers = {}
    BY <1>0
  <2> QED
    BY <1>0, <1>2, <1>4, <2>1 DEF AiOneClick, AiAsked, AiServed
<1> QED
  BY <1>5, <1>6, <1>7, <1>8, <1>9 DEF AiInv, AiTypes

LEMMA AiStep == AiInv /\ [Button!Next]_(Button!vars) => AiInv'
<1> SUFFICES ASSUME AiInv, [Button!Next]_(Button!vars) PROVE AiInv'
  OBVIOUS
<1>1. CASE Button!Next
  BY <1>1, AiReadingStep, AiSelectPlanStep, AiServeStep, AiAnsweredStep, AiReadFailsStep, AiClickStep, AiDoneStep,
     AiClickAnsweredStep, AiClickFailsStep, AiElsewhereStep DEF Button!Next
<1>2. CASE UNCHANGED Button!vars
  <2>0. UNCHANGED <<aiRuns, aiEvents, aiPlan, aiRun, aiAsks, aiAnswers, aiSubmitting, aiCalls, aiBehind, aiInOrder, aiStrayed,
                    ops, upsets>>
    BY <1>2 DEF Button!vars, Button!hook, Button!button, Button!shown
  <2>1. AiServerType' /\ AiButtonType'
    BY <2>0 DEF AiInv, AiTypes, AiServerType, AiButtonType
  <2>2. ops' \in 0..MaxPageOps /\ upsets' \in 0..MaxUpsets
    BY <2>0 DEF AiInv, AiTypes, AiPastType
  <2> QED
    BY <2>0, <2>1, <2>2, AiButtonFrame DEF AiInv, AiOneClick
<1> QED
  BY <1>1, <1>2

LEMMA AiPromises == AiInv => Button!TypeOK /\ Button!RunIsShown
<1> SUFFICES ASSUME AiInv PROVE Button!TypeOK /\ Button!RunIsShown
  OBVIOUS
<1>1. ASSUME NEW S, \A x, y \in S : x = y PROVE Button!Cardinality(S) <= 1
  <2>1. CASE S = {}
    <3>1. Cardinality(S) = 0
      BY <2>1, FS_EmptySet
    <3> QED
      BY <3>1 DEF Button!Cardinality, Cardinality
  <2>2. ASSUME NEW x \in S PROVE Button!Cardinality(S) <= 1
    <3>1. S = {x}
      BY <1>1
    <3>2. Cardinality(S) = 1
      BY <3>1, FS_Singleton
    <3> QED
      BY <3>2 DEF Button!Cardinality, Cardinality
  <2> QED
    BY <2>1, <2>2
<1>2. Button!Cardinality(aiRun) <= 1
  BY <1>1 DEF AiInv, AiTypes, AiHookType
<1>3. Button!Cardinality(aiCalls) <= 1
  BY <1>1 DEF AiInv, AiOneClick
<1>4. Button!TypeOK
  <2>1. \A i \in DOMAIN aiAnswers :
           aiAnswers[i] \in [plan : Plans, live : BOOLEAN, click : BOOLEAN, rows : SUBSET AiRunsT, late : BOOLEAN]
    BY AiNumbers DEF AiAnswersT, AiRows
  <2> QED
    BY <1>2, <2>1 DEF AiInv, AiTypes, AiServerType, AiHookType, AiButtonType, AiPastType, AiRows, AiRunsT, AiRead, AiCallsT,
                      Button!TypeOK, Button!Runs, Button!Read
<1>5. Button!RunIsPlans
  BY DEF AiInv, AiFollows, AiToCome, AiShown, Button!RunIsPlans
<1>6. Button!ButtonWaits
  BY <1>3 DEF AiInv, AiOneClick, AiAsked, AiServed, Button!ButtonWaits
<1> QED
  BY <1>4, <1>5, <1>6 DEF Button!RunIsShown

-----------------------------------------------------------------------------
(* A project's page: its invariant.                                        *)

PgStates == {"processing", "ready", "error"}
PgListings == [Plans -> PgStates \cup {"no"}]
PgLoadsT == [for : Projects, kind : {"page", "ready", "refresh", "delete"}, at : {"project", "list", "got"}, snap : PgListings]
PgLoopsT == [plan : Plans, at : {"asking", "waiting"}]
PgSomePlan == Plans \cup {"none"}

PgServerType ==
    /\ status \in PgListings /\ owner \in [Plans -> Projects \cup {"none"}]
    /\ \A p \in Plans : status[p] # "no" => owner[p] # "none"
PgRouteType == here \in Projects /\ url \in PgSomePlan /\ selected \in PgSomePlan /\ pushed \in Projects \cup {"none"}
PgHeldType ==
    /\ project \in {here, "none"} /\ plans \in PgListings
    /\ projectLoading \in BOOLEAN /\ listLoading \in BOOLEAN /\ failed \in BOOLEAN
    /\ listError \in BOOLEAN /\ refreshing \in BOOLEAN
PgBarType ==
    /\ uploadOpen \in BOOLEAN /\ upload \in [for : Projects \cup {"none"}, plan : PgSomePlan]
    /\ target \in PgSomePlan /\ deleting \in PgSomePlan
    /\ Project!DeletesItsTarget
PgHookType ==
    /\ polled \in PgSomePlan /\ report \in PgStates \cup {"none"} /\ loops \subseteq PgLoopsT
    /\ timer \in PgSomePlan /\ pollTold \in BOOLEAN
PgPastType == ops \in 0..MaxPageOps /\ upsets \in 0..MaxUpsets
PgTypes ==
    /\ PgServerType /\ PgRouteType /\ PgHeldType /\ PgBarType /\ PgHookType /\ PgPastType
    /\ loads \subseteq PgLoadsT

\* Whatever list there is, read or shown, is of plans of its project, and a plan that was
\* uploaded is of the project it was uploaded to.
PgOwned ==
    /\ upload.plan # "none" => upload.for # "none" /\ owner[upload.plan] = upload.for
    /\ \A l \in loads : \A p \in Plans : l.snap[p] # "no" => owner[p] = l.for
    /\ pushed # here
    /\ pushed = "none" => \A p \in Plans : plans[p] # "no" => owner[p] = here

PgSpinners ==
    /\ projectLoading => \E l \in loads : l.for = here /\ l.kind = "page" /\ l.at = "project"
    /\ listLoading => \E l \in loads : l.for = here /\ l.kind = "page"

\* A read that will tell the page, or would have if the plan were still there.
PgTells(l) == l.for = here /\ (l.at # "got" \/ l.snap[polled] = "ready")
PgNoticed ==
    polled # "none" =>
        /\ pollTold \/ \E l \in loops : l.plan = polled
        /\ report = "ready" =>
              /\ owner[polled] # "none" /\ status[polled] \in {"ready", "no"}
              /\ owner[polled] = here /\ status[polled] # "no" => upsets > 0 \/ \E l \in loads : PgTells(l)

PgInv == PgTypes /\ PgOwned /\ PgSpinners /\ PgNoticed

-----------------------------------------------------------------------------
(* What its steps have in common.                                          *)

LEMMA PgNames ==
    /\ "none" \notin Plans /\ "none" \notin Projects /\ "none" \notin PgStates /\ "no" \notin PgStates
    /\ MaxPageOps \in Nat /\ MaxUpsets \in Nat /\ Home \in Projects
BY PagesAssumption, NoneIsNobody DEF PgStates

LEMMA PgFault ==
    ASSUME PgInv, Project!Fault
    PROVE  upsets' \in 0..MaxUpsets /\ upsets' > 0
BY PgNames DEF Project!Fault, PgInv, PgTypes, PgPastType

LEMMA PgOp ==
    ASSUME PgInv, Project!Op
    PROVE  ops' \in 0..MaxPageOps
BY PgNames DEF Project!Op, PgInv, PgTypes, PgPastType

\* The plans of a list are those it has a state of.
LEMMA PgKnown ==
    ASSUME NEW l \in PgListings
    PROVE  Project!Known(l) = {p \in Plans : l[p] # "no"} /\ \A p \in Plans : l[p] \in PgStates \cup {"no"}
BY DEF Project!Known, Project!States, PgListings, PgStates

LEMMA PgEmpty ==
    Project!Empty \in PgListings /\ \A p \in Plans : Project!Empty[p] = "no"
BY DEF Project!Empty, PgListings

LEMMA PgLoad ==
    ASSUME NEW pj \in Projects, NEW kind \in {"page", "ready", "refresh", "delete"}
    PROVE  /\ Project!Load(pj, kind) \in PgLoadsT
           /\ Project!Load(pj, kind).for = pj /\ Project!Load(pj, kind).kind = kind
           /\ Project!Load(pj, kind).at = (IF kind = "page" THEN "project" ELSE "list")
           /\ \A p \in Plans : Project!Load(pj, kind).snap[p] = "no"
BY PgEmpty DEF Project!Load, PgLoadsT

\* The progress shown is of a plan that is not known to be ready.
LEMMA PgProgress ==
    ASSUME NEW l \in PgListings, NEW u \in PgSomePlan, NEW sel \in PgSomePlan, NEW loading \in BOOLEAN
    PROVE  /\ Project!Progress(l, u, sel, loading) \in PgSomePlan
           /\ Project!Progress(l, u, sel, loading) # "none" => l[Project!Progress(l, u, sel, loading)] # "ready"
<1> DEFINE known == Project!Known(l)
           p == IF u # "none" /\ (known = {} \/ u \in known) THEN u ELSE Project!Resolved(l, sel)
<1>1. known = {q \in Plans : l[q] # "no"}
  BY PgKnown
<1>2. Project!Resolved(l, sel) \in PgSomePlan
  <2>1. CASE sel \in known \/ known = {}
    BY <2>1 DEF Project!Resolved, Project!None, PgSomePlan
  <2>2. CASE sel \notin known /\ known # {}
    <3>1. \E q \in known : l[q] = "ready" \/ \A r \in known : l[r] # "ready"
      BY <2>2
    <3>2. (CHOOSE q \in known : l[q] = "ready" \/ \A r \in known : l[r] # "ready") \in known
      BY <3>1
    <3> QED
      BY <1>1, <2>2, <3>2 DEF Project!Resolved, PgSomePlan
  <2> QED
    BY <2>1, <2>2
<1>3. p \in PgSomePlan
  BY <1>2
<1>4. Project!Progress(l, u, sel, loading) =
        IF (IF known = {} THEN u # "none" /\ loading ELSE p # "none" /\ l[p] # "ready") THEN p ELSE "none"
  BY DEF Project!Progress, Project!None
<1> HIDE DEF p
<1>5. known = {} => \A q \in Plans : l[q] # "ready"
  BY <1>1
<1> HIDE DEF known
<1> QED
  BY <1>3, <1>4, <1>5 DEF PgSomePlan

PgSameHook == UNCHANGED <<polled, report, loops, timer, pollTold>>

\* The hook stays with its plan, which the list does not call ready, or starts again.
PgMoved(l) ==
    \/ PgSameHook /\ (polled # "none" => l[polled] # "ready")
    \/ PgHookType' /\ report' = "none" /\ (polled' # "none" => \E x \in loops' : x.plan = polled')

LEMMA PgWatch ==
    ASSUME PgInv, NEW l \in PgListings, NEW u \in PgSomePlan, NEW sel \in PgSomePlan, NEW loading \in BOOLEAN, NEW drawn \in BOOLEAN,
           Project!Watch(l, u, sel, loading, drawn)
    PROVE  PgMoved(l) /\ PgHookType'
<1> DEFINE p == IF drawn THEN Project!Progress(l, u, sel, loading) ELSE "none"
           kept == IF polled = "none" THEN {} ELSE loops \ {[plan |-> timer, at |-> "waiting"]}
           new == [plan |-> p, at |-> "asking"]
<1>1. p \in PgSomePlan /\ (p # "none" => l[p] # "ready")
  BY PgProgress DEF PgSomePlan
<1>2. IF p = polled THEN PgSameHook
      ELSE /\ polled' = p /\ report' = "none" /\ timer' = "none" /\ pollTold' = FALSE
           /\ loops' = IF p = "none" THEN {} ELSE kept \cup {new}
  BY DEF Project!Watch, Project!None, Project!hook, PgSameHook
<1>3. p # "none" => new \in PgLoopsT /\ new.plan = p
  BY <1>1 DEF PgLoopsT, PgSomePlan
<1>4. kept \subseteq PgLoopsT
  BY DEF PgInv, PgTypes, PgHookType
<1> HIDE DEF p, kept, new
<1>5. CASE p = polled
  BY <1>1, <1>2, <1>5 DEF PgMoved, PgSameHook, PgInv, PgTypes, PgHookType
<1>6. CASE p # polled
  <2>1. PgHookType'
    BY <1>1, <1>2, <1>3, <1>4, <1>6 DEF PgHookType, PgSomePlan
  <2>2. polled' # "none" => \E x \in loops' : x.plan = polled'
    BY <1>2, <1>3, <1>6
  <2> QED
    BY <1>2, <1>6, <2>1, <2>2 DEF PgMoved
<1> QED
  BY <1>5, <1>6

\* A hook that starts again has nothing to tell.
LEMMA PgNoticedAgain ==
    ASSUME report' = "none", polled' # "none" => \E x \in loops' : x.plan = polled'
    PROVE  PgNoticed'
BY DEF PgNoticed

\* A hook that stays is told by the same reads.
PgWaits ==
    /\ polled # "none" /\ report = "ready" /\ owner[polled] = here /\ status[polled] = "ready"
    /\ \E l \in loads : PgTells(l)

LEMMA PgNoticedKept ==
    ASSUME PgInv, UNCHANGED <<polled, report, here>>,
           polled # "none" /\ (pollTold \/ \E x \in loops : x.plan = polled) => pollTold' \/ \E x \in loops' : x.plan = polled,
           polled # "none" /\ owner[polled] # "none" /\ status[polled] \in {"ready", "no"} =>
              owner'[polled] = owner[polled] /\ status'[polled] \in {status[polled], "no"},
           upsets' > 0 \/ (upsets' = upsets /\ (PgWaits => \E m \in loads' : m.for = here /\ (m.at # "got" \/ m.snap[polled] = "ready")))
    PROVE  PgNoticed'
<1> SUFFICES ASSUME polled # "none"
             PROVE  /\ pollTold' \/ \E x \in loops' : x.plan = polled
                    /\ report = "ready" =>
                          /\ owner'[polled] # "none" /\ status'[polled] \in {"ready", "no"}
                          /\ owner'[polled] = here /\ status'[polled] # "no" =>
                                upsets' > 0 \/ \E l \in loads' : l.for = here /\ (l.at # "got" \/ l.snap[polled] = "ready")
  BY DEF PgNoticed, PgTells
<1>1. pollTold' \/ \E x \in loops' : x.plan = polled
  BY DEF PgInv, PgNoticed
<1>2. ASSUME report = "ready"
      PROVE  /\ owner'[polled] = owner[polled] /\ owner'[polled] # "none" /\ status'[polled] \in {status[polled], "no"}
             /\ status[polled] \in {"ready", "no"}
  BY <1>2 DEF PgInv, PgNoticed
<1>3. ASSUME report = "ready", owner'[polled] = here, status'[polled] # "no"
      PROVE  upsets' > 0 \/ \E l \in loads' : l.for = here /\ (l.at # "got" \/ l.snap[polled] = "ready")
  <2>1. owner[polled] = here /\ status[polled] = "ready"
    BY <1>2, <1>3
  <2>2. upsets > 0 \/ \E l \in loads : PgTells(l)
    BY <1>3, <2>1 DEF PgInv, PgNoticed
  <2>3. (\E l \in loads : PgTells(l)) => PgWaits
    BY <1>3, <2>1 DEF PgWaits
  <2> QED
    BY <2>2, <2>3
<1> QED
  BY <1>1, <1>2, <1>3

-----------------------------------------------------------------------------
(* The polls, the plan's processing and its repetition.                    *)

LEMMA PgHookFrame ==
    ASSUME PgInv,
           UNCHANGED <<owner, here, url, selected, pushed, project, plans, projectLoading, listLoading, failed, listError,
                       refreshing, uploadOpen, upload, target, deleting>>,
           PgServerType', PgHookType', PgPastType', loads' \subseteq PgLoadsT, loads \subseteq loads',
           \A l \in loads' \ loads : \A p \in Plans : l.snap[p] = "no",
           PgNoticed'
    PROVE  PgInv'
<1>1. PgRouteType' /\ PgHeldType'
  BY DEF PgInv, PgTypes, PgRouteType, PgHeldType
<1>2. PgBarType'
  BY DEF PgInv, PgTypes, PgBarType, Project!DeletesItsTarget
<1>3. PgOwned'
  BY DEF PgInv, PgOwned
<1>4. PgSpinners'
  BY DEF PgInv, PgSpinners
<1> QED
  BY <1>1, <1>2, <1>3, <1>4 DEF PgInv, PgTypes

LEMMA PgPollAnsweredStep ==
    ASSUME PgInv, NEW l \in loops, Project!PollAnswered(l)
    PROVE  PgInv'
<1> DEFINE later == [l EXCEPT !.at = "waiting"]
           wanted == Project!Load(here, "ready")
<1>0. /\ report' = (IF l.plan = polled THEN status[l.plan] ELSE "none")
      /\ \/ status[l.plan] \in {"ready", "error"} /\ loops' = loops \ {l} /\ UNCHANGED timer
         \/ status[l.plan] \notin {"ready", "error"} /\ loops' = (loops \ {l}) \cup {later} /\ timer' = l.plan
      /\ loads' = (IF l.plan = polled /\ status[l.plan] = "ready" THEN loads \cup {wanted} ELSE loads)
      /\ pollTold' = (pollTold \/ (l.plan = polled /\ status[l.plan] \in {"ready", "error"}))
      /\ status[l.plan] # "no"
      /\ UNCHANGED <<status, owner, here, url, selected, pushed, project, plans, projectLoading, listLoading, failed, listError,
                     refreshing, uploadOpen, upload, target, deleting, polled, ops, upsets>>
  BY DEF Project!PollAnswered, Project!None, Project!Terminal, Project!server, Project!route, Project!held, Project!topBar
<1>1. l \in PgLoopsT /\ l.plan \in Plans /\ loops \subseteq PgLoopsT /\ here \in Projects /\ loads \subseteq PgLoadsT
  BY DEF PgInv, PgTypes, PgHookType, PgLoopsT, PgRouteType
<1>2. later \in PgLoopsT /\ later.plan = l.plan
  BY <1>1 DEF PgLoopsT
<1>3. wanted \in PgLoadsT /\ wanted.for = here /\ wanted.at = "list" /\ \A p \in Plans : wanted.snap[p] = "no"
  BY <1>1, PgLoad
<1> HIDE DEF later, wanted
<1>4. status[l.plan] \in PgStates /\ owner[l.plan] # "none"
  BY <1>0, <1>1 DEF PgInv, PgTypes, PgServerType, PgListings
<1>5. PgHookType'
  <2>1. report' \in PgStates \cup {"none"} /\ timer' \in PgSomePlan /\ pollTold' \in BOOLEAN
    BY <1>0, <1>1, <1>4 DEF PgInv, PgTypes, PgHookType, PgSomePlan
  <2> QED
    BY <1>0, <1>1, <1>2, <2>1 DEF PgInv, PgTypes, PgHookType
<1>6. PgNoticed'
  <2> SUFFICES ASSUME polled # "none"
               PROVE  /\ pollTold' \/ \E x \in loops' : x.plan = polled
                      /\ report' = "ready" =>
                            /\ owner[polled] # "none" /\ status[polled] = "ready"
                            /\ \E m \in loads' : m.for = here /\ m.at # "got"
    BY <1>0 DEF PgNoticed, PgTells
  <2>1. pollTold' \/ \E x \in loops' : x.plan = polled
    BY <1>0, <1>2 DEF PgInv, PgNoticed
  <2>2. ASSUME report' = "ready"
        PROVE  /\ owner[polled] # "none" /\ status[polled] = "ready"
               /\ \E m \in loads' : m.for = here /\ m.at # "got"
    <3>1. l.plan = polled /\ status[l.plan] = "ready"
      BY <1>0, <2>2
    <3> QED
      BY <1>0, <1>3, <1>4, <3>1
  <2> QED
    BY <2>1, <2>2
<1>7. PgServerType' /\ PgPastType'
  BY <1>0 DEF PgInv, PgTypes, PgServerType, PgPastType
<1>8. loads' \subseteq PgLoadsT /\ loads \subseteq loads' /\ \A m \in loads' \ loads : \A p \in Plans : m.snap[p] = "no"
  BY <1>0, <1>1, <1>3
<1> QED
  BY <1>0, <1>5, <1>6, <1>7, <1>8, PgHookFrame

\* A poll that fails or comes due.
LEMMA PgPollStep ==
    ASSUME PgInv, NEW l \in loops, Project!PollFails(l) \/ Project!PollAgain(l)
    PROVE  PgInv'
<1>0. /\ \E at \in {"asking", "waiting"} : loops' = (loops \ {l}) \cup {[l EXCEPT !.at = at]}
      /\ timer' \in {timer, l.plan, "none"} /\ (upsets' = upsets \/ Project!Fault)
      /\ UNCHANGED <<status, owner, here, url, selected, pushed, project, plans, projectLoading, listLoading, failed, listError,
                     refreshing, loads, uploadOpen, upload, target, deleting, polled, report, pollTold, ops>>
  BY DEF Project!PollFails, Project!PollAgain, Project!None, Project!server, Project!route, Project!held, Project!topBar
<1>1. l \in PgLoopsT /\ l.plan \in Plans /\ loops \subseteq PgLoopsT
  BY DEF PgInv, PgTypes, PgHookType, PgLoopsT
<1>2. PICK at \in {"asking", "waiting"} : loops' = (loops \ {l}) \cup {[l EXCEPT !.at = at]}
  BY <1>0
<1> DEFINE now == [l EXCEPT !.at = at]
<1>3. now \in PgLoopsT /\ now.plan = l.plan
  BY <1>1 DEF PgLoopsT
<1>4. loops' = (loops \ {l}) \cup {now}
  BY <1>2
<1> HIDE DEF now
<1>5. PgHookType'
  BY <1>0, <1>1, <1>3, <1>4 DEF PgInv, PgTypes, PgHookType, PgSomePlan
<1>6. PgServerType' /\ PgPastType' /\ (upsets' = upsets \/ upsets' > 0)
  BY <1>0, PgFault DEF PgInv, PgTypes, PgServerType, PgPastType
<1>7. PgNoticed'
  <2>1. polled # "none" /\ (pollTold \/ \E x \in loops : x.plan = polled) => pollTold' \/ \E x \in loops' : x.plan = polled
    BY <1>0, <1>3, <1>4
  <2>2. PgWaits => \E m \in loads' : m.for = here /\ (m.at # "got" \/ m.snap[polled] = "ready")
    BY <1>0 DEF PgWaits, PgTells
  <2> QED
    BY <1>0, <1>6, <2>1, <2>2, PgNoticedKept
<1>8. loads' = loads /\ loads \subseteq PgLoadsT
  BY <1>0 DEF PgInv, PgTypes
<1> QED
  BY <1>0, <1>5, <1>6, <1>7, <1>8, PgHookFrame

\* A plan that is processed, or is to be processed again.
LEMMA PgProcessStep ==
    ASSUME PgInv, Project!RetryPlan \/ \E p \in Plans : Project!Process(p)
    PROVE  PgInv'
<1>0. /\ \E p \in Plans, s \in PgStates : status[p] \in {"processing", "error"} /\ status' = [status EXCEPT ![p] = s]
      /\ ops' = ops \/ Project!Op
      /\ UNCHANGED <<owner, here, url, selected, pushed, project, plans, projectLoading, listLoading, failed, listError,
                     refreshing, loads, uploadOpen, upload, target, deleting, polled, report, loops, timer, pollTold, upsets>>
  <2>1. polled # "none" => polled \in Plans
    BY DEF PgInv, PgTypes, PgHookType, PgSomePlan
  <2> QED
    BY <2>1 DEF Project!RetryPlan, Project!Process, Project!None, Project!Terminal, PgStates, Project!route, Project!held,
                Project!topBar, Project!hook
<1>1. PICK p \in Plans, s \in PgStates : status[p] \in {"processing", "error"} /\ status' = [status EXCEPT ![p] = s]
  BY <1>0
<1>2. status \in PgListings /\ \A q \in Plans : status'[q] = IF q = p THEN s ELSE status[q]
  BY <1>1 DEF PgInv, PgTypes, PgServerType, PgListings
<1>3. PgServerType'
  <2>1. status' \in PgListings
    BY <1>1, <1>2 DEF PgListings
  <2>2. owner[p] # "none"
    BY <1>1 DEF PgInv, PgTypes, PgServerType
  <2> QED
    BY <1>0, <1>2, <2>1, <2>2 DEF PgInv, PgTypes, PgServerType
<1>4. PgHookType' /\ PgPastType'
  BY <1>0, PgOp DEF PgInv, PgTypes, PgHookType, PgPastType
<1>5. PgNoticed'
  <2>1. polled # "none" /\ status[polled] \in {"ready", "no"} => status'[polled] = status[polled]
    BY <1>1, <1>2 DEF PgInv, PgTypes, PgHookType, PgSomePlan
  <2>2. PgWaits => \E m \in loads' : m.for = here /\ (m.at # "got" \/ m.snap[polled] = "ready")
    BY <1>0 DEF PgWaits, PgTells
  <2> QED
    BY <1>0, <2>1, <2>2, PgNoticedKept
<1>6. loads' = loads /\ loads \subseteq PgLoadsT
  BY <1>0 DEF PgInv, PgTypes
<1> QED
  BY <1>0, <1>3, <1>4, <1>5, <1>6, PgHookFrame

-----------------------------------------------------------------------------
(* The reads.                                                              *)

LEMMA PgLoadFrame ==
    ASSUME PgInv,
           UNCHANGED <<status, owner, here, url, pushed, uploadOpen, upload, ops>>,
           upsets' \in 0..MaxUpsets, selected' \in PgSomePlan, PgHeldType', PgHookType', PgNoticed', PgSpinners',
           (target' = target /\ deleting' = deleting) \/ (target' = "none" /\ deleting' = "none"),
           loads' \subseteq PgLoadsT, \A l \in loads' : \A p \in Plans : l.snap[p] # "no" => owner[p] = l.for,
           pushed = "none" => \A p \in Plans : plans'[p] # "no" => owner[p] = here
    PROVE  PgInv'
<1>1. PgServerType' /\ PgRouteType' /\ PgPastType'
  BY DEF PgInv, PgTypes, PgServerType, PgRouteType, PgPastType
<1>2. PgBarType'
  BY DEF PgInv, PgTypes, PgBarType, PgSomePlan, Project!DeletesItsTarget, Project!None
<1>3. PgOwned'
  BY DEF PgInv, PgOwned
<1> QED
  BY <1>1, <1>2, <1>3 DEF PgInv, PgTypes

LEMMA PgTheLoad ==
    ASSUME PgInv, NEW l \in loads
    PROVE  /\ l \in PgLoadsT /\ loads \subseteq PgLoadsT /\ l.for \in Projects /\ l.snap \in PgListings
           /\ \A m \in loads : \A p \in Plans : m.snap[p] # "no" => owner[p] = m.for
           /\ pushed = "none" => \A p \in Plans : plans[p] # "no" => owner[p] = here
BY DEF PgInv, PgTypes, PgLoadsT, PgOwned

\* Reads that only lose one the hook does not wait for, and a hook that stays or starts again.
LEMMA PgNoticedOn ==
    ASSUME PgInv, NEW l \in PgListings, PgMoved(l), UNCHANGED <<status, owner, here>>,
           \/ upsets' > 0
           \/ /\ upsets' = upsets
              /\ PgWaits /\ PgSameHook /\ l[polled] # "ready" =>
                    \E m \in loads' : m.for = here /\ (m.at # "got" \/ m.snap[polled] = "ready")
    PROVE  PgNoticed'
<1>1. CASE PgSameHook /\ (polled # "none" => l[polled] # "ready")
  BY <1>1, PgNoticedKept DEF PgSameHook, PgWaits
<1>2. CASE PgHookType' /\ report' = "none" /\ (polled' # "none" => \E x \in loops' : x.plan = polled')
  BY <1>2, PgNoticedAgain
<1> QED
  BY <1>1, <1>2 DEF PgMoved

LEMMA PgProjectArrivesStep ==
    ASSUME PgInv, NEW l \in loads, Project!ProjectArrives(l)
    PROVE  PgInv'
<1> DEFINE now == [l EXCEPT !.at = "list"]
<1>0. /\ l.at = "project"
      /\ UNCHANGED <<status, owner, here, url, selected, pushed, plans, listLoading, failed, listError, refreshing,
                     uploadOpen, upload, target, deleting, ops, upsets>>
      /\ \/ /\ l.for = here /\ project' = here /\ projectLoading' = FALSE /\ loads' = (loads \ {l}) \cup {now}
            /\ Project!Watch(plans, url, selected, listLoading, ~failed)
         \/ /\ l.for # here /\ loads' = loads \ {l} /\ PgSameHook /\ UNCHANGED <<project, projectLoading>>
  BY DEF Project!ProjectArrives, Project!To, Project!Pending, Project!server, Project!route, Project!topBar, Project!hook, PgSameHook
<1>1. /\ l \in PgLoadsT /\ loads \subseteq PgLoadsT /\ l.for \in Projects /\ l.snap \in PgListings
      /\ \A m \in loads : \A p \in Plans : m.snap[p] # "no" => owner[p] = m.for
      /\ pushed = "none" => \A p \in Plans : plans[p] # "no" => owner[p] = here
  BY PgTheLoad
<1>2. now \in PgLoadsT /\ now.for = l.for /\ now.kind = l.kind /\ now.at = "list" /\ now.snap = l.snap
  BY <1>1 DEF PgLoadsT
<1> HIDE DEF now
<1>3. /\ plans \in PgListings /\ url \in PgSomePlan /\ selected \in PgSomePlan /\ listLoading \in BOOLEAN /\ failed \in BOOLEAN
      /\ upsets \in 0..MaxUpsets
  BY DEF PgInv, PgTypes, PgRouteType, PgHeldType, PgPastType
<1>4. PgHookType' /\ PgNoticed'
  <2>1. CASE l.for = here
    <3>1. PgMoved(plans) /\ PgHookType'
      <4>1. Project!Watch(plans, url, selected, listLoading, ~failed) /\ (~failed) \in BOOLEAN
        BY <1>0, <2>1
      <4> QED
        BY <1>3, <4>1, PgWatch
    <3>2. PgWaits => \E m \in loads' : m.for = here /\ (m.at # "got" \/ m.snap[polled] = "ready")
      BY <1>0, <1>2, <2>1 DEF PgWaits, PgTells
    <3> QED
      BY <1>0, <1>3, <3>1, <3>2, PgNoticedOn
  <2>2. CASE l.for # here
    <3>1. PgSameHook
      BY <1>0, <2>2
    <3>2. PgWaits => \E m \in loads' : m.for = here /\ (m.at # "got" \/ m.snap[polled] = "ready")
      BY <1>0, <2>2 DEF PgWaits, PgTells
    <3>3. PgHookType'
      BY <3>1 DEF PgSameHook, PgInv, PgTypes, PgHookType
    <3> QED
      BY <1>0, <3>1, <3>2, <3>3, PgNoticedKept DEF PgSameHook
  <2> QED
    BY <2>1, <2>2
<1>5. PgHeldType'
  BY <1>0 DEF PgInv, PgTypes, PgHeldType
<1>6. PgSpinners'
  <2>1. projectLoading' => \E m \in loads' : m.for = here /\ m.kind = "page" /\ m.at = "project"
    BY <1>0 DEF PgInv, PgSpinners
  <2>2. listLoading => \E m \in loads' : m.for = here /\ m.kind = "page"
    BY <1>0, <1>2 DEF PgInv, PgSpinners
  <2> QED
    BY <1>0, <2>1, <2>2 DEF PgSpinners
<1>7. loads' \subseteq PgLoadsT /\ \A m \in loads' : \A p \in Plans : m.snap[p] # "no" => owner[p] = m.for
  BY <1>0, <1>1, <1>2
<1> QED
  BY <1>0, <1>1, <1>3, <1>4, <1>5, <1>6, <1>7, PgLoadFrame

LEMMA PgListReadStep ==
    ASSUME PgInv, NEW l \in loads, Project!ListRead(l)
    PROVE  PgInv'
<1> DEFINE now == [l EXCEPT !.at = "got", !.snap = Project!Listing(l.for)]
<1>0. /\ l.at = "list" /\ loads' = (loads \ {l}) \cup {now} /\ PgSameHook
      /\ UNCHANGED <<status, owner, here, url, selected, pushed, project, plans, projectLoading, listLoading, failed, listError,
                     refreshing, uploadOpen, upload, target, deleting, ops, upsets>>
  BY DEF Project!ListRead, Project!Pending, Project!server, Project!route, Project!held, Project!topBar, Project!hook, PgSameHook
<1>1. /\ l \in PgLoadsT /\ loads \subseteq PgLoadsT /\ l.for \in Projects
      /\ \A m \in loads : \A p \in Plans : m.snap[p] # "no" => owner[p] = m.for
      /\ pushed = "none" => \A p \in Plans : plans[p] # "no" => owner[p] = here
  BY PgTheLoad
<1>2. /\ Project!Listing(l.for) \in PgListings
      /\ \A p \in Plans : Project!Listing(l.for)[p] = IF owner[p] = l.for THEN status[p] ELSE "no"
  BY DEF Project!Listing, PgInv, PgTypes, PgServerType, PgListings
<1>3. now \in PgLoadsT /\ now.for = l.for /\ now.kind = l.kind /\ now.snap = Project!Listing(l.for)
  BY <1>1, <1>2 DEF PgLoadsT
<1> HIDE DEF now
<1>4. PgHookType' /\ upsets \in 0..MaxUpsets /\ PgHeldType' /\ selected \in PgSomePlan
  BY <1>0 DEF PgSameHook, PgInv, PgTypes, PgHookType, PgHeldType, PgPastType, PgRouteType
<1>5. PgNoticed'
  <2>1. PgWaits => \E m \in loads' : m.for = here /\ (m.at # "got" \/ m.snap[polled] = "ready")
    <3> SUFFICES ASSUME PgWaits PROVE \E m \in loads' : m.for = here /\ (m.at # "got" \/ m.snap[polled] = "ready")
      OBVIOUS
    <3>1. PICK m \in loads : PgTells(m)
      BY DEF PgWaits
    <3>2. CASE m = l
      <4>1. polled \in Plans /\ now.for = here /\ now.snap[polled] = "ready"
        BY <1>2, <1>3, <3>1, <3>2 DEF PgWaits, PgTells, PgInv, PgTypes, PgHookType, PgSomePlan
      <4> QED
        BY <1>0, <4>1
    <3>3. CASE m # l
      BY <1>0, <3>1, <3>3 DEF PgTells
    <3> QED
      BY <3>2, <3>3
  <2> QED
    BY <1>0, <2>1, PgNoticedKept DEF PgSameHook
<1>6. PgSpinners'
  <2>1. projectLoading => \E m \in loads' : m.for = here /\ m.kind = "page" /\ m.at = "project"
    BY <1>0 DEF PgInv, PgSpinners
  <2>2. listLoading => \E m \in loads' : m.for = here /\ m.kind = "page"
    BY <1>0, <1>3 DEF PgInv, PgSpinners
  <2> QED
    BY <1>0, <2>1, <2>2 DEF PgSpinners
<1>7. loads' \subseteq PgLoadsT /\ \A m \in loads' : \A p \in Plans : m.snap[p] # "no" => owner[p] = m.for
  BY <1>0, <1>1, <1>2, <1>3
<1> QED
  BY <1>0, <1>1, <1>4, <1>5, <1>6, <1>7, PgLoadFrame

LEMMA PgListArrivesStep ==
    ASSUME PgInv, NEW l \in loads, Project!ListArrives(l)
    PROVE  PgInv'
<1>0. /\ l.at = "got" /\ loads' = loads \ {l}
      /\ UNCHANGED <<status, owner, here, url, pushed, projectLoading, failed, uploadOpen, upload, ops, upsets>>
      /\ refreshing' \in {refreshing, FALSE}
      /\ (target' = target /\ deleting' = deleting) \/ (target' = "none" /\ deleting' = "none")
      /\ \/ /\ l.for = here /\ project' = here /\ plans' = l.snap /\ listError' = FALSE
            /\ listLoading' = (IF l.kind = "page" THEN FALSE ELSE listLoading)
            /\ selected' = Project!Follow(l.snap)
            /\ Project!Watch(l.snap, url, selected', listLoading', ~failed)
         \/ /\ l.for # here /\ PgSameHook /\ UNCHANGED <<project, plans, listError, listLoading, selected>>
  BY DEF Project!ListArrives, Project!None, Project!server, Project!hook, PgSameHook
<1>1. /\ l \in PgLoadsT /\ loads \subseteq PgLoadsT /\ l.for \in Projects /\ l.snap \in PgListings
      /\ \A m \in loads : \A p \in Plans : m.snap[p] # "no" => owner[p] = m.for
      /\ pushed = "none" => \A p \in Plans : plans[p] # "no" => owner[p] = here
  BY PgTheLoad
<1>2. /\ plans \in PgListings /\ url \in PgSomePlan /\ selected \in PgSomePlan /\ listLoading \in BOOLEAN /\ failed \in BOOLEAN
      /\ upsets \in 0..MaxUpsets
  BY DEF PgInv, PgTypes, PgRouteType, PgHeldType, PgPastType
<1>3. selected' \in PgSomePlan
  BY <1>0, <1>2 DEF Project!Follow
<1>4. PgHookType' /\ PgNoticed'
  <2>1. CASE l.for = here
    <3>1. PgMoved(l.snap) /\ PgHookType'
      <4>1. Project!Watch(l.snap, url, selected', listLoading', ~failed) /\ (~failed) \in BOOLEAN /\ listLoading' \in BOOLEAN
        BY <1>0, <1>2, <2>1
      <4>2. PICK rows \in PgListings, sel \in PgSomePlan, loading \in BOOLEAN, drawn \in BOOLEAN :
                rows = l.snap /\ Project!Watch(rows, url, sel, loading, drawn)
        BY <1>1, <1>3, <4>1
      <4>3. PgMoved(rows) /\ PgHookType'
        BY <1>2, <4>2, PgWatch
      <4> QED
        BY <4>2, <4>3
    <3>2. PgWaits /\ l.snap[polled] # "ready" => \E m \in loads' : m.for = here /\ (m.at # "got" \/ m.snap[polled] = "ready")
      BY <1>0 DEF PgWaits, PgTells
    <3> QED
      BY <1>0, <1>1, <3>1, <3>2, PgNoticedOn
  <2>2. CASE l.for # here
    <3>1. PgSameHook
      BY <1>0, <2>2
    <3>2. PgWaits => \E m \in loads' : m.for = here /\ (m.at # "got" \/ m.snap[polled] = "ready")
      BY <1>0, <2>2 DEF PgWaits, PgTells
    <3>3. PgHookType'
      BY <3>1 DEF PgSameHook, PgInv, PgTypes, PgHookType
    <3> QED
      BY <1>0, <3>1, <3>2, <3>3, PgNoticedKept DEF PgSameHook
  <2> QED
    BY <2>1, <2>2
<1>5. PgHeldType'
  <2>1. plans' \in PgListings /\ project' \in {here, "none"}
    BY <1>0, <1>1, <1>2 DEF PgInv, PgTypes, PgHeldType
  <2>2. listLoading' \in BOOLEAN /\ listError' \in BOOLEAN /\ refreshing' \in BOOLEAN
    BY <1>0 DEF PgInv, PgTypes, PgHeldType
  <2> QED
    BY <1>0, <2>1, <2>2 DEF PgInv, PgTypes, PgHeldType
<1>6. PgSpinners'
  <2>1. projectLoading => \E m \in loads' : m.for = here /\ m.kind = "page" /\ m.at = "project"
    BY <1>0 DEF PgInv, PgSpinners
  <2>2. listLoading' => \E m \in loads' : m.for = here /\ m.kind = "page"
    BY <1>0 DEF PgInv, PgSpinners
  <2> QED
    BY <1>0, <2>1, <2>2 DEF PgSpinners
<1>7. loads' \subseteq PgLoadsT /\ \A m \in loads' : \A p \in Plans : m.snap[p] # "no" => owner[p] = m.for
  BY <1>0, <1>1
<1>8. pushed = "none" => \A p \in Plans : plans'[p] # "no" => owner[p] = here
  BY <1>0, <1>1
<1> QED
  BY <1>0, <1>2, <1>3, <1>4, <1>5, <1>6, <1>7, <1>8, PgLoadFrame

LEMMA PgLoadFailsStep ==
    ASSUME PgInv, NEW l \in loads, Project!LoadFails(l)
    PROVE  PgInv'
<1>0. /\ Project!Fault /\ loads' = loads \ {l}
      /\ UNCHANGED <<status, owner, here, url, selected, pushed, plans, uploadOpen, upload, ops>>
      /\ refreshing' \in {refreshing, FALSE}
      /\ (target' = target /\ deleting' = deleting) \/ (target' = "none" /\ deleting' = "none")
      /\ \/ /\ l.kind = "page" /\ l.for = here /\ projectLoading' = FALSE /\ listLoading' = FALSE
            /\ failed' = (failed \/ l.at = "project") /\ listError' = (listError \/ l.at = "list")
            /\ project' = (IF l.at = "project" THEN "none" ELSE project)
            /\ Project!Watch(plans, url, selected, FALSE, project' # "none")
         \/ /\ ~(l.kind = "page" /\ l.for = here) /\ PgSameHook
            /\ UNCHANGED <<projectLoading, listLoading, failed, listError, project>>
  BY DEF Project!LoadFails, Project!None, Project!server, Project!route, Project!hook, PgSameHook
<1>1. /\ loads \subseteq PgLoadsT
      /\ \A m \in loads : \A p \in Plans : m.snap[p] # "no" => owner[p] = m.for
      /\ pushed = "none" => \A p \in Plans : plans[p] # "no" => owner[p] = here
  BY PgTheLoad
<1>2. /\ plans \in PgListings /\ url \in PgSomePlan /\ selected \in PgSomePlan /\ project \in {here, "none"}
      /\ upsets' \in 0..MaxUpsets /\ upsets' > 0
  BY <1>0, PgFault DEF PgInv, PgTypes, PgRouteType, PgHeldType
<1>3. PgHookType' /\ PgNoticed'
  <2>1. CASE l.kind = "page" /\ l.for = here
    <3>1. PgMoved(plans) /\ PgHookType'
      <4>1. /\ Project!Watch(plans, url, selected, FALSE, project' # "none")
            /\ FALSE \in BOOLEAN /\ (project' # "none") \in BOOLEAN
        BY <1>0, <2>1
      <4> QED
        BY <1>2, <4>1, PgWatch
    <3> QED
      BY <1>0, <1>2, <3>1, PgNoticedOn
  <2>2. CASE ~(l.kind = "page" /\ l.for = here)
    <3>1. PgSameHook
      BY <1>0, <2>2
    <3>2. PgHookType'
      BY <3>1 DEF PgSameHook, PgInv, PgTypes, PgHookType
    <3> QED
      BY <1>0, <1>2, <3>1, <3>2, PgNoticedKept DEF PgSameHook
  <2> QED
    BY <2>1, <2>2
<1>4. PgHeldType'
  <2>1. project' \in {here, "none"}
    BY <1>0, <1>2
  <2>2. /\ projectLoading' \in BOOLEAN /\ listLoading' \in BOOLEAN /\ failed' \in BOOLEAN /\ listError' \in BOOLEAN
        /\ refreshing' \in BOOLEAN
    BY <1>0 DEF PgInv, PgTypes, PgHeldType
  <2> QED
    BY <1>0, <1>2, <2>1, <2>2 DEF PgHeldType
<1>5. PgSpinners'
  <2>1. CASE l.kind = "page" /\ l.for = here
    BY <1>0, <2>1 DEF PgSpinners
  <2>2. CASE ~(l.kind = "page" /\ l.for = here)
    <3>1. \A m \in loads : m.for = here /\ m.kind = "page" => m \in loads'
      BY <1>0, <2>2
    <3>2. UNCHANGED <<projectLoading, listLoading, here>>
      BY <1>0, <2>2
    <3>3. projectLoading => \E m \in loads' : m.for = here /\ m.kind = "page" /\ m.at = "project"
      BY <3>1 DEF PgInv, PgSpinners
    <3>4. listLoading => \E m \in loads' : m.for = here /\ m.kind = "page"
      BY <3>1 DEF PgInv, PgSpinners
    <3> QED
      BY <3>2, <3>3, <3>4 DEF PgSpinners
  <2> QED
    BY <2>1, <2>2
<1>6. loads' \subseteq PgLoadsT /\ \A m \in loads' : \A p \in Plans : m.snap[p] # "no" => owner[p] = m.for
  BY <1>0, <1>1
<1> QED
  BY <1>0, <1>1, <1>2, <1>3, <1>4, <1>5, <1>6, PgLoadFrame

-----------------------------------------------------------------------------
(* What the user does.                                                     *)

LEMMA PgUserFrame ==
    ASSUME PgInv, UNCHANGED here,
           PgServerType', PgRouteType', PgHeldType', PgBarType', PgHookType', PgPastType', PgNoticed',
           \A p \in Plans : owner[p] # "none" => owner'[p] = owner[p],
           loads' \subseteq PgLoadsT, loads \subseteq loads', \A l \in loads' \ loads : \A p \in Plans : l.snap[p] = "no",
           projectLoading' /\ ~projectLoading => \E l \in loads' : l.for = here /\ l.kind = "page" /\ l.at = "project",
           listLoading' /\ ~listLoading => \E l \in loads' : l.for = here /\ l.kind = "page",
           upload'.plan # "none" => upload'.for # "none" /\ owner'[upload'.plan] = upload'.for,
           pushed' # here,
           pushed' = "none" => \A p \in Plans : plans'[p] # "no" => owner'[p] = here
    PROVE  PgInv'
<1>1. PgSpinners'
  <2>1. projectLoading' => \E l \in loads' : l.for = here /\ l.kind = "page" /\ l.at = "project"
    BY DEF PgInv, PgSpinners
  <2>2. listLoading' => \E l \in loads' : l.for = here /\ l.kind = "page"
    BY DEF PgInv, PgSpinners
  <2> QED
    BY <2>1, <2>2 DEF PgSpinners
<1>2. PgOwned'
  <2>1. ASSUME NEW l \in loads', NEW p \in Plans, l.snap[p] # "no" PROVE owner'[p] = l.for
    <3>1. l \in loads
      BY <2>1
    <3>2. owner[p] = l.for /\ l.for # "none"
      BY <2>1, <3>1, PgNames DEF PgInv, PgOwned, PgTypes, PgLoadsT
    <3> QED
      BY <3>2
  <2> QED
    BY <2>1 DEF PgOwned
<1> QED
  BY <1>1, <1>2 DEF PgInv, PgTypes

LEMMA PgNoticedMore ==
    ASSUME PgInv, PgSameHook \/ (\E l \in PgListings : PgMoved(l)), UNCHANGED here, loads \subseteq loads',
           upsets' > 0 \/ upsets' = upsets,
           polled # "none" /\ owner[polled] # "none" /\ status[polled] \in {"ready", "no"} =>
              owner'[polled] = owner[polled] /\ status'[polled] \in {status[polled], "no"}
    PROVE  PgNoticed'
<1>1. PgWaits => \E m \in loads' : m.for = here /\ (m.at # "got" \/ m.snap[polled] = "ready")
  BY DEF PgWaits, PgTells
<1>2. CASE PgSameHook
  BY <1>1, <1>2, PgNoticedKept DEF PgSameHook
<1>3. CASE PgHookType' /\ report' = "none" /\ (polled' # "none" => \E x \in loops' : x.plan = polled')
  BY <1>3, PgNoticedAgain
<1> QED
  BY <1>2, <1>3 DEF PgMoved

LEMMA PgHookStays ==
    ASSUME PgInv, PgSameHook
    PROVE  PgHookType'
BY DEF PgSameHook, PgInv, PgTypes, PgHookType

\* Another project: nothing is shown, and nothing polled, until it is read.
LEMMA PgEntered ==
    ASSUME PgInv, NEW pj \in Projects, Project!Enter(pj), pushed' = "none", url' \in PgSomePlan, ops' \in 0..MaxPageOps,
           UNCHANGED <<status, owner, selected, refreshing, uploadOpen, upload, target, deleting, upsets>>
    PROVE  PgInv'
<1> DEFINE new == Project!Load(pj, "page")
<1>0. /\ here' = pj /\ project' = "none" /\ plans' = Project!Empty /\ failed' = FALSE /\ listError' = FALSE
      /\ projectLoading' = TRUE /\ listLoading' = TRUE /\ loads' = loads \cup {new}
      /\ polled' = "none" /\ report' = "none" /\ loops' = {} /\ timer' = "none" /\ pollTold' = FALSE
  BY DEF Project!Enter, Project!None
<1>1. /\ new \in PgLoadsT /\ new.for = pj /\ new.kind = "page" /\ new.at = "project"
      /\ \A p \in Plans : new.snap[p] = "no"
  BY PgLoad
<1> HIDE DEF new
<1>2. PgServerType' /\ PgRouteType'
  BY <1>0 DEF PgInv, PgTypes, PgServerType, PgRouteType
<1>3. PgHeldType'
  BY <1>0, PgEmpty DEF PgInv, PgTypes, PgHeldType
<1>4. PgBarType'
  BY DEF PgInv, PgTypes, PgBarType, Project!DeletesItsTarget
<1>5. PgHookType'
  BY <1>0 DEF PgHookType, PgSomePlan
<1>6. PgPastType'
  BY DEF PgInv, PgTypes, PgPastType
<1>7. loads' \subseteq PgLoadsT
  BY <1>0, <1>1 DEF PgInv, PgTypes
<1>8. PgOwned'
  BY <1>0, <1>1, PgEmpty, PgNames DEF PgInv, PgOwned
<1>9. PgSpinners' /\ PgNoticed'
  BY <1>0, <1>1 DEF PgSpinners, PgNoticed
<1> QED
  BY <1>2, <1>3, <1>4, <1>5, <1>6, <1>7, <1>8, <1>9 DEF PgInv, PgTypes

LEMMA PgEnterStep ==
    ASSUME PgInv, Project!Pushed \/ \E pj \in Projects : Project!Navigate(pj)
    PROVE  PgInv'
<1>1. CASE Project!Pushed
  <2>1. /\ pushed # "none" /\ pushed' = "none" /\ UNCHANGED <<status, owner, url, selected, uploadOpen, upload, target, deleting, ops, upsets>>
        /\ pushed # here => Project!Enter(pushed) /\ UNCHANGED refreshing
    BY <1>1 DEF Project!Pushed, Project!None, Project!server, Project!topBar
  <2>2. pushed # here /\ pushed \in Projects /\ url \in PgSomePlan /\ ops \in 0..MaxPageOps
    BY <2>1 DEF PgInv, PgOwned, PgTypes, PgRouteType, PgPastType
  <2> QED
    BY <2>1, <2>2, PgEntered
<1>2. CASE \E pj \in Projects : Project!Navigate(pj)
  <2>1. PICK pj \in Projects : Project!Navigate(pj)
    BY <1>2
  <2>2. /\ pushed = "none" /\ pushed' = pushed /\ Project!Op /\ Project!Enter(pj) /\ url' = "none"
        /\ UNCHANGED <<status, owner, selected, refreshing, uploadOpen, upload, target, deleting, upsets>>
    BY <2>1 DEF Project!Navigate, Project!None, Project!server, Project!topBar
  <2>3. ops' \in 0..MaxPageOps /\ url' \in PgSomePlan
    BY <2>2, PgOp DEF PgSomePlan
  <2> QED
    BY <2>2, <2>3, PgEntered
<1> QED
  BY <1>1, <1>2

LEMMA PgSelectPlanStep ==
    ASSUME PgInv, NEW p \in Plans, Project!SelectPlan(p)
    PROVE  PgInv'
<1>0. /\ Project!Op /\ url' = p /\ selected' = p /\ Project!Watch(plans, p, p, listLoading, TRUE)
      /\ UNCHANGED <<status, owner, here, pushed, project, plans, projectLoading, listLoading, failed, listError,
                     refreshing, loads, uploadOpen, upload, target, deleting, upsets>>
  BY DEF Project!SelectPlan, Project!server, Project!held, Project!topBar
<1>1. plans \in PgListings /\ listLoading \in BOOLEAN /\ p \in PgSomePlan /\ TRUE \in BOOLEAN /\ loads \subseteq PgLoadsT
  BY DEF PgInv, PgTypes, PgHeldType, PgSomePlan
<1>2. PgMoved(plans) /\ PgHookType'
  BY <1>0, <1>1, PgWatch
<1>3. PgNoticed'
  BY <1>0, <1>1, <1>2, PgNoticedMore
<1>4. PgServerType' /\ PgRouteType' /\ PgHeldType'
  BY <1>0, <1>1 DEF PgInv, PgTypes, PgServerType, PgRouteType, PgHeldType
<1>5. PgBarType'
  BY <1>0 DEF PgInv, PgTypes, PgBarType, Project!DeletesItsTarget
<1>6. PgPastType'
  BY <1>0, PgOp DEF PgInv, PgTypes, PgPastType
<1>7. /\ upload.plan # "none" => upload.for # "none" /\ owner[upload.plan] = upload.for
      /\ pushed # here
      /\ pushed = "none" => \A q \in Plans : plans[q] # "no" => owner[q] = here
  BY DEF PgInv, PgOwned
<1> QED
  BY <1>0, <1>1, <1>2, <1>3, <1>4, <1>5, <1>6, <1>7, PgUserFrame

\* A read of the list, all of it or silently.
LEMMA PgReloadStep ==
    ASSUME PgInv, Project!Reload \/ Project!Refresh
    PROVE  PgInv'
<1>0. /\ Project!Op /\ \E kind \in {"page", "refresh"} : loads' = loads \cup {Project!Load(here, kind)}
      /\ UNCHANGED <<status, owner, here, url, selected, pushed, project, plans, uploadOpen, upload, target, deleting, upsets>>
      /\ \/ /\ loads' = loads \cup {Project!Load(here, "page")} /\ projectLoading' = TRUE /\ listLoading' = TRUE
            /\ listError' = FALSE /\ failed' = FALSE /\ refreshing' = refreshing
            /\ Project!Watch(plans, url, selected, TRUE, TRUE)
         \/ /\ PgSameHook /\ UNCHANGED <<projectLoading, listLoading, failed>> /\ refreshing' = TRUE /\ listError' = FALSE
  BY DEF Project!Reload, Project!Refresh, Project!server, Project!route, Project!topBar, Project!hook, PgSameHook
<1>1. /\ plans \in PgListings /\ url \in PgSomePlan /\ selected \in PgSomePlan /\ TRUE \in BOOLEAN /\ loads \subseteq PgLoadsT
      /\ here \in Projects
  BY DEF PgInv, PgTypes, PgHeldType, PgRouteType
<1>2. PICK kind \in {"page", "refresh"} : loads' = loads \cup {Project!Load(here, kind)}
  BY <1>0
<1>3. /\ Project!Load(here, kind) \in PgLoadsT /\ \A q \in Plans : Project!Load(here, kind).snap[q] = "no"
      /\ Project!Load(here, "page").for = here /\ Project!Load(here, "page").kind = "page"
      /\ Project!Load(here, "page").at = "project"
  BY <1>1, PgLoad
<1>4. loads' \subseteq PgLoadsT /\ loads \subseteq loads' /\ \A l \in loads' \ loads : \A q \in Plans : l.snap[q] = "no"
  BY <1>1, <1>2, <1>3
<1>5. (PgSameHook \/ PgMoved(plans)) /\ PgHookType'
  <2>1. CASE PgSameHook
    BY <2>1, PgHookStays
  <2>2. CASE Project!Watch(plans, url, selected, TRUE, TRUE)
    BY <1>1, <2>2, PgWatch
  <2> QED
    BY <1>0, <2>1, <2>2
<1>6. PgNoticed'
  BY <1>0, <1>1, <1>4, <1>5, PgNoticedMore
<1>7. PgServerType' /\ PgRouteType'
  BY <1>0 DEF PgInv, PgTypes, PgServerType, PgRouteType
<1>8. PgHeldType'
  BY <1>0 DEF PgInv, PgTypes, PgHeldType
<1>9. PgBarType'
  BY <1>0 DEF PgInv, PgTypes, PgBarType, Project!DeletesItsTarget
<1>10. PgPastType'
  BY <1>0, PgOp DEF PgInv, PgTypes, PgPastType
<1>11. /\ projectLoading' /\ ~projectLoading => \E l \in loads' : l.for = here /\ l.kind = "page" /\ l.at = "project"
       /\ listLoading' /\ ~listLoading => \E l \in loads' : l.for = here /\ l.kind = "page"
  <2>1. CASE UNCHANGED <<projectLoading, listLoading>>
    BY <2>1
  <2>2. CASE loads' = loads \cup {Project!Load(here, "page")}
    <3>1. Project!Load(here, "page") \in loads'
      BY <2>2
    <3> QED
      BY <1>3, <3>1
  <2> QED
    BY <1>0, <2>1, <2>2
<1>12. /\ upload.plan # "none" => upload.for # "none" /\ owner[upload.plan] = upload.for
       /\ pushed # here
       /\ pushed = "none" => \A q \in Plans : plans[q] # "no" => owner[q] = here
  BY DEF PgInv, PgOwned
<1> QED
  BY <1>0, <1>4, <1>5, <1>6, <1>7, <1>8, <1>9, <1>10, <1>11, <1>12, PgUserFrame

\* The top bar up to the answer of a request that changes the project.
LEMMA PgBarStep ==
    ASSUME PgInv,
           \/ (\E open \in BOOLEAN : Project!OpenUpload(open)) \/ Project!Upload \/ Project!UploadFails
           \/ (\E p \in Plans : Project!AskDelete(p)) \/ Project!KeepPlan \/ Project!Delete \/ Project!DeleteFails
    PROVE  PgInv'
<1>0. /\ UNCHANGED <<status, owner, here, url, selected, pushed, project, plans, projectLoading, listLoading, failed, listError,
                     refreshing, loads>>
      /\ PgSameHook
      /\ ops' = ops \/ Project!Op
      /\ upsets' = upsets \/ Project!Fault
      /\ uploadOpen' = uploadOpen \/ uploadOpen' \in BOOLEAN
      /\ upload' = upload \/ \E pj \in Projects \cup {"none"} : upload' = [for |-> pj, plan |-> "none"]
      /\ target' \in PgSomePlan /\ deleting' \in PgSomePlan /\ (deleting' # "none" => target' = deleting')
  <2>1. /\ here \in Projects /\ target \in PgSomePlan /\ deleting \in PgSomePlan
        /\ (deleting # "none" => target = deleting) /\ "none" \in PgSomePlan /\ Plans \subseteq PgSomePlan
    BY DEF PgInv, PgTypes, PgRouteType, PgBarType, PgSomePlan, Project!DeletesItsTarget, Project!None
  <2>2. CASE \E open \in BOOLEAN : Project!OpenUpload(open)
    BY <2>1, <2>2 DEF Project!OpenUpload, Project!Bar, Project!server, Project!route, Project!held, Project!hook, PgSameHook
  <2>3. CASE Project!Upload \/ Project!UploadFails
    BY <2>1, <2>3 DEF Project!Upload, Project!UploadFails, Project!NoUpload, Project!None, Project!Bar, Project!server, Project!route, Project!held, Project!hook, PgSameHook
  <2>4. CASE \E p \in Plans : Project!AskDelete(p)
    BY <2>1, <2>4 DEF Project!AskDelete, Project!None, Project!Bar, Project!server, Project!route, Project!held, Project!hook, PgSameHook
  <2>5. CASE Project!KeepPlan \/ Project!Delete \/ Project!DeleteFails
    BY <2>1, <2>5 DEF Project!KeepPlan, Project!Delete, Project!DeleteFails, Project!None, Project!Bar, Project!server,
                      Project!route, Project!held, Project!hook, PgSameHook
  <2> QED
    BY <2>2, <2>3, <2>4, <2>5
<1>1. /\ upload' \in [for : Projects \cup {"none"}, plan : PgSomePlan]
      /\ upload'.plan # "none" => upload'.for # "none" /\ owner'[upload'.plan] = upload'.for
  <2>1. CASE upload' = upload
    BY <1>0, <2>1 DEF PgInv, PgTypes, PgBarType, PgOwned
  <2>2. CASE \E pj \in Projects \cup {"none"} : upload' = [for |-> pj, plan |-> "none"]
    BY <2>2 DEF PgSomePlan
  <2> QED
    BY <1>0, <2>1, <2>2
<1>2. PgBarType'
  <2>1. uploadOpen' \in BOOLEAN
    BY <1>0 DEF PgInv, PgTypes, PgBarType
  <2> QED
    BY <1>0, <1>1, <2>1 DEF PgBarType, Project!DeletesItsTarget, Project!None
<1>3. PgServerType' /\ PgRouteType' /\ PgHeldType'
  BY <1>0 DEF PgInv, PgTypes, PgServerType, PgRouteType, PgHeldType
<1>4. PgPastType' /\ (upsets' > 0 \/ upsets' = upsets)
  BY <1>0, PgOp, PgFault DEF PgInv, PgTypes, PgPastType
<1>5. PgHookType' /\ PgNoticed'
  BY <1>0, <1>4, PgHookStays, PgNoticedMore
<1>6. /\ loads' \subseteq PgLoadsT /\ loads \subseteq loads' /\ \A l \in loads' \ loads : \A p \in Plans : l.snap[p] = "no"
      /\ pushed' # here /\ (pushed' = "none" => \A p \in Plans : plans'[p] # "no" => owner'[p] = here)
  BY <1>0 DEF PgInv, PgTypes, PgOwned
<1>7. UNCHANGED <<owner, projectLoading, listLoading>>
  BY <1>0
<1>8. /\ projectLoading' /\ ~projectLoading => \E l \in loads' : l.for = here /\ l.kind = "page" /\ l.at = "project"
      /\ listLoading' /\ ~listLoading => \E l \in loads' : l.for = here /\ l.kind = "page"
  BY <1>7
<1> QED
  BY <1>0, <1>1, <1>2, <1>3, <1>4, <1>5, <1>6, <1>7, <1>8, PgUserFrame

LEMMA PgUploadSavedStep ==
    ASSUME PgInv, NEW p \in Plans, Project!UploadSaved(p)
    PROVE  PgInv'
<1>0. /\ upload # [for |-> "none", plan |-> "none"] /\ upload.plan = "none" /\ owner[p] = "none"
      /\ owner' = [owner EXCEPT ![p] = upload.for] /\ status' = [status EXCEPT ![p] = "processing"]
      /\ upload' = [upload EXCEPT !.plan = p]
      /\ UNCHANGED <<here, url, selected, pushed, project, plans, projectLoading, listLoading, failed, listError,
                     refreshing, loads, uploadOpen, target, deleting, ops, upsets>>
      /\ PgSameHook
  BY DEF Project!UploadSaved, Project!Uploading, Project!NoUpload, Project!None, Project!route, Project!held, Project!hook, PgSameHook
<1>1. /\ upload \in [for : Projects \cup {"none"}, plan : PgSomePlan]
      /\ owner \in [Plans -> Projects \cup {"none"}] /\ status \in PgListings
  BY DEF PgInv, PgTypes, PgBarType, PgServerType
<1>2. upload.for \in Projects
  BY <1>0, <1>1
<1>3. /\ upload' \in [for : Projects \cup {"none"}, plan : PgSomePlan]
      /\ upload'.plan = p /\ upload'.for = upload.for
  BY <1>0, <1>1 DEF PgSomePlan
<1>4. /\ \A q \in Plans : owner'[q] = IF q = p THEN upload.for ELSE owner[q]
      /\ \A q \in Plans : status'[q] = IF q = p THEN "processing" ELSE status[q]
  BY <1>0, <1>1 DEF PgListings
<1>5. PgServerType'
  <2>1. owner' \in [Plans -> Projects \cup {"none"}]
    BY <1>0, <1>1, <1>2
  <2>2. status' \in PgListings
    BY <1>0, <1>1 DEF PgListings, PgStates
  <2> QED
    BY <1>2, <1>4, <2>1, <2>2, PgNames DEF PgInv, PgTypes, PgServerType
<1>6. PgRouteType' /\ PgHeldType' /\ PgPastType'
  BY <1>0 DEF PgInv, PgTypes, PgRouteType, PgHeldType, PgPastType
<1>7. PgBarType'
  BY <1>0, <1>3 DEF PgInv, PgTypes, PgBarType, Project!DeletesItsTarget
<1>8. \A q \in Plans : owner[q] # "none" => owner'[q] = owner[q] /\ status'[q] = status[q]
  BY <1>0, <1>4
<1>9. PgHookType' /\ PgNoticed'
  <2>1. polled # "none" => polled \in Plans
    BY DEF PgInv, PgTypes, PgHookType, PgSomePlan
  <2> QED
    BY <1>0, <1>8, <2>1, PgHookStays, PgNoticedMore
<1>10. upload'.plan # "none" => upload'.for # "none" /\ owner'[upload'.plan] = upload'.for
  BY <1>2, <1>3, <1>4, PgNames
<1>11. /\ loads' \subseteq PgLoadsT /\ loads \subseteq loads' /\ \A l \in loads' \ loads : \A q \in Plans : l.snap[q] = "no"
       /\ pushed' # here
  BY <1>0 DEF PgInv, PgTypes, PgOwned
<1>12. pushed' = "none" => \A q \in Plans : plans'[q] # "no" => owner'[q] = here
  <2>1. here # "none"
    BY PgNames DEF PgInv, PgTypes, PgRouteType
  <2> QED
    BY <1>0, <1>8, <2>1 DEF PgInv, PgOwned
<1>13. UNCHANGED <<projectLoading, listLoading>>
  BY <1>0
<1>14. /\ projectLoading' /\ ~projectLoading => \E l \in loads' : l.for = here /\ l.kind = "page" /\ l.at = "project"
       /\ listLoading' /\ ~listLoading => \E l \in loads' : l.for = here /\ l.kind = "page"
  BY <1>13
<1> QED
  BY <1>0, <1>5, <1>6, <1>7, <1>8, <1>9, <1>10, <1>11, <1>12, <1>14, PgUserFrame

LEMMA PgUploadOkStep ==
    ASSUME PgInv, Project!UploadOk
    PROVE  PgInv'
<1>0. /\ upload.plan # "none"
      /\ upload' = [for |-> "none", plan |-> "none"] /\ uploadOpen' = FALSE
      /\ url' = upload.plan /\ selected' = upload.plan
      /\ pushed' = (IF upload.for = here THEN pushed ELSE upload.for)
      /\ plans' = [plans EXCEPT ![upload.plan] = "processing"]
      /\ Project!Watch(plans', url', selected', listLoading, project # "none" /\ ~failed)
      /\ UNCHANGED <<status, owner, here, project, projectLoading, listLoading, failed, listError, refreshing,
                     loads, target, deleting, ops, upsets>>
  BY DEF Project!UploadOk, Project!NoUpload, Project!None, Project!server
<1>1. /\ upload.plan \in Plans /\ upload.for \in Projects /\ owner[upload.plan] = upload.for
      /\ plans \in PgListings /\ listLoading \in BOOLEAN /\ (project # "none" /\ ~failed) \in BOOLEAN
  BY <1>0 DEF PgInv, PgTypes, PgBarType, PgHeldType, PgOwned, PgSomePlan
<1>2. /\ plans' \in PgListings
      /\ \A p \in Plans : plans'[p] = IF p = upload.plan THEN "processing" ELSE plans[p]
  BY <1>0, <1>1 DEF PgListings, PgStates
<1>3. url' \in PgSomePlan /\ selected' \in PgSomePlan
  BY <1>0, <1>1 DEF PgSomePlan
<1>4. PgHookType' /\ (PgSameHook \/ \E l \in PgListings : PgMoved(l))
  <2>1. PICK rows \in PgListings, u \in PgSomePlan, sel \in PgSomePlan, drawn \in BOOLEAN :
            Project!Watch(rows, u, sel, listLoading, drawn)
    BY <1>0, <1>1, <1>2, <1>3
  <2>2. PgMoved(rows) /\ PgHookType'
    BY <1>1, <2>1, PgWatch
  <2> QED
    BY <2>2
<1>5. PgNoticed'
  BY <1>0, <1>4, PgNoticedMore
<1>6. PgServerType' /\ PgPastType'
  BY <1>0 DEF PgInv, PgTypes, PgServerType, PgPastType
<1>7. PgRouteType'
  BY <1>0, <1>1, <1>3 DEF PgInv, PgTypes, PgRouteType
<1>8. PgHeldType'
  BY <1>0, <1>2 DEF PgInv, PgTypes, PgHeldType
<1>9. PgBarType'
  BY <1>0 DEF PgInv, PgTypes, PgBarType, PgSomePlan, Project!DeletesItsTarget
<1>10. pushed' # here
  BY <1>0 DEF PgInv, PgOwned
<1>11. pushed' = "none" => \A p \in Plans : plans'[p] # "no" => owner'[p] = here
  BY <1>0, <1>1, <1>2, PgNames DEF PgInv, PgOwned
<1>12. /\ loads' \subseteq PgLoadsT /\ loads \subseteq loads' /\ \A l \in loads' \ loads : \A p \in Plans : l.snap[p] = "no"
       /\ upload'.plan # "none" => upload'.for # "none" /\ owner'[upload'.plan] = upload'.for
  BY <1>0 DEF PgInv, PgTypes
<1>13. UNCHANGED <<projectLoading, listLoading>>
  BY <1>0
<1>14. /\ projectLoading' /\ ~projectLoading => \E l \in loads' : l.for = here /\ l.kind = "page" /\ l.at = "project"
       /\ listLoading' /\ ~listLoading => \E l \in loads' : l.for = here /\ l.kind = "page"
  BY <1>13
<1> QED
  BY <1>0, <1>4, <1>5, <1>6, <1>7, <1>8, <1>9, <1>10, <1>11, <1>12, <1>14, PgUserFrame

LEMMA PgDeleteOkStep ==
    ASSUME PgInv, Project!DeleteOk
    PROVE  PgInv'
<1> DEFINE new == Project!Load(here, "delete")
<1>0. /\ deleting # "none"
      /\ status' = [status EXCEPT ![deleting] = "no"] /\ plans' = [plans EXCEPT ![deleting] = "no"]
      /\ selected' = (IF selected = deleting THEN "none" ELSE selected)
      /\ refreshing' = TRUE /\ listError' = FALSE /\ loads' = loads \cup {new}
      /\ Project!Watch(plans', url, selected', listLoading, project # "none" /\ ~failed)
      /\ UNCHANGED <<owner, here, url, pushed, project, projectLoading, listLoading, failed, uploadOpen, upload, target,
                     deleting, ops, upsets>>
  BY DEF Project!DeleteOk, Project!None
<1>1. /\ deleting \in Plans /\ status \in PgListings /\ plans \in PgListings /\ here \in Projects /\ loads \subseteq PgLoadsT
      /\ url \in PgSomePlan /\ listLoading \in BOOLEAN /\ (project # "none" /\ ~failed) \in BOOLEAN
  BY <1>0 DEF PgInv, PgTypes, PgBarType, PgHeldType, PgServerType, PgRouteType, PgSomePlan
<1>2. new \in PgLoadsT /\ \A p \in Plans : new.snap[p] = "no"
  BY <1>1, PgLoad
<1> HIDE DEF new
<1>3. /\ plans' \in PgListings /\ status' \in PgListings
      /\ \A p \in Plans : plans'[p] = IF p = deleting THEN "no" ELSE plans[p]
      /\ \A p \in Plans : status'[p] = IF p = deleting THEN "no" ELSE status[p]
  BY <1>0, <1>1 DEF PgListings
<1>4. selected' \in PgSomePlan
  BY <1>0 DEF PgInv, PgTypes, PgRouteType, PgSomePlan
<1>5. PgHookType' /\ (PgSameHook \/ \E l \in PgListings : PgMoved(l))
  <2>1. PICK rows \in PgListings, sel \in PgSomePlan, drawn \in BOOLEAN : Project!Watch(rows, url, sel, listLoading, drawn)
    BY <1>0, <1>1, <1>3, <1>4
  <2>2. PgMoved(rows) /\ PgHookType'
    BY <1>1, <2>1, PgWatch
  <2> QED
    BY <2>2
<1>6. PgNoticed'
  <2>1. polled # "none" => polled \in Plans
    BY DEF PgInv, PgTypes, PgHookType, PgSomePlan
  <2> QED
    BY <1>0, <1>3, <1>5, <2>1, PgNoticedMore
<1>7. PgServerType' /\ PgPastType'
  BY <1>0, <1>3 DEF PgInv, PgTypes, PgServerType, PgPastType
<1>8. PgRouteType'
  BY <1>0, <1>4 DEF PgInv, PgTypes, PgRouteType
<1>9. PgHeldType'
  BY <1>0, <1>3 DEF PgInv, PgTypes, PgHeldType
<1>10. PgBarType'
  BY <1>0 DEF PgInv, PgTypes, PgBarType, Project!DeletesItsTarget
<1>11. loads' \subseteq PgLoadsT /\ loads \subseteq loads' /\ \A l \in loads' \ loads : \A p \in Plans : l.snap[p] = "no"
  BY <1>0, <1>1, <1>2
<1>12. /\ upload'.plan # "none" => upload'.for # "none" /\ owner'[upload'.plan] = upload'.for
       /\ pushed' # here
  BY <1>0 DEF PgInv, PgOwned
<1>13. pushed' = "none" => \A p \in Plans : plans'[p] # "no" => owner'[p] = here
  BY <1>0, <1>3 DEF PgInv, PgOwned
<1>14. UNCHANGED <<projectLoading, listLoading>>
  BY <1>0
<1>15. /\ projectLoading' /\ ~projectLoading => \E l \in loads' : l.for = here /\ l.kind = "page" /\ l.at = "project"
       /\ listLoading' /\ ~listLoading => \E l \in loads' : l.for = here /\ l.kind = "page"
  BY <1>14
<1> QED
  BY <1>0, <1>5, <1>6, <1>7, <1>8, <1>9, <1>10, <1>11, <1>12, <1>13, <1>15, PgUserFrame

-----------------------------------------------------------------------------
LEMMA PgStart ==
    ASSUME Project!Init
    PROVE  PgInv
<1> DEFINE first == Project!Load(Home, "page")
<1>0. /\ owner \in {[p \in Plans |-> IF p \in s THEN Home ELSE "none"] : s \in SUBSET Plans}
      /\ status \in [Plans -> {"no", "processing"}]
      /\ \A p \in Plans : (status[p] = "no") = (owner[p] = "none")
      /\ here = Home /\ url \in PgSomePlan /\ selected = url /\ pushed = "none"
      /\ project = "none" /\ plans = Project!Empty /\ projectLoading = TRUE /\ listLoading = TRUE
      /\ failed = FALSE /\ listError = FALSE /\ refreshing = FALSE /\ loads = {first}
      /\ uploadOpen = FALSE /\ upload = [for |-> "none", plan |-> "none"] /\ target = "none" /\ deleting = "none"
      /\ polled = "none" /\ report = "none" /\ loops = {} /\ timer = "none"
      /\ pollTold = FALSE /\ ops = 0 /\ upsets = 0
  BY DEF Project!Init, Project!None, Project!NoUpload, PgSomePlan
<1>1. Home \in Projects /\ Home # "none" /\ MaxPageOps \in Nat /\ MaxUpsets \in Nat
  BY PgNames
<1>2. /\ first \in PgLoadsT /\ first.for = Home /\ first.kind = "page" /\ first.at = "project"
      /\ \A p \in Plans : first.snap[p] = "no"
  BY <1>1, PgLoad
<1> HIDE DEF first
<1>3. owner \in [Plans -> Projects \cup {"none"}]
  BY <1>0, <1>1
<1>4. PgServerType
  BY <1>0, <1>3 DEF PgServerType, PgListings, PgStates
<1>5. PgRouteType /\ PgPastType
  BY <1>0, <1>1 DEF PgRouteType, PgPastType
<1>6. PgHeldType
  BY <1>0, PgEmpty DEF PgHeldType
<1>7. PgBarType /\ PgHookType
  BY <1>0 DEF PgBarType, PgHookType, PgSomePlan, Project!DeletesItsTarget
<1>8. PgOwned
  BY <1>0, <1>1, <1>2, PgEmpty DEF PgOwned
<1>9. PgSpinners /\ PgNoticed
  BY <1>0, <1>2 DEF PgSpinners, PgNoticed
<1> QED
  BY <1>0, <1>2, <1>4, <1>5, <1>6, <1>7, <1>8, <1>9 DEF PgInv, PgTypes

LEMMA PgStep ==
    ASSUME PgInv, [Project!Next]_(Project!vars)
    PROVE  PgInv'
<1>1. CASE \E l \in loops : Project!PollAnswered(l) \/ Project!PollFails(l) \/ Project!PollAgain(l)
  BY <1>1, PgPollAnsweredStep, PgPollStep
<1>2. CASE \E p \in Plans : Project!Process(p) \/ Project!SelectPlan(p) \/ Project!UploadSaved(p) \/ Project!AskDelete(p)
  BY <1>2, PgProcessStep, PgSelectPlanStep, PgUploadSavedStep, PgBarStep
<1>3. CASE \E l \in loads : Project!ProjectArrives(l) \/ Project!ListRead(l) \/ Project!ListArrives(l) \/ Project!LoadFails(l)
  BY <1>3, PgProjectArrivesStep, PgListReadStep, PgListArrivesStep, PgLoadFailsStep
<1>4. CASE (\E pj \in Projects : Project!Navigate(pj)) \/ Project!Pushed
  BY <1>4, PgEnterStep
<1>5. CASE \/ (\E open \in BOOLEAN : Project!OpenUpload(open)) \/ Project!Upload \/ Project!UploadFails
           \/ Project!KeepPlan \/ Project!Delete \/ Project!DeleteFails
  BY <1>5, PgBarStep
<1>6. CASE Project!RetryPlan
  BY <1>6, PgProcessStep
<1>7. CASE Project!Reload \/ Project!Refresh
  BY <1>7, PgReloadStep
<1>8. CASE Project!UploadOk \/ Project!DeleteOk
  BY <1>8, PgUploadOkStep, PgDeleteOkStep
<1>9. CASE UNCHANGED Project!vars
  <2>1. /\ UNCHANGED <<status, owner, here, url, selected, pushed, project, plans, projectLoading, listLoading, failed,
                       listError, refreshing, loads, uploadOpen, upload, target, deleting, ops, upsets>>
        /\ PgSameHook
    BY <1>9 DEF Project!vars, Project!server, Project!route, Project!held, Project!topBar, Project!hook, PgSameHook
  <2>2. PgTypes'
    BY <2>1, PgHookStays DEF PgInv, PgTypes, PgServerType, PgRouteType, PgHeldType, PgBarType, PgPastType, Project!DeletesItsTarget
  <2>3. PgOwned'
    BY <2>1 DEF PgInv, PgOwned
  <2>4. PgSpinners'
    BY <2>1 DEF PgInv, PgSpinners
  <2>5. PgNoticed'
    BY <2>1, PgNoticedMore
  <2> QED
    BY <2>2, <2>3, <2>4, <2>5 DEF PgInv
<1> QED
  BY <1>1, <1>2, <1>3, <1>4, <1>5, <1>6, <1>7, <1>8, <1>9 DEF Project!Next

LEMMA PgPromises ==
    ASSUME PgInv
    PROVE  Project!TypeOK /\ Project!ProjectIsRight /\ Project!ReadyIsNoticed
<1>1. Project!TypeOK
  BY DEF Project!TypeOK, Project!States, Project!None, Project!LoadKinds, PgInv, PgTypes, PgServerType, PgRouteType,
         PgHeldType, PgBarType, PgHookType, PgPastType, PgListings, PgStates, PgLoadsT, PgLoopsT, PgSomePlan
<1>2. Project!ProjectIsRight
  <2>1. plans \in PgListings /\ project \in {here, "none"} /\ Project!DeletesItsTarget
    BY DEF PgInv, PgTypes, PgHeldType, PgBarType
  <2>2. Project!PageShowsProject
    BY <2>1, PgKnown DEF Project!PageShowsProject, Project!None, PgInv, PgOwned
  <2>3. Project!SpinnersEnd
    BY DEF Project!SpinnersEnd, PgInv, PgSpinners
  <2> QED
    BY <2>1, <2>2, <2>3 DEF Project!ProjectIsRight
<1>3. Project!ReadyIsNoticed
  <2>1. polled # "none" => (pollTold \/ \E l \in loops : l.plan = polled)
    BY DEF PgInv, PgNoticed
  <2>2. polled # "none" /\ report = "ready" /\ owner[polled] = here /\ status[polled] # "no" =>
           upsets > 0 \/ \E l \in loads : l.for = here /\ (l.at # "got" \/ l.snap[polled] = "ready")
    BY DEF PgInv, PgNoticed, PgTells
  <2> QED
    BY <2>1, <2>2 DEF Project!ReadyIsNoticed, Project!None
<1> QED
  BY <1>1, <1>2, <1>3

-----------------------------------------------------------------------------
(* Each behaviour is of one page, and keeps that page's invariant.         *)

PagesInv ==
    /\ page \in {"project", "templates", "team", "billing", "projects", "takeoff"}
    /\ page = "project" => PgInv
    /\ page = "templates" => LibInv
    /\ page = "team" => TeamInv
    /\ page = "billing" => SeatInv
    /\ page = "projects" => PlInv
    /\ page = "takeoff" => AiInv

LEMMA PagesStart == PagesInit => PagesInv
BY PgStart, LibStart, TeamStart, SeatStart, PlStart, AiStart DEF PagesInit, PagesInv

LEMMA PagesStep == PagesInv /\ [PagesNext]_pages => PagesInv'
<1> SUFFICES ASSUME PagesInv, [PagesNext]_pages PROVE PagesInv'
  OBVIOUS
<1>1. CASE page = "project" /\ Project!Next /\ UNCHANGED <<page, rest, parts>>
  BY <1>1, PgStep DEF PagesInv
<1>2. CASE page = "templates" /\ Library!Next /\ UNCHANGED <<page, projectPage, team, billing, parts>>
  BY <1>2, LibStep DEF PagesInv
<1>3. CASE page = "team" /\ Team!Next /\ UNCHANGED <<page, projectPage, library, billing, parts>>
  BY <1>3, TeamStep DEF PagesInv
<1>4. CASE page = "billing" /\ Billing!Next /\ UNCHANGED <<page, projectPage, library, team, parts>>
  BY <1>4, SeatStep DEF PagesInv
<1>5. CASE page = "projects" /\ List!Next /\ UNCHANGED <<page, projectPage, rest, button>>
  BY <1>5, PlStep DEF PagesInv
<1>6. CASE page = "takeoff" /\ Button!Next /\ UNCHANGED <<page, projectPage, rest, projectList>>
  BY <1>6, AiStep DEF PagesInv
<1>7. CASE UNCHANGED pages
  <2>1. page' = page /\ UNCHANGED <<projectPage, rest, parts, ops, upsets>>
    BY <1>7 DEF pages
  <2>2. UNCHANGED Project!vars
    BY <2>1 DEF projectPage, Project!vars, Project!server, Project!route, Project!held, Project!topBar, Project!hook
  <2>3. UNCHANGED Library!vars
    BY <2>1 DEF rest, library, Library!vars, Library!library, Library!dialog, Library!removal
  <2>4. UNCHANGED Team!vars
    BY <2>1 DEF rest, team, Team!vars, Team!server, Team!lists, Team!form, Team!past
  <2>5. UNCHANGED Billing!vars
    BY <2>1 DEF rest, billing, Billing!vars, Billing!reads, Billing!dialog, Billing!buy, Billing!giveBack, Billing!bounds
  <2>6. UNCHANGED List!vars
    BY <2>1 DEF parts, projectList, List!vars, List!server, List!query, List!creation, List!edition, List!deletion
  <2>7. UNCHANGED Button!vars
    BY <2>1 DEF parts, button, Button!vars, Button!hook, Button!button, Button!shown
  <2> QED
    BY <2>1, <2>2, <2>3, <2>4, <2>5, <2>6, <2>7, PgStep, LibStep, TeamStep, SeatStep, PlStep, AiStep DEF PagesInv
<1> QED
  BY <1>1, <1>2, <1>3, <1>4, <1>5, <1>6, <1>7 DEF PagesNext

LEMMA PagesHold == PagesSpec => []PagesInv
BY PagesStart, PagesStep, PTL DEF PagesSpec

\* Every page keeps to its types, whatever the numbers of plans, projects, templates, people
\* and runs: what it holds, the dialogs it shows and the requests it waits for.
THEOREM PagesTypeCorrect == PagesSpec => []PagesTypeOK
<1>1. PagesInv => PagesTypeOK
  BY PgPromises, LibPromises, TeamPromises, SeatPromises, PlPromises, AiPromises
     DEF PagesInv, PagesTypeOK
<1> QED
  BY <1>1, PagesHold, PTL

\* The page of a project shows the plans of no other, whatever loadAll calls answer late; its
\* spinners wait for a read, it deletes the plan it asked about, and a plan that the polls
\* report ready is read again until the list says so (ProjectPage and usePlanProcessing).
\* The list creates, edits and removes the projects that were meant and follows the server
\* (useProjects and its dialogs); the button of the AI runs is about the plan on the screen,
\* and is pressed once at a time (useAiRun and AutoTakeoffButton).
THEOREM ProjectsRight == PagesSpec => []ProjectsAreRight
<1>1. PagesInv => ProjectsAreRight
  BY PgPromises, PlPromises, AiPromises DEF PagesInv, ProjectsAreRight
<1> QED
  BY <1>1, PagesHold, PTL

\* The template library saves a template where it was read, and its list follows the server.
THEOREM TemplatesRight == PagesSpec => []TemplatesAreRight
<1>1. PagesInv => TemplatesAreRight
  BY LibPromises DEF PagesInv, TemplatesAreRight
<1> QED
  BY <1>1, PagesHold, PTL

\* The team's page shows the organization as it is and does to a member what was chosen; the
\* billing page estimates the quantity that is typed and buys it once.
THEOREM SettingsRight == PagesSpec => []SettingsAreRight
<1>1. PagesInv => SettingsAreRight
  BY TeamPromises, SeatPromises DEF PagesInv, SettingsAreRight
<1> QED
  BY <1>1, PagesHold, PTL
=============================================================================
