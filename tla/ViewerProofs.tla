---------------------------- MODULE ViewerProofs ----------------------------
(***************************************************************************)
(* Proofs about the canvas, the drawing tools and the sheet strip of       *)
(* Viewer for any sheets, conditions, spots, names and bounds.             *)
(***************************************************************************)
EXTENDS Viewer, FiniteSetTheorems, TLAPS

-----------------------------------------------------------------------------
(* The drawing tools.  A draft is of the tool and the sheet on screen, and *)
(* the line that is measured is the calibration's until a dialog opens.    *)

Points == [on : ToolSheets, spot : Spots]
On(pts, s) == \A k \in DOMAIN pts : pts[k].on = s

DraftsInv ==
    /\ line # <<>> => tool = "linear"
    /\ ring # <<>> => tool = "area"
    /\ On(line, sheet) /\ On(ring, sheet)

ScaleInv ==
    /\ frames \/ step = "input" => Len(measured) = 2
    /\ ~frames /\ step # "input" => measured = <<>>
    /\ ~hurried => /\ step # "idle" \/ frames => tool = "scale" /\ canEdit
                   /\ step = "input" \/ frames => measured = scaleLine
    /\ ~strayed => /\ On(scaleLine, sheet) /\ On(measured, sheet)
                   /\ saving # Tools!Idle => saving.line # <<>> /\ On(saving.line, saving.sheet)

ToolsInv ==
    /\ Tools!TypeOK /\ DraftsInv /\ ScaleInv
    /\ Tools!MeasurementsAreWhole /\ Tools!DotsAreOnTheirWay

\* The types, apart for what a tool, a draft, a request and a calibration change.
Posted == [kind : Tools!Takeoffs, sheet : ToolSheets, condition : Conditions, from : SUBSET ToolSheets, size : Nat]
FlowType ==
    /\ tool \in Tools!Tools /\ step \in {"idle", "intro", "picking", "input"}
    /\ scaleLine \in Seq(Points) /\ Len(scaleLine) <= 2
    /\ measured \in Seq(Points) /\ Len(measured) <= 2
    /\ frames \in BOOLEAN /\ strayed \in BOOLEAN /\ hurried \in BOOLEAN
DraftType ==
    /\ line \in Seq(Points) /\ Len(line) <= MaxPoints
    /\ ring \in Seq(Points) /\ Len(ring) <= MaxPoints
    /\ dots \subseteq Slots
PostType == posts \in [Slots -> Posted \cup {Tools!Idle}]
SavingType ==
    saving = Tools!Idle \/ /\ saving.line \in Seq(Points) /\ Len(saving.line) <= 2
                           /\ saving \in [kind : {"scale"}, sheet : ToolSheets, line : {saving.line}]
ToolsTypes ==
    /\ sheet \in ToolSheets /\ condition \in Conditions \cup {"none"}
    /\ canEdit \in BOOLEAN /\ scaled \subseteq ToolSheets
    /\ FlowType /\ DraftType /\ PostType /\ SavingType

LEMMA SeqOfFacts ==
    ASSUME NEW T, NEW n \in Nat, NEW s
    PROVE  s \in Tools!SeqOf(T, n) <=> s \in Seq(T) /\ Len(s) <= n
<1>1. ASSUME s \in Tools!SeqOf(T, n) PROVE s \in Seq(T) /\ Len(s) <= n
  BY <1>1 DEF Tools!SeqOf
<1>2. ASSUME s \in Seq(T), Len(s) <= n PROVE s \in Tools!SeqOf(T, n)
  <2>1. Len(s) \in 0..n
    BY <1>2
  <2>2. s \in [1..Len(s) -> T]
    BY <1>2
  <2>3. \E m \in 0..n : s \in [1..m -> T]
    BY <2>1, <2>2, Zenon
  <2> QED
    BY <2>3, Zenon DEF Tools!SeqOf
<1> QED
  BY <1>1, <1>2

LEMMA ToolsTypesFacts == Tools!TypeOK <=> ToolsTypes
<1>0. Points = Tools!Points /\ 2 \in Nat /\ MaxPoints \in Nat /\ Tools!None = "none"
  BY ViewerAssumption DEF Points, Tools!Points, Tools!None
<1>1. \A s : (s \in Tools!SeqOf(Points, MaxPoints) <=> s \in Seq(Points) /\ Len(s) <= MaxPoints)
             /\ (s \in Tools!SeqOf(Points, 2) <=> s \in Seq(Points) /\ Len(s) <= 2)
  BY <1>0, SeqOfFacts
<1>2. SavingType <=> saving = Tools!Idle \/ saving \in [kind : {"scale"}, sheet : ToolSheets, line : Tools!SeqOf(Points, 2)]
  <2>1. saving \in [kind : {"scale"}, sheet : ToolSheets, line : Tools!SeqOf(Points, 2)] =>
           saving.line \in Tools!SeqOf(Points, 2) /\ saving \in [kind : {"scale"}, sheet : ToolSheets, line : {saving.line}]
    OBVIOUS
  <2>2. saving.line \in Tools!SeqOf(Points, 2) /\ saving \in [kind : {"scale"}, sheet : ToolSheets, line : {saving.line}] =>
           saving \in [kind : {"scale"}, sheet : ToolSheets, line : Tools!SeqOf(Points, 2)]
    OBVIOUS
  <2>3. saving.line \in Tools!SeqOf(Points, 2) <=> saving.line \in Seq(Points) /\ Len(saving.line) <= 2
    BY <1>1
  <2> QED
    BY <2>1, <2>2, <2>3 DEF SavingType
<1>3. PostType <=> posts \in [Slots -> [kind : Tools!Takeoffs, sheet : ToolSheets, condition : Conditions,
                                        from : SUBSET ToolSheets, size : Nat] \cup {Tools!Idle}]
  BY DEF PostType, Posted
<1> QED
  BY <1>0, <1>1, <1>2, <1>3, Zenon DEF Tools!TypeOK, ToolsTypes, FlowType, DraftType

LEMMA SeqFacts ==
    ASSUME NEW T, NEW d \in Seq(T), d # <<>>
    PROVE  /\ Tools!Last(d) = d[Len(d)] /\ Tools!Last(d) \in T /\ Len(d) \in Nat \ {0}
           /\ Tools!Front(d) \in Seq(T) /\ Len(Tools!Front(d)) = Len(d) - 1
           /\ DOMAIN Tools!Front(d) \subseteq DOMAIN d
           /\ \A k \in DOMAIN Tools!Front(d) : Tools!Front(d)[k] = d[k]
<1>1. Len(d) \in Nat \ {0} /\ DOMAIN d = 1..Len(d) /\ \A k \in 1..Len(d) : d[k] \in T
  OBVIOUS
<1>2. Tools!Front(d) = [k \in 1..(Len(d) - 1) |-> d[k]]
  BY DEF Tools!Front
<1> QED
  BY <1>1, <1>2 DEF Tools!Last

LEMMA ExtendedFacts ==
    ASSUME NEW d \in Seq(Points), NEW p \in Points
    PROVE  /\ Tools!Extended(d, p) \in Seq(Points)
           /\ Len(Tools!Extended(d, p)) \in {Len(d), Len(d) + 1}
           /\ \A s : On(d, s) /\ p.on = s => On(Tools!Extended(d, p), s)
<1>1. Tools!Extended(d, p) = d \/ Tools!Extended(d, p) = Append(d, p)
  BY DEF Tools!Extended
<1>2. Append(d, p) \in Seq(Points) /\ Len(Append(d, p)) = Len(d) + 1
  OBVIOUS
<1>3. \A k \in DOMAIN Append(d, p) : Append(d, p)[k] = p \/ (k \in DOMAIN d /\ Append(d, p)[k] = d[k])
  OBVIOUS
<1>4. \A s : On(d, s) /\ p.on = s => On(Append(d, p), s)
  BY <1>3 DEF On
<1> QED
  BY <1>1, <1>2, <1>4

LEMMA FrontOn ==
    ASSUME NEW d \in Seq(Points), d # <<>>, NEW s, On(d, s)
    PROVE  On(Tools!Front(d), s)
<1>1. \A k \in DOMAIN Tools!Front(d) : k \in DOMAIN d /\ Tools!Front(d)[k] = d[k]
  BY SeqFacts
<1> QED
  BY <1>1 DEF On

LEMMA ScaleFlowType ==
    ASSUME FlowType, NEW t \in Tools!Tools, NEW may, Tools!ScaleFlow(t, may)
    PROVE  FlowType'
<1>1. tool' \in Tools!Tools /\ step' \in {"idle", "intro", "picking", "input"}
  BY DEF Tools!ScaleFlow, Tools!Tools
<1>2. scaleLine' \in Seq(Points) /\ Len(scaleLine') <= 2 /\ measured' \in Seq(Points) /\ Len(measured') <= 2
  BY DEF Tools!ScaleFlow, FlowType
<1>3. frames' \in BOOLEAN /\ strayed' \in BOOLEAN /\ hurried' \in BOOLEAN
  BY DEF Tools!ScaleFlow, FlowType
<1> QED
  BY <1>1, <1>2, <1>3 DEF FlowType

LEMMA ClearedType ==
    ASSUME Tools!Cleared
    PROVE  DraftType'
BY ViewerAssumption DEF Tools!Cleared, DraftType

LEMMA SetToolType ==
    ASSUME FlowType, DraftType, NEW t \in Tools!Tools, Tools!SetTool(t)
    PROVE  FlowType' /\ DraftType'
<1>1. CASE t = tool
  <2>1. UNCHANGED <<tool, step, scaleLine, measured, frames, strayed, hurried, line, ring, dots>>
    BY <1>1 DEF Tools!SetTool, Tools!flow, Tools!drafts
  <2> QED
    BY <2>1 DEF FlowType, DraftType
<1>2. CASE t # tool
  BY <1>2, ScaleFlowType, ClearedType DEF Tools!SetTool
<1> QED
  BY <1>1, <1>2

LEMMA FlowStays ==
    ASSUME FlowType, UNCHANGED Tools!flow
    PROVE  FlowType'
BY DEF FlowType, Tools!flow

LEMMA PostsType ==
    ASSUME ToolsTypes, NEW c \in Slots, NEW kind \in Tools!Takeoffs, NEW pts \in Seq(Points), Tools!Posts(c, kind, pts)
    PROVE  PostType' /\ UNCHANGED <<sheet, condition, canEdit, scaled, saving>>
<1> DEFINE r == [kind |-> kind, sheet |-> sheet, condition |-> condition, from |-> {p.on : p \in Tools!ToSet(pts)}, size |-> Len(pts)]
<1>1. condition \in Conditions /\ sheet \in ToolSheets /\ Len(pts) \in Nat
  BY DEF ToolsTypes, Tools!Posts, Tools!None
<1>2. {p.on : p \in Tools!ToSet(pts)} \in SUBSET ToolSheets
  <2>1. Tools!ToSet(pts) \subseteq Points
    BY DEF Tools!ToSet
  <2>2. \A p \in Points : p.on \in ToolSheets
    BY DEF Points
  <2> QED
    BY <2>1, <2>2
<1>3. r \in Posted
  BY <1>1, <1>2 DEF Posted
<1>4. posts' = [posts EXCEPT ![c] = r]
  BY DEF Tools!Posts
<1> HIDE DEF r
<1>5. PostType'
  BY <1>3, <1>4 DEF PostType, ToolsTypes
<1> QED
  BY <1>5 DEF Tools!Posts

LEMMA AnsweredType ==
    ASSUME ToolsTypes, NEW c \in Slots, Tools!Answered(c)
    PROVE  PostType' /\ UNCHANGED <<sheet, condition, canEdit, scaled, saving>>
BY DEF Tools!Answered, ToolsTypes, PostType

LEMMA LeaveType ==
    ASSUME FlowType, DraftType, Tools!LeaveScale
    PROVE  FlowType' /\ DraftType'
<1>1. CASE tool # "select"
  BY <1>1, SetToolType DEF Tools!LeaveScale, Tools!Tools
<1>2. CASE tool = "select"
  BY <1>2 DEF Tools!LeaveScale, Tools!drafts, FlowType, DraftType
<1> QED
  BY <1>1, <1>2

LEMMA ToolsTypeStep ==
    ASSUME ToolsTypes, Tools!Next
    PROVE  ToolsTypes'
<1>0. FlowType /\ DraftType /\ PostType /\ SavingType /\ sheet \in ToolSheets /\ canEdit \in BOOLEAN
      /\ line \in Seq(Points) /\ ring \in Seq(Points) /\ condition \in Conditions \cup {"none"} /\ scaled \subseteq ToolSheets
  BY DEF ToolsTypes, DraftType
<1>1. ASSUME UNCHANGED <<sheet, condition, canEdit, scaled, posts, saving>>, FlowType', DraftType' PROVE ToolsTypes'
  BY <1>0, <1>1 DEF ToolsTypes, PostType, SavingType
<1>2. ASSUME UNCHANGED <<sheet, condition, canEdit, scaled, saving>>, PostType', FlowType', DraftType' PROVE ToolsTypes'
  BY <1>0, <1>2 DEF ToolsTypes, SavingType
<1>3. ASSUME UNCHANGED <<posts, saving>>, sheet' \in ToolSheets, condition' \in Conditions \cup {"none"},
             canEdit' \in BOOLEAN, scaled' = scaled, FlowType', DraftType' PROVE ToolsTypes'
  BY <1>0, <1>3 DEF ToolsTypes, PostType, SavingType
<1>4. ASSUME NEW t \in Tools!Tools, Tools!PickTool(t) PROVE ToolsTypes'
  BY <1>0, <1>1, <1>4, SetToolType DEF Tools!PickTool, Tools!Frame
<1>5. ASSUME NEW c \in Conditions, Tools!PickCondition(c) PROVE ToolsTypes'
  <2>1. TypeOf[c] \in Tools!Tools
    BY ViewerAssumption DEF Tools!Tools, Tools!Takeoffs
  <2>2. CASE tool \in Tools!Takeoffs /\ TypeOf[c] # tool
    <3>1. Tools!SetTool(TypeOf[c]) /\ UNCHANGED <<sheet, canEdit, scaled, posts, saving>> /\ condition' = c
      BY <1>5, <2>2 DEF Tools!PickCondition
    <3> QED
      BY <1>0, <1>3, <2>1, <3>1, SetToolType
  <2>3. CASE ~(tool \in Tools!Takeoffs /\ TypeOf[c] # tool)
    <3>1. UNCHANGED <<sheet, canEdit, scaled, posts, saving, line, ring>> /\ condition' = c /\ dots' = {} /\ UNCHANGED Tools!flow
      BY <1>5, <2>3 DEF Tools!PickCondition
    <3>2. FlowType' /\ DraftType'
      BY <1>0, <3>1, FlowStays DEF DraftType
    <3> QED
      BY <1>0, <1>3, <3>1, <3>2
  <2> QED
    BY <2>2, <2>3
<1>6. ASSUME NEW c \in Conditions \cup {Tools!None}, Tools!ConditionSet(c) PROVE ToolsTypes'
  <2>1. UNCHANGED <<sheet, canEdit, scaled, posts, saving, line, ring>> /\ condition' \in Conditions \cup {"none"} /\ dots' = {} /\ UNCHANGED Tools!flow
    BY <1>6 DEF Tools!ConditionSet, Tools!None
  <2>2. FlowType' /\ DraftType'
    BY <1>0, <2>1, FlowStays DEF DraftType
  <2> QED
    BY <1>0, <1>3, <2>1, <2>2
<1>7. ASSUME NEW s \in ToolSheets, Tools!SelectSheet(s) PROVE ToolsTypes'
  <2>1. FlowType'
    BY <1>0, <1>7 DEF Tools!SelectSheet, FlowType
  <2>2. DraftType'
    BY <1>7, ClearedType DEF Tools!SelectSheet
  <2> QED
    BY <1>0, <1>3, <1>7, <2>1, <2>2 DEF Tools!SelectSheet
<1>8. CASE Tools!PermissionChanges
  <2>1. UNCHANGED <<sheet, condition, scaled, posts, saving>> /\ canEdit' \in BOOLEAN
    BY <1>8 DEF Tools!PermissionChanges
  <2>2. CASE tool = "scale"
    BY <1>0, <1>3, <1>8, <2>1, <2>2, ScaleFlowType, ClearedType DEF Tools!PermissionChanges, FlowType
  <2>3. CASE tool # "scale"
    <3>1. UNCHANGED Tools!flow /\ UNCHANGED <<line, ring, dots>>
      BY <1>8, <2>3 DEF Tools!PermissionChanges, Tools!drafts
    <3> QED
      BY <1>0, <1>3, <2>1, <3>1, FlowStays DEF DraftType
  <2> QED
    BY <2>2, <2>3
<1>9. ASSUME NEW spot \in Spots, Tools!Click([on |-> sheet, spot |-> spot]) PROVE ToolsTypes'
  <2> DEFINE p == [on |-> sheet, spot |-> spot]
  <2>1. p \in Points
    BY <1>0 DEF Points
  <2> HIDE DEF p
  <2>2. CASE Tools!ClickLine(p)
    <3>1. line' = Tools!Extended(line, p) /\ Len(line) < MaxPoints /\ UNCHANGED <<ring, dots>> /\ UNCHANGED Tools!flow /\ Tools!Frame
      BY <2>2 DEF Tools!ClickLine, Tools!Drawn
    <3>2. DraftType'
      BY <1>0, <2>1, <3>1, ExtendedFacts, ViewerAssumption DEF DraftType
    <3> QED
      BY <1>0, <1>1, <3>1, <3>2, FlowStays DEF Tools!Frame
  <2>3. CASE Tools!ClickArea(p)
    <3>1. ring' = Tools!Extended(ring, p) /\ Len(ring) < MaxPoints /\ UNCHANGED <<line, dots>> /\ UNCHANGED Tools!flow /\ Tools!Frame
      BY <2>3 DEF Tools!ClickArea, Tools!Drawn
    <3>2. DraftType'
      BY <1>0, <2>1, <3>1, ExtendedFacts, ViewerAssumption DEF DraftType
    <3> QED
      BY <1>0, <1>1, <3>1, <3>2, FlowStays DEF Tools!Frame
  <2>4. CASE Tools!ClickScale(p)
    <3>1. UNCHANGED <<tool, line, ring, dots, step, strayed>> /\ Tools!Frame /\ hurried' = (hurried \/ frames)
      BY <2>4 DEF Tools!ClickScale, Tools!drafts
    <3>2. \/ Len(scaleLine) = 1 /\ scaleLine' = Append(scaleLine, p) /\ measured' = scaleLine' /\ frames' = TRUE
          \/ scaleLine' = <<p>> /\ UNCHANGED <<measured, frames>>
      BY <2>4 DEF Tools!ClickScale
    <3>3. Append(scaleLine, p) \in Seq(Points) /\ Len(Append(scaleLine, p)) = Len(scaleLine) + 1
          /\ <<p>> \in Seq(Points) /\ Len(<<p>>) = 1
      BY <1>0, <2>1 DEF FlowType
    <3>4. scaleLine' \in Seq(Points) /\ Len(scaleLine') <= 2 /\ measured' \in Seq(Points) /\ Len(measured') <= 2
          /\ frames' \in BOOLEAN
      <4>1. CASE scaleLine' = <<p>> /\ UNCHANGED <<measured, frames>>
        BY <1>0, <3>3, <4>1 DEF FlowType
      <4>2. CASE Len(scaleLine) = 1 /\ scaleLine' = Append(scaleLine, p) /\ measured' = scaleLine' /\ frames' = TRUE
        <5>1. Len(scaleLine') = 2 /\ scaleLine' \in Seq(Points)
          BY <3>3, <4>2
        <5> QED
          BY <4>2, <5>1
      <4> QED
        BY <3>2, <4>1, <4>2
    <3>5. hurried' \in BOOLEAN
      BY <1>0, <3>1 DEF FlowType
    <3>6. FlowType' /\ DraftType'
      BY <1>0, <3>1, <3>4, <3>5 DEF FlowType, DraftType
    <3> QED
      BY <1>1, <3>1, <3>6 DEF Tools!Frame
  <2>5. ASSUME NEW c \in Slots, Tools!PlaceCount(c, p) PROVE ToolsTypes'
    <3>1. Tools!Posts(c, "count", <<p>>) /\ dots' = dots \cup {c} /\ UNCHANGED Tools!flow /\ UNCHANGED <<line, ring>>
      BY <2>5 DEF Tools!PlaceCount, Tools!Drawn
    <3>2. "count" \in Tools!Takeoffs /\ <<p>> \in Seq(Points)
      BY <2>1 DEF Tools!Takeoffs
    <3>3. PostType' /\ UNCHANGED <<sheet, condition, canEdit, scaled, saving>>
      BY <3>1, <3>2, PostsType
    <3>4. DraftType' /\ FlowType'
      BY <1>0, <3>1, FlowStays DEF DraftType
    <3> QED
      BY <1>2, <3>3, <3>4
  <2> QED
    BY <1>9, <2>2, <2>3, <2>4, <2>5 DEF Tools!Click, p
<1>10. CASE Tools!DropLine
  <2>1. UNCHANGED Tools!flow /\ Tools!Frame /\ line' = <<>> /\ UNCHANGED <<ring, dots>>
    BY <1>10 DEF Tools!DropLine, Tools!Drawn
  <2>2. DraftType' /\ FlowType'
    BY <1>0, <2>1, FlowStays, ViewerAssumption DEF DraftType
  <2> QED
    BY <1>1, <2>1, <2>2 DEF Tools!Frame
<1>11. CASE Tools!TakeBack
  <2>1. UNCHANGED Tools!flow /\ Tools!Frame /\ UNCHANGED dots
        /\ \/ ring # <<>> /\ ring' = Tools!Front(ring) /\ UNCHANGED line
           \/ line # <<>> /\ line' = Tools!Front(line) /\ UNCHANGED ring
    BY <1>11 DEF Tools!TakeBack, Tools!Drawn
  <2>2. \A d \in {line, ring} : d # <<>> => Tools!Front(d) \in Seq(Points) /\ Len(Tools!Front(d)) = Len(d) - 1 /\ Len(d) \in Nat
    BY <1>0, SeqFacts
  <2>3. DraftType' /\ FlowType'
    BY <1>0, <2>1, <2>2, FlowStays, ViewerAssumption DEF DraftType
  <2> QED
    BY <1>1, <2>1, <2>3 DEF Tools!Frame
<1>12. CASE Tools!Escape
  <2>1. Tools!Frame
    BY <1>12 DEF Tools!Escape
  <2>2. CASE Tools!SetTool("select")
    BY <1>0, <1>1, <2>1, <2>2, SetToolType DEF Tools!Frame, Tools!Tools
  <2>3. CASE ~Tools!SetTool("select")
    <3>1. UNCHANGED Tools!flow /\ UNCHANGED dots /\ line' \in {line, <<>>} /\ ring' \in {ring, <<>>}
      BY <1>12, <2>3 DEF Tools!Escape, Tools!Drawn
    <3>2. \A d \in {line, ring, <<>>} : d \in Seq(Points) /\ Len(d) <= MaxPoints
      <4>1. <<>> \in Seq(Points) /\ Len(<<>>) = 0 /\ 0 <= MaxPoints
        BY ViewerAssumption
      <4> QED
        BY <1>0, <4>1 DEF DraftType
    <3>3. DraftType'
      BY <1>0, <3>1, <3>2 DEF DraftType
    <3>4. FlowType'
      BY <1>0, <3>1, FlowStays
    <3> QED
      BY <1>1, <2>1, <3>3, <3>4 DEF Tools!Frame
  <2> QED
    BY <2>2, <2>3
<1>13. ASSUME NEW c \in Slots, Tools!FinishLine(c) \/ Tools!FinishRing(c) PROVE ToolsTypes'
  <2>1. \E kind \in Tools!Takeoffs, pts \in Seq(Points) : Tools!Posts(c, kind, pts)
    BY <1>0, <1>13 DEF Tools!FinishLine, Tools!FinishRing, Tools!Takeoffs
  <2>2. UNCHANGED Tools!flow /\ UNCHANGED <<line, ring, dots>>
    BY <1>13 DEF Tools!FinishLine, Tools!FinishRing, Tools!Drawn, Tools!drafts
  <2>3. DraftType' /\ FlowType'
    BY <1>0, <2>2, FlowStays DEF DraftType
  <2> QED
    BY <1>2, <2>1, <2>3, PostsType
<1>14. ASSUME NEW c \in Slots, Tools!DrawingSaved(c) PROVE ToolsTypes'
  <2>1. PostType' /\ UNCHANGED <<sheet, condition, canEdit, scaled, saving>>
    BY <1>14, AnsweredType DEF Tools!DrawingSaved
  <2>2. CASE tool # "select"
    BY <1>0, <1>2, <1>14, <2>1, <2>2, SetToolType DEF Tools!DrawingSaved, Tools!Tools
  <2>3. CASE tool = "select"
    <3>1. UNCHANGED Tools!flow /\ UNCHANGED dots /\ line' \in {line, <<>>} /\ ring' \in {ring, <<>>}
      BY <1>14, <2>3 DEF Tools!DrawingSaved, Tools!Drawn
    <3>2. \A d \in {line, ring, <<>>} : d \in Seq(Points) /\ Len(d) <= MaxPoints
      <4>1. <<>> \in Seq(Points) /\ Len(<<>>) = 0 /\ 0 <= MaxPoints
        BY ViewerAssumption
      <4> QED
        BY <1>0, <4>1 DEF DraftType
    <3>3. DraftType'
      BY <1>0, <3>1, <3>2 DEF DraftType
    <3>4. FlowType'
      BY <1>0, <3>1, FlowStays
    <3> QED
      BY <1>2, <2>1, <3>3, <3>4
  <2> QED
    BY <2>2, <2>3
<1>15. ASSUME NEW c \in Slots, Tools!DrawingRefused(c) \/ Tools!CountAnswered(c) PROVE ToolsTypes'
  <2>1. PostType' /\ UNCHANGED <<sheet, condition, canEdit, scaled, saving>>
    BY <1>15, AnsweredType DEF Tools!DrawingRefused, Tools!CountAnswered
  <2>2. UNCHANGED Tools!flow /\ UNCHANGED <<line, ring>> /\ dots' \subseteq dots
    BY <1>15 DEF Tools!DrawingRefused, Tools!CountAnswered, Tools!Drawn, Tools!drafts
  <2>3. DraftType' /\ FlowType'
    BY <1>0, <2>2, FlowStays DEF DraftType
  <2> QED
    BY <1>2, <2>1, <2>3
<1>16. CASE Tools!ContinueIntro \/ Tools!FramesOver
  <2>1. Tools!Frame /\ UNCHANGED <<line, ring, dots>> /\ FlowType'
    BY <1>0, <1>16 DEF Tools!ContinueIntro, Tools!FramesOver, Tools!drafts, FlowType
  <2> QED
    BY <1>0, <1>1, <2>1 DEF Tools!Frame, DraftType
<1>17. CASE Tools!CancelScale
  BY <1>0, <1>1, <1>17, LeaveType DEF Tools!CancelScale, Tools!Frame
<1>18. CASE Tools!SubmitScale \/ Tools!ScaleNotSaved
  <2>1. UNCHANGED <<sheet, condition, canEdit, scaled, line, ring, dots, posts>> /\ UNCHANGED Tools!flow
    BY <1>18 DEF Tools!SubmitScale, Tools!ScaleNotSaved, Tools!drafts
  <2>2. SavingType'
    BY <1>0, <1>18 DEF Tools!SubmitScale, Tools!ScaleNotSaved, SavingType, FlowType
  <2> QED
    BY <1>0, <2>1, <2>2, FlowStays DEF ToolsTypes, DraftType, PostType
<1>19. CASE Tools!ScaleSaved
  <2>1. UNCHANGED <<sheet, condition, canEdit, posts>> /\ saving' = Tools!Idle /\ scaled' \subseteq ToolSheets
    BY <1>0, <1>19 DEF Tools!ScaleSaved, SavingType
  <2>2. FlowType' /\ DraftType'
    BY <1>0, <1>19, LeaveType DEF Tools!ScaleSaved
  <2>3. SavingType'
    BY <2>1 DEF SavingType, Tools!Idle
  <2> QED
    BY <1>0, <2>1, <2>2, <2>3 DEF ToolsTypes, PostType
<1> QED
  BY <1>4, <1>5, <1>6, <1>7, <1>8, <1>9, <1>10, <1>11, <1>12, <1>13, <1>14, <1>15, <1>16, <1>17, <1>18, <1>19 DEF Tools!Next


\* A draft that keeps its points, or loses them all, keeps its tool and its sheet.
LEMMA DraftsStay ==
    ASSUME DraftsInv, line' \in {line, <<>>}, ring' \in {ring, <<>>}, UNCHANGED <<tool, sheet>>
    PROVE  DraftsInv'
<1>1. On(line, sheet)' /\ On(ring, sheet)'
  BY DEF DraftsInv, On
<1> QED
  BY <1>1 DEF DraftsInv

LEMMA DraftsCleared ==
    ASSUME Tools!Cleared
    PROVE  DraftsInv'
BY DEF Tools!Cleared, DraftsInv, On

LEMMA SetToolDrafts ==
    ASSUME DraftsInv, NEW t, Tools!SetTool(t), UNCHANGED sheet
    PROVE  DraftsInv'
<1>1. CASE t = tool
  BY <1>1, DraftsStay DEF Tools!SetTool, Tools!flow, Tools!drafts
<1>2. CASE t # tool
  BY <1>2, DraftsCleared DEF Tools!SetTool
<1> QED
  BY <1>1, <1>2

LEMMA DraftsStep ==
    ASSUME ToolsTypes, DraftsInv, Tools!Next
    PROVE  DraftsInv'
<1>0. line \in Seq(Points) /\ ring \in Seq(Points) /\ sheet \in ToolSheets
  BY DEF ToolsTypes, DraftType
<1>1. ASSUME NEW t \in Tools!Tools, Tools!PickTool(t) PROVE DraftsInv'
  BY <1>1, SetToolDrafts DEF Tools!PickTool, Tools!Frame
<1>2. ASSUME NEW c \in Conditions, Tools!PickCondition(c) PROVE DraftsInv'
  <2>1. UNCHANGED sheet
    BY <1>2 DEF Tools!PickCondition
  <2>2. CASE tool \in Tools!Takeoffs /\ TypeOf[c] # tool
    BY <1>2, <2>1, <2>2, SetToolDrafts DEF Tools!PickCondition
  <2>3. CASE ~(tool \in Tools!Takeoffs /\ TypeOf[c] # tool)
    BY <1>2, <2>1, <2>3, DraftsStay DEF Tools!PickCondition, Tools!flow
  <2> QED
    BY <2>2, <2>3
<1>3. ASSUME NEW c \in Conditions \cup {Tools!None}, Tools!ConditionSet(c) PROVE DraftsInv'
  BY <1>3, DraftsStay DEF Tools!ConditionSet, Tools!flow
<1>4. ASSUME NEW s \in ToolSheets, Tools!SelectSheet(s) PROVE DraftsInv'
  BY <1>4, DraftsCleared DEF Tools!SelectSheet
<1>5. CASE Tools!PermissionChanges
  <2>1. CASE tool = "scale"
    BY <1>5, <2>1, DraftsCleared DEF Tools!PermissionChanges
  <2>2. CASE tool # "scale"
    BY <1>5, <2>2, DraftsStay DEF Tools!PermissionChanges, Tools!drafts, Tools!flow
  <2> QED
    BY <2>1, <2>2
<1>6. ASSUME NEW spot \in Spots, Tools!Click([on |-> sheet, spot |-> spot]) PROVE DraftsInv'
  <2> DEFINE p == [on |-> sheet, spot |-> spot]
  <2>1. p \in Points /\ p.on = sheet
    BY <1>0 DEF Points
  <2> HIDE DEF p
  <2>2. CASE Tools!ClickLine(p)
    <3>1. tool = "linear" /\ line' = Tools!Extended(line, p) /\ UNCHANGED <<ring, tool, sheet>>
      BY <2>2 DEF Tools!ClickLine, Tools!Drawn, Tools!flow, Tools!Frame, Tools!Enabled
    <3>2. On(line, sheet)'
      BY <1>0, <2>1, <3>1, ExtendedFacts DEF DraftsInv
    <3> QED
      BY <3>1, <3>2 DEF DraftsInv
  <2>3. CASE Tools!ClickArea(p)
    <3>1. tool = "area" /\ ring' = Tools!Extended(ring, p) /\ UNCHANGED <<line, tool, sheet>>
      BY <2>3 DEF Tools!ClickArea, Tools!Drawn, Tools!flow, Tools!Frame, Tools!Enabled
    <3>2. On(ring, sheet)'
      BY <1>0, <2>1, <3>1, ExtendedFacts DEF DraftsInv
    <3> QED
      BY <3>1, <3>2 DEF DraftsInv
  <2>4. CASE Tools!ClickScale(p)
    BY <2>4, DraftsStay DEF Tools!ClickScale, Tools!Frame, Tools!drafts
  <2>5. ASSUME NEW c \in Slots, Tools!PlaceCount(c, p) PROVE DraftsInv'
    BY <2>5, DraftsStay DEF Tools!PlaceCount, Tools!Drawn, Tools!flow, Tools!Posts
  <2> QED
    BY <1>6, <2>2, <2>3, <2>4, <2>5 DEF Tools!Click, p
<1>7. CASE Tools!DropLine
  BY <1>7, DraftsStay DEF Tools!DropLine, Tools!Frame, Tools!Drawn, Tools!flow
<1>8. CASE Tools!TakeBack
  <2>1. UNCHANGED <<tool, sheet>>
        /\ \/ ring # <<>> /\ ring' = Tools!Front(ring) /\ UNCHANGED line
           \/ line # <<>> /\ line' = Tools!Front(line) /\ UNCHANGED ring
    BY <1>8 DEF Tools!TakeBack, Tools!Drawn, Tools!flow, Tools!Frame
  <2>2. \A d \in {line, ring} : d # <<>> => On(Tools!Front(d), sheet)
    BY <1>0, FrontOn DEF DraftsInv
  <2>3. On(line, sheet)' /\ On(ring, sheet)'
    BY <2>1, <2>2 DEF DraftsInv, On
  <2> QED
    BY <2>1, <2>3 DEF DraftsInv
<1>9. CASE Tools!Escape
  <2>1. CASE Tools!SetTool("select")
    BY <1>9, <2>1, SetToolDrafts DEF Tools!Escape, Tools!Frame
  <2>2. CASE ~Tools!SetTool("select")
    BY <1>9, <2>2, DraftsStay DEF Tools!Escape, Tools!Frame, Tools!Drawn, Tools!flow
  <2> QED
    BY <2>1, <2>2
<1>10. ASSUME NEW c \in Slots, Tools!FinishLine(c) \/ Tools!FinishRing(c) \/ Tools!DrawingRefused(c) \/ Tools!CountAnswered(c)
       PROVE  DraftsInv'
  <2>1. UNCHANGED <<line, ring, tool, sheet>>
    BY <1>10 DEF Tools!FinishLine, Tools!FinishRing, Tools!DrawingRefused, Tools!CountAnswered, Tools!Posts, Tools!Answered,
                 Tools!Drawn, Tools!flow, Tools!drafts
  <2> QED
    BY <2>1, DraftsStay
<1>11. ASSUME NEW c \in Slots, Tools!DrawingSaved(c) PROVE DraftsInv'
  <2>1. CASE tool # "select"
    BY <1>11, <2>1, SetToolDrafts DEF Tools!DrawingSaved, Tools!Answered
  <2>2. CASE tool = "select"
    BY <1>11, <2>2, DraftsStay DEF Tools!DrawingSaved, Tools!Answered, Tools!Drawn, Tools!flow
  <2> QED
    BY <2>1, <2>2
<1>12. CASE Tools!CancelScale \/ Tools!ScaleSaved
  <2>1. Tools!LeaveScale /\ UNCHANGED sheet
    BY <1>12 DEF Tools!CancelScale, Tools!ScaleSaved, Tools!Frame
  <2>2. CASE tool # "select"
    BY <2>1, <2>2, SetToolDrafts DEF Tools!LeaveScale
  <2>3. CASE tool = "select"
    BY <2>1, <2>3, DraftsStay DEF Tools!LeaveScale, Tools!drafts
  <2> QED
    BY <2>2, <2>3
<1>13. CASE Tools!ContinueIntro \/ Tools!FramesOver \/ Tools!SubmitScale \/ Tools!ScaleNotSaved
  BY <1>13, DraftsStay DEF Tools!ContinueIntro, Tools!FramesOver, Tools!SubmitScale, Tools!ScaleNotSaved, Tools!Frame, Tools!drafts, Tools!flow
<1> QED
  BY <1>1, <1>2, <1>3, <1>4, <1>5, <1>6, <1>7, <1>8, <1>9, <1>10, <1>11, <1>12, <1>13 DEF Tools!Next

\* The sheets of points that are all on one sheet.
LEMMA OnOneSheet ==
    ASSUME NEW d \in Seq(Points), d # <<>>, NEW s, On(d, s)
    PROVE  {p.on : p \in Tools!ToSet(d)} = {s}
<1>1. Len(d) \in Nat \ {0} /\ DOMAIN d = 1..Len(d)
  OBVIOUS
<1>2. 1 \in DOMAIN d
  BY <1>1
<1>3. Tools!ToSet(d) = {d[k] : k \in DOMAIN d}
  BY DEF Tools!ToSet
<1>4. d[1] \in Tools!ToSet(d) /\ d[1].on = s
  BY <1>2, <1>3 DEF On
<1>5. \A p \in Tools!ToSet(d) : p.on = s
  BY <1>3 DEF On
<1> QED
  BY <1>4, <1>5

\* What has been sent is whole, and the dots are the counts that are on their way.
PostsInv == Tools!MeasurementsAreWhole /\ Tools!DotsAreOnTheirWay

LEMMA PostsStay ==
    ASSUME PostsInv, UNCHANGED posts, dots' = {} \/ (dots' = dots /\ UNCHANGED <<sheet, condition>>)
    PROVE  PostsInv'
BY DEF PostsInv, Tools!MeasurementsAreWhole, Tools!DotsAreOnTheirWay

LEMMA SetToolDots ==
    ASSUME NEW t, Tools!SetTool(t)
    PROVE  dots' = {} \/ dots' = dots
BY DEF Tools!SetTool, Tools!Cleared, Tools!drafts

LEMMA PostsSent ==
    ASSUME ToolsTypes, PostsInv, NEW c \in Slots, NEW kind \in Tools!Takeoffs, NEW pts \in Seq(Points),
           pts # <<>>, On(pts, sheet), Len(pts) >= IF kind = "area" THEN 3 ELSE IF kind = "linear" THEN 2 ELSE 1,
           Tools!Posts(c, kind, pts), dots' = dots \/ (kind = "count" /\ dots' = dots \cup {c})
    PROVE  PostsInv'
<1> DEFINE r == [kind |-> kind, sheet |-> sheet, condition |-> condition, from |-> {p.on : p \in Tools!ToSet(pts)}, size |-> Len(pts)]
<1>1. {p.on : p \in Tools!ToSet(pts)} = {sheet}
  BY OnOneSheet
<1>2. /\ r.from = {r.sheet} /\ r.kind = kind /\ r.sheet = sheet /\ r.condition = condition /\ r.size = Len(pts)
      /\ r # Tools!Idle
  BY <1>1 DEF Tools!Idle, Tools!None, Tools!Takeoffs
<1>3. posts' = [posts EXCEPT ![c] = r] /\ posts[c] = Tools!Idle /\ UNCHANGED <<sheet, condition>>
  BY DEF Tools!Posts
<1> HIDE DEF r
<1>4. DOMAIN posts = Slots
  BY DEF ToolsTypes, PostType
<1>5. posts'[c] = r /\ \A d \in Slots \ {c} : posts'[d] = posts[d]
  BY <1>3, <1>4
<1>6. c \notin dots
  BY <1>3 DEF PostsInv, Tools!DotsAreOnTheirWay, Tools!Idle
<1>7. dots \subseteq Slots
  BY DEF ToolsTypes, DraftType
<1>8. Tools!MeasurementsAreWhole'
  BY <1>2, <1>5 DEF PostsInv, Tools!MeasurementsAreWhole
<1>9. Tools!DotsAreOnTheirWay'
  BY <1>2, <1>3, <1>5, <1>6, <1>7 DEF PostsInv, Tools!DotsAreOnTheirWay
<1> QED
  BY <1>8, <1>9 DEF PostsInv

LEMMA PostsAnswered ==
    ASSUME ToolsTypes, PostsInv, NEW c \in Slots, Tools!Answered(c),
           dots' \subseteq dots, posts[c].kind = "count" => c \notin dots'
    PROVE  PostsInv'
<1>1. posts' = [posts EXCEPT ![c] = Tools!Idle] /\ UNCHANGED <<sheet, condition>>
  BY DEF Tools!Answered
<1>2. DOMAIN posts = Slots /\ dots \subseteq Slots
  BY DEF ToolsTypes, PostType, DraftType
<1>3. posts'[c] = Tools!Idle /\ \A d \in Slots \ {c} : posts'[d] = posts[d]
  BY <1>1, <1>2
<1>4. c \notin dots'
  BY DEF PostsInv, Tools!DotsAreOnTheirWay
<1> QED
  BY <1>1, <1>2, <1>3, <1>4 DEF PostsInv, Tools!MeasurementsAreWhole, Tools!DotsAreOnTheirWay

LEMMA PostsStep ==
    ASSUME ToolsTypes, DraftsInv, PostsInv, Tools!Next
    PROVE  PostsInv'
<1>0. line \in Seq(Points) /\ ring \in Seq(Points) /\ sheet \in ToolSheets
  BY DEF ToolsTypes, DraftType
<1>1. ASSUME NEW t \in Tools!Tools, Tools!PickTool(t) PROVE PostsInv'
  BY <1>1, SetToolDots, PostsStay DEF Tools!PickTool, Tools!Frame
<1>2. ASSUME NEW c \in Conditions, Tools!PickCondition(c) PROVE PostsInv'
  <2>1. UNCHANGED posts
    BY <1>2 DEF Tools!PickCondition
  <2>2. dots' = {}
    BY <1>2 DEF Tools!PickCondition, Tools!SetTool, Tools!Cleared
  <2> QED
    BY <2>1, <2>2, PostsStay
<1>3. ASSUME NEW c \in Conditions \cup {Tools!None}, Tools!ConditionSet(c) PROVE PostsInv'
  BY <1>3, PostsStay DEF Tools!ConditionSet
<1>4. ASSUME NEW s \in ToolSheets, Tools!SelectSheet(s) PROVE PostsInv'
  BY <1>4, PostsStay DEF Tools!SelectSheet, Tools!Cleared
<1>5. CASE Tools!PermissionChanges
  BY <1>5, PostsStay DEF Tools!PermissionChanges, Tools!Cleared, Tools!drafts
<1>6. ASSUME NEW spot \in Spots, Tools!Click([on |-> sheet, spot |-> spot]) PROVE PostsInv'
  <2> DEFINE p == [on |-> sheet, spot |-> spot]
  <2>1. p \in Points /\ p.on = sheet
    BY <1>0 DEF Points
  <2> HIDE DEF p
  <2>2. CASE Tools!ClickLine(p) \/ Tools!ClickArea(p) \/ Tools!ClickScale(p)
    BY <2>2, PostsStay DEF Tools!ClickLine, Tools!ClickArea, Tools!ClickScale, Tools!Frame, Tools!drafts
  <2>3. ASSUME NEW c \in Slots, Tools!PlaceCount(c, p) PROVE PostsInv'
    <3>1. <<p>> \in Seq(Points) /\ <<p>> # <<>> /\ Len(<<p>>) = 1 /\ On(<<p>>, sheet)
      BY <2>1 DEF On
    <3>2. "count" \in Tools!Takeoffs /\ "count" # "area" /\ "count" # "linear"
      BY DEF Tools!Takeoffs
    <3>3. Tools!Posts(c, "count", <<p>>) /\ dots' = dots \cup {c}
      BY <2>3 DEF Tools!PlaceCount
    <3>4. Len(<<p>>) >= IF "count" = "area" THEN 3 ELSE IF "count" = "linear" THEN 2 ELSE 1
      BY <3>1, <3>2
    <3>5. dots' = dots \/ ("count" = "count" /\ dots' = dots \cup {c})
      BY <3>3
    <3> HIDE DEF PostsInv
    <3> QED
      BY <3>1, <3>2, <3>3, <3>4, <3>5, PostsSent, Zenon
  <2> QED
    BY <1>6, <2>2, <2>3 DEF Tools!Click, p
<1>7. CASE Tools!DropLine \/ Tools!TakeBack
  BY <1>7, PostsStay DEF Tools!DropLine, Tools!TakeBack, Tools!Frame
<1>8. CASE Tools!Escape
  <2>1. Tools!Frame /\ (dots' = {} \/ dots' = dots)
    BY <1>8, SetToolDots DEF Tools!Escape
  <2> QED
    BY <2>1, PostsStay DEF Tools!Frame
<1>9. ASSUME NEW c \in Slots, Tools!FinishLine(c) \/ Tools!FinishRing(c) PROVE PostsInv'
  <2>1. dots' = dots
    BY <1>9 DEF Tools!FinishLine, Tools!FinishRing, Tools!drafts
  <2>2. "linear" \in Tools!Takeoffs /\ "area" \in Tools!Takeoffs /\ On(line, sheet) /\ On(ring, sheet)
    BY DEF Tools!Takeoffs, DraftsInv
  <2>3. CASE Tools!FinishLine(c)
    <3>1. Tools!Posts(c, "linear", line) /\ Len(line) >= 2 /\ line # <<>>
      BY <1>0, <2>3 DEF Tools!FinishLine
    <3> QED
      BY <1>0, <2>1, <2>2, <3>1, PostsSent
  <2>4. CASE Tools!FinishRing(c)
    <3>1. Tools!Posts(c, "area", ring) /\ Len(ring) >= 3 /\ ring # <<>>
      BY <1>0, <2>4 DEF Tools!FinishRing
    <3> QED
      BY <1>0, <2>1, <2>2, <3>1, PostsSent
  <2> QED
    BY <1>9, <2>3, <2>4
<1>10. ASSUME NEW c \in Slots, Tools!DrawingSaved(c) \/ Tools!DrawingRefused(c) \/ Tools!CountAnswered(c)
       PROVE  PostsInv'
  <2>1. Tools!Answered(c)
    BY <1>10 DEF Tools!DrawingSaved, Tools!DrawingRefused, Tools!CountAnswered
  <2>2. dots' \subseteq dots /\ (posts[c].kind = "count" => c \notin dots')
    BY <1>10, SetToolDots DEF Tools!DrawingSaved, Tools!DrawingRefused, Tools!CountAnswered, Tools!drafts
  <2> QED
    BY <2>1, <2>2, PostsAnswered
<1>11. CASE Tools!CancelScale \/ Tools!ScaleSaved
  <2>1. UNCHANGED <<posts, sheet, condition>> /\ (dots' = {} \/ dots' = dots)
    BY <1>11, SetToolDots DEF Tools!CancelScale, Tools!ScaleSaved, Tools!LeaveScale, Tools!Frame, Tools!drafts
  <2> QED
    BY <2>1, PostsStay
<1>12. CASE Tools!ContinueIntro \/ Tools!FramesOver \/ Tools!SubmitScale \/ Tools!ScaleNotSaved
  BY <1>12, PostsStay DEF Tools!ContinueIntro, Tools!FramesOver, Tools!SubmitScale, Tools!ScaleNotSaved, Tools!Frame, Tools!drafts
<1> QED
  BY <1>1, <1>2, <1>3, <1>4, <1>5, <1>6, <1>7, <1>8, <1>9, <1>10, <1>11, <1>12 DEF Tools!Next

-----------------------------------------------------------------------------
(* The calibration.                                                        *)

\* Setting the tool, with a permission that may be lost or won meanwhile.
LEMMA ScaleFlowScale ==
    ASSUME FlowType, ScaleInv, NEW t, NEW may \in BOOLEAN, Tools!ScaleFlow(t, may), canEdit' = may, sheet' = sheet,
           saving' \in {saving, Tools!Idle}
    PROVE  ScaleInv'
<1>1. scaleLine' = <<>> /\ frames' = frames /\ hurried' = frames /\ measured' = (IF frames THEN measured ELSE <<>>)
      /\ step' \in {"intro", "idle"} /\ (step' # "idle" => tool' = "scale") /\ (tool' = "scale" => may)
      /\ strayed' = (strayed /\ (frames \/ saving' # Tools!Idle))
  BY DEF Tools!ScaleFlow
<1>2. frames \in BOOLEAN /\ strayed \in BOOLEAN
  BY DEF FlowType
<1>3. On(<<>>, sheet)
  BY DEF On
<1>4. ~strayed' => On(scaleLine, sheet)' /\ On(measured, sheet)'
  <2>1. CASE ~strayed
    BY <1>1, <1>3, <2>1 DEF ScaleInv, On
  <2>2. CASE ~frames
    BY <1>1, <1>3, <2>2 DEF On
  <2>3. CASE strayed /\ frames
    BY <1>1, <2>3
  <2> QED
    BY <1>2, <2>1, <2>2, <2>3
<1>5. ~strayed' => (saving' # Tools!Idle => saving'.line # <<>> /\ On(saving.line, saving.sheet)')
  <2>1. CASE ~strayed
    BY <2>1 DEF ScaleInv, On
  <2>2. CASE strayed
    BY <1>1, <1>2, <2>2
  <2> QED
    BY <1>2, <2>1, <2>2
<1>6. frames' \/ step' = "input" => Len(measured') = 2
  BY <1>1 DEF ScaleInv
<1> QED
  BY <1>1, <1>2, <1>4, <1>5, <1>6 DEF ScaleInv

LEMMA ScaleStays ==
    ASSUME ScaleInv, UNCHANGED Tools!flow, UNCHANGED <<sheet, canEdit>>, saving' \in {saving, Tools!Idle}
    PROVE  ScaleInv'
BY DEF ScaleInv, Tools!flow, On

LEMMA SetToolScale ==
    ASSUME ToolsTypes, ScaleInv, NEW t, Tools!SetTool(t), UNCHANGED <<sheet, canEdit>>, saving' \in {saving, Tools!Idle}
    PROVE  ScaleInv'
<1>1. FlowType /\ canEdit \in BOOLEAN
  BY DEF ToolsTypes
<1>2. CASE t = tool
  BY <1>2, ScaleStays DEF Tools!SetTool
<1>3. CASE t # tool
  BY <1>1, <1>3, ScaleFlowScale DEF Tools!SetTool
<1> QED
  BY <1>2, <1>3

LEMMA LeaveScaleInv ==
    ASSUME ToolsTypes, ScaleInv, Tools!LeaveScale, UNCHANGED <<sheet, canEdit>>, saving' \in {saving, Tools!Idle}
    PROVE  ScaleInv'
<1>1. CASE tool # "select"
  BY <1>1, SetToolScale DEF Tools!LeaveScale
<1>2. CASE tool = "select"
  <2>1. scaleLine' = <<>> /\ UNCHANGED <<tool, step, measured, frames, strayed, hurried>>
    BY <1>2 DEF Tools!LeaveScale
  <2>2. ~strayed => On(<<>>, sheet) /\ On(measured, sheet)'
    BY <2>1 DEF ScaleInv, On
  <2>3. ~strayed => On(scaleLine, sheet)'
    BY <2>1 DEF On
  <2>4. ~strayed => (saving' # Tools!Idle => saving'.line # <<>> /\ On(saving.line, saving.sheet)')
    BY DEF ScaleInv, On
  <2>5. ~hurried => step = "idle" /\ ~frames
    BY <1>2 DEF ScaleInv
  <2> QED
    BY <2>1, <2>2, <2>3, <2>4, <2>5 DEF ScaleInv
<1> QED
  BY <1>1, <1>2

LEMMA ScaleStep ==
    ASSUME ToolsTypes, ScaleInv, Tools!Next
    PROVE  ScaleInv'
<1>0. FlowType /\ canEdit \in BOOLEAN /\ sheet \in ToolSheets /\ scaleLine \in Seq(Points) /\ measured \in Seq(Points)
      /\ frames \in BOOLEAN /\ strayed \in BOOLEAN /\ hurried \in BOOLEAN
  BY DEF ToolsTypes, FlowType
<1>1. ASSUME NEW t \in Tools!Tools, Tools!PickTool(t) PROVE ScaleInv'
  BY <1>1, SetToolScale DEF Tools!PickTool, Tools!Frame
<1>2. ASSUME NEW c \in Conditions, Tools!PickCondition(c) PROVE ScaleInv'
  <2>1. UNCHANGED <<sheet, canEdit, saving>>
    BY <1>2 DEF Tools!PickCondition
  <2>2. CASE tool \in Tools!Takeoffs /\ TypeOf[c] # tool
    BY <1>2, <2>1, <2>2, SetToolScale DEF Tools!PickCondition
  <2>3. CASE ~(tool \in Tools!Takeoffs /\ TypeOf[c] # tool)
    BY <1>2, <2>1, <2>3, ScaleStays DEF Tools!PickCondition
  <2> QED
    BY <2>2, <2>3
<1>3. ASSUME NEW c \in Conditions \cup {Tools!None}, Tools!ConditionSet(c) PROVE ScaleInv'
  BY <1>3, ScaleStays DEF Tools!ConditionSet
<1>4. ASSUME NEW s \in ToolSheets, Tools!SelectSheet(s) PROVE ScaleInv'
  <2>1. UNCHANGED <<tool, step, scaleLine, measured, frames, hurried, canEdit, saving>>
        /\ strayed' = (strayed \/ scaleLine # <<>> \/ frames) /\ step # "input"
    BY <1>4 DEF Tools!SelectSheet, Tools!Modal
  <2>2. ~strayed' => ~strayed /\ scaleLine = <<>> /\ measured = <<>>
    BY <2>1 DEF ScaleInv
  <2>3. \A s1 : On(<<>>, s1)
    BY DEF On
  <2>4. ~strayed' => On(scaleLine, sheet)' /\ On(measured, sheet)'
    BY <2>1, <2>2, <2>3 DEF On
  <2>5. ~strayed' => (saving' # Tools!Idle => saving'.line # <<>> /\ On(saving.line, saving.sheet)')
    BY <2>1, <2>2 DEF ScaleInv, On
  <2> QED
    BY <2>1, <2>4, <2>5 DEF ScaleInv
<1>5. CASE Tools!PermissionChanges
  <2>1. UNCHANGED <<sheet, saving>> /\ canEdit' \in BOOLEAN
    BY <1>5 DEF Tools!PermissionChanges
  <2>2. CASE tool = "scale"
    <3>1. Tools!ScaleFlow(tool, canEdit')
      BY <1>5, <2>2 DEF Tools!PermissionChanges
    <3> QED
      BY <1>0, <2>1, <3>1, ScaleFlowScale
  <2>3. CASE tool # "scale"
    <3>1. UNCHANGED <<tool, step, scaleLine, measured, frames, strayed, hurried>>
      BY <1>5, <2>3 DEF Tools!PermissionChanges, Tools!flow
    <3>2. ~hurried => step = "idle" /\ ~frames
      BY <2>3 DEF ScaleInv
    <3> QED
      BY <2>1, <3>1, <3>2 DEF ScaleInv, On
  <2> QED
    BY <2>2, <2>3
<1>6. ASSUME NEW spot \in Spots, Tools!Click([on |-> sheet, spot |-> spot]) PROVE ScaleInv'
  <2> DEFINE p == [on |-> sheet, spot |-> spot]
  <2>1. p \in Points /\ p.on = sheet
    BY <1>0 DEF Points
  <2> HIDE DEF p
  <2>2. CASE Tools!ClickLine(p) \/ Tools!ClickArea(p)
    BY <2>2, ScaleStays DEF Tools!ClickLine, Tools!ClickArea, Tools!Frame, Tools!Drawn
  <2>3. ASSUME NEW c \in Slots, Tools!PlaceCount(c, p) PROVE ScaleInv'
    BY <2>3, ScaleStays DEF Tools!PlaceCount, Tools!Posts, Tools!Drawn
  <2>4. CASE Tools!ClickScale(p)
    <3>1. UNCHANGED <<tool, step, strayed, sheet, canEdit, saving>> /\ hurried' = (hurried \/ frames)
          /\ tool = "scale" /\ canEdit /\ step = "picking"
      BY <2>4 DEF Tools!ClickScale, Tools!Frame
    <3>2. ~strayed => (saving' # Tools!Idle => saving'.line # <<>> /\ On(saving.line, saving.sheet)')
      BY <3>1 DEF ScaleInv, On
    <3>3. CASE Len(scaleLine) = 1 /\ scaleLine' = Append(scaleLine, p) /\ measured' = scaleLine' /\ frames' = TRUE
      <4>1. Len(measured') = 2
        <5>1. Len(Append(scaleLine, p)) = Len(scaleLine) + 1
          BY <1>0
        <5> QED
          BY <3>3, <5>1
      <4>2. ~strayed => On(Append(scaleLine, p), sheet)
        <5>1. \A k \in DOMAIN Append(scaleLine, p) :
                 Append(scaleLine, p)[k] = p \/ (k \in DOMAIN scaleLine /\ Append(scaleLine, p)[k] = scaleLine[k])
          BY <1>0
        <5> QED
          BY <2>1, <5>1 DEF ScaleInv, On
      <4>3. ~strayed => On(scaleLine, sheet)' /\ On(measured, sheet)'
        BY <3>1, <3>3, <4>2 DEF On
      <4> QED
        BY <3>1, <3>2, <3>3, <4>1, <4>3 DEF ScaleInv
    <3>4. CASE scaleLine' = <<p>> /\ UNCHANGED <<measured, frames>>
      <4>1. On(<<p>>, sheet)
        BY <2>1 DEF On
      <4>2. ~strayed => On(scaleLine, sheet)' /\ On(measured, sheet)'
        BY <3>1, <3>4, <4>1 DEF ScaleInv, On
      <4> QED
        BY <1>0, <3>1, <3>2, <3>4, <4>2 DEF ScaleInv
    <3> QED
      BY <2>4, <3>3, <3>4 DEF Tools!ClickScale
  <2> QED
    BY <1>6, <2>2, <2>3, <2>4 DEF Tools!Click, p
<1>7. CASE Tools!DropLine \/ Tools!TakeBack
  BY <1>7, ScaleStays DEF Tools!DropLine, Tools!TakeBack, Tools!Frame, Tools!Drawn
<1>8. CASE Tools!Escape
  <2>1. UNCHANGED <<sheet, canEdit, saving>>
    BY <1>8 DEF Tools!Escape, Tools!Frame
  <2>2. CASE Tools!SetTool("select")
    BY <2>1, <2>2, SetToolScale
  <2>3. CASE ~Tools!SetTool("select")
    BY <1>8, <2>1, <2>3, ScaleStays DEF Tools!Escape, Tools!Drawn
  <2> QED
    BY <2>2, <2>3
<1>9. ASSUME NEW c \in Slots, Tools!FinishLine(c) \/ Tools!FinishRing(c) \/ Tools!DrawingRefused(c) \/ Tools!CountAnswered(c)
      PROVE  ScaleInv'
  <2>1. UNCHANGED Tools!flow /\ UNCHANGED <<sheet, canEdit, saving>>
    BY <1>9 DEF Tools!FinishLine, Tools!FinishRing, Tools!DrawingRefused, Tools!CountAnswered, Tools!Posts, Tools!Answered,
                Tools!Drawn
  <2> QED
    BY <2>1, ScaleStays
<1>10. ASSUME NEW c \in Slots, Tools!DrawingSaved(c) PROVE ScaleInv'
  <2>1. UNCHANGED <<sheet, canEdit, saving>>
    BY <1>10 DEF Tools!DrawingSaved, Tools!Answered
  <2>2. CASE tool # "select"
    BY <1>10, <2>1, <2>2, SetToolScale DEF Tools!DrawingSaved
  <2>3. CASE tool = "select"
    BY <1>10, <2>1, <2>3, ScaleStays DEF Tools!DrawingSaved, Tools!Drawn
  <2> QED
    BY <2>2, <2>3
<1>11. CASE Tools!CancelScale \/ Tools!ScaleSaved
  BY <1>11, LeaveScaleInv DEF Tools!CancelScale, Tools!ScaleSaved, Tools!Frame
<1>12. CASE Tools!ContinueIntro
  <2>1. UNCHANGED <<sheet, canEdit, saving, tool, scaleLine, measured, frames, strayed, hurried>> /\ step = "intro" /\ step' = "picking"
    BY <1>12 DEF Tools!ContinueIntro, Tools!Frame
  <2> QED
    BY <2>1 DEF ScaleInv, On
<1>13. CASE Tools!FramesOver
  <2>1. UNCHANGED <<sheet, canEdit, saving, tool, scaleLine, measured, strayed, hurried>> /\ step' = "input" /\ frames /\ ~frames'
    BY <1>13 DEF Tools!FramesOver, Tools!Frame
  <2> QED
    BY <2>1 DEF ScaleInv, On
<1>14. CASE Tools!SubmitScale
  <2>1. UNCHANGED <<sheet, canEdit>> /\ UNCHANGED Tools!flow /\ step = "input" /\ saving'.line = measured /\ saving'.sheet = sheet
    BY <1>14 DEF Tools!SubmitScale
  <2>2. measured # <<>>
    BY <2>1 DEF ScaleInv
  <2>3. ~strayed => On(saving.line, saving.sheet)'
    BY <2>1 DEF ScaleInv, On
  <2> QED
    BY <2>1, <2>2, <2>3 DEF ScaleInv, On, Tools!flow
<1>15. CASE Tools!ScaleNotSaved
  BY <1>15, ScaleStays DEF Tools!ScaleNotSaved
<1> QED
  BY <1>1, <1>2, <1>3, <1>4, <1>5, <1>6, <1>7, <1>8, <1>9, <1>10, <1>11, <1>12, <1>13, <1>14, <1>15 DEF Tools!Next

LEMMA OnJoined ==
    ASSUME NEW d \in Seq(Points), NEW e \in Seq(Points), NEW s, On(d, s), On(e, s)
    PROVE  \A p \in Tools!ToSet(d \o e) : p.on = s
<1>1. \A k \in DOMAIN (d \o e) : (k \in DOMAIN d /\ (d \o e)[k] = d[k])
                                 \/ (k - Len(d) \in DOMAIN e /\ (d \o e)[k] = e[k - Len(d)])
  OBVIOUS
<1>2. \A k \in DOMAIN (d \o e) : (d \o e)[k].on = s
  BY <1>1 DEF On
<1> QED
  BY <1>2 DEF Tools!ToSet

\* What the tools' invariant says of the drawings.
LEMMA ToolsAreRight ==
    ASSUME ToolsInv
    PROVE  /\ Tools!DraftsHaveTheirTool /\ Tools!MeasurementsAreWhole /\ Tools!DotsAreOnTheirWay
           /\ Tools!ScaleDialogHasItsTool /\ Tools!CalibratedByOwnLine
<1>1. ToolsTypes /\ DraftsInv /\ ScaleInv
  BY ToolsTypesFacts DEF ToolsInv
<1>2. line \in Seq(Points) /\ ring \in Seq(Points)
  BY <1>1 DEF ToolsTypes, DraftType
<1>3. \A p \in Tools!ToSet(line \o ring) : p.on = sheet
  BY <1>1, <1>2, OnJoined DEF DraftsInv
<1>4. Tools!DraftsHaveTheirTool
  BY <1>1, <1>3 DEF Tools!DraftsHaveTheirTool, DraftsInv
<1>5. Tools!ScaleDialogHasItsTool
  BY <1>1 DEF Tools!ScaleDialogHasItsTool, ScaleInv
<1>6. Tools!CalibratedByOwnLine
  <2>1. SUFFICES ASSUME saving # Tools!Idle, ~strayed PROVE {p.on : p \in Tools!ToSet(saving.line)} = {saving.sheet}
    BY DEF Tools!CalibratedByOwnLine
  <2>2. saving.line \in Seq(Points) /\ saving.line # <<>> /\ On(saving.line, saving.sheet)
    BY <1>1, <2>1 DEF ToolsTypes, SavingType, ScaleInv
  <2> QED
    BY <2>2, OnOneSheet
<1> QED
  BY <1>4, <1>5, <1>6 DEF ToolsInv

LEMMA ToolsInit ==
    ASSUME Tools!Init
    PROVE  ToolsInv
<1>1. <<>> \in Seq(Points) /\ Len(<<>>) = 0 /\ MaxPoints \in Nat /\ \A s : On(<<>>, s)
  BY ViewerAssumption DEF On
<1>2. FlowType
  <2>1. scaleLine = <<>> /\ measured = <<>> /\ tool = "select" /\ step = "idle" /\ ~frames /\ ~strayed /\ ~hurried
        /\ frames \in BOOLEAN /\ strayed \in BOOLEAN /\ hurried \in BOOLEAN
    BY DEF Tools!Init
  <2>2. tool \in Tools!Tools
    BY <2>1 DEF Tools!Tools
  <2>3. \A d \in {scaleLine, measured} : d \in Seq(Points) /\ Len(d) <= 2
    <3>1. <<>> \in Seq(Points) /\ Len(<<>>) <= 2
      BY <1>1
    <3> QED
      BY <2>1, <3>1, Zenon
  <2> QED
    BY <2>1, <2>2, <2>3 DEF FlowType
<1>3. DraftType
  BY <1>1 DEF Tools!Init, DraftType
<1>4. PostType /\ SavingType
  BY DEF Tools!Init, PostType, SavingType
<1>5. Tools!TypeOK
  BY <1>2, <1>3, <1>4, ToolsTypesFacts DEF Tools!Init, ToolsTypes, Tools!None
<1>6. DraftsInv /\ ScaleInv
  BY <1>1 DEF Tools!Init, DraftsInv, ScaleInv
<1>7. Tools!MeasurementsAreWhole /\ Tools!DotsAreOnTheirWay
  BY DEF Tools!Init, Tools!MeasurementsAreWhole, Tools!DotsAreOnTheirWay
<1> QED
  BY <1>5, <1>6, <1>7 DEF ToolsInv

LEMMA ToolsStep ==
    ASSUME ToolsInv, Tools!Next
    PROVE  ToolsInv'
<1>1. ToolsTypes /\ DraftsInv /\ ScaleInv /\ PostsInv
  BY ToolsTypesFacts DEF ToolsInv, PostsInv
<1>2. ToolsTypes' /\ DraftsInv' /\ ScaleInv' /\ PostsInv'
  BY <1>1, ToolsTypeStep, DraftsStep, ScaleStep, PostsStep
<1>3. Tools!TypeOK'
  BY <1>2, ToolsTypesFacts, PTL
<1> QED
  BY <1>2, <1>3 DEF ToolsInv, PostsInv

LEMMA ToolsStutter ==
    ASSUME ToolsInv, UNCHANGED <<sheet, tools>>
    PROVE  ToolsInv'
BY DEF ToolsInv, tools, Tools!TypeOK, DraftsInv, ScaleInv, On, Tools!MeasurementsAreWhole, Tools!DotsAreOnTheirWay

-----------------------------------------------------------------------------
(* The canvas.  At most one rendering has the current token, and without   *)
(* one a document that is loaded is shown.                                 *)

Plans == {PlanOf[s] : s \in Sheets} \cup {Canvas!None}
Shows ==
    /\ picture = Canvas!Page(sheet, view) /\ viewport = picture /\ overlay = picture
    /\ rects = IF query THEN picture ELSE Canvas!Blank

TasksInv ==
    \A t \in tasks : t.token = token =>
        /\ t.sheet = sheet
        /\ t.pc # "page" => viewport = Canvas!Page(sheet, view) /\ overlay = viewport
        /\ t.pc = "text" => query /\ picture = viewport
        /\ \A u \in tasks : u.token = token => u = t
ShownInv ==
    /\ pdf # Canvas!None => (\E t \in tasks : t.token = token) \/ Shows
    /\ pdfCall # Canvas!None => pdf = Canvas!None

PicturesInv == TasksInv /\ ShownInv
CanvasInv == Canvas!TypeOK /\ PicturesInv /\ Canvas!DocumentOfPlan /\ Canvas!FocusStaysOnSheet

Renderings == [token : 1..token, sheet : Sheets, pc : {"page", "render", "text"}]
PlacesType == {viewport, overlay, picture, rects} \subseteq [sheet : Sheets, view : Canvas!Views] \cup {Canvas!Blank}
TasksType  == token \in Nat /\ tasks \subseteq Renderings
CanvasTypes ==
    /\ sheet \in Sheets /\ {url, urlCall, pdf, pdfCall} \subseteq Plans /\ view \in Canvas!Views
    /\ TasksType /\ PlacesType /\ query \in BOOLEAN /\ centred \in Sheets \cup {Canvas!None}

LEMMA CanvasTypesFacts == Canvas!TypeOK <=> CanvasTypes
BY DEF Canvas!TypeOK, CanvasTypes, Plans, TasksType, Renderings, PlacesType

\* A new rendering is the only one with the new token.
LEMMA RenderingStep ==
    ASSUME TasksType, NEW s \in Sheets, NEW p, Canvas!Rendering(s, p), sheet' = s,
           pdf' # Canvas!None => p # Canvas!None, pdfCall' # Canvas!None => pdf' = Canvas!None
    PROVE  TasksType' /\ PicturesInv'
<1> DEFINE new == [token |-> token + 1, sheet |-> s, pc |-> "page"]
<1>1. token' = token + 1 /\ tasks' = {t \in tasks : t.pc # "render"} \cup IF p = Canvas!None THEN {} ELSE {new}
  BY DEF Canvas!Rendering
<1>2. token \in Nat /\ \A t \in tasks : t \in Renderings /\ t.token \in 1..token
  BY DEF TasksType, Renderings
<1>3. token' \in Nat /\ token' # token
  BY <1>1, <1>2
<1>4. new.token = token' /\ new.sheet = s /\ new.pc = "page"
  BY <1>1
<1>5. new \in Renderings'
  BY <1>1, <1>2 DEF Renderings
<1> HIDE DEF new
<1>6. \A t \in tasks : t.token # token'
  BY <1>1, <1>2
<1>7. \A t \in tasks : t \in Renderings'
  BY <1>1, <1>2 DEF Renderings
<1>8. TasksType'
  BY <1>1, <1>3, <1>5, <1>7 DEF TasksType
<1>9. \A t \in tasks' : t.token = token' => t = new
  BY <1>1, <1>6
<1>10. TasksInv'
  BY <1>4, <1>9 DEF TasksInv
<1>11. pdf' # Canvas!None => \E t \in tasks' : t.token = token'
  BY <1>1, <1>4
<1>12. ShownInv'
  BY <1>11 DEF ShownInv
<1> QED
  BY <1>8, <1>10, <1>12 DEF PicturesInv

LEMMA DocumentedStep ==
    ASSUME TasksType, NEW s \in Sheets, NEW u, Canvas!Documented(u, s), sheet' = s
    PROVE  TasksType' /\ PicturesInv' /\ pdf' = Canvas!None /\ pdfCall' = u /\ overlay' = Canvas!Blank
<1>1. pdf' = Canvas!None /\ pdfCall' = u /\ overlay' = Canvas!Blank /\ Canvas!Rendering(s, Canvas!None)
  BY DEF Canvas!Documented
<1> QED
  BY <1>1, RenderingStep

\* A gesture that waits, a drag or a renewal of nothing leaves the pictures alone.
LEMMA PicturesStay ==
    ASSUME PicturesInv, UNCHANGED <<sheet, pdf, pdfCall, view, token, tasks, viewport, overlay, picture, rects, query>>
    PROVE  PicturesInv'
BY DEF PicturesInv, TasksInv, ShownInv, Shows

\* The step of one rendering: the others of its token are none.
LEMMA LaterStep ==
    ASSUME TasksType, TasksInv, NEW t \in tasks, NEW pc \in {"page", "render", "text"}, Canvas!Later(t, pc),
           ~Canvas!Stale(t), UNCHANGED <<token, sheet>>
    PROVE  /\ TasksType'
           /\ \E n \in tasks' : n.token = token' /\ n.pc = pc /\ n.sheet = sheet'
                                /\ \A u \in tasks' : u.token = token' => u = n
<1> DEFINE n == [t EXCEPT !.pc = pc]
<1>1. t \in Renderings /\ token \in Nat
  BY DEF TasksType
<1>2. n \in Renderings /\ n.token = t.token /\ n.sheet = t.sheet /\ n.pc = pc
  BY <1>1 DEF Renderings
<1>3. tasks' = (tasks \ {t}) \cup {n}
  BY DEF Canvas!Later
<1> HIDE DEF n
<1>4. t.token = token /\ t.sheet = sheet /\ \A u \in tasks : u.token = token => u = t
  BY DEF Canvas!Stale, TasksInv
<1>5. TasksType'
  BY <1>1, <1>2, <1>3 DEF TasksType, Renderings
<1>6. n \in tasks' /\ n.token = token' /\ n.pc = pc /\ n.sheet = sheet' /\ \A u \in tasks' : u.token = token' => u = n
  BY <1>2, <1>3, <1>4
<1> QED
  BY <1>5, <1>6

LEMMA EndsStep ==
    ASSUME TasksType, NEW t \in tasks, Canvas!Ends(t), UNCHANGED token
    PROVE  TasksType' /\ tasks' \subseteq tasks
BY DEF TasksType, Renderings, Canvas!Ends

LEMMA TaskStep ==
    ASSUME CanvasTypes, PicturesInv, NEW t \in tasks,
           Canvas!Dropped(t) \/ Canvas!PageKnown(t) \/ Canvas!Rendered(t) \/ Canvas!TextFound(t)
    PROVE  /\ TasksType' /\ PlacesType' /\ PicturesInv'
           /\ UNCHANGED <<sheet, url, urlCall, pdf, pdfCall, view, query>>
           /\ centred' \in Sheets \cup {Canvas!None} /\ (pan' = pan \/ pan'.how = "centre")
<1>0. sheet \in Sheets /\ view \in Canvas!Views /\ TasksType /\ PlacesType /\ TasksInv /\ ShownInv /\ centred \in Sheets \cup {Canvas!None}
      /\ query \in BOOLEAN
  BY DEF CanvasTypes, PicturesInv
<1>1. CASE Canvas!Dropped(t)
  <2>1. UNCHANGED <<sheet, url, urlCall, pdf, pdfCall, view, pan, token, viewport, overlay, picture, rects, query, centred>>
        /\ Canvas!Ends(t) /\ t.token # token /\ tasks' = tasks \ {t}
    BY <1>1 DEF Canvas!Dropped, Canvas!document, Canvas!screen, Canvas!Stale, Canvas!Ends
  <2>2. TasksType' /\ PlacesType'
    BY <1>0, <2>1, EndsStep DEF PlacesType
  <2>3. \A u \in tasks : u.token = token => u \in tasks'
    BY <2>1
  <2>4. TasksInv'
    BY <1>0, <2>1 DEF TasksInv
  <2>5. ShownInv'
    BY <1>0, <2>1, <2>3 DEF ShownInv, Shows
  <2> QED
    BY <1>0, <2>1, <2>2, <2>4, <2>5 DEF PicturesInv
<1>2. CASE Canvas!PageKnown(t)
  <2>1. UNCHANGED <<sheet, url, urlCall, pdf, pdfCall, view, token, rects, query>> /\ ~Canvas!Stale(t)
        /\ viewport' = Canvas!Page(t.sheet, view) /\ overlay' = viewport' /\ picture' = Canvas!Blank /\ Canvas!Later(t, "render")
    BY <1>2 DEF Canvas!PageKnown, Canvas!document
  <2>2. centred' \in Sheets \cup {Canvas!None} /\ (pan' = pan \/ pan'.how = "centre")
    BY <1>0, <1>2 DEF Canvas!PageKnown, Canvas!Centring
  <2>3. TasksType' /\ \E n \in tasks' : n.token = token' /\ n.pc = "render" /\ n.sheet = sheet'
                                        /\ \A u \in tasks' : u.token = token' => u = n
    BY <1>0, <2>1, LaterStep
  <2>4. t.sheet = sheet
    BY <1>0, <2>1 DEF Canvas!Stale, TasksInv
  <2>5. PlacesType'
    BY <1>0, <2>1, <2>4 DEF PlacesType, Canvas!Page
  <2>6. TasksInv' /\ ShownInv'
    BY <1>0, <2>1, <2>3, <2>4 DEF TasksInv, ShownInv
  <2> QED
    BY <2>1, <2>2, <2>3, <2>5, <2>6 DEF PicturesInv
<1>3. CASE Canvas!Rendered(t)
  <2>1. UNCHANGED <<sheet, url, urlCall, pdf, pdfCall, view, pan, token, viewport, overlay, query, centred>> /\ ~Canvas!Stale(t)
        /\ picture' = viewport /\ t.pc = "render"
    BY <1>3 DEF Canvas!Rendered, Canvas!document
  <2>2. viewport = Canvas!Page(sheet, view) /\ overlay = viewport
    BY <1>0, <2>1 DEF Canvas!Stale, TasksInv
  <2>3. CASE query
    <3>1. Canvas!Later(t, "text") /\ UNCHANGED rects
      BY <1>3, <2>3 DEF Canvas!Rendered
    <3>2. TasksType' /\ \E n \in tasks' : n.token = token' /\ n.pc = "text" /\ n.sheet = sheet'
                                          /\ \A u \in tasks' : u.token = token' => u = n
      BY <1>0, <2>1, <3>1, LaterStep
    <3>3. TasksInv' /\ ShownInv'
      BY <1>0, <2>1, <2>2, <2>3, <3>2 DEF TasksInv, ShownInv
    <3> QED
      BY <1>0, <2>1, <3>1, <3>2, <3>3 DEF PicturesInv, PlacesType
  <2>4. CASE ~query
    <3>1. Canvas!Ends(t) /\ rects' = Canvas!Blank
      BY <1>3, <2>4 DEF Canvas!Rendered
    <3>2. TasksType' /\ \A u \in tasks' : u.token # token
      BY <1>0, <2>1, <3>1, EndsStep DEF Canvas!Ends, Canvas!Stale, TasksInv
    <3>3. TasksInv' /\ ShownInv'
      BY <1>0, <2>1, <2>2, <2>4, <3>1, <3>2 DEF TasksInv, ShownInv, Shows, Canvas!Page
    <3> QED
      BY <1>0, <2>1, <3>1, <3>2, <3>3 DEF PicturesInv, PlacesType
  <2> QED
    BY <1>0, <2>3, <2>4
<1>4. CASE Canvas!TextFound(t)
  <2>1. UNCHANGED <<sheet, url, urlCall, pdf, pdfCall, view, pan, token, viewport, overlay, picture, query, centred>> /\ ~Canvas!Stale(t)
        /\ rects' = viewport /\ t.pc = "text" /\ Canvas!Ends(t)
    BY <1>4 DEF Canvas!TextFound, Canvas!document
  <2>2. viewport = Canvas!Page(sheet, view) /\ overlay = viewport /\ picture = viewport /\ query
    BY <1>0, <2>1 DEF Canvas!Stale, TasksInv
  <2>3. TasksType' /\ \A u \in tasks' : u.token # token
    BY <1>0, <2>1, EndsStep DEF Canvas!Ends, Canvas!Stale, TasksInv
  <2>4. TasksInv' /\ ShownInv'
    BY <1>0, <2>1, <2>2, <2>3 DEF TasksInv, ShownInv, Shows, Canvas!Page
  <2> QED
    BY <1>0, <2>1, <2>3, <2>4 DEF PicturesInv, PlacesType
<1> QED
  BY <1>1, <1>2, <1>3, <1>4

LEMMA AppliedStep ==
    ASSUME CanvasTypes, PicturesInv, NEW g, NEW v \in Canvas!Views, Canvas!Applied(g, v)
    PROVE  CanvasTypes' /\ PicturesInv' /\ UNCHANGED <<sheet, urlCall, pdf, pdfCall>> /\ pan'.how = g.kind /\ pan'.of = g.sheet
<1>1. view' = v /\ pan' = [how |-> g.kind, of |-> g.sheet]
      /\ UNCHANGED <<sheet, url, urlCall, pdf, pdfCall, viewport, overlay, picture, rects, query, centred>>
  BY DEF Canvas!Applied, Canvas!document, Canvas!screen
<1>2. CASE v = view
  <2>1. UNCHANGED <<token, tasks>>
    BY <1>2 DEF Canvas!Applied
  <2> QED
    BY <1>1, <1>2, <2>1, PicturesStay DEF CanvasTypes, TasksType, PlacesType, Renderings
<1>3. CASE v # view
  <2>1. Canvas!Rendering(sheet, pdf)
    BY <1>3 DEF Canvas!Applied
  <2>2. TasksType' /\ PicturesInv'
    BY <1>1, <2>1, RenderingStep DEF CanvasTypes, PicturesInv, ShownInv
  <2> QED
    BY <1>1, <2>2 DEF CanvasTypes, PlacesType
<1> QED
  BY <1>2, <1>3

LEMMA ViewFacts ==
    /\ Canvas!FitPage \in Canvas!Views
    /\ \A v \in Canvas!Views, z \in Zooms : [v EXCEPT !.zoom = z] \in Canvas!Views
    /\ \A f \in Canvas!Fits : [fit |-> f, zoom |-> 1] \in Canvas!Views
BY ViewerAssumption DEF Canvas!FitPage, Canvas!Views, Canvas!Fits

LEMMA CanvasStep ==
    ASSUME CanvasInv, Canvas!Next
    PROVE  CanvasInv'
<1>0. /\ CanvasTypes /\ PicturesInv /\ Canvas!DocumentOfPlan /\ Canvas!FocusStaysOnSheet
      /\ sheet \in Sheets /\ {url, urlCall, pdf, pdfCall} \subseteq Plans /\ TasksType /\ PlacesType /\ view \in Canvas!Views
      /\ query \in BOOLEAN /\ centred \in Sheets \cup {Canvas!None}
  BY CanvasTypesFacts DEF CanvasInv, CanvasTypes
<1>1. SUFFICES CanvasTypes' /\ PicturesInv' /\ Canvas!DocumentOfPlan' /\ Canvas!FocusStaysOnSheet'
  BY CanvasTypesFacts, PTL DEF CanvasInv
<1>2. Canvas!None \in Plans /\ Canvas!Blank \in [sheet : Sheets, view : Canvas!Views] \cup {Canvas!Blank}
      /\ \A s \in Sheets : PlanOf[s] \in Plans
  BY DEF Plans
<1>3. CASE Canvas!UrlArrives \/ Canvas!UrlFails
  <2>1. UNCHANGED <<sheet, view, pan, viewport, picture, rects, query, centred>> /\ urlCall' = Canvas!None
        /\ \E u \in {urlCall, Canvas!None} : Canvas!Documented(u, sheet) /\ url' = u
    BY <1>3 DEF Canvas!UrlArrives, Canvas!UrlFails
  <2>2. PICK u \in {urlCall, Canvas!None} : Canvas!Documented(u, sheet) /\ url' = u
    BY <2>1
  <2>3. TasksType' /\ PicturesInv' /\ pdf' = Canvas!None /\ pdfCall' = u /\ overlay' = Canvas!Blank
    BY <1>0, <2>1, <2>2, DocumentedStep
  <2>4. CanvasTypes'
    BY <1>0, <1>2, <2>1, <2>2, <2>3 DEF CanvasTypes, PlacesType
  <2> QED
    BY <1>0, <2>1, <2>3, <2>4 DEF Canvas!DocumentOfPlan, Canvas!FocusStaysOnSheet
<1>4. CASE Canvas!PdfArrives
  <2>1. UNCHANGED <<sheet, url, urlCall, view, pan, viewport, overlay, picture, rects, query, centred>>
        /\ pdf' = pdfCall /\ pdfCall # Canvas!None /\ pdfCall' = Canvas!None /\ Canvas!Rendering(sheet, pdfCall)
    BY <1>4 DEF Canvas!PdfArrives, Canvas!screen
  <2>2. TasksType' /\ PicturesInv'
    BY <1>0, <2>1, RenderingStep
  <2>3. CanvasTypes'
    BY <1>0, <1>2, <2>1, <2>2 DEF CanvasTypes, PlacesType
  <2> QED
    BY <1>0, <2>1, <2>2, <2>3 DEF Canvas!DocumentOfPlan, Canvas!FocusStaysOnSheet
<1>5. CASE Canvas!PdfFails
  <2>1. UNCHANGED <<sheet, url, urlCall, pdf, view, pan, viewport, overlay, picture, rects, query, centred>>
        /\ pdfCall # Canvas!None /\ pdfCall' = Canvas!None /\ Canvas!Rendering(sheet, Canvas!None)
    BY <1>5 DEF Canvas!PdfFails, Canvas!screen
  <2>2. pdf' = Canvas!None
    BY <1>0, <2>1 DEF PicturesInv, ShownInv
  <2>3. TasksType' /\ PicturesInv'
    BY <1>0, <2>1, <2>2, RenderingStep
  <2>4. CanvasTypes'
    BY <1>0, <1>2, <2>1, <2>3 DEF CanvasTypes, PlacesType
  <2> QED
    BY <1>0, <2>1, <2>3, <2>4 DEF Canvas!DocumentOfPlan, Canvas!FocusStaysOnSheet
<1>6. ASSUME NEW t \in tasks, Canvas!Dropped(t) \/ Canvas!PageKnown(t) \/ Canvas!Rendered(t) \/ Canvas!TextFound(t)
      PROVE  CanvasTypes' /\ PicturesInv' /\ Canvas!DocumentOfPlan' /\ Canvas!FocusStaysOnSheet'
  <2>1. /\ TasksType' /\ PlacesType' /\ PicturesInv'
        /\ UNCHANGED <<sheet, url, urlCall, pdf, pdfCall, view, query>>
        /\ centred' \in Sheets \cup {Canvas!None} /\ (pan' = pan \/ pan'.how = "centre")
    BY <1>0, <1>6, TaskStep
  <2>2. CanvasTypes'
    BY <1>0, <2>1 DEF CanvasTypes
  <2> QED
    BY <1>0, <2>1, <2>2 DEF Canvas!DocumentOfPlan, Canvas!FocusStaysOnSheet
<1>7. ASSUME NEW s \in Sheets, Canvas!SelectSheet(s)
      PROVE  CanvasTypes' /\ PicturesInv' /\ Canvas!DocumentOfPlan' /\ Canvas!FocusStaysOnSheet'
  <2>1. sheet' = s /\ view' = Canvas!FitPage /\ UNCHANGED <<url, viewport, picture, rects, query>>
    BY <1>7 DEF Canvas!SelectSheet
  <2>2. (pan'.how = "origin" \/ pan'.how = "centre") /\ centred' \in Sheets \cup {Canvas!None}
    BY <1>7 DEF Canvas!SelectSheet
  <2>3. CASE PlanOf[s] = PlanOf[sheet]
    <3>1. Canvas!Rendering(s, pdf) /\ UNCHANGED <<urlCall, pdf, pdfCall, overlay>>
      BY <1>7, <2>3 DEF Canvas!SelectSheet
    <3>2. TasksType' /\ PicturesInv'
      BY <1>0, <2>1, <3>1, RenderingStep DEF PicturesInv, ShownInv
    <3>3. CanvasTypes'
      BY <1>0, <2>1, <2>2, <3>1, <3>2, ViewFacts DEF CanvasTypes, PlacesType
    <3> QED
      BY <1>0, <2>1, <2>2, <2>3, <3>1, <3>2, <3>3 DEF Canvas!DocumentOfPlan, Canvas!FocusStaysOnSheet
  <2>4. CASE PlanOf[s] # PlanOf[sheet]
    <3> DEFINE u == IF url = PlanOf[s] THEN url ELSE Canvas!None
    <3>1. urlCall' = PlanOf[s] /\ Canvas!Documented(u, s)
      BY <1>7, <2>4 DEF Canvas!SelectSheet
    <3>2. u \in {PlanOf[s], Canvas!None}
      OBVIOUS
    <3> HIDE DEF u
    <3>3. TasksType' /\ PicturesInv' /\ pdf' = Canvas!None /\ pdfCall' = u /\ overlay' = Canvas!Blank
      BY <1>0, <2>1, <3>1, DocumentedStep
    <3>4. CanvasTypes'
      BY <1>0, <1>2, <2>1, <2>2, <3>1, <3>2, <3>3, ViewFacts DEF CanvasTypes, PlacesType
    <3> QED
      BY <2>1, <2>2, <3>1, <3>2, <3>3, <3>4 DEF Canvas!DocumentOfPlan, Canvas!FocusStaysOnSheet
  <2> QED
    BY <2>3, <2>4
<1>8. CASE Canvas!Search
  <2>1. UNCHANGED <<sheet, url, urlCall, pdf, pdfCall, view, pan, viewport, overlay, picture, rects, centred>>
        /\ query' = ~query /\ Canvas!Rendering(sheet, pdf)
    BY <1>8 DEF Canvas!Search, Canvas!document, Canvas!screen
  <2>2. TasksType' /\ PicturesInv'
    BY <1>0, <2>1, RenderingStep DEF PicturesInv, ShownInv
  <2>3. CanvasTypes'
    BY <1>0, <2>1, <2>2 DEF CanvasTypes, PlacesType
  <2> QED
    BY <1>0, <2>1, <2>2, <2>3 DEF Canvas!DocumentOfPlan, Canvas!FocusStaysOnSheet
<1>9. ASSUME Canvas!Drag \/ (\E kind \in {"wheel", "focus"} \cup Canvas!Fits : Canvas!Gesture(kind)) \/ (\E g \in gestures : Canvas!FocusSkipped(g))
      PROVE  CanvasTypes' /\ PicturesInv' /\ Canvas!DocumentOfPlan' /\ Canvas!FocusStaysOnSheet'
  <2>1. UNCHANGED <<sheet, url, urlCall, pdf, pdfCall, view, token, tasks, viewport, overlay, picture, rects, query, centred>>
        /\ (pan' = pan \/ pan'.how = "drag")
    BY <1>9 DEF Canvas!Drag, Canvas!Gesture, Canvas!FocusSkipped, Canvas!document, Canvas!screen
  <2>2. PicturesInv'
    BY <1>0, <2>1, PicturesStay
  <2>3. CanvasTypes'
    BY <1>0, <2>1 DEF CanvasTypes, PlacesType, TasksType, Renderings
  <2> QED
    BY <1>0, <2>1, <2>2, <2>3 DEF Canvas!DocumentOfPlan, Canvas!FocusStaysOnSheet
<1>10. ASSUME NEW g \in gestures, Canvas!Wheel(g) \/ Canvas!Fit(g) \/ Canvas!Focus(g)
       PROVE  CanvasTypes' /\ PicturesInv' /\ Canvas!DocumentOfPlan' /\ Canvas!FocusStaysOnSheet'
  <2>1. g.kind = "focus" => g.sheet = sheet
    BY <1>10 DEF Canvas!Wheel, Canvas!Fit, Canvas!Focus, Canvas!Fits
  <2>2. \E v \in Canvas!Views : Canvas!Applied(g, v)
    BY <1>0, <1>10, ViewFacts DEF Canvas!Wheel, Canvas!Fit, Canvas!Focus
  <2>3. CanvasTypes' /\ PicturesInv' /\ UNCHANGED <<sheet, urlCall, pdf, pdfCall>> /\ pan'.how = g.kind /\ pan'.of = g.sheet
    BY <1>0, <2>2, AppliedStep
  <2> QED
    BY <1>0, <2>1, <2>3 DEF Canvas!DocumentOfPlan, Canvas!FocusStaysOnSheet
<1> QED
  BY <1>3, <1>4, <1>5, <1>6, <1>7, <1>8, <1>9, <1>10 DEF Canvas!Next

LEMMA CanvasInit ==
    ASSUME Canvas!Init
    PROVE  CanvasInv
<1>1. sheet \in Sheets /\ {url, urlCall, pdf, pdfCall} \subseteq Plans /\ view \in Canvas!Views /\ query \in BOOLEAN
  BY ViewFacts DEF Canvas!Init, Plans
<1>2. CanvasTypes
  BY <1>1 DEF Canvas!Init, CanvasTypes, TasksType, PlacesType
<1>3. PicturesInv
  BY DEF Canvas!Init, PicturesInv, TasksInv, ShownInv
<1>4. Canvas!DocumentOfPlan /\ Canvas!FocusStaysOnSheet
  BY DEF Canvas!Init, Canvas!DocumentOfPlan, Canvas!FocusStaysOnSheet
<1> QED
  BY <1>2, <1>3, <1>4, CanvasTypesFacts DEF CanvasInv

LEMMA CanvasShows ==
    ASSUME CanvasInv
    PROVE  Canvas!CanvasShowsSheet
BY DEF CanvasInv, PicturesInv, ShownInv, Shows, Canvas!CanvasShowsSheet

LEMMA CanvasStutter ==
    ASSUME CanvasInv, UNCHANGED <<sheet, ops, faults, canvas>>
    PROVE  CanvasInv'
BY DEF CanvasInv, canvas, Canvas!TypeOK, PicturesInv, TasksInv, ShownInv, Shows, Canvas!DocumentOfPlan, Canvas!FocusStaysOnSheet

-----------------------------------------------------------------------------
(* The strip: types.                                                       *)

Names == [StripSheets -> Strip!Rows]
Given == [StripSheets -> Manual \cup {Strip!None}]
AllLoads == [by : Strip!Waits, rows : Names, at : 0..clock]
Handlers == [Strip!Clicks -> [pc : {"idle", "post", "poll", "sleep"}, before : Names, late : BOOLEAN]]

ServerType ==
    /\ row \in Names /\ clock \in Nat /\ event \in Nat
    /\ task \in [Strip!Clicks -> {Strip!None, "queued", "all", "done"}]
EditType ==
    /\ editing \in StripSheets \cup {Strip!None} /\ confirm \in BOOLEAN
    /\ renames \subseteq [sheet : StripSheets, name : Manual, pc : {"sent", "ok"}]
ListType   == list \in Names /\ optimistic \in Given
SeenType   == seen \in [at : 0..clock, inOrder : BOOLEAN, missed : BOOLEAN]
LoadsType  == loads \subseteq AllLoads
FlagsType  == {abort, pending} \subseteq BOOLEAN /\ finish \in Strip!Clicks \cup {0}
LoopType   == loop \in Handlers
BoundsType == ops \in 0..MaxRenames /\ faults \in 0..MaxFaults
StripTypes ==
    /\ ServerType /\ EditType /\ ListType /\ SeenType /\ LoadsType /\ FlagsType /\ LoopType
    /\ spinner \in BOOLEAN /\ overtaken \subseteq StripSheets /\ BoundsType

LEMMA StripTypesFacts == Strip!TypeOK <=> StripTypes
BY DEF Strip!TypeOK, StripTypes, Names, Given, AllLoads, Handlers, ServerType, EditType, ListType, SeenType, LoadsType, FlagsType,
       LoopType, BoundsType

LEMMA LoadFacts ==
    ASSUME ServerType, NEW by \in Strip!Waits
    PROVE  Strip!Load(by) \in AllLoads /\ Strip!Load(by).by = by /\ Strip!Load(by).at = clock /\ Strip!Load(by).rows = row
BY DEF Strip!Load, AllLoads, ServerType

LEMMA WaitsFacts ==
    /\ <<"event", 0>> \in Strip!Waits /\ <<"rename", 0>> \in Strip!Waits
    /\ \A k \in Strip!Clicks : <<"poll", k>> \in Strip!Waits /\ <<"close", k>> \in Strip!Waits
BY DEF Strip!Waits

\* A refresh brings old names or the present ones, or fails and is missed.
LEMMA RefreshedFacts ==
    ASSUME ServerType, ListType, SeenType, BoundsType, NEW l \in AllLoads, Strip!Refreshed(l), UNCHANGED <<row, clock>>
    PROVE  /\ ListType' /\ SeenType' /\ faults' \in 0..MaxFaults
           /\ \A s \in StripSheets : optimistic'[s] \in {Strip!None, optimistic[s]}
           /\ ~seen'.missed => ~seen.missed /\ seen'.at >= l.at
           /\ seen'.at >= seen.at
           /\ \/ UNCHANGED list /\ seen'.inOrder = seen.inOrder /\ seen'.at = seen.at
              \/ seen'.inOrder => (list' = l.rows /\ seen'.at = l.at) \/ (list' = row /\ seen'.at = clock)
<1>0. clock \in Nat /\ l.at \in 0..clock /\ l.rows \in Names /\ row \in Names /\ list \in Names /\ optimistic \in Given
      /\ seen \in [at : 0..clock, inOrder : BOOLEAN, missed : BOOLEAN] /\ MaxFaults \in Nat /\ faults \in 0..MaxFaults
  BY ViewerAssumption DEF ServerType, ListType, SeenType, AllLoads, BoundsType
<1>1. CASE Strip!Faulty /\ seen' = [seen EXCEPT !.missed = TRUE] /\ UNCHANGED <<list, optimistic>>
  <2>1. faults' \in 0..MaxFaults
    BY <1>0, <1>1 DEF Strip!Faulty
  <2>2. seen'.missed /\ seen'.at = seen.at /\ seen'.inOrder = seen.inOrder
        /\ seen' \in [at : 0..clock, inOrder : BOOLEAN, missed : BOOLEAN] /\ seen.at \in 0..clock
    BY <1>0, <1>1
  <2>3. ListType' /\ SeenType'
    BY <1>0, <1>1, <2>2 DEF ListType, SeenType, Names, Given
  <2>4. seen'.at >= seen.at
    BY <1>0, <2>2
  <2> QED
    BY <1>1, <2>1, <2>2, <2>3, <2>4
<1> DEFINE Brings(rows, at) ==
             /\ (rows = l.rows /\ at = l.at) \/ (rows = row /\ at = clock)
             /\ list' = rows /\ optimistic' = Strip!Confirmed(rows) /\ UNCHANGED faults
             /\ seen' = [seen EXCEPT !.at = IF at > @ THEN at ELSE @, !.inOrder = at >= seen.at]
           Result ==
             /\ ListType' /\ SeenType' /\ faults' \in 0..MaxFaults
             /\ \A s \in StripSheets : optimistic'[s] \in {Strip!None, optimistic[s]}
             /\ ~seen'.missed => ~seen.missed /\ seen'.at >= l.at
             /\ seen'.at >= seen.at
             /\ \/ UNCHANGED list /\ seen'.inOrder = seen.inOrder /\ seen'.at = seen.at
                \/ seen'.inOrder => (list' = l.rows /\ seen'.at = l.at) \/ (list' = row /\ seen'.at = clock)
<1>2. ASSUME NEW rows, NEW at, Brings(rows, at) PROVE Result
  <2>1. at \in 0..clock /\ rows \in Names /\ at >= l.at /\ ((rows = l.rows /\ at = l.at) \/ (rows = row /\ at = clock))
    BY <1>0, <1>2
  <2>2. seen'.at = (IF at > seen.at THEN at ELSE seen.at) /\ seen'.inOrder = (at >= seen.at) /\ seen'.missed = seen.missed
        /\ seen' = [at |-> seen'.at, inOrder |-> seen'.inOrder, missed |-> seen'.missed]
    BY <1>0, <1>2
  <2>3. seen.at \in 0..clock /\ seen.missed \in BOOLEAN
    BY <1>0
  <2>4. seen'.at \in 0..clock /\ seen'.inOrder \in BOOLEAN /\ seen'.missed \in BOOLEAN
    BY <2>1, <2>2, <2>3
  <2>5. SeenType'
    BY <1>0, <2>2, <2>4 DEF SeenType
  <2>6. optimistic' \in Given /\ \A s \in StripSheets : optimistic'[s] \in {Strip!None, optimistic[s]}
    BY <1>0, <1>2 DEF Strip!Confirmed, Given
  <2>7. ListType'
    BY <1>2, <2>1, <2>6 DEF ListType, Names
  <2>8. seen'.at >= seen.at /\ seen'.at >= l.at /\ (seen'.inOrder => seen'.at = at)
    <3>1. seen.at \in Int /\ at \in Int /\ l.at \in Int
      BY <1>0, <2>1, <2>3
    <3>2. CASE at > seen.at
      BY <2>1, <2>2, <3>1, <3>2
    <3>3. CASE ~(at > seen.at)
      <4>1. seen'.at = seen.at /\ seen.at >= at
        BY <2>2, <3>1, <3>3
      <4>2. seen'.inOrder => at >= seen.at
        BY <2>2
      <4> QED
        BY <2>1, <3>1, <4>1, <4>2
    <3> QED
      BY <3>2, <3>3
  <2> QED
    BY <1>0, <1>2, <2>1, <2>2, <2>5, <2>6, <2>7, <2>8
<1>3. Strip!Refreshed(l) => \/ Strip!Faulty /\ seen' = [seen EXCEPT !.missed = TRUE] /\ UNCHANGED <<list, optimistic>>
                            \/ \E a \in {<<l.rows, l.at>>, <<row, clock>>} :
                                  /\ list' = a[1] /\ optimistic' = Strip!Confirmed(a[1])
                                  /\ seen' = [seen EXCEPT !.at = IF a[2] > @ THEN a[2] ELSE @, !.inOrder = a[2] >= seen.at]
                                  /\ UNCHANGED faults
  BY DEF Strip!Refreshed
<1>4. CASE \E a \in {<<l.rows, l.at>>, <<row, clock>>} :
              /\ list' = a[1] /\ optimistic' = Strip!Confirmed(a[1])
              /\ seen' = [seen EXCEPT !.at = IF a[2] > @ THEN a[2] ELSE @, !.inOrder = a[2] >= seen.at]
              /\ UNCHANGED faults
  <2>1. PICK a \in {<<l.rows, l.at>>, <<row, clock>>} :
              /\ list' = a[1] /\ optimistic' = Strip!Confirmed(a[1])
              /\ seen' = [seen EXCEPT !.at = IF a[2] > @ THEN a[2] ELSE @, !.inOrder = a[2] >= seen.at]
              /\ UNCHANGED faults
    BY <1>4
  <2>2. Brings(a[1], a[2])
    BY <2>1
  <2> HIDE DEF Brings, Result
  <2>3. Result
    BY <1>2, <2>2
  <2> QED
    BY <2>3 DEF Result
<1> QED
  BY <1>1, <1>3, <1>4

\* A handler goes to a step, or its two minutes are over.
LEMMA GotoFacts ==
    ASSUME LoopType, NEW k \in Strip!Clicks, NEW pc \in {"idle", "post", "poll", "sleep"}, Strip!Goto(k, pc)
    PROVE  LoopType' /\ loop'[k].pc = pc /\ \A j \in Strip!Clicks \ {k} : loop'[j] = loop[j]
<1>1. loop[k] \in [pc : {"idle", "post", "poll", "sleep"}, before : Names, late : BOOLEAN] /\ DOMAIN loop = Strip!Clicks
  BY DEF LoopType, Handlers
<1> DEFINE h == [loop[k] EXCEPT !.pc = pc]
<1>2. h \in [pc : {"idle", "post", "poll", "sleep"}, before : Names, late : BOOLEAN] /\ h.pc = pc
  BY <1>1
<1>3. loop' = [loop EXCEPT ![k] = h]
  BY DEF Strip!Goto
<1> HIDE DEF h
<1>4. loop'[k] = h /\ \A j \in Strip!Clicks \ {k} : loop'[j] = loop[j]
  BY <1>1, <1>3
<1>5. loop' \in Handlers
  BY <1>2, <1>3 DEF LoopType, Handlers
<1> QED
  BY <1>2, <1>4, <1>5 DEF LoopType, Handlers, Names

LEMMA FinishFacts ==
    ASSUME ServerType, LoadsType, FlagsType, NEW k \in Strip!Clicks, NEW others \in SUBSET loads, Strip!Finish(k, others), UNCHANGED clock
    PROVE  LoadsType' /\ FlagsType' /\ loads' \subseteq others \cup {Strip!Load(<<"close", k>>)} /\ others \subseteq loads'
<1>1. <<"close", k>> \in Strip!Waits
  BY WaitsFacts
<1>2. Strip!Load(<<"close", k>>) \in AllLoads
  BY <1>1, LoadFacts
<1>3. loads' \subseteq others \cup {Strip!Load(<<"close", k>>)} /\ others \subseteq loads'
  BY DEF Strip!Finish
<1>4. FlagsType'
  BY DEF Strip!Finish, Strip!flags, FlagsType
<1>5. AllLoads' = AllLoads
  BY DEF AllLoads
<1>6. LoadsType'
  BY <1>2, <1>3, <1>5 DEF LoadsType
<1> QED
  BY <1>3, <1>4, <1>6

-----------------------------------------------------------------------------
(* The strip: names.  What the newest list lacks is told by an event, a    *)
(* rename that was answered or a refresh with the rows of now; and a name  *)
(* that is shown before the list has it is on its way, or the server's.    *)

NamesInv ==
    /\ ~seen.missed => \/ event > 0
                       \/ \E r \in renames : r.pc = "ok"
                       \/ \E l \in loads : l.at = clock
                       \/ seen.at = clock
    /\ \A l \in loads : l.at = clock => l.rows = row
    /\ seen.inOrder /\ seen.at = clock => list = row
    /\ \A s \in StripSheets : optimistic[s] # Strip!None =>
          \/ s \in overtaken
          \/ \E r \in renames : r.pc = "sent" /\ r.sheet = s /\ r.name = optimistic[s]
          \/ row[s].name = optimistic[s]

Quiet == UNCHANGED <<row, clock, event, renames, overtaken>>
NewLoads == \A l \in loads' : l \in loads \/ (l.at = clock /\ l.rows = row)

LEMMA NamesKept ==
    ASSUME NamesInv, Quiet, UNCHANGED <<list, optimistic, seen>>, NewLoads, loads \subseteq loads'
    PROVE  NamesInv'
BY DEF NamesInv, Quiet, NewLoads

LEMMA NamesRefreshed ==
    ASSUME StripTypes, NamesInv, NEW l \in loads, Strip!Refreshed(l), Quiet, NewLoads, loads \ {l} \subseteq loads'
    PROVE  NamesInv'
<1>1. l \in AllLoads /\ UNCHANGED <<row, clock>> /\ clock \in Nat
  BY DEF StripTypes, LoadsType, Quiet, ServerType
<1>2. /\ SeenType' /\ \A s \in StripSheets : optimistic'[s] \in {Strip!None, optimistic[s]}
      /\ ~seen'.missed => ~seen.missed /\ seen'.at >= l.at
      /\ seen'.at >= seen.at
      /\ \/ UNCHANGED list /\ seen'.inOrder = seen.inOrder /\ seen'.at = seen.at
         \/ seen'.inOrder => (list' = l.rows /\ seen'.at = l.at) \/ (list' = row /\ seen'.at = clock)
  BY <1>1, RefreshedFacts DEF StripTypes
<1>3. seen'.at \in 0..clock /\ seen.at \in 0..clock
  BY <1>1, <1>2 DEF SeenType, StripTypes
<1>4. ~seen'.missed => event' > 0 \/ (\E r \in renames' : r.pc = "ok") \/ (\E m \in loads' : m.at = clock') \/ seen'.at = clock'
  <2>1. l.at = clock /\ ~seen'.missed => seen'.at = clock
    BY <1>1, <1>2, <1>3
  <2>2. seen.at = clock => seen'.at = clock
    BY <1>1, <1>2, <1>3
  <2> QED
    BY <1>1, <1>2, <2>1, <2>2 DEF NamesInv, Quiet
<1>5. \A m \in loads' : m.at = clock' => m.rows = row'
  BY <1>1 DEF NamesInv, NewLoads
<1>6. seen'.inOrder /\ seen'.at = clock' => list' = row'
  BY <1>1, <1>2 DEF NamesInv
<1>7. \A s \in StripSheets : optimistic'[s] # Strip!None =>
          \/ s \in overtaken'
          \/ \E r \in renames' : r.pc = "sent" /\ r.sheet = s /\ r.name = optimistic'[s]
          \/ row'[s].name = optimistic'[s]
  BY <1>2 DEF NamesInv, Quiet
<1> QED
  BY <1>4, <1>5, <1>6, <1>7 DEF NamesInv

\* The server's own changes: a list of before is not the newest any more.
LEMMA NamesServed ==
    ASSUME StripTypes, NamesInv, clock' = clock + 1, UNCHANGED <<loads, list, optimistic, seen>>,
           event' > 0 \/ \E r \in renames' : r.pc = "ok",
           \A s \in StripSheets : optimistic[s] # Strip!None =>
              \/ s \in overtaken'
              \/ \E r \in renames' : r.pc = "sent" /\ r.sheet = s /\ r.name = optimistic[s]
              \/ row'[s].name = optimistic[s]
    PROVE  NamesInv'
<1>1. clock \in Nat /\ seen.at \in 0..clock /\ \A l \in loads : l.at \in 0..clock
  BY DEF StripTypes, ServerType, SeenType, LoadsType, AllLoads
<1>2. \A l \in loads' : l.at # clock'
  BY <1>1
<1>3. seen'.at # clock'
  BY <1>1
<1> QED
  BY <1>2, <1>3 DEF NamesInv

LEMMA ServeNames ==
    ASSUME StripTypes, NamesInv, NEW r \in renames, Strip!ServeRename(r)
    PROVE  NamesInv'
<1>1. /\ r.pc = "sent" /\ clock' = clock + 1 /\ UNCHANGED <<event, loads, list, optimistic, seen>>
      /\ renames' = (renames \ {r}) \cup {[r EXCEPT !.pc = "ok"]}
      /\ row' = [row EXCEPT ![r.sheet] = [name |-> r.name, source |-> "manual"]]
      /\ overtaken' = IF optimistic[r.sheet] \in {Strip!None, r.name} THEN overtaken \ {r.sheet} ELSE overtaken \cup {r.sheet}
  BY DEF Strip!ServeRename
<1>2. r \in [sheet : StripSheets, name : Manual, pc : {"sent", "ok"}] /\ row \in Names
  BY DEF StripTypes, EditType, ServerType
<1>3. [r EXCEPT !.pc = "ok"].pc = "ok" /\ [r EXCEPT !.pc = "ok"] \in renames'
  BY <1>1, <1>2
<1>4. row'[r.sheet].name = r.name /\ \A s \in StripSheets \ {r.sheet} : row'[s] = row[s]
  BY <1>1, <1>2 DEF Names
<1>5. ASSUME NEW s \in StripSheets, optimistic[s] # Strip!None
      PROVE  \/ s \in overtaken'
             \/ \E q \in renames' : q.pc = "sent" /\ q.sheet = s /\ q.name = optimistic[s]
             \/ row'[s].name = optimistic[s]
  <2>1. CASE s = r.sheet
    BY <1>1, <1>4, <1>5, <2>1
  <2>2. CASE s # r.sheet
    <3>1. s \in overtaken => s \in overtaken'
      BY <1>1, <2>2
    <3>2. \A q \in renames : q.sheet = s => q \in renames'
      BY <1>1, <2>2
    <3> QED
      BY <1>4, <1>5, <2>2, <3>1, <3>2 DEF NamesInv
  <2> QED
    BY <2>1, <2>2
<1>6. \E q \in renames' : q.pc = "ok"
  BY <1>3
<1> QED
  BY <1>1, <1>5, <1>6, NamesServed

LEMMA TaskNamed ==
    ASSUME StripTypes, NamesInv, NEW k \in Strip!Clicks, Strip!TaskNames(k)
    PROVE  NamesInv'
<1> DEFINE named == {s \in StripSheets : task[k] = "all" \/ row[s].source # "manual"}
<1>1. /\ row' = [s \in StripSheets |-> IF s \in named THEN [name |-> Strip!Auto, source |-> "auto"] ELSE row[s]]
      /\ overtaken' = overtaken \cup {s \in named : optimistic[s] # Strip!None}
      /\ clock' = clock + 1 /\ event' = event + 1 /\ UNCHANGED <<loads, list, optimistic, seen, renames>>
  BY DEF Strip!TaskNames, Strip!strip
<1> HIDE DEF named
<1>2. event' > 0
  BY <1>1 DEF StripTypes, ServerType
<1>3. \A s \in StripSheets : s \in named \/ row'[s] = row[s]
  BY <1>1
<1>4. \A s \in StripSheets : optimistic[s] # Strip!None =>
              \/ s \in overtaken'
              \/ \E q \in renames' : q.pc = "sent" /\ q.sheet = s /\ q.name = optimistic[s]
              \/ row'[s].name = optimistic[s]
  BY <1>1, <1>3 DEF NamesInv
<1> QED
  BY <1>1, <1>2, <1>4, NamesServed

LEMMA RenameNames ==
    ASSUME StripTypes, NamesInv, NEW n \in Manual, Strip!Rename(n)
    PROVE  NamesInv'
<1> DEFINE r == [sheet |-> editing, name |-> n, pc |-> "sent"]
<1>1. UNCHANGED <<row, clock, event, loads, list, seen, overtaken>> /\ renames' = renames \cup {r}
      /\ optimistic' = [optimistic EXCEPT ![editing] = n]
  BY DEF Strip!Rename, Strip!Untouched, Strip!server, Strip!history
<1>2. r \in renames' /\ r.pc = "sent" /\ r.sheet = editing /\ r.name = n
  BY <1>1
<1> HIDE DEF r
<1>3. optimistic \in Given
  BY DEF StripTypes, ListType
<1>4. \A s \in StripSheets : (s = editing /\ optimistic'[s] = n) \/ optimistic'[s] = optimistic[s]
  BY <1>1, <1>3 DEF Given
<1>5. renames \subseteq renames'
  BY <1>1
<1> QED
  BY <1>1, <1>2, <1>4, <1>5 DEF NamesInv

LEMMA RenameFailNames ==
    ASSUME StripTypes, NamesInv, NEW r \in renames, Strip!RenameFails(r)
    PROVE  NamesInv'
<1>1. UNCHANGED <<row, clock, event, loads, list, seen, overtaken>> /\ renames' = renames \ {r} /\ r.pc = "sent"
      /\ optimistic' = [optimistic EXCEPT ![r.sheet] = Strip!None]
  BY DEF Strip!RenameFails, Strip!Untouched, Strip!server, Strip!history
<1>2. optimistic \in Given
  BY DEF StripTypes, ListType
<1>3. \A s \in StripSheets : (s = r.sheet /\ optimistic'[s] = Strip!None) \/ (s # r.sheet /\ optimistic'[s] = optimistic[s])
  BY <1>1, <1>2 DEF Given
<1>4. \A q \in renames : q \in renames' \/ q = r
  BY <1>1
<1> QED
  BY <1>1, <1>3, <1>4 DEF NamesInv

LEMMA FinishLoads ==
    ASSUME StripTypes, NEW k \in Strip!Clicks, NEW others \in SUBSET loads, Strip!Finish(k, others)
    PROVE  NewLoads /\ others \subseteq loads'
<1>1. <<"close", k>> \in Strip!Waits
  BY WaitsFacts
<1>2. Strip!Load(<<"close", k>>).at = clock /\ Strip!Load(<<"close", k>>).rows = row
  BY <1>1, LoadFacts DEF StripTypes
<1>3. loads' \subseteq others \cup {Strip!Load(<<"close", k>>)} /\ others \subseteq loads'
  BY DEF Strip!Finish
<1> QED
  BY <1>2, <1>3 DEF NewLoads

LEMMA AskLoads ==
    ASSUME StripTypes, NEW by \in Strip!Waits, Strip!Ask(by)
    PROVE  NewLoads /\ loads \subseteq loads' /\ \E l \in loads' : l.at = clock
<1>1. Strip!Load(by).at = clock /\ Strip!Load(by).rows = row
  BY LoadFacts DEF StripTypes
<1> QED
  BY <1>1 DEF NewLoads, Strip!Ask

LEMMA NamesStep ==
    ASSUME StripTypes, NamesInv, pending => finish \in Strip!Clicks, Strip!Next
    PROVE  NamesInv'
<1>1. ASSUME (\E s \in StripSheets : Strip!StartEdit(s)) \/ Strip!CancelEdit \/ Strip!Click \/ Strip!CancelConfirm PROVE NamesInv'
  <2>1. Quiet /\ UNCHANGED <<list, optimistic, seen, loads>>
    BY <1>1 DEF Strip!StartEdit, Strip!CancelEdit, Strip!Click, Strip!CancelConfirm, Strip!Untouched, Strip!server, Strip!history, Quiet
  <2> QED
    BY <2>1, NamesKept DEF NewLoads
<1>2. ASSUME NEW n \in Manual, Strip!Rename(n) PROVE NamesInv'
  BY <1>2, RenameNames
<1>3. ASSUME NEW r \in renames, Strip!ServeRename(r) \/ Strip!RenameFails(r) PROVE NamesInv'
  BY <1>3, ServeNames, RenameFailNames
<1>4. ASSUME NEW r \in renames, Strip!RenameOk(r) PROVE NamesInv'
  <2>1. UNCHANGED <<row, clock, event, list, optimistic, seen, overtaken>> /\ renames' = renames \ {r} /\ r.pc = "ok"
        /\ Strip!Ask(<<"rename", 0>>)
    BY <1>4 DEF Strip!RenameOk, Strip!server, Strip!history
  <2>2. NewLoads /\ loads \subseteq loads' /\ \E l \in loads' : l.at = clock
    BY <2>1, AskLoads, WaitsFacts
  <2>3. \A q \in renames : q \in renames' \/ q.pc # "sent"
    BY <2>1
  <2> QED
    BY <2>1, <2>2, <2>3 DEF NamesInv, NewLoads
<1>5. ASSUME NEW k \in Strip!Clicks, NEW o \in BOOLEAN, Strip!AutoName(k, o) PROVE NamesInv'
  <2>1. Quiet /\ UNCHANGED <<list, optimistic, seen, loads>>
    BY <1>5 DEF Strip!AutoName, Strip!Unnamed, Strip!history, Quiet
  <2> QED
    BY <2>1, NamesKept DEF NewLoads
<1>6. ASSUME NEW k \in Strip!Clicks, Strip!Posted(k) \/ Strip!Wakes(k) \/ Strip!PostFails(k) \/ Strip!Deadline(k) \/ Strip!GivesUp(k) PROVE NamesInv'
  <2>1. Quiet /\ UNCHANGED <<list, optimistic, seen>>
    BY <1>6 DEF Strip!Posted, Strip!Wakes, Strip!PostFails, Strip!Deadline, Strip!GivesUp, Strip!Unnamed, Strip!history, Strip!server, Strip!strip, Quiet
  <2>2. Strip!Ask(<<"poll", k>>) \/ Strip!Finish(k, loads) \/ UNCHANGED loads
    BY <1>6 DEF Strip!Posted, Strip!Wakes, Strip!PostFails, Strip!Deadline, Strip!GivesUp
  <2>3. NewLoads /\ loads \subseteq loads'
    <3>1. CASE Strip!Ask(<<"poll", k>>)
      BY <3>1, AskLoads, WaitsFacts
    <3>2. CASE Strip!Finish(k, loads)
      BY <3>2, FinishLoads
    <3>3. CASE UNCHANGED loads
      BY <3>3 DEF NewLoads
    <3> QED
      BY <2>2, <3>1, <3>2, <3>3
  <2> QED
    BY <2>1, <2>3, NamesKept
<1>7. ASSUME NEW k \in Strip!Clicks, NEW l \in loads, Strip!Polled(k, l) \/ Strip!Closes(k, l) \/ Strip!EventHandled(l) \/ Strip!Renamed(l) PROVE NamesInv'
  <2>1. Quiet /\ Strip!Refreshed(l)
    BY <1>7 DEF Strip!Polled, Strip!Closes, Strip!EventHandled, Strip!Renamed, Strip!server, Quiet
  <2>2. (\E j \in Strip!Clicks : Strip!Finish(j, loads \ {l})) \/ loads' = loads \ {l}
    BY <1>7 DEF Strip!Polled, Strip!Closes, Strip!EventHandled, Strip!Renamed
  <2>3. NewLoads /\ loads \ {l} \subseteq loads'
    <3>1. ASSUME NEW j \in Strip!Clicks, Strip!Finish(j, loads \ {l}) PROVE NewLoads /\ loads \ {l} \subseteq loads'
      BY <3>1, FinishLoads
    <3>2. CASE loads' = loads \ {l}
      BY <3>2 DEF NewLoads
    <3> QED
      BY <2>2, <3>1, <3>2
  <2> QED
    BY <2>1, <2>3, NamesRefreshed
<1>8. ASSUME NEW k \in Strip!Clicks, Strip!TaskNames(k) PROVE NamesInv'
  BY <1>8, TaskNamed
<1>9. CASE Strip!EventArrives
  <2>1. UNCHANGED <<row, clock, list, optimistic, renames, overtaken>>
    BY <1>9 DEF Strip!EventArrives, Strip!strip
  <2>2. CASE Strip!Ask(<<"event", 0>>) /\ UNCHANGED seen
    <3>1. NewLoads /\ loads \subseteq loads' /\ \E l \in loads' : l.at = clock
      BY <2>2, AskLoads, WaitsFacts
    <3> QED
      BY <2>1, <2>2, <3>1 DEF NamesInv, NewLoads
  <2>3. CASE seen' = [seen EXCEPT !.missed = TRUE] /\ UNCHANGED loads
    <3>1. seen'.missed /\ seen'.at = seen.at /\ seen'.inOrder = seen.inOrder
      BY <2>3 DEF StripTypes, SeenType
    <3> QED
      BY <2>1, <2>3, <3>1 DEF NamesInv
  <2> QED
    BY <1>9, <2>2, <2>3 DEF Strip!EventArrives
<1>10. \E k \in Strip!Clicks : TRUE
  BY DEF Strip!Clicks
<1> QED
  BY <1>1, <1>2, <1>3, <1>4, <1>5, <1>6, <1>7, <1>8, <1>9, <1>10 DEF Strip!Next, Strip!Handler

-----------------------------------------------------------------------------
(* The strip: the button.  One click at a time is being sent, waited for   *)
(* by a loop with the flag lowered, or closed by its last refresh.         *)

Clicks == Strip!Clicks
Closing == {l \in loads : l.by[1] = "close"}
Polls(k) == {l \in loads : l.by = <<"poll", k>>}
Posting == \E k \in Clicks : loop[k].pc = "post"
Waiting(k) == loop[k].pc \in {"poll", "sleep"}

SpinInv ==
    /\ \A j, k \in Clicks : loop[j].pc = "post" /\ loop[k].pc = "post" => j = k
    /\ Posting => spinner /\ ~pending /\ Closing = {}
    /\ pending => ~abort /\ spinner /\ Closing = {} /\ finish \in Clicks /\ \E k \in Clicks : Waiting(k)
    /\ ~abort /\ (\E k \in Clicks : Waiting(k)) => pending
    /\ spinner => Posting \/ pending \/ Closing # {}
    /\ \A l, m \in Closing : l = m
    /\ Closing # {} => spinner
    /\ \A k \in Clicks : /\ Polls(k) # {} => loop[k].pc = "poll"
                         /\ \A l, m \in Polls(k) : l = m
                         /\ task[k] = Strip!None => loop[k].pc = "idle"

LEMMA SpinStay ==
    ASSUME SpinInv, UNCHANGED <<spinner, abort, pending, finish>>, UNCHANGED Closing,
           \A k \in Clicks : loop'[k].pc = loop[k].pc /\ UNCHANGED Polls(k) /\ (task'[k] = Strip!None => task[k] = Strip!None)
    PROVE  SpinInv'
<1>1. UNCHANGED Posting /\ \A k \in Clicks : UNCHANGED Waiting(k)
  BY DEF Posting, Waiting
<1> HIDE DEF Posting, Waiting, Closing, Polls
<1> QED
  BY <1>1 DEF SpinInv, Clicks, Strip!Clicks

\* An event and a rename ask for no refresh of the button.
LEMMA SpinAsk ==
    ASSUME NEW by, by[1] # "close", \A k \in Clicks : by # <<"poll", k>>, Strip!Ask(by)
    PROVE  UNCHANGED Closing /\ \A k \in Clicks : UNCHANGED Polls(k)
BY DEF Strip!Ask, Strip!Load, Closing, Polls, Clicks, Strip!Clicks

LEMMA SpinPoll ==
    ASSUME NEW k \in Clicks, Strip!Ask(<<"poll", k>>), Polls(k) = {}
    PROVE  /\ UNCHANGED Closing /\ \A l, m \in Polls(k)' : l = m
           /\ \A j \in Clicks \ {k} : UNCHANGED Polls(j)
<1>1. loads' = loads \cup {Strip!Load(<<"poll", k>>)} /\ Strip!Load(<<"poll", k>>).by = <<"poll", k>>
  BY DEF Strip!Ask, Strip!Load
<1>2. <<"poll", k>>[1] # "close" /\ \A j \in Clicks \ {k} : <<"poll", k>> # <<"poll", j>>
  OBVIOUS
<1> QED
  BY <1>1, <1>2 DEF Closing, Polls, Clicks, Strip!Clicks

\* Finishing ends what is pending with a last refresh, and does nothing twice.
LEMMA SpinFinish ==
    ASSUME SpinInv, {abort, pending} \subseteq BOOLEAN, NEW k \in Clicks, NEW others \in SUBSET loads, Strip!Finish(k, others), Closing \subseteq others,
           pending \/ abort, UNCHANGED <<spinner, task>>,
           \A j \in Clicks : \/ loop'[j].pc = loop[j].pc
                             \/ Waiting(j) /\ loop'[j].pc = "idle" /\ Polls(j) \cap others = {}
    PROVE  SpinInv'
<1>1. Posting' = Posting /\ \A j \in Clicks : loop'[j].pc = "post" <=> loop[j].pc = "post"
  BY DEF Posting, Waiting, Clicks, Strip!Clicks
<1>2. \A j \in Clicks : Waiting(j)' => Waiting(j)
  BY DEF Waiting
<1> DEFINE last == Strip!Load(<<"close", k>>)
<1>3. last.by = <<"close", k>> /\ <<"close", k>>[1] = "close" /\ \A j \in Clicks : <<"close", k>> # <<"poll", j>>
  BY DEF Strip!Load
<1> HIDE DEF last
<1>4. loads' \subseteq others \cup {last}
  BY DEF Strip!Finish, last
<1>5. \A j \in Clicks : Polls(j)' \subseteq Polls(j) \cap others
  BY <1>3, <1>4 DEF Polls, Clicks, Strip!Clicks
<1>6. \A j \in Clicks : /\ Polls(j)' # {} => loop'[j].pc = "poll"
                        /\ \A l, m \in Polls(j)' : l = m
                        /\ task'[j] = Strip!None => loop'[j].pc = "idle"
  BY <1>5 DEF SpinInv
<1>7. CASE abort
  <2>1. loads' = others /\ UNCHANGED <<abort, pending, finish>>
    BY <1>7 DEF Strip!Finish, Strip!flags
  <2>2. ~pending
    BY <1>7 DEF SpinInv
  <2>3. Closing' = Closing
    BY <2>1 DEF Closing
  <2> HIDE DEF Closing, Posting
  <2> QED
    BY <1>1, <1>2, <1>6, <1>7, <2>1, <2>2, <2>3 DEF SpinInv, Clicks, Strip!Clicks
<1>8. CASE ~abort
  <2>1. abort' = TRUE /\ pending' = FALSE /\ loads' = others \cup {last}
    BY <1>8 DEF Strip!Finish, last
  <2>2. pending /\ spinner /\ Closing = {} /\ ~Posting
    BY <1>8 DEF SpinInv
  <2>3. Closing' = {last}
    BY <1>3, <2>1, <2>2 DEF Closing
  <2> HIDE DEF Closing, Posting
  <2> QED
    BY <1>1, <1>6, <2>1, <2>2, <2>3 DEF SpinInv, Clicks, Strip!Clicks
<1> QED
  BY <1>7, <1>8

LEMMA AutoNameSpin ==
    ASSUME StripTypes, SpinInv, NEW k \in Clicks, NEW o \in BOOLEAN, Strip!AutoName(k, o)
    PROVE  SpinInv'
<1>1. ~spinner /\ spinner' /\ UNCHANGED <<loads, abort, pending, finish>> /\ task[k] = Strip!None
      /\ loop' = [loop EXCEPT ![k] = [pc |-> "post", before |-> list, late |-> FALSE]]
      /\ task' = [task EXCEPT ![k] = IF o THEN "all" ELSE "queued"]
  BY DEF Strip!AutoName, Strip!flags, Clicks, Strip!Clicks
<1>2. ~Posting /\ ~pending /\ Closing = {} /\ loop[k].pc = "idle" /\ Polls(k) = {}
  BY <1>1 DEF SpinInv
<1>3. DOMAIN loop = Clicks /\ DOMAIN task = Clicks
  BY DEF StripTypes, LoopType, Handlers, ServerType, Clicks
<1>4. loop'[k].pc = "post" /\ task'[k] # Strip!None /\ \A j \in Clicks \ {k} : loop'[j] = loop[j] /\ task'[j] = task[j]
  BY <1>1, <1>3 DEF Strip!None
<1>5. Closing' = {} /\ \A j \in Clicks : UNCHANGED Polls(j)
  BY <1>1, <1>2 DEF Closing, Polls
<1>6. Posting' /\ \A j \in Clicks : Waiting(j)' => Waiting(j)
  BY <1>4 DEF Posting, Waiting, Clicks, Strip!Clicks
<1>7. \A j \in Clicks : loop'[j].pc = "post" => j = k
  BY <1>2, <1>4 DEF Posting
<1> HIDE DEF Closing, Posting, Polls
<1> QED
  BY <1>1, <1>2, <1>4, <1>5, <1>6, <1>7 DEF SpinInv, Clicks, Strip!Clicks

LEMMA PostedSpin ==
    ASSUME StripTypes, SpinInv, NEW k \in Clicks, Strip!Posted(k)
    PROVE  SpinInv'
<1>1. loop[k].pc = "post" /\ UNCHANGED <<spinner, task>> /\ ~abort' /\ pending' /\ finish' = k /\ Strip!Goto(k, "poll")
      /\ Strip!Ask(<<"poll", k>>)
  BY DEF Strip!Posted, Strip!In
<1>2. spinner /\ Closing = {} /\ Polls(k) = {} /\ \A j \in Clicks : loop[j].pc = "post" => j = k
  BY <1>1 DEF SpinInv, Posting
<1>3. loop'[k].pc = "poll" /\ \A j \in Clicks \ {k} : loop'[j] = loop[j]
  BY <1>1, GotoFacts DEF StripTypes, Clicks
<1>4. Closing' = {} /\ (\A l, m \in Polls(k)' : l = m) /\ \A j \in Clicks \ {k} : UNCHANGED Polls(j)
  BY <1>1, <1>2, SpinPoll
<1>5. ~Posting' /\ Waiting(k)'
  BY <1>2, <1>3 DEF Posting, Waiting, Clicks, Strip!Clicks
<1>6. \A j \in Clicks : loop'[j].pc # "post"
  BY <1>2, <1>3
<1>7. \A j \in Clicks : /\ Polls(j)' # {} => loop'[j].pc = "poll"
                        /\ \A l, m \in Polls(j)' : l = m
                        /\ task'[j] = Strip!None => loop'[j].pc = "idle"
  BY <1>1, <1>3, <1>4 DEF SpinInv
<1> HIDE DEF Closing, Posting, Polls, Waiting
<1> QED
  BY <1>1, <1>2, <1>4, <1>5, <1>6, <1>7 DEF SpinInv, Clicks, Strip!Clicks

LEMMA PostFailsSpin ==
    ASSUME StripTypes, SpinInv, NEW k \in Clicks, Strip!PostFails(k)
    PROVE  SpinInv'
<1>1. loop[k].pc = "post" /\ ~spinner' /\ UNCHANGED <<loads, abort, pending, finish>> /\ Strip!Goto(k, "idle")
      /\ task' \in {task, [task EXCEPT ![k] = "done"]}
  BY DEF Strip!PostFails, Strip!In, Strip!flags
<1>2. ~pending /\ Closing = {} /\ Polls(k) = {} /\ \A j \in Clicks : loop[j].pc = "post" => j = k
  BY <1>1 DEF SpinInv, Posting
<1>3. loop'[k].pc = "idle" /\ \A j \in Clicks \ {k} : loop'[j] = loop[j]
  BY <1>1, GotoFacts DEF StripTypes, Clicks
<1>4. Closing' = {} /\ \A j \in Clicks : UNCHANGED Polls(j)
  BY <1>1, <1>2 DEF Closing, Polls
<1>5. ~Posting' /\ (\A j \in Clicks : loop'[j].pc # "post") /\ \A j \in Clicks : Waiting(j)' => Waiting(j)
  BY <1>2, <1>3 DEF Posting, Waiting, Clicks, Strip!Clicks
<1>6. \A j \in Clicks : task'[j] = Strip!None => loop'[j].pc = "idle"
  <2>1. DOMAIN task = Clicks
    BY DEF StripTypes, ServerType, Clicks
  <2> QED
    BY <1>1, <1>3, <2>1 DEF SpinInv, Strip!None
<1>7. \A j \in Clicks : /\ Polls(j)' # {} => loop'[j].pc = "poll"
                        /\ \A l, m \in Polls(j)' : l = m
  BY <1>2, <1>3, <1>4 DEF SpinInv
<1> HIDE DEF Closing, Posting, Polls, Waiting
<1> QED
  BY <1>1, <1>2, <1>4, <1>5, <1>6, <1>7 DEF SpinInv, Clicks, Strip!Clicks

\* A loop that sleeps wakes to ask again, or to see that it is over.
LEMMA WakesSpin ==
    ASSUME StripTypes, SpinInv, NEW k \in Clicks, Strip!Wakes(k)
    PROVE  SpinInv'
<1>1. loop[k].pc = "sleep" /\ UNCHANGED <<spinner, task, abort, pending, finish>> /\ Waiting(k)
  BY DEF Strip!Wakes, Strip!In, Strip!flags, Waiting
<1>2. Polls(k) = {}
  BY <1>1 DEF SpinInv
<1>3. CASE abort
  <2>1. Strip!Goto(k, "idle") /\ UNCHANGED loads
    BY <1>3 DEF Strip!Wakes
  <2>2. loop'[k].pc = "idle" /\ \A j \in Clicks \ {k} : loop'[j] = loop[j]
    BY <2>1, GotoFacts DEF StripTypes, Clicks
  <2>3. UNCHANGED Closing /\ \A j \in Clicks : UNCHANGED Polls(j)
    BY <2>1 DEF Closing, Polls
  <2>4. Posting' = Posting /\ \A j \in Clicks : loop'[j].pc = "post" => loop[j].pc = "post"
    BY <1>1, <2>2 DEF Posting, Clicks, Strip!Clicks
  <2>5. \A j \in Clicks : /\ Polls(j)' # {} => loop'[j].pc = "poll"
                          /\ \A l, m \in Polls(j)' : l = m
                          /\ task'[j] = Strip!None => loop'[j].pc = "idle"
    BY <1>1, <1>2, <2>2, <2>3 DEF SpinInv
  <2>6. ~pending
    BY <1>3 DEF SpinInv
  <2> HIDE DEF Closing, Posting, Polls, Waiting
  <2> QED
    BY <1>1, <1>3, <2>3, <2>4, <2>5, <2>6 DEF SpinInv, Clicks, Strip!Clicks
<1>4. CASE ~abort
  <2>1. Strip!Goto(k, "poll") /\ Strip!Ask(<<"poll", k>>)
    BY <1>4 DEF Strip!Wakes
  <2>2. loop'[k].pc = "poll" /\ \A j \in Clicks \ {k} : loop'[j] = loop[j]
    BY <2>1, GotoFacts DEF StripTypes, Clicks
  <2>3. UNCHANGED Closing /\ (\A l, m \in Polls(k)' : l = m) /\ \A j \in Clicks \ {k} : UNCHANGED Polls(j)
    BY <1>2, <2>1, SpinPoll
  <2>4. Posting' = Posting /\ (\A j \in Clicks : loop'[j].pc = "post" => loop[j].pc = "post") /\ Waiting(k)'
    BY <1>1, <2>2 DEF Posting, Waiting, Clicks, Strip!Clicks
  <2>5. \A j \in Clicks : /\ Polls(j)' # {} => loop'[j].pc = "poll"
                          /\ \A l, m \in Polls(j)' : l = m
                          /\ task'[j] = Strip!None => loop'[j].pc = "idle"
    BY <1>1, <2>2, <2>3 DEF SpinInv
  <2>6. pending
    BY <1>1, <1>4 DEF SpinInv
  <2> HIDE DEF Closing, Posting, Polls, Waiting
  <2> QED
    BY <1>1, <1>4, <2>3, <2>4, <2>5, <2>6 DEF SpinInv, Clicks, Strip!Clicks
<1> QED
  BY <1>3, <1>4

LEMMA GivesUpSpin ==
    ASSUME StripTypes, SpinInv, NEW k \in Clicks, Strip!GivesUp(k)
    PROVE  SpinInv'
<1>1. loop[k].pc = "sleep" /\ UNCHANGED <<spinner, task>> /\ Waiting(k) /\ Strip!Goto(k, "idle")
  BY DEF Strip!GivesUp, Strip!In, Waiting
<1>2. Polls(k) = {}
  BY <1>1 DEF SpinInv
<1>3. loop'[k].pc = "idle" /\ \A j \in Clicks \ {k} : loop'[j] = loop[j]
  BY <1>1, GotoFacts DEF StripTypes, Clicks
<1>4. CASE pending
  <2>1. Strip!Finish(k, loads)
    BY <1>4 DEF Strip!GivesUp
  <2>2. Closing \subseteq loads /\ loads \in SUBSET loads
    BY DEF Closing
  <2>3. \A j \in Clicks : loop'[j].pc = loop[j].pc \/ (Waiting(j) /\ loop'[j].pc = "idle" /\ Polls(j) \cap loads = {})
    BY <1>1, <1>2, <1>3
  <2>4. {abort, pending} \subseteq BOOLEAN
    BY DEF StripTypes, FlagsType
  <2> QED
    BY <1>1, <1>4, <2>1, <2>2, <2>3, <2>4, SpinFinish
<1>5. CASE ~pending
  <2>1. UNCHANGED <<loads, abort, pending, finish>>
    BY <1>5 DEF Strip!GivesUp, Strip!flags
  <2>2. abort
    BY <1>1, <1>5 DEF SpinInv
  <2>3. UNCHANGED Closing /\ \A j \in Clicks : UNCHANGED Polls(j)
    BY <2>1 DEF Closing, Polls
  <2>4. Posting' = Posting /\ \A j \in Clicks : loop'[j].pc = "post" => loop[j].pc = "post"
    BY <1>1, <1>3 DEF Posting, Clicks, Strip!Clicks
  <2>5. \A j \in Clicks : /\ Polls(j)' # {} => loop'[j].pc = "poll"
                          /\ \A l, m \in Polls(j)' : l = m
                          /\ task'[j] = Strip!None => loop'[j].pc = "idle"
    BY <1>1, <1>2, <1>3, <2>3 DEF SpinInv
  <2> HIDE DEF Closing, Posting, Polls, Waiting
  <2> QED
    BY <1>1, <1>5, <2>1, <2>2, <2>3, <2>4, <2>5 DEF SpinInv, Clicks, Strip!Clicks
<1> QED
  BY <1>4, <1>5

LEMMA PolledSpin ==
    ASSUME StripTypes, SpinInv, NEW k \in Clicks, NEW l \in loads, Strip!Polled(k, l)
    PROVE  SpinInv'
<1>1. l \in Polls(k) /\ UNCHANGED <<spinner, task>> /\ l.by[1] # "close" /\ l.by = <<"poll", k>>
  BY DEF Strip!Polled, Strip!server, Polls
<1>2. loop[k].pc = "poll" /\ Waiting(k) /\ (\A m \in Polls(k) : m = l) /\ {abort, pending} \subseteq BOOLEAN /\ (pending \/ abort)
  BY <1>1 DEF SpinInv, Waiting, StripTypes, FlagsType
<1>3. Closing \subseteq loads \ {l} /\ Polls(k) \cap (loads \ {l}) = {}
  BY <1>1, <1>2 DEF Closing
<1>4. CASE list' # loop[k].before
  <2>1. Strip!Finish(k, loads \ {l}) /\ Strip!Goto(k, "idle")
    BY <1>4 DEF Strip!Polled
  <2>2. loop'[k].pc = "idle" /\ \A j \in Clicks \ {k} : loop'[j] = loop[j]
    BY <2>1, GotoFacts DEF StripTypes, Clicks
  <2>3. \A j \in Clicks : loop'[j].pc = loop[j].pc \/ (Waiting(j) /\ loop'[j].pc = "idle" /\ Polls(j) \cap (loads \ {l}) = {})
    BY <1>2, <1>3, <2>2
  <2> QED
    BY <1>1, <1>2, <1>3, <2>1, <2>3, SpinFinish
<1>5. CASE list' = loop[k].before
  <2>1. loads' = loads \ {l} /\ UNCHANGED <<abort, pending, finish>> /\ Strip!Goto(k, IF abort THEN "idle" ELSE "sleep")
    BY <1>5 DEF Strip!Polled, Strip!flags
  <2>2. loop'[k].pc = (IF abort THEN "idle" ELSE "sleep") /\ \A j \in Clicks \ {k} : loop'[j] = loop[j]
    BY <2>1, GotoFacts DEF StripTypes, Clicks
  <2>3. UNCHANGED Closing /\ Polls(k)' = {} /\ \A j \in Clicks \ {k} : UNCHANGED Polls(j)
    BY <1>1, <1>2, <2>1 DEF Closing, Polls, Clicks, Strip!Clicks
  <2>4. Posting' = Posting /\ \A j \in Clicks : loop'[j].pc = "post" => loop[j].pc = "post"
    BY <1>2, <2>2 DEF Posting, Clicks, Strip!Clicks
  <2>5. ~abort => Waiting(k)'
    BY <2>2 DEF Waiting
  <2>6. \A j \in Clicks : /\ Polls(j)' # {} => loop'[j].pc = "poll"
                          /\ \A m, n \in Polls(j)' : m = n
                          /\ task'[j] = Strip!None => loop'[j].pc = "idle"
    BY <1>1, <1>2, <2>2, <2>3 DEF SpinInv
  <2> HIDE DEF Closing, Posting, Polls, Waiting
  <2> QED
    BY <1>1, <1>2, <2>1, <2>3, <2>4, <2>5, <2>6 DEF SpinInv, Clicks, Strip!Clicks
<1> QED
  BY <1>4, <1>5

LEMMA ClosesSpin ==
    ASSUME StripTypes, SpinInv, NEW k \in Clicks, NEW l \in loads, Strip!Closes(k, l)
    PROVE  SpinInv'
<1>1. l \in Closing /\ loads' = loads \ {l} /\ ~spinner' /\ UNCHANGED <<abort, pending, finish, loop, task>> /\ l.by = <<"close", k>>
  BY DEF Strip!Closes, Strip!server, Strip!flags, Closing
<1>2. ~Posting /\ ~pending /\ \A m \in Closing : m = l
  BY <1>1 DEF SpinInv
<1>3. Closing' = {} /\ \A j \in Clicks : UNCHANGED Polls(j)
  <2>1. \A j \in Clicks : l.by # <<"poll", j>>
    BY <1>1
  <2> QED
    BY <1>1, <1>2, <2>1 DEF Closing, Polls, Clicks, Strip!Clicks
<1>4. UNCHANGED Posting /\ \A j \in Clicks : UNCHANGED Waiting(j)
  BY <1>1 DEF Posting, Waiting
<1> HIDE DEF Closing, Posting, Polls, Waiting
<1> QED
  BY <1>1, <1>2, <1>3, <1>4 DEF SpinInv, Clicks, Strip!Clicks

\* A refresh that is not the button's changes what it has only by finishing.
LEMMA OtherLoad ==
    ASSUME NEW l \in loads, l.by = <<"event", 0>> \/ l.by = <<"rename", 0>>
    PROVE  l \notin Closing /\ \A j \in Clicks : l \notin Polls(j)
<1>1. l.by[1] # "close" /\ l.by[1] # "poll"
  OBVIOUS
<1>2. \A j \in Clicks : l.by # <<"poll", j>>
  BY <1>1
<1> QED
  BY <1>1, <1>2 DEF Closing, Polls

LEMMA EventSpin ==
    ASSUME StripTypes, SpinInv, NEW l \in loads, Strip!EventHandled(l) \/ Strip!Renamed(l)
    PROVE  SpinInv'
<1>1. UNCHANGED <<spinner, loop, task>> /\ (l.by = <<"event", 0>> \/ l.by = <<"rename", 0>>)
      /\ \/ pending /\ Strip!Finish(finish, loads \ {l})
         \/ loads' = loads \ {l} /\ UNCHANGED <<abort, pending, finish>>
  BY DEF Strip!EventHandled, Strip!Renamed, Strip!server, Strip!naming, Strip!flags
<1>2. l \notin Closing /\ \A j \in Clicks : l \notin Polls(j)
  BY <1>1, OtherLoad
<1>3. CASE pending /\ Strip!Finish(finish, loads \ {l})
  <2>1. finish \in Clicks /\ {abort, pending} \subseteq BOOLEAN /\ Closing \subseteq loads \ {l}
    BY <1>2, <1>3 DEF SpinInv, StripTypes, FlagsType, Closing
  <2> QED
    BY <1>1, <1>3, <2>1, SpinFinish
<1>4. CASE loads' = loads \ {l} /\ UNCHANGED <<abort, pending, finish>>
  <2>1. UNCHANGED Closing /\ \A j \in Clicks : UNCHANGED Polls(j)
    BY <1>2, <1>4 DEF Closing, Polls, Clicks, Strip!Clicks
  <2> QED
    BY <1>1, <1>4, <2>1, SpinStay
<1> QED
  BY <1>1, <1>3, <1>4

LEMMA SpinStep ==
    ASSUME StripTypes, SpinInv, Strip!Next
    PROVE  SpinInv'
<1>1. ASSUME \/ \E s \in StripSheets : Strip!StartEdit(s)
             \/ Strip!CancelEdit \/ Strip!Click \/ Strip!CancelConfirm
             \/ \E n \in Manual : Strip!Rename(n)
             \/ \E r \in renames : Strip!ServeRename(r) \/ Strip!RenameFails(r)
      PROVE SpinInv'
  <2>1. UNCHANGED <<spinner, abort, pending, finish, loop, task, loads>>
    BY <1>1 DEF Strip!StartEdit, Strip!CancelEdit, Strip!Click, Strip!CancelConfirm, Strip!Rename, Strip!ServeRename, Strip!RenameFails,
                Strip!Untouched, Strip!server, Strip!naming, Strip!flags
  <2>2. UNCHANGED Closing /\ \A j \in Clicks : UNCHANGED Polls(j)
    BY <2>1 DEF Closing, Polls
  <2> QED
    BY <2>1, <2>2, SpinStay
<1>2. ASSUME NEW by, by = <<"event", 0>> \/ by = <<"rename", 0>>, Strip!Ask(by),
             UNCHANGED <<spinner, abort, pending, finish, loop, task>>
      PROVE SpinInv'
  <2>1. by[1] # "close" /\ by[1] # "poll"
    BY <1>2
  <2>2. \A k \in Clicks : by # <<"poll", k>>
    BY <2>1
  <2>3. UNCHANGED Closing /\ \A j \in Clicks : UNCHANGED Polls(j)
    BY <1>2, <2>1, <2>2, SpinAsk
  <2> QED
    BY <1>2, <2>3, SpinStay
<1>3. ASSUME NEW r \in renames, Strip!RenameOk(r) PROVE SpinInv'
  BY <1>2, <1>3 DEF Strip!RenameOk, Strip!server, Strip!naming, Strip!flags
<1>4. CASE Strip!EventArrives
  <2>1. UNCHANGED <<spinner, abort, pending, finish, loop, task>>
    BY <1>4 DEF Strip!EventArrives, Strip!naming, Strip!flags
  <2>2. CASE Strip!Ask(<<"event", 0>>)
    BY <1>2, <2>1, <2>2
  <2>3. CASE UNCHANGED loads
    <3>1. UNCHANGED Closing /\ \A j \in Clicks : UNCHANGED Polls(j)
      BY <2>3 DEF Closing, Polls
    <3> QED
      BY <2>1, <3>1, SpinStay
  <2> QED
    BY <1>4, <2>2, <2>3 DEF Strip!EventArrives
<1>5. ASSUME NEW k \in Clicks, Strip!Deadline(k) \/ Strip!TaskNames(k) PROVE SpinInv'
  <2>1. UNCHANGED <<spinner, abort, pending, finish, loads>>
    BY <1>5 DEF Strip!Deadline, Strip!TaskNames, Strip!naming, Strip!flags
  <2>2. \A j \in Clicks : loop'[j].pc = loop[j].pc /\ (task'[j] = Strip!None => task[j] = Strip!None)
    <3>1. DOMAIN task = Clicks /\ DOMAIN loop = Clicks
          /\ loop[k] \in [pc : {"idle", "post", "poll", "sleep"}, before : Names, late : BOOLEAN]
      BY DEF StripTypes, ServerType, LoopType, Handlers, Clicks
    <3>2. CASE Strip!TaskNames(k)
      BY <3>1, <3>2 DEF Strip!TaskNames, Strip!naming, Strip!None
    <3>3. CASE Strip!Deadline(k)
      <4>1. task' = task /\ loop' = [loop EXCEPT ![k] = [loop[k] EXCEPT !.late = TRUE]]
        BY <3>3 DEF Strip!Deadline, Strip!server
      <4>2. [loop[k] EXCEPT !.late = TRUE].pc = loop[k].pc
        BY <3>1
      <4> QED
        BY <3>1, <4>1, <4>2
    <3> QED
      BY <1>5, <3>2, <3>3
  <2>3. UNCHANGED Closing /\ \A j \in Clicks : UNCHANGED Polls(j)
    BY <2>1 DEF Closing, Polls
  <2> QED
    BY <2>1, <2>2, <2>3, SpinStay
<1>6. ASSUME NEW k \in Clicks, NEW o \in BOOLEAN, Strip!AutoName(k, o) PROVE SpinInv'
  BY <1>6, AutoNameSpin
<1>7. ASSUME NEW k \in Clicks, Strip!Posted(k) \/ Strip!PostFails(k) \/ Strip!Wakes(k) \/ Strip!GivesUp(k) PROVE SpinInv'
  BY <1>7, PostedSpin, PostFailsSpin, WakesSpin, GivesUpSpin
<1>8. ASSUME NEW k \in Clicks, NEW l \in loads, Strip!Polled(k, l) \/ Strip!Closes(k, l) PROVE SpinInv'
  BY <1>8, PolledSpin, ClosesSpin
<1>9. ASSUME NEW l \in loads, Strip!EventHandled(l) \/ Strip!Renamed(l) PROVE SpinInv'
  BY <1>9, EventSpin
<1> QED
  BY <1>1, <1>3, <1>4, <1>5, <1>6, <1>7, <1>8, <1>9 DEF Strip!Next, Strip!Handler, Clicks

-----------------------------------------------------------------------------
(* The strip: its types are kept.                                          *)

LEMMA AskType ==
    ASSUME ServerType, LoadsType, NEW by \in Strip!Waits, Strip!Ask(by), UNCHANGED clock
    PROVE  LoadsType'
<1>1. Strip!Load(by) \in AllLoads /\ AllLoads' = AllLoads
  BY LoadFacts DEF AllLoads
<1> QED
  BY <1>1 DEF LoadsType, Strip!Ask

\* Time passes on the server: what was asked for before stays as old as it is.
LEMMA LaterType ==
    ASSUME ServerType, LoadsType, SeenType, clock' = clock + 1, UNCHANGED <<loads, seen>>
    PROVE  LoadsType' /\ SeenType'
<1>1. clock \in Nat /\ \A at \in 0..clock : at \in 0..clock'
  BY DEF ServerType
<1>2. \A l \in loads : l \in AllLoads'
  BY <1>1 DEF LoadsType, AllLoads
<1>3. seen \in [at : 0..clock', inOrder : BOOLEAN, missed : BOOLEAN]
  BY <1>1 DEF SeenType
<1> QED
  BY <1>2, <1>3 DEF LoadsType, SeenType

LEMMA StripTypeStep ==
    ASSUME StripTypes, pending => finish \in Strip!Clicks, Strip!Next
    PROVE  StripTypes'
<1>0. /\ ServerType /\ EditType /\ ListType /\ SeenType /\ LoadsType /\ FlagsType /\ LoopType /\ spinner \in BOOLEAN
      /\ overtaken \subseteq StripSheets /\ BoundsType
      /\ row \in Names /\ list \in Names /\ optimistic \in Given /\ clock \in Nat /\ event \in Nat
      /\ task \in [Strip!Clicks -> {Strip!None, "queued", "all", "done"}]
      /\ MaxRenames \in Nat /\ MaxFaults \in Nat
  BY ViewerAssumption DEF StripTypes, ServerType, ListType
<1>1. \A r \in renames : r \in [sheet : StripSheets, name : Manual, pc : {"sent", "ok"}]
  BY <1>0 DEF EditType
<1> DEFINE ServerSame == UNCHANGED <<row, clock, event, task>>
           EditSame == UNCHANGED <<editing, confirm, renames>>
           ListSame == UNCHANGED <<list, optimistic>>
           FlagsSame == UNCHANGED <<abort, pending, finish>>
<1>2. /\ ServerSame => ServerType'
      /\ EditSame => EditType'
      /\ ListSame => ListType'
      /\ UNCHANGED <<seen, clock>> => SeenType'
      /\ (loads' \subseteq loads /\ UNCHANGED clock) => LoadsType'
      /\ FlagsSame => FlagsType'
      /\ UNCHANGED loop => LoopType'
      /\ UNCHANGED <<ops, faults>> => BoundsType'
      /\ UNCHANGED spinner => spinner' \in BOOLEAN
      /\ UNCHANGED overtaken => overtaken' \subseteq StripSheets
  BY <1>0 DEF ServerType, EditType, ListType, Names, Given, SeenType, LoadsType, AllLoads, FlagsType, LoopType, Handlers, BoundsType
<1>3. ops < MaxRenames /\ ops' = ops + 1 /\ UNCHANGED faults => BoundsType'
  BY <1>0 DEF BoundsType
<1>4. Strip!Faulty /\ UNCHANGED ops => BoundsType'
  BY <1>0 DEF BoundsType, Strip!Faulty
<1> HIDE DEF ServerSame, EditSame, ListSame, FlagsSame
<1>5. ASSUME (\E s \in StripSheets : Strip!StartEdit(s)) \/ Strip!CancelEdit \/ Strip!Click \/ Strip!CancelConfirm PROVE StripTypes'
  <2>1. ServerSame /\ ListSame /\ FlagsSame /\ UNCHANGED <<clock, seen, loads, loop, ops, faults, spinner, overtaken, renames>>
    BY <1>5 DEF Strip!StartEdit, Strip!CancelEdit, Strip!Click, Strip!CancelConfirm, Strip!Untouched, Strip!server, Strip!history,
                Strip!naming, Strip!flags, Strip!bounds, ServerSame, ListSame, FlagsSame
  <2>2. editing' \in StripSheets \cup {Strip!None} /\ confirm' \in BOOLEAN
    BY <1>0, <1>5 DEF Strip!StartEdit, Strip!CancelEdit, Strip!Click, Strip!CancelConfirm, EditType
  <2>3. EditType'
    BY <1>0, <2>1, <2>2 DEF EditType
  <2> QED
    BY <1>2, <2>1, <2>3 DEF StripTypes
<1>6. ASSUME NEW n \in Manual, Strip!Rename(n) PROVE StripTypes'
  <2>1. ServerSame /\ FlagsSame /\ UNCHANGED <<clock, list, seen, loads, loop, faults, spinner, overtaken, confirm>>
        /\ ops < MaxRenames /\ ops' = ops + 1
    BY <1>6 DEF Strip!Rename, Strip!Untouched, Strip!server, Strip!history, Strip!naming, Strip!flags, ServerSame, FlagsSame
  <2>2. editing \in StripSheets /\ editing' = Strip!None /\ optimistic' = [optimistic EXCEPT ![editing] = n]
        /\ renames' = renames \cup {[sheet |-> editing, name |-> n, pc |-> "sent"]}
    BY <1>0, <1>6 DEF Strip!Rename, EditType
  <2>3. EditType'
    BY <1>0, <2>1, <2>2 DEF EditType
  <2>4. ListType'
    BY <1>0, <2>1, <2>2 DEF ListType, Given, Names
  <2> QED
    BY <1>2, <1>3, <2>1, <2>3, <2>4 DEF StripTypes
<1>7. ASSUME NEW r \in renames, Strip!ServeRename(r) PROVE StripTypes'
  <2>1. ListSame /\ FlagsSame /\ UNCHANGED <<event, task, seen, loads, loop, ops, faults, spinner, editing, confirm>>
        /\ clock' = clock + 1 /\ row' = [row EXCEPT ![r.sheet] = [name |-> r.name, source |-> "manual"]]
        /\ renames' = (renames \ {r}) \cup {[r EXCEPT !.pc = "ok"]} /\ overtaken' \subseteq overtaken \cup {r.sheet}
    BY <1>7 DEF Strip!ServeRename, Strip!naming, Strip!flags, Strip!bounds, ListSame, FlagsSame
  <2>2. [name |-> r.name, source |-> "manual"] \in Strip!Rows /\ [r EXCEPT !.pc = "ok"] \in [sheet : StripSheets, name : Manual, pc : {"sent", "ok"}]
        /\ r.sheet \in StripSheets
    BY <1>1 DEF Strip!Rows
  <2>3. row' \in Names
    BY <1>0, <2>1, <2>2 DEF Names
  <2>4. ServerType' /\ EditType'
    BY <1>0, <1>1, <2>1, <2>2, <2>3 DEF ServerType, EditType, Names
  <2>5. LoadsType' /\ SeenType'
    BY <1>0, <2>1, LaterType
  <2> QED
    BY <1>0, <1>2, <2>1, <2>2, <2>4, <2>5 DEF StripTypes
<1>8. ASSUME NEW r \in renames, Strip!RenameOk(r) PROVE StripTypes'
  <2>1. ServerSame /\ ListSame /\ FlagsSame /\ UNCHANGED <<clock, seen, loop, ops, faults, spinner, overtaken, editing, confirm>>
        /\ renames' \subseteq renames /\ Strip!Ask(<<"rename", 0>>)
    BY <1>8 DEF Strip!RenameOk, Strip!server, Strip!history, Strip!naming, Strip!flags, Strip!bounds, ServerSame, ListSame, FlagsSame
  <2>2. EditType'
    BY <1>0, <2>1 DEF EditType
  <2>3. LoadsType'
    BY <1>0, <2>1, AskType, WaitsFacts
  <2> QED
    BY <1>2, <2>1, <2>2, <2>3 DEF StripTypes
<1>9. ASSUME NEW r \in renames, Strip!RenameFails(r) PROVE StripTypes'
  <2>1. ServerSame /\ FlagsSame /\ UNCHANGED <<clock, list, seen, loads, loop, ops, spinner, overtaken, confirm>> /\ Strip!Faulty
        /\ renames' \subseteq renames /\ editing' = r.sheet /\ optimistic' = [optimistic EXCEPT ![r.sheet] = Strip!None]
    BY <1>9 DEF Strip!RenameFails, Strip!Untouched, Strip!server, Strip!history, Strip!naming, Strip!flags, ServerSame, FlagsSame
  <2>2. EditType'
    BY <1>0, <1>1, <2>1 DEF EditType
  <2>3. ListType'
    BY <1>0, <2>1 DEF ListType, Given, Names
  <2> QED
    BY <1>2, <1>4, <2>1, <2>2, <2>3 DEF StripTypes
<1>10. ASSUME NEW k \in Strip!Clicks, NEW o \in BOOLEAN, Strip!AutoName(k, o) PROVE StripTypes'
  <2>1. ListSame /\ FlagsSame /\ UNCHANGED <<row, clock, event, seen, loads, faults, overtaken, editing, renames>>
        /\ ops < MaxRenames /\ ops' = ops + 1 /\ confirm' = FALSE /\ spinner' = TRUE
        /\ loop' = [loop EXCEPT ![k] = [pc |-> "post", before |-> list, late |-> FALSE]]
        /\ task' = [task EXCEPT ![k] = IF o THEN "all" ELSE "queued"]
    BY <1>10 DEF Strip!AutoName, Strip!Unnamed, Strip!history, Strip!flags, ListSame, FlagsSame
  <2>2. ServerType' /\ EditType'
    BY <1>0, <2>1 DEF ServerType, EditType, Names
  <2>3. [pc |-> "post", before |-> list, late |-> FALSE] \in [pc : {"idle", "post", "poll", "sleep"}, before : Names, late : BOOLEAN]
    BY <1>0
  <2>4. LoopType'
    BY <1>0, <2>1, <2>3 DEF LoopType, Handlers, Names
  <2> QED
    BY <1>2, <1>3, <2>1, <2>2, <2>4 DEF StripTypes
<1>11. ASSUME NEW k \in Strip!Clicks, Strip!Posted(k) PROVE StripTypes'
  <2>1. ServerSame /\ ListSame /\ EditSame /\ UNCHANGED <<clock, seen, ops, faults, spinner, overtaken>>
        /\ abort' = FALSE /\ pending' = TRUE /\ finish' = k /\ Strip!Goto(k, "poll") /\ Strip!Ask(<<"poll", k>>)
    BY <1>11 DEF Strip!Posted, Strip!Unnamed, Strip!history, Strip!bounds, ServerSame, ListSame, EditSame
  <2>2. LoopType' /\ LoadsType'
    BY <1>0, <2>1, GotoFacts, AskType, WaitsFacts
  <2>3. FlagsType'
    BY <2>1 DEF FlagsType
  <2> QED
    BY <1>2, <2>1, <2>2, <2>3 DEF StripTypes
<1>12. ASSUME NEW k \in Strip!Clicks, Strip!PostFails(k) PROVE StripTypes'
  <2>1. ListSame /\ EditSame /\ FlagsSame /\ UNCHANGED <<row, clock, event, seen, loads, ops, overtaken>> /\ Strip!Faulty
        /\ spinner' = FALSE /\ Strip!Goto(k, "idle") /\ task' \in {task, [task EXCEPT ![k] = "done"]}
    BY <1>12 DEF Strip!PostFails, Strip!Unnamed, Strip!history, Strip!flags, ListSame, EditSame, FlagsSame
  <2>2. ServerType'
    BY <1>0, <2>1 DEF ServerType, Names
  <2>3. LoopType'
    BY <1>0, <2>1, GotoFacts
  <2> QED
    BY <1>2, <1>4, <2>1, <2>2, <2>3 DEF StripTypes
<1>13. ASSUME NEW k \in Strip!Clicks, Strip!Deadline(k) PROVE StripTypes'
  <2>1. ServerSame /\ ListSame /\ EditSame /\ FlagsSame /\ UNCHANGED <<clock, seen, loads, ops, faults, spinner, overtaken>>
        /\ loop' = [loop EXCEPT ![k] = [loop[k] EXCEPT !.late = TRUE]]
    BY <1>13 DEF Strip!Deadline, Strip!server, Strip!strip, Strip!flags, Strip!history, Strip!bounds, ServerSame, ListSame, EditSame, FlagsSame
  <2>2. [loop[k] EXCEPT !.late = TRUE] \in [pc : {"idle", "post", "poll", "sleep"}, before : Names, late : BOOLEAN]
    BY <1>0 DEF LoopType, Handlers
  <2>3. LoopType'
    BY <1>0, <2>1, <2>2 DEF LoopType, Handlers, Names
  <2> QED
    BY <1>2, <2>1, <2>3 DEF StripTypes
<1>14. ASSUME NEW k \in Strip!Clicks, Strip!Wakes(k) \/ Strip!GivesUp(k) PROVE StripTypes'
  <2>1. ServerSame /\ ListSame /\ EditSame /\ UNCHANGED <<clock, seen, ops, faults, spinner, overtaken>>
        /\ (Strip!Goto(k, "idle") \/ Strip!Goto(k, "poll"))
    BY <1>14 DEF Strip!Wakes, Strip!GivesUp, Strip!Unnamed, Strip!history, Strip!bounds, ServerSame, ListSame, EditSame
  <2>2. LoopType'
    BY <1>0, <2>1, GotoFacts
  <2>3. \/ (UNCHANGED loads \/ Strip!Ask(<<"poll", k>>)) /\ FlagsSame
        \/ Strip!Finish(k, loads)
    BY <1>14 DEF Strip!Wakes, Strip!GivesUp, Strip!flags, FlagsSame
  <2>4. LoadsType' /\ FlagsType'
    <3>1. CASE UNCHANGED loads /\ FlagsSame
      BY <1>2, <2>1, <3>1
    <3>2. CASE Strip!Ask(<<"poll", k>>) /\ FlagsSame
      BY <1>0, <1>2, <2>1, <3>2, AskType, WaitsFacts
    <3>3. CASE Strip!Finish(k, loads)
      BY <1>0, <2>1, <3>3, FinishFacts
    <3> QED
      BY <2>3, <3>1, <3>2, <3>3
  <2> QED
    BY <1>2, <2>1, <2>2, <2>4 DEF StripTypes
<1>15. ASSUME NEW k \in Strip!Clicks, NEW l \in loads, Strip!Polled(k, l) \/ Strip!Closes(k, l) \/ Strip!EventHandled(l) \/ Strip!Renamed(l)
       PROVE  StripTypes'
  <2>1. ServerSame /\ EditSame /\ UNCHANGED <<row, clock, ops, overtaken>> /\ Strip!Refreshed(l) /\ (UNCHANGED spinner \/ spinner' = FALSE)
    BY <1>15 DEF Strip!Polled, Strip!Closes, Strip!EventHandled, Strip!Renamed, Strip!server, Strip!naming, ServerSame, EditSame
  <2>2. l \in AllLoads
    BY <1>0 DEF LoadsType
  <2>3. ListType' /\ SeenType' /\ faults' \in 0..MaxFaults
    BY <1>0, <2>1, <2>2, RefreshedFacts
  <2>4. BoundsType'
    BY <1>0, <2>1, <2>3 DEF BoundsType
  <2>5. LoopType'
    <3>1. UNCHANGED loop \/ Strip!Goto(k, "idle") \/ Strip!Goto(k, "sleep")
      BY <1>15 DEF Strip!Polled, Strip!Closes, Strip!EventHandled, Strip!Renamed, Strip!naming
    <3> QED
      BY <1>0, <1>2, <3>1, GotoFacts
  <2>6. (loads' = loads \ {l} /\ FlagsSame) \/ \E j \in Strip!Clicks : Strip!Finish(j, loads \ {l})
    BY <1>15 DEF Strip!Polled, Strip!Closes, Strip!EventHandled, Strip!Renamed, Strip!naming, Strip!flags, FlagsSame
  <2>7. LoadsType' /\ FlagsType'
    <3>1. CASE loads' = loads \ {l} /\ FlagsSame
      BY <1>2, <2>1, <3>1
    <3>2. ASSUME NEW j \in Strip!Clicks, Strip!Finish(j, loads \ {l}) PROVE LoadsType' /\ FlagsType'
      BY <1>0, <2>1, <3>2, FinishFacts
    <3> QED
      BY <2>6, <3>1, <3>2
  <2> QED
    BY <1>2, <2>1, <2>3, <2>4, <2>5, <2>7 DEF StripTypes
<1>16. ASSUME NEW k \in Strip!Clicks, Strip!TaskNames(k) PROVE StripTypes'
  <2> DEFINE named == {s \in StripSheets : task[k] = "all" \/ row[s].source # "manual"}
  <2>1. ListSame /\ EditSame /\ FlagsSame /\ UNCHANGED <<seen, loads, loop, ops, faults, spinner>>
        /\ row' = [s \in StripSheets |-> IF s \in named THEN [name |-> Strip!Auto, source |-> "auto"] ELSE row[s]]
        /\ overtaken' = overtaken \cup {s \in named : optimistic[s] # Strip!None}
        /\ clock' = clock + 1 /\ event' = event + 1 /\ task' = [task EXCEPT ![k] = "done"]
    BY <1>16 DEF Strip!TaskNames, Strip!strip, Strip!naming, Strip!flags, Strip!bounds, ListSame, EditSame, FlagsSame
  <2>2. overtaken' \subseteq StripSheets
    BY <1>0, <2>1
  <2> HIDE DEF named
  <2>3. row' \in Names
    BY <1>0, <2>1 DEF Names, Strip!Rows
  <2>4. ServerType'
    BY <1>0, <2>1, <2>3 DEF ServerType, Names
  <2>5. LoadsType' /\ SeenType'
    BY <1>0, <2>1, LaterType
  <2> QED
    BY <1>2, <2>1, <2>2, <2>4, <2>5 DEF StripTypes
<1>17. CASE Strip!EventArrives
  <2>1. ListSame /\ EditSame /\ FlagsSame /\ UNCHANGED <<row, clock, task, loop, ops, spinner, overtaken>> /\ event' = event - 1 /\ event > 0
    BY <1>17 DEF Strip!EventArrives, Strip!strip, Strip!naming, Strip!flags, ListSame, EditSame, FlagsSame
  <2>2. ServerType'
    BY <1>0, <2>1 DEF ServerType, Names
  <2>3. SeenType' /\ LoadsType' /\ BoundsType'
    <3>1. CASE Strip!Ask(<<"event", 0>>) /\ UNCHANGED <<seen, faults>>
      BY <1>0, <1>2, <2>1, <3>1, AskType, WaitsFacts
    <3>2. CASE Strip!Faulty /\ seen' = [seen EXCEPT !.missed = TRUE] /\ UNCHANGED loads
      BY <1>0, <1>2, <1>4, <2>1, <3>2 DEF SeenType
    <3> QED
      BY <1>17, <3>1, <3>2 DEF Strip!EventArrives
  <2> QED
    BY <1>2, <2>1, <2>2, <2>3 DEF StripTypes
<1>18. \E k \in Strip!Clicks : TRUE
  BY DEF Strip!Clicks
<1> QED
  BY <1>5, <1>6, <1>7, <1>8, <1>9, <1>10, <1>11, <1>12, <1>13, <1>14, <1>15, <1>16, <1>17, <1>18 DEF Strip!Next, Strip!Handler

-----------------------------------------------------------------------------
(* The strip's invariant, and what it says of the names and the button.    *)

StripInv == StripTypes /\ NamesInv /\ SpinInv

LEMMA StripStep ==
    ASSUME StripInv, Strip!Next
    PROVE  StripInv'
<1>1. pending => finish \in Strip!Clicks
  BY DEF StripInv, SpinInv, Clicks
<1> QED
  BY <1>1, StripTypeStep, NamesStep, SpinStep DEF StripInv

LEMMA StripInit ==
    ASSUME Strip!Init
    PROVE  StripInv
<1>1. row = [s \in StripSheets |-> [name |-> Strip!None, source |-> Strip!None]] /\ row \in Names
  BY DEF Strip!Init, Names, Strip!Rows
<1>2. 0 \in Nat /\ 0 \in 0..0 /\ 0 \in 0..MaxRenames /\ 0 \in 0..MaxFaults
  BY ViewerAssumption
<1>3. ServerType /\ EditType /\ ListType
  BY <1>1, <1>2 DEF Strip!Init, ServerType, EditType, ListType, Given
<1>4. SeenType /\ LoadsType /\ FlagsType /\ BoundsType
  BY <1>2 DEF Strip!Init, SeenType, LoadsType, FlagsType, BoundsType
<1>5. LoopType
  BY <1>1 DEF Strip!Init, LoopType, Handlers
<1>6. StripTypes
  BY <1>3, <1>4, <1>5 DEF StripTypes, Strip!Init
<1>7. NamesInv
  BY DEF Strip!Init, NamesInv
<1>8. Closing = {} /\ ~Posting /\ \A k \in Clicks : Polls(k) = {} /\ ~Waiting(k) /\ loop[k].pc = "idle"
  BY DEF Strip!Init, Closing, Posting, Polls, Waiting, Clicks
<1>9. SpinInv
  BY <1>8 DEF Strip!Init, SpinInv
<1> QED
  BY <1>6, <1>7, <1>9 DEF StripInv

LEMMA StripShows ==
    ASSUME StripInv
    PROVE  Strip!NamesShown
<1>1. SUFFICES ASSUME Strip!Quiet, seen.inOrder, ~seen.missed, NEW s \in StripSheets
               PROVE  Strip!Shown(s) = row[s].name \/ s \in overtaken
  BY DEF Strip!NamesShown
<1>2. renames = {} /\ loads = {} /\ event = 0
  BY <1>1 DEF Strip!Quiet
<1>3. list = row
  BY <1>1, <1>2 DEF StripInv, NamesInv
<1>4. optimistic[s] # Strip!None => s \in overtaken \/ row[s].name = optimistic[s]
  BY <1>2 DEF StripInv, NamesInv
<1> QED
  BY <1>3, <1>4 DEF Strip!Shown

\* The strip counts with the operator of the library, under its own name.
LEMMA SameSize == \A S : Strip!Cardinality(S) = Cardinality(S)
BY DEF Strip!Cardinality, Cardinality

LEMMA StripEnds ==
    ASSUME StripInv
    PROVE  Strip!SpinnerHasItsEnd
<1>1. spinner => \/ \E k \in Strip!Clicks : Strip!In(k, "post")
                 \/ ~abort /\ \E k \in Strip!Clicks : ~Strip!In(k, "idle")
                 \/ \E l \in loads : l.by[1] = "close"
  <2>1. CASE Posting
    BY <2>1 DEF Posting, Strip!In, Clicks
  <2>2. CASE pending
    BY <2>2 DEF StripInv, SpinInv, Waiting, Strip!In, Clicks
  <2>3. CASE Closing # {}
    BY <2>3 DEF Closing
  <2> QED
    BY <2>1, <2>2, <2>3 DEF StripInv, SpinInv
<1>2. Strip!Cardinality(Closing) <= IF spinner THEN 1 ELSE 0
  <2>1. CASE Closing = {}
    <3>1. Cardinality(Closing) = 0
      BY <2>1, FS_EmptySet
    <3> QED
      BY <3>1, SameSize
  <2>2. CASE Closing # {}
    <3>1. PICK l \in Closing : TRUE
      BY <2>2
    <3>2. Closing = {l} /\ spinner
      BY <2>2, <3>1 DEF StripInv, SpinInv
    <3>3. Cardinality(Closing) = 1
      BY <3>2, FS_Singleton
    <3> QED
      BY <3>2, <3>3, SameSize
  <2> QED
    BY <2>1, <2>2
<1> QED
  BY <1>1, <1>2 DEF Strip!SpinnerHasItsEnd, Closing

LEMMA StripStutter ==
    ASSUME StripInv, UNCHANGED <<ops, faults, strip>>
    PROVE  StripInv'
<1>1. UNCHANGED <<row, clock, task, event, list, optimistic, editing, confirm, renames, loads, spinner, abort, pending, finish, loop, seen,
                  overtaken, ops, faults>>
  BY DEF strip
<1>2. StripTypes'
  BY <1>1 DEF StripInv, StripTypes, Names, Given, AllLoads, Handlers, ServerType, EditType, ListType, SeenType, LoadsType, FlagsType,
              LoopType, BoundsType
<1>3. NamesInv'
  BY <1>1 DEF StripInv, NamesInv
<1>4. UNCHANGED Closing /\ \A k \in Clicks : UNCHANGED Polls(k)
  BY <1>1 DEF Closing, Polls
<1>5. SpinInv'
  BY <1>1, <1>4, SpinStay DEF StripInv
<1> QED
  BY <1>2, <1>3, <1>5 DEF StripInv

-----------------------------------------------------------------------------
(* The viewer: the part in use keeps its invariant, the others stand.      *)

ViewerInv ==
    /\ part \in {"canvas", "tools", "strip"}
    /\ part = "canvas" => CanvasInv
    /\ part = "tools" => ToolsInv
    /\ part = "strip" => StripInv

THEOREM ViewerInvariant == Spec => []ViewerInv
<1>1. Init => ViewerInv
  BY CanvasInit, ToolsInit, StripInit DEF Init, ViewerInv
<1>2. ViewerInv /\ [Next]_vars => ViewerInv'
  <2>1. SUFFICES ASSUME ViewerInv, [Next]_vars PROVE ViewerInv'
    OBVIOUS
  <2>2. CASE part = "canvas" /\ Canvas!Next /\ UNCHANGED part
    BY <2>1, <2>2, CanvasStep DEF ViewerInv
  <2>3. CASE part = "tools" /\ Tools!Next /\ UNCHANGED part
    BY <2>1, <2>3, ToolsStep DEF ViewerInv
  <2>4. CASE part = "strip" /\ Strip!Next /\ UNCHANGED part
    BY <2>1, <2>4, StripStep DEF ViewerInv
  <2>5. CASE UNCHANGED vars
    <3>1. UNCHANGED part /\ UNCHANGED <<sheet, ops, faults, canvas>> /\ UNCHANGED <<sheet, tools>> /\ UNCHANGED <<ops, faults, strip>>
      BY <2>5 DEF vars, shared
    <3>2. CASE part = "canvas"
      BY <2>1, <3>1, <3>2, CanvasStutter DEF ViewerInv
    <3>3. CASE part = "tools"
      BY <2>1, <3>1, <3>3, ToolsStutter DEF ViewerInv
    <3>4. CASE part = "strip"
      BY <2>1, <3>1, <3>4, StripStutter DEF ViewerInv
    <3> QED
      BY <2>1, <3>2, <3>3, <3>4 DEF ViewerInv
  <2> QED
    BY <2>1, <2>2, <2>3, <2>4, <2>5 DEF Next
<1> QED
  BY <1>1, <1>2, PTL DEF Spec

\* Every variable of the canvas, the tools and the strip keeps its type.
THEOREM TypeCorrect == Spec => []TypeOK
<1>1. ViewerInv => TypeOK
  <2>1. CASE part = "canvas"
    BY <2>1 DEF ViewerInv, CanvasInv, TypeOK
  <2>2. CASE part = "tools"
    BY <2>2 DEF ViewerInv, ToolsInv, TypeOK
  <2>3. CASE part = "strip"
    BY <2>3, StripTypesFacts DEF ViewerInv, StripInv, TypeOK
  <2> QED
    BY <2>1, <2>2, <2>3 DEF ViewerInv
<1> QED
  BY <1>1, ViewerInvariant, PTL

\* plan-pdf-canvas.tsx: when nothing is awaited the canvas, its overlays and the matches are
\* of the sheet and the zoom on screen, and at all times the document is that of the sheet's
\* plan and a focus asked for on one sheet moves no other.
THEOREM CanvasRight == Spec => []CanvasIsRight
<1>1. ViewerInv => CanvasIsRight
  BY CanvasShows DEF ViewerInv, CanvasInv, CanvasIsRight
<1> QED
  BY <1>1, ViewerInvariant, PTL

\* plan-viewer-workspace.tsx: a measurement that is sent was drawn whole on its sheet with the
\* tool in use, a dot that is shown is a count on its way there, and the calibration dialogs
\* ask for the length of the line on screen, which was drawn on the sheet that it calibrates.
THEOREM DrawingsWhole == Spec => []DrawingsAreWhole
<1>1. ViewerInv => DrawingsAreWhole
  BY ToolsAreRight DEF ViewerInv, DrawingsAreWhole
<1> QED
  BY <1>1, ViewerInvariant, PTL

\* sheet-index.tsx: when nothing is under way the strip shows the server's names, and the
\* spinner of the button has somebody to end it.
THEOREM NamesRight == Spec => []NamesShown
<1>1. ViewerInv => NamesShown
  BY StripShows, StripEnds DEF ViewerInv, NamesShown
<1> QED
  BY <1>1, ViewerInvariant, PTL
=============================================================================
