---------------------------- MODULE BillingPage ----------------------------
(***************************************************************************)
(* The owner's billing page: the summary, the dialog that buys seats with  *)
(* an estimate asked 350 ms after the last change of the quantity, the     *)
(* dialog that gives seats back, and the ways to the payment provider.     *)
(***************************************************************************)
EXTENDS Integers, FiniteSets

CONSTANTS
    MaxQty,      \* bound: seats added or removed in one request
    MaxOps,      \* bound: changes of the quantity and requests of the user
    MaxFaults    \* bound: requests that fail

VARIABLES
    loading, loads,     \* the flag, and who waits for a read of the summary
    summary,            \* None, no subscription, or the seats that may be given back
    addOpen, qty, timer,
    preview, previewing, asks,    \* quantity of the estimate shown; estimates asked
    adding, charges,              \* addWorking; purchases in flight: quantity and estimate shown
    removeOpen, removeQty, removing, drops,
    going,              \* requests that end on another site
    ops, faults

reads  == <<loading, loads, summary>>
dialog == <<addOpen, qty, timer, preview, previewing, asks>>
buy    == <<adding, charges>>
giveBack == <<removeOpen, removeQty, removing, drops>>
bounds == <<ops, faults>>
vars == <<reads, dialog, buy, giveBack, going, bounds>>

None  == 0
NoSub == -1       \* no subscription
Asked == [qty : 1..MaxQty, n : 1..MaxOps]

TypeOK ==
    /\ loading \in BOOLEAN /\ loads \subseteq {"first", "add", "remove"}
    /\ summary \in {[known |-> FALSE, seats |-> 0]} \cup [known : {TRUE}, seats : NoSub..MaxQty]
    /\ {addOpen, timer, previewing, adding, removeOpen, removing} \subseteq BOOLEAN
    /\ qty \in 1..MaxQty /\ preview \in 0..MaxQty /\ asks \subseteq Asked
    /\ charges \subseteq [qty : 1..MaxQty, shown : 1..MaxQty, n : 1..MaxOps]
    /\ removeQty \in 0..MaxQty /\ drops \subseteq 0..MaxQty
    /\ going \subseteq {"checkout", "payment", "away"}
    /\ ops \in 0..MaxOps /\ faults \in 0..MaxFaults

Clamp(n, hi) == IF n > hi THEN hi ELSE n
Page == ~loading /\ summary.known /\ "away" \notin going
Free == Page /\ ~addOpen /\ ~removeOpen
Subscribed == summary.seats # NoSub
Op == ops < MaxOps /\ ops' = ops + 1
Fault == faults < MaxFaults /\ faults' = faults + 1

-----------------------------------------------------------------------------
(* Reading the summary.                                                    *)

Load(who) == loading' = TRUE /\ loads' = loads \cup {who}

\* The finally of every read shows the page; whoever started it goes on.
Loaded(who) ==
    /\ who \in loads /\ loads' = loads \ {who}
    /\ loading' = FALSE
    /\ \/ summary' \in [known : {TRUE}, seats : NoSub..MaxQty] /\ UNCHANGED faults
       \/ Fault /\ UNCHANGED summary
    /\ adding' = IF who = "add" THEN FALSE ELSE adding
    /\ removing' = IF who = "remove" THEN FALSE ELSE removing
    /\ UNCHANGED <<dialog, charges, removeOpen, removeQty, drops, going, ops>>

-----------------------------------------------------------------------------
(* Buying seats.                                                           *)

\* The effect of the dialog and its quantity: the estimate under way is dropped and,
\* in an open dialog, another is asked after a pause.
EstimateAgainBeside(open) ==        \* seeded defect: the estimate under way is not dropped
    /\ timer' = open
    /\ UNCHANGED asks

EstimateAgain(open) ==
    /\ timer' = open
    /\ asks' = {}

OpenAdd ==
    /\ Free /\ Subscribed
    /\ addOpen' = TRUE /\ qty' = 1
    /\ EstimateAgain(TRUE)
    /\ UNCHANGED <<reads, preview, previewing, buy, giveBack, going, bounds>>

TypeQty(n) ==
    /\ Page /\ addOpen /\ n # qty /\ Op
    /\ qty' = n
    /\ EstimateAgain(TRUE)
    /\ UNCHANGED <<reads, addOpen, preview, previewing, buy, giveBack, going, faults>>

\* Only the cross and a press outside forget the estimate.
CloseAdd(cancel) ==
    /\ Page /\ addOpen /\ addOpen' = FALSE
    /\ preview' = IF cancel THEN preview ELSE None
    /\ EstimateAgain(FALSE)
    /\ UNCHANGED <<reads, qty, previewing, buy, giveBack, going, bounds>>

TimerFires ==
    /\ timer /\ timer' = FALSE /\ Op
    /\ previewing' = TRUE
    /\ asks' = asks \cup {[qty |-> qty, n |-> ops + 1]}
    /\ UNCHANGED <<reads, addOpen, qty, preview, buy, giveBack, going, faults>>

Estimated(a) ==
    /\ a \in asks /\ asks' = asks \ {a}
    /\ previewing' = FALSE
    /\ \/ preview' = a.qty /\ UNCHANGED faults
       \/ preview' = None /\ Fault
    /\ UNCHANGED <<reads, addOpen, qty, timer, buy, giveBack, going, ops>>

\* The quantity is the field's, the estimate whatever is shown.
Confirm ==
    /\ Page /\ addOpen /\ Op
    /\ ~adding /\ ~previewing /\ preview # None
    /\ adding' = TRUE
    /\ charges' = charges \cup {[qty |-> qty, shown |-> preview, n |-> ops + 1]}
    /\ UNCHANGED <<reads, dialog, giveBack, going, faults>>

Charged(c) ==
    /\ c \in charges /\ charges' = charges \ {c}
    /\ addOpen' = FALSE /\ preview' = None
    /\ IF addOpen THEN EstimateAgain(FALSE) ELSE UNCHANGED <<timer, asks>>
    /\ Load("add")
    /\ UNCHANGED <<summary, qty, previewing, adding, giveBack, going, bounds>>

ChargeFails(c) ==
    /\ c \in charges /\ charges' = charges \ {c} /\ Fault
    /\ adding' = FALSE
    /\ UNCHANGED <<reads, dialog, giveBack, going, ops>>

-----------------------------------------------------------------------------
(* Giving seats back, and leaving for the payment provider.                *)

OpenRemove ==
    /\ Free /\ Subscribed /\ ~removing /\ summary.seats >= 1
    /\ removeOpen' = TRUE /\ removeQty' = 1
    /\ UNCHANGED <<reads, dialog, buy, removing, drops, going, bounds>>

TypeRemoveQty(n) ==
    /\ Page /\ removeOpen /\ Op
    /\ removeQty' = Clamp(n, IF Subscribed THEN summary.seats ELSE 0)
    /\ UNCHANGED <<reads, dialog, buy, removeOpen, removing, drops, going, faults>>

CloseRemove ==
    /\ Page /\ removeOpen /\ removeOpen' = FALSE
    /\ UNCHANGED <<reads, dialog, buy, removeQty, removing, drops, going, bounds>>

\* With a summary that allows none by now, the request is for zero seats.
ConfirmRemove ==
    /\ Page /\ removeOpen /\ ~removing /\ Op
    /\ removing' = TRUE
    /\ drops' = drops \cup {Clamp(removeQty, IF Subscribed THEN summary.seats ELSE 0)}
    /\ UNCHANGED <<reads, dialog, buy, removeOpen, removeQty, going, faults>>

Scheduled(d) ==
    /\ d \in drops /\ d > 0 /\ drops' = drops \ {d}
    /\ removeOpen' = FALSE
    /\ Load("remove")
    /\ UNCHANGED <<summary, dialog, buy, removeQty, removing, going, bounds>>

ScheduleFails(d) ==
    /\ d \in drops /\ drops' = drops \ {d}
    /\ IF d = 0 THEN UNCHANGED faults ELSE Fault
    /\ removing' = FALSE
    /\ UNCHANGED <<reads, dialog, buy, removeOpen, removeQty, going, ops>>

\* The checkout of an organization without a subscription, the new card of one with.
Go(way) ==
    /\ Free /\ way \notin going
    /\ way = IF Subscribed THEN "payment" ELSE "checkout"
    /\ going' = going \cup {way}
    /\ UNCHANGED <<reads, dialog, buy, giveBack, bounds>>

Gone(way) ==
    /\ way \in going /\ way # "away"
    /\ going' = {"away"}
    /\ UNCHANGED <<reads, dialog, buy, giveBack, bounds>>

GoFails(way) ==
    /\ way \in going /\ way # "away" /\ Fault
    /\ going' = going \ {way}
    /\ UNCHANGED <<reads, dialog, buy, giveBack, ops>>

-----------------------------------------------------------------------------
\* ?checkout=1 starts the checkout when the page is drawn.
Init ==
    /\ loading = TRUE /\ loads = {"first"} /\ summary = [known |-> FALSE, seats |-> 0]
    /\ addOpen = FALSE /\ qty = 1 /\ timer = FALSE
    /\ preview = None /\ previewing = FALSE /\ asks = {}
    /\ adding = FALSE /\ charges = {}
    /\ removeOpen = FALSE /\ removeQty = 1 /\ removing = FALSE /\ drops = {}
    /\ going \in {{}, {"checkout"}}
    /\ ops = 0 /\ faults = 0

Next ==
    \/ \E who \in {"first", "add", "remove"} : Loaded(who)
    \/ OpenAdd \/ TimerFires \/ Confirm
    \/ \E n \in 1..MaxQty : TypeQty(n) \/ TypeRemoveQty(n)
    \/ \E cancel \in BOOLEAN : CloseAdd(cancel)
    \/ \E a \in asks : Estimated(a)
    \/ \E c \in charges : Charged(c) \/ ChargeFails(c)
    \/ OpenRemove \/ CloseRemove \/ ConfirmRemove
    \/ \E d \in drops : Scheduled(d) \/ ScheduleFails(d)
    \/ \E way \in {"checkout", "payment"} : Go(way) \/ Gone(way) \/ GoFails(way)

Spec == Init /\ [][Next]_vars

-----------------------------------------------------------------------------
\* Once the pause is over and nothing is being asked, the estimate shown is for the
\* quantity in the field.
EstimateCatchesUp == addOpen /\ ~timer /\ asks = {} => preview \in {None, qty}

\* "Calculating estimate", which disables the purchase, has an estimate to wait for.
EstimateIsComing == addOpen /\ previewing => timer \/ asks # {}

\* Two purchases are never in flight at once.
OneChargeAtATime == Cardinality(charges) <= 1

\* The estimate settles on the quantity, and a purchase is made once.
SeatsAreEstimated == EstimateCatchesUp /\ EstimateIsComing /\ OneChargeAtATime
=============================================================================
