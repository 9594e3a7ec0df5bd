------------------------------ MODULE TeamPage ------------------------------
(***************************************************************************)
(* The page of the organization's members and pending invitations.  Every  *)
(* change the manager makes is a request, and every request that succeeds  *)
(* reads both lists again.                                                 *)
(*                                                                         *)
(* Only sending an invitation waits for its answer: roles, deactivations   *)
(* and cancellations of several people, or twice of one, may be under way. *)
(***************************************************************************)
EXTENDS Integers, FiniteSets

CONSTANTS
    People,      \* those the page may list or invite, the manager and the owner left out
    Seats,       \* purchased seats beside theirs
    MaxOps,      \* bound: requests of the manager
    MaxUpsets    \* bound: requests that fail or whose answer is lost, invitations accepted

VARIABLES
    role, off, invited,    \* server: role of each member, the deactivated, the pending
    members, pending, room,  \* the lists shown, and can_invite_billable_member
    loading, reads,
    showInvite, email, inviting,  \* the form, its field, its flag
    target,                \* the question before a deactivation
    calls,                 \* requests in flight
    confirmed,             \* history: people whose deactivation was confirmed
    chosen,                \* history: role last chosen for each, None if requests crossed
    seen,                  \* history: newest read shown; whether the last was the newest
    aside,                 \* history: changed by somebody else or behind an error
    ops, upsets

server == <<role, off, invited>>
lists  == <<members, pending, room, loading>>
form   == <<showInvite, email, inviting>>
past   == <<confirmed, chosen, aside>>
vars == <<server, lists, reads, form, target, calls, past, seen, ops, upsets>>

None == "none"
Roles == {"admin", "viewer"}
Tables == [role : [People -> Roles \cup {None}], off : SUBSET People, invited : SUBSET People]
Now == [role |-> role, off |-> off, invited |-> invited]
Active(t) == {p \in People : t.role[p] # None /\ p \notin t.off}
Room(t) == Cardinality(Active(t)) < Seats
Shown == [p \in People |-> IF p \in members.off THEN "off" ELSE members.role[p]]

TypeOK ==
    /\ Now \in Tables
    /\ members \in [role : [People -> Roles \cup {None}], off : SUBSET People]
    /\ pending \subseteq People /\ {room, loading, showInvite, inviting} \subseteq BOOLEAN
    /\ reads \subseteq [n : Nat, rows : Tables, after : {None, "invite"}]
    /\ {email, target} \subseteq People \cup {None}
    /\ calls \subseteq [kind : {"invite", "role", "off", "cancel", "resend"}, of : People,
                        to : Roles \cup {None}, n : 0..MaxOps, pc : {"sent", "ok"}]
    /\ confirmed \subseteq People /\ chosen \in [People -> Roles \cup {None}]
    /\ seen \in [n : Nat, inOrder : BOOLEAN] /\ aside \subseteq People
    /\ ops \in 0..MaxOps /\ upsets \in 0..MaxUpsets

Op == ops < MaxOps /\ ops' = ops + 1
Upset == upsets < MaxUpsets /\ upsets' = upsets + 1

-----------------------------------------------------------------------------
(* fetchData: two requests, each read when asked or just before its answer. *)

Newest == CHOOSE n \in {seen.n} \cup {r.n : r \in reads} : n >= seen.n /\ \A r \in reads : n >= r.n
Fetch(after) == reads' = reads \cup {[n |-> Newest + 1, rows |-> Now', after |-> after]}

ReadEnds(r, ok) ==
    /\ reads' = reads \ {r} /\ loading' = FALSE
    /\ inviting' = (inviting /\ r.after # "invite")
    /\ seen' = [n |-> IF r.n > seen.n THEN r.n ELSE seen.n, inOrder |-> ok /\ r.n > seen.n]
    /\ UNCHANGED <<server, email, target, calls, past, ops>>

FetchedFormStays(r) ==              \* seeded defect: the form stays when the seats are gone
    /\ r \in reads
    /\ \E m, i \in {r.rows, Now} :
          /\ members' = [role |-> m.role, off |-> m.off] /\ room' = Room(m) /\ pending' = i.invited
          /\ showInvite' = showInvite
    /\ ReadEnds(r, TRUE) /\ UNCHANGED upsets

\* The form is closed by an effect once the seats are all taken.
Fetched(r) ==
    /\ r \in reads
    /\ \E m, i \in {r.rows, Now} :
          /\ members' = [role |-> m.role, off |-> m.off] /\ room' = Room(m) /\ pending' = i.invited
          /\ showInvite' = (showInvite /\ room')
    /\ ReadEnds(r, TRUE) /\ UNCHANGED upsets

FetchFails(r) ==
    /\ r \in reads /\ Upset
    /\ UNCHANGED <<members, pending, room, showInvite>>
    /\ ReadEnds(r, FALSE)

-----------------------------------------------------------------------------
(* What the manager does.                                                  *)

Page == ~loading /\ target = None
Screen == UNCHANGED <<server, lists, reads, seen, aside, upsets>>
Send(kind, p, to) ==
    /\ Op
    /\ calls' = calls \cup {[kind |-> kind, of |-> p, to |-> to, n |-> ops, pc |-> "sent"]}

\* The button toggles the form, and what was typed stays in it.
ToggleInvite ==
    /\ Page /\ (showInvite \/ room) /\ showInvite' = ~showInvite
    /\ UNCHANGED <<email, inviting, target, calls, confirmed, chosen, ops>> /\ Screen

TypeEmail(p) ==
    /\ Page /\ showInvite /\ email # p /\ email' = p
    /\ UNCHANGED <<showInvite, inviting, target, calls, confirmed, chosen, ops>> /\ Screen

handleInvite ==
    /\ Page /\ showInvite /\ email # None /\ ~inviting /\ inviting' = TRUE
    /\ Send("invite", email, None)
    /\ UNCHANGED <<showInvite, email, target, confirmed, chosen>> /\ Screen

\* Two changes of one role that cross leave it to the server which is the last.
handleRoleChange(p, to) ==
    /\ Page /\ Shown[p] \in Roles \ {to}
    /\ Send("role", p, to)
    /\ chosen' = [chosen EXCEPT ![p] = IF \E c \in calls : c.kind = "role" /\ c.of = p THEN None ELSE to]
    /\ UNCHANGED <<form, target, confirmed>> /\ Screen

AskDeactivate(p) ==
    /\ Page /\ Shown[p] \in Roles /\ target' = p
    /\ UNCHANGED <<form, calls, confirmed, chosen, ops>> /\ Screen

KeepMember ==
    /\ target # None /\ target' = None
    /\ UNCHANGED <<form, calls, confirmed, chosen, ops>> /\ Screen

DeactivateReset ==                  \* seeded defect: the target is read after it is reset
    /\ target # None /\ target' = None
    /\ Send("off", target', None)
    /\ confirmed' = confirmed \cup {target}
    /\ UNCHANGED <<form, chosen>> /\ Screen

handleDeactivate ==
    /\ target # None /\ target' = None
    /\ Send("off", target, None)
    /\ confirmed' = confirmed \cup {target}
    /\ UNCHANGED <<form, chosen>> /\ Screen

handleInvitation(p, kind) ==        \* handleCancelInvitation, handleResendInvitation
    /\ Page /\ p \in pending
    /\ Send(kind, p, None)
    /\ UNCHANGED <<form, target, confirmed, chosen>> /\ Screen

-----------------------------------------------------------------------------
(* The server and its answers.                                             *)

Allowed(c) ==
    CASE c.kind = "invite" -> c.of \notin invited /\ Room(Now)
      [] c.kind = "role"   -> role[c.of] # None
      [] c.kind = "off"    -> c.of \notin off
      [] OTHER             -> c.of \in invited

Serve(c) ==
    /\ c \in calls /\ c.pc = "sent" /\ Allowed(c)
    /\ role' = IF c.kind = "role" THEN [role EXCEPT ![c.of] = c.to] ELSE role
    /\ off' = IF c.kind = "off" THEN off \cup {c.of} ELSE off
    /\ invited' = CASE c.kind = "invite" -> invited \cup {c.of}
                    [] c.kind = "cancel" -> invited \ {c.of}
                    [] OTHER             -> invited
    /\ calls' = (calls \ {c}) \cup {[c EXCEPT !.pc = "ok"]}
    /\ UNCHANGED <<lists, reads, form, target, past, seen, ops, upsets>>

AnsweredOnce(c) ==                  \* seeded defect: a read under way counts as the next one
    /\ c \in calls /\ c.pc = "ok" /\ calls' = calls \ {c}
    /\ IF c.kind = "invite" THEN showInvite' = FALSE /\ email' = None ELSE UNCHANGED <<showInvite, email>>
    /\ UNCHANGED server
    /\ IF reads = {} \/ c.kind = "invite"
       THEN Fetch(IF c.kind = "invite" THEN "invite" ELSE None) ELSE UNCHANGED reads
    /\ UNCHANGED <<lists, inviting, target, past, seen, ops, upsets>>

\* The form of an invitation is emptied and closed, whatever it holds by now.
Answered(c) ==
    /\ c \in calls /\ c.pc = "ok" /\ calls' = calls \ {c}
    /\ IF c.kind = "invite" THEN showInvite' = FALSE /\ email' = None ELSE UNCHANGED <<showInvite, email>>
    /\ UNCHANGED server
    /\ Fetch(IF c.kind = "invite" THEN "invite" ELSE None)
    /\ UNCHANGED <<lists, inviting, target, past, seen, ops, upsets>>

\* Nothing is read after an error, be it that only the answer was lost.
Fails(c) ==
    /\ c \in calls /\ calls' = calls \ {c}
    /\ IF c.pc = "sent" /\ ~Allowed(c) THEN UNCHANGED upsets ELSE Upset
    /\ inviting' = (inviting /\ c.kind # "invite")
    /\ aside' = aside \cup {c.of}
    /\ UNCHANGED <<server, lists, reads, showInvite, email, target, confirmed, chosen, seen, ops>>

\* accept_invitation does not look at the seats again.
Accept(p, to) ==
    /\ p \in invited /\ role[p] = None /\ Upset
    /\ invited' = invited \ {p} /\ role' = [role EXCEPT ![p] = to]
    /\ aside' = aside \cup {p}
    /\ UNCHANGED <<off, lists, reads, form, target, calls, confirmed, chosen, seen, ops>>

-----------------------------------------------------------------------------
Init ==
    /\ role \in [People -> Roles \cup {None}] /\ off = {}
    /\ invited \in SUBSET {p \in People : role[p] = None}
    /\ members = [role |-> [p \in People |-> None], off |-> {}] /\ pending = {}
    /\ room = TRUE /\ loading = TRUE
    /\ reads = {[n |-> 1, rows |-> Now, after |-> None]}
    /\ showInvite = FALSE /\ email = None /\ inviting = FALSE /\ target = None /\ calls = {}
    /\ confirmed = {} /\ chosen = role /\ aside = {}
    /\ seen = [n |-> 0, inOrder |-> TRUE] /\ ops = 0 /\ upsets = 0

Next ==
    \/ \E r \in reads : Fetched(r) \/ FetchFails(r)
    \/ ToggleInvite \/ handleInvite \/ KeepMember \/ handleDeactivate
    \/ \E p \in People :
          \/ TypeEmail(p) \/ AskDeactivate(p)
          \/ \E to \in Roles : handleRoleChange(p, to) \/ Accept(p, to)
          \/ \E kind \in {"cancel", "resend"} : handleInvitation(p, kind)
    \/ \E c \in calls : Serve(c) \/ Answered(c) \/ Fails(c)

Spec == Init /\ [][Next]_vars

-----------------------------------------------------------------------------
\* The form is open only while the page believes that there are seats left.
FormHasSeats == showInvite => room

\* When nothing is under way the lists are the organization's.  Excepted are a last read
\* that failed or was overtaken, and people changed by others or behind an error.
ListsAreOrganization ==
    reads = {} /\ calls = {} /\ seen.inOrder =>
        \A p \in People \ aside :
            members.role[p] = role[p] /\ (p \in members.off) = (p \in off) /\ (p \in pending) = (p \in invited)

\* Once its requests are answered a member has the role last chosen, unless two of
\* them crossed, and only somebody the manager confirmed is deactivated.
ChangesAsChosen ==
    /\ off \subseteq confirmed
    /\ \A p \in People \ aside :
          chosen[p] # None /\ (\A c \in calls : c.of # p \/ c.kind # "role") => role[p] = chosen[p]

\* The button of the form waits for the invitation or for the read that follows it.
InviteEnds == inviting => (\E c \in calls : c.kind = "invite") \/ (\E r \in reads : r.after = "invite")

TeamIsRight == FormHasSeats /\ ListsAreOrganization /\ ChangesAsChosen /\ InviteEnds
=============================================================================
