------------------------------- MODULE Roster -------------------------------
(***************************************************************************)
(* Workspace settings: the members with their roles and the pending        *)
(* invites.  Every change is a request that writes and then, in a second   *)
(* request of the proxy route, lists again; the page replaces its list by  *)
(* what comes back, in whatever order it comes back.  Sending an invite is *)
(* the exception: its answer is appended.  No control waits for another.   *)
(*                                                                         *)
(* clock counts the moments at which the server was asked for a list; a    *)
(* list is shown as of such a moment.                                      *)
(***************************************************************************)
EXTENDS Pages, Integers

CONSTANTS Mates, Mails, Roles, Owner, NoRole,
          SampleMates, SampleInvites,   \* ids of the route handlers' built-in rows
          MaxCalls   \* bound: loads and changes of one visit

ASSUME RosterAssumption ==
    /\ NoRole \notin Roles /\ NoRole \notin Mails
    /\ Mates \cap SampleMates = {} /\ Mails \cap SampleInvites = {}

VARIABLES roleOf,     \* member -> role, at the server
          invited,    \* address -> the role of its pending invite, or NoRole
          seededMembers, seededInvites,   \* the built-in rows: id -> role, or NoRole
          members,    \* the list on the page
          invites,    \* id -> [copies, role]: the invites on the page
          rosterView,     \* isLoading and error: "loading", "error" or "here"
          load,       \* what the load under way has read: list -> [at, is]
          form,       \* the invite form: [email, busy]
          calls,      \* the changes under way
          begun,      \* how many loads and changes were begun
          clock,
          shownAt,    \* history: list -> the latest moment it has heard of
          suspect     \* history: the lists an old or empty answer went into

rosterVars == <<roleOf, invited, seededMembers, seededInvites, members, invites, rosterView, load, form, calls, begun, clock, shownAt, suspect>>

Lists == {"members", "invites"}
\* A pending invite is known by its address, as there is one per address.
MemberIds == Mates \cup SampleMates
InviteIds == Mails \cup SampleInvites
NoCopy == [copies |-> 0, role |-> NoRole]

\* Rows of a list that consists of those that f has a role for.
MembersIn(f) == [m \in MemberIds |-> IF m \in DOMAIN f THEN f[m] ELSE NoRole]
InvitesIn(f) ==
    [i \in InviteIds |-> IF i \in DOMAIN f /\ f[i] # NoRole THEN [copies |-> 1, role |-> f[i]] ELSE NoCopy]

\* What the server would list; what the route handlers list in its place while
\* it is not wired or the visitor has no workspace; and the empty list.
Current(l) == IF l = "members" THEN MembersIn(roleOf) ELSE InvitesIn(invited)
Seeded(l) == IF l = "members" THEN MembersIn(seededMembers) ELSE InvitesIn(seededInvites)
Nothing(l) == IF l = "members" THEN [m \in MemberIds |-> NoRole] ELSE [i \in InviteIds |-> NoCopy]
NotRead == [at |-> 0, is |-> NoRole, whole |-> FALSE]
ListOf(c) == IF c.kind = "member" THEN "members" ELSE "invites"

RosterTypeOK ==
    /\ roleOf \in [Mates -> Roles] /\ invited \in [Mails -> Roles \cup {NoRole}]
    /\ seededMembers \in [SampleMates -> Roles] /\ seededInvites \in [SampleInvites -> Roles \cup {NoRole}]
    /\ members \in [MemberIds -> Roles \cup {NoRole}]
    /\ invites \in [InviteIds -> [copies : 0..2, role : Roles \cup {NoRole}]]
    /\ rosterView \in {"loading", "error", "here"}
    /\ form \in [email : Mails \cup {NoRole}, busy : BOOLEAN]
    /\ \A c \in calls : /\ c.kind \in {"member", "role", "cancel", "send"}
                        /\ c.st \in {"sent", "done", "listed"}
                        /\ c.at \in 0..clock
    /\ begun \in 1..MaxCalls /\ shownAt \in [Lists -> 0..clock] /\ suspect \subseteq Lists

RosterInit ==
    /\ roleOf = [m \in Mates |-> CHOOSE r \in Roles : r # Owner]
    /\ invited = [m \in Mails |-> NoRole]
    /\ seededMembers = [m \in SampleMates |-> CHOOSE r \in Roles : r # Owner]
    /\ seededInvites \in [SampleInvites -> {CHOOSE r \in Roles : r # Owner, NoRole}]
    /\ members = Nothing("members") /\ invites = Nothing("invites")
    /\ rosterView = "loading" /\ load = [l \in Lists |-> NotRead]
    /\ form = [email |-> NoRole, busy |-> FALSE]
    /\ calls = {} /\ begun = 1 /\ clock = 0
    /\ shownAt = [l \in Lists |-> 0] /\ suspect = {}

\* A list as of moment at arrives: whatever was asked for earlier is old now.
Hear(l, at, whole) ==
    /\ shownAt' = [shownAt EXCEPT ![l] = IF at > @ THEN at ELSE @]
    /\ suspect' = IF at > shownAt[l] /\ whole THEN suspect \ {l} ELSE suspect \cup {l}

-----------------------------------------------------------------------------
(* refresh: two GETs, and both or nothing. *)

LoadReads(l) ==
    /\ rosterView = "loading" /\ load[l] = NotRead
    /\ clock' = clock + 1
    /\ \E whole \in BOOLEAN :
          load' = [load EXCEPT ![l] = [at |-> clock + 1, is |-> IF whole THEN Current(l) ELSE Seeded(l),
                                       whole |-> whole]]
    /\ UNCHANGED <<roleOf, invited, seededMembers, seededInvites, members, invites, rosterView, form, calls, begun, shownAt, suspect>>

RosterLands ==
    /\ rosterView = "loading" /\ \A l \in Lists : load[l] # NotRead
    /\ members' = load["members"].is /\ invites' = load["invites"].is
    /\ rosterView' = "here" /\ load' = [l \in Lists |-> NotRead]
    /\ suspect' = {l \in Lists : load[l].at < shownAt[l] \/ ~load[l].whole}
    /\ shownAt' = [l \in Lists |-> IF load[l].at > shownAt[l] THEN load[l].at ELSE shownAt[l]]
    /\ UNCHANGED <<roleOf, invited, seededMembers, seededInvites, form, calls, begun, clock>>

RosterFails ==
    /\ rosterView = "loading"
    /\ rosterView' = "error" /\ load' = [l \in Lists |-> NotRead]
    /\ UNCHANGED <<roleOf, invited, seededMembers, seededInvites, members, invites, form, calls, begun, clock, shownAt, suspect>>

RetryRoster ==
    /\ rosterView = "error" /\ begun < MaxCalls
    /\ rosterView' = "loading" /\ begun' = begun + 1
    /\ UNCHANGED <<roleOf, invited, seededMembers, seededInvites, members, invites, load, form, calls, clock, shownAt, suspect>>

-----------------------------------------------------------------------------
(* The controls. *)

Call(kind, who, role) ==
    /\ begun < MaxCalls /\ begun' = begun + 1
    /\ calls' = calls \cup {[n |-> begun + 1, kind |-> kind, who |-> who, role |-> role,
                             st |-> "sent", at |-> 0, is |-> NoRole, whole |-> TRUE]}

\* The owner's select is disabled.
MemberRow(m, r) ==
    /\ rosterView = "here" /\ members[m] \notin {NoRole, Owner, r}
    /\ Call("member", m, r)
    /\ UNCHANGED <<roleOf, invited, seededMembers, seededInvites, members, invites, rosterView, load, form, clock, shownAt, suspect>>

\* The card of the invites is drawn whatever became of the load.
InviteRow(e, r) ==
    /\ invites[e].copies > 0
    /\ \/ r # invites[e].role /\ Call("role", e, r)
       \/ r = invites[e].role /\ Call("cancel", e, r)
    /\ UNCHANGED <<roleOf, invited, seededMembers, seededInvites, members, invites, rosterView, load, form, clock, shownAt, suspect>>

TypeEmail(e) ==
    /\ form' = [form EXCEPT !.email = e]
    /\ UNCHANGED <<roleOf, invited, seededMembers, seededInvites, members, invites, rosterView, load, calls, begun, clock, shownAt, suspect>>

handleInvite(r) ==
    /\ form.email # NoRole /\ ~form.busy
    /\ form' = [form EXCEPT !.busy = TRUE]
    /\ Call("send", form.email, r)
    /\ UNCHANGED <<roleOf, invited, seededMembers, seededInvites, members, invites, rosterView, load, clock, shownAt, suspect>>

-----------------------------------------------------------------------------
(* The server's side, and the proxy's second request. *)

\* A change is answered from the built-in rows, which it edits, while the
\* server is not wired; otherwise only a row of the server's can be changed.
Becomes(c, d) == calls' = (calls \ {c}) \cup {d}
seededVars == <<seededMembers, seededInvites>>

update_member_role(c) ==
    /\ c.kind = "member" /\ c.who \in Mates /\ roleOf[c.who] # Owner
    /\ roleOf' = [roleOf EXCEPT ![c.who] = c.role]
    /\ UNCHANGED <<invited, clock>>
    /\ Becomes(c, [c EXCEPT !.st = "done"])

update_invite_role(c) ==
    /\ c.kind = "role" /\ c.who \in Mails /\ invited[c.who] # NoRole
    /\ invited' = [invited EXCEPT ![c.who] = c.role]
    /\ UNCHANGED <<roleOf, clock>>
    /\ Becomes(c, [c EXCEPT !.st = "done"])

cancel_invite(c) ==
    /\ c.kind = "cancel" /\ c.who \in Mails /\ invited[c.who] # NoRole
    /\ invited' = [invited EXCEPT ![c.who] = NoRole]
    /\ UNCHANGED <<roleOf, clock>>
    /\ Becomes(c, [c EXCEPT !.st = "done"])

\* One active invite per address; the page uses the answer's invite only.
create_invite(c) ==
    /\ c.kind = "send" /\ invited[c.who] = NoRole
    /\ invited' = [invited EXCEPT ![c.who] = c.role]
    /\ clock' = clock + 1
    /\ Becomes(c, [c EXCEPT !.st = "listed", !.at = clock + 1])
    /\ UNCHANGED roleOf

CallServed(c) ==
    /\ c.st = "sent"
    /\ update_member_role(c) \/ update_invite_role(c) \/ cancel_invite(c) \/ create_invite(c)
    /\ UNCHANGED <<seededVars, members, invites, rosterView, load, form, begun, shownAt, suspect>>

\* The built-in rows: a member or an invite that is not one of them is not
\* found, and an invite that is sent becomes one under an id of its own.
Edited(f, id, role) == [i \in DOMAIN f |-> IF i = id THEN role ELSE f[i]]

ServedUnwired(c) ==
    /\ c.st = "sent" /\ clock' = clock + 1
    /\ \E id \in IF c.kind = "send" THEN {i \in SampleInvites : seededInvites[i] = NoRole} ELSE {c.who} :
        /\ seededMembers' = IF c.kind = "member" THEN Edited(seededMembers, id, c.role) ELSE seededMembers
        /\ seededInvites' = CASE c.kind = "member" -> seededInvites
                              [] c.kind = "cancel" -> Edited(seededInvites, id, NoRole)
                              [] OTHER -> Edited(seededInvites, id, c.role)
        /\ Becomes(c, [c EXCEPT !.st = "listed", !.who = id, !.at = clock', !.is = Seeded(ListOf(c))',
                                !.whole = FALSE])
    /\ UNCHANGED <<roleOf, invited, members, invites, rosterView, load, form, begun, shownAt, suspect>>

\* A listing that fails is answered as an empty list.
Relist(c) ==
    /\ c.st = "done" /\ clock' = clock + 1
    /\ \E list \in {Current(ListOf(c)), Nothing(ListOf(c))} :
          Becomes(c, [c EXCEPT !.st = "listed", !.at = clock + 1, !.is = list, !.whole = (list = Current(ListOf(c)))])
    /\ UNCHANGED <<roleOf, invited, seededMembers, seededInvites, members, invites, rosterView, load, form, begun, shownAt, suspect>>

-----------------------------------------------------------------------------
(* The answers. *)

updateMemberRole(c) ==
    /\ c.kind = "member" /\ members' = c.is
    /\ Hear("members", c.at, c.whole)
    /\ UNCHANGED <<invites, form>>

\* Mutant: the row is edited in place, and the list of the answer ignored.
mut_EditsTheRowItself(c) ==
    /\ c.kind \in {"role", "cancel"}
    /\ invites' = [invites EXCEPT ![c.who] = IF c.kind = "cancel" THEN NoCopy ELSE [@ EXCEPT !.role = c.role]]
    /\ Hear("invites", c.at, TRUE)
    /\ UNCHANGED <<members, form>>

\* updateInviteRole and cancelInvite.
ReplaceInvites(c) ==
    /\ c.kind \in {"role", "cancel"} /\ invites' = c.is
    /\ Hear("invites", c.at, c.whole)
    /\ UNCHANGED <<members, form>>

\* Appended; and the form is emptied, whatever it says by now.
sendInvite(c) ==
    /\ c.kind = "send"
    /\ invites' = [invites EXCEPT ![c.who] = [copies |-> IF @.copies = 2 THEN 2 ELSE @.copies + 1, role |-> c.role]]
    /\ form' = [email |-> NoRole, busy |-> FALSE]
    /\ shownAt' = [shownAt EXCEPT !["invites"] = IF c.at > @ THEN c.at ELSE @]
    /\ suspect' = IF c.at > shownAt["invites"] /\ c.whole THEN suspect ELSE suspect \cup {"invites"}
    /\ UNCHANGED members

CallLands(c) ==
    /\ c.st = "listed"
    /\ calls' = calls \ {c}
    /\ updateMemberRole(c) \/ ReplaceInvites(c) \/ sendInvite(c)
    /\ UNCHANGED <<roleOf, invited, seededMembers, seededInvites, rosterView, load, begun, clock>>

\* Refused, or the answer is lost, perhaps after the write.
CallFails(c) ==
    /\ calls' = calls \ {c}
    /\ form' = IF c.kind = "send" THEN [form EXCEPT !.busy = FALSE] ELSE form
    /\ IF c.st = "sent" THEN UNCHANGED <<clock, shownAt, suspect>>
       ELSE /\ clock' = clock + 1
            /\ Hear(ListOf(c), clock + 1, FALSE)
    /\ UNCHANGED <<roleOf, invited, seededMembers, seededInvites, members, invites, rosterView, load, begun>>

RosterNext ==
    \/ \E l \in Lists : LoadReads(l)
    \/ RosterLands \/ RosterFails \/ RetryRoster
    \/ \E r \in Roles :
          \/ \E m \in MemberIds : MemberRow(m, r)
          \/ \E e \in InviteIds : InviteRow(e, r)
          \/ handleInvite(r)
    \/ \E e \in Mails \cup {NoRole} : TypeEmail(e)
    \/ \E c \in calls : CallServed(c) \/ ServedUnwired(c) \/ Relist(c) \/ CallLands(c) \/ CallFails(c)

-----------------------------------------------------------------------------
(* When nothing is under way and the roster was loaded, each list is the   *)
(* server's, every invite once, unless the latest thing it heard was old: a *)
(* list asked for before one already shown (or before an invite already    *)
(* appended, or the other way round), an empty list in place of a failed   *)
(* listing, no answer to a change that was made, or the built-in rows that *)
(* the routes answer with while the server is not wired.                   *)
SettledRosterIsCurrent ==
    (rosterView = "here" /\ calls = {}) =>
        /\ "members" \notin suspect => members = Current("members")
        /\ "invites" \notin suspect => invites = Current("invites")
=============================================================================
