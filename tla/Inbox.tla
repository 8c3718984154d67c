-------------------------------- MODULE Inbox --------------------------------
(***************************************************************************)
(* What the dashboard keeps current by pushed frames: the presence roster  *)
(* behind every dot and the notifications page.  Both are entries of the   *)
(* query cache.  A presence frame is written straight into its entry; a    *)
(* notification frame only marks the other one, which is fetched again.    *)
(* One socket carries both, and only presence is refetched when it opens.  *)
(*                                                                         *)
(* A user's presence is the number of times it changed: what matters is    *)
(* whether the value shown is the latest.  Frames of different broadcasts  *)
(* may overtake each other, so those in flight are a set.                  *)
(***************************************************************************)
EXTENDS Pages, Integers, Functions, QueryEntry

CONSTANTS Users, Me, Notes,
          NoRoster,
          MaxChanges   \* bound: changes of anybody's presence

ASSUME InboxAssumption == Me \in Users /\ NoRoster \notin [Users -> Nat]

VARIABLES presence,   \* user -> how often it changed, at the server
          notes,      \* note -> "none", "unread" or "read", at the server
          socket,     \* "down", "accepted" by the server, or "joined" to its rooms
          frames,     \* presence_update frames in flight: <<user, value>>
          noteFrames, \* notification_created frames in flight
          roster,     \* the cache entry of the presence query
          inbox,      \* the cache entry of the notifications
          setStatus,  \* the status mutation: [st, value]
          marks,      \* the mark-as-read mutations under way
          unsure,     \* history: users the roster may be wrong about
          owed        \* history: the inbox was not told of a change

inboxVars == <<presence, notes, socket, frames, noteFrames, roster, inbox, setStatus, marks, unsure, owed>>

NotSetting == [st |-> "none", value |-> 0]

InboxTypeOK ==
    /\ presence \in [Users -> 0..MaxChanges]
    /\ notes \in [Notes -> {"none", "unread", "read"}]
    /\ socket \in {"down", "accepted", "joined"}
    /\ frames \subseteq Users \X (1..MaxChanges) /\ noteFrames \in 0..2
    /\ roster \in Entry([Users -> 0..MaxChanges] \cup {NoRoster})
    /\ inbox \in Entry([Notes -> {"none", "unread", "read"}] \cup {NoRoster})
    /\ setStatus \in [st : {"none", "sent", "stored"}, value : 0..MaxChanges]
    /\ marks \subseteq [of : SUBSET Notes, st : {"sent", "stored"}]
    /\ unsure \subseteq Users /\ owed \in BOOLEAN

InboxInit ==
    /\ presence = [u \in Users |-> 0]
    /\ notes = [n \in Notes |-> "none"]
    /\ socket = "down" /\ frames = {} /\ noteFrames = 0
    /\ roster = Ask(NewEntry(NoRoster)) /\ inbox = Ask(NewEntry(NoRoster))
    /\ setStatus = NotSetting /\ marks = {}
    /\ unsure = {} /\ owed = FALSE

-----------------------------------------------------------------------------
(* The socket. *)

\* Mutant: the roster in the cache is taken for current.
mut_TrustsTheCache == UNCHANGED roster

\* onOpen: whatever was missed while the socket was down.
onOpenPresence == roster' = Invalidate(roster, TRUE)

Accepted ==
    /\ socket = "down" /\ socket' = "accepted"
    /\ onOpenPresence
    /\ UNCHANGED <<presence, notes, frames, noteFrames, inbox, setStatus, marks, unsure, owed>>

Joined ==
    /\ socket = "accepted" /\ socket' = "joined"
    /\ UNCHANGED <<presence, notes, frames, noteFrames, roster, inbox, setStatus, marks, unsure, owed>>

\* A first load that has been read already: a refetch would join it.
ReadOnce(e) == Loading(e) /\ e.get = "read"

\* What was in flight is gone.
Dropped ==
    /\ socket # "down" /\ socket' = "down"
    /\ frames' = {} /\ noteFrames' = 0
    /\ unsure' = IF ReadOnce(roster)
                 THEN unsure \cup {f[1] : f \in {g \in frames : g[2] > roster.answer[g[1]]}}
                 ELSE unsure
    /\ owed' = (owed \/ (noteFrames > 0 /\ inbox.get # "asked"))
    /\ UNCHANGED <<presence, notes, roster, inbox, setStatus, marks>>

-----------------------------------------------------------------------------
(* The server. *)

\* How often anybody's presence has changed.
Changes == FoldFunction(+, 0, presence)

\* Nothing is pushed of a change of u; a GET not read yet, such as that of the
\* next onOpen, will show it.
Untold(u) ==
    LET shownLater == roster.get = "asked" \/ (socket = "down" /\ ~ReadOnce(roster)) IN
    unsure' = IF shownLater THEN unsure ELSE unsure \cup {u}

\* A presence changes and is broadcast to whoever is in the room.
Published(u) ==
    /\ Changes < MaxChanges
    /\ presence' = [presence EXCEPT ![u] = @ + 1]
    /\ IF socket = "joined"
       THEN frames' = frames \cup {<<u, presence[u] + 1>>} /\ UNCHANGED unsure
       ELSE UNCHANGED frames /\ Untold(u)

\* A stored "online" reads as away, then as offline, once its last_seen is old;
\* a heartbeat makes it online again.  Neither is broadcast.
effective_status(u) ==
    /\ Changes < MaxChanges
    /\ presence' = [presence EXCEPT ![u] = @ + 1]
    /\ Untold(u)
    /\ UNCHANGED <<notes, socket, frames, noteFrames, roster, inbox, setStatus, marks, owed>>

\* Another user, another tab, a first socket or a last close.
PresenceChanges(u) ==
    /\ Published(u)
    /\ UNCHANGED <<notes, socket, noteFrames, roster, inbox, setStatus, marks, owed>>

StatusStored ==
    /\ setStatus.st = "sent" /\ Published(Me)
    /\ setStatus' = [st |-> "stored", value |-> presence[Me] + 1]
    /\ UNCHANGED <<notes, socket, noteFrames, roster, inbox, marks, owed>>

NoteArrives(n) ==
    /\ notes[n] = "none" /\ notes' = [notes EXCEPT ![n] = "unread"]
    /\ IF socket = "joined"
       THEN noteFrames' = noteFrames + 1 /\ UNCHANGED owed
       ELSE UNCHANGED noteFrames /\ owed' = (owed \/ inbox.get # "asked")
    /\ UNCHANGED <<presence, socket, frames, roster, inbox, setStatus, marks, unsure>>

MarkStored(m) ==
    /\ m.st = "sent"
    /\ notes' = [n \in Notes |-> IF n \in m.of /\ notes[n] = "unread" THEN "read" ELSE notes[n]]
    /\ marks' = (marks \ {m}) \cup {[m EXCEPT !.st = "stored"]}
    /\ UNCHANGED <<presence, socket, frames, noteFrames, roster, inbox, setStatus, unsure, owed>>

-----------------------------------------------------------------------------
(* Presence in the browser. *)

\* report: one row replaced, whichever is newer; the entry counts as fresh.
report(u, v) ==
    LET old == IF roster.data = NoRoster THEN [w \in Users |-> 0] ELSE roster.data IN
    /\ roster' = SetData(roster, [old EXCEPT ![u] = v])
    /\ unsure' = IF v < old[u] THEN unsure \cup {u}
                 ELSE IF roster.data = NoRoster THEN unsure \cup (Users \ {u}) ELSE unsure

FrameLands(f) ==
    /\ f \in frames /\ frames' = frames \ {f}
    /\ report(f[1], f[2])
    /\ UNCHANGED <<presence, notes, socket, noteFrames, inbox, setStatus, marks, owed>>

\* The menu's items wait for the answer before.
setMyPresence ==
    /\ setStatus = NotSetting
    /\ setStatus' = [st |-> "sent", value |-> 0]
    /\ UNCHANGED <<presence, notes, socket, frames, noteFrames, roster, inbox, marks, unsure, owed>>

\* The answer may be older than a frame that came before it.
StatusAnswers ==
    /\ setStatus.st # "none" /\ setStatus' = NotSetting
    /\ \/ setStatus.st = "stored" /\ report(Me, setStatus.value)
       \/ UNCHANGED <<roster, unsure>>
    /\ UNCHANGED <<presence, notes, socket, frames, noteFrames, inbox, marks, owed>>

RosterRead ==
    /\ roster.get = "asked" /\ roster' = Answer(roster, presence)
    /\ unsure' = {}
    /\ UNCHANGED <<presence, notes, socket, frames, noteFrames, inbox, setStatus, marks, owed>>

\* Lands over whatever frames wrote meanwhile, or fails and leaves it.
RosterAnswers ==
    /\ \/ /\ roster.get = "read" /\ roster' = Land(roster)
          /\ unsure' = IF roster.data = NoRoster THEN unsure
                       ELSE unsure \cup {u \in Users : roster.answer[u] < roster.data[u]}
       \/ Fetching(roster) /\ roster' = Lose(roster) /\ unsure' = Users
    /\ UNCHANGED <<presence, notes, socket, frames, noteFrames, inbox, setStatus, marks, owed>>

-----------------------------------------------------------------------------
(* The notifications page. *)

NoteFrameLands ==
    /\ noteFrames > 0 /\ noteFrames' = noteFrames - 1
    /\ inbox' = Invalidate(inbox, TRUE) /\ owed' = (owed \/ ReadOnce(inbox))
    /\ UNCHANGED <<presence, notes, socket, frames, roster, setStatus, marks, unsure>>

InboxRead ==
    /\ inbox.get = "asked" /\ inbox' = Answer(inbox, notes)
    /\ owed' = FALSE
    /\ UNCHANGED <<presence, notes, socket, frames, noteFrames, roster, setStatus, marks, unsure>>

InboxAnswers ==
    /\ \/ inbox.get = "read" /\ inbox' = Land(inbox)
       \/ Fetching(inbox) /\ inbox' = Lose(inbox)
    /\ UNCHANGED <<presence, notes, socket, frames, noteFrames, roster, setStatus, marks, unsure, owed>>

\* Try again, or a return to the window.
InboxAgain ==
    /\ inbox.invalid /\ ~Fetching(inbox) /\ inbox' = Ask(inbox)
    /\ UNCHANGED <<presence, notes, socket, frames, noteFrames, roster, setStatus, marks, unsure, owed>>

Unread == IF inbox.data = NoRoster THEN {} ELSE {n \in Notes : inbox.data[n] = "unread"}

\* The check button waits for the mutation before; a click on the card does not.
NotificationList(ns) ==
    /\ ns # {} /\ \A m \in marks : m.of # ns
    /\ ns = Unread \/ \E n \in Unread : ns = {n}
    /\ marks' = marks \cup {[of |-> IF ns = Unread THEN Notes ELSE ns, st |-> "sent"]}
    /\ UNCHANGED <<presence, notes, socket, frames, noteFrames, roster, inbox, setStatus, unsure, owed>>

onMarked == inbox' = Invalidate(inbox, TRUE)

MarkAnswers(m) ==
    /\ marks' = marks \ {m}
    /\ \/ m.st = "stored" /\ onMarked /\ UNCHANGED owed
       \/ UNCHANGED inbox /\ owed' = (owed \/ (m.st = "stored" /\ inbox.get # "asked"))
    /\ UNCHANGED <<presence, notes, socket, frames, noteFrames, roster, setStatus, unsure>>

InboxNext ==
    \/ Accepted \/ Joined \/ Dropped
    \/ \E u \in Users : PresenceChanges(u) \/ effective_status(u)
    \/ \E n \in Notes : NoteArrives(n)
    \/ \E f \in frames : FrameLands(f)
    \/ setMyPresence \/ StatusStored \/ StatusAnswers \/ RosterRead \/ RosterAnswers
    \/ NoteFrameLands \/ InboxRead \/ InboxAnswers \/ InboxAgain
    \/ \E ns \in SUBSET Notes : NotificationList(ns)
    \/ \E m \in marks : MarkStored(m) \/ MarkAnswers(m)

-----------------------------------------------------------------------------
(* With the socket joined and nothing in flight, the roster shows          *)
(* everybody's latest presence, and the notifications are the server's,    *)
(* whatever was missed while the socket was down.  The exceptions are      *)
(* users for whom, since the last GET was read, an older value replaced a  *)
(* newer one (an overtaken frame, a status answer behind its frame, a GET  *)
(* behind a frame), a frame was sent between accept and join, nothing was  *)
(* sent because a status only aged, or the GET failed; changes missed      *)
(* after the first load of the roster was read, which onOpen joins; and an *)
(* inbox that was told nothing, as presence alone is refetched when the    *)
(* socket opens, or told while its first load had already been read.       *)
SettledPushesAreCurrent ==
    (socket = "joined" /\ frames = {} /\ noteFrames = 0 /\ setStatus.st = "none" /\ marks = {}) =>
        /\ (~Fetching(roster) /\ roster.data # NoRoster) =>
              \A u \in Users \ unsure : roster.data[u] = presence[u]
        /\ (~Fetching(inbox) /\ inbox.data # NoRoster /\ ~inbox.invalid /\ ~owed) => inbox.data = notes
=============================================================================
