-------------------------------- MODULE Chat --------------------------------
(***************************************************************************)
(* One browser's chat page against the messages table: the message lists   *)
(* in the query cache, the optimistic placeholder of a send, and the       *)
(* frames of the channel's socket, which patch the list on screen.         *)
(*                                                                         *)
(* The server writes what this page and everybody else ask for and sends   *)
(* one frame per write to the sockets that have joined the room; frames of *)
(* different writes overtake one another.  A list is refetched whole.      *)
(* The socket's own reconnecting is RealtimeSocket's; here it opens and    *)
(* closes at any time.                                                     *)
(***************************************************************************)
EXTENDS Naturals, Sequences, FiniteSets, FiniteSetsExt

CONSTANTS
    Channels,
    Searches,           \* {FALSE}, or BOOLEAN when a search is made too
    Texts, Matching,    \* what a message can say; what the search matches
    Sends,              \* bound: the sends of this browser, each with its own placeholder id
    None,               \* no channel shown, no send, no message replied to
    Unborn, Gone,       \* an id not yet given; a deleted message
    Unloaded,           \* a list that was never received
    PageCap,            \* the most rows a list answer carries
    MaxMessages,        \* bound: messages ever posted
    MaxWrites           \* bound: all writes to the table

ASSUME ChatAssumption ==
    /\ Matching \subseteq Texts /\ FALSE \in Searches /\ Searches \subseteq BOOLEAN
    /\ PageCap \in Nat \ {0} /\ MaxMessages \in Nat /\ MaxWrites \in Nat
    /\ None \notin Channels \cup Sends \cup (1..MaxMessages)

Ids == 1..MaxMessages               \* in the order of created_at
Row == [channel : Channels, text : Texts, reacted : BOOLEAN, parent : Ids \cup {None}]
Keys == [channel : Channels, searching : Searches]   \* channelKeys.messages(id), searchQuery
Frame ==
    [type : {"new_message", "message_updated"}, id : Ids, row : Row]
        \cup [type : {"reaction_update"}, id : Ids, channel : Channels, reacted : BOOLEAN]
        \cup [type : {"message_deleted"}, ids : SUBSET Ids, channel : Channels]

VARIABLES
    rows,       \* the messages table
    writes,     \* how many writes it has seen
    cache,      \* key -> list, its mark, the GET under way and what it reverts to
    view,       \* the key on screen, None while another page is
    composer,   \* the send that disables the composer
    replyingTo,
    sends,      \* a send and how far it is
    reaction,   \* the reaction under way: its message and the answer, if any
    joined,     \* the server has this page's socket in the room of view.channel
    socket,     \* "closed" (or connecting), "open"
    frames      \* on their way to this socket

serverVars == <<rows, writes>>
pageVars == <<view, composer, replyingTo>>
socketVars == <<joined, socket, frames>>
vars == <<serverVars, cache, pageVars, sends, reaction, socketVars>>

\* An item of a list: a message, or the placeholder of a send.
Item == [id : Ids \cup Sends, row : Row]
Unsent == [phase |-> "unsent"]
Ended == [phase |-> "ended"]
\* "paused": waiting for the network; "sent": on its way; "done", "failed".
\* key is where its placeholder is, channel where it is posted.
Send == [phase : {"paused", "sent", "done", "failed"}, key : Keys, channel : Channels,
         text : Texts, parent : Ids \cup {None}, waited : BOOLEAN]
NoReaction == [phase |-> "none"]
\* key is the list its answer is written to: None for the one on screen.
Reaction == [phase : {"sent"}, id : Ids, key : Keys \cup {None}]
        \cup [phase : {"done"}, id : Ids, key : Keys \cup {None}, reacted : BOOLEAN]

List == Seq(Item) \cup {Unloaded}
Entry == [data : List, invalid : BOOLEAN, get : {"none", "asked", "read"},
          answer : List, before : List]

\* A placeholder's id is no message's, and the markers are none of what they mark.
ASSUME NamesAssumption ==
    /\ Sends \cap Ids = {} /\ None \notin Keys /\ Unloaded \notin Seq(Item)
    /\ Unborn \notin Row /\ Gone \notin Row /\ Unborn # Gone

TypeOK ==
    /\ rows \in [Ids -> Row \cup {Unborn, Gone}] /\ writes \in 0..MaxWrites
    /\ cache \in [Keys -> Entry]
    /\ view \in Keys \cup {None}
    /\ composer \in Sends \cup {None} /\ replyingTo \in Ids \cup {None}
    /\ sends \in [Sends -> Send \cup {Unsent, Ended}]
    /\ reaction \in Reaction \cup {NoReaction}
    /\ joined \in BOOLEAN /\ socket \in {"closed", "open"}
    /\ frames \subseteq Frame
    /\ joined => socket = "open" /\ view # None

-----------------------------------------------------------------------------
\* Server

Exists(id) == rows[id] \in Row

\* A set of numbers in ascending order.
Nth(S, n) == CHOOSE x \in S : Cardinality({y \in S : y < x}) = n - 1
Ascending(S) == [n \in 1..Cardinality(S) |-> Nth(S, n)]

\* GET /channels/{id}/messages, oldest first and at most PageCap of them.
Selected(key) == {id \in Ids : /\ Exists(id) /\ rows[id].channel = key.channel
                               /\ key.searching => rows[id].text \in Matching}

list_channel_messages(key) ==
    LET all == Ascending(Selected(key)) IN
       [i \in 1..(IF Len(all) < PageCap THEN Len(all) ELSE PageCap) |->
            [id |-> all[i], row |-> rows[all[i]]]]

\* A commit, and its frame to the room.
Write(newRows, frame, channel) ==
    /\ writes < MaxWrites /\ writes' = writes + 1
    /\ rows' = newRows
    /\ frames' = IF joined /\ view.channel = channel THEN frames \cup {frame} ELSE frames

\* POST: the parent must exist and be of the same channel.
MayPost(channel, parent) ==
    parent # None => Exists(parent) /\ rows[parent].channel = channel

create_message(channel, text, parent) ==
    \E id \in Ids :
        LET row == [channel |-> channel, text |-> text, reacted |-> FALSE, parent |-> parent] IN
        /\ rows[id] = Unborn /\ \A earlier \in 1..(id - 1) : rows[earlier] # Unborn
        /\ MayPost(channel, parent)
        /\ Write([rows EXCEPT ![id] = row],
                 [type |-> "new_message", id |-> id, row |-> row], channel)

update_message(id) ==
    \E text \in Texts :
        LET row == [rows[id] EXCEPT !.text = text] IN
        /\ Exists(id) /\ text # rows[id].text
        /\ Write([rows EXCEPT ![id] = row],
                 [type |-> "message_updated", id |-> id, row |-> row], row.channel)

toggle_reaction(id) ==
    LET row == [rows[id] EXCEPT !.reacted = ~@] IN
    /\ Exists(id)
    /\ Write([rows EXCEPT ![id] = row],
             [type |-> "reaction_update", id |-> id, channel |-> row.channel,
              reacted |-> row.reacted], row.channel)

\* The message and, by the cascade, the replies under it: the least set that has
\* it and the replies to its members.
_message_subtree_ids(id) ==
    LET Closed(U) == id \in U /\ \A r \in Ids : Exists(r) /\ rows[r].parent \in U => r \in U
    IN {r \in Ids : \A U \in SUBSET Ids : Closed(U) => r \in U}

delete_message(id) ==
    LET removed == _message_subtree_ids(id) IN
    /\ Exists(id)
    /\ Write([r \in Ids |-> IF r \in removed THEN Gone ELSE rows[r]],
             [type |-> "message_deleted", ids |-> removed, channel |-> rows[id].channel],
             rows[id].channel)

\* Other members, and this user's other tabs.
OthersWrite ==
    /\ \/ \E c \in Channels, text \in Texts, parent \in Ids \cup {None} :
            create_message(c, text, parent)
       \/ \E id \in Ids : update_message(id) \/ toggle_reaction(id) \/ delete_message(id)
    /\ UNCHANGED <<cache, pageVars, sends, reaction, joined, socket>>

-----------------------------------------------------------------------------
\* The cache

Fetching(e) == e.get # "none"

\* A fetch remembers the state it started from; one that is under way already
\* is joined while nothing was ever received, and silently replaced after that.
Ask(e) ==
    IF Fetching(e) /\ e.data = Unloaded THEN e
    ELSE [e EXCEPT !.get = "asked", !.answer = Unloaded, !.before = e.data]

NewKey == [data |-> Unloaded, invalid |-> FALSE, get |-> "none",
           answer |-> Unloaded, before |-> Unloaded]

\* Only a list that is or was once asked for has an entry to mark.
invalidateQueries(e, shown) ==
    LET marked == [e EXCEPT !.invalid = TRUE] IN
    IF e = NewKey THEN e ELSE IF shown THEN Ask(marked) ELSE marked

\* cancelQueries undoes whatever was written since the fetch started.
cancelQueries(e) ==
    IF Fetching(e)
    THEN [e EXCEPT !.get = "none", !.data = e.before, !.answer = Unloaded, !.before = Unloaded]
    ELSE e

\* A write to the cache counts as an answer: the mark goes.
setQueryData(e, list) == [e EXCEPT !.data = list, !.invalid = FALSE]

OrEmpty(list) == IF list = Unloaded THEN << >> ELSE list
HasRow(list, id) == list # Unloaded /\ \E i \in DOMAIN list : list[i].id = id
Patched(list, id, row) ==
    [i \in DOMAIN list |-> IF list[i].id = id THEN [list[i] EXCEPT !.row = row] ELSE list[i]]
Without(list, ids) ==
    LET kept == Ascending({i \in DOMAIN list : list[i].id \notin ids})
    IN [n \in DOMAIN kept |-> list[kept[n]]]

restVars == <<serverVars, pageVars, sends, reaction, socketVars>>

\* The window regains focus, or the entry has gone stale under an effect.
Refetch ==
    /\ view # None /\ ~Fetching(cache[view])
    /\ cache' = [cache EXCEPT ![view] = Ask(@)]
    /\ UNCHANGED restVars

ServerReads(k) ==
    /\ cache[k].get = "asked"
    /\ cache' = [cache EXCEPT ![k].get = "read", ![k].answer = list_channel_messages(k)]
    /\ UNCHANGED restVars

GetLands(k) ==
    /\ cache[k].get = "read"
    /\ cache' = [cache EXCEPT ![k] =
          [data |-> @.answer, get |-> "none", answer |-> Unloaded, before |-> Unloaded,
           invalid |-> FALSE]]
    /\ UNCHANGED restVars

GetFails(k) ==
    /\ Fetching(cache[k])
    /\ cache' = [cache EXCEPT ![k] =
          [@ EXCEPT !.get = "none", !.answer = Unloaded, !.before = Unloaded, !.invalid = TRUE]]
    /\ UNCHANGED restVars

-----------------------------------------------------------------------------
\* The page

\* What is shown from now on is fetched if it is missing, marked or a minute old.
ShownFrom(k) ==
    \E old \in BOOLEAN :
        cache' = IF ~Fetching(cache[k]) /\ (old \/ cache[k].invalid \/ cache[k].data = Unloaded)
                 THEN [cache EXCEPT ![k] = Ask(@)] ELSE cache

\* A channel is picked, a search submitted or cleared.  A message replied to
\* and the text of the composer stay; another channel is another socket.
Select(k) ==
    /\ view # None /\ k # view
    /\ view' = k
    /\ ShownFrom(k)
    /\ IF k.channel = view.channel THEN UNCHANGED socketVars
       ELSE socket' = "closed" /\ joined' = FALSE /\ frames' = {}
    /\ UNCHANGED <<serverVars, composer, replyingTo, sends, reaction>>

Enter ==
    /\ view = None
    /\ \E k \in Keys : ~k.searching /\ view' = k /\ ShownFrom(k)
    /\ UNCHANGED <<serverVars, composer, replyingTo, sends, reaction, socketVars>>

\* Sends under way outlive the page; its composer and its socket do not.  What
\* the page would still have decided for them is decided by its last rendering.
Leave ==
    /\ view # None
    /\ view' = None /\ composer' = None /\ replyingTo' = None
    /\ sends' = [s \in Sends |-> IF s = composer /\ sends[s].phase = "paused"
                                 THEN [sends[s] EXCEPT !.channel = view.channel,
                                                       !.parent = replyingTo]
                                 ELSE sends[s]]
    /\ reaction' = IF reaction = NoReaction \/ reaction.key # None THEN reaction
                   ELSE [reaction EXCEPT !.key = view]
    /\ socket' = "closed" /\ joined' = FALSE /\ frames' = {}
    /\ UNCHANGED <<serverVars, cache>>

\* Roots, and the replies under a root that is in the list: a search that finds
\* a reply and not its root shows neither.
Roots(list) == {list[i].id : i \in {j \in DOMAIN list : list[j].row.parent = None}}
Visible(list) ==
    Roots(list) \cup {list[i].id : i \in {j \in DOMAIN list : list[j].row.parent \in Roots(list)}}

OnScreen == OrEmpty(cache[view].data)

\* Only roots are replied to.
onReply(id) ==
    /\ view # None /\ id \in Roots(OnScreen) /\ replyingTo # id
    /\ replyingTo' = id
    /\ UNCHANGED <<serverVars, cache, view, composer, sends, reaction, socketVars>>

onCancelReply ==
    /\ replyingTo # None /\ replyingTo' = None
    /\ UNCHANGED <<serverVars, cache, view, composer, sends, reaction, socketVars>>

-----------------------------------------------------------------------------
\* Sending

buildOptimisticMessage(s, text) ==
    [id |-> s, row |-> [channel |-> view.channel, text |-> text, reacted |-> FALSE,
                        parent |-> replyingTo]]

\* The composer is disabled while its send is under way.
ComposerEnabled == view # None /\ composer = None

handleSend(s, text) ==
  \E offline \in BOOLEAN :
    /\ ComposerEnabled /\ sends[s] = Unsent
    /\ LET e == cancelQueries(cache[view]) IN
       /\ cache' = [cache EXCEPT ![view] =
                       setQueryData(e, Append(OrEmpty(e.data), buildOptimisticMessage(s, text)))]
       /\ sends' = [sends EXCEPT ![s] =
                       [phase |-> IF offline THEN "paused" ELSE "sent", key |-> view,
                        channel |-> view.channel, text |-> text, parent |-> replyingTo,
                        waited |-> offline]]
    /\ composer' = s
    /\ UNCHANGED <<serverVars, view, replyingTo, reaction, socketVars>>

\* A paused send runs when the network is back, with the closure of the page's
\* last rendering: the channel and the message replied to are those on screen
\* then.  (Pausing is the library's doing.)
Resume(s) ==
    /\ sends[s].phase = "paused"
    /\ sends' = IF composer = s
                THEN [sends EXCEPT ![s] = [@ EXCEPT !.phase = "sent", !.channel = view.channel,
                                                    !.parent = replyingTo]]
                ELSE [sends EXCEPT ![s].phase = "sent"]
    /\ UNCHANGED <<serverVars, cache, pageVars, reaction, socketVars>>

\* Mutant: posted to the channel on screen when the request is written.
mut_PostsToTheChannelOnScreen(s) ==
    /\ sends[s].phase = "sent" /\ view # None
    /\ create_message(view.channel, sends[s].text, sends[s].parent)
    /\ sends' = [sends EXCEPT ![s].phase = "done"]
    /\ UNCHANGED <<cache, pageVars, reaction, joined, socket>>

sendMessage(s) ==
    /\ sends[s].phase = "sent"
    /\ create_message(sends[s].channel, sends[s].text, sends[s].parent)
    /\ sends' = [sends EXCEPT ![s].phase = "done"]
    /\ UNCHANGED <<cache, pageVars, reaction, joined, socket>>

\* Refused, or the answer is lost.
SendFails(s) ==
    /\ sends[s].phase \in {"sent", "done"}
    /\ sends' = [sends EXCEPT ![s].phase = "failed"]
    /\ UNCHANGED <<serverVars, cache, pageVars, reaction, socketVars>>

\* Mutant: the list is put back as it was before this send was added to it.
mut_RestoresTheList(s) ==
    LET key == sends[s].key  list == OrEmpty(cache[key].data)
        mine == {i \in DOMAIN list : list[i].id = s}
        before == IF mine = {} THEN list ELSE SubSeq(list, 1, Min(mine) - 1)
    IN
    /\ sends[s].phase \in {"done", "failed"}
    /\ cache' = [cache EXCEPT ![key] =
          invalidateQueries(setQueryData(@, before), key = view)]
    /\ sends' = [sends EXCEPT ![s] = Ended]
    /\ IF composer = s THEN composer' = None /\ replyingTo' = None
       ELSE UNCHANGED <<composer, replyingTo>>
    /\ UNCHANGED <<serverVars, view, reaction, socketVars>>

\* Mutant: its placeholder is left to the refetch.
mut_LeavesThePlaceholder(s) ==
    /\ sends[s].phase \in {"done", "failed"}
    /\ cache' = [cache EXCEPT ![sends[s].key] = invalidateQueries(@, sends[s].key = view)]
    /\ sends' = [sends EXCEPT ![s] = Ended]
    /\ IF composer = s THEN composer' = None /\ replyingTo' = None
       ELSE UNCHANGED <<composer, replyingTo>>
    /\ UNCHANGED <<serverVars, view, reaction, socketVars>>

\* onSettled, after an answer and after an error: its own placeholder goes, and
\* with it what the composer held.
onSettled(s) ==
    LET key == sends[s].key IN
    /\ sends[s].phase \in {"done", "failed"}
    /\ cache' = [cache EXCEPT ![key] =
          invalidateQueries(setQueryData(@, Without(OrEmpty(@.data), {s})), key = view)]
    /\ sends' = [sends EXCEPT ![s] = Ended]
    /\ IF composer = s THEN composer' = None /\ replyingTo' = None
       ELSE UNCHANGED <<composer, replyingTo>>
    /\ UNCHANGED <<serverVars, view, reaction, socketVars>>

-----------------------------------------------------------------------------
\* Reacting, one reaction at a time

handleToggleReaction(id) ==
    /\ writes < MaxWrites       \* one that could only fail is left out
    /\ view # None /\ id \in Visible(OnScreen) /\ reaction = NoReaction
    /\ reaction' = [phase |-> "sent", id |-> id, key |-> None]
    /\ UNCHANGED <<serverVars, cache, pageVars, sends, socketVars>>

toggleReaction ==
    /\ reaction.phase = "sent" /\ toggle_reaction(reaction.id)
    /\ reaction' = [phase |-> "done", id |-> reaction.id, key |-> reaction.key,
                    reacted |-> ~rows[reaction.id].reacted]
    /\ UNCHANGED <<cache, pageVars, sends, joined, socket>>

ReactionFails ==
    /\ reaction # NoReaction /\ reaction' = NoReaction
    /\ UNCHANGED <<serverVars, cache, pageVars, sends, socketVars>>

\* The answer is written to the list on screen, which need not be the one the
\* message was in, nor have been received yet.
onReacted ==
    LET key == IF reaction.key = None THEN view ELSE reaction.key
        list == OrEmpty(cache[key].data)
    IN
    /\ reaction.phase = "done"
    /\ cache' = [cache EXCEPT ![key] = setQueryData(@,
          [i \in DOMAIN list |-> IF list[i].id = reaction.id
                                 THEN [list[i] EXCEPT !.row.reacted = reaction.reacted]
                                 ELSE list[i]])]
    /\ reaction' = NoReaction
    /\ UNCHANGED <<serverVars, pageVars, sends, socketVars>>

-----------------------------------------------------------------------------
\* The socket

\* The handshake has ended: the page invalidates every list of the channel, of
\* which only the one on screen is fetched.  The server joins the room later.
onOpen ==
    /\ view # None /\ socket = "closed"
    /\ socket' = "open"
    /\ cache' = [k \in Keys |-> IF k.channel = view.channel
                                THEN invalidateQueries(cache[k], k = view) ELSE cache[k]]
    /\ UNCHANGED <<serverVars, pageVars, sends, reaction, joined, frames>>

JoinRoom ==
    /\ socket = "open" /\ ~joined
    /\ joined' = TRUE
    /\ UNCHANGED <<serverVars, cache, pageVars, sends, reaction, socket, frames>>

\* What was on its way is lost.
onClose ==
    /\ socket = "open"
    /\ socket' = "closed" /\ joined' = FALSE /\ frames' = {}
    /\ UNCHANGED <<serverVars, cache, pageVars, sends, reaction>>

\* Mutant: the row is appended whether or not the list has it.
mut_AppendsAlways(list, f) == Append(OrEmpty(list), [id |-> f.id, row |-> f.row])

onNewMessage(list, f) ==
    IF HasRow(list, f.id) THEN list
    ELSE Append(OrEmpty(list), [id |-> f.id, row |-> f.row])

\* What a frame makes of the list on screen.
Applied(list, f) ==
    CASE f.type = "new_message" -> onNewMessage(list, f)
      [] f.type = "message_updated" -> Patched(OrEmpty(list), f.id, f.row)
      [] f.type = "reaction_update" ->
            [i \in DOMAIN list |-> IF list[i].id = f.id
                                   THEN [list[i] EXCEPT !.row.reacted = f.reacted] ELSE list[i]]
      [] f.type = "message_deleted" -> Without(OrEmpty(list), f.ids)

\* A search hides what is new and does not match; a reaction to a row that is
\* not in the list writes nothing.
Ignored(f) ==
    \/ f.type = "new_message" /\ view.searching /\ f.row.text \notin Matching
    \/ f.type = "reaction_update" /\ ~HasRow(cache[view].data, f.id)

onMessage(f) ==
    /\ f \in frames
    /\ frames' = frames \ {f}
    /\ cache' = IF Ignored(f) THEN cache
                ELSE [cache EXCEPT ![view] = setQueryData(@, Applied(@.data, f))]
    /\ UNCHANGED <<serverVars, pageVars, sends, reaction, joined, socket>>

-----------------------------------------------------------------------------
Init ==
    /\ rows = [id \in Ids |-> Unborn] /\ writes = 0
    /\ cache = [k \in Keys |-> NewKey]
    /\ view = None /\ composer = None /\ replyingTo = None
    /\ sends = [s \in Sends |-> Unsent] /\ reaction = NoReaction
    /\ joined = FALSE /\ socket = "closed" /\ frames = {}

Next ==
    \/ OthersWrite
    \/ Refetch \/ \E k \in Keys : ServerReads(k) \/ GetLands(k) \/ GetFails(k)
    \/ Enter \/ Leave \/ \E k \in Keys : Select(k)
    \/ onCancelReply \/ \E id \in Ids : onReply(id) \/ handleToggleReaction(id)
    \/ \E s \in Sends :
        \/ \E text \in Texts : handleSend(s, text)
        \/ Resume(s) \/ sendMessage(s) \/ SendFails(s) \/ onSettled(s)
    \/ toggleReaction \/ ReactionFails \/ onReacted
    \/ onOpen \/ JoinRoom \/ onClose \/ \E f \in frames : onMessage(f)

Spec == Init /\ [][Next]_vars

-----------------------------------------------------------------------------
\* No list shows a message twice: its frame, the author's own refetch and the
\* answer of any other GET bring the same row in every order.
NoRowTwice ==
    \A k \in Keys : LET list == OrEmpty(cache[k].data) IN
        \A i, j \in DOMAIN list : list[i].id = list[j].id => i = j

\* The placeholder of a send that has ended is not put back into any list, except
\* by a later send that cancels a fetch which started before it was removed.
OnlyACancelledFetchRevivesPlaceholders ==
    [][\A k \in Keys, s \in Sends :
        sends'[s] = Ended /\ HasRow(cache'[k].data, s) =>
            \/ sends[s] = Ended /\ HasRow(cache[k].data, s)
            \/ HasRow(cache[k].before, s) /\ \E other \in Sends :
                    sends[other] = Unsent /\ sends'[other] # Unsent]_vars

\* A message that still exists leaves a list only because an answer without it
\* arrives (read before it was posted, past the cap, or no longer matching the
\* search) or because a cancelled fetch takes the list back to where it started.
OnlyAnswersDropRows ==
    [][\A k \in Keys, id \in Ids :
        HasRow(cache[k].data, id) /\ ~HasRow(cache'[k].data, id) /\ Exists(id) =>
            \/ cache[k].get = "read" /\ cache'[k].get = "none"
            \/ Fetching(cache[k]) /\ ~HasRow(cache[k].before, id)]_vars

\* A message is posted in the channel whose list shows its placeholder, unless
\* it was sent offline and had to wait.
OnlyWaitingSendsMove ==
    [][\A s \in Sends :
        sends[s].phase = "sent" /\ sends'[s].phase = "done" /\ ~sends[s].waited =>
            \E id \in Ids : rows[id] = Unborn /\ rows'[id] # Unborn
                              /\ rows'[id].channel = sends[s].key.channel]_vars
=============================================================================
