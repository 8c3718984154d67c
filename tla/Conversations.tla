---------------------------- MODULE Conversations ----------------------------
(***************************************************************************)
(* The chat page's choice of a conversation: two lists loaded on their     *)
(* own, channels and direct messages, a dialog that creates a channel and  *)
(* one that opens a direct message with a member.  What is chosen is kept  *)
(* as an id; the screen shows that conversation if a list has it, and the  *)
(* first one listed otherwise.  A conversation is its place in the order   *)
(* of creation, which is the order of the lists.  A dialog can be closed   *)
(* while its POST is under way, so whether it is open is left out.         *)
(***************************************************************************)
EXTENDS Pages, Integers, Sequences, QueryEntry

CONSTANTS Peers,       \* members to open a direct message with
          Unlisted,    \* a list that has not been loaded
          MaxConvs     \* bound: conversations ever created

ASSUME ConversationsAssumption ==
    /\ "channel" \notin Peers /\ MaxConvs \in Nat
    /\ \A list \in SUBSET (1..MaxConvs) : list # Unlisted

VARIABLES convs,       \* the server's: [kind, mine, private, row, lost], kind
                       \* being "channel" or the peer of a direct message
          convList,    \* "channels" and "dms" -> the cache entry
          selectedId,  \* the conversation chosen; 0 for none yet
          creating,    \* "channels" and "dms" -> the POST: [st, id, peer]
          hollow       \* history: lists that need not have what was created

conversationsVars == <<convs, convList, selectedId, creating, hollow>>

ConvLists == {"channels", "dms"}
Convs == 1..MaxConvs
NoCreate == [st |-> "none", id |-> 0, peer |-> "none"]

\* mine: a channel created by the visitor; row: there is a channel_members row of
\* the visitor; lost (history): the visitor was shut out of it once.
ConvRecord == [kind : {"channel"} \cup Peers, mine : BOOLEAN, private : BOOLEAN,
               row : BOOLEAN, lost : BOOLEAN]

ConversationsTypeOK ==
    /\ convs \in Seq(ConvRecord) /\ Len(convs) <= MaxConvs
    /\ convList \in [ConvLists -> Entry(SUBSET Convs \cup {Unlisted})]
    /\ selectedId \in {0} \cup Convs
    /\ creating \in [ConvLists -> [st : {"none", "sent", "stored"}, id : {0} \cup Convs,
                               peer : {"none"} \cup Peers]]
    /\ hollow \subseteq ConvLists

\* What each of the two GETs returns.
_is_private_channel_member(v) == ~v.private \/ v.mine \/ v.row
list_workspace_channels ==
    {c \in DOMAIN convs : convs[c].kind = "channel" /\ _is_private_channel_member(convs[c])}
list_dms == {c \in DOMAIN convs : convs[c].kind \in Peers /\ convs[c].row}
RowsOf(q) == IF q = "channels" THEN list_workspace_channels ELSE list_dms

ListedConvs(q) == IF convList[q].data = Unlisted THEN {} ELSE convList[q].data
First(s) == CHOOSE c \in s : \A d \in s : c <= d

\* allChannels.find(...) ?? allChannels[0] ?? null, the channels coming first.
selectedChannel ==
    IF selectedId \in ListedConvs("channels") \cup ListedConvs("dms") THEN selectedId
    ELSE IF ListedConvs("channels") # {} THEN First(ListedConvs("channels"))
    ELSE IF ListedConvs("dms") # {} THEN First(ListedConvs("dms"))
    ELSE 0

ConversationsInit ==
    /\ convs = <<>>
    /\ convList = [q \in ConvLists |-> Ask(NewEntry(Unlisted))]
    /\ selectedId = 0
    /\ creating = [q \in ConvLists |-> NoCreate]
    /\ hollow = {}

-----------------------------------------------------------------------------
(* Other members. *)

NewConv(kind, mine, private, row) ==
    [kind |-> kind, mine |-> mine, private |-> private, row |-> row, lost |-> FALSE]

\* A channel is created, or a member opens a direct message with the visitor.
OtherCreates ==
    /\ Len(convs) < MaxConvs
    /\ \/ \E private \in BOOLEAN : convs' = Append(convs, NewConv("channel", FALSE, private, FALSE))
       \/ \E p \in Peers :
            /\ \A c \in list_dms : convs[c].kind # p
            /\ convs' = Append(convs, NewConv(p, FALSE, TRUE, TRUE))
    /\ UNCHANGED <<convList, selectedId, creating, hollow>>

\* Nothing shuts the creator of a channel out, so his own stay as they are.
\* Bound: the access to a conversation no longer changes once it was lost.
AccessBecomes(c, v) ==
    /\ ~v.mine /\ ~convs[c].lost
    /\ convs' = [convs EXCEPT ![c] = [v EXCEPT !.lost = @ \/ ~_is_private_channel_member(v)]]
    /\ UNCHANGED <<convList, selectedId, creating, hollow>>

\* An admin changes the type of a channel; its rows stay.
update_channel(c) ==
    /\ convs[c].kind = "channel"
    /\ AccessBecomes(c, [convs[c] EXCEPT !.private = ~@])

\* The visitor is let into a private channel, or taken out of it.
add_channel_member(c) ==
    /\ convs[c].kind = "channel" /\ convs[c].private /\ ~convs[c].row
    /\ AccessBecomes(c, [convs[c] EXCEPT !.row = TRUE])

remove_channel_member(c) ==
    /\ convs[c].kind = "channel" /\ convs[c].private /\ convs[c].row
    /\ AccessBecomes(c, [convs[c] EXCEPT !.row = FALSE])

-----------------------------------------------------------------------------
(* The two lists. *)

ListReads(q) ==
    /\ convList[q].get = "asked"
    /\ convList' = [convList EXCEPT ![q] = Answer(@, RowsOf(q))]
    /\ hollow' = hollow \ {q}
    /\ UNCHANGED <<convs, selectedId, creating>>

\* A backend that fails makes getDMs return an empty list, and the route of
\* the channels answers with one when it cannot look up the workspace.
EmptyForAFailure(q) ==
    /\ Fetching(convList[q])
    /\ convList' = [convList EXCEPT ![q] = Land(Answer(@, {}))]
    /\ hollow' = hollow \cup {q}
    /\ UNCHANGED <<convs, selectedId, creating>>

\* Without any answer what is shown stays.
ListLands(q) ==
    /\ \/ /\ convList[q].get = "read"
          /\ convList' = [convList EXCEPT ![q] = Land(@)]
       \/ /\ Fetching(convList[q])
          /\ convList' = [convList EXCEPT ![q] = Lose(@)]
    /\ UNCHANGED <<convs, selectedId, creating, hollow>>

\* The window regains focus and the list is stale.
ListAgain(q) ==
    /\ ~Fetching(convList[q])
    /\ convList' = [convList EXCEPT ![q] = Ask(@)]
    /\ UNCHANGED <<convs, selectedId, creating, hollow>>

\* A row of either list; the search over the rows only hides some for a time.
setSelectedId(c) ==
    /\ c \in ListedConvs("channels") \cup ListedConvs("dms")
    /\ selectedId' = c
    /\ UNCHANGED <<convs, convList, creating, hollow>>

-----------------------------------------------------------------------------
(* Creating a channel. *)

\* The dialog's button, disabled while an earlier POST is under way.
handleCreateChannel ==
    /\ creating["channels"] = NoCreate
    /\ creating' = [creating EXCEPT !["channels"].st = "sent"]
    /\ UNCHANGED <<convs, convList, selectedId, hollow>>

create_channel ==
    /\ creating["channels"].st = "sent" /\ Len(convs) < MaxConvs
    /\ convs' = Append(convs, NewConv("channel", TRUE, FALSE, FALSE))
    /\ creating' = [creating EXCEPT !["channels"] = [@ EXCEPT !.st = "stored", !.id = Len(convs')]]
    /\ UNCHANGED <<convList, selectedId, hollow>>

\* A list whose first load has been read already is not asked for again: the
\* refetch joins that load.
JoinsAnOldLoad(q) ==
    hollow' = IF Loading(convList[q]) /\ convList[q].get = "read" THEN hollow \cup {q} ELSE hollow

\* The answer invalidates every query of the chat and chooses the channel.
ChannelCreated ==
    /\ creating["channels"].st = "stored"
    /\ convList' = [q \in ConvLists |-> Invalidate(convList[q], TRUE)]
    /\ JoinsAnOldLoad("channels")
    /\ selectedId' = creating["channels"].id
    /\ creating' = [creating EXCEPT !["channels"] = NoCreate]
    /\ UNCHANGED convs

-----------------------------------------------------------------------------
(* Opening a direct message. *)

\* A member is picked, while no other POST of this dialog is under way.
NewDMDialog ==
    /\ creating["dms"] = NoCreate
    /\ \E p \in Peers :
        creating' = [creating EXCEPT !["dms"] = [@ EXCEPT !.st = "sent", !.peer = p]]
    /\ UNCHANGED <<convs, convList, selectedId, hollow>>

\* The direct message with that member, created if there is none.
create_dm ==
    LET there == {c \in list_dms : convs[c].kind = creating["dms"].peer} IN
    /\ creating["dms"].st = "sent"
    /\ IF there # {}
       THEN /\ creating' = [creating EXCEPT !["dms"] = [@ EXCEPT !.st = "stored", !.id = First(there)]]
            /\ UNCHANGED convs
       ELSE /\ Len(convs) < MaxConvs
            /\ convs' = Append(convs, NewConv(creating["dms"].peer, FALSE, TRUE, TRUE))
            /\ creating' = [creating EXCEPT !["dms"] = [@ EXCEPT !.st = "stored", !.id = Len(convs')]]
    /\ UNCHANGED <<convList, selectedId, hollow>>

\* Mutant: the list of channels is the one that is invalidated.
mut_TheOtherList ==
    /\ creating["dms"].st = "stored"
    /\ convList' = [convList EXCEPT !["channels"] = Invalidate(@, TRUE)]
    /\ JoinsAnOldLoad("dms")
    /\ selectedId' = creating["dms"].id
    /\ creating' = [creating EXCEPT !["dms"] = NoCreate]
    /\ UNCHANGED convs

DMReady ==
    /\ creating["dms"].st = "stored"
    /\ convList' = [convList EXCEPT !["dms"] = Invalidate(@, TRUE)]
    /\ JoinsAnOldLoad("dms")
    /\ selectedId' = creating["dms"].id
    /\ creating' = [creating EXCEPT !["dms"] = NoCreate]
    /\ UNCHANGED convs

\* Either POST is refused or lost: a toast, and its dialog stays as it is.
CreateFails(q) ==
    /\ creating[q] # NoCreate
    /\ creating' = [creating EXCEPT ![q] = NoCreate]
    /\ UNCHANGED <<convs, convList, selectedId, hollow>>

ConversationsNext ==
    \/ OtherCreates
    \/ \E c \in DOMAIN convs :
          update_channel(c) \/ add_channel_member(c) \/ remove_channel_member(c)
    \/ \E c \in Convs : setSelectedId(c)
    \/ \E q \in ConvLists :
          \/ ListReads(q) \/ ListLands(q) \/ EmptyForAFailure(q)
          \/ ListAgain(q) \/ CreateFails(q)
    \/ handleCreateChannel \/ create_channel \/ ChannelCreated
    \/ NewDMDialog \/ create_dm \/ DMReady

-----------------------------------------------------------------------------
(* Once both lists are at rest and neither is marked invalid, what was     *)
(* chosen, by a click or by creating it, is what the screen shows, unless  *)
(* the visitor was shut out of it, a list is empty only because its GET    *)
(* failed, or the very first load of a list had been read when the answer  *)
(* of the creation joined it: then the chat shows the first conversation   *)
(* that is listed.                                                         *)
SettledChoiceIsOnScreen ==
    (/\ \A q \in ConvLists : ~Fetching(convList[q]) /\ ~convList[q].invalid
     /\ selectedId # 0)
        => selectedChannel = selectedId \/ convs[selectedId].lost \/ hollow # {}
=============================================================================
