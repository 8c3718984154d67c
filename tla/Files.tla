------------------------------- MODULE Files -------------------------------
(***************************************************************************)
(* The files page: the table of uploads, the dialog that adds one, and the *)
(* dialog of each row that shares its file to a channel.  Sharing is two   *)
(* requests, one to post a message and one to link the file to it, and     *)
(* either may fail after it had its effect.                                *)
(***************************************************************************)
EXTENDS Pages, Integers, FiniteSets, QueryEntry

CONSTANTS Docs,        \* what the visitor may upload
          Uploads,     \* the ids the server gives to files
          NoFile,
          MaxPosts     \* bound: messages posted about one file

ASSUME FilesAssumption == MaxPosts \in Nat

VARIABLES fileRows,      \* file -> "unused", "stored" or "deleted" at the server
          posts,     \* file -> how many messages were posted about it
          files,     \* the cache entry of the list
          isError,   \* the list's last GET failed
          uploader,  \* FileUploader: [open, picked, sending, st]
          dialog,    \* file -> its ShareFileDialog: [open, channel, pending, error]
          shares,    \* the onShare calls under way
          removing,  \* the DELETE under way: [row, st]
          good,      \* history: file -> shares that ran to their end
          torn       \* history: file -> shares cut off after their message was posted

filesVars == <<fileRows, posts, files, isError, uploader, dialog, shares, removing, good, torn>>

NoShare == [open |-> FALSE, channel |-> FALSE, pending |-> FALSE, error |-> FALSE]
NoUpload == [open |-> FALSE, picked |-> NoFile, sending |-> NoFile, st |-> "none"]
NoRemoval == [row |-> NoFile, st |-> "none"]
Stored == {f \in Uploads : fileRows[f] = "stored"}

FilesTypeOK ==
    /\ fileRows \in [Uploads -> {"unused", "stored", "deleted"}]
    /\ {posts, good, torn} \subseteq [Uploads -> 0..MaxPosts]
    /\ files \in Entry(SUBSET Uploads \cup {NoFile}) /\ isError \in BOOLEAN
    /\ uploader \in [open : BOOLEAN, picked : Docs \cup {NoFile}, sending : Docs \cup {NoFile},
                     st : {"none", "sent", "stored"}]
    /\ dialog \in [Uploads -> [open : BOOLEAN, channel : BOOLEAN, pending : BOOLEAN, error : BOOLEAN]]
    /\ shares \subseteq [n : 1..MaxPosts, file : Uploads, here : BOOLEAN,
                         st : {"posting", "posted", "linking", "linked"}]
    /\ removing \in [row : Uploads \cup {NoFile}, st : {"none", "sent", "done"}]

\* Loading, then the table; an error view in its place once a GET failed.
FilesView ==
    IF isError THEN "error" ELSE IF files.data = NoFile THEN "pending" ELSE "table"
FileList == IF FilesView = "table" THEN files.data ELSE {}

\* A row that is no longer drawn takes its dialog with it; the call goes on.
Redraw(ds, ss) ==
    /\ dialog' = [f \in Uploads |-> IF f \in FileList' THEN ds[f] ELSE NoShare]
    /\ shares' = {[s EXCEPT !.here = @ /\ s.file \in FileList'] : s \in ss}

\* A fetch of a list never seen goes back to loading.
Refetching == files.data # NoFile /\ isError

FilesModal == uploader.open \/ \E f \in Uploads : dialog[f].open

FilesInit ==
    /\ fileRows = [f \in Uploads |-> "unused"]
    /\ posts = [f \in Uploads |-> 0] /\ good = posts /\ torn = posts
    /\ files = Ask(NewEntry(NoFile)) /\ isError = FALSE
    /\ uploader = NoUpload /\ dialog = [f \in Uploads |-> NoShare]
    /\ shares = {} /\ removing = NoRemoval

-----------------------------------------------------------------------------
(* The list's GET. *)

FilesRead ==
    /\ files.get = "asked"
    /\ files' = Answer(files, Stored)
    /\ UNCHANGED <<fileRows, posts, isError, uploader, dialog, shares, removing, good, torn>>

FilesAnswer ==
    /\ \/ files.get = "read" /\ files' = Land(files) /\ isError' = FALSE
       \/ Fetching(files) /\ files' = Lose(files) /\ isError' = TRUE
    /\ UNCHANGED <<fileRows, posts, uploader, removing, good, torn>>
    /\ Redraw(dialog, shares)

\* Try again; and, as the list is stale at once, every return to the window.
refetch ==
    /\ ~Fetching(files)
    /\ files' = Ask(files) /\ isError' = Refetching
    /\ UNCHANGED <<fileRows, posts, uploader, removing, good, torn>>
    /\ Redraw(dialog, shares)

\* Every mutation's onSuccess.
InvalidateFiles(ds, ss) ==
    /\ files' = Invalidate(files, TRUE) /\ isError' = Refetching
    /\ Redraw(ds, ss)

-----------------------------------------------------------------------------
(* The upload dialog. *)

\* The drop zone takes another file even while one is being sent.
handleFile(d) ==
    /\ uploader.open
    /\ uploader' = [uploader EXCEPT !.picked = d]
    /\ UNCHANGED <<fileRows, posts, files, isError, dialog, shares, removing, good, torn>>

onClose ==
    /\ uploader.open \/ ~FilesModal
    /\ uploader' = [uploader EXCEPT !.open = ~@, !.picked = IF uploader.open THEN NoFile ELSE @]
    /\ UNCHANGED <<fileRows, posts, files, isError, dialog, shares, removing, good, torn>>

onSubmit ==
    /\ uploader.open /\ uploader.picked # NoFile /\ uploader.st = "none"
    /\ uploader' = [uploader EXCEPT !.sending = uploader.picked, !.st = "sent"]
    /\ UNCHANGED <<fileRows, posts, files, isError, dialog, shares, removing, good, torn>>

UploadStored(f) ==
    /\ uploader.st = "sent" /\ fileRows[f] = "unused"
    /\ fileRows' = [fileRows EXCEPT ![f] = "stored"]
    /\ uploader' = [uploader EXCEPT !.st = "stored"]
    /\ UNCHANGED <<posts, files, isError, dialog, shares, removing, good, torn>>

\* The answer forgets whatever is picked by then and closes the dialog.
UploadLands ==
    /\ uploader.st = "stored"
    /\ uploader' = NoUpload
    /\ UNCHANGED <<fileRows, posts, removing, good, torn>>
    /\ InvalidateFiles(dialog, shares)

\* Refused or lost: the dialog keeps the file for another try.
UploadFails ==
    /\ uploader.st # "none"
    /\ uploader' = [uploader EXCEPT !.sending = NoFile, !.st = "none"]
    /\ UNCHANGED <<fileRows, posts, files, isError, dialog, shares, removing, good, torn>>

-----------------------------------------------------------------------------
(* Deleting; one at a time. *)

remove(f) ==
    /\ f \in FileList /\ ~FilesModal /\ removing = NoRemoval
    /\ removing' = [row |-> f, st |-> "sent"]
    /\ UNCHANGED <<fileRows, posts, files, isError, uploader, dialog, shares, good, torn>>

RemoveDone ==
    /\ removing.st = "sent" /\ fileRows[removing.row] = "stored"
    /\ fileRows' = [fileRows EXCEPT ![removing.row] = "deleted"]
    /\ removing' = [removing EXCEPT !.st = "done"]
    /\ UNCHANGED <<posts, files, isError, uploader, dialog, shares, good, torn>>

RemoveAnswers ==
    /\ removing.st # "none" /\ removing' = NoRemoval
    /\ UNCHANGED <<fileRows, posts, uploader, good, torn>>
    /\ \/ removing.st = "done" /\ InvalidateFiles(dialog, shares)
       \/ UNCHANGED <<files, isError, dialog, shares>>

-----------------------------------------------------------------------------
(* The share dialog. *)

SetShareOpen(f) ==
    /\ f \in FileList /\ (dialog[f].open \/ ~FilesModal)
    /\ dialog' = [dialog EXCEPT ![f].open = ~@]
    /\ UNCHANGED <<fileRows, posts, files, isError, uploader, shares, removing, good, torn>>

ChooseChannel(f) ==
    /\ dialog[f].open
    /\ dialog' = [dialog EXCEPT ![f].channel = TRUE]
    /\ UNCHANGED <<fileRows, posts, files, isError, uploader, shares, removing, good, torn>>

\* Mutant: enabled while loading.
mut_NeverDisabled(f) == ~dialog[f].channel

\* Disabled without a channel and while loading.
LoadingButton(f) == ~dialog[f].channel \/ dialog[f].pending

onShare(f) ==
    /\ dialog[f].open /\ ~LoadingButton(f)
    /\ posts[f] + Cardinality({s \in shares : s.file = f /\ s.st = "posting"}) < MaxPosts
    /\ \E n \in 1..MaxPosts :
        /\ \A s \in shares : s.n # n
        /\ shares' = shares \cup {[n |-> n, file |-> f, here |-> TRUE, st |-> "posting"]}
    /\ dialog' = [dialog EXCEPT ![f].pending = TRUE, ![f].error = FALSE]
    /\ UNCHANGED <<fileRows, posts, files, isError, uploader, removing, good, torn>>

\* The server's side of its two requests.
SharePosts(s) ==
    /\ s.st = "posting"
    /\ posts' = [posts EXCEPT ![s.file] = @ + 1]
    /\ shares' = (shares \ {s}) \cup {[s EXCEPT !.st = "posted"]}
    /\ UNCHANGED <<fileRows, files, isError, uploader, dialog, removing, good, torn>>

ShareLinks(s) ==
    /\ s.st = "linking" /\ fileRows[s.file] = "stored"
    /\ shares' = (shares \ {s}) \cup {[s EXCEPT !.st = "linked"]}
    /\ UNCHANGED <<fileRows, posts, files, isError, uploader, dialog, removing, good, torn>>

\* The message came back: on to the link.
ShareGoesOn(s) ==
    /\ s.st = "posted"
    /\ shares' = (shares \ {s}) \cup {[s EXCEPT !.st = "linking"]}
    /\ UNCHANGED <<fileRows, posts, files, isError, uploader, dialog, removing, good, torn>>

ShareEnds(s) ==
    /\ s.st = "linked"
    /\ good' = [good EXCEPT ![s.file] = @ + 1]
    /\ UNCHANGED <<fileRows, posts, uploader, removing, torn>>
    /\ InvalidateFiles(IF s.here THEN [dialog EXCEPT ![s.file] = NoShare] ELSE dialog, shares \ {s})

\* The catch: the dialog offers Share again, whichever request it was.
ShareFails(s) ==
    /\ dialog' = IF s.here THEN [dialog EXCEPT ![s.file].pending = FALSE, ![s.file].error = TRUE] ELSE dialog
    /\ shares' = shares \ {s}
    /\ torn' = IF s.st = "posting" THEN torn ELSE [torn EXCEPT ![s.file] = @ + 1]
    /\ UNCHANGED <<fileRows, posts, files, isError, uploader, removing, good>>

FilesNext ==
    \/ FilesRead \/ FilesAnswer \/ refetch
    \/ \E d \in Docs : handleFile(d)
    \/ onClose \/ onSubmit \/ UploadLands \/ UploadFails
    \/ \E f \in Uploads : UploadStored(f) \/ remove(f) \/ SetShareOpen(f) \/ ChooseChannel(f) \/ onShare(f)
    \/ RemoveDone \/ RemoveAnswers
    \/ \E s \in shares : SharePosts(s) \/ ShareLinks(s) \/ ShareGoesOn(s) \/ ShareEnds(s) \/ ShareFails(s)

-----------------------------------------------------------------------------
(* A second message about a file needs a reason: a share that ran to its  *)
(* end, one cut off after its message was posted, or one whose dialog was  *)
(* lost with its row (the list's GET failed) while the call went on.  No   *)
(* second click, closed and reopened dialog or redrawn table is enough.    *)
SecondPostHasAReason ==
    \A f \in Uploads :
        posts[f] <= 1 + good[f] + torn[f] + Cardinality({s \in shares : s.file = f /\ ~s.here})

=============================================================================
