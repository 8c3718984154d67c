------------------------------ MODULE FileStore ------------------------------
(***************************************************************************)
(* Uploaded files: a row in the database and bytes on disk under the same  *)
(* key, written and removed by the server and swept by the maintenance     *)
(* command.                                                                *)
(*                                                                         *)
(* The server runs one handler at a time (no file handler awaits once it   *)
(* has begun to write), but the sweeper is another process: its steps fall *)
(* anywhere, also between the two writes of a handler.  Either process may *)
(* die between two of its steps, and an unlink may fail.                   *)
(*                                                                         *)
(* A key carries a fresh uuid, so each file is uploaded at most once.      *)
(* Time is the age of each file's bytes, counted up to MaxAge.             *)
(***************************************************************************)
EXTENDS Integers, FiniteSets, FiniteSetsExt

CONSTANTS
    Files, Users, Workspaces,
    Targets,            \* projects, tasks and messages a file can be linked to
    KindOf,             \* target -> which of the three it is
    TargetsOf,          \* workspace -> its targets
    NoFile, NoUser, NoRow,
    Sizes,              \* sizes of uploads, in quota units
    Quota,              \* max_workspace_storage_mb, 0 for no quota
    MinAge,             \* --min-age-hours: the sweeper's grace for rowless bytes
    RetainAge,          \* age at which the retention window closes
    SettingRetains,     \* UPLOAD_RETENTION_DAYS is set
    RetentionEnabled,   \* RETENTION_ENABLED
    CommitWithin,       \* ticks by which a running upload has committed or failed
    MaxAge              \* bound: ages saturate here

\* The columns the rest depends on.
Row == [uploader : Users, workspace : Workspaces, size : Sizes, link : SUBSET Targets]

ASSUME FileStoreAssumption ==
    /\ NoFile \notin Files /\ NoUser \notin Users /\ NoRow \notin Row
    /\ Sizes \subseteq Nat \ {0} /\ Quota \in Nat
    /\ MinAge \in Nat /\ RetainAge \in Nat
    /\ SettingRetains \in BOOLEAN /\ RetentionEnabled \in BOOLEAN
    /\ CommitWithin \in Nat /\ CommitWithin < MinAge
    /\ MaxAge \in Nat /\ MinAge <= MaxAge /\ RetainAge < MaxAge
    /\ TargetsOf \in [Workspaces -> SUBSET Targets]
    /\ Targets \cap Workspaces = {}

VARIABLES
    row,        \* files: the committed row, NoRow before and after
    bytes,      \* upload dir: never written, present or unlinked
    age,        \* time since the bytes were written, while they are there
    gone,       \* targets and workspaces deleted
    closed,     \* accounts deleted
    op,         \* the handler in progress and where it stands
    purge,      \* the maintenance process and what it has read
    torn        \* history: bytes an account deletion removed ahead of its commit

vars == <<row, bytes, age, gone, closed, op, purge, torn>>

NoOp == [at |-> "idle", file |-> NoFile, new |-> NoRow, user |-> NoUser,
         files |-> {}, left |-> {}]

Off == [at |-> "off", apply |-> FALSE, override |-> FALSE, old |-> {}, expired |-> {},
        rows |-> {}, missing |-> {}, left |-> {}]

TypeOK ==
    /\ row \in [Files -> Row \cup {NoRow}]
    /\ bytes \in [Files -> {"none", "present", "unlinked"}]
    /\ age \in [Files -> 0..MaxAge]
    /\ gone \in SUBSET (Targets \cup Workspaces)
    /\ closed \in SUBSET Users
    /\ op \in [at : {"idle", "written", "row_deleted", "closing"},
               file : Files \cup {NoFile}, new : Row \cup {NoRow}, user : Users \cup {NoUser},
               files : SUBSET Files, left : SUBSET Files]
    /\ purge \in [at : {"off", "started", "read", "checked", "listed", "unlinking"},
                  apply : BOOLEAN, override : BOOLEAN,
                  old : SUBSET Files, expired : SUBSET Files, rows : SUBSET Files,
                  missing : SUBSET Files, left : SUBSET Files]
    /\ torn \in SUBSET Files

Init ==
    /\ row = [f \in Files |-> NoRow]
    /\ bytes = [f \in Files |-> "none"]
    /\ age = [f \in Files |-> 0]
    /\ gone = {}
    /\ closed = {}
    /\ op = NoOp
    /\ purge = Off
    /\ torn = {}

Committed == {f \in Files : row[f] # NoRow}
Present == {f \in Files : bytes[f] = "present"}

\* SUM(files.size_bytes) of a workspace: rows only, whatever is on disk.
Used(w) == MapThenSumSet(LAMBDA f : row[f].size, {f \in Committed : row[f].workspace = w})

DeleteRows(fs) == row' = [f \in Files |-> IF f \in fs THEN NoRow ELSE row[f]]

Unlink(f) ==
    /\ bytes' = [bytes EXCEPT ![f] = IF @ = "present" THEN "unlinked" ELSE @]
    /\ age' = [age EXCEPT ![f] = 0]

-----------------------------------------------------------------------------
(* POST /workspaces/{id}/files: check the quota, write the bytes, commit.  *)

\* Mutant: the quota is compared before the incoming bytes are added.
mut_FitsIgnoringIncoming(w, s) == Quota = 0 \/ Used(w) <= Quota

FitsQuota(w, s) == Quota = 0 \/ Used(w) + s <= Quota

\* _validate_link_targets: existing targets of this workspace, one per kind.
Linkable(w, ts) ==
    /\ ts \subseteq TargetsOf[w] \ gone
    /\ \A t1, t2 \in ts : KindOf[t1] = KindOf[t2] => t1 = t2

NewRow(u, w, s, ts) == [uploader |-> u, workspace |-> w, size |-> s, link |-> ts]

\* A closed account has lost its memberships, so _require_member refuses it.
UploadWrite(f, u, w, s, ts) ==
    /\ op.at = "idle"
    /\ bytes[f] = "none"
    /\ w \notin gone /\ Linkable(w, ts)
    /\ u \notin closed
    /\ FitsQuota(w, s)
    /\ bytes' = [bytes EXCEPT ![f] = "present"]
    /\ age' = [age EXCEPT ![f] = 0]
    /\ op' = [NoOp EXCEPT !.at = "written", !.file = f,
                          !.new = NewRow(u, w, s, ts)]
    /\ UNCHANGED <<row, gone, closed, purge, torn>>

\* The notification and the activity entry of the second commit are not kept.
UploadCommit ==
    /\ op.at = "written"
    /\ row' = [row EXCEPT ![op.file] = op.new]
    /\ op' = NoOp
    /\ UNCHANGED <<bytes, age, gone, closed, purge, torn>>

\* PATCH /files/{id}: a new target replaces the one of the same kind.
Relink(f, t) ==
    /\ op.at = "idle"
    /\ f \in Committed
    /\ Linkable(row[f].workspace, {t})
    /\ row' = [row EXCEPT ![f].link = {x \in @ : KindOf[x] # KindOf[t]} \cup {t}]
    /\ UNCHANGED <<bytes, age, gone, closed, op, purge, torn>>

-----------------------------------------------------------------------------
(* Removal by the server.                                                  *)

\* DELETE /files/{id}: the row first, then the bytes.
DeleteRow(f) ==
    /\ op.at = "idle"
    /\ f \in Committed
    /\ DeleteRows({f})
    /\ op' = [NoOp EXCEPT !.at = "row_deleted", !.file = f]
    /\ UNCHANGED <<bytes, age, gone, closed, purge, torn>>

\* An OSError is swallowed: the bytes stay and the sweeper gets them.
DeleteBytes ==
    /\ op.at = "row_deleted"
    /\ Unlink(op.file) \/ UNCHANGED <<bytes, age>>
    /\ op' = NoOp
    /\ UNCHANGED <<row, gone, closed, purge, torn>>

\* A project, task, message or workspace goes and the rows go with it; nobody
\* touches the bytes.
DeleteHolder(h) ==
    /\ op.at = "idle"
    /\ h \notin gone
    /\ DeleteRows({f \in Committed : h \in row[f].link \cup {row[f].workspace}})
    /\ gone' = gone \cup {h} \cup (IF h \in Workspaces THEN TargetsOf[h] ELSE {})
    /\ UNCHANGED <<bytes, age, closed, op, purge, torn>>

\* DELETE /users/me, after the password check: unlink every blob of the
\* account, delete the rows in the session, commit once at the end.
CloseAccount(u) ==
    /\ op.at = "idle"
    /\ u \notin closed
    /\ LET own == {f \in Committed : row[f].uploader = u}
       IN  op' = [NoOp EXCEPT !.at = "closing", !.user = u, !.files = own, !.left = own]
    /\ UNCHANGED <<row, bytes, age, gone, closed, purge, torn>>

CloseUnlink(f) ==
    /\ op.at = "closing"
    /\ f \in op.left
    /\ \/ Unlink(f) /\ torn' = torn \cup {f}
       \/ UNCHANGED <<bytes, age, torn>>
    /\ op' = [op EXCEPT !.left = @ \ {f}]
    /\ UNCHANGED <<row, gone, closed, purge>>

CloseCommit ==
    /\ op.at = "closing"
    /\ op.left = {}
    /\ DeleteRows(op.files)
    /\ closed' = closed \cup {op.user}
    /\ op' = NoOp
    /\ UNCHANGED <<bytes, age, gone, purge, torn>>

\* The commit fails or the server dies: nothing uncommitted survives in the
\* database, what was done to the disk does.
ServerFails ==
    /\ op.at # "idle"
    /\ op' = NoOp
    /\ UNCHANGED <<row, bytes, age, gone, closed, purge, torn>>

-----------------------------------------------------------------------------
(* purge-orphans, a process of its own.                                    *)

\* now is read first: the files old enough are those old enough at that time.
\* --retention-days overrides the window of the settings.
PurgeStart(apply, override) ==
    /\ purge.at = "off"
    /\ purge' = [Off EXCEPT
         !.at = "started", !.apply = apply, !.override = override,
         !.old = {f \in Present : age[f] >= MinAge},
         !.expired = IF override \/ SettingRetains
                     THEN {f \in Committed : age[f] > RetainAge} ELSE {}]
    /\ UNCHANGED <<row, bytes, age, gone, closed, op, torn>>

PurgeRead ==
    /\ purge.at = "started"
    /\ purge' = [purge EXCEPT !.at = "read", !.rows = Committed]
    /\ UNCHANGED <<row, bytes, age, gone, closed, op, torn>>

\* Phase 1: rows whose bytes are missing.
PurgeCheck ==
    /\ purge.at = "read"
    /\ purge' = [purge EXCEPT !.at = "checked", !.missing = purge.rows \ Present]
    /\ UNCHANGED <<row, bytes, age, gone, closed, op, torn>>

\* Mutant: the age is taken when the directory is listed, not when the sweep
\* began, so a file uploaded since the rows were read can look like an orphan.
mut_PurgeListAgesNow ==
    /\ purge.at = "checked"
    /\ purge' = [purge EXCEPT !.at = "listed",
         !.left = {f \in Present : age[f] >= MinAge} \ purge.rows]
    /\ UNCHANGED <<row, bytes, age, gone, closed, op, torn>>

\* Phase 2: bytes on disk without a row and past the grace period.
PurgeList ==
    /\ purge.at = "checked"
    /\ purge' = [purge EXCEPT !.at = "listed",
         !.left = (Present \cap purge.old) \ purge.rows]
    /\ UNCHANGED <<row, bytes, age, gone, closed, op, torn>>

\* Mutant: the retention window is not applied to the rows.
mut_RetentionIgnoresWindow ==
    IF purge.apply /\ RetentionEnabled THEN purge.rows ELSE {}

\* Phase 3 adds the rows past the retention window, if retention is armed.
RetentionRows ==
    IF purge.apply /\ RetentionEnabled THEN purge.rows \cap purge.expired ELSE {}

\* Mutant: only the retention rows are dropped.
mut_PurgeDropForgetsBroken ==
    /\ purge.at = "listed"
    /\ purge.apply
    /\ DeleteRows(RetentionRows)
    /\ purge' = [Off EXCEPT !.at = "unlinking", !.left = purge.left \cup RetentionRows]
    /\ UNCHANGED <<bytes, age, gone, closed, op, torn>>

\* Mutant: the list of orphans is overwritten by that of the retention rows.
mut_PurgeDropForgetsOrphans ==
    /\ purge.at = "listed"
    /\ purge.apply
    /\ DeleteRows(purge.missing \cup RetentionRows)
    /\ purge' = [Off EXCEPT !.at = "unlinking", !.left = RetentionRows]
    /\ UNCHANGED <<bytes, age, gone, closed, op, torn>>

PurgeDrop ==
    /\ purge.at = "listed"
    /\ purge.apply
    /\ DeleteRows(purge.missing \cup RetentionRows)
    /\ purge' = [Off EXCEPT !.at = "unlinking", !.left = purge.left \cup RetentionRows]
    /\ UNCHANGED <<bytes, age, gone, closed, op, torn>>

PurgeUnlink(f) ==
    /\ purge.at = "unlinking"
    /\ f \in purge.left
    /\ Unlink(f)
    /\ purge' = [purge EXCEPT !.left = @ \ {f}]
    /\ UNCHANGED <<row, gone, closed, op, torn>>

\* An OSError is reported and the sweep goes on.
PurgeUnlinkFails(f) ==
    /\ purge.at = "unlinking"
    /\ f \in purge.left
    /\ purge' = [purge EXCEPT !.left = @ \ {f}]
    /\ UNCHANGED <<row, bytes, age, gone, closed, op, torn>>

PurgeDone ==
    /\ \/ purge.at = "unlinking" /\ purge.left = {}
       \/ purge.at = "listed" /\ ~purge.apply
    /\ purge' = Off
    /\ UNCHANGED <<row, bytes, age, gone, closed, op, torn>>

PurgeDies ==
    /\ purge.at # "off"
    /\ purge' = Off
    /\ UNCHANGED <<row, bytes, age, gone, closed, op, torn>>

\* A running upload does not outlive CommitWithin.
Tick ==
    /\ op.at = "written" => age[op.file] < CommitWithin
    /\ age' = [f \in Files |-> IF f \in Present /\ age[f] < MaxAge THEN age[f] + 1 ELSE age[f]]
    /\ UNCHANGED <<row, bytes, gone, closed, op, purge, torn>>

-----------------------------------------------------------------------------

Server ==
    \/ \E f \in Files, u \in Users, w \in Workspaces, s \in Sizes, ts \in SUBSET Targets :
         UploadWrite(f, u, w, s, ts)
    \/ UploadCommit
    \/ \E f \in Files, t \in Targets : Relink(f, t)
    \/ \E f \in Files : DeleteRow(f)
    \/ DeleteBytes
    \/ \E h \in Targets \cup Workspaces : DeleteHolder(h)
    \/ \E u \in Users : CloseAccount(u)
    \/ \E f \in Files : CloseUnlink(f)
    \/ CloseCommit
    \/ ServerFails

Sweeper ==
    \/ \E apply, override \in BOOLEAN : PurgeStart(apply, override)
    \/ PurgeRead
    \/ PurgeCheck
    \/ PurgeList
    \/ PurgeDrop
    \/ \E f \in Files : PurgeUnlink(f)
    \/ \E f \in Files : PurgeUnlinkFails(f)
    \/ PurgeDone
    \/ PurgeDies

Next == Server \/ Sweeper \/ Tick

Spec == Init /\ [][Next]_vars

\* A handler in progress ends.  Operators keep running applied sweeps; a sweep
\* may die or be a dry run any number of times, an unlink may fail any number
\* of times, but not for ever.
Fairness ==
    /\ WF_vars(Tick)
    /\ WF_vars(op.at # "idle" /\ Server)
    /\ SF_vars(\E override \in BOOLEAN : PurgeStart(TRUE, override))
    /\ SF_vars(purge.apply /\ PurgeRead)
    /\ SF_vars(purge.apply /\ PurgeCheck)
    /\ SF_vars(purge.apply /\ PurgeList)
    /\ SF_vars(PurgeDrop)
    /\ \A f \in Files : SF_vars(PurgeUnlink(f))
    /\ WF_vars(Sweeper /\ purge.at # "off")

FairSpec == Spec /\ Fairness

-----------------------------------------------------------------------------
(* Properties.                                                             *)

\* Whatever the sweeper, crashes and handlers do to each other, a committed row
\* has its bytes; the only way to lose them is an account deletion that
\* unlinked its blobs and then failed to commit.
OnlyClosingTearsRows ==
    \A f \in Committed : bytes[f] = "present" \/ f \in torn

\* The rows of a workspace never add up to more than its quota.
QuotaHolds == Quota # 0 => \A w \in Workspaces : Used(w) <= Quota

\* The sweeper drops a row whose bytes are there only if retention is armed and
\* the row is past its window.
SweeperKeepsGoodRows ==
    [][\A f \in Files :
        (purge.at = "listed" /\ purge'.at = "unlinking" /\ f \in Committed /\ row'[f] = NoRow)
            => (bytes[f] # "present" \/ (RetentionEnabled /\ age[f] > RetainAge))]_vars

\* Every way of orphaning bytes is healed: upload cut short, unlink refused,
\* cascade, failed sweep.
OrphansReclaimed ==
    \A f \in Files :
        (f \in Present \ Committed /\ op.file # f) ~> bytes[f] = "unlinked"

\* A row whose bytes are gone is dropped in the end.
BrokenRowsDropped ==
    \A f \in Files : f \in Committed \ Present ~> f \notin Committed

=============================================================================
