--------------------------- MODULE FileStoreProofs ---------------------------
(***************************************************************************)
(* A committed row keeps its bytes, the sweeper drops no good row, and the *)
(* rows of a workspace stay within its quota, for any number of files,     *)
(* users and workspaces, any grace period, retention window and quota.     *)
(*                                                                         *)
(* What the sweeper has read is old when it acts on it.  The argument is   *)
(* that it cannot have become wrong: a file whose bytes were written and   *)
(* whose upload is over is settled for good, and once a settled file has   *)
(* no row it never has one again.  The quota is an argument about sums:    *)
(* what is added at the commit is what was measured at the check.          *)
(***************************************************************************)
EXTENDS FileStore, FiniteSetTheorems, WellFoundedInduction, TLAPS

Settled(f) == bytes[f] # "none" /\ ~(op.at = "written" /\ op.file = f)
Doomed(f) == Settled(f) /\ row[f] = NoRow

RowsWereWritten == \A f \in Files : row[f] # NoRow => Settled(f)

\* A running upload has its bytes, no row yet, and is inside the grace period.
UploadIsYoung ==
    op.at = "written" =>
        /\ op.file \in Files /\ op.new \in Row
        /\ bytes[op.file] = "present" /\ row[op.file] = NoRow
        /\ age[op.file] <= CommitWithin

DeletionHasNoRow == op.at = "row_deleted" => op.file \in Files /\ Doomed(op.file)
ClosingHasUser == op.at = "closing" => op.user \in Users

\* The files the sweeper looked at are settled; those it is to unlink have
\* lost their rows.
SweepIsSettled ==
    /\ \A f \in purge.old \cup purge.rows : Settled(f)
    /\ purge.at \in {"read", "checked", "listed"} =>
          \A f \in purge.old \ purge.rows : Doomed(f)
    /\ \A f \in purge.left : Doomed(f)

\* What it holds against a row stays true until it drops the row.
SweepIsRight ==
    /\ \A f \in purge.missing : bytes[f] = "unlinked"
    /\ \A f \in purge.expired :
          Settled(f) /\ (bytes[f] = "present" => age[f] > RetainAge)

FileInv ==
    /\ TypeOK
    /\ OnlyClosingTearsRows
    /\ RowsWereWritten
    /\ UploadIsYoung
    /\ DeletionHasNoRow
    /\ ClosingHasUser
    /\ SweepIsSettled
    /\ SweepIsRight

-----------------------------------------------------------------------------
(* Types.                                                                  *)

LEMMA OpTyped ==
    /\ NoOp.at = "idle" /\ NoOp.file = NoFile /\ NoOp.new = NoRow /\ NoOp.user = NoUser
    /\ NoOp \in [at : {"idle", "written", "row_deleted", "closing"},
                 file : Files \cup {NoFile}, new : Row \cup {NoRow}, user : Users \cup {NoUser},
                 files : SUBSET Files, left : SUBSET Files]
  BY DEF NoOp

LEMMA OffTyped ==
    /\ Off.at = "off" /\ Off.old = {} /\ Off.expired = {} /\ Off.rows = {}
    /\ Off.missing = {} /\ Off.left = {}
    /\ Off \in [at : {"off", "started", "read", "checked", "listed", "unlinking"},
                apply : BOOLEAN, override : BOOLEAN,
                old : SUBSET Files, expired : SUBSET Files, rows : SUBSET Files,
                missing : SUBSET Files, left : SUBSET Files]
  BY DEF Off

LEMMA InitEstablishes == Init => FileInv
<1> SUFFICES ASSUME Init PROVE FileInv
  OBVIOUS
<1>1. TypeOK
  BY OpTyped, OffTyped, FileStoreAssumption DEF Init, TypeOK
<1>2. OnlyClosingTearsRows /\ RowsWereWritten
  BY DEF Init, OnlyClosingTearsRows, RowsWereWritten, Committed
<1>3. UploadIsYoung /\ DeletionHasNoRow /\ ClosingHasUser
  BY OpTyped DEF Init, UploadIsYoung, DeletionHasNoRow, ClosingHasUser
<1>4. SweepIsSettled /\ SweepIsRight
  BY OffTyped DEF Init, SweepIsSettled, SweepIsRight
<1> QED
  BY <1>1, <1>2, <1>3, <1>4 DEF FileInv

-----------------------------------------------------------------------------
(* What a step never undoes.                                               *)

Lasting ==
    \A f \in Files :
        /\ Settled(f) => Settled(f)'
        /\ Doomed(f) => Doomed(f)'
        /\ bytes[f] = "unlinked" => bytes'[f] = "unlinked"
        /\ Settled(f) /\ bytes'[f] = "present" =>
              bytes[f] = "present" /\ (age[f] > RetainAge => age'[f] > RetainAge)

\* So a step that leaves the sweeper alone leaves what it knows true.
LEMMA SweepKeeps ==
    ASSUME FileInv, Lasting, UNCHANGED purge
    PROVE  SweepIsSettled' /\ SweepIsRight'
<1> USE DEF FileInv
<1>1. \A f \in purge.old \cup purge.rows \cup purge.left \cup purge.missing \cup purge.expired :
        f \in Files
  BY DEF TypeOK
<1>2. SweepIsSettled'
  <2>1. \A f \in purge'.old \cup purge'.rows : Settled(f)'
    BY <1>1 DEF SweepIsSettled, Lasting
  <2>2. purge'.at \in {"read", "checked", "listed"} =>
          \A f \in purge'.old \ purge'.rows : Doomed(f)'
    BY <1>1 DEF SweepIsSettled, Lasting
  <2>3. \A f \in purge'.left : Doomed(f)'
    BY <1>1 DEF SweepIsSettled, Lasting
  <2> QED
    BY <2>1, <2>2, <2>3 DEF SweepIsSettled
<1>3. SweepIsRight'
  <2>1. \A f \in purge'.missing : bytes'[f] = "unlinked"
    BY <1>1 DEF SweepIsRight, Lasting
  <2>2. \A f \in purge'.expired :
          Settled(f)' /\ (bytes'[f] = "present" => age'[f] > RetainAge)
    BY <1>1 DEF SweepIsRight, Lasting
  <2> QED
    BY <2>1, <2>2 DEF SweepIsRight
<1> QED
  BY <1>2, <1>3

\* What an action of the server or a tick has to show of itself.
StoreInv ==
    /\ TypeOK
    /\ OnlyClosingTearsRows
    /\ RowsWereWritten
    /\ UploadIsYoung
    /\ DeletionHasNoRow
    /\ ClosingHasUser

LEMMA StoreStep ==
    ASSUME FileInv, Lasting, StoreInv', UNCHANGED purge
    PROVE  FileInv'
  BY SweepKeeps DEF FileInv, StoreInv

-----------------------------------------------------------------------------
(* The server.                                                             *)

LEMMA UploadWriteKeeps ==
    ASSUME FileInv,
           NEW f \in Files, NEW u \in Users, NEW w \in Workspaces, NEW s \in Sizes,
           NEW ts \in SUBSET Targets, UploadWrite(f, u, w, s, ts)
    PROVE  FileInv'
<1> USE DEF FileInv
<1>1. NewRow(u, w, s, ts) \in Row
  BY DEF NewRow, Row
<1>2. /\ op'.at = "written" /\ op'.file = f /\ op'.new = NewRow(u, w, s, ts)
      /\ op' \in [at : {"idle", "written", "row_deleted", "closing"},
                  file : Files \cup {NoFile}, new : Row \cup {NoRow}, user : Users \cup {NoUser},
                  files : SUBSET Files, left : SUBSET Files]
  BY <1>1, OpTyped DEF UploadWrite, NoOp
<1>3. /\ bytes[f] = "none" /\ bytes'[f] = "present" /\ row[f] = NoRow /\ op.at = "idle"
      /\ \A g \in Files \ {f} : bytes'[g] = bytes[g] /\ age'[g] = age[g]
      /\ age'[f] = 0 /\ row' = row /\ torn' = torn
  BY DEF UploadWrite, TypeOK, RowsWereWritten, Settled
<1>4. TypeOK'
  <2>1. bytes' \in [Files -> {"none", "present", "unlinked"}] /\ age' \in [Files -> 0..MaxAge]
    BY FileStoreAssumption DEF UploadWrite, TypeOK
  <2> QED
    BY <1>2, <2>1 DEF UploadWrite, TypeOK
<1>5. OnlyClosingTearsRows' /\ RowsWereWritten'
  BY <1>2, <1>3 DEF OnlyClosingTearsRows, RowsWereWritten, Committed, Settled
<1>6. UploadIsYoung' /\ DeletionHasNoRow' /\ ClosingHasUser'
  BY <1>1, <1>2, <1>3, FileStoreAssumption DEF UploadIsYoung, DeletionHasNoRow, ClosingHasUser
<1>7. Lasting
  BY <1>2, <1>3 DEF Lasting, Settled, Doomed
<1>8. UNCHANGED purge
  BY DEF UploadWrite
<1> QED
  BY <1>4, <1>5, <1>6, <1>7, <1>8, StoreStep DEF StoreInv

LEMMA UploadCommitKeeps == FileInv /\ UploadCommit => FileInv'
<1> SUFFICES ASSUME FileInv, UploadCommit PROVE FileInv'
  OBVIOUS
<1> USE DEF FileInv
<1>1. /\ op.file \in Files /\ op.new \in Row /\ op.new # NoRow
      /\ bytes[op.file] = "present" /\ op.at = "written"
      /\ row'[op.file] = op.new
      /\ \A g \in Files \ {op.file} : row'[g] = row[g]
      /\ op'.at = "idle" /\ UNCHANGED <<bytes, age, torn, purge>>
  BY OpTyped, FileStoreAssumption DEF UploadCommit, UploadIsYoung, TypeOK
<1>2. TypeOK'
  <2>1. row' \in [Files -> Row \cup {NoRow}]
    BY <1>1 DEF UploadCommit, TypeOK
  <2> QED
    BY <2>1, OpTyped DEF UploadCommit, TypeOK
<1>3. OnlyClosingTearsRows' /\ RowsWereWritten'
  BY <1>1 DEF OnlyClosingTearsRows, RowsWereWritten, Committed, Settled
<1>4. UploadIsYoung' /\ DeletionHasNoRow' /\ ClosingHasUser'
  BY <1>1 DEF UploadIsYoung, DeletionHasNoRow, ClosingHasUser
<1>5. Lasting
  BY <1>1 DEF Lasting, Settled, Doomed
<1> QED
  BY <1>1, <1>2, <1>3, <1>4, <1>5, StoreStep DEF StoreInv

LEMMA RelinkKeeps ==
    ASSUME FileInv, NEW f \in Files, NEW t \in Targets, Relink(f, t)
    PROVE  FileInv'
<1> USE DEF FileInv
<1> DEFINE new == [row[f] EXCEPT !.link = {x \in @ : KindOf[x] # KindOf[t]} \cup {t}]
<1>1. /\ row[f] # NoRow /\ row[f] \in Row /\ op.at = "idle"
      /\ row' = [row EXCEPT ![f] = new] /\ UNCHANGED <<bytes, age, gone, closed, op, purge, torn>>
  BY DEF Relink, Committed, TypeOK
<1>2. new \in Row
  BY <1>1 DEF Row
<1> HIDE DEF new
<1>3. /\ row'[f] = new /\ \A g \in Files \ {f} : row'[g] = row[g]
      /\ row' \in [Files -> Row \cup {NoRow}]
  BY <1>1, <1>2 DEF TypeOK
<1>4. TypeOK'
  BY <1>1, <1>3 DEF TypeOK
<1>5. OnlyClosingTearsRows' /\ RowsWereWritten'
  BY <1>1, <1>3 DEF OnlyClosingTearsRows, RowsWereWritten, Committed, Settled
<1>6. UploadIsYoung' /\ DeletionHasNoRow' /\ ClosingHasUser'
  BY <1>1 DEF UploadIsYoung, DeletionHasNoRow, ClosingHasUser
<1>7. Lasting
  BY <1>1, <1>3 DEF Lasting, Settled, Doomed
<1> QED
  BY <1>1, <1>4, <1>5, <1>6, <1>7, StoreStep DEF StoreInv

\* Rows that go leave the other rows and the disk as they are.
LEMMA DeletingRows ==
    ASSUME FileInv, NEW fs, DeleteRows(fs), UNCHANGED <<bytes, age, torn>>,
           op'.at # "written"
    PROVE  /\ row' \in [Files -> Row \cup {NoRow}]
           /\ \A f \in Files : row'[f] \in {row[f], NoRow} /\ (f \in fs => row'[f] = NoRow)
           /\ OnlyClosingTearsRows' /\ RowsWereWritten' /\ Lasting /\ UploadIsYoung'
<1> USE DEF FileInv
<1>1. /\ row' \in [Files -> Row \cup {NoRow}]
      /\ \A f \in Files : row'[f] \in {row[f], NoRow} /\ (f \in fs => row'[f] = NoRow)
  BY DEF DeleteRows, TypeOK
<1>2. OnlyClosingTearsRows' /\ RowsWereWritten'
  BY <1>1 DEF OnlyClosingTearsRows, RowsWereWritten, Committed, Settled
<1>3. Lasting
  BY <1>1 DEF Lasting, Settled, Doomed
<1> QED
  BY <1>1, <1>2, <1>3 DEF UploadIsYoung

LEMMA DeleteRowKeeps == ASSUME FileInv, NEW f \in Files, DeleteRow(f) PROVE FileInv'
<1> USE DEF FileInv
<1>1. /\ op'.at = "row_deleted" /\ op'.file = f
      /\ op' \in [at : {"idle", "written", "row_deleted", "closing"},
                  file : Files \cup {NoFile}, new : Row \cup {NoRow}, user : Users \cup {NoUser},
                  files : SUBSET Files, left : SUBSET Files]
      /\ row[f] # NoRow /\ DeleteRows({f}) /\ UNCHANGED <<bytes, age, gone, closed, purge, torn>>
  BY OpTyped DEF DeleteRow, NoOp, Committed
<1>2. /\ row' \in [Files -> Row \cup {NoRow}] /\ row'[f] = NoRow
      /\ OnlyClosingTearsRows' /\ RowsWereWritten' /\ Lasting /\ UploadIsYoung'
  BY <1>1, DeletingRows
<1>3. TypeOK'
  BY <1>1, <1>2 DEF TypeOK
<1>4. DeletionHasNoRow' /\ ClosingHasUser'
  BY <1>1, <1>2 DEF DeletionHasNoRow, ClosingHasUser, RowsWereWritten, Lasting, Doomed
<1> QED
  BY <1>1, <1>2, <1>3, <1>4, StoreStep DEF StoreInv

LEMMA DeleteHolderKeeps ==
    ASSUME FileInv, NEW h \in Targets \cup Workspaces, DeleteHolder(h)
    PROVE  FileInv'
<1> USE DEF FileInv
<1> DEFINE fs == {f \in Committed : h \in row[f].link \cup {row[f].workspace}}
<1>1. op.at = "idle" /\ DeleteRows(fs) /\ UNCHANGED <<bytes, age, closed, op, purge, torn>>
  BY DEF DeleteHolder
<1>2. /\ row' \in [Files -> Row \cup {NoRow}]
      /\ OnlyClosingTearsRows' /\ RowsWereWritten' /\ Lasting /\ UploadIsYoung'
  <2> HIDE DEF fs
  <2> QED
    BY <1>1, DeletingRows
<1>3. gone' \in SUBSET (Targets \cup Workspaces)
  BY FileStoreAssumption DEF DeleteHolder, TypeOK
<1>4. TypeOK'
  BY <1>1, <1>2, <1>3 DEF TypeOK
<1>5. DeletionHasNoRow' /\ ClosingHasUser'
  BY <1>1 DEF DeletionHasNoRow, ClosingHasUser
<1> QED
  BY <1>1, <1>2, <1>4, <1>5, StoreStep DEF StoreInv

LEMMA CloseCommitKeeps == FileInv /\ CloseCommit => FileInv'
<1> SUFFICES ASSUME FileInv, CloseCommit PROVE FileInv'
  OBVIOUS
<1> USE DEF FileInv
<1>1. /\ op' = NoOp /\ op'.at = "idle" /\ op.user \in Users /\ DeleteRows(op.files)
      /\ closed' = closed \cup {op.user} /\ UNCHANGED <<bytes, age, gone, purge, torn>>
  BY OpTyped DEF CloseCommit, ClosingHasUser
<1>2. /\ row' \in [Files -> Row \cup {NoRow}]
      /\ OnlyClosingTearsRows' /\ RowsWereWritten' /\ Lasting /\ UploadIsYoung'
  BY <1>1, DeletingRows
<1>3. TypeOK'
  BY <1>1, <1>2, OpTyped DEF TypeOK
<1>4. DeletionHasNoRow' /\ ClosingHasUser'
  BY <1>1 DEF DeletionHasNoRow, ClosingHasUser
<1> QED
  BY <1>1, <1>2, <1>3, <1>4, StoreStep DEF StoreInv

\* The bytes of one settled file go; its row, if any, is torn off by the caller.
LEMMA Unlinking ==
    ASSUME FileInv, NEW f \in Files, Unlink(f)
    PROVE  /\ bytes' \in [Files -> {"none", "present", "unlinked"}]
           /\ age' \in [Files -> 0..MaxAge]
           /\ bytes'[f] \in {"none", "unlinked"} /\ (bytes[f] # "none" => bytes'[f] = "unlinked")
           /\ \A g \in Files \ {f} : bytes'[g] = bytes[g] /\ age'[g] = age[g]
  BY FileStoreAssumption DEF Unlink, FileInv, TypeOK

LEMMA DeleteBytesKeeps == FileInv /\ DeleteBytes => FileInv'
<1> SUFFICES ASSUME FileInv, DeleteBytes PROVE FileInv'
  OBVIOUS
<1> USE DEF FileInv
<1>1. /\ op.at = "row_deleted" /\ op' = NoOp /\ op'.at = "idle"
      /\ op.file \in Files /\ Doomed(op.file) /\ UNCHANGED <<row, gone, closed, purge, torn>>
  BY OpTyped DEF DeleteBytes, DeletionHasNoRow
<1>2. /\ bytes' \in [Files -> {"none", "present", "unlinked"}] /\ age' \in [Files -> 0..MaxAge]
      /\ bytes'[op.file] \in {bytes[op.file], "unlinked"}
      /\ bytes'[op.file] = "present" => age'[op.file] = age[op.file]
      /\ \A g \in Files \ {op.file} : bytes'[g] = bytes[g] /\ age'[g] = age[g]
  <2>1. CASE Unlink(op.file)
    BY <1>1, <2>1, Unlinking DEF Doomed, Settled
  <2>2. CASE UNCHANGED <<bytes, age>>
    BY <1>1, <2>2 DEF TypeOK
  <2> QED
    BY <2>1, <2>2 DEF DeleteBytes
<1>3. TypeOK'
  BY <1>1, <1>2, OpTyped DEF TypeOK
<1>4. OnlyClosingTearsRows' /\ RowsWereWritten'
  BY <1>1, <1>2 DEF OnlyClosingTearsRows, RowsWereWritten, Committed, Settled, Doomed
<1>5. UploadIsYoung' /\ DeletionHasNoRow' /\ ClosingHasUser'
  BY <1>1 DEF UploadIsYoung, DeletionHasNoRow, ClosingHasUser
<1>6. Lasting
  BY <1>1, <1>2 DEF Lasting, Settled, Doomed
<1> QED
  BY <1>1, <1>3, <1>4, <1>5, <1>6, StoreStep DEF StoreInv

LEMMA CloseAccountKeeps == ASSUME FileInv, NEW u \in Users, CloseAccount(u) PROVE FileInv'
<1> USE DEF FileInv
<1>1. /\ op.at = "idle" /\ op'.at = "closing" /\ op'.user = u
      /\ op' \in [at : {"idle", "written", "row_deleted", "closing"},
                  file : Files \cup {NoFile}, new : Row \cup {NoRow}, user : Users \cup {NoUser},
                  files : SUBSET Files, left : SUBSET Files]
      /\ UNCHANGED <<row, bytes, age, gone, closed, purge, torn>>
  BY OpTyped DEF CloseAccount, NoOp, Committed
<1>2. TypeOK'
  BY <1>1 DEF TypeOK
<1>3. OnlyClosingTearsRows' /\ RowsWereWritten' /\ Lasting
  BY <1>1 DEF OnlyClosingTearsRows, RowsWereWritten, Committed, Settled, Doomed, Lasting
<1>4. UploadIsYoung' /\ DeletionHasNoRow' /\ ClosingHasUser'
  BY <1>1 DEF UploadIsYoung, DeletionHasNoRow, ClosingHasUser
<1> QED
  BY <1>1, <1>2, <1>3, <1>4, StoreStep DEF StoreInv

LEMMA CloseUnlinkKeeps == ASSUME FileInv, NEW f \in Files, CloseUnlink(f) PROVE FileInv'
<1> USE DEF FileInv
<1>1. /\ op.at = "closing" /\ op'.at = "closing" /\ op'.user = op.user
      /\ op' \in [at : {"idle", "written", "row_deleted", "closing"},
                  file : Files \cup {NoFile}, new : Row \cup {NoRow}, user : Users \cup {NoUser},
                  files : SUBSET Files, left : SUBSET Files]
      /\ UNCHANGED <<row, gone, closed, purge>>
  BY DEF CloseUnlink, TypeOK
<1>2. /\ bytes' \in [Files -> {"none", "present", "unlinked"}] /\ age' \in [Files -> 0..MaxAge]
      /\ torn' \in SUBSET Files /\ torn \subseteq torn'
      /\ \A g \in Files \ {f} : bytes'[g] = bytes[g] /\ age'[g] = age[g]
      /\ \/ bytes'[f] = bytes[f] /\ age'[f] = age[f]
         \/ f \in torn' /\ bytes'[f] # "present" /\ (bytes[f] # "none" => bytes'[f] = "unlinked")
  <2>1. CASE Unlink(f) /\ torn' = torn \cup {f}
    BY <2>1, Unlinking DEF TypeOK
  <2>2. CASE UNCHANGED <<bytes, age, torn>>
    BY <2>2 DEF TypeOK
  <2> QED
    BY <2>1, <2>2 DEF CloseUnlink
<1>3. TypeOK'
  BY <1>1, <1>2 DEF TypeOK
<1>4. OnlyClosingTearsRows' /\ RowsWereWritten'
  BY <1>1, <1>2 DEF OnlyClosingTearsRows, RowsWereWritten, Committed, Settled
<1>5. UploadIsYoung' /\ DeletionHasNoRow' /\ ClosingHasUser'
  BY <1>1 DEF UploadIsYoung, DeletionHasNoRow, ClosingHasUser
<1>6. Lasting
  BY <1>1, <1>2 DEF Lasting, Settled, Doomed
<1> QED
  BY <1>1, <1>3, <1>4, <1>5, <1>6, StoreStep DEF StoreInv

LEMMA ServerFailsKeeps == FileInv /\ ServerFails => FileInv'
<1> SUFFICES ASSUME FileInv, ServerFails PROVE FileInv'
  OBVIOUS
<1> USE DEF FileInv
<1>1. op' = NoOp /\ op'.at = "idle" /\ UNCHANGED <<row, bytes, age, gone, closed, purge, torn>>
  BY OpTyped DEF ServerFails
<1>2. TypeOK'
  BY <1>1, OpTyped DEF TypeOK
<1>3. OnlyClosingTearsRows' /\ RowsWereWritten' /\ Lasting
  BY <1>1 DEF OnlyClosingTearsRows, RowsWereWritten, Committed, Settled, Doomed, Lasting
<1>4. UploadIsYoung' /\ DeletionHasNoRow' /\ ClosingHasUser'
  BY <1>1 DEF UploadIsYoung, DeletionHasNoRow, ClosingHasUser
<1> QED
  BY <1>1, <1>2, <1>3, <1>4, StoreStep DEF StoreInv

LEMMA TickKeeps == FileInv /\ Tick => FileInv'
<1> SUFFICES ASSUME FileInv, Tick PROVE FileInv'
  OBVIOUS
<1> USE DEF FileInv
<1>1. /\ UNCHANGED <<row, bytes, gone, closed, op, purge, torn>>
      /\ age' \in [Files -> 0..MaxAge]
      /\ \A f \in Files : age'[f] \in {age[f], age[f] + 1} /\ age[f] \in 0..MaxAge
  BY FileStoreAssumption DEF Tick, TypeOK
<1>2. TypeOK'
  BY <1>1 DEF TypeOK
<1>3. OnlyClosingTearsRows' /\ RowsWereWritten'
  BY <1>1 DEF OnlyClosingTearsRows, RowsWereWritten, Committed, Settled
<1>4. UploadIsYoung'
  BY <1>1, FileStoreAssumption DEF UploadIsYoung, Tick
<1>5. DeletionHasNoRow' /\ ClosingHasUser'
  BY <1>1 DEF DeletionHasNoRow, ClosingHasUser, Doomed, Settled
<1>6. Lasting
  BY <1>1, FileStoreAssumption DEF Lasting, Settled, Doomed
<1> QED
  BY <1>1, <1>2, <1>3, <1>4, <1>5, <1>6, StoreStep DEF StoreInv

-----------------------------------------------------------------------------
(* The sweeper.                                                            *)

PurgeTyped(p) ==
    p \in [at : {"off", "started", "read", "checked", "listed", "unlinking"},
          apply : BOOLEAN, override : BOOLEAN,
          old : SUBSET Files, expired : SUBSET Files, rows : SUBSET Files,
          missing : SUBSET Files, left : SUBSET Files]

\* A step of the sweeper that only reads, or only remembers.
LEMMA Reading ==
    ASSUME FileInv, UNCHANGED <<row, bytes, age, gone, closed, op, torn>>,
           PurgeTyped(purge'), SweepIsSettled', SweepIsRight'
    PROVE  FileInv'
<1> USE DEF FileInv
<1>1. TypeOK'
  BY DEF TypeOK, PurgeTyped
<1>2. OnlyClosingTearsRows' /\ RowsWereWritten'
  BY DEF OnlyClosingTearsRows, RowsWereWritten, Committed, Settled
<1>3. UploadIsYoung' /\ DeletionHasNoRow' /\ ClosingHasUser'
  BY DEF UploadIsYoung, DeletionHasNoRow, ClosingHasUser, Doomed, Settled
<1> QED
  BY <1>1, <1>2, <1>3

LEMMA PurgeStartKeeps ==
    ASSUME FileInv, NEW apply \in BOOLEAN, NEW override \in BOOLEAN, PurgeStart(apply, override)
    PROVE  FileInv'
<1> USE DEF FileInv
<1>1. /\ UNCHANGED <<row, bytes, age, gone, closed, op, torn>>
      /\ purge'.at = "started" /\ purge'.rows = {} /\ purge'.missing = {} /\ purge'.left = {}
      /\ purge'.old = {f \in Present : age[f] >= MinAge}
      /\ purge'.expired \subseteq {f \in Committed : age[f] > RetainAge}
      /\ PurgeTyped(purge')
  BY DEF PurgeStart, Off, Present, Committed, PurgeTyped
\* A file under upload is too young to be old.
<1>2. \A f \in purge'.old : Settled(f)
  BY <1>1, FileStoreAssumption DEF Present, Settled, UploadIsYoung, TypeOK
<1>3. \A f \in purge'.expired : Settled(f) /\ age[f] > RetainAge
  BY <1>1 DEF Committed, RowsWereWritten
<1>4. SweepIsSettled'
  BY <1>1, <1>2 DEF SweepIsSettled, Settled
<1>5. SweepIsRight'
  BY <1>1, <1>3 DEF SweepIsRight, Settled
<1> QED
  BY <1>1, <1>4, <1>5, Reading

LEMMA PurgeReadKeeps == FileInv /\ PurgeRead => FileInv'
<1> SUFFICES ASSUME FileInv, PurgeRead PROVE FileInv'
  OBVIOUS
<1> USE DEF FileInv
<1>1. /\ UNCHANGED <<row, bytes, age, gone, closed, op, torn>>
      /\ purge'.at = "read" /\ purge'.rows = Committed
      /\ purge'.old = purge.old /\ purge'.expired = purge.expired
      /\ purge'.missing = purge.missing /\ purge'.left = purge.left
      /\ PurgeTyped(purge')
  BY DEF PurgeRead, Committed, PurgeTyped, TypeOK
<1>2. purge.old \subseteq Files
  BY DEF TypeOK
<1>3. SweepIsSettled'
  BY <1>1, <1>2 DEF SweepIsSettled, Settled, Doomed, Committed, RowsWereWritten
<1>4. SweepIsRight'
  BY <1>1 DEF SweepIsRight, Settled
<1> QED
  BY <1>1, <1>3, <1>4, Reading

LEMMA PurgeCheckKeeps == FileInv /\ PurgeCheck => FileInv'
<1> SUFFICES ASSUME FileInv, PurgeCheck PROVE FileInv'
  OBVIOUS
<1> USE DEF FileInv
<1>1. /\ UNCHANGED <<row, bytes, age, gone, closed, op, torn>> /\ purge.at = "read"
      /\ purge'.at = "checked" /\ purge'.rows = purge.rows
      /\ purge'.old = purge.old /\ purge'.expired = purge.expired
      /\ purge'.missing = purge.rows \ Present /\ purge'.left = purge.left
      /\ PurgeTyped(purge')
  BY DEF PurgeCheck, PurgeTyped, TypeOK
<1>2. \A f \in purge.rows \ Present : bytes[f] = "unlinked"
  BY DEF SweepIsSettled, Settled, Present, TypeOK
<1>3. SweepIsSettled'
  BY <1>1 DEF SweepIsSettled, Settled, Doomed
<1>4. SweepIsRight'
  BY <1>1, <1>2 DEF SweepIsRight, Settled
<1> QED
  BY <1>1, <1>3, <1>4, Reading

LEMMA PurgeListKeeps == FileInv /\ PurgeList => FileInv'
<1> SUFFICES ASSUME FileInv, PurgeList PROVE FileInv'
  OBVIOUS
<1> USE DEF FileInv
<1>1. /\ UNCHANGED <<row, bytes, age, gone, closed, op, torn>> /\ purge.at = "checked"
      /\ purge'.at = "listed" /\ purge'.rows = purge.rows
      /\ purge'.old = purge.old /\ purge'.expired = purge.expired
      /\ purge'.missing = purge.missing /\ purge'.left = (Present \cap purge.old) \ purge.rows
      /\ PurgeTyped(purge')
  BY DEF PurgeList, PurgeTyped, TypeOK
<1>2. SweepIsSettled'
  BY <1>1 DEF SweepIsSettled, Settled, Doomed
<1>3. SweepIsRight'
  BY <1>1 DEF SweepIsRight, Settled
<1> QED
  BY <1>1, <1>2, <1>3, Reading

\* The rows it drops and the orphans it found are all without a row now, and
\* stay so.
LEMMA PurgeDropKeeps == FileInv /\ PurgeDrop => FileInv'
<1> SUFFICES ASSUME FileInv, PurgeDrop PROVE FileInv'
  OBVIOUS
<1> USE DEF FileInv
<1>1. /\ UNCHANGED <<bytes, age, gone, closed, op, torn>> /\ purge.at = "listed"
      /\ DeleteRows(purge.missing \cup RetentionRows)
      /\ purge'.at = "unlinking" /\ purge'.rows = {} /\ purge'.old = {}
      /\ purge'.expired = {} /\ purge'.missing = {}
      /\ purge'.left = purge.left \cup RetentionRows
  BY DEF PurgeDrop, Off
<1>2. RetentionRows \subseteq purge.rows /\ purge.rows \subseteq Files /\ purge.left \subseteq Files
  BY DEF RetentionRows, TypeOK
<1>3. /\ row' \in [Files -> Row \cup {NoRow}]
      /\ \A f \in Files : row'[f] \in {row[f], NoRow}
      /\ \A f \in RetentionRows : row'[f] = NoRow
  BY <1>1, <1>2 DEF DeleteRows, TypeOK
<1>4. TypeOK'
  <2>1. PurgeTyped(purge')
    BY <1>2 DEF PurgeDrop, PurgeTyped, Off, TypeOK
  <2> QED
    BY <1>1, <1>3, <2>1 DEF TypeOK, PurgeTyped
<1>5. OnlyClosingTearsRows' /\ RowsWereWritten'
  BY <1>1, <1>3 DEF OnlyClosingTearsRows, RowsWereWritten, Committed, Settled
<1>6. UploadIsYoung' /\ DeletionHasNoRow' /\ ClosingHasUser'
  BY <1>1, <1>3 DEF UploadIsYoung, DeletionHasNoRow, ClosingHasUser, Doomed, Settled
<1>7. SweepIsSettled'
  <2>1. \A f \in purge'.left : Doomed(f)'
    BY <1>1, <1>2, <1>3 DEF SweepIsSettled, Settled, Doomed
  <2> QED
    BY <1>1, <2>1 DEF SweepIsSettled
<1>8. SweepIsRight'
  BY <1>1 DEF SweepIsRight
<1> QED
  BY <1>4, <1>5, <1>6, <1>7, <1>8

LEMMA PurgeUnlinkKeeps == ASSUME FileInv, NEW f \in Files, PurgeUnlink(f) PROVE FileInv'
<1> USE DEF FileInv
<1>1. /\ UNCHANGED <<row, gone, closed, op, torn>> /\ f \in purge.left
      /\ purge'.at = "unlinking" /\ purge.at = "unlinking" /\ purge'.rows = purge.rows
      /\ purge'.old = purge.old /\ purge'.expired = purge.expired
      /\ purge'.missing = purge.missing /\ purge'.left = purge.left \ {f}
      /\ PurgeTyped(purge')
  BY DEF PurgeUnlink, PurgeTyped, TypeOK
<1>2. /\ bytes' \in [Files -> {"none", "present", "unlinked"}] /\ age' \in [Files -> 0..MaxAge]
      /\ bytes'[f] = "unlinked"
      /\ \A g \in Files \ {f} : bytes'[g] = bytes[g] /\ age'[g] = age[g]
      /\ Doomed(f)
  BY <1>1, Unlinking DEF PurgeUnlink, SweepIsSettled, Doomed, Settled
<1>3. TypeOK'
  BY <1>1, <1>2 DEF TypeOK, PurgeTyped
<1>4. OnlyClosingTearsRows' /\ RowsWereWritten'
  BY <1>1, <1>2 DEF OnlyClosingTearsRows, RowsWereWritten, Committed, Settled, Doomed
<1>5. UploadIsYoung' /\ DeletionHasNoRow' /\ ClosingHasUser'
  BY <1>1, <1>2 DEF UploadIsYoung, DeletionHasNoRow, ClosingHasUser, Doomed, Settled
<1>6. Lasting
  BY <1>1, <1>2 DEF Lasting, Settled, Doomed
<1>7. \A g \in purge.old \cup purge.rows \cup purge.left \cup purge.missing \cup purge.expired :
        g \in Files
  BY DEF TypeOK
<1>8. SweepIsSettled'
  BY <1>1, <1>6, <1>7 DEF SweepIsSettled, Lasting
<1>9. SweepIsRight'
  BY <1>1, <1>6, <1>7 DEF SweepIsRight, Lasting
<1> QED
  BY <1>3, <1>4, <1>5, <1>8, <1>9

LEMMA PurgeUnlinkFailsKeeps ==
    ASSUME FileInv, NEW f \in Files, PurgeUnlinkFails(f)
    PROVE  FileInv'
<1> USE DEF FileInv
<1>1. /\ UNCHANGED <<row, bytes, age, gone, closed, op, torn>>
      /\ purge'.at = purge.at /\ purge'.rows = purge.rows
      /\ purge'.old = purge.old /\ purge'.expired = purge.expired
      /\ purge'.missing = purge.missing /\ purge'.left = purge.left \ {f}
      /\ PurgeTyped(purge')
  BY DEF PurgeUnlinkFails, PurgeTyped, TypeOK
<1>2. SweepIsSettled'
  BY <1>1 DEF SweepIsSettled, Settled, Doomed
<1>3. SweepIsRight'
  BY <1>1 DEF SweepIsRight, Settled
<1> QED
  BY <1>1, <1>2, <1>3, Reading

LEMMA PurgeStopsKeeps ==
    ASSUME FileInv, purge' = Off, UNCHANGED <<row, bytes, age, gone, closed, op, torn>>
    PROVE  FileInv'
<1>1. PurgeTyped(purge')
  BY OffTyped DEF PurgeTyped
<1>2. SweepIsSettled' /\ SweepIsRight'
  BY OffTyped DEF SweepIsSettled, SweepIsRight
<1> QED
  BY <1>1, <1>2, Reading

-----------------------------------------------------------------------------
(* The theorems.                                                           *)

LEMMA StepKeeps == FileInv /\ [Next]_vars => FileInv'
<1> SUFFICES ASSUME FileInv, [Next]_vars PROVE FileInv'
  OBVIOUS
<1>1. CASE Server
  <2>1. ASSUME NEW f \in Files, NEW u \in Users, NEW w \in Workspaces, NEW s \in Sizes,
               NEW ts \in SUBSET Targets, UploadWrite(f, u, w, s, ts)
        PROVE  FileInv'
    BY <2>1, UploadWriteKeeps
  <2>2. CASE UploadCommit
    BY <2>2, UploadCommitKeeps
  <2>3. ASSUME NEW f \in Files, NEW t \in Targets, Relink(f, t) PROVE FileInv'
    BY <2>3, RelinkKeeps
  <2>4. ASSUME NEW f \in Files, DeleteRow(f) PROVE FileInv'
    BY <2>4, DeleteRowKeeps
  <2>5. CASE DeleteBytes
    BY <2>5, DeleteBytesKeeps
  <2>6. ASSUME NEW h \in Targets \cup Workspaces, DeleteHolder(h) PROVE FileInv'
    BY <2>6, DeleteHolderKeeps
  <2>7. ASSUME NEW u \in Users, CloseAccount(u) PROVE FileInv'
    BY <2>7, CloseAccountKeeps
  <2>8. ASSUME NEW f \in Files, CloseUnlink(f) PROVE FileInv'
    BY <2>8, CloseUnlinkKeeps
  <2>9. CASE CloseCommit
    BY <2>9, CloseCommitKeeps
  <2>10. CASE ServerFails
    BY <2>10, ServerFailsKeeps
  <2> QED
    BY <1>1, <2>1, <2>2, <2>3, <2>4, <2>5, <2>6, <2>7, <2>8, <2>9, <2>10 DEF Server
<1>2. CASE Sweeper
  <2>1. ASSUME NEW apply \in BOOLEAN, NEW override \in BOOLEAN, PurgeStart(apply, override)
        PROVE  FileInv'
    BY <2>1, PurgeStartKeeps
  <2>2. CASE PurgeRead
    BY <2>2, PurgeReadKeeps
  <2>3. CASE PurgeCheck
    BY <2>3, PurgeCheckKeeps
  <2>4. CASE PurgeList
    BY <2>4, PurgeListKeeps
  <2>5. CASE PurgeDrop
    BY <2>5, PurgeDropKeeps
  <2>6. ASSUME NEW f \in Files, PurgeUnlink(f) PROVE FileInv'
    BY <2>6, PurgeUnlinkKeeps
  <2>7. ASSUME NEW f \in Files, PurgeUnlinkFails(f) PROVE FileInv'
    BY <2>7, PurgeUnlinkFailsKeeps
  <2>8. CASE PurgeDone \/ PurgeDies
    BY <2>8, PurgeStopsKeeps DEF PurgeDone, PurgeDies
  <2> QED
    BY <1>2, <2>1, <2>2, <2>3, <2>4, <2>5, <2>6, <2>7, <2>8 DEF Sweeper
<1>3. CASE Tick
  BY <1>3, TickKeeps
<1>4. CASE UNCHANGED vars
  <2>1. UNCHANGED <<row, bytes, age, gone, closed, op, purge, torn>>
    BY <1>4 DEF vars
  <2>2. Lasting
    BY <2>1 DEF Lasting, Settled, Doomed
  <2>3. StoreInv'
    BY <2>1 DEF StoreInv, FileInv, TypeOK, OnlyClosingTearsRows, RowsWereWritten, UploadIsYoung,
                DeletionHasNoRow, ClosingHasUser, Committed, Settled, Doomed
  <2> QED
    BY <2>1, <2>2, <2>3, StoreStep
<1> QED
  BY <1>1, <1>2, <1>3, <1>4 DEF Next

\* The inductive invariant holds in every reachable state of server and sweeper.
THEOREM FileInvHolds == Spec => []FileInv
  BY InitEstablishes, StepKeeps, PTL DEF Spec

\* Rows, bytes, ages, the handler and the sweeper stay well typed.
THEOREM FilesTyped == Spec => []TypeOK
<1>1. FileInv => TypeOK
  BY DEF FileInv
<1> QED
  BY <1>1, FileInvHolds, PTL

\* Whatever uploads, deletions, cascades, crashes and sweeps do to each other,
\* a committed row has its bytes, unless an account deletion unlinked them
\* and failed to commit (routers/files.py, routers/account.py, maintenance.py).
THEOREM RowsKeepTheirBytes == Spec => []OnlyClosingTearsRows
<1>1. FileInv => OnlyClosingTearsRows
  BY DEF FileInv
<1> QED
  BY <1>1, FileInvHolds, PTL

\* purge-orphans drops a row whose bytes are there only if retention is armed
\* and the bytes are past its window at that moment, though it decided from
\* what it had read before.
THEOREM GoodRowsAreKept == Spec => SweeperKeepsGoodRows
<1> DEFINE Keeps ==
        \A f \in Files :
            (purge.at = "listed" /\ purge'.at = "unlinking" /\ f \in Committed /\ row'[f] = NoRow)
                => (bytes[f] # "present" \/ (RetentionEnabled /\ age[f] > RetainAge))
<1>1. FileInv /\ [Next]_vars => Keeps
  <2> SUFFICES ASSUME FileInv, [Next]_vars, NEW f \in Files,
                      purge.at = "listed", purge'.at = "unlinking", f \in Committed, row'[f] = NoRow
               PROVE  bytes[f] # "present" \/ (RetentionEnabled /\ age[f] > RetainAge)
    OBVIOUS
  <2>1. PurgeDrop
    <3>1. purge' # purge
      OBVIOUS
    <3>2. ~Server /\ ~Tick /\ ~UNCHANGED vars
      BY <3>1 DEF Server, Tick, vars, UploadWrite, UploadCommit, Relink, DeleteRow, DeleteBytes,
                  DeleteHolder, CloseAccount, CloseUnlink, CloseCommit, ServerFails
    <3>3. Sweeper
      BY <3>2 DEF Next
    <3> QED
      BY <3>3, OffTyped DEF Sweeper, PurgeStart, PurgeRead, PurgeCheck, PurgeList, PurgeUnlink,
                            PurgeUnlinkFails, PurgeDone, PurgeDies
  <2>2. f \in purge.missing \/ (f \in purge.expired /\ RetentionEnabled)
    BY <2>1 DEF PurgeDrop, DeleteRows, RetentionRows, Committed
  <2> QED
    BY <2>2 DEF FileInv, SweepIsRight
<1>2. FileInv /\ [Next]_vars => [Keeps]_vars
  BY <1>1
<1> QED
  BY <1>2, FileInvHolds, PTL DEF Spec, SweeperKeepsGoodRows

-----------------------------------------------------------------------------
(* Sums of sizes.  What a workspace uses is folded over its rows one at a  *)
(* time, in an order nobody names; induction over the rows is an argument  *)
(* about the smallest set that would break the claim.                      *)

Adding(r, h, s) == IF s = {} THEN 0 ELSE LET x == CHOOSE y \in s : TRUE IN r[x].size + h[s \ {x}]
Folded(r, S) == CHOOSE h : h = [s \in SUBSET S |-> Adding(r, h, s)]
SumOf(r, S) == Folded(r, S)[S]

LEMMA LeastOne ==
    ASSUME NEW T, T \subseteq Nat, T # {}
    PROVE  \E m \in T : \A k \in T : m <= k
<1>1. PICK m \in T : \A k \in T : ~(<<k, m>> \in OpToRel(<, Nat))
  BY NatLessThanWellFounded, WFMin
<1>2. ASSUME NEW k \in T PROVE m <= k
  <2>1. m \in Nat /\ k \in Nat
    OBVIOUS
  <2>2. ~(k < m)
    BY <1>1, <2>1 DEF OpToRel
  <2> QED
    BY <2>1, <2>2
<1> QED
  BY <1>2

LEMMA SmallestSet ==
    ASSUME NEW S, IsFiniteSet(S), NEW B, B \subseteq SUBSET S, B # {}
    PROVE  \E s \in B : \A x \in s : s \ {x} \notin B
<1> DEFINE T == {Cardinality(s) : s \in B}
<1>1. \A s \in B : IsFiniteSet(s) /\ Cardinality(s) \in Nat
  BY FS_Subset, FS_CardinalityType
<1>2. PICK m \in T : \A k \in T : m <= k
  <2>1. T \subseteq Nat /\ T # {}
    BY <1>1
  <2> HIDE DEF T
  <2> QED
    BY <2>1, LeastOne
<1>3. PICK s \in B : m = Cardinality(s)
  BY <1>2
<1>4. ASSUME NEW x \in s, s \ {x} \in B PROVE FALSE
  <2>1. Cardinality(s \ {x}) = Cardinality(s) - 1
    BY <1>1, FS_RemoveElement
  <2>2. Cardinality(s) <= Cardinality(s \ {x})
    BY <1>2, <1>3, <1>4
  <2> QED
    BY <1>1, <2>1, <2>2
<1> QED
  BY <1>4

\* The recursion has a solution: one for the sets of at most n elements extends to
\* those of n + 1.
LEMMA FoldedAt ==
    ASSUME NEW r, NEW S, IsFiniteSet(S)
    PROVE  \A s \in SUBSET S : Folded(r, S)[s] = Adding(r, Folded(r, S), s)
<1> DEFINE Up(n) == {s \in SUBSET S : Cardinality(s) <= n}
           Solved(n) == \E h : h = [s \in Up(n) |-> Adding(r, h, s)]
           T == {n \in Nat : ~Solved(n)}
<1>1. \A s \in SUBSET S : IsFiniteSet(s) /\ Cardinality(s) \in Nat
  BY FS_Subset, FS_CardinalityType
<1>2. Solved(0)
  <2>1. \A s \in Up(0) : s = {}
    BY <1>1, FS_EmptySet
  <2> DEFINE h == [s \in Up(0) |-> 0]
  <2>2. h = [s \in Up(0) |-> Adding(r, h, s)]
    BY <2>1 DEF Adding
  <2> QED
    BY <2>2
<1>3. ASSUME NEW n \in Nat, Solved(n) PROVE Solved(n + 1)
  <2>1. PICK h : h = [s \in Up(n) |-> Adding(r, h, s)]
    BY <1>3
  <2> DEFINE g == [s \in Up(n + 1) |-> IF s \in Up(n) THEN h[s] ELSE Adding(r, h, s)]
  <2>2. ASSUME NEW s \in Up(n + 1) PROVE g[s] = Adding(r, g, s)
    <3>1. g[s] = Adding(r, h, s)
      BY <2>1
    <3>2. CASE s = {}
      BY <3>1, <3>2 DEF Adding
    <3>3. CASE s # {}
      <4> DEFINE x == CHOOSE y \in s : TRUE
      <4>1. x \in s
        BY <3>3
      <4>2. s \ {x} \in SUBSET S /\ Cardinality(s \ {x}) = Cardinality(s) - 1
        BY <1>1, <4>1, FS_RemoveElement
      <4>3. s \ {x} \in Up(n) /\ s \ {x} \in Up(n + 1)
        BY <1>1, <4>2
      <4>4. g[s \ {x}] = h[s \ {x}]
        BY <4>3
      <4> HIDE DEF g
      <4> QED
        BY <3>1, <3>3, <4>4 DEF Adding
    <3> QED
      BY <3>2, <3>3
  <2>3. g = [s \in Up(n + 1) |-> g[s]]
    OBVIOUS
  <2>4. g = [s \in Up(n + 1) |-> Adding(r, g, s)]
    <3> HIDE DEF g
    <3> QED
      BY <2>2, <2>3
  <2> QED
    BY <2>4
<1>4. T = {}
  <2> SUFFICES ASSUME T # {} PROVE FALSE
    OBVIOUS
  <2>1. PICK m \in T : \A k \in T : m <= k
    <3>1. T \subseteq Nat
      OBVIOUS
    <3> HIDE DEF T
    <3> QED
      BY <3>1, LeastOne
  <2>2. m \in Nat /\ m # 0 /\ ~Solved(m)
    BY <1>2
  <2>3. m - 1 \in Nat /\ m - 1 \notin T
    <3> HIDE DEF T, Solved
    <3> QED
      BY <2>1, <2>2
  <2>4. Solved(m - 1)
    BY <2>3
  <2>5. Solved((m - 1) + 1)
    <3> HIDE DEF Solved
    <3> QED
      BY <1>3, <2>3, <2>4
  <2>6. (m - 1) + 1 = m
    BY <2>2
  <2> HIDE DEF Solved
  <2> QED
    BY <2>2, <2>5, <2>6
<1>5. Solved(Cardinality(S)) /\ Up(Cardinality(S)) = SUBSET S
  <2>1. Cardinality(S) \in Nat
    BY FS_CardinalityType
  <2>2. \A s \in SUBSET S : Cardinality(s) <= Cardinality(S)
    BY FS_Subset
  <2> QED
    BY <1>4, <2>1, <2>2
<1>6. \E h : h = [s \in SUBSET S |-> Adding(r, h, s)]
  BY <1>5
<1>7. Folded(r, S) = [s \in SUBSET S |-> Adding(r, Folded(r, S), s)]
  BY <1>6 DEF Folded
<1> DEFINE F == Folded(r, S)
<1>8. F = [s \in SUBSET S |-> Adding(r, F, s)]
  BY <1>7, Zenon
<1> HIDE DEF F, Up, Solved, T
<1>9. \A s \in SUBSET S : F[s] = Adding(r, F, s)
  BY <1>8
<1> QED
  BY <1>9 DEF F

\* The sum of a part depends on the sizes of that part alone.
LEMMA FoldedAgrees ==
    ASSUME NEW r, NEW S, IsFiniteSet(S), NEW q, NEW T, IsFiniteSet(T),
           NEW A, A \subseteq S, A \subseteq T, \A f \in A : r[f].size = q[f].size
    PROVE  Folded(r, S)[A] = Folded(q, T)[A]
<1> DEFINE F == Folded(r, S)
           G == Folded(q, T)
           B == {s \in SUBSET A : F[s] # G[s]}
<1>1. /\ \A s \in SUBSET S : F[s] = Adding(r, F, s)
      /\ \A s \in SUBSET T : G[s] = Adding(q, G, s)
  BY FoldedAt
<1>2. B = {}
  <2> SUFFICES ASSUME B # {} PROVE FALSE
    OBVIOUS
  <2>1. PICK s \in B : \A x \in s : s \ {x} \notin B
    <3>1. B \subseteq SUBSET A /\ IsFiniteSet(A)
      BY FS_Subset
    <3> HIDE DEF B
    <3> QED
      BY <3>1, SmallestSet
  <2>2. s \in SUBSET S /\ s \in SUBSET T /\ s \in SUBSET A /\ F[s] # G[s]
    OBVIOUS
  <2> HIDE DEF F, G
  <2>3. s # {}
    BY <1>1, <2>2 DEF Adding
  <2> DEFINE x == CHOOSE y \in s : TRUE
  <2>4. x \in s
    BY <2>3
  <2>5. F[s \ {x}] = G[s \ {x}] /\ r[x].size = q[x].size
    BY <2>1, <2>2, <2>4
  <2>6. F[s] = r[x].size + F[s \ {x}] /\ G[s] = q[x].size + G[s \ {x}]
    BY <1>1, <2>2, <2>3 DEF Adding
  <2> QED
    BY <2>2, <2>5, <2>6
<1> QED
  BY <1>2

LEMMA FoldedIsNatural ==
    ASSUME NEW r, NEW S, IsFiniteSet(S), \A f \in S : r[f].size \in Nat
    PROVE  \A s \in SUBSET S : Folded(r, S)[s] \in Nat
<1> DEFINE F == Folded(r, S)
           B == {s \in SUBSET S : F[s] \notin Nat}
<1>1. \A s \in SUBSET S : F[s] = Adding(r, F, s)
  BY FoldedAt
<1>2. B = {}
  <2> SUFFICES ASSUME B # {} PROVE FALSE
    OBVIOUS
  <2>1. PICK s \in B : \A x \in s : s \ {x} \notin B
    <3>1. B \subseteq SUBSET S
      OBVIOUS
    <3> HIDE DEF B
    <3> QED
      BY <3>1, SmallestSet
  <2>2. s \in SUBSET S /\ F[s] \notin Nat
    OBVIOUS
  <2> HIDE DEF F
  <2>3. s # {}
    BY <1>1, <2>2 DEF Adding
  <2> DEFINE x == CHOOSE y \in s : TRUE
  <2>4. x \in s
    BY <2>3
  <2>5. F[s \ {x}] \in Nat /\ r[x].size \in Nat
    BY <2>1, <2>2, <2>4
  <2>6. F[s] = r[x].size + F[s \ {x}]
    BY <1>1, <2>2, <2>3 DEF Adding
  <2> QED
    BY <2>2, <2>5, <2>6
<1> QED
  BY <1>2

\* Whichever element is taken out first, the sum is the same.
LEMMA FoldedTakesAny ==
    ASSUME NEW r, NEW S, IsFiniteSet(S), \A f \in S : r[f].size \in Nat
    PROVE  \A s \in SUBSET S : \A y \in s : Folded(r, S)[s] = r[y].size + Folded(r, S)[s \ {y}]
<1> DEFINE F == Folded(r, S)
           Fits(s) == \A y \in s : F[s] = r[y].size + F[s \ {y}]
           B == {s \in SUBSET S : ~Fits(s)}
<1>1. \A s \in SUBSET S : F[s] = Adding(r, F, s)
  BY FoldedAt
<1>2. \A s \in SUBSET S : F[s] \in Nat
  BY FoldedIsNatural
<1> HIDE DEF F
<1>3. B = {}
  <2> SUFFICES ASSUME B # {} PROVE FALSE
    OBVIOUS
  <2>1. PICK s \in B : \A x \in s : s \ {x} \notin B
    <3>1. B \subseteq SUBSET S
      OBVIOUS
    <3> HIDE DEF B
    <3> QED
      BY <3>1, SmallestSet
  <2>2. PICK y \in s : F[s] # r[y].size + F[s \ {y}]
    OBVIOUS
  <2>3. s \in SUBSET S /\ s # {}
    BY <2>2
  <2> DEFINE x == CHOOSE z \in s : TRUE
  <2>4. x \in s
    BY <2>3
  <2>5. F[s] = r[x].size + F[s \ {x}]
    BY <1>1, <2>3 DEF Adding
  <2> HIDE DEF x
  <2>6. x # y
    BY <2>2, <2>5
  <2>7. Fits(s \ {x}) /\ Fits(s \ {y})
    BY <2>1, <2>3, <2>4
  <2>8. /\ F[s \ {x}] = r[y].size + F[(s \ {x}) \ {y}]
        /\ F[s \ {y}] = r[x].size + F[(s \ {y}) \ {x}]
    BY <2>4, <2>6, <2>7
  <2>9. (s \ {x}) \ {y} = (s \ {y}) \ {x} /\ (s \ {x}) \ {y} \in SUBSET S
    BY <2>3
  <2> DEFINE rest == F[(s \ {x}) \ {y}]
             a == r[x].size
             b == r[y].size
  <2>10. a \in Nat /\ b \in Nat /\ rest \in Nat
    BY <1>2, <2>3, <2>4, <2>9
  <2>11. F[s] = a + (b + rest) /\ F[s \ {y}] = a + rest
    BY <2>5, <2>8, <2>9
  <2>12. F[s] # b + F[s \ {y}]
    BY <2>2
  <2> HIDE DEF rest, a, b
  <2> QED
    BY <2>10, <2>11, <2>12
<1> QED
  BY <1>3 DEF F

LEMMA SumAgrees ==
    ASSUME NEW r, NEW q, NEW S, IsFiniteSet(S), \A f \in S : r[f].size = q[f].size
    PROVE  SumOf(r, S) = SumOf(q, S)
  BY FoldedAgrees DEF SumOf

LEMMA SumIsNatural ==
    ASSUME NEW r, NEW S, IsFiniteSet(S), \A f \in S : r[f].size \in Nat
    PROVE  SumOf(r, S) \in Nat
  BY FoldedIsNatural DEF SumOf

LEMMA SumOfNone == ASSUME NEW r PROVE SumOf(r, {}) = 0
<1>1. IsFiniteSet({})
  BY FS_EmptySet
<1>2. Folded(r, {})[{}] = Adding(r, Folded(r, {}), {})
  BY <1>1, FoldedAt
<1> QED
  BY <1>2 DEF Adding, SumOf

LEMMA SumTakesAny ==
    ASSUME NEW r, NEW S, IsFiniteSet(S), \A f \in S : r[f].size \in Nat
    PROVE  \A y \in S : SumOf(r, S) = r[y].size + SumOf(r, S \ {y})
<1> TAKE y \in S
<1>1. Folded(r, S)[S] = r[y].size + Folded(r, S)[S \ {y}]
  BY FoldedTakesAny
<1>2. IsFiniteSet(S \ {y})
  BY FS_RemoveElement
<1>3. Folded(r, S)[S \ {y}] = Folded(r, S \ {y})[S \ {y}]
  BY <1>2, FoldedAgrees
<1> QED
  BY <1>1, <1>3 DEF SumOf

LEMMA SumGrows ==
    ASSUME NEW r, NEW S, IsFiniteSet(S), \A f \in S : r[f].size \in Nat, NEW A, A \subseteq S
    PROVE  SumOf(r, A) <= SumOf(r, S)
<1> DEFINE B == {s \in SUBSET S : A \subseteq s /\ ~(SumOf(r, A) <= SumOf(r, s))}
<1>1. \A s \in SUBSET S : IsFiniteSet(s) /\ SumOf(r, s) \in Nat
  BY FS_Subset, SumIsNatural
<1>2. B = {}
  <2> SUFFICES ASSUME B # {} PROVE FALSE
    OBVIOUS
  <2>1. PICK s \in B : \A x \in s : s \ {x} \notin B
    <3>1. B \subseteq SUBSET S
      OBVIOUS
    <3> HIDE DEF B
    <3> QED
      BY <3>1, SmallestSet
  <2>2. s \in SUBSET S /\ A \subseteq s /\ ~(SumOf(r, A) <= SumOf(r, s))
    OBVIOUS
  <2>3. s # A
    BY <1>1, <2>2
  <2>4. PICK y \in s : y \notin A
    BY <2>2, <2>3
  <2>5. SumOf(r, A) <= SumOf(r, s \ {y})
    BY <2>1, <2>2, <2>4
  <2>6. SumOf(r, s) = r[y].size + SumOf(r, s \ {y})
    BY <1>1, <2>2, SumTakesAny
  <2>7. /\ r[y].size \in Nat /\ SumOf(r, s \ {y}) \in Nat /\ SumOf(r, A) \in Nat
        /\ SumOf(r, s) \in Nat
    BY <1>1, <2>2
  <2> QED
    BY <2>2, <2>5, <2>6, <2>7
<1> QED
  BY <1>2

-----------------------------------------------------------------------------
(* The quota.                                                              *)

Holdings(r, w) == {f \in Files : r[f] # NoRow /\ r[f].workspace = w}
UsedBy(r, w) == SumOf(r, Holdings(r, w))

LEMMA UsedIsSum == ASSUME NEW w PROVE Used(w) = UsedBy(row, w)
<1>1. {f \in Committed : row[f].workspace = w} = Holdings(row, w)
  BY DEF Committed, Holdings
<1>2. Used(w) = SumOf(row, {f \in Committed : row[f].workspace = w})
  BY SMT DEF Used, MapThenSumSet, MapThenFoldSet, SumOf, Folded, Adding
<1> QED
  BY <1>1, <1>2 DEF UsedBy

RowsOk(r) == r \in [Files -> Row \cup {NoRow}] /\ IsFiniteSet({f \in Files : r[f] # NoRow})

LEMMA HoldingsAdd ==
    ASSUME NEW r, RowsOk(r), NEW w
    PROVE  /\ IsFiniteSet(Holdings(r, w)) /\ \A f \in Holdings(r, w) : r[f].size \in Nat
           /\ UsedBy(r, w) \in Nat
<1>1. IsFiniteSet(Holdings(r, w))
  <2>1. Holdings(r, w) \in SUBSET {f \in Files : r[f] # NoRow}
    BY DEF Holdings
  <2> QED
    BY <2>1, FS_Subset DEF RowsOk
<1>2. \A f \in Holdings(r, w) : r[f].size \in Nat
  BY FileStoreAssumption DEF Holdings, RowsOk, Row
<1> QED
  BY <1>1, <1>2, SumIsNatural DEF UsedBy

\* Rows that go, or are linked to something else, take nothing up.
LEMMA RowsGiveBack ==
    ASSUME NEW r, RowsOk(r), NEW q, q \in [Files -> Row \cup {NoRow}],
           \A f \in Files : q[f] # NoRow =>
               r[f] # NoRow /\ q[f].size = r[f].size /\ q[f].workspace = r[f].workspace
    PROVE  RowsOk(q) /\ \A w : UsedBy(q, w) <= UsedBy(r, w)
<1>1. RowsOk(q)
  <2>1. {f \in Files : q[f] # NoRow} \in SUBSET {f \in Files : r[f] # NoRow}
    OBVIOUS
  <2> QED
    BY <2>1, FS_Subset DEF RowsOk
<1>2. ASSUME NEW w PROVE UsedBy(q, w) <= UsedBy(r, w)
  <2>1. Holdings(q, w) \subseteq Holdings(r, w) /\ \A f \in Holdings(q, w) : q[f].size = r[f].size
    BY DEF Holdings
  <2>2. SumOf(q, Holdings(q, w)) = SumOf(r, Holdings(q, w))
    BY <1>1, <2>1, HoldingsAdd, SumAgrees
  <2>3. SumOf(r, Holdings(q, w)) <= SumOf(r, Holdings(r, w))
    BY <2>1, HoldingsAdd, SumGrows
  <2> QED
    BY <2>2, <2>3 DEF UsedBy
<1> QED
  BY <1>1, <1>2

\* A row that is added counts for its size in its own workspace.
LEMMA RowTakesUp ==
    ASSUME NEW r, RowsOk(r), NEW f \in Files, r[f] = NoRow, NEW new \in Row,
           NEW q, q \in [Files -> Row \cup {NoRow}], q[f] = new,
           \A g \in Files \ {f} : q[g] = r[g]
    PROVE  /\ RowsOk(q)
           /\ \A w : UsedBy(q, w) = IF w = new.workspace THEN UsedBy(r, w) + new.size ELSE UsedBy(r, w)
<1>1. new # NoRow
  BY FileStoreAssumption
<1>2. RowsOk(q)
  <2> DEFINE S == {g \in Files : r[g] # NoRow}
  <2>1. {g \in Files : q[g] # NoRow} = S \cup {f}
    BY <1>1
  <2>2. IsFiniteSet(S \cup {f})
    BY FS_AddElement DEF RowsOk
  <2> QED
    BY <1>1, <2>1, <2>2 DEF RowsOk
<1>3. ASSUME NEW w
      PROVE  UsedBy(q, w) = IF w = new.workspace THEN UsedBy(r, w) + new.size ELSE UsedBy(r, w)
  <2>1. \A g \in Holdings(r, w) : g # f /\ q[g].size = r[g].size
    BY <1>1 DEF Holdings
  <2>2. SumOf(q, Holdings(r, w)) = SumOf(r, Holdings(r, w))
    BY <2>1, HoldingsAdd, SumAgrees
  <2>3. CASE w = new.workspace
    <3>1. Holdings(q, w) = Holdings(r, w) \cup {f} /\ Holdings(q, w) \ {f} = Holdings(r, w)
      BY <1>1, <2>1, <2>3 DEF Holdings
    <3> DEFINE S == Holdings(q, w)
    <3>2. IsFiniteSet(S) /\ (\A g \in S : q[g].size \in Nat) /\ f \in S
      BY <1>2, <3>1, HoldingsAdd
    <3>3. SumOf(q, S) = q[f].size + SumOf(q, S \ {f})
      <4> HIDE DEF S
      <4>1. \A y \in S : SumOf(q, S) = q[y].size + SumOf(q, S \ {y})
        BY <3>2, SumTakesAny
      <4> QED
        BY <3>2, <4>1
    <3>4. SumOf(q, S \ {f}) = UsedBy(r, w) /\ q[f].size = new.size
      BY <1>1, <2>2, <3>1 DEF UsedBy
    <3>5. new.size \in Nat /\ UsedBy(r, w) \in Nat
      BY FileStoreAssumption, HoldingsAdd DEF Row
    <3>6. UsedBy(q, w) = new.size + UsedBy(r, w)
      BY <3>3, <3>4 DEF UsedBy
    <3> QED
      BY <2>3, <3>5, <3>6
  <2>4. CASE w # new.workspace
    <3>1. Holdings(q, w) = Holdings(r, w)
      BY <1>1, <2>4 DEF Holdings
    <3> QED
      BY <2>2, <2>4, <3>1 DEF UsedBy
  <2> QED
    BY <2>3, <2>4
<1> QED
  BY <1>2, <1>3

\* The rows fit, and so does the file whose bytes are being written.
QuotaInv ==
    /\ RowsOk(row)
    /\ Quota # 0 => \A w \in Workspaces : UsedBy(row, w) <= Quota
    /\ Quota # 0 /\ op.at = "written" => UsedBy(row, op.new.workspace) + op.new.size <= Quota

LEMMA QuotaStarts == Init => QuotaInv
<1> SUFFICES ASSUME Init PROVE QuotaInv
  OBVIOUS
<1>1. RowsOk(row) /\ \A w : Holdings(row, w) = {}
  <2>1. \A f \in Files : row[f] = NoRow
    BY DEF Init
  <2>2. {f \in Files : row[f] # NoRow} = {}
    BY <2>1
  <2> QED
    BY <2>1, <2>2, FS_EmptySet DEF Init, RowsOk, Holdings
<1>2. \A w : UsedBy(row, w) = 0
  BY <1>1, SumOfNone DEF UsedBy
<1>3. op.at = "idle"
  BY OpTyped DEF Init
<1> QED
  BY <1>1, <1>2, <1>3, FileStoreAssumption DEF QuotaInv

\* A step that adds no row and starts no upload.
LEMMA QuotaKept ==
    ASSUME FileInv, FileInv', QuotaInv,
           op'.at = "written" => op.at = "written" /\ op'.new = op.new,
           \A f \in Files : row'[f] # NoRow =>
               /\ row[f] # NoRow /\ row'[f].size = row[f].size
               /\ row'[f].workspace = row[f].workspace
    PROVE  QuotaInv'
<1>1. RowsOk(row) /\ row' \in [Files -> Row \cup {NoRow}]
  BY DEF QuotaInv, FileInv, TypeOK
<1>2. RowsOk(row') /\ \A w : UsedBy(row', w) <= UsedBy(row, w)
  BY <1>1, RowsGiveBack
<1>3. \A w : UsedBy(row', w) \in Nat /\ UsedBy(row, w) \in Nat
  BY <1>1, <1>2, HoldingsAdd
<1>4. ASSUME Quota # 0 PROVE \A w \in Workspaces : UsedBy(row', w) <= Quota
  BY <1>2, <1>3, <1>4, FileStoreAssumption DEF QuotaInv
<1>5. ASSUME Quota # 0, op'.at = "written"
      PROVE  UsedBy(row', op'.new.workspace) + op'.new.size <= Quota
  <2>1. op.at = "written" /\ op'.new = op.new /\ op.new \in Row
    BY <1>5 DEF FileInv, UploadIsYoung
  <2>2. UsedBy(row, op.new.workspace) + op.new.size <= Quota /\ op.new.size \in Nat
    BY <1>5, <2>1, FileStoreAssumption DEF QuotaInv, Row
  <2>3. /\ UsedBy(row', op.new.workspace) <= UsedBy(row, op.new.workspace)
        /\ UsedBy(row', op.new.workspace) \in Nat /\ UsedBy(row, op.new.workspace) \in Nat
    BY <1>2, <1>3
  <2> QED
    BY <2>1, <2>2, <2>3, FileStoreAssumption
<1> QED
  BY <1>2, <1>4, <1>5 DEF QuotaInv

LEMMA QuotaStepKeeps == ASSUME FileInv, FileInv', QuotaInv, [Next]_vars PROVE QuotaInv'
<1>0. row \in [Files -> Row \cup {NoRow}]
  BY DEF FileInv, TypeOK
<1>1. ASSUME NEW f \in Files, NEW u \in Users, NEW w \in Workspaces, NEW s \in Sizes,
             NEW ts \in SUBSET Targets, UploadWrite(f, u, w, s, ts)
      PROVE  QuotaInv'
  <2>1. /\ row' = row /\ op'.new = NewRow(u, w, s, ts) /\ FitsQuota(w, s)
    BY <1>1 DEF UploadWrite, NoOp
  <2>2. op'.new.workspace = w /\ op'.new.size = s
    BY <2>1 DEF NewRow
  <2>3. Quota # 0 => UsedBy(row, w) + s <= Quota
    BY <2>1, UsedIsSum DEF FitsQuota
  <2> QED
    BY <2>1, <2>2, <2>3 DEF QuotaInv
<1>2. CASE UploadCommit
  <2>1. /\ op.at = "written" /\ op.file \in Files /\ row[op.file] = NoRow /\ op.new \in Row
        /\ row' = [row EXCEPT ![op.file] = op.new] /\ op'.at = "idle" /\ RowsOk(row)
    BY <1>2, OpTyped DEF UploadCommit, FileInv, UploadIsYoung, QuotaInv
  <2> DEFINE n == op.new
             k == op.file
  <2>2. /\ RowsOk(row')
        /\ \A w : UsedBy(row', w) = IF w = n.workspace THEN UsedBy(row, w) + n.size ELSE UsedBy(row, w)
    <3>1. k \in Files /\ row[k] = NoRow /\ n \in Row /\ row' = [row EXCEPT ![k] = n] /\ RowsOk(row)
      BY <2>1
    <3> HIDE DEF n, k
    <3>2. /\ row' \in [Files -> Row \cup {NoRow}] /\ row'[k] = n
          /\ \A g \in Files \ {k} : row'[g] = row[g]
      BY <1>0, <3>1
    <3>3. k \in Files /\ row[k] = NoRow /\ n \in Row /\ RowsOk(row)
      BY <3>1
    <3> QED
      BY <3>2, <3>3, RowTakesUp
  <2>3. Quota # 0 => \A w \in Workspaces : UsedBy(row', w) <= Quota
    BY <2>1, <2>2 DEF QuotaInv
  <2> QED
    BY <2>1, <2>2, <2>3 DEF QuotaInv
<1>3. ASSUME NEW f \in Files, NEW t \in Targets, Relink(f, t) PROVE QuotaInv'
  <2> DEFINE b == [row[f] EXCEPT !.link = {x \in @ : KindOf[x] # KindOf[t]} \cup {t}]
  <2>1. row' = [row EXCEPT ![f] = b] /\ row[f] \in Row /\ row[f] # NoRow /\ op' = op
    BY <1>0, <1>3 DEF Relink, Committed
  <2>2. b.size = row[f].size /\ b.workspace = row[f].workspace
    BY <2>1 DEF Row
  <2> HIDE DEF b
  <2>3. \A g \in Files : row'[g] # NoRow =>
            /\ row[g] # NoRow /\ row'[g].size = row[g].size
            /\ row'[g].workspace = row[g].workspace
    BY <1>0, <2>1, <2>2
  <2> QED
    BY <2>1, <2>3, QuotaKept
<1>4. ASSUME NEW fs, DeleteRows(fs), op'.at = "written" => op' = op PROVE QuotaInv'
  <2>1. \A g \in Files : row'[g] # NoRow => row'[g] = row[g]
    BY <1>4 DEF DeleteRows
  <2> QED
    BY <1>4, <2>1, QuotaKept
<1>5. CASE row' = row /\ (op'.at = "written" => op' = op)
  BY <1>5, QuotaKept
<1>6. CASE Server
  <2>1. ASSUME NEW f \in Files, DeleteRow(f) PROVE QuotaInv'
    BY <1>4, <2>1, OpTyped DEF DeleteRow, NoOp
  <2>2. ASSUME NEW h \in Targets \cup Workspaces, DeleteHolder(h) PROVE QuotaInv'
    BY <1>4, <2>2 DEF DeleteHolder
  <2>3. CASE CloseCommit
    BY <1>4, <2>3, OpTyped DEF CloseCommit
  <2>4. CASE DeleteBytes \/ ServerFails
    BY <1>5, <2>4, OpTyped DEF DeleteBytes, ServerFails
  <2>5. ASSUME NEW u \in Users, CloseAccount(u) PROVE QuotaInv'
    BY <1>5, <2>5 DEF CloseAccount, NoOp
  <2>6. ASSUME NEW f \in Files, CloseUnlink(f) PROVE QuotaInv'
    <3>1. row' = row /\ op' = [op EXCEPT !.left = @ \ {f}] /\ op.at = "closing"
      BY <2>6 DEF CloseUnlink
    <3>2. op'.at = "closing"
      BY <3>1 DEF FileInv, TypeOK
    <3> QED
      BY <1>5, <3>1, <3>2
  <2> QED
    BY <1>1, <1>2, <1>3, <1>6, <2>1, <2>2, <2>3, <2>4, <2>5, <2>6 DEF Server
<1>7. CASE Sweeper
  <2>1. CASE PurgeDrop
    BY <1>4, <2>1 DEF PurgeDrop
  <2>2. CASE ~PurgeDrop
    <3>1. row' = row /\ op' = op
      BY <1>7, <2>2 DEF Sweeper, PurgeStart, PurgeRead, PurgeCheck, PurgeList, PurgeUnlink,
           PurgeUnlinkFails, PurgeDone, PurgeDies
    <3> QED
      BY <1>5, <3>1
  <2> QED
    BY <2>1, <2>2
<1>8. CASE Tick \/ UNCHANGED vars
  BY <1>5, <1>8 DEF Tick, vars
<1> QED
  BY <1>6, <1>7, <1>8 DEF Next

\* However uploads, links, deletions and sweeps follow one another, the rows of a
\* workspace never add up to more than its quota, counted at the check and charged at
\* the commit (routers/files.py).
THEOREM QuotaIsKept == Spec => []QuotaHolds
<1>1. QuotaInv => QuotaHolds
  BY UsedIsSum DEF QuotaInv, QuotaHolds
<1>2. Spec => []QuotaInv
  BY QuotaStarts, QuotaStepKeeps, FileInvHolds, PTL DEF Spec
<1> QED
  BY <1>1, <1>2, PTL

=============================================================================
