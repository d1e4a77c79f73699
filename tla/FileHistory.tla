---------------------------- MODULE FileHistory -----------------------------
(***************************************************************************)
(* What the server remembers of one path: the row of the `files` table,    *)
(* the version history beside it, vault snapshots, the trash, and the      *)
(* content-addressed blob store the restores read from                     *)
(* (crates/disk-core/src/{content_store.rs,meta_db/{files,versions,trash,  *)
(* snapshots}.rs} and the versions, trash and snapshots routes of          *)
(* crates/disk-server).                                                    *)
(*                                                                         *)
(* A handler that writes a file does three things one after the other: the *)
(* bytes, the history row, the `files` row.  None of it is one             *)
(* transaction, so the index, the host and a failing database come in      *)
(* between.  Handlers that race for one path are VaultSync's subject.      *)
(***************************************************************************)
EXTENDS Naturals, Sequences, FiniteSets, FiniteSetsExt

CONSTANTS
  Bodies,       \* contents of the file, which are their own hash
  Absent,       \* no file, no row, no blob, no handler at work
  MaxVersions,  \* VersionRetention::max_versions
  MaxSnapshots, \* SnapshotRetention::max_snapshots
  MaxOps        \* bound: requests, host changes and failures in a behaviour

\* A row of the `files` table: each number in the history is given by a request.
MaxVid == MaxOps + 1
RowType == [hash : Bodies, deleted : BOOLEAN, vid : 0..MaxVid]

\* A handler between its bytes and its row.
JobType == [kind : {"upload", "restore"}, hash : Bodies, bytes : Bodies, vid : 0..MaxVid,
            prior : RowType \cup {Absent}, raced : BOOLEAN]

ASSUME HistoryAssumption ==
  /\ Absent \notin Bodies \cup RowType \cup JobType
  /\ MaxVersions \in Nat \ {0} /\ MaxSnapshots \in Nat \ {0} /\ MaxOps \in Nat

VARIABLES
  tenant,    \* a tenant's vault: its version ids are UNIQUE, no index touches it
  bytes,     \* the file under the sync root
  current,   \* its `files` row
  versions,  \* its file_versions rows
  blobs,     \* the blob store: hash -> bytes
  snapshots, \* vault snapshots, oldest first: the row as it was
  job,       \* the handler that has written the file and not yet its row; raced: the
             \* index wrote the row meanwhile
  misfiled,  \* history: bytes were filed or restored under another hash
  torn,      \* history: the row went or stayed behind while its versions remained
  ops        \* requests so far

historyVars == <<tenant, bytes, current, versions, blobs, snapshots, job, misfiled, torn, ops>>

Row(h, gone, id) == [hash |-> h, deleted |-> gone, vid |-> id]
LiveRow == current # Absent /\ ~current.deleted
InTrash == current # Absent /\ current.deleted

\* A NULL version id, 0 here, is read as 1.
VersionId(row) == IF row.vid = 0 THEN 1 ELSE row.vid

HistoryInit ==
  /\ tenant \in BOOLEAN
  /\ bytes = Absent /\ current = Absent /\ versions = {}
  /\ blobs = [h \in Bodies |-> Absent]
  /\ snapshots = << >>
  /\ job = Absent
  /\ misfiled = FALSE /\ torn = FALSE /\ ops = 0

Request == job = Absent /\ ops < MaxOps /\ ops' = ops + 1

-----------------------------------------------------------------------------
(* The blob store *)

\* ContentBlobStore::put: the first bytes filed under a hash stay.  Nobody
\* compares them with the hash.
Put(store, h, content) == IF store[h] # Absent THEN store ELSE [store EXCEPT ![h] = content]

\* Mutant of Archive: the file is archived after it was overwritten.
ArchiveLate(content) ==
  IF bytes # Absent /\ current # Absent THEN Put(blobs, current.hash, content) ELSE blobs

\* The bytes about to be overwritten go under the hash the row has.
Archive(content) ==
  IF bytes # Absent /\ current # Absent THEN Put(blobs, current.hash, bytes) ELSE blobs

Misfiles == bytes # Absent /\ current # Absent /\ current.hash # bytes

\* resolve_blob, resolve_trash_blob: the blob of the hash; else the blob of the
\* version with the row's id, whatever its hash; else the file, if it matches.
ResolveBlob(h, id) ==
  LET numbered == {blobs[v.hash] : v \in {w \in versions : w.vid = id}} \ {Absent}
  IN  IF blobs[h] # Absent THEN {blobs[h]}
      ELSE IF numbered # {} THEN numbered
      ELSE {bytes} \cap {h}

-----------------------------------------------------------------------------
(* Handlers that write the file *)

Writes(kind, h, content) ==
  /\ bytes' = content
  /\ job' = [kind |-> kind, hash |-> h, bytes |-> content, vid |-> 0,
             prior |-> current, raced |-> FALSE]
  /\ UNCHANGED <<tenant, current, versions, snapshots, torn>>

\* delta_upload: archive, then rename.
Upload(h) ==
  /\ Request
  /\ blobs' = Archive(h)
  /\ misfiled' = (misfiled \/ Misfiles)
  /\ Writes("upload", h, h)

\* restore_version
RestoreVersion(v) ==
  /\ Request
  /\ v \in versions
  /\ ~(current # Absent /\ current.vid = v.vid)
  /\ blobs[v.hash] # Absent
  /\ ~(LiveRow /\ current.hash = v.hash)
  /\ blobs' = Archive(blobs[v.hash])
  /\ misfiled' = (misfiled \/ Misfiles)
  /\ Writes("restore", v.hash, blobs[v.hash])

\* restore_trash: the bytes under the root are not archived.
RestoreTrash ==
  /\ Request
  /\ InTrash
  /\ \E content \in ResolveBlob(current.hash, current.vid) :
       /\ Writes("restore", current.hash, content)
       /\ misfiled' = (misfiled \/ content # current.hash)
  /\ UNCHANGED blobs

\* restore_snapshot, for one file of the snapshot; tombstones are skipped.
RestoreSnapshot(i) ==
  /\ Request
  /\ i \in DOMAIN snapshots
  /\ LET entry == snapshots[i]
     IN  /\ entry # Absent /\ ~entry.deleted
         /\ \E content \in ResolveBlob(entry.hash, VersionId(entry)) :
              /\ blobs' = Archive(content)
              /\ misfiled' = (misfiled \/ Misfiles \/ content # entry.hash)
              /\ Writes("restore", entry.hash, content)

\* The row's version goes into the history: live, and with another content.
Superseded(row, h) == row # Absent /\ ~row.deleted /\ row.hash # h

NextNumber(id) == id + 1

\* upsert_file_scoped_versioned, first half: the row is read, its version is
\* inserted.  The insert fails when a tenant's path has that number already.
RecordVersion ==
  /\ job # Absent /\ job.vid = 0
  /\ LET id == IF current = Absent THEN 1 ELSE VersionId(current)
     IN  IF ~Superseded(current, job.hash)
         THEN /\ job' = [job EXCEPT !.vid = id]
              /\ UNCHANGED <<versions, torn>>
         ELSE IF tenant /\ \E v \in versions : v.vid = id
         THEN job' = Absent /\ torn' = TRUE /\ UNCHANGED versions
         ELSE /\ versions' = versions \cup {[vid |-> id, hash |-> current.hash]}
              /\ job' = [job EXCEPT !.vid = NextNumber(id)]
              /\ UNCHANGED torn
  /\ UNCHANGED <<tenant, bytes, current, blobs, snapshots, misfiled, ops>>

\* prune_file_versions: the newest max_versions numbers stay.
Newest(rows) ==
  {v \in rows : Cardinality({w.vid : w \in {x \in rows : x.vid > v.vid}}) < MaxVersions}

\* upsert_file_scoped_versioned, second half: write_file_row and the pruning,
\* which also drops every version older than some age; a restore then files
\* what it wrote.
WriteFileRow ==
  /\ job # Absent /\ job.vid # 0
  /\ current' = Row(job.hash, FALSE, job.vid)
  /\ \E youngest \in {0} \cup {v.vid : v \in versions} :
       versions' = {v \in Newest(versions) : v.vid >= youngest}
  /\ blobs' = IF job.kind = "restore" THEN Put(blobs, job.hash, job.bytes) ELSE blobs
  /\ job' = Absent
  /\ UNCHANGED <<tenant, bytes, snapshots, misfiled, torn, ops>>

\* The database fails, or the request is dropped, before the row is written.
RowNotWritten ==
  /\ job # Absent /\ ops < MaxOps /\ ops' = ops + 1
  /\ job' = Absent /\ torn' = TRUE
  /\ UNCHANGED <<tenant, bytes, current, versions, blobs, snapshots, misfiled>>

-----------------------------------------------------------------------------
(* Snapshots, trash, exchange, host and index *)

\* prune_vault_snapshots: the newest max_snapshots stay.
PruneSnapshots(all) == IF Len(all) > MaxSnapshots THEN Tail(all) ELSE all

\* create_vault_snapshot, in one transaction: what list_files_scoped shows
Snapshot == Append(snapshots, current)

\* create_snapshot: taken, then pruned
CreateSnapshot ==
  /\ Request
  /\ snapshots' = PruneSnapshots(Snapshot)
  /\ UNCHANGED <<tenant, bytes, current, versions, blobs, job, misfiled, torn>>

\* exchange_state puts the file into the trash; its bytes stay where they are.
TombstoneRow ==
  /\ Request
  /\ LiveRow
  /\ current' = [current EXCEPT !.deleted = TRUE]
  /\ UNCHANGED <<tenant, bytes, versions, blobs, snapshots, job, misfiled, torn>>

\* DELETE FROM files .. AND deleted = 1: the row goes, its versions, blobs and
\* bytes stay.
RowPurged ==
  /\ InTrash
  /\ current' = Absent
  /\ torn' = (torn \/ versions # {})
  /\ UNCHANGED <<tenant, bytes, versions, blobs, snapshots, job, misfiled>>

\* delete_trash: one path; empty_trash: all of a vault
DeleteTrash == Request /\ RowPurged
EmptyTrash == Request /\ RowPurged

\* Once its age is past the retention a row goes when the trash is listed, or
\* by the hourly task, if the control database has a trashed row of its tenant.
ListTrash == Request /\ RowPurged
ScheduledPrune == Request /\ RowPurged

\* The file is changed or removed on the host.
HostChange(content) ==
  /\ ops < MaxOps /\ ops' = ops + 1
  /\ bytes # content
  /\ bytes' = content
  /\ UNCHANGED <<tenant, current, versions, blobs, snapshots, job, misfiled, torn>>

\* The index brings the row in line with the file and leaves its number alone.
IndexRow ==
  /\ ~tenant
  /\ current' = IF bytes # Absent
                THEN Row(bytes, FALSE, IF current = Absent THEN 0 ELSE current.vid)
                ELSE IF current = Absent THEN Absent ELSE [current EXCEPT !.deleted = TRUE]
  /\ current' # current
  /\ job' = IF job = Absent THEN Absent ELSE [job EXCEPT !.raced = TRUE]
  /\ UNCHANGED <<tenant, bytes, versions, blobs, snapshots, misfiled, torn, ops>>

HistoryNext ==
  \/ \E h \in Bodies : Upload(h)
  \/ \E v \in versions : RestoreVersion(v)
  \/ RestoreTrash
  \/ \E i \in DOMAIN snapshots : RestoreSnapshot(i)
  \/ RecordVersion \/ WriteFileRow \/ RowNotWritten
  \/ CreateSnapshot \/ TombstoneRow
  \/ DeleteTrash \/ EmptyTrash \/ ListTrash \/ ScheduledPrune
  \/ \E content \in Bodies \cup {Absent} : HostChange(content)
  \/ IndexRow

HistorySpec == HistoryInit /\ [][HistoryNext]_historyVars

-----------------------------------------------------------------------------
\* The row, the history and the snapshots, of which pruning keeps at most the limit.
HistoryTypeOK ==
  /\ tenant \in BOOLEAN /\ misfiled \in BOOLEAN /\ torn \in BOOLEAN
  /\ bytes \in Bodies \cup {Absent}
  /\ current \in RowType \cup {Absent}
  /\ versions \subseteq [vid : 1..MaxVid, hash : Bodies]
  /\ blobs \in [Bodies -> Bodies \cup {Absent}]
  /\ snapshots \in Seq(RowType \cup {Absent}) /\ Len(snapshots) <= MaxSnapshots
  /\ job = Absent \/ job \in JobType
  /\ ops \in 0..MaxOps

\* Every blob is the content its hash names, and a restore puts back exactly
\* what was recorded, unless a file was archived under a row that did not
\* describe it or a restore fell back on the version with the same number
\* ("Content-addressed blob store for version history", content_store.rs:1).
BlobsGenuine ==
  \/ misfiled
  \/ /\ \A h \in Bodies : blobs[h] \in {Absent, h}
     /\ job # Absent => job.bytes = job.hash

\* The numbers in the history are smaller than the number of the row, so that
\* the next change finds its number free; purging a trashed file or failing
\* between the history and the row breaks this (versions.rs).
HistoryBelowCurrent ==
  job = Absent /\ current # Absent /\ ~torn => \A v \in versions : v.vid < VersionId(current)

\* What an upload or a restore replaces is in the history when its row is
\* written: it is numbered just below the row and pruned after all others.
\* (Not so when the index wrote the new hash into the row first, or when the
\* numbers are already out of step.)
SupersededKept ==
  ( /\ job # Absent /\ job' = Absent /\ current' # current
    /\ ~job.raced /\ ~torn /\ Superseded(job.prior, job.hash)
    => \/ \E v \in versions' : v.hash = job.prior.hash /\ v.vid = current'.vid - 1
       \/ versions' = {})

\* Nothing of a file's history is lost or mislabelled, however uploads, restores,
\* deletions, pruning and the index interleave or fail half-way (versions.rs,
\* content_store.rs, trash.rs, snapshots.rs).
HistorySound ==
  [][SupersededKept /\ HistoryTypeOK' /\ BlobsGenuine' /\ HistoryBelowCurrent']_historyVars
=============================================================================
