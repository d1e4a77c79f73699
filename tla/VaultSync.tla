----------------------------- MODULE VaultSync ------------------------------
(***************************************************************************)
(* One share kept in step between a server and its clients.                *)
(*                                                                         *)
(* Server: exchange_state, delta_upload and delta_download of              *)
(* crates/disk-server/src/services/sync.rs and the index of the share root *)
(* kept by crates/disk-server/src/share_index/mod.rs.                      *)
(* Client: RemoteSync::execute of                                          *)
(* crates/disk-client/src/sync_loop/wire.rs and apply_conflict of          *)
(* crates/disk-client/src/conflict_writer.rs.                              *)
(*                                                                         *)
(* A content is the set of edits that went into it, so a merge is a union  *)
(* and "an edit is lost" can be said.  blake3 is taken to be injective, so *)
(* a content is its own hash.  Every await between two accesses to shared  *)
(* state separates two actions; what happens between two awaits is one.    *)
(***************************************************************************)
EXTENDS Reconciler, FiniteSets

CONSTANTS
  Clients,    \* enrolled nodes that sync the share
  Paths,      \* paths in the share
  Edits,      \* edits the users make, each of them once
  Server,     \* the server's node id, the only one that ever ticks
  Role,       \* the role the server's ACL gives each client
  Declared,   \* the direction each client's disk.toml declares
  Env,        \* what users, the host's operators and the watcher do
  Faults      \* which operations may fail

Roles == {"bidirectional", "receive_only", "send_only", "publisher"}

ASSUME ShareAssumption ==
  /\ Hashes = SUBSET Edits
  /\ Server \in Nodes /\ Server \notin Clients
  /\ None \notin Hashes \cup Paths \cup Clients \cup Nodes
  /\ None \notin [path : Paths, bytes : Hashes]
  /\ Role \in [Clients -> Roles] /\ Declared \in [Clients -> Roles]

WriteRoles == {"bidirectional", "send_only", "publisher"}   \* WRITE_ROLES
ReadRoles  == {"bidirectional", "receive_only"}             \* READ_ROLES

VARIABLES
  \* the server
  row,          \* MetaDb `files` row of each path
  disk,         \* bytes under the share root
  archive,      \* .version-blobs: the bytes filed under each hash
  baseline,     \* node_baselines: what the server thinks each client holds
  conflictRows, \* conflict records: who was told of a conflict on which path
  events,       \* paths with a file event the index has not processed
  \* the clients
  local,        \* bytes under the client's scan root
  forks,        \* conflict copies beside a path
  mergeBase,    \* last downloaded version: client baseline and blob cache
  \* the cycle a client is in
  pc,           \* how far RemoteSync::execute and its exchange_state have got
  snap,         \* the files the scan found, sent to the server
  plan,         \* the rows exchange_state read and the actions it computed
  resp,         \* the part of the response not applied yet
  staged,       \* an upload whose bytes are on the server's disk, row not written
  held,         \* a conflict whose two versions have been read, not resolved
  \* history
  author,       \* who made an edit
  dropped,      \* edits in files a user or operator deleted
  bin,          \* the user's last deleted version of a path, to be restored
  deletes,      \* paths a user deleted since the server last judged them
  claims        \* the deletions the snapshot in flight reports

serverVars == <<row, disk, archive, baseline, conflictRows, events>>
clientVars == <<local, forks, mergeBase>>
cycleVars  == <<pc, snap, plan, resp, staged, held>>
history    == <<author, dropped, bin, deletes, claims>>
vars == <<serverVars, clientVars, cycleVars, history>>

MaybeHash == Hashes \cup {None}
NoFiles   == [p \in Paths |-> None]
NoResp    == [up |-> {}, down |-> NoFiles, conf |-> NoFiles, del |-> {}]
NoPlan    == [p \in Paths |-> [act |-> Make("Skip"), srv |-> None]]

Live(content)  == [hash |-> content, deleted |-> FALSE, clock |-> ZeroClock]
Buried(m)      == [m EXCEPT !.deleted = TRUE]

Init ==
  /\ row = NoFiles /\ disk = NoFiles /\ archive = [h \in Hashes |-> None]
  /\ baseline = [c \in Clients |-> NoFiles]
  /\ conflictRows = {} /\ events = {}
  /\ local = [c \in Clients |-> NoFiles]
  /\ forks = [c \in Clients |-> [p \in Paths |-> {}]]
  /\ mergeBase = [c \in Clients |-> NoFiles]
  /\ pc = [c \in Clients |-> "idle"]
  /\ snap = [c \in Clients |-> NoFiles]
  /\ plan = [c \in Clients |-> NoPlan]
  /\ resp = [c \in Clients |-> NoResp]
  /\ staged = [c \in Clients |-> None]
  /\ held = [c \in Clients |-> None]
  /\ author = [e \in Edits |-> None]
  /\ dropped = {}
  /\ bin = [c \in Clients |-> NoFiles]
  /\ deletes = [c \in Clients |-> {}]
  /\ claims = [c \in Clients |-> {}]

-----------------------------------------------------------------------------
(* Users and operators *)

\* The content of a file after one more edit; a missing file is created.
With(content, e) == IF content = None THEN {e} ELSE content \cup {e}

UserEdit(c, p, e) ==
  /\ author[e] = None
  /\ author' = [author EXCEPT ![e] = c]
  /\ local' = [local EXCEPT ![c][p] = With(@, e)]
  /\ deletes' = [deletes EXCEPT ![c] = @ \ {p}]
  /\ UNCHANGED <<serverVars, forks, mergeBase, cycleVars, dropped, bin, claims>>

UserDelete(c, p) ==
  /\ "delete" \in Env
  /\ local[c][p] # None
  /\ local' = [local EXCEPT ![c][p] = None]
  /\ dropped' = dropped \cup local[c][p]
  /\ bin' = [bin EXCEPT ![c][p] = local[c][p]]
  /\ deletes' = [deletes EXCEPT ![c] = @ \cup {p}]
  /\ UNCHANGED <<serverVars, forks, mergeBase, cycleVars, author, claims>>

\* The user puts a deleted file back with the content it had.
UserUndelete(c, p) ==
  /\ "undelete" \in Env
  /\ local[c][p] = None /\ bin[c][p] # None
  /\ local' = [local EXCEPT ![c][p] = bin[c][p]]
  /\ bin' = [bin EXCEPT ![c][p] = None]
  /\ dropped' = dropped \ bin[c][p]
  /\ deletes' = [deletes EXCEPT ![c] = @ \ {p}]
  /\ UNCHANGED <<serverVars, forks, mergeBase, cycleVars, author, claims>>

\* Share roots are also edited on the host itself (rsync, git, an agent).
HostEdit(p, e) ==
  /\ "host" \in Env
  /\ author[e] = None
  /\ author' = [author EXCEPT ![e] = Server]
  /\ disk' = [disk EXCEPT ![p] = With(@, e)]
  /\ events' = events \cup {p}
  /\ UNCHANGED <<row, archive, baseline, conflictRows, clientVars, cycleVars,
                 dropped, bin, deletes, claims>>

HostDelete(p) ==
  /\ "host" \in Env
  /\ disk[p] # None
  /\ disk' = [disk EXCEPT ![p] = None]
  /\ dropped' = dropped \cup disk[p]
  /\ events' = events \cup {p}
  /\ UNCHANGED <<row, archive, baseline, conflictRows, clientVars, cycleVars,
                 author, bin, deletes, claims>>

-----------------------------------------------------------------------------
(* The index of the share root *)

\* upsert_local_file: the row is rebuilt from the bytes, with an empty clock.
\* tombstone_local_file: the row is kept and marked; with no row to keep, the
\* tombstone carries the all-zero hash, which no content has.
ZeroHash == {}
UpsertLocalFile(p)    == Live(disk[p])
TombstoneLocalFile(p) == Buried(IF row[p] # None THEN row[p] ELSE Live(ZeroHash))

\* run_index_loop: a remove event is believed only when the file is gone.
IndexEvent(p) ==
  /\ "watch" \in Env
  /\ p \in events
  /\ row' = [row EXCEPT ![p] = IF disk[p] # None THEN UpsertLocalFile(p)
                                                 ELSE TombstoneLocalFile(p)]
  /\ events' = events \ {p}
  /\ UNCHANGED <<disk, archive, baseline, conflictRows, clientVars, cycleVars, history>>

\* full_reconcile, at boot and after the event channel overflowed: every file
\* on disk is upserted, whatever its row says; rows without a file are buried.
FullReconcile ==
  /\ "reconcile" \in Env
  /\ row' = [p \in Paths |-> IF disk[p] # None THEN UpsertLocalFile(p)
                             ELSE IF row[p] # None THEN TombstoneLocalFile(p) ELSE None]
  /\ UNCHANGED <<disk, archive, baseline, conflictRows, events, clientVars, cycleVars, history>>

-----------------------------------------------------------------------------
(* A cycle: scan and exchange_state *)

\* FileScanner::scan; an error anywhere in the walk yields an empty list.
Scan(c) ==
  /\ pc[c] = "idle"
  /\ \/ snap' = [snap EXCEPT ![c] = local[c]]
     \/ "scan" \in Faults /\ snap' = [snap EXCEPT ![c] = NoFiles]
  /\ pc' = [pc EXCEPT ![c] = "scanned"]
  /\ claims' = [claims EXCEPT ![c] = deletes[c]]
  /\ UNCHANGED <<serverVars, clientVars, plan, resp, staged, held,
                 author, dropped, bin, deletes>>

\* The client reports live files only, and its clocks never tick.
ClientMeta(c, p) == IF snap[c][p] = None THEN None ELSE Live(snap[c][p])

ReceiveOnly(c) == Role[c] = "receive_only"

\* exchange_state up to its last read: rows, baseline, reconcile.  Conflicts
\* are recorded, except for a receive-only caller.
ExchangePlan(c) ==
  /\ pc[c] = "scanned"
  /\ LET decided == [p \in Paths |->
           [act |-> ResolveOne(row[p], ClientMeta(c, p), baseline[c][p]), srv |-> row[p]]]
     IN  /\ plan' = [plan EXCEPT ![c] = decided]
         /\ conflictRows' = conflictRows \cup
              {<<c, p>> : p \in {q \in Paths : decided[q].act.action = "ConflictFork"
                                               /\ ~ReceiveOnly(c)}}
  /\ pc' = [pc EXCEPT ![c] = "planned"]
  /\ UNCHANGED <<row, disk, archive, baseline, events, clientVars,
                 snap, resp, staged, held, history>>

Planned(c, action) == {p \in Paths : plan[c][p].act.action = action}

\* Mutant of Buries: exchange_state forgets to record deletions in its rows.
BuriesNothing(c) == {}

\* The rows a DeleteLocal turns into tombstones.
Buries(c) == {p \in Planned(c, "DeleteLocal") :
                 plan[c][p].srv # None /\ ~plan[c][p].srv.deleted}

\* exchange_state, second part: the row read earlier is written back as a
\* tombstone.  The bytes stay under the share root.
ExchangeTombstone(c) ==
  /\ pc[c] = "planned"
  /\ row' = [p \in Paths |-> IF p \in Buries(c) THEN Buried(plan[c][p].srv) ELSE row[p]]
  /\ pc' = [pc EXCEPT ![c] = "tombstoned"]
  /\ UNCHANGED <<disk, archive, baseline, conflictRows, events, clientVars,
                 snap, plan, resp, staged, held, history>>

\* Mutant of PostSyncBaseline: a Skip baselines what the client reported.
PostSyncBaselineOfClient(c, p) ==
  LET act == plan[c][p].act.action
      srv == plan[c][p].srv
  IN  CASE act = "Upload" /\ srv # None -> srv
        [] act \in {"Download", "Skip"} -> ClientMeta(c, p)
        [] act \in {"DeleteLocal", "DeleteRemote"} /\ srv # None -> Buried(srv)
        [] OTHER -> baseline[c][p]

\* build_post_sync_baseline for one path; a path it omits keeps its old entry.
PostSyncBaseline(c, p) ==
  LET act == plan[c][p].act.action
      srv == plan[c][p].srv
  IN  CASE act \in {"Upload", "Skip"} /\ srv # None -> srv
        [] act = "Download" -> ClientMeta(c, p)
        [] act \in {"DeleteLocal", "DeleteRemote"} /\ srv # None -> Buried(srv)
        [] OTHER -> baseline[c][p]

\* Mutant of DownloadMeta: the server's row is sent, so that the older version
\* the server holds passes the hash check and replaces a newer local file.
DownloadMetaOfServer(c, p) == plan[c][p].srv

\* The metadata sent with a to_download entry: action.server_version is the
\* client's own metadata whenever the client reported the path.
DownloadMeta(c, p) == IF ClientMeta(c, p) # None THEN ClientMeta(c, p) ELSE plan[c][p].srv

\* The response: server actions seen from the client.
Response(c) ==
  LET forked == Planned(c, "ConflictFork")
  IN  [up   |-> IF ReceiveOnly(c) THEN {} ELSE Planned(c, "Download"),
       down |-> [p \in Paths |->
                   IF p \in Planned(c, "Upload") THEN DownloadMeta(c, p).hash
                   ELSE IF p \in forked /\ ReceiveOnly(c) THEN plan[c][p].srv.hash
                   ELSE None],
       conf |-> [p \in Paths |->
                   IF p \in forked /\ ~ReceiveOnly(c) THEN plan[c][p].srv.hash ELSE None],
       del  |-> Planned(c, "DeleteLocal") \cup Planned(c, "DeleteRemote")]

\* exchange_state, last part: the baseline is written, then the response is
\* returned, and may be lost on the way.
ExchangeRespond(c) ==
  /\ pc[c] = "tombstoned"
  /\ baseline' = [baseline EXCEPT ![c] = [p \in Paths |-> PostSyncBaseline(c, p)]]
  /\ deletes' = [deletes EXCEPT ![c] = @ \ claims[c]]
  /\ \/ /\ resp' = [resp EXCEPT ![c] = Response(c)]
        /\ pc' = [pc EXCEPT ![c] = "apply"]
     \/ /\ "response" \in Faults
        /\ pc' = [pc EXCEPT ![c] = "idle"]
        /\ UNCHANGED resp
  /\ plan' = [plan EXCEPT ![c] = NoPlan]
  /\ snap' = [snap EXCEPT ![c] = NoFiles]
  /\ claims' = [claims EXCEPT ![c] = {}]
  /\ UNCHANGED <<row, disk, archive, conflictRows, events, clientVars, staged, held,
                 author, dropped, bin>>

-----------------------------------------------------------------------------
(* A cycle: applying the response, phase by phase *)

Uploading(c)   == pc[c] = "apply"
Downloading(c) == Uploading(c) /\ resp[c].up = {} /\ staged[c] = None
Resolving(c)   == Downloading(c) /\ resp[c].down = NoFiles
Deleting(c)    == Resolving(c) /\ resp[c].conf = NoFiles /\ held[c] = None

\* Mutant of RefusesUploads: the client obeys every upload request.
RefusesNoUploads(c) == FALSE

\* uploads_suppressed
RefusesUploads(c) == Declared[c] = "receive_only"

\* The entry is dropped without an upload: the share is declared receive-only,
\* the local file cannot be read, the server refuses, or the transfer fails.
UploadSkipped(c, p) ==
  /\ Uploading(c) /\ staged[c] = None /\ p \in resp[c].up
  /\ \/ RefusesUploads(c)
     \/ local[c][p] = None
     \/ Role[c] \notin WriteRoles
     \/ "upload" \in Faults
  /\ resp' = [resp EXCEPT ![c].up = @ \ {p}]
  /\ UNCHANGED <<serverVars, clientVars, pc, snap, plan, staged, held, history>>

\* VersionBlobStore::put: the bytes the upload replaces are filed under the hash
\* of the row, deleted or not; what is already filed there is kept.
Archived(p) == IF row[p] # None /\ disk[p] # None /\ archive[row[p].hash] = None
               THEN [archive EXCEPT ![row[p].hash] = disk[p]] ELSE archive

\* Mutant of UploadBytes: the superseded bytes are not archived.
UploadBytesUnarchived(c, p) ==
  /\ Uploading(c) /\ staged[c] = None /\ p \in resp[c].up
  /\ ~RefusesUploads(c) /\ local[c][p] # None /\ Role[c] \in WriteRoles
  /\ disk' = [disk EXCEPT ![p] = local[c][p]]
  /\ events' = events \cup {p}
  /\ staged' = [staged EXCEPT ![c] = [path |-> p, bytes |-> local[c][p]]]
  /\ resp' = [resp EXCEPT ![c].up = @ \ {p}]
  /\ UNCHANGED <<row, archive, baseline, conflictRows, clientVars, pc, snap, plan, held, history>>

\* delta_upload up to the rename: the bytes are the file's bytes now, not those
\* of the scan; the version they replace is archived, and an error of that
\* (the row cannot be read, the blob cannot be written) is ignored.
UploadBytes(c, p) ==
  /\ Uploading(c) /\ staged[c] = None /\ p \in resp[c].up
  /\ ~RefusesUploads(c) /\ local[c][p] # None /\ Role[c] \in WriteRoles
  /\ \/ archive' = Archived(p)
     \/ "archive" \in Faults /\ UNCHANGED archive
  /\ disk' = [disk EXCEPT ![p] = local[c][p]]
  /\ events' = events \cup {p}
  /\ staged' = [staged EXCEPT ![c] = [path |-> p, bytes |-> local[c][p]]]
  /\ resp' = [resp EXCEPT ![c].up = @ \ {p}]
  /\ UNCHANGED <<row, baseline, conflictRows, clientVars, pc, snap, plan, held, history>>

\* Mutant of UploadedMeta: the clock of the row is not advanced.
UploadedMetaUnticked(bytes) == Live(bytes)

\* The row of an uploaded file: a fresh clock with one tick of the server.
UploadedMeta(bytes) ==
  [hash |-> bytes, deleted |-> FALSE, clock |-> Advance(ZeroClock, Server)]

\* delta_upload after the rename: the row.  A failing upsert is not reported.
UploadRow(c) ==
  /\ staged[c] # None
  /\ \/ row' = [row EXCEPT ![staged[c].path] = UploadedMeta(staged[c].bytes)]
     \/ "upsert" \in Faults /\ UNCHANGED row
  /\ staged' = [staged EXCEPT ![c] = None]
  /\ UNCHANGED <<disk, archive, baseline, conflictRows, events, clientVars,
                 pc, snap, plan, resp, held, history>>

\* Mutant of WireHashMatches: the expected hash is compared with another hash.
WireHashNeverMatches(p, expected) == FALSE

\* from_wire_bytes accepts the server's bytes when their hash is the expected one.
WireHashMatches(p, expected) == disk[p] = expected

\* The file replaces whatever is at the path; it becomes the merge base.
DownloadInstalled(c, p) ==
  /\ Downloading(c) /\ resp[c].down[p] # None
  /\ Role[c] \in ReadRoles /\ disk[p] # None /\ WireHashMatches(p, resp[c].down[p])
  /\ local' = [local EXCEPT ![c][p] = disk[p]]
  /\ mergeBase' = [mergeBase EXCEPT ![c][p] = disk[p]]
  /\ deletes' = [deletes EXCEPT ![c] = @ \ {p}]
  /\ resp' = [resp EXCEPT ![c].down[p] = None]
  /\ UNCHANGED <<serverVars, forks, pc, snap, plan, staged, held,
                 author, dropped, bin, claims>>

DownloadSkipped(c, p) ==
  /\ Downloading(c) /\ resp[c].down[p] # None
  /\ \/ Role[c] \notin ReadRoles
     \/ disk[p] = None
     \/ ~WireHashMatches(p, resp[c].down[p])
     \/ "download" \in Faults
  /\ resp' = [resp EXCEPT ![c].down[p] = None]
  /\ UNCHANGED <<serverVars, clientVars, pc, snap, plan, staged, held, history>>

\* The local bytes are read, then the server's are fetched.
ConflictRead(c, p) ==
  /\ Resolving(c) /\ held[c] = None /\ resp[c].conf[p] # None
  /\ local[c][p] # None /\ Role[c] \in ReadRoles /\ WireHashMatches(p, resp[c].conf[p])
  /\ held' = [held EXCEPT ![c] = [path |-> p, ours |-> local[c][p], theirs |-> disk[p]]]
  /\ resp' = [resp EXCEPT ![c].conf[p] = None]
  /\ UNCHANGED <<serverVars, clientVars, pc, snap, plan, staged, history>>

ConflictSkipped(c, p) ==
  /\ Resolving(c) /\ held[c] = None /\ resp[c].conf[p] # None
  /\ \/ local[c][p] = None
     \/ Role[c] \notin ReadRoles
     \/ ~WireHashMatches(p, resp[c].conf[p])
     \/ "download" \in Faults
  /\ resp' = [resp EXCEPT ![c].conf[p] = None]
  /\ UNCHANGED <<serverVars, clientVars, pc, snap, plan, staged, held, history>>

\* apply_conflict: a clean three-way merge needs a base and replaces the live
\* file; otherwise the server's version is written beside it.  On a share
\* declared receive-only the server's version replaces the live file.
ConflictApply(c) ==
  /\ held[c] # None
  /\ LET p == held[c].path
         ServerWins == /\ Declared[c] = "receive_only"
                       /\ local' = [local EXCEPT ![c][p] = held[c].theirs]
                       /\ UNCHANGED forks
         Merged == /\ Declared[c] # "receive_only"
                   /\ mergeBase[c][p] # None
                   /\ local' = [local EXCEPT ![c][p] = held[c].ours \cup held[c].theirs]
                   /\ UNCHANGED forks
         Forked == /\ Declared[c] # "receive_only"
                   /\ forks' = [forks EXCEPT ![c][p] = @ \cup {held[c].theirs}]
                   /\ UNCHANGED local
     IN  ServerWins \/ Merged \/ Forked
  /\ held' = [held EXCEPT ![c] = None]
  /\ UNCHANGED <<serverVars, mergeBase, pc, snap, plan, resp, staged, history>>

\* A to_delete entry: the local file is removed, whatever it contains by now.
DeleteApply(c, p) ==
  /\ Deleting(c) /\ p \in resp[c].del
  /\ local' = [local EXCEPT ![c][p] = None]
  /\ mergeBase' = [mergeBase EXCEPT ![c][p] = None]
  /\ resp' = [resp EXCEPT ![c].del = @ \ {p}]
  /\ UNCHANGED <<serverVars, forks, pc, snap, plan, staged, held, history>>

\* The file cannot be removed; no tombstone is recorded for it.
DeleteSkipped(c, p) ==
  /\ "remove" \in Faults
  /\ Deleting(c) /\ p \in resp[c].del
  /\ resp' = [resp EXCEPT ![c].del = @ \ {p}]
  /\ UNCHANGED <<serverVars, clientVars, pc, snap, plan, staged, held, history>>

FinishCycle(c) ==
  /\ Deleting(c) /\ resp[c].del = {}
  /\ pc' = [pc EXCEPT ![c] = "idle"]
  /\ UNCHANGED <<serverVars, clientVars, snap, plan, resp, staged, held, history>>

\* The cycle is abandoned where it stands: its deadline expires, the transport
\* breaks or the client stops.  The server drops the call at its next await.
Abandon(c) ==
  /\ "abandon" \in Faults
  /\ pc[c] # "idle"
  /\ pc' = [pc EXCEPT ![c] = "idle"]
  /\ snap' = [snap EXCEPT ![c] = NoFiles]
  /\ plan' = [plan EXCEPT ![c] = NoPlan]
  /\ resp' = [resp EXCEPT ![c] = NoResp]
  /\ staged' = [staged EXCEPT ![c] = None]
  /\ held' = [held EXCEPT ![c] = None]
  /\ claims' = [claims EXCEPT ![c] = {}]
  /\ UNCHANGED <<serverVars, clientVars, author, dropped, bin, deletes>>

Exchange(c) == Scan(c) \/ ExchangePlan(c) \/ ExchangeTombstone(c) \/ ExchangeRespond(c)

Apply(c) ==
  \/ UploadRow(c) \/ ConflictApply(c) \/ FinishCycle(c)
  \/ \E p \in Paths : \/ UploadSkipped(c, p) \/ UploadBytes(c, p)
                      \/ DownloadInstalled(c, p) \/ DownloadSkipped(c, p)
                      \/ ConflictRead(c, p) \/ ConflictSkipped(c, p)
                      \/ DeleteApply(c, p) \/ DeleteSkipped(c, p)

User(c) == \E p \in Paths : \/ \E e \in Edits : UserEdit(c, p, e)
                            \/ UserDelete(c, p)
                            \/ UserUndelete(c, p)

Host == \E p \in Paths : (\E e \in Edits : HostEdit(p, e)) \/ HostDelete(p)

Index == FullReconcile \/ \E p \in Paths : IndexEvent(p)

Next == \/ \E c \in Clients : User(c) \/ Exchange(c) \/ Apply(c) \/ Abandon(c)
        \/ Host
        \/ Index

Spec == Init /\ [][Next]_vars

\* The daemon polls every share for ever and the index task drains its channel;
\* nothing obliges users, operators or faults to act.
Fairness == /\ \A c \in Clients : WF_vars(Exchange(c)) /\ WF_vars(Apply(c))
            /\ \A p \in Paths : WF_vars(IndexEvent(p))

FairSpec == Spec /\ Fairness

-----------------------------------------------------------------------------
Pending == [up : SUBSET Paths, down : [Paths -> MaybeHash],
            conf : [Paths -> MaybeHash], del : SUBSET Paths]
Verdict == [act : [action : ActionTypes, conflict : ConflictKinds], srv : MaybeMeta]

\* The state of share, server and clients, every stage of a cycle with its own fields.
TypeOK ==
  /\ row \in [Paths -> MaybeMeta]
  /\ disk \in [Paths -> MaybeHash]
  /\ archive \in [Hashes -> MaybeHash]
  /\ baseline \in [Clients -> [Paths -> MaybeMeta]]
  /\ conflictRows \subseteq Clients \X Paths
  /\ events \subseteq Paths
  /\ local \in [Clients -> [Paths -> MaybeHash]]
  /\ forks \in [Clients -> [Paths -> SUBSET Hashes]]
  /\ mergeBase \in [Clients -> [Paths -> MaybeHash]]
  /\ pc \in [Clients -> {"idle", "scanned", "planned", "tombstoned", "apply"}]
  /\ snap \in [Clients -> [Paths -> MaybeHash]]
  /\ plan \in [Clients -> [Paths -> Verdict]]
  /\ resp \in [Clients -> Pending]
  /\ staged \in [Clients -> [path : Paths, bytes : Hashes] \cup {None}]
  /\ held \in [Clients -> [path : Paths, ours : Hashes, theirs : Hashes] \cup {None}]
  /\ author \in [Edits -> Clients \cup {Server, None}]
  /\ dropped \subseteq Edits
  /\ bin \in [Clients -> [Paths -> MaybeHash]]
  /\ deletes \in [Clients -> SUBSET Paths]
  /\ claims \in [Clients -> SUBSET Paths]

Contents(files) == {files[p] : p \in Paths} \ {None}
Blobs == {archive[h] : h \in Hashes} \ {None}
Everywhere == Contents(disk) \cup Blobs
              \cup UNION {Contents(local[c]) : c \in Clients}
              \cup UNION {UNION {forks[c][p] : p \in Paths} : c \in Clients}

\* Zero data loss: an edit that nobody deleted is still in some file, fork or
\* archived version (the invariant conflict_writer.rs is written for).
NoEditLost == \A e \in Edits : author[e] # None /\ e \notin dropped => e \in UNION Everywhere

\* The server buries a live row on behalf of a client only when that client's
\* user deleted the file and the deletion had not been judged before
\* (exchange_state: "THIS authenticated client holds delete authority").
DeleteAuthority == \A c \in Clients : pc[c] = "planned" => Buries(c) \subseteq claims[c]

\* The place in .version-blobs of the version at p is taken by other bytes: the
\* row was not that of the bytes when those were archived.
Displaced(p) == /\ row[p] # None /\ disk[p] # None
                /\ archive[row[p].hash] \notin {None, disk[p]}

StoredEdits == UNION (Blobs \cup {disk[p] : p \in {q \in Paths : row[q] # None /\ disk[q] # None}})
MayLoseStored == \/ \E p \in Paths : HostDelete(p)
                 \/ \E c \in Clients, p \in Paths :
                      UploadBytes(c, p) /\ (Displaced(p) \/ "archive" \in Faults)

\* What has been stored under a row stays in the server's storage, whatever
\* fails and whoever overwrites it: under the share root or in .version-blobs
\* (delta_upload archives the superseded bytes before the rename).  Only an
\* operator can remove it, an ignored error of the archive, and an upload over
\* bytes whose place in the archive is taken.
StoredEditKept == [][StoredEdits \subseteq StoredEdits' \/ MayLoseStored]_vars

\* An exchange buries the version it read, never one uploaded meanwhile.
BuriesWhatItRead ==
  \A c \in Clients : pc[c] = "planned" =>
    \A p \in Buries(c) : row[p] # None => row[p].hash = plan[c][p].srv.hash

\* A client that may only follow the share, by its role or by its own choice.
Follower(n) == n \in Clients /\ "receive_only" \in {Role[n], Declared[n]}

\* No edit made on a follower ever reaches the share root, by whatever route: a
\* pending upload, a merge, a fork, a restored file (DISK-0079, "a receive-only
\* share must never upload").
CanonPure == \A content \in Contents(disk) : \A e \in content : ~Follower(author[e])

\* Client c, its baseline and the share agree on path p: a live file held by
\* all three, a deletion all three know of, or a path nobody has.
Agreed(c, p) ==
  \/ /\ Present(row[p]) /\ disk[p] = row[p].hash /\ local[c][p] = disk[p]
     /\ Present(baseline[c][p]) /\ baseline[c][p].hash = row[p].hash
  \/ Tomb(row[p]) /\ local[c][p] = None /\ Tomb(baseline[c][p])
  \/ row[p] = None /\ disk[p] = None /\ local[c][p] = None /\ baseline[c][p] = None

\* Every client agrees on every path and no cycle has work left to do.
Settled ==
  /\ "watch" \in Env => events = {}
  /\ \A c \in Clients :
       /\ \A p \in Paths : Agreed(c, p)
       /\ pc[c] = "scanned" => snap[c] = local[c]
       /\ pc[c] \in {"planned", "tombstoned"} =>
            \A p \in Paths : plan[c][p] = [act |-> Make("Skip"), srv |-> row[p]]
       /\ resp[c] = NoResp /\ staged[c] = None /\ held[c] = None

\* A settled share stays settled until a user or an operator changes a file:
\* no cycle of any client, completed or cut short anywhere, and no failing
\* transfer moves it.  (A failing scan does, and so does a full reconcile of a
\* share root that still holds the bytes of a deleted file.)
SettledStable ==
  [][Settled => \/ Settled'
                \/ (\E c \in Clients : User(c)) \/ Host
                \/ FullReconcile]_vars

InStep(c) == \A p \in Paths : local[c][p] = IF Present(row[p]) THEN disk[p] ELSE None

\* Once users stop, every client ends up with the files of the share and the
\* share stops changing.
Convergence == \A c \in Clients : <>[]InStep(c)
=============================================================================
