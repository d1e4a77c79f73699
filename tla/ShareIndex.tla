----------------------------- MODULE ShareIndex -----------------------------
(***************************************************************************)
(* The index task of a share root (crates/disk-server/src/share_index):    *)
(* watcher callbacks that put events into a bounded channel and raise a    *)
(* flag when it is full, a loop that debounces and drains the channel, and *)
(* the full reconciliation that makes up for what was dropped.             *)
(*                                                                         *)
(* A row is the content hash of a live file, Deleted, or NoHash for none.  *)
(* Reading a file and writing its row are two steps: the files go on       *)
(* changing under the loop.                                                *)
(***************************************************************************)
EXTENDS Naturals, Sequences, FiniteSets, SequencesExt

CONSTANTS
  Paths,       \* files of the share root
  Moved,       \* the files of a directory that is moved away as a whole
  Contents,    \* contents of a file, which are their own hash
  NoHash,        \* no file, no row
  Deleted,     \* a row that is a tombstone
  ChannelCap,  \* capacity of the event channel
  MaxChanges   \* bound: changes, restarts and failures in a behaviour

ASSUME IndexAssumption ==
  /\ IsFiniteSet(Paths) /\ Moved \subseteq Paths
  /\ NoHash \notin Contents /\ Deleted \notin Contents /\ NoHash # Deleted
  /\ ChannelCap \in Nat \ {0} /\ MaxChanges \in Nat

VARIABLES
  root,       \* the files of the share root
  rows,       \* the `files` rows of the share
  legacy,     \* paths with a row under the legacy vault id
  channel,    \* the bounded channel of events
  saturation, \* an event did not fit, or a reconciliation was asked for
  turn,       \* where the loop is
  work,       \* events drained from the channel, or found by a reconciliation
  readings,   \* the path being processed and what its file held; or empty
  recent,     \* history: contents a file has had since its row was written
  missed,     \* history: changes that no event reported or whose row failed
  changes     \* how much has happened so far

fileVars  == <<root, recent, missed, changes>>
queueVars == <<channel, saturation>>
loopVars  == <<turn, work, readings>>
indexVars == <<fileVars, queueVars, loopVars, rows, legacy>>

Maybe == Contents \cup {NoHash}
Event(p, k) == [path |-> p, kind |-> k]

IndexInit ==
  /\ root \in [Paths -> Maybe]
  /\ rows \in [Paths -> Maybe]
  /\ legacy = {p \in Paths : rows[p] # root[p]}
  /\ channel = << >> /\ saturation = TRUE
  /\ turn = "check" /\ work = << >> /\ readings = << >>
  /\ recent = [p \in Paths |-> {root[p]}]
  /\ missed = {}
  /\ changes = 0

Happens == changes < MaxChanges /\ changes' = changes + 1

-----------------------------------------------------------------------------
(* Files and the callbacks of their watchers *)

\* Mutant of Send: an event that does not fit is dropped and forgotten.
SendQuietly(events) ==
  /\ channel' = SubSeq(channel \o events, 1, IF Len(channel \o events) < ChannelCap
                                             THEN Len(channel \o events) ELSE ChannelCap)
  /\ UNCHANGED saturation

\* make_event_handler: try_send one after the other; a full channel, or one
\* whose receiver is gone, raises the flag.
Send(events) ==
  LET room == IF turn = "dead" THEN 0 ELSE ChannelCap - Len(channel)
      fit  == IF Len(events) < room THEN Len(events) ELSE room
  IN  /\ channel' = channel \o SubSeq(events, 1, fit)
      /\ saturation' = (saturation \/ fit < Len(events))

\* The files become `now`.
BecomeFiles(now) ==
  /\ root' = now
  /\ recent' = [p \in Paths |-> recent[p] \cup {now[p]}]
  /\ Happens

\* A file is created or written in place: Create or Modify.
WriteFile(p, v) ==
  /\ root[p] # v
  /\ BecomeFiles([root EXCEPT ![p] = v])
  /\ Send(<<Event(p, "upsert")>>)
  /\ UNCHANGED <<rows, legacy, loopVars, missed>>

\* A file is removed or renamed to a place outside: Remove, or Name(From).
RemoveFile(p) ==
  /\ root[p] # NoHash
  /\ BecomeFiles([root EXCEPT ![p] = NoHash])
  /\ Send(<<Event(p, "remove")>>)
  /\ UNCHANGED <<rows, legacy, loopVars, missed>>

\* rsync or an editor renames a new version over the file: its Remove arrives
\* although the file is there.
ReplaceFile(p, v) ==
  /\ root[p] \notin {NoHash, v}
  /\ BecomeFiles([root EXCEPT ![p] = v])
  /\ Send(<<Event(p, "remove"), Event(p, "upsert")>>)
  /\ UNCHANGED <<rows, legacy, loopVars, missed>>

\* A directory is moved out of the share root: the one event names the
\* directory, and the tombstone it causes describes no file.
MoveDirectory ==
  /\ \E p \in Moved : root[p] # NoHash
  /\ BecomeFiles([p \in Paths |-> IF p \in Moved THEN NoHash ELSE root[p]])
  /\ missed' = missed \cup {p \in Moved : root[p] # NoHash}
  /\ UNCHANGED <<rows, legacy, queueVars, loopVars>>

-----------------------------------------------------------------------------
(* run_index_loop *)

CanWrite(t) == turn = t /\ readings = << >>

\* The flag is taken before the channel is looked at, and after each batch.
CheckSaturation ==
  /\ turn = "check"
  /\ turn' = IF saturation THEN "walk" ELSE "receive"
  /\ saturation' = FALSE
  /\ UNCHANGED <<fileVars, rows, legacy, channel, work, readings>>

\* The first event of a batch; the loop then sleeps for DEBOUNCE_MS.
ReceiveFirst ==
  /\ turn = "receive" /\ channel # << >>
  /\ work' = <<Head(channel)>>
  /\ channel' = Tail(channel)
  /\ turn' = "debounce"
  /\ UNCHANGED <<fileVars, rows, legacy, saturation, readings>>

\* SATURATION_POLL_INTERVAL is over.
ReceiveTimeout ==
  /\ turn = "receive" /\ channel = << >>
  /\ turn' = "check"
  /\ UNCHANGED <<fileVars, rows, legacy, queueVars, work, readings>>

\* Mutant of DrainBatch: the loop waits for the channel to become quiet.
DrainBatchWhenQuiet ==
  /\ turn = "debounce" /\ channel = << >>
  /\ turn' = "batch"
  /\ UNCHANGED <<fileVars, rows, legacy, queueVars, work, readings>>

DrainBatch ==
  /\ turn = "debounce"
  /\ work' = work \o channel
  /\ channel' = << >>
  /\ turn' = "batch"
  /\ UNCHANGED <<fileVars, rows, legacy, saturation, readings>>

\* Mutant of Found: a remove event is believed when another event follows it.
FoundBelieved(e) == IF e.kind = "remove" /\ \E i \in 2..Len(work) : work[i].path = e.path
                    THEN NoHash ELSE root[e.path]

\* What processing an event finds on disk.
Found(e) == root[e.path]

\* resolve_existing_file and resolve_present_file.  An upsert of a file that is
\* gone, and a vanished path that is there after all, leave the row alone.
ReadFile ==
  /\ CanWrite("batch") /\ work # << >>
  /\ LET e == Head(work)
         found == Found(e)
         leave == \/ e.kind = "upsert" /\ found = NoHash
                  \/ e.kind = "vanished" /\ found # NoHash
     IN  /\ readings' = IF leave THEN << >> ELSE <<[path |-> e.path, found |-> found]>>
         /\ work' = Tail(work)
  /\ UNCHANGED <<fileVars, rows, legacy, queueVars, turn>>

\* upsert_local_file and tombstone_local_file
WriteRow ==
  /\ readings # << >>
  /\ LET r == Head(readings)
     IN  /\ rows' = [rows EXCEPT ![r.path] = IF r.found = NoHash THEN Deleted ELSE r.found]
         /\ recent' = [recent EXCEPT ![r.path] = {root[r.path]}]
         /\ missed' = IF r.found = root[r.path] THEN missed \ {r.path} ELSE missed
  /\ readings' = << >>
  /\ UNCHANGED <<root, changes, legacy, queueVars, turn, work>>

\* The database refuses the row: a warning, and no second attempt.
WriteRowFails ==
  /\ readings # << >>
  /\ Happens
  /\ missed' = missed \cup {Head(readings).path}
  /\ readings' = << >>
  /\ UNCHANGED <<root, recent, rows, legacy, queueVars, turn, work>>

BatchDone ==
  /\ CanWrite("batch") /\ work = << >>
  /\ turn' = "check"
  /\ UNCHANGED <<fileVars, rows, legacy, queueVars, work, readings>>

-----------------------------------------------------------------------------
(* full_reconcile *)

\* Rows that say the file is there, of files the walk has not met.
Vanished(walked) == {p \in Paths \ walked : rows[p] \notin {NoHash, Deleted}}

\* sweep_shadowed_default_rows: what it leaves of the legacy rows.
Unshadowed == {p \in legacy : rows[p] = NoHash}

\* Phase 1: the walk and the list of rows, before anything is written.  Phase 2
\* starts with the legacy rows that shadow one of the share.
Reconcile ==
  /\ turn = "walk"
  /\ LET walked == {p \in Paths : root[p] # NoHash}
     IN  work' = SetToSeq({Event(p, "upsert") : p \in walked})
                 \o SetToSeq({Event(p, "vanished") : p \in Vanished(walked)})
  /\ legacy' = Unshadowed
  /\ turn' = "batch"
  /\ UNCHANGED <<fileVars, rows, queueVars, readings>>

\* Any error of phase 1 ends run_index_loop, and with it the task.
ReconcileFails ==
  /\ turn = "walk"
  /\ Happens
  /\ turn' = "dead"
  /\ channel' = << >>
  /\ UNCHANGED <<root, recent, missed, rows, legacy, saturation, work, readings>>

\* main: a new server arms its watchers and asks for a reconciliation.
RestartIndex ==
  /\ Happens
  /\ turn' = "check" /\ work' = << >> /\ readings' = << >>
  /\ channel' = << >> /\ saturation' = TRUE
  /\ UNCHANGED <<root, recent, missed, rows, legacy>>

Files == \/ \E p \in Paths : \/ RemoveFile(p)
                             \/ \E v \in Contents : WriteFile(p, v) \/ ReplaceFile(p, v)
         \/ MoveDirectory

LoopStep == \/ CheckSaturation \/ ReceiveFirst \/ ReceiveTimeout \/ DrainBatch
            \/ ReadFile \/ WriteRow \/ BatchDone \/ Reconcile

IndexNext == Files \/ LoopStep \/ WriteRowFails \/ ReconcileFails \/ RestartIndex

IndexSpec == IndexInit /\ [][IndexNext]_indexVars

\* tokio runs the task; nothing obliges files to change or calls to fail.
IndexFairSpec == IndexSpec /\ WF_indexVars(LoopStep)

-----------------------------------------------------------------------------
\* Files, rows and the work of the loop; the channel never exceeds its capacity.
IndexTypeOK ==
  /\ root \in [Paths -> Maybe]
  /\ rows \in [Paths -> Maybe \cup {Deleted}]
  /\ legacy \subseteq Paths /\ missed \subseteq Paths
  /\ recent \in [Paths -> SUBSET Maybe]
  /\ channel \in Seq([path : Paths, kind : {"upsert", "remove"}])
  /\ Len(channel) <= ChannelCap
  /\ saturation \in BOOLEAN
  /\ turn \in {"check", "walk", "receive", "debounce", "batch", "dead"}
  /\ work \in Seq([path : Paths, kind : {"upsert", "remove", "vanished"}])
  /\ readings \in {<< >>} \cup {<<r>> : r \in [path : Paths, found : Maybe]}
  /\ changes \in 0..MaxChanges

Served(p)  == IF rows[p] = Deleted THEN NoHash ELSE rows[p]
Aligned(p) == Served(p) = root[p]

Mentions(s, p) == \E i \in DOMAIN s : s[i].path = p

\* A row that does not describe its file is on the way to being put right: an
\* event for it waits in the channel or in the batch, or the flag or the walk
\* will find it.  So no drop, no race between reading a file and writing its
\* row, and no restart loses a change; only changes without events, rows the
\* database refused and a dead loop do ("events dropped while the channel was
\* full" are recovered, share_index/mod.rs).
StaleIsPending ==
  \A p \in Paths : Aligned(p) \/ p \in missed \/ saturation \/ turn \in {"walk", "dead"}
                   \/ Mentions(channel, p) \/ Mentions(work, p) \/ Mentions(readings, p)

Fresh == INSTANCE FreshIndex WITH entry <- [p \in Paths |-> Served(p)]
\* A row never says that a file is gone, or holds something, unless that was so
\* at a moment since the row was last written: the index refines FreshIndex.
IndexIsFresh == Fresh!FreshSpec

\* While the loop lives, every reported change reaches the rows.
IndexCatchesUp ==
  \A p \in Paths : <>[](Aligned(p) \/ p \in missed \/ turn = "dead")

=============================================================================
