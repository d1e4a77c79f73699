---------------------------- MODULE OwnerJournal ----------------------------
(***************************************************************************)
(* The file journal of owner outcomes (crates/disk-personal/src/           *)
(* parent_journal.rs): one file per effect lease, written under a pending  *)
(* name, synced, renamed to its final one, and the directory synced.       *)
(* Writers hold a non-blocking lock; a pending file refuses every later    *)
(* scan.                                                                   *)
(***************************************************************************)
EXTENDS Naturals, FiniteSets

CONSTANTS
  Writers,        \* processes
  Leases,         \* effect leases
  OutcomesOJ,     \* outcomes, each with its receipt id and sequence
  MaxRecordsOJ,   \* MAX_RECORDS
  MaxOJ,          \* bound on calls and crashes
  NoOJ

\* A file of the journal: whose outcome, and whether all of it is there.
Contained == [outcome : OutcomesOJ, whole : BOOLEAN]

ASSUME JournalAssumption == NoOJ \notin Contained /\ MaxOJ \in Nat /\ MaxRecordsOJ \in Nat

VARIABLES
  pendingFile,  \* <lease>.pending: the outcome, and how much of it is there
  jsonFile,     \* <lease>.json: likewise
  fileSynced,   \* leases whose file was synced
  dirSynced,    \* leases whose final name was synced
  holder,       \* who holds writer.lock
  recording,    \* record under way
  answered,     \* history: what callers were told is Recorded
  ojOps

ojVars == <<pendingFile, jsonFile, fileSynced, dirSynced, holder, recording, answered, ojOps>>

JournalInit ==
  /\ pendingFile = [l \in Leases |-> NoOJ] /\ jsonFile = [l \in Leases |-> NoOJ]
  /\ fileSynced = {} /\ dirSynced = {}
  /\ holder = NoOJ /\ recording = NoOJ
  /\ answered = {} /\ ojOps = 0

OjTick == ojOps < MaxOJ /\ ojOps' = ojOps + 1

\* Journal::scan: Pending if anything is pending, Corrupt if a record is short
ScanPending == \E l \in Leases : pendingFile[l] # NoOJ
ScanCorrupt == \E l \in Leases : jsonFile[l] # NoOJ /\ ~jsonFile[l].whole
ScanRecords == {l \in Leases : jsonFile[l] # NoOJ}

\* Journal::record: another outcome under the lease, or the receipt and
\* sequence of another lease's outcome
Conflicting(l, o) ==
  \/ jsonFile[l] # NoOJ /\ jsonFile[l].outcome # o
  \/ \E k \in ScanRecords \ {l} : jsonFile[k].outcome = o

\* Journal::lock, scan and the comparison.  The lock is refused, not waited for,
\* when another process has it; a record that is there already is answered
\* Existing, which promises nothing; all other refusals leave no trace.
LockAndScan(w, l, o) ==
  /\ OjTick
  /\ holder = NoOJ /\ recording = NoOJ
  /\ ~ScanPending /\ ~ScanCorrupt /\ ~Conflicting(l, o)
  /\ jsonFile[l] = NoOJ
  /\ Cardinality(ScanRecords) < MaxRecordsOJ
  /\ holder' = w
  /\ recording' = [lease |-> l, outcome |-> o, at |-> "create"]
  /\ UNCHANGED <<pendingFile, jsonFile, fileSynced, dirSynced, answered>>

OjAt(pc) == recording # NoOJ /\ recording.at = pc
OjTo(pc) == recording' = [recording EXCEPT !.at = pc]

\* record: open <lease>.pending with CREATE and EXCL, write_all
CreatePending ==
  /\ OjAt("create")
  /\ pendingFile' = [pendingFile EXCEPT ![recording.lease] =
                       [outcome |-> recording.outcome, whole |-> FALSE]]
  /\ OjTo("write")
  /\ UNCHANGED <<jsonFile, fileSynced, dirSynced, holder, answered, ojOps>>

WritePending ==
  /\ OjAt("write")
  /\ pendingFile' = [pendingFile EXCEPT ![recording.lease].whole = TRUE]
  /\ OjTo("sync")
  /\ UNCHANGED <<jsonFile, fileSynced, dirSynced, holder, answered, ojOps>>

\* Mutant of SyncPending: the file is not synced.
SyncPendingNot ==
  /\ OjAt("sync") /\ OjTo("rename")
  /\ UNCHANGED <<pendingFile, jsonFile, fileSynced, dirSynced, holder, answered, ojOps>>

\* record: sync_all
SyncPending ==
  /\ OjAt("sync")
  /\ fileSynced' = fileSynced \cup {recording.lease}
  /\ OjTo("rename")
  /\ UNCHANGED <<pendingFile, jsonFile, dirSynced, holder, answered, ojOps>>

\* record: renameat2, NOREPLACE
RenameFinal ==
  /\ OjAt("rename")
  /\ LET l == recording.lease
     IN  /\ jsonFile' = [jsonFile EXCEPT ![l] = pendingFile[l]]
         /\ pendingFile' = [pendingFile EXCEPT ![l] = NoOJ]
  /\ OjTo("dir")
  /\ UNCHANGED <<fileSynced, dirSynced, holder, answered, ojOps>>

\* record: the directory is synced, the caller told, the lock dropped
SyncJournalDir ==
  /\ OjAt("dir")
  /\ dirSynced' = dirSynced \cup {recording.lease}
  /\ answered' = answered \cup {<<recording.lease, recording.outcome>>}
  /\ recording' = NoOJ /\ holder' = NoOJ
  /\ UNCHANGED <<pendingFile, jsonFile, fileSynced, ojOps>>

\* Any step may fail: the partial file is retained, never removed or retried
RecordFails ==
  /\ recording # NoOJ
  /\ recording' = NoOJ /\ holder' = NoOJ
  /\ UNCHANGED <<pendingFile, jsonFile, fileSynced, dirSynced, answered, ojOps>>

WithFileOJ == {l \in Leases : pendingFile[l] # NoOJ \/ jsonFile[l] # NoOJ}

\* Power is lost: unsynced data may be short, an unsynced rename may be undone,
\* an unsynced creation may be gone
PowerLoss ==
  /\ OjTick
  /\ recording' = NoOJ /\ holder' = NoOJ
  /\ \E undone \in SUBSET (ScanRecords \ dirSynced),
        gone \in SUBSET WithFileOJ, short \in SUBSET (WithFileOJ \ fileSynced) :
       LET left(l, f) == [f EXCEPT !.whole = @ /\ l \notin short]
       IN  /\ jsonFile' = [l \in Leases |-> IF jsonFile[l] = NoOJ \/ l \in undone THEN NoOJ
                                            ELSE left(l, jsonFile[l])]
           /\ pendingFile' = [l \in Leases |->
                IF l \in gone THEN NoOJ
                ELSE IF l \in undone THEN left(l, jsonFile[l])
                ELSE IF pendingFile[l] = NoOJ THEN NoOJ ELSE left(l, pendingFile[l])]
  /\ fileSynced' = {l \in fileSynced : jsonFile'[l] # NoOJ \/ pendingFile'[l] # NoOJ}
  /\ UNCHANGED <<dirSynced, answered>>

JournalNext ==
  \/ \E w \in Writers, l \in Leases, o \in OutcomesOJ : LockAndScan(w, l, o)
  \/ CreatePending \/ WritePending \/ SyncPending \/ RenameFinal \/ SyncJournalDir
  \/ RecordFails \/ PowerLoss

JournalSpec == JournalInit /\ [][JournalNext]_ojVars

-----------------------------------------------------------------------------
(* A final name always has the whole record, and no receipt or sequence is *)
(* under two leases: neither a failure nor a loss of power makes the       *)
(* journal corrupt (record, scan).                                         *)
JournalNeverCorrupt ==
  /\ ~ScanCorrupt
  /\ \A k, l \in ScanRecords : jsonFile[k].outcome = jsonFile[l].outcome => k = l

(* What record answered as Recorded stays recorded under its lease, over   *)
(* losses of power too.                                                    *)
RecordedStays ==
  \A a \in answered : jsonFile[a[1]] # NoOJ /\ jsonFile[a[1]].outcome = a[2]

(* The journal is readable and keeps what it answered for, over any        *)
(* failures and losses of power (record, scan).                            *)
JournalSound == JournalNeverCorrupt /\ RecordedStays
=============================================================================
