--------------------------- MODULE Personal_proofs --------------------------
(***************************************************************************)
(* What runs on a person's machine beside the sync loop, for any number of *)
(* files, requests, processes, failures and crashes: for each part its     *)
(* inductive invariant, the step that keeps it, and what follows; and at   *)
(* the end what follows for the parts taken together.                      *)
(***************************************************************************)
EXTENDS MCPersonal, FiniteSetTheorems, SequenceTheorems, WellFoundedInduction, TLAPS

-----------------------------------------------------------------------------
(* The owner journal *)

JournalTypes ==
  /\ pendingFile \in [Leases -> Contained \cup {NoOJ}]
  /\ jsonFile \in [Leases -> Contained \cup {NoOJ}]

\* A final name is given to whole, synced files only, and to no outcome twice.
Finals ==
  /\ \A l \in Leases : jsonFile[l] # NoOJ => jsonFile[l].whole /\ l \in fileSynced
  /\ \A k, l \in Leases : jsonFile[k] # NoOJ /\ jsonFile[l] # NoOJ
                          /\ jsonFile[k].outcome = jsonFile[l].outcome => k = l

Call == [lease : Leases, outcome : OutcomesOJ,
         at : {"create", "write", "sync", "rename", "dir"}]

\* The call that holds the lock: what it has written so far, and that nobody else's
\* record has its outcome.
InFlight(r) ==
  /\ r \in Call
  /\ \A k \in Leases \ {r.lease} : jsonFile[k] # NoOJ => jsonFile[k].outcome # r.outcome
  /\ r.at # "dir" => jsonFile[r.lease] = NoOJ
  /\ r.at \in {"write", "sync", "rename"} => pendingFile[r.lease] \in Contained
                                           /\ pendingFile[r.lease].outcome = r.outcome
  /\ r.at \in {"sync", "rename"} => pendingFile[r.lease].whole
  /\ r.at = "rename" => r.lease \in fileSynced
  /\ r.at = "dir" => jsonFile[r.lease] # NoOJ /\ jsonFile[r.lease].outcome = r.outcome

Answers ==
  \A a \in answered : /\ a[1] \in Leases /\ a[1] \in dirSynced
                      /\ jsonFile[a[1]] # NoOJ /\ jsonFile[a[1]].outcome = a[2]

JournalInv == JournalTypes /\ Finals /\ (recording # NoOJ => InFlight(recording)) /\ Answers

-----------------------------------------------------------------------------

\* A scan of the journal under the lock starts a call for a lease and an outcome nobody has.
LEMMA LockAndScanKeeps ==
  ASSUME JournalInv, NEW w \in Writers, NEW l \in Leases, NEW o \in OutcomesOJ,
         LockAndScan(w, l, o)
  PROVE  JournalInv'
<1>1. /\ recording' = [lease |-> l, outcome |-> o, at |-> "create"]
      /\ UNCHANGED <<pendingFile, jsonFile, fileSynced, dirSynced, answered>>
      /\ jsonFile[l] = NoOJ
      /\ \A k \in Leases \ {l} : jsonFile[k] # NoOJ => jsonFile[k].outcome # o
  BY DEF LockAndScan, Conflicting, ScanRecords
<1>2. /\ recording' \in Call /\ recording'.lease = l /\ recording'.outcome = o
      /\ recording'.at = "create"
  BY <1>1 DEF Call
<1>3. InFlight(recording)'
  BY <1>1, <1>2 DEF InFlight
<1> QED
  BY <1>1, <1>3 DEF JournalInv, JournalTypes, Finals, Answers

\* A call that goes on to its next step keeps its lease and its outcome.
LEMMA CallGoesOn ==
  ASSUME NEW pc \in {"create", "write", "sync", "rename", "dir"},
         recording \in Call, OjTo(pc)
  PROVE  /\ recording' \in Call /\ recording'.at = pc
         /\ recording'.lease = recording.lease /\ recording'.outcome = recording.outcome
  BY DEF Call, OjTo

\* The pending file is created empty.
LEMMA CreatePendingKeeps ==
  ASSUME JournalInv, CreatePending
  PROVE  JournalInv'
<1> DEFINE r == recording
           f == [outcome |-> r.outcome, whole |-> FALSE]
<1>1. /\ r.at = "create" /\ InFlight(r) /\ r \in Call /\ OjTo("write")
      /\ pendingFile' = [pendingFile EXCEPT ![r.lease] = f]
      /\ UNCHANGED <<jsonFile, fileSynced, dirSynced, answered>>
  BY DEF CreatePending, OjAt, JournalInv, InFlight
<1>2. r.lease \in Leases /\ f \in Contained
  BY <1>1 DEF Call, Contained
<1>3. JournalTypes' /\ pendingFile'[r.lease] = f
  BY <1>1, <1>2 DEF JournalInv, JournalTypes
<1>4. /\ recording' \in Call /\ recording'.at = "write"
      /\ recording'.lease = r.lease /\ recording'.outcome = r.outcome
  BY <1>1, CallGoesOn
<1>5. InFlight(recording)'
  BY <1>1, <1>2, <1>3, <1>4 DEF InFlight
<1> QED
  BY <1>1, <1>3, <1>5 DEF JournalInv, Finals, Answers

\* The record is written to the pending file, or part of it.
LEMMA WritePendingKeeps ==
  ASSUME JournalInv, WritePending
  PROVE  JournalInv'
<1> DEFINE r == recording
           f == [pendingFile[r.lease] EXCEPT !.whole = TRUE]
<1>1. /\ r.at = "write" /\ InFlight(r) /\ r \in Call /\ OjTo("sync")
      /\ pendingFile' = [pendingFile EXCEPT ![r.lease] = f]
      /\ UNCHANGED <<jsonFile, fileSynced, dirSynced, answered>>
  BY DEF WritePending, OjAt, JournalInv, InFlight
<1>2. r.lease \in Leases /\ r.outcome \in OutcomesOJ
  BY <1>1 DEF Call
<1>3. f \in Contained /\ f.outcome = r.outcome /\ f.whole
  <2>1. pendingFile[r.lease] \in Contained /\ pendingFile[r.lease].outcome = r.outcome
    BY <1>1 DEF InFlight
  <2> QED
    BY <2>1 DEF Contained
<1> HIDE DEF f
<1>4. JournalTypes' /\ pendingFile'[r.lease] = f
  BY <1>1, <1>2, <1>3 DEF JournalInv, JournalTypes
<1>5. /\ recording' \in Call /\ recording'.at = "sync"
      /\ recording'.lease = r.lease /\ recording'.outcome = r.outcome
  BY <1>1, CallGoesOn
<1>6. InFlight(recording)'
  BY <1>1, <1>2, <1>3, <1>4, <1>5 DEF InFlight
<1> QED
  BY <1>1, <1>4, <1>6 DEF JournalInv, Finals, Answers

\* The pending file is synced.
LEMMA SyncPendingKeeps ==
  ASSUME JournalInv, SyncPending
  PROVE  JournalInv'
<1> DEFINE r == recording
<1>1. /\ r.at = "sync" /\ InFlight(r) /\ r \in Call /\ OjTo("rename")
      /\ fileSynced' = fileSynced \cup {r.lease}
      /\ UNCHANGED <<pendingFile, jsonFile, dirSynced, answered>>
  BY DEF SyncPending, OjAt, JournalInv, InFlight
<1>2. /\ recording' \in Call /\ recording'.at = "rename"
      /\ recording'.lease = r.lease /\ recording'.outcome = r.outcome
  BY <1>1, CallGoesOn
<1>3. InFlight(recording)'
  BY <1>1, <1>2 DEF InFlight
<1> QED
  BY <1>1, <1>3 DEF JournalInv, JournalTypes, Finals, Answers

\* Only a whole, synced file gets the final name.
LEMMA RenameFinalKeeps ==
  ASSUME JournalInv, RenameFinal
  PROVE  JournalInv'
<1> DEFINE r == recording
           f == pendingFile[r.lease]
<1>1. /\ r.at = "rename" /\ InFlight(r) /\ r \in Call /\ OjTo("dir")
      /\ jsonFile' = [jsonFile EXCEPT ![r.lease] = f]
      /\ pendingFile' = [pendingFile EXCEPT ![r.lease] = NoOJ]
      /\ UNCHANGED <<fileSynced, dirSynced, answered>>
  BY DEF RenameFinal, OjAt, JournalInv, InFlight
<1>2. /\ r.lease \in Leases /\ f \in Contained /\ f # NoOJ
      /\ f.outcome = r.outcome /\ f.whole /\ r.lease \in fileSynced
  BY <1>1, JournalAssumption DEF InFlight, Call
<1>3. JournalTypes' /\ jsonFile'[r.lease] = f
  BY <1>1, <1>2 DEF JournalInv, JournalTypes
<1>4. \A k \in Leases \ {r.lease} : jsonFile'[k] = jsonFile[k]
  BY <1>1 DEF JournalInv, JournalTypes
<1>5. Finals'
  BY <1>1, <1>2, <1>3, <1>4 DEF JournalInv, Finals, InFlight
<1>6. /\ recording' \in Call /\ recording'.at = "dir"
      /\ recording'.lease = r.lease /\ recording'.outcome = r.outcome
  BY <1>1, CallGoesOn
<1>7. InFlight(recording)'
  BY <1>1, <1>2, <1>3, <1>4, <1>6 DEF InFlight
<1>8. Answers'
  <2>1. \A a \in answered : a[1] # r.lease
    BY <1>1 DEF JournalInv, Answers, InFlight
  <2> QED
    BY <1>1, <1>4, <2>1 DEF JournalInv, Answers
<1> QED
  BY <1>3, <1>5, <1>7, <1>8 DEF JournalInv

\* The directory is synced and the call answered.
LEMMA SyncJournalDirKeeps ==
  ASSUME JournalInv, SyncJournalDir
  PROVE  JournalInv'
<1> DEFINE r == recording
<1>1. /\ r.at = "dir" /\ InFlight(r) /\ r \in Call
      /\ dirSynced' = dirSynced \cup {r.lease}
      /\ answered' = answered \cup {<<r.lease, r.outcome>>}
      /\ recording' = NoOJ
      /\ UNCHANGED <<pendingFile, jsonFile, fileSynced>>
  BY DEF SyncJournalDir, OjAt, JournalInv, InFlight
<1>2. r.lease \in Leases /\ jsonFile[r.lease] # NoOJ /\ jsonFile[r.lease].outcome = r.outcome
  BY <1>1 DEF InFlight, Call
<1>3. Answers'
  BY <1>1, <1>2 DEF JournalInv, Answers
<1> QED
  BY <1>1, <1>3 DEF JournalInv, JournalTypes, Finals

\* A step of the call fails.
LEMMA RecordFailsKeeps ==
  ASSUME JournalInv, RecordFails
  PROVE  JournalInv'
  BY DEF RecordFails, JournalInv, JournalTypes, Finals, Answers

\* A loss of power takes back only names that were not synced and only shortens
\* files that were not.
LEMMA PowerLossKeeps ==
  ASSUME JournalInv, PowerLoss
  PROVE  JournalInv'
<1>1. PICK undone \in SUBSET (ScanRecords \ dirSynced), gone \in SUBSET WithFileOJ,
           short \in SUBSET (WithFileOJ \ fileSynced) :
        LET left(l, f) == [f EXCEPT !.whole = @ /\ l \notin short]
        IN  /\ jsonFile' = [l \in Leases |-> IF jsonFile[l] = NoOJ \/ l \in undone THEN NoOJ
                                             ELSE left(l, jsonFile[l])]
            /\ pendingFile' = [l \in Leases |->
                 IF l \in gone THEN NoOJ
                 ELSE IF l \in undone THEN left(l, jsonFile[l])
                 ELSE IF pendingFile[l] = NoOJ THEN NoOJ ELSE left(l, pendingFile[l])]
  BY DEF PowerLoss
<1> DEFINE left(l, f) == [f EXCEPT !.whole = @ /\ l \notin short]
<1>2. /\ jsonFile' = [l \in Leases |-> IF jsonFile[l] = NoOJ \/ l \in undone THEN NoOJ
                                       ELSE left(l, jsonFile[l])]
      /\ pendingFile' = [l \in Leases |->
           IF l \in gone THEN NoOJ
           ELSE IF l \in undone THEN left(l, jsonFile[l])
           ELSE IF pendingFile[l] = NoOJ THEN NoOJ ELSE left(l, pendingFile[l])]
      /\ recording' = NoOJ /\ UNCHANGED <<dirSynced, answered>>
      /\ fileSynced' = {l \in fileSynced : jsonFile'[l] # NoOJ \/ pendingFile'[l] # NoOJ}
  BY <1>1 DEF PowerLoss
<1>3. JournalTypes /\ Finals /\ Answers
  BY DEF JournalInv
<1>4. \A l \in Leases, f \in Contained :
        /\ left(l, f) \in Contained /\ left(l, f).outcome = f.outcome
        /\ f.whole /\ l \notin short => left(l, f).whole
  BY DEF Contained
<1>5. \A l \in undone : jsonFile[l] \in Contained
  BY <1>3, JournalAssumption DEF ScanRecords, JournalTypes
<1> HIDE DEF left
<1>6. JournalTypes'
  BY <1>2, <1>3, <1>4, <1>5 DEF JournalTypes
<1>7. \A l \in Leases : jsonFile'[l] # NoOJ =>
        /\ jsonFile[l] # NoOJ /\ jsonFile'[l].outcome = jsonFile[l].outcome
        /\ jsonFile'[l].whole /\ l \in fileSynced'
  <2> SUFFICES ASSUME NEW l \in Leases, jsonFile'[l] # NoOJ
               PROVE  /\ jsonFile[l] # NoOJ /\ jsonFile'[l].outcome = jsonFile[l].outcome
                      /\ jsonFile'[l].whole /\ l \in fileSynced'
    OBVIOUS
  <2>1. jsonFile[l] # NoOJ /\ jsonFile'[l] = left(l, jsonFile[l])
    BY <1>2
  <2>2. jsonFile[l] \in Contained /\ jsonFile[l].whole /\ l \in fileSynced
    BY <1>3, <2>1 DEF JournalTypes, Finals
  <2>3. l \notin short
    BY <2>2
  <2> QED
    BY <1>2, <1>4, <2>1, <2>2, <2>3
<1>8. Finals'
  BY <1>3, <1>7 DEF Finals
<1>9. Answers'
  <2> SUFFICES ASSUME NEW a \in answered
               PROVE  jsonFile'[a[1]] # NoOJ /\ jsonFile'[a[1]].outcome = a[2]
    BY <1>2, <1>3 DEF Answers
  <2>1. /\ a[1] \in Leases /\ a[1] \in dirSynced
        /\ jsonFile[a[1]] # NoOJ /\ jsonFile[a[1]].outcome = a[2]
    BY <1>3 DEF Answers
  <2>2. jsonFile'[a[1]] = left(a[1], jsonFile[a[1]]) /\ jsonFile[a[1]] \in Contained
    BY <1>2, <1>3, <2>1 DEF JournalTypes
  <2>3. left(a[1], jsonFile[a[1]]) # NoOJ
    BY <1>4, <2>1, <2>2, JournalAssumption
  <2> QED
    BY <1>7, <2>1, <2>2, <2>3
<1> QED
  BY <1>2, <1>6, <1>8, <1>9 DEF JournalInv

\* The journal keeps its invariant (owner journal record, scan).
THEOREM JournalInvariant == JournalSpec => []JournalInv
<1>1. JournalInit => JournalInv
  BY DEF JournalInit, JournalInv, JournalTypes, Finals, Answers
<1>2. JournalInv /\ UNCHANGED ojVars => JournalInv'
  BY DEF ojVars, JournalInv, JournalTypes, Finals, InFlight, Answers
<1>3. JournalInv /\ [JournalNext]_ojVars => JournalInv'
  BY <1>2, LockAndScanKeeps, CreatePendingKeeps, WritePendingKeeps, SyncPendingKeeps,
     RenameFinalKeeps, SyncJournalDirKeeps, RecordFailsKeeps, PowerLossKeeps
     DEF JournalNext
<1> QED
  BY <1>1, <1>3, PTL DEF JournalSpec

\* No failure and no loss of power, at any step of any call, leaves a final name
\* with part of a record or one outcome under two leases.
THEOREM JournalStaysReadable == JournalSpec => []JournalNeverCorrupt
<1>1. JournalInv => JournalNeverCorrupt
  BY DEF JournalInv, Finals, JournalNeverCorrupt, ScanCorrupt, ScanRecords
<1> QED
  BY <1>1, JournalInvariant, PTL

\* What a caller was told is recorded is there after any later failures.
THEOREM RecordedOutcomesStay == JournalSpec => []RecordedStays
<1>1. JournalInv => RecordedStays
  BY DEF JournalInv, Answers, RecordedStays
<1> QED
  BY <1>1, JournalInvariant, PTL

\* The journal is readable and keeps what it answered for, for any number of
\* writers, leases and outcomes (record, scan).
THEOREM JournalIsSound == JournalSpec => []JournalSound
BY JournalStaysReadable, RecordedOutcomesStay, PTL DEF JournalSound

-----------------------------------------------------------------------------
(* The database of the vault and its files *)

PagerSteps == {"none", "opening", "idle", "journal", "jsync", "pages", "sync", "commit",
               "restore", "rsync", "unlink"}
DbConn == [at : PagerSteps, todo : SUBSET Pages, poisoned : BOOLEAN]
Flag == [now : BOOLEAN, stable : BOOLEAN]

VfsTypes ==
  /\ conn \in [Conns -> DbConn]
  /\ cache \in [Pages -> Nat] /\ disk \in [Pages -> Nat]
  /\ jName \in Flag /\ jBody \in Flag
  /\ jOld \in Nat /\ told \in Nat

\* One connection at a time: it has the lock.
OneWriter == \A c \in Conns : conn[c].at # "none" => lockHolder = c

\* Every page is at one version, seen and on disk, not older than what was answered.
Calm == \E v \in Nat : v >= told /\ \A p \in Pages : cache[p] = v /\ disk[p] = v
AllAt(v) == \A p \in Pages : cache[p] = v

\* The journal is there as a whole, whatever is lost.
JournalStays == jName.now /\ jName.stable /\ jBody.now /\ jBody.stable

\* What a crash or an opening may find: without a journal that is certain to be
\* there, the pages are one transaction; a journal that may be there restores no
\* less than what was answered; one that is seen but not certain restores what is there.
Recoverable ==
  /\ JournalStays \/ Calm
  /\ jBody.now \/ jBody.stable => jOld >= told
  /\ jName.now /\ jBody.now => JournalStays \/ AllAt(jOld)

\* What the pager knows at each step.
PagerKnows(c) ==
  /\ conn[c].at = "opening" => conn[c].todo = Pages
  /\ conn[c].at \in {"idle", "unlink"} => Calm
  /\ conn[c].at \in {"journal", "jsync"} => Calm /\ AllAt(jOld) /\ jName.now /\ jName.stable
  /\ conn[c].at = "jsync" => jBody.now
  /\ conn[c].at \in {"pages", "sync", "commit"} => JournalStays
  /\ conn[c].at = "pages" => \A p \in Pages \ conn[c].todo : cache[p] = jOld + 1
  /\ conn[c].at \in {"sync", "commit"} => AllAt(jOld + 1)
  /\ conn[c].at = "commit" => disk = cache
  /\ conn[c].at \in {"restore", "rsync"} => jName.now /\ jBody.now
  /\ conn[c].at = "restore" => \A p \in Pages \ conn[c].todo : cache[p] = jOld
  /\ conn[c].at = "rsync" => AllAt(jOld)

VfsInv == VfsTypes /\ OneWriter /\ Recoverable /\ \A c \in Conns : Ready(c) => PagerKnows(c)

\* While one connection is active no other is.
LEMMA OneIsActive ==
  ASSUME OneWriter, NEW c \in Conns, conn[c].at # "none", NEW d \in Conns, d # c
  PROVE  conn[d].at = "none"
  BY DEF OneWriter

VfsDataTypes ==
  /\ cache \in [Pages -> Nat] /\ disk \in [Pages -> Nat]
  /\ jName \in Flag /\ jBody \in Flag
  /\ jOld \in Nat /\ told \in Nat

\* A step of the active connection: what the others hold does not matter.
LEMMA ActiveMoves ==
  ASSUME VfsInv, NEW c \in Conns, conn[c].at # "none", NEW r \in DbConn,
         conn' = [conn EXCEPT ![c] = r], lockHolder' = lockHolder,
         VfsDataTypes', Recoverable', r.poisoned = FALSE => PagerKnows(c)'
  PROVE  VfsInv'
<1>1. conn' \in [Conns -> DbConn] /\ conn'[c] = r
  BY DEF VfsInv, VfsTypes
<1>2. VfsTypes'
  BY <1>1 DEF VfsTypes, VfsDataTypes
<1>3. \A d \in Conns : d # c => conn'[d] = conn[d] /\ conn[d].at = "none"
  BY OneIsActive DEF VfsInv, VfsTypes
<1>4. OneWriter'
  BY <1>3 DEF VfsInv, OneWriter
<1>5. ASSUME NEW d \in Conns, Ready(d)' PROVE PagerKnows(d)'
  <2>1. CASE d = c
    BY <1>1, <1>5, <2>1 DEF Ready, DbConn
  <2>2. CASE d # c
    BY <1>3, <2>2 DEF PagerKnows
  <2> QED BY <2>1, <2>2
<1> QED BY <1>2, <1>4, <1>5 DEF VfsInv

\* A step after which no connection is open.
LEMMA AllClosed ==
  ASSUME VfsInv, conn' \in [Conns -> DbConn], \A d \in Conns : conn'[d].at = "none",
         VfsDataTypes', Recoverable'
  PROVE  VfsInv'
  BY DEF VfsInv, VfsTypes, VfsDataTypes, OneWriter, PagerKnows

\* A closed connection is one of the states of a connection.
LEMMA ClosedIsConn == ClosedDb \in DbConn
  BY DEF ClosedDb, DbConn, PagerSteps

\* A mutation in doubt: the connection is poisoned, what is kept is recoverable.
LEMMA InDoubt ==
  ASSUME VfsInv, NEW c \in Conns, conn[c].at # "none", Uncertain(c),
         cache' \in [Pages -> Nat], disk' \in [Pages -> Nat], jName' \in Flag,
         jBody' \in Flag, Recoverable'
  PROVE  VfsInv'
<1>1. [conn[c] EXCEPT !.poisoned = TRUE] \in DbConn
      /\ [conn[c] EXCEPT !.poisoned = TRUE].poisoned = TRUE
  BY DEF VfsInv, VfsTypes, DbConn
<1>2. /\ conn' = [conn EXCEPT ![c] = [conn[c] EXCEPT !.poisoned = TRUE]]
      /\ lockHolder' = lockHolder
  BY DEF Uncertain
<1>3. VfsDataTypes'
  BY DEF Uncertain, VfsInv, VfsTypes, VfsDataTypes
<1> QED BY <1>1, <1>2, <1>3, ActiveMoves

\* The pager goes on.
LEMMA GoesOn ==
  ASSUME VfsInv, NEW c \in Conns, conn[c].at # "none", NEW pc \in PagerSteps,
         PagerTo(c, pc), VfsDataTypes', Recoverable',
         conn'[c].at = pc /\ conn'[c].todo = Pages => PagerKnows(c)'
  PROVE  VfsInv'
<1> DEFINE r == [conn[c] EXCEPT !.at = pc, !.todo = Pages]
<1>1. r \in DbConn /\ r.at = pc /\ r.todo = Pages
  <2>1. conn[c] \in DbConn /\ Pages \in SUBSET Pages
    BY DEF VfsInv, VfsTypes
  <2> QED BY <2>1 DEF DbConn
<1>2. conn' = [conn EXCEPT ![c] = r] /\ lockHolder' = lockHolder
  BY DEF PagerTo
<1>3. conn'[c] = r
  BY <1>2 DEF VfsInv, VfsTypes
<1>4. PagerKnows(c)'
  BY <1>1, <1>3
<1> QED BY <1>1, <1>2, <1>4, ActiveMoves

\* A connection begins.
LEMMA ConnectKeeps ==
  ASSUME VfsInv, NEW c \in Conns, ConnectDb(c)
  PROVE  VfsInv'
<1> DEFINE r == [at |-> "opening", todo |-> Pages, poisoned |-> FALSE]
<1>1. r \in DbConn /\ r.at = "opening" /\ r.todo = Pages
  BY DEF DbConn, PagerSteps
<1>2. conn' = [conn EXCEPT ![c] = r] /\ lockHolder' = c
  BY DEF ConnectDb
<1>3. conn' \in [Conns -> DbConn] /\ conn'[c] = r
  BY <1>1, <1>2 DEF VfsInv, VfsTypes
<1>4. \A d \in Conns : d # c => conn'[d] = conn[d] /\ conn[d].at = "none"
  BY <1>2, VfsAssumption DEF VfsInv, VfsTypes, OneWriter, ConnectDb, LockFree
<1>5. VfsTypes' /\ Recoverable'
  BY <1>3 DEF VfsInv, VfsTypes, Recoverable, ConnectDb, JournalStays, Calm, AllAt
<1>6. OneWriter'
  BY <1>2, <1>4 DEF OneWriter
<1>7. ASSUME NEW d \in Conns PROVE PagerKnows(d)'
  BY <1>1, <1>3, <1>4 DEF PagerKnows
<1> QED BY <1>5, <1>6, <1>7 DEF VfsInv

\* A database is opened, and a hot journal rolled back.
LEMMA OpenKeeps ==
  ASSUME VfsInv, NEW c \in Conns, OpenMain(c)
  PROVE  VfsInv'
<1>1. conn[c] \in DbConn /\ conn[c].at = "opening"
  BY DEF VfsInv, VfsTypes, OpenMain
<1>2. VfsDataTypes' /\ Recoverable'
  BY DEF VfsInv, VfsTypes, VfsDataTypes, Recoverable, OpenMain, JournalStays, Calm, AllAt
<1>3. CASE /\ conn' = [conn EXCEPT ![c].at = AfterOpen]
           /\ UNCHANGED lockHolder
  <2> DEFINE r == [conn[c] EXCEPT !.at = AfterOpen]
  <2>1. AfterOpen \in PagerSteps /\ AfterOpen \in {"idle", "restore", "unlink"}
    BY DEF AfterOpen, PagerSteps
  <2>2. r \in DbConn /\ r.at = AfterOpen /\ r.todo = conn[c].todo
        /\ r.poisoned = conn[c].poisoned
    BY <1>1, <2>1 DEF DbConn
  <2>3. conn' = [conn EXCEPT ![c] = r] /\ conn'[c] = r
    BY <1>3 DEF VfsInv, VfsTypes
  <2>4. r.poisoned = FALSE => PagerKnows(c)'
    <3> SUFFICES ASSUME r.poisoned = FALSE PROVE PagerKnows(c)'
      OBVIOUS
    <3>1. conn[c].todo = Pages
      BY <1>1, <2>2 DEF VfsInv, Ready, PagerKnows
    <3>2. /\ AfterOpen \in {"idle", "unlink"} => Calm
          /\ AfterOpen = "restore" => jName.now /\ jBody.now
      BY DEF AfterOpen, VfsInv, Recoverable, JournalStays
    <3>3. Calm' = Calm
      BY DEF OpenMain, Calm
    <3>4. UNCHANGED <<jName, jBody>>
      BY DEF OpenMain
    <3> QED BY <2>1, <2>2, <2>3, <3>1, <3>2, <3>3, <3>4 DEF PagerKnows
  <2> QED BY <1>1, <1>2, <1>3, <2>2, <2>3, <2>4, ActiveMoves
<1>4. CASE conn' = [conn EXCEPT ![c] = ClosedDb] /\ lockHolder' = NoConn
  <2>1. conn' \in [Conns -> DbConn]
    BY <1>4, ClosedIsConn DEF VfsInv, VfsTypes
  <2>2. \A d \in Conns : conn'[d].at = "none"
    BY <1>1, <1>4, OneIsActive DEF VfsInv, VfsTypes, ClosedDb
  <2> QED BY <1>2, <2>1, <2>2, AllClosed
<1> QED BY <1>3, <1>4 DEF OpenMain

\* What a flag is now and on stable storage, and what changing it does.
LEMMA FlagFields ==
  /\ \A b \in BOOLEAN : NowAndStable(b) \in Flag /\ NowAndStable(b).now = b
                        /\ NowAndStable(b).stable = b
  /\ \A g \in Flag : g.now \in BOOLEAN /\ g.stable \in BOOLEAN
  /\ \A g \in Flag, b \in BOOLEAN : /\ [g EXCEPT !.now = b] \in Flag
                                    /\ [g EXCEPT !.now = b].now = b
                                    /\ [g EXCEPT !.now = b].stable = g.stable
  BY DEF NowAndStable, Flag

\* What the pages of a calm database are at.
LEMMA CalmAt ==
  ASSUME Calm, NEW p \in Pages
  PROVE  cache[p] >= told /\ \A q \in Pages : cache[q] = cache[p] /\ disk[q] = cache[p]
  BY DEF Calm

\* The rollback journal is created.
LEMMA CreateKeeps ==
  ASSUME VfsInv, NEW c \in Conns, CreateJournal(c)
  PROVE  VfsInv'
<1>1. conn[c].at = "idle" /\ Calm
  BY DEF VfsInv, CreateJournal, PagerAt, PagerKnows
<1>2. UNCHANGED <<cache, disk>> /\ told' = told
  BY DEF CreateJournal, Uncertain
<1>3. Calm'
  BY <1>1, <1>2 DEF Calm
<1>0. jName \in Flag /\ jBody \in Flag /\ cache \in [Pages -> Nat] /\ disk \in [Pages -> Nat]
      /\ jOld \in Nat /\ told \in Nat
  BY DEF VfsInv, VfsTypes
<1>4. jName \in Flag /\ jBody \in Flag /\ cache \in [Pages -> Nat] /\ disk \in [Pages -> Nat]
      /\ jOld \in Nat /\ told \in Nat /\ jName' \in Flag /\ jBody' \in Flag
      /\ jBody'.now = FALSE
  <2>1. \/ jName' = NowAndStable(TRUE) /\ jBody' = NowAndStable(FALSE)
        \/ jName' = [jName EXCEPT !.now = TRUE] /\ jBody' = [jBody EXCEPT !.now = FALSE]
    BY DEF CreateJournal
  <2>2. /\ NowAndStable(TRUE) \in Flag /\ NowAndStable(FALSE) \in Flag
        /\ NowAndStable(FALSE).now = FALSE
    BY FlagFields, Zenon
  <2>3. /\ [jName EXCEPT !.now = TRUE] \in Flag /\ [jBody EXCEPT !.now = FALSE] \in Flag
        /\ [jBody EXCEPT !.now = FALSE].now = FALSE
    BY <1>0, FlagFields, Zenon
  <2> QED BY <1>0, <2>1, <2>2, <2>3
<1>5. CASE Uncertain(c) /\ jBody' = [jBody EXCEPT !.now = FALSE]
  <2>1. jBody'.stable = jBody.stable /\ jOld' = jOld
    BY <1>4, <1>5, FlagFields DEF Uncertain
  <2>2. Recoverable'
    BY <1>2, <1>3, <1>4, <2>1 DEF VfsInv, Recoverable
  <2> QED BY <1>1, <1>2, <1>4, <1>5, <2>2, InDoubt
<1>6. CASE /\ jName' = NowAndStable(TRUE) /\ jBody' = NowAndStable(FALSE)
           /\ jOld' = cache[CHOOSE p \in Pages : TRUE]
           /\ PagerTo(c, "journal")
  <2>1. PICK p \in Pages : p = CHOOSE q \in Pages : TRUE
    BY VfsAssumption
  <2>2. jOld' = cache[p] /\ jOld' \in Nat
    BY <1>4, <1>6, <2>1
  <2>3. AllAt(jOld)'
    BY <1>1, <1>2, <2>2, CalmAt DEF AllAt
  <2>4. jBody'.now = FALSE /\ jBody'.stable = FALSE /\ jName'.now /\ jName'.stable
    BY <1>6, FlagFields
  <2>5. Recoverable'
    BY <1>3, <2>4 DEF Recoverable
  <2>6. VfsDataTypes'
    BY <1>2, <1>4, <2>2 DEF VfsDataTypes
  <2>7. conn'[c].at = "journal" => PagerKnows(c)'
    BY <1>3, <2>3, <2>4 DEF PagerKnows
  <2> QED BY <1>1, <1>6, <2>5, <2>6, <2>7, GoesOn DEF PagerSteps
<1> QED BY <1>5, <1>6 DEF CreateJournal

\* While a journal is made, the pages are what it will restore.
LEMMA MadeRestores ==
  ASSUME VfsTypes, Calm, AllAt(jOld)
  PROVE  jOld >= told
  BY VfsAssumption, CalmAt DEF AllAt, VfsTypes

\* Old pages are written to the journal.
LEMMA WriteJournalKeeps ==
  ASSUME VfsInv, NEW c \in Conns, WriteJournal(c)
  PROVE  VfsInv'
<1>1. conn[c].at = "journal" /\ Calm /\ AllAt(jOld) /\ jName.now /\ jName.stable
  BY DEF VfsInv, WriteJournal, PagerAt, PagerKnows
<1>2. UNCHANGED <<cache, disk, jName, told, jOld>>
  BY DEF WriteJournal, Uncertain
<1>3. Calm' /\ AllAt(jOld)' /\ (jOld >= told)'
  BY <1>1, <1>2, MadeRestores DEF Calm, AllAt, VfsInv
<1>4. VfsDataTypes' /\ jBody' \in Flag
  <2>1. jBody \in Flag /\ jBody' \in {jBody, [jBody EXCEPT !.now = TRUE]}
    BY DEF VfsInv, VfsTypes, WriteJournal
  <2>2. jBody' \in Flag
    <3>1. [jBody EXCEPT !.now = TRUE] \in Flag
      BY <2>1, FlagFields, Zenon
    <3> QED BY <2>1, <3>1
  <2> QED BY <1>2, <2>2 DEF VfsInv, VfsTypes, VfsDataTypes
<1>5. Recoverable'
  BY <1>3 DEF Recoverable
<1>6. CASE Uncertain(c)
  BY <1>1, <1>4, <1>5, <1>6, InDoubt DEF VfsDataTypes
<1>7. CASE jBody' = [jBody EXCEPT !.now = TRUE] /\ PagerTo(c, "jsync")
  <2>1. jBody'.now
    BY <1>7, FlagFields DEF VfsInv, VfsTypes
  <2>2. conn'[c].at = "jsync" => PagerKnows(c)'
    BY <1>1, <1>2, <1>3, <2>1 DEF PagerKnows
  <2> QED BY <1>1, <1>4, <1>5, <1>7, <2>2, GoesOn DEF PagerSteps
<1> QED BY <1>6, <1>7 DEF WriteJournal

\* The journal is synced.
LEMMA SyncJournalKeeps ==
  ASSUME VfsInv, NEW c \in Conns, SyncJournal(c)
  PROVE  VfsInv'
<1>1. conn[c].at = "jsync" /\ Calm /\ AllAt(jOld) /\ jName.now /\ jName.stable
  BY DEF VfsInv, SyncJournal, PagerAt, PagerKnows
<1>2. UNCHANGED <<cache, disk, jName, told, jOld>>
  BY DEF SyncJournal, Uncertain
<1>3. Calm' /\ AllAt(jOld)' /\ (jOld >= told)'
  BY <1>1, <1>2, MadeRestores DEF Calm, AllAt, VfsInv
<1>4. VfsDataTypes' /\ jBody' \in Flag
  <2>1. jBody \in Flag /\ jBody' \in {jBody, NowAndStable(TRUE)}
    BY DEF VfsInv, VfsTypes, SyncJournal
  <2>2. jBody' \in Flag
    BY <2>1, FlagFields, Zenon
  <2> QED BY <1>2, <2>2 DEF VfsInv, VfsTypes, VfsDataTypes
<1>5. Recoverable'
  BY <1>3 DEF Recoverable
<1>6. CASE Uncertain(c)
  BY <1>1, <1>4, <1>5, <1>6, InDoubt DEF VfsDataTypes
<1>7. CASE jBody' = NowAndStable(TRUE) /\ PagerTo(c, "pages")
  <2>1. jBody'.now /\ jBody'.stable
    BY <1>7, FlagFields
  <2>2. conn'[c].at = "pages" /\ conn'[c].todo = Pages => PagerKnows(c)'
    BY <1>1, <1>2, <2>1 DEF PagerKnows, JournalStays
  <2> QED BY <1>1, <1>4, <1>5, <1>7, <2>2, GoesOn DEF PagerSteps
<1> QED BY <1>6, <1>7 DEF SyncJournal

\* A page is written over a journal that stays, or with what is there already.
LEMMA PageRecoverable ==
  ASSUME VfsInv, NEW c \in Conns, NEW p \in Pages, NEW v,
         \/ PagerAt(c, "pages") /\ v = jOld + 1
         \/ PagerAt(c, "restore") /\ v = jOld,
         cache' \in {cache, [cache EXCEPT ![p] = v]},
         UNCHANGED <<disk, jName, jBody, jOld, told>>
  PROVE  VfsDataTypes' /\ Recoverable'
<1>1. cache \in [Pages -> Nat] /\ jOld \in Nat /\ v \in Nat
  BY DEF VfsInv, VfsTypes
<1>2. cache' \in [Pages -> Nat]
  BY <1>1
<1>3. VfsDataTypes'
  BY <1>2 DEF VfsInv, VfsTypes, VfsDataTypes
<1>4. JournalStays' = JournalStays
  BY DEF JournalStays
<1>5. CASE JournalStays
  BY <1>3, <1>4, <1>5 DEF VfsInv, Recoverable
<1>6. CASE ~JournalStays
  <2>1. PagerAt(c, "restore") /\ v = jOld /\ jName.now /\ jBody.now
    BY <1>6 DEF VfsInv, PagerAt, PagerKnows
  <2>2. AllAt(jOld) /\ Calm
    BY <1>6, <2>1 DEF VfsInv, Recoverable
  <2>3. cache' = cache
    BY <1>1, <2>1, <2>2 DEF AllAt
  <2>4. Calm' /\ AllAt(jOld)'
    BY <2>2, <2>3 DEF Calm, AllAt
  <2> QED BY <1>3, <1>4, <2>4 DEF VfsInv, Recoverable
<1> QED BY <1>3, <1>5, <1>6

\* A page is written once the journal is durable.
LEMMA WritePageKeeps ==
  ASSUME VfsInv, NEW c \in Conns, NEW p \in Pages, WritePage(c, p)
  PROVE  VfsInv'
<1> DEFINE w == IF conn[c].at = "pages" THEN jOld + 1 ELSE jOld
<1>1. PICK v : v = w
  OBVIOUS
<1>2. /\ \/ PagerAt(c, "pages") /\ v = jOld + 1
         \/ PagerAt(c, "restore") /\ v = jOld
      /\ cache' \in {cache, [cache EXCEPT ![p] = v]}
      /\ UNCHANGED <<disk, jName, jBody, jOld, told>>
      /\ p \in conn[c].todo
  BY <1>1 DEF WritePage, PagerAt, Uncertain
<1>3. VfsDataTypes' /\ Recoverable'
  BY <1>2, PageRecoverable
<1>4. conn[c].at # "none" /\ Ready(c) /\ conn[c] \in DbConn
  BY <1>2 DEF PagerAt, VfsInv, VfsTypes
<1>5. CASE Uncertain(c)
  BY <1>3, <1>4, <1>5, InDoubt DEF VfsDataTypes
<1>6. CASE /\ cache' = [cache EXCEPT ![p] = v]
           /\ conn' = [conn EXCEPT ![c].todo = @ \ {p},
                                   ![c].at = IF conn[c].todo # {p} THEN @
                                             ELSE IF @ = "pages" THEN "sync" ELSE "rsync"]
           /\ UNCHANGED lockHolder
  <2> DEFINE to == IF conn[c].todo # {p} THEN conn[c].at
                   ELSE IF conn[c].at = "pages" THEN "sync" ELSE "rsync"
  <2> DEFINE r == [conn[c] EXCEPT !.todo = conn[c].todo \ {p}, !.at = to]
  <2>1. conn' = [conn EXCEPT ![c] = r] /\ conn'[c] = r
    BY <1>6 DEF VfsInv, VfsTypes
  <2>2. r \in DbConn /\ r.at = to /\ r.todo = conn[c].todo \ {p}
    BY <1>4 DEF DbConn, PagerSteps
  <2>3. PagerKnows(c)
    BY <1>4 DEF VfsInv
  <2>4. cache'[p] = v /\ \A q \in Pages : q # p => cache'[q] = cache[q]
    BY <1>6 DEF VfsInv, VfsTypes
  <2>5. \A q \in Pages \ r.todo : cache'[q] = v
    BY <1>2, <2>2, <2>3, <2>4 DEF PagerAt, PagerKnows
  <2>6. r.todo = {} => \A q \in Pages : cache'[q] = v
    BY <2>5
  <2>7. /\ conn[c].at = "pages" => JournalStays' /\ v = jOld' + 1
        /\ conn[c].at = "restore" => (jName.now /\ jBody.now)' /\ v = jOld'
    BY <1>2, <2>3 DEF PagerAt, PagerKnows, JournalStays
  <2>8. to \in {"sync", "rsync"} => r.todo = {}
    BY <1>2, <2>2 DEF PagerAt
  <2>9. \/ conn[c].at = "pages" /\ to \in {"pages", "sync"}
        \/ conn[c].at = "restore" /\ to \in {"restore", "rsync"}
    BY <1>2 DEF PagerAt
  <2> HIDE DEF r, to
  <2>10. PagerKnows(c)'
    BY <2>1, <2>2, <2>5, <2>6, <2>7, <2>8, <2>9 DEF PagerKnows, AllAt
  <2> QED BY <1>3, <1>4, <1>6, <2>1, <2>2, <2>10, ActiveMoves
<1> QED BY <1>1, <1>5, <1>6 DEF WritePage

\* The database file is synced.
LEMMA SyncPagesKeeps ==
  ASSUME VfsInv, NEW c \in Conns, SyncPages(c)
  PROVE  VfsInv'
<1>1. conn[c].at \in {"sync", "rsync"} /\ PagerKnows(c)
  BY DEF VfsInv, SyncPages, PagerAt
<1>2. UNCHANGED <<cache, jName, jBody, jOld, told>>
  BY DEF SyncPages, Uncertain
<1>3. cache \in [Pages -> Nat] /\ disk \in [Pages -> Nat] /\ jOld \in Nat /\ told \in Nat
  BY DEF VfsInv, VfsTypes
<1>4. JournalStays' = JournalStays /\ AllAt(jOld)' = AllAt(jOld)
      /\ AllAt(jOld + 1)' = AllAt(jOld + 1)
  BY <1>2 DEF JournalStays, AllAt
<1>5. CASE Uncertain(c) /\ disk' \in [Pages -> {disk[p] : p \in Pages} \cup {cache[p] : p \in Pages}]
           /\ \A p \in Pages : disk'[p] \in {disk[p], cache[p]}
  <2>1. disk' \in [Pages -> Nat]
    BY <1>3, <1>5
  <2>2. ~JournalStays => Calm'
    BY <1>2, <1>5 DEF VfsInv, Recoverable, Calm
  <2>3. Recoverable'
    BY <1>2, <1>4, <2>2 DEF VfsInv, Recoverable
  <2> QED BY <1>1, <1>2, <1>5, <2>1, <2>3, InDoubt DEF VfsInv, VfsTypes
<1>6. CASE disk' = cache
           /\ PagerTo(c, IF conn[c].at = "sync" THEN "commit" ELSE "unlink")
  <2>1. VfsDataTypes'
    BY <1>2, <1>6 DEF VfsInv, VfsTypes, VfsDataTypes
  <2>2. ~JournalStays => Calm'
    BY <1>2, <1>6 DEF VfsInv, Recoverable, Calm
  <2>3. Recoverable'
    BY <1>2, <1>4, <2>2 DEF VfsInv, Recoverable
  <2>4. CASE conn[c].at = "sync"
    <3>1. JournalStays' /\ AllAt(jOld + 1)' /\ disk' = cache'
      BY <1>1, <1>2, <1>4, <1>6, <2>4 DEF PagerKnows
    <3>2. conn'[c].at = "commit" => PagerKnows(c)'
      BY <3>1 DEF PagerKnows
    <3>3. PagerTo(c, "commit")
      BY <1>6, <2>4
    <3> QED BY <1>1, <2>1, <2>3, <3>2, <3>3, GoesOn DEF PagerSteps
  <2>5. CASE conn[c].at = "rsync"
    <3>1. AllAt(jOld) /\ jOld >= told
      BY <1>1, <2>5 DEF PagerKnows, VfsInv, Recoverable
    <3>2. Calm'
      BY <1>2, <1>3, <1>6, <3>1 DEF Calm, AllAt
    <3>3. conn'[c].at = "unlink" => PagerKnows(c)'
      BY <3>2 DEF PagerKnows
    <3>4. PagerTo(c, "unlink")
      BY <1>6, <2>5
    <3> QED BY <1>1, <2>1, <2>3, <3>3, <3>4, GoesOn DEF PagerSteps
  <2> QED BY <1>1, <2>4, <2>5
<1> QED BY <1>5, <1>6 DEF SyncPages

\* The journal is deleted: the transaction is committed.
LEMMA DeleteKeeps ==
  ASSUME VfsInv, NEW c \in Conns, DeleteJournal(c)
  PROVE  VfsInv'
<1>1. conn[c].at \in {"commit", "unlink"} /\ PagerKnows(c)
  BY DEF VfsInv, DeleteJournal, PagerAt
<1>2. UNCHANGED <<cache, disk, jOld>>
  BY DEF DeleteJournal, Uncertain
<1>3. cache \in [Pages -> Nat] /\ disk \in [Pages -> Nat] /\ jOld \in Nat /\ told \in Nat
      /\ jName \in Flag /\ jBody \in Flag
  BY DEF VfsInv, VfsTypes
<1>4. /\ jName' \in {jName, [jName EXCEPT !.now = FALSE], NowAndStable(FALSE)}
      /\ jBody' = [now |-> jBody.now /\ jName'.now, stable |-> jBody.stable /\ jName'.stable]
  BY DEF DeleteJournal, Unlinked, BodyGoes
<1>5. /\ jName' \in Flag /\ jBody' \in Flag
      /\ jName'.now => jName' = jName
      /\ jBody'.now => jBody.now
      /\ jBody'.stable => jBody.stable
  <2>1. /\ NowAndStable(FALSE) \in Flag /\ NowAndStable(FALSE).now = FALSE
    BY FlagFields, Zenon
  <2>2. /\ [jName EXCEPT !.now = FALSE] \in Flag
        /\ [jName EXCEPT !.now = FALSE].now = FALSE
    BY <1>3, FlagFields, Zenon
  <2>3. jName' \in Flag
    BY <1>3, <1>4, <2>1, <2>2
  <2>4. jName'.now => jName' = jName
    BY <1>3, <1>4, <2>1, <2>2
  <2>5. jBody' \in Flag
    BY <1>4 DEF Flag
  <2>6. jBody'.now = (jBody.now /\ jName'.now) /\ jBody'.stable = (jBody.stable /\ jName'.stable)
    BY <1>4
  <2> QED BY <2>3, <2>4, <2>5, <2>6
<1>6. JournalStays => JournalStays' \/ ~jName'.now
  BY <1>3, <1>4, <1>5 DEF JournalStays, Flag
<1>7. conn[c].at = "commit" => AllAt(jOld + 1) /\ disk = cache /\ jOld >= told
  BY <1>1, <1>3 DEF PagerKnows, VfsInv, Recoverable, JournalStays
<1>8. CASE Uncertain(c)
  <2>1. told' = told
    BY <1>8 DEF Uncertain
  <2>2. Calm'
    <3>1. CASE conn[c].at = "commit"
      BY <1>2, <1>3, <1>7, <2>1, <3>1 DEF AllAt, Calm
    <3>2. CASE conn[c].at = "unlink"
      BY <1>1, <1>2, <2>1, <3>2 DEF PagerKnows, Calm
    <3> QED BY <1>1, <3>1, <3>2
  <2>3. AllAt(jOld)' = AllAt(jOld)
    BY <1>2 DEF AllAt
  <2>4. Recoverable'
    BY <1>2, <1>5, <1>6, <2>1, <2>2, <2>3 DEF VfsInv, Recoverable
  <2> QED BY <1>1, <1>2, <1>3, <1>5, <1>8, <2>4, InDoubt
<1>9. CASE /\ Unlinked /\ PagerTo(c, "idle")
           /\ told' = IF conn[c].at = "commit" THEN jOld + 1 ELSE told
  <2>1. ~jName'.now /\ ~jBody'.now /\ ~jBody'.stable
    BY <1>4, <1>9 DEF Unlinked, NowAndStable
  <2>2. Calm' /\ told' \in Nat
    <3>1. CASE conn[c].at = "commit"
      BY <1>2, <1>3, <1>7, <1>9, <3>1 DEF AllAt, Calm
    <3>2. CASE conn[c].at = "unlink"
      BY <1>1, <1>2, <1>3, <1>9, <3>2 DEF PagerKnows, Calm
    <3> QED BY <1>1, <3>1, <3>2
  <2>3. Recoverable'
    BY <2>1, <2>2 DEF Recoverable
  <2>4. VfsDataTypes'
    BY <1>2, <1>3, <1>5, <2>2 DEF VfsDataTypes
  <2>5. conn'[c].at = "idle" => PagerKnows(c)'
    BY <2>2 DEF PagerKnows
  <2> QED BY <1>1, <1>9, <2>3, <2>4, <2>5, GoesOn DEF PagerSteps
<1> QED BY <1>8, <1>9 DEF DeleteJournal

\* A step that writes no page leaves the database as it was.
LEMMA DataStays ==
  ASSUME VfsInv, UNCHANGED <<cache, disk, jName, jBody, jOld, told>>
  PROVE  /\ VfsDataTypes' /\ Recoverable' /\ Calm' = Calm /\ JournalStays' = JournalStays
         /\ AllAt(jOld)' = AllAt(jOld) /\ AllAt(jOld + 1)' = AllAt(jOld + 1)
  BY DEF VfsInv, VfsTypes, VfsDataTypes, Recoverable, JournalStays, Calm, AllAt

\* A connection is closed.
LEMMA CloseKeeps ==
  ASSUME VfsInv, NEW c \in Conns, CloseDb(c)
  PROVE  VfsInv'
<1>1. VfsDataTypes' /\ Recoverable' /\ Calm' = Calm /\ JournalStays' = JournalStays
         /\ AllAt(jOld)' = AllAt(jOld) /\ AllAt(jOld + 1)' = AllAt(jOld + 1)
  BY DataStays DEF CloseDb
<1>2. /\ conn' = [conn EXCEPT ![c] = ClosedDb]
      /\ lockHolder' = IF lockHolder = c THEN NoConn ELSE lockHolder
      /\ UNCHANGED <<cache, disk, jName, jBody, jOld, told>>
  BY DEF CloseDb
<1>3. VfsTypes'
  BY <1>1, <1>2, ClosedIsConn DEF VfsInv, VfsTypes, VfsDataTypes
<1>4. conn'[c].at = "none" /\ \A d \in Conns : d # c => conn'[d] = conn[d]
  BY <1>2 DEF VfsInv, VfsTypes, ClosedDb
<1>5. OneWriter'
  BY <1>2, <1>4 DEF VfsInv, OneWriter
<1>6. ASSUME NEW d \in Conns, Ready(d)' PROVE PagerKnows(d)'
  <2>1. CASE d = c
    BY <1>4, <2>1 DEF PagerKnows
  <2>2. CASE d # c
    <3>1. conn'[d] = conn[d] /\ PagerKnows(d)
      BY <1>4, <1>6, <2>2 DEF Ready, VfsInv
    <3> QED BY <1>1, <1>2, <3>1 DEF PagerKnows
  <2> QED BY <2>1, <2>2
<1> QED BY <1>1, <1>3, <1>5, <1>6 DEF VfsInv

\* A process is killed with its connection.
LEMMA KillKeeps ==
  ASSUME VfsInv, KillProcess
  PROVE  VfsInv'
<1>1. conn' \in [Conns -> DbConn] /\ \A d \in Conns : conn'[d].at = "none"
  BY ClosedIsConn DEF KillProcess, ClosedDb
<1>2. VfsDataTypes' /\ Recoverable'
  BY DataStays DEF KillProcess
<1> QED BY <1>1, <1>2, AllClosed

\* Power is lost, and what was not synced may be.
LEMMA PowerKeeps ==
  ASSUME VfsInv, LosePower
  PROVE  VfsInv'
<1>1. conn' \in [Conns -> DbConn] /\ \A d \in Conns : conn'[d].at = "none"
  BY ClosedIsConn DEF LosePower, ClosedDb
<1>2. PICK kept \in SUBSET Pages, n \in {jName.now, jName.stable}, b \in {jBody.now, jBody.stable} :
         /\ disk' = [p \in Pages |-> IF p \in kept THEN cache[p] ELSE disk[p]]
         /\ cache' = disk'
         /\ jName' = NowAndStable(n) /\ jBody' = NowAndStable(b)
  BY DEF LosePower
<1>3. cache \in [Pages -> Nat] /\ disk \in [Pages -> Nat] /\ jOld \in Nat /\ told \in Nat
      /\ jName \in Flag /\ jBody \in Flag /\ UNCHANGED <<jOld, told>>
  BY DEF VfsInv, VfsTypes, LosePower
<1>4. n \in BOOLEAN /\ b \in BOOLEAN
  BY <1>3 DEF Flag
<1>5. jName' \in Flag /\ jBody' \in Flag /\ jName'.now = n /\ jName'.stable = n
      /\ jBody'.now = b /\ jBody'.stable = b
  BY <1>2, <1>4, FlagFields
<1>6. VfsDataTypes'
  BY <1>2, <1>3, <1>5 DEF VfsDataTypes
<1>7. JournalStays => JournalStays'
  BY <1>5 DEF JournalStays
<1>8. Calm => Calm'
  BY <1>2, <1>3 DEF Calm
<1>9. Recoverable'
  BY <1>3, <1>5, <1>7, <1>8 DEF VfsInv, Recoverable, JournalStays
<1> QED BY <1>1, <1>6, <1>9, AllClosed

\* The database starts empty and closed.
LEMMA VfsStarts == VfsInit => VfsInv
<1> SUFFICES ASSUME VfsInit PROVE VfsInv
  OBVIOUS
<1>1. conn \in [Conns -> DbConn] /\ \A c \in Conns : conn[c].at = "none"
  BY ClosedIsConn DEF VfsInit, ClosedDb
<1>2. jName \in Flag /\ jBody \in Flag /\ ~jName.now /\ ~jBody.now /\ ~jBody.stable
  BY DEF VfsInit, NowAndStable, Flag
<1>3. VfsTypes
  BY <1>1, <1>2 DEF VfsInit, VfsTypes
<1>4. Calm
  <2>1. 0 \in Nat /\ 0 >= told /\ \A p \in Pages : cache[p] = 0 /\ disk[p] = 0
    BY DEF VfsInit
  <2> QED BY <2>1 DEF Calm
<1>5. Recoverable
  BY <1>2, <1>4 DEF Recoverable
<1> QED BY <1>1, <1>3, <1>5 DEF VfsInv, OneWriter, PagerKnows

\* Every step of the database keeps its invariant.
LEMMA VfsKeeps ==
  ASSUME VfsInv, [VfsNext]_vfsVars
  PROVE  VfsInv'
<1>1. CASE UNCHANGED vfsVars
  BY <1>1 DEF VfsInv, VfsTypes, OneWriter, Recoverable, Ready, PagerKnows, JournalStays,
              Calm, AllAt, vfsVars
<1>2. CASE VfsNext
  <2>1. \A c \in Conns : ConnectDb(c) => VfsInv'
    BY ConnectKeeps
  <2>2. \A c \in Conns : OpenMain(c) => VfsInv'
    BY OpenKeeps
  <2>3. \A c \in Conns : CreateJournal(c) => VfsInv'
    BY CreateKeeps
  <2>4. \A c \in Conns : WriteJournal(c) => VfsInv'
    BY WriteJournalKeeps
  <2>5. \A c \in Conns : SyncJournal(c) => VfsInv'
    BY SyncJournalKeeps
  <2>6. \A c \in Conns : SyncPages(c) => VfsInv'
    BY SyncPagesKeeps
  <2>7. \A c \in Conns : DeleteJournal(c) => VfsInv'
    BY DeleteKeeps
  <2>8. \A c \in Conns : CloseDb(c) => VfsInv'
    BY CloseKeeps
  <2>9. \A c \in Conns, p \in Pages : WritePage(c, p) => VfsInv'
    BY WritePageKeeps
  <2> QED BY <1>2, <2>1, <2>2, <2>3, <2>4, <2>5, <2>6, <2>7, <2>8, <2>9, KillKeeps, PowerKeeps
        DEF VfsNext
<1> QED BY <1>1, <1>2

\* The invariant gives what a reader and a committed writer are promised.
LEMMA VfsMeans ==
  ASSUME VfsInv
  PROVE  TransactionWhole /\ AnsweredCommitStays
<1> SUFFICES ASSUME NEW c \in Conns, conn[c].at = "idle", Ready(c)
             PROVE  \A p, q \in Pages : cache[p] = cache[q] /\ disk[p] = cache[p]
                                       /\ cache[p] >= told
  BY DEF TransactionWhole, AnsweredCommitStays
<1>1. Calm
  BY DEF VfsInv, PagerKnows
<1> QED BY <1>1, CalmAt

-----------------------------------------------------------------------------
(***************************************************************************)
(* The file layer: a handle whose effect is in doubt is poisoned.          *)
(***************************************************************************)
HandlesInv ==
  /\ doubtF \subseteq HandlesF
  /\ stateF \in [HandlesF -> {"idle", "in"}]
  /\ poisonF \in [HandlesF -> BOOLEAN]
  /\ DOMAIN answerF = HandlesF
  /\ \A h \in doubtF : poisonF[h] /\ (stateF[h] = "in" \/ answerF[h] # "ok")

\* Every step on the handles of the vault files keeps their invariant.
LEMMA FilesKeep ==
  ASSUME HandlesInv, [FileNext]_vfsfVars, NobodyF # "ok"
  PROVE  HandlesInv'
<1>1. CASE UNCHANGED vfsfVars
  BY <1>1 DEF HandlesInv, vfsfVars
<1>2. ASSUME NEW h \in HandlesF, Enter(h) PROVE HandlesInv'
  BY <1>2 DEF HandlesInv, Enter
<1>3. ASSUME NEW h \in HandlesF, HandleReady(h), Poisoned(h), UNCHANGED <<stateF, answerF>>
      PROVE  HandlesInv'
  BY <1>3 DEF HandlesInv, HandleReady, Poisoned
<1>4. ASSUME NEW h \in HandlesF, Leave(h) PROVE HandlesInv'
  BY <1>4 DEF HandlesInv, Leave, Outcome
<1>5. ASSUME NEW h \in HandlesF, OpenAgain(h) PROVE HandlesInv'
  BY <1>5 DEF HandlesInv, OpenAgain
<1>6. CASE UNCHANGED <<stateF, answerF, poisonF, doubtF>>
  BY <1>6 DEF HandlesInv
<1>7. ASSUME NEW h \in HandlesF, NEW f \in FilesF, CreateFile(h, f) PROVE HandlesInv'
  BY <1>3, <1>6, <1>7 DEF CreateFile
<1>8. ASSUME NEW h \in HandlesF, NEW f \in FilesF, OpenWrite(h, f) PROVE HandlesInv'
  BY <1>6, <1>8 DEF OpenWrite
<1>9. ASSUME NEW h \in HandlesF, NEW f \in FilesF, NEW o, WriteAt(h, f, o) PROVE HandlesInv'
  BY <1>3, <1>6, <1>9 DEF WriteAt
<1>10. ASSUME NEW h \in HandlesF, SyncFails(h) PROVE HandlesInv'
  BY <1>3, <1>10 DEF SyncFails
<1> QED BY <1>1, <1>2, <1>4, <1>5, <1>7, <1>8, <1>9, <1>10 DEF FileNext

\* No handle is open at the start.
LEMMA HandlesStart == FileInit => HandlesInv
  BY DEF FileInit, HandlesInv

\* SqliteDurable for any connections, pages, handles and failures (parent_sqlite.rs
\* Root::mutation, Root::open, Vfs::delete; parent_vfs.rs with_exclusive).
THEOREM TransactionsHold == VfsSpec /\ FileSpec => []SqliteDurable
<1>1. VfsInv /\ HandlesInv => SqliteDurable
  BY VfsMeans DEF SqliteDurable, HandlesInv, OkMeansCertain
<1>2. VfsInv /\ [VfsNext]_vfsVars => VfsInv'
  BY VfsKeeps
<1>3. HandlesInv /\ [FileNext]_vfsfVars => HandlesInv'
  BY FilesKeep, FilesAssumption
<1> QED BY <1>1, <1>2, <1>3, VfsStarts, HandlesStart, PTL DEF VfsSpec, FileSpec

-----------------------------------------------------------------------------
(* The inventory of the vault *)

VaultTypes ==
  /\ capture \in {Nil, "live", "cancelled"}
  /\ attempt \in [Parts -> AttemptRows \cup {Nil}]
  /\ object \in [Parts -> ObjectRows \cup {Nil}]
  /\ ownerLog \subseteq [resource : Parts \cup {Whole}, lineage : Lineages]
  /\ call \in CallsPV \cup {Nil}

\* The three rows of a part go together.
PartRows(p) ==
  /\ attempt[p] = Nil \/ attempt[p].state = "prepared" => object[p] = Nil /\ Rows(p) = {}
  /\ attempt[p] # Nil /\ attempt[p].state = "committed" =>
       /\ object[p] # Nil /\ object[p].lineage = attempt[p].lineage
       /\ Rows(p) = {LogRow(p, attempt[p].lineage)}

LogUnique ==
  \A j, k \in ownerLog : j.resource = k.resource \/ j.lineage = k.lineage => j = k

\* What the call under way relies on.
CallKnows ==
  /\ call.at \in {"prepare", "commit"} => call.subject \in Parts
  /\ call.at = "commit" =>
       /\ attempt[call.subject] # Nil /\ attempt[call.subject].state = "prepared"
       /\ attempt[call.subject].lineage = call.lineage
  /\ call.at = "register" => LogRow(call.subject, call.lineage) \in ownerLog
  /\ call.at \in {"tombstone", "erase"} => call.subject = Whole
  /\ call.at = "erase" => capture = "cancelled"

VaultInv ==
  /\ VaultTypes /\ LogUnique
  /\ \A p \in Parts : PartRows(p)
  /\ call # Nil => CallKnows
  /\ registered \subseteq ownerLog
  /\ capture = "cancelled" => NothingPrepared
  /\ CleanedMeansGone

\* The rows of the log for one resource.
LEMMA RowsOf ==
  ASSUME NEW r
  PROVE  \A j : j \in Rows(r) <=> j \in ownerLog /\ j.resource = r
  BY DEF Rows

\* What a row of the log holds.
LEMMA LogRowIs ==
  ASSUME NEW r, NEW l
  PROVE  LogRow(r, l).resource = r /\ LogRow(r, l).lineage = l
  BY DEF LogRow

\* A row that is logged has its type.
LEMMA LogRowType ==
  ASSUME NEW r \in Parts \cup {Whole}, NEW l \in Lineages
  PROVE  LogRow(r, l) \in [resource : Parts \cup {Whole}, lineage : Lineages]
  BY DEF LogRow

\* A row in the table of its own resource is determined by it.
LEMMA VaultMeans ==
  ASSUME VaultInv
  PROVE  InventoryCoherent /\ RegisteredIsDurable /\ CleanedMeansGone
<1>1. CleanedMeansGone /\ RegisteredIsDurable
  BY DEF VaultInv, RegisteredIsDurable, LogUnique
<1>3. ASSUME NEW l \in Lineages, NEW fresh \in BOOLEAN
      PROVE  ObserveWhole(l, fresh) # "Corrupt"
  <2>1. ~(Cardinality(Rows(Whole)) > 1)
    <3>1. CASE Rows(Whole) = {}
      BY <3>1, FS_EmptySet
    <3>2. CASE Rows(Whole) # {}
      <4>1. PICK j : j \in Rows(Whole)
        BY <3>2
      <4>2. Rows(Whole) = {j}
        BY <4>1, RowsOf DEF VaultInv, LogUnique
      <4>3. Cardinality({j}) = 1
        BY FS_Singleton, Zenon
      <4> QED BY <4>2, <4>3
    <3> QED BY <3>1, <3>2
  <2>2. capture # "cancelled" => Rows(Whole) = {}
    BY DEF VaultInv, CleanedMeansGone
  <2> QED BY <2>1, <2>2 DEF ObserveWhole
<1>4. ASSUME NEW l \in Lineages, NEW fresh \in BOOLEAN, NEW p \in Parts
      PROVE  ObservePart(p, l, fresh) # "Corrupt"
  <2>1. PartRows(p) /\ (attempt[p] = Nil \/ attempt[p].state \in {"prepared", "committed"})
    BY DEF VaultInv, VaultTypes, AttemptRows
  <2>2. CASE attempt[p] = Nil
    BY <2>1, <2>2 DEF ObservePart, PartRows
  <2>3. CASE attempt[p] # Nil /\ attempt[p].state = "prepared"
    BY <2>1, <2>3 DEF ObservePart, PartRows
  <2>4. CASE attempt[p] # Nil /\ attempt[p].state = "committed"
    BY <2>1, <2>4 DEF ObservePart, PartRows
  <2> QED BY <2>1, <2>2, <2>3, <2>4
<1> QED BY <1>1, <1>3, <1>4 DEF InventoryCoherent

\* Nothing on disk changes: only the call has to know what it relies on.
LEMMA DiskStays ==
  ASSUME VaultInv, UNCHANGED <<capture, attempt, object, ownerLog>>,
         call' \in CallsPV \cup {Nil}, call' # Nil => CallKnows', registered' \subseteq ownerLog
  PROVE  VaultInv' /\ NoReplay
<1>1. Rows(Whole)' = Rows(Whole) /\ \A p \in Parts : Rows(p)' = Rows(p)
  BY DEF Rows
<1>2. \A p \in Parts : PartRows(p)'
  BY <1>1 DEF VaultInv, PartRows
<1>3. CleanedMeansGone' /\ (capture = "cancelled" => NothingPrepared)'
  BY <1>1 DEF VaultInv, CleanedMeansGone, NothingPrepared
<1>4. VaultTypes' /\ LogUnique'
  BY DEF VaultInv, VaultTypes, LogUnique
<1>5. NoReplay
  BY DEF NoReplay
<1> QED BY <1>2, <1>3, <1>4, <1>5 DEF VaultInv

\* WriteOrReconcile: a call for one part begins.
LEMMA WriteKeeps ==
  ASSUME VaultInv, NEW l \in Lineages, NEW fresh \in BOOLEAN, NEW p \in Parts,
         WriteOrReconcile(p, l, fresh)
  PROVE  VaultInv' /\ NoReplay
<1> DEFINE seen == ObservePart(p, l, fresh)
<1>1. call' = CASE seen = "Durable" -> [subject |-> p, lineage |-> l, at |-> "register"]
                   [] seen = "Unseen" -> [subject |-> p, lineage |-> l, at |-> "prepare"]
                   [] OTHER -> Nil
  BY DEF WriteOrReconcile
<1>2. UNCHANGED <<capture, attempt, object, ownerLog>> /\ UNCHANGED registered
  BY DEF WriteOrReconcile, pvDisk
<1>3. CASE seen = "Durable"
  <2>1. call' = [subject |-> p, lineage |-> l, at |-> "register"]
    BY <1>1, <1>3
  <2>2. Rows(p) = {LogRow(p, l)}
    BY <1>3 DEF ObservePart
  <2>3. LogRow(p, l) \in ownerLog
    BY <2>2, RowsOf
  <2>4. call' \in CallsPV
    BY <2>1 DEF CallsPV
  <2>5. CallKnows'
    BY <1>2, <2>1, <2>3 DEF CallKnows
  <2> QED BY <1>2, <2>4, <2>5, DiskStays DEF VaultInv
<1>4. CASE seen = "Unseen"
  <2>1. call' = [subject |-> p, lineage |-> l, at |-> "prepare"]
    BY <1>1, <1>4
  <2>4. call' \in CallsPV
    BY <2>1 DEF CallsPV
  <2>5. CallKnows'
    BY <2>1 DEF CallKnows
  <2> QED BY <1>2, <2>4, <2>5, DiskStays DEF VaultInv
<1>5. CASE seen \notin {"Durable", "Unseen"}
  <2>1. call' = Nil
    BY <1>1, <1>5
  <2> QED BY <1>2, <2>1, DiskStays DEF VaultInv
<1> QED BY <1>3, <1>4, <1>5

\* CleanUp: a call for the whole capture begins.
LEMMA CleanUpKeeps ==
  ASSUME VaultInv, NEW l \in Lineages, NEW fresh \in BOOLEAN, CleanUp(l, fresh)
  PROVE  VaultInv' /\ NoReplay
<1> DEFINE seen == ObserveWhole(l, fresh)
<1>1. call' = CASE seen = "CancelledCleaned" ->
                        [subject |-> Whole, lineage |-> l, at |-> "register"]
                   [] seen \in {"Unseen", "CleanupPending"} ->
                        [subject |-> Whole, lineage |-> l, at |-> "tombstone"]
                   [] OTHER -> Nil
  BY DEF CleanUp
<1>2. UNCHANGED <<capture, attempt, object, ownerLog>> /\ UNCHANGED registered
  BY DEF CleanUp, pvDisk
<1>3. CASE seen = "CancelledCleaned"
  <2>1. call' = [subject |-> Whole, lineage |-> l, at |-> "register"]
    BY <1>1, <1>3
  <2>2. Rows(Whole) = {LogRow(Whole, l)}
    BY <1>3 DEF ObserveWhole
  <2>3. LogRow(Whole, l) \in ownerLog
    BY <2>2, RowsOf
  <2>4. call' \in CallsPV
    BY <2>1 DEF CallsPV
  <2>5. CallKnows'
    BY <1>2, <2>1, <2>3 DEF CallKnows
  <2> QED BY <1>2, <2>4, <2>5, DiskStays DEF VaultInv
<1>4. CASE seen \in {"Unseen", "CleanupPending"}
  <2>1. call' = [subject |-> Whole, lineage |-> l, at |-> "tombstone"]
    BY <1>1, <1>4
  <2>4. call' \in CallsPV
    BY <2>1 DEF CallsPV
  <2>5. CallKnows'
    BY <2>1 DEF CallKnows
  <2> QED BY <1>2, <2>4, <2>5, DiskStays DEF VaultInv
<1>5. CASE seen \notin {"CancelledCleaned", "Unseen", "CleanupPending"}
  <2>1. call' = Nil
    BY <1>1, <1>5
  <2> QED BY <1>2, <2>1, DiskStays DEF VaultInv
<1> QED BY <1>3, <1>4, <1>5

\* The fields of a call under way.
LEMMA CallIs ==
  ASSUME VaultInv, call # Nil
  PROVE  /\ call \in CallsPV /\ CallKnows
         /\ call.lineage \in Lineages /\ call.subject \in Parts \cup {Whole}
         /\ \A pc \in {"commit", "register", "erase"} :
              /\ [call EXCEPT !.at = pc] \in CallsPV
              /\ [call EXCEPT !.at = pc].at = pc
              /\ [call EXCEPT !.at = pc].subject = call.subject
              /\ [call EXCEPT !.at = pc].lineage = call.lineage
<1>1. call \in CallsPV /\ CallKnows
  BY DEF VaultInv, VaultTypes
<1> QED BY <1>1 DEF CallsPV

\* A call that has ended, or has gone on to a later transaction.
CallEnds == call' = Nil
CallGoesTo(pc) ==
  /\ call' \in CallsPV /\ call'.at = pc
  /\ call'.subject = call.subject /\ call'.lineage = call.lineage

\* A call goes to its next step and keeps the rest.
LEMMA GoesTo ==
  ASSUME VaultInv, call # Nil, NEW pc \in {"commit", "register", "erase"}, PvTo(pc)
  PROVE  CallGoesTo(pc)
  BY CallIs DEF PvTo, CallGoesTo

\* A call that goes on is a call.
LEMMA CallTypes ==
  ASSUME CallEnds \/ \E pc : CallGoesTo(pc)
  PROVE  call' \in CallsPV \cup {Nil}
  BY DEF CallEnds, CallGoesTo

\* Rows of the journal when one is added.
LEMMA LogGrows ==
  ASSUME NEW r, NEW l, ownerLog' = ownerLog \cup {LogRow(r, l)}
  PROVE  /\ Rows(r)' = Rows(r) \cup {LogRow(r, l)}
         /\ \A s : s # r => Rows(s)' = Rows(s)
         /\ LogRow(r, l) \in ownerLog'
  BY LogRowIs DEF Rows

\* One more row of a new lineage leaves the lineages distinct.
LEMMA UniqueGrows ==
  ASSUME LogUnique, NEW r, NEW l, ownerLog' = ownerLog \cup {LogRow(r, l)},
         Rows(r) = {}, LogFree(l)
  PROVE  LogUnique'
  BY LogRowIs DEF LogUnique, Rows, LogFree

\* A commit is prepared.
LEMMA PrepareKeeps ==
  ASSUME VaultInv, Prepare
  PROVE  VaultInv' /\ NoReplay
<1>1. call # Nil /\ call.at = "prepare" /\ call \in CallsPV /\ CallKnows
  BY CallIs DEF Prepare, PvAt
<1>2. PICK p \in Parts : p = call.subject
  BY <1>1 DEF CallKnows
<1>3. PICK l \in Lineages : l = call.lineage
  BY <1>1 DEF CallsPV
<1>4. UNCHANGED <<object, ownerLog, registered>>
  BY DEF Prepare
<1>5. CASE UNCHANGED <<capture, attempt>> /\ Fails
  BY <1>4, <1>5, DiskStays DEF Fails, VaultInv
<1>6. CASE /\ capture # "cancelled" /\ AttemptFree(p, l)
           /\ capture' = IF capture = Nil THEN "live" ELSE capture
           /\ attempt' = [attempt EXCEPT ![p] = [state |-> "prepared", lineage |-> l]]
           /\ Fails \/ PvTo("commit")
  <2>1. attempt[p] = Nil /\ attempt \in [Parts -> AttemptRows \cup {Nil}]
        /\ capture \in {Nil, "live"}
    BY <1>6 DEF AttemptFree, VaultInv, VaultTypes
  <2>2. [state |-> "prepared", lineage |-> l] \in AttemptRows
    BY DEF AttemptRows
  <2>3. attempt' \in [Parts -> AttemptRows \cup {Nil}]
        /\ attempt'[p] = [state |-> "prepared", lineage |-> l]
        /\ \A q \in Parts : q # p => attempt'[q] = attempt[q]
    BY <1>6, <2>1, <2>2
  <2>4. attempt'[p] # Nil /\ attempt'[p].state = "prepared" /\ attempt'[p].lineage = l
    BY <2>2, <2>3, ParentAssumption
  <2>5. capture' = "live"
    BY <1>6, <2>1
  <2>6. CallEnds \/ CallGoesTo("commit")
    BY <1>1, <1>6, GoesTo DEF Fails, CallEnds
  <2>7. VaultTypes' /\ LogUnique'
    BY <1>4, <2>3, <2>5, <2>6, CallTypes DEF VaultInv, VaultTypes, LogUnique
  <2>8. \A r : Rows(r)' = Rows(r)
    BY <1>4 DEF Rows
  <2>9. ASSUME NEW q \in Parts PROVE PartRows(q)'
    <3>1. PartRows(q)
      BY DEF VaultInv
    <3>2. CASE q = p
      BY <1>4, <2>1, <2>4, <2>8, <3>1, <3>2 DEF PartRows
    <3>3. CASE q # p
      BY <1>4, <2>3, <2>8, <3>1, <3>3 DEF PartRows
    <3> QED BY <3>2, <3>3
  <2>10. call' # Nil => CallKnows'
    <3>1. CASE CallEnds
      BY <3>1 DEF CallEnds
    <3>2. CASE CallGoesTo("commit")
      BY <1>2, <1>3, <2>4, <3>2 DEF CallGoesTo, CallKnows
    <3> QED BY <2>6, <3>1, <3>2
  <2>11. Rows(Whole) = {}
    BY <1>6 DEF VaultInv, CleanedMeansGone
  <2>12. CleanedMeansGone' /\ (capture = "cancelled" => NothingPrepared)'
    BY <2>5, <2>8, <2>11 DEF CleanedMeansGone
  <2>13. NoReplay
    BY <1>4, <2>1, <2>3 DEF NoReplay
  <2> QED BY <1>4, <2>7, <2>9, <2>10, <2>12, <2>13 DEF VaultInv
<1> QED BY <1>2, <1>3, <1>5, <1>6 DEF Prepare

\* A prepared commit is made final.
LEMMA CommitKeeps ==
  ASSUME VaultInv, Commit
  PROVE  VaultInv' /\ NoReplay
<1>1. call # Nil /\ call.at = "commit" /\ call \in CallsPV /\ CallKnows
  BY CallIs DEF Commit, PvAt
<1>2. PICK p \in Parts : p = call.subject
  BY <1>1 DEF CallKnows
<1>3. PICK l \in Lineages : l = call.lineage
  BY <1>1 DEF CallsPV
<1>4. UNCHANGED <<capture, registered>>
  BY DEF Commit
<1>5. CASE UNCHANGED <<object, attempt, ownerLog>> /\ call' = Nil
  BY <1>4, <1>5, DiskStays DEF VaultInv
<1>6. CASE /\ capture = "live" /\ LogFree(l)
           /\ object' = [object EXCEPT ![p] = [body |-> TRUE, lineage |-> l]]
           /\ attempt' = [attempt EXCEPT ![p].state = "committed"]
           /\ ownerLog' = ownerLog \cup {LogRow(p, l)}
           /\ Fails \/ PvTo("register")
  <2>1. attempt[p] # Nil /\ attempt[p].state = "prepared" /\ attempt[p].lineage = l
        /\ attempt[p] \in AttemptRows
    BY <1>1, <1>2, <1>3 DEF CallKnows, VaultInv, VaultTypes
  <2>2. object[p] = Nil /\ Rows(p) = {}
    BY <2>1 DEF VaultInv, PartRows
  <2>3. [attempt[p] EXCEPT !.state = "committed"] \in AttemptRows
        /\ [attempt[p] EXCEPT !.state = "committed"].state = "committed"
        /\ [attempt[p] EXCEPT !.state = "committed"].lineage = l
    BY <2>1 DEF AttemptRows
  <2>4. attempt' \in [Parts -> AttemptRows \cup {Nil}]
        /\ attempt'[p] = [attempt[p] EXCEPT !.state = "committed"]
        /\ \A q \in Parts : q # p => attempt'[q] = attempt[q]
    BY <1>6, <2>3 DEF VaultInv, VaultTypes
  <2>5. attempt'[p] # Nil /\ attempt'[p].state = "committed" /\ attempt'[p].lineage = l
    BY <2>3, <2>4, ParentAssumption
  <2>6. [body |-> TRUE, lineage |-> l] \in ObjectRows
    BY DEF ObjectRows
  <2>7. object' \in [Parts -> ObjectRows \cup {Nil}]
        /\ object'[p] = [body |-> TRUE, lineage |-> l]
        /\ \A q \in Parts : q # p => object'[q] = object[q]
    BY <1>6, <2>6 DEF VaultInv, VaultTypes
  <2>8. object'[p] # Nil /\ object'[p].lineage = l
    <3>1. object'[p] \in ObjectRows /\ Nil \notin ObjectRows
      BY <2>6, <2>7, ParentAssumption
    <3>2. [body |-> TRUE, lineage |-> l].lineage = l
      OBVIOUS
    <3>3. object'[p].lineage = l
      BY <2>7, <3>2, Zenon
    <3> QED BY <3>1, <3>3
  <2>9. Rows(p)' = {LogRow(p, l)} /\ (\A r : r # p => Rows(r)' = Rows(r))
        /\ LogRow(p, l) \in ownerLog'
    BY <1>6, <2>2, LogGrows
  <2>10. CallEnds \/ CallGoesTo("register")
    BY <1>1, <1>6, GoesTo DEF Fails, CallEnds
  <2>11. VaultTypes'
    BY <1>4, <1>6, <2>4, <2>7, <2>10, CallTypes, LogRowType DEF VaultInv, VaultTypes
  <2>12. LogUnique'
    BY <1>6, <2>2, UniqueGrows DEF VaultInv
  <2>13. ASSUME NEW q \in Parts PROVE PartRows(q)'
    <3>1. CASE q = p
      BY <2>5, <2>8, <2>9, <3>1 DEF PartRows
    <3>2. CASE q # p
      BY <2>4, <2>7, <2>9, <3>2 DEF PartRows, VaultInv
    <3> QED BY <3>1, <3>2
  <2>14. call' # Nil => CallKnows'
    <3>1. CASE CallEnds
      BY <3>1 DEF CallEnds
    <3>2. CASE CallGoesTo("register")
      BY <1>2, <1>3, <2>9, <3>2 DEF CallGoesTo, CallKnows
    <3> QED BY <2>10, <3>1, <3>2
  <2>15. CleanedMeansGone' /\ (capture = "cancelled" => NothingPrepared)'
    <3>1. Rows(Whole)' = {}
      BY <1>6, <2>9, ParentAssumption DEF VaultInv, CleanedMeansGone
    <3> QED BY <1>4, <1>6, <3>1 DEF CleanedMeansGone
  <2>16. NoReplay
    BY <2>1, <2>2, <2>4, <2>5, <2>7 DEF NoReplay
  <2>17. registered' \subseteq ownerLog'
    BY <1>4, <1>6 DEF VaultInv
  <2> QED BY <2>11, <2>12, <2>13, <2>14, <2>15, <2>16, <2>17 DEF VaultInv
<1> QED BY <1>2, <1>3, <1>5, <1>6 DEF Commit, Fails

\* An object is registered once its parts are durable.
LEMMA RegisterKeeps ==
  ASSUME VaultInv, Register
  PROVE  VaultInv' /\ NoReplay
<1>1. LogRow(call.subject, call.lineage) \in ownerLog /\ registered \subseteq ownerLog
  BY DEF Register, PvAt, VaultInv, CallKnows
<1>2. UNCHANGED <<capture, attempt, object, ownerLog>> /\ call' = Nil
  BY DEF Register, pvDisk
<1>3. registered' \subseteq ownerLog
  BY <1>1 DEF Register
<1> QED BY <1>2, <1>3, DiskStays

\* An object is marked as deleted.
LEMMA TombstoneKeeps ==
  ASSUME VaultInv, Tombstone
  PROVE  VaultInv' /\ NoReplay
<1>1. call # Nil /\ call \in CallsPV
  BY CallIs DEF Tombstone, PvAt
<1>0. call.subject = Whole
  BY CallIs DEF Tombstone, PvAt, CallKnows
<1>2. UNCHANGED <<attempt, object, ownerLog, registered>>
  BY DEF Tombstone
<1>3. CASE UNCHANGED capture /\ call' = Nil
  BY <1>2, <1>3, DiskStays DEF VaultInv
<1>4. CASE NothingPrepared /\ capture' = "cancelled" /\ (PvTo("erase") \/ Fails)
  <2>1. CallEnds \/ CallGoesTo("erase")
    BY <1>1, <1>4, GoesTo DEF Fails, CallEnds
  <2>2. VaultTypes' /\ LogUnique'
    BY <1>2, <1>4, <2>1, CallTypes DEF VaultInv, VaultTypes, LogUnique
  <2>3. \A r : Rows(r)' = Rows(r)
    BY <1>2 DEF Rows
  <2>4. \A p \in Parts : PartRows(p)'
    BY <1>2, <2>3 DEF VaultInv, PartRows
  <2>5. call' # Nil => CallKnows'
    BY <1>0, <1>4, <2>1 DEF CallEnds, CallGoesTo, CallKnows
  <2>6. NothingPrepared'
    BY <1>2, <1>4 DEF NothingPrepared
  <2>7. CleanedMeansGone'
    BY <1>2, <1>4, <2>3, <2>6 DEF VaultInv, CleanedMeansGone, NothingPrepared
  <2>8. NoReplay
    BY <1>2 DEF NoReplay
  <2> QED BY <1>2, <2>2, <2>4, <2>5, <2>6, <2>7, <2>8 DEF VaultInv
<1> QED BY <1>3, <1>4 DEF Tombstone, Fails

\* The parts of a deleted object are erased.
LEMMA EraseKeeps ==
  ASSUME VaultInv, Erase
  PROVE  VaultInv' /\ NoReplay
<1>1. call # Nil /\ call.at = "erase" /\ call \in CallsPV /\ CallKnows
  BY CallIs DEF Erase, PvAt
<1>2. PICK l \in Lineages : l = call.lineage
  BY <1>1 DEF CallsPV
<1>3. UNCHANGED <<capture, attempt, registered>> /\ capture = "cancelled"
  BY <1>1 DEF Erase, CallKnows
<1>4. CASE UNCHANGED <<object, ownerLog>> /\ call' = Nil
  BY <1>3, <1>4, DiskStays DEF VaultInv
<1>5. CASE UNCHANGED <<object, ownerLog>> /\ PvTo("register")
           /\ Rows(Whole) = {LogRow(Whole, call.lineage)}
  <2>1. CallGoesTo("register")
    BY <1>1, <1>5, GoesTo
  <2>2. LogRow(Whole, call.lineage) \in ownerLog
    BY <1>5, RowsOf
  <2>3. CallKnows'
    BY <1>1, <1>5, <2>1, <2>2 DEF CallGoesTo, CallKnows
  <2> QED BY <1>3, <1>5, <2>1, <2>3, DiskStays, CallTypes DEF VaultInv
<1>6. CASE /\ Rows(Whole) = {} /\ LogFree(l)
           /\ object' = [p \in Parts |-> IF object[p] # Nil THEN WithoutBody(object[p]) ELSE Nil]
           /\ ownerLog' = ownerLog \cup {LogRow(Whole, l)}
           /\ Fails \/ PvTo("register")
  <2>1. \A o \in ObjectRows : /\ WithoutBody(o) \in ObjectRows
                              /\ WithoutBody(o).lineage = o.lineage
                              /\ WithoutBody(o).body = FALSE
    BY DEF ObjectRows, WithoutBody
  <2>2. object \in [Parts -> ObjectRows \cup {Nil}] /\ Nil \notin ObjectRows
    BY ParentAssumption DEF VaultInv, VaultTypes
  <2>3. object' \in [Parts -> ObjectRows \cup {Nil}]
    BY <1>6, <2>1, <2>2
  <2>4. \A p \in Parts : /\ object[p] = Nil => object'[p] = Nil
                         /\ object[p] # Nil => /\ object'[p] # Nil
                                               /\ object'[p].lineage = object[p].lineage
                                               /\ object'[p].body = FALSE
    BY <1>6, <2>1, <2>2
  <2>5. (\A r : r # Whole => Rows(r)' = Rows(r)) /\ LogRow(Whole, l) \in ownerLog'
    BY <1>6, LogGrows
  <2>6. CallEnds \/ CallGoesTo("register")
    BY <1>1, <1>6, GoesTo DEF Fails, CallEnds
  <2>7. VaultTypes'
    BY <1>3, <1>6, <2>3, <2>6, CallTypes, LogRowType DEF VaultInv, VaultTypes
  <2>8. LogUnique'
    BY <1>6, UniqueGrows DEF VaultInv
  <2>9. ASSUME NEW q \in Parts PROVE PartRows(q)'
    <3>1. PartRows(q) /\ Rows(q)' = Rows(q)
      BY <2>5, ParentAssumption DEF VaultInv
    <3> QED BY <1>3, <2>4, <3>1 DEF PartRows
  <2>10. call' # Nil => CallKnows'
    BY <1>1, <1>2, <2>5, <2>6 DEF CallEnds, CallGoesTo, CallKnows
  <2>11. NothingPrepared'
    BY <1>3 DEF VaultInv, NothingPrepared
  <2>12. CleanedMeansGone'
    BY <1>3, <2>4, <2>11 DEF CleanedMeansGone, NothingPrepared
  <2>13. NoReplay
    BY <1>3, <2>4 DEF NoReplay
  <2>14. registered' \subseteq ownerLog'
    BY <1>3, <1>6 DEF VaultInv
  <2> QED BY <2>7, <2>8, <2>9, <2>10, <2>11, <2>12, <2>13, <2>14 DEF VaultInv
<1> QED BY <1>2, <1>4, <1>5, <1>6 DEF Erase, Fails

\* The inventory starts empty.
LEMMA VaultStarts == ParentInit => VaultInv
<1> SUFFICES ASSUME ParentInit PROVE VaultInv
  OBVIOUS
<1>1. \A r : Rows(r) = {}
  BY DEF ParentInit, Rows
<1>2. VaultTypes /\ LogUnique /\ call = Nil /\ registered \subseteq ownerLog
      /\ capture # "cancelled"
  BY ParentAssumption DEF ParentInit, VaultTypes, LogUnique
<1>3. \A p \in Parts : PartRows(p)
  BY <1>1 DEF ParentInit, PartRows
<1>4. CleanedMeansGone
  BY <1>1 DEF CleanedMeansGone
<1> QED BY <1>2, <1>3, <1>4 DEF VaultInv

\* Every step keeps the invariant of the inventory and replays nothing.
LEMMA VaultKeeps ==
  ASSUME VaultInv, [ParentNext]_pvVars
  PROVE  VaultInv' /\ NoReplay
<1>1. CASE UNCHANGED pvVars
  <2>1. UNCHANGED <<capture, attempt, object, ownerLog, call, registered>>
    BY <1>1 DEF pvVars, pvDisk
  <2>2. CallKnows' = CallKnows
    BY <2>1 DEF CallKnows
  <2> QED BY <2>1, <2>2, DiskStays DEF VaultInv, VaultTypes
<1>2. CASE CancelCapture
  <2>1. UNCHANGED <<capture, attempt, object, ownerLog, call, registered>>
    BY <1>2 DEF CancelCapture, pvDisk
  <2>2. CallKnows' = CallKnows
    BY <2>1 DEF CallKnows
  <2> QED BY <2>1, <2>2, DiskStays DEF VaultInv, VaultTypes
<1>3. CASE Reopen
  <2>1. UNCHANGED <<capture, attempt, object, ownerLog, registered>> /\ call' = Nil
    BY <1>3 DEF Reopen, pvDisk
  <2> QED BY <2>1, DiskStays DEF VaultInv
<1>4. ASSUME NEW l \in Lineages, NEW fresh \in BOOLEAN,
             CleanUp(l, fresh) \/ \E p \in Parts : WriteOrReconcile(p, l, fresh)
      PROVE  VaultInv' /\ NoReplay
  BY <1>4, CleanUpKeeps, WriteKeeps
<1> QED BY <1>1, <1>2, <1>3, <1>4, PrepareKeeps, CommitKeeps, RegisterKeeps, TombstoneKeeps,
           EraseKeeps DEF ParentNext

\* VaultSound for any parts, lineages and journal size, any number of calls, failures
\* and reopenings (parent_adapter.rs, parent_authority.rs, parent_backend.rs).
THEOREM VaultHolds == ParentSpec => VaultSound
<1>1. VaultInv /\ [ParentNext]_pvVars
        => VaultInv' /\ [NoReplay /\ InventoryCoherent' /\ RegisteredIsDurable' /\ CleanedMeansGone']_pvVars
  <2> SUFFICES ASSUME VaultInv, [ParentNext]_pvVars
               PROVE  VaultInv' /\ NoReplay /\ InventoryCoherent' /\ RegisteredIsDurable'
                                /\ CleanedMeansGone'
    OBVIOUS
  <2>1. VaultInv' /\ NoReplay
    BY VaultKeeps
  <2>2. InventoryCoherent' /\ RegisteredIsDurable' /\ CleanedMeansGone'
    BY <2>1, VaultMeans, PTL
  <2> QED BY <2>1, <2>2
<1> QED BY <1>1, VaultStarts, PTL DEF ParentSpec, VaultSound

-----------------------------------------------------------------------------
(* The provider and its captures *)

ProviderTypes ==
  /\ record \in [Requests -> RecordsP \cup {Void}]
  /\ staged \in [Requests -> DataP \cup {Void}]
  /\ published \in [Targets -> ObjectFiles \cup {Void}]
  /\ staging \in StagingP \cup {Void}
  /\ damaged \in BOOLEAN /\ poisonFile \in BOOLEAN

\* Sequences are handed out once, and objects to one request.
SequencesUnique ==
  \A r, q \in Requests : Reserved(r) /\ Reserved(q) /\ r # q =>
    /\ Target[r] # Target[q]
    /\ record[r].seq > 0 => record[r].seq # record[q].seq

TakenSeqs == {0} \cup {record[r].seq : r \in {q \in Requests : Reserved(q)}}
LastSeq == \E n \in TakenSeqs : \A k \in TakenSeqs : k <= n

\* What the call under way has seen to.
StagingKnows ==
  LET r == staging.request
  IN  /\ record[r] = [seq |-> 0]
      /\ staging.at \in {"sync_file", "rename"} => staged[r] = "full"
      /\ ~damaged =>
           /\ staging.at \in {"rename", "directories", "commit"} => r \in synced
           /\ staging.at \in {"sync_object", "directories", "commit"} => ReadableObject(r)
           /\ staging.at = "commit" => Target[r] \in settled

\* The bytes of a commit are where no crash takes them.
DurableStays ==
  \A r \in Requests : IsDurable(r) => ReadableObject(r) /\ r \in synced /\ Target[r] \in settled

ProviderInv ==
  /\ ProviderTypes /\ SequencesUnique /\ LastSeq
  /\ staging # Void => ~poisonFile /\ StagingKnows
  /\ ~damaged => ~poisonFile /\ DurableStays

\* A durable record can be read.
LEMMA ProviderMeans == ProviderInv => DurableIsReadable
  BY DEF ProviderInv, DurableIsReadable, Consistent, DurableStays

\* A reserved request has a record with a sequence number.
LEMMA SeqTyped ==
  ASSUME ProviderTypes, NEW r \in Requests, Reserved(r)
  PROVE  record[r] \in RecordsP /\ record[r].seq \in Nat
  BY DEF ProviderTypes, RecordsP, Reserved

\* Nothing is committed or reserved: the rows say what they said.
LEMMA RowsStay ==
  ASSUME ProviderInv, record' = record
  PROVE  SequencesUnique' /\ LastSeq' /\ CommitsStand
<1>1. \A r \in Requests : Reserved(r)' = Reserved(r) /\ IsDurable(r)' = IsDurable(r)
  BY DEF Reserved, IsDurable
<1>2. SequencesUnique'
  BY <1>1 DEF ProviderInv, SequencesUnique
<1>3. LastSeq'
  BY DEF ProviderInv, LastSeq, TakenSeqs, Reserved
<1>4. CommitsStand
  <2> SUFFICES ASSUME NEW r \in Requests, IsDurable(r), NEW q \in Requests \ {r}, record[q] # Void
               PROVE  record[q].seq # record[r].seq /\ Target[q] # Target[r]
    BY DEF CommitsStand
  <2>1. Reserved(r) /\ Reserved(q) /\ record[r].seq > 0
    BY DEF IsDurable, Reserved
  <2> QED BY <2>1 DEF ProviderInv, SequencesUnique
<1> QED BY <1>2, <1>3, <1>4

\* A record that is durable and readable stays so.
LEMMA DurableKept ==
  ASSUME DurableStays, record' = record, published' = published, synced \subseteq synced',
         settled \subseteq settled'
  PROVE  DurableStays'
  BY DEF DurableStays, IsDurable, Reserved, ReadableObject

\* The fields of a staged request.
LEMMA StagingIs ==
  ASSUME ProviderInv, staging # Void
  PROVE  /\ staging \in StagingP /\ staging.request \in Requests /\ StagingKnows /\ ~poisonFile
         /\ \A pc \in {"sync_object", "write", "sync_file", "rename", "directories", "commit"} :
              /\ [staging EXCEPT !.at = pc] \in StagingP
              /\ [staging EXCEPT !.at = pc].at = pc
              /\ [staging EXCEPT !.at = pc].request = staging.request
<1>1. staging \in StagingP /\ StagingKnows /\ ~poisonFile
  BY DEF ProviderInv, ProviderTypes
<1> QED BY <1>1 DEF StagingP

\* The call ends, nothing else happens.
LEMMA CallOver ==
  ASSUME ProviderInv, staging' = Void,
         UNCHANGED <<record, staged, published, synced, settled, poisonFile, damaged>>
  PROVE  ProviderInv' /\ CommitsStand
<1>1. SequencesUnique' /\ LastSeq' /\ CommitsStand
  BY RowsStay
<1>2. ProviderTypes'
  BY DEF ProviderInv, ProviderTypes
<1>3. ~damaged' => ~poisonFile' /\ DurableStays'
  BY DurableKept DEF ProviderInv
<1> QED BY <1>1, <1>2, <1>3 DEF ProviderInv

\* A provider that finds itself inconsistent is poisoned.
LEMMA PoisonKeeps ==
  ASSUME ProviderInv, Poison
  PROVE  ProviderInv' /\ CommitsStand
<1>1. SequencesUnique' /\ LastSeq' /\ CommitsStand
  BY RowsStay DEF Poison
<1>2. ProviderTypes'
  BY DEF ProviderInv, ProviderTypes, Poison, providerFiles
<1>3. damaged
  BY DEF Poison, ProviderInv, Consistent, DurableStays
<1>4. staging' = Void /\ damaged'
  BY <1>3 DEF Poison, Available
<1> QED BY <1>1, <1>2, <1>4 DEF ProviderInv

\* A request reserves its place in the records.
LEMMA ReserveKeeps ==
  ASSUME ProviderInv, NEW r \in Requests, Reserve(r)
  PROVE  ProviderInv' /\ CommitsStand
<1>1. /\ ~poisonFile /\ ~IsDurable(r) /\ ~Clashes(r)
      /\ record' = [record EXCEPT ![r] = [seq |-> 0]]
      /\ staging' = [request |-> r, again |-> Reserved(r), at |-> "file"]
      /\ UNCHANGED <<staged, published, synced, settled, poisonFile, damaged>>
  BY DEF Reserve, Available, providerFiles
<1>2. [seq |-> 0] \in RecordsP /\ [seq |-> 0].seq = 0 /\ [seq |-> 0] # Void
  BY ProviderAssumption DEF RecordsP
<1>3. record' \in [Requests -> RecordsP \cup {Void}] /\ record'[r] = [seq |-> 0]
      /\ \A q \in Requests : q # r => record'[q] = record[q]
  BY <1>1, <1>2 DEF ProviderInv, ProviderTypes
<1>4. staging' \in StagingP /\ staging'.request = r /\ staging'.at = "file"
  <2>1. Reserved(r) \in BOOLEAN
    BY DEF Reserved
  <2> QED BY <1>1, <2>1 DEF StagingP
<1>5. ProviderTypes'
  BY <1>1, <1>3, <1>4 DEF ProviderInv, ProviderTypes
<1>6. Reserved(r)' /\ ~IsDurable(r)' /\ record'[r].seq = 0
  BY <1>2, <1>3 DEF Reserved, IsDurable
<1>7. \A q \in Requests : q # r => /\ Reserved(q)' = Reserved(q) /\ IsDurable(q)' = IsDurable(q)
                                   /\ Reserved(q) => Target[q] # Target[r]
  BY <1>1, <1>3 DEF Reserved, IsDurable, Clashes
<1>8. SequencesUnique'
  <2> SUFFICES ASSUME NEW a \in Requests, NEW b \in Requests, Reserved(a)', Reserved(b)', a # b
               PROVE  Target[a] # Target[b] /\ (record'[a].seq > 0 => record'[a].seq # record'[b].seq)
    BY DEF SequencesUnique
  <2>1. CASE a = r
    BY <1>6, <1>7, <2>1
  <2>2. CASE b = r
    <3>1. record[a] \in RecordsP /\ record[a].seq \in Nat /\ record'[a] = record[a]
      BY <1>3, <1>7, <2>2, SeqTyped DEF ProviderInv
    <3> QED BY <1>6, <1>7, <2>2, <3>1
  <2>3. CASE a # r /\ b # r
    BY <1>3, <1>7, <2>3 DEF ProviderInv, SequencesUnique
  <2> QED BY <2>1, <2>2, <2>3
<1>9. TakenSeqs' = TakenSeqs
  <2>1. ASSUME Reserved(r) PROVE record[r].seq = 0
    BY <1>1, <2>1, SeqTyped DEF IsDurable, ProviderInv
  <2>2. ASSUME NEW k \in TakenSeqs' PROVE k \in TakenSeqs
    BY <1>3, <1>6, <1>7, <2>2 DEF TakenSeqs
  <2>3. ASSUME NEW k \in TakenSeqs PROVE k \in TakenSeqs'
    BY <1>3, <1>6, <1>7, <2>1, <2>3 DEF TakenSeqs
  <2> QED BY <2>2, <2>3
<1>10. LastSeq'
  BY <1>9 DEF ProviderInv, LastSeq
<1>11. StagingKnows'
  BY <1>3, <1>4 DEF StagingKnows
<1>12. ~damaged' => ~poisonFile' /\ DurableStays'
  <2> SUFFICES ASSUME ~damaged, NEW q \in Requests, IsDurable(q)'
               PROVE  (ReadableObject(q) /\ q \in synced /\ Target[q] \in settled)'
    BY <1>1 DEF DurableStays
  <2>1. q # r /\ IsDurable(q)
    BY <1>6, <1>7
  <2> QED BY <1>1, <2>1 DEF ProviderInv, DurableStays, ReadableObject
<1>13. CommitsStand
  <2> SUFFICES ASSUME NEW a \in Requests, IsDurable(a)
               PROVE  /\ record'[a] = record[a]
                      /\ \A q \in Requests \ {a} : record'[q] # Void =>
                             record'[q].seq # record[a].seq /\ Target[q] # Target[a]
    BY <1>1 DEF CommitsStand
  <2>1. a # r /\ Reserved(a) /\ record[a].seq > 0 /\ record[a].seq \in Nat
    BY <1>1, SeqTyped DEF IsDurable, ProviderInv
  <2>2. record'[a] = record[a] /\ Reserved(a)'
    BY <1>3, <1>7, <2>1
  <2>3. ASSUME NEW q \in Requests \ {a}, record'[q] # Void
        PROVE  record'[q].seq # record[a].seq /\ Target[q] # Target[a]
    <3>1. Reserved(q)'
      BY <2>3 DEF Reserved
    <3> QED BY <1>8, <2>1, <2>2, <2>3, <3>1 DEF SequencesUnique
  <2> QED BY <2>2, <2>3
<1> QED BY <1>1, <1>5, <1>8, <1>10, <1>11, <1>12, <1>13 DEF ProviderInv

\* The call goes on at pc: rows stay, files may have changed.
LEMMA ProviderGoesOn ==
  ASSUME ProviderInv, staging # Void,
         NEW pc \in {"sync_object", "write", "sync_file", "rename", "directories", "commit"},
         StTo(pc), UNCHANGED <<record, poisonFile, damaged>>,
         staged' \in [Requests -> DataP \cup {Void}],
         published' \in [Targets -> ObjectFiles \cup {Void}],
         ~damaged => DurableStays',
         staging'.request = staging.request /\ staging'.at = pc => StagingKnows'
  PROVE  ProviderInv' /\ CommitsStand
<1>1. SequencesUnique' /\ LastSeq' /\ CommitsStand
  BY RowsStay
<1>2. staging' \in StagingP /\ staging'.at = pc /\ staging'.request = staging.request
  BY StagingIs DEF StTo
<1>3. ProviderTypes'
  BY <1>2 DEF ProviderInv, ProviderTypes
<1> QED BY <1>1, <1>2, <1>3 DEF ProviderInv

\* A retry finds the object that is already there.
LEMMA AdoptObjectKeeps ==
  ASSUME ProviderInv, AdoptObject
  PROVE  ProviderInv' /\ CommitsStand
<1>1. /\ staging # Void /\ UNCHANGED <<record, staged, published, synced, settled, poisonFile, damaged>>
  BY DEF AdoptObject, StAt, providerFiles
<1>2. CASE staging' = Void
  BY <1>1, <1>2, CallOver
<1>3. CASE ReadableObject(staging.request) /\ StTo("sync_object")
  <2>1. record[staging.request] = [seq |-> 0]
    BY <1>1, StagingIs DEF StagingKnows
  <2>2. staging'.request = staging.request /\ staging'.at = "sync_object" => StagingKnows'
    BY <1>1, <1>3, <2>1 DEF StagingKnows, ReadableObject
  <2>3. ~damaged => DurableStays'
    BY <1>1, DurableKept DEF ProviderInv
  <2> QED BY <1>1, <1>3, <2>2, <2>3, ProviderGoesOn DEF ProviderInv, ProviderTypes
<1> QED BY <1>2, <1>3 DEF AdoptObject

\* The object that was found is synced.
LEMMA SyncObjectKeeps ==
  ASSUME ProviderInv, SyncObject
  PROVE  ProviderInv' /\ CommitsStand
<1>1. /\ staging # Void /\ UNCHANGED <<record, staged, published, settled, poisonFile, damaged>>
      /\ staging.at = "sync_object" /\ synced' = synced \cup {staging.request} /\ StTo("directories")
  BY DEF SyncObject, StAt
<1>2. staging'.request = staging.request /\ staging'.at = "directories" => StagingKnows'
  BY <1>1, StagingIs DEF StagingKnows, ReadableObject
<1>3. ~damaged => DurableStays'
  BY <1>1, DurableKept DEF ProviderInv
<1> QED BY <1>1, <1>2, <1>3, ProviderGoesOn DEF ProviderInv, ProviderTypes

\* A retry finds the staged file.
LEMMA AdoptStagedKeeps ==
  ASSUME ProviderInv, AdoptStaged
  PROVE  ProviderInv' /\ CommitsStand
<1>1. /\ staging # Void /\ UNCHANGED <<record, staged, published, synced, settled, poisonFile, damaged>>
  BY DEF AdoptStaged, StAt, providerFiles
<1>2. CASE staging' = Void
  BY <1>1, <1>2, CallOver
<1>3. CASE staged[staging.request] = "full" /\ StTo("sync_file")
  <2>1. record[staging.request] = [seq |-> 0]
    BY <1>1, StagingIs DEF StagingKnows
  <2>2. staging'.request = staging.request /\ staging'.at = "sync_file" => StagingKnows'
    BY <1>1, <1>3, <2>1 DEF StagingKnows
  <2>3. ~damaged => DurableStays'
    BY <1>1, DurableKept DEF ProviderInv
  <2> QED BY <1>1, <1>3, <2>2, <2>3, ProviderGoesOn DEF ProviderInv, ProviderTypes
<1> QED BY <1>2, <1>3 DEF AdoptStaged

\* The staged file is written.
LEMMA WriteStageKeeps ==
  ASSUME ProviderInv, CreateStage \/ WriteStage
  PROVE  ProviderInv' /\ CommitsStand
<1>1. PICK d \in DataP, pc \in {"write", "sync_file"} :
        /\ staging # Void /\ UNCHANGED <<record, published, synced, settled, poisonFile, damaged>>
        /\ staged' = [staged EXCEPT ![staging.request] = d]
        /\ StTo(pc) /\ (pc = "sync_file" => d = "full")
  BY DEF CreateStage, WriteStage, StAt, DataP
<1>2. staging.request \in Requests /\ StagingKnows
  BY <1>1, StagingIs
<1>3. staged' \in [Requests -> DataP \cup {Void}] /\ staged'[staging.request] = d
  BY <1>1, <1>2 DEF ProviderInv, ProviderTypes
<1>4. staging'.request = staging.request /\ staging'.at = pc => StagingKnows'
  BY <1>1, <1>2, <1>3 DEF StagingKnows
<1>5. ~damaged => DurableStays'
  BY <1>1, DurableKept DEF ProviderInv
<1> QED BY <1>1, <1>3, <1>4, <1>5, ProviderGoesOn DEF ProviderInv, ProviderTypes

\* The staged file is synced.
LEMMA SyncFileKeeps ==
  ASSUME ProviderInv, SyncFile
  PROVE  ProviderInv' /\ CommitsStand
<1>1. /\ staging # Void /\ UNCHANGED <<record, staged, published, settled, poisonFile, damaged>>
      /\ staging.at = "sync_file" /\ synced' = synced \cup {staging.request} /\ StTo("rename")
  BY DEF SyncFile, StAt
<1>2. staging'.request = staging.request /\ staging'.at = "rename" => StagingKnows'
  BY <1>1, StagingIs DEF StagingKnows
<1>3. ~damaged => DurableStays'
  BY <1>1, DurableKept DEF ProviderInv
<1> QED BY <1>1, <1>2, <1>3, ProviderGoesOn DEF ProviderInv, ProviderTypes

\* A synced file gets the name of its object, unless that is taken.
LEMMA PublishKeeps ==
  ASSUME ProviderInv, Publish
  PROVE  ProviderInv' /\ CommitsStand
<1>1. /\ staging # Void /\ UNCHANGED <<record, synced, settled, poisonFile, damaged>>
      /\ staging.at = "rename"
  BY DEF Publish, StAt
<1>2. PICK r \in Requests : r = staging.request
  BY <1>1, StagingIs
<1>3. CASE staging' = Void /\ UNCHANGED <<staged, published>>
  BY <1>1, <1>3, CallOver
<1>4. CASE /\ published[Target[r]] = Void
           /\ published' = [published EXCEPT ![Target[r]] = [of |-> r, data |-> staged[r]]]
           /\ staged' = [staged EXCEPT ![r] = Void]
           /\ StTo("directories")
  <2>1. Target[r] \in Targets
    BY DEF Targets
  <2>2. StagingKnows
    BY <1>1, StagingIs
  <2>3. staged' \in [Requests -> DataP \cup {Void}] /\ staged'[r] = Void
    BY <1>4 DEF ProviderInv, ProviderTypes
  <2>4. published'[Target[r]] = [of |-> r, data |-> staged[r]]
        /\ \A t \in Targets : t # Target[r] => published'[t] = published[t]
    BY <1>4, <2>1 DEF ProviderInv, ProviderTypes
  <2>5. staged[r] = "full"
    BY <1>1, <1>2, <2>2 DEF StagingKnows
  <2>6. [of |-> r, data |-> "full"] \in ObjectFiles /\ [of |-> r, data |-> "full"] # Void
    BY ProviderAssumption DEF ObjectFiles, DataP
  <2>7. published' \in [Targets -> ObjectFiles \cup {Void}]
    BY <1>4, <2>5, <2>6 DEF ProviderInv, ProviderTypes
  <2>8. ~damaged => DurableStays'
    <3> SUFFICES ASSUME ~damaged, NEW q \in Requests, IsDurable(q)'
                 PROVE  (ReadableObject(q) /\ q \in synced /\ Target[q] \in settled)'
      BY DEF DurableStays
    <3>1. ReadableObject(q) /\ q \in synced /\ Target[q] \in settled
      BY <1>1 DEF ProviderInv, DurableStays, IsDurable, Reserved
    <3>2. [of |-> q, data |-> "full"] # Void /\ Target[q] \in Targets
      BY ProviderAssumption DEF ObjectFiles, DataP, Targets
    <3>3. Target[q] # Target[r]
      BY <1>4, <3>1, <3>2 DEF ReadableObject
    <3> QED BY <1>1, <2>4, <3>1, <3>2, <3>3 DEF ReadableObject
  <2>9. staging'.request = staging.request /\ staging'.at = "directories" => StagingKnows'
    BY <1>1, <1>2, <2>2, <2>4, <2>5 DEF StagingKnows, ReadableObject
  <2> QED BY <1>1, <1>4, <2>3, <2>7, <2>8, <2>9, ProviderGoesOn
<1> QED BY <1>2, <1>3, <1>4 DEF Publish

\* The directories are synced.
LEMMA DirectoriesKeeps ==
  ASSUME ProviderInv, SyncDirectories
  PROVE  ProviderInv' /\ CommitsStand
<1>1. /\ staging # Void /\ UNCHANGED <<record, staged, published, synced, poisonFile, damaged>>
      /\ staging.at = "directories" /\ settled' = settled \cup {Target[staging.request]}
      /\ StTo("commit")
  BY DEF SyncDirectories, StAt
<1>2. staging'.request = staging.request /\ staging'.at = "commit" => StagingKnows'
  BY <1>1, StagingIs DEF StagingKnows, ReadableObject
<1>3. ~damaged => DurableStays'
  BY <1>1, DurableKept DEF ProviderInv
<1> QED BY <1>1, <1>2, <1>3, ProviderGoesOn DEF ProviderInv, ProviderTypes

\* The sequence of a commit is greater than any other.
LEMMA NextIsNew ==
  ASSUME ProviderInv
  PROVE  /\ NextSequence \in Nat /\ NextSequence > 0
         /\ \A r \in Requests : Reserved(r) => record[r].seq < NextSequence
<1>1. PICK m \in TakenSeqs : m = CHOOSE n \in TakenSeqs : \A k \in TakenSeqs : k <= n
  BY DEF ProviderInv, LastSeq
<1>2. \A k \in TakenSeqs : k <= m
  BY <1>1 DEF ProviderInv, LastSeq
<1>3. TakenSeqs \subseteq Nat
  BY SeqTyped DEF TakenSeqs, ProviderInv
<1>4. NextSequence = 1 + m
  BY <1>1 DEF NextSequence, TakenSeqs
<1>5. \A r \in Requests : Reserved(r) => record[r].seq \in TakenSeqs
  BY DEF TakenSeqs
<1> QED BY <1>2, <1>3, <1>4, <1>5

\* The record is written last.
LEMMA CommitRecordKeeps ==
  ASSUME ProviderInv, CommitRecord
  PROVE  ProviderInv' /\ CommitsStand
<1>1. /\ staging # Void /\ staging' = Void /\ staging.at = "commit"
      /\ UNCHANGED <<staged, published, synced, settled, poisonFile, damaged>>
  BY DEF CommitRecord, StAt, providerFiles
<1>2. CASE record' = record
  BY <1>1, <1>2, CallOver
<1>3. CASE record' = [record EXCEPT ![staging.request].seq = NextSequence]
  <2>1. PICK r \in Requests : r = staging.request
    BY <1>1, StagingIs
  <2>2. PICK n \in Nat : n = NextSequence
    BY NextIsNew
  <2>3. n > 0 /\ \A q \in Requests : Reserved(q) => record[q].seq < n
    BY <2>2, NextIsNew
  <2>4. StagingKnows /\ ~poisonFile
    BY <1>1, StagingIs
  <2>5. record[r] = [seq |-> 0]
    BY <2>1, <2>4 DEF StagingKnows
  <2>6. [record[r] EXCEPT !.seq = n] = [seq |-> n]
    BY <2>5
  <2>7. [seq |-> n] \in RecordsP /\ [seq |-> n] # Void /\ [seq |-> 0] # Void
    BY ProviderAssumption DEF RecordsP
  <2>8. /\ record' \in [Requests -> RecordsP \cup {Void}]
        /\ record'[r] = [seq |-> n]
        /\ \A q \in Requests : q # r => record'[q] = record[q]
    BY <1>3, <2>1, <2>2, <2>6, <2>7 DEF ProviderInv, ProviderTypes
  <2>9. ProviderTypes'
    BY <1>1, <2>8 DEF ProviderInv, ProviderTypes
  <2>10. Reserved(r) /\ Reserved(r)' /\ record'[r].seq = n /\ ~IsDurable(r)
    BY <2>5, <2>7, <2>8 DEF Reserved, IsDurable
  <2>11. \A q \in Requests : q # r => Reserved(q)' = Reserved(q) /\ IsDurable(q)' = IsDurable(q)
    BY <2>8 DEF Reserved, IsDurable
  <2>12. SequencesUnique'
    <3> SUFFICES ASSUME NEW a \in Requests, NEW b \in Requests, Reserved(a)', Reserved(b)', a # b
                 PROVE  Target[a] # Target[b] /\ (record'[a].seq > 0 => record'[a].seq # record'[b].seq)
      BY DEF SequencesUnique
    <3>1. Reserved(a) /\ Reserved(b)
      BY <2>10, <2>11
    <3>2. record[a].seq \in Nat /\ record[b].seq \in Nat /\ record[a].seq < n /\ record[b].seq < n
      BY <2>3, <3>1, SeqTyped DEF ProviderInv
    <3>3. Target[a] # Target[b] /\ (record[a].seq > 0 => record[a].seq # record[b].seq)
      BY <3>1 DEF ProviderInv, SequencesUnique
    <3>4. CASE a = r
      BY <2>8, <2>10, <3>2, <3>3, <3>4
    <3>5. CASE b = r
      BY <2>8, <2>10, <3>2, <3>3, <3>5
    <3>6. CASE a # r /\ b # r
      BY <2>8, <3>3, <3>6
    <3> QED BY <3>4, <3>5, <3>6
  <2>13. LastSeq'
    <3>1. n \in TakenSeqs'
      BY <2>10 DEF TakenSeqs
    <3>2. ASSUME NEW k \in TakenSeqs' PROVE k <= n
      <4>1. CASE k = 0
        BY <4>1
      <4>2. CASE k # 0
        <5>1. PICK q \in Requests : Reserved(q)' /\ k = record'[q].seq
          BY <3>2, <4>2 DEF TakenSeqs
        <5>2. CASE q = r
          BY <2>10, <5>1, <5>2
        <5>3. CASE q # r
          <6>1. Reserved(q) /\ k = record[q].seq /\ k \in Nat
            BY <2>8, <2>11, <5>1, <5>3, SeqTyped DEF ProviderInv
          <6> QED BY <2>3, <6>1
        <5> QED BY <5>2, <5>3
      <4> QED BY <4>1, <4>2
    <3> QED BY <3>1, <3>2 DEF LastSeq
  <2>14. ~damaged' => ~poisonFile' /\ DurableStays'
    <3> SUFFICES ASSUME ~damaged, NEW q \in Requests, IsDurable(q)'
                 PROVE  ReadableObject(q) /\ q \in synced /\ Target[q] \in settled
      BY <1>1, <2>4 DEF DurableStays, ReadableObject
    <3>1. CASE q = r
      BY <1>1, <2>1, <2>4, <3>1 DEF StagingKnows
    <3>2. CASE q # r
      BY <2>11, <3>2 DEF ProviderInv, DurableStays
    <3> QED BY <3>1, <3>2
  <2>15. CommitsStand
    <3> SUFFICES ASSUME NEW a \in Requests, IsDurable(a)
                 PROVE  /\ record'[a] = record[a]
                        /\ \A q \in Requests \ {a} : record'[q] # Void =>
                               record'[q].seq # record[a].seq /\ Target[q] # Target[a]
      BY <2>4 DEF CommitsStand
    <3>1. a # r /\ Reserved(a) /\ record[a].seq > 0
      BY <2>10 DEF IsDurable
    <3>2. record'[a] = record[a] /\ Reserved(a)'
      BY <2>8, <2>11, <3>1
    <3>3. ASSUME NEW q \in Requests \ {a}, record'[q] # Void
          PROVE  record'[q].seq # record[a].seq /\ Target[q] # Target[a]
      <4>1. Reserved(q)'
        BY <3>3 DEF Reserved
      <4> QED BY <2>12, <3>1, <3>2, <3>3, <4>1 DEF SequencesUnique
    <3> QED BY <3>2, <3>3
  <2> QED BY <1>1, <2>9, <2>12, <2>13, <2>14, <2>15 DEF ProviderInv
<1> QED BY <1>2, <1>3 DEF CommitRecord

\* A published object is damaged.
LEMMA DamageKeeps ==
  ASSUME ProviderInv, NEW t \in Targets, Damage(t)
  PROVE  ProviderInv' /\ CommitsStand
<1>1. /\ published[t] # Void /\ published' = [published EXCEPT ![t].data = "damaged"]
      /\ damaged' = TRUE /\ UNCHANGED <<record, staged, poisonFile, staging>>
  BY DEF Damage
<1>2. published[t] \in ObjectFiles
  BY <1>1 DEF ProviderInv, ProviderTypes
<1>3. [published[t] EXCEPT !.data = "damaged"] \in ObjectFiles
  BY <1>2 DEF ObjectFiles, DataP
<1>4. published' \in [Targets -> ObjectFiles \cup {Void}]
  BY <1>1, <1>3 DEF ProviderInv, ProviderTypes
<1>5. SequencesUnique' /\ LastSeq' /\ CommitsStand
  BY <1>1, RowsStay
<1>6. ProviderTypes'
  BY <1>1, <1>4 DEF ProviderInv, ProviderTypes
<1>7. staging' # Void => ~poisonFile' /\ StagingKnows'
  BY <1>1 DEF ProviderInv, StagingKnows
<1> QED BY <1>1, <1>5, <1>6, <1>7 DEF ProviderInv

\* The process or the machine stops.
LEMMA CrashKeeps ==
  ASSUME ProviderInv, CrashProvider
  PROVE  ProviderInv' /\ CommitsStand
<1>1. /\ staging' = Void /\ UNCHANGED <<record, settled, poisonFile, damaged>>
      /\ synced' = synced \ {r \in Requests : staged'[r] = Void /\
                           (published'[Target[r]] = Void \/ published'[Target[r]].of # r)}
  BY DEF CrashProvider
<1> DEFINE after(short, r, d) == IF r \in short THEN "partial" ELSE d
           back(lost, r) == /\ Target[r] \in lost /\ published[Target[r]] # Void
                            /\ published[Target[r]].of = r
<1>2. PICK lost \in SUBSET ({t \in Targets : published[t] # Void} \ settled),
           gone \in SUBSET WithFile, short \in SUBSET (WithFile \ synced) :
        /\ published' = [t \in Targets |->
             IF published[t] = Void \/ t \in lost THEN Void
             ELSE [published[t] EXCEPT !.data = after(short, published[t].of, @)]]
        /\ staged' = [r \in Requests |->
             IF r \in gone THEN Void
             ELSE IF back(lost, r) THEN after(short, r, published[Target[r]].data)
             ELSE IF staged[r] = Void THEN Void ELSE after(short, r, staged[r])]
  BY DEF CrashProvider
<1>3. \A o \in ObjectFiles : /\ o.data \in DataP /\ o.of \in Requests
                            /\ \A d \in DataP : [o EXCEPT !.data = d] \in ObjectFiles
  BY DEF ObjectFiles
<1>4. \A r \in Requests, d \in DataP : after(short, r, d) \in DataP
  BY DEF DataP
<1>5. /\ staged \in [Requests -> DataP \cup {Void}]
      /\ published \in [Targets -> ObjectFiles \cup {Void}]
      /\ \A r \in Requests : Target[r] \in Targets
  BY DEF ProviderInv, ProviderTypes, Targets
<1>6. published' \in [Targets -> ObjectFiles \cup {Void}]
  <2>1. ASSUME NEW t \in Targets, published[t] # Void
        PROVE  [published[t] EXCEPT !.data = after(short, published[t].of, @)] \in ObjectFiles
    <3>1. published[t] \in ObjectFiles
      BY <1>5, <2>1
    <3>2. after(short, published[t].of, published[t].data) \in DataP
      BY <1>3, <1>4, <3>1
    <3> HIDE DEF after
    <3> QED BY <1>3, <3>1, <3>2
  <2> HIDE DEF after
  <2> QED BY <1>2, <2>1
<1>7. staged' \in [Requests -> DataP \cup {Void}]
  <2>1. \A r \in Requests : published[Target[r]] # Void => published[Target[r]].data \in DataP
    BY <1>3, <1>5
  <2>2. \A r \in Requests : staged[r] \in DataP \cup {Void}
    BY <1>5
  <2>3. ASSUME NEW r \in Requests
        PROVE  (IF r \in gone THEN Void
                ELSE IF back(lost, r) THEN after(short, r, published[Target[r]].data)
                ELSE IF staged[r] = Void THEN Void ELSE after(short, r, staged[r]))
                 \in DataP \cup {Void}
    <3> HIDE DEF after
    <3> QED BY <1>4, <2>1, <2>2
  <2> HIDE DEF after, back
  <2> QED BY <1>2, <2>3
<1>8. SequencesUnique' /\ LastSeq' /\ CommitsStand
  BY <1>1, RowsStay
<1>9. ProviderTypes'
  BY <1>1, <1>6, <1>7 DEF ProviderInv, ProviderTypes
<1>10. ~damaged' => ~poisonFile' /\ DurableStays'
  <2> SUFFICES ASSUME ~damaged, NEW q \in Requests, IsDurable(q)'
               PROVE  (ReadableObject(q) /\ q \in synced /\ Target[q] \in settled)'
    BY <1>1 DEF DurableStays, ProviderInv
  <2>1. ReadableObject(q) /\ q \in synced /\ Target[q] \in settled
    BY <1>1 DEF ProviderInv, DurableStays, IsDurable, Reserved
  <2>2. [of |-> q, data |-> "full"] # Void
    BY ProviderAssumption DEF ObjectFiles, DataP
  <2>3. q \notin short /\ Target[q] \notin lost
    BY <1>2, <2>1
  <2>4. published[Target[q]] = [of |-> q, data |-> "full"]
    BY <2>1 DEF ReadableObject
  <2>5. after(short, published[Target[q]].of, published[Target[q]].data) = "full"
    BY <2>3, <2>4
  <2>6. published'[Target[q]] = [published[Target[q]] EXCEPT !.data = after(short, published[Target[q]].of, @)]
    BY <1>2, <1>5, <2>2, <2>3, <2>4
  <2> HIDE DEF after
  <2>7. published'[Target[q]] = [of |-> q, data |-> "full"]
    BY <2>4, <2>5, <2>6
  <2>8. q \in synced'
    BY <1>1, <2>1, <2>2, <2>7
  <2> QED BY <1>1, <2>1, <2>7, <2>8 DEF ReadableObject
<1> QED BY <1>1, <1>8, <1>9, <1>10 DEF ProviderInv

\* The provider starts empty.
LEMMA ProviderStarts == ProviderInit => ProviderInv
<1> SUFFICES ASSUME ProviderInit PROVE ProviderInv
  OBVIOUS
<1>1. \A r \in Requests : ~Reserved(r) /\ ~IsDurable(r)
  BY DEF ProviderInit, Reserved, IsDurable
<1>2. ProviderTypes
  BY DEF ProviderInit, ProviderTypes
<1>3. SequencesUnique /\ DurableStays
  BY <1>1 DEF SequencesUnique, DurableStays
<1>4. LastSeq
  <2>1. TakenSeqs = {0}
    BY <1>1 DEF TakenSeqs
  <2> QED BY <2>1 DEF LastSeq
<1> QED BY <1>2, <1>3, <1>4 DEF ProviderInv, ProviderInit

\* Every step of the provider keeps its invariant and what was committed.
LEMMA ProviderKeeps ==
  ASSUME ProviderInv, [ProviderNext]_providerVars
  PROVE  ProviderInv' /\ CommitsStand
<1>1. CASE UNCHANGED providerVars
  <2>1. UNCHANGED <<record, staged, published, synced, settled, poisonFile, damaged, staging>>
    BY <1>1 DEF providerVars, providerFiles
  <2>2. SequencesUnique' /\ LastSeq' /\ CommitsStand
    BY <2>1, RowsStay
  <2>3. StagingKnows' = StagingKnows /\ (~damaged => DurableStays')
    BY <2>1, DurableKept DEF StagingKnows, ReadableObject, ProviderInv
  <2> QED BY <2>1, <2>2, <2>3 DEF ProviderInv, ProviderTypes
<1>2. CASE StageFails
  <2>1. /\ staging' = Void
        /\ UNCHANGED <<record, staged, published, synced, settled, poisonFile, damaged>>
    BY <1>2 DEF StageFails, providerFiles
  <2> QED BY <2>1, CallOver
<1> QED BY <1>1, <1>2, PoisonKeeps, ReserveKeeps, AdoptObjectKeeps, SyncObjectKeeps,
           AdoptStagedKeeps, WriteStageKeeps, SyncFileKeeps, PublishKeeps, DirectoriesKeeps,
           CommitRecordKeeps, CrashKeeps, DamageKeeps DEF ProviderNext

-----------------------------------------------------------------------------
(***************************************************************************)
(* Captures: what was served is what the operation is bound to.            *)
(***************************************************************************)
CaptureInv ==
  /\ wireK \in WireK /\ Valid(wireK)
  /\ boundK = [o \in OpsK |-> boundK[o]]
  /\ \A a \in servedK : /\ a.op \in OpsK /\ a.desc \in WireK /\ Valid(a.desc)
                        /\ boundK[a.op] # Unbound
                        /\ boundK[a.op].identity = Identity(a.desc)
  /\ ReceiptsCoverParts

\* ReceiptsCoverParts of one accepted set.
Covered(c) ==
  c # NothingChecked =>
    {c.items[j].receipt.part : j \in DOMAIN c.items} = {c.desc.parts[i].part : i \in DOMAIN c.desc.parts}

\* Receipts that cover the parts go on doing so.
LEMMA CoverStays ==
  ASSUME ReceiptsCoverParts, checkedK' = checkedK
  PROVE  ReceiptsCoverParts'
<1>1. Covered(checkedK)
  BY Zenon DEF ReceiptsCoverParts, Covered
<1>2. Covered(checkedK')
  BY <1>1, Zenon
<1> QED BY <1>2, Zenon DEF ReceiptsCoverParts, Covered

\* A receipt set that was verified covers every part.
LEMMA CheckedCovers ==
  ASSUME NEW w, NEW items,
         {items[j].receipt.part : j \in DOMAIN items} = {w.parts[i].part : i \in DOMAIN w.parts}
  PROVE  Covered([desc |-> w, items |-> items])
<1> DEFINE c == [desc |-> w, items |-> items]
<1>1. c.desc = w /\ c.items = items
  OBVIOUS
<1> HIDE DEF c
<1>2. {c.items[j].receipt.part : j \in DOMAIN c.items} = {items[j].receipt.part : j \in DOMAIN items}
  BY <1>1
<1>3. {c.desc.parts[i].part : i \in DOMAIN c.desc.parts} = {w.parts[i].part : i \in DOMAIN w.parts}
  BY <1>1
<1>4. Covered(c)
  BY <1>2, <1>3, Zenon DEF Covered
<1> QED BY <1>4 DEF c

\* The identity of a descriptor that parses is the descriptor.
LEMMA IdentityInjective ==
  ASSUME NEW v \in WireK, NEW w \in WireK, Valid(v), Valid(w), Identity(v) = Identity(w)
  PROVE  v = w
  BY DEF WireK, Valid, Identity

\* A descriptor on the wire has one or two parts.
LEMMA PartsTyped ==
  ASSUME NEW w \in WireK
  PROVE  /\ DOMAIN w.parts \in {1..1, 1..2} /\ Len(w.parts) \in {1, 2}
         /\ DOMAIN w.parts = 1..Len(w.parts)
         /\ \A i \in DOMAIN w.parts : w.parts[i].part \in PartIds
<1>1. PICK n \in 1..2 : w.parts \in [1..n -> PartsK]
  BY DEF WireK
<1>2. DOMAIN w.parts = 1..n /\ Len(w.parts) = n
  BY <1>1
<1> QED BY <1>1, <1>2 DEF PartsK

\* What the binding of a capture holds.
LEMMA BindingIs ==
  ASSUME NEW w \in WireK, NEW i \in DOMAIN w.parts
  PROVE  Binding(w, i).identity = Identity(w) /\ Binding(w, i) # Unbound
<1>1. w.parts[i].part # NoneK
  BY PartsTyped, CaptureAssumption
<1>2. Binding(w, i).part = w.parts[i].part /\ Unbound.part = NoneK
  BY DEF Binding, Unbound
<1> QED BY <1>1, <1>2 DEF Binding

\* A descriptor is served.
LEMMA ServeKeeps ==
  ASSUME CaptureInv, NEW o \in OpsK, NEW i \in DOMAIN wireK.parts, Serve(o),
         boundK' = [boundK EXCEPT ![o] = Binding(wireK, i)], Admits(o, wireK, i),
         UNCHANGED <<wireK, checkedK>>
  PROVE  CaptureInv'
<1>1. Binding(wireK, i).identity = Identity(wireK) /\ Binding(wireK, i) # Unbound
  BY BindingIs DEF CaptureInv
<1>2. boundK' = [q \in OpsK |-> boundK'[q]] /\ boundK'[o] = Binding(wireK, i)
      /\ \A q \in OpsK : q # o => boundK'[q] = boundK[q]
  BY DEF CaptureInv
<1>3. boundK[o] # Unbound => boundK[o] = Binding(wireK, i)
  BY DEF Admits
<1>4. ASSUME NEW a \in servedK'
      PROVE  /\ a.op \in OpsK /\ a.desc \in WireK /\ Valid(a.desc)
             /\ boundK'[a.op] # Unbound /\ boundK'[a.op].identity = Identity(a.desc)
  <2>1. CASE a = [op |-> o, desc |-> wireK]
    BY <1>1, <1>2, <2>1 DEF CaptureInv
  <2>2. CASE a \in servedK
    BY <1>1, <1>2, <1>3, <2>2 DEF CaptureInv
  <2> QED BY <1>4, <2>1, <2>2 DEF Serve
<1>5. ReceiptsCoverParts'
  BY CoverStays DEF CaptureInv
<1> QED BY <1>2, <1>4, <1>5 DEF CaptureInv

\* A set of receipts that verifies names each part of the descriptor.
LEMMA VerifyCovers ==
  ASSUME NEW w \in WireK, Valid(w), NEW items, DOMAIN items = DOMAIN w.parts,
         \A j \in DOMAIN items : ReceiptHolds(w, items[j]) /\ FreshPart(items, j)
  PROVE  {items[j].receipt.part : j \in DOMAIN items} = {w.parts[i].part : i \in DOMAIN w.parts}
<1>1. \A j \in DOMAIN items : \E i \in DOMAIN w.parts : items[j].receipt.part = w.parts[i].part
  <2> SUFFICES ASSUME NEW j \in DOMAIN items
               PROVE  \E i \in DOMAIN w.parts : items[j].receipt.part = w.parts[i].part
    OBVIOUS
  <2>1. PICK i \in DOMAIN w.parts : items[j].receipt = Expected(w)[i]
    BY Zenon DEF ReceiptHolds
  <2>2. Expected(w)[i].part = w.parts[i].part
    BY DEF Expected
  <2> QED BY <2>1, <2>2
<1>2. CASE DOMAIN w.parts = 1..1
  BY <1>1, <1>2
<1>3. CASE DOMAIN w.parts = 1..2
  <2>1. items[1].receipt.part # items[2].receipt.part
    BY <1>3 DEF FreshPart
  <2>2. DOMAIN items = {1, 2} /\ DOMAIN w.parts = {1, 2}
    BY <1>3
  <2> QED BY <1>1, <2>1, <2>2
<1> QED BY <1>2, <1>3, PartsTyped

\* Every step of a capture keeps its invariant.
LEMMA CaptureKeeps ==
  ASSUME CaptureInv, [CaptureNext]_captureVars
  PROVE  CaptureInv'
<1>1. CASE UNCHANGED captureVars
  BY <1>1, CoverStays DEF CaptureInv, captureVars
<1>2. CASE Parse
  BY <1>2 DEF CaptureInv, Parse, ReceiptsCoverParts
<1>3. CASE VerifySet
  <2>1. PICK items : /\ DOMAIN items = DOMAIN wireK.parts
                     /\ \A j \in DOMAIN items : ReceiptHolds(wireK, items[j]) /\ FreshPart(items, j)
                     /\ checkedK' = [desc |-> wireK, items |-> items]
    BY <1>3 DEF VerifySet
  <2>2. {items[j].receipt.part : j \in DOMAIN items}
          = {wireK.parts[i].part : i \in DOMAIN wireK.parts}
    BY <2>1, VerifyCovers DEF CaptureInv
  <2>4. ReceiptsCoverParts'
    <3>1. Covered(checkedK')
      BY <2>1, <2>2, CheckedCovers
    <3> QED BY <3>1, Zenon DEF ReceiptsCoverParts, Covered
  <2> QED BY <1>3, <2>4 DEF CaptureInv, VerifySet
<1>4. ASSUME NEW o \in OpsK, StageCapture(o) PROVE CaptureInv'
  BY <1>4, ServeKeeps DEF StageCapture
<1>5. ASSUME NEW o \in OpsK, ReadCapture(o) PROVE CaptureInv'
  <2>1. PICK i \in DOMAIN wireK.parts : boundK[o] = Binding(wireK, i)
    BY <1>5 DEF ReadCapture
  <2>2. boundK' = [boundK EXCEPT ![o] = Binding(wireK, i)]
    BY <1>5, <2>1 DEF ReadCapture, CaptureInv
  <2>3. Admits(o, wireK, i)
    BY <2>1, BindingIs DEF Admits, CaptureInv
  <2> QED BY <1>5, <2>2, <2>3, ServeKeeps DEF ReadCapture
<1> QED BY <1>1, <1>2, <1>3, <1>4, <1>5 DEF CaptureNext

\* An operation has one descriptor and its receipts cover the parts.
LEMMA CaptureMeans ==
  ASSUME CaptureInv
  PROVE  OneDescriptorPerOperation /\ ReceiptsCoverParts
  BY IdentityInjective DEF CaptureInv, OneDescriptorPerOperation

\* No capture is under way at the start.
LEMMA CaptureStarts == CaptureInit => CaptureInv
  BY DEF CaptureInit, CaptureInv, ReceiptsCoverParts

\* ProviderSound for any requests, targets, captures, failures and crashes
\* (provider commit and consistency, verify_capture, verify_receipt_set).
THEOREM ProviderHolds == ProviderSpec /\ CaptureSpec => ProviderSound
<1>1. ProviderInv /\ CaptureInv /\ [ProviderNext]_providerVars /\ [CaptureNext]_captureVars
        => /\ ProviderInv' /\ CaptureInv'
           /\ [/\ CommitsStand /\ DurableIsReadable'
               /\ OneDescriptorPerOperation' /\ ReceiptsCoverParts']_<<providerVars, captureVars>>
  <2> SUFFICES ASSUME ProviderInv, CaptureInv, [ProviderNext]_providerVars, [CaptureNext]_captureVars
               PROVE  /\ ProviderInv' /\ CaptureInv' /\ CommitsStand /\ DurableIsReadable'
                      /\ OneDescriptorPerOperation' /\ ReceiptsCoverParts'
    OBVIOUS
  <2>1. ProviderInv' /\ CommitsStand /\ CaptureInv'
    BY ProviderKeeps, CaptureKeeps
  <2>2. DurableIsReadable' /\ OneDescriptorPerOperation' /\ ReceiptsCoverParts'
    BY <2>1, ProviderMeans, CaptureMeans, PTL
  <2> QED BY <2>1, <2>2
<1> QED BY <1>1, ProviderStarts, CaptureStarts, PTL DEF ProviderSpec, CaptureSpec, ProviderSound

-----------------------------------------------------------------------------
(* Vault keys and encrypted transfers *)

KeyTypes ==
  /\ stored \in [Backends -> RecordsK \cup {NoKey, Torn}]
  /\ envKey \in KeysK \cup {NoKey, Torn}
  /\ escrow \in EscrowsK \cup {NoKey, Torn}
  /\ drawn \subseteq Salts

\* The key of a record comes from its salt, from the environment or from an escrow
\* that still has it, unless a stop tore that one.
RecordKey(r) ==
  \/ \E p \in Passphrases : r.key = Derive(p, r.salt)
  \/ r.key = envKey
  \/ envKey = NoKey /\ escrow = Torn
  \/ envKey = NoKey /\ Readable(escrow) /\ escrow.key = r.key

KeysInv ==
  /\ KeyTypes
  /\ stored["os"] = NoKey
  /\ Readable(escrow) /\ envKey # NoKey => escrow.key = envKey
  /\ Readable(stored["file"]) => RecordKey(stored["file"])
  /\ LockLeavesNothing

\* Without an OS keystore the key file is the store.
LEMMA OnlyFile ==
  /\ DetectOrFile = "file"
  /\ LoadRecord = stored["file"]
  BY DEF DetectOrFile, ProbeOsKeystore, ValidateLabel, LoadRecord

\* Where a key is stored.
LEMMA StoreIs ==
  ASSUME KeysInv, NEW r \in RecordsK \cup {NoKey, Torn}, StoreRecord(r)
  PROVE  /\ stored' \in [Backends -> RecordsK \cup {NoKey, Torn}]
         /\ stored'["os"] = NoKey /\ stored'["file"] = r
<1>1. stored' = [stored EXCEPT !["file"] = r]
  BY OnlyFile DEF StoreRecord
<1> QED BY <1>1 DEF KeysInv, KeyTypes, Backends

\* When a stored key can be read.
LEMMA ReadableIs ==
  /\ \A r \in RecordsK \cup {NoKey, Torn} : Readable(r) <=> r \in RecordsK
  /\ \A r \in EscrowsK \cup {NoKey, Torn} : Readable(r) <=> r \in EscrowsK
  /\ \A k \in KeysK \cup {NoKey, Torn} : Readable(k) <=> k \in KeysK
  BY KeysAssumption DEF Readable

\* Where the key is looked for, and in which order.
LEMMA ResolveIs ==
  ASSUME KeysInv
  PROVE  /\ ResolveVaultKey \in KeysK \cup {NoKey, Torn}
         /\ envKey # NoKey => ResolveVaultKey = envKey
         /\ envKey = NoKey /\ Readable(ResolveVaultKey) =>
              Readable(stored["file"]) /\ ResolveVaultKey = stored["file"].key
<1>1. stored["file"] \in RecordsK \cup {NoKey, Torn}
  BY DEF KeysInv, KeyTypes, Backends
<1>2. stored["file"] \in RecordsK => stored["file"].key \in KeysK
  BY DEF RecordsK
<1>3. LoadFromKeystore = IF stored["file"] = NoKey THEN NoKey ELSE ParseStoredKey(stored["file"])
  BY OnlyFile DEF LoadFromKeystore
<1>4. ResolveVaultKey = IF envKey # NoKey THEN envKey ELSE LoadFromKeystore
  BY DEF ResolveVaultKey, LoadFromEnv
<1>5. ~Readable(NoKey) /\ ~Readable(Torn)
  BY DEF Readable
<1> QED BY <1>1, <1>2, <1>3, <1>4, <1>5, ReadableIs DEF ParseStoredKey, KeysInv, KeyTypes

\* The salt that is used is the stored one, if there is one.
LEMMA SaltIs ==
  ASSUME KeysInv, NEW o \in drawn \cup {NoKey}, NEW s \in SaltForUnlock(o)
  PROVE  /\ s \in Salts
         /\ o = NoKey /\ Readable(stored["file"]) => s = stored["file"].salt
         /\ o = NoKey => Readable(stored["file"]) \/ stored["file"] = NoKey
<1>1. stored["file"] \in RecordsK \cup {NoKey, Torn} /\ drawn \subseteq Salts
  BY DEF KeysInv, KeyTypes, Backends
<1>2. Readable(stored["file"]) => stored["file"].salt \in Salts
  BY <1>1, ReadableIs DEF RecordsK
<1> QED BY <1>1, <1>2, OnlyFile, KeysAssumption DEF SaltForUnlock

\* What unlocking gives, and when it fails.
LEMMA UnlockIs ==
  ASSUME KeysInv, NEW p \in Passphrases, NEW o \in drawn \cup {NoKey}, RunUnlock(p, o)
  PROVE  \E s \in SaltForUnlock(o) :
           /\ s \in Salts /\ drawn' = drawn \cup {s}
           /\ [salt |-> s, key |-> Derive(p, s)] \in RecordsK
           /\ stored' \in [Backends -> RecordsK \cup {NoKey, Torn}] /\ stored'["os"] = NoKey
           /\ stored'["file"] = [salt |-> s, key |-> Derive(p, s)]
<1>1. PICK s \in SaltForUnlock(o) :
        StoreRecord([salt |-> s, key |-> Derive(p, s)]) /\ drawn' = drawn \cup {s}
  BY DEF RunUnlock, UnlockVaultKey
<1>2. s \in Salts
  BY SaltIs
<1>3. [salt |-> s, key |-> Derive(p, s)] \in RecordsK
  BY <1>2 DEF RecordsK, Derive, KeysK
<1> QED BY <1>1, <1>2, <1>3, StoreIs

\* Unlocking keeps the invariant of the keys.
LEMMA UnlockKeeps ==
  ASSUME KeysInv, NEW p \in Passphrases, NEW o \in drawn \cup {NoKey}, RunUnlock(p, o)
  PROVE  KeysInv'
<1>1. PICK s \in Salts :
           /\ drawn' = drawn \cup {s}
           /\ stored' \in [Backends -> RecordsK \cup {NoKey, Torn}] /\ stored'["os"] = NoKey
           /\ stored'["file"] = [salt |-> s, key |-> Derive(p, s)]
  BY UnlockIs
<1>2. UNCHANGED <<envKey, escrow>> /\ lastK' = "unlock"
  BY DEF RunUnlock, OpK
<1>3. stored'["file"].key = Derive(p, stored'["file"].salt)
  BY <1>1
<1>4. RecordKey(stored["file"])'
  BY <1>3 DEF RecordKey
<1> QED BY <1>1, <1>2, <1>4 DEF KeysInv, KeyTypes, LockLeavesNothing, Readable

\* Unlocking leaves every key that worked.
LEMMA UnlockKeepsKeys ==
  ASSUME KeysInv
  PROVE  UnlockLosesNoKey
<1> SUFFICES ASSUME NEW p \in Passphrases, RunUnlock(p, NoKey), escrow # Torn
             PROVE  Obtainable \subseteq Obtainable'
  BY DEF UnlockLosesNoKey
<1>1. PICK s \in SaltForUnlock(NoKey) :
           /\ s \in Salts /\ [salt |-> s, key |-> Derive(p, s)] \in RecordsK
           /\ stored'["os"] = NoKey /\ stored'["file"] = [salt |-> s, key |-> Derive(p, s)]
  BY UnlockIs
<1>2. Readable(stored'["file"]) /\ stored'["file"].salt = s
  <2>1. stored'["file"] \in RecordsK
    BY <1>1
  <2> QED BY <1>1, <2>1, ReadableIs
<1>3. UNCHANGED <<envKey, escrow>>
  BY DEF RunUnlock
<1>4. \A k \in Passphrases : Derive(k, s) \in Obtainable'
  BY <1>2 DEF Obtainable, Backends
<1>5. envKey \in Obtainable' /\ (Readable(escrow) => escrow.key \in Obtainable')
  BY <1>3 DEF Obtainable
<1>6. ASSUME NEW r \in {stored[b] : b \in Backends}, Readable(r)
      PROVE  r = stored["file"] /\ r.salt = s /\ r.key \in Obtainable'
  <2>1. r = stored["file"]
    BY <1>6 DEF Backends, KeysInv, Readable
  <2>2. r.salt = s
    BY <1>6, <2>1, SaltIs
  <2>3. RecordKey(r)
    BY <1>6, <2>1 DEF KeysInv
  <2> QED BY <1>4, <1>5, <2>1, <2>2, <2>3 DEF RecordKey
<1>7. ASSUME NEW k \in Obtainable PROVE k \in Obtainable'
  <2>1. \/ \E r \in {stored[b] : b \in Backends} : Readable(r) /\ k = r.key
        \/ \E r \in {stored[b] : b \in Backends}, q \in Passphrases : Readable(r) /\ k = Derive(q, r.salt)
        \/ Readable(escrow) /\ k = escrow.key
        \/ k = envKey
    BY <1>7 DEF Obtainable
  <2> QED BY <1>4, <1>5, <1>6, <2>1
<1> QED BY <1>7

\* A key is recovered from its escrow.
LEMMA RecoverKeeps ==
  ASSUME KeysInv, NEW p \in Passphrases, RunEscrowRecover(p)
  PROVE  KeysInv'
<1>1. Readable(escrow) /\ escrow \in EscrowsK
  BY ReadableIs DEF RunEscrowRecover, KeysInv, KeyTypes
<1>2. RecoverFromEscrow(escrow, p) = escrow.key /\ escrow.key \in KeysK
  BY <1>1 DEF RunEscrowRecover, RecoverFromEscrow, EscrowsK
<1>3. PICK s \in Salts : StoreRecord([salt |-> s, key |-> escrow.key]) /\ drawn' = drawn \cup {s}
  BY <1>2 DEF RunEscrowRecover, ImportVaultKey
<1>4. [salt |-> s, key |-> escrow.key] \in RecordsK
  BY <1>2 DEF RecordsK
<1>5. /\ stored' \in [Backends -> RecordsK \cup {NoKey, Torn}] /\ stored'["os"] = NoKey
      /\ stored'["file"] = [salt |-> s, key |-> escrow.key]
  BY <1>3, <1>4, StoreIs
<1>6. UNCHANGED <<envKey, escrow>> /\ lastK' = "recover"
  BY DEF RunEscrowRecover, OpK
<1>7. RecordKey(stored["file"])'
  <2>1. stored'["file"].key = escrow.key
    BY <1>5
  <2>2. CASE envKey # NoKey
    BY <1>1, <1>6, <2>1, <2>2 DEF KeysInv, RecordKey
  <2>3. CASE envKey = NoKey
    BY <1>1, <1>6, <2>1, <2>3 DEF RecordKey
  <2> QED BY <2>2, <2>3
<1> QED BY <1>3, <1>5, <1>6, <1>7 DEF KeysInv, KeyTypes, LockLeavesNothing, Readable

\* An escrow is written.
LEMMA EscrowKeeps ==
  ASSUME KeysInv, NEW p \in Passphrases, RunEscrowCreate(p)
  PROVE  KeysInv'
<1>1. /\ Readable(ResolveVaultKey) /\ escrow' = [recovery |-> p, key |-> ResolveVaultKey]
      /\ UNCHANGED <<stored, envKey, drawn>> /\ lastK' = "escrow"
  BY DEF RunEscrowCreate, WriteEscrowFile, CreateEscrowBlob, OpK
<1>2. ResolveVaultKey \in KeysK
  BY <1>1, ResolveIs, ReadableIs
<1>3. escrow' \in EscrowsK /\ escrow'.key = ResolveVaultKey
  BY <1>1, <1>2 DEF EscrowsK
<1>4. Readable(escrow')
  BY <1>3, ReadableIs
<1>5. envKey # NoKey => escrow'.key = envKey
  BY <1>3, ResolveIs
<1>6. Readable(stored["file"])' => RecordKey(stored["file"])'
  <2> SUFFICES ASSUME Readable(stored["file"]) PROVE RecordKey(stored["file"])'
    BY <1>1 DEF Readable
  <2>1. RecordKey(stored["file"])
    BY DEF KeysInv
  <2>2. CASE envKey # NoKey
    BY <1>1, <2>1, <2>2 DEF RecordKey
  <2>3. CASE envKey = NoKey
    <3>1. escrow'.key = stored["file"].key
      BY <1>1, <1>3, <2>3, ResolveIs
    <3> QED BY <1>1, <1>4, <2>3, <3>1 DEF RecordKey
  <2> QED BY <2>2, <2>3
<1> QED BY <1>1, <1>3, <1>5, <1>6 DEF KeysInv, KeyTypes, LockLeavesNothing

\* The process stops between two writes.
LEMMA StopKeeps ==
  ASSUME KeysInv, CommandStops
  PROVE  KeysInv'
<1>1. UNCHANGED <<envKey, drawn>> /\ lastK' = "stopped"
  BY DEF CommandStops, OpK
<1>2. CASE StoreTorn /\ UNCHANGED escrow
  <2>1. /\ stored' \in [Backends -> RecordsK \cup {NoKey, Torn}] /\ stored'["os"] = NoKey
        /\ stored'["file"] = Torn
    BY <1>2, StoreIs DEF StoreTorn
  <2> QED BY <1>1, <1>2, <2>1 DEF KeysInv, KeyTypes, LockLeavesNothing, Readable
<1>3. CASE Readable(ResolveVaultKey) /\ WriteEscrowFile(Torn) /\ UNCHANGED stored
  <2>1. escrow' = Torn /\ ~Readable(escrow')
    BY <1>3 DEF WriteEscrowFile, Readable
  <2>2. Readable(stored["file"])' => RecordKey(stored["file"])'
    <3> SUFFICES ASSUME Readable(stored["file"]) PROVE RecordKey(stored["file"])'
      BY <1>3 DEF Readable
    <3>1. RecordKey(stored["file"])
      BY DEF KeysInv
    <3> QED BY <1>1, <1>3, <2>1, <3>1 DEF RecordKey
  <2> QED BY <1>1, <1>3, <2>1, <2>2 DEF KeysInv, KeyTypes, LockLeavesNothing
<1> QED BY <1>2, <1>3 DEF CommandStops

\* Locking leaves no key.
LEMMA LockKeeps ==
  ASSUME KeysInv, RunLock
  PROVE  KeysInv'
<1>1. StoreRecord(NoKey) /\ UNCHANGED <<envKey, drawn, escrow>>
  BY DEF RunLock, DeleteRecord, StoreRecord
<1>2. /\ stored' \in [Backends -> RecordsK \cup {NoKey, Torn}] /\ stored'["os"] = NoKey
      /\ stored'["file"] = NoKey
  BY <1>1, StoreIs
<1> QED BY <1>1, <1>2 DEF KeysInv, KeyTypes, LockLeavesNothing, Readable, Backends

\* The steps that change no key.
LEMMA KeysRest ==
  ASSUME KeysInv, UNCHANGED <<stored, envKey, escrow, drawn>>, lastK' \in {lastK, "daemon"}
  PROVE  KeysInv'
<1>1. KeyTypes'
  BY DEF KeysInv, KeyTypes
<1>2. RecordKey(stored["file"])' <=> RecordKey(stored["file"])
  BY DEF RecordKey, Readable
<1>3. LockLeavesNothing'
  BY DEF KeysInv, LockLeavesNothing
<1> QED BY <1>1, <1>2, <1>3 DEF KeysInv, Readable

\* Every step on the keys keeps their invariant.
LEMMA KeysKeep ==
  ASSUME KeysInv, [KeysNext]_keyVars
  PROVE  KeysInv' /\ UnlockLosesNoKey /\ LockLeavesNothing'
<1>1. ASSUME UNCHANGED keyVars \/ DaemonStartsK \/ SealUpload \/ KeychainFlips PROVE KeysInv'
  <2>1. UNCHANGED <<stored, envKey, escrow, drawn>> /\ lastK' \in {lastK, "daemon"}
    BY <1>1 DEF keyVars, DaemonStartsK, SealUpload, KeychainFlips, OpK
  <2> QED BY <2>1, KeysRest
<1>2. KeysInv'
  BY <1>1, UnlockKeeps, RecoverKeeps, EscrowKeeps, StopKeeps, LockKeeps DEF KeysNext
<1> QED BY <1>2, UnlockKeepsKeys DEF KeysInv

\* The vault starts without a key.
LEMMA KeysStart == KeysInit => KeysInv
<1> SUFFICES ASSUME KeysInit PROVE KeysInv
  OBVIOUS
<1>1. \A p \in Passphrases, s \in Salts : Derive(p, s) \in KeysK
  BY DEF Derive, KeysK
<1>2. KeyTypes
  BY <1>1 DEF KeysInit, KeyTypes
<1>3. stored["os"] = NoKey /\ stored["file"] = NoKey /\ escrow = NoKey
  BY DEF KeysInit, Backends
<1> QED BY <1>2, <1>3 DEF KeysInv, KeysInit, Readable, LockLeavesNothing

\* What holds of a row of the wire index: it was stored no later than the file was last
\* written, has the length of what it stands for, and is current or was overtaken.
RowSound(r) ==
  /\ r.mtime <= fileW.mtime /\ r.mtime \in Nat /\ r.size = r.hash[1].size
  /\ r.mtime = fileW.mtime => r.hash[1] = fileW.body \/ fileW.mtime \in slippedW

WireInv ==
  /\ shareW \in VaultsW /\ fileW.mtime \in Nat
  /\ DOMAIN rowsW = VaultsW /\ rowsW = [v \in VaultsW |-> rowsW[v]]
  /\ \A v \in VaultsW : rowsW[v] # NoWire => RowSound(rowsW[v])
  /\ cycleW \in {"sending", "written"} =>
       wantedW[1] = fileW.body \/ fileW.mtime \in slippedW

\* An index that is reused is that of the file as it is.
LEMMA RowsAreCurrent ==
  ASSUME WireInv
  PROVE  ReusedIndexIsCurrent
  BY DEF WireInv, RowSound, ReusedIndexIsCurrent, MatchesScan

\* A file that was written has a later time.
LEMMA WrittenKeeps ==
  ASSUME WireInv, NEW b, fileW' = [body |-> b, mtime |-> fileW.mtime + 1],
         UNCHANGED <<shareW, rowsW>>, slippedW \subseteq slippedW',
         cycleW' \in {"sending", "written"} => wantedW'[1] = b \/ fileW.mtime + 1 \in slippedW'
  PROVE  WireInv'
<1>1. fileW'.mtime = fileW.mtime + 1 /\ fileW'.body = b /\ fileW'.mtime \in Nat
  BY DEF WireInv
<1>2. ASSUME NEW v \in VaultsW, rowsW[v] # NoWire PROVE RowSound(rowsW[v])'
  <2>1. RowSound(rowsW[v])
    BY <1>2 DEF WireInv
  <2>2. rowsW[v].mtime < fileW'.mtime
    BY <1>1, <2>1 DEF RowSound, WireInv
  <2> QED BY <1>1, <2>1, <2>2 DEF RowSound
<1> QED BY <1>1, <1>2 DEF WireInv

\* The row of a transfer is stored.
LEMMA PersistKeeps ==
  ASSUME WireInv, cycleW \in {"sending", "written"}, cycleW' = "idle",
         PersistWireMeta(wantedW) \/ rowsW' = rowsW,
         UNCHANGED <<shareW, fileW, slippedW>>
  PROVE  WireInv'
<1>1. ASSUME rowsW' = rowsW PROVE WireInv'
  BY <1>1 DEF WireInv, RowSound
<1>2. ASSUME PersistWireMeta(wantedW) PROVE WireInv'
  <2>1. PICK r : r = [hash |-> wantedW, mtime |-> fileW.mtime, size |-> wantedW[1].size]
    OBVIOUS
  <2>2. rowsW' = [rowsW EXCEPT ![shareW] = r]
    BY <1>2, <2>1 DEF PersistWireMeta
  <2>3. RowSound(r)'
    <3>1. r.hash = wantedW /\ r.mtime = fileW.mtime /\ r.size = wantedW[1].size
      BY <2>1
    <3>2. wantedW[1] = fileW.body \/ fileW.mtime \in slippedW
      BY DEF WireInv
    <3> QED BY <3>1, <3>2 DEF RowSound, WireInv
  <2>4. \A v \in VaultsW : rowsW'[v] = IF v = shareW THEN r ELSE rowsW[v]
    BY <2>2 DEF WireInv
  <2>5. DOMAIN rowsW' = VaultsW /\ rowsW' = [v \in VaultsW |-> rowsW'[v]]
    BY <2>2 DEF WireInv
  <2>6. ASSUME NEW v \in VaultsW, rowsW'[v] # NoWire PROVE RowSound(rowsW[v])'
    BY <2>3, <2>4, <2>6 DEF WireInv, RowSound
  <2> QED BY <2>5, <2>6 DEF WireInv
<1> QED BY <1>1, <1>2

\* Every step of an encrypted transfer keeps its invariant.
LEMMA WireKeeps ==
  ASSUME WireInv, [WireNext]_wireVars
  PROVE  WireInv' /\ DownloadIsPromised
<1>1. ASSUME UNCHANGED <<shareW, fileW, rowsW, slippedW>>,
             \/ UNCHANGED <<cycleW, wantedW>>
             \/ cycleW' \notin {"sending", "written"}
             \/ cycleW' = "sending" /\ wantedW'[1] = fileW.body
      PROVE  WireInv' /\ DownloadIsPromised
  BY <1>1 DEF WireInv, RowSound, DownloadIsPromised
<1>2. CASE UNCHANGED wireVars
  BY <1>1, <1>2 DEF wireVars
<1>3. ASSUME NEW b \in BodiesW, SaveBody(b) PROVE WireInv' /\ DownloadIsPromised
  <2>1. fileW' = [body |-> b, mtime |-> fileW.mtime + 1] /\ UNCHANGED <<shareW, rowsW, cycleW, wantedW>>
    BY <1>3 DEF SaveBody
  <2>2. slippedW \subseteq slippedW' /\ (cycleW \in {"sending", "written"} => fileW.mtime + 1 \in slippedW')
    BY <1>3 DEF SaveBody
  <2> QED BY <2>1, <2>2, WrittenKeeps DEF DownloadIsPromised
<1>4. ASSUME NEW b \in BodiesW, OtherUploads(b) PROVE WireInv' /\ DownloadIsPromised
  BY <1>1, <1>4 DEF OtherUploads
<1>5. CASE ScanFile \/ OverlayFails \/ TransferFails
  BY <1>1, <1>5 DEF ScanFile, OverlayFails, TransferFails
<1>6. CASE ExchangeWire
  <2>1. cycleW' \in {"idle", "upload", "download"} /\ UNCHANGED <<shareW, fileW, rowsW, slippedW>>
    BY <1>6 DEF ExchangeWire
  <2> QED BY <1>1, <2>1
<1>7. CASE ReadAndEncrypt
  <2>1. wantedW'[1] = fileW.body
    BY <1>7 DEF ReadAndEncrypt, Encrypt
  <2> QED BY <1>1, <1>7, <2>1 DEF ReadAndEncrypt
<1>8. CASE UploadDone \/ DownloadPersist
  BY <1>8, PersistKeeps DEF UploadDone, DownloadPersist, DownloadIsPromised
<1>9. CASE DownloadBody
  <2>1. /\ fileW' = [body |-> serverW[1], mtime |-> fileW.mtime + 1] /\ serverW = wantedW
        /\ UNCHANGED <<shareW, rowsW, wantedW, slippedW>>
    BY <1>9 DEF DownloadBody, FromWireBytes
  <2>2. wantedW'[1] = serverW[1] /\ fileW'.body = wantedW[1]
    BY <2>1
  <2> QED BY <2>1, <2>2, WrittenKeeps DEF DownloadIsPromised
<1> QED BY <1>2, <1>3, <1>4, <1>5, <1>6, <1>7, <1>8, <1>9 DEF WireNext

\* Transfers start without a row.
LEMMA WireStart == WireInit => WireInv
<1> SUFFICES ASSUME WireInit PROVE WireInv
  OBVIOUS
<1>1. fileW.mtime = 1
  BY DEF WireInit
<1> QED BY <1>1 DEF WireInit, WireInv

\* EncryptionSound of every behaviour
THEOREM EncryptionHolds == KeysSpec /\ WireSpec => EncryptionSound
<1>1. KeysInv /\ WireInv /\ [KeysNext]_keyVars /\ [WireNext]_wireVars =>
        KeysInv' /\ WireInv' /\ UnlockLosesNoKey /\ LockLeavesNothing'
        /\ DownloadIsPromised /\ ReusedIndexIsCurrent'
  <2>1. WireInv' => ReusedIndexIsCurrent'
    BY RowsAreCurrent, PTL
  <2> QED BY <2>1, KeysKeep, WireKeeps
<1> QED BY <1>1, KeysStart, WireStart, PTL DEF KeysSpec, WireSpec, EncryptionSound

-----------------------------------------------------------------------------
(* Conflict copies *)

\* The rows of the conflicts table.
RowsOfC == [share : Roots, fork : ForkName, remoteHash : SUBSET Edits,
            status : {"open", "resolved", "gone"}]

\* The copy of a row is there at least until its second is over, and while it is there
\* it has the bytes the row was recorded for.
RowLeads(r) ==
  /\ r.fork.sec <= second
  /\ r.fork.sec = second => r.fork \in DOMAIN forks[r.share]
  /\ r.fork \in DOMAIN forks[r.share] => forks[r.share][r.fork] = r.remoteHash

\* The ancestor is part of what the server has, also of what a cycle has of it.
BaseBehind(s) ==
  /\ baseC[s] = NoBodyC \/ baseC[s] \subseteq server[s]
  /\ applying[s].at = "held" =>
       /\ applying[s].remote \subseteq Edits
       /\ baseC[s] = NoBodyC \/ baseC[s] \subseteq applying[s].remote

ConflictsInv ==
  /\ live = [s \in Roots |-> live[s]] /\ forks = [s \in Roots |-> forks[s]]
  /\ baseC = [s \in Roots |-> baseC[s]] /\ applying = [s \in Roots |-> applying[s]]
  /\ server \in [Roots -> SUBSET Edits] /\ second \in Nat
  /\ rowsC \in Seq(RowsOfC)
  /\ \A i \in 1..Len(rowsC) : RowLeads(rowsC[i])
  /\ \A s \in Roots : BaseBehind(s)

\* The fields of a conflict row.
LEMMA RowFields ==
  ASSUME rowsC \in Seq(RowsOfC), NEW i \in 1..Len(rowsC)
  PROVE  /\ rowsC[i] \in RowsOfC /\ rowsC[i].share \in Roots /\ rowsC[i].fork \in ForkName
         /\ rowsC[i].fork.sec \in Nat
<1>1. rowsC[i] \in RowsOfC
  OBVIOUS
<1>2. rowsC[i].share \in Roots /\ rowsC[i].fork \in ForkName
  BY <1>1 DEF RowsOfC
<1>3. \A f \in ForkName : f.sec \in Nat
  BY ConflictsAssumption DEF ForkName
<1> QED BY <1>1, <1>2, <1>3

\* A row names bytes that are there.
LEMMA RowsLead ==
  ASSUME ConflictsInv
  PROVE  RowNamesItsBytes
<1> SUFFICES ASSUME NEW i \in Unresolved(Roots)
             PROVE  ConflictDiff(rowsC[i]).fork \in {NoBodyC, rowsC[i].remoteHash}
  BY DEF RowNamesItsBytes
<1>1. RowLeads(rowsC[i])
  BY DEF ConflictsInv, Unresolved
<1> QED BY <1>1 DEF RowLeads, ConflictDiff

\* A copy gets a name that was free.
LEMMA ForkAppears ==
  ASSUME ConflictsInv, NEW s \in Roots, NEW tag, NEW body, NEW fork,
         WriteFork(s, tag, body, fork)
  PROVE  /\ fork.sec = second /\ fork \notin DOMAIN forks[s]
         /\ DOMAIN forks'[s] = DOMAIN forks[s] \cup {fork}
         /\ \A g \in DOMAIN forks[s] : forks'[s][g] = forks[s][g]
         /\ forks'[s][fork] = body
         /\ \A t \in Roots : t # s => forks'[t] = forks[t]
         /\ forks' = [t \in Roots |-> forks'[t]]
<1>1. PICK n \in FreeName(s, tag) : fork = ForkFilename(tag)[n]
  BY DEF WriteFork
<1>2. n \in 1..MaxCollision /\ fork \notin DOMAIN forks[s]
  BY <1>1 DEF FreeName
<1>3. fork = [tag |-> tag, sec |-> second, n |-> n - 1]
  BY <1>1, <1>2 DEF ForkFilename
<1>4. fork.sec = second
  BY <1>3
<1>5. PICK p : p = Persisted(s, fork, body)
  OBVIOUS
<1>6. forks' = [forks EXCEPT ![s] = p]
  BY <1>5 DEF WriteFork
<1>7. forks'[s] = p /\ (\A t \in Roots : t # s => forks'[t] = forks[t]) /\ forks' = [t \in Roots |-> forks'[t]]
  BY <1>6 DEF ConflictsInv
<1>8. /\ DOMAIN p = DOMAIN forks[s] \cup {fork} /\ p[fork] = body
      /\ \A g \in DOMAIN forks[s] : g # fork => p[g] = forks[s][g]
  BY <1>5 DEF Persisted
<1> QED BY <1>2, <1>4, <1>7, <1>8

\* A step that removes no copy and changes none, except to add one of this second.
LEMMA CopiesStay ==
  ASSUME ConflictsInv, NEW r \in RowsOfC, RowLeads(r), NEW s \in Roots, NEW fork,
         fork.sec = second, fork \notin DOMAIN forks[s],
         DOMAIN forks'[s] = DOMAIN forks[s] \cup {fork},
         \A g \in DOMAIN forks[s] : forks'[s][g] = forks[s][g],
         \A t \in Roots : t # s => forks'[t] = forks[t],
         UNCHANGED second
  PROVE  RowLeads(r)'
<1>1. r.share \in Roots
  BY DEF RowsOfC
<1>2. CASE r.share # s
  BY <1>1, <1>2 DEF RowLeads
<1>3. CASE r.share = s
  <2>1. r.fork # fork
    BY <1>3 DEF RowLeads
  <2> QED BY <1>3, <2>1 DEF RowLeads
<1> QED BY <1>2, <1>3

\* What was kept stays.
LEMMA KeptGrows ==
  ASSUME NEW s \in Roots,
         DOMAIN forks[s] \subseteq DOMAIN forks'[s],
         \A g \in DOMAIN forks[s] : forks'[s][g] = forks[s][g],
         \A e \in Edited(live[s]) :
            e \in Edited(live[s])' \/ \E g \in DOMAIN forks'[s] : e \in forks'[s][g]
  PROVE  Kept(s) \subseteq Kept(s)'
<1>1. \A e : e \in Kept(s) <=> e \in Edited(live[s]) \/ \E g \in DOMAIN forks[s] : e \in forks[s][g]
  BY DEF Kept
<1>2. \A e : e \in Kept(s)' <=> e \in Edited(live[s])' \/ \E g \in DOMAIN forks'[s] : e \in forks'[s][g]
  BY DEF Kept
<1> QED BY <1>1, <1>2

\* What a step does to the copies and the live file of the shares.
FilesKept == UNCHANGED <<live, forks>>

\* A step that touches no file drops nothing.
LEMMA NothingTouched ==
  ASSUME FilesKept
  PROVE  NothingDropped
<1> SUFFICES ASSUME NEW s \in Roots PROVE Kept(s) \subseteq Kept(s)'
  BY DEF NothingDropped
<1> QED BY KeptGrows DEF FilesKept, Edited

\* A step leaves the rows and the cycles alone.
LEMMA RestKeeps ==
  ASSUME ConflictsInv, live' = [s \in Roots |-> live'[s]], forks' = forks,
         UNCHANGED <<baseC, applying, server, second, rowsC>>
  PROVE  ConflictsInv'
<1>1. \A s \in Roots : BaseBehind(s)'
  BY DEF ConflictsInv, BaseBehind
<1>2. \A i \in 1..Len(rowsC) : RowLeads(rowsC[i])'
  BY DEF ConflictsInv, RowLeads
<1> QED BY <1>1, <1>2 DEF ConflictsInv

\* A file is saved.
LEMMA SaveKeeps ==
  ASSUME ConflictsInv, NEW s \in Roots, NEW e \in Edits, Save(s, e)
  PROVE  ConflictsInv' /\ NothingDropped
<1>1. live' = [live EXCEPT ![s] = Edited(live[s]) \cup {e}]
  BY DEF Save
<1>2. /\ live'[s] = Edited(live[s]) \cup {e} /\ \A t \in Roots : t # s => live'[t] = live[t]
      /\ live' = [t \in Roots |-> live'[t]]
  BY <1>1 DEF ConflictsInv
<1>3. ASSUME NEW t \in Roots PROVE Kept(t) \subseteq Kept(t)' \/ Excused(t)
  <2>1. CASE t = s /\ live'[s] = NoBodyC
    BY <2>1 DEF Excused
  <2>2. CASE t # s \/ live'[s] # NoBodyC
    <3>1. Edited(live[t]) \subseteq Edited(live[t])'
      BY <1>2, <2>2 DEF Edited
    <3> QED BY <3>1, KeptGrows DEF Save
  <2> QED BY <2>1, <2>2
<1>4. ConflictsInv'
  BY <1>2, RestKeeps DEF Save
<1> QED BY <1>3, <1>4 DEF NothingDropped

\* A file is removed by its owner.
LEMMA RemoveKeeps ==
  ASSUME ConflictsInv, NEW s \in Roots, RemoveLive(s)
  PROVE  ConflictsInv' /\ NothingDropped
<1>1. live' = [live EXCEPT ![s] = NoBodyC]
  BY DEF RemoveLive
<1>2. /\ live'[s] = NoBodyC /\ \A t \in Roots : t # s => live'[t] = live[t]
      /\ live' = [t \in Roots |-> live'[t]]
  BY <1>1 DEF ConflictsInv
<1>3. ASSUME NEW t \in Roots PROVE Kept(t) \subseteq Kept(t)' \/ Excused(t)
  <2>1. CASE t = s
    BY <1>2, <2>1 DEF Excused
  <2>2. CASE t # s
    BY <1>2, <2>2, KeptGrows DEF RemoveLive, Edited
  <2> QED BY <2>1, <2>2
<1>4. ConflictsInv'
  BY <1>2, RestKeeps DEF RemoveLive
<1> QED BY <1>3, <1>4 DEF NothingDropped

\* The owner removes a copy of an earlier second.
LEMMA TidyKeeps ==
  ASSUME ConflictsInv, NEW s \in Roots, NEW f \in DOMAIN forks[s], TidyFork(s, f)
  PROVE  ConflictsInv' /\ NothingDropped
<1>1. PICK d : d = [g \in DOMAIN forks[s] \ {f} |-> forks[s][g]]
  OBVIOUS
<1>2. forks' = [forks EXCEPT ![s] = d] /\ f.sec < second
  BY <1>1 DEF TidyFork
<1>3. /\ forks'[s] = d /\ \A t \in Roots : t # s => forks'[t] = forks[t]
      /\ forks' = [t \in Roots |-> forks'[t]]
  BY <1>2 DEF ConflictsInv
<1>4. DOMAIN d = DOMAIN forks[s] \ {f} /\ \A g \in DOMAIN d : d[g] = forks[s][g]
  BY <1>1
<1>5. UNCHANGED <<live, server, baseC, rowsC, applying, second>>
  BY DEF TidyFork
<1>6. ASSUME NEW t \in Roots PROVE Kept(t) \subseteq Kept(t)' \/ Excused(t)
  <2>1. CASE t = s
    BY <1>3, <1>4, <2>1 DEF Excused
  <2>2. CASE t # s
    BY <1>3, <1>5, <2>2, KeptGrows DEF Edited
  <2> QED BY <2>1, <2>2
<1>7. ASSUME NEW i \in 1..Len(rowsC) PROVE RowLeads(rowsC[i])'
  <2>1. RowLeads(rowsC[i]) /\ rowsC[i].share \in Roots /\ rowsC[i].fork.sec \in Nat
    BY RowFields DEF ConflictsInv
  <2>2. CASE rowsC[i].share # s
    BY <1>3, <1>5, <2>1, <2>2 DEF RowLeads
  <2>3. CASE rowsC[i].share = s
    <3>1. rowsC[i].fork.sec = second => rowsC[i].fork # f
      BY <1>2, <2>1 DEF ConflictsInv
    <3> QED BY <1>3, <1>4, <1>5, <2>1, <2>3, <3>1 DEF RowLeads
  <2> QED BY <2>2, <2>3
<1>8. \A t \in Roots : BaseBehind(t)'
  BY <1>5 DEF ConflictsInv, BaseBehind
<1>9. ConflictsInv'
  BY <1>3, <1>5, <1>7, <1>8 DEF ConflictsInv
<1> QED BY <1>6, <1>9 DEF NothingDropped

\* Another device changes the file at the server.
LEMMA OtherKeeps ==
  ASSUME ConflictsInv, NEW s \in Roots, NEW e \in Edits, OtherNode(s, e)
  PROVE  ConflictsInv' /\ NothingDropped
<1>1. /\ server' = [server EXCEPT ![s] = server[s] \cup {e}]
      /\ UNCHANGED <<live, baseC, forks, rowsC, applying, second>>
  BY DEF OtherNode
<1>2. server' \in [Roots -> SUBSET Edits] /\ \A t \in Roots : server[t] \subseteq server'[t]
  BY <1>1 DEF ConflictsInv
<1>3. \A t \in Roots : BaseBehind(t)'
  BY <1>1, <1>2 DEF ConflictsInv, BaseBehind
<1>4. \A i \in 1..Len(rowsC) : RowLeads(rowsC[i])'
  BY <1>1 DEF ConflictsInv, RowLeads
<1> QED BY <1>1, <1>2, <1>3, <1>4, NothingTouched DEF ConflictsInv, FilesKept

\* The clock moves on.
LEMMA SecondKeeps ==
  ASSUME ConflictsInv, SecondPasses
  PROVE  ConflictsInv' /\ NothingDropped
<1>1. second' = second + 1 /\ UNCHANGED <<live, server, baseC, forks, rowsC, applying>>
  BY DEF SecondPasses
<1>2. ASSUME NEW i \in 1..Len(rowsC) PROVE RowLeads(rowsC[i])'
  <2>1. RowLeads(rowsC[i]) /\ rowsC[i].fork.sec \in Nat
    BY RowFields DEF ConflictsInv
  <2>2. rowsC[i].fork.sec <= second' /\ rowsC[i].fork.sec # second'
    BY <1>1, <2>1 DEF RowLeads, ConflictsInv
  <2> QED BY <1>1, <2>1, <2>2 DEF RowLeads
<1>3. \A t \in Roots : BaseBehind(t)'
  BY <1>1 DEF ConflictsInv, BaseBehind
<1> QED BY <1>1, <1>2, <1>3, NothingTouched DEF ConflictsInv, FilesKept

\* Steps of a cycle that touch no file.
LEMMA CycleKeeps ==
  ASSUME ConflictsInv, UNCHANGED <<live, forks, server, rowsC, second>>,
         baseC' = [s \in Roots |-> baseC'[s]], applying' = [s \in Roots |-> applying'[s]],
         \A s \in Roots : BaseBehind(s)'
  PROVE  ConflictsInv' /\ NothingDropped
<1>1. \A i \in 1..Len(rowsC) : RowLeads(rowsC[i])'
  BY DEF ConflictsInv, RowLeads
<1> QED BY <1>1, NothingTouched DEF ConflictsInv, FilesKept

\* Both sides are equal: the base follows them.
LEMMA SyncedKeeps ==
  ASSUME ConflictsInv, NEW s \in Roots, Synced(s)
  PROVE  ConflictsInv' /\ NothingDropped
<1>1. /\ baseC' = [baseC EXCEPT ![s] = live[s]] /\ live[s] = server[s] /\ applying[s] = IdleC
      /\ UNCHANGED <<live, forks, server, rowsC, second, applying>>
  BY DEF Synced
<1>2. baseC'[s] = server[s] /\ (\A t \in Roots : t # s => baseC'[t] = baseC[t]) /\ baseC' = [t \in Roots |-> baseC'[t]]
  BY <1>1 DEF ConflictsInv
<1>3. applying[s].at # "held"
  BY <1>1 DEF IdleC
<1>4. ASSUME NEW t \in Roots PROVE BaseBehind(t)'
  BY <1>1, <1>2, <1>3 DEF BaseBehind, ConflictsInv
<1> QED BY <1>1, <1>2, <1>4, CycleKeeps DEF ConflictsInv

\* A cycle applies what the server has.
LEMMA ApplyingKeeps ==
  ASSUME ConflictsInv, NEW s \in Roots, NEW a, applying' = [applying EXCEPT ![s] = a],
         UNCHANGED <<live, forks, server, rowsC, second, baseC>>,
         a.at = "held" => a.remote = server[s]
  PROVE  ConflictsInv' /\ NothingDropped
<1>1. applying'[s] = a /\ (\A t \in Roots : t # s => applying'[t] = applying[t]) /\ applying' = [t \in Roots |-> applying'[t]]
  BY DEF ConflictsInv
<1>2. ASSUME NEW t \in Roots PROVE BaseBehind(t)'
  BY <1>1 DEF BaseBehind, ConflictsInv
<1> QED BY <1>1, <1>2, CycleKeeps DEF ConflictsInv

\* The steps of a cycle keep the invariant.
LEMMA CycleStepsKeep ==
  ASSUME ConflictsInv, NEW s \in Roots,
         ReadLocal(s) \/ Downloaded(s) \/ DownloadFails(s) \/ ForkFails(s)
  PROVE  ConflictsInv' /\ NothingDropped
<1>1. CASE ReadLocal(s)
  <2>1. PICK a : a = [at |-> "read", local |-> live[s]]
    OBVIOUS
  <2>2. a.at = "read" /\ applying' = [applying EXCEPT ![s] = a]
    BY <1>1, <2>1 DEF ReadLocal
  <2> QED BY <1>1, <2>2, ApplyingKeeps DEF ReadLocal
<1>2. CASE Downloaded(s)
  <2>1. PICK a : a = [at |-> "held", local |-> applying[s].local, remote |-> server[s]]
    OBVIOUS
  <2>2. a.remote = server[s] /\ applying' = [applying EXCEPT ![s] = a]
    BY <1>2, <2>1 DEF Downloaded
  <2> QED BY <1>2, <2>2, ApplyingKeeps DEF Downloaded
<1>3. CASE DownloadFails(s) \/ ForkFails(s)
  <2>1. IdleC.at # "held"
    BY DEF IdleC
  <2> QED BY <1>3, <2>1, ApplyingKeeps DEF DownloadFails, ForkFails
<1> QED BY <1>1, <1>2, <1>3

\* A share at rest has its base behind it.
LEMMA IdleBase ==
  ASSUME ConflictsInv, NEW s \in Roots, applying' = [applying EXCEPT ![s] = IdleC],
         UNCHANGED <<server, baseC>>
  PROVE  applying' = [t \in Roots |-> applying'[t]] /\ \A t \in Roots : BaseBehind(t)'
<1>1. applying'[s] = IdleC /\ (\A t \in Roots : t # s => applying'[t] = applying[t]) /\ applying' = [t \in Roots |-> applying'[t]]
  BY DEF ConflictsInv
<1>2. IdleC.at # "held"
  BY DEF IdleC
<1> QED BY <1>1, <1>2 DEF ConflictsInv, BaseBehind

\* The server's version is taken after the local one was kept.
LEMMA ServerWinsKeeps ==
  ASSUME ConflictsInv, NEW s \in Roots, ServerWins(s)
  PROVE  ConflictsInv' /\ NothingDropped
<1>1. /\ s \in follower /\ live' = [live EXCEPT ![s] = applying[s].remote]
      /\ applying' = [applying EXCEPT ![s] = IdleC]
      /\ UNCHANGED <<server, baseC, forks, rowsC, second>>
  BY DEF ServerWins
<1>2. (\A t \in Roots : t # s => live'[t] = live[t]) /\ live' = [t \in Roots |-> live'[t]]
  BY <1>1 DEF ConflictsInv
<1>3. ASSUME NEW t \in Roots PROVE Kept(t) \subseteq Kept(t)' \/ Excused(t)
  <2>1. CASE t = s
    BY <1>1, <2>1 DEF Excused
  <2>2. CASE t # s
    BY <1>1, <1>2, <2>2, KeptGrows DEF Edited
  <2> QED BY <2>1, <2>2
<1>4. \A i \in 1..Len(rowsC) : RowLeads(rowsC[i])'
  BY <1>1 DEF ConflictsInv, RowLeads
<1>5. ConflictsInv'
  BY <1>1, <1>2, <1>4, IdleBase DEF ConflictsInv
<1> QED BY <1>3, <1>5 DEF NothingDropped

\* A merge with an ancestor that the remote side still has contains the local side.
LEMMA MergeContains ==
  ASSUME NEW base, NEW local, NEW remote, base = NoBodyC \/ base \subseteq remote,
         NEW m \in ThreeWayMerge(base, local, remote), m # NoBodyC
  PROVE  local \subseteq m
  BY DEF ThreeWayMerge

\* The copy holds the local bytes.
LEMMA ForkWritten ==
  ASSUME ConflictsInv, NEW s \in Roots, NEW tag, NEW body, NEW fork,
         WriteFork(s, tag, body, fork), UNCHANGED second
  PROVE  \A q \in RowsOfC : RowLeads(q) => RowLeads(q)'
<1> SUFFICES ASSUME NEW q \in RowsOfC, RowLeads(q) PROVE RowLeads(q)'
  OBVIOUS
<1>1. /\ fork.sec = second /\ fork \notin DOMAIN forks[s]
      /\ DOMAIN forks'[s] = DOMAIN forks[s] \cup {fork}
      /\ \A g \in DOMAIN forks[s] : forks'[s][g] = forks[s][g]
      /\ \A t \in Roots : t # s => forks'[t] = forks[t]
  BY ForkAppears
<1> QED BY <1>1, CopiesStay

\* Making a copy drops nothing.
LEMMA ForkDropsNothing ==
  ASSUME ConflictsInv, NEW s \in Roots, NEW tag, NEW body, NEW fork,
         WriteFork(s, tag, body, fork),
         \A t \in Roots : t # s => live'[t] = live[t],
         live'[s] = live[s] \/ Edited(live[s]) \subseteq body
  PROVE  NothingDropped
<1>1. ASSUME NEW t \in Roots PROVE Kept(t) \subseteq Kept(t)'
  <2>1. DOMAIN forks[t] \subseteq DOMAIN forks'[t] /\ \A g \in DOMAIN forks[t] : forks'[t][g] = forks[t][g]
    BY ForkAppears
  <2>2. CASE live'[t] = live[t]
    BY <2>1, <2>2, KeptGrows DEF Edited
  <2>3. CASE t = s /\ Edited(live[s]) \subseteq body
    <3>1. fork \in DOMAIN forks'[s] /\ forks'[s][fork] = body
      BY ForkAppears
    <3> QED BY <2>1, <2>3, <3>1, KeptGrows
  <2> QED BY <2>2, <2>3
<1> QED BY <1>1 DEF NothingDropped

\* A merge drops nothing.
LEMMA MergedDropsNothing ==
  ASSUME ConflictsInv, NEW s \in Roots, NEW m, m # NoBodyC, live' = [live EXCEPT ![s] = m],
         UNCHANGED forks, Edited(live[s]) \subseteq m \/ Excused(s)
  PROVE  NothingDropped /\ live' = [t \in Roots |-> live'[t]]
<1>1. live'[s] = m /\ (\A t \in Roots : t # s => live'[t] = live[t]) /\ live' = [t \in Roots |-> live'[t]]
  BY DEF ConflictsInv
<1>2. ASSUME NEW t \in Roots PROVE Kept(t) \subseteq Kept(t)' \/ Excused(t)
  <2>1. CASE t = s /\ Excused(s)
    BY <2>1
  <2>2. CASE t = s /\ Edited(live[s]) \subseteq m
    BY <1>1, <2>2, KeptGrows DEF Edited
  <2>3. CASE t # s
    BY <1>1, <2>3, KeptGrows DEF Edited
  <2> QED BY <2>1, <2>2, <2>3
<1> QED BY <1>1, <1>2 DEF NothingDropped

\* One more conflict row.
LEMMA RowAdded ==
  ASSUME ConflictsInv, NEW s \in Roots, NEW fork \in ForkName, NEW remote \in SUBSET Edits,
         WriteFork(s, "node", remote, fork), UNCHANGED second,
         rowsC' \in {rowsC, CreateConflict(s, fork, remote)}
  PROVE  rowsC' \in Seq(RowsOfC) /\ \A i \in 1..Len(rowsC') : RowLeads(rowsC[i])'
<1>1. \A q \in RowsOfC : RowLeads(q) => RowLeads(q)'
  BY ForkWritten
<1>2. CASE rowsC' = rowsC
  <2>1. ASSUME NEW i \in 1..Len(rowsC') PROVE RowLeads(rowsC[i])'
    <3>1. PICK q : q = rowsC[i]
      OBVIOUS
    <3>2. q \in RowsOfC /\ RowLeads(q) /\ rowsC'[i] = q
      BY <1>2, <3>1, RowFields DEF ConflictsInv
    <3> QED BY <1>1, <3>2
  <2> QED BY <1>2, <2>1 DEF ConflictsInv
<1>3. CASE rowsC' = CreateConflict(s, fork, remote)
  <2>1. PICK r : r = [share |-> s, fork |-> fork, remoteHash |-> remote, status |-> "open"]
    OBVIOUS
  <2>2. r \in RowsOfC /\ r.share = s /\ r.fork = fork /\ r.remoteHash = remote
    BY <2>1 DEF RowsOfC
  <2>3. rowsC' = Append(rowsC, r)
    BY <1>3, <2>1 DEF CreateConflict
  <2>4. /\ rowsC' \in Seq(RowsOfC) /\ Len(rowsC') = Len(rowsC) + 1 /\ rowsC'[Len(rowsC) + 1] = r
        /\ \A i \in 1..Len(rowsC) : rowsC'[i] = rowsC[i]
    BY <2>2, <2>3 DEF ConflictsInv
  <2>6. RowLeads(r)'
    <3>1. fork.sec = second /\ DOMAIN forks'[s] = DOMAIN forks[s] \cup {fork} /\ forks'[s][fork] = remote
      BY ForkAppears
    <3> QED BY <2>2, <3>1 DEF RowLeads, ConflictsInv
  <2>7. ASSUME NEW i \in 1..Len(rowsC') PROVE RowLeads(rowsC[i])'
    <3>1. CASE i = Len(rowsC) + 1
      BY <2>4, <2>6, <3>1
    <3>2. CASE i \in 1..Len(rowsC)
      <4>1. PICK q : q = rowsC[i]
        OBVIOUS
      <4>2. q \in RowsOfC /\ RowLeads(q) /\ rowsC'[i] = q
        BY <2>4, <3>2, <4>1, RowFields DEF ConflictsInv
      <4> QED BY <1>1, <4>2
    <3> QED BY <2>4, <3>1, <3>2 DEF ConflictsInv
  <2> QED BY <2>4, <2>7
<1> QED BY <1>2, <1>3

\* A conflict becomes a copy or a merge.
LEMMA ForkOrMergeKeeps ==
  ASSUME ConflictsInv, NEW s \in Roots, ForkOrMerge(s)
  PROVE  ConflictsInv' /\ NothingDropped
<1>1. /\ applying[s].at = "held" /\ applying' = [applying EXCEPT ![s] = IdleC]
      /\ UNCHANGED <<server, baseC, second>>
  BY DEF ForkOrMerge
<1>2. PICK fork \in ForkName \cup {NoBodyC} :
        /\ ApplyConflict(s, baseC[s], applying[s].local, applying[s].remote, "node", fork)
        /\ rowsC' \in IF fork = NoBodyC THEN {rowsC}
                     ELSE {rowsC, CreateConflict(s, fork, applying[s].remote)}
  BY DEF ForkOrMerge
<1>3. BaseBehind(s) /\ applying[s].remote \subseteq Edits
  BY <1>1 DEF ConflictsInv, BaseBehind
<1>4. PICK merged \in ThreeWayMerge(baseC[s], applying[s].local, applying[s].remote) :
        \/ /\ merged # NoBodyC /\ fork = NoBodyC
           /\ live' = [live EXCEPT ![s] = merged] /\ UNCHANGED forks
        \/ /\ merged = NoBodyC
           /\ WriteFork(s, "node", applying[s].remote, fork) /\ UNCHANGED live
  BY <1>2 DEF ApplyConflict
<1>5. applying' = [t \in Roots |-> applying'[t]] /\ \A t \in Roots : BaseBehind(t)'
  BY <1>1, IdleBase
<1>6. CASE merged # NoBodyC /\ fork = NoBodyC /\ live' = [live EXCEPT ![s] = merged] /\ UNCHANGED forks
  <2>1. applying[s].local \subseteq merged
    BY <1>1, <1>3, <1>6, MergeContains DEF BaseBehind
  <2>2. Edited(live[s]) \subseteq merged \/ Excused(s)
    <3>1. CASE applying[s].local = live[s]
      BY <2>1, <3>1 DEF Edited
    <3>2. CASE applying[s].local # live[s]
      BY <1>1, <3>2 DEF Excused
    <3> QED BY <3>1, <3>2
  <2>3. NothingDropped /\ live' = [t \in Roots |-> live'[t]]
    BY <1>6, <2>2, MergedDropsNothing
  <2>4. rowsC' = rowsC
    BY <1>2, <1>6
  <2>5. \A i \in 1..Len(rowsC) : RowLeads(rowsC[i])'
    BY <1>1, <1>6, <2>4 DEF ConflictsInv, RowLeads
  <2> QED BY <1>1, <1>5, <1>6, <2>3, <2>4, <2>5 DEF ConflictsInv
<1>7. CASE WriteFork(s, "node", applying[s].remote, fork) /\ UNCHANGED live
  <2>1. NothingDropped
    BY <1>7, ForkDropsNothing
  <2>2. forks' = [t \in Roots |-> forks'[t]]
    BY <1>7, ForkAppears
  <2>3. rowsC' \in Seq(RowsOfC) /\ \A i \in 1..Len(rowsC') : RowLeads(rowsC[i])'
    <3>1. CASE fork \in ForkName
      BY <1>1, <1>2, <1>3, <1>7, <3>1, RowAdded
    <3>2. CASE fork = NoBodyC
      <4>1. rowsC' = rowsC
        BY <1>2, <3>2
      <4>2. ASSUME NEW i \in 1..Len(rowsC) PROVE RowLeads(rowsC[i])'
        <5>1. PICK q : q = rowsC[i]
          OBVIOUS
        <5>2. q \in RowsOfC /\ RowLeads(q) /\ rowsC'[i] = q
          BY <4>1, <5>1, RowFields DEF ConflictsInv
        <5> QED BY <1>1, <1>7, <5>2, ForkWritten
      <4> QED BY <4>1, <4>2 DEF ConflictsInv
    <3> QED BY <3>1, <3>2
  <2> QED BY <1>1, <1>5, <1>7, <2>1, <2>2, <2>3 DEF ConflictsInv
<1> QED BY <1>4, <1>6, <1>7

\* Steps that change the status of a row, or nothing of the rows.
LEMMA StatusKeeps ==
  ASSUME ConflictsInv, UNCHANGED <<live, forks, server, second, baseC, applying>>,
         rowsC' = rowsC \/ \E i, x : x \in {"resolved", "gone"} /\ rowsC' = [rowsC EXCEPT ![i].status = x]
  PROVE  ConflictsInv' /\ NothingDropped
<1>1. CASE rowsC' = rowsC
  BY <1>1, CycleKeeps DEF ConflictsInv, BaseBehind
<1>2. ASSUME NEW i, NEW x \in {"resolved", "gone"}, rowsC' = [rowsC EXCEPT ![i].status = x]
      PROVE  ConflictsInv' /\ NothingDropped
  <2>1. CASE i \notin 1..Len(rowsC)
    <3>1. rowsC' = rowsC
      BY <1>2, <2>1 DEF ConflictsInv
    <3> QED BY <1>1, <3>1
  <2>2. CASE i \in 1..Len(rowsC)
    <3>1. PICK q : q = [rowsC[i] EXCEPT !.status = x]
      OBVIOUS
    <3>2. rowsC' = [rowsC EXCEPT ![i] = q]
      BY <1>2, <3>1
    <3>3. q \in RowsOfC /\ q.share = rowsC[i].share /\ q.fork = rowsC[i].fork /\ q.remoteHash = rowsC[i].remoteHash
      BY <2>2, <3>1, RowFields DEF ConflictsInv, RowsOfC
    <3>4. rowsC' \in Seq(RowsOfC) /\ Len(rowsC') = Len(rowsC) /\ \A j \in 1..Len(rowsC) : rowsC'[j] = IF j = i THEN q ELSE rowsC[j]
      BY <2>2, <3>2, <3>3 DEF ConflictsInv
    <3>5. ASSUME NEW j \in 1..Len(rowsC) PROVE RowLeads(rowsC[j])'
      <4>1. RowLeads(rowsC[j]) /\ RowLeads(rowsC[i])
        BY <2>2 DEF ConflictsInv
      <4> QED BY <3>3, <3>4, <4>1 DEF RowLeads
    <3>6. \A t \in Roots : BaseBehind(t)'
      BY DEF ConflictsInv, BaseBehind
    <3> QED BY <3>4, <3>5, <3>6, NothingTouched DEF ConflictsInv, FilesKept
  <2> QED BY <2>1, <2>2
<1> QED BY <1>1, <1>2

\* A share that is none of the roots has no files.
LEMMA NoSuchShare ==
  ASSUME ConflictsInv, NEW s, s \notin Roots
  PROVE  /\ \A b : [live EXCEPT ![s] = b] = live
         /\ \A b : [forks EXCEPT ![s] = b] = forks
  BY DEF ConflictsInv

\* What an operation of the owner does to the files.
LEMMA FileOpIs ==
  ASSUME NEW s, NEW fork, NEW action, PerformFileOp(s, fork, action)
  PROVE  \/ UNCHANGED <<live, forks>>
         \/ \E b : action = "keep-remote" /\ live' = [live EXCEPT ![s] = b] /\ UNCHANGED forks
         \/ \E b, tag, copy : /\ WriteFork(s, tag, b, copy)
                              /\ \/ live' = live
                                 \/ b = live[s] /\ live[s] # NoBodyC /\ \E c : live' = [live EXCEPT ![s] = c]
<1>1. CASE action = "keep-local" \/ action = "fork-remote"
  BY <1>1 DEF PerformFileOp
<1>2. CASE action = "keep-remote"
  BY <1>2 DEF PerformFileOp
<1>3. CASE action = "fork-local"
  <2>1. live[s] # NoBodyC /\ \E copy \in ForkName : WriteFork(s, "caf00000", live[s], copy)
    BY <1>3 DEF PerformFileOp
  <2>2. live' = live \/ \E c : live' = [live EXCEPT ![s] = c]
    BY <1>3 DEF PerformFileOp
  <2> QED BY <2>1, <2>2
<1>4. CASE action = "merge"
  <2>1. PICK copy \in ForkName : ApplyConflict(s, NoBodyC, live[s], forks[s][fork], "ee000000", copy)
    BY <1>4 DEF PerformFileOp
  <2>2. ThreeWayMerge(NoBodyC, live[s], forks[s][fork]) = {NoBodyC}
    BY DEF ThreeWayMerge
  <2>3. WriteFork(s, "ee000000", forks[s][fork], copy) /\ UNCHANGED live
    BY <2>1, <2>2 DEF ApplyConflict
  <2> QED BY <2>3
<1> QED BY <1>1, <1>2, <1>3, <1>4 DEF PerformFileOp

\* An operation of the owner keeps the invariant.
LEMMA FileOpKeeps ==
  ASSUME ConflictsInv, NEW s, NEW fork, NEW action, PerformFileOp(s, fork, action),
         UNCHANGED <<server, second, baseC, applying, rowsC>>,
         action = "keep-remote" => \A t \in Roots : Excused(t)
  PROVE  ConflictsInv' /\ NothingDropped
<1>1. ASSUME UNCHANGED <<live, forks>> PROVE ConflictsInv' /\ NothingDropped
  BY <1>1, StatusKeeps
<1>2. ASSUME NEW b, action = "keep-remote", live' = [live EXCEPT ![s] = b], UNCHANGED forks
      PROVE  ConflictsInv' /\ NothingDropped
  <2>1. live' = [t \in Roots |-> live'[t]]
    BY <1>2 DEF ConflictsInv
  <2> QED BY <1>2, <2>1, RestKeeps DEF NothingDropped
<1>3. ASSUME NEW b, NEW tag, NEW copy, WriteFork(s, tag, b, copy),
             \/ live' = live
             \/ b = live[s] /\ live[s] # NoBodyC /\ \E c : live' = [live EXCEPT ![s] = c]
      PROVE  ConflictsInv' /\ NothingDropped
  <2>1. CASE s \notin Roots
    <3>1. forks' = forks
      BY <1>3, <2>1, NoSuchShare DEF WriteFork
    <3>2. live' = live
      BY <1>3, <2>1, NoSuchShare
    <3> QED BY <1>1, <3>1, <3>2
  <2>2. CASE s \in Roots
    <3>1. (\A t \in Roots : t # s => live'[t] = live[t]) /\ live' = [t \in Roots |-> live'[t]]
      BY <1>3 DEF ConflictsInv
    <3>2. live'[s] = live[s] \/ Edited(live[s]) \subseteq b
      BY <1>3 DEF Edited
    <3>3. NothingDropped
      BY <1>3, <2>2, <3>1, <3>2, ForkDropsNothing
    <3>4. forks' = [t \in Roots |-> forks'[t]]
      BY <1>3, <2>2, ForkAppears
    <3>5. ASSUME NEW i \in 1..Len(rowsC) PROVE RowLeads(rowsC[i])'
      <4>1. PICK q : q = rowsC[i]
        OBVIOUS
      <4>2. q \in RowsOfC /\ RowLeads(q) /\ rowsC'[i] = q
        BY <4>1, RowFields DEF ConflictsInv
      <4> QED BY <1>3, <2>2, <4>2, ForkWritten
    <3>6. \A t \in Roots : BaseBehind(t)'
      BY DEF ConflictsInv, BaseBehind
    <3> QED BY <3>1, <3>3, <3>4, <3>5, <3>6 DEF ConflictsInv
  <2> QED BY <2>1, <2>2
<1> QED BY <1>1, <1>2, <1>3, FileOpIs

\* The daemon stops in a cycle.
LEMMA DiesKeeps ==
  ASSUME ConflictsInv, DaemonDies
  PROVE  ConflictsInv' /\ NothingDropped
<1>1. applying' = [s \in Roots |-> IdleC] /\ UNCHANGED <<live, forks, server, second, baseC, rowsC>>
  BY DEF DaemonDies
<1>2. IdleC.at # "held"
  BY DEF IdleC
<1>3. applying' = [s \in Roots |-> applying'[s]] /\ \A s \in Roots : BaseBehind(s)'
  BY <1>1, <1>2 DEF ConflictsInv, BaseBehind
<1> QED BY <1>1, <1>3, CycleKeeps DEF ConflictsInv

\* Every step keeps the invariant of the conflicts.
LEMMA ConflictsKeep ==
  ASSUME ConflictsInv, [ConflictsNext]_conflictVars
  PROVE  ConflictsInv' /\ NothingDropped
<1>1. CASE UNCHANGED conflictVars
  BY <1>1, StatusKeeps DEF conflictVars
<1>2. ASSUME NEW s \in Roots, UserNext(s) PROVE ConflictsInv' /\ NothingDropped
  BY <1>2, SaveKeeps, OtherKeeps, RemoveKeeps, TidyKeeps DEF UserNext
<1>3. ASSUME NEW shares, NEW q, NEW a, FindRow(shares, q, a) PROVE ConflictsInv' /\ NothingDropped
  BY <1>3, StatusKeeps DEF FindRow
<1>4. CASE ResolveFiles
  <2>1. /\ PerformFileOp(rowsC[resolving.row].share, rowsC[resolving.row].fork, resolving.action)
        /\ resolving.at = "found" /\ UNCHANGED <<server, second, baseC, applying, rowsC>>
    BY <1>4 DEF ResolveFiles
  <2>2. resolving.action = "keep-remote" => \A t \in Roots : Excused(t)
    BY <2>1 DEF Excused
  <2> QED BY <2>1, <2>2, FileOpKeeps
<1>5. CASE ResolveRefused \/ MarkResolved
  BY <1>5, StatusKeeps DEF ResolveRefused, MarkResolved
<1>6. ASSUME NEW i, Cleanup(i) PROVE ConflictsInv' /\ NothingDropped
  BY <1>6, StatusKeeps DEF Cleanup
<1> QED BY <1>1, <1>2, <1>3, <1>4, <1>5, <1>6, SyncedKeeps, CycleStepsKeep, ServerWinsKeeps,
           ForkOrMergeKeeps, DiesKeeps, SecondKeeps DEF ConflictsNext

\* There is no conflict at the start.
LEMMA ConflictsStart == ConflictsInit => ConflictsInv
<1> SUFFICES ASSUME ConflictsInit PROVE ConflictsInv
  OBVIOUS
<1>1. IdleC.at # "held"
  BY DEF IdleC
<1>2. \A s \in Roots : BaseBehind(s)
  BY <1>1 DEF BaseBehind, ConflictsInit
<1>3. rowsC = <<>> /\ rowsC \in Seq(RowsOfC) /\ Len(rowsC) = 0
  BY DEF ConflictsInit
<1> QED BY <1>2, <1>3 DEF ConflictsInit, ConflictsInv

\* ConflictsKept of every behaviour
THEOREM ConflictsHold == ConflictsSpec => ConflictsKept
<1>1. ConflictsInv /\ [ConflictsNext]_conflictVars => ConflictsInv' /\ NothingDropped /\ RowNamesItsBytes'
  <2>1. ConflictsInv' => RowNamesItsBytes'
    BY RowsLead, PTL
  <2> QED BY <2>1, ConflictsKeep
<1> QED BY <1>1, ConflictsStart, PTL DEF ConflictsSpec, ConflictsKept

-----------------------------------------------------------------------------
(* Delta transfer *)

\* Blocks of a file of n bytes, the end of the i-th, the i-th itself, and the first i.
Blocks(n) == (n + BlockSize - 1) \div BlockSize
EndOf(n, i) == Min({i * BlockSize, n})
Block(s, i) == SubSeq(s, (i - 1) * BlockSize + 1, EndOf(Len(s), i))
FirstBlocks(s, i) == SubSeq(s, 1, EndOf(Len(s), i))

\* The lesser of two numbers.
LEMMA MinIs ==
  ASSUME NEW a \in Nat, NEW b \in Nat
  PROVE  Min({a, b}) = IF a <= b THEN a ELSE b
<1>1. \E x \in {a, b} : \A y \in {a, b} : x =< y
  OBVIOUS
<1>2. Min({a, b}) \in {a, b} /\ \A y \in {a, b} : Min({a, b}) =< y
  BY <1>1 DEF Min
<1> QED BY <1>2

\* A multiple of the block size grows with the factor.
LEMMA TimesGrows ==
  ASSUME NEW a \in Nat, NEW b \in Nat, a <= b
  PROVE  a * BlockSize \in Nat /\ b * BlockSize \in Nat /\ a * BlockSize <= b * BlockSize
         /\ (a + 1) * BlockSize = a * BlockSize + BlockSize
<1> PICK c \in Nat \ {0} : c = BlockSize
  BY DeltaAssumption
<1>1. a * c \in Nat /\ b * c \in Nat
  OBVIOUS
<1>2. (b - a) * c \in Nat
  OBVIOUS
<1>3. b * c = a * c + (b - a) * c
  OBVIOUS
<1> QED BY <1>1, <1>2, <1>3

\* How many blocks a file of n bytes has.
LEMMA BlocksIs ==
  ASSUME NEW n \in Nat
  PROVE  /\ Blocks(n) \in Nat /\ n <= Blocks(n) * BlockSize
         /\ Blocks(n) # 0 => (Blocks(n) - 1) * BlockSize < n
         /\ Blocks(n) = 0 <=> n = 0
<1> PICK c \in Nat \ {0} : c = BlockSize
  BY DeltaAssumption
<1> PICK q : q = (n + c - 1) \div c
  OBVIOUS
<1>1. q \in Int /\ c * q <= n + c - 1 /\ n + c - 1 < c * q + c
  OBVIOUS
<1>2. q \in Nat
  BY <1>1
<1>3. q * c = c * q /\ (q - 1) * c = c * q - c
  BY <1>1
<1>4. q = 0 => n = 0
  BY <1>1
<1>5. n = 0 => q = 0
  BY <1>1
<1> QED BY <1>1, <1>2, <1>3, <1>4, <1>5 DEF Blocks

\* The i-th block starts where the ones before it end, and is not empty.
LEMMA BlockAt ==
  ASSUME NEW n \in Nat, NEW i \in 1..Blocks(n)
  PROVE  /\ i \in Nat /\ EndOf(n, i - 1) = (i - 1) * BlockSize /\ EndOf(n, i) \in Nat
         /\ (i - 1) * BlockSize \in Nat /\ (i - 1) * BlockSize < EndOf(n, i) /\ EndOf(n, i) <= n
         /\ (i = Blocks(n) => EndOf(n, i) = n)
<1>1. Blocks(n) \in Nat /\ n <= Blocks(n) * BlockSize /\ (Blocks(n) - 1) * BlockSize < n
  BY BlocksIs
<1>2. i - 1 \in Nat /\ Blocks(n) - 1 \in Nat /\ i - 1 <= Blocks(n) - 1 /\ i \in Nat /\ (i - 1) + 1 = i
  BY <1>1
<1>3. (i - 1) * BlockSize \in Nat /\ (i - 1) * BlockSize <= (Blocks(n) - 1) * BlockSize
      /\ (Blocks(n) - 1) * BlockSize \in Nat /\ ((i - 1) + 1) * BlockSize = (i - 1) * BlockSize + BlockSize
  BY <1>2, TimesGrows
<1>4. PICK a, b, d \in Nat : a = (i - 1) * BlockSize /\ b = i * BlockSize /\ d = BlockSize /\ d > 0
  BY <1>2, <1>3, DeltaAssumption
<1>5. a < n /\ b = a + d
  BY <1>1, <1>2, <1>3, <1>4
<1>6. EndOf(n, i - 1) = a /\ EndOf(n, i) = IF b <= n THEN b ELSE n
  BY <1>4, <1>5, MinIs DEF EndOf
<1>7. i = Blocks(n) => n <= b
  BY <1>1, <1>4
<1> QED BY <1>2, <1>4, <1>5, <1>6, <1>7

\* A file is a sequence of bytes.
LEMMA FileIs ==
  ASSUME NEW s \in Files
  PROVE  s \in Seq(Octets) /\ Len(s) \in Nat /\ s \in [1..Len(s) -> Octets]
<1>1. PICK n \in 0..MaxLength : s \in [1..n -> Octets]
  BY DEF Files
<1>2. s \in Seq(Octets)
  BY <1>1
<1> QED BY <1>2

\* chunks, block by block.
LEMMA ChunksAre ==
  ASSUME NEW s \in Files
  PROVE  /\ Chunks(s) = [i \in 1..Blocks(Len(s)) |->
                           [offset |-> (i - 1) * BlockSize, weak |-> Adler(Block(s, i)),
                            strong |-> Block(s, i), data |-> Block(s, i)]]
         /\ DOMAIN Chunks(s) = 1..Blocks(Len(s)) /\ Len(Chunks(s)) = Blocks(Len(s))
         /\ \A i \in 1..Blocks(Len(s)) :
              /\ Chunks(s)[i].offset = (i - 1) * BlockSize /\ Chunks(s)[i].strong = Block(s, i)
              /\ Chunks(s)[i].data = Block(s, i)
<1>1. Blocks(Len(s)) \in Nat
  BY BlocksIs, FileIs
<1>2. Chunks(s) = [i \in 1..Blocks(Len(s)) |->
                           [offset |-> (i - 1) * BlockSize, weak |-> Adler(Block(s, i)),
                            strong |-> Block(s, i), data |-> Block(s, i)]]
  BY DEF Chunks, Blocks, Block, EndOf
<1> QED BY <1>1, <1>2

\* A block continues the blocks in front of it.
LEMMA BlockIs ==
  ASSUME NEW s \in Files, NEW i \in 1..Blocks(Len(s))
  PROVE  /\ Block(s, i) \in Seq(Octets)
         /\ Len(Block(s, i)) = EndOf(Len(s), i) - (i - 1) * BlockSize
         /\ Block(s, i) # <<>>
         /\ FirstBlocks(s, i - 1) \o Block(s, i) = FirstBlocks(s, i)
<1>1. s \in Seq(Octets) /\ Len(s) \in Nat /\ s \in [1..Len(s) -> Octets]
  BY FileIs
<1>2. PICK a, b, n \in Nat : /\ a = (i - 1) * BlockSize /\ b = EndOf(Len(s), i) /\ n = Len(s)
                              /\ a < b /\ b <= n /\ EndOf(Len(s), i - 1) = a
  BY <1>1, BlockAt
<1>3. Block(s, i) = SubSeq(s, a + 1, b) /\ FirstBlocks(s, i) = SubSeq(s, 1, b) /\ FirstBlocks(s, i - 1) = SubSeq(s, 1, a)
  BY <1>2 DEF Block, FirstBlocks
<1>4. \A j \in (a + 1)..b : s[j] \in Octets
  BY <1>1, <1>2
<1>5. SubSeq(s, a + 1, b) \in Seq(Octets) /\ Len(SubSeq(s, a + 1, b)) = b - a
  BY <1>2, <1>4, SubSeqProperties
<1>6. SubSeq(s, 1, a) \o SubSeq(s, a + 1, b) = SubSeq(s, 1, b)
  <2>1. 1 \in 1..Len(s)+1 /\ a \in 1-1..Len(s) /\ b \in a..Len(s)
    BY <1>2
  <2> QED BY <1>1, <2>1, ConcatAdjacentSubSeq
<1>7. SubSeq(s, a + 1, b) # <<>>
  <2>1. Len(SubSeq(s, a + 1, b)) # 0
    BY <1>2, <1>5
  <2>2. Len(<<>>) = 0
    OBVIOUS
  <2> QED BY <2>1, <2>2
<1> QED BY <1>2, <1>3, <1>5, <1>6, <1>7

\* No blocks are nothing, all blocks are the file.
LEMMA FirstBlocksEnd ==
  ASSUME NEW s \in Files
  PROVE  FirstBlocks(s, 0) = <<>> /\ FirstBlocks(s, Blocks(Len(s))) = s
<1>1. s \in Seq(Octets) /\ Len(s) \in Nat
  BY FileIs
<1>2. EndOf(Len(s), 0) = 0
  <2>1. 0 * BlockSize = 0
    BY DeltaAssumption
  <2> QED BY <1>1, <2>1, MinIs DEF EndOf
<1>3. EndOf(Len(s), Blocks(Len(s))) = Len(s)
  <2>1. CASE Blocks(Len(s)) = 0
    BY <1>1, <1>2, <2>1, BlocksIs
  <2>2. CASE Blocks(Len(s)) # 0
    <3>1. Blocks(Len(s)) \in 1..Blocks(Len(s))
      BY <1>1, <2>2, BlocksIs
    <3> QED BY <1>1, <3>1, BlockAt
  <2> QED BY <2>1, <2>2
<1>4. SubSeq(s, 1, 0) = <<>>
  BY SubSeqEmpty
<1> QED BY <1>1, <1>2, <1>3, <1>4, SubSeqFull DEF FirstBlocks

\* A set of natural numbers that is not empty has a least element: induction
\* without an operator as a parameter.
LEMMA LeastNat ==
  ASSUME NEW T, T \subseteq Nat, T # {}
  PROVE  \E n \in T : \A m \in T : n <= m
<1> DEFINE R == {ss \in Nat \X Nat : ss[1] < ss[2]}
<1>1. OpToRel(<, Nat) = R
  BY Zenon DEF OpToRel
<1>2. IsWellFoundedOn(R, Nat)
  BY <1>1, NatLessThanWellFounded, Zenon
<1> HIDE DEF R
<1>3. \E n \in T : \A m \in T : ~(<<m, n>> \in R)
  BY <1>2, WFMin, Zenon
<1>4. \A m, n \in T : ~(<<m, n>> \in R) => n <= m
  BY DEF R
<1> QED
  BY <1>3, <1>4, Zenon

\* A bounded set of natural numbers that is not empty has a greatest element.
LEMMA MaxIs ==
  ASSUME NEW T, T # {}, NEW b \in Nat, T \subseteq 0..b
  PROVE  Max(T) \in T
<1> DEFINE U == {b - x : x \in T}
<1>1. U \subseteq Nat /\ U # {}
  <2>1. \A x \in T : b - x \in Nat
    OBVIOUS
  <2> QED BY <2>1
<1>2. PICK u \in U : \A m \in U : u <= m
  BY <1>1, LeastNat
<1>3. PICK x \in T : u = b - x
  BY <1>2
<1>4. \A y \in T : x >= y
  BY <1>2, <1>3
<1> QED BY <1>4 DEF Max

\* A plan names a block of the base only if it is the client's, and its offset and length
\* are those of the block; every other entry carries the block.
LEMMA EntryIs ==
  ASSUME NEW base \in Files, NEW s \in Files, NEW i \in 1..Blocks(Len(s)), NEW e,
         e = PlanEntry(base, Chunks(s)[i])
  PROVE  \/ /\ e.hit = TRUE /\ e.offset + e.len \in 0..Len(base)
            /\ SubSeq(base, e.offset + 1, e.offset + e.len) = Block(s, i)
         \/ e.hit = FALSE /\ e.data = Block(s, i) /\ e.data # <<>>
<1>1. Chunks(s)[i].data = Block(s, i) /\ Chunks(s)[i].strong = Block(s, i)
  BY ChunksAre
<1>2. CASE Located(base, Chunks(s)[i]) = {}
  <2>1. e = [hit |-> FALSE, offset |-> 0, len |-> 0, data |-> Block(s, i)]
    BY <1>1, <1>2 DEF PlanEntry
  <2> QED BY <2>1, BlockIs
<1>3. CASE Located(base, Chunks(s)[i]) # {}
  <2>1. Len(base) \in Nat /\ Blocks(Len(base)) \in Nat
    BY FileIs, BlocksIs
  <2>2. \A o \in Located(base, Chunks(s)[i]) : \E j \in 1..Blocks(Len(base)) :
          o = (j - 1) * BlockSize /\ Block(base, j) = Block(s, i)
    BY <1>1, ChunksAre DEF Located, Range
  <2>3. Located(base, Chunks(s)[i]) \subseteq 0..Len(base)
    <3>1. ASSUME NEW j \in 1..Blocks(Len(base)) PROVE (j - 1) * BlockSize \in 0..Len(base)
      <4>1. /\ (j - 1) * BlockSize \in Nat /\ EndOf(Len(base), j) \in Nat
            /\ (j - 1) * BlockSize < EndOf(Len(base), j) /\ EndOf(Len(base), j) <= Len(base)
        BY <2>1, BlockAt
      <4> QED BY <2>1, <4>1
    <3> QED BY <2>2, <3>1
  <2>4. PICK o : o = Max(Located(base, Chunks(s)[i]))
    OBVIOUS
  <2>5. o \in Located(base, Chunks(s)[i])
    BY <1>3, <2>1, <2>3, <2>4, MaxIs
  <2>6. PICK j \in 1..Blocks(Len(base)) : o = (j - 1) * BlockSize /\ Block(base, j) = Block(s, i)
    BY <2>2, <2>5
  <2>7. HitLength(base, o) = Len(Block(base, j))
    <3>1. Chunks(base)[j] \in Range(Chunks(base)) /\ Chunks(base)[j].offset = o
      BY <2>6, ChunksAre DEF Range
    <3>2. PICK c : c = CHOOSE d \in Range(Chunks(base)) : d.offset = o
      OBVIOUS
    <3>3. c \in Range(Chunks(base)) /\ c.offset = o
      BY <3>1, <3>2
    <3>4. PICK k \in 1..Blocks(Len(base)) : c = Chunks(base)[k]
      BY <3>3, ChunksAre DEF Range
    <3>5. (k - 1) * BlockSize = (j - 1) * BlockSize
      BY <2>6, <3>3, <3>4, ChunksAre
    <3>6. k = j
      <4>1. PICK x, y, d \in Nat : x = k - 1 /\ y = j - 1 /\ d = BlockSize /\ d > 0
        BY <2>1, DeltaAssumption
      <4>2. x * d = y * d
        BY <3>5, <4>1
      <4>3. x = y
        BY <4>1, <4>2
      <4> QED BY <2>1, <4>1, <4>3
    <3>7. HitLength(base, o) = Len(c.data)
      BY <3>2 DEF HitLength
    <3>8. c.data = Block(base, j)
      BY <3>4, <3>6, ChunksAre
    <3> QED BY <3>7, <3>8
  <2>8. e = [hit |-> TRUE, offset |-> o, len |-> HitLength(base, o), data |-> <<>>]
    BY <1>3, <2>4 DEF PlanEntry
  <2>9. PICK a, b \in Nat : a = (j - 1) * BlockSize /\ b = EndOf(Len(base), j) /\ a < b /\ b <= Len(base)
    BY <2>1, BlockAt
  <2>10. Len(Block(base, j)) = b - a /\ Block(base, j) = SubSeq(base, a + 1, b)
    BY <2>9, BlockIs DEF Block
  <2>11. e.hit = TRUE /\ e.offset = a /\ e.len = b - a
    BY <2>6, <2>7, <2>8, <2>9, <2>10
  <2>12. a + (b - a) = b
    BY <2>9
  <2>13. e.offset + e.len = b /\ e.offset + 1 = a + 1 /\ b \in 0..Len(base)
    BY <2>1, <2>9, <2>11, <2>12
  <2> QED BY <2>6, <2>10, <2>11, <2>13
<1> QED BY <1>2, <1>3

-----------------------------------------------------------------------------
DeltaInv ==
  /\ baseD \in Files /\ clientD \in Files
  /\ Len(planD) \in Nat /\ Len(planD) <= Blocks(Len(clientD))
  /\ planD \in Seq({PlanEntry(baseD, Chunks(clientD)[i]) : i \in 1..Blocks(Len(clientD))})
  /\ \A i \in 1..Len(planD) : planD[i] = PlanEntry(baseD, Chunks(clientD)[i])
  /\ outD = [bytes |-> FirstBlocks(clientD, outD.applied), applied |-> outD.applied, err |-> FALSE]
  /\ outD.applied \in 0..Len(planD)

\* A transfer starts with no plan and no output.
LEMMA DeltaStarts == DeltaInit => DeltaInv
<1> SUFFICES ASSUME DeltaInit PROVE DeltaInv
  OBVIOUS
<1>1. baseD \in Files /\ clientD \in Files /\ planD = <<>>
      /\ outD = [bytes |-> <<>>, applied |-> 0, err |-> FALSE]
  BY DEF DeltaInit
<1>2. Blocks(Len(clientD)) \in Nat /\ FirstBlocks(clientD, 0) = <<>>
  BY <1>1, FileIs, BlocksIs, FirstBlocksEnd
<1>3. Len(planD) = 0 /\ \A S : planD \in Seq(S)
  BY <1>1
<1>4. outD.applied = 0
  BY <1>1
<1>5. Len(planD) \in Nat /\ Len(planD) <= Blocks(Len(clientD)) /\ outD.applied \in 0..Len(planD)
  BY <1>2, <1>3, <1>4
<1>6. outD = [bytes |-> FirstBlocks(clientD, outD.applied), applied |-> outD.applied, err |-> FALSE]
  BY <1>1, <1>2, <1>4
<1>7. \A i \in 1..Len(planD) : planD[i] = PlanEntry(baseD, Chunks(clientD)[i])
  BY <1>3
<1>8. planD \in Seq({PlanEntry(baseD, Chunks(clientD)[i]) : i \in 1..Blocks(Len(clientD))})
  BY <1>3, Zenon
<1> QED BY <1>1, <1>5, <1>6, <1>7, <1>8, Zenon DEF DeltaInv

\* Every step of a transfer keeps its invariant.
LEMMA DeltaKeeps ==
  ASSUME DeltaInv, [DeltaNext]_deltaVars
  PROVE  DeltaInv'
<1>1. CASE RollStep \/ UNCHANGED deltaVars
  <2>1. UNCHANGED <<baseD, clientD, planD, outD>>
    BY <1>1 DEF RollStep, deltaVars
  <2> QED BY <2>1 DEF DeltaInv
<1>2. CASE PlanStep
  <2>1. PICK n, e, E, c : n = Len(planD) /\ e = PlanEntry(baseD, Chunks(clientD)[n + 1]) /\ c = Blocks(Len(clientD))
                       /\ E = {PlanEntry(baseD, Chunks(clientD)[i]) : i \in 1..c}
    OBVIOUS
  <2>2. planD' = Append(planD, e) /\ n < c /\ UNCHANGED <<baseD, clientD, outD>>
    BY <1>2, <2>1, ChunksAre DEF PlanStep, DeltaInv
  <2>3. n \in Nat /\ c \in Nat /\ planD \in Seq(E) /\ n + 1 \in 1..c
    <3>1. c \in Nat
      BY <2>1, BlocksIs, FileIs DEF DeltaInv
    <3> QED BY <2>1, <2>2, <3>1 DEF DeltaInv
  <2>4. e \in E
    BY <2>1, <2>3
  <2>5. planD' \in Seq(E) /\ Len(planD') = n + 1 /\ planD'[n + 1] = e /\ \A i \in 1..n : planD'[i] = planD[i]
    BY <2>1, <2>2, <2>3, <2>4, AppendProperties
  <2>6. \A i \in 1..(n + 1) : planD'[i] = PlanEntry(baseD, Chunks(clientD)[i])
    <3>1. \A i \in 1..(n + 1) : i = n + 1 \/ i \in 1..n
      BY <2>3
    <3> QED BY <2>1, <2>5, <3>1 DEF DeltaInv
  <2> QED BY <2>1, <2>2, <2>3, <2>5, <2>6 DEF DeltaInv
<1>3. CASE ApplyStep
  <2>1. PICK a, n, e : a = outD.applied /\ n = Len(planD) /\ e = planD[a + 1]
    OBVIOUS
  <2>2. /\ outD' = ApplyEntry(baseD, outD, e) /\ n = Blocks(Len(clientD)) /\ a < n
        /\ UNCHANGED <<baseD, clientD, planD>>
    BY <1>3, <2>1, ChunksAre DEF ApplyStep, DeltaInv
  <2>3. n \in Nat /\ a \in 0..n /\ a + 1 \in 1..n /\ (a + 1) - 1 = a
    BY <2>1, <2>2 DEF DeltaInv
  <2>4. e = PlanEntry(baseD, Chunks(clientD)[a + 1])
    BY <2>1, <2>3 DEF DeltaInv
  <2>5. \/ /\ e.hit = TRUE /\ e.offset + e.len \in 0..Len(baseD)
           /\ SubSeq(baseD, e.offset + 1, e.offset + e.len) = Block(clientD, a + 1)
        \/ e.hit = FALSE /\ e.data = Block(clientD, a + 1) /\ e.data # <<>>
    <3>1. baseD \in Files /\ clientD \in Files /\ a + 1 \in 1..Blocks(Len(clientD))
      BY <2>2, <2>3 DEF DeltaInv
    <3>2. PICK i \in 1..Blocks(Len(clientD)) : i = a + 1
      BY <3>1
    <3>3. e = PlanEntry(baseD, Chunks(clientD)[i])
      BY <2>4, <3>2
    <3>4. \/ /\ e.hit = TRUE /\ e.offset + e.len \in 0..Len(baseD)
             /\ SubSeq(baseD, e.offset + 1, e.offset + e.len) = Block(clientD, i)
          \/ e.hit = FALSE /\ e.data = Block(clientD, i) /\ e.data # <<>>
      <4>1. PICK base, t : base = baseD /\ t = clientD
        OBVIOUS
      <4>2. base \in Files /\ t \in Files /\ i \in 1..Blocks(Len(t)) /\ e = PlanEntry(base, Chunks(t)[i])
        BY <3>1, <3>3, <4>1
      <4>3. \/ /\ e.hit = TRUE /\ e.offset + e.len \in 0..Len(base)
               /\ SubSeq(base, e.offset + 1, e.offset + e.len) = Block(t, i)
            \/ e.hit = FALSE /\ e.data = Block(t, i) /\ e.data # <<>>
        BY <4>2, EntryIs, ZenonT(30)
      <4> QED BY <4>1, <4>3
    <3> QED BY <3>2, <3>4
  <2>6. FirstBlocks(clientD, a) \o Block(clientD, a + 1) = FirstBlocks(clientD, a + 1)
    BY <2>2, <2>3, BlockIs DEF DeltaInv
  <2>7. outD.bytes = FirstBlocks(clientD, a) /\ outD.applied = a
    BY <2>1 DEF DeltaInv
  <2>8. outD' = [bytes |-> outD.bytes \o Block(clientD, a + 1), applied |-> a + 1, err |-> FALSE]
    <3>1. CASE e.hit = TRUE
      <4>1. Len(baseD) \in Nat
        BY FileIs DEF DeltaInv
      <4>2. PICK x \in 0..Len(baseD) : x = e.offset + e.len
        BY <2>5, <3>1
      <4>3. ~(x > Len(baseD))
        BY <4>1, <4>2
      <4>4. SubSeq(baseD, e.offset + 1, x) = Block(clientD, a + 1)
        BY <2>5, <3>1, <4>2
      <4>5. ApplyEntry(baseD, outD, e) =
              [bytes |-> outD.bytes \o SubSeq(baseD, e.offset + 1, x), applied |-> outD.applied + 1,
               err |-> FALSE]
        BY <3>1, <4>2, <4>3 DEF ApplyEntry
      <4> QED BY <2>1, <2>2, <4>4, <4>5
    <3>2. CASE e.hit = FALSE
      <4>1. e.data = Block(clientD, a + 1) /\ e.data # <<>>
        BY <2>5, <3>2
      <4>2. ApplyEntry(baseD, outD, e) =
              [bytes |-> outD.bytes \o e.data, applied |-> outD.applied + 1, err |-> FALSE]
        BY <3>2, <4>1 DEF ApplyEntry
      <4> QED BY <2>1, <2>2, <4>1, <4>2
    <3> QED BY <2>5, <3>1, <3>2
  <2>9. outD' = [bytes |-> FirstBlocks(clientD', a + 1), applied |-> a + 1, err |-> FALSE]
    BY <2>2, <2>6, <2>7, <2>8
  <2>10. outD'.applied = a + 1
    BY <2>9
  <2>11. outD' = [bytes |-> FirstBlocks(clientD', outD'.applied), applied |-> outD'.applied, err |-> FALSE]
    BY <2>9, <2>10
  <2>12. outD'.applied \in 0..Len(planD')
    <3>1. Len(planD') = n
      BY <2>1, <2>2
    <3>2. a + 1 \in 0..n
      BY <2>3
    <3> QED BY <2>10, <3>1, <3>2
  <2>13. /\ baseD' \in Files /\ clientD' \in Files
         /\ Len(planD') \in Nat /\ Len(planD') <= Blocks(Len(clientD'))
         /\ planD' \in Seq({PlanEntry(baseD', Chunks(clientD')[i]) : i \in 1..Blocks(Len(clientD'))})
         /\ \A i \in 1..Len(planD') : planD'[i] = PlanEntry(baseD', Chunks(clientD')[i])
    BY <2>2 DEF DeltaInv
  <2> QED BY <2>11, <2>12, <2>13, Zenon DEF DeltaInv
<1> QED BY <1>1, <1>2, <1>3 DEF DeltaNext

-----------------------------------------------------------------------------

\* The first blocks of a file, end to end, are its front.  The function that puts them
\* together exists, for the fronts are one, and there is no other.
LEMMA FlattenIs ==
  ASSUME NEW s \in Files, NEW a \in 0..Blocks(Len(s))
  PROVE  FlattenSeq([i \in 1..a |-> Block(s, i)]) = FirstBlocks(s, a)
<1>1. Blocks(Len(s)) \in Nat /\ a \in Nat
  BY FileIs, BlocksIs
<1>2. PICK q : q = [i \in 1..a |-> Block(s, i)]
  OBVIOUS
<1>3. Len(q) = a /\ \A i \in 1..a : q[i] = Block(s, i)
  BY <1>1, <1>2
<1>4. CASE a = 0
  <2>1. q = <<>>
    BY <1>2, <1>4
  <2>2. FlattenSeq(q) = <<>>
    BY <1>3, <1>4, <2>1 DEF FlattenSeq
  <2> QED BY <1>2, <1>4, <2>2, FirstBlocksEnd
<1>5. CASE a # 0
  <2> DEFINE Flattens(f) == f = [i \in 1..Len(q) |-> IF i = 1 THEN q[i] ELSE f[i-1] \o q[i]]
  <2>1. PICK g : g = [i \in 1..a |-> FirstBlocks(s, i)]
    OBVIOUS
  <2>2. Flattens(g)
    <3>1. ASSUME NEW i \in 1..a PROVE g[i] = IF i = 1 THEN q[i] ELSE g[i-1] \o q[i]
      <4>1. i \in 1..Blocks(Len(s)) /\ i \in Nat
        BY <1>1
      <4>2. FirstBlocks(s, i - 1) \o Block(s, i) = FirstBlocks(s, i)
        BY <4>1, BlockIs
      <4>3. CASE i = 1
        <5>1. FirstBlocks(s, 0) = <<>> /\ Block(s, 1) \in Seq(Octets)
          BY <4>1, <4>3, BlockIs, FirstBlocksEnd
        <5>2. <<>> \o Block(s, 1) = Block(s, 1)
          BY <5>1, ConcatEmptySeq
        <5>3. i - 1 = 0
          BY <4>3
        <5>4. FirstBlocks(s, 1) = Block(s, 1)
          BY <4>2, <4>3, <5>1, <5>2, <5>3
        <5>5. g[1] = FirstBlocks(s, 1) /\ q[1] = Block(s, 1)
          BY <1>3, <2>1, <4>3
        <5> QED BY <4>3, <5>4, <5>5
      <4>4. CASE i # 1
        <5>1. i - 1 \in 1..a
          BY <1>1, <4>1, <4>4
        <5> QED BY <1>3, <2>1, <4>2, <4>4, <5>1
      <4> QED BY <4>3, <4>4
    <3> QED BY <1>3, <2>1, <3>1
  <2>3. PICK f : f = CHOOSE h : Flattens(h)
    OBVIOUS
  <2>4. Flattens(f)
    BY <2>2, <2>3
  <2>5. \A i \in 1..a : f[i] = g[i]
    <3>1. SUFFICES ASSUME \E i \in 1..a : f[i] # g[i] PROVE FALSE
      OBVIOUS
    <3>2. PICK k \in {i \in 1..a : f[i] # g[i]} : \A m \in {i \in 1..a : f[i] # g[i]} : k <= m
      <4>1. {i \in 1..a : f[i] # g[i]} \subseteq Nat /\ {i \in 1..a : f[i] # g[i]} # {}
        BY <1>1, <3>1
      <4> HIDE DEF Flattens
      <4> QED BY <4>1, LeastNat
    <3>3. /\ f[k] = IF k = 1 THEN q[k] ELSE f[k-1] \o q[k]
          /\ g[k] = IF k = 1 THEN q[k] ELSE g[k-1] \o q[k]
      BY <1>3, <2>2, <2>4, <3>2
    <3>4. k # 1 => f[k-1] = g[k-1]
      BY <1>1, <3>2
    <3> QED BY <3>2, <3>3, <3>4
  <2>6. FlattenSeq(q) = f[a]
    BY <1>3, <1>5, <2>3 DEF FlattenSeq
  <2>7. a \in 1..a
    BY <1>1, <1>5
  <2> QED BY <1>2, <2>1, <2>5, <2>6, <2>7
<1> QED BY <1>4, <1>5

\* The one message of an empty file carries nothing.
LEMMA FlattenOne == FlattenSeq([i \in 1..1 |-> <<>>]) = <<>>
<1> PICK q : q = [i \in 1..1 |-> <<>>]
  OBVIOUS
<1> DEFINE Flattens(f) == f = [i \in 1..Len(q) |-> IF i = 1 THEN q[i] ELSE f[i-1] \o q[i]]
<1>1. Len(q) = 1 /\ q[1] = <<>>
  OBVIOUS
<1>2. Flattens(q)
  <2>1. \A i \in 1..1 : i = 1
    OBVIOUS
  <2> QED BY <1>1, <2>1
<1>3. PICK f : f = CHOOSE h : Flattens(h)
  OBVIOUS
<1>4. Flattens(f)
  BY <1>2, <1>3
<1>5. f[1] = <<>>
  BY <1>1, <1>4
<1>6. FlattenSeq(q) = f[1]
  BY <1>1, <1>3 DEF FlattenSeq
<1> QED BY <1>5, <1>6

\* The invariant gives the round trip, and the stream carries the file.
LEMMA DeltaMeans ==
  ASSUME DeltaInv
  PROVE  DeltaRoundTrip /\ StreamCarriesFile
<1>1. PICK s, c, a : s = clientD /\ c = Blocks(Len(s)) /\ a = outD.applied
  OBVIOUS
<1>2. s \in Files /\ c \in Nat /\ a \in 0..c /\ outD.bytes = FirstBlocks(s, a) /\ outD.err = FALSE
  <2>1. s \in Files /\ outD.bytes = FirstBlocks(s, a) /\ outD.err = FALSE
    BY <1>1 DEF DeltaInv
  <2>2. c \in Nat
    BY <1>1, <2>1, FileIs, BlocksIs
  <2> QED BY <1>1, <2>1, <2>2 DEF DeltaInv
<1>3. DOMAIN Chunks(s) = 1..c /\ Len(Chunks(s)) = c /\ \A i \in 1..c : Chunks(s)[i].data = Block(s, i)
  BY <1>1, <1>2, ChunksAre
<1>4. FlattenSeq([i \in 1..a |-> Chunks(s)[i].data]) = FirstBlocks(s, a)
  <2>1. [i \in 1..a |-> Chunks(s)[i].data] = [i \in 1..a |-> Block(s, i)]
    BY <1>2, <1>3
  <2> QED BY <1>1, <1>2, <2>1, FlattenIs
<1>5. FirstBlocks(s, c) = s
  BY <1>1, <1>2, FirstBlocksEnd
<1>6. DeltaRoundTrip
  BY <1>1, <1>2, <1>3, <1>4, <1>5 DEF DeltaRoundTrip
<1>7. PICK msgs : msgs = UploadMessages(s)
  OBVIOUS
<1>8. CASE c = 0
  <2>1. Chunks(s) = <<>>
    BY <1>3, <1>8
  <2>2. msgs = <<[named |-> TRUE, data |-> <<>>]>>
    BY <1>7, <2>1 DEF UploadMessages
  <2>3. DOMAIN msgs = {1} /\ msgs[1].named = TRUE /\ msgs[1].data = <<>>
    BY <2>2
  <2>4. s = <<>>
    BY <1>2, <1>5, <1>8, FirstBlocksEnd
  <2>5. [i \in DOMAIN msgs |-> msgs[i].data] = [i \in 1..1 |-> <<>>]
    BY <2>3
  <2>6. Reassembled(msgs) = s
    BY <2>4, <2>5, FlattenOne DEF Reassembled
  <2>7. {i \in DOMAIN msgs : msgs[i].named} = {1}
    BY <2>3, Zenon
  <2> QED BY <1>1, <1>6, <1>7, <2>6, <2>7 DEF StreamCarriesFile
<1>9. CASE c # 0
  <2>1. Chunks(s) # <<>>
    BY <1>2, <1>3, <1>9
  <2>2. msgs = [i \in 1..c |-> [named |-> i = 1, data |-> Chunks(s)[i].data]]
    BY <1>3, <1>7, <2>1 DEF UploadMessages
  <2>3. [i \in DOMAIN msgs |-> msgs[i].data] = [i \in 1..c |-> Block(s, i)]
    BY <1>3, <2>2
  <2>4. Reassembled(msgs) = s
    BY <1>1, <1>2, <1>5, <2>3, FlattenIs DEF Reassembled
  <2>5. {i \in DOMAIN msgs : msgs[i].named} = {1}
    <3>1. DOMAIN msgs = 1..c /\ \A i \in 1..c : msgs[i].named <=> i = 1
      BY <2>2, Zenon
    <3>2. 1 \in 1..c
      BY <1>2, <1>9
    <3>3. \A i : i \in {j \in DOMAIN msgs : msgs[j].named} <=> i = 1
      BY <3>1, <3>2, Zenon
    <3>4. PICK T : T = {j \in DOMAIN msgs : msgs[j].named}
      OBVIOUS
    <3>5. T = {1}
      BY <3>3, <3>4
    <3> QED BY <3>4, <3>5
  <2> QED BY <1>1, <1>6, <1>7, <2>4, <2>5 DEF StreamCarriesFile
<1> QED BY <1>8, <1>9

-----------------------------------------------------------------------------
\* One byte more in the checksum, and what the fold computes on the way.
AdlerStep(sum, b) ==
  <<(sum[1] + b) % Modulus, (sum[2] + ((sum[1] + b) % Modulus)) % Modulus>>
FoldsTo(s, k, f) ==
  f = [t \in SUBSET (1..k) |->
         IF t = {} THEN <<0, 0>> ELSE AdlerStep(f[t \ {Max(t)}], s[Max(t)])]

\* The greatest index is the last one, if it is there.
LEMMA MaxTop ==
  ASSUME NEW k \in Nat, NEW t \in SUBSET (1..k), t # {}
  PROVE  Max(t) \in t /\ (k \in t => Max(t) = k)
<1>1. t \subseteq 0..k
  OBVIOUS
<1>2. Max(t) \in t
  BY <1>1, MaxIs
<1>3. ASSUME k \in t PROVE Max(t) = k
  <2>1. \A y \in t : k >= y
    OBVIOUS
  <2>2. PICK x : x = CHOOSE z \in t : \A y \in t : z >= y
    OBVIOUS
  <2>3. x \in t /\ \A y \in t : x >= y
    BY <1>3, <2>1, <2>2
  <2>4. x = k
    BY <1>3, <2>1, <2>3
  <2> QED BY <2>2, <2>4 DEF Max
<1> QED BY <1>2, <1>3

\* The function the fold asks for exists: it is extended index by index.
LEMMA FoldExists ==
  ASSUME NEW s, NEW n \in Nat
  PROVE  \E f : FoldsTo(s, n, f)
<1> DEFINE K == {k \in Nat : ~\E f : FoldsTo(s, k, f)}
<1>1. SUFFICES ASSUME K # {} PROVE FALSE
  OBVIOUS
<1>2. PICK k \in K : \A m \in K : k <= m
  <2>1. K \subseteq Nat /\ K # {}
    BY <1>1
  <2> HIDE DEF K
  <2> QED BY <2>1, LeastNat
<1>3. k \in Nat /\ ~\E f : FoldsTo(s, k, f)
  BY <1>2
<1>4. CASE k = 0
  <2>1. PICK f : f = [t \in SUBSET (1..k) |-> <<0, 0>>]
    OBVIOUS
  <2>2. \A t \in SUBSET (1..k) : t = {}
    BY <1>4
  <2>3. FoldsTo(s, k, f)
    BY <2>1, <2>2 DEF FoldsTo
  <2> QED BY <1>3, <2>3
<1>5. CASE k # 0
  <2>1. k - 1 \in Nat /\ k - 1 \notin K
    BY <1>2, <1>3, <1>5
  <2>2. PICK e : FoldsTo(s, k - 1, e)
    BY <2>1
  <2>3. \A t \in SUBSET (1..(k - 1)) :
          e[t] = IF t = {} THEN <<0, 0>> ELSE AdlerStep(e[t \ {Max(t)}], s[Max(t)])
    BY <2>2 DEF FoldsTo
  <2>4. PICK f : f = [t \in SUBSET (1..k) |-> IF k \in t THEN AdlerStep(e[t \ {k}], s[k]) ELSE e[t]]
    OBVIOUS
  <2>5. \A t \in SUBSET (1..k) : k \notin t => t \in SUBSET (1..(k - 1)) /\ f[t] = e[t]
    BY <1>3, <2>4
  <2>6. ASSUME NEW t \in SUBSET (1..k)
        PROVE  f[t] = IF t = {} THEN <<0, 0>> ELSE AdlerStep(f[t \ {Max(t)}], s[Max(t)])
    <3>1. CASE k \in t
      <4>1. t # {} /\ Max(t) = k
        BY <1>3, <3>1, MaxTop
      <4>2. t \ {k} \in SUBSET (1..k) /\ k \notin t \ {k}
        OBVIOUS
      <4>3. f[t \ {k}] = e[t \ {k}]
        BY <2>5, <4>2
      <4> QED BY <2>4, <3>1, <4>1, <4>3
    <3>2. CASE k \notin t
      <4>1. t \in SUBSET (1..(k - 1)) /\ f[t] = e[t]
        BY <2>5, <3>2
      <4>2. t \ {Max(t)} \in SUBSET (1..k) /\ k \notin t \ {Max(t)}
        BY <3>2
      <4>3. f[t \ {Max(t)}] = e[t \ {Max(t)}]
        BY <2>5, <4>2
      <4> QED BY <2>3, <4>1, <4>3
    <3> QED BY <3>1, <3>2
  <2>7. FoldsTo(s, k, f)
    BY <2>4, <2>6 DEF FoldsTo
  <2> QED BY <1>3, <2>7
<1> QED BY <1>4, <1>5

\* The checksum is reached byte by byte.
LEMMA AdlerIs ==
  ASSUME NEW S, NEW s \in Seq(S)
  PROVE  \E g : /\ g[0] = <<0, 0>> /\ g[Len(s)] = Adler(s)
                /\ \A j \in 1..Len(s) : g[j] = AdlerStep(g[j - 1], s[j])
<1>1. PICK n \in Nat : n = Len(s) /\ DOMAIN s = 1..n
  OBVIOUS
<1>2. PICK f : f = CHOOSE h : FoldsTo(s, n, h)
  OBVIOUS
<1>3. FoldsTo(s, n, f)
  BY <1>2, FoldExists
<1>4. Adler(s) = f[1..n]
  BY <1>1, <1>2 DEF Adler, FoldLeft, MapThenFoldSet, FoldsTo, AdlerStep
<1>5. PICK g : g = [j \in 0..n |-> f[1..j]]
  OBVIOUS
<1>6. g[0] = <<0, 0>>
  <2>1. 1..0 = {}
    OBVIOUS
  <2>2. {} \in SUBSET (1..n)
    OBVIOUS
  <2>3. f[{}] = <<0, 0>>
    BY <1>3, <2>2 DEF FoldsTo
  <2>4. g[0] = f[1..0]
    BY <1>5
  <2> QED BY <2>1, <2>3, <2>4
<1>7. ASSUME NEW j \in 1..n PROVE g[j] = AdlerStep(g[j - 1], s[j])
  <2>1. (1..j) \in SUBSET (1..n) /\ (1..j) \in SUBSET (1..j) /\ (1..j) # {} /\ j \in 1..j /\ j \in Nat
    <3>1. j \in Nat /\ j \in 1..j
      OBVIOUS
    <3>2. \A i \in 1..j : i \in 1..n
      OBVIOUS
    <3> QED BY <3>1, <3>2
  <2>2. Max(1..j) = j /\ (1..j) \ {j} = 1..(j - 1)
    <3>1. Max(1..j) = j
      BY <2>1, MaxTop
    <3> QED BY <3>1
  <2>3. f[1..j] = AdlerStep(f[(1..j) \ {Max(1..j)}], s[Max(1..j)])
    BY <1>3, <2>1 DEF FoldsTo
  <2>4. g[j] = f[1..j] /\ g[j - 1] = f[1..(j - 1)]
    BY <1>5
  <2> QED BY <2>2, <2>3, <2>4
<1>8. g[Len(s)] = Adler(s)
  BY <1>1, <1>4, <1>5
<1> QED BY <1>1, <1>6, <1>7, <1>8

-----------------------------------------------------------------------------
\* Equal up to multiples of the modulus.
Same(a, b) == \E k \in Int : a = b + k * Modulus

\* A remainder is reduced and differs by a multiple of the modulus.
LEMMA ModIs ==
  ASSUME NEW a \in Int
  PROVE  a % Modulus \in 0..(Modulus - 1) /\ a % Modulus \in Int /\ Same(a % Modulus, a)
<1> PICK m \in Nat \ {0} : m = Modulus
  BY DeltaAssumption
<1>1. a % m \in 0..(m - 1)
  OBVIOUS
<1>2. a = m * (a \div m) + (a % m) /\ a \div m \in Int
  OBVIOUS
<1>3. PICK q, r \in Int : q = a \div m /\ r = a % m /\ a = m * q + r
  BY <1>1, <1>2
<1>4. r = a + (-q) * m /\ -q \in Int
  BY <1>3
<1> QED BY <1>1, <1>3, <1>4 DEF Same

\* Two numbers that agree with a third agree.
LEMMA SameJoin ==
  ASSUME NEW a \in Int, NEW b \in Int, NEW c \in Int, Same(a, b), Same(c, b)
  PROVE  Same(a, c)
<1> PICK m \in Nat \ {0} : m = Modulus
  BY DeltaAssumption
<1>1. PICK k \in Int : a = b + k * m
  BY DEF Same
<1>2. PICK l \in Int : c = b + l * m
  BY DEF Same
<1>3. (k - l) * m = k * m - l * m /\ k * m \in Int /\ l * m \in Int
  OBVIOUS
<1>4. PICK z \in Int : z = k - l
  OBVIOUS
<1>5. a = c + z * Modulus
  BY <1>1, <1>2, <1>3, <1>4
<1> QED BY <1>5, Zenon DEF Same

\* Two reduced numbers that agree are equal.
LEMMA SameReduced ==
  ASSUME NEW a \in 0..(Modulus - 1), NEW b \in 0..(Modulus - 1), Same(a, b)
  PROVE  a = b
<1> PICK m \in Nat \ {0} : m = Modulus
  BY DeltaAssumption
<1>1. PICK k \in Int : a = b + k * m
  BY DEF Same
<1>2. CASE k >= 1
  <2>1. k * m >= m
    BY <1>2
  <2> QED BY <1>1, <2>1
<1>3. CASE k <= -1
  <2>1. k * m <= -m
    BY <1>3
  <2> QED BY <1>1, <2>1
<1>4. CASE k = 0
  BY <1>1, <1>4
<1> QED BY <1>2, <1>3, <1>4

\* One step, up to multiples of the modulus.
Pair(p) == p = <<p[1], p[2]>> /\ p[1] \in 0..(Modulus - 1) /\ p[2] \in 0..(Modulus - 1)

\* One byte more, up to multiples of the modulus.
LEMMA StepIs ==
  ASSUME NEW p, Pair(p), NEW b \in 0..(Modulus - 1), NEW q, q = AdlerStep(p, b)
  PROVE  Pair(q) /\ Same(q[1], p[1] + b) /\ Same(q[2], p[2] + q[1])
<1>1. Modulus \in Nat /\ p[1] \in Int /\ p[2] \in Int /\ b \in Int
  BY DeltaAssumption DEF Pair
<1>2. PICK x \in Int : x = (p[1] + b) % Modulus /\ x \in 0..(Modulus - 1) /\ Same(x, p[1] + b)
  <2>1. p[1] + b \in Int
    BY <1>1
  <2> QED BY <2>1, ModIs
<1>3. PICK y \in Int : y = (p[2] + x) % Modulus /\ y \in 0..(Modulus - 1) /\ Same(y, p[2] + x)
  <2>1. p[2] + x \in Int
    BY <1>1
  <2> QED BY <2>1, ModIs
<1>4. q = <<x, y>>
  BY <1>2, <1>3 DEF AdlerStep
<1>5. q[1] = x /\ q[2] = y
  BY <1>4
<1> QED BY <1>2, <1>3, <1>4, <1>5 DEF Pair

\* The checksums on the way along two windows, the second one byte further.
Along(g, X, off, n) ==
  g[0] = <<0, 0>> /\ \A j \in 1..n : g[j] = AdlerStep(g[j - 1], X[off + j])

Shifted(g, h, X, off, j) ==
  /\ Pair(g[j]) /\ Pair(h[j])
  /\ Same(h[j][1] + X[off + 1], g[j][1] + X[off + j + 1])
  /\ Same(h[j][2] + j * X[off + 1], g[j][2] + h[j][1])

\* The two checksums stay apart by the byte that left and the byte that came.
LEMMA ShiftStep ==
  ASSUME NEW X, NEW off \in Nat, NEW n \in Nat, NEW g, NEW h, NEW j \in 1..n,
         \A i \in 1..(n + 1) : X[off + i] \in 0..(Modulus - 1),
         Along(g, X, off, n), Along(h, X, off + 1, n), Shifted(g, h, X, off, j - 1)
  PROVE  Shifted(g, h, X, off, j)
<1>1. PICK r, u, v : r = X[off + 1] /\ u = X[off + j] /\ v = X[off + j + 1]
  OBVIOUS
<1>2. r \in 0..(Modulus - 1) /\ u \in 0..(Modulus - 1) /\ v \in 0..(Modulus - 1)
  <2>1. 1 \in 1..(n + 1) /\ j \in 1..(n + 1) /\ j + 1 \in 1..(n + 1) /\ off + (j + 1) = off + j + 1
    OBVIOUS
  <2> QED BY <1>1, <2>1
<1>3. PICK p, q : p = g[j - 1] /\ q = h[j - 1]
  OBVIOUS
<1>4. g[j] = AdlerStep(p, u) /\ h[j] = AdlerStep(q, v)
  <2>1. (off + 1) + j = off + j + 1
    OBVIOUS
  <2> QED BY <1>1, <1>3, <2>1 DEF Along
<1>5. /\ Pair(p) /\ Pair(q) /\ Same(q[1] + r, p[1] + u)
      /\ Same(q[2] + (j - 1) * r, p[2] + q[1])
  <2>1. off + (j - 1) + 1 = off + j
    OBVIOUS
  <2> QED BY <1>1, <1>3, <2>1 DEF Shifted
<1>6. /\ Pair(g[j]) /\ Same(g[j][1], p[1] + u) /\ Same(g[j][2], p[2] + g[j][1])
      /\ Pair(h[j]) /\ Same(h[j][1], q[1] + v) /\ Same(h[j][2], q[2] + h[j][1])
  BY <1>2, <1>4, <1>5, StepIs
<1>7. PICK m \in Nat \ {0} : m = Modulus
  BY DeltaAssumption
<1>8. PICK p1, p2, q1, q2, g1, g2, h1, h2 \in Int :
        /\ p1 = p[1] /\ p2 = p[2] /\ q1 = q[1] /\ q2 = q[2]
        /\ g1 = g[j][1] /\ g2 = g[j][2] /\ h1 = h[j][1] /\ h2 = h[j][2]
  BY <1>5, <1>6, <1>7 DEF Pair
<1>9. r \in Int /\ u \in Int /\ v \in Int /\ (j - 1) * r \in Int /\ j * r = (j - 1) * r + r
  BY <1>2, <1>7
<1>10. PICK a \in Int : q1 + r = p1 + u + a * m
  BY <1>5, <1>7, <1>8 DEF Same
<1>11. PICK b \in Int : q2 + (j - 1) * r = p2 + q1 + b * m
  BY <1>5, <1>7, <1>8 DEF Same
<1>12. /\ \E c \in Int : g1 = p1 + u + c * m
       /\ \E d \in Int : g2 = p2 + g1 + d * m
       /\ \E e \in Int : h1 = q1 + v + e * m
       /\ \E f \in Int : h2 = q2 + h1 + f * m
  BY <1>6, <1>7, <1>8 DEF Same
<1>13. PICK c, d, e, f \in Int : /\ g1 = p1 + u + c * m /\ g2 = p2 + g1 + d * m
                                 /\ h1 = q1 + v + e * m /\ h2 = q2 + h1 + f * m
  BY <1>12, Zenon
<1> DEFINE R == (j - 1) * r  A == a * m  B == b * m  C == c * m  D == d * m  E == e * m  F == f * m
<1> R \in Int /\ A \in Int /\ B \in Int /\ C \in Int /\ D \in Int /\ E \in Int /\ F \in Int
  BY <1>7, <1>9
<1>14. h1 + r = g1 + v + (a + e - c) * m
  <2>1. (a + e - c) * m = A + E - C
    BY <1>7
  <2>2. q1 + r = p1 + u + A /\ g1 = p1 + u + C /\ h1 = q1 + v + E
    BY <1>10, <1>13
  <2> HIDE DEF A, C, E
  <2>3. h1 + r = g1 + v + (A + E - C)
    <3>1. r \in Int /\ u \in Int /\ v \in Int
      BY <1>9
    <3> QED BY <2>2, <3>1
  <2> QED BY <2>1, <2>3
<1>15. h2 + j * r = g2 + h1 + (b + f + a - c - d) * m
  <2>1. (b + f + a - c - d) * m = B + F + A - C - D
    BY <1>7
  <2>2. /\ q1 + r = p1 + u + A /\ q2 + R = p2 + q1 + B /\ g1 = p1 + u + C /\ g2 = p2 + g1 + D
        /\ h2 = q2 + h1 + F
    BY <1>10, <1>11, <1>13
  <2>4. r \in Int /\ u \in Int /\ j * r = R + r
    BY <1>9
  <2> HIDE DEF A, B, C, D, F, R
  <2>3. h2 + (R + r) = g2 + h1 + (B + F + A - C - D)
    <3>1. r \in Int /\ u \in Int
      BY <2>4
    <3> QED BY <2>2, <3>1
  <2> QED BY <2>1, <2>3, <2>4
<1> HIDE DEF R, A, B, C, D, E, F
<1>16. Same(h[j][1] + X[off + 1], g[j][1] + X[off + j + 1])
  <2>1. PICK z \in Int : z = a + e - c
    OBVIOUS
  <2>2. h[j][1] + X[off + 1] = (g[j][1] + X[off + j + 1]) + z * Modulus
    BY <1>1, <1>7, <1>8, <1>14, <2>1
  <2> QED BY <2>2, Zenon DEF Same
<1>17. Same(h[j][2] + j * X[off + 1], g[j][2] + h[j][1])
  <2>1. PICK z \in Int : z = b + f + a - c - d
    OBVIOUS
  <2>2. h[j][2] + j * X[off + 1] = (g[j][2] + h[j][1]) + z * Modulus
    BY <1>1, <1>7, <1>8, <1>15, <2>1
  <2> QED BY <2>2, Zenon DEF Same
<1> QED BY <1>6, <1>16, <1>17 DEF Shifted

\* roll gives the checksum of the window one byte further.
LEMMA RollIs ==
  ASSUME NEW X, NEW off \in Nat, NEW n \in Nat, NEW g, NEW h,
         \A i \in 1..(n + 1) : X[off + i] \in 0..(Modulus - 1),
         Along(g, X, off, n), Along(h, X, off + 1, n)
  PROVE  h[n] = Roll(g[n], n, X[off + 1], X[off + n + 1])
<1>1. PICK m \in Nat \ {0} : m = Modulus
  BY DeltaAssumption
<1>2. PICK r, v \in 0..(m - 1) : r = X[off + 1] /\ v = X[off + n + 1]
  <2>1. 1 \in 1..(n + 1) /\ n + 1 \in 1..(n + 1) /\ off + (n + 1) = off + n + 1
    OBVIOUS
  <2> QED BY <1>1, <2>1
<1>3. Shifted(g, h, X, off, 0)
  <2>1. g[0] = <<0, 0>> /\ h[0] = <<0, 0>>
    BY DEF Along
  <2>2. Pair(g[0]) /\ Pair(h[0])
    BY <1>1, <2>1 DEF Pair
  <2>3. Same(0 + r, 0 + r) /\ Same(0 + 0 * r, 0 + 0)
    <3>1. 0 + r = (0 + r) + 0 * Modulus /\ 0 + 0 * r = (0 + 0) + 0 * Modulus
      BY <1>1, <1>2
    <3>2. 0 \in Int
      OBVIOUS
    <3> QED BY <3>1, <3>2, Zenon DEF Same
  <2>4. off + 0 + 1 = off + 1
    OBVIOUS
  <2> QED BY <1>2, <2>1, <2>2, <2>3, <2>4 DEF Shifted
<1>4. \A j \in 0..n : Shifted(g, h, X, off, j)
  <2> DEFINE K == {k \in 0..n : ~Shifted(g, h, X, off, k)}
  <2>1. SUFFICES ASSUME K # {} PROVE FALSE
    OBVIOUS
  <2>2. PICK k \in K : \A i \in K : k <= i
    <3>1. K \subseteq Nat /\ K # {}
      BY <2>1
    <3> HIDE DEF K
    <3> QED BY <3>1, LeastNat
  <2>3. k \in 1..n /\ k - 1 \in 0..n /\ k - 1 \notin K
    BY <1>3, <2>2
  <2>4. Shifted(g, h, X, off, k)
    BY <2>3, ShiftStep
  <2> QED BY <2>2, <2>4
<1>5. /\ Pair(g[n]) /\ Pair(h[n]) /\ Same(h[n][1] + r, g[n][1] + v)
      /\ Same(h[n][2] + n * r, g[n][2] + h[n][1])
  BY <1>2, <1>4 DEF Shifted
<1>6. PICK g1, g2, h1, h2 \in Int :
        /\ g1 = g[n][1] /\ g2 = g[n][2] /\ h1 = h[n][1] /\ h2 = h[n][2]
        /\ h1 \in 0..(m - 1) /\ h2 \in 0..(m - 1) /\ h[n] = <<h1, h2>>
  <2>1. /\ h[n] = <<h[n][1], h[n][2]>> /\ h[n][1] \in 0..(m - 1) /\ h[n][2] \in 0..(m - 1)
        /\ g[n][1] \in 0..(m - 1) /\ g[n][2] \in 0..(m - 1)
    BY <1>1, <1>5, Zenon DEF Pair
  <2>2. \A x \in 0..(m - 1) : x \in Int
    BY <1>1
  <2> QED BY <2>1, <2>2, Zenon
<1>7. PICK a \in Int : h1 + r = g1 + v + a * m
  BY <1>1, <1>2, <1>5, <1>6 DEF Same
<1>8. PICK b \in Int : h2 + n * r = g2 + h1 + b * m
  BY <1>1, <1>2, <1>5, <1>6 DEF Same
<1>9. r \in Int /\ v \in Int /\ n * r \in Int /\ a * m \in Int /\ b * m \in Int /\ m * n \in Int
  BY <1>1, <1>2
<1>10. h1 = (g1 + v + m - r) % m
  <2>1. PICK y \in Int : y = g1 + v + m - r
    BY <1>1, <1>6, <1>9
  <2>2. y % m \in 0..(m - 1) /\ y % m \in Int /\ Same(y % m, y)
    BY <1>1, <2>1, ModIs
  <2>3. h1 = y + (a - 1) * m
    <3>1. (a - 1) * m = a * m - m
      BY <1>1
    <3> QED BY <1>1, <1>6, <1>7, <1>9, <2>1, <3>1
  <2>4. Same(h1, y)
    BY <1>1, <2>3 DEF Same
  <2>5. Same(h1, y % m)
    BY <1>6, <2>1, <2>2, <2>4, SameJoin
  <2>6. h1 = y % m
    BY <1>1, <1>6, <2>2, <2>5, SameReduced
  <2> QED BY <2>1, <2>6
<1>11. h2 = (g2 + h1 + m * n - n * r) % m
  <2>1. PICK y \in Int : y = g2 + h1 + m * n - n * r
    BY <1>6, <1>9
  <2>2. y % m \in 0..(m - 1) /\ y % m \in Int /\ Same(y % m, y)
    BY <1>1, <2>1, ModIs
  <2>3. h2 = y + (b - n) * m
    <3>1. (b - n) * m = b * m - m * n
      BY <1>1
    <3>2. PICK B, N, M \in Int : B = b * m /\ N = n * r /\ M = m * n
      BY <1>9
    <3>3. h2 + N = g2 + h1 + B /\ y = g2 + h1 + M - N
      BY <1>8, <2>1, <3>2
    <3>4. h2 = y + (B - M)
      BY <3>3
    <3> QED BY <3>1, <3>2, <3>4
  <2>4. Same(h2, y)
    BY <1>1, <2>3 DEF Same
  <2>5. Same(h2, y % m)
    BY <1>6, <2>1, <2>2, <2>4, SameJoin
  <2>6. h2 = y % m
    BY <1>1, <1>6, <2>2, <2>5, SameReduced
  <2> QED BY <2>1, <2>6
<1> QED BY <1>1, <1>2, <1>6, <1>10, <1>11 DEF Roll

-----------------------------------------------------------------------------
RollInv ==
  /\ clientD \in Files
  /\ windowD = [at |-> windowD.at, sum |-> windowD.sum] /\ windowD.at \in Nat
  /\ windowD.at = 0 \/ windowD.at + BlockSize <= Len(clientD)
  /\ RollAgrees

\* A window of a file, byte by byte.
LEMMA WindowAlong ==
  ASSUME NEW s \in Files, NEW off \in Nat, NEW n \in Nat, off + n <= Len(s)
  PROVE  \E g : g[n] = Adler(SubSeq(s, off + 1, off + n)) /\ Along(g, s, off, n)
<1>1. s \in Seq(Octets) /\ Len(s) \in Nat /\ s \in [1..Len(s) -> Octets]
  BY FileIs
<1>2. \A i \in (off + 1)..(off + n) : s[i] \in Octets
  BY <1>1
<1>3. PICK w : w = SubSeq(s, off + 1, off + n)
  OBVIOUS
<1>4. w \in Seq(Octets) /\ Len(w) = n /\ \A j \in 1..n : w[j] = s[off + j]
  <2>1. off + 1 \in Int /\ off + n \in Int
    OBVIOUS
  <2>2. /\ w \in Seq(Octets) /\ Len(w) = (IF off + 1 <= off + n THEN (off + n) - (off + 1) + 1 ELSE 0)
        /\ \A j \in 1..((off + n) - (off + 1) + 1) : w[j] = s[(off + 1) + j - 1]
    BY <1>2, <1>3, <2>1, SubSeqProperties
  <2>3. (off + n) - (off + 1) + 1 = n /\ \A j \in 1..n : (off + 1) + j - 1 = off + j
    OBVIOUS
  <2> QED BY <2>2, <2>3
<1>5. PICK g : /\ g[0] = <<0, 0>> /\ g[Len(w)] = Adler(w)
               /\ \A j \in 1..Len(w) : g[j] = AdlerStep(g[j - 1], w[j])
  BY <1>4, AdlerIs
<1>6. Along(g, s, off, n)
  BY <1>4, <1>5 DEF Along
<1>7. g[n] = Adler(SubSeq(s, off + 1, off + n))
  BY <1>3, <1>4, <1>5
<1> QED BY <1>6, <1>7

\* The first window has its own checksum.
LEMMA RollStarts == DeltaInit => RollInv
<1> SUFFICES ASSUME DeltaInit PROVE RollInv
  OBVIOUS
<1>1. clientD \in Files
      /\ windowD = [at |-> 0, sum |-> Adler(SubSeq(clientD, 1, Min({BlockSize, Len(clientD)})))]
  BY DEF DeltaInit
<1>2. windowD.at = 0 /\ windowD.sum = Adler(SubSeq(clientD, 1, Min({BlockSize, Len(clientD)})))
  BY <1>1
<1>3. 0 + 1 = 1 /\ 0 + BlockSize = BlockSize
  BY DeltaAssumption
<1>4. RollAgrees
  BY <1>2, <1>3 DEF RollAgrees
<1>5. windowD = [at |-> windowD.at, sum |-> windowD.sum] /\ windowD.at \in Nat
  BY <1>1, <1>2
<1> QED BY <1>1, <1>2, <1>4, <1>5 DEF RollInv

\* Rolling keeps the checksum that of the window.
LEMMA RollKeeps ==
  ASSUME RollInv, [DeltaNext]_deltaVars
  PROVE  RollInv'
<1>1. CASE PlanStep \/ ApplyStep \/ UNCHANGED deltaVars
  <2>1. UNCHANGED <<clientD, windowD>>
    BY <1>1 DEF PlanStep, ApplyStep, deltaVars
  <2> QED BY <2>1 DEF RollInv, RollAgrees
<1>2. CASE RollStep
  <2>1. PICK s, a, B, n : s = clientD /\ a = windowD.at /\ B = BlockSize /\ n = Len(s)
    OBVIOUS
  <2>2. s \in Files /\ a \in Nat /\ B \in Nat \ {0} /\ n \in Nat /\ a + B < n
    BY <1>2, <2>1, DeltaAssumption, FileIs DEF RollInv, RollStep
  <2>3. clientD' = s /\ windowD' = [at |-> a + 1, sum |-> Roll(windowD.sum, B, s[a + 1], s[a + B + 1])]
    BY <1>2, <2>1 DEF RollStep
  <2>4. Min({a + B, n}) = a + B /\ Min({(a + 1) + B, n}) = (a + 1) + B
    <3>1. a + B \in Nat /\ (a + 1) + B \in Nat /\ a + B <= n /\ (a + 1) + B <= n
      BY <2>2
    <3> QED BY <2>2, <3>1, MinIs
  <2>5. PICK g : g[B] = Adler(SubSeq(s, a + 1, a + B)) /\ Along(g, s, a, B)
    <3>1. a + B <= Len(s)
      BY <2>1, <2>2
    <3> QED BY <2>2, <3>1, WindowAlong
  <2>6. PICK h : h[B] = Adler(SubSeq(s, (a + 1) + 1, (a + 1) + B)) /\ Along(h, s, a + 1, B)
    <3>1. a + 1 \in Nat /\ B \in Nat /\ (a + 1) + B <= Len(s)
      BY <2>1, <2>2
    <3> QED BY <2>2, <3>1, WindowAlong
  <2>7. \A i \in 1..(B + 1) : s[a + i] \in 0..(Modulus - 1)
    <3>1. s \in [1..n -> Octets]
      BY <2>1, <2>2, FileIs
    <3>2. \A i \in 1..(B + 1) : a + i \in 1..n
      BY <2>2
    <3> QED BY <3>1, <3>2, DeltaAssumption
  <2>8. h[B] = Roll(g[B], B, s[a + 1], s[a + B + 1])
    <3>1. a \in Nat /\ B \in Nat
      BY <2>2
    <3>2. Along(g, s, a, B) /\ Along(h, s, a + 1, B)
      BY <2>5, <2>6
    <3> QED BY <2>7, <3>1, <3>2, RollIs, ZenonT(30)
  <2>9. windowD.sum = g[B]
    BY <2>1, <2>4, <2>5 DEF RollInv, RollAgrees
  <2>10. windowD'.at = a + 1 /\ windowD'.sum = h[B]
    BY <2>3, <2>8, <2>9
  <2>11. RollAgrees'
    BY <2>1, <2>3, <2>4, <2>6, <2>10 DEF RollAgrees
  <2>12. windowD' = [at |-> windowD'.at, sum |-> windowD'.sum]
    BY <2>3, <2>10
  <2>13. windowD'.at \in Nat /\ windowD'.at + BlockSize <= Len(clientD')
    BY <2>1, <2>2, <2>3, <2>10
  <2> QED BY <2>2, <2>3, <2>11, <2>12, <2>13 DEF RollInv
<1> QED BY <1>1, <1>2 DEF DeltaNext

\* TransferExact for every block size, modulus and file: a plan applied to the base never fails
\* and gives the client's file, the rolled checksum is the one of its window, and the stream of
\* an upload carries the file (build_plan_with_data, apply_plan, RollingChecksum, delta_upload).
THEOREM TransferHolds == DeltaSpec => []TransferExact
<1>1. DeltaInv /\ [DeltaNext]_deltaVars => DeltaInv'
  BY DeltaKeeps
<1>2. RollInv /\ [DeltaNext]_deltaVars => RollInv'
  BY RollKeeps
<1>3. DeltaInv /\ RollInv => TransferExact
  BY DeltaMeans DEF RollInv, TransferExact
<1> QED BY <1>1, <1>2, <1>3, DeltaStarts, RollStarts, PTL DEF DeltaSpec

-----------------------------------------------------------------------------
(* Imports, archives and sidecars *)

\* The row of a name is that of what the tree has there, if nobody touched it.
RowCurrent(n) ==
  n \notin touchedI /\ treeI[n] \in BodiesI => rowsI[n] = [size |-> treeI[n], hash |-> treeI[n]]

\* The walk: every name it passed has its row, and the name it is at was read as it is.
ImportInv ==
  /\ walkI = [at |-> walkI.at, pos |-> walkI.pos, dry |-> walkI.dry, stat |-> walkI.stat]
  /\ walkI.pos \in Nat \ {0}
  /\ treeI = [n \in NamesI |-> treeI[n]] /\ rowsI = [n \in NamesI |-> rowsI[n]]
  /\ walkI.at \in {"visit", "hash"} /\ ~walkI.dry =>
       \A n \in NamesI : n < walkI.pos => RowCurrent(n)
  /\ walkI.at = "hash" =>
       /\ walkI.pos \in NamesI
       /\ walkI.pos \notin touchedI => walkI.stat = treeI[walkI.pos]
  /\ walkI.at = "finished" /\ ~walkI.dry => \A n \in NamesI : RowCurrent(n)

\* A finished import covers the tree.
LEMMA FinishedCovers ==
  ASSUME ImportInv
  PROVE  ImportCovers
  BY DEF ImportInv, ImportCovers, RowCurrent

\* The walk goes to the next name.
LEMMA NextNameIs ==
  ASSUME ImportInv
  PROVE  /\ NextName.at = "visit" /\ NextName.pos = walkI.pos + 1 /\ NextName.dry = walkI.dry
         /\ NextName = [at |-> NextName.at, pos |-> NextName.pos, dry |-> NextName.dry, stat |-> NextName.stat]
<1>1. PICK p, d, x, t : walkI = [at |-> t, pos |-> p, dry |-> d, stat |-> x]
  BY DEF ImportInv
<1>2. walkI.pos = p /\ walkI.dry = d /\ p \in Nat
  BY <1>1 DEF ImportInv
<1>3. PICK q : q = walkI.pos + 1
  OBVIOUS
<1>4. NextName = [walkI EXCEPT !.at = "visit", !.pos = q, !.stat = NoBodyI]
  BY <1>3 DEF NextName
<1>5. NextName = [at |-> "visit", pos |-> q, dry |-> d, stat |-> NoBodyI]
  BY <1>1, <1>4
<1> QED BY <1>2, <1>3, <1>5

\* A walk that rests, or starts, has passed nothing.
LEMMA RestingKeeps ==
  ASSUME ImportInv, NEW step, NEW dry,
         walkI' = [at |-> step, pos |-> 1, dry |-> dry, stat |-> NoBodyI],
         UNCHANGED <<treeI, rowsI>>, step \in {"visit", "failed"}
  PROVE  ImportInv'
<1>1. /\ walkI'.at = step /\ walkI'.pos = 1 /\ walkI'.dry = dry
      /\ walkI' = [at |-> walkI'.at, pos |-> walkI'.pos, dry |-> walkI'.dry, stat |-> walkI'.stat]
  OBVIOUS
<1>2. \A n \in NamesI : ~(n < 1)
  BY ImportAssumption DEF NamesI
<1> QED BY <1>1, <1>2 DEF ImportInv

\* An entry is looked at.
LEMMA VisitKeeps ==
  ASSUME ImportInv, VisitEntry
  PROVE  ImportInv'
<1>1. walkI.at = "visit" /\ walkI.pos \in NamesI /\ UNCHANGED <<treeI, rowsI, touchedI>>
  BY DEF VisitEntry
<1>2. CASE treeI[walkI.pos] \in {"link", NoBodyI}
  <2>1. walkI' = NextName
    BY <1>2 DEF VisitEntry
  <2>2. RowCurrent(walkI.pos)
    BY <1>2, ImportAssumption DEF RowCurrent
  <2>3. ASSUME NEW n \in NamesI, n < walkI.pos + 1, ~walkI.dry PROVE RowCurrent(n)'
    <3>1. RowCurrent(n)
      BY <1>1, <2>2, <2>3, ImportAssumption DEF ImportInv, NamesI
    <3> QED BY <1>1, <3>1 DEF RowCurrent
  <2>4. /\ walkI'.at = "visit" /\ walkI'.pos = walkI.pos + 1 /\ walkI'.dry = walkI.dry
        /\ walkI' = [at |-> walkI'.at, pos |-> walkI'.pos, dry |-> walkI'.dry, stat |-> walkI'.stat]
    BY <2>1, NextNameIs
  <2> QED BY <1>1, <2>3, <2>4 DEF ImportInv
<1>3. CASE treeI[walkI.pos] \notin {"link", NoBodyI}
  <2>1. walkI' = [walkI EXCEPT !.at = "hash", !.stat = treeI[walkI.pos]]
    BY <1>3 DEF VisitEntry
  <2>2. walkI' = [at |-> "hash", pos |-> walkI.pos, dry |-> walkI.dry, stat |-> treeI[walkI.pos]]
    BY <2>1 DEF ImportInv
  <2>3. /\ walkI'.at = "hash" /\ walkI'.pos = walkI.pos /\ walkI'.dry = walkI.dry /\ walkI'.stat = treeI[walkI.pos]
        /\ walkI' = [at |-> walkI'.at, pos |-> walkI'.pos, dry |-> walkI'.dry, stat |-> walkI'.stat]
    BY <2>2
  <2>4. ASSUME NEW n \in NamesI, n < walkI.pos, ~walkI.dry PROVE RowCurrent(n)'
    BY <1>1, <2>4 DEF ImportInv, RowCurrent
  <2> QED BY <1>1, <2>3, <2>4 DEF ImportInv
<1> QED BY <1>2, <1>3

\* An entry is hashed and its row stored.
LEMMA HashKeeps ==
  ASSUME ImportInv, HashEntry
  PROVE  ImportInv'
<1>1. walkI.at = "hash" /\ walkI.pos \in NamesI /\ UNCHANGED <<treeI, touchedI>>
  BY DEF HashEntry, ImportInv
<1>2. CASE treeI[walkI.pos] \notin BodiesI
  <2>1. walkI' = Resting("failed") /\ rowsI' = rowsI
    BY <1>2 DEF HashEntry
  <2> QED BY <1>1, <2>1, RestingKeeps DEF Resting
<1>3. CASE treeI[walkI.pos] \in BodiesI
  <2>1. PICK r : r = [size |-> walkI.stat, hash |-> treeI[walkI.pos]]
    OBVIOUS
  <2>2. walkI' = NextName /\ rowsI' = IF walkI.dry THEN rowsI ELSE [rowsI EXCEPT ![walkI.pos] = r]
    BY <1>3, <2>1 DEF HashEntry, UpsertRow
  <2>3. rowsI' = [n \in NamesI |-> rowsI'[n]]
    BY <2>2 DEF ImportInv
  <2>4. ASSUME NEW n \in NamesI, n < walkI.pos + 1, ~walkI.dry PROVE RowCurrent(n)'
    <3>1. CASE n = walkI.pos
      <4>1. rowsI'[n] = r
        BY <2>2, <2>4, <3>1 DEF ImportInv
      <4> QED BY <1>1, <2>1, <3>1, <4>1 DEF RowCurrent, ImportInv
    <3>2. CASE n # walkI.pos
      <4>1. n < walkI.pos
        BY <1>1, <2>4, <3>2, ImportAssumption DEF NamesI
      <4>2. rowsI'[n] = rowsI[n]
        BY <2>2, <3>2 DEF ImportInv
      <4>3. RowCurrent(n)
        BY <1>1, <2>4, <4>1 DEF ImportInv
      <4> QED BY <1>1, <4>2, <4>3 DEF RowCurrent
    <3> QED BY <3>1, <3>2
  <2>5. /\ walkI'.at = "visit" /\ walkI'.pos = walkI.pos + 1 /\ walkI'.dry = walkI.dry
        /\ walkI' = [at |-> walkI'.at, pos |-> walkI'.pos, dry |-> walkI'.dry, stat |-> walkI'.stat]
    BY <2>2, NextNameIs
  <2> QED BY <1>1, <2>3, <2>4, <2>5 DEF ImportInv
<1> QED BY <1>2, <1>3

\* The walk is at its end.
LEMMA FinishKeeps ==
  ASSUME ImportInv, FinishImport
  PROVE  ImportInv'
<1>1. /\ walkI.at = "visit" /\ walkI.pos \notin NamesI /\ UNCHANGED <<treeI, rowsI, touchedI>>
      /\ walkI' = [at |-> "finished", pos |-> 1, dry |-> walkI.dry, stat |-> NoBodyI]
  BY DEF FinishImport, Resting
<1>2. /\ walkI'.at = "finished" /\ walkI'.pos = 1 /\ walkI'.dry = walkI.dry
      /\ walkI' = [at |-> walkI'.at, pos |-> walkI'.pos, dry |-> walkI'.dry, stat |-> walkI'.stat]
  BY <1>1
<1>3. ASSUME NEW n \in NamesI, ~walkI.dry PROVE RowCurrent(n)'
  <2>1. n < walkI.pos
    BY <1>1, ImportAssumption DEF ImportInv, NamesI
  <2>2. RowCurrent(n)
    BY <1>1, <1>3, <2>1 DEF ImportInv
  <2> QED BY <1>1, <2>2 DEF RowCurrent
<1> QED BY <1>1, <1>2, <1>3 DEF ImportInv

\* The owner edits the tree while it is imported.
LEMMA EditTreeKeeps ==
  ASSUME ImportInv, EditTree
  PROVE  ImportInv'
<1>1. PICK n \in NamesI, b \in BodiesI \cup {NoBodyI} :
        treeI' = [treeI EXCEPT ![n] = b] /\ touchedI' = touchedI \cup {n}
  BY DEF EditTree
<1>2. UNCHANGED <<rowsI, walkI>>
  BY DEF EditTree
<1>3. treeI' = [m \in NamesI |-> treeI'[m]] /\ \A m \in NamesI : m # n => treeI'[m] = treeI[m]
  BY <1>1 DEF ImportInv
<1>4. ASSUME NEW m \in NamesI, RowCurrent(m) PROVE RowCurrent(m)'
  BY <1>1, <1>2, <1>3, <1>4 DEF RowCurrent
<1>5. walkI.at = "hash" /\ walkI.pos \notin touchedI' => walkI.stat = treeI'[walkI.pos]
  BY <1>1, <1>3 DEF ImportInv
<1> QED BY <1>2, <1>3, <1>4, <1>5 DEF ImportInv

\* Every step of an import keeps its invariant.
LEMMA ImportKeeps ==
  ASSUME ImportInv, [ImportNext]_importVars
  PROVE  ImportInv'
<1>1. CASE UNCHANGED importVars
  BY <1>1 DEF importVars, ImportInv, RowCurrent
<1>2. CASE StartImport
  <2>1. PICK dry \in BOOLEAN : walkI' = [Resting("visit") EXCEPT !.dry = dry]
    BY <1>2 DEF StartImport
  <2>2. walkI' = [at |-> "visit", pos |-> 1, dry |-> dry, stat |-> NoBodyI]
    BY <2>1 DEF Resting
  <2> QED BY <1>2, <2>2, RestingKeeps DEF StartImport
<1>3. CASE StopImport
  BY <1>3, RestingKeeps DEF StopImport, Resting
<1> QED BY <1>1, <1>2, <1>3, VisitKeeps, HashKeeps, FinishKeeps, EditTreeKeeps DEF ImportNext

\* No import is under way at the start.
LEMMA ImportStart == ImportInit => ImportInv
<1> SUFFICES ASSUME ImportInit PROVE ImportInv
  OBVIOUS
<1>1. walkI = [at |-> "idle", pos |-> 1, dry |-> FALSE, stat |-> NoBodyI]
  BY DEF ImportInit, Resting
<1>2. walkI.at = "idle" /\ walkI.pos = 1 /\ walkI = [at |-> walkI.at, pos |-> walkI.pos, dry |-> walkI.dry, stat |-> walkI.stat]
  BY <1>1
<1> QED BY <1>2 DEF ImportInit, ImportInv

\* Entries whose contents the folder held and whose slots are there.
BackedA(S) == \A e \in S : e \in heldA /\ slotA[e.digest] # NoneA
OnePerPath(S) == \A e, f \in S : e.path = f.path => e = f

ArchiveInv ==
  /\ folderA \in [NamesA -> BodiesA \cup {NoneA}]
  /\ \A n \in NamesA : folderA[n] # NoneA => [path |-> n, digest |-> folderA[n]] \in heldA
  /\ slotA = [d \in BodiesA |-> slotA[d]] /\ destA = [n \in NamesA |-> destA[n]]
  /\ RestoredWasHeld /\ IndexIsBacked
  /\ restoreA # NoneA => restoreA \subseteq heldA
  /\ createA # NoneA =>
       /\ createA = [todo |-> createA.todo, entries |-> createA.entries, slot |-> createA.slot]
       /\ createA.todo \subseteq NamesA
       /\ BackedA(createA.entries) /\ OnePerPath(createA.entries)
       /\ \A e \in createA.entries : e.path \notin createA.todo
       /\ createA.slot # NoneA =>
            /\ createA.slot \in heldA /\ createA.slot.path \in createA.todo
            /\ createA.slot.digest \in BodiesA

\* What the slots and the history lose no entry of stays backed.
LEMMA BackedStays ==
  ASSUME heldA \subseteq heldA', \A d : slotA[d] # NoneA => slotA'[d] # NoneA
  PROVE  /\ \A S : BackedA(S) => BackedA(S)'
         /\ IndexIsBacked /\ indexA' = indexA => IndexIsBacked'
         /\ RestoredWasHeld /\ destA' = destA => RestoredWasHeld'
<1>1. ASSUME NEW S, BackedA(S) PROVE BackedA(S)'
  BY <1>1 DEF BackedA
<1>2. ASSUME IndexIsBacked, indexA' = indexA PROVE IndexIsBacked'
  BY <1>2 DEF IndexIsBacked
<1>3. ASSUME RestoredWasHeld, destA' = destA PROVE RestoredWasHeld'
  BY <1>3 DEF RestoredWasHeld
<1> QED BY <1>1, <1>2, <1>3

\* The owner edits the folder.
LEMMA EditFolderKeeps ==
  ASSUME ArchiveInv, NEW n \in NamesA, NEW b \in BodiesA \cup {NoneA}, EditFolder(n, b)
  PROVE  ArchiveInv'
<1>1. /\ folderA' = [folderA EXCEPT ![n] = b] /\ UNCHANGED <<slotA, indexA, createA, restoreA, destA>>
      /\ heldA \subseteq heldA' /\ (b # NoneA => [path |-> n, digest |-> b] \in heldA')
  BY DEF EditFolder
<1>2. folderA' \in [NamesA -> BodiesA \cup {NoneA}]
  BY <1>1 DEF ArchiveInv
<1>3. ASSUME NEW m \in NamesA, folderA'[m] # NoneA PROVE [path |-> m, digest |-> folderA'[m]] \in heldA'
  <2>1. CASE m = n
    BY <1>1, <1>3, <2>1 DEF ArchiveInv
  <2>2. CASE m # n
    BY <1>1, <1>3, <2>2 DEF ArchiveInv
  <2> QED BY <2>1, <2>2
<1>4. IndexIsBacked' /\ RestoredWasHeld' /\ \A S : BackedA(S) => BackedA(S)'
  BY <1>1, BackedStays DEF ArchiveInv
<1>5. createA # NoneA => BackedA(createA.entries)'
  BY <1>1, <1>4 DEF ArchiveInv, BackedA
<1>6. createA # NoneA => OnePerPath(createA.entries)'
  BY <1>1 DEF ArchiveInv, OnePerPath
<1> QED BY <1>1, <1>2, <1>3, <1>4, <1>5, <1>6 DEF ArchiveInv

\* An archive is begun.
LEMMA BeginKeeps ==
  ASSUME ArchiveInv, CreateBegin
  PROVE  ArchiveInv'
<1>1. /\ createA' = [todo |-> NamesA, entries |-> {}, slot |-> NoneA]
      /\ UNCHANGED <<folderA, slotA, indexA, restoreA, destA, heldA>>
  BY DEF CreateBegin
<1>2. createA'.todo = NamesA /\ createA'.entries = {} /\ createA'.slot = NoneA
  BY <1>1
<1>3. IndexIsBacked' /\ RestoredWasHeld'
  BY <1>1, BackedStays DEF ArchiveInv
<1> QED BY <1>1, <1>2, <1>3 DEF ArchiveInv, BackedA, OnePerPath

\* An entry of the folder is read.
LEMMA ReadKeeps ==
  ASSUME ArchiveInv, NEW n \in NamesA, CreateRead(n)
  PROVE  ArchiveInv'
<1>1. /\ createA # NoneA /\ createA.slot = NoneA /\ n \in createA.todo
      /\ UNCHANGED <<folderA, indexA, restoreA, destA, heldA>>
  BY DEF CreateRead
<1>2. PICK todo, entries : /\ todo = createA.todo /\ entries = createA.entries
                           /\ createA = [todo |-> todo, entries |-> entries, slot |-> NoneA]
  BY <1>1 DEF ArchiveInv
<1>3. /\ todo \subseteq NamesA /\ BackedA(entries) /\ OnePerPath(entries)
      /\ \A e \in entries : e.path \notin todo
  BY <1>1, <1>2 DEF ArchiveInv
<1>4. OnePerPath(entries)'
  BY <1>3 DEF OnePerPath
<1>5. CASE folderA[n] = NoneA
  <2>1. UNCHANGED slotA /\ (createA' = NoneA \/ createA' = [todo |-> todo \ {n}, entries |-> entries, slot |-> NoneA])
    BY <1>2, <1>5 DEF CreateRead
  <2>2. IndexIsBacked' /\ RestoredWasHeld' /\ BackedA(entries)'
    BY <1>1, <1>3, <2>1, BackedStays DEF ArchiveInv
  <2>3. CASE createA' = NoneA
    BY <1>1, <2>1, <2>2, <2>3 DEF ArchiveInv
  <2>4. CASE createA' = [todo |-> todo \ {n}, entries |-> entries, slot |-> NoneA]
    <3>1. createA'.todo = todo \ {n} /\ createA'.entries = entries /\ createA'.slot = NoneA
      BY <2>4
    <3>2. BackedA(createA.entries)' /\ OnePerPath(createA.entries)'
      BY <1>4, <2>2, <3>1 DEF BackedA, OnePerPath
    <3> QED BY <1>1, <1>3, <2>1, <2>2, <2>4, <3>1, <3>2 DEF ArchiveInv
  <2> QED BY <2>1, <2>3, <2>4
<1>6. CASE folderA[n] # NoneA
  <2>1. PICK e : e = [path |-> n, digest |-> folderA[n]]
    OBVIOUS
  <2>2. e.path = n /\ e.digest = folderA[n] /\ folderA[n] \in BodiesA /\ e \in heldA
    BY <1>6, <2>1 DEF ArchiveInv
  <2>3. createA' = [todo |-> todo, entries |-> entries, slot |-> e] /\ slotA' = [slotA EXCEPT ![folderA[n]] = TornA]
    BY <1>2, <1>6, <2>1 DEF CreateRead
  <2>4. createA'.todo = todo /\ createA'.entries = entries /\ createA'.slot = e
    BY <2>3
  <2>5. slotA' = [d \in BodiesA |-> slotA'[d]] /\ \A d : slotA[d] # NoneA => slotA'[d] # NoneA
    BY <2>2, <2>3, ArchiveAssumption DEF ArchiveInv
  <2>6. IndexIsBacked' /\ RestoredWasHeld' /\ BackedA(entries)'
    BY <1>1, <1>3, <2>5, BackedStays DEF ArchiveInv
  <2>7. BackedA(createA.entries)' /\ OnePerPath(createA.entries)'
    BY <1>4, <2>4, <2>6 DEF BackedA, OnePerPath
  <2> QED BY <1>1, <1>2, <1>3, <2>2, <2>3, <2>4, <2>5, <2>6, <2>7 DEF ArchiveInv
<1> QED BY <1>5, <1>6

\* Its slot is written.
LEMMA WriterKeeps ==
  ASSUME ArchiveInv, CreateWrite
  PROVE  ArchiveInv'
<1>1. /\ createA # NoneA /\ createA.slot # NoneA
      /\ UNCHANGED <<folderA, indexA, restoreA, destA, heldA>>
  BY DEF CreateWrite
<1>2. PICK todo, entries, e : todo = createA.todo /\ entries = createA.entries /\ e = createA.slot
  OBVIOUS
<1>3. /\ todo \subseteq NamesA /\ BackedA(entries) /\ OnePerPath(entries)
      /\ \A f \in entries : f.path \notin todo
      /\ e \in heldA /\ e.path \in todo /\ e.digest \in BodiesA
  BY <1>1, <1>2 DEF ArchiveInv
<1>4. /\ slotA' = [slotA EXCEPT ![e.digest] = "whole"]
      /\ createA' = [todo |-> todo \ {e.path}, entries |-> entries \cup {e}, slot |-> NoneA]
  BY <1>2 DEF CreateWrite
<1>5. createA'.todo = todo \ {e.path} /\ createA'.entries = entries \cup {e} /\ createA'.slot = NoneA
  BY <1>4
<1>6. /\ slotA' = [d \in BodiesA |-> slotA'[d]] /\ slotA'[e.digest] # NoneA
      /\ \A d : slotA[d] # NoneA => slotA'[d] # NoneA
  BY <1>3, <1>4, ArchiveAssumption DEF ArchiveInv
<1>7. IndexIsBacked' /\ RestoredWasHeld' /\ BackedA(entries)'
  BY <1>1, <1>3, <1>6, BackedStays DEF ArchiveInv
<1>8. BackedA(createA.entries)'
  BY <1>1, <1>3, <1>5, <1>6, <1>7 DEF BackedA
<1>9. OnePerPath(createA.entries)'
  BY <1>3, <1>5 DEF OnePerPath
<1> QED BY <1>1, <1>3, <1>4, <1>5, <1>6, <1>7, <1>8, <1>9 DEF ArchiveInv

\* The index is written last.
LEMMA IndexKeeps ==
  ASSUME ArchiveInv, CreateIndex
  PROVE  ArchiveInv'
<1>1. /\ createA # NoneA /\ indexA' = createA.entries /\ createA' = NoneA
      /\ UNCHANGED <<folderA, slotA, restoreA, destA, heldA>>
  BY DEF CreateIndex
<1>2. IndexIsBacked'
  BY <1>1 DEF ArchiveInv, IndexIsBacked, BackedA, OnePerPath
<1>3. RestoredWasHeld'
  BY <1>1, BackedStays DEF ArchiveInv
<1> QED BY <1>1, <1>2, <1>3 DEF ArchiveInv

\* The archive is cut off.
LEMMA StopsKeeps ==
  ASSUME ArchiveInv, CreateStops
  PROVE  ArchiveInv'
<1>1. /\ createA' = NoneA /\ (indexA' = indexA \/ indexA' = TornA)
      /\ UNCHANGED <<folderA, slotA, restoreA, destA, heldA>>
  BY DEF CreateStops
<1>2. IndexIsBacked' /\ RestoredWasHeld'
  <2>1. CASE indexA' = indexA
    BY <1>1, <2>1, BackedStays DEF ArchiveInv
  <2>2. CASE indexA' = TornA
    BY <1>1, <2>2 DEF ArchiveInv, IndexIsBacked, RestoredWasHeld
  <2> QED BY <1>1, <2>1, <2>2
<1> QED BY <1>1, <1>2 DEF ArchiveInv

\* An archive is restored.
LEMMA RestoreKeeps ==
  ASSUME ArchiveInv, RestoreBegin \/ RestoreEnd \/ \E e \in EntriesA : RestoreEntry(e)
  PROVE  ArchiveInv'
<1>1. UNCHANGED <<folderA, slotA, indexA, createA, heldA>>
  BY DEF RestoreBegin, RestoreEnd, RestoreEntry
<1>2. ASSUME destA' = [n \in NamesA |-> destA'[n]], RestoredWasHeld', restoreA' # NoneA => restoreA' \subseteq heldA
      PROVE  ArchiveInv'
  <2>1. IndexIsBacked'
    BY <1>1, BackedStays DEF ArchiveInv
  <2>2. createA # NoneA => BackedA(createA.entries)' /\ OnePerPath(createA.entries)'
    BY <1>1 DEF ArchiveInv, BackedA, OnePerPath
  <2> QED BY <1>1, <1>2, <2>1, <2>2 DEF ArchiveInv
<1>3. CASE RestoreBegin
  <2>1. restoreA' = indexA /\ indexA \subseteq heldA /\ destA' = [n \in NamesA |-> NoneA]
    BY <1>3 DEF RestoreBegin, ArchiveInv, IndexIsBacked
  <2> QED BY <1>1, <1>2, <2>1 DEF RestoredWasHeld
<1>4. CASE RestoreEnd
  BY <1>1, <1>2, <1>4 DEF RestoreEnd, ArchiveInv, RestoredWasHeld
<1>5. ASSUME NEW e \in EntriesA, RestoreEntry(e) PROVE ArchiveInv'
  <2>1. restoreA # NoneA /\ e \in heldA
    BY <1>5 DEF RestoreEntry, ArchiveInv
  <2>2. CASE restoreA' = NoneA /\ UNCHANGED destA
    BY <1>1, <1>2, <2>2 DEF ArchiveInv, RestoredWasHeld
  <2>3. CASE destA' = [destA EXCEPT ![e.path] = e.digest] /\ restoreA' = restoreA \ {e}
    <3>1. e.path \in NamesA /\ e = [path |-> e.path, digest |-> e.digest]
      BY DEF EntriesA
    <3>2. /\ destA' = [n \in NamesA |-> destA'[n]] /\ destA'[e.path] = e.digest
          /\ \A n \in NamesA : n # e.path => destA'[n] = destA[n]
      BY <2>3, <3>1 DEF ArchiveInv
    <3>3. RestoredWasHeld'
      BY <1>1, <2>1, <3>1, <3>2 DEF ArchiveInv, RestoredWasHeld
    <3> QED BY <1>2, <2>1, <2>3, <3>2, <3>3 DEF ArchiveInv
  <2> QED BY <1>5, <2>2, <2>3 DEF RestoreEntry, Intact
<1> QED BY <1>3, <1>4, <1>5

\* Every step on the archive keeps its invariant.
LEMMA ArchiveKeeps ==
  ASSUME ArchiveInv, [ArchiveNext]_archiveVars
  PROVE  ArchiveInv'
<1>1. CASE UNCHANGED archiveVars
  <2>1. IndexIsBacked' /\ RestoredWasHeld'
    BY <1>1, BackedStays DEF ArchiveInv, archiveVars
  <2>2. createA # NoneA => BackedA(createA.entries)' /\ OnePerPath(createA.entries)'
    BY <1>1 DEF ArchiveInv, BackedA, OnePerPath, archiveVars
  <2> QED BY <1>1, <2>1, <2>2 DEF ArchiveInv, archiveVars
<1> QED BY <1>1, EditFolderKeeps, BeginKeeps, ReadKeeps, WriterKeeps, IndexKeeps, StopsKeeps, RestoreKeeps
        DEF ArchiveNext

\* There is no archive at the start.
LEMMA ArchiveStart == ArchiveInit => ArchiveInv
<1> SUFFICES ASSUME ArchiveInit PROVE ArchiveInv
  OBVIOUS
<1>1. \A n \in NamesA : folderA[n] # NoneA => [path |-> n, digest |-> folderA[n]] \in heldA
  BY DEF ArchiveInit
<1> QED BY <1>1 DEF ArchiveInit, ArchiveInv, RestoredWasHeld, IndexIsBacked

\* A manifest states the bytes of its dimensions, on disk and in the sweep's hand, and
\* what was reported fresh fits.
EmbInv ==
  /\ manifestE \notin {NoneE, TornE} => manifestE.bytes = manifestE.dims
  /\ sweepE # NoneE /\ sweepE.manifest \notin {NoneE, TornE} =>
       sweepE.manifest.bytes = sweepE.manifest.dims
  /\ FreshVectorFits

\* Every step on the sidecars keeps their invariant.
LEMMA EmbKeeps ==
  ASSUME EmbInv, [EmbNext]_embVars
  PROVE  EmbInv'
<1>1. CASE UNCHANGED embVars
  BY <1>1 DEF embVars, EmbInv, FreshVectorFits
<1>2. ASSUME NEW b \in BodiesE \cup {NoneE}, EditSource(b) PROVE EmbInv'
  BY <1>2 DEF EditSource, EmbInv, FreshVectorFits
<1>3. ASSUME NEW c \in ConfigsE, Reconfigure(c) PROVE EmbInv'
  BY <1>3 DEF Reconfigure, EmbInv, FreshVectorFits
<1>4. ASSUME NEW w \in WritersE, (\E g \in SizesE : IngestBegin(w, g)) \/ IngestVector(w) PROVE EmbInv'
  BY <1>4 DEF IngestBegin, IngestVector, EmbInv, FreshVectorFits
<1>5. ASSUME NEW w \in WritersE, IngestManifest(w) PROVE EmbInv'
  <2>1. manifestE' = [hash |-> ingestE[w].hash, model |-> ingestE[w].model,
                      dims |-> ingestE[w].dims, bytes |-> ingestE[w].dims]
    BY <1>5 DEF IngestManifest
  <2>2. manifestE'.bytes = manifestE'.dims
    BY <2>1
  <2> QED BY <1>5, <2>2 DEF IngestManifest, EmbInv, FreshVectorFits
<1>6. ASSUME NEW w \in WritersE, IngestStops(w) PROVE EmbInv'
  <2>1. (manifestE' = manifestE \/ manifestE' = TornE) /\ UNCHANGED <<configE, sweepE, reportE>>
    BY <1>6 DEF IngestStops
  <2> QED BY <2>1 DEF EmbInv, FreshVectorFits
<1>7. CASE SweepBegin
  <2>1. sweepE' = [hash |-> sourceE, manifest |-> manifestE] /\ UNCHANGED <<configE, manifestE, reportE>>
    BY <1>7 DEF SweepBegin
  <2>2. sweepE'.manifest = manifestE
    BY <2>1
  <2> QED BY <2>1, <2>2 DEF EmbInv, FreshVectorFits
<1>8. CASE SweepEnd
  <2>1. PICK s : s = Staleness(sweepE.manifest, sweepE.hash)
    OBVIOUS
  <2>2. /\ reportE' = [status |-> s, vector |-> vectorE, hash |-> sweepE.hash]
        /\ sweepE # NoneE /\ sweepE' = NoneE /\ UNCHANGED <<configE, manifestE>>
    BY <1>8, <2>1 DEF SweepEnd
  <2>3. s = "fresh" => vectorE = configE.dims
    BY <2>1, <2>2 DEF Staleness, VectorMatches, EmbInv
  <2>4. reportE'.status = s /\ reportE'.vector = vectorE
    BY <2>2
  <2> QED BY <2>2, <2>3, <2>4 DEF EmbInv, FreshVectorFits
<1> QED BY <1>1, <1>2, <1>3, <1>4, <1>5, <1>6, <1>7, <1>8 DEF EmbNext

\* There is no sidecar at the start.
LEMMA EmbStart == EmbInit => EmbInv
  BY DEF EmbInit, EmbInv, FreshVectorFits

-----------------------------------------------------------------------------
(* The window *)

\* A request knows the daemon it was sent to, and what it is about are conflicts.
RequestOk(r) ==
  /\ r = [at |-> r.at, host |-> r.host, ok |-> r.ok, items |-> r.items]
  /\ r.items \subseteq ConflictsG /\ (r.at # "none" => r.host \in HostsG)

WindowOk(g) ==
  /\ g = [host |-> g.host, status |-> g.status, failed |-> g.failed, due |-> g.due,
          poll |-> g.poll, settings |-> g.settings, panel |-> g.panel, list |-> g.list,
          listFailed |-> g.listFailed, fetch |-> g.fetch, resolve |-> g.resolve]
  /\ g.host \in HostsG /\ g.list \subseteq ConflictsG
  /\ RequestOk(g.poll) /\ RequestOk(g.fetch) /\ RequestOk(g.resolve)

GuiInv ==
  /\ WindowOk(gui) /\ daemonsG \in [HostsG -> SUBSET ConflictsG]
  /\ ResolvedNotOffered

\* A copy with other requests, list and daemon is a window when these are in order.
LEMMA WindowIs ==
  ASSUME NEW g, NEW h \in HostsG, NEW st, NEW fa, NEW du, NEW po, NEW se, NEW pa,
         NEW li \in SUBSET ConflictsG, NEW lf, NEW fe, NEW re,
         RequestOk(po), RequestOk(fe), RequestOk(re),
         g = [host |-> h, status |-> st, failed |-> fa, due |-> du, poll |-> po, settings |-> se,
              panel |-> pa, list |-> li, listFailed |-> lf, fetch |-> fe, resolve |-> re]
  PROVE  /\ WindowOk(g) /\ g.list = li /\ g.fetch = fe /\ g.resolve = re /\ g.host = h
<1>1. /\ g.host = h /\ g.status = st /\ g.failed = fa /\ g.due = du /\ g.poll = po /\ g.settings = se
      /\ g.panel = pa /\ g.list = li /\ g.listFailed = lf /\ g.fetch = fe /\ g.resolve = re
  OBVIOUS
<1> QED BY <1>1 DEF WindowOk

\* The fields of a request.
LEMMA RequestIs ==
  ASSUME NEW at, NEW h \in HostsG, NEW ok, NEW items \in SUBSET ConflictsG, NEW r,
         r = [at |-> at, host |-> h, ok |-> ok, items |-> items]
  PROVE  RequestOk(r) /\ r.at = at /\ r.items = items /\ r.host = h
<1>1. r.at = at /\ r.host = h /\ r.ok = ok /\ r.items = items
  OBVIOUS
<1> QED BY <1>1 DEF RequestOk

\* No request is a request that is not under way.
LEMMA NoRequestOk == RequestOk(NoRequest) /\ NoRequest.at = "none"
<1>1. NoRequest.at = "none" /\ NoRequest.host = NoneG /\ NoRequest.ok = FALSE /\ NoRequest.items = {}
  BY DEF NoRequest
<1> QED BY <1>1 DEF RequestOk, NoRequest

\* A request that was just sent.
LEMMA SentOk ==
  ASSUME NEW h \in HostsG, NEW items \in SUBSET ConflictsG
  PROVE  RequestOk(Sent(h, items)) /\ Sent(h, items).at = "sent"
  BY RequestIs DEF Sent

\* What an update of some fields of a window leaves of it.
UpdateKeeps(g, d, l, f, r, h) ==
  WindowOk(d) /\ d.list = l /\ d.fetch = f /\ d.resolve = r /\ d.host = h

\* Each update of the window, and what it leaves alone.
LEMMA Updates ==
  ASSUME NEW g, WindowOk(g)
  PROVE  /\ \A r, x : RequestOk(r) => UpdateKeeps(g, [g EXCEPT !.poll = r, !.due = x], g.list, g.fetch, g.resolve, g.host)
         /\ \A l, r : l \subseteq ConflictsG /\ RequestOk(r) => UpdateKeeps(g, [g EXCEPT !.list = l, !.listFailed = FALSE, !.fetch = r], l, r, g.resolve, g.host)
         /\ \A r : RequestOk(r) => UpdateKeeps(g, [g EXCEPT !.listFailed = TRUE, !.fetch = r], g.list, r, g.resolve, g.host)
         /\ \A r : RequestOk(r) => UpdateKeeps(g, [g EXCEPT !.fetch = r], g.list, r, g.resolve, g.host)
         /\ \A l, r : l \subseteq ConflictsG /\ RequestOk(r) => UpdateKeeps(g, [g EXCEPT !.list = l, !.listFailed = FALSE, !.resolve = r], l, g.fetch, r, g.host)
         /\ \A r : RequestOk(r) => UpdateKeeps(g, [g EXCEPT !.listFailed = TRUE, !.resolve = r], g.list, g.fetch, r, g.host)
         /\ \A r : RequestOk(r) => UpdateKeeps(g, [g EXCEPT !.resolve = r], g.list, g.fetch, r, g.host)
         /\ \A x : UpdateKeeps(g, [g EXCEPT !.settings = x], g.list, g.fetch, g.resolve, g.host)
         /\ \A y : y \in HostsG => UpdateKeeps(g, [g EXCEPT !.host = y, !.settings = FALSE, !.due = TRUE], g.list, g.fetch, g.resolve, y)
         /\ \A x : UpdateKeeps(g, [g EXCEPT !.panel = x], g.list, g.fetch, g.resolve, g.host)
         /\ \A x : UpdateKeeps(g, [g EXCEPT !.due = x], g.list, g.fetch, g.resolve, g.host)
<1>1. PICK h, st, fa, du, po, se, pa, li, lf, fe, re :
        g = [host |-> h, status |-> st, failed |-> fa, due |-> du, poll |-> po, settings |-> se,
              panel |-> pa, list |-> li, listFailed |-> lf, fetch |-> fe, resolve |-> re]
  BY DEF WindowOk
<1>2. g.host = h /\ g.poll = po /\ g.list = li /\ g.fetch = fe /\ g.resolve = re
  BY <1>1
<1>3. h \in HostsG /\ li \in SUBSET ConflictsG /\ RequestOk(po) /\ RequestOk(fe) /\ RequestOk(re)
  BY <1>2 DEF WindowOk
<1>4. ASSUME NEW r, NEW x, RequestOk(r) PROVE UpdateKeeps(g, [g EXCEPT !.poll = r, !.due = x], g.list, g.fetch, g.resolve, g.host)
  <2>1. PICK d : d = [g EXCEPT !.poll = r, !.due = x]
    OBVIOUS
  <2>2. d = [host |-> h, status |-> st, failed |-> fa, due |-> x, poll |-> r,
              settings |-> se, panel |-> pa, list |-> li, listFailed |-> lf, fetch |-> fe, resolve |-> re]
    BY <1>1, <2>1
  <2>3. UpdateKeeps(g, d, g.list, g.fetch, g.resolve, g.host)
    BY <1>4, <1>2, <1>3, <2>2, WindowIs DEF UpdateKeeps
  <2> QED BY <2>1, <2>3
<1>5. ASSUME NEW l, NEW r, l \subseteq ConflictsG, RequestOk(r) PROVE UpdateKeeps(g, [g EXCEPT !.list = l, !.listFailed = FALSE, !.fetch = r], l, r, g.resolve, g.host)
  <2>1. PICK d : d = [g EXCEPT !.list = l, !.listFailed = FALSE, !.fetch = r]
    OBVIOUS
  <2>2. d = [host |-> h, status |-> st, failed |-> fa, due |-> du, poll |-> po,
              settings |-> se, panel |-> pa, list |-> l, listFailed |-> FALSE, fetch |-> r, resolve |-> re]
    BY <1>1, <2>1
  <2>3. UpdateKeeps(g, d, l, r, g.resolve, g.host)
    BY <1>5, <1>2, <1>3, <2>2, WindowIs DEF UpdateKeeps
  <2> QED BY <2>1, <2>3
<1>6. ASSUME NEW r, RequestOk(r) PROVE UpdateKeeps(g, [g EXCEPT !.listFailed = TRUE, !.fetch = r], g.list, r, g.resolve, g.host)
  <2>1. PICK d : d = [g EXCEPT !.listFailed = TRUE, !.fetch = r]
    OBVIOUS
  <2>2. d = [host |-> h, status |-> st, failed |-> fa, due |-> du, poll |-> po,
              settings |-> se, panel |-> pa, list |-> li, listFailed |-> TRUE, fetch |-> r, resolve |-> re]
    BY <1>1, <2>1
  <2>3. UpdateKeeps(g, d, g.list, r, g.resolve, g.host)
    BY <1>6, <1>2, <1>3, <2>2, WindowIs DEF UpdateKeeps
  <2> QED BY <2>1, <2>3
<1>7. ASSUME NEW r, RequestOk(r) PROVE UpdateKeeps(g, [g EXCEPT !.fetch = r], g.list, r, g.resolve, g.host)
  <2>1. PICK d : d = [g EXCEPT !.fetch = r]
    OBVIOUS
  <2>2. d = [host |-> h, status |-> st, failed |-> fa, due |-> du, poll |-> po,
              settings |-> se, panel |-> pa, list |-> li, listFailed |-> lf, fetch |-> r, resolve |-> re]
    BY <1>1, <2>1
  <2>3. UpdateKeeps(g, d, g.list, r, g.resolve, g.host)
    BY <1>7, <1>2, <1>3, <2>2, WindowIs DEF UpdateKeeps
  <2> QED BY <2>1, <2>3
<1>8. ASSUME NEW l, NEW r, l \subseteq ConflictsG, RequestOk(r) PROVE UpdateKeeps(g, [g EXCEPT !.list = l, !.listFailed = FALSE, !.resolve = r], l, g.fetch, r, g.host)
  <2>1. PICK d : d = [g EXCEPT !.list = l, !.listFailed = FALSE, !.resolve = r]
    OBVIOUS
  <2>2. d = [host |-> h, status |-> st, failed |-> fa, due |-> du, poll |-> po,
              settings |-> se, panel |-> pa, list |-> l, listFailed |-> FALSE, fetch |-> fe, resolve |-> r]
    BY <1>1, <2>1
  <2>3. UpdateKeeps(g, d, l, g.fetch, r, g.host)
    BY <1>8, <1>2, <1>3, <2>2, WindowIs DEF UpdateKeeps
  <2> QED BY <2>1, <2>3
<1>9. ASSUME NEW r, RequestOk(r) PROVE UpdateKeeps(g, [g EXCEPT !.listFailed = TRUE, !.resolve = r], g.list, g.fetch, r, g.host)
  <2>1. PICK d : d = [g EXCEPT !.listFailed = TRUE, !.resolve = r]
    OBVIOUS
  <2>2. d = [host |-> h, status |-> st, failed |-> fa, due |-> du, poll |-> po,
              settings |-> se, panel |-> pa, list |-> li, listFailed |-> TRUE, fetch |-> fe, resolve |-> r]
    BY <1>1, <2>1
  <2>3. UpdateKeeps(g, d, g.list, g.fetch, r, g.host)
    BY <1>9, <1>2, <1>3, <2>2, WindowIs DEF UpdateKeeps
  <2> QED BY <2>1, <2>3
<1>10. ASSUME NEW r, RequestOk(r) PROVE UpdateKeeps(g, [g EXCEPT !.resolve = r], g.list, g.fetch, r, g.host)
  <2>1. PICK d : d = [g EXCEPT !.resolve = r]
    OBVIOUS
  <2>2. d = [host |-> h, status |-> st, failed |-> fa, due |-> du, poll |-> po,
              settings |-> se, panel |-> pa, list |-> li, listFailed |-> lf, fetch |-> fe, resolve |-> r]
    BY <1>1, <2>1
  <2>3. UpdateKeeps(g, d, g.list, g.fetch, r, g.host)
    BY <1>10, <1>2, <1>3, <2>2, WindowIs DEF UpdateKeeps
  <2> QED BY <2>1, <2>3
<1>11. ASSUME NEW x PROVE UpdateKeeps(g, [g EXCEPT !.settings = x], g.list, g.fetch, g.resolve, g.host)
  <2>1. PICK d : d = [g EXCEPT !.settings = x]
    OBVIOUS
  <2>2. d = [host |-> h, status |-> st, failed |-> fa, due |-> du, poll |-> po,
              settings |-> x, panel |-> pa, list |-> li, listFailed |-> lf, fetch |-> fe, resolve |-> re]
    BY <1>1, <2>1
  <2>3. UpdateKeeps(g, d, g.list, g.fetch, g.resolve, g.host)
    BY <1>2, <1>3, <2>2, WindowIs DEF UpdateKeeps
  <2> QED BY <2>1, <2>3
<1>12. ASSUME NEW y, y \in HostsG PROVE UpdateKeeps(g, [g EXCEPT !.host = y, !.settings = FALSE, !.due = TRUE], g.list, g.fetch, g.resolve, y)
  <2>1. PICK d : d = [g EXCEPT !.host = y, !.settings = FALSE, !.due = TRUE]
    OBVIOUS
  <2>2. d = [host |-> y, status |-> st, failed |-> fa, due |-> TRUE, poll |-> po,
              settings |-> FALSE, panel |-> pa, list |-> li, listFailed |-> lf, fetch |-> fe, resolve |-> re]
    BY <1>1, <2>1
  <2>3. UpdateKeeps(g, d, g.list, g.fetch, g.resolve, y)
    BY <1>12, <1>2, <1>3, <2>2, WindowIs DEF UpdateKeeps
  <2> QED BY <2>1, <2>3
<1>13. ASSUME NEW x PROVE UpdateKeeps(g, [g EXCEPT !.panel = x], g.list, g.fetch, g.resolve, g.host)
  <2>1. PICK d : d = [g EXCEPT !.panel = x]
    OBVIOUS
  <2>2. d = [host |-> h, status |-> st, failed |-> fa, due |-> du, poll |-> po,
              settings |-> se, panel |-> x, list |-> li, listFailed |-> lf, fetch |-> fe, resolve |-> re]
    BY <1>1, <2>1
  <2>3. UpdateKeeps(g, d, g.list, g.fetch, g.resolve, g.host)
    BY <1>2, <1>3, <2>2, WindowIs DEF UpdateKeeps
  <2> QED BY <2>1, <2>3
<1>14. ASSUME NEW x PROVE UpdateKeeps(g, [g EXCEPT !.due = x], g.list, g.fetch, g.resolve, g.host)
  <2>1. PICK d : d = [g EXCEPT !.due = x]
    OBVIOUS
  <2>2. d = [host |-> h, status |-> st, failed |-> fa, due |-> x, poll |-> po,
              settings |-> se, panel |-> pa, list |-> li, listFailed |-> lf, fetch |-> fe, resolve |-> re]
    BY <1>1, <2>1
  <2>3. UpdateKeeps(g, d, g.list, g.fetch, g.resolve, g.host)
    BY <1>2, <1>3, <2>2, WindowIs DEF UpdateKeeps
  <2> QED BY <2>1, <2>3
<1> QED BY <1>4, <1>5, <1>6, <1>7, <1>8, <1>9, <1>10, <1>11, <1>12, <1>13, <1>14

\* A status answer leaves the conflicts as they are.
LEMMA PendingIs ==
  ASSUME NEW g, WindowOk(g)
  PROVE  /\ WindowOk(DrainPending(g))
         /\ DrainPending(g).list = g.list /\ DrainPending(g).fetch = g.fetch
         /\ DrainPending(g).resolve = g.resolve
<1>1. PICK h, st, fa, du, po, se, pa, li, lf, fe, re :
        g = [host |-> h, status |-> st, failed |-> fa, due |-> du, poll |-> po, settings |-> se,
              panel |-> pa, list |-> li, listFailed |-> lf, fetch |-> fe, resolve |-> re]
  BY DEF WindowOk
<1>2. g.host = h /\ g.poll = po /\ g.list = li /\ g.fetch = fe /\ g.resolve = re
  BY <1>1
<1>3. h \in HostsG /\ li \in SUBSET ConflictsG /\ RequestOk(po) /\ RequestOk(fe) /\ RequestOk(re)
  BY <1>2 DEF WindowOk
<1>4. PICK d : d = DrainPending(g)
  OBVIOUS
<1>5. \/ d = g
      \/ \E x : d = [g EXCEPT !.status = x, !.failed = FALSE, !.poll = NoRequest]
      \/ \E x : d = [g EXCEPT !.status = x, !.failed = TRUE, !.poll = NoRequest]
      \/ d = [g EXCEPT !.failed = TRUE, !.poll = NoRequest]
  BY <1>4 DEF DrainPending
<1>6. \/ d = g
      \/ \E x, y : d = [host |-> h, status |-> x, failed |-> y, due |-> du, poll |-> NoRequest, settings |-> se,
              panel |-> pa, list |-> li, listFailed |-> lf, fetch |-> fe, resolve |-> re]
  BY <1>1, <1>5
<1>7. WindowOk(d) /\ d.list = g.list /\ d.fetch = g.fetch /\ d.resolve = g.resolve
  BY <1>2, <1>3, <1>6, WindowIs, NoRequestOk
<1> QED BY <1>4, <1>7

\* So does asking for the status.
LEMMA PolledIs ==
  ASSUME NEW g, WindowOk(g)
  PROVE  UpdateKeeps(g, MaybePoll(g), g.list, g.fetch, g.resolve, g.host)
<1>1. g.host \in HostsG
  BY DEF WindowOk
<1>2. RequestOk(Sent(g.host, {}))
  BY <1>1, SentOk
<1>3. UpdateKeeps(g, [g EXCEPT !.poll = Sent(g.host, {}), !.due = FALSE], g.list, g.fetch, g.resolve, g.host)
  BY <1>2, Updates, Zenon
<1>4. UpdateKeeps(g, g, g.list, g.fetch, g.resolve, g.host)
  BY DEF UpdateKeeps
<1> QED BY <1>3, <1>4 DEF MaybePoll

\* drain_conflicts: what was fetched replaces the list.
LEMMA FetchedIs ==
  ASSUME NEW g, WindowOk(g)
  PROVE  LET d == DrainConflicts(g)
         IN  /\ WindowOk(d) /\ d.resolve = g.resolve
             /\ ~(g.fetch.at = "answered" /\ g.fetch.ok) => d.list = g.list
<1>1. PICK d : d = DrainConflicts(g)
  OBVIOUS
<1>2. \/ g.fetch.at = "answered" /\ g.fetch.ok /\ d = [g EXCEPT !.list = g.fetch.items, !.listFailed = FALSE, !.fetch = NoRequest]
      \/ d = [g EXCEPT !.listFailed = TRUE, !.fetch = NoRequest]
      \/ d = g
  BY <1>1 DEF DrainConflicts
<1>3. g.fetch.items \subseteq ConflictsG
  BY DEF WindowOk, RequestOk
<1>4. UpdateKeeps(g, [g EXCEPT !.list = g.fetch.items, !.listFailed = FALSE, !.fetch = NoRequest],
                  g.fetch.items, NoRequest, g.resolve, g.host)
  BY <1>3, NoRequestOk, Updates, Zenon
<1>5. UpdateKeeps(g, [g EXCEPT !.listFailed = TRUE, !.fetch = NoRequest], g.list, NoRequest, g.resolve, g.host)
  BY NoRequestOk, Updates, Zenon
<1>6. /\ WindowOk(d) /\ d.resolve = g.resolve
      /\ ~(g.fetch.at = "answered" /\ g.fetch.ok) => d.list = g.list
  BY <1>2, <1>4, <1>5 DEF UpdateKeeps
<1> QED BY <1>1, <1>6

\* Asking for the list leaves it as it is.
LEMMA RefreshedIs ==
  ASSUME NEW g, WindowOk(g)
  PROVE  LET d == RefreshConflicts(g)
         IN  WindowOk(d) /\ d.list = g.list /\ d.resolve = g.resolve
<1>1. RequestOk(Sent(g.host, {}))
  BY SentOk DEF WindowOk
<1> QED BY <1>1, Updates DEF RefreshConflicts, UpdateKeeps

\* retain takes exactly the resolved conflicts out.
LEMMA RetainIs ==
  ASSUME NEW list \in SUBSET ConflictsG, NEW done \in SUBSET ConflictsG
  PROVE  Retain(list, done) = list \ done
<1>1. \A c, d \in ConflictsG : c = d <=> c[1] = d[1] /\ c[2] = d[2]
  BY DEF ConflictsG
<1> QED BY <1>1 DEF Retain

\* A resolution that succeeded takes its own conflicts out of the list.
LEMMA ResolvedIs ==
  ASSUME NEW g, WindowOk(g)
  PROVE  LET d == DrainResolve(g)
         IN  /\ WindowOk(d)
             /\ d.list = IF Resolved(g) THEN g.list \ g.resolve.items ELSE g.list
<1>1. g.resolve.items \subseteq ConflictsG /\ g.list \subseteq ConflictsG
  BY DEF WindowOk, RequestOk
<1>2. Retain(g.list, g.resolve.items) = g.list \ g.resolve.items
  BY <1>1, RetainIs
<1>3. CASE Resolved(g)
  <2>1. PICK e : e = [g EXCEPT !.list = g.list \ g.resolve.items, !.listFailed = FALSE, !.resolve = NoRequest]
    OBVIOUS
  <2>2. WindowOk(e) /\ e.list = g.list \ g.resolve.items
    <3>1. (g.list \ g.resolve.items) \subseteq ConflictsG
      BY <1>1
    <3>2. UpdateKeeps(g, [g EXCEPT !.list = g.list \ g.resolve.items, !.listFailed = FALSE, !.resolve = NoRequest],
                      g.list \ g.resolve.items, g.fetch, NoRequest, g.host)
      BY <3>1, NoRequestOk, Updates, Zenon
    <3> QED BY <2>1, <3>2 DEF UpdateKeeps
  <2>3. DrainResolve(g) = RefreshConflicts(e)
    <3>1. e = [g EXCEPT !.list = Retain(g.list, g.resolve.items), !.listFailed = FALSE, !.resolve = NoRequest]
      BY <1>2, <2>1
    <3> QED BY <1>3, <3>1 DEF DrainResolve, Resolved
  <2> QED BY <1>3, <2>2, <2>3, RefreshedIs
<1>4. CASE ~Resolved(g)
  <2>1. PICK d : d = DrainResolve(g)
    OBVIOUS
  <2>2. d = [g EXCEPT !.listFailed = TRUE, !.resolve = NoRequest] \/ d = g
    BY <1>4, <2>1 DEF DrainResolve
  <2>3. WindowOk(d) /\ d.list = g.list
    <3>1. UpdateKeeps(g, [g EXCEPT !.listFailed = TRUE, !.resolve = NoRequest], g.list, g.fetch, NoRequest, g.host)
      BY NoRequestOk, Updates, Zenon
    <3> QED BY <2>2, <3>1 DEF UpdateKeeps
  <2> QED BY <1>4, <2>1, <2>3
<1> QED BY <1>3, <1>4

\* The drained window: the list is the fetched one or the old one, less what was
\* resolved.
LEMMA DrainedIs ==
  ASSUME WindowOk(gui)
  PROVE  /\ WindowOk(Drained)
         /\ Resolved(gui) => Drained.list \cap gui.resolve.items = {}
         /\ ~Fetched => Drained.list = IF Resolved(gui) THEN gui.list \ gui.resolve.items ELSE gui.list
<1>1. PICK a : a = DrainPending(gui)
  OBVIOUS
<1>2. WindowOk(a) /\ a.list = gui.list /\ a.fetch = gui.fetch /\ a.resolve = gui.resolve
  BY <1>1, PendingIs
<1>3. PICK b : b = MaybePoll(a)
  OBVIOUS
<1>4. WindowOk(b) /\ b.list = gui.list /\ b.fetch = gui.fetch /\ b.resolve = gui.resolve
  BY <1>2, <1>3, PolledIs DEF UpdateKeeps
<1>5. PICK c : c = DrainConflicts(b)
  OBVIOUS
<1>6. WindowOk(c) /\ c.resolve = gui.resolve /\ (~Fetched => c.list = gui.list)
  BY <1>4, <1>5, FetchedIs DEF Fetched
<1>7. Drained = DrainResolve(c)
  BY <1>1, <1>3, <1>5 DEF Drained
<1>8. Resolved(c) <=> Resolved(gui)
  BY <1>6 DEF Resolved
<1>9. WindowOk(Drained) /\ Drained.list = IF Resolved(gui) THEN c.list \ gui.resolve.items ELSE c.list
  BY <1>6, <1>7, <1>8, ResolvedIs
<1> QED BY <1>6, <1>9

\* A frame that ends with the drained list.
LEMMA FrameKeeps ==
  ASSUME GuiInv, NEW g, Frame(g), WindowOk(g), g.list = Drained.list
  PROVE  GuiInv' /\ OthersStayListed
<1>1. gui' = g /\ goneG' = GoneNow /\ UNCHANGED daemonsG
  BY DEF Frame
<1>2. goneG \cap gui.list = {}
  BY DEF GuiInv, ResolvedNotOffered
<1>3. /\ Resolved(gui) => Drained.list \cap gui.resolve.items = {}
      /\ ~Fetched => Drained.list = IF Resolved(gui) THEN gui.list \ gui.resolve.items ELSE gui.list
  BY DrainedIs DEF GuiInv
<1>4. GoneNow \cap Drained.list = {}
  BY <1>2, <1>3 DEF GoneNow
<1>5. ResolvedNotOffered'
  BY <1>1, <1>4 DEF ResolvedNotOffered
<1>6. OthersStayListed
  BY <1>1, <1>3 DEF OthersStayListed
<1>7. WindowOk(gui)'
  BY <1>1 DEF WindowOk, RequestOk
<1> QED BY <1>1, <1>5, <1>6, <1>7 DEF GuiInv

\* A step that leaves the list and what is known of it alone.
LEMMA ListStays ==
  ASSUME GuiInv, WindowOk(gui)', gui'.list = gui.list, UNCHANGED goneG,
         daemonsG' \in [HostsG -> SUBSET ConflictsG]
  PROVE  GuiInv' /\ OthersStayListed
  BY DEF GuiInv, ResolvedNotOffered, OthersStayListed

\* What the user does, after the answers were taken in.
LEMMA ClicksKeep ==
  ASSUME GuiInv, Repaint \/ ToggleSettings \/ SaveSettings \/ ToggleConflicts \/ StartResolve
  PROVE  GuiInv' /\ OthersStayListed
<1>1. PICK g : g = Drained
  OBVIOUS
<1>2. WindowOk(g)
  BY <1>1, DrainedIs DEF GuiInv
<1>3. ASSUME NEW d, UpdateKeeps(g, d, g.list, d.fetch, d.resolve, d.host), Frame(d)
      PROVE  GuiInv' /\ OthersStayListed
  BY <1>1, <1>3, FrameKeeps DEF UpdateKeeps
<1>4. CASE Repaint
  BY <1>1, <1>2, <1>3, <1>4 DEF Repaint, UpdateKeeps
<1>5. CASE ToggleSettings
  <2>1. PICK d : d = [g EXCEPT !.settings = ~g.settings]
    OBVIOUS
  <2>2. UpdateKeeps(g, [g EXCEPT !.settings = ~g.settings], g.list, g.fetch, g.resolve, g.host)
    BY <1>2, Updates, Zenon
  <2>3. Frame(d)
    BY <1>1, <1>5, <2>1 DEF ToggleSettings
  <2> QED BY <1>3, <2>1, <2>2, <2>3 DEF UpdateKeeps
<1>6. CASE SaveSettings
  <2>1. PICK h \in HostsG : Frame([g EXCEPT !.host = h, !.settings = FALSE, !.due = TRUE])
    BY <1>1, <1>6 DEF SaveSettings
  <2>2. UpdateKeeps(g, [g EXCEPT !.host = h, !.settings = FALSE, !.due = TRUE], g.list, g.fetch, g.resolve, h)
    BY <1>2, Updates, Zenon
  <2>3. PICK d : d = [g EXCEPT !.host = h, !.settings = FALSE, !.due = TRUE]
    OBVIOUS
  <2> QED BY <1>3, <2>1, <2>2, <2>3 DEF UpdateKeeps
<1>7. CASE ToggleConflicts
  <2>1. PICK e : e = [g EXCEPT !.panel = FALSE]
    OBVIOUS
  <2>2. PICK f : f = [g EXCEPT !.panel = TRUE]
    OBVIOUS
  <2>3. UpdateKeeps(g, [g EXCEPT !.panel = FALSE], g.list, g.fetch, g.resolve, g.host)
    BY <1>2, Updates, Zenon
  <2>4. UpdateKeeps(g, [g EXCEPT !.panel = TRUE], g.list, g.fetch, g.resolve, g.host)
    BY <1>2, Updates, Zenon
  <2>5. PICK k : k = RefreshConflicts(f)
    OBVIOUS
  <2>6. WindowOk(k) /\ k.list = g.list
    BY <2>2, <2>4, <2>5, RefreshedIs DEF UpdateKeeps
  <2>7. Frame(e) \/ Frame(k)
    BY <1>1, <1>7, <2>1, <2>2, <2>5 DEF ToggleConflicts
  <2> QED BY <1>3, <2>1, <2>3, <2>6, <2>7 DEF UpdateKeeps
<1>8. CASE StartResolve
  <2>1. PICK c \in g.list : Frame([g EXCEPT !.resolve = Sent(g.host, {c})])
    BY <1>1, <1>8 DEF StartResolve
  <2>2. RequestOk(Sent(g.host, {c}))
    BY <1>2, SentOk DEF WindowOk
  <2>3. UpdateKeeps(g, [g EXCEPT !.resolve = Sent(g.host, {c})], g.list, g.fetch, Sent(g.host, {c}), g.host)
    BY <1>2, <2>2, Updates, Zenon
  <2>4. PICK d : d = [g EXCEPT !.resolve = Sent(g.host, {c})]
    OBVIOUS
  <2> QED BY <1>3, <2>1, <2>3, <2>4 DEF UpdateKeeps
<1> QED BY <1>4, <1>5, <1>6, <1>7, <1>8

\* A request that is answered, in each of its forms.
LEMMA RequestUpdates ==
  ASSUME NEW r, RequestOk(r), r.at # "none", NEW x, NEW y, NEW z \in SUBSET ConflictsG, NEW d,
         \/ d = [r EXCEPT !.at = x, !.ok = y, !.items = z]
         \/ d = [r EXCEPT !.at = x, !.ok = y]
         \/ d = [r EXCEPT !.at = x, !.items = z]
         \/ d = [r EXCEPT !.at = x]
  PROVE  RequestOk(d)
<1>1. PICK a, h, k, i : r = [at |-> a, host |-> h, ok |-> k, items |-> i]
  BY DEF RequestOk
<1>2. r.host = h /\ r.items = i /\ h \in HostsG /\ i \in SUBSET ConflictsG
  BY <1>1 DEF RequestOk
<1>3. ASSUME d = [r EXCEPT !.at = x, !.ok = y, !.items = z] PROVE RequestOk(d)
  <2>1. d = [at |-> x, host |-> h, ok |-> y, items |-> z]
    BY <1>1, <1>3
  <2> QED BY <1>2, <2>1, RequestIs
<1>4. ASSUME d = [r EXCEPT !.at = x, !.ok = y] PROVE RequestOk(d)
  <2>1. d = [at |-> x, host |-> h, ok |-> y, items |-> i]
    BY <1>1, <1>4
  <2> QED BY <1>2, <2>1, RequestIs
<1>5. ASSUME d = [r EXCEPT !.at = x, !.items = z] PROVE RequestOk(d)
  <2>1. d = [at |-> x, host |-> h, ok |-> k, items |-> z]
    BY <1>1, <1>5
  <2> QED BY <1>2, <2>1, RequestIs
<1>6. ASSUME d = [r EXCEPT !.at = x] PROVE RequestOk(d)
  <2>1. d = [at |-> x, host |-> h, ok |-> k, items |-> i]
    BY <1>1, <1>6
  <2> QED BY <1>2, <2>1, RequestIs
<1> QED BY <1>3, <1>4, <1>5, <1>6

\* A request that ends is still a request of the same daemon.
LEMMA EndedOk ==
  ASSUME NEW r, RequestOk(r), r.at # "none", NEW x, NEW ok, NEW items \in SUBSET ConflictsG
  PROVE  /\ RequestOk([r EXCEPT !.at = x, !.ok = ok, !.items = items])
         /\ RequestOk([r EXCEPT !.at = x, !.ok = ok])
         /\ RequestOk([r EXCEPT !.at = x, !.items = items])
         /\ RequestOk([r EXCEPT !.at = x])
  BY RequestUpdates, Zenon

\* A change of the status request alone.
LEMMA PollSetIs ==
  ASSUME NEW g, WindowOk(g), NEW r, RequestOk(r), NEW d, d = [g EXCEPT !.poll = r]
  PROVE  WindowOk(d) /\ d.list = g.list
<1>1. d = [g EXCEPT !.poll = r, !.due = g.due]
  BY DEF WindowOk
<1>2. UpdateKeeps(g, [g EXCEPT !.poll = r, !.due = g.due], g.list, g.fetch, g.resolve, g.host)
  BY Updates, Zenon
<1> QED BY <1>1, <1>2 DEF UpdateKeeps

\* Answers arrive, in any order.
LEMMA AnswersKeep ==
  ASSUME GuiInv, StatusAnswered \/ FetchServed \/ FetchAnswered \/ ResolveAnswered
  PROVE  GuiInv' /\ OthersStayListed
<1> USE DEF GuiInv
<1>1. /\ RequestOk(gui.poll) /\ RequestOk(gui.fetch) /\ RequestOk(gui.resolve)
      /\ WindowOk(gui) /\ daemonsG \in [HostsG -> SUBSET ConflictsG]
  BY DEF WindowOk
<1>2. ASSUME NEW r, RequestOk(r), gui' = [gui EXCEPT !.fetch = r] PROVE WindowOk(gui') /\ gui'.list = gui.list
  <2>1. UpdateKeeps(gui, [gui EXCEPT !.fetch = r], gui.list, r, gui.resolve, gui.host)
    BY <1>1, <1>2, Updates, Zenon
  <2> QED BY <1>2, <2>1 DEF UpdateKeeps
<1>3. ASSUME NEW r, RequestOk(r), gui' = [gui EXCEPT !.resolve = r] PROVE WindowOk(gui') /\ gui'.list = gui.list
  <2>1. UpdateKeeps(gui, [gui EXCEPT !.resolve = r], gui.list, gui.fetch, r, gui.host)
    BY <1>1, <1>3, Updates, Zenon
  <2> QED BY <1>3, <2>1 DEF UpdateKeeps
<1>4. ASSUME NEW r, RequestOk(r), gui' = [gui EXCEPT !.poll = r] PROVE WindowOk(gui') /\ gui'.list = gui.list
  BY <1>1, <1>4, PollSetIs
<1>5. WindowOk(gui)' <=> WindowOk(gui')
  BY DEF WindowOk, RequestOk
<1>6. CASE StatusAnswered
  <2>1. PICK ok \in BOOLEAN : EndRequest("poll", ok, {})
    BY <1>6 DEF StatusAnswered
  <2>2. gui.poll.at = "sent" /\ UNCHANGED <<goneG, daemonsG>>
    BY <1>6, <2>1 DEF StatusAnswered, EndRequest
  <2>3. \/ gui' = [gui EXCEPT !.poll = [gui.poll EXCEPT !.at = "answered", !.ok = ok, !.items = {}]]
        \/ gui' = [gui EXCEPT !.poll = [gui.poll EXCEPT !.at = "dropped"]]
    BY <1>1, <2>1 DEF EndRequest, WindowOk
  <2>4. /\ RequestOk([gui.poll EXCEPT !.at = "answered", !.ok = ok, !.items = {}])
        /\ RequestOk([gui.poll EXCEPT !.at = "dropped"])
    <3>1. gui.poll.at # "none" /\ {} \in SUBSET ConflictsG
      BY <2>2
    <3> QED BY <1>1, <3>1, EndedOk, Zenon
  <2>5. WindowOk(gui') /\ gui'.list = gui.list
    BY <1>4, <2>3, <2>4, Zenon
  <2> QED BY <1>1, <1>5, <2>2, <2>5, ListStays
<1>7. CASE FetchServed
  <2>1. /\ gui.fetch.at = "sent" /\ UNCHANGED <<goneG, daemonsG>>
        /\ gui' = [gui EXCEPT !.fetch = [gui.fetch EXCEPT !.at = "served", !.items = daemonsG[gui.fetch.host]]]
    BY <1>1, <1>7 DEF FetchServed, WindowOk
  <2>2. daemonsG[gui.fetch.host] \subseteq ConflictsG
    BY <1>1, <2>1 DEF RequestOk
  <2>3. RequestOk([gui.fetch EXCEPT !.at = "served", !.items = daemonsG[gui.fetch.host]])
    <3>1. gui.fetch.at # "none" /\ daemonsG[gui.fetch.host] \in SUBSET ConflictsG
      BY <2>1, <2>2
    <3> QED BY <1>1, <3>1, EndedOk, Zenon
  <2>4. WindowOk(gui') /\ gui'.list = gui.list
    BY <1>2, <2>1, <2>3, Zenon
  <2> QED BY <1>1, <1>5, <2>1, <2>4, ListStays
<1>8. CASE FetchAnswered
  <2>1. gui.fetch.at # "none" /\ UNCHANGED <<goneG, daemonsG>>
    BY <1>8 DEF FetchAnswered, EndRequest
  <2>2. \/ gui' = [gui EXCEPT !.fetch = [gui.fetch EXCEPT !.at = "answered", !.ok = TRUE]]
        \/ gui' = [gui EXCEPT !.fetch = [gui.fetch EXCEPT !.at = "answered", !.ok = FALSE, !.items = {}]]
        \/ gui' = [gui EXCEPT !.fetch = [gui.fetch EXCEPT !.at = "dropped"]]
    BY <1>1, <1>8 DEF FetchAnswered, EndRequest, WindowOk
  <2>3. /\ RequestOk([gui.fetch EXCEPT !.at = "answered", !.ok = TRUE])
        /\ RequestOk([gui.fetch EXCEPT !.at = "answered", !.ok = FALSE, !.items = {}])
        /\ RequestOk([gui.fetch EXCEPT !.at = "dropped"])
    <3>1. {} \in SUBSET ConflictsG
      OBVIOUS
    <3> QED BY <1>1, <2>1, <3>1, EndedOk, Zenon
  <2>4. WindowOk(gui') /\ gui'.list = gui.list
    BY <1>2, <2>2, <2>3, Zenon
  <2> QED BY <1>1, <1>5, <2>1, <2>4, ListStays
<1>9. CASE ResolveAnswered
  <2>1. PICK h, q : h = gui.resolve.host /\ q = gui.resolve.items
    OBVIOUS
  <2>2. gui.resolve.at = "sent" /\ h \in HostsG /\ q \in SUBSET ConflictsG
    BY <1>1, <1>9, <2>1 DEF ResolveAnswered, RequestOk
  <2>3. daemonsG' = daemonsG \/ daemonsG' = [daemonsG EXCEPT ![h] = daemonsG[h] \ q]
    BY <1>9, <2>1 DEF ResolveAnswered
  <2>4. daemonsG' \in [HostsG -> SUBSET ConflictsG]
    BY <1>1, <2>2, <2>3
  <2>5. \E ok \in BOOLEAN : EndRequest("resolve", ok, q)
    BY <1>9, <2>1 DEF ResolveAnswered
  <2>6. PICK ok \in BOOLEAN : EndRequest("resolve", ok, q)
    BY <2>5
  <2>7. UNCHANGED goneG
    BY <2>6 DEF EndRequest
  <2>8. \/ gui' = [gui EXCEPT !.resolve = [gui.resolve EXCEPT !.at = "answered", !.ok = ok, !.items = q]]
        \/ gui' = [gui EXCEPT !.resolve = [gui.resolve EXCEPT !.at = "dropped"]]
    BY <1>1, <2>6 DEF EndRequest, WindowOk
  <2>9. /\ RequestOk([gui.resolve EXCEPT !.at = "answered", !.ok = ok, !.items = q])
        /\ RequestOk([gui.resolve EXCEPT !.at = "dropped"])
    <3>1. gui.resolve.at # "none"
      BY <2>2
    <3> QED BY <1>1, <2>2, <3>1, EndedOk, Zenon
  <2>10. WindowOk(gui') /\ gui'.list = gui.list
    BY <1>3, <2>8, <2>9, Zenon
  <2> QED BY <1>1, <1>5, <2>4, <2>7, <2>10, ListStays
<1> QED BY <1>6, <1>7, <1>8, <1>9

\* Every step of the window keeps its invariant.
LEMMA GuiKeeps ==
  ASSUME GuiInv, [GuiNext]_guiVars
  PROVE  GuiInv' /\ OthersStayListed
<1>1. CASE UNCHANGED guiVars
  <2>1. WindowOk(gui)'
    BY <1>1 DEF guiVars, GuiInv, WindowOk, RequestOk
  <2> QED BY <1>1, <2>1, ListStays DEF guiVars, GuiInv
<1>2. CASE PollDue
  <2>1. gui' = [gui EXCEPT !.due = TRUE] /\ UNCHANGED <<daemonsG, goneG>>
    BY <1>2 DEF PollDue
  <2>2. UpdateKeeps(gui, [gui EXCEPT !.due = TRUE], gui.list, gui.fetch, gui.resolve, gui.host)
    <3>1. WindowOk(gui)
      BY DEF GuiInv
    <3> QED BY <3>1, Updates, Zenon
  <2>3. WindowOk(gui') /\ gui'.list = gui.list
    BY <2>1, <2>2 DEF UpdateKeeps
  <2>4. WindowOk(gui)'
    BY <2>3 DEF WindowOk, RequestOk
  <2> QED BY <2>1, <2>3, <2>4, ListStays DEF GuiInv
<1> QED BY <1>1, <1>2, ClicksKeep, AnswersKeep DEF GuiNext

\* The window starts with an empty list.
LEMMA GuiStart == GuiInit => GuiInv
<1> SUFFICES ASSUME GuiInit PROVE GuiInv
  OBVIOUS
<1>1. PICK h : h = CHOOSE x \in HostsG : TRUE
  OBVIOUS
<1>2. h \in HostsG
  BY <1>1, GuiAssumption
<1>3. gui = [host |-> h, status |-> NoneG, failed |-> FALSE, due |-> TRUE, poll |-> NoRequest,
             settings |-> FALSE, panel |-> FALSE, list |-> {}, listFailed |-> FALSE,
             fetch |-> NoRequest, resolve |-> NoRequest]
  BY <1>1 DEF GuiInit
<1>4. WindowOk(gui) /\ gui.list = {}
  BY <1>2, <1>3, WindowIs, NoRequestOk
<1> QED BY <1>4 DEF GuiInit, GuiInv, ResolvedNotOffered

-----------------------------------------------------------------------------
(* Commands *)

StepsC == [peer : {"control", "daemon", "toml"}, method : {"GET", "POST", "context", "edit"}]
PhasesC == {"new", "ready", "served", "edit", "check", "ok", "failed", "killed"}

CliTypes ==
  /\ script \in [Procs -> Seq(StepsC)] /\ pos \in [Procs -> Nat \ {0}]
  /\ phaseC \in [Procs -> PhasesC] /\ replyC \in [Procs -> BOOLEAN]
  /\ ranC = [p \in Procs |-> ranC[p]] /\ wantC \in [Procs -> WantsC]
  /\ copyC \in [Procs -> TextsC \cup {NoText}] /\ alone \in [Procs -> BOOLEAN]
  /\ toml \in TextsC \cup {NoText} /\ context \in WantsC /\ upC \subseteq {"control", "daemon"}

\* The steps in front of k were carried out once, the others never.
Ran(p, k) == ranC[p] = [i \in 1..Len(script[p]) |-> IF i < k THEN 1 ELSE 0]

\* How far a command is, by its phase.
Progress(p) ==
  /\ phaseC[p] = "new" => pos[p] = 1
  /\ phaseC[p] \in {"ready", "served", "edit", "check"} => pos[p] <= Len(script[p])
  /\ phaseC[p] \in {"edit", "check"} => StepOf(p).peer = "toml" /\ copyC[p] # NoText
  /\ phaseC[p] = "served" => StepOf(p).peer # "toml"
  /\ phaseC[p] \in {"ready", "edit", "check"} => Ran(p, pos[p])
  /\ phaseC[p] = "served" => Ran(p, IF replyC[p] THEN pos[p] + 1 ELSE pos[p])
  /\ phaseC[p] = "ok" => Ran(p, Len(script[p]) + 1)
  /\ phaseC[p] \in {"new", "failed", "killed"} => \E k \in Nat : Ran(p, k)

\* The step of a switch or a sync that edits disk.toml.
EditAt(p) == IF script[p] = RunOrgSwitch THEN 3 ELSE 2

\* Where the tenant of a switch or a sync has arrived.
ArrivedIn(p) ==
  /\ pos[p] >= EditAt(p) \/ (pos[p] = EditAt(p) - 1 /\ phaseC[p] = "served" /\ replyC[p]) =>
       context = wantC[p]
  /\ pos[p] > EditAt(p) \/ (pos[p] = EditAt(p) /\ phaseC[p] = "check" /\ replyC[p]) =>
       toml # NoText /\ toml.tenant = wantC[p]

\* A command nothing overlapped is the only one running.
AloneOk(p) ==
  alone[p] /\ p \in Running =>
    /\ \A q \in Running : q = p
    /\ script[p] \in {RunOrgSwitch, RunOrgSync} => ArrivedIn(p)

\* A text that does not parse has somebody who will put the old one back, or had one.
TextInv ==
  toml = NoText =>
    \E q \in Procs : phaseC[q] = "killed" \/ (phaseC[q] = "check" /\ ~replyC[q])

CliInv ==
  /\ CliTypes /\ TextInv
  /\ \A p \in Procs : Progress(p) /\ AloneOk(p)

\* The invariant gives what is said of steps and of disk.toml.
LEMMA RanOnce ==
  ASSUME CliInv
  PROVE  StepsOnce /\ TomlParses
<1>1. ASSUME NEW p \in Procs PROVE \E k \in Nat : Ran(p, k) /\ (phaseC[p] = "ok" => k = Len(script[p]) + 1)
  <2>1. Progress(p) /\ phaseC[p] \in PhasesC /\ pos[p] \in Nat
    BY DEF CliInv, CliTypes
  <2>2. Len(script[p]) \in Nat
    <3>1. script[p] \in Seq(StepsC)
      BY DEF CliInv, CliTypes
    <3> QED BY <3>1
  <2> QED BY <2>1, <2>2 DEF Progress, PhasesC
<1>2. ASSUME NEW p \in Procs, NEW k \in Nat, Ran(p, k), phaseC[p] = "ok" => k = Len(script[p]) + 1
      PROVE  /\ \A i \in DOMAIN ranC[p] : ranC[p][i] <= 1
             /\ \A i, j \in DOMAIN ranC[p] : i < j => ranC[p][j] <= ranC[p][i]
             /\ phaseC[p] = "ok" => \A i \in DOMAIN ranC[p] : ranC[p][i] = 1
  <2>1. PICK n \in Nat : n = Len(script[p])
    <3>1. script[p] \in Seq(StepsC)
      BY DEF CliInv, CliTypes
    <3> QED BY <3>1
  <2>2. DOMAIN ranC[p] = 1..n /\ \A i \in 1..n : ranC[p][i] = IF i < k THEN 1 ELSE 0
    BY <1>2, <2>1 DEF Ran
  <2> QED BY <1>2, <2>1, <2>2
<1>3. StepsOnce
  BY <1>1, <1>2 DEF StepsOnce
<1>4. TomlParses
  BY DEF CliInv, TextInv, TomlParses
<1> QED BY <1>3, <1>4

-----------------------------------------------------------------------------
NonEmptyC(c) == c \in Seq(StepsC) /\ Len(c) >= 1

\* Two sequences of steps after each other.
LEMMA JoinedOk ==
  ASSUME NEW c, NEW d, NonEmptyC(c), NonEmptyC(d)
  PROVE  NonEmptyC(c \o d)
  BY DEF NonEmptyC

\* The commands of one step.
LEMMA OneStep ==
  /\ NonEmptyC(Api("GET")) /\ NonEmptyC(Api("POST")) /\ NonEmptyC(Api("context"))
  /\ NonEmptyC(Daemon("GET")) /\ NonEmptyC(Daemon("POST")) /\ NonEmptyC(EditToml)
<1>1. \A s \in StepsC : NonEmptyC(<<s>>)
  BY DEF NonEmptyC
<1>2. \A x \in {"control", "daemon", "toml"}, m \in {"GET", "POST", "context", "edit"} : Ask(x, m) \in StepsC
  BY DEF Ask, StepsC
<1> QED BY <1>1, <1>2 DEF Api, Daemon, EditToml

\* Every command has at least one step.
LEMMA CommandsOk ==
  ASSUME NEW c \in Commands
  PROVE  NonEmptyC(c)
<1>1. NonEmptyC(ApplyLocalTenantSync)
  BY OneStep, JoinedOk DEF ApplyLocalTenantSync
<1>2. NonEmptyC(RunOrgSwitch) /\ NonEmptyC(RunOrgSync)
  <2>1. NonEmptyC(Api("GET") \o Api("context"))
    BY OneStep, JoinedOk
  <2> QED BY <1>1, <2>1, OneStep, JoinedOk DEF RunOrgSwitch, RunOrgSync, ResolveOrgId
<1>3. NonEmptyC(RunOrgMembers) /\ NonEmptyC(RunOrgMembersAdd)
  BY OneStep, JoinedOk DEF RunOrgMembers, RunOrgMembersAdd, ResolveOrgId
<1>4. \A d \in RunConflictsResolve : NonEmptyC(d)
  <2>1. NonEmptyC(Daemon("GET") \o Daemon("POST"))
    BY OneStep, JoinedOk
  <2> QED BY <2>1, OneStep, JoinedOk DEF RunConflictsResolve, ResolveOne
<1>5. \A d \in LocalCommands : NonEmptyC(d)
  BY <1>4, OneStep DEF LocalCommands, RunStatus, RunConfigReload, RunLanPeers, RunConflictsList,
     RunConflictsShow, RunShareInit
<1>6. \A d \in HistoryCommands : NonEmptyC(d)
  BY OneStep DEF HistoryCommands, RunTrashList, RunTrashRestore, RunTrashDelete, RunTrashEmpty,
     RunVersionsList, RunVersionsRestore, RunSnapshotsCreate, RunSnapshotsList, RunSnapshotsShow,
     RunSnapshotsRestore
<1>7. \A d \in TeamCommands : NonEmptyC(d)
  BY <1>2, <1>3, OneStep DEF TeamCommands, RunInviteCreate, RunInviteList, RunInviteAccept,
     RunSharingMembers, RunMemberRemove, RunSelectiveList, RunSelectiveSet, RunWebhooksList,
     RunWebhooksRegister, RunWebhooksDelete, RunRevision, RunWrite, RunOrgList, RunOrgCreate,
     RunOrgContext
<1> QED BY <1>5, <1>6, <1>7 DEF Commands

\* The two commands that move the tenant, step by step.
LEMMA TenantCommands ==
  /\ Len(RunOrgSwitch) = 4 /\ RunOrgSwitch[1] = Ask("control", "GET")
  /\ RunOrgSwitch[2] = Ask("control", "context")
  /\ RunOrgSwitch[3] = Ask("toml", "edit") /\ RunOrgSwitch[4] = Ask("daemon", "POST")
  /\ Len(RunOrgSync) = 3 /\ RunOrgSync[1] = Ask("control", "GET")
  /\ RunOrgSync[2] = Ask("toml", "edit") /\ RunOrgSync[3] = Ask("daemon", "POST")
  /\ Len(RunShareInit) = 1
<1>1. PICK a, b, c, d : /\ a = Ask("control", "GET") /\ b = Ask("control", "context")
                        /\ c = Ask("toml", "edit") /\ d = Ask("daemon", "POST")
  OBVIOUS
<1>2. PICK w : w = (<<a>> \o <<b>>) \o (<<c>> \o <<d>>)
  OBVIOUS
<1>3. Len(w) = 4 /\ w[1] = a /\ w[2] = b
  <2>1. Len((<<a>> \o <<b>>) \o (<<c>> \o <<d>>)) = 4
    OBVIOUS
  <2>2. ((<<a>> \o <<b>>) \o (<<c>> \o <<d>>))[1] = a
    OBVIOUS
  <2>3. ((<<a>> \o <<b>>) \o (<<c>> \o <<d>>))[2] = b
    OBVIOUS
  <2> QED BY <1>2, <2>1, <2>2, <2>3
<1>4. w[3] = c /\ w[4] = d
  BY <1>2
<1>5. PICK z : z = <<a>> \o (<<c>> \o <<d>>)
  OBVIOUS
<1>6. Len(z) = 3 /\ z[1] = a /\ z[2] = c /\ z[3] = d
  BY <1>5
<1>7. RunOrgSwitch = w /\ RunOrgSync = z
  BY <1>1, <1>2, <1>5 DEF RunOrgSwitch, RunOrgSync, ResolveOrgId, ApplyLocalTenantSync, Api, Daemon, EditToml
<1>8. Len(RunShareInit) = 1
  BY DEF RunShareInit, EditToml
<1> QED BY <1>1, <1>3, <1>4, <1>6, <1>7, <1>8

\* The fields of a step.
LEMMA AskIs ==
  ASSUME NEW x, NEW m
  PROVE  Ask(x, m).peer = x /\ Ask(x, m).method = m
  BY DEF Ask

\* Where a switch or a sync edits disk.toml and where it sets the context.
LEMMA TenantSteps ==
  ASSUME NEW p \in Procs, script[p] \in {RunOrgSwitch, RunOrgSync}
  PROVE  /\ Len(script[p]) = EditAt(p) + 1 /\ EditAt(p) \in {2, 3} /\ script[p] # RunShareInit
         /\ \A i \in 1..Len(script[p]) : script[p][i].peer = "toml" <=> i = EditAt(p)
         /\ \A i \in 1..Len(script[p]) :
              script[p][i].method = "context" <=> script[p] = RunOrgSwitch /\ i = EditAt(p) - 1
<1>1. CASE script[p] = RunOrgSwitch
  <2>1. EditAt(p) = 3 /\ Len(script[p]) = 4
    BY <1>1, TenantCommands DEF EditAt
  <2>2. \A i \in 1..4 : i = 1 \/ i = 2 \/ i = 3 \/ i = 4
    OBVIOUS
  <2> QED BY <1>1, <2>1, <2>2, TenantCommands, AskIs
<1>2. CASE script[p] = RunOrgSync
  <2>1. script[p] # RunOrgSwitch /\ EditAt(p) = 2 /\ Len(script[p]) = 3
    BY <1>2, TenantCommands DEF EditAt
  <2>2. \A i \in 1..3 : i = 1 \/ i = 2 \/ i = 3
    OBVIOUS
  <2> QED BY <1>2, <2>1, <2>2, TenantCommands, AskIs
<1> QED BY <1>1, <1>2

-----------------------------------------------------------------------------
\* What a step of one command leaves alone.
Aside(p) ==
  /\ alone' = alone /\ script' = script
  /\ \A q \in Procs : q # p =>
       /\ pos'[q] = pos[q] /\ phaseC'[q] = phaseC[q] /\ replyC'[q] = replyC[q]
       /\ ranC'[q] = ranC[q] /\ copyC'[q] = copyC[q]

\* A command whose own state is as it was.
LEMMA ProgressKeeps ==
  ASSUME NEW q \in Procs, Progress(q), script'[q] = script[q], pos'[q] = pos[q],
         phaseC'[q] = phaseC[q], replyC'[q] = replyC[q], ranC'[q] = ranC[q], copyC'[q] = copyC[q]
  PROVE  Progress(q)'
<1>1. /\ phaseC[q] \in {"ready", "edit", "check"} => Ran(q, pos[q])'
      /\ phaseC[q] = "served" => Ran(q, IF replyC[q] THEN pos[q] + 1 ELSE pos[q])'
      /\ phaseC[q] = "ok" => Ran(q, Len(script[q]) + 1)'
      /\ phaseC[q] \in {"new", "failed", "killed"} => \E k \in Nat : Ran(q, k)'
  BY DEF Progress, Ran
<1> QED BY <1>1 DEF Progress, StepOf

\* The other commands are where they were, and none of them is alone.
LEMMA OthersKeep ==
  ASSUME CliInv, NEW p \in Procs, p \in Running, Aside(p)
  PROVE  \A q \in Procs : q # p => Progress(q)' /\ AloneOk(q)'
<1> SUFFICES ASSUME NEW q \in Procs, q # p PROVE Progress(q)' /\ AloneOk(q)'
  OBVIOUS
<1>1. Progress(q) /\ AloneOk(q)
  BY DEF CliInv
<1>2. /\ pos'[q] = pos[q] /\ phaseC'[q] = phaseC[q] /\ replyC'[q] = replyC[q]
      /\ ranC'[q] = ranC[q] /\ copyC'[q] = copyC[q] /\ alone' = alone /\ script' = script
  BY DEF Aside
<1>4. Progress(q)'
  BY <1>1, <1>2, ProgressKeeps
<1>5. ~(alone[q] /\ q \in Running)
  BY <1>1 DEF AloneOk
<1>6. q \in Running' <=> q \in Running
  BY <1>2 DEF Running
<1> QED BY <1>2, <1>4, <1>5, <1>6 DEF AloneOk

\* The invariant, from what a step does for the command that takes it.
LEMMA StepKeeps ==
  ASSUME CliInv, NEW p \in Procs, p \in Running, Aside(p), CliTypes', TextInv', Progress(p)',
         alone[p] /\ p \in Running' /\ script[p] \in {RunOrgSwitch, RunOrgSync} /\ ArrivedIn(p) =>
           ArrivedIn(p)'
  PROVE  CliInv'
<1>1. \A q \in Procs : q # p => Progress(q)' /\ AloneOk(q)'
  BY OthersKeep
<1>2. AloneOk(p)
  BY DEF CliInv
<1>3. ASSUME alone[p], NEW q \in Running' PROVE q = p
  <2>1. q \in Procs /\ (q # p => q \in Running)
    BY DEF Running, Aside
  <2> QED BY <1>2, <1>3, <2>1 DEF AloneOk
<1>4. AloneOk(p)'
  BY <1>2, <1>3 DEF AloneOk, Aside
<1> QED BY <1>1, <1>4 DEF CliInv

\* A text that parses, or that nobody wrote.
LEMMA TextKeeps ==
  ASSUME CliInv, NEW p \in Procs, Aside(p),
         toml' # NoText \/ (toml' = toml /\ phaseC[p] # "check" /\ phaseC[p] # "killed") \/ phaseC'[p] = "killed"
           \/ (toml' = toml /\ phaseC[p] = "check" /\ replyC[p])
  PROVE  TextInv'
<1>1. CASE toml' # NoText
  BY <1>1 DEF TextInv
<1>2. CASE phaseC'[p] = "killed"
  BY <1>2 DEF TextInv
<1>3. CASE toml' = toml /\ toml = NoText /\ ((phaseC[p] # "check" /\ phaseC[p] # "killed") \/ (phaseC[p] = "check" /\ replyC[p]))
  <2>1. PICK q \in Procs : phaseC[q] = "killed" \/ (phaseC[q] = "check" /\ ~replyC[q])
    BY <1>3 DEF CliInv, TextInv
  <2>2. q # p
    BY <1>3, <2>1
  <2> QED BY <2>1, <2>2 DEF TextInv, Aside
<1> QED BY <1>1, <1>2, <1>3

\* How far a command is, in one number.
LEMMA SomeRan ==
  ASSUME CliInv, NEW p \in Procs
  PROVE  \E k \in Nat : Ran(p, k)
<1>1. Progress(p) /\ phaseC[p] \in PhasesC /\ pos[p] \in Nat
  BY DEF CliInv, CliTypes
<1>2. Len(script[p]) \in Nat
  <2>1. script[p] \in Seq(StepsC)
    BY DEF CliInv, CliTypes
  <2> QED BY <2>1
<1> QED BY <1>1, <1>2 DEF Progress, PhasesC

\* One command changes its phase.
LEMMA PhaseIs ==
  ASSUME CliTypes, NEW p \in Procs, NEW f \in PhasesC, PhaseTo(p, f)
  PROVE  /\ phaseC' \in [Procs -> PhasesC] /\ phaseC'[p] = f
         /\ \A q \in Procs : q # p => phaseC'[q] = phaseC[q]
<1>1. phaseC' = [phaseC EXCEPT ![p] = f]
  BY DEF PhaseTo
<1> QED BY <1>1 DEF CliTypes

\* A step at which no command succeeds.
LEMMA NoneDone ==
  ASSUME \A q \in Procs : phaseC'[q] = "ok" => phaseC[q] = "ok"
  PROVE  TenantAligned
  BY DEF TenantAligned

\* A command that fails or is killed.
LEMMA EndKeeps ==
  ASSUME CliInv, NEW p \in Procs, p \in Running, Aside(p), CliTypes', TextInv',
         phaseC'[p] \in {"failed", "killed"}, ranC' = ranC
  PROVE  CliInv' /\ TenantAligned
<1>1. PICK k \in Nat : Ran(p, k)
  BY SomeRan
<1>2. Ran(p, k)'
  BY <1>1 DEF Ran, Aside
<1>3. Progress(p)'
  BY <1>2 DEF Progress
<1>4. p \notin Running'
  BY DEF Running
<1>5. CliInv'
  BY <1>3, <1>4, StepKeeps
<1>6. TenantAligned
  BY NoneDone DEF Aside
<1> QED BY <1>5, <1>6

\* A connection is refused.
LEMMA RefusedKeeps ==
  ASSUME CliInv, NEW p \in Procs, ConnectRefused(p)
  PROVE  CliInv' /\ TenantAligned
<1>1. /\ phaseC[p] = "ready" /\ (UNCHANGED phaseC \/ PhaseTo(p, "failed"))
      /\ UNCHANGED <<script, pos, replyC, ranC, wantC, copyC, alone, toml, context, upC>>
  BY DEF ConnectRefused
<1>2. p \in Running
  BY <1>1 DEF Running
<1>3. CASE UNCHANGED phaseC
  <2>1. CliTypes' /\ Aside(p)
    BY <1>1, <1>3 DEF CliInv, CliTypes, Aside
  <2>2. TextInv'
    BY <1>1, <2>1, TextKeeps
  <2>3. Ran(p, pos[p])'
    <3>1. Ran(p, pos[p])
      BY <1>1 DEF CliInv, Progress
    <3> QED BY <1>1, <3>1 DEF Ran
  <2>4. Progress(p)'
    BY <1>1, <1>3, <2>3 DEF CliInv, Progress, StepOf
  <2>5. ArrivedIn(p) => ArrivedIn(p)'
    BY <1>1, <1>3 DEF ArrivedIn, EditAt
  <2>6. CliInv'
    BY <1>2, <2>1, <2>2, <2>4, <2>5, StepKeeps
  <2> QED BY <1>3, <2>6, NoneDone
<1>4. CASE PhaseTo(p, "failed")
  <2>1. /\ phaseC' \in [Procs -> PhasesC] /\ phaseC'[p] = "failed"
        /\ \A q \in Procs : q # p => phaseC'[q] = phaseC[q]
    BY <1>4, PhaseIs DEF CliInv, PhasesC
  <2>2. CliTypes' /\ Aside(p)
    BY <1>1, <2>1 DEF CliInv, CliTypes, Aside
  <2>3. TextInv'
    BY <1>1, <2>2, TextKeeps
  <2> QED BY <1>1, <1>2, <2>1, <2>2, <2>3, EndKeeps
<1> QED BY <1>1, <1>3, <1>4

\* One more step is carried out.
LEMMA RanNext ==
  ASSUME CliTypes, NEW p \in Procs, pos[p] <= Len(script[p]), Ran(p, pos[p]),
         ranC' = [ranC EXCEPT ![p][pos[p]] = @ + 1], script' = script
  PROVE  /\ ranC' = [q \in Procs |-> ranC'[q]] /\ (\A q \in Procs : q # p => ranC'[q] = ranC[q])
         /\ ranC'[p] = [i \in 1..Len(script[p]) |-> IF i < pos[p] + 1 THEN 1 ELSE 0]
<1>1. PICK n, k, r : n = Len(script[p]) /\ k = pos[p] /\ r = ranC[p]
  OBVIOUS
<1>2. n \in Nat /\ k \in 1..n
  <2>1. script[p] \in Seq(StepsC) /\ pos[p] \in Nat \ {0}
    BY DEF CliTypes
  <2>2. Len(script[p]) \in Nat
    BY <2>1
  <2> QED BY <1>1, <2>1, <2>2
<1>3. r = [i \in 1..n |-> IF i < k THEN 1 ELSE 0]
  BY <1>1 DEF Ran
<1>4. PICK t : t = [r EXCEPT ![k] = 1]
  OBVIOUS
<1>5. r[k] = 0 /\ r[k] + 1 = 1
  BY <1>2, <1>3
<1>6. t = [i \in 1..n |-> IF i < k + 1 THEN 1 ELSE 0]
  <2>1. PICK u : u = [i \in 1..n |-> IF i < k + 1 THEN 1 ELSE 0]
    OBVIOUS
  <2>2. \A i \in 1..n : i < k + 1 <=> i < k \/ i = k
    BY <1>2
  <2>3. \A i \in 1..n : t[i] = IF i < k \/ i = k THEN 1 ELSE 0
    BY <1>3, <1>4
  <2>4. \A i \in 1..n : u[i] = t[i]
    BY <2>1, <2>2, <2>3
  <2>5. t = [i \in 1..n |-> t[i]] /\ u = [i \in 1..n |-> u[i]]
    BY <1>3, <1>4, <2>1
  <2> QED BY <2>1, <2>4, <2>5
<1>7. ranC' = [ranC EXCEPT ![p] = t]
  BY <1>1, <1>4, <1>5
<1>8. ranC'[p] = t /\ ranC' = [q \in Procs |-> ranC'[q]] /\ (\A q \in Procs : q # p => ranC'[q] = ranC[q])
  BY <1>7 DEF CliTypes
<1> QED BY <1>1, <1>6, <1>8

\* A peer carries a request out or refuses it.
LEMMA ServesKeeps ==
  ASSUME CliInv, NEW p \in Procs, NEW acc \in BOOLEAN, PeerServes(p, acc)
  PROVE  CliInv' /\ TenantAligned
<1>1. /\ phaseC[p] = "ready" /\ StepOf(p).peer \in upC /\ PhaseTo(p, "served")
      /\ replyC' = [replyC EXCEPT ![p] = acc]
      /\ ranC' = IF acc THEN [ranC EXCEPT ![p][pos[p]] = @ + 1] ELSE ranC
      /\ context' = IF acc /\ StepOf(p).method = "context" THEN wantC[p] ELSE context
      /\ wantC' = IF acc /\ script[p] = RunOrgSync /\ pos[p] = 1
                  THEN [wantC EXCEPT ![p] = context] ELSE wantC
      /\ UNCHANGED <<script, pos, copyC, alone, toml, upC>>
  BY DEF PeerServes
<1>2. p \in Running /\ CliTypes /\ Progress(p)
  BY <1>1 DEF Running, CliInv
<1>3. pos[p] <= Len(script[p]) /\ Ran(p, pos[p]) /\ StepOf(p).peer # "toml"
  BY <1>1, <1>2 DEF Progress, CliTypes
<1>4. /\ phaseC' \in [Procs -> PhasesC] /\ phaseC'[p] = "served"
      /\ \A q \in Procs : q # p => phaseC'[q] = phaseC[q]
  BY <1>1, <1>2, PhaseIs DEF PhasesC
<1>5. /\ replyC' \in [Procs -> BOOLEAN] /\ replyC'[p] = acc
      /\ \A q \in Procs : q # p => replyC'[q] = replyC[q]
  BY <1>1, <1>2 DEF CliTypes
<1>6. /\ ranC' = [q \in Procs |-> ranC'[q]] /\ (\A q \in Procs : q # p => ranC'[q] = ranC[q])
      /\ Ran(p, IF acc THEN pos[p] + 1 ELSE pos[p])'
  <2>1. CASE acc
    BY <1>1, <1>2, <1>3, <2>1, RanNext DEF Ran
  <2>2. CASE ~acc
    BY <1>1, <1>2, <1>3, <2>2 DEF Ran, CliTypes
  <2> QED BY <2>1, <2>2
<1>7. wantC' \in [Procs -> WantsC] /\ context' \in WantsC
  BY <1>1, <1>2 DEF CliTypes
<1>8. CliTypes' /\ Aside(p)
  BY <1>1, <1>2, <1>4, <1>5, <1>6, <1>7 DEF CliTypes, Aside
<1>9. TextInv'
  BY <1>1, <1>8, TextKeeps
<1>10. Progress(p)'
  <2>1. StepOf(p)' = StepOf(p)
    BY <1>1 DEF StepOf
  <2>2. Ran(p, IF replyC[p] THEN pos[p] + 1 ELSE pos[p])'
    BY <1>1, <1>5, <1>6
  <2> QED BY <1>1, <1>3, <1>4, <2>1, <2>2 DEF Progress
<1>11. ASSUME script[p] \in {RunOrgSwitch, RunOrgSync}, ArrivedIn(p) PROVE ArrivedIn(p)'
  <2>1. /\ EditAt(p)' = EditAt(p) /\ EditAt(p) \in {2, 3} /\ Len(script[p]) = EditAt(p) + 1
        /\ pos[p] \in 1..Len(script[p]) /\ pos[p] # EditAt(p)
        /\ (StepOf(p).method = "context" <=> script[p] = RunOrgSwitch /\ pos[p] = EditAt(p) - 1)
    <3>1. pos[p] \in 1..Len(script[p])
      <4>1. pos[p] \in Nat \ {0} /\ script[p] \in Seq(StepsC)
        BY <1>2 DEF CliTypes
      <4>2. Len(script[p]) \in Nat
        BY <4>1
      <4> QED BY <1>3, <4>1, <4>2
    <3> QED BY <1>1, <1>3, <1>11, <3>1, TenantSteps DEF StepOf, EditAt
  <2>2. CASE pos[p] = EditAt(p) - 1 /\ acc
    <3>1. context' = wantC'[p]
      <4>1. CASE script[p] = RunOrgSwitch
        <5>1. script[p] # RunOrgSync
          BY <4>1, TenantCommands
        <5> QED BY <1>1, <2>1, <2>2, <4>1, <5>1
      <4>2. CASE script[p] = RunOrgSync /\ script[p] # RunOrgSwitch
        <5>1. pos[p] = 1
          BY <2>2, <4>2 DEF EditAt
        <5> QED BY <1>1, <1>2, <2>1, <2>2, <4>2, <5>1 DEF CliTypes
      <4> QED BY <1>11, <4>1, <4>2
    <3> QED BY <1>1, <1>4, <2>1, <2>2, <3>1 DEF ArrivedIn
  <2>3. CASE ~(pos[p] = EditAt(p) - 1 /\ acc)
    <3>1. context' = context
      BY <1>1, <2>1, <2>3
    <3>2. wantC' = wantC
      <4>1. script[p] = RunOrgSync => EditAt(p) = 2
        BY TenantCommands DEF EditAt
      <4> QED BY <1>1, <2>3, <4>1
    <3> QED BY <1>1, <1>4, <1>5, <1>11, <2>1, <2>3, <3>1, <3>2 DEF ArrivedIn
  <2> QED BY <2>2, <2>3
<1>12. CliInv'
  BY <1>2, <1>8, <1>9, <1>10, <1>11, StepKeeps
<1>13. TenantAligned
  BY <1>4, NoneDone
<1> QED BY <1>12, <1>13

\* The step is done and the command goes on, or ends with success.
LEMMA DoneKeeps ==
  ASSUME CliInv, NEW p \in Procs, p \in Running, StepDone(p), Aside(p), CliTypes',
         toml' = toml, context' = context, wantC' = wantC, replyC' = replyC,
         phaseC[p] = "check" => replyC[p], phaseC[p] = "served" => replyC[p],
         phaseC[p] \in {"served", "check"}, NEW k, k = pos[p] + 1, Ran(p, k)'
  PROVE  CliInv' /\ TenantAligned
<1>1. CliTypes /\ Progress(p) /\ AloneOk(p) /\ script' = script /\ alone' = alone
  BY DEF CliInv, Aside
<1>2. Len(script[p]) \in Nat /\ pos[p] \in 1..Len(script[p])
  <2>1. script[p] \in Seq(StepsC) /\ pos[p] \in Nat \ {0} /\ pos[p] <= Len(script[p])
    BY <1>1 DEF CliTypes, Progress
  <2>2. Len(script[p]) \in Nat
    BY <2>1
  <2> QED BY <2>1, <2>2
<1>3. pos'[p] = pos[p] + 1
  BY <1>1 DEF StepDone, CliTypes
<1>4. phaseC'[p] = IF pos[p] = Len(script[p]) THEN "ok" ELSE "ready"
  BY <1>1, PhaseIs DEF StepDone, PhasesC
<1>5. TextInv'
  BY TextKeeps
<1>6. Ran(p, pos[p])'
  BY <1>3 DEF Ran
<1>7. Progress(p)'
  <2>1. phaseC'[p] = "ok" => Ran(p, Len(script[p]) + 1)'
    BY <1>1, <1>4 DEF Ran
  <2> QED BY <1>1, <1>2, <1>3, <1>4, <1>6, <2>1 DEF Progress
<1>8. ASSUME script[p] \in {RunOrgSwitch, RunOrgSync}, ArrivedIn(p)
      PROVE  /\ ArrivedIn(p)'
             /\ pos[p] = Len(script[p]) => toml # NoText /\ toml.tenant = context
  <2>1. /\ EditAt(p)' = EditAt(p) /\ EditAt(p) \in {2, 3} /\ Len(script[p]) = EditAt(p) + 1
        /\ (StepOf(p).peer = "toml" <=> pos[p] = EditAt(p))
    BY <1>1, <1>2, <1>8, TenantSteps DEF StepOf, EditAt
  <2>2. phaseC[p] = "check" <=> pos[p] = EditAt(p)
    BY <1>1, <2>1 DEF Progress
  <2>3. phaseC'[p] # "served" /\ phaseC'[p] # "check"
    BY <1>4
  <2>4. pos[p] >= EditAt(p) - 1 => context = wantC[p]
    BY <1>2, <1>8, <2>1, <2>2 DEF ArrivedIn
  <2>5. pos[p] >= EditAt(p) => toml # NoText /\ toml.tenant = wantC[p]
    BY <1>2, <1>8, <2>1, <2>2 DEF ArrivedIn
  <2>6. ArrivedIn(p)'
    BY <1>2, <1>3, <2>1, <2>3, <2>4, <2>5 DEF ArrivedIn
  <2> QED BY <1>2, <2>1, <2>4, <2>5, <2>6
<1>9. CliInv'
  BY <1>5, <1>7, <1>8, StepKeeps
<1>10. ASSUME NEW q \in Procs, script[q] \in {RunOrgSwitch, RunOrgSync}, alone[q], phaseC[q] # "ok", phaseC'[q] = "ok"
       PROVE  toml' # NoText /\ toml'.tenant = context'
  <2>1. q = p
    BY <1>10 DEF Aside
  <2>2. ArrivedIn(p) /\ pos[p] = Len(script[p])
    BY <1>1, <1>4, <1>10, <2>1 DEF AloneOk
  <2> QED BY <1>8, <1>10, <2>1, <2>2
<1> QED BY <1>9, <1>10 DEF TenantAligned

\* The answer arrives or is lost.
LEMMA ReplyKeeps ==
  ASSUME CliInv, NEW p \in Procs, ReplyArrives(p) \/ ReplyLost(p)
  PROVE  CliInv' /\ TenantAligned
<1>1. /\ phaseC[p] = "served"
      /\ UNCHANGED <<script, replyC, ranC, wantC, copyC, alone, toml, context, upC>>
  BY DEF ReplyArrives, ReplyLost
<1>2. p \in Running /\ CliTypes /\ Progress(p)
  BY <1>1 DEF Running, CliInv
<1>3. CASE PhaseTo(p, "failed") /\ UNCHANGED pos
  <2>1. /\ phaseC' \in [Procs -> PhasesC] /\ phaseC'[p] = "failed"
        /\ \A q \in Procs : q # p => phaseC'[q] = phaseC[q]
    BY <1>2, <1>3, PhaseIs DEF PhasesC
  <2>2. CliTypes' /\ Aside(p)
    BY <1>1, <1>2, <1>3, <2>1 DEF CliTypes, Aside
  <2>3. TextInv'
    BY <1>1, <2>2, TextKeeps
  <2> QED BY <1>1, <1>2, <2>1, <2>2, <2>3, EndKeeps
<1>4. CASE StepDone(p) /\ replyC[p]
  <2>1. PICK f \in {"ok", "ready"} : PhaseTo(p, f)
    BY <1>4 DEF StepDone
  <2>2. phaseC' \in [Procs -> PhasesC] /\ \A q \in Procs : q # p => phaseC'[q] = phaseC[q]
    BY <1>2, <2>1, PhaseIs DEF PhasesC
  <2>3. pos' \in [Procs -> Nat \ {0}] /\ \A q \in Procs : q # p => pos'[q] = pos[q]
    BY <1>2, <1>4 DEF StepDone, CliTypes
  <2>4. CliTypes' /\ Aside(p)
    BY <1>1, <1>2, <2>2, <2>3 DEF CliTypes, Aside
  <2>5. Ran(p, pos[p] + 1)
    BY <1>1, <1>2, <1>4 DEF Progress
  <2>6. PICK k : k = pos[p] + 1
    OBVIOUS
  <2>7. ranC[p] = [i \in 1..Len(script[p]) |-> IF i < k THEN 1 ELSE 0]
    BY <2>5, <2>6 DEF Ran
  <2>8. Ran(p, k)'
    BY <1>1, <2>7 DEF Ran
  <2> QED BY <1>1, <1>2, <1>4, <2>4, <2>6, <2>8, DoneKeeps
<1> QED BY <1>3, <1>4 DEF ReplyArrives, ReplyLost, AfterLostReply

-----------------------------------------------------------------------------

\* disk.toml is read.
LEMMA ReadTomlKeeps ==
  ASSUME CliInv, NEW p \in Procs, ReadToml(p)
  PROVE  CliInv' /\ TenantAligned
<1>1. /\ phaseC[p] = "ready" /\ StepOf(p).peer = "toml"
      /\ \/ PhaseTo(p, "failed") /\ UNCHANGED copyC
         \/ toml # NoText /\ PhaseTo(p, "edit") /\ copyC' = [copyC EXCEPT ![p] = toml]
      /\ UNCHANGED <<script, pos, replyC, ranC, wantC, alone, toml, context, upC>>
  BY DEF ReadToml
<1>2. p \in Running /\ CliTypes /\ Progress(p)
  BY <1>1 DEF Running, CliInv
<1>3. CASE PhaseTo(p, "failed") /\ UNCHANGED copyC
  <2>1. /\ phaseC' \in [Procs -> PhasesC] /\ phaseC'[p] = "failed"
        /\ \A q \in Procs : q # p => phaseC'[q] = phaseC[q]
    BY <1>2, <1>3, PhaseIs DEF PhasesC
  <2>2. CliTypes' /\ Aside(p)
    BY <1>1, <1>2, <1>3, <2>1 DEF CliTypes, Aside
  <2>3. TextInv'
    BY <1>1, <2>2, TextKeeps
  <2> QED BY <1>1, <1>2, <2>1, <2>2, <2>3, EndKeeps
<1>4. CASE toml # NoText /\ PhaseTo(p, "edit") /\ copyC' = [copyC EXCEPT ![p] = toml]
  <2>1. /\ phaseC' \in [Procs -> PhasesC] /\ phaseC'[p] = "edit"
        /\ \A q \in Procs : q # p => phaseC'[q] = phaseC[q]
    BY <1>2, <1>4, PhaseIs DEF PhasesC
  <2>2. /\ copyC' \in [Procs -> TextsC \cup {NoText}] /\ copyC'[p] = toml
        /\ \A q \in Procs : q # p => copyC'[q] = copyC[q]
    BY <1>2, <1>4 DEF CliTypes
  <2>3. CliTypes' /\ Aside(p)
    BY <1>1, <1>2, <2>1, <2>2 DEF CliTypes, Aside
  <2>4. TextInv'
    BY <1>1, <2>3, TextKeeps
  <2>5. Ran(p, pos[p])'
    BY <1>1, <1>2 DEF Progress, Ran
  <2>6. Progress(p)'
    <3>1. StepOf(p)' = StepOf(p)
      BY <1>1 DEF StepOf
    <3> QED BY <1>1, <1>2, <1>4, <2>1, <2>2, <2>5, <3>1 DEF Progress
  <2>7. ArrivedIn(p) => ArrivedIn(p)'
    BY <1>1, <2>1 DEF ArrivedIn, EditAt
  <2>8. CliInv'
    BY <1>2, <2>3, <2>4, <2>6, <2>7, StepKeeps
  <2> QED BY <2>1, <2>8, NoneDone
<1> QED BY <1>1, <1>3, <1>4

\* What is written parses and holds the tenant or the share.
LEMMA UpdatedFits ==
  ASSUME CliInv, NEW p \in Procs, copyC[p] # NoText
  PROVE  /\ Updated(p) \in TextsC /\ Updated(p) # NoText
         /\ script[p] # RunShareInit => Updated(p).tenant = wantC[p]
<1>1. copyC[p] \in TextsC /\ wantC[p] \in WantsC
  BY DEF CliInv, CliTypes
<1>2. PICK t, sh, w : copyC[p] = [tenant |-> t, shares |-> sh] /\ t \in WantsC
                        /\ sh \subseteq WantsC /\ w = wantC[p]
  BY <1>1 DEF TextsC
<1>3. Updated(p) = [tenant |-> t, shares |-> sh \cup {w}] \/ Updated(p) = [tenant |-> w, shares |-> sh]
  BY <1>2 DEF Updated, RenderShare, PatchTenant
<1>4. Updated(p) \in TextsC
  BY <1>1, <1>2, <1>3 DEF TextsC
<1>5. script[p] # RunShareInit => Updated(p).tenant = wantC[p]
  BY <1>2 DEF Updated, PatchTenant
<1> QED BY <1>4, <1>5, CliAssumption

\* disk.toml is written.
LEMMA WriteTomlKeeps ==
  ASSUME CliInv, NEW p \in Procs, NEW parses \in BOOLEAN, WriteToml(p, parses)
  PROVE  CliInv' /\ TenantAligned
<1>1. /\ phaseC[p] = "edit" /\ PhaseTo(p, "check")
      /\ toml' = IF parses THEN Updated(p) ELSE NoText
      /\ replyC' = [replyC EXCEPT ![p] = parses]
      /\ UNCHANGED <<script, pos, ranC, wantC, copyC, alone, context, upC>>
  BY DEF WriteToml
<1>2. p \in Running /\ CliTypes /\ Progress(p)
  BY <1>1 DEF Running, CliInv
<1>3. pos[p] <= Len(script[p]) /\ StepOf(p).peer = "toml" /\ copyC[p] # NoText /\ Ran(p, pos[p])
  BY <1>1, <1>2 DEF Progress
<1>4. /\ Updated(p) \in TextsC /\ Updated(p) # NoText
      /\ script[p] # RunShareInit => Updated(p).tenant = wantC[p]
  BY <1>3, UpdatedFits
<1>5. /\ phaseC' \in [Procs -> PhasesC] /\ phaseC'[p] = "check"
      /\ \A q \in Procs : q # p => phaseC'[q] = phaseC[q]
  BY <1>1, <1>2, PhaseIs DEF PhasesC
<1>6. /\ replyC' \in [Procs -> BOOLEAN] /\ replyC'[p] = parses
      /\ \A q \in Procs : q # p => replyC'[q] = replyC[q]
  BY <1>1, <1>2 DEF CliTypes
<1>7. CliTypes' /\ Aside(p)
  <2>1. toml' \in TextsC \cup {NoText}
    BY <1>1, <1>4
  <2> QED BY <1>1, <1>2, <1>5, <1>6, <2>1 DEF CliTypes, Aside
<1>8. TextInv'
  BY <1>1, <1>4, <1>5, <1>6 DEF TextInv
<1>9. Progress(p)'
  <2>1. StepOf(p)' = StepOf(p)
    BY <1>1 DEF StepOf
  <2>2. Ran(p, pos[p])'
    BY <1>1, <1>3 DEF Ran
  <2> QED BY <1>1, <1>3, <1>5, <2>1, <2>2 DEF Progress
<1>10. ASSUME script[p] \in {RunOrgSwitch, RunOrgSync}, ArrivedIn(p) PROVE ArrivedIn(p)'
  <2>1. Len(script[p]) \in Nat /\ pos[p] \in 1..Len(script[p])
    <3>1. script[p] \in Seq(StepsC) /\ pos[p] \in Nat \ {0}
      BY <1>2 DEF CliTypes
    <3>2. Len(script[p]) \in Nat
      BY <3>1
    <3> QED BY <1>3, <3>1, <3>2
  <2>2. EditAt(p)' = EditAt(p) /\ EditAt(p) \in {2, 3} /\ pos[p] = EditAt(p) /\ script[p] # RunShareInit
    BY <1>1, <1>3, <1>10, <2>1, TenantSteps DEF StepOf, EditAt
  <2>3. context = wantC[p]
    BY <1>10, <2>2 DEF ArrivedIn
  <2>4. parses => toml' # NoText /\ toml'.tenant = wantC[p]
    BY <1>1, <1>4, <2>2
  <2> QED BY <1>1, <1>5, <1>6, <2>2, <2>3, <2>4 DEF ArrivedIn
<1>11. CliInv'
  BY <1>2, <1>7, <1>8, <1>9, <1>10, StepKeeps
<1> QED BY <1>5, <1>11, NoneDone

\* What was written is checked, and the old text put back if it does not parse.
LEMMA CheckTomlKeeps ==
  ASSUME CliInv, NEW p \in Procs, CheckToml(p)
  PROVE  CliInv' /\ TenantAligned
<1>1. phaseC[p] = "check" /\ UNCHANGED <<script, replyC, wantC, copyC, alone, context, upC>>
  BY DEF CheckToml
<1>2. p \in Running /\ CliTypes /\ Progress(p)
  BY <1>1 DEF Running, CliInv
<1>3. pos[p] <= Len(script[p]) /\ copyC[p] # NoText /\ Ran(p, pos[p])
  BY <1>1, <1>2 DEF Progress
<1>4. CASE replyC[p]
  <2>1. StepDone(p) /\ ranC' = [ranC EXCEPT ![p][pos[p]] = @ + 1] /\ toml' = toml
    BY <1>4 DEF CheckToml
  <2>2. PICK f \in {"ok", "ready"} : PhaseTo(p, f)
    BY <2>1 DEF StepDone
  <2>3. phaseC' \in [Procs -> PhasesC] /\ \A q \in Procs : q # p => phaseC'[q] = phaseC[q]
    BY <1>2, <2>2, PhaseIs DEF PhasesC
  <2>4. pos' \in [Procs -> Nat \ {0}] /\ \A q \in Procs : q # p => pos'[q] = pos[q]
    BY <1>2, <2>1 DEF StepDone, CliTypes
  <2>5. PICK k : k = pos[p] + 1
    OBVIOUS
  <2>6. /\ ranC' = [q \in Procs |-> ranC'[q]] /\ (\A q \in Procs : q # p => ranC'[q] = ranC[q])
        /\ ranC'[p] = [i \in 1..Len(script[p]) |-> IF i < k THEN 1 ELSE 0]
    BY <1>1, <1>2, <1>3, <2>1, <2>5, RanNext
  <2>7. CliTypes' /\ Aside(p)
    BY <1>1, <1>2, <2>1, <2>3, <2>4, <2>6 DEF CliTypes, Aside
  <2>8. Ran(p, k)'
    BY <1>1, <2>6 DEF Ran
  <2> QED BY <1>1, <1>2, <1>4, <2>1, <2>5, <2>7, <2>8, DoneKeeps
<1>5. CASE ~replyC[p]
  <2>1. PhaseTo(p, "failed") /\ toml' = copyC[p] /\ UNCHANGED <<pos, ranC>>
    BY <1>5 DEF CheckToml, Restored
  <2>2. /\ phaseC' \in [Procs -> PhasesC] /\ phaseC'[p] = "failed"
        /\ \A q \in Procs : q # p => phaseC'[q] = phaseC[q]
    BY <1>2, <2>1, PhaseIs DEF PhasesC
  <2>3. CliTypes' /\ Aside(p)
    BY <1>1, <1>2, <2>1, <2>2 DEF CliTypes, Aside
  <2>4. TextInv'
    BY <1>3, <2>1 DEF TextInv
  <2> QED BY <1>2, <2>1, <2>2, <2>3, <2>4, EndKeeps
<1> QED BY <1>4, <1>5

\* A command is killed.
LEMMA KilledKeeps ==
  ASSUME CliInv, NEW p \in Procs, CommandKilled(p)
  PROVE  CliInv' /\ TenantAligned
<1>1. /\ p \in Running /\ PhaseTo(p, "killed") /\ toml' \in {toml, NoText}
      /\ UNCHANGED <<script, pos, replyC, ranC, wantC, copyC, alone, context, upC>>
  BY DEF CommandKilled
<1>2. /\ phaseC' \in [Procs -> PhasesC] /\ phaseC'[p] = "killed"
      /\ \A q \in Procs : q # p => phaseC'[q] = phaseC[q]
  BY <1>1, PhaseIs DEF PhasesC, CliInv
<1>3. CliTypes' /\ Aside(p)
  BY <1>1, <1>2 DEF CliTypes, Aside, CliInv
<1>4. TextInv'
  BY <1>2, <1>3, TextKeeps
<1> QED BY <1>1, <1>2, <1>3, <1>4, EndKeeps

\* A command starts, beside others or alone.
LEMMA StartCommandKeeps ==
  ASSUME CliInv, NEW p \in Procs, NEW c \in Commands, NEW w \in Wants(c), StartCommand(p, c, w)
  PROVE  CliInv' /\ TenantAligned
<1>1. /\ phaseC[p] = "new" /\ PhaseTo(p, "ready")
      /\ script' = [script EXCEPT ![p] = c] /\ wantC' = [wantC EXCEPT ![p] = w]
      /\ ranC' = [ranC EXCEPT ![p] = [i \in 1..Len(c) |-> 0]]
      /\ alone' = [q \in Procs |-> IF q = p THEN Running = {} ELSE FALSE]
      /\ UNCHANGED <<pos, replyC, copyC, toml, context, upC>>
  BY DEF StartCommand
<1>2. CliTypes /\ TextInv /\ pos[p] = 1
  BY <1>1 DEF CliInv, Progress
<1>3. c \in Seq(StepsC) /\ Len(c) >= 1 /\ w \in WantsC
  BY CommandsOk DEF NonEmptyC, Wants, WantsC
<1>4. /\ phaseC' \in [Procs -> PhasesC] /\ phaseC'[p] = "ready"
      /\ \A q \in Procs : q # p => phaseC'[q] = phaseC[q]
  BY <1>1, <1>2, PhaseIs DEF PhasesC
<1>5. /\ script' \in [Procs -> Seq(StepsC)] /\ script'[p] = c
      /\ \A q \in Procs : q # p => script'[q] = script[q]
  BY <1>1, <1>2, <1>3 DEF CliTypes
<1>6. /\ ranC' = [q \in Procs |-> ranC'[q]] /\ ranC'[p] = [i \in 1..Len(c) |-> 0]
      /\ \A q \in Procs : q # p => ranC'[q] = ranC[q]
  BY <1>1, <1>2 DEF CliTypes
<1>7. CliTypes'
  <2>1. wantC' \in [Procs -> WantsC]
    BY <1>1, <1>2, <1>3 DEF CliTypes
  <2>2. alone' \in [Procs -> BOOLEAN]
    BY <1>1
  <2> QED BY <1>1, <1>2, <1>4, <1>5, <1>6, <2>1, <2>2 DEF CliTypes
<1>8. TextInv'
  <2>1. CASE toml = NoText
    <3>1. PICK q \in Procs : phaseC[q] = "killed" \/ (phaseC[q] = "check" /\ ~replyC[q])
      BY <1>2, <2>1 DEF TextInv
    <3>2. q # p
      BY <1>1, <3>1
    <3> QED BY <1>1, <1>4, <3>1, <3>2 DEF TextInv
  <2> QED BY <1>1, <2>1 DEF TextInv
<1>9. Ran(p, pos[p])'
  <2>1. \A i \in 1..Len(c) : ~(i < 1)
    BY <1>3
  <2>2. [i \in 1..Len(c) |-> 0] = [i \in 1..Len(c) |-> IF i < 1 THEN 1 ELSE 0]
    BY <2>1
  <2> QED BY <1>1, <1>2, <1>5, <1>6, <2>2 DEF Ran
<1>10. Progress(p)'
  BY <1>1, <1>2, <1>3, <1>4, <1>5, <1>9 DEF Progress
<1>11. AloneOk(p)'
  <2>1. ASSUME alone'[p], NEW q \in Running' PROVE q = p
    <3>1. Running = {} /\ q \in Procs
      BY <1>1, <2>1 DEF Running
    <3> QED BY <1>4, <3>1 DEF Running
  <2>2. ASSUME script'[p] \in {RunOrgSwitch, RunOrgSync} PROVE ArrivedIn(p)'
    <3>1. EditAt(p)' \in {2, 3}
      BY DEF EditAt
    <3> QED BY <1>1, <1>2, <1>4, <3>1 DEF ArrivedIn
  <2> QED BY <2>1, <2>2 DEF AloneOk
<1>12. ASSUME NEW q \in Procs, q # p PROVE Progress(q)' /\ AloneOk(q)'
  <2>1. Progress(q)
    BY DEF CliInv
  <2>2. Progress(q)'
    BY <1>1, <1>4, <1>5, <1>6, <1>12, <2>1, ProgressKeeps
  <2>3. ~alone'[q]
    BY <1>1, <1>12
  <2> QED BY <2>2, <2>3 DEF AloneOk
<1>13. CliInv'
  BY <1>7, <1>8, <1>10, <1>11, <1>12 DEF CliInv
<1> QED BY <1>4, <1>13, NoneDone

\* A peer that stops or starts answering, and a step of something else.
LEMMA IdleKeeps ==
  ASSUME CliInv, upC' \subseteq {"control", "daemon"},
         UNCHANGED <<script, pos, phaseC, replyC, ranC, wantC, copyC, alone, toml, context>>
  PROVE  CliInv' /\ TenantAligned
<1>1. CliTypes' /\ TextInv'
  BY DEF CliInv, CliTypes, TextInv
<1>2. ASSUME NEW q \in Procs PROVE Progress(q)' /\ AloneOk(q)'
  <2>1. Progress(q) /\ AloneOk(q)
    BY DEF CliInv
  <2>2. Progress(q)'
    BY <2>1, ProgressKeeps
  <2>3. Running' = Running /\ (ArrivedIn(q) => ArrivedIn(q)')
    BY DEF Running, ArrivedIn, EditAt
  <2> QED BY <2>1, <2>2, <2>3 DEF AloneOk
<1>3. CliInv'
  BY <1>1, <1>2 DEF CliInv
<1> QED BY <1>3, NoneDone

\* Every step of the commands keeps their invariant, and a switch or sync that nothing
\* overlapped leaves disk.toml with the active tenant.
LEMMA CliKeeps ==
  ASSUME CliInv, [CliNext]_cliVars
  PROVE  CliInv' /\ TenantAligned
<1>1. ASSUME NEW p \in Procs, NEW c \in Commands, NEW w \in Wants(c), StartCommand(p, c, w)
      PROVE  CliInv' /\ TenantAligned
  BY <1>1, StartCommandKeeps
<1>2. ASSUME NEW p \in Procs,
             ConnectRefused(p) \/ ReplyArrives(p) \/ ReplyLost(p) \/ ReadToml(p)
             \/ CheckToml(p) \/ CommandKilled(p)
      PROVE  CliInv' /\ TenantAligned
  BY <1>2, RefusedKeeps, ReplyKeeps, ReadTomlKeeps, CheckTomlKeeps, KilledKeeps
<1>3. ASSUME NEW p \in Procs, NEW ok \in BOOLEAN, PeerServes(p, ok) \/ WriteToml(p, ok)
      PROVE  CliInv' /\ TenantAligned
  BY <1>3, ServesKeeps, WriteTomlKeeps
<1>4. ASSUME NEW x \in {"control", "daemon"}, PeerFlips(x)
      PROVE  CliInv' /\ TenantAligned
  <2>1. upC' \subseteq {"control", "daemon"}
    BY <1>4 DEF PeerFlips, CliInv, CliTypes
  <2>2. UNCHANGED <<script, pos, phaseC, replyC, ranC, wantC, copyC, alone, toml, context>>
    BY <1>4 DEF PeerFlips
  <2> QED BY <2>1, <2>2, IdleKeeps
<1>5. CASE UNCHANGED cliVars
  BY <1>5, IdleKeeps DEF cliVars, CliInv, CliTypes
<1> QED BY <1>1, <1>2, <1>3, <1>4, <1>5 DEF CliNext

\* No command runs at the start.
LEMMA CliStart ==
  ASSUME CliInit
  PROVE  CliInv
<1>1. CliTypes
  <2>1. toml \in TextsC /\ context \in WantsC
    BY DEF CliInit, TextsC, WantsC
  <2>2. <<>> \in Seq(StepsC)
    OBVIOUS
  <2> QED BY <2>1, <2>2 DEF CliInit, CliTypes, PhasesC, WantsC
<1>2. TextInv
  <2>1. toml \in TextsC
    BY DEF CliInit, TextsC, WantsC
  <2> QED BY <2>1, CliAssumption DEF TextInv
<1>3. ASSUME NEW p \in Procs PROVE Progress(p) /\ AloneOk(p)
  <2>1. script[p] = <<>> /\ ranC[p] = <<>> /\ pos[p] = 1 /\ phaseC[p] = "new"
    BY DEF CliInit
  <2>2. Len(script[p]) = 0
    BY <2>1
  <2>3. <<>> = [i \in 1..0 |-> IF i < 0 THEN 1 ELSE 0]
    OBVIOUS
  <2>4. Ran(p, 0)
    BY <2>1, <2>2, <2>3 DEF Ran
  <2> QED BY <2>1, <2>4 DEF Progress, AloneOk, Running
<1> QED BY <1>1, <1>2, <1>3 DEF CliInv

-----------------------------------------------------------------------------
(* What a person starts: commands, the window, imports, archives and sidecars *)

\* The import, the archive and the sidecars are what they say of the files, for any
\* names, contents, edits and processes (import_state, archive.rs, evaluate_staleness).
LEMMA FilesCommandsHold ==
  ImportSpec /\ ArchiveSpec /\ EmbSpec =>
    [](ImportInv /\ ArchiveInv /\ EmbInv)
<1>1. ImportInv /\ [ImportNext]_importVars => ImportInv'
  BY ImportKeeps
<1>2. ArchiveInv /\ [ArchiveNext]_archiveVars => ArchiveInv'
  BY ArchiveKeeps
<1>3. EmbInv /\ [EmbNext]_embVars => EmbInv'
  BY EmbKeeps
<1> QED
  BY <1>1, <1>2, <1>3, ImportStart, ArchiveStart, EmbStart, PTL DEF ImportSpec, ArchiveSpec, EmbSpec

\* CommandsSound for any number of processes, commands, hosts, conflicts, files, edits and
\* failures (send_with_retry, set_node_tenant_id, drain_resolve, import_state, archive.rs,
\* evaluate_staleness).
THEOREM CommandsHold ==
  CliSpec /\ GuiSpec /\ ImportSpec /\ ArchiveSpec /\ EmbSpec => CommandsSound
<1>1. CliInv /\ [CliNext]_cliVars => CliInv' /\ TenantAligned
  BY CliKeeps
<1>2. GuiInv /\ [GuiNext]_guiVars => GuiInv' /\ OthersStayListed
  BY GuiKeeps
<1>3. CliInv => StepsOnce /\ TomlParses
  BY RanOnce
<1>4. GuiInv => ResolvedNotOffered
  BY DEF GuiInv
<1>5. ImportInv /\ ArchiveInv /\ EmbInv =>
        ImportCovers /\ RestoredWasHeld /\ IndexIsBacked /\ FreshVectorFits
  BY FinishedCovers DEF ArchiveInv, EmbInv
<1>6. CliInit => CliInv
  BY CliStart
<1> QED
  BY <1>1, <1>2, <1>3, <1>4, <1>5, <1>6, GuiStart, FilesCommandsHold, PTL
     DEF CliSpec, GuiSpec, CommandsSound

-----------------------------------------------------------------------------
(* The parts together *)

\* A behaviour of the composition starts every part where it starts on its own.
LEMMA PartsInit ==
  MCInit => /\ ConflictsInit /\ KeysInit /\ WireInit /\ CliInit /\ GuiInit /\ ImportInit
            /\ ParentInit /\ ProviderInit /\ JournalInit /\ VfsInit /\ CaptureInit /\ DeltaInit
            /\ ArchiveInit /\ EmbInit /\ FileInit
BY Zenon DEF MCInit

\* A step of the composition is, for every part, a step of that part or none.
LEMMA PartsStep ==
  [MCNext]_mcVars =>
    /\ [ConflictsNext]_conflictVars /\ [KeysNext]_keyVars /\ [WireNext]_wireVars
    /\ [CliNext]_cliVars /\ [GuiNext]_guiVars /\ [ImportNext]_importVars /\ [ParentNext]_pvVars
    /\ [ProviderNext]_providerVars /\ [JournalNext]_ojVars /\ [VfsNext]_vfsVars
    /\ [CaptureNext]_captureVars /\ [DeltaNext]_deltaVars /\ [ArchiveNext]_archiveVars
    /\ [EmbNext]_embVars /\ [FileNext]_vfsfVars
<1> SUFFICES ASSUME [MCNext]_mcVars
             PROVE  /\ [ConflictsNext]_conflictVars /\ [KeysNext]_keyVars /\ [WireNext]_wireVars
                    /\ [CliNext]_cliVars /\ [GuiNext]_guiVars /\ [ImportNext]_importVars
                    /\ [ParentNext]_pvVars /\ [ProviderNext]_providerVars /\ [JournalNext]_ojVars
                    /\ [VfsNext]_vfsVars /\ [CaptureNext]_captureVars /\ [DeltaNext]_deltaVars
                    /\ [ArchiveNext]_archiveVars /\ [EmbNext]_embVars /\ [FileNext]_vfsfVars
  OBVIOUS
<1>1. CASE ConflictsMoves
  BY <1>1 DEF ConflictsMoves
<1>2. CASE KeysMoves
  BY <1>2 DEF KeysMoves
<1>3. CASE WireMoves
  BY <1>3 DEF WireMoves
<1>4. CASE CliMoves
  BY <1>4 DEF CliMoves
<1>5. CASE GuiMoves
  BY <1>5 DEF GuiMoves
<1>6. CASE ImportMoves
  BY <1>6 DEF ImportMoves
<1>7. CASE ParentMoves
  BY <1>7 DEF ParentMoves
<1>8. CASE ProviderMoves
  BY <1>8 DEF ProviderMoves
<1>9. CASE JournalMoves
  BY <1>9 DEF JournalMoves
<1>10. CASE VfsMoves
  BY <1>10 DEF VfsMoves
<1>11. CASE CaptureMoves
  BY <1>11 DEF CaptureMoves
<1>12. CASE DeltaMoves
  BY <1>12 DEF DeltaMoves
<1>13. CASE ArchiveMoves
  BY <1>13 DEF ArchiveMoves
<1>14. CASE EmbeddingsMoves
  BY <1>14 DEF EmbeddingsMoves
<1>15. CASE ParentFilesMoves
  BY <1>15 DEF ParentFilesMoves
<1>16. CASE UNCHANGED mcVars
  BY <1>16 DEF mcVars
<1> QED
  BY <1>1, <1>2, <1>3, <1>4, <1>5, <1>6, <1>7, <1>8, <1>9, <1>10, <1>11, <1>12, <1>13, <1>14,
     <1>15, <1>16 DEF MCNext

\* The composition implements the specification of each of its parts.
THEOREM PartsRun ==
  MCSpec => /\ ConflictsSpec /\ KeysSpec /\ WireSpec /\ CliSpec /\ GuiSpec /\ ImportSpec
            /\ ParentSpec /\ ProviderSpec /\ JournalSpec /\ VfsSpec /\ CaptureSpec /\ DeltaSpec
            /\ ArchiveSpec /\ EmbSpec /\ FileSpec
BY PartsInit, PartsStep, PTL
   DEF MCSpec, ConflictsSpec, KeysSpec, WireSpec, CliSpec, GuiSpec, ImportSpec, ParentSpec,
       ProviderSpec, JournalSpec, VfsSpec, CaptureSpec, DeltaSpec, ArchiveSpec, EmbSpec, FileSpec

\* Everything the personal run checks, in every behaviour of the composition: conflict
\* copies, keys, transfers, commands and the personal vault.
THEOREM PersonalHolds ==
  MCSpec => /\ [](SqliteDurable /\ JournalSound /\ TransferExact)
            /\ ConflictsKept /\ EncryptionSound /\ CommandsSound /\ VaultSound /\ ProviderSound
BY PartsRun, TransactionsHold, JournalIsSound, TransferHolds, ConflictsHold, EncryptionHolds, CommandsHold,
   VaultHolds, ProviderHolds, PTL
=============================================================================
