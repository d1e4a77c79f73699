------------------------------ MODULE SqliteVfs -----------------------------
(***************************************************************************)
(* The rollback-journal transactions SQLite runs through the descriptor    *)
(* VFS (disk-personal/sqlite-abi/src/lib.rs and src/parent_sqlite.rs):     *)
(* registration, the exclusive writer lock held for the life of the        *)
(* connection, the files the VFS opens, writes, syncs and deletes, and the *)
(* poison that refuses all IO after an uncertain mutation.  The order in   *)
(* which SQLite's pager calls the VFS (journal_mode=DELETE,                *)
(* synchronous=FULL) is the library's.                                     *)
(***************************************************************************)
EXTENDS Naturals, FiniteSets

CONSTANTS
  Conns,      \* connections, of one process or of several
  Pages,      \* pages of inventory.sqlite that a transaction rewrites
  MaxReg,     \* registration capacity (128)
  MaxVersion, \* bound on transactions
  MaxFaults,  \* bound on failures and crashes
  NoConn

ASSUME VfsAssumption == Pages # {} /\ NoConn \notin Conns

VARIABLES
  lockHolder,  \* who holds writer.lock
  regCount,  \* the counter NEXT
  conn,        \* per connection: pager step, pages still to write, poisoned
  cache, disk, \* page versions: what reads see, what survives a power loss
  jName,       \* the journal's directory entry: seen now, on disk
  jBody,       \* the journal is complete: seen now, on disk
  jOld,        \* the version the journal restores
  told,        \* history: the last version whose commit was answered Ok
  faults

vfsVars == <<lockHolder, regCount, conn, cache, disk, jName, jBody, jOld, told, faults>>

ClosedDb == [at |-> "none", todo |-> {}, poisoned |-> FALSE]
NowAndStable(b) == [now |-> b, stable |-> b]

VfsInit ==
  /\ lockHolder = NoConn /\ regCount = 0
  /\ conn = [c \in Conns |-> ClosedDb]
  /\ cache = [p \in Pages |-> 0] /\ disk = [p \in Pages |-> 0]
  /\ jName = NowAndStable(FALSE) /\ jBody = NowAndStable(FALSE) /\ jOld = 0
  /\ told = 0 /\ faults = 0

VfsFault == faults < MaxFaults /\ faults' = faults + 1

\* DescriptorVfs::from_admitted_handle: flock, exclusive and non-blocking
LockFree == lockHolder = NoConn

\* registration::reserve: identities are handed out once, up to the capacity
ReserveId == regCount < MaxReg /\ regCount' = regCount + 1

\* Connection::open: lock writer.lock, reserve an identity, register the VFS
ConnectDb(c) ==
  /\ conn[c].at = "none"
  /\ LockFree
  /\ ReserveId
  /\ lockHolder' = c
  /\ conn' = [conn EXCEPT ![c] = [at |-> "opening", todo |-> Pages, poisoned |-> FALSE]]
  /\ UNCHANGED <<cache, disk, jName, jBody, jOld, told, faults>>

\* xAccess: a journal that is there is hot; the pager plays a complete one back
\* and deletes any other before it does anything else
AfterOpen == IF ~jName.now THEN "idle" ELSE IF jBody.now THEN "restore" ELSE "unlink"

\* xOpen of the main file.  A failure gives the reservation back and ends the open.
OpenMain(c) ==
  /\ conn[c].at = "opening"
  /\ \/ /\ conn' = [conn EXCEPT ![c].at = AfterOpen]
        /\ UNCHANGED <<lockHolder, faults>>
     \/ /\ VfsFault
        /\ conn' = [conn EXCEPT ![c] = ClosedDb] /\ lockHolder' = NoConn
  /\ UNCHANGED <<regCount, cache, disk, jName, jBody, jOld, told>>

\* Root::ready
Ready(c) == ~conn[c].poisoned

\* Root::mutation: what fails may or may not have happened; nothing is tried again
Uncertain(c) ==
  /\ VfsFault
  /\ conn' = [conn EXCEPT ![c].poisoned = TRUE]
  /\ UNCHANGED <<lockHolder, regCount, jOld, told>>

PagerAt(c, pc) == conn[c].at = pc /\ Ready(c)
PagerTo(c, pc) ==
  /\ conn' = [conn EXCEPT ![c].at = pc, ![c].todo = Pages]
  /\ UNCHANGED <<lockHolder, regCount, faults>>

\* Mutant of CreateJournal: the new name is not synced.
CreateJournalUnsynced(c) ==
  /\ PagerAt(c, "idle")
  /\ \A p \in Pages : cache[p] < MaxVersion
  /\ \/ /\ jName' = [jName EXCEPT !.now = TRUE] /\ jBody' = [jBody EXCEPT !.now = FALSE]
        /\ jOld' = cache[CHOOSE p \in Pages : TRUE]
        /\ PagerTo(c, "journal")
        /\ UNCHANGED told
     \/ jName' = [jName EXCEPT !.now = TRUE] /\ UNCHANGED jBody /\ Uncertain(c)
  /\ UNCHANGED <<cache, disk>>

\* Root::open with create: the directory is synced before SQLite relies on the name
CreateJournal(c) ==
  /\ PagerAt(c, "idle")
  /\ \A p \in Pages : cache[p] < MaxVersion
  /\ \/ /\ jName' = NowAndStable(TRUE) /\ jBody' = NowAndStable(FALSE)
        /\ jOld' = cache[CHOOSE p \in Pages : TRUE]
        /\ PagerTo(c, "journal")
        /\ UNCHANGED told
     \/ /\ jName' = [jName EXCEPT !.now = TRUE] /\ jBody' = [jBody EXCEPT !.now = FALSE]
        /\ Uncertain(c)
  /\ UNCHANGED <<cache, disk>>

\* DescriptorFile::write and ::sync of the journal
WriteJournal(c) ==
  /\ PagerAt(c, "journal")
  /\ \/ jBody' = [jBody EXCEPT !.now = TRUE] /\ PagerTo(c, "jsync") /\ UNCHANGED <<jOld, told>>
     \/ jBody' \in {jBody, [jBody EXCEPT !.now = TRUE]} /\ Uncertain(c)
  /\ UNCHANGED <<cache, disk, jName>>

SyncJournal(c) ==
  /\ PagerAt(c, "jsync")
  /\ \/ jBody' = NowAndStable(TRUE) /\ PagerTo(c, "pages") /\ UNCHANGED <<jOld, told>>
     \/ jBody' \in {jBody, NowAndStable(TRUE)} /\ Uncertain(c)
  /\ UNCHANGED <<cache, disk, jName>>

\* DescriptorFile::write of a database page: new content, or at playback the old
WritePage(c, p) ==
  /\ \/ PagerAt(c, "pages") \/ PagerAt(c, "restore")
  /\ p \in conn[c].todo
  /\ LET v == IF conn[c].at = "pages" THEN jOld + 1 ELSE jOld
     IN \/ /\ cache' = [cache EXCEPT ![p] = v]
           /\ conn' = [conn EXCEPT ![c].todo = @ \ {p},
                                   ![c].at = IF conn[c].todo # {p} THEN @
                                             ELSE IF @ = "pages" THEN "sync" ELSE "rsync"]
           /\ UNCHANGED <<lockHolder, regCount, jOld, told, faults>>
        \/ cache' \in {cache, [cache EXCEPT ![p] = v]} /\ Uncertain(c)
  /\ UNCHANGED <<disk, jName, jBody>>

\* DescriptorFile::sync of the database
SyncPages(c) ==
  /\ \/ PagerAt(c, "sync") \/ PagerAt(c, "rsync")
  /\ \/ /\ disk' = cache
        /\ PagerTo(c, IF conn[c].at = "sync" THEN "commit" ELSE "unlink")
        /\ UNCHANGED <<jOld, told>>
     \/ /\ disk' \in [Pages -> {disk[p] : p \in Pages} \cup {cache[p] : p \in Pages}]
        /\ \A p \in Pages : disk'[p] \in {disk[p], cache[p]}
        /\ Uncertain(c)
  /\ UNCHANGED <<cache, jName, jBody>>

\* Vfs::delete: unlink, and whatever SQLite asks for, sync the directory
Unlinked == jName' = NowAndStable(FALSE)

\* a file that no entry names is gone
BodyGoes == jBody' = [now |-> jBody.now /\ jName'.now, stable |-> jBody.stable /\ jName'.stable]

\* the journal is deleted: this is the commit.  The answer goes out after it.
DeleteJournal(c) ==
  /\ \/ PagerAt(c, "commit") \/ PagerAt(c, "unlink")
  /\ \/ /\ Unlinked /\ BodyGoes
        /\ PagerTo(c, "idle")
        /\ told' = IF conn[c].at = "commit" THEN jOld + 1 ELSE told
        /\ UNCHANGED jOld
     \/ /\ jName' \in {jName, [jName EXCEPT !.now = FALSE], NowAndStable(FALSE)}
        /\ BodyGoes
        /\ Uncertain(c)
  /\ UNCHANGED <<cache, disk>>

\* drop of Connection and Registration: the file is closed, the lock released and
\* the VFS retired.  A poisoned connection gets no further than this.
CloseDb(c) ==
  /\ conn[c].at = "idle" \/ conn[c].poisoned
  /\ conn' = [conn EXCEPT ![c] = ClosedDb]
  /\ lockHolder' = IF lockHolder = c THEN NoConn ELSE lockHolder
  /\ UNCHANGED <<regCount, cache, disk, jName, jBody, jOld, told, faults>>

\* the process dies: the kernel keeps what was written
KillProcess ==
  /\ VfsFault
  /\ conn' = [c \in Conns |-> ClosedDb] /\ lockHolder' = NoConn /\ regCount' = 0
  /\ UNCHANGED <<cache, disk, jName, jBody, jOld, told>>

\* the machine dies: of what was not synced, any part may be gone
LosePower ==
  /\ VfsFault
  /\ conn' = [c \in Conns |-> ClosedDb] /\ lockHolder' = NoConn /\ regCount' = 0
  /\ \E kept \in SUBSET Pages, n \in {jName.now, jName.stable}, b \in {jBody.now, jBody.stable} :
       /\ disk' = [p \in Pages |-> IF p \in kept THEN cache[p] ELSE disk[p]]
       /\ cache' = disk'
       /\ jName' = NowAndStable(n) /\ jBody' = NowAndStable(b)
  /\ UNCHANGED <<jOld, told>>

VfsNext ==
  \/ \E c \in Conns :
       \/ ConnectDb(c) \/ OpenMain(c) \/ CreateJournal(c) \/ WriteJournal(c) \/ SyncJournal(c)
       \/ SyncPages(c) \/ DeleteJournal(c) \/ CloseDb(c)
       \/ \E p \in Pages : WritePage(c, p)
  \/ KillProcess \/ LosePower

VfsSpec == VfsInit /\ [][VfsNext]_vfsVars

(***************************************************************************)
(* Properties                                                              *)
(***************************************************************************)
\* A connection that may begin a transaction sees all pages at one version and
\* the same on disk: a transaction that was cut short, by an error, by the
\* process or by the machine, is either there or not there at all
\* (parent_sqlite.rs Root::mutation, Root::open's directory sync).
TransactionWhole ==
  \A c \in Conns : conn[c].at = "idle" /\ Ready(c) =>
    \A p, q \in Pages : cache[p] = cache[q] /\ disk[p] = cache[p]

\* A transaction whose commit was answered is never rolled back by a later
\* playback: the directory sync of Vfs::delete comes before the answer.
AnsweredCommitStays ==
  \A c \in Conns : conn[c].at = "idle" /\ Ready(c) => \A p \in Pages : cache[p] >= told

-----------------------------------------------------------------------------
(***************************************************************************)
(* The file layer of the personal vault's parent (parent_vfs.rs): opened   *)
(* handles of one admitted directory, each in a process of its own, work   *)
(* on its files inside with_exclusive, under the flock of writer.lock.  A  *)
(* write, sync or creation that fails leaves the directory in an unknown   *)
(* state and poisons the handle until the directory is opened again.       *)
(* Callers may go on after an error inside the callback.                   *)
(***************************************************************************)

CONSTANTS
    HandlesF,    \* handles of the directory
    FilesF,      \* inventory, rollback journal and object names
    ObjectsF,    \* the object names among them: created once, never opened to write
    PagesF,      \* MAX_FILE, in pages
    MaxCallsF,   \* bound on sessions and reopenings
    NobodyF      \* the lock is free, no answer yet

ASSUME FilesAssumption == NobodyF # "ok"

VARIABLES
    lockF,       \* who holds the flock of writer.lock
    stateF,      \* per handle: "idle" or "in" its callback
    poisonF,     \* Directory::poisoned
    openF,       \* per handle: files its callback holds open for writing
    lengthF,     \* files that exist, in pages
    doubtF,      \* history: handles with an effect that failed half way
    answerF,     \* the last answer of with_exclusive
    callsF

vfsfVars == <<lockF, stateF, poisonF, openF, lengthF, doubtF, answerF, callsF>>

FileInit ==
    /\ lockF = NobodyF
    /\ stateF = [h \in HandlesF |-> "idle"]
    /\ poisonF = [h \in HandlesF |-> FALSE]
    /\ openF = [h \in HandlesF |-> {}]
    /\ lengthF = [f \in {} |-> 0]
    /\ doubtF = {}
    /\ answerF = [h \in HandlesF |-> NobodyF]
    /\ callsF = 0

CallF == callsF < MaxCallsF /\ callsF' = callsF + 1

\* flock, non-blocking.
LockTaken(h) == lockF = NobodyF

\* with_exclusive, up to its callback: a poisoned handle and a held lock are Pending.
Enter(h) ==
    /\ CallF /\ stateF[h] = "idle"
    /\ IF ~poisonF[h] /\ LockTaken(h)
       THEN /\ lockF' = h /\ stateF' = [stateF EXCEPT ![h] = "in"]
            /\ UNCHANGED answerF
       ELSE /\ answerF' = [answerF EXCEPT ![h] = "pending"]
            /\ UNCHANGED <<lockF, stateF>>
    /\ UNCHANGED <<poisonF, openF, lengthF, doubtF>>

\* Locked::ready.
HandleReady(h) == stateF[h] = "in" /\ ~poisonF[h]

Poisoned(h) == poisonF' = [poisonF EXCEPT ![h] = TRUE] /\ doubtF' = doubtF \cup {h}

\* create_new: exclusive, so that an existing name is an error; any error poisons,
\* also one found after the file was made.
CreateFile(h, f) ==
    /\ HandleReady(h)
    /\ LET made == [g \in DOMAIN lengthF \cup {f} |->
                     IF g \in DOMAIN lengthF THEN lengthF[g] ELSE 0]
       IN  \/ /\ f \notin DOMAIN lengthF
              /\ lengthF' = made /\ openF' = [openF EXCEPT ![h] = @ \cup {f}]
              /\ UNCHANGED <<poisonF, doubtF>>
           \/ lengthF' \in {lengthF, made} /\ Poisoned(h) /\ UNCHANGED openF
    /\ UNCHANGED <<lockF, stateF, answerF, callsF>>

\* open_inventory_write.
OpenWrite(h, f) ==
    /\ HandleReady(h) /\ f \in DOMAIN lengthF \ ObjectsF
    /\ openF' = [openF EXCEPT ![h] = @ \cup {f}]
    /\ UNCHANGED <<lockF, stateF, poisonF, lengthF, doubtF, answerF, callsF>>

\* range: the bytes end within MAX_FILE.
InRange(offset) == offset + 1 <= PagesF

\* write_at, a page; out of range is refused without an effect, a failure poisons
\* and may have extended the file.
WriteAt(h, f, offset) ==
    /\ HandleReady(h) /\ f \in openF[h] /\ InRange(offset)
    /\ LET longer == [lengthF EXCEPT ![f] = IF offset + 1 > @ THEN offset + 1 ELSE @]
       IN  \/ /\ lengthF' = longer
              /\ UNCHANGED <<poisonF, doubtF>>
           \/ lengthF' \in {lengthF, longer} /\ Poisoned(h)
    /\ UNCHANGED <<lockF, stateF, openF, answerF, callsF>>

\* sync and sync_directory: only their failure is seen here.
SyncFails(h) ==
    /\ HandleReady(h) /\ Poisoned(h)
    /\ UNCHANGED <<lockF, stateF, openF, lengthF, answerF, callsF>>

\* The result of with_exclusive: an Ok of the callback counts only if the handle is
\* not poisoned; the callback may have failed by itself.
Outcome(h) == IF poisonF[h] THEN {"pending", "error"} ELSE {"ok", "error"}

\* The callback returns and the guard is dropped, which releases the lock.
Leave(h) ==
    /\ stateF[h] = "in" /\ stateF' = [stateF EXCEPT ![h] = "idle"]
    /\ lockF' = NobodyF /\ openF' = [openF EXCEPT ![h] = {}]
    /\ \E o \in Outcome(h) : answerF' = [answerF EXCEPT ![h] = o]
    /\ UNCHANGED <<poisonF, lengthF, doubtF, callsF>>

\* The process ends, its lock with it, and opens the directory again
\* (from_admitted_handle), after the recovery that is not part of this layer.
OpenAgain(h) ==
    /\ CallF
    /\ lockF' = IF lockF = h THEN NobodyF ELSE lockF
    /\ stateF' = [stateF EXCEPT ![h] = "idle"]
    /\ poisonF' = [poisonF EXCEPT ![h] = FALSE]
    /\ answerF' = [answerF EXCEPT ![h] = NobodyF]
    /\ openF' = [openF EXCEPT ![h] = {}]
    /\ doubtF' = doubtF \ {h}
    /\ UNCHANGED lengthF

FileNext ==
    \E h \in HandlesF :
        \/ Enter(h) \/ SyncFails(h) \/ Leave(h) \/ OpenAgain(h)
        \/ \E f \in FilesF : \/ CreateFile(h, f) \/ OpenWrite(h, f)
                             \/ \E o \in 0..PagesF : WriteAt(h, f, o)

FileSpec == FileInit /\ [][FileNext]_vfsfVars

(***************************************************************************)
(* Properties                                                              *)
(***************************************************************************)
\* A session never answers Ok once an effect of the handle has failed half way, even
\* if the callback went on and returned Ok itself (with_exclusive).
OkMeansCertain == \A h \in doubtF : answerF[h] # "ok" \/ stateF[h] = "in"

\* Whatever fails or stops, a transaction is there as a whole or not at all, an
\* answered commit stays, and no session answers Ok over an effect in doubt
\* (parent_sqlite.rs, parent_vfs.rs).
SqliteDurable == TransactionWhole /\ AnsweredCommitStays /\ OkMeansCertain
=============================================================================
