------------------------------ MODULE Storage ------------------------------
(***************************************************************************)
(* The storage backends (crate disk-storage): an object is a row of        *)
(* storage_objects and a stored body.  The local backend keeps one blob    *)
(* per content hash and shares it between paths; the S3 backend keeps one  *)
(* object per path and hash.  An operation is a chain of awaited steps,    *)
(* any number of them run at once, and each may stop between two steps:    *)
(* an error, a dropped future or the end of the process.                   *)
(***************************************************************************)
EXTENDS Naturals, FiniteSets

CONSTANTS
    PathsT,       \* paths of objects
    BodiesT,      \* contents; a content stands for its SHA-256
    CallsT,       \* slots for operations in flight
    MaxCallsT,    \* bound on the operations started
    MaxAttempts,  \* with_retry: attempts of one S3 request (5 in the code)
    NoBodyT       \* the content of an absent row

\* The paths are the ones some request names; an absent row has no content.
ASSUME StorageAssumption == IsFiniteSet(PathsT) /\ NoBodyT \notin BodiesT

VARIABLES
    backendT,     \* "local" or "s3"
    rowsT,        \* storage_objects: path -> content and store key
    bodiesT,      \* store key -> "absent", "torn" or "whole"
    tmpT,         \* the same of the local backend's temporary files
    callsT,       \* the operations in flight
    startedT,     \* how many were started
    troubleT      \* history: what disturbed the store

storageVars == <<backendT, rowsT, bodiesT, tmpT, callsT, startedT, troubleT>>

NoKeyT == <<>>
AbsentRow == [body |-> NoBodyT, key |-> NoKeyT]
IdleT == [op |-> "idle", at |-> "idle", path |-> NoBodyT, to |-> NoBodyT,
          row |-> AbsentRow, inode |-> "tmp", tries |-> 0]

\* object_key_for, and the blob path of the local backend, which has no path in it.
StoreKey(p, b) == IF backendT = "local" THEN <<b>> ELSE <<p, b>>
StoreKeys == {<<b>> : b \in BodiesT} \cup (PathsT \X BodiesT)

RowT(p, b) == [body |-> b, key |-> StoreKey(p, b)]
PresentT(p) == rowsT[p] # AbsentRow

\* get and read_blob: what a reader of the path is served.
Served(p) ==
    IF ~PresentT(p) \/ bodiesT[rowsT[p].key] = "absent" THEN "not_found"
    ELSE bodiesT[rowsT[p].key]

InFlight(ops) == {c \in CallsT : callsT[c].op \in ops}

StorageInit ==
    /\ backendT \in {"local", "s3"}
    /\ rowsT = [p \in PathsT |-> AbsentRow]
    /\ bodiesT = [k \in StoreKeys |-> "absent"]
    /\ tmpT = [b \in BodiesT |-> "absent"]
    /\ callsT = [c \in CallsT |-> IdleT]
    /\ startedT = 0
    /\ troubleT = {}

InStep(c, op, step) == callsT[c].op = op /\ callsT[c].at = step
AdvanceCall(c, step) == callsT' = [callsT EXCEPT ![c].at = step]
EndCall(c) == callsT' = [callsT EXCEPT ![c] = IdleT]

\* A delete beside a put or a rename: the count of references is then a guess.
Overlap(op) ==
    IF \/ op = "delete" /\ InFlight({"put", "rename"}) # {}
       \/ op \in {"put", "rename"} /\ InFlight({"delete"}) # {}
    THEN {"overlap"} ELSE {}

Begin(c, call) ==
    /\ callsT[c] = IdleT
    /\ startedT < MaxCallsT
    /\ startedT' = startedT + 1
    /\ callsT' = [callsT EXCEPT ![c] = call]
    /\ troubleT' = troubleT \cup Overlap(call.op)
    /\ UNCHANGED <<backendT, rowsT, bodiesT, tmpT>>

\* StorageBackend::put: the body first, then the row.
BeginPut(c) ==
    \E p \in PathsT, b \in BodiesT :
        Begin(c, [IdleT EXCEPT !.op = "put", !.path = p, !.row = RowT(p, b),
                  !.at = IF backendT = "local" THEN "check" ELSE "send"])

\* write_blob: a blob that is there is taken as it is.
CheckBlob(c) ==
    /\ InStep(c, "put", "check")
    /\ AdvanceCall(c, IF bodiesT[callsT[c].row.key] # "absent" THEN "upsert" ELSE "create")
    /\ UNCHANGED <<backendT, rowsT, bodiesT, tmpT, startedT, troubleT>>

\* File::create truncates a temporary file that another writer of the hash made.
CreateTmp(c) ==
    /\ InStep(c, "put", "create")
    /\ tmpT' = [tmpT EXCEPT ![callsT[c].row.body] = "torn"]
    /\ callsT' = [callsT EXCEPT ![c].at = "write", ![c].inode = "tmp"]
    /\ UNCHANGED <<backendT, rowsT, bodiesT, startedT, troubleT>>

\* write_all and sync_all go to the file that was opened, wherever it was moved.
WriteTmp(c) ==
    LET call == callsT[c] IN
    /\ InStep(c, "put", "write")
    /\ IF call.inode = "tmp"
       THEN tmpT' = [tmpT EXCEPT ![call.row.body] = "whole"] /\ UNCHANGED bodiesT
       ELSE bodiesT' = [bodiesT EXCEPT ![call.row.key] =
                            IF call.inode = "gone" THEN @ ELSE "whole"]
            /\ UNCHANGED tmpT
    /\ AdvanceCall(c, "move")
    /\ UNCHANGED <<backendT, rowsT, startedT, troubleT>>

\* The writers of the same hash whose open file is where the given name points.
Holding(c, where) ==
    {o \in CallsT : callsT[o].op = "put" /\ callsT[o].at \in {"write", "move"}
                    /\ callsT[o].row = [callsT[c].row EXCEPT !.key = callsT[o].row.key]
                    /\ callsT[o].inode = where}

\* The rename onto the blob; when another writer took the temporary file with it,
\* a blob that is there is enough.
MoveTmp(c) ==
    LET call == callsT[c]
        b == call.row.body IN
    /\ InStep(c, "put", "move")
    /\ IF tmpT[b] # "absent"
       THEN /\ bodiesT' = [bodiesT EXCEPT ![call.row.key] = tmpT[b]]
            /\ tmpT' = [tmpT EXCEPT ![b] = "absent"]
            /\ callsT' = [o \in CallsT |->
                   IF o = c THEN [call EXCEPT !.at = "upsert"]
                   ELSE IF o \in Holding(c, "tmp") THEN [callsT[o] EXCEPT !.inode = "blob"]
                   ELSE IF o \in Holding(c, "blob") THEN [callsT[o] EXCEPT !.inode = "gone"]
                   ELSE callsT[o]]
       ELSE /\ IF bodiesT[call.row.key] # "absent" THEN AdvanceCall(c, "tidy") ELSE EndCall(c)
            /\ UNCHANGED <<bodiesT, tmpT>>
    /\ UNCHANGED <<backendT, rowsT, startedT, troubleT>>

\* remove_file after a rename that failed: by now the name may be another writer's.
TidyTmp(c) ==
    /\ InStep(c, "put", "tidy")
    /\ tmpT' = [tmpT EXCEPT ![callsT[c].row.body] = "absent"]
    /\ callsT' = [o \in CallsT |->
           IF o = c THEN [callsT[c] EXCEPT !.at = "upsert"]
           ELSE IF o \in Holding(c, "tmp") THEN [callsT[o] EXCEPT !.inode = "gone"]
           ELSE callsT[o]]
    /\ UNCHANGED <<backendT, rowsT, bodiesT, startedT, troubleT>>

\* put_object under with_retry: a request that answers with an error may have been
\* carried out; a transient error is retried until the attempts are used up.
SendObject(c) ==
    LET call == callsT[c] IN
    /\ InStep(c, "put", "send")
    /\ \/ /\ bodiesT' = [bodiesT EXCEPT ![call.row.key] = "whole"]
          /\ AdvanceCall(c, "upsert")
       \/ /\ bodiesT' \in {bodiesT, [bodiesT EXCEPT ![call.row.key] = "whole"]}
          /\ IF call.tries < MaxAttempts - 1
             THEN callsT' = [callsT EXCEPT ![c].tries = @ + 1]
             ELSE EndCall(c)
    /\ UNCHANGED <<backendT, rowsT, tmpT, startedT, troubleT>>

\* MetadataStore::upsert, the last step of a put and of a rename.
UpsertObject(c) ==
    LET call == callsT[c] IN
    /\ call.at = "upsert"
    /\ rowsT' = [rowsT EXCEPT ![IF call.op = "rename" THEN call.to ELSE call.path] = call.row]
    /\ EndCall(c)
    /\ UNCHANGED <<backendT, bodiesT, tmpT, startedT, troubleT>>

\* StorageBackend::delete: the row first, the body when nothing refers to it any more.
BeginDelete(c) ==
    \E p \in PathsT : Begin(c, [IdleT EXCEPT !.op = "delete", !.path = p, !.at = "lookup"])

LookUp(c) ==
    /\ callsT[c].at = "lookup"
    /\ IF PresentT(callsT[c].path)
       THEN callsT' = [callsT EXCEPT ![c].row = rowsT[callsT[c].path],
                       ![c].at = IF callsT[c].op = "delete" THEN "drop" ELSE "lookup_to"]
       ELSE EndCall(c)
    /\ UNCHANGED <<backendT, rowsT, bodiesT, tmpT, startedT, troubleT>>

DropRow(c) ==
    /\ InStep(c, "delete", "drop")
    /\ IF PresentT(callsT[c].path)
       THEN rowsT' = [rowsT EXCEPT ![callsT[c].path] = AbsentRow] /\ AdvanceCall(c, "count")
       ELSE EndCall(c) /\ UNCHANGED rowsT
    /\ UNCHANGED <<backendT, bodiesT, tmpT, startedT, troubleT>>

\* The count of rows with the content, whatever their path and store key.
Unreferenced(b) == Cardinality({p \in PathsT : rowsT[p].body = b}) = 0

CountRefs(c) ==
    /\ InStep(c, "delete", "count")
    /\ IF Unreferenced(callsT[c].row.body) THEN AdvanceCall(c, "remove") ELSE EndCall(c)
    /\ UNCHANGED <<backendT, rowsT, bodiesT, tmpT, startedT, troubleT>>

RemoveBody(c) ==
    /\ InStep(c, "delete", "remove")
    /\ bodiesT' = [bodiesT EXCEPT ![callsT[c].row.key] = "absent"]
    /\ callsT' = [o \in CallsT |->
           IF o = c THEN IdleT
           ELSE IF o \in Holding(c, "blob") THEN [callsT[o] EXCEPT !.inode = "gone"]
           ELSE callsT[o]]
    /\ UNCHANGED <<backendT, rowsT, tmpT, startedT, troubleT>>

\* StorageBackend::rename: two reads, the UPDATE of the key, and an upsert of the row
\* read at the start, which keeps the store key of the old path.
BeginRename(c) ==
    \E p, q \in PathsT :
        Begin(c, [IdleT EXCEPT !.op = "rename", !.path = p, !.to = q, !.at = "lookup"])

LookUpTarget(c) ==
    /\ InStep(c, "rename", "lookup_to")
    /\ IF PresentT(callsT[c].to) THEN EndCall(c) ELSE AdvanceCall(c, "update")
    /\ UNCHANGED <<backendT, rowsT, bodiesT, tmpT, startedT, troubleT>>

\* No row of the old path: NotFound; a row of the new one by now: the primary key refuses.
UpdateKey(c) ==
    LET call == callsT[c] IN
    /\ InStep(c, "rename", "update")
    /\ IF PresentT(call.path) /\ ~PresentT(call.to)
       THEN /\ rowsT' = [rowsT EXCEPT ![call.to] = rowsT[call.path], ![call.path] = AbsentRow]
            /\ AdvanceCall(c, "upsert")
       ELSE EndCall(c) /\ UNCHANGED rowsT
    /\ UNCHANGED <<backendT, bodiesT, tmpT, startedT, troubleT>>

\* The other writers of the same hash that have opened a temporary file.
Beside(c) ==
    {o \in CallsT \ {c} : callsT[o].op = "put" /\ callsT[o].at \in {"write", "move"}
                          /\ callsT[o].row.body = callsT[c].row.body}

\* An error of a step or a dropped future: nothing is undone.  A writer that stops over
\* an open file leaves it as it is, and another writer may move it onto the blob.
StorageStops(c) ==
    /\ callsT[c] # IdleT
    /\ EndCall(c)
    /\ troubleT' = IF /\ callsT[c].at = "write"
                      /\ \/ callsT[c].inode = "blob"
                         \/ callsT[c].inode = "tmp" /\ Beside(c) # {}
                   THEN troubleT \cup {"writer_lost"} ELSE troubleT
    /\ UNCHANGED <<backendT, rowsT, bodiesT, tmpT, startedT>>

StorageNext ==
    \E c \in CallsT :
        \/ BeginPut(c) \/ CheckBlob(c) \/ CreateTmp(c) \/ WriteTmp(c) \/ MoveTmp(c)
        \/ TidyTmp(c) \/ SendObject(c) \/ UpsertObject(c)
        \/ BeginDelete(c) \/ LookUp(c) \/ DropRow(c) \/ CountRefs(c) \/ RemoveBody(c)
        \/ BeginRename(c) \/ LookUpTarget(c) \/ UpdateKey(c)
        \/ StorageStops(c)

StorageSpec == StorageInit /\ [][StorageNext]_storageVars

\* Every row leads to its whole body, whatever was renamed, overwritten, retried or given
\* up half-way: no delete takes a body that another path shares, and no writer leaves a
\* half-written blob behind a row.  The two exceptions are the hazards of local.rs: a
\* delete that counts beside a put or a rename, and a writer that is lost over its temporary
\* file beside another writer of the same content.
RowsAreReadable ==
    troubleT = {} =>
        \A p \in PathsT : PresentT(p) =>
            \/ Served(p) = "whole"
            \/ \E c \in CallsT : InStep(c, "put", "write") /\ callsT[c].inode = "blob"
                                 /\ callsT[c].row.body = rowsT[p].body
=============================================================================
