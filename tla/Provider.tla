------------------------------ MODULE Provider ------------------------------
(***************************************************************************)
(* The immutable provider of the personal vault (crates/disk-personal/src/ *)
(* provider): a request is reserved in the inventory, its bytes are staged *)
(* in a file, the file is renamed to its place and the inventory row made  *)
(* DURABLE.  The file system keeps unsynced work or loses it in a crash: a *)
(* file not synced may come back short, an entry whose directory was not   *)
(* synced may come back where it was.  SQLite's commits are durable.       *)
(***************************************************************************)
EXTENDS Naturals, Sequences, FiniteSets, TLC

CONSTANTS
  Requests,       \* requests, each with an operation id of its own
  Target,         \* request -> the object and revision it writes
  MaxRecords,     \* MAX_RECORDS
  MaxProviderOps, \* bound on calls and crashes
  Void

\* What a file may hold, an object file, a row of attempts, a call under way.
DataP == {"partial", "full", "damaged"}
ObjectFiles == [of : Requests, data : DataP]
RecordsP == [seq : Nat]
StagingP == [request : Requests, again : BOOLEAN,
             at : {"file", "sync_object", "write", "sync_file", "rename", "directories",
                   "commit"}]

ASSUME ProviderAssumption ==
  Void \notin DataP \cup ObjectFiles \cup RecordsP \cup StagingP

VARIABLES
  record,     \* attempts rows: state and sequence
  staged,     \* staging/<attempt>.part: its data, or Void
  published,  \* objects/<object>/<revision>.blob: whose data, and which
  synced,     \* requests whose file data was synced
  settled,    \* targets whose directory entries were synced
  poisonFile, \* POISON
  damaged,    \* history: an object was damaged on the disk
  staging,    \* stage_internal under way
  providerOps

providerFiles == <<staged, published, synced, settled>>
providerVars == <<record, providerFiles, poisonFile, damaged, staging, providerOps>>
Targets == {Target[r] : r \in Requests}

ProviderInit ==
  /\ record = [r \in Requests |-> Void]
  /\ staged = [r \in Requests |-> Void]
  /\ published = [t \in Targets |-> Void]
  /\ synced = {} /\ settled = {}
  /\ poisonFile = FALSE /\ damaged = FALSE /\ staging = Void /\ providerOps = 0

ProviderTick == providerOps < MaxProviderOps /\ providerOps' = providerOps + 1

Reserved(r) == record[r] # Void
IsDurable(r) == Reserved(r) /\ record[r].seq > 0

\* durable_bytes: the object of the request is there and verifies
ReadableObject(r) == published[Target[r]] = [of |-> r, data |-> "full"]

\* consistency: every DURABLE row has its bytes
Consistent == \A r \in Requests : IsDurable(r) => ReadableObject(r)

\* Provider::available and consistency, at the start of every call: a durable
\* object that does not verify poisons the root for good
Available == ~poisonFile /\ staging = Void

Poison ==
  /\ Available /\ ~Consistent
  /\ poisonFile' = TRUE
  /\ UNCHANGED <<record, providerFiles, staging, providerOps, damaged>>

\* reserve: the same operation again, or a fresh one whose object is not taken
Clashes(r) == \E q \in Requests \ {r} : Reserved(q) /\ Target[q] = Target[r]

\* reserve: room for one more record
Room == Cardinality({r \in Requests : Reserved(r)}) < MaxRecords

\* reject_unattributed_files
Unattributed(r) == staged[r] # Void \/ published[Target[r]] # Void

\* stage_internal up to the reservation, which is one transaction; a commit
\* found there is the answer
Reserve(r) ==
  /\ Available /\ Consistent
  /\ ProviderTick
  /\ ~IsDurable(r) /\ ~Clashes(r)
  /\ Reserved(r) \/ (~Unattributed(r) /\ Room)
  /\ record' = [record EXCEPT ![r] = [seq |-> 0]]
  /\ staging' = [request |-> r, again |-> Reserved(r), at |-> "file"]
  /\ UNCHANGED <<providerFiles, poisonFile, damaged>>

StAt(pc) == staging # Void /\ staging.at = pc
StTo(pc) == staging' = [staging EXCEPT !.at = pc]

\* stage_internal, the object exists: only a retry may take it, if it verifies
AdoptObject ==
  /\ StAt("file")
  /\ LET r == staging.request
     IN  /\ published[Target[r]] # Void
         /\ IF staging.again /\ ReadableObject(r) THEN StTo("sync_object") ELSE staging' = Void
  /\ UNCHANGED <<record, providerFiles, poisonFile, providerOps, damaged>>

SyncObject ==
  /\ StAt("sync_object")
  /\ synced' = synced \cup {staging.request}
  /\ StTo("directories")
  /\ UNCHANGED <<record, staged, published, settled, poisonFile, providerOps, damaged>>

\* prepare_file: a staged file is taken over if it verifies, and never touched
\* if it does not
AdoptStaged ==
  /\ StAt("file") /\ published[Target[staging.request]] = Void
  /\ LET r == staging.request
     IN  /\ staged[r] # Void
         /\ IF staging.again /\ staged[r] = "full" THEN StTo("sync_file") ELSE staging' = Void
  /\ UNCHANGED <<record, providerFiles, poisonFile, providerOps, damaged>>

\* prepare_file: create_stage, then the bytes
CreateStage ==
  /\ StAt("file") /\ published[Target[staging.request]] = Void
  /\ staged[staging.request] = Void
  /\ staged' = [staged EXCEPT ![staging.request] = "partial"]
  /\ StTo("write")
  /\ UNCHANGED <<record, published, synced, settled, poisonFile, providerOps, damaged>>

WriteStage ==
  /\ StAt("write")
  /\ staged' = [staged EXCEPT ![staging.request] = "full"]
  /\ StTo("sync_file")
  /\ UNCHANGED <<record, published, synced, settled, poisonFile, providerOps, damaged>>

\* Mutant of SyncFile: the data is left to the operating system.
SyncFileLater ==
  /\ StAt("sync_file") /\ StTo("rename")
  /\ UNCHANGED <<record, providerFiles, poisonFile, providerOps, damaged>>

\* prepare_file: sync_all
SyncFile ==
  /\ StAt("sync_file")
  /\ synced' = synced \cup {staging.request}
  /\ StTo("rename")
  /\ UNCHANGED <<record, staged, published, settled, poisonFile, providerOps, damaged>>

\* publish: renameat2 without replacing
Publish ==
  /\ StAt("rename")
  /\ LET r == staging.request
     IN  IF published[Target[r]] = Void
         THEN /\ published' = [published EXCEPT ![Target[r]] = [of |-> r, data |-> staged[r]]]
              /\ staged' = [staged EXCEPT ![r] = Void]
              /\ StTo("directories")
         ELSE staging' = Void /\ UNCHANGED <<staged, published>>
  /\ UNCHANGED <<record, synced, settled, poisonFile, providerOps, damaged>>

\* sync_publish_dirs
SyncDirectories ==
  /\ StAt("directories")
  /\ settled' = settled \cup {Target[staging.request]}
  /\ StTo("commit")
  /\ UNCHANGED <<record, staged, published, synced, poisonFile, providerOps, damaged>>

\* SELECT COALESCE(MAX(sequence), 0) + 1
NextSequence ==
  LET taken == {0} \cup {record[r].seq : r \in {q \in Requests : Reserved(q)}}
  IN  1 + CHOOSE n \in taken : \A k \in taken : k <= n

\* inventory::commit; the transaction may fail
CommitRecord ==
  /\ StAt("commit")
  /\ staging' = Void
  /\ \/ record' = [record EXCEPT ![staging.request].seq = NextSequence]
     \/ UNCHANGED record
  /\ UNCHANGED <<providerFiles, poisonFile, providerOps, damaged>>

\* Any step of the call may fail; nothing is undone
StageFails ==
  /\ staging # Void
  /\ staging' = Void
  /\ UNCHANGED <<record, providerFiles, poisonFile, providerOps, damaged>>

\* Something else damages an object on the disk
Damage(t) ==
  /\ ProviderTick
  /\ published[t] # Void
  /\ published' = [published EXCEPT ![t].data = "damaged"]
  /\ damaged' = TRUE
  /\ UNCHANGED <<record, staged, synced, settled, poisonFile, staging>>

WithFile == {r \in Requests : staged[r] # Void \/ published[Target[r]] # Void}

\* A crash.  The entry of an object whose directories were not synced may be
\* back in staging; a staged file may be gone, its directory never having been
\* synced.
CrashProvider ==
  /\ ProviderTick
  /\ staging' = Void
  /\ \E lost \in SUBSET ({t \in Targets : published[t] # Void} \ settled),
        gone \in SUBSET WithFile, short \in SUBSET (WithFile \ synced) :
       LET after(r, d) == IF r \in short THEN "partial" ELSE d
           back(r) == /\ Target[r] \in lost /\ published[Target[r]] # Void
                      /\ published[Target[r]].of = r
       IN  /\ published' = [t \in Targets |->
                IF published[t] = Void \/ t \in lost THEN Void
                ELSE [published[t] EXCEPT !.data = after(published[t].of, @)]]
           /\ staged' = [r \in Requests |->
                IF r \in gone THEN Void
                ELSE IF back(r) THEN after(r, published[Target[r]].data)
                ELSE IF staged[r] = Void THEN Void ELSE after(r, staged[r])]
  /\ synced' = synced \ {r \in Requests : staged'[r] = Void /\
                           (published'[Target[r]] = Void \/ published'[Target[r]].of # r)}
  /\ UNCHANGED <<record, settled, poisonFile, damaged>>

ProviderNext ==
  \/ Poison
  \/ \E r \in Requests : Reserve(r)
  \/ AdoptObject \/ SyncObject \/ AdoptStaged \/ CreateStage \/ WriteStage \/ SyncFile
  \/ Publish \/ SyncDirectories \/ CommitRecord \/ StageFails
  \/ CrashProvider
  \/ \E t \in Targets : Damage(t)

ProviderSpec == ProviderInit /\ [][ProviderNext]_providerVars

-----------------------------------------------------------------------------
(* Crashes and failures alone never poison a root: every DURABLE row has   *)
(* its bytes in place, whole, whatever unsynced work a crash took          *)
(* (stage_internal, consistency).                                          *)
DurableIsReadable == damaged \/ (Consistent /\ ~poisonFile)

(* A commit is never taken back or renumbered, no two share a sequence or  *)
(* an object, and a poisoned root takes no more (commit, reserve, poison). *)
CommitsStand ==
  /\ poisonFile => record' = record
  /\ \A r \in Requests : IsDurable(r) =>
       /\ record'[r] = record[r]
       /\ \A q \in Requests \ {r} : record'[q] # Void =>
            record'[q].seq # record[r].seq /\ Target[q] # Target[r]

-----------------------------------------------------------------------------
(***************************************************************************)
(* The binding between a capture and its stored parts (disk-personal       *)
(* capture_binding.rs and provider): a descriptor lists one or two parts   *)
(* and is recognised by a fingerprint that leaves the allocated ids out;   *)
(* an operation of the provider is bound to the full identity of the       *)
(* descriptor it was first used with; a set of receipts with their bytes   *)
(* is compared with the descriptor.  Digests are injective: a fingerprint  *)
(* is the tuple it is computed from, a hash is the content.                *)
(***************************************************************************)

CONSTANTS
    PartIds,      \* part ids
    ObjectsK,     \* allocated objects; a value stands for object and revision id
    BodiesK,      \* contents
    Generations,  \* cancellation generations
    OpsK,         \* operation ids of the provider
    MaxServedK,   \* bound on the accepted calls
    NoneK         \* no binding

ASSUME CaptureAssumption == NoneK \notin PartIds

VARIABLES
    wireK,        \* the descriptor received last, as parsed
    boundK,       \* attempts and capture_binding: operation -> request and binding
    servedK,      \* history: the accepted calls
    checkedK      \* history: the receipt set accepted last, with its descriptor

captureVars == <<wireK, boundK, servedK, checkedK>>

PartsK == [part : PartIds, object : ObjectsK, sha : BodiesK]

\* The fields of a descriptor the checks below tell apart; print says whether the
\* fingerprint it carries is the one of its own contents.
WireK == [parts : UNION {[1..n -> PartsK] : n \in 1..2}, gen : Generations, print : BOOLEAN]

\* CaptureDescriptor::parse, apart from the shape of single fields.
Valid(w) ==
    /\ w.print
    /\ Len(w.parts) = 2 => /\ w.parts[1].part # w.parts[2].part
                           /\ w.parts[1].object # w.parts[2].object

\* fingerprint_input: roles follow from the positions.
Fingerprint(w) == [i \in DOMAIN w.parts |-> w.parts[i].sha]

\* descriptor_identity.
Identity(w) == <<Fingerprint(w), w.parts, w.gen>>

\* expected_receipts.
Expected(w) ==
    [i \in DOMAIN w.parts |->
        [part |-> w.parts[i].part, object |-> w.parts[i].object, sha |-> w.parts[i].sha,
         print |-> Fingerprint(w), gen |-> w.gen]]

Unbound == [object |-> NoneK, sha |-> NoneK, note |-> FALSE, part |-> NoneK,
            gen |-> NoneK, identity |-> NoneK]
NothingChecked == [desc |-> NoneK, items |-> <<>>]

CaptureInit ==
    /\ wireK \in {w \in WireK : Valid(w)}
    /\ boundK = [o \in OpsK |-> Unbound]
    /\ servedK = {}
    /\ checkedK = NothingChecked

\* Another descriptor arrives; one that does not parse changes nothing.
Parse ==
    /\ \E w \in WireK : Valid(w) /\ wireK' = w
    /\ checkedK' = NothingChecked
    /\ UNCHANGED <<boundK, servedK>>

\* allocation: the request names the object, content and kind of its part.
Allocated(w, i) == [object |-> w.parts[i].object, sha |-> w.parts[i].sha, note |-> i = 1]

Binding(w, i) ==
    LET a == Allocated(w, i)
    IN  [object |-> a.object, sha |-> a.sha, note |-> a.note,
         part |-> w.parts[i].part, gen |-> w.gen, identity |-> Identity(w)]

\* reserve: a known operation must repeat its request and its binding; a new one
\* takes an object no other operation holds.
Admits(o, w, i) ==
    IF boundK[o] # Unbound THEN boundK[o] = Binding(w, i)
    ELSE \A q \in OpsK : boundK[q] = Unbound \/ boundK[q].object # w.parts[i].object

Serve(o) ==
    /\ Cardinality(servedK) < MaxServedK
    /\ servedK' = servedK \cup {[op |-> o, desc |-> wireK]}

\* stage_capture.
StageCapture(o) ==
    /\ Serve(o)
    /\ \E i \in DOMAIN wireK.parts :
           /\ Admits(o, wireK, i)
           /\ boundK' = [boundK EXCEPT ![o] = Binding(wireK, i)]
    /\ UNCHANGED <<wireK, checkedK>>

\* read_capture: verify_capture and the request of the record.
ReadCapture(o) ==
    /\ Serve(o)
    /\ \E i \in DOMAIN wireK.parts : boundK[o] = Binding(wireK, i)
    /\ UNCHANGED <<wireK, boundK, checkedK>>

\* verify_receipt_bytes: the part is found by its id, then everything must agree.
ReceiptHolds(w, item) ==
    \E i \in DOMAIN w.parts : item.receipt = Expected(w)[i] /\ item.body = w.parts[i].sha

\* The seen set of verify_receipt_set.
FreshPart(items, j) == \A k \in 1..(j - 1) : items[k].receipt.part # items[j].receipt.part

\* verify_receipt_set.
VerifySet ==
    /\ checkedK = NothingChecked
    /\ \E items \in [DOMAIN wireK.parts ->
                        [receipt : {Expected(wireK)[i] : i \in DOMAIN wireK.parts}
                                   \cup {[Expected(wireK)[1] EXCEPT !.gen = @ + 1],
                                         [Expected(wireK)[1] EXCEPT !.object = NoneK]},
                         body : BodiesK \cup {NoneK}]] :
           /\ \A j \in DOMAIN items : ReceiptHolds(wireK, items[j]) /\ FreshPart(items, j)
           /\ checkedK' = [desc |-> wireK, items |-> items]
    /\ UNCHANGED <<wireK, boundK, servedK>>

CaptureNext == Parse \/ VerifySet \/ \E o \in OpsK : StageCapture(o) \/ ReadCapture(o)

CaptureSpec == CaptureInit /\ [][CaptureNext]_captureVars

(***************************************************************************)
(* Properties                                                              *)
(***************************************************************************)
\* An operation id is only ever served under one descriptor: a retry that differs
\* in ids the fingerprint leaves out is refused, for the other part's ids as well
\* (verify_capture, descriptor_identity).
OneDescriptorPerOperation == \A a, b \in servedK : a.op = b.op => a.desc = b.desc

\* An accepted set of receipts has every part of the descriptor exactly once, each
\* with its own content (verify_receipt_set).
ReceiptsCoverParts ==
    checkedK # NothingChecked =>
        {checkedK.items[j].receipt.part : j \in DOMAIN checkedK.items}
            = {checkedK.desc.parts[i].part : i \in DOMAIN checkedK.desc.parts}

\* What the provider has committed stays, is readable and is bound to one capture:
\* after each step and crash (commit, consistency, verify_capture, verify_receipt_set).
ProviderSound ==
  [][/\ CommitsStand /\ DurableIsReadable'
     /\ OneDescriptorPerOperation' /\ ReceiptsCoverParts']_<<providerVars, captureVars>>
=============================================================================
