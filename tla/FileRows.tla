------------------------------ MODULE FileRows ------------------------------
(***************************************************************************)
(* The rows behind the sync service: TenantMetaRouter picks the database   *)
(* of a tenant, `files` holds a row per tenant, vault and path, and        *)
(* `node_baselines` the state a node last agreed to.  A file row is        *)
(* written by an UPDATE and, when no row was touched, an INSERT: two       *)
(* statements on a pool of connections.  The UNIQUE index over the         *)
(* tenant, vault and path does not bind rows whose tenant is NULL.         *)
(***************************************************************************)
EXTENDS Naturals, FiniteSets

CONSTANTS
    TenantsF,     \* tenants with a name
    NoTenant,     \* tenant_id NULL
    PathsF,       \* paths of one vault
    WritersF,     \* upserts that may be in flight at once
    MaxWritesF,   \* bound on the upserts, deletes and batches
    MaxRowsF      \* bound on the rows of one table

VARIABLES
    splitF,       \* DISK_TENANT_DB_DIR is set: one database per tenant
    filesF,       \* the rows of `files`: database, tenant, path, content
    writesF,      \* writer -> the upsert it is doing
    baselineF,    \* tenant and path -> batch the baseline row comes from
    batchF,       \* the batch being written: what is done of it
    countF,       \* writes begun so far; names the content that is written
    ownerF,       \* history: content -> the tenant that wrote it
    overlapF      \* history: two upserts of one path were in flight

fileVars == <<splitF, filesF, writesF, baselineF, batchF, countF, ownerF, overlapF>>

AllTenants == TenantsF \cup {NoTenant}
IdleWriter == [at |-> "idle", tenant |-> NoTenant, path |-> NoTenant, body |-> 0]
NoBatch == [tenant |-> NoTenant, done |-> {}, gen |-> 0]

\* tenant_data: the control database, or the file of the tenant's shard.  A tenant may be
\* called "_legacy", which is the shard of the rows without a tenant.
ShardOf(t) == IF ~splitF THEN "control" ELSE IF t = NoTenant THEN "_legacy" ELSE t

\* WHERE tenant_id IS ?1 AND vault_id = ?2 AND path = ?3.
InScope(r, t, p) == r.db = ShardOf(t) /\ r.tenant = t /\ r.path = p

\* list_files_scoped.
Listed(t) == {r \in filesF : r.db = ShardOf(t) /\ r.tenant = t}

FilesInit ==
    /\ splitF \in BOOLEAN
    /\ filesF = {}
    /\ writesF = [w \in WritersF |-> IdleWriter]
    /\ baselineF = [t \in AllTenants |-> [p \in PathsF |-> 0]]
    /\ batchF = NoBatch
    /\ countF = 0
    /\ ownerF = <<>>
    /\ overlapF = {}

\* upsert_file_scoped, first statement; the row is written or it is not there.
UpsertFile(w) ==
    \E t \in AllTenants, p \in PathsF :
        LET hit == {r \in filesF : InScope(r, t, p)}
            body == countF + 1
            beside == \E o \in WritersF \ {w} : writesF[o].tenant = t /\ writesF[o].path = p
                                                /\ writesF[o].at = "insert" IN
        /\ writesF[w] = IdleWriter
        /\ countF < MaxWritesF
        /\ countF' = body
        /\ ownerF' = [b \in 1 .. body |-> IF b = body THEN t ELSE ownerF[b]]
        /\ filesF' = (filesF \ hit) \cup {[r EXCEPT !.body = body] : r \in hit}
        /\ writesF' = IF hit = {}
                      THEN [writesF EXCEPT ![w] =
                               [at |-> "insert", tenant |-> t, path |-> p, body |-> body]]
                      ELSE writesF
        /\ overlapF' = IF beside THEN overlapF \cup {<<t, p>>} ELSE overlapF
        /\ UNCHANGED <<splitF, baselineF, batchF>>

\* The second statement: the index refuses a second row, but not without a tenant.
InsertFile(w) ==
    LET wr == writesF[w] IN
    /\ wr.at = "insert"
    /\ Cardinality(filesF) < MaxRowsF
    /\ writesF' = [writesF EXCEPT ![w] = IdleWriter]
    /\ filesF' = IF wr.tenant # NoTenant /\ \E r \in filesF : InScope(r, wr.tenant, wr.path)
                 THEN filesF
                 ELSE filesF \cup {[db |-> ShardOf(wr.tenant), tenant |-> wr.tenant,
                                    path |-> wr.path, body |-> wr.body, id |-> wr.body]}
    /\ UNCHANGED <<splitF, baselineF, batchF, countF, ownerF, overlapF>>

\* delete_file_scoped.
DeleteFile ==
    \E t \in AllTenants, p \in PathsF :
        /\ countF < MaxWritesF
        /\ countF' = countF + 1
        /\ ownerF' = [b \in 1 .. countF + 1 |-> IF b = countF + 1 THEN t ELSE ownerF[b]]
        /\ filesF' = {r \in filesF : ~InScope(r, t, p)}
        /\ UNCHANGED <<splitF, writesF, baselineF, batchF, overlapF>>

\* upsert_node_baselines_scoped: one transaction, a row after another.
BeginBatch ==
    \E t \in AllTenants :
        /\ batchF = NoBatch
        /\ countF < MaxWritesF
        /\ countF' = countF + 1
        /\ ownerF' = [b \in 1 .. countF + 1 |-> IF b = countF + 1 THEN t ELSE ownerF[b]]
        /\ batchF' = [tenant |-> t, done |-> {}, gen |-> countF + 1]
        /\ UNCHANGED <<splitF, filesF, writesF, baselineF, overlapF>>

\* Mutant: a row is visible as soon as it is written.
BatchVisible(p) == [baselineF EXCEPT ![batchF.tenant][p] = batchF.gen]

\* What others see while the transaction is open.
BatchSeen(p) == baselineF

BatchRow ==
    \E p \in PathsF \ batchF.done :
        /\ batchF # NoBatch
        /\ batchF' = [batchF EXCEPT !.done = @ \cup {p}]
        /\ baselineF' = BatchSeen(p)
        /\ UNCHANGED <<splitF, filesF, writesF, countF, ownerF, overlapF>>

\* The keys of the table are all NOT NULL (tenant_key is "" for no tenant): a commit
\* leaves one row per path.
CommitBatch ==
    /\ batchF # NoBatch /\ batchF.done = PathsF
    /\ baselineF' = [baselineF EXCEPT ![batchF.tenant] = [p \in PathsF |-> batchF.gen]]
    /\ batchF' = NoBatch
    /\ UNCHANGED <<splitF, filesF, writesF, countF, ownerF, overlapF>>

\* An error, a dropped future or a crash: the transaction is rolled back, an upsert that
\* found no row has written nothing.
WriteStops ==
    /\ \/ batchF # NoBatch /\ batchF' = NoBatch /\ UNCHANGED writesF
       \/ \E w \in WritersF : /\ writesF[w] # IdleWriter
                              /\ writesF' = [writesF EXCEPT ![w] = IdleWriter]
                              /\ UNCHANGED batchF
    /\ UNCHANGED <<splitF, filesF, baselineF, countF, ownerF, overlapF>>

FilesNext ==
    \/ \E w \in WritersF : UpsertFile(w) \/ InsertFile(w)
    \/ DeleteFile \/ BeginBatch \/ BatchRow \/ CommitBatch \/ WriteStops

FilesSpec == FilesInit /\ [][FilesNext]_fileVars

\* A tenant is listed what it wrote and nothing else, in one database or in several, even
\* when its name is that of another tenant's shard.
TenantsApart == \A t \in AllTenants : \A r \in Listed(t) : ownerF[r.body] = t

\* A path has one row per tenant, whatever is written, deleted and interrupted.  Without a
\* tenant the index does not help: two first writes of one path at once (an upload beside
\* the share index) leave two rows, and nothing but a delete removes the second.
OneRowPerPath ==
    \A t \in AllTenants, p \in PathsF :
        (t = NoTenant => <<t, p>> \notin overlapF)
            => Cardinality({r \in Listed(t) : r.path = p}) <= 1

\* The baseline of a node is from one exchange as a whole, never half from an exchange that
\* was interrupted.
BaselineIsWhole ==
    \A t \in AllTenants : \A p, q \in PathsF : baselineF[t][p] = baselineF[t][q]
=============================================================================
