-------------------------------- MODULE Quota -------------------------------
(***************************************************************************)
(* Plans and the limits an upload is held to (crates/disk-server/src/      *)
(* billing over crates/disk-core/src/billing and meta_db/billing.rs).      *)
(* check_upload reads the plan, the vaults, the bytes in use and the old   *)
(* size of the file; the row that makes the new size count is written much *)
(* later, when the bytes are on disk.                                      *)
(***************************************************************************)
EXTENDS Naturals, FiniteSets, FiniteSetsExt

CONSTANTS
  Payers,       \* tenants
  DefaultPayer, \* the tenant without a name, the only one Stripe's webhook reaches
  Docs,         \* files: each in a vault of its own name
  Sizes,        \* sizes of an upload
  Plans,        \* plan tiers, ordered by what they allow
  StorageLimit, \* max_storage_bytes of a plan
  VaultLimit,   \* max_vaults of a plan
  Chargers,      \* uploads that can be under way at the same time
  Idle,         \* no upload, no row
  MaxQuotaOps   \* bound: uploads, deletions and plan changes

\* An upload beyond the gate, and the row of a document.
Charge == [doc : Payers \X Docs, size : Sizes, at : {"commit", "usage"}]
DocRow == [size : Sizes, deleted : BOOLEAN]

ASSUME QuotaAssumption ==
  /\ Idle \notin Charge \cup DocRow
  /\ DefaultPayer \in Payers /\ Sizes \subseteq Nat /\ MaxQuotaOps \in Nat
  /\ Plans \subseteq Nat /\ Plans # {}
  /\ StorageLimit \in [Plans -> Nat] /\ VaultLimit \in [Plans -> Nat]
  \* PlanTier::limits: a higher tier allows no less.
  /\ \A p, q \in Plans : p <= q => /\ StorageLimit[p] <= StorageLimit[q]
                                  /\ VaultLimit[p] <= VaultLimit[q]

VARIABLES
  tier,       \* tenant_billing
  file,       \* `files`: size and tombstone of each document
  known,      \* tenant_vaults
  upload,     \* uploads between the quota gate and the end of delta_upload
  overlapped, \* history: tenants with two uploads beyond the gate at once
  credited,   \* history: tenants credited with the size of a deleted file
  lowered,    \* history: tenants whose plan came to allow less
  quotaOps

quotaVars == <<tier, file, known, upload, overlapped, credited, lowered, quotaOps>>

QuotaInit ==
  /\ tier = [t \in Payers |-> Min(Plans)]
  /\ file = [d \in Payers \X Docs |-> Idle]
  /\ known = {}
  /\ upload = [c \in Chargers |-> Idle]
  /\ overlapped = {} /\ credited = {} /\ lowered = {} /\ quotaOps = 0

OneMore == quotaOps < MaxQuotaOps /\ quotaOps' = quotaOps + 1

LiveDocs(t) == {d \in {t} \X Docs : file[d] # Idle /\ ~file[d].deleted}

\* sum_storage_bytes
InUse(t) == MapThenSumSet(LAMBDA d : file[d].size, LiveDocs(t))

\* get_file_scoped: a tombstone has a size too.
OldSize(d) == IF file[d] = Idle THEN 0 ELSE file[d].size

Over(t) == \E c \in Chargers : upload[c] # Idle /\ upload[c].doc[1] = t

\* Mutant of WithinStorage: the size of the upload is not added.
WithinStorageBefore(t, size, old) == InUse(t) <= StorageLimit[tier[t]]

\* check_storage_delta, with its saturating subtraction
WithinStorage(t, size, old) ==
  (IF InUse(t) + size >= old THEN InUse(t) + size - old ELSE 0) <= StorageLimit[tier[t]]

KnownTo(t) == {d \in known : d[1] = t}

\* check_vault_capacity
WithinVaults(d) == d \in known \/ Cardinality(KnownTo(d[1])) < VaultLimit[tier[d[1]]]

\* check_upload
CheckUpload(c, d, size) ==
  /\ OneMore /\ upload[c] = Idle
  /\ WithinVaults(d) /\ WithinStorage(d[1], size, OldSize(d))
  /\ overlapped' = IF Over(d[1]) THEN overlapped \cup {d[1]} ELSE overlapped
  /\ credited' = IF file[d] # Idle /\ file[d].deleted THEN credited \cup {d[1]} ELSE credited
  /\ upload' = [upload EXCEPT ![c] = [doc |-> d, size |-> size, at |-> "commit"]]
  /\ UNCHANGED <<tier, file, known, lowered>>

\* The row of the upload
CommitCharged(c) ==
  /\ upload[c] # Idle /\ upload[c].at = "commit"
  /\ file' = [file EXCEPT ![upload[c].doc] = [size |-> upload[c].size, deleted |-> FALSE]]
  /\ upload' = [upload EXCEPT ![c].at = "usage"]
  /\ UNCHANGED <<tier, known, overlapped, credited, lowered, quotaOps>>

\* record_vault_usage
RecordUsage(c) ==
  /\ upload[c] # Idle /\ upload[c].at = "usage"
  /\ known' = known \cup {upload[c].doc}
  /\ upload' = [upload EXCEPT ![c] = Idle]
  /\ UNCHANGED <<tier, file, overlapped, credited, lowered, quotaOps>>

UploadFails(c) ==
  /\ upload[c] # Idle
  /\ upload' = [upload EXCEPT ![c] = Idle]
  /\ UNCHANGED <<tier, file, known, overlapped, credited, lowered, quotaOps>>

TombstoneDoc(d) ==
  /\ OneMore
  /\ d \in LiveDocs(d[1])
  /\ file' = [file EXCEPT ![d].deleted = TRUE]
  /\ UNCHANGED <<tier, known, upload, overlapped, credited, lowered>>

Becomes(t, p) ==
  /\ OneMore
  /\ tier' = [tier EXCEPT ![t] = p]
  /\ lowered' = IF p < tier[t] THEN lowered \cup {t} ELSE lowered
  /\ UNCHANGED <<file, known, upload, overlapped, credited>>

\* stripe_webhook, for an active subscription: whatever comes last holds.
StripeWebhook(p) == Becomes(DefaultPayer, p)

\* set_plan_tier(tenant, Free) by the signup of another account of the tenant
SignupPlan(t) == t # DefaultPayer /\ Becomes(t, Min(Plans))

QuotaNext ==
  \/ \E c \in Chargers : \/ \E d \in Payers \X Docs, size \in Sizes : CheckUpload(c, d, size)
                        \/ CommitCharged(c) \/ RecordUsage(c) \/ UploadFails(c)
  \/ \E d \in Payers \X Docs : TombstoneDoc(d)
  \/ \E p \in Plans : StripeWebhook(p)
  \/ \E t \in Payers : SignupPlan(t)

QuotaSpec == QuotaInit /\ [][QuotaNext]_quotaVars

-----------------------------------------------------------------------------
\* A tenant stores no more than its plan allows, unless two of its uploads were
\* beyond the gate together, a re-created file was credited with the bytes of
\* its tombstone (which sum_storage_bytes does not count), or the plan was
\* lowered ("Reject upload when projected storage exceeds the tenant plan").
StorageWithinPlan ==
  \A t \in Payers : t \in overlapped \cup credited \cup lowered \/ InUse(t) <= StorageLimit[tier[t]]

\* A tenant has no more vaults than its plan allows, unless uploads overlapped
\* or the plan was lowered.
VaultsWithinPlan ==
  \A t \in Payers : t \in overlapped \cup lowered \/ Cardinality(KnownTo(t)) <= VaultLimit[tier[t]]

\* The limits of a plan hold, for bytes and for vaults (enforcer.rs).
WithinPlan == StorageWithinPlan /\ VaultsWithinPlan
=============================================================================
