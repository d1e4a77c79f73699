---------------------------- MODULE ParentVault ----------------------------
(***************************************************************************)
(* The parent process of the personal vault: Parent (parent_adapter.rs)    *)
(* over NativeAuthority (parent_authority.rs), NativeStorage               *)
(* (parent_native.rs) and SqliteBackend (parent_backend.rs).  One capture  *)
(* of one or two parts is staged part by part and may be cancelled and     *)
(* cleaned up.  A call is a chain of transactions; a transaction that      *)
(* fails poisons the backend until it is opened again, and whether its     *)
(* commit reached the disk is then unknown.                                *)
(***************************************************************************)
EXTENDS Naturals, FiniteSets

CONSTANTS
  Parts,       \* the parts of the capture
  Whole,       \* the resource of the capture itself, the subject of a cleanup
  Lineages,    \* original effects: lease, receipt id and sequence of an outcome
  MaxJournal,  \* rows the owner journal takes
  MaxCallsPV,  \* bound on calls and crashes
  Nil

\* The rows of the tables, and a call under way.
AttemptRows == [state : {"prepared", "committed"}, lineage : Lineages]
ObjectRows == [body : BOOLEAN, lineage : Lineages]
CallsPV == [subject : Parts \cup {Whole}, lineage : Lineages,
            at : {"prepare", "commit", "register", "tombstone", "erase"}]

ASSUME ParentAssumption ==
  /\ Whole \notin Parts
  /\ Nil \notin {"live", "cancelled"} \cup AttemptRows \cup ObjectRows \cup CallsPV

VARIABLES
  capture,    \* captures row: Nil, "live" or "cancelled"
  attempt,    \* attempts rows: the state and the lineage proposed
  object,     \* objects rows: whether the body is there, and the outcome
  ownerLog,   \* owner_journal rows
  poisoned,   \* SqliteBackend::uncertain
  call,       \* the call under way
  cancelledBy,\* Control: Product has registered a terminal cancellation
  registered, \* Control: the owner outcomes registered
  callsPV

pvDisk == <<capture, attempt, object, ownerLog>>
pvVars == <<pvDisk, poisoned, call, cancelledBy, registered, callsPV>>

LogRow(r, l) == [resource |-> r, lineage |-> l]

ParentInit ==
  /\ capture = Nil
  /\ attempt = [p \in Parts |-> Nil]
  /\ object = [p \in Parts |-> Nil]
  /\ ownerLog = {} /\ registered = {}
  /\ poisoned = FALSE /\ call = Nil /\ cancelledBy = FALSE /\ callsPV = 0

Rows(r) == {j \in ownerLog : j.resource = r}

\* observe_context for the part p, under the lineage l; fresh: Control's lookup
\* says that the original effect did not commit
ObservePart(p, l, fresh) ==
  IF capture = "cancelled" THEN "CleanupPending"
  ELSE IF attempt[p] # Nil /\ attempt[p].state = "prepared"
  THEN IF object[p] = Nil /\ Rows(p) = {} THEN "Prepared" ELSE "Corrupt"
  ELSE IF object[p] # Nil
  THEN IF attempt[p] = Nil THEN "Corrupt"
       ELSE IF object[p].lineage # l THEN "Conflict"
       ELSE IF Rows(p) # {LogRow(p, l)} \/ attempt[p].lineage # l THEN "Corrupt"
       ELSE "Durable"
  ELSE IF attempt[p] # Nil \/ Rows(p) # {} THEN "Corrupt"
  ELSE IF fresh THEN "Unseen" ELSE "Unknown"

\* observe_context for the capture as a whole
ObserveWhole(l, fresh) ==
  IF capture = "cancelled"
  THEN IF Cardinality(Rows(Whole)) > 1 THEN "Corrupt"
       ELSE IF Rows(Whole) = {} THEN "CleanupPending"
       ELSE IF Rows(Whole) # {LogRow(Whole, l)} THEN "Conflict"
       ELSE "CancelledCleaned"
  ELSE IF Rows(Whole) # {} THEN "Corrupt"
  ELSE IF fresh THEN "Unseen" ELSE "Unknown"

\* NativeAuthority::with_startup and with_effect, Parent::authorized: a call
\* runs under one live effect, and SqliteBackend::ready
Admitted == call = Nil /\ ~poisoned /\ callsPV < MaxCallsPV /\ callsPV' = callsPV + 1

PvAt(pc) == call # Nil /\ call.at = pc
PvTo(pc) == call' = [call EXCEPT !.at = pc]

\* Parent::write_or_reconcile: what the inventory shows decides
WriteOrReconcile(p, l, fresh) ==
  /\ Admitted
  /\ LET seen == ObservePart(p, l, fresh)
     IN  call' = CASE seen = "Durable" -> [subject |-> p, lineage |-> l, at |-> "register"]
                   [] seen = "Unseen" -> [subject |-> p, lineage |-> l, at |-> "prepare"]
                   [] OTHER -> Nil
  /\ UNCHANGED <<pvDisk, poisoned, cancelledBy, registered>>

\* SqliteBackend::transaction.  A statement that fails is rolled back and a
\* COMMIT that fails may yet have happened; either way the backend is poisoned.
Fails == poisoned' = TRUE /\ call' = Nil

\* PRIMARY KEY (resource) and UNIQUE (lease) of attempts
AttemptFree(p, l) ==
  attempt[p] = Nil /\ \A q \in Parts : attempt[q] # Nil => attempt[q].lineage # l

\* UNIQUE (owner_receipt), (lease), (sequence) of owner_journal
LogFree(l) == \A j \in ownerLog : j.lineage # l

\* stage_context, first transaction: the capture and a prepared attempt
Prepare ==
  /\ PvAt("prepare")
  /\ LET p == call.subject
         done == /\ capture' = IF capture = Nil THEN "live" ELSE capture
                 /\ attempt' = [attempt EXCEPT ![p] = [state |-> "prepared",
                                                       lineage |-> call.lineage]]
         possible == capture # "cancelled" /\ AttemptFree(p, call.lineage)
     IN  \/ possible /\ done /\ PvTo("commit") /\ UNCHANGED poisoned
         \/ possible /\ done /\ Fails
         \/ UNCHANGED <<capture, attempt>> /\ Fails
  /\ UNCHANGED <<object, ownerLog, cancelledBy, registered, callsPV>>

\* journal: refused, without poison, once it is full
LogFull == Cardinality(ownerLog) >= MaxJournal

\* stage_context, second transaction: bytes, inventory and journal together
Commit ==
  /\ PvAt("commit")
  /\ LET p == call.subject
         done == /\ object' = [object EXCEPT ![p] = [body |-> TRUE, lineage |-> call.lineage]]
                 /\ attempt' = [attempt EXCEPT ![p].state = "committed"]
                 /\ ownerLog' = ownerLog \cup {LogRow(p, call.lineage)}
         rolledBack == UNCHANGED <<object, attempt, ownerLog>>
         possible == capture = "live" /\ ~LogFull /\ LogFree(call.lineage)
     IN  \/ LogFull /\ rolledBack /\ call' = Nil /\ UNCHANGED poisoned
         \/ possible /\ done /\ PvTo("register") /\ UNCHANGED poisoned
         \/ possible /\ done /\ Fails
         \/ ~LogFull /\ rolledBack /\ Fails
  /\ UNCHANGED <<capture, cancelledBy, registered, callsPV>>

\* read_context, verify_exact_readback: the bytes themselves, committed and not
\* cancelled
Durable(p) ==
  /\ capture = "live"
  /\ object[p] # Nil /\ object[p].body
  /\ attempt[p] # Nil /\ attempt[p].state = "committed"

\* Parent::confirmed, register_outcome: the acknowledgement may be lost
Register ==
  /\ PvAt("register")
  /\ call' = Nil
  /\ \/ /\ call.subject # Whole => Durable(call.subject)
        /\ registered' = registered \cup {LogRow(call.subject, call.lineage)}
     \/ UNCHANGED registered
  /\ UNCHANGED <<pvDisk, poisoned, cancelledBy, callsPV>>

\* Product registers a terminal cancellation with Control
CancelCapture ==
  /\ ~cancelledBy
  /\ cancelledBy' = TRUE
  /\ UNCHANGED <<pvDisk, poisoned, call, registered, callsPV>>

\* Parent::cleanup: the cancellation is authenticated before the inventory is
\* read
CleanUp(l, fresh) ==
  /\ Admitted
  /\ cancelledBy
  /\ LET seen == ObserveWhole(l, fresh)
     IN  call' = CASE seen = "CancelledCleaned" ->
                        [subject |-> Whole, lineage |-> l, at |-> "register"]
                   [] seen \in {"Unseen", "CleanupPending"} ->
                        [subject |-> Whole, lineage |-> l, at |-> "tombstone"]
                   [] OTHER -> Nil
  /\ UNCHANGED <<pvDisk, poisoned, cancelledBy, registered>>

\* Mutant of NothingPrepared: prepared attempts without an object are overlooked.
NothingPreparedSeen == \A p \in Parts : object[p] # Nil => attempt[p].state = "committed"

\* tombstone_context: an attempt that is not committed holds up the cleanup
NothingPrepared == \A p \in Parts : attempt[p] # Nil => attempt[p].state = "committed"

\* tombstone_context
Tombstone ==
  /\ PvAt("tombstone")
  /\ \/ ~NothingPrepared /\ call' = Nil /\ UNCHANGED <<capture, poisoned>>
     \/ NothingPrepared /\ capture' = "cancelled" /\ PvTo("erase") /\ UNCHANGED poisoned
     \/ NothingPrepared /\ capture' = "cancelled" /\ Fails
     \/ UNCHANGED capture /\ Fails
  /\ UNCHANGED <<attempt, object, ownerLog, cancelledBy, registered, callsPV>>

\* UPDATE objects SET body=NULL: receipt and outcome stay
WithoutBody(o) == [o EXCEPT !.body = FALSE]

\* cleanup_context: a row of the capture ends it, else bodies and journal go
\* together
Erase ==
  /\ PvAt("erase")
  /\ LET done == /\ object' = [p \in Parts |-> IF object[p] # Nil THEN WithoutBody(object[p])
                                                                  ELSE Nil]
                 /\ ownerLog' = ownerLog \cup {LogRow(Whole, call.lineage)}
         rolledBack == UNCHANGED <<object, ownerLog>>
         existing == Rows(Whole) # {}
         possible == ~existing /\ ~LogFull /\ LogFree(call.lineage)
     IN  \/ existing /\ rolledBack /\ UNCHANGED poisoned
            /\ IF Rows(Whole) = {LogRow(Whole, call.lineage)} THEN PvTo("register") ELSE call' = Nil
         \/ ~existing /\ LogFull /\ rolledBack /\ call' = Nil /\ UNCHANGED poisoned
         \/ possible /\ done /\ PvTo("register") /\ UNCHANGED poisoned
         \/ possible /\ done /\ Fails
         \/ ~existing /\ ~LogFull /\ rolledBack /\ Fails
  /\ UNCHANGED <<capture, attempt, cancelledBy, registered, callsPV>>

\* The process stops and the database is opened again, rolled back to its last
\* commit
Reopen ==
  /\ callsPV < MaxCallsPV /\ callsPV' = callsPV + 1
  /\ poisoned \/ call # Nil
  /\ poisoned' = FALSE /\ call' = Nil
  /\ UNCHANGED <<pvDisk, cancelledBy, registered>>

ParentNext ==
  \/ \E l \in Lineages, fresh \in BOOLEAN :
       CleanUp(l, fresh) \/ \E p \in Parts : WriteOrReconcile(p, l, fresh)
  \/ Prepare \/ Commit \/ Register \/ CancelCapture \/ Tombstone \/ Erase \/ Reopen

ParentSpec == ParentInit /\ [][ParentNext]_pvVars

-----------------------------------------------------------------------------
(* Whatever fails, and wherever the process stops, the inventory never     *)
(* shows a state observe_context calls corrupt: the attempt, the object    *)
(* and the journal row of a part change together.                          *)
InventoryCoherent ==
  \A l \in Lineages, fresh \in BOOLEAN :
    /\ ObserveWhole(l, fresh) # "Corrupt"
    /\ \A p \in Parts : ObservePart(p, l, fresh) # "Corrupt"

(* An outcome that Control has registered is on the disk, so a retry after *)
(* a lost acknowledgement or a crash finds the same outcome; no effect is  *)
(* recorded for two resources, and no resource has two outcomes            *)
(* (write_or_reconcile, cleanup).                                          *)
RegisteredIsDurable ==
  /\ registered \subseteq ownerLog
  /\ \A j, k \in ownerLog : j.resource = k.resource \/ j.lineage = k.lineage => j = k

(* When the journal says a capture was cleaned, every body of it is gone   *)
(* and none is still under way (tombstone_context, cleanup_context).       *)
CleanedMeansGone ==
  Rows(Whole) # {} =>
    /\ capture = "cancelled"
    /\ \A p \in Parts : /\ object[p] # Nil => ~object[p].body
                        /\ attempt[p] # Nil => attempt[p].state = "committed"

(* Bytes are written once: an attempt is made at most once per part, a     *)
(* body that was removed never comes back whatever is retried, and the     *)
(* receipts outlive the bodies ("Keep historical D receipts").             *)
NoReplay ==
  \A p \in Parts :
    /\ attempt[p] # Nil => attempt'[p] # Nil /\ attempt'[p].lineage = attempt[p].lineage
    /\ object[p] # Nil =>
         /\ object'[p] # Nil /\ object'[p].lineage = object[p].lineage
         /\ object'[p].body => object[p].body

(* The inventory, the owner journal and Control never disagree: after each *)
(* step, crash or retry the rows are coherent, what was registered is on   *)
(* disk, what was cleaned is gone and nothing was written twice.           *)
VaultSound ==
  [][NoReplay /\ InventoryCoherent' /\ RegisteredIsDurable' /\ CleanedMeansGone']_pvVars
=============================================================================
