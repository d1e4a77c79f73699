------------------------------ MODULE AclReload ------------------------------
(***************************************************************************)
(* The server's access list: disk-acl.yaml with its detached signature,    *)
(* the loader's pipeline, the reload loop with its two triggers and its    *)
(* debounce, and the enforcer every RPC asks (disk-server/src/acl).        *)
(* An entry that is disabled, and the fingerprints' hex form, are data.    *)
(***************************************************************************)
EXTENDS Naturals

CONSTANTS
  Certs,       \* certificate fingerprints (one share)
  AclRoles,    \* the four roles
  AclBodies,   \* file bodies an operator writes: [parses, version, nodes]
  FirstBody,
  MaxAclOps,   \* bound on edits, signals and restarts
  NoBody,      \* no file
  NoRole       \* no entry

\* What disk-acl.yaml may hold; a version is a u64, and may be 0.
AclFiles == AclBodies \cup {FirstBody}

ASSUME AclAssumption == NoBody \notin AclFiles /\ \A b \in AclFiles : b.version \in Nat

VARIABLES
  yaml,        \* disk-acl.yaml
  sig,         \* the body the .asc beside it was made for
  aclWatch,    \* the watch is in place
  aclEvents,   \* () in fs_tx's channel, at most one counted: more are coalesced
  sighup,      \* a signal is pending
  aclLoop,     \* "load" (start-up), "wait", "debounce", "verify"
  bytes,       \* what load_from_yaml has read
  enforcer,    \* "loaded" or why not
  table,       \* the enforcement table, when loaded
  storedVersion, \* stored_version of the loop
  lastTable,   \* last_table: whether one was loaded before
  invalidations, \* SessionInvalidate sent
  aclNoticed,  \* history: the last edit raised an event
  aclOps

aclVars == <<yaml, sig, aclWatch, aclEvents, sighup, aclLoop, bytes, enforcer, table,
             storedVersion, lastTable, invalidations, aclNoticed, aclOps>>

EmptyTable == [version |-> 0, nodes |-> [c \in Certs |-> NoRole]]

\* start_reload_loop with AclEnforcer::new_unhealthy: nothing is granted before
\* the first load.  The watcher thread and the first load run side by side.
AclInit ==
  /\ yaml \in {NoBody, FirstBody} /\ sig = FirstBody
  /\ aclWatch = FALSE /\ aclEvents = FALSE /\ sighup = FALSE
  /\ aclLoop = "load" /\ bytes = NoBody
  /\ enforcer = "NeverLoaded" /\ table = EmptyTable
  /\ storedVersion = 0 /\ lastTable = FALSE /\ invalidations = 0
  /\ aclNoticed = TRUE /\ aclOps = 0

AclTick == aclOps < MaxAclOps /\ aclOps' = aclOps + 1

WatchArmed ==
  /\ ~aclWatch
  /\ aclWatch' = TRUE
  /\ UNCHANGED <<yaml, sig, aclEvents, sighup, aclLoop, bytes, enforcer, table,
                 storedVersion, lastTable, invalidations, aclNoticed, aclOps>>

\* The directory is watched: any Create or Modify in it triggers, a Remove does not
Notify(event) ==
  /\ aclEvents' = (aclEvents \/ (aclWatch /\ event))
  /\ aclNoticed' = (aclWatch /\ event)
  /\ UNCHANGED <<aclWatch, sighup, aclLoop, bytes, enforcer, table,
                 storedVersion, lastTable, invalidations>>

WriteYaml(b) == AclTick /\ b # yaml /\ yaml' = b /\ Notify(TRUE) /\ UNCHANGED sig
WriteSignature == AclTick /\ sig # yaml /\ sig' = yaml /\ Notify(TRUE) /\ UNCHANGED yaml
RemoveYaml == AclTick /\ yaml # NoBody /\ yaml' = NoBody /\ Notify(FALSE) /\ UNCHANGED sig

SendSighup ==
  /\ AclTick /\ sighup' = TRUE
  /\ UNCHANGED <<yaml, sig, aclWatch, aclEvents, aclLoop, bytes, enforcer, table,
                 storedVersion, lastTable, invalidations, aclNoticed>>

\* reload_loop: a trigger starts the window, in which events are drained
Triggered ==
  /\ aclLoop = "wait"
  /\ \/ aclEvents /\ aclEvents' = FALSE /\ UNCHANGED sighup
     \/ sighup /\ sighup' = FALSE /\ UNCHANGED aclEvents
  /\ aclLoop' = "debounce"
  /\ UNCHANGED <<yaml, sig, aclWatch, bytes, enforcer, table,
                 storedVersion, lastTable, invalidations, aclNoticed, aclOps>>

Drain ==
  /\ aclLoop = "debounce" /\ aclEvents
  /\ aclEvents' = FALSE
  /\ UNCHANGED <<yaml, sig, aclWatch, sighup, aclLoop, bytes, enforcer, table,
                 storedVersion, lastTable, invalidations, aclNoticed, aclOps>>

\* into_unhealthy_reason: AclState::Unhealthy, whatever was loaded before
Unhealthy(reason) ==
  /\ enforcer' = reason /\ table' = EmptyTable
  /\ UNCHANGED <<storedVersion, lastTable, invalidations>>

\* load_from_yaml: read the file
ReadYaml ==
  /\ aclLoop \in {"load", "debounce"}
  /\ IF yaml = NoBody
     THEN aclLoop' = "wait" /\ Unhealthy("FileMissing") /\ UNCHANGED bytes
     ELSE /\ aclLoop' = "verify" /\ bytes' = yaml
          /\ UNCHANGED <<enforcer, table, storedVersion, lastTable, invalidations>>
  /\ UNCHANGED <<yaml, sig, aclWatch, aclEvents, sighup, aclNoticed, aclOps>>

\* GpgVerifier::verify of the bytes read, with the signature as it is now
Verified == bytes = sig

\* Mutant of Regress: the version is compared with that of the table in force.
RegressOfTable == enforcer = "loaded" /\ bytes.version <= table.version

Regress == bytes.version <= storedVersion /\ storedVersion > 0

\* every role must be one of the four (BadRole)
RolesKnown == \A c \in Certs : bytes.nodes[c] \in AclRoles \cup {NoRole}

\* AclEnforcer::try_swap
Swapped == enforcer' = "loaded" /\ table' = [version |-> bytes.version, nodes |-> bytes.nodes]

\* apply_load: the outcome of the pipeline is applied.  An old version is
\* refused and whatever state there is is kept.
ApplyLoad ==
  /\ aclLoop = "verify"
  /\ aclLoop' = "wait" /\ bytes' = NoBody
  /\ IF ~Verified THEN Unhealthy("SignatureFailed")
     ELSE IF ~bytes.parses THEN Unhealthy("ParseError")
     ELSE IF Regress
     THEN UNCHANGED <<enforcer, table, storedVersion, lastTable, invalidations>>
     ELSE IF ~RolesKnown THEN Unhealthy("ParseError")
     ELSE /\ storedVersion' = bytes.version
          /\ invalidations' = IF lastTable THEN invalidations + 1 ELSE invalidations
          /\ lastTable' = TRUE
          /\ Swapped
  /\ UNCHANGED <<yaml, sig, aclWatch, aclEvents, sighup, aclNoticed, aclOps>>

\* AclEnforcer::resolve
Resolve(c) == IF enforcer = "loaded" THEN table.nodes[c] ELSE NoRole

AclStep == Triggered \/ Drain \/ ReadYaml \/ ApplyLoad

AclNext ==
  \/ WatchArmed
  \/ \E b \in AclBodies : WriteYaml(b)
  \/ WriteSignature \/ RemoveYaml \/ SendSighup
  \/ Triggered \/ Drain \/ ReadYaml \/ ApplyLoad

AclSpec == AclInit /\ [][AclNext]_aclVars
AclFairSpec == AclSpec /\ WF_aclVars(AclStep)

(***************************************************************************)
(* Properties                                                              *)
(***************************************************************************)
\* While the server runs no list as old as one it has served is served again,
\* across failed loads in between (loader.rs version check, reload.rs
\* stored_version kept over Unhealthy), but for lists of version 0, which the
\* check does not tell from a cold boot.
AclNeverRegresses ==
  [][enforcer' = "loaded" /\ table' # table =>
       table'.version > storedVersion \/ (table'.version = 0 /\ storedVersion = 0)]_aclVars

\* A valid, signed and newer list whose last edit was noticed is served in the
\* end: neither the debounce nor a load under way swallows the trigger, and a
\* load that fell between the two files of a list is made up for.
AclCatchesUp ==
  LET good == /\ aclNoticed /\ yaml # NoBody /\ yaml = sig /\ yaml.parses
              /\ \A c \in Certs : yaml.nodes[c] \in AclRoles \cup {NoRole}
  IN (good /\ yaml.version > storedVersion)
       ~> (~good \/ \A c \in Certs : Resolve(c) = yaml.nodes[c])

\* The list served never goes back and reaches the newest valid one (reload.rs).
AclSound == AclNeverRegresses /\ AclCatchesUp
==============================================================================
