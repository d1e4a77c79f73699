----------------------------- MODULE Reconciler -----------------------------
(***************************************************************************)
(* The decision tree of the reconciliation engine                          *)
(* (crates/disk-core/src/reconciler/tree.rs): what to do with one path,    *)
(* given the metadata the local side, the remote side and the index hold   *)
(* of it.  None is Rust's Option::None (the side never saw the path); a    *)
(* record with deleted = TRUE is a tombstone, which keeps its hash.        *)
(***************************************************************************)
EXTENDS Naturals

(***************************************************************************)
(* Vector clocks of disk-core (crates/disk-core/src/vector_clock.rs).      *)
(*                                                                         *)
(* The code keeps a BTreeMap from node id to u64 and reads an absent node  *)
(* as 0, so a clock is modelled as a total function that is 0 wherever the *)
(* map has no entry.  A counter saturates at MaxTick, the code's u64::MAX. *)
(***************************************************************************)

CONSTANTS Nodes,      \* node identifiers that may own a counter
          MaxTick     \* the value at which a counter saturates

ASSUME MaxTickAssumption == MaxTick \in Nat \ {0}

Clock == [Nodes -> 0..MaxTick]

\* VectorClock::new: no entry, hence 0 for every node.
ZeroClock == [n \in Nodes |-> 0]

\* VectorClock::advance: one more tick of `node`, saturating.
Advance(c, node) ==
  [c EXCEPT ![node] = IF c[node] = MaxTick THEN MaxTick ELSE c[node] + 1]

\* VectorClock::merge: the larger counter of every node.
Merge(a, b) == [n \in Nodes |-> IF b[n] > a[n] THEN b[n] ELSE a[n]]

\* VectorClock::compare: who is behind whom on at least one counter.
Compare(a, b) ==
  LET selfBehind  == \E n \in Nodes : a[n] < b[n]
      otherBehind == \E n \in Nodes : a[n] > b[n]
  IN  CASE ~selfBehind /\ ~otherBehind -> "Equal"
        []  selfBehind /\ ~otherBehind -> "Before"
        [] ~selfBehind /\  otherBehind -> "After"
        []  selfBehind /\  otherBehind -> "Concurrent"

HappensBefore(a, b) == Compare(a, b) = "Before"

-----------------------------------------------------------------------------
CONSTANTS Hashes,     \* content hashes
          None        \* Option::None

Meta == [hash : Hashes, deleted : BOOLEAN, clock : Clock]

ASSUME NoneAssumption == None \notin Meta

MaybeMeta == Meta \cup {None}

\* l_present, r_present, i_present
Present(m) == m # None /\ ~m.deleted

\* Mutant of Tomb: tombstones are not recognised at all.
TombIgnored(m) == FALSE

\* l_tomb, r_tomb, i_tomb
Tomb(m) == m # None /\ m.deleted

\* hashes_eq: FALSE as soon as one side is missing.
HashesEq(a, b) == a # None /\ b # None /\ a.hash = b.hash

\* Mutant of ClockCompare: a missing causal order is read as "remote is newer".
ClockCompareOptimistic(a, b) ==
  IF a # None /\ b # None /\ Compare(a.clock, b.clock) = "After" THEN "After" ELSE "Before"

\* clock_compare
ClockCompare(a, b) ==
  IF a # None /\ b # None THEN Compare(a.clock, b.clock) ELSE "Concurrent"

ActionTypes == {"Upload", "Download", "DeleteLocal", "DeleteRemote",
                "ConflictFork", "Skip"}
ConflictKinds == {"none", "Concurrent", "ModifiedDeleted"}

\* make, make_with_conflict
Make(action) == [action |-> action, conflict |-> "none"]
MakeWithConflict(action, kind) == [action |-> action, conflict |-> kind]

\* Scenarios 5-8: all three hold a live record.
ResolveThreeWay(local, remote, indexed) ==
  LET lChanged == ~HashesEq(local, indexed)
      rChanged == ~HashesEq(remote, indexed)
      causality == ClockCompare(local, remote)
  IN  CASE ~lChanged /\ ~rChanged -> Make("Skip")
        []  lChanged /\ ~rChanged -> Make("Upload")
        [] ~lChanged /\  rChanged -> Make("Download")
        []  lChanged /\  rChanged ->
              CASE HashesEq(local, remote) -> Make("Skip")
                [] ~HashesEq(local, remote) /\ causality = "Before" -> Make("Download")
                [] ~HashesEq(local, remote) /\ causality = "After" -> Make("Upload")
                [] OTHER -> MakeWithConflict("ConflictFork", "Concurrent")

\* resolve_one.  One arm per branch of the code and in its order; the guards
\* exclude each other, so the order of the arms does not matter.  OTHER is the
\* code's ReconcileError::Inconsistent.
ResolveOne(local, remote, indexed) ==
  CASE Present(local) /\ remote = None /\ indexed = None -> Make("Upload")
    [] local = None /\ Present(remote) /\ indexed = None -> Make("Download")
    [] Present(local) /\ Present(remote) /\ indexed = None ->
         IF HashesEq(local, remote) THEN Make("Skip")
                                    ELSE MakeWithConflict("ConflictFork", "Concurrent")
    [] Present(local) /\ Present(remote) /\ Present(indexed) ->
         ResolveThreeWay(local, remote, indexed)
    [] Tomb(local) /\ Present(remote) /\ Present(indexed) ->
         IF HashesEq(remote, indexed) THEN Make("DeleteRemote")
                                      ELSE MakeWithConflict("Download", "ModifiedDeleted")
    [] Present(local) /\ Tomb(remote) /\ Present(indexed) ->
         IF HashesEq(local, indexed) THEN Make("DeleteLocal")
                                     ELSE MakeWithConflict("Upload", "ModifiedDeleted")
    [] Tomb(local) /\ Tomb(remote) -> Make("Skip")
    [] Present(local) /\ remote = None /\ Tomb(indexed) ->
         IF HashesEq(local, indexed) THEN Make("Skip") ELSE Make("Upload")
    [] local = None /\ Present(remote) /\ Tomb(indexed) -> Make("Download")
    [] Present(local) /\ Present(remote) /\ Tomb(indexed) ->
         IF HashesEq(local, remote) THEN Make("Skip")
                                    ELSE MakeWithConflict("Download", "ModifiedDeleted")
    [] Present(local) /\ Tomb(remote) /\ ~Present(indexed) ->
         MakeWithConflict("Upload", "ModifiedDeleted")
    [] Tomb(local) /\ Present(remote) /\ indexed = None ->
         MakeWithConflict("Download", "ModifiedDeleted")
    [] Tomb(local) /\ Present(remote) /\ Tomb(indexed) -> Make("Download")
    [] local = None /\ Tomb(remote) -> Make("DeleteLocal")
    [] Tomb(local) /\ remote = None /\ Tomb(indexed) -> Make("Skip")
    [] Tomb(local) /\ remote = None /\ ~Tomb(indexed) -> Make("DeleteRemote")
    [] local = None /\ remote = None -> Make("Skip")
    [] Present(local) /\ remote = None /\ Present(indexed) ->
         IF HashesEq(local, indexed) THEN Make("DeleteLocal")
                                     ELSE MakeWithConflict("Upload", "ModifiedDeleted")
    [] local = None /\ Present(remote) /\ Present(indexed) ->
         IF HashesEq(remote, indexed) THEN Make("DeleteRemote")
                                      ELSE MakeWithConflict("Download", "ModifiedDeleted")
    [] OTHER -> Make("Inconsistent")
=============================================================================

