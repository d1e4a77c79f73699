---------------------------- MODULE MCVaultSync -----------------------------
(* Small shares for VaultSync: one path, one or two clients, and the edits *)
(* whose interleavings matter.  Paths do not interact, so one is enough.   *)
EXTENDS VaultSync, TLC

CONSTANTS c1, c2

\* Roles and declared directions of the instances.
AllBidirectional == [c \in Clients |-> "bidirectional"]
SecondFollows == [c \in Clients |-> IF c = c2 THEN "receive_only" ELSE "bidirectional"]

\* Which edit is which does not matter to any property.
EditSymmetry == Permutations(Edits)
=============================================================================
