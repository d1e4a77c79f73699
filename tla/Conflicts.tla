----------------------------- MODULE Conflicts -----------------------------
(***************************************************************************)
(* Conflicts on the client: the sync loop forks or merges what the server  *)
(* reports as concurrent and records a row; the daemon's REST surface      *)
(* resolves the rows.  Both work on the same files, and so does the user.  *)
(* A file body is the set of edits it contains: a merge that is clean      *)
(* contains the new edits of both.  One path per share is modelled.      *)
(***************************************************************************)
EXTENDS Naturals, Sequences, FiniteSets

CONSTANTS Roots,        \* shares, each with its own storage root
          Edits,        \* edits that users and other nodes make
          MaxSecond,    \* bound on the clock whose second names a fork
          MaxRowsC,     \* bound on the conflict rows
          MaxCollision, \* MAX_COLLISION_ATTEMPTS
          MaxTouches,   \* bound on requests, removals, restarts and seconds
          NoBodyC       \* an absent file

ASSUME ConflictsAssumption == MaxSecond \in Nat /\ MaxCollision \in Nat \ {0}

VARIABLES live,      \* live[s]: the body of the live file, or NoBodyC
          server,    \* server[s]: the server's body
          follower,  \* the receive-only shares
          baseC,     \* baseC[s]: the ancestor held by the blob cache, or NoBodyC
          forks,     \* forks[s]: name -> body of the conflict copies on disk
          rowsC,     \* the conflicts table by id; a row is open, resolved or gone
          applying,  \* applying[s]: the cycle's work on its conflict
          resolving, \* the resolve request that is being served
          second,    \* wall-clock seconds
          made,      \* edits made so far
          touches    \* requests, removals, restarts and seconds so far
conflictVars ==
  <<live, server, follower, baseC, forks, rowsC, applying, resolving, second, made, touches>>
Touch == touches < MaxTouches /\ touches' = touches + 1

Actions == {"fork-local", "fork-remote", "merge", "keep-local", "keep-remote"}
IdleC == [at |-> "idle"]
ForkName == [tag : {"node", "caf00000", "ee000000"}, sec : 0..MaxSecond,
             n : 0..(MaxCollision - 1)]
Edited(b) == IF b = NoBodyC THEN {} ELSE b
Kept(s) == Edited(live[s]) \cup UNION {forks[s][f] : f \in DOMAIN forks[s]}

ConflictsInit ==
  /\ live = [s \in Roots |-> {}] /\ server = [s \in Roots |-> {}]
  /\ follower \in SUBSET Roots
  /\ baseC = [s \in Roots |-> NoBodyC]
  /\ forks = [s \in Roots |-> <<>>]
  /\ rowsC = <<>> /\ second = 0 /\ made = {} /\ touches = 0
  /\ applying = [s \in Roots |-> IdleC] /\ resolving = IdleC

(* The user saves or deletes the live file, or tidies a conflict copy of an
   earlier second away; another node's upload reaches the server; a second passes. *)
Save(s, e) ==
  /\ e \notin made /\ made' = made \cup {e}
  /\ live' = [live EXCEPT ![s] = Edited(@) \cup {e}]
  /\ UNCHANGED <<server, baseC, follower, forks, rowsC, applying, resolving, second, touches>>
RemoveLive(s) ==
  /\ live[s] # NoBodyC /\ Edited(live[s]) # {}
  /\ live' = [live EXCEPT ![s] = NoBodyC]
  /\ Touch
  /\ UNCHANGED <<server, baseC, follower, forks, rowsC, applying, resolving, second, made>>
TidyFork(s, f) ==
  /\ f.sec < second
  /\ forks' = [forks EXCEPT ![s] = [g \in DOMAIN @ \ {f} |-> @[g]]]
  /\ Touch
  /\ UNCHANGED <<live, server, baseC, follower, rowsC, applying, resolving, second, made>>
OtherNode(s, e) ==
  /\ e \notin made /\ made' = made \cup {e}
  /\ server' = [server EXCEPT ![s] = @ \cup {e}]
  /\ UNCHANGED <<live, baseC, follower, forks, rowsC, applying, resolving, second, touches>>
SecondPasses ==
  /\ second < MaxSecond /\ second' = second + 1
  /\ Touch
  /\ UNCHANGED <<live, server, baseC, follower, forks, rowsC, applying, resolving, made>>

(* A cycle in which both sides agree leaves the body in the blob cache, under
   the hash that the baseline has from now on. *)
Synced(s) ==
  /\ applying[s] = IdleC /\ live[s] = server[s] /\ baseC[s] # live[s]
  /\ baseC' = [baseC EXCEPT ![s] = live[s]]
  /\ UNCHANGED <<live, server, follower, forks, rowsC, applying, resolving, second, made, touches>>

(* What three_way_merge may answer: refused without a base; with one, the
   merge of both sides or overlapping hunks. *)
ThreeWayMerge(base, local, remote) ==
  IF base = NoBodyC THEN {NoBodyC}
  ELSE {NoBodyC, (local \cap remote) \cup (local \ base) \cup (remote \ base)}

(* The names write_fork tries in turn: the second's name, then the suffixes. *)
ForkFilename(tag) == [n \in 1..MaxCollision |-> [tag |-> tag, sec |-> second, n |-> n - 1]]
FreeName(s, tag) ==
  LET free == {n \in 1..MaxCollision : ForkFilename(tag)[n] \notin DOMAIN forks[s]}
  IN  {n \in free : \A m \in free : n <= m}

(* write_atomic at the chosen name: the copy appears whole or, when every
   name is taken or the disk refuses, not at all. *)
Persisted(s, name, body) ==
  [g \in DOMAIN forks[s] \cup {name} |-> IF g = name THEN body ELSE forks[s][g]]

(* write_fork: fork is the name of the copy; there is none when all are taken. *)
WriteFork(s, tag, body, fork) ==
  /\ fork \in {ForkFilename(tag)[n] : n \in FreeName(s, tag)}
  /\ forks' = [forks EXCEPT ![s] = Persisted(s, fork, body)]

(* apply_conflict: a clean merge replaces the live file, everything else
   forks the remote side and leaves the live file alone. *)
\* Mutant: overlapping hunks are written out as well, remote winning.
ApplyConflictAnyway(s, base, local, remote, tag, fork) ==
  \E merged \in ThreeWayMerge(base, local, remote) :
     /\ fork = NoBodyC /\ UNCHANGED forks
     /\ live' = [live EXCEPT ![s] = IF merged = NoBodyC THEN remote ELSE merged]
ApplyConflict(s, base, local, remote, tag, fork) ==
  \E merged \in ThreeWayMerge(base, local, remote) :
     \/ /\ merged # NoBodyC /\ fork = NoBodyC
        /\ live' = [live EXCEPT ![s] = merged] /\ UNCHANGED forks
     \/ /\ merged = NoBodyC
        /\ WriteFork(s, tag, remote, fork) /\ UNCHANGED live

(* The cycle, one conflict of the answer: the local file is read before the
   download is awaited, and what was read is what is merged. *)
ConflictReported(s) ==
  ~(Edited(live[s]) \subseteq server[s]) /\ ~(server[s] \subseteq Edited(live[s]))
ReadLocal(s) ==
  /\ applying[s] = IdleC /\ live[s] # NoBodyC /\ ConflictReported(s)
  /\ applying' = [applying EXCEPT ![s] = [at |-> "read", local |-> live[s]]]
  /\ UNCHANGED <<live, server, baseC, follower, forks, rowsC, resolving, second, made, touches>>
Downloaded(s) ==
  /\ applying[s].at = "read"
  /\ applying' = [applying EXCEPT ![s] = [at |-> "held", local |-> @.local, remote |-> server[s]]]
  /\ UNCHANGED <<live, server, baseC, follower, forks, rowsC, resolving, second, made, touches>>
DownloadFails(s) ==
  /\ applying[s].at = "read" /\ applying' = [applying EXCEPT ![s] = IdleC]
  /\ UNCHANGED <<live, server, baseC, follower, forks, rowsC, resolving, second, made, touches>>

CreateConflict(s, fork, remote) ==
  Append(rowsC, [share |-> s, fork |-> fork, remoteHash |-> remote, status |-> "open"])

ServerWins(s) ==
  /\ s \in follower /\ applying[s].at = "held"
  /\ live' = [live EXCEPT ![s] = applying[s].remote]
  /\ applying' = [applying EXCEPT ![s] = IdleC]
  /\ UNCHANGED <<server, baseC, follower, forks, rowsC, resolving, second, made, touches>>
ForkOrMerge(s) ==
  /\ s \notin follower /\ applying[s].at = "held" /\ Len(rowsC) < MaxRowsC
  /\ \E fork \in ForkName \cup {NoBodyC} :
        /\ ApplyConflict(s, baseC[s], applying[s].local, applying[s].remote, "node", fork)
        /\ rowsC' \in IF fork = NoBodyC THEN {rowsC}
                     ELSE {rowsC, CreateConflict(s, fork, applying[s].remote)}
  /\ applying' = [applying EXCEPT ![s] = IdleC]
  /\ UNCHANGED <<server, baseC, follower, resolving, second, made, touches>>
ForkFails(s) ==
  /\ s \notin follower /\ applying[s].at = "held"
  /\ applying' = [applying EXCEPT ![s] = IdleC]
  /\ UNCHANGED <<live, server, baseC, follower, forks, rowsC, resolving, second, made, touches>>

(* POST /conflicts: the first unresolved row of the path is looked up, then
   its file operation runs, then the row is marked.  The legacy route names
   no share and refuses a path with more than one unresolved row. *)
Unresolved(shares) == {i \in 1..Len(rowsC) : rowsC[i].status = "open" /\ rowsC[i].share \in shares}
FirstOf(S) == CHOOSE i \in S : \A j \in S : i <= j
FindRow(shares, qualified, action) ==
  /\ resolving = IdleC /\ Unresolved(shares) # {}
  /\ ~qualified => shares = Roots /\ Cardinality(Unresolved(shares)) = 1
  /\ resolving' = [at |-> "found", row |-> FirstOf(Unresolved(shares)), action |-> action]
  /\ Touch
  /\ UNCHANGED <<live, server, baseC, follower, forks, rowsC, applying, second, made>>

PerformFileOp(s, fork, action) ==
  LET hasFork == fork \in DOMAIN forks[s]
  IN  \/ action = "keep-local" /\ UNCHANGED <<live, forks>>
      \/ action = "fork-remote" /\ hasFork /\ UNCHANGED <<live, forks>>
      \/ /\ action = "keep-remote" /\ hasFork
         /\ live' = [live EXCEPT ![s] = forks[s][fork]] /\ UNCHANGED forks
      \/ /\ action = "fork-local" /\ live[s] # NoBodyC
         /\ \E copy \in ForkName : WriteFork(s, "caf00000", live[s], copy)
         /\ live' = IF hasFork THEN [live EXCEPT ![s] = forks[s][fork]] ELSE live
      \/ /\ action = "merge" /\ hasFork /\ live[s] # NoBodyC
         /\ \E copy \in ForkName :
               ApplyConflict(s, NoBodyC, live[s], forks[s][fork], "ee000000", copy)

ResolveFiles ==
  /\ resolving.at = "found"
  /\ LET r == rowsC[resolving.row] IN PerformFileOp(r.share, r.fork, resolving.action)
  /\ resolving' = [resolving EXCEPT !.at = "filed"]
  /\ UNCHANGED <<server, baseC, follower, rowsC, applying, second, made, touches>>
(* A missing artefact or an I/O error is answered and the row stays. *)
ResolveRefused ==
  /\ resolving.at = "found" /\ resolving' = IdleC
  /\ UNCHANGED <<live, server, baseC, follower, forks, rowsC, applying, second, made, touches>>
MarkResolved ==
  /\ resolving.at = "filed"
  /\ rowsC' = [rowsC EXCEPT ![resolving.row].status = "resolved"]
  /\ resolving' = IdleC
  /\ UNCHANGED <<live, server, baseC, follower, forks, applying, second, made, touches>>

(* The maintenance task deletes rows resolved longer ago than the TTL. *)
Cleanup(i) ==
  /\ i \in 1..Len(rowsC) /\ rowsC[i].status = "resolved"
  /\ rowsC' = [rowsC EXCEPT ![i].status = "gone"]
  /\ UNCHANGED <<live, server, baseC, follower, forks, applying, resolving, second, made, touches>>

(* The daemon dies: the cycle and the request are gone, files and rows stay. *)
DaemonDies ==
  /\ applying' = [s \in Roots |-> IdleC] /\ resolving' = IdleC
  /\ <<applying', resolving'>> # <<applying, resolving>>
  /\ Touch
  /\ UNCHANGED <<live, server, baseC, follower, forks, rowsC, second, made>>

UserNext(s) ==
  \/ \E e \in Edits : Save(s, e) \/ OtherNode(s, e)
  \/ RemoveLive(s)
  \/ \E f \in DOMAIN forks[s] : TidyFork(s, f)
ConflictsNext ==
  \/ \E s \in Roots : \/ UserNext(s)
                      \/ Synced(s) \/ ReadLocal(s) \/ Downloaded(s) \/ DownloadFails(s)
                      \/ ServerWins(s) \/ ForkOrMerge(s) \/ ForkFails(s)
  \/ \E a \in Actions : \/ \E s \in Roots : FindRow({s}, TRUE, a)
                         \/ FindRow(Roots, FALSE, a)
  \/ ResolveFiles \/ ResolveRefused \/ MarkResolved
  \/ \E i \in 1..MaxRowsC : Cleanup(i)
  \/ DaemonDies \/ SecondPasses
ConflictsSpec == ConflictsInit /\ [][ConflictsNext]_conflictVars
-----------------------------------------------------------------------------
(* What may take an edit away. *)
Excused(s) ==
  \/ \E f \in DOMAIN forks[s] : f \notin DOMAIN forks'[s]
  \/ live'[s] = NoBodyC
  \/ s \in follower
  \/ resolving.at = "found" /\ resolving.action = "keep-remote"
  \/ applying[s].at = "held" /\ applying[s].local # live[s]

(* No edit of the live file or of a conflict copy disappears from the share
   unless a person takes it away: the user deletes a file, the operator
   chooses keep-remote, the share is receive-only, or the user saved while
   the cycle awaited the download (apply_conflict, conflict_writer.rs). *)
NothingDropped == \A s \in Roots : Kept(s) \subseteq Kept(s)' \/ Excused(s)

(* What GET /conflicts/{path}/diff shows of a row. *)
ConflictDiff(r) ==
  [local |-> live[r.share],
   fork  |-> IF r.fork \in DOMAIN forks[r.share] THEN forks[r.share][r.fork] ELSE NoBodyC]

(* A row leads the operator to the remote side it was recorded for: the diff
   shows the bytes of the row's remote_hash, or that the copy is missing,
   however many conflicts fell into one second (write_fork's suffixes). *)
RowNamesItsBytes ==
  \A i \in Unresolved(Roots) : ConflictDiff(rowsC[i]).fork \in {NoBodyC, rowsC[i].remoteHash}

(* Whatever cycles, saves and resolutions interleave, no step drops an edit,
   and after each step every row leads to the bytes it was recorded for
   (apply_conflict, resolve). *)
ConflictsKept == [][NothingDropped /\ RowNamesItsBytes']_conflictVars
=============================================================================
