------------------------------ MODULE NodeAuth ------------------------------
(***************************************************************************)
(* How a node gets and keeps access to the server: enrollment              *)
(* (crates/disk-server/src/enrollment/mod.rs), RegisterNode and            *)
(* Authenticate (services/auth.rs over auth/storage.rs, auth/rate_limit.rs *)
(* and disk-core/src/meta_db/nodes.rs), the boot of the server (main.rs),  *)
(* and the share tasks of the client daemon that renew their session       *)
(* before every cycle (disk-cli/src/daemon.rs, ensure_client_session).     *)
(*                                                                         *)
(* The share tasks of a machine have one node id and one key file between  *)
(* them, and a client object each.  A session token is known by the task   *)
(* that holds it: `hold` are the tasks with a cached token, `sessions`     *)
(* those whose token the server knows.  A session whose token never        *)
(* reached its task is of no consequence and not kept.                     *)
(***************************************************************************)
EXTENDS Naturals, FiniteSets

CONSTANTS
  NodeIds,      \* node ids
  Tasks,        \* share tasks
  NodeOf,       \* the node id a task runs under
  Keys,         \* api keys; one is as good as another
  None,         \* Option::None
  Placeholder,  \* the empty api_key_hash of a node that has only enrolled
  Modes,        \* RegisterNodeModes the operator may configure
  MaxFailures,  \* failed attempts per window before a node is blocked
  MaxTroubles   \* bound: crashes, failures and strangers in a behaviour

ASSUME AuthAssumption ==
  /\ NodeOf \in [Tasks -> NodeIds]
  /\ Modes \subseteq {"open", "enrolled", "admin", "disabled"}
  /\ MaxFailures \in Nat \ {0} /\ MaxTroubles \in Nat
  /\ None \notin Keys /\ Placeholder \notin Keys /\ None # Placeholder

VARIABLES
  \* the server's database
  db,         \* `nodes`: the key hash of a node
  certs,      \* `node_certs`: nodes with an enrolled certificate
  token,      \* `pending_enrollments`: the state of a node's latest token
  \* the server's memory
  up,         \* the server is running
  mode,       \* its RegisterNodeMode
  nodes,      \* AuthStore::nodes
  sessions,   \* AuthStore::sessions
  failures,   \* failed attempts in the limiter's window
  enrolling,  \* how far the Enroll call of a node has got
  \* the clients
  file,       \* the api_key file of a node's machine
  key,        \* DiskClient::api_key of a task
  hold,       \* tasks with a cached session token
  pc,         \* where a task is, or how far its RegisterNode call has got
  issued,     \* the key a RegisterNode call has generated
  troubles    \* how much has gone wrong so far

dbVars     == <<db, certs, token>>
memoryVars == <<up, mode, nodes, sessions, failures, enrolling>>
clientVars == <<file, key, hold, pc, issued>>
vars == <<dbVars, memoryVars, clientVars, troubles>>

Init ==
  /\ db = [n \in NodeIds |-> None] /\ certs = {}
  /\ token = [n \in NodeIds |-> "none"]
  /\ up = TRUE /\ mode \in Modes
  /\ nodes = [n \in NodeIds |-> None]
  /\ sessions = {}
  /\ failures = [n \in NodeIds |-> 0]
  /\ enrolling = [n \in NodeIds |-> "no"]
  /\ file = [n \in NodeIds |-> None]
  /\ key = [t \in Tasks |-> None]
  /\ hold = {}
  /\ pc = [t \in Tasks |-> "ensure"]
  /\ issued = [t \in Tasks |-> None]
  /\ troubles = 0

\* Something goes wrong.
Trouble == troubles < MaxTroubles /\ troubles' = troubles + 1

Goto(t, label) == pc' = [pc EXCEPT ![t] = label]

-----------------------------------------------------------------------------
(* Enrollment: one call per node at a time *)

IssuePendingToken(n) ==
  /\ up /\ token[n] # "live"
  /\ token' = [token EXCEPT ![n] = "live"]
  /\ UNCHANGED <<db, certs, memoryVars, clientVars, troubles>>

\* revoke_pending, or the token's time is over.
RevokePending(n) ==
  /\ token[n] = "live"
  /\ token' = [token EXCEPT ![n] = "dead"]
  /\ UNCHANGED <<db, certs, memoryVars, clientVars, troubles>>

\* enroll up to the answer of the CA; a token that is not live is refused.
EnrollCheck(n) ==
  /\ up /\ enrolling[n] = "no" /\ token[n] = "live"
  /\ enrolling' = [enrolling EXCEPT ![n] = "checked"]
  /\ UNCHANGED <<dbVars, up, mode, nodes, sessions, failures, clientVars, troubles>>

\* INSERT OR IGNORE of a row without a key.
EnrollRow(n) ==
  /\ enrolling[n] = "checked"
  /\ db' = [db EXCEPT ![n] = IF @ = None THEN Placeholder ELSE @]
  /\ enrolling' = [enrolling EXCEPT ![n] = "row"]
  /\ UNCHANGED <<certs, token, up, mode, nodes, sessions, failures, clientVars, troubles>>

EnrollCert(n) ==
  /\ enrolling[n] = "row"
  /\ certs' = certs \cup {n}
  /\ enrolling' = [enrolling EXCEPT ![n] = "cert"]
  /\ UNCHANGED <<db, token, up, mode, nodes, sessions, failures, clientVars, troubles>>

\* The token is marked consumed whatever has become of it.
EnrollConsume(n) ==
  /\ enrolling[n] = "cert"
  /\ token' = [token EXCEPT ![n] = "dead"]
  /\ enrolling' = [enrolling EXCEPT ![n] = "no"]
  /\ UNCHANGED <<db, certs, up, mode, nodes, sessions, failures, clientVars, troubles>>

-----------------------------------------------------------------------------
(* A share task: key and session before every cycle *)

\* ensure_client_session: a task without a key looks for one in the key file,
\* which a sibling may have written, and registers if there is none.
ReadKeyFile(t) ==
  /\ pc[t] = "ensure"
  /\ LET known == IF key[t] = None THEN file[NodeOf[t]] ELSE key[t]
     IN  /\ key' = [key EXCEPT ![t] = known]
         /\ Goto(t, IF known = None THEN "register" ELSE "auth")
  /\ UNCHANGED <<dbVars, memoryVars, file, hold, issued, troubles>>

\* check_register_gate; the daemon sends no admin token.
Admits(n) == mode = "open" \/ (mode = "enrolled" /\ n \in certs)

\* Mutant of RegisterCheck: a node that is known already is registered anew.
RegisterCheckAgain(t) ==
  /\ pc[t] = "register"
  /\ up /\ Admits(NodeOf[t])
  /\ Goto(t, "insert")
  /\ UNCHANGED <<dbVars, memoryVars, file, key, hold, issued, troubles>>

\* register_node: the gate, and the look-up that answers AlreadyExists.
RegisterCheck(t) ==
  /\ pc[t] = "register"
  /\ up /\ Admits(NodeOf[t]) /\ nodes[NodeOf[t]] = None
  /\ Goto(t, "insert")
  /\ UNCHANGED <<dbVars, memoryVars, file, key, hold, issued, troubles>>

RegisterRefused(t) ==
  /\ pc[t] = "register"
  /\ ~(up /\ Admits(NodeOf[t]) /\ nodes[NodeOf[t]] = None)
  /\ Goto(t, "auth")
  /\ UNCHANGED <<dbVars, memoryVars, file, key, hold, issued, troubles>>

InUse == {nodes[n] : n \in NodeIds} \cup {db[n] : n \in NodeIds}
         \cup {file[n] : n \in NodeIds} \cup {key[t] : t \in Tasks}
         \cup {issued[t] : t \in Tasks}

\* Mutant of RegisterInsert: the key is returned before it is stored.
RegisterInsertUnpersisted(t) ==
  /\ pc[t] = "insert" /\ Keys \ InUse # {}
  /\ LET k == CHOOSE x \in Keys \ InUse : TRUE
     IN  /\ nodes' = [nodes EXCEPT ![NodeOf[t]] = k]
         /\ issued' = [issued EXCEPT ![t] = k]
  /\ Goto(t, "respond")
  /\ UNCHANGED <<dbVars, up, mode, sessions, failures, enrolling, file, key, hold, troubles>>

\* A fresh key enters the map, over any other that was entered since the look-up.
RegisterInsert(t) ==
  /\ pc[t] = "insert" /\ Keys \ InUse # {}
  /\ LET k == CHOOSE x \in Keys \ InUse : TRUE
     IN  /\ nodes' = [nodes EXCEPT ![NodeOf[t]] = k]
         /\ issued' = [issued EXCEPT ![t] = k]
  /\ Goto(t, "update")
  /\ UNCHANGED <<dbVars, up, mode, sessions, failures, enrolling, file, key, hold, troubles>>

\* The call ends in an error; what it has done so far stays.
RegisterFails(t) ==
  /\ pc[t] \in {"insert", "update", "insertRow", "respond"}
  /\ Trouble
  /\ issued' = [issued EXCEPT ![t] = None]
  /\ Goto(t, "auth")
  /\ UNCHANGED <<dbVars, memoryVars, file, key, hold>>

\* upsert_node_tenant: an UPDATE, and an INSERT when it met no row.
UpdateNodeRow(t) ==
  /\ pc[t] = "update"
  /\ LET n == NodeOf[t]
     IN  /\ db' = [db EXCEPT ![n] = IF @ = None THEN None ELSE issued[t]]
         /\ Goto(t, IF db[n] = None THEN "insertRow" ELSE "respond")
  /\ UNCHANGED <<certs, token, memoryVars, file, key, hold, issued, troubles>>

InsertNodeRow(t) ==
  /\ pc[t] = "insertRow"
  /\ db[NodeOf[t]] = None
  /\ db' = [db EXCEPT ![NodeOf[t]] = issued[t]]
  /\ Goto(t, "respond")
  /\ UNCHANGED <<certs, token, memoryVars, file, key, hold, issued, troubles>>

\* node_id is UNIQUE: an enrollment or a sibling got there first.
InsertNodeRowClashes(t) ==
  /\ pc[t] = "insertRow"
  /\ db[NodeOf[t]] # None
  /\ issued' = [issued EXCEPT ![t] = None]
  /\ Goto(t, "auth")
  /\ UNCHANGED <<dbVars, memoryVars, file, key, hold, troubles>>

\* The client keeps the key and saves it for its siblings and its next start.
RegisterRespond(t) ==
  /\ pc[t] = "respond"
  /\ key' = [key EXCEPT ![t] = issued[t]]
  /\ \/ file' = [file EXCEPT ![NodeOf[t]] = issued[t]] /\ UNCHANGED troubles
     \/ Trouble /\ UNCHANGED file
  /\ issued' = [issued EXCEPT ![t] = None]
  /\ Goto(t, "auth")
  /\ UNCHANGED <<dbVars, memoryVars, hold>>

\* AuthAttemptLimiter::check
Limited(n) == failures[n] >= MaxFailures

Accepts(n, k) == k # None /\ nodes[n] = k

\* authenticate: blocked attempts do not count, success clears the count.
FailuresAfter(n, k) ==
  IF Limited(n) THEN failures[n] ELSE IF Accepts(n, k) THEN 0 ELSE failures[n] + 1

\* A task with a key and without a token authenticates.
Authenticate(t) ==
  /\ pc[t] = "auth"
  /\ LET n == NodeOf[t]
         tries == t \notin hold /\ key[t] # None /\ up
         succeeds == tries /\ ~Limited(n) /\ Accepts(n, key[t])
     IN  /\ failures' = IF tries THEN [failures EXCEPT ![n] = FailuresAfter(n, key[t])]
                                 ELSE failures
         /\ sessions' = IF succeeds THEN sessions \cup {t} ELSE sessions
         /\ hold' = IF succeeds THEN hold \cup {t} ELSE hold
  /\ Goto(t, "cycle")
  /\ UNCHANGED <<dbVars, up, mode, nodes, enrolling, file, key, issued, troubles>>

\* The answer to Authenticate is lost.
AuthenticateLost(t) ==
  /\ pc[t] = "auth" /\ t \notin hold /\ key[t] # None /\ up
  /\ Trouble
  /\ failures' = [failures EXCEPT ![NodeOf[t]] = FailuresAfter(NodeOf[t], key[t])]
  /\ Goto(t, "cycle")
  /\ UNCHANGED <<dbVars, up, mode, nodes, sessions, enrolling, file, key, hold, issued>>

\* Mutant of Kept: a rejected token stays in the cache.
KeptAlways(t) == hold

\* The cached tokens after a call of task t has been answered: Unauthenticated
\* clears the task's own.
Kept(t) == IF up /\ t \notin sessions THEN hold \ {t} ELSE hold

\* execute: ExchangeState with the cached token.
Cycle(t) ==
  /\ pc[t] = "cycle"
  /\ hold' = Kept(t)
  /\ Goto(t, IF up /\ t \in hold \cap sessions THEN "transfer" ELSE "ensure")
  /\ UNCHANGED <<dbVars, memoryVars, file, key, issued, troubles>>

\* execute: a download that is rejected clears the token too, an upload does not.
Transfer(t) ==
  /\ pc[t] = "transfer"
  /\ \/ hold' = Kept(t)
     \/ UNCHANGED hold
  /\ Goto(t, "ensure")
  /\ UNCHANGED <<dbVars, memoryVars, file, key, issued, troubles>>

-----------------------------------------------------------------------------
(* Time, crashes and strangers *)

\* SESSION_TTL is over; validate_session drops the session.
Expire(t) ==
  /\ t \in sessions
  /\ sessions' = sessions \ {t}
  /\ UNCHANGED <<dbVars, up, mode, nodes, failures, enrolling, clientVars, troubles>>

\* A failed attempt leaves the limiter's window.
Forget(n) ==
  /\ failures[n] > 0
  /\ failures' = [failures EXCEPT ![n] = @ - 1]
  /\ UNCHANGED <<dbVars, up, mode, nodes, sessions, enrolling, clientVars, troubles>>

\* Another machine with this node id tries a key the server does not know.
StaleKey(n) ==
  /\ up /\ Trouble
  /\ failures' = [failures EXCEPT ![n] = FailuresAfter(n, None)]
  /\ UNCHANGED <<dbVars, up, mode, nodes, sessions, enrolling, clientVars>>

ServerCalls == {"insert", "update", "insertRow", "respond"}

\* The server stops: its memory is gone and every call in flight fails.
Crash ==
  /\ up /\ Trouble
  /\ up' = FALSE
  /\ nodes' = [n \in NodeIds |-> None]
  /\ sessions' = {}
  /\ failures' = [n \in NodeIds |-> 0]
  /\ enrolling' = [n \in NodeIds |-> "no"]
  /\ pc' = [t \in Tasks |-> IF pc[t] \in ServerCalls THEN "auth" ELSE pc[t]]
  /\ issued' = [t \in Tasks |-> None]
  /\ UNCHANGED <<dbVars, mode, file, key, hold>>

\* hydrate_node
Hydrated(n) == db[n]

\* main, with the configuration of the day: one row whose key hash has not 32
\* bytes fails the whole boot.
Boot ==
  /\ ~up
  /\ \A n \in NodeIds : db[n] # Placeholder
  /\ up' = TRUE
  /\ mode' \in Modes
  /\ nodes' = [n \in NodeIds |-> Hydrated(n)]
  /\ UNCHANGED <<dbVars, sessions, failures, enrolling, clientVars, troubles>>

\* The daemon of a machine is restarted; only the key file is left.
DaemonRestart(n) ==
  /\ Trouble
  /\ LET mine == {t \in Tasks : NodeOf[t] = n}
     IN  /\ key' = [t \in Tasks |-> IF t \in mine THEN None ELSE key[t]]
         /\ issued' = [t \in Tasks |-> IF t \in mine THEN None ELSE issued[t]]
         /\ pc' = [t \in Tasks |-> IF t \in mine THEN "ensure" ELSE pc[t]]
         /\ hold' = hold \ mine
         /\ sessions' = sessions \ mine
  /\ UNCHANGED <<dbVars, up, mode, nodes, failures, enrolling, file>>

Enroll(n) == \/ IssuePendingToken(n) \/ RevokePending(n) \/ EnrollCheck(n)
             \/ EnrollRow(n) \/ EnrollCert(n) \/ EnrollConsume(n)

Register(t) == \/ RegisterCheck(t) \/ RegisterRefused(t) \/ RegisterInsert(t)
               \/ UpdateNodeRow(t) \/ InsertNodeRow(t) \/ InsertNodeRowClashes(t)
               \/ RegisterRespond(t)

Step(t) == ReadKeyFile(t) \/ Register(t) \/ Authenticate(t) \/ Cycle(t) \/ Transfer(t)

Next == \/ \E t \in Tasks : Step(t) \/ RegisterFails(t) \/ AuthenticateLost(t) \/ Expire(t)
        \/ \E n \in NodeIds : Enroll(n) \/ Forget(n) \/ StaleKey(n) \/ DaemonRestart(n)
        \/ Crash \/ Boot

Spec == Init /\ [][Next]_vars

\* Tasks run for ever, time passes for the limiter, and a stopped server is
\* started again by its supervisor.  Nobody has to enroll or to be unlucky.
Fairness == /\ \A t \in Tasks : WF_vars(Step(t))
            /\ \A n \in NodeIds : WF_vars(Forget(n))
            /\ WF_vars(Boot)

FairSpec == Spec /\ Fairness

-----------------------------------------------------------------------------
MaybeKeys == Keys \cup {None}

\* The state of server and clients; no node has more failures than the limiter admits.
TypeOK ==
  /\ db \in [NodeIds -> MaybeKeys \cup {Placeholder}]
  /\ certs \subseteq NodeIds
  /\ token \in [NodeIds -> {"none", "live", "dead"}]
  /\ up \in BOOLEAN /\ mode \in Modes
  /\ nodes \in [NodeIds -> MaybeKeys]
  /\ sessions \subseteq Tasks
  /\ failures \in [NodeIds -> 0..MaxFailures]
  /\ enrolling \in [NodeIds -> {"no", "checked", "row", "cert"}]
  /\ file \in [NodeIds -> MaybeKeys]
  /\ key \in [Tasks -> MaybeKeys]
  /\ hold \subseteq Tasks
  /\ pc \in [Tasks -> {"ensure", "register", "auth", "cycle", "transfer"} \cup ServerCalls]
  /\ issued \in [Tasks -> MaybeKeys]
  /\ troubles \in 0..MaxTroubles

\* A key in the hands of a client, in memory or on disk, is the key the server
\* has stored and, while it runs, accepts: across restarts of either side, lost
\* answers and failed writes (RegisterNode stores the key before it answers).
KeyAgreement ==
  \A t \in Tasks : \A k \in {key[t], file[NodeOf[t]]} \ {None} :
    db[NodeOf[t]] = k /\ (up => nodes[NodeOf[t]] = k)

\* Registering is once and for all: no later call replaces a stored key
\* (AlreadyExists, also for a node known from the database only).
KeyIsFinal == [][\A n \in NodeIds : db[n] \in Keys => db'[n] = db[n]]_vars

\* A task that has a key gets a session the server knows, however often the
\* server or the daemon restarts, sessions expire and strangers get the node
\* blocked (DISK-0078; "Authenticate survives process restarts", nodes.rs).
BackInService ==
  \A t \in Tasks : key[t] # None ~> (t \in hold \cap sessions \/ key[t] = None)
=============================================================================
