---------------------------- MODULE Server_proofs ----------------------------
(***************************************************************************)
(* Theorems about the tasks of the server, for any nodes, tasks, keys,     *)
(* lists, agents and bounds: sessions and enrollment, the access list, the *)
(* start, the agents, and the composition with the index.                  *)
(***************************************************************************)
EXTENDS MCServer, ShareIndex_proofs, TLAPS

-----------------------------------------------------------------------------
(* Sessions and enrollment *)

\* What the limiter counts stays within its limit.
LEMMA FailuresType ==
  ASSUME TypeOK, NEW n \in NodeIds, NEW k
  PROVE  FailuresAfter(n, k) \in 0..MaxFailures
BY AuthAssumption DEF TypeOK, FailuresAfter, Limited

\* A call of RegisterNode generates a key.
LEMMA FreshKey ==
  ASSUME Keys \ InUse # {}
  PROVE  (CHOOSE x \in Keys \ InUse : TRUE) \in Keys
<1>1. \E x \in Keys \ InUse : TRUE
  OBVIOUS
<1>2. (CHOOSE x \in Keys \ InUse : TRUE) \in Keys \ InUse
  BY <1>1
<1> QED BY <1>2

LEMMA TypeInit == Init => TypeOK
BY AuthAssumption DEF Init, TypeOK, MaybeKeys, ServerCalls

\* Every step of an enrollment preserves the types.
LEMMA EnrollTypes ==
  ASSUME TypeOK, NEW n \in NodeIds, Enroll(n)
  PROVE  TypeOK'
<1> USE DEF TypeOK, dbVars, memoryVars, clientVars
<1>1. CASE IssuePendingToken(n) BY <1>1 DEF IssuePendingToken
<1>2. CASE RevokePending(n) BY <1>2 DEF RevokePending
<1>3. CASE EnrollCheck(n) BY <1>3 DEF EnrollCheck
<1>4. CASE EnrollRow(n) BY <1>4 DEF EnrollRow, MaybeKeys
<1>5. CASE EnrollCert(n) BY <1>5 DEF EnrollCert
<1>6. CASE EnrollConsume(n) BY <1>6 DEF EnrollConsume
<1> QED BY <1>1, <1>2, <1>3, <1>4, <1>5, <1>6 DEF Enroll

\* Every step of a task preserves the types.
LEMMA TaskTypes ==
  ASSUME TypeOK, NEW t \in Tasks, Step(t) \/ RegisterFails(t) \/ AuthenticateLost(t) \/ Expire(t)
  PROVE  TypeOK'
<1>0. NodeOf[t] \in NodeIds
  BY AuthAssumption
<1>t. Trouble => troubles' \in 0..MaxTroubles
  BY AuthAssumption DEF Trouble, TypeOK
<1> USE DEF TypeOK, dbVars, memoryVars, clientVars
<1>1. CASE ReadKeyFile(t)
  BY <1>1, <1>0 DEF ReadKeyFile, Goto, MaybeKeys
<1>2. CASE RegisterCheck(t)
  BY <1>2 DEF RegisterCheck, Goto, ServerCalls
<1>3. CASE RegisterRefused(t)
  BY <1>3 DEF RegisterRefused, Goto
<1>4. CASE RegisterInsert(t)
  BY <1>4, <1>0, FreshKey DEF RegisterInsert, Goto, ServerCalls, MaybeKeys
<1>5. CASE RegisterFails(t)
  BY <1>5, <1>t DEF RegisterFails, Goto, MaybeKeys
<1>6. CASE UpdateNodeRow(t)
  BY <1>6, <1>0 DEF UpdateNodeRow, Goto, ServerCalls, MaybeKeys
<1>7. CASE InsertNodeRow(t)
  BY <1>7, <1>0 DEF InsertNodeRow, Goto, ServerCalls, MaybeKeys
<1>8. CASE InsertNodeRowClashes(t)
  BY <1>8 DEF InsertNodeRowClashes, Goto, MaybeKeys
<1>9. CASE RegisterRespond(t)
  BY <1>9, <1>0, <1>t DEF RegisterRespond, Goto, MaybeKeys
<1>10. CASE Authenticate(t)
  <2>1. failures' \in [NodeIds -> 0..MaxFailures]
    BY <1>10, <1>0, FailuresType DEF Authenticate
  <2> QED BY <1>10, <2>1 DEF Authenticate, Goto
<1>11. CASE AuthenticateLost(t)
  <2>1. failures' \in [NodeIds -> 0..MaxFailures]
    BY <1>11, <1>0, FailuresType DEF AuthenticateLost
  <2> QED BY <1>11, <2>1, <1>t DEF AuthenticateLost, Goto
<1>12. CASE Cycle(t)
  BY <1>12 DEF Cycle, Kept, Goto
<1>13. CASE Transfer(t)
  BY <1>13 DEF Transfer, Kept, Goto
<1>14. CASE Expire(t)
  BY <1>14 DEF Expire
<1> QED BY <1>1, <1>2, <1>3, <1>4, <1>5, <1>6, <1>7, <1>8, <1>9, <1>10, <1>11, <1>12,
           <1>13, <1>14 DEF Step, Register

\* Time, restarts and strangers preserve the types.
LEMMA WorldTypes ==
  ASSUME TypeOK,
         \/ \E n \in NodeIds : Forget(n) \/ StaleKey(n) \/ DaemonRestart(n)
         \/ Crash \/ Boot
  PROVE  TypeOK'
<1>t. Trouble => troubles' \in 0..MaxTroubles
  BY AuthAssumption DEF Trouble, TypeOK
<1> USE DEF TypeOK, dbVars, memoryVars, clientVars
<1>1. ASSUME NEW n \in NodeIds, Forget(n) PROVE TypeOK'
  BY <1>1, AuthAssumption DEF Forget
<1>2. ASSUME NEW n \in NodeIds, StaleKey(n) PROVE TypeOK'
  <2>1. failures' \in [NodeIds -> 0..MaxFailures]
    BY <1>2, FailuresType DEF StaleKey
  <2> QED BY <1>2, <2>1, <1>t DEF StaleKey
<1>3. ASSUME NEW n \in NodeIds, DaemonRestart(n) PROVE TypeOK'
  <2> DEFINE mine == {t \in Tasks : NodeOf[t] = n}
  <2>1. /\ key' = [t \in Tasks |-> IF t \in mine THEN None ELSE key[t]]
        /\ issued' = [t \in Tasks |-> IF t \in mine THEN None ELSE issued[t]]
        /\ pc' = [t \in Tasks |-> IF t \in mine THEN "ensure" ELSE pc[t]]
        /\ hold' = hold \ mine
        /\ sessions' = sessions \ mine
        /\ troubles' \in 0..MaxTroubles
        /\ UNCHANGED <<dbVars, up, mode, nodes, failures, enrolling, file>>
    BY <1>3, <1>t DEF DaemonRestart
  <2> HIDE DEF mine
  <2>2. key' \in [Tasks -> MaybeKeys] /\ issued' \in [Tasks -> MaybeKeys]
    BY <2>1 DEF MaybeKeys
  <2>3. pc' \in [Tasks -> {"ensure", "register", "auth", "cycle", "transfer"} \cup ServerCalls]
    BY <2>1
  <2> QED BY <2>1, <2>2, <2>3
<1>4. CASE Crash
  <2>1. pc' \in [Tasks -> {"ensure", "register", "auth", "cycle", "transfer"} \cup ServerCalls]
    BY <1>4 DEF Crash
  <2>2. failures' \in [NodeIds -> 0..MaxFailures]
    BY <1>4, AuthAssumption DEF Crash
  <2>3. nodes' \in [NodeIds -> MaybeKeys] /\ issued' \in [Tasks -> MaybeKeys]
    BY <1>4 DEF Crash, MaybeKeys
  <2> QED BY <1>4, <1>t, <2>1, <2>2, <2>3 DEF Crash
<1>5. CASE Boot
  BY <1>5 DEF Boot, Hydrated, MaybeKeys
<1> QED BY <1>1, <1>2, <1>3, <1>4, <1>5

LEMMA TypeNext == TypeOK /\ [Next]_vars => TypeOK'
<1> SUFFICES ASSUME TypeOK, [Next]_vars PROVE TypeOK'
  OBVIOUS
<1>1. CASE UNCHANGED vars
  BY <1>1 DEF vars, dbVars, memoryVars, clientVars, TypeOK
<1>2. CASE Next
  BY <1>2, EnrollTypes, TaskTypes, WorldTypes DEF Next
<1> QED BY <1>1, <1>2

\* Type correctness: the limiter never counts more failures than its limit and
\* a booted server never holds the key of a node that has only enrolled.
THEOREM AuthTypeCorrect == Spec => []TypeOK
BY TypeInit, TypeNext, PTL DEF Spec

-----------------------------------------------------------------------------
(* Machines with one share each. *)

\* No two tasks share a node id.
OneTaskPerNode == \A t, u \in Tasks : NodeOf[t] = NodeOf[u] => t = u

\* A running server accepts every stored key.
Stored == \A n \in NodeIds : up /\ db[n] \in Keys => nodes[n] = db[n]

\* Clients hold stored keys.
Held == \A t \in Tasks :
          /\ key[t] # None => db[NodeOf[t]] = key[t]
          /\ file[NodeOf[t]] # None => db[NodeOf[t]] = file[NodeOf[t]]

\* A call that has not stored its key yet is the first to do so; one that has
\* generated its key has it in the map; one about to answer has stored it.
Calls ==
  \A t \in Tasks :
    /\ pc[t] \in ServerCalls => up
    /\ pc[t] \in {"insert", "update", "insertRow"} => db[NodeOf[t]] \notin Keys
    /\ pc[t] \in {"update", "insertRow", "respond"} =>
         issued[t] \in Keys /\ nodes[NodeOf[t]] = issued[t]
    /\ pc[t] = "respond" => db[NodeOf[t]] = issued[t]

KInv == TypeOK /\ Stored /\ Held /\ Calls

LEMMA KInit == Init => KInv
BY TypeInit DEF Init, KInv, Stored, Held, Calls, ServerCalls, TypeOK

LEMMA KAgree == KInv => KeyAgreement
BY AuthAssumption DEF KInv, Stored, Held, KeyAgreement, TypeOK, MaybeKeys

\* Enrollment never touches a stored key.
LEMMA EnrollKeeps ==
  ASSUME KInv, NEW n \in NodeIds, Enroll(n)
  PROVE  /\ Stored' /\ Held' /\ Calls'
         /\ \A m \in NodeIds : db[m] \in Keys => db'[m] = db[m]
<1> USE AuthAssumption DEF KInv, TypeOK, Stored, Held, Calls, dbVars, memoryVars, clientVars
<1>1. CASE IssuePendingToken(n) BY <1>1 DEF IssuePendingToken
<1>2. CASE RevokePending(n) BY <1>2 DEF RevokePending
<1>3. CASE EnrollCheck(n) BY <1>3 DEF EnrollCheck
<1>4. CASE EnrollRow(n)
  BY <1>4 DEF EnrollRow, MaybeKeys, ServerCalls
<1>5. CASE EnrollCert(n) BY <1>5 DEF EnrollCert
<1>6. CASE EnrollConsume(n) BY <1>6 DEF EnrollConsume
<1> QED BY <1>1, <1>2, <1>3, <1>4, <1>5, <1>6 DEF Enroll

\* A step of a task stores a key only where there was none.
LEMMA TaskKeeps ==
  ASSUME KInv, OneTaskPerNode, NEW t \in Tasks,
         Step(t) \/ RegisterFails(t) \/ AuthenticateLost(t) \/ Expire(t)
  PROVE  /\ Stored' /\ Held' /\ Calls'
         /\ \A m \in NodeIds : db[m] \in Keys => db'[m] = db[m]
<1>0. NodeOf[t] \in NodeIds
  BY AuthAssumption
<1>u. \A u \in Tasks : NodeOf[u] \in NodeIds /\ (NodeOf[u] = NodeOf[t] => u = t)
  BY AuthAssumption DEF OneTaskPerNode
<1> USE AuthAssumption DEF KInv, TypeOK, Stored, Held, Calls, dbVars, memoryVars, clientVars
<1>1. CASE ReadKeyFile(t)
  BY <1>1, <1>0 DEF ReadKeyFile, Goto, ServerCalls
<1>2. CASE RegisterCheck(t)
  BY <1>2, <1>0 DEF RegisterCheck, Goto, ServerCalls
<1>3. CASE RegisterRefused(t)
  BY <1>3 DEF RegisterRefused, Goto, ServerCalls
<1>4. CASE RegisterInsert(t)
  BY <1>4, <1>0, <1>u, FreshKey DEF RegisterInsert, Goto, ServerCalls
<1>5. CASE RegisterFails(t)
  BY <1>5 DEF RegisterFails, Goto, ServerCalls
<1>6. CASE UpdateNodeRow(t)
  BY <1>6, <1>0, <1>u DEF UpdateNodeRow, Goto, ServerCalls, MaybeKeys
<1>7. CASE InsertNodeRow(t)
  BY <1>7, <1>0, <1>u DEF InsertNodeRow, Goto, ServerCalls, MaybeKeys
<1>8. CASE InsertNodeRowClashes(t)
  BY <1>8 DEF InsertNodeRowClashes, Goto, ServerCalls
<1>9. CASE RegisterRespond(t)
  BY <1>9, <1>0, <1>u DEF RegisterRespond, Goto, ServerCalls
<1>10. CASE Authenticate(t)
  BY <1>10 DEF Authenticate, Goto, ServerCalls
<1>11. CASE AuthenticateLost(t)
  BY <1>11 DEF AuthenticateLost, Goto, ServerCalls
<1>12. CASE Cycle(t)
  BY <1>12 DEF Cycle, Goto, ServerCalls
<1>13. CASE Transfer(t)
  BY <1>13 DEF Transfer, Goto, ServerCalls
<1>14. CASE Expire(t)
  BY <1>14 DEF Expire
<1> QED BY <1>1, <1>2, <1>3, <1>4, <1>5, <1>6, <1>7, <1>8, <1>9, <1>10, <1>11, <1>12,
           <1>13, <1>14 DEF Step, Register

\* A restart of the server loads exactly the stored keys.
LEMMA WorldKeeps ==
  ASSUME KInv,
         \/ \E n \in NodeIds : Forget(n) \/ StaleKey(n) \/ DaemonRestart(n)
         \/ Crash \/ Boot
  PROVE  /\ Stored' /\ Held' /\ Calls'
         /\ \A m \in NodeIds : db[m] \in Keys => db'[m] = db[m]
<1> USE AuthAssumption DEF KInv, TypeOK, Stored, Held, Calls, dbVars, memoryVars, clientVars
<1>1. ASSUME NEW n \in NodeIds, Forget(n) \/ StaleKey(n)
      PROVE  /\ Stored' /\ Held' /\ Calls' /\ db' = db
  BY <1>1 DEF Forget, StaleKey
<1>2. ASSUME NEW n \in NodeIds, DaemonRestart(n)
      PROVE  /\ Stored' /\ Held' /\ Calls' /\ db' = db
  BY <1>2 DEF DaemonRestart, ServerCalls
<1>3. CASE Crash
  BY <1>3 DEF Crash, ServerCalls
<1>4. CASE Boot
  BY <1>4 DEF Boot, Hydrated
<1> QED BY <1>1, <1>2, <1>3, <1>4

LEMMA KNext ==
  ASSUME KInv, OneTaskPerNode, [Next]_vars
  PROVE  /\ KInv'
         /\ \A m \in NodeIds : db[m] \in Keys => db'[m] = db[m]
<1>1. TypeOK'
  BY TypeNext DEF KInv
<1>2. /\ Stored' /\ Held' /\ Calls'
      /\ \A m \in NodeIds : db[m] \in Keys => db'[m] = db[m]
  <2>1. CASE UNCHANGED vars
    BY <2>1 DEF vars, dbVars, memoryVars, clientVars, KInv, Stored, Held, Calls
  <2>2. CASE Next
    BY <2>2, EnrollKeeps, TaskKeeps, WorldKeeps DEF Next
  <2> QED BY <2>1, <2>2
<1> QED BY <1>1, <1>2 DEF KInv

\* On machines with one share, a key that a client has in memory or on disk is
\* the key the server has stored and accepts, whatever crashes or fails.
THEOREM RegisteredKeysAgree ==
  ASSUME OneTaskPerNode
  PROVE  Spec => []KeyAgreement
<1>1. KInv /\ [Next]_vars => KInv'
  BY KNext
<1> QED BY KInit, KAgree, <1>1, PTL DEF Spec

\* On machines with one share, a stored key is never replaced: neither by
\* another registration nor by an enrollment, before or after a restart.
THEOREM StoredKeysAreFinal ==
  ASSUME OneTaskPerNode
  PROVE  Spec => KeyIsFinal
<1>1. KInv /\ [Next]_vars => KInv'
  BY KNext
<1>2. KInv /\ [Next]_vars => [\A n \in NodeIds : db[n] \in Keys => db'[n] = db[n]]_vars
  BY KNext
<1> QED BY KInit, <1>1, <1>2, PTL DEF Spec, KeyIsFinal

-----------------------------------------------------------------------------
(* The access list *)

\* What the loop has read is a file that was there, and the list in force has the
\* version the loop has stored.
AclInv ==
  /\ yaml \in AclFiles \cup {NoBody} /\ bytes \in AclFiles \cup {NoBody}
  /\ aclLoop = "verify" => bytes # NoBody
  /\ storedVersion \in Nat
  /\ enforcer = "loaded" => table.version = storedVersion

\* Nothing is in force at the start.
LEMMA AclStarts == AclInit => AclInv
BY AclAssumption DEF AclInit, AclInv, AclFiles

\* A load is applied: a list that is put in force is newer than the stored version.
LEMMA ApplyLoadKeeps ==
  ASSUME AclInv, ApplyLoad
  PROVE  /\ AclInv'
         /\ enforcer' = "loaded" /\ table' # table =>
              table'.version > storedVersion \/ (table'.version = 0 /\ storedVersion = 0)
<1>1. bytes \in AclFiles /\ bytes.version \in Nat /\ storedVersion \in Nat
  BY AclAssumption DEF AclInv, ApplyLoad
<1>2. yaml' = yaml /\ bytes' = NoBody /\ aclLoop' = "wait"
  BY DEF ApplyLoad
<1>3. CASE \E reason \in {"SignatureFailed", "ParseError"} : Unhealthy(reason)
  BY <1>2, <1>3 DEF AclInv, Unhealthy
<1>4. CASE UNCHANGED <<enforcer, table, storedVersion, lastTable, invalidations>>
  BY <1>2, <1>4 DEF AclInv
<1>5. CASE ~Regress /\ storedVersion' = bytes.version /\ Swapped
  <2>1. enforcer' = "loaded" /\ table'.version = bytes.version /\ storedVersion' = bytes.version
    BY <1>5 DEF Swapped
  <2>2. bytes.version > storedVersion \/ (bytes.version = 0 /\ storedVersion = 0) \/ storedVersion = 0
    BY <1>1, <1>5 DEF Regress
  <2>3. storedVersion = 0 => bytes.version > storedVersion \/ bytes.version = 0
    BY <1>1
  <2> QED BY <1>1, <1>2, <2>1, <2>2, <2>3 DEF AclInv
<1> QED BY <1>3, <1>4, <1>5 DEF ApplyLoad

\* Every other step leaves the list in force or takes it away.
LEMMA AclKeeps ==
  ASSUME AclInv, [AclNext]_aclVars
  PROVE  /\ AclInv'
         /\ enforcer' = "loaded" /\ table' # table =>
              table'.version > storedVersion \/ (table'.version = 0 /\ storedVersion = 0)
<1> USE DEF AclInv
<1>1. CASE WatchArmed BY <1>1 DEF WatchArmed
<1>2. ASSUME NEW b \in AclBodies, WriteYaml(b)
      PROVE  /\ AclInv'
             /\ enforcer' = "loaded" /\ table' # table =>
                  table'.version > storedVersion \/ (table'.version = 0 /\ storedVersion = 0)
  BY <1>2 DEF WriteYaml, Notify, AclFiles
<1>3. CASE WriteSignature BY <1>3 DEF WriteSignature, Notify
<1>4. CASE RemoveYaml BY <1>4 DEF RemoveYaml, Notify
<1>5. CASE SendSighup BY <1>5 DEF SendSighup
<1>6. CASE Triggered BY <1>6 DEF Triggered
<1>7. CASE Drain BY <1>7 DEF Drain
<1>8. CASE ReadYaml BY <1>8 DEF ReadYaml, Unhealthy
<1>9. CASE UNCHANGED aclVars BY <1>9 DEF aclVars
<1> QED
  BY <1>1, <1>2, <1>3, <1>4, <1>5, <1>6, <1>7, <1>8, <1>9, ApplyLoadKeeps DEF AclNext

\* No list as old as one served before is served again, for any lists, nodes and
\* interleaving of edits, signals and loads, but for lists of version 0
\* (load_from_yaml, apply_load).
THEOREM AclHolds == AclSpec => AclNeverRegresses
<1>1. AclInv /\ [AclNext]_aclVars => AclInv'
  BY AclKeeps
<1>2. AclInv /\ [AclNext]_aclVars =>
        [enforcer' = "loaded" /\ table' # table =>
           table'.version > storedVersion \/ (table'.version = 0 /\ storedVersion = 0)]_aclVars
  BY AclKeeps
<1> QED BY AclStarts, <1>1, <1>2, PTL DEF AclSpec, AclNeverRegresses

-----------------------------------------------------------------------------
(* The start of the server *)

\* What main has done when it has come to a step.
BootInv ==
  /\ stepB \in 0..13
  /\ listenB = [l \in Listeners |-> listenB[l]]
  /\ stepB >= 2 => "database" \in readyB
  /\ stepB >= 3 => "acl" \in readyB
  /\ stepB >= 5 => loadedB = NodesB
  /\ listenB["mtls"] = "serving" => stepB >= 12

\* A step of main is taken when those before it are done.
LEMMA BootAt ==
  ASSUME BootInv, NEW name, BootStep(name)
  PROVE  /\ stepB \in 0..12
         /\ name = "database" <=> stepB = 1
         /\ name = "acl" <=> stepB = 2
         /\ name = "hydrate" <=> stepB = 4
         /\ name = "mtls" <=> stepB = 11
<1>1. stepB \in 0..12 /\ name = BootOrder[stepB + 1]
  BY DEF BootInv, BootStep, BootOrder
<1>2. \A i \in 1..13 :
        /\ BootOrder[i] = "database" <=> i = 2
        /\ BootOrder[i] = "acl" <=> i = 3
        /\ BootOrder[i] = "hydrate" <=> i = 5
        /\ BootOrder[i] = "mtls" <=> i = 12
  BY DEF BootOrder
<1> QED BY <1>1, <1>2

\* A step that changes nothing but its own part.
LEMMA PassKeeps ==
  ASSUME BootInv, NEW name, name # "hydrate", Pass(name)
  PROVE  BootInv'
<1>1. BootStep(name) /\ stepB' = stepB + 1 /\ readyB' = readyB \cup {name}
      /\ UNCHANGED <<loadedB, listenB>>
  BY DEF Pass, Done
<1> QED BY <1>1, BootAt DEF BootInv

\* A listener that comes up.
LEMMA BindKeeps ==
  ASSUME BootInv, NEW l \in {"mtls", "public"}, BindGrpc(l)
  PROVE  BootInv'
<1>1. CASE Fail(l, "error")
  BY <1>1 DEF Fail, BootInv
<1>2. CASE ~Fail(l, "error")
  <2>1. /\ BootStep(l) /\ stepB' = stepB + 1 /\ readyB' = readyB \cup {l}
        /\ listenB' = [listenB EXCEPT ![l] = "serving"] /\ UNCHANGED loadedB
    BY <1>2 DEF BindGrpc, Done
  <2>2. l = "mtls" => stepB = 11
    BY <2>1, BootAt
  <2>3. stepB \in 0..12 /\ stepB # 4
    BY <2>1, BootAt
  <2>4. stepB = 1 => l = "database"
    BY <2>1, BootAt
  <2>5. stepB = 2 => l = "acl"
    BY <2>1, BootAt
  <2>6. listenB' = [k \in Listeners |-> listenB'[k]] /\ (l # "mtls" => listenB'["mtls"] = listenB["mtls"])
    BY <2>1 DEF BootInv, Listeners
  <2>7. listenB'["mtls"] = "serving" => stepB' >= 12
    BY <2>1, <2>2, <2>3, <2>6 DEF BootInv
  <2>8. stepB # 1 /\ stepB # 2
    BY <2>4, <2>5
  <2> QED BY <2>1, <2>3, <2>6, <2>7, <2>8 DEF BootInv
<1> QED BY <1>1, <1>2

\* Every stored node is loaded.
LEMMA HydrateKeeps ==
  ASSUME BootInv, Hydrate
  PROVE  BootInv'
<1>1. CASE Fail("hydrate", "error")
  BY <1>1 DEF Fail, BootInv
<1>2. CASE ~Fail("hydrate", "error")
  <2>1. BootStep("hydrate") /\ stepB' = stepB + 1 /\ readyB' = readyB \cup {"hydrate"}
        /\ loadedB' = NodesB /\ UNCHANGED listenB
    BY <1>2 DEF Hydrate, Done
  <2> QED BY <2>1, BootAt DEF BootInv
<1> QED BY <1>1, <1>2

\* The start goes on.
LEMMA BootProceedsKeeps ==
  ASSUME BootInv, BootProceeds
  PROVE  BootInv'
<1>1. ASSUME NEW name, NEW how, Fail(name, how) PROVE BootInv'
  BY <1>1 DEF Fail, BootInv
<1>2. LoadConfig \/ OpenDatabase \/ StartAcl \/ SelectCa \/ SpawnIndex \/ BuildBilling
      \/ BuildAccounts \/ BuildTls \/ InstallSignals \/ SpawnHttp => BootInv'
  BY <1>1, PassKeeps
     DEF LoadConfig, OpenDatabase, StartAcl, SelectCa, SpawnIndex, BuildBilling, BuildAccounts,
         BuildTls, InstallSignals, SpawnHttp
<1>3. BindMtls \/ BindPublic => BootInv'
  BY PassKeeps, BindKeeps DEF BindMtls, BindPublic
<1> QED BY <1>2, <1>3, HydrateKeeps DEF BootProceeds

\* Every step keeps the order of the start.
LEMMA BootKeeps ==
  ASSUME BootInv, [BootNext]_bootVars
  PROVE  BootInv'
<1> USE DEF BootInv
<1>1. CASE HttpBinds BY <1>1 DEF HttpBinds
<1>2. CASE HttpBindFails BY <1>2 DEF HttpBindFails
<1>3. CASE HttpSeesSignal BY <1>3 DEF HttpSeesSignal
<1>4. CASE BroadcastStop BY <1>4 DEF BroadcastStop
<1>5. CASE MainReturns BY <1>5 DEF MainReturns
<1>6. ASSUME NEW l \in Listeners, GrpcDrains(l) PROVE BootInv'
  <2>1. listenB' = [listenB EXCEPT ![l] = "draining"] /\ UNCHANGED <<stepB, readyB, loadedB>>
    BY <1>6 DEF GrpcDrains
  <2> QED BY <2>1
<1>7. ASSUME NEW l \in Listeners, Drained(l) PROVE BootInv'
  BY <1>7 DEF Drained
<1>8. CASE SignalArrives BY <1>8 DEF SignalArrives
<1>9. CASE ListenerFails BY <1>9 DEF ListenerFails
<1>10. ASSUME NEW l \in Listeners, RequestBegins(l) PROVE BootInv'
  BY <1>10 DEF RequestBegins
<1>11. ASSUME NEW l \in Listeners, RequestEnds(l) PROVE BootInv'
  BY <1>11 DEF RequestEnds
<1>12. CASE UNCHANGED bootVars BY <1>12 DEF bootVars
<1> QED
  BY <1>1, <1>2, <1>3, <1>4, <1>5, <1>6, <1>7, <1>8, <1>9, <1>10, <1>11, <1>12,
     BootProceedsKeeps DEF BootNext, HttpStarts, Stopping

\* The listener that authenticates serves only once every stored node is known and the
\* ACL loop and the database are up, in any environment and whatever fails (main).
THEOREM BootHolds == BootSpec => []ServesWhenReady
<1>1. BootInit => BootInv
  BY DEF BootInit, BootInv, Listeners
<1>2. BootInv /\ [BootNext]_bootVars => BootInv'
  BY BootKeeps
<1>3. BootInv => ServesWhenReady
  BY DEF BootInv, ServesWhenReady
<1> QED BY <1>1, <1>2, <1>3, PTL DEF BootSpec

-----------------------------------------------------------------------------
(* Agent writes and their webhooks *)

\* The job in delivery and what became of its targets.
AgentsInv ==
  /\ served = [h \in Hooks |-> served[h]]
  /\ delivery \in Deliveries \cup {NoAgent}
  /\ delivery # NoAgent => delivery.on = NoAgent \/ delivery.on \in delivery.left
  /\ EveryTargetServed

\* Steps that leave the delivery task alone.
LEMMA DeliveryStays ==
  ASSUME AgentsInv, UNCHANGED <<delivery, served>>
  PROVE  AgentsInv'
BY DEF AgentsInv, EveryTargetServed

\* A job is taken from the channel: its targets are owed a delivery.
LEMMA TakeJobKeeps ==
  ASSUME AgentsInv, TakeJob
  PROVE  AgentsInv'
<1>1. CASE UNCHANGED <<delivery, served>>
  BY <1>1, DeliveryStays
<1>2. CASE ~UNCHANGED <<delivery, served>>
  <2>1. PICK ts : ts = TargetsOf(Head(jobs))
    OBVIOUS
  <2>2. /\ delivery' = [left |-> ts, tried |-> 0, on |-> NoAgent]
        /\ served' = [h \in Hooks |-> [tries |-> 0, end |-> IF h \in ts THEN "owed" ELSE "none"]]
    BY <1>2, <2>1 DEF TakeJob
  <2>3. ts \subseteq Hooks
    BY <2>1 DEF TargetsOf
  <2>4. delivery' \in Deliveries /\ delivery'.left = ts /\ delivery'.on = NoAgent
    BY <2>2, <2>3 DEF Deliveries
  <2>5. \A h \in Hooks : served'[h].end = (IF h \in ts THEN "owed" ELSE "none")
    BY <2>2
  <2>6. served' = [h \in Hooks |-> served'[h]]
    BY <2>2
  <2>7. EveryTargetServed'
    BY <2>4, <2>5, AgentsAssumption DEF EveryTargetServed
  <2> QED BY <2>4, <2>6, <2>7 DEF AgentsInv
<1> QED BY <1>1, <1>2

\* An attempt ends with success, with the last failure or with another attempt to come.
LEMMA AttemptKeeps ==
  ASSUME AgentsInv, NEW h \in Hooks, Attempt(h)
  PROVE  AgentsInv'
<1>1. /\ delivery \in Deliveries /\ h \in delivery.left
      /\ delivery.left \subseteq Hooks /\ delivery.tried \in Nat
  BY AgentsAssumption DEF AgentsInv, Attempt, Deliveries
<1>2. PICK n : n = delivery.tried + 1
  OBVIOUS
<1>3. PICK rest : rest = [left |-> delivery.left \ {h}, tried |-> 0, on |-> NoAgent]
  OBVIOUS
<1>4. rest \in Deliveries /\ rest.left = delivery.left \ {h} /\ rest.on = NoAgent /\ rest # NoAgent
  BY <1>1, <1>3, AgentsAssumption DEF Deliveries
<1>5. \/ \E e \in {"delivered", "failed"} :
            /\ served' = [served EXCEPT ![h] = [end |-> e, tries |-> n]]
            /\ delivery' = rest
            /\ e = "failed" => n = MaxRetries
      \/ delivery' = [delivery EXCEPT !.on = h, !.tried = n] /\ served' = served
  BY <1>2, <1>3 DEF Attempt, Exhausted
<1>6. ASSUME NEW e \in {"delivered", "failed"},
             served' = [served EXCEPT ![h] = [end |-> e, tries |-> n]],
             delivery' = rest, e = "failed" => n = MaxRetries
      PROVE  AgentsInv'
  <2>1. served = [g \in Hooks |-> served[g]]
    BY DEF AgentsInv
  <2>2. /\ served' = [g \in Hooks |-> served'[g]]
        /\ served'[h].end = e /\ served'[h].tries = n
        /\ \A g \in Hooks : g # h => served'[g] = served[g]
    BY <1>6, <2>1
  <2>3. EveryTargetServed'
    BY <1>4, <1>6, <2>2 DEF AgentsInv, EveryTargetServed
  <2> QED BY <1>4, <1>6, <2>2, <2>3 DEF AgentsInv
<1>7. ASSUME delivery' = [delivery EXCEPT !.on = h, !.tried = n], served' = served
      PROVE  AgentsInv'
  <2>1. n \in Nat
    BY <1>1, <1>2
  <2>2. /\ delivery' \in Deliveries /\ delivery'.left = delivery.left /\ delivery'.on = h
        /\ delivery' # NoAgent
    BY <1>1, <1>7, <2>1, AgentsAssumption DEF Deliveries
  <2>3. EveryTargetServed'
    BY <1>7, <2>2 DEF AgentsInv, EveryTargetServed
  <2> QED BY <1>1, <1>7, <2>2, <2>3 DEF AgentsInv
<1> QED BY <1>5, <1>6, <1>7

\* The job is worked off: nobody is owed anything.
LEMMA JobDoneKeeps ==
  ASSUME AgentsInv, JobDone
  PROVE  AgentsInv'
BY DEF AgentsInv, JobDone, EveryTargetServed

\* Every step keeps account of the targets.
LEMMA AgentsKeep ==
  ASSUME AgentsInv, [AgentsNext]_agentVars
  PROVE  AgentsInv'
<1>1. ASSUME NEW a \in Agents, NEW r, BeginWrite(a, r) PROVE AgentsInv'
  BY <1>1, DeliveryStays DEF BeginWrite
<1>2. ASSUME NEW a \in Agents,
             WriteBytes(a) \/ BumpCompare(a) \/ BumpUpsert(a) \/ BumpCheck(a) \/ WriteAgentRow(a)
      PROVE  AgentsInv'
  BY <1>2, DeliveryStays DEF WriteBytes, BumpCompare, BumpUpsert, BumpCheck, WriteAgentRow
<1>3. CASE ReportStale
  BY <1>3, DeliveryStays DEF ReportStale
<1>4. ASSUME NEW h \in Hooks, DeleteWebhook(h) PROVE AgentsInv'
  BY <1>4, DeliveryStays DEF DeleteWebhook
<1>5. ASSUME NEW h \in Hooks, NEW es \in SUBSET AgentEvents, RegisterWebhook(h, es) PROVE AgentsInv'
  BY <1>5, DeliveryStays DEF RegisterWebhook
<1>6. CASE UNCHANGED agentVars
  BY <1>6, DeliveryStays DEF agentVars
<1>7. CASE Deliver
  BY <1>7, TakeJobKeeps, JobDoneKeeps, AttemptKeeps DEF Deliver
<1> QED BY <1>1, <1>2, <1>3, <1>4, <1>5, <1>6, <1>7 DEF AgentsNext

\* The revision is raised by one, or stays.
LEMMA RevisionRises ==
  ASSUME [AgentsNext]_agentVars
  PROVE  agentRev' = agentRev \/ agentRev'.n = agentRev.n + 1
<1>1. ASSUME NEW a \in Agents, NEW r, BeginWrite(a, r) PROVE agentRev' = agentRev
  BY <1>1 DEF BeginWrite
<1>2. ASSUME NEW a \in Agents,
             WriteBytes(a) \/ BumpCompare(a) \/ BumpCheck(a) \/ WriteAgentRow(a)
      PROVE  agentRev' = agentRev
  BY <1>2 DEF WriteBytes, BumpCompare, BumpCheck, WriteAgentRow
<1>3. ASSUME NEW a \in Agents, BumpUpsert(a)
      PROVE  agentRev' = agentRev \/ agentRev'.n = agentRev.n + 1
  BY <1>3 DEF BumpUpsert, Unmoved
<1>4. ReportStale \/ Deliver => agentRev' = agentRev
  BY DEF ReportStale, Deliver, TakeJob, JobDone, Attempt
<1>5. ASSUME NEW h \in Hooks, DeleteWebhook(h) PROVE agentRev' = agentRev
  BY <1>5 DEF DeleteWebhook
<1>6. ASSUME NEW h \in Hooks, NEW es \in SUBSET AgentEvents, RegisterWebhook(h, es)
      PROVE  agentRev' = agentRev
  BY <1>6 DEF RegisterWebhook
<1>7. UNCHANGED agentVars => agentRev' = agentRev
  BY DEF agentVars
<1> QED BY <1>1, <1>2, <1>3, <1>4, <1>5, <1>6, <1>7 DEF AgentsNext

\* A revision number names one content, and a job that was worked off reached every
\* registration that asked for it or tried it MAX_RETRIES times, for any number of agents,
\* registrations and failures (bump_agent_write_revision, delivery_loop).
THEOREM AgentsHold == AgentsSpec => []EveryTargetServed /\ RevisionNamesContent
<1>1. AgentsInit => AgentsInv
  BY DEF AgentsInit, AgentsInv, EveryTargetServed
<1>2. AgentsInv /\ [AgentsNext]_agentVars => AgentsInv'
  BY AgentsKeep
<1>3. [AgentsNext]_agentVars => [agentRev' = agentRev \/ agentRev'.n = agentRev.n + 1]_agentVars
  BY RevisionRises
<1>4. AgentsInv => EveryTargetServed
  BY DEF AgentsInv
<1> QED BY <1>1, <1>2, <1>3, <1>4, PTL DEF AgentsSpec, RevisionNamesContent

-----------------------------------------------------------------------------
(* The parts together *)

\* A behaviour of the server's tasks is, for each of them, a behaviour of its own.
THEOREM PartsRun == MCSpec => Spec /\ AclSpec /\ BootSpec /\ IndexSpec /\ AgentsSpec
<1>1. MCInit => Init /\ AclInit /\ BootInit /\ IndexInit /\ AgentsInit
  BY Zenon DEF MCInit
<1>2. [MCNext]_mcVars => /\ [Next]_vars /\ [AclNext]_aclVars /\ [BootNext]_bootVars
                         /\ [IndexNext]_indexVars /\ [AgentsNext]_agentVars
  BY DEF MCNext, AuthMoves, AclMoves, BootMoves, IndexMoves, AgentsMove, mcVars
<1> QED BY <1>1, <1>2, PTL DEF MCSpec, Spec, AclSpec, BootSpec, IndexSpec, AgentsSpec

\* The safety properties of the server run, in every behaviour of the composition, on
\* machines with one share: keys, the index, the access list, the start and the agents.
THEOREM ServerHolds ==
  ASSUME OneTaskPerNode
  PROVE  MCSpec => /\ [](KeyAgreement /\ StaleIsPending /\ ServesWhenReady /\ EveryTargetServed)
                   /\ KeyIsFinal /\ IndexIsFresh /\ AclNeverRegresses /\ RevisionNamesContent
BY PartsRun, RegisteredKeysAgree, StoredKeysAreFinal, StaleRowsArePending, IndexImplementsFresh,
   AclHolds, BootHolds, AgentsHold, PTL
=============================================================================
