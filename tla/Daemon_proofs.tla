---------------------------- MODULE Daemon_proofs ----------------------------
(***************************************************************************)
(* Theorems about the tasks of the client daemon, for any number of shares *)
(* and peers and any delays, deadlines, texts and channel sizes: the loop  *)
(* of a share, the reload of disk.toml, the fetch from peers, and their    *)
(* composition.                                                            *)
(***************************************************************************)
EXTENDS MCDaemon, TLAPS

-----------------------------------------------------------------------------
(* Facts about the operators *)

\* The values the steps assign.
LEMMA Values ==
  /\ 0 \in Attempts
  /\ None \in Delays
  /\ 0 \in Countdowns /\ Deadline \in Countdowns
  /\ [asked |-> 0, installed |-> 0] \in Counts
BY LoopAssumption DEF Attempts, Delays, Countdowns, Counts

\* Whatever the jitter draws, a delay is a number of ticks below the cap.
LEMMA DelayType ==
  ASSUME NEW n, NEW d \in NextDelays(n) PROVE d \in Delays /\ d # None
<1>1. d \in 0..Cap
  BY DEF NextDelays
<1>2. d \in Nat
  BY <1>1, LoopAssumption
<1> QED BY <1>1, <1>2, NoneAssumption, Zenon DEF Delays

\* The attempt counter saturates.
LEMMA AttemptType ==
  ASSUME NEW n \in Attempts PROVE SmallerOf(n + 1, MaxAttempt) \in Attempts
BY LoopAssumption DEF SmallerOf, Attempts

\* Time leaves countdowns and deadlines what they are.
LEMMA CountdownType == ASSUME NEW t \in Countdowns PROVE Earlier(t) \in Countdowns
BY LoopAssumption DEF Earlier, Countdowns

LEMMA EarlierDelay ==
  ASSUME NEW t \in Delays, t # None PROVE Earlier(t) \in Delays /\ Earlier(t) # None
<1>1. t \in 0..Cap
  BY Zenon DEF Delays
<1>2. Earlier(t) \in 0..Cap /\ Earlier(t) \in Nat
  BY <1>1, LoopAssumption DEF Earlier
<1> QED BY <1>2, NoneAssumption, Zenon DEF Delays

LEMMA SnapshotType ==
  ASSUME NEW st \in LoopStates, NEW ok \in BOOLEAN,
         NEW err \in LoopErrors \cup {None, "connect failed"}
  PROVE  Snapshot(st, ok, err) \in Snapshots
BY DEF Snapshot, Snapshots

\* A retryable error is reported as a state of its own, never as health.
LEMMA RetryStateType ==
  ASSUME NEW err
  PROVE  /\ RetryState(err) \in LoopStates \ {"Idle", "Syncing", "AclMismatch"}
         /\ err = "ShareUnknown" => RetryState(err) = "Backoff"
BY DEF RetryState, LoopStates

LEMMA OutcomeType ==
  ASSUME NEW a, NEW f PROVE CycleOutcome(a, f) \in {"Ok", "AllTransfersFailed"}
BY DEF CycleOutcome

-----------------------------------------------------------------------------
(* Type invariant, and what a loop remembers of its last failure *)

\* Outside a cycle, a loop whose last cycle met an unknown share is in Backoff
\* and has a deadline, and one whose role was refused is pinned.
DwellInv ==
  \A s \in Shares : phase[s] # "run" =>
    /\ lastError[s] = "ShareUnknown" => state[s] = "Backoff" /\ until[s] # None
    /\ lastError[s] = "AclRoleMismatch" => state[s] = "AclMismatch"

SInv == TypeOK /\ DwellInv

LEMMA InitSInv == Init => SInv
<1> SUFFICES ASSUME Init PROVE SInv
  OBVIOUS
<1>1. Snapshot("Idle", FALSE, None) \in Snapshots
  BY SnapshotType DEF LoopStates
<1>2. manual \in 0..QueueCap /\ posts \in 0..MaxPosts
  BY LoopAssumption DEF Init
<1>3. TypeOK
  BY <1>1, <1>2, Values DEF Init, TypeOK, LoopStates
<1>4. DwellInv
  BY NoneAssumption DEF Init, DwellInv, LoopErrors
<1> QED BY <1>3, <1>4 DEF SInv

LEMMA FinishSInv ==
  ASSUME SInv, NEW s \in Shares, NEW outcome \in LoopErrors \cup {"Ok"},
         FinishSync(s, outcome), moved' \in [Shares -> Counts]
  PROVE  SInv'
<1> USE DEF SInv
<1>0. /\ phase' = [phase EXCEPT ![s] = "publish"]
      /\ timer' = [timer EXCEPT ![s] = 0]
      /\ UNCHANGED <<status, manual, posts>>
  BY DEF FinishSync
<1>1. CASE outcome = "Ok"
  <2>1. ~ShouldBackoff(outcome) /\ outcome # "AclRoleMismatch"
    BY <1>1 DEF ShouldBackoff, LoopErrors
  <2>2. /\ state' = [state EXCEPT ![s] = "Idle"]
        /\ attempt' = [attempt EXCEPT ![s] = 0]
        /\ until' = [until EXCEPT ![s] = None]
        /\ lastError' = [lastError EXCEPT ![s] = None]
        /\ succeeded' = [succeeded EXCEPT ![s] = TRUE]
    BY <2>1 DEF FinishSync
  <2>3. TypeOK'
    BY <1>0, <2>2, Values DEF TypeOK, LoopStates
  <2>4. DwellInv'
    BY <1>0, <2>2, NoneAssumption DEF DwellInv, TypeOK, LoopErrors
  <2> QED BY <2>3, <2>4
<1>2. CASE outcome = "AclRoleMismatch"
  <2>1. ~ShouldBackoff(outcome) /\ outcome # "Ok"
    BY <1>2 DEF ShouldBackoff
  <2>2. /\ state' = [state EXCEPT ![s] = "AclMismatch"]
        /\ until' = [until EXCEPT ![s] = None]
        /\ lastError' = [lastError EXCEPT ![s] = outcome]
        /\ UNCHANGED <<attempt, succeeded>>
    BY <2>1 DEF FinishSync
  <2>3. TypeOK'
    BY <1>0, <1>2, <2>2, Values DEF TypeOK, LoopStates, LoopErrors
  <2>4. DwellInv'
    BY <1>0, <1>2, <2>2 DEF DwellInv, TypeOK
  <2> QED BY <2>3, <2>4
<1>3. CASE outcome \in LoopErrors \ {"AclRoleMismatch"}
  <2>1. outcome # "Ok" /\ outcome # "AclRoleMismatch"
    BY <1>3 DEF LoopErrors
  <2>2. /\ state' = [state EXCEPT ![s] = RetryState(outcome)]
        /\ attempt' = [attempt EXCEPT ![s] = SmallerOf(@ + 1, MaxAttempt)]
        /\ \E d \in NextDelays(attempt[s]) : until' = [until EXCEPT ![s] = d]
        /\ lastError' = [lastError EXCEPT ![s] = outcome]
        /\ UNCHANGED succeeded
    BY <2>1 DEF FinishSync
  <2>3. PICK d \in Delays : d # None /\ until' = [until EXCEPT ![s] = d]
    BY <2>2, DelayType
  <2>4. PICK n \in Attempts : attempt' = [attempt EXCEPT ![s] = n]
    BY <2>2, AttemptType DEF TypeOK
  <2>5. PICK st \in LoopStates : /\ state' = [state EXCEPT ![s] = st]
                                 /\ outcome = "ShareUnknown" => st = "Backoff"
    BY <2>2, RetryStateType
  <2>6. TypeOK'
    BY <1>0, <1>3, <2>2, <2>3, <2>4, <2>5, Values DEF TypeOK
  <2>7. DwellInv'
    BY <1>0, <2>1, <2>2, <2>3, <2>5 DEF DwellInv, TypeOK
  <2> QED BY <2>6, <2>7
<1> QED BY <1>1, <1>2, <1>3

LEMMA TaskSInv ==
  ASSUME SInv, NEW s \in Shares,
         ConnectFails(s) \/ Connect(s) \/ TaskStep(s) \/ ManualWake(s)
           \/ ExchangeFails(s) \/ Transfers(s)
  PROVE  SInv'
<1> USE DEF SInv, loopVars
<1>1. CASE ConnectFails(s)
  <2>1. TypeOK'
    BY <1>1, SnapshotType DEF ConnectFails, TypeOK, LoopStates
  <2>2. DwellInv'
    BY <1>1 DEF ConnectFails, DwellInv
  <2> QED BY <2>1, <2>2
<1>2. CASE Connect(s)
  <2>1. TypeOK'
    BY <1>2 DEF Connect, TypeOK
  <2>2. DwellInv'
    BY <1>2 DEF Connect, DwellInv, TypeOK
  <2> QED BY <2>1, <2>2
<1>3. ASSUME Woken(s), manual' \in 0..QueueCap PROVE SInv'
  <2>1. TypeOK'
    <3>1. Snapshot("Syncing", succeeded[s], None) \in Snapshots
      BY SnapshotType DEF TypeOK, LoopStates
    <3> QED BY <1>3, <3>1 DEF Woken, TypeOK
  <2>2. DwellInv'
    BY <1>3 DEF Woken, DwellInv, TypeOK
  <2> QED BY <2>1, <2>2
<1>4. CASE PollWake(s) \/ ManualWake(s)
  <2>1. manual' \in 0..QueueCap /\ Woken(s)
    BY <1>4, LoopAssumption DEF PollWake, ManualWake, TypeOK
  <2> QED BY <1>3, <2>1
<1>5. CASE BeginSync(s)
  <2>1. TypeOK'
    BY <1>5, Values DEF BeginSync, TypeOK, LoopStates
  <2>2. DwellInv'
    BY <1>5 DEF BeginSync, DwellInv, TypeOK
  <2> QED BY <2>1, <2>2
<1>6. CASE RefuseSync(s)
  <2>1. TypeOK'
    BY <1>6 DEF RefuseSync, TypeOK
  <2>2. DwellInv'
    BY <1>6 DEF RefuseSync, DwellInv, TypeOK
  <2> QED BY <2>1, <2>2
<1>7. CASE Publish(s)
  <2>1. Snapshot(state[s], succeeded[s], lastError[s])
          \in Snapshots
    BY SnapshotType DEF TypeOK
  <2>2. TypeOK'
    BY <1>7, <2>1 DEF Publish, TypeOK
  <2>3. DwellInv'
    BY <1>7 DEF Publish, DwellInv, TypeOK
  <2> QED BY <2>2, <2>3
<1>8. CASE Timeout(s) \/ ExchangeFails(s)
  <2>1. PICK outcome \in LoopErrors : FinishSync(s, outcome)
    BY <1>8 DEF Timeout, ExchangeFails, LoopErrors
  <2>2. moved' = [moved EXCEPT ![s] = [asked |-> 0, installed |-> 0]]
    BY <1>8 DEF Timeout, ExchangeFails
  <2>3. moved' \in [Shares -> Counts]
    BY <2>2, Values DEF TypeOK
  <2> QED BY <2>1, <2>3, FinishSInv
<1>9. CASE Transfers(s)
  <2>1. PICK asked \in 0..MaxDownloads :
          \E failed \in 0..asked : \E unusable \in 0..(asked - failed) :
            /\ FinishSync(s, CycleOutcome(asked - unusable, failed))
            /\ moved' = [moved EXCEPT ![s] =
                           [asked |-> asked, installed |-> asked - failed - unusable]]
    BY <1>9 DEF Transfers
  <2>2. PICK failed \in 0..asked : \E unusable \in 0..(asked - failed) :
          /\ FinishSync(s, CycleOutcome(asked - unusable, failed))
          /\ moved' = [moved EXCEPT ![s] =
                         [asked |-> asked, installed |-> asked - failed - unusable]]
    BY <2>1
  <2> PICK unusable \in 0..(asked - failed) :
          /\ FinishSync(s, CycleOutcome(asked - unusable, failed))
          /\ moved' = [moved EXCEPT ![s] =
                         [asked |-> asked, installed |-> asked - failed - unusable]]
    BY <2>2
  <2>3. moved' \in [Shares -> Counts]
    <3>1. asked - failed - unusable \in 0..MaxDownloads
      BY LoopAssumption
    <3>2. [asked |-> asked, installed |-> asked - failed - unusable] \in Counts
      BY <3>1 DEF Counts
    <3> QED BY <3>2 DEF TypeOK
  <2>4. CycleOutcome(asked - unusable, failed) \in LoopErrors \cup {"Ok"}
    BY OutcomeType DEF LoopErrors
  <2> QED BY <2>3, <2>4, FinishSInv
<1> QED BY <1>1, <1>2, <1>4, <1>5, <1>6, <1>7, <1>8, <1>9 DEF TaskStep

LEMMA NextSInv == SInv /\ [Next]_vars => SInv'
<1> SUFFICES ASSUME SInv, [Next]_vars PROVE SInv'
  OBVIOUS
<1> USE DEF SInv, loopVars
<1>1. CASE UNCHANGED vars
  BY <1>1 DEF vars, TypeOK, DwellInv
<1>2. CASE PostSync
  <2>1. manual' \in 0..QueueCap /\ posts' \in 0..MaxPosts
    BY <1>2, LoopAssumption DEF PostSync, TypeOK
  <2>2. TypeOK'
    BY <1>2, <2>1 DEF PostSync, TypeOK
  <2>3. DwellInv'
    BY <1>2 DEF PostSync, DwellInv
  <2> QED BY <2>2, <2>3
<1>3. CASE Tick
  <2>1. \A s \in Shares : timer'[s] \in Countdowns
    BY <1>3, CountdownType DEF Tick, TypeOK
  <2>2. ASSUME NEW s \in Shares
        PROVE  until'[s] \in Delays /\ (until[s] # None => until'[s] # None)
    BY <1>3, EarlierDelay DEF Tick, TypeOK
  <2>3. TypeOK'
    BY <1>3, <2>1, <2>2 DEF Tick, TypeOK
  <2>4. DwellInv'
    BY <1>3, <2>2 DEF Tick, DwellInv
  <2> QED BY <2>3, <2>4
<1> QED BY <1>1, <1>2, <1>3, TaskSInv DEF Next

LEMMA SInvInvariant == Spec => []SInv
BY InitSInv, NextSInv, PTL DEF Spec

\* Spec => []TypeOK: in particular no delay the jitter draws, after any number
\* of failures, exceeds BACKOFF_CAP, and the attempt counter saturates
\* (Backoff::next_delay).
THEOREM LoopTypeCorrect == Spec => []TypeOK
<1>1. SInv => TypeOK
  BY DEF SInv
<1> QED BY <1>1, SInvInvariant, PTL

\* Spec => DwellHonoured: with any number of shares, polls and manual signals, a
\* share the server does not know is not retried before its deadline, and one
\* whose role is refused is not retried (begin_sync, finish_sync).
THEOREM DwellIsHonoured == Spec => DwellHonoured
<1>1. ASSUME SInv, [Next]_vars
      PROVE  [\A s \in Shares : Starts(s) =>
                \/ lastError[s] \notin {"ShareUnknown", "AclRoleMismatch"}
                \/ lastError[s] = "ShareUnknown" /\ until[s] = 0]_vars
  <2> SUFFICES ASSUME Next, NEW s \in Shares, Starts(s)
               PROVE  \/ lastError[s] \notin {"ShareUnknown", "AclRoleMismatch"}
                      \/ lastError[s] = "ShareUnknown" /\ until[s] = 0
    BY <1>1
  <2>1. BeginSync(s)
    <3>1. ASSUME NEW t \in Shares, NEW outcome, FinishSync(t, outcome) PROVE FALSE
      BY <1>1, <3>1 DEF FinishSync, Starts, SInv, TypeOK
    <3>2. ASSUME NEW t \in Shares, ExchangeFails(t) \/ Transfers(t) \/ Timeout(t) PROVE FALSE
      BY <3>1, <3>2 DEF ExchangeFails, Transfers, Timeout
    <3>3. ASSUME NEW t \in Shares,
                 ConnectFails(t) \/ Connect(t) \/ Woken(t) \/ RefuseSync(t) \/ Publish(t)
          PROVE  FALSE
      BY <1>1, <3>3 DEF ConnectFails, Connect, Woken, RefuseSync, Publish, Starts, SInv, TypeOK
    <3>4. ASSUME PostSync \/ Tick PROVE FALSE
      BY <3>4 DEF PostSync, Tick, Starts
    <3>5. ASSUME NEW t \in Shares, BeginSync(t) PROVE t = s
      BY <1>1, <3>5 DEF BeginSync, Starts, SInv, TypeOK
    <3> QED BY <3>2, <3>3, <3>4, <3>5 DEF Next, TaskStep, PollWake, ManualWake
  <2> QED BY <1>1, <2>1 DEF BeginSync, MayBegin, SInv, DwellInv
<1> QED BY <1>1, SInvInvariant, PTL DEF Spec, DwellHonoured
-----------------------------------------------------------------------------
(* An outage is not published as health *)

Delivered(s) == moved[s].asked = 0 \/ moved[s].installed > 0

\* OutageVisible needs to know what will be published next, and what is
\* published before the first cycle.
OutageInv ==
  \A s \in Shares :
    /\ phase[s] = "connect" => Delivered(s)
    /\ phase[s] = "publish" /\ state[s] = "Idle" => Delivered(s)
    /\ phase[s] = "wait" /\ status[s].state = "Idle" => Delivered(s)

LEMMA FinishOutage ==
  ASSUME TypeOK, OutageInv, NEW s \in Shares, NEW outcome, FinishSync(s, outcome),
         \A t \in Shares \ {s} : moved'[t] = moved[t],
         outcome = "Ok" => Delivered(s)'
  PROVE  OutageInv'
<1>1. phase' = [phase EXCEPT ![s] = "publish"] /\ UNCHANGED status
  BY DEF FinishSync
<1>2. \E st : state' = [state EXCEPT ![s] = st] /\ (outcome # "Ok" => st # "Idle")
  BY RetryStateType DEF FinishSync
<1> QED BY <1>1, <1>2 DEF OutageInv, Delivered, TypeOK

LEMMA TaskOutage ==
  ASSUME "unusable" \notin Faults, TypeOK, OutageInv, NEW s \in Shares,
         ConnectFails(s) \/ Connect(s) \/ TaskStep(s) \/ ManualWake(s)
           \/ ExchangeFails(s) \/ Transfers(s)
  PROVE  OutageInv'
<1> USE DEF loopVars, Delivered
<1>1. CASE ConnectFails(s)
  BY <1>1 DEF ConnectFails, OutageInv, TypeOK, Snapshot
<1>2. CASE Connect(s)
  BY <1>2 DEF Connect, OutageInv, TypeOK
<1>3. CASE PollWake(s) \/ ManualWake(s)
  <2>1. Woken(s)
    BY <1>3 DEF PollWake, ManualWake
  <2> QED BY <2>1 DEF Woken, OutageInv, TypeOK, Snapshot
<1>4. CASE BeginSync(s)
  BY <1>4 DEF BeginSync, OutageInv, TypeOK
<1>5. CASE RefuseSync(s)
  <2>1. state[s] # "Idle"
    BY <1>5 DEF RefuseSync, MayBegin
  <2> QED BY <1>5, <2>1 DEF RefuseSync, OutageInv, TypeOK
<1>6. CASE Publish(s)
  BY <1>6 DEF Publish, OutageInv, TypeOK, Snapshot
<1>7. CASE Timeout(s) \/ ExchangeFails(s)
  <2>1. PICK outcome : FinishSync(s, outcome)
    BY <1>7 DEF Timeout, ExchangeFails
  <2>2. moved' = [moved EXCEPT ![s] = [asked |-> 0, installed |-> 0]]
    BY <1>7 DEF Timeout, ExchangeFails
  <2>3. Delivered(s)' /\ \A t \in Shares \ {s} : moved'[t] = moved[t]
    BY <2>2 DEF TypeOK
  <2> QED BY <2>1, <2>3, FinishOutage
<1>8. CASE Transfers(s)
  <2>1. PICK asked \in 0..MaxDownloads : \E failed \in 0..asked :
          \E unusable \in 0..(asked - failed) :
            /\ unusable > 0 => "unusable" \in Faults
            /\ FinishSync(s, CycleOutcome(asked - unusable, failed))
            /\ moved' = [moved EXCEPT ![s] =
                           [asked |-> asked, installed |-> asked - failed - unusable]]
    BY <1>8 DEF Transfers
  <2> PICK failed \in 0..asked :
          \E unusable \in 0..(asked - failed) :
            /\ unusable > 0 => "unusable" \in Faults
            /\ FinishSync(s, CycleOutcome(asked - unusable, failed))
            /\ moved' = [moved EXCEPT ![s] =
                           [asked |-> asked, installed |-> asked - failed - unusable]]
    BY <2>1
  <2> PICK unusable \in 0..(asked - failed) :
          /\ unusable > 0 => "unusable" \in Faults
          /\ FinishSync(s, CycleOutcome(asked - unusable, failed))
          /\ moved' = [moved EXCEPT ![s] =
                         [asked |-> asked, installed |-> asked - failed - unusable]]
    OBVIOUS
  <2>2. CycleOutcome(asked - unusable, failed) = "Ok" =>
          asked = 0 \/ asked - failed - unusable > 0
    BY LoopAssumption DEF CycleOutcome
  <2>3. /\ CycleOutcome(asked - unusable, failed) = "Ok" => Delivered(s)'
        /\ \A t \in Shares \ {s} : moved'[t] = moved[t]
    BY <2>2 DEF TypeOK
  <2> QED BY <2>3, FinishOutage
<1> QED BY <1>1, <1>2, <1>3, <1>4, <1>5, <1>6, <1>7, <1>8 DEF TaskStep

LEMMA NextOutage ==
  ASSUME "unusable" \notin Faults, TypeOK, OutageInv, [Next]_vars
  PROVE  OutageInv'
<1>1. CASE UNCHANGED vars \/ PostSync \/ Tick
  <2>1. UNCHANGED <<phase, state, status, moved>>
    BY <1>1 DEF vars, loopVars, PostSync, Tick
  <2> QED BY <2>1 DEF OutageInv, Delivered
<1> QED BY <1>1, TaskOutage DEF Next

\* If every file that arrives can be used, Spec => []OutageVisible: a cycle in
\* which nothing got through is never published as health (the end of execute,
\* finish_sync, build_live_snapshot).
THEOREM OutagesAreVisible ==
  ASSUME "unusable" \notin Faults PROVE Spec => []OutageVisible
<1>1. Init => OutageInv
  <2> SUFFICES ASSUME Init, NEW s \in Shares PROVE Delivered(s)
    BY DEF OutageInv
  <2>1. moved[s] = [asked |-> 0, installed |-> 0]
    BY DEF Init
  <2> QED BY <2>1 DEF Delivered
<1>2. OutageInv => OutageVisible
  BY DEF OutageInv, OutageVisible, Delivered
<1>3. SInv => TypeOK
  BY DEF SInv
<1>4. SInv /\ OutageInv /\ [Next]_vars => OutageInv'
  BY <1>3, NextOutage
<1> QED BY <1>1, <1>2, <1>4, SInvInvariant, PTL DEF Spec

-----------------------------------------------------------------------------
(* The reload of disk.toml *)

\* A share without a task has reported nothing; what is listed for it is fresh.
StatusInv ==
  /\ listed = [s \in ShareNames |-> listed[s]]
  /\ loop = [s \in ShareNames |-> loop[s]]
  /\ successes = [s \in ShareNames |-> successes[s]]
  /\ \A s \in ShareNames : loop[s] = "none" => successes[s] = 0 /\ listed[s].success = 0
  /\ LiveFieldsSurvive

\* Steps that leave the status alone.
LEMMA StatusStays ==
  ASSUME StatusInv, UNCHANGED statusVars
  PROVE  StatusInv'
BY DEF StatusInv, LiveFieldsSurvive, statusVars

\* The daemon lists the shares of its first configuration.
LEMMA StatusStarts == DaemonInit => StatusInv
BY DEF DaemonInit, StatusInv, LiveFieldsSurvive, FreshSnapshot, Unlisted

\* The tasks come up: none of them has reported yet.
LEMMA SpawnKeeps ==
  ASSUME StatusInv, SyncTasksSpawned
  PROVE  StatusInv'
<1>1. UNCHANGED <<listed, successes, reseeded>> /\ \A s \in ShareNames : loop[s] = "none"
  BY DEF SyncTasksSpawned
<1>2. loop' = [s \in ShareNames |-> loop'[s]]
  BY DEF SyncTasksSpawned
<1>3. \A s \in ShareNames : successes[s] = 0 /\ listed[s].success = 0
  BY <1>1 DEF StatusInv
<1> QED BY <1>1, <1>2, <1>3 DEF StatusInv, LiveFieldsSurvive

\* reconcile_shares: a share that stays keeps its fields, one that comes back is fresh.
LEMMA ReconcileSharesKeeps ==
  ASSUME StatusInv, ReconcileShares
  PROVE  StatusInv'
<1>1. PICK names : names = NamesOf(picked)
  OBVIOUS
<1>2. /\ listed' = [s \in ShareNames |-> IF s \in names THEN Reconciled(s) ELSE Unlisted]
      /\ reseeded' = reseeded \cup {s \in names : listed[s] = Unlisted}
      /\ UNCHANGED <<loop, successes>>
  BY <1>1 DEF ReconcileShares
<1>3. \A s \in ShareNames :
        \/ listed'[s] = Unlisted
        \/ listed'[s] = listed[s] /\ listed[s] # Unlisted
        \/ listed'[s] = FreshSnapshot /\ s \in reseeded'
  BY <1>2 DEF Reconciled
<1>4. Unlisted.success = 0 /\ FreshSnapshot.success = 0 /\ reseeded \subseteq reseeded'
  BY <1>2 DEF Unlisted, FreshSnapshot
<1>5. listed' = [s \in ShareNames |-> listed'[s]]
  BY <1>2
<1> QED BY <1>2, <1>3, <1>4, <1>5 DEF StatusInv, LiveFieldsSurvive

\* update_share: what is listed of the share is what its task reports.
LEMMA ReportKeeps ==
  ASSUME StatusInv, NEW s \in ShareNames, NEW shown, NEW n, loop[s] # "none",
         NEW at, at # "none", loop' = [loop EXCEPT ![s] = at],
         successes' = [successes EXCEPT ![s] = n], UpdateShare(s, shown, n)
  PROVE  StatusInv'
<1>1. /\ successes' = [t \in ShareNames |-> successes'[t]] /\ successes'[s] = n
      /\ loop' = [t \in ShareNames |-> loop'[t]] /\ loop'[s] = at
      /\ \A t \in ShareNames : t # s => successes'[t] = successes[t] /\ loop'[t] = loop[t]
  BY DEF StatusInv
<1>2. /\ listed' = [t \in ShareNames |-> listed'[t]]
      /\ \A t \in ShareNames : t # s => listed'[t] = listed[t]
      /\ listed'[s] = Unlisted \/ listed'[s].success = n
      /\ \A t \in ShareNames : t # s => (t \in reseeded' <=> t \in reseeded)
  BY DEF StatusInv, UpdateShare
<1> QED BY <1>1, <1>2 DEF StatusInv, LiveFieldsSurvive

\* Every step of the daemon keeps the status true.
LEMMA StatusKeeps ==
  ASSUME StatusInv, [DaemonNext]_cfgVars
  PROVE  StatusInv'
<1>1. WatcherArmed \/ ReconcilerStarts \/ PostConfigReload \/ TakeEvent \/ ReadToml
      \/ ApplyReload \/ ReconcileWakes => StatusInv'
  BY StatusStays DEF WatcherArmed, ReconcilerStarts, PostConfigReload, TakeEvent, ReadToml,
                     ApplyReload, ReconcileWakes
<1>2. ASSUME NEW t \in Tomls, Edit(t) PROVE StatusInv'
  BY <1>2, StatusStays DEF Edit
<1>3. ASSUME NEW s \in ShareNames, CycleBegins(s) PROVE StatusInv'
  <2>1. /\ loop[s] # "none" /\ loop' = [loop EXCEPT ![s] = "syncing"]
        /\ UpdateShare(s, "syncing", successes[s]) /\ successes' = successes
    BY <1>3 DEF CycleBegins
  <2>2. successes' = [successes EXCEPT ![s] = successes[s]]
    BY <2>1 DEF StatusInv
  <2> QED BY <2>1, <2>2, ReportKeeps
<1>4. ASSUME NEW s \in ShareNames, CycleEnds(s) PROVE StatusInv'
  <2>1. /\ loop[s] # "none" /\ loop' = [loop EXCEPT ![s] = "idle"]
        /\ successes = [t \in ShareNames |-> successes[t]]
    BY <1>4 DEF CycleEnds, StatusInv
  <2>2. PICK ok \in BOOLEAN :
          /\ successes' = [successes EXCEPT ![s] = IF ok THEN @ + 1 ELSE @]
          /\ UpdateShare(s, IF ok THEN "idle" ELSE "error", successes'[s])
    BY <1>4 DEF CycleEnds
  <2>3. PICK n : n = IF ok THEN successes[s] + 1 ELSE successes[s]
    OBVIOUS
  <2>4. successes' = [successes EXCEPT ![s] = n] /\ successes'[s] = n
    BY <2>1, <2>2, <2>3
  <2>5. UpdateShare(s, IF ok THEN "idle" ELSE "error", n)
    BY <2>2, <2>4
  <2> QED BY <2>1, <2>4, <2>5, ReportKeeps
<1>5. CASE UNCHANGED cfgVars
  BY <1>5, StatusStays DEF cfgVars, statusVars
<1> QED
  BY <1>1, <1>2, <1>3, <1>4, <1>5, SpawnKeeps, ReconcileSharesKeeps DEF DaemonNext

\* What GET /status says of a share is what its task last reported, for any shares, texts,
\* reloads and cycles, but for one that was taken out and put back (reconcile_shares).
THEOREM StatusHolds == DaemonSpec => []LiveFieldsSurvive
<1>1. StatusInv /\ [DaemonNext]_cfgVars => StatusInv'
  BY StatusKeeps
<1>2. StatusInv => LiveFieldsSurvive
  BY DEF StatusInv
<1> QED BY <1>1, <1>2, StatusStarts, PTL DEF DaemonSpec

-----------------------------------------------------------------------------
(* The fetch from peers *)

\* Every step of the link, the peers, the cloud and the fetch.
LEMMA FetchKeeps ==
  ASSUME FetchedIsExpected, [LanNext]_lanVars
  PROVE  FetchedIsExpected'
<1> USE DEF FetchedIsExpected, lanTransfer
<1>1. ASSUME NEW p \in PeersL, ServiceResolved(p) PROVE FetchedIsExpected'
  BY <1>1 DEF ServiceResolved
<1>2. ASSUME NEW p \in PeersL, NEW b \in BodiesL \cup {NoBodyL}, PeerEdits(p, b)
      PROVE  FetchedIsExpected'
  BY <1>2 DEF PeerEdits
<1>3. ASSUME NEW e \in resolved, RegistryUpsert(e) PROVE FetchedIsExpected'
  BY <1>3 DEF RegistryUpsert
<1>4. ASSUME NEW b \in BodiesL, CloudMoves(b) PROVE FetchedIsExpected'
  BY <1>4 DEF CloudMoves
<1>5. BrowsingEnds \/ ShutdownLan \/ SecondPassesL => FetchedIsExpected'
  BY DEF BrowsingEnds, ShutdownLan, SecondPassesL
<1>6. StartFetch => FetchedIsExpected'
  BY DEF StartFetch
<1>7. PeerHit => FetchedIsExpected'
  BY DEF PeerHit, Verified
<1>8. PeerMiss \/ CloudAnswers \/ CloudFails => FetchedIsExpected'
  BY DEF PeerMiss, CloudAnswers, CloudFails
<1>9. UNCHANGED lanVars => FetchedIsExpected'
  BY DEF lanVars
<1> QED BY <1>1, <1>2, <1>3, <1>4, <1>5, <1>6, <1>7, <1>8, <1>9 DEF LanNext

\* A download delivers the content the exchange named, for any peers, announcements and
\* edits of their copies (try_lan_fetch, fetch_blob_from_peer).
THEOREM FetchHolds == LanInit /\ [][LanNext]_lanVars => []FetchedIsExpected
<1>1. LanInit => FetchedIsExpected
  BY DEF LanInit, FetchedIsExpected
<1>2. FetchedIsExpected /\ [LanNext]_lanVars => FetchedIsExpected'
  BY FetchKeeps
<1> QED BY <1>1, <1>2, PTL

-----------------------------------------------------------------------------
(* The parts together *)

\* A behaviour of the daemon's tasks is, for each of them, a behaviour of its own.
THEOREM PartsRun == MCSpec => Spec /\ DaemonSpec /\ (LanInit /\ [][LanNext]_lanVars)
<1>1. MCInit => Init /\ DaemonInit /\ LanInit
  BY Zenon DEF MCInit
<1>2. [MCNext]_mcVars => [Next]_vars /\ [DaemonNext]_cfgVars /\ [LanNext]_lanVars
  BY DEF MCNext, LoopMoves, ConfigMoves, BootMoves, LanMoves, mcVars
<1> QED BY <1>1, <1>2, PTL DEF MCSpec, Spec, DaemonSpec

\* The safety properties of the daemon's run, in every behaviour of the composition, if
\* every file that arrives can be used.
THEOREM DaemonHolds ==
  ASSUME "unusable" \notin Faults
  PROVE  MCSpec => [](OutageVisible /\ LiveFieldsSurvive /\ FetchedIsExpected) /\ DwellHonoured
BY PartsRun, OutagesAreVisible, DwellIsHonoured, StatusHolds, FetchHolds, PTL
=============================================================================
