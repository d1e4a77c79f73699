------------------------------ MODULE SyncLoop ------------------------------
(***************************************************************************)
(* The per-share tasks of the client daemon: the SyncLoop state machine    *)
(* and its Backoff (crates/disk-client/src/sync_loop/mod.rs), the end of   *)
(* RemoteSync::execute that turns a cycle's transfers into an outcome      *)
(* (sync_loop/wire.rs), the task around them and the snapshot it publishes *)
(* for GET /status (crates/disk-cli/src/daemon.rs), and the POST /sync     *)
(* channel (rest_api/sync.rs).                                             *)
(*                                                                         *)
(* Time is discrete: `until` and `timer` hold the ticks left until the     *)
(* instant the code keeps.  What a cycle transfers is left open.           *)
(***************************************************************************)
EXTENDS Naturals

CONSTANTS
  Shares,         \* shares of the configuration, one task each
  None,           \* Option::None
  Base, Cap,      \* BACKOFF_BASE, BACKOFF_CAP
  Jitter,         \* BACKOFF_JITTER, in percent
  MaxAttempt,     \* where the attempt counter saturates (u32::MAX)
  Deadline,       \* CYCLE_DEADLINE
  QueueCap,       \* capacity of the manual-sync channel
  MaxDownloads,   \* bound: downloads a response asks for
  MaxPosts,       \* bound: POST /sync requests accepted
  Faults          \* what may go wrong: "exchange", "transfer", "unusable"

LoopStates == {"Idle", "Syncing", "Backoff", "AclMismatch", "ServerUnreachable", "Error"}
LoopErrors == {"ShareUnknown", "TransportUnavailable", "AclRoleMismatch",
               "AllTransfersFailed", "CycleDeadlineExceeded"}

ASSUME LoopAssumption ==
  /\ Base \in Nat \ {0} /\ Cap \in Nat \ {0} /\ Base <= Cap
  /\ Jitter \in 0..100
  /\ MaxAttempt \in Nat \ {0} /\ Deadline \in Nat \ {0}
  /\ QueueCap \in Nat \ {0} /\ MaxDownloads \in Nat /\ MaxPosts \in Nat

ASSUME NoneAssumption == None \notin LoopErrors \cup {"connect failed"} /\ None \notin Nat

VARIABLES
  phase,      \* where the task of a share is
  state,      \* SyncLoop::state
  attempt,    \* Backoff::attempt
  until,      \* SyncLoop::backoff_until
  lastError,  \* SyncLoop::last_error
  timer,      \* ticks left to the cycle in flight
  succeeded,  \* last_success_at is set
  status,     \* the snapshot GET /status returns
  manual,     \* signals in the manual-sync channel
  posts,      \* accepted POST /sync requests
  moved       \* history: what the last finished cycle asked for and installed

loopVars == <<state, attempt, until, lastError, succeeded>>
vars == <<phase, loopVars, timer, status, manual, posts, moved>>

\* build_live_snapshot
Snapshot(st, ok, err) == [state |-> st, succeeded |-> ok, error |-> err]

Init ==
  /\ phase = [s \in Shares |-> "connect"]
  /\ state = [s \in Shares |-> "Idle"]
  /\ attempt = [s \in Shares |-> 0]
  /\ until = [s \in Shares |-> None]
  /\ lastError = [s \in Shares |-> None]
  /\ timer = [s \in Shares |-> 0]
  /\ succeeded = [s \in Shares |-> FALSE]
  /\ status = [s \in Shares |-> Snapshot("Idle", FALSE, None)]
  /\ manual = 0 /\ posts = 0
  /\ moved = [s \in Shares |-> [asked |-> 0, installed |-> 0]]

-----------------------------------------------------------------------------
(* Backoff *)

SmallerOf(a, b) == IF a <= b THEN a ELSE b

\* Backoff::next_delay: any delay the jitter may draw, never more than the cap.
NextDelays(n) ==
  LET capped == SmallerOf(Base * 2^n, Cap)
  IN  {d \in 0..Cap : /\ 100 * d >= (100 - Jitter) * capped
                      /\ 100 * d <= (100 + Jitter) * capped}

-----------------------------------------------------------------------------
(* The task of a share *)

\* Connecting is retried for ever; every failure is published.
ConnectFails(s) ==
  /\ phase[s] = "connect"
  /\ status' = [status EXCEPT ![s] = Snapshot("ServerUnreachable", FALSE, "connect failed")]
  /\ UNCHANGED <<phase, loopVars, timer, manual, posts, moved>>

Connect(s) ==
  /\ phase[s] = "connect"
  /\ phase' = [phase EXCEPT ![s] = "wait"]
  /\ UNCHANGED <<loopVars, timer, status, manual, posts, moved>>

\* A woken task publishes "syncing" before it looks at its state machine.
Woken(s) ==
  /\ phase[s] = "wait"
  /\ status' = [status EXCEPT ![s] = Snapshot("Syncing", succeeded[s], None)]
  /\ phase' = [phase EXCEPT ![s] = "begin"]
  /\ UNCHANGED <<loopVars, timer, posts, moved>>

PollWake(s) == Woken(s) /\ UNCHANGED manual

\* The tasks share one receiver: a signal wakes whoever holds it.
ManualWake(s) ==
  /\ manual > 0
  /\ manual' = manual - 1
  /\ Woken(s)

\* Mutant of MayBegin: the deadline of a Backoff is not compared with the clock.
MayBeginEarly(s) == state[s] # "AclMismatch"

\* Whether begin_sync starts a cycle.
MayBegin(s) ==
  /\ state[s] # "AclMismatch"
  /\ state[s] = "Backoff" => until[s] \in {None, 0}

BeginSync(s) ==
  /\ phase[s] = "begin"
  /\ MayBegin(s)
  /\ state' = [state EXCEPT ![s] = "Syncing"]
  /\ until' = [until EXCEPT ![s] = IF state[s] = "Backoff" THEN None ELSE @]
  /\ timer' = [timer EXCEPT ![s] = Deadline]
  /\ phase' = [phase EXCEPT ![s] = "run"]
  /\ UNCHANGED <<attempt, lastError, succeeded, status, manual, posts, moved>>

\* run_iteration returns None: still dwelling, or pinned.
RefuseSync(s) ==
  /\ phase[s] = "begin"
  /\ ~MayBegin(s)
  /\ phase' = [phase EXCEPT ![s] = "publish"]
  /\ UNCHANGED <<loopVars, timer, status, manual, posts, moved>>

ShouldBackoff(outcome) == outcome \in LoopErrors \ {"AclRoleMismatch"}

\* The state a retryable error is reported as.
RetryState(err) ==
  CASE err = "TransportUnavailable" -> "ServerUnreachable"
    [] err \in {"AllTransfersFailed", "CycleDeadlineExceeded"} -> "Error"
    [] OTHER -> "Backoff"

\* finish_sync, and last_success_at in the task that called it.
FinishSync(s, outcome) ==
  /\ phase' = [phase EXCEPT ![s] = "publish"]
  /\ \/ /\ outcome = "Ok"
        /\ state' = [state EXCEPT ![s] = "Idle"]
        /\ attempt' = [attempt EXCEPT ![s] = 0]
        /\ until' = [until EXCEPT ![s] = None]
        /\ lastError' = [lastError EXCEPT ![s] = None]
        /\ succeeded' = [succeeded EXCEPT ![s] = TRUE]
     \/ /\ ShouldBackoff(outcome)
        /\ state' = [state EXCEPT ![s] = RetryState(outcome)]
        /\ attempt' = [attempt EXCEPT ![s] = SmallerOf(@ + 1, MaxAttempt)]
        /\ \E d \in NextDelays(attempt[s]) : until' = [until EXCEPT ![s] = d]
        /\ lastError' = [lastError EXCEPT ![s] = outcome]
        /\ UNCHANGED succeeded
     \/ /\ outcome = "AclRoleMismatch"
        /\ state' = [state EXCEPT ![s] = "AclMismatch"]
        /\ until' = [until EXCEPT ![s] = None]
        /\ lastError' = [lastError EXCEPT ![s] = outcome]
        /\ UNCHANGED <<attempt, succeeded>>
  /\ timer' = [timer EXCEPT ![s] = 0]
  /\ UNCHANGED <<status, manual, posts>>

\* execute: the exchange is refused or does not get through.
ExchangeFails(s) ==
  /\ "exchange" \in Faults
  /\ phase[s] = "run"
  /\ \E err \in {"ShareUnknown", "TransportUnavailable", "AclRoleMismatch"} :
       FinishSync(s, err)
  /\ moved' = [moved EXCEPT ![s] = [asked |-> 0, installed |-> 0]]

\* Mutant of CycleOutcome: failed downloads are only logged.
CycleOutcomeLenient(attempted, failed) == "Ok"

\* The end of execute: nothing but failures is a failure.
CycleOutcome(attempted, failed) ==
  IF failed > 0 /\ failed = attempted THEN "AllTransfersFailed" ELSE "Ok"

\* execute: `asked` downloads, of which some fail in transfer and some arrive
\* and cannot be used (hash or key mismatch, unwritable): those last ones are
\* counted neither as attempted nor as failed.
Transfers(s) ==
  /\ phase[s] = "run"
  /\ \E asked \in 0..MaxDownloads :
       \E failed \in 0..asked : \E unusable \in 0..(asked - failed) :
         /\ failed > 0 => "transfer" \in Faults
         /\ unusable > 0 => "unusable" \in Faults
         /\ FinishSync(s, CycleOutcome(asked - unusable, failed))
         /\ moved' = [moved EXCEPT ![s] =
                        [asked |-> asked, installed |-> asked - failed - unusable]]

\* Mutant of Expired: the cycle is awaited without a timeout.
ExpiredNever(s) == FALSE

\* tokio::time::timeout(cycle_deadline, ..)
Expired(s) == phase[s] = "run" /\ timer[s] = 0

Timeout(s) ==
  /\ Expired(s)
  /\ FinishSync(s, "CycleDeadlineExceeded")
  /\ moved' = [moved EXCEPT ![s] = [asked |-> 0, installed |-> 0]]

Publish(s) ==
  /\ phase[s] = "publish"
  /\ status' = [status EXCEPT ![s] = Snapshot(state[s], succeeded[s], lastError[s])]
  /\ phase' = [phase EXCEPT ![s] = "wait"]
  /\ UNCHANGED <<loopVars, timer, manual, posts, moved>>

-----------------------------------------------------------------------------
(* POST /sync and time *)

PostSync ==
  /\ posts < MaxPosts
  /\ manual < QueueCap
  /\ manual' = manual + 1
  /\ posts' = posts + 1
  /\ UNCHANGED <<phase, loopVars, timer, status, moved>>

Earlier(t) == IF t = 0 THEN 0 ELSE t - 1

Tick ==
  /\ until' = [s \in Shares |-> IF until[s] = None THEN None ELSE Earlier(until[s])]
  /\ timer' = [s \in Shares |-> Earlier(timer[s])]
  /\ UNCHANGED <<phase, state, attempt, lastError, succeeded, status, manual, posts, moved>>

TaskStep(s) == PollWake(s) \/ BeginSync(s) \/ RefuseSync(s) \/ Timeout(s) \/ Publish(s)

Next == \/ \E s \in Shares : \/ ConnectFails(s) \/ Connect(s) \/ TaskStep(s)
                             \/ ManualWake(s) \/ ExchangeFails(s) \/ Transfers(s)
        \/ PostSync
        \/ Tick

Spec == Init /\ [][Next]_vars

\* Time passes and the runtime polls every task.  Nothing obliges a connection
\* or a cycle to come back, or a manual signal to be sent.
Fairness == WF_vars(Tick) /\ \A s \in Shares : WF_vars(TaskStep(s))

FairSpec == Spec /\ Fairness

-----------------------------------------------------------------------------
Attempts   == 0..MaxAttempt
Delays     == 0..Cap \cup {None}
Countdowns == 0..Deadline
Counts     == [asked : 0..MaxDownloads, installed : 0..MaxDownloads]
Snapshots  == [state : LoopStates, succeeded : BOOLEAN,
               error : LoopErrors \cup {None, "connect failed"}]

\* The state of the loops: delays stay within the cap, the attempt counter saturates.
TypeOK ==
  /\ phase \in [Shares -> {"connect", "wait", "begin", "run", "publish"}]
  /\ state \in [Shares -> LoopStates]
  /\ attempt \in [Shares -> Attempts]
  /\ until \in [Shares -> Delays]
  /\ lastError \in [Shares -> LoopErrors \cup {None}]
  /\ timer \in [Shares -> Countdowns]
  /\ succeeded \in [Shares -> BOOLEAN]
  /\ status \in [Shares -> Snapshots]
  /\ manual \in 0..QueueCap
  /\ posts \in 0..MaxPosts
  /\ moved \in [Shares -> Counts]

Starts(s) == phase[s] # "run" /\ phase'[s] = "run"

\* A share the server does not know is retried no earlier than its backoff
\* says, and a share whose role the server refuses is not retried at all
\* (begin_sync; R-DIR-6 and R-DIR-7).
DwellHonoured ==
  [][\A s \in Shares : Starts(s) =>
       \/ lastError[s] \notin {"ShareUnknown", "AclRoleMismatch"}
       \/ lastError[s] = "ShareUnknown" /\ until[s] = 0]_vars

\* An outage can be told from health: between two cycles the published status
\* is that of a healthy share only if every transfer error of the last cycle
\* left some other file installed or nothing was asked for.
OutageVisible ==
  \A s \in Shares :
    phase[s] = "wait" /\ status[s].state = "Idle" /\ status[s].error = None =>
      \/ moved[s].asked = 0
      \/ moved[s].installed > 0

\* A share never reports "syncing" for ever, even if its cycle never returns
\* (DISK-0078).
SyncingEnds == \A s \in Shares : state[s] = "Syncing" ~> state[s] # "Syncing"

\* A connected share keeps trying for ever, unless its role is refused.
KeepsTrying ==
  \A s \in Shares : \/ <>[](phase[s] = "connect")
                    \/ []<>(phase[s] = "run")
                    \/ <>[](state[s] = "AclMismatch")

\* No share silently stops: a cycle that hangs is ended by the deadline, and a
\* connected share goes on trying (run_share_loop, DISK-0078).
SharesStayLive == SyncingEnds /\ KeepsTrying
=============================================================================
