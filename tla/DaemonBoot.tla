----------------------------- MODULE DaemonBoot -----------------------------
(***************************************************************************)
(* The life of the client daemon (disk-cli daemon.rs run_start): the boot  *)
(* steps in their order, the task of each share with its connect loop, the *)
(* detached embeddings sweeps, the signal task and the shutdown.  The      *)
(* server comes and goes; a terminate signal may arrive at any moment.     *)
(***************************************************************************)
EXTENDS Naturals, FiniteSets

CONSTANTS
    SharesH,      \* configured shares
    MaxTroubles,  \* bound on outages of the server and failed cycles
    MaxConnects   \* bound on the attempts only a mutant has

VARIABLES
    bootH,        \* the step run_start is at, or how the process ended
    signalH,      \* "none", "sent" or "taken" (by the signal task)
    handlerH,     \* the signal task has installed its handlers
    stateH,       \* client state: "unopened", "open" or "absent" (degraded)
    restH,        \* the REST listener: "unbound", "serving" or "closed"
    taskH,        \* per share: "none", "connecting", "waiting", "cycling", "gone"
    dwellH,       \* per share: the sync loop is backing off
    attemptH,     \* per share: failed connects (capped; only a mutant reads it)
    statusH,      \* per share: what /status shows
    sweepsH,      \* per share: an embeddings sweep is running on a blocking thread
    serverH,      \* the server answers
    troublesH     \* troubles so far

bootVars == <<bootH, signalH, handlerH, stateH, restH, taskH, dwellH, attemptH,
              statusH, sweepsH, serverH, troublesH>>

Ended == {"stopped", "killed", "failed"}

RunInit ==
    /\ bootH = "load"
    /\ signalH = "none"
    /\ handlerH = FALSE
    /\ stateH = "unopened"
    /\ restH = "unbound"
    /\ taskH = [s \in SharesH |-> "none"]
    /\ dwellH = [s \in SharesH |-> FALSE]
    /\ attemptH = [s \in SharesH |-> 0]
    /\ statusH = [s \in SharesH |-> "none"]
    /\ sweepsH = [s \in SharesH |-> FALSE]
    /\ serverH \in BOOLEAN
    /\ troublesH = 0

\* An error of run_start ends the process; so does its return.
Leave(how) ==
    /\ bootH' = how
    /\ taskH' = [s \in SharesH |-> "gone"]
    /\ restH' = "closed"
    /\ UNCHANGED <<signalH, handlerH, stateH, dwellH, attemptH, statusH, sweepsH,
                   serverH, troublesH>>

\* DiskConfig::load, the state of the REST surface and spawn_config_watcher: /status
\* lists every share as idle from here on.
LoadConfiguration ==
    /\ bootH = "load"
    /\ \/ /\ bootH' = "signals"
          /\ statusH' = [s \in SharesH |-> "idle"]
          /\ UNCHANGED <<signalH, handlerH, stateH, restH, taskH, dwellH, attemptH,
                         sweepsH, serverH, troublesH>>
       \/ Leave("failed")

\* The signal task is spawned; it installs the handlers when it first runs.
SpawnSignalTask ==
    /\ bootH = "signals"
    /\ bootH' = "open"
    /\ UNCHANGED <<signalH, handlerH, stateH, restH, taskH, dwellH, attemptH, statusH,
                   sweepsH, serverH, troublesH>>

\* wait_for_terminate_signal up to its select.
InstallHandlers ==
    /\ bootH \notin {"load", "signals"} \cup Ended
    /\ ~handlerH
    /\ handlerH' = TRUE
    /\ UNCHANGED <<bootH, signalH, stateH, restH, taskH, dwellH, attemptH, statusH,
                   sweepsH, serverH, troublesH>>

\* open_client_state: a failure costs the merges, not the daemon.
OpenState ==
    /\ bootH = "open"
    /\ stateH' \in {"open", "absent"}
    /\ bootH' = "spawn"
    /\ UNCHANGED <<signalH, handlerH, restH, taskH, dwellH, attemptH, statusH, sweepsH,
                   serverH, troublesH>>

\* The LAN tasks, a task per share, the maintenance and the reconcile task.
SpawnTasks ==
    /\ bootH = "spawn"
    /\ bootH' = "bind"
    /\ taskH' = [s \in SharesH |-> "connecting"]
    /\ UNCHANGED <<signalH, handlerH, stateH, restH, dwellH, attemptH, statusH, sweepsH,
                   serverH, troublesH>>

\* serve: without the REST listener the daemon does not stay.
BindRest ==
    /\ bootH = "bind"
    /\ \/ /\ bootH' = "serving"
          /\ restH' = "serving"
          /\ UNCHANGED <<signalH, handlerH, stateH, taskH, dwellH, attemptH, statusH,
                         sweepsH, serverH, troublesH>>
       \/ Leave("failed")

Alive == bootH \notin Ended

\* SIGTERM or SIGINT; without a handler the system ends the process.
SignalArrives ==
    /\ Alive
    /\ signalH = "none"
    /\ IF handlerH
       THEN /\ signalH' = "sent"
            /\ UNCHANGED <<bootH, taskH, restH>>
       ELSE /\ signalH' = "sent"
            /\ bootH' = "killed"
            /\ taskH' = [s \in SharesH |-> "gone"]
            /\ restH' = "closed"
    /\ UNCHANGED <<handlerH, stateH, dwellH, attemptH, statusH, sweepsH, serverH, troublesH>>

\* The select of wait_for_terminate_signal: shutdown_tx is sent and the task ends.
SignalTaken ==
    /\ Alive
    /\ signalH = "sent"
    /\ signalH' = "taken"
    /\ UNCHANGED <<bootH, handlerH, stateH, restH, taskH, dwellH, attemptH, statusH,
                   sweepsH, serverH, troublesH>>

\* abort() does not wait for anything.
TasksReleased == TRUE

\* signal_task.await returns: everything is aborted.
Shutdown ==
    /\ bootH = "serving"
    /\ signalH = "taken"
    /\ TasksReleased
    /\ bootH' = "closing"
    /\ taskH' = [s \in SharesH |-> "gone"]
    /\ restH' = "closed"
    /\ UNCHANGED <<signalH, handlerH, stateH, dwellH, attemptH, statusH, sweepsH,
                   serverH, troublesH>>

\* The runtime is dropped; it waits for sweeps that are on a blocking thread.
RuntimeDropped ==
    /\ bootH = "closing"
    /\ \A s \in SharesH : ~sweepsH[s]
    /\ Leave("stopped")

\* MUTANT: a share task gives up after a number of failed connects.
AfterFailedConnectBounded(s) == IF attemptH[s] + 1 >= MaxConnects THEN "gone" ELSE "connecting"

\* A failed connect is repeated after a delay, for as long as it takes.
AfterFailedConnect(s) == "connecting"

\* build_disk_client and ensure_client_session.
ConnectShare(s) ==
    /\ Alive
    /\ taskH[s] = "connecting"
    /\ IF serverH
       THEN taskH' = [taskH EXCEPT ![s] = "waiting"] /\ UNCHANGED <<attemptH, statusH>>
       ELSE /\ taskH' = [taskH EXCEPT ![s] = AfterFailedConnect(s)]
            /\ attemptH' = [attemptH EXCEPT ![s] = IF @ < MaxConnects THEN @ + 1 ELSE @]
            /\ statusH' = [statusH EXCEPT ![s] = "server_unreachable"]
    /\ UNCHANGED <<bootH, signalH, handlerH, stateH, restH, dwellH, sweepsH, serverH, troublesH>>

\* A tick or a manual request: the session is seen to and "syncing" is shown.
StartCycle(s) ==
    /\ Alive
    /\ taskH[s] = "waiting"
    /\ taskH' = [taskH EXCEPT ![s] = "cycling"]
    /\ statusH' = [statusH EXCEPT ![s] = "syncing"]
    /\ UNCHANGED <<bootH, signalH, handlerH, stateH, restH, dwellH, attemptH, sweepsH,
                   serverH, troublesH>>

EndCycle(s, shown, dwell) ==
    /\ taskH' = [taskH EXCEPT ![s] = "waiting"]
    /\ statusH' = [statusH EXCEPT ![s] = shown]
    /\ dwellH' = [dwellH EXCEPT ![s] = dwell]

\* run_iteration while the loop backs off: nothing is sent and the state stays.
SkippedCycle(s) ==
    /\ Alive
    /\ taskH[s] = "cycling" /\ dwellH[s]
    /\ EndCycle(s, "server_unreachable", TRUE)
    /\ UNCHANGED <<bootH, signalH, handlerH, stateH, restH, attemptH, sweepsH, serverH, troublesH>>

\* run_iteration succeeds; with embeddings on, a sweep of the share is spawned and
\* forgotten.
GoodCycle(s) ==
    /\ Alive
    /\ taskH[s] = "cycling" /\ ~dwellH[s]
    /\ serverH
    /\ EndCycle(s, "idle", FALSE)
    /\ sweepsH' \in {sweepsH, [sweepsH EXCEPT ![s] = TRUE]}
    /\ UNCHANGED <<bootH, signalH, handlerH, stateH, restH, attemptH, serverH, troublesH>>

\* run_iteration fails: the loop backs off.
BadCycle(s) ==
    /\ Alive
    /\ taskH[s] = "cycling" /\ ~dwellH[s]
    /\ IF serverH THEN troublesH < MaxTroubles /\ troublesH' = troublesH + 1
                  ELSE UNCHANGED troublesH
    /\ EndCycle(s, "server_unreachable", TRUE)
    /\ UNCHANGED <<bootH, signalH, handlerH, stateH, restH, attemptH, sweepsH, serverH>>

DwellEnds(s) ==
    /\ Alive
    /\ dwellH[s]
    /\ dwellH' = [dwellH EXCEPT ![s] = FALSE]
    /\ UNCHANGED <<bootH, signalH, handlerH, stateH, restH, taskH, attemptH, statusH,
                   sweepsH, serverH, troublesH>>

\* sweep_share has walked its share and its report is stored.
SweepEnds(s) ==
    /\ Alive
    /\ sweepsH[s]
    /\ sweepsH' = [sweepsH EXCEPT ![s] = FALSE]
    /\ UNCHANGED <<bootH, signalH, handlerH, stateH, restH, taskH, dwellH, attemptH,
                   statusH, serverH, troublesH>>

\* The server stops or is back.
ServerFlips ==
    /\ Alive
    /\ serverH => troublesH < MaxTroubles
    /\ troublesH' = IF serverH THEN troublesH + 1 ELSE troublesH
    /\ serverH' = ~serverH
    /\ UNCHANGED <<bootH, signalH, handlerH, stateH, restH, taskH, dwellH, attemptH,
                   statusH, sweepsH>>

MainStep ==
    \/ LoadConfiguration \/ SpawnSignalTask \/ OpenState \/ SpawnTasks \/ BindRest
    \/ Shutdown \/ RuntimeDropped

ShareStep(s) == ConnectShare(s) \/ StartCycle(s) \/ SkippedCycle(s) \/ GoodCycle(s) \/ BadCycle(s)

RunNext ==
    \/ MainStep \/ InstallHandlers \/ SignalArrives \/ SignalTaken \/ ServerFlips
    \/ \E s \in SharesH : ShareStep(s) \/ DwellEnds(s) \/ SweepEnds(s)

\* Every task of the runtime is run again and again; timers fire; a sweep of a
\* finite tree ends.  Nothing is assumed of the server or of the signal.
DaemonFairness ==
    /\ WF_bootVars(MainStep)
    /\ WF_bootVars(InstallHandlers)
    /\ WF_bootVars(SignalTaken)
    /\ \A s \in SharesH : /\ WF_bootVars(ShareStep(s))
                          /\ WF_bootVars(DwellEnds(s))
                          /\ WF_bootVars(SweepEnds(s))

DaemonBootSpec == RunInit /\ [][RunNext]_bootVars /\ DaemonFairness

(***************************************************************************)
(* Properties                                                              *)
(***************************************************************************)
\* A terminate signal ends the daemon, whichever boot step it met, and while shares
\* are still trying to connect to a server that is away (run_start).
SignalStopsDaemon == (signalH = "sent") ~> (bootH \in Ended)

\* Once the server stays up under a daemon that stays up, every share is shown in
\* step again and again: no number of failed connects ends its task (run_start).
SharesComeBack ==
    <>[](serverH /\ bootH = "serving") => \A s \in SharesH : []<>(statusH[s] = "idle")

\* The daemon ends when it is told to and not before: a signal stops it at any
\* step, and an outage of the server ends no share task (run_start).
DaemonLive == SignalStopsDaemon /\ SharesComeBack
=============================================================================
