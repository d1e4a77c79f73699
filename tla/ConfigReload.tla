----------------------------- MODULE ConfigReload -----------------------------
(***************************************************************************)
(* Hot reload of disk.toml in the client daemon: the file watcher and its  *)
(* debounce, POST /config/reload, validation, the swap of ConfigSnapshot,  *)
(* the task that brings the share list of GET /status up to date, and the  *)
(* per-share sync tasks that report into it (disk-client/src/config,       *)
(* disk-client/src/watcher, disk-client/src/rest_api/mod.rs,               *)
(* disk-cli/src/daemon.rs).                                                *)
(***************************************************************************)
EXTENDS Naturals, Sequences, FiniteSets

CONSTANTS
  ShareNames,
  Tomls,        \* the texts an operator writes: [parses, shares, default]
  FirstToml,    \* the one the daemon is started with
  ReloadCap,    \* capacity of the reload channel (8)
  MaxEdits,     \* bound on edits
  MaxCycles,    \* bound on successful sync cycles of a share
  NoToml, NoDirection

VARIABLES
  toml,        \* what disk.toml holds
  watching,    \* the notify watch is in place
  fsEvents,    \* events of disk.toml in the watcher's channel
  debouncing,  \* pending_until is set
  reloadQueue, \* signals in the reload channel
  reading,     \* text apply_reload has read, not yet applied
  active,      \* the config of ConfigSnapshot
  swaps,       \* value of the watch channel
  reloadError, \* ReloadStatus
  reconciler,  \* the reconcile task: "down", "waiting", "applying"
  picked,      \* the config it is applying
  seenSwap,    \* the watch value it has seen
  listed,      \* shares of GET /status, with their live fields
  loop,        \* the per-share sync task: "none", "idle", "syncing"
  successes,   \* last_success_at of the task
  noticed,     \* history: the last edit of disk.toml raised an event
  reseeded,    \* history: shares listed afresh since their task last reported
  edits

cfgVars == <<toml, watching, fsEvents, debouncing, reloadQueue, reading, active, swaps, reloadError,
             reconciler, picked, seenSwap, listed, loop, successes, noticed, reseeded, edits>>
watchVars == <<fsEvents, debouncing, reloadQueue>>
statusVars == <<listed, loop, successes, reseeded>>

(***************************************************************************)
(* Validation                                                              *)
(***************************************************************************)
\* ShareSection::effective_direction
EffectiveDirection(t, share) == IF share.direction # NoDirection THEN share.direction ELSE t.default

ValidateShareNamesUnique(t) ==
  \A i, j \in DOMAIN t.shares : t.shares[i].name = t.shares[j].name => i = j

ValidateShare(t, share) ==
  /\ EffectiveDirection(t, share) # NoDirection
  /\ (EffectiveDirection(t, share) = "publisher") = share.publisher

Validate(t) ==
  /\ ValidateShareNamesUnique(t)
  /\ \A i \in DOMAIN t.shares : ValidateShare(t, t.shares[i])

\* DiskConfig::load and the same three steps of apply_reload
Loadable(t) == t # NoToml /\ t.parses /\ Validate(t)
NamesOf(t) == {t.shares[i].name : i \in DOMAIN t.shares}

\* build_share_snapshots: idle, without a success
FreshSnapshot == [state |-> "idle", success |-> 0]
Unlisted == [state |-> "absent", success |-> 0]

\* run_start: load, list the shares.  The watcher, the sync tasks (one per share
\* of the config loaded here) and the reconcile task come up one after another.
DaemonInit ==
  /\ toml = FirstToml /\ active = FirstToml
  /\ watching = FALSE /\ fsEvents = 0 /\ debouncing = FALSE /\ reloadQueue = 0
  /\ reading = NoToml /\ swaps = 0 /\ reloadError = FALSE
  /\ reconciler = "down" /\ picked = FirstToml /\ seenSwap = 0
  /\ listed = [s \in ShareNames |-> IF s \in NamesOf(FirstToml) THEN FreshSnapshot ELSE Unlisted]
  /\ loop = [s \in ShareNames |-> "none"] /\ successes = [s \in ShareNames |-> 0]
  /\ noticed = TRUE /\ reseeded = {} /\ edits = 0

\* spawn_config_watcher, FsWatcher::watch
WatcherArmed ==
  /\ ~watching
  /\ watching' = TRUE
  /\ UNCHANGED <<toml, watchVars, reading, active, swaps, reloadError, reconciler, picked, seenSwap,
                 statusVars, noticed, edits>>

SyncTasksSpawned ==
  /\ watching
  /\ loop = [s \in ShareNames |-> "none"]
  /\ loop' = [s \in ShareNames |-> IF s \in NamesOf(FirstToml) THEN "idle" ELSE "none"]
  /\ UNCHANGED <<toml, watching, watchVars, reading, active, swaps, reloadError, reconciler, picked,
                 seenSwap, listed, successes, noticed, reseeded, edits>>

\* the reconcile task marks whatever is there when it starts as seen
ReconcilerStarts ==
  /\ loop # [s \in ShareNames |-> "none"]
  /\ reconciler = "down"
  /\ reconciler' = "waiting" /\ seenSwap' = swaps
  /\ UNCHANGED <<picked, toml, watching, watchVars, reading, active, swaps, reloadError,
                 statusVars, noticed, edits>>

(***************************************************************************)
(* The operator                                                            *)
(***************************************************************************)
\* translate_notify_event and event_handler: every change is an event on an
\* unbounded channel; a writer that truncates first raises two
Edit(t) ==
  /\ edits < MaxEdits /\ edits' = edits + 1
  /\ t # toml /\ toml' = t
  /\ fsEvents' = IF watching THEN fsEvents + 1 ELSE fsEvents
  /\ noticed' = watching
  /\ UNCHANGED <<watching, debouncing, reloadQueue, reading, active, swaps, reloadError,
                 reconciler, picked, seenSwap, statusVars>>

\* post_config_reload, enqueue_signal: 503 when the channel is full
PostConfigReload ==
  /\ edits < MaxEdits /\ edits' = edits + 1
  /\ reloadQueue < ReloadCap
  /\ reloadQueue' = reloadQueue + 1
  /\ UNCHANGED <<toml, watching, fsEvents, debouncing, reading, active, swaps, reloadError,
                 reconciler, picked, seenSwap, statusVars, noticed>>

(***************************************************************************)
(* run_watcher_loop                                                        *)
(***************************************************************************)
LoopFree == watching /\ reading = NoToml

\* an event of disk.toml (re)starts the debounce window
TakeEvent ==
  /\ LoopFree /\ fsEvents > 0
  /\ fsEvents' = fsEvents - 1
  /\ debouncing' = TRUE
  /\ UNCHANGED <<toml, watching, reloadQueue, reading, active, swaps, reloadError,
                 reconciler, picked, seenSwap, statusVars, noticed, edits>>

\* the window ends (events come first: the select is biased), or a signal is
\* received; apply_reload reads the file
ReadToml ==
  /\ LoopFree /\ fsEvents = 0
  /\ \/ debouncing /\ debouncing' = FALSE /\ UNCHANGED reloadQueue
     \/ reloadQueue > 0 /\ reloadQueue' = reloadQueue - 1 /\ UNCHANGED debouncing
  /\ reading' = [text |-> toml]
  /\ UNCHANGED <<toml, watching, fsEvents, active, swaps, reloadError,
                 reconciler, picked, seenSwap, statusVars, noticed, edits>>

\* Mutant of KeptEvents: a reload takes the events that came in while it ran.
KeptEventsNone == 0
\* what came in while the loop was busy stays in the channel
KeptEvents == fsEvents

\* apply_reload: parse, validate, swap and clear the error; or set the error
ApplyReload ==
  /\ reading # NoToml
  /\ reading' = NoToml
  /\ fsEvents' = KeptEvents
  /\ IF Loadable(reading.text)
     THEN active' = reading.text /\ swaps' = swaps + 1 /\ reloadError' = FALSE
     ELSE reloadError' = TRUE /\ UNCHANGED <<active, swaps>>
  /\ UNCHANGED <<toml, watching, debouncing, reloadQueue, reconciler, picked, seenSwap,
                 statusVars, noticed, edits>>

(***************************************************************************)
(* The reconcile task and the sync tasks                                   *)
(***************************************************************************)
\* changed() returns and marks the value as seen, then current() is read
ReconcileWakes ==
  /\ reconciler = "waiting" /\ seenSwap # swaps
  /\ seenSwap' = swaps
  /\ reconciler' = "applying" /\ picked' = active
  /\ UNCHANGED <<toml, watching, watchVars, reading, active, swaps, reloadError,
                 statusVars, noticed, edits>>

\* DaemonState::reconcile_shares: live fields of a surviving share are kept
Reconciled(s) == IF listed[s] = Unlisted THEN FreshSnapshot ELSE listed[s]

SeenAfter == seenSwap

ReconcileShares ==
  /\ reconciler = "applying"
  /\ LET names == NamesOf(picked)
     IN /\ listed' = [s \in ShareNames |-> IF s \in names THEN Reconciled(s) ELSE Unlisted]
        /\ reseeded' = reseeded \cup {s \in names : listed[s] = Unlisted}
  /\ reconciler' = "waiting"
  /\ seenSwap' = SeenAfter
  /\ UNCHANGED <<picked, toml, watching, watchVars, reading, active, swaps, reloadError,
                 loop, successes, noticed, edits>>

\* DaemonState::update_share: nothing happens if the share is no longer listed
UpdateShare(s, state, success) ==
  /\ listed' = IF listed[s] = Unlisted THEN listed
               ELSE [listed EXCEPT ![s] = [state |-> state, success |-> success]]
  /\ reseeded' = reseeded \ {s}
  /\ UNCHANGED <<toml, watching, watchVars, reading, active, swaps, reloadError,
                 reconciler, picked, seenSwap, noticed, edits>>

\* the loop of a share task: syncing is reported before run_iteration,
\* last_success_at moves only on success
CycleBegins(s) ==
  /\ loop[s] = "idle"
  /\ loop' = [loop EXCEPT ![s] = "syncing"]
  /\ UpdateShare(s, "syncing", successes[s])
  /\ UNCHANGED successes

CycleEnds(s) ==
  /\ loop[s] = "syncing"
  /\ loop' = [loop EXCEPT ![s] = "idle"]
  /\ \E ok \in BOOLEAN :
       /\ ok => successes[s] < MaxCycles
       /\ successes' = [successes EXCEPT ![s] = IF ok THEN @ + 1 ELSE @]
       /\ UpdateShare(s, IF ok THEN "idle" ELSE "error", successes'[s])

WatcherStep == TakeEvent \/ ReadToml \/ ApplyReload
ReconcilerStep == ReconcileWakes \/ ReconcileShares

DaemonNext ==
  \/ WatcherArmed \/ SyncTasksSpawned \/ ReconcilerStarts
  \/ \E t \in Tomls : Edit(t)
  \/ PostConfigReload
  \/ TakeEvent \/ ReadToml \/ ApplyReload
  \/ ReconcileWakes \/ ReconcileShares
  \/ \E s \in ShareNames : CycleBegins(s) \/ CycleEnds(s)

DaemonSpec == DaemonInit /\ [][DaemonNext]_cfgVars

\* tokio polls every task that can go on: the watcher loop and the reconcile task
DaemonFairSpec ==
  DaemonSpec /\ WF_cfgVars(WatcherStep) /\ WF_cfgVars(ReconcilerStep)

(***************************************************************************)
(* Properties                                                              *)
(***************************************************************************)
\* What GET /status says of a share with a sync task is what that task last
\* reported, whatever reloads came in between; only a share that was taken out
\* and put back reads as never synced until its next cycle
\* (rest_api/mod.rs:196, "MUST NOT re-seed surviving shares").
LiveFieldsSurvive ==
  \A s \in ShareNames : loop[s] # "none" /\ listed[s] # Unlisted =>
    \/ s \in reseeded /\ listed[s].success = 0
    \/ listed[s].success = successes[s]

\* An edit the watcher saw is applied in the end, however it interleaves with
\* the debounce window and with a reload under way: the active config is the
\* file, or the file is not a valid config (config/reload.rs run_watcher_loop).
ConfigCatchesUp == (noticed /\ Loadable(toml)) ~> (active = toml \/ ~noticed \/ ~Loadable(toml))

\* A swap the reconcile task has not seen reaches GET /status: the shares listed
\* become those of the active config (daemon.rs:596-620).
StatusCatchesUp ==
  (reconciler # "down" /\ seenSwap # swaps)
    ~> ({s \in ShareNames : listed[s] # Unlisted} = NamesOf(active))

\* A reload reaches the configuration and the status and leaves alone what the
\* running tasks report (run_watcher_loop, daemon.rs:596-620).
ReloadSound == []LiveFieldsSurvive /\ ConfigCatchesUp /\ StatusCatchesUp
==============================================================================
