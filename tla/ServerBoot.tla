----------------------------- MODULE ServerBoot -----------------------------
(***************************************************************************)
(* The server's main: the environment is read and checked, the parts are   *)
(* built in order, three listeners start (health and HTTP API, mutual TLS, *)
(* public enrollment) and a signal stops them.  The HTTP task waits for    *)
(* the signal and passes it on through a oneshot channel; a forwarder      *)
(* broadcasts it to the two gRPC listeners.                                *)
(***************************************************************************)
EXTENDS Naturals, Sequences

CONSTANTS
    NodesB,       \* nodes with a row in the database
    MaxBusy       \* bound on the requests begun at one listener

VARIABLES
    envB,         \* the environment the process was started with
    stepB,        \* how many steps of main are done
    readyB,       \* the parts that are up
    loadedB,      \* nodes in the authentication store
    signalB,      \* "none", "queued", "seen": SIGTERM or SIGINT
    oneshotB,     \* "open", "sent", "dropped": the channel from the HTTP task
    stopB,        \* the broadcast to the gRPC listeners
    listenB,      \* listener -> "off", "serving", "draining", "ended"
    busyB,        \* listener -> requests being answered
    exitB         \* "running", "ok", "error", "panic", "killed"

bootVars == <<envB, stepB, readyB, loadedB, signalB, oneshotB, stopB, listenB, busyB, exitB>>

Listeners == {"http", "mtls", "public"}
OptionalPart == {"off", "incomplete", "complete"}

\* The variables of ServerConfig::from_env that decide something at boot.
Environments ==
    [ca : {"unset", "stub", "offline", "unknown"}, stubCa : BOOLEAN, signed : BOOLEAN,
     unsignedOk : BOOLEAN, auth : BOOLEAN, key : {"none", "short", "long"},
     oauth : OptionalPart, billing : OptionalPart]

CaMode(e) ==
    IF e.ca \in {"stub", "offline"} THEN e.ca
    ELSE IF e.stubCa THEN "stub" ELSE "http"

\* The key of the tokens must be there, and long enough, when accounts are enforced.
KeyChecked(e) == e.auth => e.key = "long"

\* OAuth and e-mail verification need accounts and all of their variables.
OptionalChecked(e) == e.oauth # "off" => e.auth /\ e.oauth = "complete"

ConfigAccepted(e) == e.ca # "unknown" /\ KeyChecked(e) /\ OptionalChecked(e)

\* build_reload_handle: a signature, or leave to do without.
AclVerifiable(e) == e.signed \/ e.unsignedOk \/ e.stubCa

BootInit ==
    /\ envB \in Environments
    /\ stepB = 0 /\ readyB = {} /\ loadedB = {}
    /\ signalB = "none" /\ oneshotB = "open" /\ stopB = FALSE
    /\ listenB = [l \in Listeners |-> "off"]
    /\ busyB = [l \in Listeners |-> 0]
    /\ exitB = "running"

\* The steps of main that can be told apart from outside, in order.
BootOrder == <<"config", "database", "acl", "ca", "hydrate", "index", "billing", "accounts",
               "tls", "signals", "http", "mtls", "public">>

BootStep(part) ==
    /\ exitB = "running"
    /\ stepB < Len(BootOrder)
    /\ BootOrder[stepB + 1] = part

Done(part) == stepB' = stepB + 1 /\ readyB' = readyB \cup {part}

\* An error of a step ends main through `?`; a task that was spawned ends with it.
Fail(part, how) ==
    /\ BootStep(part)
    /\ exitB' = how
    /\ UNCHANGED <<envB, stepB, readyB, loadedB, signalB, oneshotB, stopB, listenB, busyB>>

Pass(part) ==
    /\ BootStep(part)
    /\ Done(part)
    /\ UNCHANGED <<envB, loadedB, signalB, oneshotB, stopB, listenB, busyB, exitB>>

LoadConfig == IF ConfigAccepted(envB) THEN Pass("config") ELSE Fail("config", "error")

\* sync_root, the pool with write-ahead logging, the migrations.
OpenDatabase == Pass("database") \/ Fail("database", "error")

StartAcl == IF AclVerifiable(envB) THEN Pass("acl") ELSE Fail("acl", "panic")

\* select_ca_client: the HTTP client of the CA needs its own variables.
SelectCa == Pass("ca") \/ (CaMode(envB) = "http" /\ Fail("ca", "error"))

\* hydrate_node for every stored node: they can authenticate again after a restart.
Hydrate ==
    \/ /\ BootStep("hydrate")
       /\ Done("hydrate")
       /\ loadedB' = NodesB
       /\ UNCHANGED <<envB, signalB, oneshotB, stopB, listenB, busyB, exitB>>
    \/ Fail("hydrate", "error")

\* The watchers of the declared share roots, and a full reconcile asked for at once.
SpawnIndex == Pass("index") \/ Fail("index", "error")

\* QuotaEnforcer and the webhook's state; a webhook without a secret is refused.
BuildBilling ==
    IF envB.billing = "incomplete" THEN Fail("billing", "error") ELSE Pass("billing")

\* expect("jwt key checked in ServerConfig::from_env").
BuildAccounts ==
    IF envB.auth /\ envB.key = "none" THEN Fail("accounts", "panic") ELSE Pass("accounts")

BuildTls == Pass("tls") \/ Fail("tls", "error")

\* make_shutdown_futures: from here on a signal is queued and not fatal.
InstallSignals == Pass("signals")

\* The HTTP task runs on its own; main does not wait for its bind.
SpawnHttp == Pass("http")

BindGrpc(l) ==
    \/ /\ BootStep(l)
       /\ Done(l)
       /\ listenB' = [listenB EXCEPT ![l] = "serving"]
       /\ UNCHANGED <<envB, loadedB, signalB, oneshotB, stopB, busyB, exitB>>
    \/ Fail(l, "error")

BindMtls == BindGrpc("mtls")

\* No enrollment listener when certificates are issued off line.
BindPublic == IF CaMode(envB) = "offline" THEN Pass("public") ELSE BindGrpc("public")

HttpTask == "http" \in readyB /\ exitB = "running"

\* health::serve binds, or ends with an error that is logged; the shutdown future it was
\* given, and the sender in it, end with it.
HttpBinds ==
    /\ HttpTask /\ listenB["http"] = "off"
    /\ listenB' = [listenB EXCEPT !["http"] = "serving"]
    /\ UNCHANGED <<envB, stepB, readyB, loadedB, signalB, oneshotB, stopB, busyB, exitB>>

\* Mutant of HttpBindFails: the future, which nobody polls, is kept with its sender.
HttpBindFailsHeld ==
    /\ HttpTask /\ listenB["http"] = "off"
    /\ listenB' = [listenB EXCEPT !["http"] = "ended"]
    /\ UNCHANGED <<envB, stepB, readyB, loadedB, signalB, oneshotB, stopB, busyB, exitB>>

HttpBindFails ==
    /\ HttpTask /\ listenB["http"] = "off"
    /\ listenB' = [listenB EXCEPT !["http"] = "ended"]
    /\ oneshotB' = "dropped"
    /\ UNCHANGED <<envB, stepB, readyB, loadedB, signalB, stopB, busyB, exitB>>

\* SIGTERM or SIGINT: before the handlers are installed the process is killed.
SignalArrives ==
    /\ exitB = "running" /\ signalB = "none"
    /\ IF "signals" \in readyB
       THEN signalB' = "queued" /\ UNCHANGED exitB
       ELSE exitB' = "killed" /\ UNCHANGED signalB
    /\ UNCHANGED <<envB, stepB, readyB, loadedB, oneshotB, stopB, listenB, busyB>>

\* The HTTP task's select!: it stops accepting and tells the gRPC side.
HttpSeesSignal ==
    /\ HttpTask /\ listenB["http"] = "serving" /\ signalB = "queued"
    /\ signalB' = "seen"
    /\ oneshotB' = "sent"
    /\ listenB' = [listenB EXCEPT !["http"] = "draining"]
    /\ UNCHANGED <<envB, stepB, readyB, loadedB, stopB, busyB, exitB>>

\* `let _ = rx.await`: the value and the loss of the sender are taken alike.
BroadcastStop ==
    /\ exitB = "running" /\ stepB >= 11 /\ oneshotB # "open" /\ ~stopB
    /\ stopB' = TRUE
    /\ UNCHANGED <<envB, stepB, readyB, loadedB, signalB, oneshotB, listenB, busyB, exitB>>

\* serve_with_incoming_shutdown: no new connections, the requests under way are finished.
GrpcDrains(l) ==
    /\ exitB = "running" /\ stopB /\ l # "http" /\ listenB[l] = "serving"
    /\ stepB = Len(BootOrder)
    /\ listenB' = [listenB EXCEPT ![l] = "draining"]
    /\ UNCHANGED <<envB, stepB, readyB, loadedB, signalB, oneshotB, stopB, busyB, exitB>>

Drained(l) ==
    /\ exitB = "running" /\ listenB[l] = "draining" /\ busyB[l] = 0
    /\ listenB' = [listenB EXCEPT ![l] = "ended"]
    /\ UNCHANGED <<envB, stepB, readyB, loadedB, signalB, oneshotB, stopB, busyB, exitB>>

RequestBegins(l) ==
    /\ exitB = "running" /\ listenB[l] = "serving" /\ busyB[l] < MaxBusy
    /\ l # "http" => stepB = Len(BootOrder)
    /\ busyB' = [busyB EXCEPT ![l] = @ + 1]
    /\ UNCHANGED <<envB, stepB, readyB, loadedB, signalB, oneshotB, stopB, listenB, exitB>>

RequestEnds(l) ==
    /\ exitB = "running" /\ busyB[l] > 0
    /\ busyB' = [busyB EXCEPT ![l] = @ - 1]
    /\ UNCHANGED <<envB, stepB, readyB, loadedB, signalB, oneshotB, stopB, listenB, exitB>>

\* try_join!: an error of one listener ends both.
ListenerFails ==
    /\ exitB = "running" /\ stepB = Len(BootOrder)
    /\ \E l \in {"mtls", "public"} : listenB[l] \in {"serving", "draining"}
    /\ exitB' = "error"
    /\ UNCHANGED <<envB, stepB, readyB, loadedB, signalB, oneshotB, stopB, listenB, busyB>>

\* Both listeners ended: main returns, whatever the HTTP task is still answering.
MainReturns ==
    /\ exitB = "running" /\ stepB = Len(BootOrder)
    /\ listenB["mtls"] = "ended" /\ listenB["public"] \in {"off", "ended"}
    /\ exitB' = "ok"
    /\ UNCHANGED <<envB, stepB, readyB, loadedB, signalB, oneshotB, stopB, listenB, busyB>>

BootProceeds ==
    \/ LoadConfig \/ OpenDatabase \/ StartAcl \/ SelectCa \/ Hydrate \/ SpawnIndex
    \/ BuildBilling \/ BuildAccounts \/ BuildTls \/ InstallSignals \/ SpawnHttp
    \/ BindMtls \/ BindPublic

HttpStarts == HttpBinds \/ HttpBindFails

Stopping ==
    \/ HttpSeesSignal \/ BroadcastStop \/ MainReturns
    \/ \E l \in Listeners : GrpcDrains(l) \/ Drained(l)

BootNext ==
    \/ BootProceeds \/ HttpStarts \/ Stopping
    \/ SignalArrives \/ ListenerFails
    \/ \E l \in Listeners : RequestBegins(l) \/ RequestEnds(l)

BootSpec == BootInit /\ [][BootNext]_bootVars

\* main and the tasks are run, and a handler comes to its end.
BootFairness ==
    /\ WF_bootVars(BootProceeds) /\ WF_bootVars(HttpStarts) /\ WF_bootVars(Stopping)
    /\ \A l \in Listeners : WF_bootVars(RequestEnds(l))

BootFairSpec == BootSpec /\ BootFairness

\* A node is not turned away because it came early: the listener that authenticates is
\* bound only when every stored node is known, the ACL loop runs and the tables are there.
ServesWhenReady ==
    listenB["mtls"] = "serving" => loadedB = NodesB /\ {"database", "acl"} \subseteq readyB

\* A signal that is caught ends the process, wherever it falls: while the boot goes on,
\* while the HTTP task has not bound, after its bind failed, or during requests.
SignalStopsServer == (signalB # "none") ~> (exitB # "running")

\* The server takes nodes only when it is ready for them and ends when it is told
\* to, whatever step of the start the one or the other falls into (main).
ServerBootSound == []ServesWhenReady /\ SignalStopsServer
=============================================================================
