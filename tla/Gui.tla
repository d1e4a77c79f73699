-------------------------------- MODULE Gui --------------------------------
(***************************************************************************)
(* The desktop window (crate disk-gui).  A frame first takes in what the   *)
(* three background requests have brought (GET /status, GET /conflicts,    *)
(* POST /conflicts/{share}/{path}), then polls, then draws and handles at  *)
(* most one click.  The requests run in a tokio runtime: each is answered  *)
(* when the daemon pleases, by the daemon the settings named when it was   *)
(* sent, and the window keeps at most one of each kind.                    *)
(***************************************************************************)
EXTENDS Naturals, FiniteSets

CONSTANTS
    HostsG,       \* daemons the settings may name
    SharesG,      \* shares (vault ids)
    PathsG,       \* paths of conflicts
    MaxClicks,    \* bound on the clicks of the user
    NoneG         \* no daemon

ASSUME GuiAssumption == HostsG # {}

VARIABLES
    gui,          \* the fields of DiskGuiApp
    daemonsG,     \* per daemon, the conflicts it holds unresolved
    clicksG,      \* clicks made
    goneG         \* history: resolved to the window's knowledge, list not refetched

guiVars == <<gui, daemonsG, clicksG, goneG>>

ConflictsG == SharesG \X PathsG

\* A oneshot channel nobody sent on; rx is None when at = "none".
NoRequest == [at |-> "none", host |-> NoneG, ok |-> FALSE, items |-> {}]

\* fetch_status, fetch_conflicts, resolve_conflict: the host is copied at the click.
Sent(h, items) == [at |-> "sent", host |-> h, ok |-> FALSE, items |-> items]

\* DiskGuiApp::new, on the saved settings or the defaults.
GuiInit ==
    /\ gui = [host |-> CHOOSE h \in HostsG : TRUE, status |-> NoneG, failed |-> FALSE,
              due |-> TRUE, poll |-> NoRequest, settings |-> FALSE, panel |-> FALSE,
              list |-> {}, listFailed |-> FALSE, fetch |-> NoRequest, resolve |-> NoRequest]
    /\ daemonsG \in [HostsG -> SUBSET ConflictsG]
    /\ clicksG = 0
    /\ goneG = {}

\* drain_pending: a result ends the request, an error takes the status away; a
\* request whose task was dropped leaves the status as it was.
DrainPending(g) ==
    CASE g.poll.at = "answered" /\ g.poll.ok ->
            [g EXCEPT !.status = g.poll.host, !.failed = FALSE, !.poll = NoRequest]
      [] g.poll.at = "answered" /\ ~g.poll.ok ->
            [g EXCEPT !.status = NoneG, !.failed = TRUE, !.poll = NoRequest]
      [] g.poll.at = "dropped" -> [g EXCEPT !.failed = TRUE, !.poll = NoRequest]
      [] OTHER -> g

\* maybe_poll: one request at a time, at most every POLL_INTERVAL.
MaybePoll(g) ==
    IF g.poll = NoRequest /\ g.due
    THEN [g EXCEPT !.poll = Sent(g.host, {}), !.due = FALSE]
    ELSE g

\* drain_conflicts.
DrainConflicts(g) ==
    CASE g.fetch.at = "answered" /\ g.fetch.ok ->
            [g EXCEPT !.list = g.fetch.items, !.listFailed = FALSE, !.fetch = NoRequest]
      [] g.fetch.at \in {"answered", "dropped"} /\ ~g.fetch.ok ->
            [g EXCEPT !.listFailed = TRUE, !.fetch = NoRequest]
      [] OTHER -> g

\* refresh_conflicts: nothing is sent while a fetch is on its way.
RefreshConflicts(g) ==
    IF g.fetch = NoRequest THEN [g EXCEPT !.fetch = Sent(g.host, {})] ELSE g

\* The retain of drain_resolve.
Retain(list, done) == {c \in list : \A d \in done : c[1] # d[1] \/ c[2] # d[2]}

Resolved(g) == g.resolve.at = "answered" /\ g.resolve.ok

\* drain_resolve: a resolved entry leaves the list at once, and a refresh follows.
DrainResolve(g) ==
    CASE Resolved(g) ->
            RefreshConflicts([g EXCEPT !.list = Retain(@, g.resolve.items),
                                       !.listFailed = FALSE, !.resolve = NoRequest])
      [] g.resolve.at \in {"answered", "dropped"} /\ ~g.resolve.ok ->
            [g EXCEPT !.listFailed = TRUE, !.resolve = NoRequest]
      [] OTHER -> g

\* The part of a frame that comes before the panels are drawn.
Drained == DrainResolve(DrainConflicts(MaybePoll(DrainPending(gui))))

Fetched == gui.fetch.at = "answered" /\ gui.fetch.ok

\* Entries the window knows to be resolved, until a list is taken in.
GoneNow ==
    (IF Fetched THEN {} ELSE goneG) \cup (IF Resolved(gui) THEN gui.resolve.items ELSE {})

Frame(g) == gui' = g /\ goneG' = GoneNow /\ UNCHANGED daemonsG

\* A repaint without a click.
Repaint == Drained # gui /\ Frame(Drained) /\ UNCHANGED clicksG

Clicked == clicksG < MaxClicks /\ clicksG' = clicksG + 1

\* The Settings button opens and shuts the window on a fresh copy of the settings;
\* Cancel and a port that does not parse leave the settings alone.
ToggleSettings ==
    Clicked /\ Frame([Drained EXCEPT !.settings = ~@])

\* apply_settings_save: the next frame polls; requests on their way are left alone,
\* and so is the list of conflicts.
SaveSettings ==
    /\ Drained.settings
    /\ \E h \in HostsG : Frame([Drained EXCEPT !.host = h, !.settings = FALSE, !.due = TRUE])
    /\ Clicked

\* The Conflicts button.
ToggleConflicts ==
    /\ Clicked
    /\ Frame(IF Drained.panel THEN [Drained EXCEPT !.panel = FALSE]
             ELSE RefreshConflicts([Drained EXCEPT !.panel = TRUE]))

\* start_resolve_conflict: a click while a resolve is on its way does nothing.
StartResolve ==
    /\ Drained.panel
    /\ Drained.resolve = NoRequest
    /\ \E c \in Drained.list :
           Frame([Drained EXCEPT !.resolve = Sent(Drained.host, {c})])
    /\ Clicked

\* POLL_INTERVAL is over.
PollDue ==
    /\ ~gui.due
    /\ gui' = [gui EXCEPT !.due = TRUE]
    /\ UNCHANGED <<daemonsG, clicksG, goneG>>

\* A request ends: the daemon's answer, a transport or parse error, or a task that
\* ended without sending.
EndRequest(field, ok, items) ==
    /\ gui[field].at = "sent"
    /\ \/ gui' = [gui EXCEPT ![field].at = "answered", ![field].ok = ok, ![field].items = items]
       \/ gui' = [gui EXCEPT ![field].at = "dropped"]
    /\ UNCHANGED <<clicksG, goneG>>

StatusAnswered == (\E ok \in BOOLEAN : EndRequest("poll", ok, {})) /\ UNCHANGED daemonsG

\* The daemon reads its rows some time before the answer arrives.
FetchServed ==
    /\ gui.fetch.at = "sent"
    /\ gui' = [gui EXCEPT !.fetch.at = "served", !.fetch.items = daemonsG[gui.fetch.host]]
    /\ UNCHANGED <<daemonsG, clicksG, goneG>>

FetchAnswered ==
    \/ /\ gui.fetch.at = "served"
       /\ gui' = [gui EXCEPT !.fetch.at = "answered", !.fetch.ok = TRUE]
       /\ UNCHANGED <<daemonsG, clicksG, goneG>>
    \/ EndRequest("fetch", FALSE, {}) /\ UNCHANGED daemonsG

\* post_resolve_conflict of the daemon: applied and answered, refused (no such
\* unresolved conflict), or applied with the answer lost.
ResolveAnswered ==
    LET h == gui.resolve.host
        without == [daemonsG EXCEPT ![h] = @ \ gui.resolve.items]
    IN /\ gui.resolve.at = "sent"
       /\ \/ /\ gui.resolve.items \subseteq daemonsG[h]
             /\ EndRequest("resolve", TRUE, gui.resolve.items)
             /\ daemonsG' = without
          \/ /\ EndRequest("resolve", FALSE, gui.resolve.items)
             /\ daemonsG' \in {daemonsG, without}

GuiNext ==
    \/ Repaint \/ ToggleSettings \/ SaveSettings \/ ToggleConflicts \/ StartResolve
    \/ PollDue \/ StatusAnswered \/ FetchServed \/ FetchAnswered \/ ResolveAnswered

GuiSpec == GuiInit /\ [][GuiNext]_guiVars

(***************************************************************************)
(* Properties                                                              *)
(***************************************************************************)
\* A conflict whose resolution the window has been told of is not offered again
\* before a new list is taken in, however the three requests overlap (drain_resolve).
ResolvedNotOffered == goneG \cap gui.list = {}

\* An entry leaves the list only when its own resolution has succeeded or when a
\* fetched list replaces it: the same path in another share stays (drain_resolve).
OthersStayListed ==
    Fetched \/ (gui.list \ gui'.list \subseteq IF Resolved(gui) THEN gui.resolve.items ELSE {})
=============================================================================
