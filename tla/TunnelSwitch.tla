----------------------------- MODULE TunnelSwitch -----------------------------
(***************************************************************************)
(* The choice between the two tunnels: tunnel.Mux, main's switchBackend    *)
(* and RestartServices, and the AmneziaWG client (internal/amnezia) that   *)
(* starts and stops a userspace daemon with an interface, policy routing   *)
(* and a pinned route to its endpoint.                                     *)
(*                                                                         *)
(* Client.mu is held for the whole of Up (up to 45 seconds) and of Down;   *)
(* Client.ready and Mux.backend are atomics that anyone may read in        *)
(* between.  Nothing serialises two requests of the web UI.                *)
(***************************************************************************)
EXTENDS Integers, FiniteSets

CONSTANTS
    Switchers,      \* POST /api/v1/tunnel requests
    Restarters,     \* "restart services" requests
    Dialers,        \* proxy connections that dial through the mux
    Main,           \* run(): the switch at startup, the Down at shutdown
    None,           \* nobody: a free mutex
    Faults,         \* what may fail: "start", "configure", "handshake", "probe",
                    \* "disk"
    DaemonDies,     \* whether amneziawg-go may exit by itself
    MaxRequests,    \* bound: web UI requests in a behaviour
    MaxCrashes      \* bound: processes that are killed and started again

Requests == Switchers \cup Restarters
Procs == Requests \cup Dialers \cup {Main}

ASSUME SwitchAssumption ==
    /\ Switchers \cap Restarters = {} /\ Requests \cap Dialers = {}
    /\ Main \notin Requests \cup Dialers /\ None \notin Procs
    /\ Faults \subseteq {"start", "configure", "handshake", "probe", "disk"}
    /\ DaemonDies \in BOOLEAN /\ MaxRequests \in Nat /\ MaxCrashes \in Nat

Backends == {"outline", "amnezia"}

\* What Up leaves in the host: the daemon with its interface, the default route
\* of the policy table, the rule that selects it, the pinned endpoint route.
Parts == {"daemon", "route", "rule", "pin"}
Essential == Parts \ {"pin"}

VARIABLES
    backend,        \* Mux.backend
    file,           \* the persisted backend
    lock,           \* holder of the AmneziaWG client's mu
    ready, dialer,  \* Client.ready; Client.dialer is set
    host,           \* which Parts are in place
    pinned,         \* Client.pinnedEP is set
    swept,          \* this process has run downLocked to its end
    pc,
    task,           \* "switch", "restart" or "stop"
    name,           \* the backend a request is about to write to the file
    held,           \* whether a dial holds a dialer
    stopped,        \* no new request is accepted
    requests, crashes

tunnel == <<lock, ready, dialer, host, pinned, swept>>
local == <<pc, task, name, held>>
bounds == <<stopped, requests, crashes>>
vars == <<backend, file, tunnel, local, bounds>>

Labels == {"off", "up", "clean", "start", "configure", "handshake", "probe", "announce",
           "undo", "failed", "select", "deselect", "down", "teardown", "persist", "write",
           "check", "load", "recheck", "dial", "run", "exited"}

\* Labels at which the client's mutex is held.
Locked == {"clean", "start", "configure", "handshake", "probe", "announce", "undo", "teardown"}

\* Types.
TypeOK ==
    /\ backend \in Backends /\ file \in Backends
    /\ lock \in Procs \cup {None}
    /\ ready \in BOOLEAN /\ dialer \in BOOLEAN
    /\ host \in SUBSET Parts
    /\ pc \in [Procs -> Labels]
    /\ task \in [Procs -> {"none", "switch", "restart", "stop"}]
    /\ name \in [Procs -> Backends]
    /\ held \in [Procs -> BOOLEAN]
    /\ stopped \in BOOLEAN
    /\ pinned \in BOOLEAN /\ swept \in BOOLEAN
    /\ requests \in 0..MaxRequests /\ crashes \in 0..MaxCrashes

\* run() starts on Outline and switches first if the persisted choice is AmneziaWG.
Init ==
    /\ backend = "outline" /\ file \in Backends
    /\ lock = None /\ ready = FALSE /\ dialer = FALSE /\ host = {}
    /\ pinned = FALSE /\ swept = FALSE
    /\ pc = [p \in Procs |-> IF p # Main THEN "off"
                             ELSE IF file = "amnezia" THEN "up" ELSE "run"]
    /\ task = [p \in Procs |-> IF p = Main /\ file = "amnezia" THEN "switch" ELSE "none"]
    /\ name = [p \in Procs |-> "outline"]
    /\ held = [p \in Procs |-> FALSE]
    /\ stopped = FALSE /\ requests = 0 /\ crashes = 0

-----------------------------------------------------------------------------
Goto(p, l) == pc' = [pc EXCEPT ![p] = l]

\* Where p continues once its operation is over.
Idle(p) == IF p = Main THEN "run" ELSE "off"
Finish(p) == Goto(p, Idle(p)) /\ task' = [task EXCEPT ![p] = "none"]

\* Main's own switch is over before the web UI accepts a request.
Serving == pc[Main] = "run" /\ ~stopped

Accept(p, t, l) ==
    /\ pc[p] = "off" /\ Serving /\ requests < MaxRequests
    /\ requests' = requests + 1
    /\ task' = [task EXCEPT ![p] = t]
    /\ Goto(p, l)
    /\ UNCHANGED <<backend, file, tunnel, name, held, stopped, crashes>>

\* switchBackend: Up first and then the mux, or the mux first and then Down.
SwitchBackend(p, b) == Accept(p, "switch", IF b = "amnezia" THEN "up" ELSE "deselect")

\* RestartServices with AmneziaWG selected; with Outline it is Reconnect.
RestartServices(p) == backend = "amnezia" /\ Accept(p, "restart", "up")

-----------------------------------------------------------------------------
(***************************************************************************)
(* Up and Down of the AmneziaWG client.                                    *)
(***************************************************************************)

\* Mutation of Sweep: nothing is deleted unless this client has started a daemon.
SweepOwn ==
    /\ host' = IF dialer \/ pinned THEN {} ELSE host
    /\ pinned' = FALSE /\ swept' = TRUE

\* downLocked deletes the policy rule, the routes of its table and the interface
\* whoever made them, but the pinned route only if this client knows of it.
Sweep ==
    /\ host' = host \ (Essential \cup IF pinned THEN {"pin"} ELSE {})
    /\ pinned' = FALSE /\ swept' = TRUE

\* Up takes the mutex; downLocked begins by clearing ready ...
UpLock(p) ==
    /\ pc[p] = "up" /\ lock = None
    /\ lock' = p
    /\ ready' = FALSE
    /\ Goto(p, "clean")
    /\ UNCHANGED <<backend, file, pinned, swept, dialer, host, task, name, held, bounds>>

\* ... and removes the dialer and everything in the host.
Clean(p) ==
    /\ pc[p] = "clean"
    /\ dialer' = FALSE /\ Sweep
    /\ Goto(p, "start")
    /\ UNCHANGED <<backend, file, lock, ready, task, name, held, bounds>>

\* Mutation of Start: an early return forgets the mutex.
StartKeepsLock(p) ==
    /\ pc[p] = "start"
    /\ \/ host' = host \cup {"daemon"} /\ Goto(p, "configure")
       \/ "start" \in Faults /\ Goto(p, "failed") /\ UNCHANGED host
    /\ UNCHANGED <<backend, file, pinned, swept, lock, ready, dialer, task, name, held, bounds>>

\* The daemon is started; a missing binary or a bad configuration starts nothing.
Start(p) ==
    /\ pc[p] = "start"
    /\ \/ /\ host' = host \cup {"daemon"}
          /\ Goto(p, "configure")
          /\ UNCHANGED lock
       \/ /\ "start" \in Faults
          /\ lock' = None
          /\ Goto(p, "failed")
          /\ UNCHANGED host
    /\ UNCHANGED <<backend, file, pinned, swept, ready, dialer, task, name, held, bounds>>

\* UAPI, address, link, pin (an error is logged), route and rule, in this order;
\* any other error, or a dead daemon, is undone.
Configure(p) ==
    /\ pc[p] = "configure"
    /\ \/ /\ "daemon" \in host
          /\ \E some \in SUBSET {"pin"} :
               /\ host' = host \cup {"route", "rule"} \cup some
               /\ pinned' = (pinned \/ "pin" \in some)
          /\ dialer' = TRUE
          /\ Goto(p, "handshake")
       \/ /\ "configure" \in Faults \/ "daemon" \notin host
          /\ \E some \in SUBSET {"pin", "route"} :
               /\ host' = host \cup (IF "daemon" \in host THEN some ELSE some \ {"route"})
               /\ pinned' = (pinned \/ "pin" \in some)
          /\ Goto(p, "undo")
          /\ UNCHANGED dialer
    /\ UNCHANGED <<backend, file, lock, ready, swept, task, name, held, bounds>>

\* The wait for a handshake: up to 20 seconds of asking the daemon for it.
Handshake(p) ==
    /\ pc[p] = "handshake"
    /\ \/ "daemon" \in host /\ Goto(p, "probe")
       \/ ("handshake" \in Faults \/ "daemon" \notin host) /\ Goto(p, "undo")
    /\ UNCHANGED <<backend, file, tunnel, task, name, held, bounds>>

\* probeThrough: one of the targets is reached with the new dialer, or none is.
Probe(p) ==
    /\ pc[p] = "probe"
    /\ \/ "daemon" \in host /\ Goto(p, "announce")
       \/ ("probe" \in Faults \/ "daemon" \notin host) /\ Goto(p, "undo")
    /\ UNCHANGED <<backend, file, tunnel, task, name, held, bounds>>

\* ready.Store(true), and the mutex is released.
Announce(p) ==
    /\ pc[p] = "announce"
    /\ ready' = TRUE
    /\ lock' = None
    /\ IF task[p] = "restart" THEN Finish(p) ELSE Goto(p, "select") /\ UNCHANGED task
    /\ UNCHANGED <<backend, file, pinned, swept, dialer, host, name, held, bounds>>

\* downLocked on an error path of Up.
Undo(p) ==
    /\ pc[p] = "undo"
    /\ ready' = FALSE /\ dialer' = FALSE /\ Sweep
    /\ lock' = None
    /\ Goto(p, "failed")
    /\ UNCHANGED <<backend, file, task, name, held, bounds>>

\* Mutation of DownLock: ready is cleared after everything else.
DownKeepsReady(p) ==
    /\ pc[p] = "down" /\ lock = None
    /\ lock' = p
    /\ Goto(p, "teardown")
    /\ UNCHANGED <<backend, file, pinned, swept, ready, dialer, host, task, name, held, bounds>>

\* Down: ready first ...
DownLock(p) ==
    /\ pc[p] = "down" /\ lock = None
    /\ lock' = p
    /\ ready' = FALSE
    /\ Goto(p, "teardown")
    /\ UNCHANGED <<backend, file, pinned, swept, dialer, host, task, name, held, bounds>>

\* ... then the dialer and the host; the mutex is released.
Teardown(p) ==
    /\ pc[p] = "teardown"
    /\ dialer' = FALSE /\ Sweep
    /\ lock' = None
    /\ Goto(p, IF task[p] = "stop" THEN "exited" ELSE "persist")
    /\ UNCHANGED <<backend, file, ready, task, name, held, bounds>>

-----------------------------------------------------------------------------
(***************************************************************************)
(* The rest of switchBackend.                                              *)
(***************************************************************************)

\* Up failed: a switch falls back on Outline and returns; a restart returns.
Failed(p) ==
    /\ pc[p] = "failed"
    /\ backend' = IF task[p] = "switch" THEN "outline" ELSE backend
    /\ Finish(p)
    /\ UNCHANGED <<file, tunnel, name, held, bounds>>

Select(p) ==
    /\ pc[p] = "select"
    /\ backend' = "amnezia"
    /\ Goto(p, "persist")
    /\ UNCHANGED <<file, tunnel, task, name, held, bounds>>

Deselect(p) ==
    /\ pc[p] = "deselect"
    /\ backend' = "outline"
    /\ Goto(p, "down")
    /\ UNCHANGED <<file, tunnel, task, name, held, bounds>>

\* PersistBackend is given what the mux says now, ...
Persist(p) ==
    /\ pc[p] = "persist"
    /\ name' = [name EXCEPT ![p] = backend]
    /\ Goto(p, "write")
    /\ UNCHANGED <<backend, file, tunnel, task, held, bounds>>

\* ... and replaces the file, or fails and leaves it.  rebuildPush follows
\* (Gateway.tla, MoveServer).
Write(p) ==
    /\ pc[p] = "write"
    /\ \/ file' = name[p]
       \/ "disk" \in Faults /\ UNCHANGED file
    /\ Finish(p)
    /\ UNCHANGED <<backend, tunnel, name, held, bounds>>

-----------------------------------------------------------------------------
(***************************************************************************)
(* Mux.DialContext and the AmneziaWG client's DialContext.                 *)
(***************************************************************************)
\* A dial that the mux sends to AmneziaWG; others are OutlineClient's.
MuxDial(p) ==
    /\ p \in Dialers /\ pc[p] = "off" /\ backend = "amnezia" /\ pc[Main] # "exited"
    /\ Goto(p, "check")
    /\ UNCHANGED <<backend, file, tunnel, task, name, held, bounds>>

DialCheck(p) ==
    /\ pc[p] = "check"
    /\ Goto(p, IF ready THEN "load" ELSE "off")
    /\ UNCHANGED <<backend, file, tunnel, task, name, held, bounds>>

\* The dialer is read under the mutex, which an Up may hold for long.
DialLoad(p) ==
    /\ pc[p] = "load" /\ lock = None
    /\ held' = [held EXCEPT ![p] = dialer]
    /\ Goto(p, "recheck")
    /\ UNCHANGED <<backend, file, tunnel, task, name, bounds>>

DialRecheck(p) ==
    /\ pc[p] = "recheck"
    /\ Goto(p, IF held[p] /\ ready THEN "dial" ELSE "off")
    /\ UNCHANGED <<backend, file, tunnel, task, name, held, bounds>>

\* The dial itself ends, by its context if not otherwise.
DialDone(p) ==
    /\ pc[p] = "dial"
    /\ held' = [held EXCEPT ![p] = FALSE]
    /\ Goto(p, "off")
    /\ UNCHANGED <<backend, file, tunnel, task, name, bounds>>

-----------------------------------------------------------------------------
\* The daemon exits by itself: its interface and the routes over it are gone,
\* and nobody waits for it.
DaemonExit ==
    /\ DaemonDies /\ "daemon" \in host
    /\ host' = host \ {"daemon", "route"}
    /\ UNCHANGED <<backend, file, pinned, swept, lock, ready, dialer, local, bounds>>

\* SIGTERM: the web server stops accepting and waits five seconds for the
\* requests it has; main then calls Down, and the process is over at most ten
\* seconds after it: requests that are late run on for so long.
Stop ==
    /\ Serving
    /\ stopped' = TRUE
    /\ task' = [task EXCEPT ![Main] = "stop"]
    /\ Goto(Main, "down")
    /\ UNCHANGED <<backend, file, tunnel, name, held, requests, crashes>>

\* The process is killed, or its last requests end with it, and it is started
\* again (FlushStaleNAT is about the nftables table).  The host keeps what the old
\* process had set up; the daemon dies with the container or lives on.
Crash ==
    /\ crashes < MaxCrashes
    /\ crashes' = crashes + 1
    /\ host' \in {host, host \ {"daemon", "route"}}
    /\ backend' = "outline"
    /\ lock' = None /\ ready' = FALSE /\ dialer' = FALSE
    /\ pinned' = FALSE /\ swept' = FALSE
    /\ pc' = [p \in Procs |-> IF p # Main THEN "off"
                              ELSE IF file = "amnezia" THEN "up" ELSE "run"]
    /\ task' = [p \in Procs |-> IF p = Main /\ file = "amnezia" THEN "switch" ELSE "none"]
    /\ name' = [p \in Procs |-> "outline"]
    /\ held' = [p \in Procs |-> FALSE]
    /\ stopped' = FALSE
    /\ UNCHANGED <<file, requests>>

Upping(p) ==
    \/ UpLock(p) \/ Clean(p) \/ Start(p) \/ Configure(p) \/ Handshake(p) \/ Probe(p)
    \/ Announce(p) \/ Undo(p)
Downing(p) == DownLock(p) \/ Teardown(p)
Switching(p) == Failed(p) \/ Select(p) \/ Deselect(p) \/ Persist(p) \/ Write(p)
Dialing(p) == DialCheck(p) \/ DialLoad(p) \/ DialRecheck(p) \/ DialDone(p)

Next ==
    \/ \E p \in Switchers, b \in Backends : SwitchBackend(p, b)
    \/ \E p \in Restarters : RestartServices(p)
    \/ \E p \in Requests \cup {Main} : Upping(p) \/ Downing(p) \/ Switching(p)
    \/ \E p \in Dialers : MuxDial(p) \/ Dialing(p)
    \/ DaemonExit \/ Stop \/ Crash

Spec == Init /\ [][Next]_vars

\* Every step of Up and Down carries a deadline, and a mutex is handed over to
\* each of its waiters in the end.
Fairness ==
    /\ \A p \in Requests \cup {Main} :
         WF_vars(Upping(p)) /\ WF_vars(Downing(p)) /\ WF_vars(Switching(p))
    /\ \A p \in Dialers : WF_vars(Dialing(p)) /\ SF_vars(DialLoad(p))

FairSpec == Spec /\ Fairness

-----------------------------------------------------------------------------
\* No request is under way (and the startup is over).
Quiet == pc[Main] = "run" /\ \A p \in Requests : pc[p] = "off"

\* The client is never announced ready without a dialer and an interface that is
\* complete but for what a daemon that died took with it, whatever Up or Down is
\* under way: downLocked clears ready before it removes anything.
ReadyHasInterface == ready => dialer /\ Essential \ host \in {{}, {"daemon", "route"}}

\* What a killed predecessor may have left: everything, until this process has run
\* downLocked once, and then the pinned route, of which nobody knows any more.
Leftover == IF crashes = 0 THEN {} ELSE IF swept THEN {"pin"} ELSE Parts

\* When the mutex is free and the client is not ready, nothing of it is left in
\* the host: every error path of Up ends in downLocked, and one that started
\* nothing has nothing to undo.  After a crash the first Up or Down, whether it
\* succeeds or not, also removes the interface, the routes and the policy rule of
\* the process before it.
CleanWhenDown == (lock = None /\ ~ready) => (host \subseteq Leftover /\ ~dialer)

\* "Drop nft/conntrack left by a previous process. A container restart does not
\* clear the host network namespace." (main.go:99), said of the AmneziaWG parts: a
\* process that runs on Outline has none of them in the host.
BootIsClean == (pc[Main] = "run" /\ lock = None /\ ~ready) => host = {}

\* Down at shutdown (main.go:636) is the last word: the process leaves no daemon,
\* route or rule behind.
ExitIsClean == (pc[Main] = "exited" /\ crashes = 0) => host = {}

\* "The caller brings the Amnezia interface up or down around this call"
\* (mux.go:63): when no request is under way AmneziaWG is selected exactly if it
\* is up.
SelectedIsUp == Quiet => (backend = "amnezia" <=> ready)

\* PersistBackend writes the choice "so a UI switch survives restart"
\* (config.go:466): when no request is under way, the file names the backend in use.
FileIsBackend == Quiet => file = backend

\* "Ready reports a live handshake" (amnezia/client.go:47).
ReadyIsLive == ready => "daemon" \in host

\* A dial through AmneziaWG returns, although it waits for a mutex that Up holds
\* and Up itself dials.
DialsReturn == \A p \in Dialers : pc[p] = "check" ~> pc[p] = "off"

-----------------------------------------------------------------------------
(***************************************************************************)
(* The AmneziaWG client is a tunnel (Tunnel.tla).                          *)
(***************************************************************************)
\* How far a dial at label l is.
StageAt(l) ==
    IF l = "load" THEN "admitted"
    ELSE IF l = "recheck" THEN "taken"
    ELSE IF l = "dial" THEN "open"
    ELSE "idle"

DialStages == [p \in Dialers |-> StageAt(pc[p])]
DialersTaken == [p \in Dialers |-> StageAt(pc[p]) \in {"taken", "open"} /\ held[p]]

Abstract == INSTANCE Tunnel WITH
    Users <- Dialers, Values <- {TRUE}, NoDialer <- FALSE,
    up <- ready, current <- dialer, stage <- DialStages, taken <- DialersTaken

\* DialContext (amnezia/client.go:273-287) keeps what a backend promises: no switch,
\* restart or shutdown that runs in between, and no crash, makes a dial begin
\* without a dialer or on a client that is not ready, and no Up or Down takes the
\* dialer from a client that says it is.
IsTunnel == Abstract!TSpec
=============================================================================
