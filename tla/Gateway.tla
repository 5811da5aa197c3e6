------------------------------- MODULE Gateway -------------------------------
(***************************************************************************)
(* The nftables gateway, internal/gateway/gateway.go, and the goroutines   *)
(* of cmd/outline-gate/main.go that drive it.                              *)
(*                                                                         *)
(* Updaters stand for everything that ends in rebuildPush: a bypass edit   *)
(* or DNS change, a replaced key, a reconnect of the supervisor, a switch  *)
(* of the tunnel.  Restarters are "restart services" requests of the web   *)
(* UI, Applier is the goroutine that installs the rules at startup, Hup    *)
(* the SIGHUP handler and Main the shutdown of run().                      *)
(*                                                                         *)
(* main's mu guards the gw pointer and the engine; every Gateway object    *)
(* has a mutex of its own, so two generations of Gateway exclude only      *)
(* themselves while they edit the one outline_gate table of the kernel.    *)
(* Each nft script is one kernel transaction.  The table is modelled by    *)
(* the set of engines whose elements it carries: {} is no table, and a     *)
(* script added on top of an existing table merges with it.                *)
(***************************************************************************)
EXTENDS Integers, FiniteSets

CONSTANTS
    Updaters, Restarters, Applier, Hup, Main,   \* goroutines
    None,           \* nobody: a free mutex
    NftFaults,      \* nft commands that may fail: "patch", "delete", "add"
    MaxFaults,      \* bound: failures of each of these commands
    MaxEdits,       \* bound: changes of the bypass nets
    MaxMoves,       \* bound: changes of the tunnel server's address
    MaxReloads,     \* bound: SIGHUP reloads of one process
    MaxRestarts,    \* bound: successful service restarts
    MaxStops,       \* bound: shutdowns and kills in a behaviour
    MaxEvents       \* bound: all of these together

Procs == Updaters \cup Restarters \cup {Applier, Hup, Main}

ASSUME GatewayAssumption ==
    /\ IsFiniteSet(Updaters) /\ IsFiniteSet(Restarters)
    /\ Updaters \cap Restarters = {}
    /\ {Applier, Hup, Main} \cap (Updaters \cup Restarters) = {}
    /\ Applier # Hup /\ Applier # Main /\ Hup # Main
    /\ None \notin Procs
    /\ NftFaults \subseteq {"patch", "delete", "add"}
    /\ MaxFaults \in Nat /\ MaxEdits \in Nat /\ MaxMoves \in Nat
    /\ MaxReloads \in Nat /\ MaxRestarts \in Nat /\ MaxStops \in Nat /\ MaxEvents \in Nat

VARIABLES
    mu,             \* holder of main's mu
    gw,             \* the current Gateway (and config): its generation
    engine,         \* main's routing engine
    lock,           \* Gateway.mu of every generation
    active,         \* Gateway.active
    own,            \* Gateway.engine
    table,          \* the kernel's outline_gate table
    list, server,   \* EffectiveBypassNets and tunnelBypassIPs, as versions
    pc, target, ret,    \* next step, Gateway at hand, label to return to
    wasActive,      \* Hup's local
    stopped,        \* ctx is cancelled
    faults, restarts, stops

shared == <<mu, gw, engine, lock, active, own>>
inputs == <<list, server>>
locals == <<pc, target, ret, wasActive>>
bounds == <<faults, restarts, stops>>
vars == <<shared, table, inputs, locals, stopped, bounds>>

Generations == 0..MaxReloads
NoFaults == [c \in NftFaults |-> 0]
Engines == [gen : Generations, list : 0..MaxEdits, server : 0..MaxMoves]
Labels == {"off", "push", "update", "fetch", "apply", "patch", "delete", "add", "start", "backoff",
           "replace", "static", "load", "reapply", "run", "shutdown", "flush", "wait", "exited",
           "killed", "dead"}

\* Types of main's, the gateways' and the goroutines' state.
TypeOK ==
    /\ mu \in Procs \cup {None}
    /\ gw \in Generations
    /\ engine \in Engines
    /\ lock \in [Generations -> Procs \cup {None}]
    /\ active \in [Generations -> BOOLEAN]
    /\ own \in [Generations -> Engines]
    /\ table \in SUBSET Engines
    /\ list \in 0..MaxEdits /\ server \in 0..MaxMoves
    /\ pc \in [Procs -> Labels]
    /\ target \in [Procs -> Generations]
    /\ ret \in [Procs -> Labels]
    /\ wasActive \in BOOLEAN /\ stopped \in BOOLEAN
    /\ faults \in [NftFaults -> 0..MaxFaults] /\ restarts \in 0..MaxRestarts /\ stops \in 0..MaxStops

\* The engine NewWithBypass builds from the config, the nets and the server of now.
Wanted == [gen |-> gw, list |-> list, server |-> server]

Init ==
    /\ mu = None /\ gw = 0
    /\ list = 0 /\ server = 0
    /\ engine = Wanted
    /\ lock = [g \in Generations |-> None]
    /\ active = [g \in Generations |-> FALSE]
    /\ own = [g \in Generations |-> engine]
    /\ table = {}
    /\ pc = [p \in Procs |-> IF p = Applier THEN "start" ELSE IF p = Main THEN "run" ELSE "off"]
    /\ target = [p \in Procs |-> 0]
    /\ ret = [p \in Procs |-> "off"]
    /\ wasActive = FALSE /\ stopped = FALSE
    /\ faults = NoFaults /\ restarts = 0 /\ stops = 0

-----------------------------------------------------------------------------
\* One more change, request, signal or stop is within the bound.
More == list + server + gw + restarts + stops < MaxEvents

Goto(p, l) == pc' = [pc EXCEPT ![p] = l]

\* Call a subroutine that returns to label r.
Call(p, l, r) == Goto(p, l) /\ ret' = [ret EXCEPT ![p] = r]

\* Command c fails: a missing binary, a refused permission, a rejected element.
Fault(c) ==
    /\ c \in NftFaults /\ faults[c] < MaxFaults
    /\ faults' = [faults EXCEPT ![c] = @ + 1]

\* The deferred unlocks of Apply and of rebuildPush, and the return to l.
Unlock(p, l) ==
    /\ lock' = [lock EXCEPT ![target[p]] = None]
    /\ mu' = IF mu = p THEN None ELSE mu
    /\ Goto(p, l)

\* Mutation of PushLock: the engine is handed on as it was before.
PushOldEngine(p) ==
    /\ pc[p] = "push" /\ mu = None
    /\ mu' = p
    /\ Goto(p, "update")
    /\ UNCHANGED <<gw, engine, lock, active, own, table, inputs, target, ret, wasActive, stopped,
                   bounds>>

\* rebuildPush: under mu, a new engine ...
PushLock(p) ==
    /\ pc[p] = "push" /\ mu = None
    /\ mu' = p
    /\ engine' = Wanted
    /\ Goto(p, "update")
    /\ UNCHANGED <<gw, lock, active, own, table, inputs, target, ret, wasActive, stopped, bounds>>

\* Mutation of UpdateEngine: the mutex is given up between the look at active
\* and Apply.
UpdateThenApply(p) ==
    /\ pc[p] = "update" /\ lock[gw] = None
    /\ own' = [own EXCEPT ![gw] = engine]
    /\ \/ /\ active[gw]
          /\ target' = [target EXCEPT ![p] = gw]
          /\ Goto(p, "apply")
          /\ UNCHANGED mu
       \/ /\ ~active[gw]
          /\ mu' = None
          /\ Goto(p, ret[p])
          /\ UNCHANGED target
    /\ UNCHANGED <<gw, engine, lock, active, table, inputs, ret, wasActive, stopped, bounds>>

\* ... handed to the gateway by UpdateEngine, which re-applies only if active.
UpdateEngine(p) ==
    /\ pc[p] = "update" /\ lock[gw] = None
    /\ own' = [own EXCEPT ![gw] = engine]
    /\ \/ /\ active[gw]
          /\ lock' = [lock EXCEPT ![gw] = p]
          /\ target' = [target EXCEPT ![p] = gw]
          /\ Goto(p, "patch")
          /\ UNCHANGED mu
       \/ /\ ~active[gw]
          /\ mu' = None
          /\ Goto(p, ret[p])
          /\ UNCHANGED <<lock, target>>
    /\ UNCHANGED <<gw, engine, active, table, inputs, ret, wasActive, stopped, bounds>>

\* g := gw under mu; the Applier looks at ctx first.
FetchGateway(p) ==
    /\ pc[p] = "fetch" /\ mu = None
    /\ IF p = Applier /\ stopped
         THEN Goto(p, "off") /\ UNCHANGED <<ret, target>>
         ELSE Call(p, "apply", "off") /\ target' = [target EXCEPT ![p] = gw]
    /\ UNCHANGED <<shared, table, inputs, wasActive, stopped, bounds>>

\* Apply takes the gateway's mutex; an active gateway tries a patch of its sets.
Apply(p) ==
    /\ pc[p] = "apply" /\ lock[target[p]] = None
    /\ lock' = [lock EXCEPT ![target[p]] = p]
    /\ Goto(p, IF active[target[p]] THEN "patch" ELSE "delete")
    /\ UNCHANGED <<mu, gw, engine, active, own, table, inputs, target, ret, wasActive, stopped,
                   bounds>>

\* Mutation of PatchSets: the sets are filled without being flushed first.
PatchWithoutFlush(p) ==
    /\ pc[p] = "patch"
    /\ \/ /\ table # {}
          /\ table' = table \cup {own[target[p]]}
          /\ Unlock(p, ret[p])
          /\ UNCHANGED faults
       \/ /\ \/ table = {} /\ UNCHANGED faults
             \/ Fault("patch")
          /\ Goto(p, "delete")
          /\ UNCHANGED <<mu, lock, table>>
    /\ UNCHANGED <<gw, engine, active, own, inputs, target, ret, wasActive, stopped, restarts,
                   stops>>

\* patchSetsLocked: flush and refill the sets in one transaction, which fails
\* if there is no table; the full apply follows a failure.
PatchSets(p) ==
    /\ pc[p] = "patch"
    /\ \/ /\ table # {}
          /\ table' = {own[target[p]]}
          /\ Unlock(p, ret[p])
          /\ UNCHANGED faults
       \/ /\ \/ table = {} /\ UNCHANGED faults
             \/ Fault("patch")
          /\ Goto(p, "delete")
          /\ UNCHANGED <<mu, lock, table>>
    /\ UNCHANGED <<gw, engine, active, own, inputs, target, ret, wasActive, stopped, restarts,
                   stops>>

\* applyLocked: "delete table", its error ignored ...
DeleteTable(p) ==
    /\ pc[p] = "delete"
    /\ \/ table' = {} /\ UNCHANGED faults
       \/ Fault("delete") /\ UNCHANGED table
    /\ Goto(p, "add")
    /\ UNCHANGED <<shared, inputs, target, ret, wasActive, stopped, restarts, stops>>

\* Mutation of AddTable: a failed script leaves active as it was.
AddKeepsActive(p) ==
    /\ pc[p] = "add"
    /\ \/ /\ table' = table \cup {own[target[p]]}
          /\ active' = [active EXCEPT ![target[p]] = TRUE]
          /\ Unlock(p, ret[p])
          /\ UNCHANGED faults
       \/ /\ Fault("add")
          /\ Unlock(p, IF p = Applier /\ mu # p THEN "backoff" ELSE ret[p])
          /\ UNCHANGED <<table, active>>
    /\ UNCHANGED <<gw, engine, own, inputs, target, ret, wasActive, stopped, restarts, stops>>

\* Mutation of AddTable: the Applier gives up after its first failure.
AddWithoutRetry(p) ==
    /\ pc[p] = "add"
    /\ \/ /\ table' = table \cup {own[target[p]]}
          /\ active' = [active EXCEPT ![target[p]] = TRUE]
          /\ UNCHANGED faults
       \/ /\ Fault("add")
          /\ active' = [active EXCEPT ![target[p]] = FALSE]
          /\ UNCHANGED table
    /\ Unlock(p, ret[p])
    /\ UNCHANGED <<gw, engine, own, inputs, target, ret, wasActive, stopped, restarts, stops>>

\* ... then the script.  Callers log a failure; the Applier backs off.
AddTable(p) ==
    /\ pc[p] = "add"
    /\ \/ /\ table' = table \cup {own[target[p]]}
          /\ active' = [active EXCEPT ![target[p]] = TRUE]
          /\ Unlock(p, ret[p])
          /\ UNCHANGED faults
       \/ /\ Fault("add")
          /\ active' = [active EXCEPT ![target[p]] = FALSE]
          /\ Unlock(p, IF p = Applier /\ mu # p THEN "backoff" ELSE ret[p])
          /\ UNCHANGED table
    /\ UNCHANGED <<gw, engine, own, inputs, target, ret, wasActive, stopped, restarts, stops>>

-----------------------------------------------------------------------------
\* The bypass nets change and OnChange calls rebuildPush.
EditNets(p) ==
    /\ pc[p] = "off" /\ list < MaxEdits /\ More
    /\ list' = list + 1
    /\ Call(p, "push", "off")
    /\ UNCHANGED <<shared, table, server, target, wasActive, stopped, bounds>>

\* The tunnel moves to another server (a replaced key, a reconnect or refresh of
\* the supervisor, another backend); OnReplaced, onChange(true) or switchBackend
\* calls rebuildPush.
MoveServer(p) ==
    /\ pc[p] = "off" /\ server < MaxMoves /\ More
    /\ server' = server + 1
    /\ Call(p, "push", "off")
    /\ UNCHANGED <<shared, table, list, target, wasActive, stopped, bounds>>

\* RestartServices on the Outline backend: Reconnect (or SetAccessKey) resolves
\* the server again; on success gw is read and applied, with no rebuildPush.  A
\* failed one is answered with an error; if it moved the server, the supervisor
\* reconnects and pushes (MoveServer), and so does a restart of AmneziaWG.
RestartServices(p) ==
    /\ pc[p] = "off" /\ restarts < MaxRestarts /\ More
    /\ restarts' = restarts + 1
    /\ server' \in {server} \cup (IF server < MaxMoves THEN {server + 1} ELSE {})
    /\ Call(p, "fetch", "off")
    /\ UNCHANGED <<shared, table, list, target, wasActive, stopped, faults, stops>>

\* The Applier has waited for the tunnel, or for a minute.
ApplierStart ==
    /\ pc[Applier] = "start"
    /\ IF stopped
         THEN Goto(Applier, "off") /\ UNCHANGED ret
         ELSE Call(Applier, "push", "fetch")
    /\ UNCHANGED <<shared, table, inputs, target, wasActive, stopped, bounds>>

\* The backoff after a failed Apply is over, or ctx ends it.
ApplierRetry ==
    /\ pc[Applier] = "backoff"
    /\ Goto(Applier, IF stopped THEN "off" ELSE "fetch")
    /\ UNCHANGED <<shared, table, inputs, target, ret, wasActive, stopped, bounds>>

\* SIGHUP: config.Load succeeded; mu is taken ...
HupReload ==
    /\ pc[Hup] = "off" /\ ~stopped
    /\ mu = None /\ gw < MaxReloads /\ More
    /\ mu' = Hup
    /\ Goto(Hup, "replace")
    /\ UNCHANGED <<gw, engine, lock, active, own, table, inputs, target, ret, wasActive, stopped,
                   bounds>>

\* Mutation of HupReplace: mu is still held when SetStatic notifies.
ReplaceHoldingMu ==
    /\ pc[Hup] = "replace" /\ lock[gw] = None
    /\ wasActive' = active[gw]
    /\ gw' = gw + 1
    /\ engine' = [gen |-> gw + 1, list |-> list, server |-> server]
    /\ own' = [own EXCEPT ![gw + 1] = engine']
    /\ Goto(Hup, "static")
    /\ UNCHANGED <<mu, lock, active, table, inputs, target, ret, stopped, bounds>>

\* ... the engine rebuilt, Active asked (it waits for an Apply in progress), and
\* the gateway replaced by a new, inactive one.
HupReplace ==
    /\ pc[Hup] = "replace" /\ lock[gw] = None
    /\ wasActive' = active[gw]
    /\ gw' = gw + 1
    /\ engine' = [gen |-> gw + 1, list |-> list, server |-> server]
    /\ own' = [own EXCEPT ![gw + 1] = engine']
    /\ mu' = None
    /\ Goto(Hup, "static")
    /\ UNCHANGED <<lock, active, table, inputs, target, ret, stopped, bounds>>

\* SetStatic with the BYPASS_CIDRS of the new config notifies in any case.
HupStatic ==
    /\ pc[Hup] = "static"
    /\ list' \in {list} \cup (IF list < MaxEdits /\ More THEN {list + 1} ELSE {})
    /\ Call(Hup, "push", "load")
    /\ UNCHANGED <<shared, table, server, target, wasActive, stopped, bounds>>

\* Load notifies if the addresses it resolved changed.
HupLoad ==
    /\ pc[Hup] = "load"
    /\ \/ /\ list < MaxEdits /\ More
          /\ list' = list + 1
          /\ Call(Hup, "push", "reapply")
       \/ /\ Goto(Hup, "reapply")
          /\ UNCHANGED <<list, ret>>
    /\ UNCHANGED <<shared, table, server, target, wasActive, stopped, bounds>>

\* The new gateway is applied if the old one was active at the replacement.
HupReapply ==
    /\ pc[Hup] = "reapply"
    /\ IF wasActive
         THEN Call(Hup, "apply", "off") /\ target' = [target EXCEPT ![Hup] = gw]
         ELSE Goto(Hup, "off") /\ UNCHANGED <<ret, target>>
    /\ UNCHANGED <<shared, table, inputs, wasActive, stopped, bounds>>

\* SIGTERM, a fatal listener error or "restart container": ctx is cancelled.
Stop ==
    /\ pc[Main] = "run" /\ stops < MaxStops /\ More
    /\ stopped' = TRUE
    /\ stops' = stops + 1
    /\ Goto(Main, "shutdown")
    /\ UNCHANGED <<shared, table, inputs, target, ret, wasActive, faults, restarts>>

\* The HTTP server is shut down (or five seconds pass) and gw is read under mu.
MainFetch ==
    /\ pc[Main] = "shutdown" /\ mu = None
    /\ target' = [target EXCEPT ![Main] = gw]
    /\ Goto(Main, "flush")
    /\ UNCHANGED <<shared, table, inputs, ret, wasActive, stopped, bounds>>

\* Flush: the table is deleted; an error is logged.
Flush ==
    /\ pc[Main] = "flush" /\ lock[target[Main]] = None
    /\ \/ table' = {} /\ UNCHANGED faults
       \/ Fault("delete") /\ UNCHANGED table
    /\ active' = [active EXCEPT ![target[Main]] = FALSE]
    /\ Goto(Main, "wait")
    /\ UNCHANGED <<mu, gw, engine, lock, own, inputs, target, ret, wasActive, stopped, restarts,
                   stops>>

\* All goroutines are gone, or ten seconds have passed: the process ends.
Halt(l) == pc' = [p \in Procs |-> IF p = Main THEN l ELSE "dead"]

Exit ==
    /\ pc[Main] = "wait"
    /\ Halt("exited")
    /\ UNCHANGED <<shared, table, inputs, target, ret, wasActive, stopped, bounds>>

Kill ==
    /\ pc[Main] \notin {"exited", "killed"} /\ stops < MaxStops /\ More
    /\ stops' = stops + 1
    /\ Halt("killed")
    /\ UNCHANGED <<shared, table, inputs, target, ret, wasActive, stopped, faults, restarts>>

\* The container is started again.  The table outlives the process; the new one
\* deletes it (FlushStaleNAT, errors ignored) and builds its first engine.
Boot ==
    /\ pc[Main] \in {"exited", "killed"}
    /\ \/ table' = {} /\ UNCHANGED faults
       \/ Fault("delete") /\ UNCHANGED table
    /\ mu' = None /\ gw' = 0
    /\ engine' = [gen |-> 0, list |-> list, server |-> server]
    /\ lock' = [g \in Generations |-> None]
    /\ active' = [g \in Generations |-> FALSE]
    /\ own' = [g \in Generations |-> engine']
    /\ pc' = [p \in Procs |-> IF p = Applier THEN "start" ELSE IF p = Main THEN "run" ELSE "off"]
    /\ target' = [p \in Procs |-> 0]
    /\ ret' = [p \in Procs |-> "off"]
    /\ wasActive' = FALSE /\ stopped' = FALSE
    /\ UNCHANGED <<inputs, restarts, stops>>

Editing(p) == PatchSets(p) \/ DeleteTable(p) \/ AddTable(p)
Driving(p) == PushLock(p) \/ UpdateEngine(p) \/ FetchGateway(p) \/ Apply(p) \/ Editing(p)
Hupping == HupReplace \/ HupStatic \/ HupLoad \/ HupReapply
Stopping == MainFetch \/ Flush \/ Exit

Next ==
    \/ \E p \in Procs : Driving(p)
    \/ \E p \in Updaters : EditNets(p) \/ MoveServer(p)
    \/ \E p \in Restarters : RestartServices(p)
    \/ ApplierStart \/ ApplierRetry
    \/ HupReload \/ Hupping
    \/ Stop \/ Stopping \/ Kill \/ Boot

Spec == Init /\ [][Next]_vars

\* Goroutines run, mutexes are handed over and nft commands return; the wait for
\* the tunnel and the backoffs are bounded by timers.  A signal, a request or a
\* stop need never come.
Fairness ==
    /\ \A p \in Procs : WF_vars(Driving(p))
    /\ WF_vars(ApplierStart) /\ WF_vars(ApplierRetry)
    /\ WF_vars(Hupping) /\ WF_vars(Stopping)
    /\ WF_vars(Boot)

FairSpec == Spec /\ Fairness

-----------------------------------------------------------------------------
InNft(p) == pc[p] \in {"patch", "delete", "add"}

\* No goroutine is inside a gateway's mutex.
Quiet == \A g \in Generations : lock[g] = None

\* Health reports the gateway ready (gw.Active) only over an installed table:
\* whatever nft command failed, and across a reload, no interleaving of Apply
\* and UpdateEngine leaves the current gateway active with its table deleted.
\* The Apply of a "restart services" request is left out once the gateway has
\* been replaced: it may still be at work on the old one (see StaleApplyHarmless).
ActiveMeansTable ==
    (~stopped /\ Quiet /\ active[gw] /\ (gw = 0 \/ restarts = 0)) => table # {}

\* The same with that Apply: RestartServices reads gw under mu and applies it
\* after the unlock (main.go:376), when a SIGHUP may have replaced it.
StaleApplyHarmless == (~stopped /\ Quiet /\ active[gw]) => table # {}

\* No "delete table" has failed: its error is ignored.
DeletesWork == "delete" \in NftFaults => faults["delete"] = 0

\* Between the commands of the first gateway the table holds exactly the nets of
\* that gateway's engine: a patch, a failed patch and a rebuild leave nothing of
\* an older engine behind, unless "delete table" failed.
TableIsEngine ==
    (~stopped /\ Quiet /\ gw = 0 /\ active[gw] /\ DeletesWork) => table = {own[gw]}

\* UpdateEngine "uses a single lock path so Flush cannot race between active
\* check and Apply" (gateway.go:120): once shutdown has flushed the rules no
\* rebuildPush, which holds mu, brings the table of the inactive gateway back.
PushNeverRevives ==
    [][(pc[Main] = "wait" /\ ~active[gw] /\ table = {} /\ table' # {})
         => \E p \in Procs : pc[p] = "add" /\ mu # p]_vars

\* "Teardown must remove nftables table" (docs/design-plan.md:269).
TornDown == pc[Main] = "exited" => table = {}

\* rebuildPush, and Apply, return: mu and the gateway's mutex are always taken in
\* this order, and OnChange is never called with mu held.
PushReturns ==
    \A p \in Procs : (pc[p] = "push") ~> (pc[p] \notin {"push", "update"} /\ ~InNft(p))

\* "Gateway Apply retries with exponential backoff instead of fatal on first nft
\* failure" (CHANGELOG.md:130): at startup the rules are installed in the end,
\* unless a SIGHUP replaces the gateway before (see TableFollows).
EventuallyApplied == <>(stopped \/ gw # 0 \/ active[gw])

\* The same for the whole run: nft being unavailable for a while does not leave
\* the gateway without its rules for good (CHANGELOG.md:142).
ActiveAgain == []<>(stopped \/ active[gw])

\* "SIGHUP: re-read env/files, rebuild routing engine and nft sets"
\* (docs/architecture.md:65): once changes cease, the table holds what the
\* config, the rules and the tunnel of now ask for.
TableFollows == <>[](stopped \/ table = {Wanted})

\* While no nft command fails, no "restart services" request overlaps and no
\* SIGHUP comes, the pushes alone keep that promise: the last rebuildPush in
\* always carries the newest rules and the newest server.
PushesSuffice == [](faults = NoFaults /\ restarts = 0 /\ gw = 0) => TableFollows

\* "Always inject Outline server IP(s) into bypass set" (docs/design-plan.md:118):
\* once changes cease, every engine in the table exempts the server in use.
ServerExempt == <>[](stopped \/ (table # {} /\ \A e \in table : e.server = server))
=============================================================================
