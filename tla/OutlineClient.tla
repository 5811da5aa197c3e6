---------------------------- MODULE OutlineClient ----------------------------
(***************************************************************************)
(* The Outline tunnel client, internal/outline/client.go.                  *)
(*                                                                         *)
(* One client object is shared by the supervisor goroutine (MaintainReady, *)
(* preceded by main's initial Connect), by web UI handlers (SetAccessKey,  *)
(* Reconnect) and by proxy connections (DialContext).  The object has one  *)
(* RWMutex over {accessKey, dialer, expandedKey, serverIP}, two atomics    *)
(* (ready, failCount), a wake channel of capacity 1 and a slot channel.    *)
(* Every access to one of these is a step of its own; steps that touch no  *)
(* shared state (the ssconf fetch, the dial itself) are merged with the    *)
(* shared access that follows them.                                        *)
(*                                                                         *)
(* A static ss:// key is a member of StaticKeys; it stands for its         *)
(* endpoint, its dialer and its server address too.  A dynamic ssconf://   *)
(* key expands to whatever static key its URL publishes at that moment.    *)
(***************************************************************************)
EXTENDS Integers, FiniteSets

CONSTANTS
    Maint,          \* the main / MaintainReady goroutine
    Callers,        \* web UI requests that replace the key or reconnect
    Dialers,        \* proxy connections that dial through the tunnel
    StaticKeys,     \* ss:// keys
    DynamicKeys,    \* ssconf:// keys
    UserKeys,       \* the keys an operator may type into the web UI
    FirstKey,       \* the key the process starts with
    None,           \* "" / nil
    Threshold,      \* ProbeFails: failures that mark the tunnel not ready
    SlotCap,        \* capacity of the slot channel (8 in the code)
    Probing,        \* ProbeAddr is set
    Refreshing,     \* RefreshInterval > 0
    MaxCalls,       \* bound: web UI calls in a behaviour
    MayStop,        \* whether SIGTERM may arrive in a behaviour
    MaxRotations,   \* bound: times an ssconf URL publishes another key
    FirstNet,       \* the condition of the network at the start
    Settles,        \* the conditions a flaky network may settle into
    Faults          \* what else may fail: "disk", "lookup", "newDialer"

Keys == StaticKeys \cup DynamicKeys
Procs == {Maint} \cup Callers \cup Dialers

ASSUME ClientAssumption ==
    /\ Maint \notin Callers /\ Maint \notin Dialers
    /\ Callers \cap Dialers = {}
    /\ IsFiniteSet(Callers) /\ IsFiniteSet(Dialers)
    /\ StaticKeys # {} /\ StaticKeys \cap DynamicKeys = {} /\ None \notin Keys
    /\ UserKeys \subseteq Keys /\ FirstKey \in Keys
    /\ Threshold \in Nat \ {0} /\ SlotCap \in Nat \ {0}
    /\ Probing \in BOOLEAN /\ Refreshing \in BOOLEAN /\ MayStop \in BOOLEAN
    /\ MaxCalls \in Nat /\ MaxRotations \in Nat
    /\ FirstNet \in {"flaky", "good"} /\ Settles \subseteq {"good", "dead"}
    /\ Faults \subseteq {"disk", "lookup", "newDialer"}

VARIABLES
    accessKey, dialer, expandedKey, serverIP,   \* under Client.mu
    ready, failCount,                           \* atomics
    wake, slots,                                \* channels: token present, length
    pc,         \* next step of each goroutine
    task,       \* the operation it is executing
    want,       \* the key a SetAccessKey call was given
    key,        \* the access key Connect or refreshIfChanged read
    held,       \* the static key (or its dialer) it holds
    res,        \* outcome of its last dial
    immediate, refreshDue, probeDue,            \* locals of MaintainReady
    savedExpanded, diskKey,                     \* <persist>.expanded, <persist>
    published,  \* what each ssconf URL serves now
    net,        \* condition of the network
    stopped,    \* the process context is cancelled
    calls, rotations

conf == <<accessKey, dialer, expandedKey, serverIP>>
timers == <<immediate, refreshDue, probeDue>>
disk == <<savedExpanded, diskKey>>
env == <<published, net, stopped, calls, rotations>>
local == <<pc, task, want, key, held, res>>
vars == <<conf, ready, failCount, wake, slots, local, timers, disk, env>>

(***************************************************************************)
(* Labels.  Holding is where DialContext owns a slot, i.e. between acquire *)
(* and the deferred release.                                               *)
(***************************************************************************)
ConnectLabels == {"read", "expand", "install", "reset", "up", "persist", "down"}
Holding == {"load", "recheck", "dial", "swap", "kick", "release"}
DialLabels == {"check", "acquire"} \cup Holding
ProbeLabels == {"again", "swap2", "kick2", "returned"}
MaintLabels == {"top", "due", "refetch", "probeCheck", "idle", "backoff",
                "connected", "refreshed", "unprobed"}
CallerLabels == {"clear", "zero", "unprobed", "wakeup", "failed", "reload", "adopt", "store"}
Labels == {"off"} \cup ConnectLabels \cup DialLabels \cup ProbeLabels
          \cup MaintLabels \cup CallerLabels
Tasks == {"boot", "connect", "first", "refresh", "tick", "set", "reconnect", "adopt",
          "dial", "none"}
Outcomes == {"none", "ok", "timeout", "refused", "dest", "notready", "busy"}

Holders == {p \in Procs : pc[p] \in Holding}

FlagsOK ==
    /\ ready \in BOOLEAN /\ wake \in BOOLEAN /\ stopped \in BOOLEAN
    /\ immediate \in BOOLEAN /\ refreshDue \in BOOLEAN /\ probeDue \in BOOLEAN

DataOK ==
    /\ accessKey \in Keys /\ diskKey \in Keys
    /\ dialer \in StaticKeys \cup {None}
    /\ expandedKey \in StaticKeys \cup {None}
    /\ savedExpanded \in StaticKeys \cup {None}
    /\ serverIP \in StaticKeys \cup {None}
    /\ failCount \in Nat
    /\ slots \in 0..SlotCap
    /\ published \in [DynamicKeys -> StaticKeys]
    /\ net \in {"flaky", "good", "dead"}
    /\ calls \in 0..MaxCalls /\ rotations \in 0..MaxRotations

LocalsOK ==
    /\ pc \in [Procs -> Labels]
    /\ task \in [Procs -> Tasks]
    /\ want \in [Procs -> Keys \cup {None}]
    /\ key \in [Procs -> Keys \cup {None}]
    /\ held \in [Procs -> StaticKeys \cup {None}]
    /\ res \in [Procs -> Outcomes]

\* Types of the client's fields and of the goroutines' locals; the slot
\* channel never holds more than its capacity.
TypeOK == FlagsOK /\ DataOK /\ LocalsOK

(***************************************************************************)
(* New, then main's Connect: the supervisor starts in the "boot" Connect,  *)
(* the .expanded file may hold a static key of an earlier process.         *)
(***************************************************************************)
Init ==
    /\ accessKey = FirstKey /\ diskKey = FirstKey
    /\ dialer = None
    /\ savedExpanded \in StaticKeys \cup {None}
    /\ expandedKey = savedExpanded
    /\ serverIP \in {None} \cup ({FirstKey} \cap StaticKeys)
    /\ ready = FALSE /\ failCount = 0 /\ wake = FALSE /\ slots = 0
    /\ pc = [p \in Procs |-> IF p = Maint THEN "read" ELSE "off"]
    /\ task = [p \in Procs |-> IF p = Maint THEN "boot" ELSE "none"]
    /\ want = [p \in Procs |-> None]
    /\ key = [p \in Procs |-> None]
    /\ held = [p \in Procs |-> None]
    /\ res = [p \in Procs |-> "none"]
    /\ immediate = Probing /\ refreshDue = FALSE /\ probeDue = FALSE
    /\ published \in [DynamicKeys -> StaticKeys]
    /\ net = FirstNet /\ stopped = FALSE /\ calls = 0 /\ rotations = 0

(***************************************************************************)
(* Control helpers.                                                        *)
(***************************************************************************)
Goto(p, l) == pc' = [pc EXCEPT ![p] = l]
Started == task[Maint] # "boot"

\* Finish an operation: the goroutine's locals die with it.
Finish(p) ==
    /\ pc' = [pc EXCEPT ![p] = "off"]
    /\ task' = [task EXCEPT ![p] = "none"]
    /\ want' = [want EXCEPT ![p] = None]
    /\ key' = [key EXCEPT ![p] = None]
    /\ held' = [held EXCEPT ![p] = None]
    /\ res' = [res EXCEPT ![p] = "none"]

\* Where the caller of Connect continues after it returned nil.
AfterConnect(t) ==
    CASE t = "boot" -> "top"
      [] t = "connect" -> IF Probing THEN "check" ELSE "connected"
      [] t = "refresh" -> IF Probing THEN "check" ELSE "refreshed"
      [] t = "reconnect" -> IF Probing THEN "check" ELSE "wakeup"
      [] OTHER -> "store"

\* Where it continues after Connect returned an error.
AfterFailure(t) ==
    CASE t = "boot" -> "top"
      [] t = "connect" -> "backoff"
      [] OTHER -> "failed"

\* isTransportFailure: a timeout, or an error that names the server address
\* the client knows at that moment.  A context deadline met while waiting for
\* a slot is a timeout too.
IsTransportFailure(o, d) ==
    \/ o \in {"timeout", "busy"}
    \/ o = "refused" /\ serverIP # None /\ serverIP = d

\* The context of an operation may end early: a web UI request whose client
\* goes away, or anything once the process is shutting down.
Cancellable(p) == p \in Callers \/ stopped

\* What the network and the context let happen to an ssconf fetch and to a dial.
\* An "operation was canceled" may or may not name the server address.
FetchMayFail(p) == net # "good" \/ Cancellable(p)
IfFault(f, v) == IF f \in Faults THEN {v} ELSE {}
DialOutcomes(p) ==
    (CASE net = "good" -> IF p \in Dialers THEN {"ok", "dest"} ELSE {"ok"}
       [] net = "dead" -> {"timeout"}
       [] OTHER -> {"ok", "timeout", "refused", "dest"})
    \cup (IF Cancellable(p) THEN {"refused", "dest"} ELSE {})

-----------------------------------------------------------------------------
(***************************************************************************)
(* Connect and applyExpanded.                                              *)
(***************************************************************************)

\* Connect reads accessKey and expandedKey under the read lock.
ConnectRead(p) ==
    /\ pc[p] = "read"
    /\ key' = [key EXCEPT ![p] = accessKey]
    /\ held' = [held EXCEPT ![p] = expandedKey]
    /\ Goto(p, "expand")
    /\ UNCHANGED <<conf, ready, failCount, wake, slots, task, want, res, timers, disk, env>>

\* What expand may give Connect: a static key is returned unchanged; a fetch
\* gives what is published, or fails and Connect falls back on the expanded
\* key it read before (held), or has nothing to fall back on.
Expansions(p) ==
    IF key[p] \in StaticKeys THEN {key[p]}
    ELSE {published[key[p]]} \cup (IF FetchMayFail(p) THEN {held[p]} ELSE {})

\* expand and newDialer: no lock is held.  newDialer may reject the key.
ConnectExpand(p) ==
    /\ pc[p] = "expand"
    /\ \E e \in Expansions(p) :
        \/ /\ e # None
           /\ held' = [held EXCEPT ![p] = e]
           /\ Goto(p, "install")
        \/ /\ e = None \/ ("newDialer" \in Faults /\ net # "good")
           /\ held' = [held EXCEPT ![p] = None]
           /\ Goto(p, "down")
    /\ key' = [key EXCEPT ![p] = None]
    /\ UNCHANGED <<conf, ready, failCount, wake, slots, task, want, res, timers, disk, env>>

\* applyExpanded under the write lock.  ResolveServerIP may have failed, which
\* leaves serverIP nil.
ApplyInstall(p) ==
    /\ pc[p] = "install"
    /\ dialer' = held[p]
    /\ expandedKey' = held[p]
    /\ serverIP' \in {held[p]} \cup IfFault("lookup", None)
    /\ Goto(p, "reset")
    /\ UNCHANGED <<accessKey, ready, failCount, wake, slots, task, want, key, held, res,
                   timers, disk, env>>

\* failCount.Store(0)
ApplyReset(p) ==
    /\ pc[p] = "reset"
    /\ failCount' = 0
    /\ Goto(p, "up")
    /\ UNCHANGED <<conf, ready, wake, slots, task, want, key, held, res, timers, disk, env>>

\* ready.Store(true)
ApplyUp(p) ==
    /\ pc[p] = "up"
    /\ ready' = TRUE
    /\ Goto(p, "persist")
    /\ UNCHANGED <<conf, failCount, wake, slots, task, want, key, held, res, timers, disk, env>>

\* OnExpanded: main writes the static key to <persist>.expanded; a write error
\* is only logged.  Connect returns nil.
ApplyPersist(p) ==
    /\ pc[p] = "persist"
    /\ savedExpanded' \in {held[p]} \cup IfFault("disk", savedExpanded)
    /\ Goto(p, AfterConnect(task[p]))
    /\ task' = [task EXCEPT ![p] = IF @ = "boot" THEN "none" ELSE @]
    /\ held' = [held EXCEPT ![p] = IF task[p] = "set" THEN @ ELSE None]
    /\ UNCHANGED <<conf, ready, failCount, wake, slots, want, key, res, timers, diskKey, env>>

\* Connect failed: ready.Store(false) and return the error.
ConnectDown(p) ==
    /\ pc[p] = "down"
    /\ ready' = FALSE
    /\ Goto(p, AfterFailure(task[p]))
    /\ task' = [task EXCEPT ![p] = IF p = Maint THEN "none" ELSE @]
    /\ UNCHANGED <<conf, failCount, wake, slots, want, key, held, res, timers, disk, env>>

-----------------------------------------------------------------------------
(***************************************************************************)
(* DialContext, used by proxy connections and by probe.                    *)
(***************************************************************************)

\* A proxy connection that is routed through the tunnel.
DialStart(p) ==
    /\ p \in Dialers /\ pc[p] = "off" /\ Started
    /\ task' = [task EXCEPT ![p] = "dial"]
    /\ Goto(p, "check")
    /\ UNCHANGED <<conf, ready, failCount, wake, slots, want, key, held, res, timers, disk, env>>

\* The early return when the tunnel is not ready takes no slot.
DialCheck(p) ==
    /\ pc[p] = "check"
    /\ \/ /\ ready
          /\ Goto(p, "acquire")
          /\ UNCHANGED <<task, want, key, held, res>>
       \/ /\ ~ready /\ p \in Dialers
          /\ Finish(p)
       \/ /\ ~ready /\ p \notin Dialers
          /\ res' = [res EXCEPT ![p] = "notready"]
          /\ Goto(p, "again")
          /\ UNCHANGED <<task, want, key, held>>
    /\ UNCHANGED <<conf, ready, failCount, wake, slots, timers, disk, env>>

\* acquire: a send on the slot channel, which blocks while it is full.
DialAcquire(p) ==
    /\ pc[p] = "acquire"
    /\ slots < SlotCap
    /\ slots' = slots + 1
    /\ Goto(p, "load")
    /\ UNCHANGED <<conf, ready, failCount, wake, task, want, key, held, res, timers, disk, env>>

\* acquire gives up when the dial's own context ends first, by its deadline (a
\* timeout) or cancelled (which is not one).
DialGiveUp(p) ==
    /\ pc[p] = "acquire"
    /\ slots = SlotCap /\ (net # "good" \/ Cancellable(p))
    /\ \/ p \in Dialers /\ Finish(p)
       \/ /\ p \notin Dialers
          /\ \E o \in {"busy"} \cup (IF Cancellable(p) THEN {"dest"} ELSE {}) :
               res' = [res EXCEPT ![p] = o]
          /\ Goto(p, "again")
          /\ UNCHANGED <<task, want, key, held>>
    /\ UNCHANGED <<conf, ready, failCount, wake, slots, timers, disk, env>>

\* d := c.dialer under the read lock.
DialLoad(p) ==
    /\ pc[p] = "load"
    /\ held' = [held EXCEPT ![p] = dialer]
    /\ Goto(p, "recheck")
    /\ UNCHANGED <<conf, ready, failCount, wake, slots, task, want, key, res, timers, disk, env>>

\* Mutation of DialRecheck: the second early return forgets its slot.
RecheckLeaksSlot(p) ==
    /\ pc[p] = "recheck"
    /\ \/ /\ held[p] # None /\ ready
          /\ Goto(p, "dial")
          /\ UNCHANGED <<task, want, key, held, res>>
       \/ /\ held[p] = None \/ ~ready
          /\ IF p \in Dialers
             THEN Finish(p)
             ELSE Goto(p, "again") /\ UNCHANGED <<task, want, key, held, res>>
    /\ UNCHANGED <<conf, ready, failCount, wake, slots, timers, disk, env>>

\* Mutation of DialRecheck: only the dialer is looked at again.
RecheckDialerOnly(p) ==
    /\ pc[p] = "recheck"
    /\ \/ held[p] # None /\ Goto(p, "dial") /\ UNCHANGED res
       \/ /\ held[p] = None
          /\ res' = [res EXCEPT ![p] = "notready"]
          /\ Goto(p, "release")
    /\ UNCHANGED <<conf, ready, failCount, wake, slots, task, want, key, held, timers, disk, env>>

\* The dialer and ready are looked at again once the slot is owned.
DialRecheck(p) ==
    /\ pc[p] = "recheck"
    /\ \/ /\ held[p] # None /\ ready
          /\ Goto(p, "dial")
          /\ UNCHANGED res
       \/ /\ held[p] = None \/ ~ready
          /\ res' = [res EXCEPT ![p] = "notready"]
          /\ Goto(p, "release")
    /\ UNCHANGED <<conf, ready, failCount, wake, slots, task, want, key, held, timers, disk, env>>

\* noteTunnelFailure, first half: failCount.Add(1), and the comparison of its
\* result with the threshold.
CountFailure(p, atThreshold, below) ==
    /\ failCount' = failCount + 1
    /\ Goto(p, IF failCount + 1 >= Threshold THEN atThreshold ELSE below)

\* Mutation of DialResult: every result resets the failure count first.
ResultAlwaysResets(p) ==
    /\ pc[p] = "dial"
    /\ \E o \in DialOutcomes(p) :
        /\ res' = [res EXCEPT ![p] = o]
        /\ failCount' = IF IsTransportFailure(o, held[p]) THEN 1 ELSE 0
        /\ Goto(p, IF failCount' >= Threshold THEN "swap" ELSE "release")
    /\ UNCHANGED <<conf, ready, wake, slots, task, want, key, held, timers, disk, env>>

\* DialStream returns; noteDialResult runs while the slot is still held.
DialResult(p) ==
    /\ pc[p] = "dial"
    /\ \E o \in DialOutcomes(p) :
        /\ res' = [res EXCEPT ![p] = o]
        /\ \/ /\ o = "ok"
              /\ failCount' = 0
              /\ Goto(p, "release")
           \/ /\ o # "ok" /\ ~IsTransportFailure(o, held[p])
              /\ Goto(p, "release")
              /\ UNCHANGED failCount
           \/ /\ IsTransportFailure(o, held[p])
              /\ CountFailure(p, "swap", "release")
    /\ UNCHANGED <<conf, ready, wake, slots, task, want, key, held, timers, disk, env>>

\* Mutation of SwapReady: ready is cleared without a kick.
SwapWithoutKick(p) ==
    /\ pc[p] \in {"swap", "swap2"}
    /\ ready' = FALSE
    /\ Goto(p, IF pc[p] = "swap" THEN "release" ELSE "returned")
    /\ UNCHANGED <<conf, failCount, wake, slots, task, want, key, held, res, timers, disk, env>>

\* noteTunnelFailure, second half: ready.Swap(false).  Only the goroutine that
\* saw true runs OnUnready (the conntrack flush) and kicks the supervisor.
SwapReady(p) ==
    /\ pc[p] \in {"swap", "swap2"}
    /\ ready' = FALSE
    /\ Goto(p, CASE pc[p] = "swap" /\ ready -> "kick"
                 [] pc[p] = "swap" /\ ~ready -> "release"
                 [] pc[p] = "swap2" /\ ready -> "kick2"
                 [] OTHER -> "returned")
    /\ UNCHANGED <<conf, failCount, wake, slots, task, want, key, held, res, timers, disk, env>>

\* kick: a non-blocking send on the wake channel.
Kick(p) ==
    /\ pc[p] \in {"kick", "kick2"}
    /\ wake' = TRUE
    /\ Goto(p, IF pc[p] = "kick" THEN "release" ELSE "returned")
    /\ UNCHANGED <<conf, ready, failCount, slots, task, want, key, held, res, timers, disk, env>>

\* The deferred release; its receive never blocks.
DialRelease(p) ==
    /\ pc[p] = "release"
    /\ slots' = IF slots > 0 THEN slots - 1 ELSE 0
    /\ \/ p \in Dialers /\ Finish(p)
       \/ /\ p \notin Dialers
          /\ Goto(p, IF res[p] = "ok" THEN "returned" ELSE "again")
          /\ UNCHANGED <<task, want, key, held, res>>
    /\ UNCHANGED <<conf, ready, failCount, wake, timers, disk, env>>

\* probe: an error that is not a transport failure counts as well.  The test
\* is made a second time here, against the server address known by now.
ProbeAgain(p) ==
    /\ pc[p] = "again"
    /\ \/ /\ ~IsTransportFailure(res[p], held[p])
          /\ CountFailure(p, "swap2", "returned")
       \/ /\ IsTransportFailure(res[p], held[p])
          /\ Goto(p, "returned")
          /\ UNCHANGED failCount
    /\ UNCHANGED <<conf, ready, wake, slots, task, want, key, held, res, timers, disk, env>>

-----------------------------------------------------------------------------
(***************************************************************************)
(* MaintainReady.                                                          *)
(***************************************************************************)
\* The supervisor is done with an operation and goes to label l.
MaintGoto(l) ==
    /\ Goto(Maint, l)
    /\ task' = [task EXCEPT ![Maint] = "none"]
    /\ key' = [key EXCEPT ![Maint] = None]
    /\ held' = [held EXCEPT ![Maint] = None]
    /\ res' = [res EXCEPT ![Maint] = "none"]
    /\ UNCHANGED want

MaintBegin(t, l) ==
    /\ Goto(Maint, l)
    /\ task' = [task EXCEPT ![Maint] = t]
    /\ UNCHANGED <<want, key, held, res>>

\* Mutation of MaintTop: the top of the loop does not look at the context.
TopUnchecked ==
    /\ pc[Maint] = "top"
    /\ \/ ~ready /\ MaintBegin("connect", "read") /\ UNCHANGED immediate
       \/ ready /\ immediate /\ immediate' = FALSE /\ MaintBegin("first", "check")
       \/ ready /\ ~immediate /\ MaintGoto("due") /\ UNCHANGED immediate
    /\ probeDue' = IF ready /\ immediate THEN FALSE ELSE probeDue
    /\ UNCHANGED <<conf, ready, failCount, wake, slots, refreshDue, disk, env>>

\* Top of the loop: reconnect, probe a tunnel found ready, or look at the timers.
MaintTop ==
    /\ pc[Maint] = "top" /\ ~stopped
    /\ \/ ~ready /\ MaintBegin("connect", "read") /\ UNCHANGED immediate
       \/ ready /\ immediate /\ immediate' = FALSE /\ MaintBegin("first", "check")
       \/ ready /\ ~immediate /\ MaintGoto("due") /\ UNCHANGED immediate
    /\ probeDue' = IF ready /\ immediate THEN FALSE ELSE probeDue
    /\ UNCHANGED <<conf, ready, failCount, wake, slots, refreshDue, disk, env>>

\* The freshly rebuilt dialer passed its probe: timers restart, onChange(true).
MaintConnected ==
    /\ pc[Maint] = "connected"
    /\ immediate' = FALSE /\ refreshDue' = FALSE /\ probeDue' = FALSE
    /\ MaintGoto("due")
    /\ UNCHANGED <<conf, ready, failCount, wake, slots, disk, env>>

\* Mutation of MaintUnprobed: the loop returns instead of retrying.
UnprobedReturns ==
    /\ pc[Maint] = "unprobed"
    /\ ready' = FALSE
    /\ MaintGoto("off")
    /\ UNCHANGED <<conf, failCount, wake, slots, timers, disk, env>>

\* The freshly rebuilt dialer failed its probe.
MaintUnprobed ==
    /\ pc[Maint] = "unprobed"
    /\ ready' = FALSE
    /\ MaintGoto("backoff")
    /\ UNCHANGED <<conf, failCount, wake, slots, timers, disk, env>>

\* refreshIfChanged when the refresh interval has passed: it reads the keys
\* under the read lock and returns at once for a static key.
MaintDue ==
    /\ pc[Maint] = "due"
    /\ \/ /\ refreshDue /\ refreshDue' = FALSE
          /\ accessKey \in DynamicKeys
          /\ Goto(Maint, "refetch")
          /\ task' = [task EXCEPT ![Maint] = "refresh"]
          /\ key' = [key EXCEPT ![Maint] = accessKey]
          /\ held' = [held EXCEPT ![Maint] = expandedKey]
          /\ UNCHANGED <<want, res>>
       \/ /\ refreshDue /\ refreshDue' = FALSE
          /\ accessKey \notin DynamicKeys
          /\ MaintGoto("probeCheck")
       \/ ~refreshDue /\ MaintGoto("probeCheck") /\ UNCHANGED refreshDue
    /\ UNCHANGED <<conf, ready, failCount, wake, slots, immediate, probeDue, disk, env>>

\* Mutation of MaintRefetch: a changed endpoint is noticed and not applied.
RefetchKeepsDialer ==
    /\ pc[Maint] = "refetch"
    /\ MaintGoto("probeCheck")
    /\ UNCHANGED <<conf, ready, failCount, wake, slots, timers, disk, env>>

\* refreshIfChanged fetches.  Unless the fetch gives another static key for
\* which a dialer can be built, nothing changes.
MaintRefetch ==
    /\ pc[Maint] = "refetch"
    /\ \/ /\ published[key[Maint]] # held[Maint]
          /\ held' = [held EXCEPT ![Maint] = published[key[Maint]]]
          /\ key' = [key EXCEPT ![Maint] = None]
          /\ Goto(Maint, "install")
          /\ UNCHANGED <<task, want, res>>
       \/ /\ FetchMayFail(Maint) \/ published[key[Maint]] = held[Maint]
          /\ MaintGoto("probeCheck")
    /\ UNCHANGED <<conf, ready, failCount, wake, slots, timers, disk, env>>

\* The dialer was replaced by a refresh: onChange(true) if still ready.
MaintRefreshed ==
    /\ pc[Maint] = "refreshed"
    /\ MaintGoto("probeCheck")
    /\ UNCHANGED <<conf, ready, failCount, wake, slots, timers, disk, env>>

MaintProbeCheck ==
    /\ pc[Maint] = "probeCheck"
    /\ \/ probeDue /\ probeDue' = FALSE /\ MaintBegin("tick", "check")
       \/ ~probeDue /\ MaintGoto("idle") /\ UNCHANGED probeDue
    /\ UNCHANGED <<conf, ready, failCount, wake, slots, immediate, refreshDue, disk, env>>

\* MaintainReady looks at what probe returned.  After a reconnect any error is
\* a failure; elsewhere an error matters only if the tunnel is not ready now.
MaintReturned ==
    /\ pc[Maint] = "returned"
    /\ \/ task[Maint] = "connect" /\ res[Maint] = "ok" /\ MaintGoto("connected")
       \/ task[Maint] = "connect" /\ res[Maint] # "ok" /\ MaintGoto("unprobed")
       \/ task[Maint] # "connect" /\ res[Maint] # "ok" /\ ~ready /\ MaintGoto("top")
       \/ /\ task[Maint] # "connect" /\ (res[Maint] = "ok" \/ ready)
          /\ MaintGoto(CASE task[Maint] = "first" -> "due"
                         [] task[Maint] = "refresh" -> "refreshed"
                         [] OTHER -> "idle")
    /\ UNCHANGED <<conf, ready, failCount, wake, slots, timers, disk, env>>

\* wait: the timer fires, or a kick is received; select may prefer either to a
\* context that is cancelled.
MaintWait ==
    /\ pc[Maint] \in {"idle", "backoff"}
    /\ wake' \in {FALSE, wake}
    /\ Goto(Maint, "top")
    /\ UNCHANGED <<conf, ready, failCount, slots, task, want, key, held, res, timers, disk, env>>

\* The context is cancelled: seen at the top of the loop and in wait.
MaintExit ==
    /\ pc[Maint] \in {"top", "idle", "backoff"} /\ stopped
    /\ MaintGoto("off")
    /\ UNCHANGED <<conf, ready, failCount, wake, slots, timers, disk, env>>

-----------------------------------------------------------------------------
(***************************************************************************)
(* Web UI: ReplaceAccessKey (SetAccessKey, then PersistAccessKey) and the  *)
(* Reconnect of "restart services".                                        *)
(***************************************************************************)

\* SetAccessKey validates the key (a rejected key changes nothing and is not
\* an input here) and stores it under the lock.
SetAccessKey(c, k) ==
    /\ pc[c] = "off" /\ Started /\ calls < MaxCalls
    /\ calls' = calls + 1
    /\ accessKey' = k
    /\ task' = [task EXCEPT ![c] = "set"]
    /\ want' = [want EXCEPT ![c] = k]
    /\ Goto(c, "clear")
    /\ UNCHANGED <<dialer, expandedKey, serverIP, ready, failCount, wake, slots, key, held, res,
                   timers, disk, published, net, stopped, rotations>>

\* Reconnect starts.
Reconnect(c) ==
    /\ pc[c] = "off" /\ Started /\ calls < MaxCalls
    /\ calls' = calls + 1
    /\ task' = [task EXCEPT ![c] = "reconnect"]
    /\ Goto(c, "clear")
    /\ UNCHANGED <<conf, ready, failCount, wake, slots, want, key, held, res, timers, disk,
                   published, net, stopped, rotations>>

\* ready.Store(false), in both.
CallerClear(c) ==
    /\ pc[c] = "clear"
    /\ ready' = FALSE
    /\ Goto(c, IF task[c] = "reconnect" THEN "zero" ELSE "read")
    /\ UNCHANGED <<conf, failCount, wake, slots, task, want, key, held, res, timers, disk, env>>

\* failCount.Store(0), in Reconnect.
CallerZero(c) ==
    /\ pc[c] = "zero"
    /\ failCount' = 0
    /\ Goto(c, "read")
    /\ UNCHANGED <<conf, ready, wake, slots, task, want, key, held, res, timers, disk, env>>

\* Reconnect looks at what probe returned.
CallerReturned(c) ==
    /\ pc[c] = "returned"
    /\ Goto(c, IF res[c] = "ok" THEN "wakeup" ELSE "unprobed")
    /\ UNCHANGED <<conf, ready, failCount, wake, slots, task, want, key, held, res, timers, disk,
                   env>>

CallerUnprobed(c) ==
    /\ pc[c] = "unprobed"
    /\ ready' = FALSE
    /\ Goto(c, "failed")
    /\ UNCHANGED <<conf, failCount, wake, slots, task, want, key, held, res, timers, disk, env>>

\* The last thing a successful Reconnect does.
CallerWakeup(c) ==
    /\ pc[c] = "wakeup"
    /\ wake' = TRUE
    /\ Finish(c)
    /\ UNCHANGED <<conf, ready, failCount, slots, timers, disk, env>>

\* SetAccessKey and Reconnect kick the supervisor and return their error.
CallerFailed(c) ==
    /\ pc[c] = "failed"
    /\ wake' = TRUE
    /\ \/ task[c] # "reconnect" /\ Finish(c)
       \/ /\ task[c] = "reconnect"
          /\ Goto(c, "reload")
          /\ UNCHANGED <<task, want, key, held, res>>
    /\ UNCHANGED <<conf, ready, failCount, slots, timers, disk, env>>

\* RestartServices after a failed Reconnect: load the configuration afresh
\* (the persisted key wins) and compare its key with the client's.
CallerReload(c) ==
    /\ pc[c] = "reload"
    /\ \/ diskKey = accessKey /\ Finish(c)
       \/ /\ diskKey # accessKey
          /\ task' = [task EXCEPT ![c] = "adopt"]
          /\ want' = [want EXCEPT ![c] = diskKey]
          /\ Goto(c, "adopt")
          /\ UNCHANGED <<key, held, res>>
    /\ UNCHANGED <<conf, ready, failCount, wake, slots, timers, disk, env>>

\* RestartServices calls SetAccessKey with the freshly loaded key.
CallerAdopt(c) ==
    /\ pc[c] = "adopt"
    /\ accessKey' = want[c]
    /\ Goto(c, "clear")
    /\ UNCHANGED <<dialer, expandedKey, serverIP, ready, failCount, wake, slots, task, want, key,
                   held, res, timers, disk, env>>

\* SetAccessKey returned nil.  ReplaceAccessKey then calls PersistAccessKey,
\* which replaces the file atomically, or fails and leaves it; RestartServices
\* has nothing to store.
CallerStore(c) ==
    /\ pc[c] = "store"
    /\ diskKey' \in (IF task[c] = "set" THEN {want[c]} ELSE {diskKey})
                   \cup IfFault("disk", diskKey)
    /\ Finish(c)
    /\ UNCHANGED <<conf, ready, failCount, wake, slots, timers, savedExpanded, env>>

-----------------------------------------------------------------------------
(***************************************************************************)
(* Environment: time, the network, the ssconf publisher, SIGTERM.          *)
(***************************************************************************)
RefreshTick ==
    /\ Refreshing /\ ~refreshDue /\ pc[Maint] = "idle"
    /\ refreshDue' = TRUE
    /\ UNCHANGED <<conf, ready, failCount, wake, slots, local, immediate, probeDue, disk, env>>

ProbeTick ==
    /\ Probing /\ ~probeDue /\ pc[Maint] = "idle"
    /\ probeDue' = TRUE
    /\ UNCHANGED <<conf, ready, failCount, wake, slots, local, immediate, refreshDue, disk, env>>

\* A flaky network settles for good: everything works, or no dial does and
\* every one runs into its deadline.
NetSettles ==
    /\ net = "flaky"
    /\ net' \in Settles
    /\ UNCHANGED <<conf, ready, failCount, wake, slots, local, timers, disk, published, stopped,
                   calls, rotations>>

Rotate(k, s) ==
    /\ rotations < MaxRotations /\ published[k] # s
    /\ published' = [published EXCEPT ![k] = s]
    /\ rotations' = rotations + 1
    /\ UNCHANGED <<conf, ready, failCount, wake, slots, local, timers, disk, net, stopped, calls>>

Stop ==
    /\ MayStop /\ ~stopped /\ Started
    /\ stopped' = TRUE
    /\ UNCHANGED <<conf, ready, failCount, wake, slots, local, timers, disk, published, net,
                   calls, rotations>>

Connecting(p) ==
    \/ ConnectRead(p) \/ ConnectExpand(p) \/ ApplyInstall(p) \/ ApplyReset(p)
    \/ ApplyUp(p) \/ ApplyPersist(p) \/ ConnectDown(p)

Dialing(p) ==
    \/ DialCheck(p) \/ DialAcquire(p) \/ DialGiveUp(p) \/ DialLoad(p) \/ DialRecheck(p)
    \/ DialResult(p) \/ SwapReady(p) \/ Kick(p) \/ DialRelease(p) \/ ProbeAgain(p)

Maintaining ==
    \/ MaintTop \/ MaintConnected \/ MaintUnprobed \/ MaintDue \/ MaintRefetch
    \/ MaintRefreshed \/ MaintProbeCheck \/ MaintReturned \/ MaintWait \/ MaintExit

Calling(c) ==
    \/ CallerClear(c) \/ CallerZero(c) \/ CallerReturned(c) \/ CallerUnprobed(c)
    \/ CallerWakeup(c) \/ CallerFailed(c) \/ CallerReload(c) \/ CallerAdopt(c)
    \/ CallerStore(c)

Next ==
    \/ \E p \in {Maint} \cup Callers : Connecting(p)
    \/ \E p \in Procs : Dialing(p)
    \/ \E p \in Dialers : DialStart(p)
    \/ Maintaining
    \/ \E c \in Callers : Calling(c)
    \/ \E c \in Callers : Reconnect(c) \/ \E k \in UserKeys : SetAccessKey(c, k)
    \/ RefreshTick \/ ProbeTick \/ NetSettles \/ Stop
    \/ \E k \in DynamicKeys, s \in StaticKeys : Rotate(k, s)

Spec == Init /\ [][Next]_vars

(***************************************************************************)
(* Fairness.  Every goroutine that can run eventually does, and every      *)
(* network call returns (all of them carry a deadline).  Blocked channel   *)
(* senders are served first come first served, so a dial that finds a slot *)
(* free again and again gets one.  The refresh and probe intervals elapse  *)
(* while the supervisor keeps passing through its wait.                    *)
(***************************************************************************)
Fairness ==
    /\ WF_vars(Maintaining)
    /\ \A p \in {Maint} \cup Callers : WF_vars(Connecting(p))
    /\ \A p \in Procs : WF_vars(Dialing(p)) /\ SF_vars(DialAcquire(p))
    /\ \A c \in Callers : WF_vars(Calling(c))
    /\ SF_vars(RefreshTick) /\ SF_vars(ProbeTick)

FairSpec == Spec /\ Fairness

-----------------------------------------------------------------------------
(***************************************************************************)
(* Properties.                                                             *)
(***************************************************************************)

\* The slot channel (client.go:46, acquire and release) counts exactly the
\* dials in flight: no path through DialContext leaks a slot or frees
\* another dial's, so at most SlotCap dials run at once.
SlotAccounting == slots = Cardinality(Holders)

\* The tunnel is never announced ready before a dialer is installed: whatever
\* the order in which supervisor, web UI and dials run, DialContext's nil test
\* never decides.
ReadyHasDialer == ready => dialer # None

\* A goroutine that will still publish a dialer or kick the supervisor.
Owes(p) ==
    \/ pc[p] \in {"kick", "kick2"}
    \/ /\ p \in Callers
       /\ \/ pc[p] \in {"read", "expand", "install", "reset", "up", "down", "zero", "failed"}
          \/ /\ task[p] = "reconnect"
             /\ pc[p] \in {"persist", "unprobed", "wakeup"} \cup DialLabels \cup ProbeLabels

\* No wakeup is lost: when the supervisor sleeps in its regular wait although
\* the tunnel is not ready, a kick is pending or some goroutine still owes one
\* (noteTunnelFailure, SetAccessKey, Reconnect).
NoLostWakeup ==
    pc[Maint] = "idle" /\ ~ready => wake \/ \E p \in Procs : Owes(p)

\* Ready (client.go:150) "reports whether a dialer is available and the failure
\* threshold has not been hit": while ready, the count is below the threshold
\* or the goroutine that reached it is about to clear ready.
ReadyBelowThreshold ==
    ready /\ failCount >= Threshold => \E p \in Procs : pc[p] \in {"swap", "swap2"}

\* SetAccessKey (client.go:212): when it returned nil, the dialer it installed
\* belongs to the key it was given.
SetKeyInstallsIt ==
    \A c \in Callers : pc[c] = "store" /\ task[c] = "set" =>
        \/ held[c] = want[c]
        \/ want[c] \in DynamicKeys /\ held[c] = published[want[c]]

\* config.go:378: the persisted key is there "so runtime key changes survive
\* container restarts".  When no call is running, a restart would load the key
\* the client uses.
DiskKeyIsCurrent ==
    (\A c \in Callers : pc[c] = "off") => diskKey = accessKey

\* Once the network works, the supervisor brings the tunnel up and it stays up,
\* whatever happened before.
EventuallyReady == <>[](net = "good" /\ ~stopped) => <>[]ready

\* A tunnel that carries nothing is found out, again and again: the probes of
\* MaintainReady reach the threshold.
DeadTunnelNoticed == <>[](net = "dead" /\ ~stopped) => []<>(~ready)

\* Once the network works, the dialer in use is the one the current access key
\* stands for.
KeyTakesEffect ==
    <>[](net = "good" /\ ~stopped) =>
        <>[](dialer = IF accessKey \in StaticKeys THEN accessKey ELSE published[accessKey])

\* MaintainReady returns once its context is cancelled.
SupervisorStops == stopped ~> pc[Maint] = "off"

-----------------------------------------------------------------------------
(***************************************************************************)
(* The inductive invariant behind the safety properties.                   *)
(***************************************************************************)

\* Which operations each kind of goroutine executes.
TaskInv ==
    /\ task[Maint] \in {"none", "boot", "connect", "first", "refresh", "tick"}
    /\ pc[Maint] \in {"read", "expand"} => task[Maint] # "refresh"
    /\ \A c \in Callers : task[c] \in {"none", "set", "adopt", "reconnect"}
    /\ \A d \in Dialers : task[d] \in {"none", "dial"}

\* What a goroutine holds at the labels where it is about to use it.
HeldInv ==
    \A p \in Procs :
        /\ pc[p] = "expand" => key[p] \in Keys
        /\ pc[p] = "refetch" => key[p] \in DynamicKeys
        /\ pc[p] = "install" => held[p] # None
        /\ pc[p] \in {"reset", "up"} => dialer # None
        /\ pc[p] = "adopt" => want[p] \in Keys
        /\ task[p] \in {"set", "adopt"} => want[p] \in Keys

\* The supervisor has seen the tunnel ready, or made it so, in this round of
\* its loop: whoever clears ready from now on must wake it.
Committed ==
    \/ pc[Maint] \in {"due", "refetch", "probeCheck", "idle", "connected", "refreshed",
                      "persist"} \cup DialLabels \cup ProbeLabels
    \/ task[Maint] = "refresh" /\ pc[Maint] \in {"install", "reset", "up"}

WakeInv == Committed /\ ~ready => wake \/ \E p \in Procs : Owes(p)

-----------------------------------------------------------------------------
(***************************************************************************)
(* The client is a tunnel (Tunnel.tla).                                    *)
(***************************************************************************)
\* How far a goroutine at label l is with a dial.
StageAt(l) ==
    IF l \in {"acquire", "load"} THEN "admitted"
    ELSE IF l = "recheck" THEN "taken"
    ELSE IF l = "dial" THEN "open"
    ELSE "idle"

DialStages == [p \in Procs |-> StageAt(pc[p])]
DialersTaken == [p \in Procs |-> IF StageAt(pc[p]) \in {"taken", "open"} THEN held[p] ELSE None]

Abstract == INSTANCE Tunnel WITH
    Users <- Procs, Values <- StaticKeys, NoDialer <- None,
    up <- ready, current <- dialer, stage <- DialStages, taken <- DialersTaken

\* DialContext (client.go:232-255) keeps what a backend promises: whatever the
\* supervisor, the web UI and other dials do in between, a dial or a probe begins
\* with a dialer that was installed after it was admitted, on a tunnel that is
\* ready at that moment; and no key change or reconnect leaves the tunnel ready
\* without a dialer.
IsTunnel == Abstract!TSpec
=============================================================================
