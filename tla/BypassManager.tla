---------------------------- MODULE BypassManager ----------------------------
(***************************************************************************)
(* The rule store and manager, internal/bypass/store.go and manager.go,    *)
(* with the web UI's rule handlers as callers.                             *)
(*                                                                         *)
(* Three locks are involved: Store.mu over the rules and the rules file,   *)
(* Manager.mu over {static, matcher, resolved}, and main's mu under which  *)
(* OnChange (rebuildPush) reads the effective nets into the routing        *)
(* engine.  No lock is held from one of these steps to the next, so web UI *)
(* requests, the refresh loop and a SIGHUP reload interleave between them. *)
(* A rule is a network rule (IP or CIDR) or a domain rule; sets of rules   *)
(* abstract the ordered lists, whose order only decides which matching     *)
(* rule is named in the log.  The operator may edit the rules file as well *)
(* (docs/OPERATIONS.md: an editor, then SIGHUP).                           *)
(***************************************************************************)
EXTENDS Integers, FiniteSets

CONSTANTS
    Callers,        \* web UI requests and the SIGHUP handler
    Loop,           \* RunRefreshLoop
    NetRules,       \* IP and CIDR rules; a rule stands for its network
    DomainRules,    \* domain and *.suffix rules; a rule stands for its host
    Addresses,      \* addresses DNS may answer
    StaticSets,     \* the values BYPASS_CIDRS may take, sets of networks
    None,           \* no goroutine
    DnsMayFail,     \* whether DNS may be out, so that lookups fail
    DiskMayFail,    \* whether reading and writing the rules file may fail
    MaxEdits,       \* bound: rule edits and reloads in a behaviour
    MaxDns,         \* bound: DNS changes and outages in a behaviour
    MaxCrashes      \* bound: crashes in a behaviour

Rules == NetRules \cup DomainRules
Procs == Callers \cup {Loop}
Nets == NetRules \cup Addresses \cup UNION StaticSets

ASSUME BypassAssumption ==
    /\ Loop \notin Callers /\ None \notin Procs
    /\ NetRules \cap DomainRules = {}
    /\ StaticSets # {}
    /\ DnsMayFail \in BOOLEAN /\ DiskMayFail \in BOOLEAN
    /\ MaxEdits \in Nat /\ MaxDns \in Nat /\ MaxCrashes \in Nat

VARIABLES
    rules, file,        \* Store.rules and the rules file
    writer,             \* the goroutine inside Store.mu, or None
    static, matcher, resolved,  \* under Manager.mu
    pushed,             \* the bypass list of the routing engine (rebuildPush)
    pc,                 \* next step of each goroutine
    copy,               \* the rules a goroutine is about to write, or has read
    found,              \* the addresses its lookups returned
    dns, dnsUp,         \* what DNS answers now, and whether it answers at all
    edits, changes, crashes,
    known               \* history: the content of the file is what this process last
                        \* read or wrote

locals == <<pc, copy, found>>
bounds == <<edits, changes, crashes>>
net == <<dns, dnsUp>>
vars == <<rules, file, writer, static, matcher, resolved, pushed, locals, net, bounds, known>>

Labels == {"off", "persist", "commit", "load", "read", "match", "snapshot", "lookup", "install",
           "notify", "notifyStatic"}

\* Types of the store's, the manager's and the goroutines' state.
TypeOK ==
    /\ rules \subseteq Rules /\ file \subseteq Rules /\ matcher \subseteq Rules
    /\ writer \in Procs \cup {None}
    /\ static \in StaticSets
    /\ resolved \subseteq Addresses
    /\ pushed \subseteq Nets
    /\ pc \in [Procs -> Labels]
    /\ copy \in [Procs -> SUBSET Rules]
    /\ found \in [Procs -> SUBSET Addresses]
    /\ dns \in [DomainRules -> SUBSET Addresses]
    /\ dnsUp \in BOOLEAN /\ known \in BOOLEAN
    /\ edits \in 0..MaxEdits /\ changes \in 0..MaxDns /\ crashes \in 0..MaxCrashes

\* DomainsToResolve and StaticNets.
DomainsToResolve(rs) == rs \cap DomainRules
StaticNets(rs) == rs \cap NetRules

\* EffectiveBypassNets
EffectiveBypassNets == static \cup StaticNets(rules) \cup resolved

\* What resolving hosts may return: a failed lookup contributes nothing, and while
\* DNS is out any of them may fail.
Lookups(hosts) ==
    {UNION {dns[h] : h \in ok} : ok \in IF dnsUp THEN {hosts} ELSE SUBSET hosts}

\* Whether Store.Load succeeds: the file may be unreadable, or hold a line that is
\* no rule.
Reads == IF DiskMayFail THEN BOOLEAN ELSE {TRUE}

(***************************************************************************)
(* main creates the manager and calls Load before anything else runs: the  *)
(* rules file is read, the matcher built, the domains resolved, and the    *)
(* first engine made from the effective nets.  If the file cannot be read  *)
(* main only warns: the manager stays as NewManager made it, without rules.*)
(***************************************************************************)
Boot(read) ==
    /\ rules = IF read THEN file ELSE {}
    /\ matcher = rules
    /\ known = read
    /\ static \in StaticSets
    /\ resolved \in Lookups(DomainsToResolve(rules))
    /\ pushed = EffectiveBypassNets
    /\ writer = None
    /\ pc = [p \in Procs |-> "off"]
    /\ copy = [p \in Procs |-> {}]
    /\ found = [p \in Procs |-> {}]

Init ==
    /\ dns \in [DomainRules -> {A \in SUBSET Addresses : Cardinality(A) = 1}]
    /\ dnsUp \in IF DnsMayFail THEN BOOLEAN ELSE {TRUE}
    /\ file \in SUBSET Rules
    /\ \E read \in Reads : Boot(read)
    /\ edits = 0 /\ changes = 0 /\ crashes = 0

-----------------------------------------------------------------------------
Goto(p, l) == pc' = [pc EXCEPT ![p] = l]

\* Take Store.mu and start to persist the new list; an RWMutex writer waits
\* for the one before it.
Persist(p, new) ==
    /\ writer' = p
    /\ copy' = [copy EXCEPT ![p] = new]
    /\ Goto(p, "persist")

\* POST: AddRule.  A rule that is already there is not written again, the
\* matcher is rebuilt and DNS refreshed all the same.
AddRule(p, r) ==
    /\ pc[p] = "off" /\ writer = None /\ edits < MaxEdits
    /\ edits' = edits + 1
    /\ \/ r \notin rules /\ Persist(p, rules \cup {r})
       \/ r \in rules /\ Goto(p, "read") /\ UNCHANGED <<writer, copy>>
    /\ UNCHANGED <<rules, file, static, matcher, resolved, pushed, found, net, changes,
                   crashes, known>>

\* DELETE: RemoveRule of a rule that is there (another is answered 404).
RemoveRule(p, r) ==
    /\ pc[p] = "off" /\ writer = None /\ edits < MaxEdits
    /\ r \in rules
    /\ edits' = edits + 1
    /\ Persist(p, rules \ {r})
    /\ UNCHANGED <<rules, file, static, matcher, resolved, pushed, found, net, changes,
                   crashes, known>>

\* PUT: SetRules with a list that parses.
SetRules(p, new) ==
    /\ pc[p] = "off" /\ writer = None /\ edits < MaxEdits
    /\ edits' = edits + 1
    /\ Persist(p, new)
    /\ UNCHANGED <<rules, file, static, matcher, resolved, pushed, found, net, changes,
                   crashes, known>>

\* Mutation of PersistFile: memory is changed first, whatever the disk says.
PersistAfterMemory(p) ==
    /\ pc[p] = "persist"
    /\ rules' = copy[p]
    /\ \/ file' = copy[p] /\ known' = TRUE
       \/ DiskMayFail /\ UNCHANGED <<file, known>>
    /\ writer' = None
    /\ Goto(p, "read")
    /\ UNCHANGED <<static, matcher, resolved, pushed, copy, found, net, bounds>>

\* persistLocked: the temporary file replaces the rules file, or the request
\* fails and nothing has changed.
PersistFile(p) ==
    /\ pc[p] = "persist"
    /\ \/ /\ file' = copy[p]
          /\ known' = TRUE
          /\ Goto(p, "commit")
          /\ UNCHANGED <<writer, copy>>
       \/ /\ DiskMayFail
          /\ writer' = None
          /\ copy' = [copy EXCEPT ![p] = {}]
          /\ Goto(p, "off")
          /\ UNCHANGED <<file, known>>
    /\ UNCHANGED <<rules, static, matcher, resolved, pushed, found, net, bounds>>

\* s.rules = next, and the lock is released.
Commit(p) ==
    /\ pc[p] = "commit"
    /\ rules' = copy[p]
    /\ writer' = None
    /\ copy' = [copy EXCEPT ![p] = {}]
    /\ Goto(p, "read")
    /\ UNCHANGED <<file, static, matcher, resolved, pushed, found, net, bounds,
                   known>>

\* rebuildMatcher reads the rules under Store.mu ...
RebuildRead(p) ==
    /\ pc[p] = "read" /\ writer = None
    /\ copy' = [copy EXCEPT ![p] = rules]
    /\ Goto(p, "match")
    /\ UNCHANGED <<rules, file, writer, static, matcher, resolved, pushed, found, net, bounds,
                   known>>

\* ... and installs the matcher under Manager.mu.
RebuildInstall(p) ==
    /\ pc[p] = "match"
    /\ matcher' = copy[p]
    /\ copy' = [copy EXCEPT ![p] = {}]
    /\ Goto(p, "snapshot")
    /\ UNCHANGED <<rules, file, writer, static, resolved, pushed, found, net, bounds,
                   known>>

\* Refresh reads the rules,
RefreshRead(p) ==
    /\ pc[p] = "snapshot" /\ writer = None
    /\ copy' = [copy EXCEPT ![p] = rules]
    /\ Goto(p, "lookup")
    /\ UNCHANGED <<rules, file, writer, static, matcher, resolved, pushed, found, net, bounds,
                   known>>

\* Mutation of RefreshLookup: what was resolved before is kept.
LookupAccumulates(p) ==
    /\ pc[p] = "lookup"
    /\ \E a \in Lookups(DomainsToResolve(copy[p])) :
         found' = [found EXCEPT ![p] = a \cup resolved]
    /\ copy' = [copy EXCEPT ![p] = {}]
    /\ Goto(p, "install")
    /\ UNCHANGED <<rules, file, writer, static, matcher, resolved, pushed, net, bounds, known>>

\* resolves their domains without a lock,
RefreshLookup(p) ==
    /\ pc[p] = "lookup"
    /\ \E a \in Lookups(DomainsToResolve(copy[p])) : found' = [found EXCEPT ![p] = a]
    /\ copy' = [copy EXCEPT ![p] = {}]
    /\ Goto(p, "install")
    /\ UNCHANGED <<rules, file, writer, static, matcher, resolved, pushed, net, bounds, known>>

\* Mutation of RefreshInstall: the change is computed after the assignment.
InstallWithoutNotify(p) ==
    /\ pc[p] = "install"
    /\ resolved' = found[p]
    /\ found' = [found EXCEPT ![p] = {}]
    /\ Goto(p, "off")
    /\ UNCHANGED <<rules, file, writer, static, matcher, pushed, copy, net, bounds, known>>

\* and installs the addresses; OnChange runs only if they differ.
RefreshInstall(p) ==
    /\ pc[p] = "install"
    /\ resolved' = found[p]
    /\ found' = [found EXCEPT ![p] = {}]
    /\ Goto(p, IF resolved = found[p] THEN "off" ELSE "notify")
    /\ UNCHANGED <<rules, file, writer, static, matcher, pushed, copy, net, bounds, known>>

\* notify: rebuildPush makes a new engine from the effective nets of now.
\* SetStatic's notify is followed by the Load of the reload.
Notify(p) ==
    /\ pc[p] \in {"notify", "notifyStatic"} /\ writer = None
    /\ pushed' = EffectiveBypassNets
    /\ Goto(p, IF pc[p] = "notify" THEN "off" ELSE "load")
    /\ UNCHANGED <<rules, file, writer, static, matcher, resolved, copy, found, net, bounds, known>>

\* POST apply: Refresh alone.
Apply(p) ==
    /\ pc[p] = "off" /\ edits < MaxEdits
    /\ edits' = edits + 1
    /\ Goto(p, "snapshot")
    /\ UNCHANGED <<rules, file, writer, static, matcher, resolved, pushed, copy, found, net,
                   changes, crashes, known>>

\* SIGHUP: SetStatic,
Reload(p, nets) ==
    /\ pc[p] = "off" /\ edits < MaxEdits
    /\ edits' = edits + 1
    /\ static' = nets
    /\ Goto(p, "notifyStatic")
    /\ UNCHANGED <<rules, file, writer, matcher, resolved, pushed, copy, found, net, changes,
                   crashes, known>>

\* then Load: Store.Load, rebuildMatcher and Refresh.  If the file cannot be read
\* the rules stay and Load returns at once; the handler only logs it.
LoadFile(p) ==
    /\ pc[p] = "load" /\ writer = None
    /\ \/ /\ rules' = file
          /\ known' = TRUE
          /\ Goto(p, "read")
       \/ /\ DiskMayFail
          /\ Goto(p, "off")
          /\ UNCHANGED <<rules, known>>
    /\ UNCHANGED <<file, writer, static, matcher, resolved, pushed, copy, found, net, bounds>>

\* RunRefreshLoop: the ticker fires.
LoopTick ==
    /\ pc[Loop] = "off"
    /\ Goto(Loop, "snapshot")
    /\ UNCHANGED <<rules, file, writer, static, matcher, resolved, pushed, copy, found, net,
                   bounds, known>>

DnsChange(h, a) ==
    /\ changes < MaxDns /\ dns[h] # {a}
    /\ dns' = [dns EXCEPT ![h] = {a}]
    /\ changes' = changes + 1
    /\ UNCHANGED <<dnsUp, known>>
    /\ UNCHANGED <<rules, file, writer, static, matcher, resolved, pushed, locals, edits, crashes>>

\* DNS goes out, or is back.
DnsOutage ==
    /\ DnsMayFail
    /\ \/ dnsUp /\ changes < MaxDns /\ changes' = changes + 1
       \/ ~dnsUp /\ UNCHANGED changes
    /\ dnsUp' = ~dnsUp
    /\ UNCHANGED <<rules, file, writer, static, matcher, resolved, pushed, locals, dns, edits,
                   crashes, known>>

\* The operator saves another rules file.
EditFile(f) ==
    /\ edits < MaxEdits /\ f # file
    /\ edits' = edits + 1
    /\ file' = f
    /\ known' = FALSE
    /\ UNCHANGED <<rules, writer, static, matcher, resolved, pushed, locals, net, changes,
                   crashes>>

\* The process dies anywhere and is started again: only the file is left.
Crash ==
    /\ crashes < MaxCrashes
    /\ crashes' = crashes + 1
    /\ \E read \in Reads : known' = read /\ rules' = IF read THEN file ELSE {}
    /\ matcher' = rules'
    /\ static' \in StaticSets
    /\ resolved' \in Lookups(DomainsToResolve(rules'))
    /\ pushed' = static' \cup StaticNets(rules') \cup resolved'
    /\ writer' = None
    /\ pc' = [p \in Procs |-> "off"]
    /\ copy' = [p \in Procs |-> {}]
    /\ found' = [p \in Procs |-> {}]
    /\ UNCHANGED <<file, net, edits, changes>>

Working(p) ==
    \/ PersistFile(p) \/ Commit(p) \/ RebuildRead(p) \/ RebuildInstall(p)
    \/ RefreshRead(p) \/ RefreshLookup(p) \/ RefreshInstall(p) \/ Notify(p) \/ LoadFile(p)

Next ==
    \/ \E p \in Callers, r \in Rules : AddRule(p, r) \/ RemoveRule(p, r)
    \/ \E p \in Callers, new \in SUBSET Rules : SetRules(p, new)
    \/ \E p \in Callers : Apply(p)
    \/ \E p \in Callers, nets \in StaticSets : Reload(p, nets)
    \/ \E p \in Procs : Working(p)
    \/ LoopTick
    \/ \E h \in DomainRules, a \in Addresses : DnsChange(h, a)
    \/ DnsOutage
    \/ \E f \in SUBSET Rules : EditFile(f)
    \/ Crash

Spec == Init /\ [][Next]_vars

\* Goroutines run, locks are handed over, lookups return, and the ticker of
\* RunRefreshLoop keeps firing.
Fairness ==
    /\ \A p \in Procs : WF_vars(Working(p))
    /\ WF_vars(LoopTick)

FairSpec == Spec /\ Fairness

-----------------------------------------------------------------------------
\* Whenever no request is inside the store, the rules file holds exactly the
\* rules in memory (persistLocked before the assignment), so a crash anywhere
\* loses no acknowledged edit and revives no removed rule.  This is said of a file
\* this process has read or written, and nobody has edited since: one that could
\* not be read leaves memory as it was.
DiskIsMemory == (writer = None /\ known) => file = rules

\* A goroutine that will still rebuild the matcher.
Rebuilding(p) == pc[p] \in {"persist", "commit", "notifyStatic", "load", "read", "match"}

\* SOCKS "matches hostnames reliably" (docs/routing.md:35): once no request is
\* on its way to rebuildMatcher, the matcher in use is that of the rules.
MatcherIsCurrent == (\A p \in Procs : ~Rebuilding(p)) => matcher = rules

\* The addresses the current domain rules resolve to.
Wanted == UNION {dns[h] : h \in DomainsToResolve(rules)}

\* A refresh that raced an edit or a DNS change is made good by a later one:
\* from some point on the resolved addresses are those of the current rules.  So
\* is one that lost addresses to an outage, once DNS answers for good.
ResolvedFollowsRules == <>[]dnsUp => <>[](resolved = Wanted)

\* "Web UI / API updates BYPASS_RULES_FILE immediately and triggers DNS refresh
\* + nft update" (docs/routing.md:84): from some point on the engine and the
\* nft sets carry the effective nets, if DNS answers for good.
EngineFollowsRules == <>[]dnsUp => <>[](pushed = EffectiveBypassNets)
=============================================================================
