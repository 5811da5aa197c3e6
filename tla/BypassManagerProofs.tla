-------------------------- MODULE BypassManagerProofs --------------------------
(***************************************************************************)
(* Proofs about BypassManager, for any number of callers, rules, addresses *)
(* and edits, with failing disks, an operator who edits the file, and      *)
(* crashes.                                                                *)
(***************************************************************************)
EXTENDS BypassManager, TLAPS

-----------------------------------------------------------------------------
(***************************************************************************)
(* Types.                                                                  *)
(***************************************************************************)
\* Lookups of known hosts answer known addresses.
LEMMA LookupsAreAddresses ==
    ASSUME dns \in [DomainRules -> SUBSET Addresses],
           NEW hosts \in SUBSET DomainRules, NEW a \in Lookups(hosts)
    PROVE  a \subseteq Addresses
<1>1. PICK ok \in SUBSET hosts : a = UNION {dns[h] : h \in ok}
  BY DEF Lookups
<1> QED
  BY <1>1

\* main starts with a loaded manager and an engine of its nets.
LEMMA TypeInit == Init => TypeOK
<1> SUFFICES ASSUME Init PROVE TypeOK
  OBVIOUS
<1>1. dns \in [DomainRules -> SUBSET Addresses]
  BY DEF Init
<1>2. /\ file \subseteq Rules /\ rules \subseteq Rules /\ matcher = rules
      /\ writer = None /\ static \in StaticSets
  BY DEF Init, Boot
<1>3. resolved \subseteq Addresses
  <2>1. resolved \in Lookups(rules \cap DomainRules)
    BY DEF Init, Boot, DomainsToResolve
  <2> QED
    BY <1>1, <2>1, LookupsAreAddresses
<1>4. pushed \subseteq Nets
  <2>1. pushed = EffectiveBypassNets
    BY DEF Init, Boot
  <2> QED
    BY <2>1, <1>2, <1>3 DEF EffectiveBypassNets, StaticNets, Nets
<1>5. pc \in [Procs -> Labels]
  BY DEF Init, Boot, Labels
<1>6. copy \in [Procs -> SUBSET Rules] /\ found \in [Procs -> SUBSET Addresses]
  BY DEF Init, Boot
<1>7. edits \in 0..MaxEdits /\ changes \in 0..MaxDns /\ crashes \in 0..MaxCrashes
  <2>1. edits = 0 /\ changes = 0 /\ crashes = 0
    BY DEF Init
  <2> QED
    BY <2>1, BypassAssumption
<1>8. dnsUp \in BOOLEAN /\ known \in BOOLEAN
  BY DEF Init, Boot, Reads
<1> QED
  BY <1>1, <1>2, <1>3, <1>4, <1>5, <1>6, <1>7, <1>8 DEF TypeOK

\* Every step of a caller, the refresh loop, DNS or a crash keeps the types.
LEMMA TypeStep == TypeOK /\ [Next]_vars => TypeOK'
<1> SUFFICES ASSUME TypeOK, [Next]_vars PROVE TypeOK'
  OBVIOUS
<1> USE BypassAssumption DEF TypeOK, Procs, Rules, Nets, Labels, Goto, locals, bounds, net
<1>1. ASSUME NEW p \in Callers, NEW r \in Rules, AddRule(p, r) PROVE TypeOK'
  BY <1>1 DEF AddRule, Persist
<1>2. ASSUME NEW p \in Callers, NEW r \in Rules, RemoveRule(p, r) PROVE TypeOK'
  BY <1>2 DEF RemoveRule, Persist
<1>3. ASSUME NEW p \in Callers, NEW new \in SUBSET Rules, SetRules(p, new) PROVE TypeOK'
  BY <1>3 DEF SetRules, Persist
<1>4. ASSUME NEW p \in Callers, Apply(p) PROVE TypeOK'
  BY <1>4 DEF Apply
<1>5. ASSUME NEW p \in Callers, NEW nets \in StaticSets, Reload(p, nets) PROVE TypeOK'
  BY <1>5 DEF Reload
<1>6. ASSUME NEW p \in Procs, PersistFile(p) PROVE TypeOK'
  BY <1>6 DEF PersistFile
<1>7. ASSUME NEW p \in Procs, Commit(p) PROVE TypeOK'
  BY <1>7 DEF Commit
<1>8. ASSUME NEW p \in Procs, RebuildRead(p) PROVE TypeOK'
  BY <1>8 DEF RebuildRead
<1>9. ASSUME NEW p \in Procs, RebuildInstall(p) PROVE TypeOK'
  BY <1>9 DEF RebuildInstall
<1>10. ASSUME NEW p \in Procs, RefreshRead(p) PROVE TypeOK'
  BY <1>10 DEF RefreshRead
<1>11. ASSUME NEW p \in Procs, RefreshLookup(p) PROVE TypeOK'
  <2>1. ASSUME NEW a \in Lookups(DomainsToResolve(copy[p])) PROVE a \subseteq Addresses
    BY <2>1, LookupsAreAddresses DEF DomainsToResolve
  <2> QED
    BY <1>11, <2>1 DEF RefreshLookup
<1>12. ASSUME NEW p \in Procs, RefreshInstall(p) PROVE TypeOK'
  BY <1>12 DEF RefreshInstall
<1>13. ASSUME NEW p \in Procs, Notify(p) PROVE TypeOK'
  <2>1. EffectiveBypassNets \subseteq Nets
    BY DEF EffectiveBypassNets, StaticNets
  <2> QED
    BY <1>13, <2>1 DEF Notify
<1>14. ASSUME NEW p \in Procs, LoadFile(p) PROVE TypeOK'
  BY <1>14 DEF LoadFile
<1>15. CASE LoopTick
  BY <1>15 DEF LoopTick
<1>16. ASSUME NEW h \in DomainRules, NEW a \in Addresses, DnsChange(h, a) PROVE TypeOK'
  BY <1>16 DEF DnsChange
<1>17. CASE DnsOutage
  BY <1>17 DEF DnsOutage
<1>18. ASSUME NEW f \in SUBSET Rules, EditFile(f) PROVE TypeOK'
  <2>1. file' \subseteq Rules /\ known' \in BOOLEAN
    BY <1>18 DEF EditFile
  <2>2. edits' \in 0..MaxEdits
    BY <1>18 DEF EditFile
  <2> QED
    BY <1>18, <2>1, <2>2 DEF EditFile
<1>19. CASE Crash
  <2>0. rules' \subseteq Rules /\ known' \in BOOLEAN
    BY <1>19 DEF Crash, Reads
  <2>1. resolved' \subseteq Addresses
    BY <1>19, <2>0, LookupsAreAddresses DEF Crash, DomainsToResolve
  <2>2. pushed' \subseteq Nets
    BY <1>19, <2>0, <2>1 DEF Crash, StaticNets
  <2> QED
    BY <1>19, <2>0, <2>1, <2>2 DEF Crash
<1>20. CASE UNCHANGED vars
  BY <1>20 DEF vars
<1> QED
  BY <1>1, <1>2, <1>3, <1>4, <1>5, <1>6, <1>7, <1>8, <1>9, <1>10, <1>11, <1>12, <1>13,
     <1>14, <1>15, <1>16, <1>17, <1>18, <1>19, <1>20
  DEF Next, Working

\* The store, the manager and the engine are well typed in every state.
THEOREM TypeCorrect == Spec => []TypeOK
  BY TypeInit, TypeStep, PTL DEF Spec

-----------------------------------------------------------------------------
(***************************************************************************)
(* The rules file.                                                         *)
(***************************************************************************)
\* Store.mu is held by the one goroutine between persistLocked and the
\* assignment, and memory and a file whose content this process knows differ
\* only between those two.
StoreInv ==
    /\ \A p \in Procs : pc[p] \in {"persist", "commit"} <=> writer = p
    /\ \A p \in Procs : pc[p] = "persist" /\ known => file = rules
    /\ \A p \in Procs : pc[p] = "commit" /\ known => file = copy[p]
    /\ DiskIsMemory

\* Load leaves in memory what the file holds, if it can be read.
LEMMA StoreInit == Init => StoreInv
  BY BypassAssumption DEF Init, Boot, StoreInv, DiskIsMemory, Procs

\* Add, Remove, Set and Load keep file and memory together.
LEMMA StoreStep == TypeOK /\ StoreInv /\ [Next]_vars => StoreInv'
<1> SUFFICES ASSUME TypeOK, StoreInv, [Next]_vars PROVE StoreInv'
  OBVIOUS
<1> USE BypassAssumption DEF TypeOK, StoreInv, DiskIsMemory, Procs, Goto, locals, bounds, net
<1>1. ASSUME NEW p \in Callers, NEW r \in Rules, AddRule(p, r) PROVE StoreInv'
  BY <1>1 DEF AddRule, Persist
<1>2. ASSUME NEW p \in Callers, NEW r \in Rules, RemoveRule(p, r) PROVE StoreInv'
  BY <1>2 DEF RemoveRule, Persist
<1>3. ASSUME NEW p \in Callers, NEW new \in SUBSET Rules, SetRules(p, new) PROVE StoreInv'
  BY <1>3 DEF SetRules, Persist
<1>4. ASSUME NEW p \in Callers, Apply(p) PROVE StoreInv'
  BY <1>4 DEF Apply
<1>5. ASSUME NEW p \in Callers, NEW nets \in StaticSets, Reload(p, nets) PROVE StoreInv'
  BY <1>5 DEF Reload
<1>6. ASSUME NEW p \in Procs, PersistFile(p) PROVE StoreInv'
  BY <1>6 DEF PersistFile
<1>7. ASSUME NEW p \in Procs, Commit(p) PROVE StoreInv'
  BY <1>7 DEF Commit
<1>8. ASSUME NEW p \in Procs, RebuildRead(p) PROVE StoreInv'
  BY <1>8 DEF RebuildRead
<1>9. ASSUME NEW p \in Procs, RebuildInstall(p) PROVE StoreInv'
  BY <1>9 DEF RebuildInstall
<1>10. ASSUME NEW p \in Procs, RefreshRead(p) PROVE StoreInv'
  BY <1>10 DEF RefreshRead
<1>11. ASSUME NEW p \in Procs, RefreshLookup(p) PROVE StoreInv'
  BY <1>11 DEF RefreshLookup
<1>12. ASSUME NEW p \in Procs, RefreshInstall(p) PROVE StoreInv'
  BY <1>12 DEF RefreshInstall
<1>13. ASSUME NEW p \in Procs, Notify(p) PROVE StoreInv'
  BY <1>13 DEF Notify
<1>14. ASSUME NEW p \in Procs, LoadFile(p) PROVE StoreInv'
  BY <1>14 DEF LoadFile
<1>15. CASE LoopTick
  BY <1>15 DEF LoopTick
<1>16. ASSUME NEW h \in DomainRules, NEW a \in Addresses, DnsChange(h, a) PROVE StoreInv'
  BY <1>16 DEF DnsChange
<1>17. CASE DnsOutage
  BY <1>17 DEF DnsOutage
<1>18. ASSUME NEW f \in SUBSET Rules, EditFile(f) PROVE StoreInv'
  BY <1>18 DEF EditFile
<1>19. CASE Crash
  BY <1>19 DEF Crash
<1>20. CASE UNCHANGED vars
  BY <1>20 DEF vars
<1> QED
  BY <1>1, <1>2, <1>3, <1>4, <1>5, <1>6, <1>7, <1>8, <1>9, <1>10, <1>11, <1>12, <1>13,
     <1>14, <1>15, <1>16, <1>17, <1>18, <1>19, <1>20
  DEF Next, Working

\* Whenever no request is inside the store, a rules file the process has read or
\* written, and nobody has edited since, holds exactly the rules in memory
\* (persistLocked, Store.Add, Remove, Set and Load), whatever read or write fails
\* and wherever the process dies.
THEOREM FileFollowsMemory == Spec => []DiskIsMemory
<1>1. StoreInv => DiskIsMemory
  BY DEF StoreInv
<1> QED
  BY <1>1, TypeInit, TypeStep, StoreInit, StoreStep, PTL DEF Spec
=============================================================================
