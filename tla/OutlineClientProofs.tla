-------------------------- MODULE OutlineClientProofs --------------------------
(***************************************************************************)
(* Proofs about OutlineClient, for every set of goroutines and keys, every *)
(* threshold and every slot capacity.                                      *)
(***************************************************************************)
EXTENDS OutlineClient, FiniteSetTheorems, TLAPS

\* Facts about the shapes of the state that every action relies on.
StateInv == TypeOK /\ TaskInv /\ HeldInv

(***************************************************************************)
(* Types, and what goroutines hold (New, Connect, SetAccessKey, probe...). *)
(***************************************************************************)
\* The initial state is well typed.
LEMMA StateInit == Init => StateInv
<1> SUFFICES ASSUME Init PROVE StateInv
  OBVIOUS
<1>1. FlagsOK
  BY ClientAssumption DEF Init, FlagsOK
<1>2. DataOK
  BY ClientAssumption DEF Init, DataOK, Keys
<1>3. LocalsOK
  BY ClientAssumption
  DEF Init, LocalsOK, Procs, Labels, ConnectLabels, MaintLabels, Tasks, Outcomes
<1>4. TaskInv /\ HeldInv
  BY ClientAssumption DEF Init, TaskInv, HeldInv, Procs
<1> QED
  BY <1>1, <1>2, <1>3, <1>4 DEF StateInv, TypeOK

\* Every step of every goroutine keeps the state well typed.
LEMMA StateStep == StateInv /\ [Next]_vars => StateInv'
<1> SUFFICES ASSUME StateInv, [Next]_vars PROVE StateInv'
  OBVIOUS
<1> USE ClientAssumption DEF StateInv, TypeOK, FlagsOK, DataOK, LocalsOK, TaskInv, HeldInv,
   Keys, Procs, Labels,
      ConnectLabels, DialLabels, Holding, ProbeLabels, MaintLabels, CallerLabels, Tasks, Outcomes,
      Goto, conf, timers, disk, env, local
<1>1. ASSUME NEW p \in {Maint} \cup Callers, ConnectRead(p) PROVE StateInv'
  BY <1>1 DEF ConnectRead
<1>2. ASSUME NEW p \in {Maint} \cup Callers, ConnectExpand(p) PROVE StateInv'
  BY <1>2 DEF ConnectExpand, Expansions
<1>3. ASSUME NEW p \in {Maint} \cup Callers, ApplyInstall(p) PROVE StateInv'
  BY <1>3 DEF ApplyInstall, IfFault
<1>4. ASSUME NEW p \in {Maint} \cup Callers, ApplyReset(p) PROVE StateInv'
  BY <1>4 DEF ApplyReset
<1>5. ASSUME NEW p \in {Maint} \cup Callers, ApplyUp(p) PROVE StateInv'
  BY <1>5 DEF ApplyUp
<1>6. ASSUME NEW p \in {Maint} \cup Callers, ApplyPersist(p) PROVE StateInv'
  BY <1>6 DEF ApplyPersist, IfFault, AfterConnect
<1>7. ASSUME NEW p \in {Maint} \cup Callers, ConnectDown(p) PROVE StateInv'
  <2>1. FlagsOK'
    BY <1>7 DEF ConnectDown, AfterFailure
  <2>2. (DataOK /\ LocalsOK)'
    BY <1>7 DEF ConnectDown, AfterFailure
  <2>3. TaskInv'
    BY <1>7 DEF ConnectDown, AfterFailure
  <2>4. HeldInv'
    BY <1>7 DEF ConnectDown, AfterFailure
  <2> QED
    BY <2>1, <2>2, <2>3, <2>4
<1>8. ASSUME NEW p \in Procs, DialCheck(p) PROVE StateInv'
  BY <1>8 DEF DialCheck, Finish
<1>9. ASSUME NEW p \in Procs, DialAcquire(p) PROVE StateInv'
  BY <1>9 DEF DialAcquire
<1>10. ASSUME NEW p \in Procs, DialGiveUp(p) PROVE StateInv'
  BY <1>10 DEF DialGiveUp, Finish
<1>11. ASSUME NEW p \in Procs, DialLoad(p) PROVE StateInv'
  BY <1>11 DEF DialLoad
<1>12. ASSUME NEW p \in Procs, DialRecheck(p) PROVE StateInv'
  BY <1>12 DEF DialRecheck
<1>13. ASSUME NEW p \in Procs, DialResult(p) PROVE StateInv'
  BY <1>13 DEF DialResult, DialOutcomes, CountFailure
<1>14. ASSUME NEW p \in Procs, SwapReady(p) PROVE StateInv'
  <2>1. FlagsOK'
    BY <1>14 DEF SwapReady
  <2>2. (DataOK /\ LocalsOK)'
    BY <1>14 DEF SwapReady
  <2>3. TaskInv'
    BY <1>14 DEF SwapReady
  <2>4. HeldInv'
    BY <1>14 DEF SwapReady
  <2> QED
    BY <2>1, <2>2, <2>3, <2>4
<1>15. ASSUME NEW p \in Procs, Kick(p) PROVE StateInv'
  BY <1>15 DEF Kick
<1>16. ASSUME NEW p \in Procs, DialRelease(p) PROVE StateInv'
  BY <1>16 DEF DialRelease, Finish
<1>17. ASSUME NEW p \in Procs, ProbeAgain(p) PROVE StateInv'
  BY <1>17 DEF ProbeAgain, CountFailure
<1>18. ASSUME NEW p \in Dialers, DialStart(p) PROVE StateInv'
  BY <1>18 DEF DialStart
<1>19. ASSUME MaintTop PROVE StateInv'
  <2>1. FlagsOK'
    BY <1>19 DEF MaintTop, MaintBegin, MaintGoto
  <2>2. (DataOK /\ LocalsOK)'
    BY <1>19 DEF MaintTop, MaintBegin, MaintGoto
  <2>3. TaskInv'
    BY <1>19 DEF MaintTop, MaintBegin, MaintGoto
  <2>4. HeldInv'
    BY <1>19 DEF MaintTop, MaintBegin, MaintGoto
  <2> QED
    BY <2>1, <2>2, <2>3, <2>4
<1>20. ASSUME MaintConnected PROVE StateInv'
  <2>1. FlagsOK'
    BY <1>20 DEF MaintConnected, MaintGoto
  <2>2. (DataOK /\ LocalsOK)'
    BY <1>20 DEF MaintConnected, MaintGoto
  <2>3. TaskInv'
    BY <1>20 DEF MaintConnected, MaintGoto
  <2>4. HeldInv'
    BY <1>20 DEF MaintConnected, MaintGoto
  <2> QED
    BY <2>1, <2>2, <2>3, <2>4
<1>21. ASSUME MaintUnprobed PROVE StateInv'
  <2>1. FlagsOK'
    BY <1>21 DEF MaintUnprobed, MaintGoto
  <2>2. (DataOK /\ LocalsOK)'
    BY <1>21 DEF MaintUnprobed, MaintGoto
  <2>3. TaskInv'
    BY <1>21 DEF MaintUnprobed, MaintGoto
  <2>4. HeldInv'
    BY <1>21 DEF MaintUnprobed, MaintGoto
  <2> QED
    BY <2>1, <2>2, <2>3, <2>4
<1>22. ASSUME MaintDue PROVE StateInv'
  <2>1. FlagsOK'
    BY <1>22 DEF MaintDue, MaintGoto
  <2>2. (DataOK /\ LocalsOK)'
    BY <1>22 DEF MaintDue, MaintGoto
  <2>3. TaskInv'
    BY <1>22 DEF MaintDue, MaintGoto
  <2>4. HeldInv'
    BY <1>22 DEF MaintDue, MaintGoto
  <2> QED
    BY <2>1, <2>2, <2>3, <2>4
<1>23. ASSUME MaintRefetch PROVE StateInv'
  BY <1>23 DEF MaintRefetch, MaintGoto
<1>24. ASSUME MaintRefreshed PROVE StateInv'
  BY <1>24 DEF MaintRefreshed, MaintGoto
<1>25. ASSUME MaintProbeCheck PROVE StateInv'
  <2>1. FlagsOK'
    BY <1>25 DEF MaintProbeCheck, MaintBegin, MaintGoto
  <2>2. (DataOK /\ LocalsOK)'
    BY <1>25 DEF MaintProbeCheck, MaintBegin, MaintGoto
  <2>3. TaskInv'
    BY <1>25 DEF MaintProbeCheck, MaintBegin, MaintGoto
  <2>4. HeldInv'
    BY <1>25 DEF MaintProbeCheck, MaintBegin, MaintGoto
  <2> QED
    BY <2>1, <2>2, <2>3, <2>4
<1>26. ASSUME MaintReturned PROVE StateInv'
  BY <1>26 DEF MaintReturned, MaintGoto
<1>27. ASSUME MaintWait PROVE StateInv'
  <2>1. FlagsOK'
    BY <1>27 DEF MaintWait
  <2>2. (DataOK /\ LocalsOK)'
    BY <1>27 DEF MaintWait
  <2>3. TaskInv'
    BY <1>27 DEF MaintWait
  <2>4. HeldInv'
    BY <1>27 DEF MaintWait
  <2> QED
    BY <2>1, <2>2, <2>3, <2>4
<1>28. ASSUME MaintExit PROVE StateInv'
  BY <1>28 DEF MaintExit, MaintGoto
<1>29. ASSUME NEW c \in Callers, CallerClear(c) PROVE StateInv'
  <2>1. FlagsOK'
    BY <1>29 DEF CallerClear
  <2>2. (DataOK /\ LocalsOK)'
    BY <1>29 DEF CallerClear
  <2>3. TaskInv'
    BY <1>29 DEF CallerClear
  <2>4. HeldInv'
    BY <1>29 DEF CallerClear
  <2> QED
    BY <2>1, <2>2, <2>3, <2>4
<1>30. ASSUME NEW c \in Callers, CallerZero(c) PROVE StateInv'
  BY <1>30 DEF CallerZero
<1>31. ASSUME NEW c \in Callers, CallerReturned(c) PROVE StateInv'
  BY <1>31 DEF CallerReturned
<1>32. ASSUME NEW c \in Callers, CallerUnprobed(c) PROVE StateInv'
  <2>1. FlagsOK'
    BY <1>32 DEF CallerUnprobed
  <2>2. (DataOK /\ LocalsOK)'
    BY <1>32 DEF CallerUnprobed
  <2>3. TaskInv'
    BY <1>32 DEF CallerUnprobed
  <2>4. HeldInv'
    BY <1>32 DEF CallerUnprobed
  <2> QED
    BY <2>1, <2>2, <2>3, <2>4
<1>33. ASSUME NEW c \in Callers, CallerWakeup(c) PROVE StateInv'
  BY <1>33 DEF CallerWakeup, Finish
<1>34. ASSUME NEW c \in Callers, CallerFailed(c) PROVE StateInv'
  BY <1>34 DEF CallerFailed, Finish
<1>35. ASSUME NEW c \in Callers, CallerReload(c) PROVE StateInv'
  BY <1>35 DEF CallerReload, Finish
<1>36. ASSUME NEW c \in Callers, CallerAdopt(c) PROVE StateInv'
  <2>1. FlagsOK'
    BY <1>36 DEF CallerAdopt
  <2>2. (DataOK /\ LocalsOK)'
    BY <1>36 DEF CallerAdopt
  <2>3. TaskInv'
    BY <1>36 DEF CallerAdopt
  <2>4. HeldInv'
    BY <1>36 DEF CallerAdopt
  <2> QED
    BY <2>1, <2>2, <2>3, <2>4
<1>37. ASSUME NEW c \in Callers, CallerStore(c) PROVE StateInv'
  BY <1>37 DEF CallerStore, Finish, IfFault
<1>38. ASSUME NEW c \in Callers, Reconnect(c) PROVE StateInv'
  BY <1>38 DEF Reconnect
<1>39. ASSUME NEW c \in Callers, NEW k \in UserKeys, SetAccessKey(c, k) PROVE StateInv'
  BY <1>39 DEF SetAccessKey
<1>40. ASSUME RefreshTick PROVE StateInv'
  BY <1>40 DEF RefreshTick
<1>41. ASSUME ProbeTick PROVE StateInv'
  BY <1>41 DEF ProbeTick
<1>42. ASSUME NetSettles PROVE StateInv'
  BY <1>42 DEF NetSettles
<1>43. ASSUME Stop PROVE StateInv'
  BY <1>43 DEF Stop
<1>44. ASSUME NEW k \in DynamicKeys, NEW s \in StaticKeys, Rotate(k, s) PROVE StateInv'
  BY <1>44 DEF Rotate
<1>45. CASE UNCHANGED vars
  BY <1>45 DEF vars
<1> QED
    BY <1>1, <1>2, <1>3, <1>4, <1>5, <1>6, <1>7, <1>8, <1>9, <1>10, <1>11, <1>12, <1>13,
       <1>14, <1>15, <1>16, <1>17, <1>18, <1>19, <1>20, <1>21, <1>22, <1>23, <1>24, <1>25,
       <1>26, <1>27, <1>28, <1>29, <1>30, <1>31, <1>32, <1>33, <1>34, <1>35, <1>36, <1>37,
       <1>38, <1>39, <1>40, <1>41, <1>42, <1>43, <1>44, <1>45
       DEF Next, Connecting, Dialing, Maintaining, Calling

\* TypeOK holds in every reachable state.
THEOREM TypeCorrect == Spec => []TypeOK
<1>1. Spec => []StateInv
  BY StateInit, StateStep, PTL DEF Spec
<1> QED
  BY <1>1, PTL DEF StateInv

(***************************************************************************)
(* ReadyHasDialer.                                                         *)
(***************************************************************************)
\* No step leaves the tunnel ready without a dialer: dialer is written before
\* ready is set, and never cleared (applyExpanded).
LEMMA ReadyHasDialerStep ==
  StateInv /\ ReadyHasDialer /\ [Next]_vars => ReadyHasDialer'
<1> SUFFICES ASSUME StateInv, ReadyHasDialer, [Next]_vars PROVE ReadyHasDialer'
  OBVIOUS
<1> USE DEF ReadyHasDialer, conf
<1>1. ASSUME NEW p \in {Maint} \cup Callers, ConnectRead(p) PROVE ReadyHasDialer'
  BY <1>1 DEF ConnectRead
<1>2. ASSUME NEW p \in {Maint} \cup Callers, ConnectExpand(p) PROVE ReadyHasDialer'
  BY <1>2 DEF ConnectExpand
<1>3. ASSUME NEW p \in {Maint} \cup Callers, ApplyInstall(p) PROVE ReadyHasDialer'
  BY <1>3, ClientAssumption DEF ApplyInstall, StateInv, HeldInv, Procs
<1>4. ASSUME NEW p \in {Maint} \cup Callers, ApplyReset(p) PROVE ReadyHasDialer'
  BY <1>4 DEF ApplyReset
<1>5. ASSUME NEW p \in {Maint} \cup Callers, ApplyUp(p) PROVE ReadyHasDialer'
  BY <1>5, ClientAssumption DEF ApplyUp, StateInv, HeldInv, Procs
<1>6. ASSUME NEW p \in {Maint} \cup Callers, ApplyPersist(p) PROVE ReadyHasDialer'
  BY <1>6 DEF ApplyPersist
<1>7. ASSUME NEW p \in {Maint} \cup Callers, ConnectDown(p) PROVE ReadyHasDialer'
  BY <1>7 DEF ConnectDown
<1>8. ASSUME NEW p \in Procs, DialCheck(p) PROVE ReadyHasDialer'
  BY <1>8 DEF DialCheck
<1>9. ASSUME NEW p \in Procs, DialAcquire(p) PROVE ReadyHasDialer'
  BY <1>9 DEF DialAcquire
<1>10. ASSUME NEW p \in Procs, DialGiveUp(p) PROVE ReadyHasDialer'
  BY <1>10 DEF DialGiveUp
<1>11. ASSUME NEW p \in Procs, DialLoad(p) PROVE ReadyHasDialer'
  BY <1>11 DEF DialLoad
<1>12. ASSUME NEW p \in Procs, DialRecheck(p) PROVE ReadyHasDialer'
  BY <1>12 DEF DialRecheck
<1>13. ASSUME NEW p \in Procs, DialResult(p) PROVE ReadyHasDialer'
  BY <1>13 DEF DialResult
<1>14. ASSUME NEW p \in Procs, SwapReady(p) PROVE ReadyHasDialer'
  BY <1>14 DEF SwapReady
<1>15. ASSUME NEW p \in Procs, Kick(p) PROVE ReadyHasDialer'
  BY <1>15 DEF Kick
<1>16. ASSUME NEW p \in Procs, DialRelease(p) PROVE ReadyHasDialer'
  BY <1>16 DEF DialRelease
<1>17. ASSUME NEW p \in Procs, ProbeAgain(p) PROVE ReadyHasDialer'
  BY <1>17 DEF ProbeAgain
<1>18. ASSUME NEW p \in Dialers, DialStart(p) PROVE ReadyHasDialer'
  BY <1>18 DEF DialStart
<1>19. ASSUME MaintTop PROVE ReadyHasDialer'
  BY <1>19 DEF MaintTop
<1>20. ASSUME MaintConnected PROVE ReadyHasDialer'
  BY <1>20 DEF MaintConnected
<1>21. ASSUME MaintUnprobed PROVE ReadyHasDialer'
  BY <1>21 DEF MaintUnprobed
<1>22. ASSUME MaintDue PROVE ReadyHasDialer'
  BY <1>22 DEF MaintDue
<1>23. ASSUME MaintRefetch PROVE ReadyHasDialer'
  BY <1>23 DEF MaintRefetch
<1>24. ASSUME MaintRefreshed PROVE ReadyHasDialer'
  BY <1>24 DEF MaintRefreshed
<1>25. ASSUME MaintProbeCheck PROVE ReadyHasDialer'
  BY <1>25 DEF MaintProbeCheck
<1>26. ASSUME MaintReturned PROVE ReadyHasDialer'
  BY <1>26 DEF MaintReturned
<1>27. ASSUME MaintWait PROVE ReadyHasDialer'
  BY <1>27 DEF MaintWait
<1>28. ASSUME MaintExit PROVE ReadyHasDialer'
  BY <1>28 DEF MaintExit
<1>29. ASSUME NEW c \in Callers, CallerClear(c) PROVE ReadyHasDialer'
  BY <1>29 DEF CallerClear
<1>30. ASSUME NEW c \in Callers, CallerZero(c) PROVE ReadyHasDialer'
  BY <1>30 DEF CallerZero
<1>31. ASSUME NEW c \in Callers, CallerReturned(c) PROVE ReadyHasDialer'
  BY <1>31 DEF CallerReturned
<1>32. ASSUME NEW c \in Callers, CallerUnprobed(c) PROVE ReadyHasDialer'
  BY <1>32 DEF CallerUnprobed
<1>33. ASSUME NEW c \in Callers, CallerWakeup(c) PROVE ReadyHasDialer'
  BY <1>33 DEF CallerWakeup
<1>34. ASSUME NEW c \in Callers, CallerFailed(c) PROVE ReadyHasDialer'
  BY <1>34 DEF CallerFailed
<1>35. ASSUME NEW c \in Callers, CallerReload(c) PROVE ReadyHasDialer'
  BY <1>35 DEF CallerReload
<1>36. ASSUME NEW c \in Callers, CallerAdopt(c) PROVE ReadyHasDialer'
  BY <1>36 DEF CallerAdopt
<1>37. ASSUME NEW c \in Callers, CallerStore(c) PROVE ReadyHasDialer'
  BY <1>37 DEF CallerStore
<1>38. ASSUME NEW c \in Callers, Reconnect(c) PROVE ReadyHasDialer'
  BY <1>38 DEF Reconnect
<1>39. ASSUME NEW c \in Callers, NEW k \in UserKeys, SetAccessKey(c, k) PROVE ReadyHasDialer'
  BY <1>39 DEF SetAccessKey
<1>40. ASSUME RefreshTick PROVE ReadyHasDialer'
  BY <1>40 DEF RefreshTick
<1>41. ASSUME ProbeTick PROVE ReadyHasDialer'
  BY <1>41 DEF ProbeTick
<1>42. ASSUME NetSettles PROVE ReadyHasDialer'
  BY <1>42 DEF NetSettles
<1>43. ASSUME Stop PROVE ReadyHasDialer'
  BY <1>43 DEF Stop
<1>44. ASSUME NEW k \in DynamicKeys, NEW s \in StaticKeys, Rotate(k, s) PROVE ReadyHasDialer'
  BY <1>44 DEF Rotate
<1>45. CASE UNCHANGED vars
  BY <1>45 DEF vars
<1> QED
    BY <1>1, <1>2, <1>3, <1>4, <1>5, <1>6, <1>7, <1>8, <1>9, <1>10, <1>11, <1>12, <1>13,
       <1>14, <1>15, <1>16, <1>17, <1>18, <1>19, <1>20, <1>21, <1>22, <1>23, <1>24, <1>25,
       <1>26, <1>27, <1>28, <1>29, <1>30, <1>31, <1>32, <1>33, <1>34, <1>35, <1>36, <1>37,
       <1>38, <1>39, <1>40, <1>41, <1>42, <1>43, <1>44, <1>45
       DEF Next, Connecting, Dialing, Maintaining, Calling
\* ReadyHasDialer holds in every reachable state.
THEOREM ReadyImpliesDialer == Spec => []ReadyHasDialer
<1>1. Init => ReadyHasDialer
  BY DEF Init, ReadyHasDialer
<1> QED
  BY <1>1, StateInit, StateStep, ReadyHasDialerStep, PTL DEF Spec

(***************************************************************************)
(* SlotAccounting.                                                         *)
(***************************************************************************)
\* Slot holders are finitely many.
LEMMA HoldersFinite == IsFiniteSet(Holders)
<1>1. IsFiniteSet({Maint})
  BY FS_Singleton
<1>2. IsFiniteSet(Procs)
  BY <1>1, FS_Union, ClientAssumption DEF Procs
<1> QED
  BY <1>2, FS_Subset DEF Holders

\* Every step keeps the accounts: acquire adds its goroutine to the holders,
\* release removes it, nothing else crosses the border of Holding.
LEMMA SlotStep == StateInv /\ SlotAccounting /\ [Next]_vars => SlotAccounting'
<1> SUFFICES ASSUME StateInv, SlotAccounting, [Next]_vars PROVE SlotAccounting'
  OBVIOUS
<1>a. /\ pc \in [Procs -> Labels] /\ Maint \in Procs
      /\ Callers \subseteq Procs /\ Dialers \subseteq Procs
  BY DEF StateInv, TypeOK, LocalsOK, Procs
<1> USE <1>a
<1>1. ASSUME NEW p \in {Maint} \cup Callers, ConnectRead(p) PROVE SlotAccounting'
  <2>1. Holders' = Holders
    BY <1>1 DEF ConnectRead, Goto, Holders, Holding
  <2> QED
    BY <1>1, <2>1 DEF ConnectRead, SlotAccounting
<1>2. ASSUME NEW p \in {Maint} \cup Callers, ConnectExpand(p) PROVE SlotAccounting'
  <2>1. Holders' = Holders
    BY <1>2 DEF ConnectExpand, Goto, Holders, Holding
  <2> QED
    BY <1>2, <2>1 DEF ConnectExpand, SlotAccounting
<1>3. ASSUME NEW p \in {Maint} \cup Callers, ApplyInstall(p) PROVE SlotAccounting'
  <2>1. Holders' = Holders
    BY <1>3 DEF ApplyInstall, Goto, Holders, Holding
  <2> QED
    BY <1>3, <2>1 DEF ApplyInstall, SlotAccounting
<1>4. ASSUME NEW p \in {Maint} \cup Callers, ApplyReset(p) PROVE SlotAccounting'
  <2>1. Holders' = Holders
    BY <1>4 DEF ApplyReset, Goto, Holders, Holding
  <2> QED
    BY <1>4, <2>1 DEF ApplyReset, SlotAccounting
<1>5. ASSUME NEW p \in {Maint} \cup Callers, ApplyUp(p) PROVE SlotAccounting'
  <2>1. Holders' = Holders
    BY <1>5 DEF ApplyUp, Goto, Holders, Holding
  <2> QED
    BY <1>5, <2>1 DEF ApplyUp, SlotAccounting
<1>6. ASSUME NEW p \in {Maint} \cup Callers, ApplyPersist(p) PROVE SlotAccounting'
  <2>1. Holders' = Holders
    BY <1>6 DEF ApplyPersist, AfterConnect, Goto, Holders, Holding
  <2> QED
    BY <1>6, <2>1 DEF ApplyPersist, SlotAccounting
<1>7. ASSUME NEW p \in {Maint} \cup Callers, ConnectDown(p) PROVE SlotAccounting'
  <2>1. Holders' = Holders
    BY <1>7 DEF ConnectDown, AfterFailure, Goto, Holders, Holding
  <2> QED
    BY <1>7, <2>1 DEF ConnectDown, SlotAccounting
<1>8. ASSUME NEW p \in Procs, DialCheck(p) PROVE SlotAccounting'
  <2>1. Holders' = Holders
    BY <1>8 DEF DialCheck, Finish, Goto, Holders, Holding
  <2> QED
    BY <1>8, <2>1 DEF DialCheck, SlotAccounting
<1>9. ASSUME NEW p \in Procs, DialAcquire(p) PROVE SlotAccounting'
  <2>1. Holders' = Holders \cup {p} /\ p \notin Holders
    BY <1>9 DEF DialAcquire, Goto, Holders, Holding
  <2>2. Cardinality(Holders \cup {p}) = Cardinality(Holders) + 1
    BY <2>1, HoldersFinite, FS_AddElement
  <2> QED
    BY <1>9, <2>1, <2>2 DEF DialAcquire, SlotAccounting
<1>10. ASSUME NEW p \in Procs, DialGiveUp(p) PROVE SlotAccounting'
  <2>1. Holders' = Holders
    BY <1>10 DEF DialGiveUp, Finish, Goto, Holders, Holding
  <2> QED
    BY <1>10, <2>1 DEF DialGiveUp, SlotAccounting
<1>11. ASSUME NEW p \in Procs, DialLoad(p) PROVE SlotAccounting'
  <2>1. Holders' = Holders
    BY <1>11 DEF DialLoad, Goto, Holders, Holding
  <2> QED
    BY <1>11, <2>1 DEF DialLoad, SlotAccounting
<1>12. ASSUME NEW p \in Procs, DialRecheck(p) PROVE SlotAccounting'
  <2>1. Holders' = Holders
    BY <1>12 DEF DialRecheck, Goto, Holders, Holding
  <2> QED
    BY <1>12, <2>1 DEF DialRecheck, SlotAccounting
<1>13. ASSUME NEW p \in Procs, DialResult(p) PROVE SlotAccounting'
  <2>1. Holders' = Holders
    BY <1>13 DEF DialResult, CountFailure, Goto, Holders, Holding
  <2> QED
    BY <1>13, <2>1 DEF DialResult, SlotAccounting
<1>14. ASSUME NEW p \in Procs, SwapReady(p) PROVE SlotAccounting'
  <2>1. Holders' = Holders
    BY <1>14 DEF SwapReady, Goto, Holders, Holding
  <2> QED
    BY <1>14, <2>1 DEF SwapReady, SlotAccounting
<1>15. ASSUME NEW p \in Procs, Kick(p) PROVE SlotAccounting'
  <2>1. Holders' = Holders
    BY <1>15 DEF Kick, Goto, Holders, Holding
  <2> QED
    BY <1>15, <2>1 DEF Kick, SlotAccounting
<1>16. ASSUME NEW p \in Procs, DialRelease(p) PROVE SlotAccounting'
  <2>1. Holders' = Holders \ {p} /\ p \in Holders
    BY <1>16 DEF DialRelease, Finish, Goto, Holders, Holding
  <2>2. Cardinality(Holders \ {p}) = Cardinality(Holders) - 1
    BY <2>1, HoldersFinite, FS_RemoveElement
  <2>3. Cardinality(Holders) # 0
    BY <2>1, HoldersFinite, FS_EmptySet
  <2>4. slots \in Nat
    BY ClientAssumption DEF StateInv, TypeOK, DataOK
  <2> QED
    BY <1>16, <2>1, <2>2, <2>3, <2>4 DEF DialRelease, SlotAccounting
<1>17. ASSUME NEW p \in Procs, ProbeAgain(p) PROVE SlotAccounting'
  <2>1. Holders' = Holders
    BY <1>17 DEF ProbeAgain, CountFailure, Goto, Holders, Holding
  <2> QED
    BY <1>17, <2>1 DEF ProbeAgain, SlotAccounting
<1>18. ASSUME NEW p \in Dialers, DialStart(p) PROVE SlotAccounting'
  <2>1. Holders' = Holders
    BY <1>18 DEF DialStart, Goto, Holders, Holding
  <2> QED
    BY <1>18, <2>1 DEF DialStart, SlotAccounting
<1>19. ASSUME MaintTop PROVE SlotAccounting'
  <2>1. Holders' = Holders
    BY <1>19 DEF MaintTop, MaintBegin, MaintGoto, Goto, Holders, Holding
  <2> QED
    BY <1>19, <2>1 DEF MaintTop, SlotAccounting
<1>20. ASSUME MaintConnected PROVE SlotAccounting'
  <2>1. Holders' = Holders
    BY <1>20 DEF MaintConnected, MaintGoto, Goto, Holders, Holding
  <2> QED
    BY <1>20, <2>1 DEF MaintConnected, SlotAccounting
<1>21. ASSUME MaintUnprobed PROVE SlotAccounting'
  <2>1. Holders' = Holders
    BY <1>21 DEF MaintUnprobed, MaintGoto, Goto, Holders, Holding
  <2> QED
    BY <1>21, <2>1 DEF MaintUnprobed, SlotAccounting
<1>22. ASSUME MaintDue PROVE SlotAccounting'
  <2>1. Holders' = Holders
    BY <1>22 DEF MaintDue, MaintGoto, Goto, Holders, Holding
  <2> QED
    BY <1>22, <2>1 DEF MaintDue, SlotAccounting
<1>23. ASSUME MaintRefetch PROVE SlotAccounting'
  <2>1. Holders' = Holders
    BY <1>23 DEF MaintRefetch, MaintGoto, Goto, Holders, Holding
  <2> QED
    BY <1>23, <2>1 DEF MaintRefetch, SlotAccounting
<1>24. ASSUME MaintRefreshed PROVE SlotAccounting'
  <2>1. Holders' = Holders
    BY <1>24 DEF MaintRefreshed, MaintGoto, Goto, Holders, Holding
  <2> QED
    BY <1>24, <2>1 DEF MaintRefreshed, SlotAccounting
<1>25. ASSUME MaintProbeCheck PROVE SlotAccounting'
  <2>1. Holders' = Holders
    BY <1>25 DEF MaintProbeCheck, MaintBegin, MaintGoto, Goto, Holders, Holding
  <2> QED
    BY <1>25, <2>1 DEF MaintProbeCheck, SlotAccounting
<1>26. ASSUME MaintReturned PROVE SlotAccounting'
  <2>1. Holders' = Holders
    BY <1>26 DEF MaintReturned, MaintGoto, Goto, Holders, Holding
  <2> QED
    BY <1>26, <2>1 DEF MaintReturned, SlotAccounting
<1>27. ASSUME MaintWait PROVE SlotAccounting'
  <2>1. Holders' = Holders
    BY <1>27 DEF MaintWait, Goto, Holders, Holding
  <2> QED
    BY <1>27, <2>1 DEF MaintWait, SlotAccounting
<1>28. ASSUME MaintExit PROVE SlotAccounting'
  <2>1. Holders' = Holders
    BY <1>28 DEF MaintExit, MaintGoto, Goto, Holders, Holding
  <2> QED
    BY <1>28, <2>1 DEF MaintExit, SlotAccounting
<1>29. ASSUME NEW c \in Callers, CallerClear(c) PROVE SlotAccounting'
  <2>1. Holders' = Holders
    BY <1>29 DEF CallerClear, Goto, Holders, Holding
  <2> QED
    BY <1>29, <2>1 DEF CallerClear, SlotAccounting
<1>30. ASSUME NEW c \in Callers, CallerZero(c) PROVE SlotAccounting'
  <2>1. Holders' = Holders
    BY <1>30 DEF CallerZero, Goto, Holders, Holding
  <2> QED
    BY <1>30, <2>1 DEF CallerZero, SlotAccounting
<1>31. ASSUME NEW c \in Callers, CallerReturned(c) PROVE SlotAccounting'
  <2>1. Holders' = Holders
    BY <1>31 DEF CallerReturned, Goto, Holders, Holding
  <2> QED
    BY <1>31, <2>1 DEF CallerReturned, SlotAccounting
<1>32. ASSUME NEW c \in Callers, CallerUnprobed(c) PROVE SlotAccounting'
  <2>1. Holders' = Holders
    BY <1>32 DEF CallerUnprobed, Goto, Holders, Holding
  <2> QED
    BY <1>32, <2>1 DEF CallerUnprobed, SlotAccounting
<1>33. ASSUME NEW c \in Callers, CallerWakeup(c) PROVE SlotAccounting'
  <2>1. Holders' = Holders
    BY <1>33 DEF CallerWakeup, Finish, Goto, Holders, Holding
  <2> QED
    BY <1>33, <2>1 DEF CallerWakeup, SlotAccounting
<1>34. ASSUME NEW c \in Callers, CallerFailed(c) PROVE SlotAccounting'
  <2>1. Holders' = Holders
    BY <1>34 DEF CallerFailed, Finish, Goto, Holders, Holding
  <2> QED
    BY <1>34, <2>1 DEF CallerFailed, SlotAccounting
<1>35. ASSUME NEW c \in Callers, CallerReload(c) PROVE SlotAccounting'
  <2>1. Holders' = Holders
    BY <1>35 DEF CallerReload, Finish, Goto, Holders, Holding
  <2> QED
    BY <1>35, <2>1 DEF CallerReload, SlotAccounting
<1>36. ASSUME NEW c \in Callers, CallerAdopt(c) PROVE SlotAccounting'
  <2>1. Holders' = Holders
    BY <1>36 DEF CallerAdopt, Goto, Holders, Holding
  <2> QED
    BY <1>36, <2>1 DEF CallerAdopt, SlotAccounting
<1>37. ASSUME NEW c \in Callers, CallerStore(c) PROVE SlotAccounting'
  <2>1. Holders' = Holders
    BY <1>37 DEF CallerStore, Finish, Goto, Holders, Holding
  <2> QED
    BY <1>37, <2>1 DEF CallerStore, SlotAccounting
<1>38. ASSUME NEW c \in Callers, Reconnect(c) PROVE SlotAccounting'
  <2>1. Holders' = Holders
    BY <1>38 DEF Reconnect, Goto, Holders, Holding
  <2> QED
    BY <1>38, <2>1 DEF Reconnect, SlotAccounting
<1>39. ASSUME NEW c \in Callers, NEW k \in UserKeys, SetAccessKey(c, k) PROVE SlotAccounting'
  <2>1. Holders' = Holders
    BY <1>39 DEF SetAccessKey, Goto, Holders, Holding
  <2> QED
    BY <1>39, <2>1 DEF SetAccessKey, SlotAccounting
<1>40. ASSUME RefreshTick PROVE SlotAccounting'
  <2>1. Holders' = Holders
    BY <1>40 DEF RefreshTick, local, Holders
  <2> QED
    BY <1>40, <2>1 DEF RefreshTick, SlotAccounting
<1>41. ASSUME ProbeTick PROVE SlotAccounting'
  <2>1. Holders' = Holders
    BY <1>41 DEF ProbeTick, local, Holders
  <2> QED
    BY <1>41, <2>1 DEF ProbeTick, SlotAccounting
<1>42. ASSUME NetSettles PROVE SlotAccounting'
  <2>1. Holders' = Holders
    BY <1>42 DEF NetSettles, local, Holders
  <2> QED
    BY <1>42, <2>1 DEF NetSettles, SlotAccounting
<1>43. ASSUME Stop PROVE SlotAccounting'
  <2>1. Holders' = Holders
    BY <1>43 DEF Stop, local, Holders
  <2> QED
    BY <1>43, <2>1 DEF Stop, SlotAccounting
<1>44. ASSUME NEW k \in DynamicKeys, NEW s \in StaticKeys, Rotate(k, s) PROVE SlotAccounting'
  <2>1. Holders' = Holders
    BY <1>44 DEF Rotate, local, Holders
  <2> QED
    BY <1>44, <2>1 DEF Rotate, SlotAccounting
<1>45. CASE UNCHANGED vars
  <2>1. Holders' = Holders
    BY <1>45 DEF vars, local, Holders
  <2> QED
    BY <1>45, <2>1 DEF vars, SlotAccounting
<1> QED
    BY <1>1, <1>2, <1>3, <1>4, <1>5, <1>6, <1>7, <1>8, <1>9, <1>10, <1>11, <1>12, <1>13,
       <1>14, <1>15, <1>16, <1>17, <1>18, <1>19, <1>20, <1>21, <1>22, <1>23, <1>24, <1>25,
       <1>26, <1>27, <1>28, <1>29, <1>30, <1>31, <1>32, <1>33, <1>34, <1>35, <1>36, <1>37,
       <1>38, <1>39, <1>40, <1>41, <1>42, <1>43, <1>44, <1>45
       DEF Next, Connecting, Dialing, Maintaining, Calling

\* SlotAccounting holds in every reachable state.
THEOREM SlotsCountDials == Spec => []SlotAccounting
<1>1. Init => SlotAccounting
  <2> SUFFICES ASSUME Init PROVE SlotAccounting
    OBVIOUS
  <2>1. Holders = {}
    BY DEF Init, Holders, Holding, Procs
  <2> QED
    BY <2>1, FS_EmptySet DEF Init, SlotAccounting
<1> QED
  BY <1>1, StateInit, StateStep, SlotStep, PTL DEF Spec

(***************************************************************************)
(* NoLostWakeup.                                                           *)
(***************************************************************************)
\* No step breaks WakeInv: a step that clears ready under a committed
\* supervisor makes its goroutine owe a kick, and a debt ends only with the
\* kick itself or with ready set again.
LEMMA WakeStep == StateInv /\ WakeInv /\ [Next]_vars => WakeInv'
<1> SUFFICES ASSUME StateInv, WakeInv, [Next]_vars, Committed', ~ready'
             PROVE  wake' \/ \E p \in Procs : Owes(p)'
  BY DEF WakeInv
<1>a. /\ pc \in [Procs -> Labels] /\ task \in [Procs -> Tasks]
      /\ Maint \in Procs /\ Callers \subseteq Procs /\ Dialers \subseteq Procs
      /\ Maint \notin Callers /\ Maint \notin Dialers /\ Callers \cap Dialers = {}
  BY ClientAssumption DEF StateInv, TypeOK, LocalsOK, Procs
<1>b. Committed /\ ~ready => wake \/ \E p \in Procs : Owes(p)
  BY DEF WakeInv
<1> USE <1>a, <1>b
<1>1. ASSUME NEW p \in {Maint} \cup Callers, ConnectRead(p) PROVE wake' \/ \E q \in Procs : Owes(q)'
  <2>1. Committed' /\ ~ready' => Committed /\ ~ready
    BY <1>1 DEF ConnectRead, Goto, Committed, DialLabels, Holding, ProbeLabels
  <2>2. \A q \in Procs : Owes(q) => wake' \/ ready' \/ Owes(q)'
    BY <1>1 DEF ConnectRead, Goto, Owes, DialLabels, Holding, ProbeLabels
  <2>3. wake => wake'
    BY <1>1 DEF ConnectRead
  <2> QED
    BY <2>1, <2>2, <2>3
<1>2. ASSUME NEW p \in {Maint} \cup Callers, ConnectExpand(p)
      PROVE wake' \/ \E q \in Procs : Owes(q)'
  <2>1. Committed' /\ ~ready' => Committed /\ ~ready
    BY <1>2 DEF ConnectExpand, StateInv, TaskInv, Goto, Committed, DialLabels, Holding,
       ProbeLabels
  <2>2. \A q \in Procs : Owes(q) => wake' \/ ready' \/ Owes(q)'
    BY <1>2 DEF ConnectExpand, Goto, Owes, DialLabels, Holding, ProbeLabels
  <2>3. wake => wake'
    BY <1>2 DEF ConnectExpand
  <2> QED
    BY <2>1, <2>2, <2>3
<1>3. ASSUME NEW p \in {Maint} \cup Callers, ApplyInstall(p)
      PROVE wake' \/ \E q \in Procs : Owes(q)'
  <2>1. Committed' /\ ~ready' => Committed /\ ~ready
    BY <1>3 DEF ApplyInstall, Goto, Committed, DialLabels, Holding, ProbeLabels
  <2>2. \A q \in Procs : Owes(q) => wake' \/ ready' \/ Owes(q)'
    BY <1>3 DEF ApplyInstall, Goto, Owes, DialLabels, Holding, ProbeLabels
  <2>3. wake => wake'
    BY <1>3 DEF ApplyInstall
  <2> QED
    BY <2>1, <2>2, <2>3
<1>4. ASSUME NEW p \in {Maint} \cup Callers, ApplyReset(p) PROVE wake' \/ \E q \in Procs : Owes(q)'
  <2>1. Committed' /\ ~ready' => Committed /\ ~ready
    BY <1>4 DEF ApplyReset, Goto, Committed, DialLabels, Holding, ProbeLabels
  <2>2. \A q \in Procs : Owes(q) => wake' \/ ready' \/ Owes(q)'
    BY <1>4 DEF ApplyReset, Goto, Owes, DialLabels, Holding, ProbeLabels
  <2>3. wake => wake'
    BY <1>4 DEF ApplyReset
  <2> QED
    BY <2>1, <2>2, <2>3
<1>5. ASSUME NEW p \in {Maint} \cup Callers, ApplyUp(p) PROVE wake' \/ \E q \in Procs : Owes(q)'
  BY <1>5 DEF ApplyUp
<1>6. ASSUME NEW p \in {Maint} \cup Callers, ApplyPersist(p)
      PROVE wake' \/ \E q \in Procs : Owes(q)'
  <2>1. Committed' /\ ~ready' => Committed /\ ~ready
    BY <1>6 DEF ApplyPersist, AfterConnect, Goto, Committed, DialLabels, Holding, ProbeLabels
  <2>2. \A q \in Procs : Owes(q) => wake' \/ ready' \/ Owes(q)'
    BY <1>6 DEF ApplyPersist, AfterConnect, Goto, Owes, DialLabels, Holding, ProbeLabels
  <2>3. wake => wake'
    BY <1>6 DEF ApplyPersist
  <2> QED
    BY <2>1, <2>2, <2>3
<1>7. ASSUME NEW p \in {Maint} \cup Callers, ConnectDown(p) PROVE wake' \/ \E q \in Procs : Owes(q)'
  <2>1. CASE p = Maint
    BY <1>7, <2>1 DEF ConnectDown, AfterFailure, Goto, Committed, DialLabels, Holding,
       ProbeLabels
  <2>2. CASE p \in Callers
    <3>1. Owes(p)'
      BY <1>7, <2>2 DEF ConnectDown, AfterFailure, Goto, Owes, StateInv, TaskInv
    <3> QED
      BY <3>1
  <2> QED
    BY <2>1, <2>2
<1>8. ASSUME NEW p \in Procs, DialCheck(p) PROVE wake' \/ \E q \in Procs : Owes(q)'
  <2>1. Committed' /\ ~ready' => Committed /\ ~ready
    BY <1>8 DEF DialCheck, Finish, Goto, Committed, DialLabels, Holding, ProbeLabels
  <2>2. \A q \in Procs : Owes(q) => wake' \/ ready' \/ Owes(q)'
    BY <1>8 DEF DialCheck, Finish, Goto, Owes, DialLabels, Holding, ProbeLabels
  <2>3. wake => wake'
    BY <1>8 DEF DialCheck
  <2> QED
    BY <2>1, <2>2, <2>3
<1>9. ASSUME NEW p \in Procs, DialAcquire(p) PROVE wake' \/ \E q \in Procs : Owes(q)'
  <2>1. Committed' /\ ~ready' => Committed /\ ~ready
    BY <1>9 DEF DialAcquire, Goto, Committed, DialLabels, Holding, ProbeLabels
  <2>2. \A q \in Procs : Owes(q) => wake' \/ ready' \/ Owes(q)'
    BY <1>9 DEF DialAcquire, Goto, Owes, DialLabels, Holding, ProbeLabels
  <2>3. wake => wake'
    BY <1>9 DEF DialAcquire
  <2> QED
    BY <2>1, <2>2, <2>3
<1>10. ASSUME NEW p \in Procs, DialGiveUp(p) PROVE wake' \/ \E q \in Procs : Owes(q)'
  <2>1. Committed' /\ ~ready' => Committed /\ ~ready
    BY <1>10 DEF DialGiveUp, Finish, Goto, Committed, DialLabels, Holding, ProbeLabels
  <2>2. \A q \in Procs : Owes(q) => wake' \/ ready' \/ Owes(q)'
    BY <1>10 DEF DialGiveUp, Finish, Goto, Owes, DialLabels, Holding, ProbeLabels
  <2>3. wake => wake'
    BY <1>10 DEF DialGiveUp
  <2> QED
    BY <2>1, <2>2, <2>3
<1>11. ASSUME NEW p \in Procs, DialLoad(p) PROVE wake' \/ \E q \in Procs : Owes(q)'
  <2>1. Committed' /\ ~ready' => Committed /\ ~ready
    BY <1>11 DEF DialLoad, Goto, Committed, DialLabels, Holding, ProbeLabels
  <2>2. \A q \in Procs : Owes(q) => wake' \/ ready' \/ Owes(q)'
    BY <1>11 DEF DialLoad, Goto, Owes, DialLabels, Holding, ProbeLabels
  <2>3. wake => wake'
    BY <1>11 DEF DialLoad
  <2> QED
    BY <2>1, <2>2, <2>3
<1>12. ASSUME NEW p \in Procs, DialRecheck(p) PROVE wake' \/ \E q \in Procs : Owes(q)'
  <2>1. Committed' /\ ~ready' => Committed /\ ~ready
    BY <1>12 DEF DialRecheck, Goto, Committed, DialLabels, Holding, ProbeLabels
  <2>2. \A q \in Procs : Owes(q) => wake' \/ ready' \/ Owes(q)'
    BY <1>12 DEF DialRecheck, Goto, Owes, DialLabels, Holding, ProbeLabels
  <2>3. wake => wake'
    BY <1>12 DEF DialRecheck
  <2> QED
    BY <2>1, <2>2, <2>3
<1>13. ASSUME NEW p \in Procs, DialResult(p) PROVE wake' \/ \E q \in Procs : Owes(q)'
  <2>1. Committed' /\ ~ready' => Committed /\ ~ready
    BY <1>13 DEF DialResult, CountFailure, Goto, Committed, DialLabels, Holding, ProbeLabels
  <2>2. \A q \in Procs : Owes(q) => wake' \/ ready' \/ Owes(q)'
    BY <1>13 DEF DialResult, CountFailure, Goto, Owes, DialLabels, Holding, ProbeLabels
  <2>3. wake => wake'
    BY <1>13 DEF DialResult
  <2> QED
    BY <2>1, <2>2, <2>3
<1>14. ASSUME NEW p \in Procs, SwapReady(p) PROVE wake' \/ \E q \in Procs : Owes(q)'
  <2>1. CASE ready
    <3>1. Owes(p)'
      BY <1>14, <2>1 DEF SwapReady, Goto, Owes
    <3> QED
      BY <3>1
  <2>2. CASE ~ready
    <3>1. Committed' => Committed
      BY <1>14, <2>2 DEF SwapReady, Goto, Committed, DialLabels, Holding, ProbeLabels
    <3>2. \A q \in Procs : Owes(q) => Owes(q)'
      BY <1>14, <2>2 DEF SwapReady, Goto, Owes, DialLabels, Holding, ProbeLabels
    <3> QED
      BY <1>14, <2>2, <3>1, <3>2 DEF SwapReady
  <2> QED
    BY <2>1, <2>2
<1>15. ASSUME NEW p \in Procs, Kick(p) PROVE wake' \/ \E q \in Procs : Owes(q)'
  BY <1>15 DEF Kick
<1>16. ASSUME NEW p \in Procs, DialRelease(p) PROVE wake' \/ \E q \in Procs : Owes(q)'
  <2>1. Committed' /\ ~ready' => Committed /\ ~ready
    BY <1>16 DEF DialRelease, Finish, Goto, Committed, DialLabels, Holding, ProbeLabels
  <2>2. \A q \in Procs : Owes(q) => wake' \/ ready' \/ Owes(q)'
    BY <1>16 DEF DialRelease, Finish, Goto, Owes, DialLabels, Holding, ProbeLabels
  <2>3. wake => wake'
    BY <1>16 DEF DialRelease
  <2> QED
    BY <2>1, <2>2, <2>3
<1>17. ASSUME NEW p \in Procs, ProbeAgain(p) PROVE wake' \/ \E q \in Procs : Owes(q)'
  <2>1. Committed' /\ ~ready' => Committed /\ ~ready
    BY <1>17 DEF ProbeAgain, CountFailure, Goto, Committed, DialLabels, Holding, ProbeLabels
  <2>2. \A q \in Procs : Owes(q) => wake' \/ ready' \/ Owes(q)'
    BY <1>17 DEF ProbeAgain, CountFailure, Goto, Owes, DialLabels, Holding, ProbeLabels
  <2>3. wake => wake'
    BY <1>17 DEF ProbeAgain
  <2> QED
    BY <2>1, <2>2, <2>3
<1>18. ASSUME NEW p \in Dialers, DialStart(p) PROVE wake' \/ \E q \in Procs : Owes(q)'
  <2>1. Committed' /\ ~ready' => Committed /\ ~ready
    BY <1>18 DEF DialStart, Goto, Committed, DialLabels, Holding, ProbeLabels
  <2>2. \A q \in Procs : Owes(q) => wake' \/ ready' \/ Owes(q)'
    BY <1>18 DEF DialStart, Goto, Owes, DialLabels, Holding, ProbeLabels
  <2>3. wake => wake'
    BY <1>18 DEF DialStart
  <2> QED
    BY <2>1, <2>2, <2>3
<1>19. ASSUME MaintTop PROVE wake' \/ \E q \in Procs : Owes(q)'
  <2>1. ready' \/ ~Committed'
    BY <1>19 DEF MaintTop, MaintBegin, MaintGoto, Goto, Committed, DialLabels, Holding,
       ProbeLabels
  <2> QED
    BY <2>1
<1>20. ASSUME MaintConnected PROVE wake' \/ \E q \in Procs : Owes(q)'
  <2>1. Committed' /\ ~ready' => Committed /\ ~ready
    BY <1>20 DEF MaintConnected, MaintGoto, Goto, Committed, DialLabels, Holding, ProbeLabels
  <2>2. \A q \in Procs : Owes(q) => wake' \/ ready' \/ Owes(q)'
    BY <1>20 DEF MaintConnected, MaintGoto, Goto, Owes, DialLabels, Holding, ProbeLabels
  <2>3. wake => wake'
    BY <1>20 DEF MaintConnected
  <2> QED
    BY <2>1, <2>2, <2>3
<1>21. ASSUME MaintUnprobed PROVE wake' \/ \E q \in Procs : Owes(q)'
  BY <1>21 DEF MaintUnprobed, MaintGoto, Goto, Committed, DialLabels, Holding, ProbeLabels
<1>22. ASSUME MaintDue PROVE wake' \/ \E q \in Procs : Owes(q)'
  <2>1. Committed' /\ ~ready' => Committed /\ ~ready
    BY <1>22 DEF MaintDue, MaintGoto, Goto, Committed, DialLabels, Holding, ProbeLabels
  <2>2. \A q \in Procs : Owes(q) => wake' \/ ready' \/ Owes(q)'
    BY <1>22 DEF MaintDue, MaintGoto, Goto, Owes, DialLabels, Holding, ProbeLabels
  <2>3. wake => wake'
    BY <1>22 DEF MaintDue
  <2> QED
    BY <2>1, <2>2, <2>3
<1>23. ASSUME MaintRefetch PROVE wake' \/ \E q \in Procs : Owes(q)'
  <2>1. Committed' /\ ~ready' => Committed /\ ~ready
    BY <1>23 DEF MaintRefetch, MaintGoto, Goto, Committed, DialLabels, Holding, ProbeLabels
  <2>2. \A q \in Procs : Owes(q) => wake' \/ ready' \/ Owes(q)'
    BY <1>23 DEF MaintRefetch, MaintGoto, Goto, Owes, DialLabels, Holding, ProbeLabels
  <2>3. wake => wake'
    BY <1>23 DEF MaintRefetch
  <2> QED
    BY <2>1, <2>2, <2>3
<1>24. ASSUME MaintRefreshed PROVE wake' \/ \E q \in Procs : Owes(q)'
  <2>1. Committed' /\ ~ready' => Committed /\ ~ready
    BY <1>24 DEF MaintRefreshed, MaintGoto, Goto, Committed, DialLabels, Holding, ProbeLabels
  <2>2. \A q \in Procs : Owes(q) => wake' \/ ready' \/ Owes(q)'
    BY <1>24 DEF MaintRefreshed, MaintGoto, Goto, Owes, DialLabels, Holding, ProbeLabels
  <2>3. wake => wake'
    BY <1>24 DEF MaintRefreshed
  <2> QED
    BY <2>1, <2>2, <2>3
<1>25. ASSUME MaintProbeCheck PROVE wake' \/ \E q \in Procs : Owes(q)'
  <2>1. Committed' /\ ~ready' => Committed /\ ~ready
    BY <1>25 DEF MaintProbeCheck, MaintBegin, MaintGoto, Goto, Committed, DialLabels,
       Holding, ProbeLabels
  <2>2. \A q \in Procs : Owes(q) => wake' \/ ready' \/ Owes(q)'
    BY <1>25 DEF MaintProbeCheck, MaintBegin, MaintGoto, Goto, Owes, DialLabels, Holding,
       ProbeLabels
  <2>3. wake => wake'
    BY <1>25 DEF MaintProbeCheck
  <2> QED
    BY <2>1, <2>2, <2>3
<1>26. ASSUME MaintReturned PROVE wake' \/ \E q \in Procs : Owes(q)'
  <2>1. Committed' /\ ~ready' => Committed /\ ~ready
    BY <1>26 DEF MaintReturned, MaintGoto, Goto, Committed, DialLabels, Holding, ProbeLabels
  <2>2. \A q \in Procs : Owes(q) => wake' \/ ready' \/ Owes(q)'
    BY <1>26 DEF MaintReturned, MaintGoto, Goto, Owes, DialLabels, Holding, ProbeLabels
  <2>3. wake => wake'
    BY <1>26 DEF MaintReturned
  <2> QED
    BY <2>1, <2>2, <2>3
<1>27. ASSUME MaintWait PROVE wake' \/ \E q \in Procs : Owes(q)'
  BY <1>27 DEF MaintWait, Goto, Committed, DialLabels, Holding, ProbeLabels
<1>28. ASSUME MaintExit PROVE wake' \/ \E q \in Procs : Owes(q)'
  <2>1. Committed' /\ ~ready' => Committed /\ ~ready
    BY <1>28 DEF MaintExit, MaintGoto, Goto, Committed, DialLabels, Holding, ProbeLabels
  <2>2. \A q \in Procs : Owes(q) => wake' \/ ready' \/ Owes(q)'
    BY <1>28 DEF MaintExit, MaintGoto, Goto, Owes, DialLabels, Holding, ProbeLabels
  <2>3. wake => wake'
    BY <1>28 DEF MaintExit
  <2> QED
    BY <2>1, <2>2, <2>3
<1>29. ASSUME NEW c \in Callers, CallerClear(c) PROVE wake' \/ \E q \in Procs : Owes(q)'
  <2>1. Owes(c)'
    BY <1>29 DEF CallerClear, Goto, Owes, DialLabels, Holding, ProbeLabels
  <2> QED
    BY <2>1
<1>30. ASSUME NEW c \in Callers, CallerZero(c) PROVE wake' \/ \E q \in Procs : Owes(q)'
  <2>1. Committed' /\ ~ready' => Committed /\ ~ready
    BY <1>30 DEF CallerZero, Goto, Committed, DialLabels, Holding, ProbeLabels
  <2>2. \A q \in Procs : Owes(q) => wake' \/ ready' \/ Owes(q)'
    BY <1>30 DEF CallerZero, Goto, Owes, DialLabels, Holding, ProbeLabels
  <2>3. wake => wake'
    BY <1>30 DEF CallerZero
  <2> QED
    BY <2>1, <2>2, <2>3
<1>31. ASSUME NEW c \in Callers, CallerReturned(c) PROVE wake' \/ \E q \in Procs : Owes(q)'
  <2>1. Committed' /\ ~ready' => Committed /\ ~ready
    BY <1>31 DEF CallerReturned, Goto, Committed, DialLabels, Holding, ProbeLabels
  <2>2. \A q \in Procs : Owes(q) => wake' \/ ready' \/ Owes(q)'
    BY <1>31 DEF CallerReturned, Goto, Owes, DialLabels, Holding, ProbeLabels
  <2>3. wake => wake'
    BY <1>31 DEF CallerReturned
  <2> QED
    BY <2>1, <2>2, <2>3
<1>32. ASSUME NEW c \in Callers, CallerUnprobed(c) PROVE wake' \/ \E q \in Procs : Owes(q)'
  <2>1. Owes(c)'
    BY <1>32 DEF CallerUnprobed, Goto, Owes, DialLabels, Holding, ProbeLabels
  <2> QED
    BY <2>1
<1>33. ASSUME NEW c \in Callers, CallerWakeup(c) PROVE wake' \/ \E q \in Procs : Owes(q)'
  BY <1>33 DEF CallerWakeup
<1>34. ASSUME NEW c \in Callers, CallerFailed(c) PROVE wake' \/ \E q \in Procs : Owes(q)'
  BY <1>34 DEF CallerFailed
<1>35. ASSUME NEW c \in Callers, CallerReload(c) PROVE wake' \/ \E q \in Procs : Owes(q)'
  <2>1. Committed' /\ ~ready' => Committed /\ ~ready
    BY <1>35 DEF CallerReload, Finish, Goto, Committed, DialLabels, Holding, ProbeLabels
  <2>2. \A q \in Procs : Owes(q) => wake' \/ ready' \/ Owes(q)'
    BY <1>35 DEF CallerReload, Finish, Goto, Owes, DialLabels, Holding, ProbeLabels
  <2>3. wake => wake'
    BY <1>35 DEF CallerReload
  <2> QED
    BY <2>1, <2>2, <2>3
<1>36. ASSUME NEW c \in Callers, CallerAdopt(c) PROVE wake' \/ \E q \in Procs : Owes(q)'
  <2>1. Committed' /\ ~ready' => Committed /\ ~ready
    BY <1>36 DEF CallerAdopt, Goto, Committed, DialLabels, Holding, ProbeLabels
  <2>2. \A q \in Procs : Owes(q) => wake' \/ ready' \/ Owes(q)'
    BY <1>36 DEF CallerAdopt, Goto, Owes, DialLabels, Holding, ProbeLabels
  <2>3. wake => wake'
    BY <1>36 DEF CallerAdopt
  <2> QED
    BY <2>1, <2>2, <2>3
<1>37. ASSUME NEW c \in Callers, CallerStore(c) PROVE wake' \/ \E q \in Procs : Owes(q)'
  <2>1. Committed' /\ ~ready' => Committed /\ ~ready
    BY <1>37 DEF CallerStore, Finish, Goto, Committed, DialLabels, Holding, ProbeLabels
  <2>2. \A q \in Procs : Owes(q) => wake' \/ ready' \/ Owes(q)'
    BY <1>37 DEF CallerStore, Finish, Goto, Owes, DialLabels, Holding, ProbeLabels
  <2>3. wake => wake'
    BY <1>37 DEF CallerStore
  <2> QED
    BY <2>1, <2>2, <2>3
<1>38. ASSUME NEW c \in Callers, Reconnect(c) PROVE wake' \/ \E q \in Procs : Owes(q)'
  <2>1. Committed' /\ ~ready' => Committed /\ ~ready
    BY <1>38 DEF Reconnect, Goto, Committed, DialLabels, Holding, ProbeLabels
  <2>2. \A q \in Procs : Owes(q) => wake' \/ ready' \/ Owes(q)'
    BY <1>38 DEF Reconnect, Goto, Owes, DialLabels, Holding, ProbeLabels
  <2>3. wake => wake'
    BY <1>38 DEF Reconnect
  <2> QED
    BY <2>1, <2>2, <2>3
<1>39. ASSUME NEW c \in Callers, NEW k \in UserKeys, SetAccessKey(c, k)
      PROVE wake' \/ \E q \in Procs : Owes(q)'
  <2>1. Committed' /\ ~ready' => Committed /\ ~ready
    BY <1>39 DEF SetAccessKey, Goto, Committed, DialLabels, Holding, ProbeLabels
  <2>2. \A q \in Procs : Owes(q) => wake' \/ ready' \/ Owes(q)'
    BY <1>39 DEF SetAccessKey, Goto, Owes, DialLabels, Holding, ProbeLabels
  <2>3. wake => wake'
    BY <1>39 DEF SetAccessKey
  <2> QED
    BY <2>1, <2>2, <2>3
<1>40. ASSUME RefreshTick PROVE wake' \/ \E q \in Procs : Owes(q)'
  <2>1. Committed' /\ ~ready' => Committed /\ ~ready
    BY <1>40 DEF RefreshTick, local, Committed, DialLabels, Holding, ProbeLabels
  <2>2. \A q \in Procs : Owes(q) => wake' \/ ready' \/ Owes(q)'
    BY <1>40 DEF RefreshTick, local, Owes, DialLabels, Holding, ProbeLabels
  <2>3. wake => wake'
    BY <1>40 DEF RefreshTick
  <2> QED
    BY <2>1, <2>2, <2>3
<1>41. ASSUME ProbeTick PROVE wake' \/ \E q \in Procs : Owes(q)'
  <2>1. Committed' /\ ~ready' => Committed /\ ~ready
    BY <1>41 DEF ProbeTick, local, Committed, DialLabels, Holding, ProbeLabels
  <2>2. \A q \in Procs : Owes(q) => wake' \/ ready' \/ Owes(q)'
    BY <1>41 DEF ProbeTick, local, Owes, DialLabels, Holding, ProbeLabels
  <2>3. wake => wake'
    BY <1>41 DEF ProbeTick
  <2> QED
    BY <2>1, <2>2, <2>3
<1>42. ASSUME NetSettles PROVE wake' \/ \E q \in Procs : Owes(q)'
  <2>1. Committed' /\ ~ready' => Committed /\ ~ready
    BY <1>42 DEF NetSettles, local, Committed, DialLabels, Holding, ProbeLabels
  <2>2. \A q \in Procs : Owes(q) => wake' \/ ready' \/ Owes(q)'
    BY <1>42 DEF NetSettles, local, Owes, DialLabels, Holding, ProbeLabels
  <2>3. wake => wake'
    BY <1>42 DEF NetSettles
  <2> QED
    BY <2>1, <2>2, <2>3
<1>43. ASSUME Stop PROVE wake' \/ \E q \in Procs : Owes(q)'
  <2>1. Committed' /\ ~ready' => Committed /\ ~ready
    BY <1>43 DEF Stop, local, Committed, DialLabels, Holding, ProbeLabels
  <2>2. \A q \in Procs : Owes(q) => wake' \/ ready' \/ Owes(q)'
    BY <1>43 DEF Stop, local, Owes, DialLabels, Holding, ProbeLabels
  <2>3. wake => wake'
    BY <1>43 DEF Stop
  <2> QED
    BY <2>1, <2>2, <2>3
<1>44. ASSUME NEW k \in DynamicKeys, NEW s \in StaticKeys, Rotate(k, s)
      PROVE wake' \/ \E q \in Procs : Owes(q)'
  <2>1. Committed' /\ ~ready' => Committed /\ ~ready
    BY <1>44 DEF Rotate, local, Committed, DialLabels, Holding, ProbeLabels
  <2>2. \A q \in Procs : Owes(q) => wake' \/ ready' \/ Owes(q)'
    BY <1>44 DEF Rotate, local, Owes, DialLabels, Holding, ProbeLabels
  <2>3. wake => wake'
    BY <1>44 DEF Rotate
  <2> QED
    BY <2>1, <2>2, <2>3
<1>45. CASE UNCHANGED vars
  <2>1. Committed' /\ ~ready' => Committed /\ ~ready
    BY <1>45 DEF vars, local, Committed, DialLabels, Holding, ProbeLabels
  <2>2. \A q \in Procs : Owes(q) => wake' \/ ready' \/ Owes(q)'
    BY <1>45 DEF vars, local, Owes, DialLabels, Holding, ProbeLabels
  <2>3. wake => wake'
    BY <1>45 DEF vars
  <2> QED
    BY <2>1, <2>2, <2>3
<1> QED
    BY <1>1, <1>2, <1>3, <1>4, <1>5, <1>6, <1>7, <1>8, <1>9, <1>10, <1>11, <1>12, <1>13,
       <1>14, <1>15, <1>16, <1>17, <1>18, <1>19, <1>20, <1>21, <1>22, <1>23, <1>24, <1>25,
       <1>26, <1>27, <1>28, <1>29, <1>30, <1>31, <1>32, <1>33, <1>34, <1>35, <1>36, <1>37,
       <1>38, <1>39, <1>40, <1>41, <1>42, <1>43, <1>44, <1>45
       DEF Next, Connecting, Dialing, Maintaining, Calling

\* NoLostWakeup holds in every reachable state.
THEOREM WakeupsKept == Spec => []NoLostWakeup
<1>1. Init => WakeInv
  BY ClientAssumption DEF Init, WakeInv, Committed, Procs, DialLabels, Holding, ProbeLabels
<1>2. Spec => []WakeInv
  BY <1>1, StateInit, StateStep, WakeStep, PTL DEF Spec
<1>3. WakeInv => NoLostWakeup
  BY DEF WakeInv, Committed, NoLostWakeup
<1> QED
  BY <1>2, <1>3, PTL

-----------------------------------------------------------------------------
(***************************************************************************)
(* The client is a tunnel: every step of it is a step of Tunnel or leaves  *)
(* what Tunnel speaks of alone.                                            *)
(***************************************************************************)
\* No goroutine gets further with a dial, or back from one.
DialsStill ==
    \A q \in Procs : /\ StageAt(pc'[q]) = StageAt(pc[q])
                     /\ StageAt(pc[q]) \in {"taken", "open"} => held'[q] = held[q]

\* A step that Tunnel does not speak of, and one that clears ready.
Aside == DialsStill /\ UNCHANGED <<ready, dialer>>
Withdraws == DialsStill /\ ready' = FALSE /\ UNCHANGED dialer

\* The mapped dials are unchanged when no goroutine moves.
LEMMA StillKeeps == DialsStill => DialStages' = DialStages /\ DialersTaken' = DialersTaken
  BY DEF DialsStill, DialStages, DialersTaken

\* A step that moves no dial and leaves ready and the dialer alone is a stutter.
LEMMA StillStutters == Aside => UNCHANGED Abstract!tVars
  BY StillKeeps DEF Aside, Abstract!tVars

\* One that clears ready is a withdrawal, ...
LEMMA StillWithdraws == Withdraws => Abstract!TWithdraw
  BY StillKeeps DEF Withdraws, Abstract!TWithdraw

\* ... one that stores a dialer an installation ...
LEMMA StillInstalls ==
    ASSUME DialsStill, dialer' \in StaticKeys, UNCHANGED ready
    PROVE  \E d \in StaticKeys : Abstract!TInstall(d)
  BY StillKeeps DEF Abstract!TInstall

\* ... and one that sets ready over a dialer an announcement.
LEMMA StillAnnounces ==
    ASSUME DialsStill, dialer # None, ready' = TRUE, UNCHANGED dialer PROVE Abstract!TAnnounce
  BY StillKeeps DEF Abstract!TAnnounce

\* A step of one goroutine moves its dial only.
LEMMA OneDial ==
    ASSUME NEW p \in Procs, \A q \in Procs \ {p} : pc'[q] = pc[q] /\ held'[q] = held[q]
    PROVE  /\ DialStages' = [DialStages EXCEPT ![p] = StageAt(pc'[p])]
           /\ DialersTaken' = [DialersTaken EXCEPT ![p] =
                IF StageAt(pc'[p]) \in {"taken", "open"} THEN held'[p] ELSE None]
           /\ StageAt(pc[p]) \notin {"taken", "open"} =>
                DialersTaken = [DialersTaken EXCEPT ![p] = None]
  BY DEF DialStages, DialersTaken

\* The client starts without a dialer and without dials.
LEMMA TunnelInit == Init => Abstract!TInit
<1> SUFFICES ASSUME Init PROVE Abstract!TInit
  OBVIOUS
<1>1. \A p \in Procs : StageAt(pc[p]) = "idle"
  BY DEF Init, StageAt
<1> QED
  BY <1>1 DEF Init, Abstract!TInit, DialStages, DialersTaken

\* Every step of the supervisor, a request, a dial or the network keeps the promise.
LEMMA TunnelStep == StateInv /\ [Next]_vars => [Abstract!TNext]_(Abstract!tVars)
<1> SUFFICES ASSUME StateInv, [Next]_vars PROVE [Abstract!TNext]_(Abstract!tVars)
  OBVIOUS
<1> USE ClientAssumption DEF StateInv, TypeOK, LocalsOK, DataOK, Procs
<1>1. ASSUME NEW p \in {Maint} \cup Callers, ConnectRead(p) PROVE Aside
  BY <1>1 DEF ConnectRead, Goto, Aside, DialsStill, StageAt, conf
<1>2. ASSUME NEW p \in {Maint} \cup Callers, ConnectExpand(p) PROVE Aside
  BY <1>2 DEF ConnectExpand, Goto, Aside, DialsStill, StageAt, conf
<1>3. ASSUME NEW p \in {Maint} \cup Callers, ApplyInstall(p)
      PROVE DialsStill /\ dialer' \in StaticKeys /\ UNCHANGED ready
  <2>1. held[p] \in StaticKeys /\ p \in Procs
    BY <1>3 DEF ApplyInstall, Procs, HeldInv
  <2> QED
    BY <1>3, <2>1 DEF ApplyInstall, Goto, DialsStill, StageAt
<1>4. ASSUME NEW p \in {Maint} \cup Callers, ApplyReset(p) PROVE Aside
  BY <1>4 DEF ApplyReset, Goto, Aside, DialsStill, StageAt, conf
<1>5. ASSUME NEW p \in {Maint} \cup Callers, ApplyUp(p)
      PROVE DialsStill /\ dialer # None /\ ready' = TRUE /\ UNCHANGED dialer
  <2>1. p \in Procs
    BY DEF Procs
  <2> QED
    BY <1>5, <2>1 DEF ApplyUp, Goto, HeldInv, DialsStill, StageAt, conf
<1>6. ASSUME NEW p \in {Maint} \cup Callers, ApplyPersist(p) PROVE Aside
  BY <1>6 DEF ApplyPersist, AfterConnect, Goto, Aside, DialsStill, StageAt, conf
<1>7. ASSUME NEW p \in {Maint} \cup Callers, ConnectDown(p) PROVE Withdraws
  BY <1>7 DEF ConnectDown, AfterFailure, Goto, Withdraws, DialsStill, StageAt, conf
<1>8. ASSUME NEW p \in Procs, DialCheck(p) PROVE Aside \/ Abstract!TAdmit(p)
  <2>1. /\ \A q \in Procs \ {p} : pc'[q] = pc[q] /\ held'[q] = held[q]
        /\ UNCHANGED <<ready, dialer>>
    BY <1>8 DEF DialCheck, Finish, Goto, conf
  <2>2. CASE ready
    <3>1. pc[p] = "check" /\ pc'[p] = "acquire"
      BY <1>8, <2>2 DEF DialCheck, Goto
    <3> QED
      BY <2>1, <2>2, <3>1, OneDial DEF Abstract!TAdmit, DialStages, StageAt
  <2>3. CASE ~ready
    BY <1>8, <2>1, <2>3 DEF DialCheck, Finish, Goto, Aside, DialsStill, StageAt
  <2> QED
    BY <2>2, <2>3
<1>9. ASSUME NEW p \in Procs, DialAcquire(p) PROVE Aside
  BY <1>9 DEF DialAcquire, Goto, Aside, DialsStill, StageAt, conf
<1>10. ASSUME NEW p \in Procs, DialGiveUp(p) PROVE Abstract!TLeave(p)
  <2>1. /\ \A q \in Procs \ {p} : pc'[q] = pc[q] /\ held'[q] = held[q]
        /\ UNCHANGED <<ready, dialer>>
    BY <1>10 DEF DialGiveUp, Finish, Goto, conf
  <2>2. pc[p] \in {"acquire", "dial"} /\ StageAt(pc'[p]) = "idle"
    BY <1>10 DEF DialGiveUp, Finish, Goto, StageAt
  <2> QED
    BY <2>1, <2>2, OneDial DEF Abstract!TLeave, DialStages, StageAt
<1>11. ASSUME NEW p \in Procs, DialLoad(p) PROVE Abstract!TTake(p)
  <2>1. /\ \A q \in Procs \ {p} : pc'[q] = pc[q] /\ held'[q] = held[q]
        /\ UNCHANGED <<ready, dialer>>
    BY <1>11 DEF DialLoad, Goto, conf
  <2>2. pc[p] = "load" /\ pc'[p] = "recheck" /\ held'[p] = dialer
    BY <1>11 DEF DialLoad, Goto
  <2> QED
    BY <2>1, <2>2, OneDial DEF Abstract!TTake, DialStages, StageAt
<1>12. ASSUME NEW p \in Procs, DialRecheck(p) PROVE Abstract!TBegin(p) \/ Abstract!TLeave(p)
  <2>1. /\ \A q \in Procs \ {p} : pc'[q] = pc[q] /\ held'[q] = held[q]
        /\ UNCHANGED <<ready, dialer>>
    BY <1>12 DEF DialRecheck, Goto, conf
  <2>2. CASE held[p] # None /\ ready
    <3>1. pc[p] = "recheck" /\ pc'[p] = "dial" /\ held'[p] = held[p]
      BY <1>12, <2>2 DEF DialRecheck, Goto
    <3>2. DialersTaken[p] = held[p]
      BY <3>1 DEF DialersTaken, StageAt
    <3>3. DialersTaken' = DialersTaken
      BY <2>1, <3>1 DEF DialersTaken, StageAt
    <3> QED
      BY <2>1, <2>2, <3>1, <3>2, <3>3, OneDial DEF Abstract!TBegin, DialStages, StageAt
  <2>3. CASE ~(held[p] # None /\ ready)
    <3>1. pc[p] = "recheck" /\ pc'[p] = "release"
      BY <1>12, <2>3 DEF DialRecheck, Goto
    <3> QED
      BY <2>1, <3>1, OneDial DEF Abstract!TLeave, DialStages, StageAt
  <2> QED
    BY <2>2, <2>3
<1>13. ASSUME NEW p \in Procs, DialResult(p) PROVE Abstract!TLeave(p)
  <2>1. /\ \A q \in Procs \ {p} : pc'[q] = pc[q] /\ held'[q] = held[q]
        /\ UNCHANGED <<ready, dialer>>
    BY <1>13 DEF DialResult, CountFailure, Goto, conf
  <2>2. pc[p] \in {"acquire", "dial"} /\ StageAt(pc'[p]) = "idle"
    BY <1>13 DEF DialResult, CountFailure, Goto, StageAt
  <2> QED
    BY <2>1, <2>2, OneDial DEF Abstract!TLeave, DialStages, StageAt
<1>14. ASSUME NEW p \in Procs, SwapReady(p) PROVE Withdraws
  BY <1>14 DEF SwapReady, Goto, Withdraws, DialsStill, StageAt, conf
<1>15. ASSUME NEW p \in Procs, Kick(p) PROVE Aside
  BY <1>15 DEF Kick, Goto, Aside, DialsStill, StageAt, conf
<1>16. ASSUME NEW p \in Procs, DialRelease(p) PROVE Aside
  BY <1>16 DEF DialRelease, Finish, Goto, Aside, DialsStill, StageAt, conf
<1>17. ASSUME NEW p \in Procs, ProbeAgain(p) PROVE Aside
  BY <1>17 DEF ProbeAgain, CountFailure, Goto, Aside, DialsStill, StageAt, conf
<1>18. ASSUME NEW p \in Dialers, DialStart(p) PROVE Aside
  BY <1>18 DEF DialStart, Goto, Aside, DialsStill, StageAt, conf
<1>19. ASSUME MaintTop PROVE Aside
  BY <1>19 DEF MaintTop, MaintBegin, MaintGoto, Goto, Aside, DialsStill, StageAt, conf
<1>20. ASSUME MaintConnected PROVE Aside
  BY <1>20 DEF MaintConnected, MaintGoto, Goto, Aside, DialsStill, StageAt, conf
<1>21. ASSUME MaintUnprobed PROVE Withdraws
  BY <1>21 DEF MaintUnprobed, MaintGoto, Goto, Withdraws, DialsStill, StageAt, conf
<1>22. ASSUME MaintDue PROVE Aside
  BY <1>22 DEF MaintDue, MaintGoto, Goto, Aside, DialsStill, StageAt, conf
<1>23. ASSUME MaintRefetch PROVE Aside
  BY <1>23 DEF MaintRefetch, MaintGoto, Goto, Aside, DialsStill, StageAt, conf
<1>24. ASSUME MaintRefreshed PROVE Aside
  BY <1>24 DEF MaintRefreshed, MaintGoto, Goto, Aside, DialsStill, StageAt, conf
<1>25. ASSUME MaintProbeCheck PROVE Aside
  BY <1>25 DEF MaintProbeCheck, MaintBegin, MaintGoto, Goto, Aside, DialsStill, StageAt, conf
<1>26. ASSUME MaintReturned PROVE Aside
  BY <1>26 DEF MaintReturned, MaintGoto, Goto, Aside, DialsStill, StageAt, conf
<1>27. ASSUME MaintWait PROVE Aside
  BY <1>27 DEF MaintWait, Goto, Aside, DialsStill, StageAt, conf
<1>28. ASSUME MaintExit PROVE Aside
  BY <1>28 DEF MaintExit, MaintGoto, Goto, Aside, DialsStill, StageAt, conf
<1>29. ASSUME NEW c \in Callers, CallerClear(c) PROVE Withdraws
  BY <1>29 DEF CallerClear, Goto, Withdraws, DialsStill, StageAt, conf
<1>30. ASSUME NEW c \in Callers, CallerZero(c) PROVE Aside
  BY <1>30 DEF CallerZero, Goto, Aside, DialsStill, StageAt, conf
<1>31. ASSUME NEW c \in Callers, CallerReturned(c) PROVE Aside
  BY <1>31 DEF CallerReturned, Goto, Aside, DialsStill, StageAt, conf
<1>32. ASSUME NEW c \in Callers, CallerUnprobed(c) PROVE Withdraws
  BY <1>32 DEF CallerUnprobed, Goto, Withdraws, DialsStill, StageAt, conf
<1>33. ASSUME NEW c \in Callers, CallerWakeup(c) PROVE Aside
  BY <1>33 DEF CallerWakeup, Finish, Goto, Aside, DialsStill, StageAt, conf
<1>34. ASSUME NEW c \in Callers, CallerFailed(c) PROVE Aside
  BY <1>34 DEF CallerFailed, Finish, Goto, Aside, DialsStill, StageAt, conf
<1>35. ASSUME NEW c \in Callers, CallerReload(c) PROVE Aside
  BY <1>35 DEF CallerReload, Finish, Goto, Aside, DialsStill, StageAt, conf
<1>36. ASSUME NEW c \in Callers, CallerAdopt(c) PROVE Aside
  BY <1>36 DEF CallerAdopt, Goto, Aside, DialsStill, StageAt, conf
<1>37. ASSUME NEW c \in Callers, CallerStore(c) PROVE Aside
  BY <1>37 DEF CallerStore, Finish, Goto, Aside, DialsStill, StageAt, conf
<1>38. ASSUME NEW c \in Callers, Reconnect(c) PROVE Aside
  BY <1>38 DEF Reconnect, Goto, Aside, DialsStill, StageAt, conf
<1>39. ASSUME NEW c \in Callers, NEW k \in UserKeys, SetAccessKey(c, k) PROVE Aside
  BY <1>39 DEF SetAccessKey, Goto, Aside, DialsStill, StageAt, conf
<1>40. ASSUME RefreshTick PROVE Aside
  BY <1>40 DEF RefreshTick, local, Aside, DialsStill, StageAt, conf
<1>41. ASSUME ProbeTick PROVE Aside
  BY <1>41 DEF ProbeTick, local, Aside, DialsStill, StageAt, conf
<1>42. ASSUME NetSettles PROVE Aside
  BY <1>42 DEF NetSettles, local, Aside, DialsStill, StageAt, conf
<1>43. ASSUME Stop PROVE Aside
  BY <1>43 DEF Stop, local, Aside, DialsStill, StageAt, conf
<1>44. ASSUME NEW k \in DynamicKeys, NEW s \in StaticKeys, Rotate(k, s) PROVE Aside
  BY <1>44 DEF Rotate, local, Aside, DialsStill, StageAt, conf
<1>45. ASSUME UNCHANGED vars PROVE Aside
  BY <1>45 DEF vars, local, conf, Aside, DialsStill
<1> QED
  BY StillStutters, StillWithdraws, StillInstalls, StillAnnounces, <1>1, <1>2, <1>3, <1>4,
     <1>5, <1>6, <1>7, <1>8, <1>9, <1>10, <1>11, <1>12, <1>13, <1>14, <1>15, <1>16, <1>17,
     <1>18, <1>19, <1>20, <1>21, <1>22, <1>23, <1>24, <1>25, <1>26, <1>27, <1>28, <1>29,
     <1>30, <1>31, <1>32, <1>33, <1>34, <1>35, <1>36, <1>37, <1>38, <1>39, <1>40, <1>41,
     <1>42, <1>43, <1>44, <1>45
  DEF Next, Connecting, Dialing, Maintaining, Calling, Abstract!TNext

\* In every behaviour, whoever dials or probes gets what a backend promises.
THEOREM ClientIsTunnel == Spec => IsTunnel
  BY TunnelInit, TunnelStep, StateInit, StateStep, PTL DEF Spec, IsTunnel, Abstract!TSpec
=============================================================================
