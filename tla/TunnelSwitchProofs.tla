-------------------------- MODULE TunnelSwitchProofs --------------------------
(***************************************************************************)
(* Proofs about TunnelSwitch, for any number of requests and dials and     *)
(* every choice of what fails.                                             *)
(***************************************************************************)
EXTENDS TunnelSwitch, TLAPS

-----------------------------------------------------------------------------
(***************************************************************************)
(* Types.                                                                  *)
(***************************************************************************)
\* run() starts in a well typed state.
LEMMA TypeInit == Init => TypeOK
<1> SUFFICES ASSUME Init PROVE TypeOK
  OBVIOUS
<1>1. backend \in Backends /\ file \in Backends /\ host \in SUBSET Parts
  BY DEF Init, Backends
<1>2. lock \in Procs \cup {None}
  BY DEF Init
<1>3. /\ ready \in BOOLEAN /\ dialer \in BOOLEAN /\ stopped \in BOOLEAN
      /\ pinned \in BOOLEAN /\ swept \in BOOLEAN
  BY DEF Init
<1>4. requests \in 0..MaxRequests /\ crashes \in 0..MaxCrashes
  <2>1. requests = 0 /\ crashes = 0
    BY DEF Init
  <2> QED
    BY <2>1, SwitchAssumption
<1>5. pc \in [Procs -> Labels]
  <2>1. \A p \in Procs :
          (IF p # Main THEN "off" ELSE IF file = "amnezia" THEN "up" ELSE "run") \in Labels
    BY DEF Labels
  <2> QED
    BY <2>1 DEF Init
<1>6. task \in [Procs -> {"none", "switch", "restart", "stop"}]
  BY DEF Init
<1>7. name \in [Procs -> Backends] /\ held \in [Procs -> BOOLEAN]
  BY DEF Init, Backends
<1> QED
  BY <1>1, <1>2, <1>3, <1>4, <1>5, <1>6, <1>7 DEF TypeOK

\* Every step of a request, a dial, the daemon or main keeps the types.
LEMMA TypeStep == TypeOK /\ [Next]_vars => TypeOK'
<1> SUFFICES ASSUME TypeOK, [Next]_vars PROVE TypeOK'
  OBVIOUS
<1> USE SwitchAssumption DEF TypeOK, Backends, Parts, Procs, Requests, Labels, Goto, tunnel,
   local, bounds
<1>1. ASSUME NEW p \in Switchers, NEW b \in Backends, SwitchBackend(p, b) PROVE TypeOK'
  BY <1>1 DEF SwitchBackend, Accept
<1>2. ASSUME NEW p \in Restarters, RestartServices(p) PROVE TypeOK'
  BY <1>2 DEF RestartServices, Accept
<1>3. ASSUME NEW p \in Requests \cup {Main}, UpLock(p) PROVE TypeOK'
  BY <1>3 DEF UpLock
<1>4. ASSUME NEW p \in Requests \cup {Main}, Clean(p) PROVE TypeOK'
  BY <1>4 DEF Clean, Sweep
<1>5. ASSUME NEW p \in Requests \cup {Main}, Start(p) PROVE TypeOK'
  <2>1. host' \in SUBSET Parts
    <3>1. host' = host \/ host' = host \cup {"daemon"}
      BY <1>5 DEF Start
    <3> QED
      BY <3>1
  <2>2. lock' \in Procs \cup {None} /\ pc' \in [Procs -> Labels]
    BY <1>5 DEF Start
  <2> QED
    BY <1>5, <2>1, <2>2 DEF Start
<1>6. ASSUME NEW p \in Requests \cup {Main}, Configure(p) PROVE TypeOK'
  <2>1. host' \in SUBSET Parts
    <3>1. CASE /\ "daemon" \in host
               /\ \E some \in SUBSET {"pin"} : host' = host \cup {"route", "rule"} \cup some
      BY <3>1
    <3>2. CASE \E some \in SUBSET {"pin", "route"} :
                 host' = host \cup (IF "daemon" \in host THEN some ELSE some \ {"route"})
      BY <3>2
    <3> QED
      BY <1>6, <3>1, <3>2 DEF Configure
  <2>2. dialer' \in BOOLEAN /\ pinned' \in BOOLEAN
    <3>1. /\ dialer' = TRUE \/ dialer' = dialer
          /\ \E b \in BOOLEAN : pinned' = (pinned \/ b)
      BY <1>6 DEF Configure
    <3> QED
      BY <3>1
  <2>3. pc' \in [Procs -> Labels]
    <3>1. \E l \in Labels : Goto(p, l)
      BY <1>6 DEF Configure
    <3> QED
      BY <3>1
  <2> QED
    BY <1>6, <2>1, <2>2, <2>3 DEF Configure
<1>7. ASSUME NEW p \in Requests \cup {Main}, Handshake(p) PROVE TypeOK'
  BY <1>7 DEF Handshake
<1>7a. ASSUME NEW p \in Requests \cup {Main}, Probe(p) PROVE TypeOK'
  BY <1>7a DEF Probe
<1>8. ASSUME NEW p \in Requests \cup {Main}, Announce(p) PROVE TypeOK'
  BY <1>8 DEF Announce, Finish, Idle
<1>9. ASSUME NEW p \in Requests \cup {Main}, Undo(p) PROVE TypeOK'
  BY <1>9 DEF Undo, Sweep
<1>10. ASSUME NEW p \in Requests \cup {Main}, DownLock(p) PROVE TypeOK'
  BY <1>10 DEF DownLock
<1>11. ASSUME NEW p \in Requests \cup {Main}, Teardown(p) PROVE TypeOK'
  BY <1>11 DEF Teardown, Sweep
<1>12. ASSUME NEW p \in Requests \cup {Main}, Failed(p) PROVE TypeOK'
  BY <1>12 DEF Failed, Finish, Idle
<1>13. ASSUME NEW p \in Requests \cup {Main}, Select(p) PROVE TypeOK'
  BY <1>13 DEF Select
<1>14. ASSUME NEW p \in Requests \cup {Main}, Deselect(p) PROVE TypeOK'
  BY <1>14 DEF Deselect
<1>15. ASSUME NEW p \in Requests \cup {Main}, Persist(p) PROVE TypeOK'
  BY <1>15 DEF Persist
<1>16. ASSUME NEW p \in Requests \cup {Main}, Write(p) PROVE TypeOK'
  BY <1>16 DEF Write, Finish, Idle
<1>17. ASSUME NEW p \in Dialers, MuxDial(p) PROVE TypeOK'
  BY <1>17 DEF MuxDial
<1>18. ASSUME NEW p \in Dialers, DialCheck(p) PROVE TypeOK'
  BY <1>18 DEF DialCheck
<1>19. ASSUME NEW p \in Dialers, DialLoad(p) PROVE TypeOK'
  BY <1>19 DEF DialLoad
<1>20. ASSUME NEW p \in Dialers, DialRecheck(p) PROVE TypeOK'
  BY <1>20 DEF DialRecheck
<1>21. ASSUME NEW p \in Dialers, DialDone(p) PROVE TypeOK'
  BY <1>21 DEF DialDone
<1>22. CASE DaemonExit
  BY <1>22 DEF DaemonExit
<1>23. CASE Stop
  BY <1>23 DEF Stop, Serving
<1>24. CASE UNCHANGED vars
  BY <1>24 DEF vars
<1>25. CASE Crash
  <2>1. /\ host' \in SUBSET Parts /\ lock' \in Procs \cup {None}
        /\ backend' \in Backends /\ file' \in Backends
    BY <1>25 DEF Crash
  <2>2. /\ ready' \in BOOLEAN /\ dialer' \in BOOLEAN /\ pinned' \in BOOLEAN
        /\ swept' \in BOOLEAN /\ stopped' \in BOOLEAN
    BY <1>25 DEF Crash
  <2>3. requests' \in 0..MaxRequests /\ crashes' \in 0..MaxCrashes
    BY <1>25 DEF Crash
  <2>4. pc' \in [Procs -> Labels]
    <3>1. \A p \in Procs :
            (IF p # Main THEN "off" ELSE IF file = "amnezia" THEN "up" ELSE "run") \in Labels
      OBVIOUS
    <3> QED
      BY <1>25, <3>1 DEF Crash
  <2>5. task' \in [Procs -> {"none", "switch", "restart", "stop"}]
    BY <1>25 DEF Crash
  <2>6. name' \in [Procs -> Backends] /\ held' \in [Procs -> BOOLEAN]
    BY <1>25 DEF Crash
  <2> QED
    BY <2>1, <2>2, <2>3, <2>4, <2>5, <2>6
<1> QED
  BY <1>1, <1>2, <1>3, <1>4, <1>5, <1>6, <1>7, <1>7a, <1>8, <1>9, <1>10, <1>11, <1>12, <1>13,
     <1>14, <1>15, <1>16, <1>17, <1>18, <1>19, <1>20, <1>21, <1>22, <1>23, <1>24, <1>25
  DEF Next, Upping, Downing, Switching, Dialing

\* Every state of the switch, the AmneziaWG client and its dials is well typed.
THEOREM TypeCorrect == Spec => []TypeOK
  BY TypeInit, TypeStep, PTL DEF Spec

-----------------------------------------------------------------------------
(***************************************************************************)
(* What Up has built when it holds the mutex, and what is there when       *)
(* nobody does.                                                            *)
(***************************************************************************)
\* The interface can carry a dial, unless the daemon died meanwhile.
Usable == dialer /\ Essential \ host \in {{}, {"daemon", "route"}}

\* Client.mu is held by the one goroutine that is between Lock and Unlock.
MutexInv == \A p \in Procs : pc[p] \in Locked <=> lock = p

\* What downLocked leaves: the pinned route of a killed predecessor at most.
Swept == IF crashes = 0 THEN {} ELSE {"pin"}

\* Whoever holds the mutex has cleared ready; Up starts the daemon from nothing
\* and waits for the handshake with everything in place.
StageInv ==
    /\ lock # None => ~ready
    /\ \A p \in Procs : pc[p] = "start" => host \subseteq Swept /\ swept /\ ~dialer
    /\ \A p \in Procs : pc[p] \in {"handshake", "probe", "announce"} => Usable
    /\ ready => Usable
    /\ (crashes = 0 /\ "pin" \in host) => pinned
    /\ CleanWhenDown

\* Nobody holds the mutex at the start and nothing is in the host.
LEMMA StageInit == Init => MutexInv /\ StageInv
  BY SwitchAssumption DEF Init, MutexInv, StageInv, CleanWhenDown, Leftover, Locked, Procs

\* Lock and Unlock of Up, Down and DialContext keep the mutex exclusive.
LEMMA MutexStep == TypeOK /\ MutexInv /\ [Next]_vars => MutexInv'
<1> SUFFICES ASSUME TypeOK, MutexInv, [Next]_vars PROVE MutexInv'
  OBVIOUS
<1> USE SwitchAssumption DEF TypeOK, MutexInv, Procs, Requests, Locked, Goto, tunnel, local, bounds
<1>1. ASSUME NEW p \in Switchers, NEW b \in Backends, SwitchBackend(p, b) PROVE MutexInv'
  BY <1>1 DEF SwitchBackend, Accept
<1>2. ASSUME NEW p \in Restarters, RestartServices(p) PROVE MutexInv'
  BY <1>2 DEF RestartServices, Accept
<1>3. ASSUME NEW p \in Requests \cup {Main}, UpLock(p) PROVE MutexInv'
  BY <1>3 DEF UpLock
<1>4. ASSUME NEW p \in Requests \cup {Main}, Clean(p) PROVE MutexInv'
  BY <1>4 DEF Clean, Sweep
<1>5. ASSUME NEW p \in Requests \cup {Main}, Start(p) PROVE MutexInv'
  BY <1>5 DEF Start
<1>6. ASSUME NEW p \in Requests \cup {Main}, Configure(p) PROVE MutexInv'
  BY <1>6 DEF Configure
<1>7. ASSUME NEW p \in Requests \cup {Main}, Handshake(p) PROVE MutexInv'
  BY <1>7 DEF Handshake
<1>7a. ASSUME NEW p \in Requests \cup {Main}, Probe(p) PROVE MutexInv'
  BY <1>7a DEF Probe
<1>8. ASSUME NEW p \in Requests \cup {Main}, Announce(p) PROVE MutexInv'
  BY <1>8 DEF Announce, Finish, Idle
<1>9. ASSUME NEW p \in Requests \cup {Main}, Undo(p) PROVE MutexInv'
  BY <1>9 DEF Undo, Sweep
<1>10. ASSUME NEW p \in Requests \cup {Main}, DownLock(p) PROVE MutexInv'
  BY <1>10 DEF DownLock
<1>11. ASSUME NEW p \in Requests \cup {Main}, Teardown(p) PROVE MutexInv'
  BY <1>11 DEF Teardown, Sweep
<1>12. ASSUME NEW p \in Requests \cup {Main}, Failed(p) PROVE MutexInv'
  BY <1>12 DEF Failed, Finish, Idle
<1>13. ASSUME NEW p \in Requests \cup {Main}, Select(p) PROVE MutexInv'
  BY <1>13 DEF Select
<1>14. ASSUME NEW p \in Requests \cup {Main}, Deselect(p) PROVE MutexInv'
  BY <1>14 DEF Deselect
<1>15. ASSUME NEW p \in Requests \cup {Main}, Persist(p) PROVE MutexInv'
  BY <1>15 DEF Persist
<1>16. ASSUME NEW p \in Requests \cup {Main}, Write(p) PROVE MutexInv'
  BY <1>16 DEF Write, Finish, Idle
<1>17. ASSUME NEW p \in Dialers, MuxDial(p) PROVE MutexInv'
  BY <1>17 DEF MuxDial
<1>18. ASSUME NEW p \in Dialers, DialCheck(p) PROVE MutexInv'
  BY <1>18 DEF DialCheck
<1>19. ASSUME NEW p \in Dialers, DialLoad(p) PROVE MutexInv'
  BY <1>19 DEF DialLoad
<1>20. ASSUME NEW p \in Dialers, DialRecheck(p) PROVE MutexInv'
  BY <1>20 DEF DialRecheck
<1>21. ASSUME NEW p \in Dialers, DialDone(p) PROVE MutexInv'
  BY <1>21 DEF DialDone
<1>22. CASE DaemonExit
  BY <1>22 DEF DaemonExit
<1>23. CASE Stop
  BY <1>23 DEF Stop, Serving
<1>24. CASE UNCHANGED vars
  BY <1>24 DEF vars
<1>25. CASE Crash
  BY <1>25 DEF Crash
<1> QED
  BY <1>1, <1>2, <1>3, <1>4, <1>5, <1>6, <1>7, <1>7a, <1>8, <1>9, <1>10, <1>11, <1>12, <1>13,
     <1>14, <1>15, <1>16, <1>17, <1>18, <1>19, <1>20, <1>21, <1>22, <1>23, <1>24, <1>25
  DEF Next, Upping, Downing, Switching, Dialing

\* Every step of Up, of Down and of the host keeps what the stages of Up say.
LEMMA StageStep == TypeOK /\ MutexInv /\ StageInv /\ [Next]_vars => StageInv'
<1> SUFFICES ASSUME TypeOK, MutexInv, StageInv, [Next]_vars PROVE StageInv'
  OBVIOUS
<1> USE SwitchAssumption DEF TypeOK, MutexInv, StageInv, CleanWhenDown, Leftover, Swept, Usable,
      Essential, Parts,
      Procs, Requests, Locked, Goto, tunnel, local, bounds
<1>1. ASSUME NEW p \in Switchers, NEW b \in Backends, SwitchBackend(p, b) PROVE StageInv'
  BY <1>1 DEF SwitchBackend, Accept
<1>2. ASSUME NEW p \in Restarters, RestartServices(p) PROVE StageInv'
  BY <1>2 DEF RestartServices, Accept
<1>3. ASSUME NEW p \in Requests \cup {Main}, UpLock(p) PROVE StageInv'
  BY <1>3 DEF UpLock
<1>4. ASSUME NEW p \in Requests \cup {Main}, Clean(p) PROVE StageInv'
  BY <1>4 DEF Clean, Sweep
<1>5. ASSUME NEW p \in Requests \cup {Main}, Start(p) PROVE StageInv'
  <2>1. /\ pc[p] = "start" /\ lock = p /\ ~ready /\ ~dialer /\ host \subseteq Swept /\ swept
        /\ ready' = ready /\ dialer' = dialer /\ pinned' = pinned /\ swept' = swept
        /\ crashes' = crashes
        /\ \A q \in Procs \ {p} : pc[q] \notin Locked
    BY <1>5 DEF Start
  <2>2. CASE host' = host \cup {"daemon"} /\ Goto(p, "configure") /\ UNCHANGED lock
    <3>1. \A q \in Procs : pc'[q] \notin {"start", "handshake", "probe", "announce"}
      BY <2>1, <2>2
    <3> QED
      BY <2>1, <2>2, <3>1
  <2>3. CASE lock' = None /\ Goto(p, "failed") /\ UNCHANGED host
    <3>1. \A q \in Procs : pc'[q] \notin {"start", "handshake", "probe", "announce"}
      BY <2>1, <2>3
    <3> QED
      BY <2>1, <2>3, <3>1
  <2> QED
    BY <1>5, <2>2, <2>3 DEF Start
<1>6. ASSUME NEW p \in Requests \cup {Main}, Configure(p) PROVE StageInv'
  <2>1. pc[p] = "configure" /\ lock = p /\ ~ready
    BY <1>6 DEF Configure
  <2>2. /\ lock' = lock /\ ready' = ready /\ crashes' = crashes
        /\ \A q \in Procs \ {p} : pc'[q] = pc[q] /\ pc[q] \notin Locked
    BY <1>6, <2>1 DEF Configure
  <2>5. (crashes' = 0 /\ "pin" \in host') => pinned'
    <3>1. PICK some \in SUBSET {"pin", "route"} :
            /\ host' \subseteq host \cup {"route", "rule"} \cup some
            /\ pinned' = (pinned \/ "pin" \in some)
      <4>1. CASE \E some \in SUBSET {"pin"} :
                   /\ host' = host \cup {"route", "rule"} \cup some
                   /\ pinned' = (pinned \/ "pin" \in some)
        BY <4>1
      <4>2. CASE \E some \in SUBSET {"pin", "route"} :
                   /\ host' = host \cup (IF "daemon" \in host THEN some ELSE some \ {"route"})
                   /\ pinned' = (pinned \/ "pin" \in some)
        BY <4>2
      <4> QED
        BY <1>6, <4>1, <4>2 DEF Configure
    <3>2. "pin" \in host' => ("pin" \in host \/ "pin" \in some)
      BY <3>1
    <3>3. (crashes = 0 /\ "pin" \in host) => pinned
      OBVIOUS
    <3> QED
      BY <2>2, <3>1, <3>2, <3>3, Zenon
  <2>3. CASE pc' = [pc EXCEPT ![p] = "handshake"]
    <3>1. dialer' /\ Essential \subseteq host'
      BY <1>6, <2>1, <2>3 DEF Configure
    <3> QED
      BY <2>1, <2>2, <2>3, <2>5, <3>1
  <2>4. CASE pc' = [pc EXCEPT ![p] = "undo"]
    BY <2>1, <2>2, <2>4, <2>5
  <2>6. pc' = [pc EXCEPT ![p] = "handshake"] \/ pc' = [pc EXCEPT ![p] = "undo"]
    BY <1>6 DEF Configure
  <2> QED
    BY <2>3, <2>4, <2>6
<1>7. ASSUME NEW p \in Requests \cup {Main}, Handshake(p) PROVE StageInv'
  BY <1>7 DEF Handshake
<1>7a. ASSUME NEW p \in Requests \cup {Main}, Probe(p) PROVE StageInv'
  BY <1>7a DEF Probe
<1>8. ASSUME NEW p \in Requests \cup {Main}, Announce(p) PROVE StageInv'
  BY <1>8 DEF Announce, Finish, Idle
<1>9. ASSUME NEW p \in Requests \cup {Main}, Undo(p) PROVE StageInv'
  BY <1>9 DEF Undo, Sweep
<1>10. ASSUME NEW p \in Requests \cup {Main}, DownLock(p) PROVE StageInv'
  BY <1>10 DEF DownLock
<1>11. ASSUME NEW p \in Requests \cup {Main}, Teardown(p) PROVE StageInv'
  BY <1>11 DEF Teardown, Sweep
<1>12. ASSUME NEW p \in Requests \cup {Main}, Failed(p) PROVE StageInv'
  BY <1>12 DEF Failed, Finish, Idle
<1>13. ASSUME NEW p \in Requests \cup {Main}, Select(p) PROVE StageInv'
  BY <1>13 DEF Select
<1>14. ASSUME NEW p \in Requests \cup {Main}, Deselect(p) PROVE StageInv'
  BY <1>14 DEF Deselect
<1>15. ASSUME NEW p \in Requests \cup {Main}, Persist(p) PROVE StageInv'
  BY <1>15 DEF Persist
<1>16. ASSUME NEW p \in Requests \cup {Main}, Write(p) PROVE StageInv'
  BY <1>16 DEF Write, Finish, Idle
<1>17. ASSUME NEW p \in Dialers, MuxDial(p) PROVE StageInv'
  BY <1>17 DEF MuxDial
<1>18. ASSUME NEW p \in Dialers, DialCheck(p) PROVE StageInv'
  BY <1>18 DEF DialCheck
<1>19. ASSUME NEW p \in Dialers, DialLoad(p) PROVE StageInv'
  BY <1>19 DEF DialLoad
<1>20. ASSUME NEW p \in Dialers, DialRecheck(p) PROVE StageInv'
  BY <1>20 DEF DialRecheck
<1>21. ASSUME NEW p \in Dialers, DialDone(p) PROVE StageInv'
  BY <1>21 DEF DialDone
<1>22. CASE DaemonExit
  BY <1>22 DEF DaemonExit
<1>23. CASE Stop
  BY <1>23 DEF Stop, Serving
<1>24. CASE UNCHANGED vars
  BY <1>24 DEF vars
<1>25. CASE Crash
  BY <1>25 DEF Crash
<1> QED
  BY <1>1, <1>2, <1>3, <1>4, <1>5, <1>6, <1>7, <1>7a, <1>8, <1>9, <1>10, <1>11, <1>12, <1>13,
     <1>14, <1>15, <1>16, <1>17, <1>18, <1>19, <1>20, <1>21, <1>22, <1>23, <1>24, <1>25
  DEF Next, Upping, Downing, Switching, Dialing

\* The stages of Up hold in every state.
LEMMA StageCorrect == Spec => [](MutexInv /\ StageInv)
  BY TypeInit, TypeStep, StageInit, MutexStep, StageStep, PTL DEF Spec

\* When the mutex is free and the client is not ready, no daemon, route, rule or
\* dialer is left behind, whatever failed: downLocked ends every error path.
THEOREM DownIsClean == Spec => []CleanWhenDown
<1>1. StageInv => CleanWhenDown
  BY DEF StageInv
<1> QED
  BY <1>1, StageCorrect, PTL

\* The client is not announced ready without a dialer and an interface that lacks
\* at most what a dead daemon took along: downLocked clears ready first.
THEOREM ReadyIsUsable == Spec => []ReadyHasInterface
<1>1. StageInv => ReadyHasInterface
  BY DEF StageInv, Usable, ReadyHasInterface
<1> QED
  BY <1>1, StageCorrect, PTL

-----------------------------------------------------------------------------
(***************************************************************************)
(* The AmneziaWG client is a tunnel: every step is a step of Tunnel or     *)
(* leaves what Tunnel speaks of alone.                                     *)
(***************************************************************************)
\* No dial gets further, or returns.
DialsStill ==
    \A q \in Dialers : /\ StageAt(pc'[q]) = StageAt(pc[q])
                       /\ StageAt(pc[q]) \in {"taken", "open"} => held'[q] = held[q]

\* What such a step does to ready and the dialer.
Aside == DialsStill /\ UNCHANGED <<ready, dialer>>
Withdraws == DialsStill /\ ready' = FALSE /\ UNCHANGED dialer
Installs == DialsStill /\ dialer' = TRUE /\ UNCHANGED ready
Removes == DialsStill /\ ready = FALSE /\ ready' = FALSE /\ dialer' = FALSE
Announces == DialsStill /\ dialer = TRUE /\ ready' = TRUE /\ UNCHANGED dialer

\* The mapped dials are unchanged when no dial moves.
LEMMA StillKeeps == DialsStill => DialStages' = DialStages /\ DialersTaken' = DialersTaken
<1> SUFFICES ASSUME DialsStill PROVE DialStages' = DialStages /\ DialersTaken' = DialersTaken
  OBVIOUS
<1>1. \A q \in Dialers : (StageAt(pc[q]) \in {"taken", "open"} /\ held[q])'
                           = (StageAt(pc[q]) \in {"taken", "open"} /\ held[q])
  BY DEF DialsStill
<1> QED
  BY <1>1 DEF DialsStill, DialStages, DialersTaken

\* A step that moves no dial and leaves ready and the dialer alone is a stutter, ...
LEMMA StillStutters == Aside => UNCHANGED Abstract!tVars
  BY StillKeeps DEF Aside, Abstract!tVars

\* ... one that clears ready a withdrawal, ...
LEMMA StillWithdraws == Withdraws => Abstract!TWithdraw
  BY StillKeeps DEF Withdraws, Abstract!TWithdraw

\* ... one that builds the dialer an installation, ...
LEMMA StillInstalls == Installs => \E d \in {TRUE} : Abstract!TInstall(d)
  BY StillKeeps DEF Installs, Abstract!TInstall

\* ... downLocked on a client that is not ready a removal, ...
LEMMA StillRemoves == Removes => Abstract!TRemove
  BY StillKeeps DEF Removes, Abstract!TRemove

\* ... and the end of a successful Up an announcement.
LEMMA StillAnnounces == Announces => Abstract!TAnnounce
  BY StillKeeps DEF Announces, Abstract!TAnnounce

\* A step of one dial moves it only.
LEMMA OneDial ==
    ASSUME NEW p \in Dialers, \A q \in Dialers \ {p} : pc'[q] = pc[q] /\ held'[q] = held[q]
    PROVE  /\ DialStages' = [DialStages EXCEPT ![p] = StageAt(pc'[p])]
           /\ DialersTaken' = [DialersTaken EXCEPT ![p] =
                StageAt(pc'[p]) \in {"taken", "open"} /\ held'[p]]
           /\ StageAt(pc[p]) \notin {"taken", "open"} =>
                DialersTaken = [DialersTaken EXCEPT ![p] = FALSE]
  BY DEF DialStages, DialersTaken

\* run() starts without a dialer and without dials.
LEMMA TunnelInit == Init => Abstract!TInit
<1> SUFFICES ASSUME Init PROVE Abstract!TInit
  OBVIOUS
<1>1. \A p \in Dialers : pc[p] = "off"
  BY SwitchAssumption DEF Init, Procs, Requests
<1>2. \A p \in Dialers : StageAt(pc[p]) = "idle"
  BY <1>1 DEF StageAt
<1> QED
  BY <1>2 DEF Init, Abstract!TInit, DialStages, DialersTaken

\* Every step of a request, of Up, of Down, of a dial or of the host keeps the
\* promise: whoever holds the mutex has cleared ready (StageInv).
LEMMA TunnelStep ==
    TypeOK /\ MutexInv /\ StageInv /\ [Next]_vars => [Abstract!TNext]_(Abstract!tVars)
<1> SUFFICES ASSUME TypeOK, MutexInv, StageInv, [Next]_vars
             PROVE  [Abstract!TNext]_(Abstract!tVars)
  OBVIOUS
<1> USE SwitchAssumption DEF TypeOK, MutexInv, StageInv, Usable, Procs, Requests, Locked, Goto,
      tunnel, local, bounds
<1>1. ASSUME NEW p \in Switchers, NEW b \in Backends, SwitchBackend(p, b) PROVE Aside
  BY <1>1 DEF SwitchBackend, Accept, Aside, DialsStill, StageAt
<1>2. ASSUME NEW p \in Restarters, RestartServices(p) PROVE Aside
  BY <1>2 DEF RestartServices, Accept, Aside, DialsStill, StageAt
<1>3. ASSUME NEW p \in Requests \cup {Main}, UpLock(p) PROVE Withdraws
  BY <1>3 DEF UpLock, Withdraws, DialsStill, StageAt
<1>4. ASSUME NEW p \in Requests \cup {Main}, Clean(p) PROVE Removes
  BY <1>4 DEF Clean, Removes, DialsStill, StageAt
<1>5. ASSUME NEW p \in Requests \cup {Main}, Start(p) PROVE Aside
  BY <1>5 DEF Start, Aside, DialsStill, StageAt
<1>6. ASSUME NEW p \in Requests \cup {Main}, Configure(p) PROVE Aside \/ Installs
  BY <1>6 DEF Configure, Aside, Installs, DialsStill, StageAt
<1>7. ASSUME NEW p \in Requests \cup {Main}, Handshake(p) PROVE Aside
  BY <1>7 DEF Handshake, Aside, DialsStill, StageAt
<1>8. ASSUME NEW p \in Requests \cup {Main}, Probe(p) PROVE Aside
  BY <1>8 DEF Probe, Aside, DialsStill, StageAt
<1>9. ASSUME NEW p \in Requests \cup {Main}, Announce(p) PROVE Announces
  BY <1>9 DEF Announce, Finish, Idle, Announces, DialsStill, StageAt
<1>10. ASSUME NEW p \in Requests \cup {Main}, Undo(p) PROVE Removes
  BY <1>10 DEF Undo, Removes, DialsStill, StageAt
<1>11. ASSUME NEW p \in Requests \cup {Main}, DownLock(p) PROVE Withdraws
  BY <1>11 DEF DownLock, Withdraws, DialsStill, StageAt
<1>12. ASSUME NEW p \in Requests \cup {Main}, Teardown(p) PROVE Removes
  BY <1>12 DEF Teardown, Removes, DialsStill, StageAt
<1>13. ASSUME NEW p \in Requests \cup {Main}, Failed(p) PROVE Aside
  BY <1>13 DEF Failed, Finish, Idle, Aside, DialsStill, StageAt
<1>14. ASSUME NEW p \in Requests \cup {Main}, Select(p) PROVE Aside
  BY <1>14 DEF Select, Aside, DialsStill, StageAt
<1>15. ASSUME NEW p \in Requests \cup {Main}, Deselect(p) PROVE Aside
  BY <1>15 DEF Deselect, Aside, DialsStill, StageAt
<1>16. ASSUME NEW p \in Requests \cup {Main}, Persist(p) PROVE Aside
  BY <1>16 DEF Persist, Aside, DialsStill, StageAt
<1>17. ASSUME NEW p \in Requests \cup {Main}, Write(p) PROVE Aside
  BY <1>17 DEF Write, Finish, Idle, Aside, DialsStill, StageAt
<1>18. ASSUME NEW p \in Dialers, MuxDial(p) PROVE Aside
  BY <1>18 DEF MuxDial, Aside, DialsStill, StageAt
<1>19. ASSUME NEW p \in Dialers, DialCheck(p) PROVE Aside \/ Abstract!TAdmit(p)
  <2>1. /\ \A q \in Dialers \ {p} : pc'[q] = pc[q] /\ held'[q] = held[q]
        /\ UNCHANGED <<ready, dialer>>
    BY <1>19 DEF DialCheck
  <2>2. CASE ready
    <3>1. pc[p] = "check" /\ pc'[p] = "load"
      BY <1>19, <2>2 DEF DialCheck
    <3> QED
      BY <2>1, <2>2, <3>1, OneDial DEF Abstract!TAdmit, DialStages, StageAt
  <2>3. CASE ~ready
    BY <1>19, <2>1, <2>3 DEF DialCheck, Aside, DialsStill, StageAt
  <2> QED
    BY <2>2, <2>3
<1>20. ASSUME NEW p \in Dialers, DialLoad(p) PROVE Abstract!TTake(p)
  <2>1. /\ \A q \in Dialers \ {p} : pc'[q] = pc[q] /\ held'[q] = held[q]
        /\ UNCHANGED <<ready, dialer>>
    BY <1>20 DEF DialLoad
  <2>2. pc[p] = "load" /\ pc'[p] = "recheck" /\ held'[p] = dialer
    BY <1>20 DEF DialLoad
  <2>3. (StageAt(pc'[p]) \in {"taken", "open"} /\ held'[p]) = dialer
    BY <2>2 DEF StageAt
  <2> QED
    BY <2>1, <2>2, <2>3, OneDial DEF Abstract!TTake, DialStages, StageAt
<1>21. ASSUME NEW p \in Dialers, DialRecheck(p) PROVE Abstract!TBegin(p) \/ Abstract!TLeave(p)
  <2>1. /\ \A q \in Dialers \ {p} : pc'[q] = pc[q] /\ held'[q] = held[q]
        /\ UNCHANGED <<ready, dialer>>
    BY <1>21 DEF DialRecheck
  <2>2. CASE held[p] /\ ready
    <3>1. pc[p] = "recheck" /\ pc'[p] = "dial" /\ held'[p] = held[p]
      BY <1>21, <2>2 DEF DialRecheck
    <3>2. DialersTaken[p] = held[p]
      BY <3>1 DEF DialersTaken, StageAt
    <3>3. DialersTaken' = DialersTaken
      BY <2>1, <3>1 DEF DialersTaken, StageAt
    <3> QED
      BY <2>1, <2>2, <3>1, <3>2, <3>3, OneDial DEF Abstract!TBegin, DialStages, StageAt
  <2>3. CASE ~(held[p] /\ ready)
    <3>1. pc[p] = "recheck" /\ pc'[p] = "off"
      BY <1>21, <2>3 DEF DialRecheck
    <3> QED
      BY <2>1, <3>1, OneDial DEF Abstract!TLeave, DialStages, StageAt
  <2> QED
    BY <2>2, <2>3
<1>22. ASSUME NEW p \in Dialers, DialDone(p) PROVE Abstract!TLeave(p)
  <2>1. /\ \A q \in Dialers \ {p} : pc'[q] = pc[q] /\ held'[q] = held[q]
        /\ UNCHANGED <<ready, dialer>>
    BY <1>22 DEF DialDone
  <2>2. pc[p] = "dial" /\ pc'[p] = "off"
    BY <1>22 DEF DialDone
  <2> QED
    BY <2>1, <2>2, OneDial DEF Abstract!TLeave, DialStages, StageAt
<1>23. ASSUME DaemonExit PROVE Aside
  BY <1>23 DEF DaemonExit, Aside, DialsStill, StageAt
<1>24. ASSUME Stop PROVE Aside
  BY <1>24 DEF Stop, Serving, Aside, DialsStill, StageAt
<1>25. ASSUME Crash PROVE Abstract!TRestart
  <2>1. \A q \in Dialers : pc'[q] = "off"
    BY <1>25 DEF Crash
  <2>2. \A q \in Dialers : StageAt(pc'[q]) = "idle"
    BY <2>1 DEF StageAt
  <2> QED
    BY <1>25, <2>2 DEF Crash, Abstract!TRestart, DialStages, DialersTaken
<1>26. ASSUME UNCHANGED vars PROVE Aside
  BY <1>26 DEF vars, Aside, DialsStill, StageAt
<1> QED
  BY StillStutters, StillWithdraws, StillInstalls, StillRemoves, StillAnnounces, <1>1, <1>2,
     <1>3, <1>4, <1>5, <1>6, <1>7, <1>8, <1>9, <1>10, <1>11, <1>12, <1>13, <1>14, <1>15, <1>16,
     <1>17, <1>18, <1>19, <1>20, <1>21, <1>22, <1>23, <1>24, <1>25, <1>26
  DEF Next, Upping, Downing, Switching, Dialing, Abstract!TNext

\* In every behaviour, across switches, restarts, failed Ups and crashes, whoever
\* dials through AmneziaWG gets what a backend promises.
THEOREM AmneziaIsTunnel == Spec => IsTunnel
  BY TunnelInit, TunnelStep, TypeCorrect, StageCorrect, PTL DEF Spec, IsTunnel, Abstract!TSpec
=============================================================================
