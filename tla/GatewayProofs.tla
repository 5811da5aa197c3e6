---------------------------- MODULE GatewayProofs ----------------------------
(***************************************************************************)
(* Proofs about Gateway, for any number of updaters and restart requests,  *)
(* edits, reloads, restarts, failing nft commands, stops and kills, and    *)
(* about Routing, the way of a connection through the table's chains.      *)
(***************************************************************************)
EXTENDS Gateway, Routing, TLAPS

-----------------------------------------------------------------------------
(***************************************************************************)
(* The inductive invariant.                                                *)
(***************************************************************************)
\* Which goroutine can be where, and where it returns to.
PlaceInv ==
    /\ pc[Main] \in {"run", "shutdown", "flush", "wait", "exited", "killed"}
    /\ ret[Applier] \in {"off", "fetch"}
    /\ ret[Hup] \in {"off", "load", "reapply"}
    /\ \A p \in Updaters \cup Restarters \cup {Main} : ret[p] = "off"
    /\ \A p \in Updaters : pc[p] \in {"off", "push", "update", "patch", "delete", "add", "dead"}
    /\ \A p \in Restarters : pc[p] \in {"off", "fetch", "apply", "patch", "delete", "add", "dead"}
    /\ pc[Applier] \in {"start", "off", "push", "update", "fetch", "apply", "patch", "delete",
                        "add", "backoff", "dead"}
    /\ pc[Hup] \in {"off", "replace", "static", "push", "update", "load", "reapply", "apply",
                    "patch", "delete", "add", "dead"}
    /\ restarts = 0 => \A p \in Restarters : pc[p] \in {"off", "dead"}

\* Who holds main's mu and the mutex of a gateway.  A rebuildPush that edits the
\* table does so for the current gateway, under both, and found it active.
MutexInv ==
    /\ \A p \in Procs :
         /\ pc[p] = "update" => mu = p
         /\ mu = p => pc[p] \in {"update", "patch", "delete", "add", "replace", "dead"}
         /\ InNft(p) => lock[target[p]] = p
         /\ InNft(p) /\ mu = p => target[p] = gw /\ active[gw]
    /\ \A p \in Updaters : InNft(p) => mu = p
    /\ pc[Hup] = "replace" => mu = Hup /\ gw < MaxReloads

\* Only the current gateway and those it replaced are at work, the SIGHUP
\* handler always on the current one.
GenerationInv ==
    /\ \A p \in Procs : target[p] <= gw
    /\ \A g \in Generations : g > gw => ~active[g]
    /\ pc[Hup] \in {"apply", "patch", "delete", "add"} => target[Hup] = gw

\* Without restart requests nothing is active before the Applier has succeeded,
\* and until then nobody else edits the table.
FirstApplyInv ==
    (restarts = 0 /\ pc[Applier] \notin {"off", "dead"}) =>
        /\ \A g \in Generations : ~active[g]
        /\ ~wasActive
        /\ \A p \in Procs \ {Applier} : pc[p] # "apply" /\ ~InNft(p)
        /\ pc[Applier] \in {"apply", "patch", "delete", "add"} => ret[Applier] = "off"

\* ActiveMeansTable with the mutex of the current gateway only: whoever lets go of
\* it leaves an active gateway with its table.
TableInv ==
    (~stopped /\ lock[gw] = None /\ active[gw] /\ (gw = 0 \/ restarts = 0)) => table # {}

\* TableIsEngine likewise; a script that follows a "delete table" that worked finds
\* no table.
EngineInv ==
    (gw = 0 /\ ~stopped /\ DeletesWork) =>
        /\ lock[gw] = None /\ active[gw] => table = {own[gw]}
        /\ \A p \in Procs : pc[p] = "add" => table = {}

\* The shutdown cancels ctx first.
StopInv == pc[Main] \in {"shutdown", "flush", "wait", "exited"} => stopped

IInv ==
    /\ TypeOK /\ PlaceInv /\ MutexInv /\ GenerationInv /\ FirstApplyInv
    /\ TableInv /\ EngineInv /\ StopInv
-----------------------------------------------------------------------------
(***************************************************************************)
(* Every step keeps it.                                                    *)
(***************************************************************************)
\* Every step keeps the types; that a reload stays within its bound was checked when
\* mu was taken.
LEMMA TypeStep == TypeOK /\ MutexInv /\ [Next]_vars => TypeOK'
<1> SUFFICES ASSUME TypeOK, MutexInv, [Next]_vars PROVE TypeOK'
  OBVIOUS
<1> USE GatewayAssumption DEF TypeOK, Labels, shared, inputs, locals, bounds, Goto
<1>1. ASSUME NEW p \in Procs, PushLock(p) PROVE TypeOK'
  <2>1. Wanted \in Engines
    BY DEF Wanted, Engines
  <2> QED
    BY <1>1, <2>1 DEF PushLock
<1>2. ASSUME NEW p \in Procs, UpdateEngine(p) PROVE TypeOK'
  BY <1>2 DEF UpdateEngine
<1>3. ASSUME NEW p \in Procs, FetchGateway(p) PROVE TypeOK'
  BY <1>3 DEF FetchGateway, Call
<1>4. ASSUME NEW p \in Procs, Apply(p) PROVE TypeOK'
  BY <1>4 DEF Apply
<1>5. ASSUME NEW p \in Procs, PatchSets(p) PROVE TypeOK'
  BY <1>5 DEF PatchSets, Unlock, Fault
<1>6. ASSUME NEW p \in Procs, DeleteTable(p) PROVE TypeOK'
  BY <1>6 DEF DeleteTable, Fault
<1>7. ASSUME NEW p \in Procs, AddTable(p) PROVE TypeOK'
  <2>0. own[target[p]] \in Engines
    OBVIOUS
  <2>1. table' \in SUBSET Engines /\ active' \in [Generations -> BOOLEAN]
    <3>1. table' = table \/ table' = table \cup {own[target[p]]}
      BY <1>7 DEF AddTable
    <3>2. active' \in [Generations -> BOOLEAN]
      BY <1>7 DEF AddTable
    <3> QED
      BY <2>0, <3>1, <3>2
  <2>2. faults' \in [NftFaults -> 0..MaxFaults]
    BY <1>7 DEF AddTable, Fault
  <2>3. lock' \in [Generations -> Procs \cup {None}] /\ mu' \in Procs \cup {None}
    BY <1>7 DEF AddTable, Unlock
  <2>4. pc' \in [Procs -> Labels]
    BY <1>7 DEF AddTable, Unlock
  <2> QED
    BY <1>7, <2>1, <2>2, <2>3, <2>4 DEF AddTable
<1>8. ASSUME NEW p \in Updaters, EditNets(p) PROVE TypeOK'
  <2>1. p \in Procs
    BY DEF Procs
  <2> QED
    BY <1>8, <2>1 DEF EditNets, Call
<1>9. ASSUME NEW p \in Updaters, MoveServer(p) PROVE TypeOK'
  <2>1. p \in Procs
    BY DEF Procs
  <2> QED
    BY <1>9, <2>1 DEF MoveServer, Call
<1>10. ASSUME NEW p \in Restarters, RestartServices(p) PROVE TypeOK'
  <2>1. p \in Procs
    BY DEF Procs
  <2> QED
    BY <1>10, <2>1 DEF RestartServices, Call
<1>11. CASE ApplierStart
  BY <1>11 DEF ApplierStart, Call
<1>12. CASE ApplierRetry
  BY <1>12 DEF ApplierRetry
<1>13. CASE HupReload
  <2>1. Hup \in Procs
    BY DEF Procs
  <2> QED
    BY <1>13, <2>1 DEF HupReload
<1>14. CASE HupReplace
  <2>1. gw + 1 \in Generations /\ Hup \in Procs
    BY <1>14 DEF HupReplace, MutexInv, Generations, Procs
  <2>2. engine' \in Engines
    BY <1>14, <2>1 DEF HupReplace, Engines
  <2> QED
    BY <1>14, <2>1, <2>2 DEF HupReplace
<1>15. CASE HupStatic
  <2>1. list' \in 0..MaxEdits
    BY <1>15 DEF HupStatic
  <2> QED
    BY <1>15, <2>1 DEF HupStatic, Call
<1>16. CASE HupLoad
  BY <1>16 DEF HupLoad, Call
<1>17. CASE HupReapply
  BY <1>17 DEF HupReapply, Call
<1>18. CASE Stop
  <2>1. stops' \in 0..MaxStops
    BY <1>18 DEF Stop
  <2> QED
    BY <1>18, <2>1 DEF Stop
<1>19. CASE MainFetch
  BY <1>19 DEF MainFetch
<1>20. CASE Flush
  <2>1. table' \in SUBSET Engines /\ active' \in [Generations -> BOOLEAN]
    BY <1>20 DEF Flush, Procs
  <2>2. faults' \in [NftFaults -> 0..MaxFaults]
    BY <1>20 DEF Flush, Fault
  <2> QED
    BY <1>20, <2>1, <2>2 DEF Flush
<1>21. CASE Exit
  BY <1>21 DEF Exit, Halt
<1>22. CASE Kill
  BY <1>22 DEF Kill, Halt
<1>23. CASE Boot
  <2>1. 0 \in Generations
    BY DEF Generations
  <2>2. engine' \in Engines
    BY <1>23, <2>1 DEF Boot, Engines
  <2>3. table' \in SUBSET Engines /\ faults' \in [NftFaults -> 0..MaxFaults]
    BY <1>23 DEF Boot, Fault
  <2>4. pc' \in [Procs -> Labels] /\ target' \in [Procs -> Generations]
    BY <1>23, <2>1 DEF Boot
  <2>5. ret' \in [Procs -> Labels] /\ own' \in [Generations -> Engines]
    BY <1>23, <2>2 DEF Boot
  <2>6. /\ lock' \in [Generations -> Procs \cup {None}] /\ mu' \in Procs \cup {None}
        /\ active' \in [Generations -> BOOLEAN] /\ wasActive' \in BOOLEAN
        /\ stopped' \in BOOLEAN /\ gw' \in Generations
    BY <1>23, <2>1 DEF Boot
  <2>7. /\ list' \in 0..MaxEdits /\ server' \in 0..MaxMoves
        /\ restarts' \in 0..MaxRestarts /\ stops' \in 0..MaxStops
    BY <1>23 DEF Boot
  <2> QED
    BY <2>2, <2>3, <2>4, <2>5, <2>6, <2>7
<1>24. CASE UNCHANGED vars
  BY <1>24 DEF vars
<1> QED
  BY <1>1, <1>2, <1>3, <1>4, <1>5, <1>6, <1>7, <1>8, <1>9, <1>10, <1>11, <1>12, <1>13, <1>14,
     <1>15, <1>16, <1>17, <1>18, <1>19, <1>20, <1>21, <1>22, <1>23, <1>24
  DEF Next, Driving, Editing, Hupping, Stopping

\* Goroutines stay where their code lets them be.
LEMMA PlaceStep == TypeOK /\ PlaceInv /\ [Next]_vars => PlaceInv'
<1> SUFFICES ASSUME TypeOK, PlaceInv, [Next]_vars PROVE PlaceInv'
  OBVIOUS
<1> USE GatewayAssumption DEF TypeOK, PlaceInv, Procs, shared, inputs, locals, bounds, Goto
<1>1. ASSUME NEW p \in Procs, PushLock(p) PROVE PlaceInv'
  BY <1>1 DEF PushLock
<1>2. ASSUME NEW p \in Procs, UpdateEngine(p) PROVE PlaceInv'
  BY <1>2 DEF UpdateEngine
<1>3. ASSUME NEW p \in Procs, FetchGateway(p) PROVE PlaceInv'
  BY <1>3 DEF FetchGateway, Call
<1>4. ASSUME NEW p \in Procs, Apply(p) PROVE PlaceInv'
  BY <1>4 DEF Apply
<1>5. ASSUME NEW p \in Procs, PatchSets(p) PROVE PlaceInv'
  BY <1>5 DEF PatchSets, Unlock, Fault
<1>6. ASSUME NEW p \in Procs, DeleteTable(p) PROVE PlaceInv'
  BY <1>6 DEF DeleteTable, Fault
<1>7. ASSUME NEW p \in Procs, AddTable(p) PROVE PlaceInv'
  BY <1>7 DEF AddTable, Unlock, Fault
<1>8. ASSUME NEW p \in Updaters, EditNets(p) PROVE PlaceInv'
  BY <1>8 DEF EditNets, Call
<1>9. ASSUME NEW p \in Updaters, MoveServer(p) PROVE PlaceInv'
  BY <1>9 DEF MoveServer, Call
<1>10. ASSUME NEW p \in Restarters, RestartServices(p) PROVE PlaceInv'
  BY <1>10 DEF RestartServices, Call
<1>11. CASE ApplierStart
  BY <1>11 DEF ApplierStart, Call
<1>12. CASE ApplierRetry
  BY <1>12 DEF ApplierRetry
<1>13. CASE HupReload
  BY <1>13 DEF HupReload
<1>14. CASE HupReplace
  BY <1>14 DEF HupReplace
<1>15. CASE HupStatic
  BY <1>15 DEF HupStatic, Call
<1>16. CASE HupLoad
  BY <1>16 DEF HupLoad, Call
<1>17. CASE HupReapply
  BY <1>17 DEF HupReapply, Call
<1>18. CASE Stop
  BY <1>18 DEF Stop
<1>19. CASE MainFetch
  BY <1>19 DEF MainFetch
<1>20. CASE Flush
  BY <1>20 DEF Flush, Fault
<1>21. CASE Exit
  BY <1>21 DEF Exit, Halt
<1>22. CASE Kill
  BY <1>22 DEF Kill, Halt
<1>23. CASE Boot
  BY <1>23 DEF Boot, Fault
<1>24. CASE UNCHANGED vars
  BY <1>24 DEF vars
<1> QED
  BY <1>1, <1>2, <1>3, <1>4, <1>5, <1>6, <1>7, <1>8, <1>9, <1>10, <1>11, <1>12, <1>13, <1>14,
     <1>15, <1>16, <1>17, <1>18, <1>19, <1>20, <1>21, <1>22, <1>23, <1>24
  DEF Next, Driving, Editing, Hupping, Stopping

\* The mutexes exclude, and a push keeps the gateway it found active.
LEMMA MutexStep == TypeOK /\ PlaceInv /\ MutexInv /\ [Next]_vars => MutexInv'
<1> SUFFICES ASSUME TypeOK, PlaceInv, MutexInv, [Next]_vars PROVE MutexInv'
  OBVIOUS
<1> USE GatewayAssumption DEF TypeOK, PlaceInv, MutexInv, InNft, Procs, shared, inputs, locals,
   bounds, Goto
<1>1. ASSUME NEW p \in Procs, PushLock(p) PROVE MutexInv'
  BY <1>1 DEF PushLock
<1>2. ASSUME NEW p \in Procs, UpdateEngine(p) PROVE MutexInv'
  BY <1>2 DEF UpdateEngine
<1>3. ASSUME NEW p \in Procs, FetchGateway(p) PROVE MutexInv'
  BY <1>3 DEF FetchGateway, Call
<1>4. ASSUME NEW p \in Procs, Apply(p) PROVE MutexInv'
  BY <1>4 DEF Apply
<1>5. ASSUME NEW p \in Procs, PatchSets(p) PROVE MutexInv'
  BY <1>5 DEF PatchSets, Unlock, Fault
<1>6. ASSUME NEW p \in Procs, DeleteTable(p) PROVE MutexInv'
  BY <1>6 DEF DeleteTable, Fault
<1>7. ASSUME NEW p \in Procs, AddTable(p) PROVE MutexInv'
  BY <1>7 DEF AddTable, Unlock, Fault
<1>8. ASSUME NEW p \in Updaters, EditNets(p) PROVE MutexInv'
  BY <1>8 DEF EditNets, Call
<1>9. ASSUME NEW p \in Updaters, MoveServer(p) PROVE MutexInv'
  BY <1>9 DEF MoveServer, Call
<1>10. ASSUME NEW p \in Restarters, RestartServices(p) PROVE MutexInv'
  BY <1>10 DEF RestartServices, Call
<1>11. CASE ApplierStart
  BY <1>11 DEF ApplierStart, Call
<1>12. CASE ApplierRetry
  BY <1>12 DEF ApplierRetry
<1>13. CASE HupReload
  BY <1>13 DEF HupReload
<1>14. CASE HupReplace
  BY <1>14 DEF HupReplace
<1>15. CASE HupStatic
  BY <1>15 DEF HupStatic, Call
<1>16. CASE HupLoad
  BY <1>16 DEF HupLoad, Call
<1>17. CASE HupReapply
  BY <1>17 DEF HupReapply, Call
<1>18. CASE Stop
  BY <1>18 DEF Stop
<1>19. CASE MainFetch
  BY <1>19 DEF MainFetch
<1>20. CASE Flush
  BY <1>20 DEF Flush, Fault
<1>21. CASE Exit
  BY <1>21 DEF Exit, Halt
<1>22. CASE Kill
  BY <1>22 DEF Kill, Halt
<1>23. CASE Boot
  BY <1>23 DEF Boot, Fault
<1>24. CASE UNCHANGED vars
  BY <1>24 DEF vars
<1> QED
  BY <1>1, <1>2, <1>3, <1>4, <1>5, <1>6, <1>7, <1>8, <1>9, <1>10, <1>11, <1>12, <1>13, <1>14,
     <1>15, <1>16, <1>17, <1>18, <1>19, <1>20, <1>21, <1>22, <1>23, <1>24
  DEF Next, Driving, Editing, Hupping, Stopping

\* Only generations up to the current one are at work.
LEMMA GenerationStep ==
    TypeOK /\ PlaceInv /\ MutexInv /\ GenerationInv /\ [Next]_vars
    => GenerationInv'
<1> SUFFICES ASSUME TypeOK, PlaceInv, MutexInv, GenerationInv, [Next]_vars PROVE GenerationInv'
  OBVIOUS
<1> USE GatewayAssumption DEF TypeOK, PlaceInv, MutexInv, InNft, GenerationInv, Procs,
   Generations, shared, inputs, locals, bounds, Goto
<1>1. ASSUME NEW p \in Procs, PushLock(p) PROVE GenerationInv'
  BY <1>1 DEF PushLock
<1>2. ASSUME NEW p \in Procs, UpdateEngine(p) PROVE GenerationInv'
  BY <1>2 DEF UpdateEngine
<1>3. ASSUME NEW p \in Procs, FetchGateway(p) PROVE GenerationInv'
  BY <1>3 DEF FetchGateway, Call
<1>4. ASSUME NEW p \in Procs, Apply(p) PROVE GenerationInv'
  BY <1>4 DEF Apply
<1>5. ASSUME NEW p \in Procs, PatchSets(p) PROVE GenerationInv'
  BY <1>5 DEF PatchSets, Unlock, Fault
<1>6. ASSUME NEW p \in Procs, DeleteTable(p) PROVE GenerationInv'
  BY <1>6 DEF DeleteTable, Fault
<1>7. ASSUME NEW p \in Procs, AddTable(p) PROVE GenerationInv'
  <2>1. UNCHANGED <<gw, target>>
    BY <1>7 DEF AddTable
  <2>2. \A g \in Generations : g > gw => ~active'[g]
    BY <1>7 DEF AddTable
  <2>3. pc'[Hup] \in {"apply", "patch", "delete", "add"} => target'[Hup] = gw'
    BY <1>7 DEF AddTable, Unlock
  <2> QED
    BY <2>1, <2>2, <2>3
<1>8. ASSUME NEW p \in Updaters, EditNets(p) PROVE GenerationInv'
  BY <1>8 DEF EditNets, Call
<1>9. ASSUME NEW p \in Updaters, MoveServer(p) PROVE GenerationInv'
  BY <1>9 DEF MoveServer, Call
<1>10. ASSUME NEW p \in Restarters, RestartServices(p) PROVE GenerationInv'
  BY <1>10 DEF RestartServices, Call
<1>11. CASE ApplierStart
  BY <1>11 DEF ApplierStart, Call
<1>12. CASE ApplierRetry
  BY <1>12 DEF ApplierRetry
<1>13. CASE HupReload
  BY <1>13 DEF HupReload
<1>14. CASE HupReplace
  BY <1>14 DEF HupReplace
<1>15. CASE HupStatic
  BY <1>15 DEF HupStatic, Call
<1>16. CASE HupLoad
  BY <1>16 DEF HupLoad, Call
<1>17. CASE HupReapply
  BY <1>17 DEF HupReapply, Call
<1>18. CASE Stop
  BY <1>18 DEF Stop
<1>19. CASE MainFetch
  BY <1>19 DEF MainFetch
<1>20. CASE Flush
  BY <1>20 DEF Flush, Fault
<1>21. CASE Exit
  BY <1>21 DEF Exit, Halt
<1>22. CASE Kill
  BY <1>22 DEF Kill, Halt
<1>23. CASE Boot
  BY <1>23 DEF Boot, Fault
<1>24. CASE UNCHANGED vars
  BY <1>24 DEF vars
<1> QED
  BY <1>1, <1>2, <1>3, <1>4, <1>5, <1>6, <1>7, <1>8, <1>9, <1>10, <1>11, <1>12, <1>13, <1>14,
     <1>15, <1>16, <1>17, <1>18, <1>19, <1>20, <1>21, <1>22, <1>23, <1>24
  DEF Next, Driving, Editing, Hupping, Stopping

\* Before the Applier's first success nothing is active.
LEMMA FirstApplyStep ==
    TypeOK /\ PlaceInv /\ MutexInv /\ GenerationInv /\ FirstApplyInv /\ [Next]_vars
    => FirstApplyInv'
<1> SUFFICES ASSUME TypeOK, PlaceInv, MutexInv, GenerationInv, FirstApplyInv, [Next]_vars
             PROVE  FirstApplyInv'
  OBVIOUS
<1> USE GatewayAssumption DEF TypeOK, PlaceInv, MutexInv, InNft, GenerationInv, FirstApplyInv,
   Procs, shared, inputs, locals, bounds, Goto
<1>1. ASSUME NEW p \in Procs, PushLock(p) PROVE FirstApplyInv'
  BY <1>1 DEF PushLock
<1>2. ASSUME NEW p \in Procs, UpdateEngine(p) PROVE FirstApplyInv'
  BY <1>2 DEF UpdateEngine
<1>3. ASSUME NEW p \in Procs, FetchGateway(p) PROVE FirstApplyInv'
  BY <1>3 DEF FetchGateway, Call
<1>4. ASSUME NEW p \in Procs, Apply(p) PROVE FirstApplyInv'
  BY <1>4 DEF Apply
<1>5. ASSUME NEW p \in Procs, PatchSets(p) PROVE FirstApplyInv'
  BY <1>5 DEF PatchSets, Unlock, Fault
<1>6. ASSUME NEW p \in Procs, DeleteTable(p) PROVE FirstApplyInv'
  BY <1>6 DEF DeleteTable, Fault
<1>7. ASSUME NEW p \in Procs, AddTable(p) PROVE FirstApplyInv'
  BY <1>7 DEF AddTable, Unlock, Fault
<1>8. ASSUME NEW p \in Updaters, EditNets(p) PROVE FirstApplyInv'
  BY <1>8 DEF EditNets, Call
<1>9. ASSUME NEW p \in Updaters, MoveServer(p) PROVE FirstApplyInv'
  BY <1>9 DEF MoveServer, Call
<1>10. ASSUME NEW p \in Restarters, RestartServices(p) PROVE FirstApplyInv'
  BY <1>10 DEF RestartServices, Call
<1>11. CASE ApplierStart
  BY <1>11 DEF ApplierStart, Call
<1>12. CASE ApplierRetry
  BY <1>12 DEF ApplierRetry
<1>13. CASE HupReload
  BY <1>13 DEF HupReload
<1>14. CASE HupReplace
  BY <1>14 DEF HupReplace
<1>15. CASE HupStatic
  BY <1>15 DEF HupStatic, Call
<1>16. CASE HupLoad
  BY <1>16 DEF HupLoad, Call
<1>17. CASE HupReapply
  BY <1>17 DEF HupReapply, Call
<1>18. CASE Stop
  BY <1>18 DEF Stop
<1>19. CASE MainFetch
  BY <1>19 DEF MainFetch
<1>20. CASE Flush
  BY <1>20 DEF Flush, Fault
<1>21. CASE Exit
  BY <1>21 DEF Exit, Halt
<1>22. CASE Kill
  BY <1>22 DEF Kill, Halt
<1>23. CASE Boot
  BY <1>23 DEF Boot, Fault
<1>24. CASE UNCHANGED vars
  BY <1>24 DEF vars
<1> QED
  BY <1>1, <1>2, <1>3, <1>4, <1>5, <1>6, <1>7, <1>8, <1>9, <1>10, <1>11, <1>12, <1>13, <1>14,
     <1>15, <1>16, <1>17, <1>18, <1>19, <1>20, <1>21, <1>22, <1>23, <1>24
  DEF Next, Driving, Editing, Hupping, Stopping

\* Whoever edits the table while the first gateway is the current one, or while an
\* active one is and no request has restarted services, edits it for that gateway.
LEMMA EditsCurrent ==
    ASSUME TypeOK, PlaceInv, MutexInv, GenerationInv, FirstApplyInv, NEW p \in Procs, InNft(p),
           gw = 0 \/ (restarts = 0 /\ active[gw])
    PROVE  target[p] = gw /\ lock[gw] = p
<1>1. CASE gw = 0
  BY <1>1 DEF TypeOK, MutexInv, GenerationInv, Generations
<1>2. CASE restarts = 0 /\ active[gw]
  <2>1. p # Main /\ p \notin Restarters
    BY <1>2 DEF PlaceInv, InNft
  <2>2. p # Applier
    BY <1>2 DEF FirstApplyInv, InNft, TypeOK
  <2>3. CASE p \in Updaters
    BY <2>3 DEF MutexInv
  <2>4. CASE p = Hup
    BY <2>4 DEF GenerationInv, InNft, MutexInv
  <2> QED
    BY <2>1, <2>2, <2>3, <2>4 DEF Procs
<1> QED
  BY <1>1, <1>2

\* Who lets go of an active gateway's mutex leaves its table.
LEMMA TableStep ==
    TypeOK /\ PlaceInv /\ MutexInv /\ GenerationInv /\ FirstApplyInv /\ TableInv /\ StopInv
    /\ [Next]_vars
    => TableInv'
<1> SUFFICES ASSUME TypeOK, PlaceInv, MutexInv, GenerationInv, FirstApplyInv, TableInv, StopInv,
                    [Next]_vars
             PROVE  TableInv'
  OBVIOUS
<1> USE GatewayAssumption DEF TypeOK, TableInv, Procs, shared, inputs, locals, bounds, Goto
<1>1. ASSUME NEW p \in Procs, PushLock(p) PROVE TableInv'
  BY <1>1 DEF PushLock
<1>2. ASSUME NEW p \in Procs, UpdateEngine(p) PROVE TableInv'
  BY <1>2 DEF UpdateEngine
<1>3. ASSUME NEW p \in Procs, FetchGateway(p) PROVE TableInv'
  BY <1>3 DEF FetchGateway, Call
<1>4. ASSUME NEW p \in Procs, Apply(p) PROVE TableInv'
  BY <1>4 DEF Apply
<1>5. ASSUME NEW p \in Procs, PatchSets(p) PROVE TableInv'
  BY <1>5, EditsCurrent DEF PatchSets, Unlock, Fault, InNft
<1>6. ASSUME NEW p \in Procs, DeleteTable(p) PROVE TableInv'
  <2>1. UNCHANGED <<gw, active, lock, restarts, stopped>>
    BY <1>6 DEF DeleteTable
  <2>2. CASE gw = 0 \/ (restarts = 0 /\ active[gw])
    <3>1. lock[gw] = p
      BY <1>6, <2>2, EditsCurrent DEF DeleteTable, InNft
    <3> QED
      BY <2>1, <3>1
  <2>3. CASE ~(gw = 0 \/ (restarts = 0 /\ active[gw]))
    BY <2>1, <2>3
  <2> QED
    BY <2>2, <2>3
<1>7. ASSUME NEW p \in Procs, AddTable(p) PROVE TableInv'
  <2>1. UNCHANGED <<gw, restarts, stopped>>
    BY <1>7 DEF AddTable
  <2>2. CASE table' = table \cup {own[target[p]]}
    BY <2>2
  <2>3. CASE active' = [active EXCEPT ![target[p]] = FALSE] /\ UNCHANGED table
    <3>1. active'[gw] => active[gw] /\ target[p] # gw
      BY <2>3
    <3>2. target[p] # gw => lock'[gw] = lock[gw]
      BY <1>7 DEF AddTable, Unlock
    <3> QED
      BY <2>1, <2>3, <3>1, <3>2
  <2> QED
    BY <1>7, <2>2, <2>3 DEF AddTable
<1>8. ASSUME NEW p \in Updaters, EditNets(p) PROVE TableInv'
  BY <1>8 DEF EditNets, Call
<1>9. ASSUME NEW p \in Updaters, MoveServer(p) PROVE TableInv'
  BY <1>9 DEF MoveServer, Call
<1>10. ASSUME NEW p \in Restarters, RestartServices(p) PROVE TableInv'
  BY <1>10 DEF RestartServices, Call
<1>11. CASE ApplierStart
  BY <1>11 DEF ApplierStart, Call
<1>12. CASE ApplierRetry
  BY <1>12 DEF ApplierRetry
<1>13. CASE HupReload
  BY <1>13 DEF HupReload
<1>14. CASE HupReplace
  <2>1. ~active'[gw']
    BY <1>14 DEF HupReplace, GenerationInv, MutexInv, Generations
  <2> QED
    BY <2>1
<1>15. CASE HupStatic
  BY <1>15 DEF HupStatic, Call
<1>16. CASE HupLoad
  BY <1>16 DEF HupLoad, Call
<1>17. CASE HupReapply
  BY <1>17 DEF HupReapply, Call
<1>18. CASE Stop
  BY <1>18 DEF Stop
<1>19. CASE MainFetch
  BY <1>19 DEF MainFetch
<1>20. CASE Flush
  <2>1. stopped'
    BY <1>20 DEF Flush, StopInv
  <2> QED
    BY <2>1
<1>21. CASE Exit
  BY <1>21 DEF Exit, Halt
<1>22. CASE Kill
  BY <1>22 DEF Kill, Halt
<1>23. CASE Boot
  <2>1. ~active'[gw']
    BY <1>23 DEF Boot, Generations
  <2> QED
    BY <2>1
<1>24. CASE UNCHANGED vars
  BY <1>24 DEF vars
<1> QED
  BY <1>1, <1>2, <1>3, <1>4, <1>5, <1>6, <1>7, <1>8, <1>9, <1>10, <1>11, <1>12, <1>13, <1>14,
     <1>15, <1>16, <1>17, <1>18, <1>19, <1>20, <1>21, <1>22, <1>23, <1>24
  DEF Next, Driving, Editing, Hupping, Stopping

\* ... and, if deletes work, with the elements of its engine only.
LEMMA EngineStep ==
    TypeOK /\ PlaceInv /\ MutexInv /\ GenerationInv /\ FirstApplyInv /\ EngineInv /\ StopInv
    /\ [Next]_vars
    => EngineInv'
<1> SUFFICES ASSUME TypeOK, PlaceInv, MutexInv, GenerationInv, FirstApplyInv, EngineInv, StopInv,
                    [Next]_vars
             PROVE  EngineInv'
  OBVIOUS
<1> USE GatewayAssumption DEF TypeOK, EngineInv, DeletesWork, Procs, shared, inputs, locals,
   bounds, Goto
<1>1. ASSUME NEW p \in Procs, PushLock(p) PROVE EngineInv'
  BY <1>1 DEF PushLock
<1>2. ASSUME NEW p \in Procs, UpdateEngine(p) PROVE EngineInv'
  BY <1>2 DEF UpdateEngine, PlaceInv
<1>3. ASSUME NEW p \in Procs, FetchGateway(p) PROVE EngineInv'
  BY <1>3 DEF FetchGateway, Call
<1>4. ASSUME NEW p \in Procs, Apply(p) PROVE EngineInv'
  <2> USE DEF Generations
  <2>1. UNCHANGED <<gw, own, active, stopped, table, faults>>
    BY <1>4 DEF Apply
  <2>2. pc'[p] # "add" /\ \A q \in Procs : q # p => pc'[q] = pc[q]
    BY <1>4 DEF Apply
  <2>3. lock'[gw] = None => lock[gw] = None
    BY <1>4 DEF Apply
  <2> QED
    BY <2>1, <2>2, <2>3
<1>5. ASSUME NEW p \in Procs, PatchSets(p) PROVE EngineInv'
  <2>1. UNCHANGED <<gw, own, active, stopped>>
    BY <1>5 DEF PatchSets
  <2>2. SUFFICES ASSUME gw = 0, ~stopped, DeletesWork'
                 PROVE  /\ lock'[gw] = None /\ active[gw] => table' = {own[gw]}
                        /\ \A q \in Procs : pc'[q] = "add" => table' = {}
    BY <2>1
  <2>3. DeletesWork
    BY <1>5, <2>2 DEF PatchSets, Fault
  <2>4. target[p] = gw /\ lock[gw] = p
    BY <1>5, <2>2, EditsCurrent DEF PatchSets, InNft
  <2>5. \A q \in Procs : pc[q] # "add"
    <3>1. \A q \in Procs : pc[q] = "add" => q = p
      BY <2>2, <2>4, EditsCurrent DEF InNft
    <3> QED
      BY <1>5, <3>1 DEF PatchSets
  <2> QED
    BY <1>5, <2>3, <2>4, <2>5 DEF PatchSets, Unlock, PlaceInv
<1>6. ASSUME NEW p \in Procs, DeleteTable(p) PROVE EngineInv'
  <2>1. UNCHANGED <<gw, own, active, lock, stopped>>
    BY <1>6 DEF DeleteTable
  <2>2. SUFFICES ASSUME gw = 0, ~stopped, DeletesWork'
                 PROVE  lock[gw] # None /\ table' = {}
    BY <2>1
  <2>3. lock[gw] = p
    BY <1>6, <2>2, EditsCurrent DEF DeleteTable, InNft
  <2>4. table' = {}
    BY <1>6, <2>2 DEF DeleteTable, Fault
  <2> QED
    BY <2>3, <2>4
<1>7. ASSUME NEW p \in Procs, AddTable(p) PROVE EngineInv'
  <2>1. UNCHANGED <<gw, own, stopped>>
    BY <1>7 DEF AddTable
  <2>2. SUFFICES ASSUME gw = 0, ~stopped, DeletesWork'
                 PROVE  /\ lock'[gw] = None /\ active'[gw] => table' = {own[gw]}
                        /\ \A q \in Procs : pc'[q] = "add" => table' = {}
    BY <2>1
  <2>3. DeletesWork /\ table = {}
    BY <1>7, <2>2 DEF AddTable, Fault
  <2>4. target[p] = gw /\ lock[gw] = p
    BY <1>7, <2>2, EditsCurrent DEF AddTable, InNft
  <2>5. \A q \in Procs : pc'[q] # "add"
    <3>1. \A q \in Procs : pc[q] = "add" => q = p
      BY <2>2, <2>4, EditsCurrent DEF InNft
    <3>2. pc'[p] # "add"
      BY <1>7 DEF AddTable, Unlock, PlaceInv
    <3> QED
      BY <1>7, <3>1, <3>2 DEF AddTable, Unlock
  <2> QED
    BY <1>7, <2>3, <2>4, <2>5 DEF AddTable
<1>8. ASSUME NEW p \in Updaters, EditNets(p) PROVE EngineInv'
  BY <1>8 DEF EditNets, Call
<1>9. ASSUME NEW p \in Updaters, MoveServer(p) PROVE EngineInv'
  BY <1>9 DEF MoveServer, Call
<1>10. ASSUME NEW p \in Restarters, RestartServices(p) PROVE EngineInv'
  BY <1>10 DEF RestartServices, Call
<1>11. CASE ApplierStart
  BY <1>11 DEF ApplierStart, Call
<1>12. CASE ApplierRetry
  BY <1>12 DEF ApplierRetry
<1>13. CASE HupReload
  BY <1>13 DEF HupReload
<1>14. CASE HupReplace
  <2>1. gw' # 0
    BY <1>14 DEF HupReplace, Generations
  <2> QED
    BY <2>1
<1>15. CASE HupStatic
  BY <1>15 DEF HupStatic, Call
<1>16. CASE HupLoad
  BY <1>16 DEF HupLoad, Call
<1>17. CASE HupReapply
  BY <1>17 DEF HupReapply, Call
<1>18. CASE Stop
  BY <1>18 DEF Stop
<1>19. CASE MainFetch
  BY <1>19 DEF MainFetch
<1>20. CASE Flush
  <2>1. stopped'
    BY <1>20 DEF Flush, StopInv
  <2> QED
    BY <2>1
<1>21. CASE Exit
  BY <1>21 DEF Exit, Halt
<1>22. CASE Kill
  BY <1>22 DEF Kill, Halt
<1>23. CASE Boot
  <2>1. ~active'[gw']
    BY <1>23 DEF Boot, Generations
  <2>2. \A q \in Procs : pc'[q] # "add"
    BY <1>23 DEF Boot
  <2> QED
    BY <2>1, <2>2
<1>24. CASE UNCHANGED vars
  BY <1>24 DEF vars
<1> QED
  BY <1>1, <1>2, <1>3, <1>4, <1>5, <1>6, <1>7, <1>8, <1>9, <1>10, <1>11, <1>12, <1>13, <1>14,
     <1>15, <1>16, <1>17, <1>18, <1>19, <1>20, <1>21, <1>22, <1>23, <1>24
  DEF Next, Driving, Editing, Hupping, Stopping

\* ctx stays cancelled until the process has ended.
LEMMA StopStep == TypeOK /\ PlaceInv /\ StopInv /\ [Next]_vars => StopInv'
<1> SUFFICES ASSUME TypeOK, PlaceInv, StopInv, [Next]_vars PROVE StopInv'
  OBVIOUS
<1> USE GatewayAssumption DEF TypeOK, PlaceInv, StopInv, Procs, shared, inputs, locals, bounds,
   Goto
<1>1. ASSUME NEW p \in Procs, PushLock(p) PROVE StopInv'
  BY <1>1 DEF PushLock
<1>2. ASSUME NEW p \in Procs, UpdateEngine(p) PROVE StopInv'
  BY <1>2 DEF UpdateEngine
<1>3. ASSUME NEW p \in Procs, FetchGateway(p) PROVE StopInv'
  BY <1>3 DEF FetchGateway, Call
<1>4. ASSUME NEW p \in Procs, Apply(p) PROVE StopInv'
  BY <1>4 DEF Apply
<1>5. ASSUME NEW p \in Procs, PatchSets(p) PROVE StopInv'
  BY <1>5 DEF PatchSets, Unlock, Fault
<1>6. ASSUME NEW p \in Procs, DeleteTable(p) PROVE StopInv'
  BY <1>6 DEF DeleteTable, Fault
<1>7. ASSUME NEW p \in Procs, AddTable(p) PROVE StopInv'
  BY <1>7 DEF AddTable, Unlock, Fault
<1>8. ASSUME NEW p \in Updaters, EditNets(p) PROVE StopInv'
  BY <1>8 DEF EditNets, Call
<1>9. ASSUME NEW p \in Updaters, MoveServer(p) PROVE StopInv'
  BY <1>9 DEF MoveServer, Call
<1>10. ASSUME NEW p \in Restarters, RestartServices(p) PROVE StopInv'
  BY <1>10 DEF RestartServices, Call
<1>11. CASE ApplierStart
  BY <1>11 DEF ApplierStart, Call
<1>12. CASE ApplierRetry
  BY <1>12 DEF ApplierRetry
<1>13. CASE HupReload
  BY <1>13 DEF HupReload
<1>14. CASE HupReplace
  BY <1>14 DEF HupReplace
<1>15. CASE HupStatic
  BY <1>15 DEF HupStatic, Call
<1>16. CASE HupLoad
  BY <1>16 DEF HupLoad, Call
<1>17. CASE HupReapply
  BY <1>17 DEF HupReapply, Call
<1>18. CASE Stop
  BY <1>18 DEF Stop
<1>19. CASE MainFetch
  BY <1>19 DEF MainFetch
<1>20. CASE Flush
  BY <1>20 DEF Flush, Fault
<1>21. CASE Exit
  BY <1>21 DEF Exit, Halt
<1>22. CASE Kill
  BY <1>22 DEF Kill, Halt
<1>23. CASE Boot
  BY <1>23 DEF Boot, Fault
<1>24. CASE UNCHANGED vars
  BY <1>24 DEF vars
<1> QED
  BY <1>1, <1>2, <1>3, <1>4, <1>5, <1>6, <1>7, <1>8, <1>9, <1>10, <1>11, <1>12, <1>13, <1>14,
     <1>15, <1>16, <1>17, <1>18, <1>19, <1>20, <1>21, <1>22, <1>23, <1>24
  DEF Next, Driving, Editing, Hupping, Stopping

-----------------------------------------------------------------------------
\* A process starts with nothing locked, nothing active and no table.
LEMMA InitInv == Init => IInv
<1> SUFFICES ASSUME Init PROVE IInv
  OBVIOUS
<1> USE GatewayAssumption DEF Init, Procs
<1>1. 0 \in Generations
  BY DEF Generations
<1>2. TypeOK
  <2>1. engine \in Engines
    BY <1>1 DEF Wanted, Engines
  <2>2. lock \in [Generations -> Procs \cup {None}] /\ active \in [Generations -> BOOLEAN]
    OBVIOUS
  <2>3. own \in [Generations -> Engines]
    BY <2>1
  <2>4. pc \in [Procs -> Labels] /\ ret \in [Procs -> Labels]
    BY DEF Labels
  <2>5. target \in [Procs -> Generations]
    BY <1>1
  <2>6. faults \in [NftFaults -> 0..MaxFaults]
    BY DEF NoFaults
  <2>7. /\ list \in 0..MaxEdits /\ server \in 0..MaxMoves
        /\ restarts \in 0..MaxRestarts /\ stops \in 0..MaxStops
    OBVIOUS
  <2>8. /\ mu \in Procs \cup {None} /\ gw \in Generations /\ table \in SUBSET Engines
        /\ wasActive \in BOOLEAN /\ stopped \in BOOLEAN
    BY <1>1
  <2> QED
    BY <2>1, <2>2, <2>3, <2>4, <2>5, <2>6, <2>7, <2>8 DEF TypeOK
<1>3. PlaceInv
  BY DEF PlaceInv
<1>4. MutexInv
  BY DEF MutexInv, InNft
<1>5. GenerationInv
  BY <1>1 DEF GenerationInv
<1>6. FirstApplyInv
  BY DEF FirstApplyInv, InNft
<1>7. TableInv /\ EngineInv /\ StopInv
  BY <1>1 DEF TableInv, EngineInv, StopInv
<1> QED
  BY <1>2, <1>3, <1>4, <1>5, <1>6, <1>7 DEF IInv

\* The invariant, for every behaviour.
LEMMA Invariance == Spec => []IInv
<1>1. IInv /\ [Next]_vars => IInv'
  BY TypeStep, PlaceStep, MutexStep, GenerationStep, FirstApplyStep, TableStep, EngineStep,
     StopStep DEF IInv
<1> QED
  BY InitInv, <1>1, PTL DEF Spec

\* The state of main, of the gateways and of the goroutines is well typed.
THEOREM TypeCorrect == Spec => []TypeOK
<1>1. IInv => TypeOK
  BY DEF IInv
<1> QED
  BY Invariance, <1>1, PTL

\* Whatever nft command fails, and across SIGHUP reloads, the current gateway is
\* never reported active, between commands, over a table that is not there.
THEOREM ActiveHasTable == Spec => []ActiveMeansTable
<1>1. IInv => ActiveMeansTable
  BY DEF IInv, TableInv, ActiveMeansTable, Quiet, TypeOK
<1> QED
  BY Invariance, <1>1, PTL

\* While "delete table" works, patches, failed patches and rebuilds of the first
\* gateway leave the elements of its engine in the table and nothing else.
THEOREM TableOfEngine == Spec => []TableIsEngine
<1>1. IInv => TableIsEngine
  BY DEF IInv, EngineInv, TableIsEngine, Quiet, TypeOK
<1> QED
  BY Invariance, <1>1, PTL

\* The single lock path of UpdateEngine: no rebuildPush brings back the table that
\* the shutdown has flushed.
THEOREM PushRevivesNothing == Spec => PushNeverRevives
<1> DEFINE Reviving == (pc[Main] = "wait" /\ ~active[gw] /\ table = {} /\ table' # {})
                         => \E p \in Procs : pc[p] = "add" /\ mu # p
<1>1. IInv /\ [Next]_vars => [Reviving]_vars
  <2> SUFFICES ASSUME IInv, Next, pc[Main] = "wait", ~active[gw], table = {}, table' # {}
               PROVE  \E p \in Procs : pc[p] = "add" /\ mu # p
    OBVIOUS
  <2>1. \E p \in Procs : AddTable(p)
    BY DEF Next, Driving, Editing, Hupping, Stopping, PushLock, UpdateEngine, FetchGateway, Apply,
           PatchSets, DeleteTable, EditNets, MoveServer, RestartServices, ApplierStart,
           ApplierRetry, HupReload, HupReplace, HupStatic, HupLoad, HupReapply, Stop, MainFetch,
           Flush, Exit, Kill, Boot, Fault
  <2>2. PICK p \in Procs : AddTable(p)
    BY <2>1
  <2>3. pc[p] = "add" /\ mu # p
    BY <2>2 DEF AddTable, IInv, MutexInv, InNft
  <2> QED
    BY <2>3
<1> QED
  BY Invariance, <1>1, PTL DEF Spec, PushNeverRevives

-----------------------------------------------------------------------------
(***************************************************************************)
(* Routing: the inductive invariant.                                       *)
(***************************************************************************)
\* The lists, the rules and the connection's origin do not change.
WorldInv ==
    /\ mode \in {"exclude", "include"} /\ policy \in {"direct", "drop"} /\ output \in BOOLEAN
    /\ backend \in Backends /\ endpoint \in Endpoints /\ nat \in BOOLEAN
    /\ origin \in {"lan", "local", "socks"} /\ dst \in Addresses /\ byName \in BOOLEAN
    /\ rules \in [Lists -> NameRules]
    /\ hops \in Nat

\* Where a connection begins, nothing has been decided about it.
EntryInv ==
    /\ at \in {"prerouting", "output", "socks", "transparent", "sent", "dropped"}
    /\ at \in {"prerouting", "socks"} => via = "none" /\ peer = dst /\ hops = 0
    /\ at = "prerouting" => origin = "lan"
    /\ at = "socks" => origin = "socks"

\* What the OUTPUT chain redirects has not been in the transparent proxy, and is
\* for the connection's own destination.
OnceInv == OutputExempts =>
    /\ hops <= 1
    /\ at = "output" /\ OutputRedirects(peer) => peer = dst /\ hops = 0
    /\ at = "transparent" => peer = dst

\* A LAN connection has been in the proxy before its path is chosen, and its path
\* is the promised one from then on, unless it is for the proxy's port.
LanInv == (OutputExempts /\ origin = "lan" /\ "port" \notin dst) =>
    /\ at = "transparent" => hops = 1 /\ via = "none" /\ "private" \notin dst
    /\ at = "output" => hops = 1
    /\ at \in {"output", "sent", "dropped"} => via = Promised

\* What SocksConnect decides.
SocksChoice ==
    IF Matched("block") THEN "drop" ELSE IF Matched("bypass") THEN "direct" ELSE "tunnel"

\* The dial of the SOCKS listener is not redirected, so its decision stands.
SocksInv ==
    (/\ OutputExempts /\ origin = "socks"
     /\ output /\ Matched("bypass") => InBypassSet(dst)) =>
       /\ at # "transparent"
       /\ at = "output" => ~OutputRedirects(peer)
       /\ at \in {"output", "sent", "dropped"} => via = SocksChoice

RouteInv == WorldInv /\ EntryInv /\ OnceInv /\ LanInv /\ SocksInv

-----------------------------------------------------------------------------
(***************************************************************************)
(* Routing: what the chains and the proxies agree on.                      *)
(***************************************************************************)
\* A tunnel endpoint is on the server list, so @bypass has it.
LEMMA EndpointExempt == ASSUME NEW a \in Endpoints PROVE InBypassSet(a)
  BY DEF Endpoints, InBypassSet

\* What the engine sends directly in exclude mode is what @bypass has.
LEMMA DirectExempt ==
    ASSUME NEW a, mode = "exclude"
    PROVE  (Decide(a) = "direct") <=> InBypassSet(a)
  BY DEF Decide, InBypassSet

\* The process's own dials on a path the engine chose are not redirected: a direct
\* one is for an exempt address, a tunnelled one for the endpoint or by the
\* AmneziaWG interface.
LEMMA DialsExempt ==
    ASSUME WorldInv, OutputExempts, NEW path, NEW a, Dial(path, a), UNCHANGED world,
           path \in {"direct", "tunnel"},
           output /\ path = "direct" => InBypassSet(a)
    PROVE  ~OutputRedirects(peer)'
<1>1. output' = output /\ mode' = mode /\ backend' = backend /\ endpoint \in Endpoints
  BY DEF world, WorldInv
<1>2. CASE ~output
  BY <1>1, <1>2 DEF OutputRedirects
<1>3. CASE output /\ path = "direct"
  <2>1. mode = "exclude" /\ peer' = a
    BY <1>3 DEF OutputExempts, Dial
  <2> QED
    BY <1>1, <1>3, <2>1 DEF OutputRedirects, InBypassSet
<1>4. CASE output /\ path = "tunnel" /\ backend = "outline"
  <2>1. mode = "exclude" /\ peer' = endpoint
    BY <1>4 DEF OutputExempts, Dial
  <2>2. "server" \in peer'
    BY <1>1, <2>1 DEF Endpoints
  <2> QED
    BY <1>1, <2>1, <2>2 DEF OutputRedirects, InBypassSet
<1>5. CASE output /\ path = "tunnel" /\ backend = "amnezia"
  <2>1. via' = "tunnel"
    BY <1>5 DEF Dial
  <2> QED
    BY <1>1, <1>5, <2>1 DEF OutputRedirects
<1> QED
  BY <1>2, <1>3, <1>4, <1>5 DEF WorldInv, Backends

\* DecidePath and the promise of docs/routing.md agree on public addresses.
LEMMA DecideKeepsPromise ==
    ASSUME WorldInv, "private" \notin dst
    PROVE  DecidePath(dst) = Promised
  BY DEF DecidePath, Decide, Promised, WorldInv

\* DecidePath chooses one of three paths.
LEMMA DecideType == ASSUME WorldInv, NEW a PROVE DecidePath(a) \in {"direct", "tunnel", "drop"}
  BY DEF DecidePath, Decide, WorldInv

\* What the listener decides by MatchHost is what docs/routing.md promises.
LEMMA ChoiceKeepsPromise == ASSUME WorldInv PROVE SocksChoice = SocksPromise
<1>1. \A l \in Lists : rules[l] \in NameRules
  BY DEF WorldInv
<1>2. \A r \in NameRules : MatchHost(r) <=> r \notin {NoRule, [kind |-> "domain", sub |-> TRUE]}
  BY DEF NameRules, MatchHost, NoRule
<1>3. "bypass" \in Lists /\ "block" \in Lists
  BY DEF Lists
<1> QED
  BY <1>1, <1>2, <1>3 DEF SocksChoice, SocksPromise, Matched

-----------------------------------------------------------------------------
(***************************************************************************)
(* Routing: the invariant holds.                                           *)
(***************************************************************************)
\* The world does not change, so what depends on it alone does not.
LEMMA WorldKept ==
    ASSUME UNCHANGED world
    PROVE  /\ OutputExempts' = OutputExempts
           /\ Promised' = Promised
           /\ SocksChoice' = SocksChoice
           /\ Matched("bypass")' = Matched("bypass")
           /\ InBypassSet(dst)' = InBypassSet(dst)
           /\ origin' = origin /\ dst' = dst /\ output' = output
  BY DEF world, OutputExempts, Promised, SocksChoice, Matched, InBypassSet

\* Every connection begins with nothing decided.
LEMMA RouteStarts == RouteInit => RouteInv
<1> SUFFICES ASSUME RouteInit PROVE RouteInv
  OBVIOUS
<1> USE RoutingAssumption
<1>1. WorldInv
  <2>1. byName \in BOOLEAN /\ origin \in {"lan", "local", "socks"}
    BY DEF RouteInit
  <2>2. (IF byName THEN NameRules ELSE {NoRule}) \subseteq NameRules
    BY DEF NameRules
  <2>3. rules \in [Lists -> NameRules]
    BY <2>2 DEF RouteInit
  <2> QED
    BY <2>1, <2>3 DEF RouteInit, WorldInv
<1>2. /\ at = IF origin = "lan" THEN "prerouting"
             ELSE IF origin = "local" THEN "output" ELSE "socks"
      /\ peer = dst /\ via = "none" /\ hops = 0
  BY <1>1 DEF RouteInit, WorldInv
<1> QED
  BY <1>1, <1>2 DEF RouteInv, EntryInv, OnceInv, LanInv, SocksInv, WorldInv

\* Every step of the kernel or a proxy keeps the invariant.
LEMMA RouteStep == RouteInv /\ [RouteNext]_routeVars => RouteInv'
<1> SUFFICES ASSUME RouteInv, [RouteNext]_routeVars PROVE RouteInv'
  OBVIOUS
<1> USE DEF RouteInv
<1>1. CASE Prerouting
  <2>1. /\ UNCHANGED world /\ UNCHANGED peer /\ UNCHANGED via
        /\ origin = "lan" /\ peer = dst /\ via = "none" /\ hops = 0
    BY <1>1 DEF Prerouting, EntryInv
  <2>2. \/ at' = "transparent" /\ hops' = 1 /\ "private" \notin dst
        \/ at' = "sent" /\ hops' = 0 /\ ("private" \in dst \/ "port" \in dst)
    BY <1>1, <2>1 DEF Prerouting, PreroutingRedirects
  <2>3. WorldInv'
    BY <2>1, <2>2 DEF WorldInv, world
  <2>4. EntryInv'
    BY <2>2 DEF EntryInv
  <2>5. OnceInv'
    BY <2>1, <2>2, WorldKept DEF OnceInv
  <2>6. LanInv'
    <3>1. "private" \in dst => Promised = "none"
      BY DEF Promised
    <3> QED
      BY <2>1, <2>2, <3>1, WorldKept DEF LanInv
  <2>7. SocksInv'
    BY <2>1, WorldKept DEF SocksInv
  <2> QED
    BY <2>3, <2>4, <2>5, <2>6, <2>7
<1>2. CASE Output
  <2>1. UNCHANGED world /\ UNCHANGED peer /\ UNCHANGED via /\ at = "output"
    BY <1>2 DEF Output
  <2>2. \/ OutputRedirects(peer) /\ at' = "transparent" /\ hops' = hops + 1
        \/ ~OutputRedirects(peer) /\ at' = "sent" /\ hops' = hops
    BY <1>2 DEF Output
  <2>3. WorldInv'
    BY <2>1, <2>2 DEF WorldInv, world
  <2>4. EntryInv'
    BY <2>2 DEF EntryInv
  <2>5. OnceInv'
    <3>1. SUFFICES ASSUME OutputExempts
                   PROVE  hops' <= 1 /\ (at' = "transparent" => peer' = dst)
      BY <2>2, WorldKept, <2>1 DEF OnceInv
    <3>2. OutputRedirects(peer) => peer = dst /\ hops = 0
      BY <2>1, <3>1 DEF OnceInv
    <3>3. hops <= 1
      BY <3>1 DEF OnceInv
    <3> QED
      BY <2>1, <2>2, <3>2, <3>3
  <2>6. LanInv'
    <3>1. SUFFICES ASSUME OutputExempts, origin = "lan", "port" \notin dst
                   PROVE  at' = "sent" /\ via' = Promised
      BY <2>1, WorldKept DEF LanInv
    <3>2. hops = 1 /\ via = Promised
      BY <2>1, <3>1 DEF LanInv
    <3>3. ~OutputRedirects(peer)
      BY <2>1, <3>1, <3>2 DEF OnceInv
    <3> QED
      BY <2>1, <2>2, <3>2, <3>3
  <2>7. SocksInv'
    BY <2>1, <2>2, WorldKept DEF SocksInv
  <2> QED
    BY <2>3, <2>4, <2>5, <2>6, <2>7
<1>3. CASE SocksConnect
  <2>1. /\ UNCHANGED world /\ UNCHANGED hops
        /\ origin = "socks" /\ peer = dst /\ via = "none" /\ hops = 0
    BY <1>3 DEF SocksConnect, EntryInv
  <2>2. \/ at' = "dropped" /\ via' = "drop" /\ SocksChoice = "drop" /\ peer' = peer
        \/ SocksChoice \in {"direct", "tunnel"} /\ Dial(SocksChoice, dst) /\ at' = "output"
           /\ via' = SocksChoice /\ (SocksChoice = "direct" => Matched("bypass"))
    BY <1>3 DEF SocksConnect, SocksChoice, Dial
  <2>3. WorldInv'
    BY <2>1 DEF WorldInv, world
  <2>4. EntryInv'
    BY <2>2 DEF EntryInv
  <2>5. OnceInv'
    <3>1. SUFFICES ASSUME OutputExempts, at' = "output", OutputRedirects(peer)'
                   PROVE  peer' = dst
      BY <2>1, <2>2, WorldKept DEF OnceInv
    <3>2. SocksChoice = "direct"
      BY <2>1, <2>2, <3>1, DialsExempt
    <3> QED
      BY <2>2, <3>1, <3>2 DEF Dial
  <2>6. LanInv'
    BY <2>1, WorldKept DEF LanInv
  <2>7. SocksInv'
    <3>1. SUFFICES ASSUME OutputExempts, output /\ Matched("bypass") => InBypassSet(dst)
                   PROVE  /\ at' # "transparent"
                          /\ at' = "output" => ~OutputRedirects(peer)'
                          /\ at' \in {"output", "sent", "dropped"} => via' = SocksChoice
      BY <2>1, WorldKept DEF SocksInv
    <3>2. at' = "output" => ~OutputRedirects(peer)'
      BY <2>1, <2>2, <3>1, DialsExempt
    <3> QED
      BY <2>2, <3>2
  <2> QED
    BY <2>3, <2>4, <2>5, <2>6, <2>7
<1>4. CASE Transparent
  <2>1. UNCHANGED world /\ UNCHANGED hops /\ at = "transparent"
    BY <1>4 DEF Transparent
  <2> DEFINE path == DecidePath(peer)
  <2>2. \/ at' = "dropped" /\ via' = "drop" /\ path = "drop" /\ peer' = peer
        \/ path \in {"direct", "tunnel"} /\ Dial(path, peer) /\ at' = "output" /\ via' = path
    BY <1>4, DecideType DEF Transparent, Dial
  <2>3. OutputExempts /\ at' = "output" => ~OutputRedirects(peer)'
    <3>1. SUFFICES ASSUME OutputExempts, at' = "output" PROVE ~OutputRedirects(peer)'
      OBVIOUS
    <3>2. output /\ path = "direct" => InBypassSet(peer)
      BY <3>1, DirectExempt DEF OutputExempts, DecidePath
    <3> HIDE DEF path
    <3> QED
      BY <2>1, <2>2, <3>1, <3>2, DialsExempt
  <2>4. WorldInv'
    BY <2>1 DEF WorldInv, world
  <2>5. EntryInv'
    BY <2>2 DEF EntryInv
  <2>6. OnceInv'
    BY <2>1, <2>2, <2>3, WorldKept DEF OnceInv
  <2>7. LanInv'
    <3>1. SUFFICES ASSUME OutputExempts, origin = "lan", "port" \notin dst
                   PROVE  /\ at' = "output" => hops = 1
                          /\ at' \in {"output", "sent", "dropped"} => via' = Promised
      BY <2>1, <2>2, WorldKept DEF LanInv
    <3>2. hops = 1 /\ "private" \notin dst /\ peer = dst
      BY <2>1, <3>1 DEF LanInv, OnceInv
    <3>3. path = Promised
      BY <3>2, DecideKeepsPromise
    <3> HIDE DEF path
    <3> QED
      BY <2>2, <3>2, <3>3
  <2>8. SocksInv'
    BY <2>1, WorldKept DEF SocksInv
  <2> QED
    BY <2>4, <2>5, <2>6, <2>7, <2>8
<1>5. CASE UNCHANGED routeVars
  <2>1. UNCHANGED world /\ UNCHANGED at /\ UNCHANGED peer /\ UNCHANGED via /\ UNCHANGED hops
    BY <1>5 DEF routeVars
  <2>2. OutputRedirects(peer)' = OutputRedirects(peer)
    BY <2>1 DEF world, OutputRedirects, InBypassSet
  <2>3. WorldInv'
    BY <2>1 DEF WorldInv, world
  <2> QED
    BY <2>1, <2>2, <2>3, WorldKept DEF EntryInv, OnceInv, LanInv, SocksInv
<1> QED
  BY <1>1, <1>2, <1>3, <1>4, <1>5 DEF RouteNext

\* The invariant holds of every connection in every configuration.
LEMMA RouteInvariance == RouteSpec => []RouteInv
  BY RouteStarts, RouteStep, PTL DEF RouteSpec

\* The kernel's chains, DecidePath and the process's own dials agree: whatever the
\* lists, a LAN connection ends on the path docs/routing.md promises its address,
\* on every port but the one both chains leave alone.
THEOREM LanKeepsPolicy == RouteSpec => []LanFollowsPolicy
<1>1. RouteInv => LanFollowsPolicy
  BY DEF RouteInv, LanInv, LanFollowsPolicy
<1> QED
  BY RouteInvariance, <1>1, PTL

\* The path the SOCKS listener chose by its rules is the one the connection takes.
THEOREM SocksKeepsRules == RouteSpec => []SocksFollowsRules
<1>1. RouteInv => SocksFollowsRules
  BY ChoiceKeepsPromise DEF RouteInv, SocksInv, SocksFollowsRules
<1> QED
  BY RouteInvariance, <1>1, PTL

\* The process's own dials do not come back to the transparent proxy.
THEOREM NoSecondEntry == RouteSpec => []EntersOnce
<1>1. RouteInv => EntersOnce
  BY DEF RouteInv, OnceInv, EntersOnce
<1> QED
  BY RouteInvariance, <1>1, PTL
=============================================================================
