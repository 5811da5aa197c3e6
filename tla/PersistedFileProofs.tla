------------------------ MODULE PersistedFileProofs ------------------------
(***************************************************************************)
(* The rules file (bypass.Store, a mutex), and the key file when requests  *)
(* to replace the key do not overlap, are atomic registers: for any        *)
(* writers, values and number of inodes, with kills and power losses at    *)
(* any step.                                                               *)
(***************************************************************************)
EXTENDS PersistedFile, TLAPS

Inside == {"open", "write", "sync", "rename", "remove"}
HasFile == {"write", "sync", "rename", "remove"}
Past(w) == pc[w] \in {"lock", "open", "write", "sync", "rename"}

\* The mutex, or the order of the requests, lets one goroutine in.
MutexInv ==
    /\ kind = "rules" => \A w \in Writers : pc[w] \in Inside => holder = w
    /\ kind # "rules" => \A u, w \in Writers : pc[u] \in Steps /\ pc[w] \in Steps => u = w

\* The one inside has <path>.tmp open, its value was accepted, and from the
\* sync on the disk has it and nothing else.
InsideInv ==
    \A w \in Writers :
        /\ pc[w] \in HasFile => dir.tmp # None /\ fd[w] = dir.tmp
        /\ Past(w) => asked[w] \in Keys
        /\ pc[w] \in {"sync", "rename"} => data[dir.tmp] = asked[w]
        /\ pc[w] = "rename" => saved[dir.tmp] = {asked[w]}

\* An inode <path> may lead to is whole, on the disk, and not the one that is
\* open for writing.
NamedInv ==
    /\ dir \in inDoubt
    /\ \A d \in inDoubt :
          d.path # None =>
              /\ d.path # d.tmp /\ d.path # dir.tmp
              /\ data[d.path] \in Keys \cup {Poison}
              /\ saved[d.path] = {data[d.path]}

IInv == TypeOK /\ MutexInv /\ InsideInv /\ NamedInv

LEMMA Constants == /\ None \notin Inodes /\ None \notin Writers
                   /\ Keys \cap {Poison, NoValue, Env, Unread, Off, Empty, Torn} = {}
BY PersistedFileAssumption DEF Markers

LEMMA InitInv == Init => IInv
<1> SUFFICES ASSUME Init PROVE IInv
  OBVIOUS
<1>1. TypeOK
  BY Constants DEF Init, TypeOK, Ended, Steps, Directories, Contents
<1>2. MutexInv /\ InsideInv
  BY DEF Init, MutexInv, InsideInv, Inside, HasFile, Past, Steps
<1>3. NamedInv
  BY Constants DEF Init, NamedInv
<1> QED BY <1>1, <1>2, <1>3 DEF IInv

LEMMA NextInv == ASSUME ~Overlap, IInv, [Next]_vars PROVE IInv'
<1> USE Constants DEF IInv
<1>0. kind' = kind BY DEF Next, vars
<1> USE <1>0
<1>1. ASSUME NEW w \in Writers, NEW v \in Keys \cup {Poison}, Submit(w, v) PROVE IInv'
  <2>1. TypeOK' BY <1>1 DEF Submit, Goto, TypeOK, Steps
  <2>2. MutexInv' BY <1>1 DEF Submit, Goto, MutexInv, Inside, Steps, TypeOK, Ended
  <2>3. InsideInv' BY <1>1 DEF Submit, Goto, InsideInv, HasFile, Past, TypeOK
  <2>4. NamedInv' BY <1>1 DEF Submit, NamedInv
  <2> QED BY <2>1, <2>2, <2>3, <2>4
<1>2. ASSUME NEW w \in Writers, Check(w) PROVE IInv'
  <2>1. TypeOK' BY <1>2 DEF Check, Return, Goto, TypeOK, Steps, Ended
  <2>2. MutexInv'
    BY <1>2 DEF Check, Return, Goto, MutexInv, Inside, Steps, Ended, TypeOK
  <2>3. InsideInv'
    BY <1>2 DEF Check, Return, Goto, InsideInv, HasFile, Past, TypeOK
  <2>4. NamedInv' BY <1>2 DEF Check, NamedInv
  <2> QED BY <2>1, <2>2, <2>3, <2>4
<1>3. ASSUME NEW w \in Writers, Lock(w) PROVE IInv'
  <2>1. TypeOK' BY <1>3 DEF Lock, Goto, TypeOK, Steps
  <2>2. MutexInv'
    BY <1>3 DEF Lock, Goto, MutexInv, Inside, Steps, TypeOK
  <2>3. InsideInv' BY <1>3 DEF Lock, Goto, InsideInv, HasFile, Past, TypeOK
  <2>4. NamedInv' BY <1>3 DEF Lock, NamedInv
  <2> QED BY <2>1, <2>2, <2>3, <2>4
<1>4. ASSUME NEW w \in Writers, Open(w) PROVE IInv'
  <2>0. pc[w] = "open" BY <1>4 DEF Open
  <2>00. \A u \in Writers : pc[u] \in Inside => u = w
    BY <2>0 DEF MutexInv, Inside, Steps
  <2>1. CASE /\ dir.tmp # None
             /\ fd' = [fd EXCEPT ![w] = dir.tmp]
             /\ Fill(dir.tmp, Empty, {Empty})
             /\ Goto(w, "write")
             /\ UNCHANGED <<holder, dir, inDoubt, asked, started>>
    <3>0. dir.tmp \in Inodes BY <2>1 DEF TypeOK, Directories
    <3>1. TypeOK' BY <2>1, <3>0 DEF Fill, Goto, TypeOK, Steps, Contents
    <3>2. MutexInv' BY <2>0, <2>1 DEF Goto, MutexInv, Inside, Steps, TypeOK
    <3>3. InsideInv'
      BY <2>0, <2>00, <2>1, <3>0 DEF Fill, Goto, InsideInv, HasFile, Inside, Past, TypeOK
    <3>4. NamedInv' BY <2>1, <3>0 DEF Fill, NamedInv, TypeOK, Directories
    <3> QED BY <3>1, <3>2, <3>3, <3>4
  <2>2. ASSUME NEW i \in Inodes, dir.tmp = None, Unused(i),
               fd' = [fd EXCEPT ![w] = i],
               data' = [data EXCEPT ![i] = Empty],
               saved' = [saved EXCEPT ![i] = {Empty}],
               Rename([dir EXCEPT !.tmp = i]),
               Goto(w, "write"),
               UNCHANGED <<holder, asked, started>>
        PROVE IInv'
    <3>0. /\ dir' \in Directories /\ dir'.path = dir.path /\ dir'.tmp = i
          /\ inDoubt' = inDoubt \cup {dir'}
      BY <2>2 DEF Rename, TypeOK, Directories
    <3>1. TypeOK' BY <2>2, <3>0 DEF Goto, TypeOK, Steps, Contents
    <3>2. MutexInv' BY <2>0, <2>2 DEF Goto, MutexInv, Inside, Steps, TypeOK
    <3>3. InsideInv'
      BY <2>0, <2>00, <2>2, <3>0 DEF Goto, InsideInv, HasFile, Inside, Past, TypeOK
    <3>4. NamedInv'
      BY <2>2, <3>0 DEF Unused, NamedInv, TypeOK, Directories
    <3> QED BY <3>1, <3>2, <3>3, <3>4
  <2>3. CASE Return(w, "error") /\ UNCHANGED fileVars /\ UNCHANGED started
    <3>1. TypeOK' BY <2>3 DEF Return, Goto, fileVars, TypeOK, Ended
    <3>2. MutexInv' BY <2>0, <2>3 DEF Return, Goto, MutexInv, Inside, Steps, TypeOK
    <3>3. InsideInv'
      BY <2>3 DEF Return, Goto, fileVars, InsideInv, HasFile, Past, TypeOK
    <3>4. NamedInv' BY <2>3 DEF fileVars, NamedInv
    <3> QED BY <3>1, <3>2, <3>3, <3>4
  <2> QED BY <1>4, <2>1, <2>2, <2>3 DEF Open
<1>5. ASSUME NEW w \in Writers, Write(w) PROVE IInv'
  <2>0. /\ pc[w] = "write" /\ fd[w] = dir.tmp /\ dir.tmp \in Inodes
        /\ \A u \in Writers : pc[u] \in Inside => u = w
    BY <1>5 DEF Write, InsideInv, HasFile, MutexInv, Inside, Steps, TypeOK, Directories
  <2>1. CASE /\ Fill(fd[w], asked[w], {asked[w], Torn})
             /\ Goto(w, "sync")
             /\ UNCHANGED <<fd, holder, asked, dir, inDoubt, started>>
    <3>1. TypeOK' BY <2>0, <2>1 DEF Fill, Goto, TypeOK, Steps, Contents
    <3>2. MutexInv' BY <2>0, <2>1 DEF Goto, MutexInv, Inside, Steps, TypeOK
    <3>3. InsideInv'
      BY <2>0, <2>1 DEF Fill, Goto, InsideInv, HasFile, Inside, Past, TypeOK
    <3>4. NamedInv' BY <2>0, <2>1 DEF Fill, NamedInv, TypeOK, Directories
    <3> QED BY <3>1, <3>2, <3>3, <3>4
  <2>2. CASE /\ Fill(fd[w], Torn, {Torn})
             /\ Goto(w, "remove")
             /\ UNCHANGED <<fd, holder, asked, dir, inDoubt, started>>
    <3>1. TypeOK' BY <2>0, <2>2 DEF Fill, Goto, TypeOK, Steps, Contents
    <3>2. MutexInv' BY <2>0, <2>2 DEF Goto, MutexInv, Inside, Steps, TypeOK
    <3>3. InsideInv'
      BY <2>0, <2>2 DEF Fill, Goto, InsideInv, HasFile, Inside, Past, TypeOK
    <3>4. NamedInv' BY <2>0, <2>2 DEF Fill, NamedInv, TypeOK, Directories
    <3> QED BY <3>1, <3>2, <3>3, <3>4
  <2> QED BY <1>5, <2>1, <2>2 DEF Write
<1>6. ASSUME NEW w \in Writers, Sync(w) PROVE IInv'
  <2>0. /\ pc[w] = "sync" /\ fd[w] = dir.tmp /\ dir.tmp \in Inodes
        /\ \A u \in Writers : pc[u] \in Inside => u = w
    BY <1>6 DEF Sync, InsideInv, HasFile, MutexInv, Inside, Steps, TypeOK, Directories
  <2>1. TypeOK' BY <1>6, <2>0 DEF Sync, Goto, TypeOK, Steps, Contents
  <2>2. MutexInv' BY <1>6, <2>0 DEF Sync, Goto, MutexInv, Inside, Steps, TypeOK
  <2>3. InsideInv'
    BY <1>6, <2>0 DEF Sync, Goto, InsideInv, HasFile, Inside, Past, TypeOK
  <2>4. NamedInv' BY <1>6, <2>0 DEF Sync, NamedInv, TypeOK, Directories
  <2> QED BY <2>1, <2>2, <2>3, <2>4
<1>7. ASSUME NEW w \in Writers, Publish(w) PROVE IInv'
  <2>0. /\ pc[w] = "rename" /\ dir.tmp \in Inodes
        /\ data[dir.tmp] \in Keys /\ saved[dir.tmp] = {data[dir.tmp]}
        /\ \A u \in Writers : pc[u] \in Inside => u = w
    BY <1>7 DEF Publish, InsideInv, HasFile, Past, MutexInv, Inside, Steps, TypeOK, Directories
  <2>1. CASE /\ Rename([path |-> dir.tmp, tmp |-> None])
             /\ Return(w, "ok")
             /\ UNCHANGED <<data, saved, started>>
    <3>0. /\ dir' \in Directories /\ dir'.path = dir.tmp /\ dir'.tmp = None
          /\ inDoubt' = inDoubt \cup {dir'}
      BY <2>0, <2>1 DEF Rename, Directories
    <3>1. TypeOK' BY <2>1, <3>0 DEF Return, Goto, TypeOK, Ended
    <3>2. MutexInv' BY <2>0, <2>1 DEF Return, Goto, MutexInv, Inside, Steps, TypeOK
    <3>3. InsideInv'
      BY <2>0, <2>1, <3>0 DEF Return, Goto, InsideInv, HasFile, Inside, Past, TypeOK
    <3>4. NamedInv' BY <2>0, <2>1, <3>0 DEF NamedInv
    <3> QED BY <3>1, <3>2, <3>3, <3>4
  <2>2. CASE /\ Goto(w, "remove")
             /\ UNCHANGED <<fd, holder, dir, inDoubt, asked, data, saved, started>>
    <3>1. TypeOK' BY <2>2 DEF Goto, TypeOK, Steps
    <3>2. MutexInv' BY <2>0, <2>2 DEF Goto, MutexInv, Inside, Steps, TypeOK
    <3>3. InsideInv'
      BY <2>0, <2>2 DEF Goto, InsideInv, HasFile, Inside, Past, TypeOK
    <3>4. NamedInv' BY <2>2 DEF NamedInv
    <3> QED BY <3>1, <3>2, <3>3, <3>4
  <2> QED BY <1>7, <2>1, <2>2 DEF Publish
<1>8. ASSUME NEW w \in Writers, Remove(w) PROVE IInv'
  <2>0. /\ pc[w] = "remove"
        /\ \A u \in Writers : pc[u] \in Inside => u = w
    BY <1>8 DEF Remove, MutexInv, Inside, Steps
  <2>1. /\ dir' \in Directories /\ dir'.path = dir.path /\ dir'.tmp \in {dir.tmp, None}
        /\ inDoubt' = inDoubt \cup {dir'}
    BY <1>8 DEF Remove, Rename, Directories, TypeOK, NamedInv
  <2>2. TypeOK' BY <1>8, <2>1 DEF Remove, Return, Goto, TypeOK, Ended
  <2>3. MutexInv' BY <1>8, <2>0 DEF Remove, Return, Goto, MutexInv, Inside, Steps, TypeOK
  <2>4. InsideInv'
    BY <1>8, <2>0, <2>1 DEF Remove, Return, Goto, InsideInv, HasFile, Inside, Past, TypeOK
  <2>5. NamedInv' BY <1>8, <2>1 DEF Remove, NamedInv
  <2> QED BY <2>2, <2>3, <2>4, <2>5
<1>9. ASSUME Start PROVE IInv'
  <2>1. /\ dir' \in Directories /\ dir'.path \in {dir.path, None} /\ dir'.tmp = dir.tmp
        /\ inDoubt' = inDoubt \cup {dir'}
    BY <1>9 DEF Start, Rename, Directories, TypeOK, NamedInv
  <2>2. TypeOK' BY <1>9, <2>1 DEF Start, TypeOK, Seen, Contents, Directories
  <2>3. MutexInv' BY <1>9 DEF Start, MutexInv
  <2>4. InsideInv' BY <1>9, <2>1 DEF Start, InsideInv, Past
  <2>5. NamedInv' BY <1>9, <2>1 DEF Start, NamedInv
  <2> QED BY <2>2, <2>3, <2>4, <2>5
<1>10. ASSUME Kill PROVE IInv'
  <2>1. TypeOK' BY <1>10 DEF Kill, Halt, fileVars, TypeOK, Ended
  <2>2. MutexInv' /\ InsideInv'
    BY <1>10 DEF Kill, Halt, MutexInv, InsideInv, Inside, HasFile, Past, Steps
  <2>3. NamedInv' BY <1>10 DEF Kill, fileVars, NamedInv
  <2> QED BY <2>1, <2>2, <2>3
<1>11. ASSUME PowerLoss PROVE IInv'
  <2>1. /\ data' \in [Inodes -> Contents]
        /\ dir' \in inDoubt /\ dir' \in Directories
        /\ \A i \in Inodes : saved'[i] = {data'[i]}
        /\ \A i \in Inodes : i \in {dir'.path, dir'.tmp} => data'[i] \in saved[i]
    BY <1>11 DEF PowerLoss, TypeOK, Contents
  <2>2. TypeOK' BY <1>11, <2>1 DEF PowerLoss, Halt, TypeOK, Ended
  <2>3. MutexInv' /\ InsideInv'
    BY <1>11 DEF PowerLoss, Halt, MutexInv, InsideInv, Inside, HasFile, Past, Steps
  <2>4. NamedInv'
    BY <1>11, <2>1 DEF PowerLoss, NamedInv, Directories
  <2> QED BY <2>2, <2>3, <2>4
<1>12. ASSUME Settle PROVE IInv'
  <2> DEFINE gone == {i \in Inodes : i \notin {dir.path, dir.tmp} /\ \A w \in Writers : fd[w] # i}
  <2>1. /\ inDoubt' = {dir}
        /\ \A i \in Inodes : i \in {dir.path, dir.tmp} => data'[i] = data[i] /\ saved'[i] = saved[i]
        /\ UNCHANGED <<pc, asked, fd, holder, dir, started>>
    BY <1>12 DEF Settle
  <2>2. TypeOK'
    <3>1. data' \in [Inodes -> Contents] /\ saved' \in [Inodes -> SUBSET Contents]
      BY <1>12 DEF Settle, TypeOK, Contents
    <3> QED BY <2>1, <3>1 DEF TypeOK
  <2>3. MutexInv' BY <2>1 DEF MutexInv
  <2>4. InsideInv'
    BY <2>1 DEF InsideInv, HasFile, Past, TypeOK, Directories
  <2>5. NamedInv' BY <2>1 DEF NamedInv, TypeOK, Directories
  <2> QED BY <2>2, <2>3, <2>4, <2>5
<1>13. CASE UNCHANGED vars
  BY <1>13 DEF vars, TypeOK, MutexInv, InsideInv, NamedInv, Past
<1> QED
  BY <1>1, <1>2, <1>3, <1>4, <1>5, <1>6, <1>7, <1>8, <1>9, <1>10, <1>11, <1>12, <1>13 DEF Next

LEMMA Invariance == ASSUME ~Overlap PROVE Spec => []IInv
<1>1. Init => IInv BY InitInv
<1>2. IInv /\ [Next]_vars => IInv' BY NextInv
<1> QED BY <1>1, <1>2, PTL DEF Spec

\* Every variable keeps its type (TypeOK), whoever writes and whatever fails.
THEOREM TypeCorrect == ASSUME ~Overlap PROVE Spec => []TypeOK
BY Invariance, PTL DEF IInv

\* "write temp -> fsync -> rename (crash-safe)" of persistLocked: at no step
\* of a write can a power loss leave an empty or a cut-short file behind.
THEOREM WriteIsCrashSafe == ASSUME ~Overlap PROVE Spec => []CrashSafe
<1>1. IInv => CrashSafe BY DEF IInv, NamedInv, CrashSafe
<1> QED BY Invariance, <1>1, PTL

-----------------------------------------------------------------------------
(* The refinement.                                                         *)

\* Under the invariant the disk may have, of the file, just what its names
\* may lead to.
LEMMA MayFindSeen == ASSUME IInv PROVE MayFind = {Seen(d) : d \in inDoubt}
<1>1. \A d \in inDoubt :
         (IF d.path = None THEN {NoValue} ELSE saved[d.path]) = {Seen(d)}
  BY DEF IInv, NamedInv, Seen
<1> QED BY <1>1 DEF MayFind

LEMMA InitMaps == ASSUME Init PROVE Abstract!AInit
<1>1. Seen(dir) \in Keys \cup {Poison, NoValue}
  BY Constants DEF Init, Seen
<1>2. MayFind = {Seen(dir)}
  <2>1. IInv BY InitInv
  <2>2. inDoubt = {dir} BY DEF Init
  <2> QED BY <2>1, <2>2, MayFindSeen
<1>3. Calls = Abstract!Quiet
  BY DEF Init, Calls, Steps, Abstract!Quiet
<1>4. asked = Abstract!Nothing /\ started = Off
  BY DEF Init, Abstract!Nothing
<1> QED BY <1>1, <1>2, <1>3, <1>4 DEF Abstract!AInit

\* A step that leaves the contents the names may lead to alone, and perhaps
\* makes one more directory possible.
LEMMA OneMoreName ==
    ASSUME IInv, IInv', inDoubt' = inDoubt \cup {dir'},
           \A d \in inDoubt : d.path # None => data'[d.path] = data[d.path]
    PROVE  MayFind' = MayFind \cup {Seen(dir)'}
<1>1. MayFind = {Seen(d) : d \in inDoubt}
  BY MayFindSeen
<1>2. MayFind' = {IF d.path = None THEN NoValue ELSE data'[d.path] : d \in inDoubt'}
  <2>1. \A d \in inDoubt' : (IF d.path = None THEN {NoValue} ELSE saved'[d.path])
                            = {IF d.path = None THEN NoValue ELSE data'[d.path]}
    BY DEF IInv, NamedInv
  <2> QED BY <2>1 DEF MayFind
<1>3. Seen(dir)' = IF dir'.path = None THEN NoValue ELSE data'[dir'.path]
  BY DEF Seen
<1>4. \A d \in inDoubt : (IF d.path = None THEN NoValue ELSE data'[d.path]) = Seen(d)
  BY DEF Seen
<1> QED BY <1>1, <1>2, <1>3, <1>4

\* If <path> itself is left alone too, the register does not change.
LEMMA SameRegister ==
    ASSUME IInv, IInv', inDoubt' = inDoubt \cup {dir'}, dir'.path = dir.path,
           \A d \in inDoubt : d.path # None => data'[d.path] = data[d.path]
    PROVE  UNCHANGED <<Seen(dir), MayFind>>
<1>1. Seen(dir)' = Seen(dir)
  BY DEF Seen, IInv, NamedInv
<1>2. Seen(dir) \in MayFind
  BY MayFindSeen DEF IInv, NamedInv
<1> QED BY <1>1, <1>2, OneMoreName

\* A goroutine moves on: inside its call the register's caller waits.
LEMMA CallMoves ==
    ASSUME TypeOK, NEW w \in Writers, NEW l \in Ended \cup Steps, Goto(w, l)
    PROVE  /\ Calls' = [Calls EXCEPT ![w] = IF l \in Steps THEN "called" ELSE l]
           /\ pc[w] \in Steps => Calls[w] = "called"
           /\ pc[w] \in Steps /\ l \in Steps => Calls' = Calls
           /\ pc[w] \in Ended => Calls[w] # "called"
BY DEF TypeOK, Goto, Calls, Steps, Ended

LEMMA NextMaps ==
    ASSUME ~Overlap, IInv, IInv', [Next]_vars
    PROVE  [Abstract!ANext]_(Abstract!aVars)
<1> USE Constants
<1> DEFINE Kept == UNCHANGED <<Seen(dir), MayFind>>
           Stutter == UNCHANGED <<Seen(dir), MayFind, Calls, asked, started>>
<1>t. TypeOK BY DEF IInv
<1>d. dir \in inDoubt BY DEF IInv, NamedInv
<1>k. ASSUME UNCHANGED <<dir, inDoubt, data>> PROVE Kept
  <2>1. inDoubt' = inDoubt \cup {dir'} /\ dir'.path = dir.path BY <1>k, <1>d
  <2> QED BY <1>k, <2>1, SameRegister
<1>s. Stutter => UNCHANGED Abstract!aVars
  BY DEF Abstract!aVars
<1>1. ASSUME NEW w \in Writers, NEW v \in Keys \cup {Poison}, Submit(w, v)
      PROVE Abstract!ACall(w, v)
  <2>1. Kept BY <1>1, <1>k DEF Submit
  <2>2. Goto(w, "check") /\ pc[w] \in Ended /\ "check" \in Steps
    BY <1>1 DEF Submit, Steps
  <2>3. Calls[w] # "called" /\ Calls' = [Calls EXCEPT ![w] = "called"]
    BY <1>t, <2>2, CallMoves
  <2> QED BY <1>1, <2>1, <2>3 DEF Submit, Abstract!ACall
<1>2. ASSUME NEW w \in Writers, Check(w) PROVE Abstract!AFail(w) \/ Stutter
  <2>1. Kept BY <1>2, <1>k DEF Check
  <2>2. pc[w] \in Steps BY <1>2 DEF Check, Steps
  <2>3. CASE Return(w, "error")
    <3>1. Calls[w] = "called" /\ Calls' = [Calls EXCEPT ![w] = "error"]
      BY <1>t, <2>2, <2>3, CallMoves DEF Ended, Steps, Return
    <3> QED BY <1>2, <2>1, <2>3, <3>1 DEF Check, Return, Abstract!AFail, Abstract!Answer
  <2>4. ASSUME NEW l \in {"lock", "open"}, Goto(w, l), UNCHANGED asked PROVE Stutter
    <3>1. Calls' = Calls
      BY <1>t, <2>2, <2>4, CallMoves DEF Steps
    <3> QED BY <1>2, <2>1, <2>4, <3>1 DEF Check
  <2> QED BY <1>2, <2>3, <2>4 DEF Check
<1>3. ASSUME NEW w \in Writers, Lock(w) PROVE Stutter
  <2>1. Kept BY <1>3, <1>k DEF Lock
  <2>2. Calls' = Calls
    BY <1>3, <1>t, CallMoves DEF Lock, Steps
  <2> QED BY <1>3, <2>1, <2>2 DEF Lock
<1>4. ASSUME NEW w \in Writers, Open(w) PROVE Abstract!AFail(w) \/ Stutter
  <2>1. pc[w] \in Steps BY <1>4 DEF Open, Steps
  <2>2. CASE Goto(w, "write") /\ UNCHANGED asked
    <3>1. Calls' = Calls BY <1>t, <2>1, <2>2, CallMoves DEF Steps
    <3>2. /\ inDoubt' = inDoubt \cup {dir'} /\ dir'.path = dir.path
          /\ \A d \in inDoubt : d.path # None => data'[d.path] = data[d.path]
      <4>1. CASE dir.tmp # None
        <5>1. data' = [data EXCEPT ![dir.tmp] = Empty] /\ UNCHANGED <<dir, inDoubt>>
          BY <1>4, <1>t, <2>2, <4>1 DEF Open, Fill, Return, Goto, TypeOK
        <5> QED BY <5>1, <1>d DEF IInv, TypeOK, NamedInv, Directories
      <4>2. CASE dir.tmp = None
        <5>1. PICK i \in Inodes : /\ Unused(i)
                                  /\ data' = [data EXCEPT ![i] = Empty]
                                  /\ Rename([dir EXCEPT !.tmp = i])
          BY <1>4, <1>t, <2>2, <4>2 DEF Open, Return, Goto, TypeOK
        <5> QED BY <5>1 DEF IInv, Unused, Rename, TypeOK, Directories
      <4> QED BY <4>1, <4>2
    <3>3. Kept BY <3>2, SameRegister
    <3> QED BY <1>4, <2>2, <3>1, <3>3 DEF Open
  <2>3. CASE Return(w, "error") /\ UNCHANGED fileVars
    <3>1. Calls[w] = "called" /\ Calls' = [Calls EXCEPT ![w] = "error"]
      BY <1>t, <2>1, <2>3, CallMoves DEF Ended, Steps, Return
    <3>2. Kept BY <2>3, <1>k DEF fileVars
    <3> QED BY <1>4, <2>3, <3>1, <3>2 DEF Open, Return, Abstract!AFail, Abstract!Answer
  <2> QED BY <1>4, <2>2, <2>3 DEF Open
<1>5. ASSUME NEW w \in Writers, Write(w) PROVE Stutter
  <2>1. /\ pc[w] = "write" /\ fd[w] = dir.tmp /\ dir.tmp \in Inodes
    BY <1>5 DEF Write, IInv, InsideInv, HasFile, TypeOK, Directories
  <2>2. /\ UNCHANGED <<dir, inDoubt, asked, started>>
        /\ \E v : data' = [data EXCEPT ![dir.tmp] = v]
        /\ Goto(w, "sync") \/ Goto(w, "remove")
    BY <1>5, <2>1 DEF Write, Fill
  <2>3. Calls' = Calls
    BY <1>t, <2>1, <2>2, CallMoves DEF Steps
  <2>4. /\ inDoubt' = inDoubt \cup {dir'} /\ dir'.path = dir.path
        /\ \A d \in inDoubt : d.path # None => data'[d.path] = data[d.path]
    BY <1>d, <2>1, <2>2 DEF IInv, NamedInv, TypeOK, Directories
  <2>5. Kept BY <2>4, SameRegister
  <2> QED BY <2>2, <2>3, <2>5
<1>6. ASSUME NEW w \in Writers, Sync(w) PROVE Stutter
  <2>1. Kept BY <1>6, <1>k DEF Sync
  <2>2. Calls' = Calls
    BY <1>6, <1>t, CallMoves DEF Sync, Steps
  <2> QED BY <1>6, <2>1, <2>2 DEF Sync
<1>7. ASSUME NEW w \in Writers, Publish(w) PROVE Abstract!APut(w) \/ Stutter
  <2>1. /\ pc[w] = "rename" /\ pc[w] \in Steps /\ dir.tmp \in Inodes
        /\ asked[w] \in Keys /\ data[dir.tmp] = asked[w]
    BY <1>7 DEF Publish, Steps, IInv, InsideInv, HasFile, Past, TypeOK, Directories
  <2>2. CASE Goto(w, "remove") /\ UNCHANGED <<asked, dir, inDoubt>>
    <3>1. Calls' = Calls BY <1>t, <2>1, <2>2, CallMoves DEF Steps
    <3>2. Kept BY <1>7, <1>k, <2>2 DEF Publish
    <3> QED BY <1>7, <2>2, <3>1, <3>2 DEF Publish
  <2>3. CASE Rename([path |-> dir.tmp, tmp |-> None]) /\ Return(w, "ok")
    <3>1. Calls[w] = "called" /\ Calls' = [Calls EXCEPT ![w] = "ok"]
      BY <1>t, <2>1, <2>3, CallMoves DEF Ended, Steps, Return
    <3>2. Seen(dir)' = asked[w]
      BY <1>7, <2>1, <2>3 DEF Publish, Rename, Seen
    <3>3. MayFind' = MayFind \cup {asked[w]}
      BY <1>7, <2>3, <3>2, OneMoreName DEF Publish, Rename
    <3> QED BY <1>7, <2>1, <2>3, <3>1, <3>2, <3>3
            DEF Publish, Return, Abstract!APut, Abstract!Answer
  <2> QED BY <1>7, <2>2, <2>3 DEF Publish
<1>8. ASSUME NEW w \in Writers, Remove(w) PROVE Abstract!AFail(w)
  <2>1. Calls[w] = "called" /\ Calls' = [Calls EXCEPT ![w] = "error"]
    BY <1>8, <1>t, CallMoves DEF Remove, Return, Ended, Steps
  <2>2. inDoubt' = inDoubt \cup {dir'} /\ dir'.path = dir.path /\ data' = data
    BY <1>8, <1>d, <1>t DEF Remove, Rename, TypeOK, Directories
  <2>3. Kept BY <2>2, SameRegister
  <2> QED BY <1>8, <2>1, <2>3 DEF Remove, Return, Abstract!AFail, Abstract!Answer
<1>9. ASSUME Start PROVE Abstract!AStart
  <2>1. Seen(dir) \in Keys \cup {Poison, NoValue}
    BY DEF IInv, NamedInv, Seen
  <2>2. Calls' = Calls BY <1>9 DEF Start, Calls
  <2>3. CASE UNCHANGED <<dir, inDoubt>>
    <3>1. Kept BY <1>9, <1>k, <2>3 DEF Start
    <3> QED BY <1>9, <2>1, <2>2, <3>1 DEF Start, Abstract!AStart
  <2>4. CASE /\ Rename([dir EXCEPT !.path = None]) /\ Seen(dir) = Poison
             /\ started' = Env
    <3>1. inDoubt' = inDoubt \cup {dir'} /\ dir'.path = None /\ data' = data
      BY <1>9, <1>t, <2>4 DEF Start, Rename, TypeOK, Directories
    <3>2. Seen(dir)' = NoValue BY <3>1 DEF Seen
    <3>3. MayFind' = MayFind \cup {NoValue} BY <3>1, <3>2, OneMoreName
    <3>4. started = Off /\ started' = Env /\ asked' = asked
      BY <1>9, <2>4 DEF Start
    <3> QED BY <2>2, <2>4, <3>2, <3>3, <3>4 DEF Abstract!AStart
  <2> QED BY <1>9, <2>3, <2>4 DEF Start
<1>10. ASSUME Kill PROVE Abstract!AKill
  <2>1. Kept BY <1>10, <1>k DEF Kill, fileVars
  <2>2. Calls' = Abstract!Quiet
    BY <1>10 DEF Kill, Halt, Calls, Steps, Abstract!Quiet
  <2> QED BY <1>10, <2>1, <2>2 DEF Kill, Halt, Abstract!AKill, Abstract!Nothing
<1>11. ASSUME PowerLoss PROVE Abstract!APowerLoss
  <2>1. Calls' = Abstract!Quiet
    BY <1>11 DEF PowerLoss, Halt, Calls, Steps, Abstract!Quiet
  <2>2. Seen(dir)' \in MayFind
    <3>1. dir' \in inDoubt /\ (dir'.path # None => data'[dir'.path] \in saved[dir'.path])
      BY <1>11, <1>t DEF PowerLoss, TypeOK, Directories
    <3>2. dir'.path # None => data'[dir'.path] = data[dir'.path]
      BY <3>1 DEF IInv, NamedInv
    <3>3. Seen(dir)' = Seen(dir')
      BY <3>2 DEF Seen
    <3> QED BY <3>1, <3>3, MayFindSeen
  <2>3. MayFind' = {Seen(dir)'}
    <3>1. inDoubt' = {dir'} /\ dir' \in inDoubt' BY <1>11 DEF PowerLoss
    <3>2. (IF dir'.path = None THEN {NoValue} ELSE saved'[dir'.path]) = {Seen(dir)'}
      BY <3>1 DEF IInv, NamedInv, Seen
    <3> QED BY <3>1, <3>2 DEF MayFind
  <2> QED BY <1>11, <2>1, <2>2, <2>3 DEF PowerLoss, Halt, Abstract!APowerLoss, Abstract!Nothing
<1>12. ASSUME Settle PROVE Abstract!ASettle
  <2>1. Calls' = Calls BY <1>12 DEF Settle, Calls
  <2>2. /\ inDoubt' = {dir} /\ dir' = dir
        /\ dir.path # None => data'[dir.path] = data[dir.path]
    BY <1>12, <1>t DEF Settle, TypeOK, Directories
  <2>3. Seen(dir)' = Seen(dir) BY <2>2 DEF Seen
  <2>4. MayFind' = {Seen(dir)}
    <3>1. (IF dir'.path = None THEN {NoValue} ELSE saved'[dir'.path]) = {Seen(dir)'}
      BY DEF IInv, NamedInv, Seen
    <3> QED BY <2>2, <2>3, <3>1 DEF MayFind
  <2> QED BY <1>12, <2>1, <2>3, <2>4 DEF Settle, Abstract!ASettle
<1>13. CASE UNCHANGED vars
  <2>1. Kept BY <1>13, <1>k DEF vars
  <2> QED BY <1>13, <1>s, <2>1 DEF vars, Calls
<1>14. CASE \E w \in Writers : \E v \in Keys \cup {Poison} : Submit(w, v)
  BY <1>1, <1>14 DEF Abstract!ANext
<1>15. CASE \E w \in Writers : Check(w) \/ Lock(w) \/ Open(w) \/ Write(w) \/ Sync(w)
                                 \/ Publish(w) \/ Remove(w)
  <2>1. PICK w \in Writers : Check(w) \/ Lock(w) \/ Open(w) \/ Write(w) \/ Sync(w)
                               \/ Publish(w) \/ Remove(w)
    BY <1>15
  <2>2. Abstract!AFail(w) \/ Abstract!APut(w) \/ Stutter
    BY <2>1, <1>2, <1>3, <1>4, <1>5, <1>6, <1>7, <1>8
  <2> QED BY <2>2, <1>s DEF Abstract!ANext
<1>16. CASE Start \/ Kill \/ PowerLoss \/ Settle
  BY <1>9, <1>10, <1>11, <1>12, <1>16 DEF Abstract!ANext
<1> QED BY <1>13, <1>14, <1>15, <1>16 DEF Next

\* A write of a file that is synced and has one writer at a time takes effect
\* at once and entirely or not at all, its answer says which, and a start that
\* can read the file finds the last value that took effect (persistLocked,
\* Store.Load); one that cannot leaves the value where it is.
THEOREM FileIsAtomic == ASSUME ~Overlap PROVE Spec => IsAtomic
<1>1. Init => Abstract!AInit BY InitMaps
<1>2. IInv /\ IInv' /\ [Next]_vars => [Abstract!ANext]_(Abstract!aVars) BY NextMaps
<1>3. Spec => []IInv BY Invariance
<1> QED BY <1>1, <1>2, <1>3, PTL DEF Spec, IsAtomic, Abstract!ASpec
=============================================================================
