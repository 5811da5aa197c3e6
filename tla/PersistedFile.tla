--------------------------- MODULE PersistedFile ---------------------------
(***************************************************************************)
(* The files the program rewrites as a whole: <path>.tmp is opened and     *)
(* truncated, written, synced, closed, and renamed over <path>.  There are *)
(* two of them (the variable kind, which never changes):                   *)
(*   "rules"    bypass.Store.persistLocked, under Store.mu                 *)
(*   "key"      config.PersistAccessKey, with no lock                      *)
(* (The third, config.PersistBackend, is in TunnelSwitch.)                 *)
(* The file system is the usual one: a name leads to an inode, an open     *)
(* file stays the inode whatever happens to its name, and what was neither *)
(* synced nor settled is in doubt after a power loss.                      *)
(***************************************************************************)
EXTENDS FiniteSets

CONSTANTS
    Writers, Keys, Poison, NoValue, Env, Unread, Off,   \* as in AtomicFile
    Empty,          \* the content of a file that was only truncated
    Torn,           \* the content of a file cut short
    Inodes,         \* a bound on the inodes in use at once
    None,           \* no inode, nobody
    Overlap,        \* whether two requests may replace the key at once
    PowerLossOn     \* whether the machine may stop, and not only the process

Markers == {Poison, NoValue, Env, Unread, Off, Empty, Torn}

ASSUME PersistedFileAssumption ==
    /\ Overlap \in BOOLEAN
    /\ Keys \cap Markers = {}
    /\ Cardinality(Markers) = 7
    /\ None \notin Inodes \cup Writers
    /\ PowerLossOn \in BOOLEAN

VARIABLES
    kind,           \* which file it is: "rules" or "key"
    pc,             \* per writer: where it is in the call, or how that ended
    asked,          \* per writer: the value its call is to write
    fd,             \* per writer: the inode it has open
    holder,         \* who holds Store.mu
    dir,            \* the directory: the inodes of <path> and <path>.tmp
    inDoubt,        \* directories a power loss may bring back
    data,           \* per inode: its content
    saved,          \* per inode: contents a power loss may leave
    started         \* what the program started with

vars == <<kind, pc, asked, fd, holder, dir, inDoubt, data, saved, started>>
fileVars == <<dir, inDoubt, data, saved>>

Contents == Keys \cup {Poison, Empty, Torn}
Directories == [path : Inodes \cup {None}, tmp : Inodes \cup {None}]
Ended == {"idle", "ok", "error"}
Steps == {"check", "lock", "open", "write", "sync", "rename", "remove"}

\* What a reader gets through the directory d.
Seen(d) == IF d.path = None THEN NoValue ELSE data[d.path]

\* No name leads to the inode, nor would one after a power loss, and nobody has it open.
Unused(i) ==
    /\ \A d \in inDoubt : d.path # i /\ d.tmp # i
    /\ \A w \in Writers : fd[w] # i

Init ==
    /\ kind \in {"rules", "key"}
    /\ \E i \in Inodes, v \in Keys \cup {Poison}, there \in BOOLEAN :
           /\ pc = [w \in Writers |-> "idle"]
           /\ asked = [w \in Writers |-> Poison]
           /\ fd = [w \in Writers |-> None]
           /\ holder = None
           /\ dir = [path |-> IF there THEN i ELSE None, tmp |-> None]
           /\ inDoubt = {dir}
           /\ data = [j \in Inodes |-> IF j = i THEN v ELSE Empty]
           /\ saved = [j \in Inodes |-> {data[j]}]
           /\ started = Off

Goto(w, label) == pc' = [pc EXCEPT ![w] = label]

\* The names change; the disk has the change at some later time.
Rename(d) ==
    /\ dir' = d
    /\ inDoubt' = inDoubt \cup {d}

\* The content of inode i changes; so, perhaps, does what the disk has of it.
Fill(i, v, doubt) ==
    /\ data' = [data EXCEPT ![i] = v]
    /\ saved' = [saved EXCEPT ![i] = @ \cup doubt]

\* A goroutine ends its call with the outcome and gives up the lock, if it has it.
Return(w, outcome) ==
    /\ Goto(w, outcome)
    /\ asked' = [asked EXCEPT ![w] = Poison]
    /\ fd' = [fd EXCEPT ![w] = None]
    /\ holder' = IF holder = w THEN None ELSE holder

-----------------------------------------------------------------------------
(* A write call.                                                           *)

\* A request of the web UI to keep v.  Without Overlap a request for the key
\* comes when the one before has its answer.
Submit(w, v) ==
    /\ started # Off
    /\ pc[w] \in Ended
    /\ Overlap \/ kind = "rules" \/ \A u \in Writers : pc[u] \in Ended
    /\ Goto(w, "check")
    /\ asked' = [asked EXCEPT ![w] = v]
    /\ UNCHANGED <<fd, holder, dir, inDoubt, data, saved, started>>

\* ValidateAccessKey or ParseRule.
Check(w) ==
    /\ pc[w] = "check"
    /\ \/ asked[w] = Poison /\ Return(w, "error")
       \/ /\ asked[w] # Poison
          /\ Goto(w, IF kind = "rules" THEN "lock" ELSE "open")
          /\ UNCHANGED <<asked, fd, holder>>
    /\ UNCHANGED <<dir, inDoubt, data, saved, started>>

\* Mutation of Lock: a reader's lock, which does not keep others out.
LockShared(w) ==
    /\ pc[w] = "lock"
    /\ Goto(w, "open")
    /\ UNCHANGED <<asked, fd, holder, dir, inDoubt, data, saved, started>>

\* Store.mu
Lock(w) ==
    /\ pc[w] = "lock"
    /\ holder = None
    /\ holder' = w
    /\ Goto(w, "open")
    /\ UNCHANGED <<asked, fd, dir, inDoubt, data, saved, started>>

\* MkdirAll and OpenFile with O_CREATE|O_TRUNC: the file <path>.tmp is there
\* already, it is a new one, or the call fails.
Open(w) ==
    /\ pc[w] = "open"
    /\ \/ /\ dir.tmp # None
          /\ fd' = [fd EXCEPT ![w] = dir.tmp]
          /\ Fill(dir.tmp, Empty, {Empty})
          /\ Goto(w, "write")
          /\ UNCHANGED <<asked, holder, dir, inDoubt>>
       \/ /\ dir.tmp = None
          /\ \E i \in Inodes :
                /\ Unused(i)
                /\ fd' = [fd EXCEPT ![w] = i]
                /\ data' = [data EXCEPT ![i] = Empty]
                /\ saved' = [saved EXCEPT ![i] = {Empty}]
                /\ Rename([dir EXCEPT !.tmp = i])
          /\ Goto(w, "write")
          /\ UNCHANGED <<asked, holder>>
       \/ Return(w, "error") /\ UNCHANGED fileVars
    /\ UNCHANGED started

\* WriteString: every writer starts at the beginning of the file and ends its
\* value with a newline, so the first line is that of the last to write.  A
\* write that fails (a full disk) leaves a part.
Write(w) ==
    /\ pc[w] = "write"
    /\ \/ /\ Fill(fd[w], asked[w], {asked[w], Torn})
          /\ Goto(w, "sync")
       \/ /\ Fill(fd[w], Torn, {Torn})
          /\ Goto(w, "remove")
    /\ UNCHANGED <<asked, fd, holder, dir, inDoubt, started>>

\* Mutation of Sync: the file is closed, and not synced.
SyncNothing(w) ==
    /\ pc[w] = "sync"
    /\ Goto(w, "rename")
    /\ UNCHANGED <<asked, fd, holder, dir, inDoubt, data, saved, started>>

\* Sync and Close: the content is on the disk, or one of them fails.
Sync(w) ==
    /\ pc[w] = "sync"
    /\ \/ /\ saved' = [saved EXCEPT ![fd[w]] = {data[fd[w]]}]
          /\ Goto(w, "rename")
       \/ Goto(w, "remove") /\ UNCHANGED saved
    /\ UNCHANGED <<asked, fd, holder, dir, inDoubt, data, started>>

\* os.Rename of <path>.tmp to <path>, by name: whatever file has that name now.
Publish(w) ==
    /\ pc[w] = "rename"
    /\ \/ /\ dir.tmp # None
          /\ Rename([path |-> dir.tmp, tmp |-> None])
          /\ Return(w, "ok")
       \/ Goto(w, "remove") /\ UNCHANGED <<asked, fd, holder, dir, inDoubt>>
    /\ UNCHANGED <<data, saved, started>>

\* os.Remove of <path>.tmp, by name; its own error is ignored.
Remove(w) ==
    /\ pc[w] = "remove"
    /\ \/ dir.tmp # None /\ Rename([dir EXCEPT !.tmp = None])
       \/ UNCHANGED <<dir, inDoubt>>
    /\ Return(w, "error")
    /\ UNCHANGED <<data, saved, started>>

-----------------------------------------------------------------------------
(* Start, kill, power loss.                                                *)

\* loadAccessKey, Store.Load: the value of the file wins.  With
\* no file, a file without a value, or rules of which one is bad the program
\* starts with what the environment gives (no rules); a bad key is also put
\* aside, as <path>.invalid, if that rename does not fail.  A read that fails
\* (os.ReadFile) does not stop the program either: it goes on in the same way,
\* and the file stays as it is.
Start ==
    /\ started = Off
    /\ \/ /\ Seen(dir) \notin {Poison, NoValue, Empty}
          /\ started' = Seen(dir)
          /\ UNCHANGED <<dir, inDoubt>>
       \/ /\ Seen(dir) \in {NoValue, Empty}
          /\ started' = Env
          /\ UNCHANGED <<dir, inDoubt>>
       \/ /\ Seen(dir) = Poison
          /\ started' = Env
          /\ \/ kind = "key" /\ Rename([dir EXCEPT !.path = None])
             \/ UNCHANGED <<dir, inDoubt>>
       \/ started' = Unread /\ UNCHANGED <<dir, inDoubt>>
    /\ UNCHANGED <<pc, asked, fd, holder, data, saved>>

\* What no goroutine survives.
Halt ==
    /\ started' = Off
    /\ pc' = [w \in Writers |-> "idle"]
    /\ fd' = [w \in Writers |-> None]
    /\ holder' = None
    /\ asked' = [w \in Writers |-> Poison]

\* The process ends: a stop, a crash, a restart of the container.
Kill ==
    /\ started # Off
    /\ Halt
    /\ UNCHANGED fileVars

\* The machine stops: the disk has one of the directories in doubt, and of
\* every file with a name one of the contents in doubt.
PowerLoss ==
    /\ PowerLossOn
    /\ Halt
    /\ \E d \in inDoubt :
          LET named == {d.path, d.tmp} \ {None}
          IN  /\ dir' = d
              /\ \E left \in [named -> UNION {saved[i] : i \in named}] :
                    /\ \A i \in named : left[i] \in saved[i]
                    /\ data' = [i \in Inodes |-> IF i \in named THEN left[i] ELSE Empty]
    /\ inDoubt' = {dir'}
    /\ saved' = [i \in Inodes |-> {data'[i]}]

\* The file system has brought the directory to the disk, and what has no name
\* any more and is not open is gone.
Settle ==
    LET gone == {i \in Inodes : i \notin {dir.path, dir.tmp} /\ \A w \in Writers : fd[w] # i}
    IN  /\ inDoubt # {dir}
        /\ inDoubt' = {dir}
        /\ data' = [i \in Inodes |-> IF i \in gone THEN Empty ELSE data[i]]
        /\ saved' = [i \in Inodes |-> IF i \in gone THEN {Empty} ELSE saved[i]]
        /\ UNCHANGED <<pc, asked, fd, holder, dir, started>>

Next ==
    /\ \/ \E w \in Writers :
             \/ \E v \in Keys \cup {Poison} : Submit(w, v)
             \/ Check(w) \/ Lock(w) \/ Open(w) \/ Write(w)
             \/ Sync(w) \/ Publish(w) \/ Remove(w)
       \/ Start \/ Kill \/ PowerLoss \/ Settle
    /\ UNCHANGED kind

Spec == Init /\ [][Next]_vars

-----------------------------------------------------------------------------
(* Properties.                                                             *)

\* Type invariant: the goroutines, the names, and the inodes they lead to.
\* The lock is with a writer between Lock and Return, and with nobody else.
TypeOK ==
    /\ kind \in {"rules", "key"}
    /\ pc \in [Writers -> Ended \cup Steps]
    /\ asked \in [Writers -> Keys \cup {Poison}]
    /\ fd \in [Writers -> Inodes \cup {None}]
    /\ holder \in Writers \cup {None}
    /\ dir \in Directories
    /\ inDoubt \subseteq Directories
    /\ data \in [Inodes -> Contents]
    /\ saved \in [Inodes -> SUBSET Contents]
    /\ started \in Keys \cup {Torn, Env, Unread, Off}

\* "Atomic persist: write temp -> fsync -> rename (crash-safe)": at no point
\* of a write can a power loss leave the name on a file that is empty or cut
\* short (persistLocked syncs the inode before the name leads to it, and no
\* inode the name may lead to is opened again).
CrashSafe ==
    \A d \in inDoubt : d.path # None => saved[d.path] \subseteq Keys \cup {Poison}

\* "PersistAccessKey writes the access key to path atomically": whoever reads
\* the file, the next start first, finds a whole key in it.
WholeFile == dir.path # None => data[dir.path] \in Keys \cup {Poison}

\* What the next start may find after a power loss.
MayFind == UNION {IF d.path = None THEN {NoValue} ELSE saved[d.path] : d \in inDoubt}

\* A call is one from the request to its answer.
Calls == [w \in Writers |-> IF pc[w] \in Steps THEN "called" ELSE pc[w]]

\* The register the file stands for.
Abstract == INSTANCE AtomicFile WITH value <- Seen(dir), older <- MayFind, call <- Calls

\* A write takes effect at once and entirely or not at all, its outcome says
\* which, and a start that can read the file finds the last value that took effect.
IsAtomic == Abstract!ASpec
=============================================================================
