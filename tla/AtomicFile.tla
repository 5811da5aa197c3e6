---------------------------- MODULE AtomicFile ----------------------------
(***************************************************************************)
(* What "atomic" and "crash-safe" promise of a small file the program      *)
(* rewrites as a whole (the rules of bypass.Store, the access key): one    *)
(* register.  A write call that returns nil has put its value there, one   *)
(* that returns an error has not, nobody ever sees anything but a value    *)
(* somebody wrote, and a power loss can only bring an earlier one back.    *)
(***************************************************************************)
EXTENDS Naturals

CONSTANTS
    Writers,        \* goroutines that write the file
    Keys,           \* values the program accepts
    Poison,         \* a value it refuses: a redacted key, a bad rule
    NoValue,        \* the file is missing
    Env,            \* what the program starts with when the file gives nothing
    Unread,         \* the same, because the file could not be read
    Off             \* the program is not running

VARIABLES
    value,          \* what a reader of the file gets
    older,          \* what a reader may get after a power loss
    call,           \* per writer: its call and how it ended
    asked,          \* per writer: the value its call is to write
    started         \* what the program started with

aVars == <<value, older, call, asked, started>>

Quiet == [w \in Writers |-> "idle"]
Nothing == [w \in Writers |-> Poison]

\* The call of w ends with the outcome, and its argument is forgotten.
Answer(w, outcome) ==
    /\ call' = [call EXCEPT ![w] = outcome]
    /\ asked' = [asked EXCEPT ![w] = Poison]

AInit ==
    /\ value \in Keys \cup {Poison, NoValue}
    /\ older = {value}
    /\ call = Quiet
    /\ asked = Nothing
    /\ started = Off

\* A request to write v arrives.
ACall(w, v) ==
    /\ started # Off
    /\ call[w] # "called"
    /\ call' = [call EXCEPT ![w] = "called"]
    /\ asked' = [asked EXCEPT ![w] = v]
    /\ UNCHANGED <<value, older, started>>

\* The call takes effect and reports it, ...
APut(w) ==
    /\ call[w] = "called"
    /\ asked[w] \in Keys
    /\ value' = asked[w]
    /\ older' = older \cup {asked[w]}
    /\ Answer(w, "ok")
    /\ UNCHANGED started

\* ... or has no effect and reports an error.
AFail(w) ==
    /\ call[w] = "called"
    /\ Answer(w, "error")
    /\ UNCHANGED <<value, older, started>>

\* The program starts with the value, if it is one it accepts; a value it does
\* not accept may be put aside.  A start that cannot read the value goes without
\* it and leaves it alone.
AStart ==
    /\ started = Off
    /\ \/ value \in Keys /\ started' = value /\ UNCHANGED <<value, older>>
       \/ value \notin Keys /\ started' = Env /\ UNCHANGED <<value, older>>
       \/ /\ value = Poison
          /\ started' = Env
          /\ value' = NoValue
          /\ older' = older \cup {NoValue}
       \/ started' = Unread /\ UNCHANGED <<value, older>>
    /\ UNCHANGED <<call, asked>>

\* The process is killed: calls are cut short, the value stays.
AKill ==
    /\ started # Off
    /\ started' = Off
    /\ call' = Quiet /\ asked' = Nothing
    /\ UNCHANGED <<value, older>>

\* The machine stops: an earlier value may be back.
APowerLoss ==
    /\ started' = Off
    /\ call' = Quiet /\ asked' = Nothing
    /\ value' \in older
    /\ older' = {value'}

\* The file system has brought the value to the disk.
ASettle ==
    /\ older' = {value}
    /\ UNCHANGED <<value, call, asked, started>>

ANext ==
    \/ \E w \in Writers :
          \/ \E v \in Keys \cup {Poison} : ACall(w, v)
          \/ APut(w) \/ AFail(w)
    \/ AStart \/ AKill \/ APowerLoss \/ ASettle

ASpec == AInit /\ [][ANext]_aVars
=============================================================================
