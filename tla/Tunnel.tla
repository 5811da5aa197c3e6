------------------------------- MODULE Tunnel -------------------------------
(***************************************************************************)
(* What a backend of the mux promises its dials, whichever it is: it has a *)
(* dialer while it says it is ready, and a dial that finds it ready picks  *)
(* up the dialer of that moment or a later one and begins only if there is *)
(* one and the backend is ready then as well.  A dial may keep a dialer    *)
(* that is replaced or removed meanwhile; nothing else is promised of it.  *)
(***************************************************************************)
CONSTANTS
    Users,          \* goroutines that dial
    Values,         \* dialers
    NoDialer        \* nil

VARIABLES
    up,             \* what Ready answers
    current,        \* the dialer that is installed
    stage,          \* per user: "idle", "admitted", "taken" or "open"
    taken           \* per user: the dialer it took

tVars == <<up, current, stage, taken>>

TInit ==
    /\ up = FALSE /\ current = NoDialer
    /\ stage = [u \in Users |-> "idle"]
    /\ taken = [u \in Users |-> NoDialer]

\* A dialer is installed, or replaced under the dials that hold the old one.
TInstall(d) ==
    /\ d \in Values
    /\ current' = d
    /\ UNCHANGED <<up, stage, taken>>

\* It is taken away only from a backend that is not ready.
TRemove ==
    /\ ~up
    /\ current' = NoDialer
    /\ UNCHANGED <<up, stage, taken>>

TAnnounce ==
    /\ current # NoDialer
    /\ up' = TRUE
    /\ UNCHANGED <<current, stage, taken>>

TWithdraw ==
    /\ up' = FALSE
    /\ UNCHANGED <<current, stage, taken>>

\* DialContext finds the backend ready, ...
TAdmit(u) ==
    /\ stage[u] = "idle" /\ up
    /\ stage' = [stage EXCEPT ![u] = "admitted"]
    /\ UNCHANGED <<up, current, taken>>

\* ... reads the dialer, ...
TTake(u) ==
    /\ stage[u] = "admitted"
    /\ stage' = [stage EXCEPT ![u] = "taken"]
    /\ taken' = [taken EXCEPT ![u] = current]
    /\ UNCHANGED <<up, current>>

\* ... and dials if there is one and the backend is still, or again, ready.
TBegin(u) ==
    /\ stage[u] = "taken" /\ taken[u] # NoDialer /\ up
    /\ stage' = [stage EXCEPT ![u] = "open"]
    /\ UNCHANGED <<up, current, taken>>

\* It returns, with an error or with the result of its dial.
TLeave(u) ==
    /\ stage[u] # "idle"
    /\ stage' = [stage EXCEPT ![u] = "idle"]
    /\ taken' = [taken EXCEPT ![u] = NoDialer]
    /\ UNCHANGED <<up, current>>

\* The process is killed and started again.
TRestart ==
    /\ up' = FALSE /\ current' = NoDialer
    /\ stage' = [u \in Users |-> "idle"]
    /\ taken' = [u \in Users |-> NoDialer]

TNext ==
    \/ \E d \in Values : TInstall(d)
    \/ TRemove \/ TAnnounce \/ TWithdraw \/ TRestart
    \/ \E u \in Users : TAdmit(u) \/ TTake(u) \/ TBegin(u) \/ TLeave(u)

TSpec == TInit /\ [][TNext]_tVars
=============================================================================
