------------------------------ MODULE EventLog ------------------------------
(***************************************************************************)
(* What the connection log promises those who look at it: events are       *)
(* numbered in the order they happened, the log forgets the oldest first   *)
(* and never the newest, a page begins with all that the log remembers at  *)
(* that moment, and is then shown later events only, each at most once and *)
(* in order.  An event may be missing from a page that is slow or was just *)
(* opened.                                                                 *)
(***************************************************************************)
EXTENDS Integers, Sequences

CONSTANTS
    Viewers,        \* pages
    Cap             \* events the log remembers at most

VARIABLES
    last,           \* the events recorded are 1..last
    first,          \* the events remembered are first..last
    page            \* the events each page was shown, in order

eVars == <<last, first, page>>

EInit ==
    /\ last = 0 /\ first = 1
    /\ page = [v \in Viewers |-> <<>>]

\* An event happens; the log remembers it and may forget older ones.
ERecord ==
    /\ last' = last + 1
    /\ first' \in first..last' /\ last' - first' < Cap
    /\ UNCHANGED page

\* Events that have become old are forgotten.
EForget ==
    /\ first' \in first..(last + 1)
    /\ UNCHANGED <<last, page>>

\* A page is opened, after old events were forgotten.
EOpen(v) ==
    /\ first' \in first..(last + 1)
    /\ page' = [page EXCEPT ![v] = [i \in 1..(last - first' + 1) |-> first' + i - 1]]
    /\ UNCHANGED last

\* A page is shown an event that is later than all it has.
EShow(v, id) ==
    /\ \A i \in DOMAIN page[v] : page[v][i] < id
    /\ page' = [page EXCEPT ![v] = Append(@, id)]
    /\ UNCHANGED <<last, first>>

ENext ==
    \/ ERecord \/ EForget
    \/ \E v \in Viewers : EOpen(v) \/ \E id \in 1..last : EShow(v, id)

ESpec == EInit /\ [][ENext]_eVars
=============================================================================
