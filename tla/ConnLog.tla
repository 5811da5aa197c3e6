------------------------------- MODULE ConnLog -------------------------------
(***************************************************************************)
(* The connection log: the ring of internal/connlog/store.go, written by   *)
(* every proxied connection, and the SSE streams of webui/connections.go   *)
(* that show it.  A stream takes a snapshot and subscribes in two steps,   *)
(* each under Store.mu; Record appends to the ring and offers the event to *)
(* every channel without waiting for any.  An event is its id and time.    *)
(***************************************************************************)
EXTENDS Integers, Sequences, FiniteSets, FiniteSetsExt

CONSTANTS
    Viewers,        \* open event streams
    Cap,            \* capacity of the ring (500 in main)
    Ttl,            \* age at which an event leaves the ring (an hour)
    ChanCap,        \* buffer of a subscriber's channel (32)
    MaxEvents,      \* bound: events recorded
    MaxTime,        \* bound: the clock
    MaxBacks        \* bound: times the clock is set back

ASSUME ConnLogAssumption ==
    /\ Cap \in Nat \ {0} /\ Ttl \in Nat \ {0} /\ ChanCap \in Nat \ {0}
    /\ MaxEvents \in Nat /\ MaxTime \in Nat /\ MaxBacks \in Nat

VARIABLES
    now, backs,     \* the wall clock, and how often it was set back
    seq, buf,       \* Store.seq and the ring, oldest first
    subs,           \* Store.subs: viewers whose channel is registered
    closed,         \* viewers whose channel is closed
    chan,           \* ids buffered in each viewer's channel
    shown,          \* ids the viewer's page has received, the snapshot first
    pc              \* what the stream handler of each viewer does next

stream == <<closed, chan, shown, pc>>
clock == <<now, backs>>
vars == <<clock, seq, buf, subs, stream>>

Ids == 1..MaxEvents
Events == [id : Ids, time : 0..MaxTime]

\* Types.
TypeOK ==
    /\ now \in 0..MaxTime /\ backs \in 0..MaxBacks /\ seq \in 0..MaxEvents
    /\ buf \in Seq(Events)
    /\ subs \subseteq Viewers /\ closed \subseteq Viewers
    /\ chan \in [Viewers -> Seq(Ids)] /\ shown \in [Viewers -> Seq(Ids)]
    /\ \A v \in Viewers : Len(chan[v]) <= ChanCap
    /\ pc \in [Viewers -> {"off", "subscribe", "stream"}]

Init ==
    /\ now = 0 /\ backs = 0 /\ seq = 0 /\ buf = <<>>
    /\ subs = {} /\ closed = {}
    /\ chan = [v \in Viewers |-> <<>>]
    /\ shown = [v \in Viewers |-> <<>>]
    /\ pc = [v \in Viewers |-> "off"]

-----------------------------------------------------------------------------
\* pruneLocked: from the first event still within the TTL on.
Prune(b) ==
    LET fresh == {i \in DOMAIN b : b[i].time >= now - Ttl}
    IN  IF fresh = {} THEN <<>> ELSE SubSeq(b, Min(fresh), Len(b))

\* Mutation of Push: a full ring has its last event overwritten.
PushOverLast(b, e) == IF Len(b) < Cap THEN Append(b, e) ELSE [b EXCEPT ![Len(b)] = e]

\* The append of Record: a full ring loses its oldest event.
Push(b, e) == IF Len(b) < Cap THEN Append(b, e) ELSE Append(Tail(b), e)

\* The select with a default: an event for a full channel is dropped.
Offer(c, id) == IF Len(c) < ChanCap THEN Append(c, id) ELSE c

\* Record
Record ==
    /\ seq < MaxEvents
    /\ seq' = seq + 1
    /\ buf' = Push(Prune(buf), [id |-> seq', time |-> now])
    /\ chan' = [v \in Viewers |-> IF v \in subs THEN Offer(chan[v], seq') ELSE chan[v]]
    /\ UNCHANGED <<clock, subs, closed, shown, pc>>

\* Mutation of OpenStream: the stream subscribes before its snapshot.
OpenSubscribed(v) ==
    /\ pc[v] = "off"
    /\ buf' = Prune(buf)
    /\ shown' = [shown EXCEPT ![v] = [i \in DOMAIN buf' |-> buf'[i].id]]
    /\ \/ subs' = subs \cup {v} /\ closed' = closed \ {v} /\ chan' = [chan EXCEPT ![v] = <<>>]
       \/ v \in subs /\ UNCHANGED <<subs, closed, chan>>
    /\ pc' = [pc EXCEPT ![v] = IF v \in subs THEN "stream" ELSE "off"]
    /\ UNCHANGED <<clock, seq>>

\* Mutation of OpenStream: the snapshot has a limit below the capacity of the ring.
OpenLimited(v) ==
    /\ pc[v] = "off"
    /\ buf' = Prune(buf)
    /\ LET ids == [i \in DOMAIN buf' |-> buf'[i].id]
       IN  shown' = [shown EXCEPT ![v] = IF Len(ids) < Cap THEN ids ELSE Tail(ids)]
    /\ pc' = [pc EXCEPT ![v] = "subscribe"]
    /\ UNCHANGED <<clock, seq, subs, closed, chan>>

\* handleConnectionsStream: the page is sent a snapshot, which prunes the ring; if
\* it cannot be written the handler returns,
OpenStream(v) ==
    /\ pc[v] = "off"
    /\ buf' = Prune(buf)
    /\ \/ /\ shown' = [shown EXCEPT ![v] = [i \in DOMAIN buf' |-> buf'[i].id]]
          /\ pc' = [pc EXCEPT ![v] = "subscribe"]
       \/ UNCHANGED <<shown, pc>>
    /\ UNCHANGED <<clock, seq, subs, closed, chan>>

\* then a channel is made and registered,
Subscribe(v) ==
    /\ pc[v] = "subscribe"
    /\ subs' = subs \cup {v}
    /\ closed' = closed \ {v}
    /\ chan' = [chan EXCEPT ![v] = <<>>]
    /\ pc' = [pc EXCEPT ![v] = "stream"]
    /\ UNCHANGED <<clock, seq, buf, shown>>

\* then every event received is written to the page.
Deliver(v) ==
    /\ pc[v] = "stream" /\ chan[v] # <<>>
    /\ shown' = [shown EXCEPT ![v] = Append(@, Head(chan[v]))]
    /\ chan' = [chan EXCEPT ![v] = Tail(@)]
    /\ UNCHANGED <<clock, seq, buf, subs, closed, pc>>

\* Mutation of Leave: the channel is closed and stays registered.
LeaveRegistered(v) ==
    /\ pc[v] = "stream"
    /\ closed' = closed \cup {v}
    /\ pc' = [pc EXCEPT ![v] = "off"]
    /\ UNCHANGED <<clock, seq, buf, subs, chan, shown>>

\* The request is cancelled or a write fails: unsubscribe removes and closes the
\* channel.  The page's EventSource may open a new stream later.
Leave(v) ==
    /\ pc[v] = "stream"
    /\ subs' = subs \ {v}
    /\ closed' = closed \cup {v}
    /\ pc' = [pc EXCEPT ![v] = "off"]
    /\ UNCHANGED <<clock, seq, buf, chan, shown>>

\* GET /api/v1/connections, Stats and Len: reads that prune.
Read ==
    /\ Prune(buf) # buf
    /\ buf' = Prune(buf)
    /\ UNCHANGED <<clock, seq, subs, stream>>

Tick ==
    /\ now < MaxTime
    /\ now' = now + 1
    /\ UNCHANGED <<backs, seq, buf, subs, stream>>

\* Events carry the wall clock (UTC() drops the monotonic part), which may be set
\* back.
SetBack(t) ==
    /\ backs < MaxBacks /\ t < now
    /\ now' = t
    /\ backs' = backs + 1
    /\ UNCHANGED <<seq, buf, subs, stream>>

Next ==
    \/ Record \/ Read \/ Tick
    \/ \E t \in 0..MaxTime : SetBack(t)
    \/ \E v \in Viewers : OpenStream(v) \/ Subscribe(v) \/ Deliver(v) \/ Leave(v)

Spec == Init /\ [][Next]_vars

-----------------------------------------------------------------------------
\* Whatever records, reads and expiry interleave, the ring is the tail of the
\* log: its ids consecutive and ending with the last one recorded (what Snapshot's
\* most-recent-first limit relies on) and, unless the clock was set back,
\* chronological (what pruneLocked's prefix scan relies on).
RingIsTail ==
    /\ Len(buf) <= Cap
    /\ \A i \in DOMAIN buf : buf[i].id = seq - Len(buf) + i
    /\ backs = 0 => \A i, j \in DOMAIN buf : i < j => buf[i].time <= buf[j].time

\* What a page has been sent, and what waits for it, is strictly increasing: no
\* event appears twice or out of order, across the hand-over from the snapshot to
\* the stream and across events dropped for a slow page.
Received(v) == IF pc[v] = "stream" THEN shown[v] \o chan[v] ELSE shown[v]
ShownInOrder ==
    \A v \in Viewers : \A i, j \in DOMAIN Received(v) : i < j => Received(v)[i] < Received(v)[j]

\* "We never send on a channel that unsubscribe has already closed" (store.go:118).
NoSendOnClosed == subs \cap closed = {}

-----------------------------------------------------------------------------
\* The ring and the pages as an EventLog.
Abstract == INSTANCE EventLog WITH
    last <- seq, first <- seq - Len(buf) + 1, page <- shown

\* The log keeps what EventLog promises: pruneLocked and the full ring forget the
\* oldest events only, a snapshot misses nothing that is remembered, and the
\* subscription that follows it repeats none of it.
IsEventLog == Abstract!ESpec
=============================================================================
