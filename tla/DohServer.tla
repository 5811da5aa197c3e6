------------------------------ MODULE DohServer ------------------------------
(***************************************************************************)
(* The local DNS stub, internal/dnsdoh/server.go: it binds UDP and TCP on  *)
(* every listen address and forwards each query as a POST to a DoH origin  *)
(* through the tunnel.                                                     *)
(*                                                                         *)
(* One goroutine per address waits for ctx and closes both sockets, one    *)
(* reads datagrams into a single buffer, one accepts connections; these    *)
(* three are in the wait group of ListenAndServe.  Every query is answered *)
(* by a goroutine of its own, which is in no wait group.                   *)
(*                                                                         *)
(* A message is known by its size class: "runt" has no complete id,        *)
(* "short" an id but no complete header, "full" is a query.  Over TCP it   *)
(* may also be "broken": its length is 0 or above maxDNSMessage, or the    *)
(* client stops before it is complete.                                     *)
(***************************************************************************)
EXTENDS Integers

CONSTANTS
    NListen,        \* number of listen addresses
    Datagrams,      \* UDP queries
    Streams,        \* TCP connections
    Sizes,          \* the size classes each query may have
    MaxEvents,      \* bound: queries and failures in a behaviour
    None,           \* no query
    BindFaults,     \* bind errors that may occur: "unassigned", "other"
    MayFailInit     \* whether DOH_URL may be refused by initHTTP

ASSUME DohAssumption ==
    /\ NListen \in Nat \ {0}
    /\ Datagrams \cap Streams = {} /\ None \notin Datagrams \cup Streams
    /\ Sizes \in [Datagrams \cup Streams -> SUBSET {"runt", "short", "full", "broken"}]
    /\ \A d \in Datagrams : "broken" \notin Sizes[d]
    /\ MaxEvents \in Nat
    /\ BindFaults \subseteq {"unassigned", "other"}
    /\ MayFailInit \in BOOLEAN

Addrs == 1..NListen
Queries == Datagrams \cup Streams
Complete == {"runt", "short", "full"}

VARIABLES
    done,           \* ctx is cancelled
    doh,            \* where ListenAndServe is
    cur, bound,     \* the address it is about to bind, how many it has bound
    failed,         \* it returned an error
    sock,           \* the sockets of an address that are open: "udp", "tcp"
    loops,          \* the three goroutines of an address
    buf,            \* the datagram in the read buffer of an address
    at,             \* where a query is
    to, size,       \* its address and size class
    q,              \* the message its goroutine works on
    late,           \* the deadline of a connection has passed
    got,            \* the response the client has received, or Lost
    events          \* counts towards MaxEvents

listening == <<doh, cur, bound, failed, sock, loops>>
asking == <<buf, at, to, size, q, late, got>>
dohVars == <<listening, asking, events>>

\* A response: to which message, by its id, and whether it is an answer.
Responses == [id : Queries \cup {None}, kind : {"answer", "servfail"}]
Nothing == [id |-> None, kind |-> "none"]
Lost == [id |-> None, kind |-> "lost"]

DohTypeOK ==
    /\ done \in BOOLEAN /\ failed \in BOOLEAN
    /\ doh \in {"off", "init", "udp", "tcp", "wait", "returned"}
    /\ cur \in 1..(NListen + 1) /\ bound \in 0..NListen
    /\ sock \in [Addrs -> SUBSET {"udp", "tcp"}]
    /\ loops \in [Addrs -> {"none", "run", "closed", "ended"}]
    /\ buf \in [Addrs -> Datagrams \cup {None}]
    /\ at \in [Queries -> {"none", "socket", "read", "resolve", "over"}]
    /\ to \in [Queries -> Addrs]
    /\ size \in [Queries -> Complete \cup {"broken"}]
    /\ q \in [Queries -> Queries \cup {None}]
    /\ late \in [Queries -> BOOLEAN]
    /\ got \in [Queries -> Responses \cup {Nothing, Lost}]
    /\ events \in 0..MaxEvents

DohInit ==
    /\ doh = "off" /\ cur = 1 /\ bound = 0 /\ failed = FALSE
    /\ sock = [a \in Addrs |-> {}]
    /\ loops = [a \in Addrs |-> "none"]
    /\ buf = [a \in Addrs |-> None]
    /\ at = [c \in Queries |-> "none"]
    /\ to = [c \in Queries |-> 1]
    /\ size = [c \in Queries |-> "full"]
    /\ q = [c \in Queries |-> None]
    /\ late = [c \in Queries |-> FALSE]
    /\ got = [c \in Queries |-> Nothing]
    /\ events = 0

-----------------------------------------------------------------------------
(***************************************************************************)
(* ListenAndServe.                                                         *)
(***************************************************************************)
\* One more event is within the bound.
Event == events < MaxEvents /\ events' = events + 1

\* What waits in the sockets of address a is gone.
Drop(a) ==
    /\ at' = [c \in Queries |-> IF at[c] = "socket" /\ to[c] = a THEN "over" ELSE at[c]]
    /\ UNCHANGED <<buf, to, size, q, late, got>>

\* ListenAndServe returns, with an error or without.
Return(err) ==
    /\ doh' = "returned"
    /\ failed' = err

\* With n addresses bound: the next one, the wait for ctx, or no address at all.
AfterAddr(n) ==
    /\ bound' = n
    /\ cur' = cur + 1
    /\ \/ cur < NListen /\ doh' = "udp" /\ UNCHANGED failed
       \/ cur = NListen /\ n > 0 /\ doh' = "wait" /\ UNCHANGED failed
       \/ cur = NListen /\ n = 0 /\ Return(TRUE)

\* The checks at the top and initHTTP.
InitHTTP ==
    /\ doh = "init"
    /\ \/ doh' = "udp" /\ UNCHANGED <<failed, events>>
       \/ MayFailInit /\ Return(TRUE) /\ Event
    /\ UNCHANGED <<done, cur, bound, sock, loops, asking>>

\* ListenPacket: an address that is not local is skipped, any other error ends
\* ListenAndServe at once, and what is bound already is served until ctx ends.
BindUDP ==
    /\ doh = "udp"
    /\ \/ /\ sock' = [sock EXCEPT ![cur] = {"udp"}]
          /\ doh' = "tcp"
          /\ UNCHANGED <<cur, bound, failed, loops, events>>
       \/ /\ "unassigned" \in BindFaults /\ Event
          /\ AfterAddr(bound)
          /\ UNCHANGED <<sock, loops>>
       \/ /\ "other" \in BindFaults /\ Event
          /\ Return(TRUE)
          /\ UNCHANGED <<cur, bound, sock, loops>>
    /\ UNCHANGED <<done, asking>>

\* Mutation of BindTCP: a failure leaves the UDP socket open.
BindKeepsUDP ==
    /\ doh = "tcp"
    /\ \/ /\ sock' = [sock EXCEPT ![cur] = {"udp", "tcp"}]
          /\ loops' = [loops EXCEPT ![cur] = "run"]
          /\ AfterAddr(bound + 1)
          /\ UNCHANGED <<asking, events>>
       \/ /\ Event
          /\ \/ "unassigned" \in BindFaults /\ AfterAddr(bound)
             \/ "other" \in BindFaults /\ Return(TRUE) /\ UNCHANGED <<cur, bound>>
          /\ UNCHANGED <<sock, loops, asking>>
    /\ UNCHANGED done

\* Listen on the same address; a failure closes the UDP socket again, with the
\* datagrams that came meanwhile.
BindTCP ==
    /\ doh = "tcp"
    /\ \/ /\ sock' = [sock EXCEPT ![cur] = {"udp", "tcp"}]
          /\ loops' = [loops EXCEPT ![cur] = "run"]
          /\ AfterAddr(bound + 1)
          /\ UNCHANGED <<asking, events>>
       \/ /\ Event
          /\ sock' = [sock EXCEPT ![cur] = {}]
          /\ Drop(cur)
          /\ \/ "unassigned" \in BindFaults /\ AfterAddr(bound)
             \/ "other" \in BindFaults /\ Return(TRUE) /\ UNCHANGED <<cur, bound>>
          /\ UNCHANGED loops
    /\ UNCHANGED done

\* <-ctx.Done() and wg.Wait().
WaitReturn ==
    /\ doh = "wait" /\ done
    /\ \A a \in Addrs : loops[a] \in {"none", "ended"}
    /\ Return(FALSE)
    /\ UNCHANGED <<done, cur, bound, sock, loops, asking, events>>

\* Where a query ends; what its goroutine held is of no interest any more.
Ended(c) ==
    /\ at' = [at EXCEPT ![c] = "over"]
    /\ to' = [to EXCEPT ![c] = 1]
    /\ q' = [q EXCEPT ![c] = None]
    /\ late' = [late EXCEPT ![c] = FALSE]

\* The goroutine that closes the sockets; what waits in them is gone.
CloseSockets(a) ==
    /\ loops[a] = "run" /\ done
    /\ sock' = [sock EXCEPT ![a] = {}]
    /\ loops' = [loops EXCEPT ![a] = "closed"]
    /\ Drop(a)
    /\ UNCHANGED <<done, doh, cur, bound, failed, events>>

\* ReadFrom and Accept fail because the socket is closed: ctx is done, and the
\* two loops end.
LoopsEnd(a) ==
    /\ loops[a] = "closed"
    /\ loops' = [loops EXCEPT ![a] = "ended"]
    /\ UNCHANGED <<done, doh, cur, bound, failed, sock, asking, events>>

-----------------------------------------------------------------------------
(***************************************************************************)
(* Queries.                                                                *)
(***************************************************************************)
\* A client sends a datagram or opens a connection.
Ask(c, a, s) ==
    /\ at[c] = "none" /\ s \in Sizes[c]
    /\ Event
    /\ (IF c \in Datagrams THEN "udp" ELSE "tcp") \in sock[a]
    /\ at' = [at EXCEPT ![c] = "socket"]
    /\ to' = [to EXCEPT ![c] = a]
    /\ size' = [size EXCEPT ![c] = s]
    /\ UNCHANGED <<done, listening, buf, q, late, got>>

\* serveUDP: the datagram is read into the buffer of the loop and copied for the
\* goroutine that answers it.
ServeUDP(c) ==
    /\ c \in Datagrams /\ at[c] = "socket" /\ loops[to[c]] = "run"
    /\ buf' = [buf EXCEPT ![to[c]] = c]
    /\ q' = [q EXCEPT ![c] = c]
    /\ at' = [at EXCEPT ![c] = "resolve"]
    /\ UNCHANGED <<done, listening, to, size, late, got, events>>

\* serveTCP hands the connection to handleTCP, which sets its only deadline.
ServeTCP(c) ==
    /\ c \in Streams /\ at[c] = "socket" /\ loops[to[c]] = "run"
    /\ at' = [at EXCEPT ![c] = "read"]
    /\ UNCHANGED <<done, listening, buf, to, size, q, late, got, events>>

\* handleTCP reads the length and the message, or closes the connection: a bad
\* length, an early end or the deadline is not answered.
ReadTCP(c) ==
    /\ at[c] = "read"
    /\ \/ /\ size[c] \in Complete /\ ~late[c]
          /\ q' = [q EXCEPT ![c] = c]
          /\ at' = [at EXCEPT ![c] = "resolve"]
          /\ UNCHANGED <<to, late>>
       \/ /\ size[c] = "broken" \/ late[c]
          /\ Ended(c)
    /\ UNCHANGED <<done, listening, buf, size, got, events>>

\* The deadline of a connection passes.
Expire(c) ==
    /\ c \in Streams /\ at[c] \in {"read", "resolve"} /\ ~late[c]
    /\ late' = [late EXCEPT ![c] = TRUE]
    /\ UNCHANGED <<done, listening, buf, at, to, size, q, got, events>>

\* servfail: the id is copied if there is one.
servfail(m) == [id |-> IF size[m] = "runt" THEN None ELSE m, kind |-> "servfail"]

\* What resolve makes of message m, an error being turned into SERVFAIL by either
\* caller: a message that is too short is not sent; the origin answers, or the
\* dial, the request, the status or the body fails, or Timeout passes.
Resolved(m) ==
    {servfail(m)} \cup {[id |-> x, kind |-> "answer"] : x \in {m} \cap {d \in Queries : size[d] = "full"}}

\* The response can be written, unless the UDP socket is closed by then or the
\* deadline of the connection, which was set before the message was read, is over.
Delivered(c) == IF c \in Datagrams THEN "udp" \in sock[to[c]] ELSE ~late[c]

\* Mutation of Answer: a datagram's goroutine works on the buffer of the loop.
AnswerFromBuffer(c) ==
    /\ at[c] = "resolve"
    /\ LET m == IF c \in Datagrams THEN buf[to[c]] ELSE q[c] IN
       IF Delivered(c) THEN \E r \in Resolved(m) : got' = [got EXCEPT ![c] = r] ELSE UNCHANGED got
    /\ Ended(c)
    /\ UNCHANGED <<done, listening, buf, size, events>>

\* Mutation of Answer: an error of resolve is logged and not answered.
AnswerOrNothing(c) ==
    /\ at[c] = "resolve"
    /\ \/ \E r \in Resolved(q[c]) : r.kind = "answer" /\ got' = [got EXCEPT ![c] = r]
       \/ UNCHANGED got
    /\ Ended(c)
    /\ UNCHANGED <<done, listening, buf, size, events>>

\* resolve and the write of the response, of which an error is logged.
Answer(c) ==
    /\ at[c] = "resolve"
    /\ \/ /\ Delivered(c)
          /\ \E r \in Resolved(q[c]) : got' = [got EXCEPT ![c] = r]
          /\ UNCHANGED events
       \/ Delivered(c) /\ got' = [got EXCEPT ![c] = Lost] /\ Event
       \/ ~Delivered(c) /\ UNCHANGED <<got, events>>
    /\ Ended(c)
    /\ UNCHANGED <<done, listening, buf, size>>

Listening == InitHTTP \/ BindUDP \/ BindTCP \/ WaitReturn
Working(a) == CloseSockets(a) \/ LoopsEnd(a)
Serving(c) == ServeUDP(c) \/ ServeTCP(c)
Answering(c) == ReadTCP(c) \/ Answer(c)
=============================================================================
