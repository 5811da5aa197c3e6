------------------------------ MODULE ProxyServer ------------------------------
(***************************************************************************)
(* The proxies of internal/proxy: the SOCKS listener, which takes SOCKS5   *)
(* and HTTP CONNECT on one port, and the transparent listener.  One        *)
(* goroutine accepts, one serves each connection, and two more copy its    *)
(* data, each with its own half-close.                                     *)
(*                                                                         *)
(* The bytes of a client are items: first those of the handshake, then     *)
(* data.  A client may send data before it is answered, and the handler's  *)
(* buffered reader may have taken it from the socket by then.  Peers keep  *)
(* reading: a write waits for nothing.                                     *)
(***************************************************************************)
EXTENDS Integers, Sequences

CONSTANTS
    Conns,          \* connections
    Kinds,          \* what clients of this listener speak: "socks", "http", "l3"
    MaxData,        \* bound: data items in each direction
    AcceptMayFail   \* whether Accept may fail on an open listener (EMFILE, ...)

ASSUME ProxyAssumption ==
    /\ Kinds \subseteq {"socks", "http", "l3"} /\ Kinds # {}
    /\ MaxData \in Nat /\ AcceptMayFail \in BOOLEAN

\* Items of the handshake: greeting and request, the CONNECT request, nothing.
Handshake(kind) == CASE kind = "socks" -> 2 [] kind = "http" -> 1 [] kind = "l3" -> 0

VARIABLES
    listening,      \* the listener is open
    cancelled,      \* the context is cancelled
    serve,          \* ListenAndServe: "accept", "drain" (wg.Wait) or "returned"
    wg,             \* its WaitGroup
    conn            \* the connections

loop == <<listening, cancelled, serve>>
vars == <<loop, wg, conn>>

Stages == {"off", "begin", "read", "decide", "dial", "reply", "relay", "done"}
Ends == {"open", "half", "gone"}    \* a peer: open, has shut down its side, has closed

Connections ==
    [kind : Kinds, pc : Stages,
     deadline : {"none", "armed", "passed"},
     client : Ends, server : Ends \cup {"none"},
     sent : 0..(2 + MaxData),       \* items the client sent
     filled : 0..(2 + MaxData),     \* items taken from the client's socket
     taken : 0..(2 + MaxData),      \* items the handler or the relay has read
     got : Seq(1..(2 + MaxData)),   \* items the server was sent
     back : 0..MaxData, fed : 0..MaxData,   \* items the server sent, the client got
     up : BOOLEAN, down : BOOLEAN,  \* the two copying goroutines run
     clientEnd : BOOLEAN, serverEnd : BOOLEAN,  \* the peer was sent the end
     told : {"nothing", "ok", "refused"},       \* the answer to the client
     log : {"none", "drop", "fail", "ok"}]      \* the event recorded

\* Types.
TypeOK ==
    /\ listening \in BOOLEAN /\ cancelled \in BOOLEAN
    /\ serve \in {"accept", "drain", "returned"}
    /\ wg \in Nat
    /\ conn \in [Conns -> Connections]

Fresh(kind) ==
    [kind |-> kind, pc |-> "off", deadline |-> "none", client |-> "open", server |-> "none",
     sent |-> 0, filled |-> 0, taken |-> 0, got |-> <<>>, back |-> 0, fed |-> 0,
     up |-> FALSE, down |-> FALSE, clientEnd |-> FALSE, serverEnd |-> FALSE,
     told |-> "nothing", log |-> "none"]

Init ==
    /\ listening = TRUE /\ cancelled = FALSE /\ serve = "accept" /\ wg = 0
    /\ conn \in [Conns -> {Fresh(k) : k \in Kinds}]

-----------------------------------------------------------------------------
Becomes(c, r) == conn' = [conn EXCEPT ![c] = r] /\ UNCHANGED <<loop, wg>>

\* The handler returns: its deferred calls close both connections.
Finish(c, r) ==
    /\ conn' = [conn EXCEPT ![c] = [r EXCEPT !.pc = "done", !.clientEnd = TRUE,
                                             !.serverEnd = r.server # "none"]]
    /\ wg' = wg - 1
    /\ UNCHANGED loop

\* Reads and writes on the client's connection fail.
Broken(r) == r.deadline = "passed" \/ r.client = "gone"

(***************************************************************************)
(* ListenAndServe.                                                         *)
(***************************************************************************)
\* Mutation of Accept: the handler is not added to the WaitGroup.
AcceptWithoutAdd(c) ==
    /\ serve = "accept" /\ listening
    /\ conn[c].pc = "off"
    /\ conn' = [conn EXCEPT ![c].pc = "begin"]
    /\ UNCHANGED <<loop, wg>>

Accept(c) ==
    /\ serve = "accept" /\ listening
    /\ conn[c].pc = "off"
    /\ conn' = [conn EXCEPT ![c].pc = "begin"]
    /\ wg' = wg + 1
    /\ UNCHANGED loop

\* Whatever error Accept returns, the loop ends and waits for its handlers.
AcceptFails ==
    /\ serve = "accept"
    /\ ~listening \/ AcceptMayFail
    /\ serve' = "drain"
    /\ UNCHANGED <<listening, cancelled, wg, conn>>

Return ==
    /\ serve = "drain" /\ wg = 0
    /\ serve' = "returned"
    /\ UNCHANGED <<listening, cancelled, wg, conn>>

Cancel ==
    /\ ~cancelled
    /\ cancelled' = TRUE
    /\ UNCHANGED <<listening, serve, wg, conn>>

\* The goroutine that waits for the context, or Close.
CloseListener ==
    /\ cancelled /\ listening
    /\ listening' = FALSE
    /\ UNCHANGED <<cancelled, serve, wg, conn>>

-----------------------------------------------------------------------------
(***************************************************************************)
(* handle, handleHTTP and Transparent.handle.                              *)
(***************************************************************************)
\* Mutation of Begin: no deadline for the handshake.
BeginWithoutDeadline(c) ==
    LET r == conn[c] IN
    /\ r.pc = "begin" /\ r.kind # "l3"
    /\ Becomes(c, [r EXCEPT !.pc = "read"]) \/ Finish(c, r)

\* SOCKS and HTTP: the source is not allowed, or the handshake has a deadline.
Begin(c) ==
    LET r == conn[c] IN
    /\ r.pc = "begin" /\ r.kind # "l3"
    /\ Becomes(c, [r EXCEPT !.pc = "read", !.deadline = "armed"]) \/ Finish(c, r)

\* Transparent: SO_ORIGINAL_DST gives the destination, or fails.
BeginTransparent(c) ==
    LET r == conn[c] IN
    /\ r.pc = "begin" /\ r.kind = "l3"
    /\ Becomes(c, [r EXCEPT !.pc = "decide"]) \/ Finish(c, r)

\* The buffered reader takes what it finds in the socket.
Fill(c) ==
    LET r == conn[c] IN
    /\ r.pc = "read" /\ ~Broken(r)
    /\ r.filled = r.taken
    /\ \E n \in (r.filled + 1)..r.sent : Becomes(c, [r EXCEPT !.filled = n])

\* The greeting, which is answered, and the request; one that is no CONNECT or
\* names an IPv6 address is refused.
ReadSocks(c) ==
    LET r == [conn[c] EXCEPT !.taken = @ + 1] IN
    /\ r.pc = "read" /\ r.kind = "socks" /\ conn[c].taken < r.filled
    /\ \/ r.taken = 1 /\ Becomes(c, r)
       \/ r.taken = 2 /\ Becomes(c, [r EXCEPT !.pc = "decide"])
       \/ r.taken = 2 /\ Finish(c, [r EXCEPT !.told = "refused"])

\* handleHTTP: another method than CONNECT and a bad port are refused.
ReadHTTP(c) ==
    LET r == [conn[c] EXCEPT !.taken = @ + 1] IN
    /\ r.pc = "read" /\ r.kind = "http" /\ conn[c].taken < r.filled
    /\ Becomes(c, [r EXCEPT !.pc = "decide"]) \/ Finish(c, [r EXCEPT !.told = "refused"])

\* A read or the answer to the greeting fails.
ReadFails(c) ==
    LET r == conn[c] IN
    /\ r.pc = "read"
    /\ Broken(r) \/ (r.client = "half" /\ r.taken = r.sent)
    /\ Finish(c, r)

\* SOCKS and HTTP: the block list refuses the target, or it is dialled.
Decide(c) ==
    LET r == conn[c] IN
    /\ r.pc = "decide" /\ r.kind # "l3"
    /\ \/ Becomes(c, [r EXCEPT !.pc = "dial"])
       \/ Finish(c, [r EXCEPT !.log = "drop", !.told = "refused"])

\* Transparent: the path decider drops the connection, or it is dialled.
DecideTransparent(c) ==
    LET r == conn[c] IN
    /\ r.pc = "decide" /\ r.kind = "l3"
    /\ Becomes(c, [r EXCEPT !.pc = "dial"]) \/ Finish(c, [r EXCEPT !.log = "drop"])

Connected(r) == [r EXCEPT !.log = "ok", !.server = "open", !.pc = "reply"]

\* Mutation of Dial: the event is recorded before the error is looked at.
DialRecordsFirst(c) ==
    LET r == conn[c] IN
    /\ r.pc = "dial" /\ r.kind # "l3"
    /\ Becomes(c, Connected(r)) \/ Finish(c, [r EXCEPT !.log = "ok", !.told = "refused"])

\* SOCKS and HTTP: dialTarget, the record of its outcome, and the refusal.
Dial(c) ==
    LET r == conn[c] IN
    /\ r.pc = "dial" /\ r.kind # "l3"
    /\ Becomes(c, Connected(r)) \/ Finish(c, [r EXCEPT !.log = "fail", !.told = "refused"])

DialTransparent(c) ==
    LET r == conn[c] IN
    /\ r.pc = "dial" /\ r.kind = "l3"
    /\ Becomes(c, Connected(r)) \/ Finish(c, [r EXCEPT !.log = "fail"])

Relaying(r) ==
    [r EXCEPT !.told = "ok", !.deadline = "none", !.pc = "relay", !.up = TRUE, !.down = TRUE]

\* SOCKS and HTTP: the client is told, unless the write fails; the deadline is
\* cleared and the relay begins.
Reply(c) ==
    LET r == conn[c] IN
    /\ r.pc = "reply" /\ r.kind # "l3"
    /\ \/ r.deadline # "passed" /\ Becomes(c, Relaying(r))
       \/ Broken(r) /\ Finish(c, r)

\* Transparent: there is nothing to tell.
RelayTransparent(c) ==
    LET r == conn[c] IN
    /\ r.pc = "reply" /\ r.kind = "l3"
    /\ Becomes(c, Relaying(r))

-----------------------------------------------------------------------------
(***************************************************************************)
(* relay.                                                                  *)
(***************************************************************************)
\* Mutation of CopyUp: the copy reads the socket and not the buffered reader.
CopySocketUp(c) ==
    LET r == conn[c] item == IF r.filled > r.taken THEN r.filled + 1 ELSE r.taken + 1 IN
    /\ r.up
    /\ \/ /\ item <= r.sent /\ r.server # "gone"
          /\ Becomes(c, [r EXCEPT !.taken = item, !.filled = item, !.got = Append(@, item)])
       \/ /\ r.server = "gone" \/ r.client = "gone" \/ (r.client = "half" /\ item > r.sent)
          /\ Becomes(c, [r EXCEPT !.up = FALSE, !.serverEnd = TRUE])

\* Mutation of CopyUp: the end is not passed on.
CopyUpKeepsOpen(c) ==
    LET r == conn[c] IN
    /\ r.up
    /\ \/ /\ r.taken < r.sent /\ r.server # "gone"
          /\ Becomes(c, [r EXCEPT !.taken = @ + 1, !.got = Append(@, r.taken + 1),
                                  !.filled = IF @ > r.taken THEN @ ELSE r.taken + 1])
       \/ /\ \/ r.server = "gone" \/ r.client = "gone"
             \/ r.client = "half" /\ r.taken = r.sent
          /\ Becomes(c, [r EXCEPT !.up = FALSE])

\* Client to server: an item, from the reader's buffer first, or the end, which
\* is passed on by CloseWrite.  A closed peer may end it with items unread.
CopyUp(c) ==
    LET r == conn[c] IN
    /\ r.up
    /\ \/ /\ r.taken < r.sent /\ r.server # "gone"
          /\ Becomes(c, [r EXCEPT !.taken = @ + 1, !.got = Append(@, r.taken + 1),
                                  !.filled = IF @ > r.taken THEN @ ELSE r.taken + 1])
       \/ /\ \/ r.server = "gone" \/ r.client = "gone"
             \/ r.client = "half" /\ r.taken = r.sent
          /\ Becomes(c, [r EXCEPT !.up = FALSE, !.serverEnd = TRUE])

\* Mutation of CopyDown: the end is not passed on.
CopyDownKeepsOpen(c) ==
    LET r == conn[c] IN
    /\ r.down
    /\ \/ r.fed < r.back /\ r.client # "gone" /\ Becomes(c, [r EXCEPT !.fed = @ + 1])
       \/ /\ \/ r.server = "gone" \/ r.client = "gone"
             \/ r.server = "half" /\ r.fed = r.back
          /\ Becomes(c, [r EXCEPT !.down = FALSE])

\* Server to client.  The client's connection of the SOCKS listener is wrapped in
\* a prefixConn, which has no CloseWrite: only a transparent client sees the end.
CopyDown(c) ==
    LET r == conn[c] IN
    /\ r.down
    /\ \/ r.fed < r.back /\ r.client # "gone" /\ Becomes(c, [r EXCEPT !.fed = @ + 1])
       \/ /\ \/ r.server = "gone" \/ r.client = "gone"
             \/ r.server = "half" /\ r.fed = r.back
          /\ Becomes(c, [r EXCEPT !.down = FALSE, !.clientEnd = @ \/ r.kind = "l3"])

\* wg.Wait of relay, and the handler returns.
RelayDone(c) ==
    LET r == conn[c] IN
    /\ r.pc = "relay" /\ ~r.up /\ ~r.down
    /\ Finish(c, r)

-----------------------------------------------------------------------------
(***************************************************************************)
(* The peers and the clock.                                                *)
(***************************************************************************)
Live(c) == conn[c].pc \notin {"off", "done"}

ClientSend(c) ==
    LET r == conn[c] IN
    /\ Live(c) /\ r.client = "open" /\ r.sent < Handshake(r.kind) + MaxData
    /\ Becomes(c, [r EXCEPT !.sent = @ + 1])

ClientEnds(c, how) ==
    LET r == conn[c] IN
    /\ Live(c) /\ (r.client = "open" \/ (r.client = "half" /\ how = "gone"))
    /\ Becomes(c, [r EXCEPT !.client = how])

ServerSend(c) ==
    LET r == conn[c] IN
    /\ Live(c) /\ r.server = "open" /\ r.back < MaxData
    /\ Becomes(c, [r EXCEPT !.back = @ + 1])

ServerEnds(c, how) ==
    LET r == conn[c] IN
    /\ Live(c) /\ (r.server = "open" \/ (r.server = "half" /\ how = "gone"))
    /\ Becomes(c, [r EXCEPT !.server = how])

Expire(c) ==
    LET r == conn[c] IN
    /\ Live(c) /\ r.deadline = "armed"
    /\ Becomes(c, [r EXCEPT !.deadline = "passed"])

Handle(c) ==
    \/ Begin(c) \/ Fill(c) \/ ReadSocks(c) \/ ReadHTTP(c) \/ ReadFails(c)
    \/ Decide(c) \/ Dial(c) \/ Reply(c)
    \/ BeginTransparent(c) \/ DecideTransparent(c) \/ DialTransparent(c) \/ RelayTransparent(c)
    \/ RelayDone(c)
Serving == AcceptFails \/ Return \/ CloseListener
Peers(c) ==
    \/ ClientSend(c) \/ ServerSend(c)
    \/ \E how \in {"half", "gone"} : ClientEnds(c, how) \/ ServerEnds(c, how)

Next ==
    \/ \E c \in Conns : Accept(c) \/ Handle(c) \/ CopyUp(c) \/ CopyDown(c) \/ Peers(c) \/ Expire(c)
    \/ Serving \/ Cancel

Spec == Init /\ [][Next]_vars

\* Goroutines run, a dial returns at the latest when its context expires, and so
\* does the deadline.  Peers owe nothing.
Fairness ==
    /\ \A c \in Conns :
         /\ WF_vars(Handle(c)) /\ WF_vars(CopyUp(c)) /\ WF_vars(CopyDown(c))
         /\ WF_vars(Expire(c))
    /\ WF_vars(Return \/ CloseListener)

FairSpec == Spec /\ Fairness

-----------------------------------------------------------------------------
\* What a client sends after its handshake reaches the server from the first item
\* on, in order and without a gap, even what was read ahead with the handshake
\* (prefixConn, and the reader handleHTTP shares with it).
StreamInOrder ==
    \A c \in Conns : \A i \in DOMAIN conn[c].got :
        conn[c].got[i] = Handshake(conn[c].kind) + i

\* ListenAndServe returns only when every handler it started has returned.
ReturnWaits ==
    serve = "returned" => \A c \in Conns : conn[c].pc \in {"off", "done"}

\* The connection log tells the truth: what it calls dropped was never dialled,
\* what it calls ok was, and no client is told otherwise.
LogIsTrue ==
    \A c \in Conns : LET r == conn[c] IN
        /\ r.log = "drop" => r.server = "none" /\ r.told # "ok"
        /\ r.log = "ok" => r.server # "none" /\ r.told # "refused"
        /\ r.told = "ok" => r.log = "ok"

\* A client cannot hold a handler in the handshake: it is relayed or gone in the
\* end, whatever it sends or does not send (SetDeadline, the context of the dial).
HandshakeEnds ==
    \A c \in Conns :
        conn[c].pc \in {"begin", "read", "decide", "dial", "reply"}
            ~> conn[c].pc \in {"relay", "done"}

\* A client that has shut down its side has the end passed on to the server.
EndReachesServer ==
    \A c \in Conns :
        (conn[c].pc = "relay" /\ conn[c].client = "half") ~> conn[c].serverEnd

\* A server that has shut down its side has the end passed on to a transparent
\* client (a SOCKS or HTTP client reads through prefixConn, which has no CloseWrite).
EndReachesClient ==
    \A c \in Conns :
        (conn[c].kind = "l3" /\ conn[c].pc = "relay" /\ conn[c].server = "half")
            ~> conn[c].clientEnd

\* "ListenAndServe starts serving until the listener is closed or ctx cancelled"
\* (socks5.go:79).
ServesUntilClosed == serve # "accept" => ~listening \/ cancelled
=============================================================================
