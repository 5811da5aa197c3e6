-------------------------- MODULE ProxyServerProofs --------------------------
(***************************************************************************)
(* Proofs about ProxyServer, for any number of connections (an infinite    *)
(* set of them included) and any amount of data.                           *)
(***************************************************************************)
EXTENDS ProxyServer, FiniteSetTheorems, SequenceTheorems, TLAPS

-----------------------------------------------------------------------------
(***************************************************************************)
(* The inductive invariant: what is true of a connection at each stage of  *)
(* its handler, and what the WaitGroup counts.                             *)
(***************************************************************************)
\* What was sent bounds what the reader took, and that what was read from it.
Flow(r) ==
    /\ r.sent <= Handshake(r.kind) + MaxData
    /\ r.filled <= r.sent
    /\ r.taken <= r.filled

InOrder(r) == \A i \in DOMAIN r.got : r.got[i] = Handshake(r.kind) + i

\* How much the handler has read, and where the server's first item came from.
Position(r) ==
    /\ r.pc \in {"off", "begin"} => r.taken = 0
    /\ r.pc = "read" => r.kind # "l3" /\ r.taken < Handshake(r.kind)
    /\ r.pc \in {"decide", "dial", "reply"} => r.taken = Handshake(r.kind)
    /\ r.pc = "relay" => r.taken = Handshake(r.kind) + Len(r.got)
    /\ r.pc \notin {"relay", "done"} => r.got = <<>>

\* The copying goroutines are inside relay, and a peer is sent the end by the one
\* that wrote to it, as the last thing it does, or by the handler that returns.
Copies(r) ==
    /\ r.pc # "relay" => ~r.up /\ ~r.down
    /\ r.pc \notin {"relay", "done"} => ~r.serverEnd /\ ~r.clientEnd
    /\ r.serverEnd => ~r.up
    /\ r.clientEnd => ~r.down

Truthful(r) ==
    /\ r.log = "drop" => r.server = "none" /\ r.told # "ok"
    /\ r.log = "ok" => r.server # "none" /\ r.told # "refused"
    /\ r.told = "ok" => r.log = "ok"

\* What was recorded and answered.
Outcome(r) ==
    /\ r.pc \in {"off", "begin", "read", "decide", "dial"} =>
         r.log = "none" /\ r.told = "nothing" /\ r.server = "none"
    /\ r.pc = "reply" => r.log = "ok" /\ r.told = "nothing" /\ r.server # "none"
    /\ r.pc = "relay" => r.log = "ok" /\ r.told = "ok" /\ r.server # "none"
    /\ Truthful(r)

RecInv(r) == Flow(r) /\ InOrder(r) /\ Position(r) /\ Copies(r) /\ Outcome(r)
ConnInv == \A c \in Conns : RecInv(conn[c])

\* The WaitGroup counts the handlers that have not returned.
Handlers == {c \in Conns : Live(c)}
WaitInv ==
    /\ IsFiniteSet(Handlers) /\ wg = Cardinality(Handlers)
    /\ serve = "returned" => wg = 0

IInv == TypeOK /\ ConnInv /\ WaitInv
-----------------------------------------------------------------------------
(***************************************************************************)
(* Every step of a connection has one of two shapes.                       *)
(***************************************************************************)
\* A record with which a handler may return.
Over(r) == Flow(r) /\ InOrder(r) /\ ~r.up /\ ~r.down /\ Truthful(r)

\* The handler goes on,
Moves(c) ==
    \E r \in Connections : /\ Live(c) /\ r.pc \notin {"off", "done"} /\ RecInv(r)
                           /\ Becomes(c, r)

\* or it returns.
Leaves(c) == \E r \in Connections : Live(c) /\ Over(r) /\ Finish(c, r)

\* The length of a handshake, by kind.
LEMMA HandshakeLength ==
    /\ \A k \in Kinds : Handshake(k) \in 0..2
    /\ Handshake("socks") = 2 /\ Handshake("http") = 1 /\ Handshake("l3") = 0
<1>1. Handshake("socks") = 2 /\ Handshake("http") = 1 /\ Handshake("l3") = 0
  BY DEF Handshake
<1> QED
  BY <1>1, ProxyAssumption

\* Before its handler relays, a connection may be closed at any time.
LEMMA BeforeRelay ==
    ASSUME NEW r \in Connections, RecInv(r), r.pc \notin {"relay", "done"}
    PROVE  Over(r)
BY DEF Over, RecInv, Copies, Outcome

\* A dial that succeeds.
LEMMA ConnectedInv ==
    ASSUME NEW r \in Connections, RecInv(r), r.pc = "dial"
    PROVE  /\ Connected(r) \in Connections /\ RecInv(Connected(r))
           /\ Connected(r).pc = "reply"
<1> DEFINE n == Connected(r)
<1>0. n \in Connections
  <2>1. /\ "ok" \in {"none", "drop", "fail", "ok"} /\ "reply" \in Stages
        /\ "open" \in Ends \cup {"none"}
    BY DEF Stages, Ends
  <2> QED
    BY <2>1 DEF Connected, Connections
<1>1. /\ n.pc = "reply" /\ n.log = "ok" /\ n.server = "open" /\ n.told = r.told
      /\ n.kind = r.kind /\ n.sent = r.sent /\ n.filled = r.filled /\ n.taken = r.taken
      /\ n.got = r.got /\ n.up = r.up /\ n.down = r.down
      /\ n.serverEnd = r.serverEnd /\ n.clientEnd = r.clientEnd
  BY DEF Connected, Connections
<1> HIDE DEF n
<1>2. Flow(n) /\ InOrder(n) /\ Position(n)
  BY <1>1 DEF RecInv, Flow, InOrder, Position
<1>3. Copies(n) /\ Outcome(n)
  BY <1>1 DEF RecInv, Copies, Outcome, Truthful
<1> QED
  BY <1>0, <1>1, <1>2, <1>3 DEF RecInv, n

\* handle and Transparent.handle, up to the relay.
LEMMA HandleStep ==
    ASSUME TypeOK, ConnInv, NEW c \in Conns, Handle(c)
    PROVE  Moves(c) \/ Leaves(c)
<1> DEFINE r == conn[c]
<1>1. r \in Connections /\ RecInv(r)
  BY DEF TypeOK, ConnInv
<1>2. r.kind \in Kinds /\ Handshake(r.kind) \in 0..2
  BY <1>1, HandshakeLength DEF Connections
<1>3. r.pc \notin {"relay", "done"} => Over(r)
  BY <1>1, BeforeRelay
<1>4. ASSUME Begin(c) PROVE Moves(c) \/ Leaves(c)
  <2> DEFINE n == [r EXCEPT !.pc = "read", !.deadline = "armed"]
  <2>1. /\ r.pc = "begin" /\ r.kind # "l3"
        /\ Becomes(c, n) \/ Finish(c, r)
    BY <1>4 DEF Begin
  <2>2. n \in Connections
    BY <1>1 DEF Connections, Stages
  <2>3. RecInv(n) /\ n.pc \notin {"off", "done"}
    BY <1>1, <1>2, <2>1, HandshakeLength, ProxyAssumption
    DEF Connections, RecInv, Flow, InOrder, Position, Copies, Outcome, Truthful
  <2> QED
    BY <1>1, <1>3, <2>1, <2>2, <2>3 DEF Moves, Leaves, Live
<1>5. ASSUME BeginTransparent(c) PROVE Moves(c) \/ Leaves(c)
  <2> DEFINE n == [r EXCEPT !.pc = "decide"]
  <2>1. /\ r.pc = "begin" /\ r.kind = "l3"
        /\ Becomes(c, n) \/ Finish(c, r)
    BY <1>5 DEF BeginTransparent
  <2>2. n \in Connections
    BY <1>1 DEF Connections, Stages
  <2>3. RecInv(n) /\ n.pc \notin {"off", "done"}
    BY <1>1, <1>2, <2>1, HandshakeLength, ProxyAssumption
    DEF Connections, RecInv, Flow, InOrder, Position, Copies, Outcome, Truthful
  <2> QED
    BY <1>1, <1>3, <2>1, <2>2, <2>3 DEF Moves, Leaves, Live
<1>6. ASSUME Fill(c) PROVE Moves(c) \/ Leaves(c)
  <2>1. PICK k \in (r.filled + 1)..r.sent : r.pc = "read" /\ Becomes(c, [r EXCEPT !.filled = k])
    BY <1>6 DEF Fill
  <2> DEFINE n == [r EXCEPT !.filled = k]
  <2>2. n \in Connections
    <3>1. k \in 0..(2 + MaxData)
      BY <1>1, ProxyAssumption DEF Connections
    <3> QED
      BY <1>1, <3>1 DEF Connections
  <2>3. RecInv(n) /\ n.pc = "read"
    BY <1>1, <1>2, <2>1, ProxyAssumption
    DEF Connections, RecInv, Flow, InOrder, Position, Copies, Outcome, Truthful
  <2> QED
    BY <2>1, <2>2, <2>3 DEF Moves, Live
<1>7. ASSUME ReadSocks(c) PROVE Moves(c) \/ Leaves(c)
  <2> DEFINE m == [r EXCEPT !.taken = @ + 1]
             n == [m EXCEPT !.pc = "decide"]
             f == [m EXCEPT !.told = "refused"]
  <2>1. /\ r.pc = "read" /\ r.kind = "socks" /\ r.taken < r.filled
        /\ (m.taken = 1 /\ Becomes(c, m)) \/ (m.taken = 2 /\ (Becomes(c, n) \/ Finish(c, f)))
    BY <1>1, <1>7 DEF ReadSocks, Connections
  <2>2. m.taken = r.taken + 1
    BY <1>1 DEF Connections
  <2>3. m \in Connections /\ n \in Connections /\ f \in Connections
    <3>1. r.taken + 1 \in 0..(2 + MaxData)
      BY <1>1, <2>1, ProxyAssumption DEF Connections
    <3>2. m \in Connections
      BY <1>1, <3>1 DEF Connections
    <3> HIDE DEF m
    <3> QED
      BY <3>2 DEF Connections, Stages
  <2>4. m.taken = 1 => RecInv(m) /\ m.pc = "read"
    BY <1>1, <1>2, <2>1, <2>2, HandshakeLength
    DEF Connections, RecInv, Flow, InOrder, Position, Copies, Outcome, Truthful
  <2>5. m.taken = 2 => RecInv(n) /\ n.pc = "decide"
    BY <1>1, <1>2, <2>1, <2>2, HandshakeLength
    DEF Connections, RecInv, Flow, InOrder, Position, Copies, Outcome, Truthful
  <2>6. Over(f)
    BY <1>1, <1>2, <2>1, HandshakeLength
    DEF Connections, RecInv, Flow, InOrder, Copies, Outcome, Truthful, Over
  <2> HIDE DEF m, n, f
  <2> QED
    BY <2>1, <2>3, <2>4, <2>5, <2>6 DEF Moves, Leaves, Live
<1>8. ASSUME ReadHTTP(c) PROVE Moves(c) \/ Leaves(c)
  <2> DEFINE m == [r EXCEPT !.taken = @ + 1]
             n == [m EXCEPT !.pc = "decide"]
             f == [m EXCEPT !.told = "refused"]
  <2>1. /\ r.pc = "read" /\ r.kind = "http" /\ r.taken < r.filled
        /\ Becomes(c, n) \/ Finish(c, f)
    BY <1>1, <1>8 DEF ReadHTTP, Connections
  <2>2. n \in Connections /\ f \in Connections
    <3>1. r.taken + 1 \in 0..(2 + MaxData)
      BY <1>1, <2>1, ProxyAssumption DEF Connections
    <3>2. m \in Connections
      BY <1>1, <3>1 DEF Connections
    <3> HIDE DEF m
    <3> QED
      BY <3>2 DEF Connections, Stages
  <2>3. RecInv(n) /\ n.pc = "decide"
    BY <1>1, <1>2, <2>1, HandshakeLength
    DEF Connections, RecInv, Flow, InOrder, Position, Copies, Outcome, Truthful
  <2>4. Over(f)
    BY <1>1, <1>2, <2>1, HandshakeLength
    DEF Connections, RecInv, Flow, InOrder, Copies, Outcome, Truthful, Over
  <2> HIDE DEF m, n, f
  <2> QED
    BY <2>1, <2>2, <2>3, <2>4 DEF Moves, Leaves, Live
<1>9. ASSUME ReadFails(c) PROVE Moves(c) \/ Leaves(c)
  <2>1. /\ r.pc = "read"
        /\ Finish(c, r)
    BY <1>9 DEF ReadFails
  <2> QED
    BY <1>1, <1>3, <2>1 DEF Moves, Leaves, Live
<1>10. ASSUME Decide(c) PROVE Moves(c) \/ Leaves(c)
  <2> DEFINE n == [r EXCEPT !.pc = "dial"]
             f == [r EXCEPT !.log = "drop", !.told = "refused"]
  <2>1. /\ r.pc = "decide" /\ r.kind # "l3"
        /\ Becomes(c, n) \/ Finish(c, f)
    BY <1>10 DEF Decide
  <2>2. n \in Connections
    BY <1>1 DEF Connections, Stages
  <2>3. RecInv(n) /\ n.pc \notin {"off", "done"}
    BY <1>1, <2>1
    DEF Connections, RecInv, Flow, InOrder, Position, Copies, Outcome, Truthful
  <2>4. f \in Connections
    BY <1>1 DEF Connections
  <2>5. Over(f)
    BY <1>1, <2>1
    DEF Connections, Over, RecInv, Flow, InOrder, Position, Copies, Outcome, Truthful
  <2> QED
    BY <1>1, <2>1, <2>2, <2>3, <2>4, <2>5 DEF Moves, Leaves, Live
<1>11. ASSUME DecideTransparent(c) PROVE Moves(c) \/ Leaves(c)
  <2> DEFINE n == [r EXCEPT !.pc = "dial"]
             f == [r EXCEPT !.log = "drop"]
  <2>1. /\ r.pc = "decide" /\ r.kind = "l3"
        /\ Becomes(c, n) \/ Finish(c, f)
    BY <1>11 DEF DecideTransparent
  <2>2. n \in Connections
    BY <1>1 DEF Connections, Stages
  <2>3. RecInv(n) /\ n.pc \notin {"off", "done"}
    BY <1>1, <2>1
    DEF Connections, RecInv, Flow, InOrder, Position, Copies, Outcome, Truthful
  <2>4. f \in Connections
    BY <1>1 DEF Connections
  <2>5. Over(f)
    BY <1>1, <2>1
    DEF Connections, Over, RecInv, Flow, InOrder, Position, Copies, Outcome, Truthful
  <2> QED
    BY <1>1, <2>1, <2>2, <2>3, <2>4, <2>5 DEF Moves, Leaves, Live
<1>12. ASSUME Dial(c) PROVE Moves(c) \/ Leaves(c)
  <2> DEFINE n == Connected(r)
             f == [r EXCEPT !.log = "fail", !.told = "refused"]
  <2>1. /\ r.pc = "dial" /\ r.kind # "l3"
        /\ Becomes(c, n) \/ Finish(c, f)
    BY <1>12 DEF Dial
  <2>2. n \in Connections
    BY <1>1, <2>1, ConnectedInv, Zenon
  <2>3. RecInv(n) /\ n.pc = "reply"
    BY <1>1, <2>1, ConnectedInv, Zenon
  <2>4. f \in Connections
    BY <1>1 DEF Connections
  <2>5. Over(f)
    BY <1>1, <2>1
    DEF Connections, Over, RecInv, Flow, InOrder, Position, Copies, Outcome, Truthful
  <2> QED
    BY <1>1, <2>1, <2>2, <2>3, <2>4, <2>5 DEF Moves, Leaves, Live
<1>13. ASSUME DialTransparent(c) PROVE Moves(c) \/ Leaves(c)
  <2> DEFINE n == Connected(r)
             f == [r EXCEPT !.log = "fail"]
  <2>1. /\ r.pc = "dial" /\ r.kind = "l3"
        /\ Becomes(c, n) \/ Finish(c, f)
    BY <1>13 DEF DialTransparent
  <2>2. n \in Connections
    BY <1>1, <2>1, ConnectedInv, Zenon
  <2>3. RecInv(n) /\ n.pc = "reply"
    BY <1>1, <2>1, ConnectedInv, Zenon
  <2>4. f \in Connections
    BY <1>1 DEF Connections
  <2>5. Over(f)
    BY <1>1, <2>1
    DEF Connections, Over, RecInv, Flow, InOrder, Position, Copies, Outcome, Truthful
  <2> QED
    BY <1>1, <2>1, <2>2, <2>3, <2>4, <2>5 DEF Moves, Leaves, Live
<1>14. ASSUME Reply(c) PROVE Moves(c) \/ Leaves(c)
  <2> DEFINE n == Relaying(r)
  <2>1. /\ r.pc = "reply" /\ r.kind # "l3"
        /\ Becomes(c, n) \/ Finish(c, r)
    BY <1>14 DEF Reply
  <2>2. n \in Connections
    BY <1>1 DEF Connections, Stages, Relaying
  <2>3. RecInv(n) /\ n.pc \notin {"off", "done"}
    BY <1>1, <2>1
    DEF Connections, Relaying, RecInv, Flow, InOrder, Position, Copies, Outcome, Truthful
  <2> QED
    BY <1>1, <1>3, <2>1, <2>2, <2>3 DEF Moves, Leaves, Live
<1>15. ASSUME RelayTransparent(c) PROVE Moves(c) \/ Leaves(c)
  <2> DEFINE n == Relaying(r)
  <2>1. /\ r.pc = "reply" /\ r.kind = "l3"
        /\ Becomes(c, n)
    BY <1>15 DEF RelayTransparent
  <2>2. n \in Connections
    BY <1>1 DEF Connections, Stages, Relaying
  <2>3. RecInv(n) /\ n.pc \notin {"off", "done"}
    BY <1>1, <2>1
    DEF Connections, Relaying, RecInv, Flow, InOrder, Position, Copies, Outcome, Truthful
  <2> QED
    BY <1>1, <2>1, <2>2, <2>3 DEF Moves, Leaves, Live
<1>16. ASSUME RelayDone(c) PROVE Moves(c) \/ Leaves(c)
  <2>1. r.pc = "relay" /\ ~r.up /\ ~r.down /\ Finish(c, r)
    BY <1>16 DEF RelayDone
  <2>2. Over(r)
    BY <1>1, <2>1 DEF Over, RecInv, Outcome
  <2> QED
    BY <1>1, <2>1, <2>2 DEF Leaves, Live
<1> QED
  BY <1>4, <1>5, <1>6, <1>7, <1>8, <1>9, <1>10, <1>11, <1>12, <1>13, <1>14, <1>15, <1>16 DEF Handle

\* relay, the peers and the clock.
LEMMA RelayStep ==
    ASSUME TypeOK, ConnInv, NEW c \in Conns, CopyUp(c) \/ CopyDown(c) \/ Peers(c) \/ Expire(c)
    PROVE  Moves(c)
<1> DEFINE r == conn[c]
<1>1. r \in Connections /\ RecInv(r)
  BY DEF TypeOK, ConnInv
<1>2. r.kind \in Kinds /\ Handshake(r.kind) \in 0..2
  BY <1>1, HandshakeLength DEF Connections
<1>3. ASSUME CopyUp(c) PROVE Moves(c)
  <2> DEFINE n == [r EXCEPT !.taken = @ + 1, !.got = Append(@, r.taken + 1),
                            !.filled = IF @ > r.taken THEN @ ELSE r.taken + 1]
             e == [r EXCEPT !.up = FALSE, !.serverEnd = TRUE]
  <2>1. r.up /\ ((r.taken < r.sent /\ Becomes(c, n)) \/ Becomes(c, e))
    BY <1>3, Zenon DEF CopyUp
  <2>2. r.pc = "relay"
    BY <1>1, <2>1 DEF RecInv, Copies
  <2>3. CASE r.taken < r.sent /\ Becomes(c, n)
    <3>1. /\ r.got \in Seq(1..(2 + MaxData)) /\ Len(r.got) \in Nat
          /\ r.taken = Handshake(r.kind) + Len(r.got) /\ r.taken + 1 \in 1..(2 + MaxData)
      BY <1>1, <1>2, <2>2, <2>3, ProxyAssumption DEF Connections, RecInv, Flow, Position
    <3> DEFINE g == Append(r.got, r.taken + 1)
    <3>2. /\ g \in Seq(1..(2 + MaxData)) /\ Len(g) = Len(r.got) + 1
          /\ DOMAIN g = 1..(Len(r.got) + 1)
          /\ \A i \in 1..Len(r.got) : g[i] = r.got[i]
          /\ g[Len(r.got) + 1] = r.taken + 1
      BY <3>1, AppendProperties
    <3>3. \A i \in DOMAIN g : g[i] = Handshake(r.kind) + i
      <4>1. \A i \in 1..Len(r.got) : r.got[i] = Handshake(r.kind) + i
        BY <1>1, <3>1 DEF RecInv, InOrder
      <4>2. \A i \in 1..(Len(r.got) + 1) : i \in 1..Len(r.got) \/ i = Len(r.got) + 1
        BY <3>1
      <4> QED
        BY <1>2, <3>1, <3>2, <4>1, <4>2
    <3>4. n = [r EXCEPT !.taken = r.taken + 1, !.got = g,
                        !.filled = IF r.filled > r.taken THEN r.filled ELSE r.taken + 1]
      BY <1>1 DEF Connections
    <3> HIDE DEF n, g
    <3>5. n \in Connections
      <4> DEFINE f == IF r.filled > r.taken THEN r.filled ELSE r.taken + 1
      <4>1. r.taken + 1 \in 0..(2 + MaxData) /\ f \in 0..(2 + MaxData)
        BY <1>1, <2>3, <3>1, ProxyAssumption DEF Connections
      <4> HIDE DEF f
      <4>2. [r EXCEPT !.taken = r.taken + 1, !.got = g, !.filled = f] \in Connections
        BY <1>1, <3>2, <4>1 DEF Connections
      <4> QED
        BY <3>4, <4>2 DEF f
    <3>6. /\ n.kind = r.kind /\ n.pc = "relay" /\ n.got = g /\ n.taken = r.taken + 1
          /\ n.sent = r.sent /\ n.up = r.up /\ n.down = r.down
          /\ n.filled = (IF r.filled > r.taken THEN r.filled ELSE r.taken + 1)
          /\ n.log = r.log /\ n.told = r.told /\ n.server = r.server
          /\ n.serverEnd = r.serverEnd /\ n.clientEnd = r.clientEnd
      BY <1>1, <2>2, <3>4 DEF Connections
    <3>7. Flow(n)
      BY <1>1, <2>3, <3>6 DEF RecInv, Flow, Connections
    <3>8. InOrder(n)
      BY <3>3, <3>6 DEF InOrder
    <3>9. Position(n)
      BY <1>2, <3>1, <3>2, <3>6 DEF Position
    <3>10. Copies(n) /\ Outcome(n)
      BY <1>1, <2>2, <3>6 DEF RecInv, Copies, Outcome, Truthful
    <3> QED
      BY <2>2, <2>3, <3>5, <3>6, <3>7, <3>8, <3>9, <3>10 DEF Moves, Live, RecInv
  <2>4. CASE Becomes(c, e)
    <3>1. e \in Connections
      BY <1>1 DEF Connections
    <3>2. RecInv(e) /\ e.pc = "relay"
      BY <1>1, <2>2 DEF Connections, RecInv, Flow, InOrder, Position, Copies, Outcome, Truthful
    <3> QED
      BY <2>2, <2>4, <3>1, <3>2 DEF Moves, Live
  <2> QED
    BY <2>1, <2>3, <2>4
<1>4. ASSUME CopyDown(c) PROVE Moves(c)
  <2> DEFINE n == [r EXCEPT !.fed = @ + 1]
             e == [r EXCEPT !.down = FALSE, !.clientEnd = @ \/ r.kind = "l3"]
  <2>1. r.down /\ ((r.fed < r.back /\ Becomes(c, n)) \/ Becomes(c, e))
    BY <1>4 DEF CopyDown
  <2>2. r.pc = "relay"
    BY <1>1, <2>1 DEF RecInv, Copies
  <2>3. r.fed < r.back => n \in Connections
    <3>1. r.fed < r.back => r.fed + 1 \in 0..MaxData
      BY <1>1, ProxyAssumption DEF Connections
    <3> QED
      BY <1>1, <3>1 DEF Connections
  <2>4. e \in Connections
    BY <1>1 DEF Connections
  <2>5. RecInv(n) /\ n.pc = "relay"
    BY <1>1, <2>2 DEF Connections, RecInv, Flow, InOrder, Position, Copies, Outcome, Truthful
  <2>6. RecInv(e) /\ e.pc = "relay"
    BY <1>1, <2>2 DEF Connections, RecInv, Flow, InOrder, Position, Copies, Outcome, Truthful
  <2> HIDE DEF n, e
  <2> QED
    BY <2>1, <2>2, <2>3, <2>4, <2>5, <2>6 DEF Moves, Live
<1>5. ASSUME ClientSend(c) PROVE Moves(c)
  <2> DEFINE n == [r EXCEPT !.sent = @ + 1]
  <2>1. Live(c) /\ r.sent < Handshake(r.kind) + MaxData /\ Becomes(c, n)
    BY <1>5 DEF ClientSend
  <2>2. n \in Connections
    <3>1. r.sent + 1 \in 0..(2 + MaxData)
      BY <1>1, <1>2, <2>1, ProxyAssumption DEF Connections
    <3> QED
      BY <1>1, <3>1 DEF Connections
  <2>3. RecInv(n) /\ n.pc = r.pc
    BY <1>1, <1>2, <2>1, ProxyAssumption
    DEF Connections, RecInv, Flow, InOrder, Position, Copies, Outcome, Truthful
  <2> QED
    BY <2>1, <2>2, <2>3 DEF Moves, Live
<1>6. ASSUME ServerSend(c) PROVE Moves(c)
  <2> DEFINE n == [r EXCEPT !.back = @ + 1]
  <2>1. Live(c) /\ r.back < MaxData /\ Becomes(c, n)
    BY <1>6 DEF ServerSend
  <2>2. n \in Connections
    <3>1. r.back + 1 \in 0..MaxData
      BY <1>1, <2>1, ProxyAssumption DEF Connections
    <3> QED
      BY <1>1, <3>1 DEF Connections
  <2>3. RecInv(n) /\ n.pc = r.pc
    BY <1>1 DEF Connections, RecInv, Flow, InOrder, Position, Copies, Outcome, Truthful
  <2> QED
    BY <2>1, <2>2, <2>3 DEF Moves, Live
<1>7. ASSUME NEW how \in {"half", "gone"}, ClientEnds(c, how) PROVE Moves(c)
  <2> DEFINE n == [r EXCEPT !.client = how]
  <2>1. Live(c) /\ Becomes(c, n)
    BY <1>7 DEF ClientEnds
  <2>2. n \in Connections
    BY <1>1 DEF Connections, Ends
  <2>3. RecInv(n) /\ n.pc = r.pc
    BY <1>1 DEF Connections, RecInv, Flow, InOrder, Position, Copies, Outcome, Truthful
  <2> QED
    BY <2>1, <2>2, <2>3 DEF Moves, Live
<1>8. ASSUME NEW how \in {"half", "gone"}, ServerEnds(c, how) PROVE Moves(c)
  <2> DEFINE n == [r EXCEPT !.server = how]
  <2>1. Live(c) /\ r.server \in {"open", "half"} /\ Becomes(c, n)
    BY <1>8 DEF ServerEnds
  <2>2. n \in Connections
    BY <1>1 DEF Connections, Ends
  <2>3. RecInv(n) /\ n.pc = r.pc
    BY <1>1, <2>1 DEF Connections, RecInv, Flow, InOrder, Position, Copies, Outcome, Truthful
  <2> QED
    BY <2>1, <2>2, <2>3 DEF Moves, Live
<1>9. ASSUME Expire(c) PROVE Moves(c)
  <2> DEFINE n == [r EXCEPT !.deadline = "passed"]
  <2>1. Live(c) /\ Becomes(c, n)
    BY <1>9 DEF Expire
  <2>2. n \in Connections
    BY <1>1 DEF Connections
  <2>3. RecInv(n) /\ n.pc = r.pc
    BY <1>1 DEF Connections, RecInv, Flow, InOrder, Position, Copies, Outcome, Truthful
  <2> QED
    BY <2>1, <2>2, <2>3 DEF Moves, Live
<1> QED
  BY <1>3, <1>4, <1>5, <1>6, <1>7, <1>8, <1>9 DEF Peers

-----------------------------------------------------------------------------
(***************************************************************************)
(* Every step keeps the invariant.                                         *)
(***************************************************************************)
\* A step of one connection leaves the others alone.
LEMMA OneConnection ==
    ASSUME TypeOK, ConnInv, NEW c \in Conns, NEW r \in Connections, RecInv(r),
           conn' = [conn EXCEPT ![c] = r]
    PROVE  conn' \in [Conns -> Connections] /\ ConnInv'
<1>1. conn \in [Conns -> Connections]
  BY DEF TypeOK
<1>2. conn' \in [Conns -> Connections]
  BY <1>1
<1>3. ASSUME NEW d \in Conns PROVE RecInv(conn'[d])
  <2>1. conn'[d] = IF d = c THEN r ELSE conn[d]
    BY <1>1
  <2>2. RecInv(conn[d])
    BY DEF ConnInv
  <2> QED
    BY <2>1, <2>2, Zenon
<1>4. ConnInv'
  BY <1>3 DEF ConnInv, RecInv, Flow, InOrder, Position, Copies, Outcome, Truthful
<1> QED
  BY <1>2, <1>4

\* The WaitGroup after a handler went on, was started, or returned.
LEMMA SameHandlers ==
    ASSUME WaitInv, \A c \in Conns : Live(c)' <=> Live(c), wg' = wg, serve' = serve
    PROVE  WaitInv'
<1>1. Handlers' = Handlers
  BY DEF Handlers
<1> QED
  BY <1>1 DEF WaitInv

LEMMA OneMore ==
    ASSUME WaitInv, NEW c \in Conns, ~Live(c), Handlers' = Handlers \cup {c},
           wg' = wg + 1, serve' = "accept"
    PROVE  WaitInv'
<1>1. c \notin Handlers /\ IsFiniteSet(Handlers) /\ wg = Cardinality(Handlers)
  BY DEF Handlers, WaitInv
<1>2. /\ IsFiniteSet(Handlers \cup {c})
      /\ Cardinality(Handlers \cup {c}) = Cardinality(Handlers) + 1
  BY <1>1, FS_AddElement
<1> QED
  BY <1>1, <1>2 DEF WaitInv

LEMMA OneLess ==
    ASSUME WaitInv, NEW c \in Conns, Live(c), Handlers' = Handlers \ {c},
           wg' = wg - 1, serve' = serve
    PROVE  WaitInv' /\ wg' \in Nat
<1>1. c \in Handlers /\ IsFiniteSet(Handlers) /\ wg = Cardinality(Handlers)
  BY DEF Handlers, WaitInv
<1>2. /\ IsFiniteSet(Handlers \ {c})
      /\ Cardinality(Handlers \ {c}) = Cardinality(Handlers) - 1
  BY <1>1, FS_RemoveElement
<1>3. Cardinality(Handlers \ {c}) \in Nat
  BY <1>2, FS_CardinalityType
<1>4. Cardinality(Handlers) # 0
  BY <1>1, FS_EmptySet
<1>5. serve # "returned"
  BY <1>1, <1>4 DEF WaitInv
<1> QED
  BY <1>1, <1>2, <1>3, <1>5 DEF WaitInv

\* A handler goes on.
LEMMA MovesStep ==
    ASSUME IInv, NEW c \in Conns, Moves(c)
    PROVE  IInv'
<1>1. PICK r \in Connections : /\ Live(c) /\ r.pc \notin {"off", "done"} /\ RecInv(r)
                               /\ Becomes(c, r)
  BY DEF Moves
<1>2. conn' = [conn EXCEPT ![c] = r] /\ UNCHANGED <<listening, cancelled, serve, wg>>
  BY <1>1 DEF Becomes, loop
<1>3. conn' \in [Conns -> Connections] /\ ConnInv'
  BY <1>1, <1>2, OneConnection DEF IInv
<1>4. \A d \in Conns : Live(d)' <=> Live(d)
  BY <1>1, <1>2 DEF Live, IInv, TypeOK
<1>5. WaitInv'
  BY <1>2, <1>4, SameHandlers DEF IInv
<1>6. TypeOK'
  BY <1>2, <1>3 DEF IInv, TypeOK
<1> QED
  BY <1>3, <1>5, <1>6 DEF IInv

\* A handler returns.
LEMMA LeavesStep ==
    ASSUME IInv, NEW c \in Conns, Leaves(c)
    PROVE  IInv'
<1>1. PICK r \in Connections : Live(c) /\ Over(r) /\ Finish(c, r)
  BY DEF Leaves
<1> DEFINE n == [r EXCEPT !.pc = "done", !.clientEnd = TRUE, !.serverEnd = r.server # "none"]
<1>2. /\ conn' = [conn EXCEPT ![c] = n] /\ wg' = wg - 1
      /\ UNCHANGED <<listening, cancelled, serve>>
  BY <1>1 DEF Finish, loop
<1>3. n \in Connections
  BY DEF Connections, Stages
<1>4. RecInv(n) /\ n.pc = "done"
  BY <1>1 DEF Over, Connections, RecInv, Flow, InOrder, Position, Copies, Outcome, Truthful
<1> HIDE DEF n
<1>5. conn' \in [Conns -> Connections] /\ ConnInv'
  BY <1>2, <1>3, <1>4, OneConnection DEF IInv
<1>6. Handlers' = Handlers \ {c}
  BY <1>2, <1>4 DEF Handlers, Live, IInv, TypeOK
<1>7. WaitInv' /\ wg' \in Nat
  BY <1>1, <1>2, <1>6, OneLess DEF IInv
<1>8. TypeOK'
  BY <1>2, <1>5, <1>7 DEF IInv, TypeOK
<1> QED
  BY <1>5, <1>7, <1>8 DEF IInv

\* A handler is started.
LEMMA AcceptStep ==
    ASSUME IInv, NEW c \in Conns, Accept(c)
    PROVE  IInv'
<1> DEFINE r == conn[c]
           n == [r EXCEPT !.pc = "begin"]
<1>1. r \in Connections /\ RecInv(r) /\ r.pc = "off"
  BY DEF IInv, TypeOK, ConnInv, Accept
<1>2. /\ conn' = [conn EXCEPT ![c] = n] /\ wg' = wg + 1 /\ serve' = "accept"
      /\ UNCHANGED <<listening, cancelled, serve>>
  BY DEF Accept, loop
<1>3. n \in Connections
  BY <1>1 DEF Connections, Stages
<1>4. RecInv(n) /\ n.pc = "begin"
  BY <1>1 DEF Connections, RecInv, Flow, InOrder, Position, Copies, Outcome, Truthful
<1> HIDE DEF n
<1>5. conn' \in [Conns -> Connections] /\ ConnInv'
  BY <1>2, <1>3, <1>4, OneConnection DEF IInv
<1>6. Handlers' = Handlers \cup {c} /\ ~Live(c)
  BY <1>1, <1>2, <1>4 DEF Handlers, Live, IInv, TypeOK
<1>7. WaitInv'
  BY <1>2, <1>6, OneMore DEF IInv
<1>8. TypeOK'
  BY <1>2, <1>5 DEF IInv, TypeOK
<1> QED
  BY <1>5, <1>7, <1>8 DEF IInv

\* The accept loop ends, waits and returns.
LEMMA LoopStep ==
    ASSUME IInv, Serving \/ Cancel \/ UNCHANGED vars
    PROVE  IInv'
<1>1. /\ UNCHANGED <<wg, conn>>
      /\ serve' = "returned" => serve = "returned" \/ wg = 0
      /\ serve' \in {"accept", "drain", "returned"}
      /\ listening' \in BOOLEAN /\ cancelled' \in BOOLEAN
  BY DEF IInv, TypeOK, Serving, AcceptFails, Return, CloseListener, Cancel, vars, loop
<1>2. TypeOK'
  BY <1>1 DEF IInv, TypeOK
<1>3. ConnInv'
  BY <1>1 DEF IInv, ConnInv, RecInv, Flow, InOrder, Position, Copies, Outcome, Truthful
<1>4. WaitInv'
  <2>1. Handlers' = Handlers
    BY <1>1 DEF Handlers, Live
  <2> QED
    BY <1>1, <2>1 DEF IInv, WaitInv
<1> QED
  BY <1>2, <1>3, <1>4 DEF IInv

-----------------------------------------------------------------------------
\* No connection is open at the start.
LEMMA InitInv == Init => IInv
<1> SUFFICES ASSUME Init PROVE IInv
  OBVIOUS
<1>1. \A k \in Kinds : Fresh(k) \in Connections /\ RecInv(Fresh(k)) /\ Fresh(k).pc = "off"
  <2> SUFFICES ASSUME NEW k \in Kinds
               PROVE  Fresh(k) \in Connections /\ RecInv(Fresh(k)) /\ Fresh(k).pc = "off"
    OBVIOUS
  <2>1. /\ <<>> \in Seq(1..(2 + MaxData)) /\ 0 \in 0..(2 + MaxData) /\ 0 \in 0..MaxData
        /\ Handshake(k) \in 0..2 /\ DOMAIN <<>> = {}
    BY ProxyAssumption, HandshakeLength
  <2>2. Fresh(k) \in Connections
    BY <2>1 DEF Fresh, Connections, Stages, Ends
  <2>3. RecInv(Fresh(k))
    BY <2>1, ProxyAssumption
    DEF Fresh, RecInv, Flow, InOrder, Position, Copies, Outcome, Truthful
  <2> QED
    BY <2>2, <2>3 DEF Fresh
<1>2. \A c \in Conns : \E k \in Kinds : conn[c] = Fresh(k)
  BY DEF Init
<1>3. conn \in [Conns -> Connections]
  BY <1>1 DEF Init
<1>4. TypeOK
  BY <1>3 DEF Init, TypeOK
<1>5. ConnInv
  BY <1>1, <1>2 DEF ConnInv
<1>6. WaitInv
  <2>1. Handlers = {}
    BY <1>1, <1>2 DEF Handlers, Live
  <2> QED
    BY <2>1, FS_EmptySet DEF Init, WaitInv
<1> QED
  BY <1>4, <1>5, <1>6 DEF IInv

\* The invariant, for every behaviour.
LEMMA Invariance == Spec => []IInv
<1>1. IInv /\ [Next]_vars => IInv'
  <2> SUFFICES ASSUME IInv, [Next]_vars PROVE IInv'
    OBVIOUS
  <2>1. TypeOK /\ ConnInv
    BY DEF IInv
  <2>2. CASE Serving \/ Cancel \/ UNCHANGED vars
    BY <2>2, LoopStep
  <2>3. ASSUME NEW c \in Conns, Accept(c) PROVE IInv'
    BY <2>3, AcceptStep
  <2>4. ASSUME NEW c \in Conns, Handle(c) PROVE IInv'
    BY <2>1, <2>4, HandleStep, MovesStep, LeavesStep
  <2>5. ASSUME NEW c \in Conns, CopyUp(c) \/ CopyDown(c) \/ Peers(c) \/ Expire(c) PROVE IInv'
    BY <2>1, <2>5, RelayStep, MovesStep
  <2> QED
    BY <2>2, <2>3, <2>4, <2>5 DEF Next
<1> QED
  BY InitInv, <1>1, PTL DEF Spec

\* The listener and its connections are well typed; in particular nothing reads
\* more than was sent, and the WaitGroup is never negative (Done would panic).
THEOREM TypeCorrect == Spec => []TypeOK
<1>1. IInv => TypeOK
  BY DEF IInv
<1> QED
  BY Invariance, <1>1, PTL

\* The server gets what the client sent after its handshake, from the first item
\* on and without a gap, for every split of it between the reader's buffer and the
\* socket.
THEOREM NothingIsLost == Spec => []StreamInOrder
<1>1. IInv => StreamInOrder
  BY DEF IInv, ConnInv, RecInv, InOrder, StreamInOrder
<1> QED
  BY Invariance, <1>1, PTL

\* The connection log and the answer to the client agree with what was dialled.
THEOREM LogTellsTheTruth == Spec => []LogIsTrue
<1>1. IInv => LogIsTrue
  BY DEF IInv, ConnInv, RecInv, Outcome, Truthful, LogIsTrue
<1> QED
  BY Invariance, <1>1, PTL

\* ListenAndServe returns only when all its handlers have, however many there are.
THEOREM WaitsForHandlers == Spec => []ReturnWaits
<1>1. IInv => ReturnWaits
  <2> SUFFICES ASSUME IInv, serve = "returned", NEW c \in Conns
               PROVE  conn[c].pc \in {"off", "done"}
    BY DEF ReturnWaits
  <2>1. IsFiniteSet(Handlers) /\ Cardinality(Handlers) = 0
    BY DEF IInv, WaitInv
  <2>2. Handlers = {}
    BY <2>1, FS_EmptySet
  <2> QED
    BY <2>2 DEF Handlers, Live
<1> QED
  BY Invariance, <1>1, PTL

-----------------------------------------------------------------------------
(***************************************************************************)
(* What a connection has sent, recorded and answered is final.             *)
(***************************************************************************)
\* A connection goes from r to n: a peer that was sent the end is sent nothing
\* more, and neither the record nor the answer is taken back or repeated.
Final(r, n) ==
    /\ r.serverEnd => n.got = r.got
    /\ r.clientEnd => n.fed = r.fed
    /\ r.log # "none" => n.log = r.log
    /\ r.told # "nothing" => n.told = r.told

\* No item is written after CloseWrite or Close of the same direction (relay,
\* internal/proxy/socks5.go), a connection makes at most one event of the connection
\* log, and its client gets at most one answer to its request.
EndIsFinal == [][\A c \in Conns : Final(conn[c], conn'[c])]_vars

\* The handler of a connection.
LEMMA HandleFinal ==
    ASSUME IInv, NEW c \in Conns, Handle(c)
    PROVE  Final(conn[c], conn'[c])
<1> DEFINE r == conn[c]
<1>1. conn \in [Conns -> Connections] /\ r \in Connections /\ Copies(r) /\ Outcome(r)
  BY DEF IInv, TypeOK, ConnInv, RecInv
<1> USE <1>1 DEF Connections, Copies, Outcome, Final, Becomes, Finish
<1>2. CASE Begin(c)
  BY <1>2 DEF Begin
<1>3. CASE BeginTransparent(c)
  BY <1>3 DEF BeginTransparent
<1>4. CASE Fill(c)
  BY <1>4 DEF Fill
<1>5. CASE ReadSocks(c)
  BY <1>5 DEF ReadSocks
<1>6. CASE ReadHTTP(c)
  BY <1>6 DEF ReadHTTP
<1>7. CASE ReadFails(c)
  BY <1>7 DEF ReadFails
<1>8. CASE Decide(c)
  BY <1>8 DEF Decide
<1>9. CASE DecideTransparent(c)
  BY <1>9 DEF DecideTransparent
<1>10. CASE Dial(c)
  BY <1>10 DEF Dial, Connected
<1>11. CASE DialTransparent(c)
  BY <1>11 DEF DialTransparent, Connected
<1>12. CASE Reply(c)
  <2>1. r.pc = "reply" /\ (Becomes(c, Relaying(r)) \/ Finish(c, r))
    BY <1>12 DEF Reply
  <2>2. CASE Becomes(c, Relaying(r))
    BY <2>1, <2>2 DEF Relaying
  <2>3. CASE Finish(c, r)
    BY <2>1, <2>3
  <2> QED
    BY <2>1, <2>2, <2>3
<1>13. CASE RelayTransparent(c)
  BY <1>13 DEF RelayTransparent, Relaying
<1>14. CASE RelayDone(c)
  BY <1>14 DEF RelayDone
<1> QED
  BY <1>2, <1>3, <1>4, <1>5, <1>6, <1>7, <1>8, <1>9,
     <1>10, <1>11, <1>12, <1>13, <1>14 DEF Handle

\* The copying goroutines, the peers and the clock.
LEMMA RelayFinal ==
    ASSUME IInv, NEW c \in Conns, Accept(c) \/ CopyUp(c) \/ CopyDown(c) \/ Peers(c) \/ Expire(c)
    PROVE  Final(conn[c], conn'[c])
<1> DEFINE r == conn[c]
<1>1. conn \in [Conns -> Connections] /\ r \in Connections /\ Copies(r) /\ Outcome(r)
  BY DEF IInv, TypeOK, ConnInv, RecInv
<1> USE <1>1 DEF Connections, Copies, Outcome, Final, Becomes
<1>2. CASE Accept(c)
  BY <1>2 DEF Accept
<1>3. CASE CopyUp(c)
  <2>1. ~r.serverEnd
    BY <1>3 DEF CopyUp
  <2> DEFINE n == [r EXCEPT !.taken = @ + 1, !.got = Append(@, r.taken + 1),
                            !.filled = IF @ > r.taken THEN @ ELSE r.taken + 1]
             e == [r EXCEPT !.up = FALSE, !.serverEnd = TRUE]
  <2>2. Becomes(c, n) \/ Becomes(c, e)
    BY <1>3, Zenon DEF CopyUp
  <2>3. n.fed = r.fed /\ n.log = r.log /\ n.told = r.told
    BY <1>1 DEF Connections
  <2>4. e.fed = r.fed /\ e.log = r.log /\ e.told = r.told
    BY <1>1 DEF Connections
  <2> HIDE DEF n, e
  <2> QED
    BY <2>1, <2>2, <2>3, <2>4
<1>4. CASE CopyDown(c)
  <2>1. ~r.clientEnd
    BY <1>4 DEF CopyDown
  <2> DEFINE n == [r EXCEPT !.fed = @ + 1]
             e == [r EXCEPT !.down = FALSE, !.clientEnd = @ \/ r.kind = "l3"]
  <2>2. Becomes(c, n) \/ Becomes(c, e)
    BY <1>4, Zenon DEF CopyDown
  <2>3. n.got = r.got /\ n.log = r.log /\ n.told = r.told
    BY <1>1 DEF Connections
  <2>4. e.got = r.got /\ e.log = r.log /\ e.told = r.told
    BY <1>1 DEF Connections
  <2> HIDE DEF n, e
  <2> QED
    BY <2>1, <2>2, <2>3, <2>4
<1>5. CASE Peers(c)
  BY <1>5 DEF Peers, ClientSend, ClientEnds, ServerSend, ServerEnds
<1>6. CASE Expire(c)
  BY <1>6 DEF Expire
<1> QED
  BY <1>2, <1>3, <1>4, <1>5, <1>6

\* A step is one of a single connection, or of the accept loop.
LEMMA OthersStay ==
    ASSUME IInv, NEW c \in Conns, NEW d \in Conns, d # c,
           Accept(c) \/ Handle(c) \/ CopyUp(c) \/ CopyDown(c) \/ Peers(c) \/ Expire(c)
    PROVE  conn'[d] = conn[d]
<1>1. conn \in [Conns -> Connections]
  BY DEF IInv, TypeOK
<1>2. CASE Accept(c)
  BY <1>1, <1>2 DEF Accept
<1>3. CASE Handle(c)
  <2>1. Moves(c) \/ Leaves(c)
    BY <1>3, HandleStep DEF IInv
  <2> QED
    BY <1>1, <2>1 DEF Moves, Leaves, Becomes, Finish
<1>4. CASE CopyUp(c) \/ CopyDown(c) \/ Peers(c) \/ Expire(c)
  <2>1. Moves(c)
    BY <1>4, RelayStep DEF IInv
  <2> QED
    BY <1>1, <2>1 DEF Moves, Becomes
<1> QED
  BY <1>2, <1>3, <1>4

\* Nothing follows the end of a stream, and no connection is recorded or answered
\* twice.
THEOREM NothingAfterTheEnd == Spec => EndIsFinal
<1>1. IInv /\ [Next]_vars => [\A c \in Conns : Final(conn[c], conn'[c])]_vars
  <2> SUFFICES ASSUME IInv, Next, NEW c \in Conns PROVE Final(conn[c], conn'[c])
    OBVIOUS
  <2>1. ASSUME NEW d \in Conns, Accept(d) \/ Handle(d) \/ CopyUp(d) \/ CopyDown(d) \/ Peers(d)
                                \/ Expire(d)
        PROVE  Final(conn[c], conn'[c])
    <3>1. CASE d = c
      BY <2>1, <3>1, HandleFinal, RelayFinal
    <3>2. CASE d # c
      BY <2>1, <3>2, OthersStay DEF Final
    <3> QED
      BY <3>1, <3>2
  <2>2. ASSUME Serving \/ Cancel PROVE Final(conn[c], conn'[c])
    BY <2>2 DEF Serving, AcceptFails, Return, CloseListener, Cancel, Final
  <2> QED
    BY <2>1, <2>2 DEF Next
<1> QED
  BY Invariance, <1>1, PTL DEF Spec, EndIsFinal
=============================================================================
