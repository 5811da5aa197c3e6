---------------------------- MODULE ProcessProofs ----------------------------
(***************************************************************************)
(* Proofs about Process and the DNS stub in it, for any number of listen   *)
(* addresses and queries, every choice of services and of what fails.      *)
(***************************************************************************)
EXTENDS Process, FiniteSetTheorems, TLAPS

-----------------------------------------------------------------------------
(***************************************************************************)
(* The inductive invariant.                                                *)
(***************************************************************************)
\* How far run() is says whether ctx is done and whether ListenAndServe has been
\* called; how far ListenAndServe is says which address it is at.
RunInv ==
    /\ phase \in {"shutdown", "wait"} => done
    /\ phase \in {"load", "boot", "start"} => doh = "off"
    /\ doh \in {"off", "init"} => cur = 1
    /\ doh \in {"udp", "tcp"} => cur \in Addrs
    /\ bound < cur

\* Until ctx is done the addresses before the one at hand are served on both
\* sockets or not at all, and those behind it are not bound.
BindInv ==
    ~done => \A a \in Addrs :
        /\ a < cur => \/ sock[a] = {"udp", "tcp"} /\ loops[a] = "run"
                      \/ sock[a] = {} /\ loops[a] = "none"
        /\ a = cur => sock[a] = (IF doh = "tcp" THEN {"udp"} ELSE {}) /\ loops[a] = "none"
        /\ a > cur => sock[a] = {} /\ loops[a] = "none"

\* The response to query c that the client may be sent.
Own(c, r) ==
    /\ r.kind = "answer" => r.id = c /\ size[c] = "full"
    /\ r.kind = "servfail" => r.id = (IF size[c] = "runt" THEN None ELSE c)

\* A goroutine resolves the message of its own client, whose size is settled; a
\* client that has its response is done.
OwnInv ==
    \A c \in Queries :
        /\ at[c] = "resolve" => q[c] = c
        /\ got[c] # Nothing => at[c] = "over" /\ Own(c, got[c])

\* Every error in errCh is that of a goroutine that has ended.
Over == {s \in Services : svc[s] = "ended"}
ErrInv ==
    /\ phase \in {"load", "boot", "start"} => errs = 0 /\ \A s \in Services : svc[s] = "off"
    /\ errs <= Cardinality(Over)

IInv == TypeOK /\ RunInv /\ BindInv /\ OwnInv /\ ErrInv

\* errCh is large enough: a goroutine that fails can send at once and end, although
\* main receives only one error (make(chan error, 8), main.go:402).
SendNeverBlocks == \A s \in Services : svc[s] = "send" => errs < ErrCap

-----------------------------------------------------------------------------
(***************************************************************************)
(* Every step keeps it.                                                    *)
(***************************************************************************)
\* What resolve makes of a client's own message is a response to it.
LEMMA OwnResponse ==
    ASSUME NEW c \in Queries, NEW r \in Resolved(c)
    PROVE  r \in Responses /\ Own(c, r)
  BY DEF Resolved, servfail, Responses, Own

\* Every step keeps the types.
LEMMA TypeStep == TypeOK /\ RunInv /\ OwnInv /\ [Next]_vars => TypeOK'
<1> SUFFICES ASSUME TypeOK, RunInv, OwnInv, [Next]_vars PROVE TypeOK'
  OBVIOUS
<1> USE ProcessAssumption, DohAssumption DEF TypeOK, DohTypeOK, Phases, ErrCap, vars, mainVars,
   dohVars, listening, asking
<1>1. CASE LoadConfig
  BY <1>1 DEF LoadConfig
<1>2. CASE Boot
  BY <1>2 DEF Boot
<1>3. CASE StartServices
  BY <1>3 DEF StartServices
<1>4. CASE MainSelect
  BY <1>4 DEF MainSelect
<1>5. CASE ShutDown
  BY <1>5 DEF ShutDown
<1>6. CASE WaitDone
  BY <1>6 DEF WaitDone, Exit
<1>7. CASE WaitTimeout
  BY <1>7 DEF WaitTimeout, Exit
<1>8. CASE Cancel
  BY <1>8 DEF Cancel
<1>9. ASSUME NEW s \in Services, Fail(s) PROVE TypeOK'
  BY <1>9 DEF Fail, Event
<1>10. ASSUME NEW s \in Services, Send(s) PROVE TypeOK'
  BY <1>10 DEF Send
<1>11. ASSUME NEW s \in Services, ServiceEnds(s) PROVE TypeOK'
  BY <1>11 DEF ServiceEnds
<1>12. ASSUME NEW s \in Services, Hang(s) PROVE TypeOK'
  BY <1>12 DEF Hang, Event
<1>13. CASE DohDone
  BY <1>13 DEF DohDone
<1>14. ASSUME Doh, InitHTTP PROVE TypeOK'
  <2>1. events' \in 0..MaxEvents
    BY <1>14 DEF InitHTTP, Event, Return
  <2>2. doh' \in {"udp", "returned"} /\ failed' \in BOOLEAN
    BY <1>14 DEF InitHTTP, Return
  <2> QED
    BY <1>14, <2>1, <2>2 DEF Doh, InitHTTP
<1>15. ASSUME Doh, BindUDP PROVE TypeOK'
  <2>1. cur \in Addrs /\ cur \in 1..NListen
    BY <1>15 DEF BindUDP, RunInv, Addrs
  <2>2. events' \in 0..MaxEvents
    BY <1>15 DEF BindUDP, Event, AfterAddr, Return
  <2>3. cur' \in 1..(NListen + 1) /\ bound' \in 0..NListen
    BY <1>15, <2>1 DEF BindUDP, AfterAddr, Return
  <2>4. /\ doh' \in {"off", "init", "udp", "tcp", "wait", "returned"}
        /\ failed' \in BOOLEAN
    BY <1>15 DEF BindUDP, AfterAddr, Return
  <2>5. sock' \in [Addrs -> SUBSET {"udp", "tcp"}]
    BY <1>15 DEF BindUDP, AfterAddr, Return
  <2>6. UNCHANGED <<done, loops, asking, mainVars>>
    BY <1>15 DEF Doh, BindUDP
  <2> QED
    BY <2>2, <2>3, <2>4, <2>5, <2>6
<1>16. ASSUME Doh, BindTCP PROVE TypeOK'
  <2>1. cur \in Addrs /\ cur \in 1..NListen /\ bound < cur
    BY <1>16 DEF BindTCP, RunInv, Addrs
  <2>2. events' \in 0..MaxEvents
    BY <1>16 DEF BindTCP, Event, AfterAddr, Return, Drop
  <2>3. cur' \in 1..(NListen + 1) /\ bound' \in 0..NListen
    BY <1>16, <2>1 DEF BindTCP, AfterAddr, Return
  <2>4. /\ doh' \in {"off", "init", "udp", "tcp", "wait", "returned"}
        /\ failed' \in BOOLEAN
    BY <1>16 DEF BindTCP, AfterAddr, Return
  <2>5. /\ sock' \in [Addrs -> SUBSET {"udp", "tcp"}]
        /\ loops' \in [Addrs -> {"none", "run", "closed", "ended"}]
    BY <1>16 DEF BindTCP, AfterAddr, Return
  <2>6. at' \in [Queries -> {"none", "socket", "read", "resolve", "over"}]
    BY <1>16 DEF BindTCP, AfterAddr, Return, Drop
  <2>7. UNCHANGED <<done, buf, to, size, q, late, got, mainVars>>
    BY <1>16 DEF Doh, BindTCP, Drop
  <2> QED
    BY <2>2, <2>3, <2>4, <2>5, <2>6, <2>7
<1>17. ASSUME Doh, WaitReturn PROVE TypeOK'
  BY <1>17 DEF Doh, WaitReturn, Return
<1>18. ASSUME NEW a \in Addrs, Doh, CloseSockets(a) PROVE TypeOK'
  BY <1>18 DEF Doh, CloseSockets, Drop
<1>19. ASSUME NEW a \in Addrs, Doh, LoopsEnd(a) PROVE TypeOK'
  BY <1>19 DEF Doh, LoopsEnd
<1>20. ASSUME NEW c \in Queries, Doh, ServeUDP(c) PROVE TypeOK'
  BY <1>20 DEF Doh, ServeUDP
<1>21. ASSUME NEW c \in Queries, Doh, ServeTCP(c) PROVE TypeOK'
  BY <1>21 DEF Doh, ServeTCP
<1>22. ASSUME NEW c \in Queries, Doh, ReadTCP(c) PROVE TypeOK'
  <2>1. 1 \in Addrs
    BY DEF Addrs
  <2>2. /\ at' \in [Queries -> {"none", "socket", "read", "resolve", "over"}]
        /\ to' \in [Queries -> Addrs]
        /\ q' \in [Queries -> Queries \cup {None}]
    BY <1>22, <2>1 DEF ReadTCP, Ended
  <2>3. late' \in [Queries -> BOOLEAN]
    BY <1>22 DEF ReadTCP, Ended
  <2>4. UNCHANGED <<done, listening, buf, size, got, events, mainVars>>
    BY <1>22 DEF Doh, ReadTCP
  <2> QED
    BY <2>2, <2>3, <2>4
<1>23. ASSUME NEW c \in Queries, Doh, Answer(c) PROVE TypeOK'
  <2>1. 1 \in Addrs
    BY DEF Addrs
  <2>2. /\ at' \in [Queries -> {"none", "socket", "read", "resolve", "over"}]
        /\ to' \in [Queries -> Addrs]
        /\ q' \in [Queries -> Queries \cup {None}]
    BY <1>23, <2>1 DEF Answer, Ended
  <2>3. late' \in [Queries -> BOOLEAN]
    BY <1>23 DEF Answer, Ended
  <2>4. got' \in [Queries -> Responses \cup {Nothing, Lost}]
    <3>1. q[c] = c
      BY <1>23 DEF Answer, OwnInv
    <3>2. \A r \in Resolved(c) : r \in Responses
      BY OwnResponse
    <3>3. got' = got \/ \E r \in Responses \cup {Lost} : got' = [got EXCEPT ![c] = r]
      BY <1>23, <3>1, <3>2 DEF Answer
    <3> QED
      BY <3>3
  <2>5. /\ UNCHANGED <<done, listening, buf, size, mainVars>>
        /\ events' \in 0..MaxEvents
    BY <1>23 DEF Doh, Answer, Event
  <2> QED
    BY <2>2, <2>3, <2>4, <2>5
<1>24. ASSUME NEW c \in Queries, Doh, Expire(c) PROVE TypeOK'
  BY <1>24 DEF Doh, Expire
<1>25. ASSUME NEW c \in Queries, NEW a \in Addrs, NEW s \in Sizes[c], Doh, Ask(c, a, s)
       PROVE  TypeOK'
  <2>1. s \in Complete \cup {"broken"}
    BY DEF Queries, Complete
  <2>2. events' \in 0..MaxEvents
    BY <1>25 DEF Ask, Event
  <2>3. /\ at' \in [Queries -> {"none", "socket", "read", "resolve", "over"}]
        /\ to' \in [Queries -> Addrs]
        /\ size' \in [Queries -> Complete \cup {"broken"}]
    BY <1>25, <2>1 DEF Ask
  <2>4. UNCHANGED <<done, listening, buf, q, late, got, mainVars>>
    BY <1>25 DEF Doh, Ask
  <2> QED
    BY <2>2, <2>3, <2>4
<1>26. CASE UNCHANGED vars
  BY <1>26 DEF vars
<1> QED
  BY <1>1, <1>2, <1>3, <1>4, <1>5, <1>6, <1>7, <1>8, <1>9, <1>10, <1>11, <1>12, <1>13, <1>14,
     <1>15, <1>16, <1>17, <1>18, <1>19, <1>20, <1>21, <1>22, <1>23, <1>24, <1>25, <1>26
  DEF Next, MainStep, Listening, Working, Serving, Answering

\* run() and ListenAndServe go on in order.
LEMMA RunStep == TypeOK /\ RunInv /\ [Next]_vars => RunInv'
<1> SUFFICES ASSUME TypeOK, RunInv, [Next]_vars PROVE RunInv'
  OBVIOUS
<1> USE DohAssumption DEF TypeOK, DohTypeOK, RunInv, Addrs, vars, mainVars, dohVars, listening,
   asking
<1>1. CASE LoadConfig
  BY <1>1 DEF LoadConfig
<1>2. CASE Boot
  BY <1>2 DEF Boot
<1>3. CASE StartServices
  BY <1>3 DEF StartServices
<1>4. CASE MainSelect
  BY <1>4 DEF MainSelect
<1>5. CASE ShutDown
  BY <1>5 DEF ShutDown
<1>6. CASE WaitDone
  BY <1>6 DEF WaitDone, Exit
<1>7. CASE WaitTimeout
  BY <1>7 DEF WaitTimeout, Exit
<1>8. CASE Cancel
  BY <1>8 DEF Cancel
<1>9. ASSUME NEW s \in Services, Fail(s) PROVE RunInv'
  BY <1>9 DEF Fail, Event
<1>10. ASSUME NEW s \in Services, Send(s) PROVE RunInv'
  BY <1>10 DEF Send
<1>11. ASSUME NEW s \in Services, ServiceEnds(s) PROVE RunInv'
  BY <1>11 DEF ServiceEnds
<1>12. ASSUME NEW s \in Services, Hang(s) PROVE RunInv'
  BY <1>12 DEF Hang, Event
<1>13. CASE DohDone
  BY <1>13 DEF DohDone
<1>14. ASSUME Doh, InitHTTP PROVE RunInv'
  BY <1>14 DEF Doh, InitHTTP, Return, Event
<1>15. ASSUME Doh, BindUDP PROVE RunInv'
  BY <1>15 DEF Doh, BindUDP, AfterAddr, Return, Event
<1>16. ASSUME Doh, BindTCP PROVE RunInv'
  BY <1>16 DEF Doh, BindTCP, AfterAddr, Return, Event, Drop
<1>17. ASSUME Doh, WaitReturn PROVE RunInv'
  BY <1>17 DEF Doh, WaitReturn, Return
<1>18. ASSUME NEW a \in Addrs, Doh, CloseSockets(a) PROVE RunInv'
  BY <1>18 DEF Doh, CloseSockets, Drop
<1>19. ASSUME NEW a \in Addrs, Doh, LoopsEnd(a) PROVE RunInv'
  BY <1>19 DEF Doh, LoopsEnd
<1>20. ASSUME NEW c \in Queries, Doh, ServeUDP(c) PROVE RunInv'
  BY <1>20 DEF Doh, ServeUDP
<1>21. ASSUME NEW c \in Queries, Doh, ServeTCP(c) PROVE RunInv'
  BY <1>21 DEF Doh, ServeTCP
<1>22. ASSUME NEW c \in Queries, Doh, ReadTCP(c) PROVE RunInv'
  BY <1>22 DEF Doh, ReadTCP, Ended
<1>23. ASSUME NEW c \in Queries, Doh, Answer(c) PROVE RunInv'
  BY <1>23 DEF Doh, Answer, Ended
<1>24. ASSUME NEW c \in Queries, Doh, Expire(c) PROVE RunInv'
  BY <1>24 DEF Doh, Expire
<1>25. ASSUME NEW c \in Queries, NEW a \in Addrs, NEW s \in Sizes[c], Doh, Ask(c, a, s)
       PROVE  RunInv'
  BY <1>25 DEF Doh, Ask, Event
<1>26. CASE UNCHANGED vars
  BY <1>26 DEF vars
<1> QED
  BY <1>1, <1>2, <1>3, <1>4, <1>5, <1>6, <1>7, <1>8, <1>9, <1>10, <1>11, <1>12, <1>13, <1>14,
     <1>15, <1>16, <1>17, <1>18, <1>19, <1>20, <1>21, <1>22, <1>23, <1>24, <1>25, <1>26
  DEF Next, MainStep, Listening, Working, Serving, Answering

\* A failure to bind one socket takes the other with it.
LEMMA BindStep == TypeOK /\ RunInv /\ BindInv /\ [Next]_vars => BindInv'
<1> SUFFICES ASSUME TypeOK, RunInv, BindInv, [Next]_vars PROVE BindInv'
  OBVIOUS
<1> USE DohAssumption DEF TypeOK, DohTypeOK, RunInv, BindInv, Addrs, vars, mainVars, dohVars,
   listening, asking
<1>1. CASE LoadConfig
  BY <1>1 DEF LoadConfig
<1>2. CASE Boot
  BY <1>2 DEF Boot
<1>3. CASE StartServices
  BY <1>3 DEF StartServices
<1>4. CASE MainSelect
  BY <1>4 DEF MainSelect
<1>5. CASE ShutDown
  BY <1>5 DEF ShutDown
<1>6. CASE WaitDone
  BY <1>6 DEF WaitDone, Exit
<1>7. CASE WaitTimeout
  BY <1>7 DEF WaitTimeout, Exit
<1>8. CASE Cancel
  BY <1>8 DEF Cancel
<1>9. ASSUME NEW s \in Services, Fail(s) PROVE BindInv'
  BY <1>9 DEF Fail, Event
<1>10. ASSUME NEW s \in Services, Send(s) PROVE BindInv'
  BY <1>10 DEF Send
<1>11. ASSUME NEW s \in Services, ServiceEnds(s) PROVE BindInv'
  BY <1>11 DEF ServiceEnds
<1>12. ASSUME NEW s \in Services, Hang(s) PROVE BindInv'
  BY <1>12 DEF Hang, Event
<1>13. CASE DohDone
  BY <1>13 DEF DohDone
<1>14. ASSUME Doh, InitHTTP PROVE BindInv'
  BY <1>14 DEF Doh, InitHTTP, Return, Event
<1>15. ASSUME Doh, BindUDP PROVE BindInv'
  <2> SUFFICES ASSUME ~done PROVE BindInv'
    BY <1>15 DEF BindUDP
  <2>1. cur \in 1..NListen /\ loops' = loops /\ done' = done
    BY <1>15 DEF BindUDP
  <2>2. CASE sock' = [sock EXCEPT ![cur] = {"udp"}] /\ doh' = "tcp" /\ cur' = cur
    BY <2>1, <2>2
  <2>3. CASE sock' = sock /\ doh' # "tcp" /\ cur' = cur + 1
    BY <1>15, <2>1, <2>3 DEF BindUDP
  <2>4. CASE sock' = sock /\ doh' # "tcp" /\ cur' = cur
    BY <1>15, <2>1, <2>4 DEF BindUDP
  <2> QED
    BY <1>15, <2>2, <2>3, <2>4 DEF BindUDP, AfterAddr, Return
<1>16. ASSUME Doh, BindTCP PROVE BindInv'
  <2> SUFFICES ASSUME ~done PROVE BindInv'
    BY <1>16 DEF BindTCP
  <2>1. cur \in 1..NListen /\ done' = done /\ doh' # "tcp"
    BY <1>16 DEF BindTCP, AfterAddr, Return
  <2>2. CASE /\ sock' = [sock EXCEPT ![cur] = {"udp", "tcp"}]
             /\ loops' = [loops EXCEPT ![cur] = "run"] /\ cur' = cur + 1
    BY <2>1, <2>2
  <2>3. CASE sock' = [sock EXCEPT ![cur] = {}] /\ loops' = loops /\ cur' = cur + 1
    BY <2>1, <2>3
  <2>4. CASE sock' = [sock EXCEPT ![cur] = {}] /\ loops' = loops /\ cur' = cur
    BY <2>1, <2>4
  <2> QED
    BY <1>16, <2>2, <2>3, <2>4 DEF BindTCP, AfterAddr
<1>17. ASSUME Doh, WaitReturn PROVE BindInv'
  BY <1>17 DEF Doh, WaitReturn, Return
<1>18. ASSUME NEW a \in Addrs, Doh, CloseSockets(a) PROVE BindInv'
  BY <1>18 DEF Doh, CloseSockets, Drop
<1>19. ASSUME NEW a \in Addrs, Doh, LoopsEnd(a) PROVE BindInv'
  BY <1>19 DEF Doh, LoopsEnd
<1>20. ASSUME NEW c \in Queries, Doh, ServeUDP(c) PROVE BindInv'
  BY <1>20 DEF Doh, ServeUDP
<1>21. ASSUME NEW c \in Queries, Doh, ServeTCP(c) PROVE BindInv'
  BY <1>21 DEF Doh, ServeTCP
<1>22. ASSUME NEW c \in Queries, Doh, ReadTCP(c) PROVE BindInv'
  BY <1>22 DEF Doh, ReadTCP, Ended
<1>23. ASSUME NEW c \in Queries, Doh, Answer(c) PROVE BindInv'
  BY <1>23 DEF Doh, Answer, Ended
<1>24. ASSUME NEW c \in Queries, Doh, Expire(c) PROVE BindInv'
  BY <1>24 DEF Doh, Expire
<1>25. ASSUME NEW c \in Queries, NEW a \in Addrs, NEW s \in Sizes[c], Doh, Ask(c, a, s)
       PROVE  BindInv'
  BY <1>25 DEF Doh, Ask, Event
<1>26. CASE UNCHANGED vars
  BY <1>26 DEF vars
<1> QED
  BY <1>1, <1>2, <1>3, <1>4, <1>5, <1>6, <1>7, <1>8, <1>9, <1>10, <1>11, <1>12, <1>13, <1>14,
     <1>15, <1>16, <1>17, <1>18, <1>19, <1>20, <1>21, <1>22, <1>23, <1>24, <1>25, <1>26
  DEF Next, MainStep, Listening, Working, Serving, Answering

\* A query is answered from its own copy.
LEMMA OwnStep == TypeOK /\ OwnInv /\ [Next]_vars => OwnInv'
<1> SUFFICES ASSUME TypeOK, OwnInv, [Next]_vars PROVE OwnInv'
  OBVIOUS
<1> USE DohAssumption DEF TypeOK, DohTypeOK, OwnInv, Own, vars, mainVars, dohVars, listening,
   asking
<1>1. CASE LoadConfig
  BY <1>1 DEF LoadConfig
<1>2. CASE Boot
  BY <1>2 DEF Boot
<1>3. CASE StartServices
  BY <1>3 DEF StartServices
<1>4. CASE MainSelect
  BY <1>4 DEF MainSelect
<1>5. CASE ShutDown
  BY <1>5 DEF ShutDown
<1>6. CASE WaitDone
  BY <1>6 DEF WaitDone, Exit
<1>7. CASE WaitTimeout
  BY <1>7 DEF WaitTimeout, Exit
<1>8. CASE Cancel
  BY <1>8 DEF Cancel
<1>9. ASSUME NEW s \in Services, Fail(s) PROVE OwnInv'
  BY <1>9 DEF Fail, Event
<1>10. ASSUME NEW s \in Services, Send(s) PROVE OwnInv'
  BY <1>10 DEF Send
<1>11. ASSUME NEW s \in Services, ServiceEnds(s) PROVE OwnInv'
  BY <1>11 DEF ServiceEnds
<1>12. ASSUME NEW s \in Services, Hang(s) PROVE OwnInv'
  BY <1>12 DEF Hang, Event
<1>13. CASE DohDone
  BY <1>13 DEF DohDone
<1>14. ASSUME Doh, InitHTTP PROVE OwnInv'
  BY <1>14 DEF Doh, InitHTTP, Return, Event
<1>15. ASSUME Doh, BindUDP PROVE OwnInv'
  BY <1>15 DEF Doh, BindUDP, AfterAddr, Return, Event
<1>16. ASSUME Doh, BindTCP PROVE OwnInv'
  BY <1>16 DEF Doh, BindTCP, AfterAddr, Return, Event, Drop
<1>17. ASSUME Doh, WaitReturn PROVE OwnInv'
  BY <1>17 DEF Doh, WaitReturn, Return
<1>18. ASSUME NEW a \in Addrs, Doh, CloseSockets(a) PROVE OwnInv'
  BY <1>18 DEF Doh, CloseSockets, Drop
<1>19. ASSUME NEW a \in Addrs, Doh, LoopsEnd(a) PROVE OwnInv'
  BY <1>19 DEF Doh, LoopsEnd
<1>20. ASSUME NEW c \in Queries, Doh, ServeUDP(c) PROVE OwnInv'
  BY <1>20 DEF Doh, ServeUDP
<1>21. ASSUME NEW c \in Queries, Doh, ServeTCP(c) PROVE OwnInv'
  BY <1>21 DEF Doh, ServeTCP
<1>22. ASSUME NEW c \in Queries, Doh, ReadTCP(c) PROVE OwnInv'
  BY <1>22 DEF Doh, ReadTCP, Ended
<1>23. ASSUME NEW c \in Queries, Doh, Answer(c) PROVE OwnInv'
  <2>1. q[c] = c
    BY <1>23 DEF Answer
  <2>2. \A r \in Resolved(c) : Own(c, r)
    BY OwnResponse
  <2>3. /\ size' = size /\ at' = [at EXCEPT ![c] = "over"]
        /\ q' = [q EXCEPT ![c] = None]
    BY <1>23 DEF Answer, Ended
  <2>4. CASE got' = got
    BY <2>3, <2>4
  <2>5. CASE \E r \in Resolved(c) : got' = [got EXCEPT ![c] = r]
    BY <2>2, <2>3, <2>5
  <2>6. CASE got' = [got EXCEPT ![c] = Lost]
    <3>1. Own(c, Lost)
      BY DEF Own, Lost
    <3> QED
      BY <2>3, <2>6, <3>1
  <2> QED
    BY <1>23, <2>1, <2>4, <2>5, <2>6 DEF Answer
<1>24. ASSUME NEW c \in Queries, Doh, Expire(c) PROVE OwnInv'
  BY <1>24 DEF Doh, Expire
<1>25. ASSUME NEW c \in Queries, NEW a \in Addrs, NEW s \in Sizes[c], Doh, Ask(c, a, s)
       PROVE  OwnInv'
  BY <1>25 DEF Doh, Ask, Event
<1>26. CASE UNCHANGED vars
  BY <1>26 DEF vars
<1> QED
  BY <1>1, <1>2, <1>3, <1>4, <1>5, <1>6, <1>7, <1>8, <1>9, <1>10, <1>11, <1>12, <1>13, <1>14,
     <1>15, <1>16, <1>17, <1>18, <1>19, <1>20, <1>21, <1>22, <1>23, <1>24, <1>25, <1>26
  DEF Next, MainStep, Listening, Working, Serving, Answering

\* One more element.
LEMMA AddOne ==
    ASSUME NEW S, NEW x, NEW n \in Nat, NEW m \in Nat, m = n + 1,
           IsFiniteSet(S), Cardinality(S) <= n
    PROVE  IsFiniteSet(S \cup {x}) /\ Cardinality(S \cup {x}) <= m
<1>1. /\ IsFiniteSet(S \cup {x})
      /\ Cardinality(S \cup {x}) = IF x \in S THEN Cardinality(S) ELSE Cardinality(S) + 1
  BY FS_AddElement, Zenon
<1>2. Cardinality(S) \in Nat
  BY FS_CardinalityType, Zenon
<1> QED
  BY <1>1, <1>2

\* main's wait group has at most six goroutines.
LEMMA ServicesFinite == IsFiniteSet(Services) /\ Cardinality(Services) <= 6
<1> DEFINE S1 == {"health"}
           S2 == S1 \cup {"supervisor"}
           S3 == S2 \cup {"socks"}
           S4 == S3 \cup {"transparent"}
           S5 == S4 \cup {"loop"}
           S6 == S5 \cup {"doh"}
<1> HIDE DEF S1, S2, S3, S4, S5, S6
<1>1. IsFiniteSet(S1) /\ Cardinality(S1) <= 1
  <2>1. IsFiniteSet(S1) /\ Cardinality(S1) = 1
    BY FS_Singleton, Zenon DEF S1
  <2> QED
    BY <2>1
<1>2. IsFiniteSet(S2) /\ Cardinality(S2) <= 2
  BY <1>1, AddOne, 1 \in Nat, 2 \in Nat, 2 = 1 + 1, Zenon DEF S2
<1>3. IsFiniteSet(S3) /\ Cardinality(S3) <= 3
  BY <1>2, AddOne, 2 \in Nat, 3 \in Nat, 3 = 2 + 1, Zenon DEF S3
<1>4. IsFiniteSet(S4) /\ Cardinality(S4) <= 4
  BY <1>3, AddOne, 3 \in Nat, 4 \in Nat, 4 = 3 + 1, Zenon DEF S4
<1>5. IsFiniteSet(S5) /\ Cardinality(S5) <= 5
  BY <1>4, AddOne, 4 \in Nat, 5 \in Nat, 5 = 4 + 1, Zenon DEF S5
<1>6. IsFiniteSet(S6) /\ Cardinality(S6) <= 6
  BY <1>5, AddOne, 5 \in Nat, 6 \in Nat, 6 = 5 + 1, Zenon DEF S6
<1>7. Services \in SUBSET S6
  BY ProcessAssumption DEF S6, S5, S4, S3, S2, S1
<1> QED
  BY <1>6, <1>7, FS_Subset, FS_CardinalityType

\* The goroutines that have ended, or not, can be counted.
LEMMA CountOver ==
    /\ IsFiniteSet(Over) /\ Cardinality(Over) \in Nat
    /\ IsFiniteSet(Over') /\ Cardinality(Over') \in Nat
  BY ServicesFinite, FS_Subset, FS_CardinalityType DEF Over

\* A step that leaves svc and errs alone keeps ErrInv, unless run() goes back.
LEMMA ErrStutters ==
    ASSUME ErrInv, UNCHANGED <<svc, errs>>,
           phase' \in {"load", "boot", "start"} => phase \in {"load", "boot", "start"}
    PROVE  ErrInv'
  BY DEF ErrInv, Over

\* Only a goroutine that ends sends to errCh.
LEMMA ErrStep == TypeOK /\ ErrInv /\ [Next]_vars => ErrInv'
<1> SUFFICES ASSUME TypeOK, ErrInv, [Next]_vars PROVE ErrInv'
  OBVIOUS
<1> USE DEF vars, mainVars, dohVars, listening, asking
<1>1. CASE LoadConfig
  BY <1>1, ErrStutters DEF LoadConfig
<1>2. CASE Boot
  BY <1>2, ErrStutters DEF Boot
<1>3. CASE StartServices
  <2>1. errs' = 0 /\ phase' = "run"
    BY <1>3 DEF StartServices, ErrInv
  <2>2. Cardinality(Over') \in Nat
    BY CountOver DEF TypeOK
  <2> QED
    BY <2>1, <2>2 DEF ErrInv
<1>4. CASE MainSelect
  <2>1. errs' \in {errs, errs - 1} /\ phase' = "shutdown" /\ Over' = Over
    BY <1>4 DEF MainSelect, Over
  <2> QED
    BY <2>1, CountOver DEF ErrInv, TypeOK, ErrCap
<1>5. CASE ShutDown
  BY <1>5, ErrStutters DEF ShutDown
<1>6. CASE WaitDone
  BY <1>6, ErrStutters DEF WaitDone, Exit
<1>7. CASE WaitTimeout
  BY <1>7, ErrStutters DEF WaitTimeout, Exit
<1>8. CASE Cancel
  BY <1>8, ErrStutters DEF Cancel
<1>9. ASSUME NEW s \in Services, Fail(s) PROVE ErrInv'
  <2>1. errs' = errs /\ phase' = phase
    BY <1>9 DEF Fail
  <2>2. Over' = Over
    BY <1>9 DEF Fail, Over, TypeOK
  <2>3. phase \notin {"load", "boot", "start"}
    BY <1>9 DEF Fail, ErrInv
  <2> QED
    BY <2>1, <2>2, <2>3 DEF ErrInv
<1>10. ASSUME NEW s \in Services, Send(s) PROVE ErrInv'
  <2>1. errs' = errs + 1 /\ phase' = phase
    BY <1>10 DEF Send
  <2>2. Over' = Over \cup {s} /\ s \notin Over
    BY <1>10 DEF Send, Over, TypeOK
  <2>3. phase \notin {"load", "boot", "start"}
    BY <1>10 DEF Send, ErrInv
  <2> QED
    BY <2>1, <2>2, <2>3, CountOver, FS_AddElement DEF ErrInv, TypeOK, ErrCap
<1>11. ASSUME NEW s \in Services, ServiceEnds(s) PROVE ErrInv'
  <2>1. errs' = errs /\ phase' = phase
    BY <1>11 DEF ServiceEnds
  <2>2. Over' = Over \cup {s}
    BY <1>11 DEF ServiceEnds, Over, TypeOK
  <2>3. phase \notin {"load", "boot", "start"}
    BY <1>11 DEF ServiceEnds, ErrInv
  <2> QED
    BY <2>1, <2>2, <2>3, CountOver, FS_AddElement DEF ErrInv, TypeOK, ErrCap
<1>12. ASSUME NEW s \in Services, Hang(s) PROVE ErrInv'
  BY <1>12, ErrStutters DEF Hang, Event
<1>13. CASE DohDone
  <2>1. errs' = errs /\ phase' = phase
    BY <1>13 DEF DohDone
  <2>2. Over' = Over \/ Over' = Over \cup {"doh"}
    BY <1>13, ProcessAssumption DEF DohDone, Over, TypeOK
  <2>3. phase \notin {"load", "boot", "start"}
    BY <1>13, ProcessAssumption DEF DohDone, ErrInv
  <2> QED
    BY <2>1, <2>2, <2>3, CountOver, FS_AddElement DEF ErrInv, TypeOK, ErrCap
<1>14. ASSUME Doh, InitHTTP PROVE ErrInv'
  BY <1>14, ErrStutters DEF Doh, InitHTTP, Return, Event
<1>15. ASSUME Doh, BindUDP PROVE ErrInv'
  BY <1>15, ErrStutters DEF Doh, BindUDP, AfterAddr, Return, Event
<1>16. ASSUME Doh, BindTCP PROVE ErrInv'
  BY <1>16, ErrStutters DEF Doh, BindTCP, AfterAddr, Return, Event, Drop
<1>17. ASSUME Doh, WaitReturn PROVE ErrInv'
  BY <1>17, ErrStutters DEF Doh, WaitReturn, Return
<1>18. ASSUME NEW a \in Addrs, Doh, CloseSockets(a) PROVE ErrInv'
  BY <1>18, ErrStutters DEF Doh, CloseSockets, Drop
<1>19. ASSUME NEW a \in Addrs, Doh, LoopsEnd(a) PROVE ErrInv'
  BY <1>19, ErrStutters DEF Doh, LoopsEnd
<1>20. ASSUME NEW c \in Queries, Doh, ServeUDP(c) PROVE ErrInv'
  BY <1>20, ErrStutters DEF Doh, ServeUDP
<1>21. ASSUME NEW c \in Queries, Doh, ServeTCP(c) PROVE ErrInv'
  BY <1>21, ErrStutters DEF Doh, ServeTCP
<1>22. ASSUME NEW c \in Queries, Doh, ReadTCP(c) PROVE ErrInv'
  BY <1>22, ErrStutters DEF Doh, ReadTCP, Ended
<1>23. ASSUME NEW c \in Queries, Doh, Answer(c) PROVE ErrInv'
  BY <1>23, ErrStutters DEF Doh, Answer, Ended
<1>24. ASSUME NEW c \in Queries, Doh, Expire(c) PROVE ErrInv'
  BY <1>24, ErrStutters DEF Doh, Expire
<1>25. ASSUME NEW c \in Queries, NEW a \in Addrs, NEW s \in Sizes[c], Doh, Ask(c, a, s)
       PROVE  ErrInv'
  BY <1>25, ErrStutters DEF Doh, Ask, Event
<1>26. CASE UNCHANGED vars
  BY <1>26, ErrStutters DEF vars
<1> QED
  BY <1>1, <1>2, <1>3, <1>4, <1>5, <1>6, <1>7, <1>8, <1>9, <1>10, <1>11, <1>12, <1>13, <1>14,
     <1>15, <1>16, <1>17, <1>18, <1>19, <1>20, <1>21, <1>22, <1>23, <1>24, <1>25, <1>26
  DEF Next, MainStep, Listening, Working, Serving, Answering

-----------------------------------------------------------------------------
\* run() starts with nothing bound and nothing asked.
LEMMA InitInv == Init => IInv
<1> SUFFICES ASSUME Init PROVE IInv
  OBVIOUS
<1> USE ProcessAssumption, DohAssumption DEF Init, DohInit
<1>1. 1 \in Addrs
  BY DEF Addrs
<1>2. DohTypeOK
  <2>1. events \in 0..MaxEvents /\ cur \in 1..(NListen + 1) /\ bound \in 0..NListen
    OBVIOUS
  <2>2. /\ done \in BOOLEAN /\ failed \in BOOLEAN
        /\ late \in [Queries -> BOOLEAN]
    OBVIOUS
  <2>3. /\ sock \in [Addrs -> SUBSET {"udp", "tcp"}]
        /\ loops \in [Addrs -> {"none", "run", "closed", "ended"}]
        /\ buf \in [Addrs -> Datagrams \cup {None}]
    OBVIOUS
  <2>4. /\ to \in [Queries -> Addrs] /\ size \in [Queries -> Complete \cup {"broken"}]
        /\ at \in [Queries -> {"none", "socket", "read", "resolve", "over"}]
        /\ q \in [Queries -> Queries \cup {None}]
        /\ got \in [Queries -> Responses \cup {Nothing}]
    BY <1>1 DEF Complete
  <2> QED
    BY <2>1, <2>2, <2>3, <2>4 DEF DohTypeOK
<1>3. TypeOK
  BY <1>2 DEF TypeOK, Phases, ErrCap
<1>4. RunInv /\ BindInv /\ OwnInv
  BY DEF RunInv, BindInv, OwnInv, Addrs
<1>5. ErrInv
  BY CountOver DEF ErrInv
<1> QED
  BY <1>3, <1>4, <1>5 DEF IInv

\* The invariant, for every behaviour.
LEMMA Invariance == Spec => []IInv
<1>1. IInv /\ [Next]_vars => IInv'
  BY TypeStep, RunStep, BindStep, OwnStep, ErrStep DEF IInv
<1> QED
  BY InitInv, <1>1, PTL DEF Spec

\* The state of run() and of the DNS stub is well typed.
THEOREM TypeCorrect == Spec => []TypeOK
<1>1. IInv => TypeOK
  BY DEF IInv
<1> QED
  BY Invariance, <1>1, PTL

\* A client of the DNS stub is only ever sent a response to its own query.
THEOREM ClientsGetTheirOwn == Spec => []OwnAnswer
<1>1. IInv => OwnAnswer
  BY DEF IInv, OwnInv, Own, OwnAnswer
<1> QED
  BY Invariance, <1>1, PTL

\* Until shutdown a listen address has both its sockets and its goroutines, or
\* nothing, whatever binds fail.
THEOREM AddressesAreServed == Spec => []ServedOnBoth
<1>1. IInv => ServedOnBoth
  <2> SUFFICES ASSUME IInv, ~done, NEW a \in Addrs
               PROVE  \/ sock[a] = {"udp", "tcp"} /\ loops[a] = "run"
                      \/ sock[a] = {} /\ loops[a] = "none"
                      \/ doh = "tcp" /\ cur = a
    BY DEF ServedOnBoth
  <2>1. a < cur \/ a = cur \/ a > cur
    BY DohAssumption DEF IInv, TypeOK, DohTypeOK, Addrs
  <2> QED
    BY <2>1 DEF IInv, BindInv
<1> QED
  BY Invariance, <1>1, PTL

\* The buffer of errCh takes the error of every goroutine.
THEOREM ErrorsNeverBlock == Spec => []SendNeverBlocks
<1>1. IInv => SendNeverBlocks
  <2> SUFFICES ASSUME IInv, NEW s \in Services, svc[s] = "send" PROVE errs < ErrCap
    BY DEF SendNeverBlocks
  <2>1. Over \in SUBSET Services
    BY DEF Over
  <2>2. Cardinality(Over) <= Cardinality(Services)
    BY <2>1, ServicesFinite, FS_Subset
  <2> QED
    BY <2>2, CountOver, ServicesFinite, FS_CardinalityType DEF IInv, ErrInv, TypeOK, ErrCap
<1> QED
  BY Invariance, <1>1, PTL
=============================================================================
