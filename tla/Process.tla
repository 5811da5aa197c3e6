------------------------------- MODULE Process -------------------------------
(***************************************************************************)
(* run() of cmd/outline-gate/main.go: startup, the goroutines it starts,   *)
(* errCh, and the shutdown; the DNS stub is one of these goroutines and is *)
(* modelled in full (DohServer), the others by how they end.               *)
(*                                                                         *)
(* "loop" stands for the goroutines that end with ctx and report nothing:  *)
(* the two DNS refresh loops, the applier and the SIGHUP handler.          *)
(***************************************************************************)
EXTENDS DohServer

CONSTANTS
    Services        \* goroutines of main's wait group

ASSUME ProcessAssumption ==
    /\ Services \subseteq {"health", "supervisor", "socks", "transparent", "loop", "doh"}
    /\ "doh" \in Services

VARIABLES
    phase,          \* where run() is
    svc,            \* where each goroutine is
    errs,           \* errors in errCh
    hung            \* proxies with a relay that does not end

mainVars == <<phase, svc, errs, hung>>
vars == <<done, dohVars, mainVars>>

\* make(chan error, 8)
ErrCap == 8

Phases == {"load", "boot", "start", "run", "shutdown", "wait", "exited"}

\* Types.
TypeOK ==
    /\ DohTypeOK
    /\ phase \in Phases
    /\ svc \in [Services -> {"off", "run", "send", "ended"}]
    /\ errs \in 0..ErrCap
    /\ hung \in SUBSET Services

Init ==
    /\ DohInit
    /\ done = FALSE
    /\ phase = "load"
    /\ svc = [s \in Services |-> "off"]
    /\ errs = 0 /\ hung = {}

-----------------------------------------------------------------------------
(***************************************************************************)
(* The main goroutine.                                                     *)
(***************************************************************************)
\* config.Load, then ctx from signal.NotifyContext, then outline.New; an error
\* of Load or of New is returned, and the process ends.
LoadConfig ==
    /\ phase = "load"
    /\ phase' \in {"boot", "exited"}
    /\ UNCHANGED <<done, dohVars, svc, errs, hung>>

\* What an earlier process left is flushed, the first Connect made, the AmneziaWG
\* file read, the rules loaded and the persisted backend switched to: each of it
\* takes at most a time given in the code, and a failure is only logged.  ctx may
\* be cancelled meanwhile, and nobody looks at it before the select.
Boot ==
    /\ phase = "boot"
    /\ phase' = "start"
    /\ UNCHANGED <<done, dohVars, svc, errs, hung>>

\* Every goroutine is started, the web server among them.
StartServices ==
    /\ phase = "start"
    /\ phase' = "run"
    /\ svc' = [s \in Services |-> "run"]
    /\ doh' = "init"
    /\ UNCHANGED <<done, cur, bound, failed, sock, loops, asking, events, errs, hung>>

\* SIGTERM or SIGINT, or "restart container" of the web UI; before NotifyContext
\* a signal ends the process.
Cancel ==
    /\ phase # "exited" /\ ~done
    /\ IF phase = "load" THEN phase' = "exited" /\ UNCHANGED done
                         ELSE done' = TRUE /\ UNCHANGED phase
    /\ UNCHANGED <<dohVars, svc, errs, hung>>

\* Mutation of MainSelect: errCh is not received from.
SelectContext ==
    /\ phase = "run" /\ done
    /\ phase' = "shutdown"
    /\ UNCHANGED <<done, dohVars, svc, errs, hung>>

\* The select: ctx is done, or an error is received and cancels it.
MainSelect ==
    /\ phase = "run"
    /\ \/ done /\ UNCHANGED errs
       \/ errs > 0 /\ errs' = errs - 1
    /\ done' = TRUE
    /\ phase' = "shutdown"
    /\ UNCHANGED <<dohVars, svc, hung>>

\* httpSrv.Shutdown returns, for its requests are over or five seconds are; then
\* Flush (Gateway.tla), socks.Close, Down (TunnelSwitch.tla) and cancel.
ShutDown ==
    /\ phase = "shutdown"
    /\ phase' = "wait"
    /\ UNCHANGED <<done, dohVars, svc, errs, hung>>

\* The process ends: its sockets are closed and its goroutines gone.
Exit ==
    /\ phase' = "exited"
    /\ sock' = [a \in Addrs |-> {}]
    /\ at' = [c \in Queries |-> IF at[c] = "none" THEN "none" ELSE "over"]
    /\ UNCHANGED <<done, doh, cur, bound, failed, loops, buf, to, size, q, late, got, events, svc,
                   errs, hung>>

\* wg.Wait is over ...
WaitDone ==
    /\ phase = "wait" /\ \A s \in Services : svc[s] = "ended"
    /\ Exit

\* ... or ten seconds have passed.
WaitTimeout == phase = "wait" /\ Exit

-----------------------------------------------------------------------------
(***************************************************************************)
(* The other goroutines.                                                   *)
(***************************************************************************)
Alive == phase # "exited"

\* A listener cannot be bound or fails, or the supervisor panics.  A proxy that
\* cannot accept any more reports it when its last relay has ended.
Fail(s) ==
    /\ Alive /\ svc[s] = "run" /\ s \notin {"loop", "doh"}
    /\ s = "health" => phase = "run"
    /\ s \notin hung
    /\ svc' = [svc EXCEPT ![s] = "send"]
    /\ Event
    /\ UNCHANGED <<done, listening, asking, phase, errs, hung>>

\* ListenAndServe of the DNS stub has returned.
DohDone ==
    /\ Alive /\ svc["doh"] = "run" /\ doh = "returned"
    /\ svc' = [svc EXCEPT !["doh"] = IF failed THEN "send" ELSE "ended"]
    /\ UNCHANGED <<done, dohVars, phase, errs, hung>>

\* Mutation of Send: errCh is unbuffered, and only main's select receives.
SendToSelect(s) ==
    /\ svc[s] = "send" /\ phase = "run" /\ errs = 0
    /\ errs' = errs + 1
    /\ svc' = [svc EXCEPT ![s] = "ended"]
    /\ UNCHANGED <<done, dohVars, phase, hung>>

\* errCh <- err, and the goroutine ends.
Send(s) ==
    /\ Alive /\ svc[s] = "send" /\ errs < ErrCap
    /\ errs' = errs + 1
    /\ svc' = [svc EXCEPT ![s] = "ended"]
    /\ UNCHANGED <<done, dohVars, phase, hung>>

\* A goroutine ends with ctx, the web server with Shutdown; a proxy waits for its
\* relays first (ProxyServer.tla).
ServiceEnds(s) ==
    /\ Alive /\ svc[s] = "run" /\ s # "doh" /\ s \notin hung
    /\ IF s = "health" THEN phase \in {"shutdown", "wait"} ELSE done
    /\ svc' = [svc EXCEPT ![s] = "ended"]
    /\ UNCHANGED <<done, dohVars, phase, errs, hung>>

\* A proxied connection of which neither end ever closes.
Hang(s) ==
    /\ Alive /\ s \in {"socks", "transparent"} \ hung /\ svc[s] = "run"
    /\ hung' = hung \cup {s}
    /\ Event
    /\ UNCHANGED <<done, listening, asking, phase, svc, errs>>

MainStep == LoadConfig \/ Boot \/ StartServices \/ MainSelect \/ ShutDown \/ WaitDone
Doh == Alive /\ UNCHANGED mainVars

Next ==
    \/ MainStep \/ WaitTimeout \/ Cancel
    \/ \E s \in Services : Fail(s) \/ Send(s) \/ ServiceEnds(s) \/ Hang(s)
    \/ DohDone
    \/ Doh /\ Listening
    \/ \E a \in Addrs : Doh /\ Working(a)
    \/ \E c \in Queries : Doh /\ (Serving(c) \/ Answering(c) \/ Expire(c))
    \/ \E c \in Queries, a \in Addrs : \E s \in Sizes[c] : Doh /\ Ask(c, a, s)

Spec == Init /\ [][Next]_vars

\* Goroutines run, binds and writes return; what waits for the network waits with
\* a timeout, and the deadline of a connection is a timer.  No fairness is
\* assumed of the ten seconds of the shutdown, which CleanStop does without.
Fairness ==
    /\ WF_vars(MainStep) /\ WF_vars(DohDone)
    /\ \A s \in Services : WF_vars(Send(s)) /\ WF_vars(ServiceEnds(s))
    /\ WF_vars(Doh /\ Listening)
    /\ \A a \in Addrs : WF_vars(Doh /\ Working(a))
    /\ \A c \in Queries :
         WF_vars(Doh /\ Serving(c)) /\ WF_vars(Doh /\ Answering(c)) /\ WF_vars(Doh /\ Expire(c))

FairSpec == Spec /\ Fairness

-----------------------------------------------------------------------------
\* "RFC 8484 stub" (server.go:1): a client is only ever sent a response to its own
\* query: the datagram behind it in the loop's buffer, or the query of another
\* client, never is answered in its place, and a message that is no query gets
\* SERVFAIL.
OwnAnswer ==
    \A c \in Queries : got[c] # Nothing =>
        /\ got[c].kind = "answer" => got[c].id = c /\ size[c] = "full"
        /\ got[c].kind = "servfail" => got[c].id = (IF size[c] = "runt" THEN None ELSE c)

\* "ListenAndServe binds UDP and TCP on each Listen address until ctx is done"
\* (server.go:44): a skipped address, or one at which ListenAndServe gave up,
\* leaves no socket behind that nobody reads, and until shutdown a bound one has
\* all its goroutines.
ServedOnBoth ==
    ~done => \A a \in Addrs :
        \/ sock[a] = {"udp", "tcp"} /\ loops[a] = "run"
        \/ sock[a] = {} /\ loops[a] = "none"
        \/ doh = "tcp" /\ cur = a

\* Every query is dealt with, and a datagram that was read is answered, with
\* SERVFAIL at least, unless the process stops; only the write may lose the answer.
QueriesEnd ==
    \A c \in Queries :
        /\ at[c] = "socket" ~> (at[c] = "over" \/ ~Alive)
        /\ (c \in Datagrams /\ at[c] = "resolve") ~> (got[c] # Nothing \/ done)

\* A goroutine that failed, or ctx, ends the process.
Stopping == done \/ \E s \in Services : svc[s] = "send"

\* "Stuck handlers must not block process exit forever" (main.go:643): a signal, at
\* startup too, and the error of any goroutine end the process, whatever still
\* runs, in what order they fail and however many of them do.
ProcessExits == WF_vars(WaitTimeout) => (Stopping ~> ~Alive)

\* "Accept() loops exit on closed listeners" (main.go:643): with no relay that
\* hangs, the shutdown does not need its ten seconds.  No goroutine waits for
\* another: errCh takes the error of every one although main receives only one.
CleanStop == [](hung = {}) => (Stopping ~> ~Alive)
=============================================================================
