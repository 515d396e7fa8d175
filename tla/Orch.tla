-------------------------------- MODULE Orch --------------------------------
(***************************************************************************)
(* The process-wide orchestrator of src/toh/orch.go and the ClientConns   *)
(* it serves: orchSendWriteBuf's non-blocking submit on the orch channel  *)
(* (capacity 256) with its fallback to a direct sendWriteBuf, the         *)
(* collector that drains the channel until 50 ms pass without a          *)
(* submission, the dispatch of a cycle (a direct sendWriteBuf for a       *)
(* connection with buffered bytes, one optPing POST through lastconn for  *)
(* the others) and the ping goroutine that demultiplexes the reply.      *)
(*                                                                         *)
(* Data are counts: the frames each server connection holds and the       *)
(* frames each client connection has been handed on respCh.  Ordering    *)
(* inside a connection is ReadConn's and Download's business.  A client  *)
(* connection belongs to one endpoint, and a ping is answered by the      *)
(* server of lastconn's endpoint, which knows only its own connections    *)
(* (spec 4.6, modelled from the spec).                                    *)
(***************************************************************************)
EXTENDS Naturals, SequencesExt, BagsExt

CONSTANTS
  Conns,       \* client connections of the process
  EndpointOf,  \* EndpointOf[c]: the server endpoint c was dialled to
  OrchCap,     \* capacity of the orch channel (256)
  MaxData,     \* bound: frames each server connection writes
  MaxSpawn,    \* bound: sendWriteBuf goroutines per connection waiting
  MaxPings,    \* bound: ping goroutines in flight at a time
  MaxFails,    \* bound: ping POSTs that fail before reaching the server
  NoConn       \* lastconn == nil

ASSUME /\ OrchCap \in Nat \ {0}
       /\ MaxData \in Nat /\ MaxSpawn \in Nat \ {0}
       /\ MaxPings \in Nat \ {0} /\ MaxFails \in Nat
       /\ NoConn \notin Conns

VARIABLES
  orchQ,     \* the channel orch
  cyc,       \* the conns map of the current 50 ms collection
  wbuf,      \* wbuf[c]: c.write.buf is not empty
  spawn,     \* spawn[c]: sendWriteBuf goroutines of c not yet run
  posted,    \* ping goroutines waiting for the reply: a bag of [ids, ep]
  replies,   \* ping goroutines reading the reply: a bag of the frames it
             \* carries for each connection
  srvBuf,    \* srvBuf[c]: frames the server holds for c, not yet sent
  written,   \* written[c]: frames the server application wrote for c
  handed,    \* handed[c]: frames put on c.write.respCh
  closed,    \* closed[c]: ClientConn.Close has run (read.closed, respCh)
  fails      \* ping POSTs that failed so far

vars == <<orchQ, cyc, wbuf, spawn, posted, replies, srvBuf, written, handed,
          closed, fails>>

Ping == [ids : SUBSET Conns, ep : Range(EndpointOf)]

\* A ping reply: the frames it carries for each connection.
Reply == [Conns -> 0..MaxData]

\* Ping goroutines in flight.
InFlight == BagCardinality(posted) + BagCardinality(replies)

TypeOK ==
  /\ orchQ \in Seq(Conns) /\ Len(orchQ) <= OrchCap
  /\ cyc \subseteq Conns
  /\ wbuf \in [Conns -> BOOLEAN]
  /\ spawn \in [Conns -> 0..MaxSpawn]
  /\ IsABag(posted) /\ BagToSet(posted) \subseteq Ping
  /\ IsABag(replies) /\ BagToSet(replies) \subseteq Reply
  /\ InFlight <= MaxPings
  /\ srvBuf \in [Conns -> 0..MaxData]
  /\ written \in [Conns -> 0..MaxData]
  /\ handed \in [Conns -> 0..MaxData]
  /\ closed \in [Conns -> BOOLEAN]
  /\ fails \in 0..MaxFails

\* Every connection has said hello; nothing is buffered or in flight.
Init ==
  /\ orchQ = <<>>
  /\ cyc = {}
  /\ wbuf = [c \in Conns |-> FALSE]
  /\ spawn = [c \in Conns |-> 0]
  /\ posted = EmptyBag
  /\ replies = EmptyBag
  /\ srvBuf = [c \in Conns |-> 0]
  /\ written = [c \in Conns |-> 0]
  /\ handed = [c \in Conns |-> 0]
  /\ closed = [c \in Conns |-> FALSE]
  /\ fails = 0

-----------------------------------------------------------------------------
(* The server side (spec 4.6): the application of c's ServerConn writes a *)
(* frame into its write buffer.                                            *)

SrvWrite(c) ==
  /\ written[c] < MaxData
  /\ written' = [written EXCEPT ![c] = @ + 1]
  /\ srvBuf' = [srvBuf EXCEPT ![c] = @ + 1]
  /\ UNCHANGED <<orchQ, cyc, wbuf, spawn, posted, replies, handed, closed, fails>>

-----------------------------------------------------------------------------
(* orchSendWriteBuf(c): `select { case orch <- c: default: go             *)
(* c.sendWriteBuf() }`.                                                    *)

\* Mutant: a submit that does not look at the channel's capacity.
OrchRoomAlways == TRUE

\* The case `orch <- c` is ready: the channel has room.
OrchRoom == Len(orchQ) < OrchCap

\* `go c.sendWriteBuf()`.  The goroutines of one connection queue on its
\* write lock and each POSTs what is then buffered; beyond MaxSpawn a new
\* one is merged into those already waiting, which only removes POSTs.
Spawned(n) == IF n < MaxSpawn THEN n + 1 ELSE n

SubmitVals(c) ==
  \/ /\ OrchRoom
     /\ orchQ' = Append(orchQ, c)
     /\ UNCHANGED spawn
  \/ /\ ~OrchRoom
     /\ spawn' = [spawn EXCEPT ![c] = Spawned(@)]
     /\ UNCHANGED orchQ

\* The tick (sched.Schedule, rescheduled by every schedSending and Write)
\* runs schedSending: the connection is open and error free, so it is
\* submitted.  Close cancels the tick.
Tick(c) ==
  /\ ~closed[c]
  /\ SubmitVals(c)
  /\ UNCHANGED <<cyc, wbuf, posted, replies, srvBuf, written, handed, closed, fails>>

\* ClientConn.Write(p) on an open connection: p is appended to buf; when
\* buf has reached pendingSize, Write calls schedSending itself.
Write(c) ==
  /\ ~closed[c]
  /\ wbuf' = [wbuf EXCEPT ![c] = TRUE]
  /\ \/ UNCHANGED <<orchQ, spawn>>
     \/ SubmitVals(c)
  /\ UNCHANGED <<cyc, posted, replies, srvBuf, written, handed, closed, fails>>

\* ClientConn.Close(): the tick is cancelled, the read side closed and
\* respCh closed.  The optClosed POST carries nothing back.
Close(c) ==
  /\ ~closed[c]
  /\ closed' = [closed EXCEPT ![c] = TRUE]
  /\ UNCHANGED <<orchQ, cyc, wbuf, spawn, posted, replies, srvBuf, written, handed,
                 fails>>

-----------------------------------------------------------------------------
(* sendWriteBuf(c), under c's write lock: POST the buffer (retries and     *)
(* failures are Upload's); the reply carries every frame c's server       *)
(* connection holds; buf is truncated; the body goes to respCh, where a   *)
(* closed channel swallows it (recover).                                   *)

SendWriteBuf(c) ==
  /\ spawn[c] > 0
  /\ spawn' = [spawn EXCEPT ![c] = @ - 1]
  /\ wbuf' = [wbuf EXCEPT ![c] = FALSE]
  /\ srvBuf' = [srvBuf EXCEPT ![c] = 0]
  /\ handed' = [handed EXCEPT ![c] = IF closed[c] THEN @ ELSE @ + srvBuf[c]]
  /\ UNCHANGED <<orchQ, cyc, posted, replies, written, closed, fails>>

-----------------------------------------------------------------------------
(* The orchestrator goroutine.  READ: `case c := <-orch: conns[c.idx] = c` *)
(* until `time.After(50 ms)` fires; the timer is made anew on every pass, *)
(* so it can fire only while the channel stays empty.  An empty map just  *)
(* sleeps; otherwise every connection with a non-empty buf gets a direct  *)
(* sendWriteBuf and the others are polled by one ping sent through        *)
(* lastconn, the last of them in the (random) map order.                 *)

Collect ==
  /\ orchQ # <<>>
  /\ cyc' = cyc \cup {Head(orchQ)}
  /\ orchQ' = Tail(orchQ)
  /\ UNCHANGED <<wbuf, spawn, posted, replies, srvBuf, written, handed, closed, fails>>

\* Mutant: the ping leaves out lastconn itself.
PingIdsNoLast(idle, lc) == idle \ {lc}

\* `binary.Write(&p, binary.BigEndian, conn.idx)` for every idle conn.
PingIds(idle, lc) == idle

\* The connections of the cycle that have buffered bytes.
HasData == {c \in cyc : wbuf[c]}

\* The cycle ends with lastconn = lc (NoConn: no ping this cycle).
Dispatch(lc) ==
  /\ orchQ = <<>> /\ cyc # {}
  /\ spawn' = [c \in Conns |-> IF c \in HasData THEN Spawned(spawn[c])
                                ELSE spawn[c]]
  /\ LET idle == cyc \ HasData
     IN \/ idle = {} /\ lc = NoConn /\ UNCHANGED posted
        \/ /\ lc \in idle /\ InFlight < MaxPings
           /\ posted' = BagAdd(posted, [ids |-> PingIds(idle, lc),
                                        ep |-> EndpointOf[lc]])
  /\ cyc' = {}
  /\ UNCHANGED <<orchQ, wbuf, replies, srvBuf, written, handed, closed, fails>>

-----------------------------------------------------------------------------
(* The ping goroutine: `lastconn.send(pingframe)` goes to lastconn's      *)
(* endpoint; on an error it returns.  The reply carries, for each polled  *)
(* connection that server knows, the frames it held; each frame goes to   *)
(* conns[f.connIdx].write.respCh unless that connection is closed.       *)

\* The server of p.ep answers ping p (spec 4.6 step 3).
PingServed(p) ==
  /\ BagIn(p, posted)
  /\ LET served == {c \in p.ids : EndpointOf[c] = p.ep}
     IN /\ posted' = BagRemove(posted, p)
        /\ replies' = BagAdd(replies, [c \in Conns |-> IF c \in served
                                                      THEN srvBuf[c] ELSE 0])
        /\ srvBuf' = [c \in Conns |-> IF c \in served THEN 0 ELSE srvBuf[c]]
  /\ UNCHANGED <<orchQ, cyc, wbuf, spawn, written, handed, closed, fails>>

\* The POST fails before the server sees it: "orch: send error".
PingFail(p) ==
  /\ BagIn(p, posted)
  /\ fails < MaxFails
  /\ fails' = fails + 1
  /\ posted' = BagRemove(posted, p)
  /\ UNCHANGED <<orchQ, cyc, wbuf, spawn, replies, srvBuf, written, handed,
                 closed>>

\* parseframe consumes c's frames from the body.
Dispatched(rep, c) == [rep EXCEPT ![c] = 0]

\* The frames of the reply addressed to c.
PingDeliver(r, c) ==
  /\ BagIn(r, replies) /\ r[c] > 0
  /\ handed' = [handed EXCEPT ![c] = IF closed[c] THEN @ ELSE @ + r[c]]
  /\ replies' = BagAdd(BagRemove(replies, r), Dispatched(r, c))
  /\ UNCHANGED <<orchQ, cyc, wbuf, spawn, posted, srvBuf, written, closed,
                 fails>>

\* The terminating frame: `resp.Body.Close()`, the goroutine returns.
PingDone(r) ==
  /\ BagIn(r, replies)
  /\ \A c \in Conns : r[c] = 0
  /\ replies' = BagRemove(replies, r)
  /\ UNCHANGED <<orchQ, cyc, wbuf, spawn, posted, srvBuf, written, handed,
                 closed, fails>>

-----------------------------------------------------------------------------
Next ==
  \/ \E c \in Conns : SrvWrite(c) \/ Tick(c) \/ Write(c) \/ Close(c)
                      \/ SendWriteBuf(c)
  \/ Collect
  \/ \E lc \in Conns \cup {NoConn} : Dispatch(lc)
  \/ \E p \in BagToSet(posted) : PingServed(p) \/ PingFail(p)
  \/ \E r \in BagToSet(replies) : PingDone(r) \/ \E c \in Conns : PingDeliver(r, c)

\* The scheduler keeps every goroutine running: ticks fire every second
\* while the connection is open, the collector drains the channel, the
\* sendWriteBuf and ping goroutines finish.  Pings with equal contents are
\* one element of a bag, so fairness is stated for "some ping"; each such
\* step removes or shrinks a ping, so every ping in flight finishes.
\*
\* The cycle's end needs more: the 50 ms timer fires only in a gap of 50 ms
\* between two submissions, and WF cannot promise one while ticks keep
\* refilling the channel.  We assume the gaps (SF: a cycle that can end
\* infinitely often ends), which holds while the process's connections
\* submit fewer than 20 times a second in total.  SF for each choice of
\* lastconn stands for Go's randomised map order: every idle connection
\* of a cycle is the last one with some probability, so with probability
\* one each is chosen infinitely often when it could be.
Fairness ==
  /\ \A c \in Conns : WF_vars(Tick(c)) /\ WF_vars(SendWriteBuf(c))
  /\ WF_vars(Collect)
  /\ \A lc \in Conns \cup {NoConn} : SF_vars(Dispatch(lc))
  /\ WF_vars(\E p \in BagToSet(posted) : PingServed(p))
  /\ WF_vars(\E r \in BagToSet(replies) : \E c \in Conns : PingDeliver(r, c))
  /\ WF_vars(\E r \in BagToSet(replies) : PingDone(r))

Spec == Init /\ [][Next]_vars /\ Fairness

-----------------------------------------------------------------------------
(* Properties.                                                             *)

\* Server bytes are never stranded (spec 9: "server-to-client bytes are
\* never stranded beyond one InactivePurge interval"): every frame the
\* server application writes for an open connection is eventually handed
\* to that connection's respCh, whether a direct sendWriteBuf or a ping
\* through any connection of the cycle fetches it, across channel
\* overflow, failed pings and pings sent to another endpoint.
NotStranded ==
  \A c \in Conns : \A k \in 1..MaxData :
    (written[c] >= k) ~> (handed[c] >= k \/ closed[c])
====
