------------------------------ MODULE Download ------------------------------
(***************************************************************************)
(* The server-to-client direction of one ClientConn: the replies that    *)
(* carry the server's bytes, the respCh channel (capacity 16) between the *)
(* senders and the two respLoop goroutines, the orchestrator's ping       *)
(* goroutine demultiplexing a ping reply (orch.go), the success path of   *)
(* sendWriteBuf handing its reply body to respCh, ClientConn.Close and    *)
(* schedSending's close of a broken connection, and the client's read    *)
(* side (ReadConn, Ends = {Cli}) with its application reader.             *)
(*                                                                         *)
(* The server (not under src/, modelled from spec 4.6) answers every POST *)
(* with the frames its application has written and not yet sent, in idx  *)
(* order; once its application has closed and everything is sent, a ping *)
(* reply carries an optClosed frame for the connection.                   *)
(***************************************************************************)
EXTENDS ReadConn

CONSTANTS
  Cli,          \* the client's read side
  Workers,      \* the two respLoop goroutines
  NFrames,      \* bound: payload frames the server application writes
  RespCap,      \* capacity of write.respCh (16 in newClientConn)
  Faults,       \* SUBSET {"lost_reply", "timeout"}
  PeerCloses    \* the server application closes after writing everything

ASSUME /\ Ends = {Cli}
       /\ Chunks = 1..NFrames
       /\ RespCap \in Nat \ {0}
       /\ Faults \subseteq {"lost_reply", "timeout"}
       /\ PeerCloses \in BOOLEAN

\* Server frame i carries chunk i.
SrvFrame(i) == [idx |-> i, conn |-> Cli, data |-> <<i>>]

\* The optClosed frame of a ping reply.
ClosedFrame == [idx |-> NFrames + 1, conn |-> Cli, data |-> <<>>]

\* The whole server stream.
AllData == [i \in 1..NFrames |-> i]

\* The error the orchestrator feeds on optClosed (sic).
ErrPeerClosed == "use if closed connection"

\* feedframes' error when the force-closed body fails to parse.
ErrInvalid == "invalid frames"

\* A respNode: a reply body (kind "r") or one frame from a ping (kind "f").
Node == [kind : {"r", "f"}, fs : Seq(Frame)]

VARIABLES
  srvAvail,    \* frames the server application has written
  srvNext,     \* the next frame the server puts into a reply
  srvClosed,   \* the server application has closed the connection
  respCh,      \* c.write.respCh
  respClosed,  \* respCh has been closed (respChOnce)
  sender,      \* sendWriteBuf after a 200: "none" or "enqueue"
  sbody,       \* the reply body it enqueues
  ping,        \* the ping goroutine: "idle", "check", "send"
  pbody,       \* frames of the ping reply not yet dispatched
  wk,          \* wk[w]: "recv", "feed", "done" (respLoop returned)
  wkind,       \* wkind[w]: kind of the node w is feeding
  wb,          \* wb[w]: frames of that node not yet fed
  appClosed,   \* the client application called Close
  panicked     \* a send on the closed respCh panicked: the process died

dlVars == <<srvAvail, srvNext, srvClosed, respCh, respClosed, sender, sbody,
            ping, pbody, wk, wkind, wb, appClosed, panicked>>
vars == <<rcVars, dlVars>>

TypeOK ==
  /\ RCTypeOK
  /\ srvAvail \in 0..NFrames
  /\ srvNext \in 1..NFrames + 1
  /\ srvClosed \in BOOLEAN
  /\ respCh \in Seq(Node) /\ Len(respCh) <= RespCap
  /\ respClosed \in BOOLEAN
  /\ sender \in {"none", "enqueue"}
  /\ sbody \in Seq(Frame)
  /\ ping \in {"idle", "check", "send"}
  /\ pbody \in Seq(Frame)
  /\ wk \in [Workers -> {"recv", "feed", "done"}]
  /\ wkind \in [Workers -> {"r", "f"}]
  /\ wb \in [Workers -> Seq(Frame)]
  /\ appClosed \in BOOLEAN
  /\ panicked \in BOOLEAN

\* newClientConn: the hello has been answered and both respLoops started.
Init ==
  /\ RCInit
  /\ srvAvail = 0
  /\ srvNext = 1
  /\ srvClosed = FALSE
  /\ respCh = <<>>
  /\ respClosed = FALSE
  /\ sender = "none"
  /\ sbody = <<>>
  /\ ping = "idle"
  /\ pbody = <<>>
  /\ wk = [w \in Workers |-> "recv"]
  /\ wkind = [w \in Workers |-> "r"]
  /\ wb = [w \in Workers |-> <<>>]
  /\ appClosed = FALSE
  /\ panicked = FALSE

\* Every goroutine of the process stops when one of them panics.
Alive == ~panicked

Broken == err[Cli] # NoErr \/ closed[Cli]

\* The frames a reply carries: all the server has not yet sent.
Pending == [i \in 1..srvAvail - srvNext + 1 |-> SrvFrame(srvNext + i - 1)]

-----------------------------------------------------------------------------
(* The server (spec 4.6).                                                  *)

SrvWrite ==
  /\ Alive
  /\ srvAvail < NFrames /\ ~srvClosed
  /\ srvAvail' = srvAvail + 1
  /\ UNCHANGED <<rcVars, srvNext, srvClosed, respCh, respClosed, sender,
                 sbody, ping, pbody, wk, wkind, wb, appClosed, panicked>>

SrvClose ==
  /\ Alive
  /\ PeerCloses /\ ~srvClosed /\ srvAvail = NFrames
  /\ srvClosed' = TRUE
  /\ UNCHANGED <<rcVars, srvAvail, srvNext, respCh, respClosed, sender,
                 sbody, ping, pbody, wk, wkind, wb, appClosed, panicked>>

-----------------------------------------------------------------------------
(* ClientConn.Close(): sched.Cancel(); read.close(); respChOnce closes    *)
(* respCh (and POSTs optClosed, which carries nothing back).              *)

\* Mutant: Close that forgets to close respCh.
CloseRespKept(x) == x

CloseResp(x) == TRUE

CloseConnVals ==
  /\ CloseVals(Cli)
  /\ respClosed' = CloseResp(respClosed)

AppClose ==
  /\ Alive
  /\ ~appClosed
  /\ appClosed' = TRUE
  /\ CloseConnVals
  /\ UNCHANGED <<frames, counter, buf, future, futureSize, err, loopOn, ready,
                 rd, rdRes, got, srvAvail, srvNext, srvClosed, respCh, sender,
                 sbody, ping, pbody, wk, wkind, wb, panicked>>

\* The tick's schedSending() finds the read side errored or closed and
\* calls c.Close(); the tick is cancelled with it.
SchedClose ==
  /\ Alive
  /\ Broken /\ ~respClosed
  /\ CloseConnVals
  /\ UNCHANGED <<frames, counter, buf, future, futureSize, err, loopOn, ready,
                 rd, rdRes, got, srvAvail, srvNext, srvClosed, respCh, sender,
                 sbody, ping, pbody, wk, wkind, wb, appClosed, panicked>>

-----------------------------------------------------------------------------
(* sendWriteBuf after a successful POST: the reply body goes to respCh in *)
(* a func with `defer recover()`, so a send on the closed channel is      *)
(* swallowed.  A lost reply loses the frames the server put into it.      *)

\* Mutant: a send that does not wait for room in respCh.
RespRoomUnbounded == TRUE

\* A send on respCh can complete: the buffer has room.
RespRoom == Len(respCh) < RespCap

\* sendWriteBuf tests only the sticky err (part_000:338): a connection the
\* application has closed may still POST.
Post ==
  /\ Alive
  /\ sender = "none" /\ err[Cli] = NoErr
  /\ srvNext' = srvAvail + 1
  /\ \/ sender' = "enqueue" /\ sbody' = Pending
     \/ "lost_reply" \in Faults /\ UNCHANGED <<sender, sbody>>
  /\ UNCHANGED <<rcVars, srvAvail, srvClosed, respCh, respClosed, ping, pbody,
                 wk, wkind, wb, appClosed, panicked>>

SendEnqueue ==
  /\ Alive
  /\ sender = "enqueue"
  /\ \/ respClosed /\ UNCHANGED respCh
     \/ ~respClosed /\ RespRoom
        /\ respCh' = Append(respCh, [kind |-> "r", fs |-> sbody])
  /\ sender' = "none"
  /\ sbody' = <<>>
  /\ UNCHANGED <<rcVars, srvAvail, srvNext, srvClosed, respClosed, ping,
                 pbody, wk, wkind, wb, appClosed, panicked>>

-----------------------------------------------------------------------------
(* The orchestrator's ping for this idle connection and the goroutine     *)
(* that walks the reply: a frame for a closed or errored connection is    *)
(* dropped; optClosed feeds an error and closes the connection; any other *)
(* frame is sent on respCh, with no recover.                              *)

PingPost ==
  /\ Alive
  /\ ping = "idle" /\ ~Broken
  /\ srvNext' = srvAvail + 1
  /\ LET body == Pending \o (IF srvClosed THEN <<ClosedFrame>> ELSE <<>>)
     IN \/ ping' = "check" /\ pbody' = body
        \/ "lost_reply" \in Faults /\ UNCHANGED <<ping, pbody>>
  /\ UNCHANGED <<rcVars, srvAvail, srvClosed, respCh, respClosed, sender,
                 sbody, wk, wkind, wb, appClosed, panicked>>

\* `if c := conns[f.connIdx]; c != nil && !c.read.closed && c.read.err == nil`
PingCheck ==
  /\ Alive
  /\ ping = "check"
  /\ \/ pbody = <<>> /\ ping' = "idle" /\ UNCHANGED <<rcVars, respClosed, pbody>>
     \/ pbody # <<>> /\ Broken
        /\ pbody' = Tail(pbody)
        /\ UNCHANGED <<rcVars, respClosed, ping>>
     \/ pbody # <<>> /\ ~Broken /\ Head(pbody) = ClosedFrame
        /\ pbody' = Tail(pbody)
        /\ FeedErrorVals(Cli, ErrPeerClosed)
        /\ respClosed' = CloseResp(respClosed)
        /\ UNCHANGED <<frames, counter, buf, future, futureSize, loopOn, rd,
                       rdRes, got, ping>>
     \/ pbody # <<>> /\ ~Broken /\ Head(pbody) # ClosedFrame
        /\ ping' = "send"
        /\ UNCHANGED <<rcVars, respClosed, pbody>>
  /\ UNCHANGED <<srvAvail, srvNext, srvClosed, respCh, sender, sbody, wk,
                 wkind, wb, appClosed, panicked>>

\* `c.write.respCh <- respNode{f: f}`: blocks while full, panics if closed
\* (also when it is closed while the send is blocked).
PingSend ==
  /\ Alive
  /\ ping = "send"
  /\ \/ respClosed /\ panicked' = TRUE /\ UNCHANGED <<respCh, ping, pbody>>
     \/ ~respClosed /\ RespRoom
        /\ respCh' = Append(respCh, [kind |-> "f", fs |-> <<Head(pbody)>>])
        /\ pbody' = Tail(pbody)
        /\ ping' = "check"
        /\ UNCHANGED panicked
  /\ UNCHANGED <<rcVars, srvAvail, srvNext, srvClosed, respClosed, sender,
                 sbody, wk, wkind, wb, appClosed>>

-----------------------------------------------------------------------------
(* respLoop.  A body is fed through feedframes; a ping frame through      *)
(* feedframe, only while the read side is open and error free.            *)

\* Mutant: respLoop handles every node as a reply body (body.r is not
\* tested), so a ping frame is fed as an empty body.
NodeFramesBodyOnly(n) == IF n.kind = "r" THEN n.fs ELSE <<>>

\* The frames respLoop feeds for a node.
NodeFrames(n) == IF n.kind = "f" /\ Broken THEN <<>> ELSE n.fs

WorkerRecv(w) ==
  /\ Alive
  /\ wk[w] = "recv"
  /\ \/ respCh # <<>>
        /\ respCh' = Tail(respCh)
        /\ wk' = [wk EXCEPT ![w] = "feed"]
        /\ wkind' = [wkind EXCEPT ![w] = Head(respCh).kind]
        /\ wb' = [wb EXCEPT ![w] = NodeFrames(Head(respCh))]
     \/ respCh = <<>> /\ respClosed
        /\ wk' = [wk EXCEPT ![w] = "done"]
        /\ UNCHANGED <<respCh, wkind, wb>>
  /\ UNCHANGED <<rcVars, srvAvail, srvNext, srvClosed, respClosed, sender,
                 sbody, ping, pbody, appClosed, panicked>>

\* One frame: a closed or errored read side ends the body; otherwise the
\* frame is pushed into c.frames (blocking while full).  The empty rest
\* is the chain terminator: cancel the timer, close the body.
WorkerFeed(w) ==
  /\ Alive
  /\ wk[w] = "feed"
  /\ \/ wb[w] = <<>>
        /\ wk' = [wk EXCEPT ![w] = "recv"]
        /\ UNCHANGED <<rcVars, wb>>
     \/ wb[w] # <<>> /\ FeedRefuses(Cli)
        /\ wk' = [wk EXCEPT ![w] = "recv"]
        /\ wb' = [wb EXCEPT ![w] = <<>>]
        /\ UNCHANGED rcVars
     \/ wb[w] # <<>>
        /\ FeedFrameVals(Cli, Head(wb[w]))
        /\ wb' = [wb EXCEPT ![w] = Tail(@)]
        /\ UNCHANGED <<wk, counter, buf, future, futureSize, err, closed,
                       loopOn, ready, timedout, rd, rdRes, got>>
  /\ UNCHANGED <<srvAvail, srvNext, srvClosed, respCh, respClosed, sender,
                 sbody, ping, pbody, wkind, appClosed, panicked>>

\* The ClientReadTimeout callback closes a body still being read: the
\* next parseframe fails and feedframes feeds "invalid frames".
BodyTimeout(w) ==
  /\ Alive
  /\ "timeout" \in Faults
  /\ wk[w] = "feed" /\ wkind[w] = "r" /\ wb[w] # <<>>
  /\ FeedError(Cli, ErrInvalid)
  /\ wk' = [wk EXCEPT ![w] = "recv"]
  /\ wb' = [wb EXCEPT ![w] = <<>>]
  /\ UNCHANGED <<srvAvail, srvNext, srvClosed, respCh, respClosed, sender,
                 sbody, ping, pbody, wkind, appClosed, panicked>>

\* The client's rearrange goroutine and application reader.
ClientLoop == Alive /\ RCInternal(Cli) /\ UNCHANGED dlVars

ClientRead == Alive /\ RCReader(Cli) /\ UNCHANGED dlVars

-----------------------------------------------------------------------------
Next ==
  \/ SrvWrite \/ SrvClose
  \/ AppClose \/ SchedClose
  \/ Post \/ SendEnqueue
  \/ PingPost \/ PingCheck \/ PingSend
  \/ \E w \in Workers : WorkerRecv(w) \/ WorkerFeed(w) \/ BodyTimeout(w)
  \/ ClientLoop \/ ClientRead

\* Goroutines are scheduled fairly.  The connection stays submitted to the
\* orchestrator by its rescheduled tick (schedSending), so an idle
\* connection is pinged again and again (spec 9); the tick likewise runs
\* schedSending on a broken connection.  Senders blocked on the full
\* respCh are served in FIFO order by the Go runtime, so a blocked send
\* completes if room appears infinitely often: strong fairness.  The
\* peers' writes and closes, direct POSTs and faults are not forced.
Fairness ==
  /\ WF_vars(SchedClose)
  /\ SF_vars(SendEnqueue)
  /\ WF_vars(PingPost) /\ WF_vars(PingCheck) /\ SF_vars(PingSend)
  /\ \A w \in Workers : WF_vars(WorkerRecv(w)) /\ WF_vars(WorkerFeed(w))
  /\ WF_vars(ClientLoop)
  /\ WF_vars(ClientRead)

Spec == Init /\ [][Next]_vars /\ Fairness

-----------------------------------------------------------------------------
(* Properties.                                                             *)

\* No panic (spec 9, "send on closed channel"): the orchestrator never
\* sends on a respCh that Close has closed.  Its test of c.read.closed
\* and its send are not atomic with respect to ClientConn.Close.
NoPanic == ~panicked

\* Teardown completes: once the connection is closed, by the application,
\* by the peer's optClosed or by a fatal read error and the next tick,
\* respCh is closed and both respLoop goroutines return (unless the
\* process has died first).
TeardownCompletes ==
  closed[Cli] ~> (panicked \/ (respClosed /\ \A w \in Workers : wk[w] = "done"))

\* Delivery (spec 8.1, 9: bytes are never stranded): while the connection
\* stays open, every frame the server application writes is eventually
\* read by the client application, whichever of the direct replies and
\* ping replies carries it and whichever respLoop feeds it.
Delivery ==
  <>[](~Broken) =>
    \A k \in 1..NFrames : (srvAvail >= k) ~> (Len(got[Cli]) >= k)

\* A peer's close ends the stream after its data (spec 8.1: the reads
\* equal what was written): when the client application's Read reports
\* the connection closed and the client did not close it, it has read
\* every byte the server application wrote.
CloseAfterData ==
  (rd[Cli] = "done" /\ rdRes[Cli] \in {ErrClosedConn, ErrPeerClosed}
     /\ ~appClosed) => got[Cli] = AllData

\* The sticky error (spec 4.4: "feedError(err): sticky assignment of err"):
\* once the connection holds an error, no later feedError replaces it.
\* The code assigns c.err unconditionally, and feedframes feeds "invalid
\* frames" when the body timeout closes a body of a connection that has
\* already failed; Write then reports that error instead of the first.
\* TLC finds it violated under MCDownload.cfg's constants.
StickyErr == [][err[Cli] # NoErr => err'[Cli] = err[Cli]]_vars

=============================================================================
