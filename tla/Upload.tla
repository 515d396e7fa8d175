------------------------------- MODULE Upload -------------------------------
(***************************************************************************)
(* The client-to-server direction of one virtual connection: the write    *)
(* side of ClientConn (Write, the scheduled tick, schedSending,            *)
(* sendWriteBuf with its retry loop), the orchestrator's hand-off of a     *)
(* connection with pending bytes (orch.go), the carrier (POSTs that may    *)
(* be dropped, delivered late, or whose reply is lost), the server's       *)
(* handler feeding the request's frame into the ServerConn's read side,    *)
(* and that read side with its application reader (ReadConn).             *)
(*                                                                         *)
(* Ends = {Cli, Srv}: the read side of the ClientConn only carries its    *)
(* sticky err and closed flag here (the bytes the server sends back are   *)
(* the subject of the download direction).                                *)
(***************************************************************************)
EXTENDS ReadConn

CONSTANTS
  Cli, Srv,     \* the client's and the server's read side
  Writers,      \* application goroutines calling ClientConn.Write
  MaxWrites,    \* bound: number of Write calls, one chunk each
  MaxBuf,       \* MaxWriteBufferSize, in chunks
  PendingCap,   \* cap of write.survey.pendingSize (1024)
  IdxBits,      \* width of write.counter and of a frame's idx (32)
  MaxTries,     \* POST attempts that fit before InactivePurge - 1s passes
  MaxSpawn,     \* bound: sendWriteBuf goroutines waiting for the lock
  Faults,       \* carrier faults: SUBSET {"drop", "late", "lost_reply"}
  PostErr       \* the error client.Do returned, fed when sendWriteBuf gives up

ASSUME /\ Ends = {Cli, Srv}
       /\ Chunks = 1..MaxWrites
       /\ MaxTries \in Nat \ {0}
       /\ Faults \subseteq {"drop", "late", "lost_reply"}

IdxMod == 2 ^ IdxBits

VARIABLES
  wbuf,      \* c.write.buf
  wctr,      \* c.write.counter (uint32, wraps at IdxMod)
  pending,   \* c.write.survey.pendingSize
  tick,      \* c.write.sched is armed
  wlock,     \* c.write's mutex: "none", or held by sendWriteBuf ("sender")
  wpc,       \* wpc[w]: "idle", "check" (at REWRITE), "append"
  issued,    \* Write calls started so far; call k writes chunk k
  wchunk,    \* wchunk[w]: the chunk writer w is writing
  written,   \* history: chunks in the order they were appended to buf
  orchQ,     \* c is queued in the orchestrator's channel
  spawned,   \* `go conn.sendWriteBuf()` goroutines not yet holding the lock
  cur,       \* the request sendWriteBuf is waiting on: [f, try]
  replied,   \* the server has answered cur and the reply is on its way
  net        \* requests on the carrier not yet handled by the server

upVars == <<wbuf, wctr, pending, tick, wlock, wpc, issued, wchunk, written,
            orchQ, spawned, cur, replied, net>>
vars == <<rcVars, upVars>>

WFrame == [idx : 0..IdxMod - 1, data : Seq(Chunks)]
Request == [f : WFrame, try : 1..MaxTries]
NoReq == [f |-> [idx |-> 0, data |-> <<>>], try |-> 0]

TypeOK ==
  /\ RCTypeOK
  /\ wbuf \in Seq(Chunks)
  /\ wctr \in 0..IdxMod - 1
  /\ pending \in 1..PendingCap
  /\ tick \in BOOLEAN
  /\ wlock \in {"none", "sender"}
  /\ wpc \in [Writers -> {"idle", "check", "append"}]
  /\ issued \in 0..MaxWrites
  /\ written \in Seq(Chunks)
  /\ orchQ \in BOOLEAN
  /\ spawned \in 0..MaxSpawn
  /\ cur \in Request \cup {NoReq}
  /\ replied \in BOOLEAN
  /\ net \subseteq Request

\* newClientConn: pendingSize 1, the tick scheduled, the hello accepted.
Init ==
  /\ RCInit
  /\ wbuf = <<>>
  /\ wctr = 0
  /\ pending = 1
  /\ tick = TRUE
  /\ wlock = "none"
  /\ wpc = [w \in Writers |-> "idle"]
  /\ issued = 0
  /\ wchunk = [w \in Writers |-> 0]
  /\ written = <<>>
  /\ orchQ = FALSE
  /\ spawned = 0
  /\ cur = NoReq
  /\ replied = FALSE
  /\ net = {}

Broken == err[Cli] # NoErr \/ closed[Cli]

\* ClientConn.Close(): sched.Cancel(); read.close().  The respCh close and
\* the best-effort optClosed POST concern the download direction.
CloseConnVals ==
  /\ tick' = FALSE
  /\ CloseVals(Cli)

\* Mutant: schedSending that forgets orchSendWriteBuf(c).
SchedSendingNoSubmit ==
  IF Broken
  THEN CloseConnVals /\ UNCHANGED orchQ
  ELSE tick' = TRUE /\ UNCHANGED <<orchQ, closed, timedout>>

\* schedSending(): a broken connection is closed; otherwise c is submitted
\* to the orchestrator (orchSendWriteBuf) and the tick rescheduled.
SchedSendingVals ==
  IF Broken
  THEN CloseConnVals /\ UNCHANGED orchQ
  ELSE orchQ' = TRUE /\ tick' = TRUE /\ UNCHANGED <<closed, timedout>>

-----------------------------------------------------------------------------
(* ClientConn.Write(p), len(p) = one chunk.                               *)

WriteStart(w) ==
  /\ wpc[w] = "idle"
  /\ issued < MaxWrites
  /\ issued' = issued + 1
  /\ wchunk' = [wchunk EXCEPT ![w] = issued + 1]
  /\ wpc' = [wpc EXCEPT ![w] = "check"]
  /\ UNCHANGED <<rcVars, wbuf, wctr, pending, tick, wlock, written, orchQ,
                 spawned, cur, replied, net>>

\* Mutant: the full-buffer test lets one more chunk through.
BufFullLoose == Len(wbuf) > MaxBuf + 1

\* `len(c.write.buf) > MaxWriteBufferSize`, read without the lock.
BufFull == Len(wbuf) > MaxBuf

\* REWRITE: the sticky error, then closed, then the full buffer (sleep one
\* second and retry: the step is not enabled until the buffer drains).
WriteCheck(w) ==
  /\ wpc[w] = "check"
  /\ \/ /\ Broken
        /\ wpc' = [wpc EXCEPT ![w] = "idle"]
     \/ /\ ~Broken /\ ~BufFull
        /\ wpc' = [wpc EXCEPT ![w] = "append"]
  /\ UNCHANGED <<rcVars, wbuf, wctr, pending, tick, wlock, issued, wchunk,
                 written, orchQ, spawned, cur, replied, net>>

\* Lock; Reschedule the tick; append; Unlock; then, if the buffer reached
\* pendingSize, schedSending().
WriteAppend(w) ==
  /\ wpc[w] = "append"
  /\ wlock = "none"
  /\ wpc' = [wpc EXCEPT ![w] = "idle"]
  /\ wbuf' = Append(wbuf, wchunk[w])
  /\ written' = Append(written, wchunk[w])
  /\ IF Len(wbuf) + 1 < pending
     THEN tick' = TRUE /\ UNCHANGED <<orchQ, closed, timedout>>
     ELSE SchedSendingVals
  /\ UNCHANGED <<frames, counter, buf, future, futureSize, err, loopOn, ready,
                 rd, rdRes, got, wctr, pending, wlock, issued, wchunk,
                 spawned, cur, replied, net>>

\* The scheduled callback: pendingSize = 1; schedSending().
Tick ==
  /\ tick
  /\ pending' = 1
  /\ SchedSendingVals
  /\ UNCHANGED <<frames, counter, buf, future, futureSize, err, loopOn, ready,
                 rd, rdRes, got, wbuf, wctr, wlock, wpc, issued, wchunk,
                 written, spawned, cur, replied, net>>

\* The application closes the connection.
AppClose ==
  /\ ~closed[Cli]
  /\ CloseConnVals
  /\ UNCHANGED <<frames, counter, buf, future, futureSize, err, loopOn, ready,
                 rd, rdRes, got, wbuf, wctr, pending, wlock, wpc, issued,
                 wchunk, written, orchQ, spawned, cur, replied, net>>

-----------------------------------------------------------------------------
(* The orchestrator loop, for this connection: after a 50ms collection    *)
(* cycle, a connection with bytes in write.buf (read without the lock) is *)
(* handed to `go conn.sendWriteBuf()`; one with an empty buffer joins the *)
(* ping, which carries no client bytes.  At most MaxSpawn handed-off      *)
(* goroutines are kept waiting; a further one would find the buffer       *)
(* already taken by a waiting one.                                        *)

OrchCycle ==
  /\ orchQ
  /\ orchQ' = FALSE
  /\ spawned' = IF wbuf # <<>> /\ spawned < MaxSpawn THEN spawned + 1
                ELSE spawned
  /\ UNCHANGED <<rcVars, wbuf, wctr, pending, tick, wlock, wpc, issued,
                 wchunk, written, cur, replied, net>>

-----------------------------------------------------------------------------
(* sendWriteBuf().                                                        *)

\* Mutant: pendingSize doubled without the 1024 cap.
GrowPendingUncapped(p) == 2 * p

\* `if c.write.survey.pendingSize *= 2; ... > 1024 { ... = 1024 }`
GrowPending(p) == IF 2 * p > PendingCap THEN PendingCap ELSE 2 * p

\* Lock; double pendingSize; return on a sticky error; otherwise build the
\* chain {optSyncConnIdx} -> {idx: counter+1, data: buf} and POST it.
SendStart ==
  /\ spawned > 0
  /\ wlock = "none"
  /\ spawned' = spawned - 1
  /\ pending' = GrowPending(pending)
  /\ IF err[Cli] # NoErr
     THEN UNCHANGED <<wlock, cur, net>>
     ELSE LET r == [f |-> [idx |-> (wctr + 1) % IdxMod, data |-> wbuf],
                    try |-> 1]
          IN /\ wlock' = "sender"
             /\ cur' = r
             /\ net' = net \cup {r}
  /\ UNCHANGED <<rcVars, wbuf, wctr, tick, wpc, issued, wchunk, written,
                 orchQ, replied>>

\* Mutant: the buffer is kept after a successful POST.
SentBufKept(b) == b

\* `c.write.buf = c.write.buf[:0]` once the POST succeeded.
SentBuf(b) == <<>>

\* c.send(f) returned the server's 200 reply: truncate the buffer, advance
\* the counter, hand the body to respCh, unlock.
SendOk ==
  /\ wlock = "sender"
  /\ replied
  /\ wbuf' = SentBuf(wbuf)
  /\ wctr' = (wctr + 1) % IdxMod
  /\ wlock' = "none"
  /\ replied' = FALSE
  /\ cur' = NoReq
  /\ UNCHANGED <<rcVars, pending, tick, wpc, issued, wchunk, written, orchQ,
                 spawned, net>>

\* c.send(f) returned an error: the request was dropped, is still on its
\* way (the 15s client timeout fired first), or was handled but the reply
\* was lost.  Retry the same frame until the deadline, then feedError.
SendFail ==
  /\ wlock = "sender"
  /\ \E fault \in Faults :
       LET netLeft == CASE fault = "drop"       -> net \ {cur}
                        [] fault = "late"       -> net
                        [] fault = "lost_reply" -> net
       IN
       /\ CASE fault = "drop"       -> cur \in net /\ ~replied
            [] fault = "late"       -> cur \in net /\ ~replied
            [] fault = "lost_reply" -> replied
       /\ replied' = FALSE
       /\ IF cur.try < MaxTries
          THEN LET r == [cur EXCEPT !.try = @ + 1]
               IN /\ cur' = r
                  /\ net' = netLeft \cup {r}
                  /\ UNCHANGED <<wlock, err, ready, closed, timedout>>
          ELSE /\ FeedErrorVals(Cli, PostErr)
                /\ wlock' = "none"
                /\ cur' = NoReq
                /\ net' = netLeft
  /\ UNCHANGED <<frames, counter, buf, future, futureSize, loopOn, rd, rdRes,
                 got, wbuf, wctr, pending, tick, wpc, issued, wchunk, written,
                 orchQ, spawned>>

-----------------------------------------------------------------------------
(* The server's handler for one POST: the leading optSyncConnIdx frame    *)
(* routes it to the ServerConn; feedframes then reads the payload frame   *)
(* (a frame with idx 0 is taken for the chain's terminator) and pushes it *)
(* into the read side's channel, blocking while the channel is full.  A   *)
(* closed or errored read side refuses it.  The reply goes back to the    *)
(* attempt that sent the request, if the client is still waiting on it.  *)

ServerHandle ==
  \E r \in net :
    /\ net' = net \ {r}
    /\ \/ r.f.idx = 0 /\ UNCHANGED frames
       \/ /\ r.f.idx # 0
          /\ FeedFrameVals(Srv, [idx |-> r.f.idx, conn |-> Srv, data |-> r.f.data])
       \/ r.f.idx # 0 /\ FeedRefuses(Srv) /\ UNCHANGED frames
    /\ replied' = (replied \/ (wlock = "sender" /\ r = cur))
    /\ UNCHANGED <<counter, buf, future, futureSize, err, closed, loopOn, ready,
                   timedout, rd, rdRes, got, wbuf, wctr, pending, tick, wlock,
                   wpc, issued, wchunk, written, orchQ, spawned, cur>>

\* The server's rearrange goroutine and its application reader.
ServerLoop == RCInternal(Srv) /\ UNCHANGED upVars

ServerRead == RCReader(Srv) /\ UNCHANGED upVars

-----------------------------------------------------------------------------
Next ==
  \/ \E w \in Writers : WriteStart(w) \/ WriteCheck(w) \/ WriteAppend(w)
  \/ Tick
  \/ AppClose
  \/ OrchCycle
  \/ SendStart
  \/ SendOk
  \/ SendFail
  \/ ServerHandle
  \/ ServerLoop
  \/ ServerRead

\* Goroutines and timers are scheduled fairly.  The writers' lock and the
\* sender's lock are contended, hence strong fairness for both.  Faults,
\* new Write calls and Close are the environment's and not forced.
Fairness ==
  /\ \A w \in Writers : WF_vars(WriteCheck(w)) /\ SF_vars(WriteAppend(w))
  /\ WF_vars(Tick)
  /\ WF_vars(OrchCycle)
  /\ SF_vars(SendStart)
  /\ WF_vars(SendOk)
  /\ WF_vars(ServerHandle)
  /\ WF_vars(ServerLoop)
  /\ WF_vars(ServerRead)

Spec == Init /\ [][Next]_vars /\ Fairness

-----------------------------------------------------------------------------
(* Properties.                                                             *)

\* Ordered delivery without duplication (spec 3, 8.1, 8.2): whatever the
\* carrier drops, delays or answers twice, and however sendWriteBuf
\* retries, the chunks the server application has read, followed by those
\* in its read buffer, are a prefix of the chunks written on the client.
StreamPrefix == IsPrefix(got[Srv] \o buf[Srv], written)

\* Bounded write buffer (spec 8.3, E2): Write parks while write.buf holds
\* more than MaxWriteBufferSize, so the buffer never exceeds that bound by
\* more than one chunk per concurrent writer (the test is made without
\* the lock, before the append).
WriteBufBound == Len(wbuf) <= MaxBuf + Cardinality(Writers)

\* Delivery (spec 8.1): while the client never fails or closes, every
\* chunk written is eventually read by the server application.
Delivery ==
  <>[](~Broken) =>
    \A k \in 1..MaxWrites : (Len(written) >= k) ~> (Len(got[Srv]) >= k)

=============================================================================
