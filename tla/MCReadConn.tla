----------------------------- MODULE MCReadConn -----------------------------
(***************************************************************************)
(* The read side of one ClientConn on its own.  Its environment is the   *)
(* two respLoop goroutines (part_000 respLoop), which feed the frames of   *)
(* the server's replies in whatever order the replies are drained: each   *)
(* payload frame 1..NFrames is fed once, in any order.  The environment   *)
(* may also fail the connection (sendWriteBuf giving up: feedError), close *)
(* it (ClientConn.Close), or let a read deadline pass.                    *)
(***************************************************************************)
EXTENDS ReadConn

CONSTANTS
  NFrames,      \* payload frames the peer sends
  PostErr       \* the error sendWriteBuf feeds when it gives up

ASSUME NFrames \in Nat \ {0}

VARIABLE
  fed           \* idx of the frames already handed to feedframes

vars == <<rcVars, fed>>

TheEnd == CHOOSE e \in Ends : TRUE

\* Frame i carries the single chunk i.
PeerFrame(i) == [idx |-> i, conn |-> TheEnd, data |-> <<i>>]

TypeOK == RCTypeOK /\ fed \subseteq 1..NFrames

Init == RCInit /\ fed = {}

\* A respLoop worker feeds the next frame of a reply body (feedframes, or
\* feedframe for an orchestrator-delivered frame).  A refused frame is
\* dropped: feedframes returns ErrClosedConn or the sticky error.
Feed(e) ==
  \E i \in (1..NFrames) \ fed :
    /\ fed' = fed \cup {i}
    /\ \/ FeedFrameVals(e, PeerFrame(i))
       \/ FeedRefuses(e) /\ UNCHANGED frames
    /\ UNCHANGED <<counter, buf, future, futureSize, err, closed, loopOn,
                   ready, timedout, rd, rdRes, got>>

Fail(e) == err[e] = NoErr /\ FeedError(e, PostErr) /\ UNCHANGED fed

Loop(e) == RCInternal(e) /\ UNCHANGED fed

Reader(e) == RCReader(e) /\ UNCHANGED fed

Next ==
  \E e \in Ends :
    \/ Feed(e)
    \/ Loop(e)
    \/ Reader(e)
    \/ Fail(e)
    \/ Close(e) /\ ~closed[e] /\ UNCHANGED fed
    \/ DeadlinePasses(e) /\ UNCHANGED fed

\* The goroutines are scheduled fairly; the environment's failure, close
\* and deadline are not obliged to happen.
Fairness ==
  \A e \in Ends : /\ WF_vars(Feed(e))
                  /\ WF_vars(Loop(e))
                  /\ WF_vars(Reader(e))

Spec == Init /\ [][Next]_vars /\ Fairness

-----------------------------------------------------------------------------
(* Properties.                                                             *)

\* The peer's stream: chunk i of frame i, in order.
AllData == FlattenSeq([i \in 1..NFrames |-> PeerFrame(i).data])

\* The abstract read side, with the chunks returned by Read as `out`,
\* those followed by buf as `rcvd`.
Abstract == INSTANCE ReadStream WITH
              Data <- AllData,
              rcvd <- got[TheEnd] \o buf[TheEnd],
              out  <- got[TheEnd],
              open <- ~closed[TheEnd]

\* Refinement: whatever order the two respLoop workers feed the frames in,
\* and however feedError, close and the deadline interleave with the
\* rearrange loop and Read, the read side implements ReadStream: the
\* bytes moved into buf are the next bytes of the stream with no gap or
\* duplicate, and Read returns them in order and none after the close.
ReadStreamRefined == Abstract!Spec

\* Delivery: if the connection is never failed, closed or timed out, every
\* frame the peer sent is eventually returned by Read.
Delivery ==
  \A e \in Ends :
    <>[](~closed[e] /\ ~timedout[e]) =>
       <>(got[e] = AllData)

\* close() wakes a reader parked in ready.Wait(): once the side is closed,
\* a waiting reader eventually returns.
CloseWakesReader ==
  \A e \in Ends : (closed[e] /\ rd[e] = "waiting") ~> (rd[e] = "done")

\* The spec (4.4): "err (if nonzero) takes precedence over ErrClosedConn in
\* reports to the application": a Read that returns an error while the
\* sticky err is set returns that err.
ErrPrecedence ==
  [][\A e \in Ends :
       (rd'[e] = "done" /\ rd[e] # "done" /\ err[e] # NoErr)
          => rdRes'[e] = err[e]]_vars

=============================================================================
