------------------------------ MODULE ReadConn ------------------------------
(***************************************************************************)
(* The read side of a virtual connection (src/toh/read_conn.go): the     *)
(* frames channel filled by feedframes, the single readLoopRearrange      *)
(* goroutine that reorders frames by counter into buf, the wait object    *)
(* `ready`, and the application's blocking Read.  One read side exists    *)
(* per element of Ends (the 'c' side of a ClientConn, the 's' side of a   *)
(* ServerConn); every variable is a function over Ends.                   *)
(*                                                                         *)
(* Payload bytes are abstracted to chunk identifiers: a frame's data is a *)
(* sequence of chunks, and one chunk stands for one byte of length.       *)
(***************************************************************************)
EXTENDS Naturals, Sequences, SequencesExt, FiniteSets

CONSTANTS
  Ends,         \* the read sides in the model (model values)
  Chunks,       \* payload chunk identifiers
  FramesCap,    \* capacity of readConn.frames (1024 in newReadConn)
  MaxFuture     \* MaxWriteBufferSize, in chunks: cap on futureSize

ASSUME FramesCap \in Nat \ {0} /\ MaxFuture \in Nat

\* A frame as the read side sees it after parseframe: idx, connIdx (which
\* read side it is addressed to) and data.
Frame == [idx : Nat, conn : Ends, data : Seq(Chunks)]

\* Error values.  Strings stand for the fmt.Errorf values of the code.
NoErr         == "nil"
ErrUnmatched  == "fatal: unmatched stream index"
ErrMissing    == "fatal: missing certain frame"
ErrClosedConn == "use of closed connection"
ErrTimeout    == "operation timed out"

VARIABLES
  frames,      \* frames[e]: the buffered channel c.frames
  counter,     \* counter[e]: idx of the last frame appended to buf
  buf,         \* buf[e]: in-order chunks not yet returned by Read
  future,      \* future[e]: futureframes, a function idx -> Frame
  futureSize,  \* futureSize[e]: chunks counted into futureframes
  err,         \* err[e]: the sticky error
  closed,      \* closed[e]: set by close(); c.frames is closed with it
  loopOn,      \* loopOn[e]: readLoopRearrange goroutine still running
  ready,       \* ready[e]: the wait object holds an unconsumed Touch
  timedout,    \* timedout[e]: the wait object's deadline has passed
  rd,          \* rd[e]: phase of the application reader: idle/waiting/done
  rdRes,       \* rdRes[e]: result of the reader's last Read call
  got          \* got[e]: every chunk Read has returned (history)

rcVars == <<frames, counter, buf, future, futureSize, err, closed, loopOn,
            ready, timedout, rd, rdRes, got>>

RCTypeOK ==
  /\ frames \in [Ends -> Seq(Frame)]
  /\ \A e \in Ends : Len(frames[e]) <= FramesCap
  /\ counter \in [Ends -> Nat]
  /\ buf \in [Ends -> Seq(Chunks)]
  /\ \A e \in Ends : DOMAIN future[e] \subseteq Nat
                     /\ \A i \in DOMAIN future[e] : future[e][i] \in Frame
  /\ futureSize \in [Ends -> Nat]
  /\ closed \in [Ends -> BOOLEAN]
  /\ loopOn \in [Ends -> BOOLEAN]
  /\ ready \in [Ends -> BOOLEAN]
  /\ timedout \in [Ends -> BOOLEAN]
  /\ rd \in [Ends -> {"idle", "waiting", "done"}]
  /\ got \in [Ends -> Seq(Chunks)]

\* newReadConn: empty channel and maps, the rearrange goroutine started.
RCInit ==
  /\ frames = [e \in Ends |-> <<>>]
  /\ counter = [e \in Ends |-> 0]
  /\ buf = [e \in Ends |-> <<>>]
  /\ future = [e \in Ends |-> <<>>]
  /\ futureSize = [e \in Ends |-> 0]
  /\ err = [e \in Ends |-> NoErr]
  /\ closed = [e \in Ends |-> FALSE]
  /\ loopOn = [e \in Ends |-> TRUE]
  /\ ready = [e \in Ends |-> FALSE]
  /\ timedout = [e \in Ends |-> FALSE]
  /\ rd = [e \in Ends |-> "idle"]
  /\ rdRes = [e \in Ends |-> "none"]
  /\ got = [e \in Ends |-> <<>>]

-----------------------------------------------------------------------------
(* close(): idempotent; closes c.frames and sets the wait deadline to now *)
(* so a parked reader wakes.  Written as the new values of the three      *)
(* variables it touches, so that callers can combine it with feedError.   *)

\* Mutant: close() that forgets SetWaitDeadline(time.Now()).
CloseDeadlineKept(e) == timedout[e]

CloseDeadline(e) == TRUE

CloseVals(e) ==
  /\ closed' = [closed EXCEPT ![e] = TRUE]
  /\ timedout' = [timedout EXCEPT ![e] = IF closed[e] THEN @ ELSE CloseDeadline(e)]

\* feedError(err): c.err = err; ready.Touch; close().
FeedErrorVals(e, x) ==
  /\ err' = [err EXCEPT ![e] = x]
  /\ ready' = [ready EXCEPT ![e] = TRUE]
  /\ CloseVals(e)

Close(e) ==
  /\ CloseVals(e)
  /\ UNCHANGED <<frames, counter, buf, future, futureSize, err, loopOn, ready,
                 rd, rdRes, got>>

FeedError(e, x) ==
  /\ FeedErrorVals(e, x)
  /\ UNCHANGED <<frames, counter, buf, future, futureSize, loopOn, rd, rdRes,
                 got>>

-----------------------------------------------------------------------------
(* One iteration of feedframes' loop for a payload frame f, after parse:  *)
(* a closed or errored side refuses it, otherwise `c.frames <- f`, which  *)
(* blocks (is not enabled) while the channel is full.                     *)

FeedRefuses(e) == closed[e] \/ err[e] # NoErr

\* Mutant: the send does not wait for room in the channel.
FeedFrameUnbounded(e, f) ==
  /\ ~FeedRefuses(e)
  /\ frames' = [frames EXCEPT ![e] = Append(@, f)]

FeedFrameVals(e, f) ==
  /\ ~FeedRefuses(e)
  /\ Len(frames[e]) < FramesCap
  /\ frames' = [frames EXCEPT ![e] = Append(@, f)]

-----------------------------------------------------------------------------
(* readLoopRearrange, one received frame.                                 *)

\* Length of the run of consecutive idx present in fut, starting at from.
RECURSIVE RunLen(_, _)
RunLen(fut, from) == IF from \in DOMAIN fut THEN 1 + RunLen(fut, from + 1) ELSE 0

\* Mutant: the drain loop stops after one frame.
DrainCountOne(fut, from) == IF from \in DOMAIN fut THEN 1 ELSE 0

\* How many frames the inner `for` moves from futureframes into buf.
DrainCount(fut, from) == RunLen(fut, from)

\* `if f.idx <= c.counter`: the frame was already delivered.
Stale(e, f) == f.idx <= counter[e]

\* On a stale frame the loop `return`s: the goroutine ends.
StaleExits(e) == TRUE

\* Mutant: futureframes keyed by arrival instead of by f.idx.
StoreFutureByArrival(e, f) == (counter[e] + 1 :> f) @@ future[e]

\* `c.futureframes[f.idx] = f`
StoreFuture(e, f) == (f.idx :> f) @@ future[e]

Rearrange(e) ==
  /\ loopOn[e]
  /\ frames[e] # <<>>
  /\ LET f == Head(frames[e]) IN
     /\ frames' = [frames EXCEPT ![e] = Tail(@)]
     /\ IF f.conn # e
        THEN /\ FeedErrorVals(e, ErrUnmatched)
             /\ loopOn' = [loopOn EXCEPT ![e] = FALSE]
             /\ UNCHANGED <<counter, buf, future, futureSize>>
        ELSE IF Stale(e, f)
        THEN /\ loopOn' = [loopOn EXCEPT ![e] = ~StaleExits(e)]
             /\ UNCHANGED <<counter, buf, future, futureSize, err, closed,
                            ready, timedout>>
        ELSE LET fut  == StoreFuture(e, f)
                 size == futureSize[e] + Len(f.data)
                 k    == DrainCount(fut, counter[e] + 1)
                 out  == [i \in 1..k |-> fut[counter[e] + i].data]
                 rest == size - Len(FlattenSeq(out))
             IN /\ counter' = [counter EXCEPT ![e] = @ + k]
                /\ buf' = [buf EXCEPT ![e] = @ \o FlattenSeq(out)]
                /\ future' = [future EXCEPT ![e] =
                     [i \in DOMAIN fut \ {counter[e] + j : j \in 1..k} |-> fut[i]]]
                /\ futureSize' = [futureSize EXCEPT ![e] = rest]
                /\ IF rest > MaxFuture
                   THEN /\ FeedErrorVals(e, ErrMissing)
                        /\ loopOn' = [loopOn EXCEPT ![e] = FALSE]
                   ELSE /\ ready' = [ready EXCEPT ![e] = TRUE]
                        /\ UNCHANGED <<err, closed, timedout, loopOn>>
  /\ UNCHANGED <<rd, rdRes, got>>

\* `case f, ok := <-c.frames: if !ok { return }`: closed and drained.
LoopExit(e) ==
  /\ loopOn[e]
  /\ closed[e]
  /\ frames[e] = <<>>
  /\ loopOn' = [loopOn EXCEPT ![e] = FALSE]
  /\ UNCHANGED <<frames, counter, buf, future, futureSize, err, closed, ready,
                 timedout, rd, rdRes, got>>

-----------------------------------------------------------------------------
(* Read(p).  ReadCall is one pass from the READ label to either a return *)
(* or the call to ready.Wait(); ReadWake is the return from Wait.  The    *)
(* caller's p takes any 1..Len(buf) chunks.                               *)

ReadCall(e) ==
  /\ rd[e] = "idle"
  /\ \/ /\ closed[e]
        /\ rd' = [rd EXCEPT ![e] = "done"]
        /\ rdRes' = [rdRes EXCEPT ![e] = ErrClosedConn]
        /\ UNCHANGED <<buf, got>>
     \/ /\ ~closed[e] /\ err[e] # NoErr
        /\ rd' = [rd EXCEPT ![e] = "done"]
        /\ rdRes' = [rdRes EXCEPT ![e] = err[e]]
        /\ UNCHANGED <<buf, got>>
     \/ /\ ~closed[e] /\ err[e] = NoErr /\ timedout[e]
        /\ rd' = [rd EXCEPT ![e] = "done"]
        /\ rdRes' = [rdRes EXCEPT ![e] = ErrTimeout]
        /\ UNCHANGED <<buf, got>>
     \/ /\ ~closed[e] /\ err[e] = NoErr /\ ~timedout[e]
        /\ buf[e] # <<>>
        /\ \E n \in 1..Len(buf[e]) :
             /\ got' = [got EXCEPT ![e] = @ \o SubSeq(buf[e], 1, n)]
             /\ buf' = [buf EXCEPT ![e] = SubSeq(@, n + 1, Len(@))]
        /\ rdRes' = [rdRes EXCEPT ![e] = "data"]
        /\ UNCHANGED rd
     \/ /\ ~closed[e] /\ err[e] = NoErr /\ ~timedout[e]
        /\ buf[e] = <<>>
        /\ rd' = [rd EXCEPT ![e] = "waiting"]
        /\ UNCHANGED <<buf, got, rdRes>>
  /\ UNCHANGED <<frames, counter, future, futureSize, err, closed, loopOn,
                 ready, timedout>>

\* Wait returns on a Touch (ontime) or on the deadline (not ontime); when
\* both are ready Go's select picks either.
ReadWake(e) ==
  /\ rd[e] = "waiting"
  /\ \E ontime \in BOOLEAN :
       /\ IF ontime THEN ready[e] ELSE timedout[e]
       /\ ready' = [ready EXCEPT ![e] = IF ontime THEN FALSE ELSE @]
       /\ \/ /\ closed[e]
             /\ rd' = [rd EXCEPT ![e] = "done"]
             /\ rdRes' = [rdRes EXCEPT ![e] = ErrClosedConn]
          \/ /\ ~closed[e] /\ ~ontime
             /\ rd' = [rd EXCEPT ![e] = "done"]
             /\ rdRes' = [rdRes EXCEPT ![e] = ErrTimeout]
          \/ /\ ~closed[e] /\ ontime
             /\ rd' = [rd EXCEPT ![e] = "idle"]
             /\ UNCHANGED rdRes
  /\ UNCHANGED <<frames, counter, buf, future, futureSize, err, closed, loopOn,
                 timedout, got>>

\* SetReadDeadline(t) for a t that then passes.
DeadlinePasses(e) ==
  /\ ~timedout[e]
  /\ timedout' = [timedout EXCEPT ![e] = TRUE]
  /\ UNCHANGED <<frames, counter, buf, future, futureSize, err, closed, loopOn,
                 ready, rd, rdRes, got>>

\* The read-side steps that run on their own goroutines.
RCInternal(e) == Rearrange(e) \/ LoopExit(e)

RCReader(e) == ReadCall(e) \/ ReadWake(e)

=============================================================================
