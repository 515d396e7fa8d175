------------------------------ MODULE Listener ------------------------------
(***************************************************************************)
(* The server-side Listener of src/toh/listen.go: the goroutine Listen    *)
(* starts to run http.Serve and post its result on httpServeErr (a        *)
(* channel of capacity 1), Accept's select between that channel and      *)
(* pendingConns, and Close, which posts its own error on httpServeErr,    *)
(* sets l.closed and closes the TCP listener.                             *)
(*                                                                         *)
(* The application is a set of accept loops, each calling Accept until   *)
(* it returns an error, and a set of Close calls.  A Close in Deferred is *)
(* a `defer ln.Close()` of the accept loops: it is called once they have  *)
(* all returned.  The handler that turns an optHello POST into a pending  *)
(* ServerConn is not under src/ and is modelled from spec 4.6.            *)
(***************************************************************************)
EXTENDS Naturals, Sequences

CONSTANTS
  Acceptors,     \* application goroutines looping on Accept
  Closers,       \* Close calls the application makes
  Deferred,      \* the Close calls that run when the accept loops return
  PendCap,       \* capacity of pendingConns (1024 in Listen)
  MaxConns,      \* bound: optHello connections the handler creates
  ServeMayFail   \* http.Serve may return on its own (a listener error)

ASSUME /\ Deferred \subseteq Closers
       /\ PendCap \in Nat \ {0}
       /\ MaxConns \in Nat
       /\ ServeMayFail \in BOOLEAN

\* `make(chan error, 1)`
ErrCap == 1

\* The two values ever sent on httpServeErr.
CloseErr == "accept on closed listener"
ServeErr == "http.Serve returned"

VARIABLES
  errQ,      \* the buffered channel l.httpServeErr
  pend,      \* ServerConns buffered in l.pendingConns
  arrived,   \* ServerConns the handler has created so far
  lnOpen,    \* the TCP listener l.ln is open
  lclosed,   \* l.closed
  serve,     \* the Serve goroutine: "serving", "returned", "done"
  acc,       \* acc[a]: "accepting" or "stopped"
  accRes,    \* accRes[a]: the error Accept returned to a, or "none"
  accepted,  \* ServerConns Accept has returned
  cl         \* cl[c]: "idle", "sending" (blocked in Close), "returned"

vars == <<errQ, pend, arrived, lnOpen, lclosed, serve, acc, accRes,
          accepted, cl>>

TypeOK ==
  /\ errQ \in Seq({CloseErr, ServeErr}) /\ Len(errQ) <= ErrCap
  /\ pend \in 0..PendCap
  /\ arrived \in 0..MaxConns
  /\ lnOpen \in BOOLEAN
  /\ lclosed \in BOOLEAN
  /\ serve \in {"serving", "returned", "done"}
  /\ acc \in [Acceptors -> {"accepting", "stopped"}]
  /\ accRes \in [Acceptors -> {"none", CloseErr, ServeErr}]
  /\ accepted \in 0..MaxConns
  /\ cl \in [Closers -> {"idle", "sending", "returned"}]

\* Listen(): the TCP listener is open, both channels are empty and the
\* Serve goroutine is running.
Init ==
  /\ errQ = <<>>
  /\ pend = 0
  /\ arrived = 0
  /\ lnOpen = TRUE
  /\ lclosed = FALSE
  /\ serve = "serving"
  /\ acc = [a \in Acceptors |-> "accepting"]
  /\ accRes = [a \in Acceptors |-> "none"]
  /\ accepted = 0
  /\ cl = [c \in Closers |-> "idle"]

\* Mutant: a send that does not wait for room in httpServeErr.
CanPostUnbounded == TRUE

\* A send on httpServeErr can complete only while the buffer has room.
CanPost == Len(errQ) < ErrCap

-----------------------------------------------------------------------------
(* The Serve goroutine: `l.httpServeErr <- http.Serve(ln, mux)`.          *)

\* http.Serve returns once l.ln is closed (ServeReturn), or on a listener
\* error while l.ln is open (ServeFail).
ServeReturn ==
  /\ serve = "serving"
  /\ ~lnOpen
  /\ serve' = "returned"
  /\ UNCHANGED <<errQ, pend, arrived, lnOpen, lclosed, acc, accRes,
                 accepted, cl>>

ServeFail ==
  /\ serve = "serving"
  /\ ServeMayFail /\ lnOpen
  /\ serve' = "returned"
  /\ UNCHANGED <<errQ, pend, arrived, lnOpen, lclosed, acc, accRes,
                 accepted, cl>>

\* The blocking send of its result.
ServeSend ==
  /\ serve = "returned"
  /\ CanPost
  /\ errQ' = Append(errQ, ServeErr)
  /\ serve' = "done"
  /\ UNCHANGED <<pend, arrived, lnOpen, lclosed, acc, accRes, accepted, cl>>

\* The handler, for an optHello POST, creates a ServerConn and pushes it
\* onto pendingConns, dropping it when the channel is full (spec 4.6).
\* Handlers of HTTP connections accepted earlier keep running after
\* http.Serve has returned.
Handle ==
  /\ arrived < MaxConns
  /\ pend' = IF pend < PendCap THEN pend + 1 ELSE pend
  /\ arrived' = arrived + 1
  /\ UNCHANGED <<errQ, lnOpen, lclosed, serve, acc, accRes, accepted, cl>>

-----------------------------------------------------------------------------
(* Accept(): `select` on httpServeErr and pendingConns; Go picks any      *)
(* ready case.  An accept loop stops at the first error.                  *)

\* Mutant: Accept selects on pendingConns only.
ErrReadyNever == FALSE

\* The `case err := <-l.httpServeErr` is ready.
ErrReady == errQ # <<>>

AcceptErr(a) ==
  /\ acc[a] = "accepting"
  /\ ErrReady
  /\ errQ' = Tail(errQ)
  /\ acc' = [acc EXCEPT ![a] = "stopped"]
  /\ accRes' = [accRes EXCEPT ![a] = Head(errQ)]
  /\ UNCHANGED <<pend, arrived, lnOpen, lclosed, serve, accepted, cl>>

AcceptConn(a) ==
  /\ acc[a] = "accepting"
  /\ pend > 0
  /\ pend' = pend - 1
  /\ accepted' = accepted + 1
  /\ UNCHANGED <<errQ, arrived, lnOpen, lclosed, serve, acc, accRes, cl>>

-----------------------------------------------------------------------------
(* Close(): a `select` whose only case is the send on httpServeErr (so it *)
(* blocks while the buffer is full); then l.closed = true; l.ln.Close().  *)

\* A deferred Close runs when every accept loop has returned.
CloseCall(c) ==
  /\ cl[c] = "idle"
  /\ c \in Deferred => \A a \in Acceptors : acc[a] = "stopped"
  /\ cl' = [cl EXCEPT ![c] = "sending"]
  /\ UNCHANGED <<errQ, pend, arrived, lnOpen, lclosed, serve, acc, accRes,
                 accepted>>

\* Mutant: Close forgets l.ln.Close().
CloseLnKept(open) == open

\* `return l.ln.Close()`
CloseLn(open) == FALSE

CloseSend(c) ==
  /\ cl[c] = "sending"
  /\ CanPost
  /\ errQ' = Append(errQ, CloseErr)
  /\ lclosed' = TRUE
  /\ lnOpen' = CloseLn(lnOpen)
  /\ cl' = [cl EXCEPT ![c] = "returned"]
  /\ UNCHANGED <<pend, arrived, serve, acc, accRes, accepted>>

-----------------------------------------------------------------------------
Next ==
  \/ ServeReturn
  \/ ServeFail
  \/ ServeSend
  \/ Handle
  \/ \E a \in Acceptors : AcceptErr(a) \/ AcceptConn(a)
  \/ \E c \in Closers : CloseCall(c) \/ CloseSend(c)

\* Goroutines are scheduled fairly.  Senders blocked on a channel are
\* served in FIFO order by the Go runtime, so a blocked Close or Serve
\* send completes if the buffer has room infinitely often.  A deferred
\* Close is run when its function returns; other Close calls, new
\* connections and a failure of http.Serve are the application's, the
\* peers' and the network's choice.
Fairness ==
  /\ WF_vars(ServeReturn)
  /\ SF_vars(ServeSend)
  /\ \A a \in Acceptors : WF_vars(AcceptErr(a)) /\ WF_vars(AcceptConn(a))
  /\ \A c \in Deferred : WF_vars(CloseCall(c))
  /\ \A c \in Closers : SF_vars(CloseSend(c))

Spec == Init /\ [][Next]_vars /\ Fairness

-----------------------------------------------------------------------------
(* Properties.                                                             *)

\* Close returns (spec 7, net.Listener): a Close call never blocks for
\* ever on the one-slot httpServeErr channel, whatever the Serve goroutine
\* has posted there and whichever accept loops are still running.
CloseReturns ==
  \A c \in Closers : (cl[c] = "sending") ~> (cl[c] = "returned")

\* Close ends the accept loops (spec 4.6, 7: "the listener's close returns
\* a sentinel error through Accept"): once a Close has returned, every
\* goroutine blocked in Accept eventually gets an error.  Each error on
\* httpServeErr wakes only one Accept, so this needs the Serve goroutine's
\* own error after Close has closed l.ln.
AcceptSeesClose ==
  (\E c \in Closers : cl[c] = "returned") ~> (\A a \in Acceptors : acc[a] = "stopped")

=============================================================================
