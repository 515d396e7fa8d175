----------------------------- MODULE MCListener -----------------------------
(* Model-checking instances of Listener.                                  *)
EXTENDS Listener

\* No Close is deferred to the end of the accept loops.
NoDeferred == {}
=============================================================================
