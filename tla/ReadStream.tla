----------------------------- MODULE ReadStream -----------------------------
(***************************************************************************)
(* What the read side of a virtual connection promises its application   *)
(* (spec 3, 4.4, 8.1): the bytes that become readable are always a prefix *)
(* of the peer's stream Data, they only grow, and Read returns a prefix   *)
(* of them, in order, while the side is open.  Once closed, the side     *)
(* returns no more bytes.  Bytes may still become ready after the close   *)
(* (frames already queued are reassembled) but are never read.           *)
(***************************************************************************)
EXTENDS Naturals, Sequences

CONSTANT Data      \* the peer's byte stream, as a sequence of chunks

VARIABLES
  rcvd,            \* the chunks reassembled so far
  out,             \* the chunks returned to the application so far
  open             \* the side is open

Init == rcvd = <<>> /\ out = <<>> /\ open = TRUE

\* More of the stream becomes ready, in order.
Deliver ==
  /\ \E n \in Len(rcvd) + 1..Len(Data) : rcvd' = SubSeq(Data, 1, n)
  /\ UNCHANGED <<out, open>>

\* A Read returns the next ready chunks.
Read ==
  /\ open
  /\ \E n \in Len(out) + 1..Len(rcvd) : out' = SubSeq(rcvd, 1, n)
  /\ UNCHANGED <<rcvd, open>>

CloseSide ==
  /\ open
  /\ open' = FALSE
  /\ UNCHANGED <<rcvd, out>>

Next == Deliver \/ Read \/ CloseSide

Spec == Init /\ [][Next]_<<rcvd, out, open>>

=============================================================================
