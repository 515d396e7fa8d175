------------------------------ MODULE MCUpload ------------------------------
(* Model-checking instances of Upload: the carrier's fault sets.          *)
EXTENDS Upload

\* Chunk k is written by the k-th Write call.
ChunkIds == 1..MaxWrites

\* A carrier that never fails.
NoFaults == {}

\* Every fault client.Do can report.
AllFaults == {"drop", "late", "lost_reply"}

\* Only requests that never reach the server fail.
DropFaults == {"drop"}

\* Replies lost after the server handled the request.
LostReplyFaults == {"lost_reply"}
=============================================================================
