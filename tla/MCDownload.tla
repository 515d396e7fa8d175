----------------------------- MODULE MCDownload -----------------------------
(* Model-checking instances of Download.                                  *)
EXTENDS Download

\* Chunk i is carried by server frame i.
ChunkIds == 1..NFrames

\* A carrier that never fails.
NoFaults == {}

\* Lost replies and ClientReadTimeout force-closes.
AllFaults == {"lost_reply", "timeout"}
=============================================================================
