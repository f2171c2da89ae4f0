----------------------------- MODULE MCDownload -----------------------------
(* A stream and a file; the file is shorter than its size says. *)
EXTENDS Download
CONSTANTS s, f

MCShort == [t \in Transfers |-> IF t = s THEN 2 ELSE 1]
=============================================================================
