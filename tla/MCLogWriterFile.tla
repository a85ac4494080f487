-------------------------- MODULE MCLogWriterFile --------------------------
(***************************************************************************)
(* LogWriterFile as TLC checks it.                                         *)
(***************************************************************************)
EXTENDS LogWriterFile

\* The full log has a larger buffer and writes it in chunks; the mission log
\* writes every byte at once.
MCBufferSize == [l \in Logs |-> IF l = Full THEN 3 ELSE 2]
MCMinChunk == [l \in Logs |-> IF l = Full THEN 2 ELSE 1]
MCMaxMessage == [l \in Logs |-> IF l = Full THEN 2 ELSE 1]

\* The full log fills its buffer and wraps.
MCMaxBytes == [l \in Logs |-> IF l = Full THEN 4 ELSE 1]
=============================================================================
