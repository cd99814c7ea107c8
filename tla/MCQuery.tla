------------------------------- MODULE MCQuery -------------------------------
(* Query with small frames.  A stray byte read as a length is garbage (0)  *)
(* or asks for more bytes than a reply has (6).                            *)
EXTENDS Query

MCDataLengths == {1, 2}
MCStrayValues == {0, 6}
=============================================================================
