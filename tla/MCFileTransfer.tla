--------------------------- MODULE MCFileTransfer ---------------------------
(***************************************************************************)
(* Small instances of the file transfers: one transfer of three chunks, or *)
(* two transfers, of two chunks and of one, into different files.          *)
(***************************************************************************)
EXTENDS FileTransfer

CONSTANTS s, t, x, y

One == {s}
OneName == [u \in One |-> x]
OneSize == [u \in One |-> 3]

Two == {s, t}
Apart == [u \in Two |-> IF u = s THEN x ELSE y]
TwoSize == [u \in Two |-> IF u = s THEN 2 ELSE 1]

MCNames == {x, y}
=============================================================================
