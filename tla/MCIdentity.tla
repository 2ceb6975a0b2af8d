------------------------------ MODULE MCIdentity ----------------------------
(***************************************************************************)
(* Two processes started with one PORT, and so with one identity path.     *)
(***************************************************************************)
EXTENDS Identity

CONSTANTS path, tmp

MCPathOf == [d \in Daemons |-> path]
MCTmp == [p \in {path} |-> tmp]
=============================================================================
