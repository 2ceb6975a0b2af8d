------------------------------ MODULE VirtualIp -----------------------------
(***************************************************************************)
(* The virtual address of a node (derive_virtual_ip in                     *)
(* daemon/src/crypto/identity.rs): 10.99.x.y, from the first two bytes of  *)
(* its public key, each kept off 0 and 255.  A key is taken as these two   *)
(* bytes; keys that differ elsewhere, or only between 0 and 1 or 254 and   *)
(* 255, share an address.                                                  *)
(***************************************************************************)
EXTENDS Naturals

Clamp(byte) == IF byte = 0 THEN 1 ELSE IF byte = 255 THEN 254 ELSE byte

DeriveVirtualIp(public_key) == <<10, 99, Clamp(public_key[1]), Clamp(public_key[2])>>
=============================================================================
