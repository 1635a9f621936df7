------------------------------ MODULE MCPanic ------------------------------
(***************************************************************************)
(* Panic instantiated for TLC.  Addresses 0 .. 7 are user space and 8 ..  *)
(* 40 the mapped kernel; 9 and 10 are the return addresses into the ISR   *)
(* and IRQ stubs, 12 an ordinary kernel function, 8 a kernel address the  *)
(* symbol table does not know.                                            *)
(***************************************************************************)
EXTENDS Panic

MCAddrs  == 0 .. 48
MCMapped == 8 .. 40
=============================================================================
