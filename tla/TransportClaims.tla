-------------------------- MODULE TransportClaims ---------------------------
(***************************************************************************)
(* Statements that comments of src/transport/mod.rs make about the threads *)
(* and that the code does not keep.                                        *)
(***************************************************************************)
EXTENDS Transport

(***************************************************************************)
(* The condition variable wakes those who wait when a send is complete     *)
(* (Inner.cv).  io_loop notifies after a GRANT; the RESEND that completes  *)
(* a send wakes nobody.                                                    *)
(***************************************************************************)
SendersAwake == \A m \in Msgs : sending[m] = "asleep" => ~X!IsDone(m)
=============================================================================
