----------------------------- MODULE MCSyscalls -----------------------------
(* Small instances of Syscalls for TLC.                                    *)
EXTENDS Syscalls
=============================================================================
