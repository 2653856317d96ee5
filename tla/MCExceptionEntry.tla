-------------------------- MODULE MCExceptionEntry --------------------------
(* Small instances of ExceptionEntry for TLC.                              *)
EXTENDS ExceptionEntry
=============================================================================
