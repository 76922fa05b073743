---------------------------- MODULE MCFifoLoop ----------------------------
(* Instance of FifoLoop for TLC.                                           *)
EXTENDS FifoLoop
===========================================================================
