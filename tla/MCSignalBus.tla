----------------------------- MODULE MCSignalBus -----------------------------
(* The instance of SignalBus.cfg: three threads, one name with two types.    *)
EXTENDS SignalBus
==============================================================================
