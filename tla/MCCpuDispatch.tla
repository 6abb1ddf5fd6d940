---------------------------- MODULE MCCpuDispatch ----------------------------
(* A small instance of CpuDispatch for TLC. *)
EXTENDS CpuDispatch

\* The context calls the pool with its own chunks only.
MCRangeLists == {}

=============================================================================
