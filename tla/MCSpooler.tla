----------------------------- MODULE MCSpooler ------------------------------
(* Small instances of Spooler for TLC.                                     *)
EXTENDS Spooler

\* Client names are interchangeable where they all follow the same protocol.
NameSymmetry == Permutations(Names)
=============================================================================
