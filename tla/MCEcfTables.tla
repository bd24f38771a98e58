---------------------------- MODULE MCEcfTables -------------------------------
(* A small instance of EcfTables for TLC.                                  *)
EXTENDS EcfTables

\* Two entries of the client's, and those that the drivers know themselves.
SmallNames == {"a", "b", BEMATECH_TXT_SANGRIA, BEMATECH_TXT_SUPRIMENTO, Fixed}
=============================================================================
