--------------------------- MODULE MCEcfPayments ----------------------------
(* Small instances of EcfPayments for TLC.                                 *)
EXTENDS EcfPayments

CONSTANTS cash, card

\* The printer starts with a method that is paid at once and a linked one.
TableAtStart == <<cash, card>>
=============================================================================
