------------------------------ MODULE Vouchers ------------------------------
(***************************************************************************)
(* What the sequence of credit and debit vouchers (CCD) promises of one    *)
(* fiscal document after another: payments are recorded in order, and each *)
(* linked payment gets its voucher once, in the order of the payments.     *)
(***************************************************************************)
EXTENDS Naturals, Sequences

CONSTANTS
  Methods,              \* payment methods
  Linked                \* those a voucher is printed for

VARIABLES
  paid,                 \* payments of the last document
  issued                \* positions in paid that have their voucher

vars == <<paid, issued>>

\* The position of the first linked payment without a voucher is n.
Due(n) ==
  /\ n \in DOMAIN paid \ issued
  /\ paid[n] \in Linked
  /\ \A k \in 1..(n - 1) : paid[k] \in Linked => k \in issued

Init == paid = <<>> /\ issued = {}

\* Another document is opened, or the last one is cancelled.
Clear == paid' = <<>> /\ issued' = {}

Pay(m) ==
  /\ issued = {}
  /\ paid' = Append(paid, m)
  /\ UNCHANGED issued

Issue ==
  \E n \in DOMAIN paid :
    /\ Due(n)
    /\ issued' = issued \cup {n}
    /\ UNCHANGED paid

Next == Clear \/ Issue \/ \E m \in Methods : Pay(m)

Spec == Init /\ [][Next]_vars
=============================================================================
