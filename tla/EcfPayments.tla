---------------------------- MODULE EcfPayments -----------------------------
(***************************************************************************)
(* Payments and vouchers of the CV0909 driver (ecfbematechcv0909.cc and its *)
(* base class), and the printer behind it.                                 *)
(*                                                                         *)
(* The driver keeps its own record of the payments of the last document,   *)
(* one flag for each, to give the printer the ordinal of the payment a     *)
(* voucher belongs to; and a flag that suppresses the payments of outgoing *)
(* receipts.  The printer may refuse a call, or carry it out although      *)
(* check throws; the service may be restarted between two commands.        *)
(*                                                                         *)
(* The client sends a command with an effect of its own in the driver only *)
(* where the document calls for it.                                        *)
(***************************************************************************)
EXTENDS Integers, Sequences, Functions

CONSTANTS
  Methods,              \* names of payment methods
  Linked,               \* those programmed with the voucher flag
  InitialTable,         \* methods the printer has at first
  Slots,                \* size of the printer's table
  Refusals,             \* the printer may refuse what it could do
  LateErrors,           \* check may throw for a call that was carried out
  CancelReceipts,       \* open receipts may be cancelled
  MaxPays,              \* bound: payments of a document
  MaxDocs,              \* bound: documents opened
  MaxRestarts           \* bound: restarts of the service

ASSUME PaymentsAssumption ==
  /\ Linked \subseteq Methods
  /\ InitialTable \in Seq(Methods)
  /\ \A i, j \in DOMAIN InitialTable : InitialTable[i] = InitialTable[j] => i = j
  /\ Slots \in Nat /\ Len(InitialTable) <= Slots
  /\ Refusals \in BOOLEAN /\ LateErrors \in BOOLEAN
  /\ CancelReceipts \in BOOLEAN
  /\ MaxPays \in Nat /\ MaxDocs \in Nat /\ MaxRestarts \in Nat

VARIABLES
  \* the printer
  table,                \* payment methods by slot
  kind,                 \* the document it has open, or printed last
  stage,                \* how far that document is
  paid,                 \* its payments
  issued,               \* those that have their voucher
  \* the driver
  m_fpgto,              \* cached names of the table
  m_vinc_ccd,           \* cached voucher flags of the table
  m_use_ccd,            \* voucher flag of each payment
  m_pgto_seq,           \* index of the last payment a voucher was opened for
  m_dont_pay,           \* payments are suppressed
  answer,               \* of the last command
  \* the client, and what happened to this document
  direct,               \* the receipt is paid without a subtotal
  outgoing,             \* the printer has registered an outgoing totaliser
  named,                \* an outgoing one was asked for, registered or not
  disturbed,            \* driver and printer may have lost each other since
  docs, restarts

docVars == <<kind, stage, paid, issued, direct, outgoing, named, disturbed, docs>>
cacheVars == <<m_fpgto, m_vinc_ccd>>
sequenceVars == <<m_use_ccd, m_pgto_seq>>
driverVars == <<cacheVars, sequenceVars, m_dont_pay>>
vars == <<table, docVars, driverVars, answer, restarts>>

IDX_NOT_FOUND == -1

Answers == {"none", "ok", "error", "suppressed", "unavailable"}

TypeOK ==
  /\ table \in Seq(Methods)
  /\ kind \in {"none", "coupon", "receipt"}
  /\ stage \in {"items", "subtotal", "totals", "closed", "voucher"}
  /\ paid \in Seq(Methods)
  /\ issued \subseteq DOMAIN paid
  /\ m_fpgto \in Seq(Methods)
  /\ m_vinc_ccd \in Seq(BOOLEAN)
  /\ m_use_ccd \in Seq(BOOLEAN)
  /\ m_pgto_seq \in Nat \cup {IDX_NOT_FOUND}
  /\ m_dont_pay \in BOOLEAN
  /\ answer \in Answers
  /\ direct \in BOOLEAN /\ disturbed \in BOOLEAN
  /\ outgoing \in BOOLEAN /\ named \in BOOLEAN
  /\ docs \in Nat /\ restarts \in Nat

DriverInit ==
  /\ m_fpgto = <<>> /\ m_vinc_ccd = <<>>
  /\ m_use_ccd = <<>>
  /\ m_pgto_seq = IDX_NOT_FOUND
  /\ m_dont_pay = FALSE

Init ==
  /\ table = InitialTable
  /\ kind = "none" /\ stage = "closed"
  /\ paid = <<>> /\ issued = {}
  /\ DriverInit
  /\ answer = "none"
  /\ direct = FALSE /\ outgoing = FALSE /\ named = FALSE
  /\ disturbed = FALSE
  /\ docs = 0 /\ restarts = 0

-----------------------------------------------------------------------------
(* The printer, and check.                                                 *)

\* A call that was carried out: check returns, or throws all the same.
Returned(ok) == ok \in BOOLEAN /\ (ok \/ LateErrors)
Reply(ok) == IF ok THEN "ok" ELSE "error"

\* The printer refuses a call it could carry out only if Refusals says so.
Refuses(possible) == Refusals \/ ~possible

OpenDocument(k) ==
  /\ docs < MaxDocs
  /\ stage = "closed"
  /\ kind' = k /\ stage' = "items"
  /\ paid' = <<>> /\ issued' = {}
  /\ direct' = FALSE /\ outgoing' = FALSE /\ named' = FALSE
  /\ disturbed' = FALSE
  /\ docs' = docs + 1

\* The document goes on; whether the driver heard of it (ok) matters to what it
\* keeps of the document.
GoesOn(s, ok) ==
  /\ stage' = s
  /\ disturbed' = IF ok THEN disturbed ELSE TRUE
  /\ UNCHANGED <<kind, paid, issued, direct, outgoing, named, docs>>
MoveTo(s) == GoesOn(s, TRUE)

CancelDocument ==
  /\ kind' = "none" /\ stage' = "closed"
  /\ paid' = <<>> /\ issued' = {}
  /\ direct' = FALSE /\ outgoing' = FALSE /\ named' = FALSE
  /\ UNCHANGED <<disturbed, docs>>

TakesPayment == stage = "totals" \/ (direct /\ stage = "items")

\* The voucher of payment n, of method m, can be opened.
TakesVoucher(n, m) ==
  /\ stage = "closed"
  /\ n \in DOMAIN paid \ issued
  /\ paid[n] = m /\ m \in Linked

-----------------------------------------------------------------------------
(* Table of payment methods.                                               *)

Flags(t) == [i \in DOMAIN t |-> t[i] \in Linked]

Cached(m) == \E i \in DOMAIN m_fpgto : m_fpgto[i] = m

\* get_id_forma_pgto: a name that is not cached has the whole table read.
Reload == m_fpgto' = table /\ m_vinc_ccd' = Flags(table)
LookUp(m) == IF Cached(m) THEN UNCHANGED cacheVars ELSE Reload

\* The read may fail, and then nothing changes.
LookUpFails(m) ==
  /\ Refusals \/ LateErrors
  /\ ~Cached(m)
  /\ answer' = "error"
  /\ UNCHANGED <<table, docVars, driverVars, restarts>>

\* m is at index i of the table that was looked up.
FoundAt(m, i) ==
  /\ i \in DOMAIN m_fpgto' /\ m_fpgto'[i] = m
  /\ \A k \in 1..(i - 1) : m_fpgto'[k] # m
Missing(m) == \A i \in DOMAIN m_fpgto' : m_fpgto'[i] # m

\* Mutant: the new name is added to the cache, without its flag.
set_forma_pgtoAdds(m) ==
  /\ UNCHANGED <<docVars, sequenceVars, m_dont_pay, restarts>>
  /\ ~Cached(m) /\ m \notin Range(table) /\ Len(table) < Slots
  /\ table' = Append(table, m)
  /\ answer' = "ok"
  /\ m_fpgto' = Append(table, m) /\ m_vinc_ccd' = Flags(table)

\* The names are dropped after a method was programmed, the flags are not.
\* The table is read once more for a free slot, and that may fail too.
set_forma_pgto(m) ==
  /\ UNCHANGED <<docVars, sequenceVars, m_dont_pay, restarts>>
  /\ \/ /\ Cached(m)
        /\ answer' = "ok" /\ UNCHANGED <<table, cacheVars>>
     \/ /\ ~Cached(m) /\ m \in Range(table)
        /\ answer' = "ok" /\ Reload /\ UNCHANGED table
     \/ /\ ~Cached(m) /\ m \notin Range(table)
        /\ Len(table) < Slots
        /\ table' = Append(table, m)
        /\ \E ok \in BOOLEAN :
             /\ Returned(ok)
             /\ answer' = Reply(ok)
             /\ m_fpgto' = IF ok THEN <<>> ELSE table
             /\ m_vinc_ccd' = Flags(table)
     \/ /\ ~Cached(m) /\ m \notin Range(table)
        /\ Refuses(Len(table) < Slots) \/ LateErrors
        /\ answer' = "error" /\ Reload /\ UNCHANGED table

SetFormaPgto(m) == set_forma_pgto(m) \/ LookUpFails(m)

-----------------------------------------------------------------------------
(* Coupons and receipts.                                                   *)

\* A refused call leaves everything but what the driver did before it.
Refused(possible) ==
  /\ Refuses(possible)
  /\ answer' = "error"
  /\ UNCHANGED docVars

abre_cupom ==
  /\ \/ OpenDocument("coupon") /\ \E ok \in BOOLEAN :
          Returned(ok) /\ answer' = Reply(ok)
     \/ docs < MaxDocs /\ Refused(stage = "closed")
  /\ UNCHANGED <<table, driverVars, restarts>>

abre_recibo ==
  /\ \/ OpenDocument("receipt") /\ \E ok \in BOOLEAN :
          Returned(ok) /\ answer' = Reply(ok)
     \/ docs < MaxDocs /\ Refused(stage = "closed")
  /\ UNCHANGED <<table, driverVars, restarts>>

\* Mutant: the next totaliser decides alone.
reg_nao_fiscalLast(tot) ==
  /\ kind = "receipt" /\ stage = "items" /\ ~direct
  /\ m_dont_pay' = (tot = "out")
  /\ named' = (named \/ tot = "out")
  /\ outgoing' = (outgoing \/ tot = "out")
  /\ answer' = "ok"
  /\ UNCHANGED <<table, kind, stage, paid, issued, direct, disturbed, docs,
                 cacheVars, sequenceVars, restarts>>

\* The driver looks for the totaliser in the printer's table and gives its index
\* to the printer; it fails by itself where the table has no such totaliser.
Register(tot) ==
  \/ /\ outgoing' = (outgoing \/ tot = "out")
     /\ \E ok \in BOOLEAN : Returned(ok) /\ answer' = Reply(ok)
  \/ answer' = "error" /\ UNCHANGED outgoing

\* A totaliser is outgoing if cnf_saida has its name; the flag is set first.
reg_nao_fiscal(tot) ==
  /\ kind = "receipt" /\ stage = "items" /\ ~direct
  /\ m_dont_pay' = (m_dont_pay \/ tot = "out")
  /\ named' = (named \/ tot = "out")
  /\ Register(tot)
  /\ UNCHANGED <<table, kind, stage, paid, issued, direct, disturbed, docs,
                 cacheVars, sequenceVars, restarts>>

\* Mutant: the index is reset one too low.
ClearSequenceLow == m_use_ccd' = <<>> /\ m_pgto_seq' = IDX_NOT_FOUND - 1

ClearSequence == m_use_ccd' = <<>> /\ m_pgto_seq' = IDX_NOT_FOUND

\* Three calls: subtotal, surcharge, total.  Any may fail; the record of the
\* last document is cleared when all succeeded.
inicia_fechamento ==
  /\ kind = "coupon"
  /\ \/ /\ stage \in {"items", "subtotal"}
        /\ MoveTo("totals")
        /\ answer' = "ok"
        /\ ClearSequence
     \/ /\ stage \in {"items", "subtotal"}
        /\ \/ (Refusals \/ LateErrors) /\ MoveTo("subtotal")
           \/ LateErrors /\ GoesOn("totals", FALSE)
        /\ answer' = "error"
        /\ UNCHANGED sequenceVars
     \/ Refused(stage \in {"items", "subtotal"}) /\ UNCHANGED sequenceVars
  /\ UNCHANGED <<table, cacheVars, m_dont_pay, restarts>>

\* Without a type (NO_OP) the printer is not called.
inicia_fechamento_nao_fiscal(type) ==
  /\ kind = "receipt"
  /\ \/ /\ type = "NO_OP"
        /\ stage = "items" /\ ~direct
        /\ direct' = TRUE
        /\ answer' = "ok"
        /\ ClearSequence
        /\ UNCHANGED <<kind, stage, paid, issued, outgoing, named,
                       disturbed, docs>>
     \/ /\ type = "mode"
        /\ stage = "items" /\ paid = <<>>
        /\ \E ok \in BOOLEAN :
             /\ Returned(ok)
             /\ GoesOn("totals", ok)
             /\ answer' = Reply(ok)
             /\ IF ok THEN ClearSequence ELSE UNCHANGED sequenceVars
     \/ /\ type = "mode"
        /\ Refused(stage = "items" /\ paid = <<>>)
        /\ UNCHANGED sequenceVars
     \/ /\ type = "other"
        /\ answer' = "error"
        /\ UNCHANGED <<docVars, sequenceVars>>
  /\ UNCHANGED <<table, cacheVars, m_dont_pay, restarts>>

\* Mutant: the flag is recorded before the printer is asked.
RecordPaymentFirst(m) ==
  \E i \in DOMAIN m_fpgto' :
    /\ FoundAt(m, i)
    /\ m_use_ccd' = Append(m_use_ccd, m_vinc_ccd'[i])
    /\ \/ /\ TakesPayment
          /\ paid' = Append(paid, table[i])
          /\ answer' = "ok"
          /\ UNCHANGED <<kind, stage, issued, direct, outgoing, named,
                         disturbed, docs>>
       \/ Refused(TakesPayment)

\* The method is found and its slot given to the printer; the flag of the
\* slot is recorded only if check returns.
RecordPayment(m) ==
  \E i \in DOMAIN m_fpgto' :
    /\ FoundAt(m, i)
    /\ \/ /\ TakesPayment
          /\ paid' = Append(paid, table[i])
          /\ UNCHANGED <<kind, stage, issued, direct, outgoing, named, docs>>
          /\ \E ok \in BOOLEAN :
               /\ Returned(ok)
               /\ disturbed' = IF ok THEN disturbed ELSE TRUE
               /\ answer' = Reply(ok)
               /\ m_use_ccd' = IF ok THEN Append(m_use_ccd, m_vinc_ccd'[i])
                               ELSE m_use_ccd
       \/ Refused(TakesPayment) /\ UNCHANGED m_use_ccd

\* Payments of coupons and, through lcto_nao_fiscal, of receipts.
pagamento(m) ==
  /\ Len(paid) < MaxPays
  /\ UNCHANGED <<table, m_pgto_seq, m_dont_pay, restarts>>
  /\ \/ /\ m_dont_pay
        /\ TakesPayment
        /\ answer' = "suppressed"
        /\ UNCHANGED <<docVars, cacheVars, m_use_ccd>>
     \/ /\ ~m_dont_pay
        /\ LookUp(m)
        /\ \/ RecordPayment(m)
           \/ /\ Missing(m)
              /\ answer' = "error"
              /\ UNCHANGED <<docVars, m_use_ccd>>

Pagamento(m) ==
  \/ pagamento(m)
  \/ ~m_dont_pay /\ LookUpFails(m)

fecha_cupom ==
  /\ kind = "coupon"
  /\ \/ /\ stage = "totals" /\ paid # <<>>
        /\ MoveTo("closed")
        /\ \E ok \in BOOLEAN : Returned(ok) /\ answer' = Reply(ok)
     \/ Refused(stage = "totals" /\ paid # <<>>)
  /\ UNCHANGED <<table, driverVars, restarts>>

\* Mutant: the payment flag is not reset.
fecha_reciboKeeps ==
  /\ kind = "receipt" /\ stage \in {"items", "totals"}
  /\ \/ MoveTo("closed") /\ answer' = "ok"
     \/ Refused(TRUE)
  /\ UNCHANGED <<table, driverVars, restarts>>

\* The payment flag is reset before the call.
fecha_recibo ==
  /\ kind = "receipt" /\ stage \in {"items", "totals"}
  /\ m_dont_pay' = FALSE
  /\ \/ MoveTo("closed") /\ \E ok \in BOOLEAN :
          Returned(ok) /\ answer' = Reply(ok)
     \/ Refused(TRUE)
  /\ UNCHANGED <<table, cacheVars, sequenceVars, restarts>>

cancela_cupom ==
  /\ kind = "coupon"
  /\ \/ stage # "voucher" /\ CancelDocument /\ \E ok \in BOOLEAN :
          Returned(ok) /\ answer' = Reply(ok)
     \/ Refused(stage # "voucher")
  /\ UNCHANGED <<table, driverVars, restarts>>

cancela_recibo ==
  /\ kind = "receipt"
  /\ stage = "closed" \/ CancelReceipts
  /\ \/ stage # "voucher" /\ CancelDocument /\ \E ok \in BOOLEAN :
          Returned(ok) /\ answer' = Reply(ok)
     \/ Refused(stage # "voucher")
  /\ UNCHANGED <<table, driverVars, restarts>>

-----------------------------------------------------------------------------
(* Vouchers.                                                               *)

\* get_next_pgto_ccd: the first flag set at or after the last index plus one
\* (indexes from 0); without any record, the index after the last.
UsableFrom(i) == {j \in DOMAIN m_use_ccd : j > i /\ m_use_ccd[j]}
\* Mutants: the search does not stop at the first flag; it starts one later; it
\* does not guess without a record.
NextIndexLast(idx) ==
  \/ /\ UsableFrom(m_pgto_seq + 1) = {}
     /\ idx = IDX_NOT_FOUND
  \/ /\ idx + 1 \in UsableFrom(m_pgto_seq + 1)
     /\ \A j \in UsableFrom(m_pgto_seq + 1) : idx + 1 >= j
NextIndexLater(idx) ==
  \/ /\ UsableFrom(m_pgto_seq + 2) = {}
     /\ idx = IDX_NOT_FOUND
  \/ /\ idx + 1 \in UsableFrom(m_pgto_seq + 2)
     /\ \A j \in UsableFrom(m_pgto_seq + 2) : idx + 1 <= j
NextIndexSure(idx) ==
  \/ /\ UsableFrom(m_pgto_seq + 1) = {}
     /\ idx = IDX_NOT_FOUND
  \/ /\ idx + 1 \in UsableFrom(m_pgto_seq + 1)
     /\ \A j \in UsableFrom(m_pgto_seq + 1) : idx + 1 <= j

NextIndex(idx) ==
  \/ /\ m_use_ccd = <<>>
     /\ idx = IDX_NOT_FOUND + 1
  \/ /\ m_use_ccd # <<>>
     /\ \/ /\ UsableFrom(m_pgto_seq + 1) = {}
           /\ idx = IDX_NOT_FOUND
        \/ /\ idx + 1 \in UsableFrom(m_pgto_seq + 1)
           /\ \A j \in UsableFrom(m_pgto_seq + 1) : idx + 1 <= j

\* What vouchers are for, in the same variables.
Doc == INSTANCE Vouchers

\* The client asks for the voucher that is due, unless a refusal confused it.
Asks(m) ==
  /\ stage = "closed" /\ kind # "none"
  /\ \/ Refusals /\ disturbed
     \/ \A n \in DOMAIN paid : Doc!Due(n) => paid[n] = m

\* A voucher that could be had is refused: the driver has counted it.
VoucherRefused(possible) ==
  /\ Refuses(possible)
  /\ answer' = "error"
  /\ disturbed' = IF possible THEN TRUE ELSE disturbed
  /\ UNCHANGED <<kind, stage, paid, issued, direct, outgoing, named, docs>>

\* The sequence has moved on when the printer is called.
abre_credito_debito(m) ==
  /\ Asks(m)
  /\ LookUp(m)
  /\ \E idx \in IDX_NOT_FOUND..Len(m_use_ccd) :
       /\ NextIndex(idx)
       /\ m_pgto_seq' = idx
       /\ \/ /\ idx = IDX_NOT_FOUND
             /\ answer' = "unavailable"
             /\ UNCHANGED docVars
          \/ /\ idx # IDX_NOT_FOUND
             /\ TakesVoucher(idx + 1, m)
             /\ ~Missing(m)
             /\ issued' = issued \cup {idx + 1}
             /\ stage' = "voucher"
             /\ UNCHANGED <<kind, paid, direct, outgoing, named, disturbed, docs>>
             /\ \E ok \in BOOLEAN : Returned(ok) /\ answer' = Reply(ok)
          \/ /\ idx # IDX_NOT_FOUND
             /\ VoucherRefused(TakesVoucher(idx + 1, m) /\ ~Missing(m))
  /\ UNCHANGED <<table, m_use_ccd, m_dont_pay, restarts>>

AbreCreditoDebito(m) ==
  \/ abre_credito_debito(m)
  \/ Asks(m) /\ LookUpFails(m)

fecha_ccd ==
  /\ stage = "voucher"
  /\ m_dont_pay' = FALSE
  /\ \/ MoveTo("closed") /\ \E ok \in BOOLEAN :
          Returned(ok) /\ answer' = Reply(ok)
     \/ Refused(TRUE)
  /\ UNCHANGED <<table, cacheVars, sequenceVars, restarts>>

-----------------------------------------------------------------------------
\* A stop, or a kill, and a start of the service: a new driver object.
Restart ==
  /\ restarts < MaxRestarts
  /\ restarts' = restarts + 1
  /\ m_fpgto' = <<>> /\ m_vinc_ccd' = <<>>
  /\ ClearSequence
  /\ m_dont_pay' = FALSE
  /\ disturbed' = TRUE
  /\ answer' = "none"
  /\ UNCHANGED <<table, kind, stage, paid, issued, direct, outgoing, named, docs>>

Next ==
  \/ \E m \in Methods : SetFormaPgto(m) \/ Pagamento(m) \/ AbreCreditoDebito(m)
  \/ abre_cupom \/ abre_recibo
  \/ \E tot \in {"in", "out"} : reg_nao_fiscal(tot)
  \/ inicia_fechamento
  \/ \E type \in {"NO_OP", "mode", "other"} : inicia_fechamento_nao_fiscal(type)
  \/ fecha_cupom \/ fecha_recibo
  \/ cancela_cupom \/ cancela_recibo
  \/ fecha_ccd
  \/ Restart

Spec == Init /\ [][Next]_vars

-----------------------------------------------------------------------------
(* Properties.                                                             *)

\* The record of get_next_pgto_ccd has, for each payment of the last document,
\* the voucher flag of that payment, whatever was refused, cancelled or closed
\* in between, until a restart or an error reported for what was carried out.
UseMatchesPaid ==
  paid # <<>> /\ ~disturbed => m_use_ccd = Flags(paid)

\* The cached names and flags are the printer's, slot by slot, although
\* set_forma_pgto drops only the names and may fail after it programmed.
CacheHonest ==
  /\ \A i \in DOMAIN m_fpgto : i \in DOMAIN table /\ m_fpgto[i] = table[i]
  /\ \A i \in DOMAIN m_vinc_ccd :
       i \in DOMAIN table /\ m_vinc_ccd[i] = (table[i] \in Linked)
  /\ Len(m_fpgto) <= Len(m_vinc_ccd)

\* The document that Vouchers speaks of, until it is disturbed.
V == INSTANCE Vouchers WITH paid <- IF disturbed THEN <<>> ELSE paid,
                            issued <- IF disturbed THEN {} ELSE issued

\* Payments are recorded and vouchers opened as Vouchers says: the sequence of
\* abre_credito_debito, which only counts, gives each linked payment its
\* voucher in turn.
VouchersInTurn == V!Spec

\* get_next_pgto_ccd says that no voucher is available only when every linked
\* payment of the document has one.
UnavailableMeansIssued ==
  answer = "unavailable" /\ ~disturbed =>
    \A n \in DOMAIN paid : paid[n] \in Linked => n \in issued

\* A payment is suppressed only on a receipt for which an outgoing totaliser was
\* asked for (set_dont_pay), registered or not; it does not outlive the receipt,
\* if receipts are closed before they are cancelled.
SuppressedOnlyWhereNamed ==
  answer = "suppressed" => kind = "receipt" /\ named

\* The printer records no payment on a receipt with an outgoing totaliser.
OutgoingUnpaid == outgoing /\ ~disturbed => paid = <<>>

\* Payments are suppressed on receipts and on no other document: what the comment
\* of set_dont_pay says ("em comprovantes nao fiscais").
SuppressedOnlyOnReceipts == answer = "suppressed" => kind = "receipt"

\* Not so in the code.  Payments are suppressed only on receipts that have an
\* outgoing totaliser: what the comment of set_dont_pay says ("de saida").
SuppressedOnlyOnOutgoing == answer = "suppressed" => outgoing

\* A voucher of a document with one payment is still asked for by the right
\* ordinal after a restart.
OneCardSurvivesRestart ==
  stage = "closed" /\ Len(paid) = 1 /\ paid[1] \in Linked /\ issued = {} =>
    NextIndex(0)
=============================================================================
