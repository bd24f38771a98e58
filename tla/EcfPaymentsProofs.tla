------------------------- MODULE EcfPaymentsProofs --------------------------
(* Proofs about EcfPayments, for every table, set of methods and bound.    *)
EXTENDS EcfPayments, SequenceTheorems, TLAPS

Typed == TypeOK /\ CacheHonest

-----------------------------------------------------------------------------
(* The cache.                                                              *)

\* The flags of a table are one truth value for each slot.
LEMMA FlagsTyped ==
  ASSUME NEW t \in Seq(Methods)
  PROVE  /\ Flags(t) \in Seq(BOOLEAN)
         /\ DOMAIN Flags(t) = 1..Len(t) /\ Len(Flags(t)) = Len(t)
         /\ \A i \in 1..Len(t) : Flags(t)[i] = (t[i] \in Linked)
<1>1. Len(t) \in Nat /\ DOMAIN t = 1..Len(t)
  BY LenProperties
<1>2. DOMAIN Flags(t) = 1..Len(t)
  BY <1>1 DEF Flags
<1>3. \A i \in 1..Len(t) : Flags(t)[i] = (t[i] \in Linked)
  BY <1>1 DEF Flags
<1>4. Flags(t) \in [1..Len(t) -> BOOLEAN]
  <2>1. Flags(t) = [i \in 1..Len(t) |-> t[i] \in Linked]
    BY <1>1 DEF Flags
  <2>2. \A i \in 1..Len(t) : (t[i] \in Linked) \in BOOLEAN
    OBVIOUS
  <2> QED BY <2>1, <2>2, Zenon
<1>5. Flags(t) \in Seq(BOOLEAN)
  BY <1>1, <1>4
<1>6. Len(Flags(t)) = Len(t)
  BY <1>1, <1>2, <1>5, LenProperties
<1> QED BY <1>2, <1>3, <1>5, <1>6

\* The cache after a look-up is as honest as before, and well typed.
LEMMA LookUpTyped ==
  ASSUME Typed, NEW m, LookUp(m), UNCHANGED table
  PROVE  /\ m_fpgto' \in Seq(Methods) /\ m_vinc_ccd' \in Seq(BOOLEAN)
         /\ CacheHonest'
<1>1. CASE UNCHANGED cacheVars
  BY <1>1 DEF Typed, TypeOK, CacheHonest, cacheVars
<1>2. CASE Reload
  <2>1. table \in Seq(Methods)
    BY DEF Typed, TypeOK
  <2>2. /\ Flags(table) \in Seq(BOOLEAN) /\ DOMAIN Flags(table) = DOMAIN table
        /\ Len(Flags(table)) = Len(table)
        /\ \A i \in DOMAIN table : Flags(table)[i] = (table[i] \in Linked)
    BY <2>1, FlagsTyped, LenProperties
  <2> QED BY <1>2, <2>1, <2>2 DEF Typed, TypeOK, CacheHonest, Reload
<1> QED BY <1>1, <1>2 DEF LookUp

\* Programming a method keeps the cache honest, whatever was answered.
LEMMA ProgramTyped ==
  ASSUME Typed, NEW m \in Methods, set_forma_pgto(m)
  PROVE  Typed'
<1>1. UNCHANGED <<docVars, sequenceVars, m_dont_pay, restarts>> /\ answer' \in Answers
  BY DEF set_forma_pgto, Reply, Answers
<1>2. CASE UNCHANGED <<table, cacheVars>>
  BY <1>1, <1>2 DEF Typed, TypeOK, CacheHonest, docVars, sequenceVars, cacheVars
<1>3. CASE Reload /\ UNCHANGED table
  <2>1. m_fpgto' \in Seq(Methods) /\ m_vinc_ccd' \in Seq(BOOLEAN) /\ CacheHonest'
    <3>1. table \in Seq(Methods)
      BY DEF Typed, TypeOK
    <3>2. /\ Flags(table) \in Seq(BOOLEAN) /\ DOMAIN Flags(table) = DOMAIN table
          /\ Len(Flags(table)) = Len(table)
          /\ \A i \in DOMAIN table : Flags(table)[i] = (table[i] \in Linked)
      BY <3>1, FlagsTyped, LenProperties
    <3> QED BY <1>3, <3>1, <3>2 DEF Typed, TypeOK, CacheHonest, Reload
  <2> QED BY <1>1, <1>3, <2>1 DEF Typed, TypeOK, docVars, sequenceVars
<1>4. CASE /\ table' = Append(table, m)
           /\ \E ok \in BOOLEAN : m_fpgto' = IF ok THEN <<>> ELSE table
           /\ m_vinc_ccd' = Flags(table)
  <2>1. table \in Seq(Methods)
    BY DEF Typed, TypeOK
  <2>2. /\ Flags(table) \in Seq(BOOLEAN) /\ DOMAIN Flags(table) = DOMAIN table
        /\ Len(Flags(table)) = Len(table)
        /\ \A i \in DOMAIN table : Flags(table)[i] = (table[i] \in Linked)
    BY <2>1, FlagsTyped, LenProperties
  <2>3. /\ table' \in Seq(Methods) /\ DOMAIN table \subseteq DOMAIN table'
        /\ \A i \in DOMAIN table : table'[i] = table[i]
    BY <1>4 DEF Typed, TypeOK
  <2>4. m_fpgto' \in Seq(Methods) /\ m_fpgto' \in {<<>>, table}
    BY <1>4 DEF Typed, TypeOK
  <2>5. CacheHonest'
    BY <1>4, <2>1, <2>2, <2>3, <2>4 DEF CacheHonest, Typed, TypeOK
  <2> QED BY <1>1, <1>4, <2>2, <2>3, <2>4, <2>5 DEF Typed, TypeOK, docVars, sequenceVars
<1> QED BY <1>2, <1>3, <1>4 DEF set_forma_pgto

-----------------------------------------------------------------------------
(* Types, for every step.                                                  *)

\* Where table and cache are left alone the cache stays honest.
LEMMA CacheKept ==
  ASSUME CacheHonest, UNCHANGED <<table, cacheVars>>
  PROVE  CacheHonest'
BY DEF CacheHonest, cacheVars

\* A read of the table that failed changes only the answer.
LEMMA LookUpFailsTyped ==
  ASSUME Typed, NEW m, LookUpFails(m)
  PROVE  Typed'
<1>1. CacheHonest'
  BY CacheKept DEF Typed, LookUpFails, driverVars
<1> QED BY <1>1 DEF Typed, TypeOK, LookUpFails, Answers, docVars, driverVars,
                    cacheVars, sequenceVars

\* What is appended to the record is a flag, and to the payments a method.
LEMMA PagamentoTyped ==
  ASSUME Typed, NEW m \in Methods, pagamento(m)
  PROVE  Typed'
<1>1. UNCHANGED <<table, m_pgto_seq, m_dont_pay, restarts>>
  BY DEF pagamento
<1>2. CASE m_dont_pay
  <2>1. answer' = "suppressed" /\ UNCHANGED <<docVars, cacheVars, m_use_ccd>>
    BY <1>2 DEF pagamento
  <2>2. CacheHonest'
    BY <1>1, <2>1, CacheKept DEF Typed
  <2> QED BY <1>1, <2>1, <2>2 DEF Typed, TypeOK, Answers, docVars, cacheVars
<1>3. CASE ~m_dont_pay
  <2>1. LookUp(m)
    BY <1>3 DEF pagamento
  <2>2. /\ m_fpgto' \in Seq(Methods) /\ m_vinc_ccd' \in Seq(BOOLEAN)
        /\ CacheHonest'
    BY <1>1, <2>1, LookUpTyped
  <2>3. CASE RecordPayment(m)
    <3>1. PICK i \in DOMAIN m_fpgto' :
            \/ /\ paid' = Append(paid, table[i])
               /\ UNCHANGED <<kind, stage, issued, direct, outgoing, named, docs>>
               /\ disturbed' \in {disturbed, TRUE}
               /\ answer' \in Answers
               /\ m_use_ccd' \in {m_use_ccd, Append(m_use_ccd, m_vinc_ccd'[i])}
            \/ UNCHANGED <<docVars, m_use_ccd>> /\ answer' \in Answers
      BY <2>3 DEF RecordPayment, Refused, Returned, Reply, Answers
    <3>2. table[i] \in Methods /\ m_vinc_ccd'[i] \in BOOLEAN
      <4>1. i \in DOMAIN table /\ i \in DOMAIN m_vinc_ccd'
        BY <1>1, <2>2 DEF CacheHonest
      <4> QED BY <2>2, <4>1 DEF Typed, TypeOK
    <3>3. Append(m_use_ccd, m_vinc_ccd'[i]) \in Seq(BOOLEAN)
      BY <3>2 DEF Typed, TypeOK
    <3>4. Append(paid, table[i]) \in Seq(Methods)
          /\ DOMAIN paid \subseteq DOMAIN Append(paid, table[i])
      BY <3>2 DEF Typed, TypeOK
    <3>5. paid' \in Seq(Methods) /\ DOMAIN paid \subseteq DOMAIN paid'
      BY <3>1, <3>4 DEF Typed, TypeOK, docVars
    <3>6. m_use_ccd' \in Seq(BOOLEAN)
      BY <3>1, <3>3 DEF Typed, TypeOK
    <3>7. UNCHANGED <<kind, stage, issued, direct, outgoing, named, docs>>
      BY <3>1 DEF docVars
    <3>8. disturbed' \in BOOLEAN /\ answer' \in Answers
      BY <3>1 DEF docVars, Typed, TypeOK
    <3> QED BY <1>1, <2>2, <3>5, <3>6, <3>7, <3>8 DEF Typed, TypeOK
  <2>4. CASE answer' = "error" /\ UNCHANGED <<docVars, m_use_ccd>>
    BY <1>1, <2>2, <2>4 DEF Typed, TypeOK, Answers, docVars
  <2> QED BY <1>3, <2>3, <2>4 DEF pagamento
<1> QED BY <1>2, <1>3 DEF Typed, TypeOK

\* A voucher is marked only for a payment of the document.
LEMMA VoucherTyped ==
  ASSUME Typed, NEW m \in Methods, abre_credito_debito(m)
  PROVE  Typed'
<1>1. /\ m_fpgto' \in Seq(Methods) /\ m_vinc_ccd' \in Seq(BOOLEAN)
      /\ CacheHonest'
  BY LookUpTyped DEF abre_credito_debito
<1>2. /\ UNCHANGED <<table, m_use_ccd, m_dont_pay, restarts>>
      /\ answer' \in Answers
      /\ UNCHANGED <<kind, paid, direct, outgoing, named, docs>>
      /\ disturbed' \in {disturbed, TRUE}
      /\ stage' \in {stage, "voucher"}
      /\ issued' \subseteq DOMAIN paid
  BY DEF abre_credito_debito, VoucherRefused, Returned, Reply, Answers, TakesVoucher,
         docVars, Typed, TypeOK
<1>3. m_pgto_seq' \in Nat \cup {IDX_NOT_FOUND}
  <2>1. Len(m_use_ccd) \in Nat
    BY DEF Typed, TypeOK
  <2> QED BY <2>1 DEF abre_credito_debito, IDX_NOT_FOUND
<1> QED BY <1>1, <1>2, <1>3 DEF Typed, TypeOK

\* What the steps that neither read nor write the cache do to the rest.
Plain ==
  /\ UNCHANGED <<table, cacheVars, restarts>>
  /\ answer' \in Answers
  /\ kind' \in {kind, "none", "coupon", "receipt"}
  /\ stage' \in {stage, "items", "subtotal", "totals", "closed"}
  /\ UNCHANGED <<paid, issued>> \/ (paid' = <<>> /\ issued' = {})
  /\ UNCHANGED m_use_ccd \/ m_use_ccd' = <<>>
  /\ m_pgto_seq' \in {m_pgto_seq, IDX_NOT_FOUND}
  /\ m_dont_pay' \in BOOLEAN
  /\ direct' \in BOOLEAN /\ disturbed' \in BOOLEAN
  /\ outgoing' \in BOOLEAN /\ named' \in BOOLEAN
  /\ docs' \in {docs, docs + 1}

\* A document step keeps the types and the cache.
LEMMA PlainTyped ==
  ASSUME Typed, Plain
  PROVE  Typed'
<1>1. CacheHonest'
  BY CacheKept DEF Typed, Plain
<1>2. paid' \in Seq(Methods) /\ issued' \subseteq DOMAIN paid'
  BY EmptySeq DEF Typed, TypeOK, Plain
<1>3. m_use_ccd' \in Seq(BOOLEAN) /\ m_pgto_seq' \in Nat \cup {IDX_NOT_FOUND}
  BY EmptySeq DEF Typed, TypeOK, Plain
<1> QED BY <1>1, <1>2, <1>3 DEF Typed, TypeOK, Plain, cacheVars

\* The steps that neither read nor write the cache.
LEMMA DocumentPlain ==
  ASSUME Typed,
         \/ abre_cupom \/ abre_recibo
         \/ \E tot \in {"in", "out"} : reg_nao_fiscal(tot)
         \/ inicia_fechamento
         \/ \E type \in {"NO_OP", "mode", "other"} :
              inicia_fechamento_nao_fiscal(type)
         \/ fecha_cupom \/ fecha_recibo
         \/ cancela_cupom \/ cancela_recibo
         \/ fecha_ccd
  PROVE  Plain
<1>1. /\ m_dont_pay \in BOOLEAN /\ direct \in BOOLEAN /\ named \in BOOLEAN
      /\ disturbed \in BOOLEAN /\ outgoing \in BOOLEAN
  BY DEF Typed, TypeOK
<1>2. CASE abre_cupom
  BY <1>1, <1>2 DEF Plain, abre_cupom, OpenDocument, Refused, Returned, Reply, Answers,
     docVars, driverVars, sequenceVars
<1>3. CASE abre_recibo
  BY <1>1, <1>3 DEF Plain, abre_recibo, OpenDocument, Refused, Returned, Reply, Answers,
     docVars, driverVars, sequenceVars
<1>4. CASE inicia_fechamento
  BY <1>1, <1>4 DEF Plain, inicia_fechamento, MoveTo, GoesOn, ClearSequence, Refused, Returned, Reply, Answers,
     docVars, driverVars, sequenceVars
<1>5. CASE fecha_cupom
  BY <1>1, <1>5 DEF Plain, fecha_cupom, MoveTo, GoesOn, Refused, Returned, Reply, Answers,
     docVars, driverVars, sequenceVars
<1>6. CASE fecha_recibo
  BY <1>1, <1>6 DEF Plain, fecha_recibo, MoveTo, GoesOn, Refused, Returned, Reply, Answers,
     docVars, driverVars, sequenceVars
<1>7. CASE cancela_cupom
  BY <1>1, <1>7 DEF Plain, cancela_cupom, CancelDocument, Refused, Returned, Reply, Answers,
     docVars, driverVars, sequenceVars
<1>8. CASE cancela_recibo
  BY <1>1, <1>8 DEF Plain, cancela_recibo, CancelDocument, Refused, Returned, Reply, Answers,
     docVars, driverVars, sequenceVars
<1>9. CASE fecha_ccd
  BY <1>1, <1>9 DEF Plain, fecha_ccd, MoveTo, GoesOn, Refused, Returned, Reply, Answers,
     docVars, driverVars, sequenceVars
<1>10. CASE \E tot \in {"in", "out"} : reg_nao_fiscal(tot)
  BY <1>1, <1>10 DEF Plain, reg_nao_fiscal, Register, Returned, Reply, Answers,
     docVars, sequenceVars
<1>11. CASE \E type \in {"NO_OP", "mode", "other"} :
            inicia_fechamento_nao_fiscal(type)
  BY <1>1, <1>11 DEF Plain, inicia_fechamento_nao_fiscal, MoveTo, GoesOn,
     ClearSequence, Refused, Returned, Reply, Answers, docVars, sequenceVars
<1> QED BY <1>2, <1>3, <1>4, <1>5, <1>6, <1>7, <1>8, <1>9, <1>10, <1>11

\* Every step keeps the types and the cache.
LEMMA TypedStep ==
  ASSUME Typed, [Next]_vars
  PROVE  Typed'
<1>1. ASSUME NEW m \in Methods, SetFormaPgto(m)
      PROVE  Typed'
  BY <1>1, ProgramTyped, LookUpFailsTyped DEF SetFormaPgto
<1>2. ASSUME NEW m \in Methods, Pagamento(m)
      PROVE  Typed'
  BY <1>2, PagamentoTyped, LookUpFailsTyped DEF Pagamento
<1>3. ASSUME NEW m \in Methods, AbreCreditoDebito(m)
      PROVE  Typed'
  BY <1>3, VoucherTyped, LookUpFailsTyped DEF AbreCreditoDebito
<1>4. CASE Restart
  <2>1. /\ UNCHANGED <<table, kind, stage, paid, issued, direct, outgoing,
                       named, docs>>
        /\ m_fpgto' = <<>> /\ m_vinc_ccd' = <<>> /\ m_use_ccd' = <<>>
        /\ m_pgto_seq' = IDX_NOT_FOUND /\ m_dont_pay' = FALSE
        /\ disturbed' = TRUE /\ answer' = "none" /\ restarts' = restarts + 1
    BY <1>4 DEF Restart, ClearSequence
  <2>2. CacheHonest'
    BY <2>1 DEF CacheHonest
  <2>3. m_fpgto' \in Seq(Methods) /\ m_vinc_ccd' \in Seq(BOOLEAN)
        /\ m_use_ccd' \in Seq(BOOLEAN)
    BY <2>1, EmptySeq
  <2>4. m_dont_pay' \in BOOLEAN /\ disturbed' \in BOOLEAN
    BY <2>1, Zenon
  <2>5. /\ answer' \in Answers /\ restarts' \in Nat
        /\ m_pgto_seq' \in Nat \cup {IDX_NOT_FOUND}
    BY <2>1 DEF Typed, TypeOK, Answers
  <2> QED BY <2>1, <2>2, <2>3, <2>4, <2>5 DEF Typed, TypeOK
<1>5. CASE UNCHANGED vars
  <2>1. UNCHANGED <<table, docVars, cacheVars, sequenceVars, m_dont_pay, answer, restarts>>
    BY <1>5 DEF vars, driverVars
  <2>2. CacheHonest'
    BY <2>1, CacheKept DEF Typed
  <2> QED BY <2>1, <2>2 DEF Typed, TypeOK, docVars, cacheVars, sequenceVars
<1> QED BY <1>1, <1>2, <1>3, <1>4, <1>5, DocumentPlain, PlainTyped DEF Next

\* The driver starts with an empty cache.
LEMMA TypesInit == Init => Typed
<1>1. <<>> \in Seq(Methods) /\ <<>> \in Seq(BOOLEAN)
  BY EmptySeq
<1>2. Init => CacheHonest
  BY DEF Init, DriverInit, CacheHonest
<1>3. Init => /\ m_dont_pay \in BOOLEAN /\ direct \in BOOLEAN
              /\ named \in BOOLEAN /\ disturbed \in BOOLEAN
              /\ outgoing \in BOOLEAN
  BY Zenon DEF Init, DriverInit
<1>6. Init => /\ m_pgto_seq \in Nat \cup {IDX_NOT_FOUND}
              /\ answer \in Answers /\ docs \in Nat /\ restarts \in Nat
  BY DEF Init, DriverInit, Answers
<1>4. Init => /\ table \in Seq(Methods) /\ paid \in Seq(Methods)
              /\ m_fpgto \in Seq(Methods) /\ m_vinc_ccd \in Seq(BOOLEAN)
              /\ m_use_ccd \in Seq(BOOLEAN)
  BY <1>1, PaymentsAssumption DEF Init, DriverInit
<1>5. Init => /\ kind \in {"none", "coupon", "receipt"}
              /\ stage \in {"items", "subtotal", "totals", "closed", "voucher"}
              /\ issued \subseteq DOMAIN paid
  BY DEF Init
<1> QED BY <1>2, <1>3, <1>4, <1>5, <1>6 DEF Typed, TypeOK

\* The types of EcfPayments, and the cache that set_forma_pgto drops by halves
\* and get_id_forma_pgto reads again: always the printer's own table.
THEOREM TypesAndCache == Spec => [](TypeOK /\ CacheHonest)
<1>1. Init => Typed
  BY TypesInit
<1>2. Typed /\ [Next]_vars => Typed'
  BY TypedStep
<1>3. Typed => TypeOK /\ CacheHonest
  BY DEF Typed
<1> QED BY <1>1, <1>2, <1>3, PTL DEF Spec

-----------------------------------------------------------------------------
(* The record of the payments.                                             *)

\* No slots, no flags.
LEMMA FlagsEmpty == Flags(<<>>) = <<>>
<1>1. Flags(<<>>) \in Seq(BOOLEAN) /\ Len(Flags(<<>>)) = 0
  BY EmptySeq, FlagsTyped
<1> QED BY <1>1, EmptySeq

\* A payment adds its own flag to the flags.
LEMMA FlagsAppend ==
  ASSUME NEW t \in Seq(Methods), NEW x \in Methods
  PROVE  Flags(Append(t, x)) = Append(Flags(t), x \in Linked)
<1> DEFINE u == Append(t, x)
           f == Append(Flags(t), x \in Linked)
<1>1. u \in Seq(Methods) /\ Len(u) = Len(t) + 1 /\ Len(t) \in Nat
      /\ u[Len(t) + 1] = x /\ \A i \in 1..Len(t) : u[i] = t[i]
  OBVIOUS
<1>2. /\ Flags(t) \in Seq(BOOLEAN) /\ Len(Flags(t)) = Len(t)
      /\ \A i \in 1..Len(t) : Flags(t)[i] = (t[i] \in Linked)
  BY FlagsTyped
<1>3. /\ Flags(u) \in Seq(BOOLEAN) /\ Len(Flags(u)) = Len(t) + 1
      /\ \A i \in 1..(Len(t) + 1) : Flags(u)[i] = (u[i] \in Linked)
  BY <1>1, FlagsTyped
<1>4. (x \in Linked) \in BOOLEAN
  OBVIOUS
<1>5. f \in Seq(BOOLEAN) /\ Len(f) = Len(t) + 1
      /\ f[Len(t) + 1] = (x \in Linked) /\ \A i \in 1..Len(t) : f[i] = Flags(t)[i]
  BY <1>1, <1>2, <1>4
<1>6. \A i \in 1..(Len(t) + 1) : Flags(u)[i] = f[i]
  <2> TAKE i \in 1..(Len(t) + 1)
  <2>1. CASE i = Len(t) + 1
    BY <1>1, <1>3, <1>5, <2>1
  <2>2. CASE i \in 1..Len(t)
    <3>1. u[i] = t[i] /\ i \in DOMAIN u /\ i \in DOMAIN t
      BY <1>1, <2>2
    <3>2. f[i] = Flags(t)[i]
      BY <1>5, <2>2
    <3>3. Flags(u)[i] = Flags(t)[i]
      BY <3>1 DEF Flags
    <3> QED BY <3>2, <3>3
  <2>3. i = Len(t) + 1 \/ i \in 1..Len(t)
    BY <1>1
  <2> QED BY <2>1, <2>2, <2>3, Zenon
<1> QED BY <1>3, <1>5, <1>6, SeqEqual

\* No payment before the document is totalled, or taken without a subtotal.
Recorded ==
  /\ ~disturbed /\ (TakesPayment \/ paid # <<>>) => m_use_ccd = Flags(paid)
  /\ stage \in {"items", "subtotal"} /\ ~direct => paid = <<>>
  /\ kind = "coupon" => ~direct
  /\ stage = "subtotal" => kind = "coupon"

\* What a document step does: it opens, cancels, or begins the payments of a
\* document, moves it without touching payments, or disturbs it.
Opens ==
  /\ kind' \in {"coupon", "receipt"} /\ stage' = "items"
  /\ paid' = <<>> /\ issued' = {}
  /\ direct' = FALSE /\ disturbed' = FALSE
  /\ UNCHANGED sequenceVars
Cancels ==
  /\ kind' = "none" /\ stage' = "closed"
  /\ paid' = <<>> /\ issued' = {}
  /\ direct' = FALSE
  /\ UNCHANGED <<sequenceVars, disturbed>>
Begins ==
  /\ paid = <<>>
  /\ stage \in {"items", "subtotal"}
  /\ \/ stage' = "totals" /\ UNCHANGED direct
     \/ stage' = "items" /\ direct' = TRUE /\ kind = "receipt"
  /\ UNCHANGED <<kind, paid, issued, disturbed>>
  /\ m_use_ccd' = <<>> /\ m_pgto_seq' = IDX_NOT_FOUND
Moves ==
  /\ \/ UNCHANGED stage
     \/ stage' = "closed"
     \/ stage' = "subtotal" /\ kind = "coupon" /\ stage \in {"items", "subtotal"}
  /\ UNCHANGED <<kind, paid, issued, direct, disturbed, sequenceVars>>
Disturbs ==
  /\ stage \in {"items", "subtotal"} /\ stage' = "totals"
  /\ UNCHANGED <<kind, paid, issued, direct, sequenceVars>>
  /\ disturbed' = TRUE

DocumentCases == Opens \/ Cancels \/ Begins \/ Moves \/ Disturbs

\* Every document step is one of the five.
LEMMA DocumentSteps ==
  ASSUME Typed, Recorded,
         \/ abre_cupom \/ abre_recibo
         \/ \E tot \in {"in", "out"} : reg_nao_fiscal(tot)
         \/ inicia_fechamento
         \/ \E type \in {"NO_OP", "mode", "other"} :
              inicia_fechamento_nao_fiscal(type)
         \/ fecha_cupom \/ fecha_recibo
         \/ cancela_cupom \/ cancela_recibo
         \/ fecha_ccd
  PROVE  /\ DocumentCases /\ (~LateErrors => Opens \/ Cancels \/ Begins \/ Moves)
         /\ UNCHANGED table /\ answer' # "unavailable"
<1>1. CASE abre_cupom \/ abre_recibo
  BY <1>1 DEF DocumentCases, Opens, Moves, abre_cupom, abre_recibo, OpenDocument,
     Refused, Reply, Returned, docVars, driverVars, sequenceVars
<1>2. CASE \E tot \in {"in", "out"} : reg_nao_fiscal(tot)
  BY <1>2 DEF DocumentCases, Moves, reg_nao_fiscal, Register, Reply, Returned,
     docVars, sequenceVars
<1>3. CASE inicia_fechamento
  BY <1>3 DEF DocumentCases, Begins, Moves, Disturbs, inicia_fechamento, Recorded, MoveTo, GoesOn,
     ClearSequence, Refused, docVars, sequenceVars
<1>4. CASE \E type \in {"NO_OP", "mode", "other"} :
             inicia_fechamento_nao_fiscal(type)
  BY <1>4 DEF DocumentCases, Begins, Moves, Disturbs, inicia_fechamento_nao_fiscal,
     Recorded, MoveTo, GoesOn, ClearSequence, Refused, Returned, Reply, docVars,
     sequenceVars
<1>5. CASE fecha_cupom \/ fecha_recibo \/ fecha_ccd
  BY <1>5 DEF DocumentCases, Moves, fecha_cupom, fecha_recibo, fecha_ccd, MoveTo, GoesOn,
     Refused, Reply, Returned, docVars, driverVars, sequenceVars
<1>6. CASE cancela_cupom \/ cancela_recibo
  BY <1>6 DEF DocumentCases, Cancels, Moves, cancela_cupom, cancela_recibo,
     CancelDocument, Refused, Reply, Returned, docVars, driverVars, sequenceVars
<1> QED BY <1>1, <1>2, <1>3, <1>4, <1>5, <1>6

\* The record agrees with the document after a document step.
LEMMA DocumentRecorded ==
  ASSUME Recorded, DocumentCases
  PROVE  Recorded'
<1>1. CASE Opens
  BY <1>1 DEF Recorded, Opens, TakesPayment
<1>2. CASE Cancels
  BY <1>2 DEF Recorded, Cancels, TakesPayment
<1>3. CASE Begins
  BY <1>3, FlagsEmpty DEF Recorded, Begins, TakesPayment
<1>4. CASE Moves
  BY <1>4 DEF Recorded, Moves, TakesPayment, sequenceVars
<1>5. CASE Disturbs
  BY <1>5 DEF Recorded, Disturbs
<1> QED BY <1>1, <1>2, <1>3, <1>4, <1>5 DEF DocumentCases

\* A payment the printer takes is recorded with the flag of its own slot; one
\* that is refused, suppressed or unknown leaves both lists as they are; one
\* that check throws for disturbs the document.
LEMMA PaymentSteps ==
  ASSUME Typed, NEW m \in Methods, pagamento(m)
  PROVE  /\ UNCHANGED <<table, kind, stage, issued, direct, m_pgto_seq>>
         /\ answer' # "unavailable"
         /\ \/ UNCHANGED <<paid, m_use_ccd, disturbed>>
            \/ \E i \in DOMAIN table :
                 /\ TakesPayment
                 /\ table[i] \in Methods
                 /\ paid' = Append(paid, table[i])
                 /\ \/ /\ m_use_ccd' = Append(m_use_ccd, table[i] \in Linked)
                       /\ UNCHANGED disturbed
                    \/ LateErrors /\ disturbed' = TRUE
<1>1. CASE m_dont_pay
  BY <1>1 DEF pagamento, docVars
<1>2. CASE ~m_dont_pay
  <2>1. UNCHANGED table /\ LookUp(m)
    BY <1>2 DEF pagamento
  <2>2. CacheHonest'
    BY <2>1, LookUpTyped
  <2>3. CASE RecordPayment(m)
    <3>1. PICK i \in DOMAIN m_fpgto' :
            \/ /\ TakesPayment
               /\ paid' = Append(paid, table[i])
               /\ UNCHANGED <<kind, stage, issued, direct>>
               /\ answer' # "unavailable"
               /\ \/ /\ m_use_ccd' = Append(m_use_ccd, m_vinc_ccd'[i])
                     /\ UNCHANGED disturbed
                  \/ LateErrors /\ disturbed' = TRUE
            \/ UNCHANGED <<docVars, m_use_ccd>> /\ answer' = "error"
      BY <2>3 DEF RecordPayment, Refused, Returned, Reply
    <3>2. i \in DOMAIN table /\ m_vinc_ccd'[i] = (table[i] \in Linked)
      <4>1. i \in DOMAIN m_vinc_ccd'
        <5>1. m_fpgto' \in Seq(Methods) /\ m_vinc_ccd' \in Seq(BOOLEAN)
          BY <2>1, LookUpTyped
        <5> QED BY <2>2, <5>1 DEF CacheHonest
      <4> QED BY <2>1, <2>2, <4>1 DEF CacheHonest
    <3>3. table[i] \in Methods
      BY <3>2 DEF Typed, TypeOK
    <3> QED BY <1>2, <3>1, <3>2, <3>3 DEF pagamento, docVars
  <2>4. CASE answer' = "error" /\ UNCHANGED <<docVars, m_use_ccd>>
    BY <1>2, <2>4 DEF pagamento, docVars
  <2> QED BY <1>2, <2>3, <2>4 DEF pagamento
<1> QED BY <1>1, <1>2 DEF Typed, TypeOK

\* A payment never puts a disturbed document right.
LEMMA PaymentDisturbs ==
  ASSUME NEW m \in Methods, pagamento(m)
  PROVE  ~disturbed' => ~disturbed
BY DEF pagamento, RecordPayment, Refused, docVars

\* Every step keeps the record in agreement with the document.
LEMMA RecordedStep ==
  ASSUME Typed, Recorded, [Next]_vars
  PROVE  Recorded'
<1>1. ASSUME NEW m \in Methods, SetFormaPgto(m)
      PROVE  Recorded'
  BY <1>1 DEF SetFormaPgto, set_forma_pgto, LookUpFails, Recorded, TakesPayment,
     docVars, driverVars, sequenceVars
<1>2. ASSUME NEW m \in Methods, Pagamento(m)
      PROVE  Recorded'
  <2>1. CASE LookUpFails(m)
    BY <2>1 DEF LookUpFails, Recorded, TakesPayment, docVars, driverVars,
       sequenceVars
  <2>2. CASE pagamento(m) /\ UNCHANGED <<paid, m_use_ccd, disturbed>>
    BY <2>2, PaymentSteps DEF Recorded, TakesPayment
  <2>3. ASSUME pagamento(m), NEW i \in DOMAIN table,
               TakesPayment, table[i] \in Methods,
               paid' = Append(paid, table[i]),
               \/ /\ m_use_ccd' = Append(m_use_ccd, table[i] \in Linked)
                  /\ UNCHANGED disturbed
               \/ disturbed' = TRUE
        PROVE  Recorded'
    <3>1. UNCHANGED <<kind, stage, direct>>
      BY <2>3, PaymentSteps
    <3>2. ~disturbed' => m_use_ccd' = Flags(paid)'
      <4>1. paid \in Seq(Methods)
        BY DEF Typed, TypeOK
      <4>2. ~disturbed => m_use_ccd = Flags(paid)
        BY <2>3 DEF Recorded
      <4>3. Flags(Append(paid, table[i])) = Append(Flags(paid), table[i] \in Linked)
        BY <2>3, <4>1, FlagsAppend
      <4>4. Flags(paid)' = Flags(Append(paid, table[i]))
        BY <2>3 DEF Flags
      <4>5. CASE disturbed' = TRUE
        BY <4>5
      <4>6. CASE m_use_ccd' = Append(m_use_ccd, table[i] \in Linked)
                 /\ UNCHANGED disturbed
        BY <4>2, <4>3, <4>4, <4>6
      <4> QED BY <2>3, <4>5, <4>6
    <3>3. stage \in {"items", "subtotal"} => direct
      BY <2>3 DEF TakesPayment
    <3> QED BY <3>1, <3>2, <3>3 DEF Recorded
  <2> QED BY <1>2, <2>1, <2>2, <2>3, PaymentSteps DEF Pagamento
<1>3. ASSUME NEW m \in Methods, AbreCreditoDebito(m)
      PROVE  Recorded'
  <2>1. CASE LookUpFails(m)
    BY <2>1 DEF LookUpFails, Recorded, TakesPayment, docVars, driverVars,
       sequenceVars
  <2>2. CASE abre_credito_debito(m)
    <3>1. /\ UNCHANGED <<kind, paid, direct, m_use_ccd>>
          /\ (~disturbed' => ~disturbed)
          /\ stage = "closed" /\ stage' \in {"closed", "voucher"}
      BY <2>2 DEF abre_credito_debito, Asks, VoucherRefused, docVars
    <3> QED BY <3>1 DEF Recorded, TakesPayment
  <2> QED BY <1>3, <2>1, <2>2 DEF AbreCreditoDebito
<1>4. CASE Restart
  BY <1>4 DEF Restart, Recorded
<1>5. CASE UNCHANGED vars
  BY <1>5 DEF vars, docVars, driverVars, sequenceVars, Recorded, TakesPayment
<1> QED BY <1>1, <1>2, <1>3, <1>4, <1>5, DocumentSteps, DocumentRecorded DEF Next

\* As long as check does not throw for a total or a payment of the document that
\* was carried out, the driver has for each of its payments the flag of that
\* payment's method, whatever is refused, suppressed or cancelled around it.
THEOREM RecordIsTheDocuments == Spec => []UseMatchesPaid
<1>1. Init => Typed /\ Recorded
  <2>1. Init => Typed
    BY TypesInit
  <2>2. Init => Recorded
    BY DEF Init, Recorded, TakesPayment
  <2> QED BY <2>1, <2>2
<1>2. Typed /\ Recorded /\ [Next]_vars => (Typed /\ Recorded)'
  BY TypedStep, RecordedStep
<1>3. Typed /\ Recorded => UseMatchesPaid
  BY DEF Recorded, UseMatchesPaid
<1> QED BY <1>1, <1>2, <1>3, PTL DEF Spec

-----------------------------------------------------------------------------
(* The sequence of vouchers.                                               *)

LinkedPayments == {n \in DOMAIN paid : paid[n] \in Linked}

\* The vouchers up to the index of the last one are out; or all are, and the
\* index has gone round.
Sequenced ==
  \/ issued = LinkedPayments
  \/ m_pgto_seq = IDX_NOT_FOUND /\ issued = {}
  \/ m_pgto_seq \in Nat
     /\ issued = {n \in LinkedPayments : n <= m_pgto_seq + 1}

Turn ==
  /\ \A n \in DOMAIN paid : \E i \in DOMAIN table : table[i] = paid[n]
  /\ stage \in {"items", "subtotal", "totals"} => issued = {}
  /\ ~disturbed /\ TakesPayment => m_pgto_seq = IDX_NOT_FOUND
  /\ ~disturbed => Sequenced
  /\ ~disturbed /\ answer = "unavailable" => issued = LinkedPayments

IInv == Typed /\ Recorded /\ Turn

\* A new or emptied document has no linked payment.
LEMMA EmptyTurn ==
  ASSUME paid' = <<>>, issued' = {}
  PROVE  Sequenced' /\ LinkedPayments' = {}
BY DEF Sequenced, LinkedPayments

\* Steps that touch neither payments, vouchers nor index.
LEMMA TurnKept ==
  ASSUME Turn, UNCHANGED <<table, paid, issued, direct, m_pgto_seq, disturbed>>,
         \/ stage' = stage
         \/ stage' = "closed"
         \/ stage' = "subtotal" /\ stage \in {"items", "subtotal"},
         answer' # "unavailable"
  PROVE  Turn'
BY DEF Turn, Sequenced, LinkedPayments, TakesPayment

\* Document steps keep the sequence.
LEMMA DocumentTurn ==
  ASSUME Typed, Recorded, Turn, DocumentCases, UNCHANGED table,
         answer' # "unavailable"
  PROVE  Turn'
<1>1. CASE Opens \/ Cancels
  <2>1. paid' = <<>> /\ issued' = {} /\ ~TakesPayment'
    BY <1>1 DEF Opens, Cancels, TakesPayment
  <2>2. Sequenced' /\ LinkedPayments' = {}
    BY <2>1, EmptyTurn
  <2>3. \A n \in DOMAIN paid' : \E i \in DOMAIN table' : table'[i] = paid'[n]
    BY <2>1
  <2> QED BY <2>1, <2>2, <2>3 DEF Turn
<1>2. CASE Begins
  <2>1. /\ UNCHANGED <<paid, issued, disturbed>> /\ m_pgto_seq' = IDX_NOT_FOUND
        /\ paid = <<>> /\ stage \in {"items", "subtotal"}
    BY <1>2 DEF Begins
  <2>2. issued = {}
    BY <2>1 DEF Turn
  <2>3. Sequenced' /\ LinkedPayments' = {}
    BY <2>1, <2>2, EmptyTurn
  <2>4. \A n \in DOMAIN paid' : \E i \in DOMAIN table' : table'[i] = paid'[n]
    BY <2>1
  <2> QED BY <2>1, <2>2, <2>3, <2>4 DEF Turn
<1>3. CASE Moves
  <2>1. UNCHANGED <<table, paid, issued, direct, m_pgto_seq, disturbed>>
    BY <1>3 DEF Moves, sequenceVars
  <2>2. \/ stage' = stage
        \/ stage' = "closed"
        \/ stage' = "subtotal" /\ stage \in {"items", "subtotal"}
    BY <1>3 DEF Moves
  <2> QED BY <2>1, <2>2, TurnKept
<1>4. CASE Disturbs
  BY <1>4 DEF Turn, Disturbs
<1> QED BY <1>1, <1>2, <1>3, <1>4 DEF DocumentCases

\* Payments come before vouchers.
LEMMA PaymentTurn ==
  ASSUME Typed, Turn, NEW m \in Methods, pagamento(m)
  PROVE  /\ Turn'
         /\ \/ UNCHANGED <<paid, issued>>
            \/ /\ issued = {} /\ UNCHANGED issued
               /\ \E x \in Methods : paid' = Append(paid, x)
<1>1. /\ UNCHANGED <<table, kind, stage, issued, direct, m_pgto_seq>>
      /\ answer' # "unavailable"
  BY PaymentSteps
<1>2. CASE UNCHANGED <<paid, disturbed>>
  <2>1. UNCHANGED <<table, paid, issued, direct, m_pgto_seq, disturbed>>
        /\ stage' = stage
    BY <1>1, <1>2
  <2>2. Turn'
    BY <1>1, <2>1, TurnKept
  <2> QED BY <2>1, <2>2
<1>3. ASSUME NEW i \in DOMAIN table, TakesPayment, table[i] \in Methods,
             paid' = Append(paid, table[i]), (~disturbed' => ~disturbed)
      PROVE  Turn' /\ issued = {}
  <2>1. issued = {}
    BY <1>3 DEF Turn, TakesPayment
  <2>2. paid \in Seq(Methods) /\ Len(paid) \in Nat
    BY DEF Typed, TypeOK
  <2>3. /\ DOMAIN paid' = 1..(Len(paid) + 1) /\ DOMAIN paid = 1..Len(paid)
        /\ paid'[Len(paid) + 1] = table[i]
        /\ \A n \in DOMAIN paid : paid'[n] = paid[n]
    BY <1>3, <2>2
  <2>4. \A n \in DOMAIN paid' : \E k \in DOMAIN table' : table'[k] = paid'[n]
    <3> TAKE n \in DOMAIN paid'
    <3>1. CASE n = Len(paid) + 1
      BY <1>1, <2>3, <3>1
    <3>2. CASE n \in DOMAIN paid
      BY <1>1, <2>3, <3>2 DEF Turn
    <3> QED BY <2>2, <2>3, <3>1, <3>2
  <2>5. ~disturbed => m_pgto_seq = IDX_NOT_FOUND
    BY <1>3 DEF Turn
  <2>6. ~disturbed => Sequenced'
    BY <1>1, <2>1, <2>5 DEF Sequenced
  <2>7. ~disturbed' => m_pgto_seq' = IDX_NOT_FOUND /\ Sequenced'
    BY <1>1, <1>3, <2>5, <2>6
  <2>8. issued' = {} /\ answer' # "unavailable"
    BY <1>1, <2>1
  <2> QED BY <2>1, <2>4, <2>7, <2>8 DEF Turn
<1>4. \/ UNCHANGED <<paid, disturbed>>
      \/ \E i \in DOMAIN table :
           /\ TakesPayment /\ table[i] \in Methods
           /\ paid' = Append(paid, table[i])
           /\ ~disturbed' => ~disturbed
  <2>1. ~disturbed' => ~disturbed
    BY PaymentDisturbs
  <2> QED BY <2>1, PaymentSteps
<1> QED BY <1>1, <1>2, <1>3, <1>4

\* A request of a voucher: the one that is due is opened, or all are out, or the
\* refusal disturbs the document.
LEMMA VoucherTurn ==
  ASSUME Typed, Recorded, Turn,
         NEW m \in Methods, abre_credito_debito(m), ~disturbed, ~disturbed'
  PROVE  /\ Sequenced'
         /\ answer' = "unavailable" => issued' = LinkedPayments'
         /\ \/ UNCHANGED issued
            \/ \E n \in DOMAIN paid : Doc!Due(n) /\ issued' = issued \cup {n}
<1>1. /\ UNCHANGED <<table, paid, m_use_ccd>>
      /\ LookUp(m) /\ Asks(m) /\ stage = "closed"
  BY DEF abre_credito_debito, Asks, VoucherRefused, docVars
<1>2. UNCHANGED LinkedPayments
  BY <1>1 DEF LinkedPayments
<1>3. Sequenced
  BY DEF Turn
<1>4. PICK idx \in IDX_NOT_FOUND..Len(m_use_ccd) :
        /\ NextIndex(idx)
        /\ m_pgto_seq' = idx
        /\ \/ idx = IDX_NOT_FOUND /\ UNCHANGED issued
           \/ /\ idx # IDX_NOT_FOUND /\ answer' # "unavailable"
              /\ TakesVoucher(idx + 1, m)
              /\ issued' = issued \cup {idx + 1}
           \/ /\ idx # IDX_NOT_FOUND /\ answer' # "unavailable"
              /\ ~TakesVoucher(idx + 1, m) \/ Missing(m)
              /\ UNCHANGED issued
  BY DEF abre_credito_debito, VoucherRefused, Refuses, Reply, Returned, docVars
<1>5. /\ Len(paid) \in Nat /\ DOMAIN paid = 1..Len(paid)
      /\ Len(m_use_ccd) \in Nat /\ idx \in Int /\ idx >= -1
      /\ issued \subseteq DOMAIN paid
      /\ m_pgto_seq \in Nat \cup {IDX_NOT_FOUND}
      /\ idx # IDX_NOT_FOUND => idx \in Nat
  BY <1>4 DEF Typed, TypeOK, IDX_NOT_FOUND
<1>6. CASE paid = <<>>
  <2>1. LinkedPayments = {} /\ issued = {} /\ DOMAIN paid = {}
    BY <1>5, <1>6 DEF LinkedPayments
  <2>2. ~TakesVoucher(idx + 1, m)
    BY <2>1 DEF TakesVoucher
  <2>3. issued' = {} /\ LinkedPayments' = {}
    BY <1>2, <1>4, <2>1, <2>2
  <2> QED BY <2>1, <2>3 DEF Sequenced
<1>7. CASE paid # <<>>
  <2>1. m_use_ccd = Flags(paid) /\ m_use_ccd # <<>>
    <3>1. m_use_ccd = Flags(paid)
      BY <1>7 DEF Recorded
    <3>2. Len(m_use_ccd) = Len(paid) /\ Len(paid) # 0
      BY <1>7, <3>1, FlagsTyped, EmptySeq DEF Typed, TypeOK
    <3> QED BY <3>1, <3>2
  <2>2. \A i : UsableFrom(i) = {j \in LinkedPayments : j > i}
    <3>1. DOMAIN m_use_ccd = DOMAIN paid
          /\ \A j \in DOMAIN paid : m_use_ccd[j] = (paid[j] \in Linked)
      BY <1>5, <2>1, FlagsTyped DEF Typed, TypeOK
    <3> QED BY <3>1 DEF UsableFrom, LinkedPayments
  <2>3. \A j \in LinkedPayments : j \in Nat
    BY <1>5 DEF LinkedPayments
  <2>4. CASE idx = IDX_NOT_FOUND
    <3>1. UNCHANGED issued /\ \A j \in LinkedPayments : j <= m_pgto_seq + 1
      <4>1. {j \in LinkedPayments : j > m_pgto_seq + 1} = {}
        BY <1>4, <1>5, <2>1, <2>2, <2>4 DEF NextIndex, IDX_NOT_FOUND
      <4> QED BY <1>4, <1>5, <2>3, <2>4, <4>1 DEF IDX_NOT_FOUND
    <3>2. issued = LinkedPayments
      <4>1. CASE m_pgto_seq = IDX_NOT_FOUND
        <5>1. LinkedPayments = {}
          BY <1>5, <2>3, <3>1, <4>1 DEF IDX_NOT_FOUND, LinkedPayments
        <5>2. {j \in LinkedPayments : j <= m_pgto_seq + 1} = {}
          BY <5>1
        <5> QED BY <1>3, <5>1, <5>2 DEF Sequenced
      <4>2. CASE m_pgto_seq \in Nat
        <5>1. {j \in LinkedPayments : j <= m_pgto_seq + 1} = LinkedPayments
          BY <3>1
        <5>2. m_pgto_seq # IDX_NOT_FOUND
          BY <4>2 DEF IDX_NOT_FOUND
        <5> QED BY <1>3, <5>1, <5>2 DEF Sequenced
      <4> QED BY <1>5, <4>1, <4>2
    <3> QED BY <1>2, <3>1, <3>2 DEF Sequenced
  <2>5. CASE idx # IDX_NOT_FOUND
    <3> DEFINE n == idx + 1
    <3>1. /\ n \in LinkedPayments /\ n > m_pgto_seq + 1
          /\ \A j \in LinkedPayments : j > m_pgto_seq + 1 => n <= j
      BY <1>4, <2>1, <2>2, <2>5 DEF NextIndex
    <3>2. n \in Nat /\ n \in DOMAIN paid /\ paid[n] \in Linked
      BY <2>3, <3>1 DEF LinkedPayments
    <3>3. CASE issued = LinkedPayments
      <4>1. ~TakesVoucher(n, m)
        BY <3>1, <3>3 DEF TakesVoucher
      <4> QED BY <1>2, <1>4, <2>5, <3>3, <4>1 DEF Sequenced
    <3>4. CASE issued # LinkedPayments
      <4>1. issued = {j \in LinkedPayments : j <= m_pgto_seq + 1}
        BY <1>3, <1>5, <2>3, <3>4 DEF Sequenced, IDX_NOT_FOUND, LinkedPayments
      <4>2. n \notin issued
        BY <1>5, <3>1, <3>2, <4>1 DEF IDX_NOT_FOUND
      <4>3. \A k \in 1..(n - 1) : paid[k] \in Linked => k \in issued
        BY <1>5, <3>1, <3>2, <4>1 DEF IDX_NOT_FOUND, LinkedPayments
      <4>4. Doc!Due(n)
        BY <3>2, <4>2, <4>3 DEF Doc!Due
      <4>5. paid[n] = m
        BY <1>1, <3>2, <4>4 DEF Asks
      <4>6. ~Missing(m)
        <5>1. PICK i \in DOMAIN table : table[i] = m
          BY <3>2, <4>5 DEF Turn
        <5>2. CASE Cached(m)
          BY <1>1, <5>2 DEF LookUp, Cached, Missing, cacheVars
        <5>3. CASE ~Cached(m)
          BY <1>1, <5>1, <5>3 DEF LookUp, Reload, Missing
        <5> QED BY <5>2, <5>3
      <4>7. TakesVoucher(n, m)
        BY <1>1, <3>2, <4>2, <4>5 DEF TakesVoucher
      <4>8. issued' = issued \cup {n} /\ m_pgto_seq' = n - 1
            /\ answer' # "unavailable"
        BY <1>4, <1>5, <2>5, <4>6, <4>7
      <4>9. issued' = {j \in LinkedPayments : j <= n}
        BY <1>5, <2>3, <3>1, <3>2, <4>1, <4>8 DEF IDX_NOT_FOUND
      <4>10. Sequenced'
        BY <1>2, <1>5, <2>5, <3>2, <4>8, <4>9 DEF Sequenced
      <4> QED BY <3>2, <4>4, <4>8, <4>10
    <3> QED BY <3>3, <3>4
  <2> QED BY <2>4, <2>5
<1> QED BY <1>6, <1>7

\* A read of the table that failed moves nothing.
LEMMA FailedLookUpTurn ==
  ASSUME Turn, NEW m, LookUpFails(m)
  PROVE  Turn'
BY TurnKept DEF LookUpFails, docVars, driverVars, sequenceVars

\* Every step keeps the invariant.
LEMMA InvariantStep ==
  ASSUME IInv, [Next]_vars
  PROVE  IInv'
<1>1. Typed' /\ Recorded'
  BY TypedStep, RecordedStep DEF IInv
<1>2. ASSUME NEW m \in Methods, SetFormaPgto(m)
      PROVE  Turn'
  <2>1. CASE LookUpFails(m)
    BY <2>1, FailedLookUpTurn DEF IInv
  <2>2. CASE set_forma_pgto(m)
    <3>1. UNCHANGED <<paid, issued, stage, direct, disturbed, m_pgto_seq>>
          /\ answer' # "unavailable"
      BY <2>2 DEF set_forma_pgto, docVars, sequenceVars, Reply
    <3>2. table \in Seq(Methods) /\ table' \in {table, Append(table, m)}
      BY <2>2 DEF set_forma_pgto, IInv, Typed, TypeOK
    <3>3. \A i \in DOMAIN table : i \in DOMAIN table' /\ table'[i] = table[i]
      BY <3>2
    <3>4. \A n \in DOMAIN paid' : \E i \in DOMAIN table' : table'[i] = paid'[n]
      BY <3>1, <3>3 DEF IInv, Turn
    <3> QED BY <3>1, <3>4 DEF IInv, Turn, Sequenced, LinkedPayments, TakesPayment
  <2> QED BY <1>2, <2>1, <2>2 DEF SetFormaPgto
<1>3. ASSUME NEW m \in Methods, Pagamento(m)
      PROVE  Turn'
  BY <1>3, PaymentTurn, FailedLookUpTurn DEF IInv, Pagamento
<1>4. ASSUME NEW m \in Methods, AbreCreditoDebito(m)
      PROVE  Turn'
  <2> SUFFICES ASSUME abre_credito_debito(m)
               PROVE  Turn'
    BY <1>4, FailedLookUpTurn DEF IInv, AbreCreditoDebito
  <2>1. abre_credito_debito(m)
    OBVIOUS
  <2>2. /\ UNCHANGED <<table, paid, direct>>
        /\ (~disturbed' => ~disturbed)
        /\ stage' \in {"closed", "voucher"}
    BY <2>1 DEF abre_credito_debito, Asks, VoucherRefused, docVars
  <2>3. ASSUME ~disturbed'
        PROVE  Sequenced' /\ (answer' = "unavailable" => issued' = LinkedPayments')
    BY <2>1, <2>2, <2>3, VoucherTurn DEF IInv
  <2> QED BY <2>2, <2>3 DEF IInv, Turn, TakesPayment
<1>5. ASSUME Restart
      PROVE  Turn'
  <2>1. UNCHANGED <<table, paid, issued, stage, direct>> /\ disturbed' = TRUE
    BY <1>5 DEF Restart
  <2> QED BY <2>1 DEF IInv, Turn, TakesPayment
<1>6. ASSUME UNCHANGED vars
      PROVE  Turn'
  BY <1>6 DEF vars, docVars, driverVars, sequenceVars, IInv, Turn, Sequenced,
     LinkedPayments, TakesPayment
<1>7. Turn'
  BY <1>2, <1>3, <1>4, <1>5, <1>6, DocumentSteps, DocumentTurn DEF Next, IInv
<1> QED BY <1>1, <1>7 DEF IInv

\* Nothing is paid, issued or recorded at first.
LEMMA InvariantInit == Init => IInv
<1>1. Init => Typed
  BY TypesInit
<1>2. Init => Recorded
  BY DEF Init, Recorded, TakesPayment
<1>3. Init => Turn
  BY DEF Init, Turn, Sequenced, LinkedPayments, TakesPayment
<1> QED BY <1>1, <1>2, <1>3 DEF IInv

\* "Unavailable" means that every linked payment of the document has its voucher,
\* if the client asks for the voucher that is due and the document was not
\* disturbed.
THEOREM UnavailableAfterTheLast == Spec => []UnavailableMeansIssued
<1>1. IInv /\ [Next]_vars => IInv'
  BY InvariantStep
<1>2. IInv => UnavailableMeansIssued
  BY DEF IInv, Turn, LinkedPayments, UnavailableMeansIssued
<1> QED BY <1>1, <1>2, InvariantInit, PTL DEF Spec

\* What the abstract sequence sees of a step: the document, or nothing once it is
\* disturbed.
LEMMA SeenBy ==
  ASSUME \/ UNCHANGED <<paid, issued>> /\ (~disturbed' => ~disturbed)
         \/ paid' = <<>> /\ issued' = {}
  PROVE  [V!Next]_(V!vars)
BY DEF V!vars, V!Next, V!Clear

\* The payments and vouchers of the printer are those of Vouchers, each linked
\* payment with its voucher once, in turn, until the document is disturbed.
THEOREM DriverImplementsVouchers == Spec => VouchersInTurn
<1>1. Init => V!Init
  BY DEF Init, V!Init
<1>2. IInv /\ [Next]_vars => [V!Next]_(V!vars)
  <2> SUFFICES ASSUME IInv, [Next]_vars
               PROVE  [V!Next]_(V!vars)
    OBVIOUS
  <2>1. ASSUME NEW m \in Methods, SetFormaPgto(m)
        PROVE  UNCHANGED <<paid, issued, disturbed>>
    BY <2>1 DEF SetFormaPgto, set_forma_pgto, LookUpFails, docVars
  <2>2. ASSUME NEW m \in Methods, Pagamento(m)
        PROVE  [V!Next]_(V!vars)
    <3>1. CASE LookUpFails(m)
      BY <3>1, SeenBy DEF LookUpFails, docVars
    <3>2. CASE pagamento(m) /\ UNCHANGED <<paid, disturbed>>
      BY <3>2, SeenBy, PaymentSteps DEF IInv
    <3>3. ASSUME pagamento(m), NEW i \in DOMAIN table, table[i] \in Methods,
                 paid' = Append(paid, table[i]), (~disturbed' => ~disturbed)
          PROVE  [V!Next]_(V!vars)
      <4>1. issued = {} /\ UNCHANGED issued
        BY <3>3, PaymentTurn, PaymentSteps DEF IInv
      <4>2. CASE ~disturbed'
        BY <3>3, <4>1, <4>2 DEF V!Next, V!Pay
      <4>3. CASE disturbed'
        BY <4>3 DEF V!vars, V!Next, V!Clear
      <4> QED BY <4>2, <4>3
    <3> QED BY <2>2, <3>1, <3>2, <3>3, PaymentSteps, PaymentDisturbs
            DEF Pagamento, IInv
  <2>3. ASSUME NEW m \in Methods, AbreCreditoDebito(m)
        PROVE  [V!Next]_(V!vars)
    <3>1. CASE LookUpFails(m)
      BY <3>1, SeenBy DEF LookUpFails, docVars
    <3>2. CASE abre_credito_debito(m)
      <4>1. UNCHANGED paid /\ (~disturbed' => ~disturbed)
        BY <3>2 DEF abre_credito_debito, VoucherRefused, docVars
      <4>2. CASE disturbed'
        BY <4>2 DEF V!vars, V!Next, V!Clear
      <4>3. CASE ~disturbed'
        <5>1. ~disturbed
          BY <4>1, <4>3
        <5>2. \/ UNCHANGED issued
              \/ \E n \in DOMAIN paid : Doc!Due(n) /\ issued' = issued \cup {n}
          BY <3>2, <4>3, <5>1, VoucherTurn DEF IInv
        <5> QED BY <4>1, <4>3, <5>1, <5>2
                DEF V!vars, V!Next, V!Issue, V!Due, Doc!Due
      <4> QED BY <4>2, <4>3
    <3> QED BY <2>3, <3>1, <3>2 DEF AbreCreditoDebito
  <2>4. CASE DocumentCases
    BY <2>4, SeenBy DEF DocumentCases, Opens, Cancels, Begins, Moves, Disturbs
  <2>5. CASE Restart \/ UNCHANGED vars
    BY <2>5, SeenBy DEF Restart, vars, docVars
  <2> QED BY <2>1, <2>2, <2>3, <2>4, <2>5, SeenBy, DocumentSteps DEF Next, IInv
<1> QED BY <1>1, <1>2, InvariantInit, InvariantStep, PTL
        DEF Spec, VouchersInTurn, V!Spec

-----------------------------------------------------------------------------
(* Suppressed payments.                                                    *)

\* The flag is a receipt's that is still open.
Naming ==
  /\ m_dont_pay => kind = "receipt" /\ named /\ stage \in {"items", "totals"}
  /\ SuppressedOnlyWhereNamed

\* What the steps on documents do to the flag and what it is for.
Flagged ==
  /\ answer' # "suppressed"
  /\ \/ m_dont_pay' = FALSE
     \/ /\ UNCHANGED m_dont_pay
        /\ kind = "coupon" \/ stage = "closed"
     \/ /\ kind = "receipt" /\ kind' = kind
        /\ stage' = stage \/ stage' \in {"items", "totals"}
        /\ named => named'
        /\ m_dont_pay' => m_dont_pay \/ (named' /\ stage' = "items")

\* The steps on documents, if no open receipt is cancelled.
LEMMA DocumentsFlag ==
  ASSUME ~CancelReceipts,
         \/ abre_cupom \/ abre_recibo \/ inicia_fechamento
         \/ \E tot \in {"in", "out"} : reg_nao_fiscal(tot)
         \/ \E type \in {"NO_OP", "mode", "other"} :
              inicia_fechamento_nao_fiscal(type)
         \/ fecha_cupom \/ fecha_recibo \/ cancela_cupom \/ cancela_recibo
         \/ fecha_ccd
  PROVE  Flagged \/ (answer' # "suppressed" /\ UNCHANGED <<docVars, m_dont_pay>>)
<1>1. CASE abre_cupom \/ abre_recibo
  BY <1>1 DEF abre_cupom, abre_recibo, OpenDocument, Refused, Reply, driverVars, Flagged
<1>2. CASE inicia_fechamento
  BY <1>2 DEF inicia_fechamento, Refused, Flagged
<1>3. CASE fecha_cupom \/ cancela_cupom
  BY <1>3 DEF fecha_cupom, cancela_cupom, Refused, Reply, driverVars, Flagged
<1>4. CASE fecha_recibo \/ fecha_ccd
  BY <1>4 DEF fecha_recibo, fecha_ccd, Refused, Reply, Flagged
<1>5. CASE cancela_recibo
  BY <1>5 DEF cancela_recibo, Refused, Reply, driverVars, Flagged
<1>6. ASSUME NEW tot \in {"in", "out"}, reg_nao_fiscal(tot)
      PROVE  Flagged
  <2>1. /\ kind = "receipt" /\ stage = "items" /\ UNCHANGED <<kind, stage>>
        /\ m_dont_pay' = (m_dont_pay \/ tot = "out")
        /\ named' = (named \/ tot = "out")
    BY <1>6 DEF reg_nao_fiscal
  <2>2. answer' # "suppressed"
    BY <1>6 DEF reg_nao_fiscal, Register, Reply
  <2> QED BY <2>1, <2>2 DEF Flagged
<1>7. CASE \E type \in {"NO_OP", "mode", "other"} :
             inicia_fechamento_nao_fiscal(type)
  <2>1. /\ kind = "receipt" /\ UNCHANGED <<kind, named, m_dont_pay>>
        /\ stage' = stage \/ stage' = "totals"
    BY <1>7 DEF inicia_fechamento_nao_fiscal, GoesOn, Refused, docVars
  <2>2. answer' # "suppressed"
    BY <1>7 DEF inicia_fechamento_nao_fiscal, Refused, Reply
  <2> QED BY <2>1, <2>2 DEF Flagged
<1> QED BY <1>1, <1>2, <1>3, <1>4, <1>5, <1>6, <1>7

\* A payment is suppressed while the flag is set, and changes neither.
LEMMA PaymentsFlag ==
  ASSUME NEW m \in Methods, Pagamento(m)
  PROVE  /\ UNCHANGED <<kind, stage, direct, outgoing, named, m_dont_pay>>
         /\ answer' = "suppressed" => m_dont_pay
         /\ m_dont_pay => UNCHANGED <<paid, disturbed>>
<1>1. CASE LookUpFails(m) /\ ~m_dont_pay
  BY <1>1 DEF LookUpFails, docVars, driverVars
<1>2. CASE pagamento(m) /\ m_dont_pay
  BY <1>2 DEF pagamento, docVars
<1>3. CASE pagamento(m) /\ ~m_dont_pay
  <2>1. CASE RecordPayment(m)
    BY <1>3, <2>1 DEF pagamento, RecordPayment, Refused, Reply, docVars
  <2>2. CASE UNCHANGED docVars /\ answer' = "error"
    BY <1>3, <2>2 DEF pagamento, docVars
  <2> QED BY <1>3, <2>1, <2>2 DEF pagamento
<1> QED BY <1>1, <1>2, <1>3 DEF Pagamento

\* A voucher leaves the flag, and its document is closed.
LEMMA VouchersFlag ==
  ASSUME NEW m \in Methods, AbreCreditoDebito(m)
  PROVE  /\ UNCHANGED <<kind, paid, direct, outgoing, named, m_dont_pay>>
         /\ stage = "closed" /\ stage' \in {"closed", "voucher"}
         /\ answer' # "suppressed"
         /\ ~disturbed' => ~disturbed
<1>1. CASE LookUpFails(m)
  BY <1>1 DEF LookUpFails, Asks, docVars, driverVars, AbreCreditoDebito,
     abre_credito_debito
<1>2. CASE abre_credito_debito(m)
  BY <1>2 DEF abre_credito_debito, Asks, VoucherRefused, Reply, docVars
<1> QED BY <1>1, <1>2 DEF AbreCreditoDebito

\* Payments are suppressed only on receipts that named an outgoing totaliser,
\* whatever is refused, misreported or restarted, if receipts are closed before
\* they are cancelled: the flag is set for its receipt and ends with it.
THEOREM SuppressionIsTheReceipts ==
  ASSUME ~CancelReceipts
  PROVE  Spec => []SuppressedOnlyWhereNamed
<1>1. Init => Naming
  BY DEF Init, DriverInit, Naming, SuppressedOnlyWhereNamed
<1>2. ASSUME Naming, [Next]_vars
      PROVE  Naming'
  <2> USE DEF Naming, SuppressedOnlyWhereNamed
  <2>1. CASE \E m \in Methods : SetFormaPgto(m)
    BY <1>2, <2>1 DEF SetFormaPgto, set_forma_pgto, LookUpFails, docVars,
       driverVars, Reply
  <2>2. ASSUME NEW m \in Methods, Pagamento(m)
        PROVE  Naming'
    BY <1>2, <2>2, PaymentsFlag
  <2>3. ASSUME NEW m \in Methods, AbreCreditoDebito(m)
        PROVE  Naming'
    BY <1>2, <2>3, VouchersFlag
  <2>4. CASE Flagged
    BY <1>2, <2>4 DEF Flagged
  <2>5. CASE answer' # "suppressed" /\ UNCHANGED <<docVars, m_dont_pay>>
    BY <1>2, <2>5 DEF docVars
  <2>6. CASE Restart \/ UNCHANGED vars
    BY <1>2, <2>6 DEF Restart, vars, docVars, driverVars
  <2> QED BY <1>2, <2>1, <2>2, <2>3, <2>4, <2>5, <2>6, DocumentsFlag DEF Next
<1> QED BY <1>1, <1>2, PTL DEF Spec, Naming

\* From its first outgoing totaliser to its end a receipt is suppressed.
Unpaid ==
  /\ outgoing => kind = "receipt"
  /\ outgoing /\ ~disturbed /\ stage \in {"items", "totals"} => m_dont_pay
  /\ OutgoingUnpaid

\* If the printer refuses nothing it can do.
LEMMA UnpaidStep ==
  ASSUME Typed, Recorded, Unpaid, ~Refusals, [Next]_vars
  PROVE  Unpaid'
<1> USE DEF Unpaid, OutgoingUnpaid
<1>1. CASE \E m \in Methods : SetFormaPgto(m)
  BY <1>1 DEF SetFormaPgto, set_forma_pgto, LookUpFails, docVars, driverVars
<1>2. ASSUME NEW m \in Methods, Pagamento(m)
      PROVE  Unpaid'
  <2>1. UNCHANGED <<kind, stage, outgoing, m_dont_pay>>
        /\ (m_dont_pay => UNCHANGED <<paid, disturbed>>)
    BY <1>2, PaymentsFlag
  <2>2. CASE m_dont_pay
    BY <2>1, <2>2
  <2>3. CASE pagamento(m) /\ ~m_dont_pay
    <3>1. ~disturbed' => ~disturbed
      BY <2>3, PaymentDisturbs
    <3>2. paid' = paid \/ stage \in {"items", "totals"}
      BY <2>3 DEF pagamento, RecordPayment, Refused, docVars, TakesPayment
    <3> QED BY <2>1, <2>3, <3>1, <3>2
  <2>4. CASE LookUpFails(m)
    BY <2>4 DEF LookUpFails, docVars, driverVars
  <2> QED BY <1>2, <2>2, <2>3, <2>4 DEF Pagamento
<1>3. ASSUME NEW m \in Methods, AbreCreditoDebito(m)
      PROVE  Unpaid'
  BY <1>3, VouchersFlag
<1>4. CASE abre_cupom \/ abre_recibo
  BY <1>4 DEF abre_cupom, abre_recibo, OpenDocument, Refused, docVars, driverVars
<1>5. ASSUME NEW tot \in {"in", "out"}, reg_nao_fiscal(tot)
      PROVE  Unpaid'
  <2>1. /\ kind = "receipt" /\ stage = "items" /\ ~direct
        /\ m_dont_pay' = (m_dont_pay \/ tot = "out")
        /\ UNCHANGED <<kind, stage, paid, disturbed>>
    BY <1>5 DEF reg_nao_fiscal
  <2>2. outgoing' => outgoing \/ tot = "out"
    <3>1. CASE outgoing' = (outgoing \/ tot = "out")
      BY <3>1
    <3>2. CASE outgoing' = outgoing
      BY <3>2
    <3> QED BY <1>5, <3>1, <3>2 DEF reg_nao_fiscal, Register
  <2>3. paid = <<>>
    BY <2>1 DEF Recorded
  <2> QED BY <2>1, <2>2, <2>3
<1>6. CASE inicia_fechamento \/ fecha_cupom \/ cancela_cupom
  <2>1. kind = "coupon" /\ ~outgoing
    BY <1>6 DEF inicia_fechamento, fecha_cupom, cancela_cupom
  <2>2. outgoing' = outgoing \/ outgoing' = FALSE
    BY <1>6 DEF inicia_fechamento, fecha_cupom, cancela_cupom, MoveTo, GoesOn,
       CancelDocument, Refused, docVars
  <2> QED BY <2>1, <2>2
<1>7. CASE \E type \in {"NO_OP", "mode", "other"} :
             inicia_fechamento_nao_fiscal(type)
  <2>1. /\ UNCHANGED <<kind, paid, outgoing, m_dont_pay>>
        /\ stage' = stage \/ (stage = "items" /\ stage' = "totals")
    BY <1>7 DEF inicia_fechamento_nao_fiscal, GoesOn, Refused, docVars
  <2>2. ~disturbed' => ~disturbed
    BY <1>7 DEF inicia_fechamento_nao_fiscal, GoesOn, Refused, docVars
  <2> QED BY <2>1, <2>2
<1>8. CASE fecha_recibo \/ fecha_ccd
  <2>1. UNCHANGED <<kind, paid, outgoing, disturbed>> /\ stage' = "closed"
    BY <1>8 DEF fecha_recibo, fecha_ccd, MoveTo, GoesOn, Refused, Refuses
  <2> QED BY <2>1
<1>9. CASE cancela_recibo
  BY <1>9 DEF cancela_recibo, CancelDocument, Refused, docVars, driverVars
<1>10. CASE Restart \/ UNCHANGED vars
  BY <1>10 DEF Restart, vars, docVars, driverVars
<1> QED BY <1>1, <1>2, <1>3, <1>4, <1>5, <1>6, <1>7, <1>8, <1>9, <1>10 DEF Next

\* The printer records no payment on an outgoing receipt, whatever is cancelled or
\* misreported, if it refuses nothing it can do: a receipt whose closing is refused
\* has lost the flag.
THEOREM OutgoingIsUnpaid ==
  ASSUME ~Refusals
  PROVE  Spec => []OutgoingUnpaid
<1> DEFINE Inv == Typed /\ Recorded /\ Unpaid
<1>1. Init => Inv
  <2>1. Init => Recorded
    BY DEF Init, Recorded, TakesPayment
  <2>2. Init => Unpaid
    BY DEF Init, Unpaid, OutgoingUnpaid
  <2> QED BY <2>1, <2>2, TypesInit
<1>2. Inv /\ [Next]_vars => Inv'
  BY TypedStep, RecordedStep, UnpaidStep
<1>3. Inv => OutgoingUnpaid
  BY DEF Unpaid
<1> QED BY <1>1, <1>2, <1>3, PTL DEF Spec

-----------------------------------------------------------------------------
(* A document with one payment, across restarts.                           *)

OneCard ==
  /\ TakesPayment /\ paid = <<>> => m_use_ccd = <<>> /\ m_pgto_seq = IDX_NOT_FOUND
  /\ Len(paid) = 1 /\ paid[1] \in Linked /\ issued = {} =>
       m_pgto_seq = IDX_NOT_FOUND /\ m_use_ccd \in {<<>>, <<TRUE>>}

\* With one linked payment known, or none, the first index is the next.
LEMMA FirstIndex ==
  ASSUME m_pgto_seq = IDX_NOT_FOUND, m_use_ccd \in {<<>>, <<TRUE>>}
  PROVE  /\ NextIndex(0)
         /\ \A idx \in IDX_NOT_FOUND..Len(m_use_ccd) : NextIndex(idx) => idx = 0
<1>1. m_pgto_seq + 1 = 0
  BY DEF IDX_NOT_FOUND
<1>2. CASE m_use_ccd = <<>>
  BY <1>2 DEF NextIndex, IDX_NOT_FOUND
<1>3. CASE m_use_ccd = <<TRUE>>
  <2>1. DOMAIN m_use_ccd = {1} /\ m_use_ccd[1] = TRUE /\ Len(m_use_ccd) = 1
        /\ m_use_ccd # <<>>
    BY <1>3
  <2>2. UsableFrom(m_pgto_seq + 1) = {1}
    BY <1>1, <2>1 DEF UsableFrom
  <2> QED BY <2>1, <2>2 DEF NextIndex, IDX_NOT_FOUND
<1> QED BY <1>2, <1>3

\* The driver knows one payment, or none, and has opened no voucher for it.
LEMMA OneCardStep ==
  ASSUME IInv, OneCard, ~Refusals, ~LateErrors, [Next]_vars
  PROVE  OneCard'
<1>1. ASSUME NEW m \in Methods, SetFormaPgto(m)
      PROVE  OneCard'
  <2>1. UNCHANGED <<stage, direct, paid, issued, m_use_ccd, m_pgto_seq>>
    BY <1>1 DEF SetFormaPgto, set_forma_pgto, LookUpFails, docVars, driverVars,
       sequenceVars
  <2> QED BY <2>1 DEF OneCard, TakesPayment
<1>2. ASSUME NEW m \in Methods, Pagamento(m)
      PROVE  OneCard'
  <2> SUFFICES ASSUME pagamento(m)
               PROVE  OneCard'
    BY <1>2 DEF Pagamento, LookUpFails
  <2>1. UNCHANGED <<stage, issued, direct, m_pgto_seq>>
    BY PaymentSteps DEF IInv
  <2>2. CASE UNCHANGED <<paid, m_use_ccd>>
    BY <2>1, <2>2 DEF OneCard, TakesPayment
  <2>3. ASSUME NEW i \in DOMAIN table, TakesPayment,
               paid' = Append(paid, table[i]),
               m_use_ccd' = Append(m_use_ccd, table[i] \in Linked)
        PROVE  OneCard'
    <3>1. paid \in Seq(Methods) /\ m_use_ccd \in Seq(BOOLEAN) /\ Len(paid) \in Nat
      BY DEF IInv, Typed, TypeOK
    <3>2. paid' # <<>> /\ Len(paid') = Len(paid) + 1
      BY <2>3, <3>1
    <3>3. ASSUME Len(paid') = 1, paid'[1] \in Linked
          PROVE  m_pgto_seq' = IDX_NOT_FOUND /\ m_use_ccd' = <<TRUE>>
      <4>1. paid = <<>>
        <5>1. Len(paid) + 1 = 1
          BY <3>2, <3>3
        <5>2. Len(paid) = 0
          BY <3>1, <5>1
        <5> QED BY <3>1, <5>2, EmptySeq
      <4>2. m_use_ccd = <<>> /\ m_pgto_seq = IDX_NOT_FOUND
        BY <2>3, <4>1 DEF OneCard
      <4>3. (table[i] \in Linked) = TRUE
        BY <2>3, <3>3, <4>1
      <4>4. m_use_ccd' = <<TRUE>>
        <5>1. Append(m_use_ccd, table[i] \in Linked) = Append(<<>>, TRUE)
          BY <4>2, <4>3
        <5>2. Append(<<>>, TRUE) = <<TRUE>>
          OBVIOUS
        <5> QED BY <2>3, <5>1, <5>2
      <4> QED BY <2>1, <4>2, <4>4
    <3> QED BY <3>2, <3>3 DEF OneCard
  <2> QED BY <2>2, <2>3, PaymentSteps DEF IInv
<1>3. ASSUME NEW m \in Methods, AbreCreditoDebito(m)
      PROVE  OneCard'
  <2> SUFFICES ASSUME abre_credito_debito(m)
               PROVE  OneCard'
    BY <1>3 DEF AbreCreditoDebito, LookUpFails
  <2>1. /\ UNCHANGED <<table, paid, m_use_ccd, direct>> /\ LookUp(m) /\ Asks(m)
        /\ stage = "closed" /\ stage' \in {"closed", "voucher"}
    BY DEF abre_credito_debito, Asks, VoucherRefused, docVars
  <2>2. ASSUME Len(paid) = 1, paid[1] \in Linked, issued = {}
        PROVE  issued' # {}
    <3>1. /\ DOMAIN paid = {1} /\ paid \in Seq(Methods)
      BY <2>2 DEF IInv, Typed, TypeOK
    <3>2. Doc!Due(1)
      BY <2>2, <3>1 DEF Doc!Due
    <3>3. paid[1] = m
      BY <2>1, <3>1, <3>2 DEF Asks
    <3>4. PICK i \in DOMAIN table : table[i] = m
      BY <3>1, <3>3 DEF IInv, Turn
    <3>5. ~Missing(m)
      <4>1. CASE Cached(m)
        BY <2>1, <4>1 DEF LookUp, Cached, Missing, cacheVars
      <4>2. CASE ~Cached(m)
        BY <2>1, <3>4, <4>2 DEF LookUp, Reload, Missing
      <4> QED BY <4>1, <4>2
    <3>6. TakesVoucher(1, m)
      BY <2>1, <2>2, <3>1, <3>3 DEF TakesVoucher
    <3>7. \A idx \in IDX_NOT_FOUND..Len(m_use_ccd) : NextIndex(idx) => idx = 0
      BY <2>2, FirstIndex DEF OneCard
    <3>8. PICK idx \in IDX_NOT_FOUND..Len(m_use_ccd) :
            /\ NextIndex(idx)
            /\ \/ idx = IDX_NOT_FOUND
               \/ issued' = issued \cup {idx + 1}
               \/ VoucherRefused(TakesVoucher(idx + 1, m) /\ ~Missing(m))
      BY DEF abre_credito_debito
    <3>9. idx = 0 /\ idx + 1 = 1 /\ idx # IDX_NOT_FOUND
      BY <3>7, <3>8 DEF IDX_NOT_FOUND
    <3>10. ~VoucherRefused(TakesVoucher(idx + 1, m) /\ ~Missing(m))
      BY <3>5, <3>6, <3>9 DEF VoucherRefused, Refuses
    <3> QED BY <3>8, <3>9, <3>10
  <2>3. issued \subseteq issued'
    BY DEF abre_credito_debito, VoucherRefused, docVars
  <2> QED BY <2>1, <2>2, <2>3 DEF OneCard, TakesPayment
<1>4. CASE Restart
  BY <1>4 DEF Restart, ClearSequence, OneCard, TakesPayment
<1>5. CASE UNCHANGED vars
  BY <1>5 DEF vars, docVars, driverVars, sequenceVars, OneCard, TakesPayment
<1>6. CASE Opens \/ Cancels \/ Begins \/ Moves
  <2>1. paid' = <<>> => Len(paid') # 1
    BY EmptySeq
  <2>2. CASE Opens \/ Cancels
    BY <2>1, <2>2 DEF Opens, Cancels, OneCard, TakesPayment
  <2>3. CASE Begins
    BY <2>1, <2>3 DEF Begins, OneCard
  <2>4. CASE Moves
    BY <2>4 DEF Moves, OneCard, TakesPayment, sequenceVars
  <2> QED BY <1>6, <2>2, <2>3, <2>4
<1> QED BY <1>1, <1>2, <1>3, <1>4, <1>5, <1>6, DocumentSteps DEF Next, IInv

\* A voucher of a document with one payment is asked for by the right ordinal
\* although the service was restarted, as the guess of get_next_pgto_ccd hopes,
\* where every call either succeeds or is impossible.
THEOREM OneCardGuess ==
  ASSUME ~Refusals, ~LateErrors
  PROVE  Spec => []OneCardSurvivesRestart
<1>1. Init => OneCard
  BY DEF Init, DriverInit, OneCard
<1>2. OneCard => OneCardSurvivesRestart
  BY FirstIndex DEF OneCard, OneCardSurvivesRestart
<1>3. IInv /\ OneCard /\ [Next]_vars => (IInv /\ OneCard)'
  BY InvariantStep, OneCardStep
<1> QED BY <1>1, <1>2, <1>3, InvariantInit, PTL DEF Spec
=============================================================================
