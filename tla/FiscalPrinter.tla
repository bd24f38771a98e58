---------------------------- MODULE FiscalPrinter -----------------------------
(***************************************************************************)
(* The printer as the driver's calls see it: the document it is in the      *)
(* middle of, and its paper.  It is the manufacturer's; what it allows is   *)
(* modelled from the order in which the drivers call it.                    *)
(***************************************************************************)
EXTENDS Integers, Sequences, FiniteSets

CONSTANT Codes          \* extended codes that a refusal may carry

ASSUME PrinterAssumption == Codes # {} /\ Codes \subseteq 1..255

VARIABLES
  doc,                  \* the open document
  paper

printerVars == <<doc, paper>>

Documents ==
  {"none", "coupon", "subtotal", "closing", "receipt", "settling", "voucher", "report"}
PrinterTypeOK == doc \in Documents /\ paper \in {"ok", "low", "out"}

PrinterInit == doc = "none" /\ paper = "ok"

\* Calls by the documents in which they are taken.
Opens ==
  [AbreCupomMFD |-> "coupon", AbreRecebimentoNaoFiscalMFD |-> "receipt",
   AbreComprovanteNaoFiscalVinculado |-> "voucher",
   AbreComprovanteNaoFiscalVinculadoMFD |-> "voucher",
   AbreRelatorioGerencialMFD |-> "report"]
Whole == {"ReducaoZ", "LeituraX", "LeituraMemoriaFiscalDataMFD",
          "LeituraMemoriaFiscalReducaoMFD", "Sangria", "Suprimento",
          "RecebimentoNaoFiscal", "EstornoNaoFiscalVinculadoMFD",
          "EstornoNaoFiscalVinculadoPosteriorMFD",
          "SegundaViaNaoFiscalVinculadoMFD", "ReimpressaoNaoFiscalVinculadoMFD"}
Within ==
  [VendeItem |-> {"coupon"}, AumentaDescricaoItem |-> {"coupon"},
   CancelaItemAnterior |-> {"coupon"}, CancelaItemGenerico |-> {"coupon"},
   AcrescimoDescontoSubtotal |-> {"subtotal"},
   EfetuaFormaPagamentoIndice |-> {"closing", "settling"},
   EfetuaRecebimentoNaoFiscalMFD |-> {"receipt"},
   UsaComprovanteNaoFiscalVinculado |-> {"voucher"},
   UsaRelatorioGerencialMFD |-> {"report"}]
Moves ==
  [IniciaFechamentoCupomMFD |-> <<"coupon", "closing">>,
   SubTotalizaCupomMFD |-> <<"coupon", "subtotal">>,
   TotalizaCupomMFD |-> <<"subtotal", "closing">>,
   IniciaFechamentoRecebimentoNaoFiscalMFD |-> <<"receipt", "settling">>]
Ends ==
  [TerminaFechamentoCupom |-> {"closing"},
   CancelaCupom |-> {"none", "coupon", "subtotal", "closing"},
   FechaRecebimentoNaoFiscalMFD |-> {"settling"},
   CancelaRecebimentoNaoFiscalMFD |-> {"none", "receipt", "settling"},
   FechaComprovanteNaoFiscalVinculado |-> {"voucher"},
   FechaRelatorioGerencial |-> {"report"}]

\* Others are taken at any time.
Takes(fn) ==
  /\ (fn \in DOMAIN Opens \/ fn \in Whole) => doc = "none"
  /\ fn \in DOMAIN Within => doc \in Within[fn]
  /\ fn \in DOMAIN Moves => doc = Moves[fn][1]
  /\ fn \in DOMAIN Ends => doc \in Ends[fn]

\* The document after the call was carried out.
After(fn) ==
  IF fn \in DOMAIN Opens THEN Opens[fn]
  ELSE IF fn \in DOMAIN Ends THEN "none"
  ELSE IF fn \in DOMAIN Moves THEN Moves[fn][2]
  ELSE doc

CarriedOut(fn) == Takes(fn) /\ doc' = After(fn) /\ UNCHANGED paper
NotCarriedOut == UNCHANGED printerVars

\* The status word: of a call that was carried out it says only how much paper
\* is left.  A call out of its document has a bit of the second byte too, one
\* refused for another reason an extended code.
PaperBits ==
  CASE paper = "ok" -> {}
    [] paper = "low" -> {"pouco_papel"}
    [] paper = "out" -> {"pouco_papel", "fim_de_papel"}
Word == [st1 |-> PaperBits, st2 |-> {}, st3 |-> 0]
Cancels == {"CancelaCupom", "CancelaRecebimentoNaoFiscalMFD", "CancelaItemAnterior"}
Refusal(fn, code) ==
  IF Takes(fn) THEN [Word EXCEPT !.st3 = code]
  ELSE [Word EXCEPT !.st2 = IF fn \in Cancels THEN {"canc_nao_permitido"}
                            ELSE {"comando_nao_executado"}]

\* Paper runs out, is put in.
PaperChanges ==
  /\ paper' = CASE paper = "ok" -> "low" [] paper = "low" -> "out" [] paper = "out" -> "ok"
  /\ UNCHANGED doc
=============================================================================
