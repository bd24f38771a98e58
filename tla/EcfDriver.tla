------------------------------ MODULE EcfDriver -------------------------------
(***************************************************************************)
(* The operations of the Bematech drivers, as the steps each one takes      *)
(* (ecfbematech.cc, ecfbematechcv0909.cc).  A step is a call of the         *)
(* printer's library, whose name goes without Bematech_FI_ and CV0909, or   *)
(* one of those below.  The entries of tables are in EcfTables, what the    *)
(* CV0909 driver keeps of payments is in EcfPayments.                       *)
(***************************************************************************)
EXTENDS Integers, Sequences, SequencesExt, FiniteSetsExt

CONSTANTS
  LineSize,             \* units of text that one call prints
  DescrSize,            \* units of an item's description that fit in a sale
  DateSize,             \* units of a date that format_date needs
  MfdSupport            \* the library built in that converts the fiscal memory

ASSUME DriverAssumption ==
  /\ LineSize \in Nat \ {0} /\ DescrSize \in Nat /\ DateSize \in Nat
  /\ MfdSupport \in {"none", "mfd2", "mfd3"}

Step(fn, text) == [fn |-> fn, text |-> text]
Call(fn) == <<Step(fn, <<>>)>>

\* Steps that are not a call: an exception that trade answers, one that it does
\* not; a test that the library left a file; an entry that must be in its table,
\* or must not; a payment that may be suppressed; the reading of a table, or of
\* what never changes, that is left out if it was read before; the emptying of
\* the cached reduction; the reading of the configuration.
Throw == <<Step("throw", <<>>)>>
Escape == <<Step("out_of_range", <<>>)>>
Found == <<Step("found", <<>>)>>
Present == <<Step("present", <<>>)>>
Absent == <<Step("absent", <<>>)>>
UnlessSuppressed == <<Step("suppress", <<>>)>>
ReadOnce(calls) == <<Step("read", calls)>>
Emptied == <<Step("empty", <<>>)>>
LoadSpecific == <<Step("load", <<>>)>>
Others ==
  {"throw", "out_of_range", "found", "present", "absent", "suppress", "read",
   "empty", "load"}

\* Tables with no entry in common, as one.
Merged(tables) ==
  [x \in UNION {DOMAIN f : f \in tables} |->
     (CHOOSE f \in tables : x \in DOMAIN f)[x]]

Forms == ReadOnce(Call("VerificaFormasPagamentoMFD"))
Totals == ReadOnce(Call("VerificaTotalizadoresNaoFiscaisMFD"))
Reports == ReadOnce(Call("VerificaRelatorioGerencialMFD"))
Rates == ReadOnce(Call("VerificaIndiceAliquotasIss") \o Call("RetornoAliquotas"))

-----------------------------------------------------------------------------
(* Operations whose arguments make no difference here.                     *)

Identity ==
  [get_nr_loja |-> Call("NumeroLoja"), get_nr_serie |-> Call("NumeroSerieMFD"),
   get_marca |-> ReadOnce(Call("MarcaModeloTipoImpressoraMFD")),
   get_modelo |-> ReadOnce(Call("ModeloImpressora"))]
Numbers ==
  [get_nr_usuario |-> Call("NumeroSubstituicoesProprietario"),
   get_nr_serie_cript |-> Call("NumeroSerieCriptografado"),
   get_nr_caixa |-> Call("NumeroCaixa"), get_firmware |-> Call("VersaoFirmwareMFD")]
Clock ==
  [get_data_atual |-> Call("DataHoraImpressora"),
   get_hora_atual |-> Call("DataHoraImpressora"),
   get_data_mvto |-> Call("DataMovimento")]
Status ==
  [get_status_ecf |-> Call("VerificaEstadoImpressoraMFD"),
   get_nr_cupom |-> Call("NumeroCupom")]
Entries ==
  [get_id_forma_pgto |-> Forms, get_totalizador_cnf |-> Totals,
   get_prox_totalizador |-> Totals]
Programmed ==
  [set_forma_pgto |-> Forms \o Absent \o Call("ProgramaFormaPagamentoMFD"),
   set_totalizador |-> Totals \o Absent \o Totals \o Call("NomeiaTotalizadorNaoSujeitoIcms")]
Coupon ==
  [abre_cupom |-> Call("AbreCupomMFD"), cancela_cupom |-> Call("CancelaCupom")]
Pays == Forms \o Present \o Call("EfetuaFormaPagamentoIndice")
Closing ==
  [inicia_fechamento |-> Call("IniciaFechamentoCupomMFD"), pagamento |-> Pays,
   fecha_cupom |-> Call("TerminaFechamentoCupom")]
Voucher ==
  [abre_nfiscal_vinc |-> Call("AbreComprovanteNaoFiscalVinculado"),
   msg_nfiscal_vinc |-> Call("UsaComprovanteNaoFiscalVinculado"),
   fecha_nfiscal_vinc |-> Call("FechaComprovanteNaoFiscalVinculado"),
   abre_nfiscal_nvinc |-> Totals \o Present \o Call("RecebimentoNaoFiscal")]
Devices ==
  [get_max_col |-> <<>>, abre_gaveta |-> Call("AcionaGaveta"),
   reducao_z |-> Call("ReducaoZ") \o Emptied,
   get_cupom_aberto |-> Call("VerificaEstadoImpressoraMFD"),
   set_arredondamento |-> Call("ProgramaArredondamento"),
   get_imprime_cheques |-> <<>>, get_nr_reducoes |-> Call("NumeroReducoes")]
LastReduction == [dados_ult_reducao |-> Call("DadosUltimaReducaoMFD")]
Restarts == [get_nr_reinicio |-> Call("NumeroSubstituicoesProprietario")]
Cheques == [set_moeda_singular |-> <<>>, set_moeda_plural |-> <<>>, imprime_cheque |-> <<>>]
Report ==
  [abre_rel_gerencial |-> Reports \o Present \o Call("AbreRelatorioGerencialMFD"),
   get_id_rel_gerencial |-> Reports]
ReportEnds ==
  [fecha_rel_gerencial |-> Call("FechaRelatorioGerencial"),
   set_rel_gerencial |-> Reports \o Absent \o Call("NomeiaRelatorioGerencialMFD"),
   aciona_guilhotina |-> Call("AcionaGuilhotinaMFD"),
   corte_auto |-> Call("AtivaDesativaCorteProximoMFD")]
Qualities ==
  [is_termica |-> <<>>, is_paf_compliant |-> <<>>, set_tipo_corte |-> <<>>,
   get_grande_total |-> Call("GrandeTotal"), match_conf |-> <<>>]
Cash ==
  [sangria |-> Call("Sangria"), suprimento |-> Call("Suprimento"),
   set_horario_verao |-> Call("ProgramaHorarioVerao"),
   is_horario_verao |-> Call("FlagsFiscais")]
Counters ==
  [pouco_papel |-> <<>>, contador_cupom_fiscal |-> Call("ContadorCupomFiscalMFD"),
   contador_tot_naofiscal |-> Call("NumeroOperacoesNaoFiscais"),
   contador_credito_debito |-> Call("ContadorComprovantesCreditoMFD"),
   contador_rel_gerenciais |-> Call("ContadorRelatoriosGerenciaisMFD")]
Receipts ==
  [cancela_item |-> Call("CancelaItemAnterior"),
   abre_recibo |-> Call("AbreRecebimentoNaoFiscalMFD"),
   abre_credito_debito |-> Call("AbreComprovanteNaoFiscalVinculadoMFD"),
   segunda_via_ccd |-> Call("SegundaViaNaoFiscalVinculadoMFD")]
Reversals ==
  [reimprime_ccd |-> Call("ReimpressaoNaoFiscalVinculadoMFD"),
   cancela_recibo |-> Call("CancelaRecebimentoNaoFiscalMFD"),
   estorna_ccd |-> Call("EstornoNaoFiscalVinculadoMFD"),
   reg_nao_fiscal |-> Totals \o Present \o Call("EfetuaRecebimentoNaoFiscalMFD"),
   lcto_nao_fiscal |-> Pays]
ReceiptEnds ==
  [fecha_recibo |-> Call("FechaRecebimentoNaoFiscalMFD"),
   fecha_ccd |-> Call("FechaComprovanteNaoFiscalVinculado"),
   cancela_nfiscal_pos |-> Call("EstornoNaoFiscalVinculadoPosteriorMFD"),
   nao_fiscal_aberto |-> Call("StatusEstendidoMFD")]
Listings ==
  [get_tab_aliq |-> Rates, get_tab_relger |-> <<>>, get_tab_totcnf |-> <<>>,
   get_tab_fpgto |-> <<>>]

Operations ==
  Merged({Identity, Numbers, Clock, Status, Entries, Programmed, Coupon, Closing,
          Voucher, Devices, LastReduction, Restarts, Cheques, Report, ReportEnds,
          Qualities, Cash, Counters, Receipts, Reversals, ReceiptEnds, Listings})

\* Those that the CV0909 driver has of its own: a coupon is closed by three calls,
\* and a credit slip is of the next payment that admits one.
Cv0909Operations ==
  [inicia_fechamento |->
     Call("SubTotalizaCupomMFD") \o Call("AcrescimoDescontoSubtotal")
     \o Call("TotalizaCupomMFD"),
   pagamento |-> UnlessSuppressed \o Pays, lcto_nao_fiscal |-> UnlessSuppressed \o Pays,
   abre_credito_debito |->
     Forms \o Present \o Call("AbreComprovanteNaoFiscalVinculado")]

-----------------------------------------------------------------------------
(* Operations whose arguments do.                                          *)

\* The type of a rate, the first of its fields.
TRIBUTADO_ICMS == "T"
TRIBUTADO_ISS == "S"
SUBST_TRIBUTARIA == "F"
NAO_INCIDENTE == "N"
ISENTO == "I"
Exempt == {SUBST_TRIBUTARIA, NAO_INCIDENTE, ISENTO}

\* What the text of a rate throws: its type is before the first colon, its
\* percentage after the last, and is cut after two digits; what is between the
\* two makes no difference.
Aliquota(v) ==
  IF Len(v) < 3 THEN Throw
  ELSE IF v[1] = "" \/ Last(v) = "short" THEN Escape
  ELSE IF v[1] \in Exempt \cup {TRIBUTADO_ICMS, TRIBUTADO_ISS} /\ Last(v) # "large" THEN <<>>
  ELSE Throw

\* set_aliquota, and vende_item: a long description is sent before the item.
SetAliquota(v) == Aliquota(v) \o Rates \o Absent \o Call("ProgramaAliquota")
VendeItem(descr, aliq) ==
  Aliquota(aliq)
  \o (IF aliq # <<>> /\ aliq[1] \in Exempt THEN <<>> ELSE Rates \o Present)
  \o (IF Len(descr) > DescrSize THEN Call("AumentaDescricaoItem") ELSE <<>>)
  \o Call("VendeItem")

\* memoria_fiscal and leitura_x: the library leaves what it reads in a file.
Short(date) == Len(date) < DateSize
MemoriaFiscal(tipo, ini, fim, saida) ==
  LET serial == saida = <<"serial">>
  IN IF tipo = <<"data">>
     THEN (IF Short(ini) \/ Short(fim) THEN Escape ELSE <<>>)
          \o (IF serial THEN Call("LeituraMemoriaFiscalSerialDataMFD") \o Found
              ELSE Call("LeituraMemoriaFiscalDataMFD"))
     ELSE (IF serial THEN Call("LeituraMemoriaFiscalSerialReducaoMFD") \o Found
           ELSE Call("LeituraMemoriaFiscalReducaoMFD"))
LeituraX(saida) ==
  IF saida = <<"serial">> THEN Call("LeituraXSerial") \o Found ELSE Call("LeituraX")
DownloadMfd == Call("DownloadMFD") \o Found
ConverteMfd(cv0909) ==
  IF MfdSupport = "none" \/ (cv0909 /\ MfdSupport = "mfd2") THEN Throw
  ELSE Call("FormatoDadosMFD") \o Found

\* inicia_fechamento_nao_fiscal asks for neither, whatever the type.
Subtotals == {"A", "D", "X", "a", "d", "x"}
IniciaFechamentoNaoFiscal(tipo) ==
  (IF tipo[1] \in Subtotals THEN <<>> ELSE Throw)
  \o Call("IniciaFechamentoRecebimentoNaoFiscalMFD")

\* txt_rel_gerencial: a call for each piece of the text that fits in one.
Piece(msg, i) ==
  Step("UsaRelatorioGerencialMFD",
       SubSeq(msg, (i - 1) * LineSize + 1, Min({i * LineSize, Len(msg)})))
Pieces(n) == (n + LineSize - 1) \div LineSize

\* Mutant: a last piece that is not full is left out.
TxtRelGerencialFull(msg) == [i \in 1..(Len(msg) \div LineSize) |-> Piece(msg, i)]

TxtRelGerencial(msg) == [i \in 1..Pieces(Len(msg)) |-> Piece(msg, i)]

\* The tagged text: what is between two tags is printed, a tag cuts the paper.
CutTag == "cortar_papel_ecf"
Tags(msg) == {i \in DOMAIN msg : msg[i] = CutTag}
LastTag(msg, i) == Max({0} \cup {j \in Tags(msg) : j < i})
Part(msg, i) ==
  IF i \in Tags(msg) \cup {Len(msg) + 1}
  THEN TxtRelGerencial(SubSeq(msg, LastTag(msg, i) + 1, i - 1))
       \o (IF i \in Tags(msg) THEN Call("AcionaGuilhotinaMFD") ELSE <<>>)
  ELSE <<>>
TxtTagged(msg) == FlattenSeq([i \in 1..(Len(msg) + 1) |-> Part(msg, i)])

\* The constructor: nothing that fails is reported.
Constructor ==
  Call("HabilitaDesabilitaRetornoEstendidoMFD") \o LoadSpecific
  \o Call("AtivaDesativaSensorPoucoPapelMFD")
=============================================================================
