------------------------------ MODULE EcfBroker -------------------------------
(***************************************************************************)
(* The commands of a client and the steps of the driver they lead to        *)
(* (ecfbroker.cc), with the driver's check of each call, the date it keeps  *)
(* of the last reduction, and its start (ecfbematech.cc).                   *)
(*                                                                         *)
(* trade is followed one step of the driver at a time, from the request to  *)
(* the answer; the printer is FiscalPrinter.                                *)
(***************************************************************************)
EXTENDS FiscalPrinter, EcfDriver, EcfStatus, Packets

CONSTANTS
  Requests,             \* commands with their parameters
  IgnoreLowPaper,       \* ignorar_pouco_papel of the configuration
  Refusals,             \* the printer may refuse what it could do
  LostAnswers           \* a call may fail in the library, carried out or not

ASSUME BrokerAssumption ==
  /\ IgnoreLowPaper \in BOOLEAN /\ Refusals \in BOOLEAN /\ LostAnswers \in BOOLEAN
  /\ Requests \subseteq
       [id : STRING, params : Seq([name : STRING, values : Seq(Seq(STRING))])]

VARIABLES
  cv0909,               \* the driver that the factory made
  ignoring,             \* m_ignorar_pouco_papel
  m_status, m_stsmsg,   \* of the last call checked
  ult_red,              \* what m_dt_ult_red and m_hr_ult_red are of
  misreported,          \* a reduction was carried out and taken for an error
  cmd,                  \* the request being answered, or Idle
  plan, todo,           \* its steps, and those to come
  done,                 \* calls that the printer carried out for it
  answer

driverVars == <<cv0909, ignoring, m_status, m_stsmsg, ult_red, misreported>>
tradeVars == <<cmd, plan, todo, done, answer>>
vars == <<doc, paper, cv0909, ignoring, m_status, m_stsmsg, ult_red, misreported,
          cmd, plan, todo, done, answer>>

-----------------------------------------------------------------------------
(* The commands: the parameters each one cannot do without, and what it     *)
(* asks of the driver.                                                      *)

Asks(needs, op) == [needs |-> needs, op |-> op]
Same(ops) == [op \in ops |-> Asks({}, op)]
Person == {"nr_documento", "nome", "endereco"}

Users == [get_numusuario |-> Asks({}, "get_nr_usuario")]
Identities ==
  Same({"get_nr_loja", "get_nr_serie", "get_marca", "get_modelo",
        "get_nr_serie_cript", "get_nr_caixa"})
Clocks ==
  Same({"get_firmware", "get_data_atual", "get_hora_atual", "get_data_mvto",
        "get_data_ult_red", "get_hora_ult_red"})
States == Same({"get_status_ecf", "get_nr_cupom"})
TableQueries ==
  [get_id_forma_pgto |-> Asks({"descricao"}, "get_id_forma_pgto"),
   get_totalizador_cnf |-> Asks({"descricao"}, "get_totalizador_cnf"),
   get_prox_totalizador |-> Asks({}, "get_prox_totalizador")]
TableSettings ==
  [set_forma_pgto |-> Asks({"descricao"}, "set_forma_pgto"),
   set_aliquota |-> Asks({"aliquota"}, "set_aliquota"),
   set_totalizador |-> Asks({"valor"}, "set_totalizador")]
Sales ==
  [snd_abre_cupom |-> Asks(Person, "abre_cupom"),
   snd_cancela_cupom |-> Asks({}, "cancela_cupom"),
   snd_vende_item |->
     Asks({"codigo", "descricao", "aliquota", "quantidade", "valor", "desconto"},
          "vende_item")]
Closings ==
  [snd_inicia_fechamento |-> Asks({"valor"}, "inicia_fechamento"),
   snd_pagamento |-> Asks({"indice", "valor"}, "pagamento"),
   snd_fecha_cupom |-> Asks({"mensagem"}, "fecha_cupom")]
Vouchers ==
  [snd_nfiscal_vinc |-> Asks({"descricao", "valor", "coo"}, "abre_nfiscal_vinc"),
   snd_msg_vinc |-> Asks({"mensagem"}, "msg_nfiscal_vinc"),
   snd_fecha_vinc |-> Asks({}, "fecha_nfiscal_vinc"),
   snd_nfiscal_nvinc |-> Asks({"codigo", "valor", "moeda"}, "abre_nfiscal_nvinc")]
Drawer == [snd_abregaveta |-> Asks({}, "abre_gaveta")]
Machine ==
  Same({"get_max_col", "reducao_z", "get_cupom_aberto", "set_arredondamento",
        "get_imprime_cheques"})
Readings == Same({"get_nr_reducoes", "dados_ult_reducao", "leitura_x"})
Memories ==
  [get_cnt_reinicio |-> Asks({}, "get_nr_reinicio"),
   memoria_fiscal |->
     Asks({"tipo", "data_inicio", "data_fim", "completa", "saida"}, "memoria_fiscal")]
ChequeCommands ==
  [set_moeda_singular |-> Asks({"descricao"}, "set_moeda_singular"),
   set_moeda_plural |-> Asks({"descricao"}, "set_moeda_plural"),
   snd_imprime_cheque |->
     Asks({"valor_x", "valor_y", "valor", "ext1_x", "ext1_y", "ext2_x", "ext2_y",
           "fav_x", "fav_y", "favorecido", "local_x", "local_y", "localidade",
           "dia_x", "dia", "mes_x", "mes", "ano_x", "ano", "mensagem"},
          "imprime_cheque")]
ReportCommands ==
  [snd_abre_rel_gerencial |-> Asks({"titulo"}, "abre_rel_gerencial"),
   snd_txt_gerencial |-> Asks({"mensagem"}, "txt_rel_gerencial"),
   snd_fecha_rel_gerencial |-> Asks({}, "fecha_rel_gerencial"),
   set_rel_gerencial |-> Asks({"descricao"}, "set_rel_gerencial"),
   snd_aciona_guilhotina |-> Asks({"cortetotal"}, "aciona_guilhotina"),
   get_id_rel_gerencial |-> Asks({"descricao"}, "get_id_rel_gerencial")]
QualityCommands ==
  [snd_corte_auto |-> Asks({}, "corte_auto"), get_istermica |-> Asks({}, "is_termica"),
   get_ispafcompliant |-> Asks({}, "is_paf_compliant"),
   set_tipo_corte |-> Asks({"cortetotal"}, "set_tipo_corte"),
   grandetotal |-> Asks({}, "get_grande_total"), matchconf |-> Asks({}, "match_conf")]
CashCommands ==
  [snd_sangria |-> Asks({"valor"}, "sangria"),
   snd_suprimento |-> Asks({"valor"}, "suprimento"),
   set_horarioverao |-> Asks({}, "set_horario_verao"),
   get_ishorarioverao |-> Asks({}, "is_horario_verao"),
   downloadmfd |-> Asks({"tipo", "inicial", "final"}, "download_mfd"),
   get_poucopapel |-> Asks({}, "pouco_papel")]
CounterCommands ==
  [get_cnt_cupomfiscal |-> Asks({}, "contador_cupom_fiscal"),
   get_cnt_naofiscal |-> Asks({}, "contador_tot_naofiscal"),
   get_cnt_creddeb |-> Asks({}, "contador_credito_debito"),
   get_cnt_relgerencial |-> Asks({}, "contador_rel_gerenciais"),
   snd_cancela_item |-> Asks({}, "cancela_item")]
ReceiptCommands ==
  [snd_abrerecibo |-> Asks(Person, "abre_recibo"),
   snd_abreccd |-> Asks({"formapgto", "valor", "coo"} \cup Person, "abre_credito_debito"),
   snd_segundaviaccd |-> Asks({}, "segunda_via_ccd"),
   snd_reimprimeccd |-> Asks({}, "reimprime_ccd"),
   snd_cancelarecibo |-> Asks({}, "cancela_recibo")]
SettlingCommands ==
  [snd_cancelaccd |-> Asks(Person, "estorna_ccd"),
   snd_regnaofiscal |-> Asks({"indice", "valor"}, "reg_nao_fiscal"),
   snd_lctonaofiscal |-> Asks({"formapgto", "valor"}, "lcto_nao_fiscal"),
   snd_iniciafechamentonaofiscal |->
     Asks({"tipo", "valor"}, "inicia_fechamento_nao_fiscal"),
   snd_fecharecibo |-> Asks({"mensagem"}, "fecha_recibo"),
   snd_fechaccd |-> Asks({}, "fecha_ccd")]
OtherCommands ==
  [snd_cancnaofiscalpos |->
     Asks({"formapgto", "valor", "coo", "cdc"} \cup Person, "cancela_nfiscal_pos"),
   snd_abre_gerencial |-> Asks({"titulo"}, "abre_gerencial"),
   get_naofisc_aberto |-> Asks({}, "nao_fiscal_aberto")]
ListCommands ==
  [convertemfd |->
     Asks({"tipo", "inicial", "final", "origem", "destino"}, "converte_mfd"),
   get_tab_aliquotas |-> Asks({}, "get_tab_aliq"),
   get_tab_relgerenciais |-> Asks({}, "get_tab_relger"),
   get_tab_totcnf |-> Asks({}, "get_tab_totcnf"),
   get_tab_formaspgto |-> Asks({}, "get_tab_fpgto")]

Commands ==
  Merged({Users, Identities, Clocks, States, TableQueries, TableSettings, Sales,
          Closings, Vouchers, Drawer, Machine, Readings, Memories, ChequeCommands,
          ReportCommands, QualityCommands, CashCommands, CounterCommands,
          ReceiptCommands, SettlingCommands, OtherCommands, ListCommands})

-----------------------------------------------------------------------------
(* From a request to its steps.                                            *)

Given(request, n) == GetParam(request.params, n) # <<>>
Value(request, n) ==
  IF Given(request, n) THEN GetParamValue(request.params, n) ELSE <<>>

\* Lines of a message: the first, and those after it up to an empty one.
Lines(values) ==
  {i \in DOMAIN values : \A j \in 2..i : values[j] # <<>>}
Texto(values) == FlattenSeq(SubSeq(values, 1, Cardinality(Lines(values))))

\* Mutant: the report is left for the client to close.
AbreGerencialOpen(request) ==
  Operations["abre_rel_gerencial"]
  \o (IF ~Given(request, "mensagem") THEN Throw
      ELSE TxtTagged(Texto(GetParam(request.params, "mensagem"))))

\* snd_abre_gerencial: what get_param_by_name throws for a message that is not
\* there, or has no text, is not what the handler catches.
AbreGerencial(request) ==
  Operations["abre_rel_gerencial"]
  \o (IF ~Given(request, "mensagem") THEN Throw
      ELSE TxtTagged(Texto(GetParam(request.params, "mensagem"))))
  \o Operations["fecha_rel_gerencial"]

\* get_data_ult_red and get_hora_ult_red: the printer is asked if nothing is kept.
UltRed == IF ult_red = "none" THEN Call("DataHoraReducao") ELSE <<>>

DriverOperation(op) ==
  IF cv0909 /\ op \in DOMAIN Cv0909Operations THEN Cv0909Operations[op]
  ELSE Operations[op]

Steps(request, op) ==
  CASE op \in DOMAIN Operations -> DriverOperation(op)
    [] op \in {"get_data_ult_red", "get_hora_ult_red"} -> UltRed
    [] op = "set_aliquota" -> SetAliquota(Value(request, "aliquota"))
    [] op = "vende_item" ->
         VendeItem(Value(request, "descricao"), Value(request, "aliquota"))
    [] op = "memoria_fiscal" ->
         MemoriaFiscal(Value(request, "tipo"), Value(request, "data_inicio"),
                       Value(request, "data_fim"), Value(request, "saida"))
    [] op = "leitura_x" -> LeituraX(Value(request, "saida"))
    [] op = "download_mfd" -> DownloadMfd
    [] op = "converte_mfd" -> ConverteMfd(cv0909)
    [] op = "inicia_fechamento_nao_fiscal" ->
         IniciaFechamentoNaoFiscal(Value(request, "tipo"))
    [] op = "txt_rel_gerencial" -> TxtRelGerencial(Value(request, "mensagem"))
    [] op = "abre_gerencial" -> AbreGerencial(request)

\* tag_enum throws for a name that is not a command's; parameters are read
\* before the driver is called.
tag_enum(id) == id \in DOMAIN Commands
Complete(request) ==
  tag_enum(request.id) /\ \A n \in Commands[request.id].needs : Given(request, n)
Program(request) ==
  IF Complete(request) THEN Steps(request, Commands[request.id].op) ELSE Throw

-----------------------------------------------------------------------------
Idle == <<>>
Starting == [id |-> "ecf_bematech"]
NoAnswer == [ok |-> FALSE, msg |-> "no answer"]
Answered == answer # NoAnswer

\* Errors of the constructor and of reducao_z are swallowed.
Swallowed == cmd = Starting \/ cmd.id = "reducao_z"

Messages == StatusMessages \cup {"", "retmsg", "thrown", "no answer"}

TypeOK ==
  /\ PrinterTypeOK
  /\ cv0909 \in BOOLEAN /\ ignoring \in BOOLEAN
  /\ m_status.st1 \subseteq Bits(ST1) /\ m_status.st2 \subseteq Bits(ST2)
  /\ m_status.st3 \in 0..255 /\ m_stsmsg \in StatusMessages \cup {""}
  /\ ult_red \in {"none", "last", "old"} /\ misreported \in BOOLEAN
  /\ cmd \in Requests \cup {Idle, Starting}
  /\ Len(todo) <= Len(plan) + 1 /\ (Answered => todo = <<>>)
  /\ answer \in [ok : BOOLEAN, msg : Messages]

\* m_status has no value before the first call that is checked.
Uninitialised ==
  {[st1 |-> b, st2 |-> {}, st3 |-> 0] : b \in SUBSET {"pouco_papel"}}

Init ==
  /\ PrinterInit
  /\ cv0909 \in BOOLEAN /\ ignoring = TRUE
  /\ m_status \in Uninitialised /\ m_stsmsg = ""
  /\ ult_red = "none" /\ misreported = FALSE
  /\ cmd = Starting /\ plan = Constructor /\ todo = Constructor
  /\ done = <<>> /\ answer = NoAnswer

\* The service is killed, or ends, and is started again.
Restart ==
  /\ ignoring' = TRUE
  /\ m_status' \in Uninitialised /\ m_stsmsg' = ""
  /\ ult_red' = "none" /\ misreported' = FALSE
  /\ cmd' = Starting /\ plan' = Constructor /\ todo' = Constructor
  /\ done' = <<>> /\ answer' = NoAnswer
  /\ UNCHANGED <<doc, paper, cv0909>>

\* trade begins.
Trade(request) ==
  /\ cmd = Idle
  /\ cmd' = request
  /\ plan' = Program(request) /\ todo' = Program(request)
  /\ UNCHANGED <<doc, paper, driverVars, done, answer>>

Proceed == todo' = Tail(todo) /\ UNCHANGED answer

\* Mutant: an error does not end the operation.
FailOn(msg) ==
  /\ todo' = Tail(todo)
  /\ answer' = IF Swallowed THEN NoAnswer ELSE [ok |-> FALSE, msg |-> msg]

Fail(msg) ==
  /\ todo' = <<>>
  /\ answer' = IF Swallowed THEN NoAnswer ELSE [ok |-> FALSE, msg |-> msg]

\* The step to be taken.
Next1 == Head(todo)
Working == todo # <<>> /\ ~Answered
IsCall == Working /\ Next1.fn \notin Others
At(fn) == Working /\ Next1.fn = fn

-----------------------------------------------------------------------------
(* Calls of the library.                                                   *)

\* Calls whose status word is not asked for.
Unchecked == {"DownloadMFD", "FormatoDadosMFD", "VerificaEstadoImpressoraMFD"}

\* check: the word is kept, and the operation ends if it is not clean.
Check(word) ==
  LET e == EvalStatus(word, ignoring, m_stsmsg)
  IN /\ m_status' = word /\ m_stsmsg' = e.msg
     /\ IF e.ok THEN Proceed ELSE Fail(e.msg)
Clean(word) == EvalStatus(word, ignoring, m_stsmsg).ok

\* What the driver keeps of the last reduction when the call returned, well or
\* not, and the printer had carried it out.
Keeps(fn, well) ==
  /\ ult_red' = CASE fn = "ReducaoZ" /\ ult_red # "none" -> "old"
                  [] fn = "DataHoraReducao" /\ well -> "last"
                  [] OTHER -> ult_red
  /\ misreported' = CASE fn = "ReducaoZ" /\ ~well -> TRUE
                      [] fn = "DataHoraReducao" /\ well -> FALSE
                      [] OTHER -> misreported

CallDone ==
  /\ IsCall
  /\ CarriedOut(Next1.fn)
  /\ done' = Append(done, Next1)
  /\ IF Next1.fn \in Unchecked
     THEN Proceed /\ UNCHANGED <<m_status, m_stsmsg, ult_red, misreported>>
     ELSE Check(Word) /\ Keeps(Next1.fn, Clean(Word))
  /\ UNCHANGED <<cv0909, cmd, plan, ignoring>>

\* The printer refuses: the call, or the document it is in, does not allow it.
CallRefused ==
  /\ IsCall /\ Next1.fn \notin Unchecked
  /\ Refusals \/ ~Takes(Next1.fn)
  /\ NotCarriedOut
  /\ \E code \in Codes : Check(Refusal(Next1.fn, code))
  /\ UNCHANGED <<cv0909, cmd, plan, done, ignoring, ult_red, misreported>>

\* The library answers with an error, or cannot read the status word.
CallFails ==
  /\ IsCall /\ LostAnswers
  /\ \/ /\ CarriedOut(Next1.fn) /\ done' = Append(done, Next1)
        /\ Keeps(Next1.fn, FALSE)
     \/ NotCarriedOut /\ UNCHANGED <<done, ult_red, misreported>>
  /\ Fail("retmsg")
  /\ UNCHANGED <<cv0909, cmd, plan, ignoring, m_status, m_stsmsg>>

-----------------------------------------------------------------------------
(* Other steps.                                                            *)

\* A table is read if the driver has no copy that serves (EcfTables).
ReadTable ==
  /\ At("read")
  /\ \/ Proceed
     \/ todo' = Next1.text \o Tail(todo) /\ UNCHANGED answer
  /\ UNCHANGED <<doc, paper, driverVars, cmd, plan, done>>

\* The entry is as it must be, the file is there, or not.
Test ==
  /\ At("present") \/ At("absent") \/ At("found")
  /\ Proceed \/ Fail("thrown")
  /\ UNCHANGED <<doc, paper, driverVars, cmd, plan, done>>

\* A payment is suppressed after an entry that has none (EcfPayments).
Suppress ==
  /\ At("suppress")
  /\ todo' \in {Tail(todo), <<>>}
  /\ UNCHANGED <<doc, paper, driverVars, cmd, plan, done, answer>>

Throws ==
  /\ At("throw")
  /\ Fail("thrown")
  /\ UNCHANGED <<doc, paper, driverVars, cmd, plan, done>>

\* Mutant: the hour and the date are kept.
EmptyUltRedNot ==
  /\ At("empty")
  /\ Proceed
  /\ UNCHANGED <<doc, paper, driverVars, cmd, plan, done>>

EmptyUltRed ==
  /\ At("empty")
  /\ ult_red' = "none" /\ misreported' = FALSE
  /\ Proceed
  /\ UNCHANGED <<doc, paper, cv0909, ignoring, m_status, m_stsmsg, cmd, plan, done>>

\* load_specific, which may find no file.
LoadConfig ==
  /\ At("load")
  /\ \/ ignoring' = IgnoreLowPaper /\ Proceed
     \/ UNCHANGED ignoring /\ Fail("thrown")
  /\ UNCHANGED <<doc, paper, cv0909, m_status, m_stsmsg, ult_red, misreported,
                 cmd, plan, done>>

\* An exception that trade does not catch ends the service.
Escapes == At("out_of_range") /\ Restart

\* The operation is over.
Finish ==
  /\ cmd # Idle /\ todo = <<>> /\ ~Answered
  /\ answer' = [ok |-> TRUE, msg |-> ""]
  /\ UNCHANGED <<doc, paper, driverVars, cmd, plan, todo, done>>

\* The answer is written, and the next request waited for.
Reply ==
  /\ Answered
  /\ cmd' = Idle /\ plan' = <<>> /\ todo' = <<>> /\ done' = <<>>
  /\ answer' = NoAnswer
  /\ UNCHANGED <<doc, paper, driverVars>>

Paper == cmd = Idle /\ PaperChanges /\ UNCHANGED <<driverVars, tradeVars>>

Next ==
  \/ \E request \in Requests : Trade(request)
  \/ CallDone \/ CallRefused \/ CallFails
  \/ ReadTable \/ Test \/ Suppress \/ Throws \/ EmptyUltRed \/ LoadConfig \/ Escapes
  \/ Finish \/ Reply \/ Restart \/ Paper

Spec == Init /\ [][Next]_vars

-----------------------------------------------------------------------------
(* Properties.                                                             *)

Sent(seq, fns) ==
  FlattenSeq([i \in DOMAIN seq |-> IF seq[i].fn \in fns THEN <<>> ELSE <<seq[i]>>])
TableReads ==
  {"VerificaFormasPagamentoMFD", "VerificaTotalizadoresNaoFiscaisMFD",
   "VerificaRelatorioGerencialMFD", "VerificaIndiceAliquotasIss", "RetornoAliquotas",
   "MarcaModeloTipoImpressoraMFD", "ModeloImpressora"}

\* A command answered OK made the printer do all that it stands for, each call
\* once and in order; only the reduction is answered OK whatever happened, and a
\* payment that is suppressed reaches nothing.
OkMeansDone ==
  Answered /\ answer.ok /\ ~Swallowed
    => \/ Sent(done, TableReads) = Sent(plan, Others)
       \/ done = <<>> /\ Head(plan).fn = "suppress"

\* The printer's error is answered of a command that is one call, not counting
\* readings of tables, only if the printer did not do it, or has little or no
\* paper: a client may safely send it again.
ErrorMeansUndone ==
  Answered /\ answer.msg \in StatusMessages /\ Len(Sent(plan, Others)) = 1
    => \/ Sent(done, TableReads) = <<>>
       \/ "pouco_papel" \in m_status.st1 /\ ~ignoring
       \/ "fim_de_papel" \in m_status.st1

\* The text of an error is of the call that failed: its own extended code, or one
\* of its own bits, and never what an earlier call left behind.  The exceptions are
\* the codes that the table gives the text of the next, the bits that eval_status
\* confuses, and the end of the paper, which has no text when low paper is let pass.
ErrorIsTheCalls ==
  Answered /\ answer.msg \in StatusMessages
    => \/ answer.msg \in m_status.st1 \cup m_status.st2
       \/ m_status.st3 # 0 /\ answer.msg = St3Meant(m_status.st3)
       \/ m_status.st3 \in Shifted /\ answer.msg = St3Entry(m_status.st3)
       \/ "canc_nao_permitido" \in m_status.st2
       \/ ignoring /\ {"pouco_papel", "fim_de_papel"} \subseteq m_status.st1

\* Not so in the code.  The same of the extended codes without the first exception:
\* a code is answered with the text that stands beside it in the table
\* (bemafi.h:330-548).
TextIsTheCodes ==
  Answered /\ answer.msg \in StatusMessages /\ m_status.st3 # 0
    => answer.msg = St3Meant(m_status.st3)

\* The last reduction answered is the printer's last, unless a reduction was
\* carried out and its call taken for an error.
LastReductionIsTheLast ==
  Answered /\ answer.ok /\ cmd.id \in {"get_data_ult_red", "get_hora_ult_red"}
    => ult_red = "last" \/ misreported

\* snd_abre_gerencial, given a text, leaves the report open only if the
\* printer or the library failed it.
Opened == \E i \in DOMAIN done : done[i].fn = "AbreRelatorioGerencialMFD"
ReportStaysOpenOnFaults ==
  /\ Answered /\ cmd.id = "snd_abre_gerencial" /\ Opened /\ doc = "report"
  /\ Given(cmd, "mensagem")
  => ~answer.ok /\ answer.msg # "thrown"

\* The same without exceptions: it "Abre relatorio gerencial, imprime texto e
\* fecha-o" (ecfbroker.cc:2284).
ReportIsClosed ==
  Answered /\ cmd.id = "snd_abre_gerencial" /\ Opened => doc # "report"

\* A report answered OK has the whole text of the message, its first line and those
\* after it up to an empty one, and its paper was cut at each tag.
Texts(seq) ==
  FlattenSeq([i \in DOMAIN seq |->
    IF seq[i].fn = "AcionaGuilhotinaMFD" THEN <<CutTag>> ELSE seq[i].text])
PrintsTheMessage ==
  Answered /\ answer.ok /\ cmd.id = "snd_abre_gerencial"
    => Texts(Sent(done, TableReads)) = Texto(GetParam(cmd.params, "mensagem"))

\* Not so in the code.  The same of every line of the message: the command
\* "imprime texto", and a text ends where there is no other value
\* (ecfbroker.cc:2284, 2321).
PrintsEveryLine ==
  Answered /\ answer.ok /\ cmd.id = "snd_abre_gerencial"
    => Texts(Sent(done, TableReads)) = FlattenSeq(GetParam(cmd.params, "mensagem"))
=============================================================================
