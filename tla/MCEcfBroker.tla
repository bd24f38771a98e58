---------------------------- MODULE MCEcfBroker -------------------------------
(* A small instance of EcfBroker for TLC.                                  *)
EXTENDS EcfBroker

\* The text of an extended code is named by the code.
St3Names == [code \in 0..BEMATECH_HIGHER_BOUND |-> ToString(code)]

\* A value that does for the parameter, and those that make a difference.
Plainly(n) == CASE n = "aliquota" -> <<"T", "0", "1200">>
                [] n = "tipo" -> <<"A">>
                [] OTHER -> <<"v">>
Params(names) == [i \in DOMAIN names |-> Param(names[i], <<Plainly(names[i])>>)]
Command(id, params) == [id |-> id, params |-> params]
InSomeOrder(names) == FoldSet(LAMBDA n, seq : Append(seq, n), <<>>, names)

\* Commands that are one call, or none, which the printer takes at any time and
\* nobody else tells apart: one stands for all.
Told ==
  DOMAIN Opens \cup Whole \cup DOMAIN Within \cup DOMAIN Moves \cup DOMAIN Ends
  \cup Unchecked \cup Others
Alike ==
  {id \in DOMAIN Commands :
     /\ Commands[id].op \in DOMAIN Operations
     /\ Len(Operations[Commands[id].op]) <= 1
     /\ \A i \in DOMAIN Operations[Commands[id].op] :
          Operations[Commands[id].op][i].fn \notin Told}

\* Commands that go the way of another.
Twins ==
  {"get_totalizador_cnf", "get_id_rel_gerencial", "get_marca", "get_modelo",
   "snd_suprimento", "snd_reimprimeccd", "snd_cancelaccd", "snd_segundaviaccd",
   "get_cupom_aberto", "get_hora_ult_red"}

\* Each other command with its parameters, and some without one of them.
Full ==
  {Command(id, Params(InSomeOrder(Commands[id].needs))) :
     id \in (DOMAIN Commands \ (Alike \cup Twins)) \cup {"get_nr_cupom"}}
Wants == {"snd_vende_item", "snd_pagamento", "snd_abre_gerencial", "set_aliquota"}
Lacking ==
  {Command(id, Params(Tail(InSomeOrder(Commands[id].needs)))) : id \in Wants}

\* A message of four lines, one with a tag, one empty; with an empty first line; a
\* long one; no line.
Text == <<<<"x", "x", CutTag>>, <<"x">>, <<>>, <<"x">>>>
Titled(values) ==
  Command("snd_abre_gerencial", Params(<<"titulo">>) \o <<Param("mensagem", values)>>)
Untold == Command("snd_abre_gerencial", <<Param("mensagem", <<>>)>> \o Params(<<"titulo">>))
Sale(descr, aliq) ==
  Command("snd_vende_item",
    Params(<<"codigo", "quantidade", "valor", "desconto">>)
    \o <<Param("descricao", <<descr>>), Param("aliquota", <<aliq>>)>>)
Memory(tipo, date, saida) ==
  Command("memoria_fiscal",
    Params(<<"data_fim", "completa">>)
    \o <<Param("data_inicio", <<date>>), Param("tipo", <<tipo>>),
         Param("saida", <<saida>>)>>)
Special ==
  {Titled(Text), Titled(<<>>), Titled(<<<<>>, <<"x">>, <<>>, <<"x">>>>), Untold, Titled(<<<<CutTag, "x", "x", "x">>>>),
   Command("snd_txt_gerencial", <<Param("mensagem", <<<<"x", "x", "x">>>>)>>),
   Sale(<<"v", "v">>, <<"F", "0", "0000">>), Sale(<<"v">>, <<"T">>),
   Sale(<<"v">>, <<"X", "0", "1200">>), Sale(<<"v">>, <<"T", "0", "short">>),
   Sale(<<"v">>, <<"", "0", "1200">>), Sale(<<"v">>, <<"S", "0", "0", "large">>),
   Memory(<<"data">>, <<"d">>, <<"serial">>), Memory(<<"data">>, <<>>, <<"ecf">>),
   Memory(<<"data">>, <<"d">>, <<"ecf">>), Memory(<<"reducao">>, <<"d">>, <<"serial">>),
   Command("leitura_x", <<Param("saida", <<<<"serial">>>>)>>),
   Command("snd_iniciafechamentonaofiscal",
     <<Param("tipo", <<<<"?">>>>), Param("valor", <<<<"v">>>>)>>),
   Command("unknown", <<>>)}

SmallRequests == Full \cup Lacking \cup Special

\* A report with no text, one with a text.
ReportRequests == {Command("snd_abre_gerencial", Params(<<"titulo">>)), Titled(Text)}
=============================================================================
