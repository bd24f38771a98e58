------------------------------ MODULE Packets --------------------------------
(***************************************************************************)
(* Packets, their parameters and their lines (packet.cc, pktparam.cc,      *)
(* txtwriter.cc, and get_param_by_name of the broker).                     *)
(*                                                                         *)
(* A line is what the reader tells apart, <<kind, data...>>: a tag, an      *)
(* identifier, "name:value", the begin or end of a message, plain text.     *)
(* A name stands for all its spellings: names are compared without case.    *)
(***************************************************************************)
EXTENDS Integers, Sequences, FiniteSets, FiniteSetsExt

tp_begin_session == "ecf_begin_session"
tp_execut == "ecf_execute"
tp_end_session == "ecf_end_session"
tp_status == "ecf_status"
tp_reset == "ecf_reset"
PacketTypes == {tp_begin_session, tp_execut, tp_end_session, tp_status, tp_reset}

\* m_type is not initialised: it is read as one of the types or as none.
uninitialised == "uninitialised"
not_typed == ""

BeginTag == <<"<ecf_sgi_begin>">>
EndTag == <<"<ecf_sgi_end>">>
Request(t) == <<"_request", t>>
Response(t) == <<"_response", t>>
ServerLine == <<"server_id:">>
SessionLine(s) == <<"session_id:", s>>
CommandLine(c) == <<"command_id:", c>>
ParamLine(n, v) == <<":", n, v>>
MsgBegin == <<"mensagem{">>
MsgEnd == <<"}">>
Plain(v) == <<"text", v>>
Empty == <<"">>
Cut == <<"cortar_papel_ecf">>

PKT_RESPONSE_OK == 0
PKT_RESPONSE_ERR == 1

NewPacket == [type |-> uninitialised, session |-> "", id |-> "", params |-> <<>>]
Param(n, vs) == [name |-> n, values |-> vs]
AddParam(pkt, p) == [pkt EXCEPT !.params = Append(@, p)]

-----------------------------------------------------------------------------
(* Parameters.                                                             *)

\* copy leaves the values of the copy alone if the original has none, and the
\* loop of get_param_by_name copies one parameter after the other into one.
Copied(params, i) ==
  LET valued == {j \in 1..i : params[j].values # <<>>}
  IN IF valued = {} THEN <<>> ELSE params[Max(valued)].values

Named(params, n) == {i \in DOMAIN params : params[i].name = n}

\* The values found under a name; none if it throws pkt_param_exp.
GetParam(params, n) ==
  IF Named(params, n) = {} THEN <<>> ELSE Copied(params, Min(Named(params, n)))

\* The first of them.
GetParamValue(params, n) == Head(GetParam(params, n))

-----------------------------------------------------------------------------
\* write_packet: the lines of a response; its parameters have one value each.
ResponseLines(pkt, code) ==
  <<BeginTag, Response(pkt.type)>>
  \o (IF pkt.type \in {tp_begin_session, tp_status} THEN <<ServerLine>> ELSE <<>>)
  \o (IF pkt.type = tp_begin_session /\ code # PKT_RESPONSE_OK THEN <<>>
      ELSE <<SessionLine(pkt.session)>>)
  \o <<Plain(code)>>
  \o [i \in DOMAIN pkt.params |-> Plain(pkt.params[i].values[1])]
  \o <<EndTag>>
=============================================================================
