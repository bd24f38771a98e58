----------------------------- MODULE MCSession -------------------------------
(* A small instance of Session for TLC.                                    *)
EXTENDS Session

Ids == {"sgi_id_1", "sgi_id_2"}

\* A client may write the first identifier in capitals.
FoldedIds ==
  ("sgi_id_1" :> "sgi_id_1") @@ ("SGI_ID_1" :> "sgi_id_1") @@ ("sgi_id_2" :> "sgi_id_2")

\* Every tag, identifiers of both sessions and of none, parameters with and
\* without the end of a message, text, and lines that cut paper.
SmallLines ==
  {BeginTag, EndTag, MsgBegin, MsgEnd, Plain("x"), Cut, Empty,
   ParamLine("valor", "1"), ParamLine("valor", "}"), ParamLine("mensagem", "1"),
   CommandLine("reducao_z")}
  \cup {Request(t) : t \in PacketTypes \cup {"ecf_other"}}
  \cup {SessionLine(s) : s \in {"", "SGI_ID_1", "sgi_id_2"}}
=============================================================================
