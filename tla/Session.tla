------------------------------ MODULE Session --------------------------------
(***************************************************************************)
(* What txt_collector::accept and callback do with a packet: the failure of *)
(* the reader, the session of the printer, the answer (txtcollector.cc,    *)
(* session.cc).  Requests come from any clients, one at a time; what a      *)
(* command does is the broker's (EcfBroker).                               *)
(***************************************************************************)
EXTENDS TxtReader, SequencesExt

CONSTANTS
  SessionIds,           \* identifiers generate may give
  Folded                \* identifiers without the case of their letters

ASSUME SessionAssumption ==
  /\ SessionIds \subseteq STRING \ {""}
  /\ \A s \in SessionIds : s \in DOMAIN Folded
  /\ "" \notin DOMAIN Folded

VARIABLES
  m_session,            \* the session that is open, or ""
  m_failure,
  carried,              \* what callback did with the packet
  response              \* lines of the answer

sessionVars == <<m_session, m_failure, carried, response>>
vars == <<readerVars, sessionVars>>

Phases == {"in_idle", "in_request", "in_ssid", "in_cmdid", "in_param", "in_text",
           "in_stop"}
Texts == Seq(Seq(STRING))

TypeOK ==
  /\ lines \in Texts /\ Len(lines) <= MaxLines
  /\ eof \in BOOLEAN /\ has_stop \in BOOLEAN
  /\ prc_phase \in Phases /\ dfl_phase \in {"in_unknown", "in_text"}
  /\ pkt \in [type : PacketTypes \cup {uninitialised}, session : STRING,
              id : STRING, params : Seq([name : STRING, values : Texts])]
  /\ text \in Texts
  /\ reader \in {"reading", "read", "failed"}
  /\ m_session \in SessionIds \cup {""}
  /\ m_failure \in BOOLEAN
  /\ carried \in {"waiting", "refused", "answered", "executed"}

Init ==
  /\ StartReading
  /\ m_session = "" /\ m_failure = FALSE
  /\ carried = "waiting" /\ response = <<>>

-----------------------------------------------------------------------------
created == m_session # ""
generate == m_session' \in SessionIds
match(ssid) == ssid \in DOMAIN Folded /\ Folded[ssid] = Folded[m_session]

\* The next file: a new packet, and the flags of the last one are cleared.
NextFile ==
  /\ carried # "waiting"
  /\ StartReadingAgain
  /\ m_failure' = FALSE /\ carried' = "waiting"
  /\ response' = <<>>
  /\ UNCHANGED m_session

Read ==
  /\ read_packet
  /\ UNCHANGED sessionVars

\* The exception counts as a failure only before the end of the file.
Failed == reader = "failed" /\ ~eof

\* The type callback sees: what an uninitialised m_type happens to hold.
TypeSeen(t) ==
  IF pkt.type = uninitialised THEN t \in PacketTypes \cup {not_typed}
  ELSE t = pkt.type

Answer(t, ssid, code, msg) ==
  response' = ResponseLines([type |-> t, session |-> ssid,
                             params |-> IF msg = "" THEN <<>>
                                        ELSE <<Param("msg", <<Plain(msg)>>)>>], code)

Callback(t) ==
  /\ carried = "waiting" /\ reader # "reading"
  /\ TypeSeen(t)
  /\ m_failure' = Failed
  /\ UNCHANGED readerVars

Refuse(t) ==
  /\ Callback(t) /\ Failed
  /\ carried' = "refused"
  /\ Answer(t, m_session, PKT_RESPONSE_ERR, "Erro ao processar pacote de comando.")
  /\ UNCHANGED m_session

\* A command is traded whatever its session.
Execute(t) ==
  /\ Callback(t) /\ ~Failed
  /\ t = tp_execut
  /\ carried' = "executed"
  /\ \/ Answer(t, pkt.session, PKT_RESPONSE_OK, "")
     \/ Answer(t, pkt.session, PKT_RESPONSE_ERR, "what")
  /\ UNCHANGED m_session

Begin(t) ==
  /\ Callback(t) /\ ~Failed
  /\ t = tp_begin_session
  /\ carried' = "answered"
  /\ \/ /\ ~created
        /\ generate
        /\ Answer(t, m_session', PKT_RESPONSE_OK, "")
     \/ /\ created
        /\ Answer(t, "", -1, "ECF ja esta em uso")
        /\ UNCHANGED m_session

\* Mutant: whoever ends a session ends the one that is open.
EndAny(t) ==
  /\ Callback(t) /\ ~Failed
  /\ t = tp_end_session
  /\ carried' = "answered"
  /\ IF created THEN Answer(t, pkt.session, PKT_RESPONSE_OK, "")
     ELSE Answer(t, pkt.session, -4, "Nao ha uma sessao aberta")
  /\ m_session' = ""

End(t) ==
  /\ Callback(t) /\ ~Failed
  /\ t = tp_end_session
  /\ carried' = "answered"
  /\ \/ /\ ~created
        /\ Answer(t, pkt.session, -4, "Nao ha uma sessao aberta")
        /\ UNCHANGED m_session
     \/ /\ created /\ match(pkt.session)
        /\ Answer(t, pkt.session, PKT_RESPONSE_OK, "")
        /\ m_session' = ""
     \/ /\ created /\ ~match(pkt.session)
        /\ Answer(t, pkt.session, -2, "Identificador de sessao invalido")
        /\ UNCHANGED m_session

\* Whoever asks is told the identifier of the open session.
Status(t) ==
  /\ Callback(t) /\ ~Failed
  /\ t = tp_status
  /\ carried' = "answered"
  /\ \/ created /\ Answer(t, m_session, 500, "Sessao ja esta aberta")
     \/ ~created /\ Answer(t, "", 501, "Nao ha uma sessao aberta")
  /\ UNCHANGED m_session

Reset(t) ==
  /\ Callback(t) /\ ~Failed
  /\ t = tp_reset
  /\ carried' = "answered"
  /\ Answer(t, pkt.session, PKT_RESPONSE_OK, "")
  /\ m_session' = ""

InvalidType(t) ==
  /\ Callback(t) /\ ~Failed
  /\ t = not_typed
  /\ carried' = "answered"
  /\ Answer(t, "", PKT_RESPONSE_ERR, "Tipo de pacote invalido!")
  /\ UNCHANGED m_session

callback ==
  \E t \in PacketTypes \cup {not_typed} :
    Refuse(t) \/ Execute(t) \/ Begin(t) \/ End(t) \/ Status(t) \/ Reset(t)
      \/ InvalidType(t)

Next == NextFile \/ Read \/ callback

Spec == Init /\ [][Next]_vars

-----------------------------------------------------------------------------
(* Properties.                                                             *)

\* The lines a parameter was read from, up to the line that ends a message.
WrittenParam(p) ==
  IF p.name = "mensagem" THEN <<MsgBegin>> \o p.values \o <<MsgEnd>>
  ELSE <<ParamLine(p.name, p.values[1][2])>>

HasSession ==
  \/ prc_phase \in {"in_cmdid", "in_param", "in_text"}
  \/ prc_phase = "in_stop" /\ pkt.type \in {tp_execut, tp_end_session}
HasCommand ==
  \/ prc_phase \in {"in_param", "in_text"}
  \/ prc_phase = "in_stop" /\ pkt.type = tp_execut
Given(yes, line) == IF yes THEN <<line>> ELSE <<>>

\* The lines that the reader's packet and phase stand for.
Written ==
  Given(prc_phase # "in_idle", BeginTag)
  \o Given(prc_phase \notin {"in_idle", "in_request"}, Request(pkt.type))
  \o Given(HasSession, SessionLine(pkt.session))
  \o Given(HasCommand, CommandLine(pkt.id))
  \o FlattenSeq([i \in DOMAIN pkt.params |-> WrittenParam(pkt.params[i])])
  \o (IF prc_phase = "in_text" THEN <<MsgBegin>> \o text ELSE <<>>)
  \o Given(has_stop, EndTag)

Same(line, written) == line = written \/ (written = MsgEnd /\ Closes(line))

OneMessage ==
  \A i, j \in DOMAIN lines : lines[i] = MsgBegin /\ lines[j] = MsgBegin => i = j
NoneOnALine == \A i \in DOMAIN lines : lines[i][1] = ":" => lines[i][2] # "mensagem"

\* At any line of any file read_packet has lost nothing and added nothing: its
\* packet, written out, is what was read after the lines that cut paper, up to
\* the line it threw for.  A second message has the text of the first as well,
\* and one that is given on a line as any other parameter is a message too.
ReadsBack ==
  OneMessage /\ NoneOnALine =>
    \E cuts \in 0..Len(lines) :
      /\ \A i \in 1..cuts : lines[i] = Cut
      /\ Len(lines) = cuts + Len(Written) + (IF reader = "failed" THEN 1 ELSE 0)
      /\ \A i \in DOMAIN Written : Same(lines[cuts + i], Written[i])

\* The file asks for t: the line after its begin tag.
Asked(t) ==
  \E i \in DOMAIN lines :
    i > 1 /\ lines[i - 1] = BeginTag /\ lines[i][1] = "_request" /\ lines[i][2] = t
Untyped == \A t \in PacketTypes : ~Asked(t)
NamesIt == \E i \in DOMAIN lines : lines[i][1] = "session_id:" /\ match(lines[i][2])

\* An open session ends for a reset, or for an end_session that names it, and
\* is never replaced: not by files that are malformed or cut off, unless they
\* are cut off before their type and memory holds one.
SessionEndsOnRequest ==
  [][m_session # "" /\ m_session' # m_session =>
       /\ m_session' = ""
       /\ Asked(tp_reset) \/ (Asked(tp_end_session) /\ NamesIt) \/ Untyped]_vars
=============================================================================
