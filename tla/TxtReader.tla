----------------------------- MODULE TxtReader -------------------------------
(***************************************************************************)
(* txt_reader::read_packet: a request read line by line, whatever the file  *)
(* holds and wherever it ends.                                             *)
(***************************************************************************)
EXTENDS Packets

CONSTANTS
  Lines,                \* lines a file may have
  MaxLines              \* bound: lines of a file

ASSUME ReaderAssumption ==
  /\ \A line \in Lines :
       /\ line \in Seq(STRING) \ {<<>>}
       /\ line[1] \in {"_request", "session_id:", "command_id:"} => Len(line) = 2
       /\ line[1] = ":" => Len(line) = 3
  /\ MaxLines \in Nat
  /\ {"", "text", "mensagem"} \subseteq STRING

VARIABLES
  lines,                \* the lines read so far
  eof,                  \* the end of the file was met
  prc_phase,            \* what read_packet expects
  dfl_phase,            \* in_text within a message
  pkt, text,            \* the packet, the message being read
  has_stop,             \* the end tag was met
  reader                \* read_packet goes on, has returned, or has thrown

readerVars == <<lines, eof, prc_phase, dfl_phase, pkt, text, has_stop, reader>>

StartReading ==
  /\ lines = <<>> /\ eof = FALSE
  /\ prc_phase = "in_idle" /\ dfl_phase = "in_unknown"
  /\ pkt = NewPacket /\ text = <<>>
  /\ has_stop = FALSE
  /\ reader = "reading"

StartReadingAgain ==
  /\ lines' = <<>> /\ eof' = FALSE
  /\ prc_phase' = "in_idle" /\ dfl_phase' = "in_unknown"
  /\ pkt' = NewPacket /\ text' = <<>>
  /\ has_stop' = FALSE
  /\ reader' = "reading"

-----------------------------------------------------------------------------
valid_packet_type(line) == line[1] = "_request" /\ line[2] \in PacketTypes
type_from_string(line) == line[2]

\* Mutant: any request is taken for a request of the protocol.
QualifyAny(line, dfl) ==
  CASE line = BeginTag -> "in_start"
    [] line[1] = "_request" -> "in_request"
    [] line[1] = "session_id:" -> "in_ssid"
    [] line[1] = "command_id:" -> "in_cmdid"
    [] line = EndTag -> "in_stop"
    [] line[1] = ":" -> IF dfl = "in_text" THEN dfl ELSE "in_param"
    [] line = MsgBegin -> "in_text"
    [] OTHER -> dfl

\* qualify_token.  A line that is a tag or an identifier is that everywhere,
\* in a message too.
Qualify(line, dfl) ==
  CASE line = BeginTag -> "in_start"
    [] valid_packet_type(line) -> "in_request"
    [] line[1] = "session_id:" -> "in_ssid"
    [] line[1] = "command_id:" -> "in_cmdid"
    [] line = EndTag -> "in_stop"
    [] line[1] = ":" -> IF dfl = "in_text" THEN dfl ELSE "in_param"
    [] line = MsgBegin -> "in_text"
    [] OTHER -> dfl

\* The line holds PARAM_MSG_END.
Closes(line) == line = MsgEnd \/ (line[1] = ":" /\ line[3] = "}")

\* getline: a line and whether the file ended with it.  At the end of the file
\* the exception is swallowed and the line is empty.
GetLine(line, last) ==
  /\ reader = "reading"
  /\ Len(lines) < MaxLines
  /\ last \/ Len(lines) + 1 < MaxLines
  /\ lines' = Append(lines, line)
  /\ eof' = last

GoOn(stop) ==
  /\ has_stop' = (has_stop \/ stop)
  /\ reader' = IF eof' \/ stop THEN "read" ELSE "reading"

Throw ==
  /\ reader' = "failed"
  /\ UNCHANGED <<prc_phase, dfl_phase, pkt, text, has_stop>>

ReadIdle(line, last) ==
  /\ prc_phase = "in_idle"
  /\ GetLine(line, last)
  /\ \/ /\ Qualify(line, dfl_phase) = "in_start"
        /\ prc_phase' = "in_request"
        /\ GoOn(FALSE) /\ UNCHANGED <<dfl_phase, pkt, text>>
     \/ /\ line = Cut
        /\ GoOn(FALSE) /\ UNCHANGED <<prc_phase, dfl_phase, pkt, text>>
     \/ /\ Qualify(line, dfl_phase) # "in_start" /\ line # Cut
        /\ Throw

ReadStop(line, last) ==
  /\ prc_phase = "in_stop"
  /\ GetLine(line, last)
  /\ \/ /\ Qualify(line, dfl_phase) = "in_stop"
        /\ GoOn(TRUE) /\ UNCHANGED <<prc_phase, dfl_phase, pkt, text>>
     \/ Qualify(line, dfl_phase) # "in_stop" /\ Throw

ReadRequest(line, last) ==
  /\ prc_phase = "in_request"
  /\ GetLine(line, last)
  /\ \/ /\ Qualify(line, dfl_phase) = "in_request"
        /\ pkt' = [pkt EXCEPT !.type = type_from_string(line)]
        /\ prc_phase' = IF pkt'.type \in {tp_begin_session, tp_reset, tp_status}
                        THEN "in_stop" ELSE "in_ssid"
        /\ GoOn(FALSE) /\ UNCHANGED <<dfl_phase, text>>
     \/ Qualify(line, dfl_phase) # "in_request" /\ Throw

ReadSession(line, last) ==
  /\ prc_phase = "in_ssid"
  /\ GetLine(line, last)
  /\ \/ /\ Qualify(line, dfl_phase) = "in_ssid"
        /\ pkt' = [pkt EXCEPT !.session = line[2]]
        /\ prc_phase' = IF pkt.type = tp_end_session THEN "in_stop" ELSE "in_cmdid"
        /\ GoOn(FALSE) /\ UNCHANGED <<dfl_phase, text>>
     \/ Qualify(line, dfl_phase) # "in_ssid" /\ Throw

ReadCommand(line, last) ==
  /\ prc_phase = "in_cmdid"
  /\ GetLine(line, last)
  /\ \/ /\ Qualify(line, dfl_phase) = "in_cmdid"
        /\ pkt' = [pkt EXCEPT !.id = line[2]]
        /\ prc_phase' = "in_param"
        /\ GoOn(FALSE) /\ UNCHANGED <<dfl_phase, text>>
     \/ Qualify(line, dfl_phase) # "in_cmdid" /\ Throw

ReadParam(line, last) ==
  /\ prc_phase = "in_param"
  /\ GetLine(line, last)
  /\ \/ /\ Qualify(line, dfl_phase) = "in_stop"
        /\ prc_phase' = "in_stop"
        /\ GoOn(TRUE) /\ UNCHANGED <<dfl_phase, pkt, text>>
     \/ /\ Qualify(line, dfl_phase) = "in_param"
        /\ pkt' = AddParam(pkt, Param(line[2], <<Plain(line[3])>>))
        /\ GoOn(FALSE) /\ UNCHANGED <<prc_phase, dfl_phase, text>>
     \/ /\ Qualify(line, dfl_phase) = "in_text"
        /\ prc_phase' = "in_text" /\ dfl_phase' = "in_text"
        /\ GoOn(FALSE) /\ UNCHANGED <<pkt, text>>
     \/ /\ Qualify(line, dfl_phase) \notin {"in_stop", "in_param", "in_text"}
        /\ Throw

\* Mutant: the lines after a message are still text.
ReadTextKeeps(line, last) ==
  /\ prc_phase = "in_text"
  /\ GetLine(line, last)
  /\ \/ /\ Qualify(line, dfl_phase) = "in_text" /\ Closes(line)
        /\ prc_phase' = "in_param"
        /\ pkt' = AddParam(pkt, Param("mensagem", text))
        /\ GoOn(FALSE) /\ UNCHANGED <<dfl_phase, text>>
     \/ /\ Qualify(line, dfl_phase) = "in_text" /\ ~Closes(line)
        /\ text' = Append(text, line)
        /\ GoOn(FALSE) /\ UNCHANGED <<prc_phase, dfl_phase, pkt>>
     \/ Qualify(line, dfl_phase) # "in_text" /\ Throw

\* The message goes to the packet when it is closed; text is not emptied.
ReadText(line, last) ==
  /\ prc_phase = "in_text"
  /\ GetLine(line, last)
  /\ \/ /\ Qualify(line, dfl_phase) = "in_text" /\ Closes(line)
        /\ prc_phase' = "in_param" /\ dfl_phase' = "in_unknown"
        /\ pkt' = AddParam(pkt, Param("mensagem", text))
        /\ GoOn(FALSE) /\ UNCHANGED text
     \/ /\ Qualify(line, dfl_phase) = "in_text" /\ ~Closes(line)
        /\ text' = Append(text, line)
        /\ GoOn(FALSE) /\ UNCHANGED <<prc_phase, dfl_phase, pkt>>
     \/ Qualify(line, dfl_phase) # "in_text" /\ Throw

ReadLine(line, last) ==
  \/ ReadIdle(line, last) \/ ReadStop(line, last) \/ ReadRequest(line, last)
  \/ ReadSession(line, last) \/ ReadCommand(line, last)
  \/ ReadParam(line, last) \/ ReadText(line, last)

\* The next line of the file, or its end.
read_packet ==
  \/ \E line \in Lines, last \in BOOLEAN : ReadLine(line, last)
  \/ ReadLine(Empty, TRUE)
=============================================================================
