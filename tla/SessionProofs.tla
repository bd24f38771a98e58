---------------------------- MODULE SessionProofs -----------------------------
(***************************************************************************)
(* Proofs about Session: for every set of lines, identifiers and length of  *)
(* files, an open session ends only for a packet that asks for its end, the *)
(* reader keeps its types, and the packet written out is the file.          *)
(***************************************************************************)
EXTENDS Session, SequenceLemmas

\* What the reader's line is to the line before, and to the packet.
IsRequest(line) == line[1] = "_request" /\ line[2] \in PacketTypes
Early == {"in_idle", "in_request"}

\* A line of the file, or the one read at its end.
FileLines == Lines \cup {Empty}

IsPacket(p) == p = [type |-> p.type, session |-> p.session, id |-> p.id, params |-> p.params]

\* A packet has the type its file asks for, or the file asks for none; its
\* session is one that the file names.
ReaderInv ==
  /\ lines \in Seq(FileLines)
  /\ prc_phase \in Phases /\ dfl_phase \in {"in_unknown", "in_text"}
  /\ IsPacket(pkt)
  /\ reader = "reading" /\ prc_phase = "in_idle" =>
       \A i \in 1..Len(lines) : lines[i] # BeginTag
  /\ reader = "reading" /\ prc_phase = "in_request" =>
       Len(lines) > 0 /\ lines[Len(lines)] = BeginTag
  /\ \/ pkt.type = uninitialised /\ Untyped /\ prc_phase \in Early
     \/ pkt.type \in PacketTypes /\ Asked(pkt.type) /\ prc_phase \notin Early
  /\ \/ pkt.session = ""
     \/ \E i \in 1..Len(lines) :
          lines[i][1] = "session_id:" /\ lines[i][2] = pkt.session

-----------------------------------------------------------------------------
LEMMA Qualified ==
  ASSUME NEW line, NEW dfl \in {"in_unknown", "in_text"}
  PROVE  /\ Qualify(line, dfl) = "in_start" <=> line = BeginTag
         /\ Qualify(line, dfl) = "in_request" <=> IsRequest(line)
         /\ Qualify(line, dfl) = "in_ssid" => line[1] = "session_id:"
<1>1. /\ BeginTag[1] = "<ecf_sgi_begin>" /\ EndTag[1] = "<ecf_sgi_end>"
      /\ MsgBegin[1] = "mensagem{"
  BY DEF BeginTag, EndTag, MsgBegin
<1>2. CASE line = BeginTag
  <2>1. ~(line[1] = "_request") /\ line[1] # "session_id:" /\ line[1] # "command_id:"
        /\ line # EndTag /\ line[1] # ":" /\ line # MsgBegin
    BY <1>1, <1>2
  <2>2. Qualify(line, dfl) = "in_start"
    BY <1>2, <2>1, Zenon DEF Qualify, valid_packet_type
  <2> QED
    BY <1>2, <2>1, <2>2 DEF IsRequest
<1>3. CASE IsRequest(line)
  <2>1. line # BeginTag /\ line[1] # "session_id:" /\ line[1] # "command_id:"
        /\ line # EndTag /\ line[1] # ":" /\ line # MsgBegin
    BY <1>1, <1>3 DEF IsRequest
  <2>2. Qualify(line, dfl) = "in_request"
    BY <1>3, <2>1, Zenon DEF Qualify, valid_packet_type, IsRequest
  <2> QED
    BY <1>3, <2>1, <2>2
<1>4. CASE line # BeginTag /\ ~IsRequest(line) /\ line[1] = "session_id:"
  <2>1. line[1] # "command_id:" /\ line # EndTag /\ line[1] # ":" /\ line # MsgBegin
    BY <1>1, <1>4
  <2>2. Qualify(line, dfl) = "in_ssid"
    BY <1>4, <2>1, Zenon DEF Qualify, valid_packet_type, IsRequest
  <2> QED
    BY <1>4, <2>2
<1>5. CASE line # BeginTag /\ ~IsRequest(line) /\ line[1] # "session_id:"
  <2>1. Qualify(line, dfl) \in {"in_cmdid", "in_stop", "in_param", "in_text", "in_unknown"}
    BY <1>5 DEF Qualify, valid_packet_type, IsRequest
  <2> QED
    BY <1>5, <2>1
<1> QED
  BY <1>2, <1>3, <1>4, <1>5

\* A line more.
LEMMA OneMore ==
  ASSUME lines \in Seq(FileLines), NEW line \in FileLines, NEW last, GetLine(line, last)
  PROVE  /\ lines' \in Seq(FileLines) /\ Len(lines) \in Nat
         /\ Len(lines') = Len(lines) + 1
         /\ \A i \in 1..Len(lines) : lines'[i] = lines[i]
         /\ lines'[Len(lines) + 1] = line
BY AppendProperties DEF GetLine

LEMMA AskedStays ==
  ASSUME lines \in Seq(FileLines), NEW line \in FileLines, NEW last,
         GetLine(line, last), NEW t
  PROVE  /\ Asked(t) => Asked(t)'
         /\ Asked(t)' => \/ Asked(t)
                         \/ /\ Len(lines) > 0 /\ lines[Len(lines)] = BeginTag
                            /\ line[1] = "_request" /\ line[2] = t
<1>1. /\ Len(lines) \in Nat /\ Len(lines') = Len(lines) + 1
      /\ \A i \in 1..Len(lines) : lines'[i] = lines[i]
      /\ lines'[Len(lines) + 1] = line
      /\ DOMAIN lines = 1..Len(lines) /\ DOMAIN lines' = 1..Len(lines')
  BY OneMore
<1>2. ASSUME Asked(t) PROVE Asked(t)'
  <2>1. PICK i \in 1..Len(lines) : /\ i > 1 /\ lines[i - 1] = BeginTag
                                   /\ lines[i][1] = "_request" /\ lines[i][2] = t
    BY <1>1, <1>2 DEF Asked
  <2>2. i \in 1..Len(lines') /\ i - 1 \in 1..Len(lines)
    BY <1>1, <2>1
  <2>3. lines'[i - 1] = lines[i - 1] /\ lines'[i] = lines[i]
    BY <1>1, <2>1, <2>2
  <2> QED
    BY <1>1, <2>1, <2>2, <2>3 DEF Asked, BeginTag
<1>3. ASSUME Asked(t)', ~Asked(t)
      PROVE  /\ Len(lines) > 0 /\ lines[Len(lines)] = BeginTag
             /\ line[1] = "_request" /\ line[2] = t
  <2>1. PICK i \in 1..Len(lines') : /\ i > 1 /\ lines'[i - 1] = BeginTag
                                    /\ lines'[i][1] = "_request" /\ lines'[i][2] = t
    BY <1>1, <1>3 DEF Asked, BeginTag
  <2>2. i - 1 \in 1..Len(lines) /\ lines[i - 1] = BeginTag
    BY <1>1, <2>1
  <2>3. i \notin 1..Len(lines)
    <3> SUFFICES ASSUME i \in 1..Len(lines) PROVE FALSE
      OBVIOUS
    <3>1. lines'[i] = lines[i]
      BY <1>1
    <3> QED
      BY <1>1, <1>3, <2>1, <2>2, <3>1 DEF Asked
  <2>4. i = Len(lines) + 1
    BY <1>1, <2>1, <2>3
  <2>5. i - 1 = Len(lines) /\ Len(lines) > 0
    BY <1>1, <2>2, <2>4
  <2> QED
    BY <1>1, <2>1, <2>2, <2>4, <2>5
<1> QED
  BY <1>2, <1>3

\* What one line does to the type, the session and the phase.
Begun(line) ==
  /\ prc_phase = "in_idle" /\ prc_phase' = "in_request" /\ pkt' = pkt
  /\ line = BeginTag
Waits(line) ==
  /\ prc_phase = "in_idle" /\ prc_phase' = "in_idle" /\ pkt' = pkt
  /\ line # BeginTag
Typed(line) ==
  /\ prc_phase = "in_request" /\ prc_phase' \in {"in_stop", "in_ssid"}
  /\ IsRequest(line) /\ pkt' = [pkt EXCEPT !.type = line[2]]
Untypable(line) ==
  /\ prc_phase = "in_request" /\ prc_phase' = "in_request" /\ pkt' = pkt
  /\ ~IsRequest(line) /\ reader' = "failed"
NamesSession(line) ==
  /\ prc_phase = "in_ssid" /\ prc_phase' \in {"in_stop", "in_cmdid"}
  /\ line[1] = "session_id:" /\ pkt' = [pkt EXCEPT !.session = line[2]]
Later ==
  /\ prc_phase \notin Early /\ prc_phase' \in Phases \ Early
  /\ pkt' = pkt \/ (\E id : pkt' = [pkt EXCEPT !.id = id])
                \/ (\E p : pkt' = AddParam(pkt, p))

LEMMA LineEffect ==
  ASSUME ReaderInv, NEW line, NEW last, ReadLine(line, last)
  PROVE  /\ reader = "reading" /\ GetLine(line, last)
         /\ dfl_phase' \in {"in_unknown", "in_text"}
         /\ \/ Begun(line) \/ Waits(line) \/ Typed(line) \/ Untypable(line)
            \/ NamesSession(line) \/ Later
<1>0. /\ prc_phase \in Phases /\ dfl_phase \in {"in_unknown", "in_text"}
  BY DEF ReaderInv
<1>1. CASE ReadIdle(line, last)
  <2>1. Cut # BeginTag
    BY DEF Cut, BeginTag
  <2> QED
    BY <1>0, <1>1, <2>1, Qualified
       DEF ReadIdle, GetLine, GoOn, Throw, Begun, Waits
<1>2. CASE ReadRequest(line, last)
  BY <1>0, <1>2, Qualified
     DEF ReadRequest, GetLine, GoOn, Throw, Typed, Untypable, type_from_string
<1>3. CASE ReadSession(line, last)
  BY <1>0, <1>3, Qualified
     DEF ReadSession, GetLine, GoOn, Throw, NamesSession, Later, Early, Phases
<1>4. CASE ReadStop(line, last)
  BY <1>0, <1>4 DEF ReadStop, GetLine, GoOn, Throw, Later, Early, Phases
<1>5. CASE ReadCommand(line, last)
  BY <1>0, <1>5 DEF ReadCommand, GetLine, GoOn, Throw, Later, Early, Phases
<1>6. CASE ReadParam(line, last)
  BY <1>0, <1>6 DEF ReadParam, GetLine, GoOn, Throw, Later, Early, Phases
<1>7. CASE ReadText(line, last)
  BY <1>0, <1>7 DEF ReadText, GetLine, GoOn, Throw, Later, Early, Phases
<1> QED
  BY <1>1, <1>2, <1>3, <1>4, <1>5, <1>6, <1>7, Zenon DEF ReadLine

\* What the step does to the fields of the packet.
LEMMA PacketEffect ==
  ASSUME IsPacket(pkt), NEW line,
         Begun(line) \/ Waits(line) \/ Typed(line) \/ Untypable(line)
           \/ NamesSession(line) \/ Later
  PROVE  /\ IsPacket(pkt')
         /\ pkt'.type = IF Typed(line) THEN line[2] ELSE pkt.type
         /\ pkt'.session = IF NamesSession(line) THEN line[2] ELSE pkt.session
<1>1. CASE Begun(line) \/ Waits(line) \/ Untypable(line)
  BY <1>1 DEF Begun, Waits, Untypable, Typed, NamesSession, IsPacket
<1>2. CASE Typed(line)
  BY <1>2 DEF Typed, NamesSession, IsPacket
<1>3. CASE NamesSession(line)
  BY <1>3 DEF Typed, NamesSession, IsPacket
<1>4. CASE Later /\ ~NamesSession(line)
  <2>1. ~Typed(line)
    BY <1>4 DEF Later, Typed, Early
  <2> QED
    BY <1>4, <2>1 DEF Later, IsPacket, AddParam
<1> QED
  BY <1>1, <1>2, <1>3, <1>4

LEMMA LineStep ==
  ASSUME ReaderInv, NEW line \in FileLines, NEW last, ReadLine(line, last)
  PROVE  ReaderInv'
<1>0. /\ lines \in Seq(FileLines) /\ IsPacket(pkt) /\ prc_phase \in Phases
      /\ uninitialised \notin PacketTypes
  BY DEF ReaderInv, uninitialised, PacketTypes, tp_begin_session, tp_execut,
     tp_end_session, tp_status, tp_reset
<1>1. /\ reader = "reading" /\ GetLine(line, last)
      /\ dfl_phase' \in {"in_unknown", "in_text"}
      /\ \/ Begun(line) \/ Waits(line) \/ Typed(line) \/ Untypable(line)
         \/ NamesSession(line) \/ Later
  BY LineEffect
<1>2. /\ lines' \in Seq(FileLines) /\ Len(lines) \in Nat
      /\ Len(lines') = Len(lines) + 1
      /\ \A i \in 1..Len(lines) : lines'[i] = lines[i]
      /\ lines'[Len(lines) + 1] = line
  BY <1>0, <1>1, OneMore
<1>3. /\ IsPacket(pkt')
      /\ pkt'.type = IF Typed(line) THEN line[2] ELSE pkt.type
      /\ pkt'.session = IF NamesSession(line) THEN line[2] ELSE pkt.session
  BY <1>0, <1>1, PacketEffect
<1>4. prc_phase' \in Phases
  BY <1>1 DEF Begun, Waits, Typed, Untypable, NamesSession, Later, Phases
<1>5. reader' = "reading" /\ prc_phase' = "in_idle" =>
        \A i \in 1..Len(lines') : lines'[i] # BeginTag
  <2> SUFFICES ASSUME prc_phase' = "in_idle", NEW i \in 1..Len(lines')
               PROVE  lines'[i] # BeginTag
    OBVIOUS
  <2>1. Waits(line)
    BY <1>1 DEF Begun, Typed, Untypable, NamesSession, Later, Early
  <2>2. \A k \in 1..Len(lines) : lines[k] # BeginTag
    BY <1>1, <2>1 DEF ReaderInv, Waits
  <2>3. line # BeginTag
    BY <2>1 DEF Waits
  <2>4. i \in 1..Len(lines) \/ i = Len(lines) + 1
    BY <1>2
  <2> QED
    BY <1>2, <2>2, <2>3, <2>4
<1>6. reader' = "reading" /\ prc_phase' = "in_request" =>
        Len(lines') > 0 /\ lines'[Len(lines')] = BeginTag
  <2> SUFFICES ASSUME reader' = "reading", prc_phase' = "in_request"
               PROVE  Len(lines') > 0 /\ lines'[Len(lines')] = BeginTag
    OBVIOUS
  <2>1. Begun(line)
    BY <1>1 DEF Waits, Typed, Untypable, NamesSession, Later, Early
  <2>2. line = BeginTag
    BY <2>1 DEF Begun
  <2> QED
    BY <1>2, <2>2
<1>7. \A t : /\ Asked(t) => Asked(t)'
             /\ Asked(t)' => \/ Asked(t)
                             \/ /\ Len(lines) > 0 /\ lines[Len(lines)] = BeginTag
                                /\ line[1] = "_request" /\ line[2] = t
  BY <1>0, <1>1, AskedStays
<1>8. \/ pkt'.type = uninitialised /\ Untyped' /\ prc_phase' \in Early
      \/ pkt'.type \in PacketTypes /\ Asked(pkt.type)' /\ prc_phase' \notin Early
  <2>1. CASE Typed(line)
    <3>1. IsRequest(line) /\ prc_phase = "in_request" /\ prc_phase' \notin Early
      BY <2>1 DEF Typed, Early
    <3>2. Len(lines) > 0 /\ lines[Len(lines)] = BeginTag
      BY <1>1, <3>1 DEF ReaderInv
    <3>3. pkt'.type = line[2]
      BY <1>3, <2>1
    <3>4. Asked(pkt.type)'
      <4>1. /\ Len(lines) + 1 \in DOMAIN lines' /\ Len(lines) + 1 > 1
            /\ Len(lines) \in 1..Len(lines)
        BY <1>2, <3>2
      <4>2. lines'[Len(lines) + 1 - 1] = BeginTag
        BY <1>2, <3>2, <4>1
      <4>3. lines'[Len(lines) + 1][1] = "_request" /\ lines'[Len(lines) + 1][2] = pkt'.type
        BY <1>2, <3>1, <3>3 DEF IsRequest
      <4> QED
        BY <4>1, <4>2, <4>3 DEF Asked, BeginTag
    <3> QED
      BY <3>1, <3>3, <3>4 DEF IsRequest
  <2>2. CASE ~Typed(line) /\ prc_phase \in Early
    <3>1. pkt'.type = uninitialised /\ Untyped
      BY <1>3, <2>2 DEF ReaderInv
    <3>2. prc_phase' \in Early
      BY <1>1, <2>2 DEF Begun, Waits, Untypable, NamesSession, Later, Early
    <3>3. ~(lines[Len(lines)] = BeginTag /\ Len(lines) > 0) \/ ~IsRequest(line)
      <4>1. CASE Begun(line) \/ Waits(line)
        <5>1. prc_phase = "in_idle"
          BY <4>1 DEF Begun, Waits
        <5>2. \A i \in 1..Len(lines) : lines[i] # BeginTag
          BY <1>1, <5>1 DEF ReaderInv
        <5> QED
          BY <1>2, <5>2
      <4>2. CASE Untypable(line)
        BY <4>2 DEF Untypable
      <4> QED
        BY <1>1, <2>2, <4>1, <4>2 DEF NamesSession, Later, Early
    <3>4. Untyped'
      <4>1. \A t \in PacketTypes : ~Asked(t)'
        BY <1>7, <3>1, <3>3 DEF Untyped, IsRequest
      <4> QED
        BY <4>1 DEF Untyped, PacketTypes, tp_begin_session, tp_execut, tp_end_session,
           tp_status, tp_reset
    <3> QED
      BY <3>1, <3>2, <3>4
  <2>3. CASE ~Typed(line) /\ prc_phase \notin Early
    <3>1. pkt'.type = pkt.type /\ pkt.type \in PacketTypes /\ Asked(pkt.type)
      BY <1>3, <2>3 DEF ReaderInv
    <3>2. prc_phase' \notin Early
      BY <1>1, <2>3 DEF Begun, Waits, Untypable, NamesSession, Later, Early
    <3>3. Asked(pkt.type)'
      <4>1. \A t : t = pkt'.type /\ Asked(t)' => Asked(pkt.type)'
        BY DEF Asked, BeginTag
      <4> QED
        BY <1>7, <3>1, <4>1
    <3> QED
      BY <3>1, <3>2, <3>3
  <2> QED
    BY <2>1, <2>2, <2>3
<1>9. \/ pkt'.session = ""
      \/ \E i \in 1..Len(lines') :
           lines'[i][1] = "session_id:" /\ lines'[i][2] = pkt'.session
  <2>1. CASE NamesSession(line)
    <3>1. Len(lines) + 1 \in 1..Len(lines')
      BY <1>2
    <3>2. line[1] = "session_id:" /\ pkt'.session = line[2]
      BY <1>3, <2>1 DEF NamesSession
    <3> QED
      BY <1>2, <3>1, <3>2
  <2>2. CASE ~NamesSession(line)
    <3>1. pkt'.session = pkt.session
      BY <1>3, <2>2
    <3>2. \A i \in 1..Len(lines) : i \in 1..Len(lines') /\ lines'[i] = lines[i]
      BY <1>2
    <3> QED
      BY <3>1, <3>2 DEF ReaderInv
  <2> QED
    BY <2>1, <2>2
<1> QED
  BY <1>1, <1>2, <1>3, <1>4, <1>5, <1>6, <1>8, <1>9 DEF ReaderInv, IsPacket, Early

LEMMA ReaderInitially == Init => ReaderInv
<1> SUFFICES ASSUME Init PROVE ReaderInv
  OBVIOUS
<1>1. /\ lines = <<>> /\ prc_phase = "in_idle" /\ dfl_phase = "in_unknown"
      /\ pkt = NewPacket
  BY DEF Init, StartReading
<1>2. lines \in Seq(FileLines) /\ Len(lines) = 0 /\ DOMAIN lines = {}
  BY <1>1
<1>3. Untyped
  BY <1>2 DEF Untyped, Asked
<1>4. IsPacket(pkt) /\ pkt.type = uninitialised /\ pkt.session = ""
  BY <1>1 DEF IsPacket, NewPacket
<1>5. prc_phase \in Phases /\ prc_phase \in Early /\ prc_phase # "in_request"
  BY <1>1 DEF Phases, Early
<1>6. \A i \in 1..Len(lines) : lines[i] # BeginTag
  BY <1>2
<1> QED
  BY <1>1, <1>2, <1>3, <1>4, <1>5, <1>6, Zenon DEF ReaderInv

LEMMA NextFileReader ==
  ASSUME NextFile
  PROVE  ReaderInv'
<1>1. /\ lines' = <<>> /\ prc_phase' = "in_idle" /\ dfl_phase' = "in_unknown"
      /\ pkt' = NewPacket
  BY DEF NextFile, StartReadingAgain
<1>2. lines' \in Seq(FileLines) /\ Len(lines') = 0 /\ DOMAIN lines' = {}
  BY <1>1
<1>3. Untyped'
  BY <1>2 DEF Untyped, Asked, PacketTypes, tp_begin_session, tp_execut, tp_end_session,
     tp_status, tp_reset
<1>4. IsPacket(pkt)' /\ pkt'.type = uninitialised /\ pkt'.session = ""
  BY <1>1 DEF IsPacket, NewPacket, uninitialised
<1>5. prc_phase' \in Phases /\ prc_phase' \in Early /\ prc_phase' # "in_request"
  BY <1>1 DEF Phases, Early
<1>6. \A i \in 1..Len(lines') : lines'[i] # BeginTag
  BY <1>2
<1> QED
  BY <1>1, <1>2, <1>3, <1>4, <1>5, <1>6, Zenon
     DEF ReaderInv, Phases, Early, uninitialised, BeginTag, IsPacket

LEMMA ReaderStays ==
  ASSUME ReaderInv, UNCHANGED readerVars
  PROVE  ReaderInv'
BY DEF ReaderInv, readerVars, IsPacket, Untyped, Asked, BeginTag, PacketTypes,
   tp_begin_session, tp_execut, tp_end_session, tp_status, tp_reset, Phases, Early,
   uninitialised

\* The session that ends is one that the file names.
LEMMA NamedInFile ==
  ASSUME ReaderInv, match(pkt.session)
  PROVE  NamesIt
<1>1. pkt.session # ""
  BY SessionAssumption, Zenon DEF match
<1>2. PICK i \in 1..Len(lines) : lines[i][1] = "session_id:" /\ lines[i][2] = pkt.session
  BY <1>1, Zenon DEF ReaderInv
<1>3. lines \in Seq(FileLines)
  BY DEF ReaderInv
<1>4. i \in DOMAIN lines
  BY <1>2, <1>3, LenProperties, Zenon
<1> QED
  BY <1>2, <1>4, Zenon DEF NamesIt

LEMMA ReaderStep == ReaderInv /\ [Next]_vars => ReaderInv'
<1> SUFFICES ASSUME ReaderInv, [Next]_vars PROVE ReaderInv'
  OBVIOUS
<1>1. CASE NextFile
  BY <1>1, NextFileReader
<1>2. CASE Read
  <2>1. PICK line, last : ReadLine(line, last) /\ (line \in Lines \/ line = Empty)
    BY <1>2 DEF Read, read_packet
  <2>2. line \in FileLines
    BY <2>1 DEF FileLines
  <2> QED
    BY <2>1, <2>2, LineStep
<1>3. CASE callback \/ UNCHANGED vars
  <2>1. UNCHANGED readerVars
    BY <1>3, Zenon DEF callback, Refuse, Execute, Begin, End, Status, Reset, InvalidType,
       Callback, vars
  <2> QED
    BY <2>1, ReaderStays
<1> QED
  BY <1>1, <1>2, <1>3 DEF Next

\* An open session ends only for a packet that asks for it, by name or by a
\* reset, and is never replaced: whatever the lines, and wherever files end.
THEOREM SessionKept == Spec => SessionEndsOnRequest
<1> DEFINE Ends == m_session # "" /\ m_session' # m_session =>
                     /\ m_session' = ""
                     /\ Asked(tp_reset) \/ (Asked(tp_end_session) /\ NamesIt) \/ Untyped
<1>1. ReaderInv /\ [Next]_vars => [Ends]_vars
  <2> SUFFICES ASSUME ReaderInv, Next, m_session # "", m_session' # m_session
               PROVE  /\ m_session' = ""
                      /\ Asked(tp_reset) \/ (Asked(tp_end_session) /\ NamesIt) \/ Untyped
    BY DEF vars, sessionVars
  <2>1. PICK t : End(t) \/ Reset(t)
    BY Zenon DEF Next, NextFile, Read, sessionVars, callback, Refuse, Execute, Begin,
       created, Status, InvalidType
  <2>2. m_session' = "" /\ TypeSeen(t)
    BY <2>1, Zenon DEF End, Reset, Callback
  <2>3. CASE pkt.type = uninitialised
    BY <2>2, <2>3 DEF ReaderInv, PacketTypes, uninitialised, tp_begin_session,
       tp_execut, tp_end_session, tp_status, tp_reset
  <2>4. CASE pkt.type # uninitialised
    <3>1. t = pkt.type /\ Asked(pkt.type)
      BY <2>2, <2>4 DEF TypeSeen, ReaderInv
    <3>2. CASE Reset(t)
      <4>1. t = tp_reset
        BY <3>2, Zenon DEF Reset
      <4> QED
        BY <2>2, <3>1, <4>1
    <3>3. CASE End(t)
      <4>1. t = tp_end_session /\ match(pkt.session)
        BY <2>2, <3>3, Zenon DEF End
      <4>2. NamesIt
        BY <4>1, NamedInFile
      <4> QED
        BY <2>2, <3>1, <4>1, <4>2
    <3> QED
      BY <2>1, <3>2, <3>3
  <2> QED
    BY <2>3, <2>4
<1>2. Spec => []ReaderInv
  BY ReaderInitially, ReaderStep, PTL DEF Spec
<1>3. Spec => [][Ends]_vars
  BY <1>1, <1>2, PTL DEF Spec
<1> QED
  BY <1>3 DEF SessionEndsOnRequest

-----------------------------------------------------------------------------
(* Types, and what one line does.                                          *)

LEMMA OneToken ==
  ASSUME NEW S, NEW a \in S
  PROVE  <<a>> \in Seq(S)
OBVIOUS

LEMMA TwoTokens ==
  ASSUME NEW S, NEW a \in S, NEW b \in S
  PROVE  <<a, b>> \in Seq(S)
OBVIOUS

LEMMA LineForms ==
  ASSUME NEW line \in FileLines
  PROVE  /\ line \in Seq(STRING)
         /\ line[1] \in {"_request", "session_id:", "command_id:"} =>
              line[2] \in STRING /\ line = <<line[1], line[2]>>
         /\ line[1] = ":" =>
              line[2] \in STRING /\ line[3] \in STRING /\ line = <<line[1], line[2], line[3]>>
<1>1. CASE line = Empty
  <2>1. "" \in STRING
    BY ReaderAssumption, Zenon
  <2>2. line \in Seq(STRING)
    BY <1>1, <2>1, OneToken, Zenon DEF Empty
  <2>3. line[1] \notin {"_request", "session_id:", "command_id:", ":"}
    BY <1>1 DEF Empty
  <2> QED
    BY <2>2, <2>3, Zenon
<1>2. CASE line \in Lines
  <2>1. /\ line \in Seq(STRING)
        /\ line[1] \in {"_request", "session_id:", "command_id:"} => Len(line) = 2
        /\ line[1] = ":" => Len(line) = 3
    BY <1>2, ReaderAssumption
  <2>2. Len(line) = 2 => line[2] \in STRING /\ line = <<line[1], line[2]>>
    BY <2>1
  <2>3. Len(line) = 3 =>
          line[2] \in STRING /\ line[3] \in STRING /\ line = <<line[1], line[2], line[3]>>
    <3> SUFFICES ASSUME Len(line) = 3
                 PROVE  /\ line[2] \in STRING /\ line[3] \in STRING
                        /\ line = <<line[1], line[2], line[3]>>
      OBVIOUS
    <3>0. line \in Seq(STRING)
      BY <2>1, Zenon
    <3>1. line[1] \in STRING /\ line[2] \in STRING /\ line[3] \in STRING
      <4>1. 1 \in 1..Len(line) /\ 2 \in 1..Len(line) /\ 3 \in 1..Len(line)
        OBVIOUS
      <4> QED
        BY <3>0, <4>1, ElementOfSeq, Zenon
    <3> DEFINE t == <<line[1], line[2], line[3]>>
    <3>2. t \in Seq(STRING) /\ Len(t) = 3 /\ \A i \in 1..3 : t[i] = line[i]
      BY <3>1
    <3> QED
      BY <2>1, <3>1, <3>2, SeqEqual
  <2> QED
    BY <2>1, <2>2, <2>3, Zenon
<1> QED
  BY <1>1, <1>2 DEF FileLines

\* What each kind of line does, to all of the reader but the lines.
Cuts(line) ==
  /\ prc_phase = "in_idle" /\ line = Cut
  /\ UNCHANGED <<prc_phase, dfl_phase, pkt, text, has_stop>>
Starts(line) ==
  /\ prc_phase = "in_idle" /\ prc_phase' = "in_request" /\ line = BeginTag
  /\ UNCHANGED <<dfl_phase, pkt, text, has_stop>>
Asks(line) ==
  /\ prc_phase = "in_request" /\ line[1] = "_request" /\ line[2] \in PacketTypes
  /\ pkt' = [pkt EXCEPT !.type = line[2]]
  /\ prc_phase' = IF line[2] \in {tp_begin_session, tp_reset, tp_status}
                  THEN "in_stop" ELSE "in_ssid"
  /\ UNCHANGED <<dfl_phase, text, has_stop>>
Identifies(line) ==
  /\ prc_phase = "in_ssid" /\ line[1] = "session_id:"
  /\ pkt' = [pkt EXCEPT !.session = line[2]]
  /\ prc_phase' = IF pkt.type = tp_end_session THEN "in_stop" ELSE "in_cmdid"
  /\ UNCHANGED <<dfl_phase, text, has_stop>>
Commands(line) ==
  /\ prc_phase = "in_cmdid" /\ line[1] = "command_id:" /\ prc_phase' = "in_param"
  /\ pkt' = [pkt EXCEPT !.id = line[2]]
  /\ UNCHANGED <<dfl_phase, text, has_stop>>
Stops(line) ==
  /\ prc_phase \in {"in_stop", "in_param"} /\ prc_phase' = "in_stop" /\ line = EndTag
  /\ has_stop' = TRUE /\ reader' = "read"
  /\ UNCHANGED <<dfl_phase, pkt, text>>
Params(line) ==
  /\ prc_phase = "in_param" /\ line[1] = ":"
  /\ pkt' = AddParam(pkt, Param(line[2], <<Plain(line[3])>>))
  /\ UNCHANGED <<prc_phase, dfl_phase, text, has_stop>>
Opens(line) ==
  /\ prc_phase = "in_param" /\ line = MsgBegin
  /\ prc_phase' = "in_text" /\ dfl_phase' = "in_text"
  /\ UNCHANGED <<pkt, text, has_stop>>
Writes(line) ==
  /\ prc_phase = "in_text" /\ text' = Append(text, line)
  /\ UNCHANGED <<prc_phase, dfl_phase, pkt, has_stop>>
Shuts(line) ==
  /\ prc_phase = "in_text" /\ Closes(line)
  /\ prc_phase' = "in_param" /\ dfl_phase' = "in_unknown"
  /\ pkt' = AddParam(pkt, Param("mensagem", text))
  /\ UNCHANGED <<text, has_stop>>
Throws ==
  /\ reader' = "failed"
  /\ UNCHANGED <<prc_phase, dfl_phase, pkt, text, has_stop>>

Accepts(line) ==
  \/ Cuts(line) \/ Starts(line) \/ Asks(line) \/ Identifies(line) \/ Commands(line)
  \/ Stops(line) \/ Params(line) \/ Opens(line) \/ Writes(line) \/ Shuts(line)

TextPhase ==
  /\ dfl_phase \in {"in_unknown", "in_text"}
  /\ dfl_phase = "in_text" => prc_phase = "in_text"
  /\ reader = "reading" => has_stop = FALSE

LEMMA QualifiedMore ==
  ASSUME NEW line, NEW dfl \in {"in_unknown", "in_text"}
  PROVE  /\ Qualify(line, dfl) = "in_cmdid" => line[1] = "command_id:"
         /\ Qualify(line, dfl) = "in_stop" => line = EndTag
         /\ Qualify(line, dfl) = "in_param" => line[1] = ":"
         /\ Qualify(line, "in_unknown") = "in_text" => line = MsgBegin
BY Zenon DEF Qualify

LEMMA GoesOn ==
  ASSUME TextPhase, reader = "reading", NEW stop \in BOOLEAN, GoOn(stop)
  PROVE  /\ reader' \in {"reading", "read"}
         /\ stop => has_stop' = TRUE /\ reader' = "read"
         /\ ~stop => has_stop' = has_stop
BY DEF TextPhase, GoOn

LEMMA LineDoes ==
  ASSUME TextPhase, IsPacket(pkt), NEW line, NEW last, ReadLine(line, last)
  PROVE  /\ GetLine(line, last)
         /\ Throws \/ (Accepts(line) /\ reader' \in {"reading", "read"})
<1>0. /\ reader = "reading" /\ GetLine(line, last)
      /\ dfl_phase \in {"in_unknown", "in_text"}
      /\ dfl_phase = "in_text" => prc_phase = "in_text"
  BY Zenon DEF ReadLine, ReadIdle, ReadStop, ReadRequest, ReadSession, ReadCommand,
     ReadParam, ReadText, GetLine, TextPhase
<1>s. GoOn(TRUE) => has_stop' = TRUE /\ reader' = "read" /\ reader' \in {"reading", "read"}
  BY <1>0, GoesOn
<1>g. GoOn(FALSE) => has_stop' = has_stop /\ reader' \in {"reading", "read"}
  BY <1>0, GoesOn
<1> HIDE DEF GoOn
<1>t. Throw => Throws
  BY Zenon DEF Throw, Throws
<1>1. CASE ReadIdle(line, last)
  <2>1. Qualify(line, dfl_phase) = "in_start" <=> line = BeginTag
    BY <1>0, Qualified
  <2> QED
    BY <1>0, <1>1, <1>g, <1>t, <2>1, Zenon DEF ReadIdle, Accepts, Cuts, Starts
<1>2. CASE ReadRequest(line, last)
  <2>1. Qualify(line, dfl_phase) = "in_request" <=> IsRequest(line)
    BY <1>0, Qualified
  <2>2. CASE IsRequest(line) /\ Qualify(line, dfl_phase) = "in_request"
    <3>1. /\ pkt' = [pkt EXCEPT !.type = line[2]]
          /\ prc_phase' = IF pkt'.type \in {tp_begin_session, tp_reset, tp_status}
                          THEN "in_stop" ELSE "in_ssid"
      BY <1>2, <2>2, Zenon DEF ReadRequest, type_from_string
    <3>2. pkt'.type = line[2]
      BY <3>1 DEF IsPacket
    <3> QED
      BY <1>0, <1>2, <1>g, <2>2, <3>1, <3>2, Zenon DEF ReadRequest, Accepts, Asks, IsRequest
  <2> QED
    BY <1>0, <1>2, <1>t, <2>1, <2>2, Zenon DEF ReadRequest
<1>3. CASE ReadSession(line, last)
  <2>1. Qualify(line, dfl_phase) = "in_ssid" => line[1] = "session_id:"
    BY <1>0, Qualified
  <2> QED
    BY <1>0, <1>3, <1>g, <1>t, <2>1, Zenon DEF ReadSession, Accepts, Identifies
<1>4. CASE ReadStop(line, last)
  <2>1. Qualify(line, dfl_phase) = "in_stop" => line = EndTag
    BY <1>0, QualifiedMore
  <2> QED
    BY <1>0, <1>4, <1>s, <1>t, <2>1, Zenon DEF ReadStop, Accepts, Stops
<1>5. CASE ReadCommand(line, last)
  <2>1. Qualify(line, dfl_phase) = "in_cmdid" => line[1] = "command_id:"
    BY <1>0, QualifiedMore
  <2> QED
    BY <1>0, <1>5, <1>g, <1>t, <2>1, Zenon DEF ReadCommand, Accepts, Commands
<1>6. CASE ReadParam(line, last)
  <2>1. dfl_phase = "in_unknown"
    BY <1>0, <1>6 DEF ReadParam
  <2>2. /\ Qualify(line, dfl_phase) = "in_stop" => line = EndTag
        /\ Qualify(line, dfl_phase) = "in_param" => line[1] = ":"
        /\ Qualify(line, dfl_phase) = "in_text" => line = MsgBegin
    BY <1>0, <2>1, QualifiedMore
  <2> QED
    BY <1>0, <1>6, <1>s, <1>g, <1>t, <2>2, Zenon
       DEF ReadParam, Accepts, Stops, Params, Opens
<1>7. CASE ReadText(line, last)
  BY <1>0, <1>7, <1>g, <1>t, Zenon DEF ReadText, Accepts, Writes, Shuts
<1> QED
  BY <1>0, <1>1, <1>2, <1>3, <1>4, <1>5, <1>6, <1>7, Zenon DEF ReadLine

PacketSet ==
  [type : PacketTypes \cup {uninitialised}, session : STRING, id : STRING,
   params : Seq([name : STRING, values : Texts])]

ReaderTyped ==
  /\ lines \in Texts /\ Len(lines) <= MaxLines
  /\ eof \in BOOLEAN /\ has_stop \in BOOLEAN
  /\ prc_phase \in Phases
  /\ pkt \in PacketSet
  /\ text \in Texts
  /\ reader \in {"reading", "read", "failed"}
  /\ TextPhase

LEMMA PacketFields ==
  ASSUME NEW p \in PacketSet
  PROVE  /\ IsPacket(p)
         /\ \A t \in PacketTypes : [p EXCEPT !.type = t] \in PacketSet
         /\ \A s \in STRING : [p EXCEPT !.session = s] \in PacketSet
         /\ \A s \in STRING : [p EXCEPT !.id = s] \in PacketSet
         /\ \A n \in STRING, v \in Texts : AddParam(p, Param(n, v)) \in PacketSet
<1>1. IsPacket(p)
  BY DEF PacketSet, IsPacket
<1>2. \A t \in PacketTypes : [p EXCEPT !.type = t] \in PacketSet
  BY DEF PacketSet
<1>3. \A s \in STRING : [p EXCEPT !.session = s] \in PacketSet
  BY DEF PacketSet
<1>4. \A s \in STRING : [p EXCEPT !.id = s] \in PacketSet
  BY DEF PacketSet
<1>5. ASSUME NEW n \in STRING, NEW v \in Texts
      PROVE  AddParam(p, Param(n, v)) \in PacketSet
  <2>1. Param(n, v) \in [name : STRING, values : Texts]
    BY DEF Param
  <2>2. Append(p.params, Param(n, v)) \in Seq([name : STRING, values : Texts])
    BY <2>1 DEF PacketSet
  <2> QED
    BY <2>2 DEF PacketSet, AddParam
<1> QED
  BY <1>1, <1>2, <1>3, <1>4, <1>5

LEMMA LineTyped ==
  ASSUME ReaderTyped, NEW line \in FileLines, NEW last \in BOOLEAN, ReadLine(line, last)
  PROVE  ReaderTyped'
<1>1. /\ GetLine(line, last)
      /\ Throws \/ (Accepts(line) /\ reader' \in {"reading", "read"})
  BY LineDoes, PacketFields DEF ReaderTyped
<1>2. lines' \in Texts /\ Len(lines') <= MaxLines /\ eof' \in BOOLEAN
  <2>1. line \in Seq(STRING)
    BY LineForms, Zenon
  <2>2. lines' = Append(lines, line) /\ eof' = last /\ Len(lines) < MaxLines
    BY <1>1 DEF GetLine
  <2>3. MaxLines \in Nat /\ last \in BOOLEAN
    BY ReaderAssumption, Zenon
  <2>4. lines \in Seq(Seq(STRING))
    BY Zenon DEF ReaderTyped, Texts
  <2>5. lines' \in Seq(Seq(STRING)) /\ Len(lines') <= MaxLines
    <3> HIDE DEF FileLines
    <3> QED
      BY <2>1, <2>2, <2>3, <2>4
  <2> QED
    BY <2>2, <2>3, <2>5, Zenon DEF Texts
<1>3. CASE Throws
  BY <1>2, <1>3, Zenon DEF Throws, ReaderTyped, TextPhase, Texts, Phases, PacketSet
<1>4. CASE Accepts(line) /\ reader' \in {"reading", "read"}
  <2>0. /\ line \in Seq(STRING)
        /\ line[1] \in {"_request", "session_id:", "command_id:"} => line[2] \in STRING
        /\ line[1] = ":" => line[2] \in STRING /\ line[3] \in STRING
    BY LineForms, Zenon
  <2>1. pkt' \in PacketSet
    <3>1. CASE Cuts(line) \/ Starts(line) \/ Stops(line) \/ Opens(line) \/ Writes(line)
      BY <3>1, Zenon DEF Cuts, Starts, Stops, Opens, Writes, ReaderTyped
    <3>2. CASE Asks(line) \/ Identifies(line) \/ Commands(line)
      BY <2>0, <3>2, PacketFields, Zenon DEF Asks, Identifies, Commands, ReaderTyped
    <3>3. CASE Params(line)
      <4>1. Plain(line[3]) \in Seq(STRING)
        <5>1. line[3] \in STRING /\ "text" \in STRING
          BY <2>0, <3>3, ReaderAssumption, Zenon DEF Params
        <5> QED
          BY <5>1, TwoTokens, Zenon DEF Plain
      <4>2. <<Plain(line[3])>> \in Texts
        BY <4>1, OneToken, Zenon DEF Texts
      <4> QED
        BY <2>0, <3>3, <4>2, PacketFields, Zenon DEF Params, ReaderTyped
    <3>4. CASE Shuts(line)
      BY <3>4, PacketFields, ReaderAssumption, Zenon DEF Shuts, ReaderTyped
    <3> QED
      BY <1>4, <3>1, <3>2, <3>3, <3>4, Zenon DEF Accepts
  <2>2. text' \in Texts
    <3>1. CASE Writes(line)
      BY <2>0, <3>1, AppendProperties, Zenon DEF Writes, ReaderTyped, Texts
    <3> QED
      BY <1>4, <3>1, Zenon DEF Accepts, Cuts, Starts, Asks, Identifies, Commands, Stops,
         Params, Opens, Shuts, ReaderTyped
  <2>3. prc_phase' \in Phases
    BY <1>4, Zenon DEF Accepts, Cuts, Starts, Asks, Identifies, Commands, Stops,
         Params, Opens, Writes, Shuts, ReaderTyped, Phases
  <2>4. has_stop' \in BOOLEAN /\ (reader' = "reading" => has_stop' = FALSE)
    <3>1. CASE Stops(line)
      BY <3>1, "read" # "reading", Zenon DEF Stops
    <3>2. CASE has_stop' = has_stop
      BY <1>1, <3>2, Zenon DEF GetLine, ReaderTyped, TextPhase
    <3> QED
      BY <1>4, <3>1, <3>2, Zenon DEF Accepts, Cuts, Starts, Asks, Identifies, Commands,
         Params, Opens, Writes, Shuts
  <2>5. /\ dfl_phase' \in {"in_unknown", "in_text"}
        /\ dfl_phase' = "in_text" => prc_phase' = "in_text"
    BY <1>4, Zenon DEF Accepts, Cuts, Starts, Asks, Identifies, Commands, Stops,
         Params, Opens, Writes, Shuts, ReaderTyped, TextPhase
  <2> QED
    BY <1>2, <1>4, <2>1, <2>2, <2>3, <2>4, <2>5, Zenon
       DEF ReaderTyped, TextPhase, Texts, Phases, PacketSet
<1> QED
  BY <1>1, <1>3, <1>4, Zenon

SessionTyped ==
  /\ m_session \in SessionIds \cup {""}
  /\ m_failure \in BOOLEAN
  /\ carried \in {"waiting", "refused", "answered", "executed"}

LEMMA NewTyped ==
  /\ NewPacket \in PacketSet
  /\ <<>> \in Texts /\ Len(<<>>) <= MaxLines
<1>1. "" \in STRING
  BY ReaderAssumption, Zenon
<1>2. uninitialised \in PacketTypes \cup {uninitialised}
  OBVIOUS
<1>3. <<>> \in Seq([name : STRING, values : Texts]) /\ <<>> \in Texts
  BY DEF Texts
<1>4. \A t, s, d, q : t \in PacketTypes \cup {uninitialised} /\ s \in STRING /\ d \in STRING
        /\ q \in Seq([name : STRING, values : Texts]) =>
          [type |-> t, session |-> s, id |-> d, params |-> q] \in PacketSet
  BY DEF PacketSet
<1>5. MaxLines \in Nat
  BY ReaderAssumption, Zenon
<1>6. Len(<<>>) <= MaxLines
  BY <1>5
<1> QED
  BY <1>1, <1>2, <1>3, <1>4, <1>6, Zenon DEF NewPacket

LEMMA TypedStep == ReaderTyped /\ SessionTyped /\ [Next]_vars => (ReaderTyped /\ SessionTyped)'
<1> SUFFICES ASSUME ReaderTyped, SessionTyped, [Next]_vars
             PROVE  ReaderTyped' /\ SessionTyped'
  OBVIOUS
<1>1. CASE NextFile
  <2>1. ReaderTyped'
    BY <1>1, NewTyped, Zenon DEF NextFile, StartReadingAgain, ReaderTyped, TextPhase, Texts,
       Phases, PacketSet
  <2> QED
    BY <1>1, <2>1, Zenon DEF NextFile, SessionTyped
<1>2. CASE Read
  <2>1. PICK line \in FileLines, last \in BOOLEAN : ReadLine(line, last)
    BY <1>2, Zenon DEF Read, read_packet, FileLines
  <2>2. ReaderTyped'
    BY <2>1, LineTyped
  <2> QED
    BY <1>2, <2>2, Zenon DEF Read, sessionVars, SessionTyped
<1>3. CASE callback \/ UNCHANGED vars
  <2>1. UNCHANGED readerVars
    BY <1>3, Zenon DEF callback, Refuse, Execute, Begin, End, Status, Reset, InvalidType,
       Callback, vars
  <2>2. ReaderTyped'
    BY <2>1, Zenon DEF readerVars, ReaderTyped, TextPhase, Texts, Phases, PacketSet
  <2>3. SessionTyped'
    BY <1>3, Zenon DEF callback, Refuse, Execute, Begin, End, Status, Reset, InvalidType,
       Callback, vars, sessionVars, SessionTyped, Failed, generate
  <2> QED
    BY <2>2, <2>3
<1> QED
  BY <1>1, <1>2, <1>3 DEF Next

\* The packet, the phases, the message and the session have their types at every
\* line of every file (read_packet, callback).
THEOREM SessionTypes == Spec => []TypeOK
<1>1. Init => ReaderTyped /\ SessionTyped
  BY NewTyped, Zenon DEF Init, StartReading, ReaderTyped, TextPhase, Texts, Phases, PacketSet,
     SessionTyped
<1>2. ReaderTyped /\ SessionTyped => TypeOK
  BY Zenon DEF ReaderTyped, TextPhase, PacketSet, SessionTyped, TypeOK
<1> QED
  BY <1>1, <1>2, TypedStep, PTL DEF Spec

-----------------------------------------------------------------------------
(* What the packet stands for.                                             *)

ParamSet == [name : STRING, values : Texts]

\* Lines that Written may have.
WrittenLines ==
  {BeginTag, EndTag, MsgBegin, MsgEnd} \cup Seq(STRING)
    \cup {Request(t) : t \in PacketTypes \cup {uninitialised}}
    \cup {SessionLine(x) : x \in STRING} \cup {CommandLine(x) : x \in STRING}
    \cup {ParamLine(p.name, p.values[1][2]) : p \in ParamSet}

ParamsWritten(ps) == FlattenSeq([i \in DOMAIN ps |-> WrittenParam(ps[i])])

\* Written, in its parts.
Tail4(y, f, m, e) == y \o f \o m \o e
Joined(a, b, c, d, f, m, e) == Tail4(a \o b \o c \o d, f, m, e)
Message == IF prc_phase = "in_text" THEN <<MsgBegin>> \o text ELSE <<>>

LEMMA WrittenJoined ==
  Written = Joined(Given(prc_phase # "in_idle", BeginTag),
                   Given(prc_phase \notin {"in_idle", "in_request"}, Request(pkt.type)),
                   Given(HasSession, SessionLine(pkt.session)),
                   Given(HasCommand, CommandLine(pkt.id)),
                   ParamsWritten(pkt.params), Message, Given(has_stop, EndTag))
BY Zenon DEF Written, Joined, Tail4, ParamsWritten, Message

LEMMA GivenType ==
  ASSUME NEW T, NEW x \in T, NEW b \in BOOLEAN
  PROVE  Given(b, x) \in Seq(T)
BY DEF Given

\* Parts that are empty at the end, and what is put before them.
LEMMA JoinedGrows ==
  /\ \A x \in WrittenLines, a \in Seq(WrittenLines) :
       Joined(a, <<x>>, <<>>, <<>>, <<>>, <<>>, <<>>)
         = Append(Joined(a, <<>>, <<>>, <<>>, <<>>, <<>>, <<>>), x)
  /\ \A x \in WrittenLines, a, b \in Seq(WrittenLines) :
       Joined(a, b, <<x>>, <<>>, <<>>, <<>>, <<>>)
         = Append(Joined(a, b, <<>>, <<>>, <<>>, <<>>, <<>>), x)
  /\ \A x \in WrittenLines, a, b, c \in Seq(WrittenLines) :
       Joined(a, b, c, <<x>>, <<>>, <<>>, <<>>)
         = Append(Joined(a, b, c, <<>>, <<>>, <<>>, <<>>), x)
<1>1. \A x \in WrittenLines, a \in Seq(WrittenLines) :
        Joined(a, <<x>>, <<>>, <<>>, <<>>, <<>>, <<>>)
          = Append(Joined(a, <<>>, <<>>, <<>>, <<>>, <<>>, <<>>), x)
  BY DEF Joined, Tail4
<1>2. \A x \in WrittenLines, a, b \in Seq(WrittenLines) :
        Joined(a, b, <<x>>, <<>>, <<>>, <<>>, <<>>)
          = Append(Joined(a, b, <<>>, <<>>, <<>>, <<>>, <<>>), x)
  BY DEF Joined, Tail4
<1>3. \A x \in WrittenLines, a, b, c \in Seq(WrittenLines) :
        Joined(a, b, c, <<x>>, <<>>, <<>>, <<>>)
          = Append(Joined(a, b, c, <<>>, <<>>, <<>>, <<>>), x)
  BY DEF Joined, Tail4
<1> QED
  BY <1>1, <1>2, <1>3, Zenon

LEMMA JoinedOne ==
  \A x \in WrittenLines : Joined(<<x>>, <<>>, <<>>, <<>>, <<>>, <<>>, <<>>) = <<x>>
BY DEF Joined, Tail4

\* The parts before the parameters, and those from them on.
LEMMA TailGrows ==
  ASSUME NEW x \in WrittenLines, NEW y \in Seq(WrittenLines),
         NEW f \in Seq(WrittenLines), NEW m \in Seq(WrittenLines)
  PROVE  /\ Tail4(y, f \o <<x>>, <<>>, <<>>) = Append(Tail4(y, f, <<>>, <<>>), x)
         /\ Tail4(y, f, Append(m, x), <<>>) = Append(Tail4(y, f, m, <<>>), x)
         /\ Tail4(y, f \o (m \o <<x>>), <<>>, <<>>) = Append(Tail4(y, f, m, <<>>), x)
         /\ Tail4(y, f, m, <<x>>) = Append(Tail4(y, f, m, <<>>), x)
<1>1. Tail4(y, f \o <<x>>, <<>>, <<>>) = Append(Tail4(y, f, <<>>, <<>>), x)
  BY DEF Tail4
<1>2. Tail4(y, f, Append(m, x), <<>>) = Append(Tail4(y, f, m, <<>>), x)
  BY DEF Tail4
<1>3. Tail4(y, f \o (m \o <<x>>), <<>>, <<>>) = Append(Tail4(y, f, m, <<>>), x)
  <2>1. f \o (m \o <<x>>) = Append(f \o m, x)
    OBVIOUS
  <2>2. y \o Append(f \o m, x) = Append(y \o (f \o m), x)
    OBVIOUS
  <2>3. y \o (f \o m) = y \o f \o m
    OBVIOUS
  <2>4. y \o f \o m \o <<>> = y \o f \o m
    OBVIOUS
  <2>5. Append(y \o f \o m, x) \o <<>> \o <<>> = Append(y \o f \o m, x)
    OBVIOUS
  <2> QED
    BY <2>1, <2>2, <2>3, <2>4, <2>5, Zenon DEF Tail4
<1>4. Tail4(y, f, m, <<x>>) = Append(Tail4(y, f, m, <<>>), x)
  BY DEF Tail4
<1> QED
  BY <1>1, <1>2, <1>3, <1>4, Zenon

LEMMA WrittenParamType ==
  ASSUME NEW p \in ParamSet
  PROVE  WrittenParam(p) \in Seq(WrittenLines)
<1>1. ParamLine(p.name, p.values[1][2]) \in WrittenLines
  BY Zenon DEF WrittenLines
<1>2. MsgBegin \in WrittenLines /\ MsgEnd \in WrittenLines /\ Seq(STRING) \subseteq WrittenLines
  BY Zenon DEF WrittenLines
<1>3. p.values \in Seq(Seq(STRING))
  BY DEF ParamSet, Texts
<1> HIDE DEF WrittenLines
<1>4. p.values \in Seq(WrittenLines)
  BY <1>2, <1>3
<1>5. <<MsgBegin>> \o p.values \o <<MsgEnd>> \in Seq(WrittenLines)
  BY <1>2, <1>4
<1>6. <<ParamLine(p.name, p.values[1][2])>> \in Seq(WrittenLines)
  BY <1>1, OneToken, Zenon
<1> QED
  BY <1>5, <1>6, Zenon DEF WrittenParam

LEMMA ParamsGrow ==
  ASSUME NEW ps \in Seq(ParamSet), NEW p \in ParamSet
  PROVE  /\ ParamsWritten(ps) \in Seq(WrittenLines)
         /\ ParamsWritten(Append(ps, p)) = ParamsWritten(ps) \o WrittenParam(p)
<1> DEFINE Each(q) == [i \in DOMAIN q |-> WrittenParam(q[i])]
<1>1. \A i \in DOMAIN ps : WrittenParam(ps[i]) \in Seq(WrittenLines)
  BY WrittenParamType
<1>2. WrittenParam(p) \in Seq(WrittenLines)
  BY WrittenParamType
<1> HIDE DEF WrittenLines, ParamSet
<1>3. Each(ps) \in Seq(Seq(WrittenLines))
  BY <1>1
<1>4. Each(Append(ps, p)) = Append(Each(ps), WrittenParam(p))
  BY <1>1, <1>2
<1> HIDE DEF Each
<1>5. FlattenSeq(Each(ps)) \in Seq(WrittenLines)
  BY <1>3, FlattenType
<1>6. FlattenSeq(Append(Each(ps), WrittenParam(p))) = FlattenSeq(Each(ps)) \o WrittenParam(p)
  BY <1>2, <1>3, FlattenAppend
<1> USE DEF Each
<1> QED
  BY <1>4, <1>5, <1>6, Zenon DEF ParamsWritten

LEMMA NoParams == ParamsWritten(<<>>) = <<>>
<1>1. [i \in DOMAIN <<>> |-> WrittenParam(<<>>[i])] = <<>>
  OBVIOUS
<1> QED
  BY <1>1, FlattenEmpty, Zenon DEF ParamsWritten

LEMMA WrittenNext ==
  Written' = Joined(Given(prc_phase' # "in_idle", BeginTag),
                    Given(prc_phase' \notin {"in_idle", "in_request"}, Request(pkt'.type)),
                    Given(HasSession', SessionLine(pkt'.session)),
                    Given(HasCommand', CommandLine(pkt'.id)),
                    ParamsWritten(pkt'.params), Message', Given(has_stop', EndTag))
BY Zenon DEF Written, Joined, Tail4, ParamsWritten, Message, Given, BeginTag, Request, SessionLine,
   CommandLine, EndTag, MsgBegin, WrittenParam, ParamLine, MsgEnd

\* What the packet has at each phase.
PacketOfPhase ==
  /\ prc_phase \notin Early => pkt.type \in PacketTypes
  /\ prc_phase \in Early \cup {"in_ssid", "in_cmdid"} => pkt.params = <<>>
  /\ prc_phase = "in_stop" /\ pkt.type # tp_execut => pkt.params = <<>>
  /\ prc_phase = "in_ssid" => pkt.type \in {tp_execut, tp_end_session}
  /\ prc_phase \in {"in_cmdid", "in_param", "in_text"} => pkt.type = tp_execut
  /\ prc_phase = "in_stop" /\ reader = "reading" => pkt.type # tp_execut

LEMMA PacketOfPhaseStep ==
  ASSUME ReaderTyped, PacketOfPhase, reader = "reading",
         NEW line, Throws \/ (Accepts(line) /\ reader' \in {"reading", "read"})
  PROVE  PacketOfPhase'
<1>0. IsPacket(pkt) /\ prc_phase \in Phases
  BY PacketFields DEF ReaderTyped
<1> USE DEF PacketOfPhase, Early, IsPacket, PacketTypes, tp_begin_session, tp_execut,
   tp_end_session, tp_status, tp_reset
<1>1. CASE Throws
  BY <1>0, <1>1 DEF Throws
<1>2. CASE Cuts(line) \/ Starts(line)
  BY <1>0, <1>2 DEF Cuts, Starts
<1>3. CASE Asks(line)
  BY <1>0, <1>3 DEF Asks
<1>4. CASE Identifies(line)
  BY <1>0, <1>4 DEF Identifies
<1>5. CASE Commands(line)
  BY <1>0, <1>5 DEF Commands
<1>6. CASE Stops(line)
  BY <1>0, <1>6 DEF Stops
<1>7. CASE Params(line)
  BY <1>0, <1>7 DEF Params, AddParam
<1>8. CASE Opens(line) \/ Writes(line)
  BY <1>0, <1>8 DEF Opens, Writes
<1>9. CASE Shuts(line)
  BY <1>0, <1>9 DEF Shuts, AddParam
<1> QED
  BY <1>1, <1>2, <1>3, <1>4, <1>5, <1>6, <1>7, <1>8, <1>9, Zenon DEF Accepts

\* A message is read, or was, only if one was begun.
NoMessageYet ==
  (\A i \in DOMAIN lines : lines[i] # MsgBegin) => text = <<>> /\ prc_phase # "in_text"

LEMMA NoMessageStep ==
  ASSUME ReaderTyped, NoMessageYet, NEW line \in FileLines, NEW last, GetLine(line, last),
         Throws \/ Accepts(line)
  PROVE  NoMessageYet'
<1> SUFFICES ASSUME \A i \in DOMAIN lines' : lines'[i] # MsgBegin
             PROVE  text' = <<>> /\ prc_phase' # "in_text"
  BY Zenon DEF NoMessageYet, MsgBegin
<1>1. lines \in Seq(Seq(STRING)) /\ line \in Seq(STRING)
  BY LineForms, Zenon DEF ReaderTyped, Texts
<1>2. lines' = Append(lines, line)
  BY Zenon DEF GetLine
<1>3. /\ \A i \in DOMAIN lines : lines[i] # MsgBegin
      /\ line # MsgBegin
  <2>1. \A i \in DOMAIN lines : i \in DOMAIN lines' /\ lines'[i] = lines[i]
    BY <1>1, <1>2
  <2>2. Len(lines) + 1 \in DOMAIN lines' /\ lines'[Len(lines) + 1] = line
    BY <1>1, <1>2
  <2> QED
    BY <2>1, <2>2, Zenon
<1>4. text = <<>> /\ prc_phase # "in_text"
  BY <1>3, Zenon DEF NoMessageYet
<1> QED
  BY <1>3, <1>4, Zenon DEF Throws, Accepts, Cuts, Starts, Asks, Identifies, Commands, Stops,
     Params, Opens, Writes, Shuts

LEMMA GivenIs == \A x : Given(TRUE, x) = <<x>> /\ Given(FALSE, x) = <<>>
BY DEF Given

LEMMA PartTypes ==
  ASSUME ReaderTyped
  PROVE  /\ Given(prc_phase # "in_idle", BeginTag) \in Seq(WrittenLines)
         /\ Given(prc_phase \notin {"in_idle", "in_request"}, Request(pkt.type))
              \in Seq(WrittenLines)
         /\ Given(HasSession, SessionLine(pkt.session)) \in Seq(WrittenLines)
         /\ Given(HasCommand, CommandLine(pkt.id)) \in Seq(WrittenLines)
         /\ ParamsWritten(pkt.params) \in Seq(WrittenLines)
         /\ Message \in Seq(WrittenLines)
         /\ Given(has_stop, EndTag) \in Seq(WrittenLines)
         /\ Written \in Seq(WrittenLines)
<1>1. /\ pkt.type \in PacketTypes \cup {uninitialised} /\ pkt.session \in STRING
      /\ pkt.id \in STRING /\ pkt.params \in Seq(ParamSet) /\ text \in Seq(Seq(STRING))
      /\ has_stop \in BOOLEAN
  BY DEF ReaderTyped, PacketSet, ParamSet, Texts
<1>2. /\ BeginTag \in WrittenLines /\ EndTag \in WrittenLines /\ MsgBegin \in WrittenLines
      /\ Request(pkt.type) \in WrittenLines /\ SessionLine(pkt.session) \in WrittenLines
      /\ CommandLine(pkt.id) \in WrittenLines /\ Seq(STRING) \subseteq WrittenLines
  BY <1>1, Zenon DEF WrittenLines
<1>3. ParamsWritten(pkt.params) \in Seq(WrittenLines)
  <2>1. \A q \in Seq(ParamSet) : q = <<>> \/ \E r \in Seq(ParamSet), e \in ParamSet : q = Append(r, e)
    BY SequenceEmptyOrAppend, Zenon
  <2>2. CASE pkt.params = <<>>
    <3>1. <<>> \in Seq(WrittenLines)
      OBVIOUS
    <3> QED
      BY <2>2, <3>1, NoParams, Zenon
  <2>3. ASSUME NEW r \in Seq(ParamSet), NEW e \in ParamSet, pkt.params = Append(r, e)
        PROVE  ParamsWritten(pkt.params) \in Seq(WrittenLines)
    <3>1. ParamsWritten(pkt.params) = ParamsWritten(r) \o WrittenParam(e)
          /\ ParamsWritten(r) \in Seq(WrittenLines) /\ WrittenParam(e) \in Seq(WrittenLines)
      BY <2>3, ParamsGrow, WrittenParamType, Zenon
    <3> HIDE DEF WrittenLines
    <3> QED
      BY <3>1
  <2> QED
    BY <1>1, <2>1, <2>2, <2>3, Zenon
<1> HIDE DEF WrittenLines
<1>4. Message \in Seq(WrittenLines)
  <2>1. text \in Seq(WrittenLines)
    BY <1>1, <1>2
  <2>2. <<MsgBegin>> \o text \in Seq(WrittenLines) /\ <<>> \in Seq(WrittenLines)
    BY <1>2, <2>1
  <2> QED
    BY <2>2, Zenon DEF Message
<1>5. \A b, x : b \in BOOLEAN /\ x \in WrittenLines => Given(b, x) \in Seq(WrittenLines)
  BY GivenType
<1>6. HasSession \in BOOLEAN /\ HasCommand \in BOOLEAN
  BY DEF HasSession, HasCommand
<1>7. /\ Given(prc_phase # "in_idle", BeginTag) \in Seq(WrittenLines)
      /\ Given(prc_phase \notin {"in_idle", "in_request"}, Request(pkt.type))
           \in Seq(WrittenLines)
      /\ Given(HasSession, SessionLine(pkt.session)) \in Seq(WrittenLines)
      /\ Given(HasCommand, CommandLine(pkt.id)) \in Seq(WrittenLines)
      /\ Given(has_stop, EndTag) \in Seq(WrittenLines)
  BY <1>1, <1>2, <1>5, <1>6
<1>8. \A a, b, c, d, f, m, e \in Seq(WrittenLines) :
        Joined(a, b, c, d, f, m, e) \in Seq(WrittenLines)
  BY DEF Joined, Tail4
<1> QED
  BY <1>3, <1>4, <1>7, <1>8, WrittenJoined, Zenon

\* A line that is accepted is, but for the lines that cut paper, what the packet
\* has more.
Adds(line, x) == x \in WrittenLines /\ Written' = Append(Written, x) /\ Same(line, x)

LEMMA WrittenStep ==
  ASSUME ReaderTyped, PacketOfPhase, reader = "reading",
         NEW line \in FileLines, Accepts(line), ~Cuts(line),
         Opens(line) => text = <<>>,
         Params(line) => line[2] # "mensagem"
  PROVE  \E x : Adds(line, x)
<1>0. IsPacket(pkt) /\ prc_phase \in Phases /\ has_stop = FALSE
  BY PacketFields DEF ReaderTyped, TextPhase
<1>e. <<>> \in Seq(WrittenLines) /\ ParamsWritten(<<>>) = <<>>
  BY NoParams
<1>p. /\ BeginTag \in WrittenLines /\ EndTag \in WrittenLines
      /\ MsgBegin \in WrittenLines /\ MsgEnd \in WrittenLines
      /\ Seq(STRING) \subseteq WrittenLines
  BY DEF WrittenLines
<1>f. line \in Seq(STRING) /\ line \in WrittenLines
  BY <1>p, LineForms, Zenon
<1>1. CASE Starts(line)
  <2>1. Written = Joined(<<>>, <<>>, <<>>, <<>>, <<>>, <<>>, <<>>)
    BY <1>0, <1>1, <1>e, WrittenJoined, GivenIs
       DEF Starts, HasSession, HasCommand, PacketOfPhase, Message, Early
  <2>2. Written' = Joined(<<BeginTag>>, <<>>, <<>>, <<>>, <<>>, <<>>, <<>>)
    BY <1>0, <1>1, <1>e, WrittenNext, GivenIs
       DEF Starts, HasSession, HasCommand, PacketOfPhase, Message, Early
  <2>3. Written = <<>> /\ Append(<<>>, BeginTag) = <<BeginTag>>
    BY <2>1 DEF Joined, Tail4
  <2>4. Joined(<<BeginTag>>, <<>>, <<>>, <<>>, <<>>, <<>>, <<>>) = <<BeginTag>>
    BY <1>p, JoinedOne, Zenon
  <2> QED
    BY <1>1, <1>p, <2>2, <2>3, <2>4, Zenon DEF Starts, Same, Adds
<1> DEFINE first == Given(prc_phase # "in_idle", BeginTag)
           second == Given(prc_phase \notin {"in_idle", "in_request"}, Request(pkt.type))
           third == Given(HasSession, SessionLine(pkt.session))
           fourth == Given(HasCommand, CommandLine(pkt.id))
           given == ParamsWritten(pkt.params)
<1>t. /\ first \in Seq(WrittenLines) /\ second \in Seq(WrittenLines)
      /\ third \in Seq(WrittenLines) /\ fourth \in Seq(WrittenLines)
      /\ given \in Seq(WrittenLines) /\ Message \in Seq(WrittenLines)
  BY PartTypes
<1>j. /\ \A x \in WrittenLines : Joined(first, <<x>>, <<>>, <<>>, <<>>, <<>>, <<>>)
                        = Append(Joined(first, <<>>, <<>>, <<>>, <<>>, <<>>, <<>>), x)
      /\ \A x \in WrittenLines : Joined(first, second, <<x>>, <<>>, <<>>, <<>>, <<>>)
                        = Append(Joined(first, second, <<>>, <<>>, <<>>, <<>>, <<>>), x)
      /\ \A x \in WrittenLines : Joined(first, second, third, <<x>>, <<>>, <<>>, <<>>)
                        = Append(Joined(first, second, third, <<>>, <<>>, <<>>, <<>>), x)
  <2> HIDE DEF first, second, third, fourth, given
  <2> QED
    BY <1>t, JoinedGrows, Zenon
<1> DEFINE y == first \o second \o third \o fourth
<1>y. y \in Seq(WrittenLines)
  <2> HIDE DEF first, second, third, fourth
  <2> QED
    BY <1>t
<1>k. \A x \in WrittenLines, f, m \in Seq(WrittenLines) :
        /\ Tail4(y, f \o <<x>>, <<>>, <<>>) = Append(Tail4(y, f, <<>>, <<>>), x)
        /\ Tail4(y, f, Append(m, x), <<>>) = Append(Tail4(y, f, m, <<>>), x)
        /\ Tail4(y, f \o (m \o <<x>>), <<>>, <<>>) = Append(Tail4(y, f, m, <<>>), x)
        /\ Tail4(y, f, m, <<x>>) = Append(Tail4(y, f, m, <<>>), x)
  <2> HIDE DEF y
  <2> QED
    BY <1>y, TailGrows, Zenon
<1>z. \A f, m, e : Joined(first, second, third, fourth, f, m, e) = Tail4(y, f, m, e)
  BY Zenon DEF Joined
<1> HIDE DEF y
<1>2. CASE Asks(line)
  <2>1. Written = Joined(first, <<>>, <<>>, <<>>, <<>>, <<>>, <<>>)
    BY <1>0, <1>2, <1>e, WrittenJoined, GivenIs
       DEF Asks, HasSession, HasCommand, PacketOfPhase, Message, Early
  <2>2. pkt'.type = line[2] /\ pkt'.params = <<>> /\ line = Request(line[2])
    <3>1. line = <<line[1], line[2]>>
      BY <1>2, LineForms, Zenon DEF Asks
    <3>2. pkt'.type = line[2] /\ pkt'.params = <<>>
      BY <1>0, <1>2 DEF Asks, IsPacket, PacketOfPhase, Early
    <3> QED
      BY <1>2, <3>1, <3>2, Zenon DEF Asks, Request
  <2>3. Written' = Joined(first, <<line>>, <<>>, <<>>, <<>>, <<>>, <<>>)
    BY <1>0, <1>2, <1>e, <2>2, WrittenNext, GivenIs
       DEF Asks, HasSession, HasCommand, Message, Early, tp_begin_session, tp_execut,
           tp_end_session, tp_status, tp_reset
  <2>4. Written' = Append(Written, line)
    <3> HIDE DEF first, second, third, fourth, given
    <3> QED
      BY <1>f, <1>t, <2>1, <2>3, <1>j, <1>k, <1>z, Zenon
  <2> QED
    BY <1>f, <2>4, Zenon DEF Same, Adds
<1>3. CASE Identifies(line)
  <2>1. Written = Joined(first, second, <<>>, <<>>, <<>>, <<>>, <<>>)
    BY <1>0, <1>3, <1>e, WrittenJoined, GivenIs
       DEF Identifies, HasSession, HasCommand, PacketOfPhase, Message, Early
  <2>2. /\ pkt'.type = pkt.type /\ pkt'.params = <<>> /\ pkt'.session = line[2]
        /\ line = SessionLine(line[2])
    <3>1. line = <<line[1], line[2]>>
      BY <1>3, LineForms, Zenon DEF Identifies
    <3>2. pkt'.type = pkt.type /\ pkt'.params = <<>> /\ pkt'.session = line[2]
      BY <1>0, <1>3 DEF Identifies, IsPacket, PacketOfPhase, Early
    <3> QED
      BY <1>3, <3>1, <3>2, Zenon DEF Identifies, SessionLine
  <2>3. Written' = Joined(first, second, <<line>>, <<>>, <<>>, <<>>, <<>>)
    BY <1>0, <1>3, <1>e, <2>2, WrittenNext, GivenIs
       DEF Identifies, HasSession, HasCommand, Message, Early, PacketOfPhase,
           tp_begin_session, tp_execut, tp_end_session, tp_status, tp_reset
  <2>4. Written' = Append(Written, line)
    <3> HIDE DEF first, second, third, fourth, given
    <3> QED
      BY <1>f, <1>t, <2>1, <2>3, <1>j, <1>k, <1>z, Zenon
  <2> QED
    BY <1>f, <2>4, Zenon DEF Same, Adds
<1>4. CASE Commands(line)
  <2>1. Written = Joined(first, second, third, <<>>, <<>>, <<>>, <<>>)
    BY <1>0, <1>4, <1>e, WrittenJoined, GivenIs
       DEF Commands, HasSession, HasCommand, PacketOfPhase, Message, Early
  <2>2. /\ pkt'.type = pkt.type /\ pkt'.params = <<>> /\ pkt'.session = pkt.session
        /\ pkt'.id = line[2] /\ line = CommandLine(line[2])
    <3>1. line = <<line[1], line[2]>>
      BY <1>4, LineForms, Zenon DEF Commands
    <3>2. /\ pkt'.type = pkt.type /\ pkt'.params = <<>> /\ pkt'.session = pkt.session
          /\ pkt'.id = line[2]
      BY <1>0, <1>4 DEF Commands, IsPacket, PacketOfPhase, Early
    <3> QED
      BY <1>4, <3>1, <3>2, Zenon DEF Commands, CommandLine
  <2>3. Written' = Joined(first, second, third, <<line>>, <<>>, <<>>, <<>>)
    BY <1>0, <1>4, <1>e, <2>2, WrittenNext, GivenIs
       DEF Commands, HasSession, HasCommand, Message, Early, PacketOfPhase
  <2>4. Written' = Append(Written, line)
    <3> HIDE DEF first, second, third, fourth, given
    <3> QED
      BY <1>f, <1>t, <2>1, <2>3, <1>j, <1>k, <1>z, Zenon
  <2> QED
    BY <1>f, <2>4, Zenon DEF Same, Adds
<1>5. CASE Stops(line)
  <2>1. Written = Joined(first, second, third, fourth, given, <<>>, <<>>)
    BY <1>0, <1>5, <1>e, WrittenJoined, GivenIs DEF Stops, Message
  <2>2. Written' = Joined(first, second, third, fourth, given, <<>>, <<line>>)
    BY <1>0, <1>5, <1>e, WrittenNext, GivenIs
       DEF Stops, HasSession, HasCommand, Message, PacketOfPhase, tp_execut, tp_end_session
  <2>3. Written' = Append(Written, line)
    <3>1. /\ Written = Tail4(y, given, <<>>, <<>>)
          /\ Written' = Tail4(y, given, <<>>, <<line>>)
      BY <2>1, <2>2, <1>z, Zenon
    <3> HIDE DEF first, second, third, fourth, given
    <3> QED
      BY <1>e, <1>f, <1>t, <1>k, <3>1, Zenon
  <2> QED
    BY <1>f, <2>3, Zenon DEF Same, Adds
<1>6. CASE Params(line)
  <2>1. Written = Joined(first, second, third, fourth, given, <<>>, <<>>)
    BY <1>0, <1>6, <1>e, WrittenJoined, GivenIs DEF Params, Message
  <2> DEFINE p == Param(line[2], <<Plain(line[3])>>)
  <2>2. /\ pkt'.type = pkt.type /\ pkt'.session = pkt.session /\ pkt'.id = pkt.id
        /\ pkt'.params = Append(pkt.params, p)
    BY <1>0, <1>6 DEF Params, IsPacket, AddParam
  <2>3. ParamsWritten(pkt'.params) = given \o <<line>>
    <3>1. line[2] \in STRING /\ line[3] \in STRING /\ line = ParamLine(line[2], line[3])
      BY <1>6, LineForms, Zenon DEF Params, ParamLine
    <3>2. p \in ParamSet
      <4>1. <<Plain(line[3])>> \in Texts
        BY <3>1, ReaderAssumption, OneToken, TwoTokens, Zenon DEF Plain, Texts
      <4> QED
        BY <3>1, <4>1 DEF Param, ParamSet
    <3>3. WrittenParam(p) = <<line>>
      <4>1. p.name = line[2] /\ p.values[1][2] = line[3]
        BY DEF Param, Plain
      <4> QED
        BY <1>6, <3>1, <4>1, Zenon DEF WrittenParam
    <3>4. pkt.params \in Seq(ParamSet)
      BY DEF ReaderTyped, PacketSet, ParamSet
    <3> QED
      BY <2>2, <3>2, <3>3, <3>4, ParamsGrow, Zenon
  <2>4. Written' = Joined(first, second, third, fourth, given \o <<line>>, <<>>, <<>>)
    BY <1>0, <1>6, <1>e, <2>2, <2>3, WrittenNext, GivenIs
       DEF Params, HasSession, HasCommand, Message
  <2>5. Written' = Append(Written, line)
    <3>1. /\ Written = Tail4(y, given, <<>>, <<>>)
          /\ Written' = Tail4(y, given \o <<line>>, <<>>, <<>>)
      BY <2>1, <2>4, <1>z, Zenon
    <3> HIDE DEF first, second, third, fourth, given
    <3> QED
      BY <1>f, <1>t, <1>k, <3>1, Zenon
  <2> QED
    BY <1>f, <2>5, Zenon DEF Same, Adds
<1>7. CASE Opens(line)
  <2>1. Written = Joined(first, second, third, fourth, given, <<>>, <<>>)
    BY <1>0, <1>7, <1>e, WrittenJoined, GivenIs DEF Opens, Message
  <2>2. Message' = Append(<<>>, line)
    <3>1. Append(<<>>, line) = <<line>> /\ <<line>> \o <<>> = <<line>>
      BY <1>f
    <3> QED
      BY <1>7, <3>1, Zenon DEF Opens, Message, MsgBegin
  <2>3. Written' = Joined(first, second, third, fourth, given, Append(<<>>, line), <<>>)
    BY <1>0, <1>7, <1>e, <2>2, WrittenNext, GivenIs DEF Opens, HasSession, HasCommand
  <2>4. Written' = Append(Written, line)
    <3>1. /\ Written = Tail4(y, given, <<>>, <<>>)
          /\ Written' = Tail4(y, given, Append(<<>>, line), <<>>)
      BY <2>1, <2>3, <1>z, Zenon
    <3> HIDE DEF first, second, third, fourth, given
    <3> QED
      BY <1>e, <1>f, <1>t, <1>k, <3>1, Zenon
  <2> QED
    BY <1>f, <2>4, Zenon DEF Same, Adds
<1>8. CASE Writes(line)
  <2>1. Written = Joined(first, second, third, fourth, given, Message, <<>>)
    BY <1>0, <1>8, <1>e, WrittenJoined, GivenIs DEF Writes
  <2>2. Message' = Append(Message, line)
    <3>1. text \in Seq(Seq(STRING))
      BY DEF ReaderTyped, Texts
    <3>2. <<MsgBegin>> \o Append(text, line) = Append(<<MsgBegin>> \o text, line)
      BY <1>f, <3>1
    <3> QED
      BY <1>8, <3>2, Zenon DEF Writes, Message, MsgBegin
  <2>3. Written' = Joined(first, second, third, fourth, given, Append(Message, line), <<>>)
    BY <1>0, <1>8, <1>e, <2>2, WrittenNext, GivenIs DEF Writes, HasSession, HasCommand
  <2>4. Written' = Append(Written, line)
    <3>1. /\ Written = Tail4(y, given, Message, <<>>)
          /\ Written' = Tail4(y, given, Append(Message, line), <<>>)
      BY <2>1, <2>3, <1>z, Zenon
    <3> HIDE DEF first, second, third, fourth, given
    <3> QED
      BY <1>f, <1>t, <1>k, <3>1, Zenon
  <2> QED
    BY <1>f, <2>4, Zenon DEF Same, Adds
<1>9. CASE Shuts(line)
  <2>1. Written = Joined(first, second, third, fourth, given, Message, <<>>)
    BY <1>0, <1>9, <1>e, WrittenJoined, GivenIs DEF Shuts
  <2> DEFINE p == Param("mensagem", text)
  <2>2. /\ pkt'.type = pkt.type /\ pkt'.session = pkt.session /\ pkt'.id = pkt.id
        /\ pkt'.params = Append(pkt.params, p)
    BY <1>0, <1>9 DEF Shuts, IsPacket, AddParam
  <2>3. ParamsWritten(pkt'.params) = given \o (Message \o <<MsgEnd>>)
    <3>1. p \in ParamSet
      <4>1. text \in Texts /\ "mensagem" \in STRING
        BY ReaderAssumption, Zenon DEF ReaderTyped
      <4>2. \A n \in STRING, v \in Texts : Param(n, v) \in ParamSet
        BY DEF Param, ParamSet
      <4> QED
        BY <4>1, <4>2, Zenon
    <3>2. WrittenParam(p) = Message \o <<MsgEnd>>
      <4>1. p.name = "mensagem" /\ p.values = text
        BY DEF Param
      <4> QED
        BY <1>9, <4>1, Zenon DEF WrittenParam, Message, Shuts
    <3>3. pkt.params \in Seq(ParamSet)
      BY DEF ReaderTyped, PacketSet, ParamSet
    <3> QED
      BY <2>2, <3>1, <3>2, <3>3, ParamsGrow, Zenon
  <2>4. Written' = Joined(first, second, third, fourth,
                          given \o (Message \o <<MsgEnd>>), <<>>, <<>>)
    <3>1. Message' = <<>>
      BY <1>9, "in_param" # "in_text", Zenon DEF Shuts, Message
    <3> QED
      BY <1>0, <1>9, <1>e, <2>2, <2>3, <3>1, WrittenNext, GivenIs
         DEF Shuts, HasSession, HasCommand
  <2>5. Written' = Append(Written, MsgEnd)
    <3>1. /\ Written = Tail4(y, given, Message, <<>>)
          /\ Written' = Tail4(y, given \o (Message \o <<MsgEnd>>), <<>>, <<>>)
      BY <2>1, <2>4, <1>z, Zenon
    <3> HIDE DEF first, second, third, fourth, given
    <3> QED
      BY <1>p, <1>t, <1>k, <3>1, Zenon
  <2> QED
    BY <1>9, <1>p, <2>5, Zenon DEF Same, Adds, Shuts
<1> QED
  BY <1>1, <1>2, <1>3, <1>4, <1>5, <1>6, <1>7, <1>8, <1>9, Zenon DEF Accepts

\* The lines ls are w, after lines that cut paper.
Matches(ls, w) ==
  \E cuts \in 0..Len(ls) :
    /\ \A i \in 1..cuts : ls[i] = Cut
    /\ Len(ls) = cuts + Len(w)
    /\ \A i \in DOMAIN w : Same(ls[cuts + i], w[i])

LEMMA MatchesMore ==
  ASSUME NEW ls \in Seq(Seq(STRING)), NEW line \in Seq(STRING),
         NEW w \in Seq(WrittenLines), NEW x \in WrittenLines,
         Matches(ls, w), Same(line, x)
  PROVE  Matches(Append(ls, line), Append(w, x))
<1>1. PICK cuts \in 0..Len(ls) : /\ \A i \in 1..cuts : ls[i] = Cut
                                 /\ Len(ls) = cuts + Len(w)
                                 /\ \A i \in DOMAIN w : Same(ls[cuts + i], w[i])
  BY Zenon DEF Matches
<1>2. /\ Len(ls) \in Nat /\ Len(w) \in Nat
      /\ Len(Append(ls, line)) = Len(ls) + 1 /\ Len(Append(w, x)) = Len(w) + 1
      /\ DOMAIN w = 1..Len(w) /\ DOMAIN Append(w, x) = 1..(Len(w) + 1)
      /\ \A i \in 1..Len(ls) : Append(ls, line)[i] = ls[i]
      /\ \A i \in 1..Len(w) : Append(w, x)[i] = w[i]
      /\ Append(ls, line)[Len(ls) + 1] = line /\ Append(w, x)[Len(w) + 1] = x
  BY AppendProperties, LenProperties
<1>3. cuts \in 0..Len(Append(ls, line)) /\ Len(Append(ls, line)) = cuts + Len(Append(w, x))
  BY <1>1, <1>2
<1>4. \A i \in 1..cuts : Append(ls, line)[i] = Cut
  BY <1>1, <1>2
<1>5. ASSUME NEW i \in DOMAIN Append(w, x)
      PROVE  Same(Append(ls, line)[cuts + i], Append(w, x)[i])
  <2>1. CASE i = Len(w) + 1
    BY <1>1, <1>2, <2>1
  <2>2. CASE i # Len(w) + 1
    <3>1. i \in 1..Len(w) /\ cuts + i \in 1..Len(ls)
      BY <1>1, <1>2, <2>2
    <3> QED
      BY <1>1, <1>2, <3>1
  <2> QED
    BY <2>1, <2>2
<1> QED
  BY <1>3, <1>4, <1>5, Zenon DEF Matches

LEMMA MatchesCut ==
  ASSUME NEW ls \in Seq(Seq(STRING)), Matches(ls, <<>>), Cut \in Seq(STRING)
  PROVE  Matches(Append(ls, Cut), <<>>)
<1>1. /\ Len(ls) \in Nat /\ Len(<<>>) = 0
      /\ Len(Append(ls, Cut)) = Len(ls) + 1 /\ Append(ls, Cut)[Len(ls) + 1] = Cut
      /\ \A i \in 1..Len(ls) : Append(ls, Cut)[i] = ls[i]
  BY AppendProperties
<1>2. \A i \in 1..Len(ls) : ls[i] = Cut
  BY <1>1 DEF Matches
<1>3. \A i \in 1..(Len(ls) + 1) : Append(ls, Cut)[i] = Cut
  BY <1>1, <1>2
<1>4. Len(ls) + 1 \in 0..Len(Append(ls, Cut)) /\ DOMAIN <<>> = {}
  BY <1>1
<1> QED
  BY <1>1, <1>3, <1>4 DEF Matches

\* read_packet has thrown for the last line; or it has taken them all.
ReadBack ==
  OneMessage /\ NoneOnALine =>
    \/ reader # "failed" /\ Matches(lines, Written)
    \/ /\ reader = "failed"
       /\ \E ls \in Seq(Seq(STRING)), line \in Seq(STRING) :
            lines = Append(ls, line) /\ Matches(ls, Written)

\* What holds of all the lines held of all but the last.
LEMMA EarlierLines ==
  ASSUME lines \in Seq(Seq(STRING)), NEW line \in Seq(STRING), NEW last, GetLine(line, last),
         OneMessage', NoneOnALine'
  PROVE  /\ OneMessage /\ NoneOnALine
         /\ line = MsgBegin => \A i \in DOMAIN lines : lines[i] # MsgBegin
         /\ line[1] = ":" => line[2] # "mensagem"
<1>1. /\ lines' = Append(lines, line)
      /\ \A i \in DOMAIN lines : i \in DOMAIN lines' /\ lines'[i] = lines[i]
                                   /\ i # Len(lines) + 1
      /\ Len(lines) + 1 \in DOMAIN lines' /\ lines'[Len(lines) + 1] = line
  BY DEF GetLine
<1>2. OneMessage /\ NoneOnALine
  BY <1>1, Zenon DEF OneMessage, NoneOnALine, MsgBegin
<1>3. ASSUME line = MsgBegin, NEW i \in DOMAIN lines, lines[i] = MsgBegin PROVE FALSE
  BY <1>1, <1>3, Zenon DEF OneMessage, MsgBegin
<1>4. line[1] = ":" => line[2] # "mensagem"
  BY <1>1, Zenon DEF NoneOnALine
<1> QED
  BY <1>2, <1>3, <1>4, Zenon

LEMMA ReadBackLine ==
  ASSUME ReaderTyped, PacketOfPhase, NoMessageYet, ReadBack,
         NEW line \in FileLines, NEW last \in BOOLEAN, ReadLine(line, last)
  PROVE  ReadBack'
<1> SUFFICES ASSUME OneMessage', NoneOnALine'
             PROVE  \/ reader' # "failed" /\ Matches(lines', Written')
                    \/ /\ reader' = "failed"
                       /\ \E ls \in Seq(Seq(STRING)), l \in Seq(STRING) :
                            lines' = Append(ls, l) /\ Matches(ls, Written')
  BY Zenon DEF ReadBack, Matches, Same, Closes, Cut, MsgEnd
<1>1. /\ GetLine(line, last) /\ reader = "reading"
      /\ Throws \/ (Accepts(line) /\ reader' \in {"reading", "read"})
  BY LineDoes, PacketFields DEF ReaderTyped, GetLine
<1>2. lines \in Seq(Seq(STRING)) /\ line \in Seq(STRING) /\ lines' = Append(lines, line)
  BY <1>1, LineForms, Zenon DEF ReaderTyped, Texts, GetLine
<1>3. /\ OneMessage /\ NoneOnALine
      /\ line = MsgBegin => \A i \in DOMAIN lines : lines[i] # MsgBegin
      /\ line[1] = ":" => line[2] # "mensagem"
  BY <1>1, <1>2, EarlierLines
<1>4. Matches(lines, Written)
  BY <1>1, <1>3, "reading" # "failed", Zenon DEF ReadBack
<1>5. CASE Throws
  <2>1. Written' = Written
    BY <1>5, WrittenJoined, WrittenNext, Zenon
       DEF Throws, HasSession, HasCommand, Message, MsgBegin, ParamsWritten
  <2> QED
    BY <1>2, <1>4, <1>5, <2>1, Zenon DEF Throws
<1>6. CASE Accepts(line) /\ reader' \in {"reading", "read"} /\ Cuts(line)
  <2>1. Written = <<>> /\ Written' = <<>>
    <3>1. Written = Joined(<<>>, <<>>, <<>>, <<>>, <<>>, <<>>, <<>>)
      BY <1>1, <1>6, WrittenJoined, GivenIs, NoParams
         DEF Cuts, HasSession, HasCommand, PacketOfPhase, Message, Early, ReaderTyped, TextPhase
    <3>2. Written' = Joined(<<>>, <<>>, <<>>, <<>>, <<>>, <<>>, <<>>)
      BY <1>1, <1>6, WrittenNext, GivenIs, NoParams
         DEF Cuts, HasSession, HasCommand, PacketOfPhase, Message, Early, ReaderTyped, TextPhase
    <3>3. Joined(<<>>, <<>>, <<>>, <<>>, <<>>, <<>>, <<>>) = <<>>
      BY DEF Joined, Tail4
    <3> QED
      BY <3>1, <3>2, <3>3
  <2>2. Matches(lines', Written')
    BY <1>2, <1>4, <1>6, <2>1, MatchesCut, Zenon DEF Cuts
  <2>3. reader' # "failed"
    BY <1>6
  <2> QED
    BY <2>2, <2>3
<1>7. CASE Accepts(line) /\ reader' \in {"reading", "read"} /\ ~Cuts(line)
  <2>1. Opens(line) => text = <<>>
    BY <1>3, Zenon DEF Opens, NoMessageYet
  <2>2. Params(line) => line[2] # "mensagem"
    BY <1>3, Zenon DEF Params
  <2>3. PICK x : Adds(line, x)
    BY <1>1, <1>7, <2>1, <2>2, WrittenStep
  <2>4. Written \in Seq(WrittenLines)
    BY PartTypes
  <2>5. Matches(lines', Written')
    BY <1>2, <1>4, <2>3, <2>4, MatchesMore, Zenon DEF Adds
  <2>6. reader' # "failed"
    BY <1>7
  <2> QED
    BY <2>5, <2>6
<1> QED
  BY <1>1, <1>5, <1>6, <1>7, Zenon

ReadInv ==
  ReaderTyped /\ SessionTyped /\ PacketOfPhase /\ NoMessageYet /\ ReadBack

LEMMA NothingMatches == Matches(<<>>, <<>>)
<1>1. Len(<<>>) = 0 /\ DOMAIN <<>> = {} /\ 0 \in 0..0
  OBVIOUS
<1> QED
  BY <1>1 DEF Matches

LEMMA NothingJoined == Joined(<<>>, <<>>, <<>>, <<>>, <<>>, <<>>, <<>>) = <<>>
BY DEF Joined, Tail4

LEMMA ReadStarts ==
  ASSUME Init
  PROVE  PacketOfPhase /\ NoMessageYet /\ ReadBack
<1>1. /\ lines = <<>> /\ prc_phase = "in_idle" /\ text = <<>> /\ has_stop = FALSE
      /\ reader = "reading" /\ pkt = NewPacket
  BY Zenon DEF Init, StartReading
<1>2. pkt.params = <<>>
  BY <1>1 DEF NewPacket
<1>3. PacketOfPhase /\ NoMessageYet
  BY <1>1, <1>2 DEF PacketOfPhase, NoMessageYet, Early
<1>4. Written = Joined(<<>>, <<>>, <<>>, <<>>, <<>>, <<>>, <<>>)
  BY <1>1, <1>2, WrittenJoined, GivenIs, NoParams DEF HasSession, HasCommand, Message
<1> QED
  BY <1>1, <1>3, <1>4, NothingMatches, NothingJoined, "reading" # "failed", Zenon DEF ReadBack

LEMMA ReadStartsAgain ==
  ASSUME NextFile
  PROVE  (PacketOfPhase /\ NoMessageYet /\ ReadBack)'
<1>1. /\ lines' = <<>> /\ prc_phase' = "in_idle" /\ text' = <<>> /\ has_stop' = FALSE
      /\ reader' = "reading" /\ pkt' = NewPacket
  BY Zenon DEF NextFile, StartReadingAgain
<1>2. pkt'.params = <<>>
  BY <1>1 DEF NewPacket
<1>3. PacketOfPhase' /\ NoMessageYet'
  BY <1>1, <1>2 DEF PacketOfPhase, NoMessageYet, Early
<1>4. Written' = Joined(<<>>, <<>>, <<>>, <<>>, <<>>, <<>>, <<>>)
  BY <1>1, <1>2, WrittenNext, GivenIs, NoParams DEF HasSession, HasCommand, Message
<1>5. Matches(lines', Written') /\ reader' # "failed"
  BY <1>1, <1>4, NothingMatches, NothingJoined, "reading" # "failed", Zenon
<1> QED
  BY <1>3, <1>5, Zenon DEF ReadBack, Matches, Same, Closes, Cut, MsgEnd

LEMMA ReadStays ==
  ASSUME PacketOfPhase, NoMessageYet, ReadBack, UNCHANGED readerVars
  PROVE  (PacketOfPhase /\ NoMessageYet /\ ReadBack)'
<1>1. UNCHANGED <<lines, eof, prc_phase, dfl_phase, pkt, text, has_stop, reader>>
  BY DEF readerVars
<1>2. PacketOfPhase' /\ NoMessageYet'
  BY <1>1, Zenon DEF PacketOfPhase, NoMessageYet, Early, PacketTypes, tp_begin_session,
     tp_execut, tp_end_session, tp_status, tp_reset, MsgBegin
<1>3. Written' = Written
  BY <1>1, WrittenJoined, WrittenNext, Zenon
     DEF HasSession, HasCommand, Message, MsgBegin, ParamsWritten
<1>4. OneMessage' /\ NoneOnALine' => OneMessage /\ NoneOnALine
  BY <1>1, Zenon DEF OneMessage, NoneOnALine, MsgBegin
<1> QED
  BY <1>1, <1>2, <1>3, <1>4, Zenon DEF ReadBack, Matches, Same, Closes, Cut, MsgEnd

LEMMA ReadStep == ReadInv /\ [Next]_vars => ReadInv'
<1> SUFFICES ASSUME ReadInv, [Next]_vars
             PROVE  (PacketOfPhase /\ NoMessageYet /\ ReadBack)'
  BY TypedStep, Zenon DEF ReadInv
<1>1. CASE NextFile
  BY <1>1, ReadStartsAgain
<1>2. CASE Read
  <2>1. PICK line \in FileLines, last \in BOOLEAN : ReadLine(line, last)
    BY <1>2, Zenon DEF Read, read_packet, FileLines
  <2>2. /\ GetLine(line, last) /\ reader = "reading"
        /\ Throws \/ (Accepts(line) /\ reader' \in {"reading", "read"})
    BY <2>1, LineDoes, PacketFields DEF ReadInv, ReaderTyped, GetLine
  <2>3. PacketOfPhase'
    BY <2>2, PacketOfPhaseStep DEF ReadInv
  <2>4. NoMessageYet'
    BY <2>2, NoMessageStep DEF ReadInv
  <2>5. ReadBack'
    BY <2>1, ReadBackLine DEF ReadInv
  <2> QED
    BY <2>3, <2>4, <2>5
<1>3. CASE callback \/ UNCHANGED vars
  <2>1. UNCHANGED readerVars
    BY <1>3, Zenon DEF callback, Refuse, Execute, Begin, End, Status, Reset, InvalidType,
       Callback, vars
  <2> QED
    BY <2>1, ReadStays DEF ReadInv
<1> QED
  BY <1>1, <1>2, <1>3 DEF Next

\* At any line of any file, however long and wherever it ends, the packet
\* read_packet has made is, written out, the lines it has read.
THEOREM ReadBackAlways == Spec => []ReadsBack
<1>1. Init => ReadInv
  <2>1. Init => ReaderTyped /\ SessionTyped
    BY NewTyped, Zenon DEF Init, StartReading, ReaderTyped, TextPhase, Texts, Phases, PacketSet,
       SessionTyped
  <2> QED
    BY <2>1, ReadStarts, Zenon DEF ReadInv
<1>2. ReadInv => ReadsBack
  <2> SUFFICES ASSUME ReadInv, OneMessage, NoneOnALine
               PROVE  \E cuts \in 0..Len(lines) :
                        /\ \A i \in 1..cuts : lines[i] = Cut
                        /\ Len(lines) = cuts + Len(Written)
                                          + (IF reader = "failed" THEN 1 ELSE 0)
                        /\ \A i \in DOMAIN Written : Same(lines[cuts + i], Written[i])
    BY Zenon DEF ReadsBack
  <2>0. Written \in Seq(WrittenLines)
    BY PartTypes DEF ReadInv
  <2>1. CASE reader # "failed"
    <3>1. PICK cuts \in 0..Len(lines) :
            /\ \A i \in 1..cuts : lines[i] = Cut
            /\ Len(lines) = cuts + Len(Written)
            /\ \A i \in DOMAIN Written : Same(lines[cuts + i], Written[i])
      BY <2>1, Zenon DEF ReadInv, ReadBack, Matches
    <3>2. Len(lines) = cuts + Len(Written) + (IF reader = "failed" THEN 1 ELSE 0)
      BY <2>0, <2>1, <3>1
    <3> QED
      BY <3>1, <3>2, Zenon
  <2>2. CASE reader = "failed"
    <3>1. PICK ls \in Seq(Seq(STRING)), line \in Seq(STRING) :
            lines = Append(ls, line) /\ Matches(ls, Written)
      BY <2>2, Zenon DEF ReadInv, ReadBack
    <3>2. PICK cuts \in 0..Len(ls) :
            /\ \A i \in 1..cuts : ls[i] = Cut
            /\ Len(ls) = cuts + Len(Written)
            /\ \A i \in DOMAIN Written : Same(ls[cuts + i], Written[i])
      BY <3>1, Zenon DEF Matches
    <3>3. /\ Len(lines) = Len(ls) + 1 /\ Len(ls) \in Nat
          /\ \A i \in 1..Len(ls) : lines[i] = ls[i]
      BY <3>1, AppendProperties
    <3>4. \A i \in DOMAIN Written : cuts + i \in 1..Len(ls)
      BY <2>0, <3>2, <3>3
    <3>5. cuts \in 0..Len(lines) /\ \A i \in 1..cuts : i \in 1..Len(ls)
      BY <3>2, <3>3
    <3>6. Len(lines) = cuts + Len(Written) + (IF reader = "failed" THEN 1 ELSE 0)
      BY <2>0, <2>2, <3>2, <3>3
    <3> QED
      BY <3>2, <3>3, <3>4, <3>5, <3>6, Zenon
  <2> QED
    BY <2>1, <2>2
<1> QED
  BY <1>1, <1>2, ReadStep, PTL DEF Spec
=============================================================================
