--------------------------- MODULE EcfBrokerProofs ----------------------------
(***************************************************************************)
(* For any commands, parameters, refusals, lost answers and sizes: the text *)
(* of an error is of the call that failed; OK means that all of the command *)
(* was done, and an error that its one call was not; what is kept of the    *)
(* last reduction is of the last; a whole report is closed, and has its     *)
(* whole text; and what the variables hold.                                 *)
(***************************************************************************)
EXTENDS EcfBroker, SequenceLemmas, FiniteSetTheorems

\* The status words that the printer gives.
Words ==
  [st1 : {{}, {"pouco_papel"}, {"pouco_papel", "fim_de_papel"}},
   st2 : {{}, {"canc_nao_permitido"}, {"comando_nao_executado"}},
   st3 : 0..255]

\* msg names a fault of the word, or is one of the exceptions.
FaultNamed(msg, word, ignores) ==
  \/ msg \in word.st1 \cup word.st2
  \/ word.st3 # 0 /\ msg = St3Meant(word.st3)
  \/ word.st3 \in Shifted /\ msg = St3Entry(word.st3)
  \/ "canc_nao_permitido" \in word.st2
  \/ ignores /\ {"pouco_papel", "fim_de_papel"} \subseteq word.st1

Explained == answer.msg \in StatusMessages => FaultNamed(answer.msg, m_status, ignoring)

\* The bytes, bit by bit.
LEMMA FirstByte ==
  /\ DOMAIN ST1 = 1..8
  /\ ST1[1] = "num_params_invalido" /\ ST1[2] = "cupom_fiscal_aberto"
  /\ ST1[3] = "comando_inexistente" /\ ST1[4] = "inicio_dif_esc"
  /\ ST1[5] = "erro_impressora" /\ ST1[6] = "erro_rtc"
  /\ ST1[7] = "pouco_papel" /\ ST1[8] = "fim_de_papel"
<1>1. ST1[1] = "num_params_invalido"
  BY DEF ST1
<1>2. ST1[2] = "cupom_fiscal_aberto"
  BY DEF ST1
<1>3. ST1[3] = "comando_inexistente"
  BY DEF ST1
<1>4. ST1[4] = "inicio_dif_esc"
  BY DEF ST1
<1>5. ST1[5] = "erro_impressora"
  BY DEF ST1
<1>6. ST1[6] = "erro_rtc"
  BY DEF ST1
<1>7. ST1[7] = "pouco_papel"
  BY DEF ST1
<1>8. ST1[8] = "fim_de_papel"
  BY DEF ST1
<1>9. DOMAIN ST1 = 1..8
  BY DEF ST1
<1> QED
  BY <1>1, <1>2, <1>3, <1>4, <1>5, <1>6, <1>7, <1>8, <1>9

LEMMA SecondByte ==
  /\ DOMAIN ST2 = 1..8
  /\ ST2[1] = "comando_nao_executado" /\ ST2[2] = "proprietario_nao_programado"
  /\ ST2[3] = "canc_nao_permitido" /\ ST2[4] = "capacidade_aliq_esgotada"
  /\ ST2[5] = "aliq_nao_programada" /\ ST2[6] = "erro_cmos"
  /\ ST2[7] = "mem_fiscal_lotada" /\ ST2[8] = "tipo_param_invalido"
<1>1. ST2[1] = "comando_nao_executado"
  BY DEF ST2
<1>2. ST2[2] = "proprietario_nao_programado"
  BY DEF ST2
<1>3. ST2[3] = "canc_nao_permitido"
  BY DEF ST2
<1>4. ST2[4] = "capacidade_aliq_esgotada"
  BY DEF ST2
<1>5. ST2[5] = "aliq_nao_programada"
  BY DEF ST2
<1>6. ST2[6] = "erro_cmos"
  BY DEF ST2
<1>7. ST2[7] = "mem_fiscal_lotada"
  BY DEF ST2
<1>8. ST2[8] = "tipo_param_invalido"
  BY DEF ST2
<1>9. DOMAIN ST2 = 1..8
  BY DEF ST2
<1> QED
  BY <1>1, <1>2, <1>3, <1>4, <1>5, <1>6, <1>7, <1>8, <1>9

LEMMA EightBits == 1..8 = {1, 2, 3, 4, 5, 6, 7, 8}
BY SMT

\* Answers that are no text of a status word.
LEMMA OtherAnswers == \A msg \in NoTexts : msg \notin StatusMessages
<1>1. ASSUME NEW i \in 1..8 PROVE ST1[i] \notin NoTexts
  BY FirstByte, EightBits, Zenon DEF NoTexts
<1>2. ASSUME NEW i \in 1..8 PROVE ST2[i] \notin NoTexts
  BY SecondByte, EightBits, Zenon DEF NoTexts
<1>3. ASSUME NEW msg \in St3Messages PROVE msg \notin NoTexts
  <2>1. CASE msg \in St3Texts
    BY <2>1, St3Assumption, Zenon DEF St3Texts
  <2>2. CASE msg \in {"dois_textos", "alem_da_tabela", "codigo_indefinido", "codigo_muito_grande"}
    BY <2>2, Zenon DEF NoTexts
  <2> QED
    BY <2>1, <2>2, Zenon DEF St3Messages
<1> QED
  BY <1>1, <1>2, <1>3, FirstByte, SecondByte, Zenon DEF StatusMessages, Bits

LEMMA WordsGiven ==
  ASSUME paper \in {"ok", "low", "out"}, NEW fn
  PROVE  Word \in Words /\ \A code \in Codes : Refusal(fn, code) \in Words
<1>1. PaperBits \in {{}, {"pouco_papel"}, {"pouco_papel", "fim_de_papel"}}
  BY DEF PaperBits
<1>2. Word \in Words
  BY <1>1 DEF Word, Words
<1>3. ASSUME NEW code \in Codes PROVE Refusal(fn, code) \in Words
  <2>1. code \in 0..255
    BY PrinterAssumption
  <2> QED
    BY <1>2, <2>1 DEF Refusal, Words
<1> QED
  BY <1>2, <1>3

\* The first bit of the bytes that the printer gives.
LEMMA LowPaperFirst ==
  ASSUME NEW set, "pouco_papel" \in set, set \subseteq {"pouco_papel", "fim_de_papel"}
  PROVE  First(ST1, set) = "pouco_papel"
<1> DEFINE P(i) == ST1[i] \in set /\ \A j \in 1..(i - 1) : ST1[j] \notin set
<1>1. \A i \in 1..6 : ST1[i] \notin set
  <2>1. 1..6 = {1, 2, 3, 4, 5, 6}
    BY SMT
  <2> QED
    BY <2>1, FirstByte, Zenon
<1>2. P(7)
  BY <1>1, FirstByte
<1>3. ASSUME NEW i \in DOMAIN ST1, P(i) PROVE i = 7
  <2>1. i \in 1..8 /\ ~(i \in 1..6)
    BY <1>1, <1>3, FirstByte, Zenon
  <2>2. i # 8
    <3> SUFFICES ASSUME i = 8 PROVE FALSE
      OBVIOUS
    <3>1. 7 \in 1..(i - 1)
      BY SMT
    <3> QED
      BY <3>1, <1>3, FirstByte, Zenon
  <2> QED
    BY <2>1, <2>2, SMT
<1>4. (CHOOSE i \in DOMAIN ST1 : P(i)) = 7
  <2>1. 7 \in DOMAIN ST1
    BY FirstByte, SMT
  <2> QED
    BY <2>1, <1>2, <1>3, Zenon
<1> QED
  BY <1>4, FirstByte DEF First

LEMMA FirstOfSecondByte ==
  ASSUME NEW b \in {"canc_nao_permitido", "comando_nao_executado"}
  PROVE  First(ST2, {b}) = b
<1> DEFINE P(i) == ST2[i] \in {b} /\ \A j \in 1..(i - 1) : ST2[j] \notin {b}
<1>1. \E i \in DOMAIN ST2 : P(i)
  <2>1. CASE b = "comando_nao_executado"
    <3>1. P(1) /\ 1 \in DOMAIN ST2
      BY <2>1, SecondByte, SMT
    <3> QED
      BY <3>1, Zenon
  <2>2. CASE b = "canc_nao_permitido"
    <3>1. 1..(3 - 1) = {1, 2} /\ 3 \in 1..8
      BY SMT
    <3>2. P(3) /\ 3 \in DOMAIN ST2
      BY <2>2, <3>1, SecondByte, Zenon
    <3> QED
      BY <3>2, Zenon
  <2> QED
    BY <2>1, <2>2
<1>2. PICK i \in DOMAIN ST2 : First(ST2, {b}) = ST2[i] /\ P(i)
  BY <1>1, Zenon DEF First
<1> QED
  BY <1>2

\* Each code has a text: its own, or its entry if that is another's.
LEMMA CodesOfTheTable ==
  ASSUME NEW code \in 0..255
  PROVE  /\ St3Message(code) \in St3Messages
         /\ \/ St3Message(code) = St3Meant(code)
            \/ code \in Shifted /\ St3Message(code) = St3Entry(code)
<1> USE DEF BEMATECH_ARRAY_HOLE, BEMATECH_HIGHER_BOUND, Merging
<1>1. CASE code = 216 \/ code > 218
  <2>1. St3Message(code) = St3Meant(code)
    BY <1>1 DEF St3Message, St3Meant
  <2>2. \/ St3Message(code) = "codigo_indefinido"
        \/ St3Message(code) = "codigo_muito_grande"
    BY <1>1 DEF St3Message
  <2>3. St3Message(code) \in St3Messages
    BY <2>2, Zenon DEF St3Messages
  <2> QED
    BY <2>1, <2>3
<1>2. CASE code < 123
  <2>1. St3Message(code) = bematech_st3_msgs[code] /\ St3Meant(code) = bematech_st3_msgs[code]
    BY <1>2 DEF St3Message, St3Meant, St3Entry
  <2>2. code \in 0..218
    BY <1>2
  <2>3. St3Message(code) \in St3Messages
    BY <2>1, <2>2, Zenon DEF St3Messages, St3Texts, BEMATECH_HIGHER_BOUND
  <2> QED
    BY <2>1, <2>3
<1>3. CASE code \in 123..218 /\ code # 216
  <2>1. St3Message(code) = St3Entry(code)
    BY <1>3 DEF St3Message
  <2>2. code \in Shifted
    BY <1>3 DEF Shifted
  <2>3. St3Entry(code) \in St3Texts \cup {"dois_textos", "alem_da_tabela"}
    <3>1. CASE code \in {123, 218}
      <4>1. St3Entry(code) = "dois_textos" \/ St3Entry(code) = "alem_da_tabela"
        BY <3>1 DEF St3Entry
      <4> QED
        BY <4>1, Zenon
    <3>2. CASE code \in 124..217
      <4>1. St3Entry(code) = bematech_st3_msgs[code + 1] /\ code + 1 \in 0..218
        BY <3>2 DEF St3Entry
      <4> QED
        BY <4>1, Zenon DEF St3Texts
    <3> QED
      BY <1>3, <3>1, <3>2
  <2> QED
    BY <2>1, <2>2, <2>3, Zenon DEF St3Messages
<1> QED
  BY <1>1, <1>2, <1>3

\* A word that does not pass gives the text of one of its faults.
LEMMA TextOfWord ==
  ASSUME NEW word \in Words, NEW ignores \in BOOLEAN, NEW msg,
         ~EvalStatus(word, ignores, msg).ok
  PROVE  FaultNamed(EvalStatus(word, ignores, msg).msg, word, ignores)
<1> DEFINE text == EvalStatus(word, ignores, msg).msg
<1>0. text = Message(word, ignores, msg)
  BY DEF EvalStatus
<1>1. CASE word.st3 # 0
  <2>1. text = St3Message(word.st3)
    BY <1>0, <1>1 DEF Message
  <2>2. \/ text = St3Meant(word.st3)
        \/ word.st3 \in Shifted /\ text = St3Entry(word.st3)
    BY <2>1, CodesOfTheTable DEF Words
  <2> QED
    BY <1>1, <2>2 DEF FaultNamed
<1>2. CASE word.st3 = 0 /\ word.st2 # {}
  <2>1. PICK b \in {"canc_nao_permitido", "comando_nao_executado"} : word.st2 = {b}
    BY <1>2, Zenon DEF Words
  <2>2. First(ST2, word.st2) = b
    BY <2>1, FirstOfSecondByte
  <2>3. CASE b = "canc_nao_permitido"
    BY <2>1, <2>3 DEF FaultNamed
  <2>4. CASE b # "canc_nao_permitido"
    BY <1>0, <1>2, <2>1, <2>2, <2>4 DEF FaultNamed, Message, St2Message
  <2> QED
    BY <2>3, <2>4
<1>3. CASE word.st3 = 0 /\ word.st2 = {}
  <2>1. Remaining(word, ignores) # {}
    BY <1>3 DEF EvalStatus
  <2>2. word.st1 # {}
    BY <2>1 DEF Remaining, Ignored
  <2>3. "pouco_papel" \in word.st1 /\ word.st1 \subseteq {"pouco_papel", "fim_de_papel"}
    BY <2>2, Zenon DEF Words
  <2>4. First(ST1, word.st1) = "pouco_papel"
    BY <2>3, LowPaperFirst
  <2>5. CASE ignores
    <3>1. Remaining(word, ignores) = word.st1 \ {"pouco_papel"}
      BY <2>2, <2>4, <2>5, Zenon DEF Remaining, Ignored
    <3>2. "fim_de_papel" \in word.st1
      BY <3>1, <2>1, <2>3, Zenon
    <3> QED
      BY <3>2, <2>3, <2>5 DEF FaultNamed
  <2>6. CASE ~ignores
    <3>1. text = First(ST1, word.st1)
      BY <1>0, <1>3, <2>2, <2>6 DEF Message, Ignored
    <3> QED
      BY <3>1, <2>3, <2>4 DEF FaultNamed
  <2> QED
    BY <2>5, <2>6
<1> QED
  BY <1>1, <1>2, <1>3

-----------------------------------------------------------------------------
\* What an error says of the word kept, while the printer's words are known.
Inv ==
  /\ paper \in {"ok", "low", "out"}
  /\ ignoring \in BOOLEAN
  /\ Explained

\* Steps after which there is no answer that names a fault.
LEMMA NothingNamed ==
  ASSUME answer'.msg \in NoTexts
  PROVE  Explained'
BY OtherAnswers, Zenon DEF Explained

\* A call that was checked.
LEMMA Checked ==
  ASSUME Inv, Working, NEW word \in Words, Check(word), ignoring' = ignoring
  PROVE  Explained'
<1> DEFINE e == EvalStatus(word, ignoring, m_stsmsg)
<1>1. m_status' = word
  BY DEF Check
<1>2. CASE e.ok
  <2>1. answer' = answer /\ answer = NoAnswer
    BY <1>2, Zenon DEF Check, Proceed, Working, Answered
  <2> QED
    BY <2>1, NothingNamed DEF NoAnswer, NoTexts
<1>3. CASE ~e.ok
  <2>1. answer' = NoAnswer \/ answer' = [ok |-> FALSE, msg |-> e.msg]
    BY <1>3, Zenon DEF Check, Fail
  <2>2. CASE answer' = NoAnswer
    BY <2>2, NothingNamed DEF NoAnswer, NoTexts
  <2>3. CASE answer' = [ok |-> FALSE, msg |-> e.msg]
    <3>1. FaultNamed(e.msg, word, ignoring)
      BY <1>3, TextOfWord DEF Inv
    <3>2. answer'.msg = e.msg
      BY <2>3
    <3> QED
      BY <3>1, <3>2, <1>1, Zenon DEF Explained, FaultNamed
  <2> QED
    BY <2>1, <2>2, <2>3
<1> QED
  BY <1>2, <1>3

\* A step of a working operation that ends it or not.
LEMMA Ended ==
  ASSUME Working, NEW msg \in {"retmsg", "thrown"},
         Proceed \/ Fail(msg) \/ answer' = answer
  PROVE  Explained'
<1>1. answer = NoAnswer
  BY DEF Working, Answered
<1>2. answer' = NoAnswer \/ answer' = [ok |-> FALSE, msg |-> msg]
  BY <1>1, Zenon DEF Proceed, Fail
<1>3. answer'.msg = "no answer" \/ answer'.msg = msg
  <2>1. NoAnswer.msg = "no answer"
    BY DEF NoAnswer
  <2>2. [ok |-> FALSE, msg |-> msg].msg = msg
    OBVIOUS
  <2> QED
    BY <1>2, <2>1, <2>2, Zenon
<1> QED
  BY <1>3, NothingNamed, Zenon DEF NoTexts

\* An answer that stays, with the word it is of.
LEMMA AnswerStays ==
  ASSUME Inv, UNCHANGED <<answer, m_status, ignoring>>
  PROVE  Explained'
BY DEF Inv, Explained, FaultNamed

LEMMA InvStep ==
  ASSUME Inv, [Next]_vars
  PROVE  Inv'
<1> USE DEF Inv
<1>1. CASE \E request \in Requests : Trade(request)
  BY <1>1, AnswerStays DEF Trade, driverVars
<1>2. CASE CallDone
  <2>1. Working /\ paper' = paper /\ ignoring' = ignoring
    BY <1>2 DEF CallDone, IsCall, CarriedOut
  <2>2. CASE Next1.fn \in Unchecked
    BY <1>2, <2>1, <2>2, AnswerStays DEF CallDone, Proceed
  <2>3. CASE Next1.fn \notin Unchecked
    <3>1. Check(Word)
      BY <1>2, <2>3, Zenon DEF CallDone
    <3>2. Word \in Words
      BY WordsGiven
    <3> QED
      BY <2>1, <3>1, <3>2, Checked
  <2> QED
    BY <2>2, <2>3
<1>3. CASE CallRefused
  <2>1. PICK code \in Codes : /\ Working /\ paper' = paper /\ ignoring' = ignoring
                              /\ Check(Refusal(Next1.fn, code))
    BY <1>3 DEF CallRefused, IsCall, NotCarriedOut, printerVars
  <2>2. Refusal(Next1.fn, code) \in Words
    BY WordsGiven
  <2> QED
    BY <2>1, <2>2, Checked
<1>4. CASE CallFails
  <2>1. Working /\ paper' = paper /\ ignoring' = ignoring /\ Fail("retmsg")
    BY <1>4 DEF CallFails, IsCall, CarriedOut, NotCarriedOut, printerVars
  <2> QED
    BY <2>1, Ended
<1>5. CASE ReadTable
  BY <1>5, AnswerStays DEF ReadTable, Proceed, driverVars
<1>6. CASE Test
  <2>1. Working /\ (Proceed \/ Fail("thrown"))
    BY <1>6 DEF Test, At
  <2> QED
    BY <1>6, <2>1, Ended DEF Test, driverVars
<1>7. CASE Suppress
  BY <1>7, AnswerStays DEF Suppress, driverVars
<1>8. CASE Throws
  <2>1. Working /\ Fail("thrown")
    BY <1>8 DEF Throws, At
  <2> QED
    BY <1>8, <2>1, Ended DEF Throws, driverVars
<1>9. CASE EmptyUltRed
  BY <1>9, AnswerStays DEF EmptyUltRed, Proceed
<1>10. CASE LoadConfig
  <2>1. Working /\ (Proceed \/ Fail("thrown"))
    BY <1>10 DEF LoadConfig, At
  <2>2. ignoring' \in BOOLEAN
    BY <1>10, BrokerAssumption DEF LoadConfig
  <2> QED
    BY <1>10, <2>1, <2>2, Ended DEF LoadConfig
<1>11. CASE Restart \/ Escapes
  <2>1. Restart
    BY <1>11, Zenon DEF Escapes
  <2>2. answer'.msg \in NoTexts
    BY <2>1 DEF Restart, NoAnswer, NoTexts
  <2> QED
    BY <2>1, <2>2, NothingNamed DEF Restart
<1>12. CASE Finish
  BY <1>12, NothingNamed DEF Finish, NoTexts, driverVars
<1>13. CASE Reply
  BY <1>13, NothingNamed DEF Reply, NoAnswer, NoTexts, driverVars
<1>14. CASE Paper
  <2>1. paper' \in {"ok", "low", "out"}
    BY <1>14 DEF Paper, PaperChanges
  <2> QED
    BY <1>14, <2>1, AnswerStays DEF Paper, driverVars, tradeVars
<1>15. CASE UNCHANGED vars
  BY <1>15, AnswerStays DEF vars
<1> QED
  BY <1>1, <1>2, <1>3, <1>4, <1>5, <1>6, <1>7, <1>8, <1>9, <1>10, <1>11, <1>12,
     <1>13, <1>14, <1>15, Zenon DEF Next

\* The text of an error is of the call that failed, whatever is commanded, refused
\* or lost, whatever extended codes the printer has and texts the table: a code below
\* 123 is answered with its own text, one from 123 with its own or its entry.  The
\* word that is kept belongs to the answer until the next command works, and low
\* paper that is let pass is always the first bit, so that the old text is answered
\* only at the end of the paper.
THEOREM ErrorsNamed == Spec => []ErrorIsTheCalls
<1>1. Init => Inv
  <2> SUFFICES ASSUME Init PROVE Inv
    OBVIOUS
  <2>1. answer.msg \notin StatusMessages
    BY OtherAnswers DEF Init, NoAnswer, NoTexts
  <2> QED
    BY <2>1 DEF Init, PrinterInit, Inv, Explained
<1>2. Inv /\ [Next]_vars => Inv'
  BY InvStep
<1>3. Inv => ErrorIsTheCalls
  BY Zenon DEF Inv, Explained, FaultNamed, ErrorIsTheCalls
<1> QED
  BY <1>1, <1>2, <1>3, PTL DEF Spec

-----------------------------------------------------------------------------
(* What is sent.                                                           *)

\* The calls that a step stands for, of those that are not in fns.
One(s, fns) == IF s.fn \in fns THEN <<>> ELSE <<s>>
Ones(seq, fns) == [i \in DOMAIN seq |-> One(seq[i], fns)]

LEMMA SentIsOnes ==
  ASSUME NEW seq, NEW fns
  PROVE  Sent(seq, fns) = FlattenSeq(Ones(seq, fns))
BY Zenon DEF Sent, Ones, One

LEMMA OnesType ==
  ASSUME NEW T, NEW seq \in Seq(T), NEW fns
  PROVE  Ones(seq, fns) \in Seq(Seq(T)) /\ Len(Ones(seq, fns)) = Len(seq)
<1>1. \A s \in T : One(s, fns) \in Seq(T)
  BY DEF One
<1>2. /\ DOMAIN Ones(seq, fns) = 1..Len(seq) /\ Len(seq) \in Nat
      /\ Ones(seq, fns) = [i \in 1..Len(seq) |-> Ones(seq, fns)[i]]
  BY DEF Ones
<1>3. \A i \in 1..Len(seq) : Ones(seq, fns)[i] \in Seq(T)
  BY <1>1 DEF Ones
<1> HIDE DEF Ones
<1> QED
  BY <1>2, <1>3

LEMMA SentType ==
  ASSUME NEW T, NEW seq \in Seq(T), NEW fns
  PROVE  Sent(seq, fns) \in Seq(T)
BY OnesType, FlattenType, SentIsOnes, Zenon

LEMMA SentEmpty == \A fns : Sent(<<>>, fns) = <<>>
<1> SUFFICES ASSUME NEW fns PROVE Sent(<<>>, fns) = <<>>
  OBVIOUS
<1>1. Ones(<<>>, fns) = <<>>
  BY DEF Ones
<1> QED
  BY <1>1, SentIsOnes, FlattenEmpty

LEMMA OnesConcat ==
  ASSUME NEW T, NEW fns
  PROVE  \A s, t \in Seq(T) : Ones(s \o t, fns) = Ones(s, fns) \o Ones(t, fns)
<1> DEFINE f == [s \in T |-> One(s, fns)]
<1>1. Makes(f, T, Seq(T))
  BY DEF Makes, One
<1>2. ASSUME NEW seq \in Seq(T) PROVE Ones(seq, fns) = Mapped(seq, f)
  <2>1. \A i \in DOMAIN seq : f[seq[i]] = One(seq[i], fns)
    OBVIOUS
  <2> QED
    BY <2>1, Zenon DEF Ones, Mapped
<1>3. \A s, t \in Seq(T) : s \o t \in Seq(T)
  OBVIOUS
<1> HIDE DEF f
<1>4. \A s, t \in Seq(T) : Mapped(s \o t, f) = Mapped(s, f) \o Mapped(t, f)
  BY <1>1, MappedConcat
<1> QED
  BY <1>2, <1>3, <1>4, Zenon

LEMMA SentConcat ==
  ASSUME NEW T, NEW fns
  PROVE  \A s, t \in Seq(T) : Sent(s \o t, fns) = Sent(s, fns) \o Sent(t, fns)
<1> SUFFICES ASSUME NEW s \in Seq(T), NEW t \in Seq(T)
             PROVE  Sent(s \o t, fns) = Sent(s, fns) \o Sent(t, fns)
  OBVIOUS
<1>1. /\ Ones(s, fns) \in Seq(Seq(T)) /\ Ones(t, fns) \in Seq(Seq(T))
  BY OnesType
<1>2. FlattenSeq(Ones(s, fns) \o Ones(t, fns))
      = FlattenSeq(Ones(s, fns)) \o FlattenSeq(Ones(t, fns))
  BY <1>1, FlattenConcat, Zenon
<1> QED
  BY <1>2, OnesConcat, SentIsOnes, Zenon

LEMMA SentOne ==
  ASSUME NEW s, NEW fns
  PROVE  Sent(<<s>>, fns) = One(s, fns)
<1>1. Ones(<<s>>, fns) = <<One(s, fns)>>
  BY DEF Ones
<1>2. One(s, fns) \in Seq({s})
  <2>1. <<>> \in Seq({s}) /\ <<s>> \in Seq({s})
    OBVIOUS
  <2> QED
    BY <2>1, Zenon DEF One
<1> QED
  BY <1>1, <1>2, SentIsOnes, FlattenOne, Zenon

\* A sequence is its first step and the others.
LEMMA HeadTail ==
  ASSUME NEW T, NEW seq \in Seq(T), seq # <<>>
  PROVE  /\ Head(seq) \in T /\ Tail(seq) \in Seq(T)
         /\ seq = <<Head(seq)>> \o Tail(seq)
OBVIOUS

LEMMA SentHead ==
  ASSUME NEW T, NEW seq \in Seq(T), seq # <<>>, NEW fns
  PROVE  Sent(seq, fns) = One(Head(seq), fns) \o Sent(Tail(seq), fns)
<1>1. <<Head(seq)>> \in Seq(T)
  BY HeadTail
<1>2. /\ Tail(seq) \in Seq(T)
      /\ seq = <<Head(seq)>> \o Tail(seq)
  BY HeadTail
<1>3. Sent(<<Head(seq)>> \o Tail(seq), fns) = Sent(<<Head(seq)>>, fns) \o Sent(Tail(seq), fns)
  BY <1>1, <1>2, SentConcat, Zenon
<1> QED
  BY <1>2, <1>3, SentOne, Zenon

LEMMA SentAppend ==
  ASSUME NEW T, NEW seq \in Seq(T), NEW s \in T, NEW fns
  PROVE  Sent(Append(seq, s), fns) = Sent(seq, fns) \o One(s, fns)
<1>1. Append(seq, s) = seq \o <<s>> /\ <<s>> \in Seq(T)
  OBVIOUS
<1>2. Sent(seq \o <<s>>, fns) = Sent(seq, fns) \o Sent(<<s>>, fns)
  BY <1>1, SentConcat, Zenon
<1> QED
  BY <1>1, <1>2, SentOne, Zenon

\* Only which of the steps are left out matters.
LEMMA SentSame ==
  ASSUME NEW T, NEW seq \in Seq(T), NEW fns, NEW gns,
         \A s \in T : s.fn \in fns <=> s.fn \in gns
  PROVE  Sent(seq, fns) = Sent(seq, gns)
<1>1. ASSUME NEW i \in DOMAIN seq PROVE One(seq[i], fns) = One(seq[i], gns)
  <2>1. seq[i] \in T
    OBVIOUS
  <2> QED
    BY <2>1, Zenon DEF One
<1>2. Ones(seq, fns) = Ones(seq, gns)
  BY <1>1, Zenon DEF Ones
<1> QED
  BY <1>2, SentIsOnes, Zenon

\* If all are, nothing is sent.
LEMMA SentNone ==
  ASSUME NEW T, NEW fns, \A s \in T : s.fn \in fns
  PROVE  \A seq \in Seq(T) : Sent(seq, fns) = <<>>
<1> DEFINE S == {seq \in Seq(T) : Sent(seq, fns) = <<>>}
<1>1. <<>> \in S
  BY SentEmpty
<1>2. ASSUME NEW seq \in Seq(T), NEW s \in T, seq \in S PROVE Append(seq, s) \in S
  <2>1. One(s, fns) = <<>>
    BY DEF One
  <2>2. Sent(Append(seq, s), fns) = Sent(seq, fns) \o <<>>
    BY <2>1, SentAppend, Zenon
  <2> QED
    BY <1>2, <2>2
<1>3. Seq(T) \subseteq S
  <2> HIDE DEF S
  <2> QED
    BY <1>1, <1>2, SeqInduction, Zenon
<1> QED
  BY <1>3

-----------------------------------------------------------------------------
(* The plans.  What is read or tested comes before what is sent.           *)

\* Tables are read by calls of their own, two at most, and a payment is suppressed
\* at the beginning or not at all.
Fits(T) ==
  \A s \in T :
    /\ s.fn # "suppress"
    /\ s.fn = "read" => /\ s.text \in Seq({c \in T : c.fn \in TableReads})
                        /\ Len(s.text) <= 2
WithoutReduction(T) == \A s \in T : s.fn # "ReducaoZ"

\* Steps that send nothing of the command's own, and steps that read no table.
Tests(T) == {s \in T : s.fn \in Others}
Tells(T) == {s \in T : s.fn \notin TableReads \cup {"read"}}

Prepares(p) == \E T : Fits(T) /\ WithoutReduction(T) /\ p \in Seq(Tests(T))
Performs(p) == \E T : Fits(T) /\ WithoutReduction(T) /\ p \in Seq(Tells(T))
Planned(p) ==
  \E T : /\ Fits(T) /\ WithoutReduction(T)
         /\ \E a \in Seq(Tests(T)), b \in Seq(Tells(T)) : p = a \o b

LEMMA SeqMono ==
  ASSUME NEW A, NEW B, A \subseteq B
  PROVE  \A s \in Seq(A) : s \in Seq(B)
OBVIOUS

LEMMA FitsUnion ==
  ASSUME NEW T, NEW U, Fits(T), Fits(U)
  PROVE  Fits(T \cup U)
<1> SUFFICES ASSUME NEW s \in T \cup U, s.fn = "read"
             PROVE  /\ s.text \in Seq({c \in T \cup U : c.fn \in TableReads})
                    /\ Len(s.text) <= 2
  BY Zenon DEF Fits
<1>1. CASE s \in T
  <2>1. s.text \in Seq({c \in T : c.fn \in TableReads}) /\ Len(s.text) <= 2
    BY <1>1, Zenon DEF Fits
  <2>2. {c \in T : c.fn \in TableReads} \subseteq {c \in T \cup U : c.fn \in TableReads}
    OBVIOUS
  <2> QED
    BY <2>1, <2>2, SeqMono, Zenon
<1>2. CASE s \in U
  <2>1. s.text \in Seq({c \in U : c.fn \in TableReads}) /\ Len(s.text) <= 2
    BY <1>2, Zenon DEF Fits
  <2>2. {c \in U : c.fn \in TableReads} \subseteq {c \in T \cup U : c.fn \in TableReads}
    OBVIOUS
  <2> QED
    BY <2>1, <2>2, SeqMono, Zenon
<1> QED
  BY <1>1, <1>2

LEMMA PartsUnion ==
  ASSUME NEW T, NEW U
  PROVE  /\ \A s \in Seq(Tests(T)) : s \in Seq(Tests(T \cup U))
         /\ \A s \in Seq(Tests(U)) : s \in Seq(Tests(T \cup U))
         /\ \A s \in Seq(Tells(T)) : s \in Seq(Tells(T \cup U))
         /\ \A s \in Seq(Tells(U)) : s \in Seq(Tells(T \cup U))
<1>1. /\ Tests(T) \subseteq Tests(T \cup U) /\ Tests(U) \subseteq Tests(T \cup U)
      /\ Tells(T) \subseteq Tells(T \cup U) /\ Tells(U) \subseteq Tells(T \cup U)
  BY Zenon DEF Tests, Tells
<1> QED
  BY <1>1, SeqMono, Zenon

\* How plans are put together.
LEMMA PrepareBoth ==
  \A p, q : Prepares(p) /\ Prepares(q) => Prepares(p \o q)
<1> SUFFICES ASSUME NEW p, NEW q, Prepares(p), Prepares(q)
             PROVE  Prepares(p \o q)
  OBVIOUS
<1>1. PICK T : Fits(T) /\ WithoutReduction(T) /\ p \in Seq(Tests(T))
  BY Zenon DEF Prepares
<1>2. PICK U : Fits(U) /\ WithoutReduction(U) /\ q \in Seq(Tests(U))
  BY Zenon DEF Prepares
<1>3. p \in Seq(Tests(T \cup U)) /\ q \in Seq(Tests(T \cup U))
  BY <1>1, <1>2, PartsUnion, Zenon
<1>4. p \o q \in Seq(Tests(T \cup U))
  BY <1>3
<1>5. Fits(T \cup U) /\ WithoutReduction(T \cup U)
  BY <1>1, <1>2, FitsUnion, Zenon DEF WithoutReduction
<1> QED
  BY <1>4, <1>5, Zenon DEF Prepares

LEMMA PerformBoth ==
  \A p, q : Performs(p) /\ Performs(q) => Performs(p \o q)
<1> SUFFICES ASSUME NEW p, NEW q, Performs(p), Performs(q)
             PROVE  Performs(p \o q)
  OBVIOUS
<1>1. PICK T : Fits(T) /\ WithoutReduction(T) /\ p \in Seq(Tells(T))
  BY Zenon DEF Performs
<1>2. PICK U : Fits(U) /\ WithoutReduction(U) /\ q \in Seq(Tells(U))
  BY Zenon DEF Performs
<1>3. p \in Seq(Tells(T \cup U)) /\ q \in Seq(Tells(T \cup U))
  BY <1>1, <1>2, PartsUnion, Zenon
<1>4. p \o q \in Seq(Tells(T \cup U))
  BY <1>3
<1>5. Fits(T \cup U) /\ WithoutReduction(T \cup U)
  BY <1>1, <1>2, FitsUnion, Zenon DEF WithoutReduction
<1> QED
  BY <1>4, <1>5, Zenon DEF Performs

LEMMA PlanBoth ==
  \A p, q : Prepares(p) /\ Performs(q) => Planned(p \o q)
<1> SUFFICES ASSUME NEW p, NEW q, Prepares(p), Performs(q)
             PROVE  Planned(p \o q)
  OBVIOUS
<1>1. PICK T : Fits(T) /\ WithoutReduction(T) /\ p \in Seq(Tests(T))
  BY Zenon DEF Prepares
<1>2. PICK U : Fits(U) /\ WithoutReduction(U) /\ q \in Seq(Tells(U))
  BY Zenon DEF Performs
<1>3. p \in Seq(Tests(T \cup U)) /\ q \in Seq(Tells(T \cup U))
  BY <1>1, <1>2, PartsUnion, Zenon
<1>4. Fits(T \cup U) /\ WithoutReduction(T \cup U)
  BY <1>1, <1>2, FitsUnion, Zenon DEF WithoutReduction
<1> QED
  BY <1>3, <1>4, Zenon DEF Planned

LEMMA PlanFrom ==
  \A p, q : Planned(p) /\ Performs(q) => Planned(p \o q)
<1> SUFFICES ASSUME NEW p, NEW q, Planned(p), Performs(q)
             PROVE  Planned(p \o q)
  OBVIOUS
<1>1. PICK T : /\ Fits(T) /\ WithoutReduction(T)
               /\ \E a \in Seq(Tests(T)), b \in Seq(Tells(T)) : p = a \o b
  BY Zenon DEF Planned
<1>2. PICK a \in Seq(Tests(T)), b \in Seq(Tells(T)) : p = a \o b
  BY <1>1
<1>3. Prepares(a) /\ Performs(b)
  BY <1>1, <1>2, Zenon DEF Prepares, Performs
<1>4. Planned(a \o (b \o q))
  BY <1>3, PerformBoth, PlanBoth, Zenon
<1>5. PICK U : q \in Seq(Tells(U))
  BY Zenon DEF Performs
<1>6. (a \o b) \o q = a \o (b \o q)
  <2>1. a \in Seq(T \cup U) /\ b \in Seq(T \cup U) /\ q \in Seq(T \cup U)
    <3>1. /\ Tests(T) \subseteq T \cup U /\ Tells(T) \subseteq T \cup U
          /\ Tells(U) \subseteq T \cup U
      BY Zenon DEF Tests, Tells
    <3> QED
      BY <3>1, <1>2, <1>5, SeqMono, Zenon
  <2> QED
    BY <2>1, ConcatAssociative
<1> QED
  BY <1>2, <1>4, <1>6

LEMMA PlanAfter ==
  \A p, q : Prepares(p) /\ Planned(q) => Planned(p \o q)
<1> SUFFICES ASSUME NEW p, NEW q, Prepares(p), Planned(q)
             PROVE  Planned(p \o q)
  OBVIOUS
<1>1. PICK T : /\ Fits(T) /\ WithoutReduction(T)
               /\ \E a \in Seq(Tests(T)), b \in Seq(Tells(T)) : q = a \o b
  BY Zenon DEF Planned
<1>2. PICK a \in Seq(Tests(T)), b \in Seq(Tells(T)) : q = a \o b
  BY <1>1
<1>3. Prepares(a) /\ Performs(b)
  BY <1>1, <1>2, Zenon DEF Prepares, Performs
<1>4. Planned((p \o a) \o b)
  BY <1>3, PrepareBoth, PlanBoth, Zenon
<1>5. PICK U : p \in Seq(Tests(U))
  BY Zenon DEF Prepares
<1>6. p \o (a \o b) = (p \o a) \o b
  <2>1. a \in Seq(T \cup U) /\ b \in Seq(T \cup U) /\ p \in Seq(T \cup U)
    <3>1. /\ Tests(T) \subseteq T \cup U /\ Tells(T) \subseteq T \cup U
          /\ Tests(U) \subseteq T \cup U
      BY Zenon DEF Tests, Tells
    <3> QED
      BY <3>1, <1>2, <1>5, SeqMono, Zenon
  <2> QED
    BY <2>1, ConcatAssociative
<1> QED
  BY <1>2, <1>4, <1>6

LEMMA NothingPlanned == Prepares(<<>>) /\ Performs(<<>>)
<1>1. Fits({}) /\ WithoutReduction({})
  BY Zenon DEF Fits, WithoutReduction
<1>2. <<>> \in Seq(Tests({})) /\ <<>> \in Seq(Tells({}))
  OBVIOUS
<1> QED
  BY <1>1, <1>2, Zenon DEF Prepares, Performs

LEMMA PlanEither ==
  \A p : Prepares(p) \/ Performs(p) => Planned(p)
<1> SUFFICES ASSUME NEW p, Prepares(p) \/ Performs(p) PROVE Planned(p)
  OBVIOUS
<1>1. CASE Prepares(p)
  <2>1. Planned(p \o <<>>)
    BY <1>1, NothingPlanned, PlanBoth, Zenon
  <2>2. PICK T : p \in Seq(Tests(T))
    BY <1>1, Zenon DEF Prepares
  <2>3. p \o <<>> = p
    BY <2>2
  <2> QED
    BY <2>1, <2>3
<1>2. CASE Performs(p)
  <2>1. Planned(<<>> \o p)
    BY <1>2, NothingPlanned, PlanBoth, Zenon
  <2>2. PICK T : p \in Seq(Tells(T))
    BY <1>2, Zenon DEF Performs
  <2>3. <<>> \o p = p
    BY <2>2
  <2> QED
    BY <2>1, <2>3
<1> QED
  BY <1>1, <1>2

-----------------------------------------------------------------------------
(* Single steps.                                                           *)

LEMMA StepParts == \A fn, text : Step(fn, text).fn = fn /\ Step(fn, text).text = text
BY DEF Step

\* A test is both: nothing of the command's own is sent, and no table is read.
TestNames == {"throw", "out_of_range", "found", "present", "absent"}
LEMMA TestsPlanned ==
  \A fn \in TestNames :
    Prepares(<<Step(fn, <<>>)>>) /\ Performs(<<Step(fn, <<>>)>>)
<1> SUFFICES ASSUME NEW fn \in TestNames
             PROVE  Prepares(<<Step(fn, <<>>)>>) /\ Performs(<<Step(fn, <<>>)>>)
  OBVIOUS
<1> DEFINE T == {Step(fn, <<>>)}
<1>1. fn \in Others /\ fn \notin TableReads \cup {"read", "suppress", "ReducaoZ"}
  BY Zenon DEF TestNames, Others, TableReads
<1>2. Fits(T) /\ WithoutReduction(T)
  BY <1>1, StepParts, Zenon DEF Fits, WithoutReduction
<1>3. Step(fn, <<>>) \in Tests(T) /\ Step(fn, <<>>) \in Tells(T)
  BY <1>1, StepParts, Zenon DEF Tests, Tells
<1>4. <<Step(fn, <<>>)>> \in Seq(Tests(T)) /\ <<Step(fn, <<>>)>> \in Seq(Tells(T))
  BY <1>3
<1> QED
  BY <1>2, <1>4, Zenon DEF Prepares, Performs

LEMMA OnesPlanned ==
  /\ Prepares(Throw) /\ Performs(Throw) /\ Prepares(Escape) /\ Performs(Found)
  /\ Prepares(Present) /\ Prepares(Absent)
<1>1. {"throw", "out_of_range", "found", "present", "absent"} \subseteq TestNames
  BY DEF TestNames
<1> QED
  BY <1>1, TestsPlanned, Zenon DEF Throw, Escape, Found, Present, Absent

TableCalls == {Step(fn, <<>>) : fn \in TableReads}
LEMMA ReadsPlanned ==
  \A calls \in Seq(TableCalls) : Len(calls) <= 2 => Prepares(ReadOnce(calls))
<1> SUFFICES ASSUME NEW calls \in Seq(TableCalls), Len(calls) <= 2
             PROVE  Prepares(ReadOnce(calls))
  OBVIOUS
<1> DEFINE r == Step("read", calls)
           T == {r} \cup TableCalls
<1>1. \A fn \in TableReads : fn \notin {"read", "suppress", "ReducaoZ"}
  BY Zenon DEF TableReads
<1>2. \A c \in TableCalls : c.fn \in TableReads
  BY StepParts, Zenon DEF TableCalls
<1>3. r.fn = "read" /\ r.text = calls
  BY StepParts
<1>4. TableCalls \subseteq {c \in T : c.fn \in TableReads}
  BY <1>2, Zenon
<1>5. calls \in Seq({c \in T : c.fn \in TableReads})
  BY <1>4, SeqMono, Zenon
<1>6. Fits(T)
  BY <1>1, <1>2, <1>3, <1>5, Zenon DEF Fits
<1>7. WithoutReduction(T)
  BY <1>1, <1>2, <1>3, Zenon DEF WithoutReduction
<1>8. r \in Tests(T)
  BY <1>3, Zenon DEF Tests, Others
<1>9. <<r>> \in Seq(Tests(T))
  BY <1>8
<1> QED
  BY <1>6, <1>7, <1>9, Zenon DEF Prepares, ReadOnce

LEMMA TablesPlanned ==
  /\ Prepares(Forms) /\ Prepares(Totals) /\ Prepares(Reports) /\ Prepares(Rates)
  /\ Prepares(ReadOnce(Call("MarcaModeloTipoImpressoraMFD")))
  /\ Prepares(ReadOnce(Call("ModeloImpressora")))
<1>1. \A fn \in TableReads : Step(fn, <<>>) \in TableCalls
  BY DEF TableCalls
<1>2. \A fn \in TableReads : Call(fn) \in Seq(TableCalls) /\ Len(Call(fn)) = 1
  BY <1>1 DEF Call
<1>3. /\ "VerificaFormasPagamentoMFD" \in TableReads
      /\ "VerificaTotalizadoresNaoFiscaisMFD" \in TableReads
      /\ "VerificaRelatorioGerencialMFD" \in TableReads
      /\ "VerificaIndiceAliquotasIss" \in TableReads /\ "RetornoAliquotas" \in TableReads
      /\ "MarcaModeloTipoImpressoraMFD" \in TableReads /\ "ModeloImpressora" \in TableReads
  BY Zenon DEF TableReads
<1>4. /\ Call("VerificaIndiceAliquotasIss") \o Call("RetornoAliquotas") \in Seq(TableCalls)
      /\ Len(Call("VerificaIndiceAliquotasIss") \o Call("RetornoAliquotas")) = 2
  <2>1. \A p, q \in Seq(TableCalls) : Len(p) = 1 /\ Len(q) = 1 =>
          p \o q \in Seq(TableCalls) /\ Len(p \o q) = 2
    OBVIOUS
  <2> QED
    BY <1>2, <1>3, <2>1, Zenon
<1> DEFINE both == Call("VerificaIndiceAliquotasIss") \o Call("RetornoAliquotas")
<1>5. (\A fn \in TableReads : Len(Call(fn)) <= 2) /\ Len(both) <= 2
  <2> HIDE DEF both
  <2>1. \A n : n = 1 \/ n = 2 => n <= 2
    OBVIOUS
  <2> QED
    BY <1>2, <1>4, <2>1, Zenon DEF both
<1>6. (\A fn \in TableReads : Prepares(ReadOnce(Call(fn)))) /\ Prepares(ReadOnce(both))
  BY <1>2, <1>4, <1>5, ReadsPlanned, Zenon
<1> QED
  BY <1>3, <1>6, Zenon DEF Forms, Totals, Reports, Rates

\* A call of the command's own.
NotOwn == Others \cup TableReads \cup {"ReducaoZ"}
LEMMA CallsPlanned == \A fn, text : fn \notin NotOwn => Performs(<<Step(fn, text)>>)
<1> SUFFICES ASSUME NEW fn, NEW text, fn \notin NotOwn
             PROVE  Performs(<<Step(fn, text)>>)
  OBVIOUS
<1> DEFINE T == {Step(fn, text)}
<1>1. fn \notin {"read", "suppress", "ReducaoZ"}
  BY Zenon DEF NotOwn, Others
<1>2. Fits(T) /\ WithoutReduction(T)
  BY <1>1, StepParts, Zenon DEF Fits, WithoutReduction
<1>3. Step(fn, text) \in Tells(T)
  BY <1>1, StepParts, Zenon DEF Tells, NotOwn
<1>4. <<Step(fn, text)>> \in Seq(Tells(T))
  BY <1>3
<1> QED
  BY <1>2, <1>4, Zenon DEF Performs

-----------------------------------------------------------------------------
(* The operations.                                                         *)

\* Those that depend on their arguments are others.
Argued ==
  {"get_data_ult_red", "get_hora_ult_red", "set_aliquota", "vende_item",
   "memoria_fiscal", "leitura_x", "download_mfd", "converte_mfd",
   "inicia_fechamento_nao_fiscal", "txt_rel_gerencial", "abre_gerencial"}

Reduction == Call("ReducaoZ") \o Emptied

LEMMA OwnCalls == \A fn : fn \notin NotOwn => Performs(Call(fn)) /\ Planned(Call(fn))
BY CallsPlanned, PlanEither, Zenon DEF Call

LEMMA PaysPlanned == Planned(Pays)
<1>1. Performs(Call("EfetuaFormaPagamentoIndice"))
  BY OwnCalls, Zenon DEF NotOwn, Others, TableReads
<1> QED
  BY <1>1, TablesPlanned, OnesPlanned, PrepareBoth, PlanBoth, Zenon DEF Pays

LEMMA IdentityPlanned ==
  /\ DOMAIN Identity =
         {"get_nr_loja", "get_nr_serie", "get_marca",
          "get_modelo"}
  /\ \A op \in DOMAIN Identity : op \notin Argued /\ Planned(Identity[op])
<1>1. \A fn \in
       {"NumeroLoja", "NumeroSerieMFD"} :
       Performs(Call(fn)) /\ Planned(Call(fn))
  BY OwnCalls, Zenon DEF NotOwn, Others, TableReads
<1>2. DOMAIN Identity =
         {"get_nr_loja", "get_nr_serie", "get_marca",
          "get_modelo"}
  BY Zenon DEF Identity
<1>3. /\ Planned(Identity["get_nr_loja"])
      /\ Planned(Identity["get_nr_serie"])
      /\ Planned(Identity["get_marca"]) /\ Planned(Identity["get_modelo"])
  BY <1>1, TablesPlanned, PlanEither, Zenon DEF Identity
<1> QED
  BY <1>2, <1>3, Zenon DEF Argued

LEMMA NumbersPlanned ==
  /\ DOMAIN Numbers =
         {"get_nr_usuario", "get_nr_serie_cript", "get_nr_caixa",
          "get_firmware"}
  /\ \A op \in DOMAIN Numbers : op \notin Argued /\ Planned(Numbers[op])
<1>1. \A fn \in
       {"NumeroSubstituicoesProprietario", "NumeroSerieCriptografado",
        "NumeroCaixa", "VersaoFirmwareMFD"} :
       Performs(Call(fn)) /\ Planned(Call(fn))
  BY OwnCalls, Zenon DEF NotOwn, Others, TableReads
<1>2. DOMAIN Numbers =
         {"get_nr_usuario", "get_nr_serie_cript", "get_nr_caixa",
          "get_firmware"}
  BY Zenon DEF Numbers
<1>3. /\ Planned(Numbers["get_nr_usuario"])
      /\ Planned(Numbers["get_nr_serie_cript"])
      /\ Planned(Numbers["get_nr_caixa"])
      /\ Planned(Numbers["get_firmware"])
  BY <1>1, Zenon DEF Numbers
<1> QED
  BY <1>2, <1>3, Zenon DEF Argued

LEMMA ClockPlanned ==
  /\ DOMAIN Clock =
         {"get_data_atual", "get_hora_atual", "get_data_mvto"}
  /\ \A op \in DOMAIN Clock : op \notin Argued /\ Planned(Clock[op])
<1>1. \A fn \in
       {"DataHoraImpressora", "DataMovimento"} :
       Performs(Call(fn)) /\ Planned(Call(fn))
  BY OwnCalls, Zenon DEF NotOwn, Others, TableReads
<1>2. DOMAIN Clock =
         {"get_data_atual", "get_hora_atual", "get_data_mvto"}
  BY Zenon DEF Clock
<1>3. /\ Planned(Clock["get_data_atual"])
      /\ Planned(Clock["get_hora_atual"])
      /\ Planned(Clock["get_data_mvto"])
  BY <1>1, Zenon DEF Clock
<1> QED
  BY <1>2, <1>3, Zenon DEF Argued

LEMMA StatusPlanned ==
  /\ DOMAIN Status =
         {"get_status_ecf", "get_nr_cupom"}
  /\ \A op \in DOMAIN Status : op \notin Argued /\ Planned(Status[op])
<1>1. \A fn \in
       {"VerificaEstadoImpressoraMFD", "NumeroCupom"} :
       Performs(Call(fn)) /\ Planned(Call(fn))
  BY OwnCalls, Zenon DEF NotOwn, Others, TableReads
<1>2. DOMAIN Status =
         {"get_status_ecf", "get_nr_cupom"}
  BY Zenon DEF Status
<1>3. /\ Planned(Status["get_status_ecf"])
      /\ Planned(Status["get_nr_cupom"])
  BY <1>1, Zenon DEF Status
<1> QED
  BY <1>2, <1>3, Zenon DEF Argued

LEMMA EntriesPlanned ==
  /\ DOMAIN Entries =
         {"get_id_forma_pgto", "get_totalizador_cnf", "get_prox_totalizador"}
  /\ \A op \in DOMAIN Entries : op \notin Argued /\ Planned(Entries[op])
<1>1. DOMAIN Entries =
         {"get_id_forma_pgto", "get_totalizador_cnf", "get_prox_totalizador"}
  BY Zenon DEF Entries
<1>2. /\ Planned(Entries["get_id_forma_pgto"])
      /\ Planned(Entries["get_totalizador_cnf"])
      /\ Planned(Entries["get_prox_totalizador"])
  BY TablesPlanned, PlanEither, Zenon DEF Entries
<1> QED
  BY <1>1, <1>2, Zenon DEF Argued

LEMMA ProgrammedPlanned ==
  /\ DOMAIN Programmed =
         {"set_forma_pgto", "set_totalizador"}
  /\ \A op \in DOMAIN Programmed : op \notin Argued /\ Planned(Programmed[op])
<1>1. \A fn \in
       {"ProgramaFormaPagamentoMFD", "NomeiaTotalizadorNaoSujeitoIcms"} :
       Performs(Call(fn)) /\ Planned(Call(fn))
  BY OwnCalls, Zenon DEF NotOwn, Others, TableReads
<1>2. Planned(Forms \o Absent \o Call("ProgramaFormaPagamentoMFD"))
  BY <1>1, TablesPlanned, OnesPlanned, PrepareBoth, PlanBoth, Zenon
<1>3. Planned(Totals \o Absent \o Totals \o Call("NomeiaTotalizadorNaoSujeitoIcms"))
  BY <1>1, TablesPlanned, OnesPlanned, PrepareBoth, PlanBoth, Zenon
<1>4. DOMAIN Programmed =
         {"set_forma_pgto", "set_totalizador"}
  BY Zenon DEF Programmed
<1>5. /\ Planned(Programmed["set_forma_pgto"])
      /\ Planned(Programmed["set_totalizador"])
  BY <1>2, <1>3, Zenon DEF Programmed
<1> QED
  BY <1>4, <1>5, Zenon DEF Argued

LEMMA CouponPlanned ==
  /\ DOMAIN Coupon =
         {"abre_cupom", "cancela_cupom"}
  /\ \A op \in DOMAIN Coupon : op \notin Argued /\ Planned(Coupon[op])
<1>1. \A fn \in
       {"AbreCupomMFD", "CancelaCupom"} :
       Performs(Call(fn)) /\ Planned(Call(fn))
  BY OwnCalls, Zenon DEF NotOwn, Others, TableReads
<1>2. DOMAIN Coupon =
         {"abre_cupom", "cancela_cupom"}
  BY Zenon DEF Coupon
<1>3. /\ Planned(Coupon["abre_cupom"]) /\ Planned(Coupon["cancela_cupom"])
  BY <1>1, Zenon DEF Coupon
<1> QED
  BY <1>2, <1>3, Zenon DEF Argued

LEMMA ClosingPlanned ==
  /\ DOMAIN Closing =
         {"inicia_fechamento", "pagamento", "fecha_cupom"}
  /\ \A op \in DOMAIN Closing : op \notin Argued /\ Planned(Closing[op])
<1>1. \A fn \in
       {"IniciaFechamentoCupomMFD", "TerminaFechamentoCupom"} :
       Performs(Call(fn)) /\ Planned(Call(fn))
  BY OwnCalls, Zenon DEF NotOwn, Others, TableReads
<1>2. DOMAIN Closing =
         {"inicia_fechamento", "pagamento", "fecha_cupom"}
  BY Zenon DEF Closing
<1>3. /\ Planned(Closing["inicia_fechamento"])
      /\ Planned(Closing["pagamento"]) /\ Planned(Closing["fecha_cupom"])
  BY <1>1, PaysPlanned, Zenon DEF Closing
<1> QED
  BY <1>2, <1>3, Zenon DEF Argued

LEMMA VoucherPlanned ==
  /\ DOMAIN Voucher =
         {"abre_nfiscal_vinc", "msg_nfiscal_vinc", "fecha_nfiscal_vinc",
          "abre_nfiscal_nvinc"}
  /\ \A op \in DOMAIN Voucher : op \notin Argued /\ Planned(Voucher[op])
<1>1. \A fn \in
       {"AbreComprovanteNaoFiscalVinculado", "UsaComprovanteNaoFiscalVinculado",
        "FechaComprovanteNaoFiscalVinculado", "RecebimentoNaoFiscal"} :
       Performs(Call(fn)) /\ Planned(Call(fn))
  BY OwnCalls, Zenon DEF NotOwn, Others, TableReads
<1>2. Planned(Totals \o Present \o Call("RecebimentoNaoFiscal"))
  BY <1>1, TablesPlanned, OnesPlanned, PrepareBoth, PlanBoth, Zenon
<1>3. DOMAIN Voucher =
         {"abre_nfiscal_vinc", "msg_nfiscal_vinc", "fecha_nfiscal_vinc",
          "abre_nfiscal_nvinc"}
  BY Zenon DEF Voucher
<1>4. /\ Planned(Voucher["abre_nfiscal_vinc"])
      /\ Planned(Voucher["msg_nfiscal_vinc"])
      /\ Planned(Voucher["fecha_nfiscal_vinc"])
      /\ Planned(Voucher["abre_nfiscal_nvinc"])
  BY <1>1, <1>2, Zenon DEF Voucher
<1> QED
  BY <1>3, <1>4, Zenon DEF Argued

LEMMA DevicesPlanned ==
  /\ DOMAIN Devices =
         {"get_max_col", "abre_gaveta", "reducao_z",
          "get_cupom_aberto", "set_arredondamento", "get_imprime_cheques",
          "get_nr_reducoes"}
  /\ \A op \in DOMAIN Devices : op \notin Argued /\ (Planned(Devices[op]) \/ Devices[op] = Reduction)
<1>1. \A fn \in
       {"AcionaGaveta", "VerificaEstadoImpressoraMFD",
        "ProgramaArredondamento", "NumeroReducoes"} :
       Performs(Call(fn)) /\ Planned(Call(fn))
  BY OwnCalls, Zenon DEF NotOwn, Others, TableReads
<1>2. DOMAIN Devices =
         {"get_max_col", "abre_gaveta", "reducao_z",
          "get_cupom_aberto", "set_arredondamento", "get_imprime_cheques",
          "get_nr_reducoes"}
  BY Zenon DEF Devices
<1>3. /\ Planned(Devices["get_max_col"]) /\ Planned(Devices["abre_gaveta"])
      /\ Devices["reducao_z"] = Reduction
      /\ Planned(Devices["get_cupom_aberto"])
      /\ Planned(Devices["set_arredondamento"])
      /\ Planned(Devices["get_imprime_cheques"])
      /\ Planned(Devices["get_nr_reducoes"])
  BY NothingPlanned, PlanEither, <1>1, Zenon DEF Devices, Reduction
<1> QED
  BY <1>2, <1>3, Zenon DEF Argued

LEMMA LastReductionPlanned ==
  /\ DOMAIN LastReduction =
         {"dados_ult_reducao"}
  /\ \A op \in DOMAIN LastReduction : op \notin Argued /\ Planned(LastReduction[op])
<1>1. \A fn \in
       {"DadosUltimaReducaoMFD"} :
       Performs(Call(fn)) /\ Planned(Call(fn))
  BY OwnCalls, Zenon DEF NotOwn, Others, TableReads
<1>2. DOMAIN LastReduction =
         {"dados_ult_reducao"}
  BY Zenon DEF LastReduction
<1>3. Planned(LastReduction["dados_ult_reducao"])
  BY <1>1, Zenon DEF LastReduction
<1> QED
  BY <1>2, <1>3, Zenon DEF Argued

LEMMA RestartsPlanned ==
  /\ DOMAIN Restarts =
         {"get_nr_reinicio"}
  /\ \A op \in DOMAIN Restarts : op \notin Argued /\ Planned(Restarts[op])
<1>1. \A fn \in
       {"NumeroSubstituicoesProprietario"} :
       Performs(Call(fn)) /\ Planned(Call(fn))
  BY OwnCalls, Zenon DEF NotOwn, Others, TableReads
<1>2. DOMAIN Restarts =
         {"get_nr_reinicio"}
  BY Zenon DEF Restarts
<1>3. Planned(Restarts["get_nr_reinicio"])
  BY <1>1, Zenon DEF Restarts
<1> QED
  BY <1>2, <1>3, Zenon DEF Argued

LEMMA ChequesPlanned ==
  /\ DOMAIN Cheques =
         {"set_moeda_singular", "set_moeda_plural", "imprime_cheque"}
  /\ \A op \in DOMAIN Cheques : op \notin Argued /\ Planned(Cheques[op])
<1>1. DOMAIN Cheques =
         {"set_moeda_singular", "set_moeda_plural", "imprime_cheque"}
  BY Zenon DEF Cheques
<1>2. /\ Planned(Cheques["set_moeda_singular"])
      /\ Planned(Cheques["set_moeda_plural"])
      /\ Planned(Cheques["imprime_cheque"])
  BY NothingPlanned, PlanEither, Zenon DEF Cheques
<1> QED
  BY <1>1, <1>2, Zenon DEF Argued

LEMMA ReportPlanned ==
  /\ DOMAIN Report =
         {"abre_rel_gerencial", "get_id_rel_gerencial"}
  /\ \A op \in DOMAIN Report : op \notin Argued /\ Planned(Report[op])
<1>1. \A fn \in
       {"AbreRelatorioGerencialMFD"} :
       Performs(Call(fn)) /\ Planned(Call(fn))
  BY OwnCalls, Zenon DEF NotOwn, Others, TableReads
<1>2. Planned(Reports \o Present \o Call("AbreRelatorioGerencialMFD"))
  BY <1>1, TablesPlanned, OnesPlanned, PrepareBoth, PlanBoth, Zenon
<1>3. DOMAIN Report =
         {"abre_rel_gerencial", "get_id_rel_gerencial"}
  BY Zenon DEF Report
<1>4. /\ Planned(Report["abre_rel_gerencial"])
      /\ Planned(Report["get_id_rel_gerencial"])
  BY <1>2, TablesPlanned, PlanEither, Zenon DEF Report
<1> QED
  BY <1>3, <1>4, Zenon DEF Argued

LEMMA ReportEndsPlanned ==
  /\ DOMAIN ReportEnds =
         {"fecha_rel_gerencial", "set_rel_gerencial", "aciona_guilhotina",
          "corte_auto"}
  /\ \A op \in DOMAIN ReportEnds : op \notin Argued /\ Planned(ReportEnds[op])
<1>1. \A fn \in
       {"FechaRelatorioGerencial", "NomeiaRelatorioGerencialMFD",
        "AcionaGuilhotinaMFD", "AtivaDesativaCorteProximoMFD"} :
       Performs(Call(fn)) /\ Planned(Call(fn))
  BY OwnCalls, Zenon DEF NotOwn, Others, TableReads
<1>2. Planned(Reports \o Absent \o Call("NomeiaRelatorioGerencialMFD"))
  BY <1>1, TablesPlanned, OnesPlanned, PrepareBoth, PlanBoth, Zenon
<1>3. DOMAIN ReportEnds =
         {"fecha_rel_gerencial", "set_rel_gerencial", "aciona_guilhotina",
          "corte_auto"}
  BY Zenon DEF ReportEnds
<1>4. /\ Planned(ReportEnds["fecha_rel_gerencial"])
      /\ Planned(ReportEnds["set_rel_gerencial"])
      /\ Planned(ReportEnds["aciona_guilhotina"])
      /\ Planned(ReportEnds["corte_auto"])
  BY <1>1, <1>2, Zenon DEF ReportEnds
<1> QED
  BY <1>3, <1>4, Zenon DEF Argued

LEMMA QualitiesPlanned ==
  /\ DOMAIN Qualities =
         {"is_termica", "is_paf_compliant", "set_tipo_corte",
          "get_grande_total", "match_conf"}
  /\ \A op \in DOMAIN Qualities : op \notin Argued /\ Planned(Qualities[op])
<1>1. \A fn \in
       {"GrandeTotal"} :
       Performs(Call(fn)) /\ Planned(Call(fn))
  BY OwnCalls, Zenon DEF NotOwn, Others, TableReads
<1>2. DOMAIN Qualities =
         {"is_termica", "is_paf_compliant", "set_tipo_corte",
          "get_grande_total", "match_conf"}
  BY Zenon DEF Qualities
<1>3. /\ Planned(Qualities["is_termica"])
      /\ Planned(Qualities["is_paf_compliant"])
      /\ Planned(Qualities["set_tipo_corte"])
      /\ Planned(Qualities["get_grande_total"])
      /\ Planned(Qualities["match_conf"])
  BY NothingPlanned, PlanEither, <1>1, Zenon DEF Qualities
<1> QED
  BY <1>2, <1>3, Zenon DEF Argued

LEMMA CashPlanned ==
  /\ DOMAIN Cash =
         {"sangria", "suprimento", "set_horario_verao",
          "is_horario_verao"}
  /\ \A op \in DOMAIN Cash : op \notin Argued /\ Planned(Cash[op])
<1>1. \A fn \in
       {"Sangria", "Suprimento",
        "ProgramaHorarioVerao", "FlagsFiscais"} :
       Performs(Call(fn)) /\ Planned(Call(fn))
  BY OwnCalls, Zenon DEF NotOwn, Others, TableReads
<1>2. DOMAIN Cash =
         {"sangria", "suprimento", "set_horario_verao",
          "is_horario_verao"}
  BY Zenon DEF Cash
<1>3. /\ Planned(Cash["sangria"]) /\ Planned(Cash["suprimento"])
      /\ Planned(Cash["set_horario_verao"])
      /\ Planned(Cash["is_horario_verao"])
  BY <1>1, Zenon DEF Cash
<1> QED
  BY <1>2, <1>3, Zenon DEF Argued

LEMMA CountersPlanned ==
  /\ DOMAIN Counters =
         {"pouco_papel", "contador_cupom_fiscal", "contador_tot_naofiscal",
          "contador_credito_debito", "contador_rel_gerenciais"}
  /\ \A op \in DOMAIN Counters : op \notin Argued /\ Planned(Counters[op])
<1>1. \A fn \in
       {"ContadorCupomFiscalMFD", "NumeroOperacoesNaoFiscais",
        "ContadorComprovantesCreditoMFD", "ContadorRelatoriosGerenciaisMFD"} :
       Performs(Call(fn)) /\ Planned(Call(fn))
  BY OwnCalls, Zenon DEF NotOwn, Others, TableReads
<1>2. DOMAIN Counters =
         {"pouco_papel", "contador_cupom_fiscal", "contador_tot_naofiscal",
          "contador_credito_debito", "contador_rel_gerenciais"}
  BY Zenon DEF Counters
<1>3. /\ Planned(Counters["pouco_papel"])
      /\ Planned(Counters["contador_cupom_fiscal"])
      /\ Planned(Counters["contador_tot_naofiscal"])
      /\ Planned(Counters["contador_credito_debito"])
      /\ Planned(Counters["contador_rel_gerenciais"])
  BY NothingPlanned, PlanEither, <1>1, Zenon DEF Counters
<1> QED
  BY <1>2, <1>3, Zenon DEF Argued

LEMMA ReceiptsPlanned ==
  /\ DOMAIN Receipts =
         {"cancela_item", "abre_recibo", "abre_credito_debito",
          "segunda_via_ccd"}
  /\ \A op \in DOMAIN Receipts : op \notin Argued /\ Planned(Receipts[op])
<1>1. \A fn \in
       {"CancelaItemAnterior", "AbreRecebimentoNaoFiscalMFD",
        "AbreComprovanteNaoFiscalVinculadoMFD", "SegundaViaNaoFiscalVinculadoMFD"} :
       Performs(Call(fn)) /\ Planned(Call(fn))
  BY OwnCalls, Zenon DEF NotOwn, Others, TableReads
<1>2. DOMAIN Receipts =
         {"cancela_item", "abre_recibo", "abre_credito_debito",
          "segunda_via_ccd"}
  BY Zenon DEF Receipts
<1>3. /\ Planned(Receipts["cancela_item"])
      /\ Planned(Receipts["abre_recibo"])
      /\ Planned(Receipts["abre_credito_debito"])
      /\ Planned(Receipts["segunda_via_ccd"])
  BY <1>1, Zenon DEF Receipts
<1> QED
  BY <1>2, <1>3, Zenon DEF Argued

LEMMA ReversalsPlanned ==
  /\ DOMAIN Reversals =
         {"reimprime_ccd", "cancela_recibo", "estorna_ccd",
          "reg_nao_fiscal", "lcto_nao_fiscal"}
  /\ \A op \in DOMAIN Reversals : op \notin Argued /\ Planned(Reversals[op])
<1>1. \A fn \in
       {"ReimpressaoNaoFiscalVinculadoMFD", "CancelaRecebimentoNaoFiscalMFD",
        "EstornoNaoFiscalVinculadoMFD", "EfetuaRecebimentoNaoFiscalMFD"} :
       Performs(Call(fn)) /\ Planned(Call(fn))
  BY OwnCalls, Zenon DEF NotOwn, Others, TableReads
<1>2. Planned(Totals \o Present \o Call("EfetuaRecebimentoNaoFiscalMFD"))
  BY <1>1, TablesPlanned, OnesPlanned, PrepareBoth, PlanBoth, Zenon
<1>3. DOMAIN Reversals =
         {"reimprime_ccd", "cancela_recibo", "estorna_ccd",
          "reg_nao_fiscal", "lcto_nao_fiscal"}
  BY Zenon DEF Reversals
<1>4. /\ Planned(Reversals["reimprime_ccd"])
      /\ Planned(Reversals["cancela_recibo"])
      /\ Planned(Reversals["estorna_ccd"])
      /\ Planned(Reversals["reg_nao_fiscal"])
      /\ Planned(Reversals["lcto_nao_fiscal"])
  BY <1>1, <1>2, PaysPlanned, Zenon DEF Reversals
<1> QED
  BY <1>3, <1>4, Zenon DEF Argued

LEMMA ReceiptEndsPlanned ==
  /\ DOMAIN ReceiptEnds =
         {"fecha_recibo", "fecha_ccd", "cancela_nfiscal_pos",
          "nao_fiscal_aberto"}
  /\ \A op \in DOMAIN ReceiptEnds : op \notin Argued /\ Planned(ReceiptEnds[op])
<1>1. \A fn \in
       {"FechaRecebimentoNaoFiscalMFD", "FechaComprovanteNaoFiscalVinculado",
        "EstornoNaoFiscalVinculadoPosteriorMFD", "StatusEstendidoMFD"} :
       Performs(Call(fn)) /\ Planned(Call(fn))
  BY OwnCalls, Zenon DEF NotOwn, Others, TableReads
<1>2. DOMAIN ReceiptEnds =
         {"fecha_recibo", "fecha_ccd", "cancela_nfiscal_pos",
          "nao_fiscal_aberto"}
  BY Zenon DEF ReceiptEnds
<1>3. /\ Planned(ReceiptEnds["fecha_recibo"])
      /\ Planned(ReceiptEnds["fecha_ccd"])
      /\ Planned(ReceiptEnds["cancela_nfiscal_pos"])
      /\ Planned(ReceiptEnds["nao_fiscal_aberto"])
  BY <1>1, Zenon DEF ReceiptEnds
<1> QED
  BY <1>2, <1>3, Zenon DEF Argued

LEMMA ListingsPlanned ==
  /\ DOMAIN Listings =
         {"get_tab_aliq", "get_tab_relger", "get_tab_totcnf",
          "get_tab_fpgto"}
  /\ \A op \in DOMAIN Listings : op \notin Argued /\ Planned(Listings[op])
<1>1. DOMAIN Listings =
         {"get_tab_aliq", "get_tab_relger", "get_tab_totcnf",
          "get_tab_fpgto"}
  BY Zenon DEF Listings
<1>2. /\ Planned(Listings["get_tab_aliq"])
      /\ Planned(Listings["get_tab_relger"])
      /\ Planned(Listings["get_tab_totcnf"])
      /\ Planned(Listings["get_tab_fpgto"])
  BY TablesPlanned, PlanEither, NothingPlanned, Zenon DEF Listings
<1> QED
  BY <1>1, <1>2, Zenon DEF Argued

\* A merged table has the entries of one of its tables.
LEMMA MergedEntry ==
  ASSUME NEW tables, NEW x \in DOMAIN Merged(tables)
  PROVE  \E f \in tables : x \in DOMAIN f /\ Merged(tables)[x] = f[x]
<1>1. \E f \in tables : x \in DOMAIN f
  BY Zenon DEF Merged
<1>2. PICK f \in tables : x \in DOMAIN f /\ f = CHOOSE g \in tables : x \in DOMAIN g
  BY <1>1, Zenon
<1> QED
  BY <1>2, Zenon DEF Merged

OperationTables ==
  {Identity, Numbers, Clock, Status, Entries, Programmed,
   Coupon, Closing, Voucher, Devices, LastReduction, Restarts,
   Cheques, Report, ReportEnds, Qualities, Cash, Counters,
   Receipts, Reversals, ReceiptEnds, Listings}

LEMMA OperationsMerged ==
  /\ \A op \in DOMAIN Operations :
       \E f \in OperationTables : op \in DOMAIN f /\ Operations[op] = f[op]
  /\ \A f \in OperationTables : DOMAIN f \subseteq DOMAIN Operations
<1>1. Operations = Merged(OperationTables)
  BY Zenon DEF Operations, OperationTables
<1>2. \A f \in OperationTables : DOMAIN f \subseteq DOMAIN Merged(OperationTables)
  BY Zenon DEF Merged
<1> QED
  BY <1>1, <1>2, MergedEntry, Zenon

LEMMA OperationsPlanned ==
  \A op \in DOMAIN Operations :
    op \notin Argued /\ (Planned(Operations[op]) \/ Operations[op] = Reduction)
<1> SUFFICES ASSUME NEW op \in DOMAIN Operations
             PROVE  /\ op \notin Argued
                    /\ Planned(Operations[op]) \/ Operations[op] = Reduction
  OBVIOUS
<1>1. PICK f \in OperationTables : op \in DOMAIN f /\ Operations[op] = f[op]
  BY OperationsMerged
<1> QED
  BY <1>1, IdentityPlanned, NumbersPlanned, ClockPlanned, StatusPlanned,
     EntriesPlanned, ProgrammedPlanned, CouponPlanned, ClosingPlanned,
     VoucherPlanned, DevicesPlanned, LastReductionPlanned, RestartsPlanned,
     ChequesPlanned, ReportPlanned, ReportEndsPlanned, QualitiesPlanned,
     CashPlanned, CountersPlanned, ReceiptsPlanned, ReversalsPlanned,
     ReceiptEndsPlanned, ListingsPlanned, Zenon
     DEF OperationTables

-----------------------------------------------------------------------------
(* The commands.                                                           *)

\* The operations that commands ask for.
Known ==
  {"get_nr_usuario", "get_nr_loja", "get_nr_serie", "get_marca",
   "get_modelo", "get_nr_serie_cript", "get_nr_caixa", "get_firmware",
   "get_data_atual", "get_hora_atual", "get_data_mvto",
   "get_data_ult_red", "get_hora_ult_red", "get_status_ecf",
   "get_nr_cupom", "get_id_forma_pgto", "get_totalizador_cnf",
   "get_prox_totalizador", "set_forma_pgto", "set_aliquota",
   "set_totalizador", "abre_cupom", "cancela_cupom", "vende_item",
   "inicia_fechamento", "pagamento", "fecha_cupom", "abre_nfiscal_vinc",
   "msg_nfiscal_vinc", "fecha_nfiscal_vinc", "abre_nfiscal_nvinc",
   "abre_gaveta", "get_max_col", "reducao_z", "get_cupom_aberto",
   "set_arredondamento", "get_imprime_cheques", "get_nr_reducoes",
   "dados_ult_reducao", "leitura_x", "get_nr_reinicio", "memoria_fiscal",
   "set_moeda_singular", "set_moeda_plural", "imprime_cheque",
   "abre_rel_gerencial", "txt_rel_gerencial", "fecha_rel_gerencial",
   "set_rel_gerencial", "aciona_guilhotina", "get_id_rel_gerencial",
   "corte_auto", "is_termica", "is_paf_compliant", "set_tipo_corte",
   "get_grande_total", "match_conf", "sangria", "suprimento",
   "set_horario_verao", "is_horario_verao", "download_mfd", "pouco_papel",
   "contador_cupom_fiscal", "contador_tot_naofiscal",
   "contador_credito_debito", "contador_rel_gerenciais", "cancela_item",
   "abre_recibo", "abre_credito_debito", "segunda_via_ccd",
   "reimprime_ccd", "cancela_recibo", "estorna_ccd", "reg_nao_fiscal",
   "lcto_nao_fiscal", "inicia_fechamento_nao_fiscal", "fecha_recibo",
   "fecha_ccd", "cancela_nfiscal_pos", "abre_gerencial",
   "nao_fiscal_aberto", "converte_mfd", "get_tab_aliq", "get_tab_relger",
   "get_tab_totcnf", "get_tab_fpgto"}

\* Two commands ask for the last reduction, one for a whole report.
Serves(commands) ==
  \A id \in DOMAIN commands :
    /\ commands[id].op \in Known
    /\ id \in {"get_data_ult_red", "get_hora_ult_red"} => commands[id].op = id
    /\ id = "snd_abre_gerencial" => commands[id].op = "abre_gerencial"

LEMMA UsersServe == Serves(Users)
BY SMT DEF Users, Asks, Serves, Known

LEMMA IdentitiesServe == Serves(Identities)
<1>1. DOMAIN Identities \subseteq Known \ {"snd_abre_gerencial"}
  BY SMT DEF Identities, Same, Known
<1>2. \A id \in DOMAIN Identities : Identities[id].op = id
  BY Zenon DEF Identities, Same, Asks
<1> QED
  BY <1>1, <1>2, Zenon DEF Serves

LEMMA ClocksServe == Serves(Clocks)
<1>1. DOMAIN Clocks \subseteq Known \ {"snd_abre_gerencial"}
  BY SMT DEF Clocks, Same, Known
<1>2. \A id \in DOMAIN Clocks : Clocks[id].op = id
  BY Zenon DEF Clocks, Same, Asks
<1> QED
  BY <1>1, <1>2, Zenon DEF Serves

LEMMA StatesServe == Serves(States)
<1>1. DOMAIN States \subseteq Known \ {"snd_abre_gerencial"}
  BY SMT DEF States, Same, Known
<1>2. \A id \in DOMAIN States : States[id].op = id
  BY Zenon DEF States, Same, Asks
<1> QED
  BY <1>1, <1>2, Zenon DEF Serves

LEMMA TableQueriesServe == Serves(TableQueries)
BY SMT DEF TableQueries, Asks, Serves, Known

LEMMA TableSettingsServe == Serves(TableSettings)
BY SMT DEF TableSettings, Asks, Serves, Known

LEMMA SalesServe == Serves(Sales)
BY SMT DEF Sales, Asks, Serves, Known

LEMMA ClosingsServe == Serves(Closings)
BY SMT DEF Closings, Asks, Serves, Known

LEMMA VouchersServe == Serves(Vouchers)
BY SMT DEF Vouchers, Asks, Serves, Known

LEMMA DrawerServe == Serves(Drawer)
BY SMT DEF Drawer, Asks, Serves, Known

LEMMA MachineServe == Serves(Machine)
<1>1. DOMAIN Machine \subseteq Known \ {"snd_abre_gerencial"}
  BY SMT DEF Machine, Same, Known
<1>2. \A id \in DOMAIN Machine : Machine[id].op = id
  BY Zenon DEF Machine, Same, Asks
<1> QED
  BY <1>1, <1>2, Zenon DEF Serves

LEMMA ReadingsServe == Serves(Readings)
<1>1. DOMAIN Readings \subseteq Known \ {"snd_abre_gerencial"}
  BY SMT DEF Readings, Same, Known
<1>2. \A id \in DOMAIN Readings : Readings[id].op = id
  BY Zenon DEF Readings, Same, Asks
<1> QED
  BY <1>1, <1>2, Zenon DEF Serves

LEMMA MemoriesServe == Serves(Memories)
BY SMT DEF Memories, Asks, Serves, Known

LEMMA ChequeCommandsServe == Serves(ChequeCommands)
BY SMT DEF ChequeCommands, Asks, Serves, Known

LEMMA ReportCommandsServe == Serves(ReportCommands)
BY SMT DEF ReportCommands, Asks, Serves, Known

LEMMA QualityCommandsServe == Serves(QualityCommands)
BY SMT DEF QualityCommands, Asks, Serves, Known

LEMMA CashCommandsServe == Serves(CashCommands)
BY SMT DEF CashCommands, Asks, Serves, Known

LEMMA CounterCommandsServe == Serves(CounterCommands)
BY SMT DEF CounterCommands, Asks, Serves, Known

LEMMA ReceiptCommandsServe == Serves(ReceiptCommands)
BY SMT DEF ReceiptCommands, Asks, Serves, Known

LEMMA SettlingCommandsServe == Serves(SettlingCommands)
BY SMT DEF SettlingCommands, Asks, Serves, Known

LEMMA OtherCommandsServe == Serves(OtherCommands)
BY SMT DEF OtherCommands, Asks, Serves, Known

LEMMA ListCommandsServe == Serves(ListCommands)
BY SMT DEF ListCommands, Asks, Serves, Known

CommandTables ==
  {Users, Identities, Clocks, States, TableQueries, TableSettings,
   Sales, Closings, Vouchers, Drawer, Machine, Readings, Memories,
   ChequeCommands, ReportCommands, QualityCommands, CashCommands,
   CounterCommands, ReceiptCommands, SettlingCommands, OtherCommands,
   ListCommands}

LEMMA CommandsServe == Serves(Commands)
<1>1. Commands = Merged(CommandTables)
  BY Zenon DEF Commands, CommandTables
<1>2. \A f \in CommandTables : Serves(f)
  BY UsersServe, IdentitiesServe, ClocksServe, StatesServe,
     TableQueriesServe, TableSettingsServe, SalesServe, ClosingsServe,
     VouchersServe, DrawerServe, MachineServe, ReadingsServe,
     MemoriesServe, ChequeCommandsServe, ReportCommandsServe,
     QualityCommandsServe, CashCommandsServe, CounterCommandsServe,
     ReceiptCommandsServe, SettlingCommandsServe, OtherCommandsServe,
     ListCommandsServe, Zenon
     DEF CommandTables
<1>3. ASSUME NEW id \in DOMAIN Commands
      PROVE  \E f \in CommandTables : id \in DOMAIN f /\ Commands[id] = f[id]
  BY <1>1, MergedEntry, Zenon
<1>4. ASSUME NEW id \in DOMAIN Commands
      PROVE  /\ Commands[id].op \in Known
             /\ id \in {"get_data_ult_red", "get_hora_ult_red"} => Commands[id].op = id
             /\ id = "snd_abre_gerencial" => Commands[id].op = "abre_gerencial"
  <2>1. PICK f \in CommandTables : id \in DOMAIN f /\ Commands[id] = f[id]
    BY <1>3
  <2>2. Serves(f)
    BY <1>2
  <2> QED
    BY <2>1, <2>2, Zenon DEF Serves
<1> QED
  BY <1>4, Zenon DEF Serves

\* The driver has them all.
LEMMA KnownOperations == Known \subseteq DOMAIN Operations \cup Argued
<1>1. \A f \in OperationTables : DOMAIN f \subseteq DOMAIN Operations
  BY OperationsMerged
<1> QED
  BY <1>1, SMT
     DEF Known, Argued, OperationTables, Identity, Numbers, Clock, Status, Entries,
         Programmed, Coupon, Closing, Voucher, Devices, LastReduction, Restarts,
         Cheques, Report, ReportEnds, Qualities, Cash, Counters, Receipts, Reversals,
         ReceiptEnds, Listings

-----------------------------------------------------------------------------
(* The values of a request.                                                *)

Values == Seq(Seq(STRING))

LEMMA GivenType ==
  ASSUME NEW request \in Requests, NEW n
  PROVE  GetParam(request.params, n) \in Values
<1> DEFINE params == request.params
           named == {i \in DOMAIN params : params[i].name = n}
<1>1. params \in Seq([name : STRING, values : Values])
  BY BrokerAssumption DEF Values
<1>2. <<>> \in Values
  BY DEF Values
<1>3. CASE named = {}
  BY <1>2, <1>3, Zenon DEF GetParam, Named
<1>4. CASE named # {}
  <2>1. named \subseteq Nat
    BY <1>1
  <2>2. Min(named) \in named
    BY <1>4, <2>1, MinOf
  <2>3. Min(named) \in 1..Len(params)
    BY <1>1, <2>2
  <2> DEFINE valued == {j \in 1..Min(named) : params[j].values # <<>>}
  <2>4. valued # {} => Max(valued) \in 1..Len(params)
    <3>1. valued \subseteq 0..Min(named) /\ Min(named) \in Nat
      BY <2>3
    <3>2. valued # {} => Max(valued) \in valued
      BY <3>1, MaxOf, Zenon
    <3> QED
      BY <2>3, <3>2
  <2>5. valued # {} => params[Max(valued)].values \in Values
    <3>1. valued # {} => params[Max(valued)] \in [name : STRING, values : Values]
      BY <1>1, <2>4, ElementOfSeq
    <3>2. \A x \in [name : STRING, values : Values] : x.values \in Values
      OBVIOUS
    <3> QED
      BY <3>1, <3>2, Zenon
  <2>6. Copied(params, Min(named)) \in Values
    BY <1>2, <2>5, Zenon DEF Copied
  <2> QED
    BY <1>4, <2>6, Zenon DEF GetParam, Named
<1> QED
  BY <1>3, <1>4

LEMMA ValueType ==
  ASSUME NEW request \in Requests, NEW n
  PROVE  Value(request, n) \in Seq(STRING)
<1>1. GetParam(request.params, n) \in Seq(Seq(STRING))
  BY GivenType, Zenon DEF Values
<1>2. GetParam(request.params, n) # <<>> => Head(GetParam(request.params, n)) \in Seq(STRING)
  BY <1>1, HeadTail, Zenon
<1>3. <<>> \in Seq(STRING)
  OBVIOUS
<1> QED
  BY <1>2, <1>3, Zenon DEF Value, Given, GetParamValue

LEMMA TextoType ==
  ASSUME NEW values \in Values
  PROVE  Texto(values) \in Seq(STRING)
<1>1. Lines(values) \subseteq 1..Len(values) /\ Len(values) \in Nat
  BY DEF Lines, Values
<1>2. IsFiniteSet(1..Len(values)) /\ Cardinality(1..Len(values)) = Len(values)
  <2>1. /\ IsFiniteSet(1..Len(values))
        /\ Cardinality(1..Len(values)) = IF 1 > Len(values) THEN 0 ELSE Len(values) - 1 + 1
    BY <1>1, FS_Interval
  <2> QED
    BY <1>1, <2>1
<1>3. Cardinality(Lines(values)) \in 0..Len(values)
  <2>1. IsFiniteSet(Lines(values)) /\ Cardinality(Lines(values)) <= Len(values)
    BY <1>1, <1>2, FS_Subset
  <2>2. Cardinality(Lines(values)) \in Nat
    BY <2>1, FS_CardinalityType
  <2> QED
    BY <1>1, <2>1, <2>2
<1>4. SubSeq(values, 1, Cardinality(Lines(values))) \in Seq(Seq(STRING))
  BY <1>3 DEF Values
<1> QED
  BY <1>4, FlattenType, Zenon DEF Texto

-----------------------------------------------------------------------------
(* Printing a text.                                                        *)

PrintNames == {"UsaRelatorioGerencialMFD", "AcionaGuilhotinaMFD"}
Prints == [fn : PrintNames, text : Seq(STRING)]

LEMMA PrintsPlanned == \A p \in Seq(Prints) : Performs(p)
<1> SUFFICES ASSUME NEW p \in Seq(Prints) PROVE Performs(p)
  OBVIOUS
<1>1. \A s \in Prints : s.fn \in PrintNames
  BY DEF Prints
<1>2. \A fn \in PrintNames :
        fn \notin TableReads \cup {"read", "suppress", "ReducaoZ"}
  BY Zenon DEF PrintNames, TableReads
<1>3. Fits(Prints) /\ WithoutReduction(Prints)
  BY <1>1, <1>2, Zenon DEF Fits, WithoutReduction
<1>4. Prints \subseteq Tells(Prints)
  BY <1>1, <1>2, Zenon DEF Tells
<1>5. p \in Seq(Tells(Prints))
  BY <1>4, SeqMono, Zenon
<1> QED
  BY <1>3, <1>5, Zenon DEF Performs

\* The number of pieces, and the bounds of each.
LEMMA SizePositive == LineSize \in Nat /\ LineSize > 0
BY DriverAssumption

LEMMA PieceBounds ==
  ASSUME NEW n \in Nat, NEW i \in 1..Pieces(n)
  PROVE  /\ Pieces(n) \in Nat
         /\ (i - 1) * LineSize \in Nat /\ (i - 1) * LineSize + 1 <= n
         /\ i * LineSize = (i - 1) * LineSize + LineSize
         /\ Min({i * LineSize, n}) \in {i * LineSize, n}
         /\ Min({i * LineSize, n}) <= n /\ Min({i * LineSize, n}) <= i * LineSize
<1> DEFINE L == LineSize
           q == (n + L - 1) \div L
<1>0. L \in Nat /\ L > 0
  BY SizePositive
<1> HIDE DEF L
<1>1. n + L - 1 \in Nat /\ q \in Nat /\ q * L <= n + L - 1
  BY <1>0
<1>2. i \in 1..q
  BY Zenon DEF Pieces, L
<1>3. i * L <= q * L /\ (i - 1) * L \in Nat /\ i * L = (i - 1) * L + L /\ i * L \in Nat
  BY <1>0, <1>1, <1>2
<1>4. (i - 1) * L + 1 <= n
  BY <1>0, <1>1, <1>3
<1>5. {i * L, n} \subseteq Nat /\ {i * L, n} # {}
  BY <1>3
<1>6. Min({i * L, n}) \in {i * L, n} /\ \A y \in {i * L, n} : Min({i * L, n}) <= y
  BY <1>5, MinOf, Zenon
<1> QED
  BY <1>1, <1>3, <1>4, <1>6 DEF L, Pieces

LEMMA PieceText ==
  ASSUME NEW msg \in Seq(STRING), NEW i \in 1..Pieces(Len(msg))
  PROVE  /\ Piece(msg, i) \in Prints
         /\ Piece(msg, i).text =
              SubSeq(msg, (i - 1) * LineSize + 1, Min({i * LineSize, Len(msg)}))
<1> DEFINE from == (i - 1) * LineSize + 1
           to == Min({i * LineSize, Len(msg)})
<1>1. Len(msg) \in Nat
  OBVIOUS
<1>2. /\ (i - 1) * LineSize \in Nat /\ from <= Len(msg) /\ to <= Len(msg)
      /\ i * LineSize = (i - 1) * LineSize + LineSize /\ to \in {i * LineSize, Len(msg)}
  BY <1>1, PieceBounds
<1>3. from \in Nat \ {0} /\ to \in Nat
  BY <1>1, <1>2, SizePositive
<1> HIDE DEF from, to
<1>4. SubSeq(msg, from, to) \in Seq(STRING)
  BY <1>2, <1>3
<1>5. Step("UsaRelatorioGerencialMFD", SubSeq(msg, from, to)) \in Prints
  BY <1>4 DEF Step, Prints, PrintNames
<1> QED
  BY <1>5, StepParts, Zenon DEF Piece, from, to

LEMMA TxtRelType ==
  \A msg \in Seq(STRING) :
    /\ TxtRelGerencial(msg) \in Seq(Prints)
    /\ Len(TxtRelGerencial(msg)) = Pieces(Len(msg))
<1> SUFFICES ASSUME NEW msg \in Seq(STRING)
             PROVE  /\ TxtRelGerencial(msg) \in Seq(Prints)
                    /\ Len(TxtRelGerencial(msg)) = Pieces(Len(msg))
  OBVIOUS
<1>1. Pieces(Len(msg)) \in Nat
  <2>1. Len(msg) \in Nat /\ LineSize \in Nat /\ LineSize > 0
    BY SizePositive
  <2> QED
    BY <2>1 DEF Pieces
<1>2. \A i \in 1..Pieces(Len(msg)) : Piece(msg, i) \in Prints
  BY PieceText
<1> HIDE DEF Prints
<1> QED
  BY <1>1, <1>2 DEF TxtRelGerencial

LEMMA CutType == Call("AcionaGuilhotinaMFD") \in Seq(Prints)
<1>1. <<>> \in Seq(STRING)
  OBVIOUS
<1>2. Step("AcionaGuilhotinaMFD", <<>>) \in Prints
  BY <1>1 DEF Step, Prints, PrintNames
<1> QED
  BY <1>2 DEF Call

\* The last tag before i is before i, and no tag is between.
LEMMA LastTagBefore ==
  ASSUME NEW msg \in Seq(STRING), NEW i \in 1..(Len(msg) + 1)
  PROVE  /\ LastTag(msg, i) \in 0..(i - 1)
         /\ LastTag(msg, i) # 0 => LastTag(msg, i) \in Tags(msg)
         /\ \A j \in Tags(msg) : j < i => j <= LastTag(msg, i)
<1> DEFINE S == {0} \cup {j \in Tags(msg) : j < i}
<1>1. Tags(msg) \subseteq 1..Len(msg) /\ Len(msg) \in Nat
  BY DEF Tags
<1>2. S \subseteq 0..(i - 1) /\ S # {} /\ i - 1 \in Nat
  BY <1>1
<1>3. Max(S) \in S /\ \A y \in S : y <= Max(S)
  BY <1>2, MaxOf, Zenon
<1>4. LastTag(msg, i) = Max(S)
  BY Zenon DEF LastTag
<1> HIDE DEF S
<1>5. LastTag(msg, i) \in 0..(i - 1)
  BY <1>2, <1>3, <1>4
<1> QED
  BY <1>3, <1>4, <1>5, Zenon DEF S

LEMMA PartType ==
  ASSUME NEW msg \in Seq(STRING), NEW i \in 1..(Len(msg) + 1)
  PROVE  Part(msg, i) \in Seq(Prints)
<1>1. LastTag(msg, i) \in 0..(i - 1)
  BY LastTagBefore
<1>2. SubSeq(msg, LastTag(msg, i) + 1, i - 1) \in Seq(STRING)
  BY <1>1
<1>3. TxtRelGerencial(SubSeq(msg, LastTag(msg, i) + 1, i - 1)) \in Seq(Prints)
  BY <1>2, TxtRelType, Zenon
<1>4. <<>> \in Seq(Prints)
  OBVIOUS
<1>5. \A a, b \in Seq(Prints) : a \o b \in Seq(Prints)
  OBVIOUS
<1> QED
  BY <1>3, <1>4, <1>5, CutType, Zenon DEF Part

LEMMA TaggedType ==
  ASSUME NEW msg \in Seq(STRING)
  PROVE  /\ TxtTagged(msg) \in Seq(Prints)
         /\ [i \in 1..(Len(msg) + 1) |-> Part(msg, i)] \in Seq(Seq(Prints))
<1>1. Len(msg) + 1 \in Nat
  OBVIOUS
<1>2. \A i \in 1..(Len(msg) + 1) : Part(msg, i) \in Seq(Prints)
  BY PartType
<1>3. [i \in 1..(Len(msg) + 1) |-> Part(msg, i)] \in Seq(Seq(Prints))
  <2> DEFINE X == Seq(Prints)
             n == Len(msg) + 1
  <2>1. \A i \in 1..n : Part(msg, i) \in X
    BY <1>2
  <2>2. n \in Nat
    BY <1>1
  <2> HIDE DEF X, n
  <2>3. [i \in 1..n |-> Part(msg, i)] \in Seq(X)
    BY <2>1, <2>2
  <2> QED
    BY <2>3 DEF X, n
<1> QED
  BY <1>3, FlattenType, Zenon DEF TxtTagged

-----------------------------------------------------------------------------
(* From a request to its steps.                                            *)

\* The two operations that a whole report begins and ends with.
LEMMA ReportOperations ==
  /\ Operations["abre_rel_gerencial"] =
       Reports \o Present \o Call("AbreRelatorioGerencialMFD")
  /\ Operations["fecha_rel_gerencial"] = Call("FechaRelatorioGerencial")
<1>1. {"abre_rel_gerencial", "fecha_rel_gerencial"} \subseteq DOMAIN Operations
  <2>1. \A f \in OperationTables : DOMAIN f \subseteq DOMAIN Operations
    BY OperationsMerged
  <2>2. DOMAIN Report \cup DOMAIN ReportEnds \subseteq DOMAIN Operations
    BY <2>1, Zenon DEF OperationTables
  <2> QED
    BY <2>2, ReportPlanned, ReportEndsPlanned, Zenon
<1>2. \A f \in OperationTables :
        /\ "abre_rel_gerencial" \in DOMAIN f => f = Report
        /\ "fecha_rel_gerencial" \in DOMAIN f => f = ReportEnds
  <2> DEFINE Without(ops) == "abre_rel_gerencial" \notin ops /\ "fecha_rel_gerencial" \notin ops
  <2>1. /\ Without(DOMAIN Identity) /\ Without(DOMAIN Numbers)
        /\ Without(DOMAIN Clock) /\ Without(DOMAIN Status)
        /\ Without(DOMAIN Entries) /\ Without(DOMAIN Programmed)
        /\ Without(DOMAIN Coupon) /\ Without(DOMAIN Closing)
        /\ Without(DOMAIN Voucher) /\ Without(DOMAIN Devices)
        /\ Without(DOMAIN LastReduction) /\ Without(DOMAIN Restarts)
        /\ Without(DOMAIN Cheques) /\ Without(DOMAIN Qualities)
        /\ Without(DOMAIN Cash) /\ Without(DOMAIN Counters)
        /\ Without(DOMAIN Receipts) /\ Without(DOMAIN Reversals)
        /\ Without(DOMAIN ReceiptEnds) /\ Without(DOMAIN Listings)
    BY SMT
       DEF Identity, Numbers, Clock, Status, Entries, Programmed, Coupon, Closing,
           Voucher, Devices, LastReduction, Restarts, Cheques, Qualities, Cash,
           Counters, Receipts, Reversals, ReceiptEnds, Listings
  <2>2. "abre_rel_gerencial" \notin DOMAIN ReportEnds /\ "fecha_rel_gerencial" \notin DOMAIN Report
    BY ReportPlanned, ReportEndsPlanned, Zenon
  <2> QED
    BY <2>1, <2>2, Zenon DEF OperationTables
<1>3. /\ Operations["abre_rel_gerencial"] = Report["abre_rel_gerencial"]
      /\ Operations["fecha_rel_gerencial"] = ReportEnds["fecha_rel_gerencial"]
  BY <1>1, <1>2, OperationsMerged, Zenon
<1>4. /\ Report["abre_rel_gerencial"] =
           Reports \o Present \o Call("AbreRelatorioGerencialMFD")
      /\ ReportEnds["fecha_rel_gerencial"] = Call("FechaRelatorioGerencial")
  BY Zenon DEF Report, ReportEnds
<1> QED
  BY <1>3, <1>4

LEMMA RatePlanned == \A v : Prepares(Aliquota(v))
BY OnesPlanned, NothingPlanned, Zenon DEF Aliquota

LEMMA RateSettingPlanned == \A v : Planned(SetAliquota(v))
<1>1. Performs(Call("ProgramaAliquota"))
  BY OwnCalls, Zenon DEF NotOwn, Others, TableReads
<1> QED
  BY <1>1, RatePlanned, TablesPlanned, OnesPlanned, PrepareBoth, PlanBoth, Zenon
     DEF SetAliquota

LEMMA SalePlanned == \A descr, aliq : Planned(VendeItem(descr, aliq))
<1> SUFFICES ASSUME NEW descr, NEW aliq PROVE Planned(VendeItem(descr, aliq))
  OBVIOUS
<1>1. Performs(Call("VendeItem")) /\ Performs(Call("AumentaDescricaoItem"))
  BY OwnCalls, Zenon DEF NotOwn, Others, TableReads
<1> DEFINE looked == IF aliq # <<>> /\ aliq[1] \in Exempt THEN <<>> ELSE Rates \o Present
           long == IF Len(descr) > DescrSize THEN Call("AumentaDescricaoItem") ELSE <<>>
<1>2. Prepares(looked)
  BY TablesPlanned, OnesPlanned, NothingPlanned, PrepareBoth, Zenon
<1>3. Performs(long)
  BY <1>1, NothingPlanned, Zenon
<1>4. VendeItem(descr, aliq) = Aliquota(aliq) \o looked \o long \o Call("VendeItem")
  BY Zenon DEF VendeItem
<1> HIDE DEF looked, long
<1>5. Prepares(Aliquota(aliq) \o looked)
  BY <1>2, RatePlanned, PrepareBoth, Zenon
<1>6. Planned(Aliquota(aliq) \o looked \o long)
  BY <1>3, <1>5, PlanBoth, Zenon
<1>7. Planned(Aliquota(aliq) \o looked \o long \o Call("VendeItem"))
  BY <1>1, <1>6, PlanFrom, Zenon
<1> QED
  BY <1>4, <1>7

LEMMA MemoryPlanned ==
  \A tipo, ini, fim, saida : Planned(MemoriaFiscal(tipo, ini, fim, saida))
<1> SUFFICES ASSUME NEW tipo, NEW ini, NEW fim, NEW saida
             PROVE  Planned(MemoriaFiscal(tipo, ini, fim, saida))
  OBVIOUS
<1> DEFINE short == IF Short(ini) \/ Short(fim) THEN Escape ELSE <<>>
           dated == IF saida = <<"serial">>
                    THEN Call("LeituraMemoriaFiscalSerialDataMFD") \o Found
                    ELSE Call("LeituraMemoriaFiscalDataMFD")
           counted == IF saida = <<"serial">>
                      THEN Call("LeituraMemoriaFiscalSerialReducaoMFD") \o Found
                      ELSE Call("LeituraMemoriaFiscalReducaoMFD")
<1>1. \A fn \in {"LeituraMemoriaFiscalSerialDataMFD", "LeituraMemoriaFiscalDataMFD",
                 "LeituraMemoriaFiscalSerialReducaoMFD",
                 "LeituraMemoriaFiscalReducaoMFD"} : Performs(Call(fn))
  BY OwnCalls, Zenon DEF NotOwn, Others, TableReads
<1>2. Performs(dated) /\ Performs(counted)
  BY <1>1, OnesPlanned, PerformBoth, Zenon
<1>3. Prepares(short)
  BY OnesPlanned, NothingPlanned, Zenon
<1>4. MemoriaFiscal(tipo, ini, fim, saida) \in {short \o dated, counted}
  BY Zenon DEF MemoriaFiscal
<1> HIDE DEF short, dated, counted
<1> QED
  BY <1>2, <1>3, <1>4, PlanBoth, PlanEither, Zenon

LEMMA ReadingsPlanned ==
  /\ \A saida : Planned(LeituraX(saida))
  /\ Planned(DownloadMfd)
  /\ \A own : Planned(ConverteMfd(own))
  /\ \A tipo : Planned(IniciaFechamentoNaoFiscal(tipo))
  /\ Planned(UltRed)
<1>1. \A fn \in {"LeituraXSerial", "LeituraX", "DownloadMFD", "FormatoDadosMFD",
                 "IniciaFechamentoRecebimentoNaoFiscalMFD", "DataHoraReducao"} :
        Performs(Call(fn)) /\ Planned(Call(fn))
  BY OwnCalls, Zenon DEF NotOwn, Others, TableReads
<1>2. \A fn \in {"LeituraXSerial", "DownloadMFD", "FormatoDadosMFD"} :
        Planned(Call(fn) \o Found)
  BY <1>1, OnesPlanned, PerformBoth, PlanEither, Zenon
<1>3. Planned(Throw) /\ Planned(<<>>)
  BY OnesPlanned, NothingPlanned, PlanEither, Zenon
<1>4. \A tipo : Planned(IniciaFechamentoNaoFiscal(tipo))
  BY <1>1, OnesPlanned, NothingPlanned, PlanBoth, Zenon DEF IniciaFechamentoNaoFiscal
<1> QED
  BY <1>1, <1>2, <1>3, <1>4, Zenon DEF LeituraX, DownloadMfd, ConverteMfd, UltRed

\* The message of a report, and its steps.
MessageOf(request) == Texto(GetParam(request.params, "mensagem"))
LEMMA MessageType ==
  ASSUME NEW request \in Requests
  PROVE  /\ MessageOf(request) \in Seq(STRING)
         /\ TxtTagged(MessageOf(request)) \in Seq(Prints)
<1>1. MessageOf(request) \in Seq(STRING)
  BY GivenType, TextoType, Zenon DEF MessageOf
<1> QED
  BY <1>1, TaggedType

LEMMA TextsPlanned ==
  ASSUME NEW request \in Requests
  PROVE  /\ Planned(TxtRelGerencial(Value(request, "mensagem")))
         /\ Planned(AbreGerencial(request))
<1>1. Planned(TxtRelGerencial(Value(request, "mensagem")))
  BY ValueType, TxtRelType, PrintsPlanned, PlanEither, Zenon
<1> DEFINE opens == Operations["abre_rel_gerencial"]
           prints == IF ~Given(request, "mensagem") THEN Throw
                     ELSE TxtTagged(MessageOf(request))
           ends == Operations["fecha_rel_gerencial"]
<1>2. Performs(Call("AbreRelatorioGerencialMFD")) /\ Performs(Call("FechaRelatorioGerencial"))
  BY OwnCalls, Zenon DEF NotOwn, Others, TableReads
<1>3. Planned(opens) /\ Performs(ends)
  BY <1>2, ReportOperations, TablesPlanned, OnesPlanned, PrepareBoth, PlanBoth, Zenon
<1>4. Performs(prints)
  BY MessageType, PrintsPlanned, OnesPlanned, Zenon
<1>5. AbreGerencial(request) = opens \o prints \o ends
  BY Zenon DEF AbreGerencial, MessageOf
<1> HIDE DEF opens, prints, ends
<1>6. Planned(opens \o prints \o ends)
  BY <1>3, <1>4, PlanFrom, Zenon
<1> QED
  BY <1>1, <1>5, <1>6

\* A plan, but for payments that may be suppressed and the reduction.
IsPlan(p) ==
  \/ Planned(p)
  \/ p = Reduction
  \/ \E q : Planned(q) /\ p = UnlessSuppressed \o q

LEMMA OwnOperations == \A op \in DOMAIN Cv0909Operations : IsPlan(Cv0909Operations[op])
<1>1. \A fn \in {"SubTotalizaCupomMFD", "AcrescimoDescontoSubtotal",
                 "TotalizaCupomMFD", "AbreComprovanteNaoFiscalVinculado"} :
        Performs(Call(fn))
  BY OwnCalls, Zenon DEF NotOwn, Others, TableReads
<1>2. Planned(Call("SubTotalizaCupomMFD") \o Call("AcrescimoDescontoSubtotal")
              \o Call("TotalizaCupomMFD"))
  BY <1>1, PerformBoth, PlanEither, Zenon
<1>3. Planned(Forms \o Present \o Call("AbreComprovanteNaoFiscalVinculado"))
  BY <1>1, TablesPlanned, OnesPlanned, PrepareBoth, PlanBoth, Zenon
<1>4. DOMAIN Cv0909Operations =
        {"inicia_fechamento", "pagamento", "lcto_nao_fiscal", "abre_credito_debito"}
  BY Zenon DEF Cv0909Operations
<1>5. /\ IsPlan(Cv0909Operations["inicia_fechamento"])
      /\ IsPlan(Cv0909Operations["abre_credito_debito"])
  BY <1>2, <1>3, Zenon DEF Cv0909Operations, IsPlan
<1>6. /\ Cv0909Operations["pagamento"] = UnlessSuppressed \o Pays
      /\ Cv0909Operations["lcto_nao_fiscal"] = UnlessSuppressed \o Pays
  BY Zenon DEF Cv0909Operations
<1> QED
  BY <1>4, <1>5, <1>6, PaysPlanned, Zenon DEF IsPlan

LEMMA StepsPlanned ==
  ASSUME NEW request \in Requests, NEW op \in DOMAIN Operations \cup Argued
  PROVE  IsPlan(Steps(request, op))
<1>1. CASE op \in DOMAIN Operations
  <2>1. op \notin Argued /\ IsPlan(DriverOperation(op))
    BY <1>1, OperationsPlanned, OwnOperations, Zenon DEF DriverOperation, IsPlan
  <2>2. Steps(request, op) = DriverOperation(op)
    BY <1>1, <2>1, Zenon DEF Steps, Argued
  <2> QED
    BY <2>1, <2>2
<1>2. CASE op \notin DOMAIN Operations
  <2>1. op \in Argued
    BY <1>2
  <2>2. Planned(Steps(request, op))
    BY <1>2, <2>1, RateSettingPlanned, SalePlanned, MemoryPlanned, ReadingsPlanned,
       TextsPlanned, Zenon DEF Steps, Argued
  <2> QED
    BY <2>2 DEF IsPlan
<1> QED
  BY <1>1, <1>2

LEMMA ProgramPlanned == \A request \in Requests : IsPlan(Program(request))
<1> SUFFICES ASSUME NEW request \in Requests PROVE IsPlan(Program(request))
  OBVIOUS
<1>1. IsPlan(Throw)
  BY OnesPlanned, PlanEither, Zenon DEF IsPlan
<1>2. Complete(request) => Commands[request.id].op \in DOMAIN Operations \cup Argued
  BY CommandsServe, KnownOperations, Zenon DEF Complete, tag_enum, Serves
<1> QED
  BY <1>1, <1>2, StepsPlanned, Zenon DEF Program

-----------------------------------------------------------------------------
(* What was done, and what is still to do, are what was asked.             *)

\* The calls of the command's own.
Told(seq) == Sent(seq, Others \cup TableReads)

\* Steps that come before those calls, calls that may have been made.
Ahead(T) == {s \in T : s.fn \in Others \cup TableReads}
Made(T) == {s \in T : s.fn \notin Others}

\* While the operation goes on nothing was left out, and the readings of tables
\* are over when the first call of the command's own has been carried out.
Followed(T) ==
  /\ Fits(T)
  /\ done \in Seq(Made(T))
  /\ \E a \in Seq(Ahead(T)), b \in Seq(Tells(T)) : todo = a \o b
  /\ Told(done) \o Told(todo) = Told(plan)
  /\ Told(done) # <<>> => todo \in Seq(Tells(T))
Doubtful == \E q : Planned(q) /\ todo = UnlessSuppressed \o q /\ plan = todo /\ done = <<>>
LetPass == todo = <<>> /\ done = <<>> /\ Head(plan).fn = "suppress"
Doing ==
  ~Answered /\ cmd # Idle /\ ~Swallowed
    => /\ (\E T : Followed(T)) \/ Doubtful \/ LetPass
       /\ Sent(plan, Others) = Told(plan)
Resting == cmd = Idle => todo = <<>> /\ done = <<>> /\ ~Answered

\* What m_stsmsg may hold.
StatusTexts == StatusMessages \cup {""}

\* The last part says what OkMeansDone and ErrorMeansUndone say.
DoneInv ==
  /\ paper \in {"ok", "low", "out"} /\ m_stsmsg \in StatusTexts
  /\ Resting
  /\ Doing
  /\ OkMeansDone /\ ErrorMeansUndone

\* In a plan no table is read by a call of the command's own.
LEMMA PlannedTells ==
  \A p : Planned(p) =>
    \E T : /\ Fits(T)
           /\ \E a \in Seq(Ahead(T)), b \in Seq(Tells(T)) : p = a \o b
           /\ Sent(p, Others) = Told(p) /\ p \in Seq(T)
<1> SUFFICES ASSUME NEW p, NEW T, Fits(T), NEW a \in Seq(Tests(T)), NEW b \in Seq(Tells(T)),
                    p = a \o b
             PROVE  /\ \E c \in Seq(Ahead(T)), d \in Seq(Tells(T)) : p = c \o d
                    /\ Sent(p, Others) = Told(p) /\ p \in Seq(T)
  BY Zenon DEF Planned
<1>1. Tests(T) \subseteq Ahead(T) /\ Tests(T) \subseteq T /\ Tells(T) \subseteq T
  BY Zenon DEF Tests, Ahead, Tells
<1>2. a \in Seq(Ahead(T)) /\ a \in Seq(T) /\ b \in Seq(T)
  BY <1>1, SeqMono, Zenon
<1>3. Sent(a, Others) = <<>> /\ Told(a) = <<>>
  BY SentNone, Zenon DEF Tests, Told
<1>4. Sent(b, Others) = Told(b)
  <2>1. \A s \in Tells(T) : s.fn \in Others <=> s.fn \in Others \cup TableReads
    BY Zenon DEF Tells
  <2> QED
    BY <2>1, SentSame DEF Told
<1>5. Sent(p, Others) = Sent(a, Others) \o Sent(b, Others) /\ Told(p) = Told(a) \o Told(b)
  <2>1. \A fns : Sent(a \o b, fns) = Sent(a, fns) \o Sent(b, fns)
    BY <1>2, SentConcat, Zenon
  <2> QED
    BY <2>1, Zenon DEF Told
<1>6. p \in Seq(T)
  BY <1>2
<1> QED
  BY <1>2, <1>3, <1>4, <1>5, <1>6, Zenon

LEMMA ReductionTells ==
  \E T : Fits(T) /\ Reduction \in Seq(T) /\ T = Tells(T)
<1> DEFINE T == {Step("ReducaoZ", <<>>), Step("empty", <<>>)}
<1>1. \A s \in T : s.fn \in {"ReducaoZ", "empty"}
  BY StepParts, Zenon
<1>2. \A fn \in {"ReducaoZ", "empty"} : fn \notin TableReads \cup {"read", "suppress"}
  BY Zenon DEF TableReads
<1>3. Fits(T) /\ T = Tells(T)
  BY <1>1, <1>2, Zenon DEF Fits, Tells
<1>4. Reduction \in Seq(T)
  BY DEF Reduction, Call, Emptied
<1> QED
  BY <1>3, <1>4, Zenon

\* A payment that may be suppressed tells what it would without.
LEMMA SuppressedTells ==
  \A q : (\E T : q \in Seq(T)) =>
    /\ Sent(UnlessSuppressed \o q, Others) = Sent(q, Others)
    /\ Told(UnlessSuppressed \o q) = Told(q)
    /\ UnlessSuppressed \o q # <<>>
    /\ Head(UnlessSuppressed \o q).fn = "suppress" /\ Tail(UnlessSuppressed \o q) = q
<1> SUFFICES ASSUME NEW q, NEW T, q \in Seq(T)
             PROVE  /\ Sent(UnlessSuppressed \o q, Others) = Sent(q, Others)
                    /\ Told(UnlessSuppressed \o q) = Told(q)
                    /\ UnlessSuppressed \o q # <<>>
                    /\ Head(UnlessSuppressed \o q).fn = "suppress"
                    /\ Tail(UnlessSuppressed \o q) = q
  OBVIOUS
<1> DEFINE s == Step("suppress", <<>>)
           p == <<s>> \o q
           U == T \cup {s}
<1>1. s.fn = "suppress"
  BY StepParts
<1> HIDE DEF s
<1>2. p \in Seq(U) /\ p # <<>> /\ Head(p) = s /\ Tail(p) = q
  OBVIOUS
<1> HIDE DEF p
<1>3. "suppress" \in Others
  BY Zenon DEF Others
<1>4. Sent(p, Others) = <<>> \o Sent(q, Others) /\ Told(p) = <<>> \o Told(q)
  BY <1>1, <1>2, <1>3, SentHead, Zenon DEF Told, One
<1>5. Sent(q, Others) \in Seq(T) /\ Told(q) \in Seq(T)
  BY SentType, Zenon DEF Told
<1>6. <<>> \o Sent(q, Others) = Sent(q, Others) /\ <<>> \o Told(q) = Told(q)
  BY <1>5
<1> QED
  BY <1>1, <1>2, <1>4, <1>6 DEF p, s, UnlessSuppressed

\* What a command begins with.
LEMMA Begun ==
  ASSUME NEW p, IsPlan(p), todo' = p, plan' = p, done' = <<>>
  PROVE  /\ (\E T : Followed(T)') \/ Doubtful'
         /\ Sent(plan, Others)' = Told(plan)'
<1>1. Told(<<>>) = <<>> /\ \A T : <<>> \in Seq(Made(T))
  BY SentEmpty DEF Told
<1>2. \A T : p \in Seq(T) => Told(<<>>) \o Told(p) = Told(p)
  <2> SUFFICES ASSUME NEW T, p \in Seq(T) PROVE <<>> \o Told(p) = Told(p)
    BY <1>1, Zenon
  <2>1. Told(p) \in Seq(T)
    BY SentType, Zenon DEF Told
  <2> QED
    BY <2>1
<1>3. /\ Told(done)' = Told(<<>>) /\ Told(todo)' = Told(p) /\ Told(plan)' = Told(p)
      /\ Sent(plan, Others)' = Sent(p, Others)
  BY DEF Told
<1>4. CASE Planned(p)
  <2>1. PICK T : /\ Fits(T) /\ Sent(p, Others) = Told(p) /\ p \in Seq(T)
                 /\ \E a \in Seq(Ahead(T)), b \in Seq(Tells(T)) : p = a \o b
    BY <1>4, PlannedTells
  <2>2. Followed(T)'
    BY <2>1, <1>1, <1>2, <1>3 DEF Followed
  <2> QED
    BY <2>1, <2>2, <1>3
<1>5. CASE p = Reduction
  <2>1. PICK T : Fits(T) /\ p \in Seq(T) /\ T = Tells(T)
    BY <1>5, ReductionTells
  <2>2. Sent(p, Others) = Told(p)
    <3>1. \A s \in T : s.fn \in Others <=> s.fn \in Others \cup TableReads
      BY <2>1, Zenon DEF Tells
    <3> QED
      BY <2>1, <3>1, SentSame DEF Told
  <2>3. \E a \in Seq(Ahead(T)), b \in Seq(Tells(T)) : p = a \o b
    <3>1. <<>> \in Seq(Ahead(T)) /\ p = <<>> \o p
      BY <2>1
    <3> QED
      BY <2>1, <3>1, Zenon
  <2>4. Followed(T)'
    BY <2>1, <2>3, <1>1, <1>2, <1>3 DEF Followed
  <2> QED
    BY <2>2, <2>4, <1>3
<1>6. CASE \E q : Planned(q) /\ p = UnlessSuppressed \o q
  <2>1. PICK q : Planned(q) /\ p = UnlessSuppressed \o q
    BY <1>6
  <2>2. PICK T : Sent(q, Others) = Told(q) /\ q \in Seq(T)
    BY <2>1, PlannedTells
  <2>3. Sent(p, Others) = Told(p)
    BY <2>1, <2>2, SuppressedTells, Zenon
  <2>4. Doubtful'
    BY <2>1, Zenon DEF Doubtful
  <2> QED
    BY <2>3, <2>4, <1>3
<1> QED
  BY <1>4, <1>5, <1>6 DEF IsPlan

LEMMA ToldConcat ==
  ASSUME NEW T
  PROVE  \A s, t \in Seq(T) : Told(s \o t) = Told(s) \o Told(t)
<1>1. \A s, t \in Seq(T) : Sent(s \o t, Others \cup TableReads) =
        Sent(s, Others \cup TableReads) \o Sent(t, Others \cup TableReads)
  BY SentConcat, Zenon
<1> QED
  BY <1>1, Zenon DEF Told

\* What an operation that goes on is made of.
LEMMA FollowedParts ==
  ASSUME NEW T, Followed(T), todo # <<>>
  PROVE  /\ todo \in Seq(T) /\ done \in Seq(T) /\ Head(todo) \in T
         /\ \E a \in Seq(Ahead(T)), b \in Seq(Tells(T)) : Tail(todo) = a \o b
         /\ todo \in Seq(Tells(T)) =>
              Head(todo) \in Tells(T) /\ Tail(todo) \in Seq(Tells(T))
         /\ Told(todo) = Told(<<Head(todo)>>) \o Told(Tail(todo))
         /\ Told(done) \in Seq(T) /\ Told(Tail(todo)) \in Seq(T)
<1>1. PICK a \in Seq(Ahead(T)), b \in Seq(Tells(T)) : todo = a \o b
  BY Zenon DEF Followed
<1>2. Ahead(T) \subseteq T /\ Tells(T) \subseteq T /\ Made(T) \subseteq T
  BY Zenon DEF Ahead, Tells, Made
<1>3. a \in Seq(T) /\ b \in Seq(T) /\ done \in Seq(T)
  BY <1>2, SeqMono, Zenon DEF Followed
<1>4. todo \in Seq(T)
  BY <1>1, <1>3
<1>5. Head(todo) \in T /\ Tail(todo) \in Seq(T) /\ todo = <<Head(todo)>> \o Tail(todo)
  BY <1>4, HeadTail, Zenon
<1>6. \E c \in Seq(Ahead(T)), d \in Seq(Tells(T)) : Tail(todo) = c \o d
  <2> DEFINE A == Ahead(T)
             B == Tells(T)
  <2> HIDE DEF A, B
  <2>0. a \in Seq(A) /\ b \in Seq(B)
    BY DEF A, B
  <2>1. CASE a = <<>>
    <3>1. b # <<>> /\ Tail(todo) = <<>> \o Tail(b)
      BY <2>0, <2>1, <1>1
    <3>2. Tail(b) \in Seq(B) /\ <<>> \in Seq(A)
      BY <2>0, <3>1
    <3> QED
      BY <3>1, <3>2, Zenon DEF A, B
  <2>2. CASE a # <<>>
    <3>1. Tail(a) \in Seq(A)
      BY <2>0, <2>2
    <3>2. Tail(a \o b) = Tail(a) \o b
      BY <1>3, <2>2
    <3> QED
      BY <1>1, <2>0, <3>1, <3>2, Zenon DEF A, B
  <2> QED
    BY <2>1, <2>2
<1>7. todo \in Seq(Tells(T)) => Head(todo) \in Tells(T) /\ Tail(todo) \in Seq(Tells(T))
  BY HeadTail, Zenon
<1>8. Told(todo) = Told(<<Head(todo)>>) \o Told(Tail(todo))
  <2>1. <<Head(todo)>> \in Seq(T)
    BY <1>5
  <2> QED
    BY <2>1, <1>5, ToldConcat, Zenon
<1>9. Told(done) \in Seq(T) /\ Told(Tail(todo)) \in Seq(T)
  BY <1>3, <1>5, SentType, Zenon DEF Told
<1> QED
  BY <1>3, <1>4, <1>5, <1>6, <1>7, <1>8, <1>9

\* A step that is no call is over.
LEMMA FollowedOver ==
  ASSUME NEW T, Followed(T), todo # <<>>, Head(todo).fn \in Others,
         todo' = Tail(todo), UNCHANGED <<done, plan>>
  PROVE  Followed(T)'
<1>1. Told(<<Head(todo)>>) = <<>>
  BY SentOne, Zenon DEF Told, One
<1>2. Told(todo) = Told(Tail(todo))
  <2>1. Told(todo) = <<>> \o Told(Tail(todo)) /\ Told(Tail(todo)) \in Seq(T)
    BY <1>1, FollowedParts, Zenon
  <2> QED
    BY <2>1
<1>3. /\ Told(done)' = Told(done) /\ Told(plan)' = Told(plan)
      /\ Told(todo)' = Told(Tail(todo))
  BY DEF Told
<1>4. Told(done) # <<>> => Tail(todo) \in Seq(Tells(T))
  BY FollowedParts, Zenon DEF Followed
<1>5. \E a \in Seq(Ahead(T)), b \in Seq(Tells(T)) : Tail(todo) = a \o b
  BY FollowedParts
<1>6. Told(done) \o Told(Tail(todo)) = Told(plan)
  BY <1>2, Zenon DEF Followed
<1> QED
  BY <1>3, <1>4, <1>5, <1>6 DEF Followed

\* The step is a call, and it was carried out.
LEMMA FollowedCall ==
  ASSUME NEW T, Followed(T), todo # <<>>, Head(todo).fn \notin Others,
         todo' = Tail(todo), done' = Append(done, Head(todo)), plan' = plan
  PROVE  Followed(T)'
<1> DEFINE h == Head(todo)
           t == Tail(todo)
<1>1. h \in Made(T) /\ done \in Seq(Made(T))
  BY FollowedParts, Zenon DEF Followed, Made
<1>2. Append(done, h) \in Seq(Made(T)) /\ Append(done, h) = done \o <<h>>
  BY <1>1
<1>3. done \in Seq(T) /\ <<h>> \in Seq(T)
  <2>1. done \in Seq(T) /\ h \in T
    BY FollowedParts
  <2> QED
    BY <2>1
<1>4. Told(done \o <<h>>) = Told(done) \o Told(<<h>>)
  <2> HIDE DEF h
  <2> QED
    BY <1>3, ToldConcat, Zenon
<1>5. (Told(done) \o Told(<<h>>)) \o Told(t) = Told(plan)
  <2>1. Told(done) \in Seq(T) /\ Told(<<h>>) \in Seq(T) /\ Told(t) \in Seq(T)
    BY <1>3, FollowedParts, SentType, Zenon DEF Told
  <2>2. (Told(done) \o Told(<<h>>)) \o Told(t) = Told(done) \o (Told(<<h>>) \o Told(t))
    <3> HIDE DEF h, t
    <3> QED
      BY <2>1, ConcatAssociative
  <2> QED
    BY <2>2, FollowedParts, Zenon DEF Followed
<1>6. Told(done \o <<h>>) # <<>> => t \in Seq(Tells(T))
  <2>1. CASE h.fn \in TableReads
    <3>1. h \notin Tells(T)
      BY <2>1, Zenon DEF Tells
    <3>2. Told(done) = <<>>
      BY <3>1, FollowedParts, Zenon DEF Followed
    <3>3. Told(<<h>>) = <<>>
      BY <2>1, SentOne, Zenon DEF Told, One
    <3> QED
      BY <1>4, <3>2, <3>3
  <2>2. CASE h.fn \notin TableReads
    <3>1. PICK a \in Seq(Ahead(T)), b \in Seq(Tells(T)) : todo = a \o b
      BY Zenon DEF Followed
    <3>2. h \notin Ahead(T)
      BY <2>2, Zenon DEF Ahead
    <3>3. a = <<>>
      <4> DEFINE A == Ahead(T)
      <4>1. a \in Seq(A) /\ h \notin A
        BY <3>2
      <4> HIDE DEF A
      <4>2. a # <<>> => h = Head(a) /\ Head(a) \in A
        BY <3>1, <4>1
      <4> QED
        BY <4>1, <4>2
    <3>4. todo \in Seq(Tells(T))
      BY <3>1, <3>3
    <3> QED
      BY <3>4, FollowedParts
  <2> QED
    BY <2>1, <2>2
<1>7. \E a \in Seq(Ahead(T)), b \in Seq(Tells(T)) : t = a \o b
  BY FollowedParts
<1>8. Told(done)' = Told(done \o <<h>>) /\ Told(plan)' = Told(plan) /\ Told(todo)' = Told(t)
  BY <1>2 DEF Told
<1>9. Told(done \o <<h>>) \o Told(t) = Told(plan)
  BY <1>4, <1>5
<1> HIDE DEF h, t
<1> QED
  BY <1>2, <1>6, <1>7, <1>8, <1>9 DEF Followed, h, t

\* The step reads a table, by its calls.
LEMMA FollowedRead ==
  ASSUME NEW T, Followed(T), todo # <<>>, Head(todo).fn = "read",
         todo' = Head(todo).text \o Tail(todo), UNCHANGED <<done, plan>>
  PROVE  Followed(T)'
<1> DEFINE c == Head(todo).text
           t == Tail(todo)
           R == {x \in T : x.fn \in TableReads}
<1>1. c \in Seq(R)
  BY FollowedParts, Zenon DEF Followed, Fits
<1>2. R \subseteq Ahead(T) /\ R \subseteq T
  BY Zenon DEF Ahead
<1>3. c \in Seq(Ahead(T)) /\ c \in Seq(T)
  BY <1>1, <1>2, SeqMono, Zenon
<1>4. Told(c) = <<>>
  BY <1>1, SentNone, Zenon DEF Told
<1>5. Told(<<Head(todo)>>) = <<>>
  <2>1. "read" \in Others
    BY Zenon DEF Others
  <2> QED
    BY <2>1, SentOne, Zenon DEF Told, One
<1>6. Told(done) = <<>>
  <2>1. Head(todo) \notin Tells(T)
    BY Zenon DEF Tells
  <2> QED
    BY <2>1, FollowedParts, Zenon DEF Followed
<1>7. t \in Seq(T)
  <2>1. todo \in Seq(T)
    BY FollowedParts
  <2> QED
    BY <2>1, HeadTail, Zenon
<1>8. Told(c \o t) = Told(todo)
  <2>1. Told(c \o t) = Told(c) \o Told(t)
    BY <1>3, <1>7, ToldConcat, Zenon
  <2> QED
    BY <2>1, <1>4, <1>5, FollowedParts, Zenon
<1>9. \E a \in Seq(Ahead(T)), b \in Seq(Tells(T)) : c \o t = a \o b
  <2>1. PICK a \in Seq(Ahead(T)), b \in Seq(Tells(T)) : t = a \o b
    BY FollowedParts
  <2>2. a \in Seq(T) /\ b \in Seq(T)
    <3>1. Ahead(T) \subseteq T /\ Tells(T) \subseteq T
      BY Zenon DEF Ahead, Tells
    <3> QED
      BY <3>1, SeqMono, Zenon
  <2>3. c \o (a \o b) = (c \o a) \o b
    <3>1. c \in Seq(T)
      BY <1>3
    <3> HIDE DEF c
    <3> QED
      BY <3>1, <2>2, ConcatAssociative
  <2>4. c \o a \in Seq(Ahead(T))
    <3> DEFINE A == Ahead(T)
    <3>1. c \in Seq(A) /\ a \in Seq(A)
      BY <1>3
    <3> HIDE DEF A, c
    <3>2. c \o a \in Seq(A)
      BY <3>1
    <3> QED
      BY <3>2 DEF A
  <2> QED
    BY <2>1, <2>3, <2>4, Zenon
<1>10. Told(done)' = Told(done) /\ Told(plan)' = Told(plan) /\ Told(todo)' = Told(c \o t)
  BY DEF Told
<1> HIDE DEF c, t
<1>11. todo' = c \o t
  BY DEF c, t
<1> QED
  BY <1>6, <1>8, <1>9, <1>10, <1>11 DEF Followed

\* What was done, readings of tables left out.
LEMMA ToldDone ==
  ASSUME NEW T, Followed(T)
  PROVE  Sent(done, TableReads) = Told(done)
<1>1. \A s \in Made(T) : s.fn \in TableReads <=> s.fn \in Others \cup TableReads
  BY Zenon DEF Made
<1>2. done \in Seq(Made(T))
  BY DEF Followed
<1> QED
  BY <1>1, <1>2, SentSame DEF Told

\* A word that does not pass, of a call that was carried out, is of the paper.
PaperFault == ("pouco_papel" \in m_status.st1 /\ ~ignoring) \/ "fim_de_papel" \in m_status.st1
Undone == Sent(done, TableReads) = <<>> \/ PaperFault

LEMMA FaultOfPaper ==
  ASSUME paper \in {"ok", "low", "out"}, NEW msg, ~EvalStatus(Word, ignoring, msg).ok
  PROVE  \/ "pouco_papel" \in Word.st1 /\ ~ignoring
         \/ "fim_de_papel" \in Word.st1
<1>1. Word.st1 = PaperBits /\ Word.st2 = {} /\ Word.st3 = 0
  BY DEF Word
<1>2. Remaining(Word, ignoring) # {}
  BY <1>1, Zenon DEF EvalStatus
<1>3. CASE paper = "ok"
  <2>1. PaperBits = {}
    BY <1>3 DEF PaperBits
  <2> QED
    BY <2>1, <1>1, <1>2, Zenon DEF Remaining, Ignored
<1>4. CASE paper = "low"
  <2>1. PaperBits = {"pouco_papel"}
    BY <1>4 DEF PaperBits
  <2>2. First(ST1, PaperBits) = "pouco_papel"
    BY <2>1, LowPaperFirst
  <2>3. ignoring => Remaining(Word, ignoring) = {}
    BY <2>1, <2>2, <1>1 DEF Remaining, Ignored
  <2> QED
    BY <2>1, <2>3, <1>1, <1>2
<1>5. CASE paper = "out"
  BY <1>5, <1>1 DEF PaperBits
<1> QED
  BY <1>3, <1>4, <1>5

LEMMA TextsOfWords ==
  ASSUME NEW word \in Words, NEW ignores, NEW msg \in StatusTexts
  PROVE  EvalStatus(word, ignores, msg).msg \in StatusTexts
<1> DEFINE text == EvalStatus(word, ignores, msg).msg
<1>0. text = Message(word, ignores, msg)
  BY DEF EvalStatus
<1>1. CASE word.st3 # 0
  <2>1. text = St3Message(word.st3)
    BY <1>0, <1>1 DEF Message
  <2>2. text \in St3Messages
    BY <2>1, CodesOfTheTable DEF Words
  <2> QED
    BY <2>2, Zenon DEF StatusMessages, StatusTexts
<1>2. CASE word.st3 = 0 /\ word.st2 # {}
  <2>1. PICK b \in {"canc_nao_permitido", "comando_nao_executado"} : word.st2 = {b}
    BY <1>2, Zenon DEF Words
  <2>2. First(ST2, word.st2) = b
    BY <2>1, FirstOfSecondByte
  <2>3. text \in {"proprietario_nao_programado", "comando_nao_executado"}
    BY <1>0, <1>2, <2>1, <2>2 DEF Message, St2Message
  <2>4. 1 \in 1..8 /\ 2 \in 1..8
    BY SMT
  <2>5. text \in Bits(ST2)
    BY <2>3, <2>4, SecondByte, Zenon DEF Bits
  <2> QED
    BY <2>5 DEF StatusMessages, StatusTexts
<1>3. CASE word.st3 = 0 /\ word.st2 = {}
  <2>1. CASE word.st1 = {} \/ Ignored(word, ignores)
    BY <1>0, <1>3, <2>1 DEF Message
  <2>2. CASE ~(word.st1 = {} \/ Ignored(word, ignores))
    <3>1. "pouco_papel" \in word.st1 /\ word.st1 \subseteq {"pouco_papel", "fim_de_papel"}
      BY <2>2, Zenon DEF Words
    <3>2. text = "pouco_papel"
      BY <1>0, <1>3, <2>2, <3>1, LowPaperFirst DEF Message
    <3>3. 7 \in 1..8
      BY SMT
    <3>4. text \in Bits(ST1)
      BY <3>2, <3>3, FirstByte, Zenon DEF Bits
    <3> QED
      BY <3>4 DEF StatusMessages, StatusTexts
  <2> QED
    BY <2>1, <2>2
<1> QED
  BY <1>1, <1>2, <1>3

LEMMA RefusalFaulty ==
  \A fn, msg : \A code \in Codes : ~EvalStatus(Refusal(fn, code), ignoring, msg).ok
<1> SUFFICES ASSUME NEW fn, NEW code \in Codes
             PROVE  Refusal(fn, code).st2 # {} \/ Refusal(fn, code).st3 # 0
  BY Zenon DEF EvalStatus
<1>1. CASE Takes(fn)
  BY <1>1, PrinterAssumption DEF Refusal, Word
<1>2. CASE ~Takes(fn)
  <2>1. Refusal(fn, code).st2 \in {{"canc_nao_permitido"}, {"comando_nao_executado"}}
    BY <1>2 DEF Refusal, Word
  <2> QED
    BY <2>1
<1> QED
  BY <1>1, <1>2

\* An operation at work.
LEMMA AtWork ==
  ASSUME DoneInv, Working
  PROVE  /\ cmd # Idle /\ todo # <<>> /\ answer = NoAnswer
         /\ ~Swallowed => (\E T : Followed(T)) \/ Doubtful
         /\ ~Swallowed => Sent(plan, Others) = Told(plan)
BY Zenon DEF DoneInv, Working, Answered, Resting, Doing, LetPass

LEMMA DoubtIsOfPayments == Doubtful => Next1.fn = "suppress"
<1> SUFFICES ASSUME NEW q, Planned(q), todo = UnlessSuppressed \o q
             PROVE  Head(todo).fn = "suppress"
  BY Zenon DEF Doubtful, Next1
<1>1. \E T : q \in Seq(T)
  BY PlannedTells, Zenon
<1> QED
  BY <1>1, SuppressedTells, Zenon

LEMMA GoesOn ==
  ASSUME DoneInv, Working, paper' = paper, UNCHANGED <<cmd, plan, answer>>,
         m_stsmsg' \in StatusTexts, ~Swallowed => (\E T : Followed(T)') \/ LetPass'
  PROVE  DoneInv'
<1>1. cmd # Idle /\ ~Answered
  BY AtWork, Zenon DEF Working
<1>2. (Swallowed' <=> Swallowed) /\ (Answered' <=> Answered)
  BY DEF Swallowed, Answered
<1>3. Resting'
  BY <1>1 DEF Resting, Idle
<1>4. Sent(plan, Others)' = Sent(plan, Others) /\ Told(plan)' = Told(plan)
  BY DEF Told
<1>5. ~Swallowed => Sent(plan, Others)' = Told(plan)'
  BY <1>4, AtWork
<1>6. Doing'
  BY <1>2, <1>5, Zenon DEF Doing
<1>7. OkMeansDone' /\ ErrorMeansUndone'
  BY <1>1, <1>2 DEF OkMeansDone, ErrorMeansUndone
<1> QED
  BY <1>3, <1>6, <1>7 DEF DoneInv

LEMMA GoesOver ==
  ASSUME DoneInv, Working, Next1.fn \in Others, Next1.fn # "suppress", Proceed,
         paper' = paper, UNCHANGED <<cmd, plan, done>>, m_stsmsg' \in StatusTexts
  PROVE  DoneInv'
<1>1. ~Swallowed => \E T : Followed(T)
  BY AtWork, DoubtIsOfPayments, Zenon
<1>2. ~Swallowed => \E T : Followed(T)'
  <2> SUFFICES ASSUME NEW T, Followed(T) PROVE Followed(T)'
    BY <1>1, Zenon
  <2>1. todo # <<>> /\ Head(todo).fn \in Others /\ todo' = Tail(todo)
    BY Zenon DEF Working, Next1, Proceed
  <2> QED
    BY <2>1, FollowedOver
<1> QED
  BY <1>2, GoesOn DEF Proceed

LEMMA Stops ==
  ASSUME DoneInv, Working, NEW msg \in StatusTexts \cup {"retmsg", "thrown"}, Fail(msg),
         paper' = paper, UNCHANGED <<cmd, plan>>, m_stsmsg' \in StatusTexts,
         ~Swallowed /\ msg \in StatusMessages /\ Len(Sent(plan, Others)) = 1 => Undone'
  PROVE  DoneInv'
<1>1. cmd # Idle /\ ~Answered
  BY AtWork, Zenon DEF Working
<1>2. Swallowed' <=> Swallowed
  BY DEF Swallowed
<1>3. Resting'
  BY <1>1 DEF Resting, Idle
<1>4. CASE Swallowed
  <2>1. ~Answered'
    BY <1>4, Zenon DEF Fail, Answered, NoAnswer
  <2> QED
    BY <1>2, <1>3, <1>4, <2>1 DEF DoneInv, Doing, OkMeansDone, ErrorMeansUndone
<1>5. CASE ~Swallowed
  <2>1. answer' = [ok |-> FALSE, msg |-> msg]
    BY <1>5, Zenon DEF Fail
  <2>2. answer'.ok = FALSE /\ answer'.msg = msg
    BY <2>1
  <2>3. msg # "no answer"
    BY OtherAnswers, Zenon DEF NoTexts, StatusTexts
  <2>4. OkMeansDone' /\ ErrorMeansUndone'
    BY <1>5, <2>2 DEF OkMeansDone, ErrorMeansUndone, Undone, PaperFault
  <2>5. Answered'
    <3>1. NoAnswer.msg = "no answer"
      BY DEF NoAnswer
    <3>2. answer' # NoAnswer
      BY <2>2, <2>3, <3>1, Zenon
    <3> QED
      BY <3>2, Zenon DEF Answered, NoAnswer
  <2> QED
    BY <1>3, <2>4, <2>5 DEF DoneInv, Doing
<1> QED
  BY <1>4, <1>5

\* An error that is not the printer's.
LEMMA Unnamed ==
  ASSUME DoneInv, Working, NEW msg \in {"retmsg", "thrown"}, Fail(msg), paper' = paper,
         UNCHANGED <<cmd, plan, m_stsmsg>>
  PROVE  DoneInv'
<1>1. msg \notin StatusMessages
  BY OtherAnswers, Zenon DEF NoTexts
<1>2. m_stsmsg' \in StatusTexts
  BY DEF DoneInv
<1> QED
  BY <1>1, <1>2, Stops

\* Nothing of a command that is one call was done, if it is still to be.
LEMMA OneCall ==
  ASSUME NEW T, Followed(T), Sent(plan, Others) = Told(plan), Len(Sent(plan, Others)) = 1,
         todo # <<>>, Head(todo).fn \notin Others
  PROVE  Sent(done, TableReads) = <<>>
<1>1. Sent(done, TableReads) = Told(done)
  BY ToldDone
<1>2. CASE Head(todo).fn \in TableReads
  <2>1. Head(todo) \notin Tells(T)
    BY <1>2, Zenon DEF Tells
  <2> QED
    BY <1>1, <2>1, FollowedParts, Zenon DEF Followed
<1>3. CASE Head(todo).fn \notin TableReads
  <2> DEFINE d == Told(done)
             t == Told(Tail(todo))
             h == Head(todo)
  <2>1. Told(<<h>>) = <<h>>
    BY <1>3, SentOne, Zenon DEF Told, One
  <2>2. d \o (<<h>> \o t) = Told(plan)
    BY <2>1, FollowedParts, Zenon DEF Followed
  <2>3. d \in Seq(T) /\ t \in Seq(T) /\ h \in T
    BY FollowedParts
  <2>4. Len(d \o (<<h>> \o t)) = 1
    BY <2>2
  <2> HIDE DEF d, t, h
  <2>5. Len(d) = 0
    BY <2>3, <2>4
  <2>6. d = <<>>
    BY <2>3, <2>5
  <2> QED
    BY <1>1, <2>6 DEF d
<1> QED
  BY <1>2, <1>3

LEMMA StartingIsBusy == Starting # <<>>
<1>1. DOMAIN Starting = {"id"} /\ "id" \notin {}
  BY DEF Starting
<1>2. DOMAIN <<>> = {}
  OBVIOUS
<1> QED
  BY <1>1, <1>2, Zenon

LEMMA DoneStep ==
  ASSUME DoneInv, [Next]_vars
  PROVE  DoneInv'
<1>0. paper \in {"ok", "low", "out"} /\ m_stsmsg \in StatusTexts
  BY DEF DoneInv
<1>1. CASE \E request \in Requests : Trade(request)
  <2>1. PICK request \in Requests : Trade(request)
    BY <1>1
  <2>2. /\ IsPlan(Program(request)) /\ todo' = Program(request) /\ plan' = Program(request)
        /\ done' = <<>> /\ cmd' = request /\ ~Answered' /\ paper' = paper
        /\ m_stsmsg' = m_stsmsg
    BY <2>1, ProgramPlanned DEF Trade, DoneInv, Resting, driverVars, Answered
  <2>3. cmd' # Idle
    <3>1. request \in [id : STRING, params : Seq([name : STRING, values : Seq(Seq(STRING))])]
      BY BrokerAssumption
    <3> QED
      BY <2>2, <3>1 DEF Idle
  <2>4. ((\E T : Followed(T)') \/ Doubtful') /\ Sent(plan, Others)' = Told(plan)'
    BY <2>2, Begun
  <2> QED
    BY <1>0, <2>2, <2>3, <2>4, Zenon
       DEF DoneInv, Resting, Doing, OkMeansDone, ErrorMeansUndone
<1>2. CASE CallDone
  <2>1. /\ Working /\ Next1.fn \notin Others /\ paper' = paper /\ ignoring' = ignoring
        /\ UNCHANGED <<cmd, plan>> /\ done' = Append(done, Next1)
    BY <1>2 DEF CallDone, IsCall, CarriedOut
  <2>2. "suppress" \in Others
    BY Zenon DEF Others
  <2>3. ~Swallowed => \E T : Followed(T)
    BY <2>1, <2>2, AtWork, DoubtIsOfPayments, Zenon
  <2>4. CASE Proceed /\ m_stsmsg' \in StatusTexts
    <3>1. ~Swallowed => \E T : Followed(T)'
      <4> SUFFICES ASSUME NEW T, Followed(T) PROVE Followed(T)'
        BY <2>3, Zenon
      <4> QED
        BY <2>1, <2>4, FollowedCall DEF Next1, Proceed, Working
    <3> QED
      BY <2>1, <2>4, <3>1, GoesOn DEF Proceed
  <2>5. Word \in Words
    BY <1>0, WordsGiven
  <2>6. CASE Check(Word)
    <3> DEFINE e == EvalStatus(Word, ignoring, m_stsmsg)
    <3>1. m_status' = Word /\ m_stsmsg' = e.msg /\ e.msg \in StatusTexts
      BY <1>0, <2>5, <2>6, TextsOfWords DEF Check
    <3>2. CASE e.ok
      BY <2>4, <2>6, <3>1, <3>2, Zenon DEF Check
    <3>3. CASE ~e.ok
      <4>1. Fail(e.msg)
        BY <2>6, <3>3, Zenon DEF Check
      <4>2. \/ "pouco_papel" \in Word.st1 /\ ~ignoring
            \/ "fim_de_papel" \in Word.st1
        BY <1>0, <3>3, FaultOfPaper
      <4>3. Undone'
        BY <2>1, <3>1, <4>2 DEF Undone, PaperFault
      <4> QED
        BY <2>1, <3>1, <4>1, <4>3, Stops
    <3> QED
      BY <3>2, <3>3
  <2> QED
    BY <1>0, <1>2, <2>4, <2>6, Zenon DEF CallDone
<1>3. CASE CallRefused
  <2>1. PICK code \in Codes :
          /\ Working /\ Next1.fn \notin Others /\ paper' = paper /\ ignoring' = ignoring
          /\ UNCHANGED <<cmd, plan, done>> /\ Check(Refusal(Next1.fn, code))
    BY <1>3 DEF CallRefused, IsCall, NotCarriedOut, printerVars
  <2>2. "suppress" \in Others
    BY Zenon DEF Others
  <2>3. ~Swallowed => \E T : Followed(T)
    BY <2>1, <2>2, AtWork, DoubtIsOfPayments, Zenon
  <2> DEFINE e == EvalStatus(Refusal(Next1.fn, code), ignoring, m_stsmsg)
  <2>4. Fail(e.msg) /\ m_stsmsg' = e.msg
    BY <2>1, RefusalFaulty, Zenon DEF Check
  <2>5. e.msg \in StatusTexts
    BY <1>0, WordsGiven, TextsOfWords
  <2>6. ~Swallowed /\ Len(Sent(plan, Others)) = 1 => Sent(done, TableReads) = <<>>
    <3> SUFFICES ASSUME ~Swallowed, Len(Sent(plan, Others)) = 1
                 PROVE  Sent(done, TableReads) = <<>>
      OBVIOUS
    <3>1. PICK T : Followed(T)
      BY <2>3
    <3>2. Sent(plan, Others) = Told(plan) /\ todo # <<>>
      BY <2>1, AtWork
    <3> QED
      BY <2>1, <3>1, <3>2, OneCall DEF Next1
  <2>7. ~Swallowed /\ Len(Sent(plan, Others)) = 1 => Undone'
    BY <2>1, <2>6 DEF Undone
  <2> QED
    BY <2>1, <2>4, <2>5, <2>7, Stops
<1>4. CASE CallFails
  <2>1. /\ Working /\ Fail("retmsg") /\ paper' = paper /\ m_stsmsg' = m_stsmsg
        /\ UNCHANGED <<cmd, plan>>
    BY <1>4 DEF CallFails, IsCall, CarriedOut, NotCarriedOut, printerVars
  <2> QED
    BY <1>0, <2>1, Unnamed
<1>5. CASE ReadTable
  <2>1. /\ Working /\ Next1.fn = "read" /\ paper' = paper /\ m_stsmsg' = m_stsmsg
        /\ UNCHANGED <<cmd, plan, done>>
        /\ Proceed \/ (todo' = Next1.text \o Tail(todo) /\ UNCHANGED answer)
    BY <1>5 DEF ReadTable, At, driverVars
  <2>2. "read" \in Others /\ "read" # "suppress"
    BY Zenon DEF Others
  <2>3. CASE Proceed
    BY <1>0, <2>1, <2>2, <2>3, GoesOver
  <2>4. CASE todo' = Next1.text \o Tail(todo) /\ UNCHANGED answer
    <3>1. ~Swallowed => \E T : Followed(T)
      BY <2>1, <2>2, AtWork, DoubtIsOfPayments, Zenon
    <3>2. ~Swallowed => \E T : Followed(T)'
      <4> SUFFICES ASSUME NEW T, Followed(T) PROVE Followed(T)'
        BY <3>1, Zenon
      <4> QED
        BY <2>1, <2>4, FollowedRead DEF Next1, Working
    <3> QED
      BY <1>0, <2>1, <2>4, <3>2, GoesOn
  <2> QED
    BY <2>1, <2>3, <2>4
<1>6. CASE Test \/ Throws \/ LoadConfig \/ EmptyUltRed
  <2>1. /\ Working /\ paper' = paper /\ m_stsmsg' = m_stsmsg
        /\ UNCHANGED <<cmd, plan, done>>
        /\ Proceed \/ Fail("thrown")
        /\ Next1.fn \in {"present", "absent", "found", "throw", "load", "empty"}
    BY <1>6 DEF Test, Throws, LoadConfig, EmptyUltRed, At, driverVars
  <2>2. Next1.fn \in Others /\ Next1.fn # "suppress"
    BY <2>1, Zenon DEF Others
  <2> QED
    BY <1>0, <2>1, <2>2, Unnamed, GoesOver
<1>7. CASE Suppress
  <2>1. /\ Working /\ Next1.fn = "suppress" /\ paper' = paper /\ m_stsmsg' = m_stsmsg
        /\ UNCHANGED <<cmd, plan, done, answer>> /\ todo' \in {Tail(todo), <<>>}
    BY <1>7 DEF Suppress, At, driverVars
  <2>2. ~Swallowed => (\E T : Followed(T)') \/ LetPass'
    <3> SUFFICES ASSUME ~Swallowed PROVE (\E T : Followed(T)') \/ LetPass'
      OBVIOUS
    <3>1. ASSUME NEW T PROVE ~Followed(T)
      <4>1. Followed(T) => Head(todo) \in T /\ Fits(T)
        BY <2>1, FollowedParts, Zenon DEF Working, Followed
      <4> QED
        BY <2>1, <4>1, Zenon DEF Fits, Next1
    <3>2. PICK q : Planned(q) /\ todo = UnlessSuppressed \o q /\ plan = todo /\ done = <<>>
      BY <2>1, <3>1, AtWork, Zenon DEF Doubtful
    <3>3. CASE todo' = <<>>
      BY <2>1, <3>2, <3>3 DEF LetPass, Next1
    <3>4. CASE todo' = Tail(todo)
      <4>1. PICK T : /\ Fits(T)
                     /\ \E a \in Seq(Ahead(T)), b \in Seq(Tells(T)) : q = a \o b
                     /\ q \in Seq(T)
        BY <3>2, PlannedTells
      <4>2. Tail(todo) = q /\ Told(plan) = Told(q)
        BY <3>2, <4>1, SuppressedTells, Zenon
      <4>3. Told(<<>>) = <<>> /\ <<>> \in Seq(Made(T)) /\ <<>> \o Told(q) = Told(q)
        <5>1. Told(q) \in Seq(T)
          BY <4>1, SentType, Zenon DEF Told
        <5> QED
          BY <5>1, SentEmpty DEF Told
      <4>4. /\ Told(done)' = Told(<<>>) /\ Told(plan)' = Told(q) /\ Told(todo)' = Told(q)
            /\ todo' = q /\ done' = <<>>
        BY <2>1, <3>2, <3>4, <4>2 DEF Told
      <4>5. Followed(T)'
        BY <4>1, <4>3, <4>4 DEF Followed
      <4> QED
        BY <4>5
    <3> QED
      BY <2>1, <3>3, <3>4
  <2> QED
    BY <1>0, <2>1, <2>2, GoesOn
<1>8. CASE Restart \/ Escapes
  <2>1. Restart
    BY <1>8, Zenon DEF Escapes
  <2>2. /\ cmd' = Starting /\ answer' = NoAnswer /\ paper' = paper /\ m_stsmsg' = ""
    BY <2>1 DEF Restart
  <2>3. Swallowed' /\ cmd' # Idle /\ ~Answered' /\ m_stsmsg' \in StatusTexts
    <3>1. Starting # <<>>
      BY StartingIsBusy
    <3> QED
      BY <2>2, <3>1 DEF Swallowed, Idle, Answered, StatusTexts
  <2> QED
    BY <1>0, <2>2, <2>3, Zenon DEF DoneInv, Resting, Doing, OkMeansDone, ErrorMeansUndone
<1>9. CASE Finish
  <2>1. /\ cmd # Idle /\ todo = <<>> /\ ~Answered /\ answer' = [ok |-> TRUE, msg |-> ""]
        /\ UNCHANGED <<paper, m_stsmsg, cmd, plan, todo, done>>
    BY <1>9 DEF Finish, driverVars
  <2>2. Answered' /\ answer'.msg \notin StatusMessages
    <3>1. answer'.msg = "" /\ NoAnswer.msg = "no answer"
      BY <2>1 DEF NoAnswer
    <3>2. answer' # NoAnswer
      BY <3>1
    <3> QED
      BY <3>1, <3>2, OtherAnswers, Zenon DEF NoTexts, Answered, NoAnswer
  <2>3. ASSUME ~Swallowed
        PROVE  \/ Sent(done, TableReads) = Sent(plan, Others)
               \/ done = <<>> /\ Head(plan).fn = "suppress"
    <3>1. /\ (\E T : Followed(T)) \/ Doubtful \/ LetPass
          /\ Sent(plan, Others) = Told(plan)
      BY <2>1, <2>3, Zenon DEF DoneInv, Doing
    <3>2. ~Doubtful
      <4> SUFFICES ASSUME NEW q, Planned(q), todo = UnlessSuppressed \o q PROVE FALSE
        BY Zenon DEF Doubtful
      <4>1. \E T : q \in Seq(T)
        BY PlannedTells, Zenon
      <4> QED
        BY <2>1, <4>1, SuppressedTells, Zenon
    <3>3. ASSUME NEW T, Followed(T) PROVE Sent(done, TableReads) = Told(plan)
      <4>1. Told(todo) = <<>>
        BY <2>1, SentEmpty DEF Told
      <4>2. Told(done) \in Seq(Made(T))
        BY <3>3, SentType, Zenon DEF Told, Followed
      <4>3. Told(done) \o <<>> = Told(done)
        BY <4>2
      <4> QED
        BY <3>3, <4>1, <4>3, ToldDone, Zenon DEF Followed
    <3> QED
      BY <3>1, <3>2, <3>3, Zenon DEF LetPass
  <2>4. OkMeansDone'
    BY <2>1, <2>3 DEF OkMeansDone, Swallowed
  <2> QED
    BY <1>0, <2>1, <2>2, <2>4, Zenon DEF DoneInv, Resting, Doing, ErrorMeansUndone
<1>10. CASE Reply
  <2>1. /\ cmd' = Idle /\ todo' = <<>> /\ done' = <<>> /\ ~Answered'
        /\ paper' = paper /\ m_stsmsg' = m_stsmsg
    BY <1>10 DEF Reply, Answered, NoAnswer, driverVars
  <2> QED
    BY <1>0, <2>1 DEF DoneInv, Resting, Doing, OkMeansDone, ErrorMeansUndone, Idle
<1>11. CASE Paper
  <2>1. /\ cmd = Idle /\ paper' \in {"ok", "low", "out"} /\ m_stsmsg' = m_stsmsg
        /\ UNCHANGED tradeVars
    BY <1>0, <1>11 DEF Paper, PaperChanges, driverVars
  <2>2. ~Answered /\ todo = <<>> /\ done = <<>>
    BY <2>1 DEF DoneInv, Resting
  <2> QED
    BY <1>0, <2>1, <2>2
       DEF DoneInv, Resting, Doing, OkMeansDone, ErrorMeansUndone, tradeVars, Answered, Idle
<1>12. CASE UNCHANGED vars
  <2>1. UNCHANGED <<paper, m_stsmsg, m_status, ignoring, cmd, plan, todo, done, answer>>
    BY <1>12 DEF vars
  <2>2. \A T : Followed(T)' <=> Followed(T)
    BY <2>1 DEF Followed, Told
  <2>3. Doing' <=> Doing
    BY <2>1, <2>2 DEF Doing, Doubtful, LetPass, Answered, Swallowed, Told
  <2> QED
    BY <2>1, <2>3 DEF DoneInv, Resting, OkMeansDone, ErrorMeansUndone, Answered, Swallowed
<1> QED
  BY <1>1, <1>2, <1>3, <1>4, <1>5, <1>6, <1>7, <1>8, <1>9, <1>10, <1>11, <1>12, Zenon
     DEF Next

LEMMA DoneAlways == Spec => []DoneInv
<1>1. Init => DoneInv
  <2> SUFFICES ASSUME Init PROVE DoneInv
    OBVIOUS
  <2>1. /\ cmd = Starting /\ answer = NoAnswer /\ paper = "ok" /\ m_stsmsg = ""
    BY DEF Init, PrinterInit
  <2>2. Swallowed /\ cmd # Idle /\ ~Answered /\ m_stsmsg \in StatusTexts
    <3>1. Starting # <<>>
      BY StartingIsBusy
    <3> QED
      BY <2>1, <3>1 DEF Swallowed, Idle, Answered, StatusTexts
  <2> QED
    BY <2>1, <2>2, Zenon DEF DoneInv, Resting, Doing, OkMeansDone, ErrorMeansUndone
<1>2. DoneInv /\ [Next]_vars => DoneInv'
  BY DoneStep
<1> QED
  BY <1>1, <1>2, PTL DEF Spec

\* A command answered OK made the printer do all that it stands for, each call
\* once and in order, whatever is read on the way; a payment that is suppressed
\* reaches nothing.  What is left to do, after what was done, is always what was
\* asked, and nothing but an error cuts it short.
THEOREM AllIsDone == Spec => []OkMeansDone
<1>1. DoneInv => OkMeansDone
  BY DEF DoneInv
<1> QED
  BY <1>1, DoneAlways, PTL

\* The printer's error is answered of a command that is one call only if the
\* printer did not do it, or is short of paper: the tables that the command reads
\* are read before its call, and a refusal never passes for a success.
THEOREM ErrorsUndone == Spec => []ErrorMeansUndone
<1>1. DoneInv => ErrorMeansUndone
  BY DEF DoneInv
<1> QED
  BY <1>1, DoneAlways, PTL

-----------------------------------------------------------------------------
(* The last reduction.                                                     *)

\* Steps among which there is no reduction, nor will there be.
Clear(T) == WithoutReduction(T) /\ \A s \in T : s.fn = "read" => s.text \in Seq(T)
Clears(p) == \E T : Clear(T) /\ p \in Seq(T)

LastReductions == {"get_data_ult_red", "get_hora_ult_red"}
LastKnown == ult_red = "last" \/ misreported

\* A reduction is only made by the plan that empties what is kept of the last one,
\* and the commands that answer it ask the printer, if nothing is kept, or nothing.
LastInv ==
  /\ ult_red \in {"none", "last", "old"}
  /\ cmd = Idle => todo = <<>> /\ ~Answered
  /\ Answered => todo = <<>>
  /\ Clears(todo) \/ todo = Reduction
  /\ ult_red = "old" => misreported \/ (todo = Emptied /\ ~Answered)
  /\ cmd # Idle /\ cmd.id \in LastReductions
       => /\ ~Answered => \/ todo \in {Call("DataHoraReducao"), Throw}
                          \/ todo = <<>> /\ LastKnown
          /\ Answered /\ answer.ok => LastKnown

LEMMA ClearFew ==
  \A fns : "ReducaoZ" \notin fns /\ "read" \notin fns =>
    Clear({Step(fn, <<>>) : fn \in fns})
BY StepParts, Zenon DEF Clear, WithoutReduction

LEMMA FewClear ==
  Clears(<<>>) /\ Clears(Emptied) /\ Clears(Constructor)
<1> DEFINE fns == {"empty", "load", "HabilitaDesabilitaRetornoEstendidoMFD",
                   "AtivaDesativaSensorPoucoPapelMFD"}
           T == {Step(fn, <<>>) : fn \in fns}
<1>1. Clear(T)
  BY ClearFew, Zenon
<1>2. /\ Step("empty", <<>>) \in T /\ Step("load", <<>>) \in T
      /\ Step("HabilitaDesabilitaRetornoEstendidoMFD", <<>>) \in T
      /\ Step("AtivaDesativaSensorPoucoPapelMFD", <<>>) \in T
  BY Zenon
<1> HIDE DEF T
<1>3. <<>> \in Seq(T) /\ Emptied \in Seq(T) /\ Constructor \in Seq(T)
  BY <1>2 DEF Emptied, Constructor, Call, LoadSpecific
<1> QED
  BY <1>1, <1>3, Zenon DEF Clears

LEMMA PlanClears == \A p : IsPlan(p) => Clears(p) \/ p = Reduction
<1> SUFFICES ASSUME NEW p, IsPlan(p), p # Reduction PROVE Clears(p)
  OBVIOUS
<1>1. ASSUME NEW q, Planned(q) PROVE \E T : Clear(T) /\ q \in Seq(T)
  <2>1. PICK T : /\ Fits(T) /\ WithoutReduction(T)
                 /\ \E a \in Seq(Tests(T)), b \in Seq(Tells(T)) : q = a \o b
    BY <1>1, Zenon DEF Planned
  <2>2. PICK a \in Seq(Tests(T)), b \in Seq(Tells(T)) : q = a \o b
    BY <2>1
  <2>3. Tests(T) \subseteq T /\ Tells(T) \subseteq T
    BY Zenon DEF Tests, Tells
  <2>4. a \in Seq(T) /\ b \in Seq(T)
    BY <2>3, SeqMono, Zenon
  <2>5. q \in Seq(T)
    BY <2>2, <2>4
  <2>6. ASSUME NEW s \in T, s.fn = "read" PROVE s.text \in Seq(T)
    <3>1. s.text \in Seq({c \in T : c.fn \in TableReads})
      BY <2>1, <2>6, Zenon DEF Fits
    <3>2. {c \in T : c.fn \in TableReads} \subseteq T
      OBVIOUS
    <3> QED
      BY <3>1, <3>2, SeqMono, Zenon
  <2> QED
    BY <2>1, <2>5, <2>6, Zenon DEF Clear
<1>2. CASE Planned(p)
  BY <1>1, <1>2, Zenon DEF Clears
<1>3. CASE \E q : Planned(q) /\ p = UnlessSuppressed \o q
  <2>1. PICK q, T : Clear(T) /\ q \in Seq(T) /\ p = UnlessSuppressed \o q
    BY <1>1, <1>3
  <2> DEFINE s == Step("suppress", <<>>)
             U == T \cup {s}
  <2>2. Clear(U)
    <3>1. s.fn = "suppress"
      BY StepParts
    <3>2. \A x \in Seq(T) : x \in Seq(U)
      BY SeqMono
    <3> QED
      BY <2>1, <3>1, <3>2, Zenon DEF Clear, WithoutReduction
  <2>3. UnlessSuppressed = <<s>>
    BY DEF UnlessSuppressed
  <2> HIDE DEF s
  <2>4. p \in Seq(U)
    BY <2>1, <2>3
  <2> QED
    BY <2>2, <2>4, Zenon DEF Clears
<1> QED
  BY <1>2, <1>3 DEF IsPlan

\* What is left of a plan.
LEMMA ClearLeft ==
  ASSUME NEW p, Clears(p), p # <<>>
  PROVE  /\ Clears(Tail(p)) /\ Head(p).fn # "ReducaoZ"
         /\ Head(p).fn = "read" => Clears(Head(p).text \o Tail(p))
<1>1. PICK T : Clear(T) /\ p \in Seq(T)
  BY DEF Clears
<1>2. Head(p) \in T /\ Tail(p) \in Seq(T)
  BY <1>1, HeadTail, Zenon
<1>3. ASSUME Head(p).fn = "read" PROVE Head(p).text \o Tail(p) \in Seq(T)
  <2>1. Head(p).text \in Seq(T)
    BY <1>1, <1>2, <1>3, Zenon DEF Clear
  <2> QED
    BY <1>2, <2>1
<1> QED
  BY <1>1, <1>2, <1>3, Zenon DEF Clears, Clear, WithoutReduction

LEMMA StepThen ==
  ASSUME NEW s, NEW T, NEW q \in Seq(T)
  PROVE  <<s>> \o q # <<>> /\ Head(<<s>> \o q) = s /\ Tail(<<s>> \o q) = q
OBVIOUS

LEMMA ReductionParts ==
  /\ Reduction # <<>> /\ Head(Reduction).fn = "ReducaoZ" /\ Tail(Reduction) = Emptied
<1> DEFINE r == Step("ReducaoZ", <<>>)
           e == Step("empty", <<>>)
<1>1. Reduction = <<r>> \o <<e>> /\ Emptied = <<e>>
  BY DEF Reduction, Call, Emptied
<1>2. r.fn = "ReducaoZ"
  BY StepParts
<1> HIDE DEF r, e
<1>3. <<e>> \in Seq({e})
  OBVIOUS
<1>4. <<r>> \o <<e>> # <<>> /\ Head(<<r>> \o <<e>>) = r /\ Tail(<<r>> \o <<e>>) = <<e>>
  BY <1>3, StepThen
<1> QED
  BY <1>1, <1>2, <1>4, Zenon

\* A plan of one step.
LEMMA OneStep ==
  ASSUME NEW s
  PROVE  <<s>> # <<>> /\ Head(<<s>>) = s /\ Tail(<<s>>) = <<>>
OBVIOUS

LEMMA LastProgram ==
  ASSUME NEW request \in Requests, request.id \in LastReductions
  PROVE  Program(request) \in {Throw, UltRed}
<1>1. CASE ~Complete(request)
  BY <1>1 DEF Program
<1>2. CASE Complete(request)
  <2>1. Commands[request.id].op = request.id
    BY <1>2, CommandsServe, Zenon DEF Complete, tag_enum, Serves, LastReductions
  <2>2. request.id \notin DOMAIN Operations
    BY OperationsPlanned, Zenon DEF LastReductions, Argued
  <2>3. Steps(request, request.id) = UltRed
    BY <2>2, Zenon DEF Steps, LastReductions
  <2> QED
    BY <1>2, <2>1, <2>3, Zenon DEF Program
<1> QED
  BY <1>1, <1>2

\* An operation at work.
LEMMA LastAtWork ==
  ASSUME LastInv, Working
  PROVE  /\ cmd # Idle /\ todo # <<>> /\ ~Answered
         /\ Clears(todo) \/ todo = Reduction
         /\ Clears(Tail(todo))
         /\ Next1.fn = "ReducaoZ" => Tail(todo) = Emptied
         /\ Next1.fn = "read" => Clears(Next1.text \o Tail(todo))
         /\ ult_red = "old" /\ ~misreported => Next1.fn = "empty"
         /\ cmd.id \in LastReductions =>
              /\ Next1.fn \in {"DataHoraReducao", "throw"} /\ Tail(todo) = <<>>
              /\ ~Swallowed
<1>1. cmd # Idle /\ todo # <<>> /\ ~Answered /\ (Clears(todo) \/ todo = Reduction)
  BY Zenon DEF LastInv, Working
<1>2. /\ Clears(Tail(todo)) /\ (Next1.fn = "ReducaoZ" => Tail(todo) = Emptied)
      /\ Next1.fn = "read" => Clears(Next1.text \o Tail(todo))
  <2>1. CASE Clears(todo)
    BY <1>1, <2>1, ClearLeft, Zenon DEF Next1
  <2>2. CASE todo = Reduction
    BY <2>2, ReductionParts, FewClear, Zenon DEF Next1
  <2> QED
    BY <1>1, <2>1, <2>2
<1>4. ult_red = "old" /\ ~misreported => Next1.fn = "empty"
  <2>1. Head(Emptied).fn = "empty"
    BY OneStep, StepParts, Zenon DEF Emptied
  <2> QED
    BY <2>1, Zenon DEF LastInv, Next1
<1>5. ASSUME cmd.id \in LastReductions
      PROVE  /\ Next1.fn \in {"DataHoraReducao", "throw"} /\ Tail(todo) = <<>>
             /\ ~Swallowed
  <2>1. todo \in {Call("DataHoraReducao"), Throw}
    BY <1>1, <1>5, Zenon DEF LastInv
  <2>2. PICK fn \in {"DataHoraReducao", "throw"} : todo = <<Step(fn, <<>>)>>
    BY <2>1, Zenon DEF Call, Throw
  <2>3. Next1.fn \in {"DataHoraReducao", "throw"} /\ Tail(todo) = <<>>
    <3>1. Head(todo) = Step(fn, <<>>) /\ Tail(todo) = <<>>
      BY <2>2, OneStep
    <3>2. Step(fn, <<>>).fn = fn
      BY StepParts
    <3> QED
      BY <3>1, <3>2, Zenon DEF Next1
  <2>4. cmd # Starting
    <3>1. Starting.id = "ecf_bematech"
      BY DEF Starting
    <3> QED
      BY <1>5, <3>1, Zenon DEF LastReductions
  <2> QED
    BY <1>5, <2>3, <2>4, Zenon DEF Swallowed, LastReductions
<1> QED
  BY <1>1, <1>2, <1>4, <1>5

LEMMA LastGoes ==
  ASSUME LastInv, Working, UNCHANGED <<cmd, answer>>, Clears(todo'),
         ult_red' \in {"none", "last", "old"},
         ult_red' = "old" => misreported' \/ todo' = Emptied,
         cmd.id \in LastReductions => todo' = <<>> /\ LastKnown'
  PROVE  LastInv'
<1>1. cmd # Idle /\ ~Answered
  BY LastAtWork
<1>2. ~Answered' /\ cmd' # Idle
  BY <1>1 DEF Answered, Idle
<1>3. cmd'.id = cmd.id /\ Clears(todo)'
  BY DEF Clears
<1> QED
  BY <1>2, <1>3 DEF LastInv, Idle

LEMMA LastStops ==
  ASSUME LastInv, Working, NEW msg, Fail(msg), msg # "no answer", cmd' = cmd,
         ult_red' \in {"none", "last", "old"}, ult_red' = "old" => misreported'
  PROVE  LastInv'
<1>1. cmd # Idle /\ todo' = <<>>
  BY LastAtWork DEF Fail
<1>2. Clears(<<>>)
  BY FewClear
<1>3. cmd.id \in LastReductions => Answered' /\ answer'.ok = FALSE
  <2> SUFFICES ASSUME cmd.id \in LastReductions PROVE Answered' /\ answer'.ok = FALSE
    OBVIOUS
  <2>1. answer' = [ok |-> FALSE, msg |-> msg]
    BY LastAtWork, Zenon DEF Fail
  <2>2. answer'.ok = FALSE /\ answer'.msg = msg /\ NoAnswer.msg = "no answer"
    BY <2>1 DEF NoAnswer
  <2>3. answer' # NoAnswer
    BY <2>2, Zenon
  <2> QED
    BY <2>2, <2>3 DEF Answered, NoAnswer
<1>4. (Clears(todo) \/ todo = Reduction)'
  BY <1>1, <1>2 DEF Clears
<1> QED
  BY <1>1, <1>3, <1>4 DEF LastInv, Idle

LEMMA LastStep ==
  ASSUME DoneInv, LastInv, [Next]_vars
  PROVE  LastInv'
<1>0. /\ ult_red \in {"none", "last", "old"} /\ m_stsmsg \in StatusTexts
      /\ paper \in {"ok", "low", "out"}
      /\ \A msg \in StatusTexts \cup {"retmsg", "thrown"} : msg # "no answer"
  BY OtherAnswers, Zenon DEF LastInv, DoneInv, NoTexts, StatusTexts
<1>1. CASE \E request \in Requests : Trade(request)
  <2>1. PICK request \in Requests : Trade(request)
    BY <1>1
  <2>2. /\ cmd = Idle /\ cmd' = request /\ todo' = Program(request) /\ ~Answered'
        /\ UNCHANGED <<ult_red, misreported>>
    BY <2>1 DEF Trade, LastInv, driverVars, Answered
  <2>3. Clears(Program(request)) \/ Program(request) = Reduction
    BY ProgramPlanned, PlanClears, Zenon
  <2>4. ult_red = "old" => misreported
    <3>1. todo = <<>> /\ Emptied # <<>>
      BY <2>2, OneStep, Zenon DEF LastInv, Emptied
    <3> QED
      BY <3>1, Zenon DEF LastInv
  <2>5. request.id \in LastReductions
          => \/ todo' \in {Call("DataHoraReducao"), Throw}
             \/ todo' = <<>> /\ LastKnown'
    <3> SUFFICES ASSUME request.id \in LastReductions
                 PROVE  \/ todo' \in {Call("DataHoraReducao"), Throw}
                        \/ todo' = <<>> /\ LastKnown'
      OBVIOUS
    <3>1. todo' \in {Throw, UltRed}
      BY <2>2, LastProgram
    <3>2. CASE ult_red = "none"
      BY <3>1, <3>2, Zenon DEF UltRed
    <3>3. CASE ult_red # "none"
      <4>1. UltRed = <<>>
        BY <3>3, Zenon DEF UltRed
      <4>2. LastKnown'
        BY <1>0, <2>2, <2>4, <3>3 DEF LastKnown
      <4> QED
        BY <3>1, <4>1, <4>2, Zenon
    <3> QED
      BY <3>2, <3>3
  <2>6. (Clears(todo) \/ todo = Reduction)' /\ ult_red' = ult_red /\ (misreported' <=> misreported)
    BY <2>2, <2>3 DEF Clears
  <2>7. cmd' # Idle
    <3>1. request \in [id : STRING, params : Seq([name : STRING, values : Seq(Seq(STRING))])]
      BY BrokerAssumption
    <3> QED
      BY <2>2, <3>1 DEF Idle
  <2> QED
    BY <1>0, <2>2, <2>4, <2>5, <2>6, <2>7, Zenon DEF LastInv
<1>2. CASE CallDone
  <2>1. /\ Working /\ Next1.fn \notin Others /\ UNCHANGED cmd
    BY <1>2 DEF CallDone, IsCall
  <2>2. "empty" \in Others /\ "throw" \in Others
    BY Zenon DEF Others
  <2>3. ult_red = "old" => misreported
    BY <2>1, <2>2, LastAtWork
  <2>4. CASE Next1.fn \in Unchecked
    <3>1. Proceed /\ UNCHANGED <<ult_red, misreported>>
      BY <1>2, <2>4 DEF CallDone
    <3>2. cmd.id \notin LastReductions
      BY <2>1, <2>2, <2>4, LastAtWork, Zenon DEF Unchecked
    <3>3. Clears(Tail(todo)) /\ todo' = Tail(todo)
      BY <2>1, <3>1, LastAtWork DEF Proceed
    <3> QED
      BY <1>0, <2>1, <2>3, <3>1, <3>2, <3>3, LastGoes DEF Proceed
  <2>5. CASE Next1.fn \notin Unchecked
    <3> DEFINE e == EvalStatus(Word, ignoring, m_stsmsg)
               fn == Next1.fn
    <3>1. Check(Word) /\ Keeps(fn, e.ok)
      BY <1>2, <2>5, Zenon DEF CallDone, Clean
    <3>2. e.msg # "no answer"
      BY <1>0, WordsGiven, TextsOfWords, Zenon
    <3>3. ult_red' \in {"none", "last", "old"}
      BY <1>0, <3>1, Zenon DEF Keeps
    <3>4. CASE e.ok
      <4>1. Proceed
        BY <3>1, <3>4, Zenon DEF Check
      <4>2. Clears(Tail(todo)) /\ todo' = Tail(todo) /\ UNCHANGED answer
        BY <2>1, <4>1, LastAtWork DEF Proceed
      <4>3. CASE fn = "ReducaoZ"
        <5>1. todo' = Emptied /\ cmd.id \notin LastReductions
          BY <2>1, <2>2, <4>2, <4>3, LastAtWork
        <5> QED
          BY <2>1, <3>3, <4>2, <5>1, LastGoes
      <4>4. CASE fn = "DataHoraReducao"
        <5>1. ult_red' = "last"
          BY <3>1, <3>4, <4>4, Zenon DEF Keeps
        <5>2. cmd.id \in LastReductions => todo' = <<>> /\ LastKnown'
          BY <2>1, <4>2, <5>1, LastAtWork DEF LastKnown
        <5> QED
          BY <2>1, <3>3, <4>2, <5>1, <5>2, LastGoes
      <4>5. CASE fn # "ReducaoZ" /\ fn # "DataHoraReducao"
        <5>1. UNCHANGED <<ult_red, misreported>>
          BY <3>1, <4>5, Zenon DEF Keeps
        <5>2. cmd.id \notin LastReductions
          BY <2>1, <2>2, <4>5, LastAtWork
        <5> QED
          BY <2>1, <2>3, <3>3, <4>2, <5>1, <5>2, LastGoes
      <4> QED
        BY <4>3, <4>4, <4>5
    <3>5. CASE ~e.ok
      <4>1. Fail(e.msg)
        BY <3>1, <3>5, Zenon DEF Check
      <4>2. ult_red' = "old" => misreported'
        <5>1. CASE fn = "ReducaoZ"
          BY <3>1, <3>5, <5>1, Zenon DEF Keeps
        <5>2. CASE fn # "ReducaoZ"
          <6>1. UNCHANGED <<ult_red, misreported>>
            BY <3>1, <3>5, <5>2, Zenon DEF Keeps
          <6> QED
            BY <2>3, <6>1
        <5> QED
          BY <5>1, <5>2
      <4> QED
        BY <2>1, <3>2, <3>3, <4>1, <4>2, LastStops
    <3> QED
      BY <3>4, <3>5
  <2> QED
    BY <2>4, <2>5
<1>3. CASE CallRefused
  <2>1. PICK code \in Codes :
          /\ Working /\ Next1.fn \notin Others /\ Check(Refusal(Next1.fn, code))
          /\ UNCHANGED <<cmd, ult_red, misreported>>
    BY <1>3 DEF CallRefused, IsCall
  <2> DEFINE e == EvalStatus(Refusal(Next1.fn, code), ignoring, m_stsmsg)
  <2>2. Fail(e.msg)
    BY <2>1, RefusalFaulty, Zenon DEF Check
  <2>3. e.msg # "no answer"
    BY <1>0, WordsGiven, TextsOfWords, Zenon
  <2>4. ult_red = "old" => misreported
    <3>1. "empty" \in Others
      BY Zenon DEF Others
    <3> QED
      BY <2>1, <3>1, LastAtWork
  <2> QED
    BY <1>0, <2>1, <2>2, <2>3, <2>4, LastStops
<1>4. CASE CallFails
  <2>1. /\ Working /\ Next1.fn \notin Others /\ Fail("retmsg") /\ UNCHANGED cmd
        /\ Keeps(Next1.fn, FALSE) \/ UNCHANGED <<ult_red, misreported>>
    BY <1>4 DEF CallFails, IsCall
  <2>2. ult_red = "old" => misreported
    <3>1. "empty" \in Others
      BY Zenon DEF Others
    <3> QED
      BY <2>1, <3>1, LastAtWork
  <2>3. ult_red' \in {"none", "last", "old"} /\ (ult_red' = "old" => misreported')
    <3>1. CASE UNCHANGED <<ult_red, misreported>>
      BY <1>0, <2>2, <3>1
    <3>2. CASE Keeps(Next1.fn, FALSE)
      <4>1. CASE Next1.fn = "ReducaoZ"
        BY <1>0, <3>2, <4>1, Zenon DEF Keeps
      <4>2. CASE Next1.fn # "ReducaoZ"
        <5>1. UNCHANGED <<ult_red, misreported>>
          BY <3>2, <4>2, Zenon DEF Keeps
        <5> QED
          BY <1>0, <2>2, <5>1
      <4> QED
        BY <4>1, <4>2
    <3> QED
      BY <2>1, <3>1, <3>2
  <2> QED
    BY <2>1, <2>3, LastStops
<1>5. CASE ReadTable \/ Test \/ Suppress \/ Throws \/ LoadConfig
  <2>1. /\ Working /\ UNCHANGED <<cmd, ult_red, misreported>>
        /\ Next1.fn \in {"read", "present", "absent", "found", "suppress", "throw", "load"}
        /\ \/ Fail("thrown")
           \/ /\ UNCHANGED answer /\ Next1.fn # "throw"
              /\ \/ todo' \in {Tail(todo), <<>>}
                 \/ Next1.fn = "read" /\ todo' = Next1.text \o Tail(todo)
    BY <1>5 DEF ReadTable, Test, Suppress, Throws, LoadConfig, At, Proceed, driverVars
  <2>2. ult_red = "old" => misreported
    BY <2>1, LastAtWork
  <2>3. CASE Fail("thrown")
    BY <1>0, <2>1, <2>2, <2>3, LastStops
  <2>4. CASE ~Fail("thrown")
    <3>1. cmd.id \notin LastReductions
      BY <2>1, <2>4, LastAtWork
    <3>2. Clears(todo')
      BY <2>1, <2>4, LastAtWork, FewClear
    <3> QED
      BY <1>0, <2>1, <2>2, <2>4, <3>1, <3>2, LastGoes
  <2> QED
    BY <2>3, <2>4
<1>6. CASE EmptyUltRed
  <2>1. /\ Working /\ Next1.fn = "empty" /\ ult_red' = "none" /\ todo' = Tail(todo)
        /\ UNCHANGED <<cmd, answer>>
    BY <1>6 DEF EmptyUltRed, At, Proceed
  <2>2. cmd.id \notin LastReductions /\ Clears(Tail(todo))
    BY <2>1, LastAtWork
  <2> QED
    BY <2>1, <2>2, LastGoes
<1>7. CASE Restart \/ Escapes
  <2>1. Restart
    BY <1>7, Zenon DEF Escapes
  <2>2. /\ cmd' = Starting /\ todo' = Constructor /\ ult_red' = "none" /\ ~Answered'
    BY <2>1 DEF Restart, Answered
  <2>3. Starting.id \notin LastReductions /\ Starting # Idle
    <3>1. Starting.id = "ecf_bematech"
      BY DEF Starting
    <3> QED
      BY <3>1, StartingIsBusy, Zenon DEF LastReductions, Idle
  <2>4. Clears(todo)'
    BY <2>2, FewClear DEF Clears
  <2> QED
    BY <2>2, <2>3, <2>4 DEF LastInv, Idle
<1>8. CASE Finish
  <2>1. /\ cmd # Idle /\ todo = <<>> /\ ~Answered /\ UNCHANGED <<cmd, todo, ult_red, misreported>>
    BY <1>8 DEF Finish, driverVars
  <2>2. ult_red = "old" => misreported
    <3>1. Emptied # <<>>
      BY OneStep, Zenon DEF Emptied
    <3> QED
      BY <2>1, <3>1, Zenon DEF LastInv
  <2>3. cmd.id \in LastReductions => LastKnown
    <3>1. Call("DataHoraReducao") # <<>> /\ Throw # <<>>
      BY OneStep, Zenon DEF Call, Throw
    <3> QED
      BY <2>1, <3>1, Zenon DEF LastInv
  <2>4. (Clears(todo) \/ todo = Reduction)' /\ LastKnown' = LastKnown
    BY <2>1, FewClear DEF Clears, LastKnown
  <2>5. Answered'
    <3>1. answer'.msg = "" /\ NoAnswer.msg = "no answer"
      BY <1>8 DEF Finish, NoAnswer
    <3>2. answer' # NoAnswer
      BY <3>1
    <3> QED
      BY <3>2, Zenon DEF Answered, NoAnswer
  <2> QED
    BY <1>0, <2>1, <2>2, <2>3, <2>4, <2>5 DEF LastInv
<1>9. CASE Reply
  <2>1. /\ Answered /\ cmd' = Idle /\ todo' = <<>> /\ ~Answered'
        /\ UNCHANGED <<ult_red, misreported>>
    BY <1>9 DEF Reply, Answered, driverVars
  <2>2. Clears(todo)'
    BY <2>1, FewClear DEF Clears
  <2> QED
    BY <1>0, <2>1, <2>2 DEF LastInv, Idle
<1>10. CASE Paper \/ UNCHANGED vars
  <2>1. UNCHANGED <<cmd, todo, answer, ult_red, misreported>>
    BY <1>10 DEF Paper, driverVars, tradeVars, vars
  <2>2. Clears(todo)' <=> Clears(todo)
    BY <2>1 DEF Clears
  <2> QED
    BY <2>1, <2>2 DEF LastInv, Answered, LastKnown
<1> QED
  BY <1>1, <1>2, <1>3, <1>4, <1>5, <1>6, <1>7, <1>8, <1>9, <1>10, Zenon DEF Next

LEMMA LastAlways == Spec => []LastInv
<1>1. Init => LastInv
  <2> SUFFICES ASSUME Init PROVE LastInv
    OBVIOUS
  <2>1. /\ cmd = Starting /\ todo = Constructor /\ ult_red = "none" /\ ~Answered
    BY DEF Init, Answered
  <2>2. Starting.id \notin LastReductions /\ Starting # Idle
    <3>1. Starting.id = "ecf_bematech"
      BY DEF Starting
    <3> QED
      BY <3>1, StartingIsBusy, Zenon DEF LastReductions, Idle
  <2> QED
    BY <2>1, <2>2, FewClear DEF LastInv
<1>2. DoneInv /\ LastInv /\ [Next]_vars => LastInv'
  BY LastStep
<1> QED
  BY <1>1, <1>2, DoneAlways, PTL DEF Spec

\* The date and the hour answered are of the printer's last reduction, unless one
\* was carried out and its call taken for an error: the reduction that goes well
\* empties what is kept before anything else is asked, and a restart keeps nothing.
THEOREM LastIsKnown == Spec => []LastReductionIsTheLast
<1>1. LastInv => LastReductionIsTheLast
  <2> SUFFICES ASSUME LastInv, Answered, answer.ok, cmd.id \in LastReductions
               PROVE  ult_red = "last" \/ misreported
    BY Zenon DEF LastReductionIsTheLast, LastReductions
  <2> QED
    BY Zenon DEF LastInv, LastKnown
<1> QED
  BY <1>1, LastAlways, PTL

-----------------------------------------------------------------------------
(* The whole report.                                                       *)

WholeReport == "snd_abre_gerencial"
Asked(request) == Complete(request) /\ Given(request, "mensagem")
WholePlan(request) == IF Complete(request) THEN AbreGerencial(request) ELSE Throw

TableRead == Step("VerificaRelatorioGerencialMFD", <<>>)
Lookups == {Step("read", <<TableRead>>), Step("present", <<>>), TableRead}
OpenCall == Step("AbreRelatorioGerencialMFD", <<>>)
CloseCall == Step("FechaRelatorioGerencial", <<>>)
ThrowStep == Step("throw", <<>>)
ReportSteps == Lookups \cup {OpenCall, CloseCall, ThrowStep}

\* What is left to do: the report is to be opened, to be printed, or a throw is
\* yet to come.
ToOpen(p) ==
  \E a \in Seq(Lookups), c \in Seq(Prints) :
    p = a \o (<<OpenCall>> \o (c \o <<CloseCall>>))
ToPrint(p) == \E c \in Seq(Prints) : p = c \o <<CloseCall>>
ToThrow(p) == p \in Seq(ReportSteps) /\ \E i \in DOMAIN p : p[i] = ThrowStep

\* A report that is given its text has it printed and is closed, unless the printer
\* or the library fails it; another one comes to a throw.
Reporting ==
  /\ cmd \in Requests /\ plan = WholePlan(cmd)
  /\ ~Answered /\ Asked(cmd) =>
       (ToOpen(todo) /\ ~Opened) \/ ToPrint(todo) \/ (todo = <<>> /\ doc # "report")
  /\ ~Answered /\ ~Asked(cmd) => ToThrow(todo)
  /\ Answered /\ ~Asked(cmd) => ~answer.ok
  /\ ~Complete(cmd) => ~Opened /\ (~Answered => todo = Throw)
  /\ ReportStaysOpenOnFaults
ReportInv == cmd # Idle /\ cmd.id = WholeReport => Reporting

LEMMA ReportStepNames ==
  /\ \A s \in Lookups : s.fn \in {"read", "present", "VerificaRelatorioGerencialMFD"}
  /\ \A s \in Lookups : s.fn = "read" => s.text = <<TableRead>>
  /\ OpenCall.fn = "AbreRelatorioGerencialMFD" /\ CloseCall.fn = "FechaRelatorioGerencial"
  /\ ThrowStep.fn = "throw"
  /\ \A s \in Prints : s.fn \in PrintNames
<1>1. \A s \in Prints : s.fn \in PrintNames
  BY DEF Prints
<1>2. /\ OpenCall.fn = "AbreRelatorioGerencialMFD"
      /\ CloseCall.fn = "FechaRelatorioGerencial" /\ ThrowStep.fn = "throw"
      /\ TableRead.fn = "VerificaRelatorioGerencialMFD"
  BY StepParts, Zenon DEF OpenCall, CloseCall, ThrowStep, TableRead
<1>3. /\ Step("read", <<TableRead>>).fn = "read" /\ Step("present", <<>>).fn = "present"
      /\ Step("read", <<TableRead>>).text = <<TableRead>>
  BY StepParts
<1>4. \A s \in Lookups : s.fn \in {"read", "present", "VerificaRelatorioGerencialMFD"}
  BY <1>2, <1>3, Zenon DEF Lookups
<1>5. \A s \in Lookups : s.fn = "read" => s.text = <<TableRead>>
  BY <1>2, <1>3, Zenon DEF Lookups
<1> HIDE DEF Lookups, Prints, TableRead, OpenCall, CloseCall, ThrowStep
<1> QED
  BY <1>1, <1>2, <1>4, <1>5

LEMMA ToOpenParts ==
  ASSUME NEW p, ToOpen(p)
  PROVE  /\ p # <<>>
         /\ \/ /\ Head(p) \in Lookups /\ ToOpen(Tail(p))
               /\ Head(p).fn = "read" => ToOpen(Head(p).text \o Tail(p))
            \/ Head(p) = OpenCall /\ ToPrint(Tail(p))
<1>1. PICK a \in Seq(Lookups), c \in Seq(Prints) :
        p = a \o (<<OpenCall>> \o (c \o <<CloseCall>>))
  BY Zenon DEF ToOpen
<1> DEFINE U == Lookups \cup {OpenCall} \cup Prints \cup {CloseCall}
           r == c \o <<CloseCall>>
           q == <<OpenCall>> \o r
<1>2. TableRead \in Lookups /\ OpenCall \in U /\ Lookups \subseteq U
  BY Zenon DEF Lookups
<1>3. r \in Seq(U) /\ q \in Seq(U) /\ a \in Seq(U)
  <2> HIDE DEF Lookups, OpenCall, Prints, CloseCall
  <2> QED
    BY SMT
<1>4. p = a \o q /\ ToPrint(r)
  BY <1>1, Zenon DEF ToPrint
<1> HIDE DEF U, r
<1>5. q # <<>> /\ Head(q) = OpenCall /\ Tail(q) = r
  BY <1>3, StepThen
<1>6. \A b \in Seq(Lookups) : ToOpen(b \o q)
  BY Zenon DEF ToOpen, r
<1> HIDE DEF q
<1>7. CASE a = <<>>
  <2>1. p = q
    BY <1>3, <1>4, <1>7
  <2> QED
    BY <1>4, <1>5, <2>1, Zenon
<1>8. CASE a # <<>>
  <2>1. /\ p # <<>> /\ Head(p) = Head(a) /\ Tail(p) = Tail(a) \o q
        /\ Head(a) \in Lookups /\ Tail(a) \in Seq(Lookups)
    <3> HIDE DEF Lookups
    <3> QED
      BY <1>3, <1>4, <1>8
  <2>2. Head(a).fn = "read" => ToOpen(Head(a).text \o (Tail(a) \o q))
    <3> SUFFICES ASSUME Head(a).fn = "read"
                 PROVE  ToOpen(<<TableRead>> \o (Tail(a) \o q))
      BY <2>1, ReportStepNames, Zenon
    <3>1. <<TableRead>> \o Tail(a) \in Seq(Lookups)
      <4> HIDE DEF Lookups, TableRead
      <4> QED
        BY <1>2, <2>1
    <3>2. <<TableRead>> \o (Tail(a) \o q) = (<<TableRead>> \o Tail(a)) \o q
      <4> HIDE DEF Lookups, TableRead
      <4> QED
        BY <1>2, <1>3, <2>1
    <3> QED
      BY <1>6, <3>1, <3>2, Zenon
  <2> QED
    BY <1>6, <2>1, <2>2, Zenon
<1> QED
  BY <1>7, <1>8

LEMMA ToPrintParts ==
  ASSUME NEW p, ToPrint(p)
  PROVE  /\ p # <<>>
         /\ \/ Head(p) \in Prints /\ ToPrint(Tail(p))
            \/ Head(p) = CloseCall /\ Tail(p) = <<>>
<1>1. PICK c \in Seq(Prints) : p = c \o <<CloseCall>>
  BY Zenon DEF ToPrint
<1> HIDE DEF Prints, CloseCall
<1>2. CASE c = <<>>
  <2>1. p = <<CloseCall>>
    BY <1>1, <1>2
  <2> QED
    BY <2>1
<1>3. CASE c # <<>>
  <2>1. /\ p # <<>> /\ Head(p) = Head(c) /\ Tail(p) = Tail(c) \o <<CloseCall>>
        /\ Head(c) \in Prints /\ Tail(c) \in Seq(Prints)
    BY <1>1, <1>3
  <2> QED
    BY <2>1, Zenon DEF ToPrint
<1> QED
  BY <1>2, <1>3

LEMMA ToThrowParts ==
  ASSUME NEW p, ToThrow(p)
  PROVE  /\ p # <<>> /\ Head(p) \in ReportSteps
         /\ \/ Head(p) = ThrowStep
            \/ /\ ToThrow(Tail(p))
               /\ Head(p).fn = "read" => ToThrow(Head(p).text \o Tail(p))
<1>1. PICK i \in DOMAIN p : p \in Seq(ReportSteps) /\ p[i] = ThrowStep
  BY Zenon DEF ToThrow
<1>2. TableRead \in ReportSteps
  BY Zenon DEF ReportSteps, Lookups
<1>3. p # <<>> /\ Head(p) \in ReportSteps /\ Tail(p) \in Seq(ReportSteps) /\ Head(p) = p[1]
  <2> HIDE DEF ReportSteps, ThrowStep
  <2> QED
    BY <1>1
<1>4. CASE i = 1
  BY <1>1, <1>3, <1>4
<1>5. CASE i # 1
  <2>1. i - 1 \in DOMAIN Tail(p) /\ Tail(p)[i - 1] = ThrowStep
    <3> HIDE DEF ReportSteps, ThrowStep
    <3> QED
      BY <1>1, <1>3, <1>5
  <2>2. <<TableRead>> \o Tail(p) \in Seq(ReportSteps)
        /\ i \in DOMAIN (<<TableRead>> \o Tail(p))
        /\ (<<TableRead>> \o Tail(p))[i] = ThrowStep
    <3> HIDE DEF ReportSteps, ThrowStep, TableRead
    <3> QED
      BY <1>1, <1>2, <1>3, <1>5, <2>1
  <2>3. Head(p).fn = "read" => Head(p).text = <<TableRead>>
    <3>1. \A s \in ReportSteps : s.fn = "read" => s \in Lookups
      BY ReportStepNames, Zenon DEF ReportSteps
    <3> QED
      BY <1>3, <3>1, ReportStepNames, Zenon
  <2> QED
    BY <1>3, <2>1, <2>2, <2>3, Zenon DEF ToThrow
<1> QED
  BY <1>4, <1>5

\* The plan of a report, and what it comes to.
LEMMA WholeProgram ==
  ASSUME NEW request \in Requests, request.id = WholeReport
  PROVE  Program(request) = WholePlan(request)
<1>1. CASE ~Complete(request)
  BY <1>1, Zenon DEF Program, WholePlan
<1>2. CASE Complete(request)
  <2>1. Commands[request.id].op = "abre_gerencial"
    BY <1>2, CommandsServe, Zenon DEF Complete, tag_enum, Serves, WholeReport
  <2>2. "abre_gerencial" \notin DOMAIN Operations
    BY OperationsPlanned, Zenon DEF Argued
  <2>3. Steps(request, "abre_gerencial") = AbreGerencial(request)
    BY <2>2, Zenon DEF Steps
  <2> QED
    BY <1>2, <2>1, <2>3, Zenon DEF Program, WholePlan
<1> QED
  BY <1>1, <1>2

LEMMA ThrowsFirst == ToThrow(Throw)
<1>1. Throw = <<ThrowStep>> /\ ThrowStep \in ReportSteps
  BY Zenon DEF Throw, ThrowStep, ReportSteps
<1> HIDE DEF ThrowStep, ReportSteps
<1>2. <<ThrowStep>> \in Seq(ReportSteps) /\ 1 \in DOMAIN <<ThrowStep>>
      /\ <<ThrowStep>>[1] = ThrowStep
  BY <1>1
<1> QED
  BY <1>1, <1>2, Zenon DEF ToThrow

\* The steps before the report is opened make no call of its own.
LEMMA WholeSteps ==
  ASSUME NEW request \in Requests, Complete(request)
  PROVE  \E a \in Seq({s \in Lookups : s.fn \in Others}) :
           /\ a # <<>>
           /\ WholePlan(request) =
                a \o (<<OpenCall>>
                      \o ((IF ~Given(request, "mensagem") THEN <<ThrowStep>>
                           ELSE TxtTagged(MessageOf(request))) \o <<CloseCall>>))
<1> DEFINE reads == Step("read", <<TableRead>>)
           found == Step("present", <<>>)
           body == IF ~Given(request, "mensagem") THEN <<ThrowStep>>
                   ELSE TxtTagged(MessageOf(request))
           V == {s \in Lookups : s.fn \in Others}
           U == V \cup {OpenCall, CloseCall, ThrowStep} \cup Prints
<1>1. WholePlan(request)
      = ((<<reads>> \o <<found>> \o <<OpenCall>>) \o body) \o <<CloseCall>>
  BY ReportOperations, Zenon
     DEF WholePlan, AbreGerencial, Reports, ReadOnce, Present, Call, MessageOf, TableRead,
         OpenCall, CloseCall, ThrowStep, Throw
<1>2. reads \in V /\ found \in V
  <2>1. reads.fn = "read" /\ found.fn = "present" /\ {"read", "present"} \subseteq Others
    BY StepParts, Zenon DEF Others
  <2> QED
    BY <2>1, Zenon DEF Lookups
<1>3. /\ reads \in U /\ found \in U /\ OpenCall \in U /\ CloseCall \in U /\ ThrowStep \in U
  BY <1>2
<1>4. body \in Seq(U)
  <2>1. <<ThrowStep>> \in Seq(U)
    <3> HIDE DEF U
    <3> QED
      BY <1>3
  <2>2. TxtTagged(MessageOf(request)) \in Seq(Prints)
    BY MessageType
  <2>3. Prints \subseteq U
    OBVIOUS
  <2> HIDE DEF U
  <2>4. TxtTagged(MessageOf(request)) \in Seq(U)
    BY <2>2, <2>3, SeqMono, Zenon
  <2> QED
    BY <2>1, <2>4, Zenon
<1> HIDE DEF reads, found, body, V, U
<1>5. ((<<reads>> \o <<found>> \o <<OpenCall>>) \o body) \o <<CloseCall>>
      = (<<reads>> \o <<found>>) \o (<<OpenCall>> \o (body \o <<CloseCall>>))
  BY <1>3, <1>4
<1>6. <<reads>> \o <<found>> \in Seq(V) /\ <<reads>> \o <<found>> # <<>>
  BY <1>2
<1> QED
  BY <1>1, <1>5, <1>6, Zenon DEF V, body

LEMMA ThenLen ==
  ASSUME NEW S, NEW a \in Seq(S), NEW q \in Seq(S)
  PROVE  /\ Len(a \o q) = Len(a) + Len(q)
         /\ \A i \in 1..(Len(a) + Len(q)) : i > Len(a) => (a \o q)[i] = q[i - Len(a)]
OBVIOUS

LEMMA ThenSecond ==
  ASSUME NEW S, NEW a \in Seq(S), NEW q \in Seq(S), Len(q) = 3
  PROVE  /\ a \o q \in Seq(S) /\ Len(a) + 2 \in DOMAIN (a \o q)
         /\ (a \o q)[Len(a) + 2] = q[2]
<1> DEFINE n == Len(a)
           r == a \o q
<1>1. n \in Nat /\ r \in Seq(S)
  OBVIOUS
<1>2. Len(r) = n + 3
  <2>1. Len(r) = n + Len(q)
    BY ThenLen, Zenon
  <2> QED
    BY <2>1, Zenon
<1>3. \A i \in 1..(n + 3) : i > n => r[i] = q[i - n]
  BY <1>2, ThenLen, Zenon
<1> HIDE DEF n, r
<1>4. n + 2 \in DOMAIN r
  <2>1. DOMAIN r = 1..(n + 3)
    BY <1>1, <1>2
  <2> QED
    BY <1>1, <2>1
<1>5. r[n + 2] = q[2]
  <2>1. r[n + 2] = q[n + 2 - n]
    BY <1>1, <1>3
  <2>2. n + 2 - n = 2
    BY <1>1
  <2> QED
    BY <2>1, <2>2, Zenon
<1> QED
  BY <1>1, <1>4, <1>5, Zenon DEF n, r

LEMMA WholeBegins ==
  ASSUME NEW request \in Requests
  PROVE  /\ Asked(request) => ToOpen(WholePlan(request))
         /\ ~Asked(request) => ToThrow(WholePlan(request))
<1>1. CASE ~Complete(request)
  BY <1>1, ThrowsFirst, Zenon DEF WholePlan, Asked
<1>2. CASE Complete(request)
  <2> DEFINE V == {s \in Lookups : s.fn \in Others}
             body == IF ~Given(request, "mensagem") THEN <<ThrowStep>>
                     ELSE TxtTagged(MessageOf(request))
  <2>1. PICK a \in Seq(V) : WholePlan(request) = a \o (<<OpenCall>> \o (body \o <<CloseCall>>))
    BY <1>2, WholeSteps
  <2>2. V \subseteq Lookups /\ V \subseteq ReportSteps
    BY Zenon DEF ReportSteps
  <2>3. a \in Seq(Lookups) /\ a \in Seq(ReportSteps)
    BY <2>2, SeqMono, Zenon
  <2>4. CASE Asked(request)
    <3>1. body = TxtTagged(MessageOf(request)) /\ body \in Seq(Prints)
      BY <2>4, MessageType, Zenon DEF Asked
    <3> QED
      BY <2>1, <2>3, <2>4, <3>1, Zenon DEF ToOpen
  <2>5. CASE ~Asked(request)
    <3>1. body = <<ThrowStep>>
      BY <1>2, <2>5, Zenon DEF Asked
    <3> DEFINE p == a \o (<<OpenCall>> \o (<<ThrowStep>> \o <<CloseCall>>))
    <3>2. p \in Seq(ReportSteps) /\ Len(a) + 2 \in DOMAIN p /\ p[Len(a) + 2] = ThrowStep
      <4>1. OpenCall \in ReportSteps /\ CloseCall \in ReportSteps /\ ThrowStep \in ReportSteps
        BY Zenon DEF ReportSteps
      <4> HIDE DEF V, body
      <4>2. a \in Seq(ReportSteps)
        BY <2>3
      <4> DEFINE q == <<OpenCall>> \o (<<ThrowStep>> \o <<CloseCall>>)
      <4> HIDE DEF ReportSteps, ThrowStep, OpenCall, CloseCall
      <4>3. q \in Seq(ReportSteps) /\ Len(q) = 3 /\ q[2] = ThrowStep
        BY <4>1
      <4> HIDE DEF q
      <4>4. /\ a \o q \in Seq(ReportSteps) /\ Len(a) + 2 \in DOMAIN (a \o q)
            /\ (a \o q)[Len(a) + 2] = q[2]
        BY <4>2, <4>3, ThenSecond
      <4> QED
        BY <4>3, <4>4 DEF q
    <3> QED
      BY <2>1, <2>5, <3>1, <3>2, Zenon DEF ToThrow
  <2> QED
    BY <2>4, <2>5
<1> QED
  BY <1>1, <1>2

LEMMA StillUnopened ==
  ASSUME NEW T, done \in Seq(T), ~Opened, Next1.fn # "AbreRelatorioGerencialMFD",
         done' = Append(done, Next1)
  PROVE  ~Opened'
<1>1. \A i \in DOMAIN done : done[i].fn # "AbreRelatorioGerencialMFD"
  BY Zenon DEF Opened
<1> DEFINE s == Next1
<1>2. \A i \in DOMAIN done' : (i \in DOMAIN done /\ done'[i] = done[i]) \/ done'[i] = s
  <2> HIDE DEF s
  <2> QED
    BY DEF s
<1> QED
  BY <1>1, <1>2 DEF Opened

\* A report at work.
ReportNames ==
  {"read", "present", "throw", "VerificaRelatorioGerencialMFD",
   "AbreRelatorioGerencialMFD", "FechaRelatorioGerencial"} \cup PrintNames

LEMMA ReportAtWork ==
  ASSUME DoneInv, ReportInv, Working, cmd.id = WholeReport
  PROVE  /\ cmd # Idle /\ ~Answered /\ ~Swallowed /\ Reporting
         /\ \E T : done \in Seq(T)
         /\ Asked(cmd) =>
              \/ /\ ~Opened /\ Next1 \in Lookups /\ ToOpen(Tail(todo))
                 /\ Next1.fn = "read" => ToOpen(Next1.text \o Tail(todo))
              \/ ~Opened /\ Next1 = OpenCall /\ ToPrint(Tail(todo))
              \/ Next1 \in Prints /\ ToPrint(Tail(todo))
              \/ Next1 = CloseCall /\ Tail(todo) = <<>>
         /\ ~Asked(cmd) =>
              \/ Next1 = ThrowStep
              \/ /\ ToThrow(Tail(todo))
                 /\ Next1.fn = "read" => ToThrow(Next1.text \o Tail(todo))
         /\ ~Complete(cmd) => ~Opened /\ Next1 = ThrowStep
         /\ Next1.fn \in ReportNames
<1>1. cmd # Idle /\ ~Answered /\ todo # <<>>
  BY AtWork, Zenon DEF Working
<1>2. ~Swallowed
  <2>1. Starting.id = "ecf_bematech"
    BY DEF Starting
  <2> QED
    BY <2>1, Zenon DEF Swallowed, WholeReport
<1>3. Reporting
  BY <1>1, Zenon DEF ReportInv
<1>4. \E T : done \in Seq(T)
  <2>1. <<>> \in Seq({})
    OBVIOUS
  <2>2. (\E T : Followed(T)) \/ Doubtful
    BY <1>2, AtWork
  <2> QED
    BY <2>1, <2>2, Zenon DEF Followed, Doubtful
<1>5. Asked(cmd) => (ToOpen(todo) /\ ~Opened) \/ ToPrint(todo)
  BY <1>1, <1>3, Zenon DEF Reporting
<1>6. ~Asked(cmd) => ToThrow(todo)
  BY <1>1, <1>3, Zenon DEF Reporting
<1>7. Asked(cmd) =>
        \/ /\ ~Opened /\ Next1 \in Lookups /\ ToOpen(Tail(todo))
           /\ Next1.fn = "read" => ToOpen(Next1.text \o Tail(todo))
        \/ ~Opened /\ Next1 = OpenCall /\ ToPrint(Tail(todo))
        \/ Next1 \in Prints /\ ToPrint(Tail(todo))
        \/ Next1 = CloseCall /\ Tail(todo) = <<>>
  BY <1>5, ToOpenParts, ToPrintParts, Zenon DEF Next1
<1>8. ~Asked(cmd) =>
        /\ Next1 \in ReportSteps
        /\ \/ Next1 = ThrowStep
           \/ /\ ToThrow(Tail(todo))
              /\ Next1.fn = "read" => ToThrow(Next1.text \o Tail(todo))
  BY <1>6, ToThrowParts, Zenon DEF Next1
<1>9. ~Complete(cmd) => ~Opened /\ Next1 = ThrowStep
  <2>1. Head(Throw) = ThrowStep
    BY OneStep, Zenon DEF Throw, ThrowStep
  <2> QED
    BY <1>1, <1>3, <2>1, Zenon DEF Reporting, Next1
<1>10. Next1.fn \in ReportNames
  <2>1. Next1 \in ReportSteps \cup Prints
    BY <1>7, <1>8, Zenon DEF ReportSteps
  <2> QED
    BY <2>1, ReportStepNames, Zenon DEF ReportSteps, ReportNames
<1> QED
  BY <1>1, <1>2, <1>3, <1>4, <1>7, <1>8, <1>9, <1>10, Zenon

LEMMA ReportGoes ==
  ASSUME DoneInv, ReportInv, Working, UNCHANGED <<cmd, plan, answer>>,
         cmd.id = WholeReport /\ Asked(cmd) =>
           (ToOpen(todo') /\ ~Opened') \/ ToPrint(todo') \/ (todo' = <<>> /\ doc' # "report"),
         cmd.id = WholeReport /\ ~Asked(cmd) => ToThrow(todo') /\ Next1 # ThrowStep
  PROVE  ReportInv'
<1> SUFFICES ASSUME cmd.id = WholeReport PROVE Reporting'
  BY Zenon DEF ReportInv
<1>1. ~Answered /\ Reporting /\ Complete(cmd)
  BY ReportAtWork, Zenon DEF Asked
<1>2. ~Answered'
  BY <1>1 DEF Answered
<1>3. /\ WholePlan(cmd)' = WholePlan(cmd) /\ Asked(cmd)' = Asked(cmd)
      /\ Complete(cmd)' = Complete(cmd)
  BY DEF Asked, WholePlan
<1>4. cmd' = cmd /\ cmd \in Requests /\ plan' = WholePlan(cmd)'
  BY <1>1, <1>3, Zenon DEF Reporting
<1>5. ReportStaysOpenOnFaults'
  BY <1>2, Zenon DEF ReportStaysOpenOnFaults
<1>6. (ToOpen(todo') <=> ToOpen(todo)') /\ (ToPrint(todo') <=> ToPrint(todo)')
      /\ (ToThrow(todo') <=> ToThrow(todo)')
  BY DEF ToOpen, ToPrint, ToThrow
<1> QED
  BY <1>1, <1>2, <1>3, <1>4, <1>5, <1>6, Zenon DEF Reporting

LEMMA ReportStops ==
  ASSUME DoneInv, ReportInv, Working, NEW msg, Fail(msg), msg # "no answer",
         UNCHANGED <<cmd, plan>>,
         msg = "thrown" => UNCHANGED done /\ Next1.fn \in Others,
         cmd.id = WholeReport /\ ~Complete(cmd) => UNCHANGED done
  PROVE  ReportInv'
<1> SUFFICES ASSUME cmd.id = WholeReport PROVE Reporting'
  BY Zenon DEF ReportInv
<1>1. Reporting /\ ~Swallowed
  BY ReportAtWork
<1>2. answer' = [ok |-> FALSE, msg |-> msg]
  BY <1>1, Zenon DEF Fail
<1>3. answer'.ok = FALSE /\ answer'.msg = msg /\ NoAnswer.msg = "no answer"
  BY <1>2 DEF NoAnswer
<1>4. Answered'
  <2>1. answer' # NoAnswer
    BY <1>3, Zenon
  <2> QED
    BY <2>1 DEF Answered, NoAnswer
<1>5. /\ WholePlan(cmd)' = WholePlan(cmd) /\ Asked(cmd)' = Asked(cmd)
      /\ Complete(cmd)' = Complete(cmd) /\ Given(cmd, "mensagem")' = Given(cmd, "mensagem")
  BY DEF Asked, WholePlan
<1>6. UNCHANGED done => Opened' = Opened
  BY DEF Opened
<1>7. ~Complete(cmd) => ~Opened'
  BY <1>6, ReportAtWork, Zenon
<1>8. ASSUME Given(cmd, "mensagem"), Opened' PROVE msg # "thrown"
  <2> SUFFICES ASSUME msg = "thrown" PROVE FALSE
    OBVIOUS
  <2>1. Opened /\ Next1.fn \in Others
    BY <1>6, <1>8, Zenon
  <2>2. Asked(cmd)
    BY <1>7, <1>8, Zenon DEF Asked
  <2>3. Next1 \in Prints \/ Next1 = CloseCall
    BY <2>1, <2>2, ReportAtWork, Zenon
  <2>4. Next1.fn \in PrintNames \cup {"FechaRelatorioGerencial"}
    BY <2>3, ReportStepNames, Zenon
  <2> QED
    BY <2>1, <2>4, Zenon DEF PrintNames, Others
<1>9. ReportStaysOpenOnFaults'
  BY <1>3, <1>5, <1>8, Zenon DEF ReportStaysOpenOnFaults
<1>10. cmd' = cmd /\ cmd \in Requests /\ plan' = WholePlan(cmd)'
  BY <1>1, <1>5, Zenon DEF Reporting
<1> QED
  BY <1>3, <1>4, <1>5, <1>7, <1>9, <1>10, Zenon DEF Reporting

LEMMA ClosesIt == After("FechaRelatorioGerencial") = "none"
<1>1. "FechaRelatorioGerencial" \notin DOMAIN Opens
  BY SMT DEF Opens
<1>2. "FechaRelatorioGerencial" \in DOMAIN Ends
  BY SMT DEF Ends
<1> QED
  BY <1>1, <1>2, Zenon DEF After

\* A call that was carried out and found well.
LEMMA ReportCalls ==
  ASSUME DoneInv, ReportInv, IsCall, CarriedOut(Next1.fn), done' = Append(done, Next1),
         Proceed, UNCHANGED <<cmd, plan>>
  PROVE  ReportInv'
<1>1. Working /\ Next1.fn \notin Others /\ todo' = Tail(todo) /\ UNCHANGED answer
  BY DEF IsCall, Proceed
<1>2. "throw" \in Others
  BY Zenon DEF Others
<1>3. Next1 # ThrowStep
  BY <1>1, <1>2, ReportStepNames, Zenon
<1>4. ASSUME cmd.id = WholeReport, Asked(cmd)
      PROVE  \/ (ToOpen(todo') /\ ~Opened') \/ ToPrint(todo')
             \/ todo' = <<>> /\ doc' # "report"
  <2>1. CASE ~Opened /\ Next1 \in Lookups /\ ToOpen(Tail(todo))
    <3>1. Next1.fn # "AbreRelatorioGerencialMFD"
      BY <2>1, ReportStepNames, Zenon
    <3>2. PICK T : done \in Seq(T)
      BY <1>1, <1>4, ReportAtWork
    <3>3. ~Opened'
      BY <2>1, <3>1, <3>2, StillUnopened
    <3> QED
      BY <1>1, <2>1, <3>3
  <2>2. CASE ToPrint(Tail(todo))
    BY <1>1, <2>2
  <2>3. CASE Next1 = CloseCall /\ Tail(todo) = <<>>
    <3>1. Next1.fn = "FechaRelatorioGerencial"
      BY <2>3, ReportStepNames, Zenon
    <3>2. doc' = "none"
      BY <3>1, ClosesIt, Zenon DEF CarriedOut
    <3> QED
      BY <1>1, <2>3, <3>2
  <2> QED
    BY <1>1, <1>4, <2>1, <2>2, <2>3, ReportAtWork, Zenon
<1>5. cmd.id = WholeReport /\ ~Asked(cmd) => ToThrow(todo')
  BY <1>1, <1>3, ReportAtWork, Zenon
<1> QED
  BY <1>1, <1>3, <1>4, <1>5, ReportGoes

LEMMA ReportStep ==
  ASSUME DoneInv, ReportInv, [Next]_vars
  PROVE  ReportInv'
<1>0. /\ m_stsmsg \in StatusTexts /\ paper \in {"ok", "low", "out"}
      /\ \A msg \in StatusTexts \cup {"retmsg"} : msg # "no answer" /\ msg # "thrown"
  BY OtherAnswers, Zenon DEF DoneInv, NoTexts, StatusTexts
<1>1. CASE \E request \in Requests : Trade(request)
  <2>1. PICK request \in Requests : Trade(request)
    BY <1>1
  <2>2. /\ cmd' = request /\ todo' = Program(request) /\ plan' = Program(request)
        /\ ~Answered' /\ done' = <<>>
    BY <2>1 DEF Trade, DoneInv, Resting, Answered
  <2> SUFFICES ASSUME request.id = WholeReport PROVE Reporting'
    BY <2>2, Zenon DEF ReportInv
  <2>3. todo' = WholePlan(request) /\ plan' = WholePlan(request)
    BY <2>2, WholeProgram
  <2>4. ~Opened'
    BY <2>2 DEF Opened
  <2>5. /\ WholePlan(cmd)' = WholePlan(request) /\ Asked(cmd)' = Asked(request)
        /\ Complete(cmd)' = Complete(request)
    BY <2>2 DEF Asked, WholePlan
  <2>6. /\ Asked(request) => ToOpen(todo)'
        /\ ~Asked(request) => ToThrow(todo)'
    BY <2>3, WholeBegins DEF ToOpen, ToThrow
  <2>7. ~Complete(request) => todo' = Throw
    BY <2>3, Zenon DEF WholePlan
  <2>8. ReportStaysOpenOnFaults'
    BY <2>2, Zenon DEF ReportStaysOpenOnFaults
  <2>9. Throw' = Throw
    BY DEF Throw
  <2> QED
    BY <2>2, <2>3, <2>4, <2>5, <2>6, <2>7, <2>8, <2>9, Zenon DEF Reporting
<1>2. CASE CallDone
  <2>1. /\ IsCall /\ Working /\ CarriedOut(Next1.fn) /\ done' = Append(done, Next1)
        /\ UNCHANGED <<cmd, plan>> /\ Next1.fn \notin Others
        /\ Proceed \/ Check(Word)
    BY <1>2 DEF CallDone, IsCall
  <2>2. CASE Proceed
    BY <2>1, <2>2, ReportCalls
  <2>3. CASE Check(Word) /\ ~Proceed
    <3> DEFINE e == EvalStatus(Word, ignoring, m_stsmsg)
    <3>1. Fail(e.msg)
      BY <2>3, Zenon DEF Check
    <3>2. e.msg # "no answer" /\ e.msg # "thrown"
      BY <1>0, WordsGiven, TextsOfWords, Zenon
    <3>3. cmd.id = WholeReport => Complete(cmd)
      <4>1. "throw" \in Others
        BY Zenon DEF Others
      <4> QED
        BY <2>1, <4>1, ReportAtWork, ReportStepNames, Zenon
    <3> QED
      BY <2>1, <3>1, <3>2, <3>3, ReportStops
  <2> QED
    BY <2>1, <2>2, <2>3
<1>3. CASE CallRefused
  <2>1. PICK code \in Codes :
          /\ Working /\ Next1.fn \notin Others /\ Check(Refusal(Next1.fn, code))
          /\ UNCHANGED <<cmd, plan, done>>
    BY <1>3 DEF CallRefused, IsCall
  <2> DEFINE e == EvalStatus(Refusal(Next1.fn, code), ignoring, m_stsmsg)
  <2>2. Fail(e.msg)
    BY <2>1, RefusalFaulty, Zenon DEF Check
  <2>3. e.msg # "no answer" /\ e.msg # "thrown"
    BY <1>0, WordsGiven, TextsOfWords, Zenon
  <2> QED
    BY <2>1, <2>2, <2>3, ReportStops
<1>4. CASE CallFails
  <2>1. /\ Working /\ Next1.fn \notin Others /\ Fail("retmsg") /\ UNCHANGED <<cmd, plan>>
    BY <1>4 DEF CallFails, IsCall
  <2>2. cmd.id = WholeReport => Complete(cmd)
    <3>1. "throw" \in Others
      BY Zenon DEF Others
    <3> QED
      BY <2>1, <3>1, ReportAtWork, ReportStepNames, Zenon
  <2> QED
    BY <2>1, <2>2, ReportStops
<1>5. CASE ReadTable \/ Test \/ Suppress \/ Throws \/ LoadConfig \/ EmptyUltRed
  <2>1. /\ Working /\ UNCHANGED <<cmd, plan, done>>
        /\ Next1.fn \in {"read", "present", "absent", "found", "suppress", "throw", "load",
                         "empty"}
        /\ \/ Fail("thrown")
           \/ /\ UNCHANGED answer /\ Next1.fn # "throw"
              /\ \/ Next1.fn \in {"suppress", "load", "empty"} \/ todo' = Tail(todo)
                 \/ Next1.fn = "read" /\ todo' = Next1.text \o Tail(todo)
    BY <1>5 DEF ReadTable, Test, Suppress, Throws, LoadConfig, EmptyUltRed, At, Proceed,
                driverVars
  <2>2. Next1.fn \in Others
    BY <2>1, Zenon DEF Others
  <2>3. CASE Fail("thrown")
    BY <2>1, <2>2, <2>3, ReportStops
  <2>4. CASE ~Fail("thrown")
    <3>1. Opened' = Opened
      BY <2>1 DEF Opened
    <3>2. ASSUME cmd.id = WholeReport
          PROVE  todo' = Tail(todo) \/ (Next1.fn = "read" /\ todo' = Next1.text \o Tail(todo))
      <4>1. Next1.fn \in ReportNames
        BY <2>1, <3>2, ReportAtWork
      <4>2. Next1.fn \notin {"suppress", "load", "empty"}
        BY <4>1, Zenon DEF ReportNames, PrintNames
      <4> QED
        BY <2>1, <2>4, <4>2, Zenon
    <3>3. ASSUME cmd.id = WholeReport, Asked(cmd) PROVE ToOpen(todo') /\ ~Opened'
      <4>1. Next1 \notin Prints /\ Next1 # CloseCall /\ Next1 # OpenCall
        BY <2>2, ReportStepNames, Zenon DEF Others, PrintNames
      <4> QED
        BY <2>1, <3>1, <3>2, <3>3, <4>1, ReportAtWork, Zenon
    <3>4. Next1 # ThrowStep
      BY <2>1, <2>4, ReportStepNames, Zenon
    <3>5. cmd.id = WholeReport /\ ~Asked(cmd) => ToThrow(todo')
      BY <2>1, <3>2, <3>4, ReportAtWork, Zenon
    <3> QED
      BY <2>1, <2>4, <3>3, <3>4, <3>5, ReportGoes
  <2> QED
    BY <2>3, <2>4
<1>6. CASE Restart \/ Escapes
  <2>1. cmd' = Starting
    BY <1>6, Zenon DEF Escapes, Restart
  <2>2. Starting.id # WholeReport
    <3>1. Starting.id = "ecf_bematech"
      BY DEF Starting
    <3> QED
      BY <3>1, Zenon DEF WholeReport
  <2> QED
    BY <2>1, <2>2, Zenon DEF ReportInv
<1>7. CASE Finish
  <2>1. /\ cmd # Idle /\ todo = <<>> /\ ~Answered /\ answer' = [ok |-> TRUE, msg |-> ""]
        /\ UNCHANGED <<doc, cmd, plan, todo, done>>
    BY <1>7 DEF Finish
  <2> SUFFICES ASSUME cmd.id = WholeReport PROVE Reporting'
    BY <2>1, Zenon DEF ReportInv
  <2>2. Reporting
    BY <2>1, Zenon DEF ReportInv
  <2>3. ~ToOpen(todo) /\ ~ToPrint(todo) /\ ~ToThrow(todo)
    BY <2>1, ToOpenParts, ToPrintParts, ToThrowParts, Zenon
  <2>4. Asked(cmd) /\ doc # "report"
    BY <2>1, <2>2, <2>3, Zenon DEF Reporting
  <2>5. Answered'
    <3>1. answer'.msg = "" /\ NoAnswer.msg = "no answer"
      BY <2>1 DEF NoAnswer
    <3>2. answer' # NoAnswer
      BY <3>1
    <3> QED
      BY <3>2, Zenon DEF Answered, NoAnswer
  <2>6. /\ WholePlan(cmd)' = WholePlan(cmd) /\ Asked(cmd)' = Asked(cmd)
        /\ Complete(cmd)' = Complete(cmd) /\ doc' = doc
    BY <2>1 DEF Asked, WholePlan
  <2>7. ReportStaysOpenOnFaults'
    BY <2>4, <2>6, Zenon DEF ReportStaysOpenOnFaults
  <2>8. cmd' = cmd /\ cmd \in Requests /\ plan' = WholePlan(cmd)' /\ Complete(cmd)
    BY <2>1, <2>2, <2>4, <2>6, Zenon DEF Reporting, Asked
  <2> QED
    BY <2>4, <2>5, <2>6, <2>7, <2>8, Zenon DEF Reporting
<1>8. CASE Reply
  <2>1. cmd' = Idle
    BY <1>8 DEF Reply
  <2> QED
    BY <2>1 DEF ReportInv, Idle
<1>9. CASE Paper
  <2>1. cmd = Idle /\ cmd' = cmd
    BY <1>9 DEF Paper, tradeVars
  <2> QED
    BY <2>1 DEF ReportInv, Idle
<1>10. CASE UNCHANGED vars
  <2>1. UNCHANGED <<doc, cmd, plan, todo, done, answer>>
    BY <1>10 DEF vars
  <2>2. /\ WholePlan(cmd)' = WholePlan(cmd) /\ Asked(cmd)' = Asked(cmd)
        /\ Complete(cmd)' = Complete(cmd) /\ Given(cmd, "mensagem")' = Given(cmd, "mensagem")
    BY <2>1 DEF Asked, WholePlan
  <2>3. /\ ToOpen(todo)' = ToOpen(todo) /\ ToPrint(todo)' = ToPrint(todo)
        /\ ToThrow(todo)' = ToThrow(todo)
    BY <2>1 DEF ToOpen, ToPrint, ToThrow
  <2>4. (Opened' <=> Opened) /\ (Answered' <=> Answered)
    BY <2>1 DEF Opened, Answered
  <2>5. ReportStaysOpenOnFaults' <=> ReportStaysOpenOnFaults
    BY <2>1, <2>2, <2>4 DEF ReportStaysOpenOnFaults
  <2>6. Reporting' <=> Reporting
    BY <2>1, <2>2, <2>3, <2>4, <2>5 DEF Reporting, Throw
  <2> QED
    BY <2>1, <2>6 DEF ReportInv, Idle
<1> QED
  BY <1>1, <1>2, <1>3, <1>4, <1>5, <1>6, <1>7, <1>8, <1>9, <1>10, Zenon DEF Next

LEMMA ReportAlways == Spec => []ReportInv
<1>1. Init => ReportInv
  <2>1. Starting.id # WholeReport
    <3>1. Starting.id = "ecf_bematech"
      BY DEF Starting
    <3> QED
      BY <3>1, Zenon DEF WholeReport
  <2> QED
    BY <2>1, Zenon DEF Init, ReportInv
<1>2. DoneInv /\ ReportInv /\ [Next]_vars => ReportInv'
  BY ReportStep
<1> QED
  BY <1>1, <1>2, DoneAlways, PTL DEF Spec

\* A report that is given its text is left open only if the printer or the library
\* failed it: nothing is thrown once it is open, and it is not answered before the
\* call that closes it.
THEOREM ReportsClosed == Spec => []ReportStaysOpenOnFaults
<1>1. DoneInv /\ ReportInv => ReportStaysOpenOnFaults
  BY Zenon DEF DoneInv, Resting, ReportInv, Reporting, ReportStaysOpenOnFaults, WholeReport
<1> QED
  BY <1>1, DoneAlways, ReportAlways, PTL

-----------------------------------------------------------------------------
(* The text of a report.                                                   *)

TextOf(s) == IF s.fn = "AcionaGuilhotinaMFD" THEN <<CutTag>> ELSE s.text
OfReport == Prints \cup {OpenCall, CloseCall}
Units == STRING \cup {CutTag}
TextFn == [s \in OfReport |-> TextOf(s)]

LEMMA TextsMade == Makes(TextFn, OfReport, Seq(Units))
<1>1. <<CutTag>> \in Seq(Units) /\ <<>> \in Seq(Units)
  BY DEF Units
<1>2. ASSUME NEW s \in OfReport PROVE TextOf(s) \in Seq(Units)
  <2>1. CASE s \in Prints
    <3>1. s.text \in Seq(STRING)
      BY <2>1 DEF Prints
    <3>2. s.text \in Seq(Units)
      BY <3>1, SeqMono, Zenon DEF Units
    <3> QED
      BY <1>1, <3>2, Zenon DEF TextOf
  <2>2. CASE s \in {OpenCall, CloseCall}
    <3>1. s.text = <<>>
      BY <2>2, StepParts, Zenon DEF OpenCall, CloseCall
    <3> QED
      BY <1>1, <3>1, Zenon DEF TextOf
  <2> QED
    BY <2>1, <2>2 DEF OfReport
<1> QED
  BY <1>2 DEF Makes, TextFn

LEMMA TextsAre == \A seq \in Seq(OfReport) : Texts(seq) = FlattenSeq(Mapped(seq, TextFn))
<1> SUFFICES ASSUME NEW seq \in Seq(OfReport)
             PROVE  Texts(seq) = FlattenSeq(Mapped(seq, TextFn))
  OBVIOUS
<1>1. \A i \in DOMAIN seq : seq[i] \in OfReport
  OBVIOUS
<1>2. \A i \in DOMAIN seq : TextFn[seq[i]] = TextOf(seq[i])
  BY <1>1, Zenon DEF TextFn
<1>3. Mapped(seq, TextFn) = [i \in DOMAIN seq |-> TextOf(seq[i])]
  BY <1>2, Zenon DEF Mapped
<1> QED
  BY <1>3, Zenon DEF Texts, TextOf

LEMMA TextsConcat ==
  \A s, t \in Seq(OfReport) :
    Texts(s) \in Seq(Units) /\ Texts(s \o t) = Texts(s) \o Texts(t)
<1>1. \A s, t \in Seq(OfReport) :
        /\ FlattenSeq(Mapped(s, TextFn)) \in Seq(Units)
        /\ FlattenSeq(Mapped(s \o t, TextFn))
           = FlattenSeq(Mapped(s, TextFn)) \o FlattenSeq(Mapped(t, TextFn))
  BY TextsMade, MappedFlat
<1>2. \A s, t \in Seq(OfReport) : s \o t \in Seq(OfReport)
  OBVIOUS
<1> QED
  BY <1>1, <1>2, TextsAre, Zenon

LEMMA TextsOne ==
  ASSUME NEW s \in OfReport
  PROVE  Texts(<<s>>) = TextOf(s)
<1>1. <<s>> \in Seq(OfReport)
  OBVIOUS
<1>2. Mapped(<<s>>, TextFn) = <<TextFn[s]>> /\ TextFn[s] = TextOf(s)
  BY DEF Mapped, TextFn
<1>3. TextFn[s] \in Seq(Units)
  BY TextsMade DEF Makes
<1> QED
  BY <1>1, <1>2, <1>3, TextsAre, FlattenOne

LEMMA TextsEmpty == Texts(<<>>) = <<>>
<1>1. Mapped(<<>>, TextFn) = <<>> /\ <<>> \in Seq(OfReport)
  BY DEF Mapped
<1> QED
  BY <1>1, TextsAre, FlattenEmpty

\* The pieces of a text are the text.
LEMMA PiecesPrinted == \A msg \in Seq(STRING) : Texts(TxtRelGerencial(msg)) = msg
<1> SUFFICES ASSUME NEW msg \in Seq(STRING) PROVE Texts(TxtRelGerencial(msg)) = msg
  OBVIOUS
<1> DEFINE n == Len(msg)
           P == Pieces(n)
           seq == TxtRelGerencial(msg)
           parts == Mapped(seq, TextFn)
           ends == [k \in 0..P |-> Min({k * LineSize, n})]
<1>1. n \in Nat /\ LineSize \in Nat /\ LineSize > 0
  BY SizePositive
<1>2. P \in Nat /\ P * LineSize >= n /\ 0 * LineSize = 0
  <2> DEFINE L == LineSize
             q == (n + L - 1) \div L
  <2>0. L \in Nat /\ L > 0 /\ n \in Nat
    BY <1>1
  <2> HIDE DEF L, n
  <2>1. n + L - 1 \in Nat /\ q \in Nat /\ q * L + L > n + L - 1
    BY <2>0
  <2>2. q * L \in Nat
    BY <2>0, <2>1
  <2>3. q * L >= n
    BY <2>0, <2>1, <2>2
  <2> QED
    BY <2>0, <2>1, <2>3 DEF Pieces, L
<1>3. /\ seq \in Seq(Prints) /\ Len(seq) = P
      /\ \A i \in 1..P : seq[i] = Piece(msg, i)
  BY <1>2, TxtRelType DEF TxtRelGerencial
<1>4. seq \in Seq(OfReport)
  BY <1>3, SeqMono, Zenon DEF OfReport
<1>5. /\ parts \in Seq(Seq(Units)) /\ Len(parts) = P
      /\ \A i \in 1..Len(seq) : parts[i] = TextFn[seq[i]]
  BY <1>3, <1>4, TextsMade, MappedType
<1>6. ASSUME NEW i \in 1..P
      PROVE  parts[i] = SubSeq(msg, (i - 1) * LineSize + 1, Min({i * LineSize, n}))
  <2>1. /\ Piece(msg, i) \in Prints
        /\ Piece(msg, i).text = SubSeq(msg, (i - 1) * LineSize + 1, Min({i * LineSize, n}))
    BY PieceText
  <2>2. Piece(msg, i).fn = "UsaRelatorioGerencialMFD"
    BY StepParts, Zenon DEF Piece
  <2>3. TextOf(Piece(msg, i)) = Piece(msg, i).text
    BY <2>2, Zenon DEF TextOf
  <2>4. TextFn[Piece(msg, i)] = TextOf(Piece(msg, i))
    BY <2>1, Zenon DEF TextFn, OfReport
  <2>5. parts[i] = TextFn[Piece(msg, i)]
    BY <1>3, <1>5, Zenon
  <2> QED
    BY <2>1, <2>3, <2>4, <2>5, Zenon
<1>7. ASSUME NEW k \in 0..P
      PROVE  /\ Min({k * LineSize, n}) \in 0..n
             /\ k = P => Min({k * LineSize, n}) = n
             /\ k # P => Min({k * LineSize, n}) = k * LineSize
  <2>1. k * LineSize \in Nat
    BY <1>1
  <2>2. /\ Min({k * LineSize, n}) \in {k * LineSize, n}
        /\ \A y \in {k * LineSize, n} : Min({k * LineSize, n}) <= y
    BY <1>1, <2>1, MinOf
  <2>3. k # P => k * LineSize + 1 <= n
    <3> SUFFICES ASSUME k # P PROVE k * LineSize + 1 <= n
      OBVIOUS
    <3> DEFINE i == k + 1
    <3>1. i \in 1..P /\ i - 1 = k
      BY <1>2
    <3> HIDE DEF i
    <3>2. (i - 1) * LineSize + 1 <= n
      BY <1>1, <3>1, PieceBounds
    <3> QED
      BY <3>1, <3>2, Zenon
  <2> DEFINE m == Min({k * LineSize, n})
             x == k * LineSize
  <2>4. x \in Nat /\ m \in {x, n} /\ m <= x /\ m <= n /\ (k # P => x + 1 <= n)
    BY <2>1, <2>2, <2>3
  <2>5. k = P => x >= n
    BY <1>2
  <2> HIDE DEF m, x, P, n
  <2>6. m \in 0..n /\ (k = P => m = n) /\ (k # P => m = x)
    BY <1>1, <2>4, <2>5
  <2> QED
    BY <2>6 DEF m, x
<1>8. \A k \in 0..P : ends[k] = Min({k * LineSize, n})
  OBVIOUS
<1> HIDE DEF ends, parts, P, seq
<1>9. ends \in [0..P -> 0..n] /\ ends[0] = 0 /\ ends[P] = n
  <2>1. 0 \in 0..P /\ P \in 0..P
    BY <1>2
  <2>2. ends \in [0..P -> 0..n]
    BY <1>7 DEF ends
  <2>3. ends[P] = n
    BY <1>7, <1>8, <2>1
  <2>4. ends[0] = 0
    <3>1. CASE P = 0
      <4>1. n = 0
        BY <1>1, <1>2, <3>1
      <4> QED
        BY <2>1, <2>3, <3>1, <4>1
    <3>2. CASE P # 0
      BY <1>2, <1>7, <1>8, <2>1, <3>2
    <3> QED
      BY <3>1, <3>2
  <2> QED
    BY <2>2, <2>3, <2>4
<1>10. ASSUME NEW k \in 0..(P - 1)
       PROVE  /\ ends[k] <= ends[k + 1]
              /\ parts[k + 1] = SubSeq(msg, ends[k] + 1, ends[k + 1])
  <2>1. k \in 0..P /\ k + 1 \in 0..P /\ k # P /\ k + 1 \in 1..P /\ k + 1 - 1 = k
    BY <1>2
  <2>2. ends[k] = k * LineSize /\ ends[k + 1] = Min({(k + 1) * LineSize, n})
    BY <1>7, <1>8, <2>1
  <2>3. ends[k] <= ends[k + 1]
    <3>1. CASE k + 1 = P
      <4>1. ends[k + 1] = n /\ ends[k] \in 0..n
        BY <1>9, <2>1, <3>1
      <4> QED
        BY <1>1, <4>1
    <3>2. CASE k + 1 # P
      <4>1. ends[k + 1] = (k + 1) * LineSize
        BY <1>7, <1>8, <2>1, <3>2
      <4>2. (k + 1) * LineSize = k * LineSize + LineSize /\ k * LineSize \in Nat
        BY <1>1
      <4> QED
        BY <1>1, <2>2, <4>1, <4>2
    <3> QED
      BY <3>1, <3>2
  <2>4. parts[k + 1] = SubSeq(msg, k * LineSize + 1, Min({(k + 1) * LineSize, n}))
    <3> DEFINE i == k + 1
    <3>1. i \in 1..P /\ i - 1 = k
      BY <2>1
    <3> HIDE DEF i
    <3>2. parts[i] = SubSeq(msg, (i - 1) * LineSize + 1, Min({i * LineSize, n}))
      BY <1>6, <3>1
    <3> QED
      BY <3>1, <3>2, Zenon DEF i
  <2> QED
    BY <2>2, <2>3, <2>4, Zenon
<1>11. msg \in Seq(Units)
  BY SeqMono, Zenon DEF Units
<1>12. FlattenSeq(parts) = msg
  BY <1>2, <1>5, <1>9, <1>10, <1>11, PiecesFlatten
<1> QED
  BY <1>4, <1>12, TextsAre, Zenon DEF parts, seq

\* What is printed between the tags, and the cuts at them, are the text.
LEMMA NextTag ==
  ASSUME NEW msg \in Seq(STRING), NEW i \in 1..Len(msg)
  PROVE  LastTag(msg, i + 1) = IF i \in Tags(msg) THEN i ELSE LastTag(msg, i)
<1>1. i \in 1..(Len(msg) + 1) /\ i + 1 \in 1..(Len(msg) + 1) /\ i + 1 - 1 = i
  OBVIOUS
<1>2. /\ LastTag(msg, i) \in 0..(i - 1)
      /\ LastTag(msg, i) # 0 => LastTag(msg, i) \in Tags(msg)
      /\ \A j \in Tags(msg) : j < i => j <= LastTag(msg, i)
  BY <1>1, LastTagBefore
<1>3. /\ LastTag(msg, i + 1) \in 0..i
      /\ LastTag(msg, i + 1) # 0 => LastTag(msg, i + 1) \in Tags(msg)
      /\ \A j \in Tags(msg) : j < i + 1 => j <= LastTag(msg, i + 1)
  <2> DEFINE k == i + 1
  <2>1. k \in 1..(Len(msg) + 1) /\ k - 1 = i
    BY <1>1
  <2> HIDE DEF k
  <2>2. /\ LastTag(msg, k) \in 0..(k - 1)
        /\ LastTag(msg, k) # 0 => LastTag(msg, k) \in Tags(msg)
        /\ \A j \in Tags(msg) : j < k => j <= LastTag(msg, k)
    BY <2>1, LastTagBefore
  <2> QED
    BY <2>1, <2>2, Zenon DEF k
<1>4. CASE i \in Tags(msg)
  BY <1>3, <1>4
<1>5. CASE i \notin Tags(msg)
  <2>1. LastTag(msg, i + 1) <= LastTag(msg, i)
    <3>1. CASE LastTag(msg, i + 1) = 0
      BY <1>2, <3>1
    <3>2. CASE LastTag(msg, i + 1) # 0
      BY <1>2, <1>3, <1>5, <3>2
    <3> QED
      BY <3>1, <3>2
  <2>2. LastTag(msg, i) <= LastTag(msg, i + 1)
    BY <1>2, <1>3
  <2> QED
    BY <1>2, <1>3, <1>5, <2>1, <2>2
<1> QED
  BY <1>4, <1>5

LEMMA PartPrinted ==
  ASSUME NEW msg \in Seq(STRING), NEW i \in 1..(Len(msg) + 1)
  PROVE  /\ i \in Tags(msg) =>
              Texts(Part(msg, i)) = SubSeq(msg, LastTag(msg, i) + 1, i)
         /\ i = Len(msg) + 1 =>
              Texts(Part(msg, i)) = SubSeq(msg, LastTag(msg, i) + 1, Len(msg))
         /\ i \notin Tags(msg) \cup {Len(msg) + 1} => Texts(Part(msg, i)) = <<>>
<1> DEFINE t == SubSeq(msg, LastTag(msg, i) + 1, i - 1)
           r == TxtRelGerencial(t)
           c == Step("AcionaGuilhotinaMFD", <<>>)
<1>1. LastTag(msg, i) \in 0..(i - 1) /\ Tags(msg) \subseteq 1..Len(msg)
  BY LastTagBefore DEF Tags
<1>2. t \in Seq(STRING)
  BY <1>1
<1>3. r \in Seq(OfReport) /\ Texts(r) = t
  <2>1. r \in Seq(Prints)
    BY <1>2, TxtRelType, Zenon
  <2> QED
    BY <1>2, <2>1, PiecesPrinted, SeqMono, Zenon DEF OfReport
<1>4. c \in OfReport /\ TextOf(c) = <<CutTag>>
  <2>1. <<>> \in Seq(STRING)
    OBVIOUS
  <2>2. c \in Prints
    BY <2>1 DEF Step, Prints, PrintNames
  <2>3. c.fn = "AcionaGuilhotinaMFD"
    BY StepParts
  <2> QED
    BY <2>2, <2>3, Zenon DEF OfReport, TextOf
<1>5. Part(msg, i) = IF i \in Tags(msg) \cup {Len(msg) + 1}
                     THEN r \o (IF i \in Tags(msg) THEN <<c>> ELSE <<>>) ELSE <<>>
  BY Zenon DEF Part, Call
<1> HIDE DEF r, c
<1>6. ASSUME i \in Tags(msg) PROVE Texts(Part(msg, i)) = SubSeq(msg, LastTag(msg, i) + 1, i)
  <2>1. Part(msg, i) = r \o <<c>>
    BY <1>5, <1>6, Zenon
  <2>2. <<c>> \in Seq(OfReport)
    BY <1>4
  <2>3. Texts(r \o <<c>>) = t \o <<CutTag>>
    BY <1>3, <1>4, <2>2, TextsConcat, TextsOne, Zenon
  <2>4. msg[i] = CutTag /\ i \in 1..Len(msg)
    BY <1>6 DEF Tags
  <2>5. t \o <<msg[i]>> = SubSeq(msg, LastTag(msg, i) + 1, i)
    <3> DEFINE from == LastTag(msg, i) + 1
               u == SubSeq(msg, from, i)
    <3>1. from \in 1..i
      BY <1>1, <2>4
    <3>2. u \in Seq(STRING) /\ Len(u) = i - from + 1 /\ \A j \in 1..Len(u) : u[j] = msg[from + j - 1]
      BY <2>4, <3>1
    <3>3. t \in Seq(STRING) /\ Len(t) = i - from /\ \A j \in 1..Len(t) : t[j] = msg[from + j - 1]
      BY <2>4, <3>1
    <3>4. msg[i] \in STRING
      BY <2>4
    <3> HIDE DEF u, t, from
    <3> DEFINE e == msg[i]
               v == t \o <<e>>
    <3>5. v \in Seq(STRING) /\ Len(v) = Len(t) + 1 /\ v[Len(t) + 1] = e
          /\ \A j \in 1..Len(t) : v[j] = t[j]
      <4> HIDE DEF e
      <4> QED
        BY <3>3, <3>4 DEF e
    <3>6. Len(t) + 1 = Len(u) /\ from + Len(u) - 1 = i /\ Len(t) \in Nat
      BY <2>4, <3>1, <3>2, <3>3
    <3> HIDE DEF v
    <3>7. ASSUME NEW j \in 1..Len(v) PROVE v[j] = u[j]
      <4>1. u[j] = msg[from + j - 1]
        BY <3>2, <3>5, <3>6
      <4>2. CASE j \in 1..Len(t)
        BY <3>3, <3>5, <4>1, <4>2
      <4>3. CASE j \notin 1..Len(t)
        <5>1. j = Len(t) + 1 /\ from + j - 1 = i
          BY <3>5, <3>6, <4>3
        <5> QED
          BY <3>5, <4>1, <5>1, Zenon
      <4> QED
        BY <4>2, <4>3
    <3>8. v = u
      BY <3>2, <3>5, <3>6, <3>7, SeqEqual
    <3> QED
      BY <3>8 DEF u, v, from
  <2> QED
    BY <2>1, <2>3, <2>4, <2>5, Zenon
<1>7. ASSUME i = Len(msg) + 1
      PROVE  Texts(Part(msg, i)) = SubSeq(msg, LastTag(msg, i) + 1, Len(msg))
  <2>1. i \notin Tags(msg) /\ i - 1 = Len(msg)
    BY <1>1, <1>7
  <2>2. Part(msg, i) = r \o <<>>
    BY <1>5, <1>7, <2>1, Zenon
  <2>3. r \o <<>> = r
    BY <1>3
  <2> QED
    BY <1>3, <2>1, <2>2, <2>3, Zenon
<1>8. i \notin Tags(msg) \cup {Len(msg) + 1} => Texts(Part(msg, i)) = <<>>
  BY <1>5, TextsEmpty, Zenon
<1> QED
  BY <1>6, <1>7, <1>8

LEMMA TaggedPrinted == \A msg \in Seq(STRING) : Texts(TxtTagged(msg)) = msg
<1> SUFFICES ASSUME NEW msg \in Seq(STRING) PROVE Texts(TxtTagged(msg)) = msg
  OBVIOUS
<1> DEFINE n == Len(msg)
           seqs == [i \in 1..(n + 1) |-> Part(msg, i)]
           parts == [i \in DOMAIN seqs |-> FlattenSeq(Mapped(seqs[i], TextFn))]
           ends == [k \in 0..(n + 1) |-> IF k <= n THEN LastTag(msg, k + 1) ELSE n]
<1>1. n \in Nat /\ n + 1 \in Nat
  OBVIOUS
<1>2. \A i \in 1..(n + 1) : Part(msg, i) \in Seq(OfReport)
  BY PartType, SeqMono, Zenon DEF OfReport
<1>3. seqs \in Seq(Seq(OfReport)) /\ DOMAIN seqs = 1..(n + 1)
  <2> DEFINE X == Seq(OfReport)
             m == n + 1
  <2>1. \A i \in 1..m : Part(msg, i) \in X
    BY <1>2
  <2>2. m \in Nat
    BY <1>1
  <2> HIDE DEF X, m
  <2>3. [i \in 1..m |-> Part(msg, i)] \in Seq(X)
    BY <2>1, <2>2
  <2> QED
    BY <2>3 DEF X, m
<1>4. \A i \in 1..(n + 1) : parts[i] = Texts(Part(msg, i)) /\ parts[i] \in Seq(Units)
  <2>1. \A i \in 1..(n + 1) : parts[i] = FlattenSeq(Mapped(Part(msg, i), TextFn))
    BY <1>3
  <2> HIDE DEF parts
  <2> QED
    BY <1>2, <2>1, TextsAre, TextsConcat, Zenon
<1>5. parts \in Seq(Seq(Units)) /\ Len(parts) = n + 1
  <2> DEFINE X == Seq(Units)
             m == n + 1
  <2>1. DOMAIN parts = 1..m /\ m \in Nat /\ \A i \in 1..m : parts[i] \in X
    BY <1>1, <1>3, <1>4
  <2>2. parts = [i \in 1..m |-> parts[i]]
    BY <1>3
  <2> HIDE DEF X, m, parts
  <2>3. parts \in Seq(X) /\ Len(parts) = m
    BY <2>1, <2>2
  <2> QED
    BY <2>3 DEF X, m
<1>6. Texts(TxtTagged(msg)) = FlattenSeq(parts)
  <2>1. TxtTagged(msg) = FlattenSeq(seqs)
    BY Zenon DEF TxtTagged
  <2> HIDE DEF seqs
  <2>2. FlattenSeq(seqs) \in Seq(OfReport)
    BY <1>3, FlattenType
  <2>3. FlattenSeq(Mapped(FlattenSeq(seqs), TextFn)) = FlattenSeq(parts)
    <3>1. seqs \in Seq(Seq(OfReport))
      BY <1>3
    <3>2. \A q \in Seq(Seq(OfReport)) :
            FlattenSeq(Mapped(FlattenSeq(q), TextFn))
            = FlattenSeq([i \in DOMAIN q |-> FlattenSeq(Mapped(q[i], TextFn))])
      BY TextsMade, MappedFlatten
    <3> QED
      BY <3>1, <3>2, Zenon
  <2> QED
    BY <2>1, <2>2, <2>3, TextsAre, Zenon
<1>7. ASSUME NEW k \in 0..(n + 1)
      PROVE  /\ ends[k] = IF k <= n THEN LastTag(msg, k + 1) ELSE n
             /\ ends[k] \in 0..n
             /\ k <= n => ends[k] \in 0..k
  <2>1. ends[k] = IF k <= n THEN LastTag(msg, k + 1) ELSE n
    OBVIOUS
  <2>2. ASSUME k <= n PROVE LastTag(msg, k + 1) \in 0..k
    <3> DEFINE i == k + 1
    <3>1. i \in 1..(n + 1) /\ i - 1 = k
      BY <2>2
    <3> HIDE DEF i
    <3>2. LastTag(msg, i) \in 0..(i - 1)
      BY <3>1, LastTagBefore
    <3> QED
      BY <3>1, <3>2, Zenon DEF i
  <2> HIDE DEF ends
  <2> QED
    BY <1>1, <2>1, <2>2
<1>8. ends \in [0..(n + 1) -> 0..n] /\ ends[0] = 0 /\ ends[n + 1] = n
  <2>1. 0 \in 0..(n + 1) /\ n + 1 \in 0..(n + 1) /\ 0 <= n /\ ~(n + 1 <= n)
    BY <1>1
  <2>2. ends = [k \in 0..(n + 1) |-> ends[k]]
    OBVIOUS
  <2> HIDE DEF ends
  <2>3. ends \in [0..(n + 1) -> 0..n]
    BY <1>7, <2>2
  <2> QED
    BY <1>7, <2>1, <2>3
<1> HIDE DEF ends, parts, seqs
<1>9. ASSUME NEW k \in 0..n
      PROVE  /\ ends[k] <= ends[k + 1]
             /\ parts[k + 1] = SubSeq(msg, ends[k] + 1, ends[k + 1])
  <2> DEFINE i == k + 1
  <2>1. i \in 1..(n + 1) /\ k \in 0..(n + 1) /\ i \in 0..(n + 1) /\ k <= n /\ (i <= n <=> i # n + 1)
    BY <1>1
  <2>2. ends[k] = LastTag(msg, i) /\ ends[k] \in 0..n /\ ends[k] \in 0..k
    BY <1>7, <2>1
  <2>3. parts[i] = Texts(Part(msg, i)) /\ ends[i] = IF i <= n THEN LastTag(msg, i + 1) ELSE n
    BY <1>4, <1>7, <2>1
  <2>4. i \in Tags(msg) => i <= n
    BY DEF Tags
  <2>5. k <= i
    BY <2>1
  <2> HIDE DEF i
  <2>6. CASE i = n + 1
    <3>1. parts[i] = SubSeq(msg, LastTag(msg, i) + 1, n) /\ ends[i] = n
      BY <2>1, <2>3, <2>6, PartPrinted
    <3>2. ends[k] <= n
      BY <2>2
    <3> QED
      BY <2>2, <3>1, <3>2, Zenon DEF i
  <2>7. CASE i \in Tags(msg)
    <3>1. i \in 1..n
      BY <2>1, <2>4, <2>7
    <3>2. ends[i] = i
      BY <2>3, <2>4, <2>7, <3>1, NextTag
    <3>3. parts[i] = SubSeq(msg, LastTag(msg, i) + 1, i)
      BY <2>1, <2>3, <2>7, PartPrinted
    <3>4. ends[k] <= ends[i]
      BY <2>1, <2>2, <2>5, <3>2
    <3> QED
      BY <2>2, <3>2, <3>3, <3>4, Zenon DEF i
  <2>8. CASE i \notin Tags(msg) \cup {n + 1}
    <3>1. i \in 1..n
      BY <2>1, <2>8
    <3>2. ends[i] = LastTag(msg, i)
      BY <2>1, <2>3, <2>8, <3>1, NextTag
    <3>3. parts[i] = <<>>
      BY <2>1, <2>3, <2>8, PartPrinted
    <3>4. ends[i] = ends[k] /\ ends[k] <= ends[k]
      BY <2>2, <3>2
    <3>5. SubSeq(msg, ends[k] + 1, ends[k]) = <<>>
      <4>1. ends[k] \in Int /\ ends[k] + 1 \in Int /\ ends[k] < ends[k] + 1
        BY <2>2
      <4> QED
        BY <4>1, SubSeqEmpty
    <3> QED
      BY <3>3, <3>4, <3>5, Zenon DEF i
  <2> QED
    BY <2>6, <2>7, <2>8
<1>10. msg \in Seq(Units) /\ Len(parts) = n + 1
  BY <1>5, SeqMono, Zenon DEF Units
<1>11. FlattenSeq(parts) = msg
  <2> DEFINE m == n + 1
  <2>1. m \in Nat /\ m - 1 = n
    BY <1>1
  <2>2. \A k \in 0..(m - 1) : /\ ends[k] <= ends[k + 1]
                              /\ parts[k + 1] = SubSeq(msg, ends[k] + 1, ends[k + 1])
    BY <1>9, <2>1
  <2>3. parts \in Seq(Seq(Units)) /\ Len(parts) = m /\ ends \in [0..m -> 0..Len(msg)]
        /\ ends[0] = 0 /\ ends[m] = Len(msg)
    BY <1>5, <1>8
  <2> HIDE DEF m
  <2> QED
    BY <1>10, <2>1, <2>2, <2>3, PiecesFlatten
<1> QED
  BY <1>6, <1>11

-----------------------------------------------------------------------------
(* What a whole report sends is its text.                                  *)

LEMMA SentAll ==
  ASSUME NEW T, NEW fns, \A s \in T : s.fn \notin fns
  PROVE  \A seq \in Seq(T) : Sent(seq, fns) = seq
<1> DEFINE S == {seq \in Seq(T) : Sent(seq, fns) = seq}
<1>1. <<>> \in S
  BY SentEmpty
<1>2. ASSUME NEW seq \in Seq(T), NEW s \in T, seq \in S PROVE Append(seq, s) \in S
  <2>1. One(s, fns) = <<s>>
    BY DEF One
  <2>2. Sent(Append(seq, s), fns) = Sent(seq, fns) \o <<s>>
    BY <2>1, SentAppend, Zenon
  <2>3. Append(seq, s) = seq \o <<s>> /\ Append(seq, s) \in Seq(T)
    OBVIOUS
  <2> QED
    BY <1>2, <2>2, <2>3, Zenon
<1>3. Seq(T) \subseteq S
  <2> HIDE DEF S
  <2> QED
    BY <1>1, <1>2, SeqInduction, Zenon
<1> QED
  BY <1>3

LEMMA WholeSends ==
  ASSUME NEW request \in Requests, Asked(request)
  PROVE  /\ Head(WholePlan(request)).fn # "suppress"
         /\ Texts(Sent(WholePlan(request), Others)) = MessageOf(request)
<1> DEFINE V == {s \in Lookups : s.fn \in Others}
           body == TxtTagged(MessageOf(request))
           own == <<OpenCall>> \o (body \o <<CloseCall>>)
           U == V \cup OfReport
<1>1. PICK a \in Seq(V) : a # <<>> /\ WholePlan(request) = a \o own
  BY WholeSteps, Zenon DEF Asked
<1>2. MessageOf(request) \in Seq(STRING) /\ body \in Seq(Prints)
  BY MessageType
<1>3. /\ body \in Seq(OfReport) /\ <<OpenCall>> \in Seq(OfReport)
      /\ <<CloseCall>> \in Seq(OfReport)
  <2>1. OpenCall \in OfReport /\ CloseCall \in OfReport
    BY Zenon DEF OfReport
  <2>2. body \in Seq(OfReport)
    BY <1>2, SeqMono, Zenon DEF OfReport
  <2> HIDE DEF body
  <2> QED
    BY <2>1, <2>2
<1> HIDE DEF body
<1>4. own \in Seq(OfReport) /\ body \o <<CloseCall>> \in Seq(OfReport)
  BY <1>3
<1>5. \A s \in OfReport : s.fn \notin Others
  <2>1. \A fn \in PrintNames \cup {"AbreRelatorioGerencialMFD", "FechaRelatorioGerencial"} :
          fn \notin Others
    BY Zenon DEF PrintNames, Others
  <2> QED
    BY <2>1, ReportStepNames, Zenon DEF OfReport
<1>6. Sent(own, Others) = own
  BY <1>4, <1>5, SentAll, Zenon
<1>7. Sent(a, Others) = <<>>
  BY SentNone, Zenon
<1>8. Sent(a \o own, Others) = Sent(a, Others) \o Sent(own, Others)
  <2>1. a \in Seq(U) /\ own \in Seq(U)
    BY <1>4, SeqMono, Zenon
  <2> HIDE DEF own, U, V
  <2> QED
    BY <2>1, SentConcat, Zenon
<1>9. Sent(WholePlan(request), Others) = own
  <2>1. <<>> \o own = own
    BY <1>4
  <2> QED
    BY <1>1, <1>6, <1>7, <1>8, <2>1, Zenon
<1>10. Texts(own) = MessageOf(request)
  <2>1. Texts(body) = MessageOf(request)
    BY <1>2, TaggedPrinted, Zenon DEF body
  <2>2. Texts(<<OpenCall>>) = <<>> /\ Texts(<<CloseCall>>) = <<>>
    <3>1. /\ OpenCall.fn = "AbreRelatorioGerencialMFD" /\ OpenCall.text = <<>>
          /\ CloseCall.fn = "FechaRelatorioGerencial" /\ CloseCall.text = <<>>
      BY StepParts, Zenon DEF OpenCall, CloseCall
    <3>2. TextOf(OpenCall) = <<>> /\ TextOf(CloseCall) = <<>>
      BY <3>1, Zenon DEF TextOf
    <3> QED
      BY <3>2, TextsOne, Zenon DEF OfReport
  <2>3. Texts(own) = Texts(<<OpenCall>>) \o (Texts(body) \o Texts(<<CloseCall>>))
    BY <1>3, <1>4, TextsConcat, Zenon
  <2>4. <<>> \o (MessageOf(request) \o <<>>) = MessageOf(request)
    BY <1>2
  <2> QED
    BY <2>1, <2>2, <2>3, <2>4, Zenon
<1>11. Head(WholePlan(request)).fn # "suppress"
  <2>1. ToOpen(WholePlan(request))
    BY WholeBegins
  <2>2. Head(WholePlan(request)) \in Lookups \/ Head(WholePlan(request)) = OpenCall
    BY <2>1, ToOpenParts, Zenon
  <2> QED
    BY <2>2, ReportStepNames, Zenon
<1> QED
  BY <1>9, <1>10, <1>11

\* A report that is answered OK has its first line and those after it up to an empty
\* one, and was cut at each tag, whatever the size of a line and the text: every
\* piece of it is planned once and in order, and what was planned was done.
THEOREM ReportsPrinted == Spec => []PrintsTheMessage
<1>1. DoneInv /\ ReportInv => PrintsTheMessage
  <2> SUFFICES ASSUME DoneInv, ReportInv, Answered, answer.ok, cmd.id = WholeReport
               PROVE  Texts(Sent(done, TableReads)) = MessageOf(cmd)
    BY Zenon DEF PrintsTheMessage, MessageOf, WholeReport
  <2>1. cmd # Idle
    BY Zenon DEF DoneInv, Resting
  <2>2. Reporting
    BY <2>1, Zenon DEF ReportInv
  <2>3. cmd \in Requests /\ plan = WholePlan(cmd) /\ Asked(cmd)
    BY <2>2, Zenon DEF Reporting
  <2>4. ~Swallowed
    <3>1. Starting.id = "ecf_bematech"
      BY DEF Starting
    <3> QED
      BY <3>1, Zenon DEF Swallowed, WholeReport
  <2>5. \/ Sent(done, TableReads) = Sent(plan, Others)
        \/ done = <<>> /\ Head(plan).fn = "suppress"
    BY <2>4, Zenon DEF DoneInv, OkMeansDone
  <2> QED
    BY <2>3, <2>5, WholeSends, Zenon
<1> QED
  BY <1>1, DoneAlways, ReportAlways, PTL

-----------------------------------------------------------------------------
(* Types, and the room that a table read on the way takes.                 *)

\* A step may become two calls that read, at most, which become nothing more.
Straight(T) == {s \in T : s.fn # "read"}
Brief(T) ==
  \A s \in T : s.fn = "read" => s.text \in Seq(Straight(T)) /\ Len(s.text) <= 2

\* What is left of a plan of n steps: calls that read a table, and some of its
\* steps, not all of them if it is reading.
Remains(p, n) ==
  \E T : /\ Brief(T)
         /\ \E q \in Seq(Straight(T)), r \in Seq(T) :
              /\ p = q \o r /\ Len(q) <= 2 /\ Len(r) <= n
              /\ q # <<>> => Len(r) < n

RoomInv == Len(plan) \in Nat /\ Remains(todo, Len(plan))

TypeInv == TypeOK /\ RoomInv

LEMMA RemainsNothing == \A n \in Nat : Remains(<<>>, n)
<1>1. Brief({})
  BY Zenon DEF Brief
<1>2. <<>> \in Seq(Straight({})) /\ <<>> \in Seq({}) /\ <<>> = <<>> \o <<>> /\ Len(<<>>) = 0
  OBVIOUS
<1>3. \A n \in Nat : 0 <= n /\ 0 <= 2
  OBVIOUS
<1> QED
  BY <1>1, <1>2, <1>3, Zenon DEF Remains

LEMMA RemainsFew ==
  ASSUME NEW n \in Nat, NEW p, Remains(p, n)
  PROVE  Len(p) <= n + 1
<1>1. PICK T : \E q \in Seq(Straight(T)), r \in Seq(T) :
                 /\ p = q \o r /\ Len(q) <= 2 /\ Len(r) <= n
                 /\ q # <<>> => Len(r) < n
  BY Zenon DEF Remains
<1>2. PICK q \in Seq(Straight(T)), r \in Seq(T) :
                 /\ p = q \o r /\ Len(q) <= 2 /\ Len(r) <= n
                 /\ q # <<>> => Len(r) < n
  BY <1>1
<1>3. Len(p) = Len(q) + Len(r) /\ Len(q) \in Nat /\ Len(r) \in Nat
  BY <1>2
<1>4. q = <<>> => Len(q) = 0
  OBVIOUS
<1> QED
  BY <1>2, <1>3, <1>4

LEMMA RemainsLess ==
  ASSUME NEW n \in Nat, NEW p, Remains(p, n), p # <<>>
  PROVE  /\ Remains(Tail(p), n)
         /\ Head(p).fn = "read" => Remains(Head(p).text \o Tail(p), n)
<1>1. PICK T : /\ Brief(T)
               /\ \E q \in Seq(Straight(T)), r \in Seq(T) :
                    /\ p = q \o r /\ Len(q) <= 2 /\ Len(r) <= n
                    /\ q # <<>> => Len(r) < n
  BY Zenon DEF Remains
<1>2. PICK q \in Seq(Straight(T)), r \in Seq(T) :
                 /\ p = q \o r /\ Len(q) <= 2 /\ Len(r) <= n
                 /\ q # <<>> => Len(r) < n
  BY <1>1
<1>3. q \in Seq(T)
  <2>1. Straight(T) \subseteq T
    BY DEF Straight
  <2> QED
    BY <2>1, SeqMono, Zenon
<1>4. CASE q # <<>>
  <2>1. Head(p) = Head(q) /\ Tail(p) = Tail(q) \o r
    BY <1>2, <1>3, <1>4
  <2>2. Head(q) \in Straight(T) /\ Tail(q) \in Seq(Straight(T)) /\ Len(Tail(q)) <= 2
    BY <1>2, <1>4
  <2>3. Head(p).fn # "read"
    BY <2>1, <2>2, Zenon DEF Straight
  <2> QED
    BY <1>1, <1>2, <1>4, <2>1, <2>2, <2>3, Zenon DEF Remains
<1>5. CASE q = <<>>
  <2>1. p = r
    BY <1>2, <1>5
  <2>2. Head(p) \in T /\ Tail(p) \in Seq(T) /\ Len(Tail(p)) < n /\ Len(Tail(p)) <= n
    BY <1>2, <2>1
  <2>3. Remains(Tail(p), n)
    <3>1. <<>> \in Seq(Straight(T)) /\ Tail(p) = <<>> \o Tail(p) /\ Len(<<>>) <= 2
      BY <2>2
    <3> QED
      BY <1>1, <2>2, <3>1, Zenon DEF Remains
  <2>4. ASSUME Head(p).fn = "read" PROVE Remains(Head(p).text \o Tail(p), n)
    <3>1. Head(p).text \in Seq(Straight(T)) /\ Len(Head(p).text) <= 2
      BY <1>1, <2>2, <2>4, Zenon DEF Brief
    <3> QED
      BY <1>1, <2>2, <3>1, Zenon DEF Remains
  <2> QED
    BY <2>3, <2>4
<1> QED
  BY <1>4, <1>5

LEMMA RemainsAll ==
  ASSUME NEW T, Brief(T), NEW p \in Seq(T)
  PROVE  Len(p) \in Nat /\ Remains(p, Len(p))
<1>1. <<>> \in Seq(Straight(T)) /\ p = <<>> \o p /\ Len(<<>>) <= 2
  OBVIOUS
<1>2. Len(p) \in Nat /\ Len(p) <= Len(p)
  OBVIOUS
<1> QED
  BY <1>1, <1>2, Zenon DEF Remains

\* Plans, and the constructor's, have room.
LEMMA FitsBrief == \A T : Fits(T) => Brief(T)
<1> SUFFICES ASSUME NEW T, Fits(T), NEW s \in T, s.fn = "read"
             PROVE  s.text \in Seq(Straight(T)) /\ Len(s.text) <= 2
  BY Zenon DEF Brief
<1>1. s.text \in Seq({c \in T : c.fn \in TableReads}) /\ Len(s.text) <= 2
  BY Zenon DEF Fits
<1>2. {c \in T : c.fn \in TableReads} \subseteq Straight(T)
  BY Zenon DEF Straight, TableReads
<1> QED
  BY <1>1, <1>2, SeqMono, Zenon

LEMMA PlanRemains ==
  ASSUME NEW p, IsPlan(p)
  PROVE  Len(p) \in Nat /\ Remains(p, Len(p))
<1>1. CASE Planned(p)
  BY <1>1, PlannedTells, FitsBrief, RemainsAll
<1>2. CASE p = Reduction
  BY <1>2, ReductionTells, FitsBrief, RemainsAll
<1>3. CASE \E q : Planned(q) /\ p = UnlessSuppressed \o q
  <2>1. PICK q, T : Fits(T) /\ q \in Seq(T) /\ p = UnlessSuppressed \o q
    BY <1>3, PlannedTells
  <2> DEFINE s == Step("suppress", <<>>)
             U == T \cup {s}
  <2>2. Brief(U)
    <3>1. s.fn = "suppress"
      BY StepParts
    <3>2. Straight(T) \subseteq Straight(U)
      BY DEF Straight
    <3>3. \A x \in Seq(Straight(T)) : x \in Seq(Straight(U))
      BY <3>2, SeqMono
    <3>4. Brief(T)
      BY <2>1, FitsBrief
    <3> QED
      BY <3>1, <3>3, <3>4, Zenon DEF Brief
  <2>3. UnlessSuppressed = <<s>>
    BY DEF UnlessSuppressed
  <2> HIDE DEF s
  <2>4. p \in Seq(U)
    BY <2>1, <2>3
  <2> QED
    BY <2>2, <2>4, RemainsAll
<1> QED
  BY <1>1, <1>2, <1>3 DEF IsPlan

LEMMA ConstructorRemains == Len(Constructor) \in Nat /\ Remains(Constructor, Len(Constructor))
<1> DEFINE fns == {"load", "HabilitaDesabilitaRetornoEstendidoMFD",
                   "AtivaDesativaSensorPoucoPapelMFD"}
           T == {Step(fn, <<>>) : fn \in fns}
<1>1. Brief(T)
  <2>1. "read" \notin fns
    BY Zenon
  <2> HIDE DEF fns
  <2>2. \A s \in T : s.fn \in fns
    BY StepParts, Zenon
  <2> QED
    BY <2>1, <2>2, Zenon DEF Brief
<1>2. /\ Step("load", <<>>) \in T
      /\ Step("HabilitaDesabilitaRetornoEstendidoMFD", <<>>) \in T
      /\ Step("AtivaDesativaSensorPoucoPapelMFD", <<>>) \in T
  BY Zenon
<1> HIDE DEF T
<1>3. Constructor \in Seq(T)
  BY <1>2 DEF Constructor, Call, LoadSpecific
<1> QED
  BY <1>1, <1>3, RemainsAll

\* What a document becomes is a document.
LEMMA DocumentsFollow ==
  ASSUME doc \in Documents, NEW fn
  PROVE  After(fn) \in Documents
<1>1. \A f \in DOMAIN Opens : Opens[f] \in Documents
  BY SMT DEF Opens, Documents
<1>2. \A f \in DOMAIN Moves : Moves[f][2] \in Documents
  BY SMT DEF Moves, Documents
<1>3. "none" \in Documents
  BY DEF Documents
<1> QED
  BY <1>1, <1>2, <1>3, Zenon DEF After

LEMMA WordTypes ==
  \A word \in Words :
    word.st1 \subseteq Bits(ST1) /\ word.st2 \subseteq Bits(ST2) /\ word.st3 \in 0..255
<1> SUFFICES ASSUME NEW word \in Words
             PROVE  /\ word.st1 \subseteq Bits(ST1) /\ word.st2 \subseteq Bits(ST2)
                    /\ word.st3 \in 0..255
  OBVIOUS
<1>1. 7 \in 1..8 /\ 8 \in 1..8 /\ 1 \in 1..8 /\ 3 \in 1..8
  OBVIOUS
<1>2. /\ "pouco_papel" \in Bits(ST1) /\ "fim_de_papel" \in Bits(ST1)
      /\ "comando_nao_executado" \in Bits(ST2) /\ "canc_nao_permitido" \in Bits(ST2)
  BY <1>1, FirstByte, SecondByte, Zenon DEF Bits
<1>3. /\ word.st1 \in {{}, {"pouco_papel"}, {"pouco_papel", "fim_de_papel"}}
      /\ word.st2 \in {{}, {"canc_nao_permitido"}, {"comando_nao_executado"}}
      /\ word.st3 \in 0..255
  BY DEF Words
<1> QED
  BY <1>2, <1>3, Zenon

\* An answer of a step that ends the operation, or of none.
LEMMA AnswerTypes ==
  /\ NoAnswer \in [ok : BOOLEAN, msg : Messages]
  /\ \A ok \in BOOLEAN, msg \in StatusTexts \cup {"retmsg", "thrown"} :
       [ok |-> ok, msg |-> msg] \in [ok : BOOLEAN, msg : Messages]
<1>1. \A msg \in StatusTexts \cup {"retmsg", "thrown", "no answer"} : msg \in Messages
  BY Zenon DEF StatusTexts, Messages
<1>2. \A ok \in BOOLEAN, msg \in Messages :
        [ok |-> ok, msg |-> msg] \in [ok : BOOLEAN, msg : Messages]
  OBVIOUS
<1> QED
  BY <1>1, <1>2, Zenon DEF NoAnswer

\* What a command at work makes of the steps and of the answer.
StepsAndAnswer ==
  /\ cmd \in Requests \cup {Idle, Starting}
  /\ Len(todo) <= Len(plan) + 1 /\ (Answered => todo = <<>>)
  /\ answer \in [ok : BOOLEAN, msg : Messages]
  /\ RoomInv

LEMMA RoomGoes ==
  ASSUME TypeInv, Working, UNCHANGED <<cmd, plan, answer>>,
         \/ todo' \in {Tail(todo), <<>>}
         \/ Next1.fn = "read" /\ todo' = Next1.text \o Tail(todo)
  PROVE  StepsAndAnswer'
<1>1. Len(plan) \in Nat /\ Remains(todo, Len(plan)) /\ todo # <<>> /\ ~Answered
  BY DEF TypeInv, RoomInv, Working
<1>2. Remains(todo', Len(plan))
  BY <1>1, RemainsLess, RemainsNothing, Zenon DEF Next1
<1>3. Len(todo') <= Len(plan) + 1
  BY <1>1, <1>2, RemainsFew
<1>4. RoomInv'
  BY <1>1, <1>2 DEF RoomInv, Remains
<1>5. ~Answered'
  BY <1>1 DEF Answered
<1> QED
  BY <1>3, <1>4, <1>5 DEF StepsAndAnswer, TypeInv, TypeOK, Idle, Starting

LEMMA RoomStops ==
  ASSUME TypeInv, UNCHANGED <<cmd, plan>>, todo' = <<>>,
         answer' \in [ok : BOOLEAN, msg : Messages]
  PROVE  StepsAndAnswer'
<1>1. Len(plan) \in Nat
  BY DEF TypeInv, RoomInv
<1>2. Remains(<<>>, Len(plan))
  BY <1>1, RemainsNothing
<1>3. Len(todo') <= Len(plan) + 1
  BY <1>1, <1>2, RemainsFew
<1>4. RoomInv'
  BY <1>1, <1>2 DEF RoomInv, Remains
<1> QED
  BY <1>3, <1>4 DEF StepsAndAnswer, TypeInv, TypeOK, Idle, Starting

LEMMA RoomBegins ==
  ASSUME NEW p, todo' = p, plan' = p, Len(p) \in Nat, Remains(p, Len(p)),
         cmd' \in Requests \cup {Idle, Starting}, answer' = NoAnswer
  PROVE  StepsAndAnswer'
<1>1. Len(p) <= Len(p) + 1
  OBVIOUS
<1>2. RoomInv'
  BY DEF RoomInv, Remains
<1>3. ~Answered' /\ answer' \in [ok : BOOLEAN, msg : Messages]
  BY AnswerTypes DEF Answered, NoAnswer
<1> QED
  BY <1>1, <1>2, <1>3 DEF StepsAndAnswer, Idle, Starting

LEMMA FailTypes ==
  ASSUME NEW msg \in StatusTexts \cup {"retmsg", "thrown"}, Fail(msg)
  PROVE  todo' = <<>> /\ answer' \in [ok : BOOLEAN, msg : Messages]
<1>1. answer' = NoAnswer \/ answer' = [ok |-> FALSE, msg |-> msg]
  BY Zenon DEF Fail
<1> QED
  BY <1>1, AnswerTypes, Zenon DEF Fail

\* The printer's part, and the driver's.
Machinery ==
  /\ PrinterTypeOK
  /\ cv0909 \in BOOLEAN /\ ignoring \in BOOLEAN
  /\ m_status.st1 \subseteq Bits(ST1) /\ m_status.st2 \subseteq Bits(ST2)
  /\ m_status.st3 \in 0..255 /\ m_stsmsg \in StatusTexts
  /\ ult_red \in {"none", "last", "old"} /\ misreported \in BOOLEAN

LEMMA TypesAre == TypeInv <=> Machinery /\ StepsAndAnswer
BY DEF TypeInv, TypeOK, Machinery, StepsAndAnswer, StatusTexts

LEMMA CheckTypes ==
  ASSUME Machinery, TypeInv, Working, NEW word \in Words, Check(word),
         UNCHANGED <<cmd, plan>>
  PROVE  /\ StepsAndAnswer'
         /\ m_status'.st1 \subseteq Bits(ST1) /\ m_status'.st2 \subseteq Bits(ST2)
         /\ m_status'.st3 \in 0..255 /\ m_stsmsg' \in StatusTexts
<1> DEFINE e == EvalStatus(word, ignoring, m_stsmsg)
<1>1. e.msg \in StatusTexts
  BY TextsOfWords, Zenon DEF Machinery
<1>2. m_status' = word /\ m_stsmsg' = e.msg /\ (Proceed \/ Fail(e.msg))
  BY Zenon DEF Check
<1>3. StepsAndAnswer'
  <2>1. CASE Proceed
    BY <2>1, RoomGoes DEF Proceed
  <2>2. CASE Fail(e.msg)
    <3>1. todo' = <<>> /\ answer' \in [ok : BOOLEAN, msg : Messages]
      BY <1>1, <2>2, FailTypes, Zenon
    <3> QED
      BY <3>1, RoomStops
  <2> QED
    BY <1>2, <2>1, <2>2
<1> QED
  BY <1>1, <1>2, <1>3, WordTypes, Zenon

LEMMA UninitialisedTypes ==
  \A word \in Uninitialised :
    word.st1 \subseteq Bits(ST1) /\ word.st2 \subseteq Bits(ST2) /\ word.st3 \in 0..255
<1>1. "pouco_papel" \in Bits(ST1)
  <2>1. 7 \in 1..8
    OBVIOUS
  <2> QED
    BY <2>1, FirstByte, Zenon DEF Bits
<1>2. 0 \in 0..255
  OBVIOUS
<1> SUFFICES ASSUME NEW b \in SUBSET {"pouco_papel"}
             PROVE  LET word == [st1 |-> b, st2 |-> {}, st3 |-> 0]
                    IN  /\ word.st1 \subseteq Bits(ST1) /\ word.st2 \subseteq Bits(ST2)
                        /\ word.st3 \in 0..255
  BY Zenon DEF Uninitialised
<1> QED
  BY <1>1, <1>2

LEMMA TypeStep ==
  ASSUME TypeInv, LastInv, LastInv', [Next]_vars
  PROVE  TypeInv'
<1>0. Machinery /\ StepsAndAnswer /\ ult_red' \in {"none", "last", "old"}
  BY TypesAre, Zenon DEF LastInv
<1> SUFFICES Machinery' /\ StepsAndAnswer'
  BY TypesAre, Zenon DEF TypeInv, TypeOK, Machinery, StepsAndAnswer, StatusTexts
<1>1. CASE \E request \in Requests : Trade(request)
  <2>1. PICK request \in Requests : Trade(request)
    BY <1>1
  <2>2. /\ cmd = Idle /\ cmd' = request /\ answer' = answer
        /\ todo' = Program(request) /\ plan' = Program(request)
    BY <2>1 DEF Trade
  <2>3. answer = NoAnswer
    BY <2>2 DEF LastInv, Answered
  <2>4. Len(Program(request)) \in Nat /\ Remains(Program(request), Len(Program(request)))
    BY ProgramPlanned, PlanRemains
  <2>5. StepsAndAnswer'
    BY <2>2, <2>3, <2>4, RoomBegins
  <2> QED
    BY <1>0, <2>1, <2>5 DEF Trade, driverVars, Machinery, PrinterTypeOK
<1>2. CASE CallDone
  <2>1. /\ Working /\ CarriedOut(Next1.fn) /\ UNCHANGED <<cv0909, cmd, plan, ignoring>>
    BY <1>2 DEF CallDone, IsCall
  <2>2. PrinterTypeOK'
    BY <1>0, <2>1, DocumentsFollow DEF CarriedOut, Machinery, PrinterTypeOK
  <2>3. CASE Next1.fn \in Unchecked
    <3>1. Proceed /\ UNCHANGED <<m_status, m_stsmsg, ult_red, misreported>>
      BY <1>2, <2>3 DEF CallDone
    <3>2. StepsAndAnswer'
      BY <2>1, <3>1, RoomGoes DEF Proceed
    <3> QED
      BY <1>0, <2>1, <2>2, <3>1, <3>2 DEF Machinery
  <2>4. CASE Next1.fn \notin Unchecked
    <3>1. Check(Word) /\ Keeps(Next1.fn, Clean(Word))
      BY <1>2, <2>4, Zenon DEF CallDone
    <3>2. Word \in Words
      BY <1>0, WordsGiven DEF Machinery, PrinterTypeOK
    <3>3. misreported' \in BOOLEAN
      BY <1>0, <3>1, Zenon DEF Keeps, Machinery
    <3> QED
      BY <1>0, <2>1, <2>2, <3>1, <3>2, <3>3, CheckTypes DEF Machinery
  <2> QED
    BY <2>3, <2>4
<1>3. CASE CallRefused
  <2>1. PICK code \in Codes :
          /\ Working /\ Check(Refusal(Next1.fn, code)) /\ UNCHANGED <<doc, paper>>
          /\ UNCHANGED <<cv0909, cmd, plan, ignoring, misreported>>
    BY <1>3 DEF CallRefused, IsCall, NotCarriedOut, printerVars
  <2>2. Refusal(Next1.fn, code) \in Words
    BY <1>0, WordsGiven DEF Machinery, PrinterTypeOK
  <2> QED
    BY <1>0, <2>1, <2>2, CheckTypes DEF Machinery, PrinterTypeOK
<1>4. CASE CallFails
  <2>1. /\ Fail("retmsg") /\ UNCHANGED <<cv0909, cmd, plan, ignoring, m_status, m_stsmsg>>
        /\ \/ CarriedOut(Next1.fn) /\ Keeps(Next1.fn, FALSE)
           \/ UNCHANGED <<doc, paper, misreported>>
    BY <1>4 DEF CallFails, NotCarriedOut, printerVars
  <2>2. PrinterTypeOK'
    <3>1. CASE CarriedOut(Next1.fn)
      BY <1>0, <3>1, DocumentsFollow DEF CarriedOut, Machinery, PrinterTypeOK
    <3>2. CASE UNCHANGED <<doc, paper>>
      BY <1>0, <3>2 DEF Machinery, PrinterTypeOK
    <3> QED
      BY <2>1, <3>1, <3>2
  <2>3. misreported' \in BOOLEAN
    BY <1>0, <2>1, Zenon DEF Keeps, Machinery
  <2>4. StepsAndAnswer'
    BY <2>1, FailTypes, RoomStops
  <2> QED
    BY <1>0, <2>1, <2>2, <2>3, <2>4 DEF Machinery
<1>5. CASE ReadTable \/ Test \/ Suppress \/ Throws \/ EmptyUltRed \/ LoadConfig
  <2>1. /\ Working
        /\ UNCHANGED <<doc, paper, cv0909, m_status, m_stsmsg, cmd, plan>>
        /\ ignoring' \in {ignoring, IgnoreLowPaper}
        /\ misreported' \in {misreported, FALSE}
        /\ \/ Fail("thrown")
           \/ /\ UNCHANGED answer
              /\ \/ todo' \in {Tail(todo), <<>>}
                 \/ Next1.fn = "read" /\ todo' = Next1.text \o Tail(todo)
    BY <1>5
       DEF ReadTable, Test, Suppress, Throws, EmptyUltRed, LoadConfig, At, Proceed, driverVars
  <2>2. StepsAndAnswer'
    <3>1. CASE Fail("thrown")
      BY <2>1, <3>1, FailTypes, RoomStops
    <3>2. CASE ~Fail("thrown")
      BY <2>1, <3>2, RoomGoes
    <3> QED
      BY <3>1, <3>2
  <2> QED
    BY <1>0, <2>1, <2>2, BrokerAssumption DEF Machinery, PrinterTypeOK
<1>6. CASE Restart \/ Escapes
  <2>1. Restart
    BY <1>6, Zenon DEF Escapes
  <2>2. StepsAndAnswer'
    BY <2>1, ConstructorRemains, RoomBegins DEF Restart
  <2>3. m_status' \in Uninitialised /\ m_stsmsg' = "" /\ ignoring' = TRUE
        /\ misreported' = FALSE /\ UNCHANGED <<doc, paper, cv0909>>
    BY <2>1 DEF Restart
  <2> QED
    BY <1>0, <2>2, <2>3, UninitialisedTypes DEF Machinery, PrinterTypeOK, StatusTexts
<1>7. CASE Finish
  <2>1. /\ UNCHANGED <<doc, paper, driverVars, cmd, plan>> /\ todo = <<>> /\ todo' = <<>>
        /\ answer' = [ok |-> TRUE, msg |-> ""]
    BY <1>7 DEF Finish
  <2>2. answer' \in [ok : BOOLEAN, msg : Messages]
    BY <2>1, AnswerTypes, Zenon DEF StatusTexts
  <2> QED
    BY <1>0, <2>1, <2>2, RoomStops DEF driverVars, Machinery, PrinterTypeOK
<1>8. CASE Reply
  <2>1. /\ UNCHANGED <<doc, paper, driverVars>> /\ cmd' = Idle /\ plan' = <<>>
        /\ todo' = <<>> /\ answer' = NoAnswer
    BY <1>8 DEF Reply
  <2>2. Len(<<>>) \in Nat /\ Remains(<<>>, Len(<<>>))
    <3>1. Len(<<>>) \in Nat
      OBVIOUS
    <3> QED
      BY <3>1, RemainsNothing
  <2>3. StepsAndAnswer'
    BY <2>1, <2>2, RoomBegins
  <2> QED
    BY <1>0, <2>1, <2>3 DEF driverVars, Machinery, PrinterTypeOK
<1>9. CASE Paper \/ UNCHANGED vars
  <2>1. /\ UNCHANGED <<doc, driverVars, cmd, plan, todo, answer>>
        /\ paper' \in {"ok", "low", "out"}
    <3>1. CASE Paper
      <4>1. PaperChanges /\ UNCHANGED <<driverVars, cmd, plan, todo, answer>>
        BY <3>1 DEF Paper, tradeVars
      <4>2. doc' = doc
        BY <4>1, Zenon DEF PaperChanges
      <4>3. paper' \in {"ok", "low", "out"}
        <5>1. paper \in {"ok", "low", "out"}
          BY <1>0 DEF Machinery, PrinterTypeOK
        <5> QED
          BY <4>1, <5>1 DEF PaperChanges
      <4> QED
        BY <4>1, <4>2, <4>3
    <3>2. CASE UNCHANGED vars
      BY <1>0, <3>2 DEF vars, driverVars, Machinery, PrinterTypeOK
    <3> QED
      BY <1>9, <3>1, <3>2
  <2>2. StepsAndAnswer'
    BY <1>0, <2>1 DEF StepsAndAnswer, RoomInv, Remains, Answered, Idle, Starting
  <2> QED
    BY <1>0, <2>1, <2>2 DEF driverVars, Machinery, PrinterTypeOK
<1> QED
  BY <1>1, <1>2, <1>3, <1>4, <1>5, <1>6, <1>7, <1>8, <1>9, Zenon DEF Next

\* What the variables hold, whatever the printer, the library and the client do: the
\* steps to come are never more than those of the plan and one, for a table is read
\* by two calls at most, before what is left of the plan, and an answer leaves none.
THEOREM TypesKept == Spec => []TypeOK
<1>1. Init => TypeInv
  <2> SUFFICES ASSUME Init PROVE TypeInv
    OBVIOUS
  <2>1. RoomInv /\ Len(todo) <= Len(plan) + 1
    <3>1. todo = Constructor /\ plan = Constructor
      BY DEF Init
    <3> QED
      BY <3>1, ConstructorRemains, RemainsFew DEF RoomInv
  <2>2. ~Answered /\ answer \in [ok : BOOLEAN, msg : Messages]
    BY AnswerTypes DEF Init, Answered
  <2>3. m_status \in Uninitialised /\ m_stsmsg = "" /\ ult_red = "none" /\ cmd = Starting
    BY DEF Init
  <2>4. /\ PrinterTypeOK /\ cv0909 \in BOOLEAN /\ ignoring \in BOOLEAN
        /\ misreported \in BOOLEAN
    BY DEF Init, PrinterInit, PrinterTypeOK, Documents
  <2> QED
    BY <2>1, <2>2, <2>3, <2>4, UninitialisedTypes, Zenon DEF TypeInv, TypeOK
<1>2. TypeInv /\ LastInv /\ LastInv' /\ [Next]_vars => TypeInv'
  BY TypeStep
<1>3. TypeInv => TypeOK
  BY DEF TypeInv
<1> QED
  BY <1>1, <1>2, <1>3, LastAlways, PTL DEF Spec
=============================================================================
