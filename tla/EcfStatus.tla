------------------------------ MODULE EcfStatus -------------------------------
(***************************************************************************)
(* The status word of the printer and what the driver makes of it          *)
(* (eval_status and set_status of ecfbematech.cc).                         *)
(***************************************************************************)
EXTENDS Integers, Sequences, FiniteSets

CONSTANT bematech_st3_msgs  \* the texts of extended codes, as the comments of
                            \* their table number them

BEMATECH_ARRAY_HOLE == 216
BEMATECH_HIGHER_BOUND == 218

\* Texts are told apart by name; the one of 216, which is empty, has one too.
\* What else an answer may hold is no text of a status word.
NoTexts == {"", "retmsg", "thrown", "no answer"}
ASSUME St3Assumption ==
  /\ bematech_st3_msgs \in [0..BEMATECH_HIGHER_BOUND -> STRING]
  /\ \A code \in 0..BEMATECH_HIGHER_BOUND : bematech_st3_msgs[code] \notin NoTexts

\* The bits of the two bytes, in the order in which they are looked at.
ST1 == <<"num_params_invalido", "cupom_fiscal_aberto", "comando_inexistente",
         "inicio_dif_esc", "erro_impressora", "erro_rtc", "pouco_papel",
         "fim_de_papel">>
ST2 == <<"comando_nao_executado", "proprietario_nao_programado",
         "canc_nao_permitido", "capacidade_aliq_esgotada", "aliq_nao_programada",
         "erro_cmos", "mem_fiscal_lotada", "tipo_param_invalido">>

Bits(byte) == {byte[i] : i \in DOMAIN byte}

St3Texts == {bematech_st3_msgs[code] : code \in 0..BEMATECH_HIGHER_BOUND}
St3Messages ==
  St3Texts \cup {"dois_textos", "alem_da_tabela", "codigo_indefinido", "codigo_muito_grande"}
StatusMessages == Bits(ST1) \cup Bits(ST2) \cup St3Messages

First(byte, set) ==
  byte[CHOOSE i \in DOMAIN byte :
         byte[i] \in set /\ \A j \in 1..(i - 1) : byte[j] \notin set]

\* The entry of a code.  No comma parts the texts of 123 and 124, which makes
\* them one entry and each later text that of the code before: nothing is left
\* for 218, which is given whatever lies behind the table.
Merging == 123
St3Entry(code) ==
  IF code < Merging THEN bematech_st3_msgs[code]
  ELSE IF code = Merging THEN "dois_textos"
  ELSE IF code < BEMATECH_HIGHER_BOUND THEN bematech_st3_msgs[code + 1]
  ELSE "alem_da_tabela"

Shifted == (Merging..BEMATECH_HIGHER_BOUND) \ {BEMATECH_ARRAY_HOLE}

\* The text of a code, and the one it should be given.
St3Message(code) ==
  IF code = BEMATECH_ARRAY_HOLE THEN "codigo_indefinido"
  ELSE IF code > BEMATECH_HIGHER_BOUND THEN "codigo_muito_grande"
  ELSE St3Entry(code)
St3Meant(code) ==
  IF code = BEMATECH_ARRAY_HOLE THEN "codigo_indefinido"
  ELSE IF code > BEMATECH_HIGHER_BOUND THEN "codigo_muito_grande"
  ELSE bematech_st3_msgs[code]

\* A cancellation that is not allowed is given the text of another bit.
St2Message(set) ==
  IF First(ST2, set) = "canc_nao_permitido" THEN "proprietario_nao_programado"
  ELSE First(ST2, set)

\* Low paper is let pass if it is the first bit; what is left still counts.
Ignored(word, ignoring) ==
  ignoring /\ word.st1 # {} /\ First(ST1, word.st1) = "pouco_papel"
Remaining(word, ignoring) ==
  IF Ignored(word, ignoring) THEN word.st1 \ {"pouco_papel"} ELSE word.st1

\* m_stsmsg after the word was looked at, msg before.
Message(word, ignoring, msg) ==
  IF word.st3 # 0 THEN St3Message(word.st3)
  ELSE IF word.st2 # {} THEN St2Message(word.st2)
  ELSE IF word.st1 = {} \/ Ignored(word, ignoring) THEN msg
  ELSE First(ST1, word.st1)

\* Mutant: low paper is let pass in the message only.
EvalStatusStrict(word, ignoring, msg) ==
  [ok |-> word.st1 = {} /\ word.st2 = {} /\ word.st3 = 0,
   msg |-> Message(word, ignoring, msg)]

\* Mutant: the second byte is not looked at.
EvalStatusFirst(word, ignoring, msg) ==
  [ok |-> Remaining(word, ignoring) = {} /\ word.st3 = 0,
   msg |-> Message(word, ignoring, msg)]

\* Mutant: the text of an extended code is not set.
EvalStatusMute(word, ignoring, msg) ==
  [ok |-> Remaining(word, ignoring) = {} /\ word.st2 = {} /\ word.st3 = 0,
   msg |-> IF word.st3 # 0 THEN msg ELSE Message(word, ignoring, msg)]

\* eval_status: whether the word is clean, and the text of its fault.
EvalStatus(word, ignoring, msg) ==
  [ok |-> Remaining(word, ignoring) = {} /\ word.st2 = {} /\ word.st3 = 0,
   msg |-> Message(word, ignoring, msg)]
=============================================================================
