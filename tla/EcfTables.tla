------------------------------ MODULE EcfTables -------------------------------
(***************************************************************************)
(* The printer's tables and what the drivers keep of them: payment methods, *)
(* non-fiscal totalisers, management reports and tax rates                 *)
(* (ecfbematech.cc, ecfbematechcv0909.cc).                                 *)
(*                                                                         *)
(* A command names an entry; the driver looks the name up in its cache,    *)
(* reads the table if the name is not there, and gives the printer an      *)
(* index.  Some readers drop the free slots of the table, so that an index *)
(* into the cache is not always the slot.  One driver and one table of it  *)
(* are followed: nothing is shared between two tables.                     *)
(***************************************************************************)
EXTENDS Integers, Sequences, FiniteSets

CONSTANTS
  Names,                \* names of entries
  Slots,                \* slots of the table
  Refusals,             \* the printer may refuse what it could do
  LateErrors            \* check may throw for a call that was carried out

Free == ""              \* the name of a free slot
BEMATECH_TXT_SANGRIA == "Sangria"
BEMATECH_TXT_SUPRIMENTO == "Suprimento"
CashNames == {BEMATECH_TXT_SANGRIA, BEMATECH_TXT_SUPRIMENTO}
Fixed == "Relatorio Geral"
IDX_NOT_FOUND == -1

ASSUME TablesAssumption ==
  /\ Free \notin Names
  /\ CashNames \cup {Fixed} \subseteq Names
  /\ Slots \in Nat /\ Slots > 2
  /\ Refusals \in BOOLEAN /\ LateErrors \in BOOLEAN

VARIABLES
  driver, list,         \* the driver, and which of its tables
  table,                \* the printer's: an entry or Free for each slot
  cache,                \* the driver's copy, or <<>>
  missed,               \* an error was reported for an entry since programmed
  answer                \* of the last command

vars == <<driver, list, table, cache, missed, answer>>

Drivers == {"bematech", "cv0909"}
Lists == {"forms", "totals", "reports", "rates"}

\* Entries that are not read from the printer, by slot: the cash totalisers of
\* older printers are the last ones, and the first report is fixed.
Cash == driver = "bematech" /\ list = "totals"
BuiltIn(i, n) ==
  \/ Cash /\ i = Slots - 1 /\ n = BEMATECH_TXT_SANGRIA
  \/ Cash /\ i = Slots /\ n = BEMATECH_TXT_SUPRIMENTO
  \/ list = "reports" /\ i = 1 /\ n = Fixed

\* Readers that drop free slots.
Compacts == list = "reports" \/ (list = "forms" /\ driver = "bematech")

Answers ==
  [op : {"none", "index", "used", "exempt", "free", "missing", "set", "present",
         "listed", "error"},
   name : Names \cup {Free}, index : -1..(Slots + 1)]

TypeOK ==
  /\ driver \in Drivers /\ list \in Lists
  /\ table \in [1..Slots -> Names \cup {Free}]
  /\ cache = <<>> \/ cache \in [1..Slots -> Names \cup {Free}]
  /\ missed \in BOOLEAN
  /\ answer \in Answers

\* The copy a reader makes.  A slot that has the name of a cash totaliser is
\* taken for free, unless it is theirs.
Copy ==
  [i \in 1..Slots |->
     IF Cash /\ table[i] \in CashNames /\ ~BuiltIn(i, table[i]) THEN Free
     ELSE table[i]]

\* Any table with each name once, but for names that the reader does not show.
Init ==
  /\ driver \in Drivers /\ list \in Lists
  /\ table \in [1..Slots -> Names \cup {Free}]
  /\ \A i, j \in 1..Slots : Copy[i] = Copy[j] /\ Copy[i] # Free => i = j
  /\ \A i \in 1..Slots, n \in Names : BuiltIn(i, n) => table[i] = n
  /\ cache = <<>>
  /\ missed = FALSE
  /\ answer = [op |-> "none", name |-> Free, index |-> 0]

Answered(op, n, i) == answer' = [op |-> op, name |-> n, index |-> i]
Error(n) == Answered("error", n, 0)
CanFail == Refusals \/ LateErrors
Done(ok) == ok \in BOOLEAN /\ (ok \/ LateErrors)

-----------------------------------------------------------------------------
(* Looking a name up.                                                      *)

\* Mutant: once there is a copy nothing is read.
ReadsOnce(n) == cache = <<>>

\* idx_element: only rates are not read again for a name that is not cached.
Reads(n) ==
  \/ cache = <<>>
  \/ list # "rates" /\ \A i \in DOMAIN cache : cache[i] # n

\* The copy in which n is looked up, and that is kept.
Seen(n) == IF Reads(n) THEN Copy ELSE cache

\* No reader compares the fixed report.
Compared(n, i) == ~(Reads(n) /\ list = "reports" /\ i = 1)
Match(n, i) == Compared(n, i) /\ Seen(n)[i] = n
Absent(n) == \A i \in 1..Slots : ~Match(n, i)

\* n is found at slot i of the copy: idx_element stops at the first match, the
\* other searches go on to the last.
At(n, i) ==
  /\ Match(n, i)
  /\ IF Reads(n) \/ list = "rates"
     THEN \A k \in (i + 1)..Slots : ~Match(n, k)
     ELSE \A k \in 1..(i - 1) : ~Match(n, k)

\* Entries of a copy up to slot i.
Rank(copy, i) == Cardinality({j \in 1..i : copy[j] # Free})

\* Mutants: the cached index counts from 0; it is made a slot twice.
IndexFromZero(n, i) == IF Reads(n) THEN i ELSE i - 1
IndexTwice(n, i) == (IF Compacts /\ ~Reads(n) THEN Rank(cache, i) ELSE i) + 1

\* The index the driver makes of slot i: a reader counts slots, idx_element
\* what was kept of them.
Index(n, i) == IF Compacts /\ ~Reads(n) THEN Rank(cache, i) ELSE i

LookUp(n) ==
  /\ cache' = Seen(n)
  /\ UNCHANGED <<driver, list, table, missed>>

\* The table cannot be read, and nothing changes.
LookUpFails(n) ==
  /\ Reads(n) /\ CanFail
  /\ Error(n)
  /\ UNCHANGED <<driver, list, table, cache, missed>>

\* What the broker answers for the driver's index: one more for a totaliser,
\* found or not, and 0 for a method that is not found.
Told(idx) ==
  IF list = "totals" THEN idx + 1
  ELSE IF list = "forms" /\ idx < 0 THEN 0
  ELSE idx

\* get_id_forma_pgto, get_totalizador_cnf, get_id_rel_gerencial, as commands.
GetIndex(n) ==
  /\ list # "rates"
  /\ \/ /\ LookUp(n)
        /\ \/ \E i \in 1..Slots : At(n, i) /\ Answered("index", n, Told(Index(n, i)))
           \/ Absent(n) /\ Answered("missing", n, Told(IDX_NOT_FOUND))
     \/ LookUpFails(n)

\* The index is given to the printer: pagamento, reg_nao_fiscal,
\* abre_nfiscal_nvinc, abre_rel_gerencial, vende_item.
Use(n) ==
  \/ /\ LookUp(n)
     /\ \/ \E i \in 1..Slots : At(n, i) /\ Answered("used", n, Index(n, i))
        \/ Absent(n) /\ Answered("missing", n, IDX_NOT_FOUND)
        \/ CanFail /\ Error(n)
  \/ LookUpFails(n)

\* vende_item: an item that is exempt needs no rate.
SellExempt ==
  /\ list = "rates"
  /\ Answered("exempt", Free, 0) \/ (CanFail /\ Error(Free))
  /\ UNCHANGED <<driver, list, table, cache, missed>>

\* get_tab_aliq: the rates are looked up for one that no table has, and what is
\* cached is listed.
ListRates ==
  /\ list = "rates"
  /\ \/ LookUp(Free) /\ Answered("listed", Free, 0)
     \/ LookUpFails(Free)

-----------------------------------------------------------------------------
(* Programming an entry.                                                   *)

\* The first free slot, or none.
FirstFree(copy, i) ==
  \/ /\ i \in 1..Slots /\ copy[i] = Free
     /\ \A k \in 1..(i - 1) : copy[k] # Free
  \/ i = 0 /\ \A k \in 1..Slots : copy[k] # Free

\* Mutant: the index from 0 is not made a slot.
ChosenLow(n, i) ==
  IF list = "reports" THEN i = Rank(Seen(n), Slots) + 1
  ELSE FirstFree(Copy, IF list = "totals" THEN i + 1 ELSE i)

\* get_prox_totalizador and get_prox_forma_pgto count from 0, -1 if there is
\* none: the slot given to the printer is one more.  A new report is put after
\* those that were kept.  The printer chooses a slot for rates and, with the
\* older driver, for methods.
Chosen(n, i) ==
  IF list = "reports" THEN i = Rank(Seen(n), Slots) + 1
  ELSE \/ list = "totals" /\ FirstFree(Copy, i)
       \/ list # "totals" /\ FirstFree(table, i)

\* get_prox_totalizador, as a command: the table is always read.
GetProx ==
  /\ list = "totals"
  /\ \/ /\ cache' = Copy
        /\ \E i \in 0..Slots : FirstFree(Copy, i) /\ Answered("free", Free, i - 1)
        /\ UNCHANGED <<driver, list, table, missed>>
     \/ LookUpFails(Free)

\* An entry that is there: an error, or nothing at all.
SetPresent(n) ==
  /\ ~Absent(n)
  /\ LookUp(n)
  /\ IF driver = "cv0909" /\ list # "rates" THEN Answered("present", n, 0)
     ELSE Error(n)

\* The copy is dropped if check returns.  The older driver knows no slot for
\* methods, so it does not read the table again; the search of a free slot
\* may fail as well.
Program(n) ==
  /\ Absent(n)
  /\ UNCHANGED <<driver, list>>
  /\ \/ \E i \in 1..Slots, ok \in BOOLEAN :
          /\ Chosen(n, i) /\ Done(ok)
          /\ table' = [table EXCEPT ![i] = n]
          /\ cache' = IF ok THEN <<>> ELSE Seen(n)
          /\ missed' = ~ok
          /\ IF ok THEN Answered("set", n, i) ELSE Error(n)
     \/ /\ CanFail \/ \A i \in 1..Slots : ~Chosen(n, i)
        /\ cache' = Seen(n)
        /\ Error(n)
        /\ UNCHANGED <<table, missed>>

\* set_forma_pgto, set_totalizador, set_rel_gerencial, set_aliquota.
Set(n) == SetPresent(n) \/ Program(n) \/ LookUpFails(n)

-----------------------------------------------------------------------------
\* A new driver object has no copy.
Restart ==
  /\ cache' = <<>> /\ missed' = FALSE
  /\ Answered("none", Free, 0)
  /\ UNCHANGED <<driver, list, table>>

Next ==
  \/ \E n \in Names : GetIndex(n) \/ Use(n) \/ Set(n)
  \/ SellExempt \/ ListRates \/ GetProx
  \/ Restart

Spec == Init /\ [][Next]_vars

-----------------------------------------------------------------------------
(* Properties.                                                             *)

\* A copy without free slots between its entries.
NoGap(copy) ==
  \A i \in DOMAIN copy : copy[i] # Free => \A k \in 1..i : copy[k] # Free

\* What is cached is in the printer's table, at the same slot, whatever was
\* programmed or refused since: unless the reader drops free slots, and then
\* unless it has dropped one.
CopyHonest ==
  (Compacts => NoGap(cache)) =>
    \A i \in DOMAIN cache : cache[i] # Free => table[i] = cache[i]

\* The entries that are not read are at their slots.
BuiltInKept == \A i \in 1..Slots, n \in Names : BuiltIn(i, n) => table[i] = n

\* Cached rates are never read again: they are the printer's as long as no
\* error was reported for one that it has programmed.
RatesFresh == list = "rates" /\ cache # <<>> /\ ~missed => cache = table

\* The slot an index speaks of: the index itself, but for the one that a client
\* is told of a totaliser, which is one more than the driver's.
SlotMeant ==
  IF answer.op = "index" /\ list = "totals" THEN answer.index - 1 ELSE answer.index

\* Under the condition of CopyHonest the slot that is meant by an index answered,
\* or given to the printer for a payment, a totaliser, a report or an item, has
\* the name ("a posicao na tabela do ECF", ecfbematech.cc:2820).
IndexIsTheSlot ==
  answer.op \in {"index", "used"} /\ (Compacts => NoGap(cache)) =>
    /\ SlotMeant \in 1..Slots
    /\ table[SlotMeant] = answer.name

\* Not so in the code.  The index that get_totalizador_cnf answers is that of the
\* totaliser in the printer's table ("Obtem o indice de um totalizador nao
\* fiscal", ecfbroker.cc:814), the one the printer is given for it.
ToldTheTotaliser ==
  answer.op = "index" /\ list = "totals" =>
    /\ answer.index \in 1..Slots
    /\ table[answer.index] = answer.name

\* An entry is said to be missing only if the table does not have it: but for
\* the fixed report, the first time, and for a rate whose programming was
\* reported as an error and which the cache then never shows.
MissingIsMissing ==
  answer.op = "missing" /\ answer.name # Fixed /\ ~(list = "rates" /\ missed) =>
    \A i \in 1..Slots : Copy[i] # answer.name

\* However often an entry is programmed, and whatever errors were reported, the
\* printer has it once; a report it already has by default, and a rate after
\* such an error, may be programmed again.
NameOnce ==
  ~(list = "rates" /\ LateErrors) =>
    \A i, j \in 1..Slots :
      Copy[i] = Copy[j] /\ Copy[i] \notin {Free, Fixed} => i = j

\* The slot chosen for a new entry is a free one: programming never takes the
\* place of an entry.  (A report may, when the reader has dropped a free slot.)
NothingOverwritten ==
  [][\A i \in 1..Slots :
       table'[i] # table[i] =>
         \/ Copy[i] = Free
         \/ list = "reports" /\ ~NoGap(table)]_vars
=============================================================================
