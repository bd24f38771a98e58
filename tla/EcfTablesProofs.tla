-------------------------- MODULE EcfTablesProofs -----------------------------
(***************************************************************************)
(* For any table, any names, any refusals and any errors: what the drivers *)
(* cache is the printer's, and the index they give is the slot of the name. *)
(***************************************************************************)
EXTENDS EcfTables, FiniteSetTheorems, TLAPS

Copies == [1..Slots -> Names \cup {Free}]

LEMMA SlotsNumber == Slots \in Nat /\ Slots > 2
BY TablesAssumption, Zenon

\* The copy of a well-formed table is well-formed, and in it an entry is at its
\* slot.
LEMMA CopyOfTable ==
  ASSUME TypeOK
  PROVE  /\ Copy \in Copies
         /\ \A i \in 1..Slots : Copy[i] # Free => Copy[i] = table[i]
         /\ \A i \in 1..Slots : table[i] = Free => Copy[i] = Free
BY DEF TypeOK, Copy, Copies

LEMMA SeenType ==
  ASSUME TypeOK, NEW n
  PROVE  Seen(n) \in Copies
BY CopyOfTable DEF TypeOK, Seen, Reads, Copies

\* Without a gap the entries up to an entry are as many as its slot.
LEMMA RankOfEntry ==
  ASSUME NEW copy \in Copies, NoGap(copy), NEW i \in 1..Slots, copy[i] # Free
  PROVE  Rank(copy, i) = i
<1>1. i \in Nat /\ i > 0
  BY SlotsNumber DEF NoGap
<1>2. {j \in 1..i : copy[j] # Free} = 1..i
  BY SlotsNumber DEF NoGap, Copies
<1>3. Cardinality(1..i) = i
  BY <1>1, FS_Interval DEF NoGap
<1> QED
  BY <1>2, <1>3 DEF Rank, NoGap

LEMMA RankType ==
  ASSUME NEW copy \in Copies, NEW i \in 1..Slots
  PROVE  Rank(copy, i) \in 0..i
<1> DEFINE Filled == {j \in 1..i : copy[j] # Free}
<1>1. i \in Nat
  BY SlotsNumber
<1>2. IsFiniteSet(1..i) /\ Cardinality(1..i) = i
  BY <1>1, FS_Interval, SlotsNumber
<1>3. Filled \in SUBSET (1..i)
  OBVIOUS
<1>4. IsFiniteSet(Filled) /\ Cardinality(Filled) <= Cardinality(1..i)
  BY <1>2, <1>3, FS_Subset
<1>5. Cardinality(Filled) \in Nat
  BY <1>4, FS_CardinalityType
<1> QED
  BY <1>1, <1>2, <1>4, <1>5 DEF Rank

\* Without a gap an entry is not beyond the number of entries.
LEMMA EntryWithinRank ==
  ASSUME NEW copy \in Copies, NoGap(copy), NEW i \in 1..Slots, copy[i] # Free
  PROVE  i <= Rank(copy, Slots)
<1> DEFINE Filled == {j \in 1..Slots : copy[j] # Free}
<1>1. i \in Nat /\ Slots \in Nat
  BY SlotsNumber DEF NoGap
<1>2. (1..i) \in SUBSET Filled
  BY SlotsNumber DEF NoGap, Copies
<1>3. IsFiniteSet(1..Slots)
  BY <1>1, FS_Interval DEF NoGap
<1>4. IsFiniteSet(Filled)
  BY <1>3, FS_Subset, Filled \in SUBSET (1..Slots) DEF NoGap
<1>5. Cardinality(1..i) <= Cardinality(Filled)
  BY <1>2, <1>4, FS_Subset DEF NoGap
<1>6. Cardinality(1..i) = i
  BY <1>1, FS_Interval, SlotsNumber DEF NoGap
<1> QED
  BY <1>5, <1>6 DEF Rank, NoGap

\* A slot that is programmed has no entry in the copy the driver chose it by,
\* provided the copy of a new report has no gap.
LEMMA ChosenIsFree ==
  ASSUME TypeOK, NEW n \in Names, Absent(n), NEW i \in 1..Slots, Chosen(n, i),
         list = "reports" => NoGap(Seen(n)),
         Reads(n)
  PROVE  Copy[i] = Free
<1>1. CASE list = "reports"
  <2>1. Seen(n) = Copy /\ Copy \in Copies
    BY CopyOfTable, Zenon DEF Seen
  <2>2. i = Rank(Copy, Slots) + 1
    BY <1>1, <2>1, Zenon DEF Chosen
  <2>3. NoGap(Copy)
    BY <1>1, <2>1, Zenon
  <2>4. Copy[i] # Free => i <= Rank(Copy, Slots)
    BY <2>1, <2>3, EntryWithinRank, Zenon
  <2>5. Rank(Copy, Slots) \in Nat
    BY <2>1, RankType, SlotsNumber
  <2> QED
    BY <2>2, <2>4, <2>5
<1>2. CASE list # "reports"
  <2>1. FirstFree(Copy, i) \/ FirstFree(table, i)
    BY <1>2, Zenon DEF Chosen
  <2>2. i # 0
    OBVIOUS
  <2>3. Copy[i] = Free \/ table[i] = Free
    BY <2>1, <2>2, Zenon DEF FirstFree
  <2> QED
    BY <2>3, CopyOfTable
<1> QED
  BY <1>1, <1>2, Zenon

-----------------------------------------------------------------------------
(* Types.                                                                  *)

LEMMA IndexType ==
  ASSUME TypeOK, NEW n, NEW i \in 1..Slots
  PROVE  Index(n, i) \in -1..Slots
<1>1. CASE Compacts /\ ~Reads(n)
  <2>1. cache \in Copies
    BY <1>1, Zenon DEF TypeOK, Reads, Copies
  <2>2. Rank(cache, i) \in 0..i
    BY <2>1, RankType
  <2> QED
    BY <1>1, <2>2, SlotsNumber DEF Index
<1>2. CASE ~(Compacts /\ ~Reads(n))
  BY <1>2, SlotsNumber DEF Index
<1> QED
  BY <1>1, <1>2, Zenon

LEMMA AnswerType ==
  ASSUME NEW op \in {"none", "index", "used", "exempt", "free", "missing",
                      "set", "present", "listed", "error"},
         NEW n \in Names \cup {Free}, NEW i \in -1..(Slots + 1), Answered(op, n, i)
  PROVE  answer' \in Answers
BY Zenon DEF Answered, Answers

LEMMA Indexes ==
  /\ 0 \in -1..(Slots + 1) /\ IDX_NOT_FOUND \in -1..(Slots + 1)
  /\ -1..Slots \subseteq -1..(Slots + 1)
BY SlotsNumber DEF IDX_NOT_FOUND

\* An index that is told is in the range of answers.
LEMMA ToldType ==
  ASSUME NEW i \in -1..Slots
  PROVE  Told(i) \in -1..(Slots + 1)
BY SlotsNumber DEF Told

LEMMA ErrorType ==
  ASSUME NEW n \in Names \cup {Free}, Error(n)
  PROVE  answer' \in Answers
BY AnswerType, Indexes, Zenon DEF Error

LEMMA LookUpType ==
  ASSUME TypeOK, NEW n, LookUp(n), answer' \in Answers
  PROVE  TypeOK'
<1>1. Seen(n) \in Copies
  BY SeenType, Zenon
<1> QED
  BY <1>1, Zenon DEF LookUp, TypeOK, Copies

LEMMA LookUpFailsType ==
  ASSUME TypeOK, NEW n \in Names \cup {Free}, LookUpFails(n)
  PROVE  TypeOK'
<1>1. answer' \in Answers
  BY ErrorType, Zenon DEF LookUpFails
<1> QED
  BY <1>1, Zenon DEF LookUpFails, TypeOK

\* The index or the error of a command that looked a name up.
LEMMA FoundType ==
  ASSUME TypeOK, NEW n \in Names, NEW i \in 1..Slots,
         \/ Answered("used", n, Index(n, i))
         \/ Answered("index", n, Told(Index(n, i)))
  PROVE  answer' \in Answers
<1>1. Index(n, i) \in -1..Slots
  BY IndexType, Zenon
<1>2. Index(n, i) \in -1..(Slots + 1) /\ Told(Index(n, i)) \in -1..(Slots + 1)
  BY <1>1, Indexes, ToldType, Zenon
<1> QED
  BY <1>2, AnswerType, Zenon

LEMMA MissingType ==
  ASSUME NEW n \in Names,
         \/ Answered("missing", n, IDX_NOT_FOUND)
         \/ Answered("missing", n, Told(IDX_NOT_FOUND))
  PROVE  answer' \in Answers
<1>1. IDX_NOT_FOUND \in -1..Slots
  BY SlotsNumber DEF IDX_NOT_FOUND
<1>2. IDX_NOT_FOUND \in -1..(Slots + 1) /\ Told(IDX_NOT_FOUND) \in -1..(Slots + 1)
  BY <1>1, Indexes, ToldType, Zenon
<1> QED
  BY <1>2, AnswerType, Zenon

LEMMA ProgramType ==
  ASSUME TypeOK, NEW n \in Names, Program(n)
  PROVE  TypeOK'
<1>1. Seen(n) \in Copies
  BY SeenType, Zenon
<1>2. CASE \E i \in 1..Slots, ok \in BOOLEAN :
          /\ Chosen(n, i) /\ Done(ok)
          /\ table' = [table EXCEPT ![i] = n]
          /\ cache' = IF ok THEN <<>> ELSE Seen(n)
          /\ missed' = ~ok
          /\ IF ok THEN Answered("set", n, i) ELSE Error(n)
  <2>1. PICK i \in 1..Slots, ok \in BOOLEAN :
          /\ table' = [table EXCEPT ![i] = n]
          /\ cache' = IF ok THEN <<>> ELSE Seen(n)
          /\ missed' = ~ok
          /\ IF ok THEN Answered("set", n, i) ELSE Error(n)
    BY <1>2, Zenon
  <2>2. i \in -1..(Slots + 1)
    BY SlotsNumber
  <2>3. answer' \in Answers
    BY <2>1, <2>2, AnswerType, ErrorType, Zenon
  <2>4. table' \in Copies
    BY <2>1 DEF TypeOK, Copies
  <2> QED
    BY <1>1, <2>1, <2>3, <2>4, Zenon DEF Program, TypeOK, Copies
<1>3. CASE cache' = Seen(n) /\ Error(n) /\ UNCHANGED <<table, missed>>
  <2>1. answer' \in Answers
    BY <1>3, ErrorType, Zenon
  <2> QED
    BY <1>1, <1>3, <2>1, Zenon DEF Program, TypeOK, Copies
<1> QED
  BY <1>2, <1>3, Zenon DEF Program

LEMMA InitType == Init => TypeOK
<1> SUFFICES ASSUME Init PROVE TypeOK
  OBVIOUS
<1>1. answer \in Answers
  <2>1. answer = [op |-> "none", name |-> Free, index |-> 0]
    BY Zenon DEF Init
  <2> QED
    BY <2>1, Indexes, Zenon DEF Answers
<1>2. missed \in BOOLEAN /\ cache = <<>>
  BY DEF Init
<1> QED
  BY <1>1, <1>2, Zenon DEF Init, TypeOK

LEMMA NextType ==
  ASSUME TypeOK, [Next]_vars
  PROVE  TypeOK'
<1>1. ASSUME NEW n \in Names, GetIndex(n) PROVE TypeOK'
  <2>1. LookUp(n) /\ (\E i \in 1..Slots : Answered("index", n, Told(Index(n, i))))
         => TypeOK'
    BY FoundType, LookUpType, Zenon
  <2>2. LookUp(n) /\ Answered("missing", n, Told(IDX_NOT_FOUND)) => TypeOK'
    BY MissingType, LookUpType, Zenon
  <2> QED
    BY <1>1, <2>1, <2>2, LookUpFailsType, Zenon DEF GetIndex
<1>2. ASSUME NEW n \in Names, Use(n) PROVE TypeOK'
  <2>1. LookUp(n) /\ (\E i \in 1..Slots : Answered("used", n, Index(n, i))) => TypeOK'
    BY FoundType, LookUpType, Zenon
  <2>2. LookUp(n) /\ Answered("missing", n, IDX_NOT_FOUND) => TypeOK'
    BY MissingType, LookUpType, Zenon
  <2>3. LookUp(n) /\ Error(n) => TypeOK'
    BY ErrorType, LookUpType, Zenon
  <2> QED
    BY <1>2, <2>1, <2>2, <2>3, LookUpFailsType, Zenon DEF Use
<1>3. ASSUME NEW n \in Names, Set(n) PROVE TypeOK'
  <2>1. SetPresent(n) => TypeOK'
    <3>1. SetPresent(n) => answer' \in Answers
      BY AnswerType, ErrorType, Indexes, Zenon DEF SetPresent
    <3> QED
      BY <3>1, LookUpType, Zenon DEF SetPresent
  <2> QED
    BY <1>3, <2>1, ProgramType, LookUpFailsType, Zenon DEF Set
<1>4. CASE SellExempt
  <2>1. answer' \in Answers
    BY <1>4, AnswerType, ErrorType, Indexes, Zenon DEF SellExempt
  <2> QED
    BY <1>4, <2>1, Zenon DEF SellExempt, TypeOK
<1>5. CASE ListRates
  <2>1. LookUp(Free) /\ Answered("listed", Free, 0) => TypeOK'
    BY AnswerType, Indexes, LookUpType, Zenon
  <2> QED
    BY <1>5, <2>1, LookUpFailsType, Zenon DEF ListRates
<1>6. CASE GetProx
  <2>1. ASSUME cache' = Copy, UNCHANGED <<driver, list, table, missed>>,
               NEW i \in 0..Slots, Answered("free", Free, i - 1)
        PROVE  TypeOK'
    <3>1. i - 1 \in -1..(Slots + 1)
      BY SlotsNumber
    <3>2. answer' \in Answers
      BY <2>1, <3>1, AnswerType, Zenon
    <3> QED
      BY <2>1, <3>2, CopyOfTable, Zenon DEF TypeOK, Copies
  <2> QED
    BY <1>6, <2>1, LookUpFailsType, Zenon DEF GetProx
<1>7. CASE Restart
  <2>1. answer' \in Answers
    BY <1>7, AnswerType, Indexes, Zenon DEF Restart
  <2> QED
    BY <1>7, <2>1, Zenon DEF Restart, TypeOK
<1>8. CASE UNCHANGED vars
  BY <1>8, Zenon DEF vars, TypeOK
<1> QED
  BY <1>1, <1>2, <1>3, <1>4, <1>5, <1>6, <1>7, <1>8, Zenon DEF Next

-----------------------------------------------------------------------------
(* What is programmed, and what is cached.                                 *)

\* The driver programs an entry only if it has just read the table: or a rate,
\* that its cache does not have.
LEMMA ProgramReads ==
  ASSUME TypeOK, NEW n \in Names, Absent(n), ~Reads(n)
  PROVE  list = "rates" /\ cache \in Copies /\ Seen(n) = cache
<1>1. cache # <<>> /\ Seen(n) = cache
  BY Zenon DEF Reads, Seen
<1>2. cache \in Copies
  BY <1>1, Zenon DEF TypeOK, Copies
<1>3. ASSUME list # "rates" PROVE FALSE
  <2>1. PICK i \in DOMAIN cache : cache[i] = n
    BY <1>3, Zenon DEF Reads
  <2>2. i \in 1..Slots
    BY <1>2, <2>1, Zenon DEF Copies
  <2>3. Match(n, i)
    BY <1>1, <2>1, Zenon DEF Match, Compared
  <2> QED
    BY <2>2, <2>3, Zenon DEF Absent
<1> QED
  BY <1>1, <1>2, <1>3, Zenon

\* The slot that is programmed had no entry that the reader shows.
LEMMA ProgrammedSlot ==
  ASSUME TypeOK, NEW n \in Names, Absent(n), NEW i \in 1..Slots, Chosen(n, i),
         list = "reports" => NoGap(Seen(n))
  PROVE  Copy[i] = Free
<1>1. CASE Reads(n)
  BY <1>1, ChosenIsFree, Zenon
<1>2. CASE ~Reads(n)
  <2>1. list = "rates"
    BY <1>2, ProgramReads, Zenon
  <2>2. FirstFree(table, i)
    BY <2>1, Zenon DEF Chosen
  <2>3. i # 0
    OBVIOUS
  <2>4. table[i] = Free
    BY <2>2, <2>3, Zenon DEF FirstFree
  <2> QED
    BY <2>4, CopyOfTable, Zenon
<1> QED
  BY <1>1, <1>2, Zenon

Honest(copy) == \A i \in DOMAIN copy : copy[i] # Free => table[i] = copy[i]

LEMMA SeenHonest ==
  ASSUME TypeOK, CopyHonest, NEW n, Compacts => NoGap(Seen(n))
  PROVE  Honest(Seen(n))
<1>1. CASE Reads(n)
  <2>1. Seen(n) = Copy /\ Copy \in Copies
    BY <1>1, CopyOfTable, Zenon DEF Seen
  <2>2. DOMAIN Copy = 1..Slots
    BY <2>1, Zenon DEF Copies
  <2>3. \A i \in 1..Slots : Copy[i] # Free => table[i] = Copy[i]
    BY CopyOfTable, Zenon
  <2> QED
    BY <2>1, <2>2, <2>3, Zenon DEF Honest
<1>2. CASE ~Reads(n)
  BY <1>2, Zenon DEF CopyHonest, Seen, Honest
<1> QED
  BY <1>1, <1>2, Zenon

LEMMA ProgramHonest ==
  ASSUME TypeOK, CopyHonest, NEW n \in Names, Program(n)
  PROVE  CopyHonest'
<1> SUFFICES ASSUME Compacts => NoGap(cache')
             PROVE  \A i \in DOMAIN cache' : cache'[i] # Free => table'[i] = cache'[i]
  BY Zenon DEF CopyHonest, Compacts, Program, NoGap
<1>1. Absent(n) /\ Seen(n) \in Copies
  BY SeenType, Zenon DEF Program
<1>2. ASSUME NEW i \in 1..Slots, NEW ok \in BOOLEAN, Chosen(n, i),
             table' = [table EXCEPT ![i] = n],
             cache' = IF ok THEN <<>> ELSE Seen(n)
      PROVE  \A k \in DOMAIN cache' : cache'[k] # Free => table'[k] = cache'[k]
  <2>1. CASE ok
    BY <1>2, <2>1
  <2>2. CASE ~ok
    <3>1. cache' = Seen(n) /\ (Compacts => NoGap(Seen(n)))
      BY <1>2, <2>2, Zenon
    <3>2. Honest(Seen(n))
      BY <3>1, SeenHonest, Zenon
    <3>3. Copy[i] = Free
      BY <1>1, <1>2, <3>1, ProgrammedSlot, Zenon DEF Compacts
    <3>4. Seen(n)[i] = Free
      <4>1. CASE Reads(n)
        BY <3>3, <4>1, Zenon DEF Seen
      <4>2. CASE ~Reads(n)
        <5>1. list = "rates"
          BY <1>1, <4>2, ProgramReads, Zenon
        <5>2. FirstFree(table, i)
          BY <1>2, <5>1, Zenon DEF Chosen
        <5>3. i # 0
          OBVIOUS
        <5>4. table[i] = Free
          BY <5>2, <5>3, Zenon DEF FirstFree
        <5> QED
          BY <1>1, <3>2, <5>4, Zenon DEF Honest, Copies
      <4> QED
        BY <4>1, <4>2, Zenon
    <3>5. ASSUME NEW k \in 1..Slots, Seen(n)[k] # Free
          PROVE  table'[k] = Seen(n)[k]
      <4>1. k # i /\ table[k] = Seen(n)[k]
        BY <1>1, <3>2, <3>4, <3>5, Zenon DEF Honest, Copies
      <4>2. table'[k] = table[k]
        BY <1>2, <4>1 DEF TypeOK
      <4> QED
        BY <4>1, <4>2, Zenon
    <3>6. DOMAIN Seen(n) = 1..Slots
      BY <1>1, Zenon DEF Copies
    <3> QED
      BY <3>1, <3>5, <3>6, Zenon
  <2> QED
    BY <2>1, <2>2, Zenon
<1>3. CASE cache' = Seen(n) /\ UNCHANGED <<table, missed>>
  <2>1. Honest(Seen(n))
    BY <1>3, SeenHonest, Zenon
  <2> QED
    BY <1>3, <2>1, Zenon DEF Honest
<1> QED
  BY <1>2, <1>3, Zenon DEF Program

LEMMA LookUpHonest ==
  ASSUME TypeOK, CopyHonest, NEW n, cache' = Seen(n), UNCHANGED <<driver, list, table>>
  PROVE  CopyHonest'
<1> SUFFICES ASSUME Compacts => NoGap(Seen(n))
             PROVE  Honest(Seen(n))
  BY Zenon DEF CopyHonest, Compacts, NoGap, Honest
<1> QED
  BY SeenHonest, Zenon

\* Every step but Program keeps the table, and keeps the copy, drops it or
\* replaces it by what is seen.
LEMMA OtherSteps ==
  ASSUME [Next]_vars
  PROVE  \/ \E n \in Names : Program(n)
         \/ /\ UNCHANGED <<driver, list, table>>
            /\ \/ cache' = cache
               \/ cache' = <<>> /\ missed' = FALSE
               \/ (\E n \in Names \cup {Free} : LookUp(n))
               \/ list = "totals" /\ cache' = Copy /\ missed' = missed
BY Zenon DEF Next, vars, GetIndex, Use, Set, SetPresent, SellExempt, ListRates,
            GetProx, Restart, LookUp, LookUpFails

LEMMA NextHonest ==
  ASSUME TypeOK, CopyHonest, [Next]_vars
  PROVE  CopyHonest'
<1>1. ASSUME NEW n \in Names, Program(n) PROVE CopyHonest'
  BY <1>1, ProgramHonest, Zenon
<1>2. ASSUME UNCHANGED <<driver, list, table>>, cache' = cache PROVE CopyHonest'
  BY <1>2, Zenon DEF CopyHonest, Compacts, NoGap
<1>3. ASSUME UNCHANGED <<driver, list, table>>, cache' = <<>> PROVE CopyHonest'
  BY <1>3 DEF CopyHonest
<1>4. ASSUME NEW n, LookUp(n) PROVE CopyHonest'
  BY <1>4, LookUpHonest, Zenon DEF LookUp
<1>5. ASSUME UNCHANGED <<driver, list, table>>, cache' = Copy PROVE CopyHonest'
  <2>1. \A i \in 1..Slots : Copy[i] # Free => table[i] = Copy[i]
    BY CopyOfTable, Zenon
  <2>2. DOMAIN Copy = 1..Slots
    BY CopyOfTable, Zenon DEF Copies
  <2> QED
    BY <1>5, <2>1, <2>2, Zenon DEF CopyHonest
<1> QED
  BY <1>1, <1>2, <1>3, <1>4, <1>5, OtherSteps, Zenon

-----------------------------------------------------------------------------
(* Indexes.                                                                *)

\* An index that is made of the slot of a match is that slot.
LEMMA IndexOfMatch ==
  ASSUME TypeOK, CopyHonest, NEW n \in Names, NEW i \in 1..Slots, At(n, i),
         Compacts => NoGap(Seen(n))
  PROVE  Index(n, i) = i /\ table[i] = n
<1>1. Seen(n)[i] = n /\ n # Free /\ Seen(n) \in Copies
  BY SeenType, TablesAssumption, Zenon DEF At, Match
<1>2. table[i] = n
  <2>1. Honest(Seen(n)) /\ DOMAIN Seen(n) = 1..Slots
    BY <1>1, SeenHonest, Zenon DEF Copies
  <2> QED
    BY <1>1, <2>1, Zenon DEF Honest
<1>3. CASE Compacts /\ ~Reads(n)
  <2>1. Seen(n) = cache
    BY <1>3, Zenon DEF Seen
  <2>2. Rank(cache, i) = i
    BY <1>1, <1>3, <2>1, RankOfEntry, Zenon
  <2> QED
    BY <1>2, <1>3, <2>2, Zenon DEF Index
<1>4. CASE ~(Compacts /\ ~Reads(n))
  BY <1>2, <1>4, Zenon DEF Index
<1> QED
  BY <1>3, <1>4, Zenon

LEMMA NextIndex ==
  ASSUME TypeOK, CopyHonest, IndexIsTheSlot, [Next]_vars
  PROVE  IndexIsTheSlot'
<1>1. ASSUME NEW n \in Names, LookUp(n), NEW i \in 1..Slots, At(n, i),
             \/ Answered("used", n, Index(n, i))
             \/ list # "rates" /\ Answered("index", n, Told(Index(n, i)))
      PROVE  IndexIsTheSlot'
  <2> SUFFICES ASSUME Compacts => NoGap(Seen(n))
               PROVE  SlotMeant' \in 1..Slots /\ table'[SlotMeant'] = answer'.name
    BY <1>1, Zenon DEF IndexIsTheSlot, LookUp, Compacts, NoGap
  <2>1. Index(n, i) = i /\ table[i] = n
    BY <1>1, IndexOfMatch, Zenon
  <2>2. UNCHANGED <<table, list>>
    BY <1>1, Zenon DEF LookUp
  <2>3. answer'.name = n
    BY <1>1 DEF Answered
  <2>4. SlotMeant' = i
    <3>1. CASE Answered("used", n, i)
      BY <3>1 DEF Answered, SlotMeant
    <3>2. CASE Answered("index", n, Told(i)) /\ list = "totals"
      BY <2>2, <3>2, SlotsNumber DEF Answered, SlotMeant, Told
    <3>3. CASE Answered("index", n, Told(i)) /\ list # "totals"
      BY <2>2, <3>3, SlotsNumber DEF Answered, SlotMeant, Told
    <3> QED BY <1>1, <2>1, <3>1, <3>2, <3>3, Zenon
  <2> QED
    BY <2>1, <2>2, <2>3, <2>4, Zenon
<1>2. ASSUME NEW op, NEW n, NEW i, Answered(op, n, i), op \notin {"index", "used"}
      PROVE  IndexIsTheSlot'
  <2>1. answer'.op = op
    BY <1>2 DEF Answered
  <2> QED
    BY <1>2, <2>1, Zenon DEF IndexIsTheSlot
<1>3. ASSUME NEW n, Error(n) PROVE IndexIsTheSlot'
  BY <1>2, <1>3, "error" \notin {"index", "used"}, Zenon DEF Error
<1>4. ASSUME NEW n \in Names, GetIndex(n) \/ Use(n) PROVE IndexIsTheSlot'
  <2>1. "missing" \notin {"index", "used"}
    OBVIOUS
  <2> QED
    BY <1>1, <1>2, <1>3, <1>4, <2>1, Zenon DEF GetIndex, Use, LookUpFails
<1>5. ASSUME NEW n \in Names, Set(n) PROVE IndexIsTheSlot'
  <2>1. "set" \notin {"index", "used"} /\ "present" \notin {"index", "used"}
    OBVIOUS
  <2> QED
    BY <1>2, <1>3, <1>5, <2>1, Zenon DEF Set, SetPresent, Program, LookUpFails
<1>6. ASSUME SellExempt \/ ListRates \/ GetProx \/ Restart PROVE IndexIsTheSlot'
  <2>1. \A op \in {"exempt", "listed", "free", "none"} : op \notin {"index", "used"}
    OBVIOUS
  <2> QED
    BY <1>2, <1>3, <1>6, <2>1, Zenon
       DEF SellExempt, ListRates, GetProx, Restart, LookUpFails
<1>7. CASE UNCHANGED vars
  BY <1>7, Zenon DEF vars, IndexIsTheSlot, SlotMeant, Compacts, NoGap
<1> QED
  BY <1>4, <1>5, <1>6, <1>7, Zenon DEF Next

\* Whatever was programmed and refused, the copy a driver keeps is the
\* printer's, and an index it gives means the slot of the name (one less than what
\* a client is told of a totaliser), as long as it has not dropped a free slot
\* before an entry (idx_element, get_id_forma_pgto,
\* get_totalizador_cnf, get_id_rel_gerencial, get_idx_aliquota).
THEOREM Indexing == Spec => [](TypeOK /\ CopyHonest /\ IndexIsTheSlot)
<1> DEFINE IInv == TypeOK /\ CopyHonest /\ IndexIsTheSlot
<1>1. Init => IInv
  <2> SUFFICES ASSUME Init PROVE IInv
    OBVIOUS
  <2>1. CopyHonest
    BY DEF Init, CopyHonest
  <2>2. answer.op = "none"
    BY DEF Init
  <2>3. IndexIsTheSlot
    BY <2>2 DEF IndexIsTheSlot
  <2> QED
    BY <2>1, <2>3, InitType, Zenon
<1>2. IInv /\ [Next]_vars => IInv'
  BY NextType, NextHonest, NextIndex, Zenon
<1> QED
  BY <1>1, <1>2, PTL DEF Spec

-----------------------------------------------------------------------------
(* Names.                                                                  *)

\* The reader shows the whole table, but for the cash totalisers of older
\* printers.
LEMMA CopyIsTable ==
  ASSUME TypeOK, list # "totals"
  PROVE  Copy = table
BY DEF Copy, Cash, TypeOK

\* An entry that was looked up and not found is not in the table.
LEMMA AbsentIsMissing ==
  ASSUME TypeOK, BuiltInKept, RatesFresh, NEW n \in Names, Absent(n), n # Fixed,
         ~(list = "rates" /\ missed), NEW k \in 1..Slots
  PROVE  Copy[k] # n
<1>1. CASE Reads(n)
  <2> SUFFICES ASSUME Copy[k] = n PROVE FALSE
    OBVIOUS
  <2>1. Seen(n)[k] = n
    BY <1>1, Zenon DEF Seen
  <2>2. list = "reports" /\ k = 1
    BY <2>1, Zenon DEF Absent, Match, Compared
  <2>3. table[k] = Fixed
    <3>1. Fixed \in Names
      BY TablesAssumption, Zenon
    <3> QED
      BY <2>2, <3>1, Zenon DEF BuiltInKept, BuiltIn
  <2>4. Copy = table
    BY <2>2, CopyIsTable
  <2> QED
    BY <2>3, <2>4, Zenon
<1>2. CASE ~Reads(n)
  <2>1. list = "rates" /\ cache \in Copies /\ Seen(n) = cache /\ cache # <<>>
    BY <1>2, ProgramReads, Zenon DEF Reads
  <2>2. cache = Copy
    <3>1. Copy = table
      BY <2>1, CopyIsTable
    <3> QED
      BY <2>1, <3>1, Zenon DEF RatesFresh
  <2>3. Match(n, k) \/ Seen(n)[k] # n
    BY <1>2, Zenon DEF Match, Compared
  <2> QED
    BY <2>1, <2>2, <2>3, Zenon DEF Absent
<1> QED
  BY <1>1, <1>2, Zenon

\* The slot that is programmed, and what is left of the others.
LEMMA ProgramStep ==
  ASSUME TypeOK, NEW n \in Names, Program(n), table' # table
  PROVE  \E i \in 1..Slots : /\ Chosen(n, i)
                             /\ table' = [table EXCEPT ![i] = n]
                             /\ \A k \in 1..Slots : k # i => table'[k] = table[k]
                             /\ table'[i] = n
<1>1. PICK i \in 1..Slots : Chosen(n, i) /\ table' = [table EXCEPT ![i] = n]
  BY Zenon DEF Program
<1>2. (\A k \in 1..Slots : k # i => table'[k] = table[k]) /\ table'[i] = n
  BY <1>1 DEF TypeOK
<1> QED
  BY <1>1, <1>2, Zenon

LEMMA SlotOfProgram ==
  ASSUME TypeOK, NEW n \in Names, Program(n), NEW i \in 1..Slots, Chosen(n, i)
  PROVE  Copy[i] = Free \/ (list = "reports" /\ ~NoGap(table))
<1> SUFFICES ASSUME list = "reports" => NoGap(table)
             PROVE  Copy[i] = Free
  BY Zenon
<1>1. Absent(n)
  BY Zenon DEF Program
<1>2. list = "reports" => Seen(n) = table
  <2>1. list = "reports" => Copy = table
    BY CopyIsTable
  <2>2. list = "reports" => Reads(n)
    BY <1>1, ProgramReads, "reports" # "rates", Zenon
  <2> QED
    BY <2>1, <2>2, Zenon DEF Seen
<1> QED
  BY <1>1, <1>2, ProgrammedSlot, Zenon

\* set_forma_pgto, set_totalizador, set_rel_gerencial and set_aliquota never
\* take the slot of an entry, but that set_rel_gerencial may where the table has
\* a gap.
THEOREM Programming == Spec => NothingOverwritten
<1>1. TypeOK /\ [Next]_vars =>
        [\A i \in 1..Slots :
           table'[i] # table[i] =>
             \/ Copy[i] = Free
             \/ list = "reports" /\ ~NoGap(table)]_vars
  <2> SUFFICES ASSUME TypeOK, [Next]_vars, NEW j \in 1..Slots, table'[j] # table[j]
               PROVE  Copy[j] = Free \/ (list = "reports" /\ ~NoGap(table))
    BY Zenon
  <2>1. table' # table
    BY Zenon
  <2>2. PICK n \in Names : Program(n)
    BY <2>1, OtherSteps, Zenon
  <2>3. PICK i \in 1..Slots : Chosen(n, i) /\ \A k \in 1..Slots : k # i => table'[k] = table[k]
    BY <2>1, <2>2, ProgramStep, Zenon
  <2> QED
    BY <2>2, <2>3, SlotOfProgram, Zenon
<1>2. Spec => []TypeOK
  BY InitType, NextType, PTL DEF Spec
<1> QED
  BY <1>1, <1>2, PTL DEF Spec, NothingOverwritten

\* An entry that is not read keeps its slot.
LEMMA ProgramBuiltIn ==
  ASSUME TypeOK, BuiltInKept, NEW n \in Names, Program(n), table' # table
  PROVE  BuiltInKept'
<1>1. PICK i \in 1..Slots : Chosen(n, i) /\ \A k \in 1..Slots : k # i => table'[k] = table[k]
  BY ProgramStep, Zenon
<1> SUFFICES ASSUME NEW m \in Names, BuiltIn(i, m) PROVE FALSE
  BY <1>1, Zenon DEF BuiltInKept, BuiltIn, Cash, Program
<1>2. table[i] = m /\ m # Free
  BY TablesAssumption, Zenon DEF BuiltInKept
<1>3. Copy[i] = m
  BY <1>2 DEF Copy
<1>4. list = "reports" /\ i = 1 /\ Copy[1] # Free
  <2>1. list = "reports"
    BY <1>1, <1>2, <1>3, SlotOfProgram, Zenon
  <2>2. i = 1
    BY <2>1 DEF BuiltIn, Cash
  <2> QED
    BY <1>2, <1>3, <2>1, <2>2, Zenon
<1>5. Seen(n) = Copy
  <2>1. Absent(n)
    BY Zenon DEF Program
  <2>2. Reads(n)
    BY <1>4, <2>1, ProgramReads, "reports" # "rates", Zenon
  <2> QED
    BY <2>2, Zenon DEF Seen
<1>6. i = Rank(Copy, Slots) + 1
  BY <1>1, <1>4, <1>5, Zenon DEF Chosen
<1>7. Rank(Copy, Slots) \in Nat /\ Rank(Copy, Slots) # 0
  <2> DEFINE Filled == {j \in 1..Slots : Copy[j] # Free}
  <2>1. IsFiniteSet(1..Slots)
    BY SlotsNumber, FS_Interval
  <2>2. IsFiniteSet(Filled)
    BY <2>1, FS_Subset, Filled \in SUBSET (1..Slots)
  <2>3. 1 \in Filled
    BY <1>4, SlotsNumber
  <2>4. Cardinality(Filled) \in Nat
    BY <2>2, FS_CardinalityType, Zenon
  <2>5. Cardinality(Filled) # 0
    BY <2>2, <2>3, FS_EmptySet, Zenon
  <2> QED
    BY <2>4, <2>5, Zenon DEF Rank
<1> QED
  BY <1>4, <1>6, <1>7

LEMMA NextBuiltIn ==
  ASSUME TypeOK, BuiltInKept, [Next]_vars
  PROVE  BuiltInKept'
<1>1. UNCHANGED <<driver, list, table>> => BuiltInKept'
  BY Zenon DEF BuiltInKept, BuiltIn, Cash
<1>2. ASSUME NEW n \in Names, Program(n) PROVE BuiltInKept'
  <2>1. table' = table => BuiltInKept'
    BY <1>1, <1>2, Zenon DEF Program
  <2> QED
    BY <1>2, <2>1, ProgramBuiltIn, Zenon
<1> QED
  BY <1>1, <1>2, OtherSteps, Zenon

LEMMA NextRates ==
  ASSUME TypeOK, RatesFresh, [Next]_vars
  PROVE  RatesFresh'
<1>1. ASSUME NEW n, list = "rates" PROVE Seen(n) = table \/ (Seen(n) = cache /\ cache # <<>>)
  BY <1>1, CopyIsTable, "rates" # "totals", Zenon DEF Seen, Reads
<1>2. ASSUME NEW n \in Names, Program(n) PROVE RatesFresh'
  <2>1. cache' = <<>> \/ missed' = TRUE
          \/ (cache' = Seen(n) /\ UNCHANGED <<table, missed>>)
    BY <1>2, Zenon DEF Program
  <2>2. list' = list
    BY <1>2, Zenon DEF Program
  <2>3. CASE cache' = Seen(n) /\ UNCHANGED <<table, missed>>
    BY <1>1, <2>2, <2>3, Zenon DEF RatesFresh
  <2>4. CASE cache' = <<>> \/ missed' = TRUE
    BY <2>4, Zenon DEF RatesFresh
  <2> QED
    BY <2>1, <2>3, <2>4, Zenon
<1>3. ASSUME NEW n, LookUp(n) PROVE RatesFresh'
  BY <1>1, <1>3, Zenon DEF RatesFresh, LookUp
<1>4. ASSUME list = "totals", UNCHANGED list PROVE RatesFresh'
  BY <1>4 DEF RatesFresh
<1>5. ASSUME UNCHANGED <<driver, list, table>>, cache' = <<>> PROVE RatesFresh'
  BY <1>5, Zenon DEF RatesFresh
<1>6. ASSUME UNCHANGED <<driver, list, table, cache>>, missed' = missed PROVE RatesFresh'
  BY <1>6, Zenon DEF RatesFresh
<1> QED
  BY <1>2, <1>3, <1>4, <1>5, <1>6, Zenon
     DEF Next, vars, GetIndex, Use, Set, SetPresent, SellExempt, ListRates,
         GetProx, Restart, LookUpFails

\* An error for what was done happens only where it may.
MissedIsLate == missed => LateErrors

LEMMA NextMissed ==
  ASSUME MissedIsLate, [Next]_vars
  PROVE  MissedIsLate'
<1>1. ASSUME NEW n \in Names, Program(n) PROVE MissedIsLate'
  BY <1>1, Zenon DEF Program, Done, MissedIsLate
<1> QED
  BY <1>1, Zenon DEF MissedIsLate, Next, vars, GetIndex, Use, Set, SetPresent,
       SellExempt, ListRates, GetProx, Restart, LookUp, LookUpFails

LEMMA NextNameOnce ==
  ASSUME TypeOK, BuiltInKept, RatesFresh, MissedIsLate, NameOnce, [Next]_vars
  PROVE  NameOnce'
<1>1. UNCHANGED <<driver, list, table>> => NameOnce'
  BY Zenon DEF NameOnce, Copy, Cash, BuiltIn
<1>2. ASSUME NEW n \in Names, Program(n), table' # table PROVE NameOnce'
  <2> SUFFICES ASSUME ~(list = "rates" /\ LateErrors),
                      NEW i \in 1..Slots, NEW j \in 1..Slots,
                      Copy'[i] = Copy'[j], Copy'[i] \notin {Free, Fixed}, i # j
               PROVE  FALSE
    BY <1>2, Zenon DEF NameOnce, Program
  <2>1. PICK s \in 1..Slots :
          table'[s] = n /\ \A k \in 1..Slots : k # s => table'[k] = table[k]
    BY <1>2, ProgramStep, Zenon
  <2>2. \A k \in 1..Slots : k # s => Copy'[k] = Copy[k]
    BY <1>2, <2>1, Zenon DEF Copy, Cash, BuiltIn, Program
  <2>3. Copy'[s] \in {n, Free}
    BY <1>2, <2>1, Zenon DEF Copy
  <2>4. n # Fixed => \A k \in 1..Slots : Copy[k] # n
    <3>1. ~(list = "rates" /\ missed)
      BY Zenon DEF MissedIsLate
    <3> QED
      BY <1>2, <3>1, AbsentIsMissing, Zenon DEF Program
  <2>5. CASE i # s /\ j # s
    BY <2>2, <2>5, Zenon DEF NameOnce
  <2>6. CASE i = s
    BY <2>2, <2>3, <2>4, <2>6, Zenon
  <2>7. CASE j = s
    BY <2>2, <2>3, <2>4, <2>7, Zenon
  <2> QED
    BY <2>5, <2>6, <2>7, Zenon
<1>3. ASSUME NEW n \in Names, Program(n), table' = table PROVE NameOnce'
  BY <1>1, <1>3, Zenon DEF Program
<1> QED
  BY <1>1, <1>2, <1>3, OtherSteps, Zenon

LEMMA NextMissing ==
  ASSUME TypeOK, BuiltInKept, RatesFresh, MissingIsMissing, [Next]_vars
  PROVE  MissingIsMissing'
<1>1. ASSUME NEW n \in Names, LookUp(n), Absent(n),
             NEW i, Answered("missing", n, i)
      PROVE  MissingIsMissing'
  <2>1. answer'.name = n
    BY <1>1 DEF Answered
  <2>2. Copy' = Copy
    BY <1>1, Zenon DEF LookUp, Copy, Cash, BuiltIn
  <2> QED
    BY <1>1, <2>1, <2>2, AbsentIsMissing, Zenon DEF MissingIsMissing, LookUp
<1>2. ASSUME NEW op, NEW n, NEW i, Answered(op, n, i), op # "missing"
      PROVE  MissingIsMissing'
  <2>1. answer'.op = op
    BY <1>2 DEF Answered
  <2> QED
    BY <1>2, <2>1, Zenon DEF MissingIsMissing
<1>3. ASSUME NEW n, Error(n) PROVE MissingIsMissing'
  BY <1>2, <1>3, "error" # "missing", Zenon DEF Error
<1>4. \A op \in {"index", "used", "exempt", "listed", "free", "none", "set", "present"} :
        op # "missing"
  OBVIOUS
<1>5. ASSUME NEW n \in Names, GetIndex(n) \/ Use(n) PROVE MissingIsMissing'
  BY <1>1, <1>2, <1>3, <1>4, <1>5, Zenon DEF GetIndex, Use, LookUpFails
<1>6. ASSUME NEW n \in Names, Set(n) PROVE MissingIsMissing'
  BY <1>2, <1>3, <1>4, <1>6, Zenon DEF Set, SetPresent, Program, LookUpFails
<1>7. ASSUME SellExempt \/ ListRates \/ GetProx \/ Restart PROVE MissingIsMissing'
  BY <1>2, <1>3, <1>4, <1>7, Zenon
     DEF SellExempt, ListRates, GetProx, Restart, LookUpFails
<1>8. CASE UNCHANGED vars
  BY <1>8, Zenon DEF vars, MissingIsMissing, Copy, Cash, BuiltIn
<1> QED
  BY <1>5, <1>6, <1>7, <1>8, Zenon DEF Next

\* The drivers call an entry missing, and program it, only if the printer does
\* not have it: no entry is programmed twice.
THEOREM NamesOnce == Spec => [](MissingIsMissing /\ NameOnce)
<1> DEFINE IInv == /\ TypeOK /\ BuiltInKept /\ RatesFresh /\ MissedIsLate
                   /\ NameOnce /\ MissingIsMissing
<1>1. Init => IInv
  <2> SUFFICES ASSUME Init PROVE IInv
    OBVIOUS
  <2>1. BuiltInKept
    BY Zenon DEF Init, BuiltInKept
  <2>2. RatesFresh /\ MissedIsLate
    BY DEF Init, RatesFresh, MissedIsLate
  <2>3. NameOnce
    BY Zenon DEF Init, NameOnce
  <2>4. MissingIsMissing
    BY DEF Init, MissingIsMissing
  <2> QED
    BY <2>1, <2>2, <2>3, <2>4, InitType, Zenon
<1>2. IInv /\ [Next]_vars => IInv'
  BY NextType, NextBuiltIn, NextRates, NextMissed, NextNameOnce, NextMissing, Zenon
<1> QED
  BY <1>1, <1>2, PTL DEF Spec
=============================================================================
