--------------------------- MODULE SpoolerProofs ----------------------------
(***************************************************************************)
(* Proofs about Spooler, for every set of names, every number of requests  *)
(* and every value of the other constants.                                 *)
(***************************************************************************)
EXTENDS Spooler, FiniteSetTheorems, SequenceTheorems, TLAPS

\* Where the process stands decides what its local variables hold, and a file
\* without a request is no file.
Control ==
  /\ pc \in {"read", "unlink"} \cup Consumed => taken \in Names
  /\ pc = "check" /\ flag => taken \in Names
  /\ pc \in {"unlink"} \cup Consumed => pkt.req \in Requests
  /\ \A n \in Names : dir[n].req = 0 => dir[n] = NoFile
  /\ \A n \in Names : client[n] = "writing" => cur[n] # 0

TypeInv == TypeOK /\ Control

-----------------------------------------------------------------------------
\* Every listing of the directory is a sequence of names.
LEMMA ListingsAreSequences ==
  ASSUME NEW S \in SUBSET Names, NEW q \in SetToSeqs(S)
  PROVE  q \in Seq(Names)
<1>1. IsFiniteSet(S)
  BY QueueAssumption, FS_Subset
<1>2. Cardinality(S) \in Nat
  BY <1>1, FS_CardinalityType
<1>3. q \in [1..Cardinality(S) -> S]
  BY DEF SetToSeqs
<1> QED
  BY <1>2, <1>3

\* The event queue stays a sequence of events, whatever the kernel does.
LEMMA NotifyType ==
  ASSUME kevents \in Seq(Events), NEW e \in Events, Notify(e)
  PROVE  kevents' \in Seq(Events)
BY DEF Notify

\* One read moves events to the queue and keeps the types of both.
LEMMA ReadEventsType ==
  ASSUME kevents \in Seq(Events), ReadEvents
  PROVE  queue' \in Seq(Names) /\ kevents' \in Seq(Events)
<1>1. PICK n \in 1..ReadMax :
        /\ n <= Len(kevents)
        /\ queue' = [i \in 1..n |-> kevents[i].name]
        /\ kevents' = SubSeq(kevents, n + 1, Len(kevents))
  BY DEF ReadEvents
<1>2. n \in Nat /\ n <= Len(kevents)
  BY <1>1, QueueAssumption
<1>3. \A i \in 1..n : kevents[i] \in Events
  BY <1>2
<1>4. \A i \in 1..n : kevents[i].name \in Names
  BY <1>3 DEF Events
<1>5. queue' \in Seq(Names)
  BY <1>1, <1>2, <1>4
<1>6. kevents' \in Seq(Events)
  BY <1>1, <1>2, SubSeqProperties
<1> QED
  BY <1>5, <1>6

\* Requests in work and on disk are requests.
LEMMA PlacesAreRequests ==
  ASSUME TypeInv
  PROVE  InProcess \subseteq Requests /\ OnDisk \subseteq Requests
<1>1. InProcess \subseteq Requests
  BY DEF TypeInv, Control, InProcess, Consumed
<1>2. \A n \in Names : dir[n].req \in 0..MaxRequests
  BY DEF TypeInv, TypeOK, QueueTypeOK, Files
<1>3. OnDisk \subseteq Requests
  BY <1>2, QueueAssumption DEF OnDisk, Requests
<1> QED
  BY <1>1, <1>3

\* The end of the process keeps all types and establishes the control part.
LEMMA LeaveType ==
  ASSUME TypeInv, NEW how \in {"stopped", "died", "killed"}, Leave(how),
         starts' \in 0..MaxStarts, kills' \in 0..MaxKills,
         sigterms' \in 0..MaxSigterms
  PROVE  TypeInv'
<1>1. QueueTypeOK'
  <2>1. /\ dir' = dir /\ kevents' = <<>> /\ queue' = <<>>
        /\ scanType' = "dir" /\ watched' = FALSE
    BY DEF Leave, QueueLost
  <2>2. watched' \in BOOLEAN
    BY <2>1
  <2>3. /\ dir' \in [Names -> Files] /\ scanType' \in {"dir", "event"}
        /\ kevents' \in Seq(Events) /\ queue' \in Seq(Names)
    BY <2>1 DEF TypeInv, TypeOK, QueueTypeOK
  <2> QED
    BY <2>2, <2>3 DEF QueueTypeOK
<1>2. LoopTypeOK'
  <2>1. flag' = FALSE /\ maps' = 0
    BY DEF Leave, LoopReset
  <2>2. maps' \in 0..MaxMaps
    BY <2>1, MapsAssumption
  <2> QED
    BY <2>1, <2>2 DEF LoopTypeOK
<1>3. NoFile \in Files
  BY QueueAssumption DEF NoFile, Files
<1>4. pc' = "down" /\ taken' = NoName /\ pkt' = NoFile /\ ending' = how
  BY DEF Leave
<1>5. lost' \subseteq Requests
  BY PlacesAreRequests DEF Leave, TypeInv, TypeOK
<1>6. TypeOK'
  BY <1>1, <1>2, <1>3, <1>4, <1>5
     DEF TypeInv, TypeOK, Leave, fileVars, clientVars, Pcs
<1>7. Control'
  BY <1>4 DEF TypeInv, Control, Leave, clientVars, Consumed
<1> QED
  BY <1>6, <1>7 DEF TypeInv

-----------------------------------------------------------------------------
\* Steps that do not touch the queue or the flag keep their types.
LEMMA QueueUnchanged ==
  ASSUME QueueTypeOK, UNCHANGED queueVars
  PROVE  QueueTypeOK'
BY DEF QueueTypeOK, queueVars

LEMMA LoopUnchanged ==
  ASSUME LoopTypeOK, UNCHANGED loopVars
  PROVE  LoopTypeOK'
BY DEF LoopTypeOK, loopVars

\* One more mapping fits, or the flag would not have been reached.
LEMMA AttachType ==
  ASSUME LoopTypeOK, Attach, flag' \in BOOLEAN
  PROVE  LoopTypeOK'
<1>1. maps' \in 0..MaxMaps
  BY MapsAssumption DEF LoopTypeOK, Attach
<1> QED
  BY <1>1 DEF LoopTypeOK


\* The steps of the process that neither scan nor end it keep the types.
LEMMA QuietStepType ==
  ASSUME TypeInv, UNCHANGED <<queueVars, loopVars>>,
         WriteTemp \/ OpenResponse \/ FillResponse \/ CreateLock \/ Callback
  PROVE  TypeInv'
<1>1. QueueTypeOK' /\ LoopTypeOK'
  BY QueueUnchanged, LoopUnchanged DEF TypeInv, TypeOK
<1>2. pc \in Consumed
  BY DEF WriteTemp, OpenResponse, FillResponse, CreateLock, Callback, Consumed
<1>3. taken \in Names /\ pkt.req \in Requests /\ pkt.req \in 0..MaxRequests
  BY <1>2 DEF TypeInv, Control, Requests
<1>4. dir' = dir /\ flag' = flag
  BY DEF queueVars, loopVars
<1>5. CASE WriteTemp
  <2>1. TypeOK'
    BY <1>1, <1>3, <1>5 DEF WriteTemp, TypeInv, TypeOK, Pcs, Consumed,
       fileVars, clientVars, boundVars, procUnchanged
  <2>2. Control'
    BY <1>3, <1>4, <1>5 DEF WriteTemp, TypeInv, Control, Consumed,
       clientVars, procUnchanged
  <2> QED
    BY <2>1, <2>2 DEF TypeInv
<1>6. CASE OpenResponse
  <2>1. [req |-> pkt.req, whole |-> FALSE] \in Files
    BY <1>3 DEF Files
  <2>2. TypeOK'
    BY <1>1, <1>3, <1>6, <2>1 DEF OpenResponse, TypeInv, TypeOK, Pcs,
       Consumed, fileVars, clientVars, boundVars, procUnchanged
  <2>3. Control'
    BY <1>3, <1>4, <1>6 DEF OpenResponse, TypeInv, Control, Consumed,
       clientVars, procUnchanged
  <2> QED
    BY <2>2, <2>3 DEF TypeInv
<1>7. CASE FillResponse
  <2> DEFINE filled == [ret[taken] EXCEPT !.whole = @ \/ ret[taken].req = pkt.req]
  <2>0. filled \in Files
    <3>1. ret[taken] \in Files
      BY <1>3 DEF TypeInv, TypeOK
    <3> QED
      BY <3>1 DEF Files
  <2>1. ret' \in [Names -> Files]
    <3>1. ret' = ret \/ ret' = [ret EXCEPT ![taken] = filled]
      BY <1>7 DEF FillResponse, Filled
    <3> HIDE DEF filled
    <3> QED
      BY <2>0, <3>1 DEF TypeInv, TypeOK
  <2>2. lost' \in SUBSET Requests
    BY <1>3, <1>7 DEF FillResponse, TypeInv, TypeOK
  <2>3. TypeOK'
    BY <1>1, <1>3, <1>7, <2>1, <2>2 DEF FillResponse, TypeInv, TypeOK, Pcs,
       Consumed, clientVars, boundVars
  <2>4. Control'
    BY <1>3, <1>4, <1>7 DEF FillResponse, TypeInv, Control, Consumed,
       clientVars
  <2> QED
    BY <2>3, <2>4 DEF TypeInv
<1>8. CASE CreateLock
  <2>1. NoFile \in Files
    BY QueueAssumption DEF NoFile, Files
  <2>2. TypeOK'
    BY <1>1, <1>3, <1>8, <2>1 DEF CreateLock, TypeInv, TypeOK, Pcs, Consumed,
       clientVars, boundVars
  <2>3. Control'
    BY <1>4, <1>8 DEF CreateLock, TypeInv, Control, Consumed, clientVars
  <2> QED
    BY <2>2, <2>3 DEF TypeInv
<1>9. CASE Callback
  <2>1. executed' \in [Requests -> Nat]
    BY <1>3, <1>9 DEF Callback, TypeInv, TypeOK
  <2>2. TypeOK'
    BY <1>1, <1>9, <2>1 DEF Callback, TypeInv, TypeOK, Pcs, Consumed,
       fileVars, clientVars, boundVars
  <2>3. Control'
    BY <1>3, <1>4, <1>9 DEF Callback, TypeInv, Control, Consumed, clientVars
  <2> QED
    BY <2>2, <2>3 DEF TypeInv
<1> QED
  BY <1>5, <1>6, <1>7, <1>8, <1>9

\* The steps on the flag and the scan keep the types.
LEMMA ScanStepType ==
  ASSUME TypeInv,
         EnterRun \/ KeepRunning \/ ScanDirectory \/ EnterSelect
           \/ SelectReady \/ SelectTimeout \/ TakeName \/ CheckRunning
  PROVE  TypeInv'
<1>1. QueueTypeOK /\ LoopTypeOK
  BY DEF TypeInv, TypeOK
<1>2. ASSUME QueueTypeOK', LoopTypeOK', pc' \in Pcs,
             taken' \in Names \cup {NoName},
             UNCHANGED <<pkt, fileVars, procUnchanged>>
      PROVE  TypeOK'
  BY <1>2 DEF TypeInv, TypeOK, fileVars, clientVars, boundVars, procUnchanged
<1>3. CASE EnterRun
  <2>1. QueueTypeOK'
    BY <1>1, <1>3, QueueUnchanged DEF EnterRun
  <2>2. LoopTypeOK'
    BY <1>1, <1>3, AttachType DEF EnterRun, ToTrue
  <2>3. TypeOK'
    BY <1>2, <1>3, <2>1, <2>2 DEF EnterRun, Pcs, TypeInv, TypeOK
  <2>4. Control'
    BY <1>3 DEF EnterRun, TypeInv, Control, Consumed, queueVars, clientVars,
       procUnchanged
  <2> QED
    BY <2>3, <2>4 DEF TypeInv
<1>4. CASE KeepRunning
  <2>1. QueueTypeOK'
    BY <1>1, <1>4, QueueUnchanged DEF KeepRunning
  <2>2. Attach /\ flag' = flag
    BY <1>4 DEF KeepRunning, Running
  <2>3. LoopTypeOK'
    BY <1>1, <2>2, AttachType DEF LoopTypeOK
  <2>4. TypeOK'
    BY <1>2, <1>4, <2>1, <2>3 DEF KeepRunning, Pcs, TypeInv, TypeOK
  <2>5. pc' = "check" => flag = FALSE
    BY <1>4 DEF KeepRunning, Running
  <2>6. pc' \in {"scan", "check"}
    BY <1>4 DEF KeepRunning
  <2>7. Control'
    BY <1>4, <2>2, <2>5, <2>6 DEF KeepRunning, TypeInv, Control, Consumed,
       queueVars, clientVars, procUnchanged
  <2> QED
    BY <2>4, <2>7 DEF TypeInv
<1>5. CASE ScanDirectory
  <2>1. queue' \in Seq(Names)
    BY <1>1, <1>5, ListingsAreSequences
       DEF ScanDirectory, DirectoryScan, Present, QueueTypeOK
  <2>2. QueueTypeOK'
    BY <1>1, <1>5, <2>1 DEF ScanDirectory, DirectoryScan, QueueTypeOK
  <2>3. LoopTypeOK'
    BY <1>1, <1>5, LoopUnchanged DEF ScanDirectory
  <2>4. TypeOK'
    BY <1>2, <1>5, <2>2, <2>3 DEF ScanDirectory, Pcs, TypeInv, TypeOK
  <2>5. Control'
    BY <1>5 DEF ScanDirectory, DirectoryScan, TypeInv, Control, Consumed,
       loopVars, clientVars, procUnchanged
  <2> QED
    BY <2>4, <2>5 DEF TypeInv
<1>6. CASE EnterSelect
  <2>1. QueueTypeOK'
    BY <1>1, <1>6 DEF EnterSelect, StartMonitoring, QueueTypeOK
  <2>2. LoopTypeOK'
    BY <1>1, <1>6, LoopUnchanged DEF EnterSelect
  <2>3. TypeOK'
    BY <1>2, <1>6, <2>1, <2>2 DEF EnterSelect, Pcs, TypeInv, TypeOK
  <2>4. Control'
    BY <1>6 DEF EnterSelect, StartMonitoring, TypeInv, Control, Consumed,
       loopVars, clientVars, procUnchanged
  <2> QED
    BY <2>3, <2>4 DEF TypeInv
<1>7. CASE SelectReady
  <2>1. queue' \in Seq(Names) /\ kevents' \in Seq(Events)
    BY <1>1, <1>7, ReadEventsType DEF SelectReady, QueueTypeOK
  <2>2. QueueTypeOK'
    BY <1>1, <1>7, <2>1 DEF SelectReady, ReadEvents, QueueTypeOK
  <2>3. LoopTypeOK'
    BY <1>1, <1>7, LoopUnchanged DEF SelectReady
  <2>4. TypeOK'
    BY <1>2, <1>7, <2>2, <2>3 DEF SelectReady, Pcs, TypeInv, TypeOK
  <2>5. dir' = dir
    BY <1>7 DEF SelectReady, ReadEvents
  <2>6. Control'
    BY <1>7, <2>5 DEF SelectReady, TypeInv, Control, Consumed, loopVars,
       clientVars, procUnchanged
  <2> QED
    BY <2>4, <2>6 DEF TypeInv
<1>8. CASE SelectTimeout
  <2>1. QueueTypeOK' /\ LoopTypeOK'
    BY <1>1, <1>8, QueueUnchanged, LoopUnchanged DEF SelectTimeout
  <2>2. TypeOK'
    BY <1>2, <1>8, <2>1 DEF SelectTimeout, Pcs, TypeInv, TypeOK
  <2>3. Control'
    BY <1>8 DEF SelectTimeout, TypeInv, Control, Consumed, queueVars,
       loopVars, clientVars, procUnchanged
  <2> QED
    BY <2>2, <2>3 DEF TypeInv
<1>9. CASE TakeName
  <2>1. Head(queue) \in Names /\ Tail(queue) \in Seq(Names)
    BY <1>1, <1>9, HeadTailProperties DEF TakeName, PopFront, QueueTypeOK
  <2>2. QueueTypeOK'
    BY <1>1, <1>9, <2>1 DEF TakeName, PopFront, QueueTypeOK
  <2>3. LoopTypeOK'
    BY <1>1, <1>9, LoopUnchanged DEF TakeName
  <2>4. taken' \in Names /\ pc' = "check"
    BY <1>9, <2>1 DEF TakeName
  <2>5. TypeOK'
    BY <1>2, <1>9, <2>2, <2>3, <2>4 DEF TakeName, Pcs
  <2>6. Control'
    BY <1>9, <2>4 DEF TakeName, PopFront, TypeInv, Control, Consumed,
       clientVars, procUnchanged
  <2> QED
    BY <2>5, <2>6 DEF TypeInv
<1>10. CASE CheckRunning
  <2>1. QueueTypeOK'
    BY <1>1, <1>10, QueueUnchanged DEF CheckRunning
  <2>2. Attach /\ flag' = flag
    BY <1>10 DEF CheckRunning, Running
  <2>3. LoopTypeOK'
    BY <1>1, <2>2, AttachType DEF LoopTypeOK
  <2>4. pc' \in {"read", "stop"} /\ taken' \in Names \cup {NoName}
    BY <1>10 DEF CheckRunning, TypeInv, TypeOK
  <2>5. TypeOK'
    BY <1>2, <1>10, <2>1, <2>3, <2>4 DEF CheckRunning, Pcs
  <2>6. pc' = "read" => taken' \in Names
    BY <1>10 DEF CheckRunning, Running, TypeInv, Control
  <2>7. Control'
    BY <1>10, <2>4, <2>6 DEF CheckRunning, TypeInv, Control, Consumed,
       queueVars, clientVars, procUnchanged
  <2> QED
    BY <2>5, <2>7 DEF TypeInv
<1> QED
  BY <1>3, <1>4, <1>5, <1>6, <1>7, <1>8, <1>9, <1>10

\* Reading and removing the command file keep the types.
LEMMA ReadStepType ==
  ASSUME TypeInv, ReadPacket \/ Unlink
  PROVE  TypeInv'
<1>1. QueueTypeOK /\ LoopTypeOK
  BY DEF TypeInv, TypeOK
<1>2. ASSUME Leave("died"), UNCHANGED boundVars
      PROVE  TypeInv'
  <2>1. /\ starts' \in 0..MaxStarts /\ kills' \in 0..MaxKills
        /\ sigterms' \in 0..MaxSigterms
    BY <1>2 DEF boundVars, TypeInv, TypeOK
  <2> QED
    BY <1>2, <2>1, LeaveType
<1>3. CASE ReadPacket
  <2>1. taken \in Names
    BY <1>3 DEF ReadPacket, TypeInv, Control
  <2>2. CASE dir[taken] = NoFile
    BY <1>2, <1>3, <2>2 DEF ReadPacket
  <2>3. CASE dir[taken] # NoFile
    <3>1. /\ pkt' = dir[taken] /\ pc' = "unlink"
          /\ UNCHANGED <<queueVars, loopVars, taken, fileVars, procUnchanged>>
      BY <1>3, <2>3 DEF ReadPacket
    <3>2. QueueTypeOK' /\ LoopTypeOK'
      BY <1>1, <3>1, QueueUnchanged, LoopUnchanged
    <3>3. pkt' \in Files
      BY <2>1, <3>1 DEF TypeInv, TypeOK, QueueTypeOK
    <3>4. pkt'.req \in Requests
      <4>1. dir[taken].req # 0
        BY <2>1, <2>3 DEF TypeInv, Control
      <4>2. dir[taken].req \in 0..MaxRequests
        BY <2>1 DEF TypeInv, TypeOK, QueueTypeOK, Files
      <4> QED
        BY <3>1, <4>1, <4>2, QueueAssumption DEF Requests
    <3>5. TypeOK'
      BY <3>1, <3>2, <3>3 DEF TypeInv, TypeOK, Pcs, fileVars, clientVars,
         boundVars, procUnchanged
    <3>6. Control'
      BY <2>1, <3>1, <3>4 DEF TypeInv, Control, Consumed, queueVars,
         clientVars, procUnchanged
    <3> QED
      BY <3>5, <3>6 DEF TypeInv
  <2> QED
    BY <2>2, <2>3
<1>4. CASE Unlink
  <2>1. taken \in Names /\ pkt.req \in Requests
    BY <1>4 DEF Unlink, TypeInv, Control
  <2>2. CASE dir[taken] = NoFile
    BY <1>2, <1>4, <2>2 DEF Unlink, UnlinkCommand
  <2>3. CASE dir[taken] # NoFile
    <3>1. /\ dir' = [dir EXCEPT ![taken] = NoFile]
          /\ pc' = "callback"
          /\ lost' = lost \cup ({dir[taken].req} \ {pkt.req})
          /\ UNCHANGED <<kevents, watched, scanType, queue>>
          /\ UNCHANGED <<loopVars, taken, pkt, ending, fileVars, clientVars,
                         executed, answered, asked, boundVars>>
      BY <1>4, <2>3 DEF Unlink, UnlinkCommand
    <3>2. NoFile \in Files
      BY QueueAssumption DEF NoFile, Files
    <3>3. QueueTypeOK'
      BY <1>1, <2>1, <3>1, <3>2 DEF QueueTypeOK
    <3>4. LoopTypeOK'
      BY <1>1, <3>1, LoopUnchanged
    <3>5. dir[taken].req \in Requests
      <4>1. dir[taken].req # 0
        BY <2>1, <2>3 DEF TypeInv, Control
      <4>2. dir[taken].req \in 0..MaxRequests
        BY <2>1 DEF TypeInv, TypeOK, QueueTypeOK, Files
      <4> QED
        BY <4>1, <4>2, QueueAssumption DEF Requests
    <3>6. TypeOK'
      BY <3>1, <3>3, <3>4, <3>5 DEF TypeInv, TypeOK, Pcs, Consumed, fileVars,
         clientVars, boundVars
    <3>7. Control'
      BY <2>1, <3>1 DEF TypeInv, TypeOK, QueueTypeOK, Control, Consumed,
         clientVars
    <3> QED
      BY <3>6, <3>7 DEF TypeInv
  <2> QED
    BY <2>2, <2>3
<1> QED
  BY <1>3, <1>4

\* Starts, signals and the ends of the process keep the types.
LEMMA LifeStepType ==
  ASSUME TypeInv,
         \/ Start \/ Kill \/ Sigterm
         \/ FlagUnreachable \/ Stop \/ Abort \/ CallbackThrows
  PROVE  TypeInv'
<1>1. QueueTypeOK /\ LoopTypeOK
  BY DEF TypeInv, TypeOK
<1>2. /\ starts \in 0..MaxStarts /\ kills \in 0..MaxKills
      /\ sigterms \in 0..MaxSigterms
  BY DEF TypeInv, TypeOK
<1>3. CASE Start
  <2>1. QueueTypeOK' /\ LoopTypeOK'
    BY <1>1, <1>3, QueueUnchanged, LoopUnchanged DEF Start
  <2>2. starts' \in 0..MaxStarts
    BY <1>2, <1>3, SpoolerAssumption DEF Start
  <2>3. TypeOK'
    BY <1>3, <2>1, <2>2 DEF Start, TypeInv, TypeOK, Pcs, fileVars, clientVars
  <2>4. Control'
    BY <1>3 DEF Start, TypeInv, Control, Consumed, queueVars, loopVars,
       clientVars
  <2> QED
    BY <2>3, <2>4 DEF TypeInv
<1>4. CASE Kill
  <2>1. kills' \in 0..MaxKills
    BY <1>2, <1>4, SpoolerAssumption DEF Kill
  <2> QED
    BY <1>2, <1>4, <2>1, LeaveType DEF Kill
<1>5. CASE Sigterm
  <2>1. sigterms' \in 0..MaxSigterms
    BY <1>2, <1>5, SpoolerAssumption DEF Sigterm
  <2>2. UNCHANGED <<starts, kills>>
    BY <1>5 DEF Sigterm
  <2>3. CASE Leave("died")
    BY <1>2, <2>1, <2>2, <2>3, LeaveType
  <2>4. CASE /\ ToFalse
             /\ pc' = IF pc = "select" THEN "enter" ELSE pc
             /\ asked' = TRUE
             /\ UNCHANGED <<queueVars, taken, pkt, ending, fileVars,
                            clientVars, executed, answered, lost>>
    <3>1. QueueTypeOK'
      BY <1>1, <2>4, QueueUnchanged
    <3>2. LoopTypeOK' /\ flag' = FALSE
      BY <1>1, <2>4, AttachType DEF ToFalse
    <3>3. pc' \in Pcs
      BY <2>4 DEF TypeInv, TypeOK, Pcs
    <3>4. TypeOK'
      BY <1>2, <2>1, <2>2, <2>4, <3>1, <3>2, <3>3 DEF TypeInv, TypeOK,
         fileVars, clientVars
    <3>5. Control'
      BY <2>4, <3>2 DEF TypeInv, Control, Consumed, queueVars, clientVars
    <3> QED
      BY <3>4, <3>5 DEF TypeInv
  <2> QED
    BY <1>5, <2>3, <2>4 DEF Sigterm
<1>6. CASE FlagUnreachable \/ Stop \/ Abort \/ CallbackThrows
  <2>1. \E how \in {"stopped", "died", "killed"} : Leave(how)
    BY <1>6 DEF FlagUnreachable, Stop, Abort, CallbackThrows
  <2>2. UNCHANGED boundVars
    BY <1>6 DEF FlagUnreachable, Stop, Abort, CallbackThrows
  <2> QED
    BY <1>2, <2>1, <2>2, LeaveType DEF boundVars
<1> QED
  BY <1>3, <1>4, <1>5, <1>6

\* The steps of the clients keep the types.
LEMMA ClientStepType ==
  ASSUME TypeInv, NEW n \in Names, ClientStep(n)
  PROVE  TypeInv'
<1>1. QueueTypeOK /\ LoopTypeOK
  BY DEF TypeInv, TypeOK
<1>2. UNCHANGED <<scanType, watched, queue, flag, maps, pc, taken, pkt,
                  ending, tmp, executed, answered, asked, starts, kills,
                  sigterms>>
  BY DEF ClientStep, Submit, DirectOpen, DirectClose, Collect, GiveUp,
     clientUnchanged, loopVars, boundVars
<1>3. LoopTypeOK'
  BY <1>1, <1>2 DEF LoopTypeOK
<1>4. ASSUME QueueTypeOK', ret' \in [Names -> Files], lck' \in SUBSET Names,
             client' \in [Names -> {"idle", "writing", "waiting"}],
             cur' \in [Names -> 0..MaxRequests], sent' \in 0..MaxRequests,
             lost' \in SUBSET Requests
      PROVE  TypeOK'
  BY <1>2, <1>3, <1>4 DEF TypeInv, TypeOK
<1>5. ASSUME dir' \in [Names -> Files], kevents' \in Seq(Events)
      PROVE  QueueTypeOK'
  BY <1>1, <1>2, <1>5 DEF QueueTypeOK
<1>6. lost \cup ({dir[n].req} \cap Pending) \in SUBSET Requests
  BY PlacesAreRequests DEF Pending, TypeInv, TypeOK
<1>7. NoFile \in Files
  BY QueueAssumption DEF NoFile, Files
<1>8. sent < MaxRequests => /\ sent + 1 \in 0..MaxRequests
                            /\ sent + 1 # 0
                            /\ [req |-> sent + 1, whole |-> TRUE] \in Files
                            /\ [req |-> sent + 1, whole |-> FALSE] \in Files
  BY QueueAssumption DEF TypeInv, TypeOK, Files
<1>9. [name |-> n, kind |-> "moved"] \in Events
      /\ [name |-> n, kind |-> "closed"] \in Events
  BY DEF Events
<1>10. CASE Submit(n)
  <2>1. kevents' \in Seq(Events)
    BY <1>1, <1>9, <1>10, NotifyType DEF Submit, QueueTypeOK
  <2>2. dir' \in [Names -> Files]
    BY <1>1, <1>8, <1>10 DEF Submit, QueueTypeOK
  <2>3. TypeOK'
    BY <1>4, <1>5, <1>6, <1>8, <1>10, <2>1, <2>2
       DEF Submit, Displace, TypeInv, TypeOK
  <2>4. dir'[n].req # 0 /\ \A m \in Names \ {n} : dir'[m] = dir[m]
    BY <1>1, <1>8, <1>10 DEF Submit, QueueTypeOK
  <2>5. client'[n] # "writing"
        /\ \A m \in Names \ {n} : client'[m] = client[m] /\ cur'[m] = cur[m]
    BY <1>10 DEF Submit, TypeInv, TypeOK
  <2>6. Control'
    BY <1>2, <2>4, <2>5 DEF TypeInv, Control
  <2> QED
    BY <2>3, <2>6 DEF TypeInv
<1>11. CASE DirectOpen(n)
  <2>1. kevents' \in Seq(Events)
    BY <1>1, <1>11 DEF DirectOpen, QueueTypeOK
  <2>2. dir' \in [Names -> Files]
    BY <1>1, <1>8, <1>11 DEF DirectOpen, QueueTypeOK
  <2>3. TypeOK'
    BY <1>4, <1>5, <1>6, <1>8, <1>11, <2>1, <2>2
       DEF DirectOpen, Displace, TypeInv, TypeOK
  <2>4. dir'[n].req # 0 /\ \A m \in Names \ {n} : dir'[m] = dir[m]
    BY <1>1, <1>8, <1>11 DEF DirectOpen, QueueTypeOK
  <2>5. cur'[n] # 0
        /\ \A m \in Names \ {n} : client'[m] = client[m] /\ cur'[m] = cur[m]
    BY <1>8, <1>11 DEF DirectOpen, TypeInv, TypeOK
  <2>6. Control'
    BY <1>2, <2>4, <2>5 DEF TypeInv, Control
  <2> QED
    BY <2>3, <2>6 DEF TypeInv
<1>12. CASE DirectClose(n)
  <2> DEFINE closed == [dir[n] EXCEPT !.whole = TRUE]
  <2>1. kevents' \in Seq(Events)
    BY <1>1, <1>9, <1>12, NotifyType DEF DirectClose, QueueTypeOK
  <2>2. closed \in Files /\ closed.req = dir[n].req
    BY <1>1 DEF QueueTypeOK, Files
  <2>3. \/ dir' = dir
        \/ dir' = [dir EXCEPT ![n] = closed] /\ dir[n].req = cur[n]
    <3>1. CASE dir[n].req = cur[n]
      <4>1. dir' = [dir EXCEPT ![n].whole = TRUE]
        BY <1>12, <3>1 DEF DirectClose
      <4>2. [dir EXCEPT ![n].whole = TRUE] = [dir EXCEPT ![n] = closed]
        OBVIOUS
      <4> QED
        BY <3>1, <4>1, <4>2
    <3>2. CASE dir[n].req # cur[n]
      BY <1>12, <3>2 DEF DirectClose
    <3> QED
      BY <3>1, <3>2
  <2>4. dir[n].req = cur[n] => closed.req # 0
    BY <1>12, <2>2 DEF DirectClose, TypeInv, Control
  <2> HIDE DEF closed
  <2>5. dir' \in [Names -> Files]
    BY <1>1, <2>2, <2>3 DEF QueueTypeOK
  <2>6. TypeOK'
    BY <1>4, <1>5, <1>12, <2>1, <2>5 DEF DirectClose, TypeInv, TypeOK
  <2>7. client'[n] # "writing"
        /\ \A m \in Names \ {n} : client'[m] = client[m] /\ cur'[m] = cur[m]
    BY <1>12 DEF DirectClose, TypeInv, TypeOK
  <2>8. \A m \in Names : dir'[m].req = 0 => dir'[m] = NoFile
    BY <1>1, <2>3, <2>4 DEF QueueTypeOK, TypeInv, Control
  <2>9. Control'
    BY <1>2, <2>7, <2>8 DEF TypeInv, Control
  <2> QED
    BY <2>6, <2>9 DEF TypeInv
<1>13. CASE Collect(n)
  <2>1. QueueTypeOK'
    BY <1>1, <1>5, <1>13 DEF Collect, QueueTypeOK
  <2>2. TypeOK'
    BY <1>4, <1>7, <1>13, <2>1 DEF Collect, TypeInv, TypeOK
  <2>3. Control'
    BY <1>2, <1>13 DEF Collect, TypeInv, TypeOK, Control
  <2> QED
    BY <2>2, <2>3 DEF TypeInv
<1>14. CASE GiveUp(n)
  <2>1. dir' = dir \/ dir' = [dir EXCEPT ![n] = NoFile]
    BY <1>14 DEF GiveUp
  <2>2. QueueTypeOK'
    BY <1>1, <1>5, <1>7, <1>14, <2>1 DEF GiveUp, QueueTypeOK
  <2>3. TypeOK'
    BY <1>4, <1>6, <1>14, <2>2 DEF GiveUp, Displace, TypeInv, TypeOK
  <2>4. Control'
    BY <1>1, <1>2, <1>14, <2>1
       DEF GiveUp, QueueTypeOK, TypeInv, TypeOK, Control
  <2> QED
    BY <2>3, <2>4 DEF TypeInv
<1> QED
  BY <1>10, <1>11, <1>12, <1>13, <1>14 DEF ClientStep

-----------------------------------------------------------------------------
\* Every variable keeps its type, and what the process needs at each place is
\* there: in particular it has a command file name wherever it uses one, and a
\* request wherever it answers one.
THEOREM TypeCorrect == Spec => []TypeInv
<1>1. Init => TypeInv
  <2> SUFFICES ASSUME Init PROVE TypeInv
    OBVIOUS
  <2>1. NoFile \in Files
    BY QueueAssumption DEF NoFile, Files
  <2>2. QueueTypeOK
    <3>1. watched \in BOOLEAN
      BY DEF Init, QueueInit
    <3>2. kevents \in Seq(Events) /\ queue \in Seq(Names)
      BY DEF Init, QueueInit
    <3>3. dir \in [Names -> Files] /\ scanType \in {"dir", "event"}
      BY <2>1 DEF Init, QueueInit
    <3> QED
      BY <3>1, <3>2, <3>3 DEF QueueTypeOK
  <2>3. maps \in 0..MaxMaps
    BY MapsAssumption DEF Init, LoopInit
  <2>4. LoopTypeOK
    BY <2>3 DEF Init, LoopInit, LoopTypeOK
  <2>5. TypeOK
    <3>1. asked \in BOOLEAN
      BY DEF Init
    <3>2. pc \in Pcs /\ taken \in Names \cup {NoName} /\ pkt \in Files
      BY <2>1 DEF Init, Pcs
    <3>3. /\ sent \in 0..MaxRequests /\ starts \in 0..MaxStarts
          /\ kills \in 0..MaxKills /\ sigterms \in 0..MaxSigterms
      BY QueueAssumption, SpoolerAssumption DEF Init
    <3>4. /\ ret \in [Names -> Files] /\ cur \in [Names -> 0..MaxRequests]
          /\ executed \in [Requests -> Nat]
      BY <2>1, QueueAssumption DEF Init
    <3>5. /\ ending \in {"none", "stopped", "died", "killed"}
          /\ tmp \in SUBSET Names /\ lck \in SUBSET Names
          /\ client \in [Names -> {"idle", "writing", "waiting"}]
          /\ answered \in SUBSET Requests /\ lost \in SUBSET Requests
      BY DEF Init
    <3> QED
      BY <2>2, <2>4, <3>1, <3>2, <3>3, <3>4, <3>5 DEF TypeOK
  <2>6. Control
    BY DEF Init, QueueInit, LoopInit, Control, Consumed
  <2> QED
    BY <2>5, <2>6 DEF TypeInv
<1>2. TypeInv /\ [Next]_vars => TypeInv'
  <2> SUFFICES ASSUME TypeInv, [Next]_vars PROVE TypeInv'
    OBVIOUS
  <2>1. CASE ProcessStep
    BY <2>1, ScanStepType, ReadStepType, QuietStepType, LifeStepType
       DEF ProcessStep, Callback, WriteTemp, OpenResponse, FillResponse,
           CreateLock
  <2>2. CASE \E n \in Names : ClientStep(n)
    BY <2>2, ClientStepType
  <2>3. CASE Start \/ Kill \/ Sigterm
    BY <2>3, LifeStepType
  <2>4. CASE UNCHANGED vars
    <3>1. QueueTypeOK' /\ LoopTypeOK'
      BY <2>4, QueueUnchanged, LoopUnchanged DEF vars, TypeInv, TypeOK
    <3>2. TypeOK'
      BY <2>4, <3>1 DEF vars, TypeInv, TypeOK, fileVars, clientVars, boundVars
    <3>3. Control'
      BY <2>4 DEF vars, TypeInv, Control, queueVars, loopVars, clientVars
    <3> QED
      BY <3>2, <3>3 DEF TypeInv
  <2> QED
    BY <2>1, <2>2, <2>3, <2>4 DEF Next
<1> QED
  BY <1>1, <1>2, PTL DEF Spec

\* The type invariant the model checker evaluates.
THEOREM TypesAlways == Spec => []TypeOK
<1>1. TypeInv => TypeOK
  BY DEF TypeInv
<1> QED
  BY <1>1, TypeCorrect, PTL
=============================================================================
