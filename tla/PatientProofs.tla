---------------------------- MODULE PatientProofs -----------------------------
(***************************************************************************)
(* Proofs about Spooler for clients that wait for their answer, and a disk  *)
(* that does not fill up: for every number of clients, requests, kills,     *)
(* signals and starts, and every size of the kernel's queue and of a read.  *)
(***************************************************************************)
EXTENDS LedgerProofs

\* The process works on the command of n, from its reading to its answer.
WorksOn(n) == taken = n /\ pc \in {"unlink"} \cup Consumed

\* What n finds in the directory is its present request's, in one stage at a
\* time: the command waits, is worked on, or is answered.
Patient(n) ==
  /\ dir[n] # NoFile => dir[n].req = cur[n]
  /\ client[n] = "idle" => n \notin lck /\ dir[n] = NoFile /\ ~WorksOn(n)
  /\ n \in lck => /\ dir[n] = NoFile /\ ~WorksOn(n)
                  /\ ret[n] = [req |-> cur[n], whole |-> TRUE]
  /\ WorksOn(n) => pkt.req = cur[n]
  /\ taken = n /\ pc \in Consumed => dir[n] = NoFile
  /\ taken = n /\ pc = "fill" => ret[n].req = cur[n]
  /\ taken = n /\ pc = "lock" => ret[n] = [req |-> cur[n], whole |-> TRUE]

\* Nothing of n's changes, and the process goes on without its file or has
\* begun on none.
Aside(n) ==
  /\ dir'[n] = dir[n] /\ ret'[n] = ret[n] /\ client'[n] = client[n]
  /\ cur'[n] = cur[n] /\ (n \in lck' <=> n \in lck)
  /\ \/ taken' = taken /\ pkt' = pkt
        /\ \/ pc' = pc
           \/ taken # n
           \/ pc' \notin {"unlink"} \cup Consumed
           \/ pc \in Consumed /\ pc' \in Consumed \ {"fill", "lock"}
     \/ taken' # n
     \/ pc' \notin {"unlink"} \cup Consumed

LEMMA AsideKeeps ==
  ASSUME NEW n \in Names, Patient(n), Aside(n)
  PROVE  Patient(n)'
BY DEF Patient, Aside, WorksOn, Consumed

\* Steps of the process on the flag and the queue.
LEMMA ScanAside ==
  ASSUME NEW n \in Names,
         \/ EnterRun \/ KeepRunning \/ ScanDirectory \/ EnterSelect
         \/ SelectReady \/ SelectTimeout \/ TakeName \/ CheckRunning
         \/ Start \/ UNCHANGED vars
  PROVE  Aside(n)
<1>1. CASE EnterRun \/ KeepRunning \/ SelectTimeout \/ CheckRunning
  BY <1>1 DEF EnterRun, KeepRunning, SelectTimeout, CheckRunning, Aside, queueVars,
     fileVars, clientVars, procUnchanged, Consumed
<1>2. CASE ScanDirectory \/ EnterSelect \/ SelectReady \/ TakeName
  BY <1>2 DEF ScanDirectory, EnterSelect, SelectReady, TakeName, DirectoryScan,
     StartMonitoring, ReadEvents, PopFront, Aside, fileVars, clientVars,
     procUnchanged, Consumed
<1>3. CASE Start \/ UNCHANGED vars
  BY <1>3 DEF Start, vars, Aside, queueVars, fileVars, clientVars, Consumed
<1> QED
  BY <1>1, <1>2, <1>3

\* The end of the process.
LEMMA LeaveAside ==
  ASSUME NEW n \in Names, NEW how, Leave(how)
  PROVE  Aside(n)
BY DEF Leave, Aside, fileVars, clientVars, Consumed

LEMMA LifeAside ==
  ASSUME NEW n \in Names, Kill \/ Sigterm \/ FlagUnreachable \/ Stop \/ Abort
                          \/ CallbackThrows
  PROVE  Aside(n)
<1>1. CASE \E how \in {"stopped", "died", "killed"} : Leave(how)
  BY <1>1, LeaveAside
<1>2. CASE Sigterm /\ ~Leave("died")
  BY <1>2 DEF Sigterm, Aside, queueVars, fileVars, clientVars, Consumed
<1> QED
  BY <1>1, <1>2 DEF Kill, FlagUnreachable, Stop, Abort, CallbackThrows
\* The steps on one command.
LEMMA WorkSteps ==
  ASSUME TypeInv, ~DiskMayFill, NEW n \in Names, Patient(n),
         \/ ReadPacket \/ Unlink \/ Callback \/ WriteTemp \/ OpenResponse
         \/ FillResponse \/ CreateLock
  PROVE  Patient(n)'
<1>0. dir \in [Names -> Files] /\ ret \in [Names -> Files]
  BY DEF TypeInv, TypeOK, QueueTypeOK
<1>1. CASE Leave("died")
  BY <1>1, LeaveAside, AsideKeeps
<1>2. CASE ReadPacket /\ ~Leave("died")
  <2>1. /\ dir[taken] # NoFile /\ pkt' = dir[taken] /\ pc' = "unlink"
        /\ UNCHANGED <<dir, taken, ret, lck, client, cur>>
    BY <1>2 DEF ReadPacket, queueVars, fileVars, procUnchanged, clientVars
  <2>2. CASE taken = n
    BY <2>1, <2>2 DEF Patient, WorksOn, Consumed
  <2>3. CASE taken # n
    BY <2>1, <2>3 DEF Patient, WorksOn, Consumed
  <2> QED
    BY <2>2, <2>3
<1>3. CASE Unlink /\ ~Leave("died")
  <2>1. /\ pc = "unlink" /\ dir[taken] # NoFile /\ pc' = "callback"
        /\ dir' = [dir EXCEPT ![taken] = NoFile]
        /\ UNCHANGED <<pkt, taken, ret, lck, client, cur>>
    BY <1>3 DEF Unlink, UnlinkCommand, fileVars, clientVars
  <2>2. dir'[n] = IF taken = n THEN NoFile ELSE dir[n]
    BY <1>0, <2>1
  <2>3. CASE taken = n
    BY <2>1, <2>2, <2>3 DEF Patient, WorksOn, Consumed
  <2>4. CASE taken # n
    BY <2>1, <2>2, <2>4 DEF Patient, WorksOn, Consumed
  <2> QED
    BY <2>3, <2>4
<1>4. CASE Callback \/ WriteTemp
  <2>1. Aside(n)
    BY <1>4 DEF Callback, WriteTemp, Aside, queueVars, fileVars, clientVars,
       procUnchanged, Consumed
  <2> QED
    BY <2>1, AsideKeeps
<1>5. CASE OpenResponse
  <2>1. /\ pc = "copy" /\ pc' = "fill"
        /\ ret' = [ret EXCEPT ![taken] = [req |-> pkt.req, whole |-> FALSE]]
        /\ UNCHANGED <<dir, pkt, taken, lck, client, cur>>
    BY <1>5 DEF OpenResponse, queueVars, procUnchanged, clientVars
  <2>2. CASE taken = n
    <3>1. ret'[n].req = pkt.req
      BY <1>0, <2>1, <2>2
    <3> QED
      BY <2>1, <2>2, <3>1 DEF Patient, WorksOn, Consumed
  <2>3. CASE taken # n
    <3>1. ret'[n] = ret[n]
      BY <1>0, <2>1, <2>3
    <3> QED
      BY <2>1, <2>3, <3>1 DEF Patient, WorksOn, Consumed
  <2> QED
    BY <2>2, <2>3
<1>6. CASE FillResponse
  <2>1. /\ pc = "fill" /\ pc' \in {"lock", "abort"}
        /\ UNCHANGED <<dir, pkt, taken, lck, client, cur>>
        /\ pc' = "lock" => ret' = Filled
        /\ pc' = "abort" => ret' = ret
    BY <1>6 DEF FillResponse, queueVars, clientVars
  <2>2. CASE taken = n
    <3>1. CASE pc' = "lock"
      <4>1. ret'[n] = [ret[n] EXCEPT !.whole = @ \/ ret[n].req = pkt.req]
        BY <1>0, <2>1, <2>2, <3>1 DEF Filled
      <4>2. ret[n].req = cur[n] /\ pkt.req = cur[n]
        BY <2>1, <2>2 DEF Patient, WorksOn, Consumed
      <4>3. ret'[n] = [req |-> cur[n], whole |-> TRUE]
        <5>1. ret[n] \in [req : 0..MaxRequests, whole : BOOLEAN]
          BY <1>0 DEF Files
        <5> QED
          BY <4>1, <4>2, <5>1
      <4> QED
        BY <2>1, <2>2, <3>1, <4>3 DEF Patient, WorksOn, Consumed
    <3>2. CASE pc' = "abort"
      BY <2>1, <2>2, <3>2 DEF Patient, WorksOn, Consumed
    <3> QED
      BY <2>1, <3>1, <3>2
  <2>3. CASE taken # n
    <3>1. ret'[n] = ret[n]
      BY <1>0, <2>1, <2>3 DEF Filled
    <3> QED
      BY <2>1, <2>3, <3>1 DEF Patient, WorksOn, Consumed
  <2> QED
    BY <2>2, <2>3
<1>7. CASE CreateLock
  <2>1. /\ pc = "lock" /\ pc' = "enter" /\ lck' = lck \cup {taken} /\ taken' = NoName
        /\ UNCHANGED <<dir, ret, client, cur>>
    BY <1>7 DEF CreateLock, queueVars, clientVars
  <2>2. CASE taken = n
    BY <2>1, <2>2 DEF Patient, WorksOn, Consumed
  <2>3. CASE taken # n
    BY <2>1, <2>3 DEF Patient, WorksOn, Consumed
  <2> QED
    BY <2>2, <2>3
<1> QED
  BY <1>1, <1>2, <1>3, <1>4, <1>5, <1>6, <1>7

\* The steps of the clients: n's own, and those of others.
LEMMA ClientSteps ==
  ASSUME TypeInv, NEW n \in Names \ Impatient, Patient(n), NEW m \in Names, ClientStep(m)
  PROVE  Patient(n)'
<1>0. /\ dir \in [Names -> Files] /\ ret \in [Names -> Files]
      /\ cur \in [Names -> 0..MaxRequests] /\ lck \subseteq Names
      /\ client \in [Names -> {"idle", "writing", "waiting"}]
  BY DEF TypeInv, TypeOK, QueueTypeOK
<1>1. UNCHANGED <<pc, taken, pkt>>
  BY DEF ClientStep, Submit, DirectOpen, DirectClose, Collect, GiveUp, clientUnchanged
<1>2. CASE m # n
  <2>1. dir'[n] = dir[n] /\ ret'[n] = ret[n] /\ client'[n] = client[n]
        /\ cur'[n] = cur[n] /\ (n \in lck' <=> n \in lck)
    BY <1>0, <1>2 DEF ClientStep, Submit, DirectOpen, DirectClose, Collect, GiveUp
  <2> QED
    BY <1>1, <2>1, AsideKeeps DEF Aside
<1>3. CASE m = n /\ (Submit(n) \/ DirectOpen(n))
  <2>1. /\ client[n] = "idle" /\ client'[n] # "idle" /\ lck' = lck
        /\ dir'[n].req = cur'[n]
    BY <1>0, <1>3 DEF Submit, DirectOpen
  <2> QED
    BY <1>1, <2>1 DEF Patient, WorksOn, Consumed
<1>4. CASE m = n /\ DirectClose(n)
  <2>1. /\ client'[n] # "idle" /\ UNCHANGED <<cur, lck, ret>>
        /\ dir'[n].req = dir[n].req
        /\ dir'[n] = dir[n] \/ dir[n].req = cur[n]
        /\ cur[n] # 0
    <3>1. cur[n] # 0
      BY <1>4 DEF DirectClose, TypeInv, Control
    <3>0. client'[n] # "idle" /\ UNCHANGED <<cur, lck, ret>>
      BY <1>0, <1>4 DEF DirectClose
    <3>2. CASE dir[n].req = cur[n]
      <4>1. dir'[n] = [dir[n] EXCEPT !.whole = TRUE]
        BY <1>0, <1>4, <3>2 DEF DirectClose
      <4>2. dir'[n].req = dir[n].req
        BY <1>0, <4>1 DEF Files
      <4> QED
        BY <3>0, <3>1, <3>2, <4>2
    <3>3. CASE dir[n].req # cur[n]
      <4>1. dir' = dir
        BY <1>4, <3>3 DEF DirectClose
      <4> QED
        BY <3>0, <3>1, <4>1
    <3> QED
      BY <3>2, <3>3
  <2>2. dir[n] = NoFile => dir'[n] = NoFile
    BY <2>1 DEF NoFile
  <2>3. dir[n] # NoFile => dir[n].req = cur[n]
    BY DEF Patient
  <2> QED
    BY <1>1, <2>1, <2>2, <2>3 DEF Patient, WorksOn, Consumed
<1>5. CASE m = n /\ Collect(n)
  <2>1. n \in lck /\ n \notin lck' /\ UNCHANGED <<dir, cur>>
    BY <1>5 DEF Collect
  <2>2. dir[n] = NoFile /\ ~WorksOn(n)
    BY <2>1 DEF Patient
  <2> QED
    BY <1>1, <2>1, <2>2 DEF Patient, WorksOn, Consumed
<1>6. CASE m = n /\ GiveUp(n)
  BY <1>6 DEF GiveUp
<1> QED
  BY <1>2, <1>3, <1>4, <1>5, <1>6 DEF ClientStep

LEMMA PatientStep ==
  ASSUME TypeInv, ~DiskMayFill, NEW n \in Names \ Impatient, Patient(n), [Next]_vars
  PROVE  Patient(n)'
<1>1. CASE \E m \in Names : ClientStep(m)
  BY <1>1, ClientSteps
<1>2. CASE \/ ReadPacket \/ Unlink \/ Callback \/ WriteTemp \/ OpenResponse
           \/ FillResponse \/ CreateLock
  BY <1>2, WorkSteps
<1>3. CASE \/ EnterRun \/ KeepRunning \/ ScanDirectory \/ EnterSelect
           \/ SelectReady \/ SelectTimeout \/ TakeName \/ CheckRunning
           \/ Start \/ UNCHANGED vars
  BY <1>3, ScanAside, AsideKeeps
<1>4. CASE Kill \/ Sigterm \/ FlagUnreachable \/ Stop \/ Abort \/ CallbackThrows
  BY <1>4, LifeAside, AsideKeeps
<1> QED
  BY <1>1, <1>2, <1>3, <1>4, Zenon DEF Next, ProcessStep

AllPatient == \A n \in Names \ Impatient : Patient(n)

LEMMA PatientInit == Init => AllPatient
BY DEF Init, QueueInit, AllPatient, Patient, WorksOn, Consumed, NoFile

LEMMA AlwaysPatient ==
  ASSUME ~DiskMayFill
  PROVE  Spec => []AllPatient
<1>1. TypeInv /\ AllPatient /\ [Next]_vars => AllPatient'
  BY PatientStep DEF AllPatient
<1> QED
  BY <1>1, PatientInit, TypeCorrect, PTL DEF Spec

\* A client that waits for its lock file finds the complete response to its own
\* request behind it, however it writes its command, whatever other clients do,
\* and whenever the process is killed, signalled, ends by itself or is restarted:
\* unless the disk fills up.
THEOREM AnswerBehindLock ==
  ASSUME ~DiskMayFill
  PROVE  Spec => []LckMeansAnswer
<1>1. AllPatient => LckMeansAnswer
  BY DEF AllPatient, Patient, LckMeansAnswer
<1> QED
  BY <1>1, AlwaysPatient, PTL
-----------------------------------------------------------------------------
(* The order of commands, and the end of the process, where every client    *)
(* renames its commands and waits, and no command makes the broker throw.   *)

Orderly == Impatient = {} /\ Direct = {} /\ ~DiskMayFill /\ ~BrokerMayThrow

\* Names that the process was told of by a listing or by an event it has read,
\* and by those it has not.
Queued(n) == \E i \in 1..Len(queue) : queue[i] = n
Raised(n) == \E j \in 1..Len(kevents) : kevents[j].name = n
Told(n) == Queued(n) \/ Raised(n)

\* Two names in the order they are taken: never the same, and the older request
\* first once events give the order.
Before(m, n) == m # n /\ (scanType = "event" => cur[m] < cur[n])

InLine ==
  /\ \A i, j \in 1..Len(queue) : i < j => Before(queue[i], queue[j])
  /\ \A m, n \in Names : Queued(m) /\ Raised(n) => Before(m, n)
  /\ \A i, j \in 1..Len(kevents) : i < j => Before(kevents[i].name, kevents[j].name)
  /\ taken # NoName => \A n \in Names : Told(n) => Before(taken, n)

\* The file of every name in line is there, and is younger than what was done.
OnHand == {"check", "read", "unlink"}
There ==
  /\ \A n \in Names : Told(n) => dir[n] # NoFile
  /\ scanType = "event" =>
       \A n \in Names, r \in Requests : Told(n) /\ executed[r] > 0 => r < cur[n]
  /\ taken # NoName /\ pc \in OnHand => dir[taken] # NoFile

Steady ==
  /\ pc \notin OnHand \cup Consumed => taken = NoName
  /\ pc # "abort" /\ (pc \in {"copy", "fill"} => taken \in tmp)
  /\ scanType = "dir" => kevents = <<>> /\ ~watched
  /\ \A n \in Names : cur[n] <= sent /\ client[n] # "writing"
  /\ \A r \in Requests : executed[r] > 0 => r <= sent
  /\ ending # "died"

LEMMA LineStays ==
  ASSUME InLine, UNCHANGED <<queue, kevents, scanType, cur>>, taken' \in {taken, NoName}
  PROVE  InLine'
BY DEF InLine, Before, Told, Queued, Raised

LEMMA ThereStays ==
  ASSUME There, UNCHANGED <<queue, kevents, scanType, cur, dir, executed>>,
         taken' \in {taken, NoName}, pc \in OnHand \/ pc' \notin OnHand \/ taken' = NoName
  PROVE  There'
BY DEF There, Told, Queued, Raised

\* Steps that leave the line as it is, and the directory.
LEMMA QuietOrder ==
  ASSUME TypeInv, Orderly, InLine, There, Steady,
         \/ EnterRun \/ KeepRunning \/ EnterSelect \/ SelectTimeout \/ CheckRunning
         \/ Start \/ UNCHANGED vars \/ \E n \in Names : Collect(n)
  PROVE  InLine' /\ There' /\ Steady'
<1>1. CASE EnterRun \/ KeepRunning \/ SelectTimeout \/ CheckRunning \/ EnterSelect
  <2>1. /\ UNCHANGED <<queue, kevents, scanType, cur, dir, executed, client, sent, ending>>
        /\ taken' \in {taken, NoName}
        /\ pc \in OnHand \/ pc' \notin OnHand \/ taken' = NoName
    BY <1>1 DEF EnterRun, KeepRunning, SelectTimeout, CheckRunning, EnterSelect,
       StartMonitoring, queueVars, clientVars, procUnchanged, OnHand, Steady, Consumed
  <2>2. Steady'
    <3>1. pc' \notin OnHand \cup Consumed => taken' = NoName
      BY <1>1 DEF EnterRun, KeepRunning, SelectTimeout, CheckRunning, EnterSelect,
         OnHand, Steady, Consumed
    <3>2. pc' \notin {"abort", "copy", "fill"}
      BY <1>1 DEF EnterRun, KeepRunning, SelectTimeout, CheckRunning, EnterSelect
    <3>3. scanType' = "dir" => kevents' = <<>> /\ ~watched'
      BY <1>1 DEF EnterRun, KeepRunning, SelectTimeout, CheckRunning, EnterSelect,
         StartMonitoring, queueVars, Steady
    <3> QED
      BY <2>1, <3>1, <3>2, <3>3 DEF Steady
  <2> QED
    BY <2>1, <2>2, LineStays, ThereStays
<1>2. CASE Start
  <2>1. /\ UNCHANGED <<queue, kevents, scanType, cur, dir, executed, client, sent,
                       ending, watched, taken>>
        /\ pc' = "boot" /\ taken = NoName
    BY <1>2 DEF Start, queueVars, clientVars, OnHand, Steady, Consumed
  <2>2. Steady'
    BY <2>1 DEF Steady, OnHand, Consumed
  <2> QED
    BY <2>1, <2>2, LineStays, ThereStays DEF OnHand
<1>3. CASE UNCHANGED vars
  <2>1. UNCHANGED <<queue, kevents, scanType, cur, dir, executed, client, sent,
                    ending, watched, taken, pc, tmp>>
    BY <1>3 DEF vars, queueVars, clientVars, fileVars
  <2>2. Steady'
    BY <2>1 DEF Steady
  <2> QED
    BY <2>1, <2>2, LineStays, ThereStays
<1>4. CASE \E n \in Names : Collect(n)
  <2>1. UNCHANGED <<queue, kevents, scanType, cur, dir, executed, sent,
                    ending, watched, taken, pc, tmp>>
    BY <1>4 DEF Collect, clientUnchanged
  <2>2. \A n \in Names : client'[n] # "writing"
    BY <1>4 DEF Collect, Steady, TypeInv, TypeOK
  <2>3. Steady'
    BY <2>1, <2>2 DEF Steady
  <2> QED
    BY <2>1, <2>3, LineStays, ThereStays
<1> QED
  BY <1>1, <1>2, <1>3, <1>4

\* The steps on the command taken that come after its execution, or before it
\* is removed.
LEMMA WorkOrder ==
  ASSUME TypeInv, Orderly, InLine, There, Steady,
         ReadPacket \/ WriteTemp \/ OpenResponse \/ FillResponse \/ CreateLock
  PROVE  InLine' /\ There' /\ Steady'
<1>1. CASE ReadPacket
  <2>1. dir[taken] # NoFile
    <3>1. pc = "read" /\ taken \in Names
      BY <1>1 DEF ReadPacket, TypeInv, Control
    <3> QED
      BY <3>1, SpoolerAssumption DEF There, OnHand
  <2>2. /\ UNCHANGED <<queue, kevents, scanType, cur, dir, executed, client, sent,
                       ending, watched, taken, tmp>>
        /\ pc = "read" /\ pc' = "unlink"
    BY <1>1, <2>1 DEF ReadPacket, queueVars, fileVars, clientVars, procUnchanged
  <2>3. Steady'
    BY <2>2 DEF Steady, OnHand, Consumed
  <2> QED
    BY <2>2, <2>3, LineStays, ThereStays DEF OnHand
<1>2. CASE WriteTemp \/ OpenResponse
  <2>1. /\ UNCHANGED <<queue, kevents, scanType, cur, dir, executed, client, sent,
                       ending, watched, taken>>
        /\ pc' \in {"copy", "fill"} /\ taken \in tmp'
    BY <1>2 DEF WriteTemp, OpenResponse, queueVars, clientVars, procUnchanged,
       Orderly, Steady
  <2>2. Steady'
    BY <2>1 DEF Steady, OnHand, Consumed
  <2> QED
    BY <2>1, <2>2, LineStays, ThereStays DEF OnHand
<1>3. CASE FillResponse
  <2>1. /\ UNCHANGED <<queue, kevents, scanType, cur, dir, executed, client, sent,
                       ending, watched, taken>>
        /\ pc' = "lock"
    BY <1>3 DEF FillResponse, queueVars, clientVars, Steady
  <2>2. Steady'
    BY <2>1 DEF Steady, OnHand, Consumed
  <2> QED
    BY <2>1, <2>2, LineStays, ThereStays DEF OnHand
<1>4. CASE CreateLock
  <2>1. /\ UNCHANGED <<queue, kevents, scanType, cur, dir, executed, client, sent,
                       ending, watched>>
        /\ pc' = "enter" /\ taken' = NoName
    BY <1>4 DEF CreateLock, queueVars, clientVars
  <2>2. Steady'
    BY <2>1 DEF Steady, OnHand, Consumed
  <2> QED
    BY <2>1, <2>2, LineStays, ThereStays DEF OnHand
<1> QED
  BY <1>1, <1>2, <1>3, <1>4
\* The process ends otherwise than by a fault.
LEMMA EndOrder ==
  ASSUME InLine, There, Steady, NEW how, how # "died", Leave(how)
  PROVE  InLine' /\ There' /\ Steady'
<1>1. /\ queue' = <<>> /\ kevents' = <<>> /\ scanType' = "dir" /\ watched' = FALSE
      /\ pc' = "down" /\ taken' = NoName /\ ending' = how
      /\ UNCHANGED <<dir, cur, client, sent, executed>>
  BY DEF Leave, QueueLost, clientVars
<1>2. Len(queue') = 0 /\ Len(kevents') = 0
  BY <1>1
<1>3. \A n : ~Queued(n)' /\ ~Raised(n)'
  BY <1>2 DEF Queued, Raised
<1>4. InLine'
  BY <1>1, <1>2, <1>3 DEF InLine, Told
<1>5. There'
  BY <1>1, <1>3 DEF There, Told
<1>6. Steady'
  BY <1>1 DEF Steady, OnHand, Consumed
<1> QED
  BY <1>4, <1>5, <1>6

LEMMA SigtermOrder ==
  ASSUME InLine, There, Steady, Sigterm, maps < MaxMaps, maps \in Nat, MaxMaps \in Nat
  PROVE  InLine' /\ There' /\ Steady'
<1>1. /\ UNCHANGED <<queue, kevents, scanType, cur, dir, executed, client, sent,
                     ending, watched, taken, tmp>>
      /\ pc' = IF pc = "select" THEN "enter" ELSE pc
  BY DEF Sigterm, AttachFails, queueVars, fileVars, clientVars
<1>2. Steady'
  BY <1>1 DEF Steady, OnHand, Consumed
<1> QED
  BY <1>1, <1>2, LineStays, ThereStays DEF OnHand

\* The first name of the queue is taken.
LEMMA TakeOrder ==
  ASSUME TypeInv, InLine, There, Steady, TakeName
  PROVE  InLine' /\ There' /\ Steady'
<1>1. /\ queue # <<>> /\ queue' = Tail(queue) /\ taken' = Head(queue) /\ pc' = "check"
      /\ UNCHANGED <<kevents, watched, scanType, dir, cur, client, sent, executed, ending>>
  BY DEF TakeName, PopFront, procUnchanged, clientVars
<1>2. queue \in Seq(Names)
  BY DEF TypeInv, TypeOK, QueueTypeOK
<1>3. /\ Len(queue) \in Nat /\ Len(queue) > 0 /\ Len(queue') = Len(queue) - 1
      /\ \A i \in 1..Len(queue') : queue'[i] = queue[i + 1]
      /\ taken' = queue[1] /\ taken' \in Names
  BY <1>1, <1>2, HeadTailProperties, LenProperties
<1>4. ASSUME NEW n, Queued(n)'
      PROVE  Queued(n) /\ Before(taken', n)
  <2>1. PICK i \in 1..Len(queue') : queue'[i] = n
    BY <1>4 DEF Queued
  <2>2. i + 1 \in 1..Len(queue) /\ 1 \in 1..Len(queue) /\ 1 < i + 1
    BY <1>3
  <2>3. queue[i + 1] = n
    BY <1>3, <2>1
  <2> QED
    BY <1>3, <2>2, <2>3 DEF InLine, Queued
<1>5. \A n : Raised(n)' <=> Raised(n)
  BY <1>1 DEF Raised
<1>6. Queued(taken')
  BY <1>3 DEF Queued
<1>7. \A m, n : Before(m, n)' <=> Before(m, n)
  BY <1>1 DEF Before
<1>8. InLine'
  <2>1. \A i, j \in 1..Len(queue') : i < j => Before(queue'[i], queue'[j])
    <3> SUFFICES ASSUME NEW i \in 1..Len(queue'), NEW j \in 1..Len(queue'), i < j
                 PROVE  Before(queue'[i], queue'[j])
      OBVIOUS
    <3>1. i + 1 \in 1..Len(queue) /\ j + 1 \in 1..Len(queue) /\ i + 1 < j + 1
      BY <1>3
    <3>2. queue'[i] = queue[i + 1] /\ queue'[j] = queue[j + 1]
      BY <1>3
    <3> QED
      BY <3>1, <3>2 DEF InLine
  <2>2. \A m, n \in Names : Queued(m)' /\ Raised(n)' => Before(m, n)
    BY <1>4, <1>5, Zenon DEF InLine
  <2>3. \A n \in Names : Told(n)' => Before(taken', n)
    BY <1>3, <1>4, <1>5, <1>6, Zenon DEF InLine, Told
  <2>4. \A i, j \in 1..Len(kevents') :
          i < j => Before(kevents'[i].name, kevents'[j].name)
    BY <1>1, Zenon DEF InLine
  <2> QED
    BY <2>1, <2>2, <2>3, <2>4, <1>7, Zenon DEF InLine
<1>9. There'
  <2>1. \A n : Told(n)' => Told(n)
    BY <1>4, <1>5, Zenon DEF Told
  <2>2. Told(taken')
    BY <1>6 DEF Told
  <2> QED
    BY <1>1, <1>3, <2>1, <2>2, Zenon DEF There
<1>10. Steady'
  BY <1>1 DEF Steady, OnHand, Consumed
<1> QED
  BY <1>8, <1>9, <1>10

\* Events are read: the names read come before those that are not.
LEMMA ReadOrder ==
  ASSUME TypeInv, InLine, There, Steady, SelectReady
  PROVE  InLine' /\ There' /\ Steady'
<1>1. PICK k \in 1..ReadMax :
        /\ k <= Len(kevents)
        /\ queue' = [i \in 1..k |-> kevents[i].name]
        /\ kevents' = SubSeq(kevents, k + 1, Len(kevents))
  BY DEF SelectReady, ReadEvents
<1>2. /\ pc = "select" /\ pc' = "scan" /\ taken' = taken /\ taken = NoName
      /\ UNCHANGED <<watched, scanType, dir, cur, client, sent, executed, ending>>
  BY DEF SelectReady, ReadEvents, procUnchanged, clientVars, Steady, OnHand, Consumed
<1>3. kevents \in Seq(Events) /\ Len(kevents) \in Nat
  BY DEF TypeInv, TypeOK, QueueTypeOK
<1>4. k \in Nat /\ k > 0
  BY <1>1, QueueAssumption
<1>5. Len(queue') = k /\ \A i \in 1..k : queue'[i] = kevents[i].name
  BY <1>1, <1>4
<1>6. \A i \in (k + 1)..Len(kevents) : kevents[i] \in Events
  BY <1>3, <1>4
<1>7. /\ Len(kevents') = Len(kevents) - k
      /\ \A j \in 1..(Len(kevents) - k) : kevents'[j] = kevents[k + j]
  <2>1. k + 1 \in Int /\ Len(kevents) \in Int
    BY <1>3, <1>4
  <2>2. /\ Len(kevents') = IF k + 1 <= Len(kevents) THEN Len(kevents) - (k + 1) + 1 ELSE 0
        /\ \A j \in 1..(Len(kevents) - (k + 1) + 1) :
             kevents'[j] = kevents[(k + 1) + j - 1]
    BY <1>1, <1>6, <2>1, SubSeqProperties
  <2>3. Len(kevents) - (k + 1) + 1 = Len(kevents) - k
    BY <1>3, <1>4
  <2>4. \A j \in 1..(Len(kevents) - k) : (k + 1) + j - 1 = k + j
    BY <1>3, <1>4
  <2>5. Len(kevents') = Len(kevents) - k
    <3>1. CASE k + 1 <= Len(kevents)
      BY <2>2, <2>3, <3>1
    <3>2. CASE ~(k + 1 <= Len(kevents))
      <4>1. Len(kevents) = k
        BY <1>1, <1>3, <1>4, <3>2
      <4>2. Len(kevents') = 0
        BY <2>2, <3>2
      <4> QED
        BY <1>4, <4>1, <4>2
    <3> QED
      BY <3>1, <3>2
  <2>6. ASSUME NEW j \in 1..(Len(kevents) - k)
        PROVE  kevents'[j] = kevents[k + j]
    <3>1. kevents'[j] = kevents[(k + 1) + j - 1]
      BY <2>2, <2>3
    <3> QED
      BY <2>4, <3>1
  <2> QED
    BY <2>5, <2>6
<1>8. \A m, n : Before(m, n)' <=> Before(m, n)
  BY <1>2 DEF Before
<1>9. \A n : Told(n)' => Raised(n)
  <2> SUFFICES ASSUME NEW n, Told(n)' PROVE Raised(n)
    OBVIOUS
  <2>1. CASE Queued(n)'
    BY <2>1, <1>1, <1>3, <1>4, <1>5 DEF Queued, Raised
  <2>2. CASE Raised(n)'
    <3>1. PICK j \in 1..Len(kevents') : kevents'[j].name = n
      BY <2>2 DEF Raised
    <3>2. k + j \in 1..Len(kevents) /\ kevents[k + j].name = n
      BY <3>1, <1>1, <1>3, <1>4, <1>7
    <3> QED
      BY <3>2 DEF Raised
  <2> QED
    BY <2>1, <2>2 DEF Told
<1>10. InLine'
  <2>1. \A i, j \in 1..Len(queue') : i < j => Before(queue'[i], queue'[j])
    <3> SUFFICES ASSUME NEW i \in 1..Len(queue'), NEW j \in 1..Len(queue'), i < j
                 PROVE  Before(queue'[i], queue'[j])
      OBVIOUS
    <3>1. i \in 1..Len(kevents) /\ j \in 1..Len(kevents)
      BY <1>1, <1>3, <1>4, <1>5
    <3> QED
      BY <1>5, <3>1 DEF InLine
  <2>2. \A m, n \in Names : Queued(m)' /\ Raised(n)' => Before(m, n)
    <3> SUFFICES ASSUME NEW m \in Names, NEW n \in Names, Queued(m)', Raised(n)'
                 PROVE  Before(m, n)
      OBVIOUS
    <3>1. PICK i \in 1..Len(queue') : queue'[i] = m
      BY DEF Queued
    <3>2. PICK j \in 1..Len(kevents') : kevents'[j].name = n
      BY DEF Raised
    <3>3. i \in 1..Len(kevents) /\ k + j \in 1..Len(kevents) /\ i < k + j
      BY <1>1, <1>3, <1>4, <1>5, <1>7
    <3>4. kevents[i].name = m /\ kevents[k + j].name = n
      BY <1>3, <1>4, <1>5, <1>7, <3>1, <3>2
    <3> QED
      BY <3>3, <3>4 DEF InLine
  <2>3. \A i, j \in 1..Len(kevents') :
          i < j => Before(kevents'[i].name, kevents'[j].name)
    <3> SUFFICES ASSUME NEW i \in 1..Len(kevents'), NEW j \in 1..Len(kevents'), i < j
                 PROVE  Before(kevents'[i].name, kevents'[j].name)
      OBVIOUS
    <3>1. /\ k + i \in 1..Len(kevents) /\ k + j \in 1..Len(kevents) /\ k + i < k + j
          /\ kevents'[i] = kevents[k + i] /\ kevents'[j] = kevents[k + j]
      BY <1>1, <1>3, <1>4, <1>7
    <3> QED
      BY <3>1 DEF InLine
  <2> QED
    BY <2>1, <2>2, <2>3, <1>2, <1>8, Zenon DEF InLine
<1>11. There'
  BY <1>2, <1>9, Zenon DEF There, Told, OnHand
<1>12. Steady'
  <2>1. scanType # "dir"
    <3>1. Len(kevents) > 0
      BY <1>1, <1>3, <1>4
    <3> QED
      BY <3>1 DEF Steady
  <2> QED
    BY <1>2, <2>1 DEF Steady, OnHand, Consumed
<1> QED
  BY <1>10, <1>11, <1>12

\* A listing puts every command of the directory in line, in any order, or ends
\* the directory phase with nobody in line.
LEMMA ListOrder ==
  ASSUME TypeInv, InLine, There, Steady, ScanDirectory
  PROVE  InLine' /\ There' /\ Steady'
<1>1. /\ pc = "scan" /\ pc' = pc /\ taken' = taken /\ taken = NoName
      /\ queue = <<>> /\ scanType = "dir" /\ kevents = <<>> /\ ~watched
      /\ UNCHANGED <<kevents, watched, dir, cur, client, sent, executed, ending>>
  BY DEF ScanDirectory, DirectoryScan, procUnchanged, clientVars, Steady, OnHand,
     Consumed
<1>2. Len(kevents) = 0 /\ Len(queue) = 0
  BY <1>1
<1>3. \A n : ~Raised(n)'
  BY <1>1, <1>2 DEF Raised
<1>4. Steady'
  BY <1>1 DEF Steady, OnHand, Consumed
<1>5. CASE queue' = queue
  <2>1. \A n : ~Told(n)'
    BY <1>2, <1>3, <1>5 DEF Told, Queued
  <2>2. InLine'
    BY <1>1, <1>2, <1>5, <2>1 DEF InLine, Told
  <2>3. There'
    BY <1>1, <2>1 DEF There
  <2> QED
    BY <1>4, <2>2, <2>3
<1>6. CASE queue' \in SetToSeqs(Present) /\ scanType' = "dir"
  <2>1. IsFiniteSet(Present) /\ Cardinality(Present) \in Nat
    BY QueueAssumption, FS_Subset, FS_CardinalityType DEF Present
  <2>2. /\ queue' \in [1..Cardinality(Present) -> Present]
        /\ \A i, j \in 1..Cardinality(Present) : i # j => queue'[i] # queue'[j]
    BY <1>6 DEF SetToSeqs
  <2>3. Len(queue') = Cardinality(Present)
    BY <2>1, <2>2
  <2>4. \A n : Told(n)' => n \in Present
    BY <1>3, <2>2, <2>3 DEF Told, Queued
  <2>5. ASSUME NEW i \in 1..Len(queue'), NEW j \in 1..Len(queue'), i < j
        PROVE  queue'[i] # queue'[j]
    <3>1. i # j /\ i \in 1..Cardinality(Present) /\ j \in 1..Cardinality(Present)
      BY <2>1, <2>3, <2>5
    <3> QED
      BY <2>2, <3>1
  <2>6. InLine'
    <3>1. \A m, n : Before(m, n)' <=> m # n
      BY <1>6 DEF Before
    <3> QED
      BY <1>1, <1>2, <1>3, <2>5, <3>1 DEF InLine
  <2>7. There'
    BY <1>1, <1>6, <2>4 DEF There, Present
  <2> QED
    BY <1>4, <2>6, <2>7
<1> QED
  BY <1>5, <1>6, <1>1 DEF ScanDirectory, DirectoryScan
\* A client renames its next command: its name is nowhere in line, and joins it
\* last, with the youngest request.
LEMMA SubmitOrder ==
  ASSUME TypeInv, Orderly, InLine, There, Steady, AllPatient,
         NEW n \in Names, Submit(n)
  PROVE  InLine' /\ There' /\ Steady'
<1>1. /\ dir \in [Names -> Files] /\ cur \in [Names -> 0..MaxRequests]
      /\ sent \in 0..MaxRequests /\ MaxRequests \in Nat
      /\ client \in [Names -> {"idle", "writing", "waiting"}]
      /\ kevents \in Seq(Events) /\ Len(kevents) \in Nat
  BY QueueAssumption DEF TypeInv, TypeOK, QueueTypeOK
<1>2. /\ client[n] = "idle" /\ sent' = sent + 1 /\ sent + 1 \in Nat
      /\ cur' = [cur EXCEPT ![n] = sent + 1]
      /\ client' = [client EXCEPT ![n] = "waiting"]
      /\ dir' = [dir EXCEPT ![n] = [req |-> sent + 1, whole |-> TRUE]]
      /\ UNCHANGED <<queue, scanType, watched, pc, taken, tmp, executed, ending>>
  BY <1>1 DEF Submit, clientUnchanged
<1>3. \/ UNCHANGED kevents
      \/ kevents' = Append(kevents, [name |-> n, kind |-> "moved"]) /\ watched
  BY DEF Submit, Notify
<1>4. Patient(n)
  BY DEF AllPatient, Orderly
<1>5. dir[n] = NoFile /\ ~WorksOn(n)
  BY <1>2, <1>4 DEF Patient
<1>6. ~Told(n)
  BY <1>5 DEF There
<1>7. taken # n
  <2> SUFFICES ASSUME taken = n PROVE FALSE
    OBVIOUS
  <2>1. pc \in OnHand \cup Consumed
    BY SpoolerAssumption DEF Steady
  <2>2. pc \notin Consumed
    BY <1>5 DEF WorksOn
  <2>3. dir[taken] # NoFile
    BY <2>1, <2>2, SpoolerAssumption DEF There
  <2> QED
    BY <1>5, <2>3
<1>8. /\ cur'[n] = sent + 1
      /\ \A m \in Names \ {n} : cur'[m] = cur[m] /\ cur[m] < cur'[n] /\ dir'[m] = dir[m]
  <2>1. \A m \in Names : cur[m] \in Nat /\ cur[m] <= sent
    BY <1>1 DEF Steady
  <2> QED
    BY <1>1, <1>2, <2>1
<1>9. \A m, k : m # n /\ k # n /\ m \in Names /\ k \in Names /\ Before(m, k)
                => Before(m, k)'
  BY <1>2, <1>8 DEF Before
<1>10. \A m \in Names : m # n => Before(m, n)'
  BY <1>8 DEF Before
<1>11. \A m : Queued(m)' <=> Queued(m)
  BY <1>2 DEF Queued
<1>12. /\ \A i \in 1..Len(kevents) : kevents'[i] = kevents[i]
       /\ \/ Len(kevents') = Len(kevents)
          \/ Len(kevents') = Len(kevents) + 1 /\ kevents'[Len(kevents')].name = n
  <2>1. CASE UNCHANGED kevents
    BY <2>1
  <2>2. CASE kevents' = Append(kevents, [name |-> n, kind |-> "moved"])
    <3>1. [name |-> n, kind |-> "moved"] \in Events
      BY DEF Events
    <3>2. /\ Len(kevents') = Len(kevents) + 1
          /\ \A i \in 1..Len(kevents) : kevents'[i] = kevents[i]
          /\ kevents'[Len(kevents) + 1] = [name |-> n, kind |-> "moved"]
      BY <1>1, <2>2, <3>1, AppendProperties
    <3> QED
      BY <3>2
  <2> QED
    BY <1>3, <2>1, <2>2
<1>13. \A m : Raised(m)' => Raised(m) \/ m = n
  <2> SUFFICES ASSUME NEW m, Raised(m)', m # n PROVE Raised(m)
    OBVIOUS
  <2>1. PICK i \in 1..Len(kevents') : kevents'[i].name = m
    BY DEF Raised
  <2>2. i \in 1..Len(kevents)
    BY <1>1, <1>12, <2>1
  <2> QED
    BY <1>12, <2>1, <2>2 DEF Raised
<1>14. \A m : Told(m)' => Told(m) \/ m = n
  BY <1>11, <1>13, Zenon DEF Told
<1>15. /\ \A i \in 1..Len(queue) : queue[i] \in Names /\ queue[i] # n
       /\ \A i \in 1..Len(kevents) : kevents[i].name \in Names /\ kevents[i].name # n
  <2>1. \A i \in 1..Len(queue) : queue[i] \in Names
    <3>1. queue \in Seq(Names)
      BY DEF TypeInv, TypeOK, QueueTypeOK
    <3> QED
      BY <3>1
  <2>2. \A i \in 1..Len(kevents) : kevents[i].name \in Names
    <3>1. \A i \in 1..Len(kevents) : kevents[i] \in Events
      BY <1>1
    <3> QED
      BY <3>1 DEF Events
  <2>3. ~Queued(n) /\ ~Raised(n)
    BY <1>6, Zenon DEF Told
  <2>4. \A i \in 1..Len(queue) : queue[i] # n
    BY <2>3, Zenon DEF Queued
  <2>5. \A i \in 1..Len(kevents) : kevents[i].name # n
    BY <2>3, Zenon DEF Raised
  <2> QED
    BY <2>1, <2>2, <2>4, <2>5
<1>16. InLine'
  <2>1. \A i, j \in 1..Len(queue) : i < j => Before(queue[i], queue[j])'
    BY <1>2, <1>8, <1>15 DEF InLine, Before
  <2>2. ASSUME NEW m \in Names, NEW k \in Names, Queued(m)', Raised(k)'
        PROVE  Before(m, k)'
    <3>1. Queued(m) /\ m # n
      BY <1>6, <1>11, <2>2, Zenon DEF Told
    <3>2. CASE k = n
      BY <1>10, <3>1, <3>2
    <3>3. CASE k # n
      BY <1>9, <1>13, <2>2, <3>1, <3>3, Zenon DEF InLine
    <3> QED
      BY <3>2, <3>3
  <2>3. ASSUME NEW i \in 1..Len(kevents'), NEW j \in 1..Len(kevents'), i < j
        PROVE  /\ kevents'[i].name # kevents'[j].name
               /\ scanType = "event" => cur'[kevents'[i].name] < cur'[kevents'[j].name]
    <3>1. i \in 1..Len(kevents) /\ kevents'[i] = kevents[i]
      BY <1>1, <1>12, <2>3
    <3>2. CASE j \in 1..Len(kevents)
      <4>1. kevents'[j] = kevents[j]
        BY <1>12, <3>2
      <4>2. Before(kevents[i].name, kevents[j].name)
        BY <2>3, <3>1, <3>2 DEF InLine
      <4> QED
        BY <1>8, <1>15, <3>1, <3>2, <4>1, <4>2 DEF Before
    <3>3. CASE j \notin 1..Len(kevents)
      <4>1. kevents'[j].name = n
        BY <1>1, <1>12, <2>3, <3>3
      <4> QED
        BY <1>8, <1>15, <3>1, <4>1
    <3> QED
      BY <3>2, <3>3
  <2>4. ASSUME taken # NoName, NEW k \in Names, Told(k)'
        PROVE  taken # k /\ (scanType = "event" => cur'[taken] < cur'[k])
    <3>1. taken \in Names \ {n}
      BY <1>7, <2>4 DEF TypeInv, TypeOK
    <3>2. CASE k = n
      BY <1>8, <3>1, <3>2
    <3>3. CASE k # n
      <4>1. Before(taken, k)
        BY <1>14, <2>4, <3>1, <3>3, Zenon DEF InLine
      <4> QED
        BY <1>8, <3>1, <3>3, <4>1 DEF Before
    <3> QED
      BY <3>2, <3>3
  <2>5. \A i, j \in 1..Len(queue') : i < j =>
          /\ queue'[i] # queue'[j]
          /\ scanType' = "event" => cur'[queue'[i]] < cur'[queue'[j]]
    BY <1>2, <2>1 DEF Before
  <2> QED
    BY <1>2, <2>2, <2>3, <2>4, <2>5 DEF InLine, Before
<1>17. There'
  <2>1. ASSUME NEW m \in Names, Told(m)' PROVE dir'[m] # NoFile
    <3>1. CASE m = n
      <4>1. dir'[n] = [req |-> sent + 1, whole |-> TRUE]
        BY <1>1, <1>2
      <4>2. sent + 1 # 0
        BY <1>1
      <4> QED
        BY <3>1, <4>1, <4>2 DEF NoFile
    <3>2. CASE m # n
      BY <1>8, <1>14, <2>1, <3>2 DEF There
    <3> QED
      BY <3>1, <3>2
  <2>2. ASSUME scanType = "event", NEW m \in Names, NEW r \in Requests, Told(m)',
               executed[r] > 0
        PROVE  r < cur'[m]
    <3>1. CASE m = n
      <4>1. r <= sent
        BY <2>2 DEF Steady
      <4> QED
        BY <1>1, <1>8, <3>1, <4>1 DEF Requests
    <3>2. CASE m # n
      BY <1>8, <1>14, <2>2, <3>2 DEF There
    <3> QED
      BY <3>1, <3>2
  <2>3. ASSUME taken # NoName, pc \in OnHand PROVE dir'[taken] # NoFile
    <3>1. taken \in Names \ {n}
      BY <1>7, <2>3 DEF TypeInv, TypeOK
    <3>2. dir[taken] # NoFile
      BY <2>3 DEF There
    <3> QED
      BY <1>8, <3>1, <3>2
  <2> QED
    BY <1>2, <2>1, <2>2, <2>3 DEF There
<1>18. Steady'
  <2>1. \A m \in Names : cur'[m] <= sent' /\ client'[m] # "writing"
    <3>1. \A m \in Names : cur[m] \in Nat /\ cur[m] <= sent /\ client[m] # "writing"
      BY <1>1 DEF Steady
    <3> QED
      BY <1>1, <1>2, <1>8, <3>1
  <2>2. \A r \in Requests : executed'[r] > 0 => r <= sent'
    <3>1. \A r \in Requests : r \in Nat
      BY <1>1 DEF Requests
    <3> QED
      BY <1>1, <1>2, <3>1 DEF Steady
  <2>3. scanType' = "dir" => kevents' = <<>> /\ ~watched'
    BY <1>2, <1>3 DEF Steady
  <2> QED
    BY <1>2, <2>1, <2>2, <2>3 DEF Steady
<1> QED
  BY <1>16, <1>17, <1>18
\* The command taken is removed: nobody else's file is touched, and its own name
\* is not in line again.
LEMMA UnlinkOrder ==
  ASSUME TypeInv, Orderly, InLine, There, Steady, Unlink
  PROVE  InLine' /\ There' /\ Steady' /\ dir[taken] # NoFile
<1>1. pc = "unlink" /\ taken \in Names /\ taken # NoName
  BY SpoolerAssumption DEF Unlink, TypeInv, Control
<1>2. dir[taken] # NoFile
  BY <1>1 DEF There, OnHand
<1>3. /\ dir' = [dir EXCEPT ![taken] = NoFile] /\ pc' = "callback"
      /\ UNCHANGED <<queue, kevents, scanType, cur, executed, client, sent,
                     ending, watched, taken, tmp>>
  BY <1>2 DEF Unlink, UnlinkCommand, fileVars, clientVars
<1>4. InLine'
  BY <1>3, LineStays
<1>5. There'
  <2>1. \A n \in Names : Told(n)' => Told(n)
    BY <1>3 DEF Told, Queued, Raised
  <2>2. \A n \in Names : Told(n) => n # taken
    BY <1>1 DEF InLine, Before
  <2>3. \A n \in Names : n # taken => dir'[n] = dir[n]
    BY <1>3 DEF TypeInv, TypeOK, QueueTypeOK
  <2> QED
    BY <1>3, <2>1, <2>2, <2>3 DEF There, OnHand
<1>6. Steady'
  BY <1>1, <1>3 DEF Steady, OnHand, Consumed
<1> QED
  BY <1>2, <1>4, <1>5, <1>6

\* The command carried out is older than everyone's in line.
LEMMA CallbackOrder ==
  ASSUME TypeInv, Orderly, InLine, There, Steady, AllPatient, Callback
  PROVE  InLine' /\ There' /\ Steady'
<1>1. /\ pc = "callback" /\ pc' = "tmp"
      /\ executed' = [executed EXCEPT ![pkt.req] = @ + 1] \/ executed' = executed
      /\ UNCHANGED <<queue, kevents, scanType, cur, dir, client, sent, ending,
                     watched, taken, tmp>>
  BY DEF Callback, queueVars, fileVars, clientVars
<1>2. /\ taken \in Names /\ taken # NoName /\ pkt.req \in Requests
      /\ executed \in [Requests -> Nat]
  BY <1>1, SpoolerAssumption DEF TypeInv, Control, TypeOK, Consumed
<1>3. pkt.req = cur[taken]
  <2>1. Patient(taken)
    BY <1>2 DEF AllPatient, Orderly
  <2> QED
    BY <1>1, <2>1 DEF Patient, WorksOn, Consumed
<1>4. \A r \in Requests : executed'[r] > 0 => executed[r] > 0 \/ r = cur[taken]
  BY <1>1, <1>2, <1>3
<1>5. InLine'
  BY <1>1, LineStays
<1>6. There'
  <2>1. \A n \in Names : Told(n)' => Told(n)
    BY <1>1 DEF Told, Queued, Raised
  <2>2. \A n \in Names : Told(n) /\ scanType = "event" => cur[taken] < cur[n]
    BY <1>2 DEF InLine, Before
  <2> QED
    BY <1>1, <1>4, <2>1, <2>2 DEF There, OnHand
<1>7. Steady'
  <2>1. \A r \in Requests : executed'[r] > 0 => r <= sent'
    BY <1>1, <1>2, <1>4 DEF Steady
  <2> QED
    BY <1>1, <2>1 DEF Steady, OnHand, Consumed
<1> QED
  BY <1>5, <1>6, <1>7

MapsLeft == maps < MaxMaps
Order == InLine /\ There /\ Steady

\* What the process, its clients and their surroundings can do where nothing
\* goes wrong: no file is missing, no mapping, no space on the disk.
LEMMA OrderlyCases ==
  ASSUME TypeInv, Orderly, Order, MapsLeft, [Next]_vars
  PROVE  \/ \/ EnterRun \/ KeepRunning \/ EnterSelect \/ SelectTimeout \/ CheckRunning
            \/ Start \/ UNCHANGED vars \/ \E n \in Names : Collect(n)
         \/ ReadPacket /\ dir[taken] # NoFile
         \/ WriteTemp \/ OpenResponse \/ FillResponse \/ CreateLock
         \/ Kill \/ Stop \/ (Sigterm /\ pc' # "down")
         \/ TakeName \/ SelectReady \/ ScanDirectory
         \/ Unlink \/ Callback
         \/ \E n \in Names : Submit(n)
<1>1. ~AttachFails
  BY MapsAssumption DEF MapsLeft, AttachFails, TypeInv, TypeOK, LoopTypeOK
<1>2. ~FlagUnreachable
  BY <1>1 DEF FlagUnreachable
<1>3. Sigterm => pc' # "down"
  BY <1>1 DEF Sigterm
<1>4. ~CallbackThrows /\ ~Abort
  BY DEF CallbackThrows, Abort, Orderly, Order, Steady
<1>5. \A n \in Names : ~DirectOpen(n) /\ ~DirectClose(n) /\ ~GiveUp(n)
  BY DEF DirectOpen, DirectClose, GiveUp, Orderly, Order, Steady
<1>6. ReadPacket => dir[taken] # NoFile
  BY SpoolerAssumption DEF ReadPacket, TypeInv, Control, Order, There, OnHand
<1> QED
  BY <1>2, <1>3, <1>4, <1>5, <1>6, Zenon DEF Next, ProcessStep, ClientStep

LEMMA OrderStep ==
  ASSUME TypeInv, Orderly, Order, AllPatient, MapsLeft, [Next]_vars
  PROVE  Order'
<1>0. InLine /\ There /\ Steady
  BY DEF Order
<1>1. CASE \/ EnterRun \/ KeepRunning \/ EnterSelect \/ SelectTimeout \/ CheckRunning
           \/ Start \/ UNCHANGED vars \/ \E n \in Names : Collect(n)
  BY <1>0, <1>1, QuietOrder, Zenon DEF Order
<1>2. CASE ReadPacket \/ WriteTemp \/ OpenResponse \/ FillResponse \/ CreateLock
  BY <1>0, <1>2, WorkOrder, Zenon DEF Order
<1>3. CASE Kill \/ Stop
  <2>1. \E how \in {"killed", "stopped"} : Leave(how)
    BY <1>3 DEF Kill, Stop
  <2> QED
    BY <1>0, <2>1, EndOrder DEF Order
<1>4. CASE Sigterm
  <2>1. maps < MaxMaps /\ maps \in Nat /\ MaxMaps \in Nat
    BY MapsAssumption DEF MapsLeft, TypeInv, TypeOK, LoopTypeOK
  <2> QED
    BY <1>0, <1>4, <2>1, SigtermOrder, Zenon DEF Order
<1>5. CASE TakeName \/ SelectReady \/ ScanDirectory
  BY <1>0, <1>5, TakeOrder, ReadOrder, ListOrder, Zenon DEF Order
<1>6. CASE Unlink \/ Callback
  BY <1>0, <1>6, UnlinkOrder, CallbackOrder, Zenon DEF Order
<1>7. CASE \E n \in Names : Submit(n)
  BY <1>0, <1>7, SubmitOrder, Zenon DEF Order
<1> QED
  BY <1>1, <1>2, <1>3, <1>4, <1>5, <1>6, <1>7, OrderlyCases, Zenon

LEMMA OrderInit == Orderly /\ Init => Order
<1> SUFFICES ASSUME Init PROVE Order
  OBVIOUS
<1>1. /\ queue = <<>> /\ kevents = <<>> /\ scanType = "dir" /\ ~watched
      /\ pc = "down" /\ taken = NoName /\ ending = "none" /\ sent = 0
      /\ \A n \in Names : cur[n] = 0 /\ client[n] = "idle"
      /\ \A r \in Requests : executed[r] = 0
  BY DEF Init, QueueInit
<1>2. Len(queue) = 0 /\ Len(kevents) = 0
  BY <1>1
<1>3. \A n : ~Queued(n) /\ ~Raised(n)
  BY <1>2 DEF Queued, Raised
<1>4. InLine
  BY <1>1, <1>2, <1>3 DEF InLine, Told
<1>5. There
  BY <1>1, <1>3 DEF There, Told
<1>6. Steady
  BY <1>1 DEF Steady, OnHand, Consumed
<1> QED
  BY <1>4, <1>5, <1>6 DEF Order

LEMMA AlwaysOrder ==
  ASSUME Orderly
  PROVE  Spec /\ []MapsLeft => []Order
<1>1. TypeInv /\ AllPatient /\ MapsLeft /\ Order /\ [Next]_vars => Order'
  BY OrderStep
<1>2. Spec => []AllPatient
  BY AlwaysPatient DEF Orderly
<1> QED
  BY <1>1, <1>2, OrderInit, TypeCorrect, PTL DEF Spec

\* Where clients rename and wait, nothing but a signal or a kill ends the service:
\* no file it takes is missing, whatever is killed, listed twice or left over. It
\* does so as long as a mapping of the run flag's block is left to it.
THEOREM NeverDies ==
  ASSUME Orderly
  PROVE  Spec /\ []MapsLeft => []OnlySigtermEnds
<1>1. Order => OnlySigtermEnds
  BY DEF Order, Steady, OnlySigtermEnds
<1> QED
  BY <1>1, AlwaysOrder, PTL

\* Once the watch is in place commands are carried out in the order they were
\* renamed in, whatever the kernel drops and however many events one read takes.
THEOREM InOrder ==
  ASSUME Orderly
  PROVE  Spec /\ []MapsLeft => []EventOrder
<1>1. TypeInv /\ Order => EventOrder
  <2> SUFFICES ASSUME TypeInv, Order, scanType = "event",
                      NEW n \in ToSet(queue) \cup EventNames, NEW r \in Requests,
                      executed[r] > 0
               PROVE  r < cur[n]
    BY DEF EventOrder
  <2>1. queue \in Seq(Names) /\ kevents \in Seq(Events)
    BY DEF TypeInv, TypeOK, QueueTypeOK
  <2>2. CASE n \in ToSet(queue)
    <3>1. PICK i \in 1..Len(queue) : queue[i] = n
      BY <2>1, <2>2 DEF ToSet
    <3>2. n \in Names
      BY <2>1, <3>1
    <3> QED
      BY <3>1, <3>2 DEF Order, There, Told, Queued
  <2>3. CASE n \in EventNames
    <3>1. PICK j \in 1..Len(kevents) : kevents[j].name = n
      BY <2>1, <2>3 DEF EventNames
    <3>2. kevents[j] \in Events
      BY <2>1, <3>1
    <3>3. n \in Names
      BY <3>1, <3>2 DEF Events
    <3> QED
      BY <3>1, <3>3 DEF Order, There, Told, Raised
  <2> QED
    BY <2>2, <2>3
<1> QED
  BY <1>1, AlwaysOrder, TypeCorrect, PTL

-----------------------------------------------------------------------------
(* What the end of the process costs, and what it leaves behind.            *)

\* A request is lost by a kill only, and at most one.
LEMMA LossStep ==
  ASSUME TypeInv, Orderly, Order, AllPatient, MapsLeft, [Next]_vars, LossIsKill
  PROVE  LossIsKill'
<1>0. IsFiniteSet(lost) /\ Cardinality(lost) \in Nat /\ kills \in Nat
  <2>1. MaxRequests \in Nat /\ lost \subseteq 1..MaxRequests
    BY QueueAssumption DEF TypeInv, TypeOK, Requests
  <2>2. IsFiniteSet(1..MaxRequests)
    BY <2>1, FS_Interval
  <2>3. IsFiniteSet(lost)
    BY <2>1, <2>2, FS_Subset
  <2> QED
    BY <2>3, FS_CardinalityType, SpoolerAssumption DEF TypeInv, TypeOK
<1>1. CASE UNCHANGED <<lost, kills>>
  BY <1>1 DEF LossIsKill
<1>2. CASE \/ EnterRun \/ KeepRunning \/ EnterSelect \/ SelectTimeout \/ CheckRunning
           \/ Start \/ UNCHANGED vars \/ \E n \in Names : Collect(n)
  <2>1. UNCHANGED <<lost, kills>>
    BY <1>2 DEF EnterRun, KeepRunning, EnterSelect, SelectTimeout, CheckRunning,
       Start, vars, Collect, procUnchanged, clientUnchanged, boundVars
  <2> QED
    BY <1>1, <2>1
<1>3. CASE \/ ReadPacket /\ dir[taken] # NoFile
           \/ WriteTemp \/ OpenResponse \/ FillResponse \/ CreateLock
           \/ TakeName \/ SelectReady \/ ScanDirectory \/ Callback
           \/ Sigterm /\ pc' # "down"
  <2>1. FillResponse => taken \in tmp
    BY DEF FillResponse, Order, Steady
  <2>2. UNCHANGED <<lost, kills>>
    BY <1>3, <2>1 DEF ReadPacket, WriteTemp, OpenResponse, FillResponse, CreateLock,
       TakeName, SelectReady, ScanDirectory, Callback, Sigterm, Leave, procUnchanged,
       boundVars, Orderly
  <2> QED
    BY <1>1, <2>2
<1>4. CASE Kill
  <2>1. lost' = lost \cup (InProcess \ OnDisk) /\ kills' = kills + 1
    BY <1>4 DEF Kill, Leave
  <2>2. InProcess \ OnDisk = {} \/ \E r : InProcess \ OnDisk = {r}
    <3>1. InProcess = {} \/ InProcess = {pkt.req}
      BY DEF InProcess
    <3>2. CASE InProcess = {}
      BY <3>2
    <3>3. CASE InProcess = {pkt.req} /\ pkt.req \in OnDisk
      BY <3>3
    <3>4. CASE InProcess = {pkt.req} /\ pkt.req \notin OnDisk
      BY <3>4
    <3> QED
      BY <3>1, <3>2, <3>3, <3>4
  <2>3. CASE InProcess \ OnDisk = {}
    <3>1. lost' = lost
      BY <2>1, <2>3
    <3>2. Cardinality(lost') \in Nat /\ Cardinality(lost') <= kills
      BY <1>0, <3>1 DEF LossIsKill
    <3> QED
      BY <1>0, <2>1, <3>2 DEF LossIsKill
  <2>4. CASE \E r : InProcess \ OnDisk = {r}
    <3>1. PICK r : InProcess \ OnDisk = {r}
      BY <2>4
    <3>2. lost' = lost \cup {r}
      BY <2>1, <3>1
    <3>3. Cardinality(lost') = Cardinality(lost)
            \/ Cardinality(lost') = Cardinality(lost) + 1
      BY <1>0, <3>2, FS_AddElement
    <3>4. Cardinality(lost) <= kills
      BY DEF LossIsKill
    <3>5. Cardinality(lost') <= kills'
      BY <1>0, <2>1, <3>3, <3>4
    <3> QED
      BY <3>5 DEF LossIsKill
  <2> QED
    BY <2>2, <2>3, <2>4
<1>5. CASE Stop
  <2>1. pc = "stop" /\ kills' = kills /\ lost' = lost \cup (InProcess \ OnDisk)
    BY <1>5 DEF Stop, Leave, boundVars
  <2>2. InProcess = {}
    BY <2>1 DEF InProcess, Consumed
  <2> QED
    BY <1>1, <2>1, <2>2
<1>6. CASE Unlink
  <2>1. /\ pc = "unlink" /\ taken \in Names /\ dir[taken] # NoFile
    BY <1>6, UnlinkOrder DEF Unlink, TypeInv, Control, Order
  <2>2. Patient(taken)
    BY <2>1 DEF AllPatient, Orderly
  <2>3. dir[taken].req = cur[taken] /\ pkt.req = cur[taken]
    BY <2>1, <2>2 DEF Patient, WorksOn
  <2>4. kills' = kills /\ lost' = lost \cup ({dir[taken].req} \ {pkt.req})
    BY <1>6, <2>1 DEF Unlink, boundVars
  <2>5. lost' = lost
    BY <2>3, <2>4
  <2> QED
    BY <1>1, <2>4, <2>5
<1>7. CASE \E n \in Names : Submit(n)
  <2>1. PICK n \in Names : Submit(n)
    BY <1>7
  <2>2. dir[n].req = 0
    <3>1. client[n] = "idle"
      BY <2>1 DEF Submit
    <3>2. Patient(n)
      BY DEF AllPatient, Orderly
    <3> QED
      BY <3>1, <3>2 DEF Patient, NoFile
  <2>3. lost' = lost \cup ({dir[n].req} \cap Pending)
    BY <2>1 DEF Submit, Displace
  <2>4. 0 \notin Pending
    BY DEF Pending, OnDisk
  <2>5. lost' = lost
    BY <2>2, <2>3, <2>4
  <2>6. kills' = kills
    BY <2>1 DEF Submit, clientUnchanged, boundVars
  <2> QED
    BY <1>1, <2>5, <2>6
<1> QED
  BY <1>2, <1>3, <1>4, <1>5, <1>6, <1>7, OrderlyCases, Zenon

\* A kill costs at most the request being worked on; a signal, a restart or a
\* full queue of the kernel costs none.
THEOREM OnlyKillsLose ==
  ASSUME Orderly
  PROVE  Spec /\ []MapsLeft => []LossIsKill
<1>1. Init => LossIsKill
  <2>1. Init => lost = {} /\ kills = 0
    BY DEF Init
  <2> QED
    BY <2>1, FS_EmptySet DEF LossIsKill
<1>2. TypeInv /\ Order /\ AllPatient /\ MapsLeft /\ LossIsKill /\ [Next]_vars
        => LossIsKill'
  BY LossStep
<1>3. Spec => []AllPatient
  BY AlwaysPatient DEF Orderly
<1> QED
  BY <1>1, <1>2, <1>3, AlwaysOrder, TypeCorrect, PTL DEF Spec

\* Unless the process was killed, a half-written response or a temporary file is
\* the one of the command whose answer is being written.
Tidy ==
  kills = 0 =>
    /\ \A n \in tmp : n = taken /\ pc \in {"copy", "fill"}
    /\ \A n \in Names : ret[n] = NoFile \/ ret[n].whole \/ (n = taken /\ pc = "fill")

LEMMA TidyStep ==
  ASSUME TypeInv, Orderly, Order, AllPatient, MapsLeft, [Next]_vars, Tidy
  PROVE  Tidy'
<1>0. ret \in [Names -> Files] /\ tmp \subseteq Names /\ kills \in Nat
  BY SpoolerAssumption DEF TypeInv, TypeOK
<1>1. CASE /\ UNCHANGED <<tmp, ret, kills>>
           /\ pc \notin {"copy", "fill"} \/ UNCHANGED <<pc, taken>>
  BY <1>1 DEF Tidy
<1>2. CASE \/ EnterRun \/ KeepRunning \/ EnterSelect \/ SelectTimeout \/ CheckRunning
           \/ Start \/ UNCHANGED vars
           \/ ReadPacket /\ dir[taken] # NoFile
           \/ TakeName \/ SelectReady \/ ScanDirectory \/ Callback
           \/ Sigterm /\ pc' # "down"
           \/ Stop \/ Unlink \/ \E n \in Names : Submit(n)
  <2>1. Unlink => dir[taken] # NoFile
    BY UnlinkOrder DEF Order
  <2>2. UNCHANGED <<tmp, ret, kills>>
    BY <1>2, <2>1 DEF EnterRun, KeepRunning, EnterSelect, SelectTimeout, CheckRunning,
       Start, vars, ReadPacket, TakeName, SelectReady, ScanDirectory, Callback,
       Sigterm, Stop, Leave, Unlink, Submit, procUnchanged, clientUnchanged,
       boundVars, fileVars
  <2>3. pc \notin {"copy", "fill"} \/ UNCHANGED <<pc, taken>>
    BY <1>2 DEF EnterRun, KeepRunning, EnterSelect, SelectTimeout, CheckRunning,
       Start, vars, ReadPacket, TakeName, SelectReady, ScanDirectory, Callback,
       Sigterm, Stop, Leave, Unlink, Submit, clientUnchanged
  <2> QED
    BY <1>1, <2>2, <2>3
<1>3. CASE Kill
  <2>1. kills' # 0
    BY <1>0, <1>3 DEF Kill
  <2> QED
    BY <2>1 DEF Tidy
<1>4. CASE WriteTemp \/ CreateLock
  BY <1>4 DEF WriteTemp, CreateLock, Tidy, procUnchanged, boundVars
<1>5. CASE OpenResponse
  <2>1. /\ pc = "copy" /\ pc' = "fill" /\ UNCHANGED <<tmp, taken, kills>>
        /\ ret' = [ret EXCEPT ![taken] = [req |-> pkt.req, whole |-> FALSE]]
    BY <1>5 DEF OpenResponse, procUnchanged, boundVars, Orderly
  <2>2. \A n \in Names : n # taken => ret'[n] = ret[n]
    BY <1>0, <2>1
  <2> QED
    BY <2>1, <2>2 DEF Tidy
<1>6. CASE FillResponse
  <2>1. /\ pc = "fill" /\ pc' = "lock" /\ UNCHANGED <<taken, kills>>
        /\ tmp' = tmp \ {taken} /\ ret' = Filled
    BY <1>6 DEF FillResponse, boundVars, Orderly, Order, Steady
  <2>2. taken \in Names
    BY <2>1 DEF TypeInv, Control, Consumed
  <2>3. ret[taken].req = pkt.req
    <3>1. Patient(taken)
      BY <2>2 DEF AllPatient, Orderly
    <3> QED
      BY <2>1, <3>1 DEF Patient, WorksOn, Consumed
  <2>4. ret'[taken].whole
    <3>1. ret'[taken] = [ret[taken] EXCEPT !.whole = @ \/ ret[taken].req = pkt.req]
      BY <1>0, <2>1, <2>2 DEF Filled
    <3>2. ret[taken] \in [req : 0..MaxRequests, whole : BOOLEAN]
      BY <1>0, <2>2 DEF Files
    <3> QED
      BY <2>3, <3>1, <3>2
  <2>5. \A n \in Names : n # taken => ret'[n] = ret[n]
    BY <1>0, <2>1 DEF Filled
  <2> QED
    BY <2>1, <2>4, <2>5 DEF Tidy
<1>7. CASE \E n \in Names : Collect(n)
  <2>1. PICK n \in Names : Collect(n)
    BY <1>7
  <2>2. /\ UNCHANGED <<tmp, kills, pc, taken>>
        /\ ret' = [ret EXCEPT ![n] = NoFile]
    BY <2>1 DEF Collect, clientUnchanged, boundVars
  <2>3. ret'[n] = NoFile /\ \A m \in Names : m # n => ret'[m] = ret[m]
    BY <1>0, <2>2
  <2> QED
    BY <2>2, <2>3 DEF Tidy
<1> QED
  BY <1>2, <1>3, <1>4, <1>5, <1>6, <1>7, OrderlyCases, Zenon

\* A process nobody killed leaves no temporary file and no half-written response
\* between two commands, or when it ends: a signal cuts no answer short.
THEOREM NothingCutShort ==
  ASSUME Orderly
  PROVE  Spec /\ []MapsLeft => []NothingHalfWritten
<1>1. Init => Tidy
  BY DEF Init, Tidy
<1>2. TypeInv /\ Order /\ AllPatient /\ MapsLeft /\ Tidy /\ [Next]_vars => Tidy'
  BY TidyStep
<1>3. Tidy => NothingHalfWritten
  BY DEF Tidy, NothingHalfWritten
<1>4. Spec => []AllPatient
  BY AlwaysPatient DEF Orderly
<1> QED
  BY <1>1, <1>2, <1>3, <1>4, AlwaysOrder, TypeCorrect, PTL DEF Spec
=============================================================================
