---------------------------- MODULE LedgerProofs ----------------------------
(***************************************************************************)
(* Where each request is, and how often the printer saw it: at most once,  *)
(* for any number of clients and requests, whatever is killed, resent or   *)
(* written in place, and hence that the spooler implements the gateway.    *)
(***************************************************************************)
EXTENDS SpoolerProofs

\* No two files hold the same request, and the request being worked on is at
\* most in the file it was read from.
Placed ==
  /\ \A m, n \in Names : dir[m].req = dir[n].req /\ dir[m].req # 0 => m = n
  /\ pc = "unlink" => \A n \in Names : dir[n].req = pkt.req => n = taken
  /\ pc \in Consumed => \A n \in Names : dir[n].req # pkt.req

\* The printer has not seen a request that waits, is about to be carried out,
\* or does not exist yet.
Unseen ==
  /\ \A r \in Requests : r \in Pending \/ r > sent => executed[r] = 0
  /\ pc \in {"unlink", "callback"} => executed[pkt.req] = 0

Ledger == Placed /\ Accounted /\ AtMostOnce /\ Unseen

-----------------------------------------------------------------------------
\* What a step does to the requests on disk, told by what it does to a file.
LEMMA OnDiskUnchanged ==
  ASSUME \A n \in Names : dir'[n].req = dir[n].req
  PROVE  OnDisk' = OnDisk
BY DEF OnDisk

LEMMA OnDiskUpdate ==
  ASSUME TypeInv, Placed, NEW n \in Names, NEW f \in Files,
         dir' = [dir EXCEPT ![n] = f]
  PROVE  OnDisk' = (OnDisk \ {dir[n].req}) \cup ({f.req} \ {0})
<1>1. dir \in [Names -> Files]
  BY DEF TypeInv, TypeOK, QueueTypeOK
<1>2. dir'[n] = f /\ \A m \in Names \ {n} : dir'[m] = dir[m]
  BY <1>1
<1>3. \A m \in Names \ {n} : dir[m].req # 0 => dir[m].req # dir[n].req
  BY DEF Placed
<1>4. ASSUME NEW r \in OnDisk'
      PROVE  r \in (OnDisk \ {dir[n].req}) \cup ({f.req} \ {0})
  <2>1. PICK m \in Names : dir'[m].req = r /\ r # 0
    BY <1>4 DEF OnDisk
  <2>2. CASE m = n
    BY <1>2, <2>1, <2>2
  <2>3. CASE m # n
    BY <1>2, <1>3, <2>1, <2>3 DEF OnDisk
  <2> QED
    BY <2>2, <2>3
<1>5. ASSUME NEW r \in OnDisk \ {dir[n].req}
      PROVE  r \in OnDisk'
  <2>1. PICK m \in Names : dir[m].req = r /\ r # 0
    BY <1>5 DEF OnDisk
  <2>2. dir'[m].req = r
    BY <1>2, <1>5, <2>1
  <2> QED
    BY <2>1, <2>2 DEF OnDisk
<1>6. f.req # 0 => f.req \in OnDisk'
  BY <1>2 DEF OnDisk
<1> QED
  BY <1>4, <1>5, <1>6

-----------------------------------------------------------------------------
\* The steps that move no request: the scan, the flag, the response files.
Still ==
  /\ \A n \in Names : dir'[n].req = dir[n].req
  /\ UNCHANGED <<executed, answered, lost, sent>>
  /\ \/ pc \notin Consumed \cup {"unlink"} /\ pc' \notin Consumed \cup {"unlink"}
     \/ /\ pc \in Consumed \ {"callback"} /\ pc' \in Consumed \ {"callback"}
        /\ pkt' = pkt
     \/ pc' = pc /\ pkt' = pkt /\ taken' = taken

LEMMA StillSteps ==
  ASSUME TypeInv,
         \/ EnterRun \/ KeepRunning \/ ScanDirectory \/ EnterSelect
         \/ SelectReady \/ SelectTimeout \/ TakeName \/ CheckRunning
         \/ WriteTemp \/ OpenResponse
         \/ FillResponse /\ taken \in tmp
         \/ Start
         \/ \E n \in Names : DirectClose(n) \/ Collect(n)
         \/ UNCHANGED vars
  PROVE  Still
<1>1. CASE EnterRun \/ KeepRunning \/ SelectTimeout \/ CheckRunning \/ Start
  BY <1>1 DEF EnterRun, KeepRunning, SelectTimeout, CheckRunning, Start, Still,
     Consumed, queueVars, procUnchanged, clientVars
<1>2. CASE ScanDirectory \/ EnterSelect \/ SelectReady \/ TakeName
  BY <1>2 DEF ScanDirectory, EnterSelect, SelectReady, TakeName,
     DirectoryScan, StartMonitoring, ReadEvents, PopFront, Still,
     Consumed, procUnchanged, clientVars
<1>3. CASE WriteTemp \/ OpenResponse
  BY <1>3 DEF WriteTemp, OpenResponse, Still, Consumed, queueVars,
     procUnchanged, clientVars
<1>4. CASE FillResponse /\ taken \in tmp
  BY <1>4 DEF FillResponse, Still, Consumed, queueVars, clientVars
<1>5. CASE \E n \in Names : Collect(n)
  BY <1>5 DEF Collect, Still, clientUnchanged
<1>6. ASSUME NEW n \in Names, DirectClose(n)
      PROVE  Still
  <2> DEFINE closed == [dir[n] EXCEPT !.whole = TRUE]
  <2>1. dir \in [Names -> Files]
    BY DEF TypeInv, TypeOK, QueueTypeOK
  <2>2. closed.req = dir[n].req
    BY <2>1 DEF Files
  <2>3. dir' = dir \/ dir' = [dir EXCEPT ![n] = closed]
    BY <1>6 DEF DirectClose
  <2> HIDE DEF closed
  <2>4. \A m \in Names : dir'[m].req = dir[m].req
    BY <2>1, <2>2, <2>3
  <2> QED
    BY <1>6, <2>4 DEF DirectClose, Still, clientUnchanged
<1>7. CASE UNCHANGED vars
  BY <1>7 DEF vars, Still, queueVars, clientVars
<1> QED
  BY <1>1, <1>2, <1>3, <1>4, <1>5, <1>6, <1>7

LEMMA StillEffect ==
  ASSUME TypeInv, Still
  PROVE  /\ OnDisk' = OnDisk /\ InProcess' = InProcess
         /\ Pending' = Pending
<1>1. OnDisk' = OnDisk
  BY OnDiskUnchanged DEF Still
<1>2. InProcess' = InProcess
  BY DEF Still, InProcess, Consumed
<1> QED
  BY <1>1, <1>2 DEF Pending

LEMMA StillLedger ==
  ASSUME TypeInv, Ledger, Still
  PROVE  Ledger'
<1>1. /\ OnDisk' = OnDisk /\ InProcess' = InProcess
      /\ Pending' = Pending
  BY StillEffect
<1>2. Placed'
  BY DEF Ledger, Placed, Still, Consumed
<1>3. Accounted'
  BY <1>1 DEF Ledger, Accounted, Still
<1>4. AtMostOnce' /\ Unseen'
  BY <1>1 DEF Ledger, AtMostOnce, Unseen, Still, Consumed
<1> QED
  BY <1>2, <1>3, <1>4 DEF Ledger

-----------------------------------------------------------------------------
\* The process ends.  A request whose file is still there waits again; one
\* whose file is gone is lost.
LEMMA LeaveEffect ==
  ASSUME TypeInv, NEW how, Leave(how)
  PROVE  /\ OnDisk' = OnDisk /\ InProcess' = {} /\ Pending' = OnDisk
         /\ lost' = lost \cup (InProcess \ OnDisk)
         /\ UNCHANGED <<executed, answered, sent>>
<1>1. OnDisk' = OnDisk
  BY OnDiskUnchanged DEF Leave
<1>2. InProcess' = {}
  BY DEF Leave, InProcess, Consumed
<1>3. Pending' = OnDisk
  BY <1>1, <1>2 DEF Pending
<1> QED
  BY <1>1, <1>2, <1>3 DEF Leave, clientVars

LEMMA LeaveLedger ==
  ASSUME TypeInv, Ledger, NEW how, Leave(how)
  PROVE  Ledger'
<1>1. /\ OnDisk' = OnDisk /\ InProcess' = {} /\ Pending' = OnDisk
      /\ lost' = lost \cup (InProcess \ OnDisk)
      /\ UNCHANGED <<executed, answered, sent>>
  BY LeaveEffect
<1>2. Placed'
  BY DEF Ledger, Placed, Leave, Consumed
<1>3. Accounted'
  BY <1>1 DEF Ledger, Accounted, Pending
<1>4. ASSUME NEW r \in OnDisk, r \in Requests
      PROVE  executed[r] = 0
  <2>1. CASE r \in Pending
    BY <1>4, <2>1 DEF Ledger, Unseen
  <2>2. CASE r \in InProcess
    <3>1. pc = "unlink" /\ r = pkt.req
      BY <1>4, <2>2 DEF InProcess, Ledger, Placed, OnDisk
    <3> QED
      BY <3>1 DEF Ledger, Unseen
  <2> QED
    BY <1>4, <2>1, <2>2 DEF Pending
<1>5. AtMostOnce' /\ Unseen'
  BY <1>1, <1>4 DEF Ledger, AtMostOnce, Unseen, Leave
<1> QED
  BY <1>2, <1>3, <1>5 DEF Ledger

-----------------------------------------------------------------------------
\* A client puts a new request in a file, or empties it: what waited in the
\* file before is lost, unless the process has already read it.
Replace(n, f) ==
  /\ dir' = [dir EXCEPT ![n] = f]
  /\ Displace(n)
  /\ UNCHANGED <<pc, pkt, taken, executed, answered>>
  /\ \/ f.req = sent + 1 /\ sent' = sent + 1
     \/ f.req = 0 /\ sent' = sent

LEMMA ReplaceSteps ==
  ASSUME TypeInv, NEW n \in Names, Submit(n) \/ DirectOpen(n) \/ GiveUp(n)
  PROVE  Still \/ \E f \in Files : Replace(n, f)
<1>1. sent \in 0..MaxRequests
  BY DEF TypeInv, TypeOK
<1>2. CASE Submit(n)
  <2>1. [req |-> sent + 1, whole |-> TRUE] \in Files
    BY <1>1, <1>2, QueueAssumption DEF Submit, Files
  <2> QED
    BY <1>2, <2>1 DEF Submit, Replace, clientUnchanged
<1>3. CASE DirectOpen(n)
  <2>1. [req |-> sent + 1, whole |-> FALSE] \in Files
    BY <1>1, <1>3, QueueAssumption DEF DirectOpen, Files
  <2> QED
    BY <1>3, <2>1 DEF DirectOpen, Replace, clientUnchanged
<1>4. CASE GiveUp(n)
  <2>1. NoFile \in Files /\ NoFile.req = 0
    BY QueueAssumption DEF NoFile, Files
  <2> QED
    BY <1>4, <2>1 DEF GiveUp, Replace, Still, clientUnchanged
<1> QED
  BY <1>2, <1>3, <1>4

LEMMA ReplaceEffect ==
  ASSUME TypeInv, Ledger, NEW n \in Names, NEW f \in Files, Replace(n, f)
  PROVE  /\ InProcess' = InProcess
         /\ Pending' = (Pending \ {dir[n].req}) \cup ({f.req} \ {0})
         /\ lost' = lost \cup ({dir[n].req} \cap Pending)
<1>1. OnDisk' = (OnDisk \ {dir[n].req}) \cup ({f.req} \ {0})
  BY OnDiskUpdate DEF Ledger, Replace
<1>2. InProcess' = InProcess
  BY DEF InProcess, Replace
<1>3. sent + 1 \notin InProcess
  BY DEF Ledger, Accounted, TypeInv, TypeOK
<1>4. f.req \notin InProcess \/ f.req = 0
  BY <1>3 DEF Replace
<1> QED
  BY <1>1, <1>2, <1>4 DEF Pending, Replace, Displace

LEMMA ReplaceLedger ==
  ASSUME TypeInv, Ledger, NEW n \in Names, NEW f \in Files, Replace(n, f)
  PROVE  Ledger'
<1>1. /\ InProcess' = InProcess
      /\ Pending' = (Pending \ {dir[n].req}) \cup ({f.req} \ {0})
      /\ lost' = lost \cup ({dir[n].req} \cap Pending)
  BY ReplaceEffect
<1>2. sent \in Nat
  BY DEF TypeInv, TypeOK
<1>3. dir \in [Names -> Files] /\ dir' = [dir EXCEPT ![n] = f]
  BY DEF TypeInv, TypeOK, QueueTypeOK, Replace
<1>4. Pending \cup InProcess \subseteq 1..sent
  BY DEF Ledger, Accounted
<1>5. \A m \in Names : dir[m].req # sent + 1
  <2>1. \A m \in Names : dir[m].req # 0 => dir[m].req \in 1..sent
    BY <1>4 DEF OnDisk, Pending
  <2> QED
    BY <1>2, <2>1
<1>6. pc \in Consumed \cup {"unlink"} => pkt.req \in 1..sent
  BY <1>4 DEF InProcess
<1>7. Placed'
  <2>1. \A m \in Names : dir'[m] = IF m = n THEN f ELSE dir[m]
    BY <1>3
  <2>2. f.req = 0 \/ f.req = sent + 1
    BY DEF Replace
  <2>3. \A l, m \in Names : dir'[l].req = dir'[m].req /\ dir'[l].req # 0 => l = m
    BY <1>5, <2>1, <2>2 DEF Ledger, Placed
  <2>4. pc \in Consumed \cup {"unlink"} => f.req # pkt.req
    BY <1>2, <1>6, <2>2
  <2> QED
    BY <2>1, <2>3, <2>4 DEF Ledger, Placed, Replace
<1>8. Accounted'
  <2> DEFINE old == {dir[n].req}
             new == {f.req} \ {0}
  <2>1. /\ Pending' = (Pending \ old) \cup new
        /\ lost' = lost \cup (old \cap Pending)
        /\ InProcess' = InProcess /\ answered' = answered
    BY <1>1 DEF Replace
  <2>2. 1..sent' = 1..sent \cup new /\ new \cap 1..sent = {}
    BY <1>2 DEF Replace
  <2> HIDE DEF old, new
  <2>3. /\ Pending \cup InProcess \cup answered \cup lost = 1..sent
        /\ Pending \cap (answered \cup lost) = {}
        /\ InProcess \cap (answered \cup lost) = {}
        /\ answered \cap lost = {}
        /\ Pending \cap InProcess = {}
    BY DEF Ledger, Accounted, Pending
  <2>4. Pending' \cup InProcess' \cup answered' \cup lost' = 1..sent'
    BY <2>1, <2>2, <2>3
  <2>5. /\ Pending' \cap (answered' \cup lost') = {}
        /\ InProcess' \cap (answered' \cup lost') = {}
        /\ answered' \cap lost' = {}
    BY <2>1, <2>2, <2>3
  <2> QED
    BY <2>4, <2>5 DEF Accounted
<1>9. AtMostOnce' /\ Unseen'
  <2>1. \A r \in Requests : r \in Pending' \/ r > sent' => r \in Pending \/ r > sent
    BY <1>1, <1>2 DEF Replace, Requests
  <2> QED
    BY <2>1 DEF Ledger, AtMostOnce, Unseen, Replace
<1> QED
  BY <1>7, <1>8, <1>9 DEF Ledger

-----------------------------------------------------------------------------
(* The steps of the process that move a request, each told as the request  *)
(* it takes from one place and puts in another.                            *)

\* A command file is read: its request waited, and is now worked on.
ReadPacketRead == ReadPacket /\ dir[taken] # NoFile

LEMMA ReadPacketEffect ==
  ASSUME TypeInv, ReadPacketRead
  PROVE  /\ InProcess = {} /\ InProcess' = {pkt'.req}
         /\ OnDisk' = OnDisk
         /\ pkt'.req \in Pending /\ pkt'.req \in Requests
         /\ Pending' = Pending \ {pkt'.req}
         /\ UNCHANGED <<dir, executed, answered, lost, sent>>
         /\ pc' = "unlink" /\ taken' = taken /\ pkt' = dir[taken]
<1>1. /\ pc = "read" /\ pc' = "unlink" /\ taken' = taken
      /\ pkt' = dir[taken] /\ UNCHANGED <<dir, executed, answered, lost, sent>>
  BY DEF ReadPacketRead, ReadPacket, queueVars, procUnchanged, clientVars
<1>2. taken \in Names /\ dir[taken].req # 0
  BY <1>1 DEF TypeInv, Control, ReadPacketRead
<1>3. dir[taken].req \in OnDisk
  BY <1>2 DEF OnDisk
<1>4. InProcess = {} /\ InProcess' = {pkt'.req}
  BY <1>1 DEF InProcess, Consumed
<1>5. OnDisk' = OnDisk
  BY <1>1 DEF OnDisk
<1> QED
  BY <1>1, <1>3, <1>4, <1>5, PlacesAreRequests DEF Pending

LEMMA ReadPacketLedger ==
  ASSUME TypeInv, Ledger, ReadPacketRead
  PROVE  Ledger'
<1>1. /\ InProcess = {} /\ InProcess' = {pkt'.req}
      /\ pkt'.req \in Pending /\ pkt'.req \in Requests
      /\ Pending' = Pending \ {pkt'.req}
      /\ UNCHANGED <<dir, executed, answered, lost, sent>>
      /\ pc' = "unlink" /\ taken' = taken /\ pkt' = dir[taken]
  BY ReadPacketEffect
<1>2. taken \in Names /\ dir[taken].req # 0
  BY DEF TypeInv, Control, ReadPacketRead, ReadPacket
<1>3. Placed'
  BY <1>1, <1>2 DEF Ledger, Placed, Consumed
<1>4. Accounted'
  BY <1>1 DEF Ledger, Accounted
<1>5. AtMostOnce' /\ Unseen'
  BY <1>1 DEF Ledger, AtMostOnce, Unseen
<1> QED
  BY <1>3, <1>4, <1>5 DEF Ledger

\* The command file is removed: a request that replaced the one read is lost
\* with it, any other stays where it was.
UnlinkRemoves == Unlink /\ dir[taken] # NoFile

LEMMA UnlinkEffect ==
  ASSUME TypeInv, Ledger, UnlinkRemoves
  PROVE  /\ InProcess = {pkt.req} /\ InProcess' = {pkt.req}
         /\ dir[taken].req \in OnDisk
         /\ Pending' = Pending \ {dir[taken].req}
         /\ lost' = lost \cup ({dir[taken].req} \ {pkt.req})
         /\ dir' = [dir EXCEPT ![taken] = NoFile] /\ taken \in Names
         /\ UNCHANGED <<executed, answered, sent, pkt>>
         /\ pc = "unlink" /\ pc' = "callback"
<1>1. /\ pc = "unlink" /\ pc' = "callback"
      /\ dir' = [dir EXCEPT ![taken] = NoFile]
      /\ lost' = lost \cup ({dir[taken].req} \ {pkt.req})
      /\ UNCHANGED <<executed, answered, sent, pkt>>
  BY DEF UnlinkRemoves, Unlink, UnlinkCommand, clientVars
<1>2. taken \in Names /\ dir[taken].req # 0
  BY <1>1 DEF TypeInv, Control, UnlinkRemoves
<1>3. dir[taken].req \in OnDisk
  BY <1>2 DEF OnDisk
<1>4. NoFile \in Files /\ NoFile.req = 0
  BY QueueAssumption DEF NoFile, Files
<1>5. OnDisk' = OnDisk \ {dir[taken].req}
  BY <1>1, <1>2, <1>4, OnDiskUpdate DEF Ledger
<1>6. InProcess = {pkt.req} /\ InProcess' = {pkt.req}
  BY <1>1 DEF InProcess, Consumed
<1> QED
  BY <1>1, <1>2, <1>3, <1>5, <1>6 DEF Pending

LEMMA UnlinkLedger ==
  ASSUME TypeInv, Ledger, UnlinkRemoves
  PROVE  Ledger'
<1>1. /\ InProcess = {pkt.req} /\ InProcess' = {pkt.req}
      /\ dir[taken].req \in OnDisk
      /\ Pending' = Pending \ {dir[taken].req}
      /\ lost' = lost \cup ({dir[taken].req} \ {pkt.req})
      /\ dir' = [dir EXCEPT ![taken] = NoFile] /\ taken \in Names
      /\ UNCHANGED <<executed, answered, sent, pkt>>
      /\ pc = "unlink" /\ pc' = "callback"
  BY UnlinkEffect
<1>2. dir \in [Names -> Files]
  BY DEF TypeInv, TypeOK, QueueTypeOK
<1>3. pkt.req \in Requests
  BY <1>1 DEF TypeInv, Control
<1>4. Placed'
  <2>1. \A n \in Names : dir'[n].req = IF n = taken THEN 0 ELSE dir[n].req
    BY <1>1, <1>2 DEF NoFile
  <2>2. pkt.req # 0
    BY <1>3 DEF Requests
  <2> QED
    BY <1>1, <2>1, <2>2 DEF Ledger, Placed, Consumed
<1>5. Accounted'
  BY <1>1 DEF Ledger, Accounted, Pending
<1>6. AtMostOnce' /\ Unseen'
  BY <1>1 DEF Ledger, AtMostOnce, Unseen
<1> QED
  BY <1>4, <1>5, <1>6 DEF Ledger

\* The printer sees a request that it had not seen.
LEMMA CallbackEffect ==
  ASSUME TypeInv, Ledger, Callback
  PROVE  /\ OnDisk' = OnDisk /\ InProcess = {pkt.req} /\ InProcess' = {pkt.req}
         /\ Pending' = Pending /\ pkt.req \in Requests
         /\ executed[pkt.req] = 0
         /\ executed' = [executed EXCEPT ![pkt.req] = 1] \/ executed' = executed
         /\ UNCHANGED <<dir, answered, lost, sent, pkt>>
         /\ pc = "callback" /\ pc' = "tmp"
<1>1. /\ pc = "callback" /\ pc' = "tmp"
      /\ UNCHANGED <<dir, answered, lost, sent, pkt>>
  BY DEF Callback, queueVars, clientVars
<1>2. pkt.req \in Requests
  BY <1>1 DEF TypeInv, Control, Consumed
<1>3. executed[pkt.req] = 0
  BY <1>1 DEF Ledger, Unseen
<1>4. InProcess = {pkt.req} /\ InProcess' = {pkt.req} /\ OnDisk' = OnDisk
  BY <1>1 DEF InProcess, Consumed, OnDisk
<1>5. executed' = [executed EXCEPT ![pkt.req] = 1] \/ executed' = executed
  BY <1>2, <1>3 DEF Callback
<1> QED
  BY <1>1, <1>2, <1>3, <1>4, <1>5 DEF Pending

LEMMA CallbackLedger ==
  ASSUME TypeInv, Ledger, Callback
  PROVE  Ledger'
<1>1. /\ InProcess = {pkt.req} /\ InProcess' = {pkt.req}
      /\ Pending' = Pending /\ pkt.req \in Requests
      /\ executed' = [executed EXCEPT ![pkt.req] = 1] \/ executed' = executed
      /\ UNCHANGED <<dir, answered, lost, sent, pkt>>
      /\ pc = "callback" /\ pc' = "tmp"
  BY CallbackEffect
<1>2. executed \in [Requests -> Nat]
  BY DEF TypeInv, TypeOK
<1>3. sent \in Nat /\ pkt.req \in 1..sent /\ pkt.req \notin Pending
  BY <1>1 DEF Ledger, Accounted, Pending, TypeInv, TypeOK
<1>4. Placed'
  BY <1>1 DEF Ledger, Placed, Consumed
<1>5. Accounted'
  BY <1>1 DEF Ledger, Accounted
<1>6. \A r \in Requests : \/ executed'[r] = executed[r]
                          \/ r = pkt.req /\ executed'[r] = 1
  <2>1. CASE executed' = executed
    BY <2>1
  <2>2. CASE executed' = [executed EXCEPT ![pkt.req] = 1]
    BY <1>2, <2>2
  <2> QED
    BY <1>1, <2>1, <2>2
<1>7. AtMostOnce'
  BY <1>6 DEF Ledger, AtMostOnce
<1>8. Unseen'
  BY <1>1, <1>3, <1>6 DEF Ledger, Unseen
<1> QED
  BY <1>4, <1>5, <1>7, <1>8 DEF Ledger

\* The request is done with: answered, or lost because its response or its
\* lock could not be written.
Abandon == FillResponse /\ taken \notin tmp

LEMMA DoneEffect ==
  ASSUME TypeInv, Ledger, CreateLock \/ Abandon
  PROVE  /\ OnDisk' = OnDisk /\ Pending' = Pending
         /\ InProcess = {pkt.req} /\ InProcess' = {} /\ pkt.req \in Requests
         /\ \/ answered' = answered \cup {pkt.req} /\ lost' = lost
            \/ lost' = lost \cup {pkt.req} /\ answered' = answered
         /\ UNCHANGED <<dir, executed, sent>>
         /\ pc' \notin Consumed \cup {"unlink"}
<1>1. /\ pc \in {"lock", "fill"} /\ pc' \in {"enter", "abort"}
      /\ UNCHANGED <<dir, executed, sent>>
      /\ \/ answered' = answered \cup {pkt.req} /\ lost' = lost
         \/ lost' = lost \cup {pkt.req} /\ answered' = answered
  BY DEF CreateLock, Abandon, FillResponse, queueVars, clientVars
<1>2. pkt.req \in Requests /\ pkt.req \notin OnDisk
  BY <1>1 DEF TypeInv, Control, Consumed, Ledger, Placed, OnDisk
<1>3. OnDisk' = OnDisk
  BY <1>1 DEF OnDisk
<1>4. InProcess = {pkt.req} /\ InProcess' = {}
  BY <1>1 DEF InProcess, Consumed
<1> QED
  BY <1>1, <1>2, <1>3, <1>4 DEF Pending, Consumed

LEMMA DoneLedger ==
  ASSUME TypeInv, Ledger, CreateLock \/ Abandon
  PROVE  Ledger'
<1>1. /\ OnDisk' = OnDisk /\ Pending' = Pending
      /\ InProcess = {pkt.req} /\ InProcess' = {} /\ pkt.req \in Requests
      /\ \/ answered' = answered \cup {pkt.req} /\ lost' = lost
         \/ lost' = lost \cup {pkt.req} /\ answered' = answered
      /\ UNCHANGED <<dir, executed, sent>>
      /\ pc' \notin Consumed \cup {"unlink"}
  BY DoneEffect
<1>2. Placed'
  BY <1>1 DEF Ledger, Placed
<1>3. Accounted'
  BY <1>1 DEF Ledger, Accounted, Pending
<1>4. AtMostOnce' /\ Unseen'
  BY <1>1 DEF Ledger, AtMostOnce, Unseen, Consumed
<1> QED
  BY <1>2, <1>3, <1>4 DEF Ledger

-----------------------------------------------------------------------------
\* Every step of the system is one of these, whatever else it does.
LEMMA StepCases ==
  ASSUME TypeInv, [Next]_vars
  PROVE  \/ Still
         \/ \E how \in {"stopped", "died", "killed"} : Leave(how)
         \/ \E n \in Names, f \in Files : Replace(n, f)
         \/ ReadPacketRead \/ UnlinkRemoves \/ Callback
         \/ CreateLock \/ Abandon
<1>1. CASE \/ EnterRun \/ KeepRunning \/ ScanDirectory \/ EnterSelect
           \/ SelectReady \/ SelectTimeout \/ TakeName \/ CheckRunning
           \/ WriteTemp \/ OpenResponse
           \/ FillResponse /\ taken \in tmp
           \/ Start
           \/ \E n \in Names : DirectClose(n) \/ Collect(n)
           \/ UNCHANGED vars
  BY <1>1, StillSteps
<1>2. CASE Stop \/ Abort \/ FlagUnreachable \/ Kill \/ CallbackThrows
  BY <1>2 DEF Stop, Abort, FlagUnreachable, Kill, CallbackThrows
<1>3. CASE Sigterm
  BY <1>3 DEF Sigterm, Still, queueVars, clientVars, Consumed
<1>4. CASE ReadPacket \/ Unlink
  BY <1>4 DEF ReadPacket, Unlink, ReadPacketRead, UnlinkRemoves, UnlinkCommand
<1>5. CASE FillResponse /\ taken \notin tmp
  BY <1>5 DEF Abandon
<1>6. CASE \E n \in Names : Submit(n) \/ DirectOpen(n) \/ GiveUp(n)
  BY <1>6, ReplaceSteps
<1> QED
  BY <1>1, <1>2, <1>3, <1>4, <1>5, <1>6
     DEF Next, ProcessStep, ClientStep

LEMMA LedgerInit == Init => Ledger
<1> SUFFICES ASSUME Init PROVE Ledger
  OBVIOUS
<1>1. \A n \in Names : dir[n].req = 0
  BY DEF Init, QueueInit, NoFile
<1>2. OnDisk = {} /\ InProcess = {} /\ Pending = {}
  BY <1>1 DEF OnDisk, InProcess, Pending, Consumed, Init
<1>3. Placed
  BY <1>1 DEF Placed, Init, Consumed
<1>4. Accounted
  BY <1>2 DEF Accounted, Init
<1>5. AtMostOnce /\ Unseen
  BY <1>2 DEF AtMostOnce, Unseen, Init
<1> QED
  BY <1>3, <1>4, <1>5 DEF Ledger

LEMMA LedgerStep == TypeInv /\ Ledger /\ [Next]_vars => Ledger'
<1> SUFFICES ASSUME TypeInv, Ledger, [Next]_vars PROVE Ledger'
  OBVIOUS
<1>1. CASE Still
  BY <1>1, StillLedger
<1>2. CASE \E how \in {"stopped", "died", "killed"} : Leave(how)
  BY <1>2, LeaveLedger
<1>3. CASE \E n \in Names, f \in Files : Replace(n, f)
  BY <1>3, ReplaceLedger
<1>4. CASE ReadPacketRead \/ UnlinkRemoves \/ Callback
  BY <1>4, ReadPacketLedger, UnlinkLedger, CallbackLedger
<1>5. CASE CreateLock \/ Abandon
  BY <1>5, DoneLedger
<1> QED
  BY <1>1, <1>2, <1>3, <1>4, <1>5, StepCases

THEOREM LedgerCorrect == Spec => []Ledger
<1>1. TypeInv /\ Ledger /\ [Next]_vars => Ledger'
  BY LedgerStep
<1> QED
  BY <1>1, LedgerInit, TypeCorrect, PTL DEF Spec

\* No request reaches the printer twice (accept removes the command file
\* before callback carries it out).
THEOREM PrintedAtMostOnce == Spec => []AtMostOnce
<1>1. Ledger => AtMostOnce
  BY DEF Ledger
<1> QED
  BY <1>1, LedgerCorrect, PTL

\* Every request submitted is in exactly one place.
THEOREM AlwaysAccounted == Spec => []Accounted
<1>1. Ledger => Accounted
  BY DEF Ledger
<1> QED
  BY <1>1, LedgerCorrect, PTL

-----------------------------------------------------------------------------
(* The spooler implements the gateway: every step of the process, of a      *)
(* client, of a kill or a restart is one step on one request, or none.      *)

\* What the gateway sees of a step that moves no request.
LEMMA Stutter ==
  ASSUME UNCHANGED <<Pending, InProcess, executed, answered, lost>>,
         InProcess = {} \/ pkt' = pkt
  PROVE  UNCHANGED G!vars
<1>1. Current' = Current /\ Carried' = Carried
  BY DEF Current, Carried
<1> QED
  BY <1>1 DEF G!vars

LEMMA GatewayInit == Init => G!Init
<1> SUFFICES ASSUME Init PROVE G!Init
  OBVIOUS
<1>1. InProcess = {} /\ Current = 0
  BY DEF Init, InProcess, Consumed, Current
<1>2. Pending = {}
  BY DEF Init, QueueInit, NoFile, OnDisk, Pending
<1>3. Carried = {}
  BY DEF Init, Carried
<1> QED
  BY <1>1, <1>2, <1>3 DEF Init, G!Init, G!None

-----------------------------------------------------------------------------
\* The end of the process releases the request it works on if its file is
\* still there, and loses it otherwise.
LEMMA LeaveStep ==
  ASSUME TypeInv, Ledger, NEW how, Leave(how)
  PROVE  G!Next \/ UNCHANGED G!vars
<1>1. /\ OnDisk' = OnDisk /\ InProcess' = {} /\ Pending' = OnDisk
      /\ lost' = lost \cup (InProcess \ OnDisk)
      /\ UNCHANGED <<executed, answered>>
  BY LeaveEffect
<1>2. Current' = 0 /\ Carried' = Carried
  BY <1>1 DEF Current, Carried
<1>3. CASE InProcess = {}
  BY <1>1, <1>3, Stutter DEF Pending
<1>4. ASSUME InProcess # {}
      PROVE  G!Next
  <2>1. /\ pc \in Consumed \cup {"unlink"} /\ InProcess = {pkt.req}
        /\ pkt.req \in Requests /\ Current = pkt.req
    BY <1>4, PlacesAreRequests DEF InProcess, Current
  <2>2. Current # 0
    BY <2>1 DEF Requests
  <2>3. CASE pkt.req \in OnDisk
    <3>1. pc = "unlink"
      BY <2>1, <2>3 DEF Ledger, Placed, OnDisk
    <3>2. Current \notin Carried
      BY <2>1, <3>1 DEF Ledger, Unseen, Carried
    <3>3. Pending' = Pending \cup {Current} /\ lost' = lost
      BY <1>1, <2>1, <2>3 DEF Pending
    <3> QED
      BY <1>1, <1>2, <2>2, <3>2, <3>3 DEF G!Next, G!Release, G!None
  <2>4. CASE pkt.req \notin OnDisk
    <3>1. Pending' = Pending /\ lost' = lost \cup {Current}
      BY <1>1, <2>1, <2>4 DEF Pending
    <3> QED
      BY <1>1, <1>2, <2>2, <3>1 DEF G!Next, G!Lose, G!None
  <2> QED
    BY <2>3, <2>4
<1> QED
  BY <1>3, <1>4

\* A client submits a request, which replaces the one that waits in the same
\* file, or withdraws the one that waits.
LEMMA ReplaceStep ==
  ASSUME TypeInv, Ledger, TypeInv', Ledger',
         NEW n \in Names, NEW f \in Files, Replace(n, f)
  PROVE  G!Next \/ UNCHANGED G!vars
<1>1. /\ InProcess' = InProcess
      /\ Pending' = (Pending \ {dir[n].req}) \cup ({f.req} \ {0})
      /\ lost' = lost \cup ({dir[n].req} \cap Pending)
  BY ReplaceEffect
<1>2. /\ UNCHANGED <<executed, answered, pkt>>
      /\ Current' = Current /\ Carried' = Carried
  BY <1>1 DEF Replace, Current, Carried
<1>3. CASE f.req = 0 /\ dir[n].req \notin Pending
  <2>1. Pending' = Pending /\ lost' = lost
    BY <1>1, <1>3
  <2> QED
    BY <1>1, <1>2, <2>1, Stutter
<1>4. CASE f.req = 0 /\ dir[n].req \in Pending
  <2>1. dir[n].req \in Requests
    BY <1>4, PlacesAreRequests DEF Pending
  <2>2. Pending' = Pending \ {dir[n].req} /\ lost' = lost \cup {dir[n].req}
    BY <1>1, <1>4
  <2>3. G!Discard(dir[n].req)
    BY <1>2, <1>4, <2>2 DEF G!Discard
  <2> QED
    BY <2>1, <2>3 DEF G!Next, G!Requests, Requests
<1>5. ASSUME f.req # 0
      PROVE  G!Next
  <2>1. f.req = sent + 1 /\ sent' = sent + 1 /\ sent \in Nat
    BY <1>5 DEF Replace, TypeInv, TypeOK
  <2>2. f.req \in Requests
    BY <2>1, QueueAssumption DEF TypeInv, TypeOK, Requests
  <2>3. f.req \notin 1..sent
    BY <2>1
  <2>4. InProcess = {} \/ InProcess = {Current}
    BY DEF InProcess, Current
  <2>5. f.req \notin G!Known
    <3>1. f.req \notin Pending \cup InProcess \cup answered \cup lost
      BY <2>3 DEF Ledger, Accounted
    <3>2. f.req # Current \/ Current = 0
      BY <2>4, <3>1 DEF Current
    <3> QED
      BY <3>1, <3>2 DEF G!Known, G!None
  <2>6. CASE dir[n].req \in Pending
    <3>1. /\ Pending' = (Pending \ {dir[n].req}) \cup {f.req}
          /\ lost' = lost \cup {dir[n].req}
      BY <1>1, <1>5, <2>6
    <3>2. G!Submit(f.req, {dir[n].req})
      BY <1>2, <2>5, <3>1 DEF G!Submit
    <3> QED
      BY <2>2, <2>6, <3>2 DEF G!Next, G!Requests, Requests
  <2>7. CASE dir[n].req \notin Pending
    <3>1. Pending' = (Pending \ {}) \cup {f.req} /\ lost' = lost \cup {}
      BY <1>1, <1>5, <2>7
    <3>2. G!Submit(f.req, {})
      BY <1>2, <2>5, <3>1 DEF G!Submit
    <3> QED
      BY <2>2, <3>2 DEF G!Next, G!Requests, Requests
  <2> QED
    BY <2>6, <2>7
<1> QED
  BY <1>3, <1>4, <1>5

\* Reading a command file takes its request.
LEMMA ReadPacketStep ==
  ASSUME TypeInv, Ledger, ReadPacketRead
  PROVE  G!Next
<1>1. /\ InProcess = {} /\ InProcess' = {pkt'.req}
      /\ pkt'.req \in Pending /\ pkt'.req \in Requests
      /\ Pending' = Pending \ {pkt'.req}
      /\ UNCHANGED <<dir, executed, answered, lost, sent>>
  BY ReadPacketEffect
<1>2. Current = 0 /\ Current' = pkt'.req /\ Carried' = Carried
  BY <1>1 DEF Current, Carried
<1>3. G!Take(pkt'.req)
  BY <1>1, <1>2 DEF G!Take, G!None
<1> QED
  BY <1>1, <1>3 DEF G!Next, G!Requests, Requests

\* Removing the file moves nothing, unless another request replaced the one
\* read: that one is discarded.
LEMMA UnlinkStep ==
  ASSUME TypeInv, Ledger, UnlinkRemoves
  PROVE  G!Next \/ UNCHANGED G!vars
<1>1. /\ InProcess = {pkt.req} /\ InProcess' = {pkt.req}
      /\ dir[taken].req \in OnDisk
      /\ Pending' = Pending \ {dir[taken].req}
      /\ lost' = lost \cup ({dir[taken].req} \ {pkt.req})
      /\ UNCHANGED <<executed, answered, sent, pkt>>
  BY UnlinkEffect
<1>2. Current' = Current /\ Carried' = Carried
  BY <1>1 DEF Current, Carried
<1>3. CASE dir[taken].req = pkt.req
  <2>1. Pending' = Pending /\ lost' = lost
    BY <1>1, <1>3 DEF Pending
  <2> QED
    BY <1>1, <2>1, Stutter
<1>4. CASE dir[taken].req # pkt.req
  <2>1. dir[taken].req \in Pending /\ lost' = lost \cup {dir[taken].req}
    BY <1>1, <1>4 DEF Pending
  <2>2. dir[taken].req \in Requests
    BY <1>1, PlacesAreRequests
  <2>3. G!Discard(dir[taken].req)
    BY <1>1, <1>2, <2>1 DEF G!Discard
  <2> QED
    BY <2>2, <2>3 DEF G!Next, G!Requests, Requests
<1> QED
  BY <1>3, <1>4

LEMMA CallbackStep ==
  ASSUME TypeInv, Ledger, Callback
  PROVE  G!Next \/ UNCHANGED G!vars
<1>1. /\ InProcess = {pkt.req} /\ InProcess' = {pkt.req}
      /\ Pending' = Pending /\ pkt.req \in Requests /\ executed[pkt.req] = 0
      /\ executed' = [executed EXCEPT ![pkt.req] = 1] \/ executed' = executed
      /\ UNCHANGED <<dir, answered, lost, sent, pkt>>
  BY CallbackEffect
<1>2. executed \in [Requests -> Nat]
  BY DEF TypeInv, TypeOK
<1>3. CASE executed' = executed
  BY <1>1, <1>3, Stutter
<1>4. CASE executed' = [executed EXCEPT ![pkt.req] = 1]
  <2>1. Carried' = Carried \cup {pkt.req} /\ pkt.req \notin Carried
    BY <1>1, <1>2, <1>4 DEF Carried
  <2>2. Current = pkt.req /\ Current' = pkt.req /\ Current # 0
    BY <1>1 DEF Current, Requests
  <2> QED
    BY <1>1, <2>1, <2>2 DEF G!Next, G!Execute, G!None
<1> QED
  BY <1>1, <1>3, <1>4

LEMMA DoneStep ==
  ASSUME TypeInv, Ledger, CreateLock \/ Abandon
  PROVE  G!Next
<1>1. /\ Pending' = Pending
      /\ InProcess = {pkt.req} /\ InProcess' = {} /\ pkt.req \in Requests
      /\ \/ answered' = answered \cup {pkt.req} /\ lost' = lost
         \/ lost' = lost \cup {pkt.req} /\ answered' = answered
      /\ UNCHANGED <<dir, executed, sent>>
  BY DoneEffect
<1>2. /\ Current = pkt.req /\ Current # 0 /\ Current' = 0
      /\ Carried' = Carried
  BY <1>1 DEF Current, Carried, Requests
<1> QED
  BY <1>1, <1>2 DEF G!Next, G!Answer, G!Lose, G!None

-----------------------------------------------------------------------------
\* The spooler, with all its files, events, flags and faults, keeps the
\* promises of the gateway.
THEOREM SpoolerImplementsGateway == Spec => GatewaySpec
<1>1. TypeInv /\ Ledger /\ TypeInv' /\ Ledger' /\ [Next]_vars => [G!Next]_(G!vars)
  <2> SUFFICES ASSUME TypeInv, Ledger, TypeInv', Ledger', [Next]_vars
               PROVE  G!Next \/ UNCHANGED G!vars
    OBVIOUS
  <2>1. CASE Still
    <3>1. UNCHANGED <<Pending, InProcess, executed, answered, lost>>
      BY <2>1, StillEffect DEF Still
    <3>2. InProcess = {} \/ pkt' = pkt
      BY <2>1 DEF Still, InProcess
    <3> QED
      BY <3>1, <3>2, Stutter
  <2>2. CASE \E how \in {"stopped", "died", "killed"} : Leave(how)
    BY <2>2, LeaveStep
  <2>3. CASE \E n \in Names, f \in Files : Replace(n, f)
    BY <2>3, ReplaceStep
  <2>4. CASE ReadPacketRead \/ UnlinkRemoves \/ Callback
    BY <2>4, ReadPacketStep, UnlinkStep, CallbackStep
  <2>5. CASE CreateLock \/ Abandon
    BY <2>5, DoneStep
  <2> QED
    BY <2>1, <2>2, <2>3, <2>4, <2>5, StepCases
<1> QED
  BY <1>1, GatewayInit, TypeCorrect, LedgerCorrect, PTL
     DEF Spec, GatewaySpec, G!Spec
=============================================================================
