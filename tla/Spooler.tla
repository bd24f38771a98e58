------------------------------ MODULE Spooler -------------------------------
(***************************************************************************)
(* The spooler process, its clients and the directory between them.        *)
(*                                                                         *)
(* The process takes one command file at a time (txtcollector.cc), removes *)
(* it, carries the command out on the fiscal printer, and answers with a   *)
(* response file and then a lock file (serializer, main.cc).  Clients drop *)
(* command files and wait for the lock.  Signals arrive at any time, the   *)
(* process may be killed between any two steps, and is started again.      *)
(***************************************************************************)
EXTENDS FileQueue, LoopCtrl

CONSTANTS
  NoName,               \* no command file
  Direct,               \* clients that write the command file in place
  Impatient,            \* clients that give up waiting and send again
  ScanDelay,            \* m_timeout > 0: select has a timeout
  DiskMayFill,          \* writes to the work directory may fail
  BrokerMayThrow,       \* commands that make the broker throw may be sent
  MaxStarts,            \* bound: times the service is started
  MaxKills,             \* bound: times the process is killed
  MaxSigterms           \* bound: SIGTERM signals in a behaviour

ASSUME SpoolerAssumption ==
  /\ NoName \notin Names
  /\ Direct \subseteq Names
  /\ Impatient \subseteq Names
  /\ ScanDelay \in BOOLEAN
  /\ DiskMayFill \in BOOLEAN /\ BrokerMayThrow \in BOOLEAN
  /\ MaxStarts \in Nat /\ MaxKills \in Nat /\ MaxSigterms \in Nat

VARIABLES
  \* the process
  pc,                   \* where it is
  taken,                \* tmp_name: the command file it works on
  pkt,                  \* m_packet: what it read from the file
  ending,               \* how the last process ended
  \* the files it writes
  tmp,                  \* names with a temporary response file
  ret,                  \* the response file of each name
  lck,                  \* names with a lock file
  \* the clients, one for each name
  client,               \* what the client is doing
  cur,                  \* the request it sent last
  \* what happened so far
  sent,                 \* requests submitted
  executed,             \* times the printer carried out each request
  answered,             \* requests whose response was completed and locked
  lost,                 \* requests that can no longer be answered
  asked,                \* a SIGTERM reached the present process
  starts, kills, sigterms

fileVars == <<tmp, ret, lck>>
clientVars == <<client, cur, sent>>
boundVars == <<starts, kills, sigterms>>
vars == <<queueVars, loopVars, pc, taken, pkt, ending, fileVars, clientVars,
          executed, answered, lost, asked, boundVars>>

\* The steps that follow the removal of the command file.
Consumed == {"callback", "tmp", "copy", "fill", "lock"}
Pcs == {"down", "boot", "enter", "scan", "select", "check", "stop", "abort",
        "read", "unlink"} \cup Consumed

\* The request that was read and whose answer is not complete, and the ones
\* that wait in the directory.
InProcess == IF pc \in Consumed \cup {"unlink"} THEN {pkt.req} ELSE {}
Pending == OnDisk \ InProcess

\* The same as the one request worked on, if any, and the requests the printer
\* carried out.
Current == IF InProcess = {} THEN 0 ELSE pkt.req
Carried == {r \in Requests : executed[r] > 0}

TypeOK ==
  /\ QueueTypeOK /\ LoopTypeOK
  /\ pc \in Pcs
  /\ taken \in Names \cup {NoName}
  /\ pkt \in Files
  /\ ending \in {"none", "stopped", "died", "killed"}
  /\ tmp \in SUBSET Names
  /\ ret \in [Names -> Files]
  /\ lck \in SUBSET Names
  /\ client \in [Names -> {"idle", "writing", "waiting"}]
  /\ cur \in [Names -> 0..MaxRequests]
  /\ sent \in 0..MaxRequests
  /\ executed \in [Requests -> Nat]
  /\ answered \in SUBSET Requests
  /\ lost \in SUBSET Requests
  /\ asked \in BOOLEAN
  /\ starts \in 0..MaxStarts /\ kills \in 0..MaxKills
  /\ sigterms \in 0..MaxSigterms

Init ==
  /\ QueueInit /\ LoopInit
  /\ pc = "down" /\ taken = NoName /\ pkt = NoFile /\ ending = "none"
  /\ tmp = {} /\ ret = [n \in Names |-> NoFile] /\ lck = {}
  /\ client = [n \in Names |-> "idle"] /\ cur = [n \in Names |-> 0]
  /\ sent = 0 /\ executed = [r \in Requests |-> 0]
  /\ answered = {} /\ lost = {} /\ asked = FALSE
  /\ starts = 0 /\ kills = 0 /\ sigterms = 0

-----------------------------------------------------------------------------
(* The life of the process.                                                *)

\* The process ends, whatever it was doing: only files survive it.
Leave(how) ==
  /\ pc' = "down"
  /\ ending' = how
  /\ taken' = NoName
  /\ pkt' = NoFile
  /\ lost' = lost \cup (InProcess \ OnDisk)
  /\ QueueLost
  /\ LoopReset
  /\ UNCHANGED <<dir, fileVars, clientVars, executed, answered, asked>>

\* main up to the call of run: handlers are installed, nothing is collected.
Start ==
  /\ pc = "down" /\ starts < MaxStarts
  /\ pc' = "boot"
  /\ starts' = starts + 1
  /\ asked' = FALSE
  /\ UNCHANGED <<queueVars, loopVars, taken, pkt, ending, fileVars,
                 clientVars, executed, answered, lost, kills, sigterms>>

\* kill -9, or the machine goes down.
Kill ==
  /\ pc # "down" /\ kills < MaxKills
  /\ Leave("killed")
  /\ kills' = kills + 1
  /\ UNCHANGED <<starts, sigterms>>

\* Faulty variant: the handler ends the process at once.
SigtermExits ==
  /\ pc # "down" /\ sigterms < MaxSigterms
  /\ sigterms' = sigterms + 1
  /\ Leave("stopped")
  /\ UNCHANGED <<starts, kills>>

\* signal_handler.  A select in progress returns EINTR: ctrl_exp leaves
\* scan_files without a name and accept looks at the flag again.  At any
\* other place the signal only clears the flag.
Sigterm ==
  /\ pc # "down" /\ sigterms < MaxSigterms
  /\ sigterms' = sigterms + 1
  /\ \/ /\ ToFalse
        /\ pc' = IF pc = "select" THEN "enter" ELSE pc
        /\ asked' = TRUE
        /\ UNCHANGED <<queueVars, taken, pkt, ending, fileVars, clientVars,
                       executed, answered, lost>>
     \/ /\ AttachFails
        /\ Leave("died")
  /\ UNCHANGED <<starts, kills>>

\* One of the process's own uses of the flag finds no mapping left.
FlagUnreachable ==
  /\ pc \in {"boot", "enter", "check", "stop", "abort"}
  /\ AttachFails
  /\ Leave("died")
  /\ UNCHANGED boundVars

-----------------------------------------------------------------------------
(* collector::run and txt_collector::accept.                               *)

procUnchanged == <<ending, clientVars, executed, answered, lost, asked,
                   boundVars>>

\* Faulty variant: the watch is in place before the first listing.
EnterRunWatching ==
  /\ pc = "boot"
  /\ ToTrue
  /\ pc' = "enter"
  /\ watched' = TRUE
  /\ UNCHANGED <<dir, kevents, scanType, queue, taken, pkt, fileVars,
                 procUnchanged>>

\* run: the flag is set, whatever a signal wrote to it before.
EnterRun ==
  /\ pc = "boot"
  /\ ToTrue
  /\ pc' = "enter"
  /\ UNCHANGED <<queueVars, taken, pkt, fileVars, procUnchanged>>

\* Faulty variant: the loop does not look at the flag.
KeepRunningAlways ==
  /\ pc = "enter"
  /\ Attach /\ UNCHANGED flag
  /\ pc' = "scan"
  /\ UNCHANGED <<queueVars, taken, pkt, fileVars, procUnchanged>>

\* The condition of accept's loop: scan, or go on to the second test of the
\* flag without a file.
KeepRunning ==
  /\ pc = "enter"
  /\ \/ Running(TRUE) /\ pc' = "scan"
     \/ Running(FALSE) /\ pc' = "check"
  /\ UNCHANGED <<queueVars, taken, pkt, fileVars, procUnchanged>>

ScanDirectory ==
  /\ pc = "scan"
  /\ DirectoryScan
  /\ UNCHANGED <<loopVars, pc, taken, pkt, fileVars, procUnchanged>>

EnterSelect ==
  /\ pc = "scan"
  /\ StartMonitoring
  /\ pc' = "select"
  /\ UNCHANGED <<loopVars, taken, pkt, fileVars, procUnchanged>>

SelectReady ==
  /\ pc = "select"
  /\ ReadEvents
  /\ pc' = "scan"
  /\ UNCHANGED <<loopVars, taken, pkt, fileVars, procUnchanged>>

\* The timeout only takes scan_files round its loop again.
SelectTimeout ==
  /\ pc = "select" /\ ScanDelay
  /\ kevents = <<>>
  /\ pc' = "scan"
  /\ UNCHANGED <<queueVars, loopVars, taken, pkt, fileVars, procUnchanged>>

\* Faulty variant: the newest name first.
TakeNewest ==
  /\ pc = "scan"
  /\ queue # <<>>
  /\ queue' = Front(queue)
  /\ taken' = Last(queue)
  /\ pc' = "check"
  /\ UNCHANGED <<dir, kevents, watched, scanType, loopVars, pkt, fileVars,
                 procUnchanged>>

TakeName ==
  /\ pc = "scan"
  /\ PopFront
  /\ taken' = Head(queue)
  /\ pc' = "check"
  /\ UNCHANGED <<loopVars, pkt, fileVars, procUnchanged>>

\* The test after the loop.  If it fails the name taken is forgotten, its
\* file left in the directory.
CheckRunning ==
  /\ pc = "check"
  /\ \/ Running(TRUE) /\ pc' = "read" /\ UNCHANGED taken
     \/ Running(FALSE) /\ pc' = "stop" /\ taken' = NoName
  /\ UNCHANGED <<queueVars, pkt, fileVars, procUnchanged>>

\* COLLECTOR_STOP: run clears the flag and returns, main returns.
Stop ==
  /\ pc = "stop"
  /\ maps < MaxMaps
  /\ Leave("stopped")
  /\ UNCHANGED boundVars

\* Faulty variant: a missing file is read as an empty packet.
ReadPacketTolerant ==
  /\ pc = "read"
  /\ pkt' = dir[taken]
  /\ pc' = "unlink"
  /\ UNCHANGED <<queueVars, loopVars, taken, fileVars, procUnchanged>>

\* Open and parse the command file.  The stream of a missing file fails
\* without eof; the handler's unlink then throws out of accept.
ReadPacket ==
  /\ pc = "read"
  /\ \/ /\ dir[taken] # NoFile
        /\ pkt' = dir[taken]
        /\ pc' = "unlink"
        /\ UNCHANGED <<queueVars, loopVars, taken, fileVars, procUnchanged>>
     \/ /\ dir[taken] = NoFile
        /\ Leave("died")
        /\ UNCHANGED boundVars

\* Faulty variant: the command is carried out with its file still there.
UnlinkSkipped ==
  /\ pc = "unlink"
  /\ pc' = "callback"
  /\ UNCHANGED <<queueVars, loopVars, taken, pkt, fileVars, procUnchanged>>

\* The removal acts on the name: a request that replaced the one just read
\* goes with it.
Unlink ==
  /\ pc = "unlink"
  /\ \/ /\ UnlinkCommand(taken)
        /\ pc' = "callback"
        /\ lost' = lost \cup ({dir[taken].req} \ {pkt.req})
        /\ UNCHANGED <<loopVars, taken, pkt, ending, fileVars, clientVars,
                       executed, answered, asked, boundVars>>
     \/ /\ dir[taken] = NoFile
        /\ Leave("died")
        /\ UNCHANGED boundVars

\* callback: the broker carries the command out on the printer, or the packet
\* is a session command, is invalid, or is refused by the printer.
Callback ==
  /\ pc = "callback"
  /\ pc' = "tmp"
  /\ \/ executed' = [executed EXCEPT ![pkt.req] = @ + 1]
     \/ UNCHANGED executed
  /\ UNCHANGED <<queueVars, loopVars, taken, pkt, ending, fileVars,
                 clientVars, answered, lost, asked, boundVars>>

\* trade catches the exceptions of this program only and declares that it
\* throws none: any other one, as that of a date too short, ends the process.
CallbackThrows ==
  /\ pc = "callback"
  /\ BrokerMayThrow
  /\ Leave("died")
  /\ UNCHANGED boundVars

-----------------------------------------------------------------------------
(* serializer: the response of the request taken.                          *)

\* The whole packet is written to the temporary name.  Streams report no
\* error: on a full disk the file may be missing and nobody notices yet.
WriteTemp ==
  /\ pc = "tmp"
  /\ pc' = "copy"
  /\ \/ tmp' = tmp \cup {taken}
     \/ DiskMayFill /\ UNCHANGED tmp
  /\ UNCHANGED <<queueVars, loopVars, taken, pkt, ret, lck, procUnchanged>>

\* Faulty variant: the lock is created before the copy is complete.
OpenResponseLocked ==
  /\ pc = "copy"
  /\ pc' = "fill"
  /\ ret' = [ret EXCEPT ![taken] = [req |-> pkt.req, whole |-> FALSE]]
  /\ lck' = lck \cup {taken}
  /\ UNCHANGED <<queueVars, loopVars, taken, pkt, tmp, procUnchanged>>

\* copy_file opens, and so truncates, the file of the final name; it does not
\* ask whether the file could be opened.
OpenResponse ==
  /\ pc = "copy"
  /\ pc' = "fill"
  /\ \/ ret' = [ret EXCEPT ![taken] = [req |-> pkt.req, whole |-> FALSE]]
     \/ DiskMayFill /\ UNCHANGED ret
  /\ UNCHANGED <<queueVars, loopVars, taken, pkt, tmp, lck, procUnchanged>>

\* The content reaches the file that was opened, unless it was removed since.
Filled ==
  [ret EXCEPT ![taken].whole = @ \/ ret[taken].req = pkt.req]

\* Faulty variant: the temporary file is left behind.
FillResponseOnly ==
  /\ pc = "fill"
  /\ pc' = "lock"
  /\ ret' = Filled
  /\ UNCHANGED <<queueVars, loopVars, taken, pkt, tmp, lck, procUnchanged>>

\* Faulty variant: the answer goes on after its loss was noticed.
FillResponseGoesOn ==
  /\ pc = "fill"
  /\ pc' = "lock"
  /\ tmp' = tmp \ {taken}
  /\ ret' = Filled
  /\ lost' = IF taken \in tmp THEN lost ELSE lost \cup {pkt.req}
  /\ UNCHANGED <<queueVars, loopVars, taken, pkt, lck, ending, clientVars,
                 executed, answered, asked, boundVars>>

\* copy_file copies the temporary file, which is then removed; its removal
\* throws when it does not exist, and serializer's exception makes callback
\* return COLLECTOR_ABORT.
FillResponse ==
  /\ pc = "fill"
  /\ \/ /\ taken \in tmp
        /\ pc' = "lock"
        /\ tmp' = tmp \ {taken}
        /\ \/ ret' = Filled
           \/ DiskMayFill /\ UNCHANGED ret
     \/ /\ taken \notin tmp
        /\ pc' = "abort"
        /\ UNCHANGED <<tmp, ret>>
  /\ lost' = IF taken \in tmp THEN lost ELSE lost \cup {pkt.req}
  /\ UNCHANGED <<queueVars, loopVars, taken, pkt, lck, ending, clientVars,
                 executed, answered, asked, boundVars>>

\* The lock ends the answer; nobody asks whether it could be created.
CreateLock ==
  /\ pc = "lock"
  /\ pc' = "enter"
  /\ \/ /\ lck' = lck \cup {taken}
        /\ answered' = answered \cup {pkt.req}
        /\ UNCHANGED lost
     \/ /\ DiskMayFill
        /\ lost' = lost \cup {pkt.req}
        /\ UNCHANGED <<lck, answered>>
  /\ taken' = NoName
  /\ pkt' = NoFile
  /\ UNCHANGED <<queueVars, loopVars, tmp, ret, ending, clientVars, executed,
                 asked, boundVars>>

\* COLLECTOR_ABORT: run clears the flag and throws; main rethrows.
Abort ==
  /\ pc = "abort"
  /\ maps < MaxMaps
  /\ Leave("died")
  /\ UNCHANGED boundVars

-----------------------------------------------------------------------------
(* The clients.                                                            *)

clientUnchanged == <<scanType, watched, queue, loopVars, pc, taken, pkt,
                     ending, tmp, executed, answered, asked, boundVars>>

\* The file of the name is replaced or removed: a request that was still
\* waiting in it will never be read.
Displace(n) == lost' = lost \cup ({dir[n].req} \cap Pending)

\* The protocol the README recommends: write under another name, rename.
Submit(n) ==
  /\ n \notin Direct
  /\ client[n] = "idle" /\ sent < MaxRequests
  /\ sent' = sent + 1
  /\ cur' = [cur EXCEPT ![n] = sent + 1]
  /\ client' = [client EXCEPT ![n] = "waiting"]
  /\ dir' = [dir EXCEPT ![n] = [req |-> sent + 1, whole |-> TRUE]]
  /\ Displace(n)
  /\ Notify([name |-> n, kind |-> "moved"])
  /\ UNCHANGED <<clientUnchanged, ret, lck>>

\* A client that writes in place: the file has its name before its content.
DirectOpen(n) ==
  /\ n \in Direct
  /\ client[n] = "idle" /\ sent < MaxRequests
  /\ sent' = sent + 1
  /\ cur' = [cur EXCEPT ![n] = sent + 1]
  /\ client' = [client EXCEPT ![n] = "writing"]
  /\ dir' = [dir EXCEPT ![n] = [req |-> sent + 1, whole |-> FALSE]]
  /\ Displace(n)
  /\ UNCHANGED <<clientUnchanged, kevents, ret, lck>>

\* The writer closes the file, which may have been unlinked meanwhile: the
\* event is raised all the same.
DirectClose(n) ==
  /\ client[n] = "writing"
  /\ client' = [client EXCEPT ![n] = "waiting"]
  /\ dir' = IF dir[n].req = cur[n] THEN [dir EXCEPT ![n].whole = TRUE] ELSE dir
  /\ Notify([name |-> n, kind |-> "closed"])
  /\ UNCHANGED <<clientUnchanged, cur, sent, lost, ret, lck>>

\* The lock is there: read the response and remove both files.
Collect(n) ==
  /\ client[n] = "waiting" /\ n \in lck
  /\ client' = [client EXCEPT ![n] = "idle"]
  /\ ret' = [ret EXCEPT ![n] = NoFile]
  /\ lck' = lck \ {n}
  /\ UNCHANGED <<clientUnchanged, kevents, dir, cur, sent, lost>>

\* The client's own timeout: it withdraws the command file if it is still
\* there, or leaves it, and may send its next request under the same name
\* without knowing what became of this one.
GiveUp(n) ==
  /\ n \in Impatient
  /\ client[n] = "waiting"
  /\ client' = [client EXCEPT ![n] = "idle"]
  /\ \/ UNCHANGED <<dir, lost>>
     \/ dir' = [dir EXCEPT ![n] = NoFile] /\ Displace(n)
  /\ UNCHANGED <<clientUnchanged, kevents, cur, sent, ret, lck>>

-----------------------------------------------------------------------------
ProcessStep ==
  \/ EnterRun \/ KeepRunning \/ ScanDirectory \/ EnterSelect \/ SelectReady
  \/ SelectTimeout \/ TakeName \/ CheckRunning \/ Stop \/ ReadPacket
  \/ Unlink \/ Callback \/ WriteTemp \/ OpenResponse \/ FillResponse
  \/ CreateLock \/ Abort \/ FlagUnreachable \/ CallbackThrows

ClientStep(n) ==
  Submit(n) \/ DirectOpen(n) \/ DirectClose(n) \/ Collect(n) \/ GiveUp(n)

Next ==
  \/ ProcessStep
  \/ \E n \in Names : ClientStep(n)
  \/ Start \/ Kill \/ Sigterm

Spec == Init /\ [][Next]_vars

\* The kernel runs a process that can run.  Clients, signals, kills and
\* starts are not promised.
FairSpec == Spec /\ WF_vars(ProcessStep)
-----------------------------------------------------------------------------
(* Safety.                                                                 *)

\* No request reaches the printer twice, whatever is killed, resent, written
\* in place, dropped by the kernel or restarted: the command file is removed
\* before the command is carried out (accept, then callback).
AtMostOnce == \A r \in Requests : executed[r] <= 1

\* A submitted request is in exactly one place: it waits in the directory, it
\* is being worked on, it is answered, or it is lost.  No rescan, restart or
\* duplicate name brings back one that was answered or lost.
Accounted ==
  /\ Pending \cup InProcess \cup answered \cup lost = 1..sent
  /\ Pending \cap (answered \cup lost) = {}
  /\ InProcess \cap (answered \cup lost) = {}
  /\ answered \cap lost = {}

\* A client that waits for its lock file before it does anything else finds,
\* once the lock is there, the complete response to the request it sent and to
\* no earlier one (README, "Este ultimo, e' o indicativo de que o arquivo de
\* resposta pode ser lido").
LckMeansAnswer ==
  \A n \in Names \ Impatient :
    client[n] = "waiting" /\ n \in lck
      => ret[n] = [req |-> cur[n], whole |-> TRUE]

\* The process ends by a signal only, never by an exception or a fault of its
\* own (ChangeLog 66: the loop "e' infinito, finalizando apenas com SIGTERM").
OnlySigtermEnds == ending # "died"

\* A kill costs at most the one request being worked on; a SIGTERM, a restart
\* or a full queue costs none.
LossIsKill == Cardinality(lost) <= kills

\* Once the watch is in place commands are carried out in the order in which
\* they were renamed: none still signalled is older than one carried out.
EventOrder ==
  scanType = "event" =>
    \A n \in (ToSet(queue) \cup EventNames) \ Direct, r \in Requests :
      executed[r] > 0 => r < cur[n]

\* Between commands of an undisturbed process no half-written response and no
\* temporary file is left: a SIGTERM in the middle of a command does not cut
\* its answer short.
NothingHalfWritten ==
  kills = 0 /\ pc \in {"down", "boot", "enter", "scan", "select", "check"}
    => /\ tmp = {}
       /\ \A n \in Names : ret[n] = NoFile \/ ret[n].whole

-----------------------------------------------------------------------------
(* The abstract gateway the process implements.                            *)

G == INSTANCE Gateway WITH
       pending <- Pending, current <- Current, executed <- Carried

\* Every step of the process, its clients, a kill or a restart is a step of
\* the gateway on one request, or no step of it: in particular a request read
\* but not yet removed may go back to the directory, and one removed never.
GatewaySpec == G!Spec

-----------------------------------------------------------------------------
(* Liveness, under FairSpec.                                               *)

\* The names the process has been told of and has not yet answered.
Signalled(n) == n \in ToSet(queue) \cup EventNames \/ taken = n

\* A command whose rename raised an event, or that a listing found, is answered
\* unless the process ends.
SignalledIsAnswered ==
  \A n \in Names, r \in Requests :
    Signalled(n) /\ dir[n].req = r ~> r \in answered \/ pc = "down"

\* A command renamed once the watch is in place is answered, whatever waits before
\* it, unless the process ends.
WatchedIsAnswered ==
  \A r \in Requests, k \in 1..MaxStarts :
    [](watched /\ sent < r /\ starts = k
         => [](starts = k /\ r \in OnDisk => <>(r \in answered \/ pc = "down")))

\* What was left in the directory while the service was down is answered after
\* it starts, without any new event.
BacklogIsAnswered ==
  \A r \in Requests :
    pc = "boot" /\ r \in OnDisk ~> r \in answered \/ pc = "down"

\* A SIGTERM that arrives while a command is being worked on ends the process,
\* after the command is answered.
BusySigtermStops ==
  ~flag /\ pc \in {"check", "read", "unlink"} \cup Consumed ~> pc = "down"

\* What the ChangeLog and the comment at filequeue.cc:187 promise: a SIGTERM
\* ends the service, whenever it comes.
SigtermStops == asked ~> pc = "down"

\* What the README promises: a command file is noticed as soon as it is in the
\* directory of a running service.
EveryCommandIsAnswered ==
  \A r \in Requests :
    pc # "down" /\ r \in OnDisk ~> r \in answered \/ pc = "down"
=============================================================================
