----------------------------- MODULE FileQueue ------------------------------
(***************************************************************************)
(* The work directory and the queue of command file names (filequeue.cc).  *)
(*                                                                         *)
(* The queue is filled in one of two ways, and only when it is empty: by   *)
(* listing the directory until a listing finds no command file, and from   *)
(* then on by reading the events of an inotify watch, which is set up on   *)
(* the first read only.                                                    *)
(*                                                                         *)
(* Names are the file names that match the configured prefix; other files  *)
(* of the directory (responses, locks, temporary files) raise events that  *)
(* the code drops by their names, and are not represented.  One opendir to *)
(* closedir loop is one step: a file that arrives during the loop and is   *)
(* not listed is the same as one that arrives just after it.               *)
(***************************************************************************)
EXTENDS SequencesExt

CONSTANTS
  Names,                \* names of command files
  MaxRequests,          \* bound: requests submitted in a behaviour
  ReadMax,              \* events that fit NOTIFY_EVENT_QUEUE_LEN bytes
  KernelMax             \* events the kernel queues (max_queued_events)

ASSUME QueueAssumption ==
  /\ IsFiniteSet(Names)
  /\ MaxRequests \in Nat
  /\ ReadMax \in Nat \ {0}
  /\ KernelMax \in Nat \ {0}

\* Requests are numbered in the order clients submit them.
Requests == 1..MaxRequests

\* A command file holds one request; it is whole once its writer closed it.
Files == [req : 0..MaxRequests, whole : BOOLEAN]
NoFile == [req |-> 0, whole |-> FALSE]

\* "moved" is IN_MOVED_TO, "closed" is IN_CLOSE_WRITE.
Events == [name : Names, kind : {"moved", "closed"}]

VARIABLES
  dir,                  \* the command files of the work directory
  kevents,              \* unread events of the inotify descriptor
  watched,              \* m_fd and m_wd are set
  scanType,             \* m_scan_type
  queue                 \* the std::queue file_queue derives from

queueVars == <<dir, kevents, watched, scanType, queue>>

QueueTypeOK ==
  /\ dir \in [Names -> Files]
  /\ kevents \in Seq(Events)
  /\ watched \in BOOLEAN
  /\ scanType \in {"dir", "event"}
  /\ queue \in Seq(Names)

QueueInit ==
  /\ dir = [n \in Names |-> NoFile]
  /\ kevents = <<>>
  /\ watched = FALSE
  /\ scanType = "dir"
  /\ queue = <<>>

Present == {n \in Names : dir[n] # NoFile}
OnDisk == {dir[n].req : n \in Names} \ {0}
EventNames == {kevents[i].name : i \in DOMAIN kevents}

-----------------------------------------------------------------------------
(* What the kernel does with an event of the directory.                    *)

\* A close event equal to the last unread one is merged with it; two renames
\* differ in their cookies and never are.
Merged(e) ==
  /\ e.kind = "closed"
  /\ kevents # <<>>
  /\ kevents[Len(kevents)] = e

\* Without a watch there is no event, and a full queue drops it: the overflow
\* record the kernel leaves instead has no name, and the code skips it.
Notify(e) ==
  IF watched /\ Len(kevents) < KernelMax /\ ~Merged(e)
  THEN kevents' = Append(kevents, e)
  ELSE UNCHANGED kevents

-----------------------------------------------------------------------------
(* The steps of scan_files.                                                *)

\* Faulty variant: one listing is enough, and its first name is all it queues.
DirectoryScanOnce ==
  /\ queue = <<>>
  /\ scanType = "dir"
  /\ scanType' = "event"
  /\ \/ Present = {} /\ UNCHANGED queue
     \/ \E n \in Present : queue' = <<n>>
  /\ UNCHANGED <<dir, kevents, watched>>

\* directory_scan: push every command file in the order readdir gives them;
\* a listing without any ends the directory phase for good.
DirectoryScan ==
  /\ queue = <<>>
  /\ scanType = "dir"
  /\ \/ /\ Present = {}
        /\ scanType' = "event"
        /\ UNCHANGED queue
     \/ /\ Present # {}
        /\ queue' \in SetToSeqs(Present)
        /\ UNCHANGED scanType
  /\ UNCHANGED <<dir, kevents, watched>>

\* start_monitoring: create the watch the first time, keep it afterwards.
StartMonitoring ==
  /\ queue = <<>>
  /\ scanType = "event"
  /\ watched' = TRUE
  /\ UNCHANGED <<dir, kevents, scanType, queue>>

\* Faulty variant: what does not fit the buffer is thrown away.
ReadEventsOnce ==
  \E n \in 1..ReadMax :
    /\ n <= Len(kevents)
    /\ queue' = [i \in 1..n |-> kevents[i].name]
    /\ kevents' = <<>>
    /\ UNCHANGED <<dir, watched, scanType>>

\* kernel_scan after select: one read, as many events as fit the buffer, which
\* events of other files may share.
ReadEvents ==
  \E n \in 1..ReadMax :
    /\ n <= Len(kevents)
    /\ queue' = [i \in 1..n |-> kevents[i].name]
    /\ kevents' = SubSeq(kevents, n + 1, Len(kevents))
    /\ UNCHANGED <<dir, watched, scanType>>

PopFront ==
  /\ queue # <<>>
  /\ queue' = Tail(queue)
  /\ UNCHANGED <<dir, kevents, watched, scanType>>

\* fs::sys_unlink of a command file.
UnlinkCommand(n) ==
  /\ dir[n] # NoFile
  /\ dir' = [dir EXCEPT ![n] = NoFile]
  /\ UNCHANGED <<kevents, watched, scanType, queue>>

\* The process is gone: the descriptor is closed, the queue was in memory.
QueueLost ==
  /\ kevents' = <<>>
  /\ watched' = FALSE
  /\ scanType' = "dir"
  /\ queue' = <<>>
=============================================================================
