------------------------------ MODULE Gateway -------------------------------
(***************************************************************************)
(* What the spooler promises of each request, without files, queues, events *)
(* or processes: requests wait, one at a time is worked on, the printer     *)
(* carries it out at most once, and it ends answered or lost.  A request    *)
(* goes back to waiting only if the printer has not seen it.                *)
(***************************************************************************)
EXTENDS Naturals

CONSTANT MaxRequests
Requests == 1..MaxRequests
None == 0

VARIABLES
  pending,              \* requests that wait
  current,              \* the one being worked on, or None
  executed,             \* requests the printer carried out
  answered,             \* requests with a complete response
  lost                  \* requests that will have none

vars == <<pending, current, executed, answered, lost>>

Known == pending \cup ({current} \ {None}) \cup answered \cup lost

Init ==
  /\ pending = {} /\ current = None
  /\ executed = {} /\ answered = {} /\ lost = {}

\* A new request, which may replace one that waits.
Submit(r, replaced) ==
  /\ r \notin Known
  /\ pending' = (pending \ replaced) \cup {r}
  /\ lost' = lost \cup replaced
  /\ UNCHANGED <<current, executed, answered>>

\* A request that waits is withdrawn.
Discard(r) ==
  /\ r \in pending
  /\ pending' = pending \ {r}
  /\ lost' = lost \cup {r}
  /\ UNCHANGED <<current, executed, answered>>

Take(r) ==
  /\ current = None
  /\ r \in pending
  /\ current' = r
  /\ pending' = pending \ {r}
  /\ UNCHANGED <<executed, answered, lost>>

\* The process is interrupted before the printer sees the request.
Release ==
  /\ current \notin executed \cup {None}
  /\ pending' = pending \cup {current}
  /\ current' = None
  /\ UNCHANGED <<executed, answered, lost>>

Execute ==
  /\ current \notin executed \cup {None}
  /\ executed' = executed \cup {current}
  /\ UNCHANGED <<pending, current, answered, lost>>

Answer ==
  /\ current # None
  /\ answered' = answered \cup {current}
  /\ current' = None
  /\ UNCHANGED <<pending, executed, lost>>

Lose ==
  /\ current # None
  /\ lost' = lost \cup {current}
  /\ current' = None
  /\ UNCHANGED <<pending, executed, answered>>

Next ==
  \/ \E r \in Requests :
       \/ Submit(r, {})
       \/ \E old \in pending : Submit(r, {old})
       \/ Discard(r)
       \/ Take(r)
  \/ Release \/ Execute \/ Answer \/ Lose

Spec == Init /\ [][Next]_vars
=============================================================================
