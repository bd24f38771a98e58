------------------------------ MODULE LoopCtrl ------------------------------
(***************************************************************************)
(* The run flag of the service (loopctrl.cc).  It lives in a System V      *)
(* shared memory block, because the signal handler and the collector reach *)
(* it through the block's handle.  Every access maps the block again with  *)
(* shmat and no access ever unmaps it, so each one uses up one of the      *)
(* mappings the kernel grants a process.  When none is left shmat returns  *)
(* (void* )-1, which the code dereferences: the process gets a SIGSEGV.    *)
(***************************************************************************)
EXTENDS Naturals

CONSTANT MaxMaps        \* mappings the kernel grants one process

ASSUME MapsAssumption == MaxMaps \in Nat

VARIABLES
  flag,                 \* lp_struct.keep_running in the shared block
  maps                  \* mappings of the block the process holds

loopVars == <<flag, maps>>

LoopTypeOK ==
  /\ flag \in BOOLEAN
  /\ maps \in 0..MaxMaps

\* A fresh process: the block is zero-filled and mapped nowhere.
LoopInit == flag = FALSE /\ maps = 0

\* The process is gone, and its mappings with it.
LoopReset == flag' = FALSE /\ maps' = 0

\* Faulty variant: the mapping is counted on without asking whether it worked.
AttachUnchecked == maps' = maps + 1

Attach == maps < MaxMaps /\ maps' = maps + 1

AttachFails == maps >= MaxMaps

ToTrue == Attach /\ flag' = TRUE

ToFalse == Attach /\ flag' = FALSE

\* loopctrl::running returns v.
Running(v) == Attach /\ flag = v /\ UNCHANGED flag
=============================================================================
