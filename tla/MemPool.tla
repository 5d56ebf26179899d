------------------------------ MODULE MemPool ------------------------------
(***************************************************************************)
(* The memory pools of mempool.c: blocks of one size, threads that wait    *)
(* for a free one (the last to come is the first to be resumed), and a     *)
(* count of them that is kept apart from their list.                       *)
(*                                                                         *)
(*   pool[p]  block_free_count (free), suspend_thread_count (pend)         *)
(*                                                                         *)
(* A block is given to whoever asks next; its address plays no role.       *)
(***************************************************************************)
EXTENDS Retry

CONSTANTS MemPools,   \* the lists that belong to memory pools
          MpBlocks,   \* mp->block_total_count
          MaxPend     \* no thread calls rt_mp_alloc once pend has reached it

ASSUME PoolAssumption == /\ MemPools \subseteq Queue
                         /\ MpBlocks \in Nat \ {0} /\ MaxPend \in Nat

VARIABLE pool

MpLocation == {"allocating", "remaining"}

(* rt_mp_init, rt_mp_create *)
FullPool == [free |-> MpBlocks, pend |-> 0]

PoolInit == pool = [p \in MemPools |-> FullPool]
-----------------------------------------------------------------------------
(* rt_mp_alloc from the test of its loop. *)
MpAllocLoop(t, p, n) ==
  \/ /\ pool[p].free # 0
     /\ pool' = [pool EXCEPT ![p].free = @ - 1]
     /\ Goto(t, "user") /\ Done(t)
     /\ UNCHANGED <<k, then, slice, isr, hand>>
  \/ /\ pool[p].free = 0
     /\ WaitFor(t, p, n, "allocating")
     /\ pool' = [pool EXCEPT ![p].pend = @ + 1]
     /\ UNCHANGED <<hand, waited>>
  \/ /\ pool[p].free = 0 /\ n = 0
     /\ GiveUp(t)
     /\ UNCHANGED pool

(* rt_mp_alloc; without a free block and without a timeout it changes      *)
(* nothing.                                                                *)
MpAlloc(t, p) ==
  /\ Call(t, p) /\ pool[p].pend < MaxPend
  /\ \E n \in Timeouts(p) : MpAllocLoop(t, p, n)
  /\ About(t, p)
  /\ UNCHANGED <<alive, lists, wild>>

(* What is left of the timeout is computed with interrupts enabled: the    *)
(* ticks that pass before t waits again are no part of any wait.           *)
MpAllocWoken(t) ==
  /\ At(t, "allocating")
  /\ \/ k.error[t] # "EOK" /\ GiveUp(t)
     \/ /\ k.error[t] = "EOK" /\ Goto(t, "remaining")
        /\ left'   = [left EXCEPT ![t] = Remaining(t)]
        /\ run'    = [run EXCEPT ![t] = 0]
        /\ waited' = [waited EXCEPT ![t] = @ + run[t]]
        /\ UNCHANGED <<k, then, slice, isr, hand>>
  /\ UNCHANGED <<ipcVars, pool>>

MpAllocAgain(t) ==
  /\ At(t, "remaining")
  /\ MpAllocLoop(t, arg[t], left[t])
  /\ UNCHANGED ipcVars
-----------------------------------------------------------------------------
(* Slip: the last thread of the list is not resumed. *)
FreedLast(p) ==
  LET mp == pool[p]
  IN  [k    |-> IF mp.pend > 1 /\ k.wait[p] # << >>
                THEN IpcResume([k EXCEPT !.error[Head(k.wait[p])] = "EOK"], p) ELSE k,
       mp   |-> [mp EXCEPT !.free = @ + 1, !.pend = IF @ > 1 THEN @ - 1 ELSE @],
       wild |-> FALSE]

(* The section of rt_mp_free: the block is linked, and the first thread of *)
(* the list resumed if the count says that one waits.                      *)
Freed(p) ==
  LET mp      == pool[p]
      counted == mp.pend > 0
  IN  [k    |-> IF counted /\ k.wait[p] # << >>
                THEN IpcResume([k EXCEPT !.error[Head(k.wait[p])] = "EOK"], p) ELSE k,
       mp   |-> [mp EXCEPT !.free = @ + 1, !.pend = IF counted THEN @ - 1 ELSE @],
       wild |-> counted /\ k.wait[p] = << >>]

(* rt_mp_free of a block that is in use; rt_schedule follows when a thread *)
(* was resumed.                                                            *)
MpFreed(p, r) == /\ alive[p] /\ pool[p].free < MpBlocks
                 /\ pool' = [pool EXCEPT ![p] = r.mp]
                 /\ wild' = (wild \/ r.wild)
                 /\ UNCHANGED <<then, slice, isr, arg, alive, lists, retryVars>>

MpFree(t, p) ==
  LET r == Freed(p)
  IN  /\ At(t, "user") /\ MpFreed(p, r)
      /\ k' = r.k
      /\ IF pool[p].pend > 0 THEN Goto(t, "sched") ELSE UNCHANGED pc

(* rt_mp_free in an interrupt. *)
IsrMpFree(p) ==
  LET r == Freed(p)
  IN  /\ isr = "none" /\ MpFreed(p, r)
      /\ k' = IF pool[p].pend > 0 THEN Schedule(r.k) ELSE r.k
      /\ UNCHANGED pc
-----------------------------------------------------------------------------
(* rt_mp_detach, rt_mp_delete: each thread resumed is counted. *)
MpDelete(t, p) == /\ Unused(p, MpLocation) /\ Delete(t, p)
                  /\ UNCHANGED <<retryVars, pool>>

MpRemoval(t) ==
  /\ arg[t] \in MemPools
  /\ \/ (DrainCheck(t) \/ Removed(t)) /\ UNCHANGED pool
     \/ DrainOne(t) /\ pool' = [pool EXCEPT ![arg[t]].pend = @ - 1]
  /\ UNCHANGED retryVars

MpCreate(t, p) == /\ Revive(t, p, MpLocation)
                  /\ pool' = [pool EXCEPT ![p] = FullPool]
                  /\ UNCHANGED retryVars

MpStep(t) ==
  \/ \E p \in MemPools : \/ MpAlloc(t, p) \/ MpFree(t, p) \/ MpDelete(t, p)
                         \/ MpCreate(t, p)
  \/ MpAllocWoken(t) \/ MpAllocAgain(t) \/ MpRemoval(t)

MpInterrupt == \E p \in MemPools : IsrMpFree(p)
-----------------------------------------------------------------------------
PoolTypeOK == pool \in [MemPools -> [free : 0 .. MpBlocks, pend : Nat]]

(* Nobody waits for a block that is free, unless enough threads that were  *)
(* woken for one have not run yet.                                         *)
NoLostBlock ==
  \A p \in MemPools : alive[p] /\ k.wait[p] # << >> =>
    pool[p].free <= Cardinality(WokenFrom(p, "allocating") \cup WokenFrom(p, "remaining"))
=============================================================================
