----------------------------- MODULE Semaphore -----------------------------
(***************************************************************************)
(* The counting semaphores of ipc.c, taken by threads, released by threads *)
(* and interrupts, reset and deleted.                                      *)
(*                                                                         *)
(*   value[s]  sem->value; its waiters are k.wait[s]                       *)
(*   credit[s] tokens put minus takes that returned RT_EOK: what the       *)
(*             callers know, not a variable of the code                    *)
(*                                                                         *)
(* MaxTokens bounds credit.                                                *)
(***************************************************************************)
EXTENDS Ipc

CONSTANTS ValueMod,   \* 2^16: sem->value is a rt_uint16_t
          MaxTokens

Sem == Queue

ASSUME SemaphoreAssumption == /\ ValueMod \in Nat \ {0} /\ MaxTokens \in Nat
                              /\ \A s \in Sem : Private[s] = s

VARIABLES value, credit
semVars == <<value, credit>>
vars == <<k, pc, then, slice, isr, value, arg, alive, lists, credit, wild>>

Location == {"user", "sched", "woken", "taken", "drain", "resume", "gone"}

Init == /\ IpcInit
        /\ value  = [s \in Sem |-> 0]
        /\ credit = [s \in Sem |-> 0]
-----------------------------------------------------------------------------
Credit(s, n) == credit' = [credit EXCEPT ![s] = @ + n]

(* Slip: the value is not looked at. *)
TakeTokenAlways(t, s) ==
  /\ Call(t, s)
  /\ value' = [value EXCEPT ![s] = @ - 1]
  /\ Credit(s, -1)
  /\ UNCHANGED <<k, pc, then, slice, isr, arg, alive, lists, wild>>

(* rt_sem_take of a token that is there. *)
TakeToken(t, s) ==
  /\ Call(t, s) /\ value[s] > 0
  /\ value' = [value EXCEPT ![s] = @ - 1]
  /\ Credit(s, -1)
  /\ UNCHANGED <<k, pc, then, slice, isr, arg, alive, lists, wild>>

(* rt_sem_take that waits; with time = 0 it returns and changes nothing. *)
TakeWait(t, s) ==
  /\ Call(t, s) /\ value[s] = 0
  /\ \E timed \in BOOLEAN : (timed => s \in Timed) /\ WaitIn(t, s, timed, "taken")
  /\ About(t, s)
  /\ UNCHANGED <<value, alive, lists, credit, wild>>

(* Slip: every return from rt_schedule is a success. *)
TakeReturnAlways(t) ==
  /\ At(t, "taken")
  /\ Credit(arg[t], -1)
  /\ Goto(t, "user")
  /\ UNCHANGED <<k, then, slice, isr, value, arg, alive, lists, wild>>

(* rt_sem_take after its rt_schedule. *)
TakeReturn(t) ==
  /\ At(t, "taken")
  /\ IF k.error[t] = "EOK" THEN Credit(arg[t], -1) ELSE UNCHANGED credit
  /\ Goto(t, "user")
  /\ UNCHANGED <<k, then, slice, isr, value, arg, alive, lists, wild>>
-----------------------------------------------------------------------------
(* The section of rt_sem_release: a token goes to the first waiter or is   *)
(* counted.                                                                *)
Put(s) ==
  /\ alive[s] /\ credit[s] < MaxTokens
  /\ Credit(s, 1)
  /\ \/ /\ k.wait[s] # << >>
        /\ k' = IpcResume(k, s) /\ UNCHANGED value
     \/ /\ k.wait[s] = << >>
        /\ value' = [value EXCEPT ![s] = (@ + 1) % ValueMod] /\ UNCHANGED k

(* rt_sem_release by a thread. *)
Release(t, s) ==
  /\ At(t, "user") /\ Put(s)
  /\ IF k.wait[s] # << >> THEN Goto(t, "sched") ELSE UNCHANGED pc
  /\ UNCHANGED <<then, slice, isr, arg, alive, lists, wild>>

(* rt_sem_release in an interrupt: the rt_schedule follows before any      *)
(* thread runs.                                                            *)
IsrRelease(s) ==
  /\ isr = "none"
  /\ alive[s] /\ credit[s] < MaxTokens
  /\ Credit(s, 1)
  /\ \/ /\ k.wait[s] # << >>
        /\ k' = Schedule(IpcResume(k, s)) /\ UNCHANGED value
     \/ /\ k.wait[s] = << >>
        /\ value' = [value EXCEPT ![s] = (@ + 1) % ValueMod] /\ UNCHANGED k
  /\ UNCHANGED <<pc, then, slice, isr, arg, alive, lists, wild>>

(* Slip: the waiters stay. *)
ResetAlone(t, s) ==
  /\ Call(t, s)
  /\ \E v \in 0 .. MaxTokens :
       value' = [value EXCEPT ![s] = v % ValueMod] /\ Credit(s, v - value[s])
  /\ Goto(t, "sched")
  /\ UNCHANGED <<k, then, slice, isr, arg, alive, lists, wild>>

(* rt_sem_control(RT_IPC_CMD_RESET): all waiters leave with -RT_ERROR and  *)
(* the value is set, in one section.                                       *)
Reset(t, s) ==
  /\ Call(t, s)
  /\ \E v \in 0 .. MaxTokens :
       /\ v - value[s] + credit[s] <= MaxTokens
       /\ value' = [value EXCEPT ![s] = v % ValueMod]
       /\ Credit(s, v - value[s])
  /\ k' = IpcResumeAll(k, s)
  /\ Goto(t, "sched")
  /\ UNCHANGED <<then, slice, isr, arg, alive, lists, wild>>
-----------------------------------------------------------------------------
(* rt_sem_init, rt_sem_create *)
Create(t, s) ==
  /\ Revive(t, s, {"taken"})
  /\ \E v \in 0 .. MaxTokens : /\ value'  = [value EXCEPT ![s] = v % ValueMod]
                               /\ credit' = [credit EXCEPT ![s] = v]
-----------------------------------------------------------------------------
ThreadStep(t) ==
  \/ \E s \in Sem : \/ TakeToken(t, s) \/ TakeWait(t, s) \/ Release(t, s)
                    \/ Reset(t, s) \/ Create(t, s)
                    \/ Delete(t, s) /\ UNCHANGED semVars
  \/ TakeReturn(t)
  \/ Removal(t) /\ UNCHANGED semVars
  \/ (Reschedule(t) \/ Sleep(t) \/ SleepReturn(t)) /\ UNCHANGED <<ipcVars, semVars>>

Interrupt ==
  \/ \E s \in Sem : IsrRelease(s)
  \/ /\ Tick \/ TickEnd \/ \E t \in Thread : TimerExpire(t)
     /\ UNCHANGED <<ipcVars, semVars>>

Next == (\E t \in Thread \ {Idle} : ThreadStep(t)) \/ Interrupt

Spec == Init /\ [][Next]_vars
-----------------------------------------------------------------------------
TypeOK ==
  /\ k \in KernelState
  /\ pc \in [Thread -> Location]
  /\ then \in [Thread -> {"user", "woken", "taken"}]
  /\ slice \in [Thread -> Nat \ {0}]
  /\ isr \in {"none", "timers"}
  /\ value \in [Sem -> 0 .. ValueMod - 1]
  /\ credit \in [Sem -> Int]
  /\ IpcTypeOK

(* No token is lost and none is given twice, whatever order releases,      *)
(* timeouts, resets and the waiters' returns come in.                      *)
TokensConserved == \A s \in Sem : alive[s] =>
                     value[s] + Cardinality(WokenFrom(s, "taken")) = credit[s]

(* A token is never kept while somebody waits for one. *)
NoIdleToken == \A s \in Sem : value[s] > 0 /\ alive[s] => k.wait[s] = << >>
=============================================================================
