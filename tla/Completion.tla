----------------------------- MODULE Completion -----------------------------
(***************************************************************************)
(* The completions of completion.c: a driver's interrupt, or another       *)
(* thread, tells the one thread that uses the completion that its transfer *)
(* is over.                                                                *)
(*                                                                         *)
(*   done[c]  completion->flag is RT_COMPLETED                             *)
(*   due[c]   dones that set the flag minus waits that returned RT_EOK:    *)
(*            what the callers know, not a variable of the code            *)
(***************************************************************************)
EXTENDS Ipc

CONSTANT Completions   \* the lists that belong to completions

ASSUME CompletionAssumption == Completions \subseteq Queue

VARIABLES done, due
completionVars == <<done, due>>

(* rt_completion_init *)
CompletionInit == /\ done = [c \in Completions |-> FALSE]
                  /\ due  = [c \in Completions |-> 0]

(* "only one thread can suspend on complete" *)
Unshared(t, c) == \A u \in Thread \ {t} : arg[u] = c => "completed" \notin {pc[u], then[u]}
-----------------------------------------------------------------------------
(* rt_completion_wait that finds the flag set. *)
CompletionTake(t, c) ==
  /\ Call(t, c) /\ Unshared(t, c) /\ done[c]
  /\ done' = [done EXCEPT ![c] = FALSE]
  /\ due'  = [due EXCEPT ![c] = @ - 1]
  /\ UNCHANGED <<k, pc, then, slice, isr, ipcVars>>

(* rt_completion_wait that waits; with timeout = 0 it returns and changes  *)
(* nothing.                                                                *)
CompletionWait(t, c) ==
  /\ Call(t, c) /\ Unshared(t, c) /\ ~done[c]
  /\ \E timed \in BOOLEAN : (timed => c \in Timed) /\ WaitIn(t, c, timed, "completed")
  /\ About(t, c)
  /\ UNCHANGED <<alive, lists, wild, done, due>>

(* After its rt_schedule the flag is cleared, whatever ended the wait: a   *)
(* done that follows the timeout is lost.                                  *)
CompletionReturn(t) ==
  LET c == arg[t]
  IN  /\ At(t, "completed")
      /\ done' = [done EXCEPT ![c] = FALSE]
      /\ due'  = [due EXCEPT ![c] = IF k.error[t] = "EOK" THEN @ - 1 ELSE 0]
      /\ Goto(t, "user")
      /\ UNCHANGED <<k, then, slice, isr, ipcVars>>
-----------------------------------------------------------------------------
(* rt_completion_done looks at the flag with interrupts enabled; when it   *)
(* is set it returns.                                                      *)
DoneCheck(t, c) ==
  /\ Call(t, c) /\ ~done[c]
  /\ About(t, c)
  /\ Goto(t, "complete")
  /\ UNCHANGED <<k, then, slice, isr, alive, lists, wild, completionVars>>

Completed(c) == /\ done' = [done EXCEPT ![c] = TRUE]
                /\ due'  = [due EXCEPT ![c] = IF done[c] THEN @ ELSE @ + 1]

(* Slip: the waiter is resumed, the flag stays. *)
CompleteUnset(t) ==
  /\ At(t, "complete")
  /\ due' = [due EXCEPT ![arg[t]] = IF done[arg[t]] THEN @ ELSE @ + 1]
  /\ ResumeFirst(t, arg[t], "user")
  /\ UNCHANGED <<ipcVars, done>>

(* Its section. *)
Complete(t) ==
  /\ At(t, "complete")
  /\ Completed(arg[t])
  /\ ResumeFirst(t, arg[t], "user")
  /\ UNCHANGED ipcVars

(* rt_completion_done in an interrupt. *)
IsrComplete(c) ==
  /\ isr = "none" /\ alive[c] /\ ~done[c]
  /\ Completed(c)
  /\ IsrResumeFirst(c)
  /\ UNCHANGED ipcVars

CompletionStep(t) ==
  \/ \E c \in Completions : \/ CompletionTake(t, c) \/ CompletionWait(t, c)
                            \/ DoneCheck(t, c)
  \/ CompletionReturn(t) \/ Complete(t)

CompletionInterrupt == \E c \in Completions : IsrComplete(c)
-----------------------------------------------------------------------------
CompletionTypeOK == /\ done \in [Completions -> BOOLEAN]
                    /\ due \in [Completions -> Int]

(* Nobody waits for what is done, however late the two sections of a done  *)
(* follow each other, and every wait that returns RT_EOK had a done of its *)
(* own.                                                                    *)
DonesAnswered ==
  \A c \in Completions : /\ k.wait[c] # << >> => ~done[c]
                         /\ due[c] = IF done[c] THEN 1 ELSE 0
=============================================================================
