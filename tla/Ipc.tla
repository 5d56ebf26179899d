--------------------------------- MODULE Ipc ---------------------------------
(***************************************************************************)
(* What every object threads wait for has: lists of waiting threads, calls *)
(* about it that may find it deleted, and its removal.                     *)
(*                                                                         *)
(*   arg[t]    the object t's call is about                                *)
(*   alive[q]  the object of the list q exists; its users stop calling it  *)
(*             when its deletion starts, those who wait are told -RT_ERROR *)
(*   lists     the lists of the objects this system has: it never changes  *)
(*   wild      a call resumed the first thread of an empty list: it took   *)
(*             the head of the list for a thread                           *)
(*                                                                         *)
(* An object has the name of its first list.                               *)
(***************************************************************************)
EXTENDS Threads

CONSTANTS Flag,       \* how a list is ordered: parent.flag of an ipc.c object,
                      \* "FIFO" of the drivers' lists, "LIFO" of memory pools
          Private,    \* the second list of an object; itself if it has one
          Timed,      \* the lists waited in with a timeout
          Deletable,  \* the objects that are deleted and initialised again
          Started     \* the sets of lists a system may start with

ASSUME IpcAssumption == /\ Queue # {} /\ Timed \subseteq Queue
                        /\ Flag \in [Queue -> {"FIFO", "PRIO", "LIFO"}]
                        /\ Private \in [Queue -> Queue]
                        /\ Deletable \subseteq Queue
                        /\ Started \subseteq SUBSET Queue

VARIABLES arg, alive, lists, wild
ipcVars == <<arg, alive, lists, wild>>

IpcInit == /\ AllAsleep
           /\ arg   = [t \in Thread |-> CHOOSE q \in Queue : TRUE]
           /\ lists \in Started
           /\ alive = [q \in Queue |-> q \in lists]
           /\ wild  = FALSE

Call(t, q)  == At(t, "user") /\ alive[q]
About(t, q) == arg' = [arg EXCEPT ![t] = q]

(* The waiting part of every call: thread->error reset, t suspended in the *)
(* list q, its timer started if the call has a timeout; after rt_schedule  *)
(* t goes on from l.                                                       *)
WaitIn(t, q, timed, l) ==
  LET e == [k EXCEPT !.error[t] = "EOK"]
      w == IF Flag[q] = "LIFO"
           THEN [ThreadSuspend(e, t) EXCEPT !.wait[q] = <<t>> \o @]
           ELSE IpcSuspend(e, q, t, Flag[q])
  IN  /\ k.lock = 0
      /\ k' = IF timed THEN TimerStart(w, t) ELSE w
      /\ Goto(t, "sched") /\ Then(t, l)
      /\ UNCHANGED <<slice, isr>>

(* The end of a section: the first waiter of q is resumed, if there is     *)
(* one, and rt_schedule called before the call goes on from l.             *)
ResumeFirst(t, q, l) ==
  \/ /\ k.wait[q] = << >>
     /\ Goto(t, l)
     /\ UNCHANGED <<k, then, slice, isr>>
  \/ /\ k.wait[q] # << >>
     /\ k' = IpcResume(k, q)
     /\ Goto(t, "sched") /\ Then(t, l)
     /\ UNCHANGED <<slice, isr>>

(* The same in an interrupt. *)
IsrResumeFirst(q) ==
  /\ k' = IF k.wait[q] = << >> THEN k ELSE Schedule(IpcResume(k, q))
  /\ UNCHANGED <<pc, then, slice, isr>>

(* The threads a call of l about q was ended for, which have not run since.*)
WokenFrom(q, l) == {t \in Thread : /\ l \in {pc[t], then[t]} /\ arg[t] = q
                                  /\ k.stat[t] # "SUSPEND" /\ k.error[t] = "EOK"}
-----------------------------------------------------------------------------
(* The detach and delete functions: rt_ipc_list_resume_all looks whether   *)
(* somebody waits with interrupts enabled, and takes the first in a        *)
(* section of its own.                                                     *)
Delete(t, q) ==
  /\ Call(t, q) /\ q \in Deletable
  /\ alive' = [alive EXCEPT ![q] = FALSE, ![Private[q]] = FALSE]
  /\ About(t, q)
  /\ Goto(t, "drain")
  /\ UNCHANGED <<k, then, slice, isr, lists, wild>>

DrainCheck(t) ==
  /\ At(t, "drain")
  /\ Goto(t, IF k.wait[arg[t]] = << >> THEN "gone" ELSE "resume")
  /\ UNCHANGED <<k, then, slice, isr, arg, alive, lists, wild>>

DrainOne(t) ==
  /\ At(t, "resume")
  /\ \/ /\ k.wait[arg[t]] # << >>
        /\ k' = IpcResumeError(k, arg[t])
        /\ Goto(t, "drain")
        /\ UNCHANGED wild
     \/ /\ k.wait[arg[t]] = << >>
        /\ wild' = TRUE
        /\ Goto(t, "drain")
        /\ UNCHANGED k
  /\ UNCHANGED <<then, slice, isr, arg, alive, lists>>

(* Slip: the senders of a mailbox are not resumed. *)
RemovedAtOnce(t) ==
  /\ At(t, "gone")
  /\ Goto(t, "user")
  /\ UNCHANGED <<k, then, slice, isr, arg, alive, lists, wild>>

(* A mailbox then resumes the senders; the object is removed. *)
Removed(t) ==
  /\ At(t, "gone")
  /\ About(t, Private[arg[t]])
  /\ Goto(t, IF arg[t] = Private[arg[t]] THEN "user" ELSE "drain")
  /\ UNCHANGED <<k, then, slice, isr, alive, lists, wild>>

(* An object is initialised in the same memory, which nobody uses. *)
Revive(t, q, inside) ==
  /\ At(t, "user") /\ ~alive[q] /\ q \in Deletable \cap lists
  /\ \A u \in Thread : arg[u] \in {q, Private[q]} =>
       {pc[u], then[u]} \cap (inside \cup {"drain", "resume", "gone"}) = {}
  /\ alive' = [alive EXCEPT ![q] = TRUE, ![Private[q]] = TRUE]
  /\ UNCHANGED <<k, pc, then, slice, isr, arg, lists, wild>>

Removal(t) == DrainCheck(t) \/ DrainOne(t) \/ Removed(t)
-----------------------------------------------------------------------------
IpcTypeOK == /\ arg \in [Thread -> Queue]
             /\ alive \in [Queue -> BOOLEAN] /\ lists \in Started
             /\ wild \in BOOLEAN

(* When a deletion is over nobody waits for the object. *)
NobodyWaitsForever ==
  \A q \in Queue : ~alive[q] /\ k.wait[q] # << >> =>
    \E t \in Thread : \/ pc[t] \in {"drain", "resume"} /\ q = arg[t]
                      \/ /\ pc[t] \in {"drain", "resume", "gone"}
                         /\ q = Private[arg[t]] /\ q # arg[t]

(* rt_ipc_list_resume_all: "get next suspend thread".  What it takes from  *)
(* the list is a thread.                                                   *)
ResumesThreads == ~wild
=============================================================================
