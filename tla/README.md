# RT-Thread 4.0.1 for the STM32L475: a verification development

The repository is a board support collection: the RT-Thread 4.0.1 real-time
kernel and its components (`rt-thread-4.0.1/`), vendor libraries
(`libraries/`) and seven sample projects (`projects/`). What is its own core
logic, and what all the rest leans on, is the kernel in `rt-thread-4.0.1/src`.
The modules here model that kernel, one C function or one section of it that
runs with interrupts disabled at a time. Paths below are relative to
`rt-thread-4.0.1/` unless they start with `projects` or `libraries`.

The configuration is the one of `projects/*/rtconfig.h`: one CPU, 32
priorities, no `RT_USING_SIGNALS`, no `RT_USING_TIMER_SOFT`, semaphores,
mutexes, events, mailboxes and message queues on.

## 1. Inventory

| Component | State | Operations | What makes it correct |
|---|---|---|---|
| threads, `src/thread.c` | `stat`, `current_priority`, `error`, `remaining_tick`, `tlist` link, built-in timer | init/create, startup, exit, detach/delete, yield, sleep, suspend, resume, change priority, timeout | a thread is in at most one list and its state says which; a timer runs only while its thread is suspended; a closed thread never runs again |
| scheduler, `src/scheduler.c` | `rt_thread_priority_table`, `rt_thread_ready_priority_group`, `rt_current_thread`, `rt_scheduler_lock_nest` | `rt_schedule`, insert, remove, enter/exit critical | the bitmap names exactly the lists that are not empty; the most urgent ready thread runs; equals share round robin; nobody is switched out while the scheduler is locked |
| idle thread, `src/idle.c` | `rt_thread_defunct` | reclaim dead threads, hooks | it frees nothing that is still referred to |
| tick, `src/clock.c` | `rt_tick` | `rt_tick_increase` | the slice of the current thread, then the timers |
| timers, `src/timer.c` | list of active timers, each with its time-out, period and flags | init/create, start, stop, control, detach/delete, `rt_timer_check` | sorted modulo 2^32; each expiry happens once and never early; a stopped timer stays stopped; callbacks may touch their own timer |
| semaphores, `src/ipc.c` | `value`, wait list | take, trytake, release, reset, init/create, detach/delete | tokens are conserved; none is kept while somebody waits |
| mutexes, `src/ipc.c` | `value`, `owner`, `hold`, `original_priority`, wait list | take, release, init/create, detach/delete | one owner; handed over, never stranded; priority inheritance is undone |
| events, `src/ipc.c` | `set`, per thread `event_set`, `event_info`, wait list | send, recv, reset, init/create, detach/delete | a send wakes every waiter whose condition it makes true and no other; a flag is consumed as often as it was raised |
| mailboxes, `src/ipc.c` | ring, `entry`, two wait lists | send (waiting), recv, reset, init/create, detach/delete | values come out once and in order; a timeout is never extended |
| message queues, `src/ipc.c` | free list, FIFO, wait list | send, urgent, recv, reset, init/create, detach/delete | blocks are in exactly one of free list, queue and callers' hands |
| memory pools, `src/mempool.c` | `block_free_count`, `suspend_thread_count`, LIFO wait list | alloc, free, init/create, detach/delete | no block is free while somebody waits; the count of waiters is the length of their list |
| heaps, `src/mem.c`, `memheap.c`, `slab.c` | blocks | malloc, free, realloc | - |
| objects, devices, signals, services | registry, reference counts | find, open/close, ... | - |
| completions, `components/drivers/src/completion.c` | flag, one waiter | wait, done | each done ends one wait |
| data queues, `components/drivers/src/dataqueue.c` | ring, two 16-bit indices, two wait lists, low-water mark | push, pop, peak, reset | values come out once and in order; whoever can go on is woken |
| work queues, `components/drivers/src/workqueue.c` | work list, running work, a flag per work, a timer and a queue pointer per delayed work, a semaphore, the worker thread | submit, critical, cancel, cancel_sync, cancel_all, the timer function, the worker's loop | a work is queued once and not while it runs; flags, list and timers agree; the worker does not sleep while works wait; who waits for a work is told |
| wait queues, `components/drivers/src/waitqueue.c` | list of nodes on the waiters' stacks, sticky flag | wait, wakeup, add/remove | nobody sleeps through a wake-up |
| ring buffers, pipes, `components/drivers/src` | bytes, wait queues | put/get, read/write | bytes come out once and in order |
| frameworks: drivers, dfs, net, libc, finsh, utilities, cplusplus | many | many | built on the above |
| applications and ports, `projects`, `libraries/HAL_Drivers` | board state | samples | built on the above |

How they interact: every blocking call of the IPC objects and the drivers has
the same shape. With interrupts disabled it suspends the caller
(`rt_thread_suspend`), links the caller's `tlist` node in its own wait list and
starts the caller's timer; then it *enables interrupts* and calls
`rt_schedule`. Whoever makes the resource available takes the head of the wait
list and calls `rt_thread_resume`, then `rt_schedule`. The tick interrupt calls
`rt_thread_timeout`, which does the same to a waiter whose time is up. The
waiter finds out which of them woke it from `thread->error`. A thread has one
`tlist` node, shared by the ready lists, the wait lists and the list of dead
threads; that sharing, and the gaps between the sections, are what is hard.

What is hard, and hardly reached by tests: an interrupt in the gap between two
sections of one call; a decision on a state read before interrupts are
disabled; the order of timeout, wake-up and return; a wake-up while the
scheduler is locked; calls that change a priority and do not reschedule;
several mutexes at once; removal of objects somebody waits for. `PROJECT.json`
lists each hazard at its line with the properties that watch it.

## 2. Modules

| Module | Models | State |
|---|---|---|
| `Lists` | `rt_list_remove`, for the lists of the kernel and of the timers | none |
| `Kernel` | the functions every component calls, as operators on a record `k` of the kernel's global state: lists, bitmap, scheduler, suspend/resume/timeout/priority, and the wait-list functions of `ipc.c` | none; also the pieces of the coherence properties |
| `Threads` | a thread in the middle of a call, `rt_schedule`, yield, sleep, the tick interrupt | `k`, `pc`, `then`, `slice`, `isr` |
| `Scheduler` | `thread.c`, `scheduler.c`, `idle.c` as calls threads make about themselves and one another | adds `obj` |
| `Lock` | what a mutex promises: an abstract lock that is handed over | `owner`, `depth`, `want` |
| `Mutex` | the mutexes of `ipc.c`; implements `Lock` once per mutex | adds `mtx`, `arg`, and `held` as history |
| `Ipc` | what every object threads wait for has in common: the waiting part of a call, the wake-up at the end of a section, deletion in its sections, new creation | adds `arg`, `alive`, `lists`, and `wild` as history |
| `Semaphore` | the semaphores of `ipc.c`, on `Ipc` | adds `value`, and `credit` as history |
| `Event` | the events of `ipc.c` | adds `set`, `info`, and `owed` as history |
| `Retry` | calls that wait in a loop with what is left of their timeout; the tick counts for them | adds `left`, `run`, `hand`, and `waited` as history |
| `Channel` | what a mailbox, message queue or data queue promises: an abstract bounded buffer | `buf`, `hand` |
| `Mailbox`, `MessageQueue`, `DataQueue` | the mailboxes and message queues of `ipc.c`, `dataqueue.c`; each refines `Channel` | add `mb`; `mq`, `blk`; `dq` |
| `MemPool` | `mempool.c` | adds `pool` |
| `Completion` | `completion.c` | adds `done`, and `due` as history |
| `WaitQueue` | `waitqueue.c` | adds `wq` |
| `Messaging` | composes the seven kinds of objects above on one scheduler and one tick | all of them |
| `Timer` | the hard timers of `timer.c` and the tick of `clock.c`, sections of the timer calls interleaved with `rt_timer_check` and the functions it calls | `tick`, `list`, `tm`, `pc`, `arg`, `saved`, `isr`, and `fresh` as history |
| `WorkQueue` | `workqueue.c`: clients, worker and timers around one queue | adds `w`, `arg`, and `astray`, what went wrong if something did |
| `MCScheduler`, `MCSemaphore`, `MCMutex`, `MCMessaging`, `MCTimer`, `MCWorkQueue` | values for the constants of the runs | |
| `KernelProofs` | sequences without duplicates (adding, inserting, removing, the least of a set of numbers); what each operator of `Kernel` preserves, for all parameters; what suspending, waking and rescheduling do where threads wait for objects | |
| `SchedulerProofs` | the inductive invariant of `Scheduler` and the theorems | |
| `MutexProofs` | the inductive invariant of `Mutex`, the theorems, and that it implements `Lock` | |
| `WorkQueueProofs` | the inductive invariant of `WorkQueue` and the theorems | |
| `IpcProofs` | the actions of `Threads` and `Ipc` for any object threads wait for | |
| `SemaphoreProofs` | the inductive invariant of `Semaphore` and the theorems | |
| `MessagingProofs` | the inductive invariant of the three buffers of `Messaging`, that no block is lost and that they implement `Channel` | |
| `TimerProofs` | the inductive invariant of `Timer` and the theorems | |

`Threads` abstracts time (a thread timer expires in some later tick); `Timer`
is the module about time, and knows nothing of threads but that one may be in
the middle of a timer call when the tick comes. `Retry` stands between: it
counts the ticks of a wait, because `rt_mb_recv` and its kin compute with them.

Correspondence with the code:

* **One action is one section no interrupt can split.** `rt_thread_delete`, for
  example, is `Delete`, `DeleteTimer`, `DeleteStat`, `DeleteBury`, because it
  enables interrupts three times on its way. A call that keeps interrupts
  disabled across several functions (`rt_sem_take` up to `rt_schedule`) is one
  action that composes their operators.
* **One CPU.** Only the current thread steps (`At`). A switch is an assignment
  to `k.current` inside `Schedule`: the switched-out thread keeps its `pc` and
  goes on there when it is current again. Interrupts happen between any two
  actions; they do not nest, as only the tick and device interrupts matter and
  both keep interrupts disabled where they touch the kernel.
* **Lists** are sequences; a node can be in one list, so `rt_list_remove` of a
  `tlist` node is `Unlink`: out of whichever list has it. That covers the
  ready lists and the wait lists in one operator, as the C code does.
* **Time** is abstract: an armed thread timer expires in some later tick
  interrupt, any number of them in one. Timeouts are thus arbitrary.
* **`slice`** counts the ticks of a time slice.
* **Objects.** An object has the name of its first wait list; `Private` names its
  second (the senders of a mailbox, the pushers of a data queue). `Flag` orders a list: `FIFO` or `PRIO` for
  `ipc.c`, `FIFO` for the drivers, `LIFO` for memory pools, whose
  `rt_list_insert_after` puts the last comer first. A `Messaging` system starts with the lists of one
  object (`lists \in Started`): objects share nothing but threads, scheduler
  and tick, so one at a time, of every kind, covers what they do to each other
  through those.
* **Retries.** `left` is the variable `timeout` of the loop, `run` what
  `rt_tick_get() - tick_delta` would give. In `rt_mb_*` and `rt_mq_recv` the
  rest is computed in the section that waits again (`WaitAgain`); in
  `rt_mp_alloc` interrupts are enabled in between (`MpAllocWoken`, then
  `MpAllocAgain`).
* **Timers.** The C flag bits are the booleans `active` and `periodic`. `wait`
  is the real time left, which the code does not keep: properties compare it
  with what the wrapping comparison decides. `TickMod` stands for 2^32.
* **Work queues.** The worker is at `"user"` inside a work function, which may
  submit works and sleep. The timer function of a delayed work runs in the tick
  interrupt (`WorkTimeout`), as no project configures the timer thread.
  `rt_workqueue_cancel_work_sync` calls `rt_sem_take` with interrupts disabled:
  the switch it asks for is pending until the call enables them, so the
  whole is one action, `CancelSync`. `rt_workqueue_cancel_all_work` walks through the
  list with the scheduler locked and interrupts enabled: `CancelAll`, then
  `WalkFirst`, `WalkNext` and `WalkUnlink` for each node, then `WalkEnd`. A timer function may
  insert a work between any two of them, and in the middle of the
  `rt_list_remove` (`Tears`). The cancellation of a delayed work that is pending
  calls itself through `rt_workqueue_cancel_work`, which dispatches on the type
  (`PendingTest`): `arg[t].depth` counts the calls inside each other, which end only
  if somebody else clears the flag, each by a `Detach` of its own.
  `rt_workqueue_dowork`, `rt_workqueue_critical_work` and
  `rt_workqueue_cancel_work_sync` test no type: any thread may queue a delayed work
  and take it out by them (`MaySubmit`), also while its timer runs or its owner
  cancels it. `rt_thread_resume` of the worker is split
  into its unprotected test and its two sections. Where the code takes the
  head of an empty list for a work, changes the state of a worker that is not
  suspended, submits to `RT_NULL`, uses up its stack or changes a list in the middle of
  another change, `astray` says so and the model stops: what follows is undefined.
* The names `...Always`, `...Quiet`, `...KeepsBit` and so on are *slips*:
  plausible wrong versions of the definition that follows them, which no
  specification uses. Each property of a passing run fails when one is put in.
* History variables (`held`, `credit`, `owed`, `due`, `waited`, `wild`, `fresh`) record what the callers were
  told; no action of the code reads them.

Callers' duties that the kernel states or assumes and does not check: a thread
does not block or exit while it holds the scheduler lock, passes no pointer to
a released object, and does not delete itself or the idle thread. An object is
deleted when nobody but its waiters is in a call about it (`Unused`): a thread
that was woken without an error still looks at the object; and it is created
again when nobody is (`Revive`). A completion has one waiting thread, as
`RT_ASSERT(rt_list_isempty(...))` demands. A timer is used by the thread that
owns it, or by timeout functions only (`Owner`). A delayed work is submitted with a delay and cancelled by one thread (`Owner`),
and that is not the worker; `rt_workqueue_dowork`, `rt_workqueue_critical_work` and
`rt_workqueue_cancel_work_sync` of it may come from anybody. A work does not wait
for its own end (`CancelSync`).

## 3. Runs

| Run | Instance | Result |
|---|---|---|
| `scheduler` | main, idle and three threads, 3 priorities; main sleeps, a (static, with a cleanup function) waits for interrupts, yields, nests the scheduler lock and exits, the more urgent b sleeps (and so wakes under a's lock), c exits or is deleted, is reclaimed and created anew; device interrupts on | 269 thousand states; `TypeOK`, `ReadyQueue`, `TimersOfSuspended`, `HighestPriorityRuns`, `FreedUnreferenced`, `LockKeepsCurrent`, `ClosedStaysClosed` hold |
| `scheduler_live` | main, idle, b at one priority; main suspends, resumes and reprioritises b, locks the scheduler and sleeps; `FairSpec` | 350 states; `ReadyQueue` holds under cross-thread suspend and resume, and so do `RoundRobin`, `SleeperRuns` |
| `scheduler_delete` | main deletes b, which sleeps | `ClosedUnqueued` is violated |
| `mutex` | three threads at three priorities, one `RT_IPC_FLAG_PRIO` mutex, two nested takes, timeouts | 57 thousand states; all properties hold, `ImplementsLock` included |
| `mutex_nested` | two threads, two mutexes, both held at once | `PriorityRestored` is violated |
| `semaphore` | three threads at two priorities, a PRIO semaphore with timeouts, a FIFO one that is deleted and created again; releases by interrupts | 1.6 million states; all properties hold |
| `semaphore_delete` | the semaphore that is deleted is also waited for with a timeout | `ResumesThreads` is violated |
| `messaging` | two threads at priorities 0 and 1, the idle thread and interrupts; one of: an event of two flags, a mailbox of two entries, a message queue of two blocks, a memory pool of two blocks, a completion, a data queue of two entries and low-water mark one, a wait queue of one user; timeouts of two ticks or none; resets; the first four deleted and created again | 1.5 million states (2144 of them the wait queue's); all properties hold, the three refinements of `Channel` included |
| `timer` | one timer of a thread, one of timeout functions; periods 1 and 5, tick modulo 16, one tick of delay | 740 thousand states; `TypeOK`, `NoneOverdue`, `StoppedStays`, `NeverEarly` hold |
| `work_queue` | a worker, one client less urgent than it that makes every call, two plain works; `FairSpec` | 6.7 thousand states; `TypeOK`, `WorkToDo`, `WorkGetsDone` hold |
| `work_queue_shared` | a client more urgent than the worker and one less, one plain and one delayed work; both clients make every call | 2.8 million states; `QueuedOnce`, `FlagFollows`, `SyncAnswered`, `TimerFindsQueue`, `WalkInList` hold |
| `work_queue_cancel` | a client submits a delayed work and cancels it | `CancelReturns` is violated |

What the properties of `messaging` say: `NoSatisfiedWaiter`, nobody waits in an
event for flags that are set; `FlagsConserved`, flags raised and consumed
balance (a `due` count per flag, `owed`); `WaitsInTime`, a thread woken in vain
again and again waits no longer than its timeout; `NoStrandedUser`, nobody
waits for a value, room, a message, a block, a done or a wake-up that is there,
unless as many threads were woken and have not run (a pusher of a data queue is
woken at the low-water mark); `BlocksConserved`, each block of
a message queue is in the free list, in the queue or in one call's hands,
across sends, resets and deletions; `NobodyWaitsForever`, no waiter survives a
deletion; `BuffersAreChannels`, mailboxes, message queues and data queues refine
`Channel`.

The bounds and why they are enough. Two equal threads are needed for round
robin and requeueing, a more urgent one for preemption, a less urgent one (the
idle thread) to fall back on: the scheduler runs have all three. A mutex needs
an owner, a waiter that lends its priority and a third thread for a handover
with somebody left in the list. `MaxHold = 2` makes nested takes distinct from
the last release. `MaxTokens = 1` bounds the tokens the callers are owed, not
the releases; with it tokens are counted, handed over, reset and reset to zero.
`ValueMod` is the real 2^16; the wrap itself is out of the bound and is listed
as a hazard no run covers. `MaxNest = 2` nests the scheduler lock once. Slices
of one and two ticks make a tick that ends a slice and one that does not. In `messaging` two
threads suffice for the races of a waiter with a sender, since interrupts also
send; capacity two tells full from empty and the indices wrap; two messages,
interchangeable (`Alike`), show loss, doubling and disorder. `MaxPend = 3`
lets the count of waiters of a pool exceed the two threads, which it does (a
timed-out thread stays counted), `MaxPut = 3` the indices of a data queue exceed its
size. A timeout of two ticks is cut short once and ends once. In `timer`, the
tick wraps every 16 ticks and period 5 is close to the horizon of 7 ticks,
while `Late = 1` keeps it, as the code assumes, inside. A work queue needs a client that preempts the
worker and one it preempts, and two works to tell the running one from a queued one.
`MaxDepth = 2` is the stack: a cancellation two calls deep shows what each call
does when it returns to another one, the third finds no room.
The runs check for deadlock: the idle thread and the tick never stop. Only
`work_queue_shared` and `work_queue_cancel` do not, as they stop where
`astray` says the behaviour is undefined (finding 4 and divergences 8 and 9 happen
there, and a list torn by a timer function).

What passes only under a condition, and the run that shows the condition
matters: `PriorityRestored` and `OwnerInherits` are checked with one mutex held
at a time (`mutex_nested` shows why); `ResumesThreads`, which no passing run checks,
is proved with deletions of semaphores that are waited for without a timeout
(`semaphore_delete` shows why) and does not hold in `messaging`, where `rt_mp_free` (`MemPool.cfg`) and
`rt_data_queue_reset` (the same with `Started <- OneRing`) break it too: both go on
as if a thread had been there;
`NoStrandedUser` with wait queues that one thread at a time waits in (`WaitQueue.cfg`);
`StoppedStays`, not `StopStops`, holds of timers (`TimerStop.cfg`);
`ReadyQueue` of `Scheduler` with deletions of threads that do not sleep or wait
with a timeout (`scheduler_delete`), and with resumptions nobody races;
`WorkGetsDone` and `WorkToDo` of work queues with one client that is less urgent than
the worker (`WorkQueueLost.cfg`, `WorkQueueEmpty.cfg`), `PendingListed` without
`rt_workqueue_cancel_all_work` (`WorkQueuePending.cfg`); `CancelReturns` and
`CancelledStays` nowhere (`work_queue_cancel`, `WorkQueueDelayed.cfg`).

**Fairness** (`FairSpec`). A thread inside the kernel goes on (`KernelCode`,
strong, since an interrupt may switch it out and back): the processor executes
the instructions of whoever is current. A thread that holds the scheduler lock
leaves the critical section: the kernel cannot enforce it, and without it
nothing is scheduled at all. The tick comes back and ends, and an expiring timer is
not overtaken for ever: `rt_timer_check` loops until no expired timer is left.
A work function returns (strong fairness of `WorkReturn`: it may be interrupted
for long): a queue whose work never ends runs no other, in the code as here. User
code owes nothing else: it may loop for ever, which is what round robin is about.

## 4. Findings

Four runs exhibit a disagreement between a comment or document and the code;
`PROJECT.json` quotes the lines.

1. `rt_thread_delete` of a sleeping thread can leave the closed thread in the
   ready list: its timer expires between the section that unlinks it and the one
   that stops the timer (`scheduler_delete`).
2. Mutexes released in the order they were taken "restore" a boosted priority
   for good (`mutex_nested`).
3. `rt_ipc_list_resume_all`, called by the delete functions with interrupts
   enabled, tests the list outside the section that takes its head
   (`semaphore_delete`).
4. The cancellation of a delayed work that is queued calls itself: `_workqueue_cancel_delayed_work`
   "removes from the queue" by `rt_workqueue_cancel_work`, which for a delayed
   work is `_workqueue_cancel_delayed_work`, with the pending flag still set. Nothing is
   unlinked, and the calls nest until the stack is used up or the flag is cleared by
   somebody else (`work_queue_cancel`). Submitting a queued delayed work again
   takes the same way.

Eight more divergences were met while modelling. They are no runs, but their
configurations are kept: `tlc -config X.cfg M` shows each in seconds.

5. `rt_mutex_release` lowers the owner's priority without rescheduling when it
   wakes nobody; the documented full preemption waits for the next tick
   (`MCMutex`, `MutexPreempt.cfg`: `HighestPriorityRuns`).
6. A one-shot timer started again by its own timeout function is in the list
   but its active flag is cleared after the function returns: `rt_timer_stop` answers
   `-RT_ERROR` and the timer goes off (`MCTimer`, `TimerStop.cfg`: `StopStops`).
7. A thread that timed out in `rt_mp_alloc` leaves the wait list and stays in
   `suspend_thread_count`: a later `rt_mp_free` takes the head of an empty list for
   a thread (`MCMessaging`, `MemPool.cfg`: `ResumesThreads`).
8. The worker of a work queue tests its list and suspends itself in separate
   sections: a work submitted in between, by a client more urgent than the worker,
   is forgotten until the next submission (`MCWorkQueue`, `WorkQueueLost.cfg`:
   `NoForgottenWork`).
9. The worker does not test the list again when it wakes: of two submitters that
   both resume it, the second can send it to an empty list, whose head it takes for a
   work and calls (`WorkQueueEmpty.cfg`: `WorkToDo`).
10. `rt_workqueue_cancel_all_work` leaves the pending flag of the works it removes
   set: they are refused from then on (`WorkQueuePending.cfg`: `PendingListed`).
11. A delayed work whose timer expires between the two tests of its cancellation
   stays queued and runs, although the call answers `RT_EOK` (`WorkQueueDelayed.cfg`:
   `CancelledStays`).
12. A wake-up of a wait queue takes the first node, whose thread may have timed out
   or been woken already and be about to remove the node itself: with two threads
   in the queue the second sleeps on, although the flag is set (`MCMessaging`,
   `WaitQueue.cfg`: `WakeupsAnswered`).

`work_queue_shared` shows besides, without a property of its own, what a timer function can do
to `rt_workqueue_cancel_all_work`: one that moves the node read last to the tail of the
list ends the walk early, with works left; one in the middle of `rt_list_remove` leaves
the list torn (`astray = "list"`).

## 5. Proofs

`SchedulerProofs` proves, for every number of threads, priorities, initial
priorities, slices and for static or created threads with or without cleanup:

* `Types`, `QueueCoherent`, `TimersSuspended`, `FreedSafe`: `Spec => []P` for
  `TypeOK`, `ReadyQueue`, `TimersOfSuspended`, `FreedUnreferenced`, under the
  assumption `OwnCalls`;
* `Closed`: `ClosedStaysClosed`, under `OwnCalls`;
* `Preemptive`: `HighestPriorityRuns`, under `OwnCalls` and `FixedPriorities` (no thread
  calls `rt_thread_control`: a change of priority does not reschedule, and
  `MutexPreempt.cfg` shows a ready thread waiting behind a less urgent one for it);
* `LockHolds`: `Spec => LockKeepsCurrent`, for every workload.

`OwnCalls` restricts the constant `Calls`: threads may start and create others,
change any priority, sleep, yield, suspend themselves, lock the scheduler and
exit, and interrupts may wake them; but no thread resumes, suspends or deletes
*another*. That is not a convenience of the proof: for deletion
`scheduler_delete` shows `ReadyQueue`'s sibling property to fail, and two
resumers of one thread can both pass the unprotected test of
`rt_thread_resume`. Together with the named assumptions on the constants
(`KernelAssumption`, `ThreadsAssumption`, `SchedulerAssumption`), nothing else
is assumed.

The argument. `ReadyQueue` is not inductive: while `rt_thread_startup` is
between its sections the thread it starts is suspended, in no list, and must not
be woken by anybody else; a dead thread must be on its way off the processor
before the idle thread may free it; and the idle thread must always be able to
run, or `rt_schedule` would have nobody to switch to. `IInv` adds exactly that:
`StartInv` (a thread being started belongs to its starter alone, has no timer
and is in no call), `FreshInv`, `ClosedInv`, `IdleInv`, `CurrentInv`,
`DefunctClosed`, `NoneDying`, next to `TypeOK`, `Coherent(k, {})` and
`TimedSuspended(k)`. TLC checked `IInv` as an invariant before it was proved.

`KernelProofs` treats the record `k` alone. `Coherent(k, D)` is the coherence
of lists, bitmap and states in the middle of an operation, when the threads of
`D` are in no list whatever their state says. Each operator has one lemma:
`ScheduleRemoveFacts` takes a coherent kernel to one coherent but for `{t}`,
`ScheduleInsertFacts` back, `ScheduleFacts` composes them, and so on up to
`ThreadTimeoutFacts` and `ChangePriorityFacts`. They rest on a few facts about
sequences without duplicates (`ListWithout`, `ListPrepend`, ...), which
`TimerProofs` takes from an instance of `KernelProofs`.
`SchedulerProofs` then has one lemma per action (`...Keeps`). Most of them go
through `AffectsKeepsIInv`, which says which changes of state (`Affects`) and of
control (`GoesOn`) keep `IInv`. `StepIInv` puts them together, one case per
action, and the last step of each theorem is temporal.

For `Preemptive` the strengthening is `Prompt`: a thread that is not on its way
into `rt_schedule` runs and nobody ready is more urgent, unless the scheduler is
locked, and whoever holds the lock runs. `StarterInv` adds that
`rt_thread_startup`, having resumed the new thread, goes there next.
`ScheduleChooses` says what `rt_schedule` leaves behind (the most urgent ready thread
on the processor), and one lemma per action (`...Good`) shows that the action
ends in `rt_schedule`, heads for it, or touches neither the bitmap nor the running
thread. It is why `SchedulerAssumption` says that `Main` is no less urgent than
the idle thread, which has the last priority there is (`idle.c:286`): else the
system would start with the less urgent of the two on the processor.

`LockHolds` needs none of that: no operator but `Schedule` changes `k.current`
(`FrameFacts`), and `Schedule` does nothing while the lock is held
(`ScheduleFrame`).

`MutexProofs` proves, for every number of threads, mutexes and priorities,
either order of the wait lists and any `MaxHold` and `MaxHeld`:

* `Types`, `Owned`, `Unstranded`, `QueueCoherent`: `Spec => []P` for `TypeOK`,
  `Ownership`, `NoStrandedWaiter`, `ReadyQueue`;
* `Refines`: `Spec => ImplementsLock`, each mutex is a `Lock` handed over while
  somebody wants it;
* `OwnersInherit`, `PrioritiesRestored`: `OwnerInherits` and `PriorityRestored`, under
  `Unnested`: no thread holds two mutexes at a time (`MaxHeld = 1`). With two, the
  priority `rt_mutex_release` restores is one that was inherited: `MutexNested.cfg`.

It assumes `KernelAssumption`, `ThreadsAssumption` and `MutexAssumption` only.
`Ownership` is not inductive either. A timeout takes its thread out of a wait
list and a release hands the mutex to the first thread of one, so the proof has
to know what a waiter is: `WaiterInv` says that each thread in `k.wait[m]` is
suspended inside `rt_mutex_take` of `m` with its error still `EOK`; hence it is
in no other list, a hand-over wakes a thread that will see success, and a timeout
one that will not. `CurrentInv` and `ThenInv` say where a thread is while it
is suspended but still current; `OrigInv` that the priority
`rt_mutex_release` restores is one; and `Sound(k)` (coherent, unlocked, only
suspended threads have timers, the idle thread is never suspended) is what
`KernelProofs` carries through `rt_schedule`, `rt_thread_resume`,
`rt_thread_timeout`, `rt_ipc_list_suspend` and the change of a priority. Those lemmas
sort the operators into calm ones (`Calm`), ones that wake a thread (`Wakes`) and
ones that suspend one (`Suspends`); `CalmKeeps`, `WakeKeeps` and `SuspendKeeps`
then serve all actions. `StepSeen` maps each step to a step of `Lock` or to none.

Inheritance needs an invariant of its own, `LentInv`: with one mutex at a time a thread
either owns one or waits for one (`Apart`), hence the priority a mutex records is its
owner's own (`OrigOwn`) and nobody who waits has a borrowed one; the lists of
priority-ordered mutexes are therefore sorted, and stay so because the
priority of a waiter never changes (`WaitersSorted`). So the thread a release hands
the mutex to is the most urgent waiter and needs no inheritance. That
`rt_ipc_list_suspend` keeps a list sorted, and that waking a thread leaves the
others in their order, are lemmas of `KernelProofs` (`Ascending...`,
`...Order`). The steps that neither lend nor give back a priority are `Quiet`.
TLC checked `LentInv` on two mutexes of different flags first.

`WorkQueueProofs` proves, for every number of threads and works, any
priorities, workload and choice of delayed works and owners: `OnceQueued`
(`QueuedOnce`), `TimersHaveQueue` (`TimerFindsQueue`), `FlagsHonest` (`FlagFollows`)
and, under the assumption `NoCancelAll` that `WorkQueuePending.cfg` shows to be
needed, `FlagsListed` (`PendingListed`); besides, `Types` (`TypeOK`), `Answered` (`SyncAnswered`) and `WalkSafe`
(`WalkInList`). They assume what the module says of the callers of a delayed work
and nothing else: any thread may queue it and take it out by the calls that test no type. The
first four are facts about the queue alone, so nothing of the
scheduler enters: `IInv` says nothing of `k`, and a thread is only at a
place in a call. What it adds to the properties is `DelayedInv`, that only
delayed works are attached and a timer that runs has its flag and its queue; and
`Local`, what the owner of a delayed work may
rely on in the middle of `_workqueue_cancel_delayed_work` although interrupts are
enabled: behind the tests, and while the calls this one is nested in return, its
timer is stopped (`"detach"`), behind the detachment it has no queue (`"attach"`). Each is stable under the steps of the others,
because only the owner starts the timer (`OwnerOnly`, `ControlKeeps`). Neither
excludes that a work is pending while its timer runs, which `rt_workqueue_dowork`
makes possible: then the timer function is answered `-RT_EBUSY`. `FlagsHonest` is an
action property: no step but the walk's own makes a work `Forgotten`, pending and not
in the list. What the theorems say
ends where the model does, at the first step that sets `astray`.

`Answered` does need the threads. `Whole` adds `ThreadInv` to `IInv`: the kernel is
`Steady`, that is `Sound` but for the scheduler lock; who is in the list of
`queue->sem` is suspended in the middle of `rt_workqueue_cancel_work_sync` and is not the
worker; and from the return of a work
function to the next work `work_current` is `RT_NULL` (`BetweenWorks`), so that nobody
begins to wait there. The worker passes from `"ack"` to its next work only by
`Acknowledge`, which empties the list however long it is (`ResumeEach`, by induction
on its length); the worker that is resumed between the two sections of
`rt_thread_resume` is in no list (`ResumeThreads`).

`WalkSafe` is about the walk of `rt_workqueue_cancel_all_work` with the scheduler
locked. `WalkInv`, a part of `ThreadInv`, says that the lock is held exactly while the current
thread walks; that what the walk has read is in the list; and that the next node is not
this one, which follows from `QueuedOnce`. It is stable because only the current thread and
interrupts step while the lock is held: a tick, a thread timer and the timer function
of a work then make threads ready but switch to none
(`ScheduleSteps`, `TimeoutSteps`, `ResumeSteps`), and a timer function takes no work out of
the list (`WalkerKeeps`). `Steps` and its lemmas say of these sections what `Settles` says of
those without a lock.

TLC checked `Whole` with `WorkQueueShared.cfg` and `WorkQueueDelayed.cfg` first.

`SemaphoreProofs` proves, for every number of threads, semaphores and
priorities, either order of the wait lists, static or created, with or without
interrupts that release:

* `Types`, `NothingIdle`, `NobodyLeft`: `Spec => []P` for `TypeOK`, `NoIdleToken`,
  `NobodyWaitsForever`, from the assumptions the modules name
  (`KernelAssumption`, `ThreadsAssumption`, `IpcAssumption`,
  `SemaphoreAssumption`) and nothing else;
* `TakesThreads`: `ResumesThreads`, assuming `Untimed`: no semaphore that is deleted is
  waited for with a timeout. `SemaphoreDelete.cfg` shows what happens otherwise:
  the waiter times out between the test and the section of
  `rt_ipc_list_resume_all`, and its list's head is taken for a thread;
* `Conserved`: `TokensConserved`, assuming `Countable`: there are finitely many
  threads, without which the threads that hold a token could not be counted, and
  fewer tokens are released (`MaxTokens`) than the 16-bit `value` can hold. Beyond,
  the counter wraps and tokens are lost.

`NoIdleToken` (nobody waits while `value` is positive) is not inductive alone: a
semaphore initialised again with tokens must find its list empty, hence
`NobodyWaitsForever`, and that holds only because a deletion that has reached its
last test finds a list nobody enters any more. `TokensConserved` holds only because
the first of the list is a thread suspended in `rt_sem_take` of this very
semaphore with its error still `EOK`, so that it takes the token it is woken for,
and because a timeout leaves it an error. `IInv` therefore holds, besides these two,
`ThreadInv` (`Sound(k)`, and `CurrentInv`, `ThenInv`, `WaiterInv` as for the mutexes),
`DrainInv` (an object in deletion is dead and has one deleter) and `WildInv` (under
`Untimed`, between the test and the section of `rt_ipc_list_resume_all` somebody
still waits). All of it but the value speaks of any object threads wait for, and
so does `IpcProofs`: the places of its calls are parameters (`Places`), and each
action of `Threads` and `Ipc` has one lemma. `rt_ipc_list_resume_all` of
`rt_sem_control` and the tick, both folds in the model, are done by induction on the
length of the list (`ResumeAllFacts`, with `FoldDefined` of `KernelProofs`). `Conserved` counts:
each step that takes a token out of `value` puts one thread into `Taken(s)`, and the
other way round.

`TimerProofs` proves, for every number of timers and threads, any length of the tick
counter `TickMod`, timeouts, owners and timeout functions, periodic or not, from
`TimerAssumption` alone (a timeout is below half the counter, as `rt_timer_start` and
`rt_timer_init` assert, and stays so with the latency `Late` added):

* `Types`, `Punctual`, `Stopped`, `Patient`: `TypeOK`, `NoneOverdue`, `StoppedStays`,
  `NeverEarly`.

The code compares ticks that wrap, the properties speak of the distance to the tick a
timer is due. `Dated` relates the two: `timeout_tick - tick` is that distance or
`TickMod` off, and it stays well within half the counter; from this the comparisons
of `rt_timer_start` and `rt_timer_check` get their meaning (`LaterFacts`,
`ExpiredFacts`, `TickFacts`). `Plan` adds that the list has each timer once and
is sorted by the distance: hence the first not yet due ends the loop of
`rt_timer_check` with none overdue left behind. `ThreadInv` says what a call relies
on across the points where interrupts are enabled (`Relies`: a timer that is out of the list
in the middle of its owner's call stays out), `MadeInv` that timeout functions
find their timers, `OnTime` that between two interrupts no timer
is overdue but those linked since. TLC checked `IInv` on `Timer.cfg` before the
proof. `ThreadInv` is what `StoppedStays` needs and the list alone does not give.

`MessagingProofs` proves of `Messaging`, for every number of threads and of objects of
each kind, any sizes, blocks, messages and timeouts:

* `NoBlockLost`: `Spec => []BlocksConserved`;
* `MailboxesRefine`, `QueuesRefine`, `DataQueuesRefine` and, together, `BuffersRefine`:
  `Spec => BuffersAreChannels`, each mailbox, message queue and data queue is a
  `Channel`.

It assumes what the modules name and nothing else: `MessagingAssumption`, that a list
belongs to one object, and `DataQueueAssumption`, whose `MaxPut < IndexMod` ends
the model before `put_index` wraps, for after that the code has no bounded buffer
(section 6).

`Channel` knows nothing of the scheduler, and neither does the proof: who runs, who waits and
whose timer expires only decides which step comes next. `IInv` is about data and control.
`ControlInv` says at each place of a call which object `arg` names, whether a message
is in the caller's hand and whether a block is (`Seated`). `MailInv` and
`DqInv` say that a ring is one: the offset of the next entry is the
offset of the first plus the count, around the end (`MailRing`, `DqRing`). Offsets that
wrap (`Advance`, the 16-bit indices modulo the size) become plain sequences through
`RingOf`, with a lemma for a put and one for a take (`RingPut`, `RingTake`).
`MqInv` is what `BlocksConserved` lacks to be inductive (`QueueInv`): two sequences
without duplicates and without common blocks exist, one for the queue and one for the
free list, whose blocks the `next` pointers link (`Shape`); the blocks of neither are exactly
those in hands, each in the hands of one thread (`Owned`); and a block in hand
has the content its place in `rt_mq_send` or `rt_mq_recv` promises (`Filled`), so that
the next section links a terminated block, or copies out the message it took. A pointer is
written only by whoever holds the block or in the section that links it; that the
chains of the others stay what they were is `ChainedSame`, and each of the five operations on
pointers has its lemma (`ShapeTake`, `ShapeLinkTail`, `ShapeLinkHead`, `ShapeUnlink`,
`ShapeGive`). `Chain` and the loop of `rt_mq_control` (`Emptied`) are iterations,
recursive functions that follow at most as many pointers as there are blocks; `IterationDefined`
gives them their recurrences, and `Recycles` is the invariant of the loop.

Each action then has a lemma that says what it does to its buffer (`Uses`, `MqDoes`),
and that it leaves the others alone (`Untouched`, `...Still`); `BufferStep` lists
what may happen to the pair of buffer and hands, and `MailChannelStep`,
`DqChannelStep` and `MqChannelStep` find the step of `Channel` for each. `StepKept` puts them
together, one case per kind of object and one for the interrupts.

Only model-checked:

* liveness, everywhere: the prover does not do it under fairness;
* the invariants of `Messaging` that say who waits: `NoStrandedUser`, `WaitsInTime`,
  `NoSatisfiedWaiter`, `FlagsConserved`, and `NobodyWaitsForever` for its objects
  (for semaphores it is proved), and its `TypeOK`, of which `IInv` has the places of
  the threads and the buffers. They need `Sound(k)` through actions `IpcProofs` does
  not cover: `rt_data_queue_reset` drains the lists of an object that stays alive
  while it holds the scheduler lock, which `Sound` and `DrainInv` exclude;
* `WorkToDo` and `WorkGetsDone` of `WorkQueue`, which hold of some priorities and
  workloads only and depend on who is scheduled when;
* the workloads `OwnCalls`, `FixedPriorities`, `Unnested`, `NoCancelAll`, `Untimed` and
  `Countable` exclude.

## 6. Not modelled

Stacks, registers and the context switch itself; names, hooks, assertions
other than those stated as properties; the SMP build, signals, the soft timer
thread (no project configures it); object registry, devices, heaps; contents
of messages; everything in `components/` except completions, wait queues, data queues and work
queues;
vendored code (`libraries/STM32L4xx_HAL`, lwip, uip, freemodbus, elmfat, jffs2,
uffs). Of the mutex, detach and delete; of `rt_thread_control`, the commands
that only call startup, delete or detach (they are those actions); of the data
queue, `peak`, which changes nothing, and the wrap of its 16-bit indices, out
of the bound `MaxPut`; the wrap of the 16-bit `value` of a semaphore and of the 8-bit `hold` of
a mutex, out of theirs. Of work queues, `rt_workqueue_destroy`, which
nothing in the repository calls, and the answers of submissions: the one of a
delayed work whose time comes while it runs is dropped (`workqueue.c:218`, 246);
submissions by interrupts other than the timer function of a delayed work.
Of wait queues, the node functions of `poll`. Pipes are within reach and left to the
plan.

## 7. Plan

1. Done: `Kernel`, `Threads`, `Scheduler` with its proofs; `Semaphore`;
   `Mutex` with `Lock`.
2. Done: `Ipc`, `Event`, `Mailbox`, `MessageQueue`, `MemPool`, `Completion`,
   `DataQueue` with `Channel`, composed in `Messaging`; `Timer`.
3. `Mutex`: detach/delete, exit of an owner, chains of two mutexes.
4. `WorkQueue` with its proofs, `WaitQueue`: done. `Pipe` on top
   (`components/drivers/src`).
5. Proofs: `Scheduler`, `Mutex` with its refinement, `WorkQueue`,
   `Semaphore`, `Timer`, the buffers of `Messaging`: done. Next, on `IpcProofs`:
   `IpcInv` with the places of the seven kinds, with a `Sound` and a `DrainInv` that
   allow for `rt_data_queue_reset`; then `NobodyWaitsForever`, `WaitsInTime`,
   `NoSatisfiedWaiter` and `FlagsConserved`.
