# A TLA+ development of the product-line tool's kernel

The repository is the firmware of an STM32F401CC product-line tool: an application of a few lines
(`src/applications/main.c`, which moves the shell to the USB virtual COM port) on RT-Thread 5.0.2
(`src/rt-thread`), a board support package (`src/drivers`) and vendor libraries (`src/libraries`).  All of
its own control logic is the kernel's: one processor, preemptive priority scheduling with time slices,
interrupts, and IPC objects on which threads block with timeouts.  This directory specifies that kernel in
TLA+, checks it with TLC on small instances and proves its central invariants with TLAPS for all
instances.

The configuration that is modelled is `src/rtconfig.h`: `RT_THREAD_PRIORITY_MAX` 32, no SMP, no SMART, no
signals, software timers in a thread of priority 4, semaphores, mutexes, events, mailboxes, message queues,
memory pools and the small memory heap.

## 1. The system

| component | source (under `src/rt-thread/`) | state | operations | interacts with |
|---|---|---|---|---|
| scheduler | `src/scheduler_up.c` | ready table (a list per priority), its bitmap, current thread, lock nesting | insert, remove, `rt_schedule`, enter/exit critical, start | called by everything that makes a thread ready |
| threads | `src/thread.c`, `src/idle.c` | state, priority, time slice, error, defunct list | create, startup, suspend, resume, sleep, yield, control, delete, exit; idle releases dead threads | scheduler, thread timers, mutexes (priority, deletion of a waiter) |
| tick and timers | `src/clock.c`, `src/timer.c` | tick, ordered timer lists, soft timer thread | tick interrupt, start, stop, control, check | resumes threads whose wait timed out |
| semaphore | `src/ipc.c` | 16-bit count, waiting threads | take, release, reset, detach | thread suspend/resume, thread timer |
| mutex | `src/ipc.c` | owner, 8-bit hold count, cached priority, ceiling, waiting threads; per thread the list of taken mutexes and the pending one | take, release, setprioceiling, detach | the above, and the priorities of other threads |
| event | `src/ipc.c` | 32 bits, waiting threads with the bits and the option they asked for | send, receive, reset, detach | as semaphore; one send serves many |
| mailbox, message queue | `src/ipc.c` | a ring of words; linked nodes and a free list; waiting receivers and senders | send, urgent send, receive, reset, detach | as semaphore; senders and receivers retry after a wakeup |
| memory pool | `src/mempool.c` | free list, its count, waiting threads | alloc, free, detach | as mailbox |
| small heap | `src/mem.c`, `src/kservice.c` | blocks linked by offsets, a hint to the first free one | malloc, realloc, free | serialised by a mutex |
| driver IPC | `components/drivers/ipc/*.c` | ring buffer, completion; data queue, work queue, pipe | put/get, wait/done, push/pop, submit/cancel | interrupt handlers on one side, threads on the other |
| USB virtual COM port | `components/drivers/usb/usbdevice` | output ring, event, connection state, the request of the endpoint, the queue to the usb thread | put a character, send a chunk, packet sent, reset, unplug, requests | driver IPC, event, message queue, the controller's interrupts |
| devices, serial, shell | `components/drivers`, `components/finsh` | reference counts, receive buffers, line buffer | open/close/read/write, callbacks | driver IPC, semaphores |

What is hard in this code: every kernel function is a few regions with interrupts disabled, and between two
regions the tick, a device interrupt and, through them, any other thread may run.  A wait ends in one of
several ways (release, timeout, reset, direct resume, detach, deletion) that race with each other; priorities
are cached in several places (the bitmap, the place in a queue, `mutex->priority`, an inherited priority) and
must follow when they change.  `PROJECT.json` lists these points as hazards, each at its line.

What makes each component correct:

* scheduler: bitmap and table agree; a thread is linked exactly where its state and priority say; the most
  urgent ready thread runs; a lock keeps the processor; peers share it by time slices; a sleeper runs again;
* threads: a timeout finds a suspended thread; a dead thread is released exactly once; error codes tell the
  truth;
* semaphore: tokens are conserved, no waiter while a token is there, waiters served in the promised order,
  nobody left behind by a detach;
* mutex: one owner, who knows it; no lost waiter; no priority inversion along chains; inherited priority and
  ceilings end, and begin, when they should;
* timers: none fires early or is missed, whatever the tick's value; a timer is in one list at most; the timer
  thread sleeps exactly as long as its own timer runs;
* mailbox, message queue: a bounded queue with an urgent end, whatever waits, timeouts, resets and detaches
  do; no receiver sleeps beside a message, no sender beside space, unless somebody is on the way; every node is
  in exactly one place;
* event: nobody waits for bits that are there; what a receiver is told was true at one moment;
* memory pool, heap: blocks are handed to one owner at a time; the chain of heap blocks tiles the memory and has
  no two free neighbours; no waiter is forgotten;
* virtual COM port: bytes leave in order, nothing is left behind by a sleeping thread, and a chunk is reported as
  sent only when the host has it.

## 2. Modules

| module | models |
|---|---|
| `KernelList` | the doubly linked list of `rtservice.h`, a sequence per list head |
| `Scheduler` | scheduler, thread life cycle, idle thread, tick interrupt, thread timers |
| `SchedulerInvariants` | the inductive invariant of the scheduler |
| `IpcList` | `_ipc_list_suspend`: where a blocking thread is queued; the unlinking of all threads that one event serves |
| `Semaphore` | counting semaphore |
| `Mutex` | recursive mutex with priority inheritance and ceilings |
| `Timer` | hard and soft timers, the timer thread, the wrapping tick |
| `Blocking` | what a wait does to a thread: state, timer, `thread->error`; shared by the modules below |
| `QueueCalls` | the calls of a mailbox or message queue, its count of messages and its two lists of waiting threads |
| `Mailbox`, `MessageQueue` | their storage; both implement `BoundedQueue` |
| `WaitList` | the one list of waiting threads of an event or memory pool: how a wait ends, how a detach resumes them |
| `Event` | event flags |
| `MemPool` | fixed-size blocks with waiting threads |
| `SmallMem` | the system heap; implements `Allocator` |
| `RingBuffer`, `Completion` | operators of the ring buffer; the completion |
| `Vcom` | the output path of the virtual COM port, composed of the two above, the usb thread, controller and host |
| `BoundedQueue`, `Allocator` | the abstract specifications |
| `ListProofs` | lemmas about lists and queues |
| `SchedulerProofs`, `SemaphoreProofs`, `MutexProofs`, `TimerProofs`, `QueueProofs` (mailbox and message queue), `WaitListProofs` (event and memory pool), `StorageProofs` (virtual COM port and small heap) | the theorems of these components |
| `MC*` | instances for TLC |

**Granularity.**  A region with interrupts disabled is one action, with everything it calls.  Where a
function enables interrupts in the middle, the module has one action per region: in `Scheduler` through
`pc[t]` (for example `Kill`, `KillRemove`, `KillClose` are the three parts of `rt_thread_delete`;
`Resume`, `ResumeUnlink`, `ResumeInsert` of `rt_thread_resume`; `Sleep`, `SleepMark`, `Schedule`,
`SleepReturn` of `rt_thread_sleep`).  The IPC modules have the same regions: a direct `rt_thread_resume`
is a test of `thread->stat`, an unlinking and an insertion into the ready table (`resume` in `Semaphore`, `op` in
`Mutex`, the state "UNLINKED" in `Blocking`), a delete is an unlinking and a closing (`Mutex`), and a detach tests
its list with interrupts enabled before each region that resumes a thread (the phases of `object`).

**Where a behaviour ends.**  Two things that can happen in these windows leave the kernel in a state about
which the code says nothing more, and the models stop there.

* `raced`: a region acts on a thread that has changed since the test or the region before.  `rt_list_remove` at `thread.c:1068` takes a
  thread that has become READY off its ready list and leaves the bit of the list; `rt_schedule_insert_thread` at `:1080` links a thread
  that is linked again; the second half of a delete queues a thread on the defunct list that a timeout has put into
  the ready table; `_thread_update_priority` queues a thread on a mutex that a resume has just taken off it
  (`ipc.c:813`).  What it does to the lists is in `Scheduler` (one step of it; the corrupted lists lead anywhere after that); the IPC modules
  record only that it happens.
* "halted": a detach has found its list not empty, and when it takes the first thread the last one has timed out.
  The list head is taken for a thread, and the `RT_ASSERT` on its type in `rt_thread_resume` fails (for the list of
  senders and that of a memory pool what lies there is not a kernel object at all).

The properties are claimed of every state up to there; nothing is assumed of the callers that would exclude it.

**Scheduler.**  `current` executes, unless `isr` says that an interrupt handler does.  The tick handler is
four places: slice accounting (`TickIncrease`), its `rt_schedule` when the slice ended (`IsrSchedule`), the
expiry of one timer after the other (`TimerExpire`), and the way out (`IsrLeave`).  A device interrupt that
releases an IPC object is `IsrWake`.  The hardware context switch is deferred to the return from the
interrupt or the end of the region, as PendSV does it.  `group` is the set of bits of
`rt_thread_ready_priority_group`; `number_mask` is always `1 << current_priority` and is not kept apart.
Timer lists are abstracted to the set of armed thread timers and the ticks they have left.  What a thread
does between its calls is open: `Calls[t]` says which calls it makes, `Target[t]` about whom.

**Semaphore and Mutex** do not contain the scheduler: any thread that is not suspended may step, which
includes every choice the scheduler makes, and any armed timer may expire.  A safety property that holds
there holds for every schedule.  The same is true of the modules over `Blocking`.  `held`, `nudged` and `skipped`
in `Mutex` and `credit`, `before` in `Semaphore` are history variables (as are `doomed` and `reprio` in `Scheduler`): they record what threads were told and
what happened to them, and no action reads them.  `Mutex` computes `_thread_update_priority`, which loops over a chain of owners, as the
value of a recursive function after `Rounds` rounds, the number of pairs of a thread and a priority: the loop gives no
thread the same priority twice, so it has ended by then (proved, `UpdateInherits`).

**Timer** gives the tick `TICKS` values, so that every behaviour crosses the wrap-around, and compares
deadlines as the code does, by differences modulo `TICKS` against `HALF` = `RT_TICK_MAX / 2`.  `lists` holds the two
ordered lists, `temp` the list on the stack of each check in which a timer is while its callback runs.
`rt_timer_check` runs with interrupts disabled: `isr` is at the check or in a callback, and only the callback acts.
The timer thread can be interrupted at every `pc`; between `NextTimeout` and `Suspend` or `Delay` anything may be
started.  Start, stop, detach with re-initialisation and control come from threads, interrupt handlers and
callbacks alike.  `due` is a history variable, the ticks left until the timer should fire, counted without
wrapping: the properties compare what the wrapped arithmetic decides with it.  `MaxLate` bounds how late soft timers
are served (the tick waits for them); beyond half the tick range the code's comparisons lose their meaning.
`TimerAssumption` leaves half the range to the delay of a soft timer and twice the lateness, since the timer thread may
act on a deadline that it read a while ago (section 5).
The timer thread's callback may block on an IPC object, without a timeout.  A periodic timer made one-shot during its own callback keeps
its ACTIVATED flag although it is in no list (`timer.c:703`), which is why `LinkedIsActive` is an implication and
not an equivalence.

**Mailbox and MessageQueue.**  `QueueCalls` holds what `rt_mb_*` and `rt_mq_*` have in common.  A call begins
(`Calls`), then looks at the storage in a region of its own, and sends, receives, waits (`Waits`) or gives up;
after a wakeup with `RT_EOK` it looks again, as the code's `while` does, and may find that another thread was
faster.  A timed wait that is repeated uses the time that remains, which may be none (`GivesUp`).  Reset ends all
waits in one region; a detach ends them one by one, receivers before senders, and the object may be initialised again once nobody is left
in a call.  `MessageQueue` has one action per region of the code: a sender unlinks a free node (`Grab`), copies
(`Fill`), links (`Link`, `LinkUrgent`); a receiver unlinks (`UnlinkFirst`), copies (`CopyOut`), frees
(`GiveBack`).  Links and message contents are separate functions of the node, so a node that is freed too early
is really overwritten.  The names of `MessageQueue` that would clash with `Mailbox` begin with `Mq`, and those of `MemPool`
that would clash with `Event` with `Mp`: one proof module speaks about both and shares the lemmas about the calls.

**BoundedQueue** is a sequence of at most `SIZE` messages on which each call takes effect at once, between its
beginning and its end, or fails.  Under the refinement mapping of `Mailbox` the sequence is what lies between the
offsets; under that of `MessageQueue` it is the chain from `msg_queue_head`: a message
arrives when its node is linked and is delivered when it is unlinked, and the copy made later must be of it.

**Event.**  `Satisfied` is the test of send and receive alike.  A send serves every satisfied waiter by the bits
before any CLEAR, and clears afterwards what those with `RT_EVENT_FLAG_CLEAR` took (`Served`, `Narrowed`).

**MemPool** links waiting threads at the head of the list and resumes the head, so the last that came is served
first; the properties do not speak about the order.

**SmallMem** is a byte-addressed heap: `item` maps the offset of each block's header to its `prev`, `next` and
`used`, and `lfree` is the hint to the first free block.  `rt_smem_alloc`, `rt_smem_free`, `plug_holes` and the
in-place part of `rt_smem_realloc` are operators from heap to heap, in the order of the assignments of the code.
Sizes are numbers of a machine word, `WORD` values, and `RT_ALIGN` adds in it: a request close enough to `WORD` is rounded to
0, for which `rt_malloc` hands out the smallest block and `rt_realloc` frees the block it was given (`AlignWraps`).
The calls are serialised by the heap's mutex, so each is one action.  **Allocator** knows only disjoint blocks
within the memory and the calls that hand them out and take them back.

**Vcom.**  Bytes are numbered, so that loss and reordering show.  The vcom thread is split wherever the code
enables interrupts or reads shared state without disabling them: `DataLen` reads the two index words of the ring in two
steps.  The usb thread is the more urgent one, so each message it handles is one action.  The controller holds one
packet; the host may take it, reset the bus, pull the plug, give an address, configure or unconfigure, connect, halt the endpoint and
release it again, or stay silent until the wait of the vcom thread times out.  A message that finds the queue of
the usb thread full is lost (`Signal`).  `state` is `device->state` as far as the code tells it apart.  While the endpoint is
halted (`stalled`) a request is queued (`Enlist`, `ep_in_handler`) and issued when it is released (`ClearFeature`); there is only one
request object, so `queued` is a bit.  The insertion into `request_list` is four stores with interrupts enabled; it is
one action here, though the usb thread could walk the list between them.

Left out everywhere: names, hooks, logging, statistics, the SMP and SMART variants, `RT_KILLABLE` and
`RT_INTERRUPTIBLE` (they differ only for signals, which are not configured).

## 3. Runs

Passing runs:

| run | instance | shows |
|---|---|---|
| `scheduler` | 4 threads (a worker that sleeps and waits, a controller and a driver thread that both start, wake, resume and delete it, idle), 3 priorities, sleeps of one tick, nesting 2; 737 thousand states | all safety properties of the scheduler; every action of the module fires |
| `sched_sleep` | a high thread that sleeps, a low one that locks the scheduler | `SleeperRuns` |
| `semaphore` | 3 threads, 2 of one priority, count up to 2; 757 thousand states | no token or wakeup lost, queue sound and in order |
| `mutex` | 3 threads of different priority, 2 mutexes, recursion 2, a ceiling, timeouts of the middle thread, direct resumes and deletion of the high one, a detach; 504 thousand states | one owner, sound and sorted queues, no priority inversion, the cached mutex priority, and an inherited priority that ends with the last mutex |
| `timer` | one hard and two soft timers, delays of 1 and 2 ticks, a tick of 9 values, soft timers at most a tick late; 828 thousand states | no timer early, no due hard timer missed, lists in order across the wrap-around, the timer thread's own timer runs exactly while it sleeps, and it sleeps no longer than it should |
| `mailbox` | 3 threads, 2 words, 2 messages; 465 thousand states | no lost wakeup; implements `BoundedQueue` |
| `msgqueue` | 3 threads, 2 nodes, 2 messages; 441 thousand states | every node in one place, no lost wakeup; implements `BoundedQueue` |
| `waitlist` | one object: an event with 3 threads, 2 bits and all options, or a pool with 4 threads and 3 blocks; 208 thousand states | nobody waits for bits that are there, what is received was there; blocks accounted for, no lost wakeup |
| `vcom` | a ring of 3 bytes, chunks up to 3, packets of 2, a queue of 2 messages; 3.0 million states | ring order, no stuck output, truthful completion |
| `smallmem` | 96 bytes, requests of 0, 1, 12, 18, 40, 200 and 254 bytes, a word of 256 values, in which the last wraps; 5 thousand heaps | the block chain is sound; implements `Allocator` |

Why these bounds suffice for the cases that matter: three threads are the least with which a wait queue has
an order, a chain of two owners exists (high waits for mid, mid waits for low), a peer can be starved, and a
message can be taken by a thread that comes between the wakeup and the return of another; two
mutexes are the least for a chain and for a cycle of waiting threads; two nested critical sections distinguish
the inner exit from the outer; a sleep of one tick already races with every other step; two soft
timers are the least with an order and with a callback that starts another timer, and with delays of two values a
later start may have the earlier deadline.  A mailbox or queue of two has a full, an empty and a middle state, both
ends distinct, and wraps.  Four threads on three blocks let two wait while two blocks come back.  In `vcom` a chunk is
part of a packet, a full packet (which an empty one must follow) or more than one, and the ring overflows.  The heap
has the header size and alignment of the target and room for five of the smallest blocks: a block can have free
neighbours on both sides, on one or none, and a remainder that is just too small to be split off.

`VIEW` in the configurations drops values that no later step or property reads (a deadline of a stopped
timer, an argument of a call that has returned, a free cell of a ring); each `MC` module says which.  `SYMMETRY` is used
for threads of one priority, messages, bits and blocks, which no definition tells apart, and only in runs without
liveness properties.  `ImplementsQueue`, `MqImplementsQueue` and `ImplementsAllocator` are refinements of safety specifications: an initial
condition and a condition on steps, evaluated for every step that TLC generates.  Deadlock is checked
except for `Mutex`, where an application that takes two mutexes in opposite orders really stops.

Two runs find a violation, a disagreement of the code with a comment of the repository (`findings` in
`PROJECT.json` quotes it):

| run | what the code does |
|---|---|
| `sched_three_peers` | `rt_schedule` clears the YIELD mark before re-inserting the thread, so it goes to the front of its list; of three busy peers one starves |
| `sched_delete` | a sleep or wait that ends between the two regions of `rt_thread_delete` puts the thread back into the ready table, where it stays when it is closed (`thread.c:547`); the instance is that of `scheduler` |

Other points where the code does less than a comment or a name suggests are written into the properties: each
property below is claimed except in the case a history variable names, and without the exception TLC refutes it.

| property | exception | what the code does |
|---|---|---|
| `Mutex!MutualExclusion` | threads in `nudged` | a mutex waiter that is resumed directly returns `RT_EOK` without the mutex (`ipc.c:1201`, `:1303`) |
| `Mutex!PriorityRestored` | `skipped` | a thread that gave up, and inherited a priority before it ran, does not take back the priority it lent; the owner keeps it after its last release (`ipc.c:1320`) |
| `Timer!SleepsNoLonger` | `stale` | a soft timer started between the timer thread's look at its list and its suspend does not wake it (`timer.c:823`) |
| `Vcom!TransmitSound` | not `alone` | after a wait that timed out, the late answer to the old request completes the wait of the next one (`cdc_vcom.c:922`) |
| the scheduler's and the mutex's | `raced` | a resume or a delete meets another wake-up of the same thread (`thread.c:547`, `:1056`, section 2) |
| `SmallMem!ImplementsAllocator` | `AlignWraps` | a request within the alignment of 2^32 is treated as one of 0 bytes (`mem.c:305`, `:436`) |

More that the models show and no property records: a mutex handed over does not raise its new owner to the ceiling
(`ipc.c:1501`); a thread can block on an object after its detach has resumed the others (`ipc.c:366`); a detach whose
last waiter times out at the wrong moment fails an assertion (`ipc.c:246`);
`rt_thread_sleep` that ran its full time can leave `-RT_EINTR` in `thread->error` (`thread.c:650`, against `:654`); the waiters
of a memory pool are served last come, first served (`mempool.c:354`);
`rt_realloc` to a slightly smaller size, where the remainder is too small to be split off, asks for a new block and
fails if there is none (`mem.c:499`).

## 4. Fairness

`FairSpec` of `Scheduler` assumes what the hardware and the code give: the tick is periodic and handlers end
(`WF` of the handler's steps and of the boot), the thread that has the processor completes its kernel calls
and leaves its critical sections, although ticks keep interrupting it (`SF`, since each tick disables the
step for a moment).  Nothing is assumed about which thread is chosen, and a thread need not make any further
call.  The other specifications state no fairness: their properties are about safety.

## 5. Proofs

All of the following are proved by TLAPS for every set of threads, every number of priorities and every
value of the other constants.

**Scheduler** (`SchedulerProofs`).  Assumption: `ConstantsAssumption` (idle has the lowest priority to itself,
is never a target and calls nothing).  Any thread may control any other, sleep, wait and be woken.
`SchedulerInvariant` is `Spec => []IInv`: the types, and as long as no region has acted on a thread that changed under it
(`~raced`), `Sound`, which adds to the checked properties what they need to be inductive: where the current thread may have
blocked (`InvRun`), that idle is always there to be chosen (`InvIdle`), what is not yet possible before the scheduler
starts (`InvBoot`), that only suspended threads have timers (`InvTimer`), that the target of a delete or a resume
under way is one the caller may have (`InvControl`), that the thread idle is about to release stays closed (`InvReap`), and that outside the
windows in which a switch is due nobody more urgent is in the bitmap (`InvHigh`).  The windows themselves need little:
a thread may be suspended and in no list, or READY and in none while a delete holds it (`doomed`); what the next
region finds decides between `Sound` and `raced`.  There is one lemma per action; `rt_schedule` is proved once
(`ScheduleDispatches`, `DispatchKeeps`) and used for a call and for an interrupt.  From it follow
`TypeCorrect`, `BitmapCorrect`, `ReadyTableCorrect`, `RunningCorrect`, `PriorityCorrect`, `TimeoutCorrect`,
`DefunctCorrect` and the action property `LockCorrect`.  The theorems have the exception `raced` of the properties; `sched_delete`
shows that it is needed.

**Lists** (`ListProofs`).  Insertion, unlinking and taking the head keep a list free of duplicates and
change its elements as they should; the priority scan stops at the right place and keeps an ordered list
ordered, by any relation; unlinking a set of nodes leaves the others in place.

**Semaphore** (`SemaphoreProofs`).  `SemaphoreInvariant` proves the type, `WaitersSound`, `NoLostWakeup`,
`TokensConserved`, finiteness of what is counted and, when priorities do not change during a wait,
`QueueInOrder`, together; the parts need each other (a token can be conserved only if a granted thread is off
the list, and so on).  A thread in the window of a resume is suspended and in no list, without a timer; that it can be neither
served nor timed out there is what conserves the tokens.  `OrderCorrect` has the hypothesis `~Reprio`, which is needed: with
`Reprio = TRUE` in `MCSemaphore.cfg` TLC finds `QueueInOrder` violated, since
`RT_THREAD_CTRL_CHANGE_PRIORITY` (`thread.c:881`) does not queue a waiting thread anew.

**Memory pool** (`WaitListProofs`).  `PoolInvariant`: `BlocksAccounted` and `NoLostWakeup` become inductive with
`WaitersLinked` (linked and suspended are the same threads, inside the call, and only their timers run) and `FreedLooks`
(a thread that `rt_mp_free` resumed has not looked at the pool yet, so it still counts as on its way to a block).

**Mailbox and message queue** (`QueueProofs`).  The calls are proved about once for both: that the two lists agree with
the calls under way (`CallsOK`), and what each way into, through and out of a wait does to the number of threads on
their way to a message or to space, which is what `NoLostWakeup` and `MqNoLostWakeup` compare with `entry`.
`MailboxInvariant` adds that the two offsets are `entry` words apart (`RingSound`).  `QueueImplemented` is the refinement
`Spec => ImplementsQueue`: its lemmas say what a put at either end, a take and a reset do to the sequence between the
offsets, across the end of the ring; every action is then a step of `BoundedQueue` or a stutter.
`MessageQueueInvariant` has chains of links in the place of the ring: each of the two list heads leads along `next` to
its own sequence of nodes and ends (`IsChain`); the nodes in the queue, in the free list and in threads' hands are all
the nodes and are disjoint (`NodesSound`), and a thread has a node exactly while its call says so, filled or not
(`HandsSound`).  The lemmas say what pushing, appending and taking a node do to a chain, and that writing the link or the
content of a node in somebody's hands disturbs neither.  From it follow `NodesCorrect`, `MqWakeupCorrect` and, with the
chain of messages as the abstract queue, the refinement `MqQueueImplemented`; a message takes effect when its node
is linked or unlinked, and the copies before and after, outside the protected region, are shown to be of that message.

**Event** (`WaitListProofs`).  `EventInvariant` adds `WaitersLinked`, and `SetSeen`: a waiting thread has seen every bit that
is set, which is what makes `ReceivedSound` survive a send that serves others first.  That clearing bits satisfies
nobody (`FewerBits`) carries `NoSatisfiedWaiter` through receivers that clear.

**Timer** (`TimerProofs`).  `TimerInvariant` adds to the checked properties where the timer thread is and what that says
of its own timer (`ThreadSound`), where a timer is during its callback (`TempSound`), that the deadline of every linked
timer is its due time modulo the range of the tick and near enough for the code's comparison (`DeadlineSound`), and what the
timer thread knows at each place on its way to sleep (`SleepSound`).  Under `DeadlineSound` the test
`(a - b) < RT_TICK_MAX / 2` on wrapped ticks is the comparison of the true times; the order of the lists, `NoneOverdue` and
the action property `NeverEarly` rest on that.  The proof needs one assumption that was not obvious: for soft timers
`d + 2 * MaxLate <= HALF + 1`.  The timer thread reads a deadline, the timer is stopped, and by the time the thread
computes the difference the stale deadline must not seem to lie in the future.  With a tick of 15 values, delays of 1 and
3 and a lateness of 3 TLC finds `SleepsNoLonger` violated.  On the target half the range is 2^31 - 1 ticks, so it excludes
delays of weeks only.

**Mutex** (`MutexProofs`).  `MutexInvariant` proves `MutualExclusion` and `WaitersSound` together with: a mutex is held
as long as it has an owner (`HoldSound`); a waiter's result is `RT_EOK` until its timer or a detach says otherwise, and
only waiters' timers run (`WaitSound`); and whoever will be told `RT_EOK`, not having been resumed directly, is the owner
of the mutex, once (`HandOffSound`).  The last is the heart of it: between the hand-over in `rt_mutex_release` and the
return of the new owner's take the mutex is held by a thread that does not know it.
A thread that a resume or a delete has unlinked (`Away`) is suspended, pends on its mutex and is in no list; the loop of
`_thread_update_priority` stops at it, or queues it anew, which is `raced`.
Every action that changes priorities runs the loop of `_thread_update_priority`, which queues waiting threads anew along
a chain of owners.  `UpdateKeeps` says that after any number of rounds the same threads are in each list, once; it goes
by the least round that would fail, after `RoundsExist` has shown that the recursive function of the rounds
exists.  The argument does not depend on how often the loop runs.
`PriorityInvariant` is about the priorities themselves.  `Lent`: no thread is less urgent than its own priority or than
`mutex->priority` of one it owns, and none is more urgent than that and the ceilings ask for, unless it was passed over
(`skipped`), closed, or lost a mutex by a detach (`Settled`).  `Tracks`: every list is in order, and every mutex has the
priority of its first waiter, or a more urgent one while a thread that gave up has not run or one that is being deleted is not closed.  `PendingSound` ties the
threads that have left a list to the mutex they still have to bring up to date.  The loop itself breaks both parts and
mends them: between its rounds the list of one mutex is in order but for one thread, and the priority of that
mutex may be wrong (`Queued`); that they hold again when it is over needs that it ends.  It does because along a run the new
priorities never become less urgent (`GoesOn`), so that each round gives a pair of a thread and a priority that
was not given before (`GivenAnew`), also round a cycle of threads that wait for each other; the priority that the loop
starts with may be more or less urgent than the old one.  `OrderCorrect`, `InversionCorrect`, `TracksCorrect` and
`RestoredCorrect` follow.  `PriorityInv` was checked by TLC on the instance of the run `mutex` before it was proved.

**Virtual COM port** (`StorageProofs`), for every size of the ring, of the chunks, the packets and the message queue, and
every number of writers.  `RingCorrect`: the mirror bits say on which side of the reader the writer is (`WellFormed`), and
then a forced put, at every position and also on a full ring, appends its byte and drops the oldest one if it must, and
a get takes a prefix (`PutAppends`, `GetTakes`).  `OutputAnnounced`: the vcom thread loads the two index words one after
the other while writers move both; it goes to sleep on what it read, and the invariant `LoadsAnnounced` says that a
reader's word that has changed since was changed by a writer whose event is set or yet to come.  `TransmitCorrect`:
`TransmitInv` follows a request through its packets.  While nothing of an earlier request is left (`alone`), there is one packet with the
controller, one report of it in the queue or one request that waits for the endpoint, never two of them (`InFlight`), the host has exactly what lies before it
(`PacketsFollow`), or the whole chunk when only the empty packet is due (`EmptyFollows`), and the completion comes
last; only a wait that timed out (`late`) leaves something behind.

**Small memory heap** (`StorageProofs`), for every size of the heap, of its items, of the alignment and of
the machine word, and every request; the refinement excepts the sizes that wrap in `RT_ALIGN`.
`HeapInvariant` is `SmemSpec => []HeapInv`, where `HeapInv` says that the blocks are chained both ways without gap
(`Chained`), no two free ones are neighbours (`Coalesced`), `lfree` is the first of them (`FirstFree`), `parent.used` is the sum of
the used ones (`UsedSum`), and every offset is a multiple of `ALIGN`; with `MapThenSumSet` for the sum TLC checked it
on the instance of the run `smallmem` before it was proved.  A free or a cut breaks `Coalesced` at one place (`AlmostCoalesced`),
and `plug_holes` mends it; the proof follows its two halves.  It shows in passing that
neither test for `lfree` being the block merged away can succeed: the free block before it comes first.  The walks of `rt_smem_alloc`
are recursive functions of an offset: `FreeWalk` and `FitWalk` show that such a function exists and what it finds, by the largest
offset at which it would not, as `next` only grows; `FitWalk` needs that no block that fits lies where the loop has given
up (`ptr <= mem_size_aligned - size`).  `SumsExist` does the same for the sum.  `HeapSoundCorrect` and `HeapTypeCorrect` follow.
`HeapImplementsAllocator` is the refinement: a block that is handed out lies between its neighbours and so overlaps none
in use, and `rt_malloc` refuses rightly because unused bytes that follow each other lie in one free block
(`ClearInOne`; this is where `Coalesced` matters to a user of the heap), and because an aligned block that holds the
size also holds the aligned size (`RefusedFairly`; this is where the alignment of the offsets matters).

Only model-checked:

* the liveness properties `SleeperRuns` and `EqualPriorityProgress`: liveness and `ENABLED` are beyond the prover.

## 6. Plan

Done first, because everything rests on it: scheduler, threads, tick; then the semaphore, the kernel's
simplest blocking object, the mutex, its most intricate one, and the timers; then the other IPC objects, the
allocators and the output path of the virtual COM port, with the abstract specifications of a queue and of an
allocator.  Next:

1. The receive path of the virtual COM port.
2. A composition of `Scheduler` with `Mutex`, for priority inversion in time rather than in state.

## 7. Not modelled

`PROJECT.json` lists every component with its status.  Outside the model for good: the assembler context
switch and interrupt masking (assumed to do what their callers rely on), the object registry's names, the USB
descriptors and enumeration beyond its effect on the connection, the shell's line editing, the device framework's
dispatch, data queue, work queue and pipe (used here by nothing but the DMA transmission of the serial layer, which no device asks for),
`kservice.c`'s string functions, the HAL, CMSIS and board set-up code, and everything that this configuration
does not compile (SMP scheduler, slab, memheap, signals, and the dfs, lwip, lwp, fdt and similar components).
