# Formal verification of the stm32_marvell firmware

The repository is firmware for an STM32F103 board with a Marvell 88W8801 Wi-Fi
chip on SDIO: the uC/OS-II kernel, a Linux-like API over it (`kernel/api`:
threads, work queues, wait events, timers, spin locks, a heap), Marvell's Linux
WLAN driver ported onto that API (`net/wlan_src`: the OS-dependent `mlinux`,
called MOAL, and the OS-independent `mlan`), the lwIP stack, a supplicant, DHCP,
and a small application. This directory holds TLA+ models of the parts whose
correctness depends on interleavings, on long sequences of calls or on
arithmetic at a boundary, the TLC configurations that check them, and proofs
that TLAPS checks.

Contents: 1 inventory, 2 the modules and the code, 3 the runs, 4 the proofs,
5 where the code and its comments disagree, 6 not modelled, 7 what could come
next.

## 1. Inventory

### Scheduling, and who calls whom

uC/OS-II schedules by fixed priorities and preempts. `config/app_cfg.h:23-43`
gives them: the MOAL work queue (11) runs above the TCP/IP thread (13), the timer tasklet (14), the monitor, the reassociation
thread, the application's threads and, last, the kernel's own timer task
(`OS_TASK_TMR_PRIO`). So the driver thread preempts the timer tasklet at any
instruction; the tasklet gets the CPU only when the driver thread waits.
Interrupt handlers run above all of them; spin locks disable interrupts. (The
SDIO thread's priority, 12, is unused: its creation is commented out.)

- SDIO interrupt handler -> `sdio_int_pending`, `queue_work` of the MOAL work
  queue, whose function reads the status registers (`mlan_interrupt`).
- MOAL work queue thread -> `mlan_main_process`: received data (to the reorder
  windows, then to lwIP's mailbox), events, commands, transmission.
- lwIP's thread -> transmit path -> RA lists of `mlan_wmm.c` -> `queue_work`.
- Console, supplicant and application threads -> ioctl requests -> wait for an
  event -> completed by the MOAL work queue thread.
- Kernel timer task -> timer callbacks -> `schedule_timer_tasklet` -> timer
  tasklet thread -> the function of the timer (`wlan_flush_data`, command
  time-out, ...).
- Everybody -> the heap, under one mutex.

### Components

| Component | State | Operations | What is hard | What makes it correct |
|---|---|---|---|---|
| Work queues, timer tasklet (`kernel/api/src/task.c`, `wait.c`) | intrusive list `pHead`, `pTail`, `size`; event (semaphore); each item's `pNext` | `schedule_work`, `schedule_timer_tasklet`, worker loop, create, destroy | callers in interrupts and threads; the item is linked and the event posted in two steps; no "pending" flag | each scheduled item is run, in order; no event lost; list and size agree |
| Heap (`memory.c`) | blocks `next`/`prev`/`used` inside a pool, `lfree`, `ram_used`, guard words | `mem_malloc` (two attempts), `mem_free` + `plug_holes`, `mem_trim`, `mem_slide_check` | long sequences of splits, merges and shrinks; a search pointer that may go stale; near fits | blocks tile the pool; `lfree` is the lowest free block; holders never share memory; NULL only when nothing fits |
| 802.11n receive reordering (`mlan_11n_rxreorder.c`) | per stream: `start_win`, `rx_reorder_ptr[]`, timer flag, `force_no_drop`; `rx_seq[]` | packet, BAR, firmware drop, ADDBA, DELBA, flush | numbers wrap; flush and handlers in two threads with a lock around single accesses; timer freed while its expiry is queued | order, nothing lost or twice, nothing waits for ever, nothing fresh is dropped |
| Timers (`timer.c`, `os_tmr.c`, `moal_main.h`) | the wheel, per-timer state, delay and period | `timer_setup`, `add_timer`, `mod_timer`, `del_timer`, expiry, MOAL start/cancel/free | three layers of states; fields written without a lock; queued expiries | a started timer expires once, a stopped one not at all |
| Semaphores, mutexes, mailboxes, queues (`sem.c`, `mutex.c`, `mbox.c`, `msg_q.c`, `atomic.c` over `os_sem.c`, ...) | counts, waiters | pend, post, delete, abort, time-out | refusal in interrupts and with the scheduler locked; delete with waiters | mutual exclusion, no token lost |
| uC/OS-II and its port (`os_core.c`, `os_cpu_c.c`) | ready list, scheduler lock, ticks | scheduling, time-outs | the tick and a post race for a waiter | no task is forgotten; the rest is assumed |
| SDIO interface (`mlan_sdio.c`, `moal_sdio_mmc.c`) | port bitmaps, current ports, `sdio_ireg`, aggregation buffers | interrupt status, read and write ports, command port | stale bitmaps, ports out of step, a step of several failing | ports used in turn, no data left in the card |
| Main process, commands, power save (`mlan_shim.c`, `mlan_cmdevt.c`, `mlan_init.c`, `mlan_misc.c`, `moal_main.c`) | processing flag, command queues, current command, power-save state | main loop, send, response, time-out, sleep handshake | the flag against interrupts; a time-out against a late response | one command at a time, each answered once, no interrupt left unserved |
| Ioctl requests (`moal_ioctl.c`, `moal_shim.c`) | request, wait queue, `wait_condition`, `ioctl_pending` | request, wait, completion, cancel | a shared event whose waiters do not look at the condition again; a completion that does not wake | each waiter gets its own answer |
| Transmit queues, aggregation (`mlan_wmm.c`, `mlan_11n_aggr.c`, ...) | RA lists, `tx_pending` | enqueue, dequeue, aggregate, complete | 8-bit counters, increment after the fact | counters balance, packets in order |
| Station/AP control (`mlan_join.c`, `mlan_scan.c`, ...) | per-interface configuration | requests to firmware commands | mostly encoding | - |
| Linux layer (`wlan_src/user`) | - | spin locks, sk_buffs | - | primitives of the models |
| lwIP port (`sys_arch.c`, `ethernetif.c`) | mailboxes, semaphores | post, fetch, time-outs | NULL messages, space semaphore | no message lost |
| Supplicant (`wpa.c`), DHCP (`udhcp`) | key state, leases | handshake, leases | retransmission | - |
| Application, board drivers, third-party code | - | - | late completion in `usart.c` | - |

`PROJECT.json` lists every component with its files, and every hazard with the
line where it bites and the properties about it; the hazards without a property
say why there is none.

## 2. The modules and the code

| Module | Role |
|---|---|
| `WorkQueue` | the work queue of `task.c` with its callers and its worker |
| `WorkFifo` | what a work queue promises: each item run, one at a time, in order |
| `MCWorkQueue` | the firmware's kinds of work queue, as three instances of `WorkQueue` |
| `Heap` | the heap of `memory.c` |
| `Allocator` | what the heap promises its callers |
| `Semaphore` | `os_sem.c` with the scheduler and the tick, under `mutex.c`, `wait.c`, `sem.c` |
| `PrioSemaphore` | what a semaphore promises |
| `Timers` | the timer wheel of `os_tmr.c` and `timer.c` over it |
| `TimerService` | what a timer promises: it fires the asked number of ticks after it was started |
| `RxReorder` | one receive window with its driver thread, tasklet, timer and peer |
| `ReorderWindow` | what a receive window promises: packets leave it in order, and it never leaves a packet behind |
| `Commands` | requests, the command queue, the main process, the command timer and the card |
| `RequestLine` | what the driver promises threads with requests: served in order, answered once, given up only by threads that share an event |
| `PowerSave` | the main process with interrupts, events, data and the sleep handshake, and the card |
| `SdioPorts` | the data ports of the SDIO interface, with the lists that feed them, and the card |
| `PacketChannel` | what one direction of the data ports promises |
| `WorkQueue_proof`, `Heap_proof`, `Semaphore_proof`, `Timers_proof`, `SdioPorts_proof`, `Commands_proof`, `RxReorder_proof`, `PowerSave_proof` | theorems about the module each is named for (`WorkQueue_proof` extends `MCWorkQueue`) |

How they fit together. `Timers` hands an expiry to the timer tasklet, which is a
`WorkQueue`; its items are what `RxReorder` (`TimerExpires`, the flush) and
`Commands` (`TimerExpires`, `Timeout`) take up. The interrupt of `Commands` and
of `PowerSave` queues `main_work` on a `WorkQueue` with one item. A worker's
event, a request's event and the heap's mutex are `Semaphore`s. `PowerSave` and
`Commands` are two views of one main process: the first with one anonymous
command and every other reason to go round the loop, the second with the
identity of each command and request. `SdioPorts` opens up the rings of data
ports, which in `PowerSave` are one port to the card and a set of ports from it. The modules are not checked as one
product, which is far out of TLC's reach; each uses of another what that one's
runs or proofs establish, as said with each below.

Definitions named "mutant" in a comment are wrong on purpose: each is a
plausible bug, and TLC finds the property it is listed with violated when it
replaces the definition of the code. No specification uses them.

**WorkQueue.** `next`, `head`, `tail`, `size` are `work_struct.entry.pNext` and
the list's fields, `sem` the count of the event, which stops at its maximum as
`OSSemPost` does. `insertTailList` runs with interrupts disabled and is one
action (`ScheduleInsert`), the post that follows another (`WakeUp`), so anything
may fall between them. The worker wakes, tests `size`, removes the head with
interrupts disabled, calls the function, and tests again (`WorkerWake`,
`WorkerEmpty`, `WorkerRemove`, `WorkerNoEntry`, `WorkerRan`). The removed item's
function runs outside any lock and may itself take arbitrarily long; a new
request for the same item in that time is the ordinary case. `Callers` are
execution contexts, so one of them has one request under way; that a function
schedules work from the worker itself is one more caller. `Requeue` says
whether callers link an item that is linked already. They do for the MOAL queue
(one item, `main_work`, queued by the interrupt, the transmit path and the
ioctls); for the tasklet's queue, one item per timer, it happens when a timer is
started again and expires before its item was removed.

**Heap.** Addresses and sizes are counted in words of `MEM_ALIGNMENT` bytes, so
the alignment of a request is done before the model sees it; a request larger
than the pool is refused in the code before anything else and is not among the
`Requests`. `heads` is the set of addresses of the headers the list goes
through. Each operation holds the mutex and is one action: `Malloc`, the failed
first attempt (`MallocAgain`), the failed second one (`MallocFails`), `Free`
with `plug_holes`, `Trim` and `TrimKeeps`. Other threads act between the two
attempts. `want` records what a block's holder may write. `mem_calloc` and `mem_realloc` are sequences of these.

**RxReorder.** One stream of the station role. `rx` is the driver thread inside
a handler, `fl` the tasklet inside `wlan_flush_data`. A handler goes through the
steps of the code: the test for stale packets, the new window
(`wlan_11n_dispatch_pkt_until_start_win`: one slot at a time, then the
rotation), the store, the scan (again slot by slot, then the rotation), and the
timer. A packet is its number in the peer's stream, and its sequence number is
that number modulo `MaxSeq`; so the model knows the true order when the numbers
wrap, which the code does not. The scheduler is in two predicates: `RxMay` (the
driver thread can start a handler) and `LowMay` (the tasklet and the kernel's
timer task have the CPU). With `Overlap = TRUE` they say what priorities give:
the driver thread starts whenever it is ready, the others run while it waits,
which it does between handlers and where a dispatched packet blocks in lwIP's
mailbox. With `Overlap = FALSE` a flush and a handler exclude each other.
The peer is external: it sends the packets of its own window in any order, as
often as it likes, gives packets up, sends BARs, asks for the stream again,
ends it, or falls silent. `Near` is the one assumption about it: it stays within
half the number space of the receiver, which block ack requires of any peer.

**Commands.** A request goes from a thread (`woal_request_ioctl`) through the
command queue to the driver thread, the card, back to the driver thread and, by
an event, to the thread. `pc` is where each thread is; a thread that wakes and
finds its condition false goes on to cancel (`Cancel`, in the steps between
which the command lock is given up). `mlan_ioctl` holds `driver_lock`, that is,
interrupts are disabled, so that queuing a command is one step. `wpc` is where
the driver thread is: it preempts all others, so it is interrupted only where it
waits, and those places are the values of `wpc`: for the registers (`regs`), the
answer (`read`), the heap in the handler of the answer (`handler`) or in the
release of a node's buffers (`clean`, `abandon`), the write (`send`). The others
act only then (`OthersMay`). `curr`, `pending`, `free`, `pioctl`, `canceled` are
the code's `curr_cmd`, `cmd_pending_q`, `cmd_free_q`, and each node's
`pioctl_buf` and `CMD_F_CANCELED`. `runs` is how often `main_work` is due, which
`CounterShape` of `WorkQueue` says is all its queue knows. `timerOn`, `timerSet`
and `expiry` are the timer, the driver's flag for it and the expiry in the
tasklet's queue: three things that the code keeps and that may disagree.
The threads of one interface share its event (`eventOf`); each way to share is
an initial state. The card is external: it answers the command it has, once.

**Semaphore.** A task is its priority. `cnt`, `grp`, `rdy`, `cur`, `lock`, `dly`,
`pend` are the fields of the ECB, the TCBs and the scheduler; `OSTCBStat` is
folded into `pc` and `dly`. A critical section is one action, the tests before
it are another (`PendTests`), since an interrupt, and through it a task, may act
between the two. Every action ends in the scheduler (`Dispatch`), which does
nothing while it is locked. `PendReturns` is what `OSSemPend` does once the task
has the CPU again: until then a task that timed out is ready *and* on the wait
list, and a post may still give it the token. `OSTimeTick` has one critical
section per task; as they touch different tasks and only decide who may be
scheduled after the last of them, one action stands for the loop.
`held`, the tasks whose pend was successful, is what the callers know; `total`
is a history variable. One event is modelled; that a task is suspended, or that
an ECB is deleted and created again for another purpose, is not.

**Timers.** Every function of `os_tmr.c` locks the scheduler and is one step for
other threads; `mod_timer` takes no lock and is three (`ModTests`, `ModWrites`,
`ModStarts`), between which the timer may expire, be stopped, be freed, or be set
up again for another owner. `OSTmr_Task` keeps the lock over the walk of a spoke,
but interrupts, and with them the tick, come between its turns (`WalkStarts`,
`WalkTimer`, `WalkEnds`). A spoke is a set: the order of its list decides only
in which order callbacks are handed over. `OSTmrDly` and `OSTmrPeriod` are always
written together and are one variable. `OSTmrCreate` takes any free timer here,
the first one in the code.

**PowerSave.** `pc` is where the main process is between two transfers or tests
of what others write: `work_struct` queued and `sdio_int_pending`
(`StartWork`), the read of the registers, the uploads (one port at a time: the
control port, then the data ports of `DataPorts` in any order; any of them may
fail after others were read), the
head of the loop, the confirmation, the command, the packets. Interrupts,
senders and the firmware act between any two steps. `received` holds the three
flags of `IS_CARD_RX_RCVD`. `line` is taken once per interrupt status: the
handler acknowledges the interrupt (`sdcard.c:950`) and leaves it unmasked, so a
status that stays set does not keep it pending. The firmware asks to sleep,
takes the confirmation, confirms or refuses it, sleeps when it owes the host
nothing, and wakes by itself or by `HOST_POWER_UP`. At most one transfer fails
that a card which is awake could have taken; to a sleeping card all fail.

**SdioPorts.** Ports are numbers in two rings (1 to `EndPort` - 1 for the host's
packets, 1 to `MaxPort` - 1 for the card's, and port 0). The host has its copy of
the registers (`regs`), the bitmaps made from it and an index in each ring; the
card has the ports themselves and indices of its own. One turn of a loop up to
and with its transfer is one action, as only the card acts meanwhile. `queue`
is one receiver's list in `mlan_wmm.c`; a packet for which there is no port goes
back to its head, marked (`NoWrPort`), and is then sent by another function.
The bypass list uses the ports the same way. Aggregation over ports is not
compiled. `failed` allows one failing transfer, whose packet may have gone or not.

## 3. The runs

| Run | Bounds | Shows |
|---|---|---|
| `WorkQueues` | three items linked once each, two callers; one item, three callers, up to 5 links; two items linked at will, two callers, up to 4 links; event maximum 2 or 3 | `ListShape`; `FifoSpec`: the tasklet's queue implements `WorkFifo`, liveness included; `MoalWorkRuns`: the one item of MOAL's queue, linked again and again, is run whenever a run is owed; `AnyWakeUpKept`: the wake-up protocol does not depend on the links, even when links get lost |
| `Heap` | pool of 28 words with the real header, smallest block and guard (4, 3, 1), two threads, requests of 1, 3 and 6 words | `ListSound`, `FailsOnlyWhenFull`, `AllocatorSpec` |
| `Semaphore` | three tasks, counts up to 2, up to 3 tokens, no time-out or one of 2 ticks | `TokenOrWaiter`, `NoLostWaiter`, `TokensConserved`; `AbstractSpec`: `PrioSemaphore` is implemented; `TopPendReturns`: the most important task's timed wait ends, whatever the others do |
| `Timers` | two timers, two threads, two spokes, a clock that counts modulo 3, delays 1 and 2 | `WheelSound`, `NeverMissed`; `TimerServiceSpec`: each timer fires the asked number of ticks after its last start; `RunningEnds`: restarts cannot put an expiry off for ever |
| `RxReorder` | number space 12, window 3, packets 10 to 13 (the wrap is between 11 and 12), every event, `Overlap = FALSE` | `SlotSound`, `InOrder`, `NothingLost`, `TimerCovers`, `FreshKept`; `WindowSpec`: the slots implement `ReorderWindow`; `EveryPacketLeaves`: nothing waits for ever although the peer falls silent |
| `Commands` | two threads on one interface or two, two nodes, event maximum 2; lost nodes, failing writes, bad answers, stray interrupts | `NodesAccounted`: a node is in one place; `AnswerIsCurrent`: what the card has or answered is `curr_cmd`; `OwnAnswer`: a thread alone on its event gets its own answer; `LineSpec`: the threads see a `RequestLine` |
| `CommandsReturn` | the same; bad answers, no failing write | `NothingStalls`: no answer stays unseen and no command waits without work that is due or an answer on its way; `EveryRequestReturns` |
| `PowerSave` | queues of one command and one packet, two data ports from the card, one failing transfer at any point | `AnswerExpected`: an answer finds the host waiting for that kind of answer; `NothingOverwritten`: an upload finds its place empty; `SleepsTogether`: a host that sleeps does so with a card that sleeps, unless the card's interrupt is on its way, failures included; `NoneStranded`: the main process never ends with something left to do and no card to bring it back; `EverythingMoves`: liveness of queues and handshake; `SleepKeptInLoop`: while no transfer fails, data that comes with the answer to the confirmation does not take the host out of `SLEEP` |
| `SdioPorts` | two ports to the card, three data ports from it and port 0, four packets each way, one failing transfer | `NeverOverwrites`, `NoneForgotten`; `NeverStuck`: the host does not wait for an interrupt that does not come; `ChannelSpec`: either direction implements `PacketChannel`; `EveryPacketArrives` |
| `CommandsShared` | as `Commands`, nothing fails | violation of `WaitsUntilComplete`, see 5 |
| `RxOrder`, `RxOverlap` | as `RxReorder`, packets 10 to 14, with the events named in the configuration | violations, see 5 |

*Why the bounds are enough.* An event maximum below the number of links makes
the refused post happen. Three items give a list with a first, a middle and a
last one. In 28 words up to four smallest blocks fit, so that a block has free
and used neighbours on both sides; 1, 3 and 6 words give requests below, at and
above the smallest size and free blocks larger than the request by less than a
header. Three slots give a window a first, a middle and a last slot; twelve
numbers keep the window below half of half the number space, the relation the
real numbers (at most 64 of 4096) have, and four packets with windows before
and after them cross the wrap in every phase. `MaxFlushes = 1`: an expiry
empties the whole window, a second queued one finds the next state of it.
Two requests and two nodes in `Commands` give one command with the card and one
behind it; with an event maximum of 2 the posts that nobody waits for reach it.
`MaxRuns` lets a request or a stray interrupt begin only while `main_work` is
not due; what is under way then still queues it up to four times. In
`CommandsReturn` no stray interrupt comes to the rescue of a request that was
forgotten.
Three tasks in `Semaphore` give a holder, a more and a less important waiter;
more tokens than the largest count make the refused post happen. Two timers
share a spoke or not, and the clock wraps within every delay and between two
turns of the wheel (the modulus is no multiple of the spokes, which on target it
is). With queues of one in `PowerSave`, "a full queue moves" and "the command
leaves" are the same; a second command only repeats what the first one met. Four
packets go round either ring of `SdioPorts` more than once, and the rings differ
in length, as the card's may.
`MaxSize`, `First`, `Last`, `MaxFlushes`, `MaxRuns`, `MaxTotal`, `MaxQueue`,
`MaxTx` and `MaxRx` are bounds of the models, not of the code.

*Symmetry* is not used by any run.

*Deadlock* is checked except in `RxOrder` and `RxOverlap`, where the
peer runs out of packets and the stream may rest; in `SdioPorts`, where all may
be sent; and in `PowerSave`, where after a failed transfer the full queues may
stay as they are (see 5).

*Fairness.* `WorkQueue`: weak fairness of the worker, a thread that waits only
for its event in a preemptive kernel whose work functions return, and of a
caller that has linked an item and goes on to post. Callers need not call.
`RxReorder`: a handler runs to its end (weak fairness of `RxStep`). The timer
task and the tasklet have lower priorities and run only when the driver thread
waits; it does so again and again but not for good, hence strong fairness of
`TimerExpires` and `FlushStep`. The peer has none. `Commands`: weak fairness of
the driver thread, which waits only for transfers and the heap; strong fairness
of each thread that has a request, for the same reason as above; weak fairness
of the card's answer, however late. The command timer has none: a time-out may
come or not. `Semaphore`: the tick, the return of a task that has the CPU from
`OSSemPend`, and the end of a scheduler lock; not that tasks ever post.
`Timers`: the tick, and the timer task, which is the least important one but
gets its turn because the others mostly wait. `PowerSave`: the main process (its
work queue's thread runs, by `WorkQueue`), the interrupt, and of the firmware
what it has been given or has begun; it need not send, ask to sleep, or wake
without `HOST_POWER_UP`. `SdioPorts`: the main process, and the card taking what
it is given. Where a property is about progress and a failed transfer may end
it, the property says so (`\/ failed`).

## 4. The proofs

`tlapm` checks every step of the eight proof modules; the theorems hold for every
value of the constants that satisfies the assumption its module states
(`WorkQueueAssumption`, `HeapAssumption`, `SemaphoreAssumption`,
`TimersAssumption`, `SdioPortsAssumption`, `CommandsAssumption`,
`RxReorderAssumption`, `PowerSaveAssumption`). The assumptions bound sizes, ask
for finite sets where something is counted, and keep `NULL` apart from what it
stands beside; the theorems about `RxReorder` but `LostByStaleMove` have the
hypothesis `~Overlap` as well, and `WorkIsInHand` that no write fails. Every invariant, action property
and refinement (its safety part) that a passing run checks is the subject of a
theorem.
Type invariants are proved and not run again, and so are `RequestTracked`, and
`InOrder` and `OnceOnly` of `SdioPorts`, which are lemmas on the way to
`LineSpec` and `ChannelSpec` and follow from nothing less. The inductive
invariants of `Commands`, `SdioPorts`, `RxReorder` and `PowerSave` were
model-checked before they were proved, with the bounds of their runs and wider
ones (three threads, windows of 2 in 8 numbers, queues of 3).

**WorkQueue.** `TypeCorrect` needs nothing else. `WakeUpCorrect` follows from
`AwakeOrPosted` (size positive: the worker is up, the event posted, or a caller
about to post), which is inductive with `TypeOK` and says nothing of the links.
The other results need `Inv`: `TypeOK`, the shape of the list (`ListShape` with
all queued items different if `Requeue = FALSE`; `CounterShape` for a queue with
one item) and `OwedLinked` (what is owed a run is in the list);
`NothingForgotten` needs `AwakeOrPosted` too. `ListShape` alone is not inductive: appending to the tail keeps
the links before it only because no item is in the list twice, which is where
`Distinct` comes from and where `Requeue` matters. `NothingForgotten` states
`NoWorkForgotten` for `Requeue => Single`, that is for both uses of the queue in
which nothing is lost; `ListCorrect` and `ImplementsFifo` (initial states and
steps of `WorkFifo`) are for `Requeue = FALSE`. `AnyStaysAwake` is `WakeUpCorrect`
for one queue of the composition `MCWorkQueue` that the run checks, the third,
which loses links: `AnyAwake` is `AwakeOrPosted` of that instance, kept while any
of the three makes a step.

**Heap.** `Inv` is `TypeOK /\ ListSound /\ NoTwoFree /\ LfreeLowest /\
HoldersFit`, which is inductive as a whole and not in parts: `plug_holes` merges
with one block on each side, so that `ListSound` and `NoTwoFree` after it need
`NoTwoFree` before it; the search finds a free block only if `lfree` is not
above it. There is one lemma for each operation (`SplitStep`, `WholeStep`,
`FreeStep`, `TrimStep`, `TrimKeepsStep`), over lemmas about neighbours
(`BlockFacts`, `PrevFacts`, `OnePredecessor`, `PlugFacts`). From `Inv` follow
the five invariants, `NeverFailsEarly` (NULL is returned only when no free block
of the pool has room, the action property `FailsOnlyWhenFull`) and
`ImplementsAllocator` (`Spec => AllocatorSpec`: regions held by callers are
disjoint, lie in the pool, stay put).

**Semaphore.** `Inv` is `TypeOK`, `TokenOrWaiter`, `NoLostWaiter`,
`TokensConserved` and two facts that link them: the running task is ready or the
idle one, and outside `OSSemPend` while it holds the scheduler's lock
(`CurShape`); a task whose delay runs is not ready, one that waits with a delay
or has timed out is on the wait list, and one inside `OSSemPend` holds nothing
(`WaitShape`). All but `TokensConserved` (`Base`) are inductive by themselves. The
cardinality argument is apart (`ConservedStep`, over `OwnersFinite`,
`PutTokenOwners`): a post either adds to the count or turns one waiter into one
owner. `MutualExclusion` is the case of one token. `ImplementsPrioSemaphore` maps
a task that has been given its token and has not run since to an owner: the
mapping is where it matters that the wait list decides (`os_sem.c:470`), not the
ready list.

**Timers.** `Inv` is `TypeOK`, `WheelSound`, `NeverMissed`, `DelayGiven` (a timer
in use has a delay) and `TodoOnSpoke`: the timers the walk has not seen are on
the clock's spoke, for nobody else gets the scheduler while it walks. `mod_timer`'s three steps are harmless because linking
and unlinking find the spoke by the match, which nobody writes without the lock;
the delay, which is written without it, is read only when the match is computed.
`ImplementsTimerService` needs that a match set now cannot equal the clock:
delays are at least 1 and below the modulus (`WrapAway`).

**SdioPorts.** The argument is that packet *i* of either direction sits in port
((*i* - 1) mod *n*) + 1 (`PortOf`), so the ports between what the card has taken
and what the host has written hold consecutive packets (`RingPut`, `RingTake`,
`RingKept`). `Inv` adds to that (`InStep`) what the bitmaps and the copy of the
registers mean (`BitmapsSound`) and that the queue holds the next packets in
order (`QueueNumbered`). `NoPortOverwritten` needs of it only that a port whose
bit is set was empty at the read and is filled by the host alone, failed
transfers included; `PassedInOrder` needs all of it.

`OnceOnly` needs none of the order: its invariant (`Once`) says that the packets
in the ports and those that have passed are all different and were written, with
or without a failure. `NoneForgotten` needs that a packet which is tried finds a
port: the free ports of a ring are the ones from the next packet's on, so if the
bitmap has any bit at all it has that packet's (`PortThere`), and nothing is ever
put back.

`ImplementsChannels` is the refinement of `PacketChannel`, once for each
direction. What is in flight to the card is the queue and the ports, so a step
of the host's loop that moves a packet from one to the other is a stutter, and
the oldest packet of a ring whose neighbours hold consecutive numbers is the
least one in flight; with `Once`, a packet that is taken leaves the set for
good. After a failure the order is given up and nothing else.
`HostNeverStuck` is what `EveryPacketArrives` rests on: if
`data_sent` is set, the bitmap lacks the next port, and then either the card
still has a packet to take or it has raised the status since the registers were
read; and a packet in a port is announced, in the copy that is being worked
on, or is about to be uploaded, in the order in which ports are read.

**Commands.** Three arguments meet in `Inv`. A node is in one place, because
each step moves one node, from the head of a queue, out of its middle
(`CancelPending`) or from the local of the function that has it (`OnePlace`,
`Placed`, over the lemmas `AppendPlaced`, `TailPlaced` and `RemovePlaced` about
queues without repetition). A request is answered once, because its node forgets
it in the very step that completes or cancels it (`Tracked`: a request waits
exactly while one node has it). An answer is taken for the right command,
because `curr_cmd` stays what it is between write and answer, canceled or not
(`DriverShape` and `AnswerIsCurrent` itself): that is what stands in for the
comparison of sequence numbers that the code does not make. `AloneShape` adds,
for a thread whose event nobody shares, that the event is counted only between
its answer and its wait, so that it never wakes for nothing and never cancels;
`OwnAnswer` follows. The theorems are about any number of threads, interfaces
and nodes, and about lost nodes, failing writes, bad answers and stray
interrupts in any order. `NodesAccounted` counts; the cardinalities are in
`OneHolder` and the lemmas before it.

`ImplementsRequestLine` maps a thread to asked, given up or done (`Phase`), the
pending commands to the line, and the current one, unless its answer is already
with its handler, to the request that is served. That the line is in order is
the command queue's order; that an answer is for its own thread is `Tracked`;
that a thread gives up only if another shares its event is `AloneShape`.

Threads that share an event wake each other, so a post can be used up by one
whose request is not answered. `AnswersSeen` says why no answer stays unseen all
the same, and its proof counts (`Counted`): the answered threads that have not
woken are never more than the posts in the event and the threads of the
interface that are awake without an answer, and while any thread waits there are
no posts. A thread of the last kind cancels its own request, and that posts.
`WorkIsInHand` (`NothingStalls`) adds `InHand`: the places at which the main
loop leaves off are those at which `main_work` is due or the card has the
command. It is for commands that can be written; a failed write ends the loop
with the rest still pending (see 5).

**RxReorder.** The comparisons of `mlan_11n_rxreorder.c` are on numbers modulo
`MAX_TID_VALUE`; the packets they stand for are not. The first part of the module
is about that arithmetic (`MaskUnique`, `MaskShift`, `NumberOf`) and ends in
what the tests of the code find out: `StaleMeans` and its companions say on which
side of the window a number near it is and which slot it belongs to, wherever
the wrap lies. `Inv` relates the window to the peer's (`Distance`), says that a
slot holds nothing but its own packet (`Sound`, the property `SlotSound`
without its types), and follows the two loops that empty the window
(`RxShape`, `FlShape`): the slots before the index are empty, and the
window's new start is past what was emptied (`Aimed`). `TimerShape` and
`OrderShape` strengthen `TimerCovers` and `InOrder` likewise; `NothingLost` is
inductive with the rest. `ImplementsWindow` is the refinement of
`ReorderWindow`, which knows neither slots nor sequence numbers: the packets in
the slots are its set. Emptying a slot takes the least packet out because the
slots before it are empty (`RxShape`, `FlShape`), a rotation leaves the set as it
is (`Rotation`) and the window around it (`Sound` after the step), and a free
slot means that no packet of that number waits, as its number gives a packet its
slot (`WaitsInSlot`). The hypothesis `~Overlap` is needed, and the code does not
guarantee it: with an overlap of flush and handler the run `RxOverlap` loses a
packet. With the hypothesis the theorems hold
for every window of at most a quarter of the number space (the code's are at
most a 64th), every stretch of packets, however often the numbers wrap in it,
and every combination of BARs, drops by the firmware, re-negotiations,
teardowns and the no-drop flag.

`LostByStaleMove` has no such hypothesis: whatever steps of a flush fall between
those of a handler, a packet is lost in one way only, when a thread moves the
window past a slot that holds a packet again (`StaleMove`), stored there or
rotated there by the other thread since it was emptied. Everything else that
touches a slot is safe in any overlap: storing, emptying, and freeing or creating
an entry. The invariant, `Whole`, keeps of `Inv` what no step of the other thread
can undo (`Settled`): the entry outlives the handler, it is freed empty, and the
slot a packet is about to be stored in (`Fits`) is one of the array, computed from
the window as it was. A lock held from the first emptied slot to the rotation
would rule out `StaleMove`, and with it the loss.

**PowerSave.** The driver tells the firmware's answers apart by `curr_cmd` and
`ps_state` alone. `CommandOnce` says that as long as `curr_cmd` is set its
command is in exactly one place, on the control port, with the firmware, on the
way back or noted as received; `ConfirmOnce` says the same of the sleep
confirmation while `ps_state` is `SLEEP_CFM`, and that the two are never
outstanding together. `AnswerExpected` follows at once. `MainAt` says what the
main process knows at each place (the uploads start with nothing noted; the loop
of a sleeping host has nothing noted, but for data that a failed upload left
there), which gives `NothingOverwritten` and, while nothing fails,
`SleepKeptInLoop`. `SleepsTogether` is inductive with these, and was found to
hold at every point of the main process and after a failed transfer too, which
the proof needs and the property now says. `AskedOnce` says that the request of a
firmware that asked to sleep is in exactly one place until it has the
confirmation: the event on its way, `event_cause`, `PRE_SLEEP`, or the
confirmation on the port, never two of them and never none. With `AwakeKnown`
(what an awake card has on its way meets no handshake) it is inductive, and
`SleepRequestKept` states it.

`NoneStranded` is the safety half of `EverythingMoves`, and its proof the reason
why the driver, which decides by copies of the card's registers and by flags that
outlive what they stand for, does not go to rest too early while no transfer
fails. `Moving` adds to `Inv` what each flag that holds the main process back is
backed by: a status of the card by its interrupt (`Raised`), `data_sent` and
`cmd_sent` by what the card has in hand or has just reported (`Outstanding`),
`pm_wakeup_fw_try` by a card that is about to wake up or has told of it
(`Waking`), `PRE_SLEEP` by an outstanding command (`AtRest`). `RestReturns` then
goes through the reasons to rest and finds the card behind each. Nothing in the
arguments depends on the length of the queues.

**Only model-checked.** Liveness and fairness (`MoalWorkRuns`,
`EveryPacketLeaves`, `EveryRequestReturns`, `TopPendReturns`, `RunningEnds`,
`EverythingMoves`, `EveryPacketArrives`, the fairness part of
`FifoSpec`), which the prover does not handle. `NothingStalls`, `NeverStuck`,
`NoLostWakeUp` and `NoneStranded` are the safety halves of four of these: that
there is always a step to come, not that it comes.

## 5. Where the code and its comments disagree

Each is a run that ends in a violation.

- `CommandsShared`: `woal_wait_ioctl_complete` says that it waits until the
  request is complete and passes the condition to `wait_event_interruptible`,
  but the macro (`wait.h:21`) drops it. A thread is woken by the answer of
  another thread's request on the same interface, takes its own for timed out
  and cancels it. `OwnAnswer` says what remains true, and for whom.
- `RxOrder`: when the window's new start is numerically smaller than the old
  one, the whole window is dispatched, packets beyond the new start included;
  the ones between that still arrive are given to the stack late. `InOrder`
  says, and `RxReorder` checks, that these are the only packets out of order.
- `RxOverlap`: `rx_pkt_lock` covers one access, so a flush and a handler that
  overlap can rotate a stored packet away. `LostByStaleMove` says that nothing but
  such a rotation loses one.


Seen while modelling, without a run of its own: an item that is linked again
while another is behind it cuts that one off (`task.c:57`; the third queue of `WorkQueues`
is in that state), which is why the theorems about the queue ask for
`Requeue => Single`. `wlan_cmd_timeout_func` is said to re-send the command
(`mlan_cmdevt.c:1335`); it sends nothing. When a command cannot be written the
main loop ends with the commands behind it pending (`mlan_shim.c:788`); with
three requests that have used up their runs of `main_work` they wait for other
work to come. A node whose buffer cannot be allocated is lost
(`mlan_cmdevt.c:214`). An expiry queued before the teardown of its stream makes
the tasklet call `wlan_flush_data` on the freed entry
(`mlan_11n_rxreorder.c:325`; the action `FlushStray`, which `RxReorder`
reaches).

`mem_malloc_ex` keeps a guard word at the end of each block
(`memory.c:558, 636, 662`); `mem_trim` (384-516) moves a block's end and writes
none there, and `mem_slide_check` (1018-1021), which takes the word before the
next block for it, would halt the system. `os_sem.c:219` tells the waiters of a
deleted semaphore `OS_ERR_NONE`, so `mutex_lock` reports success on a mutex that
is gone; the properties of `Semaphore` end with the semaphore.
After a failed read of the registers, or an upload that was given up, nothing
tells the host of the interrupt again; the handshake or a queue may then stay as
it is until the card raises another (`mlan_sdio.c:1248, 1390`). A sleep
confirmation that cannot be written leaves `PRE_SLEEP`, where the loop ends
(`mlan_shim.c:733`) before the place that would try again (770). The result of
waking the card is ignored (`mlan_shim.c:715`), and `pm_wakeup_fw_try` keeps the
host from trying again. A failed write skips its port for good, which
`mlan_wmm.c:1148-1155` avoids in another path; a failed upload leaves its packet
to be read a lap later. `wlan_send_processed_packet` completes only packets that
it fails to send (`mlan_wmm.c:904-915`): `NoneForgotten` holds because, while
nothing fails, no packet is ever put back. Data that comes with
the answer to the sleep confirmation is not to change `ps_state`, says the comment
at `mlan_sdio.c:1425`, and the lines after it take `data_received` back. An upload
that fails after such data (1377, 1393, 1419) jumps over them, and the loop takes
the host out of `SLEEP` (`mlan_shim.c:718-728`) while the card goes to sleep: TLC
finds that behaviour when the `~failed` of `SleepKeptInLoop` is dropped. Even when
no upload fails and `ps_state` is left alone in the loop (`SleepKeptInLoop`), the next interrupt takes
the host out of `SLEEP` whatever it is for (`mlan_shim.c:984`); what the host then
writes to a card that sleeps fails. Such a failure counts as one (`failed`), and
voids `NoneStranded` and `EverythingMoves` as any other does.

## 6. Not modelled

- `WorkQueue`: `create_workqueue`'s failure path and `destroy_workqueue` (no
  caller reaches the second); the time-out of the worker's wait, which only
  makes it wait again.
- `Heap`: the mutex itself (`Semaphore` has it). The pend behind it is refused in
  an interrupt and with the scheduler locked, and its result is ignored; the
  models assume a thread context. The guard words and the tests that halt the
  system on a pointer outside the pool are left out: callers give back what they
  hold.
- `Semaphore`: task creation, suspension and deletion, changes of priority, ECB
  reuse. Mailboxes, message queues and flags move tasks by the same functions of
  `os_core.c`, and only lwIP's port and the console use them.
- `Timers`: `add_timer`, which nothing calls; `timer_setup`'s write through a
  null pointer when the pool is empty; what callbacks do.
- `RxReorder`: A-MSDU, failure of an allocation, several streams (a function
  works on one), the access-point role (whose `last_seq` starts at 0), the
  contents of ADDBA and DELBA. Under `Overlap = TRUE` the slots are still read
  and written one lock section at a time; the loop of
  `wlan_11n_find_last_seqnum` is one step.
- `Commands`: power save, the scan queue, events, data and start-up in the main
  loop; the soft-reset command; requests that do not wait or that need no
  command; requests refused for want of a node, which change nothing; the
  counter `ioctl_pending`; a command's buffer, which is freed after its node is
  in the free queue (`mlan_cmdevt.c:968-980`): a thread that takes the node
  there waits for the heap, which the driver thread gets first; failing reads.
- `PowerSave`: host sleep, UAPSD, deep sleep, scans, the null packet, the
  commands that switch power save on and off, and command time-outs.
- `SdioPorts`: the bypass list, aggregation (not compiled), a change of the
  transmit buffer size, which is sent at initialisation only.
- Transmit accounting (`tx_pending`), the choice between WMM lists, A-MSDU
  assembly; station and access-point control; lwIP's port, the supplicant, DHCP,
  the application, the board drivers: mostly encoding and I/O, or code whose
  queueing is one of the components above. Their notes in `PROJECT.json` say
  which.
- Third-party code and data. Most lines of the repository are of this kind: the
  two firmware images alone are over thirty thousand lines of hexadecimal, the
  rest are register definitions, libmad, lwIP's core, and Marvell's host tools,
  which are built for another machine. The models therefore cover a small share
  of the repository's lines and a large one of its concurrent logic.

## 7. What could come next

Transmit accounting, the mailbox of `sys_arch.c`, `usart.c`, DHCP's leases.
