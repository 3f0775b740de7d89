# sbckernel in TLA+

The repository is Linux 2.0.36 with the drivers that make it run on the
single-board computer of a PlayStation 2 development unit. Its own code talks to
the BP3 board: `drivers/char/ps2mrp-psnet.c` (MRP, the packet channel to the PS2
side), `drivers/char/ps2powctrl.c` (power button, shutdown, LED), the calls to it
in `kernel/sys.c`, and an unfinished second MRP driver, `drivers/char/ps2mrp.c`.
The rest is the stock kernel. This project specifies the drivers, the kernel
primitives under them (semaphores, timers, scheduler) and, of the stock kernel's
other parts, the file locks. It model-checks them with TLC and proves their safety
with TLAPS: every safety property that a run checks, and every refinement, is a
theorem.

## Inventory

| Component | State | Operations | Interacts with |
|---|---|---|---|
| MRP unit, data plane (`ps2mrp-psnet.c`) | `flags`, `ier`, `rlen`, `slen`, `sendbuf`, `recvbuf`, `buf38`, `buf40`, `wake_queue3/4`, the board's two FIFOs | `mrp_open`, `mrp_release`, `mrp_read`, `mrp_write` (data, TRESET), `mrp_select`, `mrp_ioctl`, interrupts RECV, WAKE, BOOTP | board (FIFOs, registers, interrupts), VFS (`sys_write`'s semaphore, `select_check`), memory (faults, `kmalloc`) |
| MRP unit, control plane (minor bit 0x40) | `recvring`, CPR bit of `ier`, `wake_queue1/2` | `mrp_read`, `mrp_write`, `mrp_select`, interrupt CPR, ring part of `mrp_reset` | board (`cpr` register), data plane (reset) |
| Power control (`ps2powctrl.c`, `sys_reboot`, `ctrl_alt_del`) | register `f1c`, interface bits in `idk4c`/`idk50`, `powctrl_timer_enable`, `_blink`, `_blkcnt`, `_color`, the timer | ioctls POWEROFF, POWSTAT, TIMER, TLED_COLOR, TLED_BLINK; timer function; halt, restart, C_A_D | board (button, power), timer interrupt, keyboard interrupt |
| MRP driver start and unload | `mrp_units[]`, the irq chains, mappings, buffers, the interface bits | `mrp_init`, `cleanup_module`, `request_irq`, `free_irq` | other drivers on a shared line; power control (same `idk` registers) |
| Kernel semaphores (`kernel/sched.c`, `asm/semaphore.h`) | `count`, `waking`, wait queue | `down`, `down_interruptible`, `up` | `sys_write` around every driver; interrupt handlers, signals |
| Kernel timers (`kernel/sched.c`) | five vectors of lists, `jiffies`, `timer_jiffies` | `add_timer`, `del_timer`, `run_timer_list` | clock interrupt; timer functions that set timers |
| Scheduler (`kernel/sched.c`, idle loop) | run queue, counters, policies, timeouts, `need_resched` | `schedule`, `wake_up_process`, tick, `sched_yield`, `sched_setscheduler`, `sys_idle` | interrupts during the scan |
| File locks (`fs/locks.c`) | the inode's list of locks, block lists | `fcntl` locks, `flock`, mandatory locks of read and write, close | signals, `kmalloc`, `chmod` |
| Named pipes, System V IPC | not modelled | | |
| procfs report, older MRP driver | none; stubs | `mrp_get_info`; TODO stubs | nothing |

What is hard here is concurrency of an old kind. The kernel is uniprocessor and
does not preempt kernel code, so the actors are interrupts, timer functions, the
board, and processes that hand over the CPU by sleeping. Sleeping is not always
visible: a copy to or from user space may fault, an allocation may wait for
memory, and `schedule` turns interrupts on inside a `cli()` section. What was read
before such a point may be stale after it. Read-modify-write of shared words
(`flags`, `f1c`) happens both with interrupts off and with interrupts on.
Correctness means:

* MRP data plane: a transfer in progress always has its interrupt enabled; nobody
  sleeps without a wakeup to come; an announced packet is good, read once and in
  order; the send FIFO has one owner; the board never gets freed or half-copied
  memory;
* MRP control plane: the ring is a bounded FIFO, and flow control neither loses
  the board's byte nor leaves it there;
* MRP start: no handler without its unit's memory, everything freed, the
  interface in the right state although two drivers write its registers;
* power control: the power is not cut under running processes, a halt ends with
  the power off, no store of an old copy of `f1c` undoes a request, LED and
  interface survive the timer;
* primitives: permits and waiters are conserved; a timer runs in its jiffy; the
  run queue is exact and nobody starves;
* file locks: a byte has the lock last asked for and no other that excludes it;
  nobody sleeps for a lock that is no longer in the way; no circle of waiters.

`PROJECT.json` lists under `hazards` where each of these could go wrong, by line.

## Modules

| Module | Models |
|---|---|
| `MrpData`, `MCMrpData` | data plane of one unit, and its TLC instance |
| `MrpDataProofs` | theorems about `MrpData` |
| `MrpControl`, `MrpControlProofs` | control plane of one unit, and theorems about it |
| `ByteFifo` | abstract: the queue the ring promises to be |
| `MrpStart`, `MrpStartProofs` | load and unload of the MRP driver, irq chains, the shared interface; theorems |
| `PowCtrl` | power control and reboot; finite, checked as it is |
| `PowCtrlProofs` | theorems about `PowCtrl` |
| `KSemaphore`, `KSemaphoreProofs` | `down`, `down_interruptible`, `up`; theorems |
| `TimerWheel`, `TimerWheelProofs` | the five vectors and `run_timer_list`; theorems |
| `TimerSet` | abstract: the set of timers the wheel promises to be |
| `Sched`, `MCSched` | run queue, `schedule`, sleeps, ticks, idle loop; its TLC instance |
| `SchedProofs` | theorems about `Sched` |
| `FileLocks`, `MCFileLocks` | the locks of one inode: both kinds together, and their TLC instance |
| `PosixLocks` | `fcntl` and mandatory locks |
| `Flock` | `flock` locks |
| `LockList` | the list with some of its locks deleted, for both kinds |
| `ByteLocks` | abstract: what record locks promise byte by byte |
| `FileLocksProofs` | theorems about `FileLocks` |

The MC modules only define sets of arguments and symmetries. Definitions keep the
source's names; one that stands for a part of a function is named for the part.

### Grain of atomicity

An action is a stretch of kernel code nothing can cut. In `MrpData` the variable
`cpu` names the process that is inside the kernel with interrupts on; until it
finishes or sleeps only interrupts and the board move. A `cli()` section is one
action, split where it can sleep: at `interruptible_sleep_on`, which queues the
caller before it enables interrupts, so that the test before it and the sleep are
one step; at a faulting copy; in `kmalloc(GFP_KERNEL)`. In `MrpControl` the
variable `lock` is the process inside a loop with interrupts off; moving one byte
is one step. In `PowCtrl` a system call is cut at every load and store of a shared
register that the timer function could fall between, and the timer function is
one step. `MrpStart` cuts `mrp_init` at the loads and stores of the interface
register and after every step that can fail, since the power timer and handlers on
a shared line come in between. `KSemaphore` and `Sched` let an interrupt in between
any two instructions that touch what the interrupt touches: the wait loop of
`__do_down` has a step for each of its tests, the scan of `schedule` one for each
task. `TimerWheel` has interrupts on only around timer functions, as
`run_timer_list` does.

In the file locks no interrupt touches the state, so a call is cut only where it
gives the processor up: in a sleep, and in the `schedule` of
`locks_wake_up_blocks`. No lock has been looked at before `kmalloc`, so that a call
which sleeps or fails there is one that begins later or not at all.

### MrpData

| Actions | Code |
|---|---|
| `Open`, `Release`, `StoreFlags` | `mrp_open`, `mrp_release`: load of `flags` and store, interrupts on. `tmp` is the copy. |
| `ReadSample`, `Read`, `ReadResume`, `ReadSpins`, `Spin` | `mrp_read`: `rlen` is sampled with interrupts on; then the REQTAG answer, the copy, which may fault, and the end |
| `WriteStart`, `WriteResume`, `WriteCopied` | `mrp_write`, data packet: the loop on SBUSY, the copy, `mrp_send` |
| `Treset`, `TresetSleep`, `TresetFault`, `TresetNoMemory`, `TresetResume` | `mrp_write`, TRESET: free, `kmalloc`, copy, `mrp_reset`, tag |
| `FlushRecv`, `FlushSend`, `Sync` | `mrp_ioctl` RF, SF, SY |
| `SelectPoll`, `SelectWait`, `SelectCheck`, `SelectResume` | `mrp_select` as called by `select_check` and `do_select` |
| `Wake`, `Recv`, `Bootp` | `mrp_interrupt` with `mrp_recv`, `mrp_bootp` |
| `BoardSends`, `BoardDrain`, `BoardBoots` | the board (external) |

A frame is a number, a kind (good, bad checksum, not a header, FIFO error), a
size and, in `recvbuf`, the number of words it is displaced by (`skip`). `mrp_recv`
reads words as headers until it finds one, and moves `deci_in` on with each of them;
it is set back only before the first. The body of a frame behind k rejected words is
therefore stored 4k bytes too far, and the checksum is of other words: `Stored`
records the displacement, and `MayPass` and `MayFail` let the test of a displaced frame
end either way. A displaced body can also end past `recvbuf`, which has
MRP_MAX_PKT_SIZE bytes; what lies behind it is not modelled. A packet to the board is its number. Flags and interrupt enables are sets of
bits. Early returns (`-EINVAL`, `-ENODEV`, `-EWOULDBLOCK`) change nothing and are
stutters. The copy of `mrp_read` can fail only for a length beyond the checked buffer;
`Read` then returns with the packet not consumed. The CPR and CPS branches of the interrupt do not touch this state.

`taint` is history that no guard reads. The driver has behaviours that break its
own protocol until some later event: a flags word stored after an interrupt
changed it (`stale`), a boot request that drops a packet while RECV is disabled
(`masked`), MRP_IOCTL_SF during a transfer (`flush`), the answer to a tagged
TRESET sent over a transfer (`tag`), a write whose copy faulted (`fault`), two
reads asleep in the copy (`overlap`). They are reachable, TLC visits them, and
each property says which of them it excepts and no others: that nothing else
breaks it, and that a reset (or the end of the transfer) repairs it, is what is
checked.

### MrpControl

`ring` is `struct ringbuf_s` with wrapping indexes (`IndexMod` stands for 2^32).
`mrp_write` on a control minor puts its bytes into the receive ring, as the code
does; the send ring is never filled and `mrp_cps` never does anything. The test
for room and the put are one step unless `get_user` faults in between
(`WriteFault`, `WriteFaulted`); then CPR interrupts can fill the ring and the put
overruns it. `over` records that, `looped` that bytes came from `mrp_write`, which
wakes nobody; both are history. `RingIsFifo` is refinement of `ByteFifo` under the
mapping `fifo <- Contents(ring)`; the abstract specification gives up its promise
only at an overrun of a full queue and takes it up again at a reset.

### PowCtrl

Bits of `f1c` are variables: `req` (button, input), `shut`, `ack`, `led`. A system
call loads them into `temp` and stores them. `bid` says whether the board has the
acknowledge bit. `PowerCut` is the board: it cuts when power-off is asked for and
the acknowledge bit is clear; that meaning is inferred from `powctrl_poweroff_ack`
and its callers. `ctrl_alt_del` resets the machine at any point. `copy_from_user`
in an ioctl may sleep, but only before the call's first store.

### MrpStart

`Load`, `Probe`, `Register`, `Alloc`, `RequestFast`, `RequestSlow`, `Reset`,
`SetValid` follow `mrp_init` through its two loops, each step failing or not;
`Unload`, `UnitDown`, `Free` follow `cleanup_module`. `chain` is the list of
handlers of each line with their flags: `setup_x86_irq` refuses a handler whose
SA_INTERRUPT differs from the one it would share with. The tests of `request_irq`'s
result are modelled as they stand, inverted. `pif` is the interface's word;
`PowTimer` is `powctrl_observe_status` on the first board between a load and a
store of it. Nothing opens a unit here, so no TRESET gives it a boot image: `buf38` and
`buf40`, which `cleanup_module` frees as well, are null throughout, and the interrupt
enables, which `mrp_init` clears at its end, are `MrpData`'s. `maps` and `mem` are what has been taken and not given back; `vfree`
refuses an address that is not a page's (`Offset`).

### KSemaphore

`Down` is the inline decrement, `Enqueue`, `Test`, `GiveUp`, `Wait`, `Schedule`,
`Resume` the slow path, `Up` and `Post` the two halves of `up`, `HandOver` and
`InterruptUp` an `up` that an interrupt handler does for a process. `extra` counts
the permits that the race of a give-up with such an `up` creates: the invariants say
that nothing else creates one.

### TimerWheel and TimerSet

`at[t]` is the list a timer is in, `index` the position of each vector. Words wrap
at the product of the sizes of the vectors, as 2^32 is of the real ones.
`WheelIsTimerSet` is refinement of `TimerSet` with the mapping `due <- expires -
timer_jiffies`, or 0 for a timer that was set for the past, and that each `RunTimer` is
the `Run` of that timer there, which asks for it to be due. At the wrap of the
words `internal_add_timer` misjudges two kinds of timer, and the model sets them like any
other. One set for the current jiffy when that is the largest word and `timer_jiffies`
is 0 already is linked to itself (`Self`, `Lost`): it is pending in the code's eyes and
not in the abstract set. One set so far ahead that it belongs in the fifth vector, and
past the wrap, is taken for past and run at once (`past`). The properties except these
two and no others.

### Sched

`schedule` is the actions `Schedule` is the union of: the move of a used-up SCHED_RR
task, the state under `cli`, one step of the scan per task, the recalculation of
the counters, the switch. `Wake`, `Tick`, `Due` and `process_timeout` come between
any two. A timeout is none, set or due; the clock itself is not kept. Idle's
`halt` is separate from its test of `need_resched`, as in `sys_idle`.

### FileLocks: PosixLocks, ByteLocks, Flock

`FileLocks` holds the state and the processes; `PosixLocks` and `Flock` are
instantiated in it on the two lists that `i_flock` is in turn. Each sees of the
other only whether its list is empty, which is all the code asks.

`PosixLocks` keeps the list as the code does. The loop of `posix_lock_file` is a
recursive function over the places of the old list (`Loops`, one pass of it `Loop` with
`SameType` and `OtherType`) whose value is the loop's locals; `NewList` is the code
after it. Offsets wrap at `OFFSET_MAX`. A read or write of a file with mandatory locks is a request of its own
(`access`), and `ChangeMode` takes the mandatory bit away while it waits.
`posix_locks_deadlock` walks from a task to the one whose lock it waits for; it finds
the caller exactly if every set that holds the first task and is closed under such
steps holds the caller, and is stated so. That the walk ends is `NoCircle`.
`ImplementsBytes` is
refinement of `ByteLocks`, where a lock is a set of owned bytes: the mapping reads
the list (`Held`), and a process wants what it sleeps for.

`Flock` is `flock_lock_file`: a change of type deletes the old lock and gives the
processor up until those blocked by it have run (`Yield`), then searches again.
`Close` is `locks_remove_locks` for both kinds.

## Runs

| Run | Module | Question | Result |
|---|---|---|---|
| `mrp_recv` | MCMrpData | receive side | `TypeOK`, `RecvArmed`, `SelectNotLost`, `PacketIntact`, `ReadOnce` hold |
| `mrp_send` | MCMrpData | send side and boot images; does a waiting writer return | `SendServed`, `TxExclusive`, `SentOnce`, `ImageWhole`, `WriteReturns` hold |
| `mrp_control` | MrpControl | ring and flow control | `TypeOK`, `ReaderNotLost`, `RingIsFifo`, `HeldByte`, `ByteTaken` hold |
| `powctrl` | PowCtrl | power control | `TypeOK`, `SafePowerOff`, `LedRight`, `PifReleased`, `ObserverAlive`, `RequestSticks`, `HaltPowersOff` hold |
| `ksem` | KSemaphore | are permits and waiters conserved, and does a semaphore stay idle under waiters | `Accounting`, `Awake`, `NoIdleWait` hold |
| `timers` | TimerWheel | is the wheel a set of timers | `TypeOK`, `WheelIsTimerSet`, `TimerRuns` hold |
| `mrp_start` | MrpStart | load and unload with every failure, beside the power timer | `HandlerReady`, `UnloadFrees`, `PifSettled` hold |
| `sched` | MCSched | run queue, real time, timeouts; does a runnable task run | `RunqueueExact`, `RealtimeFirst`, `TimeoutArmed`, `RunnableRuns` hold |
| `file_locks` | MCFileLocks | both kinds of lock, three processes, mandatory locks | `SleepersListed`, `Canonical`, `NoCircle`, `Compatible`, `ImplementsBytes` hold |
| `mrp_read_fits` | MCMrpData | is a read never longer than a packet | `ReadFits` violated |
| `timer_self_link` | TimerWheel | is every timer put into a list | `NoSelfLink` violated |
| `file_locks_to_end` | MCFileLocks | is the list sorted and merged with locks to the end of the file too | `Canonical` violated |

### Where the code and the repository's words disagree

Each violation is a run that refutes a sentence of a comment, a header or a document;
`findings` in `PROJECT.json` quotes it.

* `mrp_read_fits`: `mrp_recv` leaves the size field of a rejected header in `rlen`, so
  a read copies more than the MRP_MAX_PKT_SIZE its buffer was checked for.
* `timer_self_link`: the last branch of `internal_add_timer`, of which `sched.c:809` says
  "Can only get here on architectures with 64-bit jiffies", is reached with 32-bit words
  too: `jiffies` is the largest word, `run_timer_list` has moved `timer_jiffies` to 0, and
  a timer is set for the current jiffy, as `sched.c:801` says callers do. The test
  `expires < timer_jiffies` that should catch it compares words. The timer is linked to
  itself and never runs.
* `file_locks_to_end`: `fl_end + 1` overflows for a lock to the end of the file
  (`locks.c:898`). The loop stops at the first lock it should merge with, the two stay
  side by side, and a later request cuts one of them to nothing or to less. `Wrap`
  models it; `file_locks` checks `Canonical` for ranges that end before the last byte.
  The theorems about sleepers, deadlock and the kinds of locks hold with ranges to the
  end as well; those about `Canonical` and `ImplementsBytes` have `InsideFile`, that no
  range goes there, as their hypothesis.

Other places where the code does not do what its comments suggest are modelled as
they stand, and a history variable, a bound or an exception names them where a
property has to leave them out:

* `mrp_init` tests the result of `request_irq` the wrong way round
  (`ps2mrp-psnet.c:1215`): `RequestFast` and `RequestSlow` follow it. A unit whose handler
  could not be registered becomes valid; one whose handler could be is saved only
  because the second request is refused.
* An `up` in an interrupt handler between the test of `waking` and the give-up of
  `down_interruptible` (`sched.c:683`) leaves a permit too many: `extra`.
* Past the wrap of `jiffies` a timer far ahead is taken for past (`sched.c:800`) and runs
  at once: `past`, and with it `WheelIsTimerSet`, calls it due from the start.
* A frame behind words that were no headers is stored displaced (`ps2mrp-psnet.c:161`), as
  described above: `PacketIntact` says nothing of its contents.
* Documentation/locks.txt, 1.2.2, says that `flock` and `fcntl` locks are "oblivious to each
  other. Both can exists, and neither will have any effect on the other". The code refuses
  one kind with `-EBUSY` while the file has the other (`locks.c:747`, `878`), as its comment
  at `locks.c:79` says, and `Compatible` checks that it does so in every interleaving.
* The comment at `sched.c:444-448` says that tasks which become runnable during the scan are
  put in front of the list. `add_to_runqueue` puts them at its end, so that the scan may
  still meet them; the model does as the code does.
* `include/linux/ps2powctrl.h:61-67` lists POWCTRL_TLED_BLINK_OFF among the values of
  TLED_BLINK, but the ioctl blinks for every value (`ps2powctrl.c:310`) and takes this one
  for a colour: `Blink` and `BlinkColor`.
* A task woken after `schedule` has read an empty queue, or between the idle loop's test
  and `hlt`, waits for the next interrupt: `IdleTest` and `Halt` allow it, and
  `RealtimeFirst` is about real time tasks only.
* Two processes that share an open file and wait in `flock` for different types leave it
  with two locks (`locks.c:796`): `Compatible` speaks of different files.

### Bounds

Two or three processes unless a case needs more: a race here is between one caller and
an interrupt or between two callers, one of them asleep; a third is there to be
overlooked, to overtake, or to close a circle.

* `mrp_recv`: two frames from the board, a FIFO that holds both (a rescan over a bad
  word needs two), two TRESETs, copies that fault, a boot request. `mrp_send`: two packets
  (order), one TRESET of any mode, both kinds of memory pressure, a boot request; the
  board sends nothing. An image is freed only by a second TRESET. With `"kmalloc"` in the
  `MayBlock` of `mrp_recv`, where the second one frees the image of the first and sleeps,
  `ImageWhole` and that run's properties hold too (4.8 million states); the run leaves it
  out to stay short, and the theorem `ImageLifetime` covers that case.
  Its invariants are proved for any number of them.
* `mrp_control`: a ring of two bytes, so that full, one short of full and empty differ,
  indexes that wrap at four, calls of up to two bytes; otherwise unbounded. `powctrl` has
  no bounds.
* `mrp_start`: two units, two lines, each line used by another driver or not.
* `ksem`: three processes and a mutex; `down_interruptible` stops after the race has
  happened once (`MaxExtra`), without it the counts would grow for ever.
* `timers`: vectors of 2, so that a word is 32 jiffies and the clock goes through its
  whole wrap; two timers, delays into every vector (`MaxDelay` 17 reaches the fifth), one
  tick missed.
* `sched`: slices of 4 and 1, because `wake_up_process` compares with a difference of 3;
  two tasks, one policy of each class, every way to sleep.
* `file_locks`: three processes (a circle of three); a file of four bytes, locks on byte 1
  and on bytes 0 to 2, so that locks are split, merged, cut back and replaced; reads and
  writes of byte 1. Each process has its own open file there. With the same properties
  and `Sharers = {p1, p2}`, `Ranges <- OneByte`, `Areas = {}` two of them share one.
  `file_locks_to_end`: two processes, locks on byte 1 and from byte 0 to the end.

Symmetry over interchangeable constants is used in safety runs only, never with a
liveness property. In runs with `SYMMETRY`, the constants it permutes occur in no
ordering or `CHOOSE` that depends on them.

Deadlock is checked except where the system really may stop: in `PowCtrl`, powered off
or reset.

### Fairness

* `MrpData`: weak fairness of the interrupt branches (a level interrupt that stays
  asserted and enabled is taken), of the board draining its FIFO, and of code that holds
  the CPU; strong fairness of a runnable process going on, since others may take the CPU
  in between and the scheduler's counters let everybody run. No process is assumed to
  call anything.
* `MrpControl`: strong fairness of CPR, which readers that turn interrupts off disable
  again and again; weak fairness of loops. `ByteTaken` also supposes that reads keep
  returning in full, as an antecedent of the property.
* `PowCtrl`: a system call runs on, the board obeys.
* `KSemaphore`: weak for the code inside the kernel and for the interrupt that owes an
  `up`; strong for a woken process to run, and for a holder to give up what it holds.
* `TimerWheel`: the clock ticks and the bottom half goes on (weak). `TimerRuns` supposes,
  as an antecedent, that timer functions let `run_timer_list` end.
* `Sched`: `schedule`, the idle loop and timers go on, the clock ticks (weak); a task that
  runs again and again is caught by a tick some time (strong), which is what uses up
  its slice. `RunnableRuns` from it is the ground for strong fairness of runnable
  processes in the other modules.

Each property has a mutant in `PROJECT.json`: a plausible slip in a mapped definition (a
dropped wakeup, a test off by one, a missing reset of a flag) under which TLC finds it
violated. The mutated forms are the definitions commented "faulty variant".

## Proofs

The theorems hold for every value of the constants that the assumptions of the modules
allow. `ConstAssumption` says little more than types: a value for "none" that is no
process, sizes that are numbers; that the ring's size divides the range of its indexes
(2^32 in the code, and a power of two); priorities from 1 to 40 and real time
priorities exactly for real time policies, which `sys_nice` and `setscheduler` enforce;
finitely many processes where they are counted; in `TimerWheel` that a delay and the
lag of the bottom half together are less than a word, and the lag less than the first
two vectors reach (2^14 ticks, more than two minutes without a bottom half).
`NoneAssumption` of `FileLocks` says that
a request is not "no request". `PowCtrl` has no constants. TLC evaluates each in the runs.

`MrpDataProofs`. Type correctness (`Typing`) is split in four parts and needs
`OneWriter`: one process at a time is in `mrp_write`, so the bound tested at the
start of a write still holds at its end. Then, one lemma per invariant, with one
step per action:

* `SendSide`, `ReceiveSide`, `Announced` are inductive together with typing: the
  same lemma `UnitStep` shows that a step preserves `SendArmed`, `RecvArmed` and
  `PacketIntact`. A frame that may pass its checksum has a length and is good or
  displaced, whatever was rescanned before it.
* `Exclusion` needs that a packet is put only by a writer that saw SBUSY clear, or
  is recorded.
* `SelectSide` needs `TagSeen` and `StoreExact`: a reset forgets a stale store but
  not REQTAG, so REQTAG itself must never be changed by one.
* `SendOrder` needs `Numbered`: numbers in the FIFO, in `deci_out` and at the board
  never pass the number of accepted packets.
* `ReadOrder`, an action property, needs `RxOrder` (frames pass through FIFO and
  buffer in the board's order), `Sampling` (a reader that sampled `rlen` keeps the
  CPU) and `Unread` (what can still be read whole has not been read).
* `ImageLifetime` is inductive with typing.

`PowCtrlProofs` has one invariant, `Inv`. Beyond the properties it says that the
copy of `f1c` a call is about to store agrees with the register on the bits the
timer leaves alone (`Copies`), that the acknowledge bit of a board that has one is
clear only after the kill or in a restart (`AckHeld`), and that bit 5 of `idk50`
stays down. `RequestsStick` is an action property from it.

`KSemaphoreProofs`. `Accounting` and `Awake` are inductive together with the place and
the queue entry of each process. The work is in the counts: a move of one process from a
label to another changes the numbers of waiters, holders and posting processes by what
the two labels say (`CountsMove`), after which each action is arithmetic.
`MutualExclusion` is a corollary: with one permit, and no race so far, one holder.

`MrpControlProofs`. `Inv` adds to the types that one process at a time is in `mrp_write`
and found room before it faulted (`StaleRoom`), and that the wrapping indexes are as far
apart as `count` says (`Geometry`). Lemmas on remainders show that bytes in the ring are
in different slots and that a put touches none of them; from these the contents of the
ring change by one byte at one end (`Contents` after put, get, reset), and every step is a
step of `ByteFifo` or leaves it unchanged. `RingImplementsFifo` is this refinement with
its initial state; `FlowControl` is an action property; `ReaderWoken` needs that a reader
is queued in the same step in which it saw the ring empty.

`MrpStartProofs`. `HandlerReady` is not inductive: it needs the position of the two loops
(`Ahead`: units not reached are untouched), that a detected unit has its mappings
(`Detected`), which unit may have a handler at which point (`Handlers`, `Phase`), and that
between the two calls of `request_irq` the line belongs to fast handlers (`FastFirst`), so
that the second call fails and no unit gets two (`OneHandler`). `UnloadComplete` needs that
what is allocated is what the pointers say (`Owned`). `InterfaceSettles` needs which bits
of the interface each store has settled, in the register and in the copies loaded from it,
on the way up and on the way down (`Rising`, `Falling`), whatever the power timer stores in
between.

`SchedProofs`. The run queue needs only that the idle loop is `init_task`'s (`Idling`);
`RealtimeRuns` needs what `schedule` knows in the middle of a scan with interrupts on
(`ScanBest`: nobody passed so far is better than `next`, or `need_resched` is set) and at
the switch (`ChosenBest`). A task that is woken may join the queue behind the scan, which is
why `need_resched` must be in both.

`FileLocksProofs`. One invariant, `Inv`, for both kinds of lock: the types; nobody is on the
block lists of two locks or twice on one (`Once`), and who is on one is in a call of that
kind (`Waiters`); who sleeps sleeps for a reason; `NoCircle`; `Compatible`. No order of the
list is in it, so that it holds for ranges to the end of the file, where the order is lost.
The order is a second invariant, `Sorted`, under the hypothesis `InsideFile`.

* The loop of `posix_lock_file`. `LoopStep` says what one pass does to its locals in each
  case, `LoopsFacts` the same of the whole loop, by induction over the places of the
  list. The induction is done once (`Induction`) on the set of the places where a fact
  holds, a set of numbers in place of an operator. The result is `NewListFacts`: whoever
  is on a block list of the new list was on one of a lock of the same owner, and whoever
  was not woken is on a lock that covers the old one (`Covers`), whatever was merged,
  split or cut.
* `SleepersKept` and `NoCircleKept` are consequences: a lock that covers the old one still
  conflicts, and a circle in the new list is one in the old.
* A sleep adds one edge to the graph of waiters. The search for deadlock failed, so there
  is a closed set that holds the lock's owner and not the caller; the part of a circle
  in that set is a circle without the caller, hence an older one (`NoCircleClosed`).
* `flock`: a change of type deletes the lock and leaves its block list to be woken
  (`dying`). The search runs again after the wait, and `SearchStep` shows that what it
  inserts has nobody in its way in the list as it is then.
* `OnePlace` turns `Once` into the cardinality `SleepersListed` asks for.
* The order (`ListInOrder`). `Ordered` is the invariant of the loop: `out` is what is left
  of the locks passed, in their order (`Tracks`); a lock that is missing was p's and lies
  in the range (`Taking`); the range is that of the request and of locks of p of its type
  (`Asked`); p's locks lie below it before the place where the loop broke off (`Lows`) and
  above it behind (`Highs`), but for the two that reach out of it and are cut later.
  `LoopOrdered` is one pass, with a lemma for each way through it (`PassOrdered`,
  `BreakOrdered`, `BeginOrdered`, `AbsorbOrdered`, `TakeOrdered`). `ShapeParts` shows that
  the list made of the locals consists of parts of old locks, in order, and of one new
  lock between those below the range and those above (`Parts`), and `PartsSorted` that
  such a list is in order again.
* The bytes (`BytesImplemented`). `ByteKept`: no byte outside the range is lost. With `Parts`
  and `Asked` it follows that the new list holds just the bytes that `Grant` of `ByteLocks`
  leaves (`PartsGranted`): a byte of the grown range that the request did not name was p's,
  with the same type, and by the order in one lock only. An unlock that meets none of
  p's locks changes nothing and has nothing to free (`Untouched`). A conflict in the list
  is one of bytes and the other way round (`MayGrant`, `MayNotGrant`; the second needs that
  no lock is empty, so the order again). What a process wants depends on its request
  alone (`WantIs`), so that steps of `flock`, wakeups and signals leave the bytes' state as
  it is.

`TimerWheelProofs`. `Inv` says where each timer is: in the list of some vector that the
digit of `expires` for that vector names, less than the vector's span ahead and not due
before the jiffies of that list begin (`PlacedAt`, `Placed`); or, if it was taken for past,
in the list that is run now; or linked to itself, and then the last word is its expiry and
it is `Lost` until it is deleted. The index of each vector is the digit of `timer_jiffies`, or the
next one where that list has been cascaded already (`IndexAt`); `Done` says how far the
cascades of this jiffy are. `ConstAssumption` is all it needs of the sizes of the vectors,
so it holds for 256 and 64 and a word of 2^32.

* Lemmas about quotients and remainders come first: `Digit` and `ListReached` count the
  units until a list is reached, `RoundUp` and `NextDigit` say what one tick does to each
  digit, with the wrap of the word.
* `InsertNear` and `InsertFar` are `internal_add_timer`: it picks a vector and a list that
  fit. `CascadeStep` moves one list down one vector, `CascadeRounds` and `CascadeAll` repeat
  it while an index has become 0, vector by vector in place of an induction.
* `RunsDue`: a timer in the list of the current jiffy is due. `NotDue` and `NoneLeft`: when that
  list is empty no timer that is due is elsewhere. From these `NextJiffyInv` and the
  refinement (`StepRefines`, and `RunStep` for the second half of `WheelIsTimerSet`).

Only model-checked:

* all liveness (`WriteReturns`, `HaltPowersOff`, `ByteTaken`, `NoIdleWait`, `TimerRuns`,
  `RunnableRuns`): under fairness it is out of the prover's reach;
* the violations. With ranges to the end of the file `Canonical` is false, which
  `file_locks_to_end` shows, and nothing is claimed of `ImplementsBytes`.

## Not modelled

* `mrp_get_info`: formatting without state. The older driver: stubs.
* The bytes of packets, checksums as arithmetic, timing of `udelay`. A header with size 0
  is outside the model (`Sizes` starts at 1): `mrp_get_fifo` would compute a wrapped word
  count. `mrp_put_fifo` and `mrp_get_fifo` move whole frames in one step; they run in the
  interrupt or with interrupts off.
* SMP everywhere: the board has one processor and the drivers use `cli`.
* Scheduler: exit, stopped states, `nice`, APM. Timers: the old `timer_table`.
* File locks: `fcntl_getlk`, `locks_mandatory_locked` and `/proc/locks`, which only read; locks
  of several files in the search for deadlock.
* Named pipes and System V IPC: stock code that neither the drivers nor the modelled
  components call.
* The rest of the stock kernel: file systems, networking, the other drivers and
  architectures. It is third-party code of several hundred thousand lines, most of it for
  hardware this board does not have; a model of all of it is neither possible nor what
  this project is for.

## Plan

1. File locks with ranges to the end of the file: what of `ImplementsBytes` survives the
   overflow of `fl_end + 1`, and an order that does.
2. Composition: file locks over scheduling classes (a real time process that waits in
   `locks_wake_up_blocks` for one of SCHED_OTHER).
