# A verification project for framework-wizio-pico

framework-wizio-pico builds RP2040 firmware: an Arduino core, a virtual file
system and a C library port over a copy of the Raspberry Pi Pico SDK 1.4.
Everything runs on two Cortex-M0+ cores with interrupts and no operating system
(FreeRTOS is optional). What can go wrong in such code happens between two
cores, between a core and its interrupt handlers, or at the edge of a counter,
and no test of the repository reaches it. The modules here model the
concurrent core of the system, from the spin lock up to the alarm pool, the
inter-core lockout, the self-modifying interrupt chains and the background
processing of the wireless driver, and of the framework's own code the receive
ring of the Arduino `Serial` and the virtual file system.

Contents: 1 the system, 2 the modules, 3 the runs, 4 fairness, 5 the proofs,
6 disagreements found, 7 what is not modelled, 8 the plan.

## 1. The system

Paths are relative to `src/`.

| Component | State | Operations | Called by |
|---|---|---|---|
| Spin locks, events (`SDK/include/hardware/sync.h`, `pico/lock_core.h`) | 32 lock bits, PRIMASK and an event register per core | lock, unlock, WFE, SEV, the three `lock_internal_spin_unlock_with_*` macros | everything below |
| Mutexes (`SDK/pico/pico_sync/mutex.c`) | owner core, `enter_count` | enter (blocking, try, timed), exit, recursive forms | newlib locks, lockout, stdio |
| Semaphores (`pico_sync/sem.c`) | permits, maximum | acquire, try, timed, release, reset | `PicoSemaphore.h` |
| Queues (`pico_util/queue.c`) | ring, two indices | add, remove, peek, blocking or not | `PicoQueue.h` |
| Pairing heap (`pico_util/pheap.c`) | linked nodes, free list | new, insert, peek, remove head, remove, free, clear | alarm pool |
| Timer alarms (`SDK/hardware/timer.c`) | counter, ALARM, ARMED, INTR, the NVIC's pending bit, `target_hi`, `timer_callbacks_pending` | set target, interrupt handler | alarm pool |
| Alarm pool (`pico_time/time.c`) | heap, entries with ids, alarm in progress | add, cancel, interrupt callback, repeats | timed waits, `PicoTimer.h`, `TIMER.h` |
| Multicore (`pico_multicore/multicore.c`) | two FIFOs, `lockout_mutex`, `lockout_in_progress` | push, pop, launch, reset, lockout start and end, FIFO interrupt | `PicoThread.h`, flash writers |
| Interrupt handlers (`SDK/hardware/irq.c`, `irq_handler_chain.S`) | vector tables, slots of code, free list | add, set, remove, execution of a chain | all drivers |
| Wireless driver's background (`pico_cyw43_arch/cyw43_arch_threadsafe_background.c`) | dispatch slots, a recursive mutex, pending bits, the host-wake enable | schedule, low priority interrupt, host-wake and alarm handlers, thread enter and exit | lwIP, user code |
| Serial (`arduino/cores/RP2040/SerialUart.h`, `arduino/RingBuffer.h`) | ring, two indices, the UART's data register | receive interrupt, available, read | user code |
| VFS (`library/VFS/VFS.c`) | list of mounts, table of open files | mount, unmount, open, close, read, write | newlib system calls |
| Block devices (`VFS_LFS.c`, `VFS_FATFS.c`, `fatfs_sd.c`) | flash or RAM sectors, SD card state | read, program, erase, SPI dialogue | littlefs, FatFs |
| C library port (`wizio/newlib`, `wizio/pico`) | newlib locks, clock | lock, system calls, malloc wrappers | user code |
| Arduino core and libraries (`arduino/`) | heap, EEPROM copy | tone, EEPROM, wrappers | user code |

How they interact. A blocking call of a mutex, semaphore or queue takes the
object's spin lock, and when it cannot go on releases it and waits for an
event; whoever changes the object sends one. A timed wait adds an alarm, and
the alarm's callback sends the event. The alarm pool keeps its alarms in a
pairing heap and sets one hardware alarm for the first of them; the timer
interrupt runs callbacks, which may call anything that does not block. The
lockout uses the FIFOs and a mutex.
Drivers reach the cores through vectors or chains of shared handlers. The
wireless driver runs its work in a low priority interrupt of one core, which
threads, alarms and the chip's host-wake pin ask for through slots. The system
calls of the C library go to the VFS, which forwards to littlefs or FatFs.

What is hard: an event that comes between the release of a spin lock and the
WFE; a handler that interrupts the holder of the lock it needs; values read
before an unlock and used after it (ids and times of the alarm pool); a timer
that is overtaken while it is programmed; stale words in FIFOs after a reset or
a time-out; code that is rewritten while it is executed. `PROJECT.json` lists
these hazards, each at its line, with the properties that cover it.

## 2. The modules

| Module | Models | State and actions |
|---|---|---|
| `LockCore` | spin lock, PRIMASK, event registers, interrupt entry and exit, the wait macros | `pc[x]` says where context x (a thread or a handler of a core) stands; `Mask` and `Acquire` are the halves of `spin_lock_blocking`, `SpinUnlock` is the store and the restore, `Wfe`, `Sev`, `TimedArm`, `TimedWake`, `AlarmFires` the ways to wait |
| `Mutex`, `Semaphore`, `Queue` | one primitive each, EXTENDS `LockCore` | a call loads the object's state in one step (`seen[x]`) and stores in another, so that the spin lock and nothing in the model protects it |
| `AbstractMutex`, `AbstractSemaphore`, `AbstractQueue` | what the primitive promises | one atomic step per operation |
| `PHeap`, `AbstractHeap` | the linked nodes and the free list; a set with a minimum and a FIFO of ids | one action per function; loops and recursion are recursive functions of the links |
| `HardwareAlarm` | counter, alarm register, `hardware_alarm_set_target` and `hardware_alarm_irq_handler` | low word and high word kept apart, as in the registers; `setter` is the timer's spin lock. `set_target` clears the IRQ (`Program`), writes ALARM (`SetAlarm`), reads ARMED (`Fired`, or goes on), and reads the time (`Verify`) in four steps, and the counter may advance between any two. `intr` is the timer's flag, `latched` the bit of the interrupt in its core's NVIC, which `irq_clear` reaches from that core only; the handler clears the flag (`Acknowledge`) before it looks at what is pending (`Accept`, `Dismiss`, `Early` and `Rewind`) |
| `AlarmPool` | `time.c` over `HardwareAlarm` and `AbstractHeap` | every unlock, and every read of the time, ends a step; `SetTarget` and `IrqAccept` are the steps of `HardwareAlarm` in the pool |
| `Fifo`, `Launch`, `Lockout`, `Multicore` | FIFOs and pops; launch against the boot ROM; lockout with its handler; their composition | a thread (`at`) and a handler (`isr`) per core |
| `Cyw43` | background processing of the wireless driver | `pc[x]` of a thread or one of the three handlers; `slots`, the driver's mutex (`owner`, `enter_count`), `pending` and `force` as in the code; `owed` is history: what was stored and not yet called |
| `SerialUart` | UART interrupt and reader over the ring | one step per access of an index that the other side may write; `isr` and `reader` say where each stands |
| `Vfs`, `AbstractFiles` | list of mounts and table of open files; drives and handles | one action per function; `next` and `prev` are the links of the list nodes |
| `LfsRom` | erase and program of the internal flash | pages as sets of bits: programming clears bits |
| `IrqChain` | slots of shared handlers, adding, removing, executing | `slots` has `inst3` (code) and `link` (data) apart; the functions are one step under their spin lock, the execution takes no lock |
| `LockCoreProofs`, `MutexProofs`, `SemaphoreProofs`, `UtilProofs` (of `Queue` and `PHeap`), `AlarmPoolProofs`, `Cyw43Proofs`, `InterruptProofs` (of `SerialUart` and `IrqChain`), `MulticoreVfsProofs` (of `Multicore` and `Vfs`) | the proofs | section 5 |
| `*MC` | constants for the runs | |

Interfaces. The mutex of `Lockout` is `AbstractMutex`, which `Mutex` is shown to
implement; the heap of `AlarmPool` is `AbstractHeap`, which `PHeap` is shown to
implement, with the free list as the code keeps it (once empty it stays empty,
section 6). Alarms of timed waits in `LockCore` are taken at the interface of
`best_effort_wfe_or_timeout`: an alarm is armed or not, and fires on its core
when interrupts are enabled there.

Assumptions about code that is not here are the definitions marked external:
the timer, the UART, the flash, the NVIC, WFE and SEV (entering and leaving an
interrupt sets the event register, as on ARMv6-M), the boot ROM of core 1 as
`multicore.c` and its comments use it, and the callers of the primitives, who keep the rules of
the headers (a handler does not block, a context exits what it entered, a
lockout is not nested and its victim is initialised).

## 3. The runs

| Run | Question | Bounds, and why they are enough |
|---|---|---|
| `mutex` | Does the mutex exclude, is no wake-up lost, is it an atomic mutex, does every call return? | two cores, two calls per thread and one handler with two activations; a plain and a recursive mutex share one spin lock, so that striping and nesting occur; `MaxNest` 2 |
| `semaphore` | The same of a count, with reset | two threads of two calls and a handler; one permit free, two at most: both limits are reached |
| `queue` | Is the ring a FIFO, is a notification never consumed by the wrong waiter? | two elements in three slots: the indices wrap; two values |
| `pheap` | Do the links stay one ordered tree, does it implement the abstract heap? | five nodes, keys with ties: every shape that two-pass merging and removal inside the tree distinguish; all sequences of calls |
| `alarm_pool` | Are nodes lost or freed twice, do the callback's asserts hold, is a cancel final, are ids of retired alarms stale, is the hardware alarm always set for the first alarm, does every alarm leave the heap? | two nodes (the heap fills up), three alarms (a node is used again), one repeat, two threads, one of them on the interrupt's core; a low word of two microseconds and the times 1 and 3, which share it, so that the alarm for 3 matches at 1 and must wait for the wrap; the last two questions are asked of the behaviours with `prompt`, where ALARM is written, by `set_target` and by the handler that sets it again, before the time it is for is reached (section 6). The alarm may still match at any step after the write: before ARMED is read, between that and the read of the time (then `timer.c:195-212` is executed, with its guard, which is the mutant of `NoAlarmForgotten`), or while the handler is active |
| `multicore` | Does a launch end in the program with clean FIFOs, is a held lockout exclusive, do calls return? | FIFOs of two words fill up as eight do; one reset, two lockouts per core; cores that make timed calls are not victims (`TimedVictims`, section 6) |
| `cyw43` | Is the driver's work never run beside a thread, is no work lost, is the chip's call heard? | a thread per core, the driver on one of them; two entries into the driver; nesting 2, so that an exit may be an inner one |
| `serial` | Is the ring without a lock a FIFO, whichever core reads? | three slots: two bytes fill it; six bytes: the indices wrap twice; both placements of the reader |
| `vfs` | Does the list stay a list, does no file leak, do handles reach their files? | three letters and four mounts (an inner node can be unmounted and its letter mounted again), two slots (the table fills up and slots are reused), paths with equal and zero hashes, names without a colon |
| `irq_chain` | Are slots lost or freed while executed, do code and links agree, are all sources served in order? | three slots for two vectors, three handlers, one of a higher priority; four installations, so that slots are reused |
| `pheap_reuse`, `lfs_program` | the disagreements of section 6 | |

Deadlock is checked in `pheap`, `cyw43`, `serial` and the two runs of section 6,
whose systems never stop. The others stop for want of budget (`vfs` also when
the list has followed a null pointer) and do not check it; that nobody waits for
ever is what their liveness properties say. No symmetry is used.

Every property of a passing run has a mutant in `PROJECT.json`: a definition
that differs from the code as a plausible bug would, with which the same run
finds the property violated.

## 4. Fairness

It is stated in the `FairSpec` of each module, weak unless said otherwise.

- A thread or a handler that can take a step takes one: the processor runs.
  Nothing is assumed of who wins a spin lock that both cores poll.
- Handlers return. In `Mutex`, an owner exits what it has entered; in
  `Multicore`, whoever holds a lockout ends it. Callers owe this.
- Time passes, and alarms that have matched interrupt. That the hardware alarm
  covers the heap (`NoAlarmForgotten`) and that every alarm leaves the heap
  (`EveryAlarmFires`) are claimed of `prompt` behaviours only (section 6).
- In `AlarmPool` time, and the steps of `set_target` on the other core than the
  interrupt's, are strongly fair. ALARM written with the present low word may
  match at once, and a handler that finds the high word not reached writes it
  again: within one microsecond it could do so for ever, and take the timer's
  lock again and again while the other core polls for it. On the chip the
  microsecond ends; in a `prompt` behaviour time waits, when the next
  microsecond is the one a target or the handler's high word is for, until ALARM
  is written.
- In `IrqChain` a bound on installations (`MaxAdds`) matters: a handler that
  removes and installs itself for ever skips its successor for ever.
- In `Cyw43` the threads, the low priority interrupt and the alarm are strongly
  fair: each is preempted again and again by what has a higher priority, and
  the alarm comes every `CYW43_SLEEP_CHECK_MS`, whatever it finds. A thread that
  polls the mutex gets it in the end because `Budget` bounds how often the
  others take it; the code has no such bound.
- In `SerialUart` the handler is weakly and the reader strongly fair, since the
  interrupts of its own core disable the reader. That it gets on is claimed only
  until it is `Starved`: when the ring is full on the reader's own core, the
  handler leaves the byte in the UART (`SerialUart.h:182`) and the interrupt
  comes again at once, so the reader never runs.

Not claimed: that `multicore_launch_core1_raw` returns (each answer of core 1
may arrive just after the drain, and the sequence starts over), and that a timed
FIFO pop returns at its deadline (it sleeps in WFE with no alarm set).

## 5. The proofs

`MutexProofs` proves, for any number of cores, mutexes and spin locks, any
sharing of spin locks and any budgets:

| Theorem | States |
|---|---|
| `TypeCorrect` | `Spec => []TypeOK` |
| `Exclusion` | `Spec => []MutualExclusion` |
| `WakeupNotLost`, `TimeoutNotLost` | no waiter sleeps through its wake-up |
| `HolderRuns` | whoever owns or polls a spin lock is not preempted |
| `AssertsHold` | the asserts of the exit functions hold |
| `Implements` | `Spec => AbstractSpec` |

Assumptions: `LockCoreAssumption` (types of the constants) and
`MutexAssumption` (`2 * MaxNest < 256`: callers do not nest so deep that the
`uint8_t` wraps; thread and handler of one core may both be inside).

The argument. None of the properties is inductive. `IndInv` adds four
things: `CoreInv` (whoever is past `Mask` has its core's interrupts masked and
no handler over it, an owned spin lock has the context that owns it at `held`
or `loaded` and conversely, at most one thread per core waits); `LoadInv`, the
owner that was loaded under the lock is still the owner; `OwnInv`, owner and
count account for all enters of a core's thread and handler; and `ClientInv`,
what the callers owe. `LockCoreProofs` proves `CoreInv` for every step of the
substrate with the set of operations as a parameter, so that `Semaphore` and
`Queue` can cite the same lemmas. `MutexProofs` has one lemma per action;
`NextInd` collects them and the theorems follow. In `Implements` the steps that
change `nest` (`Take`, `ExitInner`, `ExitLast`) map to steps of
`AbstractMutex`, all others stutter.

The other proof modules:

| Module | Theorems | For every |
|---|---|---|
| `SemaphoreProofs` | `TypeCorrect`, `WakeupNotLost`, `Implements` | number of cores, semaphores, maximum and initial count |
| `UtilProofs`, the queue | `TypeCorrect`, `WakeupNotLost`, `Implements` | number of cores and queues, size up to what a `uint16_t` index allows |
| `UtilProofs`, the heap | `HeapKeepsShape` (`HeapShape`), `ContainsTells` (`ContainsIsIn`), `HeapRefinement` (`AbstractHeapSpec`) | up to 255 nodes, any keys |
| `AlarmPoolProofs` | `TypeCorrect`, `Accounted` (`NodesAccounted`), `AssertsHold` (`CallbackAsserts`), `CancelFinal` (`CancelIsFinal`), `RetiredFresh` (`count < 256 => RetiredIdsAreFresh`), `AlarmsCovered` (`NoAlarmForgotten`) | up to 255 nodes, any threads, targets, word size, budgets |
| `Cyw43Proofs` | `TypeCorrect`, `Exclusion` (`BackgroundAlone`), `WorkKept` (`NoWorkLost`), `ChipHeard` (`HostWakeHeard`) | number of cores, nesting, budget |
| `InterruptProofs`, the ring | `TypeCorrect`, `ChecksStayTrue` (`ChecksHold`), `Implements` | ring of two bytes or more, set of bytes, placement of the reader |
| `InterruptProofs`, the chains | `IrqTypeCorrect`, `SlotsStayAccounted` (`SlotsAccounted`), `CodeStaysLinked` (`CodeFollowsLinks`), `HandlersStayOrdered` (`CalledInOrder`), `ExecutionStaysInChain` (`ExecutionInChain`) | number of slots and installations, set of vectors, of handlers and their priorities |
| `MulticoreVfsProofs`, the cores | `LaunchCompletes` (`LaunchComplete`), `HolderIsAlone` (`HolderAlone`), `PausedWhenAsked` (`PausedOnRequest`), each under `~TimedVictims` | depth of the FIFOs, number of resets and lockouts |
| `MulticoreVfsProofs`, the files | `TypeCorrect`, `ListKept` (`ListShape`), `FilesKept` (`FilesAccounted`), `Implements` | letters, paths, hashes, number of slots and of drives |

Each rests on the `ASSUME` of its module, which TLC evaluates in the run of that
module: types of the constants, and that a model value such as `NoOwner` or
`NotOpen` is none of the values it stands beside.

- `SemaphoreProofs` and `UtilProofs` (for `Queue`) add to the `CoreInv` of `LockCoreProofs`
  what was loaded under the spin lock (`LoadInv`), what callers owe
  (`ClientInv`), and `NoLostWakeup` itself, which is needed in the steps of
  waiters. The ring of a queue maps to a sequence by a function of its two
  indices; adding and removing are one lemma each about that function.
- `UtilProofs`, the heap: `HeapInv` says that the ids in the heap are the nodes
  of one tree and that the free ids form one list from head to tail. A forest
  (`Trees`) is a set of nodes with a set of roots: links lead where the parents
  say and to nodes that do not compare before them (`Linkage`), each node but a
  root is linked once (`Once`), and a rank falls along every link, so that none
  leads in a circle (`Ranked`). The rank is bound by `\E`: no code keeps it, and
  each merge is shown to leave another. Every function of the links is a lemma
  that takes a forest to a forest: `MergeTrees` joins two roots,
  `SeparatedTrees` makes the children of a root roots, `TwoPassTrees` merges
  them by pairs from the last to the first, `RemoveAnyHeadTrees` and
  `UnlinkedTrees` take out a root and an inner node. What `Chain` and the
  two-pass merge compute is shown by the least counterexample, as for the list
  of the VFS. Besides, `HeapInv` needs that an allocated id ends the list it
  will be appended to (`sibling` 0) and that no id outside the heap has a parent
  except the stale ones that `ph_clear` leaves; without the first the free list
  could be joined to itself, without the second a node outside the heap could
  be removed from it. That the root is a least id follows along the parents.
- `AlarmPoolProofs`: at every stage of a thread and of the interrupt, whose node
  is where (`NodeInv`): in the heap, in the free list, or in the hands of the
  interrupt, and never in two of these; the pool's lock belongs to exactly the
  context at a `Busy` stage (`LockInv`); what the interrupt compared before it
  ran the callback (`ProgressInv`); which alarm each node stands for and which
  were cancelled (`WhoInv`). The timer's registers appear in none of these: the
  first four theorems and `RetiredFresh` hold whatever `set_target` reports and
  whenever the interrupt comes.
  `RetiredFresh` compares the sequence numbers in ids that callers still have
  with those of their nodes (`FreshInv`). It speaks of alarms whose node the
  interrupt has freed (`time.c:165-168`), and of no others: a cancel from the
  heap (`time.c:270`) and a missed add free the node and keep its high byte, so
  that such an id is issued again. Its hypothesis is the width of
  `entry_ids_high`, a byte: `count` is the number of alarms added so far, and
  below 256 no sequence number has wrapped. After a wrap the property is false.
  `AlarmsCovered` is about the registers (`AlarmInv`). ALARM and `target_hi` are
  *aimed* at a time `u` (`Aimed`), which is *ahead* when the interrupt is raised
  or the alarm is armed and `u` not reached (`Ahead`). An alarm in the heap is
  *covered* when a callback is pending and the registers are aimed at a time no
  later than its target that is ahead, or the handler has cleared the interrupt
  and is about to look (`Cover`). It is *owed* when a thread will set the alarm
  for it or remove it after a missed one, or is between the clearing of the IRQ
  and the check (`Owed`). While the interrupt is not in its loop, each alarm in
  the heap is covered or owed (`CoverInv`). A tick keeps the cover, and so does
  the handler that writes the alarm again: it has found the high word not
  reached (`RewindInv`), and a time with a larger high word is ahead
  (`HighWords`). Between the write of ALARM and the check the timer's lock keeps
  the handler out (`SetterInv`) and the registers stay aimed at the new head
  (`VerifyInv`), so that a match before the check, or between its two reads,
  leaves the interrupt raised. What remains is the branch in which `set_target`
  reports the target as missed. If a callback was pending before, nothing is
  withdrawn, and the raised interrupt covers the rest of the heap. If none was,
  the alarm is withdrawn: then nothing else in the heap was covered, and a
  thread that found nothing pending while the interrupt is not in its loop is
  alone in the heap (`SingleInv`), so nobody loses an alarm. The guard at
  `timer.c:200` is what separates the two; without it the lemma `VerifyAlarm`
  fails, and so does the run (mutant `GivenUp`). The covered head covers the
  rest of the heap (`OrderInv`). A head that is cancelled leaves the alarm early,
  never late. The word size and all times are arbitrary; `prompt`, a constant of
  each behaviour, is in the property itself.
- `Cyw43Proofs`: where each context may stand with what in its hands
  (`PlaceInv`), what a slot may hold (`SlotInv`), that owner and count of the
  mutex account for the contexts inside (`MutexInv`), that a function about to
  be stored is the `cyw43_poll` of now except in the hands of the host-wake
  handler (`FreshInv`, `StaleInv`), and who still calls what is owed (`WorkInv`).
- `InterruptProofs`, the ring: what the handler and the reader have read of each other's
  index may be old, but only in the direction that does no harm (`HandlerInv`,
  `ReaderInv`, `RoomInv`). The reader's copy of the head is behind it, so that
  the ring holds at least what the reader saw, and conversely.
- `InterruptProofs`, the chains: `ChainInv` says that every slot can be given an
  owner (a vector or the free list) and a place, so that the links of each owner
  lead through its slots in the order of their places and end behind the last
  (`Layout`). Owner, place and length are no variables but are bound by `\E`, and
  each step is shown to leave others for which the same holds: a slot is put in
  at a place, taken out of one, or moved to the end of the free list. A slot
  whose link was overwritten by the branch to the removal is the last of its
  chain and the one that executes (`TrashInv`), which is why code and links may
  differ there and nowhere else (`CodeInv`), and why an execution that stands in
  a slot still finds its vector's chain there (`ExecInv`).
- `MulticoreVfsProofs`, the cores: at any time core 1 is in its program or in the
  boot ROM (`AppInv \/ BootInv`). In the program, one core asks for lockouts or
  was the last to ask, and `Conversation` lists the eight ways in which its own
  progress, the stage of the other's handler and the words under way in both
  FIFOs go together. A start or end that has timed out leaves words behind, as
  many as were asked for again, so that the words are described by their order
  and not by their number (`AllOf`, `TwoParts`); only a core that never gave up
  has at most one under way. In the boot ROM, `Stream` is what the launch will
  read if core 1 echoes all that it has been sent; `Before` and `After` bound the
  stray words in front of the awaited echo, and `AgreesBefore` and `AgreesAfter`
  say what core 1 has accepted by then. Its last echo, which starts the program,
  is the moment at which `BootInv` turns into `AppInv`.
  The hypothesis `~TimedVictims` is the condition under which the three
  properties hold at all: with two victims that make timed calls, a late
  confirmation is taken for a request (section 6).
- `MulticoreVfsProofs`, the files: the list is `Node`, a function that follows the links. What it is
  after `list_add` and `list_remove` is shown by induction along the list, not
  by the library's induction theorems (which take an operator) but by the least
  place at which it would be something else. On this stand `ListInv` (the nodes
  are distinct, the links join them both ways, a node never listed has no
  links), `SlotInv`, `MountedInv` and `ObjectInv` (slots, drives and objects
  belong together). `Implements` maps the list to the sequence of drives and
  each used slot to its handle; the unmount of an end of the list stops the
  model (section 6), so nothing is claimed of what would follow it.

Model-checked only: all liveness, which with fairness and ENABLED is outside
what the prover handles. Every safety invariant of a passing run has its
theorem.

## 6. Disagreements found

Two are runs that TLC ends with a counterexample.

- `pheap_reuse` (`pheap.h:245`): `ph_free_node` puts an id behind the tail and
  never restores the head of an empty free list. After the last id was handed
  out, `ph_new_node` returns 0 for ever, not only "if the heap is full". An
  alarm pool that was full once takes no alarm again, and timed waits poll.
- `lfs_program` (`VFS_LFS.c:308`): `lfs_rom_write` with an offset programs to the
  end of the block, whatever the size it was given, where `lfs.h:161` says
  "Program a region in a block". The pages behind the region get what lies
  behind the buffer and cannot be programmed again before an erase.

Four more decide under which condition a property of a passing run is stated.

- `time.c:216`: `missed` keeps its value from the first round of the loop. A late
  alarm that repeats behind another head is in the heap and is reported as
  missed, and its callback is run once more.
- `timer.c:200`: a target that is overtaken after `set_target` has read the time
  (173) and before it writes ALARM (186) replaces the alarm that was set for
  another head. ALARM now holds a low word that is past, and nothing raises the
  interrupt that the comment (197) says still fires. The handler that writes
  ALARM again (133) has the same window. `NoAlarmForgotten` and
  `EveryAlarmFires` are stated of `prompt` behaviours, in which ALARM is written
  in time; a target reached after the write is theirs, and the guard with it.
- `multicore.c:174`: the word that asks for a lockout and the word that confirms
  it are the same. With two victims, a start that times out lets the late
  confirmation into the caller's own handler, and both cores spin. Cores that
  make timed calls are no victims in the run (`TimedVictims`).
- `cyw43_arch_threadsafe_background.c:268`: `cyw43_thread_exit` schedules the
  missed poll while it still holds the mutex, which it leaves at 272. A low
  priority interrupt that comes between finds the mutex taken and does nothing,
  so the work that the comment at 261 wants run waits for the next alarm.
  `WorkServed` therefore needs the fairness of the alarm.

Three properties are silent where the code is known to be wrong, because none
could hold there:

- `HeapShape` describes the tree. The free list of `pheap.h:247` is in `HeapInv`
  of the proofs as the code keeps it, and `FullMeansFull` is the only property
  that fails for it.
- `BytesRead` excludes a ring that is full on the reader's own core (`Starved`,
  section 4), where the reader never runs again.
- `ListShape` speaks of the list until an end of it is unmounted: the model
  halts (`halted`) before the write through a null pointer, which is undefined.

Seen while modelling, without a run of their own:

- VFS: `list_remove` writes through null pointers at either end of the list
  (`VFS.c:95`); `vfs_unmount` returns -1 always (`VFS.c:260`); a file system whose
  mount fails stays in the list (`VFS.c:231`); a name without a colon is not
  looked for and may repeat a letter, whose second drive is hidden; two paths
  with one hash cannot be open together; nothing protects the table between the
  choice of a slot and its use (`VFS.c:272`).
- `Serial`: two readers on two cores may both find the last byte, and one of
  them gets 255 instead of -1 (`SerialUart.h:141`).
- The RAM device declares an array of pointers and so scales its offsets by
  four (`VFS_LFS.c:214`).
- `fatfs_sd.c:358` rejects a card of the older kind that was initialised in time
  and keeps one that was not.
- `EEPROM.cpp`: `begin` allocates `size` bytes and copies `size` rounded up to 256
  (52, 59); `commit` never clears `_dirty` (119), so that after one write each
  further call erases and programs again.
- `irq.c:231`: a handler that has removed itself and adds another makes
  `irq_add_shared_handler` follow an overwritten link, which `IrqChain` excludes.
- `mutex.c:54`: `enter_count` is a byte, and the 256th nested enter wraps it to 0.

## 7. What is not modelled

- Vendored code (lwIP, TinyUSB, cyw43, littlefs, FatFs, FreeRTOS, CMSIS-DAP)
  and the older SDK copy in `SDK131`: by far the larger part of the tree.
- Register-level drivers, start-up code, `printf`, floating point: what matters
  there is in the hardware or in arithmetic, not in control.
- A reset of core 1 during a lockout or a lockout call. `multicore_reset_core1`
  (`multicore.c:92-107`) has no condition; `Multicore.Reset` waits until core 1
  is in no lockout call and neither core in a lockout or its handler, since the
  code may leave `lockout_mutex` owned by core 1, or `lockout_in_progress` set,
  with nobody to undo it. Resets by core 0 of a core 1 that is in the boot ROM or
  in its program, over any contents of the FIFOs, are modelled.
- Allocation and destruction of queues, pools and heaps, debug output.
- `sleep_until` and the repeating-timer wrapper of `time.c` (what
  `alarm_pool_add_repeating_timer_at` stores after the unlock is listed as a
  hazard); the claim functions; the 32-bit reads inside `time_us_64`, which
  `HardwareAlarm` takes as one; an `enter_count` that wraps, which
  `MutexAssumption` excludes.
- The newlib locks forward to `Mutex` and keep no state. The system calls
  forward to the VFS and to stdio.
- Of the VFS, calls of two tasks at once, from which nothing protects the
  table, so that no property could hold of them, and what follows the unmount
  of an end of the list. Of the flash device, reading; the RAM device.
- The SD card driver: each step of its dialogue depends on the card, so that a
  model would be mostly an invented card.
- EEPROM is a flag over one sector; a power loss between the erase and the
  program (`EEPROM.cpp:130`) loses it, and nothing in the code detects this.
- `arduino_heap_4.c` is FreeRTOS's `heap_4` (vendored in
  `library/freertos/src/heap_4.c`) with the interrupts of the calling core masked
  instead of the scheduler suspended, which keeps the other core out of nothing.
- stdio: formatting and drivers, with one mutex around them.

## 8. The plan

Done: the lock substrate, `Mutex`, `Semaphore`, `Queue` and `PHeap` with their
proofs; `HardwareAlarm` and `AlarmPool` with proofs of the latter; the multicore
modules, `IrqChain`, `Cyw43`, `SerialUart` and `Vfs` with their proofs; `LfsRom`.

Worth doing next, most valuable first:

1. `Heap4`: the free list of the Arduino heap, refining a set of disjoint
   blocks, on one core and on two.
2. `EEPROM` and littlefs's use of `LfsRom`, with a power loss between any two
   operations of the flash.
