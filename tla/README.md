# TLA+ models of the BES earbud SDK's storage, timer and chip-to-chip code

The repository is Bestechnic's Bluetooth-earbud SDK: two million lines of C and
C++, most of it drivers, codecs, Bluetooth profiles over a closed stack, and
vendored code.  This directory models the part whose behaviour is decided by the
code in the tree and is hard to test: how data and logs get to the NOR flash, the
software timers, and how two chips talk over a UART.

## The system

| part | state it keeps | operations | talks to |
| --- | --- | --- | --- |
| `services/norflash_api/norflash_api.cpp` | per module a list of pending erases and writes, the operation being flushed, the node and buffer pools, who has disabled flushing | register, read, erase and write (queued or synchronous), flush, flush_disable / enable, hooks, flush thread | HAL; called by everyone who stores anything |
| `platform/hal/hal_norflash.c` | the one suspended erase or program (`suspend_state`, `op_next_addr`, `op_next_buf`, `op_remain_len`) | erase, write, their `_suspend` and `_resume` forms | the chip |
| `services/norflash_api/app_flash_api.cpp` | none | cuts a request into sector and block calls, retries when the pools are full | norflash_api |
| `services/nv_section/userdata_section/nvrecord_extension.c` | RAM image of the user data, the state machine of its two flash copies | init, update, flush, the flash callback | norflash_api |
| the flush thread (in norflash_api.cpp) | mailbox: a byte count, a block pool, a message queue; the hooks | wake up, run hooks until all return 0 | the hooks of user data and log, norflash_api |
| `services/nv_section/log_section/log_section.c` | ring of buffers with states, flash position and state | output, asynchronous flush, flush of the rest, start-up | norflash_api, flush thread, trace output |
| `factory_section`, `aud_section`, `crash_dump_section` | write positions | append, rewrite | norflash_api |
| `utils/hwtimer_list/hwtimer_list.c`, `platform/hal/hal_timer.c` | free list, list of active timers, list of fired ones; one one-shot hardware timer | alloc, start, stop, free, interrupt | called by threads, callbacks and interrupts |
| `apps/common/uart_dma/app_uart_dma_thread.c` | a DMA ring with a margin behind its end, the counts of bytes in both, who is to be told of a send's end | start and stop receiving, interrupt, thread, send | UART; chip bridge |
| `apps/common/chip_bridge/app_chip_bridge.cpp` | mailbox and its mutex, the command that waits, resend counter, answer semaphore | send command, handle command, answer, time-out, resend | uart_dma, the other chip |
| `services/rpc`, `utils/cqueue`, `kfifo`, `list`, `heap` | tables, ring buffers, free lists | | |
| OTA, audio policy, Bluetooth glue, audio, board support | | | closed libraries, hardware |

Storage: a client calls norflash_api under its mutex and an
interrupt lock; the call queues an operation and wakes the flush thread (or the
sleep hook), which starts the oldest operation of one module; the HAL gives up
("suspended") as soon as an interrupt or another task needs the CPU or the bus, and
the next flush resumes it.  In between any client may queue, merge, read or run a
synchronous call.  On completion the module's callback runs under the interrupt lock.
The user data section and the log dump are clients whose hooks run in the flush thread.

Timers: callers run with interrupts locked and may come wherever the handler has released
them.  Chip bridge: on each chip a tx thread sends one command and waits for its answer, an
rx thread handles what the DMA ring delivers and answers; both send through one DMA channel.

Hard behaviours: list surgery while the tail is in the device's hands; reads that
must look through the lists; a second module's synchronous call while the first
module's operation is suspended; a flush gate that the coprocessor's users close;
power loss between the steps of a rewrite of the two copies of the user data, and between
the steps of a log flush; clients that change the image during a flush, and output that
fills buffers during one; wake-ups from threads of different priority that share an unlocked
count; timers stopped and restarted between two callbacks, and interrupts that run late;
transfers that complete while the receiver's callback runs; lost commands and answers, and
resends.  PROJECT.json lists them as hazards, each at its line, with the properties that
cover it.

What makes each part correct, in short:

* norflash_api: no node or buffer leaks or is shared; the operation in the device is the
  oldest of its list and its bytes do not change; the HAL never refuses a flush; a synchronous
  call follows what was queued; reads show exactly what clients have written; lists drain.
* user data: some copy is always valid; an image saved twice survives any power failure;
  no announced change is forgotten; the machine comes to rest.
* flush thread: no wake-up is lost, no message is forgotten, updates reach the flash once the
  callers leave it alone.
* log: one buffer is being filled; buffers reach the flash in the order they were filled, and
  the flash holds an unbroken sequence of logs that start-up can continue; full buffers are
  flushed, and what remains is after a crash.
* timers: every timer is on the list its state says; none fires early or is passed over; the
  hardware is set whenever one waits.
* reception: every byte is delivered once, in order; what can fail the corruption assertion is
  known.
* chip bridge: a command counted as answered has been handled by the peer; both chips come to
  rest.

## Modules

**NorMemory** - the cells.  A sector is a function from pages to values; programming
can only clear bits, so programming twice with different data yields `Mixed`.

**NorFlash** - norflash_api.cpp over the HAL, for device 0.

* A module's list (`opera_info` and the `next` pointers) is the set `opera[m]` of its
  nodes with `behind[n]`, the nodes that follow `n`.  The code walks from the head, so
  "the first node met with property P" is `FirstOf`, and `_get_tail` is `IsTail`.
  Membership and order are what the code depends on, and sets and a relation are what
  the provers handle.
* `used` and `bused` are the `is_used` flags of the two pools; `FirstFree` is the
  search in `_norflash_api_malloc`.  A free slot's content is forgotten (nothing reads
  it).
* Each API call is one action: it runs under the mutex and the interrupt lock.  A
  synchronous call loops, and its loops evaluate the users' callbacks, whose answer the
  coprocessor may change at any moment; so it is a sequence of actions (`SyncStart`,
  `SyncOther`, `SyncOwn`, `SyncWait`, `SyncHal`; the loop waits for one of the users, and finishes the
  operation of one of the other modules, if there are any) during which `sync` keeps all other
  callers out, and only `CpChanges` may interleave.
* `_opera_flush` is `OperaDone` or `OperaSuspended`: start or resume the target
  node and either finish it or leave it suspended at any page or sector.  The HAL's
  refusals are the guard `HalAccepts`; `FlushAccepted` says it never fails.
* `HalOp` is the HAL's context.  A suspended program leaves the page it was at
  `Mixed`; a suspended erase leaves the sectors of the piece it was at `Mixed`.

**FlashStore** - the abstract specification: a memory changed by the clients' writes and
erases, at once, and by nothing else.

**NorFlashWake** - NorFlash with the flush thread's rest.  `awake` is that the thread has a
message or has been returned 1, `refused` that its last norflash_api_flush found flushing disabled.
`ThreadServes` and `ThreadRests` are its calls of norflash_api_flush, `CallWakes` an asynchronous
call with the wake-up behind it, `HookActivate` a wake-up by another module's hook; flush_enable and
synchronous calls are among the `Others`, which wake nobody.  It is where draining is stated:
NorFlash itself does not say who flushes.

**MCNorFlash, MCNorFlashWake** - the regions used by the instances.

**NvRecord** - the user data section.  `ram` is the image (a content is the number of
the change that made it), `flash` the two sectors, `queue` and `base` the operations
handed to norflash_api, of which the oldest may be half done, as NorFlash shows it.
`FlushMainAsync` and `FlushBakAsync` are the two halves of the state machine, one step
a call; a synchronous flush holds the mutex (`sync`) and is the sequence `SyncCall`,
`SyncHead`, `SyncMain`, `SyncBak`, `SyncBakWait`.  Clients change the image
(`WriteRam`) and announce it (`ExtensionUpdate`) between any two of these steps; other
users of norflash_api flush too (`OthersFlush`); power fails at any point (`Crash`) and
`ExtensionInit` starts again, with its repair of a missing copy.  A refused call (pool
full) is the second disjunct of `Erase` and `Write`.  A synchronous flush that is refused an erase
asks norflash_api_get_free_buffer_count, whose assertion compares the erases of all modules with
the number of buffers: `AssertFails` stops the system there, or the erase is repeated.  (For a
write the same function compares operations with nodes, which always holds.)

**FlushThread** - the mailbox, and the flush thread with its three hooks.  One core runs
the ready thread of the highest priority (`Runs`), the flush thread's being the lowest;
`_norflash_api_mailbox_put` is five actions, so a higher thread may come between the
test of the count, the allocation, the queue and the load and store of the count.  The
hooks are `HookFlush` (norflash_api_flush), `HookNvDelays`, `HookNvRestarts`,
`HookNvFlushes` (the debounce timer and the user data machine, cut to its first half) and
`HookLog` (the number of full buffers only; LogDump has the rest).  The lists of norflash_api
are their lengths here.  Calls (`ExtensionUpdate`, `LogOutput`) come without bound; output that
meets a full log ring is left out (it overwrites a buffer, and LogDump has it), and the output that
fills the last buffer wakes nobody, as in the code.  `Broken` is a failed
assertion or a count that has lost an update; the promises hold until then, and the
run mailbox_alloc shows that the assertion does fail.

**LogDump** - log_section.c.  `data_buffer_list` with the buffers' states, offsets and
sequence numbers, the write position `w_seqnum`, the flush position `f_seqnum` and
`flash_offs`; text is counted in units.  `OutputFits` and `OutputFills` are
log_dump_output_handler, one action because trace output runs with interrupts locked.
`_log_dump_flush` is cut into the steps between which output, the other flusher or a crash
may come: `Erase`, `Erased` (the state is set after the call), `Check`, `Write`, `Free`,
`NextBuffer`, `Offset`, which reads the length of a buffer already freed, as the code does.
Two flushers take them: the hook, and flush_remain at power-off (`FlushAll`) or at the end of
a crash (`Crash`).  norflash_api is a queue of operations executed in order (`Execute`), which
may refuse; when `is_immediately` is set it is synchronous.  `Restart` loses the queue and
does what log_dump_init does with the headers it finds.  Not in the code: `overrun` (output
met a full buffer), `upset` (output or the other flusher changed what a flush was busy with, or
a crash stopped one with the positions half moved), `partial` (a buffer that was not full has
been flushed).  The code's own order is kept up to these, and the properties say so.

**HwTimer** - hwtimer_list.c over the one-shot timer of hal_timer.c.  `free`, `active` and
`fired` are the lists, `taken` the timers that hwtimer_alloc has taken off the free list
and not yet marked, `load`, `elapsed`, `enabled` and `pending` the hardware.  An API call is
one action, as it locks interrupts; the interrupt is `Irq` (taken), `Handler` or `HandlerEarly`
(lock taken) and `CallbackReturns`, and callers come between any of them.  The list walks
(`__hwtimer_start` and the deductions) are said by what they establish: `IsPlace`, `Expired`,
`Deducted`, over `Ahead(k)`, the time from the first timer's expiry to the k-th's.  Not in the
code: `due`, the ticks left of what the caller asked for, and `slack`, how often the
hardware was restarted meanwhile, in terms of which `NotEarly` and `NotLate` are said.

**UartDma** - reception in app_uart_dma_thread.c.  `uart_buf` holds the number of the byte last
written to each cell, the two cursors and the two counts are the code's; `Receive` is the DMA,
`Complete` the interrupt (a full transfer or a quiet line), `Wake` and `Consume` the thread,
whose loop looks at the counts again when the callback returns, `Error` a line error.  The counts
are modulo their width (`Plus`, `Minus`).  A start is `StartResets`, `StartArms` and `StartMarks` or
`StartFails`, and asks only whether reception is started, as the code does: it may come during a
callback, whose `bytesInBuffer -=` then makes the count wrap, and an interrupt may come between
the arming and the mark (`Ignored`), after which reception is started with no transfer armed.
Not in the code: `sent`, `delivered`, `overrun`, `unseen` (a transfer filled the margin during a
callback that had not seen it filled), and `upset`, the states in which the thread's place is no longer
that of the bytes: it wakes with an `unseen` margin, a transfer goes on at the ring's start that it
takes for a continuation (`RunsOn`), or reception was restarted during its callback.

**ChipBridge** - app_chip_bridge.cpp on both chips and the sending half of uart_dma.  The tx
thread is `Get`, the send, `Answered` or `TimesOut`, `ResendTake`, `ResendPut` or `GiveUp`,
`Free`; the rx thread `HandleCmd` (which answers) and `HandleRsp`.  uart_dma_send_data is
`SetId`, `Start`, and `SendReturns` or `SendTimesOut`; the interrupt is `Sent`.  Clients wait
for a block under the mutex (`SendCmd`, `ClientPut`), and `AllocFails` is the assertion after
seven tries.  `Lose` is the line; `LineError` and `EmptyTransfer` are the two ways into
app_uart_break_handler, which stops the running send and, for an error, leaves reception stopped, so
a send may time out with no other in its way.  `Blocks` counts the blocks that commands and answers
have in the heap of the mailbox, and `HeapFails` is the assertion of heap_malloc: the pool
is half a mailbox of the longest commands, so `HeapBlocks` is the least number of blocks that
may leave no room for one more.  Clients that wait for the mutex behind another, each with a block,
are left out, and so is what a torn packet does to the framing of the next one.

**NorFlashInv, NorFlashProofs, NorFlashRefinement, NvRecordProofs, FlushThreadProofs,
LogDumpProofs, HwTimerProofs, UartDmaProofs, ChipBridgeProofs** - the invariants and the theorems.

How they fit: NorFlash is the detailed layer.  NvRecord, LogDump and FlushThread are its clients
and see it through what NorFlash establishes: operations of a module are done in order,
the oldest may be half done, a call may be refused.  FlushThread and NorFlashWake in turn say when
flushing is fair in the others, and when it is not.  ChipBridge sends and receives through the code of UartDma: it has the
sending half step by step, and takes from UartDma that packets arrive whole and in order.

Operators whose comment begins with "Mistake" are variants of the definition after them,
with the error a programmer might make there; each property is checked to fail with one
(PROJECT.json, "mutants").

## What is checked

| run | instance | shows |
| --- | --- | --- |
| one_module | 1 module, 2 sectors of 2 pages, blocks of 2 sectors, 3 nodes, 2 buffers | `TypeOK`, `PoolsAccounted`, `OnlyTailLocked`, `SyncAfterQueued`, `HalSourceStable` |
| two_modules | 2 modules of 1 sector, 1 page, 3 nodes, 2 buffers, one user of the gate, the flush thread's rest | `FlushAccepted`, and `Drains` with a fair thread |
| reads | as one_module with sector erases and 1 buffer | `ReadsAreAStore`: NorFlash implements FlashStore |
| nv_record | 3 changes, 2 power failures or failed assertions | `TypeOK`, `FlushDurable`, `NoLostUpdate`, `NeverBothLost`, and `Settles` under fair flushing of what has begun |
| mailbox | a client that never stops calling, the timer and the flush thread, mailbox of 2, 2 nodes, 2 log buffers, a user of the gate | `TypeOK`, `QueueRoom`, `NoWakeUpLost`, and `UpdateWritten` under fair scheduling |
| hwtimer | 3 timers, times of 0 and 4 ticks, interrupts up to 3 ticks late | `TypeOK`, `ListsAgree`, `NoCollapse`, `Armed`, `NotEarly`, `NotLate` |
| log_dump | 3 buffers and 3 sectors of 3 units, a queue of 2, 5 logs, 1 power failure, a crash | `TypeOK`, `OneWritting`, `OldestNext`, `FlashInOrder`, and `FullFlushed`, `CrashFlushed` under fair flushing |
| uart | a ring of 4, a margin of 3, 11 bytes, counts modulo 8 | `TypeOK`, `InOrder`, `NothingLeft`, `CorruptionExplained` |
| chip_bridge | 2 chips, mailboxes and heaps of 2, 1 resend, 2 commands | `TypeOK`, `NoTokenLeft`, `DeafIsExplained`, `AnsweredIsHandled`, and `ComesToRest` under fair threads |

The other three runs look for one violation each and are listed further down.

Bounds.

* NorFlash: two sectors make merging by range, by address and by neither all
  possible; two pages let a program be suspended before, inside and after the page that
  matters and let write windows be extended on both sides; three nodes allow a locked tail
  with a write and an erase of the same sector queued behind it, and pool exhaustion; two
  buffers are what a second write of a sector needs.  One payload suffices for the
  structural properties, because a page then is erased, written or mixed.  `CleanWrites`
  keeps to writes of erased pages, as the clients in the tree do; without it a write over
  data leaves `Mixed`, and neither the code nor FlashStore promises anything of it.
* NvRecord: `MaxVersion` 3 gives the default image, one that reaches both copies and one
  that is caught half way; `MaxCrashes` 2 lets power fail during the repair that follows a
  failure.
* FlushThread: `MailboxMax` 2 with three threads fills the mailbox from below and above the flush
  thread's priority, with the flush thread's own wake-ups; calls and changes of the gate are
  unbounded, so the wake-ups never have to end; `NOp` 2 makes the pool full with both of its
  clients waiting; `NLog` 2 has an output that wakes the thread and one that does not.  The safety
  properties hold with two clients as well (9 million states, proved for any number); mailbox_alloc
  needs two.
* HwTimer: three timers are what is needed for one before, one at and one behind a place in the
  list, and for two to have fired while a third waits.  A time of 0 fires at once and 4 lets a
  short timer overtake a long one and expire before, with or after it; `MaxLate` 3 lets an
  interrupt be held off past the next timer's expiry.  `MaxSlack` 1 keeps the restarts that one
  timer sees to one, since each may move it by a tick and the counts would grow without bound.
* UartDma: with a ring of 4 and a margin of 3 a transfer can end before, at and behind the end of
  the ring, by one or by all of the margin; eleven bytes go around it twice and into the margin
  again.  `CountMod` 8 is the least that tells all counts of bytes apart, as 2^32 does.
* LogDump: with three buffers one can be filled, one full and one flushed; an output of up to two
  units fits, fills or goes on; five logs go around three sectors and meet their own erased
  sectors; the queue of 2 holds an erase with its write and refuses.  Once a flush is upset only
  `MaxUpset` 3 logs more are made and power does not fail (`Restart` needs `~upset`): what is
  promised then is only types, and the end of nothing.
* ChipBridge: two commands let each chip have one, so that both wait for each other, or one chip
  have a second behind the first; a mailbox of 2 is filled by a command in hand and a resend; one
  resend is spent and the command given up; `HeapBlocks` 2 is reached by a command in hand and an
  answer.

The runs of FlushThread, UartDma, LogDump and ChipBridge do not check for deadlock, because these
systems stop when the model's clients do: the flush thread waits for a message for ever, the line
has no more bytes or the assertion has failed, the last log is written, all commands are done.
The liveness properties say that what stops has finished.

Fairness.

* NorFlashWake: weak fairness of the thread while it is awake (it calls norflash_api_flush again as
  long as that returns 1), strong fairness of completing an operation of each module (a program or
  erase that is resumed again and again ends: the device makes progress each time), weak
  fairness of a synchronous call's steps.  The thread's rest is in the model: it ends only
  with a wake-up, of which none is fair.  `Drains` excepts clients that never stop, a gate that is
  closed again and again, and a thread that was turned away at the closed gate and is not woken
  again; the last is what the code does (norflash_api.cpp:2460), and TLC refutes `Drains` without it.
* NvRecord: strong fairness of the moves of a machine that is not idle (the hook returns 1 until
  the machine rests, and the thread calls it again; a refused call is not refused for ever, since
  the pool is drained in between) and of a synchronous flush, weak fairness of the flush of the
  oldest operation, of a client's announcement of its change, and of power.  Nothing is assumed of
  the beginning of an asynchronous flush, which the debounce timer may put off for ever: `Settles`
  excepts a machine that is never made to begin (`Starved`).  Crashes and failed assertions are
  not fair and are bounded: a device that stops for ever settles nothing.
* FlushThread: weak fairness of the flush thread's next step and of a call's (the scheduler runs the
  highest ready thread), strong fairness of completing an operation.  The timer expires if the thread
  is found waiting again and again from a time on when clients are quiet (`LeftAlone`): it takes five
  seconds, and a thread that is left alone is at its mailbox long before.  Of a client that
  calls for ever nothing of the kind is assumed, since each wake-up restarts the timer (1500), and
  a user of the gate need not open it.  `UpdateWritten` has both as conditions, and TLC
  refutes it without either.  It ends with the write done by norflash_api (`ops` is 0 and the machine
  idle), not with the copy that clears `is_update`.
* LogDump: weak fairness of the hook's next step (the flush thread calls it while it returns 1,
  and FlushThread is about when it is woken), of flush_remain's (a loop), and of executing the
  oldest queued operation (what `Drains` says of NorFlash).  Nothing is assumed of output.
* ChipBridge: weak fairness of each thread's steps, of the UART, and of a client that waits for a
  block (it gets one or fails).  The line may lose everything.

### Where the code and what is said of it differ

Each of these is a run that TLC must find violated; PROJECT.json quotes the lines.

* **erase_cover**: a block erase accepted while an erase of one of its sectors is
  suspended is taken for the same erase; the other sectors are never erased.
* **mailbox_alloc**: two callers both pass the test of the mailbox count, and the second
  finds no block: `ASSERT(msg_p, "osMailAlloc error")` fails.
* **uart_margin**: the thread takes the margin's count once for a wake-up.  When a transfer that
  completes during the callback wraps, the margin's count is never cleared, and the next wrap
  fails the assertion "UART data corruption" although no byte was overwritten, none out of order and
  reception never restarted: `MarginConsumed`, of which `CorruptionExplained` is what is true.

Others were met while modelling and have no run.  Where a property would fail on one, the property
or its run says what it leaves out.

* Flush gate.  With flushing disabled, `continue` inside `do { } while(bresult)`
  (norflash_api.cpp:2931) leaves the loop instead of waiting, and the synchronous operation
  overtakes the queued ones; with another module's operation suspended, the loop at 2912 spins
  with interrupts locked.  norflash_api_flush returns 0 when flushing is disabled (2460), as if all
  were flushed: the thread rests, and enabling wakes nobody.  Whether flushing is allowed is tested
  before interrupts are locked (2458).
* Reads.  Reads and new write buffers look for a queued erase by the sector's address and miss a
  block erase for all but the block's first sector (1945).  A second write of a sector whose first
  write is suspended gets a buffer read from half-programmed flash (2186), and reads return it.
* `norflash_api_get_free_buffer_count` (3243) compares the number of queued erases with the number
  of write buffers, so its assertion fails with one buffer and two queued erases.  A synchronous flush of
  the user data that is refused an erase calls it (nvrecord_extension.c:1016, 1206): `AssertFails`.
* User data.  Start-up does not compare two valid copies (nvrecord_extension.c:799): power lost
  after the main copy is rewritten and before the backup is leaves an older valid backup, and a
  later rewrite of the main copy that fails goes back to it; `FlushDurable` promises only the last
  image that reached both copies.  A flush from interrupt context (1298) does not take the mutex.
  Every wake-up restarts the debounce timer (1500), so frequent ones put the flush off for ever; no
  property promises the flush to a client that has company.
* Log.  The flush frees a buffer and then reads its offset (log_section.c:267): output that takes the
  buffer in between moves the flash position off the sectors' grid, and nothing is flushed again.  A
  crash between freeing a buffer and moving the position on does the same.  A second flush of the rest, after
  one that flushed a partial buffer, never ends (299).  An output that meets the flush position
  with nothing lost is reported as "LOST LOG: 0 bytes", and the next one overwrites a full buffer
  (464).  `upset`, `partial` and `overrun` are these cases.
* Timers.  A start while the hardware is overdue reads its counter as 0 and does not account for how
  long it has been (hwtimer_list.c:369), so the timer fires that much early; `NotEarly` allows for it.
* UART.  A transfer that ends exactly at the ring's end wraps with an empty margin, which the thread
  cannot tell from no wrap (app_uart_dma_thread.c:118): it looks for the next transfer's bytes, which are at
  the ring's start, behind its end.  A restart during a callback makes its count wrap (383, 264), and an
  interrupt between 391 and 406 leaves reception started with no transfer armed.  The first two are
  in `upset`; the last delivers nothing more, and loses no byte that was counted.  A line error
  leaves `is_app_uart_receiving_started` set and reception stopped (366).
* Chip bridge.  An answer that comes after its command's time-out ends the wait for the next command
  (app_chip_bridge.cpp:265); with `Prompt` FALSE TLC shows it.  Two sends that overlap may end
  reception on the chip, and so does a line error, or a transfer with nothing in it that stops a
  send (`DeafIsExplained`).  The resend takes a block from the mailbox that only its
  own thread empties, and the assertion `alloc mbox error` fails when it is full.

## What is proved

All with TLAPS, for every value of the constants that the assumptions allow.

| module | theorem | says |
| --- | --- | --- |
| NorFlashProofs | `TypeSafe` | `Spec => []TypeOK`, from the inductive `TypeCorrect` |
| | `SafetyCorrect` | the invariant below |
| | `PoolsSafe`, `LockSafe`, `HalSafe` | `[]PoolsAccounted`, `[]OnlyTailLocked`, `[]FlushAccepted` |
| | `SourceSafe` | `HalSourceStable`, an action property |
| | `SyncQueuedSafe` | `[]SyncAfterQueued`, while the gate is open |
| NorFlashRefinement | `StoreRefined`, `StoreRefinedPlain` | `ReadsAreAStore`: NorFlash implements FlashStore, on the conditions below |
| NvRecordProofs | `NvCorrect` | the invariant below |
| | `NvTypeSafe`, `NvDurable`, `NvNothingLost` | `[]TypeOK`, `[]FlushDurable`, `[]NoLostUpdate` |
| | `NvNeverBothLost` | `NeverBothLost`, an action property |
| FlushThreadProofs | `BlocksCorrect`, `MailboxHasRoom` | the block accounting, and `[]QueueRoom` |
| | `ThreadTypeSafe`, `ThreadWakes` | `[]TypeOK`, `[]NoWakeUpLost` |
| LogDumpProofs | `LogOrder` | the invariant below |
| | `LogTypeSafe`, `LogOneWritting` | `[]TypeOK`, `[]OneWritting` |
| | `LogOldestNext`, `LogFlashInOrder` | `[]OldestNext`, `[]FlashInOrder` |
| UartDmaProofs | `UartCorrect` | the invariant below |
| | `UartTypeSafe`, `UartInOrder`, `UartNothingLeft`, `UartCorruption` | `[]TypeOK`, `[]InOrder`, `[]NothingLeft`, `[]CorruptionExplained` |
| HwTimerProofs | `TimerCorrect` | the invariant below |
| | `TimerTypeSafe`, `TimerListsAgree`, `TimerNoCollapse`, `TimerArmed` | `[]TypeOK`, `[]ListsAgree`, `[]NoCollapse`, `[]Armed` |
| | `TimerInTime` | the second invariant below |
| | `TimerNotEarly`, `TimerNotLate` | `NotEarly` and `NotLate`, action properties |
| ChipBridgeProofs | `BridgeCorrect` | the invariant below |
| | `BridgeTypeSafe`, `BridgeDeaf`, `BridgeNoTokenLeft`, `BridgeAnswered` | `[]TypeOK`, `[]DeafIsExplained`, and with `Prompt` `[]NoTokenLeft` and `AnsweredIsHandled`, an action property |

Assumptions: each module's, which only say that the parameters are of the right kind (and that
the model values for special contents differ), and those named here.  `SyncQueuedSafe` is of
behaviours in which the gate stays open (`[]Allowed`): when it is shut, the loop that drains a
module's list is left at once (norflash_api.cpp:2931).  The refinement has four conditions, and each
but the first is there because the code breaks the property without it: clients write only
where they read 0xff, as norflash_api asks; an erase is one sector (`BlockSectors = 1`; reads do
not find the queued erase of a block by the address of its second sector, 1945), and no sector
belongs to two modules (`StoreConstants`); the gate is open; and no write comes to a sector whose
only queued operation is a suspended write, whose new buffer would be filled from the half-programmed
sector (`HalfwayWrite`, 2186).  The last two are conditions on the behaviour in `StoreRefined`.
`StoreRefinedPlain` needs neither: with one buffer, which the suspended write holds, or
without `FLASH_SUSPEND`, that write cannot happen, and without users of the gate it is never shut;
the run `reads` is an instance of it.  The theorems of UartDmaProofs
have no condition.  Those of ChipBridgeProofs assume
`Prompt` where an answer must not be late, as noted at each.  `ThreadWakes` assumes a mailbox of 2 to 127
messages: the count is a byte, so a larger mailbox cannot tell a count that has wrapped, and with
one message the flush thread's own wake-up finds no room.  The code's mailbox has 2.

**NorFlash, types.**  `TypeOK` is not inductive: that the buffer of a write node is a buffer
(and not `Null`) is needed when its content is programmed or merged, and that a synchronous
call which waits for another module waits for one is needed when it flushes it.  `TypeInv`
adds the two (`HasBuffer`, `HasOther`); one lemma per operation.

**NorFlash, safety.**  `SafetyInv == ListInv /\ BufInv /\ OnlyTailLocked /\ HalInv`:
the lists are disjoint and hold exactly the slots in use; the buffers in use and the write
nodes are in bijection; a locked node has nothing behind it; the HAL holds an operation just
when one module has one locked, and then its context is that node and the module is
`cur_mod`.  Each operation that changes a list takes nodes out or puts one at the head, and
`RelinkLists` and `RelinkLocks` say once what such surgery preserves.  The last part gives
`FlushAccepted` (whoever flushes holds the operation the device holds); the second gives
`HalSourceStable` (the locked node's buffer is no other node's, and no operation writes to
or frees a locked node's).

**NorFlash, reads.**  The store of FlashStore is mapped to what a read returns: of each sector, the
buffer of the newest queued write, 0xff... under the newest erase, else the device.  A step that
queues must change this in the one sector it names, a step that flushes in none, and for the
second the invariant must say what the newest buffer has to do with the device.  `StoreInv` does:
`NodeInv` (a node is for one sector of its module), `OrderInv` (the list is a total order),
`StackInv` (a sector has one erase at most and one write that is not begun; if there are
others under that write, an erase is among them), `ContentInv` (the buffer of a write is, page by page,
what the device will hold once the operations before it are done: equal outside the range to be
programmed, and inside it over 0xff or over the same bytes) and `HalAtInv` (of a suspended write,
what it has passed is programmed, the page it stopped at counted as it was before).  `SyncArgsInv`
keeps the condition on a synchronous write from the call to the device.  `Surgery` is the effect of
every change of a list; the lemmas after it say once which reads and which parts of the invariant
it leaves alone, and each operation adds what happens at its own sector.  Completing the oldest
node leaves the sector as it was read (`DoneFlash`), because that node's data fits the device.

**NvRecord.**  Six parts: `QueueInv` (what is queued in each state of the machine),
`ReadyInv` (an erased or written copy is really so once the queue is empty, and a write
always meets an erased sector or its own content), `AgeInv` (every valid copy is at least as
new as the last committed image, the backup no newer than the main copy), `CopiesInv` (one
copy is valid whenever the other is given up), `ImageInv` (an announced change is in the image
to be written) and `SyncInv`.  `ReadyInv` is where the second write of the backup by a
synchronous flush that takes over an asynchronous one is shown to be harmless: it programs the
same bytes.

**FlushThread.**  `Blocks` counts: the blocks in use are the queued messages, the one being
handled, and one for each caller between allocation and put; so a caller about to put finds
fewer messages than blocks.  For `NoWakeUpLost` the count must be related to the messages while
callers are anywhere between loading and storing it: `WakeInv` says where each thread may be
given the threads it has preempted (`Position`); that the count, with the callers that have not
counted yet, is at most the messages (`Counted`), or has gone below 0 and every call is refused
(`Wrapped`); and that, when no message is coming, whatever the hooks of this round passed over
is done (`Covered`).

**LogDump.**  `OrderInv` fixes the log that the flush position is for from the buffers alone
(`First`: the headers written, less the full buffers and the one being filled) and says that the
flash position is that log's sector; that the queue holds a contiguous run of the sequence
erase 0, write 0, erase 1, write 1, ..., which ends where the flusher stands; and that the flash
holds a window of the last logs, one to each sector modulo their number.  A crash may ask for one operation twice
(`SameWindow`), and start-up reads off the window where to go on (`StartUp`).  Once a partial
buffer has been flushed, `PartialInv` says that nothing is flushed any more.

**UartDma.**  Reception is in one of two states: `Linear`, the bytes to be delivered run from the
output cursor to the input cursor, or `Wrapped`, they run to the end of the margin and on from 0;
in each the two counts and the thread's own copies say how many they are, whether or not the callback
that runs has seen the margin filled.  Nothing is claimed after an overrun or an upset but types, and
that the assertion's failure is explained.

**HwTimer.**  What makes the lists agree is only where timers are put in and taken out: each operation
puts one timer in somewhere (`Enlists`), takes one out (`Delists`) or takes the first few
(`IsBoth`), and `Placed`, `Dropped` and `Divided` say once what this does to a list without repeats.
`HandlerInv` adds that timers wait on fired only while a callback runs, and `HwInv` that the
hardware has the first timer's time, from which no assertion about the counter can fail.
`TimeInv` relates the list to what callers asked for: `At(k)`, the first timer's time and the sum of
those up to the k-th, is when that timer will fire, counted from the last start of the hardware, and
`InTime` bounds how far this may be from the ticks left of the request.  It is two-sided, with
the asymmetry of the code: a time of 0 or 1 tick is loaded as 1, so such a first timer fires later
than the list says, and timers whose time has passed when the first is stopped late are cut to 0.
The sum is a recursive function, so the proof first shows that it exists and is unique for every list
(`SumExists`, `SumUnique`, from a smallest counterexample: `Smallest`), and from then on uses its two
equations (`AheadSteps`).  Of each operation a `...Times` lemma gives the sums of the new
list, by naming them and checking that they add up (`NextAddUp`), and two lemmas
(`RestartedRunning`, `RestartedOverdue`) say what a restart of the hardware does to `InTime`.

**ChipBridge.**  `Flight`: the command in hand, its packet on the line, its answer and its token are
in one place at most, so a token is for the command that waits.

Only model-checked: the liveness properties (`Drains`, `Settles`, `UpdateWritten`, `FullFlushed`,
`CrashFlushed`, `ComesToRest`), which the prover cannot reach.

## Plan

Written, in this order: NorFlash (everything else writes through it), NvRecord (the data a
user would miss), FlushThread (which makes both progress), HwTimer, UartDma, LogDump, ChipBridge.

Left:

1. **AppFlash** (app_flash_api.cpp): the retry loop over a pool that fills up, and how a range is
   cut into sector and block calls (`app_flash_erase` has no caller in the tree).
2. **Containers** (cqueue, kfifo): the ring-buffer arithmetic, implementing a FIFO.
3. A step-by-step flush gate in FlushThread (the test of the callbacks before the interrupt lock).

## Not modelled

norflash_api: block-protection and remap tables, security registers, the second device (the
same code over another pool), `FLASH_MEM_READ_BUS_LOCK`.  HAL: clocks, modes, calibration,
chip detection.  nvrecord_extension: `nv_record_rebuild` and `nv_record_sector_clear`, which
erase both copies on purpose; the rebuilding of an image from a partly valid one; flushes from
interrupt context, which do not take the mutex and depend on exception handlers.  log_section:
`log_dump_clear`, which nothing calls, the variant without roll-back, and the text.  hwtimer_list:
`hwtimer_update`, which changes no list and no time, and the queries.  chip bridge: instant
commands, the cutting of the byte stream into packets, and the variant that wakes the peer over
GPIO.  uart_dma: closing and the loop-back test.  Everything
PROJECT.json lists as not modelled: drivers, codecs and audio processing (numeric code and DMA),
Bluetooth profiles, IBRT and TWS (event handlers over binary libraries), OTA, rpc and the
record formats of the user data (candidates once the plan is done), vendored code.
