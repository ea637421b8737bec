---------------------------- MODULE FlushThread ----------------------------
(***************************************************************************)
(* The flush thread of norflash_api.cpp, the mailbox that wakes it, and    *)
(* the hooks it runs: norflash_api_flush, the asynchronous flush of the    *)
(* user data section with its debounce timer, and the log dump.            *)
(*                                                                         *)
(* One core runs the thread with the highest priority that is ready, and   *)
(* the flush thread has the lowest.  Nothing here blocks in the middle of  *)
(* a call, so a call is only ever interrupted by calls of higher ones.     *)
(* The mailbox count is a byte that is loaded, changed and stored.         *)
(*                                                                         *)
(* Of the operations queued in norflash_api only their number per module   *)
(* is kept.  The user data machine is cut to its first half (the backup's  *)
(* half is alike; NvRecord has it whole).  Output that meets a full log    *)
(* ring is left out: it overwrites a buffer (LogDump).                     *)
(***************************************************************************)
EXTENDS Naturals

CONSTANTS
    NClient,     \* threads that wake the flush thread, by priority
    MailboxMax,  \* NORFLASH_API_MAILBOX_MAX
    NOp,         \* nodes of norflash_api
    NLog,        \* LOG_DUMP_SECTOR_BUFFER_COUNT
    Gate         \* whether a user may disable flushing

ASSUME FlushThreadAssumption ==
    /\ NClient \in Nat /\ MailboxMax \in 1 .. 254 /\ NOp \in Nat \ {0}
    /\ NLog \in Nat \ {0, 1} /\ Gate \in BOOLEAN

VARIABLES
    cnt,        \* _norflash_api_mailbox_cnt
    pool,       \* blocks of mail_box_mp_id in use
    mq,         \* messages in mail_box_mq_id
    failed,     \* an assertion has failed
    pc,         \* where each thread is in _norflash_api_mailbox_put, or "out"
    reg,        \* the count a thread has loaded
    at,         \* where the flush thread is
    again,      \* ~hook_done
    ops,        \* operations queued in norflash_api, by module
    disabled,   \* a user has disabled flushing and its callback says no
    refused,    \* the last flush hook found flushing disabled
    is_update, state,     \* nv_flush_state
    delay, running,       \* flush_is_delay, and whether debouce_timer runs
    logs, log_state       \* full log buffers, log_dump_flash_state

mailbox  == <<cnt, pool, mq, failed>>
threads  == <<pc, reg>>
userdata == <<is_update, state>>
debounce == <<delay, running>>
gate     == <<disabled, refused>>
log      == <<logs, log_state>>
vars == <<mailbox, threads, at, again, ops, gate, userdata, debounce, log>>

Flusher == 0
Timer   == NClient + 1            \* the RTOS thread that runs timer callbacks
Threads == Flusher .. Timer
Clients == 1 .. NClient
Modules == {"userdata", "log"}
Byte    == 0 .. 255

TypeOK ==
    /\ cnt \in Byte /\ pool \in 0 .. MailboxMax /\ mq \in 0 .. MailboxMax
    /\ failed \in BOOLEAN
    /\ pc \in [Threads -> {"out", "check", "alloc", "put", "load", "store"}]
    /\ reg \in [Threads -> Byte]
    /\ at \in {"wait", "flush", "nv", "nv_restart", "log", "end", "free", "load", "store"}
    /\ again \in BOOLEAN
    /\ ops \in [Modules -> 0 .. NOp] /\ ops["userdata"] + ops["log"] <= NOp
    /\ disabled \in BOOLEAN /\ refused \in BOOLEAN
    /\ is_update \in BOOLEAN /\ delay \in BOOLEAN /\ running \in BOOLEAN
    /\ state \in {"IDLE", "MAIN_ERASING", "MAIN_ERASED", "MAIN_WRITE_PENDING", "MAIN_WRITTEN"}
    /\ logs \in 0 .. NLog /\ log_state \in {"IDLE", "ERASED"}

Init ==
    /\ cnt = 0 /\ pool = 0 /\ mq = 0 /\ failed = FALSE
    /\ pc = [p \in Threads |-> "out"] /\ reg = [p \in Threads |-> 0]
    /\ at = "wait" /\ again = FALSE
    /\ ops = [m \in Modules |-> 0] /\ disabled = FALSE /\ refused = FALSE
    /\ is_update = FALSE /\ state = "IDLE" /\ delay = FALSE /\ running = FALSE
    /\ logs = 0 /\ log_state = "IDLE"

-----------------------------------------------------------------------------
(* _norflash_api_mailbox_put                                               *)

Runs(p) == ~failed /\ \A q \in Threads : q > p => pc[q] = "out"

Step(p, from, to) ==
    /\ Runs(p) /\ pc[p] = from
    /\ pc' = [pc EXCEPT ![p] = to]

others == <<at, again, ops, gate, userdata, debounce, log>>

(* Mistake: a message being handled is taken for one that is waiting.      *)
MailboxCheckOne(p) ==
    /\ Step(p, "check", IF cnt >= MailboxMax - 1 THEN "out" ELSE "alloc")
    /\ UNCHANGED <<mailbox, reg, others>>

MailboxCheck(p) ==
    /\ Step(p, "check", IF cnt >= MailboxMax THEN "out" ELSE "alloc")
    /\ UNCHANGED <<mailbox, reg, others>>

(* Mistake: a pool larger than the queue.                                  *)
MailboxAllocMore(p) ==
    /\ IF pool < 2 * MailboxMax
       THEN Step(p, "alloc", "put") /\ pool' = pool + 1 /\ UNCHANGED failed
       ELSE Step(p, "alloc", "alloc") /\ failed' = TRUE /\ UNCHANGED pool
    /\ UNCHANGED <<cnt, mq, reg, others>>

(* The pool has no block: "osMailAlloc error".                             *)
MailboxAlloc(p) ==
    /\ IF pool < MailboxMax
       THEN Step(p, "alloc", "put") /\ pool' = pool + 1 /\ UNCHANGED failed
       ELSE Step(p, "alloc", "alloc") /\ failed' = TRUE /\ UNCHANGED pool
    /\ UNCHANGED <<cnt, mq, reg, others>>

(* A message that finds no room leaves its block allocated.                *)
MailboxPut(p) ==
    /\ IF mq < MailboxMax THEN Step(p, "put", "load") /\ mq' = mq + 1
       ELSE Step(p, "put", "out") /\ UNCHANGED mq
    /\ UNCHANGED <<cnt, pool, failed, reg, others>>

MailboxLoad(p) ==
    /\ Step(p, "load", "store")
    /\ reg' = [reg EXCEPT ![p] = cnt]
    /\ UNCHANGED <<mailbox, others>>

MailboxStore(p) ==
    /\ Step(p, "store", "out")
    /\ cnt' = (reg[p] + 1) % 256
    /\ UNCHANGED <<pool, mq, failed, reg, others>>

HookActivate(p) ==
    \/ MailboxCheck(p) \/ MailboxAlloc(p) \/ MailboxPut(p)
    \/ MailboxLoad(p) \/ MailboxStore(p)

-----------------------------------------------------------------------------
(* The flush thread: a message, the hooks until all return 0, the release  *)
(* of the message.                                                         *)

At(from, to) == Runs(Flusher) /\ pc[Flusher] = "out" /\ at = from /\ at' = to

MailboxGet ==
    /\ At("wait", "flush") /\ mq > 0
    /\ mq' = mq - 1 /\ again' = FALSE
    /\ UNCHANGED <<cnt, pool, failed, threads, ops, gate, userdata, debounce, log>>

Pending == \E m \in Modules : ops[m] > 0

(* One step of norflash_api_flush: an operation is completed or suspended, *)
(* unless there is none or flushing is disabled.                           *)
FlushOne ==
    \/ ~disabled /\ \E m \in Modules : ops[m] > 0 /\ ops' = [ops EXCEPT ![m] = @ - 1]
    \/ UNCHANGED ops

HookFlush ==
    /\ At("flush", "nv")
    /\ FlushOne
    /\ again' = (again \/ (~disabled /\ \E m \in Modules : ops'[m] > 0))
    /\ refused' = disabled
    /\ UNCHANGED <<mailbox, threads, disabled, userdata, debounce, log>>

(* Mistake: the last node is given twice.                                  *)
RoomForOneMore ==
    ops["userdata"] + ops["log"] <= NOp

(* norflash_api_erase or norflash_api_write, asynchronous: the operation   *)
(* is queued, or refused for want of a node, and the thread wakes itself.  *)
Room ==
    ops["userdata"] + ops["log"] < NOp

Queue(m) ==
    /\ Room /\ ops' = [ops EXCEPT ![m] = @ + 1]
    /\ pc' = [pc EXCEPT ![Flusher] = "check"]
Refused ==
    /\ ~Room /\ FlushOne
    /\ pc' = [pc EXCEPT ![Flusher] = "check"]

(* nv_norflash_async_flush_check, reached in state IDLE only: a flush      *)
(* begins when the debounce timer has run out since the last call.         *)
HookNvDelays ==
    /\ state = "IDLE"
    /\ \/ ~delay /\ At("nv", "log") /\ delay' = TRUE /\ running' = TRUE
       \/ delay /\ running /\ At("nv", "nv_restart") /\ UNCHANGED debounce
    /\ UNCHANGED <<mailbox, threads, again, ops, gate, userdata, log>>

(* Mistake: the timer is stopped and not started again.                    *)
HookNvStops ==
    /\ At("nv_restart", "log")
    /\ running' = FALSE
    /\ UNCHANGED <<mailbox, threads, again, ops, gate, userdata, delay, log>>

HookNvRestarts ==
    /\ At("nv_restart", "log")
    /\ running' = TRUE
    /\ UNCHANGED <<mailbox, threads, again, ops, gate, userdata, delay, log>>

MayFlush == state # "IDLE" \/ (delay /\ ~running)

HookNvFlushes ==
    /\ At("nv", "log") /\ MayFlush
    /\ delay' = (state # "IDLE" /\ delay)
    /\ \/ /\ state = "IDLE" /\ ~is_update
          /\ UNCHANGED <<ops, pc, userdata>>
       \/ /\ (state = "IDLE" /\ is_update) \/ state = "MAIN_ERASING"
          /\ \/ Queue("userdata") /\ state' = "MAIN_ERASED"
             \/ Refused /\ state' = "MAIN_ERASING"
          /\ UNCHANGED is_update
       \/ /\ state = "MAIN_ERASED" /\ state' = "MAIN_WRITE_PENDING"
          /\ is_update' = FALSE
          /\ UNCHANGED <<ops, pc>>
       \/ /\ state = "MAIN_WRITE_PENDING"
          /\ \/ Queue("userdata") /\ state' = "MAIN_WRITTEN"
             \/ Refused /\ UNCHANGED state
          /\ UNCHANGED is_update
       \/ /\ state = "MAIN_WRITTEN"
          /\ IF ops["userdata"] = 0 THEN state' = "IDLE" /\ UNCHANGED ops
             ELSE UNCHANGED state /\ FlushOne
          /\ UNCHANGED <<is_update, pc>>
    /\ again' = (again \/ state' # "IDLE" \/ is_update')
    /\ UNCHANGED <<mailbox, reg, gate, running, log>>

(* log_dump_flush erases the next sector ahead and writes full buffers.    *)
HookLog ==
    /\ At("log", "end")
    /\ \/ /\ log_state = "IDLE"
          /\ \/ Queue("log") /\ log_state' = "ERASED"
             \/ Refused /\ UNCHANGED log_state
          /\ UNCHANGED <<logs, again>>
       \/ /\ log_state = "ERASED" /\ logs > 0
          /\ \/ Queue("log") /\ log_state' = "IDLE" /\ logs' = logs - 1 /\ UNCHANGED again
             \/ Refused /\ again' = TRUE /\ UNCHANGED log
       \/ log_state = "ERASED" /\ logs = 0 /\ UNCHANGED <<log, again, ops, pc>>
    /\ UNCHANGED <<mailbox, reg, gate, userdata, debounce>>

HookEnd ==
    /\ At("end", IF again THEN "flush" ELSE "free")
    /\ again' = FALSE
    /\ UNCHANGED <<mailbox, threads, ops, gate, userdata, debounce, log>>

(* _norflash_api_mailbox_free                                              *)
MailboxFree ==
    /\ At("free", "load")
    /\ pool' = pool - 1
    /\ UNCHANGED <<cnt, mq, failed, threads, again, ops, gate, userdata, debounce, log>>

MailboxFreeLoad ==
    /\ At("load", "store")
    /\ reg' = [reg EXCEPT ![Flusher] = cnt]
    /\ UNCHANGED <<mailbox, pc, again, ops, gate, userdata, debounce, log>>

MailboxFreeStore ==
    /\ At("store", "wait")
    /\ cnt' = (reg[Flusher] + 255) % 256
    /\ UNCHANGED <<pool, mq, failed, threads, again, ops, gate, userdata, debounce, log>>

Thread ==
    \/ MailboxGet \/ HookFlush \/ HookNvDelays \/ HookNvRestarts \/ HookNvFlushes
    \/ HookLog \/ HookEnd \/ MailboxFree \/ MailboxFreeLoad \/ MailboxFreeStore

-----------------------------------------------------------------------------
(* Those who wake it.                                                      *)

(* nv_record_extension_update                                              *)
ExtensionUpdate(p) ==
    /\ Step(p, "out", "check")
    /\ is_update' = TRUE
    /\ UNCHANGED <<mailbox, reg, at, again, ops, gate, state, debounce, log>>

(* log_dump_output_handler has filled a buffer.  If it is the last of the  *)
(* ring nobody is woken.                                                   *)
LogOutput(p) ==
    /\ logs < NLog /\ logs' = logs + 1
    /\ Step(p, "out", IF logs' = NLog THEN "out" ELSE "check")
    /\ UNCHANGED <<mailbox, reg, at, again, ops, gate, userdata, debounce, log_state>>

(* async_flush_confirm_timer_callback                                      *)
TimerExpires ==
    /\ running /\ running' = FALSE
    /\ Step(Timer, "out", "check")
    /\ UNCHANGED <<mailbox, reg, at, again, ops, gate, userdata, delay, log>>

(* norflash_api_flush_disable, and its end: norflash_api_flush_enable or a *)
(* callback that now says yes.                                             *)
FlushDisable ==
    /\ Gate /\ ~failed /\ ~disabled /\ disabled' = TRUE
    /\ UNCHANGED <<mailbox, refused, threads, at, again, ops, userdata, debounce, log>>

FlushEnable ==
    /\ ~failed /\ disabled /\ disabled' = FALSE
    /\ UNCHANGED <<mailbox, refused, threads, at, again, ops, userdata, debounce, log>>

Call == \E p \in Clients : ExtensionUpdate(p) \/ LogOutput(p)

Next ==
    \/ Thread
    \/ \E p \in Threads : HookActivate(p)
    \/ Call \/ TimerExpires \/ FlushDisable \/ FlushEnable

Spec == Init /\ [][Next]_vars

(* From some time on the clients are quiet.                                *)
LeftAlone == <>[][~Call]_vars

(* Threads run when they may, and an operation that is flushed again and   *)
(* again is completed.  The timer expires if it is not restarted by every  *)
(* call: left alone, the thread is at its mailbox long before the five     *)
(* seconds are over.                                                       *)
FairSpec ==
    /\ Spec
    /\ WF_vars(Thread) /\ \A p \in Threads : WF_vars(HookActivate(p))
    /\ SF_vars(HookFlush /\ ops' # ops)
    /\ LeftAlone => SF_vars(at = "wait" /\ TimerExpires)

-----------------------------------------------------------------------------
(* What the thread promises.                                               *)

(* ASSERT(msg_p, "osMailAlloc error")                                      *)
AllocSucceeds == ~failed

(* A message that has a block has room in the queue: the path on which     *)
(* _norflash_api_mailbox_put forgets an allocated block is never taken.    *)
QueueRoom == \A p \in Threads : pc[p] = "put" => mq < MailboxMax

(* The count has gone wrong: an update of it was lost.                     *)
Broken == failed \/ cnt > MailboxMax

Rests == at = "wait" /\ mq = 0 /\ \A p \in Threads : pc[p] = "out"

(* As long as the count is not broken no wake-up is lost, whichever calls  *)
(* were refused because the mailbox looked full: when the thread rests     *)
(* there is nothing left that it could have done.                          *)
NoWakeUpLost ==
    Rests /\ ~Broken =>
        /\ logs = 0 /\ state = "IDLE" /\ (is_update => running)
        /\ Pending => refused

(* An update of the user data reaches the flash, unless the count is       *)
(* broken, clients never stop calling (each wake-up puts the flush off,    *)
(* whatever it is for) or flushing is disabled again and again.  The     *)
(* thread is never left at rest with a flush half done, even if flushing   *)
(* was disabled in the middle of it and nobody has woken it since.         *)
UpdateWritten ==
    LeftAlone /\ <>[]~disabled
        => <>Broken \/ <>[](~is_update /\ state = "IDLE" /\ ops["userdata"] = 0)

=============================================================================
