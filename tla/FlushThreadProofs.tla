------------------------- MODULE FlushThreadProofs -------------------------
(***************************************************************************)
(* FlushThread, for any number of clients and calls: the blocks of the     *)
(* mailbox, the types, and that no wake-up is lost.                        *)
(***************************************************************************)
EXTENDS FlushThread, FiniteSetTheorems, TLAPS

(* Every allocated block is in the queue, in the hands of the flush thread *)
(* or about to be queued.                                                  *)
Putting == {p \in Threads : pc[p] = "put"}
Held == IF at \in {"wait", "load", "store"} THEN 0 ELSE 1

Blocks ==
    /\ mq \in Nat /\ pool \in Nat /\ pool <= MailboxMax
    /\ pc \in [Threads -> {"out", "check", "alloc", "put", "load", "store"}]
    /\ pool = mq + Held + Cardinality(Putting)

LEMMA PuttingFinite ==
    IsFiniteSet(Threads) /\ IsFiniteSet(Putting) /\ Cardinality(Putting) \in Nat
  <1>1. Flusher \in Nat /\ Timer \in Nat
    BY FlushThreadAssumption DEF Flusher, Timer
  <1>2. IsFiniteSet(Threads)
    BY <1>1, FS_Interval DEF Threads
  <1>3. IsFiniteSet(Putting)
    BY <1>2, FS_Subset DEF Putting
  <1> QED BY <1>2, <1>3, FS_CardinalityType

(* A thread that moves between places other than "put".                    *)
LEMMA StepElsewhere ==
    ASSUME Blocks, NEW p \in Threads, NEW from, NEW to \in {"out", "check", "alloc", "load", "store"},
           pc[p] = from, from # "put", pc' = [pc EXCEPT ![p] = to]
    PROVE  Putting' = Putting /\ pc' \in [Threads -> {"out", "check", "alloc", "put", "load", "store"}]
  BY DEF Putting, Blocks

LEMMA FlusherThread == Flusher \in Threads /\ Timer \in Threads /\ Clients \subseteq Threads
  BY FlushThreadAssumption DEF Flusher, Timer, Threads, Clients

LEMMA InitBlocks == Init => Blocks
  <1> SUFFICES ASSUME Init PROVE Blocks
    OBVIOUS
  <1>1. Putting = {}
    BY DEF Init, Putting
  <1>2. Cardinality(Putting) = 0
    BY <1>1, FS_EmptySet
  <1> QED BY <1>2, FlushThreadAssumption DEF Init, Blocks, Held

(* _norflash_api_mailbox_put.                                              *)
LEMMA PutBlocks == ASSUME Blocks, NEW p \in Threads, HookActivate(p) PROVE Blocks'
  <1> USE PuttingFinite
  <1>1. CASE MailboxCheck(p)
    <2>1. Putting' = Putting /\ pc' \in [Threads -> {"out", "check", "alloc", "put", "load", "store"}]
      BY <1>1, StepElsewhere DEF MailboxCheck, Step
    <2> QED BY <1>1, <2>1 DEF MailboxCheck, mailbox, others, Blocks, Held
  <1>2. CASE MailboxAlloc(p) /\ pool < MailboxMax
    <2>1. /\ pool' = pool + 1 /\ mq' = mq /\ at' = at /\ pc[p] = "alloc"
          /\ pc' = [pc EXCEPT ![p] = "put"]
      BY <1>2 DEF MailboxAlloc, Step, others
    <2>2. Putting' = Putting \cup {p} /\ p \notin Putting
      BY <2>1 DEF Putting, Blocks
    <2>3. Cardinality(Putting') = Cardinality(Putting) + 1
      BY <2>2, FS_AddElement
    <2> QED BY <1>2, <2>1, <2>3, FlushThreadAssumption DEF Blocks, Held
  <1>3. CASE MailboxAlloc(p) /\ ~(pool < MailboxMax)
    <2>1. Putting' = Putting /\ pc' \in [Threads -> {"out", "check", "alloc", "put", "load", "store"}]
      BY <1>3, StepElsewhere DEF MailboxAlloc, Step
    <2> QED BY <1>3, <2>1 DEF MailboxAlloc, others, Blocks, Held
  <1>4. CASE MailboxPut(p)
    <2>1. pc[p] = "put" /\ pool' = pool /\ at' = at
      BY <1>4 DEF MailboxPut, Step, others
    <2>2. p \in Putting
      BY <2>1 DEF Putting
    <2>3. Cardinality(Putting \ {p}) = Cardinality(Putting) - 1
      BY <2>2, FS_RemoveElement
    <2>4. Cardinality(Putting \ {p}) \in Nat
      BY FS_RemoveElement, FS_CardinalityType, <2>2
    <2>5. mq < MailboxMax
      BY <2>3, <2>4, FlushThreadAssumption DEF Blocks, Held
    <2>6. mq' = mq + 1 /\ pc' = [pc EXCEPT ![p] = "load"]
      BY <1>4, <2>5 DEF MailboxPut, Step
    <2>7. Putting' = Putting \ {p}
      BY <2>6 DEF Putting, Blocks
    <2> QED BY <2>1, <2>3, <2>6, <2>7 DEF Blocks, Held
  <1>5. CASE MailboxLoad(p) \/ MailboxStore(p)
    <2>1. Putting' = Putting /\ pc' \in [Threads -> {"out", "check", "alloc", "put", "load", "store"}]
      BY <1>5, StepElsewhere DEF MailboxLoad, MailboxStore, Step
    <2> QED BY <1>5, <2>1 DEF MailboxLoad, MailboxStore, mailbox, others, Blocks, Held
  <1> QED BY <1>1, <1>2, <1>3, <1>4, <1>5 DEF HookActivate

(* The flush thread.                                                       *)
LEMMA ThreadBlocks == Blocks /\ Thread => Blocks'
  <1> SUFFICES ASSUME Blocks, Thread PROVE Blocks'
    OBVIOUS
  <1> USE PuttingFinite
  <1>1. CASE MailboxGet
    <2>1. Putting' = Putting
      BY <1>1 DEF MailboxGet, threads, Putting
    <2> QED BY <1>1, <2>1 DEF MailboxGet, At, threads, Blocks, Held
  <1>2. CASE MailboxFree
    <2>1. Putting' = Putting
      BY <1>2 DEF MailboxFree, threads, Putting
    <2>2. Held = 1 /\ Held' = 0 /\ pool' = pool - 1 /\ mq' = mq /\ pc' = pc
      BY <1>2 DEF MailboxFree, At, threads, Held
    <2>3. pool' \in Nat /\ pool' <= MailboxMax
      BY <2>2, FlushThreadAssumption DEF Blocks
    <2> QED BY <2>1, <2>2, <2>3 DEF Blocks
  <1>3. CASE HookFlush \/ HookNvDelays \/ HookNvRestarts \/ HookEnd
    <2>1. Putting' = Putting /\ Held' = Held
      BY <1>3 DEF HookFlush, HookNvDelays, HookNvRestarts, HookEnd, At, threads, Putting, Held
    <2> QED BY <1>3, <2>1
        DEF HookFlush, HookNvDelays, HookNvRestarts, HookEnd, mailbox, threads, Blocks
  <1>4. CASE MailboxFreeLoad \/ MailboxFreeStore
    <2>1. Putting' = Putting /\ Held' = Held
      BY <1>4 DEF MailboxFreeLoad, MailboxFreeStore, At, threads, Putting, Held
    <2> QED BY <1>4, <2>1 DEF MailboxFreeLoad, MailboxFreeStore, mailbox, threads, Blocks
  <1>5. CASE HookNvFlushes \/ HookLog
    <2>1. /\ pc[Flusher] = "out"
          /\ pc' = pc \/ pc' = [pc EXCEPT ![Flusher] = "check"]
          /\ Held' = Held /\ UNCHANGED mailbox
      BY <1>5 DEF HookNvFlushes, HookLog, At, Queue, Refused, Held
    <2>2. Putting' = Putting /\ pc' \in [Threads -> {"out", "check", "alloc", "put", "load", "store"}]
      <3>1. CASE pc' = pc
        BY <3>1 DEF Putting, Blocks
      <3>2. CASE pc' = [pc EXCEPT ![Flusher] = "check"]
        BY <2>1, <3>2, StepElsewhere, FlusherThread
      <3> QED BY <2>1, <3>1, <3>2
    <2> QED BY <2>1, <2>2 DEF mailbox, Blocks
  <1> QED BY <1>1, <1>2, <1>3, <1>4, <1>5 DEF Thread

(* The others.                                                             *)
LEMMA CallBlocks ==
    ASSUME Blocks,
           \/ \E p \in Clients : ExtensionUpdate(p) \/ LogOutput(p)
           \/ TimerExpires \/ FlushDisable \/ FlushEnable
    PROVE  Blocks'
  <1>1. CASE \E p \in Clients : ExtensionUpdate(p) \/ LogOutput(p)
    <2>1. PICK p \in Threads : ExtensionUpdate(p) \/ LogOutput(p)
      BY <1>1, FlusherThread
    <2>2. Putting' = Putting /\ pc' \in [Threads -> {"out", "check", "alloc", "put", "load", "store"}]
      BY <2>1, StepElsewhere DEF ExtensionUpdate, LogOutput, Step
    <2> QED BY <2>1, <2>2 DEF ExtensionUpdate, LogOutput, mailbox, Blocks, Held
  <1>2. CASE TimerExpires
    <2>1. Putting' = Putting /\ pc' \in [Threads -> {"out", "check", "alloc", "put", "load", "store"}]
      BY <1>2, StepElsewhere, FlusherThread DEF TimerExpires, Step
    <2> QED BY <1>2, <2>1 DEF TimerExpires, mailbox, Blocks, Held
  <1>3. CASE FlushDisable \/ FlushEnable
    BY <1>3 DEF FlushDisable, FlushEnable, mailbox, threads, Blocks, Held, Putting
  <1> QED BY <1>1, <1>2, <1>3

LEMMA NextBlocks == Blocks /\ [Next]_vars => Blocks'
  <1> SUFFICES ASSUME Blocks, [Next]_vars PROVE Blocks'
    OBVIOUS
  <1>1. CASE UNCHANGED vars
    BY <1>1 DEF vars, mailbox, threads, Blocks, Held, Putting
  <1>2. CASE Next
    BY <1>2, PutBlocks, ThreadBlocks, CallBlocks DEF Next, Call
  <1> QED BY <1>1, <1>2

(* The accounting of the mailbox's blocks, however calls preempt each      *)
(* other and whatever the torn count says.                                 *)
THEOREM BlocksCorrect == Spec => []Blocks
  BY InitBlocks, NextBlocks, PTL DEF Spec

(* A thread that has allocated a block finds room in the message queue, so *)
(* _norflash_api_mailbox_put never leaks one.                              *)
THEOREM MailboxHasRoom == Spec => []QueueRoom
  <1>1. Blocks => QueueRoom
    <2> SUFFICES ASSUME Blocks, NEW p \in Threads, pc[p] = "put" PROVE mq < MailboxMax
      BY DEF QueueRoom
    <2>1. p \in Putting
      BY DEF Putting
    <2>2. /\ Cardinality(Putting \ {p}) = Cardinality(Putting) - 1
          /\ Cardinality(Putting \ {p}) \in Nat /\ Cardinality(Putting) \in Nat
      BY <2>1, PuttingFinite, FS_RemoveElement, FS_CardinalityType
    <2> QED BY <2>2, FlushThreadAssumption DEF Blocks, Held
  <1> QED BY <1>1, BlocksCorrect, PTL

-----------------------------------------------------------------------------
(* The types.                                                              *)

Places == {"out", "check", "alloc", "put", "load", "store"}

LEMMA StepTo ==
    ASSUME TypeOK, NEW p \in Threads, NEW from, NEW to \in Places, Step(p, from, to)
    PROVE  /\ ~failed /\ pc[p] = from /\ pc'[p] = to
           /\ pc' \in [Threads -> Places]
           /\ \A q \in Threads : q # p => pc'[q] = pc[q]
           /\ \A q \in Threads : q > p => pc[q] = "out"
  BY DEF TypeOK, Step, Runs, Places

LEMMA RegTo ==
    ASSUME TypeOK, NEW p \in Threads, reg' = [reg EXCEPT ![p] = cnt]
    PROVE  /\ reg' \in [Threads -> Byte] /\ reg'[p] = cnt
           /\ \A q \in Threads : q # p => reg'[q] = reg[q]
  BY DEF TypeOK

LEMMA InitType == Init => TypeOK
  <1> SUFFICES ASSUME Init PROVE TypeOK
    OBVIOUS
  <1>1. /\ pc \in [Threads -> {"out", "check", "alloc", "put", "load", "store"}]
        /\ reg \in [Threads -> Byte] /\ ops \in [Modules -> 0 .. NOp]
        /\ ops["userdata"] = 0 /\ ops["log"] = 0
    BY FlushThreadAssumption DEF Init, Byte, Modules
  <1>2. /\ cnt \in Byte /\ pool \in 0 .. MailboxMax /\ mq \in 0 .. MailboxMax
        /\ logs \in 0 .. NLog /\ ops["userdata"] + ops["log"] <= NOp
    BY <1>1, FlushThreadAssumption DEF Init, Byte
  <1>3. /\ failed \in BOOLEAN /\ again \in BOOLEAN /\ disabled \in BOOLEAN
        /\ refused \in BOOLEAN /\ is_update \in BOOLEAN /\ delay \in BOOLEAN
        /\ running \in BOOLEAN
    BY DEF Init
  <1>4. /\ at \in {"wait", "flush", "nv", "nv_restart", "log", "end", "free", "load", "store"}
        /\ state \in {"IDLE", "MAIN_ERASING", "MAIN_ERASED", "MAIN_WRITE_PENDING", "MAIN_WRITTEN"}
        /\ log_state \in {"IDLE", "ERASED"}
    BY DEF Init
  <1> QED BY <1>1, <1>2, <1>3, <1>4, Zenon DEF TypeOK

LEMMA QueueType ==
    ASSUME TypeOK, NEW m \in Modules, Queue(m) \/ Refused
    PROVE  /\ ops' \in [Modules -> 0 .. NOp] /\ ops'["userdata"] + ops'["log"] <= NOp
           /\ pc' \in [Threads -> Places] /\ pc'[Flusher] = "check"
           /\ \A q \in Threads : q # Flusher => pc'[q] = pc[q]
  <1>1. ops' \in [Modules -> 0 .. NOp] /\ ops'["userdata"] + ops'["log"] <= NOp
    BY FlushThreadAssumption DEF TypeOK, Queue, Refused, Room, FlushOne, Modules
  <1>2. /\ pc' \in [Threads -> Places] /\ pc'[Flusher] = "check"
        /\ \A q \in Threads : q # Flusher => pc'[q] = pc[q]
    BY FlusherThread DEF TypeOK, Queue, Refused, Places
  <1> QED BY <1>1, <1>2

LEMMA FlushOneType ==
    ASSUME TypeOK, FlushOne
    PROVE  ops' \in [Modules -> 0 .. NOp] /\ ops'["userdata"] + ops'["log"] <= NOp
  BY FlushThreadAssumption DEF TypeOK, FlushOne, Modules

LEMMA HookType == ASSUME TypeOK, NEW p \in Threads, HookActivate(p) PROVE TypeOK'
  <1> USE FlushThreadAssumption
  <1>1. CASE MailboxCheck(p)
    <2>1. pc' \in [Threads -> Places]
      BY <1>1, StepTo DEF MailboxCheck, Places
    <2> QED BY <1>1, <2>1 DEF MailboxCheck, mailbox, others, gate, userdata, debounce, log, TypeOK, Places
  <1>2. CASE MailboxAlloc(p)
    <2>1. pc' \in [Threads -> Places] /\ pool' \in 0 .. MailboxMax
      BY <1>2, StepTo DEF MailboxAlloc, Places, TypeOK
    <2>2. failed' \in BOOLEAN
      BY <1>2, Zenon DEF MailboxAlloc, TypeOK
    <2> QED BY <1>2, <2>1, <2>2 DEF MailboxAlloc, others, gate, userdata, debounce, log, TypeOK, Places
  <1>3. CASE MailboxPut(p)
    <2>1. pc' \in [Threads -> Places] /\ mq' \in 0 .. MailboxMax
      BY <1>3, StepTo DEF MailboxPut, Places, TypeOK
    <2> QED BY <1>3, <2>1 DEF MailboxPut, others, gate, userdata, debounce, log, TypeOK, Places
  <1>4. CASE MailboxLoad(p)
    <2>1. pc' \in [Threads -> Places] /\ reg' \in [Threads -> Byte]
      BY <1>4, StepTo, RegTo DEF MailboxLoad, Places
    <2> QED BY <1>4, <2>1 DEF MailboxLoad, mailbox, others, gate, userdata, debounce, log, TypeOK, Places
  <1>5. CASE MailboxStore(p)
    <2>1. pc' \in [Threads -> Places] /\ cnt' \in Byte
      BY <1>5, StepTo DEF MailboxStore, Places, TypeOK, Byte
    <2> QED BY <1>5, <2>1 DEF MailboxStore, others, gate, userdata, debounce, log, TypeOK, Places
  <1> QED BY <1>1, <1>2, <1>3, <1>4, <1>5 DEF HookActivate

LEMMA ThreadType == ASSUME TypeOK, Blocks, Blocks', Thread PROVE TypeOK'
  <1> USE FlushThreadAssumption
  <1>0. at' \in {"wait", "flush", "nv", "nv_restart", "log", "end", "free", "load", "store"}
    BY DEF Thread, MailboxGet, HookFlush, HookNvDelays, HookNvRestarts, HookNvFlushes, HookLog,
           HookEnd, MailboxFree, MailboxFreeLoad, MailboxFreeStore, At
  <1>1. CASE MailboxGet
    <2>1. mq' \in 0 .. MailboxMax
      BY <1>1 DEF MailboxGet, TypeOK
    <2>2. again' \in BOOLEAN
      BY <1>1 DEF MailboxGet
    <2> QED BY <1>0, <1>1, <2>1, <2>2 DEF MailboxGet, threads, gate, userdata, debounce, log, TypeOK
  <1>2. CASE HookFlush
    <2>1. ops' \in [Modules -> 0 .. NOp] /\ ops'["userdata"] + ops'["log"] <= NOp
      BY <1>2, FlushOneType DEF HookFlush
    <2>2. again' \in BOOLEAN /\ refused' \in BOOLEAN
      BY <1>2, Zenon DEF HookFlush, TypeOK
    <2> QED BY <1>0, <1>2, <2>1, <2>2 DEF HookFlush, mailbox, threads, userdata, debounce, log, TypeOK
  <1>3. CASE HookNvDelays \/ HookNvRestarts
    BY <1>0, <1>3 DEF HookNvDelays, HookNvRestarts, mailbox, threads, gate, userdata, debounce, log, TypeOK
  <1>4. CASE HookNvFlushes
    <2>1. /\ ops' \in [Modules -> 0 .. NOp] /\ ops'["userdata"] + ops'["log"] <= NOp
          /\ pc' \in [Threads -> Places]
      BY <1>4, QueueType, FlushOneType DEF HookNvFlushes, TypeOK, Modules, Places
    <2>2. state' \in {"IDLE", "MAIN_ERASING", "MAIN_ERASED", "MAIN_WRITE_PENDING", "MAIN_WRITTEN"}
      BY <1>4 DEF HookNvFlushes, userdata, TypeOK
    <2>3. is_update' \in BOOLEAN
      BY <1>4, Zenon DEF HookNvFlushes, userdata, TypeOK
    <2>4. again' \in BOOLEAN /\ delay' \in BOOLEAN
      BY <1>4, Zenon DEF HookNvFlushes, TypeOK
    <2> QED BY <1>0, <1>4, <2>1, <2>2, <2>3, <2>4 DEF HookNvFlushes, mailbox, gate, log, TypeOK, Places
  <1>5. CASE HookLog
    <2>1. /\ ops' \in [Modules -> 0 .. NOp] /\ ops'["userdata"] + ops'["log"] <= NOp
          /\ pc' \in [Threads -> Places]
      BY <1>5, QueueType DEF HookLog, TypeOK, Modules, Places
    <2>2. logs' \in 0 .. NLog /\ log_state' \in {"IDLE", "ERASED"}
      BY <1>5 DEF HookLog, log, TypeOK
    <2>3. again' \in BOOLEAN
      BY <1>5, Zenon DEF HookLog, TypeOK
    <2> QED BY <1>0, <1>5, <2>1, <2>2, <2>3 DEF HookLog, mailbox, gate, userdata, debounce, TypeOK, Places
  <1>6. CASE HookEnd
    BY <1>0, <1>6 DEF HookEnd, mailbox, threads, gate, userdata, debounce, log, TypeOK
  <1>7. CASE MailboxFree
    BY <1>0, <1>7 DEF MailboxFree, threads, gate, userdata, debounce, log, TypeOK, Blocks
  <1>8. CASE MailboxFreeLoad
    BY <1>0, <1>8, RegTo, FlusherThread
       DEF MailboxFreeLoad, mailbox, gate, userdata, debounce, log, TypeOK
  <1>9. CASE MailboxFreeStore
    <2>1. cnt' \in Byte
      BY <1>9, FlusherThread DEF MailboxFreeStore, TypeOK, Byte
    <2> QED BY <1>0, <1>9, <2>1 DEF MailboxFreeStore, threads, gate, userdata, debounce, log, TypeOK
  <1> QED BY <1>1, <1>2, <1>3, <1>4, <1>5, <1>6, <1>7, <1>8, <1>9 DEF Thread

LEMMA CallType ==
    ASSUME TypeOK,
           \/ \E p \in Clients : ExtensionUpdate(p) \/ LogOutput(p)
           \/ TimerExpires \/ FlushDisable \/ FlushEnable
    PROVE  TypeOK'
  <1> USE FlushThreadAssumption
  <1>1. CASE \E p \in Clients : ExtensionUpdate(p) \/ LogOutput(p)
    <2>1. PICK p \in Threads : ExtensionUpdate(p) \/ LogOutput(p)
      BY <1>1, FlusherThread
    <2>2. pc' \in [Threads -> Places]
      BY <2>1, StepTo DEF ExtensionUpdate, LogOutput, Places
    <2>3. logs' \in 0 .. NLog
      BY <2>1 DEF ExtensionUpdate, LogOutput, log, TypeOK
    <2>4. is_update' \in BOOLEAN
      BY <2>1, Zenon DEF ExtensionUpdate, LogOutput, userdata, TypeOK
    <2> QED BY <2>1, <2>2, <2>3, <2>4
            DEF ExtensionUpdate, LogOutput, mailbox, gate, userdata, debounce, log, TypeOK, Places
  <1>2. CASE TimerExpires
    <2>1. pc' \in [Threads -> Places]
      BY <1>2, StepTo, FlusherThread DEF TimerExpires, Places
    <2>2. running' \in BOOLEAN
      BY <1>2 DEF TimerExpires
    <2> QED BY <1>2, <2>1, <2>2 DEF TimerExpires, mailbox, gate, userdata, log, TypeOK, Places
  <1>3. CASE FlushDisable \/ FlushEnable
    <2>1. disabled' \in BOOLEAN /\ refused' = refused
      BY <1>3 DEF FlushDisable, FlushEnable, gate
    <2> QED BY <1>3, <2>1
            DEF FlushDisable, FlushEnable, mailbox, threads, userdata, debounce, log, TypeOK
  <1> QED BY <1>1, <1>2, <1>3

LEMMA NextType == ASSUME TypeOK, Blocks, Blocks', [Next]_vars PROVE TypeOK'
  <1>1. CASE UNCHANGED vars
    BY <1>1 DEF vars, mailbox, threads, gate, userdata, debounce, log, TypeOK
  <1> QED BY <1>1, HookType, ThreadType, CallType DEF Next, Call

(* The types: no more than NOp operations and MailboxMax messages.         *)
THEOREM ThreadTypeSafe == Spec => []TypeOK
  <1>1. TypeOK /\ Blocks /\ Blocks' /\ [Next]_vars => TypeOK'
    BY NextType
  <1> QED BY InitType, <1>1, BlocksCorrect, PTL DEF Spec

-----------------------------------------------------------------------------
(* The wake-ups.                                                           *)

(* A message is being handled, or its count not yet taken back.            *)
Hand == IF at = "wait" THEN 0 ELSE 1

(* Messages queued and not yet counted. *)
Counting == {p \in Threads : pc[p] \in {"load", "store"}}

(* No more is counted than there is, and a thread counts on from what it   *)
(* loaded, which those that preempt it only raise.                         *)
Counted ==
    /\ cnt + Cardinality(Counting) <= mq + Hand
    /\ \A p \in Threads : pc[p] = "store" => reg[p] <= cnt
    /\ \A p, q \in Threads : p < q /\ pc[p] = "store" /\ pc[q] = "store" => reg[p] <= reg[q]
    /\ at = "store" => reg[Flusher] <= mq + 1

(* The count has gone below 0; from then on every call is refused.         *)
Wrapped ==
    /\ \A p \in Threads : pc[p] \in {"out", "check"}
    /\ cnt >= 128 + mq + Hand
    /\ at = "store" => reg[Flusher] = cnt

Position ==
    /\ pc[Flusher] # "out" => at \in {"log", "end"}
    /\ at = "nv_restart" => state = "IDLE"

Coming == mq > 0 \/ \E p \in Threads : pc[p] \in {"check", "alloc", "put"}

FlushDone == Pending => refused
NvDone    == state = "IDLE" /\ (is_update => running)
LogDone   == logs = 0

(* If no message is to come, what the hooks of this round have passed over *)
(* is done.                                                                *)
Covered ==
    ~Coming =>
        /\ at \in {"nv", "nv_restart", "log", "end"} /\ ~again => FlushDone
        /\ at \in {"log", "end"} /\ ~again => NvDone
        /\ at = "end" /\ ~again => LogDone
        /\ at \in {"wait", "free", "load", "store"} => FlushDone /\ NvDone /\ LogDone

WakeInv == Position /\ (failed \/ Wrapped \/ (Counted /\ Covered))

LEMMA CountingFinite == IsFiniteSet(Counting) /\ Cardinality(Counting) \in Nat
  <1>1. IsFiniteSet(Counting)
    BY PuttingFinite, FS_Subset DEF Counting
  <1> QED BY <1>1, FS_CardinalityType

LEMMA InitWake == Init => WakeInv
  <1> SUFFICES ASSUME Init PROVE WakeInv
    OBVIOUS
  <1>1. Cardinality(Counting) = 0
    <2>1. Counting = {}
      BY DEF Init, Counting
    <2> QED BY <2>1, FS_EmptySet
  <1>2. Counted
    BY <1>1 DEF Init, Counted, Hand
  <1>3. Covered
    BY DEF Init, Covered, FlushDone, NvDone, LogDone, Pending, Modules
  <1> QED BY <1>2, <1>3, FlusherThread DEF WakeInv, Init, Position

(* Nothing changes the count, the messages or the threads in "load" and    *)
(* "store".                                                                *)
LEMMA CountedFrame ==
    ASSUME TypeOK, Counted, cnt' = cnt, mq' = mq, Hand' = Hand,
           at' = "store" => at = "store",
           Counting' = Counting, reg' = reg,
           \A p \in Threads : pc'[p] = "store" => pc[p] = "store"
    PROVE  Counted'
  BY FlusherThread DEF Counted

LEMMA ActivateWake ==
    ASSUME MailboxMax \in 2 .. 127, TypeOK, Blocks, WakeInv, NEW p \in Threads, HookActivate(p)
    PROVE  WakeInv'
  <1> USE FlushThreadAssumption, CountingFinite, FlusherThread
  <1>0. \E from, to \in Places : Step(p, from, to) /\ from # "out"
    BY DEF HookActivate, MailboxCheck, MailboxAlloc, MailboxPut, MailboxLoad, MailboxStore, Places
  <1>1. ~failed /\ at' = at /\ pc[p] # "out" /\ UNCHANGED others
    BY <1>0, StepTo
       DEF HookActivate, MailboxCheck, MailboxAlloc, MailboxPut, MailboxLoad, MailboxStore, others
  <1>2. Position'
    BY <1>0, <1>1, StepTo DEF WakeInv, Position, others, userdata
  <1>3. CASE Wrapped
    <2>1. MailboxCheck(p)
      BY <1>3 DEF Wrapped, HookActivate, MailboxAlloc, MailboxPut, MailboxLoad, MailboxStore, Step
    <2>2. cnt >= MailboxMax
      <3>1. cnt \in Nat /\ mq \in Nat /\ Hand \in 0 .. 1
        BY DEF TypeOK, Byte, Hand
      <3>2. cnt >= 128 + mq + Hand
        BY <1>3 DEF Wrapped
      <3> QED BY <3>1, <3>2
    <2>3. Step(p, "check", "out") /\ UNCHANGED <<mailbox, reg>>
      BY <2>1, <2>2 DEF MailboxCheck
    <2>4. Wrapped'
      BY <1>1, <1>3, <2>3, StepTo DEF Wrapped, Hand, mailbox, Places
    <2> QED BY <1>2, <2>4 DEF WakeInv
  <1>4. CASE Counted /\ Covered
    <2>0. /\ cnt \in Nat /\ mq \in Nat /\ Hand \in 0 .. 1 /\ Hand' = Hand
          /\ mq + Hand <= MailboxMax + 1 /\ cnt + Cardinality(Counting) <= mq + Hand
      BY <1>1, <1>4 DEF TypeOK, Counted, Byte, Hand
    <2>1. CASE MailboxCheck(p)
      <3>1. /\ pc[p] = "check" /\ pc'[p] \in {"out", "alloc"} /\ UNCHANGED <<mailbox, reg>>
            /\ \A q \in Threads : q # p => pc'[q] = pc[q]
            /\ cnt < MailboxMax => pc'[p] = "alloc"
        <4>1. CASE cnt >= MailboxMax
          <5>1. Step(p, "check", "out") /\ ~(cnt < MailboxMax)
            BY <2>0, <2>1, <4>1 DEF MailboxCheck
          <5> QED BY <2>1, <5>1, StepTo DEF MailboxCheck, Places
        <4>2. CASE ~(cnt >= MailboxMax)
          <5>1. Step(p, "check", "alloc")
            BY <2>1, <4>2 DEF MailboxCheck
          <5> QED BY <2>1, <5>1, StepTo DEF MailboxCheck, Places
        <4> QED BY <4>1, <4>2
      <3>2. Counted'
        <4>1. Counting' = Counting
          BY <3>1 DEF Counting
        <4> QED BY <1>1, <1>4, <2>0, <3>1, <4>1, CountedFrame DEF mailbox
      <3>3. Coming'
        BY <2>0, <3>1 DEF Coming, mailbox
      <3> QED BY <1>2, <3>2, <3>3 DEF WakeInv, Covered
    <2>2. CASE MailboxAlloc(p) /\ pool < MailboxMax
      <3>1. /\ pc[p] = "alloc" /\ pc'[p] = "put" /\ UNCHANGED <<cnt, mq, reg>>
            /\ \A q \in Threads : q # p => pc'[q] = pc[q]
        BY <2>2, StepTo DEF MailboxAlloc, Places
      <3>2. Counted'
        <4>1. Counting' = Counting
          BY <3>1 DEF Counting
        <4> QED BY <1>1, <1>4, <2>0, <3>1, <4>1, CountedFrame
      <3> QED BY <1>2, <3>1, <3>2 DEF WakeInv, Covered, Coming
    <2>3. CASE MailboxAlloc(p) /\ ~(pool < MailboxMax)
      BY <1>2, <2>3 DEF MailboxAlloc, WakeInv
    <2>4. CASE MailboxPut(p)
      <3>1. mq < MailboxMax
        <4>1. p \in Putting /\ Cardinality(Putting \ {p}) = Cardinality(Putting) - 1
          BY <2>4, PuttingFinite, FS_RemoveElement DEF MailboxPut, Step, Putting
        <4>2. Cardinality(Putting \ {p}) \in Nat /\ Cardinality(Putting) \in Nat
          BY PuttingFinite, FS_RemoveElement, FS_CardinalityType, <4>1
        <4> QED BY <4>1, <4>2 DEF Blocks, Held
      <3>2. /\ pc[p] = "put" /\ pc'[p] = "load" /\ mq' = mq + 1 /\ UNCHANGED <<cnt, reg>>
            /\ \A q \in Threads : q # p => pc'[q] = pc[q]
        BY <2>4, <3>1, StepTo DEF MailboxPut, Places
      <3>3. Counting' = Counting \cup {p} /\ p \notin Counting
        BY <3>2 DEF Counting
      <3>4. Cardinality(Counting') = Cardinality(Counting) + 1
        BY <3>3, FS_AddElement
      <3>5. Counted'
        <4>1. cnt' + Cardinality(Counting)' <= mq' + Hand'
          BY <2>0, <3>2, <3>4
        <4>2. at' = "store" => reg'[Flusher] <= mq' + 1
          BY <1>1, <1>4, <2>0, <3>2 DEF Counted, TypeOK, Byte
        <4> QED BY <1>4, <3>2, <4>1, <4>2 DEF Counted
      <3> QED BY <1>2, <2>0, <3>2, <3>5 DEF WakeInv, Covered, Coming
    <2>5. CASE MailboxLoad(p)
      <3>1. /\ pc[p] = "load" /\ pc'[p] = "store" /\ UNCHANGED mailbox
            /\ \A q \in Threads : q # p => pc'[q] = pc[q]
            /\ \A q \in Threads : q > p => pc[q] = "out"
            /\ reg'[p] = cnt /\ \A q \in Threads : q # p => reg'[q] = reg[q]
        <4>1. /\ Step(p, "load", "store") /\ UNCHANGED mailbox
              /\ reg' = [reg EXCEPT ![p] = cnt]
          BY <2>5 DEF MailboxLoad
        <4>2. "store" \in Places
          BY DEF Places
        <4>3. /\ pc[p] = "load" /\ pc'[p] = "store" /\ \A q \in Threads : q # p => pc'[q] = pc[q]
              /\ \A q \in Threads : q > p => pc[q] = "out"
          BY <4>1, <4>2, StepTo
        <4>4. reg'[p] = cnt /\ \A q \in Threads : q # p => reg'[q] = reg[q]
          BY <4>1, RegTo
        <4> QED BY <4>1, <4>3, <4>4
      <3>2. Counting' = Counting
        BY <3>1 DEF Counting
      <3>3. Counted'
        <4>1. \A q \in Threads : pc'[q] = "store" => reg'[q] <= cnt'
          BY <1>4, <2>0, <3>1 DEF Counted, mailbox
        <4>2. ASSUME NEW q \in Threads, NEW r \in Threads, q < r, pc'[q] = "store", pc'[r] = "store"
              PROVE  reg'[q] <= reg'[r]
          <5>1. q # p
            BY <3>1, <4>2 DEF Threads, Flusher
          <5> QED BY <1>4, <3>1, <4>2, <5>1 DEF Counted
        <4>3. at' = "store" => Flusher # p
          BY <1>1, <3>1 DEF WakeInv, Position
        <4> QED BY <1>1, <1>4, <2>0, <3>1, <3>2, <4>1, <4>2, <4>3 DEF Counted, mailbox
      <3>4. Coming => Coming'
        BY <3>1 DEF Coming, mailbox
      <3> QED BY <1>1, <1>2, <1>4, <3>3, <3>4
              DEF WakeInv, Covered, others, FlushDone, NvDone, LogDone, Pending, gate, userdata, debounce, log
    <2>6. CASE MailboxStore(p)
      <3>1. /\ pc[p] = "store" /\ pc'[p] = "out" /\ mq' = mq /\ reg' = reg
            /\ cnt' = (reg[p] + 1) % 256
            /\ \A q \in Threads : q # p => pc'[q] = pc[q]
            /\ \A q \in Threads : q > p => pc[q] = "out"
        BY <2>6, StepTo DEF MailboxStore, Places
      <3>2. reg[p] \in Nat /\ reg[p] <= cnt
        BY <1>4, <3>1 DEF Counted, TypeOK, Byte
      <3>3. Counting' = Counting \ {p} /\ p \in Counting
        BY <3>1 DEF Counting
      <3>4. Cardinality(Counting') = Cardinality(Counting) - 1 /\ Cardinality(Counting') \in Nat
        BY <3>3, FS_RemoveElement, FS_CardinalityType
      <3>5. cnt' = reg[p] + 1
        BY <2>0, <3>1, <3>2
      <3>6. Counted'
        <4>1. cnt' + Cardinality(Counting)' <= mq' + Hand'
          BY <2>0, <3>1, <3>2, <3>4, <3>5
        <4>2. ASSUME NEW q \in Threads, pc'[q] = "store" PROVE reg'[q] <= cnt'
          <5>1. q # p /\ pc[q] = "store" /\ q < p
            BY <3>1, <4>2 DEF Threads, Flusher
          <5>2. reg[q] <= reg[p] /\ reg[q] \in Nat
            BY <1>4, <3>1, <5>1 DEF Counted, TypeOK, Byte
          <5> QED BY <3>1, <3>2, <3>5, <5>2
        <4>3. \A q, r \in Threads : q < r /\ pc'[q] = "store" /\ pc'[r] = "store" => reg'[q] <= reg'[r]
          BY <1>4, <3>1 DEF Counted
        <4> QED BY <1>1, <1>4, <3>1, <4>1, <4>2, <4>3 DEF Counted
      <3>7. Coming => Coming'
        BY <3>1 DEF Coming
      <3> QED BY <1>1, <1>2, <1>4, <3>6, <3>7
              DEF WakeInv, Covered, others, FlushDone, NvDone, LogDone, Pending, gate, userdata, debounce, log
    <2> QED BY <2>1, <2>2, <2>3, <2>4, <2>5, <2>6 DEF HookActivate
  <1> QED BY <1>1, <1>3, <1>4 DEF WakeInv

(* The flush thread runs when no thread is in _norflash_api_mailbox_put.   *)
LEMMA ThreadAt ==
    ASSUME TypeOK, Thread
    PROVE  /\ ~failed /\ failed' = failed /\ \A q \in Threads : pc[q] = "out"
           /\ \A q \in Threads : pc'[q] \in {"out", "check"}
           /\ \A q \in Threads : pc'[q] = "out" \/ (q = Flusher /\ at' \in {"log", "end"})
  <1>1. ~failed /\ pc[Flusher] = "out" /\ Runs(Flusher)
    BY DEF Thread, MailboxGet, HookFlush, HookNvDelays, HookNvRestarts, HookNvFlushes, HookLog,
           HookEnd, MailboxFree, MailboxFreeLoad, MailboxFreeStore, At, Runs
  <1>2. \A q \in Threads : pc[q] = "out"
    BY <1>1 DEF Runs, Threads, Flusher, Timer
  <1>3. failed' = failed
    BY DEF Thread, MailboxGet, HookFlush, HookNvDelays, HookNvRestarts, HookNvFlushes, HookLog,
           HookEnd, MailboxFree, MailboxFreeLoad, MailboxFreeStore, mailbox
  <1>4. \/ pc' = pc
        \/ at' \in {"log", "end"} /\ pc' = [pc EXCEPT ![Flusher] = "check"]
    BY DEF Thread, MailboxGet, HookFlush, HookNvDelays, HookNvRestarts, HookNvFlushes, HookLog,
           HookEnd, MailboxFree, MailboxFreeLoad, MailboxFreeStore, At, threads, Queue, Refused
  <1> QED BY <1>1, <1>2, <1>3, <1>4, FlusherThread DEF TypeOK

LEMMA ThreadWrapped ==
    ASSUME MailboxMax \in 2 .. 127, TypeOK, Wrapped, Thread
    PROVE  Wrapped'
  <1> USE FlusherThread
  <1>1. \A q \in Threads : pc'[q] \in {"out", "check"}
    BY ThreadAt
  <1>2. cnt \in Byte /\ mq \in Nat /\ Hand \in 0 .. 1 /\ cnt >= 128 + mq + Hand
    BY DEF TypeOK, Wrapped, Hand
  <1>3. CASE MailboxGet
    <2>1. cnt' = cnt /\ mq' = mq - 1 /\ Hand = 0 /\ Hand' = 1 /\ at' = "flush"
      BY <1>3 DEF MailboxGet, At, Hand
    <2> QED BY <1>1, <1>2, <2>1 DEF Wrapped, Byte
  <1>4. CASE MailboxFreeLoad
    <2>1. cnt' = cnt /\ mq' = mq /\ Hand' = Hand /\ reg'[Flusher] = cnt
      BY <1>4, RegTo DEF MailboxFreeLoad, mailbox, At, Hand
    <2> QED BY <1>1, <1>2, <2>1 DEF Wrapped
  <1>5. CASE MailboxFreeStore
    <2>1. /\ cnt' = (reg[Flusher] + 255) % 256 /\ mq' = mq /\ Hand = 1 /\ Hand' = 0
          /\ reg[Flusher] = cnt /\ at' = "wait"
      BY <1>5 DEF MailboxFreeStore, At, Hand, Wrapped
    <2>2. cnt' = cnt - 1
      BY <1>2, <2>1 DEF Byte
    <2> QED BY <1>1, <1>2, <2>1, <2>2 DEF Wrapped, Byte
  <1>6. CASE ~(MailboxGet \/ MailboxFreeLoad \/ MailboxFreeStore)
    <2>1. cnt' = cnt /\ mq' = mq /\ Hand' = Hand /\ at' # "store"
      BY <1>6 DEF Thread, HookFlush, HookNvDelays, HookNvRestarts, HookNvFlushes, HookLog,
                  HookEnd, MailboxFree, At, Hand, mailbox
    <2> QED BY <1>1, <1>2, <2>1 DEF Wrapped
  <1> QED BY <1>3, <1>4, <1>5, <1>6

LEMMA ThreadCounted ==
    ASSUME MailboxMax \in 2 .. 127, TypeOK, Counted, Thread
    PROVE  Counted' \/ Wrapped'
  <1> USE FlusherThread
  <1>1. \A q \in Threads : pc'[q] \in {"out", "check"}
    BY ThreadAt
  <1>2. Counting = {} /\ Counting' = {}
    BY ThreadAt DEF Counting
  <1>3. Cardinality(Counting) = 0 /\ Cardinality(Counting)' = 0
    BY <1>2, FS_EmptySet
  <1>4. cnt \in Byte /\ mq \in 0 .. MailboxMax /\ Hand \in 0 .. 1 /\ cnt <= mq + Hand
    BY <1>3 DEF TypeOK, Counted, Hand, Byte
  <1>5. CASE MailboxGet
    <2>1. cnt' = cnt /\ mq' = mq - 1 /\ Hand = 0 /\ Hand' = 1 /\ at' = "flush"
      BY <1>5 DEF MailboxGet, At, Hand
    <2> QED BY <1>1, <1>3, <1>4, <2>1 DEF Counted, Byte
  <1>6. CASE MailboxFreeLoad
    <2>1. cnt' = cnt /\ mq' = mq /\ Hand = 1 /\ Hand' = 1 /\ reg'[Flusher] = cnt
      BY <1>6, RegTo DEF MailboxFreeLoad, mailbox, At, Hand
    <2> QED BY <1>1, <1>3, <1>4, <2>1 DEF Counted, Byte
  <1>7. CASE MailboxFreeStore
    <2>1. /\ cnt' = (reg[Flusher] + 255) % 256 /\ mq' = mq /\ Hand' = 0
          /\ reg[Flusher] <= mq + 1 /\ reg[Flusher] \in Byte /\ at' = "wait"
      BY <1>7 DEF MailboxFreeStore, At, Hand, Counted, TypeOK
    <2>2. CASE reg[Flusher] = 0
      <3>1. cnt' = 255
        BY <2>1, <2>2
      <3> QED BY <1>1, <1>4, <2>1, <3>1 DEF Wrapped
    <2>3. CASE reg[Flusher] # 0
      <3>1. cnt' = reg[Flusher] - 1 /\ cnt' <= mq'
        BY <1>4, <2>1, <2>3 DEF Byte
      <3> QED BY <1>1, <1>3, <1>4, <2>1, <3>1 DEF Counted, Byte
    <2> QED BY <2>2, <2>3
  <1>8. CASE ~(MailboxGet \/ MailboxFreeLoad \/ MailboxFreeStore)
    <2>1. cnt' = cnt /\ mq' = mq /\ Hand' = Hand /\ at' # "store"
      BY <1>8 DEF Thread, HookFlush, HookNvDelays, HookNvRestarts, HookNvFlushes, HookLog,
                  HookEnd, MailboxFree, At, Hand, mailbox
    <2> QED BY <1>1, <1>3, <1>4, <2>1 DEF Counted
  <1> QED BY <1>5, <1>6, <1>7, <1>8

(* A hook that queues an operation wakes the thread.                       *)
LEMMA QueueComes ==
    ASSUME TypeOK, NEW m \in Modules, Queue(m) \/ Refused
    PROVE  Coming'
  BY QueueType, FlusherThread DEF Coming

LEMMA ThreadCovered ==
    ASSUME TypeOK, Position, Covered, Thread
    PROVE  Covered'
  <1> USE FlusherThread
  <1>1. ~Coming' /\ mq' = mq => ~Coming
    BY ThreadAt DEF Coming
  <1>2. CASE MailboxGet
    BY <1>2 DEF MailboxGet, At, Covered
  <1>3. CASE HookFlush
    <2>1. at' = "nv" /\ (~again' => FlushDone')
      BY <1>3 DEF HookFlush, At, FlushDone, Pending
    <2> QED BY <2>1 DEF Covered
  <1>4. CASE HookNvDelays \/ HookNvRestarts
    <2>1. /\ UNCHANGED <<mq, again, ops, refused>> /\ at \in {"nv", "nv_restart"}
          /\ at' = "nv_restart" \/ (at' = "log" /\ NvDone')
      BY <1>4 DEF HookNvDelays, HookNvRestarts, At, mailbox, gate, userdata, NvDone, Position
    <2>2. ~Coming' /\ ~again' => FlushDone'
      BY <1>1, <2>1 DEF Covered, FlushDone, Pending
    <2> QED BY <2>1, <2>2 DEF Covered
  <1>5. CASE HookNvFlushes
    <2>1. /\ UNCHANGED <<mq, refused>> /\ at = "nv" /\ at' = "log"
          /\ again' = (again \/ state' # "IDLE" \/ is_update')
      BY <1>5 DEF HookNvFlushes, At, mailbox, gate
    <2>2. ~again' => ~again /\ NvDone'
      BY <2>1 DEF NvDone
    <2>3. ~Coming' /\ ~again' => UNCHANGED ops
      BY <1>5, <2>1, QueueComes DEF HookNvFlushes, Modules
    <2>4. ~Coming' /\ ~again' => FlushDone'
      BY <1>1, <2>1, <2>2, <2>3 DEF Covered, FlushDone, Pending
    <2> QED BY <2>1, <2>2, <2>4 DEF Covered
  <1>6. CASE HookLog
    <2>1. UNCHANGED <<mq, refused, userdata, running>> /\ at = "log" /\ at' = "end"
      BY <1>6 DEF HookLog, At, mailbox, gate, debounce
    <2>2. ~Coming' => UNCHANGED <<logs, again, ops>> /\ logs = 0
      BY <1>6, QueueComes DEF HookLog, log, Modules
    <2>3. ~Coming' /\ ~again' => FlushDone' /\ NvDone' /\ LogDone'
      BY <1>1, <2>1, <2>2 DEF Covered, FlushDone, NvDone, LogDone, Pending, userdata
    <2> QED BY <2>1, <2>3 DEF Covered
  <1>7. CASE HookEnd
    <2>1. UNCHANGED <<mq, refused, ops, userdata, running, logs>> /\ at = "end"
      BY <1>7 DEF HookEnd, At, mailbox, gate, debounce, log
    <2>2. CASE again
      BY <1>7, <2>2 DEF HookEnd, At, Covered
    <2>3. CASE ~again
      <3>1. at' = "free"
        BY <1>7, <2>3 DEF HookEnd, At
      <3>2. ~Coming' => FlushDone' /\ NvDone' /\ LogDone'
        BY <1>1, <2>1, <2>3 DEF Covered, FlushDone, NvDone, LogDone, Pending, userdata
      <3> QED BY <3>1, <3>2 DEF Covered
    <2> QED BY <2>2, <2>3
  <1>8. CASE MailboxFree \/ MailboxFreeLoad \/ MailboxFreeStore
    <2>1. /\ UNCHANGED <<mq, refused, ops, userdata, running, logs>>
          /\ at \in {"free", "load", "store"} /\ at' \in {"load", "store", "wait"}
      BY <1>8 DEF MailboxFree, MailboxFreeLoad, MailboxFreeStore, At, mailbox, gate, debounce, log
    <2>2. ~Coming' => FlushDone' /\ NvDone' /\ LogDone'
      BY <1>1, <2>1 DEF Covered, FlushDone, NvDone, LogDone, Pending, userdata
    <2> QED BY <2>1, <2>2 DEF Covered
  <1> QED BY <1>2, <1>3, <1>4, <1>5, <1>6, <1>7, <1>8 DEF Thread

LEMMA ThreadWake ==
    ASSUME MailboxMax \in 2 .. 127, TypeOK, WakeInv, Thread
    PROVE  WakeInv'
  <1>1. Position'
    <2>1. pc'[Flusher] # "out" => at' \in {"log", "end"}
      BY ThreadAt, FlusherThread
    <2>2. at' = "nv_restart" => state' = "IDLE"
      BY DEF Thread, MailboxGet, HookFlush, HookNvDelays, HookNvRestarts, HookNvFlushes, HookLog,
             HookEnd, MailboxFree, MailboxFreeLoad, MailboxFreeStore, At, userdata
    <2> QED BY <2>1, <2>2 DEF Position
  <1>2. ~failed
    BY ThreadAt
  <1> QED BY <1>1, <1>2, ThreadWrapped, ThreadCounted, ThreadCovered DEF WakeInv

LEMMA CallWake ==
    ASSUME TypeOK, WakeInv,
           \/ \E p \in Clients : ExtensionUpdate(p) \/ LogOutput(p)
           \/ TimerExpires \/ FlushDisable \/ FlushEnable
    PROVE  WakeInv'
  <1> USE FlusherThread
  <1>0. ~failed
    BY DEF ExtensionUpdate, LogOutput, TimerExpires, FlushDisable, FlushEnable, Step, Runs
  <1>1. CASE (\E p \in Clients : ExtensionUpdate(p) \/ LogOutput(p)) \/ TimerExpires
    <2>1. PICK p \in Threads : \/ p \in Clients /\ (ExtensionUpdate(p) \/ LogOutput(p))
                               \/ TimerExpires /\ p = Timer
      <3>1. CASE TimerExpires
        BY <3>1
      <3>2. CASE \E p \in Clients : ExtensionUpdate(p) \/ LogOutput(p)
        BY <3>2
      <3> QED BY <1>1, <3>1, <3>2
    <2>2. p # Flusher
      BY <2>1, FlushThreadAssumption DEF Clients, Flusher, Timer
    <2>9. CASE Step(p, "out", "out")
      <3>1. LogOutput(p) /\ logs' = NLog
        BY <2>1, <2>9, FlushThreadAssumption
           DEF ExtensionUpdate, LogOutput, TimerExpires, Step, TypeOK
      <3>2. /\ UNCHANGED <<cnt, mq, failed, at, again, ops, refused, userdata, running, reg>>
            /\ logs # 0 /\ \A q \in Threads : pc'[q] = pc[q]
        BY <2>9, <3>1, StepTo, FlushThreadAssumption
           DEF LogOutput, mailbox, gate, debounce, TypeOK, Places
      <3>3. UNCHANGED <<Counting, Coming, Hand>>
        BY <3>2 DEF Counting, Coming, Hand
      <3>4. Position' /\ (Wrapped => Wrapped') /\ (Covered => Covered')
        BY <3>2, <3>3
           DEF WakeInv, Position, Wrapped, Covered, FlushDone, NvDone, LogDone, Pending, userdata
      <3>5. Counted => Counted'
        BY <3>2, <3>3 DEF Counted
      <3> QED BY <1>0, <3>2, <3>4, <3>5 DEF WakeInv
    <2>3. Step(p, "out", "out") \/ Step(p, "out", "check")
      BY <2>1 DEF ExtensionUpdate, LogOutput, TimerExpires
    <2> SUFFICES ASSUME Step(p, "out", "check") PROVE WakeInv'
      BY <2>3, <2>9
    <2>4. /\ pc[p] = "out" /\ pc'[p] = "check" /\ \A q \in Threads : q # p => pc'[q] = pc[q]
          /\ UNCHANGED <<cnt, mq, at, reg, state>>
      BY <2>1, <2>3, StepTo DEF ExtensionUpdate, LogOutput, TimerExpires, mailbox, userdata, Places
    <2>5. UNCHANGED <<Counting, Hand>> /\ Coming'
      BY <2>4 DEF Counting, Hand, Coming
    <2>6. Position' /\ Covered'
      BY <2>2, <2>4, <2>5 DEF WakeInv, Position, Covered
    <2>7. Counted => Counted'
      BY <2>4, <2>5, CountedFrame
    <2>8. Wrapped => Wrapped'
      BY <2>4, <2>5 DEF Wrapped
    <2> QED BY <1>0, <2>6, <2>7, <2>8 DEF WakeInv
  <1>2. CASE FlushDisable \/ FlushEnable
    <2>1. UNCHANGED <<cnt, mq, failed, pc, reg, at, again, ops, refused, userdata, running, logs>>
      BY <1>2 DEF FlushDisable, FlushEnable, mailbox, threads, debounce, log
    <2>2. UNCHANGED <<Counting, Coming, Hand>>
      BY <2>1 DEF Counting, Coming, Hand
    <2>3. Position' /\ (Wrapped => Wrapped') /\ (Covered => Covered')
      BY <2>1, <2>2 DEF WakeInv, Position, Wrapped, Covered, FlushDone, NvDone, LogDone, Pending, userdata
    <2>4. Counted => Counted'
      BY <2>1, <2>2 DEF Counted
    <2> QED BY <1>0, <2>3, <2>4 DEF WakeInv
  <1> QED BY <1>1, <1>2

LEMMA NextWake ==
    ASSUME MailboxMax \in 2 .. 127, TypeOK, Blocks, WakeInv, [Next]_vars
    PROVE  WakeInv'
  <1>1. CASE UNCHANGED vars
    <2>1. UNCHANGED <<cnt, mq, failed, pc, reg, at, again, ops, refused, userdata, running, logs>>
      BY <1>1 DEF vars, mailbox, threads, debounce, gate, log
    <2>2. UNCHANGED <<Counting, Coming, Hand>>
      BY <2>1 DEF Counting, Coming, Hand
    <2>3. UNCHANGED <<Position, Wrapped, Covered>>
      BY <2>1, <2>2 DEF Position, Wrapped, Covered, FlushDone, NvDone, LogDone, Pending, userdata
    <2>4. UNCHANGED Counted
      BY <2>1, <2>2 DEF Counted
    <2> QED BY <2>1, <2>3, <2>4 DEF WakeInv
  <1> QED BY <1>1, ActivateWake, ThreadWake, CallWake DEF Next, Call

(* No wake-up of the flush thread is lost, in whatever places calls        *)
(* preempt each other in _norflash_api_mailbox_put and the thread in       *)
(* _norflash_api_mailbox_free: a lost update of the count either loses a   *)
(* message that is still in the queue, or takes the count below 0.         *)
THEOREM ThreadWakes ==
    ASSUME MailboxMax \in 2 .. 127
    PROVE  Spec => []NoWakeUpLost
  <1>1. Init => WakeInv
    BY InitWake
  <1>2. TypeOK /\ Blocks /\ WakeInv /\ [Next]_vars => WakeInv'
    BY NextWake
  <1>3. TypeOK /\ WakeInv => NoWakeUpLost
    <2> SUFFICES ASSUME TypeOK, WakeInv, Rests, ~Broken
                 PROVE  logs = 0 /\ state = "IDLE" /\ (is_update => running) /\ (Pending => refused)
      BY DEF NoWakeUpLost
    <2>1. ~Coming /\ at = "wait"
      BY DEF Rests, Coming, TypeOK
    <2>2. ~Wrapped
      BY DEF Broken, Wrapped, TypeOK, Hand, Byte
    <2>3. Covered
      BY <2>2 DEF WakeInv, Broken
    <2> QED BY <2>1, <2>3 DEF Covered, FlushDone, NvDone, LogDone
  <1> QED BY <1>1, <1>2, <1>3, ThreadTypeSafe, BlocksCorrect, PTL DEF Spec
=============================================================================
