------------------------------ MODULE NorFlash ------------------------------
(***************************************************************************)
(* The asynchronous write-back layer over the NOR flash of device 0:       *)
(* services/norflash_api/norflash_api.cpp.                                 *)
(*                                                                         *)
(* Each registered module (user data, log dump, ...) keeps a singly linked *)
(* list of pending erases and writes, newest at the head.  A flush takes   *)
(* the oldest node (the tail), locks it and hands it to the HAL, which may *)
(* come back "suspended" with the operation half done; a later flush       *)
(* resumes it.  Synchronous calls drain the list first and then use the    *)
(* HAL directly.  Every API function runs under one mutex and one          *)
(* interrupt lock, so a call is one action here; a synchronous call, whose *)
(* loops can wait for the coprocessor, is a sequence of actions during     *)
(* which the variable sync keeps every other caller out.                   *)
(*                                                                         *)
(* The `next' pointers are kept as behind[n], the set of nodes that follow *)
(* n in its list: the list is the order "o is in behind[n]".               *)
(***************************************************************************)
EXTENDS NorMemory, FiniteSets

CONSTANTS
    NMod,         \* NORFLASH_API_MODULE_ID_COUNT
    Region,       \* Region[m]: the sectors mod_base_addr .. +mod_len of m
    BlockSectors, \* mod_block_len / mod_sector_len
    NOp,          \* NORFLASH_API_SYS_OPRA_NUM
    NBuf,         \* NORFLASH_API_SYS_BUFFER_NUM
    FlashSuspend, \* built with FLASH_SUSPEND
    Users,        \* NORFLASH_API_USER: who may disable flushing
    CleanWrites   \* clients write only to pages they read as erased

Mods  == 0 .. NMod - 1
NoMod == NMod                       \* NULL for cur_mod, COUNT for cur_mod_id
Slots == 1 .. NOp                   \* _sys_opera_list
Bufs  == 1 .. NBuf                  \* _sys_buffer_list
Null  == 0                          \* NULL for a node or a buffer

ASSUME NorFlashAssumption ==
    /\ NMod \in Nat \ {0}
    /\ Region \in [0 .. NMod - 1 -> SUBSET (0 .. NSec - 1)]
    /\ BlockSectors \in Nat \ {0}
    /\ NOp \in Nat
    /\ NBuf \in Nat
    /\ FlashSuspend \in BOOLEAN
    /\ CleanWrites \in BOOLEAN

VARIABLES
    \* the pools
    used,         \* slots of _sys_opera_list with is_used
    bused,        \* buffers of _sys_buffer_list with is_used
    \* the lists
    opera,        \* opera[m]: the nodes reachable from mod_info->opera_info
    behind,       \* behind[n]: the nodes reachable from n->next
    node,         \* the OPRA_INFO of each slot
    bmem,         \* the content of each buffer
    \* what is being flushed
    cur,          \* mod_info->cur_opera_info
    state,        \* mod_info->state; "UNINITED" until it is registered
    cur_mod, cur_mod_id,
    \* the device
    hal,          \* the operation the HAL holds suspended
    flash,        \* the cells
    \* who may flush
    allowed_cb,   \* allowed_cb[u]: user u has disabled flushing
    ready,        \* what that user's callback returns (cp_accel_init_done)
    sync          \* the synchronous call in progress, if any

pools   == <<used, bused>>
lists   == <<opera, behind, node, bmem>>
current == <<cur, state, cur_mod, cur_mod_id>>
device  == <<hal, flash>>
gate    == <<allowed_cb, ready>>
vars    == <<used, bused, opera, behind, node, bmem, cur, state, cur_mod,
             cur_mod_id, hal, flash, allowed_cb, ready, sync>>

Suspended == {"WRITTING_SUSPEND", "ERASE_SUSPEND"}

Node == [type: {"W", "E"}, addr: Sectors, len: Nat, w_offs: Nat, w_len: Nat,
         buff: Bufs \cup {Null}, lock: BOOLEAN]

(* A slot out of use; nothing reads it, so its old content is forgotten.   *)
FreeNode == [type |-> "E", addr |-> 0, len |-> 0, w_offs |-> 0, w_len |-> 0,
             buff |-> Null, lock |-> FALSE]

(* What the HAL remembers of a suspended operation (op_next_addr,          *)
(* op_next_buf, op_remain_len): items at .. end-1 are left, pages of sector *)
(* sec to program from buffer buf, or sectors to erase; old is what the    *)
(* page being programmed held before.                                      *)
HalOp == [kind: {"none", "prog", "erase"}, sec: Sectors, at: Nat, end: Nat,
          buf: Bufs \cup {Null}, old: Value]
NoHal == [kind |-> "none", sec |-> 0, at |-> 0, end |-> 0, buf |-> Null,
          old |-> Erased]

(* A synchronous call: its module, its operation and arguments, the module *)
(* whose operation it finishes first, its loop's bresult and its position. *)
SyncCall == [mod: Mods, op: {"W", "E"}, sec: Sectors, a: Nat, n: Nat,
             v: Value, other: 0 .. NMod, bresult: BOOLEAN,
             pc: {"other", "own", "hal"}]
NoSync == [pc |-> "idle"]

TypeOK ==
    /\ used \subseteq Slots
    /\ bused \subseteq Bufs
    /\ opera \in [Mods -> SUBSET Slots]
    /\ behind \in [Slots -> SUBSET Slots]
    /\ node \in [Slots -> Node]
    /\ bmem \in [Bufs -> Content]
    /\ cur \in [Mods -> Slots \cup {Null}]
    /\ state \in [Mods -> {"UNINITED", "IDLE"} \cup Suspended]
    /\ cur_mod \in 0 .. NMod
    /\ cur_mod_id \in 0 .. NMod
    /\ hal \in HalOp
    /\ flash \in Memory
    /\ allowed_cb \in [Users -> BOOLEAN]
    /\ ready \in [Users -> BOOLEAN]
    /\ sync \in SyncCall \cup {NoSync}

-----------------------------------------------------------------------------
(* norflash_api_init: nothing is registered, the pools are empty, and the  *)
(* flash holds whatever earlier boots left.                                *)
Init ==
    /\ used = {} /\ bused = {}
    /\ opera = [m \in Mods |-> {}]
    /\ behind = [n \in Slots |-> {}]
    /\ node = [n \in Slots |-> FreeNode]
    /\ bmem = [b \in Bufs |-> Blank]
    /\ cur = [m \in Mods |-> Null]
    /\ state = [m \in Mods |-> "UNINITED"]
    /\ cur_mod = NoMod /\ cur_mod_id = NoMod
    /\ hal = NoHal
    /\ flash \in [Sectors -> [Pages -> Data \cup {Erased}]]
    /\ allowed_cb = [u \in Users |-> FALSE]
    /\ ready = [u \in Users |-> FALSE]
    /\ sync = NoSync

(* norflash_api_register. *)
Register(m) ==
    /\ sync = NoSync
    /\ state[m] = "UNINITED"
    /\ state' = [state EXCEPT ![m] = "IDLE"]
    /\ opera' = [opera EXCEPT ![m] = {}]
    /\ cur' = [cur EXCEPT ![m] = Null]
    /\ UNCHANGED <<pools, behind, node, bmem, cur_mod, cur_mod_id, device,
                   gate, sync>>

-----------------------------------------------------------------------------
(* _norflash_api_malloc takes the first element of a pool out of use.      *)
FirstFree(x, pool, inUse) ==
    /\ x \in pool \ inUse
    /\ \A y \in pool \ inUse : x <= y

(* n is the first of the nodes S that a walk from the head meets.          *)
FirstOf(n, S) == n \in S /\ \A o \in S \ {n} : o \in behind[n]

(* Fault: the head is flushed instead.                                     *)
IsHead(n, m) == n \in opera[m] /\ \A o \in opera[m] : n \notin behind[o]

(* n is the node _get_tail returns.                                        *)
IsTail(n, m) == n \in opera[m] /\ behind[n] = {}

(* A new node n is linked in before the head of module m's list L.         *)
Push(n, m, L) ==
    /\ opera' = [opera EXCEPT ![m] = L \cup {n}]
    /\ used' = (used \ (opera[m] \ L)) \cup {n}
    /\ behind' = [x \in Slots |-> IF x = n THEN L
                                  ELSE IF x \in opera[m] \ L THEN {}
                                  ELSE behind[x] \ (opera[m] \ L)]

(* What norflash_api_read returns for sector s of module m (_opera_read).  *)
Pending(m, s) == {n \in opera[m] : node[n].addr = s}

Visible(m, s) ==
    IF Pending(m, s) = {} THEN flash[s]
    ELSE LET n == CHOOSE n \in Pending(m, s) : FirstOf(n, Pending(m, s))
         IN  IF node[n].type = "W" THEN bmem[node[n].buff] ELSE Blank

-----------------------------------------------------------------------------
(* _e_opera_add: an asynchronous erase of the sectors s .. s+k-1.  Nodes   *)
(* inside the range are dropped on the walk from the head, unless the HAL  *)
(* has them; a locked erase inside the range ends the walk and stands for  *)
(* the new one.                                                            *)
Inside(m, s, k) ==
    {n \in opera[m] : s <= node[n].addr /\ node[n].addr + node[n].len <= s + k}

Stopper(m, s, k) ==
    {n \in Inside(m, s, k) : node[n].lock /\ node[n].type = "E"}

Merged(m, s, k) ==
    {n \in Inside(m, s, k) :
        ~node[n].lock /\ \A x \in Stopper(m, s, k) : n \notin behind[x]}

(* Fault: a merged write does not give its buffer back.                    *)
NoBuffers(S) == {}

BuffersOf(S) == {node[n].buff : n \in {x \in S : node[x].type = "W"}}

(* Fault: the node records the end of the range.                           *)
EraseNodeAtEnd(s, k) == [FreeNode EXCEPT !.addr = s + k, !.len = k]

EraseNode(s, k) == [FreeNode EXCEPT !.addr = s, !.len = k]

EOperaAdd(m, s, k) ==
    LET gone == Merged(m, s, k)
        left == opera[m] \ gone
        freed == [n \in Slots |-> IF n \in gone THEN FreeNode ELSE node[n]]
    IN  /\ bused' = bused \ BuffersOf(gone)
        /\ bmem' = [b \in Bufs |-> IF b \in BuffersOf(gone) THEN Blank
                                   ELSE bmem[b]]
        /\ \/ /\ Stopper(m, s, k) # {} \/ Slots \subseteq used \ gone
              /\ node' = freed
              /\ used' = used \ gone
              /\ opera' = [opera EXCEPT ![m] = left]
              /\ behind' = [x \in Slots |-> IF x \in gone THEN {}
                                            ELSE behind[x] \ gone]
           \/ /\ Stopper(m, s, k) = {}
              /\ \E n \in Slots :
                    /\ FirstFree(n, Slots, used \ gone)
                    /\ Push(n, m, left)
                    /\ node' = [freed EXCEPT ![n] = EraseNode(s, k)]

(* norflash_api_erase(.., async = true): k is one sector or one block.     *)
EraseAsync(m, s, k) ==
    /\ sync = NoSync
    /\ state[m] # "UNINITED"
    /\ s .. s + k - 1 \subseteq Region[m]
    /\ EOperaAdd(m, s, k)
    /\ UNCHANGED <<current, device, gate, sync>>

(* Fault: the lock is not looked at.                                       *)
DecidingAny(m, s) == Pending(m, s)

(* _w_opera_add: an asynchronous write of v to the pages a .. a+n-1 of s.  *)
(* The newest unlocked node of the sector decides: a write takes the data, *)
(* an erase or nothing calls for a new node, its buffer filled with 0xff   *)
(* or with the sector as flash holds it now.                               *)
Deciding(m, s) ==
    {x \in Pending(m, s) : ~(node[x].type = "W" /\ node[x].lock)}

WMerge(x, a, n, v) ==
    LET nd == node[x]
        start == IF nd.w_offs <= a THEN nd.w_offs ELSE a
        stop == IF nd.w_offs + nd.w_len >= a + n THEN nd.w_offs + nd.w_len
                ELSE a + n
    IN  /\ bmem' = [bmem EXCEPT ![nd.buff] = CopyPages(@, a, a + n, v)]
        /\ node' = [node EXCEPT ![x].w_offs = start, ![x].w_len = stop - start]
        /\ UNCHANGED <<pools, opera, behind>>

WNew(m, s, a, n, v, base) ==
    \E x \in Slots, b \in Bufs :
        /\ FirstFree(x, Slots, used)
        /\ FirstFree(b, Bufs, bused)
        /\ Push(x, m, opera[m])
        /\ bused' = bused \cup {b}
        /\ bmem' = [bmem EXCEPT ![b] = CopyPages(base, a, a + n, v)]
        /\ node' = [node EXCEPT ![x] = [type |-> "W", addr |-> s, len |-> 1,
                       w_offs |-> a, w_len |-> n, buff |-> b, lock |-> FALSE]]

(* Fault: the pending erase is overlooked when the buffer is filled.       *)
WOperaAddStale(m, s, a, n, v) ==
    \/ /\ Deciding(m, s) = {}
       /\ WNew(m, s, a, n, v, flash[s])
    \/ \E x \in Deciding(m, s) :
          /\ FirstOf(x, Deciding(m, s))
          /\ \/ node[x].type = "W" /\ WMerge(x, a, n, v)
             \/ node[x].type = "E" /\ WNew(m, s, a, n, v, flash[s])

WOperaAdd(m, s, a, n, v) ==
    \/ /\ Deciding(m, s) = {}
       /\ WNew(m, s, a, n, v, flash[s])
    \/ \E x \in Deciding(m, s) :
          /\ FirstOf(x, Deciding(m, s))
          /\ \/ node[x].type = "W" /\ WMerge(x, a, n, v)
             \/ node[x].type = "E" /\ WNew(m, s, a, n, v, Blank)

InSector(a, n) == n > 0 /\ a + n <= NPage

(* A client that knows flash programs only to pages it reads as erased.    *)
Clean(m, s, a, n) ==
    CleanWrites => \A p \in a .. a + n - 1 : Visible(m, s)[p] = Erased

(* norflash_api_write(.., async = true).  With the pools exhausted it      *)
(* returns BUFFER_FULL and changes nothing.                                *)
WriteAsync(m, s, a, n, v) ==
    /\ sync = NoSync
    /\ state[m] # "UNINITED"
    /\ s \in Region[m] /\ InSector(a, n)
    /\ Clean(m, s, a, n)
    /\ WOperaAdd(m, s, a, n, v)
    /\ UNCHANGED <<current, device, gate, sync>>

-----------------------------------------------------------------------------
(* The HAL (platform/hal/hal_norflash.c).  base is the memory the started  *)
(* or resumed operation goes on from.                                      *)
HalBase ==
    IF hal.kind = "prog"
    THEN [flash EXCEPT ![hal.sec] = [@ EXCEPT ![hal.at] = hal.old]]
    ELSE flash

HalProgram(op) ==
    /\ hal' = NoHal
    /\ flash' = ProgramPages(HalBase, op.sec, op.at, op.end, bmem[op.buf])

HalProgramSuspended(op) ==
    \E p \in Pages :
        /\ op.at <= p /\ p < op.end
        /\ hal' = [op EXCEPT !.at = p, !.old = HalBase[op.sec][p]]
        /\ flash' =
             [ProgramPages(HalBase, op.sec, op.at, p, bmem[op.buf])
                EXCEPT ![op.sec] = [@ EXCEPT ![p] = Mixed]]

HalErase(op) ==
    /\ hal' = NoHal
    /\ flash' = SetSectors(flash, op.at, op.end, Erased)

HalEraseSuspended(op) ==
    \E e, f \in Sectors :
        /\ op.at <= e /\ e <= f /\ f < op.end
        /\ hal' = [op EXCEPT !.at = e]
        /\ flash' = SetSectors(SetSectors(flash, op.at, e, Erased),
                               e, f + 1, Mixed)

(* The operation a HAL call carries out: node n's, or the suspended one.   *)
HalOpOf(n) ==
    IF hal.kind # "none" THEN hal
    ELSE IF node[n].type = "W"
    THEN [kind |-> "prog", sec |-> node[n].addr, at |-> node[n].w_offs,
          end |-> node[n].w_offs + node[n].w_len, buf |-> node[n].buff,
          old |-> Erased]
    ELSE [kind |-> "erase", sec |-> node[n].addr, at |-> node[n].addr,
          end |-> node[n].addr + node[n].len, buf |-> Null, old |-> Erased]

-----------------------------------------------------------------------------
(* _opera_del: what is left of the list ends before n, and n is freed.     *)
OperaDel(m, n) ==
    LET cut == {n} \cup behind[n]
    IN  /\ opera' = [opera EXCEPT ![m] = @ \ cut]
        /\ behind' = [x \in Slots |-> IF x = n THEN {} ELSE behind[x] \ cut]
        /\ used' = used \ {n}
        /\ bused' = bused \ {node[n].buff}
        /\ node' = [node EXCEPT ![n] = FreeNode]
        /\ bmem' = [b \in Bufs |-> IF b = node[n].buff THEN Blank ELSE bmem[b]]

(* The node a flush of m works on: cur_opera_info, or else the tail.       *)
Target(m, n) ==
    \/ cur[m] # Null /\ n = cur[m]
    \/ cur[m] = Null /\ IsTail(n, m)

(* _opera_flush's HAL calls assert that the device is free for a node that *)
(* starts and holds this module's operation for one that resumes; where it *)
(* is not, the program stops (see FlushAccepted).                          *)
HalAccepts(m, n) ==
    IF state[m] = "IDLE" THEN hal.kind = "none"
    ELSE hal.kind = (IF node[n].type = "W" THEN "prog" ELSE "erase")

OperaDone(m, n) ==
    /\ HalAccepts(m, n)
    /\ IF node[n].type = "W" THEN HalProgram(HalOpOf(n)) ELSE HalErase(HalOpOf(n))
    /\ OperaDel(m, n)
    /\ state' = [state EXCEPT ![m] = "IDLE"]
    /\ cur' = [cur EXCEPT ![m] = Null]

OperaSuspended(m, n) ==
    /\ FlashSuspend
    /\ HalAccepts(m, n)
    /\ \/ /\ node[n].type = "W"
          /\ HalProgramSuspended(HalOpOf(n))
          /\ state' = [state EXCEPT ![m] = "WRITTING_SUSPEND"]
       \/ /\ node[n].type = "E"
          /\ HalEraseSuspended(HalOpOf(n))
          /\ state' = [state EXCEPT ![m] = "ERASE_SUSPEND"]
    /\ cur' = [cur EXCEPT ![m] = n]
    /\ node' = [node EXCEPT ![n].lock = TRUE]
    /\ UNCHANGED <<pools, opera, behind, bmem>>

-----------------------------------------------------------------------------
(* _flush_is_allowed: a user whose callback now says yes is forgotten.     *)
Allowed == \A u \in Users : allowed_cb[u] => ready[u]

CheckAllowed ==
    /\ allowed_cb' = [u \in Users |-> allowed_cb[u] /\ ~ready[u]]
    /\ UNCHANGED ready

(* _get_cur_mod: the module being flushed, or the next one in turn that    *)
(* has something to flush.                                                 *)
Registered == {m \in Mods : state[m] # "UNINITED"}

Turn(m) == IF m > cur_mod_id THEN m ELSE m + NMod

(* Fault: the turn passes on while an operation is suspended.              *)
GetNextMod(m) ==
    /\ opera[m] # {} /\ m \in Registered
    /\ \A x \in Registered :
          opera[x] # {} => IF cur_mod_id = NoMod THEN m <= x
                           ELSE Turn(m) <= Turn(x)

GetCurMod(m) ==
    \/ cur_mod # NoMod /\ m = cur_mod
    \/ /\ cur_mod = NoMod
       /\ opera[m] # {} /\ m \in Registered
       /\ \A x \in Registered :
             opera[x] # {} => IF cur_mod_id = NoMod THEN m <= x
                              ELSE Turn(m) <= Turn(x)

(* norflash_api_flush: one operation of one module is started or resumed.  *)
FlushBegin(m) ==
    /\ sync = NoSync
    /\ Allowed /\ CheckAllowed
    /\ GetCurMod(m)
    /\ cur_mod_id' = m
    /\ UNCHANGED sync

FlushDone(m) ==
    /\ FlushBegin(m)
    /\ cur_mod' = m
    /\ \E n \in Slots : Target(m, n) /\ OperaDone(m, n)

FlushSuspended(m) ==
    /\ FlushBegin(m)
    /\ cur_mod' = m
    /\ \E n \in Slots : Target(m, n) /\ OperaSuspended(m, n)

(* Fault: a drained module stays the current one.                          *)
FlushEmptyKeeps(m) ==
    /\ FlushBegin(m)
    /\ cur[m] = Null /\ opera[m] = {}
    /\ cur_mod' = m
    /\ UNCHANGED <<pools, lists, cur, state, device>>

FlushEmpty(m) ==
    /\ FlushBegin(m)
    /\ cur[m] = Null /\ opera[m] = {}
    /\ cur_mod' = NoMod
    /\ UNCHANGED <<pools, lists, cur, state, device>>

(* norflash_api_flush with nothing to do or not allowed: it only notices   *)
(* the users whose callback says yes.                                      *)
FlushRefused ==
    /\ sync = NoSync
    /\ ~Allowed \/ \A m \in Mods : ~GetCurMod(m)
    /\ CheckAllowed
    /\ UNCHANGED <<pools, lists, current, device, sync>>

Flush == FlushRefused \/ \E m \in Mods :
             FlushDone(m) \/ FlushSuspended(m) \/ FlushEmpty(m)

(* norflash_api_flush_disable, _enable and _enable_all, and the            *)
(* coprocessor coming up or going down.                                    *)
FlushDisable(u) ==
    /\ sync = NoSync
    /\ allowed_cb' = [allowed_cb EXCEPT ![u] = TRUE]
    /\ UNCHANGED <<pools, lists, current, device, ready, sync>>

FlushEnable(u) ==
    /\ sync = NoSync
    /\ allowed_cb' = [allowed_cb EXCEPT ![u] = FALSE]
    /\ UNCHANGED <<pools, lists, current, device, ready, sync>>

FlushEnableAll ==
    /\ sync = NoSync
    /\ allowed_cb' = [u \in Users |-> FALSE]
    /\ UNCHANGED <<pools, lists, current, device, ready, sync>>

CpChanges(u) ==
    /\ ready' = [ready EXCEPT ![u] = ~@]
    /\ UNCHANGED <<pools, lists, current, device, allowed_cb, sync>>

-----------------------------------------------------------------------------
(* norflash_api_write and norflash_api_erase with async = false, under the *)
(* interrupt lock from here to SyncHal.                                    *)
SyncStart(m, op, s, a, n, v) ==
    /\ sync = NoSync
    /\ state[m] # "UNINITED"
    /\ sync' = [mod |-> m, op |-> op, sec |-> s, a |-> a, n |-> n, v |-> v,
                other |-> cur_mod, bresult |-> FALSE,
                pc |-> IF cur_mod \in {NoMod, m} THEN "own" ELSE "other"]
    /\ UNCHANGED <<pools, lists, current, device, gate>>

WriteSync(m, s, a, n, v) ==
    /\ s \in Region[m] /\ InSector(a, n) /\ Clean(m, s, a, n)
    /\ SyncStart(m, "W", s, a, n, v)

EraseSync(m, s, k) ==
    /\ s .. s + k - 1 \subseteq Region[m]
    /\ SyncStart(m, "E", s, s, k, Erased)

(* One pass of a loop that was not allowed to flush, for what u says.      *)
SyncWaitFor(u) ==
    /\ \/ sync.pc = "other" /\ state[sync.other] # "IDLE"
       \/ sync.pc = "own" /\ sync.bresult
    /\ allowed_cb[u] /\ ~ready[u] /\ CheckAllowed
    /\ UNCHANGED <<pools, lists, current, device, sync>>

SyncWait == \E u \in Users : SyncWaitFor(u)

(* while(cur_mod_info->state != IDLE): module m's call finishes the        *)
(* operation of x.                                                         *)
SyncFinish(m, x) ==
    /\ sync.pc = "other" /\ sync.mod = m /\ sync.other = x
    /\ state[x] # "IDLE"
    /\ Allowed /\ CheckAllowed
    /\ \E n \in Slots : Target(x, n) /\ OperaDone(x, n)
    /\ sync' = [sync EXCEPT !.bresult = TRUE]
    /\ UNCHANGED <<cur_mod, cur_mod_id>>

SyncFinished(m, x) ==
    /\ sync.pc = "other" /\ sync.mod = m /\ sync.other = x
    /\ state[x] = "IDLE"
    /\ sync' = [sync EXCEPT !.pc = "own"]
    /\ UNCHANGED <<pools, lists, current, device, gate>>

SyncOther     == \E m \in Mods : \E x \in Mods \ {m} : SyncFinish(m, x)
SyncOtherIdle == \E m \in Mods : \E x \in Mods \ {m} : SyncFinished(m, x)

(* do { if(!_flush_is_allowed()) continue; bresult = _opera_flush(..); }   *)
(* while(bresult): drain this module's list, if allowed.                   *)
SyncOwn ==
    /\ sync.pc = "own"
    /\ Allowed /\ CheckAllowed
    /\ \E n \in Slots : Target(sync.mod, n) /\ OperaDone(sync.mod, n)
    /\ sync' = [sync EXCEPT !.bresult = TRUE]
    /\ UNCHANGED <<cur_mod, cur_mod_id>>

(* Fault: only the suspended operation is finished.                        *)
SyncOwnLeaveIdle ==
    /\ sync.pc = "own"
    /\ CheckAllowed
    /\ Allowed /\ state[sync.mod] = "IDLE"
    /\ sync' = [sync EXCEPT !.pc = "hal"]
    /\ UNCHANGED <<pools, lists, current, device>>

SyncOwnLeave ==
    /\ sync.pc = "own"
    /\ CheckAllowed
    /\ \/ Allowed /\ cur[sync.mod] = Null /\ opera[sync.mod] = {}
       \/ ~Allowed /\ ~sync.bresult
    /\ sync' = [sync EXCEPT !.pc = "hal"]
    /\ UNCHANGED <<pools, lists, current, device>>

(* The synchronous operation itself; a HAL that holds a suspended          *)
(* operation refuses it (HAL_NORFLASH_BAD_OP, returned as an error).       *)
SyncHal ==
    /\ sync.pc = "hal"
    /\ sync' = NoSync
    /\ flash' = IF hal.kind # "none" THEN flash
                ELSE IF sync.op = "W"
                THEN ProgramPages(flash, sync.sec, sync.a, sync.a + sync.n,
                                  [p \in Pages |-> sync.v])
                ELSE SetSectors(flash, sync.a, sync.a + sync.n, Erased)
    /\ UNCHANGED <<pools, lists, current, hal, gate>>

Sync == SyncWait \/ SyncOther \/ SyncOtherIdle \/ SyncOwn \/ SyncOwnLeave
        \/ SyncHal

-----------------------------------------------------------------------------
EraseSizes == {1, BlockSectors}

Client ==
    \E m \in Mods, s \in Sectors :
        \/ \E k \in EraseSizes : EraseAsync(m, s, k) \/ EraseSync(m, s, k)
        \/ \E a \in Pages, n \in 1 .. NPage, v \in Data :
              WriteAsync(m, s, a, n, v) \/ WriteSync(m, s, a, n, v)

Gate ==
    \/ FlushEnableAll
    \/ \E u \in Users : FlushDisable(u) \/ FlushEnable(u) \/ CpChanges(u)

Next ==
    \/ \E m \in Mods : Register(m)
    \/ Client
    \/ Flush
    \/ Gate
    \/ Sync

Spec == Init /\ [][Next]_vars
-----------------------------------------------------------------------------
(* Properties *)

(* The slots and buffers in use are exactly those of the nodes in the      *)
(* lists, no node is in two lists and no buffer belongs to two nodes: what *)
(* the list surgery of _e_opera_add and _opera_del unlinks is freed, once, *)
(* and nothing that is still linked is.                                    *)
PoolsAccounted ==
    /\ used = UNION {opera[m] : m \in Mods}
    /\ \A m, x \in Mods : m # x => opera[m] \cap opera[x] = {}
    /\ bused = BuffersOf(used)
    /\ \A x, y \in used :
          node[x].type = "W" /\ node[y].type = "W" /\ x # y =>
              node[x].buff # node[y].buff

(* The locked node of a list is the one being flushed, and it is the       *)
(* oldest: _opera_del cuts the list at the node it is given, so completing *)
(* any other node would lose the operations queued before it.              *)
OnlyTailLocked ==
    \A m \in Mods :
        /\ cur[m] # Null => IsTail(cur[m], m)
        /\ \A n \in opera[m] : node[n].lock <=> n = cur[m]

(* Whoever flushes next - the flush thread, or a synchronous call that     *)
(* finishes another module's operation or drains its own list - finds the  *)
(* device free for an operation that starts, or holding the very operation *)
(* it resumes: the assertions on the HAL's results in _opera_flush never   *)
(* fire.                                                                   *)
Flushing(m) ==
    \/ sync = NoSync /\ GetCurMod(m)
    \/ sync.pc = "other" /\ m = sync.other /\ state[m] # "IDLE"
    \/ sync.pc = "own" /\ m = sync.mod

FlushAccepted ==
    \A m \in Mods, n \in Slots : Flushing(m) /\ Target(m, n) => HalAccepts(m, n)

(* While the HAL holds a suspended write, the bytes it will go on to       *)
(* program stay as they are: no later write is merged into its buffer, and *)
(* no erase frees it.                                                      *)
HalSourceStable ==
    [][hal.kind = "prog" /\ hal' # NoHal =>
          bmem'[hal.buf] = bmem[hal.buf] /\ hal.buf \in bused']_vars

(* When a synchronous erase or write goes to the device, every operation   *)
(* its module queued before has been carried out ("flush all of cur module *)
(* opera.") and the device holds no suspended operation that would make it *)
(* refuse the call.                                                        *)
SyncAfterQueued ==
    sync.pc = "hal" => opera[sync.mod] = {} /\ hal.kind = "none"
(* What norflash_api_read returns is a memory that only the clients'       *)
(* writes and erases change: starting, suspending, resuming and completing *)
(* queued operations is invisible, in whatever order they were merged.     *)
View ==
    [s \in Sectors |->
        IF \E m \in Mods : s \in Region[m]
        THEN Visible(CHOOSE m \in Mods : s \in Region[m], s)
        ELSE flash[s]]

Store == INSTANCE FlashStore WITH store <- View

ReadsAreAStore == Store!Spec

-----------------------------------------------------------------------------
(* What a comment of the source says, and the code does not always do.     *)

(* "Erase all bolocks(32k bytes or 64k bytes) and sectors in the specified *)
(* range": after an erase was accepted, every sector of its range is       *)
(* covered by a queued erase.                                              *)
Accepted(m, s, k) ==
    Stopper(m, s, k) # {} \/ ~(Slots \subseteq used \ Merged(m, s, k))

EraseCoversRange ==
    [][\A m \in Mods, s \in Sectors, k \in EraseSizes :
          EraseAsync(m, s, k) /\ Accepted(m, s, k) =>
             \A x \in s .. s + k - 1 : \E n \in opera'[m] :
                /\ node'[n].type = "E"
                /\ node'[n].addr <= x /\ x < node'[n].addr + node'[n].len]_vars
=============================================================================
