---------------------------- MODULE NorFlashInv ----------------------------
(***************************************************************************)
(* The inductive invariant behind the safety properties of NorFlash.       *)
(***************************************************************************)
EXTENDS NorFlash

(* The lists are disjoint, hold exactly the slots in use, and what follows *)
(* a node is in the same list; an unregistered module has no list.         *)
ListInv ==
    /\ \A m \in Mods : opera[m] \subseteq used
    /\ \A n \in used : \E m \in Mods : n \in opera[m]
    /\ \A m, x \in Mods : m # x => opera[m] \cap opera[x] = {}
    /\ \A m \in Mods : \A n \in opera[m] : behind[n] \subseteq opera[m]
    /\ \A m \in Mods : state[m] = "UNINITED" => opera[m] = {}

(* A write node owns a buffer, no other node owns it, an erase node owns   *)
(* none, and every buffer in use is owned.                                 *)
BufInv ==
    /\ \A n \in used : node[n].type = "W" => node[n].buff \in bused
    /\ \A n \in Slots : node[n].type = "E" => node[n].buff = Null
    /\ \A b \in bused : \E n \in used : node[n].type = "W" /\ node[n].buff = b
    /\ \A x, y \in used :
          node[x].type = "W" /\ node[y].type = "W" /\ x # y =>
              node[x].buff # node[y].buff

(* The HAL holds an operation suspended exactly when some module has one,  *)
(* and its context is that module's locked node; that module is the one    *)
(* being flushed, and a synchronous call waits for it first.               *)
HalInv ==
    /\ \A m \in Mods : state[m] \in Suspended <=> cur[m] # Null
    /\ \A m \in Mods : cur[m] # Null =>
          /\ cur_mod = m
          /\ hal.kind = IF node[cur[m]].type = "W" THEN "prog" ELSE "erase"
          /\ state[m] = IF node[cur[m]].type = "W" THEN "WRITTING_SUSPEND"
                        ELSE "ERASE_SUSPEND"
          /\ hal.buf = node[cur[m]].buff
    /\ hal.kind # "none" => \E m \in Mods : cur[m] # Null
    /\ sync.pc = "other" => sync.other = cur_mod
    /\ sync.pc \in {"own", "hal"} =>
          \A m \in Mods : cur[m] # Null => m = sync.mod

SafetyInv == ListInv /\ BufInv /\ OnlyTailLocked /\ HalInv

-----------------------------------------------------------------------------
(* The inductive invariant behind ReadsAreAStore, under the conditions in  *)
(* which it holds.                                                         *)

(* No page is programmed twice without an erase, an erase covers one       *)
(* sector, and no sector belongs to two modules.                           *)
StoreConstants ==
    /\ CleanWrites
    /\ BlockSectors = 1
    /\ \A m, x \in Mods : m # x => Region[m] \cap Region[x] = {}

(* A write to a sector whose only queued operation is a suspended write:   *)
(* its buffer is filled with the half-programmed sector.                   *)
HalfwayWrite ==
    \E m \in Mods, s \in Sectors, a \in Pages, n \in 1 .. NPage, v \in Data :
        /\ WriteAsync(m, s, a, n, v)
        /\ Deciding(m, s) = {} /\ Pending(m, s) # {}

(* A node is for one sector of its module's region, a write stays in it.   *)
NodeInv ==
    \A m \in Mods : \A n \in opera[m] :
        /\ node[n].addr \in Region[m] /\ node[n].len = 1
        /\ node[n].type = "W" => node[n].w_offs + node[n].w_len <= NPage

(* Of two nodes of a list one comes before the other.                      *)
OrderInv ==
    \A m \in Mods : \A x, y \in opera[m] :
        x # y => (x \in behind[y] <=> y \notin behind[x])

(* A sector has one queued erase at most, and one write that is not begun: *)
(* its newest node, and if it is not the only one an erase is under it.    *)
ErasePending(m, s) == \E e \in opera[m] : node[e].addr = s /\ node[e].type = "E"

StackInv ==
    \A m \in Mods : \A x, y \in opera[m] :
        x # y /\ node[x].addr = node[y].addr =>
            /\ node[x].type = "E" => node[y].type = "W"
            /\ node[x].type = "W" /\ ~node[x].lock =>
                  y \in behind[x] /\ ErasePending(m, node[x].addr)

(* The buffer of a write will be what the sector holds when the write is   *)
(* done: now if it meets the sector as it is, after the erase otherwise.   *)
InWindow(n, p) == node[n].w_offs <= p /\ p < node[n].w_offs + node[n].w_len

Fits(n, c) ==
    \A p \in Pages :
        LET b == bmem[node[n].buff][p]
        IN  IF InWindow(n, p) THEN c[p] \in {Erased, b} ELSE c[p] = b

Base(m, n) ==
    IF ~node[n].lock /\ ErasePending(m, node[n].addr) THEN Blank
    ELSE HalBase[node[n].addr]

ContentInv ==
    \A m \in Mods : \A n \in opera[m] :
        node[n].type = "W" => Fits(n, Base(m, n))

(* A suspended operation is at a place of its node's range, and what a     *)
(* write has passed is programmed.                                         *)
HalAtInv ==
    \A m \in Mods : cur[m] # Null =>
        LET nd == node[cur[m]]
        IN  /\ hal.sec = nd.addr
            /\ nd.type = "E" => hal.at = nd.addr /\ hal.end = nd.addr + 1
            /\ nd.type = "W" =>
                  /\ nd.w_offs <= hal.at /\ hal.at < hal.end
                  /\ hal.end = nd.w_offs + nd.w_len
                  /\ \A p \in Pages : nd.w_offs <= p /\ p < hal.at =>
                        HalBase[nd.addr][p] = bmem[nd.buff][p]

(* What a synchronous call will write is still read as erased.             *)
SyncArgsInv ==
    sync.pc \in {"other", "own", "hal"} =>
        /\ sync.op = "E" => sync.a \in Region[sync.mod] /\ sync.n = 1
        /\ sync.op = "W" =>
              /\ sync.sec \in Region[sync.mod] /\ InSector(sync.a, sync.n)
              /\ sync.a \in Pages /\ sync.v \in Data
              /\ \A p \in sync.a .. sync.a + sync.n - 1 :
                    Visible(sync.mod, sync.sec)[p] = Erased

QueueInv == NodeInv /\ OrderInv /\ StackInv /\ ContentInv /\ HalAtInv

StoreInv == QueueInv /\ SyncArgsInv
=============================================================================
