--------------------------- MODULE NorFlashProofs ---------------------------
(***************************************************************************)
(* What holds of NorFlash for every value of its constants: types first,   *)
(* then the safety properties.  NorFlashRefinement has the reads.          *)
(***************************************************************************)
EXTENDS NorFlashInv, TLAPS

-----------------------------------------------------------------------------
(* The memory operators yield memories. *)

LEMMA ProgramType ==
    ASSUME NEW old \in Value, NEW v \in Value
    PROVE  Program(old, v) \in Value
BY DEF Program, Value

LEMMA ProgramPagesType ==
    ASSUME NEW f \in Memory, NEW s \in Sectors, NEW a, NEW b,
           NEW src \in Content
    PROVE  ProgramPages(f, s, a, b, src) \in Memory
<1> DEFINE c == [p \in Pages |-> IF a <= p /\ p < b
                                 THEN Program(f[s][p], src[p]) ELSE f[s][p]]
<1>1. ASSUME NEW p \in Pages PROVE f[s][p] \in Value /\ src[p] \in Value
    BY DEF Memory, Content
<1>2. ASSUME NEW p \in Pages PROVE Program(f[s][p], src[p]) \in Value
    BY <1>1, ProgramType
<1>3. c \in Content
    BY <1>1, <1>2 DEF Content
<1>. QED
    BY <1>3 DEF ProgramPages, Memory

LEMMA SetSectorsType ==
    ASSUME NEW f \in Memory, NEW a, NEW b, NEW v \in Value
    PROVE  SetSectors(f, a, b, v) \in Memory
BY DEF SetSectors, Memory, Content

LEMMA CopyPagesType ==
    ASSUME NEW c \in Content, NEW a, NEW b, NEW v \in Value
    PROVE  CopyPages(c, a, b, v) \in Content
BY DEF CopyPages, Content

LEMMA PokeType ==
    ASSUME NEW f \in Memory, NEW s, NEW p, NEW v \in Value
    PROVE  [f EXCEPT ![s] = [@ EXCEPT ![p] = v]] \in Memory
BY DEF Memory, Content

LEMMA BlankType == Blank \in Content
BY DEF Blank, Content, Value

-----------------------------------------------------------------------------
(* Type correctness is inductive with two additions: a write node, and a   *)
(* program the HAL holds suspended, have a buffer, and a synchronous call  *)
(* that waits for another module waits for one.                            *)
HasBuffer ==
    /\ \A n \in Slots : node[n].type = "W" => node[n].buff \in Bufs
    /\ hal.kind = "prog" => hal.buf \in Bufs

HasOther == sync.pc = "other" => sync.other \in Mods

TypeInv == TypeOK /\ HasBuffer /\ HasOther

LEMMA FreeNodeType == FreeNode \in Node /\ FreeNode.type = "E"
BY MemoryAssumption DEF FreeNode, Node, Sectors

LEMMA NoHalType == NoHal \in HalOp /\ NoHal.kind = "none"
BY MemoryAssumption DEF NoHal, HalOp, Sectors, Value

LEMMA InitType == Init => TypeInv
<1> SUFFICES ASSUME Init PROVE TypeInv
    OBVIOUS
<1>1. /\ node \in [Slots -> Node]
      /\ \A n \in Slots : node[n].type = "E"
    BY FreeNodeType DEF Init
<1>2. hal \in HalOp /\ hal.kind = "none"
    BY NoHalType DEF Init
<1>3. bmem \in [Bufs -> Content]
    BY BlankType DEF Init
<1>4. flash \in Memory
    BY DEF Init, Memory, Content, Value
<1>5. NoMod \in 0 .. NMod
    BY NorFlashAssumption DEF NoMod
<1>6. TypeOK
    BY <1>1, <1>2, <1>3, <1>4, <1>5 DEF Init, TypeOK, Null
<1>. QED
    BY <1>1, <1>2, <1>6 DEF Init, TypeInv, HasBuffer, HasOther, NoSync

LEMMA PushType ==
    ASSUME TypeOK, NEW n \in Slots, NEW m \in Mods, NEW L \in SUBSET Slots,
           Push(n, m, L)
    PROVE  /\ opera' \in [Mods -> SUBSET Slots]
           /\ used' \subseteq Slots
           /\ behind' \in [Slots -> SUBSET Slots]
BY DEF Push, TypeOK

LEMMA EraseType ==
    ASSUME TypeInv, NEW m \in Mods, NEW s \in Sectors, NEW k \in Nat,
           EraseAsync(m, s, k)
    PROVE  TypeInv'
<1> DEFINE gone == Merged(m, s, k)
           freed == [n \in Slots |-> IF n \in gone THEN FreeNode ELSE node[n]]
<1> USE DEF TypeInv
<1>1. gone \subseteq Slots /\ opera[m] \ gone \in SUBSET Slots
    BY DEF Merged, Inside, TypeOK
<1>2. freed \in [Slots -> Node]
      /\ \A n \in Slots : freed[n].type = "W" => freed[n].buff \in Bufs
    BY FreeNodeType DEF TypeOK, HasBuffer, HasOther
<1>3. EraseNode(s, k) \in Node /\ EraseNode(s, k).type = "E"
    BY FreeNodeType DEF EraseNode, FreeNode, Node
<1>4. bused' \subseteq Bufs /\ bmem' \in [Bufs -> Content]
    BY BlankType DEF EraseAsync, EOperaAdd, TypeOK
<1>5. /\ opera' \in [Mods -> SUBSET Slots]
      /\ used' \subseteq Slots
      /\ behind' \in [Slots -> SUBSET Slots]
      /\ node' \in [Slots -> Node]
      /\ \A n \in Slots : node'[n].type = "W" => node'[n].buff \in Bufs
  <2>1. CASE /\ node' = freed
             /\ used' = used \ gone
             /\ opera' = [opera EXCEPT ![m] = opera[m] \ gone]
             /\ behind' = [x \in Slots |-> IF x \in gone THEN {}
                                           ELSE behind[x] \ gone]
    BY <2>1, <1>1, <1>2 DEF TypeOK
  <2>2. CASE \E n \in Slots :
                /\ Push(n, m, opera[m] \ gone)
                /\ node' = [freed EXCEPT ![n] = EraseNode(s, k)]
    BY <2>2, <1>1, <1>2, <1>3, PushType
  <2>. QED
    BY <2>1, <2>2 DEF EraseAsync, EOperaAdd
<1>. QED
    BY <1>4, <1>5 DEF EraseAsync, TypeOK, HasBuffer, HasOther, current, device, gate

LEMMA WMergeType ==
    ASSUME TypeInv, NEW x \in Slots, NEW a \in Nat, NEW n \in Nat,
           NEW v \in Value, WMerge(x, a, n, v)
    PROVE  /\ bmem' \in [Bufs -> Content]
           /\ node' \in [Slots -> Node]
           /\ \A y \in Slots : node'[y].type = "W" => node'[y].buff \in Bufs
<1> USE DEF TypeInv
<1> DEFINE nd == node[x]
           start == IF nd.w_offs <= a THEN nd.w_offs ELSE a
           stop == IF nd.w_offs + nd.w_len >= a + n THEN nd.w_offs + nd.w_len
                   ELSE a + n
<1>1. nd \in Node /\ start \in Nat /\ stop - start \in Nat
    BY DEF TypeOK, Node
<1>2. node' = [node EXCEPT ![x].w_offs = start, ![x].w_len = stop - start]
    BY DEF WMerge
<1>3. node' \in [Slots -> Node]
    BY <1>1, <1>2 DEF TypeOK, Node
<1>4. \A y \in Slots : node'[y].type = node[y].type
                       /\ node'[y].buff = node[y].buff
    BY <1>2 DEF TypeOK, Node
<1>5. bmem' \in [Bufs -> Content]
    BY CopyPagesType DEF WMerge, TypeOK
<1>. QED
    BY <1>3, <1>4, <1>5 DEF HasBuffer, HasOther

LEMMA WNewType ==
    ASSUME TypeInv, NEW m \in Mods, NEW s \in Sectors, NEW a \in Nat,
           NEW n \in Nat, NEW v \in Value, NEW base \in Content,
           WNew(m, s, a, n, v, base)
    PROVE  /\ used' \subseteq Slots /\ bused' \subseteq Bufs
           /\ opera' \in [Mods -> SUBSET Slots]
           /\ behind' \in [Slots -> SUBSET Slots]
           /\ bmem' \in [Bufs -> Content]
           /\ node' \in [Slots -> Node]
           /\ \A y \in Slots : node'[y].type = "W" => node'[y].buff \in Bufs
<1> USE DEF TypeInv
<1>1. PICK x \in Slots, b \in Bufs :
        /\ Push(x, m, opera[m])
        /\ bused' = bused \cup {b}
        /\ bmem' = [bmem EXCEPT ![b] = CopyPages(base, a, a + n, v)]
        /\ node' = [node EXCEPT ![x] = [type |-> "W", addr |-> s, len |-> 1,
                       w_offs |-> a, w_len |-> n, buff |-> b, lock |-> FALSE]]
    BY DEF WNew
<1>2. opera[m] \in SUBSET Slots
    BY DEF TypeOK
<1>3. /\ opera' \in [Mods -> SUBSET Slots]
      /\ used' \subseteq Slots
      /\ behind' \in [Slots -> SUBSET Slots]
    BY <1>1, <1>2, PushType
<1>4. bmem' \in [Bufs -> Content]
    BY <1>1, CopyPagesType DEF TypeOK
<1>5. [type |-> "W", addr |-> s, len |-> 1, w_offs |-> a, w_len |-> n,
       buff |-> b, lock |-> FALSE] \in Node
    BY DEF Node
<1>. QED
    BY <1>1, <1>3, <1>4, <1>5 DEF TypeOK, HasBuffer, HasOther

LEMMA WriteType ==
    ASSUME TypeInv, NEW m \in Mods, NEW s \in Sectors, NEW a \in Nat,
           NEW n \in Nat, NEW v \in Value, WriteAsync(m, s, a, n, v)
    PROVE  TypeInv'
<1> USE DEF TypeInv
<1>1. Deciding(m, s) \subseteq Slots
    BY DEF Deciding, Pending, TypeOK
<1>2. flash[s] \in Content
    BY DEF TypeOK, Memory
<1>3. UNCHANGED <<current, device, gate, sync>>
    BY DEF WriteAsync
<1>4. CASE \E x \in Deciding(m, s) : WMerge(x, a, n, v)
  <2>1. PICK x \in Slots : WMerge(x, a, n, v)
    BY <1>1, <1>4
  <2>2. /\ bmem' \in [Bufs -> Content]
        /\ node' \in [Slots -> Node]
        /\ \A y \in Slots : node'[y].type = "W" => node'[y].buff \in Bufs
    BY <2>1, WMergeType
  <2>3. UNCHANGED <<used, bused, opera, behind>>
    BY <2>1 DEF WMerge, pools
  <2>. QED
    BY <1>3, <2>2, <2>3 DEF TypeOK, HasBuffer, HasOther, current, device, gate
<1>5. CASE \E base \in Content : WNew(m, s, a, n, v, base)
    BY <1>3, <1>5, WNewType DEF TypeOK, HasBuffer, HasOther, current, device, gate
<1>. QED
    BY <1>2, <1>4, <1>5, BlankType DEF WriteAsync, WOperaAdd

-----------------------------------------------------------------------------
(* The steps of the HAL and of a flush. *)

LEMMA HalOpOfType ==
    ASSUME TypeInv, NEW n \in Slots
    PROVE  /\ HalOpOf(n) \in HalOp
           /\ HalOpOf(n).kind = "prog" => HalOpOf(n).buf \in Bufs
           /\ hal.kind = "none" => HalOpOf(n).kind =
                 (IF node[n].type = "W" THEN "prog" ELSE "erase")
<1> USE DEF TypeInv
<1>1. CASE hal.kind # "none"
    BY <1>1 DEF HalOpOf, TypeOK, HasBuffer, HasOther
<1>2. CASE hal.kind = "none"
  <2>1. node[n] \in Node
    BY DEF TypeOK
  <2>2. node[n].addr \in Nat
    BY <2>1 DEF Node, Sectors
  <2>3. Erased \in Value
    BY DEF Value
  <2>. QED
    BY <1>2, <2>1, <2>2, <2>3 DEF HalOpOf, HalOp, HasBuffer, HasOther, Node
<1>. QED
    BY <1>1, <1>2

LEMMA HalBaseType == ASSUME TypeOK PROVE HalBase \in Memory
BY PokeType DEF HalBase, TypeOK, HalOp

LEMMA HalProgramType ==
    ASSUME TypeInv, NEW op \in HalOp, op.buf \in Bufs
    PROVE  /\ HalProgram(op) => flash' \in Memory /\ hal' = NoHal
           /\ HalProgramSuspended(op) =>
                 /\ flash' \in Memory
                 /\ hal' \in HalOp
                 /\ hal'.kind = op.kind /\ hal'.buf = op.buf
<1> USE DEF TypeInv
<1>1. /\ HalBase \in Memory /\ op.sec \in Sectors
      /\ bmem[op.buf] \in Content
    BY HalBaseType DEF HalOp, TypeOK
<1>2. Mixed \in Value
    BY DEF Value
<1>3. ASSUME HalProgram(op) PROVE flash' \in Memory /\ hal' = NoHal
    BY <1>1, <1>3, ProgramPagesType DEF HalProgram
<1>4. ASSUME HalProgramSuspended(op)
      PROVE  /\ flash' \in Memory /\ hal' \in HalOp
             /\ hal'.kind = op.kind /\ hal'.buf = op.buf
  <2>1. PICK p \in Pages :
          /\ hal' = [op EXCEPT !.at = p, !.old = HalBase[op.sec][p]]
          /\ flash' = [ProgramPages(HalBase, op.sec, op.at, p, bmem[op.buf])
                          EXCEPT ![op.sec] = [@ EXCEPT ![p] = Mixed]]
    BY <1>4 DEF HalProgramSuspended
  <2>2. flash' \in Memory
    BY <2>1, <1>1, <1>2, ProgramPagesType, PokeType
  <2>3. HalBase[op.sec][p] \in Value
    BY <1>1 DEF Memory, Content
  <2>4. p \in Nat
    BY DEF Pages
  <2>5. hal' \in HalOp /\ hal'.kind = op.kind /\ hal'.buf = op.buf
    BY <2>1, <2>3, <2>4 DEF HalOp
  <2>. QED
    BY <2>2, <2>5
<1>. QED
    BY <1>3, <1>4

LEMMA HalEraseType ==
    ASSUME TypeInv, NEW op \in HalOp
    PROVE  /\ HalErase(op) => flash' \in Memory /\ hal' = NoHal
           /\ HalEraseSuspended(op) =>
                 /\ flash' \in Memory
                 /\ hal' \in HalOp
                 /\ hal'.kind = op.kind /\ hal'.buf = op.buf
<1> USE DEF TypeInv
<1>1. flash \in Memory /\ Mixed \in Value /\ Erased \in Value
    BY DEF TypeOK, Value
<1>2. ASSUME HalErase(op) PROVE flash' \in Memory /\ hal' = NoHal
    BY <1>1, <1>2, SetSectorsType DEF HalErase
<1>3. ASSUME HalEraseSuspended(op)
      PROVE  /\ flash' \in Memory /\ hal' \in HalOp
             /\ hal'.kind = op.kind /\ hal'.buf = op.buf
  <2>1. PICK e \in Sectors, f \in Sectors :
          /\ hal' = [op EXCEPT !.at = e]
          /\ flash' = SetSectors(SetSectors(flash, op.at, e, Erased),
                                 e, f + 1, Mixed)
    BY <1>3 DEF HalEraseSuspended
  <2>2. flash' \in Memory
    BY <2>1, <1>1, SetSectorsType
  <2>3. hal' \in HalOp /\ hal'.kind = op.kind /\ hal'.buf = op.buf
    BY <2>1 DEF HalOp, Sectors
  <2>. QED
    BY <2>2, <2>3
<1>. QED
    BY <1>2, <1>3

LEMMA OperaDelType ==
    ASSUME TypeInv, NEW m \in Mods, NEW n \in Slots, OperaDel(m, n)
    PROVE  /\ used' \subseteq Slots /\ bused' \subseteq Bufs
           /\ opera' \in [Mods -> SUBSET Slots]
           /\ behind' \in [Slots -> SUBSET Slots]
           /\ bmem' \in [Bufs -> Content]
           /\ node' \in [Slots -> Node]
           /\ \A y \in Slots : node'[y].type = "W" => node'[y].buff \in Bufs
BY FreeNodeType, BlankType DEF TypeInv, OperaDel, TypeOK, HasBuffer, HasOther

(* The part of TypeInv a flush can disturb.                                *)
FlushType ==
    /\ used \subseteq Slots /\ bused \subseteq Bufs
    /\ opera \in [Mods -> SUBSET Slots]
    /\ behind \in [Slots -> SUBSET Slots]
    /\ bmem \in [Bufs -> Content]
    /\ node \in [Slots -> Node]
    /\ cur \in [Mods -> Slots \cup {Null}]
    /\ state \in [Mods -> {"UNINITED", "IDLE"} \cup Suspended]
    /\ hal \in HalOp
    /\ flash \in Memory
    /\ HasBuffer

LEMMA OperaDoneType ==
    ASSUME TypeInv, NEW m \in Mods, NEW n \in Slots, OperaDone(m, n)
    PROVE  FlushType'
<1> USE DEF TypeInv
<1>1. HalOpOf(n) \in HalOp /\ NoHal \in HalOp
    BY HalOpOfType, NoHalType
<1>2. hal' = NoHal /\ flash' \in Memory
  <2>1. CASE node[n].type = "W"
    <3>1. HalOpOf(n).buf \in Bufs
        BY <2>1, HalOpOfType DEF OperaDone, HalAccepts, HalOpOf, HasBuffer, HasOther
    <3>. QED
        BY <2>1, <3>1, <1>1, HalProgramType DEF OperaDone
  <2>2. CASE node[n].type # "W"
    BY <2>2, <1>1, HalEraseType DEF OperaDone
  <2>. QED
    BY <2>1, <2>2
<1>3. hal' \in HalOp /\ hal'.kind = "none"
    BY <1>2, NoHalType
<1>4. /\ state' \in [Mods -> {"UNINITED", "IDLE"} \cup Suspended]
      /\ cur' \in [Mods -> Slots \cup {Null}]
    BY DEF OperaDone, TypeOK
<1>. QED
    BY <1>2, <1>3, <1>4, OperaDelType DEF OperaDone, FlushType, HasBuffer, HasOther

LEMMA OperaSuspendedType ==
    ASSUME TypeInv, NEW m \in Mods, NEW n \in Slots, OperaSuspended(m, n)
    PROVE  FlushType'
<1> USE DEF TypeInv
<1>1. HalOpOf(n) \in HalOp
    BY HalOpOfType
<1>2. /\ flash' \in Memory /\ hal' \in HalOp
      /\ hal'.kind = "prog" => hal'.buf \in Bufs
  <2>1. CASE node[n].type = "W" /\ HalProgramSuspended(HalOpOf(n))
    <3>1. HalOpOf(n).buf \in Bufs
        BY <2>1, HalOpOfType DEF OperaSuspended, HalAccepts, HalOpOf, HasBuffer, HasOther
    <3>. QED
        BY <2>1, <3>1, <1>1, HalProgramType
  <2>2. CASE node[n].type = "E" /\ HalEraseSuspended(HalOpOf(n))
    <3>1. HalOpOf(n).kind = "prog" => HalOpOf(n).buf \in Bufs
        BY HalOpOfType
    <3>2. /\ flash' \in Memory /\ hal' \in HalOp
          /\ hal'.kind = HalOpOf(n).kind /\ hal'.buf = HalOpOf(n).buf
        BY <2>2, <1>1, HalEraseType
    <3>. QED
        BY <3>1, <3>2
  <2>. QED
    BY <2>1, <2>2 DEF OperaSuspended
<1>3. /\ state' \in [Mods -> {"UNINITED", "IDLE"} \cup Suspended]
      /\ cur' \in [Mods -> Slots \cup {Null}]
    BY DEF OperaSuspended, TypeOK, Suspended
<1>4. /\ node' \in [Slots -> Node]
      /\ \A y \in Slots : node'[y].type = node[y].type
                          /\ node'[y].buff = node[y].buff
  <2>1. node \in [Slots -> Node]
        /\ node' = [node EXCEPT ![n] = [node[n] EXCEPT !.lock = TRUE]]
    BY DEF OperaSuspended, TypeOK
  <2>2. /\ [node[n] EXCEPT !.lock = TRUE] \in Node
        /\ [node[n] EXCEPT !.lock = TRUE].type = node[n].type
        /\ [node[n] EXCEPT !.lock = TRUE].buff = node[n].buff
    BY <2>1 DEF Node
  <2>. QED
    BY <2>1, <2>2
<1>. QED
    BY <1>2, <1>3, <1>4 DEF OperaSuspended, FlushType, HasBuffer, HasOther, TypeOK, pools

LEMMA FlushTypeStep ==
    ASSUME TypeInv, NEW m \in Mods, FlushDone(m) \/ FlushSuspended(m)
    PROVE  TypeInv'
<1>1. FlushType'
    BY OperaDoneType, OperaSuspendedType DEF FlushDone, FlushSuspended
<1>2. m \in 0 .. NMod
    BY NorFlashAssumption DEF Mods
<1>3. /\ cur_mod' = m /\ cur_mod_id' = m
      /\ CheckAllowed /\ UNCHANGED sync
    BY DEF FlushDone, FlushSuspended, FlushBegin
<1>4. allowed_cb' \in [Users -> BOOLEAN] /\ ready' \in [Users -> BOOLEAN]
    BY <1>3 DEF CheckAllowed, TypeInv, TypeOK
<1>. QED
    BY <1>1, <1>2, <1>3, <1>4 DEF TypeInv, TypeOK, FlushType, HasOther

-----------------------------------------------------------------------------
(* The other steps change little of the typed state. *)

LEMMA QuietTypeStep ==
    ASSUME TypeInv,
           \/ \E m \in Mods : Register(m) \/ FlushEmpty(m)
           \/ FlushRefused
           \/ Gate
    PROVE  TypeInv'
<1> USE DEF TypeInv, TypeOK, HasBuffer, HasOther, pools, lists, current, device, gate
<1>1. ASSUME NEW m \in Mods, Register(m) PROVE TypeInv'
    BY <1>1 DEF Register, Null
<1>2. ASSUME NEW m \in Mods, FlushEmpty(m) PROVE TypeInv'
  <2>1. m \in 0 .. NMod /\ NoMod \in 0 .. NMod
    BY NorFlashAssumption DEF Mods, NoMod
  <2>. QED
    BY <1>2, <2>1 DEF FlushEmpty, FlushBegin, CheckAllowed
<1>3. ASSUME FlushRefused PROVE TypeInv'
    BY <1>3 DEF FlushRefused, CheckAllowed
<1>4. ASSUME Gate PROVE TypeInv'
    BY <1>4 DEF Gate, FlushEnableAll, FlushDisable, FlushEnable, CpChanges
<1>. QED
    BY <1>1, <1>2, <1>3, <1>4

LEMMA SyncStartType ==
    ASSUME TypeInv, NEW m \in Mods, NEW op \in {"W", "E"}, NEW s \in Sectors,
           NEW a \in Nat, NEW n \in Nat, NEW v \in Value,
           SyncStart(m, op, s, a, n, v)
    PROVE  TypeInv'
<1>1. sync' \in SyncCall
    BY DEF SyncStart, SyncCall, TypeInv, TypeOK
<1>2. HasOther'
  <2>1. /\ sync'.other = cur_mod
        /\ sync'.pc = "other" => cur_mod # NoMod
    BY DEF SyncStart
  <2>2. cur_mod \in 0 .. NMod
    BY DEF TypeInv, TypeOK
  <2>. QED
    BY <2>1, <2>2, NorFlashAssumption DEF HasOther, Mods, NoMod
<1>. QED
    BY <1>1, <1>2 DEF SyncStart, TypeInv, TypeOK, HasBuffer, pools, lists,
                     current, device, gate

LEMMA SyncTypeStep ==
    ASSUME TypeInv, Sync
    PROVE  TypeInv'
<1> USE DEF TypeInv
<1>1. sync.pc # "idle" => sync \in SyncCall
    BY DEF TypeOK, NoSync
<1>2. \A b \in BOOLEAN, c \in {"other", "own", "hal"} :
        sync \in SyncCall =>
            /\ [sync EXCEPT !.bresult = b] \in SyncCall
            /\ [sync EXCEPT !.pc = c] \in SyncCall
    BY DEF SyncCall
<1>3. CheckAllowed => /\ allowed_cb' \in [Users -> BOOLEAN]
                      /\ ready' \in [Users -> BOOLEAN]
    BY DEF CheckAllowed, TypeOK
<1>4. CASE SyncWait \/ SyncOtherIdle \/ SyncOwnLeave
  <2>1. UNCHANGED <<pools, lists, current, device>>
    BY <1>4 DEF SyncWait, SyncWaitFor, SyncOtherIdle, SyncFinished, SyncOwnLeave
  <2>2. /\ allowed_cb' \in [Users -> BOOLEAN]
        /\ ready' \in [Users -> BOOLEAN]
    BY <1>3, <1>4 DEF SyncWait, SyncWaitFor, SyncOtherIdle, SyncFinished, SyncOwnLeave, gate, TypeOK
  <2>3. sync' \in SyncCall \cup {NoSync}
    BY <1>1, <1>2, <1>4 DEF SyncWait, SyncWaitFor, SyncOtherIdle, SyncFinished, SyncOwnLeave, TypeOK
  <2>4. HasOther'
    BY <1>1, <1>4
       DEF SyncWait, SyncWaitFor, SyncOtherIdle, SyncFinished, SyncOwnLeave, HasOther, SyncCall
  <2>. QED
    BY <2>1, <2>2, <2>3, <2>4
       DEF TypeOK, HasBuffer, pools, lists, current, device
<1>5. CASE SyncOwn
  <2>1. sync \in SyncCall /\ sync.mod \in Mods
    BY <1>1, <1>5 DEF SyncOwn, SyncCall
  <2>2. FlushType'
    BY <1>5, <2>1, OperaDoneType DEF SyncOwn
  <2>. QED
    BY <1>2, <1>3, <1>5, <2>1, <2>2
       DEF SyncOwn, FlushType, TypeOK, HasOther, SyncCall
<1>6. CASE SyncOther
  <2>1. sync \in SyncCall
    BY <1>1, <1>6 DEF SyncOther, SyncFinish
  <2>2. PICK n \in Slots : OperaDone(sync.other, n)
    BY <1>6 DEF SyncOther, SyncFinish
  <2>3. sync.other \in Mods
    BY <1>6 DEF SyncOther, SyncFinish, HasOther
  <2>4. FlushType'
    BY <2>2, <2>3, OperaDoneType
  <2>. QED
    BY <1>2, <1>3, <1>6, <2>1, <2>3, <2>4
       DEF SyncOther, SyncFinish, FlushType, TypeOK, HasOther, SyncCall
<1>7. CASE SyncHal
  <2>1. sync \in SyncCall /\ flash \in Memory
    BY <1>1, <1>7 DEF SyncHal, TypeOK
  <2>2. /\ sync.sec \in Sectors /\ Erased \in Value
        /\ [p \in Pages |-> sync.v] \in Content
    BY <2>1 DEF SyncCall, Value, Content
  <2>3. flash' \in Memory
    BY <1>7, <2>1, <2>2, ProgramPagesType, SetSectorsType DEF SyncHal
  <2>. QED
    BY <1>7, <2>3 DEF SyncHal, TypeOK, HasBuffer, HasOther, NoSync, pools,
                      lists, current, gate
<1>. QED
    BY <1>4, <1>5, <1>6, <1>7 DEF Sync

(* The step of type correctness, one case per disjunct of Next. *)
LEMMA TypeStep ==
    ASSUME TypeInv, [Next]_vars
    PROVE  TypeInv'
<1>1. ASSUME NEW m \in Mods, Register(m) PROVE TypeInv'
    BY <1>1, QuietTypeStep
<1>2. CASE Client
  <2>1. PICK m \in Mods, s \in Sectors :
          \/ \E k \in EraseSizes : EraseAsync(m, s, k) \/ EraseSync(m, s, k)
          \/ \E a \in Pages, n \in 1 .. NPage, v \in Data :
                WriteAsync(m, s, a, n, v) \/ WriteSync(m, s, a, n, v)
      BY <1>2 DEF Client
  <2>2. EraseSizes \subseteq Nat /\ s \in Nat /\ Erased \in Value
      BY NorFlashAssumption DEF EraseSizes, Sectors, Value
  <2>3. Pages \subseteq Nat /\ 1 .. NPage \subseteq Nat /\ Data \subseteq Value
      BY DEF Pages, Value
  <2>4. ASSUME NEW k \in EraseSizes, EraseAsync(m, s, k) \/ EraseSync(m, s, k)
        PROVE  TypeInv'
      BY <2>2, <2>4, EraseType, SyncStartType DEF EraseSync
  <2>5. ASSUME NEW a \in Pages, NEW n \in 1 .. NPage, NEW v \in Data,
               WriteAsync(m, s, a, n, v) \/ WriteSync(m, s, a, n, v)
        PROVE  TypeInv'
      BY <2>3, <2>5, WriteType, SyncStartType DEF WriteSync
  <2>. QED
      BY <2>1, <2>4, <2>5
<1>3. CASE Flush
    BY <1>3, QuietTypeStep, FlushTypeStep DEF Flush
<1>4. CASE Gate
    BY <1>4, QuietTypeStep
<1>5. CASE Sync
    BY <1>5, SyncTypeStep
<1>6. CASE UNCHANGED vars
    BY <1>6 DEF TypeInv, TypeOK, HasBuffer, HasOther, vars
<1>. QED
    BY <1>1, <1>2, <1>3, <1>4, <1>5, <1>6 DEF Next

(* Every reachable state of the write-back layer is well typed, the        *)
(* inductive form: no list surgery, merge, suspend or resume leaves a node, *)
(* a buffer or the HAL's context outside its range.                        *)
THEOREM TypeCorrect == Spec => []TypeInv
<1>1. Init => TypeInv
    BY InitType
<1>2. TypeInv /\ [Next]_vars => TypeInv'
    BY TypeStep
<1>. QED
    BY <1>1, <1>2, PTL DEF Spec

(* The type invariant of the runs. *)
THEOREM TypeSafe == Spec => []TypeOK
<1>1. TypeInv => TypeOK
    BY DEF TypeInv
<1>. QED
    BY <1>1, TypeCorrect, PTL

-----------------------------------------------------------------------------
(* The safety properties. *)

Inv == TypeInv /\ SafetyInv

(* The action part of HalSourceStable.                                     *)
SourceKept ==
    hal.kind = "prog" /\ hal' # NoHal =>
        bmem'[hal.buf] = bmem[hal.buf] /\ hal.buf \in bused'

-----------------------------------------------------------------------------
(* Facts about a state that satisfies the invariant. *)

LEMMA Owned == ASSUME NEW S, NEW b
               PROVE  b \in BuffersOf(S) <=>
                        \E n \in S : node[n].type = "W" /\ node[n].buff = b
BY DEF BuffersOf

(* The node being flushed is in its list, in use and locked. *)
LEMMA CurFact ==
    ASSUME Inv, NEW m \in Mods, cur[m] # Null
    PROVE  /\ cur[m] \in Slots /\ cur[m] \in opera[m] /\ cur[m] \in used
           /\ node[cur[m]].lock /\ behind[cur[m]] = {}
BY DEF Inv, SafetyInv, TypeInv, TypeOK, OnlyTailLocked, IsTail, ListInv

(* No other module than the one being flushed has an operation suspended. *)
LEMMA OneCur ==
    ASSUME Inv, NEW m \in Mods, NEW x \in Mods, cur[m] # Null, cur[x] # Null
    PROVE  m = x
BY DEF Inv, SafetyInv, HalInv

(* A suspended program's buffer is that of a locked write node. *)
LEMMA SourceFact ==
    ASSUME Inv, hal.kind = "prog"
    PROVE  \E c \in used : /\ node[c].type = "W" /\ node[c].lock
                           /\ node[c].buff = hal.buf /\ hal.buf \in bused
<1>1. PICK m \in Mods : cur[m] # Null
    BY DEF Inv, SafetyInv, HalInv
<1>2. /\ hal.kind = IF node[cur[m]].type = "W" THEN "prog" ELSE "erase"
      /\ hal.buf = node[cur[m]].buff
    BY <1>1 DEF Inv, SafetyInv, HalInv
<1>3. node[cur[m]].type = "W"
    BY <1>2
<1>4. cur[m] \in used /\ node[cur[m]].lock
    BY <1>1, CurFact
<1>. QED
    BY <1>2, <1>3, <1>4 DEF Inv, SafetyInv, BufInv

LEMMA SlotFacts == Null \notin Slots /\ Null \notin Bufs
BY NorFlashAssumption DEF Null, Slots, Bufs

-----------------------------------------------------------------------------
(* What the list surgery does to module m's list: the nodes of gone are    *)
(* dropped, those of new, at most one, are linked in at the head.          *)
Relinked(m, gone, new) ==
    /\ opera' = [opera EXCEPT ![m] = (opera[m] \ gone) \cup new]
    /\ used' = (used \ gone) \cup new
    /\ \A y \in new : behind'[y] \subseteq opera[m] \ gone
    /\ \A y \in (used \ gone) \ new : behind'[y] = behind[y] \ gone

LEMMA RelinkLists ==
    ASSUME Inv, NEW m \in Mods, NEW gone \in SUBSET opera[m],
           NEW new \in SUBSET (Slots \ (used \ gone)),
           Relinked(m, gone, new), state[m] # "UNINITED",
           \A x \in Mods : state'[x] = "UNINITED" => state[x] = "UNINITED"
    PROVE  ListInv'
<1>1. /\ opera'[m] = (opera[m] \ gone) \cup new
      /\ \A x \in Mods : x # m => opera'[x] = opera[x]
    BY DEF Relinked, Inv, TypeInv, TypeOK
<1>2. /\ \A x \in Mods : opera[x] \subseteq used
      /\ \A n \in used : \E x \in Mods : n \in opera[x]
      /\ \A x, y \in Mods : x # y => opera[x] \cap opera[y] = {}
      /\ \A x \in Mods : \A n \in opera[x] : behind[n] \subseteq opera[x]
      /\ \A x \in Mods : state[x] = "UNINITED" => opera[x] = {}
    BY DEF Inv, SafetyInv, ListInv
<1>3. used' = (used \ gone) \cup new
    BY DEF Relinked
<1>4. \A x \in Mods : opera'[x] \subseteq used'
    BY <1>1, <1>2, <1>3
<1>5. \A n \in used' : \E x \in Mods : n \in opera'[x]
  <2> SUFFICES ASSUME NEW n \in used' PROVE \E x \in Mods : n \in opera'[x]
    OBVIOUS
  <2>1. CASE n \in new
    BY <1>1, <2>1
  <2>2. CASE n \in used \ gone
    <3>1. PICK x \in Mods : n \in opera[x]
        BY <1>2, <2>2
    <3>. QED
        BY <1>1, <2>2, <3>1
  <2>. QED
    BY <1>3, <2>1, <2>2
<1>6. \A x, y \in Mods : x # y => opera'[x] \cap opera'[y] = {}
    BY <1>1, <1>2
<1>7. ASSUME NEW x \in Mods, NEW n \in opera'[x]
      PROVE  behind'[n] \subseteq opera'[x]
  <2>1. CASE n \in new
    <3>1. x = m
        BY <1>1, <1>2, <2>1
    <3>. QED
        BY <1>1, <2>1, <3>1 DEF Relinked
  <2>2. CASE n \notin new
    <3>1. n \in opera[x] /\ n \in (used \ gone) \ new
        BY <1>1, <1>2, <2>2
    <3>2. behind'[n] = behind[n] \ gone
        BY <3>1 DEF Relinked
    <3>. QED
        BY <1>1, <1>2, <3>1, <3>2
  <2>. QED
    BY <2>1, <2>2
<1>. QED
    BY <1>1, <1>2, <1>4, <1>5, <1>6, <1>7 DEF ListInv

(* Nodes that stay keep their lock; new ones are not locked. *)
LEMMA RelinkLocks ==
    ASSUME Inv, NEW m \in Mods, NEW gone \in SUBSET opera[m],
           NEW new \in SUBSET (Slots \ (used \ gone)),
           Relinked(m, gone, new), cur' = cur,
           \A y \in gone : ~node[y].lock,
           \A y \in new : node'[y].lock = FALSE,
           \A y \in (used \ gone) \ new : node'[y].lock = node[y].lock
    PROVE  /\ OnlyTailLocked'
           /\ \A x \in Mods : cur[x] # Null => cur[x] \in (used \ gone) \ new
<1>1. /\ opera'[m] = (opera[m] \ gone) \cup new
      /\ \A x \in Mods : x # m => opera'[x] = opera[x]
    BY DEF Relinked, Inv, TypeInv, TypeOK
<1>2. /\ \A x \in Mods : opera[x] \subseteq used
      /\ \A x, y \in Mods : x # y => opera[x] \cap opera[y] = {}
      /\ \A x \in Mods : \A n \in opera[x] : node[n].lock <=> n = cur[x]
    BY DEF Inv, SafetyInv, ListInv, OnlyTailLocked
<1>3. ASSUME NEW x \in Mods, cur[x] # Null
      PROVE  /\ cur[x] \in (used \ gone) \ new
             /\ cur[x] \in opera'[x] /\ behind'[cur[x]] = {}
  <2>1. /\ cur[x] \in opera[x] /\ cur[x] \in used
        /\ node[cur[x]].lock /\ behind[cur[x]] = {}
    BY <1>3, CurFact
  <2>2. cur[x] \in (used \ gone) \ new
    BY <2>1
  <2>. QED
    BY <1>1, <2>1, <2>2 DEF Relinked
<1>4. ASSUME NEW x \in Mods, NEW n \in opera'[x]
      PROVE  node'[n].lock <=> n = cur[x]
  <2>1. CASE n \in new
    BY <1>3, <2>1, SlotFacts
  <2>2. CASE n \notin new
    <3>1. n \in opera[x] /\ n \in (used \ gone) \ new
        BY <1>1, <1>2, <2>2
    <3>. QED
        BY <1>2, <3>1
  <2>. QED
    BY <2>1, <2>2
<1>. QED
    BY <1>3, <1>4 DEF OnlyTailLocked, IsTail

(* The HAL's part: the nodes being flushed stay as they are. *)
LEMMA HalKept ==
    ASSUME Inv, UNCHANGED <<cur, state, cur_mod, hal, sync>>,
           \A x \in Mods : cur[x] # Null =>
               /\ node'[cur[x]].type = node[cur[x]].type
               /\ node'[cur[x]].buff = node[cur[x]].buff
    PROVE  HalInv'
BY DEF Inv, SafetyInv, HalInv

(* An asynchronous erase, by its effect. *)
LEMMA EraseEffect ==
    ASSUME Inv, NEW m \in Mods, NEW s \in Sectors, NEW k \in Nat,
           EOperaAdd(m, s, k)
    PROVE  \E gone \in SUBSET opera[m] :
               /\ \A y \in gone : ~node[y].lock
               /\ bused' = bused \ BuffersOf(gone)
               /\ \A b \in Bufs \ BuffersOf(gone) : bmem'[b] = bmem[b]
               /\ \E new \in SUBSET (Slots \ (used \ gone)) :
                     /\ Relinked(m, gone, new)
                     /\ \A y \in new : /\ node'[y].type = "E"
                                       /\ node'[y].lock = FALSE
                     /\ \A y \in (used \ gone) \ new : node'[y] = node[y]
                     /\ \A y \in Slots :
                           node'[y].type = "E" => node'[y].buff = Null
<1> DEFINE gone == Merged(m, s, k)
           left == opera[m] \ gone
           freed == [n \in Slots |-> IF n \in gone THEN FreeNode ELSE node[n]]
           Linked(new) ==
               /\ Relinked(m, gone, new)
               /\ \A y \in new : node'[y].type = "E" /\ node'[y].lock = FALSE
               /\ \A y \in (used \ gone) \ new : node'[y] = node[y]
               /\ \A y \in Slots : node'[y].type = "E" => node'[y].buff = Null
<1>1. gone \in SUBSET opera[m] /\ \A y \in gone : ~node[y].lock
    BY DEF Merged, Inside
<1>2. /\ bused' = bused \ BuffersOf(gone)
      /\ \A b \in Bufs \ BuffersOf(gone) : bmem'[b] = bmem[b]
    BY DEF EOperaAdd
<1>3. opera[m] \subseteq used /\ used \subseteq Slots
    BY DEF Inv, SafetyInv, ListInv, TypeInv, TypeOK
<1>4. \A y \in Slots : /\ y \in gone => freed[y] = FreeNode
                       /\ y \notin gone => freed[y] = node[y]
    OBVIOUS
<1>5. FreeNode.type = "E" /\ FreeNode.buff = Null /\ FreeNode.lock = FALSE
    BY DEF FreeNode
<1>6. \A y \in Slots : freed[y].type = "E" => freed[y].buff = Null
    BY <1>4, <1>5 DEF Inv, SafetyInv, BufInv
<1>7. ASSUME /\ node' = freed
             /\ used' = used \ gone
             /\ opera' = [opera EXCEPT ![m] = left]
             /\ behind' = [x \in Slots |-> IF x \in gone THEN {}
                                           ELSE behind[x] \ gone]
      PROVE  Linked({})
  <2>1. Relinked(m, gone, {})
    BY <1>3, <1>7 DEF Relinked
  <2>2. \A y \in used \ gone : node'[y] = node[y]
    BY <1>3, <1>4, <1>7
  <2>. QED
    BY <1>6, <1>7, <2>1, <2>2
<1>8. ASSUME NEW n \in Slots, FirstFree(n, Slots, used \ gone),
             Push(n, m, left), node' = [freed EXCEPT ![n] = EraseNode(s, k)]
      PROVE  Linked({n}) /\ n \notin used \ gone
  <2>2. n \in Slots \ (used \ gone) /\ opera[m] \ left = gone
    BY <1>1, <1>8 DEF FirstFree
  <2>3. Relinked(m, gone, {n})
    BY <1>3, <1>8, <2>2 DEF Push, Relinked
  <2>4. /\ node'[n] = EraseNode(s, k)
        /\ \A y \in Slots : y # n => node'[y] = freed[y]
    BY <1>8
  <2>5. /\ EraseNode(s, k).type = "E" /\ EraseNode(s, k).buff = Null
        /\ EraseNode(s, k).lock = FALSE
    BY DEF EraseNode, FreeNode
  <2>6. \A y \in (used \ gone) \ {n} : node'[y] = node[y]
    BY <1>3, <1>4, <2>4
  <2>7. \A y \in Slots : node'[y].type = "E" => node'[y].buff = Null
    BY <1>6, <2>4, <2>5
  <2>. QED
    BY <2>2, <2>3, <2>4, <2>5, <2>6, <2>7
<1>9. \E new \in SUBSET (Slots \ (used \ gone)) : Linked(new)
  <2>. HIDE DEF Linked
  <2>1. CASE /\ node' = freed
             /\ used' = used \ gone
             /\ opera' = [opera EXCEPT ![m] = left]
             /\ behind' = [x \in Slots |-> IF x \in gone THEN {}
                                           ELSE behind[x] \ gone]
    BY <1>7, <2>1
  <2>2. CASE \E n \in Slots :
                /\ FirstFree(n, Slots, used \ gone)
                /\ Push(n, m, left)
                /\ node' = [freed EXCEPT ![n] = EraseNode(s, k)]
    <3>1. PICK n \in Slots :
                /\ FirstFree(n, Slots, used \ gone)
                /\ Push(n, m, left)
                /\ node' = [freed EXCEPT ![n] = EraseNode(s, k)]
        BY <2>2
    <3>. QED
        BY <1>8, <3>1
  <2>. QED
    BY <2>1, <2>2 DEF EOperaAdd
<1>. QED
    BY <1>1, <1>2, <1>9

LEMMA EraseSafe ==
    ASSUME Inv, NEW m \in Mods, NEW s \in Sectors, NEW k \in Nat,
           EraseAsync(m, s, k)
    PROVE  SafetyInv' /\ SourceKept
<1>1. /\ EOperaAdd(m, s, k) /\ state[m] # "UNINITED"
      /\ UNCHANGED <<cur, state, cur_mod, hal, sync>>
    BY DEF EraseAsync, current, device
<1>2. PICK gone \in SUBSET opera[m] :
      /\ \A y \in gone : ~node[y].lock
      /\ bused' = bused \ BuffersOf(gone)
      /\ \A b \in Bufs \ BuffersOf(gone) : bmem'[b] = bmem[b]
      /\ \E new \in SUBSET (Slots \ (used \ gone)) :
            /\ Relinked(m, gone, new)
            /\ \A y \in new : node'[y].type = "E" /\ node'[y].lock = FALSE
            /\ \A y \in (used \ gone) \ new : node'[y] = node[y]
            /\ \A y \in Slots : node'[y].type = "E" => node'[y].buff = Null
    BY <1>1, EraseEffect
<1>3. PICK new \in SUBSET (Slots \ (used \ gone)) :
        /\ Relinked(m, gone, new)
        /\ \A y \in new : node'[y].type = "E" /\ node'[y].lock = FALSE
        /\ \A y \in (used \ gone) \ new : node'[y] = node[y]
        /\ \A y \in Slots : node'[y].type = "E" => node'[y].buff = Null
    BY <1>2
<1>4. ListInv'
    BY <1>1, <1>2, <1>3, RelinkLists
<1>5. /\ OnlyTailLocked'
      /\ \A x \in Mods : cur[x] # Null => cur[x] \in (used \ gone) \ new
  <2>1. /\ cur' = cur
        /\ \A y \in new : node'[y].lock = FALSE
        /\ \A y \in (used \ gone) \ new : node'[y].lock = node[y].lock
        /\ Relinked(m, gone, new)
        /\ \A y \in gone : ~node[y].lock
    BY <1>1, <1>2, <1>3
  <2>. QED
    BY <2>1, RelinkLocks
<1>6. HalInv'
    BY <1>1, <1>3, <1>5, HalKept
<1>7. gone \subseteq used /\ used' = (used \ gone) \cup new
    BY <1>2, <1>3 DEF Relinked, Inv, SafetyInv, ListInv
<1>8. /\ \A n \in used : node[n].type = "W" => node[n].buff \in bused
      /\ \A b \in bused : \E n \in used : node[n].type = "W" /\ node[n].buff = b
      /\ \A x, y \in used :
            node[x].type = "W" /\ node[y].type = "W" /\ x # y =>
                node[x].buff # node[y].buff
    BY DEF Inv, SafetyInv, BufInv
<1>9. \A n \in used' : node'[n].type = "W" =>
          n \in used \ gone /\ node'[n] = node[n]
    BY <1>3, <1>7
<1>10. \A n \in used \ gone : node[n].type = "W" =>
          n \in used' /\ node'[n] = node[n]
    BY <1>3, <1>7
<1>11. \A n \in used \ gone : node[n].type = "W" =>
          node[n].buff \in bused /\ node[n].buff \notin BuffersOf(gone)
    BY <1>7, <1>8, Owned
<1>12. BufInv'
  <2>1. \A n \in used' : node'[n].type = "W" => node'[n].buff \in bused'
    BY <1>2, <1>9, <1>11
  <2>2. ASSUME NEW b \in bused'
        PROVE  \E n \in used' : node'[n].type = "W" /\ node'[n].buff = b
    <3>1. b \in bused /\ b \notin BuffersOf(gone)
        BY <1>2
    <3>2. PICK n \in used : node[n].type = "W" /\ node[n].buff = b
        BY <1>8, <3>1
    <3>3. n \notin gone
        BY <3>1, <3>2, Owned
    <3>. QED
        BY <1>10, <3>2, <3>3
  <2>3. \A x, y \in used' :
            node'[x].type = "W" /\ node'[y].type = "W" /\ x # y =>
                node'[x].buff # node'[y].buff
    BY <1>8, <1>9
  <2>. QED
    BY <1>3, <2>1, <2>2, <2>3 DEF BufInv
<1>13. SourceKept
  <2>1. SUFFICES ASSUME hal.kind = "prog"
                 PROVE  bmem'[hal.buf] = bmem[hal.buf] /\ hal.buf \in bused'
    BY DEF SourceKept
  <2>2. PICK c \in used : /\ node[c].type = "W" /\ node[c].lock
                          /\ node[c].buff = hal.buf /\ hal.buf \in bused
    BY <2>1, SourceFact
  <2>3. c \notin gone
    BY <1>2, <2>2
  <2>4. hal.buf \notin BuffersOf(gone) /\ hal.buf \in Bufs
    BY <1>11, <2>2, <2>3 DEF Inv, TypeInv, TypeOK
  <2>. QED
    BY <1>2, <2>2, <2>4
<1>. QED
    BY <1>4, <1>5, <1>6, <1>12, <1>13 DEF SafetyInv

-----------------------------------------------------------------------------
(* Queueing a write, by its effect: it is merged into the unlocked write x, *)
LEMMA MergeSafe ==
    ASSUME Inv, NEW m \in Mods, NEW s \in Sectors, NEW a, NEW n, NEW v,
           NEW x \in Deciding(m, s), node[x].type = "W", WMerge(x, a, n, v),
           UNCHANGED <<cur, state, cur_mod, hal, sync>>
    PROVE  SafetyInv' /\ SourceKept
<1>1. x \in used /\ x \in Slots /\ ~node[x].lock
    BY DEF Deciding, Pending, Inv, SafetyInv, ListInv, TypeInv, TypeOK
<1>2. /\ node \in [Slots -> Node]
      /\ bmem \in [Bufs -> Content]
    BY DEF Inv, TypeInv, TypeOK
<1>3. UNCHANGED <<used, bused, opera, behind>>
    BY DEF WMerge, pools
<1>4. \A y \in Slots : /\ node'[y].type = node[y].type
                       /\ node'[y].buff = node[y].buff
                       /\ node'[y].lock = node[y].lock
  <2>1. \A nd \in Node : \A i, j :
            LET new == [nd EXCEPT !.w_offs = i, !.w_len = j]
            IN  new.type = nd.type /\ new.buff = nd.buff /\ new.lock = nd.lock
    BY DEF Node
  <2>. QED
    BY <1>1, <1>2, <2>1 DEF WMerge
<1>5. \A b \in Bufs : b # node[x].buff => bmem'[b] = bmem[b]
    BY <1>2 DEF WMerge
<1>6. used \subseteq Slots /\ \A y \in Mods : opera[y] \subseteq Slots
    BY DEF Inv, TypeInv, TypeOK
<1>7. ListInv'
    BY <1>3 DEF Inv, SafetyInv, ListInv
<1>8. BufInv'
    BY <1>3, <1>4, <1>6 DEF Inv, SafetyInv, BufInv
<1>9. OnlyTailLocked'
    BY <1>3, <1>4, <1>6 DEF Inv, SafetyInv, OnlyTailLocked, IsTail
<1>10. HalInv'
  <2>1. \A y \in Mods : cur[y] # Null => cur[y] \in Slots
    BY CurFact
  <2>. QED
    BY <1>4, <2>1, HalKept
<1>11. SourceKept
  <2>1. SUFFICES ASSUME hal.kind = "prog"
                 PROVE  bmem'[hal.buf] = bmem[hal.buf] /\ hal.buf \in bused'
    BY DEF SourceKept
  <2>2. PICK c \in used : /\ node[c].type = "W" /\ node[c].lock
                          /\ node[c].buff = hal.buf /\ hal.buf \in bused
    BY <2>1, SourceFact
  <2>3. c # x /\ hal.buf \in Bufs
    BY <1>1, <2>2 DEF Inv, TypeInv, TypeOK
  <2>4. hal.buf # node[x].buff
    BY <1>1, <2>2, <2>3 DEF Inv, SafetyInv, BufInv
  <2>. QED
    BY <1>3, <1>5, <2>2, <2>3, <2>4
<1>. QED
    BY <1>7, <1>8, <1>9, <1>10, <1>11 DEF SafetyInv

(* or a new node is linked in, with a buffer nobody had. *)
LEMMA NewSafe ==
    ASSUME Inv, NEW m \in Mods, NEW s, NEW a, NEW n, NEW v, NEW base,
           WNew(m, s, a, n, v, base), state[m] # "UNINITED",
           UNCHANGED <<cur, state, cur_mod, hal, sync>>
    PROVE  SafetyInv' /\ SourceKept
<1>1. PICK x \in Slots, b \in Bufs :
        /\ FirstFree(x, Slots, used)
        /\ FirstFree(b, Bufs, bused)
        /\ Push(x, m, opera[m])
        /\ bused' = bused \cup {b}
        /\ bmem' = [bmem EXCEPT ![b] = CopyPages(base, a, a + n, v)]
        /\ node' = [node EXCEPT ![x] = [type |-> "W", addr |-> s, len |-> 1,
                       w_offs |-> a, w_len |-> n, buff |-> b, lock |-> FALSE]]
    BY DEF WNew
<1>2. /\ node \in [Slots -> Node]
      /\ bmem \in [Bufs -> Content]
      /\ used \subseteq Slots /\ bused \subseteq Bufs
      /\ x \notin used /\ b \notin bused
    BY <1>1 DEF Inv, TypeInv, TypeOK, FirstFree
<1>3. /\ node'[x].type = "W" /\ node'[x].buff = b /\ node'[x].lock = FALSE
      /\ \A y \in Slots \ {x} : node'[y] = node[y]
      /\ \A c \in Bufs \ {b} : bmem'[c] = bmem[c]
    BY <1>1, <1>2
<1>4. Relinked(m, {}, {x}) /\ used' = used \cup {x}
    BY <1>1, <1>2 DEF Push, Relinked
<1>5. ListInv'
    BY <1>2, <1>4, RelinkLists
<1>6. /\ OnlyTailLocked'
      /\ \A y \in Mods : cur[y] # Null => cur[y] \in (used \ {}) \ {x}
  <2>1. /\ \A y \in {x} : node'[y].lock = FALSE
        /\ \A y \in (used \ {}) \ {x} : node'[y].lock = node[y].lock
        /\ \A y \in {} : ~node[y].lock
        /\ {x} \in SUBSET (Slots \ (used \ {})) /\ {} \in SUBSET opera[m]
    BY <1>2, <1>3
  <2>. QED
    BY <1>4, <2>1, RelinkLocks
<1>7. HalInv'
    BY <1>2, <1>3, <1>6, HalKept
<1>8. BufInv'
  <2>1. /\ \A y \in used : node[y].type = "W" => node[y].buff \in bused
        /\ \A y \in Slots : node[y].type = "E" => node[y].buff = Null
        /\ \A c \in bused : \E y \in used :
               node[y].type = "W" /\ node[y].buff = c
        /\ \A y, z \in used :
               node[y].type = "W" /\ node[z].type = "W" /\ y # z =>
                   node[y].buff # node[z].buff
    BY DEF Inv, SafetyInv, BufInv
  <2>2. \A y \in used : node'[y] = node[y] /\ y \in used'
    BY <1>2, <1>3, <1>4
  <2>3. \A y \in used' : y = x \/ (y \in used /\ node'[y] = node[y])
    BY <1>4, <2>2
  <2>4. \A y \in used' : node'[y].type = "W" => node'[y].buff \in bused'
    BY <1>1, <1>3, <2>1, <2>3
  <2>5. \A y \in Slots : node'[y].type = "E" => node'[y].buff = Null
    BY <1>3, <2>1
  <2>6. \A c \in bused' : \E y \in used' :
            node'[y].type = "W" /\ node'[y].buff = c
    BY <1>1, <1>3, <1>4, <2>1, <2>2
  <2>7. \A y, z \in used' :
            node'[y].type = "W" /\ node'[z].type = "W" /\ y # z =>
                node'[y].buff # node'[z].buff
    BY <1>2, <1>3, <2>1, <2>3
  <2>. QED
    BY <2>4, <2>5, <2>6, <2>7 DEF BufInv
<1>9. SourceKept
  <2>1. hal.kind = "prog" => hal.buf \in bused
    BY SourceFact
  <2>. QED
    BY <1>1, <1>2, <1>3, <2>1 DEF SourceKept
<1>. QED
    BY <1>5, <1>6, <1>7, <1>8, <1>9 DEF SafetyInv

LEMMA WriteSafe ==
    ASSUME Inv, NEW m \in Mods, NEW s \in Sectors, NEW a, NEW n, NEW v,
           WriteAsync(m, s, a, n, v)
    PROVE  SafetyInv' /\ SourceKept
<1>1. /\ WOperaAdd(m, s, a, n, v) /\ state[m] # "UNINITED"
      /\ UNCHANGED <<cur, state, cur_mod, hal, sync>>
    BY DEF WriteAsync, current, device
<1>2. \/ \E base : WNew(m, s, a, n, v, base)
      \/ \E x \in Deciding(m, s) : node[x].type = "W" /\ WMerge(x, a, n, v)
    BY <1>1 DEF WOperaAdd
<1>. QED
    BY <1>1, <1>2, NewSafe, MergeSafe

-----------------------------------------------------------------------------
(* Flushing an operation.  No other module has one suspended. *)
Alone(m) == \A x \in Mods : cur[x] # Null => x = m

(* The node a flush works on is the tail of its list. *)
LEMMA TargetFact ==
    ASSUME Inv, NEW m \in Mods, NEW n \in Slots, Target(m, n)
    PROVE  /\ n \in opera[m] /\ n \in used /\ behind[n] = {}
           /\ cur[m] \in {Null, n} /\ state[m] # "UNINITED"
           /\ state[m] \in Suspended => cur[m] = n
<1>1. n \in opera[m] /\ behind[n] = {} /\ cur[m] \in {Null, n}
    BY CurFact DEF Target, IsTail
<1>2. n \in used /\ state[m] # "UNINITED"
    BY <1>1 DEF Inv, SafetyInv, ListInv
<1>3. state[m] \in Suspended => cur[m] # Null
    BY DEF Inv, SafetyInv, HalInv
<1>. QED
    BY <1>1, <1>2, <1>3

(* Finishing an operation frees its node and leaves nothing suspended. *)
LEMMA DoneSafe ==
    ASSUME Inv, NEW m \in Mods, NEW n \in Slots, Target(m, n), Alone(m),
           OperaDone(m, n)
    PROVE  /\ ListInv' /\ BufInv' /\ OnlyTailLocked'
           /\ \A x \in Mods : cur'[x] = Null /\ state'[x] \notin Suspended
           /\ hal' = NoHal
<1>1. /\ n \in opera[m] /\ n \in used /\ behind[n] = {}
      /\ cur[m] \in {Null, n} /\ state[m] # "UNINITED"
    BY TargetFact
<1>2. /\ node \in [Slots -> Node] /\ behind \in [Slots -> SUBSET Slots]
      /\ used \subseteq Slots /\ bused \subseteq Bufs
      /\ opera \in [Mods -> SUBSET Slots]
      /\ cur \in [Mods -> Slots \cup {Null}]
      /\ state \in [Mods -> {"UNINITED", "IDLE"} \cup Suspended]
    BY DEF Inv, TypeInv, TypeOK
<1>3. /\ cur' = [cur EXCEPT ![m] = Null]
      /\ state' = [state EXCEPT ![m] = "IDLE"]
      /\ OperaDel(m, n)
      /\ hal' = NoHal
    BY DEF OperaDone, HalProgram, HalErase
<1>4. /\ \A x \in Mods : cur'[x] = Null /\ state'[x] \notin Suspended
      /\ \A x \in Mods : state'[x] = "UNINITED" => state[x] = "UNINITED"
  <2>1. \A x \in Mods : x # m => cur[x] = Null /\ state[x] \notin Suspended
    BY DEF Alone, Inv, SafetyInv, HalInv
  <2>. QED
    BY <1>2, <1>3, <2>1 DEF Suspended
<1>5. /\ opera' = [opera EXCEPT ![m] = @ \ {n}]
      /\ used' = used \ {n}
      /\ bused' = bused \ {node[n].buff}
      /\ node' = [node EXCEPT ![n] = FreeNode]
      /\ behind' = [x \in Slots |-> IF x = n THEN {} ELSE behind[x] \ {n}]
    BY <1>1, <1>3 DEF OperaDel
<1>6. /\ \A y \in Slots \ {n} : node'[y] = node[y]
      /\ node'[n] = FreeNode /\ FreeNode.type = "E" /\ FreeNode.buff = Null
    BY <1>2, <1>5 DEF FreeNode
<1>7. ListInv'
  <2>1. Relinked(m, {n}, {})
    BY <1>2, <1>5 DEF Relinked
  <2>2. {n} \in SUBSET opera[m] /\ {} \in SUBSET (Slots \ (used \ {n}))
    BY <1>1
  <2>. QED
    BY <1>1, <1>4, <2>1, <2>2, RelinkLists
<1>8. BufInv'
  <2>1. /\ \A y \in used : node[y].type = "W" => node[y].buff \in bused
        /\ \A y \in Slots : node[y].type = "E" => node[y].buff = Null
        /\ \A c \in bused : \E y \in used :
               node[y].type = "W" /\ node[y].buff = c
        /\ \A y, z \in used :
               node[y].type = "W" /\ node[z].type = "W" /\ y # z =>
                   node[y].buff # node[z].buff
    BY DEF Inv, SafetyInv, BufInv
  <2>2. \A y \in used' : y \in used /\ y # n /\ node'[y] = node[y]
    BY <1>2, <1>5, <1>6
  <2>3. \A y \in used : y # n => y \in used' /\ node'[y] = node[y]
    BY <1>2, <1>5, <1>6
  <2>4. node[n].type \in {"W", "E"}
    BY <1>2 DEF Node
  <2>5. node[n].type = "E" => node[n].buff \notin bused
    BY <1>2, <2>1, SlotFacts
  <2>6. \A y \in used' : node'[y].type = "W" => node'[y].buff \in bused'
    <3>1. ASSUME NEW y \in used', node'[y].type = "W"
          PROVE  node[y].buff \in bused /\ node[y].buff # node[n].buff
        BY <1>1, <2>1, <2>2, <2>4, <2>5, <3>1
    <3>. QED
        BY <1>5, <2>2, <3>1
  <2>7. \A y \in Slots : node'[y].type = "E" => node'[y].buff = Null
    BY <1>6, <2>1
  <2>8. \A c \in bused' : \E y \in used' :
            node'[y].type = "W" /\ node'[y].buff = c
    BY <1>5, <2>1, <2>3
  <2>9. \A y, z \in used' :
            node'[y].type = "W" /\ node'[z].type = "W" /\ y # z =>
                node'[y].buff # node'[z].buff
    BY <2>1, <2>2
  <2>. QED
    BY <2>6, <2>7, <2>8, <2>9 DEF BufInv
<1>9. OnlyTailLocked'
  <2>1. ASSUME NEW x \in Mods, NEW y \in opera'[x] PROVE node'[y].lock = FALSE
    <3>1. y \in opera[x] /\ y \in Slots /\ (x = m => y # n)
        BY <1>2, <1>5
    <3>2. y # n
        BY <1>1, <3>1 DEF Inv, SafetyInv, ListInv
    <3>3. node[y].lock <=> y = cur[x]
        BY <3>1 DEF Inv, SafetyInv, OnlyTailLocked
    <3>4. y # cur[x]
        BY <1>1, <3>1, <3>2, SlotFacts DEF Alone
    <3>5. node'[y] = node[y] /\ node[y].lock \in BOOLEAN
        BY <1>2, <1>6, <3>1, <3>2 DEF Node
    <3>. QED
        BY <3>3, <3>4, <3>5
  <2>2. \A x \in Mods : \A y \in opera'[x] : y # Null
    BY <1>2, <1>5, SlotFacts
  <2>. QED
    BY <1>4, <2>1, <2>2 DEF OnlyTailLocked
<1>. QED
    BY <1>3, <1>4, <1>7, <1>8, <1>9

(* A suspended operation leaves its node locked and the HAL holding it. *)
LEMMA SuspendedSafe ==
    ASSUME Inv, NEW m \in Mods, NEW n \in Slots, Target(m, n), Alone(m),
           OperaSuspended(m, n), cur_mod' = m, sync = NoSync, UNCHANGED sync
    PROVE  SafetyInv' /\ SourceKept
<1>1. /\ n \in opera[m] /\ n \in used /\ behind[n] = {}
      /\ cur[m] \in {Null, n} /\ state[m] # "UNINITED"
      /\ state[m] \in Suspended => cur[m] = n
    BY TargetFact
<1>2. /\ node \in [Slots -> Node]
      /\ used \subseteq Slots
      /\ opera \in [Mods -> SUBSET Slots]
      /\ cur \in [Mods -> Slots \cup {Null}]
      /\ state \in [Mods -> {"UNINITED", "IDLE"} \cup Suspended]
      /\ hal \in HalOp
    BY DEF Inv, TypeInv, TypeOK
<1>3. /\ cur' = [cur EXCEPT ![m] = n]
      /\ node' = [node EXCEPT ![n].lock = TRUE]
      /\ UNCHANGED <<used, bused, opera, behind, bmem>>
      /\ HalAccepts(m, n)
    BY DEF OperaSuspended, pools
<1>4. /\ node'[n].lock = TRUE
      /\ \A y \in Slots \ {n} : node'[y] = node[y]
      /\ \A y \in Slots : /\ node'[y].type = node[y].type
                          /\ node'[y].buff = node[y].buff
    BY <1>2, <1>3 DEF Node
<1>5. ListInv'
  <2>1. /\ \A x \in Mods : state'[x] = "UNINITED" => state[x] = "UNINITED"
    BY <1>2 DEF OperaSuspended
  <2>. QED
    BY <1>3, <2>1 DEF Inv, SafetyInv, ListInv
<1>6. BufInv'
    BY <1>2, <1>3, <1>4 DEF Inv, SafetyInv, BufInv
<1>7. /\ cur'[m] = n
      /\ \A x \in Mods : x # m => cur'[x] = Null /\ cur[x] = Null
    BY <1>2, <1>3 DEF Alone
<1>8. OnlyTailLocked'
  <2>1. ASSUME NEW x \in Mods, NEW y \in opera[x]
        PROVE  node'[y].lock <=> y = cur'[x]
    <3>1. y \in Slots /\ y # Null /\ (node[y].lock <=> y = cur[x])
        BY <1>2, SlotFacts DEF Inv, SafetyInv, OnlyTailLocked
    <3>2. CASE y = n
      <4>1. x = m
        BY <1>1, <3>2 DEF Inv, SafetyInv, ListInv
      <4>. QED
        BY <1>4, <1>7, <3>2, <4>1
    <3>3. CASE y # n
      <4>1. y # cur[x] /\ y # cur'[x]
        BY <1>1, <1>7, <3>1, <3>3
      <4>. QED
        BY <1>4, <3>1, <3>3, <4>1
    <3>. QED
        BY <3>2, <3>3
  <2>2. \A x \in Mods : cur'[x] # Null =>
            cur'[x] \in opera'[x] /\ behind'[cur'[x]] = {}
    BY <1>1, <1>3, <1>7
  <2>. QED
    BY <1>3, <2>1, <2>2 DEF OnlyTailLocked, IsTail
<1>9. /\ state[m] = "IDLE" => hal.kind = "none"
      /\ state[m] # "IDLE" =>
            /\ hal.kind = IF node[n].type = "W" THEN "prog" ELSE "erase"
            /\ hal.buf = node[n].buff
  <2>1. state[m] # "IDLE" => state[m] \in Suspended /\ cur[m] = n /\ n # Null
    BY <1>1, <1>2, SlotFacts
  <2>. QED
    BY <1>3, <2>1 DEF HalAccepts, Inv, SafetyInv, HalInv
<1>10. /\ hal'.kind = IF node[n].type = "W" THEN "prog" ELSE "erase"
       /\ hal'.buf = node[n].buff
       /\ state' = [state EXCEPT ![m] = IF node[n].type = "W"
                       THEN "WRITTING_SUSPEND" ELSE "ERASE_SUSPEND"]
  <2>2. /\ HalOpOf(n).kind = IF node[n].type = "W" THEN "prog" ELSE "erase"
        /\ HalOpOf(n).buf = node[n].buff
        /\ HalOpOf(n) \in HalOp
    <3>1. node[n].type # "W" => node[n].type = "E" /\ node[n].buff = Null
        BY <1>2 DEF Node, Inv, SafetyInv, BufInv
    <3>2. HalOpOf(n) \in HalOp
        BY HalOpOfType DEF Inv
    <3>. QED
        BY <1>9, <3>1, <3>2 DEF HalOpOf
  <2>3. CASE node[n].type = "W"
    BY <2>2, <2>3, HalOpOfType, HalProgramType DEF OperaSuspended, Inv
  <2>4. CASE node[n].type = "E"
    BY <2>2, <2>4, HalEraseType DEF OperaSuspended, Inv
  <2>. QED
    BY <2>3, <2>4 DEF OperaSuspended
<1>11. HalInv'
  <2>1. \A x \in Mods : state'[x] \in Suspended <=> cur'[x] # Null
    <3>1. \A x \in Mods : x # m => state[x] \notin Suspended
        BY <1>7 DEF Inv, SafetyInv, HalInv
    <3>. QED
        BY <1>2, <1>7, <1>10, <3>1, SlotFacts DEF Suspended
  <2>2. \A x \in Mods : cur'[x] # Null => x = m /\ cur'[x] = n
    BY <1>7
  <2>3. state'[m] = IF node[n].type = "W" THEN "WRITTING_SUSPEND"
                    ELSE "ERASE_SUSPEND"
    BY <1>2, <1>10
  <2>4. sync'.pc = "idle"
    BY DEF NoSync
  <2>5. cur'[m] # Null
    BY <1>7, SlotFacts
  <2>. QED
    BY <1>4, <1>7, <1>10, <2>1, <2>2, <2>3, <2>4, <2>5 DEF HalInv
<1>12. SourceKept
    BY <1>3, SourceFact DEF SourceKept
<1>. QED
    BY <1>5, <1>6, <1>8, <1>11, <1>12 DEF SafetyInv

-----------------------------------------------------------------------------
(* The module being flushed is alone in having something suspended. *)
LEMMA CurModAlone ==
    ASSUME Inv, NEW m \in Mods, GetCurMod(m) \/ (sync.pc = "own" /\ m = sync.mod)
                                \/ (sync.pc = "other" /\ m = sync.other)
    PROVE  Alone(m)
BY NorFlashAssumption DEF GetCurMod, Alone, Inv, SafetyInv, HalInv, Mods, NoMod

(* With nothing suspended anywhere, the HAL's part asks little. *)
LEMMA HalFree ==
    ASSUME \A x \in Mods : cur'[x] = Null /\ state'[x] \notin Suspended,
           hal' = NoHal, sync'.pc = "other" => sync'.other = cur_mod'
    PROVE  HalInv' /\ SourceKept
BY NoHalType DEF HalInv, SourceKept

LEMMA FlushSafe ==
    ASSUME Inv, Flush
    PROVE  SafetyInv' /\ SourceKept
<1>1. CASE FlushRefused
  <2>1. /\ UNCHANGED <<used, bused, opera, behind, node, bmem, cur, state,
                       cur_mod, hal, sync>>
    BY <1>1 DEF FlushRefused, pools, lists, current, device
  <2>. QED
    BY <2>1, SourceFact DEF Inv, SafetyInv, ListInv, BufInv, OnlyTailLocked,
                            IsTail, HalInv, SourceKept
<1>2. ASSUME NEW m \in Mods, FlushDone(m) PROVE SafetyInv' /\ SourceKept
  <2>1. PICK n \in Slots : Target(m, n) /\ OperaDone(m, n)
    BY <1>2 DEF FlushDone
  <2>2. Alone(m) /\ sync' = NoSync
    BY <1>2, CurModAlone DEF FlushDone, FlushBegin
  <2>3. sync'.pc # "other"
    BY <2>2 DEF NoSync
  <2>. QED
    BY <2>1, <2>2, <2>3, DoneSafe, HalFree DEF SafetyInv
<1>3. ASSUME NEW m \in Mods, FlushSuspended(m) PROVE SafetyInv' /\ SourceKept
    BY <1>3, CurModAlone, SuspendedSafe DEF FlushSuspended, FlushBegin
<1>4. ASSUME NEW m \in Mods, FlushEmpty(m) PROVE SafetyInv' /\ SourceKept
  <2>1. /\ UNCHANGED <<used, bused, opera, behind, node, bmem, cur, state,
                       hal, sync>>
        /\ Alone(m) /\ cur[m] = Null /\ sync = NoSync
    BY <1>4, CurModAlone DEF FlushEmpty, FlushBegin, pools, lists, device
  <2>2. \A x \in Mods : cur[x] = Null
    BY <2>1 DEF Alone
  <2>3. sync.pc = "idle"
    BY <2>1 DEF NoSync
  <2>. QED
    BY <2>1, <2>2, <2>3, SourceFact DEF Inv, SafetyInv, ListInv, BufInv,
                            OnlyTailLocked, IsTail, HalInv, SourceKept
<1>. QED
    BY <1>1, <1>2, <1>3, <1>4 DEF Flush

(* Registering a module, opening or closing the gate. *)
LEMMA QuietSafe ==
    ASSUME Inv, Gate \/ (\E m \in Mods : Register(m)) \/ UNCHANGED vars
    PROVE  SafetyInv' /\ SourceKept
<1>1. CASE Gate \/ UNCHANGED vars
  <2>1. /\ UNCHANGED <<used, bused, opera, behind, node, bmem, cur, state,
                       cur_mod, hal, sync>>
    BY <1>1 DEF Gate, FlushEnableAll, FlushDisable, FlushEnable, CpChanges,
                pools, lists, current, device, vars
  <2>. QED
    BY <2>1, SourceFact DEF Inv, SafetyInv, ListInv, BufInv, OnlyTailLocked,
                            IsTail, HalInv, SourceKept
<1>2. ASSUME NEW m \in Mods, Register(m) PROVE SafetyInv' /\ SourceKept
  <2>1. /\ opera[m] = {} /\ cur[m] = Null
        /\ UNCHANGED <<used, bused, behind, node, bmem, cur_mod, hal, sync>>
    BY <1>2 DEF Register, Inv, SafetyInv, ListInv, HalInv, Suspended, pools,
                device
  <2>2. /\ opera \in [Mods -> SUBSET Slots]
        /\ cur \in [Mods -> Slots \cup {Null}]
        /\ state \in [Mods -> {"UNINITED", "IDLE"} \cup Suspended]
    BY DEF Inv, TypeInv, TypeOK
  <2>3. opera' = opera /\ cur' = cur
    BY <1>2, <2>1, <2>2 DEF Register
  <2>4. \A x \in Mods : /\ state'[x] = "UNINITED" => state[x] = "UNINITED"
                        /\ state'[x] = state[x]
                           \/ {state[x], state'[x]} \cap Suspended = {}
    BY <1>2, <2>2 DEF Register, Suspended
  <2>5. ListInv' /\ BufInv' /\ OnlyTailLocked'
    BY <2>1, <2>3, <2>4 DEF Inv, SafetyInv, ListInv, BufInv, OnlyTailLocked,
                            IsTail
  <2>6. HalInv'
    BY <2>1, <2>3, <2>4 DEF Inv, SafetyInv, HalInv, Suspended
  <2>7. SourceKept
    BY <2>1, SourceFact DEF SourceKept
  <2>. QED
    BY <2>5, <2>6, <2>7 DEF SafetyInv
<1>. QED
    BY <1>1, <1>2

(* The steps of a synchronous call. *)
LEMMA SyncSafe ==
    ASSUME Inv, Sync
    PROVE  SafetyInv' /\ SourceKept
<1>1. sync.pc \in {"other", "own", "hal"} => sync \in SyncCall
    BY DEF Inv, TypeInv, TypeOK, NoSync
<1>2. CASE SyncOther
  <2>1. sync \in SyncCall /\ sync.other \in Mods
    BY <1>1, <1>2 DEF SyncOther, SyncFinish, Inv, TypeInv, HasOther
  <2>2. PICK n \in Slots : Target(sync.other, n) /\ OperaDone(sync.other, n)
    BY <1>2 DEF SyncOther, SyncFinish
  <2>3. Alone(sync.other)
    BY <1>2, <2>1, CurModAlone DEF SyncOther, SyncFinish
  <2>4. sync'.pc = "other" /\ sync'.other = cur_mod'
    BY <1>2, <2>1 DEF SyncOther, SyncFinish, SyncCall, Inv, SafetyInv, HalInv
  <2>. QED
    BY <2>1, <2>2, <2>3, <2>4, DoneSafe, HalFree DEF SafetyInv
<1>3. CASE SyncOwn
  <2>1. sync \in SyncCall /\ sync.mod \in Mods
    BY <1>1, <1>3 DEF SyncOwn, SyncCall
  <2>2. PICK n \in Slots : Target(sync.mod, n) /\ OperaDone(sync.mod, n)
    BY <1>3 DEF SyncOwn
  <2>3. Alone(sync.mod)
    BY <1>3, <2>1, CurModAlone DEF SyncOwn
  <2>4. sync'.pc = "own"
    BY <1>3, <2>1 DEF SyncOwn, SyncCall
  <2>. QED
    BY <2>1, <2>2, <2>3, <2>4, DoneSafe, HalFree DEF SafetyInv
<1>4. CASE SyncWait \/ SyncOtherIdle \/ SyncOwnLeave \/ SyncHal
  <2>1. /\ UNCHANGED <<used, bused, opera, behind, node, bmem, cur, state,
                       cur_mod, hal>>
        /\ \/ sync' = sync
           \/ sync' = NoSync
           \/ /\ sync' = [sync EXCEPT !.pc = "own"] /\ sync \in SyncCall
              /\ sync.pc = "other" /\ state[sync.other] = "IDLE"
           \/ /\ sync' = [sync EXCEPT !.pc = "hal"] /\ sync \in SyncCall
              /\ sync.pc = "own"
    BY <1>1, <1>4 DEF SyncWait, SyncWaitFor, SyncOtherIdle, SyncFinished, SyncOwnLeave, SyncHal, pools,
                      lists, current, device
  <2>2. ListInv' /\ BufInv' /\ OnlyTailLocked'
    BY <2>1 DEF Inv, SafetyInv, ListInv, BufInv, OnlyTailLocked, IsTail
  <2>3. /\ sync'.pc = "other" => sync'.other = cur_mod'
        /\ sync'.pc \in {"own", "hal"} =>
              \A m \in Mods : cur[m] # Null => m = sync'.mod
    <3>1. /\ sync.pc = "other" => sync.other = cur_mod /\ sync.other \in Mods
          /\ sync.pc \in {"own", "hal"} =>
                \A m \in Mods : cur[m] # Null => m = sync.mod
        BY DEF Inv, SafetyInv, HalInv, TypeInv, HasOther
    <3>2. CASE sync' = sync
        BY <2>1, <3>1, <3>2
    <3>3. CASE sync' = NoSync
        BY <3>3 DEF NoSync
    <3>4. CASE /\ sync' = [sync EXCEPT !.pc = "own"] /\ sync \in SyncCall
               /\ sync.pc = "other" /\ state[sync.other] = "IDLE"
      <4>1. sync'.pc = "own"
        BY <3>4 DEF SyncCall
      <4>2. \A m \in Mods : cur[m] = Null
        BY <3>1, <3>4 DEF Inv, SafetyInv, HalInv, Suspended
      <4>. QED
        BY <4>1, <4>2
    <3>5. CASE /\ sync' = [sync EXCEPT !.pc = "hal"] /\ sync \in SyncCall
               /\ sync.pc = "own"
      <4>1. sync'.pc = "hal" /\ sync'.mod = sync.mod
        BY <3>5 DEF SyncCall
      <4>. QED
        BY <3>1, <3>5, <4>1
    <3>. QED
        BY <2>1, <3>2, <3>3, <3>4, <3>5
  <2>4. HalInv'
    BY <2>1, <2>3 DEF Inv, SafetyInv, HalInv
  <2>5. SourceKept
    BY <2>1, SourceFact DEF SourceKept
  <2>. QED
    BY <2>2, <2>4, <2>5 DEF SafetyInv
<1>. QED
    BY <1>2, <1>3, <1>4 DEF Sync

LEMMA SyncStartSafe ==
    ASSUME Inv, NEW m \in Mods, NEW op, NEW s, NEW a, NEW n, NEW v,
           SyncStart(m, op, s, a, n, v)
    PROVE  SafetyInv' /\ SourceKept
<1>1. /\ UNCHANGED <<used, bused, opera, behind, node, bmem, cur, state,
                     cur_mod, hal>>
      /\ sync'.mod = m /\ sync'.other = cur_mod
      /\ sync'.pc = IF cur_mod \in {NoMod, m} THEN "own" ELSE "other"
    BY DEF SyncStart, pools, lists, current, device
<1>2. ListInv' /\ BufInv' /\ OnlyTailLocked'
    BY <1>1 DEF Inv, SafetyInv, ListInv, BufInv, OnlyTailLocked, IsTail
<1>3. \A x \in Mods : cur[x] # Null => cur_mod = x /\ x # NoMod
    BY NorFlashAssumption DEF Inv, SafetyInv, HalInv, Mods, NoMod
<1>4. HalInv'
    BY <1>1, <1>3 DEF Inv, SafetyInv, HalInv
<1>5. SourceKept
    BY <1>1, SourceFact DEF SourceKept
<1>. QED
    BY <1>2, <1>4, <1>5 DEF SafetyInv

-----------------------------------------------------------------------------
LEMMA InitSafe == Init => SafetyInv
BY NoHalType, SlotFacts
   DEF Init, SafetyInv, ListInv, BufInv, OnlyTailLocked, IsTail, HalInv,
       FreeNode, NoSync, Suspended

LEMMA StepSafe ==
    ASSUME Inv, [Next]_vars
    PROVE  SafetyInv' /\ SourceKept
<1>1. CASE Client
  <2>1. PICK m \in Mods, s \in Sectors :
          \/ \E k \in EraseSizes : EraseAsync(m, s, k) \/ EraseSync(m, s, k)
          \/ \E a \in Pages, n \in 1 .. NPage, v \in Data :
                WriteAsync(m, s, a, n, v) \/ WriteSync(m, s, a, n, v)
    BY <1>1 DEF Client
  <2>2. EraseSizes \subseteq Nat
    BY NorFlashAssumption DEF EraseSizes
  <2>. QED
    BY <2>1, <2>2, EraseSafe, WriteSafe, SyncStartSafe DEF EraseSync, WriteSync
<1>2. CASE Flush
    BY <1>2, FlushSafe
<1>3. CASE Sync
    BY <1>3, SyncSafe
<1>4. CASE Gate \/ (\E m \in Mods : Register(m)) \/ UNCHANGED vars
    BY <1>4, QuietSafe
<1>. QED
    BY <1>1, <1>2, <1>3, <1>4 DEF Next

(* In every reachable state of the write-back layer the lists, the pools,  *)
(* the locks and the HAL's context agree (SafetyInv), however queueing,    *)
(* flushing, suspending and synchronous calls interleave.                  *)
THEOREM SafetyCorrect == Spec => []Inv
<1>1. Init => Inv
    BY InitType, InitSafe DEF Inv
<1>2. Inv /\ [Next]_vars => Inv'
    BY StepSafe, TypeStep DEF Inv
<1>. QED
    BY <1>1, <1>2, PTL DEF Spec

(* Nothing leaks and nothing is freed twice: what the list surgery of      *)
(* _e_opera_add and _opera_del unlinks goes back to its pool, once.        *)
THEOREM PoolsSafe == Spec => []PoolsAccounted
<1>1. Inv => PoolsAccounted
  <2>1. Inv => used = UNION {opera[m] : m \in Mods}
    BY DEF Inv, SafetyInv, ListInv
  <2>2. Inv => bused = BuffersOf(used)
    BY DEF Inv, SafetyInv, BufInv, BuffersOf
  <2>. QED
    BY <2>1, <2>2 DEF Inv, SafetyInv, ListInv, BufInv, PoolsAccounted
<1>. QED
    BY <1>1, SafetyCorrect, PTL

(* The locked node of a list is its tail and the one being flushed, so     *)
(* _opera_del never cuts off operations that were queued before it.        *)
THEOREM LockSafe == Spec => []OnlyTailLocked
<1>1. Inv => OnlyTailLocked
    BY DEF Inv, SafetyInv
<1>. QED
    BY <1>1, SafetyCorrect, PTL

(* The assertions of _opera_flush on what the HAL returns never fire,      *)
(* whoever flushes next.                                                   *)
THEOREM HalSafe == Spec => []FlushAccepted
<1>1. ASSUME Inv PROVE FlushAccepted
  <2> SUFFICES ASSUME NEW m \in Mods, NEW n \in Slots, Flushing(m), Target(m, n)
               PROVE  HalAccepts(m, n)
    BY DEF FlushAccepted
  <2>1. Alone(m)
    BY <1>1, CurModAlone DEF Flushing
  <2>2. /\ cur[m] \in {Null, n} /\ state[m] # "UNINITED"
        /\ state[m] \in Suspended => cur[m] = n
    BY <1>1, TargetFact
  <2>3. CASE state[m] = "IDLE"
    <3>1. \A x \in Mods : cur[x] = Null
        BY <1>1, <2>1, <2>3 DEF Alone, Inv, SafetyInv, HalInv, Suspended
    <3>. QED
        BY <1>1, <2>3, <3>1 DEF HalAccepts, Inv, SafetyInv, HalInv
  <2>4. CASE state[m] # "IDLE"
    <3>1. state[m] \in Suspended
        BY <1>1, <2>2, <2>4 DEF Inv, TypeInv, TypeOK
    <3>2. cur[m] = n /\ cur[m] # Null
        BY <2>2, <3>1, SlotFacts
    <3>. QED
        BY <1>1, <2>4, <3>2 DEF HalAccepts, Inv, SafetyInv, HalInv
  <2>. QED
    BY <2>3, <2>4
<1>. QED
    BY <1>1, SafetyCorrect, PTL

(* The bytes a suspended write goes on to program stay as they are until   *)
(* it is finished: no write is merged into its buffer, no erase frees it.  *)
THEOREM SourceSafe == Spec => HalSourceStable
<1>1. Inv /\ [Next]_vars => [SourceKept]_vars
    BY StepSafe
<1>. QED
    BY <1>1, SafetyCorrect, PTL DEF Spec, HalSourceStable, SourceKept

-----------------------------------------------------------------------------
(* Only the step that leaves the draining loop of an open gate brings a     *)
(* synchronous call to the device.                                         *)
LEMMA SyncQueuedStep ==
    ASSUME Inv, Allowed, SyncAfterQueued, [Next]_vars
    PROVE  SyncAfterQueued'
<1>1. NoSync.pc = "idle"
    BY DEF NoSync
<1>2. sync.pc \in {"other", "own", "hal"} => sync \in SyncCall
    BY <1>1 DEF Inv, TypeInv, TypeOK
<1>3. CASE sync = NoSync
  <2>1. SUFFICES sync'.pc # "hal"
    BY DEF SyncAfterQueued
  <2>2. \/ UNCHANGED sync
        \/ \E m \in Mods : \E op, s, a, n, v : SyncStart(m, op, s, a, n, v)
    BY <1>1, <1>3 DEF Next, Register, Client, EraseAsync, WriteAsync,
           EraseSync, WriteSync, Flush, FlushRefused, FlushDone,
           FlushSuspended, FlushEmpty, FlushBegin, Gate, FlushEnableAll,
           FlushDisable, FlushEnable, CpChanges, Sync, SyncWait, SyncWaitFor, SyncOther, SyncFinish,
           SyncOtherIdle, SyncFinished, SyncOwn, SyncOwnLeave, SyncHal, vars
  <2>. QED
    BY <1>1, <1>3, <2>2 DEF SyncStart
<1>4. CASE SyncOther \/ SyncOtherIdle \/ SyncOwn \/ SyncHal
    BY <1>1, <1>2, <1>4 DEF SyncOther, SyncFinish, SyncOtherIdle, SyncFinished, SyncOwn, SyncHal,
           SyncAfterQueued, SyncCall
<1>5. CASE SyncOwnLeave
  <2>1. /\ cur[sync.mod] = Null /\ opera[sync.mod] = {}
        /\ UNCHANGED <<opera, hal>>
        /\ sync' = [sync EXCEPT !.pc = "hal"]
        /\ sync.pc = "own" /\ sync \in SyncCall
    BY <1>2, <1>5 DEF SyncOwnLeave, lists, device
  <2>2. hal.kind = "none"
    BY <2>1 DEF Inv, SafetyInv, HalInv
  <2>. QED
    BY <2>1, <2>2 DEF SyncAfterQueued, SyncCall
<1>6. CASE UNCHANGED <<opera, hal, sync>>
    BY <1>6 DEF SyncAfterQueued
<1>7. \/ sync = NoSync \/ SyncOther \/ SyncOtherIdle \/ SyncOwn \/ SyncHal
      \/ SyncOwnLeave \/ UNCHANGED <<opera, hal, sync>>
    BY DEF Next, Register, Client, EraseAsync, WriteAsync,
           EraseSync, WriteSync, SyncStart, Flush, FlushRefused, FlushDone,
           FlushSuspended, FlushEmpty, FlushBegin, Gate, FlushEnableAll,
           FlushDisable, FlushEnable, CpChanges, Sync, SyncWait, SyncWaitFor, vars, lists,
           device
<1>. QED
    BY <1>3, <1>4, <1>5, <1>6, <1>7

(* As long as nobody closes the gate, a synchronous erase or write goes to *)
(* the device with every operation of its module carried out and the HAL   *)
(* free to accept it.  (With no gate user the gate is always open; a call  *)
(* made while it is closed skips the draining loop.)                       *)
THEOREM SyncQueuedSafe == Spec => ([]Allowed => []SyncAfterQueued)
<1>1. Init => SyncAfterQueued
    BY DEF Init, SyncAfterQueued, NoSync
<1>2. Inv /\ Allowed /\ SyncAfterQueued /\ [Next]_vars => SyncAfterQueued'
    BY SyncQueuedStep
<1>. QED
    BY <1>1, <1>2, SafetyCorrect, PTL DEF Spec
=============================================================================
