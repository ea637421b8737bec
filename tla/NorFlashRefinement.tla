------------------------- MODULE NorFlashRefinement -------------------------
(***************************************************************************)
(* NorFlash implements FlashStore: what norflash_api_read returns is a     *)
(* memory that only writes and erases change, for every value of the       *)
(* constants, under the conditions StoreConstants and ~HalfwayWrite.       *)
(***************************************************************************)
EXTENDS NorFlashProofs

-----------------------------------------------------------------------------
(* The node a read of sector s looks at: the newest one. *)
Newest(m, s, n) == FirstOf(n, Pending(m, s))

ReadOf(n) == IF node[n].type = "W" THEN bmem[node[n].buff] ELSE Blank

(* A read sees the newest node of the sector, and flash if there is none.  *)
NewestReads ==
    \A m \in Mods, s \in Sectors :
        /\ Pending(m, s) = {} => Visible(m, s) = flash[s]
        /\ Pending(m, s) # {} => \E n \in Pending(m, s) : Newest(m, s, n)
        /\ \A n \in Slots : Newest(m, s, n) => Visible(m, s) = ReadOf(n)

LEMMA NewestOne ==
    ASSUME Inv, QueueInv, NEW m \in Mods, NEW s \in Sectors,
           NEW x, NEW y, Newest(m, s, x), Newest(m, s, y)
    PROVE  x = y
BY DEF Newest, FirstOf, Pending, QueueInv, OrderInv

(* A locked node is the oldest of its list. *)
LEMMA LockedLast ==
    ASSUME Inv, QueueInv, NEW m \in Mods, NEW x \in opera[m], NEW y \in opera[m],
           x # y, node[y].lock
    PROVE  y \in behind[x] /\ ~node[x].lock
BY CurFact, SlotFacts
   DEF Inv, SafetyInv, OnlyTailLocked, IsTail, QueueInv, OrderInv, TypeInv, TypeOK

LEMMA TypeEither ==
    ASSUME Inv, NEW m \in Mods, NEW x \in opera[m]
    PROVE  x \in Slots /\ node[x].type \in {"W", "E"} /\ node[x].lock \in BOOLEAN
BY DEF Inv, TypeInv, TypeOK, Node

LEMMA HasNewest ==
    ASSUME Inv, QueueInv, NEW m \in Mods, NEW s \in Sectors, Pending(m, s) # {}
    PROVE  \E n \in Pending(m, s) : Newest(m, s, n)
<1>1. \A x \in Pending(m, s) : x \in opera[m] /\ node[x].addr = s
    BY DEF Pending
<1>2. CASE \E x \in Pending(m, s) : node[x].type = "W" /\ ~node[x].lock
    BY <1>1, <1>2 DEF Newest, FirstOf, QueueInv, StackInv
<1>3. CASE \A x \in Pending(m, s) : node[x].lock
    BY <1>1, <1>3, LockedLast DEF Newest, FirstOf
<1>4. CASE \E x \in Pending(m, s) :
              /\ node[x].type = "E"
              /\ \A y \in Pending(m, s) : node[y].type = "W" => node[y].lock
  <2>1. PICK x \in Pending(m, s) :
              /\ node[x].type = "E"
              /\ \A y \in Pending(m, s) : node[y].type = "W" => node[y].lock
    BY <1>4
  <2>2. \A y \in Pending(m, s) : y # x => node[y].type = "W"
    BY <1>1, <2>1 DEF QueueInv, StackInv
  <2>. QED
    BY <1>1, <2>1, <2>2, LockedLast DEF Newest, FirstOf
<1>. QED
    BY <1>1, <1>2, <1>3, <1>4, TypeEither

LEMMA ReadsFact == Inv /\ QueueInv => NewestReads
<1> SUFFICES ASSUME Inv, QueueInv, NEW m \in Mods, NEW s \in Sectors
             PROVE  /\ Pending(m, s) = {} => Visible(m, s) = flash[s]
                    /\ Pending(m, s) # {} => \E n \in Pending(m, s) : Newest(m, s, n)
                    /\ \A n \in Slots : Newest(m, s, n) => Visible(m, s) = ReadOf(n)
    BY DEF NewestReads
<1>1. Pending(m, s) = {} => Visible(m, s) = flash[s]
    BY DEF Visible
<1>2. ASSUME NEW n \in Slots, Newest(m, s, n) PROVE Visible(m, s) = ReadOf(n)
  <2>1. PICK k : k = CHOOSE x \in Pending(m, s) : FirstOf(x, Pending(m, s))
    OBVIOUS
  <2>2. n \in Pending(m, s) /\ FirstOf(n, Pending(m, s))
    BY <1>2 DEF Newest, FirstOf
  <2>3. k \in Pending(m, s) /\ FirstOf(k, Pending(m, s))
    BY <2>1, <2>2
  <2>4. k = n
    BY <1>2, <2>3, NewestOne DEF Newest
  <2>. QED
    BY <2>1, <2>2, <2>4 DEF Visible, ReadOf
<1>. QED
    BY <1>1, <1>2, HasNewest

LEMMA ReadsFactNext == Inv' /\ QueueInv' => NewestReads'
BY ReadsFact, PTL

(* The reads of a step. *)
ReadsKept ==
    /\ \A m \in Mods : \A s \in Region[m] : Visible(m, s)' = Visible(m, s)
    /\ \A s \in Sectors : (\A m \in Mods : s \notin Region[m]) => flash'[s] = flash[s]

ReadsSet(m, s, c) ==
    /\ s \in Region[m] /\ Visible(m, s)' = c
    /\ \A x \in Mods : \A y \in Region[x] :
          y # s => Visible(x, y)' = Visible(x, y)
    /\ \A y \in Sectors : (\A x \in Mods : y \notin Region[x]) => flash'[y] = flash[y]

LEMMA ViewKept == ASSUME ReadsKept PROVE View' = View
BY DEF View, ReadsKept

LEMMA ViewSet ==
    ASSUME StoreConstants, NEW m \in Mods, NEW s, NEW c, ReadsSet(m, s, c)
    PROVE  /\ View' = [View EXCEPT ![s] = c]
           /\ View[s] = Visible(m, s) /\ s \in Sectors
<1> DEFINE Home(y) == CHOOSE x \in Mods : y \in Region[x]
<1>1. Region[m] \subseteq Sectors /\ s \in Region[m]
    BY NorFlashAssumption DEF ReadsSet, Mods, Sectors
<1>2. \A y \in Sectors : (\E x \in Mods : y \in Region[x]) =>
          Home(y) \in Mods /\ y \in Region[Home(y)]
    OBVIOUS
<1>3. Home(s) = m
    BY <1>1, <1>2 DEF StoreConstants
<1>4. /\ View = [y \in Sectors |-> IF \E x \in Mods : y \in Region[x]
                                   THEN Visible(Home(y), y) ELSE flash[y]]
      /\ View' = [y \in Sectors |-> IF \E x \in Mods : y \in Region[x]
                                   THEN Visible(Home(y), y)' ELSE flash'[y]]
    BY DEF View
<1>. HIDE DEF Home
<1>5. View[s] = Visible(m, s) /\ View'[s] = c
    BY <1>1, <1>3, <1>4 DEF ReadsSet
<1>6. \A y \in Sectors : y # s => View'[y] = View[y]
    BY <1>2, <1>4 DEF ReadsSet
<1>. QED
    BY <1>1, <1>4, <1>5, <1>6

(* A read of a sector whose newest node stays the same. *)
KeepsNewest(m, s) ==
    \/ Pending(m, s) = {} /\ Pending(m, s)' = {} /\ flash'[s] = flash[s]
    \/ \E n \in Slots : Newest(m, s, n) /\ Newest(m, s, n)' /\ ReadOf(n)' = ReadOf(n)

LEMMA KeepsRead ==
    ASSUME NewestReads, NewestReads', NEW m \in Mods, NEW s \in Sectors,
           KeepsNewest(m, s)
    PROVE  Visible(m, s)' = Visible(m, s)
BY DEF KeepsNewest, NewestReads

-----------------------------------------------------------------------------
(* What an operation leaves alone. *)

(* The nodes of sector s of module x, their order, what they read as. *)
Untouched(x, s) ==
    /\ Pending(x, s)' = Pending(x, s)
    /\ \A n \in Pending(x, s) : ReadOf(n)' = ReadOf(n)
    /\ \A n, o \in Pending(x, s) : o \in behind[n] => o \in behind'[n]
    /\ Pending(x, s) = {} => flash'[s] = flash[s]

LEMMA UntouchedReads ==
    ASSUME Inv, NewestReads, NEW x \in Mods, NEW s \in Sectors, Untouched(x, s)
    PROVE  KeepsNewest(x, s)
<1>1. Pending(x, s) \subseteq Slots
    BY DEF Pending, Inv, TypeInv, TypeOK
<1>2. ASSUME NEW n \in Pending(x, s), Newest(x, s, n) PROVE Newest(x, s, n)'
    BY <1>2 DEF Newest, FirstOf, Untouched
<1>. QED
    BY <1>1, <1>2 DEF KeepsNewest, NewestReads, Untouched

(* A node and, of a write, its data. *)
SameNode(n) ==
    /\ node'[n] = node[n]
    /\ node[n].type = "W" => bmem'[node[n].buff] = bmem[node[n].buff]

LEMMA SameRead == ASSUME NEW n, SameNode(n) PROVE ReadOf(n)' = ReadOf(n)
BY DEF SameNode, ReadOf

LEMMA SameFits ==
    ASSUME NEW n, NEW c, SameNode(n), node[n].type = "W", Fits(n, c)
    PROVE  Fits(n, c)'
BY DEF SameNode, Fits, InWindow

(* The nodes of gone are taken out of module m's list and the node of new, *)
(* if any, is put before the others.                                       *)
Surgery(m, gone, new) ==
    /\ gone \subseteq opera[m] /\ new \subseteq Slots \ (used \ gone)
    /\ \A x, y \in new : x = y
    /\ opera' = [opera EXCEPT ![m] = (opera[m] \ gone) \cup new]
    /\ \A y \in new : behind'[y] = opera[m] \ gone
    /\ \A y \in (used \ gone) \ new : behind'[y] = behind[y] \ gone
    /\ \A y \in (used \ gone) \ new : SameNode(y)

(* y is a node of module x that such a change keeps. *)
Stays(x, y, gone) == y \in opera[x] /\ y \notin gone

LEMMA SurgeryFact ==
    ASSUME Inv, NEW m \in Mods, NEW gone, NEW new, Surgery(m, gone, new)
    PROVE  /\ \A x \in Mods : \A y : y \in opera'[x] <=>
                  Stays(x, y, gone) \/ (x = m /\ y \in new)
           /\ \A x \in Mods : \A y : Stays(x, y, gone) =>
                  /\ y \notin new /\ SameNode(y) /\ node'[y] = node[y]
                  /\ behind'[y] = behind[y] \ gone
<1>1. /\ opera'[m] = (opera[m] \ gone) \cup new
      /\ \A x \in Mods : x # m => opera'[x] = opera[x]
    BY DEF Surgery, Inv, TypeInv, TypeOK
<1>2. /\ \A x \in Mods : opera[x] \subseteq used
      /\ \A x \in Mods : x # m => opera[x] \cap gone = {}
    BY DEF Inv, SafetyInv, ListInv, Surgery
<1>. QED
    BY <1>1, <1>2 DEF Stays, Surgery, SameNode

LEMMA SurgeryOrder ==
    ASSUME Inv, QueueInv, NEW m \in Mods, NEW gone, NEW new,
           Surgery(m, gone, new)
    PROVE  OrderInv'
<1> SUFFICES ASSUME NEW x \in Mods, NEW y \in opera'[x], NEW z \in opera'[x], y # z
             PROVE  y \in behind'[z] <=> z \notin behind'[y]
    BY DEF OrderInv
<1>1. CASE Stays(x, y, gone) /\ Stays(x, z, gone)
  <2>1. y \in behind[z] <=> z \notin behind[y]
    BY <1>1 DEF QueueInv, OrderInv, Stays
  <2>. QED
    BY <1>1, <2>1, SurgeryFact DEF Stays
<1>2. ASSUME NEW a, NEW b, a \in new, Stays(m, b, gone)
      PROVE  b \in behind'[a] /\ a \notin behind'[b]
  <2>1. b \in behind'[a]
    BY <1>2 DEF Surgery, Stays
  <2>2. behind[b] \subseteq opera[m] /\ opera[m] \subseteq used
    BY <1>2 DEF Inv, SafetyInv, ListInv, Stays
  <2>3. behind'[b] = behind[b] \ gone
    BY <1>2, SurgeryFact
  <2>. QED
    BY <1>2, <2>1, <2>2, <2>3 DEF Surgery
<1>3. ASSUME NEW a \in opera'[x], NEW b \in opera'[x], a # b, a \in new
      PROVE  b \in behind'[a] /\ a \notin behind'[b]
  <2>1. x = m
    BY <1>3, SurgeryFact
  <2>2. b \notin new
    BY <1>3 DEF Surgery
  <2>3. Stays(m, b, gone)
    BY <1>3, <2>1, <2>2, SurgeryFact
  <2>. QED
    BY <1>2, <1>3, <2>3
<1>4. \A a \in opera'[x] : Stays(x, a, gone) \/ a \in new
    BY SurgeryFact
<1>. QED
    BY <1>1, <1>3, <1>4

(* Sectors without a node of gone or new are left alone. *)
Away(x, s, m, gone, new) ==
    x = m => /\ \A y \in gone : node[y].addr # s
             /\ \A y \in new : node'[y].addr # s

LEMMA SurgeryUntouched ==
    ASSUME Inv, NEW m \in Mods, NEW gone, NEW new, Surgery(m, gone, new),
           NEW x \in Mods, NEW s \in Sectors, Away(x, s, m, gone, new),
           Pending(x, s) = {} => flash'[s] = flash[s]
    PROVE  Untouched(x, s)
<1>1. \A y \in opera[x] : node[y].addr = s => Stays(x, y, gone)
  <2>1. x # m => opera[x] \cap gone = {}
    BY DEF Surgery, Inv, SafetyInv, ListInv
  <2>. QED
    BY <2>1 DEF Stays, Away
<1>2. \A y \in Pending(x, s) : /\ Stays(x, y, gone) /\ SameNode(y)
                               /\ node'[y] = node[y]
                               /\ behind'[y] = behind[y] \ gone
    BY <1>1, SurgeryFact DEF Pending
<1>3. Pending(x, s)' = Pending(x, s)
  <2>1. ASSUME NEW y \in Pending(x, s)' PROVE y \in Pending(x, s)
    <3>1. y \in opera'[x] /\ node'[y].addr = s
        BY DEF Pending
    <3>2. Stays(x, y, gone)
        BY <3>1, SurgeryFact DEF Away
    <3>. QED
        BY <3>1, <3>2, SurgeryFact DEF Pending, Stays
  <2>2. ASSUME NEW y \in Pending(x, s) PROVE y \in Pending(x, s)'
    BY <1>2, SurgeryFact DEF Pending
  <2>. QED
    BY <2>1, <2>2
<1>. QED
    BY <1>2, <1>3, SameRead DEF Untouched, Stays

-----------------------------------------------------------------------------
(* An asynchronous erase of sector s: no slot was free and nothing         *)
(* happens; or what is left of the sector's nodes is what the HAL has      *)
(* begun, an erase which stands for the new one, or a write under it.      *)
Erases(m, s, gone, new) ==
    /\ Surgery(m, gone, new)
    /\ gone \subseteq Pending(m, s) /\ \A y \in gone : ~node[y].lock
    /\ \A y \in new : node'[y] = EraseNode(s, 1)
    /\ \/ gone = {} /\ new = {}
       \/ /\ \A y \in Pending(m, s) \ gone : node[y].lock
          /\ \/ new = {} /\ \E e \in Pending(m, s) \ gone : node[e].type = "E"
             \/ new # {} /\ \A y \in Pending(m, s) \ gone : node[y].type = "W"

LEMMA InsideIsPending ==
    ASSUME Inv, QueueInv, NEW m \in Mods, NEW s \in Sectors
    PROVE  Inside(m, s, 1) = Pending(m, s)
<1>1. ASSUME NEW n \in opera[m]
      PROVE  s <= node[n].addr /\ node[n].addr + node[n].len <= s + 1 <=> node[n].addr = s
  <2>1. node[n].len = 1
    BY DEF QueueInv, NodeInv
  <2>2. node[n].addr \in Nat /\ s \in Nat
    BY TypeEither DEF Inv, TypeInv, TypeOK, Node, Sectors
  <2>. QED
    BY <2>1, <2>2
<1>. QED
    BY <1>1 DEF Inside, Pending

LEMMA EraseSurgery ==
    ASSUME Inv, QueueInv, NEW m \in Mods, NEW s \in Sectors, EOperaAdd(m, s, 1)
    PROVE  \E gone, new : Erases(m, s, gone, new)
<1>1. PICK gone : gone = Merged(m, s, 1)
    OBVIOUS
<1>2. Inside(m, s, 1) = Pending(m, s)
    BY InsideIsPending
<1>3. gone \subseteq Pending(m, s) /\ \A y \in gone : ~node[y].lock
    BY <1>1, <1>2 DEF Merged
<1>4. Pending(m, s) \subseteq opera[m] /\ opera[m] \subseteq used /\ used \subseteq Slots
    BY DEF Pending, Inv, SafetyInv, ListInv, TypeInv, TypeOK
<1>5. ASSUME NEW y \in used \ gone, node[y].type = "W"
      PROVE  bmem'[node[y].buff] = bmem[node[y].buff]
  <2>1. node[y].buff \in Bufs
    BY <1>4, <1>5 DEF Inv, TypeInv, HasBuffer
  <2>2. node[y].buff \notin BuffersOf(gone)
    BY <1>3, <1>4, <1>5, Owned DEF Inv, SafetyInv, BufInv
  <2>. QED
    BY <1>1, <2>1, <2>2 DEF EOperaAdd
<1>6. PICK freed : freed = [n \in Slots |-> IF n \in gone THEN FreeNode ELSE node[n]]
    OBVIOUS
<1>7. \A y \in used \ gone : freed[y] = node[y]
    BY <1>4, <1>6
<1>8. CASE /\ Stopper(m, s, 1) # {} \/ Slots \subseteq used \ gone
           /\ node' = freed
           /\ used' = used \ gone
           /\ opera' = [opera EXCEPT ![m] = opera[m] \ gone]
           /\ behind' = [x \in Slots |-> IF x \in gone THEN {}
                                         ELSE behind[x] \ gone]
  <2>1. Surgery(m, gone, {})
    BY <1>3, <1>4, <1>5, <1>7, <1>8 DEF Surgery, SameNode
  <2>2. CASE Stopper(m, s, 1) # {}
    <3>1. PICK e \in Pending(m, s) : node[e].lock /\ node[e].type = "E"
                                     /\ e \in Stopper(m, s, 1)
        BY <1>2, <2>2 DEF Stopper
    <3>2. e = cur[m] /\ behind[e] = {} /\ e # Null
        BY <1>4, <3>1, CurFact, SlotFacts DEF Inv, SafetyInv, OnlyTailLocked
    <3>3. \A x \in Stopper(m, s, 1) : x = e
        BY <1>2, <1>4, <3>2 DEF Stopper, Inv, SafetyInv, OnlyTailLocked
    <3>4. \A y \in Pending(m, s) \ gone : node[y].lock
        BY <1>1, <1>2, <3>2, <3>3 DEF Merged
    <3>. QED
        BY <1>3, <2>1, <3>1, <3>4 DEF Erases
  <2>3. CASE Slots \subseteq used \ gone
    <3>1. gone = {}
        BY <1>3, <1>4, <2>3
    <3>. QED
        BY <1>3, <2>1, <3>1 DEF Erases
  <2>. QED
    BY <1>8, <2>2, <2>3
<1>9. CASE /\ Stopper(m, s, 1) = {}
           /\ \E n \in Slots :
                 /\ FirstFree(n, Slots, used \ gone)
                 /\ Push(n, m, opera[m] \ gone)
                 /\ node' = [freed EXCEPT ![n] = EraseNode(s, 1)]
  <2>1. PICK n \in Slots :
                 /\ FirstFree(n, Slots, used \ gone)
                 /\ Push(n, m, opera[m] \ gone)
                 /\ node' = [freed EXCEPT ![n] = EraseNode(s, 1)]
    BY <1>9
  <2>2. n \in Slots \ (used \ gone) /\ opera[m] \ (opera[m] \ gone) = gone
    BY <1>3, <1>4, <2>1 DEF FirstFree
  <2>3. /\ node'[n] = EraseNode(s, 1)
        /\ \A y \in used \ gone : y # n /\ node'[y] = node[y]
    BY <1>4, <1>6, <1>7, <2>1, <2>2
  <2>4. Surgery(m, gone, {n})
    BY <1>3, <1>4, <1>5, <2>1, <2>2, <2>3 DEF Surgery, SameNode, Push
  <2>5. \A y \in Pending(m, s) \ gone : node[y].lock /\ node[y].type = "W"
    BY <1>1, <1>2, <1>4, <1>9, TypeEither DEF Merged, Stopper
  <2>. QED
    BY <1>3, <2>3, <2>4, <2>5 DEF Erases
<1>. QED
    BY <1>1, <1>6, <1>8, <1>9 DEF EOperaAdd

LEMMA FitsKept ==
    ASSUME NEW x \in Mods, NEW n, SameNode(n), node[n].type = "W",
           Fits(n, Base(x, n)), Base(x, n)' = Base(x, n)
    PROVE  Fits(n, Base(x, n))'
BY SameFits DEF Fits, SameNode, InWindow

(* No erase of sector s of module x comes or goes. *)
NoErase(x, s, m, gone, new) ==
    x = m => /\ \A y \in gone : node[y].addr = s => node[y].type = "W"
             /\ \A y \in new : node'[y].addr = s => node'[y].type = "W"

LEMMA SurgeryErase ==
    ASSUME Inv, NEW m \in Mods, NEW gone, NEW new, Surgery(m, gone, new),
           NEW x \in Mods, NEW s, NoErase(x, s, m, gone, new)
    PROVE  ErasePending(x, s)' <=> ErasePending(x, s)
<1>1. \A y \in opera[x] : node[y].addr = s /\ node[y].type = "E" => Stays(x, y, gone)
  <2>1. x # m => opera[x] \cap gone = {}
    BY DEF Surgery, Inv, SafetyInv, ListInv
  <2>. QED
    BY <2>1 DEF Stays, NoErase
<1>2. ASSUME ErasePending(x, s) PROVE ErasePending(x, s)'
  <2>1. PICK e \in opera[x] : node[e].addr = s /\ node[e].type = "E"
    BY <1>2 DEF ErasePending
  <2>. QED
    BY <1>1, <2>1, SurgeryFact DEF ErasePending
<1>3. ASSUME ErasePending(x, s)' PROVE ErasePending(x, s)
  <2>1. PICK e \in opera'[x] : node'[e].addr = s /\ node'[e].type = "E"
    BY <1>3 DEF ErasePending
  <2>2. Stays(x, e, gone)
    BY <2>1, SurgeryFact DEF NoErase
  <2>. QED
    BY <2>1, <2>2, SurgeryFact DEF ErasePending, Stays
<1>. QED
    BY <1>2, <1>3

LEMMA EraseNodeFact ==
    ASSUME NEW s \in Sectors
    PROVE  /\ EraseNode(s, 1).addr = s /\ EraseNode(s, 1).len = 1
           /\ EraseNode(s, 1).type = "E" /\ EraseNode(s, 1).lock = FALSE
BY DEF EraseNode, FreeNode

LEMMA EraseQueue ==
    ASSUME Inv, QueueInv, NEW m \in Mods, NEW s \in Sectors, s \in Region[m],
           NEW gone, NEW new, Erases(m, s, gone, new),
           UNCHANGED <<cur, hal, flash>>
    PROVE  QueueInv'
<1>1. /\ Surgery(m, gone, new) /\ gone \subseteq Pending(m, s)
      /\ \A y \in gone : ~node[y].lock
      /\ \A y \in new : node'[y] = EraseNode(s, 1)
    BY DEF Erases
<1>2. HalBase' = HalBase
    BY DEF HalBase
<1>3. \A x \in Mods : \A y \in opera'[x] :
        \/ Stays(x, y, gone) /\ SameNode(y) /\ node'[y] = node[y]
        \/ x = m /\ y \in new /\ node'[y] = EraseNode(s, 1)
    BY <1>1, SurgeryFact
<1>4. NodeInv'
  <2> SUFFICES ASSUME NEW x \in Mods, NEW y \in opera'[x]
               PROVE  /\ node'[y].addr \in Region[x] /\ node'[y].len = 1
                      /\ node'[y].type = "W" =>
                            node'[y].w_offs + node'[y].w_len <= NPage
    BY DEF NodeInv
  <2>1. CASE Stays(x, y, gone) /\ node'[y] = node[y]
    BY <2>1 DEF QueueInv, NodeInv, Stays
  <2>2. CASE x = m /\ node'[y] = EraseNode(s, 1)
    BY <2>2, EraseNodeFact
  <2>. QED
    BY <1>3, <2>1, <2>2
<1>5. OrderInv'
    BY <1>1, SurgeryOrder
<1>6. \A x \in Mods : \A y \in opera[x] :
        node[y].type = "W" /\ ~node[y].lock /\ y \notin gone =>
            (ErasePending(x, node[y].addr)' <=> ErasePending(x, node[y].addr))
  <2> SUFFICES ASSUME NEW x \in Mods, NEW y \in opera[x], node[y].type = "W",
                      ~node[y].lock, y \notin gone
               PROVE  ErasePending(x, node[y].addr)' <=> ErasePending(x, node[y].addr)
    OBVIOUS
  <2>3. PICK a : a = node[y].addr /\ a = node'[y].addr
    BY <1>1, SurgeryFact DEF Stays
  <2>1. CASE x = m /\ a = s
    <3>1. gone = {} /\ new = {}
        BY <2>1, <2>3 DEF Erases, Pending
    <3>2. NoErase(x, a, m, gone, new)
        BY <3>1 DEF NoErase
    <3>3. ErasePending(x, a)' <=> ErasePending(x, a)
        BY <1>1, <3>2, SurgeryErase
    <3>. QED
        BY <2>3, <3>3 DEF ErasePending
  <2>2. CASE ~(x = m /\ a = s)
    <3>1. NoErase(x, a, m, gone, new)
        BY <1>1, <2>2, EraseNodeFact DEF Pending, NoErase
    <3>2. ErasePending(x, a)' <=> ErasePending(x, a)
        BY <1>1, <3>1, SurgeryErase
    <3>. QED
        BY <2>3, <3>2 DEF ErasePending
  <2>. QED
    BY <2>1, <2>2
<1>7. StackInv'
  <2> SUFFICES ASSUME NEW x \in Mods, NEW y \in opera'[x], NEW z \in opera'[x],
                      y # z, node'[y].addr = node'[z].addr
               PROVE  /\ node'[y].type = "E" => node'[z].type = "W"
                      /\ node'[y].type = "W" /\ ~node'[y].lock =>
                            z \in behind'[y] /\ ErasePending(x, node[y].addr)'
    BY DEF StackInv
  <2>1. CASE Stays(x, y, gone) /\ Stays(x, z, gone)
    <3>1. node'[y] = node[y] /\ node'[z] = node[z] /\ behind'[y] = behind[y] \ gone
        BY <2>1, SurgeryFact, <1>1
    <3>2. /\ node[y].type = "E" => node[z].type = "W"
          /\ node[y].type = "W" /\ ~node[y].lock =>
                z \in behind[y] /\ ErasePending(x, node[y].addr)
        BY <2>1, <3>1 DEF QueueInv, StackInv, Stays
    <3>. QED
      <4>1. CASE node[y].type = "W" /\ ~node[y].lock
        <5>1. ErasePending(x, node[y].addr)'
            BY <1>6, <2>1, <3>2, <4>1 DEF Stays
        <5>. QED
            BY <2>1, <3>1, <3>2, <4>1, <5>1 DEF Stays
      <4>. QED
        BY <3>1, <3>2, <4>1
  <2>2. CASE y \in new \/ z \in new
    <3>1. ASSUME NEW a \in opera'[x], NEW b \in opera'[x], a # b, a \in new,
                 node'[a].addr = node'[b].addr
          PROVE  /\ node'[a].type = "E"
                 /\ node'[b].type = "W" /\ node'[b].lock
      <4>1. x = m /\ node'[a] = EraseNode(s, 1) /\ b \notin new
        <5>1. ~Stays(x, a, gone)
            BY <1>1, <3>1, SurgeryFact
        <5>2. b \notin new
            BY <1>1, <3>1 DEF Surgery
        <5>. QED
            BY <1>3, <3>1, <5>1, <5>2
      <4>2. Stays(m, b, gone) /\ node'[b] = node[b]
        BY <1>3, <3>1, <4>1
      <4>3. b \in Pending(m, s) \ gone
        BY <3>1, <4>1, <4>2, EraseNodeFact DEF Pending, Stays
      <4>. QED
        <5>1. node[b].lock /\ node[b].type = "W"
            BY <3>1, <4>3 DEF Erases
        <5>. QED
            BY <4>1, <4>2, <5>1, EraseNodeFact
    <3>2. CASE y \in new
        BY <3>1, <3>2
    <3>3. CASE z \in new
        BY <3>1, <3>3
    <3>. QED
        BY <2>2, <3>2, <3>3
  <2>. QED
    BY <1>3, <2>1, <2>2
<1>8. ContentInv'
  <2> SUFFICES ASSUME NEW x \in Mods, NEW y \in opera'[x], node'[y].type = "W"
               PROVE  Fits(y, Base(x, y))'
    BY DEF ContentInv
  <2>1. Stays(x, y, gone) /\ SameNode(y) /\ node'[y] = node[y]
    BY <1>3, EraseNodeFact
  <2>2. Fits(y, Base(x, y)) /\ node[y].type = "W"
    BY <2>1 DEF Stays, QueueInv, ContentInv
  <2>3. Base(x, y)' = Base(x, y)
    BY <1>2, <1>6, <2>1, <2>2 DEF Base, Stays
  <2>. QED
    BY <2>1, <2>2, <2>3, FitsKept
<1>9. HalAtInv'
  <2> SUFFICES ASSUME NEW x \in Mods, cur[x] # Null
               PROVE  SameNode(cur[x])
    BY <1>2 DEF QueueInv, HalAtInv, SameNode
  <2>1. cur[x] \in opera[x] /\ node[cur[x]].lock
    BY CurFact
  <2>. QED
    BY <1>1, <2>1, SurgeryFact DEF Stays
<1>. QED
    BY <1>4, <1>5, <1>7, <1>8, <1>9 DEF QueueInv

(* What a change of module m's list at sector s does to the reads. *)
AtSector(s, gone, new) ==
    /\ \A y \in gone : node[y].addr = s
    /\ \A y \in new : node'[y].addr = s
    /\ \A y \in Sectors : y # s => flash'[y] = flash[y]

(* Nothing is read differently but in sector s. *)
OnlySector(s) ==
    /\ \A x \in Mods : \A y \in Region[x] : y # s => Untouched(x, y)
    /\ \A y \in Sectors : y # s => flash'[y] = flash[y]

LEMMA SectorReads ==
    ASSUME Inv, Inv', QueueInv, QueueInv', StoreConstants,
           NEW m \in Mods, NEW s, s \in Region[m], OnlySector(s)
    PROVE  /\ Visible(m, s)' = Visible(m, s) => ReadsKept
           /\ \A c : Visible(m, s)' = c => ReadsSet(m, s, c)
<1>1. NewestReads /\ NewestReads'
    BY ReadsFact, ReadsFactNext
<1>2. \A x \in Mods : Region[x] \subseteq Sectors
    BY NorFlashAssumption DEF Mods, Sectors
<1>3. ASSUME NEW x \in Mods, NEW y \in Region[x], y # s
      PROVE  Visible(x, y)' = Visible(x, y)
  <2>1. Untouched(x, y) /\ y \in Sectors
    BY <1>2, <1>3 DEF OnlySector
  <2>. QED
    BY <1>1, <2>1, UntouchedReads, KeepsRead
<1>4. \A y \in Sectors : (\A x \in Mods : y \notin Region[x]) => flash'[y] = flash[y]
    BY DEF OnlySector
<1>5. \A x \in Mods : s \in Region[x] => x = m
    BY DEF StoreConstants
<1>6. ASSUME Visible(m, s)' = Visible(m, s) PROVE ReadsKept
  <2>1. ASSUME NEW x \in Mods, NEW y \in Region[x]
        PROVE  Visible(x, y)' = Visible(x, y)
    <3>1. CASE y = s
      <4>1. x = m
        BY <1>5, <3>1
      <4>. QED
        BY <1>6, <3>1, <4>1
    <3>. QED
        BY <1>3, <3>1
  <2>. QED
    BY <1>4, <2>1 DEF ReadsKept
<1>7. ASSUME NEW c, Visible(m, s)' = c PROVE ReadsSet(m, s, c)
    BY <1>3, <1>4, <1>7 DEF ReadsSet
<1>. QED
    BY <1>6, <1>7

LEMMA SurgeryReads ==
    ASSUME Inv, Inv', QueueInv, QueueInv', StoreConstants,
           NEW m \in Mods, NEW s, s \in Region[m],
           NEW gone, NEW new, Surgery(m, gone, new), AtSector(s, gone, new)
    PROVE  /\ Visible(m, s)' = Visible(m, s) => ReadsKept
           /\ \A c : Visible(m, s)' = c => ReadsSet(m, s, c)
<1>1. ASSUME NEW x \in Mods, NEW y \in Region[x], y # s
      PROVE  Untouched(x, y)
  <2>1. y \in Sectors
    BY NorFlashAssumption DEF Mods, Sectors
  <2>2. Away(x, y, m, gone, new) /\ flash'[y] = flash[y]
    BY <1>1, <2>1 DEF Away, AtSector
  <2>. QED
    BY <2>1, <2>2, SurgeryUntouched
<1>2. OnlySector(s)
    BY <1>1 DEF OnlySector, AtSector
<1>. QED
    BY <1>2, SectorReads

LEMMA EraseReads ==
    ASSUME Inv, Inv', QueueInv, QueueInv', StoreConstants,
           NEW m \in Mods, NEW s \in Sectors, s \in Region[m],
           NEW gone, NEW new, Erases(m, s, gone, new), UNCHANGED flash
    PROVE  ReadsKept \/ ReadsSet(m, s, Blank)
<1>1. /\ Surgery(m, gone, new) /\ gone \subseteq Pending(m, s)
      /\ \A y \in new : node'[y] = EraseNode(s, 1)
    BY DEF Erases
<1>2. AtSector(s, gone, new)
    BY <1>1, EraseNodeFact DEF AtSector, Pending
<1>3. NewestReads /\ NewestReads'
    BY ReadsFact, ReadsFactNext
<1>4. CASE gone = {} /\ new = {}
  <2>1. Away(m, s, m, gone, new)
    BY <1>4 DEF Away
  <2>2. Untouched(m, s)
    BY <1>1, <2>1, SurgeryUntouched
  <2>. QED
    BY <1>1, <1>2, <1>3, <2>2, UntouchedReads, KeepsRead, SurgeryReads
<1>5. CASE ~(gone = {} /\ new = {})
  <2>1. \A y \in opera'[m] : node'[y].addr = s =>
          \/ y \in Pending(m, s) \ gone /\ node[y].lock /\ node'[y] = node[y]
             /\ Stays(m, y, gone)
          \/ y \in new
    BY <1>1, <1>5, SurgeryFact DEF Erases, Pending, Stays
  <2>2. \E e \in opera'[m] :
          /\ node'[e].addr = s /\ node'[e].type = "E"
          /\ \A y \in opera'[m] : y # e /\ node'[y].addr = s => e \notin behind'[y]
    <3>1. CASE new = {}
      <4>1. PICK e \in Pending(m, s) \ gone : node[e].type = "E"
        BY <1>5, <3>1 DEF Erases
      <4>2. Stays(m, e, gone) /\ e \in opera[m]
        BY <4>1 DEF Stays, Pending
      <4>3. e \in opera'[m] /\ node'[e] = node[e] /\ node[e].addr = s
        BY <1>1, <4>1, <4>2, SurgeryFact DEF Pending
      <4>4. \A y \in opera'[m] : node'[y].addr = s => y = e
        <5>1. node[e].lock
            BY <1>5, <4>1 DEF Erases
        <5>. QED
            BY <2>1, <3>1, <4>2, <5>1, LockedLast DEF Stays
      <4>. QED
        BY <4>1, <4>3, <4>4
    <3>2. CASE new # {}
      <4>1. PICK e \in new : node'[e] = EraseNode(s, 1)
        BY <1>1, <3>2
      <4>2. e \in opera'[m] /\ node'[e].addr = s /\ node'[e].type = "E"
        <5>1. e \in opera'[m]
            BY <1>1, <4>1, SurgeryFact
        <5>. QED
            BY <4>1, <5>1, EraseNodeFact
      <4>3. ASSUME NEW y \in opera'[m], y # e, node'[y].addr = s
            PROVE  e \notin behind'[y]
        <5>1. y \in opera[m] \ gone
            BY <1>1, <2>1, <4>1, <4>3 DEF Surgery, Stays
        <5>2. y \in behind'[e]
            BY <1>1, <5>1 DEF Surgery
        <5>. QED
            BY <4>2, <4>3, <5>2 DEF QueueInv, OrderInv
      <4>. QED
        BY <4>2, <4>3
    <3>. QED
        BY <3>1, <3>2
  <2>3. PICK e \in opera'[m] :
          /\ node'[e].addr = s /\ node'[e].type = "E"
          /\ \A y \in opera'[m] : y # e /\ node'[y].addr = s => e \notin behind'[y]
    BY <2>2
  <2>4. e \in Pending(m, s)'
    BY <2>3 DEF Pending
  <2>5. PICK n \in Pending(m, s)' : Newest(m, s, n)'
    BY <1>3, <2>4 DEF NewestReads
  <2>6. n = e
    BY <2>3, <2>4, <2>5 DEF Newest, FirstOf, Pending
  <2>7. e \in Slots
    BY <2>3 DEF Inv, TypeInv, TypeOK
  <2>8. Visible(m, s)' = ReadOf(e)'
    BY <1>3, <2>5, <2>6, <2>7 DEF NewestReads
  <2>9. Visible(m, s)' = Blank
    BY <2>3, <2>8 DEF ReadOf
  <2>. QED
    BY <1>1, <1>2, <2>9, SurgeryReads
<1>. QED
    BY <1>4, <1>5

-----------------------------------------------------------------------------
(* Queueing a write. *)

(* Only the sector of a suspended write differs from flash. *)
LEMMA HalElsewhere ==
    ASSUME Inv, QueueInv, StoreConstants, NEW m \in Mods, NEW s, s \in Region[m],
           \A y \in Pending(m, s) : ~node[y].lock
    PROVE  HalBase[s] = flash[s]
<1>1. s \in Sectors
    BY NorFlashAssumption DEF Mods, Sectors
<1>2. CASE hal.kind = "prog"
  <2>1. PICK x \in Mods : cur[x] # Null
    BY <1>2 DEF Inv, SafetyInv, HalInv
  <2>2. hal.sec = node[cur[x]].addr /\ cur[x] \in opera[x] /\ node[cur[x]].lock
    BY <2>1, CurFact DEF QueueInv, HalAtInv
  <2>3. hal.sec \in Region[x]
    BY <2>2 DEF QueueInv, NodeInv
  <2>4. hal.sec # s
    BY <2>2, <2>3 DEF StoreConstants, Pending
  <2>. QED
    BY <1>1, <1>2, <2>4 DEF HalBase, Inv, TypeInv, TypeOK, Memory
<1>3. CASE hal.kind # "prog"
    BY <1>3 DEF HalBase
<1>. QED
    BY <1>2, <1>3

(* The buffer of a new write is filled with what the sector reads as. *)
NewCase(m, s, base) ==
    \/ Pending(m, s) = {} /\ base = flash[s]
    \/ /\ base = Blank
       /\ \E e \in Pending(m, s) : node[e].type = "E"
       /\ \A y \in Pending(m, s) : node[y].type = "W" => node[y].lock

LEMMA NewCaseReads ==
    ASSUME Inv, QueueInv, NEW m \in Mods, NEW s \in Sectors, NEW base,
           NewCase(m, s, base)
    PROVE  Visible(m, s) = base
<1>1. NewestReads
    BY ReadsFact
<1>2. CASE Pending(m, s) = {} /\ base = flash[s]
    BY <1>1, <1>2 DEF NewestReads
<1>3. CASE /\ base = Blank
           /\ \E e \in Pending(m, s) : node[e].type = "E"
           /\ \A y \in Pending(m, s) : node[y].type = "W" => node[y].lock
  <2>1. PICK e \in Pending(m, s) : node[e].type = "E"
    BY <1>3
  <2>2. PICK n \in Pending(m, s) : Newest(m, s, n)
    BY <1>1, <2>1 DEF NewestReads
  <2>3. Visible(m, s) = ReadOf(n)
    BY <1>1, <2>2, TypeEither DEF NewestReads, Pending
  <2>4. node[n].type # "W"
    <3>1. SUFFICES ASSUME node[n].type = "W" PROVE FALSE
        OBVIOUS
    <3>2. node[n].lock /\ n # e /\ n \in opera[m] /\ e \in opera[m]
        BY <1>3, <2>1, <2>2, <3>1 DEF Pending
    <3>3. n \in behind[e] /\ e \in behind[n]
        BY <2>1, <2>2, <3>2, LockedLast DEF Newest, FirstOf
    <3>. QED
        BY <3>2, <3>3 DEF QueueInv, OrderInv
  <2>. QED
    BY <1>3, <2>3, <2>4 DEF ReadOf
<1>. QED
    BY <1>2, <1>3 DEF NewCase

NewNode(s, a, n, b) ==
    [type |-> "W", addr |-> s, len |-> 1, w_offs |-> a, w_len |-> n,
     buff |-> b, lock |-> FALSE]

(* A write node x with buffer b, which nobody had, is put at the head. *)
Writes(m, s, a, n, v, base, x, b) ==
    /\ Surgery(m, {}, {x}) /\ x \in Slots /\ x \notin used
    /\ node'[x] = NewNode(s, a, n, b)
    /\ bmem'[b] = CopyPages(base, a, a + n, v)

LEMMA NewSurgery ==
    ASSUME Inv, NEW m \in Mods, NEW s \in Sectors, NEW a, NEW n, NEW v,
           NEW base, WNew(m, s, a, n, v, base)
    PROVE  \E x, b : Writes(m, s, a, n, v, base, x, b)
<1>1. PICK x \in Slots, b \in Bufs :
        /\ FirstFree(x, Slots, used)
        /\ FirstFree(b, Bufs, bused)
        /\ Push(x, m, opera[m])
        /\ bmem' = [bmem EXCEPT ![b] = CopyPages(base, a, a + n, v)]
        /\ node' = [node EXCEPT ![x] = NewNode(s, a, n, b)]
    BY DEF WNew, NewNode
<1>2. /\ node \in [Slots -> Node] /\ bmem \in [Bufs -> Content]
      /\ behind \in [Slots -> SUBSET Slots]
      /\ used \subseteq Slots
      /\ x \notin used /\ b \notin bused
    BY <1>1 DEF Inv, TypeInv, TypeOK, FirstFree
<1>3. /\ node'[x] = NewNode(s, a, n, b)
      /\ \A y \in Slots \ {x} : node'[y] = node[y]
      /\ bmem'[b] = CopyPages(base, a, a + n, v)
      /\ \A c \in Bufs \ {b} : bmem'[c] = bmem[c]
    BY <1>1, <1>2
<1>4. ASSUME NEW y \in (used \ {}) \ {x} PROVE SameNode(y)
  <2>1. node[y].type = "W" => node[y].buff \in Bufs \ {b}
    BY <1>2 DEF Inv, TypeInv, HasBuffer, SafetyInv, BufInv
  <2>. QED
    BY <1>2, <1>3, <2>1 DEF SameNode
<1>5. Surgery(m, {}, {x})
  <2>1. /\ opera' = [opera EXCEPT ![m] = (opera[m] \ {}) \cup {x}]
        /\ \A y \in {x} : behind'[y] = opera[m] \ {}
        /\ \A y \in (used \ {}) \ {x} : behind'[y] = behind[y] \ {}
    BY <1>1, <1>2 DEF Push
  <2>. QED
    BY <1>2, <1>4, <2>1 DEF Surgery
<1>. QED
    BY <1>2, <1>3, <1>5 DEF Writes

(* The new data over what the sector holds, or will once it is erased. *)
LEMMA FreshFits ==
    ASSUME NEW x, NEW b, NEW a \in Nat, NEW n \in Nat, NEW v, NEW base, NEW s,
           node'[x] = NewNode(s, a, n, b),
           bmem'[b] = CopyPages(base, a, a + n, v),
           \A p \in a .. a + n - 1 : base[p] = Erased
    PROVE  Fits(x, base)'
<1> SUFFICES ASSUME NEW p \in Pages
             PROVE  IF node'[x].w_offs <= p /\ p < node'[x].w_offs + node'[x].w_len
                    THEN base[p] \in {Erased, bmem'[node'[x].buff][p]}
                    ELSE base[p] = bmem'[node'[x].buff][p]
    BY DEF Fits, InWindow
<1>1. p \in Nat
    BY DEF Pages
<1>2. /\ node'[x].w_offs = a /\ node'[x].w_len = n /\ node'[x].buff = b
    BY DEF NewNode
<1>3. bmem'[b][p] = IF a <= p /\ p < a + n THEN v ELSE base[p]
    BY DEF CopyPages
<1>4. a <= p /\ p < a + n => base[p] = Erased
    BY <1>1
<1>. QED
    BY <1>2, <1>3, <1>4

LEMMA NewQueue ==
    ASSUME Inv, QueueInv, StoreConstants, NEW m \in Mods, NEW s \in Sectors,
           s \in Region[m], NEW a \in Nat, NEW n \in Nat, NEW v,
           InSector(a, n), NEW base, NEW x, NEW b,
           \A p \in a .. a + n - 1 : base[p] = Erased,
           NewCase(m, s, base), Writes(m, s, a, n, v, base, x, b),
           UNCHANGED <<cur, hal, flash>>
    PROVE  QueueInv'
<1>1. /\ Surgery(m, {}, {x}) /\ x \in Slots /\ x \notin used
      /\ node'[x] = NewNode(s, a, n, b)
      /\ bmem'[b] = CopyPages(base, a, a + n, v)
    BY DEF Writes
<1>2. HalBase' = HalBase
    BY DEF HalBase
<1>3. /\ \A z \in Mods : \A y \in opera'[z] :
            \/ y \in opera[z] /\ y # x
            \/ z = m /\ y = x
      /\ \A z \in Mods : \A y \in opera[z] :
            /\ y # x /\ y \in opera'[z] /\ SameNode(y) /\ node'[y] = node[y]
            /\ behind'[y] = behind[y]
  <2>0. PICK gone, new : gone = {} /\ new = {x}
    OBVIOUS
  <2>1. \A z \in Mods : \A y : Stays(z, y, gone) <=> y \in opera[z]
    BY <2>0 DEF Stays
  <2>2. /\ \A z \in Mods : \A y : y \in opera'[z] <=>
                  Stays(z, y, gone) \/ (z = m /\ y \in new)
        /\ \A z \in Mods : \A y : Stays(z, y, gone) =>
                  /\ y \notin new /\ SameNode(y) /\ node'[y] = node[y]
                  /\ behind'[y] = behind[y] \ gone
    <3>1. Surgery(m, gone, new)
        BY <1>1, <2>0
    <3>. QED
        BY <3>1, SurgeryFact
  <2>3. \A y : behind[y] \ gone = behind[y]
    BY <2>0
  <2>. QED
    BY <2>0, <2>1, <2>2, <2>3
<1>4. /\ node'[x].type = "W" /\ node'[x].addr = s /\ node'[x].len = 1
      /\ node'[x].lock = FALSE /\ node'[x].buff = b
      /\ node'[x].w_offs = a /\ node'[x].w_len = n
    BY <1>1 DEF NewNode
<1>5. NodeInv'
  <2> SUFFICES ASSUME NEW z \in Mods, NEW y \in opera'[z]
               PROVE  /\ node'[y].addr \in Region[z] /\ node'[y].len = 1
                      /\ node'[y].type = "W" =>
                            node'[y].w_offs + node'[y].w_len <= NPage
    BY DEF NodeInv
  <2>1. CASE y \in opera[z]
    BY <1>3, <2>1 DEF QueueInv, NodeInv
  <2>2. CASE z = m /\ y = x
    BY <1>4, <2>2 DEF InSector
  <2>. QED
    BY <1>3, <2>1, <2>2
<1>6. OrderInv'
    BY <1>1, SurgeryOrder
<1>7. ASSUME NEW z \in Mods, NEW c
      PROVE  ErasePending(z, c)' <=> ErasePending(z, c)
  <2>1. NoErase(z, c, m, {}, {x})
    BY <1>4 DEF NoErase
  <2>. QED
    BY <1>1, <2>1, SurgeryErase
<1>8. StackInv'
  <2> SUFFICES ASSUME NEW z \in Mods, NEW y \in opera'[z], NEW k \in opera'[z],
                      y # k, node'[y].addr = node'[k].addr
               PROVE  /\ node'[y].type = "E" => node'[k].type = "W"
                      /\ node'[y].type = "W" /\ ~node'[y].lock =>
                            k \in behind'[y] /\ ErasePending(z, node[y].addr)'
    BY DEF StackInv
  <2>0. PICK c : c = node'[y].addr
    OBVIOUS
  <2>1. ErasePending(z, node[y].addr)' <=> ErasePending(z, c)
    BY <1>7, <2>0 DEF ErasePending
  <2>2. CASE y \in opera[z] /\ k \in opera[z]
    <3>1. node'[y] = node[y] /\ node'[k] = node[k] /\ behind'[y] = behind[y]
        BY <1>3, <2>2
    <3>. QED
        BY <2>0, <2>1, <2>2, <3>1 DEF QueueInv, StackInv
  <2>3. CASE z = m /\ y = x /\ k \in opera[z]
    <3>1. k \in Pending(m, s)
        BY <1>3, <1>4, <2>3 DEF Pending
    <3>2. k \in behind'[x]
        BY <1>1, <2>3 DEF Surgery
    <3>3. ErasePending(m, s)
        BY <3>1 DEF NewCase, ErasePending, Pending
    <3>. QED
        BY <1>4, <2>0, <2>1, <2>3, <3>2, <3>3
  <2>4. CASE z = m /\ k = x /\ y \in opera[z]
    <3>1. y \in Pending(m, s) /\ node'[y] = node[y]
        BY <1>3, <1>4, <2>4 DEF Pending
    <3>2. node[y].type = "W" => node[y].lock
        BY <3>1 DEF NewCase
    <3>. QED
        BY <1>4, <2>4, <3>1, <3>2
  <2>. QED
    BY <1>3, <2>2, <2>3, <2>4
<1>9. ContentInv'
  <2> SUFFICES ASSUME NEW z \in Mods, NEW y \in opera'[z], node'[y].type = "W"
               PROVE  Fits(y, Base(z, y))'
    BY DEF ContentInv
  <2>1. CASE y \in opera[z]
    <3>1. SameNode(y) /\ node'[y] = node[y]
        BY <1>3, <2>1
    <3>2. Fits(y, Base(z, y)) /\ node[y].type = "W"
        BY <2>1, <3>1 DEF QueueInv, ContentInv
    <3>3. Base(z, y)' = Base(z, y)
      <4>1. PICK c : c = node[y].addr
        OBVIOUS
      <4>2. ErasePending(z, node[y].addr)' <=> ErasePending(z, node[y].addr)
        BY <1>7, <3>1, <4>1 DEF ErasePending
      <4>. QED
        BY <1>2, <3>1, <4>2 DEF Base
    <3>. QED
        BY <3>1, <3>2, <3>3, FitsKept
  <2>2. CASE z = m /\ y = x
    <3>1. Fits(x, base)'
        BY <1>1, FreshFits
    <3>2. Base(m, x)' = base
      <4>1. ErasePending(m, node[x].addr)' <=> ErasePending(m, s)
        BY <1>4, <1>7 DEF ErasePending
      <4>2. CASE ErasePending(m, s)
        <5>1. base = Blank
            BY <4>2 DEF NewCase, ErasePending, Pending
        <5>. QED
            BY <1>4, <4>1, <4>2, <5>1 DEF Base, Blank
      <4>3. CASE ~ErasePending(m, s)
        <5>1. Pending(m, s) = {} /\ base = flash[s]
            BY <4>3 DEF NewCase, ErasePending, Pending
        <5>2. HalBase[s] = flash[s]
            BY <5>1, HalElsewhere
        <5>. QED
            BY <1>2, <1>4, <4>1, <4>3, <5>1, <5>2 DEF Base
      <4>. QED
        BY <4>2, <4>3
    <3>. QED
        BY <2>2, <3>1, <3>2 DEF Fits
  <2>. QED
    BY <1>3, <2>1, <2>2
<1>10. HalAtInv'
  <2> SUFFICES ASSUME NEW z \in Mods, cur[z] # Null
               PROVE  SameNode(cur[z])
    BY <1>2 DEF QueueInv, HalAtInv, SameNode
  <2>. QED
    BY <1>3, CurFact
<1>. QED
    BY <1>5, <1>6, <1>8, <1>9, <1>10 DEF QueueInv

LEMMA NewReads ==
    ASSUME Inv, Inv', QueueInv, QueueInv', StoreConstants, NEW m \in Mods,
           NEW s \in Sectors, s \in Region[m], NEW a, NEW n, NEW v, NEW base,
           NEW x, NEW b, Writes(m, s, a, n, v, base, x, b), UNCHANGED flash
    PROVE  ReadsSet(m, s, CopyPages(base, a, a + n, v))
<1>1. /\ Surgery(m, {}, {x}) /\ x \in Slots
      /\ node'[x] = NewNode(s, a, n, b)
      /\ bmem'[b] = CopyPages(base, a, a + n, v)
    BY DEF Writes
<1>2. /\ node'[x].type = "W" /\ node'[x].addr = s /\ node'[x].buff = b
    BY <1>1 DEF NewNode
<1>3. AtSector(s, {}, {x})
    BY <1>2 DEF AtSector
<1>4. Newest(m, s, x)'
  <2>1. \A y \in opera'[m] : y # x => y \in opera[m]
    BY <1>1, SurgeryFact DEF Stays
  <2>2. x \in opera'[m]
    BY <1>1, SurgeryFact
  <2>3. behind'[x] = opera[m] \ {}
    BY <1>1 DEF Surgery
  <2>. QED
    BY <1>2, <2>1, <2>2, <2>3 DEF Newest, FirstOf, Pending
<1>5. NewestReads'
    BY ReadsFactNext
<1>6. Visible(m, s)' = ReadOf(x)'
    BY <1>1, <1>4, <1>5 DEF NewestReads
<1>7. Visible(m, s)' = CopyPages(base, a, a + n, v)
    BY <1>1, <1>2, <1>6 DEF ReadOf
<1>. QED
    BY <1>1, <1>3, <1>7, SurgeryReads

(* Data is merged into the unlocked write x, the newest node of sector s.  *)
Merges(m, s, a, n, v, x) ==
    /\ x \in Pending(m, s) /\ node[x].type = "W" /\ ~node[x].lock
    /\ WMerge(x, a, n, v)

LEMMA MergeEffect ==
    ASSUME Inv, QueueInv, NEW m \in Mods, NEW s \in Sectors, NEW a \in Nat,
           NEW n \in Nat, NEW v, NEW x, Merges(m, s, a, n, v, x), InSector(a, n)
    PROVE  /\ UNCHANGED <<opera, behind>>
           /\ x \in opera[m] /\ node[x].addr = s
           /\ \A z \in Mods : \A y \in opera[z] :
                 /\ y # x => SameNode(y)
                 /\ node'[y].type = node[y].type /\ node'[y].addr = node[y].addr
                 /\ node'[y].len = node[y].len /\ node'[y].lock = node[y].lock
           /\ \A p \in Pages : InWindow(x, p) \/ (a <= p /\ p < a + n) => InWindow(x, p)'
           /\ node'[x].w_offs + node'[x].w_len <= NPage
           /\ ReadOf(x)' = CopyPages(ReadOf(x), a, a + n, v)
           /\ node'[x].buff = node[x].buff
<1> DEFINE nd == node[x]
           start == IF nd.w_offs <= a THEN nd.w_offs ELSE a
           stop == IF nd.w_offs + nd.w_len >= a + n THEN nd.w_offs + nd.w_len
                   ELSE a + n
<1>1. /\ x \in opera[m] /\ node[x].addr = s /\ x \in used /\ x \in Slots
      /\ node[x].type = "W" /\ ~node[x].lock
      /\ \A z \in Mods : opera[z] \subseteq used
      /\ node \in [Slots -> Node] /\ bmem \in [Bufs -> Content] /\ used \subseteq Slots
    BY DEF Merges, Pending, Inv, SafetyInv, ListInv, TypeInv, TypeOK
<1>2. /\ bmem' = [bmem EXCEPT ![node[x].buff] = CopyPages(bmem[node[x].buff], a, a + n, v)]
      /\ node' = [node EXCEPT ![x].w_offs = start, ![x].w_len = stop - start]
      /\ UNCHANGED <<opera, behind>>
    BY DEF Merges, WMerge
<1>3. nd \in Node /\ nd.w_offs \in Nat /\ nd.w_len \in Nat /\ nd.w_offs + nd.w_len <= NPage
    BY <1>1 DEF Node, QueueInv, NodeInv
<1>4. /\ start \in Nat /\ stop \in Nat /\ start <= stop /\ stop <= NPage
      /\ start + (stop - start) = stop
      /\ start <= a /\ start <= nd.w_offs /\ a + n <= stop /\ nd.w_offs + nd.w_len <= stop
    BY <1>3, MemoryAssumption DEF InSector
<1>. HIDE DEF start, stop
<1>5. /\ node'[x].w_offs = start /\ node'[x].w_len = stop - start
      /\ node'[x].type = nd.type /\ node'[x].addr = nd.addr /\ node'[x].len = nd.len
      /\ node'[x].lock = nd.lock /\ node'[x].buff = nd.buff
      /\ \A y \in Slots : y # x => node'[y] = node[y]
    BY <1>1, <1>2, <1>3 DEF Node
<1>6. ASSUME NEW z \in Mods, NEW y \in opera[z], y # x PROVE SameNode(y)
  <2>1. y \in Slots /\ y \in used
    BY <1>1
  <2>2. node[y].type = "W" => node[y].buff # node[x].buff
    BY <1>1, <1>6, <2>1 DEF Inv, SafetyInv, BufInv
  <2>. QED
    BY <1>1, <1>2, <1>5, <1>6, <2>1, <2>2 DEF SameNode, Inv, TypeInv, HasBuffer
<1>7. ASSUME NEW z \in Mods, NEW y \in opera[z]
      PROVE  /\ node'[y].type = node[y].type /\ node'[y].addr = node[y].addr
             /\ node'[y].len = node[y].len /\ node'[y].lock = node[y].lock
    BY <1>5, <1>6 DEF SameNode
<1>8. ASSUME NEW p \in Pages, InWindow(x, p) \/ (a <= p /\ p < a + n)
      PROVE  InWindow(x, p)'
  <2>1. p \in Nat
    BY DEF Pages
  <2>2. (nd.w_offs <= p /\ p < nd.w_offs + nd.w_len) \/ (a <= p /\ p < a + n)
    BY <1>8 DEF InWindow
  <2>3. start <= p /\ p < stop
    BY <1>3, <1>4, <2>1, <2>2
  <2>. QED
    BY <1>4, <1>5, <2>3 DEF InWindow
<1>9. ReadOf(x)' = CopyPages(ReadOf(x), a, a + n, v)
  <2>1. node[x].buff \in Bufs
    BY <1>1 DEF Inv, TypeInv, HasBuffer
  <2>2. bmem'[node[x].buff] = CopyPages(bmem[node[x].buff], a, a + n, v)
    BY <1>1, <1>2, <2>1
  <2>. QED
    BY <1>1, <1>5, <2>2 DEF ReadOf
<1>. QED
    BY <1>1, <1>2, <1>4, <1>5, <1>6, <1>7, <1>8, <1>9

LEMMA MergeNewest ==
    ASSUME Inv, QueueInv, NEW m \in Mods, NEW s \in Sectors, NEW x \in Pending(m, s),
           node[x].type = "W", ~node[x].lock
    PROVE  Newest(m, s, x) /\ Visible(m, s) = bmem[node[x].buff]
<1>1. Newest(m, s, x)
    BY DEF Newest, FirstOf, Pending, QueueInv, StackInv
<1>2. x \in Slots /\ NewestReads
    BY ReadsFact, TypeEither DEF Pending
<1>. QED
    BY <1>1, <1>2 DEF NewestReads, ReadOf

LEMMA MergeQueue ==
    ASSUME Inv, QueueInv, NEW m \in Mods, NEW s \in Sectors, NEW a \in Nat,
           NEW n \in Nat, NEW v, NEW x, Merges(m, s, a, n, v, x), InSector(a, n),
           \A p \in a .. a + n - 1 : bmem[node[x].buff][p] = Erased,
           UNCHANGED <<cur, hal, flash>>
    PROVE  QueueInv'
<1>1. /\ UNCHANGED <<opera, behind>>
      /\ x \in opera[m] /\ node[x].addr = s
      /\ \A z \in Mods : \A y \in opera[z] :
            /\ y # x => SameNode(y)
            /\ node'[y].type = node[y].type /\ node'[y].addr = node[y].addr
            /\ node'[y].len = node[y].len /\ node'[y].lock = node[y].lock
      /\ \A p \in Pages : InWindow(x, p) \/ (a <= p /\ p < a + n) => InWindow(x, p)'
      /\ node'[x].w_offs + node'[x].w_len <= NPage
      /\ ReadOf(x)' = CopyPages(ReadOf(x), a, a + n, v)
      /\ node'[x].buff = node[x].buff
    BY MergeEffect
<1>2. HalBase' = HalBase
    BY DEF HalBase
<1>3. NodeInv'
    BY <1>1 DEF QueueInv, NodeInv, SameNode
<1>4. OrderInv'
    BY <1>1 DEF QueueInv, OrderInv
<1>5. ASSUME NEW z \in Mods, NEW c PROVE ErasePending(z, c)' <=> ErasePending(z, c)
    BY <1>1 DEF ErasePending
<1>6. StackInv'
  <2> SUFFICES ASSUME NEW z \in Mods, NEW y \in opera[z], NEW k \in opera[z],
                      y # k, node'[y].addr = node'[k].addr
               PROVE  /\ node'[y].type = "E" => node'[k].type = "W"
                      /\ node'[y].type = "W" /\ ~node'[y].lock =>
                            k \in behind'[y] /\ ErasePending(z, node[y].addr)'
    BY <1>1 DEF StackInv
  <2>1. PICK c : c = node[y].addr
    OBVIOUS
  <2>2. ErasePending(z, node[y].addr)' <=> ErasePending(z, node[y].addr)
    BY <1>1, <1>5, <2>1 DEF ErasePending
  <2>. QED
    BY <1>1, <2>2 DEF QueueInv, StackInv
<1>7. ASSUME NEW z \in Mods, NEW y \in opera[z]
      PROVE  Base(z, y)' = Base(z, y)
  <2>1. PICK c : c = node[y].addr
    OBVIOUS
  <2>2. ErasePending(z, node[y].addr)' <=> ErasePending(z, node[y].addr)
    BY <1>1, <1>5, <2>1 DEF ErasePending
  <2>. QED
    BY <1>1, <1>2, <2>2 DEF Base
<1>8. ContentInv'
  <2> SUFFICES ASSUME NEW z \in Mods, NEW y \in opera[z], node[y].type = "W"
               PROVE  Fits(y, Base(z, y))'
    BY <1>1 DEF ContentInv
  <2>1. Fits(y, Base(z, y)) /\ Base(z, y)' = Base(z, y)
    BY <1>7 DEF QueueInv, ContentInv
  <2>2. CASE y # x
    BY <1>1, <2>1, <2>2, FitsKept
  <2>3. CASE y = x
    <3>0. PICK c : c = Base(z, y) /\ c = Base(z, y)'
        BY <2>1
    <3>1. SUFFICES ASSUME NEW p \in Pages
                   PROVE  IF InWindow(x, p)' THEN c[p] \in {Erased, bmem'[node'[x].buff][p]}
                          ELSE c[p] = bmem'[node'[x].buff][p]
        BY <2>3, <3>0 DEF Fits
    <3>2. IF InWindow(x, p) THEN c[p] \in {Erased, bmem[node[x].buff][p]}
          ELSE c[p] = bmem[node[x].buff][p]
        BY <2>1, <2>3, <3>0 DEF Fits
    <3>3. bmem'[node'[x].buff][p] = IF a <= p /\ p < a + n THEN v
                                    ELSE bmem[node[x].buff][p]
        BY <1>1, <2>3 DEF ReadOf, CopyPages
    <3>4. CASE a <= p /\ p < a + n
      <4>1. p \in Nat /\ p \in a .. a + n - 1
        BY <3>4 DEF Pages
      <4>2. bmem[node[x].buff][p] = Erased
        BY <4>1
      <4>. QED
        BY <1>1, <3>2, <3>4, <4>2
    <3>5. CASE ~(a <= p /\ p < a + n)
        BY <1>1, <3>2, <3>3, <3>5
    <3>. QED
        BY <3>4, <3>5
  <2>. QED
    BY <2>2, <2>3
<1>9. HalAtInv'
  <2> SUFFICES ASSUME NEW z \in Mods, cur[z] # Null
               PROVE  SameNode(cur[z])
    BY <1>2 DEF QueueInv, HalAtInv, SameNode
  <2>1. cur[z] \in opera[z] /\ node[cur[z]].lock
    BY CurFact
  <2>. QED
    BY <1>1, <2>1 DEF Merges
<1>. QED
    BY <1>3, <1>4, <1>6, <1>8, <1>9 DEF QueueInv

LEMMA MergeReads ==
    ASSUME Inv, Inv', QueueInv, QueueInv', StoreConstants, NEW m \in Mods,
           NEW s \in Sectors, s \in Region[m], NEW a \in Nat, NEW n \in Nat,
           NEW v, NEW x, Merges(m, s, a, n, v, x), InSector(a, n), UNCHANGED flash
    PROVE  ReadsSet(m, s, CopyPages(Visible(m, s), a, a + n, v))
<1>1. /\ UNCHANGED <<opera, behind>>
      /\ x \in opera[m] /\ node[x].addr = s
      /\ \A z \in Mods : \A y \in opera[z] :
            /\ y # x => SameNode(y)
            /\ node'[y].type = node[y].type /\ node'[y].addr = node[y].addr
      /\ ReadOf(x)' = CopyPages(ReadOf(x), a, a + n, v)
    BY MergeEffect
<1>2. ASSUME NEW z \in Mods, NEW y \in Region[z], y # s
      PROVE  Untouched(z, y)
  <2>1. Pending(z, y)' = Pending(z, y)
    BY <1>1 DEF Pending
  <2>2. \A k \in Pending(z, y) : k \in opera[z] /\ k # x
    BY <1>1, <1>2 DEF Pending
  <2>. QED
    BY <1>1, <2>1, <2>2, SameRead DEF Untouched
<1>3. OnlySector(s)
    BY <1>2 DEF OnlySector
<1>4. /\ node[x].type = "W" /\ ~node[x].lock /\ x \in Pending(m, s)
    BY DEF Merges
<1>5. Newest(m, s, x) /\ Visible(m, s) = bmem[node[x].buff]
    BY <1>4, MergeNewest
<1>6. Newest(m, s, x)'
    BY <1>1, <1>5 DEF Newest, FirstOf, Pending
<1>7. x \in Slots /\ NewestReads'
    BY <1>1, TypeEither, ReadsFactNext
<1>8. Visible(m, s)' = ReadOf(x)'
    BY <1>6, <1>7 DEF NewestReads
<1>9. Visible(m, s)' = CopyPages(Visible(m, s), a, a + n, v)
    BY <1>1, <1>4, <1>5, <1>8 DEF ReadOf
<1>. QED
    BY <1>3, <1>9, SectorReads

LEMMA WriteStore ==
    ASSUME Inv, Inv', QueueInv, StoreConstants, NEW m \in Mods, NEW s \in Sectors,
           NEW a \in Pages, NEW n \in 1 .. NPage, NEW v \in Data,
           WriteAsync(m, s, a, n, v), ~HalfwayWrite
    PROVE  /\ QueueInv'
           /\ ReadsSet(m, s, CopyPages(Visible(m, s), a, a + n, v))
           /\ \A p \in a .. a + n - 1 : Visible(m, s)[p] = Erased
           /\ a + n <= NPage
<1>1. /\ s \in Region[m] /\ InSector(a, n) /\ WOperaAdd(m, s, a, n, v)
      /\ \A p \in a .. a + n - 1 : Visible(m, s)[p] = Erased
      /\ UNCHANGED <<cur, hal, flash>>
    BY DEF WriteAsync, Clean, StoreConstants, current, device
<1>2. a \in Nat /\ n \in Nat
    BY DEF Pages
<1>3. Deciding(m, s) = {} => Pending(m, s) = {}
    BY DEF HalfwayWrite
<1>4. ASSUME NEW base, NewCase(m, s, base), WNew(m, s, a, n, v, base)
      PROVE  QueueInv' /\ ReadsSet(m, s, CopyPages(Visible(m, s), a, a + n, v))
  <2>1. PICK x, b : Writes(m, s, a, n, v, base, x, b)
    BY <1>4, NewSurgery
  <2>2. Visible(m, s) = base
    BY <1>4, NewCaseReads
  <2>3. \A p \in a .. a + n - 1 : base[p] = Erased
    BY <1>1, <2>2
  <2>4. QueueInv'
    BY <1>1, <1>2, <1>4, <2>1, <2>3, NewQueue
  <2>5. ReadsSet(m, s, CopyPages(base, a, a + n, v))
    BY <1>1, <2>1, <2>4, NewReads
  <2>. QED
    BY <2>2, <2>4, <2>5
<1>5. CASE Deciding(m, s) = {} /\ WNew(m, s, a, n, v, flash[s])
    BY <1>1, <1>3, <1>4, <1>5 DEF NewCase, InSector
<1>6. ASSUME NEW x \in Deciding(m, s), FirstOf(x, Deciding(m, s)),
             node[x].type = "W", WMerge(x, a, n, v)
      PROVE  QueueInv' /\ ReadsSet(m, s, CopyPages(Visible(m, s), a, a + n, v))
  <2>1. Merges(m, s, a, n, v, x)
    BY <1>6 DEF Merges, Deciding
  <2>2. Visible(m, s) = bmem[node[x].buff]
    BY <2>1, MergeNewest DEF Merges
  <2>3. \A p \in a .. a + n - 1 : bmem[node[x].buff][p] = Erased
    BY <1>1, <2>2
  <2>4. QueueInv'
    BY <1>1, <1>2, <2>1, <2>3, MergeQueue
  <2>. QED
    BY <1>1, <1>2, <2>1, <2>4, MergeReads
<1>7. ASSUME NEW x \in Deciding(m, s), FirstOf(x, Deciding(m, s)),
             node[x].type = "E", WNew(m, s, a, n, v, Blank)
      PROVE  QueueInv' /\ ReadsSet(m, s, CopyPages(Visible(m, s), a, a + n, v))
  <2>1. x \in Pending(m, s)
    BY <1>7 DEF Deciding
  <2>2. ASSUME NEW y \in Pending(m, s), node[y].type = "W", ~node[y].lock
        PROVE  FALSE
    <3>1. y \in Deciding(m, s) /\ y # x
        BY <1>7, <2>2 DEF Deciding
    <3>2. y \in behind[x]
        BY <1>7, <3>1 DEF FirstOf
    <3>3. x \in behind[y]
        BY <2>1, <2>2, <3>1 DEF QueueInv, StackInv, Pending
    <3>. QED
        BY <2>1, <2>2, <3>1, <3>2, <3>3 DEF QueueInv, OrderInv, Pending
  <2>3. NewCase(m, s, Blank)
    BY <1>7, <2>1, <2>2 DEF NewCase
  <2>. QED
    BY <1>4, <1>7, <2>3
<1>8. QueueInv' /\ ReadsSet(m, s, CopyPages(Visible(m, s), a, a + n, v))
    BY <1>1, <1>5, <1>6, <1>7 DEF WOperaAdd
<1>. QED
    BY <1>1, <1>8 DEF InSector

LEMMA EraseStore ==
    ASSUME Inv, Inv', QueueInv, StoreConstants, NEW m \in Mods, NEW s \in Sectors,
           NEW k \in EraseSizes, EraseAsync(m, s, k)
    PROVE  QueueInv' /\ (ReadsKept \/ ReadsSet(m, s, Blank))
<1>1. k = 1
    BY DEF EraseSizes, StoreConstants
<1>2. s \in s .. s + 1 - 1
    BY DEF Sectors
<1>3. s \in Region[m] /\ EOperaAdd(m, s, 1) /\ UNCHANGED <<cur, hal, flash>>
    BY <1>1, <1>2 DEF EraseAsync, current, device
<1>4. PICK gone, new : Erases(m, s, gone, new)
    BY <1>3, EraseSurgery
<1>5. QueueInv'
    BY <1>3, <1>4, EraseQueue
<1>. QED
    BY <1>3, <1>4, <1>5, EraseReads

-----------------------------------------------------------------------------
(* Flushing: the oldest node of a list reaches the device. *)

(* The operation the HAL is given is node n's, from where it stopped. *)
OpOf(n, op) ==
    /\ op.sec = node[n].addr
    /\ node[n].type = "E" => op.at = node[n].addr /\ op.end = node[n].addr + 1
    /\ node[n].type = "W" =>
          /\ op.buf = node[n].buff /\ op.end = node[n].w_offs + node[n].w_len
          /\ node[n].w_offs <= op.at /\ op.at <= op.end
          /\ \A p \in Pages : node[n].w_offs <= p /\ p < op.at =>
                HalBase[node[n].addr][p] = bmem[node[n].buff][p]

LEMMA OpFact ==
    ASSUME Inv, QueueInv, NEW m \in Mods, NEW n \in Slots, Target(m, n), Alone(m),
           HalAccepts(m, n)
    PROVE  /\ OpOf(n, HalOpOf(n))
           /\ \A y \in Sectors : y # node[n].addr => HalBase[y] = flash[y]
           /\ node[n].type = "E" => HalBase = flash
<1>1. /\ n \in opera[m] /\ cur[m] \in {Null, n} /\ state[m] # "UNINITED"
      /\ state[m] \in Suspended => cur[m] = n
    BY TargetFact
<1>2. /\ node[n] \in Node /\ node[n].type \in {"W", "E"} /\ n # Null
      /\ node[n].len = 1
      /\ node[n].w_offs \in Nat /\ node[n].w_len \in Nat /\ node[n].addr \in Nat
    BY <1>1, SlotFacts DEF Inv, TypeInv, TypeOK, Node, QueueInv, NodeInv, Sectors
<1>3. CASE state[m] = "IDLE"
  <2>1. hal.kind = "none"
    BY <1>3 DEF HalAccepts
  <2>2. HalBase = flash
    BY <2>1 DEF HalBase
  <2>3. CASE node[n].type = "W"
    <3>1. HalOpOf(n) = [kind |-> "prog", sec |-> node[n].addr, at |-> node[n].w_offs,
              end |-> node[n].w_offs + node[n].w_len, buf |-> node[n].buff, old |-> Erased]
        BY <2>1, <2>3 DEF HalOpOf
    <3>2. \A p \in Pages : ~(node[n].w_offs <= p /\ p < node[n].w_offs)
        BY <1>2 DEF Pages
    <3>3. node[n].w_offs <= node[n].w_offs + node[n].w_len
        BY <1>2
    <3>. QED
        BY <1>2, <2>2, <2>3, <3>1, <3>2, <3>3 DEF OpOf
  <2>4. CASE node[n].type = "E"
    <3>1. HalOpOf(n) = [kind |-> "erase", sec |-> node[n].addr, at |-> node[n].addr,
              end |-> node[n].addr + node[n].len, buf |-> Null, old |-> Erased]
        BY <2>1, <2>4 DEF HalOpOf
    <3>. QED
        BY <1>2, <2>2, <2>4, <3>1 DEF OpOf
  <2>. QED
    BY <1>2, <2>3, <2>4
<1>4. CASE state[m] # "IDLE"
  <2>1. state[m] \in Suspended /\ cur[m] = n /\ cur[m] # Null
    BY <1>1, <1>2, <1>4 DEF Inv, TypeInv, TypeOK
  <2>2. /\ hal.kind = IF node[n].type = "W" THEN "prog" ELSE "erase"
        /\ hal.buf = node[n].buff
    BY <2>1 DEF Inv, SafetyInv, HalInv
  <2>3. HalOpOf(n) = hal
    BY <2>2 DEF HalOpOf
  <2>4. /\ hal.sec = node[n].addr /\ hal.at \in Nat /\ hal.end \in Nat
        /\ node[n].type = "E" => hal.at = node[n].addr /\ hal.end = node[n].addr + 1
        /\ node[n].type = "W" =>
              /\ node[n].w_offs <= hal.at /\ hal.at < hal.end
              /\ hal.end = node[n].w_offs + node[n].w_len
              /\ \A p \in Pages : node[n].w_offs <= p /\ p < hal.at =>
                    HalBase[node[n].addr][p] = bmem[node[n].buff][p]
    BY <2>1 DEF QueueInv, HalAtInv, Inv, TypeInv, TypeOK, HalOp
  <2>5. OpOf(n, hal)
    BY <2>2, <2>4 DEF OpOf
  <2>6. \A y \in Sectors : y # node[n].addr => HalBase[y] = flash[y]
    BY <2>4 DEF HalBase, Inv, TypeInv, TypeOK, Memory
  <2>7. node[n].type = "E" => HalBase = flash
    BY <2>2 DEF HalBase
  <2>. QED
    BY <2>3, <2>5, <2>6, <2>7
<1>. QED
    BY <1>3, <1>4

(* The oldest node's data fits the sector as it is. *)
LEMMA TailFits ==
    ASSUME Inv, QueueInv, NEW m \in Mods, NEW n \in opera[m], behind[n] = {},
           node[n].type = "W"
    PROVE  Fits(n, HalBase[node[n].addr])
<1>1. Fits(n, Base(m, n))
    BY DEF QueueInv, ContentInv
<1>2. node[n].lock \/ ~ErasePending(m, node[n].addr)
    BY DEF QueueInv, StackInv, ErasePending
<1>. QED
    BY <1>1, <1>2 DEF Base

(* Of write n, the pages before q hold their data in c; d is c after the   *)
(* pages at .. q-1 were programmed.                                        *)
Passed(n, q, c) ==
    \A p \in Pages : node[n].w_offs <= p /\ p < q => c[p] = bmem[node[n].buff][p]

Programs(n, at, q, c, d) ==
    \A p \in Pages : d[p] = IF at <= p /\ p < q
                            THEN Program(c[p], bmem[node[n].buff][p]) ELSE c[p]

(* Programming goes on in a sector that the write fits. *)
LEMMA ProgramFits ==
    ASSUME NEW n, NEW c, Fits(n, c), NEW at \in Nat, NEW q \in Nat,
           node[n].w_offs \in Nat, node[n].w_len \in Nat,
           node[n].w_offs <= at, at <= q, q <= node[n].w_offs + node[n].w_len,
           Passed(n, at, c), NEW d, Programs(n, at, q, c, d)
    PROVE  /\ Passed(n, q, d)
           /\ Fits(n, d)
           /\ q = node[n].w_offs + node[n].w_len =>
                 \A p \in Pages : d[p] = bmem[node[n].buff][p]
<1> USE DEF Passed, Programs
<1>1. ASSUME NEW p \in Pages, node[n].w_offs <= p, p < q
      PROVE  d[p] = bmem[node[n].buff][p]
  <2>1. p \in Nat
    BY DEF Pages
  <2>2. CASE p < at
    BY <1>1, <2>1, <2>2
  <2>3. CASE at <= p
    <3>1. c[p] \in {Erased, bmem[node[n].buff][p]}
        BY <1>1, <2>1 DEF Fits, InWindow
    <3>2. Program(c[p], bmem[node[n].buff][p]) = bmem[node[n].buff][p]
        BY <3>1 DEF Program
    <3>. QED
        BY <1>1, <2>3, <3>2
  <2>. QED
    BY <2>1, <2>2, <2>3
<1>2. ASSUME NEW p \in Pages, ~(node[n].w_offs <= p /\ p < q)
      PROVE  d[p] = c[p]
  <2>1. p \in Nat
    BY DEF Pages
  <2>2. ~(at <= p /\ p < q)
    BY <1>2, <2>1
  <2>. QED
    BY <2>2
<1>3. Fits(n, d)
    BY <1>1, <1>2 DEF Fits
<1>4. ASSUME q = node[n].w_offs + node[n].w_len, NEW p \in Pages
      PROVE  d[p] = bmem[node[n].buff][p]
    BY <1>1, <1>2, <1>4 DEF Fits, InWindow
<1>. QED
    BY <1>1, <1>3, <1>4

-----------------------------------------------------------------------------
LEMMA BaseType == Inv => HalBase \in Memory
<1> SUFFICES ASSUME Inv PROVE HalBase \in Memory
    OBVIOUS
<1>1. hal.old \in Value /\ flash \in Memory
    BY DEF Inv, TypeInv, TypeOK, HalOp
<1>. QED
    BY <1>1, PokeType DEF HalBase

(* What a completed operation leaves: the sector holds what was read.      *)
LEMMA DoneFlash ==
    ASSUME Inv, QueueInv, NEW m \in Mods, NEW n \in Slots, Target(m, n), Alone(m),
           OperaDone(m, n)
    PROVE  /\ hal' = NoHal /\ HalBase' = flash'
           /\ node[n].addr \in Sectors
           /\ \A y \in Sectors : y # node[n].addr => flash'[y] = flash[y]
           /\ flash'[node[n].addr] = ReadOf(n)
<1> DEFINE s == node[n].addr
           op == HalOpOf(n)
<1>1. /\ n \in opera[m] /\ behind[n] = {} /\ HalAccepts(m, n)
      /\ node[n] \in Node /\ node[n].type \in {"W", "E"} /\ s \in Sectors
      /\ node[n].w_offs \in Nat /\ node[n].w_len \in Nat
      /\ node[n].type = "W" => bmem[node[n].buff] \in Content
    BY TargetFact DEF OperaDone, Inv, TypeInv, TypeOK, HasBuffer, Node
<1>2. /\ OpOf(n, op)
      /\ \A y \in Sectors : y # s => HalBase[y] = flash[y]
      /\ node[n].type = "E" => HalBase = flash
    BY <1>1, OpFact
<1>3. hal' = NoHal /\ HalBase' = flash'
    BY NoHalType DEF OperaDone, HalProgram, HalErase, HalBase
<1>4. HalBase \in Memory
    BY BaseType
<1>5. CASE node[n].type = "W"
  <2>1. flash' = ProgramPages(HalBase, op.sec, op.at, op.end, bmem[op.buf])
    BY <1>5 DEF OperaDone, HalProgram
  <2>2. /\ op.sec = s /\ op.buf = node[n].buff
        /\ op.end = node[n].w_offs + node[n].w_len
        /\ node[n].w_offs <= op.at /\ op.at <= op.end
        /\ \A p \in Pages : node[n].w_offs <= p /\ p < op.at =>
               HalBase[s][p] = bmem[node[n].buff][p]
    BY <1>2, <1>5 DEF OpOf
  <2>3. op.at \in Nat /\ op.end \in Nat
    BY <1>1, <1>5, <2>2 DEF HalOpOf, Inv, TypeInv, TypeOK, HalOp
  <2>4. Fits(n, HalBase[s])
    BY <1>1, <1>5, TailFits
  <2>5. /\ \A y \in Sectors : y # s => flash'[y] = HalBase[y]
        /\ flash'[s] = [p \in Pages |->
              IF op.at <= p /\ p < op.end
              THEN Program(HalBase[s][p], bmem[node[n].buff][p]) ELSE HalBase[s][p]]
    BY <1>1, <1>4, <2>1, <2>2 DEF ProgramPages, Memory
  <2>6. PICK c, d, at, q : /\ c = HalBase[s] /\ d = flash'[s] /\ at = op.at /\ q = op.end
    OBVIOUS
  <2>7. Programs(n, at, q, c, d)
    BY <2>5, <2>6 DEF Programs
  <2>8. \A p \in Pages : d[p] = bmem[node[n].buff][p]
    <3>1. /\ Fits(n, c) /\ at \in Nat /\ q \in Nat /\ node[n].w_offs <= at /\ at <= q
          /\ q <= node[n].w_offs + node[n].w_len /\ q = node[n].w_offs + node[n].w_len
          /\ Passed(n, at, c)
        BY <1>1, <2>2, <2>3, <2>4, <2>6 DEF Passed
    <3>. QED
        BY <1>1, <2>7, <3>1, ProgramFits
  <2>9. d = bmem[node[n].buff]
    BY <1>1, <1>5, <2>5, <2>6, <2>8 DEF Content
  <2>. QED
    BY <1>1, <1>2, <1>3, <1>5, <2>5, <2>6, <2>9 DEF ReadOf
<1>6. CASE node[n].type = "E"
  <2>1. flash' = SetSectors(flash, op.at, op.end, Erased)
    BY <1>6 DEF OperaDone, HalErase
  <2>2. op.at = s /\ op.end = s + 1
    BY <1>2, <1>6 DEF OpOf
  <2>3. \A y \in Sectors : s <= y /\ y < s + 1 <=> y = s
    BY <1>1 DEF Sectors
  <2>4. /\ \A y \in Sectors : y # s => flash'[y] = flash[y]
        /\ flash'[s] = Blank
    BY <1>1, <2>1, <2>2, <2>3 DEF SetSectors, Blank
  <2>. QED
    BY <1>1, <1>3, <1>6, <2>4 DEF ReadOf
<1>. QED
    BY <1>1, <1>5, <1>6

(* _opera_del of the oldest node takes it out and leaves the others.       *)
LEMMA DoneSurgery ==
    ASSUME Inv, QueueInv, NEW m \in Mods, NEW n \in Slots, Target(m, n), Alone(m),
           OperaDone(m, n)
    PROVE  Surgery(m, {n}, {})
<1>1. /\ n \in opera[m] /\ n \in used /\ behind[n] = {}
    BY TargetFact
<1>2. /\ used \subseteq Slots /\ opera \in [Mods -> SUBSET Slots]
      /\ behind \in [Slots -> SUBSET Slots] /\ node \in [Slots -> Node]
      /\ bmem \in [Bufs -> Content]
    BY DEF Inv, TypeInv, TypeOK
<1>3. /\ opera' = [opera EXCEPT ![m] = @ \ {n}]
      /\ behind' = [x \in Slots |-> IF x = n THEN {} ELSE behind[x] \ {n}]
      /\ node' = [node EXCEPT ![n] = FreeNode]
      /\ bmem' = [b \in Bufs |-> IF b = node[n].buff THEN Blank ELSE bmem[b]]
    BY <1>1 DEF OperaDone, OperaDel
<1>4. ASSUME NEW y \in used, y # n PROVE SameNode(y)
  <2>1. node'[y] = node[y]
    BY <1>2, <1>3, <1>4
  <2>2. ASSUME node[y].type = "W" PROVE bmem'[node[y].buff] = bmem[node[y].buff]
    <3>1. node[y].buff \in Bufs
        BY <1>2, <1>4, <2>2 DEF Inv, TypeInv, HasBuffer
    <3>2. node[y].buff # node[n].buff
        BY <1>1, <1>2, <1>4, <2>2, <3>1, TypeEither, SlotFacts DEF Inv, SafetyInv, BufInv
    <3>. QED
        BY <1>3, <3>1, <3>2
  <2>. QED
    BY <2>1, <2>2 DEF SameNode
<1>. QED
    BY <1>1, <1>2, <1>3, <1>4 DEF Surgery

-----------------------------------------------------------------------------
LEMMA DoneStays ==
    ASSUME Inv, QueueInv, NEW m \in Mods, NEW n \in Slots, Target(m, n), Alone(m),
           OperaDone(m, n), NEW x \in Mods, NEW y
    PROVE  /\ y \in opera'[x] => /\ y \in opera[x] /\ y # n /\ SameNode(y)
                                 /\ node'[y] = node[y] /\ behind'[y] = behind[y] \ {n}
           /\ y \in opera[x] /\ y # n => y \in opera'[x]
<1>1. PICK gone, new : gone = {n} /\ new = {}
    OBVIOUS
<1>2. Surgery(m, gone, new)
    BY <1>1, DoneSurgery
<1>3. /\ y \in opera'[x] <=> Stays(x, y, gone) \/ (x = m /\ y \in new)
      /\ Stays(x, y, gone) => /\ SameNode(y) /\ node'[y] = node[y]
                              /\ behind'[y] = behind[y] \ gone
    BY <1>2, SurgeryFact
<1>. QED
    BY <1>1, <1>3 DEF Stays

LEMMA DoneErase ==
    ASSUME Inv, QueueInv, NEW m \in Mods, NEW n \in Slots, Target(m, n), Alone(m),
           OperaDone(m, n), NEW x \in Mods, NEW a,
           node[n].type = "W" \/ node[n].addr # a
    PROVE  ErasePending(x, a)' <=> ErasePending(x, a)
<1>1. ASSUME ErasePending(x, a) PROVE ErasePending(x, a)'
  <2>1. PICK e \in opera[x] : node[e].addr = a /\ node[e].type = "E"
    BY <1>1 DEF ErasePending
  <2>. QED
    BY <2>1, DoneStays DEF ErasePending
<1>2. ASSUME ErasePending(x, a)' PROVE ErasePending(x, a)
  <2>1. PICK e \in opera'[x] : node'[e].addr = a /\ node'[e].type = "E"
    BY <1>2 DEF ErasePending
  <2>. QED
    BY <2>1, DoneStays DEF ErasePending
<1>. QED
    BY <1>1, <1>2

LEMMA DoneQueue ==
    ASSUME Inv, QueueInv, StoreConstants, NEW m \in Mods, NEW n \in Slots,
           Target(m, n), Alone(m), OperaDone(m, n)
    PROVE  QueueInv'
<1>1. /\ n \in opera[m] /\ behind[n] = {}
    BY TargetFact
<1>2. /\ HalBase' = flash' /\ node[n].addr \in Sectors
      /\ \A y \in Sectors : y # node[n].addr => flash'[y] = flash[y] /\ HalBase[y] = flash[y]
      /\ flash'[node[n].addr] = ReadOf(n)
    BY DoneFlash, OpFact DEF OperaDone
<1>3. ASSUME NEW x \in Mods, NEW y \in opera[x], y # n, node[y].addr = node[n].addr
      PROVE  x = m /\ ~node[y].lock
  <2>1. x = m
    BY <1>1, <1>3 DEF StoreConstants, QueueInv, NodeInv
  <2>. QED
    BY <1>1, <1>3, <2>1, LockedLast
<1>4. NodeInv'
  <2> SUFFICES ASSUME NEW x \in Mods, NEW y \in opera'[x]
               PROVE  /\ node'[y].addr \in Region[x] /\ node'[y].len = 1
                      /\ node'[y].type = "W" =>
                            node'[y].w_offs + node'[y].w_len <= NPage
    BY DEF NodeInv
  <2>. QED
    BY DoneStays DEF QueueInv, NodeInv
<1>5. OrderInv'
  <2>1. PICK gone, new : gone = {n} /\ new = {}
    OBVIOUS
  <2>2. Surgery(m, gone, new)
    BY <2>1, DoneSurgery
  <2>. QED
    BY <2>2, SurgeryOrder
<1>6. StackInv'
  <2> SUFFICES ASSUME NEW x \in Mods, NEW y \in opera'[x], NEW z \in opera'[x],
                      y # z, node'[y].addr = node'[z].addr
               PROVE  /\ node'[y].type = "E" => node'[z].type = "W"
                      /\ node'[y].type = "W" /\ ~node'[y].lock =>
                            z \in behind'[y] /\ ErasePending(x, node[y].addr)'
    BY DEF StackInv
  <2>1. /\ y \in opera[x] /\ y # n /\ node'[y] = node[y] /\ behind'[y] = behind[y] \ {n}
        /\ z \in opera[x] /\ z # n /\ node'[z] = node[z]
    BY DoneStays
  <2>2. /\ node[y].type = "E" => node[z].type = "W"
        /\ node[y].type = "W" /\ ~node[y].lock =>
              z \in behind[y] /\ ErasePending(x, node[y].addr)
    BY <2>1 DEF QueueInv, StackInv
  <2>3. PICK a : a = node[y].addr /\ a = node'[y].addr
    BY <2>1
  <2>4. ASSUME node[n].type = "E", node[n].addr = a, node[y].type = "W" PROVE FALSE
    <3>1. x = m /\ ~node[y].lock /\ ~node[z].lock
        BY <1>3, <2>1, <2>3, <2>4
    <3>2. node[z].type = "W"
        BY <1>1, <2>1, <2>3, <2>4, <3>1 DEF QueueInv, StackInv
    <3>3. z \in behind[y] /\ y \in behind[z]
        BY <2>1, <2>4, <3>1, <3>2 DEF QueueInv, StackInv
    <3>. QED
        BY <2>1, <3>3 DEF QueueInv, OrderInv
  <2>5. ASSUME node[y].type = "W", ErasePending(x, a) PROVE ErasePending(x, a)'
    <3>1. node[n].type = "W" \/ node[n].addr # a
        BY <1>1, <2>4, <2>5, TypeEither
    <3>. QED
        BY <2>5, <3>1, DoneErase
  <2>. QED
    BY <2>1, <2>2, <2>3, <2>5 DEF ErasePending
<1>7. ContentInv'
  <2> SUFFICES ASSUME NEW x \in Mods, NEW y \in opera'[x], node'[y].type = "W"
               PROVE  Fits(y, Base(x, y))'
    BY DEF ContentInv
  <2>1. y \in opera[x] /\ y # n /\ SameNode(y) /\ node'[y] = node[y]
    BY DoneStays
  <2>2. Fits(y, Base(x, y)) /\ node[y].type = "W"
    BY <2>1 DEF QueueInv, ContentInv
  <2>3. PICK a : a = node[y].addr /\ a = node'[y].addr
    BY <2>1
  <2>4. a \in Sectors
    BY <2>1, <2>3, NorFlashAssumption DEF QueueInv, NodeInv, Mods, Sectors
  <2>5. CASE a # node[n].addr
    <3>1. ErasePending(x, a)' <=> ErasePending(x, a)
        BY <2>5, DoneErase
    <3>2. HalBase'[a] = HalBase[a]
        BY <1>2, <2>4, <2>5
    <3>3. Base(x, y)' = Base(x, y)
        BY <2>1, <2>3, <3>1, <3>2 DEF Base, ErasePending
    <3>. QED
        BY <2>1, <2>2, <3>3, FitsKept
  <2>6. CASE a = node[n].addr
    <3>1. x = m /\ ~node[y].lock
        BY <1>3, <2>1, <2>3, <2>6
    <3>2. ErasePending(x, a)
        BY <1>1, <2>1, <2>2, <2>3, <2>6, <3>1 DEF QueueInv, StackInv
    <3>3. Base(x, y) = Blank
        BY <2>3, <3>1, <3>2 DEF Base
    <3>4. CASE node[n].type = "W"
      <4>1. ErasePending(x, a)'
        BY <3>2, <3>4, DoneErase
      <4>2. Base(x, y)' = Blank
        BY <2>1, <2>3, <3>1, <4>1 DEF Base, ErasePending
      <4>. QED
        BY <2>1, <2>2, <3>3, <4>2, FitsKept
    <3>5. CASE node[n].type # "W"
      <4>1. HalBase'[a] = Blank
        BY <1>2, <2>6, <3>5 DEF ReadOf
      <4>2. Base(x, y)' = Blank
        BY <2>1, <2>3, <4>1 DEF Base
      <4>. QED
        BY <2>1, <2>2, <3>3, <4>2, FitsKept
    <3>. QED
        BY <3>4, <3>5
  <2>. QED
    BY <2>5, <2>6
<1>8. HalAtInv'
    BY DoneSafe DEF HalAtInv
<1>. QED
    BY <1>4, <1>5, <1>6, <1>7, <1>8 DEF QueueInv


LEMMA DoneReads ==
    ASSUME Inv, Inv', QueueInv, QueueInv', StoreConstants, NEW m \in Mods,
           NEW n \in Slots, Target(m, n), Alone(m), OperaDone(m, n)
    PROVE  ReadsKept
<1>1. PICK s : s = node[n].addr
    OBVIOUS
<1>2. /\ n \in opera[m] /\ behind[n] = {} /\ s \in Region[m] /\ s \in Sectors
    BY <1>1, TargetFact, NorFlashAssumption DEF QueueInv, NodeInv, Mods, Sectors
<1>3. /\ \A y \in Sectors : y # s => flash'[y] = flash[y]
      /\ flash'[s] = ReadOf(n)
    BY <1>1, DoneFlash
<1>4. NewestReads /\ NewestReads'
    BY ReadsFact, ReadsFactNext
<1>5. /\ n \in Pending(m, s)
      /\ \A y : y \in Pending(m, s)' <=> y \in Pending(m, s) /\ y # n
    BY <1>1, <1>2, DoneStays DEF Pending
<1>6. PICK x \in Pending(m, s) : Newest(m, s, x)
    BY <1>2, <1>4, <1>5 DEF NewestReads
<1>7. x \in Slots /\ Visible(m, s) = ReadOf(x)
    BY <1>2, <1>4, <1>6, TypeEither DEF NewestReads, Pending
<1>8. Visible(m, s)' = Visible(m, s)
  <2>1. CASE x = n
    <3>1. \A y \in Pending(m, s) : y = n
        BY <1>2, <1>6, <2>1 DEF Newest, FirstOf
    <3>2. Pending(m, s)' = {}
        BY <1>5, <3>1
    <3>3. Visible(m, s)' = flash'[s]
        BY <1>2, <1>4, <3>2 DEF NewestReads
    <3>. QED
        BY <1>3, <1>7, <2>1, <3>3
  <2>2. CASE x # n
    <3>1. /\ x \in opera[m] /\ x \in opera'[m] /\ SameNode(x)
          /\ behind'[x] = behind[x] \ {n}
        BY <1>6, <2>2, DoneStays DEF Pending
    <3>2. Newest(m, s, x)'
        BY <1>5, <1>6, <2>2, <3>1 DEF Newest, FirstOf
    <3>3. Visible(m, s)' = ReadOf(x)'
        BY <1>2, <1>4, <1>7, <3>2 DEF NewestReads
    <3>. QED
        BY <1>7, <3>1, <3>3, SameRead
  <2>. QED
    BY <2>1, <2>2
<1>9. PICK gone, new : gone = {n} /\ new = {}
    OBVIOUS
<1>10. Surgery(m, gone, new) /\ AtSector(s, gone, new)
    BY <1>1, <1>3, <1>9, DoneSurgery DEF AtSector
<1>. QED
    BY <1>2, <1>8, <1>10, SurgeryReads

-----------------------------------------------------------------------------
(* What a suspended operation leaves: memory b (what the device would hold *)
(* but for the page it stopped at), which the data of a write still fits.  *)
LEMMA SuspendFlash ==
    ASSUME Inv, QueueInv, NEW m \in Mods, NEW n \in Slots, Target(m, n), Alone(m),
           OperaSuspended(m, n)
    PROVE  /\ n \in opera[m] /\ behind[n] = {} /\ node[n].addr \in Sectors
           /\ \A y \in Sectors : y # node[n].addr =>
                 flash'[y] = flash[y] /\ HalBase'[y] = HalBase[y]
           /\ hal'.sec = node[n].addr
           /\ node[n].type = "E" =>
                 hal'.at = node[n].addr /\ hal'.end = node[n].addr + 1
           /\ node[n].type = "W" =>
                 /\ Fits(n, HalBase'[node[n].addr])
                 /\ node[n].w_offs <= hal'.at /\ hal'.at < hal'.end
                 /\ hal'.end = node[n].w_offs + node[n].w_len
                 /\ \A p \in Pages : node[n].w_offs <= p /\ p < hal'.at =>
                       HalBase'[node[n].addr][p] = bmem[node[n].buff][p]
<1>1. PICK s, op : s = node[n].addr /\ op = HalOpOf(n)
    OBVIOUS
<1>2. /\ n \in opera[m] /\ behind[n] = {} /\ HalAccepts(m, n)
      /\ node[n] \in Node /\ node[n].type \in {"W", "E"} /\ s \in Sectors
      /\ node[n].w_offs \in Nat /\ node[n].w_len \in Nat
      /\ node[n].type = "W" => bmem[node[n].buff] \in Content
    BY <1>1, TargetFact DEF OperaSuspended, Inv, TypeInv, TypeOK, HasBuffer, Node
<1>3. /\ OpOf(n, op)
      /\ \A y \in Sectors : y # s => HalBase[y] = flash[y]
      /\ node[n].type = "E" => HalBase = flash
    BY <1>1, <1>2, OpFact
<1>4. HalBase \in Memory /\ op \in HalOp
  <2>1. HalBase \in Memory
    BY BaseType
  <2>. QED
    BY <1>1, <1>2, <2>1, HalOpOfType DEF Inv
<1>5. CASE node[n].type = "W"
  <2>1. PICK p \in Pages :
          /\ op.at <= p /\ p < op.end
          /\ hal' = [op EXCEPT !.at = p, !.old = HalBase[op.sec][p]]
          /\ flash' = [ProgramPages(HalBase, op.sec, op.at, p, bmem[op.buf])
                        EXCEPT ![op.sec] = [@ EXCEPT ![p] = Mixed]]
    BY <1>1, <1>5 DEF OperaSuspended, HalProgramSuspended
  <2>2. /\ op.sec = s /\ op.buf = node[n].buff
        /\ op.end = node[n].w_offs + node[n].w_len
        /\ node[n].w_offs <= op.at /\ op.at <= op.end
        /\ \A q \in Pages : node[n].w_offs <= q /\ q < op.at =>
               HalBase[s][q] = bmem[node[n].buff][q]
    BY <1>1, <1>3, <1>5 DEF OpOf
  <2>3. op.kind = "prog"
    BY <1>1, <1>2, <1>5 DEF HalOpOf, HalAccepts
  <2>4. op.at \in Nat /\ op.end \in Nat /\ p \in Nat
    BY <1>4 DEF HalOp, Pages
  <2>5. /\ hal'.kind = "prog" /\ hal'.sec = s /\ hal'.at = p /\ hal'.end = op.end
        /\ hal'.old = HalBase[s][p]
    BY <1>4, <2>1, <2>2, <2>3 DEF HalOp
  <2>6. PICK c, at : c = HalBase[s] /\ at = op.at
    OBVIOUS
  <2>7. PICK d : d = [q \in Pages |-> IF at <= q /\ q < p
                          THEN Program(c[q], bmem[node[n].buff][q]) ELSE c[q]]
    OBVIOUS
  <2>8. /\ flash' = [[HalBase EXCEPT ![s] = d] EXCEPT ![s] = [@ EXCEPT ![p] = Mixed]]
        /\ d[p] = c[p]
    BY <2>1, <2>2, <2>4, <2>6, <2>7 DEF ProgramPages
  <2>9. /\ \A y \in Sectors : y # s => flash'[y] = HalBase[y]
        /\ flash'[s] = [d EXCEPT ![p] = Mixed]
        /\ DOMAIN flash' = Sectors
    BY <1>2, <1>4, <2>8 DEF Memory
  <2>10. HalBase' = [flash' EXCEPT ![s] = [@ EXCEPT ![p] = c[p]]]
    BY <2>5, <2>6 DEF HalBase
  <2>11. [[d EXCEPT ![p] = Mixed] EXCEPT ![p] = c[p]] = d
    BY <2>7, <2>8
  <2>12. /\ \A y \in Sectors : y # s => HalBase'[y] = flash'[y]
         /\ HalBase'[s] = d
    BY <1>2, <2>9, <2>10, <2>11
  <2>13. Programs(n, at, p, c, d)
    BY <2>7 DEF Programs
  <2>14. Passed(n, p, d) /\ Fits(n, d)
    <3>1. Fits(n, c)
        BY <1>1, <1>2, <1>5, <2>6, TailFits
    <3>2. /\ at \in Nat /\ node[n].w_offs <= at /\ at <= p
          /\ p <= node[n].w_offs + node[n].w_len
          /\ Passed(n, at, c)
        BY <1>2, <2>1, <2>2, <2>4, <2>6 DEF Passed
    <3>. QED
        BY <1>2, <2>4, <2>13, <3>1, <3>2, ProgramFits
  <2>15. node[n].w_offs <= p /\ p < op.end
    BY <1>2, <2>1, <2>2, <2>4
  <2>. QED
    BY <1>1, <1>2, <1>3, <1>5, <2>2, <2>5, <2>9, <2>12, <2>14, <2>15 DEF Passed
<1>6. CASE node[n].type = "E"
  <2>1. PICK e, f \in Sectors :
          /\ op.at <= e /\ e <= f /\ f < op.end
          /\ hal' = [op EXCEPT !.at = e]
          /\ flash' = SetSectors(SetSectors(flash, op.at, e, Erased), e, f + 1, Mixed)
    BY <1>1, <1>6 DEF OperaSuspended, HalEraseSuspended
  <2>2. op.sec = s /\ op.at = s /\ op.end = s + 1
    BY <1>1, <1>3, <1>6 DEF OpOf
  <2>3. e = s /\ f = s
    BY <1>2, <2>1, <2>2 DEF Sectors
  <2>4. op.kind = "erase"
    BY <1>1, <1>2, <1>6 DEF HalOpOf, HalAccepts
  <2>5. /\ hal'.kind = "erase" /\ hal'.sec = s /\ hal'.at = s /\ hal'.end = s + 1
    BY <1>4, <2>1, <2>2, <2>3, <2>4 DEF HalOp
  <2>6. HalBase' = flash'
    BY <2>5 DEF HalBase
  <2>7. \A y \in Sectors : /\ (s <= y /\ y < s + 1) <=> y = s
                           /\ ~(s <= y /\ y < s)
    BY <1>2 DEF Sectors
  <2>8. \A y \in Sectors : y # s => flash'[y] = flash[y]
    BY <2>1, <2>2, <2>3, <2>7 DEF SetSectors
  <2>. QED
    BY <1>1, <1>2, <1>3, <1>6, <2>5, <2>6, <2>8
<1>. QED
    BY <1>2, <1>5, <1>6

-----------------------------------------------------------------------------
(* A suspended operation's node is locked, nothing else in the lists       *)
(* changes.                                                                *)
LEMMA SuspendNode ==
    ASSUME Inv, NEW m \in Mods, NEW n \in Slots, OperaSuspended(m, n)
    PROVE  /\ opera' = opera /\ behind' = behind /\ bmem' = bmem
           /\ cur' = [cur EXCEPT ![m] = n]
           /\ node'[n] = [node[n] EXCEPT !.lock = TRUE] /\ node'[n].lock
           /\ \A x : /\ node'[x].type = node[x].type /\ node'[x].addr = node[x].addr
                     /\ node'[x].len = node[x].len /\ node'[x].buff = node[x].buff
                     /\ node'[x].w_offs = node[x].w_offs
                     /\ node'[x].w_len = node[x].w_len
           /\ \A x \in Slots : x # n => SameNode(x) /\ node'[x] = node[x]
<1>1. /\ node \in [Slots -> Node]
      /\ node' = [node EXCEPT ![n].lock = TRUE]
    BY DEF OperaSuspended, Inv, TypeInv, TypeOK
<1>2. node[n] \in Node /\ node'[n] = [node[n] EXCEPT !.lock = TRUE]
    BY <1>1
<1>3. /\ node'[n].type = node[n].type /\ node'[n].addr = node[n].addr
      /\ node'[n].len = node[n].len /\ node'[n].buff = node[n].buff
      /\ node'[n].w_offs = node[n].w_offs /\ node'[n].w_len = node[n].w_len
      /\ node'[n].lock
    BY <1>2 DEF Node
<1>4. \A x : x # n => node'[x] = node[x]
    BY <1>1
<1>5. /\ opera' = opera /\ behind' = behind /\ bmem' = bmem
      /\ cur' = [cur EXCEPT ![m] = n]
    BY DEF OperaSuspended
<1>6. \A x : /\ node'[x].type = node[x].type /\ node'[x].addr = node[x].addr
             /\ node'[x].len = node[x].len /\ node'[x].buff = node[x].buff
             /\ node'[x].w_offs = node[x].w_offs
             /\ node'[x].w_len = node[x].w_len
    BY <1>3, <1>4
<1>. QED
    BY <1>2, <1>3, <1>4, <1>5, <1>6 DEF SameNode

LEMMA SuspendErase ==
    ASSUME Inv, NEW m \in Mods, NEW n \in Slots, OperaSuspended(m, n),
           NEW x \in Mods, NEW a
    PROVE  ErasePending(x, a)' <=> ErasePending(x, a)
BY SuspendNode DEF ErasePending

LEMMA SuspendQueue ==
    ASSUME Inv, QueueInv, StoreConstants, NEW m \in Mods, NEW n \in Slots,
           Target(m, n), Alone(m), OperaSuspended(m, n)
    PROVE  QueueInv'
<1>1. /\ n \in opera[m] /\ behind[n] = {} /\ node[n].addr \in Sectors
      /\ \A y \in Sectors : y # node[n].addr => HalBase'[y] = HalBase[y]
    BY SuspendFlash
<1>2. \A x \in Mods : \A y \in opera[x] : y \in Slots
    BY DEF Inv, TypeInv, TypeOK
<1>3. NodeInv' /\ OrderInv'
  <2>1. /\ opera' = opera /\ behind' = behind
        /\ \A x : /\ node'[x].type = node[x].type /\ node'[x].addr = node[x].addr
                  /\ node'[x].len = node[x].len
                  /\ node'[x].w_offs = node[x].w_offs
                  /\ node'[x].w_len = node[x].w_len
    BY SuspendNode
  <2>2. NodeInv'
    BY <2>1 DEF QueueInv, NodeInv
  <2>3. OrderInv'
    BY <2>1 DEF QueueInv, OrderInv
  <2>. QED
    BY <2>2, <2>3
<1>4. StackInv'
  <2> SUFFICES ASSUME NEW x \in Mods, NEW y \in opera'[x], NEW z \in opera'[x],
                      y # z, node'[y].addr = node'[z].addr
               PROVE  /\ node'[y].type = "E" => node'[z].type = "W"
                      /\ node'[y].type = "W" /\ ~node'[y].lock =>
                            z \in behind'[y] /\ ErasePending(x, node[y].addr)'
    BY DEF StackInv
  <2>1. /\ y \in opera[x] /\ z \in opera[x] /\ behind'[y] = behind[y]
        /\ node'[y].type = node[y].type /\ node'[z].type = node[z].type
        /\ node[y].addr = node[z].addr
        /\ ~node'[y].lock => ~node[y].lock
    BY <1>2, SuspendNode
  <2>2. PICK a : a = node[y].addr /\ a = node'[y].addr
    BY SuspendNode
  <2>3. ErasePending(x, a) => ErasePending(x, node[y].addr)'
    BY <2>2, SuspendErase DEF ErasePending
  <2>. QED
    BY <2>1, <2>2, <2>3 DEF QueueInv, StackInv
<1>5. ContentInv'
  <2> SUFFICES ASSUME NEW x \in Mods, NEW y \in opera'[x], node'[y].type = "W"
               PROVE  Fits(y, Base(x, y))'
    BY DEF ContentInv
  <2>1. y \in opera[x] /\ node[y].type = "W"
    BY SuspendNode
  <2>2. PICK a : a = node[y].addr /\ a = node'[y].addr
    BY SuspendNode
  <2>3. CASE y = n
    <3>1. PICK c : c = HalBase'[a]
        OBVIOUS
    <3>2. Fits(n, c)
        BY <2>1, <2>2, <2>3, <3>1, SuspendFlash
    <3>3. Base(x, y)' = c
        BY <2>2, <2>3, <3>1, SuspendNode DEF Base
    <3>4. Fits(n, c)'
        BY <3>2, SuspendNode DEF Fits, InWindow
    <3>. QED
        BY <2>3, <3>3, <3>4 DEF Fits
  <2>4. CASE y # n
    <3>1. SameNode(y) /\ node'[y] = node[y] /\ Fits(y, Base(x, y))
      <4>1. SameNode(y) /\ node'[y] = node[y]
        BY <1>2, <2>1, <2>4, SuspendNode
      <4>2. Fits(y, Base(x, y))
        BY <2>1 DEF QueueInv, ContentInv
      <4>. QED
        BY <4>1, <4>2
    <3>2. Base(x, y)' = Base(x, y)
      <4>1. ErasePending(x, a)' <=> ErasePending(x, a)
        BY SuspendErase
      <4>2. CASE a # node[n].addr
        <5>1. a \in Sectors
            BY <2>1, <2>2, NorFlashAssumption DEF QueueInv, NodeInv, Mods, Sectors
        <5>2. HalBase'[a] = HalBase[a]
            BY <1>1, <4>2, <5>1
        <5>. QED
            BY <2>2, <3>1, <4>1, <5>2 DEF Base, ErasePending
      <4>3. CASE a = node[n].addr
        <5>1. x = m
          <6>1. a \in Region[x] /\ a \in Region[m]
            BY <1>1, <2>1, <2>2, <4>3 DEF QueueInv, NodeInv
          <6>. QED
            BY <6>1 DEF StoreConstants
        <5>2. ~node[y].lock
            BY <1>1, <2>1, <2>4, <5>1, LockedLast
        <5>3. ErasePending(x, a)
            BY <1>1, <2>1, <2>2, <2>4, <4>3, <5>1, <5>2 DEF QueueInv, StackInv
        <5>4. Base(x, y) = Blank
            BY <2>2, <5>2, <5>3 DEF Base
        <5>5. Base(x, y)' = Blank
            BY <2>2, <3>1, <4>1, <5>2, <5>3 DEF Base, ErasePending
        <5>. QED
            BY <5>4, <5>5
      <4>. QED
        BY <4>2, <4>3
    <3>. QED
        BY <2>1, <3>1, <3>2, FitsKept
  <2>. QED
    BY <2>3, <2>4
<1>6. HalAtInv'
  <2> SUFFICES ASSUME NEW x \in Mods, cur'[x] # Null
               PROVE  LET nd == node'[cur'[x]]
                      IN  /\ hal'.sec = nd.addr
                          /\ nd.type = "E" => hal'.at = nd.addr /\ hal'.end = nd.addr + 1
                          /\ nd.type = "W" =>
                                /\ nd.w_offs <= hal'.at /\ hal'.at < hal'.end
                                /\ hal'.end = nd.w_offs + nd.w_len
                                /\ \A p \in Pages : nd.w_offs <= p /\ p < hal'.at =>
                                      HalBase'[nd.addr][p] = bmem'[nd.buff][p]
    BY DEF HalAtInv
  <2>1. cur'[x] = n
    <3>1. cur' = [cur EXCEPT ![m] = n]
        BY SuspendNode
    <3>2. cur \in [Mods -> Slots \cup {Null}]
        BY DEF Inv, TypeInv, TypeOK
    <3>. QED
        BY <3>1, <3>2 DEF Alone
  <2>2. PICK nd : nd = node'[n]
    OBVIOUS
  <2>3. /\ nd.type = node[n].type /\ nd.addr = node[n].addr /\ nd.buff = node[n].buff
        /\ nd.w_offs = node[n].w_offs /\ nd.w_len = node[n].w_len /\ bmem' = bmem
    BY <2>2, SuspendNode
  <2>4. /\ hal'.sec = nd.addr
        /\ nd.type = "E" => hal'.at = nd.addr /\ hal'.end = nd.addr + 1
        /\ nd.type = "W" =>
              /\ nd.w_offs <= hal'.at /\ hal'.at < hal'.end
              /\ hal'.end = nd.w_offs + nd.w_len
              /\ \A p \in Pages : nd.w_offs <= p /\ p < hal'.at =>
                    HalBase'[nd.addr][p] = bmem'[nd.buff][p]
    BY <2>3, SuspendFlash
  <2>. QED
    BY <2>1, <2>2, <2>4
<1>. QED
    BY <1>3, <1>4, <1>5, <1>6 DEF QueueInv

LEMMA SuspendReads ==
    ASSUME Inv, Inv', QueueInv, QueueInv', StoreConstants, NEW m \in Mods,
           NEW n \in Slots, Target(m, n), Alone(m), OperaSuspended(m, n)
    PROVE  ReadsKept
<1>1. PICK s : s = node[n].addr
    OBVIOUS
<1>2. /\ n \in opera[m] /\ s \in Region[m] /\ s \in Sectors
      /\ \A y \in Sectors : y # s => flash'[y] = flash[y]
    BY <1>1, SuspendFlash DEF QueueInv, NodeInv
<1>3. NewestReads /\ NewestReads'
    BY ReadsFact, ReadsFactNext
<1>4. ASSUME NEW x \in Mods, NEW y
      PROVE  /\ Pending(x, y)' = Pending(x, y)
             /\ \A z \in Pending(x, y) : ReadOf(z)' = ReadOf(z)
    BY SuspendNode DEF Pending, ReadOf
<1>5. ASSUME NEW x \in Mods, NEW y \in Region[x], y # s PROVE Untouched(x, y)
  <2>1. y \in Sectors
    BY NorFlashAssumption DEF Mods, Sectors
  <2>. QED
    BY <1>2, <1>4, <1>5, <2>1, SuspendNode DEF Untouched
<1>6. Untouched(m, s)
  <2>1. n \in Pending(m, s)
    BY <1>1, <1>2 DEF Pending
  <2>. QED
    BY <1>4, <2>1, SuspendNode DEF Untouched
<1>7. Visible(m, s)' = Visible(m, s)
    BY <1>2, <1>3, <1>6, UntouchedReads, KeepsRead
<1>8. OnlySector(s)
    BY <1>2, <1>5 DEF OnlySector
<1>. QED
    BY <1>2, <1>7, <1>8, SectorReads

-----------------------------------------------------------------------------
(* Steps that only change who may flush, which module is current and how   *)
(* far a synchronous call is.                                              *)
LEMMA QuietStore ==
    ASSUME QueueInv, UNCHANGED <<opera, behind, node, bmem, cur, hal, flash>>
    PROVE  QueueInv' /\ ReadsKept
<1>1. QueueInv'
    BY DEF QueueInv, NodeInv, OrderInv, StackInv, ErasePending, ContentInv, Fits,
           InWindow, Base, HalAtInv, HalBase
<1>2. \A x, y : Visible(x, y)' = Visible(x, y)
    BY DEF Visible, Pending, FirstOf
<1>. QED
    BY <1>1, <1>2 DEF ReadsKept

-----------------------------------------------------------------------------
(* The device operation of a synchronous call, its module's list empty.    *)

(* Only sector s of the device changes, and nothing is queued there.       *)
DirectAt(m, s) ==
    /\ s \in Region[m] /\ opera[m] = {} /\ hal.kind = "none"
    /\ \A y \in Sectors : y # s => flash'[y] = flash[y]
    /\ UNCHANGED <<opera, behind, node, bmem, cur, hal>>

LEMMA DirectQueue ==
    ASSUME Inv, QueueInv, StoreConstants, NEW m \in Mods, NEW s, DirectAt(m, s)
    PROVE  QueueInv'
<1>1. UNCHANGED <<opera, behind, node, bmem, cur, hal>> /\ hal.kind = "none"
    BY DEF DirectAt
<1>2. NodeInv' /\ OrderInv' /\ StackInv'
    BY <1>1 DEF QueueInv, NodeInv, OrderInv, StackInv, ErasePending
<1>3. ContentInv'
  <2> SUFFICES ASSUME NEW x \in Mods, NEW y \in opera'[x], node'[y].type = "W"
               PROVE  Fits(y, Base(x, y))'
    BY DEF ContentInv
  <2>1. y \in opera[x] /\ node[y].type = "W" /\ SameNode(y) /\ Fits(y, Base(x, y))
    BY <1>1 DEF SameNode, QueueInv, ContentInv
  <2>2. node[y].addr \in Region[x] /\ x # m
    BY <2>1 DEF DirectAt, QueueInv, NodeInv
  <2>3. node[y].addr \in Sectors /\ node[y].addr # s
    BY <2>2, NorFlashAssumption DEF DirectAt, StoreConstants, Mods, Sectors
  <2>4. HalBase'[node[y].addr] = HalBase[node[y].addr]
    BY <1>1, <2>3 DEF DirectAt, HalBase
  <2>5. Base(x, y)' = Base(x, y)
    BY <1>1, <2>4 DEF Base, ErasePending
  <2>. QED
    BY <2>1, <2>5, FitsKept
<1>4. HalAtInv'
  <2>1. \A x \in Mods : cur[x] = Null
    BY <1>1 DEF Inv, SafetyInv, HalInv
  <2>. QED
    BY <1>1, <2>1 DEF HalAtInv
<1>. QED
    BY <1>2, <1>3, <1>4 DEF QueueInv

LEMMA DirectReads ==
    ASSUME Inv, Inv', QueueInv, QueueInv', StoreConstants, NEW m \in Mods, NEW s,
           DirectAt(m, s)
    PROVE  Visible(m, s) = flash[s] /\ ReadsSet(m, s, flash'[s])
<1>1. NewestReads /\ NewestReads'
    BY ReadsFact, ReadsFactNext
<1>2. s \in Region[m] /\ s \in Sectors
    BY NorFlashAssumption DEF DirectAt, Mods, Sectors
<1>3. Pending(m, s) = {} /\ Pending(m, s)' = {}
    BY DEF DirectAt, Pending
<1>4. Visible(m, s) = flash[s] /\ Visible(m, s)' = flash'[s]
    BY <1>1, <1>2, <1>3 DEF NewestReads
<1>5. ASSUME NEW x \in Mods, NEW y \in Region[x], y # s PROVE Untouched(x, y)
  <2>1. y \in Sectors
    BY NorFlashAssumption DEF Mods, Sectors
  <2>2. flash'[y] = flash[y]
    BY <1>5, <2>1 DEF DirectAt
  <2>. QED
    BY <2>2 DEF DirectAt, Untouched, Pending, ReadOf
<1>6. OnlySector(s)
    BY <1>5 DEF OnlySector, DirectAt
<1>7. PICK c : c = flash'[s]
    OBVIOUS
<1>8. ReadsSet(m, s, c)
    BY <1>2, <1>4, <1>6, <1>7, SectorReads
<1>. QED
    BY <1>4, <1>7, <1>8

LEMMA SyncHalStore ==
    ASSUME Inv, Inv', QueueInv, SyncArgsInv, StoreConstants, SyncAfterQueued, SyncHal
    PROVE  /\ QueueInv' /\ sync' = NoSync /\ sync \in SyncCall
           /\ sync.op = "E" => ReadsSet(sync.mod, sync.a, Blank)
           /\ sync.op = "W" =>
                 /\ ReadsSet(sync.mod, sync.sec,
                        CopyPages(Visible(sync.mod, sync.sec), sync.a,
                                  sync.a + sync.n, sync.v))
                 /\ \A p \in sync.a .. sync.a + sync.n - 1 :
                       Visible(sync.mod, sync.sec)[p] = Erased
                 /\ sync.a \in Pages /\ sync.n \in 1 .. NPage
                 /\ sync.v \in Data /\ sync.a + sync.n <= NPage
<1>1. /\ sync.pc = "hal" /\ sync' = NoSync
      /\ opera[sync.mod] = {} /\ hal.kind = "none"
      /\ UNCHANGED <<opera, behind, node, bmem, cur, hal>>
    BY DEF SyncHal, SyncAfterQueued, lists, current
<1>2. sync \in SyncCall
    BY <1>1 DEF Inv, TypeInv, TypeOK, NoSync
<1>3. PICK m, a, n, v : m = sync.mod /\ a = sync.a /\ n = sync.n /\ v = sync.v
    OBVIOUS
<1>4. m \in Mods /\ a \in Nat /\ n \in Nat /\ sync.op \in {"W", "E"}
    BY <1>2, <1>3 DEF SyncCall
<1>5. flash \in Memory /\ flash' \in Memory
    BY DEF Inv, TypeInv, TypeOK
<1>6. CASE sync.op = "E"
  <2>1. a \in Region[m] /\ n = 1
    BY <1>1, <1>3, <1>6 DEF SyncArgsInv
  <2>2. a \in Sectors
    BY <1>4, <2>1, NorFlashAssumption DEF Mods, Sectors
  <2>3. flash' = SetSectors(flash, a, a + 1, Erased)
    BY <1>1, <1>3, <1>6, <2>1 DEF SyncHal
  <2>4. \A y \in Sectors : a <= y /\ y < a + 1 <=> y = a
    BY <2>2 DEF Sectors
  <2>5. /\ \A y \in Sectors : y # a => flash'[y] = flash[y]
        /\ flash'[a] = Blank
    BY <2>2, <2>3, <2>4 DEF SetSectors, Blank
  <2>6. DirectAt(m, a)
    BY <1>1, <1>3, <2>1, <2>5 DEF DirectAt
  <2>7. QueueInv'
    BY <1>4, <2>6, DirectQueue
  <2>8. ReadsSet(m, a, flash'[a])
    BY <1>4, <2>6, <2>7, DirectReads
  <2>. QED
    BY <1>1, <1>2, <1>3, <1>6, <2>5, <2>7, <2>8
<1>7. CASE sync.op = "W"
  <2>1. PICK s : s = sync.sec
    OBVIOUS
  <2>2. /\ s \in Region[m] /\ n > 0 /\ a + n <= NPage /\ a \in Pages /\ v \in Data
        /\ \A p \in a .. a + n - 1 : Visible(m, s)[p] = Erased
    BY <1>1, <1>3, <1>7, <2>1 DEF SyncArgsInv, InSector
  <2>3. s \in Sectors
    BY <1>4, <2>2, NorFlashAssumption DEF Mods, Sectors
  <2>4. flash' = ProgramPages(flash, s, a, a + n, [p \in Pages |-> v])
    BY <1>1, <1>3, <1>7, <2>1 DEF SyncHal
  <2>5. /\ \A y \in Sectors : y # s => flash'[y] = flash[y]
        /\ flash'[s] = [p \in Pages |->
              IF a <= p /\ p < a + n THEN Program(flash[s][p], v) ELSE flash[s][p]]
    BY <1>5, <2>3, <2>4 DEF ProgramPages, Memory
  <2>6. DirectAt(m, s)
    BY <1>1, <1>3, <2>2, <2>5 DEF DirectAt
  <2>7. QueueInv'
    BY <1>4, <2>6, DirectQueue
  <2>8. Visible(m, s) = flash[s] /\ ReadsSet(m, s, flash'[s])
    BY <1>4, <2>6, <2>7, DirectReads
  <2>9. flash'[s] = CopyPages(flash[s], a, a + n, v)
    <3>1. ASSUME NEW p \in Pages, a <= p, p < a + n PROVE Program(flash[s][p], v) = v
      <4>1. p \in a .. a + n - 1
        BY <1>4, <3>1 DEF Pages
      <4>2. flash[s][p] = Erased
        BY <2>2, <2>8, <4>1
      <4>. QED
        BY <4>2 DEF Program
    <3>. QED
        BY <2>5, <3>1 DEF CopyPages
  <2>10. n \in 1 .. NPage
    BY <1>4, <2>2, MemoryAssumption
  <2>. QED
    BY <1>1, <1>2, <1>3, <1>7, <2>1, <2>2, <2>7, <2>8, <2>9, <2>10
<1>. QED
    BY <1>4, <1>6, <1>7

-----------------------------------------------------------------------------
(* What a synchronous call was asked to do stays possible until it does it. *)

(* The call goes on, or comes to its end.                                  *)
SyncGoes ==
    \/ sync' = NoSync
    \/ /\ sync \in SyncCall
       /\ \E f \in {"other", "own", "hal"}, b \in BOOLEAN :
             sync' = [sync EXCEPT !.pc = f, !.bresult = b]

LEMMA SyncArgsKept ==
    ASSUME SyncArgsInv, ReadsKept, SyncGoes
    PROVE  SyncArgsInv'
<1>1. CASE sync' = NoSync
    BY <1>1 DEF SyncArgsInv, NoSync
<1>2. CASE sync' # NoSync
  <2>1. /\ sync \in SyncCall
        /\ sync'.mod = sync.mod /\ sync'.op = sync.op /\ sync'.sec = sync.sec
        /\ sync'.a = sync.a /\ sync'.n = sync.n /\ sync'.v = sync.v
    BY <1>2 DEF SyncGoes, SyncCall
  <2>2. sync.pc \in {"other", "own", "hal"} /\ sync.mod \in Mods
    BY <2>1 DEF SyncCall
  <2>3. PICK m, s : m = sync.mod /\ s = sync.sec /\ m = sync'.mod /\ s = sync'.sec
    BY <2>1
  <2>4. s \in Region[m] => Visible(m, s)' = Visible(m, s)
    BY <2>2, <2>3 DEF ReadsKept
  <2>5. PICK c : c = Visible(m, s)
    OBVIOUS
  <2>6. /\ sync.op = "E" => sync.a \in Region[m] /\ sync.n = 1
        /\ sync.op = "W" =>
              /\ s \in Region[m] /\ InSector(sync.a, sync.n)
              /\ sync.a \in Pages /\ sync.v \in Data
              /\ \A p \in sync.a .. sync.a + sync.n - 1 : c[p] = Erased
    BY <2>2, <2>3, <2>5 DEF SyncArgsInv
  <2>7. s \in Region[m] => Visible(m, s)' = c
    BY <2>4, <2>5
  <2>8. /\ sync'.op = "E" => sync'.a \in Region[m] /\ sync'.n = 1
        /\ sync'.op = "W" =>
              /\ s \in Region[m] /\ InSector(sync'.a, sync'.n)
              /\ sync'.a \in Pages /\ sync'.v \in Data
              /\ \A p \in sync'.a .. sync'.a + sync'.n - 1 : Visible(m, s)'[p] = Erased
    BY <2>1, <2>6, <2>7
  <2>. QED
    BY <2>3, <2>8 DEF SyncArgsInv, Visible, Pending
<1>. QED
    BY <1>1, <1>2

-----------------------------------------------------------------------------
(* Every step, as the store sees it.                                       *)
WriteSeen ==
    \E m \in Mods, s \in Sectors, a \in Pages, n \in 1 .. NPage, v \in Data :
        /\ ReadsSet(m, s, CopyPages(Visible(m, s), a, a + n, v))
        /\ \A p \in a .. a + n - 1 : Visible(m, s)[p] = Erased
        /\ a + n <= NPage

EraseSeen == \E m \in Mods, s \in Sectors : ReadsSet(m, s, Blank)

Seen == ReadsKept \/ WriteSeen \/ EraseSeen

LEMMA SeenStep ==
    ASSUME StoreConstants, Seen
    PROVE  [Store!Next]_View
<1>1. CASE ReadsKept
    BY <1>1, ViewKept
<1>2. CASE WriteSeen
  <2>1. PICK m \in Mods, s \in Sectors, a \in Pages, n \in 1 .. NPage, v \in Data :
          /\ ReadsSet(m, s, CopyPages(Visible(m, s), a, a + n, v))
          /\ \A p \in a .. a + n - 1 : Visible(m, s)[p] = Erased
          /\ a + n <= NPage
    BY <1>2 DEF WriteSeen
  <2>2. PICK c : c = CopyPages(Visible(m, s), a, a + n, v)
    OBVIOUS
  <2>3. View' = [View EXCEPT ![s] = c] /\ View[s] = Visible(m, s)
    BY <2>1, <2>2, ViewSet
  <2>4. Store!Write(s, a, n, v)
    BY <2>1, <2>2, <2>3 DEF Store!Write, Store!CopyPages, CopyPages, Store!Pages, Pages
  <2>. QED
    BY <2>1, <2>4 DEF Store!Next, Store!Sectors, Sectors, Store!Pages, Pages
<1>3. CASE EraseSeen
  <2>1. PICK m \in Mods, s \in Sectors : ReadsSet(m, s, Blank)
    BY <1>3 DEF EraseSeen
  <2>2. PICK c : c = Blank
    OBVIOUS
  <2>3. View' = [View EXCEPT ![s] = c]
    BY <2>1, <2>2, ViewSet
  <2>4. DOMAIN View = Sectors
    BY DEF View
  <2>5. \A y \in Sectors : s <= y /\ y < s + 1 <=> y = s
    BY DEF Sectors
  <2>6. View' = [y \in Sectors |-> IF s <= y /\ y < s + 1 THEN Blank ELSE View[y]]
    BY <2>2, <2>3, <2>4, <2>5 DEF View
  <2>7. Store!Erase(s, 1)
    BY <2>6 DEF Store!Erase, Store!SetSectors, Store!Sectors, Sectors, Blank, Pages,
                Store!Pages
  <2>8. 1 \in 1 .. NSec /\ s + 1 <= NSec
    BY MemoryAssumption DEF Sectors
  <2>. QED
    BY <2>7, <2>8 DEF Store!Next, Store!Sectors, Sectors
<1>. QED
    BY <1>1, <1>2, <1>3 DEF Seen

LEMMA SeenInit == Init => Store!Init
<1> SUFFICES ASSUME Init PROVE Store!Init
    OBVIOUS
<1>1. /\ \A m \in Mods : opera[m] = {}
      /\ flash \in [Sectors -> [Pages -> Data \cup {Erased}]]
    BY DEF Init
<1>2. \A m \in Mods : \A s : Visible(m, s) = flash[s]
    BY <1>1 DEF Visible, Pending
<1>3. View = [s \in Sectors |-> flash[s]]
  <2>1. ASSUME NEW s \in Sectors, \E m \in Mods : s \in Region[m]
        PROVE  Visible(CHOOSE m \in Mods : s \in Region[m], s) = flash[s]
    <3>1. (CHOOSE m \in Mods : s \in Region[m]) \in Mods
        BY <2>1
    <3>. QED
        BY <1>2, <3>1
  <2>. QED
    BY <2>1 DEF View
<1>. QED
    BY <1>1, <1>3 DEF Store!Init, Store!Sectors, Store!Pages, Sectors, Pages

LEMMA StoreInit == Init => StoreInv
BY DEF Init, StoreInv, QueueInv, NodeInv, OrderInv, StackInv, ContentInv, HalAtInv,
       SyncArgsInv, NoSync

-----------------------------------------------------------------------------
LEMMA ClientStore ==
    ASSUME Inv, Inv', StoreInv, StoreConstants, ~HalfwayWrite, Client
    PROVE  StoreInv' /\ Seen
<1>1. QueueInv /\ SyncArgsInv
    BY DEF StoreInv
<1>2. PICK m \in Mods, s \in Sectors :
          \/ \E k \in EraseSizes : EraseAsync(m, s, k) \/ EraseSync(m, s, k)
          \/ \E a \in Pages, n \in 1 .. NPage, v \in Data :
                WriteAsync(m, s, a, n, v) \/ WriteSync(m, s, a, n, v)
    BY DEF Client
<1>3. ASSUME NEW k \in EraseSizes, EraseAsync(m, s, k) PROVE StoreInv' /\ Seen
  <2>1. QueueInv' /\ (ReadsKept \/ ReadsSet(m, s, Blank))
    BY <1>1, <1>3, EraseStore
  <2>2. SyncArgsInv'
    BY <1>3 DEF EraseAsync, SyncArgsInv, NoSync
  <2>. QED
    BY <2>1, <2>2 DEF StoreInv, Seen, EraseSeen
<1>4. ASSUME NEW a \in Pages, NEW n \in 1 .. NPage, NEW v \in Data,
             WriteAsync(m, s, a, n, v)
      PROVE  StoreInv' /\ Seen
  <2>1. /\ QueueInv'
        /\ ReadsSet(m, s, CopyPages(Visible(m, s), a, a + n, v))
        /\ \A p \in a .. a + n - 1 : Visible(m, s)[p] = Erased
        /\ a + n <= NPage
    BY <1>1, <1>4, WriteStore
  <2>2. SyncArgsInv'
    BY <1>4 DEF WriteAsync, SyncArgsInv, NoSync
  <2>3. WriteSeen
    BY <2>1 DEF WriteSeen
  <2>. QED
    BY <2>1, <2>2, <2>3 DEF StoreInv, Seen
<1>5. ASSUME NEW k \in EraseSizes, EraseSync(m, s, k) PROVE StoreInv' /\ Seen
  <2>1. /\ UNCHANGED <<opera, behind, node, bmem, cur, hal, flash>>
        /\ sync'.mod = m /\ sync'.op = "E" /\ sync'.a = s /\ sync'.n = k
        /\ s .. s + k - 1 \subseteq Region[m]
    BY <1>5 DEF EraseSync, SyncStart, lists, current, device
  <2>2. QueueInv' /\ ReadsKept
    BY <1>1, <2>1, QuietStore
  <2>3. k = 1 /\ s \in s .. s + 1 - 1
    BY DEF EraseSizes, StoreConstants, Sectors
  <2>4. SyncArgsInv'
    BY <2>1, <2>3 DEF SyncArgsInv
  <2>. QED
    BY <2>2, <2>4 DEF StoreInv, Seen
<1>6. ASSUME NEW a \in Pages, NEW n \in 1 .. NPage, NEW v \in Data,
             WriteSync(m, s, a, n, v)
      PROVE  StoreInv' /\ Seen
  <2>1. /\ UNCHANGED <<opera, behind, node, bmem, cur, hal, flash>>
        /\ sync'.mod = m /\ sync'.op = "W" /\ sync'.sec = s
        /\ sync'.a = a /\ sync'.n = n /\ sync'.v = v
        /\ s \in Region[m] /\ InSector(a, n)
        /\ \A p \in a .. a + n - 1 : Visible(m, s)[p] = Erased
    BY <1>6 DEF WriteSync, SyncStart, lists, current, device, Clean, StoreConstants
  <2>2. QueueInv' /\ ReadsKept
    BY <1>1, <2>1, QuietStore
  <2>3. Visible(m, s)' = Visible(m, s)
    BY <2>1, <2>2 DEF ReadsKept
  <2>4. PICK c : c = Visible(m, s)
    OBVIOUS
  <2>5. \A p \in a .. a + n - 1 : c[p] = Erased
    BY <2>1, <2>4
  <2>6. Visible(sync.mod, sync.sec)' = c
    BY <2>1, <2>3, <2>4 DEF Visible, Pending
  <2>7. SyncArgsInv'
    BY <2>1, <2>5, <2>6 DEF SyncArgsInv
  <2>. QED
    BY <2>2, <2>7 DEF StoreInv, Seen
<1>. QED
    BY <1>2, <1>3, <1>4, <1>5, <1>6

LEMMA FlushStore ==
    ASSUME Inv, Inv', StoreInv, StoreConstants, Flush
    PROVE  StoreInv' /\ Seen
<1>1. QueueInv /\ SyncArgsInv
    BY DEF StoreInv
<1>2. sync' = NoSync \/ (sync' = sync /\ sync = NoSync)
    BY DEF Flush, FlushRefused, FlushDone, FlushSuspended, FlushEmpty, FlushBegin
<1>3. SyncArgsInv'
    BY <1>2 DEF SyncArgsInv, NoSync
<1>4. QueueInv' /\ ReadsKept
  <2>1. CASE FlushRefused
    BY <1>1, <2>1, QuietStore DEF FlushRefused, lists, current, device
  <2>2. ASSUME NEW m \in Mods, FlushEmpty(m) PROVE QueueInv' /\ ReadsKept
    BY <1>1, <2>2, QuietStore DEF FlushEmpty, lists, device
  <2>3. ASSUME NEW m \in Mods, FlushDone(m) PROVE QueueInv' /\ ReadsKept
    <3>1. Alone(m)
        BY <2>3, CurModAlone DEF FlushDone, FlushBegin
    <3>2. PICK n \in Slots : Target(m, n) /\ OperaDone(m, n)
        BY <2>3 DEF FlushDone
    <3>3. QueueInv'
        BY <1>1, <3>1, <3>2, DoneQueue
    <3>. QED
        BY <1>1, <3>1, <3>2, <3>3, DoneReads
  <2>4. ASSUME NEW m \in Mods, FlushSuspended(m) PROVE QueueInv' /\ ReadsKept
    <3>1. Alone(m)
        BY <2>4, CurModAlone DEF FlushSuspended, FlushBegin
    <3>2. PICK n \in Slots : Target(m, n) /\ OperaSuspended(m, n)
        BY <2>4 DEF FlushSuspended
    <3>3. QueueInv'
        BY <1>1, <3>1, <3>2, SuspendQueue
    <3>. QED
        BY <1>1, <3>1, <3>2, <3>3, SuspendReads
  <2>. QED
    BY <2>1, <2>2, <2>3, <2>4 DEF Flush
<1>. QED
    BY <1>3, <1>4 DEF StoreInv, Seen

LEMMA SyncStore ==
    ASSUME Inv, Inv', StoreInv, StoreConstants, SyncAfterQueued, Sync
    PROVE  StoreInv' /\ Seen
<1>1. QueueInv /\ SyncArgsInv
    BY DEF StoreInv
<1>2. ASSUME QueueInv', ReadsKept, SyncGoes PROVE StoreInv' /\ Seen
    BY <1>1, <1>2, SyncArgsKept DEF StoreInv, Seen
<1>3. ASSUME sync.pc \in {"other", "own", "hal"} PROVE sync \in SyncCall
    BY <1>3 DEF Inv, TypeInv, TypeOK, NoSync
<1>4. CASE SyncWait
  <2>1. sync' = [sync EXCEPT !.pc = sync.pc, !.bresult = sync.bresult]
    BY <1>3, <1>4 DEF SyncWait, SyncWaitFor, SyncCall
  <2>2. SyncGoes
    BY <1>3, <1>4, <2>1 DEF SyncGoes, SyncWait, SyncWaitFor, SyncCall
  <2>3. QueueInv' /\ ReadsKept
    BY <1>1, <1>4, QuietStore DEF SyncWait, SyncWaitFor, lists, current, device
  <2>. QED
    BY <1>2, <2>2, <2>3
<1>5. CASE SyncOther \/ SyncOwn
  <2>1. PICK m \in Mods, n \in Slots : Target(m, n) /\ OperaDone(m, n) /\ Alone(m)
    <3>1. CASE SyncOther
      <4>1. sync.other \in Mods
        BY <3>1 DEF SyncOther, SyncFinish, Inv, TypeInv, HasOther
      <4>2. Alone(sync.other)
        BY <3>1, <4>1, CurModAlone DEF SyncOther, SyncFinish
      <4>. QED
        BY <3>1, <4>1, <4>2 DEF SyncOther, SyncFinish
    <3>2. CASE SyncOwn
      <4>1. sync.mod \in Mods
        BY <1>3, <3>2 DEF SyncOwn, SyncCall
      <4>2. Alone(sync.mod)
        BY <3>2, <4>1, CurModAlone DEF SyncOwn
      <4>. QED
        BY <3>2, <4>1, <4>2 DEF SyncOwn
    <3>. QED
        BY <1>5, <3>1, <3>2
  <2>2. QueueInv'
    BY <1>1, <2>1, DoneQueue
  <2>3. ReadsKept
    BY <1>1, <2>1, <2>2, DoneReads
  <2>4. sync \in SyncCall /\ sync' = [sync EXCEPT !.bresult = TRUE]
    BY <1>3, <1>5 DEF SyncOther, SyncFinish, SyncOwn
  <2>5. sync' = [sync EXCEPT !.pc = sync.pc, !.bresult = TRUE]
    BY <2>4 DEF SyncCall
  <2>6. SyncGoes
    BY <2>4, <2>5 DEF SyncGoes, SyncCall
  <2>. QED
    BY <1>2, <2>2, <2>3, <2>6
<1>6. CASE SyncOtherIdle \/ SyncOwnLeave
  <2>1. QueueInv' /\ ReadsKept
    BY <1>1, <1>6, QuietStore DEF SyncOtherIdle, SyncFinished, SyncOwnLeave, lists, current, device
  <2>2. /\ sync \in SyncCall
        /\ sync' = [sync EXCEPT !.pc = "own"] \/ sync' = [sync EXCEPT !.pc = "hal"]
    BY <1>3, <1>6 DEF SyncOtherIdle, SyncFinished, SyncOwnLeave
  <2>3. \/ sync' = [sync EXCEPT !.pc = "own", !.bresult = sync.bresult]
        \/ sync' = [sync EXCEPT !.pc = "hal", !.bresult = sync.bresult]
    BY <2>2 DEF SyncCall
  <2>4. SyncGoes
    BY <2>2, <2>3 DEF SyncGoes, SyncCall
  <2>. QED
    BY <1>2, <2>1, <2>4
<1>7. CASE SyncHal
  <2>1. /\ QueueInv' /\ sync' = NoSync /\ sync \in SyncCall
        /\ sync.op = "E" => ReadsSet(sync.mod, sync.a, Blank)
        /\ sync.op = "W" =>
              /\ ReadsSet(sync.mod, sync.sec,
                     CopyPages(Visible(sync.mod, sync.sec), sync.a,
                               sync.a + sync.n, sync.v))
              /\ \A p \in sync.a .. sync.a + sync.n - 1 :
                    Visible(sync.mod, sync.sec)[p] = Erased
              /\ sync.a \in Pages /\ sync.n \in 1 .. NPage
              /\ sync.v \in Data /\ sync.a + sync.n <= NPage
    BY <1>1, <1>7, SyncHalStore
  <2>2. SyncArgsInv'
    BY <2>1 DEF SyncArgsInv, NoSync
  <2>3. sync.mod \in Mods /\ sync.sec \in Sectors /\ sync.op \in {"W", "E"}
    BY <2>1 DEF SyncCall
  <2>4. CASE sync.op = "E"
    <3>1. sync.a \in Sectors
        BY <2>1, <2>3, <2>4, NorFlashAssumption DEF ReadsSet, Mods, Sectors
    <3>2. EraseSeen
        BY <2>1, <2>3, <2>4, <3>1 DEF EraseSeen
    <3>. QED
        BY <2>1, <2>2, <3>2 DEF StoreInv, Seen
  <2>5. CASE sync.op = "W"
    <3>1. WriteSeen
        BY <2>1, <2>3, <2>5 DEF WriteSeen
    <3>. QED
        BY <2>1, <2>2, <3>1 DEF StoreInv, Seen
  <2>. QED
    BY <2>3, <2>4, <2>5
<1>. QED
    BY <1>4, <1>5, <1>6, <1>7 DEF Sync


LEMMA QuietStep ==
    ASSUME Inv, StoreInv, Gate \/ (\E m \in Mods : Register(m)) \/ UNCHANGED vars
    PROVE  StoreInv' /\ Seen
<1>1. sync' = sync
    BY DEF Gate, FlushEnableAll, FlushDisable, FlushEnable, CpChanges, Register, vars
<1>2. UNCHANGED <<opera, behind, node, bmem, cur, hal, flash>>
  <2>1. CASE Gate \/ UNCHANGED vars
    BY <2>1 DEF Gate, FlushEnableAll, FlushDisable, FlushEnable, CpChanges,
                lists, current, device, vars
  <2>2. ASSUME NEW m \in Mods, Register(m)
        PROVE  UNCHANGED <<opera, behind, node, bmem, cur, hal, flash>>
    <3>1. opera[m] = {} /\ cur[m] = Null
        BY <2>2 DEF Register, Inv, SafetyInv, ListInv, HalInv, Suspended
    <3>2. opera' = opera /\ cur' = cur
        BY <2>2, <3>1 DEF Register, Inv, TypeInv, TypeOK
    <3>. QED
        BY <2>2, <3>2 DEF Register, device
  <2>. QED
    BY <2>1, <2>2
<1>3. QueueInv' /\ ReadsKept
    BY <1>2, QuietStore DEF StoreInv
<1>4. SyncGoes
  <2>1. CASE sync = NoSync
    BY <1>1, <2>1 DEF SyncGoes
  <2>2. CASE sync # NoSync
    <3>1. sync \in SyncCall
        BY <2>2 DEF Inv, TypeInv, TypeOK
    <3>2. sync' = [sync EXCEPT !.pc = sync.pc, !.bresult = sync.bresult]
        BY <1>1, <3>1 DEF SyncCall
    <3>. QED
        BY <3>1, <3>2 DEF SyncGoes, SyncCall
  <2>. QED
    BY <2>1, <2>2
<1>. QED
    BY <1>3, <1>4, SyncArgsKept DEF StoreInv, Seen

LEMMA StoreStep ==
    ASSUME StoreConstants, Inv, Inv', StoreInv, SyncAfterQueued,
           [Next]_vars, [~HalfwayWrite]_vars
    PROVE  StoreInv' /\ [Store!Next]_View
<1>1. CASE UNCHANGED vars
    BY <1>1, QuietStep, SeenStep
<1>2. CASE Next /\ ~HalfwayWrite
  <2>1. CASE Client
    BY <1>2, <2>1, ClientStore, SeenStep
  <2>2. CASE Flush
    BY <2>2, FlushStore, SeenStep
  <2>3. CASE Sync
    BY <2>3, SyncStore, SeenStep
  <2>4. CASE Gate \/ \E m \in Mods : Register(m)
    BY <2>4, QuietStep, SeenStep
  <2>. QED
    BY <1>2, <2>1, <2>2, <2>3, <2>4 DEF Next
<1>. QED
    BY <1>1, <1>2

(* What norflash_api_read returns is a memory that only the clients'       *)
(* writes and erases change, whatever is queued, merged, half done or      *)
(* flushed in between: for every number of modules, sectors, pages, nodes  *)
(* and buffers.  Clients write where they read 0xff, an erase is one       *)
(* sector, the gate is open, and no write is for a sector whose only       *)
(* queued operation is a suspended write.                                  *)
THEOREM StoreRefined ==
    ASSUME StoreConstants
    PROVE  Spec => ([]Allowed /\ [][~HalfwayWrite]_vars => ReadsAreAStore)
<1>1. Init => StoreInv /\ Store!Init
    BY StoreInit, SeenInit
<1>2. Inv /\ Inv' /\ StoreInv /\ SyncAfterQueued /\ [Next]_vars /\ [~HalfwayWrite]_vars
          => StoreInv' /\ [Store!Next]_View
    BY StoreStep
<1>. QED
    BY <1>1, <1>2, SafetyCorrect, SyncQueuedSafe, PTL
       DEF Spec, ReadsAreAStore, Store!Spec

-----------------------------------------------------------------------------
(* Where no write can come upon a suspended one.                           *)

(* Without FLASH_SUSPEND the HAL never comes back half way.                *)
NothingHeld == ~FlashSuspend => \A m \in Mods : cur[m] = Null

LEMMA HeldStep ==
    ASSUME Inv, NothingHeld, [Next]_vars
    PROVE  NothingHeld'
<1>. SUFFICES ASSUME ~FlashSuspend, \A m \in Mods : cur[m] = Null
              PROVE  \A m \in Mods : cur'[m] = Null
    BY DEF NothingHeld
<1>1. cur \in [Mods -> Slots \cup {Null}]
    BY DEF Inv, TypeInv, TypeOK
<1>2. cur' = cur \/ \E m \in Mods : cur' = [cur EXCEPT ![m] = Null]
  <2>1. CASE UNCHANGED vars
    BY <2>1 DEF vars
  <2>2. CASE Client
    BY <2>2 DEF Client, EraseAsync, EraseSync, WriteAsync, WriteSync, SyncStart, current
  <2>3. CASE Gate \/ \E m \in Mods : Register(m)
    BY <2>3 DEF Gate, FlushEnableAll, FlushDisable, FlushEnable, CpChanges, current,
                Register
  <2>4. CASE Flush
    BY <2>4 DEF Flush, FlushRefused, FlushDone, FlushSuspended, FlushEmpty,
                OperaDone, OperaSuspended, current
  <2>5. CASE Sync
    <3>1. sync.pc \in {"other", "own"} => sync \in SyncCall
        BY DEF Inv, TypeInv, TypeOK, NoSync
    <3>2. SyncOther => sync.other \in Mods
        BY DEF SyncOther, SyncFinish, Inv, TypeInv, HasOther
    <3>3. SyncOwn => sync.mod \in Mods
        BY <3>1 DEF SyncOwn, SyncCall
    <3>. QED
        BY <2>5, <3>2, <3>3 DEF Sync, SyncWait, SyncWaitFor, SyncOther, SyncFinish, SyncOtherIdle, SyncFinished, SyncOwn,
                SyncOwnLeave, SyncHal, OperaDone, current
  <2>. QED
    BY <2>1, <2>2, <2>3, <2>4, <2>5 DEF Next
<1>. QED
    BY <1>1, <1>2

(* A suspended write holds its buffer: with one buffer, or with nothing    *)
(* ever suspended, a write finds no sector half programmed.                *)
LEMMA NotHalfway ==
    ASSUME Inv, NothingHeld, NBuf = 1 \/ ~FlashSuspend
    PROVE  ~HalfwayWrite
<1> SUFFICES ASSUME NEW m \in Mods, NEW s \in Sectors, NEW a \in Pages,
                    NEW n \in 1 .. NPage, NEW v \in Data, WriteAsync(m, s, a, n, v),
                    Deciding(m, s) = {}, Pending(m, s) # {}
             PROVE  FALSE
    BY DEF HalfwayWrite
<1>1. PICK y \in Pending(m, s) : node[y].type = "W" /\ node[y].lock
    BY DEF Deciding
<1>2. y \in opera[m] /\ y \in used /\ cur[m] # Null
    BY <1>1, SlotFacts DEF Pending, Inv, SafetyInv, ListInv, OnlyTailLocked, TypeInv, TypeOK
<1>3. node[y].buff \in bused /\ bused \subseteq Bufs
    BY <1>1, <1>2 DEF Inv, SafetyInv, BufInv, TypeInv, TypeOK
<1>4. PICK b \in Bufs : b \notin bused
    BY DEF WriteAsync, WOperaAdd, WNew, FirstFree
<1>5. CASE NBuf = 1
  <2>1. \A x \in Bufs : x = 1
    BY <1>5 DEF Bufs
  <2>. QED
    BY <1>3, <1>4, <2>1
<1>6. CASE ~FlashSuspend
    BY <1>2, <1>6 DEF NothingHeld
<1>. QED
    BY <1>5, <1>6

(* The same without conditions on the behaviour, for a device that does    *)
(* not suspend or a pool of one buffer, and nobody who disables flushing.  *)
THEOREM StoreRefinedPlain ==
    ASSUME StoreConstants, Users = {}, NBuf = 1 \/ ~FlashSuspend
    PROVE  Spec => ReadsAreAStore
<1>1. Init => NothingHeld
    BY DEF Init, NothingHeld
<1>2. Inv /\ NothingHeld /\ [Next]_vars => NothingHeld'
    BY HeldStep
<1>3. Inv /\ NothingHeld => ~HalfwayWrite
    BY NotHalfway
<1>4. Allowed
    BY DEF Allowed
<1>. QED
    BY <1>1, <1>2, <1>3, <1>4, SafetyCorrect, StoreRefined, PTL DEF Spec
=============================================================================
