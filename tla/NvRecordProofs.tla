--------------------------- MODULE NvRecordProofs ---------------------------
(***************************************************************************)
(* NvRecord: the inductive invariant and what it gives, for any number of  *)
(* changes and power failures.                                             *)
(***************************************************************************)
EXTENDS NvRecord, TLAPS

Newest(v) == v \in Version /\ committed <= v /\ v <= latest

(* The copy the machine is rewriting; queued operations touch no other.    *)
Current == IF state \in BakStates THEN "bak" ELSE "main"

Erasing == {"IDLE", "MAIN_ERASING", "MAIN_DONE", "BAK_ERASING"}
Erased  == {"MAIN_ERASED", "MAIN_WRITE_PENDING", "BAK_ERASED"}
Written == {"MAIN_WRITTEN", "BAK_WRITTEN"}
Burning == {"MAIN_WRITE_PENDING", "MAIN_WRITTEN", "BAK_WRITE_PENDING", "BAK_WRITTEN"}

(* What can be in the queue: one erase, first, then writes of the buffer.  *)
QueueInv ==
    /\ state \in Erasing => queue = <<>>
    /\ base # None => queue # <<>>
    /\ \A i \in 1 .. Len(queue) :
          /\ queue[i].copy = Current
          /\ queue[i].op = "erase" => i = 1
          /\ queue[i].op = "write" => state \notin Erased /\ queue[i].val = burn
    /\ state \in Written /\ queue # <<>> => queue[Len(queue)].op = "write"
    /\ state = "MAIN_WRITTEN" => \A i \in 1 .. Len(queue) - 1 : queue[i].op = "erase"

(* A write finds its sector erased, or holding the same image.             *)
Target == IF base = None THEN flash[Current] ELSE base
ReadyInv ==
    /\ state \in Erased /\ queue = <<>> => flash[Current] = Blank
    /\ state \in Written /\ queue = <<>> => flash[Current] = burn
    /\ state = "BAK_WRITE_PENDING" /\ queue = <<>> => flash["bak"] \in {Blank, burn}
    /\ queue # <<>> /\ queue[1].op = "write" => Target \in {Blank, burn}

(* Every image about is at least as new as the last one written twice, the *)
(* RAM image and the buffer newer than the copies, main newer than bak.    *)
AgeInv ==
    /\ committed <= latest
    /\ \A c \in Copies : Valid(c) => Newest(flash[c])
    /\ Valid("main") /\ Valid("bak") => flash["bak"] <= flash["main"]
    /\ power => Newest(ram) /\ \A c \in Copies : Valid(c) => flash[c] <= ram
    /\ state \in Burning =>
          Newest(burn) /\ burn <= ram /\ (Valid("bak") => flash["bak"] <= burn)

(* The copy that is not being rewritten is good; while a new device has no *)
(* backup, the main copy is not valid until its first write is complete.   *)
CopiesInv ==
    /\ state \in BakStates => Valid("main")
    /\ state \in {"BAK_WRITE_PENDING", "BAK_WRITTEN"} => burn = flash["main"]
    /\ ~Valid("bak") /\ state \notin BakStates /\ (state # "MAIN_WRITTEN" \/ queue # <<>>) /\ power
          => ~Valid("main")
    /\ ~Valid("bak") /\ state \notin BakStates /\ power => committed = 0
    /\ Recovered = 0 => committed = 0

(* Where the image is that a client saved, while nothing says it changed.  *)
ImageInv ==
    /\ ~power => ~is_update /\ ~unmarked /\ state = "IDLE" /\ sync = "no"
    /\ state \in {"MAIN_ERASING", "MAIN_ERASED"} => is_update
    /\ power /\ ~is_update /\ ~unmarked =>
          /\ state \in {"IDLE"} \cup BakStates => flash["main"] = ram
          /\ state \in {"MAIN_WRITE_PENDING", "MAIN_WRITTEN"} => burn = ram

SyncInv ==
    /\ sync = "main" => state \in MainStates \/ (state = "IDLE" /\ is_update)
    /\ sync = "bak" => state \in BakStates
    /\ sync = "bak_wait" => state = "BAK_WRITTEN"

Body == TypeOK /\ QueueInv /\ ReadyInv /\ AgeInv /\ CopiesInv /\ ImageInv
Inv  == Body /\ SyncInv

-----------------------------------------------------------------------------
(* Sequences.                                                              *)

LEMMA TailFacts ==
    ASSUME NEW S, NEW q \in Seq(S), q # <<>>
    PROVE  /\ Tail(q) \in Seq(S)
           /\ Len(Tail(q)) = Len(q) - 1
           /\ \A i \in 1 .. Len(q) - 1 : Tail(q)[i] = q[i + 1]
           /\ Tail(q) = <<>> <=> Len(q) = 1
           /\ Head(q) = q[1] /\ Head(q) \in S
  <1>1. /\ Tail(q) \in Seq(S)
        /\ Len(Tail(q)) = Len(q) - 1
        /\ \A i \in 1 .. Len(q) - 1 : Tail(q)[i] = q[i + 1]
    OBVIOUS
  <1>2. Len(q) \in Nat /\ Len(q) # 0
    OBVIOUS
  <1>3. Head(q) = q[1] /\ Head(q) \in S
    OBVIOUS
  <1>4. Tail(q) = <<>> <=> Len(Tail(q)) = 0
    BY <1>1
  <1> QED BY <1>1, <1>2, <1>3, <1>4

LEMMA AppendFacts ==
    ASSUME NEW S, NEW q \in Seq(S), NEW x \in S
    PROVE  /\ Append(q, x) \in Seq(S)
           /\ Append(q, x) # <<>>
           /\ Len(Append(q, x)) = Len(q) + 1
           /\ Append(q, x)[Len(q) + 1] = x
           /\ \A i \in 1 .. Len(q) : Append(q, x)[i] = q[i]
  OBVIOUS

LEMMA LastFacts ==
    ASSUME NEW S, NEW q \in Seq(S), NEW x \in S, q # <<>>
    PROVE  LET r == [q EXCEPT ![Len(q)] = x]
           IN  /\ r \in Seq(S) /\ r # <<>> /\ Len(r) = Len(q)
               /\ r[Len(q)] = x
               /\ \A i \in 1 .. Len(q) - 1 : r[i] = q[i]
  OBVIOUS

-----------------------------------------------------------------------------
(* Steps of the queue.                                                     *)

(* What a step of the oldest operation does to the flash.                  *)
LEMMA FlushFacts ==
    ASSUME Inv, FlushStart \/ FlushDone
    PROVE  /\ queue # <<>> /\ Head(queue) = queue[1] /\ queue[1] \in Op
           /\ queue[1].copy = Current /\ Current \in Copies
           /\ flash' \in [Copies -> Cell]
           /\ \A c \in Copies : c # Current => flash'[c] = flash[c]
           /\ flash'[Current] \in Version =>
                 flash'[Current] = burn /\ queue[1].op = "write"
           /\ state \notin Erasing
  <1>1. queue \in Seq(Op) /\ queue # <<>>
    BY DEF Inv, Body, TypeOK, FlushStart, FlushDone
  <1>2. Head(queue) = queue[1] /\ queue[1] \in Op /\ 1 \in 1 .. Len(queue)
    BY <1>1, TailFacts
  <1>3. queue[1].copy = Current /\ (queue[1].op = "write" => queue[1].val = burn)
    BY <1>2 DEF Inv, Body, QueueInv
  <1>4. Current \in Copies
    BY DEF Current, Copies
  <1>5. flash \in [Copies -> Cell] /\ base \in Cell \cup {None} /\ Bad \in Cell /\ Blank \in Cell
    BY DEF Inv, Body, TypeOK, Cell
  <1>6. queue[1].op \in {"erase", "write"} /\ queue[1].val \in Cell
    BY <1>2 DEF Op
  <1>7. CASE FlushStart
    <2>1. flash' = [flash EXCEPT ![Current] =
             IF queue[1].op = "write" /\ flash[Current] = queue[1].val
             THEN flash[Current] ELSE Bad]
      BY <1>7, <1>2, <1>3 DEF FlushStart
    <2>2. Bad \notin Version
      BY NvAssumption DEF Version
    <2> QED BY <2>1, <2>2, <1>1, <1>2, <1>3, <1>4, <1>5 DEF Inv, Body, QueueInv
  <1>8. CASE FlushDone
    <2>1. flash' = [flash EXCEPT ![Current] =
             IF queue[1].op = "erase" THEN Blank ELSE Programmed(base, queue[1].val)]
      BY <1>8, <1>2, <1>3 DEF FlushDone
    <2>2. Bad \notin Version /\ Blank \notin Version
      BY NvAssumption DEF Version
    <2>3. Programmed(base, queue[1].val) \in {queue[1].val, Bad}
      BY DEF Programmed
    <2> QED BY <2>1, <2>2, <2>3, <1>1, <1>2, <1>3, <1>4, <1>5, <1>6 DEF Inv, Body, QueueInv
  <1> QED BY <1>7, <1>8

(* A step of the oldest operation, when nothing else changes.              *)
LEMMA FlushQueue ==
    ASSUME Inv, FlushStart \/ FlushDone, UNCHANGED <<state, burn>>
    PROVE  /\ queue' \in Seq(Op) /\ base' \in Cell \cup {None}
           /\ QueueInv' /\ ReadyInv'
  <1>1. /\ queue # <<>> /\ Head(queue) = queue[1] /\ queue[1] \in Op
        /\ queue[1].copy = Current /\ Current \in Copies
        /\ flash' \in [Copies -> Cell] /\ flash \in [Copies -> Cell]
        /\ state \notin Erasing /\ state \in States
        /\ queue \in Seq(Op) /\ base \in Cell \cup {None}
        /\ Current' = Current
    BY FlushFacts DEF Inv, Body, TypeOK, Current
  <1>2. CASE FlushStart
    <2>1. /\ queue' = queue /\ base = None /\ base' = flash[Current]
      BY <1>1, <1>2 DEF FlushStart
    <2>2. base' \in Cell /\ base' # None
      BY <2>1, <1>1, NvAssumption DEF Cell, Version
    <2>3. QueueInv'
      BY <1>1, <2>1 DEF Inv, Body, QueueInv
    <2>4. ReadyInv'
      BY <1>1, <2>1, <2>2 DEF Inv, Body, ReadyInv, Target
    <2> QED BY <1>1, <2>1, <2>2, <2>3, <2>4
  <1>3. CASE FlushDone
    <2>1. /\ queue' = Tail(queue) /\ base' = None /\ base # None
          /\ flash'[Current] = IF queue[1].op = "erase" THEN Blank
                               ELSE Programmed(base, queue[1].val)
      BY <1>1, <1>3 DEF FlushDone
    <2>2. /\ queue' \in Seq(Op) /\ Len(queue') = Len(queue) - 1 /\ Len(queue) > 0 /\ Len(queue) \in Nat
          /\ \A i \in 1 .. Len(queue) - 1 : queue'[i] = queue[i + 1]
          /\ (queue' = <<>>) <=> (Len(queue) = 1)
      BY <2>1, <1>1, TailFacts
    <2>3. \A i \in 1 .. Len(queue') : /\ i + 1 \in 1 .. Len(queue) /\ queue'[i] = queue[i + 1]
                                      /\ queue[i + 1] \in Op
      BY <2>2, <1>1
    <2>4. \A i \in 1 .. Len(queue') :
             /\ queue'[i].copy = Current /\ queue'[i].op = "write"
             /\ state \notin Erased /\ queue'[i].val = burn
      BY <2>3 DEF Inv, Body, QueueInv, Op
    <2>5. QueueInv'
      <3>1. state \in Written /\ queue' # <<>> => queue'[Len(queue')].op = "write"
        BY <2>2, <2>4
      <3>2. state = "MAIN_WRITTEN" => \A i \in 1 .. Len(queue') - 1 : queue'[i].op = "erase"
        <4>1. state = "MAIN_WRITTEN" => \A i \in 1 .. Len(queue) - 1 : queue[i].op = "erase"
          BY DEF Inv, Body, QueueInv
        <4>2. \A i \in 1 .. Len(queue') - 1 : i + 1 \in 1 .. Len(queue) - 1
          BY <2>2
        <4> QED BY <4>1, <4>2, <2>3
      <3> QED BY <3>1, <3>2, <2>1, <2>4, <1>1 DEF QueueInv
    <2>6. flash'[Current] \in {Blank, burn}
      <3>1. CASE queue[1].op = "erase"
        BY <3>1, <2>1
      <3>2. CASE queue[1].op # "erase"
        <4>1. queue[1].op = "write"
          BY <3>2, <1>1 DEF Op
        <4>2. 1 \in 1 .. Len(queue)
          BY <2>2
        <4>3. queue[1].val = burn /\ base \in {Blank, burn}
          BY <4>1, <4>2, <2>1, <1>1 DEF Inv, Body, QueueInv, ReadyInv, Target
        <4> QED BY <4>1, <4>3, <2>1 DEF Programmed
      <3> QED BY <3>1, <3>2
    <2>7. ReadyInv'
      <3>1. state \in Erased => flash'[Current] = Blank
        <4>1. state \in Erased => queue[1].op # "write"
          BY <2>2 DEF Inv, Body, QueueInv
        <4> QED BY <4>1, <2>1, <1>1 DEF Op
      <3>2. state \in Written /\ queue' = <<>> => flash'[Current] = burn
        <4>1. state \in Written /\ queue' = <<>> => queue[1].op = "write"
          BY <2>2, <1>1 DEF Inv, Body, QueueInv
        <4>2. queue[1].op = "write" => queue[1].val = burn /\ base \in {Blank, burn}
          BY <2>1, <2>2, <1>1 DEF Inv, Body, QueueInv, ReadyInv, Target
        <4> QED BY <4>1, <4>2, <2>1 DEF Programmed
      <3>3. state = "BAK_WRITE_PENDING" => Current = "bak"
        BY DEF Current, BakStates
      <3> QED BY <3>1, <3>2, <3>3, <2>1, <2>6, <1>1 DEF ReadyInv, Target
    <2> QED BY <2>1, <2>2, <2>5, <2>7
  <1> QED BY <1>2, <1>3

LEMMA FlushStep ==
    ASSUME Inv, FlushStart \/ FlushDone,
           UNCHANGED <<power, crashes, client, is_update, state, burn, sync, committed>>
    PROVE  Inv'
  <1>1. /\ flash' \in [Copies -> Cell] /\ flash \in [Copies -> Cell]
        /\ \A c \in Copies : c # Current => flash'[c] = flash[c]
        /\ flash'[Current] \in Version => flash'[Current] = burn /\ queue[1].op = "write"
        /\ state \notin Erasing /\ state \in States
        /\ Current \in Copies
    BY FlushFacts DEF Inv, Body, TypeOK
  <1>2. queue' \in Seq(Op) /\ base' \in Cell \cup {None} /\ QueueInv' /\ ReadyInv'
    BY FlushQueue
  <1>3. power
    BY <1>1 DEF Inv, Body, ImageInv, Erasing
  <1>4. queue \in Seq(Op) /\ queue # <<>> /\ 1 \in 1 .. Len(queue)
    BY FlushFacts DEF Inv, Body, TypeOK
  <1>5. flash'[Current] \in Version => state \in Burning \cap {"MAIN_WRITTEN", "BAK_WRITE_PENDING", "BAK_WRITTEN"}
    <2>1. queue[1].op = "write" => state \notin Erased
      BY <1>4 DEF Inv, Body, QueueInv
    <2> QED BY <2>1, <1>1 DEF Erased, Erasing, States, MainStates, BakStates, Burning
  <1>6. TypeOK'
    BY <1>1, <1>2 DEF Inv, Body, TypeOK, client
  <1>7. AgeInv'
    <2>1. ASSUME NEW c \in Copies, flash'[c] \in Version
          PROVE  Newest(flash'[c])
      <3>1. CASE c = Current
        BY <3>1, <2>1, <1>1, <1>5 DEF Inv, Body, AgeInv
      <3>2. CASE c # Current
        BY <3>2, <2>1, <1>1 DEF Inv, Body, AgeInv, Valid
      <3> QED BY <3>1, <3>2
    <2>2. \A c \in Copies : flash'[c] \in Version => committed <= flash'[c] /\ flash'[c] <= latest
      BY <2>1 DEF Newest
    <2>3. state \in Burning => Newest(burn) /\ burn <= ram /\ (Valid("bak") => flash["bak"] <= burn)
      BY DEF Inv, Body, AgeInv
    <2>4. \A c \in Copies : flash'[c] \in Version => flash'[c] <= ram
      BY <1>1, <1>3, <1>5, <2>3 DEF Inv, Body, AgeInv, Valid
    <2>5. state \in Burning /\ flash'["bak"] \in Version => flash'["bak"] <= burn
      <3>1. burn \in Version => burn <= burn
        BY DEF Version
      <3> QED BY <1>1, <2>3, <3>1 DEF Copies, Valid, Newest
    <2>6. flash'["main"] \in Version /\ flash'["bak"] \in Version => flash'["bak"] <= flash'["main"]
      <3>1. CASE Current = "main"
        <4>1. flash'["bak"] = flash["bak"]
          BY <3>1, <1>1 DEF Copies
        <4>2. flash'["main"] \in Version => flash'["main"] = burn /\ state \in Burning
          BY <3>1, <1>1, <1>5
        <4> QED BY <4>1, <4>2, <2>3 DEF Valid
      <3>2. CASE Current = "bak"
        <4>1. flash'["main"] = flash["main"]
          BY <3>2, <1>1 DEF Copies
        <4>2. flash'["bak"] \in Version => flash'["bak"] = burn /\ state \in {"BAK_WRITE_PENDING", "BAK_WRITTEN"}
          BY <3>2, <1>1, <1>5 DEF Current, BakStates
        <4>3. state \in {"BAK_WRITE_PENDING", "BAK_WRITTEN"} => burn = flash["main"]
          BY DEF Inv, Body, CopiesInv
        <4> QED BY <4>1, <4>2, <4>3 DEF Version
      <3> QED BY <3>1, <3>2, <1>1 DEF Copies
    <2> QED BY <2>2, <2>3, <2>4, <2>5, <2>6 DEF Inv, Body, AgeInv, Newest, Valid, client
  <1>8. CopiesInv'
    <2>1. CASE state \in BakStates
      <3>1. flash'["main"] = flash["main"]
        BY <2>1, <1>1 DEF Current, Copies
      <3>2. flash["main"] \in Version /\ flash["main"] # 0
        BY <2>1 DEF Inv, Body, CopiesInv, Valid, Version
      <3> QED BY <2>1, <3>1, <3>2 DEF Inv, Body, CopiesInv, Valid, Recovered
    <2>2. CASE state \notin BakStates
      <3>1. flash'["bak"] = flash["bak"] /\ Current = "main"
        BY <2>2, <1>1 DEF Current, Copies
      <3>2. flash["bak"] \notin Version => committed = 0
        BY <1>3, <2>2 DEF Inv, Body, CopiesInv, Valid
      <3>3. flash'["bak"] \notin Version /\ (state # "MAIN_WRITTEN" \/ queue' # <<>>) => flash'["main"] \notin Version
        <4>1. SUFFICES ASSUME flash'["bak"] \notin Version, state # "MAIN_WRITTEN" \/ queue' # <<>>,
                              flash'["main"] \in Version
                       PROVE  FALSE
          OBVIOUS
        <4>2. state = "MAIN_WRITTEN" /\ queue' # <<>> /\ queue[1].op = "write" /\ flash'["main"] = burn
          BY <4>1, <3>1, <1>1, <1>5, <2>2 DEF BakStates
        <4>3. flash["main"] \notin Version
          BY <4>1, <3>1, <1>3, <1>4, <2>2 DEF Inv, Body, CopiesInv, Valid
        <4>4. CASE FlushStart
          <5>1. flash' = [flash EXCEPT !["main"] =
                   IF queue[1].op = "write" /\ @ = queue[1].val THEN @ ELSE Bad]
            BY <4>4, FlushFacts, <3>1 DEF FlushStart
          <5>2. flash'["main"] \in {flash["main"], Bad}
            BY <5>1, <1>1 DEF Copies
          <5> QED BY <5>2, <4>1, <4>3, NvAssumption DEF Version
        <4>5. CASE FlushDone
          <5>1. queue' = Tail(queue)
            BY <4>5 DEF FlushDone
          <5>2. Len(queue) # 1 /\ Len(queue) \in Nat /\ Len(queue) > 0
            BY <5>1, <4>2, <1>4, TailFacts
          <5>3. \A n \in Nat : n # 1 /\ n > 0 => 1 \in 1 .. n - 1
            OBVIOUS
          <5>4. 1 \in 1 .. Len(queue) - 1
            BY <5>2, <5>3
          <5> QED BY <5>4, <4>2 DEF Inv, Body, QueueInv
        <4> QED BY <4>4, <4>5, FlushFacts
      <3>4. 0 \notin Version
        BY DEF Version
      <3> QED BY <2>2, <3>1, <3>2, <3>3, <3>4 DEF CopiesInv, Valid, Recovered, BakStates
    <2> QED BY <2>1, <2>2
  <1>9. ImageInv'
    <2>1. state \in {"IDLE"} \cup BakStates => flash'["main"] = flash["main"]
      BY <1>1 DEF Current, Copies, Erasing
    <2> QED BY <2>1 DEF Inv, Body, ImageInv, client
  <1>10. SyncInv'
    BY DEF Inv, Body, SyncInv
  <1> QED BY <1>2, <1>6, <1>7, <1>8, <1>9, <1>10 DEF Inv, Body

(* When a written copy's queue has run empty, the copy holds the buffer.   *)
LEMMA LastFlush ==
    ASSUME Inv, FlushCall, state \in Written, queue' = <<>>
    PROVE  /\ base' = None /\ flash' \in [Copies -> Cell]
           /\ flash'[Current] = burn
           /\ \A c \in Copies : c # Current => flash'[c] = flash[c]
  <1>1. CASE UNCHANGED nor
    BY <1>1 DEF nor, Inv, Body, TypeOK, QueueInv, ReadyInv
  <1>2. CASE FlushStart
    BY <1>2 DEF FlushStart
  <1>3. CASE FlushDone
    <2>1. /\ queue # <<>> /\ Head(queue) = queue[1] /\ queue[1] \in Op
          /\ queue[1].copy = Current /\ Current \in Copies
          /\ flash' \in [Copies -> Cell] /\ flash \in [Copies -> Cell]
          /\ \A c \in Copies : c # Current => flash'[c] = flash[c]
          /\ queue \in Seq(Op)
      BY <1>3, FlushFacts DEF Inv, Body, TypeOK
    <2>2. Len(queue) = 1
      BY <1>3, <2>1, TailFacts DEF FlushDone
    <2>3. queue[1].op = "write" /\ queue[1].val = burn
      BY <2>1, <2>2 DEF Inv, Body, QueueInv
    <2>4. base # None /\ base' = None /\ base \in {Blank, burn}
      BY <1>3, <2>1, <2>3 DEF FlushDone, Inv, Body, ReadyInv, Target
    <2>5. flash'[Current] = Programmed(base, queue[1].val)
      BY <1>3, <2>1, <2>3 DEF FlushDone
    <2> QED BY <2>1, <2>3, <2>4, <2>5 DEF Programmed
  <1> QED BY <1>1, <1>2, <1>3 DEF FlushCall

-----------------------------------------------------------------------------
(* Steps of the state machine.                                             *)

Places == {"no", "head", "main", "bak", "bak_wait"}

LEMMA EraseQueued ==
    ASSUME Inv, power, sync' \in Places, NEW c \in Copies, QueueErase(c),
           \/ /\ c = "main" /\ state' = "MAIN_ERASED" /\ is_update
              /\ state \in {"IDLE", "MAIN_ERASING"}
           \/ /\ c = "bak" /\ state' = "BAK_ERASED"
              /\ state \in {"MAIN_DONE", "BAK_ERASING"},
           UNCHANGED <<base, flash, burn, is_update, power, crashes, client, committed>>
    PROVE  Body'
  <1>1. queue = <<>> /\ base = None /\ queue \in Seq(Op)
    BY DEF Inv, Body, TypeOK, QueueInv, Erasing
  <1>2. queue' = << [op |-> "erase", copy |-> c, val |-> Blank] >>
    BY <1>1 DEF QueueErase
  <1>3. queue' \in Seq(Op) /\ Len(queue') = 1 /\ queue' # <<>>
        /\ queue'[1] = [op |-> "erase", copy |-> c, val |-> Blank]
    BY <1>2 DEF Op, Cell, Copies
  <1>4. Current' = c
    BY DEF Current, BakStates
  <1>5. TypeOK'
    BY <1>3 DEF Inv, Body, TypeOK, States, MainStates, BakStates, client, Places
  <1>6. QueueInv'
    BY <1>1, <1>3, <1>4 DEF QueueInv, Erasing, Written
  <1>7. ReadyInv'
    BY <1>3 DEF ReadyInv
  <1>8. AgeInv'
    BY DEF Inv, Body, AgeInv, Newest, Valid, Burning, client
  <1>9. CopiesInv'
    BY <1>1 DEF Inv, Body, CopiesInv, Valid, Recovered, BakStates
  <1>10. ImageInv'
    BY DEF Inv, Body, ImageInv, BakStates, client
  <1> QED BY <1>5, <1>6, <1>7, <1>8, <1>9, <1>10 DEF Body

LEMMA EraseRefused ==
    ASSUME Inv, power, sync' \in Places, FlushCall,
           \/ /\ state \in {"IDLE", "MAIN_ERASING"} /\ is_update
              /\ state' \in {state, "MAIN_ERASING"}
           \/ /\ state \in {"MAIN_DONE", "BAK_ERASING"}
              /\ state' \in {state, "BAK_ERASING"},
           UNCHANGED <<burn, is_update, power, crashes, client, committed>>
    PROVE  Body'
  <1>1. queue = <<>> /\ base = None
    BY DEF Inv, Body, TypeOK, QueueInv, Erasing
  <1>2. UNCHANGED nor
    BY <1>1 DEF FlushCall, FlushStart, FlushDone
  <1>3. UNCHANGED <<queue, base, flash>>
    BY <1>2 DEF nor
  <1>4. TypeOK'
    BY <1>3 DEF Inv, Body, TypeOK, States, MainStates, BakStates, client, Places
  <1>5. QueueInv'
    BY <1>1, <1>3 DEF QueueInv, Erasing, Written
  <1>6. ReadyInv'
    BY <1>1, <1>3 DEF ReadyInv, Erased, Written
  <1>7. AgeInv'
    BY <1>3 DEF Inv, Body, AgeInv, Newest, Valid, Burning, client
  <1>8. CopiesInv'
    BY <1>1, <1>3 DEF Inv, Body, CopiesInv, Valid, Recovered, BakStates
  <1>9. ImageInv'
    BY <1>3 DEF Inv, Body, ImageInv, BakStates, client
  <1> QED BY <1>4, <1>5, <1>6, <1>7, <1>8, <1>9 DEF Body

LEMMA CopyStep ==
    ASSUME Inv, power, sync' \in Places, Copy,
           UNCHANGED <<power, crashes, client, committed>>
    PROVE  Body'
  <1>1. /\ state = "MAIN_ERASED" /\ state' = "MAIN_WRITE_PENDING"
        /\ burn' = ram /\ is_update' = FALSE
        /\ UNCHANGED <<queue, base, flash>>
        /\ Current = "main" /\ Current' = "main"
    BY DEF Copy, nor, Current, BakStates
  <1>2. TypeOK'
    BY <1>1 DEF Inv, Body, TypeOK, States, MainStates, BakStates, client, Places, Cell
  <1>3. QueueInv'
    BY <1>1 DEF Inv, Body, QueueInv, Erasing, Written, Erased
  <1>4. ReadyInv'
    BY <1>1 DEF Inv, Body, ReadyInv, Target, Written, Erased, TypeOK, QueueInv, Op
  <1>5. AgeInv'
    <2>1. Newest(ram) /\ \A c \in Copies : Valid(c) => flash[c] <= ram
      BY DEF Inv, Body, AgeInv
    <2>2. ram <= ram
      BY <2>1 DEF Newest, Version
    <2> QED BY <1>1, <2>1, <2>2 DEF Inv, Body, AgeInv, Newest, Valid, Burning, client, Copies
  <1>6. CopiesInv'
    BY <1>1 DEF Inv, Body, CopiesInv, Valid, Recovered, BakStates
  <1>7. ImageInv'
    BY <1>1 DEF Inv, Body, ImageInv, BakStates, client
  <1> QED BY <1>2, <1>3, <1>4, <1>5, <1>6, <1>7 DEF Body

LEMMA WriteStep ==
    ASSUME Inv, power, sync' \in Places, NEW c \in Copies, QueueWrite(c, burn),
           \/ c = "main" /\ state = "MAIN_WRITE_PENDING" /\ state' = "MAIN_WRITTEN"
           \/ c = "bak" /\ state = "BAK_WRITE_PENDING" /\ state' = "BAK_WRITTEN",
           UNCHANGED <<base, flash, burn, is_update, power, crashes, client, committed>>
    PROVE  Body'
  <1> DEFINE w == [op |-> "write", copy |-> c, val |-> burn]
  <1>1. /\ Current = c /\ Current' = c
        /\ queue \in Seq(Op) /\ w \in Op
        /\ w.op = "write" /\ w.copy = c /\ w.val = burn
    BY DEF Current, BakStates, Inv, Body, TypeOK, Op
  <1> HIDE DEF w
  <1>2. /\ queue' \in Seq(Op) /\ Len(queue') > 0 /\ Len(queue') \in Nat /\ queue' # <<>>
        /\ queue'[Len(queue')] = w
        /\ \A i \in 1 .. Len(queue') - 1 : i \in 1 .. Len(queue) /\ queue'[i] = queue[i]
        /\ queue = <<>> => Len(queue') = 1
        /\ Len(queue') = 1 => queue = <<>> \/ queue[1].op = "write"
    <2>1. CASE Mergeable(c)
      <3>1. queue' = [queue EXCEPT ![Len(queue)] = w] /\ queue # <<>>
        BY <2>1 DEF QueueWrite, Mergeable, w
      <3>2. queue' \in Seq(Op) /\ queue' # <<>> /\ Len(queue') = Len(queue)
            /\ queue'[Len(queue)] = w
            /\ \A i \in 1 .. Len(queue) - 1 : queue'[i] = queue[i]
        BY <3>1, <1>1, LastFacts
      <3>3. Len(queue) = 1 => queue[1].op = "write"
        BY <2>1 DEF Mergeable
      <3>4. Len(queue) \in Nat /\ Len(queue) > 0
        BY <1>1, <3>1
      <3>5. \A n \in Nat : \A i \in 1 .. n - 1 : i \in 1 .. n
        OBVIOUS
      <3>6. \A i \in 1 .. Len(queue) - 1 : i \in 1 .. Len(queue)
        BY <3>4, <3>5
      <3>7. Len(queue') = Len(queue) /\ queue'[Len(queue')] = w
        BY <3>2
      <3>8. \A i \in 1 .. Len(queue') - 1 : i \in 1 .. Len(queue) /\ queue'[i] = queue[i]
        BY <3>2, <3>6, <3>7
      <3> QED BY <3>1, <3>2, <3>3, <3>4, <3>7, <3>8
    <2>2. CASE ~ Mergeable(c)
      <3>1. queue' = Append(queue, w)
        BY <2>2 DEF QueueWrite, w
      <3>2. queue' \in Seq(Op) /\ queue' # <<>> /\ Len(queue') = Len(queue) + 1
            /\ queue'[Len(queue) + 1] = w
            /\ \A i \in 1 .. Len(queue) : queue'[i] = queue[i]
        BY <3>1, <1>1, AppendFacts
      <3>3. Len(queue) \in Nat /\ (queue = <<>> <=> Len(queue) = 0)
        BY <1>1
      <3> QED BY <3>2, <3>3
    <2> QED BY <2>1, <2>2
  <1>3. TypeOK'
    BY <1>2 DEF Inv, Body, TypeOK, States, MainStates, BakStates, client, Places
  <1>4. QueueInv'
    <2>1. state' \notin Erasing /\ state' \notin Erased
      BY DEF Erasing, Erased
    <2>2. ASSUME NEW i \in 1 .. Len(queue')
          PROVE  /\ queue'[i].copy = c
                 /\ queue'[i].op = "erase" => i = 1
                 /\ queue'[i].op = "write" => queue'[i].val = burn
      <3>1. CASE i = Len(queue')
        BY <3>1, <1>1, <1>2
      <3>2. CASE i # Len(queue')
        <4>1. i \in 1 .. Len(queue') - 1
          BY <3>2, <1>2
        <4>2. i \in 1 .. Len(queue) /\ queue'[i] = queue[i]
          BY <4>1, <1>2
        <4> QED BY <4>2, <1>1 DEF Inv, Body, QueueInv
      <3> QED BY <3>1, <3>2
    <2>3. queue'[Len(queue')].op = "write"
      BY <1>1, <1>2
    <2>4. ASSUME state' = "MAIN_WRITTEN", NEW i \in 1 .. Len(queue') - 1
          PROVE  queue'[i].op = "erase"
      <3>1. i \in 1 .. Len(queue) /\ queue'[i] = queue[i] /\ queue[i] \in Op
        BY <1>1, <1>2
      <3>2. state \in Erased
        BY <2>4 DEF Erased
      <3> QED BY <3>1, <3>2 DEF Inv, Body, QueueInv, Op
    <2> QED BY <2>1, <2>2, <2>3, <2>4, <1>1, <1>2 DEF QueueInv
  <1>5. ReadyInv'
    <2>1. state' \notin Erased /\ state' # "BAK_WRITE_PENDING"
      BY DEF Erased
    <2>2. ASSUME queue'[1].op = "write" PROVE Target \in {Blank, burn}
      <3>1. CASE queue = <<>>
        <4>1. base = None
          BY <3>1 DEF Inv, Body, QueueInv
        <4> QED BY <3>1, <4>1, <1>1 DEF Inv, Body, ReadyInv, Target, Erased
      <3>2. CASE queue # <<>>
        <4>1. queue[1].op = "write"
          <5>1. CASE Len(queue') = 1
            BY <5>1, <3>2, <1>2
          <5>2. CASE Len(queue') # 1
            <6>1. \A n \in Nat : n # 1 /\ n > 0 => 1 \in 1 .. n - 1
              OBVIOUS
            <6>2. 1 \in 1 .. Len(queue') - 1
              BY <5>2, <6>1, <1>2
            <6> QED BY <6>2, <1>2, <2>2
          <5> QED BY <5>1, <5>2
        <4> QED BY <3>2, <4>1 DEF Inv, Body, ReadyInv
      <3> QED BY <3>1, <3>2
    <2>3. Target' = Target
      BY <1>1 DEF Target
    <2> QED BY <2>1, <2>2, <2>3, <1>2 DEF ReadyInv
  <1>6. AgeInv'
    BY DEF Inv, Body, AgeInv, Newest, Valid, Burning, client
  <1>7. CopiesInv'
    BY <1>2 DEF Inv, Body, CopiesInv, Valid, Recovered, BakStates
  <1>8. ImageInv'
    BY DEF Inv, Body, ImageInv, BakStates, client
  <1> QED BY <1>3, <1>4, <1>5, <1>6, <1>7, <1>8 DEF Body

LEMMA ReadStep ==
    ASSUME Inv, power, sync' \in Places, ReadMain,
           state \in {"BAK_ERASED", "BAK_WRITTEN"},
           UNCHANGED <<power, crashes, client, committed>>
    PROVE  Body'
  <1>1. /\ state' = "BAK_WRITE_PENDING" /\ UNCHANGED <<queue, base, flash, is_update>>
        /\ Current = "bak" /\ Current' = "bak"
    BY DEF ReadMain, nor, Current, BakStates
  <1>2. Queued("main") = {}
    BY <1>1 DEF Queued, Inv, Body, QueueInv, TypeOK
  <1>3. burn' = flash["main"] /\ flash["main"] \in Version
    BY <1>1, <1>2 DEF ReadMain, Visible, Inv, Body, CopiesInv, Valid, BakStates
  <1>4. state = "BAK_WRITTEN" => burn' = burn
    BY <1>3 DEF Inv, Body, CopiesInv
  <1>5. TypeOK'
    BY <1>1, <1>3 DEF Inv, Body, TypeOK, States, MainStates, BakStates, client, Places, Cell
  <1>6. QueueInv'
    BY <1>1, <1>4 DEF Inv, Body, QueueInv, Erasing, Written, Erased
  <1>7. ReadyInv'
    BY <1>1, <1>4 DEF Inv, Body, ReadyInv, Target, Written, Erased, TypeOK, QueueInv, Op
  <1>8. AgeInv'
    BY <1>1, <1>3 DEF Inv, Body, AgeInv, Newest, Valid, Burning, client, Copies
  <1>9. CopiesInv'
    BY <1>1, <1>3 DEF Inv, Body, CopiesInv, Valid, Recovered, BakStates
  <1>10. ImageInv'
    BY <1>1 DEF Inv, Body, ImageInv, BakStates, client
  <1> QED BY <1>5, <1>6, <1>7, <1>8, <1>9, <1>10 DEF Body

(* The main copy is complete.                                              *)
LEMMA MainDone ==
    ASSUME Inv, power, sync' \in Places, FlushCall, queue' = <<>>,
           state = "MAIN_WRITTEN", state' = "MAIN_DONE",
           UNCHANGED <<power, crashes, client, committed, burn, is_update>>
    PROVE  Body'
  <1>1. /\ base' = None /\ flash' \in [Copies -> Cell]
        /\ flash'["main"] = burn /\ flash'["bak"] = flash["bak"]
    BY LastFlush DEF Written, Current, BakStates, Copies
  <1>2. Newest(burn)
    BY DEF Inv, Body, AgeInv, Burning
  <1>3. TypeOK'
    BY <1>1 DEF Inv, Body, TypeOK, States, MainStates, BakStates, client, Places
  <1>4. QueueInv'
    BY <1>1 DEF QueueInv, Written
  <1>5. ReadyInv'
    BY <1>1 DEF ReadyInv, Erased, Written
  <1>6. AgeInv'
    BY <1>1, <1>2 DEF Inv, Body, AgeInv, Newest, Valid, Burning, client, Copies
  <1>7. CopiesInv'
    BY <1>1, <1>2 DEF CopiesInv, Valid, Recovered, BakStates, Newest, Version
  <1>8. ImageInv'
    BY <1>1 DEF Inv, Body, ImageInv, BakStates, client
  <1> QED BY <1>3, <1>4, <1>5, <1>6, <1>7, <1>8 DEF Body

(* Both copies are complete.                                               *)
LEMMA CommitStep ==
    ASSUME Inv, power, sync' \in Places, FlushCall, queue' = <<>>,
           state = "BAK_WRITTEN", Commit,
           UNCHANGED <<power, crashes, client, burn, is_update>>
    PROVE  Body'
  <1>1. /\ base' = None /\ flash' \in [Copies -> Cell]
        /\ flash'["bak"] = burn /\ flash'["main"] = flash["main"]
        /\ state' = "IDLE" /\ committed' = burn
    BY LastFlush DEF Written, Current, BakStates, Copies, Commit
  <1>2. Newest(burn) /\ flash["main"] = burn
    BY DEF Inv, Body, AgeInv, Burning, CopiesInv
  <1>3. burn <= MaxVersion /\ burn \in Nat /\ burn # 0
    BY <1>2 DEF Newest, Version
  <1>4. TypeOK'
    BY <1>1, <1>3 DEF Inv, Body, TypeOK, States, MainStates, BakStates, client, Places
  <1>5. QueueInv'
    BY <1>1 DEF QueueInv, Written
  <1>6. ReadyInv'
    BY <1>1 DEF ReadyInv, Erased, Written
  <1>7. AgeInv'
    <2>1. UNCHANGED <<ram, latest>> /\ latest \in Version
      BY DEF client, Inv, Body, TypeOK
    <2>2. Newest(ram) /\ burn <= ram
      BY DEF Inv, Body, AgeInv, Burning
    <2> QED BY <1>1, <1>2, <1>3, <2>1, <2>2 DEF Inv, Body, AgeInv, Newest, Valid, Burning, Copies
  <1>8. CopiesInv'
    BY <1>1, <1>2, <1>3 DEF CopiesInv, Valid, Recovered, BakStates, Newest, Version
  <1>9. ImageInv'
    BY <1>1 DEF Inv, Body, ImageInv, BakStates, client
  <1> QED BY <1>4, <1>5, <1>6, <1>7, <1>8, <1>9 DEF Body

-----------------------------------------------------------------------------
(* The actions.                                                            *)

LEMMA FlushCallKeeps ==
    ASSUME Inv, FlushCall, sync' = sync,
           UNCHANGED <<power, crashes, client, is_update, state, burn, committed>>
    PROVE  Inv'
  <1>1. CASE UNCHANGED nor
    <2>1. UNCHANGED vars
      BY <1>1 DEF vars
    <2> QED BY <2>1 DEF vars, client, nor, Inv, Body, TypeOK, QueueInv, ReadyInv, AgeInv,
               CopiesInv, ImageInv, SyncInv, Current, Target, Newest, Valid, Recovered
  <1>2. CASE FlushStart \/ FlushDone
    BY <1>2, FlushStep
  <1> QED BY <1>1, <1>2 DEF FlushCall

LEMMA InitInv == Init => Inv
  <1> SUFFICES ASSUME Init PROVE Inv
    OBVIOUS
  <1>1. queue = <<>> /\ queue \in Seq(Op) /\ Len(queue) = 0
    BY DEF Init
  <1>2. Default \in Version /\ Blank \notin Version
    BY NvAssumption DEF Default, Version
  <1>3. flash["main"] = Blank /\ flash["bak"] = Blank /\ flash \in [Copies -> Cell]
    BY DEF Init, Copies, Cell
  <1>4. TypeOK
    <2>1. 0 <= MaxVersion
      BY NvAssumption
    <2> QED BY <1>1, <1>2, <1>3, <2>1 DEF Init, TypeOK, States, Cell
  <1>5. QueueInv /\ ReadyInv
    BY <1>1 DEF Init, QueueInv, ReadyInv, Erased, Written
  <1>6. AgeInv
    BY <1>2, <1>3 DEF Init, AgeInv, Valid, Burning, Default, Copies
  <1>7. CopiesInv /\ ImageInv /\ SyncInv
    BY <1>2, <1>3 DEF Init, CopiesInv, ImageInv, SyncInv, Valid, Recovered, BakStates
  <1> QED BY <1>4, <1>5, <1>6, <1>7 DEF Inv, Body

LEMMA FlushMainAsyncInv == Inv /\ FlushMainAsync => Inv'
  <1> SUFFICES ASSUME Inv, FlushMainAsync PROVE Inv'
    OBVIOUS
  <1>1. /\ power /\ sync' = sync /\ sync' \in Places
        /\ UNCHANGED <<power, crashes, client, committed>>
    BY DEF FlushMainAsync, AsyncCall, Places
  <1>2. SyncInv'
    BY DEF FlushMainAsync, AsyncCall, SyncInv
  <1>3. ASSUME (state = "IDLE" /\ is_update) \/ state = "MAIN_ERASING",
               Erase("main", "MAIN_ERASED", "MAIN_ERASING"), UNCHANGED <<burn, is_update>>
        PROVE  Body'
    <2>1. is_update /\ "main" \in Copies
      BY <1>3 DEF Inv, Body, ImageInv, Copies
    <2> QED BY <1>1, <1>3, <2>1, EraseQueued, EraseRefused DEF Erase
  <1>4. ASSUME Copy PROVE Body'
    BY <1>1, <1>4, CopyStep
  <1>5. ASSUME state = "MAIN_WRITE_PENDING", Write("main", "MAIN_WRITTEN"), UNCHANGED <<burn, is_update>>
        PROVE  Body'
    <2>1. CASE QueueWrite("main", burn) /\ state' = "MAIN_WRITTEN" /\ UNCHANGED <<base, flash>>
      BY <1>1, <1>5, <2>1, WriteStep DEF Copies
    <2>2. CASE FlushCall /\ UNCHANGED state
      BY <1>1, <1>5, <2>2, FlushCallKeeps DEF Inv
    <2> QED BY <1>5, <2>1, <2>2 DEF Write
  <1>6. ASSUME state = "MAIN_WRITTEN", UNCHANGED <<burn, is_update>>,
               IF queue = <<>> THEN state' = "MAIN_DONE" /\ UNCHANGED nor
               ELSE UNCHANGED state /\ FlushCall
        PROVE  Body'
    <2>1. CASE queue = <<>>
      <3>1. FlushCall /\ queue' = <<>> /\ state' = "MAIN_DONE"
        BY <1>6, <2>1 DEF FlushCall, nor
      <3> QED BY <1>1, <1>6, <3>1, MainDone
    <2>2. CASE queue # <<>>
      BY <1>1, <1>6, <2>2, FlushCallKeeps DEF Inv
    <2> QED BY <2>1, <2>2
  <1> QED BY <1>2, <1>3, <1>4, <1>5, <1>6 DEF FlushMainAsync, Inv

LEMMA FlushBakAsyncInv == Inv /\ FlushBakAsync => Inv'
  <1> SUFFICES ASSUME Inv, FlushBakAsync PROVE Inv'
    OBVIOUS
  <1>1. /\ power /\ sync' = sync /\ sync' \in Places
        /\ UNCHANGED <<power, crashes, client>>
    BY DEF FlushBakAsync, AsyncCall, Places
  <1>2. SyncInv'
    BY DEF FlushBakAsync, AsyncCall, SyncInv
  <1>3. ASSUME state \in {"MAIN_DONE", "BAK_ERASING"},
               Erase("bak", "BAK_ERASED", "BAK_ERASING"), UNCHANGED <<burn, is_update, committed>>
        PROVE  Body'
    BY <1>1, <1>3, EraseQueued, EraseRefused DEF Erase, Copies
  <1>4. ASSUME state = "BAK_ERASED", ReadMain, UNCHANGED committed PROVE Body'
    BY <1>1, <1>4, ReadStep
  <1>5. ASSUME state = "BAK_WRITE_PENDING", Write("bak", "BAK_WRITTEN"),
               UNCHANGED <<burn, is_update, committed>>
        PROVE  Body'
    <2>1. CASE QueueWrite("bak", burn) /\ state' = "BAK_WRITTEN" /\ UNCHANGED <<base, flash>>
      BY <1>1, <1>5, <2>1, WriteStep DEF Copies
    <2>2. CASE FlushCall /\ UNCHANGED state
      BY <1>1, <1>5, <2>2, FlushCallKeeps DEF Inv
    <2> QED BY <1>5, <2>1, <2>2 DEF Write
  <1>6. ASSUME state = "BAK_WRITTEN", UNCHANGED <<burn, is_update>>,
               IF queue = <<>> THEN Commit /\ UNCHANGED nor
               ELSE UNCHANGED <<state, committed>> /\ FlushCall
        PROVE  Body'
    <2>1. CASE queue = <<>>
      <3>1. FlushCall /\ queue' = <<>> /\ Commit
        BY <1>6, <2>1 DEF FlushCall, nor
      <3> QED BY <1>1, <1>6, <3>1, CommitStep
    <2>2. CASE queue # <<>>
      BY <1>1, <1>6, <2>2, FlushCallKeeps DEF Inv
    <2> QED BY <2>1, <2>2
  <1> QED BY <1>2, <1>3, <1>4, <1>5, <1>6 DEF FlushBakAsync, Inv

LEMMA SyncInvs == Inv /\ (SyncCall \/ SyncHead) => Inv'
  <1> SUFFICES ASSUME Inv, SyncCall \/ SyncHead PROVE Inv'
    OBVIOUS
  <1>1. /\ UNCHANGED <<power, crashes, client, is_update, state, burn, nor, committed>>
        /\ sync' \in Places /\ power
    BY DEF SyncCall, SyncHead, SyncIn, Places
  <1>2. SyncInv'
    BY DEF SyncCall, SyncHead, SyncIn, SyncInv
  <1> QED BY <1>1, <1>2 DEF client, nor, Inv, Body, TypeOK, QueueInv, ReadyInv, AgeInv,
             CopiesInv, ImageInv, Current, Target, Newest, Valid, Recovered, Places

LEMMA SyncMainInv == Inv /\ SyncMain => Inv'
  <1> SUFFICES ASSUME Inv, SyncMain PROVE Inv'
    OBVIOUS
  <1>1. /\ power /\ sync = "main" /\ sync' \in Places
        /\ UNCHANGED <<power, crashes, client, committed>>
    BY DEF SyncMain, SyncIn, Places
  <1>2. ASSUME SyncIn("main", "main"), state \in {"IDLE", "MAIN_ERASING"},
               Erase("main", "MAIN_ERASED", state), UNCHANGED <<burn, is_update>>
        PROVE  Inv'
    <2>1. is_update /\ "main" \in Copies
      BY <1>1, <1>2 DEF Inv, Body, ImageInv, SyncInv, Copies, MainStates
    <2>2. Body'
      BY <1>1, <1>2, <2>1, EraseQueued, EraseRefused DEF Erase
    <2>3. SyncInv'
      BY <1>2, <2>1 DEF SyncIn, SyncInv, Erase, MainStates
    <2> QED BY <2>2, <2>3 DEF Inv
  <1>3. ASSUME SyncIn("main", "main"), Copy PROVE Inv'
    <2>1. SyncInv'
      BY <1>3 DEF SyncIn, SyncInv, Copy, MainStates
    <2> QED BY <1>1, <1>3, <2>1, CopyStep DEF Inv
  <1>4. ASSUME SyncIn("main", "main"), state = "MAIN_WRITE_PENDING",
               Write("main", "MAIN_WRITTEN"), UNCHANGED <<burn, is_update>>
        PROVE  Inv'
    <2>1. CASE QueueWrite("main", burn) /\ state' = "MAIN_WRITTEN" /\ UNCHANGED <<base, flash>>
      <3>1. Body'
        BY <1>1, <1>4, <2>1, WriteStep DEF Copies
      <3>2. SyncInv'
        BY <1>4, <2>1 DEF SyncIn, SyncInv, MainStates
      <3> QED BY <3>1, <3>2 DEF Inv
    <2>2. CASE FlushCall /\ UNCHANGED state
      BY <1>1, <1>4, <2>2, FlushCallKeeps DEF SyncIn
    <2> QED BY <1>4, <2>1, <2>2 DEF Write
  <1>5. ASSUME state = "MAIN_WRITTEN", FlushCall, UNCHANGED <<burn, is_update>>,
               IF queue' = <<>> THEN SyncIn("main", "bak") /\ state' = "MAIN_DONE"
               ELSE SyncIn("main", "main") /\ UNCHANGED state
        PROVE  Inv'
    <2>1. CASE queue' = <<>>
      <3>1. Body'
        BY <1>1, <1>5, <2>1, MainDone
      <3>2. SyncInv'
        BY <1>5, <2>1 DEF SyncIn, SyncInv, BakStates
      <3> QED BY <3>1, <3>2 DEF Inv
    <2>2. CASE queue' # <<>>
      BY <1>1, <1>5, <2>2, FlushCallKeeps DEF SyncIn
    <2> QED BY <2>1, <2>2
  <1> QED BY <1>2, <1>3, <1>4, <1>5 DEF SyncMain

LEMMA SyncBakInv == Inv /\ SyncBak => Inv'
  <1> SUFFICES ASSUME Inv, SyncBak PROVE Inv'
    OBVIOUS
  <1>1. /\ power /\ sync = "bak" /\ sync' \in Places
        /\ UNCHANGED <<power, crashes, client, committed>>
    BY DEF SyncBak, SyncIn, Places
  <1>2. ASSUME SyncIn("bak", "bak"), state \in {"MAIN_DONE", "BAK_ERASING"},
               Erase("bak", "BAK_ERASED", state), UNCHANGED <<burn, is_update>>
        PROVE  Inv'
    <2>1. Body'
      BY <1>1, <1>2, EraseQueued, EraseRefused DEF Erase, Copies
    <2>2. SyncInv'
      BY <1>2 DEF SyncIn, SyncInv, Erase, BakStates
    <2> QED BY <2>1, <2>2 DEF Inv
  <1>3. ASSUME SyncIn("bak", "bak"), state \in {"BAK_ERASED", "BAK_WRITTEN"}, ReadMain
        PROVE  Inv'
    <2>1. SyncInv'
      BY <1>3 DEF SyncIn, SyncInv, ReadMain, BakStates
    <2> QED BY <1>1, <1>3, <2>1, ReadStep DEF Inv
  <1>4. ASSUME state = "BAK_WRITE_PENDING", UNCHANGED <<burn, is_update>>,
               SyncIn("bak", "bak_wait"), QueueWrite("bak", burn),
               state' = "BAK_WRITTEN", UNCHANGED <<base, flash>>
        PROVE  Inv'
    <2>1. Body'
      BY <1>1, <1>4, WriteStep DEF Copies
    <2>2. SyncInv'
      BY <1>4 DEF SyncIn, SyncInv
    <2> QED BY <2>1, <2>2 DEF Inv
  <1>5. ASSUME state = "BAK_WRITE_PENDING", UNCHANGED <<burn, is_update>>,
               SyncIn("bak", "bak"), FlushCall, UNCHANGED state
        PROVE  Inv'
    BY <1>1, <1>5, FlushCallKeeps DEF SyncIn
  <1> QED BY <1>2, <1>3, <1>4, <1>5 DEF SyncBak

LEMMA SyncBakWaitInv == Inv /\ SyncBakWait => Inv'
  <1> SUFFICES ASSUME Inv, SyncBakWait PROVE Inv'
    OBVIOUS
  <1>1. /\ power /\ sync = "bak_wait" /\ sync' \in Places /\ FlushCall
        /\ UNCHANGED <<power, crashes, client, burn, is_update>>
        /\ state = "BAK_WRITTEN"
    BY DEF SyncBakWait, SyncIn, Places, Inv, SyncInv
  <1>2. CASE queue' = <<>>
    <2>1. Body'
      BY <1>1, <1>2, CommitStep DEF SyncBakWait
    <2>2. SyncInv'
      BY <1>2 DEF SyncBakWait, SyncIn, SyncInv
    <2> QED BY <2>1, <2>2 DEF Inv
  <1>3. CASE queue' # <<>>
    BY <1>1, <1>3, FlushCallKeeps DEF SyncBakWait, SyncIn
  <1> QED BY <1>2, <1>3

LEMMA ClientInv == Inv /\ (WriteRam \/ ExtensionUpdate) => Inv'
  <1> SUFFICES ASSUME Inv, WriteRam \/ ExtensionUpdate PROVE Inv'
    OBVIOUS
  <1>1. /\ UNCHANGED <<power, crashes, state, burn, sync, queue, base, flash, committed>>
        /\ power /\ latest \in Version /\ ram \in Version
        /\ committed <= latest /\ Newest(ram)
    BY DEF WriteRam, ExtensionUpdate, nor, Inv, Body, TypeOK, AgeInv
  <1>2. /\ latest' \in Version /\ ram' \in Version
        /\ latest <= latest' /\ ram <= ram' /\ ram' <= latest'
    <2>1. CASE WriteRam
      <3>1. latest' = latest + 1 /\ ram' = latest + 1 /\ latest < MaxVersion
        BY <2>1 DEF WriteRam
      <3>2. MaxVersion \in Nat /\ latest \in Nat /\ ram \in Nat /\ ram <= latest /\ 1 <= latest
        BY <1>1, NvAssumption DEF Newest, Version
      <3> QED BY <3>1, <3>2 DEF Version
    <2>2. CASE ExtensionUpdate
      <3>1. latest' = latest /\ ram' = ram
        BY <2>2 DEF ExtensionUpdate
      <3> QED BY <3>1, <1>1 DEF Newest, Version
    <2> QED BY <2>1, <2>2
  <1>3. committed \in Nat /\ \A v \in Version : v <= latest => v <= latest'
    BY <1>1, <1>2 DEF Version, Inv, Body, TypeOK
  <1>4. TypeOK'
    BY <1>1, <1>2 DEF WriteRam, ExtensionUpdate, Inv, Body, TypeOK
  <1>5. QueueInv' /\ ReadyInv'
    BY <1>1 DEF Inv, Body, QueueInv, ReadyInv, Current, Target
  <1>6. AgeInv'
    <2>1. \A v : Newest(v) => v \in Version /\ committed <= v /\ v <= latest'
      BY <1>3 DEF Newest
    <2>2. \A v \in Version : v <= ram => v <= ram'
      BY <1>1, <1>2 DEF Version
    <2>3. committed <= latest' /\ committed <= ram'
      BY <1>1, <1>2, <1>3 DEF Newest, Version
    <2>4. \A c \in Copies : Valid(c) => Newest(flash[c]) /\ flash[c] <= ram
      BY <1>1 DEF Inv, Body, AgeInv
    <2>5. state \in Burning => Newest(burn) /\ burn <= ram
      BY DEF Inv, Body, AgeInv
    <2>6. \A c \in Copies : flash[c] \in Version => flash[c] <= ram'
      BY <2>2, <2>4 DEF Valid
    <2>7. state \in Burning => burn <= ram'
      BY <2>2, <2>5 DEF Newest
    <2> QED BY <1>1, <1>2, <2>1, <2>3, <2>4, <2>5, <2>6, <2>7 DEF Inv, Body, AgeInv, Newest, Valid
  <1>7. CopiesInv'
    BY <1>1 DEF Inv, Body, CopiesInv, Valid, Recovered
  <1>8. ImageInv'
    BY <1>1 DEF WriteRam, ExtensionUpdate, Inv, Body, ImageInv
  <1>9. SyncInv'
    BY <1>1 DEF WriteRam, ExtensionUpdate, Inv, SyncInv
  <1> QED BY <1>4, <1>5, <1>6, <1>7, <1>8, <1>9 DEF Inv, Body

LEMMA StopInv == Inv /\ Stop => Inv'
  <1> SUFFICES ASSUME Inv, Stop PROVE Inv'
    OBVIOUS
  <1>1. queue' = <<>> /\ queue' \in Seq(Op) /\ Len(queue') = 0
    BY DEF Stop
  <1>2. Default \in Version
    BY NvAssumption DEF Default, Version
  <1>a. Blank \in Cell /\ crashes' \in Nat
    BY DEF Stop, Inv, Body, TypeOK, Cell
  <1>b. /\ power' = FALSE /\ ram' = Default /\ unmarked' = FALSE /\ is_update' = FALSE
        /\ state' = "IDLE" /\ burn' = Blank /\ sync' = "no" /\ base' = None
        /\ latest' = latest /\ flash' = flash /\ committed' = committed
        /\ latest \in Version /\ flash \in [Copies -> Cell]
        /\ committed \in Nat /\ committed <= MaxVersion
    BY DEF Stop, Inv, Body, TypeOK
  <1>3. TypeOK'
    BY <1>1, <1>2, <1>a, <1>b DEF TypeOK, States
  <1>4. QueueInv' /\ ReadyInv'
    BY <1>1 DEF Stop, QueueInv, ReadyInv, Erased, Written
  <1>5. AgeInv'
    BY DEF Stop, Inv, Body, AgeInv, Newest, Valid, Burning
  <1>6. CopiesInv' /\ ImageInv' /\ SyncInv'
    BY DEF Stop, Inv, Body, CopiesInv, ImageInv, SyncInv, Valid, Recovered, BakStates
  <1> QED BY <1>3, <1>4, <1>5, <1>6 DEF Inv, Body

LEMMA ExtensionInitInv == Inv /\ ExtensionInit => Inv'
  <1> SUFFICES ASSUME Inv, ExtensionInit PROVE Inv'
    OBVIOUS
  <1>1. /\ ~power /\ power' /\ state = "IDLE" /\ queue = <<>> /\ ~unmarked /\ sync = "no"
        /\ UNCHANGED <<crashes, latest, unmarked, burn, queue, base, flash, committed>>
        /\ base = None /\ queue \in Seq(Op) /\ Len(queue) = 0
    BY DEF ExtensionInit, nor, Inv, Body, ImageInv, QueueInv, Erasing
  <1>2. /\ state' \in {"IDLE", "MAIN_DONE"} /\ sync' \in {"no", "head"}
        /\ state' = "MAIN_DONE" <=> Valid("main") /\ ~Valid("bak")
        /\ is_update' = ~(Valid("main") /\ Valid("bak"))
        /\ ram' = Recovered \/ (Recovered = 0 /\ ram' = Default)
        /\ ram' = IF Valid("main") THEN flash["main"]
                  ELSE IF Valid("bak") THEN flash["bak"] ELSE Default
    BY DEF ExtensionInit, Recovered, Valid, Version
  <1>3. Default \in Version /\ \A v \in Version : Default <= v /\ v <= v
    BY NvAssumption DEF Default, Version
  <1>4. ram' \in Version
    BY <1>2, <1>3 DEF Valid
  <1>5. TypeOK'
    BY <1>1, <1>2, <1>4 DEF Inv, Body, TypeOK, States, BakStates
  <1>6. QueueInv' /\ ReadyInv'
    BY <1>1, <1>2 DEF QueueInv, ReadyInv, Erased, Written
  <1>7. AgeInv'
    <2>1. /\ committed <= latest /\ latest \in Version
          /\ \A c \in Copies : Valid(c) => Newest(flash[c])
          /\ Valid("main") /\ Valid("bak") => flash["bak"] <= flash["main"]
      BY DEF Inv, Body, AgeInv, TypeOK
    <2>2. Recovered = 0 => committed = 0 /\ ~Valid("main") /\ ~Valid("bak")
      BY DEF Inv, Body, CopiesInv, Recovered, Valid, Version
    <2>3. Newest(ram')
      <3>1. CASE Valid("main")
        BY <3>1, <1>2, <2>1 DEF Copies
      <3>2. CASE ~Valid("main") /\ Valid("bak")
        BY <3>2, <1>2, <2>1 DEF Copies
      <3>3. CASE ~Valid("main") /\ ~Valid("bak")
        <4>1. ram' = Default /\ committed = 0
          BY <3>3, <1>2, <2>2 DEF Recovered, Inv, Body, CopiesInv
        <4> QED BY <4>1, <1>3, <2>1 DEF Newest, Default
      <3> QED BY <3>1, <3>2, <3>3
    <2>4. \A c \in Copies : Valid(c) => flash[c] <= ram'
      BY <1>2, <1>3, <2>1 DEF Copies, Valid
    <2> QED BY <1>1, <1>2, <2>1, <2>3, <2>4 DEF AgeInv, Newest, Valid, Burning
  <1>8. CopiesInv'
    <2>1. ~Valid("main") /\ ~Valid("bak") => committed = 0
      BY DEF Inv, Body, CopiesInv, Recovered
    <2>2. Recovered = 0 => committed = 0
      BY DEF Inv, Body, CopiesInv
    <2> QED BY <1>1, <1>2, <2>1, <2>2 DEF CopiesInv, Valid, Recovered, BakStates
  <1>9. ImageInv'
    BY <1>1, <1>2 DEF ImageInv, BakStates
  <1>10. SyncInv'
    BY <1>2 DEF SyncInv
  <1> QED BY <1>5, <1>6, <1>7, <1>8, <1>9, <1>10 DEF Inv, Body

LEMMA NextInv == Inv /\ [Next]_vars => Inv'
  <1> SUFFICES ASSUME Inv, [Next]_vars PROVE Inv'
    OBVIOUS
  <1>1. CASE OthersFlush
    BY <1>1, FlushStep DEF OthersFlush
  <1>2. CASE UNCHANGED vars
    BY <1>2 DEF vars, client, nor, Inv, Body, TypeOK, QueueInv, ReadyInv, AgeInv,
       CopiesInv, ImageInv, SyncInv, Current, Target, Newest, Valid, Recovered
  <1> QED BY <1>1, <1>2, FlushMainAsyncInv, FlushBakAsyncInv, SyncInvs, SyncMainInv,
             SyncBakInv, SyncBakWaitInv, ClientInv, StopInv, ExtensionInitInv DEF Next, Crash, AssertFails

-----------------------------------------------------------------------------
(* The results.                                                            *)

(* The inductive invariant: which copy is being rewritten, what is queued  *)
(* for it and what it holds, and which images are newer than which agree   *)
(* with the state of the flush machine in every reachable state.           *)
THEOREM NvCorrect == Spec => []Inv
  BY InitInv, NextInv, PTL DEF Spec

(* Every reachable state is well typed.                                    *)
THEOREM NvTypeSafe == Spec => []TypeOK
  <1>1. Inv => TypeOK
    BY DEF Inv, Body
  <1> QED BY <1>1, NvCorrect, PTL

(* What nv_record_extension_init would load is never older than the image  *)
(* of the last flush that wrote both copies, wherever power failed.        *)
THEOREM NvDurable == Spec => []FlushDurable
  <1>1. Inv => FlushDurable
    <2> SUFFICES ASSUME Inv PROVE FlushDurable
      OBVIOUS
    <2>1. /\ committed \in Nat /\ (Recovered = 0 => committed = 0)
          /\ \A c \in Copies : Valid(c) => flash[c] \in Nat /\ committed <= flash[c]
      BY DEF Inv, Body, TypeOK, CopiesInv, AgeInv, Newest, Version
    <2> QED BY <2>1 DEF FlushDurable, Recovered, Copies
  <1> QED BY <1>1, NvCorrect, PTL

(* A change saved by a client is in the main copy when the machine rests.  *)
THEOREM NvNothingLost == Spec => []NoLostUpdate
  <1>1. Inv => NoLostUpdate
    BY DEF Inv, Body, ImageInv, NoLostUpdate
  <1> QED BY <1>1, NvCorrect, PTL

(* No step and no crash turns a device with a valid copy into one without. *)
THEOREM NvNeverBothLost == Spec => NeverBothLost
  <1>1. Inv /\ [Next]_vars => [Recovered # 0 => Recovered' # 0]_vars
    <2> SUFFICES ASSUME Inv, Next, Recovered # 0 PROVE Recovered' # 0
      BY DEF vars, nor, client, Recovered, Valid
    <2>1. UNCHANGED flash \/ FlushStart \/ FlushDone
      BY DEF Next, FlushMainAsync, FlushBakAsync, SyncCall, SyncHead, SyncMain, SyncBak,
         SyncBakWait, WriteRam, ExtensionUpdate, OthersFlush, Crash, AssertFails, Stop, ExtensionInit,
         Erase, Write, Copy, ReadMain, FlushCall, nor
    <2>2. CASE UNCHANGED flash
      BY <2>2 DEF Recovered, Valid
    <2>3. CASE FlushStart \/ FlushDone
      <3>1. /\ \A c \in Copies : c # Current => flash'[c] = flash[c]
            /\ queue # <<>> /\ state \notin Erasing
        BY <2>3, FlushFacts
      <3>2. power /\ 0 \notin Version
        BY <3>1 DEF Inv, Body, ImageInv, Erasing, Version
      <3>3. CASE state \in BakStates
        BY <3>1, <3>2, <3>3 DEF Current, Copies, Inv, Body, CopiesInv, Valid, Recovered
      <3>4. CASE state \notin BakStates
        <4>1. Valid("bak")
          BY <3>1, <3>2, <3>4 DEF Inv, Body, CopiesInv, Recovered
        <4>2. flash'["bak"] = flash["bak"]
          BY <3>1, <3>4 DEF Current, Copies
        <4> QED BY <4>1, <4>2, <3>2 DEF Valid, Recovered
      <3> QED BY <3>3, <3>4
    <2> QED BY <2>1, <2>2, <2>3
  <1> QED BY <1>1, NvCorrect, PTL DEF Spec, NeverBothLost
=============================================================================
