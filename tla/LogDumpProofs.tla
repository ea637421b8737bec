--------------------------- MODULE LogDumpProofs ---------------------------
(***************************************************************************)
(* LogDump, for any numbers of buffers and sectors, any sector size and    *)
(* any number of logs, crashes and power failures.                         *)
(***************************************************************************)
EXTENDS LogDump, SequenceTheorems, WellFoundedInduction, TLAPS

-----------------------------------------------------------------------------
(* Division, which the provers know little of.                             *)

LEMMA Division ==
    ASSUME NEW n \in Nat \ {0}, NEW m \in Int
    PROVE  m % n \in 0 .. n - 1 /\ m \div n \in Int /\ m = n * (m \div n) + (m % n)
  <1>1. m % n \in 0 .. n - 1 /\ m \div n \in Int
    OBVIOUS
  <1>2. m = n * (m \div n) + (m % n)
    OBVIOUS
  <1> QED BY <1>1, <1>2

LEMMA UniqueDivision ==
    ASSUME NEW n \in Nat \ {0}, NEW q \in Int, NEW k \in Int, NEW r \in 0 .. n - 1, NEW t \in 0 .. n - 1,
           n * q + r = n * k + t
    PROVE  q = k /\ r = t
  <1>1. n * (q - k) = t - r
    OBVIOUS
  <1>2. q - k < 1
    <2>1. SUFFICES ASSUME q - k >= 1 PROVE FALSE
      OBVIOUS
    <2>2. n * (q - k) >= n
      BY <2>1
    <2> QED BY <1>1, <2>2
  <1>3. q - k > -1
    <2>1. SUFFICES ASSUME q - k <= -1 PROVE FALSE
      OBVIOUS
    <2>2. n * (q - k) <= -n
      BY <2>1
    <2> QED BY <1>1, <2>2
  <1>4. q = k
    BY <1>2, <1>3
  <1> QED BY <1>4

LEMMA Remainder ==
    ASSUME NEW n \in Nat \ {0}, NEW q \in Int, NEW r \in 0 .. n - 1
    PROVE  (n * q + r) % n = r /\ (n * q + r) \div n = q
  BY Division, UniqueDivision

LEMMA NextRemainder ==
    ASSUME NEW n \in Nat \ {0}, NEW m \in Int
    PROVE  (m + 1) % n = IF (m % n) + 1 = n THEN 0 ELSE (m % n) + 1
  <1> DEFINE q == m \div n
             r == m % n
  <1>1. q \in Int /\ r \in 0 .. n - 1 /\ m = n * q + r
    BY Division
  <1>2. CASE r + 1 = n
    <2>1. m + 1 = n * (q + 1) + 0 /\ q + 1 \in Int
      BY <1>1, <1>2
    <2>2. (n * (q + 1) + 0) % n = 0
      BY <2>1, Remainder
    <2> QED BY <1>2, <2>1, <2>2
  <1>3. CASE r + 1 # n
    <2>1. m + 1 = n * q + (r + 1) /\ r + 1 \in 0 .. n - 1
      BY <1>1, <1>3
    <2>2. (n * q + (r + 1)) % n = r + 1
      BY <1>1, <2>1, Remainder
    <2> QED BY <1>3, <2>1, <2>2
  <1> QED BY <1>2, <1>3

LEMMA SmallRemainder ==
    ASSUME NEW n \in Nat \ {0}, NEW m \in 0 .. n - 1
    PROVE  m % n = m
  <1>1. (n * 0 + m) % n = m
    BY Remainder
  <1> QED BY <1>1

LEMMA DifferenceRemainder ==
    ASSUME NEW n \in Nat \ {0}, NEW a \in Int, NEW b \in Int
    PROVE  (a - b) % n = ((a % n) - (b % n)) % n
  <1> DEFINE d == (a % n) - (b % n)
             q == (a \div n) - (b \div n) + (d \div n)
  <1>1. /\ a \div n \in Int /\ b \div n \in Int /\ a % n \in Int /\ b % n \in Int
        /\ a = n * (a \div n) + (a % n) /\ b = n * (b \div n) + (b % n)
    BY Division
  <1>2. d \in Int
    BY <1>1
  <1>3. d \div n \in Int /\ d % n \in 0 .. n - 1 /\ d = n * (d \div n) + (d % n)
    BY <1>2, Division
  <1>4. q \in Int /\ a - b = n * q + (d % n)
    BY <1>1, <1>3
  <1>5. (n * q + (d % n)) % n = d % n
    BY <1>3, <1>4, Remainder
  <1> QED BY <1>4, <1>5

(* Two numbers with the same remainder that are less than n apart.         *)
LEMMA SameRemainder ==
    ASSUME NEW n \in Nat \ {0}, NEW a \in Int, NEW b \in Int, a % n = b % n, a - b < n, b - a < n
    PROVE  a = b
  <1>1. /\ a \div n \in Int /\ b \div n \in Int /\ a % n \in Int
        /\ a = n * (a \div n) + (a % n) /\ b = n * (b \div n) + (a % n)
    BY Division
  <1> DEFINE d == (a \div n) - (b \div n)
  <1>2. d \in Int /\ a - b = n * d
    BY <1>1
  <1>3. d < 1
    <2>1. SUFFICES ASSUME d >= 1 PROVE FALSE
      BY <1>2
    <2>2. n * d >= n
      BY <1>2, <2>1
    <2> QED BY <1>2, <2>2
  <1>4. d > -1
    <2>1. SUFFICES ASSUME d <= -1 PROVE FALSE
      BY <1>2
    <2>2. n * d <= -n
      BY <1>2, <2>1
    <2> QED BY <1>2, <2>2
  <1>5. d = 0
    BY <1>2, <1>3, <1>4
  <1> QED BY <1>2, <1>5

LEMMA Smallest ==
    ASSUME NEW T, T \subseteq Nat, T # {}
    PROVE  \E x \in T : \A y \in T : x <= y
  <1>1. PICK x \in T : \A y \in T : ~ (<<y, x>> \in OpToRel(<, Nat))
    BY WFMin, NatLessThanWellFounded, Zenon
  <1>2. \A y \in T : ~(y < x)
    BY <1>1, Zenon DEF OpToRel
  <1> QED BY <1>2

-----------------------------------------------------------------------------
(* The rings of buffers and sectors.                                       *)

Succ(b) == IF b + 1 = NBuffer THEN 0 ELSE b + 1

LEMMA RingStep ==
    ASSUME NEW b \in Buffers
    PROVE  After(b, NBuffer) = Succ(b) /\ Succ(b) \in Buffers /\ Succ(b) # b
  <1>1. NBuffer \in Nat \ {0} /\ NBuffer >= 2 /\ b \in 0 .. NBuffer - 1
    BY LogDumpAssumption DEF Buffers
  <1>2. b % NBuffer = b
    BY <1>1, SmallRemainder
  <1>3. (b + 1) % NBuffer = IF (b % NBuffer) + 1 = NBuffer THEN 0 ELSE (b % NBuffer) + 1
    <2>1. NBuffer \in Nat \ {0} /\ b \in Int
      BY <1>1
    <2> QED BY <2>1, NextRemainder
  <1> QED BY <1>1, <1>2, <1>3 DEF After, Succ, Buffers

LEMMA SectorPlace ==
    ASSUME NEW s \in Sectors
    PROVE  /\ s * Size \in 0 .. NSector * Size - 1
           /\ (s * Size) \div Size = s /\ (s * Size) % Size = 0
           /\ s + 1 < NSector => s * Size + Size = (s + 1) * Size
           /\ s + 1 = NSector => s * Size + Size = NSector * Size
           /\ s + 1 < NSector => s * Size + Size < NSector * Size
           /\ \A r \in 1 .. Size - 1 :
                 /\ s * Size + r \in 0 .. NSector * Size - 1
                 /\ (s * Size + r) % Size # 0
  <1>1. Size \in Nat \ {0} /\ NSector \in Nat \ {0} /\ s \in Int /\ s >= 0 /\ s <= NSector - 1
    BY LogDumpAssumption DEF Sectors
  <1>2. s * Size >= 0 /\ s * Size = Size * s
    BY <1>1
  <1>3. s * Size <= (NSector - 1) * Size
    BY <1>1
  <1>4. (NSector - 1) * Size = NSector * Size - Size
    BY <1>1
  <1>5. s * Size \in Int /\ NSector * Size \in Int
    BY <1>1
  <1>6. (Size * s + 0) % Size = 0 /\ (Size * s + 0) \div Size = s
    BY <1>1, Remainder
  <1>7. Size * s + 0 = s * Size
    BY <1>2, <1>5
  <1>8. (s + 1) * Size = s * Size + Size
    BY <1>1
  <1>9. s + 1 < NSector => s * Size + Size < NSector * Size
    <2> SUFFICES ASSUME s + 1 < NSector PROVE s * Size + Size < NSector * Size
      OBVIOUS
    <2>1. (s + 1) * Size <= (NSector - 1) * Size
      BY <1>1
    <2> QED BY <1>1, <1>4, <1>5, <1>8, <2>1
  <1>10. ASSUME NEW r \in 1 .. Size - 1
         PROVE  s * Size + r \in 0 .. NSector * Size - 1 /\ (s * Size + r) % Size # 0
    <2>1. (Size * s + r) % Size = r
      BY <1>1, <1>10, Remainder
    <2> QED BY <1>1, <1>2, <1>3, <1>4, <1>5, <2>1
  <1>11. s + 1 = NSector => s * Size + Size = NSector * Size
    BY <1>8
  <1>12. s * Size \in 0 .. NSector * Size - 1
    BY <1>1, <1>2, <1>3, <1>4, <1>5
  <1> QED BY <1>6, <1>7, <1>8, <1>9, <1>10, <1>11, <1>12

LEMMA OffsetSector ==
    ASSUME NEW offs \in 0 .. NSector * Size - 1
    PROVE  /\ offs \div Size \in Sectors
           /\ offs % Size = 0 => offs = (offs \div Size) * Size
  <1>1. Size \in Nat \ {0} /\ NSector \in Nat \ {0} /\ NSector * Size \in Int
    BY LogDumpAssumption
  <1> DEFINE q == offs \div Size
             r == offs % Size
  <1>2. q \in Int /\ r \in 0 .. Size - 1 /\ offs = Size * q + r
    BY <1>1, Division
  <1>3. q >= 0
    <2>1. SUFFICES ASSUME q <= -1 PROVE FALSE
      BY <1>2
    <2>2. Size * q <= -Size
      BY <1>1, <1>2, <2>1
    <2> QED BY <1>1, <1>2, <2>2
  <1>4. q < NSector
    <2>1. SUFFICES ASSUME q >= NSector PROVE FALSE
      BY <1>1, <1>2
    <2>2. Size * q >= Size * NSector
      BY <1>1, <1>2, <2>1
    <2>3. Size * NSector = NSector * Size
      BY <1>1
    <2> QED BY <1>1, <1>2, <2>2, <2>3
  <1>5. Size * q = q * Size
    BY <1>1, <1>2
  <1> QED BY <1>1, <1>2, <1>3, <1>4, <1>5 DEF Sectors

(* Start-up finds the newest log.                                          *)
LEMMA NewestExists ==
    ASSUME NEW cells, \A s \in Sectors : cells[s] \in {NoLog, Garbled} \cup 0 .. MaxSeqnum,
           Existing(cells) # {}
    PROVE  /\ Newest(cells) \in Existing(cells)
           /\ \A t \in Existing(cells) : cells[t] <= cells[Newest(cells)]
  <1> DEFINE T == {MaxSeqnum - cells[s] : s \in Existing(cells)}
  <1>1. \A s \in Existing(cells) : s \in Sectors /\ cells[s] \in 0 .. MaxSeqnum
    BY LogDumpAssumption DEF Existing, NoLog, Garbled
  <1>2. T \subseteq Nat /\ T # {}
    BY <1>1, LogDumpAssumption
  <1>3. PICK x \in T : \A y \in T : x <= y
    BY <1>2, Smallest
  <1>4. PICK s \in Existing(cells) : x = MaxSeqnum - cells[s]
    BY <1>3
  <1>5. \A t \in Existing(cells) : MaxSeqnum - cells[s] <= MaxSeqnum - cells[t]
    BY <1>3, <1>4
  <1>6. \A t \in Existing(cells) : cells[t] <= cells[s]
    BY <1>1, <1>4, <1>5, LogDumpAssumption
  <1> QED BY <1>4, <1>6 DEF Newest

-----------------------------------------------------------------------------
(* The types, and what the buffers hold.                                   *)

Buffer == [state : {"FREE", "WRITTING", "WRITTEN"}, offset : 0 .. Size, seqnum : 0 .. MaxSeqnum]

State(b) == data_buffer_list[b].state

BufferInv ==
    \A b \in Buffers :
        /\ State(b) = "WRITTING" => b = w_seqnum /\ data_buffer_list[b].offset \in 1 .. Size - 1
        /\ State(b) = "WRITTEN" => data_buffer_list[b].offset = Size

TypeInv == TypeOK /\ BufferInv

LEMMA Sizes ==
    /\ Size \in Nat /\ Size >= 3 /\ NBuffer \in Nat /\ NBuffer >= 2 /\ NSector \in Nat /\ NSector >= 2
    /\ MaxSeqnum \in Nat /\ 0 \in Buffers /\ 0 \in Sectors /\ "hook" \in Flushers /\ "remain" \in Flushers
  BY LogDumpAssumption DEF Buffers, Sectors, Flushers

(* What output does to the buffers.                                        *)
Begin(b) == IF State(b) = "WRITTING" THEN 0 ELSE 1
Number(b, seqnum) == IF State(b) = "WRITTING" THEN data_buffer_list[b].seqnum ELSE seqnum

LEMMA FitsEffect ==
    ASSUME TypeInv, cur_dump_seqnum <= MaxSeqnum, NEW len \in 1 .. Size - 1, OutputFits(len)
    PROVE  /\ data_buffer_list' \in [Buffers -> Buffer]
           /\ w_seqnum' = w_seqnum /\ cur_dump_seqnum' = cur_dump_seqnum + Begin(w_seqnum)
           /\ data_buffer_list'[w_seqnum].state = "WRITTING"
           /\ data_buffer_list'[w_seqnum].offset \in 1 .. Size - 1
           /\ data_buffer_list'[w_seqnum].seqnum = Number(w_seqnum, cur_dump_seqnum)
           /\ \A b \in Buffers : b # w_seqnum => data_buffer_list'[b] = data_buffer_list[b]
           /\ Touches({w_seqnum})
  <1> DEFINE b == Begun(w_seqnum, cur_dump_seqnum)
  <1>1. w_seqnum \in Buffers /\ data_buffer_list \in [Buffers -> Buffer] /\ cur_dump_seqnum \in 0 .. MaxSeqnum
    BY Sizes DEF TypeInv, TypeOK, Buffer
  <1>2. /\ b \in Buffer /\ b.state = "WRITTING" /\ b.offset \in 1 .. Size - 1
        /\ b.seqnum = Number(w_seqnum, cur_dump_seqnum)
    BY <1>1, Sizes DEF TypeInv, BufferInv, Begun, Buffer, State, Number
  <1>3. [b EXCEPT !.offset = @ + len] \in Buffer /\ b.offset + len \in 1 .. Size - 1
    BY <1>2, Sizes DEF OutputFits, Buffer
  <1>4. data_buffer_list' = [data_buffer_list EXCEPT ![w_seqnum] = [b EXCEPT !.offset = @ + len]]
    BY DEF OutputFits
  <1>5. data_buffer_list' \in [Buffers -> Buffer]
    BY <1>1, <1>3, <1>4
  <1>6. data_buffer_list'[w_seqnum] = [b EXCEPT !.offset = @ + len]
    BY <1>1, <1>4
  <1>7. /\ data_buffer_list'[w_seqnum].state = "WRITTING"
        /\ data_buffer_list'[w_seqnum].offset = b.offset + len
        /\ data_buffer_list'[w_seqnum].seqnum = Number(w_seqnum, cur_dump_seqnum)
    BY <1>2, <1>6 DEF Buffer
  <1>8. \A c \in Buffers : c # w_seqnum => data_buffer_list'[c] = data_buffer_list[c]
    BY <1>1, <1>4
  <1>9. w_seqnum' = w_seqnum /\ cur_dump_seqnum' = cur_dump_seqnum + Begin(w_seqnum) /\ Touches({w_seqnum})
    BY DEF OutputFits, Begins, Begin, State
  <1> QED BY <1>3, <1>5, <1>7, <1>8, <1>9

LEMMA FillsEffect ==
    ASSUME TypeInv, cur_dump_seqnum < MaxSeqnum, NEW len \in 1 .. Size - 1, OutputFills(len)
    PROVE  /\ data_buffer_list' \in [Buffers -> Buffer]
           /\ w_seqnum' = Succ(w_seqnum)
           /\ data_buffer_list'[w_seqnum].state = "WRITTEN"
           /\ data_buffer_list'[w_seqnum].offset = Size
           /\ data_buffer_list'[w_seqnum].seqnum = Number(w_seqnum, cur_dump_seqnum)
           /\ \A b \in Buffers : b # w_seqnum /\ b # Succ(w_seqnum)
                  => data_buffer_list'[b] = data_buffer_list[b]
           /\ \/ /\ Succ(w_seqnum) # f_seqnum
                 /\ cur_dump_seqnum' = cur_dump_seqnum + Begin(w_seqnum) + 1
                 /\ data_buffer_list'[Succ(w_seqnum)].state = "WRITTING"
                 /\ data_buffer_list'[Succ(w_seqnum)].offset \in 1 .. Size - 1
                 /\ data_buffer_list'[Succ(w_seqnum)].seqnum = cur_dump_seqnum + Begin(w_seqnum)
                 /\ Touches({w_seqnum, Succ(w_seqnum)})
              \/ /\ cur_dump_seqnum' = cur_dump_seqnum + Begin(w_seqnum)
                 /\ data_buffer_list'[Succ(w_seqnum)] = data_buffer_list[Succ(w_seqnum)]
                 /\ Touches({w_seqnum})
  <1> DEFINE b    == Begun(w_seqnum, cur_dump_seqnum)
             left == b.offset + len - Size
             next == After(w_seqnum, NBuffer)
             seq  == cur_dump_seqnum + Begins(w_seqnum)
             goes == left > 0 /\ next # f_seqnum
             one  == Filled(b)
             two  == IF goes THEN [Begun(next, seq) EXCEPT !.offset = @ + left] ELSE data_buffer_list[next]
  <1>1. w_seqnum \in Buffers /\ data_buffer_list \in [Buffers -> Buffer] /\ cur_dump_seqnum \in 0 .. MaxSeqnum
    BY Sizes DEF TypeInv, TypeOK, Buffer
  <1>2. next = Succ(w_seqnum) /\ next \in Buffers /\ next # w_seqnum
    BY <1>1, RingStep
  <1>3. /\ b \in Buffer /\ b.state = "WRITTING" /\ b.offset \in 1 .. Size - 1
        /\ b.seqnum = Number(w_seqnum, cur_dump_seqnum)
    BY <1>1, Sizes DEF TypeInv, BufferInv, Begun, Buffer, State, Number
  <1>4. left \in 0 .. Size - 2
    BY <1>3, Sizes DEF OutputFills
  <1>5. /\ one \in Buffer /\ one.state = "WRITTEN" /\ one.offset = Size
        /\ one.seqnum = Number(w_seqnum, cur_dump_seqnum)
    <2>1. one = [b EXCEPT !.offset = Size, !.state = "WRITTEN"]
      BY DEF Filled
    <2>2. ASSUME NEW c \in Buffer, NEW d, d = [c EXCEPT !.offset = Size, !.state = "WRITTEN"]
          PROVE  d \in Buffer /\ d.state = "WRITTEN" /\ d.offset = Size /\ d.seqnum = c.seqnum
      <3> DEFINE e == [c EXCEPT !.offset = Size]
      <3>1. e \in Buffer /\ e.offset = Size /\ e.seqnum = c.seqnum
        BY Sizes DEF Buffer
      <3>2. d = [e EXCEPT !.state = "WRITTEN"]
        BY <2>2
      <3> HIDE DEF e
      <3> QED BY <3>1, <3>2 DEF Buffer
    <2> HIDE DEF one, b
    <2> QED BY <1>3, <2>1, <2>2
  <1>6. seq = cur_dump_seqnum + Begin(w_seqnum) /\ seq \in 0 .. MaxSeqnum
    BY <1>1, Sizes DEF Begins, Begin, State
  <1>7. State(next) # "WRITTING"
    BY <1>2 DEF TypeInv, BufferInv
  <1>8. Begun(next, seq) = [state |-> "WRITTING", offset |-> 1, seqnum |-> seq] /\ Begins(next) = 1
    BY <1>7 DEF Begun, Begins, State
  <1>9. goes => /\ two \in Buffer /\ two.state = "WRITTING" /\ two.offset \in 1 .. Size - 1
                /\ two.seqnum = seq
    BY <1>4, <1>6, <1>8, Sizes DEF Buffer
  <1>10. ~goes => two \in Buffer /\ two = data_buffer_list[next]
    BY <1>1, <1>2
  <1>11. data_buffer_list' = [data_buffer_list EXCEPT ![w_seqnum] = one, ![next] = two]
    <2>1. [data_buffer_list EXCEPT ![w_seqnum] = one][next] = data_buffer_list[next]
      BY <1>1, <1>2
    <2>2. data_buffer_list' =
              [data_buffer_list EXCEPT ![w_seqnum] = one,
                  ![next] = IF goes THEN [Begun(next, seq) EXCEPT !.offset = @ + left] ELSE @]
      BY DEF OutputFills
    <2> QED BY <2>1, <2>2
  <1>12. two \in Buffer
    BY <1>9, <1>10
  <1> HIDE DEF one, two
  <1>13. /\ data_buffer_list' \in [Buffers -> Buffer]
         /\ data_buffer_list'[w_seqnum] = one /\ data_buffer_list'[next] = two
         /\ \A c \in Buffers : c # w_seqnum /\ c # next => data_buffer_list'[c] = data_buffer_list[c]
    BY <1>1, <1>2, <1>5, <1>11, <1>12
  <1>14. /\ w_seqnum' = next
         /\ cur_dump_seqnum' = seq + (IF goes THEN Begins(next) ELSE 0)
         /\ Touches({w_seqnum} \cup (IF goes THEN {next} ELSE {}))
    BY DEF OutputFills
  <1> HIDE DEF next, seq, left, b
  <1>15. CASE goes
    <2>1. cur_dump_seqnum' = seq + 1 /\ Touches({w_seqnum} \cup {next}) /\ next # f_seqnum
      BY <1>8, <1>14, <1>15
    <2>2. {w_seqnum} \cup {next} = {w_seqnum, next}
      OBVIOUS
    <2>3. Touches({w_seqnum, next})
      BY <2>1, <2>2, Zenon
    <2> QED BY <1>2, <1>5, <1>6, <1>9, <1>13, <1>14, <1>15, <2>1, <2>3
  <1>16. CASE ~goes
    <2>1. cur_dump_seqnum' = seq + 0 /\ Touches({w_seqnum} \cup {})
      BY <1>14, <1>16
    <2>2. {w_seqnum} \cup {} = {w_seqnum}
      OBVIOUS
    <2>3. Touches({w_seqnum})
      BY <2>1, <2>2, Zenon
    <2> QED BY <1>1, <1>2, <1>5, <1>6, <1>10, <1>13, <1>14, <1>16, <2>1, <2>3
  <1> QED BY <1>15, <1>16

LEMMA OutputType == ASSUME TypeInv, Output PROVE TypeInv'
  <1>1. cur_dump_seqnum < MaxSeqnum
    <2>1. cur_dump_seqnum \in Nat /\ MaxUpset \in Nat /\ MaxSeqnum \in Nat /\ MaxUpset <= MaxSeqnum
      BY LogDumpAssumption DEF TypeInv, TypeOK
    <2>2. cur_dump_seqnum < MaxUpset \/ cur_dump_seqnum < MaxSeqnum
      BY DEF Output
    <2> QED BY <2>1, <2>2
  <1>2. PICK len \in 1 .. Size - 1 : OutputFits(len) \/ OutputFills(len)
    BY DEF Output
  <1>3. w_seqnum \in Buffers /\ cur_dump_seqnum \in 0 .. MaxSeqnum + 1
    BY DEF TypeInv, TypeOK
  <1>4. overrun' \in BOOLEAN /\ upset' \in BOOLEAN
    BY <1>2, Zenon DEF OutputFits, OutputFills, Touches
  <1>5. CASE OutputFits(len)
    <2>1. /\ data_buffer_list' \in [Buffers -> Buffer] /\ w_seqnum' \in Buffers
          /\ cur_dump_seqnum' \in 0 .. MaxSeqnum + 1
      BY <1>1, <1>3, <1>5, FitsEffect, Sizes DEF Begin
    <2>2. BufferInv'
      <3>1. /\ w_seqnum' = w_seqnum
            /\ data_buffer_list'[w_seqnum].state = "WRITTING"
            /\ data_buffer_list'[w_seqnum].offset \in 1 .. Size - 1
            /\ \A b \in Buffers : b # w_seqnum => data_buffer_list'[b] = data_buffer_list[b]
        BY <1>1, <1>3, <1>5, FitsEffect, Sizes
      <3> QED BY <1>3, <3>1 DEF TypeInv, BufferInv, State
    <2> QED BY <1>4, <2>1, <2>2 DEF Output, TypeInv, TypeOK, Buffer, place, nor, mode
  <1>6. CASE OutputFills(len)
    <2>1. /\ data_buffer_list' \in [Buffers -> Buffer] /\ w_seqnum' \in Buffers
          /\ cur_dump_seqnum' \in 0 .. MaxSeqnum + 1
      BY <1>1, <1>3, <1>6, FillsEffect, RingStep, Sizes DEF Begin
    <2>2. BufferInv'
      BY <1>1, <1>3, <1>6, FillsEffect, RingStep DEF TypeInv, BufferInv, State
    <2> QED BY <1>4, <2>1, <2>2 DEF Output, TypeInv, TypeOK, Buffer, place, nor, mode
  <1> QED BY <1>2, <1>5, <1>6

LEMMA AppliedType ==
    ASSUME NEW op \in Operations, NEW cells \in [Sectors -> {NoLog, Garbled} \cup 0 .. MaxSeqnum]
    PROVE  Applied(op, cells) \in [Sectors -> {NoLog, Garbled} \cup 0 .. MaxSeqnum]
  BY DEF Applied, Operations

LEMMA ExecuteType == ASSUME TypeInv, Execute PROVE TypeInv'
  <1>1. /\ queue \in Seq(Operations) /\ queue # <<>>
        /\ flash \in [Sectors -> {NoLog, Garbled} \cup 0 .. MaxSeqnum]
    BY DEF Execute, TypeInv, TypeOK
  <1>2. Head(queue) \in Operations /\ Tail(queue) \in Seq(Operations) /\ Len(Tail(queue)) = Len(queue) - 1
    BY <1>1, HeadTailProperties
  <1>3. flash' \in [Sectors -> {NoLog, Garbled} \cup 0 .. MaxSeqnum]
    BY <1>1, <1>2, AppliedType DEF Execute
  <1>4. queue' \in Seq(Operations) /\ Len(queue') <= QueueMax
    BY <1>1, <1>2, LogDumpAssumption DEF Execute, TypeInv, TypeOK
  <1>5. BufferInv'
    BY DEF Execute, ring, TypeInv, BufferInv, State
  <1> QED BY <1>3, <1>4, <1>5 DEF Execute, ring, place, mode, ghost, TypeInv, TypeOK

LEMMA FirstType ==
    ASSUME TypeInv
    PROVE  /\ FirstSector(flash) \in Sectors /\ FirstSeqnum(flash) \in 0 .. MaxSeqnum + 1
           /\ Existing(flash) = {} => FirstSector(flash) = 0 /\ FirstSeqnum(flash) = 0
           /\ Existing(flash) # {} =>
                 /\ Newest(flash) \in Sectors /\ flash[Newest(flash)] \in 0 .. MaxSeqnum
                 /\ \A s \in Existing(flash) : flash[s] <= flash[Newest(flash)]
                 /\ FirstSeqnum(flash) = flash[Newest(flash)] + 1
                 /\ FirstSector(flash) = IF Newest(flash) + 1 = NSector THEN 0 ELSE Newest(flash) + 1
  <1>1. \A s \in Sectors : flash[s] \in {NoLog, Garbled} \cup 0 .. MaxSeqnum
    BY DEF TypeInv, TypeOK
  <1>2. CASE Existing(flash) = {}
    BY <1>2, Sizes DEF FirstSector, FirstSeqnum
  <1>3. CASE Existing(flash) # {}
    <2> DEFINE s == Newest(flash)
    <2>1. s \in Existing(flash) /\ \A t \in Existing(flash) : flash[t] <= flash[s]
      BY <1>1, <1>3, NewestExists
    <2>2. s \in Sectors /\ flash[s] \in 0 .. MaxSeqnum
      BY <1>1, <2>1 DEF Existing, NoLog, Garbled
    <2>3. s % NSector = s
      <3>1. NSector \in Nat \ {0} /\ s \in 0 .. NSector - 1
        BY <2>2, Sizes DEF Sectors
      <3> QED BY <3>1, SmallRemainder
    <2>4. (s + 1) % NSector = IF s + 1 = NSector THEN 0 ELSE s + 1
      <3>1. NSector \in Nat \ {0} /\ s \in Int
        BY <2>2, Sizes DEF Sectors
      <3>2. (s + 1) % NSector = IF (s % NSector) + 1 = NSector THEN 0 ELSE (s % NSector) + 1
        BY <3>1, NextRemainder
      <3> QED BY <2>3, <3>2
    <2>5. FirstSector(flash) = IF s + 1 = NSector THEN 0 ELSE s + 1
      BY <1>3, <2>4 DEF FirstSector
    <2>6. FirstSeqnum(flash) = flash[s] + 1
      BY <1>3 DEF FirstSeqnum
    <2> HIDE DEF s
    <2>7. FirstSector(flash) \in Sectors /\ FirstSeqnum(flash) \in 0 .. MaxSeqnum + 1
      BY <2>2, <2>5, <2>6, Sizes DEF Sectors
    <2> QED BY <1>3, <2>1, <2>2, <2>5, <2>6, <2>7 DEF s
  <1> QED BY <1>2, <1>3

LEMMA RestartType == ASSUME TypeInv, Restart PROVE TypeInv'
  <1>1. data_buffer_list' \in [Buffers -> Buffer] /\ \A b \in Buffers : data_buffer_list'[b].state = "FREE"
    BY Sizes DEF Restart, Fresh, Buffer
  <1>2. flash_offs' \in 0 .. NSector * Size - 1 /\ cur_dump_seqnum' \in 0 .. MaxSeqnum + 1
    BY FirstType, SectorPlace DEF Restart
  <1>3. w_seqnum' \in Buffers /\ f_seqnum' \in Buffers /\ buff' \in [Flushers -> Buffers]
    BY Sizes DEF Restart
  <1>4. queue' \in Seq(Operations) /\ Len(queue') <= QueueMax
    BY LogDumpAssumption DEF Restart
  <1>5. at' \in [Flushers -> {"out", "erased", "write", "free", "next", "offset"}] /\ fails' \in 0 .. MaxFails
    BY LogDumpAssumption DEF Restart, TypeInv, TypeOK
  <1>6. is_immediately' \in BOOLEAN /\ crashed' \in BOOLEAN /\ partial' \in BOOLEAN
    BY DEF Restart
  <1>7. BufferInv'
    BY <1>1 DEF BufferInv, State
  <1> QED BY <1>1, <1>2, <1>3, <1>4, <1>5, <1>6, <1>7 DEF Restart, TypeInv, TypeOK, Buffer

LEMMA ModeType == ASSUME TypeInv, FlushAll \/ Crash \/ RemainFree \/ RemainDrained PROVE TypeInv'
  <1>1. BufferInv'
    BY DEF FlushAll, Crash, RemainFree, RemainDrained, ring, TypeInv, BufferInv, State
  <1>2. at' \in [Flushers -> {"out", "erased", "write", "free", "next", "offset"}]
    BY DEF FlushAll, Crash, RemainFree, RemainDrained, TypeInv, TypeOK
  <1>3. remain' \in {"no", "loop", "drain"}
    BY DEF FlushAll, Crash, RemainFree, RemainDrained
  <1>4. is_immediately' \in BOOLEAN /\ crashed' \in BOOLEAN /\ upset' \in BOOLEAN
    BY Zenon DEF FlushAll, Crash, RemainFree, RemainDrained, ghost, TypeInv, TypeOK
  <1> QED BY <1>1, <1>2, <1>3, <1>4
          DEF FlushAll, Crash, RemainFree, RemainDrained, ring, place, nor, ghost, TypeInv, TypeOK

(* A flusher's step.                                                       *)
Places == {"out", "erased", "write", "free", "next", "offset"}

LEMMA GoesTo ==
    ASSUME TypeInv, NEW p \in Flushers, NEW to \in Places, Goes(p, to)
    PROVE  /\ at' \in [Flushers -> Places] /\ at'[p] = to
           /\ \A q \in Flushers : q # p => at'[q] = at[q]
  BY DEF Goes, TypeInv, TypeOK, Places

LEMMA AcceptsType ==
    ASSUME TypeInv, NEW op \in Operations, Accepts(op)
    PROVE  /\ flash' \in [Sectors -> {NoLog, Garbled} \cup 0 .. MaxSeqnum]
           /\ queue' \in Seq(Operations) /\ Len(queue') <= QueueMax
  <1>1. flash \in [Sectors -> {NoLog, Garbled} \cup 0 .. MaxSeqnum] /\ queue \in Seq(Operations)
        /\ Len(queue) <= QueueMax
    BY DEF TypeInv, TypeOK
  <1>2. CASE is_immediately
    BY <1>1, <1>2, AppliedType DEF Accepts
  <1>3. CASE ~is_immediately
    <2>1. Append(queue, op) \in Seq(Operations) /\ Len(Append(queue, op)) = Len(queue) + 1
      BY <1>1, AppendProperties
    <2> QED BY <1>1, <1>3, <2>1, LogDumpAssumption DEF Accepts
  <1> QED BY <1>2, <1>3

LEMMA FlushType == ASSUME TypeInv, NEW p \in Flushers, Flush(p) PROVE TypeInv'
  <1>0. BufferInv /\ buff[p] \in Buffers /\ f_seqnum \in Buffers /\ data_buffer_list \in [Buffers -> Buffer]
        /\ flash_offs \in 0 .. NSector * Size - 1 /\ flash_offs % Size \in Int /\ upset \in BOOLEAN
    BY Division, Sizes DEF TypeInv, TypeOK, Buffer
  <1>1. CASE Erase(p)
    <2>1. [type |-> "erase", sector |-> flash_offs \div Size] \in Operations
      BY <1>0, OffsetSector DEF Operations
    <2>2. /\ flash' \in [Sectors -> {NoLog, Garbled} \cup 0 .. MaxSeqnum]
          /\ queue' \in Seq(Operations) /\ Len(queue') <= QueueMax
          /\ at' \in [Flushers -> Places]
      BY <1>1, <2>1, AcceptsType, GoesTo DEF Erase, Refuses, nor, Places, TypeInv, TypeOK
    <2>3. upset' \in BOOLEAN
      BY <1>1, Zenon DEF Erase, Enters
    <2>4. BufferInv'
      BY <1>0, <1>1 DEF Erase, ring, BufferInv, State
    <2> QED BY <1>1, <2>2, <2>3, <2>4 DEF Erase, ring, place, mode, TypeInv, TypeOK, Places
  <1>2. CASE Erased(p)
    <2>1. at' \in [Flushers -> Places] /\ BufferInv'
      BY <1>0, <1>2, GoesTo DEF Erased, ring, BufferInv, State, Places
    <2> QED BY <1>2, <2>1 DEF Erased, ring, nor, mode, ghost, TypeInv, TypeOK, Places
  <1>3. CASE Check(p)
    <2>1. at' \in [Flushers -> Places] /\ BufferInv' /\ buff' \in [Flushers -> Buffers]
      BY <1>0, <1>3, GoesTo DEF Check, ring, BufferInv, State, Places, TypeInv, TypeOK
    <2>2. upset' \in BOOLEAN
      BY <1>3, Zenon DEF Check, Enters
    <2> QED BY <1>3, <2>1, <2>2 DEF Check, ring, nor, mode, TypeInv, TypeOK, Places
  <1>4. CASE Write(p)
    <2>1. [type |-> "write", offs |-> flash_offs, seqnum |-> data_buffer_list[buff[p]].seqnum] \in Operations
      BY <1>0 DEF Operations, Buffer
    <2>2. /\ flash' \in [Sectors -> {NoLog, Garbled} \cup 0 .. MaxSeqnum]
          /\ queue' \in Seq(Operations) /\ Len(queue') <= QueueMax
          /\ at' \in [Flushers -> Places]
      BY <1>4, <2>1, AcceptsType, GoesTo DEF Write, Refuses, nor, Places, TypeInv, TypeOK
    <2>3. partial' \in BOOLEAN
      BY <1>4, Zenon DEF Write, TypeInv, TypeOK
    <2>4. BufferInv'
      BY <1>0, <1>4 DEF Write, ring, BufferInv, State
    <2> QED BY <1>4, <2>2, <2>3, <2>4 DEF Write, ring, place, mode, TypeInv, TypeOK, Places
  <1>5. CASE Free(p)
    <2>1. at' \in [Flushers -> Places]
      BY <1>5, GoesTo DEF Free, Places
    <2>2. /\ data_buffer_list' \in [Buffers -> Buffer] /\ data_buffer_list'[buff[p]].state = "FREE"
          /\ \A b \in Buffers : b # buff[p] => data_buffer_list'[b] = data_buffer_list[b]
      BY <1>0, <1>5 DEF Free, Buffer
    <2>3. BufferInv'
      BY <1>0, <1>5, <2>2 DEF Free, BufferInv, State
    <2> QED BY <1>5, <2>1, <2>2, <2>3 DEF Free, place, nor, mode, ghost, TypeInv, TypeOK, Places, Buffer
  <1>6. CASE NextBuffer(p)
    <2>1. at' \in [Flushers -> Places] /\ f_seqnum' \in Buffers /\ BufferInv'
      BY <1>0, <1>6, GoesTo, RingStep DEF NextBuffer, ring, BufferInv, State, Places
    <2> QED BY <1>6, <2>1 DEF NextBuffer, ring, nor, mode, ghost, TypeInv, TypeOK, Places
  <1>7. CASE Offset(p)
    <2>1. at' \in [Flushers -> Places] /\ BufferInv'
      BY <1>0, <1>7, GoesTo DEF Offset, ring, BufferInv, State, Places
    <2>2. data_buffer_list[buff[p]].offset \in Nat /\ NSector * Size \in Int /\ NSector * Size > 0
      BY <1>0, Sizes DEF Buffer
    <2>3. flash_offs' \in 0 .. NSector * Size - 1
      BY <1>0, <1>7, <2>2 DEF Offset
    <2> QED BY <1>7, <2>1, <2>3 DEF Offset, ring, nor, mode, ghost, TypeInv, TypeOK, Places
  <1> QED BY <1>1, <1>2, <1>3, <1>4, <1>5, <1>6, <1>7 DEF Flush

LEMMA InitTypes == Init => TypeInv
  <1> SUFFICES ASSUME Init PROVE TypeInv
    OBVIOUS
  <1>1. data_buffer_list \in [Buffers -> Buffer] /\ \A b \in Buffers : State(b) = "FREE"
    BY Sizes DEF Init, Fresh, Buffer, State
  <1>2. flash_offs \in 0 .. NSector * Size - 1 /\ cur_dump_seqnum \in 0 .. MaxSeqnum + 1
    <2>1. NSector * Size > 0 /\ NSector * Size \in Int
      BY Sizes
    <2> QED BY <2>1, Sizes DEF Init
  <1>3. w_seqnum \in Buffers /\ f_seqnum \in Buffers /\ buff \in [Flushers -> Buffers]
    BY Sizes DEF Init
  <1>4. queue \in Seq(Operations) /\ Len(queue) <= QueueMax /\ fails \in 0 .. MaxFails
    BY LogDumpAssumption DEF Init
  <1>5. BufferInv
    BY <1>1 DEF BufferInv
  <1> QED BY <1>1, <1>2, <1>3, <1>4, <1>5 DEF Init, TypeInv, TypeOK, Buffer

LEMMA NextTypes == ASSUME TypeInv, [Next]_vars PROVE TypeInv'
  <1>1. CASE UNCHANGED vars
    BY <1>1 DEF vars, ring, place, nor, mode, ghost, TypeInv, TypeOK, BufferInv, State
  <1> QED BY <1>1, OutputType, ExecuteType, RestartType, ModeType, FlushType DEF Next

LEMMA TypesCorrect == Spec => []TypeInv
  <1>1. TypeInv /\ [Next]_vars => TypeInv'
    BY NextTypes
  <1> QED BY InitTypes, <1>1, PTL DEF Spec

(* The types of LogDump: positions stay inside the section and the ring.   *)
THEOREM LogTypeSafe == Spec => []TypeOK
  <1>1. TypeInv => TypeOK
    BY DEF TypeInv
  <1> QED BY TypesCorrect, <1>1, PTL

(* "data_buff state error" cannot happen: only the buffer at the write     *)
(* position is being filled, whatever output and both flushers do.         *)
THEOREM LogOneWritting == Spec => []OneWritting
  <1>1. TypeInv => OneWritting
    BY DEF TypeInv, BufferInv, OneWritting, State
  <1> QED BY TypesCorrect, <1>1, PTL

-----------------------------------------------------------------------------
(* The order of the logs.                                                  *)

InOrder == ~overrun /\ ~upset

(* The flusher that is under way, if one is, and where it is.              *)
Active == IF crashed \/ at["remain"] # "out" THEN "remain" ELSE "hook"
Place  == at[Active]
Busy   == buff[Active]

OneActive ==
    /\ ~crashed /\ at["remain"] # "out" => at["hook"] = "out"
    /\ crashed \/ remain = "loop" => is_immediately
    /\ at["remain"] # "out" => remain = "loop"
    /\ crashed => at["hook"] \notin {"next", "offset"}

(* How far b is behind f in the ring; the oldest buffer that is not        *)
(* flushed; how many are full; the number of the oldest, and of the log    *)
(* that the flash position is for.                                         *)
Dist(f, b) == IF b >= f THEN b - f ELSE b - f + NBuffer
Oldest == IF Place = "next" THEN Succ(f_seqnum) ELSE f_seqnum
Fulls  == IF State(w_seqnum) = "WRITTEN" THEN NBuffer ELSE Dist(Oldest, w_seqnum)
First  == cur_dump_seqnum - Fulls - (IF State(w_seqnum) = "WRITTING" THEN 1 ELSE 0)
Log    == IF Place \in {"next", "offset"} THEN First - 1 ELSE First

RingInv ==
    /\ State(w_seqnum) = "WRITTEN" => w_seqnum = Oldest
    /\ State(w_seqnum) = "WRITTING" => data_buffer_list[w_seqnum].seqnum = cur_dump_seqnum - 1
    /\ \A b \in Buffers :
          IF Dist(Oldest, b) < Fulls
          THEN State(b) = "WRITTEN" /\ data_buffer_list[b].seqnum = First + Dist(Oldest, b)
          ELSE b # w_seqnum => State(b) = "FREE"
    /\ First >= 0

PlaceInv ==
    /\ flash_offs = (Log % NSector) * Size /\ Log >= 0
    /\ Place \in {"out", "erased"} \/ flash_state = "WRITTING"
    /\ Place = "erased" => flash_state = "IDLE"
    /\ Place \in {"write", "free", "next"} => Busy = f_seqnum
    /\ Place = "write" => State(f_seqnum) \in Flushable(Active)
    /\ Place = "free" => State(f_seqnum) = "WRITTEN"
    /\ Place = "offset" => Succ(Busy) = f_seqnum
    /\ Place \in {"next", "offset"} =>
          State(Busy) = "FREE" /\ data_buffer_list[Busy].offset = Size

(* The operations in the order in which they are asked for: log m is       *)
(* operations 2m, its sector's erase, and 2m + 1.                          *)
Op(k) ==
    LET m == k \div 2
    IN  IF k % 2 = 0 THEN [type |-> "erase", sector |-> m % NSector]
        ELSE [type |-> "write", offs |-> (m % NSector) * Size, seqnum |-> m]

(* What the flash holds when operation k is the next.                      *)
Window(k) ==
    \A s \in Sectors :
        /\ flash[s] # Garbled
        /\ flash[s] >= 0 =>
              /\ flash[s] % NSector = s
              /\ flash[s] <= k \div 2 /\ flash[s] >= (k \div 2) - NSector + (k % 2)

(* The next operation to ask for.  After a crash it may be asked for twice.*)
Asks(k) ==
    \/ /\ Place = "out" /\ flash_state = "IDLE"
       /\ k = 2 * Log \/ (crashed /\ k = 2 * Log + 1)
    \/ /\ Place = "erased" \/ (Place = "out" /\ flash_state = "ERASED")
       /\ k = 2 * Log + 1
    \/ /\ Place = "write" \/ (Place = "out" /\ flash_state = "WRITTING")
       /\ k = 2 * Log + 1 \/ (crashed /\ k = 2 * Log + 2)
    \/ Place \in {"free", "next", "offset"} /\ k = 2 * Log + 2

QueueInv ==
    \E k \in Nat :
        /\ Asks(k + Len(queue)) /\ Window(k)
        /\ \A i \in 1 .. Len(queue) : queue[i] = Op(k + i - 1)

(* Once a buffer that was not full is flushed, the position is off the     *)
(* sectors' grid and nothing else is flushed.                              *)
PartialInv ==
    /\ queue = <<>> /\ \E k \in Nat : Window(k)
    /\ crashed \/ at["hook"] = "out"
    /\ \/ /\ at["remain"] \in {"free", "next", "offset"}
          /\ flash_offs % Size = 0 /\ data_buffer_list[buff["remain"]].offset \in 1 .. Size - 1
       \/ at["remain"] = "out" /\ flash_state = "IDLE" /\ flash_offs % Size # 0

OrderInv ==
    InOrder => /\ OneActive
               /\ IF partial THEN PartialInv ELSE RingInv /\ PlaceInv /\ QueueInv

LEMMA Distances ==
    ASSUME NEW f \in Buffers, NEW b \in Buffers
    PROVE  /\ Dist(f, b) \in 0 .. NBuffer - 1 /\ (Dist(f, b) = 0 <=> b = f)
           /\ Dist(f, Succ(b)) = IF Succ(b) = f THEN 0 ELSE Dist(f, b) + 1
           /\ Succ(b) = f => Dist(f, b) = NBuffer - 1
           /\ Dist(Succ(f), b) = IF b = f THEN NBuffer - 1 ELSE Dist(f, b) - 1
           /\ \A c \in Buffers : Dist(f, b) = Dist(f, c) => b = c
  BY Sizes DEF Buffers, Dist, Succ

LEMMA SectorOf ==
    ASSUME NEW m \in Int
    PROVE  /\ m % NSector \in Sectors /\ (m - NSector) % NSector = m % NSector
           /\ (m + 1) % NSector = IF (m % NSector) + 1 = NSector THEN 0 ELSE (m % NSector) + 1
  <1>1. NSector \in Nat \ {0}
    BY Sizes
  <1>2. m % NSector \in 0 .. NSector - 1 /\ m \div NSector \in Int
        /\ m = NSector * (m \div NSector) + (m % NSector)
    BY <1>1, Division
  <1> DEFINE q == (m \div NSector) - 1
  <1>3. q \in Int /\ m - NSector = NSector * q + (m % NSector)
    BY <1>1, <1>2
  <1>4. (NSector * q + (m % NSector)) % NSector = m % NSector
    BY <1>1, <1>2, <1>3, Remainder
  <1>5. (m + 1) % NSector = IF (m % NSector) + 1 = NSector THEN 0 ELSE (m % NSector) + 1
    BY <1>1, NextRemainder
  <1> QED BY <1>2, <1>3, <1>4, <1>5 DEF Sectors

LEMMA OpType ==
    ASSUME NEW m \in Nat
    PROVE  /\ Op(2 * m) = [type |-> "erase", sector |-> m % NSector]
           /\ Op(2 * m + 1) = [type |-> "write", offs |-> (m % NSector) * Size, seqnum |-> m]
  <1>1. (2 * m) \div 2 = m /\ (2 * m) % 2 = 0 /\ (2 * m + 1) \div 2 = m /\ (2 * m + 1) % 2 = 1
    OBVIOUS
  <1> QED BY <1>1 DEF Op

FlashType == flash \in [Sectors -> {NoLog, Garbled} \cup 0 .. MaxSeqnum]

(* Operation k is executed.                                                *)
LEMMA NextWindow ==
    ASSUME FlashType, NEW k \in Nat, Window(k), flash' = Applied(Op(k), flash)
    PROVE  Window(k + 1)'
  <1> DEFINE m == k \div 2
             z == m % NSector
  <1>1. m \in Nat /\ (k = 2 * m \/ k = 2 * m + 1)
    OBVIOUS
  <1>2. z \in Sectors /\ (m - NSector) % NSector = z
    BY <1>1, SectorOf
  <1>3. \A s \in Sectors : flash[s] \in Int /\ (flash[s] >= 0 \/ flash[s] = NoLog)
    BY DEF FlashType, Window, NoLog, Garbled
  <1>4. NSector \in Nat \ {0}
    BY Sizes
  <1> HIDE DEF m, z
  <1>5. CASE k = 2 * m
    <2>1. k \div 2 = m /\ k % 2 = 0 /\ (k + 1) \div 2 = m /\ (k + 1) % 2 = 1
      BY <1>1, <1>5
    <2>2. Op(k) = [type |-> "erase", sector |-> z]
      BY <1>1, <1>5, OpType DEF z
    <2>3. flash' = [flash EXCEPT ![z] = NoLog]
      BY <2>2 DEF Applied
    <2>4. flash'[z] = NoLog /\ \A s \in Sectors : s # z => flash'[s] = flash[s]
      BY <1>2, <2>3 DEF FlashType
    <2>5. ASSUME NEW s \in Sectors, s # z, flash[s] >= 0
          PROVE  flash[s] % NSector = s /\ flash[s] <= m /\ flash[s] >= m - NSector + 1
      <3>1. flash[s] % NSector = s /\ flash[s] <= m /\ flash[s] >= m - NSector
        BY <1>1, <1>4, <2>1, <2>5 DEF Window
      <3>2. flash[s] # m - NSector
        BY <1>2, <2>5, <3>1
      <3> QED BY <1>1, <1>3, <1>4, <3>1, <3>2
    <2> QED BY <1>3, <2>1, <2>4, <2>5 DEF Window, NoLog, Garbled
  <1>6. CASE k = 2 * m + 1
    <2>1. k \div 2 = m /\ k % 2 = 1 /\ (k + 1) \div 2 = m + 1 /\ (k + 1) % 2 = 0
      BY <1>1, <1>6
    <2>2. Op(k) = [type |-> "write", offs |-> z * Size, seqnum |-> m]
      BY <1>1, <1>6, OpType DEF z
    <2>3. (z * Size) \div Size = z /\ (z * Size) % Size = 0
      BY <1>2, SectorPlace
    <2>4. flash[z] \in {NoLog, m}
      <3>1. CASE flash[z] >= 0
        <4>1. flash[z] % NSector = z /\ flash[z] <= m /\ flash[z] >= m - NSector + 1
          BY <1>2, <2>1, <3>1 DEF Window
        <4>2. m % NSector = z
          BY DEF z
        <4>3. flash[z] - m < NSector /\ m - flash[z] < NSector
          BY <1>1, <1>2, <1>3, <1>4, <4>1
        <4>4. flash[z] % NSector = m % NSector /\ flash[z] \in Int /\ m \in Int
          BY <1>1, <1>2, <1>3, <4>1, <4>2
        <4>5. flash[z] = m
          BY <1>4, <4>3, <4>4, SameRemainder
        <4> QED BY <4>5
      <3> QED BY <1>2, <1>3, <3>1
    <2>5. flash' = [flash EXCEPT ![z] = m]
      <3>1. Applied(Op(k), flash) =
                [flash EXCEPT ![(z * Size) \div Size] =
                    IF (z * Size) % Size = 0 /\ @ \in {NoLog, m} THEN m ELSE Garbled]
        BY <2>2 DEF Applied
      <3>2. Applied(Op(k), flash) =
                [flash EXCEPT ![z] = IF (z * Size) % Size = 0 /\ flash[z] \in {NoLog, m} THEN m ELSE Garbled]
        BY <2>3, <3>1
      <3> QED BY <2>3, <2>4, <3>2
    <2>6. flash'[z] = m /\ \A s \in Sectors : s # z => flash'[s] = flash[s]
      BY <1>2, <2>5 DEF FlashType
    <2>7. ASSUME NEW s \in Sectors, flash[s] >= 0
          PROVE  flash[s] % NSector = s /\ flash[s] <= m + 1 /\ flash[s] >= m + 1 - NSector
      BY <1>1, <1>3, <1>4, <2>1, <2>7 DEF Window
    <2>8. m % NSector = z /\ m <= m + 1 /\ m >= m + 1 - NSector /\ m # Garbled
      BY <1>1, <1>4 DEF z, Garbled
    <2> QED BY <1>1, <1>3, <1>4, <2>1, <2>6, <2>7, <2>8 DEF Window, NoLog, Garbled
  <1> QED BY <1>1, <1>5, <1>6

(* It is asked for again, having been executed.                            *)
LEMMA SameWindow ==
    ASSUME FlashType, NEW k \in Nat, Window(k + 1), flash' = Applied(Op(k), flash)
    PROVE  Window(k + 1)'
  <1> DEFINE m == k \div 2
             z == m % NSector
  <1>1. m \in Nat /\ (k = 2 * m \/ k = 2 * m + 1)
    OBVIOUS
  <1>2. z \in Sectors
    BY <1>1, SectorOf
  <1>3. \A s \in Sectors : flash[s] \in Int /\ (flash[s] >= 0 \/ flash[s] = NoLog)
    BY DEF FlashType, Window, NoLog, Garbled
  <1>4. NSector \in Nat \ {0}
    BY Sizes
  <1> HIDE DEF m, z
  <1>5. CASE k = 2 * m
    <2>2. Op(k) = [type |-> "erase", sector |-> z]
      BY <1>1, <1>5, OpType DEF z
    <2>3. flash' = [flash EXCEPT ![z] = NoLog]
      BY <2>2 DEF Applied
    <2>4. flash'[z] = NoLog /\ \A s \in Sectors : s # z => flash'[s] = flash[s]
      BY <1>2, <2>3 DEF FlashType
    <2> QED BY <1>3, <2>4 DEF Window, NoLog, Garbled
  <1>6. CASE k = 2 * m + 1
    <2>1. (k + 1) \div 2 = m + 1 /\ (k + 1) % 2 = 0
      BY <1>1, <1>6
    <2>2. Op(k) = [type |-> "write", offs |-> z * Size, seqnum |-> m]
      BY <1>1, <1>6, OpType DEF z
    <2>3. (z * Size) \div Size = z /\ (z * Size) % Size = 0
      BY <1>2, SectorPlace
    <2>4. flash[z] \in {NoLog, m}
      <3>1. CASE flash[z] >= 0
        <4>1. flash[z] % NSector = z /\ flash[z] <= m + 1 /\ flash[z] >= m + 1 - NSector
          BY <1>1, <1>2, <1>3, <1>4, <2>1, <3>1 DEF Window
        <4>2. m % NSector = z
          BY DEF z
        <4>3. flash[z] # m + 1
          <5>1. (m + 1) % NSector = IF z + 1 = NSector THEN 0 ELSE z + 1
            BY <1>1, SectorOf DEF z
          <5> QED BY <1>2, <4>1, <5>1, Sizes DEF Sectors
        <4>4. flash[z] - m < NSector /\ m - flash[z] < NSector
          BY <1>1, <1>2, <1>3, <1>4, <4>1, <4>3
        <4>5. flash[z] % NSector = m % NSector /\ flash[z] \in Int /\ m \in Int
          BY <1>1, <1>2, <1>3, <4>1, <4>2
        <4>6. flash[z] = m
          BY <1>4, <4>4, <4>5, SameRemainder
        <4> QED BY <4>6
      <3> QED BY <1>2, <1>3, <3>1
    <2>5. flash' = [flash EXCEPT ![z] = m]
      <3>1. Applied(Op(k), flash) =
                [flash EXCEPT ![(z * Size) \div Size] =
                    IF (z * Size) % Size = 0 /\ @ \in {NoLog, m} THEN m ELSE Garbled]
        BY <2>2 DEF Applied
      <3>2. Applied(Op(k), flash) =
                [flash EXCEPT ![z] = IF (z * Size) % Size = 0 /\ flash[z] \in {NoLog, m} THEN m ELSE Garbled]
        BY <2>3, <3>1
      <3> QED BY <2>3, <2>4, <3>2
    <2>6. flash'[z] = m /\ \A s \in Sectors : s # z => flash'[s] = flash[s]
      BY <1>2, <2>5 DEF FlashType
    <2>7. m % NSector = z /\ m <= m + 1 /\ m >= m + 1 - NSector + 0 /\ m # Garbled
      BY <1>1, <1>4 DEF z, Garbled
    <2> QED BY <1>1, <1>3, <1>4, <2>1, <2>6, <2>7 DEF Window, NoLog, Garbled
  <1> QED BY <1>1, <1>5, <1>6

(* What start-up and the reader of the dump rely on.                       *)
LEMMA WindowOrder ==
    ASSUME FlashType, NEW k \in Nat, Window(k)
    PROVE  /\ \A s \in Sectors : flash[s] # Garbled
           /\ \A s, t \in Existing(flash) :
                 /\ flash[s] - flash[t] < NSector
                 /\ (flash[s] - flash[t]) % NSector = (s - t) % NSector
  <1>1. \A s \in Sectors : flash[s] # Garbled
    BY DEF Window
  <1>2. ASSUME NEW s \in Existing(flash), NEW t \in Existing(flash)
        PROVE  flash[s] - flash[t] < NSector /\ (flash[s] - flash[t]) % NSector = (s - t) % NSector
    <2> DEFINE a == flash[s]
               b == flash[t]
               m == k \div 2
    <2>1. /\ a \in Int /\ b \in Int /\ m \in Int /\ k % 2 \in 0 .. 1
          /\ a % NSector = s /\ b % NSector = t /\ a <= m /\ b >= m - NSector + (k % 2)
      BY DEF FlashType, Existing, Window, NoLog, Garbled
    <2>2. NSector \in Nat \ {0}
      BY Sizes
    <2> HIDE DEF a, b, m
    <2>3. (a - b) % NSector = (s - t) % NSector
      BY <2>1, <2>2, DifferenceRemainder
    <2>4. a - b # NSector
      <3>1. SUFFICES ASSUME b = a - NSector PROVE FALSE
        BY <2>1, <2>2
      <3>2. (a - NSector) % NSector = a % NSector
        BY <2>1, SectorOf
      <3>3. s = t
        BY <2>1, <3>1, <3>2
      <3> QED BY <2>1, <2>2, <3>1, <3>3 DEF a, b
    <2>5. a - b <= NSector
      BY <2>1, <2>2
    <2> QED BY <2>1, <2>2, <2>3, <2>4, <2>5 DEF a, b
  <1> QED BY <1>1, <1>2

-----------------------------------------------------------------------------
(* Output keeps the order.                                                 *)

LEMMA OldestBuffer == ASSUME TypeInv PROVE Oldest \in Buffers /\ w_seqnum \in Buffers /\ f_seqnum \in Buffers
  BY RingStep DEF TypeInv, TypeOK, Oldest

LEMMA RingFits ==
    ASSUME TypeInv, RingInv, State(w_seqnum) # "WRITTEN", Oldest' = Oldest,
           w_seqnum' = w_seqnum, cur_dump_seqnum' = cur_dump_seqnum + Begin(w_seqnum),
           data_buffer_list'[w_seqnum].state = "WRITTING",
           data_buffer_list'[w_seqnum].seqnum = Number(w_seqnum, cur_dump_seqnum),
           \A b \in Buffers : b # w_seqnum => data_buffer_list'[b] = data_buffer_list[b]
    PROVE  RingInv' /\ First' = First
  <1>1. w_seqnum \in Buffers /\ Oldest \in Buffers /\ cur_dump_seqnum \in Int
    BY OldestBuffer DEF TypeInv, TypeOK
  <1>2. Dist(Oldest, w_seqnum) \in Int /\ \A b \in Buffers : Dist(Oldest, b)' = Dist(Oldest, b)
    BY <1>1, Distances DEF Dist
  <1>3. Fulls = Dist(Oldest, w_seqnum) /\ Fulls' = Fulls
    BY <1>1, <1>2 DEF Fulls, State, Dist
  <1>4. First' = First
    BY <1>1, <1>2, <1>3 DEF First, State, Begin
  <1>5. data_buffer_list'[w_seqnum].seqnum = cur_dump_seqnum' - 1
    BY <1>1 DEF RingInv, Number, Begin, State
  <1>6. ASSUME NEW b \in Buffers
        PROVE  IF Dist(Oldest, b)' < Fulls'
               THEN State(b)' = "WRITTEN" /\ data_buffer_list'[b].seqnum = First' + Dist(Oldest, b)'
               ELSE b # w_seqnum' => State(b)' = "FREE"
    <2>1. CASE b = w_seqnum
      BY <1>2, <1>3, <2>1
    <2>2. CASE b # w_seqnum
      BY <1>2, <1>3, <1>4, <2>2 DEF RingInv, State
    <2> QED BY <2>1, <2>2
  <1>7. State(w_seqnum)' = "WRITTING"
    BY DEF State
  <1>8. First' >= 0
    BY <1>4 DEF RingInv
  <1> QED BY <1>4, <1>5, <1>6, <1>7, <1>8 DEF RingInv

LEMMA RingFills ==
    ASSUME TypeInv, RingInv, State(w_seqnum) # "WRITTEN", Oldest' = Oldest,
           w_seqnum' = Succ(w_seqnum),
           data_buffer_list'[w_seqnum].state = "WRITTEN",
           data_buffer_list'[w_seqnum].seqnum = Number(w_seqnum, cur_dump_seqnum),
           \A b \in Buffers : b # w_seqnum /\ b # Succ(w_seqnum)
               => data_buffer_list'[b] = data_buffer_list[b],
           \/ /\ Succ(w_seqnum) # Oldest
              /\ cur_dump_seqnum' = cur_dump_seqnum + Begin(w_seqnum) + 1
              /\ data_buffer_list'[Succ(w_seqnum)].state = "WRITTING"
              /\ data_buffer_list'[Succ(w_seqnum)].seqnum = cur_dump_seqnum + Begin(w_seqnum)
           \/ /\ cur_dump_seqnum' = cur_dump_seqnum + Begin(w_seqnum)
              /\ data_buffer_list'[Succ(w_seqnum)] = data_buffer_list[Succ(w_seqnum)]
    PROVE  RingInv' /\ First' = First
  <1> DEFINE w == w_seqnum
             x == Succ(w_seqnum)
             f == Oldest
  <1>1. w \in Buffers /\ f \in Buffers /\ x \in Buffers /\ x # w /\ cur_dump_seqnum \in Int
    BY OldestBuffer, RingStep DEF TypeInv, TypeOK
  <1>2. \A b \in Buffers : Dist(Oldest, b)' = Dist(f, b)
    BY DEF Dist
  <1>3. /\ \A b \in Buffers : Dist(f, b) \in 0 .. NBuffer - 1 /\ (Dist(f, b) = 0 <=> b = f)
        /\ Dist(f, x) = IF x = f THEN 0 ELSE Dist(f, w) + 1
        /\ x = f => Dist(f, w) = NBuffer - 1
        /\ \A b, c \in Buffers : Dist(f, b) = Dist(f, c) => b = c
    BY <1>1, Distances
  <1>4. Fulls = Dist(f, w)
    BY DEF Fulls
  <1>5. First = cur_dump_seqnum - Dist(f, w) - (1 - Begin(w))
    BY <1>4 DEF First, Begin
  <1>6. Begin(w) \in 0 .. 1 /\ Number(w, cur_dump_seqnum) = cur_dump_seqnum + Begin(w) - 1
    BY <1>1 DEF RingInv, Number, Begin
  <1>7. Number(w, cur_dump_seqnum) = First + Dist(f, w)
    BY <1>1, <1>3, <1>5, <1>6
  <1>8. /\ x # f => State(x) = "FREE"
        /\ x = f => State(x) = "WRITTEN"
    <2>1. CASE x # f
      BY <1>1, <1>3, <1>4, <2>1 DEF RingInv
    <2>2. CASE x = f
      <3>1. Dist(f, x) < Fulls
        BY <1>1, <1>3, <1>4, <2>2, Sizes
      <3> QED BY <1>1, <2>2, <3>1 DEF RingInv
    <2> QED BY <2>1, <2>2
  <1>9. /\ Fulls' = Dist(f, w) + 1 /\ First' = First
        /\ data_buffer_list'[x].state = "WRITTING" => /\ x # f
                                    /\ data_buffer_list'[x].seqnum = cur_dump_seqnum' - 1
        /\ data_buffer_list'[x].state = "WRITTEN" => x = f
        /\ x = f => data_buffer_list'[x] = data_buffer_list[x]
    <2>1. CASE /\ x # f /\ cur_dump_seqnum' = cur_dump_seqnum + Begin(w) + 1
               /\ data_buffer_list'[x].state = "WRITTING"
               /\ data_buffer_list'[x].seqnum = cur_dump_seqnum + Begin(w)
      <3>1. State(w_seqnum)' = "WRITTING" /\ data_buffer_list'[x].state = "WRITTING"
        BY <1>1, <2>1 DEF State
      <3>2. Fulls' = Dist(f, w) + 1
        BY <1>1, <1>2, <1>3, <2>1, <3>1 DEF Fulls
      <3>3. First' = cur_dump_seqnum' - Fulls' - 1
        BY <3>1 DEF First
      <3> QED BY <1>1, <1>3, <1>5, <1>6, <2>1, <3>1, <3>2, <3>3
    <2>2. CASE /\ cur_dump_seqnum' = cur_dump_seqnum + Begin(w)
               /\ data_buffer_list'[x] = data_buffer_list[x]
      <3>1. State(w_seqnum)' = State(x) /\ data_buffer_list'[x].state = State(x) /\ State(x) # "WRITTING"
        BY <1>1, <1>8, <2>2 DEF State
      <3>2. Fulls' = Dist(f, w) + 1
        <4>1. Dist(Oldest, w_seqnum)' = Dist(f, x)
          BY DEF Dist
        <4>2. CASE x = f
          <5>1. State(w_seqnum)' = "WRITTEN"
            BY <1>8, <3>1, <4>2
          <5>2. Fulls' = NBuffer
            BY <5>1 DEF Fulls
          <5> QED BY <1>3, <4>2, <5>2, Sizes
        <4>3. CASE x # f
          <5>1. State(w_seqnum)' # "WRITTEN"
            BY <1>8, <3>1, <4>3
          <5>2. Fulls' = Dist(f, x)
            BY <4>1, <5>1 DEF Fulls
          <5> QED BY <1>3, <4>3, <5>2
        <4> QED BY <4>2, <4>3
      <3>3. First' = cur_dump_seqnum' - Fulls' - 0
        BY <3>1 DEF First
      <3> QED BY <1>1, <1>3, <1>5, <1>6, <1>8, <2>2, <3>1, <3>2, <3>3
    <2> QED BY <2>1, <2>2
  <1>10. ASSUME NEW b \in Buffers
         PROVE  IF Dist(Oldest, b)' < Fulls'
                THEN State(b)' = "WRITTEN" /\ data_buffer_list'[b].seqnum = First' + Dist(Oldest, b)'
                ELSE b # w_seqnum' => State(b)' = "FREE"
    <2>1. CASE b = w
      BY <1>2, <1>3, <1>7, <1>9, <2>1 DEF State
    <2>2. CASE b = x
      <3>1. CASE x = f
        <4>1. Dist(f, x) < Fulls /\ Dist(f, x) = 0
          BY <1>1, <1>3, <1>4, <3>1, Sizes
        <4>2. State(x) = "WRITTEN" /\ data_buffer_list[x].seqnum = First + Dist(f, x)
          BY <1>1, <4>1 DEF RingInv
        <4> QED BY <1>1, <1>2, <1>3, <1>9, <2>2, <3>1, <4>1, <4>2 DEF State
      <3>2. CASE x # f
        <4>1. Dist(f, x) = Dist(f, w) + 1
          BY <1>3, <3>2
        <4> QED BY <1>1, <1>2, <1>3, <1>9, <2>2, <4>1
      <3> QED BY <3>1, <3>2
    <2>3. CASE b # w /\ b # x
      <3>1. data_buffer_list'[b] = data_buffer_list[b] /\ State(b)' = State(b)
        BY <2>3 DEF State
      <3>2. Dist(f, b) # Dist(f, w)
        BY <1>1, <1>3, <2>3
      <3>3. /\ Dist(f, b) < Fulls => /\ State(b) = "WRITTEN"
                                     /\ data_buffer_list[b].seqnum = First + Dist(f, b)
            /\ ~(Dist(f, b) < Fulls) => State(b) = "FREE"
        BY <2>3 DEF RingInv
      <3> QED BY <1>1, <1>2, <1>3, <1>4, <1>9, <3>1, <3>2, <3>3
    <2> QED BY <2>1, <2>2, <2>3
  <1>11. First' >= 0
    BY <1>9 DEF RingInv
  <1>12. State(w_seqnum)' = data_buffer_list'[x].state
    BY DEF State
  <1> QED BY <1>9, <1>10, <1>11, <1>12 DEF RingInv

LEMMA TouchFacts ==
    ASSUME NEW bs, Touches(bs), ~overrun', ~upset'
    PROVE  /\ ~overrun /\ ~upset /\ \A b \in bs : State(b) # "WRITTEN"
           /\ \A p \in Flushers : at[p] \notin {"out", "erased"} => buff[p] \notin bs
  BY Zenon DEF Touches, State

LEMMA OutputOrder == ASSUME TypeInv, OrderInv, Output, InOrder' PROVE OrderInv'
  <1>1. PICK len \in 1 .. Size - 1 : OutputFits(len) \/ OutputFills(len)
    BY DEF Output
  <1>2. /\ f_seqnum' = f_seqnum /\ flash_offs' = flash_offs /\ flash_state' = flash_state
        /\ flash' = flash /\ queue' = queue /\ remain' = remain /\ crashed' = crashed
        /\ is_immediately' = is_immediately /\ at' = at /\ buff' = buff /\ partial' = partial
    BY DEF Output, place, nor, mode
  <1>3. cur_dump_seqnum < MaxSeqnum /\ cur_dump_seqnum <= MaxSeqnum
    <2>1. cur_dump_seqnum \in Nat /\ MaxUpset \in Nat /\ MaxSeqnum \in Nat /\ MaxUpset <= MaxSeqnum
      BY LogDumpAssumption DEF TypeInv, TypeOK
    <2>2. cur_dump_seqnum < MaxUpset \/ cur_dump_seqnum < MaxSeqnum
      BY DEF Output
    <2> QED BY <2>1, <2>2
  <1>4. w_seqnum \in Buffers /\ Succ(w_seqnum) \in Buffers /\ f_seqnum \in Buffers
    BY RingStep DEF TypeInv, TypeOK
  <1>5. ~overrun' /\ ~upset'
    BY DEF InOrder
  <1>6. Active' = Active /\ Place' = Place /\ Busy' = Busy /\ Oldest' = Oldest /\ Active \in Flushers
    BY <1>2 DEF Active, Place, Busy, Oldest, Flushers
  <1>7. \E bs \in SUBSET Buffers :
           /\ w_seqnum \in bs /\ Touches(bs)
           /\ \A b \in Buffers \ bs : data_buffer_list'[b] = data_buffer_list[b]
           /\ OutputFills(len) =>
                 \/ Succ(w_seqnum) \notin bs
                 \/ Succ(w_seqnum) # f_seqnum
    <2>1. CASE OutputFits(len)
      <3>1. Touches({w_seqnum}) /\ \A b \in Buffers : b # w_seqnum => data_buffer_list'[b] = data_buffer_list[b]
        BY <1>3, <2>1, FitsEffect
      <3>2. Succ(w_seqnum) \notin {w_seqnum}
        BY <1>4, RingStep
      <3> QED BY <1>4, <3>1, <3>2
    <2>2. CASE OutputFills(len)
      <3>1. CASE Touches({w_seqnum, Succ(w_seqnum)}) /\ Succ(w_seqnum) # f_seqnum
        <4>1. \A b \in Buffers : b # w_seqnum /\ b # Succ(w_seqnum)
                 => data_buffer_list'[b] = data_buffer_list[b]
          BY <1>3, <2>2, FillsEffect
        <4> QED BY <1>4, <3>1, <4>1
      <3>2. CASE Touches({w_seqnum}) /\ data_buffer_list'[Succ(w_seqnum)] = data_buffer_list[Succ(w_seqnum)]
        <4>1. \A b \in Buffers : b # w_seqnum => data_buffer_list'[b] = data_buffer_list[b]
          BY <1>3, <2>2, <3>2, FillsEffect
        <4>2. Succ(w_seqnum) \notin {w_seqnum}
          BY <1>4, RingStep
        <4> QED BY <1>4, <3>2, <4>1, <4>2
      <3> QED BY <1>3, <2>2, <3>1, <3>2, FillsEffect
    <2> QED BY <1>1, <2>1, <2>2
  <1>8. PICK bs \in SUBSET Buffers :
           /\ w_seqnum \in bs /\ Touches(bs)
           /\ \A b \in Buffers \ bs : data_buffer_list'[b] = data_buffer_list[b]
           /\ OutputFills(len) =>
                 \/ Succ(w_seqnum) \notin bs
                 \/ Succ(w_seqnum) # f_seqnum
    BY <1>7
  <1>9. /\ ~overrun /\ ~upset /\ \A b \in bs : State(b) # "WRITTEN"
        /\ \A p \in Flushers : at[p] \notin {"out", "erased"} => buff[p] \notin bs
    BY <1>5, <1>8, TouchFacts
  <1>10. OneActive /\ (IF partial THEN PartialInv ELSE RingInv /\ PlaceInv /\ QueueInv)
    BY <1>9 DEF OrderInv, InOrder
  <1>11. OneActive'
    BY <1>2, <1>10 DEF OneActive
  <1>12. CASE partial
    <2>1. at["remain"] \in {"free", "next", "offset"}
              => data_buffer_list'[buff["remain"]] = data_buffer_list[buff["remain"]]
      <3>1. "remain" \in Flushers /\ buff["remain"] \in Buffers
        BY Sizes DEF TypeInv, TypeOK
      <3> QED BY <1>8, <1>9, <3>1
    <2>2. PartialInv'
      BY <1>2, <1>10, <1>12, <2>1 DEF PartialInv, Window
    <2> QED BY <1>2, <1>11, <1>12, <2>2 DEF OrderInv
  <1>13. CASE ~partial
    <2>1. RingInv' /\ First' = First
      <3>1. CASE OutputFits(len)
        BY <1>3, <1>6, <1>8, <1>9, <1>10, <1>13, <3>1, FitsEffect, RingFits
      <3>2. CASE OutputFills(len)
        <4>1. State(w_seqnum) # "WRITTEN"
          BY <1>8, <1>9
        <4>2. Succ(w_seqnum) \in bs => Succ(w_seqnum) # Oldest
          <5>1. CASE Place = "next"
            <6>1. f_seqnum \notin bs
              BY <1>6, <1>9, <1>10, <1>13, <5>1 DEF PlaceInv, Place, Busy
            <6>2. w_seqnum # f_seqnum
              BY <1>8, <6>1
            <6>3. Succ(w_seqnum) # Succ(f_seqnum)
              BY <1>4, <6>2 DEF Succ, Buffers
            <6> QED BY <5>1, <6>3 DEF Oldest
          <5>2. CASE Place # "next"
            BY <1>8, <3>2, <5>2 DEF Oldest
          <5> QED BY <5>1, <5>2
        <4>3. \/ Succ(w_seqnum) \in bs
              \/ data_buffer_list'[Succ(w_seqnum)] = data_buffer_list[Succ(w_seqnum)]
          BY <1>4, <1>8
        <4>4. State(Succ(w_seqnum)) # "WRITTING"
          BY <1>4, RingStep DEF TypeInv, BufferInv
        <4>5. Succ(w_seqnum) # Oldest \/ data_buffer_list'[Succ(w_seqnum)] = data_buffer_list[Succ(w_seqnum)]
          BY <4>2, <4>3
        <4>6. data_buffer_list'[Succ(w_seqnum)].state = "WRITTING" => Succ(w_seqnum) # Oldest
          BY <4>4, <4>5 DEF State
        <4>7. \/ /\ Succ(w_seqnum) # Oldest
                 /\ cur_dump_seqnum' = cur_dump_seqnum + Begin(w_seqnum) + 1
                 /\ data_buffer_list'[Succ(w_seqnum)].state = "WRITTING"
                 /\ data_buffer_list'[Succ(w_seqnum)].seqnum = cur_dump_seqnum + Begin(w_seqnum)
              \/ /\ cur_dump_seqnum' = cur_dump_seqnum + Begin(w_seqnum)
                 /\ data_buffer_list'[Succ(w_seqnum)] = data_buffer_list[Succ(w_seqnum)]
          BY <1>3, <3>2, <4>6, FillsEffect
        <4>8. /\ w_seqnum' = Succ(w_seqnum)
              /\ data_buffer_list'[w_seqnum].state = "WRITTEN"
              /\ data_buffer_list'[w_seqnum].seqnum = Number(w_seqnum, cur_dump_seqnum)
              /\ \A b \in Buffers : b # w_seqnum /\ b # Succ(w_seqnum)
                     => data_buffer_list'[b] = data_buffer_list[b]
          BY <1>3, <3>2, FillsEffect
        <4> QED BY <1>6, <1>10, <1>13, <4>1, <4>7, <4>8, RingFills
      <3> QED BY <1>1, <3>1, <3>2
    <2>2. Log' = Log
      BY <1>6, <2>1 DEF Log
    <2>3. PlaceInv'
      <3>1. Place \notin {"out", "erased"} => Busy \notin bs
        BY <1>6, <1>9 DEF Place, Busy
      <3>2. Busy \in Buffers
        BY <1>6 DEF Busy, TypeInv, TypeOK
      <3>3. Place \notin {"out", "erased"} => data_buffer_list'[Busy] = data_buffer_list[Busy]
        BY <1>8, <3>1, <3>2
      <3> QED BY <1>2, <1>6, <1>10, <1>13, <2>2, <3>3 DEF PlaceInv, State, Flushable
    <2>4. QueueInv'
      BY <1>2, <1>6, <1>10, <1>13, <2>2 DEF QueueInv, Asks, Window, Op
    <2> QED BY <1>2, <1>11, <1>13, <2>1, <2>3, <2>4 DEF OrderInv
  <1> QED BY <1>12, <1>13

-----------------------------------------------------------------------------
(* A flush keeps the order.                                                *)

(* A step of p, the only flusher that is under way.                        *)
Moves(p) ==
    /\ Place = at[p] /\ Place' = at'[p]
    /\ Place # "out" => Active = p
    /\ Place' # "out" => Active' = p
    /\ crashed' = crashed /\ (p = "hook" => ~crashed)
    /\ \A q \in Flushers : q # p => at'[q] = at[q]

LEMMA FlushShape ==
    ASSUME TypeInv, NEW p \in Flushers, Flush(p), ~upset'
    PROVE  /\ ~upset /\ overrun' = overrun
           /\ remain' = remain /\ crashed' = crashed /\ is_immediately' = is_immediately
           /\ \/ Enters(p)
              \/ at[p] # "out" /\ (p = "hook" => ~crashed)
           /\ \A q \in Flushers : q # p => at'[q] = at[q]
  <1>1. overrun' = overrun
    BY DEF Flush, Erase, Erased, Check, Write, Free, NextBuffer, Offset, ghost
  <1>2. remain' = remain /\ crashed' = crashed /\ is_immediately' = is_immediately
    BY DEF Flush, Erase, Erased, Check, Write, Free, NextBuffer, Offset, mode
  <1>3. Enters(p) \/ (at[p] # "out" /\ (p = "hook" => ~crashed) /\ upset' = upset)
    BY DEF Flush, Erase, Erased, Check, Write, Free, NextBuffer, Offset, ghost
  <1>4. ~upset
    BY <1>3, Zenon DEF Enters
  <1>5. \A q \in Flushers : q # p => at'[q] = at[q]
    <2>1. at' = at \/ \E to \in Places : Goes(p, to)
      BY DEF Flush, Erase, Erased, Check, Write, Free, NextBuffer, Offset, Places
    <2> QED BY <2>1, GoesTo
  <1> QED BY <1>1, <1>2, <1>3, <1>4, <1>5

LEMMA FlushMoves ==
    ASSUME TypeInv, OneActive, NEW p \in Flushers, Flush(p), ~upset'
    PROVE  Moves(p) /\ OneActive'
  <1>1. /\ remain' = remain /\ crashed' = crashed /\ is_immediately' = is_immediately
        /\ Enters(p) \/ (at[p] # "out" /\ (p = "hook" => ~crashed))
        /\ \A q \in Flushers : q # p => at'[q] = at[q]
    BY FlushShape
  <1>2. Enters(p) => /\ at[p] = "out" /\ (p = "hook" => ~crashed)
                     /\ p = "remain" => remain = "loop"
    BY DEF Enters, Flushers
  <1>3. ASSUME Enters(p), ~crashed PROVE at[Other(p)] = "out"
    BY <1>3, Zenon DEF Enters
  <1>4. CASE p = "hook"
    <2>1. ~crashed /\ at'["remain"] = at["remain"]
      BY <1>1, <1>2, <1>4 DEF Flushers
    <2>2. at["remain"] = "out"
      BY <1>1, <1>3, <1>4, <2>1 DEF Other, OneActive
    <2> QED BY <1>1, <1>4, <2>1, <2>2 DEF Moves, Active, Place, OneActive
  <1>5. CASE p = "remain"
    <2>1. at'["hook"] = at["hook"]
      BY <1>1, <1>5 DEF Flushers
    <2>2. crashed \/ at["hook"] = "out"
      BY <1>1, <1>3, <1>5 DEF Other, OneActive
    <2>3. remain = "loop"
      BY <1>1, <1>2, <1>5 DEF OneActive
    <2>4. Moves(p)
      BY <1>1, <1>2, <1>5, <2>1, <2>2 DEF Moves, Active, Place
    <2> QED BY <1>1, <2>1, <2>2, <2>3, <2>4 DEF OneActive
  <1> QED BY <1>4, <1>5 DEF Flushers

(* Operation j, which is the next to ask for or has been executed once, is *)
(* accepted.                                                               *)
LEMMA AcceptsNext ==
    ASSUME TypeInv, NEW k \in Nat, NEW j \in Nat, Window(k), Accepts(Op(j)),
           \A i \in 1 .. Len(queue) : queue[i] = Op(k + i - 1),
           j = k + Len(queue) \/ (is_immediately /\ j + 1 = k + Len(queue))
    PROVE  \E l \in Nat :
              /\ l + Len(queue') = j + 1 /\ Window(l)'
              /\ \A i \in 1 .. Len(queue') : queue'[i] = Op(l + i - 1)
  <1>1. FlashType /\ queue \in Seq(Operations)
    BY DEF TypeInv, TypeOK, FlashType
  <1>2. CASE is_immediately
    <2>1. queue = <<>> /\ queue' = <<>> /\ flash' = Applied(Op(j), flash) /\ Len(queue) = 0
      BY <1>1, <1>2 DEF Accepts
    <2>2. CASE j = k
      <3>1. Window(j)
        BY <2>2
      <3>2. Window(j + 1)'
        BY <1>1, <2>1, <3>1, NextWindow
      <3> QED BY <2>1, <3>2
    <2>3. CASE j + 1 = k
      <3>1. Window(j + 1)
        BY <2>3
      <3>2. Window(j + 1)'
        BY <1>1, <2>1, <3>1, SameWindow
      <3> QED BY <2>1, <3>2
    <2> QED BY <2>1, <2>2, <2>3
  <1>3. CASE ~is_immediately
    <2>1. queue' = Append(queue, Op(j)) /\ flash' = flash /\ j = k + Len(queue)
      BY <1>3 DEF Accepts
    <2>2. Len(queue) \in Nat /\ Len(queue') = Len(queue) + 1
      BY <1>1, <2>1
    <2>3. \A i \in 1 .. Len(queue') : queue'[i] = IF i = Len(queue) + 1 THEN Op(j) ELSE queue[i]
      BY <1>1, <2>1, <2>2
    <2>4. \A i \in 1 .. Len(queue') : queue'[i] = Op(k + i - 1)
      <3> SUFFICES ASSUME NEW i \in 1 .. Len(queue') PROVE queue'[i] = Op(k + i - 1)
        OBVIOUS
      <3>1. CASE i = Len(queue) + 1
        <4>1. k + i - 1 = j
          BY <2>1, <2>2, <3>1
        <4> QED BY <2>3, <3>1, <4>1
      <3>2. CASE i # Len(queue) + 1
        <4>1. i \in 1 .. Len(queue)
          BY <2>2, <3>2
        <4> QED BY <2>3, <3>2, <4>1
      <3> QED BY <3>1, <3>2
    <2>5. Window(k)'
      BY <2>1 DEF Window
    <2> QED BY <2>1, <2>2, <2>4, <2>5
  <1> QED BY <1>2, <1>3

(* Everything is in order and no buffer has been flushed before its time.  *)
Whole == TypeInv /\ OneActive /\ RingInv /\ PlaceInv /\ QueueInv /\ ~partial

LEMMA PositionFacts ==
    ASSUME Whole
    PROVE  /\ Log \in Nat /\ Log % NSector \in Sectors /\ flash_offs = (Log % NSector) * Size
           /\ flash_offs % Size = 0 /\ flash_offs \div Size = Log % NSector
           /\ First \in Int /\ Oldest \in Buffers /\ f_seqnum \in Buffers /\ w_seqnum \in Buffers
           /\ Active \in Flushers /\ Place \in Places
  <1>1. Oldest \in Buffers /\ w_seqnum \in Buffers /\ f_seqnum \in Buffers
    BY OldestBuffer DEF Whole
  <1>2. Fulls \in Int /\ cur_dump_seqnum \in Int
    BY <1>1, Distances, Sizes DEF Fulls, Whole, TypeInv, TypeOK
  <1>3. First \in Int
    BY <1>2 DEF First
  <1>4. Log \in Nat
    BY <1>3 DEF Log, Whole, PlaceInv
  <1>5. Log % NSector \in Sectors /\ flash_offs = (Log % NSector) * Size
    BY <1>4, SectorOf DEF Whole, PlaceInv
  <1>6. Active \in Flushers /\ Place \in Places
    BY DEF Active, Place, Flushers, Whole, TypeInv, TypeOK, Places
  <1> QED BY <1>1, <1>3, <1>4, <1>5, <1>6, SectorPlace

(* The buffers are not touched and the oldest stays the same one.          *)
LEMMA SameRing ==
    ASSUME RingInv, UNCHANGED ring, Oldest' = Oldest
    PROVE  RingInv' /\ First' = First /\ \A b \in Buffers : State(b)' = State(b)
  <1>1. /\ data_buffer_list' = data_buffer_list /\ w_seqnum' = w_seqnum
        /\ cur_dump_seqnum' = cur_dump_seqnum
    BY DEF ring
  <1>2. Fulls' = Fulls /\ First' = First
    BY <1>1 DEF Fulls, First, State, Dist
  <1> QED BY <1>1, <1>2 DEF RingInv, State, Dist

LEMMA EraseOrder ==
    ASSUME Whole, NEW p \in Flushers, Moves(p), Erase(p)
    PROVE  RingInv' /\ PlaceInv' /\ QueueInv' /\ ~partial'
  <1>1. /\ UNCHANGED <<ring, f_seqnum, flash_offs, flash_state, partial, buff>>
        /\ Place = "out" /\ flash_state = "IDLE" /\ at[p] = "out"
    BY DEF Erase, Enters, place, Moves
  <1>2. Place' \in {"out", "erased"}
    BY <1>1, GoesTo DEF Erase, Moves, Whole, Places
  <1>3. Oldest' = Oldest
    BY <1>1, <1>2 DEF Oldest
  <1>4. RingInv' /\ First' = First
    BY <1>1, <1>3, SameRing DEF Whole
  <1>5. Log' = Log
    BY <1>1, <1>2, <1>4 DEF Log
  <1>6. PlaceInv'
    BY <1>1, <1>2, <1>5 DEF PlaceInv, Whole
  <1>7. QueueInv'
    <2>1. PICK k \in Nat :
             /\ Asks(k + Len(queue)) /\ Window(k)
             /\ \A i \in 1 .. Len(queue) : queue[i] = Op(k + i - 1)
      BY DEF Whole, QueueInv
    <2>2. k + Len(queue) = 2 * Log \/ (crashed /\ k + Len(queue) = 2 * Log + 1)
      BY <1>1, <2>1 DEF Asks
    <2>3. CASE Refuses /\ UNCHANGED at
      <3>1. queue' = queue /\ flash' = flash /\ Place' = "out"
        BY <1>1, <2>3 DEF Refuses, nor, Moves
      <3>2. Asks(k + Len(queue))'
        <4>1. crashed' = crashed
          BY DEF Moves
        <4> QED BY <1>1, <1>5, <2>2, <3>1, <4>1 DEF Asks
      <3>3. Window(k)'
        BY <2>1, <3>1 DEF Window
      <3> QED BY <2>1, <3>1, <3>2, <3>3 DEF QueueInv
    <2>4. CASE Accepts([type |-> "erase", sector |-> flash_offs \div Size]) /\ Goes(p, "erased")
      <3>1. Place' = "erased"
        BY <2>4, GoesTo DEF Moves, Whole, Places
      <3>2. Log \in Nat /\ Accepts(Op(2 * Log))
        BY <2>4, PositionFacts, OpType
      <3>3. crashed => is_immediately
        BY DEF Whole, OneActive
      <3>4. 2 * Log \in Nat /\ Len(queue) \in Nat
        BY <3>2 DEF Whole, TypeInv, TypeOK
      <3>5. 2 * Log = k + Len(queue) \/ (is_immediately /\ 2 * Log + 1 = k + Len(queue))
        BY <2>2, <3>3
      <3>6. PICK l \in Nat :
               /\ l + Len(queue') = 2 * Log + 1 /\ Window(l)'
               /\ \A i \in 1 .. Len(queue') : queue'[i] = Op(l + i - 1)
        BY <2>1, <3>2, <3>4, <3>5, AcceptsNext DEF Whole
      <3>7. Asks(l + Len(queue))'
        BY <1>5, <3>1, <3>6 DEF Asks
      <3> QED BY <3>6, <3>7 DEF QueueInv
    <2> QED BY <2>3, <2>4 DEF Erase
  <1>8. ~partial'
    BY <1>1 DEF Whole
  <1> QED BY <1>4, <1>6, <1>7, <1>8

(* A step that asks for nothing: the place it moves to asks for the same.  *)
LEMMA SameQueue ==
    ASSUME QueueInv, UNCHANGED nor, \A k \in Nat : Asks(k) => Asks(k)'
    PROVE  QueueInv'
  <1>1. PICK k \in Nat :
           /\ Asks(k + Len(queue)) /\ Window(k)
           /\ \A i \in 1 .. Len(queue) : queue[i] = Op(k + i - 1)
    BY DEF QueueInv
  <1>2. queue' = queue /\ flash' = flash
    BY DEF nor
  <1>3. Window(k)'
    BY <1>1, <1>2 DEF Window
  <1>4. k + Len(queue) \in Nat
    BY <1>1 DEF Asks
  <1>5. Asks(k + Len(queue))'
    BY <1>1, <1>2, <1>4
  <1> QED BY <1>1, <1>2, <1>3, <1>5 DEF QueueInv

LEMMA ErasedOrder ==
    ASSUME Whole, NEW p \in Flushers, Moves(p), Erased(p)
    PROVE  RingInv' /\ PlaceInv' /\ QueueInv' /\ ~partial'
  <1>1. /\ UNCHANGED <<ring, f_seqnum, flash_offs, partial, buff, nor>>
        /\ Place = "erased" /\ flash_state' = "ERASED" /\ ~partial'
    BY DEF Erased, ghost, Moves, Whole
  <1>2. Place' = "out"
    BY GoesTo DEF Erased, Moves, Whole, Places
  <1>3. RingInv' /\ First' = First
    BY <1>1, <1>2, SameRing DEF Whole, Oldest
  <1>4. Log' = Log
    BY <1>1, <1>2, <1>3 DEF Log
  <1>5. PlaceInv'
    BY <1>1, <1>2, <1>4 DEF PlaceInv, Whole
  <1>6. \A k \in Nat : Asks(k) => Asks(k)'
    BY <1>1, <1>2, <1>4 DEF Asks
  <1> QED BY <1>1, <1>3, <1>5, <1>6, SameQueue DEF Whole

LEMMA CheckOrder ==
    ASSUME Whole, NEW p \in Flushers, Moves(p), Check(p)
    PROVE  RingInv' /\ PlaceInv' /\ QueueInv' /\ ~partial'
  <1>1. /\ UNCHANGED <<ring, f_seqnum, flash_offs, partial, nor>>
        /\ Place = "out" /\ flash_state # "IDLE" /\ flash_state' = "WRITTING" /\ ~partial'
        /\ State(f_seqnum) \in Flushable(p)
    BY DEF Check, Enters, Moves, Whole, State
  <1>2. Place' = "write" /\ Active' = p
    BY GoesTo DEF Check, Moves, Whole, Places
  <1>3. Busy' = f_seqnum
    <2>1. buff'[p] = f_seqnum
      BY DEF Check, Whole, TypeInv, TypeOK
    <2> QED BY <1>2, <2>1 DEF Busy
  <1>4. /\ RingInv' /\ First' = First
        /\ State(f_seqnum)' = State(f_seqnum)
    BY <1>1, <1>2, SameRing DEF Whole, Oldest, State, ring
  <1>5. Log' = Log
    BY <1>1, <1>2, <1>4 DEF Log
  <1>6. PlaceInv'
    BY <1>1, <1>2, <1>3, <1>4, <1>5 DEF PlaceInv, Whole, Flushable
  <1>7. \A k \in Nat : Asks(k) => Asks(k)'
    <2>1. crashed' = crashed /\ flash_state \in {"ERASED", "WRITTING"}
      BY <1>1 DEF Moves, Whole, TypeInv, TypeOK
    <2> QED BY <1>1, <1>2, <1>5, <2>1 DEF Asks
  <1> QED BY <1>1, <1>4, <1>6, <1>7, SameQueue DEF Whole

(* The buffer at the flush position holds the log the position is for.     *)
LEMMA NextToWrite ==
    ASSUME Whole, Place \in {"write", "free"}
    PROVE  /\ Oldest = f_seqnum /\ Log = First /\ State(f_seqnum) # "FREE"
           /\ State(f_seqnum) = "WRITTEN" =>
                 /\ Fulls > 0 /\ data_buffer_list[f_seqnum].seqnum = Log
                 /\ data_buffer_list[f_seqnum].offset = Size
           /\ State(f_seqnum) = "WRITTING" =>
                 /\ data_buffer_list[f_seqnum].seqnum = Log
                 /\ data_buffer_list[f_seqnum].offset \in 1 .. Size - 1
  <1>1. Oldest = f_seqnum /\ Log = First /\ f_seqnum \in Buffers /\ w_seqnum \in Buffers /\ First \in Int
    BY PositionFacts DEF Oldest, Log
  <1>2. State(f_seqnum) # "FREE"
    BY DEF Whole, PlaceInv, Flushable
  <1>3. Dist(f_seqnum, f_seqnum) = 0
    BY <1>1, Distances
  <1>4. CASE State(f_seqnum) = "WRITTEN"
    <2>1. Fulls > 0
      <3>1. CASE f_seqnum = w_seqnum
        BY <1>4, <3>1, Sizes DEF Fulls
      <3>2. CASE f_seqnum # w_seqnum
        <4>1. Dist(Oldest, f_seqnum) < Fulls
          BY <1>1, <1>4, <3>2 DEF Whole, RingInv
        <4> QED BY <1>1, <1>3, <4>1
      <3> QED BY <3>1, <3>2
    <2>2. data_buffer_list[f_seqnum].seqnum = First + Dist(Oldest, f_seqnum)
      BY <1>1, <1>3, <2>1 DEF Whole, RingInv
    <2>3. data_buffer_list[f_seqnum].offset = Size
      BY <1>1, <1>4 DEF Whole, TypeInv, BufferInv
    <2> QED BY <1>1, <1>2, <1>3, <1>4, <2>1, <2>2, <2>3
  <1>5. CASE State(f_seqnum) = "WRITTING"
    <2>1. f_seqnum = w_seqnum /\ data_buffer_list[f_seqnum].offset \in 1 .. Size - 1
      BY <1>1, <1>5 DEF Whole, TypeInv, BufferInv
    <2>2. Fulls = 0 /\ First = cur_dump_seqnum - 0 - 1
      BY <1>1, <1>3, <1>5, <2>1 DEF Fulls, First
    <2>3. data_buffer_list[w_seqnum].seqnum = cur_dump_seqnum - 1 /\ cur_dump_seqnum \in Int
      BY <1>5, <2>1 DEF Whole, RingInv, TypeInv, TypeOK
    <2> QED BY <1>1, <1>2, <1>5, <2>1, <2>2, <2>3
  <1>6. State(f_seqnum) \in {"WRITTEN", "WRITTING"}
    BY <1>2, <1>1 DEF State, Whole, TypeInv, TypeOK
  <1> QED BY <1>4, <1>5, <1>6

LEMMA WriteOrder ==
    ASSUME Whole, NEW p \in Flushers, Moves(p), Write(p), OneActive'
    PROVE  IF partial' THEN PartialInv' ELSE RingInv' /\ PlaceInv' /\ QueueInv'
  <1>1. /\ UNCHANGED <<ring, place, mode, buff>>
        /\ Place = "write" /\ at[p] = "write" /\ Active = p /\ Busy = buff[p] /\ Busy = f_seqnum
        /\ flash_state = "WRITTING" /\ partial = FALSE
    BY DEF Write, Moves, Whole, PlaceInv, Busy, TypeInv, TypeOK
  <1>2. /\ State(f_seqnum) \in Flushable(p) /\ f_seqnum \in Buffers
        /\ Log \in Nat /\ flash_offs = (Log % NSector) * Size /\ flash_offs % Size = 0
    BY <1>1, PositionFacts DEF Whole, PlaceInv
  <1>3. Place' \in {"out", "free"} /\ (Place' = "free" => Active' = p)
    BY <1>1, GoesTo DEF Write, Moves, Whole, Places
  <1>4. /\ RingInv' /\ First' = First
        /\ State(f_seqnum)' = State(f_seqnum) /\ data_buffer_list' = data_buffer_list
    BY <1>1, <1>3, SameRing DEF Whole, Oldest, State, ring, place
  <1>5. Log' = Log
    BY <1>1, <1>3, <1>4 DEF Log
  <1>6. PICK k \in Nat :
           /\ Asks(k + Len(queue)) /\ Window(k)
           /\ \A i \in 1 .. Len(queue) : queue[i] = Op(k + i - 1)
    BY DEF Whole, QueueInv
  <1>7. k + Len(queue) = 2 * Log + 1 \/ (crashed /\ k + Len(queue) = 2 * Log + 2)
    BY <1>1, <1>6 DEF Asks
  <1>8. CASE Refuses /\ Goes(p, "out") /\ UNCHANGED partial
    <2>1. queue' = queue /\ flash' = flash /\ Place' = "out" /\ ~partial'
      BY <1>1, <1>8, GoesTo DEF Refuses, nor, Moves, Whole, Places
    <2>2. PlaceInv'
      BY <1>1, <1>5, <2>1 DEF PlaceInv, Whole, place
    <2>3. Asks(k + Len(queue))'
      <3>1. crashed' = crashed /\ flash_state' = flash_state
        BY <1>1 DEF Moves, place
      <3> QED BY <1>1, <1>5, <1>7, <2>1, <3>1 DEF Asks
    <2>4. Window(k)'
      BY <1>6, <2>1 DEF Window
    <2> QED BY <1>4, <1>6, <2>1, <2>2, <2>3, <2>4 DEF QueueInv
  <1>9. CASE /\ Accepts([type |-> "write", offs |-> flash_offs, seqnum |-> data_buffer_list[buff[p]].seqnum])
             /\ partial' = (partial \/ data_buffer_list[buff[p]].offset < Size)
             /\ Goes(p, "free")
    <2>1. Place' = "free" /\ Active' = p /\ at'[p] = "free"
      BY <1>9, GoesTo DEF Moves, Whole, Places
    <2>2. data_buffer_list[f_seqnum].seqnum = Log
      BY <1>1, <1>2, NextToWrite DEF Flushable
    <2>3. Accepts(Op(2 * Log + 1))
      BY <1>1, <1>2, <1>9, <2>2, OpType
    <2>4. PICK l \in Nat :
             /\ l + Len(queue') = 2 * Log + 2 /\ Window(l)'
             /\ \A i \in 1 .. Len(queue') : queue'[i] = Op(l + i - 1)
      <3>1. 2 * Log + 1 \in Nat /\ Len(queue) \in Nat /\ (crashed => is_immediately)
        BY <1>2 DEF Whole, OneActive, TypeInv, TypeOK
      <3>2. \/ 2 * Log + 1 = k + Len(queue)
            \/ is_immediately /\ (2 * Log + 1) + 1 = k + Len(queue)
        BY <1>2, <1>7, <3>1
      <3>3. \E l \in Nat :
               /\ l + Len(queue') = (2 * Log + 1) + 1 /\ Window(l)'
               /\ \A i \in 1 .. Len(queue') : queue'[i] = Op(l + i - 1)
        BY <1>6, <2>3, <3>1, <3>2, AcceptsNext DEF Whole
      <3> QED BY <1>2, <3>3
    <2>5. CASE State(f_seqnum) = "WRITTEN"
      <3>1. ~partial'
        <4>1. ~(data_buffer_list[buff[p]].offset < Size)
          BY <1>1, <2>5, NextToWrite, Sizes
        <4> QED BY <1>9, <4>1, Zenon DEF Whole
      <3>2. PlaceInv'
        <4>1. Busy' = f_seqnum /\ f_seqnum' = f_seqnum /\ flash_offs' = flash_offs /\ flash_state' = "WRITTING"
          BY <1>1, <2>1 DEF Busy, place
        <4> QED BY <1>4, <1>5, <2>1, <2>5, <4>1 DEF PlaceInv, Whole, State
      <3>3. Asks(l + Len(queue))'
        BY <1>5, <2>1, <2>4 DEF Asks
      <3> QED BY <1>4, <2>4, <3>1, <3>2, <3>3 DEF QueueInv
    <2>6. CASE State(f_seqnum) = "WRITTING"
      <3>1. p = "remain"
        BY <1>2, <2>6 DEF Flushable, Flushers
      <3>2. data_buffer_list[f_seqnum].offset \in 1 .. Size - 1
        BY <1>1, <2>6, NextToWrite
      <3>3. partial'
        <4>1. data_buffer_list[buff[p]].offset < Size
          BY <1>1, <3>2, Sizes
        <4> QED BY <1>9, <4>1, Zenon
      <3>4. is_immediately
        BY <1>1, <3>1 DEF Whole, OneActive
      <3>5. queue' = <<>>
        BY <1>9, <3>4 DEF Accepts
      <3>6. crashed' \/ at'["hook"] = "out"
        <4>1. at'["remain"] # "out"
          BY <2>1, <3>1
        <4> QED BY <4>1 DEF OneActive
      <3>7. PartialInv'
        <4>1. flash_offs' = flash_offs /\ buff' = buff
          BY <1>1 DEF place
        <4>2. data_buffer_list'[buff'["remain"]].offset \in 1 .. Size - 1
          BY <1>1, <1>4, <3>1, <3>2, <4>1
        <4>3. \E l2 \in Nat : Window(l2)'
          BY <2>4
        <4> QED BY <1>2, <2>1, <3>1, <3>5, <3>6, <4>1, <4>2, <4>3 DEF PartialInv
      <3> QED BY <3>3, <3>7
    <2> QED BY <1>2, <2>5, <2>6 DEF Flushable
  <1> QED BY <1>8, <1>9 DEF Write

LEMMA FreeOrder ==
    ASSUME Whole, NEW p \in Flushers, Moves(p), Free(p)
    PROVE  RingInv' /\ PlaceInv' /\ QueueInv' /\ ~partial'
  <1> DEFINE f == f_seqnum
             w == w_seqnum
  <1>1. /\ UNCHANGED <<w_seqnum, cur_dump_seqnum, place, nor, mode, buff>> /\ ~partial'
        /\ Place = "free" /\ Active = p /\ Busy = buff[p] /\ Busy = f
        /\ flash_state = "WRITTING" /\ State(f) = "WRITTEN"
    BY DEF Free, ghost, Moves, Whole, PlaceInv, Busy
  <1>2. Place' = "next" /\ Active' = p
    BY GoesTo DEF Free, Moves, Whole, Places
  <1>3. /\ f \in Buffers /\ w \in Buffers /\ Oldest = f /\ Log = First /\ First \in Int /\ Fulls > 0
        /\ Fulls \in Int /\ cur_dump_seqnum \in Int
    <2>1. f \in Buffers /\ w \in Buffers /\ First \in Int /\ Oldest \in Buffers
      BY PositionFacts
    <2>2. Fulls \in Int
      BY <2>1, Distances, Sizes DEF Fulls
    <2> QED BY <1>1, <2>1, <2>2, NextToWrite DEF Whole, TypeInv, TypeOK
  <1>4. /\ data_buffer_list'[f].state = "FREE"
        /\ data_buffer_list'[f].offset = Size
        /\ \A b \in Buffers : b # f => data_buffer_list'[b] = data_buffer_list[b]
    <2>1. data_buffer_list' = [data_buffer_list EXCEPT ![f].state = "FREE"]
      BY <1>1 DEF Free
    <2>2. data_buffer_list \in [Buffers -> Buffer] /\ data_buffer_list[f].offset = Size
      BY <1>1, NextToWrite DEF Whole, TypeInv, TypeOK, Buffer
    <2> QED BY <1>3, <2>1, <2>2 DEF Buffer
  <1>5. Oldest' = Succ(f)
    BY <1>1, <1>2 DEF Oldest, place
  <1>6. w = f <=> State(w) = "WRITTEN"
    BY <1>1, <1>3 DEF Whole, RingInv
  <1>7. /\ \A b \in Buffers : Dist(f, b) \in 0 .. NBuffer - 1 /\ (Dist(f, b) = 0 <=> b = f)
        /\ \A b \in Buffers :
              Dist(Succ(f), b) = IF b = f THEN NBuffer - 1 ELSE Dist(f, b) - 1
        /\ NBuffer \in Int
    BY <1>3, Distances, Sizes
  <1>8. \A b \in Buffers : Dist(Oldest, b)' = Dist(Succ(f), b)
    BY <1>5 DEF Dist
  <1>9. Dist(Oldest, w_seqnum)' = Dist(Succ(f), w)
    BY <1>1, <1>5 DEF Dist
  <1>10. State(w_seqnum)' = IF w = f THEN "FREE" ELSE State(w)
    BY <1>1, <1>3, <1>4 DEF State
  <1>11. Fulls' = Fulls - 1
    <2>1. CASE w = f
      <3>1. Fulls = NBuffer
        BY <1>6, <2>1 DEF Fulls
      <3>2. Fulls' = Dist(Succ(f), w)
        BY <1>9, <1>10, <2>1 DEF Fulls
      <3> QED BY <1>3, <1>7, <2>1, <3>1, <3>2
    <2>2. CASE w # f
      <3>1. Fulls = Dist(f, w)
        BY <1>3, <1>6, <2>2 DEF Fulls
      <3>2. Fulls' = Dist(Succ(f), w)
        BY <1>6, <1>9, <1>10, <2>2 DEF Fulls
      <3> QED BY <1>3, <1>7, <2>2, <3>1, <3>2
    <2> QED BY <2>1, <2>2
  <1>12. First' = First + 1
    <2>1. State(w_seqnum)' = "WRITTING" <=> State(w) = "WRITTING"
      BY <1>6, <1>10
    <2> QED BY <1>1, <1>3, <1>11, <2>1 DEF First
  <1>13. Log' = Log
    BY <1>2, <1>3, <1>12 DEF Log
  <1>14. ASSUME NEW b \in Buffers
         PROVE  IF Dist(Oldest, b)' < Fulls'
                THEN State(b)' = "WRITTEN" /\ data_buffer_list'[b].seqnum = First' + Dist(Oldest, b)'
                ELSE b # w_seqnum' => State(b)' = "FREE"
    <2>1. CASE b = f
      <3>1. Fulls <= NBuffer
        BY <1>3, <1>7, Sizes DEF Fulls
      <3>2. ~(Dist(Oldest, b)' < Fulls')
        BY <1>3, <1>7, <1>8, <1>11, <2>1, <3>1
      <3> QED BY <1>4, <2>1, <3>2 DEF State
    <2>2. CASE b # f
      <3>1. Dist(Oldest, b)' = Dist(f, b) - 1
        BY <1>7, <1>8, <2>2
      <3>2. data_buffer_list'[b] = data_buffer_list[b] /\ State(b)' = State(b)
        BY <1>4, <2>2 DEF State
      <3>3. IF Dist(f, b) < Fulls
            THEN State(b) = "WRITTEN" /\ data_buffer_list[b].seqnum = First + Dist(f, b)
            ELSE b # w => State(b) = "FREE"
        BY <1>3 DEF Whole, RingInv
      <3>4. Dist(f, b) \in Int
        BY <1>7
      <3> QED BY <1>1, <1>3, <1>11, <1>12, <3>1, <3>2, <3>3, <3>4
    <2> QED BY <2>1, <2>2
  <1>15. RingInv'
    <2>1. State(w_seqnum)' # "WRITTEN"
      BY <1>6, <1>10
    <2>2. State(w_seqnum)' = "WRITTING" => data_buffer_list'[w_seqnum'].seqnum = cur_dump_seqnum' - 1
      BY <1>1, <1>3, <1>4, <1>10 DEF Whole, RingInv
    <2>3. First' >= 0
      BY <1>3, <1>12 DEF Whole, RingInv
    <2> QED BY <1>14, <2>1, <2>2, <2>3 DEF RingInv
  <1>16. PlaceInv'
    <2>1. Busy' = f /\ f_seqnum' = f /\ flash_offs' = flash_offs /\ flash_state' = "WRITTING"
      BY <1>1, <1>2 DEF Busy, place
    <2>2. State(Busy)' = "FREE" /\ data_buffer_list'[Busy'].offset = Size
      BY <1>4, <2>1 DEF State
    <2> QED BY <1>2, <1>13, <2>1, <2>2 DEF PlaceInv, Whole
  <1>17. QueueInv'
    <2>1. \A k \in Nat : Asks(k) => Asks(k)'
      BY <1>1, <1>2, <1>13 DEF Asks
    <2> QED BY <1>1, <2>1, SameQueue DEF Whole
  <1> QED BY <1>1, <1>15, <1>16, <1>17

LEMMA NextBufferOrder ==
    ASSUME Whole, NEW p \in Flushers, Moves(p), NextBuffer(p)
    PROVE  RingInv' /\ PlaceInv' /\ QueueInv' /\ ~partial'
  <1>1. /\ UNCHANGED <<ring, flash_offs, flash_state, buff, nor>> /\ ~partial'
        /\ Place = "next" /\ Active = p /\ Busy = f_seqnum /\ flash_state = "WRITTING"
        /\ State(Busy) = "FREE" /\ data_buffer_list[Busy].offset = Size
    BY DEF NextBuffer, ghost, Moves, Whole, PlaceInv
  <1>2. Place' = "offset" /\ Active' = p /\ Busy' = f_seqnum
    <2>1. Place' = "offset" /\ Active' = p
      BY GoesTo DEF NextBuffer, Moves, Whole, Places
    <2> QED BY <1>1, <2>1 DEF Busy
  <1>3. f_seqnum' = Succ(f_seqnum)
    BY PositionFacts, RingStep DEF NextBuffer
  <1>4. RingInv' /\ First' = First /\ State(Busy)' = State(Busy)
    <2>1. Oldest' = Oldest
      BY <1>1, <1>2, <1>3 DEF Oldest
    <2>2. State(Busy)' = State(Busy)
      BY <1>1, <1>2 DEF State, ring
    <2> QED BY <1>1, <2>1, <2>2, SameRing DEF Whole
  <1>5. Log' = Log
    BY <1>1, <1>2, <1>4 DEF Log
  <1>6. PlaceInv'
    BY <1>1, <1>2, <1>3, <1>4, <1>5 DEF PlaceInv, Whole, ring
  <1>7. \A k \in Nat : Asks(k) => Asks(k)'
    BY <1>1, <1>2, <1>5 DEF Asks
  <1> QED BY <1>1, <1>4, <1>6, <1>7, SameQueue DEF Whole

LEMMA OffsetOrder ==
    ASSUME Whole, NEW p \in Flushers, Moves(p), Offset(p)
    PROVE  RingInv' /\ PlaceInv' /\ QueueInv' /\ ~partial'
  <1>1. /\ UNCHANGED <<ring, f_seqnum, nor>> /\ ~partial' /\ flash_state' = "IDLE"
        /\ Place = "offset" /\ Active = p /\ Busy = buff[p] /\ data_buffer_list[Busy].offset = Size
    BY DEF Offset, ghost, Moves, Whole, PlaceInv, Busy
  <1>2. Place' = "out"
    BY GoesTo DEF Offset, Moves, Whole, Places
  <1>3. RingInv' /\ First' = First
    <2>1. Oldest' = Oldest
      BY <1>1, <1>2 DEF Oldest
    <2> QED BY <1>1, <2>1, SameRing DEF Whole
  <1>4. Log' = Log + 1 /\ Log \in Nat
    BY <1>1, <1>2, <1>3, PositionFacts DEF Log
  <1>5. flash_offs' = ((Log + 1) % NSector) * Size
    <2> DEFINE s == Log % NSector
    <2>1. s \in Sectors /\ flash_offs = s * Size
      BY PositionFacts
    <2>2. (Log + 1) % NSector = IF s + 1 = NSector THEN 0 ELSE s + 1
      BY <1>4, SectorOf
    <2>3. flash_offs' = IF flash_offs + Size >= NSector * Size THEN 0 ELSE flash_offs + Size
      BY <1>1 DEF Offset
    <2> HIDE DEF s
    <2>4. NSector * Size \in Int /\ NSector \in Nat /\ s \in 0 .. NSector - 1 /\ s * Size \in Int /\ Size \in Nat
      BY <2>1, Sizes DEF Sectors
    <2>5. CASE s + 1 = NSector
      <3>1. s * Size + Size = NSector * Size
        BY <2>1, <2>5, SectorPlace
      <3>2. flash_offs' = 0
        BY <2>1, <2>3, <2>4, <3>1
      <3>3. (Log + 1) % NSector = 0
        BY <2>2, <2>5
      <3> QED BY <2>4, <3>2, <3>3
    <2>6. CASE s + 1 # NSector
      <3>1. s * Size + Size = (s + 1) * Size /\ s * Size + Size < NSector * Size
        BY <2>1, <2>4, <2>6, SectorPlace
      <3>2. flash_offs' = (s + 1) * Size
        BY <2>1, <2>3, <2>4, <3>1
      <3> QED BY <2>2, <2>6, <3>2
    <2> QED BY <2>5, <2>6
  <1>6. PlaceInv'
    <2>1. Log' \in Nat
      BY <1>4
    <2> QED BY <1>1, <1>2, <1>4, <1>5, <2>1 DEF PlaceInv
  <1>7. \A k \in Nat : Asks(k) => Asks(k)'
    <2>1. \A k \in Nat : Asks(k) => k = 2 * Log + 2
      BY <1>1 DEF Asks
    <2>2. 2 * Log' = 2 * Log + 2
      BY <1>4
    <2> QED BY <1>1, <1>2, <2>1, <2>2 DEF Asks
  <1> QED BY <1>1, <1>3, <1>6, <1>7, SameQueue DEF Whole

(* Once a partial flush has begun, what is left of it are its last steps.  *)
LEMMA PartialOrder ==
    ASSUME TypeInv, OneActive, PartialInv, partial, NEW p \in Flushers, Flush(p), ~upset'
    PROVE  PartialInv' /\ partial'
  <1>1. (p = "remain" /\ at[p] \in {"free", "next", "offset"}) \/ Erase(p)
    <2>1. \/ Enters(p)
          \/ at[p] # "out" /\ (p = "hook" => ~crashed)
      BY FlushShape
    <2>2. Moves(p)
      BY FlushMoves
    <2>3. CASE p = "hook"
      <3>1. ~crashed /\ at["hook"] = "out"
        BY <2>2, <2>3 DEF Moves, PartialInv
      <3>2. at["remain"] = "out"
        <4>1. Enters(p)
          BY <2>1, <2>3, <3>1
        <4> QED BY <2>3, <3>1, <4>1, Zenon DEF Enters, Other
      <3>3. flash_state = "IDLE"
        BY <3>2 DEF PartialInv
      <3> QED BY <2>3, <3>1, <3>3 DEF Flush, Erased, Check, Write, Free, NextBuffer, Offset
    <2>4. CASE p = "remain"
      <3>1. at["remain"] = "out" => flash_state = "IDLE"
        BY DEF PartialInv
      <3> QED BY <2>4, <3>1
              DEF PartialInv, Flush, Erased, Check, Write, Free, NextBuffer, Offset
    <2> QED BY <2>3, <2>4 DEF Flushers
  <1>2. ~Erase(p)
    <2>1. SUFFICES ASSUME Erase(p) PROVE FALSE
      OBVIOUS
    <2>2. flash_offs % Size = 0 /\ at[p] = "out" /\ (p = "hook" => ~crashed)
      BY <2>1 DEF Erase, Enters
    <2>3. at["remain"] \in {"free", "next", "offset"}
      BY <2>2 DEF PartialInv
    <2>4. p = "hook" /\ ~crashed
      BY <2>2, <2>3 DEF Flushers
    <2>5. at["remain"] = "out"
      BY <2>1, <2>4, Zenon DEF Erase, Enters, Other
    <2> QED BY <2>3, <2>5
  <1>3. p = "remain" /\ at[p] \in {"free", "next", "offset"}
    BY <1>1, <1>2
  <1>4. Free(p) \/ NextBuffer(p) \/ Offset(p)
    BY <1>3 DEF Flush, Erase, Erased, Check, Write, Enters
  <1>5. /\ queue' = queue /\ flash' = flash /\ crashed' = crashed /\ buff' = buff /\ partial' = partial
        /\ at'["hook"] = at["hook"]
    <2>1. at'["hook"] = at["hook"]
      BY <1>3, FlushShape, Sizes
    <2> QED BY <1>4, <2>1 DEF Free, NextBuffer, Offset, nor, mode, ghost
  <1>6. queue' = <<>> /\ (\E k \in Nat : Window(k)') /\ (crashed' \/ at'["hook"] = "out") /\ partial'
    <2>1. PICK k \in Nat : Window(k)
      BY DEF PartialInv
    <2>2. Window(k)'
      BY <1>5, <2>1 DEF Window
    <2>3. partial'
      BY <1>5, Zenon
    <2> QED BY <1>5, <2>2, <2>3 DEF PartialInv
  <1>7. /\ buff["remain"] \in Buffers /\ data_buffer_list \in [Buffers -> Buffer]
        /\ flash_offs % Size = 0 /\ data_buffer_list[buff["remain"]].offset \in 1 .. Size - 1
        /\ flash_offs \in 0 .. NSector * Size - 1
    BY <1>3 DEF PartialInv, TypeInv, TypeOK, Buffer, Flushers
  <1>8. CASE Free(p)
    <2>1. at'["remain"] = "next" /\ flash_offs' = flash_offs
      BY <1>3, <1>8, GoesTo DEF Free, place, Places
    <2>2. data_buffer_list'[buff["remain"]].offset = data_buffer_list[buff["remain"]].offset
      BY <1>3, <1>7, <1>8 DEF Free, Buffer
    <2> QED BY <1>5, <1>6, <1>7, <2>1, <2>2 DEF PartialInv
  <1>9. CASE NextBuffer(p)
    <2>1. at'["remain"] = "offset" /\ flash_offs' = flash_offs
      BY <1>3, <1>9, GoesTo DEF NextBuffer, Places
    <2>2. data_buffer_list' = data_buffer_list
      BY <1>9 DEF NextBuffer, ring
    <2> QED BY <1>5, <1>6, <1>7, <2>1, <2>2 DEF PartialInv
  <1>10. CASE Offset(p)
    <2>1. at'["remain"] = "out" /\ flash_state' = "IDLE"
      BY <1>3, <1>10, GoesTo DEF Offset, Places
    <2> DEFINE s == flash_offs \div Size
               r == data_buffer_list[buff["remain"]].offset
    <2>2. s \in Sectors /\ flash_offs = s * Size
      BY <1>7, OffsetSector
    <2>3. r \in 1 .. Size - 1
      BY <1>7
    <2>4. flash_offs' = IF flash_offs + r >= NSector * Size THEN 0 ELSE flash_offs + r
      BY <1>3, <1>10 DEF Offset
    <2> HIDE DEF s, r
    <2>5. s * Size + r \in 0 .. NSector * Size - 1 /\ (s * Size + r) % Size # 0
      BY <2>2, <2>3, SectorPlace
    <2>6. NSector * Size \in Int
      BY Sizes
    <2>7. flash_offs' = s * Size + r
      BY <2>2, <2>4, <2>5, <2>6
    <2> QED BY <1>6, <2>1, <2>5, <2>7 DEF PartialInv
  <1> QED BY <1>4, <1>6, <1>8, <1>9, <1>10

LEMMA FlushOrder ==
    ASSUME TypeInv, OrderInv, NEW p \in Flushers, Flush(p), InOrder'
    PROVE  OrderInv'
  <1>1. ~upset' /\ ~overrun'
    BY DEF InOrder
  <1>2. ~upset /\ overrun' = overrun
    BY <1>1, FlushShape
  <1>3. InOrder
    BY <1>1, <1>2, Zenon DEF InOrder
  <1>4. OneActive /\ IF partial THEN PartialInv ELSE RingInv /\ PlaceInv /\ QueueInv
    BY <1>3 DEF OrderInv
  <1>5. Moves(p) /\ OneActive'
    BY <1>1, <1>4, FlushMoves
  <1>6. CASE partial
    <2>1. PartialInv' /\ partial'
      BY <1>1, <1>4, <1>6, PartialOrder
    <2> QED BY <1>5, <2>1 DEF OrderInv
  <1>7. CASE ~partial
    <2>1. Whole
      BY <1>4, <1>7 DEF Whole
    <2>2. IF partial' THEN PartialInv' ELSE RingInv' /\ PlaceInv' /\ QueueInv'
      BY <1>5, <2>1, EraseOrder, ErasedOrder, CheckOrder, WriteOrder, FreeOrder, NextBufferOrder, OffsetOrder
         DEF Flush
    <2> QED BY <1>5, <2>2 DEF OrderInv
  <1> QED BY <1>6, <1>7

-----------------------------------------------------------------------------
(* The other steps keep the order.                                         *)

LEMMA ExecuteOrder == ASSUME TypeInv, OrderInv, Execute, InOrder' PROVE OrderInv'
  <1>1. /\ UNCHANGED <<ring, place, mode, at, buff, ghost>>
        /\ queue # <<>> /\ flash' = Applied(Head(queue), flash) /\ queue' = Tail(queue)
        /\ queue \in Seq(Operations) /\ FlashType
    BY DEF Execute, TypeInv, TypeOK, FlashType
  <1>2. InOrder
    BY <1>1, Zenon DEF InOrder, ghost
  <1>3. OneActive /\ ~partial /\ RingInv /\ PlaceInv /\ QueueInv
    BY <1>1, <1>2 DEF OrderInv, PartialInv
  <1>4. PICK k \in Nat :
           /\ Asks(k + Len(queue)) /\ Window(k)
           /\ \A i \in 1 .. Len(queue) : queue[i] = Op(k + i - 1)
    BY <1>3 DEF QueueInv
  <1>5. Len(queue) \in Nat /\ Len(queue) > 0 /\ Len(queue') = Len(queue) - 1
        /\ Head(queue) = queue[1] /\ \A i \in 1 .. Len(queue') : queue'[i] = queue[i + 1]
    BY <1>1, HeadTailProperties
  <1>6. Head(queue) = Op(k)
    <2>1. 1 \in 1 .. Len(queue) /\ k + 1 - 1 = k
      BY <1>5
    <2> QED BY <1>4, <1>5, <2>1
  <1>7. Window(k + 1)'
    BY <1>1, <1>4, <1>6, NextWindow
  <1>8. \A i \in 1 .. Len(queue') : queue'[i] = Op((k + 1) + i - 1)
    <2> SUFFICES ASSUME NEW i \in 1 .. Len(queue') PROVE queue'[i] = Op((k + 1) + i - 1)
      OBVIOUS
    <2>1. i + 1 \in 1 .. Len(queue) /\ k + (i + 1) - 1 = (k + 1) + i - 1
      BY <1>5
    <2> QED BY <1>4, <1>5, <2>1
  <1>9. /\ Active' = Active /\ Place' = Place /\ Busy' = Busy /\ Oldest' = Oldest
        /\ data_buffer_list' = data_buffer_list
    BY <1>1 DEF Active, Place, Busy, Oldest, ring, place, mode
  <1>10. RingInv' /\ First' = First
    BY <1>1, <1>3, <1>9, SameRing
  <1>11. Log' = Log
    BY <1>9, <1>10 DEF Log
  <1>12. PlaceInv' /\ OneActive' /\ partial' = partial
    BY <1>1, <1>3, <1>9, <1>11 DEF PlaceInv, OneActive, State, Flushable, place, mode, ghost
  <1>13. Asks((k + 1) + Len(queue))'
    <2>1. (k + 1) + Len(queue') = k + Len(queue)
      BY <1>5
    <2> QED BY <1>1, <1>4, <1>9, <1>11, <2>1 DEF Asks, place, mode
  <1>14. QueueInv'
    BY <1>7, <1>8, <1>13 DEF QueueInv
  <1> QED BY <1>3, <1>10, <1>12, <1>14 DEF OrderInv

LEMMA ModeOrder ==
    ASSUME TypeInv, OrderInv, FlushAll \/ Crash \/ RemainFree \/ RemainDrained, InOrder'
    PROVE  OrderInv'
  <1>1. /\ UNCHANGED <<ring, place, nor, buff, overrun, partial>>
        /\ at'["hook"] = at["hook"]
        /\ ~upset
    <2>1. ~upset'
      BY DEF InOrder
    <2>2. UNCHANGED <<ring, place, nor, buff, overrun, partial>>
      BY DEF FlushAll, Crash, RemainFree, RemainDrained, ghost
    <2>3. at'["hook"] = at["hook"]
      <3>1. at' = at \/ at' = [at EXCEPT !["remain"] = "out"]
        BY DEF FlushAll, Crash, RemainFree, RemainDrained
      <3>2. "hook" \in Flushers /\ at \in [Flushers -> Places]
        BY DEF Flushers, TypeInv, TypeOK, Places
      <3> QED BY <3>1, <3>2
    <2>4. ~upset
      BY <2>1, Zenon DEF FlushAll, Crash, RemainFree, RemainDrained, ghost
    <2> QED BY <2>2, <2>3, <2>4
  <1>2. InOrder
    BY <1>1, Zenon DEF InOrder
  <1>3. OneActive /\ IF partial THEN PartialInv ELSE RingInv /\ PlaceInv /\ QueueInv
    BY <1>2 DEF OrderInv
  <1>4. CASE ~Crash
    <2>1. /\ at' = at /\ crashed' = crashed
          /\ remain' = "loop" => is_immediately'
          /\ crashed => is_immediately'
          /\ at["remain"] # "out" => remain' = "loop"
      BY <1>3, <1>4 DEF FlushAll, RemainFree, RemainDrained, OneActive
    <2>2. OneActive'
      BY <1>3, <2>1 DEF OneActive
    <2>3. Active' = Active /\ Place' = Place /\ Busy' = Busy /\ Oldest' = Oldest
      BY <1>1, <2>1 DEF Active, Place, Busy, Oldest, place
    <2>4. CASE partial
      <3>1. PartialInv'
        BY <1>1, <1>3, <2>1, <2>4 DEF PartialInv, Window, ring, place, nor
      <3> QED BY <1>1, <2>2, <2>4, <3>1 DEF OrderInv
    <2>5. CASE ~partial
      <3>1. RingInv' /\ First' = First
        BY <1>1, <1>3, <2>3, <2>5, SameRing
      <3>2. Log' = Log
        BY <2>3, <3>1 DEF Log
      <3>3. PlaceInv'
        BY <1>1, <1>3, <2>3, <2>5, <3>2 DEF PlaceInv, State, Flushable, ring, place
      <3>4. \A k \in Nat : Asks(k) => Asks(k)'
        BY <1>1, <2>1, <2>3, <3>2 DEF Asks, place
      <3>5. QueueInv'
        BY <1>1, <1>3, <2>5, <3>4, SameQueue
      <3> QED BY <1>1, <2>2, <2>5, <3>1, <3>3, <3>5 DEF OrderInv
    <2> QED BY <2>4, <2>5
  <1>5. CASE Crash
    <2>1. at["remain"] = "out" /\ at["hook"] \notin {"next", "offset"}
      <3>1. ~upset'
        BY DEF InOrder
      <3> QED BY <1>5, <3>1, Zenon DEF Crash
    <2>2. ~crashed /\ crashed' /\ is_immediately' /\ remain' = "loop" /\ at'["remain"] = "out"
      BY <1>5 DEF Crash, TypeInv, TypeOK, Flushers
    <2>3. OneActive'
      BY <1>1, <2>1, <2>2 DEF OneActive
    <2>4. Active' = "remain" /\ Place' = "out" /\ Active = "hook" /\ Place = at["hook"]
      BY <2>1, <2>2 DEF Active, Place
    <2>5. Oldest' = f_seqnum /\ Oldest = f_seqnum
      BY <1>1, <2>1, <2>4 DEF Oldest, place
    <2>6. CASE partial
      <3>1. at["hook"] = "out" /\ flash_state = "IDLE" /\ flash_offs % Size # 0
        BY <1>3, <2>1, <2>2, <2>6 DEF PartialInv
      <3>2. PartialInv'
        BY <1>1, <1>3, <2>2, <2>6, <3>1 DEF PartialInv, Window, ring, place, nor
      <3> QED BY <1>1, <2>3, <2>6, <3>2 DEF OrderInv
    <2>7. CASE ~partial
      <3>1. RingInv' /\ First' = First
        BY <1>1, <1>3, <2>5, <2>7, SameRing
      <3>2. Log' = Log /\ Log = First
        BY <2>1, <2>4, <3>1 DEF Log
      <3>3. PlaceInv'
        BY <1>1, <1>3, <2>4, <2>7, <3>2 DEF PlaceInv, place
      <3>4. \A k \in Nat : Asks(k) => Asks(k)'
        <4>1. flash_state' = flash_state
          BY <1>1 DEF place
        <4>2. /\ Place = "erased" => flash_state = "IDLE"
              /\ Place \in {"write", "free"} => flash_state = "WRITTING"
          BY <1>3, <2>7 DEF PlaceInv
        <4> QED BY <2>1, <2>2, <2>4, <3>2, <4>1, <4>2 DEF Asks
      <3>5. QueueInv'
        BY <1>1, <1>3, <2>7, <3>4, SameQueue
      <3> QED BY <1>1, <2>3, <2>7, <3>1, <3>3, <3>5 DEF OrderInv
    <2> QED BY <2>6, <2>7
  <1> QED BY <1>4, <1>5

(* Nothing is full and the next log is number n.                           *)
EmptyAt(n) ==
    /\ data_buffer_list = [b \in Buffers |-> Fresh] /\ w_seqnum = 0 /\ f_seqnum = 0
    /\ flash_offs = (n % NSector) * Size /\ cur_dump_seqnum = n /\ flash_state = "IDLE"
    /\ at = [p \in Flushers |-> "out"] /\ remain = "no" /\ crashed = FALSE /\ partial = FALSE
    /\ queue = <<>> /\ Window(2 * n)

Empty == \E n \in Nat : EmptyAt(n)

LEMMA EmptyOrder == Empty => OrderInv
  <1> SUFFICES ASSUME NEW n \in Nat, EmptyAt(n) PROVE OrderInv
    BY DEF Empty
  <1> USE DEF EmptyAt
  <1>1. OneActive /\ Place = "out"
    BY Sizes DEF OneActive, Place, Active
  <1>2. Oldest = 0 /\ \A b \in Buffers : State(b) = "FREE"
    BY <1>1 DEF Oldest, State, Fresh
  <1>3. 0 \in Buffers /\ \A b \in Buffers : Dist(0, b) \in 0 .. NBuffer - 1 /\ (Dist(0, b) = 0 <=> b = 0)
    BY Distances, Sizes
  <1>4. Fulls = 0 /\ First = n - 0 - 0
    <2>1. Fulls = 0
      BY <1>2, <1>3 DEF Fulls
    <2> QED BY <1>2, <1>3, <2>1 DEF First
  <1>5. RingInv
    BY <1>2, <1>3, <1>4 DEF RingInv
  <1>6. Log = n
    BY <1>1, <1>4 DEF Log
  <1>7. PlaceInv
    BY <1>1, <1>6 DEF PlaceInv
  <1>8. QueueInv
    <2>1. Len(queue) = 0 /\ 2 * n + Len(queue) = 2 * n /\ 2 * n \in Nat
      OBVIOUS
    <2>2. Asks(2 * n + Len(queue))
      BY <1>1, <1>6, <2>1 DEF Asks
    <2> QED BY <2>1, <2>2 DEF QueueInv
  <1> QED BY <1>1, <1>5, <1>7, <1>8 DEF OrderInv

LEMMA InitOrder == ASSUME Init PROVE Empty
  <1>1. Window(2 * 0)
    BY DEF Init, Window, NoLog, Garbled
  <1>2. (0 % NSector) * Size = 0
    <2>1. 0 % NSector = 0
      <3>1. NSector \in Nat \ {0} /\ 0 \in 0 .. NSector - 1
        BY Sizes
      <3> QED BY <3>1, SmallRemainder
    <2> QED BY <2>1, Sizes
  <1>3. EmptyAt(0)
    BY <1>1, <1>2 DEF Init, EmptyAt
  <1> QED BY <1>3 DEF Empty

(* Start-up takes up the order where flash has it.                         *)
LEMMA StartUp ==
    ASSUME TypeInv, NEW k \in Nat, Window(k)
    PROVE  /\ FirstSector(flash) = FirstSeqnum(flash) % NSector
           /\ FirstSeqnum(flash) \in Nat /\ Window(2 * FirstSeqnum(flash))
  <1> DEFINE n == FirstSeqnum(flash)
  <1>1. FlashType /\ NSector \in Nat \ {0} /\ n \in Nat
    <2>1. n \in 0 .. MaxSeqnum + 1
      BY FirstType
    <2>2. FlashType
      BY DEF TypeInv, TypeOK, FlashType
    <2> HIDE DEF n
    <2> QED BY <2>1, <2>2, Sizes
  <1>2. (2 * n) \div 2 = n /\ (2 * n) % 2 = 0
    BY <1>1
  <1>3. \A s \in Sectors : flash[s] # Garbled /\ (flash[s] >= 0 => flash[s] % NSector = s)
    BY DEF Window
  <1>4. CASE Existing(flash) = {}
    <2>1. FirstSector(flash) = 0 /\ n = 0
      BY <1>4, FirstType
    <2>2. 0 % NSector = 0
      <3>1. 0 \in 0 .. NSector - 1
        BY Sizes
      <3> QED BY <1>1, <3>1, SmallRemainder
    <2>3. Window(2 * n)
      BY <1>3, <1>4 DEF Window, Existing
    <2> QED BY <1>1, <2>1, <2>2, <2>3
  <1>5. CASE Existing(flash) # {}
    <2> DEFINE z == Newest(flash)
    <2>1. /\ z \in Sectors /\ flash[z] \in Nat /\ n = flash[z] + 1
          /\ \A s \in Existing(flash) : flash[s] <= flash[z]
          /\ FirstSector(flash) = IF z + 1 = NSector THEN 0 ELSE z + 1
      BY <1>5, FirstType
    <2> HIDE DEF z
    <2>2. flash[z] % NSector = z /\ z \in Existing(flash)
      BY <1>3, <2>1 DEF Existing
    <2>3. FirstSector(flash) = n % NSector
      <3>1. (flash[z] + 1) % NSector = IF (flash[z] % NSector) + 1 = NSector THEN 0 ELSE (flash[z] % NSector) + 1
        BY <2>1, SectorOf
      <3> QED BY <2>1, <2>2, <3>1
    <2>4. ASSUME NEW s \in Sectors, flash[s] >= 0
          PROVE  flash[s] <= n /\ flash[s] >= n - NSector + 0
      <3>1. s \in Existing(flash) /\ flash[s] \in Int
        BY <1>1, <2>4 DEF Existing, FlashType, NoLog, Garbled
      <3>2. flash[z] - flash[s] < NSector
        BY <1>1, <2>2, <3>1, WindowOrder
      <3>3. flash[s] <= flash[z]
        BY <2>1, <3>1
      <3> QED BY <1>1, <2>1, <3>1, <3>2, <3>3
    <2>5. Window(2 * n)
      BY <1>2, <1>3, <2>4 DEF Window
    <2> QED BY <1>1, <2>3, <2>5
  <1> QED BY <1>4, <1>5

LEMMA RestartOrder == ASSUME TypeInv, OrderInv, Restart, InOrder' PROVE Empty'
  <1>1. InOrder
    <2>1. ~overrun' /\ ~upset'
      BY DEF InOrder
    <2> QED BY <2>1, Zenon DEF Restart, InOrder
  <1>2. PICK k \in Nat : Window(k)
    BY <1>1 DEF OrderInv, PartialInv, QueueInv
  <1>3. PICK n \in Nat : n = FirstSeqnum(flash) /\ FirstSector(flash) = n % NSector /\ Window(2 * n)
    BY <1>2, StartUp
  <1>4. Window(2 * n)'
    BY <1>3 DEF Restart, Window
  <1>5. EmptyAt(n)'
    BY <1>3, <1>4 DEF Restart, EmptyAt
  <1> QED BY <1>5 DEF Empty

LEMMA NextOrder == ASSUME TypeInv, OrderInv, [Next]_vars PROVE OrderInv' \/ Empty'
  <1>1. CASE ~InOrder'
    BY <1>1 DEF OrderInv
  <1>2. CASE InOrder' /\ UNCHANGED vars
    <2>1. UNCHANGED <<ring, place, nor, mode, at, buff, ghost>>
      BY <1>2 DEF vars
    <2>2. InOrder /\ (partial' <=> partial)
      BY <1>2, <2>1, Zenon DEF InOrder, ghost
    <2>3. OneActive /\ IF partial THEN PartialInv ELSE RingInv /\ PlaceInv /\ QueueInv
      BY <2>2 DEF OrderInv
    <2>4. OneActive'
      BY <2>1, <2>3 DEF OneActive, mode
    <2>5. Active' = Active /\ Place' = Place /\ Busy' = Busy /\ Oldest' = Oldest
      BY <2>1 DEF Active, Place, Busy, Oldest, place, mode
    <2>6. CASE partial
      <3>1. PartialInv'
        BY <2>1, <2>3, <2>6 DEF PartialInv, Window, ring, place, nor, mode
      <3> QED BY <2>2, <2>4, <2>6, <3>1 DEF OrderInv
    <2>7. CASE ~partial
      <3>1. RingInv' /\ First' = First
        BY <2>1, <2>3, <2>5, <2>7, SameRing
      <3>2. Log' = Log
        BY <2>5, <3>1 DEF Log
      <3>3. PlaceInv'
        BY <2>1, <2>3, <2>5, <2>7, <3>2 DEF PlaceInv, State, Flushable, ring, place
      <3>4. \A k \in Nat : Asks(k) => Asks(k)'
        BY <2>1, <2>5, <3>2 DEF Asks, place, mode
      <3>5. QueueInv'
        BY <2>1, <2>3, <2>7, <3>4, SameQueue
      <3> QED BY <2>2, <2>4, <2>7, <3>1, <3>3, <3>5 DEF OrderInv
    <2> QED BY <2>6, <2>7
  <1>3. CASE InOrder' /\ Next
    BY <1>3, OutputOrder, ExecuteOrder, RestartOrder, ModeOrder, FlushOrder DEF Next
  <1> QED BY <1>1, <1>2, <1>3

(* While output has not overrun a flush and no flush has been upset, what  *)
(* is asked of norflash_api is each log's erase and write in turn, log m   *)
(* in sector m modulo their number, and the flash holds the last of them,  *)
(* through crashes, power failures and refusals.                           *)
THEOREM LogOrder == Spec => []OrderInv
  <1>1. TypeInv /\ OrderInv /\ [Next]_vars => OrderInv' \/ Empty'
    BY NextOrder
  <1>2. Init => Empty
    BY InitOrder
  <1> QED BY <1>1, <1>2, EmptyOrder, TypesCorrect, PTL DEF Spec

(* The flush position is at the oldest full buffer.                        *)
THEOREM LogOldestNext == Spec => []OldestNext
  <1>1. TypeInv /\ OrderInv => OldestNext
    <2> SUFFICES ASSUME TypeInv, OrderInv, ~overrun, ~upset, ~partial,
                        \A p \in Flushers : at[p] \notin {"free", "next"},
                        NEW b \in Buffers, data_buffer_list[b].state = "WRITTEN"
                 PROVE  /\ data_buffer_list[f_seqnum].state = "WRITTEN"
                        /\ data_buffer_list[f_seqnum].seqnum <= data_buffer_list[b].seqnum
      BY Zenon DEF OldestNext
    <2>1. RingInv
      BY DEF OrderInv, InOrder
    <2>2. Oldest = f_seqnum /\ f_seqnum \in Buffers /\ w_seqnum \in Buffers
      BY OldestBuffer DEF Oldest, Place, Active, Flushers
    <2>3. /\ Dist(f_seqnum, f_seqnum) = 0 /\ Dist(f_seqnum, b) \in 0 .. NBuffer - 1
          /\ Dist(f_seqnum, w_seqnum) \in 0 .. NBuffer - 1
      BY <2>2, Distances
    <2>4. Dist(f_seqnum, b) < Fulls
      <3>1. CASE b = w_seqnum
        <4>1. Fulls = NBuffer
          BY <3>1 DEF Fulls, State
        <4> QED BY <2>3, <4>1, Sizes
      <3>2. CASE b # w_seqnum
        BY <2>1, <2>2, <3>2 DEF RingInv, State
      <3> QED BY <3>1, <3>2
    <2>5. Fulls \in Int /\ First \in Int
      <3>1. Fulls \in Int
        BY <2>2, <2>3, Sizes DEF Fulls
      <3> QED BY <3>1 DEF First, TypeInv, TypeOK
    <2>6. Dist(f_seqnum, f_seqnum) < Fulls
      BY <2>3, <2>4, <2>5
    <2>7. /\ data_buffer_list[f_seqnum].state = "WRITTEN"
          /\ data_buffer_list[f_seqnum].seqnum = First + 0
          /\ data_buffer_list[b].seqnum = First + Dist(f_seqnum, b)
      BY <2>1, <2>2, <2>3, <2>4, <2>6 DEF RingInv, State
    <2> QED BY <2>3, <2>5, <2>7
  <1> QED BY <1>1, TypesCorrect, LogOrder, PTL

(* What start-up and the reader of the dump rely on: the logs in flash     *)
(* follow each other around the section and none is missing between two.   *)
THEOREM LogFlashInOrder == Spec => []FlashInOrder
  <1>1. TypeInv /\ OrderInv => FlashInOrder
    <2> SUFFICES ASSUME TypeInv, OrderInv, ~overrun, ~upset PROVE FlashInOrder
      BY Zenon DEF FlashInOrder
    <2>1. \E k \in Nat : Window(k)
      BY DEF OrderInv, InOrder, PartialInv, QueueInv
    <2>2. FlashType
      BY DEF TypeInv, TypeOK, FlashType
    <2> QED BY <2>1, <2>2, WindowOrder DEF FlashInOrder
  <1> QED BY <1>1, TypesCorrect, LogOrder, PTL
=============================================================================
