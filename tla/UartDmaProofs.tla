--------------------------- MODULE UartDmaProofs ---------------------------
(***************************************************************************)
(* UartDma: the ring with its margin hands on every byte, once and in the  *)
(* order of the line, for any size of both and any number of bytes, until  *)
(* the sender laps the thread or the thread's place is upset.              *)
(***************************************************************************)
EXTENDS UartDma, TLAPS

(* What is counted and not delivered lies in one piece, or goes on from    *)
(* the end of the margin to the start of the ring.  Bytes at the start     *)
(* need a thread that knows where the first piece ends.                    *)
Linear ==
    /\ input_cursor = output_cursor + bytesInBuffer
    /\ bytes_in_margin_buffer = 0 \/ unseen

Seen   == bytes_in_margin_buffer > 0 /\ (at = "wait" \/ m > 0)
HasAll == at = "callback" /\ end = Size + bytes_in_margin_buffer

Wrapped ==
    /\ bytesInBuffer = Size + bytes_in_margin_buffer - output_cursor + input_cursor
    /\ bytes_in_margin_buffer <= Margin
    /\ input_cursor > 0 => Seen \/ HasAll

(* What the callback has is the first piece, or the start of it.           *)
CallbackInv ==
    at = "callback" =>
        /\ n > 0 /\ end = output_cursor + n
        /\ \/ Linear /\ m = 0 /\ n <= bytesInBuffer
           \/ Wrapped /\ m = bytes_in_margin_buffer /\ m > 0 /\ end = Size + m
           \/ /\ Wrapped /\ m = 0
              /\ end < Size \/ HasAll
              /\ bytes_in_margin_buffer > 0 => unseen

PositionInv ==
    /\ Linear \/ Wrapped
    /\ CallbackInv
    /\ unseen => bytes_in_margin_buffer > 0 /\ (IF at = "wait" THEN Linear ELSE m = 0)
    /\ delivered = sent - dma - bytesInBuffer
    /\ at = "wait" /\ ~signal => bytesInBuffer = 0

(* The bytes from one index to before another are those that follow the    *)
(* first k of the line.                                                    *)
Follow(from, to, k) == \A i \in from .. to - 1 : uart_buf[i] = k + 1 + (i - from)

ContentInv ==
    /\ Linear => Follow(output_cursor, input_cursor + dma, delivered)
    /\ Wrapped =>
          /\ input_cursor + dma <= output_cursor
          /\ Follow(output_cursor, Size + bytes_in_margin_buffer, delivered)
          /\ Follow(0, input_cursor + dma,
                    delivered + (Size + bytes_in_margin_buffer - output_cursor))

(* What holds also when the thread has lost its place.                     *)
StartInv ==
    /\ started => starting = "no"
    /\ room > 0 => started \/ starting = "armed"
    /\ room = Chunk \/ starting = "reset" => input_cursor = 0
    /\ delivered <= sent - dma

Sound == ~overrun /\ ~upset

Inv ==
    /\ TypeOK
    /\ StartInv
    /\ failed => signal /\ (overrun \/ upset \/ unseen)
    /\ Sound /\ failed => InOrder
    /\ Sound /\ ~failed => PositionInv /\ ContentInv

LEMMA InitInv == Init => Inv
  <1> USE UartDmaAssumption
  <1> SUFFICES ASSUME Init PROVE Inv
    OBVIOUS
  <1>1. TypeOK
    <2>1. uart_buf \in [Index -> Nat]
      BY DEF Init
    <2>2. /\ room \in {0, Margin, Chunk} /\ dma \in 0 .. room
          /\ n \in Count /\ m \in Count /\ end \in Count
          /\ input_cursor \in 0 .. Size - 1 /\ output_cursor \in 0 .. Size - 1
          /\ bytesInBuffer \in Count /\ bytes_in_margin_buffer \in Count
          /\ sent \in 0 .. MaxBytes /\ delivered \in 0 .. sent
      BY DEF Init, Chunk, Count
    <2>3. /\ started \in BOOLEAN /\ signal \in BOOLEAN /\ starting \in {"no", "reset", "armed"}
          /\ overrun \in BOOLEAN /\ unseen \in BOOLEAN /\ upset \in BOOLEAN /\ failed \in BOOLEAN
          /\ at \in {"wait", "callback"}
      BY DEF Init
    <2> QED BY <2>1, <2>2, <2>3, Zenon DEF TypeOK
  <1>2. PositionInv /\ StartInv
    BY DEF Init, PositionInv, StartInv, CallbackInv, Linear, Chunk
  <1>3. ContentInv
    BY DEF Init, ContentInv, Linear, Wrapped, Follow
  <1> QED BY <1>1, <1>2, <1>3 DEF Init, Inv

(* A byte arrives: it follows the others, or overwrites one of them.       *)
LEMMA ReceiveInv == ASSUME Inv, Receive PROVE Inv'
  <1> USE UartDmaAssumption
  <1>0. /\ TypeOK /\ StartInv /\ ~failed /\ ~failed' /\ (Sound => PositionInv /\ ContentInv)
        /\ input_cursor + dma \in Index
    BY DEF Inv, Receive, TypeOK, StartInv, Index, Chunk
  <1>1. TypeOK' /\ StartInv'
    BY <1>0 DEF Receive, cursors, thread, TypeOK, StartInv, Index, Chunk, Count
  <1>2. ASSUME Sound' PROVE PositionInv' /\ ContentInv'
    <2>0. uart_buf[input_cursor + dma] \in Nat /\ delivered \in Nat
      BY <1>0 DEF TypeOK
    <2>a. ~overrun /\ ~upset /\ ~(uart_buf[input_cursor + dma] > delivered)
      BY <1>2, Zenon DEF Receive, Sound
    <2>1. uart_buf[input_cursor + dma] <= delivered /\ PositionInv /\ ContentInv
      BY <1>0, <2>0, <2>a DEF Sound
    <2>2. PositionInv' /\ (Linear' <=> Linear) /\ (Wrapped' <=> Wrapped)
      BY <1>0, <2>1
         DEF Receive, cursors, thread, TypeOK, PositionInv, CallbackInv, Linear, Wrapped, Seen, HasAll,
             Count, Chunk
    <2>3. CASE Linear
      BY <1>0, <2>1, <2>2, <2>3
         DEF Receive, cursors, thread, TypeOK, PositionInv, ContentInv, Linear, Wrapped, Follow,
             Index, Chunk, Count
    <2>4. CASE Wrapped
      <3>1. /\ ~Linear' /\ bytes_in_margin_buffer \in 0 .. Margin
            /\ output_cursor \in 0 .. Size - 1 /\ input_cursor + dma <= output_cursor
            /\ Follow(output_cursor, Size + bytes_in_margin_buffer, delivered)
            /\ Follow(0, input_cursor + dma, delivered + (Size + bytes_in_margin_buffer - output_cursor))
            /\ bytesInBuffer = Size + bytes_in_margin_buffer - output_cursor + input_cursor
        BY <1>0, <2>1, <2>2, <2>4 DEF ContentInv, TypeOK, Linear, Wrapped, Count
      <3>2. uart_buf[output_cursor] = delivered + 1
        BY <1>0, <3>1 DEF Follow, TypeOK
      <3>3. input_cursor + dma < output_cursor
        BY <1>0, <2>0, <2>1, <3>1, <3>2 DEF TypeOK
      <3>4. delivered = sent - dma - bytesInBuffer
        BY <2>1 DEF PositionInv
      <3>5. /\ UNCHANGED <<cursors, thread, delivered>> /\ dma' = dma + 1
            /\ uart_buf' = [uart_buf EXCEPT ![input_cursor + dma] = sent + 1]
        BY DEF Receive
      <3>6. Follow(output_cursor, Size + bytes_in_margin_buffer, delivered)'
        BY <1>0, <3>1, <3>3, <3>5 DEF cursors, Follow, TypeOK, Index, Chunk
      <3>7. uart_buf'[input_cursor + dma]
              = delivered + (Size + bytes_in_margin_buffer - output_cursor) + 1 + (input_cursor + dma)
        BY <1>0, <3>1, <3>4, <3>5 DEF TypeOK
      <3>8. Follow(0, input_cursor + dma,
                   delivered + (Size + bytes_in_margin_buffer - output_cursor))'
        BY <1>0, <3>1, <3>3, <3>5, <3>7 DEF cursors, Follow, TypeOK, Index, Chunk
      <3>9. ContentInv'
        BY <1>0, <3>1, <3>3, <3>5, <3>6, <3>8 DEF cursors, ContentInv, TypeOK
      <3> QED BY <2>2, <3>9
    <2> QED BY <2>1, <2>2, <2>3, <2>4 DEF PositionInv
  <1> QED BY <1>0, <1>1, <1>2 DEF Inv

(* While the place is sound the counts are those of the ring: no sum of    *)
(* theirs leaves the range of a uint32_t.                                  *)
LEMMA CountsFit ==
    ASSUME TypeOK, StartInv, PositionInv, ContentInv
    PROVE  /\ bytesInBuffer + dma <= Chunk
           /\ Plus(bytesInBuffer, dma) = bytesInBuffer + dma
           /\ Wraps => Linear
           /\ Linear => output_cursor + bytesInBuffer < Size
           /\ Wrapped => output_cursor < Size /\ bytes_in_margin_buffer <= Margin
  <1> USE UartDmaAssumption
  <1>1. CASE Linear
    BY <1>1 DEF TypeOK, StartInv, Linear, Wrapped, Plus, Chunk, Count
  <1>2. CASE Wrapped
    <2>1. input_cursor + dma <= output_cursor
      BY <1>2 DEF ContentInv
    <2> QED BY <1>2, <2>1 DEF TypeOK, StartInv, Linear, Wrapped, Wraps, end_index, Plus, Chunk, Count
  <1> QED BY <1>1, <1>2 DEF PositionInv

(* A transfer that wraps starts the ring again; a second one before the    *)
(* margin is empty has overwritten it, or found what a callback left.      *)
LEMMA CompleteInv == ASSUME Inv, Complete PROVE Inv'
  <1> USE UartDmaAssumption
  <1>0. /\ TypeOK /\ StartInv /\ ~failed /\ (Sound => PositionInv /\ ContentInv)
        /\ signal' /\ (Sound' => Sound)
    BY DEF Inv, Complete, Sound
  <1>1. TypeOK' /\ StartInv'
    <2>1. /\ uart_buf' \in [Index -> Nat] /\ Chunk \in Nat /\ room' = Margin /\ dma' = 0
          /\ bytesInBuffer' \in Count
      BY <1>0 DEF Complete, TypeOK, Plus, Count, Chunk
    <2>2. input_cursor' \in 0 .. Size - 1 /\ bytes_in_margin_buffer' \in Count
      BY <1>0 DEF Complete, Wraps, end_index, TypeOK, StartInv, Chunk, Count
    <2>3. failed' \in BOOLEAN /\ upset' \in BOOLEAN /\ unseen' \in BOOLEAN
      BY <1>0, Zenon DEF Complete, TypeOK, RunsOn
    <2>4. TypeOK'
      BY <1>0, <2>1, <2>2, <2>3 DEF Complete, thread, TypeOK
    <2> QED BY <1>0, <2>1, <2>4 DEF Complete, StartInv, TypeOK, Chunk
  <1>2. CASE ~Sound
    BY <1>0, <1>1, <1>2 DEF Inv, Sound, Complete
  <1>3. CASE Sound
    <2>0. /\ PositionInv /\ ContentInv /\ (Wraps => Linear)
          /\ bytesInBuffer' = bytesInBuffer + dma
      BY <1>0, <1>3, CountsFit DEF Complete
    <2>1. failed' => unseen /\ InOrder'
      <3>1. failed' => Wraps /\ Linear /\ bytes_in_margin_buffer # 0
        BY <1>0, <2>0 DEF Complete
      <3>2. InOrder
        BY <1>0, <2>0
           DEF InOrder, PositionInv, CallbackInv, ContentInv, Follow, Linear, Wrapped, HasAll, TypeOK, Count
      <3>3. InOrder'
        BY <1>0, <1>3, <3>2 DEF InOrder, Complete, thread, Sound
      <3> QED BY <3>1, <3>3 DEF Linear
    <2>2. ASSUME Sound', ~failed' PROVE PositionInv' /\ ContentInv'
      <3>1. CASE ~Wraps
        <4>1. PositionInv' /\ (Linear' <=> Linear) /\ (Wrapped' <=> Wrapped)
          <5>1. CASE Linear
            BY <1>0, <2>0, <2>2, <3>1, <5>1
               DEF Complete, thread, Wraps, end_index, TypeOK, PositionInv, CallbackInv,
                   Linear, Wrapped, Seen, HasAll, Chunk, Count
          <5>2. CASE Wrapped
            <6>a. ~RunsOn
              BY <2>2, Zenon DEF Complete, Sound
            <6>b. at = "callback" => n > 0 /\ end = output_cursor + n
              BY <2>0 DEF PositionInv, CallbackInv
            <6>1. dma > 0 /\ input_cursor = 0 => Seen \/ HasAll
              BY <1>0, <5>2, <6>a, <6>b DEF RunsOn, TypeOK, Wrapped, Seen, HasAll, Count
            <6> QED
              BY <1>0, <2>0, <2>2, <3>1, <5>2, <6>1
                 DEF Complete, thread, Wraps, end_index, TypeOK, PositionInv, CallbackInv,
                     Linear, Wrapped, Seen, HasAll, Chunk, Count
          <5> QED BY <2>0, <5>1, <5>2 DEF PositionInv
        <4>2. ContentInv'
          BY <1>0, <2>0, <3>1, <4>1
             DEF Complete, Wraps, end_index, TypeOK, ContentInv, Linear, Wrapped, Follow, Chunk, Count
        <4> QED BY <4>1, <4>2
      <3>2. CASE Wraps
        <4>1. /\ Linear /\ bytes_in_margin_buffer = 0 /\ input_cursor' = 0 /\ ~unseen
              /\ bytes_in_margin_buffer' = input_cursor + dma - Size
              /\ bytes_in_margin_buffer' \in 0 .. Margin
          <5>1. bytes_in_margin_buffer = 0
            BY <2>2, <3>2, Zenon DEF Complete
          <5>2. ~unseen
            BY <2>0, <5>1 DEF PositionInv
          <5> QED BY <1>0, <2>0, <3>2, <5>1, <5>2
                  DEF Complete, Wraps, end_index, TypeOK, StartInv, Chunk, Count
        <4>a. unseen' <=> bytes_in_margin_buffer' > 0 /\ at = "callback" /\ m = 0
          <5>1. end_index > Size <=> bytes_in_margin_buffer' > 0
            BY <1>0, <4>1 DEF end_index, TypeOK
          <5> QED BY <4>1, <5>1, Zenon DEF Complete
        <4>b. /\ bytesInBuffer' = Size + bytes_in_margin_buffer' - output_cursor
              /\ output_cursor + bytesInBuffer < Size /\ Wrapped' /\ ~Linear'
          BY <1>0, <2>0, <4>1, CountsFit DEF Complete, TypeOK, Linear, Wrapped, Count
        <4>c. CallbackInv'
          BY <1>0, <2>0, <4>1, <4>a, <4>b
             DEF Complete, thread, TypeOK, PositionInv, CallbackInv, Linear, Wrapped, HasAll, Count
        <4>2. PositionInv' /\ Wrapped' /\ ~Linear'
          BY <1>0, <2>0, <4>1, <4>a, <4>b, <4>c
             DEF Complete, thread, TypeOK, PositionInv, Count
        <4>3. ContentInv'
          BY <1>0, <2>0, <3>2, <4>1, <4>2
             DEF Complete, Wraps, end_index, TypeOK, ContentInv, Linear, Wrapped, Follow, Chunk, Count
        <4> QED BY <4>2, <4>3
      <3> QED BY <3>1, <3>2
    <2>3. unseen => unseen'
      BY <1>0 DEF Complete, TypeOK
    <2> QED BY <1>0, <1>1, <2>1, <2>2, <2>3 DEF Inv
  <1> QED BY <1>2, <1>3

(* The transfer that is cut off takes only its own bytes with it.          *)
LEMMA CutInv ==
    ASSUME Inv, ~failed, Cut, started' = started \/ started' = FALSE
    PROVE  Inv'
  <1> USE UartDmaAssumption
  <1>0. TypeOK /\ StartInv /\ ~failed' /\ (Sound => PositionInv /\ ContentInv)
    BY DEF Inv, Cut
  <1>1. TypeOK'
    <2>1. /\ uart_buf' \in [Index -> Nat] /\ sent' \in 0 .. MaxBytes /\ delivered' \in 0 .. sent'
          /\ room' \in {0, Margin, Chunk} /\ dma' \in 0 .. room'
      BY <1>0 DEF Cut, ghosts, TypeOK, StartInv, Index, Chunk
    <2>2. started' \in BOOLEAN
      BY <1>0 DEF TypeOK
    <2> QED BY <1>0, <2>1, <2>2, Zenon DEF Cut, cursors, thread, ghosts, TypeOK
  <1>2. StartInv'
    BY <1>0 DEF Cut, cursors, ghosts, TypeOK, StartInv, Chunk
  <1>3. ASSUME Sound' PROVE PositionInv' /\ ContentInv'
    <2>0. PositionInv /\ ContentInv
      BY <1>0, <1>3 DEF Cut, ghosts, Sound
    <2>1. PositionInv' /\ (Linear' <=> Linear) /\ (Wrapped' <=> Wrapped)
      BY <1>0, <2>0
         DEF Cut, cursors, thread, ghosts, TypeOK, PositionInv, CallbackInv, Linear, Wrapped, Seen, HasAll, Count
    <2>2. CASE Linear
      BY <1>0, <2>0, <2>1, <2>2
         DEF Cut, cursors, thread, ghosts, TypeOK, PositionInv, ContentInv, Linear, Wrapped, Follow,
             Index, Chunk, Count
    <2>3. CASE Wrapped
      BY <1>0, <2>0, <2>1, <2>3
         DEF Cut, cursors, thread, ghosts, TypeOK, PositionInv, ContentInv, Linear, Wrapped, Follow,
             Index, Chunk, Count
    <2> QED BY <2>0, <2>1, <2>2, <2>3 DEF PositionInv
  <1> QED BY <1>0, <1>1, <1>2, <1>3 DEF Inv

LEMMA EndInv == ASSUME Inv, Error \/ Ignored \/ StopReceiving PROVE Inv'
  BY CutInv DEF Error, Ignored, StopReceiving

(* A start while the thread waits makes its place sound again.             *)
LEMMA ResetInv == ASSUME Inv, StartResets PROVE Inv'
  <1> USE UartDmaAssumption
  <1>0. TypeOK /\ StartInv /\ ~failed' /\ dma = 0 /\ room = 0
    BY DEF Inv, StartResets, StartInv, TypeOK, Chunk
  <1>1. TypeOK' /\ StartInv'
    <2>1. upset' \in BOOLEAN
      BY Zenon DEF StartResets
    <2>2. /\ input_cursor' \in 0 .. Size - 1 /\ output_cursor' \in 0 .. Size - 1
          /\ bytesInBuffer' \in Count /\ bytes_in_margin_buffer' \in Count
          /\ delivered' \in 0 .. sent'
      BY <1>0 DEF StartResets, line, TypeOK, Count
    <2>3. overrun' \in BOOLEAN /\ unseen' \in BOOLEAN /\ starting' \in {"no", "reset", "armed"}
      BY DEF StartResets
    <2>4. TypeOK'
      BY <1>0, <2>1, <2>2, <2>3, Zenon DEF StartResets, line, thread, TypeOK
    <2> QED BY <1>0, <2>4 DEF StartResets, line, TypeOK, StartInv, Chunk
  <1>2. ASSUME Sound' PROVE PositionInv' /\ ContentInv'
    <2>1. at' = "wait"
      BY <1>0, <1>2 DEF StartResets, thread, Sound, TypeOK
    <2>2. PositionInv' /\ Linear' /\ ~Wrapped'
      BY <1>0, <2>1
         DEF StartResets, line, TypeOK, PositionInv, CallbackInv, Linear, Wrapped, Chunk, Count
    <2>3. ContentInv'
      BY <1>0, <2>2 DEF StartResets, line, ContentInv, Follow, TypeOK
    <2> QED BY <2>2, <2>3
  <1> QED BY <1>0, <1>1, <1>2 DEF Inv

(* The other steps of a start leave the ring alone.                        *)
LEMMA StartStepsInv == ASSUME Inv, StartArms \/ StartFails \/ StartMarks PROVE Inv'
  <1> USE UartDmaAssumption
  <1>0. /\ TypeOK /\ StartInv /\ ~failed' /\ (Sound => PositionInv /\ ContentInv)
        /\ dma' = dma /\ (Sound' => Sound)
    BY DEF Inv, StartArms, StartFails, StartMarks, StartInv, TypeOK, line, ghosts, Sound, Chunk
  <1>1. TypeOK' /\ StartInv'
    <2>1. CASE StartArms
      <3>1. ~started /\ input_cursor = 0 /\ delivered <= sent
        BY <1>0, <2>1 DEF StartArms, StartInv, TypeOK
      <3>2. /\ room' = Chunk /\ dma' = 0 /\ starting' = "armed" /\ started' = started
            /\ UNCHANGED <<cursors, thread, ghosts, uart_buf, sent, signal, failed>>
        BY <2>1 DEF StartArms
      <3>3. dma' \in 0 .. room' /\ room' \in {0, Margin, Chunk}
        BY <3>2 DEF Chunk
      <3>4. TypeOK'
        BY <1>0, <3>2, <3>3, Zenon DEF cursors, thread, ghosts, TypeOK
      <3>5. StartInv'
        BY <1>0, <3>1, <3>2 DEF cursors, ghosts, StartInv, TypeOK, Chunk
      <3> QED BY <3>4, <3>5
    <2>2. CASE StartFails \/ StartMarks
      <3>1. /\ starting' = "no" /\ started' \in BOOLEAN
            /\ room > 0 => started'
            /\ UNCHANGED <<cursors, line, thread, ghosts, signal, failed>>
        BY <1>0, <2>2 DEF StartFails, StartMarks, StartInv, TypeOK
      <3>2. TypeOK'
        BY <1>0, <3>1, Zenon DEF cursors, line, thread, ghosts, TypeOK
      <3>3. StartInv'
        BY <1>0, <3>1 DEF cursors, line, ghosts, StartInv
      <3> QED BY <3>2, <3>3
    <2> QED BY <2>1, <2>2
  <1>2. ASSUME Sound' PROVE PositionInv' /\ ContentInv'
    <2>0. /\ PositionInv /\ ContentInv
          /\ UNCHANGED <<cursors, thread, ghosts, uart_buf, sent, signal>>
      BY <1>0, <1>2 DEF StartArms, StartFails, StartMarks, line
    <2>1. PositionInv' /\ (Linear' <=> Linear) /\ (Wrapped' <=> Wrapped)
      BY <1>0, <2>0
         DEF cursors, thread, ghosts, PositionInv, CallbackInv, Linear, Wrapped, Seen, HasAll
    <2>2. ContentInv'
      BY <1>0, <2>0, <2>1 DEF cursors, thread, ghosts, ContentInv, Follow
    <2> QED BY <2>1, <2>2
  <1> QED BY <1>0, <1>1, <1>2 DEF Inv

(* The run of bytes that a wake-up or the end of a callback chooses.       *)
LEMMA SliceType ==
    ASSUME NEW out \in 0 .. Size - 1, NEW bytes \in Count, NEW margin \in Count,
           Slice(out, bytes, margin)
    PROVE  n' \in Count /\ m' \in Count /\ end' \in Count /\ at' \in {"wait", "callback"}
  BY UartDmaAssumption DEF Slice, Plus, Minus, Count

LEMMA WakeInv == ASSUME Inv, Wake PROVE Inv'
  <1> USE UartDmaAssumption
  <1>0. /\ TypeOK /\ StartInv /\ ~failed /\ ~failed' /\ (Sound => PositionInv /\ ContentInv)
    BY DEF Inv, Wake
  <1>1. TypeOK' /\ StartInv'
    <2>1. n' \in Count /\ m' \in Count /\ end' \in Count /\ at' \in {"wait", "callback"}
      BY <1>0, SliceType DEF Wake, TypeOK
    <2>2. upset' \in BOOLEAN
      BY <1>0, Zenon DEF Wake, TypeOK
    <2> QED BY <1>0, <2>1, <2>2 DEF Wake, cursors, line, TypeOK, StartInv
  <1>2. ASSUME Sound' PROVE PositionInv' /\ ContentInv'
    <2>0. /\ PositionInv /\ ContentInv /\ (unseen => bytesInBuffer = 0)
      BY <1>0, <1>2 DEF Wake, Sound, TypeOK, Count
    <2>a. /\ Linear => output_cursor + bytesInBuffer < Size
          /\ Wrapped => output_cursor < Size /\ bytes_in_margin_buffer <= Margin
      BY <1>0, <2>0, CountsFit
    <2>1. CASE Linear
      <3>1. PositionInv' /\ Linear' /\ ~Wrapped'
        BY <1>0, <2>0, <2>a, <2>1
           DEF Wake, Slice, cursors, line, TypeOK, PositionInv, CallbackInv, Linear, Wrapped,
               Seen, HasAll, Plus, Minus, Chunk, Count
      <3>2. ContentInv'
        BY <1>0, <2>0, <2>1, <3>1 DEF Wake, cursors, line, ContentInv, Follow
      <3> QED BY <3>1, <3>2
    <2>2. CASE Wrapped
      <3>1. PositionInv' /\ Wrapped' /\ ~Linear'
        BY <1>0, <2>0, <2>a, <2>2
           DEF Wake, Slice, cursors, line, TypeOK, PositionInv, CallbackInv, Linear, Wrapped,
               Seen, HasAll, Plus, Minus, Chunk, Count
      <3>2. ContentInv'
        BY <1>0, <2>0, <2>2, <3>1 DEF Wake, cursors, line, ContentInv, Follow
      <3> QED BY <3>1, <3>2
    <2> QED BY <2>0, <2>1, <2>2 DEF PositionInv
  <1> QED BY <1>0, <1>1, <1>2 DEF Inv

(* The callback returns: its piece is delivered, and the next one begins   *)
(* where it ended, or at the start of the ring.                            *)
LEMMA ConsumeInv == ASSUME Inv, Consume PROVE Inv'
  <1> USE UartDmaAssumption
  <1>0. /\ TypeOK /\ StartInv /\ ~failed /\ ~failed' /\ (Sound => PositionInv /\ ContentInv)
        /\ at = "callback" /\ (Sound' <=> Sound)
    BY DEF Inv, Consume, Deliver, Sound
  <1>1. ASSUME Sound
        PROVE  /\ PositionInv /\ ContentInv /\ n > 0 /\ end = output_cursor + n
               /\ n <= bytesInBuffer /\ bytesInBuffer' = bytesInBuffer - n
               /\ delivered' = delivered + n
               /\ Linear => output_cursor + bytesInBuffer < Size
    <2>1. PositionInv /\ ContentInv /\ (Linear => output_cursor + bytesInBuffer < Size)
      BY <1>0, <1>1, CountsFit
    <2>2. n > 0 /\ end = output_cursor + n /\ n <= bytesInBuffer
      BY <1>0, <2>1 DEF PositionInv, CallbackInv, Linear, Wrapped, HasAll, TypeOK, Count
    <2> QED BY <1>0, <1>1, <2>1, <2>2 DEF Consume, Advance, Deliver, Minus, Sound, TypeOK, Count
  <1>2. TypeOK' /\ StartInv'
    <2>1. /\ bytesInBuffer' \in Count /\ bytes_in_margin_buffer' \in Count
          /\ output_cursor' \in 0 .. Size - 1
      BY <1>0 DEF Consume, Advance, Minus, TypeOK, Count
    <2>2. n' \in Count /\ m' \in Count /\ end' \in Count /\ at' \in {"wait", "callback"}
      BY <1>0, <2>1, SliceType DEF Consume, Count
    <2>3. delivered' \in 0 .. sent /\ delivered' <= sent - dma
      <3>1. CASE Sound
        BY <1>0, <1>1, <3>1 DEF TypeOK, PositionInv, Count
      <3>2. CASE ~Sound
        BY <1>0, <3>2 DEF Consume, Deliver, Sound, TypeOK, StartInv
      <3> QED BY <3>1, <3>2
    <2> QED BY <1>0, <2>1, <2>2, <2>3 DEF Consume, Deliver, line, TypeOK, StartInv
  <1>3. ASSUME Sound' PROVE PositionInv' /\ ContentInv'
    <2>0. /\ PositionInv /\ ContentInv /\ n > 0 /\ end = output_cursor + n
          /\ n <= bytesInBuffer /\ bytesInBuffer' = bytesInBuffer - n
          /\ delivered' = delivered + n
          /\ Linear => output_cursor + bytesInBuffer < Size
      BY <1>0, <1>1, <1>3
    <2>1. CASE Linear
      <3>1. end < Size /\ m = 0 /\ m' = 0 /\ output_cursor' = end
            /\ bytes_in_margin_buffer' = bytes_in_margin_buffer
        BY <1>0, <2>0, <2>1
           DEF Consume, Advance, Slice, Minus, PositionInv, CallbackInv, TypeOK, Linear, Wrapped, Count
      <3>2. PositionInv' /\ Linear' /\ ~Wrapped'
        BY <1>0, <2>0, <2>1, <3>1
           DEF Consume, Deliver, Slice, line, TypeOK, PositionInv, CallbackInv, Linear, Wrapped,
               Plus, Minus, Chunk, Count
      <3>3. ContentInv'
        BY <1>0, <2>0, <2>1, <3>1, <3>2 DEF Consume, line, TypeOK, ContentInv, Follow, Linear, Count
      <3> QED BY <3>2, <3>3
    <2>2. CASE Wrapped /\ end >= Size
      <3>1. /\ end = Size + bytes_in_margin_buffer /\ bytesInBuffer' = input_cursor
            /\ output_cursor' = 0 /\ m' = 0
            /\ bytes_in_margin_buffer' = 0 \/ (unseen /\ bytes_in_margin_buffer' = bytes_in_margin_buffer)
            /\ unseen => bytes_in_margin_buffer' = bytes_in_margin_buffer
        BY <1>0, <2>0, <2>2
           DEF Consume, Advance, Slice, Minus, PositionInv, CallbackInv, TypeOK, Linear, Wrapped, HasAll, Count
      <3>2. PositionInv' /\ Linear' /\ ~Wrapped'
        BY <1>0, <2>0, <2>2, <3>1
           DEF Consume, Deliver, Slice, line, TypeOK, PositionInv, CallbackInv, Linear, Wrapped,
               Plus, Minus, Chunk, Count
      <3>3. ContentInv'
        BY <1>0, <2>0, <2>2, <3>1, <3>2 DEF Consume, line, TypeOK, ContentInv, Follow, Count
      <3> QED BY <3>2, <3>3
    <2>3. CASE Wrapped /\ end < Size
      <3>1. /\ m = 0 /\ m' = 0 /\ output_cursor' = end /\ input_cursor = 0
            /\ bytes_in_margin_buffer' = bytes_in_margin_buffer
            /\ bytes_in_margin_buffer > 0 => unseen
        BY <1>0, <2>0, <2>3
           DEF Consume, Advance, Slice, Minus, PositionInv, CallbackInv, TypeOK, Linear, Wrapped,
               Seen, HasAll, Count
      <3>2. PositionInv' /\ Wrapped' /\ ~Linear'
        BY <1>0, <2>0, <2>3, <3>1
           DEF Consume, Deliver, Slice, line, TypeOK, PositionInv, CallbackInv, Linear, Wrapped,
               Seen, HasAll, Plus, Minus, Chunk, Count
      <3>3. ContentInv'
        BY <1>0, <2>0, <2>3, <3>1, <3>2 DEF Consume, line, TypeOK, ContentInv, Follow, Count
      <3> QED BY <3>2, <3>3
    <2> QED BY <1>0, <2>0, <2>1, <2>2, <2>3 DEF PositionInv, TypeOK, Count
  <1> QED BY <1>0, <1>2, <1>3 DEF Inv

LEMMA NextInv == ASSUME Inv, [Next]_vars PROVE Inv'
  <1>1. CASE UNCHANGED vars
    BY <1>1 DEF vars, cursors, line, thread, ghosts, Inv, TypeOK, StartInv, InOrder, Sound,
                PositionInv, CallbackInv, ContentInv, Linear, Wrapped, Seen, HasAll, Follow
  <1> QED BY <1>1, ReceiveInv, CompleteInv, EndInv, WakeInv, ConsumeInv, ResetInv, StartStepsInv DEF Next

(* The inductive invariant, in every reachable state.                      *)
THEOREM UartCorrect == Spec => []Inv
  <1>1. Inv /\ [Next]_vars => Inv'
    BY NextInv
  <1> QED BY InitInv, <1>1, PTL DEF Spec

(* The types: the cursors stay in the ring and the counts in their range,  *)
(* restarts during a callback and what follows from them included.         *)
THEOREM UartTypeSafe == Spec => []TypeOK
  <1>1. Inv => TypeOK
    BY DEF Inv
  <1> QED BY UartCorrect, <1>1, PTL

(* The callback has the bytes that follow those it had, whatever arrives   *)
(* meanwhile, unless the sender has lapped it or its place is upset.       *)
THEOREM UartInOrder == Spec => []InOrder
  <1>1. Inv => InOrder
    <2>1. ASSUME Inv, Sound, ~failed PROVE InOrder
      BY <2>1, UartDmaAssumption
         DEF Inv, InOrder, PositionInv, CallbackInv, ContentInv, Follow, Linear, Wrapped, HasAll, TypeOK, Count
    <2> QED BY <2>1 DEF Inv, Sound, InOrder
  <1> QED BY UartCorrect, <1>1, PTL

(* No byte waits for a signal that does not come.                          *)
THEOREM UartNothingLeft == Spec => []NothingLeft
  <1>1. Inv => NothingLeft
    BY DEF Inv, Sound, NothingLeft, PositionInv, TypeOK, Count
  <1> QED BY UartCorrect, <1>1, PTL

(* The corruption assertion fails only after bytes were overwritten, with  *)
(* the thread's place upset, or where a wrap during a callback has left    *)
(* its count.                                                              *)
THEOREM UartCorruption == Spec => []CorruptionExplained
  <1>1. Inv => CorruptionExplained
    BY DEF Inv, CorruptionExplained
  <1> QED BY UartCorrect, <1>1, PTL
=============================================================================
