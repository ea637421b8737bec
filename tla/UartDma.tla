------------------------------ MODULE UartDma ------------------------------
(***************************************************************************)
(* Reception in app_uart_dma_thread.c: DMA transfers into a ring with a    *)
(* margin behind its end, the interrupt that counts them, and the thread   *)
(* that hands the bytes to the receiver's callback.                        *)
(*                                                                         *)
(* A transfer may run into the margin, so that the next one starts at 0    *)
(* and no transfer is ever split.  Bytes are numbered as they arrive; a    *)
(* byte is delivered when the callback it was given to returns.            *)
(*                                                                         *)
(* The thread reads the margin's count once for every wake-up.  A wrap     *)
(* that comes while the callback runs is unseen: its count stays when its  *)
(* bytes are gone.  The reader's place is upset by three things: a wake-up *)
(* that finds such a count, a transfer to the start of the ring that the   *)
(* thread takes for a continuation of the bytes before its end, and a      *)
(* restart of reception during a callback.                                 *)
(***************************************************************************)
EXTENDS Integers

CONSTANTS
    Size,        \* UART_BUF_SIZE_IN_BYTES
    Margin,      \* UART_BUF_SIZE_MARGIN_IN_BYTES
    CountMod,    \* 2^32: the counts are of type uint32_t
    MaxBytes     \* bytes on the line (bound of the model)

ASSUME UartDmaAssumption ==
    /\ Size \in Nat \ {0} /\ Margin \in 1 .. Size
    /\ CountMod \in Nat /\ CountMod > Size + Margin
    /\ MaxBytes \in Nat

VARIABLES
    uart_buf, input_cursor, output_cursor,
    bytesInBuffer, bytes_in_margin_buffer,
    started,     \* is_app_uart_receiving_started
    starting,    \* how far a start of reception is
    dma, room,   \* bytes written by the current transfer, and its length (0: none)
    signal,      \* SIGNAL_OF_UART_DATA_RECEIVED is set
    at,          \* the thread waits, or is in the callback
    n, m, end,   \* its bytesInBuffer, bytes_in_margin_buffer, end_index_in_buffer
    sent,        \* bytes that have arrived
    delivered,   \* bytes that the callback has had
    overrun,     \* a byte was overwritten before that
    unseen,      \* the margin was filled during a callback that does not know it
    upset,       \* the thread's place is no longer that of the bytes
    failed       \* the assertion has failed

cursors == <<input_cursor, output_cursor, bytesInBuffer, bytes_in_margin_buffer>>
line    == <<uart_buf, dma, room, sent>>
thread  == <<at, n, m, end>>
ghosts  == <<delivered, overrun, unseen, upset>>
vars    == <<cursors, line, thread, ghosts, started, starting, signal, failed>>

Chunk == Size + Margin
Index == 0 .. Chunk - 1

Count      == 0 .. CountMod - 1
Plus(a, b)  == IF a + b < CountMod THEN a + b ELSE a + b - CountMod
Minus(a, b) == IF a >= b THEN a - b ELSE a - b + CountMod

TypeOK ==
    /\ uart_buf \in [Index -> Nat]
    /\ input_cursor \in 0 .. Size - 1 /\ output_cursor \in 0 .. Size - 1
    /\ bytesInBuffer \in Count /\ bytes_in_margin_buffer \in Count
    /\ started \in BOOLEAN /\ starting \in {"no", "reset", "armed"}
    /\ room \in {0, Margin, Chunk} /\ dma \in 0 .. room
    /\ signal \in BOOLEAN /\ at \in {"wait", "callback"}
    /\ n \in Count /\ m \in Count /\ end \in Count
    /\ sent \in 0 .. MaxBytes /\ delivered \in 0 .. sent
    /\ overrun \in BOOLEAN /\ unseen \in BOOLEAN /\ upset \in BOOLEAN /\ failed \in BOOLEAN

Init ==
    /\ uart_buf = [i \in Index |-> 0]
    /\ input_cursor = 0 /\ output_cursor = 0
    /\ bytesInBuffer = 0 /\ bytes_in_margin_buffer = 0
    /\ started = FALSE /\ starting = "no"
    /\ dma = 0 /\ room = 0
    /\ signal = FALSE /\ at = "wait" /\ n = 0 /\ m = 0 /\ end = 0
    /\ sent = 0 /\ delivered = 0
    /\ overrun = FALSE /\ unseen = FALSE /\ upset = FALSE /\ failed = FALSE

-----------------------------------------------------------------------------
(* The line and the interrupt                                              *)

(* A byte arrives.                                                         *)
Receive ==
    /\ ~failed /\ dma < room /\ sent < MaxBytes
    /\ uart_buf' = [uart_buf EXCEPT ![input_cursor + dma] = sent + 1]
    /\ overrun' = (overrun \/ uart_buf[input_cursor + dma] > delivered)
    /\ dma' = dma + 1 /\ sent' = sent + 1
    /\ UNCHANGED <<cursors, thread, room, started, starting, signal, delivered, unseen, upset, failed>>

end_index == input_cursor + dma

(* Mistake: a transfer that ends at the end of the ring goes on behind it. *)
WrapsPast == end_index > Size

Wraps == end_index >= Size

(* Bytes come to the start of the ring while some from before its end are  *)
(* neither all with the callback nor told from them by the margin.         *)
RunsOn ==
    /\ dma > 0 /\ input_cursor = 0 /\ bytesInBuffer > 0
    /\ ~(at = "callback" /\ n = bytesInBuffer)
    /\ ~(bytes_in_margin_buffer > 0 /\ (at = "wait" \/ m > 0))

(* The transfer is full, or the line has been quiet (with no byte also     *)
(* the running send is stopped): uart_dma_rx.                              *)
Complete ==
    /\ ~failed /\ started /\ room > 0
    /\ bytesInBuffer' = Plus(bytesInBuffer, dma)
    /\ IF Wraps
       THEN /\ input_cursor' = 0
            /\ failed' = (bytes_in_margin_buffer # 0)
            /\ bytes_in_margin_buffer' = end_index - Size
       ELSE /\ input_cursor' = input_cursor + dma
            /\ UNCHANGED <<bytes_in_margin_buffer, failed>>
    /\ signal' = TRUE
    /\ dma' = 0 /\ room' = Margin
    /\ unseen' = (unseen \/ (end_index > Size /\ at = "callback" /\ m = 0))
    /\ upset' = (upset \/ RunsOn)
    /\ UNCHANGED <<uart_buf, output_cursor, thread, started, starting, sent, delivered, overrun>>

(* The transfer ends, its bytes are lost, and no other is armed.           *)
Cut ==
    /\ dma' = 0 /\ room' = 0 /\ sent' = sent - dma
    /\ uart_buf' = [i \in Index |-> IF uart_buf[i] > sent - dma THEN 0 ELSE uart_buf[i]]
    /\ UNCHANGED <<cursors, thread, ghosts, starting, signal, failed>>

(* A line error or a DMA error: app_uart_break_handler.                    *)
Error ==
    /\ ~failed /\ started /\ room > 0
    /\ Cut
    /\ UNCHANGED started

(* An interrupt before started is set: uart_dma_rx returns at once, and    *)
(* the transfer that raised it is over.                                    *)
Ignored ==
    /\ ~failed /\ ~started /\ room > 0
    /\ Cut
    /\ UNCHANGED started

-----------------------------------------------------------------------------
(* The thread                                                              *)

(* Mistake: the margin is not told from the rest of the ring.              *)
SliceLinear(out, bytes, margin) ==
    /\ n' = bytes /\ m' = margin
    /\ end' = Plus(out, bytes)
    /\ at' = IF bytes > 0 THEN "callback" ELSE "wait"

(* The next run of bytes for the callback.                                 *)
Slice(out, bytes, margin) ==
    /\ end' = IF margin > 0 /\ bytes > 0 THEN Plus(Size, margin) ELSE Plus(out, bytes)
    /\ n' = IF margin > 0 /\ bytes > 0 THEN Minus(end', out) ELSE bytes
    /\ m' = margin
    /\ at' = IF bytes > 0 THEN "callback" ELSE "wait"

Wake ==
    /\ ~failed /\ at = "wait" /\ signal
    /\ signal' = FALSE
    /\ Slice(output_cursor, bytesInBuffer, bytes_in_margin_buffer)
    /\ upset' = (upset \/ (unseen /\ bytesInBuffer > 0))
    /\ UNCHANGED <<cursors, line, started, starting, delivered, overrun, unseen, failed>>

(* The callback has had its bytes; they are counted while the thread's     *)
(* place is known.                                                         *)
Deliver ==
    /\ delivered' = IF upset \/ overrun THEN delivered ELSE delivered + n
    /\ UNCHANGED <<overrun, unseen, upset>>

Advance ==
    /\ output_cursor' = IF end >= Size THEN 0 ELSE end
    /\ bytesInBuffer' = Minus(bytesInBuffer, n)

(* Mistake: the margin is not given back.                                  *)
ConsumeKeepsMargin ==
    /\ ~failed /\ at = "callback"
    /\ Advance /\ Deliver
    /\ Slice(output_cursor', bytesInBuffer', 0)
    /\ UNCHANGED <<input_cursor, bytes_in_margin_buffer, line, started, starting, signal, failed>>

(* Mistake: what has arrived during the callback is left to the next       *)
(* wake-up.                                                                *)
ConsumeOnce ==
    /\ ~failed /\ at = "callback"
    /\ Advance /\ Deliver
    /\ bytes_in_margin_buffer' = Minus(bytes_in_margin_buffer, m)
    /\ at' = "wait"
    /\ UNCHANGED <<input_cursor, n, m, end, line, started, starting, signal, failed>>

(* The callback returns.                                                   *)
Consume ==
    /\ ~failed /\ at = "callback"
    /\ Advance /\ Deliver
    /\ bytes_in_margin_buffer' = Minus(bytes_in_margin_buffer, m)
    /\ Slice(output_cursor', bytesInBuffer', IF m > 0 THEN bytes_in_margin_buffer' ELSE 0)
    /\ UNCHANGED <<input_cursor, line, started, starting, signal, failed>>

-----------------------------------------------------------------------------
(* The application.  A start is three steps: an interrupt may come between *)
(* the arming of the first transfer and the mark that reception is started.*)
(* What the thread does between the four stores of the first step matters  *)
(* only in a callback, and that restart is upset as a whole.               *)

StartResets ==
    /\ ~failed /\ ~started /\ starting = "no"
    /\ bytesInBuffer' = 0 /\ bytes_in_margin_buffer' = 0
    /\ input_cursor' = 0 /\ output_cursor' = 0
    /\ starting' = "reset"
    /\ delivered' = sent
    /\ overrun' = FALSE /\ unseen' = FALSE /\ upset' = (at = "callback")
    /\ UNCHANGED <<line, thread, started, signal, failed>>

StartArms ==
    /\ ~failed /\ starting = "reset"
    /\ starting' = "armed"
    /\ dma' = 0 /\ room' = Chunk
    /\ UNCHANGED <<cursors, thread, ghosts, uart_buf, sent, started, signal, failed>>

(* No DMA channel: the UART is opened again, and reception not started.    *)
StartFails ==
    /\ ~failed /\ starting = "reset"
    /\ starting' = "no"
    /\ UNCHANGED <<cursors, line, thread, ghosts, started, signal, failed>>

StartMarks ==
    /\ ~failed /\ starting = "armed"
    /\ starting' = "no" /\ started' = TRUE
    /\ UNCHANGED <<cursors, line, thread, ghosts, signal, failed>>

StopReceiving ==
    /\ ~failed /\ started
    /\ started' = FALSE
    /\ Cut

Next ==
    \/ Receive \/ Complete \/ Error \/ Ignored
    \/ Wake \/ Consume
    \/ StartResets \/ StartArms \/ StartFails \/ StartMarks
    \/ StopReceiving

Spec == Init /\ [][Next]_vars

-----------------------------------------------------------------------------
(* Properties                                                              *)

(* The callback is given the bytes that follow the last ones it had, each  *)
(* once and in the order of the line, through the margin and back to 0,    *)
(* while more arrive: unless the sender has lapped the thread, or the      *)
(* thread's place is upset.  A wrap during a callback is no exception by   *)
(* itself.                                                                 *)
InOrder ==
    at = "callback" /\ ~overrun /\ ~upset
        => \A i \in output_cursor .. end - 1 :
               uart_buf[i] = delivered + 1 + (i - output_cursor)

(* A thread that waits with no signal has delivered all that was counted,  *)
(* also after a stop, an error, or a start that an interrupt has spoilt.   *)
NothingLeft ==
    at = "wait" /\ ~signal /\ ~overrun /\ ~upset => delivered = sent - dma

(* "UART data corruption": the assertion fails only after an overrun, or   *)
(* where a wrap during a callback has left its count in the margin.        *)
CorruptionExplained == failed => overrun \/ upset \/ unseen

(* "UART data corruption": the assertion fails only after bytes were lost  *)
(* or taken in the wrong order.                                            *)
MarginConsumed == failed => overrun \/ upset
=============================================================================
