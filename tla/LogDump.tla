------------------------------ MODULE LogDump ------------------------------
(***************************************************************************)
(* The log dump of log_section.c: trace output fills a ring of buffers,    *)
(* one sector each, which are written to a ring of flash sectors.          *)
(*                                                                         *)
(* Output runs with interrupts locked (hal_trace_output) and comes between *)
(* any two steps of a flush.  Two flushers take those steps and share no   *)
(* lock: the hook in the flush thread, and log_dump_flush_all, called at   *)
(* power-off and at the end of a crash, which flushes the buffer that is   *)
(* being filled as well and then cannot be continued.  A flush asks        *)
(* norflash_api, whose queue is executed in order and lost with power.     *)
(*                                                                         *)
(* Text is counted in units, a sector is Size of them and a header one; an *)
(* output is shorter than what a sector holds.                             *)
(***************************************************************************)
EXTENDS Integers, Sequences

CONSTANTS
    NBuffer,    \* LOG_DUMP_SECTOR_BUFFER_COUNT
    NSector,    \* sectors of the section
    Size,       \* LOG_DUMP_SECTOR_SIZE
    QueueMax,   \* operations that norflash_api takes
    MaxSeqnum,  \* headers written,
    MaxUpset,   \* headers written when a flush has been upset, and
    MaxFails    \* power failures until then (bounds of the model)

ASSUME LogDumpAssumption ==
    /\ NBuffer \in Nat \ {0, 1} /\ NSector \in Nat \ {0, 1} /\ Size \in Nat \ {0, 1, 2}
    /\ QueueMax \in Nat \ {0} /\ MaxSeqnum \in Nat
    /\ MaxUpset \in 0 .. MaxSeqnum /\ MaxFails \in Nat

VARIABLES
    data_buffer_list,
    w_seqnum, f_seqnum,     \* the buffer that is filled, and the next to flush
    flash_offs, cur_dump_seqnum, flash_state,
    is_immediately,
    at, buff,               \* where each flusher is, and its data_buff
    remain,                 \* what _log_dump_flush_remain is at
    crashed,
    flash,                  \* the seqnum in each sector's header
    queue,                  \* operations queued in norflash_api
    overrun,   \* output has met buffers that are not flushed
    upset,     \* a flush had its buffer changed, or its place taken, under it
    partial,   \* a buffer that was not full has been flushed
    fails

ring  == <<data_buffer_list, w_seqnum, cur_dump_seqnum>>
place == <<f_seqnum, flash_offs, flash_state>>
nor   == <<flash, queue>>
mode  == <<remain, crashed, is_immediately>>
ghost == <<overrun, upset, partial, fails>>
vars  == <<ring, place, nor, mode, at, buff, ghost>>

Buffers  == 0 .. NBuffer - 1
Sectors  == 0 .. NSector - 1
Flushers == {"hook", "remain"}
Other(p) == IF p = "hook" THEN "remain" ELSE "hook"
NoLog    == -1
Garbled  == -2

Operations ==
    [type : {"erase"}, sector : Sectors]
        \cup [type : {"write"}, offs : 0 .. NSector * Size - 1, seqnum : 0 .. MaxSeqnum]

TypeOK ==
    /\ data_buffer_list \in
          [Buffers -> [state : {"FREE", "WRITTING", "WRITTEN"},
                       offset : 0 .. Size, seqnum : 0 .. MaxSeqnum]]
    /\ w_seqnum \in Buffers /\ f_seqnum \in Buffers
    /\ flash_offs \in 0 .. NSector * Size - 1 /\ cur_dump_seqnum \in 0 .. MaxSeqnum + 1
    /\ flash_state \in {"IDLE", "ERASED", "WRITTING"}
    /\ is_immediately \in BOOLEAN /\ crashed \in BOOLEAN
    /\ at \in [Flushers -> {"out", "erased", "write", "free", "next", "offset"}]
    /\ buff \in [Flushers -> Buffers]
    /\ remain \in {"no", "loop", "drain"}
    /\ flash \in [Sectors -> {NoLog, Garbled} \cup 0 .. MaxSeqnum]
    /\ queue \in Seq(Operations) /\ Len(queue) <= QueueMax
    /\ overrun \in BOOLEAN /\ upset \in BOOLEAN /\ partial \in BOOLEAN
    /\ fails \in 0 .. MaxFails

-----------------------------------------------------------------------------
(* log_dump_init                                                           *)

Existing(cells) == {s \in Sectors : cells[s] >= 0}

Newest(cells) ==
    CHOOSE s \in Existing(cells) : \A t \in Existing(cells) : cells[t] <= cells[s]

(* Mistake: the sector of the newest log is taken again.                   *)
FirstSectorSame(cells) == IF Existing(cells) = {} THEN 0 ELSE Newest(cells)

FirstSector(cells) ==
    IF Existing(cells) = {} THEN 0 ELSE (Newest(cells) + 1) % NSector

FirstSeqnum(cells) ==
    IF Existing(cells) = {} THEN 0 ELSE cells[Newest(cells)] + 1

Fresh == [state |-> "FREE", offset |-> 0, seqnum |-> 0]

Init ==
    /\ data_buffer_list = [b \in Buffers |-> Fresh]
    /\ w_seqnum = 0 /\ f_seqnum = 0
    /\ flash_offs = 0 /\ cur_dump_seqnum = 0
    /\ flash_state = "IDLE" /\ is_immediately = FALSE
    /\ at = [p \in Flushers |-> "out"] /\ buff = [p \in Flushers |-> 0]
    /\ remain = "no" /\ crashed = FALSE
    /\ flash = [s \in Sectors |-> NoLog] /\ queue = <<>>
    /\ overrun = FALSE /\ upset = FALSE /\ partial = FALSE /\ fails = 0

(* Power fails, or is turned off; the next boot reads the headers.         *)
Restart ==
    /\ ~upset /\ fails < MaxFails /\ fails' = fails + 1
    /\ data_buffer_list' = [b \in Buffers |-> Fresh]
    /\ w_seqnum' = 0 /\ f_seqnum' = 0
    /\ flash_offs' = FirstSector(flash) * Size
    /\ cur_dump_seqnum' = FirstSeqnum(flash)
    /\ flash_state' = "IDLE" /\ is_immediately' = FALSE
    /\ at' = [p \in Flushers |-> "out"] /\ buff' = [p \in Flushers |-> 0]
    /\ remain' = "no" /\ crashed' = FALSE
    /\ queue' = <<>> /\ partial' = FALSE
    /\ UNCHANGED <<flash, overrun, upset>>

-----------------------------------------------------------------------------
(* log_dump_output_handler                                                 *)

After(b, n) == (b + 1) % n

(* A buffer that is free or full is begun anew, with a header.             *)
Begun(b, seqnum) ==
    IF data_buffer_list[b].state = "WRITTING" THEN data_buffer_list[b]
    ELSE [state |-> "WRITTING", offset |-> 1, seqnum |-> seqnum]

Begins(b) == IF data_buffer_list[b].state = "WRITTING" THEN 0 ELSE 1

(* Output changes buffers that are full, or that a flush is busy with.     *)
Touches(bs) ==
    /\ overrun' = (overrun \/ \E b \in bs : data_buffer_list[b].state = "WRITTEN")
    /\ upset' = (upset \/ \E p \in Flushers :
                              at[p] \notin {"out", "erased"} /\ buff[p] \in bs)

OutputFits(len) ==
    LET b == Begun(w_seqnum, cur_dump_seqnum)
    IN  /\ b.offset + len < Size
        /\ data_buffer_list' =
              [data_buffer_list EXCEPT ![w_seqnum] = [b EXCEPT !.offset = @ + len]]
        /\ cur_dump_seqnum' = cur_dump_seqnum + Begins(w_seqnum)
        /\ Touches({w_seqnum})
        /\ UNCHANGED w_seqnum

(* Mistake: a buffer that becomes full is not marked.                      *)
FilledStays(b) == [b EXCEPT !.offset = Size]

Filled(b) == [b EXCEPT !.offset = Size, !.state = "WRITTEN"]

(* The buffer becomes full; what is left begins the next one, or is        *)
(* dropped if that one is the next to flush.                               *)
OutputFills(len) ==
    LET b    == Begun(w_seqnum, cur_dump_seqnum)
        left == b.offset + len - Size
        next == After(w_seqnum, NBuffer)
        seq  == cur_dump_seqnum + Begins(w_seqnum)
        goes == left > 0 /\ next # f_seqnum
    IN  /\ left >= 0
        /\ w_seqnum' = next
        /\ data_buffer_list' =
              [data_buffer_list EXCEPT ![w_seqnum] = Filled(b),
                  ![next] = IF goes THEN [Begun(next, seq) EXCEPT !.offset = @ + left] ELSE @]
        /\ cur_dump_seqnum' = seq + (IF goes THEN Begins(next) ELSE 0)
        /\ Touches({w_seqnum} \cup (IF goes THEN {next} ELSE {}))

Output ==
    /\ ~crashed /\ cur_dump_seqnum < IF upset THEN MaxUpset ELSE MaxSeqnum
    /\ \E len \in 1 .. Size - 1 : OutputFits(len) \/ OutputFills(len)
    /\ UNCHANGED <<place, nor, mode, at, buff, partial, fails>>

-----------------------------------------------------------------------------
(* norflash_api, as seen from here                                         *)

Applied(op, cells) ==
    IF op.type = "erase" THEN [cells EXCEPT ![op.sector] = NoLog]
    ELSE LET s == op.offs \div Size
         IN  [cells EXCEPT ![s] =
                 IF op.offs % Size = 0 /\ @ \in {NoLog, op.seqnum} THEN op.seqnum ELSE Garbled]

Execute ==
    /\ queue # <<>>
    /\ flash' = Applied(Head(queue), flash) /\ queue' = Tail(queue)
    /\ UNCHANGED <<ring, place, mode, at, buff, ghost>>

(* A synchronous call has the queue executed first and is not refused.     *)
Accepts(op) ==
    IF is_immediately
    THEN queue = <<>> /\ flash' = Applied(op, flash) /\ UNCHANGED queue
    ELSE Len(queue) < QueueMax /\ queue' = Append(queue, op) /\ UNCHANGED flash

Refuses == ~is_immediately /\ Len(queue) = QueueMax /\ UNCHANGED nor

-----------------------------------------------------------------------------
(* _log_dump_flush                                                         *)

Unfree == {b \in Buffers : data_buffer_list[b].state # "FREE"}

(* The hook is called again and again, flush_remain while a buffer is not  *)
(* free.  A flush that finds another one under way upsets both.            *)
Enters(p) ==
    /\ at[p] = "out"
    /\ IF p = "hook" THEN ~crashed ELSE remain = "loop" /\ Unfree # {}
    /\ upset' = (upset \/ (~crashed /\ at[Other(p)] # "out"))

Goes(p, to) == at' = [at EXCEPT ![p] = to]

(* Mistake: nobody flushes the buffer that is being filled.                *)
FlushableFull(p) == {"WRITTEN"}

Flushable(p) == IF p = "hook" THEN {"WRITTEN"} ELSE {"WRITTEN", "WRITTING"}

Erase(p) ==
    /\ Enters(p) /\ flash_state = "IDLE" /\ flash_offs % Size = 0
    /\ \/ /\ Accepts([type |-> "erase", sector |-> flash_offs \div Size])
          /\ Goes(p, "erased")
       \/ Refuses /\ UNCHANGED at
    /\ UNCHANGED <<ring, place, mode, buff, overrun, partial, fails>>

(* Mistake: that the sector is erased is not kept.                         *)
ErasedForgotten(p) ==
    /\ at[p] = "erased" /\ (p = "hook" => ~crashed)
    /\ Goes(p, "out")
    /\ UNCHANGED <<ring, place, nor, mode, buff, ghost>>

Erased(p) ==
    /\ at[p] = "erased" /\ (p = "hook" => ~crashed)
    /\ flash_state' = "ERASED"
    /\ Goes(p, "out")
    /\ UNCHANGED <<ring, f_seqnum, flash_offs, nor, mode, buff, ghost>>

Check(p) ==
    /\ Enters(p) /\ flash_state # "IDLE"
    /\ data_buffer_list[f_seqnum].state \in Flushable(p)
    /\ data_buffer_list[f_seqnum].offset > 0
    /\ flash_state' = "WRITTING"
    /\ buff' = [buff EXCEPT ![p] = f_seqnum]
    /\ Goes(p, "write")
    /\ UNCHANGED <<ring, f_seqnum, flash_offs, nor, mode, overrun, partial, fails>>

(* What norflash_api is given is copied, or in flash, when it returns.     *)
Write(p) ==
    /\ at[p] = "write" /\ (p = "hook" => ~crashed)
    /\ LET b == data_buffer_list[buff[p]]
       IN  \/ /\ Accepts([type |-> "write", offs |-> flash_offs, seqnum |-> b.seqnum])
              /\ partial' = (partial \/ b.offset < Size)
              /\ Goes(p, "free")
           \/ Refuses /\ Goes(p, "out") /\ UNCHANGED partial
    /\ UNCHANGED <<ring, place, mode, buff, overrun, upset, fails>>

Free(p) ==
    /\ at[p] = "free" /\ (p = "hook" => ~crashed)
    /\ data_buffer_list' = [data_buffer_list EXCEPT ![buff[p]].state = "FREE"]
    /\ Goes(p, "next")
    /\ UNCHANGED <<w_seqnum, cur_dump_seqnum, place, nor, mode, buff, ghost>>

(* Mistake: the ring is left when its end is reached.                      *)
NextBufferStays(p) ==
    /\ at[p] = "next" /\ (p = "hook" => ~crashed)
    /\ f_seqnum' = IF f_seqnum + 1 = NBuffer THEN f_seqnum ELSE f_seqnum + 1
    /\ Goes(p, "offset")
    /\ UNCHANGED <<ring, flash_offs, flash_state, nor, mode, buff, ghost>>

NextBuffer(p) ==
    /\ at[p] = "next" /\ (p = "hook" => ~crashed)
    /\ f_seqnum' = After(f_seqnum, NBuffer)
    /\ Goes(p, "offset")
    /\ UNCHANGED <<ring, flash_offs, flash_state, nor, mode, buff, ghost>>

(* Mistake: the end of the section is passed.                              *)
OffsetPast(p) ==
    /\ at[p] = "offset" /\ (p = "hook" => ~crashed)
    /\ LET offs == flash_offs + data_buffer_list[buff[p]].offset
       IN  flash_offs' = IF offs > NSector * Size THEN 0 ELSE offs
    /\ flash_state' = "IDLE"
    /\ Goes(p, "out")
    /\ UNCHANGED <<ring, f_seqnum, nor, mode, buff, ghost>>

(* The length is that of the buffer as it is now, after it was freed.      *)
Offset(p) ==
    /\ at[p] = "offset" /\ (p = "hook" => ~crashed)
    /\ LET offs == flash_offs + data_buffer_list[buff[p]].offset
       IN  flash_offs' = IF offs >= NSector * Size THEN 0 ELSE offs
    /\ flash_state' = "IDLE"
    /\ Goes(p, "out")
    /\ UNCHANGED <<ring, f_seqnum, nor, mode, buff, ghost>>

-----------------------------------------------------------------------------
(* log_dump_flush_all, log_dump_notify_handler, _log_dump_flush_remain     *)

FlushAll ==
    /\ ~crashed /\ remain = "no"
    /\ is_immediately' = TRUE /\ remain' = "loop"
    /\ UNCHANGED <<ring, place, nor, crashed, at, buff, ghost>>

(* A crash stops the threads, at any step of a flush, and flushes when it  *)
(* has been printed.  A buffer that has been written and not yet freed is  *)
(* written again, to the same place; one freed while the positions are     *)
(* still at it upsets what follows.                                        *)
Crash ==
    /\ ~crashed /\ crashed' = TRUE
    /\ is_immediately' = TRUE /\ remain' = "loop"
    /\ upset' = (upset \/ at["remain"] # "out" \/ at["hook"] \in {"next", "offset"})
    /\ at' = [at EXCEPT !["remain"] = "out"]
    /\ UNCHANGED <<ring, place, nor, buff, overrun, partial, fails>>

RemainFree ==
    /\ remain = "loop" /\ at["remain"] = "out" /\ Unfree = {}
    /\ remain' = "drain"
    /\ UNCHANGED <<ring, place, nor, crashed, is_immediately, at, buff, ghost>>

RemainDrained ==
    /\ remain = "drain" /\ queue = <<>>
    /\ remain' = "no"
    /\ UNCHANGED <<ring, place, nor, crashed, is_immediately, at, buff, ghost>>

Flush(p) ==
    \/ Erase(p) \/ Erased(p) \/ Check(p) \/ Write(p)
    \/ Free(p) \/ NextBuffer(p) \/ Offset(p)

Next ==
    \/ Output \/ Execute \/ Restart \/ FlushAll \/ Crash
    \/ RemainFree \/ RemainDrained
    \/ \E p \in Flushers : Flush(p)

Spec == Init /\ [][Next]_vars

(* The flush thread and its device run on (FlushThread is about when), and *)
(* flush_remain is a loop.                                                 *)
FairSpec ==
    /\ Spec
    /\ WF_vars(Flush("hook")) /\ WF_vars(Flush("remain") \/ RemainFree \/ RemainDrained)
    /\ WF_vars(Execute)

-----------------------------------------------------------------------------
(* Properties                                                              *)

(* "data_buff state error": output that goes on to the next buffer finds   *)
(* none that is being filled.  Only the buffer at the write position is,   *)
(* whatever flushes free at the same time.                                 *)
OneWritting ==
    \A b \in Buffers : data_buffer_list[b].state = "WRITTING" => b = w_seqnum

(* The flush position is at the oldest full buffer, while output adds full *)
(* ones and flushes free them: none is passed over for a lap.              *)
OldestNext ==
    ~overrun /\ ~upset /\ ~partial /\ (\A p \in Flushers : at[p] \notin {"free", "next"})
        => \A b \in Buffers :
               data_buffer_list[b].state = "WRITTEN"
                   => /\ data_buffer_list[f_seqnum].state = "WRITTEN"
                      /\ data_buffer_list[f_seqnum].seqnum <= data_buffer_list[b].seqnum

(* In flash the logs follow each other around the section by their numbers *)
(* and none is missing between two, through power failures that lose what  *)
(* is queued, crashes and partial flushes: what start-up takes for the     *)
(* next sector is the oldest.                                              *)
FlashInOrder ==
    ~overrun /\ ~upset
        => /\ \A s \in Sectors : flash[s] # Garbled
           /\ \A s, t \in Existing(flash) :
                 /\ flash[s] - flash[t] < NSector
                 /\ (flash[s] - flash[t]) % NSector = (s - t) % NSector

(* Full buffers are flushed, unless output overran the flush or upset it,  *)
(* a partial flush has ended flushing, or the system has crashed.          *)
FullFlushed ==
    (\E b \in Buffers : data_buffer_list[b].state = "WRITTEN")
        ~> \/ \A b \in Buffers : data_buffer_list[b].state # "WRITTEN"
           \/ overrun \/ upset \/ partial \/ crashed

(* After a crash the remaining buffers are all flushed and the queue is    *)
(* executed, with the same exceptions: each of them can leave flush_remain *)
(* in its loop.                                                            *)
CrashFlushed ==
    crashed /\ ~partial /\ ~overrun /\ ~upset
        ~> ~crashed \/ upset \/ (remain = "no" /\ Unfree = {} /\ queue = <<>>)
=============================================================================
