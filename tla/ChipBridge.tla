----------------------------- MODULE ChipBridge -----------------------------
(***************************************************************************)
(* Two chips that send each other commands and answers over a UART:        *)
(* app_chip_bridge.cpp, and the sending half of app_uart_dma_thread.c.     *)
(*                                                                         *)
(* On each chip the tx thread takes commands from a mailbox, sends one and *)
(* waits for its answer, and the rx thread handles what arrives and sends  *)
(* the answers itself.  Both send through one DMA channel and one variable *)
(* that names the thread to be told of its end, and nothing keeps them     *)
(* apart: a send that starts during another one is ignored by the HAL.     *)
(* A thread that is not told in time opens the UART again, and with that   *)
(* ends reception.  So does a line error, whose handler also stops the     *)
(* running send.  The line loses packets as a whole: what the bytes of a   *)
(* torn one do to the framing of the next is left out.                     *)
(*                                                                         *)
(* Every command is of the one kind that is registered, SET_TEST_MODE_CMD, *)
(* whose answer repeats it; its resend counter serves all of them.         *)
(***************************************************************************)
EXTENDS Naturals, Sequences, FiniteSets

CONSTANTS
    Chips,
    MailboxMax,  \* APP_CHIP_BRIDGE_TX_MAILBOX_MAX
    HeapBlocks,  \* commands that may fill app_chip_bridge_tx_mailbox_heap_pool
    ResendTime,  \* RESEND_TIME
    MaxCmds,     \* commands of both chips (bound of the model)
    Prompt       \* an answer that is not lost comes before the time-out

ASSUME ChipBridgeAssumption ==
    /\ IsFiniteSet(Chips) /\ Cardinality(Chips) = 2
    /\ MailboxMax \in Nat \ {0} /\ HeapBlocks \in Nat \ {0}
    /\ ResendTime \in Nat /\ MaxCmds \in Nat /\ Prompt \in BOOLEAN

VARIABLES
    mail,         \* the mailbox
    mutex,        \* who has app_chip_bridge_tx_mutex
    asked,        \* commands that the clients have sent
    pc,           \* where the threads are
    packet,       \* what each of them sends
    resend_time,
    sem,          \* tokens of app_chip_bridge_wait_cmd_rsp
    dma_tx_thread_id,
    dma,          \* the thread whose packet is being transmitted
    signals,      \* threads with SIGNAL_OF_UART_DATA_TRANSMITTED set
    deaf,         \* reception has ended
    line,         \* packets on their way to a chip, or in its queue
    handled,      \* commands of the peer that a chip has handled
    collided,     \* two sends have overlapped
    broken,       \* app_uart_break_handler has run
    failed        \* "alloc mbox error", or a "null ptr" from the heap

threads == <<pc, packet>>
box     == <<mail, mutex, asked>>
uart    == <<dma_tx_thread_id, dma, signals, deaf>>
wait    == <<sem, resend_time>>
ghosts  == <<handled, collided, broken, failed>>
vars    == <<threads, box, uart, wait, line, ghosts>>

Threads == {"tx", "rx"}
Cmds    == 1 .. MaxCmds
Packets == [type : {"cmd", "rsp"}, id : Cmds]
Peer(c) == CHOOSE d \in Chips : d # c

None    == "none"
Nothing == [type |-> "none", id |-> 0]

TypeOK ==
    /\ mail \in [Chips -> Seq(Cmds)] /\ mutex \in [Chips -> {None, "client", "tx"}]
    /\ asked \in [Chips -> 0 .. MaxCmds]
    /\ pc \in [Chips -> [Threads -> {"idle", "begin", "start", "sending", "wait", "timeout", "free"}]]
    /\ packet \in [Chips -> [Threads -> Packets \cup {Nothing}]]
    /\ resend_time \in [Chips -> 0 .. ResendTime] /\ sem \in [Chips -> Nat]
    /\ dma_tx_thread_id \in [Chips -> Threads \cup {None}]
    /\ dma \in [Chips -> Threads \cup {None}]
    /\ signals \in [Chips -> SUBSET Threads] /\ deaf \in [Chips -> BOOLEAN]
    /\ line \in [Chips -> Seq(Packets)]
    /\ handled \in [Chips -> SUBSET Cmds]
    /\ collided \in [Chips -> BOOLEAN] /\ broken \in [Chips -> BOOLEAN] /\ failed \in BOOLEAN
    /\ \A c \in Chips : pc[c]["rx"] \in {"idle", "begin", "start", "sending"}

Init ==
    /\ mail = [c \in Chips |-> <<>>] /\ mutex = [c \in Chips |-> None]
    /\ asked = [c \in Chips |-> 0]
    /\ pc = [c \in Chips |-> [t \in Threads |-> "idle"]]
    /\ packet = [c \in Chips |-> [t \in Threads |-> Nothing]]
    /\ resend_time = [c \in Chips |-> ResendTime] /\ sem = [c \in Chips |-> 0]
    /\ dma_tx_thread_id = [c \in Chips |-> None] /\ dma = [c \in Chips |-> None]
    /\ signals = [c \in Chips |-> {}] /\ deaf = [c \in Chips |-> FALSE]
    /\ line = [c \in Chips |-> <<>>]
    /\ handled = [c \in Chips |-> {}]
    /\ collided = [c \in Chips |-> FALSE] /\ broken = [c \in Chips |-> FALSE]
    /\ failed = FALSE

Step(c, t, from, to) ==
    /\ ~failed /\ pc[c][t] = from
    /\ pc' = [pc EXCEPT ![c][t] = to]

-----------------------------------------------------------------------------
(* app_chip_bridge_send_cmd, by a client                                   *)

(* The block of the command in hand is freed when that is done.            *)
Used(c) == Len(mail[c]) + (IF pc[c]["tx"] = "idle" THEN 0 ELSE 1)

Clients(c) == IF mutex[c] = "client" THEN 1 ELSE 0

MayAsk(c) ==
    /\ mutex[c] = None
    /\ asked[c] + asked[Peer(c)] + Clients(Peer(c)) < MaxCmds

SendCmd(c) ==
    /\ ~failed /\ MayAsk(c)
    /\ mutex' = [mutex EXCEPT ![c] = "client"]
    /\ UNCHANGED <<mail, asked, threads, uart, wait, line, ghosts>>

ClientPut(c) ==
    /\ ~failed /\ mutex[c] = "client" /\ Used(c) < MailboxMax
    /\ asked' = [asked EXCEPT ![c] = @ + 1]
    /\ mail' = [mail EXCEPT ![c] = Append(@, asked[c] + 1)]
    /\ mutex' = [mutex EXCEPT ![c] = None]
    /\ UNCHANGED <<threads, uart, wait, line, ghosts>>

-----------------------------------------------------------------------------
(* uart_dma_send_data                                                      *)

(* Mistake: nobody is named.                                               *)
SetIdMissing(c, t) ==
    /\ Step(c, t, "begin", "start")
    /\ collided' = [collided EXCEPT ![c] =
                       @ \/ \E u \in Threads \ {t} : pc[c][u] \in {"start", "sending"}]
    /\ UNCHANGED <<packet, box, uart, wait, line, handled, broken, failed>>

SetId(c, t) ==
    /\ Step(c, t, "begin", "start")
    /\ dma_tx_thread_id' = [dma_tx_thread_id EXCEPT ![c] = t]
    /\ collided' = [collided EXCEPT ![c] =
                       @ \/ \E u \in Threads \ {t} : pc[c][u] \in {"start", "sending"}]
    /\ UNCHANGED <<packet, box, dma, signals, deaf, wait, line, handled, broken, failed>>

Start(c, t) ==
    /\ Step(c, t, "start", "sending")
    /\ dma' = [dma EXCEPT ![c] = IF @ = None THEN t ELSE @]
    /\ UNCHANGED <<packet, box, dma_tx_thread_id, signals, deaf, wait, line, ghosts>>

(* uart_dma_tx: the transfer is done.  One whose thread has gone on was    *)
(* sent from a stack that is in use again.                                 *)
Sent(c) ==
    /\ ~failed /\ dma[c] # None
    /\ dma' = [dma EXCEPT ![c] = None]
    /\ signals' = [signals EXCEPT ![c] =
                      IF dma_tx_thread_id[c] = None THEN @ ELSE @ \cup {dma_tx_thread_id[c]}]
    /\ line' = IF pc[c][dma[c]] = "sending" /\ ~deaf[Peer(c)]
               THEN [line EXCEPT ![Peer(c)] = Append(@, packet[c][dma[c]])] ELSE line
    /\ UNCHANGED <<threads, box, dma_tx_thread_id, deaf, wait, ghosts>>

Leaves(c, t) ==
    /\ Step(c, t, "sending", IF t = "tx" THEN "wait" ELSE "idle")
    /\ packet' = IF t = "tx" THEN packet ELSE [packet EXCEPT ![c][t] = Nothing]

SendReturns(c, t) ==
    /\ Leaves(c, t) /\ t \in signals[c]
    /\ signals' = [signals EXCEPT ![c] = @ \ {t}]
    /\ UNCHANGED <<box, dma_tx_thread_id, dma, deaf, wait, line, ghosts>>

(* "app uart sending data failed!": the UART is opened again, which stops  *)
(* its transfers.  A transfer takes a tenth of the time-out.               *)
SendTimesOut(c, t) ==
    /\ Leaves(c, t) /\ t \notin signals[c] /\ dma[c] # t
    /\ deaf' = [deaf EXCEPT ![c] = TRUE]
    /\ dma' = [dma EXCEPT ![c] = None]
    /\ UNCHANGED <<box, dma_tx_thread_id, signals, wait, line, ghosts>>

(* app_uart_break_handler: the running send is stopped, and its thread not *)
(* told.                                                                   *)
BreakHandler(c) ==
    /\ dma' = [dma EXCEPT ![c] = None]
    /\ broken' = [broken EXCEPT ![c] = TRUE]
    /\ UNCHANGED <<threads, box, dma_tx_thread_id, signals, wait, line, handled, collided, failed>>

(* A line error or a DMA error: uart_dma_rx returns without arming another *)
(* transfer.  A packet that is on its way is lost with it.                 *)
LineError(c) ==
    /\ ~failed /\ ~deaf[c]
    /\ deaf' = [deaf EXCEPT ![c] = TRUE]
    /\ BreakHandler(c)

(* A transfer that has brought nothing: uart_dma_rx arms another one.      *)
EmptyTransfer(c) ==
    /\ ~failed /\ ~deaf[c] /\ dma[c] # None
    /\ BreakHandler(c)
    /\ UNCHANGED deaf

-----------------------------------------------------------------------------
(* The tx thread                                                           *)

Get(c) ==
    /\ mail[c] # <<>>
    /\ Step(c, "tx", "idle", "begin")
    /\ packet' = [packet EXCEPT ![c]["tx"] = [type |-> "cmd", id |-> Head(mail[c])]]
    /\ mail' = [mail EXCEPT ![c] = Tail(@)]
    /\ UNCHANGED <<mutex, asked, uart, wait, line, ghosts>>

Answered(c) ==
    /\ Step(c, "tx", "wait", "free") /\ sem[c] > 0
    /\ sem' = [sem EXCEPT ![c] = @ - 1]
    /\ UNCHANGED <<packet, box, uart, resend_time, line, ghosts>>

(* The command, or its answer, is still on its way.                        *)
OnItsWay(c) ==
    LET id == packet[c]["tx"].id
    IN  \/ dma[c] = "tx"
        \/ \E i \in DOMAIN line[Peer(c)] : line[Peer(c)][i] = [type |-> "cmd", id |-> id]
        \/ packet[Peer(c)]["rx"] = [type |-> "rsp", id |-> id]
        \/ \E i \in DOMAIN line[c] : line[c][i] = [type |-> "rsp", id |-> id]

TimesOut(c) ==
    /\ Prompt => ~OnItsWay(c)
    /\ sem[c] = 0
    /\ Step(c, "tx", "wait", "timeout")
    /\ UNCHANGED <<packet, box, uart, wait, line, ghosts>>

(* Mistake: the counter may be spent.                                      *)
ResendTakeAlways(c) ==
    /\ ~failed /\ pc[c]["tx"] = "timeout" /\ mutex[c] = None
    /\ mutex' = [mutex EXCEPT ![c] = "tx"]
    /\ UNCHANGED <<mail, asked, threads, uart, wait, line, ghosts>>

(* The time-out handler: send_cmd by the thread that empties the mailbox,  *)
(* a number of times over all commands.                                    *)
ResendTake(c) ==
    /\ ~failed /\ pc[c]["tx"] = "timeout" /\ resend_time[c] > 0 /\ mutex[c] = None
    /\ mutex' = [mutex EXCEPT ![c] = "tx"]
    /\ UNCHANGED <<mail, asked, threads, uart, wait, line, ghosts>>

ResendPut(c) ==
    /\ mutex[c] = "tx" /\ Used(c) < MailboxMax
    /\ Step(c, "tx", "timeout", "free")
    /\ mail' = [mail EXCEPT ![c] = Append(@, packet[c]["tx"].id)]
    /\ mutex' = [mutex EXCEPT ![c] = None]
    /\ resend_time' = [resend_time EXCEPT ![c] = @ - 1]
    /\ UNCHANGED <<packet, asked, uart, sem, line, handled, collided, broken, failed>>

GiveUp(c) ==
    /\ resend_time[c] = 0
    /\ Step(c, "tx", "timeout", "free")
    /\ resend_time' = [resend_time EXCEPT ![c] = ResendTime]
    /\ UNCHANGED <<packet, box, uart, sem, line, ghosts>>

Free(c) ==
    /\ Step(c, "tx", "free", "idle")
    /\ packet' = [packet EXCEPT ![c]["tx"] = Nothing]
    /\ UNCHANGED <<box, uart, wait, line, ghosts>>

(* Seven tries find no block: the tx thread waits for an answer that does  *)
(* not come, or for the mutex, or tries itself.                            *)
AllocFails(c) ==
    /\ ~failed /\ mutex[c] # None /\ Used(c) = MailboxMax
    /\ \/ pc[c]["tx"] = "timeout"
       \/ pc[c]["tx"] = "wait" /\ sem[c] = 0 /\ (Prompt => ~OnItsWay(c))
    /\ failed' = TRUE
    /\ UNCHANGED <<threads, box, uart, wait, line, handled, collided, broken>>

-----------------------------------------------------------------------------
(* The rx thread                                                           *)

Arrives(c, type) == line[c] # <<>> /\ Head(line[c]).type = type

(* Mistake: a command is answered only when this chip waits for nothing.   *)
HandleCmdWaits(c) ==
    /\ Arrives(c, "cmd") /\ pc[c]["tx"] # "wait"
    /\ Step(c, "rx", "idle", "begin")
    /\ line' = [line EXCEPT ![c] = Tail(@)]
    /\ handled' = [handled EXCEPT ![c] = @ \cup {Head(line[c]).id}]
    /\ packet' = [packet EXCEPT ![c]["rx"] = [type |-> "rsp", id |-> Head(line[c]).id]]
    /\ UNCHANGED <<box, uart, wait, collided, broken, failed>>

(* The handler answers: app_chip_bridge_send_rsp.                          *)
HandleCmd(c) ==
    /\ Arrives(c, "cmd")
    /\ Step(c, "rx", "idle", "begin")
    /\ line' = [line EXCEPT ![c] = Tail(@)]
    /\ handled' = [handled EXCEPT ![c] = @ \cup {Head(line[c]).id}]
    /\ packet' = [packet EXCEPT ![c]["rx"] = [type |-> "rsp", id |-> Head(line[c]).id]]
    /\ UNCHANGED <<box, uart, wait, collided, broken, failed>>

(* Mistake: the wait is ended twice.                                       *)
HandleRspTwice(c) ==
    /\ ~failed /\ pc[c]["rx"] = "idle" /\ Arrives(c, "rsp")
    /\ line' = [line EXCEPT ![c] = Tail(@)]
    /\ sem' = [sem EXCEPT ![c] = @ + 2]
    /\ UNCHANGED <<threads, box, uart, resend_time, ghosts>>

HandleRsp(c) ==
    /\ ~failed /\ pc[c]["rx"] = "idle" /\ Arrives(c, "rsp")
    /\ line' = [line EXCEPT ![c] = Tail(@)]
    /\ sem' = [sem EXCEPT ![c] = @ + 1]
    /\ UNCHANGED <<threads, box, uart, resend_time, ghosts>>

(* Its wait for any signal takes one of an earlier send.                   *)
RxWakes(c) ==
    /\ ~failed /\ pc[c]["rx"] = "idle" /\ "rx" \in signals[c]
    /\ signals' = [signals EXCEPT ![c] = @ \ {"rx"}]
    /\ UNCHANGED <<threads, box, dma_tx_thread_id, dma, deaf, wait, line, ghosts>>

Lose(c) ==
    /\ ~failed /\ line[c] # <<>>
    /\ line' = [line EXCEPT ![c] = Tail(@)]
    /\ UNCHANGED <<threads, box, uart, wait, ghosts>>

-----------------------------------------------------------------------------
(* app_chip_bridge_tx_mailbox_heap_malloc                                  *)

(* A command has a block until it is freed; a command that is sent again   *)
(* has a second one, and an answer one while it is sent.                   *)
Blocks(c) ==
    Used(c) + Clients(c)
        + (IF pc[c]["tx"] = "timeout" /\ resend_time[c] > 0 THEN 1 ELSE 0)
        + (IF pc[c]["rx"] = "idle" THEN 0 ELSE 1)

(* The pool holds half a mailbox of the longest commands, and more of      *)
(* shorter ones: the next block of a client, of an answer or of a command  *)
(* to be sent again may find no room.                                      *)
HeapFails(c) ==
    /\ ~failed /\ Blocks(c) >= HeapBlocks
    /\ \/ MayAsk(c)
       \/ pc[c]["rx"] = "idle" /\ Arrives(c, "cmd")
       \/ /\ pc[c]["tx"] = "wait" /\ sem[c] = 0 /\ resend_time[c] > 0
          /\ Prompt => ~OnItsWay(c)
    /\ failed' = TRUE
    /\ UNCHANGED <<threads, box, uart, wait, line, handled, collided, broken>>

-----------------------------------------------------------------------------
Send(c) ==
    \/ Sent(c)
    \/ \E t \in Threads : SetId(c, t) \/ Start(c, t) \/ SendReturns(c, t) \/ SendTimesOut(c, t)

Errors(c) == LineError(c) \/ EmptyTransfer(c) \/ AllocFails(c) \/ HeapFails(c)

Tx(c) ==
    \/ Get(c) \/ Answered(c) \/ TimesOut(c)
    \/ ResendTake(c) \/ ResendPut(c) \/ GiveUp(c) \/ Free(c)

Rx(c) == HandleCmd(c) \/ HandleRsp(c) \/ RxWakes(c)

Next ==
    \E c \in Chips :
        SendCmd(c) \/ ClientPut(c) \/ Send(c) \/ Tx(c) \/ Rx(c) \/ Lose(c) \/ Errors(c)

Spec == Init /\ [][Next]_vars

(* The threads and the UART go on; a time-out comes if no answer does, and *)
(* a client that finds no block has one or fails.                          *)
FairSpec ==
    /\ Spec
    /\ \A c \in Chips :
          /\ WF_vars(Sent(c)) /\ WF_vars(Tx(c)) /\ WF_vars(Rx(c))
          /\ WF_vars(ClientPut(c) \/ AllocFails(c))
          /\ \A t \in Threads :
                WF_vars(SetId(c, t) \/ Start(c, t) \/ SendReturns(c, t) \/ SendTimesOut(c, t))

-----------------------------------------------------------------------------
(* Properties                                                              *)

(* A wait ends without a time-out only if the peer has handled this very   *)
(* command: answers carry no number, and a token that came for an earlier  *)
(* command would end it as well.                                           *)
AnsweredIsHandled ==
    [][\A c \in Chips :
          pc[c]["tx"] = "wait" /\ pc'[c]["tx"] = "free"
              => packet[c]["tx"].id \in handled[Peer(c)]]_vars

(* The tx thread that waits is the one that an answer wakes: no token is   *)
(* left behind when it takes the next command.                             *)
NoTokenLeft == \A c \in Chips : sem[c] > 0 => pc[c]["tx"] \in {"sending", "wait"} /\ sem[c] = 1

(* Reception ends only on a chip whose threads have sent at the same time, *)
(* or where the break handler has run: a send that meets neither is never  *)
(* timed out.                                                              *)
DeafIsExplained == \A c \in Chips : deaf[c] => collided[c] \/ broken[c]

(* Though each chip may wait for the other's answer, and all that is sent  *)
(* may be lost, both come to rest with every command answered or given up, *)
(* unless a full mailbox or heap has stopped one.                          *)
ComesToRest ==
    <>(failed \/ [](\A c \in Chips : mutex[c] = None /\ mail[c] = <<>> /\ pc[c]["tx"] = "idle"))
=============================================================================
