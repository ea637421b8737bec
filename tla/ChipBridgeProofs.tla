-------------------------- MODULE ChipBridgeProofs --------------------------
(***************************************************************************)
(* ChipBridge: types, the end of reception, and that an answered wait is   *)
(* for a handled command, for any number of commands, resends and sizes of *)
(* the mailboxes.  The heart is Flight: what is left of a command in the   *)
(* threads, the UARTs, the line and the semaphore is in one place at most. *)
(***************************************************************************)
EXTENDS ChipBridge, FiniteSetTheorems, TLAPS

LEMMA TwoChips ==
    /\ \A c \in Chips : Peer(c) \in Chips /\ Peer(c) # c /\ Peer(Peer(c)) = c
    /\ \A c, d \in Chips : d = c \/ d = Peer(c)
  <1>1. PICK a \in Chips : TRUE
    BY ChipBridgeAssumption, FS_EmptySet
  <1>2. IsFiniteSet(Chips \ {a}) /\ Cardinality(Chips \ {a}) = 1
    BY <1>1, ChipBridgeAssumption, FS_RemoveElement
  <1>3. PICK b : Chips \ {a} = {b}
    BY <1>2, FS_Singleton
  <1>4. Chips = {a, b} /\ a # b
    BY <1>1, <1>3
  <1>5. Peer(a) = b /\ Peer(b) = a
    BY <1>4 DEF Peer
  <1> QED BY <1>4, <1>5

Places == {"idle", "begin", "start", "sending", "wait", "timeout", "free"}

(* A thread has a packet, of its own kind, exactly when it is not idle.    *)
ThreadsOK ==
    /\ pc \in [Chips -> [Threads -> Places]]
    /\ packet \in [Chips -> [Threads -> Packets \cup {Nothing}]]
    /\ \A c \in Chips :
          /\ pc[c]["rx"] \in {"idle", "begin", "start", "sending"}
          /\ packet[c]["tx"].type = IF pc[c]["tx"] = "idle" THEN "none" ELSE "cmd"
          /\ packet[c]["rx"].type = IF pc[c]["rx"] = "idle" THEN "none" ELSE "rsp"

(* The clients of both chips have asked, or are about to, no more than     *)
(* MaxCmds together.                                                       *)
BoxOK ==
    /\ mail \in [Chips -> Seq(Cmds)] /\ mutex \in [Chips -> {None, "client", "tx"}]
    /\ asked \in [Chips -> 0 .. MaxCmds]
    /\ \A c \in Chips :
          asked[c] + Clients(c) + asked[Peer(c)] + Clients(Peer(c)) <= MaxCmds

(* The time-out handler that has the mutex may still resend.               *)
ResendOK ==
    \A c \in Chips : mutex[c] = "tx" => pc[c]["tx"] = "timeout" /\ resend_time[c] > 0

UartOK ==
    /\ dma_tx_thread_id \in [Chips -> Threads \cup {None}]
    /\ dma \in [Chips -> Threads \cup {None}]
    /\ signals \in [Chips -> SUBSET Threads] /\ deaf \in [Chips -> BOOLEAN]

WaitOK == resend_time \in [Chips -> 0 .. ResendTime] /\ sem \in [Chips -> Nat]

LineOK == line \in [Chips -> Seq(Packets)]

GhostsOK ==
    /\ handled \in [Chips -> SUBSET Cmds]
    /\ collided \in [Chips -> BOOLEAN] /\ broken \in [Chips -> BOOLEAN] /\ failed \in BOOLEAN

LocalInv == ThreadsOK /\ BoxOK /\ ResendOK /\ UartOK /\ WaitOK /\ LineOK /\ GhostsOK

(* Until two sends overlap or the break handler runs there is one send at  *)
(* a time, and the DMA, the thread to be told and the signal are those of  *)
(* the thread that sends.                                                  *)
SendOK(c) ==
    ~collided[c] /\ ~broken[c] =>
        /\ ~deaf[c]
        /\ pc[c]["tx"] \notin {"start", "sending"} \/ pc[c]["rx"] \notin {"start", "sending"}
        /\ \A t \in Threads :
              /\ pc[c][t] = "start" => dma[c] = None /\ dma_tx_thread_id[c] = t
              /\ pc[c][t] = "sending" => dma_tx_thread_id[c] = t
              /\ pc[c][t] = "sending" => dma[c] = t \/ (dma[c] = None /\ t \in signals[c])
              /\ dma[c] = t => pc[c][t] = "sending"
              /\ t \in signals[c] => pc[c][t] = "sending" /\ dma[c] = None

Has(s, type) == \E i \in DOMAIN s : s[i].type = type

(* The packets of this type in s are one, with this id. *)
Only(s, type, id) ==
    /\ \A i \in DOMAIN s : s[i].type = type => s[i].id = id
    /\ \A i, j \in DOMAIN s : s[i].type = type /\ s[j].type = type => i = j

Moving(c) == pc[c]["tx"] \in {"sending", "wait"}
Id(c)     == packet[c]["tx"].id

(* An answer is to be sent. *)
Live(c) ==
    pc[c]["rx"] \in {"begin", "start"} \/ (pc[c]["rx"] = "sending" /\ dma[c] = "rx")

(* The command in hand is in one place at most: being sent, on the line,   *)
(* handled and to be answered, answered on the line, or answered; and none *)
(* of an earlier command is anywhere.                                      *)
Flight(c) ==
    /\ dma[c] = "tx" =>
          /\ Moving(c) /\ ~Has(line[Peer(c)], "cmd")
          /\ ~Live(Peer(c)) /\ ~Has(line[c], "rsp") /\ sem[c] = 0
    /\ Has(line[Peer(c)], "cmd") =>
          /\ Moving(c) /\ Only(line[Peer(c)], "cmd", Id(c))
          /\ ~Live(Peer(c)) /\ ~Has(line[c], "rsp") /\ sem[c] = 0
    /\ Live(Peer(c)) =>
          /\ Moving(c) /\ packet[Peer(c)]["rx"].id = Id(c) /\ Id(c) \in handled[Peer(c)]
          /\ ~Has(line[c], "rsp") /\ sem[c] = 0
    /\ Has(line[c], "rsp") =>
          /\ Moving(c) /\ Only(line[c], "rsp", Id(c)) /\ Id(c) \in handled[Peer(c)]
          /\ sem[c] = 0
    /\ sem[c] > 0 => Moving(c) /\ sem[c] = 1 /\ Id(c) \in handled[Peer(c)]

Inv ==
    /\ LocalInv
    /\ \A c \in Chips : SendOK(c)
    /\ Prompt => \A c \in Chips : Flight(c)

(* A step that adds nothing to the places keeps Flight, *)
LEMMA Emptier ==
    ASSUME NEW d \in Chips, Flight(d),
           Moving(d) => Moving(d)' /\ Id(d)' = Id(d),
           dma'[d] = "tx" => dma[d] = "tx",
           Has(line'[Peer(d)], "cmd") => Has(line[Peer(d)], "cmd"),
           Only(line[Peer(d)], "cmd", Id(d)) => Only(line'[Peer(d)], "cmd", Id(d)),
           Has(line'[d], "rsp") => Has(line[d], "rsp"),
           Only(line[d], "rsp", Id(d)) => Only(line'[d], "rsp", Id(d)),
           Live(Peer(d))' => Live(Peer(d)) /\ packet'[Peer(d)]["rx"] = packet[Peer(d)]["rx"],
           handled[Peer(d)] \subseteq handled'[Peer(d)],
           sem'[d] = sem[d]
    PROVE  Flight(d)'
  <1>1. Moving(d) => Flight(d)'
    BY DEF Flight
  <1>2. ~Moving(d) => Flight(d)'
    BY DEF Flight
  <1> QED BY <1>1, <1>2

(* and so does one that empties them. *)
LEMMA Emptied ==
    ASSUME NEW d \in Chips, dma'[d] # "tx", ~Has(line'[Peer(d)], "cmd"), ~Has(line'[d], "rsp"),
           ~Live(Peer(d))', sem'[d] = 0
    PROVE  Flight(d)'
  BY DEF Flight

LEMMA AppendHas ==
    ASSUME NEW s \in Seq(Packets), NEW p \in Packets, NEW type
    PROVE  /\ Has(Append(s, p), type) <=> Has(s, type) \/ p.type = type
           /\ ~Has(s, type) => Only(Append(s, p), type, p.id)
           /\ \A id : Only(s, type, id) /\ p.type # type => Only(Append(s, p), type, id)
  <1>1. /\ DOMAIN Append(s, p) = DOMAIN s \cup {Len(s) + 1}
        /\ Append(s, p)[Len(s) + 1] = p
        /\ \A i \in DOMAIN s : Append(s, p)[i] = s[i]
    OBVIOUS
  <1> QED BY <1>1 DEF Has, Only

LEMMA TailHas ==
    ASSUME NEW s \in Seq(Packets), s # <<>>, NEW type, NEW id
    PROVE  /\ Has(Tail(s), type) => Has(s, type)
           /\ Head(s).type = type => Has(s, type) /\ (Only(s, type, id) => Head(s).id = id)
           /\ Head(s).type = type /\ Only(s, type, id) => ~Has(Tail(s), type)
           /\ Only(s, type, id) => Only(Tail(s), type, id)
  <1>1. /\ \A i \in DOMAIN Tail(s) : i + 1 \in DOMAIN s /\ i \in Int /\ Tail(s)[i] = s[i + 1] /\ i + 1 # 1
        /\ 1 \in DOMAIN s /\ Head(s) = s[1]
    OBVIOUS
  <1>2. Has(Tail(s), type) => Has(s, type)
    BY <1>1 DEF Has
  <1>3. Head(s).type = type => Has(s, type) /\ (Only(s, type, id) => Head(s).id = id)
    BY <1>1 DEF Has, Only
  <1>4. Head(s).type = type /\ Only(s, type, id) => ~Has(Tail(s), type)
    BY <1>1 DEF Has, Only
  <1>5. Only(s, type, id) => Only(Tail(s), type, id)
    BY <1>1 DEF Only
  <1> QED BY <1>2, <1>3, <1>4, <1>5

LEMMA InitLocal == Init => LocalInv
  <1> USE ChipBridgeAssumption, TwoChips
  <1> SUFFICES ASSUME Init PROVE LocalInv
    OBVIOUS
  <1>1. ThreadsOK
    BY DEF Init, ThreadsOK, Threads, Places, Nothing
  <1>2. BoxOK
    BY DEF Init, BoxOK, Clients, None
  <1>3. ResendOK
    BY DEF Init, ResendOK, None
  <1>4. UartOK
    BY DEF Init, UartOK
  <1>5. WaitOK
    BY DEF Init, WaitOK
  <1>6. LineOK
    BY DEF Init, LineOK
  <1>7. GhostsOK
    BY DEF Init, GhostsOK
  <1> QED BY <1>1, <1>2, <1>3, <1>4, <1>5, <1>6, <1>7 DEF LocalInv

LEMMA StepTo ==
    ASSUME ThreadsOK, NEW c \in Chips, NEW t \in Threads, NEW from, NEW to, Step(c, t, from, to),
           to \in Places
    PROVE  /\ ~failed
           /\ pc' \in [Chips -> [Threads -> Places]]
           /\ pc[c][t] = from /\ pc'[c][t] = to
           /\ \A d \in Chips, u \in Threads : d # c \/ u # t => pc'[d][u] = pc[d][u]
  BY DEF Step, ThreadsOK, Threads

LEMMA PacketTo ==
    ASSUME ThreadsOK, NEW c \in Chips, NEW t \in Threads, NEW p \in Packets \cup {Nothing},
           packet' = [packet EXCEPT ![c][t] = p]
    PROVE  /\ packet' \in [Chips -> [Threads -> Packets \cup {Nothing}]]
           /\ packet'[c][t] = p
           /\ \A d \in Chips, u \in Threads : d # c \/ u # t => packet'[d][u] = packet[d][u]
  BY DEF ThreadsOK, Threads

LEMMA SendCmdInv == ASSUME Inv, NEW c \in Chips, SendCmd(c) PROVE Inv'
  <1>0. /\ ThreadsOK /\ BoxOK /\ ResendOK /\ UartOK /\ WaitOK /\ LineOK /\ GhostsOK
        /\ \A e \in Chips : SendOK(e)
        /\ Prompt => \A e \in Chips : Flight(e)
    BY DEF Inv, LocalInv
  <1>1. ThreadsOK'
    BY <1>0 DEF SendCmd, threads, ThreadsOK, Threads, Nothing, Packets
  <1>2. BoxOK'
    BY <1>0, ChipBridgeAssumption, TwoChips DEF SendCmd, MayAsk, box, BoxOK, Clients, Cmds, Packets, None, ThreadsOK
  <1>3. ResendOK'
    BY <1>0 DEF SendCmd, threads, box, wait, ResendOK, BoxOK, WaitOK, None, Threads
  <1>4. UartOK'
    BY <1>0 DEF SendCmd, uart, UartOK, Threads
  <1>5. WaitOK'
    BY <1>0, ChipBridgeAssumption DEF SendCmd, wait, WaitOK, ResendOK
  <1>6. LineOK'
    BY <1>0 DEF SendCmd, LineOK, Arrives, ThreadsOK, UartOK, Nothing, Threads
  <1>7. GhostsOK'
    BY <1>0 DEF SendCmd, ghosts, GhostsOK, LineOK, Arrives, Packets
  <1>8. ASSUME NEW d \in Chips PROVE SendOK(d)'
    BY <1>0 DEF SendCmd, threads, uart, ghosts, SendOK, UartOK, GhostsOK, Threads, None
  <1>9. ASSUME Prompt, NEW d \in Chips PROVE Flight(d)'
    <2>0. /\ Flight(d) /\ Flight(c) /\ Peer(d) \in Chips /\ Peer(c) \in Chips /\ Peer(c) # c
          /\ Peer(Peer(c)) = c /\ (d = c \/ d = Peer(c))
      BY <1>0, <1>9, TwoChips
    <2>a. Moving(d) => Moving(d)' /\ Id(d)' = Id(d)
      BY <1>0, <2>0 DEF SendCmd, threads, Moving, Id, Threads
    <2>b. dma'[d] = "tx" => dma[d] = "tx"
      BY <1>0, <2>0 DEF SendCmd, uart, UartOK, None
    <2>c. Live(Peer(d))' => Live(Peer(d)) /\ packet'[Peer(d)]["rx"] = packet[Peer(d)]["rx"]
      BY <1>0, <2>0 DEF SendCmd, threads, uart, UartOK, Live, None, Threads
    <2>d. handled[Peer(d)] \subseteq handled'[Peer(d)] /\ sem'[d] = sem[d]
      BY <1>0, <2>0 DEF SendCmd, wait, ghosts, WaitOK, GhostsOK
    <2>e. line' = line
      BY DEF SendCmd
    <2> QED BY <2>0, <2>a, <2>b, <2>c, <2>d, <2>e, Emptier
  <1> QED BY <1>1, <1>2, <1>3, <1>4, <1>5, <1>6, <1>7, <1>8, <1>9 DEF Inv, LocalInv

LEMMA ClientPutInv == ASSUME Inv, NEW c \in Chips, ClientPut(c) PROVE Inv'
  <1>0. /\ ThreadsOK /\ BoxOK /\ ResendOK /\ UartOK /\ WaitOK /\ LineOK /\ GhostsOK
        /\ \A e \in Chips : SendOK(e)
        /\ Prompt => \A e \in Chips : Flight(e)
    BY DEF Inv, LocalInv
  <1>1. ThreadsOK'
    BY <1>0 DEF ClientPut, threads, ThreadsOK, Threads, Nothing, Packets
  <1>2. BoxOK'
    BY <1>0, ChipBridgeAssumption, TwoChips DEF ClientPut, box, BoxOK, Clients, Cmds, Packets, None, ThreadsOK
  <1>3. ResendOK'
    BY <1>0 DEF ClientPut, threads, box, wait, ResendOK, BoxOK, WaitOK, None, Threads
  <1>4. UartOK'
    BY <1>0 DEF ClientPut, uart, UartOK, Threads
  <1>5. WaitOK'
    BY <1>0, ChipBridgeAssumption DEF ClientPut, wait, WaitOK, ResendOK
  <1>6. LineOK'
    BY <1>0 DEF ClientPut, LineOK, Arrives, ThreadsOK, UartOK, Nothing, Threads
  <1>7. GhostsOK'
    BY <1>0 DEF ClientPut, ghosts, GhostsOK, LineOK, Arrives, Packets
  <1>8. ASSUME NEW d \in Chips PROVE SendOK(d)'
    BY <1>0 DEF ClientPut, threads, uart, ghosts, SendOK, UartOK, GhostsOK, Threads, None
  <1>9. ASSUME Prompt, NEW d \in Chips PROVE Flight(d)'
    <2>0. /\ Flight(d) /\ Flight(c) /\ Peer(d) \in Chips /\ Peer(c) \in Chips /\ Peer(c) # c
          /\ Peer(Peer(c)) = c /\ (d = c \/ d = Peer(c))
      BY <1>0, <1>9, TwoChips
    <2>a. Moving(d) => Moving(d)' /\ Id(d)' = Id(d)
      BY <1>0, <2>0 DEF ClientPut, threads, Moving, Id, Threads
    <2>b. dma'[d] = "tx" => dma[d] = "tx"
      BY <1>0, <2>0 DEF ClientPut, uart, UartOK, None
    <2>c. Live(Peer(d))' => Live(Peer(d)) /\ packet'[Peer(d)]["rx"] = packet[Peer(d)]["rx"]
      BY <1>0, <2>0 DEF ClientPut, threads, uart, UartOK, Live, None, Threads
    <2>d. handled[Peer(d)] \subseteq handled'[Peer(d)] /\ sem'[d] = sem[d]
      BY <1>0, <2>0 DEF ClientPut, wait, ghosts, WaitOK, GhostsOK
    <2>e. line' = line
      BY DEF ClientPut
    <2> QED BY <2>0, <2>a, <2>b, <2>c, <2>d, <2>e, Emptier
  <1> QED BY <1>1, <1>2, <1>3, <1>4, <1>5, <1>6, <1>7, <1>8, <1>9 DEF Inv, LocalInv

LEMMA AllocFailsInv == ASSUME Inv, NEW c \in Chips, AllocFails(c) PROVE Inv'
  <1>0. /\ ThreadsOK /\ BoxOK /\ ResendOK /\ UartOK /\ WaitOK /\ LineOK /\ GhostsOK
        /\ \A e \in Chips : SendOK(e)
        /\ Prompt => \A e \in Chips : Flight(e)
    BY DEF Inv, LocalInv
  <1>1. ThreadsOK'
    BY <1>0 DEF AllocFails, threads, ThreadsOK, Threads, Nothing, Packets
  <1>2. BoxOK'
    BY <1>0, ChipBridgeAssumption, TwoChips DEF AllocFails, box, BoxOK, Clients, Cmds, Packets, None, ThreadsOK
  <1>3. ResendOK'
    BY <1>0 DEF AllocFails, threads, box, wait, ResendOK, BoxOK, WaitOK, None, Threads
  <1>4. UartOK'
    BY <1>0 DEF AllocFails, uart, UartOK, Threads
  <1>5. WaitOK'
    BY <1>0, ChipBridgeAssumption DEF AllocFails, wait, WaitOK, ResendOK
  <1>6. LineOK'
    BY <1>0 DEF AllocFails, LineOK, Arrives, ThreadsOK, UartOK, Nothing, Threads
  <1>7. GhostsOK'
    BY <1>0 DEF AllocFails, ghosts, GhostsOK, LineOK, Arrives, Packets
  <1>8. ASSUME NEW d \in Chips PROVE SendOK(d)'
    BY <1>0 DEF AllocFails, threads, uart, ghosts, SendOK, UartOK, GhostsOK, Threads, None
  <1>9. ASSUME Prompt, NEW d \in Chips PROVE Flight(d)'
    <2>0. /\ Flight(d) /\ Flight(c) /\ Peer(d) \in Chips /\ Peer(c) \in Chips /\ Peer(c) # c
          /\ Peer(Peer(c)) = c /\ (d = c \/ d = Peer(c))
      BY <1>0, <1>9, TwoChips
    <2>a. Moving(d) => Moving(d)' /\ Id(d)' = Id(d)
      BY <1>0, <2>0 DEF AllocFails, threads, Moving, Id, Threads
    <2>b. dma'[d] = "tx" => dma[d] = "tx"
      BY <1>0, <2>0 DEF AllocFails, uart, UartOK, None
    <2>c. Live(Peer(d))' => Live(Peer(d)) /\ packet'[Peer(d)]["rx"] = packet[Peer(d)]["rx"]
      BY <1>0, <2>0 DEF AllocFails, threads, uart, UartOK, Live, None, Threads
    <2>d. handled[Peer(d)] \subseteq handled'[Peer(d)] /\ sem'[d] = sem[d]
      BY <1>0, <2>0 DEF AllocFails, wait, ghosts, WaitOK, GhostsOK
    <2>e. line' = line
      BY DEF AllocFails
    <2> QED BY <2>0, <2>a, <2>b, <2>c, <2>d, <2>e, Emptier
  <1> QED BY <1>1, <1>2, <1>3, <1>4, <1>5, <1>6, <1>7, <1>8, <1>9 DEF Inv, LocalInv

LEMMA HeapFailsInv == ASSUME Inv, NEW c \in Chips, HeapFails(c) PROVE Inv'
  <1>0. /\ ThreadsOK /\ BoxOK /\ ResendOK /\ UartOK /\ WaitOK /\ LineOK /\ GhostsOK
        /\ \A e \in Chips : SendOK(e)
        /\ Prompt => \A e \in Chips : Flight(e)
    BY DEF Inv, LocalInv
  <1>1. ThreadsOK'
    BY <1>0 DEF HeapFails, threads, ThreadsOK, Threads, Nothing, Packets
  <1>2. BoxOK'
    BY <1>0, ChipBridgeAssumption, TwoChips DEF HeapFails, box, BoxOK, Clients, Cmds, Packets, None, ThreadsOK
  <1>3. ResendOK'
    BY <1>0 DEF HeapFails, threads, box, wait, ResendOK, BoxOK, WaitOK, None, Threads
  <1>4. UartOK'
    BY <1>0 DEF HeapFails, uart, UartOK, Threads
  <1>5. WaitOK'
    BY <1>0, ChipBridgeAssumption DEF HeapFails, wait, WaitOK, ResendOK
  <1>6. LineOK'
    BY <1>0 DEF HeapFails, LineOK, Arrives, ThreadsOK, UartOK, Nothing, Threads
  <1>7. GhostsOK'
    BY <1>0 DEF HeapFails, ghosts, GhostsOK, LineOK, Arrives, Packets
  <1>8. ASSUME NEW d \in Chips PROVE SendOK(d)'
    BY <1>0 DEF HeapFails, threads, uart, ghosts, SendOK, UartOK, GhostsOK, Threads, None
  <1>9. ASSUME Prompt, NEW d \in Chips PROVE Flight(d)'
    <2>0. /\ Flight(d) /\ Flight(c) /\ Peer(d) \in Chips /\ Peer(c) \in Chips /\ Peer(c) # c
          /\ Peer(Peer(c)) = c /\ (d = c \/ d = Peer(c))
      BY <1>0, <1>9, TwoChips
    <2>a. Moving(d) => Moving(d)' /\ Id(d)' = Id(d)
      BY <1>0, <2>0 DEF HeapFails, threads, Moving, Id, Threads
    <2>b. dma'[d] = "tx" => dma[d] = "tx"
      BY <1>0, <2>0 DEF HeapFails, uart, UartOK, None
    <2>c. Live(Peer(d))' => Live(Peer(d)) /\ packet'[Peer(d)]["rx"] = packet[Peer(d)]["rx"]
      BY <1>0, <2>0 DEF HeapFails, threads, uart, UartOK, Live, None, Threads
    <2>d. handled[Peer(d)] \subseteq handled'[Peer(d)] /\ sem'[d] = sem[d]
      BY <1>0, <2>0 DEF HeapFails, wait, ghosts, WaitOK, GhostsOK
    <2>e. line' = line
      BY DEF HeapFails
    <2> QED BY <2>0, <2>a, <2>b, <2>c, <2>d, <2>e, Emptier
  <1> QED BY <1>1, <1>2, <1>3, <1>4, <1>5, <1>6, <1>7, <1>8, <1>9 DEF Inv, LocalInv

LEMMA LineErrorInv == ASSUME Inv, NEW c \in Chips, LineError(c) PROVE Inv'
  <1>0. /\ ThreadsOK /\ BoxOK /\ ResendOK /\ UartOK /\ WaitOK /\ LineOK /\ GhostsOK
        /\ \A e \in Chips : SendOK(e)
        /\ Prompt => \A e \in Chips : Flight(e)
    BY DEF Inv, LocalInv
  <1>1. ThreadsOK'
    BY <1>0 DEF LineError, BreakHandler, threads, ThreadsOK, Threads, Nothing, Packets
  <1>2. BoxOK'
    BY <1>0, ChipBridgeAssumption, TwoChips DEF LineError, BreakHandler, box, BoxOK, Clients, Cmds, Packets, None, ThreadsOK
  <1>3. ResendOK'
    BY <1>0 DEF LineError, BreakHandler, threads, box, wait, ResendOK, BoxOK, WaitOK, None, Threads
  <1>4. UartOK'
    BY <1>0 DEF LineError, BreakHandler, uart, UartOK, Threads
  <1>5. WaitOK'
    BY <1>0, ChipBridgeAssumption DEF LineError, BreakHandler, wait, WaitOK, ResendOK
  <1>6. LineOK'
    BY <1>0 DEF LineError, BreakHandler, LineOK, Arrives, ThreadsOK, UartOK, Nothing, Threads
  <1>7. GhostsOK'
    BY <1>0 DEF LineError, BreakHandler, ghosts, GhostsOK, LineOK, Arrives, Packets
  <1>8. ASSUME NEW d \in Chips PROVE SendOK(d)'
    BY <1>0 DEF LineError, BreakHandler, threads, uart, ghosts, SendOK, UartOK, GhostsOK, Threads, None
  <1>9. ASSUME Prompt, NEW d \in Chips PROVE Flight(d)'
    <2>0. /\ Flight(d) /\ Flight(c) /\ Peer(d) \in Chips /\ Peer(c) \in Chips /\ Peer(c) # c
          /\ Peer(Peer(c)) = c /\ (d = c \/ d = Peer(c))
      BY <1>0, <1>9, TwoChips
    <2>a. Moving(d) => Moving(d)' /\ Id(d)' = Id(d)
      BY <1>0, <2>0 DEF LineError, BreakHandler, threads, Moving, Id, Threads
    <2>b. dma'[d] = "tx" => dma[d] = "tx"
      BY <1>0, <2>0 DEF LineError, BreakHandler, uart, UartOK, None
    <2>c. Live(Peer(d))' => Live(Peer(d)) /\ packet'[Peer(d)]["rx"] = packet[Peer(d)]["rx"]
      BY <1>0, <2>0 DEF LineError, BreakHandler, threads, uart, UartOK, Live, None, Threads
    <2>d. handled[Peer(d)] \subseteq handled'[Peer(d)] /\ sem'[d] = sem[d]
      BY <1>0, <2>0 DEF LineError, BreakHandler, wait, ghosts, WaitOK, GhostsOK
    <2>e. line' = line
      BY DEF LineError, BreakHandler
    <2> QED BY <2>0, <2>a, <2>b, <2>c, <2>d, <2>e, Emptier
  <1> QED BY <1>1, <1>2, <1>3, <1>4, <1>5, <1>6, <1>7, <1>8, <1>9 DEF Inv, LocalInv

LEMMA EmptyTransferInv == ASSUME Inv, NEW c \in Chips, EmptyTransfer(c) PROVE Inv'
  <1>0. /\ ThreadsOK /\ BoxOK /\ ResendOK /\ UartOK /\ WaitOK /\ LineOK /\ GhostsOK
        /\ \A e \in Chips : SendOK(e)
        /\ Prompt => \A e \in Chips : Flight(e)
    BY DEF Inv, LocalInv
  <1>1. ThreadsOK'
    BY <1>0 DEF EmptyTransfer, BreakHandler, threads, ThreadsOK, Threads, Nothing, Packets
  <1>2. BoxOK'
    BY <1>0, ChipBridgeAssumption, TwoChips DEF EmptyTransfer, BreakHandler, box, BoxOK, Clients, Cmds, Packets, None, ThreadsOK
  <1>3. ResendOK'
    BY <1>0 DEF EmptyTransfer, BreakHandler, threads, box, wait, ResendOK, BoxOK, WaitOK, None, Threads
  <1>4. UartOK'
    BY <1>0 DEF EmptyTransfer, BreakHandler, uart, UartOK, Threads
  <1>5. WaitOK'
    BY <1>0, ChipBridgeAssumption DEF EmptyTransfer, BreakHandler, wait, WaitOK, ResendOK
  <1>6. LineOK'
    BY <1>0 DEF EmptyTransfer, BreakHandler, LineOK, Arrives, ThreadsOK, UartOK, Nothing, Threads
  <1>7. GhostsOK'
    BY <1>0 DEF EmptyTransfer, BreakHandler, ghosts, GhostsOK, LineOK, Arrives, Packets
  <1>8. ASSUME NEW d \in Chips PROVE SendOK(d)'
    BY <1>0 DEF EmptyTransfer, BreakHandler, threads, uart, ghosts, SendOK, UartOK, GhostsOK, Threads, None
  <1>9. ASSUME Prompt, NEW d \in Chips PROVE Flight(d)'
    <2>0. /\ Flight(d) /\ Flight(c) /\ Peer(d) \in Chips /\ Peer(c) \in Chips /\ Peer(c) # c
          /\ Peer(Peer(c)) = c /\ (d = c \/ d = Peer(c))
      BY <1>0, <1>9, TwoChips
    <2>a. Moving(d) => Moving(d)' /\ Id(d)' = Id(d)
      BY <1>0, <2>0 DEF EmptyTransfer, BreakHandler, threads, Moving, Id, Threads
    <2>b. dma'[d] = "tx" => dma[d] = "tx"
      BY <1>0, <2>0 DEF EmptyTransfer, BreakHandler, uart, UartOK, None
    <2>c. Live(Peer(d))' => Live(Peer(d)) /\ packet'[Peer(d)]["rx"] = packet[Peer(d)]["rx"]
      BY <1>0, <2>0 DEF EmptyTransfer, BreakHandler, threads, uart, UartOK, Live, None, Threads
    <2>d. handled[Peer(d)] \subseteq handled'[Peer(d)] /\ sem'[d] = sem[d]
      BY <1>0, <2>0 DEF EmptyTransfer, BreakHandler, wait, ghosts, WaitOK, GhostsOK
    <2>e. line' = line
      BY DEF EmptyTransfer, BreakHandler
    <2> QED BY <2>0, <2>a, <2>b, <2>c, <2>d, <2>e, Emptier
  <1> QED BY <1>1, <1>2, <1>3, <1>4, <1>5, <1>6, <1>7, <1>8, <1>9 DEF Inv, LocalInv

LEMMA SentInv == ASSUME Inv, NEW c \in Chips, Sent(c) PROVE Inv'
  <1>0. /\ ThreadsOK /\ BoxOK /\ ResendOK /\ UartOK /\ WaitOK /\ LineOK /\ GhostsOK
        /\ \A e \in Chips : SendOK(e)
        /\ Prompt => \A e \in Chips : Flight(e)
    BY DEF Inv, LocalInv
  <1>x. dma[c] \in Threads /\ (pc[c][dma[c]] = "sending" => packet[c][dma[c]] \in Packets)
    <2>1. dma[c] \in Threads
      BY <1>0 DEF Sent, UartOK
    <2> QED BY <1>0, <2>1 DEF ThreadsOK, Threads, Nothing
  <1>1. ThreadsOK'
    BY <1>0, <1>x DEF Sent, threads, ThreadsOK, Threads, Nothing, Packets
  <1>2. BoxOK'
    BY <1>0, ChipBridgeAssumption, TwoChips, <1>x DEF Sent, box, BoxOK, Clients, Cmds, Packets, None, ThreadsOK
  <1>3. ResendOK'
    BY <1>0, <1>x DEF Sent, threads, box, wait, ResendOK, BoxOK, WaitOK, None, Threads
  <1>4. UartOK'
    BY <1>0 DEF Sent, uart, UartOK, Threads
  <1>5. WaitOK'
    BY <1>0, ChipBridgeAssumption DEF Sent, wait, WaitOK, ResendOK
  <1>6. LineOK'
    BY <1>0, <1>x, TwoChips DEF Sent, LineOK
  <1>7. GhostsOK'
    BY <1>0, <1>x DEF Sent, ghosts, GhostsOK, LineOK, Arrives, Packets
  <1>8. ASSUME NEW d \in Chips PROVE SendOK(d)'
    BY <1>0, <1>x DEF Sent, threads, uart, ghosts, SendOK, UartOK, GhostsOK, Threads, None
  <1>9. ASSUME Prompt, NEW d \in Chips PROVE Flight(d)'
    <2>0. /\ Flight(d) /\ Flight(c) /\ Peer(d) \in Chips /\ Peer(c) \in Chips /\ Peer(c) # c
          /\ Peer(Peer(c)) = c /\ (d = c \/ d = Peer(c))
      BY <1>0, <1>9, TwoChips
    <2>p. /\ line[Peer(c)] \in Seq(Packets)
          /\ \/ line' = line
             \/ /\ pc[c][dma[c]] = "sending" /\ packet[c][dma[c]] \in Packets
                /\ line'[Peer(c)] = Append(line[Peer(c)], packet[c][dma[c]]) /\ line'[c] = line[c]
                /\ packet[c][dma[c]].type = IF dma[c] = "tx" THEN "cmd" ELSE "rsp"
      BY <1>0, <1>x, <2>0 DEF Sent, LineOK, ThreadsOK, Threads
    <2>1. CASE d = c /\ dma[c] = "tx" /\ line' # line
      <3>1. /\ Moving(c) /\ ~Has(line[Peer(c)], "cmd") /\ ~Live(Peer(c)) /\ ~Has(line[c], "rsp")
            /\ sem[c] = 0
        BY <2>0, <2>1 DEF Flight
      <3>2. Only(line'[Peer(c)], "cmd", Id(c))
        <4>1. packet[c]["tx"] \in Packets /\ line'[Peer(c)] = Append(line[Peer(c)], packet[c]["tx"])
          BY <2>p, <2>1
        <4>2. Only(Append(line[Peer(c)], packet[c]["tx"]), "cmd", packet[c]["tx"].id)
          BY <2>p, <3>1, <4>1, AppendHas
        <4> QED BY <4>1, <4>2 DEF Id
      <3>3. /\ Moving(c)' /\ Id(c)' = Id(c) /\ ~Live(Peer(c))' /\ sem'[c] = 0 /\ dma'[c] # "tx"
            /\ ~Has(line'[c], "rsp")
        BY <1>0, <2>0, <2>p, <2>1, <3>1 DEF Sent, threads, wait, UartOK, Moving, Id, Live, None
      <3> QED BY <2>1, <3>2, <3>3 DEF Flight
    <2>3. CASE d = Peer(c) /\ dma[c] = "rx" /\ line' # line
      <3>1. Live(c) /\ Peer(d) = c
        BY <2>0, <2>p, <2>3 DEF Live
      <3>2. /\ Moving(d) /\ packet[c]["rx"].id = Id(d) /\ Id(d) \in handled[c]
            /\ ~Has(line[d], "rsp") /\ sem[d] = 0 /\ dma[d] # "tx" /\ ~Has(line[c], "cmd")
        BY <2>0, <3>1 DEF Flight
      <3>3. Only(line'[d], "rsp", Id(d))
        <4>1. packet[c]["rx"] \in Packets /\ line'[d] = Append(line[d], packet[c]["rx"])
          BY <2>p, <2>3
        <4>2. Only(Append(line[d], packet[c]["rx"]), "rsp", packet[c]["rx"].id)
          BY <2>p, <2>3, <3>2, <4>1, AppendHas
        <4> QED BY <3>2, <4>1, <4>2
      <3>4. /\ Moving(d)' /\ Id(d)' = Id(d) /\ ~Live(c)' /\ sem'[d] = 0 /\ dma'[d] # "tx"
            /\ Id(d) \in handled'[c] /\ ~Has(line'[c], "cmd")
        BY <1>0, <2>0, <2>p, <2>3, <3>2 DEF Sent, threads, wait, ghosts, UartOK, Moving, Id, Live, None
      <3> QED BY <3>1, <3>3, <3>4 DEF Flight
    <2>2. CASE ~(d = c /\ dma[c] = "tx" /\ line' # line) /\ ~(d = Peer(c) /\ dma[c] = "rx" /\ line' # line)
      <3>a. Moving(d) => Moving(d)' /\ Id(d)' = Id(d)
        BY <1>0, <2>0, <1>x, <2>2 DEF Sent, threads, Moving, Id, Threads
      <3>b. dma'[d] = "tx" => dma[d] = "tx"
        BY <1>0, <2>0, <1>x, <2>2 DEF Sent, uart, UartOK, None
      <3>c. Live(Peer(d))' => Live(Peer(d)) /\ packet'[Peer(d)]["rx"] = packet[Peer(d)]["rx"]
        BY <1>0, <2>0, <1>x, <2>2 DEF Sent, threads, uart, UartOK, Live, None, Threads
      <3>d. handled[Peer(d)] \subseteq handled'[Peer(d)] /\ sem'[d] = sem[d]
        BY <1>0, <2>0, <2>2 DEF Sent, wait, ghosts, WaitOK, GhostsOK
      <3>e. /\ Has(line'[Peer(d)], "cmd") => Has(line[Peer(d)], "cmd")
            /\ Only(line[Peer(d)], "cmd", Id(d)) => Only(line'[Peer(d)], "cmd", Id(d))
            /\ Has(line'[d], "rsp") => Has(line[d], "rsp")
            /\ Only(line[d], "rsp", Id(d)) => Only(line'[d], "rsp", Id(d))
        <4>1. CASE line' = line
          BY <4>1
        <4>2. CASE line' # line /\ d = c
          <5>1. packet[c][dma[c]].type # "cmd" /\ Peer(d) = Peer(c)
            BY <1>x, <2>p, <2>2, <4>2 DEF Threads
          <5>2. packet[c][dma[c]] \in Packets /\ line'[Peer(c)] = Append(line[Peer(c)], packet[c][dma[c]])
                /\ line'[c] = line[c]
            BY <2>p, <4>2
          <5>3. /\ Has(line'[Peer(c)], "cmd") => Has(line[Peer(c)], "cmd")
                /\ Only(line[Peer(c)], "cmd", Id(d)) => Only(line'[Peer(c)], "cmd", Id(d))
            <6> DEFINE p == packet[c][dma[c]]
                       s == line[Peer(c)]
            <6>1. p \in Packets /\ s \in Seq(Packets) /\ p.type # "cmd"
              BY <2>p, <5>1, <5>2
            <6> HIDE DEF p, s
            <6>2. /\ Has(Append(s, p), "cmd") <=> Has(s, "cmd")
                  /\ Only(s, "cmd", Id(d)) => Only(Append(s, p), "cmd", Id(d))
              BY <6>1, AppendHas
            <6> QED BY <5>2, <6>2 DEF p, s
          <5> QED BY <4>2, <5>1, <5>2, <5>3
        <4>3. CASE line' # line /\ d = Peer(c)
          <5>1. packet[c][dma[c]].type # "rsp" /\ Peer(d) = c
            BY <1>x, <2>0, <2>p, <2>2, <4>3 DEF Threads
          <5>2. packet[c][dma[c]] \in Packets /\ line'[Peer(c)] = Append(line[Peer(c)], packet[c][dma[c]])
                /\ line'[c] = line[c]
            BY <2>p, <4>3
          <5>3. /\ Has(line'[Peer(c)], "rsp") => Has(line[Peer(c)], "rsp")
                /\ Only(line[Peer(c)], "rsp", Id(d)) => Only(line'[Peer(c)], "rsp", Id(d))
            <6> DEFINE p == packet[c][dma[c]]
                       s == line[Peer(c)]
            <6>1. p \in Packets /\ s \in Seq(Packets) /\ p.type # "rsp"
              BY <2>p, <5>1, <5>2
            <6> HIDE DEF p, s
            <6>2. /\ Has(Append(s, p), "rsp") <=> Has(s, "rsp")
                  /\ Only(s, "rsp", Id(d)) => Only(Append(s, p), "rsp", Id(d))
              BY <6>1, AppendHas
            <6> QED BY <5>2, <6>2 DEF p, s
          <5> QED BY <4>3, <5>1, <5>2, <5>3
        <4> QED BY <2>0, <4>1, <4>2, <4>3
      <3> QED BY <2>0, <3>a, <3>b, <3>c, <3>d, <3>e, Emptier
    <2> QED BY <2>0, <2>1, <2>2, <2>3, <1>x DEF Threads
  <1> QED BY <1>1, <1>2, <1>3, <1>4, <1>5, <1>6, <1>7, <1>8, <1>9 DEF Inv, LocalInv

LEMMA SetIdInv == ASSUME Inv, NEW c \in Chips, NEW t \in Threads, SetId(c, t) PROVE Inv'
  <1>0. /\ ThreadsOK /\ BoxOK /\ ResendOK /\ UartOK /\ WaitOK /\ LineOK /\ GhostsOK
        /\ \A e \in Chips : SendOK(e)
        /\ Prompt => \A e \in Chips : Flight(e)
    BY DEF Inv, LocalInv
  <1>p. /\ ~failed
        /\ pc' \in [Chips -> [Threads -> Places]]
        /\ pc[c][t] = "begin" /\ pc'[c][t] = "start"
        /\ \A d \in Chips, u \in Threads : d # c \/ u # t => pc'[d][u] = pc[d][u]
    BY <1>0, StepTo DEF SetId, Places, Threads
  <1>1. ThreadsOK'
    BY <1>0, <1>p DEF SetId, threads, ThreadsOK, Threads, Nothing, Packets
  <1>2. BoxOK'
    BY <1>0, ChipBridgeAssumption, TwoChips, <1>p DEF SetId, box, BoxOK, Clients, Cmds, Packets, None, ThreadsOK
  <1>3. ResendOK'
    BY <1>0, <1>p DEF SetId, threads, box, wait, ResendOK, BoxOK, WaitOK, None, Threads
  <1>4. UartOK'
    BY <1>0 DEF SetId, uart, UartOK, Threads
  <1>5. WaitOK'
    BY <1>0, ChipBridgeAssumption DEF SetId, wait, WaitOK, ResendOK
  <1>6. LineOK'
    BY <1>0, <1>p DEF SetId, LineOK, Arrives, ThreadsOK, UartOK, Nothing, Threads
  <1>7. GhostsOK'
    BY <1>0, <1>p DEF SetId, ghosts, GhostsOK, LineOK, Arrives, Packets
  <1>u. /\ UNCHANGED <<dma, signals, deaf, broken>>
        /\ \A e \in Chips : e # c => UNCHANGED <<dma_tx_thread_id[e], collided[e]>>
        /\ dma_tx_thread_id'[c] = t
        /\ ~collided'[c] => ~collided[c] /\ \A u \in Threads \ {t} : pc[c][u] \notin {"start", "sending"}
    BY <1>0 DEF SetId, UartOK, GhostsOK
  <1>8. ASSUME NEW d \in Chips PROVE SendOK(d)'
    <2>1. CASE d = c
      BY <1>0, <1>p, <1>u, <2>1 DEF SendOK, Threads, UartOK, None
    <2>2. CASE d # c
      BY <1>0, <1>p, <1>u, <2>2 DEF SendOK, Threads
    <2> QED BY <2>1, <2>2
  <1>9. ASSUME Prompt, NEW d \in Chips PROVE Flight(d)'
    <2>0. /\ Flight(d) /\ Flight(c) /\ Peer(d) \in Chips /\ Peer(c) \in Chips /\ Peer(c) # c
          /\ Peer(Peer(c)) = c /\ (d = c \/ d = Peer(c))
      BY <1>0, <1>9, TwoChips
    <2>a. Moving(d) => Moving(d)' /\ Id(d)' = Id(d)
      BY <1>0, <2>0, <1>p DEF SetId, threads, Moving, Id, Threads
    <2>b. dma'[d] = "tx" => dma[d] = "tx"
      BY <1>0, <2>0, <1>p DEF SetId, uart, UartOK, None
    <2>c. Live(Peer(d))' => Live(Peer(d)) /\ packet'[Peer(d)]["rx"] = packet[Peer(d)]["rx"]
      BY <1>0, <2>0, <1>p DEF SetId, threads, uart, UartOK, Live, None, Threads
    <2>d. handled[Peer(d)] \subseteq handled'[Peer(d)] /\ sem'[d] = sem[d]
      BY <1>0, <2>0 DEF SetId, wait, ghosts, WaitOK, GhostsOK
    <2>e. line' = line
      BY DEF SetId
    <2> QED BY <2>0, <2>a, <2>b, <2>c, <2>d, <2>e, Emptier
  <1> QED BY <1>1, <1>2, <1>3, <1>4, <1>5, <1>6, <1>7, <1>8, <1>9 DEF Inv, LocalInv

LEMMA StartInv == ASSUME Inv, NEW c \in Chips, NEW t \in Threads, Start(c, t) PROVE Inv'
  <1>0. /\ ThreadsOK /\ BoxOK /\ ResendOK /\ UartOK /\ WaitOK /\ LineOK /\ GhostsOK
        /\ \A e \in Chips : SendOK(e)
        /\ Prompt => \A e \in Chips : Flight(e)
    BY DEF Inv, LocalInv
  <1>p. /\ ~failed
        /\ pc' \in [Chips -> [Threads -> Places]]
        /\ pc[c][t] = "start" /\ pc'[c][t] = "sending"
        /\ \A d \in Chips, u \in Threads : d # c \/ u # t => pc'[d][u] = pc[d][u]
    BY <1>0, StepTo DEF Start, Places, Threads
  <1>1. ThreadsOK'
    BY <1>0, <1>p DEF Start, threads, ThreadsOK, Threads, Nothing, Packets
  <1>2. BoxOK'
    BY <1>0, ChipBridgeAssumption, TwoChips, <1>p DEF Start, box, BoxOK, Clients, Cmds, Packets, None, ThreadsOK
  <1>3. ResendOK'
    BY <1>0, <1>p DEF Start, threads, box, wait, ResendOK, BoxOK, WaitOK, None, Threads
  <1>4. UartOK'
    BY <1>0 DEF Start, uart, UartOK, Threads
  <1>5. WaitOK'
    BY <1>0, ChipBridgeAssumption DEF Start, wait, WaitOK, ResendOK
  <1>6. LineOK'
    BY <1>0, <1>p DEF Start, LineOK, Arrives, ThreadsOK, UartOK, Nothing, Threads
  <1>7. GhostsOK'
    BY <1>0, <1>p DEF Start, ghosts, GhostsOK, LineOK, Arrives, Packets
  <1>8. ASSUME NEW d \in Chips PROVE SendOK(d)'
    BY <1>0, <1>p DEF Start, threads, uart, ghosts, SendOK, UartOK, GhostsOK, Threads, None
  <1>9. ASSUME Prompt, NEW d \in Chips PROVE Flight(d)'
    <2>0. /\ Flight(d) /\ Flight(c) /\ Peer(d) \in Chips /\ Peer(c) \in Chips /\ Peer(c) # c
          /\ Peer(Peer(c)) = c /\ (d = c \/ d = Peer(c))
      BY <1>0, <1>9, TwoChips
    <2>1. CASE t = "tx" /\ d = c
      <3>1. ~Moving(c) /\ Moving(c)'
        BY <1>p, <2>1 DEF Moving
      <3>2. ~Live(Peer(c))' /\ line' = line /\ sem' = sem /\ sem[c] = 0 /\ ~Live(Peer(c))
        BY <1>0, <1>p, <2>0, <2>1, <3>1 DEF Start, wait, threads, Live, Flight, UartOK, WaitOK, Threads
      <3>3. ~Has(line[Peer(c)], "cmd") /\ ~Has(line[c], "rsp")
        BY <2>0, <3>1 DEF Flight
      <3> QED BY <2>1, <3>1, <3>2, <3>3 DEF Flight
    <2>2. CASE ~(t = "tx" /\ d = c)
      <3>a. Moving(d) => Moving(d)' /\ Id(d)' = Id(d)
        BY <1>0, <2>0, <1>p, <2>2 DEF Start, threads, Moving, Id, Threads
      <3>b. dma'[d] = "tx" => dma[d] = "tx"
        BY <1>0, <2>0, <1>p, <2>2 DEF Start, uart, UartOK, None
      <3>c. Live(Peer(d))' => Live(Peer(d)) /\ packet'[Peer(d)]["rx"] = packet[Peer(d)]["rx"]
        BY <1>0, <2>0, <1>p, <2>2 DEF Start, threads, uart, UartOK, Live, None, Threads
      <3>d. handled[Peer(d)] \subseteq handled'[Peer(d)] /\ sem'[d] = sem[d]
        BY <1>0, <2>0, <2>2 DEF Start, wait, ghosts, WaitOK, GhostsOK
      <3>e. line' = line
        BY DEF Start
      <3> QED BY <2>0, <3>a, <3>b, <3>c, <3>d, <3>e, Emptier
    <2> QED BY <2>0, <2>1, <2>2
  <1> QED BY <1>1, <1>2, <1>3, <1>4, <1>5, <1>6, <1>7, <1>8, <1>9 DEF Inv, LocalInv

LEMMA SendReturnsInv == ASSUME Inv, NEW c \in Chips, NEW t \in Threads, SendReturns(c, t) PROVE Inv'
  <1>0. /\ ThreadsOK /\ BoxOK /\ ResendOK /\ UartOK /\ WaitOK /\ LineOK /\ GhostsOK
        /\ \A e \in Chips : SendOK(e)
        /\ Prompt => \A e \in Chips : Flight(e)
    BY DEF Inv, LocalInv
  <1>p. /\ ~failed
        /\ pc' \in [Chips -> [Threads -> Places]]
        /\ pc[c][t] = "sending" /\ pc'[c][t] = IF t = "tx" THEN "wait" ELSE "idle"
        /\ \A d \in Chips, u \in Threads : d # c \/ u # t => pc'[d][u] = pc[d][u]
    BY <1>0, StepTo DEF SendReturns, Leaves, Places
  <1>q. /\ packet' \in [Chips -> [Threads -> Packets \cup {Nothing}]]
        /\ packet'[c][t] = IF t = "tx" THEN packet[c][t] ELSE Nothing
        /\ \A d \in Chips, u \in Threads : d # c \/ u # t => packet'[d][u] = packet[d][u]
    BY <1>0, PacketTo DEF SendReturns, Leaves, ThreadsOK
  <1>1. ThreadsOK'
    <2>1. CASE t = "tx"
      <3>1. pc'[c]["tx"] = "wait" /\ packet'[c]["tx"] = packet[c]["tx"] /\ pc[c]["tx"] = "sending"
        BY <1>p, <1>q, <2>1
      <3>2. \A d \in Chips : /\ pc'[d]["rx"] = pc[d]["rx"] /\ packet'[d]["rx"] = packet[d]["rx"]
                             /\ d # c => pc'[d]["tx"] = pc[d]["tx"] /\ packet'[d]["tx"] = packet[d]["tx"]
        BY <1>p, <1>q, <2>1 DEF Threads
      <3>3. ASSUME NEW d \in Chips
            PROVE  /\ pc'[d]["rx"] \in {"idle", "begin", "start", "sending"}
                   /\ packet'[d]["tx"].type = IF pc'[d]["tx"] = "idle" THEN "none" ELSE "cmd"
                   /\ packet'[d]["rx"].type = IF pc'[d]["rx"] = "idle" THEN "none" ELSE "rsp"
        <4>1. CASE d = c
          BY <1>0, <3>1, <3>2, <4>1 DEF ThreadsOK
        <4>2. CASE d # c
          BY <1>0, <3>2, <4>2 DEF ThreadsOK
        <4> QED BY <4>1, <4>2
      <3> QED BY <1>p, <1>q, <3>3 DEF ThreadsOK
    <2>2. CASE t = "rx"
      <3>1. pc'[c]["rx"] = "idle" /\ packet'[c]["rx"] = Nothing /\ Nothing.type = "none"
        BY <1>p, <1>q, <2>2 DEF Nothing
      <3>2. \A d \in Chips : /\ pc'[d]["tx"] = pc[d]["tx"] /\ packet'[d]["tx"] = packet[d]["tx"]
                             /\ d # c => pc'[d]["rx"] = pc[d]["rx"] /\ packet'[d]["rx"] = packet[d]["rx"]
        BY <1>p, <1>q, <2>2 DEF Threads
      <3>3. ASSUME NEW d \in Chips
            PROVE  /\ pc'[d]["rx"] \in {"idle", "begin", "start", "sending"}
                   /\ packet'[d]["tx"].type = IF pc'[d]["tx"] = "idle" THEN "none" ELSE "cmd"
                   /\ packet'[d]["rx"].type = IF pc'[d]["rx"] = "idle" THEN "none" ELSE "rsp"
        <4>1. CASE d = c
          BY <1>0, <3>1, <3>2, <4>1 DEF ThreadsOK
        <4>2. CASE d # c
          BY <1>0, <3>2, <4>2 DEF ThreadsOK
        <4> QED BY <4>1, <4>2
      <3> QED BY <1>p, <1>q, <3>3 DEF ThreadsOK
    <2> QED BY <2>1, <2>2 DEF Threads
  <1>2. BoxOK'
    BY <1>0, ChipBridgeAssumption, TwoChips, <1>p, <1>q DEF SendReturns, box, BoxOK, Clients, Cmds, Packets, None, ThreadsOK
  <1>3. ResendOK'
    BY <1>0, <1>p, <1>q DEF SendReturns, threads, box, wait, ResendOK, BoxOK, WaitOK, None, Threads
  <1>4. UartOK'
    BY <1>0 DEF SendReturns, uart, UartOK, Threads
  <1>5. WaitOK'
    BY <1>0, ChipBridgeAssumption DEF SendReturns, wait, WaitOK, ResendOK
  <1>6. LineOK'
    BY <1>0, <1>p, <1>q DEF SendReturns, LineOK, Arrives, ThreadsOK, UartOK, Nothing, Threads
  <1>7. GhostsOK'
    BY <1>0, <1>p, <1>q DEF SendReturns, ghosts, GhostsOK, LineOK, Arrives, Packets
  <1>8. ASSUME NEW d \in Chips PROVE SendOK(d)'
    BY <1>0, <1>p, <1>q DEF SendReturns, threads, uart, ghosts, SendOK, UartOK, GhostsOK, Threads, None
  <1>9. ASSUME Prompt, NEW d \in Chips PROVE Flight(d)'
    <2>0. /\ Flight(d) /\ Flight(c) /\ Peer(d) \in Chips /\ Peer(c) \in Chips /\ Peer(c) # c
          /\ Peer(Peer(c)) = c /\ (d = c \/ d = Peer(c))
      BY <1>0, <1>9, TwoChips
    <2>a. Moving(d) => Moving(d)' /\ Id(d)' = Id(d)
      BY <1>0, <2>0, <1>p, <1>q DEF SendReturns, threads, Moving, Id, Threads
    <2>b. dma'[d] = "tx" => dma[d] = "tx"
      BY <1>0, <2>0, <1>p, <1>q DEF SendReturns, uart, UartOK, None
    <2>c. Live(Peer(d))' => Live(Peer(d)) /\ packet'[Peer(d)]["rx"] = packet[Peer(d)]["rx"]
      BY <1>0, <2>0, <1>p, <1>q DEF SendReturns, threads, uart, UartOK, Live, None, Threads
    <2>d. handled[Peer(d)] \subseteq handled'[Peer(d)] /\ sem'[d] = sem[d]
      BY <1>0, <2>0 DEF SendReturns, wait, ghosts, WaitOK, GhostsOK
    <2>e. line' = line
      BY DEF SendReturns
    <2> QED BY <2>0, <2>a, <2>b, <2>c, <2>d, <2>e, Emptier
  <1> QED BY <1>1, <1>2, <1>3, <1>4, <1>5, <1>6, <1>7, <1>8, <1>9 DEF Inv, LocalInv

LEMMA SendTimesOutInv == ASSUME Inv, NEW c \in Chips, NEW t \in Threads, SendTimesOut(c, t) PROVE Inv'
  <1>0. /\ ThreadsOK /\ BoxOK /\ ResendOK /\ UartOK /\ WaitOK /\ LineOK /\ GhostsOK
        /\ \A e \in Chips : SendOK(e)
        /\ Prompt => \A e \in Chips : Flight(e)
    BY DEF Inv, LocalInv
  <1>p. /\ ~failed
        /\ pc' \in [Chips -> [Threads -> Places]]
        /\ pc[c][t] = "sending" /\ pc'[c][t] = IF t = "tx" THEN "wait" ELSE "idle"
        /\ \A d \in Chips, u \in Threads : d # c \/ u # t => pc'[d][u] = pc[d][u]
    BY <1>0, StepTo DEF SendTimesOut, Leaves, Places
  <1>q. /\ packet' \in [Chips -> [Threads -> Packets \cup {Nothing}]]
        /\ packet'[c][t] = IF t = "tx" THEN packet[c][t] ELSE Nothing
        /\ \A d \in Chips, u \in Threads : d # c \/ u # t => packet'[d][u] = packet[d][u]
    BY <1>0, PacketTo DEF SendTimesOut, Leaves, ThreadsOK
  <1>1. ThreadsOK'
    <2>1. CASE t = "tx"
      <3>1. pc'[c]["tx"] = "wait" /\ packet'[c]["tx"] = packet[c]["tx"] /\ pc[c]["tx"] = "sending"
        BY <1>p, <1>q, <2>1
      <3>2. \A d \in Chips : /\ pc'[d]["rx"] = pc[d]["rx"] /\ packet'[d]["rx"] = packet[d]["rx"]
                             /\ d # c => pc'[d]["tx"] = pc[d]["tx"] /\ packet'[d]["tx"] = packet[d]["tx"]
        BY <1>p, <1>q, <2>1 DEF Threads
      <3>3. ASSUME NEW d \in Chips
            PROVE  /\ pc'[d]["rx"] \in {"idle", "begin", "start", "sending"}
                   /\ packet'[d]["tx"].type = IF pc'[d]["tx"] = "idle" THEN "none" ELSE "cmd"
                   /\ packet'[d]["rx"].type = IF pc'[d]["rx"] = "idle" THEN "none" ELSE "rsp"
        <4>1. CASE d = c
          BY <1>0, <3>1, <3>2, <4>1 DEF ThreadsOK
        <4>2. CASE d # c
          BY <1>0, <3>2, <4>2 DEF ThreadsOK
        <4> QED BY <4>1, <4>2
      <3> QED BY <1>p, <1>q, <3>3 DEF ThreadsOK
    <2>2. CASE t = "rx"
      <3>1. pc'[c]["rx"] = "idle" /\ packet'[c]["rx"] = Nothing /\ Nothing.type = "none"
        BY <1>p, <1>q, <2>2 DEF Nothing
      <3>2. \A d \in Chips : /\ pc'[d]["tx"] = pc[d]["tx"] /\ packet'[d]["tx"] = packet[d]["tx"]
                             /\ d # c => pc'[d]["rx"] = pc[d]["rx"] /\ packet'[d]["rx"] = packet[d]["rx"]
        BY <1>p, <1>q, <2>2 DEF Threads
      <3>3. ASSUME NEW d \in Chips
            PROVE  /\ pc'[d]["rx"] \in {"idle", "begin", "start", "sending"}
                   /\ packet'[d]["tx"].type = IF pc'[d]["tx"] = "idle" THEN "none" ELSE "cmd"
                   /\ packet'[d]["rx"].type = IF pc'[d]["rx"] = "idle" THEN "none" ELSE "rsp"
        <4>1. CASE d = c
          BY <1>0, <3>1, <3>2, <4>1 DEF ThreadsOK
        <4>2. CASE d # c
          BY <1>0, <3>2, <4>2 DEF ThreadsOK
        <4> QED BY <4>1, <4>2
      <3> QED BY <1>p, <1>q, <3>3 DEF ThreadsOK
    <2> QED BY <2>1, <2>2 DEF Threads
  <1>2. BoxOK'
    BY <1>0, ChipBridgeAssumption, TwoChips, <1>p, <1>q DEF SendTimesOut, box, BoxOK, Clients, Cmds, Packets, None, ThreadsOK
  <1>3. ResendOK'
    BY <1>0, <1>p, <1>q DEF SendTimesOut, threads, box, wait, ResendOK, BoxOK, WaitOK, None, Threads
  <1>4. UartOK'
    BY <1>0 DEF SendTimesOut, uart, UartOK, Threads
  <1>5. WaitOK'
    BY <1>0, ChipBridgeAssumption DEF SendTimesOut, wait, WaitOK, ResendOK
  <1>6. LineOK'
    BY <1>0, <1>p, <1>q DEF SendTimesOut, LineOK, Arrives, ThreadsOK, UartOK, Nothing, Threads
  <1>7. GhostsOK'
    BY <1>0, <1>p, <1>q DEF SendTimesOut, ghosts, GhostsOK, LineOK, Arrives, Packets
  <1>8. ASSUME NEW d \in Chips PROVE SendOK(d)'
    BY <1>0, <1>p, <1>q DEF SendTimesOut, threads, uart, ghosts, SendOK, UartOK, GhostsOK, Threads, None
  <1>9. ASSUME Prompt, NEW d \in Chips PROVE Flight(d)'
    <2>0. /\ Flight(d) /\ Flight(c) /\ Peer(d) \in Chips /\ Peer(c) \in Chips /\ Peer(c) # c
          /\ Peer(Peer(c)) = c /\ (d = c \/ d = Peer(c))
      BY <1>0, <1>9, TwoChips
    <2>a. Moving(d) => Moving(d)' /\ Id(d)' = Id(d)
      BY <1>0, <2>0, <1>p, <1>q DEF SendTimesOut, threads, Moving, Id, Threads
    <2>b. dma'[d] = "tx" => dma[d] = "tx"
      BY <1>0, <2>0, <1>p, <1>q DEF SendTimesOut, uart, UartOK, None
    <2>c. Live(Peer(d))' => Live(Peer(d)) /\ packet'[Peer(d)]["rx"] = packet[Peer(d)]["rx"]
      BY <1>0, <2>0, <1>p, <1>q DEF SendTimesOut, threads, uart, UartOK, Live, None, Threads
    <2>d. handled[Peer(d)] \subseteq handled'[Peer(d)] /\ sem'[d] = sem[d]
      BY <1>0, <2>0 DEF SendTimesOut, wait, ghosts, WaitOK, GhostsOK
    <2>e. line' = line
      BY DEF SendTimesOut
    <2> QED BY <2>0, <2>a, <2>b, <2>c, <2>d, <2>e, Emptier
  <1> QED BY <1>1, <1>2, <1>3, <1>4, <1>5, <1>6, <1>7, <1>8, <1>9 DEF Inv, LocalInv

LEMMA GetInv == ASSUME Inv, NEW c \in Chips, Get(c) PROVE Inv'
  <1>0. /\ ThreadsOK /\ BoxOK /\ ResendOK /\ UartOK /\ WaitOK /\ LineOK /\ GhostsOK
        /\ \A e \in Chips : SendOK(e)
        /\ Prompt => \A e \in Chips : Flight(e)
    BY DEF Inv, LocalInv
  <1>p. /\ ~failed
        /\ pc' \in [Chips -> [Threads -> Places]]
        /\ pc[c]["tx"] = "idle" /\ pc'[c]["tx"] = "begin"
        /\ \A d \in Chips, u \in Threads : d # c \/ u # "tx" => pc'[d][u] = pc[d][u]
    BY <1>0, StepTo DEF Get, Places, Threads
  <1>h. [type |-> "cmd", id |-> Head(mail[c])] \in Packets
    BY <1>0 DEF Get, Arrives, BoxOK, LineOK, Packets
  <1>q. /\ packet' \in [Chips -> [Threads -> Packets \cup {Nothing}]]
        /\ packet'[c]["tx"] = [type |-> "cmd", id |-> Head(mail[c])]
        /\ \A d \in Chips, u \in Threads : d # c \/ u # "tx" => packet'[d][u] = packet[d][u]
    BY <1>0, <1>h, PacketTo DEF Get, Threads
  <1>1. ThreadsOK'
    BY <1>0, <1>p, <1>h, <1>q DEF Get, threads, ThreadsOK, Threads, Nothing, Packets
  <1>2. BoxOK'
    BY <1>0, ChipBridgeAssumption, TwoChips, <1>p, <1>h, <1>q DEF Get, box, BoxOK, Clients, Cmds, Packets, None, ThreadsOK
  <1>m. UNCHANGED mutex /\ UNCHANGED resend_time
    BY DEF Get, box, wait
  <1>3. ResendOK'
    BY <1>0, <1>p, <1>m DEF ResendOK, Threads
  <1>4. UartOK'
    BY <1>0 DEF Get, uart, UartOK, Threads
  <1>5. WaitOK'
    BY <1>0, ChipBridgeAssumption DEF Get, wait, WaitOK, ResendOK
  <1>6. LineOK'
    BY <1>0, <1>p, <1>h, <1>q DEF Get, LineOK, Arrives, ThreadsOK, UartOK, Nothing, Threads
  <1>7. GhostsOK'
    BY <1>0, <1>p, <1>h, <1>q DEF Get, ghosts, GhostsOK, LineOK, Arrives, Packets
  <1>u. UNCHANGED <<dma_tx_thread_id, dma, signals, deaf, collided, broken>>
    BY DEF Get, uart, ghosts
  <1>8. ASSUME NEW d \in Chips PROVE SendOK(d)'
    BY <1>0, <1>p, <1>u DEF SendOK, Threads
  <1>9. ASSUME Prompt, NEW d \in Chips PROVE Flight(d)'
    <2>0. /\ Flight(d) /\ Flight(c) /\ Peer(d) \in Chips /\ Peer(c) \in Chips /\ Peer(c) # c
          /\ Peer(Peer(c)) = c /\ (d = c \/ d = Peer(c))
      BY <1>0, <1>9, TwoChips
    <2>a. Moving(d) => Moving(d)' /\ Id(d)' = Id(d)
      BY <1>0, <2>0, <1>p, <1>h, <1>q DEF Get, threads, Moving, Id, Threads
    <2>b. dma'[d] = "tx" => dma[d] = "tx"
      BY <1>0, <2>0, <1>p, <1>h, <1>q DEF Get, uart, UartOK, None
    <2>c. Live(Peer(d))' => Live(Peer(d)) /\ packet'[Peer(d)]["rx"] = packet[Peer(d)]["rx"]
      BY <1>0, <2>0, <1>p, <1>h, <1>q DEF Get, threads, uart, UartOK, Live, None, Threads
    <2>d. handled[Peer(d)] \subseteq handled'[Peer(d)] /\ sem'[d] = sem[d]
      BY <1>0, <2>0 DEF Get, wait, ghosts, WaitOK, GhostsOK
    <2>e. line' = line
      BY DEF Get
    <2> QED BY <2>0, <2>a, <2>b, <2>c, <2>d, <2>e, Emptier
  <1> QED BY <1>1, <1>2, <1>3, <1>4, <1>5, <1>6, <1>7, <1>8, <1>9 DEF Inv, LocalInv

LEMMA AnsweredInv == ASSUME Inv, NEW c \in Chips, Answered(c) PROVE Inv'
  <1>0. /\ ThreadsOK /\ BoxOK /\ ResendOK /\ UartOK /\ WaitOK /\ LineOK /\ GhostsOK
        /\ \A e \in Chips : SendOK(e)
        /\ Prompt => \A e \in Chips : Flight(e)
    BY DEF Inv, LocalInv
  <1>p. /\ ~failed
        /\ pc' \in [Chips -> [Threads -> Places]]
        /\ pc[c]["tx"] = "wait" /\ pc'[c]["tx"] = "free"
        /\ \A d \in Chips, u \in Threads : d # c \/ u # "tx" => pc'[d][u] = pc[d][u]
    BY <1>0, StepTo DEF Answered, Places, Threads
  <1>1. ThreadsOK'
    BY <1>0, <1>p DEF Answered, threads, ThreadsOK, Threads, Nothing, Packets
  <1>2. BoxOK'
    BY <1>0, ChipBridgeAssumption, TwoChips, <1>p DEF Answered, box, BoxOK, Clients, Cmds, Packets, None, ThreadsOK
  <1>3. ResendOK'
    BY <1>0, <1>p DEF Answered, threads, box, wait, ResendOK, BoxOK, WaitOK, None, Threads
  <1>4. UartOK'
    BY <1>0 DEF Answered, uart, UartOK, Threads
  <1>5. WaitOK'
    BY <1>0, ChipBridgeAssumption DEF Answered, wait, WaitOK, ResendOK
  <1>6. LineOK'
    BY <1>0, <1>p DEF Answered, LineOK, Arrives, ThreadsOK, UartOK, Nothing, Threads
  <1>7. GhostsOK'
    BY <1>0, <1>p DEF Answered, ghosts, GhostsOK, LineOK, Arrives, Packets
  <1>8. ASSUME NEW d \in Chips PROVE SendOK(d)'
    BY <1>0, <1>p DEF Answered, threads, uart, ghosts, SendOK, UartOK, GhostsOK, Threads, None
  <1>9. ASSUME Prompt, NEW d \in Chips PROVE Flight(d)'
    <2>0. /\ Flight(d) /\ Flight(c) /\ Peer(d) \in Chips /\ Peer(c) \in Chips /\ Peer(c) # c
          /\ Peer(Peer(c)) = c /\ (d = c \/ d = Peer(c))
      BY <1>0, <1>9, TwoChips
    <2>1. CASE d = c
      <3>1. sem[c] = 1 /\ sem'[c] = 0
        BY <1>0, <2>0 DEF Answered, Flight, WaitOK
      <3>2. dma'[c] # "tx" /\ line' = line /\ ~Live(Peer(c))'
        BY <1>0, <1>p, <2>0, <3>1 DEF Answered, uart, Live, Flight, Threads
      <3>3. ~Has(line[Peer(c)], "cmd") /\ ~Has(line[c], "rsp")
        BY <2>0, <3>1 DEF Flight
      <3> QED BY <2>1, <3>1, <3>2, <3>3, Emptied
    <2>2. CASE d # c
      <3>a. Moving(d) => Moving(d)' /\ Id(d)' = Id(d)
        BY <1>0, <2>0, <1>p, <2>2 DEF Answered, threads, Moving, Id, Threads
      <3>b. dma'[d] = "tx" => dma[d] = "tx"
        BY <1>0, <2>0, <1>p, <2>2 DEF Answered, uart, UartOK, None
      <3>c. Live(Peer(d))' => Live(Peer(d)) /\ packet'[Peer(d)]["rx"] = packet[Peer(d)]["rx"]
        BY <1>0, <2>0, <1>p, <2>2 DEF Answered, threads, uart, UartOK, Live, None, Threads
      <3>d. handled[Peer(d)] \subseteq handled'[Peer(d)] /\ sem'[d] = sem[d]
        BY <1>0, <2>0, <2>2 DEF Answered, wait, ghosts, WaitOK, GhostsOK
      <3>e. line' = line
        BY DEF Answered
      <3> QED BY <2>0, <3>a, <3>b, <3>c, <3>d, <3>e, Emptier
    <2> QED BY <2>0, <2>1, <2>2
  <1> QED BY <1>1, <1>2, <1>3, <1>4, <1>5, <1>6, <1>7, <1>8, <1>9 DEF Inv, LocalInv

LEMMA TimesOutInv == ASSUME Inv, NEW c \in Chips, TimesOut(c) PROVE Inv'
  <1>0. /\ ThreadsOK /\ BoxOK /\ ResendOK /\ UartOK /\ WaitOK /\ LineOK /\ GhostsOK
        /\ \A e \in Chips : SendOK(e)
        /\ Prompt => \A e \in Chips : Flight(e)
    BY DEF Inv, LocalInv
  <1>p. /\ ~failed
        /\ pc' \in [Chips -> [Threads -> Places]]
        /\ pc[c]["tx"] = "wait" /\ pc'[c]["tx"] = "timeout"
        /\ \A d \in Chips, u \in Threads : d # c \/ u # "tx" => pc'[d][u] = pc[d][u]
    BY <1>0, StepTo DEF TimesOut, Places, Threads
  <1>1. ThreadsOK'
    BY <1>0, <1>p DEF TimesOut, threads, ThreadsOK, Threads, Nothing, Packets
  <1>2. BoxOK'
    BY <1>0, ChipBridgeAssumption, TwoChips, <1>p DEF TimesOut, box, BoxOK, Clients, Cmds, Packets, None, ThreadsOK
  <1>3. ResendOK'
    BY <1>0, <1>p DEF TimesOut, threads, box, wait, ResendOK, BoxOK, WaitOK, None, Threads
  <1>4. UartOK'
    BY <1>0 DEF TimesOut, uart, UartOK, Threads
  <1>5. WaitOK'
    BY <1>0, ChipBridgeAssumption DEF TimesOut, wait, WaitOK, ResendOK
  <1>6. LineOK'
    BY <1>0, <1>p DEF TimesOut, LineOK, Arrives, ThreadsOK, UartOK, Nothing, Threads
  <1>7. GhostsOK'
    BY <1>0, <1>p DEF TimesOut, ghosts, GhostsOK, LineOK, Arrives, Packets
  <1>8. ASSUME NEW d \in Chips PROVE SendOK(d)'
    BY <1>0, <1>p DEF TimesOut, threads, uart, ghosts, SendOK, UartOK, GhostsOK, Threads, None
  <1>9. ASSUME Prompt, NEW d \in Chips PROVE Flight(d)'
    <2>0. /\ Flight(d) /\ Flight(c) /\ Peer(d) \in Chips /\ Peer(c) \in Chips /\ Peer(c) # c
          /\ Peer(Peer(c)) = c /\ (d = c \/ d = Peer(c))
      BY <1>0, <1>9, TwoChips
    <2>1. CASE d = c
      <3>1. ~OnItsWay(c) /\ line' = line /\ dma' = dma /\ sem'[c] = 0
        BY <1>0, <1>9 DEF TimesOut, uart, wait
      <3>2. dma[c] # "tx"
        BY <3>1 DEF OnItsWay
      <3>3. ~Has(line[Peer(c)], "cmd")
        <4>1. SUFFICES ASSUME NEW i \in DOMAIN line[Peer(c)], line[Peer(c)][i].type = "cmd"
                       PROVE  FALSE
          BY DEF Has
        <4>2. line[Peer(c)][i] \in Packets /\ line[Peer(c)][i].id = Id(c)
          BY <1>0, <2>0, <4>1 DEF LineOK, Has, Only, Flight
        <4>3. line[Peer(c)][i] = [type |-> "cmd", id |-> Id(c)]
          BY <4>1, <4>2 DEF Packets
        <4> QED BY <3>1, <4>1, <4>3 DEF OnItsWay, Id
      <3>4. ~Has(line[c], "rsp")
        <4>1. SUFFICES ASSUME NEW i \in DOMAIN line[c], line[c][i].type = "rsp"
                       PROVE  FALSE
          BY DEF Has
        <4>2. line[c][i] \in Packets /\ line[c][i].id = Id(c)
          BY <1>0, <2>0, <4>1 DEF LineOK, Has, Only, Flight
        <4>3. line[c][i] = [type |-> "rsp", id |-> Id(c)]
          BY <4>1, <4>2 DEF Packets
        <4> QED BY <3>1, <4>1, <4>3 DEF OnItsWay, Id
      <3>5. ~Live(Peer(c))
        <4>1. ASSUME Live(Peer(c)) PROVE packet[Peer(c)]["rx"] = [type |-> "rsp", id |-> Id(c)]
          BY <1>0, <2>0, <4>1 DEF Live, Flight, ThreadsOK, Threads, Packets, Nothing
        <4> QED BY <3>1, <4>1 DEF OnItsWay, Id
      <3>6. ~Live(Peer(c))'
        BY <1>0, <1>p, <2>0, <3>1, <3>5 DEF Live, Threads
      <3> QED BY <2>1, <3>1, <3>2, <3>3, <3>4, <3>6, Emptied
    <2>2. CASE d # c
      <3>a. Moving(d) => Moving(d)' /\ Id(d)' = Id(d)
        BY <1>0, <2>0, <1>p, <2>2 DEF TimesOut, threads, Moving, Id, Threads
      <3>b. dma'[d] = "tx" => dma[d] = "tx"
        BY <1>0, <2>0, <1>p, <2>2 DEF TimesOut, uart, UartOK, None
      <3>c. Live(Peer(d))' => Live(Peer(d)) /\ packet'[Peer(d)]["rx"] = packet[Peer(d)]["rx"]
        BY <1>0, <2>0, <1>p, <2>2 DEF TimesOut, threads, uart, UartOK, Live, None, Threads
      <3>d. handled[Peer(d)] \subseteq handled'[Peer(d)] /\ sem'[d] = sem[d]
        BY <1>0, <2>0, <2>2 DEF TimesOut, wait, ghosts, WaitOK, GhostsOK
      <3>e. line' = line
        BY DEF TimesOut
      <3> QED BY <2>0, <3>a, <3>b, <3>c, <3>d, <3>e, Emptier
    <2> QED BY <2>0, <2>1, <2>2
  <1> QED BY <1>1, <1>2, <1>3, <1>4, <1>5, <1>6, <1>7, <1>8, <1>9 DEF Inv, LocalInv

LEMMA ResendTakeInv == ASSUME Inv, NEW c \in Chips, ResendTake(c) PROVE Inv'
  <1>0. /\ ThreadsOK /\ BoxOK /\ ResendOK /\ UartOK /\ WaitOK /\ LineOK /\ GhostsOK
        /\ \A e \in Chips : SendOK(e)
        /\ Prompt => \A e \in Chips : Flight(e)
    BY DEF Inv, LocalInv
  <1>1. ThreadsOK'
    BY <1>0 DEF ResendTake, threads, ThreadsOK, Threads, Nothing, Packets
  <1>2. BoxOK'
    BY <1>0, ChipBridgeAssumption, TwoChips DEF ResendTake, box, BoxOK, Clients, Cmds, Packets, None, ThreadsOK
  <1>3. ResendOK'
    BY <1>0 DEF ResendTake, threads, box, wait, ResendOK, BoxOK, WaitOK, None, Threads
  <1>4. UartOK'
    BY <1>0 DEF ResendTake, uart, UartOK, Threads
  <1>5. WaitOK'
    BY <1>0, ChipBridgeAssumption DEF ResendTake, wait, WaitOK, ResendOK
  <1>6. LineOK'
    BY <1>0 DEF ResendTake, LineOK, Arrives, ThreadsOK, UartOK, Nothing, Threads
  <1>7. GhostsOK'
    BY <1>0 DEF ResendTake, ghosts, GhostsOK, LineOK, Arrives, Packets
  <1>8. ASSUME NEW d \in Chips PROVE SendOK(d)'
    BY <1>0 DEF ResendTake, threads, uart, ghosts, SendOK, UartOK, GhostsOK, Threads, None
  <1>9. ASSUME Prompt, NEW d \in Chips PROVE Flight(d)'
    <2>0. /\ Flight(d) /\ Flight(c) /\ Peer(d) \in Chips /\ Peer(c) \in Chips /\ Peer(c) # c
          /\ Peer(Peer(c)) = c /\ (d = c \/ d = Peer(c))
      BY <1>0, <1>9, TwoChips
    <2>a. Moving(d) => Moving(d)' /\ Id(d)' = Id(d)
      BY <1>0, <2>0 DEF ResendTake, threads, Moving, Id, Threads
    <2>b. dma'[d] = "tx" => dma[d] = "tx"
      BY <1>0, <2>0 DEF ResendTake, uart, UartOK, None
    <2>c. Live(Peer(d))' => Live(Peer(d)) /\ packet'[Peer(d)]["rx"] = packet[Peer(d)]["rx"]
      BY <1>0, <2>0 DEF ResendTake, threads, uart, UartOK, Live, None, Threads
    <2>d. handled[Peer(d)] \subseteq handled'[Peer(d)] /\ sem'[d] = sem[d]
      BY <1>0, <2>0 DEF ResendTake, wait, ghosts, WaitOK, GhostsOK
    <2>e. line' = line
      BY DEF ResendTake
    <2> QED BY <2>0, <2>a, <2>b, <2>c, <2>d, <2>e, Emptier
  <1> QED BY <1>1, <1>2, <1>3, <1>4, <1>5, <1>6, <1>7, <1>8, <1>9 DEF Inv, LocalInv

LEMMA ResendPutInv == ASSUME Inv, NEW c \in Chips, ResendPut(c) PROVE Inv'
  <1>0. /\ ThreadsOK /\ BoxOK /\ ResendOK /\ UartOK /\ WaitOK /\ LineOK /\ GhostsOK
        /\ \A e \in Chips : SendOK(e)
        /\ Prompt => \A e \in Chips : Flight(e)
    BY DEF Inv, LocalInv
  <1>p. /\ ~failed
        /\ pc' \in [Chips -> [Threads -> Places]]
        /\ pc[c]["tx"] = "timeout" /\ pc'[c]["tx"] = "free"
        /\ \A d \in Chips, u \in Threads : d # c \/ u # "tx" => pc'[d][u] = pc[d][u]
    BY <1>0, StepTo DEF ResendPut, Places, Threads
  <1>x. packet[c]["tx"].id \in Cmds
    BY <1>0, <1>p DEF ThreadsOK, Threads, Nothing, Packets
  <1>1. ThreadsOK'
    BY <1>0, <1>p, <1>x DEF ResendPut, threads, ThreadsOK, Threads, Nothing, Packets
  <1>2. BoxOK'
    BY <1>0, ChipBridgeAssumption, TwoChips, <1>p, <1>x DEF ResendPut, box, BoxOK, Clients, Cmds, Packets, None, ThreadsOK
  <1>3. ResendOK'
    BY <1>0, <1>p, <1>x DEF ResendPut, threads, box, wait, ResendOK, BoxOK, WaitOK, None, Threads
  <1>4. UartOK'
    BY <1>0 DEF ResendPut, uart, UartOK, Threads
  <1>5. WaitOK'
    BY <1>0, ChipBridgeAssumption DEF ResendPut, wait, WaitOK, ResendOK
  <1>6. LineOK'
    BY <1>0, <1>p, <1>x DEF ResendPut, LineOK, Arrives, ThreadsOK, UartOK, Nothing, Threads
  <1>7. GhostsOK'
    BY <1>0, <1>p, <1>x DEF ResendPut, ghosts, GhostsOK, LineOK, Arrives, Packets
  <1>8. ASSUME NEW d \in Chips PROVE SendOK(d)'
    BY <1>0, <1>p, <1>x DEF ResendPut, threads, uart, ghosts, SendOK, UartOK, GhostsOK, Threads, None
  <1>9. ASSUME Prompt, NEW d \in Chips PROVE Flight(d)'
    <2>0. /\ Flight(d) /\ Flight(c) /\ Peer(d) \in Chips /\ Peer(c) \in Chips /\ Peer(c) # c
          /\ Peer(Peer(c)) = c /\ (d = c \/ d = Peer(c))
      BY <1>0, <1>9, TwoChips
    <2>a. Moving(d) => Moving(d)' /\ Id(d)' = Id(d)
      BY <1>0, <2>0, <1>p, <1>x DEF ResendPut, threads, Moving, Id, Threads
    <2>b. dma'[d] = "tx" => dma[d] = "tx"
      BY <1>0, <2>0, <1>p, <1>x DEF ResendPut, uart, UartOK, None
    <2>c. Live(Peer(d))' => Live(Peer(d)) /\ packet'[Peer(d)]["rx"] = packet[Peer(d)]["rx"]
      BY <1>0, <2>0, <1>p, <1>x DEF ResendPut, threads, uart, UartOK, Live, None, Threads
    <2>d. handled[Peer(d)] \subseteq handled'[Peer(d)] /\ sem'[d] = sem[d]
      BY <1>0, <2>0 DEF ResendPut, wait, ghosts, WaitOK, GhostsOK
    <2>e. line' = line
      BY DEF ResendPut
    <2> QED BY <2>0, <2>a, <2>b, <2>c, <2>d, <2>e, Emptier
  <1> QED BY <1>1, <1>2, <1>3, <1>4, <1>5, <1>6, <1>7, <1>8, <1>9 DEF Inv, LocalInv

LEMMA GiveUpInv == ASSUME Inv, NEW c \in Chips, GiveUp(c) PROVE Inv'
  <1>0. /\ ThreadsOK /\ BoxOK /\ ResendOK /\ UartOK /\ WaitOK /\ LineOK /\ GhostsOK
        /\ \A e \in Chips : SendOK(e)
        /\ Prompt => \A e \in Chips : Flight(e)
    BY DEF Inv, LocalInv
  <1>p. /\ ~failed
        /\ pc' \in [Chips -> [Threads -> Places]]
        /\ pc[c]["tx"] = "timeout" /\ pc'[c]["tx"] = "free"
        /\ \A d \in Chips, u \in Threads : d # c \/ u # "tx" => pc'[d][u] = pc[d][u]
    BY <1>0, StepTo DEF GiveUp, Places, Threads
  <1>1. ThreadsOK'
    BY <1>0, <1>p DEF GiveUp, threads, ThreadsOK, Threads, Nothing, Packets
  <1>2. BoxOK'
    BY <1>0, ChipBridgeAssumption, TwoChips, <1>p DEF GiveUp, box, BoxOK, Clients, Cmds, Packets, None, ThreadsOK
  <1>m. UNCHANGED mutex
    BY DEF GiveUp, box, wait
  <1>r. \A d \in Chips : resend_time'[d] = IF d = c THEN ResendTime ELSE resend_time[d]
    BY <1>0 DEF GiveUp, WaitOK
  <1>s. resend_time[c] = 0
    BY DEF GiveUp
  <1>3. ResendOK'
    BY <1>0, <1>p, <1>m, <1>r, <1>s DEF ResendOK, Threads
  <1>4. UartOK'
    BY <1>0 DEF GiveUp, uart, UartOK, Threads
  <1>5. WaitOK'
    BY <1>0, ChipBridgeAssumption DEF GiveUp, wait, WaitOK, ResendOK
  <1>6. LineOK'
    BY <1>0, <1>p DEF GiveUp, LineOK, Arrives, ThreadsOK, UartOK, Nothing, Threads
  <1>7. GhostsOK'
    BY <1>0, <1>p DEF GiveUp, ghosts, GhostsOK, LineOK, Arrives, Packets
  <1>8. ASSUME NEW d \in Chips PROVE SendOK(d)'
    BY <1>0, <1>p DEF GiveUp, threads, uart, ghosts, SendOK, UartOK, GhostsOK, Threads, None
  <1>9. ASSUME Prompt, NEW d \in Chips PROVE Flight(d)'
    <2>0. /\ Flight(d) /\ Flight(c) /\ Peer(d) \in Chips /\ Peer(c) \in Chips /\ Peer(c) # c
          /\ Peer(Peer(c)) = c /\ (d = c \/ d = Peer(c))
      BY <1>0, <1>9, TwoChips
    <2>a. Moving(d) => Moving(d)' /\ Id(d)' = Id(d)
      BY <1>0, <2>0, <1>p DEF GiveUp, threads, Moving, Id, Threads
    <2>b. dma'[d] = "tx" => dma[d] = "tx"
      BY <1>0, <2>0, <1>p DEF GiveUp, uart, UartOK, None
    <2>c. Live(Peer(d))' => Live(Peer(d)) /\ packet'[Peer(d)]["rx"] = packet[Peer(d)]["rx"]
      BY <1>0, <2>0, <1>p DEF GiveUp, threads, uart, UartOK, Live, None, Threads
    <2>d. handled[Peer(d)] \subseteq handled'[Peer(d)] /\ sem'[d] = sem[d]
      BY <1>0, <2>0 DEF GiveUp, wait, ghosts, WaitOK, GhostsOK
    <2>e. line' = line
      BY DEF GiveUp
    <2> QED BY <2>0, <2>a, <2>b, <2>c, <2>d, <2>e, Emptier
  <1> QED BY <1>1, <1>2, <1>3, <1>4, <1>5, <1>6, <1>7, <1>8, <1>9 DEF Inv, LocalInv

LEMMA FreeInv == ASSUME Inv, NEW c \in Chips, Free(c) PROVE Inv'
  <1>0. /\ ThreadsOK /\ BoxOK /\ ResendOK /\ UartOK /\ WaitOK /\ LineOK /\ GhostsOK
        /\ \A e \in Chips : SendOK(e)
        /\ Prompt => \A e \in Chips : Flight(e)
    BY DEF Inv, LocalInv
  <1>p. /\ ~failed
        /\ pc' \in [Chips -> [Threads -> Places]]
        /\ pc[c]["tx"] = "free" /\ pc'[c]["tx"] = "idle"
        /\ \A d \in Chips, u \in Threads : d # c \/ u # "tx" => pc'[d][u] = pc[d][u]
    BY <1>0, StepTo DEF Free, Places, Threads
  <1>q. /\ packet' \in [Chips -> [Threads -> Packets \cup {Nothing}]]
        /\ packet'[c]["tx"] = Nothing
        /\ \A d \in Chips, u \in Threads : d # c \/ u # "tx" => packet'[d][u] = packet[d][u]
    BY <1>0, PacketTo DEF Free, Threads
  <1>1. ThreadsOK'
    BY <1>0, <1>p, <1>q DEF Free, threads, ThreadsOK, Threads, Nothing, Packets
  <1>2. BoxOK'
    BY <1>0, ChipBridgeAssumption, TwoChips, <1>p, <1>q DEF Free, box, BoxOK, Clients, Cmds, Packets, None, ThreadsOK
  <1>m. UNCHANGED mutex /\ UNCHANGED resend_time
    BY DEF Free, box, wait
  <1>3. ResendOK'
    BY <1>0, <1>p, <1>m DEF ResendOK, Threads
  <1>4. UartOK'
    BY <1>0 DEF Free, uart, UartOK, Threads
  <1>5. WaitOK'
    BY <1>0, ChipBridgeAssumption DEF Free, wait, WaitOK, ResendOK
  <1>6. LineOK'
    BY <1>0, <1>p, <1>q DEF Free, LineOK, Arrives, ThreadsOK, UartOK, Nothing, Threads
  <1>7. GhostsOK'
    BY <1>0, <1>p, <1>q DEF Free, ghosts, GhostsOK, LineOK, Arrives, Packets
  <1>8. ASSUME NEW d \in Chips PROVE SendOK(d)'
    BY <1>0, <1>p, <1>q DEF Free, threads, uart, ghosts, SendOK, UartOK, GhostsOK, Threads, None
  <1>9. ASSUME Prompt, NEW d \in Chips PROVE Flight(d)'
    <2>0. /\ Flight(d) /\ Flight(c) /\ Peer(d) \in Chips /\ Peer(c) \in Chips /\ Peer(c) # c
          /\ Peer(Peer(c)) = c /\ (d = c \/ d = Peer(c))
      BY <1>0, <1>9, TwoChips
    <2>a. Moving(d) => Moving(d)' /\ Id(d)' = Id(d)
      BY <1>0, <2>0, <1>p, <1>q DEF Free, threads, Moving, Id, Threads
    <2>b. dma'[d] = "tx" => dma[d] = "tx"
      BY <1>0, <2>0, <1>p, <1>q DEF Free, uart, UartOK, None
    <2>c. Live(Peer(d))' => Live(Peer(d)) /\ packet'[Peer(d)]["rx"] = packet[Peer(d)]["rx"]
      BY <1>0, <2>0, <1>p, <1>q DEF Free, threads, uart, UartOK, Live, None, Threads
    <2>d. handled[Peer(d)] \subseteq handled'[Peer(d)] /\ sem'[d] = sem[d]
      BY <1>0, <2>0 DEF Free, wait, ghosts, WaitOK, GhostsOK
    <2>e. line' = line
      BY DEF Free
    <2> QED BY <2>0, <2>a, <2>b, <2>c, <2>d, <2>e, Emptier
  <1> QED BY <1>1, <1>2, <1>3, <1>4, <1>5, <1>6, <1>7, <1>8, <1>9 DEF Inv, LocalInv

LEMMA HandleCmdInv == ASSUME Inv, NEW c \in Chips, HandleCmd(c) PROVE Inv'
  <1>0. /\ ThreadsOK /\ BoxOK /\ ResendOK /\ UartOK /\ WaitOK /\ LineOK /\ GhostsOK
        /\ \A e \in Chips : SendOK(e)
        /\ Prompt => \A e \in Chips : Flight(e)
    BY DEF Inv, LocalInv
  <1>p. /\ ~failed
        /\ pc' \in [Chips -> [Threads -> Places]]
        /\ pc[c]["rx"] = "idle" /\ pc'[c]["rx"] = "begin"
        /\ \A d \in Chips, u \in Threads : d # c \/ u # "rx" => pc'[d][u] = pc[d][u]
    BY <1>0, StepTo DEF HandleCmd, Places, Threads
  <1>g. Head(line[c]) \in Packets
    BY <1>0 DEF HandleCmd, Arrives, LineOK
  <1>h. [type |-> "rsp", id |-> Head(line[c]).id] \in Packets
    BY <1>g DEF Packets
  <1>q. /\ packet' \in [Chips -> [Threads -> Packets \cup {Nothing}]]
        /\ packet'[c]["rx"] = [type |-> "rsp", id |-> Head(line[c]).id]
        /\ \A d \in Chips, u \in Threads : d # c \/ u # "rx" => packet'[d][u] = packet[d][u]
    BY <1>0, <1>h, PacketTo DEF HandleCmd, Threads
  <1>1. ThreadsOK'
    BY <1>0, <1>p, <1>g, <1>q DEF HandleCmd, threads, ThreadsOK, Threads, Nothing, Packets
  <1>2. BoxOK'
    BY <1>0, ChipBridgeAssumption, TwoChips, <1>p, <1>g, <1>q DEF HandleCmd, box, BoxOK, Clients, Cmds, Packets, None, ThreadsOK
  <1>m. UNCHANGED mutex /\ UNCHANGED resend_time
    BY DEF HandleCmd, box, wait
  <1>3. ResendOK'
    BY <1>0, <1>p, <1>m DEF ResendOK, Threads
  <1>4. UartOK'
    BY <1>0 DEF HandleCmd, uart, UartOK, Threads
  <1>5. WaitOK'
    BY <1>0, ChipBridgeAssumption DEF HandleCmd, wait, WaitOK, ResendOK
  <1>6. LineOK'
    BY <1>0, <1>p, <1>g, <1>q DEF HandleCmd, LineOK, Arrives, ThreadsOK, UartOK, Nothing, Threads
  <1>7. GhostsOK'
    BY <1>0, <1>p, <1>g, <1>q DEF HandleCmd, ghosts, GhostsOK, LineOK, Arrives, Packets
  <1>8. ASSUME NEW d \in Chips PROVE SendOK(d)'
    <2>1. SendOK(d) /\ UNCHANGED <<collided, broken, deaf, dma, dma_tx_thread_id, signals>>
      BY <1>0 DEF HandleCmd, uart
    <2>2. \A t \in Threads :
             /\ pc'[d][t] = "start" <=> pc[d][t] = "start"
             /\ pc'[d][t] = "sending" <=> pc[d][t] = "sending"
      BY <1>0, <1>p
    <2>3. "tx" \in Threads /\ "rx" \in Threads
      BY DEF Threads
    <2> QED BY <2>1, <2>2, <2>3 DEF SendOK
  <1>9. ASSUME Prompt, NEW d \in Chips PROVE Flight(d)'
    <2>0. /\ Flight(d) /\ Flight(c) /\ Peer(d) \in Chips /\ Peer(c) \in Chips /\ Peer(c) # c
          /\ Peer(Peer(c)) = c /\ (d = c \/ d = Peer(c))
      BY <1>0, <1>9, TwoChips
    <2>1. CASE d = Peer(c)
      <3>1. /\ line[c] # <<>> /\ line[c] \in Seq(Packets) /\ Head(line[c]).type = "cmd"
            /\ line'[c] = Tail(line[c]) /\ line'[d] = line[d]
        BY <1>0, <2>0, <2>1 DEF HandleCmd, Arrives, LineOK
      <3>2. Has(line[c], "cmd") /\ (Only(line[c], "cmd", Id(d)) => Head(line[c]).id = Id(d))
        BY <3>1, TailHas
      <3>3. /\ Moving(d) /\ Only(line[c], "cmd", Id(d)) /\ ~Has(line[d], "rsp") /\ sem[d] = 0
            /\ dma[d] # "tx" /\ Head(line[c]).id = Id(d)
        BY <2>0, <2>1, <3>2 DEF Flight
      <3>4. ~Has(line'[c], "cmd")
        BY <3>1, <3>3, TailHas
      <3>5. Moving(d)' /\ Id(d)' = Id(d) /\ dma'[d] # "tx" /\ sem'[d] = 0
        BY <1>p, <1>q, <2>0, <2>1, <3>3 DEF HandleCmd, uart, wait, Moving, Id, Threads
      <3>6. packet'[c]["rx"].id = Id(d) /\ Id(d) \in handled'[c]
        BY <1>0, <1>q, <2>0, <3>3 DEF HandleCmd, GhostsOK
      <3>7. c = Peer(d) /\ ~Has(line'[d], "rsp")
        BY <2>0, <2>1, <3>1, <3>3
      <3> QED BY <3>4, <3>5, <3>6, <3>7 DEF Flight
    <2>2. CASE d = c
      <3>a. Moving(d) => Moving(d)' /\ Id(d)' = Id(d)
        BY <1>0, <2>0, <1>p, <1>g, <1>q, <2>2 DEF HandleCmd, threads, Moving, Id, Threads
      <3>b. dma'[d] = "tx" => dma[d] = "tx"
        BY <1>0, <2>0, <1>p, <1>g, <1>q, <2>2 DEF HandleCmd, uart, UartOK, None
      <3>c. Live(Peer(d))' => Live(Peer(d)) /\ packet'[Peer(d)]["rx"] = packet[Peer(d)]["rx"]
        BY <1>0, <2>0, <1>p, <1>g, <1>q, <2>2 DEF HandleCmd, threads, uart, UartOK, Live, None, Threads
      <3>d. handled[Peer(d)] \subseteq handled'[Peer(d)] /\ sem'[d] = sem[d]
        BY <1>0, <2>0, <2>2 DEF HandleCmd, wait, ghosts, WaitOK, GhostsOK
      <3>e. \A e \in Chips : line'[e] = line[e] \/ (line[e] # <<>> /\ line'[e] = Tail(line[e]))
        BY <1>0, <2>0 DEF HandleCmd, Arrives, LineOK
      <3>f. ASSUME NEW e \in Chips, NEW type, NEW id
          PROVE  /\ Has(line'[e], type) => Has(line[e], type)
                 /\ Only(line[e], type, id) => Only(line'[e], type, id)
        <4>1. CASE line'[e] = line[e]
          BY <4>1
        <4>2. CASE line[e] # <<>> /\ line'[e] = Tail(line[e])
          BY <1>0, <4>2, TailHas DEF LineOK
        <4> QED BY <3>e, <4>1, <4>2
      <3> QED BY <2>0, <3>a, <3>b, <3>c, <3>d, <3>f, Emptier
    <2> QED BY <2>0, <2>1, <2>2
  <1> QED BY <1>1, <1>2, <1>3, <1>4, <1>5, <1>6, <1>7, <1>8, <1>9 DEF Inv, LocalInv

LEMMA HandleRspInv == ASSUME Inv, NEW c \in Chips, HandleRsp(c) PROVE Inv'
  <1>0. /\ ThreadsOK /\ BoxOK /\ ResendOK /\ UartOK /\ WaitOK /\ LineOK /\ GhostsOK
        /\ \A e \in Chips : SendOK(e)
        /\ Prompt => \A e \in Chips : Flight(e)
    BY DEF Inv, LocalInv
  <1>1. ThreadsOK'
    BY <1>0 DEF HandleRsp, threads, ThreadsOK, Threads, Nothing, Packets
  <1>2. BoxOK'
    BY <1>0, ChipBridgeAssumption, TwoChips DEF HandleRsp, box, BoxOK, Clients, Cmds, Packets, None, ThreadsOK
  <1>3. ResendOK'
    BY <1>0 DEF HandleRsp, threads, box, wait, ResendOK, BoxOK, WaitOK, None, Threads
  <1>4. UartOK'
    BY <1>0 DEF HandleRsp, uart, UartOK, Threads
  <1>5. WaitOK'
    BY <1>0, ChipBridgeAssumption DEF HandleRsp, wait, WaitOK, ResendOK
  <1>6. LineOK'
    BY <1>0 DEF HandleRsp, LineOK, Arrives, ThreadsOK, UartOK, Nothing, Threads
  <1>7. GhostsOK'
    BY <1>0 DEF HandleRsp, ghosts, GhostsOK, LineOK, Arrives, Packets
  <1>8. ASSUME NEW d \in Chips PROVE SendOK(d)'
    BY <1>0 DEF HandleRsp, threads, uart, ghosts, SendOK, UartOK, GhostsOK, Threads, None
  <1>9. ASSUME Prompt, NEW d \in Chips PROVE Flight(d)'
    <2>0. /\ Flight(d) /\ Flight(c) /\ Peer(d) \in Chips /\ Peer(c) \in Chips /\ Peer(c) # c
          /\ Peer(Peer(c)) = c /\ (d = c \/ d = Peer(c))
      BY <1>0, <1>9, TwoChips
    <2>1. CASE d = c
      <3>1. /\ line[c] # <<>> /\ line[c] \in Seq(Packets) /\ Head(line[c]).type = "rsp"
            /\ line'[c] = Tail(line[c]) /\ line'[Peer(c)] = line[Peer(c)]
        BY <1>0, <2>0 DEF HandleRsp, Arrives, LineOK
      <3>2. Has(line[c], "rsp")
        BY <3>1, TailHas
      <3>3. /\ Moving(c) /\ Only(line[c], "rsp", Id(c)) /\ Id(c) \in handled[Peer(c)]
            /\ sem[c] = 0 /\ dma[c] # "tx" /\ ~Has(line[Peer(c)], "cmd") /\ ~Live(Peer(c))
        BY <2>0, <3>2 DEF Flight
      <3>4. ~Has(line'[c], "rsp")
        BY <3>1, <3>3, TailHas
      <3>5. /\ Moving(c)' /\ Id(c)' = Id(c) /\ dma'[c] # "tx" /\ sem'[c] = 1
            /\ Id(c) \in handled'[Peer(c)] /\ ~Live(Peer(c))' /\ ~Has(line'[Peer(c)], "cmd")
        BY <1>0, <3>1, <3>3 DEF HandleRsp, threads, uart, wait, ghosts, WaitOK, Moving, Id, Live
      <3> QED BY <2>1, <3>4, <3>5 DEF Flight
    <2>2. CASE d = Peer(c)
      <3>a. Moving(d) => Moving(d)' /\ Id(d)' = Id(d)
        BY <1>0, <2>0, <2>2 DEF HandleRsp, threads, Moving, Id, Threads
      <3>b. dma'[d] = "tx" => dma[d] = "tx"
        BY <1>0, <2>0, <2>2 DEF HandleRsp, uart, UartOK, None
      <3>c. Live(Peer(d))' => Live(Peer(d)) /\ packet'[Peer(d)]["rx"] = packet[Peer(d)]["rx"]
        BY <1>0, <2>0, <2>2 DEF HandleRsp, threads, uart, UartOK, Live, None, Threads
      <3>d. handled[Peer(d)] \subseteq handled'[Peer(d)] /\ sem'[d] = sem[d]
        BY <1>0, <2>0, <2>2 DEF HandleRsp, wait, ghosts, WaitOK, GhostsOK
      <3>e. \A e \in Chips : line'[e] = line[e] \/ (line[e] # <<>> /\ line'[e] = Tail(line[e]))
        BY <1>0, <2>0 DEF HandleRsp, Arrives, LineOK
      <3>f. ASSUME NEW e \in Chips, NEW type, NEW id
          PROVE  /\ Has(line'[e], type) => Has(line[e], type)
                 /\ Only(line[e], type, id) => Only(line'[e], type, id)
        <4>1. CASE line'[e] = line[e]
          BY <4>1
        <4>2. CASE line[e] # <<>> /\ line'[e] = Tail(line[e])
          BY <1>0, <4>2, TailHas DEF LineOK
        <4> QED BY <3>e, <4>1, <4>2
      <3> QED BY <2>0, <3>a, <3>b, <3>c, <3>d, <3>f, Emptier
    <2> QED BY <2>0, <2>1, <2>2
  <1> QED BY <1>1, <1>2, <1>3, <1>4, <1>5, <1>6, <1>7, <1>8, <1>9 DEF Inv, LocalInv

LEMMA RxWakesInv == ASSUME Inv, NEW c \in Chips, RxWakes(c) PROVE Inv'
  <1>0. /\ ThreadsOK /\ BoxOK /\ ResendOK /\ UartOK /\ WaitOK /\ LineOK /\ GhostsOK
        /\ \A e \in Chips : SendOK(e)
        /\ Prompt => \A e \in Chips : Flight(e)
    BY DEF Inv, LocalInv
  <1>1. ThreadsOK'
    BY <1>0 DEF RxWakes, threads, ThreadsOK, Threads, Nothing, Packets
  <1>2. BoxOK'
    BY <1>0, ChipBridgeAssumption, TwoChips DEF RxWakes, box, BoxOK, Clients, Cmds, Packets, None, ThreadsOK
  <1>3. ResendOK'
    BY <1>0 DEF RxWakes, threads, box, wait, ResendOK, BoxOK, WaitOK, None, Threads
  <1>4. UartOK'
    BY <1>0 DEF RxWakes, uart, UartOK, Threads
  <1>5. WaitOK'
    BY <1>0, ChipBridgeAssumption DEF RxWakes, wait, WaitOK, ResendOK
  <1>6. LineOK'
    BY <1>0 DEF RxWakes, LineOK, Arrives, ThreadsOK, UartOK, Nothing, Threads
  <1>7. GhostsOK'
    BY <1>0 DEF RxWakes, ghosts, GhostsOK, LineOK, Arrives, Packets
  <1>8. ASSUME NEW d \in Chips PROVE SendOK(d)'
    BY <1>0 DEF RxWakes, threads, uart, ghosts, SendOK, UartOK, GhostsOK, Threads, None
  <1>9. ASSUME Prompt, NEW d \in Chips PROVE Flight(d)'
    <2>0. /\ Flight(d) /\ Flight(c) /\ Peer(d) \in Chips /\ Peer(c) \in Chips /\ Peer(c) # c
          /\ Peer(Peer(c)) = c /\ (d = c \/ d = Peer(c))
      BY <1>0, <1>9, TwoChips
    <2>a. Moving(d) => Moving(d)' /\ Id(d)' = Id(d)
      BY <1>0, <2>0 DEF RxWakes, threads, Moving, Id, Threads
    <2>b. dma'[d] = "tx" => dma[d] = "tx"
      BY <1>0, <2>0 DEF RxWakes, uart, UartOK, None
    <2>c. Live(Peer(d))' => Live(Peer(d)) /\ packet'[Peer(d)]["rx"] = packet[Peer(d)]["rx"]
      BY <1>0, <2>0 DEF RxWakes, threads, uart, UartOK, Live, None, Threads
    <2>d. handled[Peer(d)] \subseteq handled'[Peer(d)] /\ sem'[d] = sem[d]
      BY <1>0, <2>0 DEF RxWakes, wait, ghosts, WaitOK, GhostsOK
    <2>e. line' = line
      BY DEF RxWakes
    <2> QED BY <2>0, <2>a, <2>b, <2>c, <2>d, <2>e, Emptier
  <1> QED BY <1>1, <1>2, <1>3, <1>4, <1>5, <1>6, <1>7, <1>8, <1>9 DEF Inv, LocalInv

LEMMA LoseInv == ASSUME Inv, NEW c \in Chips, Lose(c) PROVE Inv'
  <1>0. /\ ThreadsOK /\ BoxOK /\ ResendOK /\ UartOK /\ WaitOK /\ LineOK /\ GhostsOK
        /\ \A e \in Chips : SendOK(e)
        /\ Prompt => \A e \in Chips : Flight(e)
    BY DEF Inv, LocalInv
  <1>1. ThreadsOK'
    BY <1>0 DEF Lose, threads, ThreadsOK, Threads, Nothing, Packets
  <1>2. BoxOK'
    BY <1>0, ChipBridgeAssumption, TwoChips DEF Lose, box, BoxOK, Clients, Cmds, Packets, None, ThreadsOK
  <1>3. ResendOK'
    BY <1>0 DEF Lose, threads, box, wait, ResendOK, BoxOK, WaitOK, None, Threads
  <1>4. UartOK'
    BY <1>0 DEF Lose, uart, UartOK, Threads
  <1>5. WaitOK'
    BY <1>0, ChipBridgeAssumption DEF Lose, wait, WaitOK, ResendOK
  <1>6. LineOK'
    BY <1>0 DEF Lose, LineOK, Arrives, ThreadsOK, UartOK, Nothing, Threads
  <1>7. GhostsOK'
    BY <1>0 DEF Lose, ghosts, GhostsOK, LineOK, Arrives, Packets
  <1>8. ASSUME NEW d \in Chips PROVE SendOK(d)'
    BY <1>0 DEF Lose, threads, uart, ghosts, SendOK, UartOK, GhostsOK, Threads, None
  <1>9. ASSUME Prompt, NEW d \in Chips PROVE Flight(d)'
    <2>0. /\ Flight(d) /\ Flight(c) /\ Peer(d) \in Chips /\ Peer(c) \in Chips /\ Peer(c) # c
          /\ Peer(Peer(c)) = c /\ (d = c \/ d = Peer(c))
      BY <1>0, <1>9, TwoChips
    <2>a. Moving(d) => Moving(d)' /\ Id(d)' = Id(d)
      BY <1>0, <2>0 DEF Lose, threads, Moving, Id, Threads
    <2>b. dma'[d] = "tx" => dma[d] = "tx"
      BY <1>0, <2>0 DEF Lose, uart, UartOK, None
    <2>c. Live(Peer(d))' => Live(Peer(d)) /\ packet'[Peer(d)]["rx"] = packet[Peer(d)]["rx"]
      BY <1>0, <2>0 DEF Lose, threads, uart, UartOK, Live, None, Threads
    <2>d. handled[Peer(d)] \subseteq handled'[Peer(d)] /\ sem'[d] = sem[d]
      BY <1>0, <2>0 DEF Lose, wait, ghosts, WaitOK, GhostsOK
    <2>e. \A e \in Chips : line'[e] = line[e] \/ (line[e] # <<>> /\ line'[e] = Tail(line[e]))
      BY <1>0, <2>0 DEF Lose, Arrives, LineOK
    <2>f. ASSUME NEW e \in Chips, NEW type, NEW id
        PROVE  /\ Has(line'[e], type) => Has(line[e], type)
               /\ Only(line[e], type, id) => Only(line'[e], type, id)
      <3>1. CASE line'[e] = line[e]
        BY <3>1
      <3>2. CASE line[e] # <<>> /\ line'[e] = Tail(line[e])
        BY <1>0, <3>2, TailHas DEF LineOK
      <3> QED BY <2>e, <3>1, <3>2
    <2> QED BY <2>0, <2>a, <2>b, <2>c, <2>d, <2>f, Emptier
  <1> QED BY <1>1, <1>2, <1>3, <1>4, <1>5, <1>6, <1>7, <1>8, <1>9 DEF Inv, LocalInv

LEMMA InitInv == Init => Inv
  <1> SUFFICES ASSUME Init PROVE Inv
    OBVIOUS
  <1>1. ASSUME NEW c \in Chips PROVE SendOK(c)
    BY DEF Init, SendOK, Threads, None
  <1>2. ASSUME NEW c \in Chips PROVE Flight(c)
    BY TwoChips DEF Init, Flight, Live, Has, Threads, None
  <1> QED BY InitLocal, <1>1, <1>2 DEF Inv

LEMMA NextInv == ASSUME Inv, [Next]_vars PROVE Inv'
  <1>1. CASE UNCHANGED vars
    BY <1>1 DEF vars, threads, box, uart, wait, ghosts, Inv, LocalInv, ThreadsOK, BoxOK, ResendOK,
                UartOK, WaitOK, LineOK, GhostsOK, Clients, SendOK, Flight, Moving, Id, Live
  <1>2. CASE Next
    <2>1. PICK c \in Chips : \/ SendCmd(c) \/ ClientPut(c) \/ Lose(c) \/ Errors(c)
                             \/ Send(c) \/ Tx(c) \/ Rx(c)
      BY <1>2 DEF Next
    <2>2. CASE SendCmd(c) \/ ClientPut(c) \/ Lose(c)
      BY <2>2, SendCmdInv, ClientPutInv, LoseInv
    <2>6. CASE Errors(c)
      BY <2>6, LineErrorInv, EmptyTransferInv, AllocFailsInv, HeapFailsInv DEF Errors
    <2>3. CASE Send(c)
      BY <2>3, SentInv, SetIdInv, StartInv, SendReturnsInv, SendTimesOutInv DEF Send
    <2>4. CASE Tx(c)
      BY <2>4, GetInv, AnsweredInv, TimesOutInv, ResendTakeInv, ResendPutInv, GiveUpInv, FreeInv DEF Tx
    <2>5. CASE Rx(c)
      BY <2>5, HandleCmdInv, HandleRspInv, RxWakesInv DEF Rx
    <2> QED BY <2>1, <2>2, <2>3, <2>4, <2>5, <2>6
  <1> QED BY <1>1, <1>2

(* The inductive invariant, in every reachable state.                      *)
THEOREM BridgeCorrect == Spec => []Inv
  <1>1. Inv /\ [Next]_vars => Inv'
    BY NextInv
  <1> QED BY InitInv, <1>1, PTL DEF Spec

(* The types: no mailbox takes a command that nobody has sent, and the     *)
(* resend counter is never decremented below 0.                            *)
THEOREM BridgeTypeSafe == Spec => []TypeOK
  <1>1. Inv => TypeOK
    BY DEF Inv, LocalInv, ThreadsOK, BoxOK, UartOK, WaitOK, LineOK, GhostsOK, TypeOK, Places
  <1> QED BY BridgeCorrect, <1>1, PTL

(* Reception ends only on a chip where two sends have overlapped or the    *)
(* break handler has run: no send times out for any other reason.          *)
THEOREM BridgeDeaf == Spec => []DeafIsExplained
  <1>1. Inv => DeafIsExplained
    BY DEF Inv, SendOK, DeafIsExplained
  <1> QED BY BridgeCorrect, <1>1, PTL

(* If answers come in time or not at all, no token outlives its wait.      *)
THEOREM BridgeNoTokenLeft == ASSUME Prompt PROVE Spec => []NoTokenLeft
  <1>1. Inv => NoTokenLeft
    BY DEF Inv, Flight, Moving, NoTokenLeft
  <1> QED BY BridgeCorrect, <1>1, PTL

(* Only Answered ends a wait as answered. *)
LEMMA AnsweredAlone ==
    ASSUME Inv, Next, NEW c \in Chips, pc[c]["tx"] = "wait", pc'[c]["tx"] = "free"
    PROVE  Answered(c)
  <1>0. ThreadsOK
    BY DEF Inv, LocalInv
  <1>1. PICK d \in Chips : \/ SendCmd(d) \/ ClientPut(d) \/ Lose(d) \/ Errors(d)
                           \/ Send(d) \/ Tx(d) \/ Rx(d)
    BY DEF Next
  <1>2. pc' # pc
    OBVIOUS
  <1>3. ASSUME NEW t \in Threads, NEW from, NEW to, Step(d, t, from, to), to \in Places
        PROVE  d = c /\ t = "tx" /\ from = "wait" /\ to = "free"
    BY <1>0, <1>3, StepTo DEF Threads
  <1>4. ~(SendCmd(d) \/ ClientPut(d) \/ Lose(d) \/ Errors(d))
    BY <1>2 DEF SendCmd, ClientPut, Lose, Errors, LineError, EmptyTransfer, BreakHandler,
                AllocFails, HeapFails, threads
  <1>5. ~Send(d)
    <2>1. ~Sent(d)
      BY <1>2 DEF Sent, threads
    <2>2. ASSUME NEW t \in Threads PROVE ~SetId(d, t) /\ ~Start(d, t)
      BY <1>3 DEF SetId, Start, Places
    <2>3. ASSUME NEW t \in Threads PROVE ~Leaves(d, t)
      <3>1. (IF t = "tx" THEN "wait" ELSE "idle") \in Places
        BY DEF Places
      <3> QED BY <1>3, <3>1 DEF Leaves
    <2> QED BY <2>1, <2>2, <2>3 DEF Send, SendReturns, SendTimesOut
  <1>6. ~Rx(d)
    BY <1>2, <1>3 DEF Rx, HandleCmd, HandleRsp, RxWakes, threads, Threads, Places
  <1>7. Tx(d) => Answered(c)
    BY <1>2, <1>3 DEF Tx, Get, Answered, TimesOut, ResendTake, ResendPut, GiveUp, Free,
                      threads, Threads, Places
  <1> QED BY <1>1, <1>4, <1>5, <1>6, <1>7

(* A wait that ends as answered is for a command that the peer has         *)
(* handled, through resends, lost packets and overlapping sends.           *)
THEOREM BridgeAnswered == ASSUME Prompt PROVE Spec => AnsweredIsHandled
  <1>1. ASSUME Inv, Next, NEW c \in Chips, pc[c]["tx"] = "wait", pc'[c]["tx"] = "free"
        PROVE  packet[c]["tx"].id \in handled[Peer(c)]
    <2>1. sem[c] > 0
      BY <1>1, AnsweredAlone DEF Answered
    <2> QED BY <1>1, <2>1 DEF Inv, Flight, Id
  <1>2. Inv /\ [Next]_vars
          => [\A c \in Chips :
                 pc[c]["tx"] = "wait" /\ pc'[c]["tx"] = "free"
                     => packet[c]["tx"].id \in handled[Peer(c)]]_vars
    BY <1>1
  <1> QED BY BridgeCorrect, <1>2, PTL DEF Spec, AnsweredIsHandled
=============================================================================
