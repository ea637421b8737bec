------------------------------ MODULE NvRecord ------------------------------
(***************************************************************************)
(* The user data section (nvrecord_extension.c): a RAM image that clients  *)
(* change at any time, kept in two flash sectors, "main" and "bak", which  *)
(* are rewritten one after the other by the flush state machine while      *)
(* power may fail at any step.                                             *)
(*                                                                         *)
(* A content of the image is the number of the change that made it         *)
(* (Default is the rebuilt one).  norflash_api is seen as module NorFlash  *)
(* shows it: a queue of erases and writes, done in order, of which the     *)
(* oldest may be half done, and which may refuse a call when its pools are *)
(* full.  A sector is valid when its header and crc are (a whole image is  *)
(* in it), Blank when erased and Bad otherwise.                            *)
(***************************************************************************)
EXTENDS Naturals, Sequences

CONSTANTS
    MaxVersion,  \* changes of the RAM image (bound of the model)
    MaxCrashes,  \* power failures and failed assertions (bound of the model)
    Blank,       \* an erased sector
    Bad,         \* a sector that is half erased, half written or overwritten
    None         \* no operation is half done

ASSUME NvAssumption ==
    /\ MaxVersion \in Nat \ {0}
    /\ MaxCrashes \in Nat
    /\ Blank \notin Nat /\ Bad \notin Nat /\ None \notin Nat
    /\ Blank # Bad /\ Blank # None /\ Bad # None

VARIABLES
    power,      \* the program runs
    crashes,    \* power failures and failed assertions so far
    ram,        \* local_extension_data.nv_record
    unmarked,   \* a client has changed ram and not yet called _extension_update
    is_update,  \* nv_flush_state.is_update
    state,      \* nv_flush_state.state
    burn,       \* _nv_burn_buf
    sync,       \* where the synchronous flush that holds the mutex is, or "no"
    queue,      \* operations of the module queued in norflash_api, oldest first
    base,       \* what the sector of a half done Head(queue) held, or None
    flash,      \* the two sectors
    latest,     \* the last change made to the image, ever
    committed   \* the content of the last flush that wrote both copies (0: none)

client == <<ram, unmarked, latest>>
nor    == <<queue, base, flash>>
vars   == <<power, crashes, client, is_update, state, burn, sync, nor, committed>>

Version == 1 .. MaxVersion
Default == 1
Cell    == Version \cup {Blank, Bad}
Copies  == {"main", "bak"}

MainStates == {"MAIN_ERASING", "MAIN_ERASED", "MAIN_WRITE_PENDING", "MAIN_WRITTEN"}
BakStates  == {"MAIN_DONE", "BAK_ERASING", "BAK_ERASED", "BAK_WRITE_PENDING",
               "BAK_WRITTEN"}
States     == {"IDLE"} \cup MainStates \cup BakStates

Op == [op : {"erase", "write"}, copy : Copies, val : Cell]

TypeOK ==
    /\ power \in BOOLEAN /\ crashes \in Nat
    /\ ram \in Version /\ latest \in Version /\ unmarked \in BOOLEAN
    /\ is_update \in BOOLEAN /\ state \in States
    /\ burn \in Cell
    /\ sync \in {"no", "head", "main", "bak", "bak_wait"}
    /\ queue \in Seq(Op)
    /\ base \in Cell \cup {None}
    /\ flash \in [Copies -> Cell]
    /\ committed \in Nat /\ committed <= MaxVersion

Valid(c) == flash[c] \in Version

Init ==
    /\ power = FALSE /\ crashes = 0
    /\ ram = Default /\ latest = Default /\ unmarked = FALSE
    /\ is_update = FALSE /\ state = "IDLE" /\ burn = Blank /\ sync = "no"
    /\ queue = <<>> /\ base = None
    /\ flash = [c \in Copies |-> Blank]
    /\ committed = 0

-----------------------------------------------------------------------------
(* norflash_api                                                            *)

(* Programming a sector that is neither erased nor already holds v leaves  *)
(* the AND of the two.                                                     *)
Programmed(old, v) == IF old \in {Blank, v} THEN v ELSE Bad

(* What norflash_api_read returns: the newest queued write or erase of the *)
(* copy, or the flash.                                                     *)
Queued(c) == {i \in DOMAIN queue : queue[i].copy = c}
Visible(c) ==
    IF Queued(c) = {} THEN flash[c]
    ELSE LET i == CHOOSE i \in Queued(c) : \A j \in Queued(c) : j <= i
         IN  IF queue[i].op = "erase" THEN Blank ELSE queue[i].val

(* A write is merged into a queued write of the sector that has not begun. *)
Mergeable(c) ==
    /\ queue # <<>>
    /\ queue[Len(queue)].op = "write" /\ queue[Len(queue)].copy = c
    /\ ~ (Len(queue) = 1 /\ base # None)

QueueWrite(c, v) ==
    LET w == [op |-> "write", copy |-> c, val |-> v]
    IN  queue' = IF Mergeable(c) THEN [queue EXCEPT ![Len(queue)] = w]
                 ELSE Append(queue, w)

(* An erase of a copy meets no queued operation of it (QueueInv).      *)
QueueErase(c) ==
    queue' = Append(queue, [op |-> "erase", copy |-> c, val |-> Blank])

(* The oldest operation begins, and is suspended with its sector spoilt    *)
(* unless it programs what is there already ...                            *)
FlushStart ==
    /\ queue # <<>> /\ base = None
    /\ base' = flash[Head(queue).copy]
    /\ flash' = [flash EXCEPT ![Head(queue).copy] =
            IF Head(queue).op = "write" /\ @ = Head(queue).val THEN @ ELSE Bad]
    /\ UNCHANGED queue

(* ... or is completed.                                                    *)
FlushDone ==
    /\ queue # <<>> /\ base # None
    /\ flash' = [flash EXCEPT ![Head(queue).copy] =
            IF Head(queue).op = "erase" THEN Blank
            ELSE Programmed(base, Head(queue).val)]
    /\ queue' = Tail(queue)
    /\ base' = None

(* One call of norflash_api_flush: it may also find flushing disabled, or  *)
(* serve another module.                                                   *)
FlushCall == FlushStart \/ FlushDone \/ UNCHANGED nor

-----------------------------------------------------------------------------
(* The flush state machine.  One call of the asynchronous flush makes one  *)
(* step; a synchronous one holds the mutex and makes them all.             *)

AsyncCall == power /\ sync = "no" /\ sync' = "no"
SyncIn(pc, next) == power /\ sync = pc /\ sync' = next

(* Mistake: taking a refused erase for a queued one.                       *)
EraseSkipped(c, ok, full) ==
    \/ QueueErase(c) /\ state' = ok /\ UNCHANGED <<base, flash>>
    \/ FlushCall /\ state' = ok

(* norflash_api_erase of a copy: queued, or refused for want of a node.    *)
Erase(c, ok, full) ==
    \/ QueueErase(c) /\ state' = ok /\ UNCHANGED <<base, flash>>
    \/ FlushCall /\ state' = full

Write(c, ok) ==
    \/ QueueWrite(c, burn) /\ state' = ok /\ UNCHANGED <<base, flash>>
    \/ FlushCall /\ UNCHANGED state

(* The image is copied under an interrupt lock, and no longer to update.   *)
Copy ==
    /\ state = "MAIN_ERASED" /\ state' = "MAIN_WRITE_PENDING"
    /\ burn' = ram /\ is_update' = FALSE
    /\ UNCHANGED nor

ReadMain ==
    /\ burn' = Visible("main") /\ state' = "BAK_WRITE_PENDING"
    /\ UNCHANGED <<nor, is_update>>

(* Mistake: the machine is not returned to IDLE.                           *)
CommitStays == state' = "BAK_WRITTEN" /\ committed' = burn

(* BAK_DONE, and at once IDLE.                                             *)
Commit == state' = "IDLE" /\ committed' = burn

FlushMainAsync ==
    /\ AsyncCall
    /\ \/ /\ (state = "IDLE" /\ is_update) \/ state = "MAIN_ERASING"
          /\ Erase("main", "MAIN_ERASED", "MAIN_ERASING")
          /\ UNCHANGED <<burn, is_update>>
       \/ Copy
       \/ /\ state = "MAIN_WRITE_PENDING"
          /\ Write("main", "MAIN_WRITTEN")
          /\ UNCHANGED <<burn, is_update>>
       \/ /\ state = "MAIN_WRITTEN"
          /\ IF queue = <<>> THEN state' = "MAIN_DONE" /\ UNCHANGED nor
             ELSE UNCHANGED state /\ FlushCall
          /\ UNCHANGED <<burn, is_update>>
    /\ UNCHANGED <<power, crashes, client, committed>>

FlushBakAsync ==
    /\ AsyncCall
    /\ \/ /\ state \in {"MAIN_DONE", "BAK_ERASING"}
          /\ Erase("bak", "BAK_ERASED", "BAK_ERASING")
          /\ UNCHANGED <<burn, is_update, committed>>
       \/ state = "BAK_ERASED" /\ ReadMain /\ UNCHANGED committed
       \/ /\ state = "BAK_WRITE_PENDING"
          /\ Write("bak", "BAK_WRITTEN")
          /\ UNCHANGED <<burn, is_update, committed>>
       \/ /\ state = "BAK_WRITTEN"
          /\ IF queue = <<>> THEN Commit /\ UNCHANGED nor
             ELSE UNCHANGED <<state, committed>> /\ FlushCall
          /\ UNCHANGED <<burn, is_update>>
    /\ UNCHANGED <<power, crashes, client>>

(* nv_record_flash_flush: a client waits for the mutex and holds it.       *)
SyncCall ==
    /\ SyncIn("no", "head")
    /\ UNCHANGED <<crashes, power, client, is_update, state, burn, nor, committed>>

(* The head of the loop: leave when there is nothing to do.                *)
SyncHead ==
    /\ \/ SyncIn("head", "no") /\ state = "IDLE" /\ ~is_update
       \/ SyncIn("head", "main") /\ ((state = "IDLE" /\ is_update) \/ state \in MainStates)
       \/ SyncIn("head", "bak") /\ state \in BakStates
    /\ UNCHANGED <<power, crashes, client, is_update, state, burn, nor, committed>>

SyncMain ==
    /\ \/ /\ SyncIn("main", "main") /\ state \in {"IDLE", "MAIN_ERASING"}
          /\ Erase("main", "MAIN_ERASED", state)
          /\ UNCHANGED <<burn, is_update>>
       \/ SyncIn("main", "main") /\ Copy
       \/ /\ SyncIn("main", "main") /\ state = "MAIN_WRITE_PENDING"
          /\ Write("main", "MAIN_WRITTEN")
          /\ UNCHANGED <<burn, is_update>>
       \/ /\ state = "MAIN_WRITTEN" /\ FlushCall
          /\ IF queue' = <<>> THEN SyncIn("main", "bak") /\ state' = "MAIN_DONE"
             ELSE SyncIn("main", "main") /\ UNCHANGED state
          /\ UNCHANGED <<burn, is_update>>
    /\ UNCHANGED <<power, crashes, client, committed>>

(* Entered with the copy written by asynchronous steps, it writes it again. *)
SyncBak ==
    /\ \/ /\ SyncIn("bak", "bak") /\ state \in {"MAIN_DONE", "BAK_ERASING"}
          /\ Erase("bak", "BAK_ERASED", state)
          /\ UNCHANGED <<burn, is_update>>
       \/ SyncIn("bak", "bak") /\ state \in {"BAK_ERASED", "BAK_WRITTEN"} /\ ReadMain
       \/ /\ state = "BAK_WRITE_PENDING"
          /\ \/ /\ SyncIn("bak", "bak_wait") /\ QueueWrite("bak", burn)
                /\ state' = "BAK_WRITTEN" /\ UNCHANGED <<base, flash>>
             \/ SyncIn("bak", "bak") /\ FlushCall /\ UNCHANGED state
          /\ UNCHANGED <<burn, is_update>>
    /\ UNCHANGED <<power, crashes, client, committed>>

SyncBakWait ==
    /\ FlushCall
    /\ IF queue' = <<>> THEN SyncIn("bak_wait", "head") /\ Commit
       ELSE SyncIn("bak_wait", "bak_wait") /\ UNCHANGED <<state, committed>>
    /\ UNCHANGED <<power, crashes, client, burn, is_update>>

-----------------------------------------------------------------------------
(* The clients, the rest of the system and the power.                      *)

(* A client changes the image under the interrupt lock ...                 *)
WriteRam ==
    /\ power /\ latest < MaxVersion
    /\ latest' = latest + 1 /\ ram' = latest' /\ unmarked' = TRUE
    /\ UNCHANGED <<power, crashes, is_update, state, burn, sync, nor, committed>>

(* Mistake: a change made during a flush is thought to be in it.           *)
UpdateUnlessFlushing ==
    /\ power /\ unmarked
    /\ unmarked' = FALSE /\ is_update' = (is_update \/ state = "IDLE")
    /\ UNCHANGED <<power, crashes, ram, latest, state, burn, sync, nor, committed>>

(* ... and says so, before or after the lock is released.                  *)
ExtensionUpdate ==
    /\ power /\ unmarked
    /\ unmarked' = FALSE /\ is_update' = TRUE
    /\ UNCHANGED <<power, crashes, ram, latest, state, burn, sync, nor, committed>>

(* The flush thread or another client of norflash_api flushes.             *)
OthersFlush ==
    /\ power /\ (FlushStart \/ FlushDone)
    /\ UNCHANGED <<power, crashes, client, is_update, state, burn, sync, committed>>

(* The program stops: all but the flash is lost.                           *)
Stop ==
    /\ power /\ crashes < MaxCrashes /\ crashes' = crashes + 1
    /\ power' = FALSE /\ ram' = Default /\ unmarked' = FALSE
    /\ is_update' = FALSE /\ state' = "IDLE" /\ burn' = Blank /\ sync' = "no"
    /\ queue' = <<>> /\ base' = None
    /\ UNCHANGED <<latest, flash, committed>>

(* Power fails at any step.                                                *)
Crash == Stop

(* The erase of a synchronous flush is refused, and after the flush that   *)
(* this calls for norflash_api_get_free_buffer_count asserts that no more  *)
(* erases are queued than there are buffers.  They are of all modules, and *)
(* take nodes, not buffers: it may fail, or hold and the erase be repeated.*)
AssertFails ==
    /\ \/ sync = "main" /\ state \in {"IDLE", "MAIN_ERASING"}
       \/ sync = "bak" /\ state \in {"MAIN_DONE", "BAK_ERASING"}
    /\ Stop

(* Mistakes: a missing backup is not repaired at start-up, or a lost main  *)
(* copy is taken for a lost backup.                                        *)
InitTrusts ==
    /\ ~power /\ power' = TRUE
    /\ ram' = IF Valid("main") THEN flash["main"]
              ELSE IF Valid("bak") THEN flash["bak"] ELSE Default
    /\ is_update' = ~Valid("main")
    /\ state' = "IDLE"
    /\ sync' = IF is_update' THEN "head" ELSE "no"
    /\ UNCHANGED <<crashes, latest, unmarked, burn, nor, committed>>
InitMistakesMain ==
    /\ ~power /\ power' = TRUE
    /\ ram' = IF Valid("main") THEN flash["main"]
              ELSE IF Valid("bak") THEN flash["bak"] ELSE Default
    /\ is_update' = ~(Valid("main") /\ Valid("bak"))
    /\ state' = IF Valid("main") # Valid("bak") THEN "MAIN_DONE" ELSE "IDLE"
    /\ sync' = IF is_update' THEN "head" ELSE "no"
    /\ UNCHANGED <<crashes, latest, unmarked, burn, nor, committed>>

(* nv_record_extension_init, and its synchronous flush if there is reason. *)
ExtensionInit ==
    /\ ~power /\ power' = TRUE
    /\ ram' = IF Valid("main") THEN flash["main"]
              ELSE IF Valid("bak") THEN flash["bak"] ELSE Default
    /\ is_update' = ~(Valid("main") /\ Valid("bak"))
    /\ state' = IF Valid("main") /\ ~Valid("bak") THEN "MAIN_DONE" ELSE "IDLE"
    /\ sync' = IF is_update' THEN "head" ELSE "no"
    /\ UNCHANGED <<crashes, latest, unmarked, burn, nor, committed>>

Next ==
    \/ FlushMainAsync \/ FlushBakAsync
    \/ SyncCall \/ SyncHead \/ SyncMain \/ SyncBak \/ SyncBakWait
    \/ WriteRam \/ ExtensionUpdate \/ OthersFlush \/ Crash \/ AssertFails \/ ExtensionInit

Spec == Init /\ [][Next]_vars

(* Under way, the hook returns 1 and the flush thread calls it again, and  *)
(* the holder of the mutex goes on; neither is refused a node, or finds    *)
(* flushing disabled, for ever; an operation that is resumed again and     *)
(* again ends; a client that has changed the image says so; power comes    *)
(* back.  Nothing makes an asynchronous flush begin: a wake-up of the      *)
(* thread puts it off by the time of the debounce timer.                   *)
Moves == <<state, sync>>' # <<state, sync>>

Goes == state # "IDLE" /\ Moves

FairSpec ==
    /\ Spec
    /\ SF_vars(FlushMainAsync /\ Goes) /\ SF_vars(FlushBakAsync /\ Goes)
    /\ SF_vars(SyncHead /\ Moves) /\ SF_vars(SyncMain /\ Moves) /\ SF_vars(SyncBak /\ Moves)
    /\ SF_vars(SyncBakWait /\ Moves)
    /\ WF_vars(OthersFlush) /\ WF_vars(ExtensionUpdate) /\ WF_vars(ExtensionInit)

-----------------------------------------------------------------------------
(* What the section promises.                                              *)

(* The content ExtensionInit would load.                                   *)
Recovered == IF Valid("main") THEN flash["main"]
             ELSE IF Valid("bak") THEN flash["bak"] ELSE 0

(* After any crash the image is at least as new as the last one whose      *)
(* flush wrote both copies: the main copy is given up only while the       *)
(* backup holds it, and the backup only while the main copy does.          *)
FlushDurable == Recovered >= committed

(* Once one copy is valid, no step (and no crash) leaves none valid, the   *)
(* first rewrite of a new device and the repair at start-up included.      *)
NeverBothLost == [][Recovered # 0 => Recovered' # 0]_vars

(* When the machine rests, and no client is between its change and its     *)
(* call, the main copy holds the image: a change that meets a flush in any *)
(* of its steps is not forgotten.                                          *)
NoLostUpdate ==
    power /\ state = "IDLE" /\ ~is_update /\ ~unmarked => flash["main"] = ram

(* The asynchronous flush is put off for ever, and nobody calls the        *)
(* synchronous one.                                                        *)
Starved == <>[](power /\ state = "IDLE" /\ is_update /\ sync = "no")

(* Once power, assertions and clients leave it alone, the machine rests    *)
(* with the image saved, through refused calls and asynchronous and        *)
(* synchronous flushes, unless it is kept from beginning.                  *)
Settles ==
    Starved \/ <>[](power /\ state = "IDLE" /\ ~is_update /\ flash["main"] = ram)

=============================================================================
