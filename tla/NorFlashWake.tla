---------------------------- MODULE NorFlashWake ----------------------------
(***************************************************************************)
(* NorFlash with the flush thread, which rests when norflash_api_flush has *)
(* returned 0 and goes on when it is woken.  norflash_api_flush returns 0  *)
(* when nothing is left, and also when flushing is disabled; whoever       *)
(* enables it again wakes nobody.                                          *)
(*                                                                         *)
(* FlushThread has the mailbox between the two; here a wake-up is never    *)
(* lost, and those that come while the thread is awake are one.            *)
(***************************************************************************)
EXTENDS NorFlash

VARIABLES
    awake,    \* the thread has a message, or has been returned 1
    refused   \* its last call of norflash_api_flush found flushing disabled

wake     == <<awake, refused>>
wakeVars == <<vars, wake>>

WakeInit == Init /\ awake = FALSE /\ refused = FALSE

(* An asynchronous call wakes the thread, accepted or not; so do a refused *)
(* call that has changed nothing, a full log buffer, an update of the user *)
(* data and its timer.                                                     *)
AsyncCall ==
    \E m \in Mods, s \in Sectors :
        \/ \E k \in EraseSizes : EraseAsync(m, s, k)
        \/ \E a \in Pages, n \in 1 .. NPage, v \in Data : WriteAsync(m, s, a, n, v)

CallWakes == AsyncCall /\ awake' = TRUE /\ UNCHANGED refused

HookActivate == awake' = TRUE /\ UNCHANGED <<vars, refused>>

SyncCalls ==
    \E m \in Mods, s \in Sectors :
        \/ \E k \in EraseSizes : EraseSync(m, s, k)
        \/ \E a \in Pages, n \in 1 .. NPage, v \in Data : WriteSync(m, s, a, n, v)

(* The thread's call serves a module, and returns 1 if there is another    *)
(* one to serve, or the same again ...                                     *)
ThreadServes(m) ==
    /\ awake /\ (FlushDone(m) \/ FlushSuspended(m) \/ FlushEmpty(m))
    /\ awake' = \E x \in Mods : GetCurMod(x)'
    /\ refused' = FALSE

(* ... or finds nothing to do or flushing disabled, and the thread rests.  *)
ThreadRests ==
    /\ awake /\ FlushRefused
    /\ awake' = FALSE /\ refused' = ~Allowed

Thread == ThreadRests \/ \E m \in Mods : ThreadServes(m)

(* The hooks, synchronous flushes and the other calls: nobody is woken.    *)
Others ==
    /\ Flush \/ SyncCalls \/ Sync \/ Gate \/ \E m \in Mods : Register(m)
    /\ UNCHANGED wake

WakeNext == CallWakes \/ HookActivate \/ Thread \/ Others

WakeSpec == WakeInit /\ [][WakeNext]_wakeVars

(* The thread goes on while it is awake, and the device finishes an        *)
(* operation that is resumed again and again; a synchronous call goes on   *)
(* until it returns.                                                       *)
WakeFairSpec ==
    /\ WakeSpec
    /\ WF_wakeVars(Thread)
    /\ \A m \in Mods : SF_wakeVars(ThreadServes(m) /\ FlushDone(m))
    /\ WF_wakeVars(Sync /\ UNCHANGED wake)

-----------------------------------------------------------------------------
(* Once the clients stop calling and flushing stays enabled, everything    *)
(* queued reaches the device, in whatever state of whichever module        *)
(* flushing was last disabled, unless the thread was refused then and      *)
(* nothing has woken it since: it does not rest for any other reason with  *)
(* operations queued, and no module starves another.                       *)
Drains ==
    \/ []<><<AsyncCall \/ SyncCalls>>_wakeVars
    \/ []<>~Allowed
    \/ <>[](~awake /\ refused)
    \/ <>[](\A m \in Mods : opera[m] = {})
=============================================================================
