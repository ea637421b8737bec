------------------------------ MODULE HwTimer ------------------------------
(***************************************************************************)
(* The software timers of hwtimer_list.c on the one-shot hardware timer of *)
(* hal_timer.c.                                                            *)
(*                                                                         *)
(* The time of a timer on active counts from the expiry of the one before  *)
(* it; the first one's is loaded into the hardware.  Every call runs with  *)
(* interrupts locked, and may be made whenever they are not: by a thread,  *)
(* by a callback, by an interrupt that preempts the timer's own, before    *)
(* the handler takes its lock or during a callback.                        *)
(*                                                                         *)
(* due and slack are not in the code: the ticks left of what the caller    *)
(* asked for, and how early the timer may fire (see NotEarly).             *)
(***************************************************************************)
EXTENDS Integers, Sequences, FiniteSets

CONSTANTS
    HWTIMER_NUM,
    Ticks,       \* what callers ask for
    MaxLate,     \* ticks for which an interrupt may be held off
    MaxSlack     \* callers do not restart the hardware more often (bound of the model)

DELTA == 1       \* HAL_TIMER_LOAD_DELTA

ASSUME HwTimerAssumption ==
    /\ HWTIMER_NUM \in Nat \ {0} /\ Ticks \subseteq Nat
    /\ MaxLate \in Nat /\ MaxSlack \in Nat

VARIABLES
    state,       \* of each timer
    free, fired, \* lists of timers
    active,      \* list of timers with their times
    taken,       \* timers off the free list whose state is still to be set
    entered,     \* the interrupt is taken, the handler's lock is not
    running,     \* the timer whose callback runs, or NoTimer
    enabled, load, elapsed, pending,    \* the hardware
    due, slack,
    failed       \* an assertion has failed

lists   == <<free, active, fired>>
handler == <<entered, running>>
hw      == <<enabled, load, elapsed, pending>>
ghost   == <<due, slack>>
vars    == <<state, lists, taken, handler, hw, ghost, failed>>

Timer   == 1 .. HWTIMER_NUM
NoTimer == 0
States  == {"FREE", "ALLOC", "ACTIVE", "FIRED", "CALLBACK"}
Entry   == [timer : Timer, time : Nat]
Elements(s)  == {s[i] : i \in DOMAIN s}
Timers(s)    == {s[i].timer : i \in DOMAIN s}
Larger(a, b) == IF a > b THEN a ELSE b

TypeOK ==
    /\ state \in [Timer -> States]
    /\ free \in Seq(Timer) /\ active \in Seq(Entry) /\ fired \in Seq(Timer)
    /\ taken \subseteq Timer
    /\ entered \in BOOLEAN /\ running \in Timer \cup {NoTimer}
    /\ enabled \in BOOLEAN /\ load \in Nat /\ elapsed \in Nat /\ pending \in BOOLEAN
    /\ due \in [Timer -> Int] /\ slack \in [Timer -> Nat]
    /\ failed \in BOOLEAN

Init ==
    /\ state = [t \in Timer |-> "FREE"]
    /\ free = [i \in Timer |-> i] /\ active = << >> /\ fired = << >>
    /\ taken = {} /\ entered = FALSE /\ running = NoTimer
    /\ enabled = FALSE /\ load = 0 /\ elapsed = 0 /\ pending = FALSE
    /\ due = [t \in Timer |-> 0] /\ slack = [t \in Timer |-> 0]
    /\ failed = FALSE

-----------------------------------------------------------------------------
(* The hardware                                                            *)

raw_value == IF elapsed < load THEN load - elapsed ELSE 0

(* Mistake: a short time is loaded as 0.                                   *)
HalStartAtOnce(ticks) ==
    /\ enabled' = TRUE /\ elapsed' = 0
    /\ load' = IF ticks > DELTA THEN ticks - DELTA ELSE 0

(* An interrupt that is pending stays so.                                  *)
HalStart(ticks) ==
    /\ enabled' = TRUE /\ elapsed' = 0
    /\ load' = IF ticks > DELTA THEN ticks - DELTA ELSE DELTA

(* Mistake: the hardware is not disabled.                                  *)
HalStopRuns == pending' = FALSE /\ UNCHANGED <<enabled, load, elapsed>>

(* What is left in the counter is not read before the next start.          *)
HalStop == enabled' = FALSE /\ pending' = FALSE /\ load' = 0 /\ elapsed' = 0

Tick ==
    /\ ~failed /\ enabled
    /\ elapsed < load + MaxLate
    /\ elapsed' = elapsed + 1
    /\ pending' = (pending \/ elapsed + 1 = load)
    /\ due' = [t \in Timer |-> IF state[t] = "ACTIVE" THEN due[t] - 1 ELSE due[t]]
    /\ UNCHANGED <<state, lists, taken, handler, enabled, load, slack, failed>>

(* A restart may bring the rest of the list forward by a tick; what is not *)
(* on the list is forgotten.                                               *)
Forget(f, s) == [t \in Timer |-> IF t \in Timers(s) THEN f[t] ELSE 0]
Slacken(s)   == /\ slack' = [t \in Timer |-> IF t \in Timers(s) THEN slack[t] + 1 ELSE 0]
                /\ due' = Forget(due, s)
MayRestart   == \A t \in Timers(active) : slack[t] < MaxSlack

-----------------------------------------------------------------------------
(* Allocation                                                              *)

AllocTake ==
    /\ ~failed /\ free # << >>
    /\ taken' = taken \cup {Head(free)}
    /\ free' = Tail(free)
    /\ UNCHANGED <<state, active, fired, handler, hw, ghost, failed>>

(* The state is tested and set after the lock is released.                 *)
AllocSet(t) ==
    /\ ~failed /\ t \in taken
    /\ failed' = (state[t] # "FREE")
    /\ state' = [state EXCEPT ![t] = "ALLOC"]
    /\ taken' = taken \ {t}
    /\ UNCHANGED <<lists, handler, hw, ghost>>

Free(t) ==
    /\ ~failed /\ state[t] = "ALLOC"
    /\ state' = [state EXCEPT ![t] = "FREE"]
    /\ free' = <<t>> \o free
    /\ UNCHANGED <<active, fired, taken, handler, hw, ghost, failed>>

-----------------------------------------------------------------------------
(* hwtimer_start                                                           *)

(* Ticks from the expiry of the first active timer to that of the k-th.    *)
Ahead(k) ==
    LET sum[i \in 1 .. k] == IF i = 1 THEN 0 ELSE sum[i - 1] + active[i].time
    IN  sum[k]

From(s, k) == SubSeq(s, k, Len(s))
Alone(t, ticks) == [timer |-> t, time |-> ticks]

(* Mistake: the next timer's time is left as it is.                        *)
LaterByNothing(s, ticks) == s

(* The first entry's time counts from an expiry that many ticks earlier.   *)
LaterBy(s, ticks) ==
    IF s = << >> THEN s ELSE [s EXCEPT ![1].time = @ + ticks]

(* Mistake: the list is not searched.                                      *)
IsPlaceFirst(k, d) == k = 1

(* A timer that expires d ticks after the first goes after the k-th.       *)
IsPlace(k, d) ==
    /\ d - Ahead(k) \in (IF k = 1 THEN Nat ELSE Nat \ {0})
    /\ k < Len(active) => Ahead(k + 1) - d \in Nat

(* The list from the k-th entry on, with another time for that one.        *)
FromWith(k, ticks) ==
    IF k > Len(active) THEN << >>
    ELSE <<Alone(active[k].timer, ticks)>> \o From(active, k + 1)

InsertFirst(t, ticks) ==
    /\ MayRestart
    /\ active' = <<Alone(t, ticks), Alone(active[1].timer, raw_value - ticks)>> \o Tail(active)
    /\ HalStart(ticks) /\ pending' = FALSE
    /\ slack' = [u \in Timer |-> IF u \in Timers(active) THEN slack[u] + 1 ELSE 0]

(* A hardware timer that has run out shows 0, however long ago that was.   *)
InsertLater(t, ticks) ==
    LET d == ticks - raw_value
    IN  /\ \E k \in DOMAIN active :
              /\ IsPlace(k, d)
              /\ active' = SubSeq(active, 1, k) \o <<Alone(t, d - Ahead(k))>>
                           \o FromWith(k + 1, Ahead(k + 1) - d)
        /\ slack' = [slack EXCEPT ![t] = IF raw_value = 0 THEN elapsed - load ELSE 0]
        /\ UNCHANGED hw

Start(t, asked) ==
    LET ticks == Larger(asked, DELTA)
    IN  /\ ~failed /\ state[t] \in {"ALLOC", "CALLBACK"}
        /\ state' = [state EXCEPT ![t] = "ACTIVE"]
        /\ due' = [due EXCEPT ![t] = ticks]
        /\ IF active = << >>
           THEN /\ active' = <<Alone(t, ticks)>>
                /\ HalStart(ticks)
                /\ UNCHANGED <<pending, slack, failed>>
           ELSE /\ failed' = ~(raw_value <= Larger(active[1].time, DELTA))
                /\ IF raw_value > ticks THEN InsertFirst(t, ticks) ELSE InsertLater(t, ticks)
        /\ UNCHANGED <<free, fired, taken, handler>>

-----------------------------------------------------------------------------
(* hwtimer_stop                                                            *)

(* The list after its first entry, so many ticks after that one's expiry.  *)
Deducted(ticks) ==
    [i \in 1 .. Len(active) - 1 |->
        IF Ahead(i) - ticks \in Nat THEN active[i + 1]
        ELSE Alone(active[i + 1].timer,
                   IF Ahead(i + 1) - ticks \in Nat THEN Ahead(i + 1) - ticks ELSE 0)]

Rest ==
    IF raw_value = 0 THEN Deducted(Larger(elapsed - active[1].time, 0))
    ELSE LaterBy(Tail(active), raw_value)

StopFirst ==
    /\ MayRestart
    /\ failed' = \/ raw_value > Larger(active[1].time, DELTA)
                 \/ Len(active) > 1 /\ raw_value = 0 /\ elapsed + DELTA < active[1].time
    /\ active' = Rest
    /\ IF Len(active) = 1 THEN HalStop
       ELSE HalStart(Rest[1].time) /\ pending' = FALSE
    /\ Slacken(Tail(active))

StopLater(t) ==
    LET k == CHOOSE k \in DOMAIN active : active[k].timer = t
    IN  /\ active' = SubSeq(active, 1, k - 1) \o LaterBy(From(active, k + 1), active[k].time)
        /\ slack' = [slack EXCEPT ![t] = 0] /\ due' = [due EXCEPT ![t] = 0]
        /\ UNCHANGED <<hw, failed>>

StopActive(t) ==
    /\ state[t] = "ACTIVE"
    /\ IF t \notin Timers(active)
       THEN failed' = TRUE /\ UNCHANGED <<active, hw, ghost>>
       ELSE IF t = active[1].timer THEN StopFirst ELSE StopLater(t)
    /\ UNCHANGED fired

StopFired(t) ==
    /\ state[t] = "FIRED"
    /\ IF t \notin Elements(fired)
       THEN failed' = TRUE /\ UNCHANGED fired
       ELSE /\ \E k \in DOMAIN fired :
                 fired[k] = t /\ fired' = SubSeq(fired, 1, k - 1) \o From(fired, k + 1)
            /\ UNCHANGED failed
    /\ UNCHANGED <<active, hw, ghost>>

(* A timer whose callback runs is not stopped, and the caller is told so.  *)
Stop(t) ==
    /\ ~failed
    /\ StopActive(t) \/ StopFired(t)
    /\ state' = [state EXCEPT ![t] = "ALLOC"]
    /\ UNCHANGED <<free, taken, handler>>

-----------------------------------------------------------------------------
(* The interrupt                                                           *)

Irq ==
    /\ ~failed /\ pending /\ ~entered /\ running = NoTimer
    /\ pending' = FALSE /\ entered' = TRUE
    /\ UNCHANGED <<running, state, lists, taken, enabled, load, elapsed, ghost, failed>>

(* The timers of ts have fired: the first one's callback is called.        *)
Call(ts, before) ==
    IF ts = << >>
    THEN fired' = ts /\ running' = NoTimer /\ state' = before
    ELSE /\ fired' = Tail(ts) /\ running' = Head(ts)
         /\ state' = [t \in Timer |-> IF t = Head(ts) THEN "CALLBACK"
                                      ELSE IF t \in Elements(ts) THEN "FIRED" ELSE before[t]]

(* The first timer was stopped or overtaken between the interrupt and the  *)
(* handler's lock.                                                         *)
HandlerEarly ==
    /\ ~failed /\ entered
    /\ \/ active = << >> /\ failed' = enabled
       \/ active # << >> /\ active[1].time > elapsed + DELTA /\ failed' = ~enabled
    /\ entered' = FALSE
    /\ UNCHANGED <<state, lists, taken, running, hw, ghost>>

late == Larger(elapsed - active[1].time, 0)

(* The first n of the active timers have expired, and no more.             *)
Expired(n) ==
    /\ late - Ahead(n) \in Nat
    /\ n < Len(active) => Ahead(n + 1) - late \in Nat \ {0}

(* Mistake: the next timer's time is loaded without what has passed of it. *)
RemainUndeducted(n) == From(active, n + 1)

Remain(n) == FromWith(n + 1, Ahead(n + 1) - late)

Handler ==
    /\ ~failed /\ entered
    /\ active # << >> /\ active[1].time <= elapsed + DELTA
    /\ entered' = FALSE
    /\ \E n \in DOMAIN active :
          /\ Expired(n)
          /\ active' = Remain(n)
          /\ Call([i \in 1 .. n |-> active[i].timer], state)
    /\ IF active' = << >> THEN HalStop ELSE HalStart(active'[1].time) /\ UNCHANGED pending
    /\ Slacken(active')
    /\ UNCHANGED <<free, taken, failed>>

(* Mistake: a timer that its callback has restarted is not looked for.     *)
CallbackReturnsAlloc ==
    /\ ~failed /\ running # NoTimer
    /\ Call(fired, [state EXCEPT ![running] = "ALLOC"])
    /\ UNCHANGED <<free, active, taken, entered, hw, ghost, failed>>

CallbackReturns ==
    /\ ~failed /\ running # NoTimer
    /\ Call(fired, [state EXCEPT ![running] = IF @ = "CALLBACK" THEN "ALLOC" ELSE @])
    /\ UNCHANGED <<free, active, taken, entered, hw, ghost, failed>>

Interrupt == Irq \/ HandlerEarly \/ Handler \/ CallbackReturns

Caller ==
    \/ AllocTake
    \/ \E t \in Timer : AllocSet(t) \/ Free(t) \/ Stop(t) \/ \E n \in Ticks : Start(t, n)

Next == Tick \/ Interrupt \/ Caller

Spec == Init /\ [][Next]_vars

-----------------------------------------------------------------------------
(* Properties                                                              *)

NoRepeats(s) == \A i, j \in DOMAIN s : s[i] = s[j] => i = j

(* Each timer is on the list its state says and on no other, once: none is *)
(* lost and none linked twice, whoever stops, frees or restarts it while   *)
(* the handler is between two callbacks.                                   *)
ListsAgree ==
    /\ NoRepeats(free) /\ NoRepeats(fired)
    /\ \A i, j \in DOMAIN active : active[i].timer = active[j].timer => i = j
    /\ Timers(active) = {t \in Timer : state[t] = "ACTIVE"}
    /\ Elements(fired) = {t \in Timer : state[t] = "FIRED"}
    /\ Elements(free) \cup taken = {t \in Timer : state[t] = "FREE"}
    /\ Elements(free) \cap taken = {}
    /\ \A t \in Timer : state[t] = "CALLBACK" => running = t

(* None of the HWTIMER_ASSERTs ("collapsed", "not in list") ever fails.    *)
NoCollapse == ~failed

(* A timer leaves active before its time by one tick at most, one more for *)
(* every time the hardware was restarted while it waited, and by what the  *)
(* hardware was already overdue when it was started.                       *)
NotEarly ==
    [][\A t \in Timer : state[t] = "ACTIVE" /\ state'[t] \in {"FIRED", "CALLBACK"}
                          => due[t] <= slack[t] + DELTA]_vars

(* The handler leaves no timer on active whose time has passed, by more    *)
(* than those ticks, whatever was started, stopped and fired before, and   *)
(* however late the handler runs.                                          *)
NotLate ==
    [][entered /\ ~entered' => \A t \in Timers(active') : due[t] >= -slack[t]]_vars

(* While a timer waits, the hardware will interrupt, or has, and the       *)
(* handler is still to look at active.                                     *)
Armed == active # << >> => entered \/ pending \/ (enabled /\ elapsed < load)
=============================================================================
