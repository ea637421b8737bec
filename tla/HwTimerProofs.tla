--------------------------- MODULE HwTimerProofs ---------------------------
(***************************************************************************)
(* HwTimer: every timer stays on the list its state says, no assertion     *)
(* fails, the hardware is set while a timer waits, and none fires early or *)
(* is left late, for any number of timers, any times and interrupts held   *)
(* off for however long.                                                   *)
(***************************************************************************)
EXTENDS HwTimer, SequenceTheorems, WellFoundedInduction, TLAPS

-----------------------------------------------------------------------------
(* Lists                                                                   *)

(* r is s with one more element, at k; without its k-th; f and then r.     *)
IsWith(r, s, k) ==
    /\ Len(r) = Len(s) + 1
    /\ \A i \in 1 .. k - 1 : r[i] = s[i]
    /\ \A i \in k + 1 .. Len(s) + 1 : r[i] = s[i - 1]

IsWithout(r, s, k) ==
    /\ Len(r) = Len(s) - 1
    /\ \A i \in 1 .. k - 1 : r[i] = s[i]
    /\ \A i \in k .. Len(s) - 1 : r[i] = s[i + 1]

IsBoth(s, f, r) ==
    /\ Len(s) = Len(f) + Len(r)
    /\ \A i \in 1 .. Len(f) : f[i] = s[i]
    /\ \A i \in 1 .. Len(r) : r[i] = s[Len(f) + i]

LEMMA Placed ==
    ASSUME NEW S, NEW s \in Seq(S), NEW r \in Seq(S), NEW k \in 1 .. Len(s) + 1,
           NoRepeats(s), r[k] \notin Elements(s), IsWith(r, s, k)
    PROVE  NoRepeats(r) /\ Elements(r) = Elements(s) \cup {r[k]}
  <1>0. /\ Len(s) \in Nat /\ DOMAIN s = 1 .. Len(s) /\ DOMAIN r = 1 .. Len(s) + 1
        /\ Len(r) = Len(s) + 1
        /\ \A i \in 1 .. k - 1 : r[i] = s[i]
        /\ \A i \in k + 1 .. Len(r) : r[i] = s[i - 1]
    BY LenProperties DEF IsWith
  <1>1. \A i \in DOMAIN r : i # k => \E j \in DOMAIN s : r[i] = s[j] /\ j = IF i < k THEN i ELSE i - 1
    BY <1>0
  <1>2. NoRepeats(r)
    <2> SUFFICES ASSUME NEW i \in DOMAIN r, NEW j \in DOMAIN r, r[i] = r[j], i # j PROVE FALSE
      BY DEF NoRepeats
    <2>1. CASE i = k \/ j = k
      BY <1>1, <2>1 DEF Elements
    <2>2. CASE i # k /\ j # k
      BY <1>0, <1>1, <2>2 DEF NoRepeats
    <2> QED BY <2>1, <2>2
  <1>3. \A j \in DOMAIN s : \E i \in DOMAIN r : i # k /\ r[i] = s[j]
    <2> SUFFICES ASSUME NEW j \in DOMAIN s PROVE \E i \in DOMAIN r : i # k /\ r[i] = s[j]
      OBVIOUS
    <2>1. CASE j < k
      BY <1>0, <2>1
    <2>2. CASE j >= k
      <3>1. j + 1 \in k + 1 .. Len(r) /\ r[j + 1] = s[(j + 1) - 1] /\ (j + 1) - 1 = j
        BY <1>0, <2>2
      <3> QED BY <1>0, <3>1
    <2> QED BY <1>0, <2>1, <2>2
  <1>4. k \in DOMAIN r
    BY <1>0
  <1> QED BY <1>1, <1>2, <1>3, <1>4 DEF Elements

LEMMA Dropped ==
    ASSUME NEW S, NEW s \in Seq(S), NEW r \in Seq(S), NEW k \in 1 .. Len(s),
           NoRepeats(s), IsWithout(r, s, k)
    PROVE  NoRepeats(r) /\ Elements(r) = Elements(s) \ {s[k]}
  <1>0. /\ Len(s) \in Nat /\ DOMAIN s = 1 .. Len(s) /\ DOMAIN r = 1 .. Len(s) - 1
        /\ Len(r) = Len(s) - 1
        /\ \A i \in 1 .. k - 1 : r[i] = s[i]
        /\ \A i \in k .. Len(r) : r[i] = s[i + 1]
    BY LenProperties DEF IsWithout
  <1>1. \A i \in DOMAIN r : \E j \in DOMAIN s : r[i] = s[j] /\ j # k /\ j = IF i < k THEN i ELSE i + 1
    BY <1>0
  <1>2. NoRepeats(r)
    BY <1>0, <1>1 DEF NoRepeats
  <1>3. \A j \in DOMAIN s : j # k => \E i \in DOMAIN r : r[i] = s[j]
    <2> SUFFICES ASSUME NEW j \in DOMAIN s, j # k PROVE \E i \in DOMAIN r : r[i] = s[j]
      OBVIOUS
    <2>1. CASE j < k
      BY <1>0, <2>1
    <2>2. CASE j > k
      <3>1. j - 1 \in k .. Len(r) /\ r[j - 1] = s[(j - 1) + 1] /\ (j - 1) + 1 = j
        BY <1>0, <2>2
      <3> QED BY <1>0, <3>1
    <2> QED BY <1>0, <2>1, <2>2
  <1>4. \A j \in DOMAIN s : j # k <=> s[j] # s[k]
    BY <1>0 DEF NoRepeats
  <1> QED BY <1>0, <1>1, <1>2, <1>3, <1>4 DEF Elements

LEMMA Divided ==
    ASSUME NEW S, NEW s \in Seq(S), NEW f \in Seq(S), NEW r \in Seq(S),
           NoRepeats(s), IsBoth(s, f, r)
    PROVE  /\ NoRepeats(f) /\ NoRepeats(r)
           /\ Elements(f) \cup Elements(r) = Elements(s)
           /\ Elements(f) \cap Elements(r) = {}
  <1>0. /\ Len(f) \in Nat /\ Len(r) \in Nat
        /\ DOMAIN f = 1 .. Len(f) /\ DOMAIN r = 1 .. Len(r) /\ DOMAIN s = 1 .. Len(f) + Len(r)
        /\ \A i \in 1 .. Len(f) : f[i] = s[i]
        /\ \A i \in 1 .. Len(r) : r[i] = s[Len(f) + i]
    BY LenProperties DEF IsBoth
  <1>1. \A i \in DOMAIN f : i \in DOMAIN s /\ f[i] = s[i]
    BY <1>0
  <1>2. \A i \in DOMAIN r : Len(f) + i \in DOMAIN s /\ r[i] = s[Len(f) + i]
    BY <1>0
  <1>3. NoRepeats(f) /\ NoRepeats(r)
    BY <1>0, <1>1, <1>2 DEF NoRepeats
  <1>4. ASSUME NEW x \in Elements(f) \cap Elements(r) PROVE FALSE
    <2>1. PICK i \in DOMAIN f : x = f[i]
      BY <1>4 DEF Elements
    <2>2. PICK j \in DOMAIN r : x = r[j]
      BY <1>4 DEF Elements
    <2>3. i \in DOMAIN s /\ Len(f) + j \in DOMAIN s /\ s[i] = s[Len(f) + j]
      BY <1>1, <1>2, <2>1, <2>2
    <2>4. i = Len(f) + j
      BY <2>3, Zenon DEF NoRepeats
    <2> QED BY <1>0, <2>4
  <1>5. ASSUME NEW j \in DOMAIN s PROVE s[j] \in Elements(f) \cup Elements(r)
    <2>1. CASE j <= Len(f)
      BY <1>0, <2>1 DEF Elements
    <2>2. CASE j > Len(f)
      <3>1. j - Len(f) \in DOMAIN r /\ Len(f) + (j - Len(f)) = j
        BY <1>0, <2>2
      <3>2. r[j - Len(f)] = s[j]
        BY <1>0, <3>1
      <3> QED BY <3>1, <3>2 DEF Elements
    <2> QED BY <1>0, <2>1, <2>2
  <1>6. Elements(f) \cup Elements(r) \subseteq Elements(s)
    BY <1>1, <1>2 DEF Elements
  <1>7. Elements(s) \subseteq Elements(f) \cup Elements(r)
    BY <1>5 DEF Elements
  <1> QED BY <1>3, <1>4, <1>6, <1>7

(* An element before the others, and a list without its first.             *)
LEMMA Pushed ==
    ASSUME NEW S, NEW s \in Seq(S), NEW e \in S, NoRepeats(s), e \notin Elements(s)
    PROVE  /\ <<e>> \o s \in Seq(S) /\ NoRepeats(<<e>> \o s)
           /\ Elements(<<e>> \o s) = Elements(s) \cup {e}
  <1>1. <<e>> \in Seq(S) /\ Len(<<e>>) = 1 /\ <<e>>[1] = e
    OBVIOUS
  <1> DEFINE r == <<e>> \o s
  <1>2. r \in Seq(S) /\ r[1] = e /\ IsWith(r, s, 1)
    BY <1>1, ConcatProperties, LenProperties DEF IsWith
  <1>3. 1 \in 1 .. Len(s) + 1
    BY LenProperties
  <1> HIDE DEF r
  <1>4. NoRepeats(r) /\ Elements(r) = Elements(s) \cup {r[1]}
    BY <1>2, <1>3, Placed
  <1> QED BY <1>2, <1>4 DEF r

LEMMA Popped ==
    ASSUME NEW S, NEW s \in Seq(S), s # << >>, NoRepeats(s)
    PROVE  /\ Head(s) \in S /\ Head(s) \in Elements(s)
           /\ Tail(s) \in Seq(S) /\ NoRepeats(Tail(s))
           /\ Elements(Tail(s)) = Elements(s) \ {Head(s)}
  <1>1. /\ Head(s) \in S /\ Tail(s) \in Seq(S) /\ IsWithout(Tail(s), s, 1)
        /\ Len(s) \in Nat \ {0} /\ Head(s) = s[1]
    BY HeadTailProperties, EmptySeq DEF IsWithout
  <1>2. 1 \in 1 .. Len(s) /\ 1 \in DOMAIN s
    BY <1>1, LenProperties
  <1>3. NoRepeats(Tail(s)) /\ Elements(Tail(s)) = Elements(s) \ {s[1]}
    BY <1>1, <1>2, Dropped
  <1> QED BY <1>1, <1>2, <1>3 DEF Elements

(* A list cut in two, with others between the pieces.                      *)
LEMMA Before ==
    ASSUME NEW S, NEW s \in Seq(S), NEW k \in 1 .. Len(s) + 1
    PROVE  /\ SubSeq(s, 1, k - 1) \in Seq(S) /\ Len(SubSeq(s, 1, k - 1)) = k - 1
           /\ \A i \in 1 .. k - 1 : SubSeq(s, 1, k - 1)[i] = s[i]
  <1>0. Len(s) \in Nat /\ DOMAIN s = 1 .. Len(s)
    BY LenProperties
  <1>1. \A i \in 1 .. k - 1 : s[i] \in S
    BY <1>0, ElementOfSeq
  <1> QED BY <1>0, <1>1, SubSeqProperties

LEMMA FromThere ==
    ASSUME NEW S, NEW s \in Seq(S), NEW k \in 1 .. Len(s) + 1
    PROVE  /\ From(s, k) \in Seq(S) /\ Len(From(s, k)) = Len(s) - k + 1
           /\ \A i \in 1 .. Len(s) - k + 1 : From(s, k)[i] = s[k + i - 1]
  <1>0. Len(s) \in Nat /\ DOMAIN s = 1 .. Len(s)
    BY LenProperties
  <1>1. \A i \in k .. Len(s) : s[i] \in S
    BY <1>0, ElementOfSeq
  <1> QED BY <1>0, <1>1, SubSeqProperties DEF From

LEMMA Joined ==
    ASSUME NEW S, NEW f \in Seq(S), NEW g \in Seq(S)
    PROVE  /\ f \o g \in Seq(S) /\ Len(f \o g) = Len(f) + Len(g)
           /\ Len(f) \in Nat /\ Len(g) \in Nat
           /\ \A i \in 1 .. Len(f) : (f \o g)[i] = f[i]
           /\ \A i \in 1 .. Len(g) : (f \o g)[Len(f) + i] = g[i]
  <1>1. /\ f \o g \in Seq(S) /\ Len(f \o g) = Len(f) + Len(g)
        /\ Len(f) \in Nat /\ Len(g) \in Nat
        /\ \A i \in 1 .. Len(f) + Len(g) :
              (f \o g)[i] = IF i <= Len(f) THEN f[i] ELSE g[i - Len(f)]
    BY ConcatProperties, LenProperties
  <1>2. ASSUME NEW i \in 1 .. Len(g) PROVE (f \o g)[Len(f) + i] = g[i]
    <2>1. Len(f) + i \in 1 .. Len(f) + Len(g) /\ ~(Len(f) + i <= Len(f)) /\ (Len(f) + i) - Len(f) = i
      BY <1>1
    <2> QED BY <1>1, <2>1
  <1> QED BY <1>1, <1>2

Without(s, k) == SubSeq(s, 1, k - 1) \o From(s, k + 1)

LEMMA Removed ==
    ASSUME NEW S, NEW s \in Seq(S), NEW k \in 1 .. Len(s)
    PROVE  Without(s, k) \in Seq(S) /\ IsWithout(Without(s, k), s, k)
  <1> DEFINE f == SubSeq(s, 1, k - 1)  g == From(s, k + 1)  r == Without(s, k)
  <1>0. Len(s) \in Nat /\ k \in 1 .. Len(s) + 1 /\ k + 1 \in 1 .. Len(s) + 1
        /\ Len(s) - (k + 1) + 1 = Len(s) - k
    BY LenProperties
  <1>1. f \in Seq(S) /\ Len(f) = k - 1 /\ \A i \in 1 .. k - 1 : f[i] = s[i]
    BY <1>0, Before
  <1>2. g \in Seq(S) /\ Len(g) = Len(s) - k /\ \A i \in 1 .. Len(s) - k : g[i] = s[(k + 1) + i - 1]
    BY <1>0, FromThere
  <1>3. r = f \o g
    BY DEF Without
  <1> HIDE DEF f, g, r
  <1>4. /\ r \in Seq(S) /\ Len(r) = Len(f) + Len(g)
        /\ \A i \in 1 .. Len(f) : r[i] = f[i]
        /\ \A i \in 1 .. Len(g) : r[Len(f) + i] = g[i]
    <2>1. f \in Seq(S) /\ g \in Seq(S)
      BY <1>1, <1>2
    <2>2. /\ f \o g \in Seq(S) /\ Len(f \o g) = Len(f) + Len(g)
          /\ \A i \in 1 .. Len(f) : (f \o g)[i] = f[i]
          /\ \A i \in 1 .. Len(g) : (f \o g)[Len(f) + i] = g[i]
      BY <2>1, Joined
    <2> QED BY <1>3, <2>2
  <1>5. Len(r) = Len(s) - 1 /\ \A i \in 1 .. k - 1 : r[i] = s[i]
    BY <1>0, <1>1, <1>2, <1>4
  <1>6. ASSUME NEW i \in k .. Len(s) - 1 PROVE r[i] = s[i + 1]
    <2>1. i - (k - 1) \in 1 .. Len(s) - k /\ (k - 1) + (i - (k - 1)) = i
          /\ (k + 1) + (i - (k - 1)) - 1 = i + 1
      BY <1>0
    <2>2. r[(k - 1) + (i - (k - 1))] = g[i - (k - 1)]
      BY <1>1, <1>2, <1>4, <2>1
    <2> QED BY <1>2, <2>1, <2>2
  <1> QED BY <1>4, <1>5, <1>6 DEF r, IsWithout

(* A list of timers, without one.                                          *)
LEMMA Unlisted ==
    ASSUME NEW S, NEW s \in Seq(S), NEW k \in 1 .. Len(s), NoRepeats(s)
    PROVE  /\ Without(s, k) \in Seq(S) /\ NoRepeats(Without(s, k))
           /\ Elements(Without(s, k)) = Elements(s) \ {s[k]}
  BY Removed, Dropped

-----------------------------------------------------------------------------
(* The active timers.  Names(s) are the timers of the entries of s.        *)

Names(s) == [i \in 1 .. Len(s) |-> s[i].timer]

LEMMA EntryType == ASSUME NEW t \in Timer, NEW n \in Nat PROVE Alone(t, n) \in Entry /\ Alone(t, n).timer = t
  BY DEF Alone, Entry

LEMMA NamesOf ==
    ASSUME NEW s \in Seq(Entry)
    PROVE  /\ Names(s) \in Seq(Timer) /\ Len(Names(s)) = Len(s) /\ Len(s) \in Nat
           /\ \A i \in 1 .. Len(s) : Names(s)[i] = s[i].timer
           /\ Timers(s) = Elements(Names(s))
           /\ \A i \in 1 .. Len(s) : s[i] \in Entry
  <1>1. /\ Len(s) \in Nat /\ DOMAIN s = 1 .. Len(s)
        /\ \A i \in 1 .. Len(s) : s[i] \in Entry
    BY LenProperties, ElementOfSeq
  <1>2. Names(s) \in [1 .. Len(s) -> Timer]
    BY <1>1 DEF Names, Entry
  <1>3. Names(s) \in Seq(Timer) /\ Len(Names(s)) = Len(s)
    BY <1>1, <1>2, SeqDef
  <1>4. DOMAIN Names(s) = DOMAIN s /\ \A i \in 1 .. Len(s) : Names(s)[i] = s[i].timer
    BY <1>1 DEF Names
  <1> QED BY <1>1, <1>3, <1>4 DEF Timers, Elements

(* A list of another length, with times of its own.                        *)
LEMMA EntriesOf ==
    ASSUME NEW n \in Nat, NEW s \in [1 .. n -> Entry]
    PROVE  s \in Seq(Entry) /\ Len(s) = n
  BY SeqDef

(* The first entry's time is another, the timers are the same.             *)
LEMMA LaterEntries ==
    ASSUME NEW s \in Seq(Entry), NEW n \in Nat
    PROVE  /\ LaterBy(s, n) \in Seq(Entry) /\ Len(LaterBy(s, n)) = Len(s)
           /\ \A i \in 1 .. Len(s) :
                 /\ LaterBy(s, n)[i].timer = s[i].timer
                 /\ LaterBy(s, n)[i].time = s[i].time + (IF i = 1 THEN n ELSE 0)
  <1>1. CASE s = << >>
    BY <1>1 DEF LaterBy
  <1>2. CASE s # << >>
    <2> DEFINE e == Alone(s[1].timer, s[1].time + n)
    <2>1. /\ Len(s) \in Nat /\ 1 \in 1 .. Len(s) /\ \A i \in 1 .. Len(s) : s[i] \in Entry
      BY <1>2, EmptySeq, NamesOf
    <2>2. e \in Entry /\ e.timer = s[1].timer /\ e.time = s[1].time + n
      BY <2>1 DEF Entry, Alone
    <2>3. LaterBy(s, n) = [s EXCEPT ![1] = e]
      <3>1. [s[1] EXCEPT !.time = s[1].time + n] = e
        BY <2>1 DEF Entry, Alone
      <3> QED BY <1>2, <3>1 DEF LaterBy
    <2> HIDE DEF e
    <2>4. /\ LaterBy(s, n) \in Seq(Entry) /\ Len(LaterBy(s, n)) = Len(s)
          /\ \A i \in 1 .. Len(s) : LaterBy(s, n)[i] = IF i = 1 THEN e ELSE s[i]
      BY <2>1, <2>2, <2>3, ExceptSeq
    <2>5. \A i \in 1 .. Len(s) : s[i].time \in Nat
      BY <2>1 DEF Entry
    <2> QED BY <2>2, <2>4, <2>5
  <1> QED BY <1>1, <1>2

(* The list from an entry on, with another time for that one.              *)
LEMMA FromWithEntries ==
    ASSUME active \in Seq(Entry), NEW k \in 1 .. Len(active) + 1, NEW n,
           k <= Len(active) => n \in Nat
    PROVE  /\ FromWith(k, n) \in Seq(Entry) /\ Len(FromWith(k, n)) = Len(active) - k + 1
           /\ \A i \in 1 .. Len(active) - k + 1 : FromWith(k, n)[i].timer = active[k + i - 1].timer
           /\ k <= Len(active) => FromWith(k, n)[1].time = n
           /\ \A i \in 2 .. Len(active) - k + 1 : FromWith(k, n)[i] = active[k + i - 1]
  <1>0. Len(active) \in Nat /\ \A i \in 1 .. Len(active) : active[i] \in Entry
    BY NamesOf
  <1>1. CASE k > Len(active)
    BY <1>0, <1>1 DEF FromWith
  <1>2. CASE k <= Len(active)
    <2> DEFINE f == <<Alone(active[k].timer, n)>>  g == From(active, k + 1)  r == FromWith(k, n)
    <2>1. f \in Seq(Entry) /\ Len(f) = 1 /\ f[1].timer = active[k].timer /\ f[1].time = n
      BY <1>0, <1>2 DEF Entry, Alone
    <2>2. /\ g \in Seq(Entry) /\ Len(g) = Len(active) - k
          /\ \A i \in 1 .. Len(active) - k : g[i] = active[(k + 1) + i - 1]
      <3>1. k + 1 \in 1 .. Len(active) + 1 /\ Len(active) - (k + 1) + 1 = Len(active) - k
        BY <1>0, <1>2
      <3> QED BY <3>1, FromThere
    <2>3. r = f \o g
      BY <1>0, <1>2 DEF FromWith
    <2> HIDE DEF f, g, r
    <2>4. /\ f \o g \in Seq(Entry) /\ Len(f \o g) = Len(f) + Len(g)
          /\ \A i \in 1 .. Len(f) : (f \o g)[i] = f[i]
          /\ \A i \in 1 .. Len(g) : (f \o g)[Len(f) + i] = g[i]
      <3>1. f \in Seq(Entry) /\ g \in Seq(Entry)
        BY <2>1, <2>2
      <3> QED BY <3>1, Joined
    <2>5. /\ r \in Seq(Entry) /\ Len(r) = Len(active) - k + 1 /\ r[1] = f[1]
          /\ \A i \in 1 .. Len(active) - k : r[1 + i] = active[(k + 1) + i - 1]
      BY <1>0, <2>1, <2>2, <2>3, <2>4
    <2>6. ASSUME NEW i \in 1 .. Len(active) - k + 1 PROVE r[i].timer = active[k + i - 1].timer
      <3>1. CASE i = 1
        BY <1>0, <2>1, <2>5, <3>1
      <3>2. CASE i # 1
        <4>1. i - 1 \in 1 .. Len(active) - k /\ 1 + (i - 1) = i /\ (k + 1) + (i - 1) - 1 = k + i - 1
          BY <1>0, <3>2
        <4> QED BY <2>5, <4>1
      <3> QED BY <3>1, <3>2
    <2>7. ASSUME NEW i \in 2 .. Len(active) - k + 1 PROVE r[i] = active[k + i - 1]
      <3>1. i - 1 \in 1 .. Len(active) - k /\ 1 + (i - 1) = i /\ (k + 1) + (i - 1) - 1 = k + i - 1
        BY <1>0, <1>2
      <3> QED BY <2>5, <3>1
    <2> QED BY <2>1, <2>5, <2>6, <2>7 DEF r
  <1> QED BY <1>0, <1>1, <1>2

-----------------------------------------------------------------------------
(* What each operation does to the list of active timers                   *)

(* t is put in somewhere, or taken out.                                    *)
Enlists(t) ==
    /\ active' \in Seq(Entry)
    /\ \E k \in 1 .. Len(active) + 1 :
          IsWith(Names(active'), Names(active), k) /\ Names(active')[k] = t

Delists(t) ==
    /\ active' \in Seq(Entry)
    /\ \E k \in 1 .. Len(active) :
          IsWithout(Names(active'), Names(active), k) /\ Names(active)[k] = t

Loaded(n) == IF n > DELTA THEN n - DELTA ELSE DELTA

LEMMA HalStartLoads ==
    ASSUME NEW n \in Nat, HalStart(n)
    PROVE  enabled' = TRUE /\ elapsed' = 0 /\ load' = Loaded(n) /\ load' \in Nat /\ load' > 0
  BY DEF HalStart, Loaded, DELTA

LEMMA RawValue ==
    ASSUME load \in Nat, elapsed \in Nat
    PROVE  /\ raw_value \in Nat /\ raw_value <= load
           /\ raw_value = 0 => elapsed - load \in Nat
  BY DEF raw_value

LEMMA InsertFirstLists ==
    ASSUME active \in Seq(Entry), active # << >>, load \in Nat, elapsed \in Nat,
           NEW t \in Timer, NEW n \in Nat, raw_value > n, InsertFirst(t, n)
    PROVE  Enlists(t) /\ active' # << >> /\ active'[1].time = n
  <1> DEFINE f == <<Alone(t, n), Alone(active[1].timer, raw_value - n)>>  g == Tail(active)
  <1>0. /\ Len(active) \in Nat /\ 1 \in 1 .. Len(active)
        /\ \A i \in 1 .. Len(active) : active[i] \in Entry
    BY EmptySeq, NamesOf
  <1>1. /\ f \in Seq(Entry) /\ Len(f) = 2
        /\ f[1].timer = t /\ f[1].time = n /\ f[2].timer = active[1].timer
    <2>1. raw_value - n \in Nat
      BY RawValue
    <2>2. Alone(t, n) \in Entry /\ Alone(active[1].timer, raw_value - n) \in Entry
      BY <1>0, <2>1 DEF Entry, Alone
    <2> QED BY <2>2 DEF Alone
  <1>2. /\ g \in Seq(Entry) /\ Len(g) = Len(active) - 1
        /\ \A i \in 1 .. Len(active) - 1 : g[i] = active[i + 1]
    BY HeadTailProperties
  <1>3. active' = f \o g
    BY DEF InsertFirst
  <1> HIDE DEF f, g
  <1>4. /\ active' \in Seq(Entry) /\ Len(active') = Len(f) + Len(g)
        /\ \A i \in 1 .. Len(f) : active'[i] = f[i]
        /\ \A i \in 1 .. Len(g) : active'[Len(f) + i] = g[i]
    <2>1. f \in Seq(Entry) /\ g \in Seq(Entry)
      BY <1>1, <1>2
    <2>2. /\ f \o g \in Seq(Entry) /\ Len(f \o g) = Len(f) + Len(g)
          /\ \A i \in 1 .. Len(f) : (f \o g)[i] = f[i]
          /\ \A i \in 1 .. Len(g) : (f \o g)[Len(f) + i] = g[i]
      BY <2>1, Joined
    <2> QED BY <1>3, <2>2
  <1>5. /\ Len(active') = Len(active) + 1 /\ active'[1] = f[1] /\ active'[2] = f[2]
        /\ \A i \in 1 .. Len(active) - 1 : active'[2 + i] = active[i + 1]
    BY <1>0, <1>1, <1>2, <1>4
  <1>6. ASSUME NEW i \in 2 .. Len(active) + 1 PROVE active'[i].timer = active[i - 1].timer
    <2>1. CASE i = 2
      BY <1>1, <1>5, <2>1
    <2>2. CASE i # 2
      <3>1. i - 2 \in 1 .. Len(active) - 1 /\ 2 + (i - 2) = i /\ (i - 2) + 1 = i - 1
        BY <1>0, <2>2
      <3> QED BY <1>5, <3>1
    <2> QED BY <2>1, <2>2
  <1>7. IsWith(Names(active'), Names(active), 1) /\ Names(active')[1] = t
    <2>1. /\ Len(Names(active)) = Len(active) /\ Len(Names(active')) = Len(active')
          /\ \A i \in 1 .. Len(active) : Names(active)[i] = active[i].timer
          /\ \A i \in 1 .. Len(active') : Names(active')[i] = active'[i].timer
      BY <1>4, NamesOf
    <2>2. 1 \in 1 .. Len(active') /\ 1 .. 1 - 1 = {} /\ Len(Names(active')) = Len(Names(active)) + 1
      BY <1>0, <1>5, <2>1
    <2>3. ASSUME NEW i \in 1 + 1 .. Len(Names(active)) + 1 PROVE Names(active')[i] = Names(active)[i - 1]
      <3>1. i \in 2 .. Len(active) + 1 /\ i \in 1 .. Len(active') /\ i - 1 \in 1 .. Len(active)
        BY <1>0, <1>5, <2>1
      <3> QED BY <1>6, <2>1, <3>1
    <2> QED BY <1>1, <1>5, <2>1, <2>2, <2>3 DEF IsWith
  <1>8. active' # << >> /\ 1 \in 1 .. Len(active) + 1
    BY <1>0, <1>5
  <1> QED BY <1>1, <1>4, <1>5, <1>7, <1>8 DEF Enlists

LEMMA InsertLaterLists ==
    ASSUME active \in Seq(Entry), NEW t \in Timer, NEW n \in Nat, InsertLater(t, n)
    PROVE  Enlists(t) /\ active' # << >> /\ active'[1].time = active[1].time
  <1>0. /\ Len(active) \in Nat /\ DOMAIN active = 1 .. Len(active)
        /\ \A i \in 1 .. Len(active) : active[i] \in Entry
    BY NamesOf, LenProperties
  <1> DEFINE d == n - raw_value
  <1>1. PICK k \in 1 .. Len(active) :
              /\ IsPlace(k, d)
              /\ active' = SubSeq(active, 1, k) \o <<Alone(t, d - Ahead(k))>>
                           \o FromWith(k + 1, Ahead(k + 1) - d)
    BY <1>0 DEF InsertLater
  <1>2. /\ d - Ahead(k) \in Nat
        /\ k < Len(active) => Ahead(k + 1) - d \in Nat
    BY <1>1 DEF IsPlace
  <1> DEFINE f == SubSeq(active, 1, k)  e == <<Alone(t, d - Ahead(k))>>
             g == FromWith(k + 1, Ahead(k + 1) - d)
  <1>3. /\ f \in Seq(Entry) /\ Len(f) = k
        /\ \A i \in 1 .. k : f[i] = active[i]
    <2>1. k + 1 \in 1 .. Len(active) + 1 /\ (k + 1) - 1 = k
      BY <1>0
    <2> QED BY <2>1, Before
  <1>4. e \in Seq(Entry) /\ Len(e) = 1 /\ e[1].timer = t
    BY <1>2 DEF Entry, Alone
  <1>5. /\ g \in Seq(Entry) /\ Len(g) = Len(active) - k
        /\ \A i \in 1 .. Len(active) - k : g[i].timer = active[(k + 1) + i - 1].timer
    <2>1. k + 1 \in 1 .. Len(active) + 1 /\ Len(active) - (k + 1) + 1 = Len(active) - k
          /\ (k + 1 <= Len(active) => Ahead(k + 1) - d \in Nat)
      BY <1>0, <1>2
    <2> HIDE DEF d
    <2> QED BY <2>1, FromWithEntries
  <1>6. active' = (f \o e) \o g
    BY <1>1
  <1> HIDE DEF d, f, e, g
  <1> DEFINE fe == f \o e
  <1>7. /\ fe \in Seq(Entry) /\ Len(fe) = k + 1
        /\ \A i \in 1 .. k : fe[i] = active[i]
        /\ fe[k + 1].timer = t
    <2>1. f \in Seq(Entry) /\ e \in Seq(Entry)
      BY <1>3, <1>4
    <2>2. /\ fe \in Seq(Entry) /\ Len(fe) = Len(f) + Len(e)
          /\ \A i \in 1 .. Len(f) : fe[i] = f[i]
          /\ \A i \in 1 .. Len(e) : fe[Len(f) + i] = e[i]
      BY <2>1, Joined
    <2>3. 1 \in 1 .. Len(e) /\ fe[k + 1] = e[1]
      BY <1>3, <1>4, <2>2
    <2> HIDE DEF fe
    <2> QED BY <1>3, <1>4, <2>2, <2>3
  <1> HIDE DEF fe
  <1>8. /\ active' \in Seq(Entry) /\ Len(active') = Len(fe) + Len(g)
        /\ \A i \in 1 .. Len(fe) : active'[i] = fe[i]
        /\ \A i \in 1 .. Len(g) : active'[Len(fe) + i] = g[i]
    <2>1. fe \in Seq(Entry) /\ g \in Seq(Entry)
      BY <1>5, <1>7
    <2>2. /\ fe \o g \in Seq(Entry) /\ Len(fe \o g) = Len(fe) + Len(g)
          /\ \A i \in 1 .. Len(fe) : (fe \o g)[i] = fe[i]
          /\ \A i \in 1 .. Len(g) : (fe \o g)[Len(fe) + i] = g[i]
      BY <2>1, Joined
    <2> QED BY <1>6, <2>2 DEF fe
  <1>9. /\ Len(active') = Len(active) + 1 /\ active'[k + 1].timer = t
        /\ \A i \in 1 .. k : active'[i] = active[i]
    <2>1. k \in Nat /\ k + 1 \in 1 .. Len(fe) /\ \A i \in 1 .. k : i \in 1 .. Len(fe)
      BY <1>0, <1>7
    <2> QED BY <1>0, <1>5, <1>7, <1>8, <2>1
  <1>10. ASSUME NEW i \in (k + 1) + 1 .. Len(active) + 1 PROVE active'[i].timer = active[i - 1].timer
    <2>1. /\ i - (k + 1) \in 1 .. Len(active) - k /\ (k + 1) + (i - (k + 1)) = i
          /\ (k + 1) + (i - (k + 1)) - 1 = i - 1
      BY <1>0
    <2>2. active'[(k + 1) + (i - (k + 1))] = g[i - (k + 1)]
      BY <1>5, <1>7, <1>8, <2>1
    <2>3. g[i - (k + 1)].timer = active[(k + 1) + (i - (k + 1)) - 1].timer
      BY <1>5, <2>1
    <2> QED BY <2>1, <2>2, <2>3
  <1>11. IsWith(Names(active'), Names(active), k + 1) /\ Names(active')[k + 1] = t
    <2>1. /\ Len(Names(active)) = Len(active) /\ Len(Names(active')) = Len(active')
          /\ \A i \in 1 .. Len(active) : Names(active)[i] = active[i].timer
          /\ \A i \in 1 .. Len(active') : Names(active')[i] = active'[i].timer
      BY <1>8, NamesOf
    <2>2. k + 1 \in 1 .. Len(active') /\ Len(Names(active')) = Len(Names(active)) + 1
      BY <1>0, <1>9, <2>1
    <2>3. ASSUME NEW i \in 1 .. (k + 1) - 1 PROVE Names(active')[i] = Names(active)[i]
      <3>1. i \in 1 .. k /\ i \in 1 .. Len(active') /\ i \in 1 .. Len(active)
        BY <1>0, <1>9
      <3> QED BY <1>9, <2>1, <3>1
    <2>4. ASSUME NEW i \in (k + 1) + 1 .. Len(Names(active)) + 1
          PROVE  Names(active')[i] = Names(active)[i - 1]
      <3>1. /\ i \in (k + 1) + 1 .. Len(active) + 1 /\ i \in 1 .. Len(active')
            /\ i - 1 \in 1 .. Len(active)
        BY <1>0, <1>9, <2>1
      <3> QED BY <1>10, <2>1, <3>1
    <2> QED BY <1>9, <2>1, <2>2, <2>3, <2>4 DEF IsWith
  <1>12. active' # << >> /\ k + 1 \in 1 .. Len(active) + 1 /\ active'[1] = active[1]
    BY <1>0, <1>9
  <1> QED BY <1>8, <1>11, <1>12 DEF Enlists

LEMMA RestEntries ==
    ASSUME active \in Seq(Entry), active # << >>, load \in Nat, elapsed \in Nat
    PROVE  /\ Rest \in Seq(Entry) /\ Len(Rest) = Len(active) - 1
           /\ \A i \in 1 .. Len(active) - 1 : Rest[i].timer = active[i + 1].timer
  <1>0. /\ Len(active) \in Nat /\ Len(active) - 1 \in Nat
        /\ \A i \in 1 .. Len(active) : active[i] \in Entry
    BY EmptySeq, NamesOf
  <1>1. CASE raw_value = 0
    <2>1. PICK n : n = Larger(elapsed - active[1].time, 0)
      OBVIOUS
    <2> DEFINE e(i) == IF Ahead(i) - n \in Nat THEN active[i + 1]
                       ELSE Alone(active[i + 1].timer,
                                  IF Ahead(i + 1) - n \in Nat THEN Ahead(i + 1) - n ELSE 0)
    <2>2. ASSUME NEW i \in 1 .. Len(active) - 1
          PROVE  e(i) \in Entry /\ e(i).timer = active[i + 1].timer
      <3>1. active[i + 1] \in Entry
        BY <1>0
      <3> QED BY <3>1 DEF Entry, Alone
    <2>3. Rest = [i \in 1 .. Len(active) - 1 |-> e(i)]
      BY <1>1, <2>1 DEF Rest, Deducted
    <2> HIDE DEF e
    <2>4. Rest \in [1 .. Len(active) - 1 -> Entry]
      BY <2>2, <2>3
    <2> QED BY <1>0, <2>2, <2>3, <2>4, EntriesOf
  <1>2. CASE raw_value # 0
    <2>1. /\ Tail(active) \in Seq(Entry) /\ Len(Tail(active)) = Len(active) - 1
          /\ \A i \in 1 .. Len(active) - 1 : Tail(active)[i] = active[i + 1]
      BY HeadTailProperties
    <2>2. PICK f : f = Tail(active)
      OBVIOUS
    <2>3. PICK r : r = LaterBy(f, raw_value)
      OBVIOUS
    <2>4. /\ r \in Seq(Entry) /\ Len(r) = Len(f)
          /\ \A i \in 1 .. Len(f) : r[i].timer = f[i].timer
      <3>1. f \in Seq(Entry) /\ raw_value \in Nat
        BY <2>1, <2>2, RawValue
      <3> QED BY <2>3, <3>1, LaterEntries
    <2>5. Rest = r
      BY <1>2, <2>2, <2>3 DEF Rest
    <2> QED BY <2>1, <2>2, <2>4, <2>5
  <1> QED BY <1>1, <1>2

LEMMA StopFirstLists ==
    ASSUME active \in Seq(Entry), active # << >>, load \in Nat, elapsed \in Nat, StopFirst
    PROVE  Delists(active[1].timer) /\ (Len(active) = 1 <=> active' = << >>)
  <1>0. /\ Len(active) \in Nat \ {0} /\ \A i \in 1 .. Len(active) : active[i] \in Entry
    BY EmptySeq, NamesOf
  <1>1. /\ active' \in Seq(Entry) /\ Len(active') = Len(active) - 1
        /\ \A i \in 1 .. Len(active) - 1 : active'[i].timer = active[i + 1].timer
    BY RestEntries DEF StopFirst
  <1>2. IsWithout(Names(active'), Names(active), 1) /\ Names(active)[1] = active[1].timer
    <2>1. /\ Len(Names(active)) = Len(active) /\ Len(Names(active')) = Len(active')
          /\ \A i \in 1 .. Len(active) : Names(active)[i] = active[i].timer
          /\ \A i \in 1 .. Len(active') : Names(active')[i] = active'[i].timer
      BY <1>1, NamesOf
    <2>2. 1 .. 1 - 1 = {} /\ 1 \in 1 .. Len(active)
      BY <1>0
    <2>3. ASSUME NEW i \in 1 .. Len(Names(active)) - 1 PROVE Names(active')[i] = Names(active)[i + 1]
      <3>1. i \in 1 .. Len(active) - 1 /\ i \in 1 .. Len(active') /\ i + 1 \in 1 .. Len(active)
        BY <1>0, <1>1, <2>1
      <3> QED BY <1>1, <2>1, <3>1
    <2> QED BY <1>1, <2>1, <2>2, <2>3 DEF IsWithout
  <1>3. 1 \in 1 .. Len(active)
    BY <1>0
  <1>4. Len(active) = 1 <=> active' = << >>
    BY <1>0, <1>1, EmptySeq
  <1> QED BY <1>1, <1>2, <1>3, <1>4 DEF Delists

LEMMA StopLaterLists ==
    ASSUME active \in Seq(Entry), NEW t \in Timers(active), t # active[1].timer, StopLater(t)
    PROVE  Delists(t) /\ active' # << >> /\ active'[1].time = active[1].time
  <1>0. /\ Len(active) \in Nat /\ DOMAIN active = 1 .. Len(active)
        /\ \A i \in 1 .. Len(active) : active[i] \in Entry
    BY NamesOf, LenProperties
  <1>1. PICK k \in 1 .. Len(active) :
              /\ active[k].timer = t
              /\ active' = SubSeq(active, 1, k - 1) \o LaterBy(From(active, k + 1), active[k].time)
    <2> DEFINE c == CHOOSE k \in DOMAIN active : active[k].timer = t
    <2>1. c \in DOMAIN active /\ active[c].timer = t
      BY DEF Timers
    <2>2. active' = SubSeq(active, 1, c - 1) \o LaterBy(From(active, c + 1), active[c].time)
      BY DEF StopLater
    <2> HIDE DEF c
    <2> QED BY <1>0, <2>1, <2>2
  <1>2. k # 1 /\ k - 1 \in Nat \ {0} /\ active[k].time \in Nat
    BY <1>0, <1>1 DEF Entry
  <1>3. PICK f : f = SubSeq(active, 1, k - 1)
    OBVIOUS
  <1>4. PICK h : h = From(active, k + 1)
    OBVIOUS
  <1>5. PICK g : g = LaterBy(h, active[k].time)
    OBVIOUS
  <1>6. f \in Seq(Entry) /\ Len(f) = k - 1 /\ \A i \in 1 .. k - 1 : f[i] = active[i]
    <2>1. k \in 1 .. Len(active) + 1
      BY <1>0
    <2> QED BY <1>3, <2>1, Before
  <1>7. /\ h \in Seq(Entry) /\ Len(h) = Len(active) - k
        /\ \A i \in 1 .. Len(active) - k : h[i] = active[(k + 1) + i - 1]
    <2>1. k + 1 \in 1 .. Len(active) + 1 /\ Len(active) - (k + 1) + 1 = Len(active) - k
      BY <1>0
    <2> QED BY <1>4, <2>1, FromThere
  <1>8. /\ g \in Seq(Entry) /\ Len(g) = Len(active) - k
        /\ \A i \in 1 .. Len(active) - k : g[i].timer = active[(k + 1) + i - 1].timer
    <2>1. /\ g \in Seq(Entry) /\ Len(g) = Len(h)
          /\ \A i \in 1 .. Len(h) : g[i].timer = h[i].timer
      BY <1>2, <1>5, <1>7, LaterEntries
    <2> QED BY <1>7, <2>1
  <1>9. active' = f \o g
    BY <1>1, <1>3, <1>4, <1>5
  <1>10. /\ active' \in Seq(Entry) /\ Len(active') = Len(f) + Len(g)
         /\ \A i \in 1 .. Len(f) : active'[i] = f[i]
         /\ \A i \in 1 .. Len(g) : active'[Len(f) + i] = g[i]
    <2>1. f \in Seq(Entry) /\ g \in Seq(Entry)
      BY <1>6, <1>8
    <2>2. /\ f \o g \in Seq(Entry) /\ Len(f \o g) = Len(f) + Len(g)
          /\ \A i \in 1 .. Len(f) : (f \o g)[i] = f[i]
          /\ \A i \in 1 .. Len(g) : (f \o g)[Len(f) + i] = g[i]
      BY <2>1, Joined
    <2> QED BY <1>9, <2>2
  <1>11. Len(active') = Len(active) - 1 /\ \A i \in 1 .. k - 1 : active'[i] = active[i]
    BY <1>0, <1>6, <1>8, <1>10
  <1>12. ASSUME NEW i \in k .. Len(active) - 1 PROVE active'[i].timer = active[i + 1].timer
    <2>1. /\ i - (k - 1) \in 1 .. Len(active) - k /\ (k - 1) + (i - (k - 1)) = i
          /\ (k + 1) + (i - (k - 1)) - 1 = i + 1
      BY <1>0
    <2>2. active'[(k - 1) + (i - (k - 1))] = g[i - (k - 1)]
      BY <1>6, <1>8, <1>10, <2>1
    <2>3. g[i - (k - 1)].timer = active[(k + 1) + (i - (k - 1)) - 1].timer
      BY <1>8, <2>1
    <2> QED BY <2>1, <2>2, <2>3
  <1>13. IsWithout(Names(active'), Names(active), k) /\ Names(active)[k] = t
    <2>1. /\ Len(Names(active)) = Len(active) /\ Len(Names(active')) = Len(active')
          /\ \A i \in 1 .. Len(active) : Names(active)[i] = active[i].timer
          /\ \A i \in 1 .. Len(active') : Names(active')[i] = active'[i].timer
      BY <1>10, NamesOf
    <2>2. ASSUME NEW i \in 1 .. k - 1 PROVE Names(active')[i] = Names(active)[i]
      <3>1. i \in 1 .. Len(active') /\ i \in 1 .. Len(active)
        BY <1>0, <1>11
      <3> QED BY <1>11, <2>1, <3>1
    <2>3. ASSUME NEW i \in k .. Len(Names(active)) - 1 PROVE Names(active')[i] = Names(active)[i + 1]
      <3>1. i \in k .. Len(active) - 1 /\ i \in 1 .. Len(active') /\ i + 1 \in 1 .. Len(active)
        BY <1>0, <1>11, <2>1
      <3> QED BY <1>12, <2>1, <3>1
    <2> QED BY <1>1, <1>11, <2>1, <2>2, <2>3 DEF IsWithout
  <1>14. active' # << >> /\ active'[1] = active[1]
    BY <1>0, <1>2, <1>11
  <1> QED BY <1>10, <1>13, <1>14 DEF Delists

(* The handler takes the first timers, in their order.                     *)
LEMMA RemainEntries ==
    ASSUME active \in Seq(Entry), NEW n \in DOMAIN active, Expired(n)
    PROVE  LET f == [i \in 1 .. n |-> active[i].timer]
           IN  /\ Remain(n) \in Seq(Entry) /\ f \in Seq(Timer) /\ f # << >>
               /\ IsBoth(Names(active), f, Names(Remain(n)))
  <1>0. /\ Len(active) \in Nat /\ n \in 1 .. Len(active)
        /\ \A i \in 1 .. Len(active) : active[i] \in Entry
    BY NamesOf, LenProperties
  <1>1. PICK d : d = Ahead(n + 1) - late
    OBVIOUS
  <1>2. PICK r : r = FromWith(n + 1, d)
    OBVIOUS
  <1>3. /\ r \in Seq(Entry) /\ Len(r) = Len(active) - n
        /\ \A i \in 1 .. Len(active) - n : r[i].timer = active[(n + 1) + i - 1].timer
    <2>1. /\ n + 1 \in 1 .. Len(active) + 1 /\ Len(active) - (n + 1) + 1 = Len(active) - n
          /\ (n + 1 <= Len(active) => d \in Nat)
      BY <1>0, <1>1 DEF Expired
    <2> QED BY <1>2, <2>1, FromWithEntries
  <1>4. Remain(n) = r
    BY <1>1, <1>2 DEF Remain
  <1>5. PICK f : f = [i \in 1 .. n |-> active[i].timer]
    OBVIOUS
  <1>6. f \in Seq(Timer) /\ Len(f) = n /\ f # << >>
    <2>1. f \in [1 .. n -> Timer]
      BY <1>0, <1>5 DEF Entry
    <2>2. f \in Seq(Timer) /\ Len(f) = n
      BY <1>0, <2>1, SeqDef
    <2> QED BY <1>0, <2>2, EmptySeq
  <1>7. IsBoth(Names(active), f, Names(r))
    <2>1. /\ Len(Names(active)) = Len(active) /\ Len(Names(r)) = Len(r)
          /\ \A i \in 1 .. Len(active) : Names(active)[i] = active[i].timer
          /\ \A i \in 1 .. Len(r) : Names(r)[i] = r[i].timer
      BY <1>3, NamesOf
    <2>2. ASSUME NEW i \in 1 .. Len(f) PROVE f[i] = Names(active)[i]
      BY <1>0, <1>5, <1>6, <2>1
    <2>3. ASSUME NEW i \in 1 .. Len(Names(r)) PROVE Names(r)[i] = Names(active)[Len(f) + i]
      <3>1. /\ i \in 1 .. Len(active) - n /\ i \in 1 .. Len(r)
            /\ (n + 1) + i - 1 = Len(f) + i /\ Len(f) + i \in 1 .. Len(active)
        BY <1>0, <1>3, <1>6, <2>1
      <3> QED BY <1>3, <2>1, <3>1
    <2>4. Len(Names(active)) = Len(f) + Len(Names(r))
      BY <1>0, <1>3, <1>6, <2>1
    <2> QED BY <2>2, <2>3, <2>4 DEF IsBoth
  <1> QED BY <1>3, <1>4, <1>5, <1>6, <1>7

-----------------------------------------------------------------------------
(* The invariant                                                           *)

(* Fired timers wait while the handler is between two callbacks only.      *)
HandlerInv ==
    /\ entered => running = NoTimer
    /\ running = NoTimer => fired = << >>

(* The hardware has what the first timer asked for.                        *)
HwInv ==
    /\ active = << >> => ~enabled
    /\ active # << >> => enabled /\ load = Loaded(active[1].time)
    /\ Armed

IInv == TypeOK /\ ListsAgree /\ HandlerInv /\ NoCollapse /\ HwInv

LEMMA Distinct ==
    ASSUME NEW s \in Seq(Entry)
    PROVE  NoRepeats(Names(s)) <=> \A i, j \in DOMAIN s : s[i].timer = s[j].timer => i = j
  <1>1. DOMAIN Names(s) = DOMAIN s /\ \A i \in DOMAIN s : Names(s)[i] = s[i].timer
    BY LenProperties DEF Names
  <1> QED BY <1>1 DEF NoRepeats

LEMMA Enlisted ==
    ASSUME active \in Seq(Entry), NoRepeats(Names(active)), NEW t,
           t \notin Timers(active), Enlists(t)
    PROVE  /\ active' \in Seq(Entry) /\ NoRepeats(Names(active'))
           /\ Timers(active') = Timers(active) \cup {t}
  <1>1. PICK k \in 1 .. Len(active) + 1 :
          IsWith(Names(active'), Names(active), k) /\ Names(active')[k] = t
    BY DEF Enlists
  <1>2. active' \in Seq(Entry)
    BY DEF Enlists
  <1>3. PICK a : a = Names(active)
    OBVIOUS
  <1>4. PICK b : b = Names(active')
    OBVIOUS
  <1>5. /\ a \in Seq(Timer) /\ b \in Seq(Timer) /\ k \in 1 .. Len(a) + 1
        /\ NoRepeats(a) /\ b[k] \notin Elements(a) /\ IsWith(b, a, k) /\ b[k] = t
        /\ Timers(active) = Elements(a) /\ Timers(active') = Elements(b)
    BY <1>1, <1>2, <1>3, <1>4, NamesOf
  <1>6. NoRepeats(b) /\ Elements(b) = Elements(a) \cup {b[k]}
    BY <1>5, Placed
  <1> QED BY <1>2, <1>4, <1>5, <1>6

LEMMA Delisted ==
    ASSUME active \in Seq(Entry), NoRepeats(Names(active)), NEW t, Delists(t)
    PROVE  /\ active' \in Seq(Entry) /\ NoRepeats(Names(active'))
           /\ Timers(active') = Timers(active) \ {t}
  <1>1. PICK k \in 1 .. Len(active) :
          IsWithout(Names(active'), Names(active), k) /\ Names(active)[k] = t
    BY DEF Delists
  <1>2. active' \in Seq(Entry)
    BY DEF Delists
  <1>3. PICK a : a = Names(active)
    OBVIOUS
  <1>4. PICK b : b = Names(active')
    OBVIOUS
  <1>5. /\ a \in Seq(Timer) /\ b \in Seq(Timer) /\ k \in 1 .. Len(a)
        /\ NoRepeats(a) /\ IsWithout(b, a, k) /\ a[k] = t
        /\ Timers(active) = Elements(a) /\ Timers(active') = Elements(b)
    BY <1>1, <1>2, <1>3, <1>4, NamesOf
  <1>6. NoRepeats(b) /\ Elements(b) = Elements(a) \ {a[k]}
    BY <1>5, Dropped
  <1> QED BY <1>2, <1>4, <1>5, <1>6

LEMMA InitInv == Init => IInv
  <1> USE HwTimerAssumption
  <1> SUFFICES ASSUME Init PROVE IInv
    OBVIOUS
  <1>1. free \in Seq(Timer) /\ Len(free) = HWTIMER_NUM /\ DOMAIN free = Timer
    <2>1. free \in [1 .. HWTIMER_NUM -> Timer]
      BY DEF Init, Timer
    <2> QED BY <2>1, SeqDef DEF Timer
  <1>2. active = << >> /\ fired = << >> /\ active \in Seq(Entry) /\ fired \in Seq(Timer)
        /\ DOMAIN active = {} /\ DOMAIN fired = {}
    BY EmptySeq, LenProperties DEF Init
  <1>3. TypeOK
    <2>1. state \in [Timer -> States] /\ due \in [Timer -> Int] /\ slack \in [Timer -> Nat]
      BY DEF Init, States
    <2>2. /\ taken \subseteq Timer /\ entered \in BOOLEAN /\ running \in Timer \cup {NoTimer}
          /\ enabled \in BOOLEAN /\ load \in Nat /\ elapsed \in Nat /\ pending \in BOOLEAN
          /\ failed \in BOOLEAN
      BY DEF Init
    <2> QED BY <1>1, <1>2, <2>1, <2>2 DEF TypeOK
  <1>4. Elements(free) = Timer /\ NoRepeats(free)
    BY <1>1 DEF Init, Elements, NoRepeats
  <1>5. Elements(fired) = {} /\ NoRepeats(fired) /\ Timers(active) = {}
    BY <1>2 DEF Elements, NoRepeats, Timers
  <1>6. ListsAgree
    BY <1>2, <1>4, <1>5 DEF Init, ListsAgree
  <1>7. HandlerInv /\ HwInv /\ NoCollapse
    BY <1>2 DEF Init, HandlerInv, HwInv, NoCollapse, Armed
  <1> QED BY <1>3, <1>6, <1>7 DEF IInv

-----------------------------------------------------------------------------
(* Time, and allocation                                                    *)

LEMMA TickInv == ASSUME IInv, Tick PROVE IInv'
  <1>1. TypeOK'
    BY DEF IInv, TypeOK, Tick, lists, handler
  <1>2. ListsAgree'
    BY DEF IInv, ListsAgree, Tick, lists, handler
  <1>3. HandlerInv' /\ NoCollapse'
    BY DEF IInv, HandlerInv, NoCollapse, Tick, lists, handler
  <1>4. HwInv'
    <2>1. /\ load \in Nat /\ elapsed \in Nat /\ HwInv
          /\ elapsed' = elapsed + 1 /\ UNCHANGED <<active, entered, enabled, load>>
      BY DEF IInv, TypeOK, Tick, lists, handler
    <2>2. /\ pending => pending'
          /\ elapsed + 1 = load => pending'
      BY Zenon DEF Tick
    <2> QED BY <2>1, <2>2 DEF HwInv, Armed
  <1> QED BY <1>1, <1>2, <1>3, <1>4 DEF IInv

LEMMA AllocTakeInv == ASSUME IInv, AllocTake PROVE IInv'
  <1>0. TypeOK /\ ListsAgree
    BY DEF IInv
  <1>1. /\ Head(free) \in Timer /\ Head(free) \in Elements(free)
        /\ Tail(free) \in Seq(Timer) /\ NoRepeats(Tail(free))
        /\ Elements(Tail(free)) = Elements(free) \ {Head(free)}
    <2>1. free \in Seq(Timer) /\ free # << >> /\ NoRepeats(free)
      BY <1>0 DEF TypeOK, ListsAgree, AllocTake
    <2> QED BY <2>1, Popped
  <1>2. /\ free' = Tail(free) /\ taken' = taken \cup {Head(free)}
        /\ UNCHANGED <<state, active, fired, handler, hw, ghost, failed>>
    BY DEF AllocTake
  <1>3. TypeOK'
    BY <1>0, <1>1, <1>2 DEF TypeOK, handler, hw, ghost
  <1>4. ListsAgree'
    BY <1>0, <1>1, <1>2 DEF ListsAgree, handler
  <1>5. HandlerInv' /\ NoCollapse' /\ HwInv'
    BY <1>2 DEF IInv, HandlerInv, NoCollapse, HwInv, Armed, handler, hw
  <1> QED BY <1>3, <1>4, <1>5 DEF IInv

LEMMA AllocSetInv == ASSUME IInv, NEW t \in Timer, AllocSet(t) PROVE IInv'
  <1>0. TypeOK /\ ListsAgree
    BY DEF IInv
  <1>1. state[t] = "FREE" /\ t \notin Elements(free)
    BY <1>0 DEF AllocSet, ListsAgree
  <1>2. /\ failed' = FALSE /\ state' = [state EXCEPT ![t] = "ALLOC"] /\ taken' = taken \ {t}
        /\ UNCHANGED <<free, active, fired, handler, hw, ghost>>
    BY <1>1 DEF AllocSet, lists
  <1>3. TypeOK'
    BY <1>0, <1>2 DEF TypeOK, States, handler, hw, ghost
  <1>4. ListsAgree'
    BY <1>0, <1>1, <1>2 DEF ListsAgree, TypeOK, handler
  <1>5. HandlerInv' /\ NoCollapse' /\ HwInv'
    BY <1>2 DEF IInv, HandlerInv, NoCollapse, HwInv, Armed, handler, hw
  <1> QED BY <1>3, <1>4, <1>5 DEF IInv

LEMMA FreeInv == ASSUME IInv, NEW t \in Timer, Free(t) PROVE IInv'
  <1>0. TypeOK /\ ListsAgree
    BY DEF IInv
  <1>1. state[t] = "ALLOC" /\ t \notin Elements(free) /\ t \notin taken
    BY <1>0 DEF Free, ListsAgree
  <1>2. /\ state' = [state EXCEPT ![t] = "FREE"] /\ free' = <<t>> \o free
        /\ UNCHANGED <<active, fired, taken, handler, hw, ghost, failed>>
    BY DEF Free
  <1>3. /\ free' \in Seq(Timer) /\ NoRepeats(free')
        /\ Elements(free') = Elements(free) \cup {t}
    <2>1. free \in Seq(Timer) /\ NoRepeats(free)
      BY <1>0 DEF TypeOK, ListsAgree
    <2> QED BY <1>1, <1>2, <2>1, Pushed
  <1>4. TypeOK'
    <2>1. /\ state' \in [Timer -> States]
          /\ UNCHANGED <<active, fired, taken, handler, hw, ghost, failed>>
      BY <1>0, <1>2 DEF TypeOK, States
    <2> QED BY <1>0, <1>3, <2>1 DEF TypeOK, handler, hw, ghost
  <1>5. ListsAgree'
    <2>1. /\ state' = [state EXCEPT ![t] = "FREE"]
          /\ UNCHANGED <<active, fired, taken, handler>>
      BY <1>2
    <2> QED BY <1>0, <1>1, <1>3, <2>1 DEF ListsAgree, TypeOK, handler
  <1>6. HandlerInv' /\ NoCollapse' /\ HwInv'
    BY <1>2 DEF IInv, HandlerInv, NoCollapse, HwInv, Armed, handler, hw
  <1> QED BY <1>4, <1>5, <1>6 DEF IInv

-----------------------------------------------------------------------------
(* hwtimer_start and hwtimer_stop                                          *)

LEMMA AloneLists ==
    ASSUME active = << >>, NEW t \in Timer, NEW n \in Nat, active' = <<Alone(t, n)>>
    PROVE  Enlists(t) /\ active' # << >> /\ active'[1].time = n
  <1>1. Alone(t, n) \in Entry /\ Alone(t, n).timer = t /\ Alone(t, n).time = n
    BY DEF Alone, Entry
  <1>2. active' \in Seq(Entry) /\ Len(active') = 1 /\ active'[1] = Alone(t, n) /\ active' # << >>
    BY <1>1
  <1>3. active \in Seq(Entry) /\ Len(active) = 0
    BY EmptySeq
  <1>4. /\ Len(Names(active)) = 0 /\ Len(Names(active')) = 1
        /\ Names(active')[1] = active'[1].timer
    <2>1. Len(Names(active)) = Len(active)
      BY <1>3, NamesOf
    <2>2. Len(Names(active')) = Len(active') /\ Names(active')[1] = active'[1].timer
      <3>1. 1 \in 1 .. Len(active')
        BY <1>2
      <3> QED BY <1>2, <3>1, NamesOf
    <2> QED BY <1>2, <1>3, <2>1, <2>2
  <1>5. IsWith(Names(active'), Names(active), 1)
    <2>1. 1 .. 1 - 1 = {} /\ 1 + 1 .. 0 + 1 = {} /\ 1 = 0 + 1
      OBVIOUS
    <2> QED BY <1>4, <2>1 DEF IsWith
  <1> QED BY <1>1, <1>2, <1>3, <1>4, <1>5 DEF Enlists

(* The timer is started once it is on the list.                            *)
LEMMA StartLists ==
    ASSUME TypeOK, ListsAgree, HandlerInv, NEW t \in Timer, Enlists(t),
           state[t] \in {"ALLOC", "CALLBACK"}, state' = [state EXCEPT ![t] = "ACTIVE"],
           UNCHANGED <<free, fired, taken, handler>>
    PROVE  ListsAgree' /\ HandlerInv' /\ active' \in Seq(Entry) /\ state' \in [Timer -> States]
  <1>0. active \in Seq(Entry) /\ NoRepeats(Names(active)) /\ t \notin Timers(active)
    BY Distinct DEF TypeOK, ListsAgree
  <1>1. /\ active' \in Seq(Entry) /\ NoRepeats(Names(active'))
        /\ Timers(active') = Timers(active) \cup {t}
    BY <1>0, Enlisted
  <1>2. \A i, j \in DOMAIN active' : active'[i].timer = active'[j].timer => i = j
    BY <1>1, Distinct
  <1>3. ListsAgree'
    <2>1. /\ NoRepeats(free') /\ NoRepeats(fired')
          /\ Elements(free') \cap taken' = {}
      BY DEF ListsAgree
    <2>2. /\ \A u \in Timer : state'[u] = IF u = t THEN "ACTIVE" ELSE state[u]
          /\ free' = free /\ fired' = fired /\ taken' = taken /\ running' = running
      BY DEF TypeOK, handler
    <2>3. Timers(active') = {u \in Timer : state'[u] = "ACTIVE"}
      BY <1>1, <2>2 DEF ListsAgree
    <2>4. /\ Elements(fired') = {u \in Timer : state'[u] = "FIRED"}
          /\ Elements(free') \cup taken' = {u \in Timer : state'[u] = "FREE"}
          /\ \A u \in Timer : state'[u] = "CALLBACK" => running' = u
      BY <2>2 DEF ListsAgree
    <2> QED BY <1>2, <2>1, <2>3, <2>4 DEF ListsAgree
  <1>4. HandlerInv' /\ state' \in [Timer -> States]
    BY DEF HandlerInv, TypeOK, States, handler
  <1> QED BY <1>1, <1>3, <1>4

LEMMA StartInv == ASSUME IInv, NEW t \in Timer, NEW n \in Ticks, Start(t, n) PROVE IInv'
  <1> DEFINE ticks == Larger(n, DELTA)
  <1>0. /\ TypeOK /\ ListsAgree /\ HandlerInv /\ HwInv
        /\ active \in Seq(Entry) /\ load \in Nat /\ elapsed \in Nat
    BY DEF IInv, TypeOK
  <1>1. ticks \in Nat
    BY HwTimerAssumption DEF Larger, DELTA
  <1>2. /\ state[t] \in {"ALLOC", "CALLBACK"} /\ state' = [state EXCEPT ![t] = "ACTIVE"]
        /\ due' = [due EXCEPT ![t] = ticks]
        /\ UNCHANGED <<free, fired, taken, handler>>
    BY DEF Start
  <1>3. due' \in [Timer -> Int]
    BY <1>0, <1>1, <1>2 DEF TypeOK
  <1>4. CASE active = << >>
    <2>1. active' = <<Alone(t, ticks)>> /\ HalStart(ticks) /\ UNCHANGED <<pending, slack, failed>>
      BY <1>4 DEF Start
    <2> HIDE DEF ticks
    <2>2. Enlists(t) /\ active' # << >> /\ active'[1].time = ticks
      BY <1>1, <1>4, <2>1, AloneLists
    <2>3. enabled' = TRUE /\ elapsed' = 0 /\ load' = Loaded(ticks) /\ load' \in Nat /\ load' > 0
      BY <1>1, <2>1, HalStartLoads
    <2>4. ListsAgree' /\ HandlerInv' /\ active' \in Seq(Entry) /\ state' \in [Timer -> States]
      BY <1>0, <1>2, <2>2, StartLists
    <2>5. HwInv' /\ NoCollapse'
      BY <2>1, <2>2, <2>3 DEF IInv, HwInv, Armed, NoCollapse
    <2>6. TypeOK'
      BY <1>0, <1>2, <1>3, <2>1, <2>3, <2>4 DEF TypeOK, handler
    <2> QED BY <2>4, <2>5, <2>6 DEF IInv
  <1>5. CASE active # << >>
    <2>1. /\ failed' = ~(raw_value <= Larger(active[1].time, DELTA))
          /\ raw_value > ticks => InsertFirst(t, ticks)
          /\ ~(raw_value > ticks) => InsertLater(t, ticks)
      BY <1>5 DEF Start
    <2> HIDE DEF ticks
    <2>2. failed' = FALSE
      <3>1. active[1].time \in Nat
        <4>1. active[1] \in Entry
          BY <1>0, <1>5, EmptySeq, NamesOf
        <4> QED BY <4>1 DEF Entry
      <3>2. raw_value \in Nat /\ raw_value <= Loaded(active[1].time)
        BY <1>0, <1>5, RawValue DEF HwInv
      <3>3. raw_value <= Larger(active[1].time, DELTA)
        BY <3>1, <3>2 DEF Loaded, Larger, DELTA
      <3> QED BY <2>1, <3>3
    <2>3. CASE raw_value > ticks
      <3>1. InsertFirst(t, ticks)
        BY <2>1, <2>3
      <3>2. Enlists(t) /\ active' # << >> /\ active'[1].time = ticks
        BY <1>0, <1>1, <1>5, <2>3, <3>1, InsertFirstLists
      <3>3. /\ HalStart(ticks) /\ pending' = FALSE
            /\ slack' = [u \in Timer |-> IF u \in Timers(active) THEN slack[u] + 1 ELSE 0]
        BY <3>1 DEF InsertFirst
      <3>4. enabled' = TRUE /\ elapsed' = 0 /\ load' = Loaded(ticks) /\ load' \in Nat /\ load' > 0
        BY <1>1, <3>3, HalStartLoads
      <3>5. ListsAgree' /\ HandlerInv' /\ active' \in Seq(Entry) /\ state' \in [Timer -> States]
        BY <1>0, <1>2, <3>2, StartLists
      <3>6. HwInv' /\ NoCollapse'
        BY <2>2, <3>2, <3>4 DEF HwInv, Armed, NoCollapse
      <3>7. slack' \in [Timer -> Nat]
        BY <1>0, <3>3 DEF TypeOK
      <3>8. TypeOK'
        BY <1>0, <1>2, <1>3, <2>2, <3>3, <3>4, <3>5, <3>7 DEF TypeOK, handler
      <3> QED BY <3>5, <3>6, <3>8 DEF IInv
    <2>4. CASE ~(raw_value > ticks)
      <3>1. InsertLater(t, ticks)
        BY <2>1, <2>4
      <3>2. Enlists(t) /\ active' # << >> /\ active'[1].time = active[1].time
        BY <1>0, <1>1, <3>1, InsertLaterLists
      <3>3. /\ slack' = [slack EXCEPT ![t] = IF raw_value = 0 THEN elapsed - load ELSE 0]
            /\ UNCHANGED hw
        BY <3>1 DEF InsertLater
      <3>4. ListsAgree' /\ HandlerInv' /\ active' \in Seq(Entry) /\ state' \in [Timer -> States]
        BY <1>0, <1>2, <3>2, StartLists
      <3>5. HwInv' /\ NoCollapse'
        BY <1>0, <1>2, <1>5, <2>2, <3>2, <3>3 DEF HwInv, Armed, NoCollapse, hw, handler
      <3>6. slack' \in [Timer -> Nat]
        <4>1. raw_value = 0 => elapsed - load \in Nat
          BY <1>0, RawValue
        <4> QED BY <1>0, <3>3, <4>1 DEF TypeOK
      <3>7. TypeOK'
        BY <1>0, <1>2, <1>3, <2>2, <3>3, <3>4, <3>6 DEF TypeOK, handler, hw
      <3> QED BY <3>4, <3>5, <3>7 DEF IInv
    <2> QED BY <2>3, <2>4
  <1> QED BY <1>4, <1>5

(* The timer is stopped once it is off its list.                           *)
LEMMA StopLists ==
    ASSUME TypeOK, ListsAgree, HandlerInv, NEW t \in Timer,
           state[t] \in {"ACTIVE", "FIRED"}, state' = [state EXCEPT ![t] = "ALLOC"],
           active' \in Seq(Entry), NoRepeats(Names(active')),
           Timers(active') = Timers(active) \ {t},
           fired' \in Seq(Timer), NoRepeats(fired'), Elements(fired') = Elements(fired) \ {t},
           running = NoTimer => fired' = << >>,
           UNCHANGED <<free, taken, handler>>
    PROVE  ListsAgree' /\ HandlerInv' /\ state' \in [Timer -> States]
  <1>1. \A i, j \in DOMAIN active' : active'[i].timer = active'[j].timer => i = j
    BY Distinct
  <1>2. /\ \A u \in Timer : state'[u] = IF u = t THEN "ALLOC" ELSE state[u]
        /\ free' = free /\ taken' = taken /\ running' = running /\ entered' = entered
    BY DEF TypeOK, handler
  <1>3. NoRepeats(free') /\ Elements(free') \cap taken' = {}
    BY DEF ListsAgree
  <1>4. Timers(active') = {u \in Timer : state'[u] = "ACTIVE"}
    BY <1>2 DEF ListsAgree
  <1>5. Elements(fired') = {u \in Timer : state'[u] = "FIRED"}
    BY <1>2 DEF ListsAgree
  <1>6. /\ Elements(free') \cup taken' = {u \in Timer : state'[u] = "FREE"}
        /\ \A u \in Timer : state'[u] = "CALLBACK" => running' = u
    BY <1>2 DEF ListsAgree
  <1>7. ListsAgree'
    BY <1>1, <1>3, <1>4, <1>5, <1>6 DEF ListsAgree
  <1> QED BY <1>2, <1>7 DEF HandlerInv, TypeOK, States

LEMMA SlackenTypes ==
    ASSUME TypeOK, NEW s, Slacken(s)
    PROVE  slack' \in [Timer -> Nat] /\ due' \in [Timer -> Int]
  BY DEF TypeOK, Slacken, Forget

LEMMA StopActiveInv ==
    ASSUME IInv, NEW t \in Timer, Stop(t), StopActive(t) PROVE IInv'
  <1>0. /\ TypeOK /\ ListsAgree /\ HandlerInv /\ HwInv /\ failed = FALSE
        /\ active \in Seq(Entry) /\ load \in Nat /\ elapsed \in Nat
        /\ fired \in Seq(Timer) /\ NoRepeats(fired)
    BY DEF IInv, TypeOK, ListsAgree, NoCollapse
  <1>1. /\ state[t] = "ACTIVE" /\ state' = [state EXCEPT ![t] = "ALLOC"]
        /\ UNCHANGED <<free, fired, taken, handler>>
    BY DEF Stop, StopActive
  <1>2. t \in Timers(active) /\ t \notin Elements(fired)
    BY <1>0, <1>1 DEF ListsAgree
  <1>3. NoRepeats(Names(active))
    BY <1>0, Distinct DEF ListsAgree
  <1>4. /\ active # << >> /\ Len(active) \in Nat \ {0} /\ 1 \in 1 .. Len(active)
        /\ active[1] \in Entry
    <2>1. active # << >>
      <3>1. DOMAIN active # {}
        BY <1>2 DEF Timers
      <3> QED BY <1>0, <3>1, LenProperties, EmptySeq
    <2> QED BY <1>0, <2>1, EmptySeq, NamesOf
  <1>5. ASSUME Delists(t)
        PROVE  ListsAgree' /\ HandlerInv' /\ state' \in [Timer -> States] /\ active' \in Seq(Entry)
    <2>1. /\ active' \in Seq(Entry) /\ NoRepeats(Names(active'))
          /\ Timers(active') = Timers(active) \ {t}
      BY <1>0, <1>3, <1>5, Delisted
    <2>2. /\ fired' \in Seq(Timer) /\ NoRepeats(fired') /\ Elements(fired') = Elements(fired) \ {t}
          /\ (running = NoTimer => fired' = << >>)
      BY <1>0, <1>1, <1>2 DEF HandlerInv
    <2>3. /\ state[t] \in {"ACTIVE", "FIRED"} /\ state' = [state EXCEPT ![t] = "ALLOC"]
          /\ UNCHANGED <<free, taken, handler>>
      BY <1>1
    <2> QED BY <1>0, <2>1, <2>2, <2>3, StopLists
  <1>6. CASE t = active[1].timer
    <2>1. StopFirst
      BY <1>1, <1>2, <1>6 DEF StopActive
    <2>2. Delists(t) /\ (Len(active) = 1 <=> active' = << >>)
      BY <1>0, <1>4, <1>6, <2>1, StopFirstLists
    <2>3. ListsAgree' /\ HandlerInv' /\ state' \in [Timer -> States] /\ active' \in Seq(Entry)
      BY <1>5, <2>2
    <2>4. failed' = FALSE
      <3>1. active[1].time \in Nat /\ load = Loaded(active[1].time)
        BY <1>0, <1>4 DEF Entry, HwInv
      <3>2. raw_value \in Nat /\ raw_value <= load /\ (raw_value = 0 => elapsed - load \in Nat)
        BY <1>0, RawValue
      <3>3. ~(raw_value > Larger(active[1].time, DELTA))
        BY <1>0, <3>1, <3>2 DEF Loaded, Larger, DELTA
      <3>4. ~(raw_value = 0 /\ elapsed + DELTA < active[1].time)
        BY <1>0, <3>1, <3>2 DEF Loaded, DELTA
      <3>5. failed' = \/ raw_value > Larger(active[1].time, DELTA)
                      \/ Len(active) > 1 /\ raw_value = 0 /\ elapsed + DELTA < active[1].time
        BY <2>1 DEF StopFirst
      <3> QED BY <3>3, <3>4, <3>5
    <2>5. /\ active' = Rest
          /\ IF Len(active) = 1 THEN HalStop ELSE HalStart(Rest[1].time) /\ pending' = FALSE
          /\ Slacken(Tail(active))
      BY <2>1 DEF StopFirst
    <2>6. slack' \in [Timer -> Nat] /\ due' \in [Timer -> Int]
      BY <1>0, <2>5, SlackenTypes
    <2>7. CASE Len(active) = 1
      <3>1. /\ enabled' = FALSE /\ pending' = FALSE /\ load' = 0 /\ elapsed' = 0
            /\ active' = << >>
        BY <2>2, <2>5, <2>7 DEF HalStop
      <3>2. HwInv' /\ NoCollapse'
        BY <2>4, <3>1 DEF HwInv, Armed, NoCollapse
      <3>3. TypeOK'
        BY <1>0, <1>1, <2>3, <2>4, <2>6, <3>1 DEF TypeOK, handler
      <3> QED BY <2>3, <3>2, <3>3 DEF IInv
    <2>8. CASE Len(active) # 1
      <3>1. active' # << >> /\ active'[1].time \in Nat
        <4>1. active' # << >>
          BY <2>2, <2>8
        <4>2. active'[1] \in Entry
          BY <2>3, <4>1, EmptySeq, ElementOfSeq
        <4> QED BY <4>1, <4>2 DEF Entry
      <3>2. HalStart(active'[1].time) /\ pending' = FALSE
        BY <2>5, <2>8
      <3>3. /\ enabled' = TRUE /\ elapsed' = 0 /\ load' = Loaded(active'[1].time)
            /\ load' \in Nat /\ load' > 0
        BY <3>1, <3>2, HalStartLoads
      <3>4. HwInv' /\ NoCollapse'
        BY <2>4, <3>1, <3>3 DEF HwInv, Armed, NoCollapse
      <3>5. TypeOK'
        BY <1>0, <1>1, <2>3, <2>4, <2>6, <3>2, <3>3 DEF TypeOK, handler
      <3> QED BY <2>3, <3>4, <3>5 DEF IInv
    <2> QED BY <2>7, <2>8
  <1>7. CASE t # active[1].timer
    <2>1. StopLater(t)
      BY <1>1, <1>2, <1>7 DEF StopActive
    <2>2. Delists(t) /\ active' # << >> /\ active'[1].time = active[1].time
      BY <1>0, <1>2, <1>7, <2>1, StopLaterLists
    <2>3. ListsAgree' /\ HandlerInv' /\ state' \in [Timer -> States] /\ active' \in Seq(Entry)
      BY <1>5, <2>2
    <2>4. /\ slack' = [slack EXCEPT ![t] = 0] /\ due' = [due EXCEPT ![t] = 0]
          /\ UNCHANGED <<hw, failed>>
      BY <2>1 DEF StopLater
    <2>5. HwInv' /\ NoCollapse'
      BY <1>0, <1>1, <1>4, <2>2, <2>4 DEF HwInv, Armed, NoCollapse, hw, handler
    <2>6. slack' \in [Timer -> Nat] /\ due' \in [Timer -> Int]
      BY <1>0, <2>4 DEF TypeOK
    <2>7. TypeOK'
      BY <1>0, <1>1, <2>3, <2>4, <2>6 DEF TypeOK, hw, handler
    <2> QED BY <2>3, <2>5, <2>7 DEF IInv
  <1> QED BY <1>6, <1>7

LEMMA StopFiredInv ==
    ASSUME IInv, NEW t \in Timer, Stop(t), StopFired(t) PROVE IInv'
  <1>0. /\ TypeOK /\ ListsAgree /\ HandlerInv /\ HwInv
        /\ active \in Seq(Entry) /\ fired \in Seq(Timer) /\ NoRepeats(fired)
    BY DEF IInv, TypeOK, ListsAgree
  <1>1. /\ state[t] = "FIRED" /\ state' = [state EXCEPT ![t] = "ALLOC"]
        /\ UNCHANGED <<active, free, taken, handler, hw, ghost>>
    BY DEF Stop, StopFired
  <1>2. t \in Elements(fired) /\ t \notin Timers(active)
    BY <1>0, <1>1 DEF ListsAgree
  <1>3. failed' = failed /\ \E k \in 1 .. Len(fired) : fired[k] = t /\ fired' = Without(fired, k)
    BY <1>0, <1>2, LenProperties DEF StopFired, Without
  <1>4. /\ fired' \in Seq(Timer) /\ NoRepeats(fired')
        /\ Elements(fired') = Elements(fired) \ {t}
    BY <1>0, <1>3, Unlisted
  <1>5. running # NoTimer
    <2>1. DOMAIN fired # {}
      BY <1>2 DEF Elements
    <2> QED BY <1>0, <2>1, LenProperties, EmptySeq DEF HandlerInv
  <1>6. /\ active' \in Seq(Entry) /\ NoRepeats(Names(active'))
        /\ Timers(active') = Timers(active) \ {t}
    <2>1. NoRepeats(Names(active))
      BY <1>0, Distinct DEF ListsAgree
    <2> QED BY <1>0, <1>1, <1>2, <2>1
  <1>7. ListsAgree' /\ HandlerInv' /\ state' \in [Timer -> States]
    <2>1. /\ state[t] \in {"ACTIVE", "FIRED"} /\ state' = [state EXCEPT ![t] = "ALLOC"]
          /\ UNCHANGED <<free, taken, handler>>
      BY <1>1
    <2> QED BY <1>0, <1>4, <1>5, <1>6, <2>1, StopLists
  <1>8. HwInv' /\ NoCollapse'
    BY <1>0, <1>1, <1>3 DEF IInv, HwInv, Armed, NoCollapse, hw, handler
  <1>9. TypeOK'
    BY <1>0, <1>1, <1>3, <1>4, <1>7 DEF TypeOK, hw, handler, ghost
  <1> QED BY <1>7, <1>8, <1>9 DEF IInv

-----------------------------------------------------------------------------
(* The interrupt                                                           *)

LEMMA IrqInv == ASSUME IInv, Irq PROVE IInv'
  <1>1. TypeOK'
    BY DEF IInv, TypeOK, Irq, lists, ghost
  <1>2. ListsAgree'
    BY DEF IInv, ListsAgree, Irq, lists
  <1>3. HandlerInv' /\ NoCollapse' /\ HwInv'
    BY DEF IInv, HandlerInv, NoCollapse, HwInv, Armed, Irq, lists
  <1> QED BY <1>1, <1>2, <1>3 DEF IInv

LEMMA HandlerEarlyInv == ASSUME IInv, HandlerEarly PROVE IInv'
  <1>0. /\ HwInv /\ enabled \in BOOLEAN /\ load \in Nat /\ elapsed \in Nat
        /\ active \in Seq(Entry)
        /\ entered' = FALSE /\ UNCHANGED <<state, lists, taken, running, hw, ghost>>
    BY DEF IInv, TypeOK, HandlerEarly
  <1>1. failed' = FALSE
    <2>1. CASE active = << >> /\ failed' = enabled
      BY <1>0, <2>1 DEF HwInv
    <2>2. CASE active # << >> /\ failed' = ~enabled
      BY <1>0, <2>2 DEF HwInv
    <2> QED BY <2>1, <2>2 DEF HandlerEarly
  <1>2. active # << >> => elapsed < load
    <2> SUFFICES ASSUME active # << >> PROVE elapsed < load
      OBVIOUS
    <2>1. active[1].time > elapsed + DELTA
      BY DEF HandlerEarly
    <2>2. active[1].time \in Nat
      <3>1. active[1] \in Entry
        BY <1>0, EmptySeq, ElementOfSeq
      <3> QED BY <3>1 DEF Entry
    <2> QED BY <1>0, <2>1, <2>2 DEF HwInv, Loaded, DELTA
  <1>3. TypeOK' /\ HandlerInv' /\ NoCollapse'
    BY <1>0, <1>1 DEF IInv, TypeOK, HandlerInv, NoCollapse, lists, hw, ghost
  <1>4. ListsAgree'
    BY <1>0 DEF IInv, ListsAgree, lists
  <1>5. HwInv'
    BY <1>0, <1>2 DEF HwInv, Armed, lists, hw
  <1> QED BY <1>3, <1>4, <1>5 DEF IInv

(* The first of the fired timers is called, the others wait.               *)
LEMMA CallLists ==
    ASSUME NEW ts \in Seq(Timer), NoRepeats(ts), NEW before \in [Timer -> States], Call(ts, before)
    PROVE  /\ fired' \in Seq(Timer) /\ NoRepeats(fired')
           /\ running' \in Timer \cup {NoTimer} /\ (running' = NoTimer => fired' = << >>)
           /\ state' \in [Timer -> States]
           /\ \A u \in Timer :
                 /\ u \in Elements(ts) <=> u = running' \/ u \in Elements(fired')
                 /\ u = running' => u \notin Elements(fired') /\ state'[u] = "CALLBACK"
                 /\ u \in Elements(fired') => state'[u] = "FIRED"
                 /\ u \notin Elements(ts) => state'[u] = before[u]
  <1>1. CASE ts = << >>
    <2>1. fired' = << >> /\ running' = NoTimer /\ state' = before /\ fired' = ts
      BY <1>1 DEF Call
    <2>2. Elements(ts) = {}
      BY <1>1, LenProperties DEF Elements
    <2>3. \A u \in Timer : u # NoTimer
      BY HwTimerAssumption DEF Timer, NoTimer
    <2> QED BY <2>1, <2>2, <2>3
  <1>2. CASE ts # << >>
    <2>1. PICK h : h = Head(ts)
      OBVIOUS
    <2>2. PICK r : r = Tail(ts)
      OBVIOUS
    <2>3. /\ h \in Timer /\ h \in Elements(ts) /\ r \in Seq(Timer) /\ NoRepeats(r)
          /\ Elements(r) = Elements(ts) \ {h}
      BY <1>2, <2>1, <2>2, Popped
    <2>4. /\ fired' = r /\ running' = h
          /\ state' = [t \in Timer |-> IF t = h THEN "CALLBACK"
                                       ELSE IF t \in Elements(ts) THEN "FIRED" ELSE before[t]]
      BY <1>2, <2>1, <2>2 DEF Call
    <2>5. h # NoTimer
      BY <2>3, HwTimerAssumption DEF Timer, NoTimer
    <2>6. state' \in [Timer -> States]
      BY <2>4 DEF States
    <2> QED BY <2>3, <2>4, <2>5, <2>6
  <1> QED BY <1>1, <1>2

LEMMA HandlerStepInv == ASSUME IInv, Handler PROVE IInv'
  <1>0. /\ TypeOK /\ ListsAgree /\ HwInv /\ failed = FALSE
        /\ active \in Seq(Entry) /\ fired = << >> /\ running = NoTimer
        /\ state \in [Timer -> States]
    BY DEF IInv, TypeOK, HandlerInv, NoCollapse, Handler
  <1>1. PICK n \in DOMAIN active :
          /\ Expired(n) /\ active' = Remain(n)
          /\ Call([i \in 1 .. n |-> active[i].timer], state)
    BY DEF Handler
  <1>2. PICK ts : ts = [i \in 1 .. n |-> active[i].timer]
    OBVIOUS
  <1>3. /\ active' \in Seq(Entry) /\ ts \in Seq(Timer)
        /\ IsBoth(Names(active), ts, Names(active'))
    BY <1>0, <1>1, <1>2, RemainEntries
  <1>4. /\ NoRepeats(ts) /\ NoRepeats(Names(active'))
        /\ Elements(ts) \cup Timers(active') = Timers(active)
        /\ Elements(ts) \cap Timers(active') = {}
    <2>1. PICK a : a = Names(active)
      OBVIOUS
    <2>2. PICK b : b = Names(active')
      OBVIOUS
    <2>3. /\ a \in Seq(Timer) /\ b \in Seq(Timer) /\ NoRepeats(a) /\ IsBoth(a, ts, b)
          /\ Timers(active) = Elements(a) /\ Timers(active') = Elements(b)
      BY <1>0, <1>3, <2>1, <2>2, NamesOf, Distinct DEF ListsAgree
    <2>4. /\ NoRepeats(ts) /\ NoRepeats(b)
          /\ Elements(ts) \cup Elements(b) = Elements(a)
          /\ Elements(ts) \cap Elements(b) = {}
      BY <1>3, <2>3, Divided
    <2> QED BY <2>2, <2>3, <2>4
  <1>5. /\ fired' \in Seq(Timer) /\ NoRepeats(fired')
        /\ running' \in Timer \cup {NoTimer} /\ (running' = NoTimer => fired' = << >>)
        /\ state' \in [Timer -> States]
        /\ \A u \in Timer :
              /\ u \in Elements(ts) <=> u = running' \/ u \in Elements(fired')
              /\ u = running' => u \notin Elements(fired') /\ state'[u] = "CALLBACK"
              /\ u \in Elements(fired') => state'[u] = "FIRED"
              /\ u \notin Elements(ts) => state'[u] = state[u]
    <2>1. Call(ts, state)
      BY <1>1, <1>2
    <2> QED BY <1>0, <1>3, <1>4, <2>1, CallLists
  <1>6. entered' = FALSE /\ UNCHANGED <<free, taken, failed>> /\ Slacken(active')
    BY DEF Handler
  <1>7. ListsAgree'
    <2>1. Elements(fired') \subseteq Timer /\ Timers(active') \subseteq Timer
      <3>1. DOMAIN fired' = 1 .. Len(fired') /\ DOMAIN active' = 1 .. Len(active')
        BY <1>3, <1>5, LenProperties
      <3>2. Elements(fired') \subseteq Timer
        BY <1>5, <3>1, ElementOfSeq DEF Elements
      <3>3. \A i \in DOMAIN active' : active'[i] \in Entry
        BY <1>3, <3>1, NamesOf
      <3> QED BY <3>2, <3>3 DEF Timers, Entry
    <2>2. \A u \in Timer : /\ u \in Timers(active) <=> state[u] = "ACTIVE"
                           /\ u \in Elements(free) \cup taken <=> state[u] = "FREE"
                           /\ state[u] # "CALLBACK" /\ state[u] # "FIRED"
      <3>1. \A u \in Timer : u # NoTimer
        BY HwTimerAssumption DEF Timer, NoTimer
      <3>2. Elements(fired) = {}
        BY <1>0, LenProperties, EmptySeq DEF Elements
      <3> QED BY <1>0, <3>1, <3>2 DEF ListsAgree
    <2>3. /\ Timers(active') = {u \in Timer : state'[u] = "ACTIVE"}
          /\ Elements(fired') = {u \in Timer : state'[u] = "FIRED"}
          /\ \A u \in Timer : state'[u] = "CALLBACK" => running' = u
      BY <1>4, <1>5, <2>1, <2>2
    <2>4. Elements(free') \cup taken' = {u \in Timer : state'[u] = "FREE"}
      <3>1. Elements(free) \cup taken = {u \in Timer : state[u] = "FREE"}
        BY <1>0 DEF ListsAgree
      <3>2. \A u \in Timer : state'[u] = "FREE" <=> state[u] = "FREE"
        BY <1>4, <1>5, <2>2
      <3> QED BY <1>6, <3>1, <3>2
    <2>5. \A i, j \in DOMAIN active' : active'[i].timer = active'[j].timer => i = j
      BY <1>3, <1>4, Distinct
    <2>6. NoRepeats(free') /\ NoRepeats(fired') /\ Elements(free') \cap taken' = {}
      BY <1>0, <1>5, <1>6 DEF ListsAgree
    <2> QED BY <2>3, <2>4, <2>5, <2>6 DEF ListsAgree
  <1>8. HandlerInv' /\ NoCollapse'
    BY <1>0, <1>5, <1>6 DEF HandlerInv, NoCollapse
  <1>9. slack' \in [Timer -> Nat] /\ due' \in [Timer -> Int]
    BY <1>0, <1>6, SlackenTypes
  <1>10. /\ HwInv' /\ enabled' \in BOOLEAN /\ load' \in Nat /\ elapsed' \in Nat
         /\ pending' \in BOOLEAN
    <2>1. IF active' = << >> THEN HalStop ELSE HalStart(active'[1].time) /\ UNCHANGED pending
      BY DEF Handler
    <2>2. CASE active' = << >>
      <3>1. enabled' = FALSE /\ pending' = FALSE /\ load' = 0 /\ elapsed' = 0
        BY <2>1, <2>2 DEF HalStop
      <3> QED BY <2>2, <3>1 DEF HwInv, Armed
    <2>3. CASE active' # << >>
      <3>1. active'[1].time \in Nat
        <4>1. active'[1] \in Entry
          BY <1>3, <2>3, EmptySeq, ElementOfSeq
        <4> QED BY <4>1 DEF Entry
      <3>2. /\ enabled' = TRUE /\ elapsed' = 0 /\ load' = Loaded(active'[1].time)
            /\ load' \in Nat /\ load' > 0
        BY <2>1, <2>3, <3>1, HalStartLoads
      <3>3. pending' \in BOOLEAN
        BY <1>0, <2>1, <2>3 DEF TypeOK
      <3> QED BY <2>3, <3>2, <3>3 DEF HwInv, Armed
    <2> QED BY <2>2, <2>3
  <1>11. TypeOK'
    BY <1>0, <1>3, <1>5, <1>6, <1>9, <1>10 DEF TypeOK
  <1> QED BY <1>7, <1>8, <1>10, <1>11 DEF IInv

LEMMA CallbackReturnsInv == ASSUME IInv, CallbackReturns PROVE IInv'
  <1>0. /\ TypeOK /\ ListsAgree /\ failed = FALSE /\ running \in Timer
        /\ fired \in Seq(Timer) /\ NoRepeats(fired) /\ state \in [Timer -> States]
    BY DEF IInv, TypeOK, ListsAgree, NoCollapse, CallbackReturns
  <1>1. PICK before : before = [state EXCEPT ![running] = IF @ = "CALLBACK" THEN "ALLOC" ELSE @]
    OBVIOUS
  <1>2. /\ before \in [Timer -> States]
        /\ \A u \in Timer : before[u] = IF u = running /\ state[u] = "CALLBACK" THEN "ALLOC" ELSE state[u]
    BY <1>0, <1>1 DEF States
  <1>3. Call(fired, before) /\ UNCHANGED <<free, active, taken, entered, hw, ghost, failed>>
    BY <1>1 DEF CallbackReturns
  <1>4. /\ fired' \in Seq(Timer) /\ NoRepeats(fired')
        /\ running' \in Timer \cup {NoTimer} /\ (running' = NoTimer => fired' = << >>)
        /\ state' \in [Timer -> States]
        /\ \A u \in Timer :
              /\ u \in Elements(fired) <=> u = running' \/ u \in Elements(fired')
              /\ u = running' => u \notin Elements(fired') /\ state'[u] = "CALLBACK"
              /\ u \in Elements(fired') => state'[u] = "FIRED"
              /\ u \notin Elements(fired) => state'[u] = before[u]
    BY <1>0, <1>2, <1>3, CallLists
  <1>5. \A u \in Timer : /\ u \in Elements(fired) <=> state[u] = "FIRED"
                         /\ state[u] = "CALLBACK" => u = running
    BY <1>0 DEF ListsAgree
  <1>6. /\ \A u \in Timer : /\ state'[u] = "ACTIVE" <=> state[u] = "ACTIVE"
                            /\ state'[u] = "FREE" <=> state[u] = "FREE"
                            /\ state'[u] = "FIRED" <=> u \in Elements(fired')
                            /\ state'[u] = "CALLBACK" => running' = u
    BY <1>2, <1>4, <1>5
  <1>7. Elements(fired') \subseteq Timer
    BY <1>4, LenProperties, ElementOfSeq DEF Elements
  <1>8. ListsAgree'
    <2>1. /\ Timers(active') = {u \in Timer : state'[u] = "ACTIVE"}
          /\ Elements(free') \cup taken' = {u \in Timer : state'[u] = "FREE"}
          /\ NoRepeats(free') /\ Elements(free') \cap taken' = {}
          /\ \A i, j \in DOMAIN active' : active'[i].timer = active'[j].timer => i = j
      BY <1>0, <1>3, <1>6 DEF ListsAgree
    <2>2. Elements(fired') = {u \in Timer : state'[u] = "FIRED"}
      BY <1>6, <1>7
    <2> QED BY <1>4, <1>6, <2>1, <2>2 DEF ListsAgree
  <1>9. entered = FALSE
    BY <1>0, HwTimerAssumption DEF IInv, HandlerInv, TypeOK, Timer, NoTimer
  <1>10. HandlerInv' /\ NoCollapse' /\ HwInv'
    BY <1>3, <1>4, <1>9 DEF IInv, HandlerInv, NoCollapse, HwInv, Armed, hw
  <1>11. TypeOK'
    BY <1>0, <1>3, <1>4 DEF TypeOK, hw, ghost
  <1> QED BY <1>8, <1>10, <1>11 DEF IInv

-----------------------------------------------------------------------------

(* The invariant of every step.                                            *)
THEOREM TimerCorrect == Spec => []IInv
  <1>1. IInv /\ [Next]_vars => IInv'
    <2> SUFFICES ASSUME IInv, [Next]_vars PROVE IInv'
      OBVIOUS
    <2>1. CASE Interrupt
      BY <2>1, IrqInv, HandlerEarlyInv, HandlerStepInv, CallbackReturnsInv DEF Interrupt
    <2>2. CASE Caller
      <3>1. ASSUME NEW t \in Timer, Stop(t) PROVE IInv'
        BY <3>1, StopActiveInv, StopFiredInv DEF Stop
      <3> QED BY <2>2, <3>1, AllocTakeInv, AllocSetInv, FreeInv, StartInv DEF Caller
    <2>3. CASE UNCHANGED vars
      <3>1. TypeOK' /\ HandlerInv' /\ NoCollapse' /\ HwInv'
        BY <2>3 DEF IInv, TypeOK, HandlerInv, NoCollapse, HwInv, Armed, vars, lists, handler, hw, ghost
      <3>2. ListsAgree'
        BY <2>3 DEF IInv, ListsAgree, vars, lists, handler
      <3> QED BY <3>1, <3>2 DEF IInv
    <2> QED BY <2>1, <2>2, <2>3, TickInv DEF Next
  <1> QED BY <1>1, InitInv, PTL DEF Spec

(* The variables keep their types; above all no time on active becomes     *)
(* negative, however late the handler runs and whatever is stopped.        *)
THEOREM TimerTypeSafe == Spec => []TypeOK
  <1>1. IInv => TypeOK
    BY DEF IInv
  <1> QED BY <1>1, TimerCorrect, PTL

(* Every timer is on the list its state says and on no other, once.        *)
THEOREM TimerListsAgree == Spec => []ListsAgree
  <1>1. IInv => ListsAgree
    BY DEF IInv
  <1> QED BY <1>1, TimerCorrect, PTL

(* None of hwtimer_list.c's assertions ever fails.                         *)
THEOREM TimerNoCollapse == Spec => []NoCollapse
  <1>1. IInv => NoCollapse
    BY DEF IInv
  <1> QED BY <1>1, TimerCorrect, PTL

(* While a timer waits, the hardware will interrupt, or has.               *)
THEOREM TimerArmed == Spec => []Armed
  <1>1. IInv => Armed
    BY DEF IInv, HwInv
  <1> QED BY <1>1, TimerCorrect, PTL

-----------------------------------------------------------------------------
(* The sums of the times on a list                                         *)

(* f sums the times of s after the first, up to the k-th.                  *)
IsSum(f, s, k) == f = [i \in 1 .. k |-> IF i = 1 THEN 0 ELSE f[i - 1] + s[i].time]

LEMMA Smallest ==
    ASSUME NEW T, T \subseteq Nat, T # {}
    PROVE  \E x \in T : \A y \in T : x <= y
  <1>1. PICK x \in T : \A y \in T : ~ (<<y, x>> \in OpToRel(<, Nat))
    BY WFMin, NatLessThanWellFounded, Zenon
  <1>2. \A y \in T : ~(y < x)
    BY <1>1, Zenon DEF OpToRel
  <1> QED BY <1>2

LEMMA SumExists ==
    ASSUME NEW s \in Seq(Entry), NEW k \in 1 .. Len(s)
    PROVE  \E f : IsSum(f, s, k) /\ f \in [1 .. k -> Nat]
  <1> DEFINE Has(n) == \E f : IsSum(f, s, n) /\ f \in [1 .. n -> Nat]
             Bad == {n \in 1 .. Len(s) : ~Has(n)}
  <1>1. SUFFICES Bad = {}
    OBVIOUS
  <1>2. SUFFICES ASSUME Bad # {} PROVE FALSE
    OBVIOUS
  <1>3. Bad \subseteq Nat
    BY LenProperties
  <1>4. PICK n \in Bad : \A m \in Bad : n <= m
    BY <1>2, <1>3, Smallest
  <1>5. n \in 1 .. Len(s) /\ ~Has(n) /\ Len(s) \in Nat
    BY <1>4, LenProperties
  <1>6. CASE n = 1
    <2>1. PICK f : f = [i \in 1 .. 1 |-> 0]
      OBVIOUS
    <2>2. f = [i \in 1 .. 1 |-> IF i = 1 THEN 0 ELSE f[i - 1] + s[i].time]
      BY <2>1
    <2> QED BY <1>5, <1>6, <2>1, <2>2 DEF IsSum
  <1>7. CASE n # 1
    <2>1. n - 1 \in 1 .. Len(s) /\ ~(n <= n - 1)
      BY <1>5, <1>7
    <2>2. Has(n - 1)
      BY <1>4, <2>1
    <2>3. PICK g : IsSum(g, s, n - 1) /\ g \in [1 .. n - 1 -> Nat]
      BY <2>2
    <2> HIDE DEF Bad
    <2>4. PICK f : f = [i \in 1 .. n |-> IF i = n THEN g[n - 1] + s[n].time ELSE g[i]]
      OBVIOUS
    <2>5. s[n].time \in Nat /\ g[n - 1] \in Nat
      <3>1. n - 1 \in 1 .. n - 1
        BY <1>5, <1>7
      <3>2. s[n] \in Entry
        BY <1>5, ElementOfSeq
      <3> QED BY <2>3, <3>1, <3>2 DEF Entry
    <2>6. f \in [1 .. n -> Nat]
      <3>1. ASSUME NEW i \in 1 .. n PROVE (IF i = n THEN g[n - 1] + s[n].time ELSE g[i]) \in Nat
        <4>1. i # n => i \in 1 .. n - 1
          BY <1>5
        <4> QED BY <2>3, <2>5, <4>1
      <3> QED BY <2>4, <3>1
    <2>7. \A i \in 1 .. n - 1 : f[i] = g[i] /\ g[i] = IF i = 1 THEN 0 ELSE g[i - 1] + s[i].time
      BY <2>3, <2>4, <1>5 DEF IsSum
    <2>8. \A i \in 1 .. n : f[i] = IF i = 1 THEN 0 ELSE f[i - 1] + s[i].time
      <3> TAKE i \in 1 .. n
      <3>1. CASE i = n
        <4>1. f[n - 1] = g[n - 1]
          BY <2>7, <1>5, <1>7
        <4> QED BY <2>4, <4>1, <3>1, <1>5, <1>7
      <3>2. CASE i # n
        <4>1. i \in 1 .. n - 1 /\ (i # 1 => i - 1 \in 1 .. n - 1)
          BY <3>2, <1>5
        <4> QED BY <4>1, <2>7
      <3> QED BY <3>1, <3>2
    <2>9. IsSum(f, s, n)
      BY <2>6, <2>8 DEF IsSum
    <2> QED BY <1>5, <2>6, <2>9
  <1> QED BY <1>6, <1>7

LEMMA SumUnique ==
    ASSUME NEW s \in Seq(Entry), NEW k \in 1 .. Len(s), NEW l \in k .. Len(s),
           NEW f, IsSum(f, s, k), NEW g, IsSum(g, s, l)
    PROVE  \A i \in 1 .. k : f[i] = g[i]
  <1> DEFINE Bad == {i \in 1 .. k : f[i] # g[i]}
  <1>1. SUFFICES ASSUME Bad # {} PROVE FALSE
    OBVIOUS
  <1>2. Bad \subseteq Nat
    BY LenProperties
  <1>3. PICK n \in Bad : \A m \in Bad : n <= m
    BY <1>1, <1>2, Smallest
  <1>4. n \in 1 .. k /\ n \in 1 .. l /\ f[n] # g[n] /\ (n # 1 => n - 1 \in 1 .. k /\ ~(n <= n - 1))
    BY <1>3, LenProperties
  <1>5. n # 1 => f[n - 1] = g[n - 1]
    BY <1>3, <1>4
  <1>6. f[n] = (IF n = 1 THEN 0 ELSE f[n - 1] + s[n].time) /\ g[n] = (IF n = 1 THEN 0 ELSE g[n - 1] + s[n].time)
    BY <1>4 DEF IsSum
  <1> QED BY <1>4, <1>5, <1>6

LEMMA AheadIs ==
    ASSUME active \in Seq(Entry), NEW k \in 1 .. Len(active)
    PROVE  \E f : IsSum(f, active, k) /\ f \in [1 .. k -> Nat] /\ Ahead(k) = f[k]
  <1>1. PICK f : IsSum(f, active, k) /\ f \in [1 .. k -> Nat]
    BY SumExists
  <1>2. PICK c : c = CHOOSE sum : sum = [i \in 1 .. k |-> IF i = 1 THEN 0 ELSE sum[i - 1] + active[i].time]
    OBVIOUS
  <1>3. Ahead(k) = c[k]
    BY <1>2 DEF Ahead
  <1>4. IsSum(c, active, k)
    BY <1>1, <1>2, Zenon DEF IsSum
  <1>5. \A i \in 1 .. k : f[i] = c[i]
    BY <1>1, <1>4, SumUnique, LenProperties
  <1> QED BY <1>1, <1>3, <1>5, LenProperties

LEMMA AheadSteps ==
    ASSUME active \in Seq(Entry), active # << >>
    PROVE  /\ Len(active) \in Nat \ {0} /\ \A k \in 1 .. Len(active) : active[k].time \in Nat
           /\ Ahead(1) = 0
           /\ \A k \in 1 .. Len(active) : Ahead(k) \in Nat
           /\ \A k \in 1 .. Len(active) - 1 : Ahead(k + 1) = Ahead(k) + active[k + 1].time
  <1>1. Len(active) \in Nat \ {0} /\ \A k \in 1 .. Len(active) : active[k] \in Entry
    BY EmptySeq, NamesOf
  <1>2. \A k \in 1 .. Len(active) : active[k].time \in Nat
    BY <1>1 DEF Entry
  <1>3. Ahead(1) = 0
    <2>1. 1 \in 1 .. Len(active) /\ 1 \in 1 .. 1
      BY <1>1
    <2>2. PICK f : IsSum(f, active, 1) /\ Ahead(1) = f[1]
      BY <2>1, AheadIs
    <2> QED BY <2>1, <2>2 DEF IsSum
  <1>4. ASSUME NEW k \in 1 .. Len(active) PROVE Ahead(k) \in Nat
    <2>1. k \in 1 .. k
      BY <1>1
    <2> QED BY <2>1, AheadIs
  <1>5. ASSUME NEW k \in 1 .. Len(active) - 1 PROVE Ahead(k + 1) = Ahead(k) + active[k + 1].time
    <2>1. /\ k \in 1 .. Len(active) /\ k + 1 \in k .. Len(active) /\ k + 1 \in 1 .. Len(active)
          /\ k \in 1 .. k /\ k + 1 \in 1 .. k + 1 /\ k + 1 # 1 /\ (k + 1) - 1 = k
      BY <1>1
    <2>2. PICK f : IsSum(f, active, k) /\ Ahead(k) = f[k]
      BY <2>1, AheadIs
    <2>3. PICK g : IsSum(g, active, k + 1) /\ Ahead(k + 1) = g[k + 1]
      BY <2>1, AheadIs
    <2>4. f[k] = g[k]
      BY <2>1, <2>2, <2>3, SumUnique
    <2>5. g[k + 1] = g[(k + 1) - 1] + active[k + 1].time
      BY <2>1, <2>3 DEF IsSum
    <2> QED BY <2>1, <2>2, <2>3, <2>4, <2>5
  <1> QED BY <1>1, <1>2, <1>3, <1>4, <1>5

(* Later on the list, later in time.                                       *)
LEMMA AheadOrdered ==
    ASSUME active \in Seq(Entry), active # << >>,
           NEW i \in 1 .. Len(active), NEW j \in i .. Len(active)
    PROVE  Ahead(i) <= Ahead(j)
  <1>0. /\ Len(active) \in Nat \ {0} /\ \A k \in 1 .. Len(active) : active[k].time \in Nat
        /\ \A k \in 1 .. Len(active) : Ahead(k) \in Nat
        /\ \A k \in 1 .. Len(active) - 1 : Ahead(k + 1) = Ahead(k) + active[k + 1].time
    BY AheadSteps
  <1> DEFINE Bad == {k \in i .. Len(active) : ~(Ahead(i) <= Ahead(k))}
  <1>1. SUFFICES ASSUME Bad # {} PROVE FALSE
    OBVIOUS
  <1>2. Bad \subseteq Nat
    BY <1>0
  <1>3. PICK n \in Bad : \A m \in Bad : n <= m
    BY <1>1, <1>2, Smallest
  <1>4. n \in i .. Len(active) /\ ~(Ahead(i) <= Ahead(n))
    BY <1>3
  <1>5. CASE n = i
    BY <1>0, <1>4, <1>5
  <1>6. CASE n # i
    <2>1. /\ n - 1 \in i .. Len(active) /\ ~(n <= n - 1) /\ (n - 1) + 1 = n
          /\ n - 1 \in 1 .. Len(active) - 1 /\ n \in 1 .. Len(active) /\ n - 1 \in 1 .. Len(active)
      BY <1>0, <1>4, <1>6
    <2>2. Ahead(i) <= Ahead(n - 1)
      BY <1>3, <2>1
    <2>3. Ahead(n) = Ahead(n - 1) + active[n].time
      BY <1>0, <2>1
    <2> QED BY <1>0, <1>4, <2>1, <2>2, <2>3
  <1> QED BY <1>5, <1>6

(* The time at which a list's entries expire, counted from the start of    *)
(* the hardware: c adds up the times of s.                                 *)
At(k) == active[1].time + Ahead(k)

AddsUp(c, s) == /\ c[1] = s[1].time
                /\ \A i \in 1 .. Len(s) - 1 : c[i + 1] = c[i] + s[i + 1].time

Sums == active \in Seq(Entry) /\ active # << >>
            => \A c : AddsUp(c, active) => \A k \in 1 .. Len(active) : At(k) = c[k]

LEMMA TimesAddUp == Sums
  <1> SUFFICES ASSUME active \in Seq(Entry), active # << >>, NEW c, AddsUp(c, active)
               PROVE  \A k \in 1 .. Len(active) : At(k) = c[k]
    BY DEF Sums
  <1>0. /\ Len(active) \in Nat \ {0} /\ \A k \in 1 .. Len(active) : active[k].time \in Nat
        /\ Ahead(1) = 0
        /\ \A k \in 1 .. Len(active) : Ahead(k) \in Nat
        /\ \A k \in 1 .. Len(active) - 1 : Ahead(k + 1) = Ahead(k) + active[k + 1].time
    BY AheadSteps
  <1> DEFINE Bad == {k \in 1 .. Len(active) : At(k) # c[k]}
  <1>1. SUFFICES ASSUME Bad # {} PROVE FALSE
    OBVIOUS
  <1>2. Bad \subseteq Nat
    BY <1>0
  <1>3. PICK n \in Bad : \A m \in Bad : n <= m
    BY <1>1, <1>2, Smallest
  <1>4. n \in 1 .. Len(active) /\ At(n) # c[n]
    BY <1>3
  <1>5. CASE n = 1
    BY <1>0, <1>4, <1>5 DEF At, AddsUp
  <1>6. CASE n # 1
    <2>1. /\ ~(n <= n - 1) /\ (n - 1) + 1 = n
          /\ n - 1 \in 1 .. Len(active) - 1 /\ n - 1 \in 1 .. Len(active) /\ 1 \in 1 .. Len(active)
      BY <1>0, <1>4, <1>6
    <2>2. At(n - 1) = c[n - 1]
      BY <1>3, <2>1
    <2>3. Ahead(n) = Ahead(n - 1) + active[n].time /\ c[n] = c[n - 1] + active[n].time
      BY <1>0, <2>1 DEF AddsUp
    <2>4. /\ Ahead(n - 1) \in Nat /\ active[n].time \in Nat /\ active[1].time \in Nat
      BY <1>0, <1>4, <2>1
    <2> QED BY <1>4, <2>2, <2>3, <2>4 DEF At
  <1> QED BY <1>5, <1>6

(* The same of the next list.                                              *)
LEMMA NextAddUp ==
    ASSUME active' \in Seq(Entry), active' # << >>, NEW c, AddsUp(c, active')
    PROVE  \A k \in 1 .. Len(active') : At(k)' = c[k]
  <1>1. Sums'
    BY TimesAddUp, PTL
  <1> QED BY <1>1 DEF Sums
-----------------------------------------------------------------------------
(* When the entries of the next list expire                                *)

LEMMA InsertFirstTimes ==
    ASSUME active \in Seq(Entry), active # << >>, load \in Nat, elapsed \in Nat,
           NEW t \in Timer, NEW n \in Nat, raw_value > n, InsertFirst(t, n)
    PROVE  \A i \in 1 .. Len(active') :
              \/ active'[i].timer = t /\ At(i)' = n
              \/ \E k \in 1 .. Len(active) :
                    active'[i].timer = active[k].timer /\ At(i)' = raw_value + Ahead(k)
  <1>0. /\ Len(active) \in Nat \ {0}
        /\ Ahead(1) = 0
        /\ \A k \in 1 .. Len(active) : Ahead(k) \in Nat
        /\ \A k \in 1 .. Len(active) - 1 : Ahead(k + 1) = Ahead(k) + active[k + 1].time
    BY AheadSteps
  <1>1. active' \in Seq(Entry) /\ active' # << >>
    BY InsertFirstLists DEF Enlists
  <1>2. PICK r : r = raw_value
    OBVIOUS
  <1>3. r \in Nat /\ r - n \in Nat
    BY <1>2, RawValue
  <1>4. /\ Len(active') = Len(active) + 1
        /\ active'[1] = Alone(t, n) /\ active'[2] = Alone(active[1].timer, r - n)
        /\ \A i \in 1 .. Len(active) - 1 : active'[2 + i] = active[i + 1]
    <2>1. PICK g : g = Tail(active)
      OBVIOUS
    <2>2. /\ g \in Seq(Entry) /\ Len(g) = Len(active) - 1
          /\ \A i \in 1 .. Len(active) - 1 : g[i] = active[i + 1]
      BY <2>1, HeadTailProperties
    <2>3. PICK f : f = <<Alone(t, n), Alone(active[1].timer, r - n)>>
      OBVIOUS
    <2>4. f \in Seq(Entry) /\ Len(f) = 2
      <3>1. active[1].timer \in Timer
        <4>1. 1 \in 1 .. Len(active)
          BY <1>0
        <4>2. active[1] \in Entry
          BY <4>1, ElementOfSeq
        <4> QED BY <4>2 DEF Entry
      <3> QED BY <1>3, <2>3, <3>1, EntryType
    <2>5. /\ Len(f \o g) = Len(f) + Len(g)
          /\ \A i \in 1 .. Len(f) : (f \o g)[i] = f[i]
          /\ \A i \in 1 .. Len(g) : (f \o g)[Len(f) + i] = g[i]
      <3>1. f \in Seq(Entry) /\ g \in Seq(Entry)
        BY <2>2, <2>4
      <3> QED BY <3>1, Joined
    <2>6. active' = f \o g
      BY <1>2, <2>1, <2>3 DEF InsertFirst
    <2>7. 1 \in 1 .. 2 /\ 2 \in 1 .. 2
      OBVIOUS
    <2>8. active'[1] = f[1] /\ active'[2] = f[2]
      BY <2>4, <2>5, <2>6, <2>7
    <2> QED BY <1>0, <2>2, <2>3, <2>4, <2>5, <2>6, <2>8
  <1>5. PICK c : c = [i \in 1 .. Len(active) + 1 |-> IF i = 1 THEN n ELSE r + Ahead(i - 1)]
    OBVIOUS
  <1>6. AddsUp(c, active')
    <2>1. c[1] = active'[1].time
      BY <1>0, <1>4, <1>5 DEF Alone
    <2>2. ASSUME NEW i \in 1 .. Len(active') - 1 PROVE c[i + 1] = c[i] + active'[i + 1].time
      <3>1. /\ i \in 1 .. Len(active) /\ i \in 1 .. Len(active) + 1 /\ i + 1 \in 1 .. Len(active) + 1
            /\ i + 1 # 1 /\ (i + 1) - 1 = i
        BY <1>0, <1>4
      <3>2. c[i + 1] = r + Ahead(i)
        BY <1>5, <3>1
      <3>3. CASE i = 1
        <4>1. active'[i + 1].time = r - n /\ c[i] = n
          BY <1>4, <1>5, <3>1, <3>3 DEF Alone
        <4> QED BY <1>0, <1>3, <3>2, <3>3, <4>1
      <3>4. CASE i # 1
        <4>1. /\ i - 1 \in 1 .. Len(active) - 1 /\ i - 1 \in 1 .. Len(active)
              /\ 2 + (i - 1) = i + 1 /\ (i - 1) + 1 = i
          BY <1>0, <3>1, <3>4
        <4>2. active'[i + 1] = active[i]
          BY <1>4, <4>1
        <4>3. c[i] = r + Ahead(i - 1)
          BY <1>5, <3>1, <3>4
        <4>4. Ahead(i) = Ahead(i - 1) + active[i].time
          BY <1>0, <4>1
        <4>5. active[i].time \in Nat /\ Ahead(i - 1) \in Nat
          BY <1>0, <3>1, <4>1, AheadSteps
        <4> QED BY <1>3, <3>2, <4>2, <4>3, <4>4, <4>5
      <3> QED BY <3>3, <3>4
    <2> QED BY <2>1, <2>2 DEF AddsUp
  <1>7. \A i \in 1 .. Len(active') : At(i)' = c[i]
    BY <1>1, <1>6, NextAddUp
  <1>8. SUFFICES ASSUME NEW i \in 1 .. Len(active')
                 PROVE  \/ active'[i].timer = t /\ c[i] = n
                        \/ \E k \in 1 .. Len(active) :
                              active'[i].timer = active[k].timer /\ c[i] = r + Ahead(k)
    BY <1>2, <1>7
  <1>9. CASE i = 1
    BY <1>0, <1>4, <1>5, <1>9 DEF Alone
  <1>10. CASE i = 2
    <2>1. c[2] = r + Ahead(2 - 1) /\ 2 - 1 = 1 /\ active'[2].timer = active[1].timer /\ 1 \in 1 .. Len(active)
      BY <1>0, <1>4, <1>5 DEF Alone
    <2> QED BY <1>10, <2>1
  <1>11. CASE i # 1 /\ i # 2
    <2>1. /\ i - 2 \in 1 .. Len(active) - 1 /\ 2 + (i - 2) = i /\ (i - 2) + 1 = i - 1
          /\ i - 1 \in 1 .. Len(active) /\ i \in 1 .. Len(active) + 1
      BY <1>0, <1>4, <1>11
    <2>2. active'[i] = active[i - 1] /\ c[i] = r + Ahead(i - 1)
      BY <1>4, <1>5, <1>11, <2>1
    <2> QED BY <2>1, <2>2
  <1> QED BY <1>9, <1>10, <1>11

LEMMA InsertLaterTimes ==
    ASSUME active \in Seq(Entry), active # << >>, load \in Nat, elapsed \in Nat,
           NEW t \in Timer, NEW n \in Nat, InsertLater(t, n)
    PROVE  \A i \in 1 .. Len(active') :
              \/ active'[i].timer = t /\ At(i)' = active[1].time + (n - raw_value)
              \/ \E k \in 1 .. Len(active) :
                    active'[i].timer = active[k].timer /\ At(i)' = At(k)
  <1>0. /\ Len(active) \in Nat \ {0} /\ DOMAIN active = 1 .. Len(active)
        /\ \A k \in 1 .. Len(active) : active[k].time \in Nat
        /\ Ahead(1) = 0
        /\ \A k \in 1 .. Len(active) : Ahead(k) \in Nat
        /\ \A k \in 1 .. Len(active) - 1 : Ahead(k + 1) = Ahead(k) + active[k + 1].time
    BY AheadSteps, LenProperties
  <1>1. active' \in Seq(Entry) /\ active' # << >>
    BY InsertLaterLists DEF Enlists
  <1>2. PICK d : d = n - raw_value
    OBVIOUS
  <1>3. d \in Int
    BY <1>2, RawValue
  <1>4. PICK k \in 1 .. Len(active) :
              /\ IsPlace(k, d)
              /\ active' = SubSeq(active, 1, k) \o <<Alone(t, d - Ahead(k))>>
                           \o FromWith(k + 1, Ahead(k + 1) - d)
    BY <1>0, <1>2 DEF InsertLater
  <1>5. /\ d - Ahead(k) \in Nat
        /\ k < Len(active) => Ahead(k + 1) - d \in Nat
    BY <1>4 DEF IsPlace
  <1>6. PICK f : f = SubSeq(active, 1, k)
    OBVIOUS
  <1>7. PICK x : x = Alone(t, d - Ahead(k))
    OBVIOUS
  <1>8. PICK m : m = Ahead(k + 1) - d
    OBVIOUS
  <1>9. PICK g : g = FromWith(k + 1, m)
    OBVIOUS
  <1>10. f \in Seq(Entry) /\ Len(f) = k /\ \A i \in 1 .. k : f[i] = active[i]
    <2>1. k + 1 \in 1 .. Len(active) + 1 /\ (k + 1) - 1 = k
      BY <1>0
    <2> QED BY <1>6, <2>1, Before
  <1>11. x \in Entry /\ x.timer = t /\ x.time = d - Ahead(k)
    BY <1>5, <1>7 DEF Entry, Alone
  <1>12. /\ g \in Seq(Entry) /\ Len(g) = Len(active) - k
         /\ \A i \in 1 .. Len(active) - k : g[i].timer = active[(k + 1) + i - 1].timer
         /\ k < Len(active) => g[1].time = m
         /\ \A i \in 2 .. Len(active) - k : g[i] = active[(k + 1) + i - 1]
    <2>1. k + 1 \in 1 .. Len(active) + 1 /\ Len(active) - (k + 1) + 1 = Len(active) - k
          /\ (k + 1 <= Len(active) => m \in Nat) /\ (k < Len(active) => k + 1 <= Len(active))
      BY <1>0, <1>5, <1>8
    <2>2. /\ g \in Seq(Entry) /\ Len(g) = Len(active) - (k + 1) + 1
          /\ \A i \in 1 .. Len(active) - (k + 1) + 1 : g[i].timer = active[(k + 1) + i - 1].timer
          /\ k + 1 <= Len(active) => g[1].time = m
          /\ \A i \in 2 .. Len(active) - (k + 1) + 1 : g[i] = active[(k + 1) + i - 1]
      BY <1>9, <2>1, FromWithEntries
    <2> QED BY <2>1, <2>2
  <1>13. PICK fe : fe = f \o <<x>>
    OBVIOUS
  <1>14. /\ fe \in Seq(Entry) /\ Len(fe) = k + 1 /\ fe[k + 1] = x
         /\ \A i \in 1 .. k : fe[i] = active[i]
    BY <1>0, <1>10, <1>11, <1>13, AppendProperties
  <1>15. active' = fe \o g
    BY <1>4, <1>6, <1>7, <1>8, <1>9, <1>13
  <1>16. /\ Len(active') = Len(active) + 1
         /\ \A i \in 1 .. k : active'[i] = active[i]
         /\ active'[k + 1] = x
         /\ \A i \in 1 .. Len(active) - k : active'[(k + 1) + i] = g[i]
    <2>1. /\ Len(fe \o g) = Len(fe) + Len(g)
          /\ \A i \in 1 .. Len(fe) : (fe \o g)[i] = fe[i]
          /\ \A i \in 1 .. Len(g) : (fe \o g)[Len(fe) + i] = g[i]
      <3>1. fe \in Seq(Entry) /\ g \in Seq(Entry)
        BY <1>12, <1>14
      <3> QED BY <3>1, Joined
    <2>2. k \in Nat /\ k + 1 \in 1 .. Len(fe) /\ \A i \in 1 .. k : i \in 1 .. Len(fe)
      BY <1>0, <1>14
    <2>3. Len(active') = Len(active) + 1
      BY <1>0, <1>12, <1>14, <1>15, <2>1
    <2>4. \A i \in 1 .. k : active'[i] = active[i]
      BY <1>14, <1>15, <2>1, <2>2
    <2>5. active'[k + 1] = x
      BY <1>14, <1>15, <2>1, <2>2
    <2>6. \A i \in 1 .. Len(active) - k : active'[(k + 1) + i] = g[i]
      BY <1>12, <1>14, <1>15, <2>1
    <2> QED BY <2>3, <2>4, <2>5, <2>6
  <1>17. PICK a : a = active[1].time
    OBVIOUS
  <1>18. PICK c : c = [i \in 1 .. Len(active) + 1 |-> IF i <= k THEN a + Ahead(i)
                                                      ELSE IF i = k + 1 THEN a + d
                                                      ELSE a + Ahead(i - 1)]
    OBVIOUS
  <1>19. a \in Nat
    BY <1>0, <1>17
  <1>20. AddsUp(c, active')
    <2>1. c[1] = active'[1].time
      BY <1>0, <1>16, <1>17, <1>18, <1>19
    <2>2. ASSUME NEW i \in 1 .. Len(active') - 1 PROVE c[i + 1] = c[i] + active'[i + 1].time
      <3>1. /\ i \in 1 .. Len(active) /\ i \in 1 .. Len(active) + 1 /\ i + 1 \in 1 .. Len(active) + 1
            /\ k \in Nat /\ i \in Nat /\ (i + 1) - 1 = i
        BY <1>0, <1>16
      <3>2. CASE i < k
        <4>1. i + 1 \in 1 .. k /\ i <= k /\ i + 1 <= k /\ i \in 1 .. Len(active) - 1 /\ i + 1 \in 1 .. Len(active)
          BY <1>0, <3>1, <3>2
        <4>2. c[i] = a + Ahead(i) /\ c[i + 1] = a + Ahead(i + 1) /\ active'[i + 1] = active[i + 1]
          BY <1>16, <1>18, <3>1, <4>1
        <4> QED BY <1>0, <1>19, <3>1, <4>1, <4>2
      <3>3. CASE i = k
        <4>1. c[i] = a + Ahead(k) /\ c[i + 1] = a + d /\ active'[i + 1].time = d - Ahead(k)
          BY <1>11, <1>16, <1>18, <3>1, <3>3
        <4> QED BY <1>0, <1>3, <1>19, <4>1
      <3>4. CASE i = k + 1
        <4>1. /\ 1 \in 1 .. Len(active) - k /\ (k + 1) + 1 = i + 1 /\ k < Len(active)
              /\ k + 1 \in 1 .. Len(active)
          BY <3>1, <3>4
        <4>2. c[i] = a + d /\ c[i + 1] = a + Ahead(k + 1)
          BY <1>18, <3>1, <3>4
        <4>3. active'[i + 1].time = Ahead(k + 1) - d
          BY <1>8, <1>12, <1>16, <4>1
        <4> QED BY <1>0, <1>3, <1>19, <4>1, <4>2, <4>3
      <3>5. CASE i > k + 1
        <4>1. /\ i - k \in 2 .. Len(active) - k /\ i - k \in 1 .. Len(active) - k
              /\ (k + 1) + (i - k) = i + 1 /\ (k + 1) + (i - k) - 1 = i
          BY <1>0, <3>1, <3>5
        <4>2. /\ i - 1 \in 1 .. Len(active) - 1 /\ i - 1 \in 1 .. Len(active) /\ (i - 1) + 1 = i
              /\ ~(i <= k) /\ ~(i + 1 <= k) /\ i # k + 1 /\ i + 1 # k + 1
          BY <1>0, <3>1, <3>5
        <4>3. active'[(k + 1) + (i - k)] = g[i - k] /\ g[i - k] = active[(k + 1) + (i - k) - 1]
          BY <1>12, <1>16, <4>1
        <4>4. active'[i + 1] = active[i]
          BY <4>1, <4>3
        <4>5. c[i] = a + Ahead(i - 1) /\ c[i + 1] = a + Ahead(i)
          BY <1>18, <3>1, <4>2
        <4>6. Ahead(i) = Ahead(i - 1) + active[i].time
          BY <1>0, <4>2
        <4>7. Ahead(i - 1) \in Nat /\ active[i].time \in Nat
          BY <1>0, <3>1, <4>2
        <4> QED BY <1>19, <4>4, <4>5, <4>6, <4>7
      <3> QED BY <3>1, <3>2, <3>3, <3>4, <3>5
    <2> QED BY <2>1, <2>2 DEF AddsUp
  <1>21. \A i \in 1 .. Len(active') : At(i)' = c[i]
    BY <1>1, <1>20, NextAddUp
  <1>22. \A i \in 1 .. Len(active) : At(i) = a + Ahead(i)
    BY <1>17 DEF At
  <1>23. SUFFICES ASSUME NEW i \in 1 .. Len(active')
                  PROVE  \/ active'[i].timer = t /\ c[i] = a + d
                         \/ \E j \in 1 .. Len(active) :
                               active'[i].timer = active[j].timer /\ c[i] = a + Ahead(j)
    BY <1>2, <1>17, <1>21, <1>22
  <1>24. CASE i <= k
    BY <1>0, <1>16, <1>18, <1>24
  <1>25. CASE i = k + 1
    BY <1>0, <1>11, <1>16, <1>18, <1>25
  <1>26. CASE i > k + 1
    <2>1. /\ i - (k + 1) \in 1 .. Len(active) - k /\ (k + 1) + (i - (k + 1)) = i
          /\ (k + 1) + (i - (k + 1)) - 1 = i - 1
          /\ i - 1 \in 1 .. Len(active) /\ i \in 1 .. Len(active) + 1 /\ ~(i <= k) /\ i # k + 1
      BY <1>0, <1>16, <1>26
    <2>2. active'[i].timer = active[i - 1].timer
      <3>1. active'[(k + 1) + (i - (k + 1))] = g[i - (k + 1)]
        BY <1>16, <2>1
      <3>2. g[i - (k + 1)].timer = active[(k + 1) + (i - (k + 1)) - 1].timer
        BY <1>12, <2>1
      <3> QED BY <2>1, <3>1, <3>2
    <2>3. c[i] = a + Ahead(i - 1)
      BY <1>18, <2>1
    <2> QED BY <2>1, <2>2, <2>3
  <1> QED BY <1>0, <1>16, <1>24, <1>25, <1>26
(* The expiry of what follows a first entry that is stopped after it, and  *)
(* before it.                                                              *)
LEMMA StopOverdueTimes ==
    ASSUME active \in Seq(Entry), Len(active) > 1, NEW n \in Nat, active' = Deducted(n)
    PROVE  /\ active'[1].time = Larger(Ahead(2) - n, 0)
           /\ \A i \in 1 .. Len(active') :
                 \E k \in 2 .. Len(active) :
                    active'[i].timer = active[k].timer /\ At(i)' = Larger(Ahead(k) - n, 0)
  <1>a. active # << >>
    BY EmptySeq
  <1>0. /\ Len(active) \in Nat \ {0} /\ \A k \in 1 .. Len(active) : active[k].time \in Nat
        /\ Ahead(1) = 0
        /\ \A k \in 1 .. Len(active) : Ahead(k) \in Nat
        /\ \A k \in 1 .. Len(active) - 1 : Ahead(k + 1) = Ahead(k) + active[k + 1].time
    BY <1>a, AheadSteps
  <1> DEFINE e(i) == IF Ahead(i) - n \in Nat THEN active[i + 1]
                     ELSE Alone(active[i + 1].timer,
                                IF Ahead(i + 1) - n \in Nat THEN Ahead(i + 1) - n ELSE 0)
  <1>1. active' = [i \in 1 .. Len(active) - 1 |-> e(i)]
    BY DEF Deducted
  <1>2. ASSUME NEW i \in 1 .. Len(active) - 1
        PROVE  /\ e(i) \in Entry /\ e(i).timer = active[i + 1].timer
               /\ e(i).time = IF Ahead(i) - n \in Nat THEN active[i + 1].time
                              ELSE Larger(Ahead(i + 1) - n, 0)
    <2>1. i + 1 \in 1 .. Len(active) /\ Ahead(i + 1) \in Nat
      BY <1>0
    <2>2. active[i + 1] \in Entry
      BY <2>1, ElementOfSeq
    <2>3. Larger(Ahead(i + 1) - n, 0) = IF Ahead(i + 1) - n \in Nat THEN Ahead(i + 1) - n ELSE 0
      BY <2>1 DEF Larger
    <2> QED BY <2>2, <2>3 DEF Entry, Alone
  <1> HIDE DEF e
  <1>3. active' \in Seq(Entry) /\ Len(active') = Len(active) - 1
    <2>1. active' \in [1 .. Len(active) - 1 -> Entry] /\ Len(active) - 1 \in Nat
      BY <1>0, <1>1, <1>2
    <2> QED BY <2>1, EntriesOf
  <1>4. \A i \in 1 .. Len(active) - 1 :
           /\ active'[i].timer = active[i + 1].timer
           /\ active'[i].time = IF Ahead(i) - n \in Nat THEN active[i + 1].time
                                ELSE Larger(Ahead(i + 1) - n, 0)
    BY <1>1, <1>2
  <1>5. PICK c : c = [i \in 1 .. Len(active) - 1 |-> Larger(Ahead(i + 1) - n, 0)]
    OBVIOUS
  <1>6. active'[1].time = Larger(Ahead(2) - n, 0) /\ c[1] = Larger(Ahead(2) - n, 0)
    <2>1. /\ 1 \in 1 .. Len(active) - 1 /\ 1 + 1 = 2 /\ 2 \in 1 .. Len(active)
          /\ Ahead(1 + 1) = Ahead(1) + active[1 + 1].time
      BY <1>0
    <2>2. Ahead(2) = active[2].time /\ active[2].time \in Nat
      BY <1>0, <2>1
    <2>3. active'[1].time = IF Ahead(1) - n \in Nat THEN active[2].time ELSE Larger(Ahead(2) - n, 0)
      BY <1>4, <2>1
    <2>4. Ahead(1) - n \in Nat => n = 0
      BY <1>0
    <2>5. n = 0 => Larger(Ahead(2) - n, 0) = active[2].time
      BY <2>2 DEF Larger
    <2>6. c[1] = Larger(Ahead(2) - n, 0)
      BY <1>5, <2>1
    <2> QED BY <2>3, <2>4, <2>5, <2>6
  <1>7. AddsUp(c, active')
    <2>1. ASSUME NEW i \in 1 .. Len(active') - 1 PROVE c[i + 1] = c[i] + active'[i + 1].time
      <3>1. /\ i \in 1 .. Len(active) - 1 /\ i + 1 \in 1 .. Len(active) - 1
            /\ i + 1 \in 1 .. Len(active) /\ (i + 1) + 1 \in 1 .. Len(active)
        BY <1>0, <1>3
      <3>2. c[i] = Larger(Ahead(i + 1) - n, 0) /\ c[i + 1] = Larger(Ahead((i + 1) + 1) - n, 0)
        BY <1>5, <3>1
      <3>3. active'[i + 1].time = IF Ahead(i + 1) - n \in Nat THEN active[(i + 1) + 1].time
                                  ELSE Larger(Ahead((i + 1) + 1) - n, 0)
        BY <1>4, <3>1
      <3>4. Ahead((i + 1) + 1) = Ahead(i + 1) + active[(i + 1) + 1].time
        BY <1>0, <3>1
      <3>5. Ahead(i + 1) \in Nat /\ active[(i + 1) + 1].time \in Nat
        BY <1>0, <3>1
      <3> QED BY <3>2, <3>3, <3>4, <3>5 DEF Larger
    <2> QED BY <1>6, <2>1 DEF AddsUp
  <1>8. active' # << >>
    BY <1>0, <1>3, EmptySeq
  <1>9. \A i \in 1 .. Len(active') : At(i)' = c[i]
    BY <1>3, <1>7, <1>8, NextAddUp
  <1>10. ASSUME NEW i \in 1 .. Len(active')
         PROVE  \E k \in 2 .. Len(active) :
                   active'[i].timer = active[k].timer /\ At(i)' = Larger(Ahead(k) - n, 0)
    <2>1. i \in 1 .. Len(active) - 1 /\ i + 1 \in 2 .. Len(active)
      BY <1>0, <1>3
    <2> QED BY <1>4, <1>5, <1>9, <2>1
  <1> QED BY <1>6, <1>10

LEMMA StopEarlyTimes ==
    ASSUME active \in Seq(Entry), Len(active) > 1, NEW n \in Nat,
           active' = LaterBy(Tail(active), n)
    PROVE  /\ active'[1].time = n + Ahead(2)
           /\ \A i \in 1 .. Len(active') :
                 \E k \in 2 .. Len(active) :
                    active'[i].timer = active[k].timer /\ At(i)' = n + Ahead(k)
  <1>a. active # << >>
    BY EmptySeq
  <1>0. /\ Len(active) \in Nat \ {0} /\ \A k \in 1 .. Len(active) : active[k].time \in Nat
        /\ Ahead(1) = 0
        /\ \A k \in 1 .. Len(active) : Ahead(k) \in Nat
        /\ \A k \in 1 .. Len(active) - 1 : Ahead(k + 1) = Ahead(k) + active[k + 1].time
    BY <1>a, AheadSteps
  <1>1. PICK f : f = Tail(active)
    OBVIOUS
  <1>2. /\ f \in Seq(Entry) /\ Len(f) = Len(active) - 1
        /\ \A i \in 1 .. Len(active) - 1 : f[i] = active[i + 1]
    BY <1>a, <1>1, HeadTailProperties
  <1>3. /\ active' \in Seq(Entry) /\ Len(active') = Len(f)
        /\ \A i \in 1 .. Len(f) : /\ active'[i].timer = f[i].timer
                                  /\ active'[i].time = f[i].time + (IF i = 1 THEN n ELSE 0)
    <2>1. active' = LaterBy(f, n)
      BY <1>1
    <2> QED BY <1>2, <2>1, LaterEntries
  <1>4. \A i \in 1 .. Len(active) - 1 :
           /\ active'[i].timer = active[i + 1].timer
           /\ active'[i].time = active[i + 1].time + (IF i = 1 THEN n ELSE 0)
    BY <1>2, <1>3
  <1>5. PICK c : c = [i \in 1 .. Len(active) - 1 |-> n + Ahead(i + 1)]
    OBVIOUS
  <1>6. active'[1].time = n + Ahead(2) /\ c[1] = n + Ahead(2)
    <2>1. /\ 1 \in 1 .. Len(active) - 1 /\ 1 + 1 = 2 /\ 2 \in 1 .. Len(active)
          /\ Ahead(1 + 1) = Ahead(1) + active[1 + 1].time
      BY <1>0
    <2>2. Ahead(2) = active[2].time /\ active[2].time \in Nat
      BY <1>0, <2>1
    <2>3. active'[1].time = active[2].time + n
      BY <1>4, <2>1
    <2>4. c[1] = n + Ahead(2)
      BY <1>5, <2>1
    <2> QED BY <2>2, <2>3, <2>4
  <1>7. AddsUp(c, active')
    <2>1. ASSUME NEW i \in 1 .. Len(active') - 1 PROVE c[i + 1] = c[i] + active'[i + 1].time
      <3>1. /\ i \in 1 .. Len(active) - 1 /\ i + 1 \in 1 .. Len(active) - 1 /\ i + 1 # 1
            /\ i + 1 \in 1 .. Len(active) /\ (i + 1) + 1 \in 1 .. Len(active)
        BY <1>0, <1>2, <1>3
      <3>2. c[i] = n + Ahead(i + 1) /\ c[i + 1] = n + Ahead((i + 1) + 1)
        BY <1>5, <3>1
      <3>3. active'[i + 1].time = active[(i + 1) + 1].time + 0
        BY <1>4, <3>1
      <3>4. Ahead((i + 1) + 1) = Ahead(i + 1) + active[(i + 1) + 1].time
        BY <1>0, <3>1
      <3>5. Ahead(i + 1) \in Nat /\ active[(i + 1) + 1].time \in Nat
        BY <1>0, <3>1
      <3> QED BY <3>2, <3>3, <3>4, <3>5
    <2> QED BY <1>6, <2>1 DEF AddsUp
  <1>8. active' # << >>
    BY <1>0, <1>2, <1>3, EmptySeq
  <1>9. \A i \in 1 .. Len(active') : At(i)' = c[i]
    BY <1>3, <1>7, <1>8, NextAddUp
  <1>10. ASSUME NEW i \in 1 .. Len(active')
         PROVE  \E k \in 2 .. Len(active) :
                   active'[i].timer = active[k].timer /\ At(i)' = n + Ahead(k)
    <2>1. i \in 1 .. Len(active) - 1 /\ i + 1 \in 2 .. Len(active)
      BY <1>0, <1>2, <1>3
    <2> QED BY <1>4, <1>5, <1>9, <2>1
  <1> QED BY <1>6, <1>10

LEMMA StopLaterTimes ==
    ASSUME active \in Seq(Entry), active # << >>, NEW t \in Timers(active), t # active[1].timer,
           NoRepeats(Names(active)), StopLater(t)
    PROVE  \A i \in 1 .. Len(active') :
              \E j \in 1 .. Len(active) :
                 active'[i].timer = active[j].timer /\ active[j].timer # t /\ At(i)' = At(j)
  <1>0. /\ Len(active) \in Nat \ {0} /\ DOMAIN active = 1 .. Len(active)
        /\ \A k \in 1 .. Len(active) : active[k].time \in Nat
        /\ Ahead(1) = 0
        /\ \A k \in 1 .. Len(active) : Ahead(k) \in Nat
        /\ \A k \in 1 .. Len(active) - 1 : Ahead(k + 1) = Ahead(k) + active[k + 1].time
    BY AheadSteps, LenProperties
  <1>1. active' \in Seq(Entry) /\ active' # << >>
    BY StopLaterLists DEF Delists
  <1>2. PICK k \in 1 .. Len(active) :
              /\ active[k].timer = t
              /\ active' = SubSeq(active, 1, k - 1) \o LaterBy(From(active, k + 1), active[k].time)
    <2> DEFINE c == CHOOSE k \in DOMAIN active : active[k].timer = t
    <2>1. c \in DOMAIN active /\ active[c].timer = t
      BY DEF Timers
    <2>2. active' = SubSeq(active, 1, c - 1) \o LaterBy(From(active, c + 1), active[c].time)
      BY DEF StopLater
    <2> HIDE DEF c
    <2> QED BY <1>0, <2>1, <2>2
  <1>3. k # 1 /\ k - 1 \in 1 .. Len(active) - 1 /\ k - 1 \in 1 .. Len(active) /\ (k - 1) + 1 = k
        /\ active[k].time \in Nat
    BY <1>0, <1>2
  <1>4. PICK m : m = active[k].time
    OBVIOUS
  <1>5. PICK f : f = SubSeq(active, 1, k - 1)
    OBVIOUS
  <1>6. PICK h : h = From(active, k + 1)
    OBVIOUS
  <1>7. PICK g : g = LaterBy(h, m)
    OBVIOUS
  <1>8. f \in Seq(Entry) /\ Len(f) = k - 1 /\ \A i \in 1 .. k - 1 : f[i] = active[i]
    <2>1. k \in 1 .. Len(active) + 1
      BY <1>0
    <2> QED BY <1>5, <2>1, Before
  <1>9. /\ h \in Seq(Entry) /\ Len(h) = Len(active) - k
        /\ \A i \in 1 .. Len(active) - k : h[i] = active[(k + 1) + i - 1]
    <2>1. k + 1 \in 1 .. Len(active) + 1 /\ Len(active) - (k + 1) + 1 = Len(active) - k
      BY <1>0
    <2> QED BY <1>6, <2>1, FromThere
  <1>10. /\ g \in Seq(Entry) /\ Len(g) = Len(active) - k
         /\ \A i \in 1 .. Len(active) - k :
               /\ g[i].timer = active[(k + 1) + i - 1].timer
               /\ g[i].time = active[(k + 1) + i - 1].time + (IF i = 1 THEN m ELSE 0)
    <2>1. /\ g \in Seq(Entry) /\ Len(g) = Len(h)
          /\ \A i \in 1 .. Len(h) : /\ g[i].timer = h[i].timer
                                    /\ g[i].time = h[i].time + (IF i = 1 THEN m ELSE 0)
      BY <1>3, <1>4, <1>7, <1>9, LaterEntries
    <2> QED BY <1>9, <2>1
  <1>11. /\ Len(active') = Len(active) - 1
         /\ \A i \in 1 .. k - 1 : active'[i] = active[i]
         /\ \A i \in 1 .. Len(active) - k : active'[(k - 1) + i] = g[i]
    <2>1. active' = f \o g
      BY <1>2, <1>4, <1>5, <1>6, <1>7
    <2>2. /\ Len(f \o g) = Len(f) + Len(g)
          /\ \A i \in 1 .. Len(f) : (f \o g)[i] = f[i]
          /\ \A i \in 1 .. Len(g) : (f \o g)[Len(f) + i] = g[i]
      <3>1. f \in Seq(Entry) /\ g \in Seq(Entry)
        BY <1>8, <1>10
      <3> QED BY <3>1, Joined
    <2>3. Len(active') = Len(active) - 1
      BY <1>0, <1>8, <1>10, <2>1, <2>2
    <2>4. \A i \in 1 .. k - 1 : active'[i] = active[i]
      BY <1>8, <2>1, <2>2
    <2>5. \A i \in 1 .. Len(active) - k : active'[(k - 1) + i] = g[i]
      BY <1>8, <1>10, <2>1, <2>2
    <2> QED BY <2>3, <2>4, <2>5
  <1>12. ASSUME NEW i \in k .. Len(active) - 1
         PROVE  /\ active'[i].timer = active[i + 1].timer
                /\ active'[i].time = active[i + 1].time + (IF i = k THEN m ELSE 0)
    <2>1. /\ i - (k - 1) \in 1 .. Len(active) - k /\ (k - 1) + (i - (k - 1)) = i
          /\ (k + 1) + (i - (k - 1)) - 1 = i + 1 /\ (i - (k - 1) = 1 <=> i = k)
      BY <1>0
    <2>2. active'[(k - 1) + (i - (k - 1))] = g[i - (k - 1)]
      BY <1>11, <2>1
    <2>3. /\ g[i - (k - 1)].timer = active[(k + 1) + (i - (k - 1)) - 1].timer
          /\ g[i - (k - 1)].time = active[(k + 1) + (i - (k - 1)) - 1].time
                                   + (IF i - (k - 1) = 1 THEN m ELSE 0)
      BY <1>10, <2>1
    <2> QED BY <2>1, <2>2, <2>3
  <1>13. PICK a : a = active[1].time
    OBVIOUS
  <1>14. PICK c : c = [i \in 1 .. Len(active) - 1 |-> IF i < k THEN a + Ahead(i) ELSE a + Ahead(i + 1)]
    OBVIOUS
  <1>15. a \in Nat /\ k \in Nat
    BY <1>0, <1>13
  <1>16. AddsUp(c, active')
    <2>1. c[1] = active'[1].time
      <3>1. 1 \in 1 .. Len(active) - 1 /\ 1 \in 1 .. k - 1 /\ 1 < k
        BY <1>0, <1>3
      <3> QED BY <1>0, <1>11, <1>13, <1>14, <1>15, <3>1
    <2>2. ASSUME NEW i \in 1 .. Len(active') - 1 PROVE c[i + 1] = c[i] + active'[i + 1].time
      <3>1. /\ i \in 1 .. Len(active) - 1 /\ i + 1 \in 1 .. Len(active) - 1
            /\ i \in 1 .. Len(active) /\ i + 1 \in 1 .. Len(active) /\ (i + 1) + 1 \in 1 .. Len(active)
            /\ i \in Nat
        BY <1>0, <1>11
      <3>2. /\ Ahead(i + 1) = Ahead(i) + active[i + 1].time
            /\ Ahead((i + 1) + 1) = Ahead(i + 1) + active[(i + 1) + 1].time
        BY <1>0, <3>1
      <3>3. /\ Ahead(i) \in Nat /\ active[i + 1].time \in Nat /\ active[(i + 1) + 1].time \in Nat
            /\ Ahead(i + 1) \in Nat
        BY <1>0, <3>1
      <3>4. CASE i + 1 < k
        <4>1. i < k /\ i + 1 \in 1 .. k - 1
          BY <1>15, <3>1, <3>4
        <4>2. c[i] = a + Ahead(i) /\ c[i + 1] = a + Ahead(i + 1) /\ active'[i + 1] = active[i + 1]
          BY <1>11, <1>14, <3>1, <3>4, <4>1
        <4> QED BY <1>15, <3>2, <3>3, <4>2
      <3>5. CASE i + 1 = k
        <4>1. i < k /\ ~(i + 1 < k) /\ i + 1 \in k .. Len(active) - 1
          BY <1>15, <3>1, <3>5
        <4>2. c[i] = a + Ahead(i) /\ c[i + 1] = a + Ahead((i + 1) + 1)
          BY <1>14, <3>1, <4>1
        <4>3. active'[i + 1].time = active[(i + 1) + 1].time + m /\ m = active[i + 1].time
          BY <1>4, <1>12, <3>5, <4>1
        <4>4. PICK x : x = Ahead(i)
          OBVIOUS
        <4>5. PICK z : z = active[(i + 1) + 1].time
          OBVIOUS
        <4>6. x \in Nat /\ z \in Nat /\ m \in Nat
          BY <3>3, <4>3, <4>4, <4>5
        <4>7. /\ c[i] = a + x /\ c[i + 1] = a + ((x + m) + z)
              /\ active'[i + 1].time = z + m
          BY <3>2, <4>2, <4>3, <4>4, <4>5
        <4>8. a + ((x + m) + z) = (a + x) + (z + m)
          BY <1>15, <4>6
        <4> QED BY <4>7, <4>8
      <3>6. CASE i + 1 > k
        <4>1. ~(i < k) /\ ~(i + 1 < k) /\ i + 1 # k /\ i + 1 \in k .. Len(active) - 1
          BY <1>15, <3>1, <3>6
        <4>2. c[i] = a + Ahead(i + 1) /\ c[i + 1] = a + Ahead((i + 1) + 1)
          BY <1>14, <3>1, <4>1
        <4>3. active'[i + 1].time = active[(i + 1) + 1].time + 0
          BY <1>12, <4>1
        <4> QED BY <1>15, <3>2, <3>3, <4>2, <4>3
      <3> QED BY <1>15, <3>1, <3>4, <3>5, <3>6
    <2> QED BY <2>1, <2>2 DEF AddsUp
  <1>17. \A i \in 1 .. Len(active') : At(i)' = c[i]
    BY <1>1, <1>16, NextAddUp
  <1>18. \A j \in 1 .. Len(active) : At(j) = a + Ahead(j) /\ (j # k => active[j].timer # t)
    BY <1>0, <1>2, <1>13, Distinct DEF At
  <1>19. ASSUME NEW i \in 1 .. Len(active')
         PROVE  \E j \in 1 .. Len(active) : j # k /\ active'[i].timer = active[j].timer /\ c[i] = a + Ahead(j)
    <2>0. i \in 1 .. Len(active) - 1 /\ i \in 1 .. Len(active) /\ i + 1 \in 1 .. Len(active) /\ i \in Nat
      BY <1>0, <1>11
    <2>1. CASE i < k
      <3>1. i \in 1 .. k - 1 /\ i # k
        BY <1>15, <2>0, <2>1
      <3>2. active'[i] = active[i] /\ c[i] = a + Ahead(i)
        BY <1>11, <1>14, <2>0, <2>1, <3>1
      <3> QED BY <2>0, <3>1, <3>2
    <2>2. CASE ~(i < k)
      <3>1. i \in k .. Len(active) - 1 /\ i + 1 # k
        BY <1>15, <2>0, <2>2
      <3>2. active'[i].timer = active[i + 1].timer /\ c[i] = a + Ahead(i + 1)
        BY <1>12, <1>14, <2>0, <2>2, <3>1
      <3> QED BY <2>0, <3>1, <3>2
    <2> QED BY <2>1, <2>2
  <1> QED BY <1>17, <1>18, <1>19

LEMMA RemainTimes ==
    ASSUME active \in Seq(Entry), active # << >>, NEW n \in 1 .. Len(active), Expired(n),
           active' = Remain(n), NEW m \in Nat, m = late
    PROVE  \A i \in 1 .. Len(active') :
              \E k \in n + 1 .. Len(active) :
                 /\ active'[i].timer = active[k].timer /\ At(i)' = Ahead(k) - m
                 /\ Ahead(k) - m >= 1
                 /\ active'[1].time >= 1
  <1>0. /\ Len(active) \in Nat \ {0} /\ DOMAIN active = 1 .. Len(active)
        /\ \A k \in 1 .. Len(active) : active[k].time \in Nat
        /\ \A k \in 1 .. Len(active) : Ahead(k) \in Nat
        /\ \A k \in 1 .. Len(active) - 1 : Ahead(k + 1) = Ahead(k) + active[k + 1].time
    BY AheadSteps, LenProperties
  <1>1. PICK d : d = Ahead(n + 1) - m
    OBVIOUS
  <1>2. n < Len(active) => d \in Nat \ {0}
    BY <1>1 DEF Expired
  <1>3. /\ active' \in Seq(Entry) /\ Len(active') = Len(active) - n
        /\ \A i \in 1 .. Len(active) - n : active'[i].timer = active[(n + 1) + i - 1].timer
        /\ n < Len(active) => active'[1].time = d
        /\ \A i \in 2 .. Len(active) - n : active'[i] = active[(n + 1) + i - 1]
    <2>1. /\ n + 1 \in 1 .. Len(active) + 1 /\ Len(active) - (n + 1) + 1 = Len(active) - n
          /\ (n + 1 <= Len(active) => d \in Nat) /\ (n < Len(active) => n + 1 <= Len(active))
      BY <1>0, <1>2
    <2>2. PICK r : r = FromWith(n + 1, d)
      OBVIOUS
    <2>3. active' = r
      BY <1>1, <2>2 DEF Remain
    <2>4. /\ r \in Seq(Entry) /\ Len(r) = Len(active) - (n + 1) + 1
          /\ \A i \in 1 .. Len(active) - (n + 1) + 1 : r[i].timer = active[(n + 1) + i - 1].timer
          /\ n + 1 <= Len(active) => r[1].time = d
          /\ \A i \in 2 .. Len(active) - (n + 1) + 1 : r[i] = active[(n + 1) + i - 1]
      BY <2>1, <2>2, FromWithEntries
    <2> QED BY <2>1, <2>3, <2>4
  <1>4. SUFFICES ASSUME NEW i \in 1 .. Len(active')
                 PROVE  \E k \in n + 1 .. Len(active) :
                           /\ active'[i].timer = active[k].timer /\ At(i)' = Ahead(k) - m
                           /\ Ahead(k) - m >= 1
                           /\ active'[1].time >= 1
    OBVIOUS
  <1>5. n < Len(active) /\ active' # << >> /\ i \in 1 .. Len(active) - n /\ n \in Nat
    BY <1>0, <1>3
  <1>6. d \in Nat \ {0} /\ active'[1].time = d
    BY <1>2, <1>3, <1>5
  <1>7. PICK c : c = [j \in 1 .. Len(active) - n |-> Ahead(n + j) - m]
    OBVIOUS
  <1>8. AddsUp(c, active')
    <2>1. c[1] = active'[1].time
      <3>1. 1 \in 1 .. Len(active) - n
        BY <1>0, <1>5
      <3> QED BY <1>1, <1>6, <1>7, <3>1
    <2>2. ASSUME NEW j \in 1 .. Len(active') - 1 PROVE c[j + 1] = c[j] + active'[j + 1].time
      <3>1. /\ j \in 1 .. Len(active) - n /\ j + 1 \in 1 .. Len(active) - n
            /\ j + 1 \in 2 .. Len(active) - n /\ (n + 1) + (j + 1) - 1 = (n + j) + 1
            /\ n + j \in 1 .. Len(active) - 1 /\ n + j \in 1 .. Len(active)
            /\ (n + j) + 1 \in 1 .. Len(active) /\ n + (j + 1) = (n + j) + 1
        BY <1>0, <1>3, <1>5
      <3>2. c[j] = Ahead(n + j) - m /\ c[j + 1] = Ahead(n + (j + 1)) - m
        BY <1>7, <3>1
      <3>3. active'[j + 1] = active[(n + j) + 1]
        BY <1>3, <3>1
      <3>4. Ahead((n + j) + 1) = Ahead(n + j) + active[(n + j) + 1].time
        BY <1>0, <3>1
      <3>5. Ahead(n + j) \in Nat /\ active[(n + j) + 1].time \in Nat
        BY <1>0, <3>1
      <3> QED BY <3>1, <3>2, <3>3, <3>4, <3>5
    <2> QED BY <2>1, <2>2 DEF AddsUp
  <1>9. At(i)' = c[i]
    BY <1>3, <1>5, <1>8, NextAddUp
  <1>10. /\ n + i \in n + 1 .. Len(active) /\ (n + 1) + i - 1 = n + i
         /\ n + 1 \in 1 .. Len(active) /\ n + i \in (n + 1) .. Len(active) /\ n + i \in 1 .. Len(active)
    BY <1>0, <1>5
  <1>11. Ahead(n + 1) <= Ahead(n + i)
    BY <1>10, AheadOrdered
  <1>12. Ahead(n + i) - m >= 1
    <2>1. Ahead(n + 1) \in Nat /\ Ahead(n + i) \in Nat
      BY <1>0, <1>10
    <2> QED BY <1>1, <1>6, <1>11, <2>1
  <1>13. active'[i].timer = active[n + i].timer /\ At(i)' = Ahead(n + i) - m
    BY <1>3, <1>5, <1>7, <1>9, <1>10
  <1> QED BY <1>6, <1>10, <1>12, <1>13
-----------------------------------------------------------------------------
(* What is asked of a timer and what the list has for it                   *)

(* d ticks are left of what was asked for, and the list has a timer expire *)
(* a - e ticks from now.  The two differ by the slack s, by one tick more, *)
(* and by one earlier if the hardware had to be given a longer time than   *)
(* the first entry's.  A timer due now or at once may be overdue.          *)
InTime(d, s, a, e, first) ==
    /\ d <= a - e + s + (IF first = 0 THEN 1 ELSE 0)
    /\ d >= a - e - s - 1 \/ (a <= 1 /\ a = first)

TimeInv ==
    \A k \in 1 .. Len(active) :
        InTime(due[active[k].timer], slack[active[k].timer], At(k), elapsed, active[1].time)

(* Of an entry k.                                                          *)
LEMMA Waits ==
    ASSUME TypeOK, HwInv, TimeInv, NEW k \in 1 .. Len(active)
    PROVE  /\ active # << >> /\ active \in Seq(Entry) /\ active[k].timer \in Timers(active)
           /\ active[k].timer \in Timer
           /\ active[1].time \in Nat /\ load = Loaded(active[1].time) /\ load \in Nat /\ elapsed \in Nat
           /\ due[active[k].timer] \in Int /\ slack[active[k].timer] \in Nat
           /\ Ahead(k) \in Nat /\ Ahead(1) = 0 /\ At(k) = active[1].time + Ahead(k)
           /\ InTime(due[active[k].timer], slack[active[k].timer], At(k), elapsed, active[1].time)
  <1>1. active \in Seq(Entry) /\ Len(active) \in Nat /\ DOMAIN active = 1 .. Len(active)
    BY LenProperties DEF TypeOK
  <1>2. active # << >> /\ 1 \in 1 .. Len(active)
    BY <1>1, EmptySeq
  <1>3. active[k] \in Entry /\ active[1] \in Entry
    BY <1>1, <1>2, ElementOfSeq
  <1>4. active[k].timer \in Timer /\ active[1].time \in Nat
    BY <1>3 DEF Entry
  <1>5. active[k].timer \in Timers(active)
    BY <1>1 DEF Timers
  <1>6. Ahead(k) \in Nat /\ Ahead(1) = 0
    BY <1>1, <1>2, AheadSteps
  <1>7. due[active[k].timer] \in Int /\ slack[active[k].timer] \in Nat /\ load \in Nat /\ elapsed \in Nat
    BY <1>4 DEF TypeOK
  <1>8. load = Loaded(active[1].time)
    BY <1>2 DEF HwInv
  <1> QED BY <1>1, <1>2, <1>4, <1>5, <1>6, <1>7, <1>8 DEF TimeInv, At

LEMMA SameTimes ==
    ASSUME active \in Seq(Entry), UNCHANGED active, NEW k \in 1 .. Len(active)
    PROVE  At(k)' = At(k)
  <1>0. active # << >>
    BY EmptySeq, LenProperties
  <1>1. /\ Len(active) \in Nat \ {0} /\ \A j \in 1 .. Len(active) : active[j].time \in Nat
        /\ Ahead(1) = 0
        /\ \A j \in 1 .. Len(active) : Ahead(j) \in Nat
        /\ \A j \in 1 .. Len(active) - 1 : Ahead(j + 1) = Ahead(j) + active[j + 1].time
    BY <1>0, AheadSteps
  <1>2. PICK c : c = [j \in 1 .. Len(active) |-> active[1].time + Ahead(j)]
    OBVIOUS
  <1>3. AddsUp(c, active')
    <2>1. c[1] = active'[1].time
      BY <1>1, <1>2
    <2>2. ASSUME NEW j \in 1 .. Len(active') - 1 PROVE c[j + 1] = c[j] + active'[j + 1].time
      <3>1. j \in 1 .. Len(active) /\ j + 1 \in 1 .. Len(active) /\ j \in 1 .. Len(active) - 1
            /\ 1 \in 1 .. Len(active)
        BY <1>1
      <3>2. c[j] = active[1].time + Ahead(j) /\ c[j + 1] = active[1].time + Ahead(j + 1)
        BY <1>2, <3>1
      <3> QED BY <1>1, <3>1, <3>2
    <2> QED BY <2>1, <2>2 DEF AddsUp
  <1>4. At(k)' = c[k]
    BY <1>0, <1>3, NextAddUp
  <1> QED BY <1>2, <1>4 DEF At

LEMMA StayTimes ==
    ASSUME TypeOK, TimeInv, UNCHANGED <<active, elapsed, ghost>>
    PROVE  TimeInv'
  <1>0. active \in Seq(Entry) /\ UNCHANGED <<active, elapsed, due, slack>>
    BY DEF TypeOK, ghost
  <1>1. \A k \in 1 .. Len(active) : At(k)' = At(k)
    BY <1>0, SameTimes
  <1>2. SUFFICES ASSUME NEW k \in 1 .. Len(active')
                 PROVE  InTime(due'[active'[k].timer], slack'[active'[k].timer], At(k)', elapsed', active'[1].time)
    BY DEF TimeInv
  <1>3. InTime(due[active[k].timer], slack[active[k].timer], At(k), elapsed, active[1].time)
    BY <1>0 DEF TimeInv
  <1>4. At(k)' = At(k)
    BY <1>0, <1>1
  <1> QED BY <1>0, <1>3, <1>4

LEMMA TickedInTime ==
    ASSUME NEW d \in Int, NEW s \in Nat, NEW a \in Nat, NEW e \in Nat, NEW first \in Nat,
           InTime(d, s, a, e, first)
    PROVE  InTime(d - 1, s, a, e + 1, first)
  BY DEF InTime

LEMMA TickTimes == ASSUME IInv, TimeInv, Tick PROVE TimeInv'
  <1>0. TypeOK /\ HwInv /\ ListsAgree /\ active \in Seq(Entry)
    BY DEF IInv, TypeOK
  <1>1. /\ active' = active /\ elapsed' = elapsed + 1 /\ slack' = slack
        /\ due' = [t \in Timer |-> IF state[t] = "ACTIVE" THEN due[t] - 1 ELSE due[t]]
    BY DEF Tick, lists
  <1>2. SUFFICES ASSUME NEW k \in 1 .. Len(active')
                 PROVE  InTime(due'[active'[k].timer], slack'[active'[k].timer], At(k)', elapsed', active'[1].time)
    BY DEF TimeInv
  <1>3. k \in 1 .. Len(active)
    BY <1>1
  <1>4. PICK t : t = active[k].timer
    OBVIOUS
  <1>5. /\ t \in Timers(active) /\ t \in Timer /\ active[1].time \in Nat /\ elapsed \in Nat
        /\ due[t] \in Int /\ slack[t] \in Nat /\ Ahead(k) \in Nat /\ At(k) = active[1].time + Ahead(k)
        /\ InTime(due[t], slack[t], At(k), elapsed, active[1].time)
    BY <1>0, <1>3, <1>4, Waits
  <1>6. At(k)' = At(k)
    BY <1>0, <1>1, <1>3, SameTimes
  <1>7. due'[t] = due[t] - 1
    BY <1>0, <1>1, <1>5 DEF ListsAgree
  <1>8. At(k) \in Nat
    BY <1>5
  <1>9. InTime(due[t] - 1, slack[t], At(k), elapsed + 1, active[1].time)
    BY <1>5, <1>8, TickedInTime
  <1> QED BY <1>1, <1>4, <1>6, <1>7, <1>9

(* A restart of the hardware while it still counts.                        *)
LEMMA RestartedRunning ==
    ASSUME NEW d \in Int, NEW s \in Nat, NEW a \in Nat, NEW h \in Nat, NEW e \in Nat, NEW first \in Nat,
           a = first + h, e < Loaded(first), InTime(d, s, a, e, first), NEW r, r = Loaded(first) - e,
           NEW next \in Nat, (r + h <= 1 /\ h = 0) => next = r + h
    PROVE  InTime(d, s + 1, r + h, 0, next)
  BY DEF InTime, Loaded, DELTA

(* A restart of the hardware when it has run out.                          *)
LEMMA RestartedOverdue ==
    ASSUME NEW d \in Int, NEW s \in Nat, NEW a \in Nat, NEW h \in Nat, NEW e \in Nat, NEW first \in Nat,
           a = first + h, first <= e + DELTA, InTime(d, s, a, e, first),
           NEW n, n = Larger(e - first, 0), NEW next \in Nat, Larger(h - n, 0) = 0 => next = 0
    PROVE  InTime(d, s + 1, Larger(h - n, 0), 0, next)
  BY DEF InTime, Larger, DELTA

LEMMA StartTimes == ASSUME IInv, TimeInv, NEW t \in Timer, NEW asked \in Ticks, Start(t, asked) PROVE TimeInv'
  <1>0. /\ TypeOK /\ ListsAgree /\ HwInv
        /\ active \in Seq(Entry) /\ load \in Nat /\ elapsed \in Nat /\ Len(active) \in Nat
    BY LenProperties DEF IInv, TypeOK
  <1>1. PICK n : n = Larger(asked, DELTA)
    OBVIOUS
  <1>2. n \in Nat /\ n >= 1
    BY <1>1, HwTimerAssumption DEF Larger, DELTA
  <1>3. /\ state[t] \in {"ALLOC", "CALLBACK"} /\ due' = [due EXCEPT ![t] = n]
    BY <1>1 DEF Start
  <1>4. due'[t] = n /\ \A u \in Timer : u # t => due'[u] = due[u]
    BY <1>0, <1>3 DEF TypeOK
  <1>5. t \notin Timers(active) /\ Timers(active) \subseteq Timer
    BY <1>0, <1>3 DEF ListsAgree
  <1>6. SUFFICES ASSUME NEW i \in 1 .. Len(active')
                 PROVE  InTime(due'[active'[i].timer], slack'[active'[i].timer], At(i)', elapsed', active'[1].time)
    BY DEF TimeInv
  <1>7. CASE active = << >>
    <2>1. active' = <<Alone(t, n)>> /\ HalStart(n) /\ slack' = slack
      BY <1>1, <1>7 DEF Start
    <2>2. active' \in Seq(Entry) /\ Len(active') = 1 /\ active'[1].timer = t /\ active'[1].time = n /\ active' # << >>
      BY <1>2, <2>1 DEF Entry, Alone
    <2>3. elapsed' = 0
      BY <1>2, <2>1, HalStartLoads
    <2>4. i = 1
      BY <2>2
    <2>5. At(1)' = n
      <3>1. PICK c : c = [j \in 1 .. 1 |-> n]
        OBVIOUS
      <3>2. AddsUp(c, active')
        BY <2>2, <3>1 DEF AddsUp
      <3>3. 1 \in 1 .. Len(active')
        BY <2>2
      <3>4. At(1)' = c[1]
        BY <2>2, <3>2, <3>3, NextAddUp
      <3> QED BY <3>1, <3>4
    <2>6. slack[t] \in Nat
      BY <1>0 DEF TypeOK
    <2>7. InTime(n, slack[t], n, 0, n)
      BY <1>2, <2>6 DEF InTime
    <2> QED BY <1>4, <2>1, <2>2, <2>3, <2>4, <2>5, <2>7
  <1>8. CASE active # << >>
    <2>1. /\ raw_value > n => InsertFirst(t, n)
          /\ ~(raw_value > n) => InsertLater(t, n)
      BY <1>1, <1>8 DEF Start
    <2>2. 1 \in 1 .. Len(active) /\ active[1].time \in Nat /\ load = Loaded(active[1].time)
      <3>1. 1 \in 1 .. Len(active)
        BY <1>0, <1>8, EmptySeq
      <3> QED BY <1>0, <3>1, Waits
    <2>3. PICK first : first = active[1].time
      OBVIOUS
    <2>4. PICK r : r = raw_value
      OBVIOUS
    <2>5. r \in Nat /\ r = IF elapsed < Loaded(first) THEN Loaded(first) - elapsed ELSE 0
      BY <1>0, <2>2, <2>3, <2>4, RawValue DEF raw_value
    <2>6. CASE raw_value > n
      <3>1. InsertFirst(t, n)
        BY <2>1, <2>6
      <3>2. active'[1].time = n
        BY <1>0, <1>2, <1>8, <2>6, <3>1, InsertFirstLists
      <3>3. /\ HalStart(n)
            /\ slack' = [u \in Timer |-> IF u \in Timers(active) THEN slack[u] + 1 ELSE 0]
        BY <3>1 DEF InsertFirst
      <3>4. elapsed' = 0
        BY <1>2, <3>3, HalStartLoads
      <3>5. CASE active'[i].timer = t /\ At(i)' = n
        <4>1. InTime(n, 0, n, 0, n)
          BY <1>2 DEF InTime
        <4>2. slack'[t] = 0
          BY <1>5, <3>3
        <4> QED BY <1>4, <3>2, <3>4, <3>5, <4>1, <4>2
      <3>6. ASSUME NEW k \in 1 .. Len(active), active'[i].timer = active[k].timer, At(i)' = r + Ahead(k)
            PROVE  InTime(due'[active'[i].timer], slack'[active'[i].timer], At(i)', elapsed', active'[1].time)
        <4>1. PICK u : u = active[k].timer
          OBVIOUS
        <4>2. /\ u \in Timers(active) /\ u \in Timer /\ due[u] \in Int /\ slack[u] \in Nat
              /\ Ahead(k) \in Nat /\ At(k) = first + Ahead(k) /\ InTime(due[u], slack[u], At(k), elapsed, first)
          BY <1>0, <2>3, <4>1, Waits
        <4>3. elapsed < Loaded(first) /\ r = Loaded(first) - elapsed /\ r > 1 /\ At(k) \in Nat /\ first \in Nat
          BY <1>2, <2>2, <2>3, <2>4, <2>5, <2>6, <4>2
        <4>4. (r + Ahead(k) <= 1 /\ Ahead(k) = 0) => n = r + Ahead(k)
          BY <2>5, <4>3
        <4>5. InTime(due[u], slack[u] + 1, r + Ahead(k), 0, n)
          BY <1>0, <1>2, <4>2, <4>3, <4>4, RestartedRunning
        <4>6. due'[u] = due[u] /\ slack'[u] = slack[u] + 1
          BY <1>4, <1>5, <3>3, <4>2
        <4> QED BY <3>2, <3>4, <3>6, <4>1, <4>5, <4>6
      <3>7. \/ active'[i].timer = t /\ At(i)' = n
            \/ \E k \in 1 .. Len(active) : active'[i].timer = active[k].timer /\ At(i)' = r + Ahead(k)
        BY <1>0, <1>2, <1>8, <2>4, <2>6, <3>1, InsertFirstTimes
      <3> QED BY <3>5, <3>6, <3>7
    <2>7. CASE ~(raw_value > n)
      <3>1. InsertLater(t, n)
        BY <2>1, <2>7
      <3>2. active'[1].time = first
        BY <1>0, <1>2, <2>3, <3>1, InsertLaterLists
      <3>3. /\ elapsed' = elapsed
            /\ slack' = [slack EXCEPT ![t] = IF raw_value = 0 THEN elapsed - load ELSE 0]
        BY <3>1 DEF InsertLater, hw
      <3>4. CASE active'[i].timer = t /\ At(i)' = active[1].time + (n - raw_value)
        <4>1. slack'[t] = IF r = 0 THEN elapsed - Loaded(first) ELSE 0
          BY <1>0, <2>2, <2>3, <2>4, <3>3 DEF TypeOK
        <4>2. PICK s : s = IF r = 0 THEN elapsed - Loaded(first) ELSE 0
          OBVIOUS
        <4>3. first \in Nat
          BY <2>2, <2>3
        <4>4. InTime(n, s, first + (n - r), elapsed, first)
          BY <1>0, <1>2, <2>5, <4>2, <4>3 DEF InTime, Loaded, DELTA
        <4> QED BY <1>4, <2>3, <2>4, <3>2, <3>3, <3>4, <4>1, <4>2, <4>4
      <3>5. ASSUME NEW k \in 1 .. Len(active), active'[i].timer = active[k].timer, At(i)' = At(k)
            PROVE  InTime(due'[active'[i].timer], slack'[active'[i].timer], At(i)', elapsed', active'[1].time)
        <4>1. PICK u : u = active[k].timer
          OBVIOUS
        <4>2. u \in Timers(active) /\ u \in Timer /\ InTime(due[u], slack[u], At(k), elapsed, first)
          BY <1>0, <2>3, <4>1, Waits
        <4>3. u # t /\ slack'[u] = slack[u] /\ due'[u] = due[u]
          BY <1>0, <1>4, <1>5, <3>3, <4>2 DEF TypeOK
        <4> QED BY <3>2, <3>3, <3>5, <4>1, <4>2, <4>3
      <3>6. \/ active'[i].timer = t /\ At(i)' = active[1].time + (n - raw_value)
            \/ \E k \in 1 .. Len(active) : active'[i].timer = active[k].timer /\ At(i)' = At(k)
        BY <1>0, <1>2, <1>8, <3>1, InsertLaterTimes
      <3> QED BY <3>4, <3>5, <3>6
    <2> QED BY <2>6, <2>7
  <1> QED BY <1>7, <1>8
LEMMA StopFirstTimes ==
    ASSUME IInv, TimeInv, active # << >>, StopFirst, failed' = FALSE PROVE TimeInv'
  <1>0. /\ TypeOK /\ ListsAgree /\ HwInv
        /\ active \in Seq(Entry) /\ load \in Nat /\ elapsed \in Nat /\ Len(active) \in Nat
        /\ 1 \in 1 .. Len(active)
    BY LenProperties, EmptySeq DEF IInv, TypeOK
  <1>1. PICK first : first = active[1].time
    OBVIOUS
  <1>2. first \in Nat /\ load = Loaded(first)
    BY <1>0, <1>1, Waits
  <1>3. Delists(active[1].timer) /\ (Len(active) = 1 <=> active' = << >>)
    BY <1>0, StopFirstLists
  <1>4. SUFFICES ASSUME NEW i \in 1 .. Len(active')
                 PROVE  InTime(due'[active'[i].timer], slack'[active'[i].timer], At(i)', elapsed', active'[1].time)
    BY DEF TimeInv
  <1>5. active' \in Seq(Entry) /\ active' # << >> /\ Len(active) > 1 /\ active'[1].time \in Nat
    <2>1. active' \in Seq(Entry)
      BY <1>3 DEF Delists
    <2>2. active' # << >>
      BY <2>1, EmptySeq, LenProperties
    <2>3. active'[1] \in Entry
      BY <2>1, <2>2, EmptySeq, ElementOfSeq, LenProperties
    <2>4. active'[1].time \in Nat
      BY <2>3 DEF Entry
    <2>5. Len(active) > 1
      <3>1. Len(active) \in Nat \ {0}
        BY <1>0, AheadSteps
      <3>2. Len(active) # 1
        BY <1>3, <2>2, Zenon
      <3>3. \A n \in Nat \ {0} : n # 1 => n > 1
        OBVIOUS
      <3> QED BY <3>1, <3>2, <3>3
    <2> QED BY <2>1, <2>2, <2>4, <2>5
  <1>6. /\ active' = Rest /\ elapsed' = 0 /\ Slacken(Tail(active))
        /\ ~(raw_value = 0 /\ elapsed + DELTA < first)
    <2>1. active' = Rest /\ HalStart(Rest[1].time) /\ Slacken(Tail(active))
      <3>1. \A n \in Nat : n > 1 => n # 1
        OBVIOUS
      <3>2. Len(active) # 1
        BY <1>0, <1>5, <3>1
      <3> QED BY <3>2, Zenon DEF StopFirst
    <2>2. HalStart(active'[1].time)
      BY <2>1, Zenon
    <2>3. elapsed' = 0
      BY <2>2 DEF HalStart
    <2>4. ~(raw_value = 0 /\ elapsed + DELTA < first)
      BY <1>1, <1>5 DEF StopFirst
    <2> QED BY <2>1, <2>3, <2>4
  <1>7. ASSUME NEW k \in 2 .. Len(active)
        PROVE  /\ slack'[active[k].timer] = slack[active[k].timer] + 1
               /\ due'[active[k].timer] = due[active[k].timer]
    <2>1. PICK f : f = Tail(active)
      OBVIOUS
    <2>2. /\ f \in Seq(Entry) /\ Len(f) = Len(active) - 1
          /\ \A j \in 1 .. Len(active) - 1 : f[j] = active[j + 1]
      BY <1>0, <2>1, HeadTailProperties
    <2>3. k - 1 \in 1 .. Len(f) /\ k - 1 \in DOMAIN f /\ (k - 1) + 1 = k /\ k \in 1 .. Len(active)
          /\ k - 1 \in 1 .. Len(active) - 1
      BY <1>0, <2>2, LenProperties
    <2>4. f[k - 1] = active[k]
      BY <2>2, <2>3
    <2>5. active[k].timer \in Timers(f)
      BY <2>3, <2>4 DEF Timers
    <2>6. active[k].timer \in Timer
      BY <1>0, <2>3, Waits
    <2>7. Slacken(f)
      BY <1>6, <2>1
    <2> QED BY <2>5, <2>6, <2>7 DEF Slacken, Forget
  <1>8. ASSUME NEW k \in 2 .. Len(active)
        PROVE  /\ k \in 1 .. Len(active)
               /\ due[active[k].timer] \in Int /\ slack[active[k].timer] \in Nat /\ Ahead(k) \in Nat
               /\ At(k) = first + Ahead(k) /\ At(k) \in Nat
               /\ InTime(due[active[k].timer], slack[active[k].timer], At(k), elapsed, first)
               /\ 2 \in 1 .. Len(active) /\ Ahead(2) \in Nat /\ Ahead(2) <= Ahead(k)
    <2>1. k \in 1 .. Len(active) /\ 2 \in 1 .. Len(active) /\ k \in 2 .. Len(active)
      BY <1>0
    <2>2. /\ due[active[k].timer] \in Int /\ slack[active[k].timer] \in Nat /\ Ahead(k) \in Nat
          /\ At(k) = first + Ahead(k)
          /\ InTime(due[active[k].timer], slack[active[k].timer], At(k), elapsed, first)
      BY <1>0, <1>1, <2>1, Waits
    <2>3. Ahead(2) \in Nat
      BY <1>0, <2>1, AheadSteps
    <2>4. Ahead(2) <= Ahead(k)
      BY <1>0, <2>1, AheadOrdered
    <2> QED BY <1>2, <2>1, <2>2, <2>3, <2>4
  <1>9. CASE raw_value = 0
    <2>1. PICK n : n = Larger(elapsed - first, 0)
      OBVIOUS
    <2>2. n \in Nat /\ first <= elapsed + DELTA
      BY <1>0, <1>2, <1>6, <1>9, <2>1 DEF Larger, DELTA
    <2>3. active' = Deducted(n)
      BY <1>1, <1>6, <1>9, <2>1 DEF Rest
    <2>4. /\ active'[1].time = Larger(Ahead(2) - n, 0)
          /\ \A j \in 1 .. Len(active') :
                \E k \in 2 .. Len(active) :
                   active'[j].timer = active[k].timer /\ At(j)' = Larger(Ahead(k) - n, 0)
      BY <1>0, <1>5, <2>2, <2>3, StopOverdueTimes
    <2>5. PICK k \in 2 .. Len(active) :
             active'[i].timer = active[k].timer /\ At(i)' = Larger(Ahead(k) - n, 0)
      BY <2>4
    <2>6. PICK u : u = active[k].timer
      OBVIOUS
    <2>7. /\ due[u] \in Int /\ slack[u] \in Nat /\ Ahead(k) \in Nat
          /\ At(k) = first + Ahead(k) /\ At(k) \in Nat
          /\ InTime(due[u], slack[u], At(k), elapsed, first)
          /\ Ahead(2) \in Nat /\ Ahead(2) <= Ahead(k)
      BY <1>8, <2>6
    <2>8. Larger(Ahead(k) - n, 0) = 0 => active'[1].time = 0
      BY <2>2, <2>4, <2>7 DEF Larger
    <2>9. InTime(due[u], slack[u] + 1, Larger(Ahead(k) - n, 0), 0, active'[1].time)
      BY <1>0, <1>2, <1>5, <2>1, <2>2, <2>7, <2>8, RestartedOverdue
    <2>10. slack'[u] = slack[u] + 1 /\ due'[u] = due[u]
      BY <1>7, <2>6
    <2> QED BY <1>6, <2>5, <2>6, <2>9, <2>10
  <1>10. CASE raw_value # 0
    <2>1. PICK r : r = raw_value
      OBVIOUS
    <2>2. r \in Nat /\ elapsed < Loaded(first) /\ r = Loaded(first) - elapsed /\ r >= 1
      BY <1>0, <1>2, <1>10, <2>1, RawValue DEF raw_value
    <2>3. active' = LaterBy(Tail(active), r)
      BY <1>6, <1>10, <2>1 DEF Rest
    <2>4. /\ active'[1].time = r + Ahead(2)
          /\ \A j \in 1 .. Len(active') :
                \E k \in 2 .. Len(active) :
                   active'[j].timer = active[k].timer /\ At(j)' = r + Ahead(k)
      BY <1>0, <1>5, <2>2, <2>3, StopEarlyTimes
    <2>5. PICK k \in 2 .. Len(active) :
             active'[i].timer = active[k].timer /\ At(i)' = r + Ahead(k)
      BY <2>4
    <2>6. PICK u : u = active[k].timer
      OBVIOUS
    <2>7. /\ due[u] \in Int /\ slack[u] \in Nat /\ Ahead(k) \in Nat
          /\ At(k) = first + Ahead(k) /\ At(k) \in Nat
          /\ InTime(due[u], slack[u], At(k), elapsed, first)
          /\ Ahead(2) \in Nat /\ Ahead(2) <= Ahead(k)
      BY <1>8, <2>6
    <2>8. (r + Ahead(k) <= 1 /\ Ahead(k) = 0) => active'[1].time = r + Ahead(k)
      BY <2>2, <2>4, <2>7
    <2>9. InTime(due[u], slack[u] + 1, r + Ahead(k), 0, active'[1].time)
      BY <1>0, <1>2, <1>5, <2>2, <2>7, <2>8, RestartedRunning
    <2>10. slack'[u] = slack[u] + 1 /\ due'[u] = due[u]
      BY <1>7, <2>6
    <2> QED BY <1>6, <2>5, <2>6, <2>9, <2>10
  <1> QED BY <1>9, <1>10

LEMMA StopTimes == ASSUME IInv, TimeInv, NEW t \in Timer, Stop(t) PROVE TimeInv'
  <1>0. TypeOK /\ ListsAgree /\ HwInv /\ active \in Seq(Entry) /\ DOMAIN active = 1 .. Len(active)
    BY LenProperties DEF IInv, TypeOK
  <1>1. failed' = FALSE
    <2>1. IInv'
      BY StopActiveInv, StopFiredInv DEF Stop
    <2> QED BY <2>1 DEF IInv, NoCollapse, TypeOK
  <1>2. CASE StopFired(t)
    <2>1. UNCHANGED <<active, elapsed, ghost>>
      BY <1>2 DEF StopFired, hw
    <2> QED BY <1>0, <2>1, StayTimes
  <1>3. CASE StopActive(t)
    <2>1. t \in Timers(active)
      BY <1>0, <1>3 DEF StopActive, ListsAgree
    <2>2. active # << >>
      BY <1>0, <2>1, EmptySeq DEF Timers
    <2>3. IF t = active[1].timer THEN StopFirst ELSE StopLater(t)
      BY <1>3, <2>1 DEF StopActive
    <2>4. CASE t = active[1].timer
      BY <1>1, <2>2, <2>3, <2>4, StopFirstTimes
    <2>5. CASE t # active[1].timer
      <3>1. StopLater(t)
        BY <2>3, <2>5
      <3>2. NoRepeats(Names(active))
        BY <1>0, Distinct DEF ListsAgree
      <3>3. \A i \in 1 .. Len(active') :
               \E j \in 1 .. Len(active) :
                  active'[i].timer = active[j].timer /\ active[j].timer # t /\ At(i)' = At(j)
        BY <1>0, <2>1, <2>2, <2>5, <3>1, <3>2, StopLaterTimes
      <3>4. active'[1].time = active[1].time
        BY <1>0, <2>1, <2>5, <3>1, StopLaterLists
      <3>5. /\ slack' = [slack EXCEPT ![t] = 0] /\ due' = [due EXCEPT ![t] = 0]
            /\ elapsed' = elapsed
        BY <3>1 DEF StopLater, hw
      <3>6. ASSUME NEW i \in 1 .. Len(active')
            PROVE  InTime(due'[active'[i].timer], slack'[active'[i].timer], At(i)', elapsed', active'[1].time)
        <4>1. PICK j \in 1 .. Len(active) :
                 active'[i].timer = active[j].timer /\ active[j].timer # t /\ At(i)' = At(j)
          BY <3>3
        <4>2. PICK u : u = active[j].timer
          OBVIOUS
        <4>3. u \in Timer /\ InTime(due[u], slack[u], At(j), elapsed, active[1].time)
          BY <1>0, <4>2, Waits
        <4>4. slack'[u] = slack[u] /\ due'[u] = due[u]
          BY <1>0, <3>5, <4>1, <4>2, <4>3 DEF TypeOK
        <4> QED BY <3>4, <3>5, <4>1, <4>2, <4>3, <4>4
      <3> QED BY <3>6 DEF TimeInv
    <2> QED BY <2>4, <2>5
  <1> QED BY <1>2, <1>3 DEF Stop

(* The handler's n, and what it leaves.                                    *)
LEMMA HandlerTimes == ASSUME IInv, TimeInv, Handler PROVE TimeInv'
  <1>0. /\ TypeOK /\ HwInv /\ active \in Seq(Entry) /\ active # << >> /\ elapsed \in Nat
        /\ Len(active) \in Nat /\ DOMAIN active = 1 .. Len(active) /\ 1 \in 1 .. Len(active)
    BY LenProperties, EmptySeq DEF IInv, TypeOK, Handler
  <1>1. PICK first : first = active[1].time
    OBVIOUS
  <1>2. PICK m : m = late
    OBVIOUS
  <1>3. first \in Nat /\ first <= elapsed + DELTA /\ m = Larger(elapsed - first, 0) /\ m \in Nat
    <2>1. first \in Nat
      BY <1>0, <1>1, Waits
    <2> QED BY <1>0, <1>1, <1>2, <2>1 DEF Handler, late, Larger
  <1>4. PICK n \in 1 .. Len(active) : Expired(n) /\ active' = Remain(n)
    BY <1>0 DEF Handler
  <1>5. SUFFICES ASSUME NEW i \in 1 .. Len(active')
                 PROVE  InTime(due'[active'[i].timer], slack'[active'[i].timer], At(i)', elapsed', active'[1].time)
    BY DEF TimeInv
  <1>6. PICK k \in n + 1 .. Len(active) :
           /\ active'[i].timer = active[k].timer /\ At(i)' = Ahead(k) - m
           /\ Ahead(k) - m >= 1 /\ active'[1].time >= 1
    BY <1>0, <1>2, <1>3, <1>4, RemainTimes
  <1>7. active' \in Seq(Entry) /\ active' # << >> /\ active'[1].time \in Nat /\ DOMAIN active' = 1 .. Len(active')
    <2>1. active' \in Seq(Entry)
      BY <1>0, <1>4, RemainEntries
    <2>2. active' # << >>
      BY <2>1, EmptySeq, LenProperties
    <2>3. active'[1] \in Entry
      BY <2>1, <2>2, EmptySeq, ElementOfSeq, LenProperties
    <2> QED BY <2>1, <2>2, <2>3, LenProperties DEF Entry
  <1>8. elapsed' = 0 /\ Slacken(active')
    BY <1>7, HalStartLoads DEF Handler
  <1>9. PICK u : u = active[k].timer
    OBVIOUS
  <1>10. /\ k \in 1 .. Len(active) /\ u \in Timer /\ due[u] \in Int /\ slack[u] \in Nat /\ Ahead(k) \in Nat
         /\ At(k) = first + Ahead(k) /\ At(k) \in Nat
         /\ InTime(due[u], slack[u], At(k), elapsed, first)
    <2>1. k \in 1 .. Len(active)
      BY <1>0, <1>4
    <2>2. /\ u \in Timer /\ due[u] \in Int /\ slack[u] \in Nat /\ Ahead(k) \in Nat
          /\ At(k) = first + Ahead(k)
          /\ InTime(due[u], slack[u], At(k), elapsed, first)
      BY <1>0, <1>1, <1>9, <2>1, Waits
    <2> QED BY <1>3, <2>1, <2>2
  <1>11. u \in Timers(active')
    BY <1>6, <1>7, <1>9 DEF Timers
  <1>12. slack'[u] = slack[u] + 1 /\ due'[u] = due[u]
    BY <1>8, <1>10, <1>11 DEF Slacken, Forget
  <1>13. Larger(Ahead(k) - m, 0) = Ahead(k) - m /\ ~(Larger(Ahead(k) - m, 0) = 0)
    BY <1>3, <1>6, <1>10 DEF Larger
  <1>14. InTime(due[u], slack[u] + 1, Larger(Ahead(k) - m, 0), 0, active'[1].time)
    BY <1>0, <1>3, <1>7, <1>10, <1>13, RestartedOverdue
  <1> QED BY <1>6, <1>8, <1>9, <1>12, <1>13, <1>14
LEMMA OtherTimes ==
    ASSUME IInv, TimeInv,
           \/ AllocTake \/ \E t \in Timer : AllocSet(t) \/ Free(t)
           \/ Irq \/ HandlerEarly \/ CallbackReturns \/ UNCHANGED vars
    PROVE  TimeInv'
  <1>0. SUFFICES UNCHANGED <<active, elapsed, ghost>>
    BY StayTimes DEF IInv
  <1>1. CASE AllocTake
    BY <1>1 DEF AllocTake, hw
  <1>2. ASSUME NEW t \in Timer, AllocSet(t) \/ Free(t) PROVE UNCHANGED <<active, elapsed, ghost>>
    BY <1>2 DEF AllocSet, Free, hw, lists
  <1>3. CASE Irq \/ HandlerEarly \/ CallbackReturns
    BY <1>3 DEF Irq, HandlerEarly, CallbackReturns, hw, lists
  <1>4. CASE UNCHANGED vars
    BY <1>4 DEF vars, hw, lists
  <1> QED BY <1>1, <1>2, <1>3, <1>4

(* What the list has for every timer is what was asked for it, but for its *)
(* slack.                                                                  *)
THEOREM TimerInTime == Spec => []TimeInv
  <1>1. Init => TimeInv
    BY DEF Init, TimeInv
  <1>2. IInv /\ TimeInv /\ [Next]_vars => TimeInv'
    <2> SUFFICES ASSUME IInv, TimeInv, [Next]_vars PROVE TimeInv'
      OBVIOUS
    <2>1. CASE Interrupt
      <3>1. CASE Handler
        BY <3>1, HandlerTimes
      <3>2. CASE Irq \/ HandlerEarly \/ CallbackReturns
        BY <3>2, OtherTimes
      <3> QED BY <2>1, <3>1, <3>2 DEF Interrupt
    <2>2. CASE Caller
      BY <2>2, OtherTimes, StopTimes, StartTimes DEF Caller
    <2> QED BY <2>1, <2>2, OtherTimes, TickTimes DEF Next
  <1> QED BY <1>1, <1>2, TimerCorrect, PTL DEF Spec

(* Ahead of the next by no more than the handler is late, and by more.     *)
LEMMA DueByNow ==
    ASSUME NEW d \in Int, NEW s \in Nat, NEW h \in Nat, NEW e \in Nat, NEW first \in Nat,
           InTime(d, s, first + h, e, first), first <= e + DELTA, h <= Larger(e - first, 0)
    PROVE  d <= s + DELTA
  BY DEF InTime, Larger, DELTA

LEMMA DueLater ==
    ASSUME NEW d \in Int, NEW s \in Nat, NEW h \in Nat, NEW e \in Nat, NEW first \in Nat,
           InTime(d, s, first + h, e, first), first <= e + DELTA, h - Larger(e - first, 0) >= 1
    PROVE  d >= -s
  BY DEF InTime, Larger, DELTA

LEMMA DueAfterFirst ==
    ASSUME NEW d \in Int, NEW s \in Nat, NEW h \in Nat, NEW e \in Nat, NEW first \in Nat,
           InTime(d, s, first + h, e, first), first > e + DELTA
    PROVE  d >= -s
  BY DEF InTime, DELTA

(* A timer that fires was due, but for its slack.                          *)
LEMMA FiredInTime ==
    ASSUME IInv, TimeInv, Handler, NEW t \in Timer, state[t] = "ACTIVE",
           state'[t] \in {"FIRED", "CALLBACK"}
    PROVE  due[t] <= slack[t] + DELTA
  <1>0. /\ TypeOK /\ HwInv /\ ListsAgree /\ active \in Seq(Entry) /\ active # << >> /\ elapsed \in Nat
        /\ Len(active) \in Nat /\ DOMAIN active = 1 .. Len(active) /\ 1 \in 1 .. Len(active)
        /\ state \in [Timer -> States]
    BY LenProperties, EmptySeq DEF IInv, TypeOK, Handler
  <1>1. PICK first : first = active[1].time
    OBVIOUS
  <1>2. first \in Nat /\ first <= elapsed + DELTA
    <2>1. first \in Nat
      BY <1>0, <1>1, Waits
    <2> QED BY <1>1, <2>1 DEF Handler
  <1>3. PICK n \in 1 .. Len(active) : Expired(n) /\ Call([i \in 1 .. n |-> active[i].timer], state)
    BY <1>0 DEF Handler
  <1>4. PICK ts : ts = [i \in 1 .. n |-> active[i].timer]
    OBVIOUS
  <1>5. DOMAIN ts = 1 .. n /\ \A i \in 1 .. n : ts[i] = active[i].timer /\ ts[i] \in Timer
    BY <1>0, <1>4, Waits
  <1>6. ts \in Seq(Timer) /\ Len(ts) = n /\ ts # << >>
    <2>1. n \in Nat \ {0} /\ ts \in [1 .. n -> Timer]
      BY <1>0, <1>4, <1>5
    <2> QED BY <2>1, SeqDef, EmptySeq
  <1>7. t \in Elements(ts)
    <2>1. Head(ts) \in Elements(ts)
      <3>1. Head(ts) = ts[1] /\ 1 \in DOMAIN ts
        BY <1>0, <1>5, <1>6, HeadTailProperties
      <3> QED BY <3>1 DEF Elements
    <2>2. state' = [u \in Timer |-> IF u = Head(ts) THEN "CALLBACK"
                                    ELSE IF u \in Elements(ts) THEN "FIRED" ELSE state[u]]
      BY <1>3, <1>4, <1>6 DEF Call
    <2> QED BY <2>1, <2>2
  <1>8. PICK k \in 1 .. n : active[k].timer = t
    BY <1>5, <1>7 DEF Elements
  <1>9. /\ k \in 1 .. Len(active) /\ n \in k .. Len(active) /\ n \in 1 .. Len(active)
    BY <1>0
  <1>10. Ahead(k) <= Ahead(n) /\ Ahead(n) \in Nat
    BY <1>0, <1>9, AheadOrdered, AheadSteps
  <1>11. /\ due[t] \in Int /\ slack[t] \in Nat /\ Ahead(k) \in Nat /\ At(k) = first + Ahead(k)
         /\ InTime(due[t], slack[t], At(k), elapsed, first)
    BY <1>0, <1>1, <1>8, <1>9, Waits
  <1>12. Ahead(n) <= Larger(elapsed - first, 0)
    <2>1. late - Ahead(n) \in Nat /\ late = Larger(elapsed - first, 0)
      BY <1>1, <1>3 DEF Expired, late
    <2> QED BY <1>0, <1>2, <1>10, <2>1 DEF Larger
  <1>13. Ahead(k) <= Larger(elapsed - first, 0)
    BY <1>0, <1>2, <1>10, <1>11, <1>12 DEF Larger
  <1> QED BY <1>0, <1>2, <1>11, <1>13, DueByNow

(* Only the handler fires a timer.                                         *)
LEMMA OnlyHandlerFires ==
    ASSUME IInv, NEW t \in Timer, state[t] = "ACTIVE", state'[t] \in {"FIRED", "CALLBACK"}, Next
    PROVE  Handler
  <1>0. TypeOK /\ ListsAgree /\ state \in [Timer -> States]
    BY DEF IInv, TypeOK
  <1>1. ASSUME CallbackReturns PROVE FALSE
    <2>1. PICK before : before = [state EXCEPT ![running] = IF @ = "CALLBACK" THEN "ALLOC" ELSE @]
      OBVIOUS
    <2>2. Call(fired, before)
      BY <1>1, <2>1 DEF CallbackReturns
    <2>3. before[t] = "ACTIVE"
      BY <1>0, <2>1
    <2>4. t \notin Elements(fired)
      BY <1>0 DEF ListsAgree
    <2>5. fired # << >> => Head(fired) \in Elements(fired)
      <3>1. ASSUME fired # << >> PROVE Head(fired) = fired[1] /\ 1 \in DOMAIN fired
        BY <1>0, <3>1, HeadTailProperties, EmptySeq, LenProperties DEF TypeOK
      <3> QED BY <3>1 DEF Elements
    <2> QED BY <2>2, <2>3, <2>4, <2>5 DEF Call
  <1>2. ASSUME Caller PROVE FALSE
    <2>1. ASSUME AllocTake PROVE FALSE
      BY <2>1 DEF AllocTake
    <2>2. ASSUME NEW u \in Timer, AllocSet(u) PROVE FALSE
      BY <1>0, <2>2 DEF AllocSet
    <2>3. ASSUME NEW u \in Timer, Free(u) PROVE FALSE
      BY <1>0, <2>3 DEF Free
    <2>4. ASSUME NEW u \in Timer, Stop(u) PROVE FALSE
      BY <1>0, <2>4 DEF Stop
    <2>5. ASSUME NEW u \in Timer, NEW n \in Ticks, Start(u, n) PROVE FALSE
      BY <1>0, <2>5 DEF Start
    <2> QED BY <1>2, <2>1, <2>2, <2>3, <2>4, <2>5 DEF Caller
  <1>3. ~Tick /\ ~Irq /\ ~HandlerEarly
    BY DEF Tick, Irq, HandlerEarly
  <1> QED BY <1>1, <1>2, <1>3 DEF Next, Interrupt

(* No timer fires before its time, by more than its slack and a tick.      *)
THEOREM TimerNotEarly == Spec => NotEarly
  <1>1. IInv /\ TimeInv /\ [Next]_vars
          => [\A t \in Timer : state[t] = "ACTIVE" /\ state'[t] \in {"FIRED", "CALLBACK"}
                                 => due[t] <= slack[t] + DELTA]_vars
    <2> SUFFICES ASSUME IInv, TimeInv, Next, NEW t \in Timer, state[t] = "ACTIVE",
                        state'[t] \in {"FIRED", "CALLBACK"}
                 PROVE  due[t] <= slack[t] + DELTA
      OBVIOUS
    <2> QED BY OnlyHandlerFires, FiredInTime
  <1> QED BY <1>1, TimerCorrect, TimerInTime, PTL DEF Spec, NotEarly

(* Only the handler is no longer entered.                                  *)
LEMMA OnlyHandlerEnds ==
    ASSUME entered, ~entered', Next
    PROVE  Handler \/ HandlerEarly
  <1>1. ASSUME Caller PROVE FALSE
    <2>1. ASSUME NEW u \in Timer, AllocSet(u) \/ Free(u) \/ Stop(u) PROVE FALSE
      BY <2>1 DEF AllocSet, Free, Stop, handler
    <2>2. ASSUME NEW u \in Timer, NEW n \in Ticks, Start(u, n) PROVE FALSE
      BY <2>2 DEF Start, handler
    <2>3. ~AllocTake
      BY DEF AllocTake, handler
    <2> QED BY <1>1, <2>1, <2>2, <2>3 DEF Caller
  <1>2. ~Tick /\ ~Irq /\ ~CallbackReturns
    BY DEF Tick, Irq, CallbackReturns, handler
  <1> QED BY <1>1, <1>2 DEF Next, Interrupt

(* A timer that the handler leaves is not due, but for its slack.          *)
LEMMA LeftInTime ==
    ASSUME IInv, TimeInv, Handler \/ HandlerEarly, NEW t \in Timers(active')
    PROVE  due[t] >= -slack[t]
  <1>0. /\ TypeOK /\ HwInv /\ active \in Seq(Entry) /\ elapsed \in Nat
        /\ Len(active) \in Nat /\ DOMAIN active = 1 .. Len(active)
    BY LenProperties DEF IInv, TypeOK
  <1>1. CASE HandlerEarly
    <2>1. active' = active
      BY <1>1 DEF HandlerEarly, lists
    <2>2. PICK k \in 1 .. Len(active) : active[k].timer = t
      BY <1>0, <2>1 DEF Timers
    <2>3. active # << >> /\ active[1].time > elapsed + DELTA
      BY <1>0, <1>1, <2>2, EmptySeq DEF HandlerEarly
    <2>4. /\ active[1].time \in Nat /\ due[t] \in Int /\ slack[t] \in Nat /\ Ahead(k) \in Nat
          /\ At(k) = active[1].time + Ahead(k)
          /\ InTime(due[t], slack[t], At(k), elapsed, active[1].time)
      BY <1>0, <2>2, Waits
    <2> QED BY <1>0, <2>3, <2>4, DueAfterFirst
  <1>2. CASE Handler
    <2>0. active # << >> /\ 1 \in 1 .. Len(active)
      BY <1>0, <1>2, EmptySeq DEF Handler
    <2>1. PICK first : first = active[1].time
      OBVIOUS
    <2>2. PICK m : m = late
      OBVIOUS
    <2>3. first \in Nat /\ first <= elapsed + DELTA /\ m = Larger(elapsed - first, 0) /\ m \in Nat
      <3>1. first \in Nat
        BY <1>0, <2>0, <2>1, Waits
      <3> QED BY <1>0, <1>2, <2>1, <2>2, <3>1 DEF Handler, late, Larger
    <2>4. PICK n \in 1 .. Len(active) : Expired(n) /\ active' = Remain(n)
      BY <1>0, <1>2 DEF Handler
    <2>5. PICK i \in 1 .. Len(active') : active'[i].timer = t
      <3>1. active' \in Seq(Entry)
        BY <1>0, <2>4, RemainEntries
      <3>2. DOMAIN active' = 1 .. Len(active')
        BY <3>1, LenProperties
      <3> QED BY <3>2 DEF Timers
    <2>6. PICK k \in n + 1 .. Len(active) : active'[i].timer = active[k].timer /\ Ahead(k) - m >= 1
      BY <1>0, <2>0, <2>2, <2>3, <2>4, RemainTimes
    <2>7. k \in 1 .. Len(active)
      BY <1>0
    <2>8. /\ due[t] \in Int /\ slack[t] \in Nat /\ Ahead(k) \in Nat
          /\ At(k) = first + Ahead(k)
          /\ InTime(due[t], slack[t], At(k), elapsed, first)
      BY <1>0, <2>1, <2>5, <2>6, <2>7, Waits
    <2> QED BY <1>0, <2>3, <2>6, <2>8, DueLater
  <1> QED BY <1>1, <1>2

(* The handler leaves no timer whose time has passed by more than its      *)
(* slack.                                                                  *)
THEOREM TimerNotLate == Spec => NotLate
  <1>1. IInv /\ TimeInv /\ [Next]_vars
          => [entered /\ ~entered' => \A t \in Timers(active') : due[t] >= -slack[t]]_vars
    <2> SUFFICES ASSUME IInv, TimeInv, Next, entered, ~entered', NEW t \in Timers(active')
                 PROVE  due[t] >= -slack[t]
      OBVIOUS
    <2> QED BY OnlyHandlerEnds, LeftInTime
  <1> QED BY <1>1, TimerCorrect, TimerInTime, PTL DEF Spec, NotLate
=============================================================================
