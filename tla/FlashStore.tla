----------------------------- MODULE FlashStore -----------------------------
(***************************************************************************)
(* What a client of norflash_api may believe: a memory in which its writes *)
(* and erases take effect at the call and nothing else ever changes.  The  *)
(* write-back layer (NorFlash) is shown to implement it, the memory being  *)
(* what norflash_api_read returns.                                         *)
(***************************************************************************)
EXTENDS NorMemory

VARIABLE store

TypeOK == store \in Memory

Init == store \in [Sectors -> [Pages -> Data \cup {Erased}]]

Write(s, a, n, v) ==
    /\ \A p \in a .. a + n - 1 : store[s][p] = Erased
    /\ store' = [store EXCEPT ![s] = CopyPages(@, a, a + n, v)]

Erase(s, k) == store' = SetSectors(store, s, s + k, Erased)

Next ==
    \E s \in Sectors :
        \/ \E a \in Pages, n \in 1 .. NPage, v \in Data :
              a + n <= NPage /\ Write(s, a, n, v)
        \/ \E k \in 1 .. NSec : s + k <= NSec /\ Erase(s, k)

Spec == Init /\ [][Next]_store
=============================================================================
