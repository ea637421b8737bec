------------------------------ MODULE NorMemory ------------------------------
(***************************************************************************)
(* What NOR flash cells do, for the modules that model the write-back      *)
(* layer above them.  A sector is a function from its pages to values; a   *)
(* page is the unit the HAL programs (hal_norflash_write_int cuts a write  *)
(* at page boundaries) and a sector the unit it erases.                    *)
(***************************************************************************)
EXTENDS Naturals

CONSTANTS
    NSec,     \* sectors of the device (bound of the model)
    NPage,    \* pages in a sector (bound of the model)
    Data,     \* payloads a client writes to a page
    Erased,   \* the content 0xff...ff
    Mixed     \* content nobody wrote: a page half programmed, half erased,
              \* or programmed twice with different data

ASSUME MemoryAssumption ==
    /\ NSec \in Nat \ {0}
    /\ NPage \in Nat \ {0}
    /\ Erased \notin Data
    /\ Mixed \notin Data
    /\ Erased # Mixed

Sectors == 0 .. NSec - 1
Pages   == 0 .. NPage - 1
Value   == Data \cup {Erased, Mixed}
Content == [Pages -> Value]
Memory  == [Sectors -> Content]

Blank == [p \in Pages |-> Erased]

(* Programming only clears bits: over an erased page it stores v, over the *)
(* same data or with 0xff it changes nothing, otherwise the two are ANDed. *)
Program(old, v) ==
    IF old = Erased THEN v
    ELSE IF v \in {Erased, old} THEN old ELSE Mixed

(* The memory f after pages a .. b-1 of sector s are programmed from src.  *)
ProgramPages(f, s, a, b, src) ==
    [f EXCEPT ![s] = [p \in Pages |->
        IF a <= p /\ p < b THEN Program(f[s][p], src[p]) ELSE f[s][p]]]

(* The memory f with every page of the sectors a .. b-1 set to v.          *)
SetSectors(f, a, b, v) ==
    [s \in Sectors |-> IF a <= s /\ s < b THEN [p \in Pages |-> v] ELSE f[s]]

(* Content c overwritten by v in the pages a .. b-1 (memcpy into a buffer). *)
CopyPages(c, a, b, v) ==
    [p \in Pages |-> IF a <= p /\ p < b THEN v ELSE c[p]]
=============================================================================
