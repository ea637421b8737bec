--------------------------- MODULE MCNorFlashWake ---------------------------
(* NorFlashWake with the instances of MCNorFlash.                          *)
EXTENDS NorFlashWake, MCNorFlash
=============================================================================
