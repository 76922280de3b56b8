------------------------- MODULE MCMemoryRawStorage -------------------------
(***************************************************************************)
(* Small instances of MemoryRawStorage for TLC.                            *)
(***************************************************************************)
EXTENDS MemoryRawStorage

CONSTANTS a, b

\* One byte, exactly a page, and a run over parts of three pages.
MCPayloads == {<<a>>, <<b, a>>, <<a, b, b, a>>}
=============================================================================
