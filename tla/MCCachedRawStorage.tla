------------------------- MODULE MCCachedRawStorage -------------------------
(***************************************************************************)
(* Small instances of CachedRawStorage for TLC.                            *)
(***************************************************************************)
EXTENDS CachedRawStorage

CONSTANTS a, b

\* One byte, and a run that covers a whole page and parts of two others.
MCPayloads == {<<b>>, <<b, b, a>>}
=============================================================================
