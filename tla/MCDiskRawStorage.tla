-------------------------- MODULE MCDiskRawStorage --------------------------
(* Small instances of DiskRawStorage for TLC.                               *)
EXTENDS DiskRawStorage

CONSTANTS a, b

\* One byte, and a run.
MCPayloads == {<<a>>, <<b, b, a>>}
=============================================================================
