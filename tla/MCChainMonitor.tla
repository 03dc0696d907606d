--------------------------- MODULE MCChainMonitor ---------------------------
(***************************************************************************)
(* A small instance of ChainMonitor for TLC: a device that rotates after   *)
(* every record and keeps one segment, so that a fetch races every part of *)
(* a rotation.                                                             *)
(***************************************************************************)
EXTENDS ChainMonitor

\* States that differ only in acked are one state: it is a history variable that no
\* action reads and no property of this instance mentions.
MCView == <<disk, made, pc, fd, tip, aseq, segNext, todo, st, mon, silent>>

=============================================================================
