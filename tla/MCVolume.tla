------------------------------ MODULE MCVolume ------------------------------
(***************************************************************************)
(* Instances of Volume: a disk of five bytes in blocks of two, so block 2  *)
(* is a short tail, and two connections.                                   *)
(***************************************************************************)
EXTENDS Volume

CONSTANTS t1, t2

MCThreads == {t1, t2}
MCVal == 0 .. 2
MCMaster == [p \in 0 .. 4 |-> 0]
MCZeros == [p \in 0 .. 4 |-> 0]

\* Payload v is a buffer of v's.
MCPayloads == {[p \in 0 .. 4 |-> v] : v \in {1, 2}}

\* Reads across block boundaries, inside a block, of the tail, of nothing, and
\* past the end.
MCReads == [t \in MCThreads |->
    IF t = t1 THEN {[off |-> 0, len |-> 5]}
    ELSE {[off |-> 1, len |-> 2], [off |-> 3, len |-> 1], [off |-> 4, len |-> 1], [off |-> 5, len |-> 0],
          [off |-> 3, len |-> 3]}]

\* Writers that share no block: t1 writes blocks 0 and 1 (partly, wholly and
\* across their boundary), t2 the tail.
MCDisjointWrites == [t \in MCThreads |->
    IF t = t1 THEN {[off |-> 1, len |-> 2], [off |-> 0, len |-> 3], [off |-> 2, len |-> 2]}
    ELSE {[off |-> 4, len |-> 1], [off |-> 4, len |-> 2]}]

\* Writers of different bytes of the same block.
MCSharedWrites == [t \in MCThreads |->
    IF t = t1 THEN {[off |-> 0, len |-> 1]} ELSE {[off |-> 1, len |-> 1]}]

=============================================================================
