---------------------------- MODULE MCBlockCache ----------------------------
(***************************************************************************)
(* Instances of BlockCache: a store of seven bytes in blocks of two, so    *)
(* block 3 is a tail of one byte, and a cache that holds two blocks.       *)
(***************************************************************************)
EXTENDS BlockCache

CONSTANTS t1, t2

MCVal == 0 .. 3
MCMaster == [p \in 0 .. Size - 1 |-> 1 + (p % 3)]
MCZeros == [p \in 0 .. Size - 1 |-> 0]

\* Two readers, and ranges that cross block boundaries and reach the tail.
MCThreads == {t1, t2}
MCReads == {[off |-> 0, len |-> 2], [off |-> 1, len |-> 4], [off |-> 5, len |-> 2],
            [off |-> 7, len |-> 0]}

=============================================================================
