--------------------------- MODULE BlockGeometry ----------------------------
(***************************************************************************)
(* A disk of Size bytes cut into blocks of Block bytes, the last of which  *)
(* may be short: the arithmetic that volume/mod.rs and cache/mod.rs share. *)
(* A byte vector is a function on the disk addresses it stands for.        *)
(***************************************************************************)
EXTENDS Integers

CONSTANTS
    Block,      \* BLOCK, the granularity of the overlay and of the cache
    Size        \* size_bytes of the disk

ASSUME BlockAssumption == Block \in Nat \ {0}
ASSUME SizeAssumption == Size \in Nat

Cells == 0 .. Size - 1

BlockOf(p) == p \div Block

Blocks == {BlockOf(p) : p \in Cells}

\* block_len: the tail block may be short.
BlockLen(b) ==
    LET start == b * Block
    IN  IF Block <= Size - start THEN Block ELSE Size - start

CellsOf(b) == b * Block .. b * Block + BlockLen(b) - 1

\* Mutant of TakeAt: the minimum is taken before the skipped bytes are
\* subtracted, so a short request inside a block makes no progress.
TakeAtMinFirst(p, e) ==
    LET blen == BlockLen(BlockOf(p))
    IN  (IF blen <= e - p THEN blen ELSE e - p) - (p % Block)

\* `take`: how many bytes one iteration handles when it stands at address p
\* of a request that ends before address e.
TakeAt(p, e) ==
    LET within == p % Block
        blen == BlockLen(BlockOf(p))
    IN  IF blen - within <= e - p THEN blen - within ELSE e - p

\* f on the addresses of S, g elsewhere on D.
Overwrite(f, g, S, D) == [p \in D |-> IF p \in S THEN f[p] ELSE g[p]]

=============================================================================
