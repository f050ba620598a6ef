---------------------------- MODULE VolumeProofs ----------------------------
(***************************************************************************)
(* Proofs about Volume, for every block size, disk size, set of threads    *)
(* and set of requests: the type invariant, and, when no two threads write *)
(* the same block, that a read-modify-write never works on a stale copy    *)
(* and that the volume implements the flat disk.                           *)
(***************************************************************************)
EXTENDS Volume, TLAPS

-----------------------------------------------------------------------------
(* The blocks of a disk, for every block size and disk size.               *)

\* Quotient and remainder by the block size.
LEMMA DivMod ==
    ASSUME NEW p \in Nat
    PROVE  /\ p \div Block \in Nat
           /\ p % Block \in Nat
           /\ p % Block < Block
           /\ p = ((p \div Block) * Block) + (p % Block)
  BY BlockAssumption, SMT

\* A byte of the disk lies in the block its address divides into.
LEMMA CellInBlock ==
    ASSUME NEW p \in Cells
    PROVE  /\ BlockOf(p) \in Blocks
           /\ BlockOf(p) \in Nat
           /\ p \in CellsOf(BlockOf(p))
           /\ BlockLen(BlockOf(p)) \in Nat
  <1>1. p \in Nat /\ p < Size
    BY SizeAssumption DEF Cells
  <1>2. /\ BlockOf(p) \in Nat
        /\ BlockOf(p) * Block <= p
        /\ p < BlockOf(p) * Block + Block
        /\ BlockOf(p) * Block \in Nat
    BY <1>1, DivMod, BlockAssumption DEF BlockOf
  <1> HIDE DEF BlockOf
  <1>3. p \in CellsOf(BlockOf(p)) /\ BlockLen(BlockOf(p)) \in Nat
    BY <1>1, <1>2, SizeAssumption, BlockAssumption DEF CellsOf, BlockLen
  <1> QED
    BY <1>2, <1>3 DEF Blocks

\* The bytes of a block are bytes of the disk, and of no other block.
LEMMA BlockCells ==
    ASSUME NEW b \in Blocks, NEW p \in CellsOf(b)
    PROVE  p \in Cells /\ BlockOf(p) = b
  <1>1. PICK q \in Cells : b = BlockOf(q)
    BY DEF Blocks
  <1>2. q \in Nat /\ q < Size
    BY SizeAssumption DEF Cells
  <1>3. b \in Nat /\ b * Block \in Nat /\ b * Block <= q
    BY <1>1, <1>2, DivMod, BlockAssumption DEF BlockOf
  <1>4. p \in Nat /\ b * Block <= p /\ p < b * Block + Block /\ p < Size
    BY <1>2, <1>3, SizeAssumption, BlockAssumption DEF CellsOf, BlockLen
  <1>5. p \div Block = b
    BY <1>3, <1>4, BlockAssumption, SMT
  <1> QED
    BY <1>4, <1>5, SizeAssumption DEF Cells, BlockOf

\* An iteration at address p of a request that ends before e makes progress,
\* stays in the request and in p's block, and covers the block exactly when
\* it takes the block's length.
LEMMA TakeInBlock ==
    ASSUME NEW p \in 0 .. Size, NEW e \in 0 .. Size, p < e
    PROVE  /\ p \in Cells
           /\ TakeAt(p, e) \in 1 .. e - p
           /\ p .. p + TakeAt(p, e) - 1 \subseteq CellsOf(BlockOf(p))
           /\ TakeAt(p, e) = BlockLen(BlockOf(p)) =>
                 p .. p + TakeAt(p, e) - 1 = CellsOf(BlockOf(p))
  <1> DEFINE b == BlockOf(p)  w == p % Block  n == TakeAt(p, e)
  <1>1. p \in Nat /\ e \in Nat /\ p < Size /\ p < e
    BY SizeAssumption
  <1>2. p \in Cells
    BY <1>1, SizeAssumption DEF Cells
  <1>3. /\ b \in Nat /\ w \in Nat /\ b * Block \in Nat
        /\ w < Block
        /\ p = b * Block + w
    BY <1>1, DivMod, BlockAssumption DEF BlockOf
  <1>4. /\ BlockLen(b) \in Nat
        /\ w < BlockLen(b)
    BY <1>1, <1>3, SizeAssumption, BlockAssumption DEF BlockLen
  <1>5. n = IF BlockLen(b) - w <= e - p THEN BlockLen(b) - w ELSE e - p
    BY DEF TakeAt
  <1> HIDE DEF b, w, n
  <1>6. /\ n \in 1 .. e - p
        /\ n <= BlockLen(b) - w
    BY <1>1, <1>3, <1>4, <1>5
  <1>7. CellsOf(b) = b * Block .. b * Block + BlockLen(b) - 1
    BY DEF CellsOf
  <1>8. p .. p + n - 1 \subseteq CellsOf(b)
    <2>1. PICK start \in Nat : start = b * Block
      BY <1>3
    <2>2. PICK len \in Nat : len = BlockLen(b)
      BY <1>4
    <2>3. p = start + w /\ n <= len - w /\ n \in Nat
      BY <1>1, <1>3, <1>6, <2>1, <2>2
    <2>4. p .. p + n - 1 \subseteq start .. start + len - 1
      BY <1>1, <1>3, <2>3
    <2> QED
      BY <1>7, <2>1, <2>2, <2>4
  <1>9. ASSUME n = BlockLen(b) PROVE p .. p + n - 1 = CellsOf(b)
    <2>1. w = 0
      BY <1>9, <1>3, <1>4, <1>6
    <2> QED
      BY <1>3, <1>7, <1>9, <2>1
  <1> QED
    BY <1>2, <1>6, <1>8, <1>9 DEF b, n

-----------------------------------------------------------------------------
(* One iteration of the loops *)

\* One iteration makes progress, stays in its request and in its block, and
\* covers the block exactly when `take` is the block's length.
LEMMA ChunkInBlock ==
    ASSUME NEW t, pos[t] \in 0 .. Size, end[t] \in 0 .. Size, pos[t] < end[t]
    PROVE  /\ pos[t] \in Cells
           /\ Take(t) \in 1 .. end[t] - pos[t]
           /\ Chunk(t) \subseteq CellsOf(BlockOf(pos[t]))
           /\ Take(t) = BlockLen(BlockOf(pos[t])) => Chunk(t) = CellsOf(BlockOf(pos[t]))
  BY TakeInBlock DEF Take, Chunk

-----------------------------------------------------------------------------
(* The type invariant *)

\* The contents of a block are a vector of exactly the block's length.
LEMMA BlockDataType ==
    ASSUME TypeOK, NEW b \in Blocks
    PROVE  BlockData(b) \in [CellsOf(b) -> Val]
  <1>1. \A p \in CellsOf(b) : p \in Cells
    BY BlockCells
  <1> QED
    BY <1>1, MasterAssumption DEF TypeOK, BlockData

\* A vector of a block's bytes is not None.
LEMMA BlockNotNone ==
    ASSUME NEW b \in Blocks, NEW f \in [CellsOf(b) -> Val]
    PROVE  f # None
  <1>1. CellsOf(b) \subseteq Cells
    BY BlockCells
  <1> QED
    BY <1>1, NoneAssumption

LEMMA TypeInit == Init => TypeOK
  BY SizeAssumption, ZerosAssumption DEF Init, TypeOK

LEMMA TypeNext == TypeOK /\ [Next]_vars => TypeOK'
  <1> SUFFICES ASSUME TypeOK, [Next]_vars PROVE TypeOK'
    OBVIOUS
  <1> USE DEF TypeOK
  <1>1. ASSUME NEW t \in Threads, NEW k \in {"read", "write"}, NEW r \in Extent,
               NEW d \in [Cells -> Val], Call(t, k, r, d)
        PROVE  TypeOK'
    <2>1. CASE InBounds(r)
      <3>1. r.off \in 0 .. Size /\ r.off + r.len \in 0 .. Size
        BY <2>1, SizeAssumption DEF InBounds, Extent
      <3>2. rmw[t] = None
        BY <1>1 DEF Call
      <3>3. /\ kind' = [kind EXCEPT ![t] = k]
            /\ pos' = [pos EXCEPT ![t] = r.off]
            /\ end' = [end EXCEPT ![t] = r.off + r.len]
            /\ buf' = [buf EXCEPT ![t] = d]
            /\ UNCHANGED <<overlay, rmw, res>>
        BY <1>1, <2>1 DEF Call
      <3>4. /\ kind' \in [Threads -> {"idle", "read", "write"}]
            /\ pos' \in [Threads -> 0 .. Size]
            /\ end' \in [Threads -> 0 .. Size]
            /\ buf' \in [Threads -> [Cells -> Val]]
        BY <3>1, <3>3
      <3>5. ASSUME NEW u \in Threads, rmw'[u] # None
            PROVE  kind'[u] = "write" /\ pos'[u] < end'[u]
                   /\ rmw'[u] \in [CellsOf(BlockOf(pos'[u])) -> Val]
        <4>1. u # t
          BY <3>2, <3>3, <3>5
        <4>2. kind'[u] = kind[u] /\ pos'[u] = pos[u] /\ end'[u] = end[u] /\ rmw'[u] = rmw[u]
          BY <3>3, <4>1
        <4> QED
          BY <3>5, <4>2
      <3> QED
        BY <3>3, <3>4, <3>5
    <2>2. CASE ~InBounds(r)
      BY <1>1, <2>2 DEF Call
    <2> QED
      BY <2>1, <2>2
  <1>2. ASSUME NEW t \in Threads, ReadBlock(t) PROVE TypeOK'
    <2>1. /\ pos[t] \in Cells
          /\ pos[t] + Take(t) \in 0 .. Size
          /\ Chunk(t) \subseteq CellsOf(BlockOf(pos[t]))
      BY <1>2, ChunkInBlock, SizeAssumption DEF ReadBlock
    <2>2. BlockData(BlockOf(pos[t])) \in [CellsOf(BlockOf(pos[t])) -> Val]
      BY <2>1, CellInBlock, BlockDataType
    <2>3. Overwrite(BlockData(BlockOf(pos[t])), buf[t], Chunk(t), Cells) \in [Cells -> Val]
      BY <2>1, <2>2 DEF Overwrite
    <2>4. rmw[t] = None
      BY <1>2 DEF ReadBlock
    <2> QED
      BY <1>2, <2>1, <2>3, <2>4 DEF ReadBlock
  <1>3. ASSUME NEW t \in Threads, WriteFullBlock(t) PROVE TypeOK'
    <2> DEFINE b == BlockOf(pos[t])
    <2>1. pos[t] \in Cells /\ pos[t] + Take(t) \in 0 .. Size
      BY <1>3, ChunkInBlock, SizeAssumption DEF WriteFullBlock
    <2>2. b \in Blocks /\ \A p \in CellsOf(b) : p \in Cells
      BY <2>1, CellInBlock, BlockCells
    <2>3. [p \in CellsOf(b) |-> buf[t][p]] \in [CellsOf(b) -> Val]
      BY <2>2
    <2> QED
      BY <1>3, <2>1, <2>2, <2>3 DEF WriteFullBlock
  <1>4. ASSUME NEW t \in Threads, RmwRead(t) PROVE TypeOK'
    <2>1. pos[t] \in Cells
      BY <1>4, ChunkInBlock DEF RmwRead
    <2>2. BlockData(BlockOf(pos[t])) \in [CellsOf(BlockOf(pos[t])) -> Val]
      BY <2>1, CellInBlock, BlockDataType
    <2> QED
      BY <1>4, <2>2 DEF RmwRead
  <1>5. ASSUME NEW t \in Threads, RmwWrite(t) PROVE TypeOK'
    <2> DEFINE b == BlockOf(pos[t])
    <2>1. /\ pos[t] \in Cells /\ pos[t] + Take(t) \in 0 .. Size
          /\ rmw[t] \in [CellsOf(b) -> Val]
      BY <1>5, ChunkInBlock, SizeAssumption DEF RmwWrite
    <2>2. b \in Blocks /\ \A p \in CellsOf(b) : p \in Cells
      BY <2>1, CellInBlock, BlockCells
    <2>3. Overwrite(buf[t], rmw[t], Chunk(t), CellsOf(b)) \in [CellsOf(b) -> Val]
      BY <2>1, <2>2 DEF Overwrite
    <2> QED
      BY <1>5, <2>1, <2>2, <2>3 DEF RmwWrite
  <1>6. ASSUME NEW t \in Threads, Finish(t) PROVE TypeOK'
    <2>1. rmw[t] = None
      BY <1>6, SizeAssumption DEF Finish
    <2> QED
      BY <1>6, <2>1 DEF Finish
  <1>7. ASSUME NEW t \in Threads, MasterError(t) PROVE TypeOK'
    <2>1. rmw[t] = None
      BY <1>7 DEF MasterError
    <2> QED
      BY <1>7, <2>1 DEF MasterError
  <1>8. CASE Reset
    BY <1>8 DEF Reset
  <1>9. CASE UNCHANGED vars
    BY <1>9 DEF vars, BlockOf, CellsOf, BlockLen
  <1>10. ASSUME NEW t \in Threads, CallRead(t) PROVE TypeOK'
    BY <1>10, <1>1, ReadsAssumption, ZerosAssumption DEF CallRead
  <1>11. ASSUME NEW t \in Threads, CallWrite(t) PROVE TypeOK'
    BY <1>11, <1>1, WritesAssumption, PayloadsAssumption DEF CallWrite
  <1> QED
    BY <1>2, <1>3, <1>4, <1>5, <1>6, <1>7, <1>8, <1>9, <1>10, <1>11 DEF Next, Step

\* Every reachable state is well formed; in particular the overlay holds each
\* block at exactly block_len bytes, so `read_block`'s copy never panics, and
\* `pos` never leaves the disk.
THEOREM TypeCorrect == Spec => []TypeOK
  BY TypeInit, TypeNext, PTL DEF Spec

-----------------------------------------------------------------------------
(* Read-modify-write on a block no other thread writes *)

\* A writer works inside one of the ranges it was asked to write.
WritesOwnRange ==
    \A t \in Threads : kind[t] = "write" =>
        \E r \in Writes[t] : r.off <= pos[t] /\ end[t] = r.off + r.len

\* The inductive strengthening of RmwFresh.
RmwInv == TypeOK /\ WritesOwnRange /\ RmwFresh

LEMMA WritesOwnRangeNext ==
    ASSUME TypeOK, WritesOwnRange, [Next]_vars
    PROVE  WritesOwnRange'
  <1> USE DEF TypeOK, WritesOwnRange
  <1>1. ASSUME NEW t \in Threads, CallRead(t) PROVE WritesOwnRange'
    BY <1>1 DEF CallRead, Call
  <1>2. ASSUME NEW t \in Threads, CallWrite(t) PROVE WritesOwnRange'
    <2>1. PICK r \in Writes[t], d \in Payloads : Call(t, "write", r, d)
      BY <1>2 DEF CallWrite
    <2>2. r.off \in Nat
      BY WritesAssumption DEF Extent
    <2> QED
      BY <2>1, <2>2 DEF Call
  <1>3. ASSUME NEW t \in Threads, pos[t] < end[t],
               pos' = [pos EXCEPT ![t] = @ + Take(t)], UNCHANGED <<kind, end>>
        PROVE  WritesOwnRange'
    <2>1. Take(t) \in Nat /\ pos[t] \in Nat
      BY <1>3, ChunkInBlock, SizeAssumption
    <2> SUFFICES ASSUME NEW u \in Threads, kind'[u] = "write"
                 PROVE  \E r \in Writes[u] : r.off <= pos'[u] /\ end'[u] = r.off + r.len
      OBVIOUS
    <2>2. PICK r \in Writes[u] : r.off <= pos[u] /\ end[u] = r.off + r.len
      BY <1>3
    <2>3. r.off \in Nat
      BY WritesAssumption DEF Extent
    <2>4. pos'[u] \in Nat /\ pos[u] <= pos'[u]
      BY <1>3, <2>1, SizeAssumption
    <2> QED
      BY <1>3, <2>2, <2>3, <2>4, SizeAssumption
  <1>4. ASSUME NEW t \in Threads, Step(t) PROVE WritesOwnRange'
    <2>1. CASE ReadBlock(t)
      BY <2>1, <1>3 DEF ReadBlock
    <2>2. CASE WriteFullBlock(t)
      BY <2>2, <1>3 DEF WriteFullBlock
    <2>3. CASE RmwRead(t)
      BY <2>3 DEF RmwRead
    <2>4. CASE RmwWrite(t)
      BY <2>4, <1>3 DEF RmwWrite
    <2>5. CASE Finish(t)
      BY <2>5 DEF Finish
    <2>6. CASE MasterError(t)
      BY <2>6 DEF MasterError
    <2> QED
      BY <1>4, <2>1, <2>2, <2>3, <2>4, <2>5, <2>6 DEF Step
  <1>5. CASE Reset
    BY <1>5 DEF Reset
  <1>6. CASE UNCHANGED vars
    BY <1>6 DEF vars
  <1> QED
    BY <1>1, <1>2, <1>4, <1>5, <1>6 DEF Next

\* The block a writer stands in is one it writes.
LEMMA OwnBlock ==
    ASSUME TypeOK, WritesOwnRange, NEW t \in Threads, kind[t] = "write", pos[t] < end[t]
    PROVE  BlockOf(pos[t]) \in WriteBlocks(t)
  <1>1. PICK r \in Writes[t] : r.off <= pos[t] /\ end[t] = r.off + r.len
    BY DEF WritesOwnRange
  <1>2. pos[t] \in Cells
    BY ChunkInBlock DEF TypeOK
  <1> QED
    BY <1>1, <1>2 DEF WriteBlocks

\* A step that stores a block leaves every other writer's copy current.
LEMMA StoreKeepsFresh ==
    ASSUME RmwInv, DisjointWriters, NEW t \in Threads,
           kind[t] = "write", pos[t] < end[t], NEW v,
           overlay' = [overlay EXCEPT ![BlockOf(pos[t])] = v],
           NEW u \in Threads, u # t, rmw[u] # None, pos'[u] = pos[u]
    PROVE  rmw[u] = BlockData(BlockOf(pos[u]))'
  <1> USE DEF RmwInv
  <1>1. kind[u] = "write" /\ pos[u] < end[u]
    BY DEF TypeOK
  <1>2. BlockOf(pos[t]) # BlockOf(pos[u])
    BY <1>1, OwnBlock DEF DisjointWriters
  <1>3. BlockOf(pos[u]) \in Blocks
    BY <1>1, ChunkInBlock, CellInBlock DEF TypeOK
  <1>4. overlay'[BlockOf(pos[u])] = overlay[BlockOf(pos[u])]
    BY <1>2, <1>3 DEF TypeOK
  <1>5. rmw[u] = BlockData(BlockOf(pos[u]))
    BY DEF RmwFresh
  <1> QED
    BY <1>4, <1>5 DEF BlockData

LEMMA RmwFreshNext ==
    ASSUME RmwInv, DisjointWriters, [Next]_vars
    PROVE  RmwFresh'
  <1> USE DEF RmwInv
  <1> SUFFICES ASSUME NEW u \in Threads, rmw'[u] # None
               PROVE  rmw'[u] = BlockData(BlockOf(pos[u]))'
    BY DEF RmwFresh
  <1>1. ASSUME overlay' = overlay, rmw'[u] = rmw[u], pos'[u] = pos[u]
        PROVE  rmw'[u] = BlockData(BlockOf(pos[u]))'
    BY <1>1 DEF RmwFresh, BlockData
  <1>2. ASSUME NEW t \in Threads, CallRead(t) \/ CallWrite(t)
        PROVE  rmw'[u] = BlockData(BlockOf(pos[u]))'
    <2>1. kind[t] = "idle" /\ overlay' = overlay /\ rmw' = rmw
      BY <1>2 DEF CallRead, CallWrite, Call
    <2>2. u # t
      BY <2>1 DEF TypeOK
    <2>3. pos'[u] = pos[u]
      BY <1>2, <2>2 DEF CallRead, CallWrite, Call, TypeOK
    <2> QED
      BY <1>1, <2>1, <2>3
  <1>3. ASSUME NEW t \in Threads, Step(t)
        PROVE  rmw'[u] = BlockData(BlockOf(pos[u]))'
    <2>1. CASE ReadBlock(t)
      <3>1. u # t
        BY <2>1 DEF ReadBlock, TypeOK
      <3> QED
        BY <1>1, <2>1, <3>1 DEF ReadBlock, TypeOK
    <2>2. CASE WriteFullBlock(t)
      <3>1. u # t
        BY <2>2 DEF WriteFullBlock
      <3>2. pos'[u] = pos[u] /\ rmw'[u] = rmw[u]
        BY <2>2, <3>1 DEF WriteFullBlock, TypeOK
      <3> QED
        BY <2>2, <3>1, <3>2, StoreKeepsFresh DEF WriteFullBlock
    <2>3. CASE RmwRead(t)
      <3>1. CASE u = t
        BY <2>3, <3>1 DEF RmwRead, BlockData, TypeOK
      <3>2. CASE u # t
        BY <1>1, <2>3, <3>2 DEF RmwRead, TypeOK
      <3> QED
        BY <3>1, <3>2
    <2>4. CASE RmwWrite(t)
      <3>1. u # t
        BY <2>4 DEF RmwWrite, TypeOK
      <3>2. pos'[u] = pos[u] /\ rmw'[u] = rmw[u]
        BY <2>4, <3>1 DEF RmwWrite, TypeOK
      <3>3. kind[t] = "write" /\ pos[t] < end[t]
        BY <2>4 DEF RmwWrite, TypeOK
      <3> QED
        BY <2>4, <3>1, <3>2, <3>3, StoreKeepsFresh DEF RmwWrite
    <2>5. CASE Finish(t)
      BY <1>1, <2>5 DEF Finish
    <2>6. CASE MasterError(t)
      BY <1>1, <2>6 DEF MasterError
    <2> QED
      BY <1>3, <2>1, <2>2, <2>3, <2>4, <2>5, <2>6 DEF Step
  <1>4. CASE Reset
    BY <1>4 DEF Reset, TypeOK
  <1>5. CASE UNCHANGED vars
    BY <1>1, <1>5 DEF vars
  <1> QED
    BY <1>2, <1>3, <1>4, <1>5 DEF Next

\* When no two threads write the same block, a partial write_at never stores
\* back a stale copy of its block, however its two halves interleave with the
\* calls of other threads.
LEMMA RmwInvariant == ASSUME DisjointWriters PROVE Spec => []RmwInv
  <1>1. Init => RmwInv
    BY TypeInit DEF RmwInv, WritesOwnRange, RmwFresh, Init
  <1>2. RmwInv /\ [Next]_vars => RmwInv'
    BY TypeNext, WritesOwnRangeNext, RmwFreshNext DEF RmwInv
  <1> QED
    BY <1>1, <1>2, PTL DEF Spec

-----------------------------------------------------------------------------
(* The volume implements the flat disk *)

\* A byte of a block, read through the block, is the byte the view shows.
LEMMA BlockDataIsView ==
    ASSUME TypeOK, NEW b \in Blocks, NEW p \in CellsOf(b)
    PROVE  BlockData(b)[p] = View[p]
  BY BlockCells DEF BlockData, View

\* Storing a block that is the caller's bytes on the chunk and the current
\* bytes elsewhere changes the view on the chunk only.
LEMMA StoreChunk ==
    ASSUME TypeOK, NEW t \in Threads, pos[t] < end[t],
           NEW v \in [CellsOf(BlockOf(pos[t])) -> Val],
           \A p \in CellsOf(BlockOf(pos[t])) :
               v[p] = IF p \in Chunk(t) THEN buf[t][p] ELSE View[p],
           overlay' = [overlay EXCEPT ![BlockOf(pos[t])] = v]
    PROVE  View' = Flat!Splice(buf[t], View, Chunk(t))
  <1> DEFINE b == BlockOf(pos[t])
  <1>1. b \in Blocks /\ Chunk(t) \subseteq CellsOf(b)
    BY ChunkInBlock, CellInBlock DEF TypeOK
  <1>2. v # None
    BY <1>1, BlockNotNone
  <1>3. ASSUME NEW p \in Cells
        PROVE  View'[p] = IF p \in Chunk(t) THEN buf[t][p] ELSE View[p]
    <2>1. CASE BlockOf(p) = b
      <3>1. p \in CellsOf(b)
        BY <2>1, CellInBlock
      <3>2. overlay'[BlockOf(p)] = v
        BY <1>1, <2>1 DEF TypeOK
      <3> QED
        BY <1>2, <3>1, <3>2 DEF View
    <2>2. CASE BlockOf(p) # b
      <3>1. p \notin Chunk(t)
        BY <1>1, <2>2, BlockCells
      <3>2. overlay'[BlockOf(p)] = overlay[BlockOf(p)]
        BY <2>2, CellInBlock DEF TypeOK
      <3> QED
        BY <3>1, <3>2 DEF View
    <2> QED
      BY <2>1, <2>2
  <1>4. View' = [p \in Cells |-> View'[p]]
    BY DEF View
  <1> QED
    BY <1>3, <1>4 DEF Flat!Splice, Flat!Cells, Cells

LEMMA FlatInit == Init => Flat!Init
  <1> SUFFICES ASSUME Init PROVE View = Master
    BY DEF Init, Flat!Init
  <1>1. \A p \in Cells : View[p] = Master[p]
    BY CellInBlock DEF Init, View
  <1> QED
    BY <1>1, MasterAssumption DEF View

LEMMA FlatNext == RmwInv /\ [Next]_vars => [Flat!Next]_(Flat!vars)
  <1> SUFFICES ASSUME RmwInv, [Next]_vars PROVE Flat!Next \/ UNCHANGED Flat!vars
    OBVIOUS
  <1> USE DEF RmwInv
  <1>1. ASSUME overlay' = overlay PROVE View' = View
    BY <1>1 DEF View
  <1>2. ASSUME NEW t \in Threads, NEW k \in {"read", "write"}, NEW r \in Extent,
               NEW d, Call(t, k, r, d)
        PROVE  Flat!Begin(t, k, d) \/ Flat!Return(t)
    <2>1. CASE InBounds(r)
      <3>1. r.off \in 0 .. Size /\ r.off + r.len \in 0 .. Size
        BY <2>1, SizeAssumption DEF InBounds, Extent
      <3> QED
        BY <1>1, <1>2, <2>1, <3>1 DEF Call, Flat!Begin
    <2>2. CASE ~InBounds(r)
      <3>1. kind' = [kind EXCEPT ![t] = "idle"]
        BY <1>2, <2>2 DEF Call, TypeOK
      <3> QED
        BY <1>1, <1>2, <2>2, <3>1 DEF Call, Flat!Return
    <2> QED
      BY <2>1, <2>2
  <1>3. ASSUME NEW t \in Threads, CallRead(t) PROVE Flat!Next
    BY <1>2, <1>3, ReadsAssumption DEF CallRead, Flat!Next
  <1>4. ASSUME NEW t \in Threads, CallWrite(t) PROVE Flat!Next
    <2>1. PICK r \in Writes[t], d \in Payloads : Call(t, "write", r, d)
      BY <1>4 DEF CallWrite
    <2> QED
      BY <1>2, <2>1, WritesAssumption DEF Flat!Next
  <1>5. ASSUME NEW t \in Threads, ReadBlock(t) PROVE Flat!ReadChunk(t)
    <2> DEFINE b == BlockOf(pos[t])
    <2>1. /\ b \in Blocks
          /\ Take(t) \in 1 .. end[t] - pos[t]
          /\ Chunk(t) \subseteq CellsOf(b)
      BY <1>5, ChunkInBlock, CellInBlock DEF ReadBlock, TypeOK
    <2>2. \A p \in Chunk(t) : BlockData(b)[p] = View[p]
      BY <2>1, BlockDataIsView
    <2>3. Overwrite(BlockData(b), buf[t], Chunk(t), Cells) = Flat!Splice(View, buf[t], Chunk(t))
      BY <2>2 DEF Overwrite, Flat!Splice, Flat!Cells, Cells
    <2>4. buf' = [buf EXCEPT ![t] = Flat!Splice(View, buf[t], pos[t] .. pos[t] + Take(t) - 1)]
      BY <1>5, <2>3 DEF ReadBlock, Chunk
    <2> QED
      BY <1>1, <1>5, <2>1, <2>4 DEF ReadBlock, Flat!ReadChunk
  <1>6. ASSUME NEW t \in Threads, WriteFullBlock(t) PROVE Flat!WriteChunk(t)
    <2> DEFINE b == BlockOf(pos[t])
               v == [p \in CellsOf(b) |-> buf[t][p]]
    <2>1. /\ b \in Blocks
          /\ Take(t) \in 1 .. end[t] - pos[t]
          /\ Chunk(t) = CellsOf(b)
      BY <1>6, ChunkInBlock, CellInBlock DEF WriteFullBlock, TypeOK
    <2>2. v \in [CellsOf(b) -> Val]
      BY <2>1, BlockCells DEF TypeOK
    <2>3. \A p \in CellsOf(b) : v[p] = IF p \in Chunk(t) THEN buf[t][p] ELSE View[p]
      BY <2>1
    <2>4. View' = Flat!Splice(buf[t], View, Chunk(t))
      BY <1>6, <2>2, <2>3, StoreChunk DEF WriteFullBlock
    <2> QED
      BY <1>6, <2>1, <2>4 DEF WriteFullBlock, Flat!WriteChunk, Chunk
  <1>7. ASSUME NEW t \in Threads, RmwWrite(t) PROVE Flat!WriteChunk(t)
    <2> DEFINE b == BlockOf(pos[t])
               v == Overwrite(buf[t], rmw[t], Chunk(t), CellsOf(b))
    <2>1. /\ kind[t] = "write" /\ pos[t] < end[t]
          /\ rmw[t] \in [CellsOf(b) -> Val]
          /\ rmw[t] = BlockData(b)
      BY <1>7 DEF RmwWrite, TypeOK, RmwFresh
    <2>2. /\ b \in Blocks
          /\ Take(t) \in 1 .. end[t] - pos[t]
          /\ Chunk(t) \subseteq CellsOf(b)
      BY <2>1, ChunkInBlock, CellInBlock DEF TypeOK
    <2>3. v \in [CellsOf(b) -> Val]
      BY <2>1, <2>2, BlockCells DEF Overwrite, TypeOK
    <2>4. \A p \in CellsOf(b) : v[p] = IF p \in Chunk(t) THEN buf[t][p] ELSE View[p]
      BY <2>1, <2>2, BlockDataIsView DEF Overwrite
    <2>5. View' = Flat!Splice(buf[t], View, Chunk(t))
      BY <1>7, <2>1, <2>3, <2>4, StoreChunk DEF RmwWrite
    <2> QED
      BY <1>7, <2>1, <2>2, <2>5 DEF RmwWrite, Flat!WriteChunk, Chunk
  <1>8. ASSUME NEW t \in Threads, RmwRead(t) PROVE UNCHANGED Flat!vars
    BY <1>1, <1>8 DEF RmwRead, Flat!vars
  <1>9. ASSUME NEW t \in Threads, Finish(t) PROVE Flat!Return(t)
    BY <1>1, <1>9 DEF Finish, Flat!Return
  <1>10. ASSUME NEW t \in Threads, MasterError(t) PROVE Flat!Return(t)
    BY <1>1, <1>10 DEF MasterError, Flat!Return
  <1>11. ASSUME Reset PROVE Flat!Reset
    <2>1. \A p \in Cells : View'[p] = Master[p]
      BY <1>11, CellInBlock DEF Reset, View
    <2>2. View' = Master
      BY <2>1, MasterAssumption DEF View
    <2> QED
      BY <1>11, <2>2 DEF Reset, Flat!Reset
  <1>12. ASSUME UNCHANGED vars PROVE UNCHANGED Flat!vars
    BY <1>1, <1>12 DEF vars, Flat!vars
  <1>13. ASSUME NEW t \in Threads, Step(t) PROVE Flat!Next \/ UNCHANGED Flat!vars
    BY <1>13, <1>5, <1>6, <1>7, <1>8, <1>9, <1>10 DEF Step, Flat!Next
  <1> QED
    BY <1>3, <1>4, <1>11, <1>12, <1>13 DEF Next, Flat!Next

\* When no two threads write the same block, the copy-on-write volume is a
\* flat disk: every read returns, byte for byte, what was last written there,
\* or the master's byte if nothing was, whatever calls run at the same time.
THEOREM VolumeIsFlatDisk == ASSUME DisjointWriters PROVE Spec => FlatSpec
  <1>1. Spec => []RmwInv
    BY RmwInvariant
  <1> QED
    BY <1>1, FlatInit, FlatNext, PTL DEF Spec, FlatSpec, Flat!Spec

=============================================================================
