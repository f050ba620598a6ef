-------------------------- MODULE BlockCacheProofs --------------------------
(***************************************************************************)
(* Proofs about BlockCache, for every geometry, budget and set of readers: *)
(* exact byte accounting, the budget, the survival of the inserted block,  *)
(* and transparency.                                                       *)
(***************************************************************************)
EXTENDS BlockCache, FiniteSetTheorems, TLAPS

-----------------------------------------------------------------------------
(* The blocks of a disk, for every block size and disk size.               *)

\* Quotient and remainder by the block size.
LEMMA DivMod ==
    ASSUME NEW p \in Nat
    PROVE  /\ p \div Block \in Nat
           /\ p % Block \in Nat
           /\ p % Block < Block
           /\ p = ((p \div Block) * Block) + (p % Block)
  BY BlockAssumption, SMT

\* A byte of the disk lies in the block its address divides into.
LEMMA CellInBlock ==
    ASSUME NEW p \in Cells
    PROVE  /\ BlockOf(p) \in Blocks
           /\ BlockOf(p) \in Nat
           /\ p \in CellsOf(BlockOf(p))
           /\ BlockLen(BlockOf(p)) \in Nat
  <1>1. p \in Nat /\ p < Size
    BY SizeAssumption DEF Cells
  <1>2. /\ BlockOf(p) \in Nat
        /\ BlockOf(p) * Block <= p
        /\ p < BlockOf(p) * Block + Block
        /\ BlockOf(p) * Block \in Nat
    BY <1>1, DivMod, BlockAssumption DEF BlockOf
  <1> HIDE DEF BlockOf
  <1>3. p \in CellsOf(BlockOf(p)) /\ BlockLen(BlockOf(p)) \in Nat
    BY <1>1, <1>2, SizeAssumption, BlockAssumption DEF CellsOf, BlockLen
  <1> QED
    BY <1>2, <1>3 DEF Blocks

\* The bytes of a block are bytes of the disk, and of no other block.
LEMMA BlockCells ==
    ASSUME NEW b \in Blocks, NEW p \in CellsOf(b)
    PROVE  p \in Cells /\ BlockOf(p) = b
  <1>1. PICK q \in Cells : b = BlockOf(q)
    BY DEF Blocks
  <1>2. q \in Nat /\ q < Size
    BY SizeAssumption DEF Cells
  <1>3. b \in Nat /\ b * Block \in Nat /\ b * Block <= q
    BY <1>1, <1>2, DivMod, BlockAssumption DEF BlockOf
  <1>4. p \in Nat /\ b * Block <= p /\ p < b * Block + Block /\ p < Size
    BY <1>2, <1>3, SizeAssumption, BlockAssumption DEF CellsOf, BlockLen
  <1>5. p \div Block = b
    BY <1>3, <1>4, BlockAssumption, SMT
  <1> QED
    BY <1>4, <1>5, SizeAssumption DEF Cells, BlockOf

\* A block has block_len bytes, and at least one.
LEMMA BlockSize ==
    ASSUME NEW b \in Blocks
    PROVE  /\ BlockLen(b) \in Nat \ {0}
           /\ IsFiniteSet(CellsOf(b))
           /\ Cardinality(CellsOf(b)) = BlockLen(b)
  <1>1. PICK q \in Cells : b = BlockOf(q)
    BY DEF Blocks
  <1>2. q \in Nat /\ q < Size
    BY SizeAssumption DEF Cells
  <1>3. b \in Nat /\ b * Block \in Nat /\ b * Block <= q
    BY <1>1, <1>2, DivMod, BlockAssumption DEF BlockOf
  <1>4. BlockLen(b) \in Nat \ {0}
    BY <1>2, <1>3, SizeAssumption, BlockAssumption DEF BlockLen
  <1>5. /\ b * Block \in Int
        /\ b * Block + BlockLen(b) - 1 \in Int
        /\ b * Block <= b * Block + BlockLen(b) - 1
        /\ (b * Block + BlockLen(b) - 1) - b * Block + 1 = BlockLen(b)
    BY <1>3, <1>4
  <1> QED
    BY <1>4, <1>5, FS_Interval DEF CellsOf

\* An iteration at address p of a request that ends before e makes progress,
\* stays in the request and in p's block, and covers the block exactly when
\* it takes the block's length.
LEMMA TakeInBlock ==
    ASSUME NEW p \in 0 .. Size, NEW e \in 0 .. Size, p < e
    PROVE  /\ p \in Cells
           /\ TakeAt(p, e) \in 1 .. e - p
           /\ p .. p + TakeAt(p, e) - 1 \subseteq CellsOf(BlockOf(p))
           /\ TakeAt(p, e) = BlockLen(BlockOf(p)) =>
                 p .. p + TakeAt(p, e) - 1 = CellsOf(BlockOf(p))
  <1> DEFINE b == BlockOf(p)  w == p % Block  n == TakeAt(p, e)
  <1>1. p \in Nat /\ e \in Nat /\ p < Size /\ p < e
    BY SizeAssumption
  <1>2. p \in Cells
    BY <1>1, SizeAssumption DEF Cells
  <1>3. /\ b \in Nat /\ w \in Nat /\ b * Block \in Nat
        /\ w < Block
        /\ p = b * Block + w
    BY <1>1, DivMod, BlockAssumption DEF BlockOf
  <1>4. /\ BlockLen(b) \in Nat
        /\ w < BlockLen(b)
    BY <1>1, <1>3, SizeAssumption, BlockAssumption DEF BlockLen
  <1>5. n = IF BlockLen(b) - w <= e - p THEN BlockLen(b) - w ELSE e - p
    BY DEF TakeAt
  <1> HIDE DEF b, w, n
  <1>6. /\ n \in 1 .. e - p
        /\ n <= BlockLen(b) - w
    BY <1>1, <1>3, <1>4, <1>5
  <1>7. CellsOf(b) = b * Block .. b * Block + BlockLen(b) - 1
    BY DEF CellsOf
  <1>8. p .. p + n - 1 \subseteq CellsOf(b)
    <2>1. PICK start \in Nat : start = b * Block
      BY <1>3
    <2>2. PICK len \in Nat : len = BlockLen(b)
      BY <1>4
    <2>3. p = start + w /\ n <= len - w /\ n \in Nat
      BY <1>1, <1>3, <1>6, <2>1, <2>2
    <2>4. p .. p + n - 1 \subseteq start .. start + len - 1
      BY <1>1, <1>3, <2>3
    <2> QED
      BY <1>7, <2>1, <2>2, <2>4
  <1>9. ASSUME n = BlockLen(b) PROVE p .. p + n - 1 = CellsOf(b)
    <2>1. w = 0
      BY <1>9, <1>3, <1>4, <1>6
    <2> QED
      BY <1>3, <1>7, <1>9, <2>1
  <1> QED
    BY <1>2, <1>6, <1>8, <1>9 DEF b, n

-----------------------------------------------------------------------------

\* The bytes of block b in the store.
MasterBlock(b) == [p \in CellsOf(b) |-> Master[p]]

\* What is cached, or about to be, is what the store holds.
Contents ==
    /\ \A b \in Blocks : data[b] \in {None, MasterBlock(b)}
    /\ \A t \in Threads : full[t] \in {None, MasterBlock(BlockOf(pos[t]))}

\* The block being inserted is cached, and no cached block is more recent.
Newest ==
    \A t \in Threads : holder = t =>
        /\ BlockOf(pos[t]) \in Cached
        /\ \A c \in Blocks : <<BlockOf(pos[t]), c>> \notin older

\* A block on its way into the cache fits the budget.
Fits ==
    \A t \in Threads :
        stage[t] \in {"insert", "evict"} => BlockLen(BlockOf(pos[t])) <= Budget

\* The inductive invariant.
CacheInv == TypeOK /\ BytesExact /\ BudgetHeld /\ Contents /\ Newest /\ Fits

-----------------------------------------------------------------------------
(* Facts about single steps *)

LEMMA ChunkInBlock ==
    ASSUME NEW t, pos[t] \in 0 .. Size, end[t] \in 0 .. Size, pos[t] < end[t]
    PROVE  /\ pos[t] \in Cells
           /\ Take(t) \in 1 .. end[t] - pos[t]
           /\ pos[t] + Take(t) \in 0 .. Size
           /\ Chunk(t) \subseteq CellsOf(BlockOf(pos[t]))
           /\ BlockOf(pos[t]) \in Blocks
  <1>1. /\ pos[t] \in Cells
        /\ Take(t) \in 1 .. end[t] - pos[t]
        /\ Chunk(t) \subseteq CellsOf(BlockOf(pos[t]))
    BY TakeInBlock DEF Take, Chunk
  <1> QED
    BY <1>1, CellInBlock, SizeAssumption

LEMMA MasterBlockType ==
    ASSUME NEW b \in Blocks
    PROVE  MasterBlock(b) \in [CellsOf(b) -> Val] /\ MasterBlock(b) # None
  <1>1. CellsOf(b) \subseteq Cells
    BY BlockCells
  <1>2. MasterBlock(b) \in [CellsOf(b) -> Val]
    BY <1>1, MasterAssumption DEF MasterBlock
  <1> QED
    BY <1>1, <1>2, NoneAssumption

LEMMA CellsFinite == IsFiniteSet(Cells)
  BY FS_Interval, SizeAssumption DEF Cells

LEMMA CachedCellsFinite == IsFiniteSet(CachedCells) /\ Cardinality(CachedCells) \in Nat
  BY CellsFinite, FS_Subset, FS_CardinalityType DEF CachedCells

\* The cached bytes include those of every cached block.
LEMMA CachedBlockCells ==
    ASSUME NEW b \in Cached
    PROVE  CachedCells \cap CellsOf(b) = CellsOf(b)
  BY BlockCells DEF CachedCells, Cached

\* Inserting a block keeps the count exact, whether or not it was cached.
LEMMA PutExact ==
    ASSUME BytesExact, DOMAIN data = Blocks, NEW b \in Blocks, NEW v, v # None,
           data' = [data EXCEPT ![b] = v],
           current' = current - Replaced(b) + BlockLen(b)
    PROVE  BytesExact' /\ current' \in Nat
  <1>1. Cached' = Cached \cup {b}
    BY DEF Cached
  <1>2. CachedCells' = CachedCells \cup CellsOf(b)
    BY <1>1, BlockCells, CellInBlock DEF CachedCells
  <1>3. IsFiniteSet(CellsOf(b)) /\ Cardinality(CellsOf(b)) = BlockLen(b) /\ BlockLen(b) \in Nat
    BY BlockSize
  <1>4. Cardinality(CachedCells') =
           Cardinality(CachedCells) + BlockLen(b) - Cardinality(CachedCells \cap CellsOf(b))
    BY <1>2, <1>3, CachedCellsFinite, FS_Union
  <1>5. Cardinality(CachedCells \cap CellsOf(b)) = Replaced(b)
    <2>1. CASE data[b] = None
      <3>1. CachedCells \cap CellsOf(b) = {}
        BY <2>1, BlockCells DEF CachedCells, Cached
      <3> QED
        BY <2>1, <3>1, FS_EmptySet DEF Replaced
    <2>2. CASE data[b] # None
      <3>1. CachedCells \cap CellsOf(b) = CellsOf(b)
        BY <2>2, CachedBlockCells DEF Cached
      <3> QED
        BY <2>2, <3>1, <1>3 DEF Replaced
    <2> QED
      BY <2>1, <2>2
  <1>6. Replaced(b) \in 0 .. BlockLen(b)
    BY <1>3 DEF Replaced
  <1>7. Cardinality(CachedCells) \in Nat /\ current = Cardinality(CachedCells)
    BY CachedCellsFinite DEF BytesExact
  <1> QED
    BY <1>3, <1>4, <1>5, <1>6, <1>7 DEF BytesExact

\* Evicting a cached block keeps the count exact.
LEMMA EvictExact ==
    ASSUME BytesExact, DOMAIN data = Blocks, NEW v \in Cached,
           data' = [data EXCEPT ![v] = None],
           current' = current - BlockLen(v)
    PROVE  BytesExact' /\ current' \in Nat
  <1>1. v \in Blocks
    BY DEF Cached
  <1>2. Cached' = Cached \ {v}
    BY DEF Cached
  <1>3. CachedCells' = CachedCells \ CellsOf(v)
    BY <1>1, <1>2, BlockCells, CellInBlock DEF CachedCells
  <1>4. Cardinality(CachedCells') = Cardinality(CachedCells) - BlockLen(v)
    <2>1. Cardinality(CachedCells \ CellsOf(v)) =
             Cardinality(CachedCells) - Cardinality(CachedCells \cap CellsOf(v))
      BY CachedCellsFinite, FS_Difference
    <2>2. CachedCells \cap CellsOf(v) = CellsOf(v)
      BY CachedBlockCells
    <2>3. Cardinality(CellsOf(v)) = BlockLen(v)
      BY <1>1, BlockSize
    <2> QED
      BY <1>3, <2>1, <2>2, <2>3
  <1>5. IsFiniteSet(CachedCells') /\ Cardinality(CachedCells') \in Nat
    BY <1>3, CachedCellsFinite, FS_Difference, FS_CardinalityType
  <1> QED
    BY <1>4, <1>5 DEF BytesExact

\* A cache over its budget holds more than the block just inserted, so that
\* the least recently used block is another one.
LEMMA VictimIsOther ==
    ASSUME CacheInv, NEW t \in Threads, holder = t, OverBudget, NEW v \in Cached, IsLru(v)
    PROVE  v # BlockOf(pos[t])
  <1> DEFINE b == BlockOf(pos[t])
  <1>1. SUFFICES ASSUME v = b PROVE FALSE
    OBVIOUS
  <1>2. stage[t] = "evict"
    BY DEF CacheInv, TypeOK, ThreadOK
  <1>3. BlockLen(b) <= Budget
    BY <1>2 DEF CacheInv, Fits
  <1>4. \A c \in Cached : c = b
    BY <1>1 DEF IsLru, CacheInv, Newest, Cached
  <1>5. CachedCells \cap CellsOf(b) = CellsOf(b)
    BY <1>1, CachedBlockCells
  <1>6. CachedCells = CellsOf(b)
    BY <1>4, <1>5, CellInBlock DEF CachedCells
  <1>7. current = BlockLen(b)
    BY <1>1, <1>6, BlockSize DEF CacheInv, BytesExact, Cached
  <1>8. BlockLen(b) \in Nat
    BY <1>1, BlockSize DEF Cached
  <1> QED
    BY <1>3, <1>7, <1>8, BudgetAssumption DEF OverBudget

-----------------------------------------------------------------------------
(* The inductive invariant *)

LEMMA CacheInit == Init => CacheInv
  <1> SUFFICES ASSUME Init PROVE CacheInv
    OBVIOUS
  <1>1. CachedCells = {}
    BY CellInBlock DEF Init, CachedCells, Cached
  <1>2. BytesExact
    BY <1>1, FS_EmptySet DEF Init, BytesExact
  <1>3. TypeOK
    BY SizeAssumption, ZerosAssumption, NoneAssumption DEF Init, TypeOK, ThreadOK
  <1> QED
    BY <1>2, <1>3, BudgetAssumption, NoneAssumption
    DEF Init, CacheInv, BudgetHeld, Contents, Newest, Fits

\* A step that leaves the cache alone and moves one thread.
LEMMA ReaderStep ==
    ASSUME CacheInv, NEW t \in Threads,
           UNCHANGED <<data, older, current, holder>>,
           holder # t,
           NEW k \in {"idle", "read"}, kind' = [kind EXCEPT ![t] = k],
           NEW s \in {"lookup", "fetch", "insert"}, stage' = [stage EXCEPT ![t] = s],
           NEW p \in 0 .. Size, pos' = [pos EXCEPT ![t] = p],
           NEW e \in 0 .. Size, end' = [end EXCEPT ![t] = e],
           NEW d \in [Cells -> Val], buf' = [buf EXCEPT ![t] = d],
           NEW f, full' = [full EXCEPT ![t] = f],
           NEW r \in {"none", "ok", "err"}, res' = [res EXCEPT ![t] = r],
           s # "lookup" => k = "read" /\ p < e,
           s = "insert" => f = MasterBlock(BlockOf(p)) /\ BlockLen(BlockOf(p)) <= Budget,
           s # "insert" => f = None
    PROVE  CacheInv'
  <1> USE DEF CacheInv
  <1>1. ASSUME s = "insert" PROVE f \in [CellsOf(BlockOf(p)) -> Val]
    <2>1. p \in Cells
      BY <1>1, SizeAssumption DEF Cells
    <2> QED
      BY <1>1, <2>1, CellInBlock, MasterBlockType
  <1>2. ASSUME NEW u \in Threads, u # t
        PROVE  /\ kind'[u] = kind[u] /\ stage'[u] = stage[u] /\ pos'[u] = pos[u]
               /\ end'[u] = end[u] /\ full'[u] = full[u]
    BY <1>2 DEF TypeOK
  <1>3. /\ kind'[t] = k /\ stage'[t] = s /\ pos'[t] = p /\ end'[t] = e /\ full'[t] = f
    BY DEF TypeOK
  <1>4. ASSUME NEW u \in Threads PROVE ThreadOK(u)'
    <2>1. CASE u = t
      BY <1>1, <1>3, <2>1 DEF ThreadOK
    <2>2. CASE u # t
      <3>1. ThreadOK(u)
        BY DEF TypeOK
      <3> QED
        BY <1>2, <2>2, <3>1 DEF ThreadOK
    <2> QED
      BY <2>1, <2>2
  <1>5. TypeOK'
    <2>1. /\ kind' \in [Threads -> {"idle", "read"}]
          /\ stage' \in [Threads -> {"lookup", "fetch", "insert", "evict"}]
          /\ pos' \in [Threads -> 0 .. Size]
          /\ end' \in [Threads -> 0 .. Size]
          /\ buf' \in [Threads -> [Cells -> Val]]
          /\ full' = [u \in Threads |-> full'[u]]
          /\ res' \in [Threads -> {"none", "ok", "err"}]
      BY DEF TypeOK
    <2> QED
      BY <1>4, <2>1 DEF TypeOK
  <1>6. Cached' = Cached
    BY DEF Cached
  <1>7. BytesExact' /\ BudgetHeld'
    BY <1>6 DEF BytesExact, BudgetHeld, CachedCells
  <1>8. Contents'
    BY <1>2, <1>3 DEF Contents
  <1>9. Newest'
    BY <1>2, <1>6 DEF Newest
  <1>10. Fits'
    BY <1>2, <1>3 DEF Fits
  <1> QED
    BY <1>5, <1>7, <1>8, <1>9, <1>10

LEMMA TouchType ==
    ASSUME TypeOK, NEW b \in Blocks
    PROVE  Touch(b) \subseteq Blocks \X Blocks /\ \A c \in Blocks : <<b, c>> \notin Touch(b)
  <1>1. ASSUME NEW e \in Touch(b) PROVE e \in Blocks \X Blocks
    BY <1>1 DEF Touch, TypeOK, Cached
  <1>2. ASSUME NEW c \in Blocks, <<b, c>> \in Touch(b) PROVE FALSE
    BY <1>2 DEF Touch
  <1> QED
    BY <1>1, <1>2

LEMMA HitInv == ASSUME CacheInv, NEW t \in Threads, Hit(t) PROVE CacheInv'
  <1> USE DEF CacheInv
  <1> DEFINE b == BlockOf(pos[t])
  <1>1. /\ kind[t] = "read" /\ stage[t] = "lookup" /\ pos[t] < end[t]
        /\ holder = None /\ data[b] # None
    BY DEF Hit, AtLookup
  <1>2. /\ b \in Blocks /\ pos[t] + Take(t) \in 0 .. Size
        /\ Chunk(t) \subseteq CellsOf(b)
    BY <1>1, ChunkInBlock DEF TypeOK
  <1>3. Overwrite(data[b], buf[t], Chunk(t), Cells) \in [Cells -> Val]
    BY <1>1, <1>2 DEF Overwrite, TypeOK
  <1>4. Touch(b) \subseteq Blocks \X Blocks
    BY <1>2, TouchType
  <1>5. /\ buf' \in [Threads -> [Cells -> Val]]
        /\ pos' \in [Threads -> 0 .. Size]
        /\ older' \subseteq Blocks \X Blocks
        /\ UNCHANGED <<data, current, holder, kind, stage, end, full, res>>
        /\ pos' = [pos EXCEPT ![t] = @ + Take(t)]
    BY <1>2, <1>3, <1>4 DEF Hit, TypeOK
  <1>6. full[t] = None
    BY <1>1 DEF TypeOK, ThreadOK
  <1>7. ASSUME NEW u \in Threads PROVE ThreadOK(u)'
    BY <1>1, <1>5 DEF TypeOK, ThreadOK
  <1>8. TypeOK'
    BY <1>5, <1>7 DEF TypeOK
  <1>9. BytesExact' /\ BudgetHeld'
    BY <1>5 DEF BytesExact, BudgetHeld, CachedCells, Cached
  <1>10. Contents'
    BY <1>5, <1>6 DEF Contents, TypeOK
  <1>11. Newest'
    BY <1>1, <1>5, NoneAssumption DEF Newest
  <1>12. Fits'
    BY <1>1, <1>5 DEF Fits, TypeOK
  <1> QED
    BY <1>8, <1>9, <1>10, <1>11, <1>12

LEMMA PutInv == ASSUME CacheInv, NEW t \in Threads, Put(t) PROVE CacheInv'
  <1> USE DEF CacheInv
  <1> DEFINE b == BlockOf(pos[t])
  <1>1. /\ stage[t] = "insert" /\ holder = None /\ pos[t] < end[t]
        /\ full[t] \in [CellsOf(b) -> Val]
    BY DEF Put, TypeOK, ThreadOK
  <1>2. b \in Blocks
    BY <1>1, ChunkInBlock DEF TypeOK
  <1>3. full[t] # None /\ full[t] = MasterBlock(b)
    <2>1. CellsOf(b) \subseteq Cells
      BY <1>2, BlockCells
    <2> QED
      BY <1>1, <2>1, NoneAssumption DEF Contents
  <1>4. /\ holder' = t
        /\ data' = [data EXCEPT ![b] = full[t]]
        /\ older' = Touch(b)
        /\ current' = current - Replaced(b) + BlockLen(b)
        /\ stage' = [stage EXCEPT ![t] = "evict"]
        /\ UNCHANGED <<kind, pos, end, buf, full, res>>
    BY DEF Put
  <1>5. BytesExact' /\ current' \in Nat
    BY <1>2, <1>3, <1>4, PutExact DEF TypeOK
  <1>6. ASSUME NEW u \in Threads PROVE ThreadOK(u)'
    BY <1>1, <1>4, NoneAssumption DEF TypeOK, ThreadOK
  <1>7. TypeOK'
    <2>1. \A c \in Blocks : data'[c] \in {None} \cup [CellsOf(c) -> Val]
      BY <1>1, <1>2, <1>4 DEF TypeOK
    <2>2. older' \subseteq Blocks \X Blocks
      BY <1>2, <1>4, TouchType
    <2> QED
      BY <1>4, <1>5, <1>6, <2>1, <2>2 DEF TypeOK
  <1>8. BudgetHeld'
    BY <1>4, NoneAssumption DEF BudgetHeld
  <1>9. Contents'
    BY <1>2, <1>3, <1>4 DEF Contents, TypeOK
  <1>10. Newest'
    <2>1. b \in Cached'
      BY <1>2, <1>3, <1>4 DEF Cached, TypeOK
    <2>2. \A c \in Blocks : <<b, c>> \notin older'
      BY <1>2, <1>4, TouchType
    <2> QED
      BY <1>4, <2>1, <2>2 DEF Newest
  <1>11. Fits'
    BY <1>1, <1>4 DEF Fits, TypeOK
  <1> QED
    BY <1>5, <1>7, <1>8, <1>9, <1>10, <1>11

LEMMA EvictInv == ASSUME CacheInv, NEW t \in Threads, Evict(t) PROVE CacheInv'
  <1> USE DEF CacheInv
  <1>1. PICK v \in Cached :
           /\ IsLru(v)
           /\ data' = [data EXCEPT ![v] = None]
           /\ older' = {e \in older : e[1] # v /\ e[2] # v}
           /\ current' = current - BlockLen(v)
    BY DEF Evict
  <1>2. holder = t /\ OverBudget /\ UNCHANGED <<holder, kind, stage, pos, end, buf, full, res>>
    BY DEF Evict
  <1>3. v \in Blocks
    BY DEF Cached
  <1>4. v # BlockOf(pos[t])
    BY <1>1, <1>2, VictimIsOther
  <1>5. BytesExact' /\ current' \in Nat
    BY <1>1, EvictExact DEF TypeOK
  <1>6. ASSUME NEW u \in Threads PROVE ThreadOK(u)'
    BY <1>2 DEF TypeOK, ThreadOK
  <1>7. TypeOK'
    <2>1. \A c \in Blocks : data'[c] \in {None} \cup [CellsOf(c) -> Val]
      BY <1>1 DEF TypeOK
    <2> QED
      BY <1>1, <1>2, <1>5, <1>6, <2>1 DEF TypeOK
  <1>8. BudgetHeld'
    BY <1>2, NoneAssumption DEF BudgetHeld
  <1>9. Contents'
    BY <1>1, <1>2 DEF Contents, TypeOK
  <1>10. Newest'
    <2>1. BlockOf(pos[t]) \in Cached'
      BY <1>1, <1>2, <1>4 DEF Newest, Cached, TypeOK
    <2>2. \A c \in Blocks : <<BlockOf(pos[t]), c>> \notin older'
      BY <1>1, <1>2 DEF Newest
    <2> QED
      BY <1>2, <2>1, <2>2 DEF Newest
  <1>11. Fits'
    BY <1>2 DEF Fits
  <1> QED
    BY <1>5, <1>7, <1>8, <1>9, <1>10, <1>11

LEMMA UnlockInv == ASSUME CacheInv, NEW t \in Threads, Unlock(t) PROVE CacheInv'
  <1> USE DEF CacheInv
  <1>1. stage[t] = "evict" /\ kind[t] = "read" /\ pos[t] < end[t] /\ holder = t
    BY DEF Unlock, TypeOK, ThreadOK
  <1>2. pos[t] + Take(t) \in 0 .. Size
    BY <1>1, ChunkInBlock DEF TypeOK
  <1>3. /\ holder' = None
        /\ full' = [full EXCEPT ![t] = None]
        /\ stage' = [stage EXCEPT ![t] = "lookup"]
        /\ pos' = [pos EXCEPT ![t] = @ + Take(t)]
        /\ UNCHANGED <<data, older, current, kind, end, buf, res>>
    BY DEF Unlock
  <1>4. current <= Budget
    <2>1. CASE Cached = {}
      <3>1. CachedCells = {}
        BY <2>1 DEF CachedCells
      <3> QED
        BY <3>1, FS_EmptySet, BudgetAssumption DEF BytesExact
    <2>2. CASE Cached # {}
      BY <2>2, BudgetAssumption DEF Unlock, OverBudget, TypeOK
    <2> QED
      BY <2>1, <2>2
  <1>5. ASSUME NEW u \in Threads PROVE ThreadOK(u)'
    <2>1. u # t => stage[u] # "evict"
      BY <1>1 DEF TypeOK, ThreadOK
    <2> QED
      BY <1>1, <1>3, <2>1, NoneAssumption DEF TypeOK, ThreadOK
  <1>6. TypeOK'
    BY <1>2, <1>3, <1>5 DEF TypeOK
  <1>7. BytesExact' /\ BudgetHeld'
    BY <1>3, <1>4 DEF BytesExact, BudgetHeld, CachedCells, Cached
  <1>8. Contents'
    BY <1>3 DEF Contents, TypeOK
  <1>9. Newest'
    BY <1>3, NoneAssumption DEF Newest
  <1>10. Fits'
    BY <1>3 DEF Fits, TypeOK
  <1> QED
    BY <1>6, <1>7, <1>8, <1>9, <1>10

LEMMA FetchInv == ASSUME CacheInv, NEW t \in Threads, Fetch(t) PROVE CacheInv'
  <1> USE DEF CacheInv
  <1> DEFINE b == BlockOf(pos[t])
             d == Overwrite(MasterBlock(b), buf[t], Chunk(t), Cells)
  <1>1. /\ kind[t] = "read" /\ stage[t] = "fetch" /\ pos[t] < end[t]
        /\ holder # t /\ full[t] = None
    BY DEF Fetch, TypeOK, ThreadOK
  <1>2. /\ b \in Blocks /\ pos[t] + Take(t) \in 0 .. Size
        /\ Chunk(t) \subseteq CellsOf(b)
    BY <1>1, ChunkInBlock DEF TypeOK
  <1>3. d \in [Cells -> Val]
    BY <1>2, MasterBlockType DEF Overwrite, TypeOK
  <1>4. /\ buf' = [buf EXCEPT ![t] = d]
        /\ UNCHANGED <<data, older, current, holder>>
        /\ kind' = [kind EXCEPT ![t] = "read"]
        /\ end' = [end EXCEPT ![t] = end[t]]
        /\ res' = [res EXCEPT ![t] = res[t]]
    BY <1>1 DEF Fetch, MasterBlock, TypeOK
  <1>5. pos[t] \in 0 .. Size /\ end[t] \in 0 .. Size /\ res[t] \in {"none", "ok", "err"}
    BY DEF TypeOK
  <1>6. CASE FitsBudget(b)
    <2>1. /\ full' = [full EXCEPT ![t] = MasterBlock(b)]
          /\ stage' = [stage EXCEPT ![t] = "insert"]
          /\ pos' = [pos EXCEPT ![t] = pos[t]]
      BY <1>6 DEF Fetch, MasterBlock, TypeOK
    <2>2. BlockLen(b) <= Budget
      BY <1>6 DEF FitsBudget
    <2> HIDE DEF d, CacheInv
    <2> QED
      BY <1>1, <1>3, <1>4, <1>5, <2>1, <2>2, ReaderStep
  <1>7. CASE ~FitsBudget(b)
    <2>1. /\ full' = [full EXCEPT ![t] = None]
          /\ stage' = [stage EXCEPT ![t] = "lookup"]
          /\ pos' = [pos EXCEPT ![t] = pos[t] + Take(t)]
      BY <1>1, <1>7 DEF Fetch, TypeOK
    <2> HIDE DEF d, CacheInv
    <2> QED
      BY <1>1, <1>2, <1>3, <1>4, <1>5, <2>1, ReaderStep
  <1> QED
    BY <1>6, <1>7

\* The steps that only move a reader along.
LEMMA MoveInv ==
    ASSUME CacheInv, NEW t \in Threads,
           Miss(t) \/ FetchError(t) \/ Finish(t) \/ \E r \in Reads : Call(t, r)
    PROVE  CacheInv'
  <1>1. /\ full[t] = None \/ stage[t] \in {"insert", "evict"}
        /\ stage[t] = "evict" <=> holder = t
        /\ stage[t] # "lookup" => kind[t] = "read" /\ pos[t] < end[t]
        /\ pos[t] \in 0 .. Size /\ end[t] \in 0 .. Size
        /\ buf[t] \in [Cells -> Val] /\ res[t] \in {"none", "ok", "err"}
    BY DEF CacheInv, TypeOK, ThreadOK
  <1>2. /\ pos = [pos EXCEPT ![t] = pos[t]]
        /\ end = [end EXCEPT ![t] = end[t]]
        /\ buf = [buf EXCEPT ![t] = buf[t]]
        /\ full = [full EXCEPT ![t] = full[t]]
        /\ kind = [kind EXCEPT ![t] = kind[t]]
        /\ stage = [stage EXCEPT ![t] = stage[t]]
        /\ res = [res EXCEPT ![t] = res[t]]
    BY DEF CacheInv, TypeOK
  <1>3. CASE Miss(t)
    <2>1. /\ kind[t] = "read" /\ stage[t] = "lookup" /\ pos[t] < end[t]
          /\ stage' = [stage EXCEPT ![t] = "fetch"]
          /\ UNCHANGED <<data, older, current, holder, kind, pos, end, buf, full, res>>
      BY <1>3 DEF Miss, AtLookup
    <2> QED
      BY <1>1, <1>2, <2>1, ReaderStep
  <1>4. CASE FetchError(t)
    <2>1. /\ stage[t] = "fetch"
          /\ kind' = [kind EXCEPT ![t] = "idle"]
          /\ stage' = [stage EXCEPT ![t] = "lookup"]
          /\ res' = [res EXCEPT ![t] = "err"]
          /\ UNCHANGED <<data, older, current, holder, pos, end, buf, full>>
      BY <1>4 DEF FetchError
    <2> QED
      BY <1>1, <1>2, <2>1, ReaderStep
  <1>5. CASE Finish(t)
    <2>1. /\ stage[t] = "lookup"
          /\ kind' = [kind EXCEPT ![t] = "idle"]
          /\ res' = [res EXCEPT ![t] = "ok"]
          /\ UNCHANGED <<data, older, current, holder, stage, pos, end, buf, full>>
      BY <1>5 DEF Finish
    <2> QED
      BY <1>1, <1>2, <2>1, ReaderStep
  <1>6. ASSUME NEW r \in Reads, Call(t, r) PROVE CacheInv'
    <2>1. /\ kind[t] = "idle"
          /\ kind' = [kind EXCEPT ![t] = "read"]
          /\ pos' = [pos EXCEPT ![t] = r.off]
          /\ end' = [end EXCEPT ![t] = r.off + r.len]
          /\ buf' = [buf EXCEPT ![t] = Zeros]
          /\ UNCHANGED <<data, older, current, holder, stage, full, res>>
      BY <1>6 DEF Call
    <2>2. stage[t] = "lookup"
      BY <1>1, <2>1
    <2>3. r.off \in 0 .. Size /\ r.off + r.len \in 0 .. Size
      BY ReadsAssumption, SizeAssumption DEF Extent
    <2>4. /\ holder # t /\ full[t] = None
          /\ stage' = [stage EXCEPT ![t] = "lookup"]
          /\ full' = [full EXCEPT ![t] = None]
          /\ res' = [res EXCEPT ![t] = res[t]]
      BY <1>1, <1>2, <2>1, <2>2
    <2> DEFINE p == r.off
               e == r.off + r.len
    <2>5. p \in 0 .. Size /\ e \in 0 .. Size
          /\ pos' = [pos EXCEPT ![t] = p] /\ end' = [end EXCEPT ![t] = e]
      BY <2>1, <2>3
    <2> HIDE DEF p, e
    <2> QED
      BY <1>1, <2>1, <2>4, <2>5, ZerosAssumption, ReaderStep
  <1> QED
    BY <1>3, <1>4, <1>5, <1>6

LEMMA CacheNext == CacheInv /\ [Next]_vars => CacheInv'
  <1> SUFFICES ASSUME CacheInv, [Next]_vars PROVE CacheInv'
    OBVIOUS
  <1>1. CASE UNCHANGED vars
    BY <1>1 DEF vars, CacheInv, TypeOK, ThreadOK, BytesExact, BudgetHeld, Contents,
                Newest, Fits, CachedCells, Cached
  <1>2. ASSUME NEW t \in Threads, Step(t) \/ \E r \in Reads : Call(t, r) PROVE CacheInv'
    BY <1>2, HitInv, FetchInv, PutInv, EvictInv, UnlockInv, MoveInv DEF Step
  <1> QED
    BY <1>1, <1>2 DEF Next

LEMMA CacheInvariant == Spec => []CacheInv
  BY CacheInit, CacheNext, PTL DEF Spec

\* Every reachable state is well formed; in particular the subtractions of
\* LruState::insert never go below zero.
THEOREM TypeCorrect == Spec => []TypeOK
  BY CacheInvariant, PTL DEF CacheInv

\* current_bytes is the number of bytes held, whatever the readers that missed
\* the same block do.
THEOREM AccountingExact == Spec => []BytesExact
  BY CacheInvariant, PTL DEF CacheInv

\* The budget is respected whenever the mutex is free.
THEOREM BudgetRespected == Spec => []BudgetHeld
  BY CacheInvariant, PTL DEF CacheInv

\* The eviction loop never removes the block it was started for.
THEOREM InsertionSurvives == Spec => []InsertedSurvives
  <1>1. CacheInv => InsertedSurvives
    BY DEF CacheInv, Newest, InsertedSurvives
  <1> QED
    BY <1>1, CacheInvariant, PTL

-----------------------------------------------------------------------------
(* Transparency *)

LEMMA FlatInit == Init => Flat!Init
  <1> SUFFICES ASSUME Init PROVE Filled = [t \in Threads |-> 0]
    BY DEF Init, Flat!Init
  <1> QED
    BY DEF Init, Filled

\* Serving a chunk from a copy of the store's block is a read of the store.
LEMMA ServeChunk ==
    ASSUME NEW b \in Blocks, NEW S \in SUBSET CellsOf(b), NEW f
    PROVE  Overwrite(MasterBlock(b), f, S, Cells) = Flat!Splice(Master, f, S)
  BY DEF Overwrite, MasterBlock, Flat!Splice, Flat!Cells, Cells

LEMMA FlatNext == CacheInv /\ [Next]_vars => [Flat!Next]_(Flat!vars)
  <1> SUFFICES ASSUME CacheInv, [Next]_vars PROVE Flat!Next \/ UNCHANGED Flat!vars
    OBVIOUS
  <1> USE DEF CacheInv
  <1>1. ASSUME NEW t \in Threads, NEW x, Filled[t] = pos[t],
               \A u \in Threads : stage'[u] = IF u = t THEN x ELSE stage[u],
               x \notin {"insert", "evict"},
               NEW n, pos' = [pos EXCEPT ![t] = n], UNCHANGED end
        PROVE  Filled' = [Filled EXCEPT ![t] = n]
    <2>1. ASSUME NEW u \in Threads, u # t PROVE Filled'[u] = Filled[u]
      BY <1>1, <2>1 DEF Filled, Take, TypeOK
    <2>2. Filled'[t] = n
      BY <1>1 DEF Filled, TypeOK
    <2> QED
      BY <2>1, <2>2 DEF Filled
  <1>2. ASSUME UNCHANGED <<pos, end>>,
               \A u \in Threads : (stage'[u] \in {"insert", "evict"}) =
                                  (stage[u] \in {"insert", "evict"})
        PROVE  Filled' = Filled
    BY <1>2 DEF Filled, Take
  <1>3. ASSUME NEW t \in Threads, NEW r \in Reads, Call(t, r) PROVE Flat!Begin(t, "read", Zeros)
    <2>1. /\ kind[t] = "idle" /\ stage[t] = "lookup"
          /\ pos' = [pos EXCEPT ![t] = r.off]
          /\ end' = [end EXCEPT ![t] = r.off + r.len]
          /\ UNCHANGED stage
      BY <1>3 DEF Call, TypeOK, ThreadOK
    <2>2. r.off \in 0 .. Size /\ r.off + r.len \in 0 .. Size
      BY ReadsAssumption, SizeAssumption DEF Extent
    <2>3. ASSUME NEW u \in Threads, u # t PROVE Filled'[u] = Filled[u]
      BY <2>1, <2>3 DEF Filled, Take, TypeOK
    <2>4. Filled'[t] = r.off
      BY <2>1 DEF Filled, TypeOK
    <2>5. Filled' = [Filled EXCEPT ![t] = r.off]
      BY <2>3, <2>4 DEF Filled
    <2> QED
      BY <1>3, <2>1, <2>2, <2>5 DEF Call, Flat!Begin
  <1>4. ASSUME NEW t \in Threads, Hit(t) PROVE Flat!ReadChunk(t)
    <2> DEFINE b == BlockOf(pos[t])
    <2>1. /\ kind[t] = "read" /\ stage[t] = "lookup" /\ pos[t] < end[t] /\ data[b] # None
      BY <1>4 DEF Hit, AtLookup
    <2>2. /\ b \in Blocks /\ Take(t) \in 1 .. end[t] - pos[t]
          /\ Chunk(t) \subseteq CellsOf(b)
      BY <2>1, ChunkInBlock DEF TypeOK
    <2>3. data[b] = MasterBlock(b)
      BY <2>1, <2>2 DEF Contents
    <2>4. buf' = [buf EXCEPT ![t] = Flat!Splice(Master, buf[t], Chunk(t))]
      BY <1>4, <2>2, <2>3, ServeChunk DEF Hit
    <2>5. Filled[t] = pos[t]
      BY <2>1 DEF Filled
    <2>6. Filled' = [Filled EXCEPT ![t] = pos[t] + Take(t)]
      BY <1>1, <1>4, <2>1, <2>5 DEF Hit
    <2> QED
      BY <1>4, <2>1, <2>2, <2>4, <2>5, <2>6 DEF Hit, Flat!ReadChunk, Chunk
  <1>5. ASSUME NEW t \in Threads, Fetch(t) PROVE Flat!ReadChunk(t)
    <2> DEFINE b == BlockOf(pos[t])
    <2>1. /\ kind[t] = "read" /\ stage[t] = "fetch" /\ pos[t] < end[t]
      BY <1>5 DEF Fetch, TypeOK, ThreadOK
    <2>2. /\ b \in Blocks /\ Take(t) \in 1 .. end[t] - pos[t]
          /\ Chunk(t) \subseteq CellsOf(b)
      BY <2>1, ChunkInBlock DEF TypeOK
    <2>3. buf' = [buf EXCEPT ![t] = Flat!Splice(Master, buf[t], Chunk(t))]
      BY <1>5, <2>2, ServeChunk DEF Fetch, MasterBlock
    <2>4. Filled[t] = pos[t]
      BY <2>1 DEF Filled
    <2>5. Filled' = [Filled EXCEPT ![t] = pos[t] + Take(t)]
      <3>1. ASSUME NEW u \in Threads, u # t PROVE Filled'[u] = Filled[u]
        BY <1>5, <3>1 DEF Fetch, Filled, Take, TypeOK
      <3>2. CASE FitsBudget(b)
        <4>1. stage'[t] = "insert" /\ pos' = pos /\ end' = end
          BY <1>5, <3>2 DEF Fetch, TypeOK
        <4>2. Filled'[t] = pos[t] + Take(t)
          BY <4>1 DEF Filled, Take
        <4> QED
          BY <3>1, <4>2 DEF Filled
      <3>3. CASE ~FitsBudget(b)
        <4>1. stage'[t] = "lookup" /\ pos'[t] = pos[t] + Take(t)
          BY <1>5, <3>3 DEF Fetch, TypeOK
        <4>2. Filled'[t] = pos[t] + Take(t)
          BY <4>1 DEF Filled
        <4> QED
          BY <3>1, <4>2 DEF Filled
      <3> QED
        BY <3>2, <3>3
    <2> QED
      BY <1>5, <2>1, <2>2, <2>3, <2>4, <2>5 DEF Fetch, Flat!ReadChunk, Chunk
  <1>6. ASSUME NEW t \in Threads, Miss(t) \/ Put(t) \/ Evict(t) PROVE UNCHANGED Flat!vars
    <2>1. UNCHANGED <<kind, pos, end, buf, res>>
      BY <1>6 DEF Miss, Put, Evict
    <2>2. \A u \in Threads : (stage'[u] \in {"insert", "evict"}) =
                             (stage[u] \in {"insert", "evict"})
      BY <1>6 DEF Miss, AtLookup, Put, Evict, TypeOK
    <2> QED
      BY <1>2, <2>1, <2>2 DEF Flat!vars
  <1>7. ASSUME NEW t \in Threads, Unlock(t) PROVE UNCHANGED Flat!vars
    <2>1. stage[t] = "evict"
      BY <1>7 DEF Unlock, TypeOK, ThreadOK
    <2>2. ASSUME NEW u \in Threads, u # t PROVE Filled'[u] = Filled[u]
      BY <1>7, <2>2 DEF Unlock, Filled, Take, TypeOK
    <2>3. Filled'[t] = Filled[t]
      BY <1>7, <2>1 DEF Unlock, Filled, TypeOK
    <2>4. Filled' = Filled
      BY <2>2, <2>3 DEF Filled
    <2> QED
      BY <1>7, <2>4 DEF Unlock, Flat!vars
  <1>8. ASSUME NEW t \in Threads, FetchError(t) PROVE Flat!Return(t)
    <2>1. stage[t] = "fetch" /\ kind[t] = "read" /\ pos[t] < end[t]
      BY <1>8 DEF FetchError, TypeOK, ThreadOK
    <2>2. Filled[t] = pos[t]
      BY <2>1 DEF Filled
    <2>3. Filled' = Filled
      BY <1>2, <1>8, <2>1 DEF FetchError, TypeOK
    <2> QED
      BY <1>8, <2>1, <2>2, <2>3 DEF FetchError, Flat!Return
  <1>9. ASSUME NEW t \in Threads, Finish(t) PROVE Flat!Return(t)
    <2>1. stage[t] = "lookup" /\ kind[t] = "read" /\ pos[t] >= end[t]
      BY <1>9 DEF Finish
    <2>2. Filled[t] = pos[t]
      BY <2>1 DEF Filled
    <2>3. Filled' = Filled
      BY <1>2, <1>9 DEF Finish
    <2> QED
      BY <1>9, <2>1, <2>2, <2>3 DEF Finish, Flat!Return
  <1>10. ASSUME UNCHANGED vars PROVE UNCHANGED Flat!vars
    BY <1>10 DEF vars, Flat!vars, Filled, Take
  <1> QED
    BY <1>3, <1>4, <1>5, <1>6, <1>7, <1>8, <1>9, <1>10 DEF Next, Step, Flat!Next

\* The cache is transparent: with any number of readers, hits, misses,
\* insertions and evictions, every read returns the bytes of the store.
THEOREM CacheIsTransparent == Spec => TransparentSpec
  BY CacheInvariant, FlatInit, FlatNext, PTL DEF Spec, TransparentSpec, Flat!Spec

=============================================================================
