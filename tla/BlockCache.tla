----------------------------- MODULE BlockCache -----------------------------
(***************************************************************************)
(* The shared RAM cache of master blocks (cache/mod.rs).  CachedStore      *)
(* decorates a read-only BackingStore; all clients of a master call        *)
(* `read_at` on it at once.  The mutex covers the lookup, and the          *)
(* insertion with its evictions, but not the disk read between the two, so *)
(* several readers may miss the same block and insert it one after the     *)
(* other.  The insertion is modelled pop by pop, with the mutex held.      *)
(*                                                                         *)
(* The hit and miss counters, which nothing reads but diagnostics, are     *)
(* left out.                                                               *)
(***************************************************************************)
EXTENDS BlockGeometry, FiniteSets

CONSTANTS
    Val,        \* byte values
    Master,     \* contents of the decorated store
    Threads,    \* readers that share the cache
    Reads,      \* the [off, len] ranges that may be read
    Budget,     \* budget: bytes the cache may hold
    Zeros,      \* a fresh buffer
    None

\* Volume::check_bounds keeps every read inside the store; CachedStore itself
\* does not check.
Extent == {r \in [off : 0 .. Size, len : 0 .. Size] : r.off + r.len <= Size}

ASSUME MasterAssumption == Master \in [Cells -> Val]
ASSUME ReadsAssumption == Reads \subseteq Extent
ASSUME BudgetAssumption == Budget \in Nat
ASSUME ZerosAssumption == Zeros \in [Cells -> Val]
ASSUME NoneAssumption == /\ \A S \in SUBSET Cells : None \notin [S -> Val]
                         /\ None \notin Threads

VARIABLES
    data,       \* LruCache contents: the block's bytes, or None
    older,      \* recency order of the cached blocks: <<a, b>> if a was used before b
    current,    \* current_bytes
    holder,     \* the thread inside `insert` with the mutex held, or None
    kind,       \* per thread: "idle" or "read"
    stage,      \* per thread: where the iteration stands
    pos,        \* per thread: pos
    end,        \* per thread: offset + buf.len()
    buf,        \* per thread: the caller's buffer
    full,       \* per thread: the block read from the store, or None
    res         \* per thread: outcome of the last call

vars == <<data, older, current, holder, kind, stage, pos, end, buf, full, res>>

Take(t) == TakeAt(pos[t], end[t])

Chunk(t) == pos[t] .. pos[t] + Take(t) - 1

Cached == {b \in Blocks : data[b] # None}

\* `get` and `put` make b the most recently used block.
Touch(b) ==
    {e \in older : e[1] # b /\ e[2] # b} \cup {<<c, b>> : c \in Cached \ {b}}

\* Mutant of IsLru: the most recently used block is removed.
IsMru(v) == v \in Cached /\ \A c \in Cached \ {v} : <<c, v>> \in older

\* The block `pop_lru` removes.
IsLru(v) == v \in Cached /\ \A c \in Cached \ {v} : <<v, c>> \in older

Init ==
    /\ data = [b \in Blocks |-> None]
    /\ older = {}
    /\ current = 0
    /\ holder = None
    /\ kind = [t \in Threads |-> "idle"]
    /\ stage = [t \in Threads |-> "lookup"]
    /\ pos = [t \in Threads |-> 0]
    /\ end = [t \in Threads |-> 0]
    /\ buf = [t \in Threads |-> Zeros]
    /\ full = [t \in Threads |-> None]
    /\ res = [t \in Threads |-> "none"]

\* read_at is called for range r.
Call(t, r) ==
    /\ kind[t] = "idle"
    /\ kind' = [kind EXCEPT ![t] = "read"]
    /\ pos' = [pos EXCEPT ![t] = r.off]
    /\ end' = [end EXCEPT ![t] = r.off + r.len]
    /\ buf' = [buf EXCEPT ![t] = Zeros]
    /\ UNCHANGED <<data, older, current, holder, stage, full, res>>

\* The thread is at the head of an iteration and gets the mutex.
AtLookup(t) ==
    /\ kind[t] = "read"
    /\ stage[t] = "lookup"
    /\ pos[t] < end[t]
    /\ holder = None

\* The block is cached: copy from it under the mutex.
Hit(t) ==
    LET b == BlockOf(pos[t])
    IN  /\ AtLookup(t)
        /\ data[b] # None
        /\ buf' = [buf EXCEPT ![t] = Overwrite(data[b], @, Chunk(t), Cells)]
        /\ older' = Touch(b)
        /\ pos' = [pos EXCEPT ![t] = @ + Take(t)]
        /\ UNCHANGED <<data, current, holder, kind, stage, end, full, res>>

\* The block is not cached: the mutex is released and the disk read starts.
Miss(t) ==
    /\ AtLookup(t)
    /\ data[BlockOf(pos[t])] = None
    /\ stage' = [stage EXCEPT ![t] = "fetch"]
    /\ UNCHANGED <<data, older, current, holder, kind, pos, end, buf, full, res>>

\* Only a block that fits the budget as a whole is cached.
FitsBudget(b) == BlockLen(b) <= Budget

\* The full block is read from the store, without the mutex, and the caller
\* gets its part of it; a block that is not cached ends the iteration.
Fetch(t) ==
    LET b == BlockOf(pos[t])
        block == [p \in CellsOf(b) |-> Master[p]]
    IN  /\ kind[t] = "read"
        /\ stage[t] = "fetch"
        /\ buf' = [buf EXCEPT ![t] = Overwrite(block, @, Chunk(t), Cells)]
        /\ IF FitsBudget(b)
           THEN /\ full' = [full EXCEPT ![t] = block]
                /\ stage' = [stage EXCEPT ![t] = "insert"]
                /\ UNCHANGED pos
           ELSE /\ pos' = [pos EXCEPT ![t] = @ + Take(t)]
                /\ stage' = [stage EXCEPT ![t] = "lookup"]
                /\ UNCHANGED full
        /\ UNCHANGED <<data, older, current, holder, kind, end, res>>

\* Mutant of FetchError: the failed read is taken for a successful one.
FetchErrorIgnored(t) ==
    /\ kind[t] = "read"
    /\ stage[t] = "fetch"
    /\ stage' = [stage EXCEPT ![t] = "lookup"]
    /\ pos' = [pos EXCEPT ![t] = @ + Take(t)]
    /\ UNCHANGED <<data, older, current, holder, kind, end, buf, full, res>>

\* The read of the store fails.
FetchError(t) ==
    /\ kind[t] = "read"
    /\ stage[t] = "fetch"
    /\ kind' = [kind EXCEPT ![t] = "idle"]
    /\ stage' = [stage EXCEPT ![t] = "lookup"]
    /\ res' = [res EXCEPT ![t] = "err"]
    /\ UNCHANGED <<data, older, current, holder, pos, end, buf, full>>

\* Mutant of Replaced: `put` returns the old block but nobody subtracts it.
ReplacedForgotten(b) == 0

\* Bytes of the block that `put` replaces.
Replaced(b) == IF data[b] = None THEN 0 ELSE BlockLen(b)

\* Mutant of Put: the mutex is dropped before the eviction loop.
PutUnlocked(t) ==
    LET b == BlockOf(pos[t])
    IN  /\ stage[t] = "insert"
        /\ holder = None
        /\ data' = [data EXCEPT ![b] = full[t]]
        /\ older' = Touch(b)
        /\ current' = current - Replaced(b) + BlockLen(b)
        /\ stage' = [stage EXCEPT ![t] = "evict"]
        /\ UNCHANGED <<holder, kind, pos, end, buf, full, res>>

\* LruState::insert up to its loop: `put` and the byte accounting.
Put(t) ==
    LET b == BlockOf(pos[t])
    IN  /\ stage[t] = "insert"
        /\ holder = None
        /\ holder' = t
        /\ data' = [data EXCEPT ![b] = full[t]]
        /\ older' = Touch(b)
        /\ current' = current - Replaced(b) + BlockLen(b)
        /\ stage' = [stage EXCEPT ![t] = "evict"]
        /\ UNCHANGED <<kind, pos, end, buf, full, res>>

\* Mutant of OverBudget: one byte over the budget is tolerated.
OverBudgetLate == current > Budget + 1

OverBudget == current > Budget

\* One turn of the eviction loop.
Evict(t) ==
    /\ holder = t
    /\ OverBudget
    /\ \E v \in Cached :
          /\ IsLru(v)
          /\ data' = [data EXCEPT ![v] = None]
          /\ older' = {e \in older : e[1] # v /\ e[2] # v}
          /\ current' = current - BlockLen(v)
    /\ UNCHANGED <<holder, kind, stage, pos, end, buf, full, res>>

\* The loop is left, within the budget or with nothing to evict; the mutex is
\* released and the iteration ends.
Unlock(t) ==
    /\ holder = t
    /\ ~(OverBudget /\ Cached # {})
    /\ holder' = None
    /\ full' = [full EXCEPT ![t] = None]
    /\ stage' = [stage EXCEPT ![t] = "lookup"]
    /\ pos' = [pos EXCEPT ![t] = @ + Take(t)]
    /\ UNCHANGED <<data, older, current, kind, end, buf, res>>

\* The loop of read_at is left at the end of the range.
Finish(t) ==
    /\ kind[t] = "read"
    /\ stage[t] = "lookup"
    /\ pos[t] >= end[t]
    /\ kind' = [kind EXCEPT ![t] = "idle"]
    /\ res' = [res EXCEPT ![t] = "ok"]
    /\ UNCHANGED <<data, older, current, holder, stage, pos, end, buf, full>>

Step(t) ==
    \/ Hit(t)
    \/ Miss(t)
    \/ Fetch(t)
    \/ FetchError(t)
    \/ Put(t)
    \/ Evict(t)
    \/ Unlock(t)
    \/ Finish(t)

Next == \E t \in Threads : Step(t) \/ \E r \in Reads : Call(t, r)

Spec == Init /\ [][Next]_vars

-----------------------------------------------------------------------------
(* Properties *)

\* A thread holds a fetched block exactly while it inserts it, and the mutex
\* exactly while it evicts.
ThreadOK(t) ==
    /\ stage[t] = "evict" <=> holder = t
    /\ stage[t] # "lookup" => kind[t] = "read" /\ pos[t] < end[t]
    /\ full[t] \in IF stage[t] \in {"insert", "evict"}
                   THEN [CellsOf(BlockOf(pos[t])) -> Val]
                   ELSE {None}

\* Shapes of the state.  `current` is a natural number: the subtractions of
\* `insert` never wrap the u64.
TypeOK ==
    /\ \A b \in DOMAIN data : data[b] \in {None} \cup [CellsOf(b) -> Val]
    /\ DOMAIN data = Blocks
    /\ older \subseteq Blocks \X Blocks
    /\ current \in Nat
    /\ holder \in Threads \cup {None}
    /\ kind \in [Threads -> {"idle", "read"}]
    /\ stage \in [Threads -> {"lookup", "fetch", "insert", "evict"}]
    /\ pos \in [Threads -> 0 .. Size]
    /\ end \in [Threads -> 0 .. Size]
    /\ buf \in [Threads -> [Cells -> Val]]
    /\ full = [t \in Threads |-> full[t]]
    /\ res \in [Threads -> {"none", "ok", "err"}]
    /\ \A t \in Threads : ThreadOK(t)

\* The bytes held by the cache.
CachedCells == {p \in Cells : BlockOf(p) \in Cached}

\* The byte count is exact at every moment, also when two readers that missed
\* the same block insert it one after the other.
BytesExact == current = Cardinality(CachedCells)

\* Whenever the mutex is free, what `stats` reports is within the budget.
BudgetHeld == holder = None => current <= Budget

\* "Callers must only insert blocks whose length is <= budget; that guarantees
\* the eviction loop terminates leaving the just-inserted block" (doc of
\* LruState::insert): the loop never evicts the block it made room for.
InsertedSurvives == \A t \in Threads : holder = t => BlockOf(pos[t]) \in Cached

\* How far the caller's buffer is filled: a fetched block is copied to it
\* before the block is inserted.
Filled == [t \in Threads |->
              IF stage[t] \in {"insert", "evict"} THEN pos[t] + Take(t) ELSE pos[t]]

\* The cache is transparent: readers see the store, byte for byte, whichever
\* of them filled the cache.
Flat == INSTANCE FlatDisk WITH disk <- Master, pos <- Filled, Payloads <- {}

TransparentSpec == Flat!Spec

=============================================================================
