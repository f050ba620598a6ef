------------------------------- MODULE Volume -------------------------------
(***************************************************************************)
(* A client's virtual disk (volume/mod.rs, volume/overlay.rs): a read-only *)
(* master plus a volatile copy-on-write overlay of whole blocks.  `read_at`*)
(* and `write_at` take &self, so every connection that shares a target     *)
(* runs them on the same Volume at the same time; the overlay's RwLock is  *)
(* taken once per `read_block` or `write_block`, which are the atomic      *)
(* steps of this model.  The overlay's block b is a function on            *)
(* CellsOf(b).                                                             *)
(***************************************************************************)
EXTENDS BlockGeometry

CONSTANTS
    Val,        \* byte values
    Master,     \* contents of the master image
    Threads,    \* connections that share the volume
    Reads,      \* Reads[t]: the [off, len] ranges t may ask for
    Writes,     \* Writes[t]: the [off, len] ranges t may write
    Payloads,   \* buffers that may be written
    Zeros,      \* a fresh buffer
    None        \* no such block in the overlay

Extent == [off : Nat, len : Nat]

ASSUME MasterAssumption == Master \in [Cells -> Val]
ASSUME PayloadsAssumption == Payloads \subseteq [Cells -> Val]
ASSUME ZerosAssumption == Zeros \in [Cells -> Val]
ASSUME ReadsAssumption == \A t \in Threads : Reads[t] \subseteq Extent
ASSUME WritesAssumption == \A t \in Threads : Writes[t] \subseteq Extent
ASSUME NoneAssumption == \A S \in SUBSET Cells : None \notin [S -> Val]

\* Mutant of InBounds: one byte past the end is let through.
InBoundsOffByOne(r) == r.off + r.len <= Size + 1

\* check_bounds
InBounds(r) == r.off + r.len <= Size

VARIABLES
    overlay,    \* RamOverlay.blocks
    kind,       \* per thread: "idle", "read" (in read_at) or "write" (in write_at)
    pos,        \* per thread: pos
    end,        \* per thread: offset + buf.len()
    buf,        \* per thread: the caller's buffer
    rmw,        \* per thread: the private copy of a partly covered block
    res         \* per thread: outcome of the last call

vars == <<overlay, kind, pos, end, buf, rmw, res>>

\* The bytes the loop body handles in one iteration.
Take(t) == TakeAt(pos[t], end[t])

Chunk(t) == pos[t] .. pos[t] + Take(t) - 1

\* Mutant of BlockData: the master is read even if the overlay has the block.
BlockDataMasterFirst(b) == [p \in CellsOf(b) |-> Master[p]]

\* The contents of block b as read_block, or else the master, gives them.
BlockData(b) ==
    IF overlay[b] # None THEN overlay[b] ELSE [p \in CellsOf(b) |-> Master[p]]

Init ==
    /\ overlay = [b \in Blocks |-> None]
    /\ kind = [t \in Threads |-> "idle"]
    /\ pos = [t \in Threads |-> 0]
    /\ end = [t \in Threads |-> 0]
    /\ buf = [t \in Threads |-> Zeros]
    /\ rmw = [t \in Threads |-> None]
    /\ res = [t \in Threads |-> "none"]

\* A call enters with range r and buffer d; a range outside the volume is
\* refused at once.
Call(t, k, r, d) ==
    /\ kind[t] = "idle"
    /\ IF InBounds(r)
       THEN /\ kind' = [kind EXCEPT ![t] = k]
            /\ pos' = [pos EXCEPT ![t] = r.off]
            /\ end' = [end EXCEPT ![t] = r.off + r.len]
            /\ buf' = [buf EXCEPT ![t] = d]
            /\ UNCHANGED res
       ELSE /\ res' = [res EXCEPT ![t] = "err"]
            /\ UNCHANGED <<kind, pos, end, buf>>
    /\ UNCHANGED <<overlay, rmw>>

CallRead(t) == \E r \in Reads[t] : Call(t, "read", r, Zeros)

CallWrite(t) == \E r \in Writes[t], d \in Payloads : Call(t, "write", r, d)

\* One iteration of read_at: the overlay's block, else the master.
ReadBlock(t) ==
    /\ kind[t] = "read"
    /\ pos[t] < end[t]
    /\ buf' = [buf EXCEPT ![t] =
                  Overwrite(BlockData(BlockOf(pos[t])), @, Chunk(t), Cells)]
    /\ pos' = [pos EXCEPT ![t] = @ + Take(t)]
    /\ UNCHANGED <<overlay, kind, end, rmw, res>>

\* One iteration of write_at over a block the range covers completely.
WriteFullBlock(t) ==
    LET b == BlockOf(pos[t])
    IN  /\ kind[t] = "write"
        /\ rmw[t] = None
        /\ pos[t] < end[t]
        /\ Take(t) = BlockLen(b)
        /\ overlay' = [overlay EXCEPT ![b] = [p \in CellsOf(b) |-> buf[t][p]]]
        /\ pos' = [pos EXCEPT ![t] = @ + Take(t)]
        /\ UNCHANGED <<kind, end, buf, rmw, res>>

\* Mutant of RmwRead: the block is patched without being read first.
RmwReadBlank(t) ==
    /\ kind[t] = "write"
    /\ rmw[t] = None
    /\ pos[t] < end[t]
    /\ Take(t) # BlockLen(BlockOf(pos[t]))
    /\ rmw' = [rmw EXCEPT ![t] = [p \in CellsOf(BlockOf(pos[t])) |-> Zeros[p]]]
    /\ UNCHANGED <<overlay, kind, pos, end, buf, res>>

\* A partly covered block, first half: copy the block out of the overlay, or
\* out of the master.  The overlay's lock is released when this step ends.
RmwRead(t) ==
    LET b == BlockOf(pos[t])
    IN  /\ kind[t] = "write"
        /\ rmw[t] = None
        /\ pos[t] < end[t]
        /\ Take(t) # BlockLen(b)
        /\ rmw' = [rmw EXCEPT ![t] = BlockData(b)]
        /\ UNCHANGED <<overlay, kind, pos, end, buf, res>>

\* Second half: patch the private copy and store the whole block.
RmwWrite(t) ==
    LET b == BlockOf(pos[t])
    IN  /\ rmw[t] # None
        /\ overlay' = [overlay EXCEPT ![b] =
                          Overwrite(buf[t], rmw[t], Chunk(t), CellsOf(b))]
        /\ rmw' = [rmw EXCEPT ![t] = None]
        /\ pos' = [pos EXCEPT ![t] = @ + Take(t)]
        /\ UNCHANGED <<kind, end, buf, res>>

\* The loop is left at the end of the range.
Finish(t) ==
    /\ kind[t] # "idle"
    /\ pos[t] >= end[t]
    /\ kind' = [kind EXCEPT ![t] = "idle"]
    /\ res' = [res EXCEPT ![t] = "ok"]
    /\ UNCHANGED <<overlay, pos, end, buf, rmw>>

\* The master is only read when the overlay has no copy of the block, and
\* only when the block is not stored whole; a failed read ends the call, and
\* what earlier iterations stored stays.
MasterError(t) ==
    /\ kind[t] # "idle"
    /\ pos[t] < end[t]
    /\ overlay[BlockOf(pos[t])] = None
    /\ kind[t] = "write" => /\ rmw[t] = None
                            /\ Take(t) # BlockLen(BlockOf(pos[t]))
    /\ kind' = [kind EXCEPT ![t] = "idle"]
    /\ res' = [res EXCEPT ![t] = "err"]
    /\ UNCHANGED <<overlay, pos, end, buf, rmw>>

\* reset.  Nothing in the repository but its tests calls it, and they call it
\* with no request running; a caller that resets while a write is between
\* RmwRead and RmwWrite is outside this model.
Reset ==
    /\ \A t \in Threads : kind[t] = "idle"
    /\ overlay' = [b \in Blocks |-> None]
    /\ UNCHANGED <<kind, pos, end, buf, rmw, res>>

Step(t) ==
    \/ ReadBlock(t)
    \/ WriteFullBlock(t)
    \/ RmwRead(t)
    \/ RmwWrite(t)
    \/ Finish(t)
    \/ MasterError(t)

Next ==
    \/ \E t \in Threads : CallRead(t) \/ CallWrite(t) \/ Step(t)
    \/ Reset

Spec == Init /\ [][Next]_vars

\* A call that has started runs to its end: nothing in read_at or write_at
\* waits for another caller, and the RwLock is held only inside one step.
FairSpec == Spec /\ \A t \in Threads : WF_vars(Step(t))

-----------------------------------------------------------------------------
(* Properties *)

\* Shapes of the state.  The overlay holds every block at exactly its length
\* (the block-length contract of OverlayStore): `read_block` copies into a
\* vector of block_len bytes and panics on any other length.
TypeOK ==
    /\ \A b \in DOMAIN overlay : overlay[b] \in {None} \cup [CellsOf(b) -> Val]
    /\ DOMAIN overlay = Blocks
    /\ kind \in [Threads -> {"idle", "read", "write"}]
    /\ pos \in [Threads -> 0 .. Size]
    /\ end \in [Threads -> 0 .. Size]
    /\ buf \in [Threads -> [Cells -> Val]]
    /\ DOMAIN rmw = Threads
    /\ \A t \in Threads : rmw[t] # None =>
          /\ kind[t] = "write"
          /\ pos[t] < end[t]
          /\ rmw[t] \in [CellsOf(BlockOf(pos[t])) -> Val]
    /\ res \in [Threads -> {"none", "ok", "err"}]

\* The bytes a read of the whole volume returns.
View == [p \in Cells |->
            IF overlay[BlockOf(p)] # None THEN overlay[BlockOf(p)][p] ELSE Master[p]]

\* The blocks thread t may write.
WriteBlocks(t) ==
    {BlockOf(p) : p \in {q \in Cells : \E r \in Writes[t] : r.off <= q /\ q < r.off + r.len}}

\* No two threads write the same block: true of a target with one connection,
\* and of the test `concurrent_writers_isolated_by_block`.
DisjointWriters ==
    \A t, u \in Threads : t # u => WriteBlocks(t) \cap WriteBlocks(u) = {}

\* A writer between the two halves of a read-modify-write holds the current
\* contents of its block: nothing another thread stored is undone when the
\* private copy is stored back.
RmwFresh ==
    \A t \in Threads : rmw[t] # None => rmw[t] = BlockData(BlockOf(pos[t]))

\* "A partially covered block is read-modified-written so untouched bytes are
\* preserved" (doc of write_at): a byte changes only in a step of a writer
\* whose range holds it, to the value that writer brought, or in a reset.
UntouchedBytesPreserved ==
    [][\A p \in Cells : View'[p] # View[p] =>
          \/ \A t \in Threads : kind[t] = "idle"
          \/ \E t \in Threads : /\ kind[t] = "write"
                                /\ p \in pos[t] .. pos'[t] - 1
                                /\ View'[p] = buf[t][p]]_vars

\* The volume is a flat disk: reads see every byte last written to them, by
\* whichever thread, and the master where nothing was written.
Flat == INSTANCE FlatDisk WITH disk <- View

FlatSpec == Flat!Spec

\* Every call returns: each iteration of the loops makes progress.
CallsReturn == \A t \in Threads : kind[t] # "idle" ~> kind[t] = "idle"

=============================================================================
