------------------------------ MODULE Flatten -------------------------------
(***************************************************************************)
(* `xboot flatten` (run_flatten in main.rs, write_dynamic_vhd in           *)
(* storage/vhd/write.rs): a backing image, with the increments next to it, *)
(* is copied into one new dynamic VHD.  Each write_all is a step; any of   *)
(* them may fail, and the process may be killed between any two.  What was *)
(* written stays in the file in the order it was written.                  *)
(***************************************************************************)
EXTENDS Images

CONSTANTS
    Sources,        \* images as they may be on disk, see SourceOk
    BlockSecs,      \* DEFAULT_BLOCK_SIZE, in sectors
    BatPerSector,   \* BAT entries in one sector
    BatMod,         \* 2^32: a BAT entry is a u32, the largest one marks a hole
    OldFile         \* a file that may already be where the output is to go

\* A source is the input file, the entries of its directory, and the bytes the
\* guest last left on that disk ("view"; "known" is FALSE where the files are
\* damaged and nothing is promised of them).
SourceOk(s) ==
    /\ DOMAIN s = {"stem", "ext", "file", "entries", "known", "view"}
    /\ FileOk(s.file)
    /\ IsFiniteSet(s.entries)
    /\ \A e \in s.entries : FileOk(e.file)

ASSUME SourcesAssumption == \A s \in Sources : SourceOk(s)
ASSUME OldFileAssumption == FileOk(OldFile)
ASSUME WriterAssumption ==
    BlockSecs \in Nat \ {0} /\ PowerOfTwo(BlockSecs) /\ BatPerSector \in Nat \ {0}
ASSUME BatModAssumption == BatMod \in Nat \ {0}

Missing == <<[tag |-> "missing"]>>

VARIABLES
    input,      \* the image given on the command line
    before,     \* what was at the output path when the program started
    out,        \* what is there now
    pc,         \* the next step of the program
    src,        \* the opened input
    i,          \* the block the loop is at
    bat,        \* the BAT entries known so far
    next        \* next_block_sector

vars == <<input, before, out, pc, src, i, bat, next>>

Ended == {"success", "failure", "leftover", "killed"}

\* The program is started; the directory is read when the input is opened.
Init ==
    /\ input \in Sources
    /\ before \in {Missing, OldFile}
    /\ out = before
    /\ pc = "start"
    /\ src = NoStore
    /\ i = 0
    /\ bat = <<>>
    /\ next = 0

-----------------------------------------------------------------------------

BlockBytes == BlockSecs * SectorLen
NBlocks(v) == CeilDiv(v.size, BlockBytes)
BitmapSecs == CeilDiv(BlockSecs, BitsPerSector)
Pad == [tag |-> "pad"]

TableSector == 3
BatSecs(v) == CeilDiv(NBlocks(v), BatPerSector)

\* build_footer
Footer(v) ==
    [tag |-> "footer", sum |-> TRUE, type |-> "dynamic", size |-> v.size, data |-> 1]

Header(v) ==
    [tag |-> "header", table |-> TableSector, entries |-> NBlocks(v), block |-> BlockSecs]

BatSector(b) == [tag |-> "bat", bat |-> b]

\* The reserved BAT: all 0xFF.
ReservedBat(v) ==
    [k \in 1 .. BatSecs(v) |->
        IF k = 1 THEN BatSector([e \in 1 .. NBlocks(v) |-> Hole]) ELSE Pad]

\* full_bitmap
FullBitmap ==
    [k \in 1 .. BitmapSecs |->
        [tag |-> "bitmap",
         bits |-> {b \in 0 .. BitsPerSector - 1 : (k - 1) * BitsPerSector + b < BlockSecs}]]

\* The permutations read_dir may list the directory in.
Orders(S) ==
    {o \in [1 .. Cardinality(S) -> S] : \A e \in S : \E k \in DOMAIN o : o[k] = e}

\* Mutant of OpenInput: an output that exists is overwritten.
OpenInputClobber ==
    /\ pc = "start"
    /\ \E entries \in Orders(input.entries) :
          src' = OpenBacking(input.stem, input.ext, input.file, entries)
    /\ pc' = IF src'.ok THEN "create" ELSE "failure"
    /\ UNCHANGED <<input, before, out, i, bat, next>>

\* run_flatten up to write_dynamic_vhd: an existing output is refused, then
\* the input is opened.
OpenInput ==
    /\ pc = "start"
    /\ IF out # Missing
       THEN /\ pc' = "failure"
            /\ UNCHANGED src
       ELSE /\ \E entries \in Orders(input.entries) :
                  src' = OpenBacking(input.stem, input.ext, input.file, entries)
            /\ pc' = IF src'.ok THEN "create" ELSE "failure"
    /\ UNCHANGED <<input, before, out, i, bat, next>>

\* File::create, which may fail; too many blocks for a BAT are refused before.
Create ==
    /\ pc = "create"
    /\ \/ NBlocks(src) < BatMod /\ out' = <<>> /\ pc' = "footer"
       \/ out' = Missing /\ pc' = "remove"
    /\ UNCHANGED <<input, before, src, i, bat, next>>

\* block_buf after block b is read: a short last block is filled up with zeros.
BlockRead(v, b) ==
    LET off == b * BlockBytes
        this == Least({BlockBytes, v.size - off})
        r == ReadAt(v, off, this)
    IN  [ok |-> r.ok, bytes |-> r.bytes \o [k \in 1 .. BlockBytes - this |-> 0]]

AllZero(b) == \A k \in DOMAIN b : b[k] = 0

BlockData(bytes) ==
    [k \in 1 .. BlockSecs |->
        [tag |-> "data", bytes |-> SubSeq(bytes, (k - 1) * SectorLen + 1, k * SectorLen)]]

\* The sectors the write_all at pc appends.
Pending ==
    CASE pc = "footer" -> <<Footer(src)>>
      [] pc = "header" -> <<Header(src), Pad>>
      [] pc = "reserve" -> ReservedBat(src)
      [] pc = "bitmap" -> FullBitmap
      [] pc = "data" -> BlockData(BlockRead(src, i).bytes)
      [] pc = "block" /\ i >= NBlocks(src) -> <<Footer(src)>>
      [] OTHER -> <<>>

\* A write_all at step at goes through, and the program goes on with after.
Write(at, after) ==
    /\ pc = at
    /\ out' = out \o Pending
    /\ pc' = after

WriteFooterCopy ==
    /\ Write("footer", "header")
    /\ UNCHANGED <<input, before, src, i, bat, next>>

WriteHeader ==
    /\ Write("header", "reserve")
    /\ UNCHANGED <<input, before, src, i, bat, next>>

\* Mutant of ReserveBat: the blocks are expected one sector late.
ReserveBatLate ==
    /\ Write("reserve", "block")
    /\ i' = 0
    /\ bat' = [e \in 1 .. NBlocks(src) |-> Hole]
    /\ next' = (TableSector + BatSecs(src) + 1) % BatMod
    /\ UNCHANGED <<input, before, src>>

ReserveBat ==
    /\ Write("reserve", "block")
    /\ i' = 0
    /\ bat' = [e \in 1 .. NBlocks(src) |-> Hole]
    /\ next' = (TableSector + BatSecs(src)) % BatMod
    /\ UNCHANGED <<input, before, src>>

\* The loop reads block i; a block of zeros stays unallocated.
ReadBlock ==
    /\ pc = "block"
    /\ i < NBlocks(src)
    /\ IF ~BlockRead(src, i).ok
       THEN pc' = "remove" /\ UNCHANGED <<i, bat>>
       ELSE IF AllZero(BlockRead(src, i).bytes)
       THEN i' = i + 1 /\ UNCHANGED <<pc, bat>>
       ELSE /\ bat' = [bat EXCEPT ![i + 1] = IF next = BatMod - 1 THEN Hole ELSE next]
            /\ pc' = "bitmap"
            /\ UNCHANGED i
    /\ UNCHANGED <<input, before, out, src, next>>

WriteBitmap ==
    /\ Write("bitmap", "data")
    /\ UNCHANGED <<input, before, src, i, bat, next>>

\* Mutant of WriteBlock: the bitmap in front of the block is not counted.
WriteBlockNoBitmap ==
    /\ Write("data", "block")
    /\ i' = i + 1
    /\ next' = (next + BlockSecs) % BatMod
    /\ UNCHANGED <<input, before, src, bat>>

WriteBlock ==
    /\ Write("data", "block")
    /\ i' = i + 1
    /\ next' = (next + BitmapSecs + BlockSecs) % BatMod
    /\ UNCHANGED <<input, before, src, bat>>

WriteFooter ==
    /\ i >= NBlocks(src)
    /\ Write("block", "backfill")
    /\ UNCHANGED <<input, before, src, i, bat, next>>

\* The output with the first n BAT entries written over the reserved ones.
Backfilled(n) ==
    IF NBlocks(src) = 0 THEN out
    ELSE [out EXCEPT ![TableSector + 1] =
             BatSector([e \in 1 .. NBlocks(src) |-> IF e <= n THEN bat[e] ELSE Hole])]

Backfill ==
    /\ pc = "backfill"
    /\ out' = Backfilled(NBlocks(src))
    /\ pc' = "success"
    /\ UNCHANGED <<input, before, src, i, bat, next>>

\* A write_all that does not complete has written some of its sectors.
Torn ==
    \/ \E n \in 0 .. Len(Pending) : out' = out \o SubSeq(Pending, 1, n)
    \/ pc = "backfill" /\ \E n \in 0 .. NBlocks(src) - 1 : out' = Backfilled(n)

\* Some write_all fails, say for want of space.
WriteFails ==
    /\ pc \in {"footer", "header", "reserve", "bitmap", "data", "block", "backfill"}
    /\ pc = "block" => i >= NBlocks(src)
    /\ Torn
    /\ pc' = "remove"
    /\ UNCHANGED <<input, before, src, i, bat, next>>

\* run_flatten after an error: the output is removed; an error of that is
\* ignored, and the file is left over.
Remove ==
    /\ pc = "remove"
    /\ \/ out' = Missing /\ pc' = "failure"
       \/ out # Missing /\ pc' = "leftover" /\ UNCHANGED out
    /\ UNCHANGED <<input, before, src, i, bat, next>>

\* The process is killed, possibly within a write_all.
Kill ==
    /\ pc \notin Ended
    /\ Torn
    /\ pc' = "killed"
    /\ UNCHANGED <<input, before, src, i, bat, next>>

Next ==
    \/ OpenInput \/ Create \/ WriteFooterCopy \/ WriteHeader \/ ReserveBat
    \/ ReadBlock \/ WriteBitmap \/ WriteBlock \/ WriteFooter \/ Backfill
    \/ WriteFails \/ Remove \/ Kill

Spec == Init /\ [][Next]_vars

-----------------------------------------------------------------------------
(* Properties.                                                             *)

\* Every sector number of the copy of v fits in a BAT entry.  The writer refuses
\* too many blocks but not too many sectors: past this its numbers wrap.
Fits(v) ==
    TableSector + BatSecs(v) + NBlocks(v) * (BitmapSecs + BlockSecs) < BatMod

SourcesFit ==
    \A s \in Sources : \A entries \in Orders(s.entries) :
        LET v == OpenBacking(s.stem, s.ext, s.file, entries)
        IN  v.ok => Fits(v)

Size == Cardinality(DOMAIN input.view)

\* What reading [off, len) of a disk with the input's view has to give.
Expected(off, len) ==
    IF off + len <= Size
    THEN Ok([k \in 1 .. len |-> input.view[off + k - 1]])
    ELSE Err

\* An image whose files are sound opens, with one copy of a VHDX region table
\* damaged too, and shows, for every range of the disk, the bytes the guest
\* last left there, in whatever order read_dir listed the increments, across
\* sector, block and layer boundaries, and refuses ranges past the end
\* (open_backing, the read_at of every store).
ReadsExact ==
    input.known =>
        /\ pc = "failure" /\ before = Missing => src.ok
        /\ pc = "create" =>
              /\ src.size = Size
              /\ \A off \in 0 .. Size, len \in 0 .. Size + 1 :
                    ReadAt(src, off, len) = Expected(off, len)

\* After a run that reports success the output, opened on its own, is an image
\* of the same size with the same bytes as the input (write_dynamic_vhd).
FlattenExact ==
    LET flat == OpenBacking("flat", "vhd", out, <<>>)
    IN  pc = "success" =>
            /\ flat.ok /\ flat.kind = "dynamic"
            /\ flat.size = src.size
            /\ ReadAt(flat, 0, src.size) = ReadAt(src, 0, src.size)
            /\ ReadAt(src, 0, src.size).ok

\* A dynamic VHD that an interrupted run left behind shows, block for block,
\* the input's bytes or zeros, never another block's bytes or the writer's own
\* structures: until the BAT is written over the reserved one every block is a
\* hole.
NoForeignBytes ==
    LET flat == OpenBacking("flat", "vhd", out, <<>>)
        Block(v, b) == ReadAt(v, b * BlockBytes, Least({BlockBytes, v.size - b * BlockBytes}))
    IN  pc \in {"killed", "leftover"} /\ src.ok /\ out # Missing /\ flat.kind = "dynamic" =>
            \A b \in 0 .. NBlocks(src) - 1 :
                AllZero(Block(flat, b).bytes) \/ Block(flat, b) = Block(src, b)

\* A run that reports failure leaves the output path as it found it, unless the
\* file could not be removed; in particular an older file is never touched.
FailureLeavesNothing ==
    /\ pc = "failure" => out = before
    /\ before # Missing => out = before

=============================================================================
