------------------------------- MODULE Images -------------------------------
(***************************************************************************)
(* How a master image is opened and read (crates/xboot-core/src/storage):  *)
(* raw files, fixed and dynamic VHDs, CCBoot increment chains and VHDX.    *)
(*                                                                         *)
(* A file is a sequence of sectors.  A sector is a record whose tag says   *)
(* what is stored there: "data" (its bytes), or one of the structures of   *)
(* the formats, with the fields the code uses; a signature that does not   *)
(* match is another tag.  Sector n of a file is the offset n * SECTOR of   *)
(* the code.  The last sector of a raw file may be short.  A store is what *)
(* opening a file gives.  The diagnostic environment variables             *)
(* XBOOT_NO_CHAIN and XBOOT_IGNORE_BITMAP are unset.                       *)
(***************************************************************************)
EXTENDS Integers, Sequences, FiniteSets

CONSTANTS
    SectorLen,      \* SECTOR, in bytes
    BitsPerSector,  \* sectors whose bits fit in one sector of a VHD bitmap
    ChunkBits,      \* 2^23: chunk_ratio's factor
    MaxNumber       \* largest increment number that fits in a u32

ASSUME SectorAssumption == SectorLen \in Nat \ {0}
ASSUME BitmapAssumption == BitsPerSector \in Nat \ {0}
ASSUME ChunkAssumption == ChunkBits \in Nat \ {0}

Hole == -1      \* 0xFFFF_FFFF in a BAT; Unit::Zero; Ok(None)
Beyond == -2    \* no BAT entry for the block, or one that cannot be read
MetaByte == 255 \* a byte of a structure, read as if it were data

Ok(b) == [ok |-> TRUE, bytes |-> b]
Err == [ok |-> FALSE, bytes |-> <<>>]

CeilDiv(a, b) == (a + b - 1) \div b
Least(S) == CHOOSE x \in S : \A y \in S : x <= y
PowerOfTwo(n) == \E k \in 0 .. n : n = 2 ^ k

-----------------------------------------------------------------------------
(* Files.                                                                  *)

Numbers == Nat \cup {Hole}

\* The fields of a structure are unsigned integers, some of which may stand for
\* "none"; a bitmap has its sector's bits.
SectorOk(s) ==
    /\ s.tag = "data" => s.bytes \in Seq(0 .. 255)
    /\ s.tag = "footer" => s.size \in Nat /\ s.data \in Nat
    /\ s.tag = "header" => {s.table, s.entries, s.block} \subseteq Nat
    /\ s.tag = "bat" => s.bat \in Seq(Numbers)
    /\ s.tag = "bitmap" => s.bits \subseteq 0 .. BitsPerSector - 1
    /\ s.tag = "metadata" => {s.block, s.lss, s.size} \subseteq Numbers
    /\ s.tag = "vhdxbat" => s.bat \in Seq([state : Nat, at : Nat])

FileOk(f) ==
    /\ f \in Seq({f[k] : k \in DOMAIN f})
    /\ \A k \in DOMAIN f : SectorOk(f[k])

SecBytes(s) == IF s.tag = "data" THEN Len(s.bytes) ELSE SectorLen

FileLen(f) ==
    IF f = <<>> THEN 0 ELSE SectorLen * (Len(f) - 1) + SecBytes(f[Len(f)])

ByteAt(f, p) ==
    LET s == f[(p \div SectorLen) + 1]
    IN  IF s.tag = "data" THEN s.bytes[(p % SectorLen) + 1] ELSE MetaByte

\* read_exact_at: all of the range, or UnexpectedEof; nothing is always there.
ReadExactAt(f, off, len) ==
    IF len = 0 \/ off + len <= FileLen(f)
    THEN Ok([i \in 1 .. len |-> ByteAt(f, off + i - 1)])
    ELSE Err

Eof == [tag |-> "eof"]

\* The structure at sector n, or at the last whole sector of the file.
SectorAt(f, n) == IF n \in 0 .. Len(f) - 1 THEN f[n + 1] ELSE Eof
Trailing(f) ==
    IF f # <<>> /\ SecBytes(f[Len(f)]) = SectorLen THEN f[Len(f)] ELSE Eof

NoStore == [ok |-> FALSE, kind |-> "none", size |-> 0]

\* r followed by the rest of the buffer, unless one of them failed.
Then(r, rest) == IF r.ok /\ rest.ok THEN Ok(r.bytes \o rest.bytes) ELSE Err

\* What one iteration of a loop over units takes at position pos, with rest
\* bytes to go.
TakeAt(pos, unit, rest) == Least({unit - (pos % unit), rest})

\* The loop that fills a buffer of len bytes: from position d on it takes
\* take[d] bytes with the result piece[d]; the first error ends it.
Fill(len, take, piece) ==
    LET Loop[done \in 0 .. len] ==
          IF done = len THEN Ok(<<>>)
          ELSE Then(piece[done], Loop[done + take[done]])
    IN  Loop[0]

\* Bytes within .. within + take - 1 of the unit whose bytes begin at at.
UnitPart(f, at, within, take) ==
    CASE at = Hole -> Ok([i \in 1 .. take |-> 0])
      [] at = Beyond -> Err
      [] OTHER -> ReadExactAt(f, at + within, take)

\* read_units: the range is split at the unit boundaries; locate[u] says
\* where the bytes of unit u begin in the file.
ReadUnits(f, off, len, size, unit, locate) ==
    LET take == [d \in 0 .. len - 1 |-> TakeAt(off + d, unit, len - d)]
        piece == [d \in 0 .. len - 1 |->
                    UnitPart(f, locate[(off + d) \div unit], (off + d) % unit, take[d])]
    IN  IF unit = 0 \/ off + len > size THEN Err ELSE Fill(len, take, piece)

-----------------------------------------------------------------------------
(* Raw files and VHDs.                                                     *)

\* RawFile::open and read_at
RawOpen(f) == [ok |-> TRUE, kind |-> "raw", size |-> FileLen(f), file |-> f]

FlatReadAt(v, off, len) ==
    IF off + len > v.size THEN Err ELSE ReadExactAt(v.file, off, len)

\* VhdFooter::parse: cookie and checksum.
FooterOk(s) == s.tag = "footer" /\ s.sum

\* FixedVhd::open
FixedOpen(f) ==
    LET foot == Trailing(f)
    IN  IF FooterOk(foot) /\ foot.type = "fixed"
        THEN [ok |-> TRUE, kind |-> "fixed", size |-> foot.size, file |-> f]
        ELSE NoStore

\* The set bits of the bitmap that begins at sector n, in sectors of the block.
BitsAt(f, n, count) ==
    LET Bits(s) == IF s.tag = "bitmap" THEN s.bits ELSE 0 .. BitsPerSector - 1
    IN  UNION {{j * BitsPerSector + b : b \in Bits(SectorAt(f, n + j))} : j \in 0 .. count - 1}

\* DynamicVhd::open: the header, the BAT, and the bitmap of every allocated
\* block have to be readable.
DynamicOpen(f) ==
    LET foot == Trailing(f)
        hdr == SectorAt(f, foot.data)
        table == SectorAt(f, hdr.table)
        count == CeilDiv(hdr.block, BitsPerSector)
        Table == IF hdr.entries = 0 THEN <<>> ELSE SubSeq(table.bat, 1, hdr.entries)
        Readable(e) == e + count <= Len(f)
        Bits(e) == IF e = Hole THEN {} ELSE BitsAt(f, e, count)
    IN  IF /\ FooterOk(foot) /\ foot.type = "dynamic"
           /\ foot.data + 2 <= Len(f) /\ hdr.tag = "header"
           /\ hdr.block # 0 /\ PowerOfTwo(hdr.block)
           /\ hdr.entries > 0 => table.tag = "bat" /\ hdr.entries <= Len(table.bat)
           /\ \A k \in DOMAIN Table : Table[k] = Hole \/ Readable(Table[k])
        THEN [ok |-> TRUE, kind |-> "dynamic", size |-> foot.size, file |-> f,
              block |-> hdr.block, bitmap |-> count,
              bat |-> Table,
              bitmaps |-> [k \in DOMAIN Table |-> Bits(Table[k])]]
        ELSE NoStore

\* block_sector_offset: where sector s is if its block is allocated.
BlockSectorOffset(v, s) ==
    LET b == s \div v.block
    IN  IF b >= Len(v.bat) THEN Beyond
        ELSE IF v.bat[b + 1] = Hole THEN Hole
        ELSE SectorLen * (v.bat[b + 1] + v.bitmap + (s % v.block))

\* sector_offset: the same if in addition its bit is set.
SectorOffset(v, s) ==
    LET b == s \div v.block
    IN  IF /\ b < Len(v.bat)
           /\ v.bat[b + 1] # Hole
           /\ (s % v.block) \notin v.bitmaps[b + 1]
        THEN Hole
        ELSE BlockSectorOffset(v, s)

\* DynamicVhd::read_at
DynamicReadAt(v, off, len) ==
    LET locate == [s \in 0 .. v.size |-> SectorOffset(v, s)]
    IN  ReadUnits(v.file, off, len, v.size, SectorLen, locate)

\* Vhd::open
VhdOpen(f) ==
    LET foot == Trailing(f)
    IN  CASE FooterOk(foot) /\ foot.type = "fixed" -> FixedOpen(f)
          [] FooterOk(foot) /\ foot.type = "dynamic" -> DynamicOpen(f)
          [] OTHER -> NoStore

-----------------------------------------------------------------------------
(* VHDX.                                                                   *)

\* parse_one_header: signature, CRC, version and no log to replay.
HeaderOk(h) == h.tag = "vhdxheader" /\ h.crc /\ h.version = 1 /\ ~h.log

\* parse_best_header; only whether there is one matters to the reader.
BestHeaderOk(h1, h2) == HeaderOk(h1) \/ HeaderOk(h2)

\* parse_region_table
RegionsOk(r) == r.tag = "regions" /\ r.crc

\* The region table, or its copy when the first cannot be read or parsed.
Regions(f) == IF RegionsOk(SectorAt(f, 3)) THEN SectorAt(f, 3) ELSE SectorAt(f, 4)

\* parse_metadata: Hole stands for a missing item.
MetadataOk(m) ==
    /\ m.tag = "metadata"
    /\ ~m.parent
    /\ Hole \notin {m.block, m.lss, m.size}
    /\ m.block # 0 /\ PowerOfTwo(m.block)
    /\ m.lss # 0 /\ PowerOfTwo(m.lss)

\* Vhdx::open
VhdxOpen(f) ==
    LET r == Regions(f)
        m == SectorAt(f, r.metadata)
        table == SectorAt(f, r.bat)
    IN  IF /\ BestHeaderOk(SectorAt(f, 1), SectorAt(f, 2))
           /\ RegionsOk(r)
           /\ r.metadata # Hole /\ r.bat # Hole
           /\ MetadataOk(m)
           /\ (ChunkBits * m.lss) \div m.block # 0
           /\ table.tag = "vhdxbat"
        THEN [ok |-> TRUE, kind |-> "vhdx", size |-> m.size, file |-> f,
              block |-> m.block, chunk |-> (ChunkBits * m.lss) \div m.block,
              bat |-> table.bat]
        ELSE NoStore

\* Where payload block b is: one sector bitmap entry follows every chunk.
VhdxLocate(v, b) ==
    LET idx == b + (b \div v.chunk)
    IN  IF idx >= Len(v.bat) THEN Beyond
        ELSE CASE v.bat[idx + 1].state = 6 -> SectorLen * v.bat[idx + 1].at
               [] v.bat[idx + 1].state = 7 -> Beyond
               [] OTHER -> Hole

\* Vhdx::read_at
VhdxReadAt(v, off, len) ==
    LET locate == [b \in 0 .. v.size |-> VhdxLocate(v, b)]
    IN  ReadUnits(v.file, off, len, v.size, v.block, locate)

-----------------------------------------------------------------------------
(* Increment chains.  A directory entry is [stem, num, ext, file]; num is  *)
(* the value of the digits between stem and extension, Hole if there are   *)
(* none or something else stands there.                                    *)

\* Mutant of FindIncrements: the increments stay in directory order.
FindIncrementsUnsorted(stem, ext, entries) ==
    SelectSeq(entries, LAMBDA e : e.stem = stem /\ e.ext = ext /\ e.num \in 0 .. MaxNumber)

\* find_increments: those of the base's stem and extension, sorted by number;
\* sort_by_key is stable, so equal numbers keep the order of read_dir.
FindIncrements(stem, ext, entries) ==
    LET Found == {i \in DOMAIN entries :
                    /\ entries[i].stem = stem /\ entries[i].ext = ext
                    /\ entries[i].num \in 0 .. MaxNumber}
        Before(i, j) == \/ entries[i].num < entries[j].num
                        \/ entries[i].num = entries[j].num /\ i < j
        Rank(i) == Cardinality({j \in Found : Before(j, i)}) + 1
    IN  [r \in 1 .. Cardinality(Found) |-> entries[CHOOSE i \in Found : Rank(i) = r]]

\* ChainedVhd::open: newest first, all of the base's size.
ChainOpen(base, incs) ==
    LET layers == [i \in DOMAIN incs |-> DynamicOpen(incs[Len(incs) + 1 - i].file)]
    IN  IF \A i \in DOMAIN layers : layers[i].ok /\ layers[i].size = base.size
        THEN [ok |-> TRUE, kind |-> "chain", size |-> base.size,
              overlays |-> layers, base |-> base]
        ELSE NoStore

\* Reading a store that is not a chain.
PlainReadAt(v, off, len) ==
    CASE v.kind \in {"raw", "fixed"} -> FlatReadAt(v, off, len)
      [] v.kind = "dynamic" -> DynamicReadAt(v, off, len)
      [] v.kind = "vhdx" -> VhdxReadAt(v, off, len)

\* The first layer that does not pass the sector on, 0 if they all do.
FirstHit(offs) ==
    LET hits == {i \in DOMAIN offs : offs[i] # Hole}
    IN  IF hits = {} THEN 0 ELSE Least(hits)

\* take bytes at pos, all of one sector: from the newest layer whose bit is set,
\* then the newest whose block is allocated, then the base.
ChainPart(c, pos, take) ==
    LET s == pos \div SectorLen
        bitset == [i \in DOMAIN c.overlays |-> SectorOffset(c.overlays[i], s)]
        alloc == [i \in DOMAIN c.overlays |-> BlockSectorOffset(c.overlays[i], s)]
        Phys(offs, i) == UnitPart(c.overlays[i].file, offs[i], pos % SectorLen, take)
    IN  CASE FirstHit(bitset) # 0 -> Phys(bitset, FirstHit(bitset))
          [] FirstHit(bitset) = 0 /\ FirstHit(alloc) # 0 -> Phys(alloc, FirstHit(alloc))
          [] OTHER -> PlainReadAt(c.base, pos, take)

\* ChainedVhd::read_at
ChainReadAt(c, off, len) ==
    LET take == [d \in 0 .. len - 1 |-> TakeAt(off + d, SectorLen, len - d)]
        piece == [d \in 0 .. len - 1 |-> ChainPart(c, off + d, take[d])]
    IN  IF off + len > c.size THEN Err ELSE Fill(len, take, piece)

ReadAt(v, off, len) ==
    IF v.kind = "chain" THEN ChainReadAt(v, off, len) ELSE PlainReadAt(v, off, len)

\* open_backing: the format is told by the first and the last sector.
OpenBacking(stem, ext, f, entries) ==
    LET base == VhdOpen(f)
        incs == FindIncrements(stem, ext, entries)
    IN  CASE SectorAt(f, 0).tag = "vhdxident" -> VhdxOpen(f)
          [] SectorAt(f, 0).tag # "vhdxident" /\ Trailing(f).tag = "footer" ->
                IF ~base.ok \/ incs = <<>> THEN base ELSE ChainOpen(base, incs)
          [] OTHER -> RawOpen(f)

=============================================================================
