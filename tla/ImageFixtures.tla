--------------------------- MODULE ImageFixtures ----------------------------
(***************************************************************************)
(* Image files as other programs write them, after the builders of the     *)
(* repository's own tests (storage/vhd/fixtures.rs, vhdx/fixtures.rs), and *)
(* the history of a CCBoot image: a base disk and, per increment, the      *)
(* sectors the guest wrote while it was the newest one.                    *)
(***************************************************************************)
EXTENDS Images

\* A function of byte addresses as sectors of data, from address lo to hi - 1.
DataSectors(c, lo, hi) ==
    [k \in 1 .. CeilDiv(hi - lo, SectorLen) |->
        [tag |-> "data",
         bytes |-> [j \in 1 .. Least({SectorLen, hi - lo - (k - 1) * SectorLen}) |->
                       c[lo + (k - 1) * SectorLen + j - 1]]]]

VhdFooter(type, size) ==
    [tag |-> "footer", sum |-> TRUE, type |-> type, size |-> size, data |-> 1]

RawFile(c, size) == DataSectors(c, 0, size)

\* fixed_vhd
FixedVhd(c, size) == Append(DataSectors(c, 0, size), VhdFooter("fixed", size))

\* diff_vhd and dynamic_vhd: the blocks of alloc are stored in the order of
\* that sequence with all their sectors, the bits of present are set.
DynamicVhd(c, size, block, alloc, present) ==
    LET n == CeilDiv(size, block * SectorLen)
        bm == CeilDiv(block, BitsPerSector)
        At(b) == IF \E k \in DOMAIN alloc : alloc[k] = b
                 THEN 4 + (bm + block) * ((CHOOSE k \in DOMAIN alloc : alloc[k] = b) - 1)
                 ELSE Hole
        Bitmap(b) == [k \in 1 .. bm |->
            [tag |-> "bitmap",
             bits |-> {j \in 0 .. BitsPerSector - 1 :
                          b * block + (k - 1) * BitsPerSector + j \in present}]]
        Body[k \in 0 .. Len(alloc)] ==
            IF k = 0 THEN <<>>
            ELSE Body[k - 1] \o Bitmap(alloc[k])
                 \o DataSectors(c, alloc[k] * block * SectorLen, (alloc[k] + 1) * block * SectorLen)
    IN  <<VhdFooter("dynamic", size),
          [tag |-> "header", table |-> 3, entries |-> n, block |-> block],
          [tag |-> "pad"],
          [tag |-> "bat", bat |-> [b \in 1 .. n |-> At(b - 1)]]>>
        \o Body[Len(alloc)] \o <<VhdFooter("dynamic", size)>>

VhdxHeader(seq, log) ==
    [tag |-> "vhdxheader", crc |-> TRUE, version |-> 1, log |-> log, seq |-> seq]

VhdxRegions(crc) == [tag |-> "regions", crc |-> crc, metadata |-> 5, bat |-> 6]

\* dynamic_vhdx, with the sector bitmap entries of a disk of more than one
\* chunk: states[b + 1] is the state of block b, h1 and h2 the headers, and
\* crc whether the first region table is intact.
DynamicVhdx(c, size, block, lss, states, h1, h2, crc) ==
    LET n == CeilDiv(size, block)
        chunk == (ChunkBits * lss) \div block
        secs == block \div SectorLen
        Payload(b) == [state |-> states[b + 1], at |-> 7 + b * secs]
        Bat[b \in 0 .. n] ==
            IF b = 0 THEN <<>>
            ELSE Append(Bat[b - 1], Payload(b - 1))
                 \o (IF b % chunk = 0 THEN <<[state |-> 0, at |-> 0]>> ELSE <<>>)
    IN  <<[tag |-> "vhdxident"], h1, h2, VhdxRegions(crc), VhdxRegions(TRUE),
          [tag |-> "metadata", parent |-> FALSE, block |-> block, lss |-> lss, size |-> size],
          [tag |-> "vhdxbat", bat |-> Bat[n]]>>
        \o DataSectors(c, 0, n * block)

\* The bytes of a disk after the guest wrote sectors w in session k.
Written(c, w, k, zero) ==
    [p \in DOMAIN c |->
        IF p \div SectorLen \in w THEN (IF zero THEN 0 ELSE 16 * k + p) ELSE c[p]]

\* The increment of that session: whole blocks with the data current then, the
\* bits of marked set (chain.rs, tests: build_chain).
Increment(c, size, block, w, marked, down) ==
    LET Blocks == {s \div block : s \in w}
        Nth(k) == CHOOSE b \in Blocks :
                     k = Cardinality({x \in Blocks : IF down THEN x >= b ELSE x <= b})
    IN  DynamicVhd(c, size, block, [k \in 1 .. Cardinality(Blocks) |-> Nth(k)], marked)

=============================================================================
