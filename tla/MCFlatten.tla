------------------------------ MODULE MCFlatten -----------------------------
(***************************************************************************)
(* Instances of Flatten: disks of four sectors of two bytes, VHD blocks of *)
(* two sectors, up to two increments; raw and VHDX inputs; damaged files.  *)
(***************************************************************************)
EXTENDS Flatten, ImageFixtures

Secs == 0 .. 3
Blank == [p \in 0 .. 7 |-> 0]

Source(f, entries, known, view) ==
    [stem |-> "c", ext |-> "vhd", file |-> f, entries |-> entries,
     known |-> known, view |-> view]

Entry(num, f) == [stem |-> "c", num |-> num, ext |-> "vhd", file |-> f]

\* Files next to the base that are not its increments.
Strays == {[stem |-> "c", num |-> Hole, ext |-> "vhd", file |-> <<>>],
           [stem |-> "d", num |-> 1, ext |-> "vhd", file |-> <<>>]}

\* The base disk: sectors 0, 1 and 3 hold data, block 1 is partly zero.  In the
\* dynamic ones the bit of sector 2 is clear and old bytes are in its place.
BaseView == [p \in 0 .. 7 |-> IF p \div 2 = 2 THEN 0 ELSE p + 1]
Full == [p \in 0 .. 7 |-> p + 1]

Bases == {FixedVhd(BaseView, 8),
          DynamicVhd(Full, 8, 2, <<1, 0>>, Secs \ {2}),
          DynamicVhd(Full, 8, 4, <<0>>, Secs \ {2})}

Sessions == {[w |-> w, zero |-> z] : w \in (SUBSET Secs) \ {{}}, z \in BOOLEAN}

\* One or two increments over a base; unmarked is the set of sectors whose bit
\* the writer leaves clear.
Chain(base, h1, h2, unmarked) ==
    LET v1 == Written(BaseView, h1.w, 1, h1.zero)
        v2 == Written(v1, h2.w, 2, h2.zero)
        f1 == Increment(v1, 8, 2, h1.w, h1.w, TRUE)
        f2 == Increment(v2, 8, 2, h2.w, h2.w \ unmarked, FALSE)
    IN  Source(base, {Entry(2, f1), Entry(10, f2)}, TRUE, v2)

Chains ==
    {Chain(b, h1, h2, {}) : b \in Bases, h1 \in {h \in Sessions : ~h.zero}, h2 \in Sessions}

\* A writer that marks only some of the sectors it wrote, one increment.
OneUnmarked ==
    {LET v == Written(BaseView, w, 1, FALSE)
     IN  Source(b, {Entry(1, Increment(v, 8, 2, w, {}, FALSE))} \cup Strays, TRUE, v) :
        b \in Bases, w \in (SUBSET Secs) \ {{}}}

\* Two increments that share a block, where the newer leaves the bits of sectors
\* clear that the older has not marked.  (A sector that the older has marked is
\* read from the older, though the newer has written it: see the README.)
TwoUnmarked ==
    {Chain(b, [w |-> w, zero |-> FALSE], [w |-> Secs, zero |-> FALSE], Secs \ w) :
        b \in Bases, w \in (SUBSET Secs) \ {{}}}

Plain ==
    {Source(b, {}, TRUE, BaseView) : b \in Bases}
    \cup {Source(RawFile(BaseView, n), Strays, TRUE, [p \in 0 .. n - 1 |-> BaseView[p]]) :
            n \in {0, 1, 2, 7, 8}}
    \cup {Source(RawFile(Blank, 7), {}, TRUE, [p \in 0 .. 6 |-> 0])}

\* VHDX: three blocks, so that a sector bitmap entry stands before the third.
VhdxView(states) ==
    [p \in 0 .. 11 |-> IF states[(p \div 4) + 1] = 6 THEN p + 1 ELSE 0]

Vhdx(states, h1, h2, crc, known) ==
    Source(DynamicVhdx([p \in 0 .. 11 |-> p + 1], 12, 4, 2, states, h1, h2, crc), {},
           known, VhdxView(states))

Clean == VhdxHeader(1, FALSE)
Newer == VhdxHeader(2, FALSE)
Cut(h) == [h EXCEPT !.crc = FALSE]

\* Whole, with a damaged first region table, and cut off in the middle of an
\* update of one of the headers, the newer one or the older.
Vhdxs ==
    {Vhdx(st, Clean, Newer, crc, TRUE) : st \in [1 .. 3 -> {0, 2, 6}], crc \in BOOLEAN}
    \cup {Vhdx(<<6, 2, 6>>, h[1], h[2], crc, TRUE) :
            h \in {<<Clean, Cut(Newer)>>, <<Cut(Newer), Clean>>, <<Cut(Clean), Newer>>},
            crc \in BOOLEAN}

Dirty == Vhdx([b \in 1 .. 3 |-> 6], Clean, VhdxHeader(2, TRUE), TRUE, FALSE)

\* Damaged files: a wrong checksum, a differencing disk, a block size that is
\* no power of two, a BAT that is too short, an increment of another size, one
\* that is not dynamic, a block in state "partially present", no headers.
DropLast(f) == SubSeq(f, 1, Len(f) - 1)
Damaged ==
    LET base == DynamicVhd(Full, 8, 2, <<1, 0>>, Secs)
        Bad(f) == Source(f, {}, FALSE, BaseView)
        With(e) == Source(base, {Entry(1, e)}, FALSE, BaseView)
    IN  {Bad(Append(DropLast(base), [VhdFooter("dynamic", 8) EXCEPT !.sum = FALSE])),
         Bad(Append(DropLast(base), VhdFooter("diff", 8))),
         Bad(Append(DropLast(base), VhdFooter("dynamic", 16))),
         Bad([base EXCEPT ![2].block = 3]),
         Bad([base EXCEPT ![4].bat[2] = 99]),
         With(DynamicVhd(BaseView, 4, 2, <<0>>, Secs)),
         With(FixedVhd(BaseView, 8)),
         Vhdx(<<6, 7, 6>>, Clean, Clean, TRUE, FALSE),
         Vhdx(<<6, 6, 6>>, VhdxHeader(1, TRUE), VhdxHeader(2, TRUE), TRUE, FALSE),
         Vhdx(<<6, 6, 6>>, Cut(Clean), Cut(Newer), TRUE, FALSE),
         Dirty}

MCSources == Chains \cup OneUnmarked \cup TwoUnmarked \cup Plain \cup Vhdxs \cup Damaged

MCOldFile == RawFile(Blank, 2)

\* The hypothesis of the theorems about the output holds of this configuration.
ASSUME MCAssumption == SourcesFit

=============================================================================
