--------------------------- MODULE MCIscsiSession ----------------------------
(***************************************************************************)
(* IscsiSession on a disk of three cells, with two task tags.              *)
(***************************************************************************)
EXTENDS IscsiSession

CONSTANTS i1, i2, iqn

MCItts == {i1, i2}

MCNames == {iqn}

MCMaster == [l \in Lbas |-> 0]

\* The whole disk, which takes two bursts, and its two parts.
MCRanges == {[lba |-> 0, n |-> 3], [lba |-> 0, n |-> 1], [lba |-> 1, n |-> 2]}

\* One write of four cells.
MCWholeDisk == {[lba |-> 0, n |-> 4]}

MCNoRequests == {}

=============================================================================
