---------------------------- MODULE MCScsiTarget ----------------------------
(***************************************************************************)
(* ScsiTarget with blocks of two bytes and 32-bit fields of four values.   *)
(***************************************************************************)
EXTENDS ScsiTarget

\* Two machines: the system disk has more blocks than 32 bits can number and a
\* short tail, or exactly as many; the games disk is small.
MCClients == {<<11, 4>>, <<8, 2>>}

\* Within the first blocks, over their end, at the ends of the disks, across
\* them, at the limit of the 64-bit block number, and empty.
MCRanges == {<<0, 1>>, <<0, 2>>, <<1, 1>>, <<3, 2>>, <<4, 1>>, <<4, 2>>, <<15, 2>>, <<1, 0>>}

=============================================================================
