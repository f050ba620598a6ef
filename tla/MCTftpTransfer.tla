--------------------------- MODULE MCTftpTransfer ----------------------------
(***************************************************************************)
(* TftpTransfer with two sockets for transfers.                            *)
(***************************************************************************)
EXTENDS TftpTransfer, TLC

CONSTANTS t1, t2

MCTids == {t1, t2}

Symmetry == Permutations(MCTids)

MCLookup ==
    [n \in {"ipxe", "up", "link", "none", "dir", "lost"} |->
        CASE n = "ipxe" -> "file" [] n = "up" -> "unsafe" [] n = "link" -> "outside"
          [] n = "none" -> "missing" [] n = "dir" -> "unreadable" [] n = "lost" -> "noroot"]

Rrq(name, opts) == [op |-> "rrq", tid |-> None, name |-> name, opts |-> opts]

Opt(key, val) == [key |-> key, val |-> val]

MCPlain == {Rrq("ipxe", <<>>)}

\* A size alone, a block size the server lowers, and one that is too small
\* before one that is not.
MCOptions ==
    {Rrq("ipxe", <<Opt("tsize", 0)>>),
     Rrq("ipxe", <<Opt("tsize", 0), Opt("blksize", 5)>>),
     Rrq("ipxe", <<Opt("blksize", 0), Opt("blksize", 2)>>)}

MCSome == MCPlain \cup {Rrq("ipxe", <<Opt("blksize", 5)>>)}

MCAll ==
    MCPlain \cup MCOptions \cup {Rrq(n, <<>>) : n \in DOMAIN MCLookup \ {"ipxe"}}
        \cup {[op |-> "wrq", tid |-> None, name |-> "ipxe", opts |-> <<>>]}

=============================================================================
