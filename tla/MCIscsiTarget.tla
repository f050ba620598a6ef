---------------------------- MODULE MCIscsiTarget ----------------------------
(***************************************************************************)
(* IscsiTarget against any peer: requests in every order, well-formed or   *)
(* not, on a disk of two cells.                                            *)
(***************************************************************************)
EXTENDS IscsiTarget

CONSTANTS i1, i2, good, bad

MCItts == {i1, i2}

MCNames == {good, bad}

MCRegistered == {good}

MCMaster == [l \in Lbas |-> 0]

Login(name, transit, csg, nsg, burst) ==
    [op |-> "login", cmd_sn |-> 1, exp_stat_sn |-> 1, name |-> name, transit |-> transit,
     csg |-> csg, nsg |-> nsg, burst |-> burst, segment |-> None]

Write(itt, n, data) ==
    [op |-> "scsi", itt |-> itt, read |-> FALSE, write |-> TRUE, cdb |-> "write",
     lba |-> 0, blocks |-> n, edtl |-> n, data |-> data]

Command(cdb, read, write, blocks, edtl, data) ==
    [op |-> "scsi", itt |-> i1, read |-> read, write |-> write, cdb |-> cdb,
     lba |-> 0, blocks |-> blocks, edtl |-> edtl, data |-> data]

\* Logins: the staged and the collapsed walk, with a known, an unknown and no
\* name, with an offer of MaxBurstLength and without.
MCLogins ==
    {Login(name, transit, csg, nsg, burst) :
        name \in {good, bad, None}, transit \in BOOLEAN, csg \in {0, 1}, nsg \in {1, 3},
        burst \in {0, 1, None}}

MCCommands ==
    {Write(itt, n, data) : itt \in MCItts, n \in 1 .. 2, data \in {<<>>, <<1>>, <<1, 1>>}}
        \cup {Command("read", TRUE, FALSE, n, n, <<>>) : n \in 0 .. 3}
        \cup {Command(cdb, TRUE, FALSE, 1, 1, <<>>) : cdb \in {"ready", "inquiry", "unsupported"}}
        \cup {Command("read", TRUE, TRUE, 1, 1, <<1>>), Command("write", FALSE, FALSE, 1, 1, <<1>>),
              Command("write", FALSE, TRUE, 0, 0, <<>>)}

MCDataOuts ==
    [op : {"dataout"}, itt : MCItts, off : 0 .. 1, data : {<<>>, <<1>>, <<1, 1>>}]

MCOthers ==
    [op : {"nop", "text", "tmf", "logout", "unsupported", "malformed"}, itt : {i1}]

MCRequests == MCLogins \cup MCCommands \cup MCDataOuts \cup MCOthers

=============================================================================
