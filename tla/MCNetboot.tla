------------------------------ MODULE MCNetboot ------------------------------
(***************************************************************************)
(* Netboot with a BIOS and a UEFI machine, one of them configured, and     *)
(* configuration files that are good, or bad in one way each.              *)
(***************************************************************************)
EXTENDS Netboot, TLC

\* A MAC has two bytes; MacA ends in a byte that is moved, MacC in one that wraps.
MacA == <<10, 1>>
MacC == <<10, 255>>

MCMachines ==
    {[mac |-> MacA, arch |-> 0, user |-> "iPXE", broadcast |-> TRUE],
     [mac |-> MacC, arch |-> 9, user |-> "4iPXE", broadcast |-> TRUE]}

StrayRequest ==
    [kind |-> "request", malformed |-> FALSE, port |-> 67, type |-> "DISCOVER", xid |-> 1,
     chaddr |-> <<20, 20>>, hlen |-> 2, pxe |-> FALSE, arch |-> None, user |-> "none",
     broadcast |-> TRUE, relayed |-> FALSE, addressed |-> FALSE]

\* A host of another kind; a datagram cut short; a machine with an unsupported
\* firmware; an iPXE without broadcast flag that does not call itself a PXE
\* client, without an address and with one; a UEFI machine behind a relay; a host
\* of another kind that asks the boot server.
MCStrays ==
    {StrayRequest,
     [StrayRequest EXCEPT !.malformed = TRUE],
     [StrayRequest EXCEPT !.chaddr = <<20, 21>>, !.pxe = TRUE, !.arch = 66],
     [StrayRequest EXCEPT !.chaddr = <<20, 22>>, !.user = "iPXE", !.broadcast = FALSE],
     [StrayRequest EXCEPT !.chaddr = <<20, 23>>, !.user = "iPXE", !.broadcast = FALSE, !.addressed = TRUE],
     [StrayRequest EXCEPT !.chaddr = <<20, 24>>, !.pxe = TRUE, !.arch = 7, !.relayed = TRUE],
     [StrayRequest EXCEPT !.port = 4011, !.type = "REQUEST", !.addressed = TRUE]}

Disk(id, type) == [id |-> id, type |-> type, opens |-> TRUE]
BootSection ==
    [http_port |-> 80, iscsi_port |-> 3260, root_is_dir |-> TRUE, url |-> "http",
     bios |-> [name |-> "undionly.kpxe", form |-> "relative"],
     uefi |-> [name |-> "ipxe.efi", form |-> "relative"],
     in_root |-> {"undionly.kpxe", "ipxe.efi"}]
Section(mac, games) ==
    [mac |-> mac, spelling |-> "lower", valid |-> TRUE, system |-> "img", games |-> games, writeback |-> "wb"]

Good1 ==
    [disks |-> <<Disk("img", "image"), Disk("g1", "game"), Disk("wb", "writeback")>>,
     clients |-> <<Section(MacA, <<"g1">>)>>,
     defaults |-> [system |-> "img", games |-> <<>>, writeback |-> "wb"],
     boot |-> BootSection]

CfgFile(cfg) == [readable |-> TRUE, parses |-> TRUE, cfg |-> cfg]

\* One file that starts, and one for every way not to.
MCFiles ==
    {CfgFile(Good1),
     [CfgFile(Good1) EXCEPT !.readable = FALSE],
     [CfgFile(Good1) EXCEPT !.parses = FALSE],
     CfgFile([Good1 EXCEPT !.boot = None]),
     CfgFile([Good1 EXCEPT !.disks[2].opens = FALSE]),
     CfgFile([Good1 EXCEPT !.disks[2].id = "img"]),
     CfgFile([Good1 EXCEPT !.clients[1].games = <<"g1", "g2">>]),
     CfgFile([Good1 EXCEPT !.clients[1].system = "g1"]),
     CfgFile([Good1 EXCEPT !.clients[1].valid = FALSE]),
     CfgFile([Good1 EXCEPT !.clients = @ \o @]),
     CfgFile([Good1 EXCEPT !.defaults.writeback = "none"]),
     CfgFile([Good1 EXCEPT !.boot.http_port = 0]),
     CfgFile([Good1 EXCEPT !.boot.iscsi_port = 0]),
     CfgFile([Good1 EXCEPT !.boot.root_is_dir = FALSE]),
     CfgFile([Good1 EXCEPT !.boot.bios.form = "dots"]),
     CfgFile([Good1 EXCEPT !.boot.uefi.form = "empty"]),
     CfgFile([Good1 EXCEPT !.boot.url = "other"]),
     CfgFile([Good1 EXCEPT !.boot.url = "empty"])}

=============================================================================
