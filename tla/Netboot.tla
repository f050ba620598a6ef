------------------------------- MODULE Netboot -------------------------------
(***************************************************************************)
(* A machine boots from the network: the proxyDHCP service of the running  *)
(* program (Program, ProxyDhcp) with a PXE client over UDP.  The firmware  *)
(* asks for a boot file, loads it by TFTP (TftpTransfer is about that), it *)
(* is iPXE and asks again, and fetches the script that names its target by *)
(* HTTP (BootRegistry goes on from there).  Others use the network too.    *)
(*                                                                         *)
(* The machine is not part of the repository; it is modelled from the PXE  *)
(* specification as far as the server relies on it.  Datagrams are lost,   *)
(* delayed and overtake each other; a request that is sent again while its *)
(* answer is on its way makes a second answer.                             *)
(***************************************************************************)
EXTENDS Program, ProxyDhcp

CONSTANTS
    Machines,   \* PXE clients: [mac, arch, user, broadcast]
    Strays,     \* requests of other hosts on the network
    MaxOwn,     \* bound: datagrams of the machine on their way
    MaxXid      \* bound: DHCP exchanges of the machine

\* The binaries are iPXE, which names itself in its user class, with or without
\* the length byte of RFC 3004.
ASSUME MachinesAssumption ==
    \A m \in Machines : /\ m.mac \in Seq(0 .. Byte - 1) /\ m.mac # <<>>
                        /\ m.user \in {"iPXE", "4iPXE"}

\* Hardware addresses are unique.
ASSUME StraysAssumption ==
    \A d \in Strays : d.kind = "request" /\ \A m \in Machines : d.chaddr # m.mac

VARIABLES
    who,    \* the machine
    pc,     \* its state: stage, step, xid, addr, boot file, binaries loaded
    net     \* datagrams on their way

vars == <<progVars, who, pc, net>>
machVars == <<who, pc, net>>

boot == file.cfg.boot

-----------------------------------------------------------------------------
(* The DHCP service: listener_loop *)

\* The replies to a request that reach the network: one that goes back to where
\* the request came from is lost if that is 0.0.0.0, a host without an address.
Sent(d) == {r \in HandleDatagram(d, boot) : r.dest = "sender" => d.addressed}

\* A datagram is received, decided on and answered.
Serve(d) ==
    /\ svc["dhcp"] = "serving" /\ d \in net /\ d.kind = "request"
    /\ net' = (net \ {d}) \cup Sent(d)
    /\ UNCHANGED <<progVars, who, pc>>

Foreign == {d \in net : d.chaddr # who.mac}

\* So is one of another host; one answer to others is on its way at a time.
ServeStray ==
    /\ svc["dhcp"] = "serving" /\ Foreign = {}
    /\ \E d \in Strays : net' = net \cup Sent(d)
    /\ UNCHANGED <<progVars, who, pc>>

\* send_to fails: listener_loop returns the error, and the service ends.
SendError ==
    /\ svc["dhcp"] = "serving"
    /\ \E d \in {r \in net : r.kind = "request"} \cup Strays :
          HandleDatagram(d, boot) # {} /\ net' = net \ {d}
    /\ SetService("dhcp", "ended")
    /\ UNCHANGED <<who, pc>>

-----------------------------------------------------------------------------
(* The network *)

Lose == \E d \in net : net' = net \ {d} /\ UNCHANGED <<progVars, who, pc>>

-----------------------------------------------------------------------------
(* The machine *)

Off == [stage |-> "off", step |-> "none", xid |-> 0, addr |-> None, bootfile |-> None, loads |-> <<>>]

NetbootInit ==
    /\ ProgramInit
    /\ who \in Machines
    /\ pc = Off /\ net = {}

PowerOn ==
    /\ pc.stage = "off" /\ pc.xid < MaxXid
    /\ pc' = [pc EXCEPT !.stage = "rom", !.step = "discover", !.xid = @ + 1]
    /\ UNCHANGED <<progVars, who, net>>

\* The machine is switched off at any time.  Transaction numbers are not used
\* again.
PowerOff ==
    /\ pc.stage # "off"
    /\ pc' = [Off EXCEPT !.xid = pc.xid]
    /\ UNCHANGED <<progVars, who, net>>

Own == {d \in net : d.chaddr = who.mac}

\* Only what the firmware asks the boot server comes from the address that it
\* was offered.
Request(port, type) ==
    [kind |-> "request", malformed |-> FALSE, port |-> port, type |-> type, xid |-> pc.xid,
     chaddr |-> who.mac, hlen |-> Len(who.mac), pxe |-> TRUE, arch |-> who.arch,
     user |-> IF pc.stage = "ipxe" THEN who.user ELSE "none",
     broadcast |-> who.broadcast, relayed |-> FALSE,
     addressed |-> port = 4011 /\ pc.addr # None]

Send(d) ==
    /\ Cardinality(Own) < MaxOwn
    /\ net' = net \cup {d}
    /\ UNCHANGED <<progVars, who, pc>>

Discover == pc.step = "discover" /\ Send(Request(67, "DISCOVER"))

\* The request goes to the server that offered or, by the firmware, to the
\* boot server that the offer names.
AskBoot ==
    /\ pc.step = "request"
    /\ \/ Send(Request(67, "REQUEST"))
       \/ pc.stage = "rom" /\ Send(Request(4011, "REQUEST"))

Answers(r, type) ==
    /\ r \in net /\ r.kind = "reply" /\ r.type = type
    /\ r.chaddr = who.mac /\ r.xid = pc.xid /\ r.bootfile # Silence

TakeOffer(r) ==
    /\ pc.step = "discover" /\ Answers(r, "OFFER")
    /\ pc' = [pc EXCEPT !.step = "request", !.addr = r.yiaddr]
    /\ net' = net \ {r}
    /\ UNCHANGED <<progVars, who>>

TakeAck(r) ==
    /\ pc.step = "request" /\ Answers(r, "ACK")
    /\ pc' = [pc EXCEPT !.step = "load", !.bootfile = r.bootfile,
                        !.addr = IF r.yiaddr = Silence THEN @ ELSE r.yiaddr]
    /\ net' = net \ {r}
    /\ UNCHANGED <<progVars, who>>

\* A reply that answers nothing the machine is waiting for.
Ignore(r) ==
    /\ r \in Own /\ r.kind = "reply"
    /\ ~(pc.step = "discover" /\ Answers(r, "OFFER"))
    /\ ~(pc.step = "request" /\ Answers(r, "ACK"))
    /\ net' = net \ {r}
    /\ UNCHANGED <<progVars, who, pc>>

\* A boot file by TFTP: iPXE, which starts DHCP anew.
LoadBinary ==
    /\ pc.step = "load" /\ "file" \in DOMAIN pc.bootfile
    /\ svc["tftp"] = "serving" /\ pc.bootfile.file \in boot.in_root
    /\ pc.xid < MaxXid
    /\ pc' = [pc EXCEPT !.stage = "ipxe", !.step = "discover", !.xid = @ + 1,
                        !.bootfile = None, !.loads = Append(@, pc.bootfile.file)]
    /\ UNCHANGED <<progVars, who, net>>

\* The script by HTTP; handle answers 404 if the MAC resolves to no client.
FetchScript ==
    /\ pc.step = "load" /\ pc.stage = "ipxe" /\ "script" \in DOMAIN pc.bootfile
    /\ svc["http"] = "serving" /\ ResolveMac(file.cfg, pc.bootfile.script) # None
    /\ pc' = [pc EXCEPT !.stage = "sanboot", !.step = "none"]
    /\ UNCHANGED <<progVars, who, net>>

-----------------------------------------------------------------------------

Machine ==
    \/ PowerOn \/ PowerOff \/ Discover \/ AskBoot \/ LoadBinary \/ FetchScript
    \/ \E r \in net : TakeOffer(r) \/ TakeAck(r) \/ Ignore(r)

\* The model ends with the program.
Next ==
    /\ phase # "exited"
    /\ \/ ProgramNext /\ UNCHANGED machVars
       \/ \E d \in net : Serve(d)
       \/ ServeStray \/ SendError
       \/ Lose
       \/ Machine

\* What the machine waits for an answer to.
Wanted == IF pc.step = "discover" THEN "DISCOVER" ELSE "REQUEST"

\* Main and the services are scheduled.  The network is fair-lossy: a datagram
\* that is sent again and again is received at last.  The machine, while it is
\* on, repeats its requests and goes on when it has its answer.
Fairness ==
    /\ WF_vars((Load \/ Start \/ Exit) /\ UNCHANGED machVars)
    /\ WF_vars((\E s \in Services : Bind(s) \/ Cancelled(s)) /\ UNCHANGED machVars)
    /\ SF_vars(\E d \in Own : d.kind = "request" /\ d.type = Wanted /\ d.xid = pc.xid /\ Serve(d))
    /\ WF_vars(\E d \in Own : Serve(d))
    /\ SF_vars(\E r \in net : TakeOffer(r) \/ TakeAck(r))
    /\ WF_vars(\E r \in net : Ignore(r))
    /\ WF_vars(Discover \/ AskBoot \/ LoadBinary \/ FetchScript)

Spec == NetbootInit /\ [][Next]_vars /\ Fairness

-----------------------------------------------------------------------------
(* Properties *)

\* Once main() has started its services, every disk that a client section or
\* the defaults name is open: validate, ClientManager::new and get_store agree,
\* and handle leaves out no LUN, which would renumber those behind it.
DisksOpen ==
    phase = "running" =>
        \A mac \in {file.cfg.clients[i].mac : i \in DOMAIN file.cfg.clients} \cup {who.mac} :
            LET p == ResolveMac(file.cfg, mac)
            IN  p # None => /\ p.system \in stores
                            /\ \A i \in DOMAIN p.games : p.games[i] \in stores

\* The chainload loop is broken: from power-on a machine loads one binary, the
\* one for its firmware, and then its own script, whatever late answers to the
\* firmware are still on their way when iPXE asks.
ChainloadEnds ==
    /\ Len(pc.loads) <= 1
    /\ \A i \in DOMAIN pc.loads :
          pc.loads[i] = IF who.arch = 0 THEN boot.bios.name ELSE boot.uefi.name
    /\ pc.stage = "ipxe" /\ pc.step = "load" => "script" \in DOMAIN pc.bootfile
    /\ pc.stage = "sanboot" => pc.bootfile = [script |-> who.mac]

\* The server stays out of the way of the network's DHCP: a host that is no PXE
\* client and names neither an architecture nor a user class, or whose datagram
\* cannot be parsed, is never answered on either port.
OthersLeftAlone ==
    \A r \in net : r.kind = "reply" =>
        \E d \in Strays \cup {Request(67, "DISCOVER")} :
            /\ d.chaddr = r.chaddr /\ ~d.malformed
            /\ d.pxe \/ d.user # "none" \/ d.arch # None

\* SIGINT, or the end of any one service, ends the program: it never goes on
\* without one of its services.
NeverHalfServing ==
    [](phase = "running" /\ (token \/ \E s \in Services : svc[s] = "ended") => <>(phase = "exited"))

Bootable ==
    /\ who.broadcast
    /\ phase = "running" /\ ByArch(boot, who.arch) \subseteq boot.in_root
    /\ ResolveMac(file.cfg, who.mac) # None

\* A machine that is on, and stays on, reaches its script as long as the program
\* runs, over a network that loses datagrams.
BootReachesScript ==
    [](Bootable /\ pc.stage = "rom" /\ pc.xid < MaxXid =>
        <>(pc.stage \in {"sanboot", "off"} \/ phase = "exited"))

=============================================================================
