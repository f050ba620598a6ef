---------------------------- MODULE NetbootProofs ----------------------------
(***************************************************************************)
(* Proofs about Netboot, for every configuration file, every machine and   *)
(* everybody else on the network, any number of datagrams under way and    *)
(* any number of boots: the disks of the clients are open, the chainload   *)
(* ends and other hosts are left alone.                                    *)
(***************************************************************************)
EXTENDS Netboot, TLAPS, SequenceTheorems, WellFoundedInduction

-----------------------------------------------------------------------------
(* The configuration *)

\* A non-empty set of positions has a last one.
LEMMA LastExists ==
    ASSUME NEW n \in Nat, NEW S \in SUBSET (1 .. n), S # {}
    PROVE  \E i \in S : \A j \in S : j <= i
  <1> DEFINE T == {k \in Nat : \E i \in S : k = n - i}
  <1>1. \A i \in S : n - i \in T
    OBVIOUS
  <1>2. PICK x \in T : \A y \in T : ~ (<<y, x>> \in OpToRel(<, Nat))
    <2>1. T \subseteq Nat
      OBVIOUS
    <2>2. T # {}
      BY <1>1
    <2> QED
      BY <2>1, <2>2, NatLessThanWellFounded, WFMin, Zenon
  <1> HIDE DEF T
  <1>3. \A y \in T : ~ (y < x)
    BY <1>2 DEF OpToRel, T
  <1>4. PICK i \in S : x = n - i
    BY DEF T
  <1>5. \A j \in S : ~ (n - j < n - i)
    BY <1>1, <1>3, <1>4
  <1>6. \A j \in S : j \in Int /\ i \in Int
    OBVIOUS
  <1> QED
    BY <1>5, <1>6

\* A reference that validate accepts as an image or a game is to a disk that
\* ClientManager::new opens.
LEMMA RefOpens ==
    ASSUME NEW f \in Files, NEW ref, NEW type \in {"image", "game"},
           CheckRef(f.cfg, ref, type) = {}
    PROVE  ref \in OpenStores(f.cfg)
  <1> DEFINE cfg == f.cfg
             S == {i \in DOMAIN cfg.disks : cfg.disks[i].id = ref}
  <1>1. Len(cfg.disks) \in Nat /\ DOMAIN cfg.disks = 1 .. Len(cfg.disks)
    BY FilesAssumption
  <1> HIDE DEF cfg
  <1>2. ref \in Ids(cfg) /\ DiskOf(cfg, ref).type = type
    BY DEF CheckRef, cfg
  <1>3. S # {} /\ S \in SUBSET (1 .. Len(cfg.disks))
    BY <1>1, <1>2 DEF Ids
  <1>4. \E i \in S : \A j \in S : j <= i
    BY <1>1, <1>3, LastExists
  <1>5. PICK i \in DOMAIN cfg.disks :
            /\ i = CHOOSE k \in DOMAIN cfg.disks :
                      /\ cfg.disks[k].id = ref
                      /\ \A j \in DOMAIN cfg.disks : cfg.disks[j].id = ref => j <= k
            /\ cfg.disks[i].id = ref
    <2>1. \E k \in DOMAIN cfg.disks :
              /\ cfg.disks[k].id = ref
              /\ \A j \in DOMAIN cfg.disks : cfg.disks[j].id = ref => j <= k
      BY <1>4
    <2> QED
      BY <2>1
  <1>6. cfg.disks[i].type = type
    BY <1>2, <1>5 DEF DiskOf
  <1> QED
    BY <1>5, <1>6 DEF OpenStores, Backed, cfg

LEMMA ProfileOpens ==
    ASSUME NEW f \in Files, NEW p, CheckProfile(f.cfg, p) = {}
    PROVE  /\ p.system \in OpenStores(f.cfg)
           /\ \A i \in DOMAIN p.games : p.games[i] \in OpenStores(f.cfg)
  <1>1. CheckRef(f.cfg, p.system, "image") = {}
    BY DEF CheckProfile
  <1>2. \A i \in DOMAIN p.games : CheckRef(f.cfg, p.games[i], "game") = {}
    BY DEF CheckProfile
  <1> QED
    BY <1>1, <1>2, RefOpens

\* What ClientManager::resolve finds in a configuration that was validated.
LEMMA ResolvedOpens ==
    ASSUME NEW f \in Files, Validate(f.cfg) = {}, NEW mac, ResolveMac(f.cfg, mac) # None
    PROVE  /\ ResolveMac(f.cfg, mac).system \in OpenStores(f.cfg)
           /\ \A i \in DOMAIN ResolveMac(f.cfg, mac).games :
                 ResolveMac(f.cfg, mac).games[i] \in OpenStores(f.cfg)
  <1> DEFINE cfg == f.cfg
             mine == {i \in DOMAIN cfg.clients : cfg.clients[i].mac = mac}
  <1>1. Len(cfg.clients) \in Nat /\ DOMAIN cfg.clients = 1 .. Len(cfg.clients)
    BY FilesAssumption
  <1>2. CheckProfile(cfg, ResolveMac(cfg, mac)) = {}
    <2>1. CASE mine # {}
      <3>1. \E i \in mine : \A j \in mine : j <= i
        BY <1>1, <2>1, LastExists
      <3>2. PICK i \in mine : i = CHOOSE k \in mine : \A j \in mine : j <= k
        BY <3>1
      <3>3. ResolveMac(cfg, mac) = cfg.clients[i] /\ i \in DOMAIN cfg.clients
        BY <2>1, <3>2 DEF ResolveMac
      <3>4. CheckProfile(cfg, cfg.clients[i]) \subseteq Validate(cfg)
        BY <3>3 DEF Validate
      <3> QED
        BY <3>3, <3>4
    <2>2. CASE mine = {}
      <3>1. ResolveMac(cfg, mac) = cfg.defaults
        BY <2>2 DEF ResolveMac
      <3>2. cfg.defaults # None => CheckProfile(cfg, cfg.defaults) \subseteq Validate(cfg)
        BY DEF Validate
      <3> QED
        BY <3>1, <3>2
    <2> QED
      BY <2>1, <2>2
  <1> HIDE DEF cfg
  <1>3. PICK p : p = ResolveMac(f.cfg, mac)
    OBVIOUS
  <1>4. CheckProfile(f.cfg, p) = {}
    BY <1>2, <1>3 DEF cfg
  <1> QED
    BY <1>3, <1>4, ProfileOpens

-----------------------------------------------------------------------------
(* The invariant *)

\* The program serves only what it has validated and opened.
ProgramInv ==
    /\ file \in Files
    /\ phase \in {"loaded", "running"} => ~LoadFails
    /\ phase = "running" => stores = OpenStores(file.cfg)

Binaries == ByArch(boot, who.arch)
Script == [script |-> who.mac]
Binary(bf) == \E f \in Binaries : bf = [file |-> f]

\* What the machine holds, stage by stage.
PcType ==
    [stage : {"off", "rom", "ipxe", "sanboot"},
     step : {"none", "discover", "request", "load"},
     xid : Nat,
     addr : {None, AssignIp(who.mac)},
     bootfile : {None, Script} \cup {[file |-> f] : f \in Binaries},
     loads : {<<>>} \cup {<<f>> : f \in Binaries}]

PcInv ==
    /\ who \in Machines
    /\ pc \in PcType
    /\ pc.step # "none" => pc.stage \in {"rom", "ipxe"}
    /\ pc.stage \in {"off", "rom"} => pc.loads = <<>>
    /\ pc.stage = "rom" /\ pc.step = "load" => Binary(pc.bootfile)
    /\ pc.stage = "ipxe" /\ pc.step = "load" => pc.bootfile = Script
    /\ pc.stage = "sanboot" => pc.bootfile = Script

\* A request of the machine; the user class of the current exchange is that of
\* the program that runs.
OwnRequest(d) ==
    /\ d.kind = "request" /\ d.malformed = FALSE /\ d.pxe = TRUE
    /\ d.chaddr = who.mac /\ d.hlen = Len(who.mac) /\ d.arch = who.arch
    /\ d.xid \in Nat /\ d.xid <= pc.xid
    /\ d.xid = pc.xid /\ pc.stage = "rom" => d.user = "none"
    /\ d.xid = pc.xid /\ pc.stage = "ipxe" => d.user = who.user

\* An answer to it: a late one to the firmware has an older number.
OwnReply(r) ==
    /\ r.kind = "reply" /\ r.chaddr = who.mac
    /\ r.yiaddr \in {Silence, AssignIp(who.mac)}
    /\ r.type = "OFFER" => r.yiaddr = AssignIp(who.mac)
    /\ r.xid \in Nat /\ r.xid <= pc.xid
    /\ r.xid = pc.xid /\ pc.stage = "rom" => Binary(r.bootfile)
    /\ r.xid = pc.xid /\ pc.stage = "ipxe" => r.bootfile = Script

\* An answer to another host, that asked as somebody who boots.
StrayReply(r) ==
    /\ r.kind = "reply" /\ r.chaddr # who.mac
    /\ \E d \in Strays : /\ d.chaddr = r.chaddr /\ ~d.malformed
                         /\ d.pxe \/ d.user # "none" \/ d.arch # None

NetInv == \A d \in net : OwnRequest(d) \/ OwnReply(d) \/ StrayReply(d)

NetbootInv == ProgramInv /\ PcInv /\ NetInv

-----------------------------------------------------------------------------
(* The decisions of the DHCP service *)

\* The hardware address of a whole request.
LEMMA LeadingWhole ==
    ASSUME NEW m \in Machines, NEW d, d.chaddr = m.mac, d.hlen = Len(m.mac)
    PROVE  Leading(d) = m.mac
  <1>1. m.mac \in Seq(0 .. Byte - 1)
    BY MachinesAssumption
  <1>2. SubSeq(m.mac, 1, Len(m.mac)) = m.mac
    BY <1>1
  <1>3. ~(Len(m.mac) < Len(m.mac))
    BY <1>1
  <1> QED
    BY <1>2, <1>3 DEF Leading

\* What plan promises.
LEMMA PlanFacts ==
    ASSUME NEW d, NEW b, NEW p \in Plan(d, b)
    PROVE  /\ p.yiaddr = AssignIp(Leading(d))
           /\ IsIpxe(d) => p.bootfile = [script |-> Leading(d)]
           /\ ~IsIpxe(d) => \E f \in ByArch(b, d.arch) : p.bootfile = [file |-> f]
  BY DEF Plan, Offer

\* What handle_datagram copies from the request and takes from the plan.
LEMMA ReplyFacts ==
    ASSUME NEW d, NEW b, NEW r \in HandleDatagram(d, b)
    PROVE  /\ ~d.malformed
           /\ r.kind = "reply" /\ r.xid = d.xid /\ r.chaddr = d.chaddr
           /\ \E p \in Plan(d, b) :
                 /\ d.pxe => r.bootfile = p.bootfile
                 /\ r.yiaddr \in {Silence, p.yiaddr}
                 /\ r.type = "OFFER" => r.yiaddr = p.yiaddr
  <1>1. ~d.malformed
    BY DEF HandleDatagram
  <1>2. PICK p \in Plan(d, b), t \in {"OFFER", "ACK"}, role \in {Role67(d), "BootServer"},
                dest \in {ReplyDest(d), "everyone"} :
            /\ t = "OFFER" => role = Role67(d)
            /\ r = BuildReply(d, p, t, role, dest)
    <2>1. CASE d.port = 67 /\ d.type = "DISCOVER"
      <3>1. r \in {BuildReply(d, p, "OFFER", Role67(d), ReplyDest(d)) : p \in Plan(d, b)}
        BY <1>1, <2>1 DEF HandleDatagram
      <3> QED
        BY <3>1
    <2>2. CASE d.port = 67 /\ d.type = "REQUEST"
      <3>1. r \in {BuildReply(d, p, "ACK", Role67(d), ReplyDest(d)) : p \in Plan(d, b)}
        BY <1>1, <2>2 DEF HandleDatagram
      <3> QED
        BY <3>1
    <2>3. CASE d.port = 4011 /\ d.type = "REQUEST"
      <3>1. r \in {BuildReply(d, p, "ACK", "BootServer", "everyone") : p \in Plan(d, b)}
        BY <1>1, <2>3 DEF HandleDatagram
      <3> QED
        BY <3>1
    <2> QED
      BY <1>1, <2>1, <2>2, <2>3 DEF HandleDatagram
  <1>3. Role67(d) \in {"ProxyDhcp", "Dhcp"} /\ (d.pxe => Role67(d) = "ProxyDhcp")
    BY DEF Role67
  <1>4. r.kind = "reply" /\ r.xid = d.xid /\ r.chaddr = d.chaddr /\ r.type = t
    BY <1>2 DEF BuildReply
  <1>5. /\ d.pxe => r.bootfile = p.bootfile
        /\ r.yiaddr \in {Silence, p.yiaddr}
        /\ t = "OFFER" => r.yiaddr = p.yiaddr
    BY <1>2, <1>3 DEF BuildReply
  <1> QED
    BY <1>1, <1>4, <1>5

\* The answer to a request of the machine is one it may act on.
LEMMA OwnAnswered ==
    ASSUME PcInv, NEW d, OwnRequest(d), NEW r \in HandleDatagram(d, boot)
    PROVE  OwnReply(r)
  <1>1. who \in Machines
    BY DEF PcInv
  <1>2. PICK p \in Plan(d, boot) :
            /\ d.pxe => r.bootfile = p.bootfile
            /\ r.yiaddr \in {Silence, p.yiaddr}
            /\ r.type = "OFFER" => r.yiaddr = p.yiaddr
    BY ReplyFacts
  <1>3. r.kind = "reply" /\ r.xid = d.xid /\ r.chaddr = d.chaddr
    BY ReplyFacts
  <1>4. Leading(d) = who.mac
    BY <1>1, LeadingWhole DEF OwnRequest
  <1>5. /\ p.yiaddr = AssignIp(who.mac)
        /\ IsIpxe(d) => p.bootfile = Script
        /\ ~IsIpxe(d) => Binary(p.bootfile)
    BY <1>4, PlanFacts DEF Script, Binary, Binaries, OwnRequest
  <1>6. who.user \in {"iPXE", "4iPXE"}
    BY <1>1, MachinesAssumption
  <1>7. /\ d.user = "none" => ~IsIpxe(d)
        /\ d.user = who.user => IsIpxe(d)
    BY <1>6 DEF IsIpxe
  <1> QED
    BY <1>2, <1>3, <1>5, <1>7 DEF OwnReply, OwnRequest

\* Nobody who does not boot is answered.
LEMMA StrayAnswered ==
    ASSUME PcInv, NEW d \in Strays, NEW r \in HandleDatagram(d, boot)
    PROVE  StrayReply(r)
  <1>1. who \in Machines
    BY DEF PcInv
  <1>2. ~d.malformed /\ r.kind = "reply" /\ r.chaddr = d.chaddr /\ Plan(d, boot) # {}
    BY ReplyFacts
  <1>3. d.chaddr # who.mac
    BY <1>1, StraysAssumption
  <1>4. d.user # "none" \/ d.arch # None
    <2>1. PICK p : p \in Plan(d, boot)
      BY <1>2
    <2>2. IsIpxe(d) \/ ByArch(boot, d.arch) # {}
      BY <2>1, PlanFacts
    <2>3. CASE IsIpxe(d)
      BY <2>3 DEF IsIpxe
    <2>4. CASE ByArch(boot, d.arch) # {}
      <3>1. d.arch \in {0, 7, 9}
        BY <2>4 DEF ByArch
      <3> QED
        BY <3>1, NoneAssumption
    <2> QED
      BY <2>2, <2>3, <2>4
  <1> QED
    BY <1>2, <1>3, <1>4 DEF StrayReply

-----------------------------------------------------------------------------
(* The steps *)

LEMMA InitInv ==
    ASSUME NetbootInit
    PROVE  NetbootInv
  <1>1. ProgramInv
    BY DEF NetbootInit, ProgramInit, ProgramInv
  <1>2. PcInv
    BY DEF NetbootInit, Off, PcInv, PcType
  <1>3. NetInv
    BY DEF NetbootInit, NetInv
  <1> QED
    BY <1>1, <1>2, <1>3 DEF NetbootInv

\* The machine does not touch the program.
LEMMA MachineApart ==
    ASSUME Machine
    PROVE  UNCHANGED <<progVars, who>>
  <1>1. CASE PowerOn
    BY <1>1 DEF PowerOn
  <1>2. CASE PowerOff
    BY <1>2 DEF PowerOff
  <1>3. CASE Discover \/ AskBoot
    BY <1>3 DEF Discover, AskBoot, Send
  <1>4. CASE LoadBinary
    BY <1>4 DEF LoadBinary
  <1>5. CASE FetchScript
    BY <1>5 DEF FetchScript
  <1>6. CASE \E r \in net : TakeOffer(r) \/ TakeAck(r) \/ Ignore(r)
    BY <1>6 DEF TakeOffer, TakeAck, Ignore
  <1> QED
    BY <1>1, <1>2, <1>3, <1>4, <1>5, <1>6 DEF Machine

\* No step changes the configuration or the machine.
LEMMA SameBoot ==
    ASSUME [Next]_vars
    PROVE  file' = file /\ who' = who
  <1>1. CASE UNCHANGED vars
    BY <1>1 DEF vars, progVars
  <1>2. CASE ProgramNext /\ UNCHANGED machVars
    BY <1>2 DEF ProgramNext, machVars, Load, Start, Sigint, Exit, ExitWith, Bind, ListenError,
                Cancelled, SetService
  <1>3. CASE \/ \E d \in net : Serve(d)
             \/ ServeStray \/ SendError \/ Lose
    BY <1>3 DEF Serve, ServeStray, SendError, Lose, SetService, progVars
  <1>4. CASE Machine
    BY <1>4, MachineApart DEF progVars
  <1> QED
    BY <1>1, <1>2, <1>3, <1>4 DEF Next

\* validate comes before ClientManager::new, and that before the services.
LEMMA ProgramStep ==
    ASSUME NetbootInv, [Next]_vars
    PROVE  ProgramInv'
  <1> USE DEF NetbootInv, ProgramInv
  <1>1. file' = file
    BY SameBoot
  <1>2. LoadFails' <=> LoadFails
    BY <1>1 DEF LoadFails
  <1>3. CASE UNCHANGED <<phase, stores>>
    BY <1>1, <1>2, <1>3
  <1>4. CASE Load
    BY <1>1, <1>2, <1>4 DEF Load, ExitWith
  <1>5. CASE Start
    BY <1>1, <1>2, <1>5 DEF Start, ExitWith
  <1>6. CASE Exit
    BY <1>1, <1>2, <1>6 DEF Exit, ExitWith
  <1>7. CASE ProgramNext /\ ~(Load \/ Start \/ Exit)
    <2>1. UNCHANGED <<phase, stores>>
      BY <1>7 DEF ProgramNext, Sigint, Bind, ListenError, Cancelled, SetService
    <2> QED
      BY <1>3, <2>1
  <1>8. CASE Next /\ ~(ProgramNext /\ UNCHANGED machVars)
    <2>1. UNCHANGED <<phase, stores>>
      <3>1. CASE Machine
        BY <3>1, MachineApart DEF progVars
      <3>2. CASE ~Machine
        BY <1>8, <3>2 DEF Next, Serve, ServeStray, SendError, Lose, SetService, progVars
      <3> QED
        BY <3>1, <3>2
    <2> QED
      BY <1>3, <2>1
  <1> QED
    BY <1>3, <1>4, <1>5, <1>6, <1>7, <1>8 DEF Next, vars, progVars

\* What does not depend on the machine's state is the same after a step.
LEMMA SameTerms ==
    ASSUME [Next]_vars
    PROVE  /\ Binaries' = Binaries /\ Script' = Script /\ PcType' = PcType
           /\ AssignIp(who.mac)' = AssignIp(who.mac)
           /\ \A bf : Binary(bf)' <=> Binary(bf)
  BY SameBoot DEF Binaries, Script, PcType, Binary, boot

\* The invariant where only the datagrams change.
LEMMA PcSame ==
    ASSUME NetbootInv, [Next]_vars, pc' = pc
    PROVE  /\ PcInv'
           /\ \A d : /\ OwnRequest(d) => OwnRequest(d)'
                     /\ OwnReply(d) => OwnReply(d)'
                     /\ StrayReply(d) => StrayReply(d)'
  <1>1. PcInv'
    BY SameBoot, SameTerms DEF NetbootInv, PcInv
  <1>2. ASSUME NEW d
        PROVE  /\ OwnRequest(d) => OwnRequest(d)'
               /\ OwnReply(d) => OwnReply(d)'
               /\ StrayReply(d) => StrayReply(d)'
    BY SameBoot, SameTerms DEF OwnRequest, OwnReply, StrayReply
  <1> QED
    BY <1>1, <1>2

\* The answers of the service, to the machine and to others.
LEMMA ServeStep ==
    ASSUME NetbootInv, [Next]_vars, pc' = pc,
           NEW d, OwnRequest(d) \/ d \in Strays,
           net' \subseteq net \cup HandleDatagram(d, boot)
    PROVE  PcInv' /\ NetInv'
  <1>1. PcInv'
    BY PcSame
  <1>2. ASSUME NEW r \in net'
        PROVE  OwnRequest(r)' \/ OwnReply(r)' \/ StrayReply(r)'
    <2>1. OwnRequest(r) \/ OwnReply(r) \/ StrayReply(r)
      <3>1. CASE r \in net
        BY <3>1 DEF NetbootInv, NetInv
      <3>2. CASE r \in HandleDatagram(d, boot)
        BY <3>2, OwnAnswered, StrayAnswered DEF NetbootInv
      <3> QED
        BY <3>1, <3>2
    <2> QED
      BY <2>1, PcSame
  <1> QED
    BY <1>1, <1>2 DEF NetInv

\* Datagrams that are lost, ignored or cannot be answered.
LEMMA DropStep ==
    ASSUME NetbootInv, [Next]_vars, pc' = pc, net' \subseteq net
    PROVE  PcInv' /\ NetInv'
  <1>1. PcInv'
    BY PcSame
  <1>2. ASSUME NEW r \in net'
        PROVE  OwnRequest(r)' \/ OwnReply(r)' \/ StrayReply(r)'
    <2>1. OwnRequest(r) \/ OwnReply(r) \/ StrayReply(r)
      BY DEF NetbootInv, NetInv
    <2> QED
      BY <2>1, PcSame
  <1> QED
    BY <1>1, <1>2 DEF NetInv

\* A request of the machine.
LEMMA SendStep ==
    ASSUME NetbootInv, [Next]_vars, NEW port, NEW type, pc.step # "none",
           Send(Request(port, type))
    PROVE  PcInv' /\ NetInv'
  <1>1. pc' = pc /\ net' = net \cup {Request(port, type)}
    BY DEF Send
  <1>2. OwnRequest(Request(port, type))
    <2>1. pc.xid \in Nat
      BY DEF NetbootInv, PcInv, PcType
    <2> QED
      BY <2>1 DEF Request, OwnRequest
  <1>3. PcInv'
    BY <1>1, PcSame
  <1>4. ASSUME NEW r \in net'
        PROVE  OwnRequest(r)' \/ OwnReply(r)' \/ StrayReply(r)'
    <2>1. PICK q : q = Request(port, type)
      OBVIOUS
    <2>2. OwnRequest(r) \/ OwnReply(r) \/ StrayReply(r)
      BY <1>1, <1>2, <2>1 DEF NetbootInv, NetInv
    <2> QED
      BY <1>1, <2>2, PcSame
  <1> QED
    BY <1>3, <1>4 DEF NetInv

\* A new exchange: everything under way is older than it.
LEMMA NewExchange ==
    ASSUME NetbootInv, [Next]_vars, net' \subseteq net,
           NEW x \in Nat, pc'.xid = x,
           pc.xid < x \/ (x = pc.xid /\ pc'.stage \in {pc.stage, "off", "sanboot"})
    PROVE  NetInv'
  <1>1. pc.xid \in Nat
    BY DEF NetbootInv, PcInv, PcType
  <1>2. ASSUME NEW d \in net'
        PROVE  OwnRequest(d)' \/ OwnReply(d)' \/ StrayReply(d)'
    <2>1. CASE OwnRequest(d)
      BY <1>1, <2>1, SameBoot DEF OwnRequest
    <2>2. CASE OwnReply(d)
      BY <1>1, <2>2, SameBoot, SameTerms DEF OwnReply
    <2>3. CASE StrayReply(d)
      BY <2>3, SameBoot DEF StrayReply
    <2> QED
      BY <2>1, <2>2, <2>3 DEF NetbootInv, NetInv
  <1> QED
    BY <1>2 DEF NetInv

\* What a machine has loaded.
LEMMA OneLoad ==
    ASSUME NEW B, NEW l \in {<<>>} \cup {<<f>> : f \in B}
    PROVE  /\ Len(l) <= 1
           /\ \A i \in DOMAIN l : l[i] \in B
           /\ l = <<>> => \A f : Append(l, f) = <<f>>
  <1>1. CASE l = <<>>
    BY <1>1
  <1>2. CASE \E f \in B : l = <<f>>
    <2>1. PICK f \in B : l = <<f>>
      BY <1>2
    <2>2. Len(<<f>>) = 1 /\ DOMAIN <<f>> = {1} /\ <<f>>[1] = f /\ <<f>> # <<>>
      OBVIOUS
    <2> QED
      BY <2>1, <2>2
  <1> QED
    BY <1>1, <1>2

\* Every step preserves the invariant.
LEMMA NextInv ==
    ASSUME NetbootInv, [Next]_vars
    PROVE  NetbootInv'
  <1>1. ProgramInv'
    BY ProgramStep
  <1>2. ASSUME PcInv' /\ NetInv' PROVE NetbootInv'
    BY <1>1, <1>2 DEF NetbootInv
  <1>3. CASE UNCHANGED vars
    BY <1>2, <1>3, DropStep DEF vars
  <1>4. CASE ProgramNext /\ UNCHANGED machVars
    BY <1>2, <1>4, DropStep DEF machVars
  <1>5. ASSUME NEW d \in net, Serve(d) PROVE NetbootInv'
    <2>1. OwnRequest(d)
      BY <1>5 DEF Serve, NetbootInv, NetInv, OwnReply, StrayReply
    <2>2. pc' = pc /\ net' \subseteq net \cup HandleDatagram(d, boot)
      BY <1>5 DEF Serve, Sent
    <2> QED
      BY <1>2, <2>1, <2>2, ServeStep
  <1>6. CASE ServeStray
    <2>1. PICK d \in Strays : net' = net \cup Sent(d)
      BY <1>6 DEF ServeStray
    <2>2. pc' = pc /\ net' \subseteq net \cup HandleDatagram(d, boot)
      BY <1>6, <2>1 DEF ServeStray, Sent
    <2> QED
      BY <1>2, <2>2, ServeStep
  <1>7. CASE SendError \/ Lose
    <2>1. pc' = pc /\ net' \subseteq net
      BY <1>7 DEF SendError, Lose
    <2> QED
      BY <1>2, <2>1, DropStep
  <1>8. CASE Machine
    <2>1. pc \in PcType /\ PcInv
      BY DEF NetbootInv, PcInv
    <2>2. who' = who /\ PcType' = PcType /\ Script' = Script /\ \A bf : Binary(bf)' <=> Binary(bf)
      BY SameBoot, SameTerms
    <2>3. CASE PowerOn
      <3>1. PICK x \in Nat : x = pc.xid + 1
        BY <2>1 DEF PcType
      <3>2. pc' = [pc EXCEPT !.stage = "rom", !.step = "discover", !.xid = x] /\ net' = net
        BY <2>3, <3>1 DEF PowerOn
      <3>3. PcInv'
        BY <2>1, <2>2, <2>3, <3>2 DEF PowerOn, PcType, PcInv
      <3>4. pc'.xid = x /\ pc.xid < x
        BY <2>1, <3>1, <3>2 DEF PcType
      <3> QED
        <4>1. net' \subseteq net
          BY <3>2
        <4>2. NetInv'
          BY <3>4, <4>1, NewExchange
        <4> QED
          BY <1>2, <3>3, <4>2
    <2>4. CASE PowerOff
      <3>1. PcInv' /\ pc'.xid = pc.xid /\ pc.xid \in Nat /\ pc'.stage = "off" /\ net' = net
        BY <2>1, <2>2, <2>4 DEF PowerOff, PcType, Off, PcInv
      <3> QED
        BY <1>2, <3>1, NewExchange
    <2>5. CASE Discover
      BY <1>2, <2>5, SendStep DEF Discover
    <2>6. CASE AskBoot
      BY <1>2, <2>6, SendStep DEF AskBoot
    <2>7. ASSUME NEW r \in net, TakeOffer(r) PROVE NetbootInv'
      <3>1. r.yiaddr = AssignIp(who.mac)
        BY <2>7 DEF TakeOffer, Answers, NetbootInv, NetInv, OwnRequest, OwnReply, StrayReply
      <3>2. pc' = [pc EXCEPT !.step = "request", !.addr = r.yiaddr] /\ net' \subseteq net
        BY <2>7 DEF TakeOffer
      <3>3. PcInv'
        BY <2>1, <2>2, <2>7, <3>1, <3>2 DEF TakeOffer, PcType, PcInv
      <3>4. pc'.xid = pc.xid /\ pc.xid \in Nat /\ pc'.stage = pc.stage
        BY <2>1, <3>2 DEF PcType
      <3> QED
        BY <1>2, <3>2, <3>3, <3>4, NewExchange
    <2>8. ASSUME NEW r \in net, TakeAck(r) PROVE NetbootInv'
      <3>1. OwnReply(r) /\ r.xid = pc.xid
        BY <2>8 DEF TakeAck, Answers, NetbootInv, NetInv, OwnRequest, StrayReply
      <3>2. PICK a : a = IF r.yiaddr = Silence THEN pc.addr ELSE r.yiaddr
        OBVIOUS
      <3>3. a \in {None, AssignIp(who.mac)}
        BY <2>1, <3>1, <3>2 DEF OwnReply, PcType
      <3>4. pc' = [pc EXCEPT !.step = "load", !.bootfile = r.bootfile, !.addr = a] /\ net' \subseteq net
        BY <2>8, <3>2 DEF TakeAck
      <3>5. /\ pc.stage \in {"rom", "ipxe"}
            /\ pc.stage = "rom" => Binary(r.bootfile)
            /\ pc.stage = "ipxe" => r.bootfile = Script
        BY <2>1, <2>8, <3>1 DEF TakeAck, OwnReply, PcInv
      <3>6. r.bootfile \in {None, Script} \cup {[file |-> f] : f \in Binaries}
        BY <3>5 DEF Binary
      <3>7. PcInv'
        BY <2>1, <2>2, <3>3, <3>4, <3>5, <3>6 DEF PcType, PcInv
      <3>8. pc'.xid = pc.xid /\ pc.xid \in Nat /\ pc'.stage = pc.stage
        BY <2>1, <3>4 DEF PcType
      <3> QED
        BY <1>2, <3>4, <3>7, <3>8, NewExchange
    <2>9. ASSUME NEW r \in net, Ignore(r) PROVE NetbootInv'
      <3>1. pc' = pc /\ net' \subseteq net
        BY <2>9 DEF Ignore
      <3> QED
        BY <1>2, <3>1, DropStep
    <2>10. CASE LoadBinary
      <3>1. pc.stage = "rom" /\ Binary(pc.bootfile)
        BY <2>1, <2>10 DEF LoadBinary, Script, PcInv
      <3>2. PICK f \in Binaries : pc.bootfile = [file |-> f]
        BY <3>1 DEF Binary
      <3>3. Append(pc.loads, pc.bootfile.file) = <<f>>
        <4>1. pc.loads = <<>>
          BY <2>1, <3>1 DEF PcInv
        <4>2. pc.bootfile.file = f
          BY <3>2
        <4> QED
          BY <4>1, <4>2, OneLoad
      <3>4. PICK x \in Nat, l \in {<<>>} \cup {<<g>> : g \in Binaries} : x = pc.xid + 1 /\ l = <<f>>
        <4>1. pc.xid + 1 \in Nat
          BY <2>1 DEF PcType
        <4>2. <<f>> \in {<<>>} \cup {<<g>> : g \in Binaries}
          OBVIOUS
        <4> QED
          BY <4>1, <4>2, Zenon
      <3>5. pc' = [pc EXCEPT !.stage = "ipxe", !.step = "discover", !.xid = x,
                             !.bootfile = None, !.loads = l] /\ net' = net
        BY <2>10, <3>3, <3>4 DEF LoadBinary
      <3>6. PcInv'
        BY <2>1, <2>2, <3>5 DEF PcType, PcInv
      <3>7. pc'.xid = x /\ pc.xid < x
        BY <2>1, <3>4, <3>5 DEF PcType
      <3> QED
        <4>1. net' \subseteq net
          BY <3>5
        <4>2. NetInv'
          BY <3>7, <4>1, NewExchange
        <4> QED
          BY <1>2, <3>6, <4>2
    <2>11. CASE FetchScript
      <3>1. pc' = [pc EXCEPT !.stage = "sanboot", !.step = "none"] /\ net' = net
        BY <2>11 DEF FetchScript
      <3>2. PcInv'
        BY <2>1, <2>2, <2>11, <3>1 DEF FetchScript, PcType, PcInv
      <3>3. pc'.xid = pc.xid /\ pc.xid \in Nat /\ pc'.stage = "sanboot"
        BY <2>1, <3>1 DEF PcType
      <3> QED
        BY <1>2, <3>1, <3>2, <3>3, NewExchange
    <2> QED
      BY <1>8, <2>3, <2>4, <2>5, <2>6, <2>7, <2>8, <2>9, <2>10, <2>11 DEF Machine
  <1> QED
    BY <1>3, <1>4, <1>5, <1>6, <1>7, <1>8 DEF Next

LEMMA Invariant == Spec => []NetbootInv
  BY InitInv, NextInv, PTL DEF Spec

-----------------------------------------------------------------------------
(* The theorems *)

\* Once main() has started its services, every disk that ClientManager::resolve
\* finds for a client is open, for every configuration file: what validate
\* accepts as an image or a game ClientManager::new has opened.
THEOREM ClientsDisksOpen == Spec => []DisksOpen
  <1>1. ASSUME NetbootInv PROVE DisksOpen
    <2> SUFFICES ASSUME phase = "running", NEW mac, ResolveMac(file.cfg, mac) # None
                 PROVE  /\ ResolveMac(file.cfg, mac).system \in stores
                        /\ \A i \in DOMAIN ResolveMac(file.cfg, mac).games :
                              ResolveMac(file.cfg, mac).games[i] \in stores
      BY DEF DisksOpen
    <2>1. file \in Files /\ ~LoadFails /\ stores = OpenStores(file.cfg)
      BY <1>1 DEF NetbootInv, ProgramInv
    <2>2. PICK f \in Files : f = file
      BY <2>1
    <2>3. Validate(f.cfg) = {} /\ ResolveMac(f.cfg, mac) # None
      BY <2>1, <2>2 DEF LoadFails
    <2> QED
      BY <2>1, <2>2, <2>3, ResolvedOpens
  <1> QED
    BY <1>1, Invariant, PTL

\* However the network delays and reorders datagrams, a machine loads one
\* binary, the one that plan names for its firmware, and then its own script:
\* is_ipxe breaks the chainload loop.
THEOREM ChainloadTerminates == Spec => []ChainloadEnds
  <1>1. ASSUME NetbootInv PROVE ChainloadEnds
    <2>1. PcInv
      BY <1>1 DEF NetbootInv
    <2>2. pc.loads \in {<<>>} \cup {<<f>> : f \in Binaries}
      BY <2>1 DEF PcInv, PcType
    <2>3. Len(pc.loads) <= 1 /\ \A i \in DOMAIN pc.loads : pc.loads[i] \in Binaries
      BY <2>2, OneLoad
    <2>4. \A f \in Binaries : f = IF who.arch = 0 THEN boot.bios.name ELSE boot.uefi.name
      BY DEF Binaries, ByArch
    <2> QED
      BY <2>1, <2>3, <2>4 DEF ChainloadEnds, PcInv, Script
  <1> QED
    BY <1>1, Invariant, PTL

\* handle_datagram answers nobody but machines that boot, whatever the other
\* hosts on the network send.
THEOREM OthersIgnored == Spec => []OthersLeftAlone
  <1>1. ASSUME NetbootInv PROVE OthersLeftAlone
    <2> SUFFICES ASSUME NEW r \in net, r.kind = "reply"
                 PROVE  \E d \in Strays \cup {Request(67, "DISCOVER")} :
                            /\ d.chaddr = r.chaddr /\ ~d.malformed
                            /\ d.pxe \/ d.user # "none" \/ d.arch # None
      BY DEF OthersLeftAlone
    <2>1. CASE OwnReply(r)
      <3>1. PICK d : d = Request(67, "DISCOVER")
        OBVIOUS
      <3>2. d.chaddr = who.mac /\ d.malformed = FALSE /\ d.pxe = TRUE
        BY <3>1 DEF Request
      <3> QED
        BY <2>1, <3>1, <3>2 DEF OwnReply
    <2>2. CASE StrayReply(r)
      BY <2>2 DEF StrayReply
    <2> QED
      BY <1>1, <2>1, <2>2 DEF NetbootInv, NetInv, OwnRequest
  <1> QED
    BY <1>1, Invariant, PTL

=============================================================================
