------------------------------ MODULE ProxyDhcp ------------------------------
(***************************************************************************)
(* The decisions of the proxyDHCP server (net/dhcp): which request gets    *)
(* which reply, and where it is sent.  A request is what packet::parse     *)
(* yields, with the options that the server reads; a hardware address is   *)
(* the array of bytes from which hlen bytes are taken.  The first three    *)
(* octets of an address are the server's, so an address is its last octet. *)
(***************************************************************************)
EXTENDS Integers, Sequences

CONSTANTS
    Byte,       \* 256
    ServerHost, \* the last octet of boot.server_ip
    Silence     \* no reply

ASSUME ByteAssumption == Byte \in Nat \ {0}

-----------------------------------------------------------------------------
(* decide.rs *)

\* The leading hlen bytes of chaddr.
Leading(req) ==
    SubSeq(req.chaddr, 1, IF req.hlen < Len(req.chaddr) THEN req.hlen ELSE Len(req.chaddr))

\* assign_ip_from_mac: the last byte, moved by 100 when it is 0, 1 or 255.
AssignIp(mac) ==
    LET b == mac[Len(mac)]
    IN  IF b < 2 \/ b = Byte - 1 THEN (100 + b) % Byte ELSE b

\* Mutant of IsIpxe: the user class is compared as a whole, and the
\* length-prefixed form of RFC 3004 does not match.
IsIpxePlain(req) == req.user = "iPXE"

\* is_ipxe: the user class contains "iPXE", plain or with its length.
IsIpxe(req) == req.user \in {"iPXE", "4iPXE"}

Offer(file, next, yiaddr) == [bootfile |-> file, next_server |-> next, yiaddr |-> yiaddr]

\* Mutant of ByArch: the second code of 64-bit UEFI is missing.
ByArchOneUefi(boot, arch) ==
    CASE arch = 0 -> {boot.bios.name} [] arch = 7 -> {boot.uefi.name} [] OTHER -> {}

\* Mutant of ByArch: whatever is not UEFI is taken for a BIOS.
ByArchDefaultBios(boot, arch) == IF arch \in {7, 9} THEN {boot.uefi.name} ELSE {boot.bios.name}

\* The binary for an architecture, if it is supported.
ByArch(boot, arch) ==
    CASE arch = 0 -> {boot.bios.name} [] arch \in {7, 9} -> {boot.uefi.name} [] OTHER -> {}

\* plan: the set of the plan, empty for silence.  The script is named by the
\* MAC that is appended to its URL.
Plan(req, boot) ==
    LET mac == Leading(req)
        ip == AssignIp(mac)
    IN  IF mac = <<>> THEN {}
        ELSE IF IsIpxe(req) THEN {Offer([script |-> mac], Silence, ip)}
        ELSE {Offer([file |-> f], ServerHost, ip) : f \in ByArch(boot, req.arch)}

-----------------------------------------------------------------------------
(* server.rs *)

\* reply_dest: the relay, everyone, or whoever sent the datagram.
ReplyDest(req) ==
    CASE req.relayed -> "relay" [] ~req.relayed /\ req.broadcast -> "everyone" [] OTHER -> "sender"

\* build_reply.  The vendor option of an OFFER or ACK on port 67 points at the
\* boot server on port 4011, that of an ACK of the boot server names the item.
BuildReply(req, plan, mtype, role, dest) ==
    [kind |-> "reply", type |-> mtype, role |-> role, xid |-> req.xid, chaddr |-> req.chaddr,
     server_id |-> role \in {"Dhcp", "BootServer"},
     bootfile |-> IF role \in {"ProxyDhcp", "BootServer"} THEN plan.bootfile ELSE Silence,
     siaddr |-> plan.next_server,
     yiaddr |-> IF role = "BootServer" THEN Silence ELSE plan.yiaddr,
     vendor |-> IF role = "BootServer" THEN "item" ELSE "servers",
     dest |-> dest]

Role67(req) == IF req.pxe THEN "ProxyDhcp" ELSE "Dhcp"

\* handle_datagram: the set of the reply, empty for silence.
HandleDatagram(req, boot) ==
    CASE req.malformed -> {}
      [] ~req.malformed /\ req.port = 67 /\ req.type = "DISCOVER" ->
            {BuildReply(req, p, "OFFER", Role67(req), ReplyDest(req)) : p \in Plan(req, boot)}
      [] ~req.malformed /\ req.port = 67 /\ req.type = "REQUEST" ->
            {BuildReply(req, p, "ACK", Role67(req), ReplyDest(req)) : p \in Plan(req, boot)}
      [] ~req.malformed /\ req.port = 4011 /\ req.type = "REQUEST" ->
            {BuildReply(req, p, "ACK", "BootServer", "everyone") : p \in Plan(req, boot)}
      [] OTHER -> {}

=============================================================================
