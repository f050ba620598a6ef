----------------------------- MODULE IscsiTarget -----------------------------
(***************************************************************************)
(* One iSCSI connection of the target: the sans-I/O state machine          *)
(* `Connection` (iscsi/session) with the tokio adapter that feeds it       *)
(* (iscsi/transport.rs) and the SCSI execution behind it (iscsi/scsi).     *)
(*                                                                         *)
(* Lengths and offsets are counted in cells, a cell standing for one       *)
(* logical block.  The bytes of a fresh write buffer are Blank, so that a  *)
(* byte nobody sent can be told from one that was.                         *)
(*                                                                         *)
(* Left out, because nothing reads them back: the negotiated               *)
(* FirstBurstLength, ImmediateData and InitialR2T, DataSN and R2TSN, and   *)
(* the fields a handler only echoes.                                       *)
(***************************************************************************)
EXTENDS Integers, Sequences, FiniteSets

CONSTANTS
    SnMod,          \* sequence numbers are u32: 2^32 in the code
    QueueDepth,     \* QUEUE_DEPTH
    Names,          \* TargetNames an initiator may declare
    Registered,     \* the names the registry resolves
    Itts,           \* initiator task tags
    DiskSize,       \* cells of the logical unit
    Val,            \* values of a cell
    Master,         \* what the logical unit holds at first
    Blank,          \* a byte of vec![0u8; edtl] that no PDU has filled
    DefaultBurst,   \* SessionParams::default().max_burst_length
    DefaultSegment, \* SessionParams::default().max_recv_data_segment_length
    MinSegment,     \* the 512 of data_in_chunks
    SockCap,        \* bound: PDUs the socket buffers before write_all waits
    Requests,       \* the requests that may arrive
    None

Lbas == 0 .. DiskSize - 1

Sn == 0 .. SnMod - 1

\* What `decode` yields, plus "malformed" for the structural errors.
LoginRequest ==
    [op : {"login"}, cmd_sn : Sn, exp_stat_sn : Sn, name : Names \cup {None},
     transit : BOOLEAN, csg : 0 .. 3, nsg : 0 .. 3,
     burst : Nat \cup {None}, segment : Nat \cup {None}]

ScsiCommand ==
    [op : {"scsi"}, itt : Itts, read : BOOLEAN, write : BOOLEAN,
     cdb : {"read", "write", "ready", "inquiry", "unsupported"},
     lba : Nat, blocks : Nat, edtl : Nat, data : Seq(Val)]

DataOut == [op : {"dataout"}, itt : Itts, off : Nat, data : Seq(Val)]

OtherRequest ==
    [op : {"nop", "text", "tmf", "logout", "unsupported", "malformed"}, itt : Itts]

Request == LoginRequest \cup ScsiCommand \cup DataOut \cup OtherRequest

ASSUME SnAssumption == SnMod \in Nat /\ SnMod > 1 /\ QueueDepth \in Nat
ASSUME DiskAssumption == DiskSize \in Nat /\ Master \in [Lbas -> Val] /\ Blank \notin Val
ASSUME ParamsAssumption ==
    DefaultBurst \in Nat /\ DefaultSegment \in Nat /\ MinSegment \in Nat \ {0}
ASSUME RequestsAssumption == Requests \subseteq Request
ASSUME SockAssumption == SockCap \in Nat
ASSUME NoneAssumption == None \notin Nat

VARIABLES
    stage,      \* Connection.stage, "Closed" when there is no connection
    bound,      \* Connection.target is Some
    params,     \* [burst, segment] of Connection.params
    stat_sn,    \* Connection.stat_sn
    exp_cmd_sn, \* Connection.exp_cmd_sn
    in_flight,  \* Connection.in_flight: ITT -> PendingWrite or None
    disk,       \* contents of the logical unit: outlives the connection
    tx          \* PDUs written to the socket and not yet read by the peer

conn == <<stage, bound, params, stat_sn, exp_cmd_sn, in_flight>>

vars == <<stage, bound, params, stat_sn, exp_cmd_sn, in_flight, disk, tx>>

-----------------------------------------------------------------------------
(* Responses *)

\* What is particular to a response: the login outcome or SCSI status, the
\* part of the buffer an R2T asks for, or the data of a Data-In PDU.
Body ==
    [code : {"none", "failed", "transit", "stay", "good", "check"}]
        \cup [off : Nat, len : Nat]
        \cup [final : BOOLEAN, off : Nat, data : Seq(Val \cup {Blank})]

Code(c) == [code |-> c]

Response ==
    [op : {"login", "scsi", "datain", "r2t", "nopin", "text", "tmf", "logout", "reject"},
     itt : Itts \cup {None}, stat_sn : Sn, max_cmd_sn : Sn, body : Body]

MaxCmdSn(exp) == (exp + QueueDepth) % SnMod

\* A response with the window it advertises; body is what is particular to it.
Pdu(op, itt, sn, exp, body) ==
    [op |-> op, itt |-> itt, stat_sn |-> sn, max_cmd_sn |-> MaxCmdSn(exp), body |-> body]

\* Mutant of ConsumesStatSn: an R2T takes a StatSN of its own.
ConsumesStatSnR2t(pdu) ==
    \/ pdu.op \notin {"r2t", "nopin", "datain"}
    \/ pdu.op = "r2t"
    \/ pdu.op = "datain" /\ pdu.body.final

\* The responses that go through next_stat_sn.
ConsumesStatSn(pdu) ==
    \/ pdu.op \notin {"r2t", "nopin", "datain"}
    \/ pdu.op = "datain" /\ pdu.body.final

\* Send one response under the current StatSN, with ExpCmdSN as it is after
\* the step.
Respond(op, itt, body) ==
    LET pdu == Pdu(op, itt, stat_sn, exp_cmd_sn', body)
    IN  /\ tx' = Append(tx, pdu)
        /\ stat_sn' = IF ConsumesStatSn(pdu) THEN (stat_sn + 1) % SnMod ELSE stat_sn

\* Connection::reject
SendReject(itt) == Respond("reject", itt, Code("none"))

-----------------------------------------------------------------------------
(* Login *)

\* SessionParams::negotiate: MaxBurstLength is the smaller of the two offers,
\* MaxRecvDataSegmentLength is declared by the initiator.
Negotiated(r) ==
    [burst   |-> IF r.burst # None /\ r.burst < params.burst
                 THEN r.burst ELSE params.burst,
     segment |-> IF r.segment # None THEN r.segment ELSE params.segment]

\* Mutant of LoginFails: a login that reaches FullFeature without ever naming
\* a target is let through.
LoginFailsNamed(r) == ~bound /\ r.name # None /\ r.name \notin Registered

\* The target is resolved on the first declaration of TargetName; an unknown
\* one, or none at all on the way to FullFeature, fails the login.
LoginFails(r) ==
    /\ ~bound
    /\ IF r.name # None THEN r.name \notin Registered ELSE r.transit /\ r.nsg = 3

\* handle_login.  A StatSN of zero stands for "not initialised yet".
HandleLogin(r) ==
    LET sn == IF stat_sn = 0 THEN r.exp_stat_sn ELSE stat_sn
        operational == r.csg = 1 \/ (r.csg = 0 /\ r.nsg = 3)
    IN  /\ stage = "Login"
        /\ r.op = "login"
        /\ exp_cmd_sn' = r.cmd_sn
        /\ stat_sn' = (sn + 1) % SnMod
        /\ \/ /\ LoginFails(r)
              /\ stage' = "Closing"
              /\ tx' = Append(tx, Pdu("login", None, sn, r.cmd_sn, Code("failed")))
              /\ UNCHANGED <<bound, params>>
           \/ /\ ~LoginFails(r)
              /\ bound' = (bound \/ r.name # None)
              /\ params' = IF operational THEN Negotiated(r) ELSE params
              /\ stage' = IF r.transit /\ r.nsg = 3 THEN "FullFeature" ELSE "Login"
              /\ tx' = Append(tx, Pdu("login", None, sn, r.cmd_sn,
                          Code(IF r.transit /\ r.nsg \in {1, 3} THEN "transit" ELSE "stay")))
        /\ UNCHANGED <<in_flight, disk>>

\* A request that does not belong to the stage.
WrongStage(r) ==
    /\ stage = "Login"
    /\ r.op \notin {"login", "malformed"}
    /\ stage' = "Closing"
    /\ UNCHANGED exp_cmd_sn
    /\ SendReject(r.itt)
    /\ UNCHANGED <<bound, params, in_flight, disk>>

-----------------------------------------------------------------------------
(* SCSI execution: ScsiTarget::execute, cdb::dispatch, cdb::read, cdb::write *)

InRange(c) == c.lba + c.blocks <= DiskSize

\* The contents of the cells a read asks for.
ReadData(c) == [i \in 1 .. c.blocks |-> disk[c.lba + i - 1]]

\* The outcomes of a command without write data: [status, data].  A read of
\* the medium may fail.
Outcomes(c) ==
    CASE c.cdb = "read" /\ c.blocks = 0 -> {[status |-> "good", data |-> <<>>]}
      [] c.cdb = "read" /\ c.blocks > 0 /\ InRange(c) ->
            {[status |-> "good", data |-> ReadData(c)], [status |-> "check", data |-> <<>>]}
      [] c.cdb = "ready" -> {[status |-> "good", data |-> <<>>]}
      [] c.cdb = "inquiry" -> {[status |-> "good", data |-> <<Blank>>]}
      [] c.cdb = "write" /\ c.blocks = 0 -> {[status |-> "good", data |-> <<>>]}
      [] OTHER -> {[status |-> "check", data |-> <<>>]}

\* Storing the first k cells of buf at lba.
Stored(lba, buf, k) ==
    [l \in Lbas |-> IF l >= lba /\ l < lba + k THEN buf[l - lba] ELSE disk[l]]

\* cdb::write gets as far as the volume with n cells of data.
WritesMedium(c, n) == c.cdb = "write" /\ c.blocks > 0 /\ InRange(c) /\ n = c.blocks

\* Mutant of WriteMedium: a write that fails half way is reported as GOOD.
WriteMediumUnchecked(c, buf) ==
    \E k \in 0 .. c.blocks :
        /\ disk' = Stored(c.lba, buf, k)
        /\ Respond("scsi", c.itt, Code("good"))

\* Volume::write_at and the response; one that fails leaves what it stored
\* before the failure.
WriteMedium(c, buf) ==
    \E k \in 0 .. c.blocks :
        /\ disk' = Stored(c.lba, buf, k)
        /\ Respond("scsi", c.itt, Code(IF k = c.blocks THEN "good" ELSE "check"))

\* finish_write: run the assembled write and respond.  A command that is not a
\* WRITE, though it came with the W bit, is executed as what it is; the data
\* it returns is not sent.
FinishWrite(c, buf) ==
    IF WritesMedium(c, c.edtl)
    THEN WriteMedium(c, buf)
    ELSE \E o \in Outcomes(c) : Respond("scsi", c.itt, Code(o.status)) /\ UNCHANGED disk

-----------------------------------------------------------------------------
(* Commands without write data *)

Larger(a, b) == IF a >= b THEN a ELSE b

Smaller(a, b) == IF a <= b THEN a ELSE b

\* Mutant of DataInChunks: every segment loses its last cell.
DataInChunksShort(c, data, sn, exp) ==
    LET seg == Larger(params.segment, MinSegment)
        n == (Len(data) + seg - 1) \div seg
    IN  [i \in 1 .. n |->
            Pdu("datain", c.itt, sn, exp,
                [final |-> i = n,
                 off |-> (i - 1) * seg,
                 data |-> SubSeq(data, (i - 1) * seg + 1, Smaller(i * seg, Len(data)) - 1)])]

\* data_in_chunks: the data in segments, the status on the last of them.
DataInChunks(c, data, sn, exp) ==
    LET seg == Larger(params.segment, MinSegment)
        n == (Len(data) + seg - 1) \div seg
    IN  [i \in 1 .. n |->
            Pdu("datain", c.itt, sn, exp,
                [final |-> i = n,
                 off |-> (i - 1) * seg,
                 data |-> SubSeq(data, (i - 1) * seg + 1, Smaller(i * seg, Len(data)))])]

\* Mutant of ExpCmdSnAfter: a command does not advance ExpCmdSN.
ExpCmdSnStuck == exp_cmd_sn

\* ExpCmdSN after a SCSI command, whatever CmdSN it carries.
ExpCmdSnAfter == (exp_cmd_sn + 1) % SnMod

\* scsi_command without the W bit.  A WRITE is executed with its immediate data.
ExecuteCommand(c) ==
    /\ ~c.write
    /\ exp_cmd_sn' = ExpCmdSnAfter
    /\ IF WritesMedium(c, Len(c.data))
       THEN WriteMedium(c, [i \in 0 .. c.blocks - 1 |-> c.data[i + 1]])
       ELSE /\ \E o \in Outcomes(c) :
                  IF c.read /\ o.status = "good" /\ o.data # <<>>
                  THEN /\ tx' = tx \o DataInChunks(c, o.data, stat_sn, exp_cmd_sn')
                       /\ stat_sn' = (stat_sn + 1) % SnMod
                  ELSE Respond("scsi", c.itt, Code(o.status))
            /\ UNCHANGED disk
    /\ UNCHANGED in_flight

-----------------------------------------------------------------------------
(* Writes *)

\* Mutant of Solicit: the R2T asks for all that is missing.
SolicitAll(edtl, received) == [off |-> received, len |-> edtl - received]

\* The part of the buffer the next R2T asks for.
Solicit(edtl, received) ==
    [off |-> received, len |-> Smaller(edtl - received, params.burst)]

\* A buffer with the cells of data laid over it from off on.
Patched(buf, off, data) ==
    [i \in DOMAIN buf |->
        IF i >= off /\ i < off + Len(data) THEN data[i - off + 1] ELSE buf[i]]

\* begin_write: immediate data is kept, the rest is solicited; a pending write
\* with the same tag is replaced.
BeginWrite(c) ==
    LET blank == [i \in 0 .. c.edtl - 1 |-> Blank]
        pending == [cmd |-> c, buf |-> Patched(blank, 0, c.data), received |-> Len(c.data)]
    IN  /\ c.write
        /\ exp_cmd_sn' = ExpCmdSnAfter
        /\ \/ /\ Len(c.data) > c.edtl
              /\ SendReject(c.itt)
              /\ UNCHANGED <<in_flight, disk>>
           \/ /\ Len(c.data) = c.edtl
              /\ FinishWrite(c, pending.buf)
              /\ UNCHANGED in_flight
           \/ /\ Len(c.data) < c.edtl
              /\ in_flight' = [in_flight EXCEPT ![c.itt] = pending]
              /\ Respond("r2t", c.itt, Solicit(c.edtl, Len(c.data)))
              /\ UNCHANGED disk

\* scsi_command.  Without a target the command is rejected and ExpCmdSN stays.
HandleScsiCommand(c) ==
    /\ stage = "FullFeature"
    /\ c.op = "scsi"
    /\ \/ /\ ~bound
          /\ UNCHANGED exp_cmd_sn
          /\ SendReject(c.itt)
          /\ UNCHANGED <<in_flight, disk>>
       \/ bound /\ ExecuteCommand(c)
       \/ bound /\ BeginWrite(c)
    /\ UNCHANGED <<stage, bound, params>>

\* Mutant of PastEnd: data that ends exactly at EDTL is refused.
PastEndOffByOne(p, d) == d.off + Len(d.data) >= p.cmd.edtl

\* Data-Out that does not fit the buffer.
PastEnd(p, d) == d.off + Len(d.data) > p.cmd.edtl

\* Mutant of MoreToCome: the write is not seen to be complete.
MoreToComeOrEqual(p, received) == received <= p.cmd.edtl

\* The byte count has not reached EDTL.
MoreToCome(p, received) == received < p.cmd.edtl

\* Mutant of SolicitNext: the next burst is not asked for.
SolicitNextNever(p, d, received) ==
    /\ in_flight' = [in_flight EXCEPT ![d.itt] =
                        [@ EXCEPT !.buf = Patched(p.buf, d.off, d.data), !.received = received]]
    /\ UNCHANGED <<stat_sn, tx, disk>>

\* Some bytes are still to come: every Data-Out PDU is answered by an R2T for
\* what follows the byte count, whether or not it ends its burst.
SolicitNext(p, d, received) ==
    /\ in_flight' = [in_flight EXCEPT ![d.itt] =
                        [@ EXCEPT !.buf = Patched(p.buf, d.off, d.data), !.received = received]]
    /\ Respond("r2t", d.itt, Solicit(p.cmd.edtl, received))
    /\ UNCHANGED disk

\* data_out
HandleDataOut(d) ==
    LET p == in_flight[d.itt]
        received == p.received + Len(d.data)
    IN  /\ stage = "FullFeature"
        /\ d.op = "dataout"
        /\ UNCHANGED exp_cmd_sn
        /\ \/ /\ p = None
              /\ SendReject(d.itt)
              /\ UNCHANGED <<in_flight, disk>>
           \/ /\ p # None
              /\ PastEnd(p, d)
              /\ in_flight' = [in_flight EXCEPT ![d.itt] = None]
              /\ SendReject(d.itt)
              /\ UNCHANGED disk
           \/ /\ p # None
              /\ ~PastEnd(p, d)
              /\ MoreToCome(p, received)
              /\ SolicitNext(p, d, received)
           \/ /\ p # None
              /\ ~PastEnd(p, d)
              /\ ~MoreToCome(p, received)
              /\ in_flight' = [in_flight EXCEPT ![d.itt] = None]
              /\ FinishWrite(p.cmd, Patched(p.buf, d.off, d.data))
        /\ UNCHANGED <<stage, bound, params>>

-----------------------------------------------------------------------------
(* The other requests of the full-feature stage *)

\* nop_in, text_response, task_mgmt, and the two rejects of
\* handle_full_feature: one response, and no other change.  Task management
\* answers "function complete" and leaves the pending write in place.
ResponseTo == [nop |-> "nopin", text |-> "text", tmf |-> "tmf",
               login |-> "reject", unsupported |-> "reject"]

HandleOther(r) ==
    /\ stage = "FullFeature"
    /\ r.op \in DOMAIN ResponseTo
    /\ UNCHANGED exp_cmd_sn
    /\ Respond(ResponseTo[r.op], IF r.op = "login" THEN None ELSE r.itt, Code("none"))
    /\ UNCHANGED <<stage, bound, params, in_flight, disk>>

\* logout
HandleLogout(r) ==
    /\ stage = "FullFeature"
    /\ r.op = "logout"
    /\ stage' = "Closing"
    /\ UNCHANGED exp_cmd_sn
    /\ Respond("logout", r.itt, Code("none"))
    /\ UNCHANGED <<bound, params, in_flight, disk>>

-----------------------------------------------------------------------------
(* The transport *)

\* A PDU that `decode` refuses for good: the connection is dropped with no
\* answer.
HandleMalformed(r) ==
    /\ stage \in {"Login", "FullFeature"}
    /\ r.op = "malformed"
    /\ stage' = "Closed"
    /\ in_flight' = [i \in Itts |-> None]
    /\ UNCHANGED <<bound, params, stat_sn, exp_cmd_sn, disk, tx>>

\* One request of the read buffer is handled; the next one has to wait while
\* the socket takes no more responses.
Handle(r) ==
    /\ Len(tx) < SockCap
    /\ \/ HandleLogin(r)
       \/ WrongStage(r)
       \/ HandleScsiCommand(r)
       \/ HandleDataOut(r)
       \/ HandleOther(r)
       \/ HandleLogout(r)
       \/ HandleMalformed(r)

\* handle_conn returns after the step that entered Closing, at the peer's end
\* of file, or on a socket error: the Connection is dropped.
EndConnection ==
    /\ stage # "Closed"
    /\ stage' = "Closed"
    /\ in_flight' = [i \in Itts |-> None]
    /\ UNCHANGED <<bound, params, stat_sn, exp_cmd_sn, disk, tx>>

\* serve accepts a connection: Connection::new.
Accept ==
    /\ stage = "Closed"
    /\ stage' = "Login"
    /\ bound' = FALSE
    /\ params' = [burst |-> DefaultBurst, segment |-> DefaultSegment]
    /\ stat_sn' = 0
    /\ exp_cmd_sn' = 0
    /\ in_flight' = [i \in Itts |-> None]
    /\ tx' = <<>>
    /\ UNCHANGED disk

\* The peer reads a response.
Deliver ==
    /\ tx # <<>>
    /\ tx' = Tail(tx)
    /\ UNCHANGED <<stage, bound, params, stat_sn, exp_cmd_sn, in_flight, disk>>

Init ==
    /\ stage = "Closed"
    /\ bound = FALSE
    /\ params = [burst |-> DefaultBurst, segment |-> DefaultSegment]
    /\ stat_sn = 0
    /\ exp_cmd_sn = 0
    /\ in_flight = [i \in Itts |-> None]
    /\ disk = Master
    /\ tx = <<>>

\* Any peer, conforming or not.
Next == (\E r \in Requests : Handle(r)) \/ EndConnection \/ Accept \/ Deliver

Spec == Init /\ [][Next]_vars

-----------------------------------------------------------------------------
(* Properties *)

\* A write that waits for data: it has a buffer of EDTL cells and has not
\* received that many.
PendingWrite(p) ==
    /\ p.cmd \in ScsiCommand
    /\ p.buf \in [0 .. p.cmd.edtl - 1 -> Val \cup {Blank}]
    /\ p.received \in Nat
    /\ p.received < p.cmd.edtl

\* Shapes of the state.  A pending write still lacks data: `data_out` removes
\* it in the step that completes it, so `edtl - received` never wraps.
TypeOK ==
    /\ stage \in {"Login", "FullFeature", "Closing", "Closed"}
    /\ bound \in BOOLEAN
    /\ params \in [burst : Nat, segment : Nat]
    /\ stat_sn \in Sn
    /\ exp_cmd_sn \in Sn
    /\ in_flight = [i \in Itts |-> in_flight[i]]
    /\ \A i \in Itts : in_flight[i] # None => PendingWrite(in_flight[i])
    /\ disk \in [Lbas -> Val \cup {Blank}]
    /\ tx \in Seq(Response)

\* "target resolved in FullFeature" (the `expect` of finish_write): commands
\* and pending writes always have a target, whatever order of logins, with and
\* without TargetName, led there.
TargetResolved ==
    /\ stage = "FullFeature" => bound
    /\ (\E i \in Itts : in_flight[i] # None) => bound

InBurst(solicited) ==
    /\ solicited.len <= params.burst
    /\ params.burst > 0 => solicited.len > 0

\* An R2T on its way asks for at most the negotiated MaxBurstLength, and for
\* something unless that is zero: a later login cannot renegotiate under it.
R2tInBurst ==
    \A i \in DOMAIN tx : tx[i].op = "r2t" => InBurst(tx[i].body)

=============================================================================
