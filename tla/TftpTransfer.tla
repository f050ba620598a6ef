---------------------------- MODULE TftpTransfer -----------------------------
(***************************************************************************)
(* The TFTP server (net/tftp/server.rs) and one client over UDP: datagrams *)
(* are lost, duplicated and overtake each other.  The task spawned for a   *)
(* request is a transfer on an ephemeral socket of its own, named by its   *)
(* TID; a request that arrives twice is served twice.  The client (a PXE   *)
(* ROM or iPXE) is not part of the repository: it follows RFC 1350, takes  *)
(* the first TID that answers for its server and acknowledges what it      *)
(* holds.                                                                  *)
(*                                                                         *)
(* A file is its length; byte k of it is the number k.  The retransmission *)
(* timeout doubles with each retry and is reset with the retries, so it is *)
(* a function of them and is left out.                                     *)
(***************************************************************************)
EXTENDS Integers, Sequences, Bags, BagsExt

CONSTANTS
    Lookup,         \* per file name: "file", or why the name is refused
    FileLen,        \* bytes of the file
    DefaultBlk,     \* 512
    MinBlk,         \* 8: the least blksize the server accepts
    MaxBlk,         \* DEFAULT_MAX_BLKSIZE
    BlockMod,       \* 2^16: block numbers are u16
    MaxRetries,     \* DEFAULT_MAX_RETRIES
    Tids,           \* bound: the sockets of the transfers
    None,           \* no TID: a one-shot socket, or a client that has no server yet
    Requests,       \* the requests the client may send
    Prompt,         \* whether datagrams arrive within the timeouts
    MayPowerOff,    \* whether the client may vanish in mid-transfer
    MaxLoss,        \* bound: datagrams lost
    MaxDup,         \* bound: datagrams duplicated
    MaxFaults,      \* bound: errors of the server's sockets
    MaxPatience     \* bound: timeouts of the client

ToMain(p) == p.op \in {"rrq", "wrq"}

ASSUME TftpAssumption ==
    /\ FileLen \in Nat
    /\ DefaultBlk \in Nat \ {0} /\ MinBlk \in Nat \ {0} /\ MaxBlk \in Nat \ {0}
    /\ BlockMod \in Nat /\ BlockMod > 2
    /\ MaxRetries \in Nat
    /\ None \notin Tids

\* What packet::parse makes of a request: the options are a vector of pairs.
ASSUME RequestsAssumption ==
    \A r \in Requests : ToMain(r) /\ r.opts \in Seq([key : STRING, val : Nat])

VARIABLES
    srv,        \* per TID: the transfer's phase and the locals of transfer_blocks
    net,        \* the bag of datagrams on their way
    cl,         \* the client
    used        \* [loss, dup, fault, patience]: what the bounds count

vars == <<srv, net, cl, used>>

Smaller(a, b) == IF a < b THEN a ELSE b

-----------------------------------------------------------------------------
(* Datagrams *)

Ack(t, b) == [op |-> "ack", tid |-> t, block |-> b]

\* An ERROR of the client, for a datagram from a TID that is not its server's.
Refusal(t) == [op |-> "refusal", tid |-> t]

Oack(t, bs) == [op |-> "oack", tid |-> t, bs |-> bs]

Error(t, code) == [op |-> "error", tid |-> t, code |-> code]

ToTransfer(p) == p.op \in {"ack", "refusal"}

ToClient(p) == p.op \in {"oack", "data", "error"}

InFlight == BagToSet(net)

-----------------------------------------------------------------------------
(* The server *)

\* The first acceptable blksize of the request, capped; a value that is no u16
\* is given as 0.
NegotiateBlksize(opts) ==
    LET good == {i \in DOMAIN opts : opts[i].key = "blksize" /\ opts[i].val >= MinBlk}
    IN  IF good = {} THEN DefaultBlk
        ELSE Smaller(opts[CHOOSE i \in good : \A j \in good : i <= j].val, MaxBlk)

\* Mutant of Chunk: the slice is not cut at the end of the file.
ChunkUncut(s) == [from |-> (s.current - 1) * s.bs, len |-> s.bs]

\* Mutant of Chunk: the offset is counted in default blocks.
ChunkDefaultSize(s) ==
    LET start == (s.current - 1) * DefaultBlk
    IN  [from |-> start, len |-> Smaller(start + s.bs, FileLen) - start]

\* The slice of the file that is the current block.
Chunk(s) ==
    LET start == (s.current - 1) * s.bs
    IN  [from |-> start, len |-> Smaller(start + s.bs, FileLen) - start]

\* Mutant of IsLast: a full block may be the last.
IsLastFull(s) == Chunk(s).len <= s.bs

IsLast(s) == Chunk(s).len < s.bs

Data(t, s) ==
    [op |-> "data", tid |-> t, block |-> s.current, from |-> Chunk(s).from, len |-> Chunk(s).len]

\* The top of the loop: slice the block and send it.  For block 0 the slice's
\* start underflows, and the task panics.
Transmit(t, s, rest) ==
    IF s.current = 0
    THEN /\ srv' = [srv EXCEPT ![t] = [s EXCEPT !.phase = "panicked"]]
         /\ net' = rest
    ELSE /\ srv' = [srv EXCEPT ![t] = s]
         /\ net' = BagAdd(rest, Data(t, s))

EndTransfer(t, phase) == srv' = [srv EXCEPT ![t].phase = phase]

\* Another attempt, or the end.  Of all the ways to run out of retries only
\* a timeout before the last block tells the client.
Retry(t, rest, timedOut) ==
    LET s == [srv[t] EXCEPT !.retries = @ + 1]
    IN  IF s.retries <= MaxRetries THEN Transmit(t, s, rest)
        ELSE /\ srv' = [srv EXCEPT ![t] = [s EXCEPT !.phase = "gaveup"]]
             /\ net' = IF timedOut /\ ~IsLast(s) THEN BagAdd(rest, Error(t, 0)) ELSE rest

\* The block number after an acknowledged block.
NextBlock(b) == (b + 1) % BlockMod

\* Mutant of Acknowledges: an ACK of an earlier block counts.
AcknowledgesEarlier(p, s) == p.op = "ack" /\ p.block <= s.current

\* The datagram is the ACK the loop waits for.
Acknowledges(p, s) == p.op = "ack" /\ p.block = s.current

\* Mutant of Advance: the retries of earlier blocks count on.
AdvanceKeepRetries(s) == [s EXCEPT !.current = NextBlock(@)]

\* On to the next block.
Advance(s) == [s EXCEPT !.current = NextBlock(@), !.retries = 0]

\* The ERROR code a name is refused with.
RefusalCode(why) ==
    CASE why \in {"unsafe", "outside"} -> 2
      [] why \in {"missing", "unreadable"} -> 1
      [] why = "noroot" -> 0

\* A request arrives on port 69; the task it spawns runs until it waits.
HandleRequest(p, t) ==
    LET rest == BagRemove(net, p)
        s == [phase |-> "data", bs |-> NegotiateBlksize(p.opts), current |-> 1, retries |-> 0]
    IN  /\ ToMain(p)
        /\ srv[t].phase = "free"
        /\ \/ /\ p.op = "wrq"
              /\ net' = BagAdd(rest, Error(None, 2))
              /\ UNCHANGED srv
           \/ /\ p.op = "rrq" /\ Lookup[p.name] # "file"
              /\ net' = BagAdd(rest, Error(None, RefusalCode(Lookup[p.name])))
              /\ UNCHANGED srv
           \/ /\ p.op = "rrq" /\ Lookup[p.name] = "file" /\ p.opts # <<>>
              /\ srv' = [srv EXCEPT ![t] = [s EXCEPT !.phase = "oack"]]
              /\ net' = BagAdd(rest, Oack(t, s.bs))
           \/ /\ p.op = "rrq" /\ Lookup[p.name] = "file" /\ p.opts = <<>>
              /\ Transmit(t, s, rest)
        /\ UNCHANGED <<cl, used>>

\* The answer to the OACK; anything but ACK 0 ends the transfer.
HandleOackAnswer(p) ==
    LET t == p.tid
        rest == BagRemove(net, p)
    IN  /\ ToTransfer(p)
        /\ srv[t].phase = "oack"
        /\ \/ /\ p = Ack(t, 0)
              /\ Transmit(t, [srv[t] EXCEPT !.phase = "data"], rest)
           \/ /\ p # Ack(t, 0)
              /\ EndTransfer(t, "gaveup")
              /\ net' = rest
        /\ UNCHANGED <<cl, used>>

\* A datagram arrives while the current block waits for its ACK.
HandleAck(p) ==
    LET t == p.tid
        s == srv[t]
        rest == BagRemove(net, p)
    IN  /\ ToTransfer(p)
        /\ s.phase = "data"
        /\ \/ /\ Acknowledges(p, s) /\ IsLast(s)
              /\ EndTransfer(t, "done")
              /\ net' = rest
           \/ /\ Acknowledges(p, s) /\ ~IsLast(s)
              /\ Transmit(t, Advance(s), rest)
           \/ /\ ~Acknowledges(p, s)
              /\ Retry(t, rest, FALSE)
        /\ UNCHANGED <<cl, used>>

\* Nothing that could end the wait of a transfer or of the client is on its way.
Quiet(t) == ~Prompt \/ \A p \in InFlight : p.tid # t

OackTimeout(t) ==
    /\ srv[t].phase = "oack"
    /\ Quiet(t)
    /\ EndTransfer(t, "gaveup")
    /\ UNCHANGED <<net, cl, used>>

\* Mutant of Timeout: no timer while the final ACK is awaited.
TimeoutNotLast(t) ==
    /\ srv[t].phase = "data"
    /\ ~IsLast(srv[t])
    /\ Quiet(t)
    /\ Retry(t, net, TRUE)
    /\ UNCHANGED <<cl, used>>

Timeout(t) ==
    /\ srv[t].phase = "data"
    /\ Quiet(t)
    /\ Retry(t, net, TRUE)
    /\ UNCHANGED <<cl, used>>

\* recv_from fails: a retry in the loop, the end while waiting for ACK 0.
RecvError(t) ==
    /\ used.fault < MaxFaults
    /\ used' = [used EXCEPT !.fault = @ + 1]
    /\ \/ srv[t].phase = "oack" /\ EndTransfer(t, "gaveup") /\ UNCHANGED net
       \/ srv[t].phase = "data" /\ Retry(t, net, FALSE)
    /\ UNCHANGED cl

\* The next send_to fails: the task returns the error.
SendError(t) ==
    /\ used.fault < MaxFaults
    /\ used' = [used EXCEPT !.fault = @ + 1]
    /\ srv[t].phase \in {"oack", "data"}
    /\ EndTransfer(t, "failed")
    /\ UNCHANGED <<net, cl>>

-----------------------------------------------------------------------------
(* The network *)

Lose(p) ==
    /\ used.loss < MaxLoss
    /\ used' = [used EXCEPT !.loss = @ + 1]
    /\ net' = BagRemove(net, p)
    /\ UNCHANGED <<srv, cl>>

Duplicate(p) ==
    /\ used.dup < MaxDup
    /\ used' = [used EXCEPT !.dup = @ + 1]
    /\ net' = BagAdd(net, p)
    /\ UNCHANGED <<srv, cl>>

\* A datagram to a socket that was closed, or to a client that is gone.
Discard(p) ==
    /\ \/ ToTransfer(p) /\ srv[p.tid].phase \notin {"oack", "data"}
       \/ ToClient(p) /\ cl.phase = "off"
    /\ net' = BagRemove(net, p)
    /\ UNCHANGED <<srv, cl, used>>

-----------------------------------------------------------------------------
(* The client *)

\* It sends its request, and repeats it until something answers.
Request(r) ==
    /\ cl.phase = "idle"
    /\ cl' = [cl EXCEPT !.phase = "asking", !.req = r]
    /\ net' = BagAdd(net, r)
    /\ UNCHANGED <<srv, used>>

\* The block it has acknowledged last.
LastAcked == (cl.expected + BlockMod - 1) % BlockMod

\* It waits in vain, and repeats what it said last.
ClientTimeout ==
    /\ used.patience < MaxPatience
    /\ Quiet(cl.tid)
    /\ used' = [used EXCEPT !.patience = @ + 1]
    /\ \/ cl.phase = "asking" /\ net' = BagAdd(net, cl.req)
       \/ cl.phase = "receiving" /\ net' = BagAdd(net, Ack(cl.tid, LastAcked))
    /\ UNCHANGED <<srv, cl>>

\* A datagram of its server, or of the first TID that answers.
Ours(p) == cl.phase = "asking" \/ p.tid = cl.tid

\* An OACK starts the transfer with its block size; repeated, it is
\* acknowledged again until data has come.
TakeOack(p, rest) ==
    /\ p.op = "oack"
    /\ IF cl.phase = "asking" \/ (cl.phase = "receiving" /\ cl.expected = 1)
       THEN /\ cl' = [cl EXCEPT !.phase = "receiving", !.tid = p.tid, !.bs = p.bs]
            /\ net' = BagAdd(rest, Ack(p.tid, 0))
       ELSE UNCHANGED cl /\ net' = rest

\* The block it expects is kept and acknowledged, the one before it is
\* acknowledged again.
TakeData(p, rest) ==
    /\ p.op = "data"
    /\ \/ /\ cl.phase \in {"asking", "receiving"}
          /\ p.block = cl.expected
          /\ cl' = [cl EXCEPT !.phase = IF p.len < cl.bs THEN "done" ELSE "receiving",
                              !.tid = p.tid,
                              !.expected = NextBlock(@),
                              !.got = @ \o [k \in 1 .. p.len |-> p.from + k]]
          /\ net' = BagAdd(rest, Ack(p.tid, p.block))
       \/ /\ ~(cl.phase \in {"asking", "receiving"} /\ p.block = cl.expected)
          /\ net' = IF p.block = LastAcked THEN BagAdd(rest, Ack(p.tid, p.block)) ELSE rest
          /\ UNCHANGED cl

TakeError(p, rest) ==
    /\ p.op = "error"
    /\ cl' = [cl EXCEPT !.phase = IF @ = "done" THEN @ ELSE "failed"]
    /\ net' = rest

ClientReceive(p) ==
    LET rest == BagRemove(net, p)
    IN  /\ ToClient(p)
        /\ cl.phase \in {"asking", "receiving", "done", "failed"}
        /\ \/ Ours(p) /\ (TakeOack(p, rest) \/ TakeData(p, rest) \/ TakeError(p, rest))
           \/ /\ ~Ours(p)
              /\ net' = IF p.op = "error" THEN rest ELSE BagAdd(rest, Refusal(p.tid))
              /\ UNCHANGED cl
        /\ UNCHANGED <<srv, used>>

\* It has what it wanted, or is switched off.
PowerOff ==
    /\ cl.phase # "off"
    /\ MayPowerOff \/ cl.phase \in {"done", "failed"}
    /\ cl' = [cl EXCEPT !.phase = "off"]
    /\ UNCHANGED <<srv, net, used>>

-----------------------------------------------------------------------------

Init ==
    /\ srv = [t \in Tids |-> [phase |-> "free", bs |-> DefaultBlk, current |-> 1, retries |-> 0]]
    /\ net = EmptyBag
    /\ cl = [phase |-> "idle", req |-> None, tid |-> None, bs |-> DefaultBlk, expected |-> 1,
             got |-> <<>>]
    /\ used = [loss |-> 0, dup |-> 0, fault |-> 0, patience |-> 0]

ServerTimeout(t) == OackTimeout(t) \/ Timeout(t)

ServerReceive(p) ==
    (\E t \in Tids : HandleRequest(p, t)) \/ HandleOackAnswer(p) \/ HandleAck(p)

Next ==
    \/ \E r \in Requests : Request(r)
    \/ ClientTimeout
    \/ PowerOff
    \/ \E t \in Tids : ServerTimeout(t) \/ RecvError(t) \/ SendError(t)
    \/ \E p \in InFlight :
          ServerReceive(p) \/ ClientReceive(p) \/ Lose(p) \/ Duplicate(p) \/ Discard(p)

Spec == Init /\ [][Next]_vars

\* The runtime fires the timers and polls the sockets, datagrams that are not
\* lost arrive, and a client that has no answer repeats itself.
FairSpec ==
    /\ Spec
    /\ \A t \in Tids : WF_vars(ServerTimeout(t))
    /\ WF_vars(\E p \in InFlight : ServerReceive(p) \/ ClientReceive(p) \/ Discard(p))
    /\ WF_vars(ClientTimeout)

-----------------------------------------------------------------------------
(* Properties *)

Phases == {"free", "oack", "data", "done", "gaveup", "failed", "panicked"}

\* Block numbers stay u16, retries within the limit that ends a transfer, and
\* every DATA on its way holds a slice of the file.
TypeOK ==
    /\ srv \in [Tids -> [phase : Phases, bs : Nat \ {0}, current : 0 .. BlockMod - 1,
                         retries : 0 .. MaxRetries + 1]]
    /\ \A p \in InFlight : p.op = "data" => p.from \in 0 .. FileLen /\ p.len \in 0 .. FileLen - p.from

\* What the client holds is a prefix of the file, in order and without a gap,
\* and the whole of it once the client takes the transfer for finished.
FileExact ==
    /\ Len(cl.got) <= FileLen
    /\ \A k \in DOMAIN cl.got : cl.got[k] = k
    /\ cl.phase = "done" => Len(cl.got) = FileLen

\* A transfer counts as successful, return Ok on the final ACK, only when the
\* client holds the whole file from it.
SuccessMeansDelivered ==
    \A t \in Tids : srv[t].phase = "done" => cl.tid = t /\ Len(cl.got) = FileLen

\* A transfer waits for an ACK of a block the client has had the chance to
\* receive: the client is never ahead by more than the block in question.
Lockstep ==
    \A t \in Tids : srv[t].phase = "data" /\ cl.tid = t =>
        cl.expected \in {srv[t].current, NextBlock(srv[t].current)}

\* Every transfer ends, whatever becomes of its client.
TransfersEnd == \A t \in Tids : srv[t].phase \in {"oack", "data"} ~> srv[t].phase \notin {"oack", "data"}

\* As long as the retries are no fewer than what the network loses and
\* duplicates, a client that asks for the file without options, and is not
\* switched off, gets all of it: also when the last block has the highest
\* number there is, and whatever is sent again, the task does not run into
\* block 0, where it panics.
FileArrives ==
    cl.phase = "asking" /\ cl.req.opts = <<>> ~> cl.phase \in {"done", "off"}

=============================================================================
