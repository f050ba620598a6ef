---------------------------- MODULE IscsiSession -----------------------------
(***************************************************************************)
(* The target of IscsiTarget with a conforming initiator over a TCP        *)
(* connection: two FIFO streams, and the loss of the connection with       *)
(* everything on its way.  The initiator (iPXE, Windows, or the testkit)   *)
(* is not part of the repository: it follows RFC 7143, answers each R2T in *)
(* the order they come, keeps to the command window, does not let commands *)
(* overlap on the disk, and logs in again after a connection is lost.  It  *)
(* opens the new connection when the target has given up the old one.      *)
(*                                                                         *)
(* The target declares no MaxRecvDataSegmentLength, so an initiator sends  *)
(* Data-Out PDUs of at most 8192 bytes, while an R2T may ask for 262144:   *)
(* it takes several PDUs to answer one.  Which sizes it uses is Segments.  *)
(* The target answers each of those PDUs with an R2T of its own and counts *)
(* bytes, not ranges.  A write whose data fits one R2T is gathered all the *)
(* same, and so is one whose PDUs carry a whole burst; of any other, cells *)
(* may be stored that nobody sent, see WriteGathered.                      *)
(***************************************************************************)
EXTENDS IscsiTarget

CONSTANTS
    Target,         \* the TargetName it logs in to
    FirstSn,        \* its first CmdSN and ExpStatSN
    OfferedBurst,   \* the MaxBurstLength it offers
    OfferedSegment, \* the MaxRecvDataSegmentLength it declares
    Segments,       \* how many cells it may put into one Data-Out PDU
    Immediate,      \* cells of immediate data it may send with a command
    Ranges,         \* the [lba, n] ranges it reads and writes
    NopImmediate,   \* whether its Nop-Outs are marked for immediate delivery
    MaxIssued,      \* bound: commands it issues
    MaxNops,        \* bound: Nop-Outs it sends
    MaxAborts,      \* bound: ABORT TASK requests it sends
    MaxConns        \* bound: connections it opens

ASSUME SessionAssumption ==
    /\ Itts # {}
    /\ Target \in Registered /\ Registered \subseteq Names
    /\ FirstSn \in Sn
    /\ OfferedBurst \in Nat \ {0} /\ OfferedSegment \in Nat
    /\ DefaultBurst > 0
    /\ Segments \subseteq Nat \ {0} /\ Immediate \in Nat
    /\ MaxIssued \in Nat /\ 1 .. MaxIssued \subseteq Val
    /\ Ranges \subseteq [lba : Nat, n : Nat \ {0}]
    /\ \A r \in Ranges : r.lba + r.n <= DiskSize

\* 16 against 2^31: a window is told from one that is closed.
ASSUME WindowAssumption == QueueDepth < SnMod \div 2

\* What a cell of the disk may hold.
Content == Val \cup {Blank}

\* What the initiator keeps of a command that is outstanding; of a write also
\* the size of its Data-Out PDUs, what its cells may hold when it has been
\* acknowledged, and what every cell might before it was issued.
ReadTask == [op : {"read"}, lba : Nat, n : Nat \ {0}]

WriteTask ==
    [op : {"write"}, lba : Nat, n : Nat \ {0}, val : Val, seg : Nat \ {0},
     after : SUBSET Content, before : [Lbas -> SUBSET Content]]

\* None stands for the absence of a task and of a pending write, and is neither.
ASSUME AbsentAssumption ==
    /\ None \notin ReadTask \cup WriteTask
    /\ \A n \in 1 .. DiskSize :
          None \notin [cmd : ScsiCommand, buf : [0 .. n - 1 -> Val \cup {Blank}], received : Nat]

VARIABLES
    rx,         \* PDUs sent to the target and not yet handled
    istage,     \* the initiator's side: "down", "login", "up" or "logout"
    tasks,      \* per ITT: the outstanding command, or None
    aborting,   \* the ITTs it has asked to abort, until the answer
    cmd_sn,     \* CmdSN of its next command
    max_cmd,    \* MaxCmdSN it was told last
    exp_stat,   \* the StatSN it expects next
    may,        \* per LBA: the values the initiator may find there
    used        \* [issued, nops, aborts, conns]: what the bounds count

initiator == <<rx, istage, tasks, aborting, cmd_sn, max_cmd, exp_stat, may, used>>

allvars == <<vars, initiator>>

Cells(t) == t.lba .. t.lba + t.n - 1

\* Serial number arithmetic: the window admits one more command.
WindowOpen == (max_cmd - cmd_sn + SnMod) % SnMod < SnMod \div 2

Busy(l) == \E i \in Itts : tasks[i] # None /\ l \in Cells(tasks[i])

SessionInit ==
    /\ Init
    /\ rx = <<>>
    /\ istage = "down"
    /\ tasks = [i \in Itts |-> None]
    /\ aborting = {}
    /\ cmd_sn = FirstSn
    /\ max_cmd = FirstSn
    /\ exp_stat = FirstSn
    /\ may = [l \in Lbas |-> {disk[l]}]
    /\ used = [issued |-> 0, nops |-> 0, aborts |-> 0, conns |-> 0]

\* It connects and sends the collapsed login: CSG 0, NSG 3, all keys at once.
Connect ==
    /\ istage = "down"
    /\ used.conns < MaxConns
    /\ Accept
    /\ istage' = "login"
    /\ rx' = <<[op |-> "login", cmd_sn |-> FirstSn, exp_stat_sn |-> FirstSn,
                name |-> Target, transit |-> TRUE, csg |-> 0, nsg |-> 3,
                burst |-> OfferedBurst, segment |-> OfferedSegment]>>
    /\ cmd_sn' = FirstSn
    /\ exp_stat' = FirstSn
    /\ used' = [used EXCEPT !.conns = @ + 1]
    /\ UNCHANGED <<tasks, aborting, max_cmd, may>>

\* A command goes out under the next CmdSN.
Issue(itt, task, pdu) ==
    /\ istage = "up"
    /\ used.issued < MaxIssued
    /\ WindowOpen
    /\ tasks[itt] = None
    /\ itt \notin aborting
    /\ \A l \in Cells(task) : ~Busy(l)
    /\ tasks' = [tasks EXCEPT ![itt] = task]
    /\ rx' = Append(rx, pdu)
    /\ cmd_sn' = (cmd_sn + 1) % SnMod
    /\ used' = [used EXCEPT !.issued = @ + 1]
    /\ UNCHANGED <<vars, istage, aborting, max_cmd, exp_stat>>

IssueRead(itt, r) ==
    /\ Issue(itt, [op |-> "read", lba |-> r.lba, n |-> r.n],
             [op |-> "scsi", itt |-> itt, read |-> TRUE, write |-> FALSE, cdb |-> "read",
              lba |-> r.lba, blocks |-> r.n, edtl |-> r.n, data |-> <<>>])
    /\ UNCHANGED may

\* The burst of a session, by SessionParams::negotiate.
Burst == Smaller(OfferedBurst, DefaultBurst)

\* The target gathers a write exactly when one R2T asks for all that is missing,
\* or one PDU answers any R2T.
Exact(missing, seg) == missing <= Burst \/ Burst <= seg

\* What the cells of a write of v may hold after it: v, and, when the target
\* counts bytes it already has for bytes that are still to come, blanks.
After(v, missing, seg) == IF Exact(missing, seg) THEN {v} ELSE {v, Blank}

WriteTaskOf(r, v, now, seg) ==
    [op |-> "write", lba |-> r.lba, n |-> r.n, val |-> v, seg |-> seg,
     after |-> After(v, r.n - now, seg), before |-> may]

\* The value it writes is the number of the command, so no two writes are alike.
IssueWrite(itt, r) ==
    LET v == used.issued + 1
    IN  \E now \in 0 .. Smaller(Immediate, r.n), seg \in Segments :
          LET task == WriteTaskOf(r, v, now, seg)
          IN  /\ Issue(itt, task,
                    [op |-> "scsi", itt |-> itt, read |-> FALSE, write |-> TRUE, cdb |-> "write",
                     lba |-> r.lba, blocks |-> r.n, edtl |-> r.n, data |-> [k \in 1 .. now |-> v]])
              /\ may' = [l \in Lbas |->
                            IF l \in Cells(task) THEN may[l] \cup task.after ELSE may[l]]

\* The tag of a request that is no task; nothing depends on it.
NoTask == CHOOSE i \in Itts : TRUE

\* A Nop-Out takes a CmdSN unless it is marked for immediate delivery.
SendNop ==
    /\ istage = "up"
    /\ used.nops < MaxNops
    /\ NopImmediate \/ WindowOpen
    /\ rx' = Append(rx, [op |-> "nop", itt |-> NoTask])
    /\ cmd_sn' = IF NopImmediate THEN cmd_sn ELSE (cmd_sn + 1) % SnMod
    /\ used' = [used EXCEPT !.nops = @ + 1]
    /\ UNCHANGED <<vars, istage, tasks, aborting, max_cmd, exp_stat, may>>

\* ABORT TASK, for immediate delivery; no more data is sent for the task.  The
\* ITT of the request stands for the task it refers to.
SendAbort(itt) ==
    /\ istage = "up"
    /\ used.aborts < MaxAborts
    /\ tasks[itt] # None
    /\ itt \notin aborting
    /\ aborting' = aborting \cup {itt}
    /\ rx' = Append(rx, [op |-> "tmf", itt |-> itt])
    /\ used' = [used EXCEPT !.aborts = @ + 1]
    /\ UNCHANGED <<vars, istage, tasks, cmd_sn, max_cmd, exp_stat, may>>

\* Logout, for immediate delivery, when nothing is outstanding.
SendLogout ==
    /\ istage = "up"
    /\ aborting = {}
    /\ \A i \in Itts : tasks[i] = None
    /\ istage' = "logout"
    /\ rx' = Append(rx, [op |-> "logout", itt |-> NoTask])
    /\ UNCHANGED <<vars, tasks, aborting, cmd_sn, max_cmd, exp_stat, may, used>>

\* The Data-Out PDUs that answer an R2T.
DataOuts(itt, task, r2t) ==
    LET seg == task.seg
        n == (r2t.len + seg - 1) \div seg
    IN  [k \in 1 .. n |->
            [op |-> "dataout", itt |-> itt, off |-> r2t.off + (k - 1) * seg,
             data |-> [j \in 1 .. Smaller(seg, r2t.len - (k - 1) * seg) |-> task.val]]]

\* A task ends.  In the cells of a write the initiator may then find: after
\* GOOD what it wrote, after an abort that was in time what was there before,
\* after an error either.
End(itt, ended) ==
    LET task == tasks[itt]
        hit(l) == task.op = "write" /\ l \in Cells(task)
    IN  /\ tasks' = [tasks EXCEPT ![itt] = None]
        /\ may' = [l \in Lbas |-> IF hit(l) /\ ended = "good" THEN task.after
                                  ELSE IF hit(l) /\ ended = "aborted" THEN task.before[l]
                                  ELSE may[l]]
        /\ UNCHANGED <<rx, istage>>

\* The responses that take a StatSN: all but R2T and the Data-In PDUs that
\* carry no status.  By the RFC a Nop-In that answers a Nop-Out takes one, too,
\* and the target gives it none: this initiator lets that pass.
TakesStatSn(pdu) ==
    /\ pdu.op \notin {"r2t", "nopin"}
    /\ pdu.op = "datain" => pdu.body.final

\* The initiator reads one PDU.
Receive ==
    LET pdu == Head(tx)
        task == tasks[pdu.itt]
    IN  /\ istage # "down"
        /\ Deliver
        /\ max_cmd' = pdu.max_cmd_sn
        /\ exp_stat' = IF TakesStatSn(pdu) THEN (pdu.stat_sn + 1) % SnMod ELSE exp_stat
        /\ \/ /\ pdu.op = "login"
              /\ istage' = IF pdu.body.code = "transit" THEN "up" ELSE "down"
              /\ UNCHANGED <<rx, tasks, aborting, may>>
           \/ /\ pdu.op = "r2t"
              /\ rx' = IF task # None /\ task.op = "write" /\ pdu.itt \notin aborting
                       THEN rx \o DataOuts(pdu.itt, task, pdu.body) ELSE rx
              /\ UNCHANGED <<istage, tasks, aborting, may>>
           \/ /\ pdu.op = "datain" /\ ~pdu.body.final
              /\ UNCHANGED <<rx, istage, tasks, aborting, may>>
           \/ /\ pdu.op = "datain" /\ pdu.body.final
              /\ End(pdu.itt, "good")
              /\ UNCHANGED aborting
           \/ /\ pdu.op = "scsi"
              /\ End(pdu.itt, pdu.body.code)
              /\ UNCHANGED aborting
           \/ /\ pdu.op = "tmf"
              /\ aborting' = aborting \ {pdu.itt}
              /\ IF task = None THEN UNCHANGED <<rx, istage, tasks, may>>
                                ELSE End(pdu.itt, "aborted")
           \/ /\ pdu.op \in {"nopin", "reject"}
              /\ UNCHANGED <<rx, istage, tasks, aborting, may>>
           \/ /\ pdu.op = "logout"
              /\ istage' = "down"
              /\ UNCHANGED <<rx, tasks, aborting, may>>
        /\ UNCHANGED <<cmd_sn, used>>

\* The connection is lost, with the responses on their way; the target may
\* still handle what has reached it.  The outcome of the tasks stays unknown.
Lose ==
    /\ istage \in {"login", "up", "logout"}
    /\ used.conns < MaxConns
    /\ istage' = "down"
    /\ tasks' = [i \in Itts |-> None]
    /\ aborting' = {}
    /\ tx' = <<>>
    /\ UNCHANGED <<conn, disk, rx, cmd_sn, max_cmd, exp_stat, may, used>>

TargetStep ==
    /\ rx # <<>>
    /\ Handle(Head(rx))
    /\ rx' = Tail(rx)
    /\ UNCHANGED <<istage, tasks, aborting, cmd_sn, max_cmd, exp_stat, may, used>>

\* The target closes after a logout, or finds that its peer is gone.
TargetClose ==
    /\ stage = "Closing" \/ istage = "down"
    /\ EndConnection
    /\ rx' = <<>>
    /\ UNCHANGED <<istage, tasks, aborting, cmd_sn, max_cmd, exp_stat, may, used>>

InitiatorStep(itt) ==
    \/ \E r \in Ranges : IssueRead(itt, r) \/ IssueWrite(itt, r)
    \/ SendAbort(itt)

SessionNext ==
    \/ Connect
    \/ \E itt \in Itts : InitiatorStep(itt)
    \/ SendNop
    \/ SendLogout
    \/ Receive
    \/ Lose
    \/ TargetStep
    \/ TargetClose

SessionSpec == SessionInit /\ [][SessionNext]_allvars

\* The connection's task is scheduled whenever it has something to handle, and
\* the initiator reads what it is sent.
FairSessionSpec ==
    SessionSpec /\ WF_allvars(TargetStep) /\ WF_allvars(TargetClose) /\ WF_allvars(Receive)

-----------------------------------------------------------------------------
(* Properties *)

\* The PDUs that end a command.
Answers(pdu) == pdu.op = "scsi" \/ (pdu.op = "datain" /\ pdu.body.final)

\* A command that is neither answered nor given up is not forgotten: its PDU is
\* still to be handled, or its write waits for data that is on its way or asked
\* for, or its answer is on its way.  A Data-Out that is rejected because its
\* write is complete (data_out) never takes the place of one that is needed.
NothingForgotten ==
    istage = "up" => \A i \in Itts : tasks[i] # None /\ i \notin aborting =>
        \/ \E j \in DOMAIN rx : rx[j].op = "scsi" /\ rx[j].itt = i
        \/ \E j \in DOMAIN tx : Answers(tx[j]) /\ tx[j].itt = i
        \/ /\ in_flight[i] # None
           /\ \/ \E j \in DOMAIN rx : rx[j].op = "dataout" /\ rx[j].itt = i
              \/ \E j \in DOMAIN tx : tx[j].op = "r2t" /\ tx[j].itt = i

\* What the disk holds is what the initiator may expect: every acknowledged
\* write, nothing of a write whose abort was confirmed, and of a write whose
\* outcome is unknown its data or what was there before.  A blank is expected
\* only where a write was issued that the target does not gather exactly.
StoredAsAcknowledged == \A l \in Lbas : disk[l] \in may[l]

\* The data of a read on its way to the initiator is what it may expect, and
\* the last PDU completes it.
ReadsAsAcknowledged ==
    \A i \in DOMAIN tx : tx[i].op = "datain" /\ tasks[tx[i].itt] # None =>
        LET task == tasks[tx[i].itt]
            d == tx[i].body
        IN  /\ \A k \in DOMAIN d.data : d.data[k] \in may[task.lba + d.off + k - 1]
            /\ d.final => d.off + Len(d.data) = task.n

\* "stat_sn increments once per response-bearing PDU we send" (session and
\* transport design, section 4): the initiator sees StatSN without a gap and,
\* but for Nop-Ins, without a repetition.
StatSnInOrder == istage # "down" /\ tx # <<>> => Head(tx).stat_sn = exp_stat

\* "We advertise max_cmd_sn = exp_cmd_sn + QUEUE_DEPTH so the initiator may
\* keep issuing commands" (session and transport design, section 4): when all
\* is answered, the window admits a command.
WindowOpenAtRest == istage = "up" /\ rx = <<>> /\ tx = <<>> => WindowOpen

\* "Write data being gathered for one command until EDTL bytes have arrived"
\* (doc of PendingWrite): no byte that the initiator never sent is stored.
WriteGathered == \A l \in Lbas : disk[l] # Blank

\* Every command ends: its R2Ts are answered, and its answer arrives.
CommandsEnd == \A itt \in Itts : tasks[itt] # None ~> tasks[itt] = None

=============================================================================
