----------------------------- MODULE ScsiTarget -----------------------------
(***************************************************************************)
(* The SCSI target of one client (iscsi/scsi): the logical units that the  *)
(* HTTP handler puts together, LUN 0 the system disk and then the games,   *)
(* and the execution of CDBs against them, with an initiator that finds    *)
(* the disks, learns their capacity and writes them in both command sizes. *)
(*                                                                         *)
(* Bytes of a disk are modelled one by one, those of a parameter page are  *)
(* not: a page is its payload, the length the payload has after the length *)
(* field, and the length that the field declares.  Integers keep their     *)
(* width: U16, U32, U64 and LunByte count the values of the fields.        *)
(***************************************************************************)
EXTENDS Integers, Sequences, FiniteSets

CONSTANTS
    U16, U32, U64,  \* 2^16, 2^32, 2^64 in the code
    Byte,           \* 256: values of the length fields of a VPD page
    LunByte,        \* 256: values of the byte of a LUN field with the number
    BlockSize,      \* 512 in LogicalUnit::new
    Clients,        \* what a boot may find configured: sequences of disk sizes in bytes
    IqnLen,         \* length of a client's IQN, which is the serial of LUN 0
    Ranges,         \* <<lba, blocks>> that the initiator asks for
    MaxWrites,      \* bound: writes
    MaxFailures,    \* bound: failures of the medium
    Unknown

VARIABLES
    luns,   \* ScsiTarget::luns: size in bytes and serial of each, LUN n at n + 1
    disk,   \* the contents of the volumes: byte number to value
    found,  \* the LUN fields of the last REPORT LUNS, or Unknown
    cap,    \* blocks the initiator takes each LUN to have, or Unknown
    expect, \* what the initiator may find in each byte of each LUN
    last,   \* the command that was answered last, until the initiator has taken the answer
    writes, \* writes so far
    fails   \* failures of the medium so far

vars == <<luns, disk, found, cap, expect, last, writes, fails>>

ASSUME WidthAssumption ==
    /\ {U16, U32, U64, Byte, LunByte, BlockSize} \subseteq Nat \ {0}
    /\ U16 <= U32 /\ U32 <= U64
\* No validation bounds the number of games or the length of a client's name.
\* What is said below holds while their numbers fit the bytes they are put in,
\* and for disks of at least one block.  size_bytes is a u64.
ASSUME ClientsAssumption ==
    \A c \in Clients : /\ c \in Seq(Nat) /\ Len(c) \in 1 .. LunByte
                       /\ \A i \in 1 .. Len(c) : c[i] >= BlockSize /\ c[i] < U64
ASSUME IqnAssumption == IqnLen \in Nat /\ IqnLen + 24 < Byte /\ 15 + 24 < Byte
ASSUME UnknownAssumption == Unknown \notin Nat
ASSUME RangesAssumption == Ranges \subseteq (0 .. U64 - 1) \X (0 .. U32 - 1)

LunNumbers == 0 .. Len(luns) - 1
TotalBlocks(lu) == lu.size \div BlockSize

-----------------------------------------------------------------------------
(* Outcomes: ok, good, check and the sense data *)

NoData == [page |-> "none"]
NoSense == <<>>
Ok == [status |-> "GOOD", data |-> NoData, sense |-> NoSense]
Good(d) == [Ok EXCEPT !.data = d]
Check(key, asc) == [status |-> "CHECK CONDITION", data |-> NoData, sense |-> <<key, asc>>]

Page(name, declared, length, body) ==
    [page |-> name, declared |-> declared, length |-> length, body |-> body]

-----------------------------------------------------------------------------
(* Identity of a logical unit.  A serial is an owner and a length. *)

Serial(iqn, n) == [name |-> iqn, len |-> n]
DefaultSerial == Serial("XBOOT0000000001", 15)

StandardInquiry == Page("standard", 31, 36 - 5, <<"XBOOT", "VDISK">>)

VpdSupportedPages == Page("supported", 3, 3, {"supported", "serial", "id"})

VpdUnitSerial(lu) == Page("serial", lu.serial.len % Byte, lu.serial.len, lu.serial)

\* The length byte of the designator: vendor (8), product (16), serial.
DeviceIdLength(lu) == (24 + lu.serial.len) % Byte

\* One T10 designator; the page's own length is 16 bits wide and fits.
VpdDeviceId(lu) == Page("id", DeviceIdLength(lu), 24 + lu.serial.len, lu.serial)

Inquiry(lu, evpd, page) ==
    CASE ~evpd /\ page = 0 -> Good(StandardInquiry)
      [] evpd /\ page = 0 -> Good(VpdSupportedPages)
      [] evpd /\ page = 128 -> Good(VpdUnitSerial(lu))
      [] evpd /\ page = 131 -> Good(VpdDeviceId(lu))
      [] OTHER -> Check("ILLEGAL REQUEST", "INVALID FIELD IN CDB")

\* The caching page is 20 bytes; the header is 8 or 4 bytes, and its length
\* field does not count itself.
ModeSense(ten, page) ==
    LET pages == IF page \in {8, 63} THEN 20 ELSE 0
        body == IF pages = 0 THEN {} ELSE {"WCE"}
    IN  Good(IF ten THEN Page("mode10", 6 + pages, 8 + pages - 2, body)
                    ELSE Page("mode6", 3 + pages, 4 + pages - 1, body))

RequestSense == Good(Page("sense", 10, 18 - 8, "NO SENSE"))

-----------------------------------------------------------------------------
(* Capacity, READ and WRITE *)

LastBlock(lu) == IF TotalBlocks(lu) = 0 THEN 0 ELSE TotalBlocks(lu) - 1

Capacity(last_, bs) == [page |-> "capacity", last |-> last_, bs |-> bs]

\* Mutant of ReadCapacity10: the last block is cut to 32 bits.
ReadCapacity10Cut(lu) == Good(Capacity(LastBlock(lu) % U32, BlockSize))

\* READ CAPACITY(10): all ones when the last block has no 32-bit number.
ReadCapacity10(lu) ==
    Good(Capacity(IF LastBlock(lu) > U32 - 1 THEN U32 - 1 ELSE LastBlock(lu), BlockSize))

ReadCapacity16(lu) == Good(Capacity(LastBlock(lu), BlockSize))

\* The fields of a READ or WRITE: 32 and 16 bits wide in a CDB of 10 bytes,
\* 64 and 32 bits in one of 16.
FitsIn(ten, lba, blocks) ==
    IF ten THEN lba < U32 /\ blocks < U16 ELSE lba < U64 /\ blocks < U32

\* Mutant of InRange: the end of the range is computed modulo 2^64.
InRangeWrapping(lu, lba, blocks) == (lba + blocks) % U64 <= TotalBlocks(lu)

\* checked_add, and the end within the disk.
InRange(lu, lba, blocks) == lba + blocks < U64 /\ lba + blocks <= TotalBlocks(lu)

\* Volume::check_bounds.
VolumeHas(lu, lba, blocks) == (lba + blocks) * BlockSize <= lu.size

OutOfRange == Check("ILLEGAL REQUEST", "LBA OUT OF RANGE")
ReadError == Check("MEDIUM ERROR", "UNRECOVERED READ ERROR")
WriteError == Check("MEDIUM ERROR", "WRITE ERROR")

\* cdb::read on the contents d of the disk.  `fail`: the volume's master does.
Read(lu, d, lba, blocks, fail) ==
    CASE blocks = 0 -> Ok
      [] blocks > 0 /\ ~InRange(lu, lba, blocks) -> OutOfRange
      [] OTHER ->
            IF fail \/ ~VolumeHas(lu, lba, blocks) THEN ReadError
            ELSE Good([page |-> "blocks",
                       bytes |-> [i \in 1 .. blocks * BlockSize |-> d[lba * BlockSize + i - 1]]])

\* Mutant of Stored: the offset of a write ignores the block size.
StoredUnscaled(d, lba, k, v) ==
    [b \in DOMAIN d |-> IF b >= lba /\ b < lba + k THEN <<v, b - lba>> ELSE d[b]]

\* The first k bytes of write v stored from block lba on.
Stored(d, lba, k, v) ==
    [b \in DOMAIN d |-> IF b >= lba * BlockSize /\ b < lba * BlockSize + k
                        THEN <<v, b - lba * BlockSize>> ELSE d[b]]

-----------------------------------------------------------------------------
(* The target: LUN addressing and dispatch *)

\* Mutant of LunNumber: the number is taken from the first byte.
LunNumberTopByte(f) == f.method

\* lun_number: flat addressing, the lower 48 bits are not looked at.
LunNumber(f) == IF f.method # 0 THEN Unknown ELSE f.number

LunField(n) == [method |-> 0, number |-> n % LunByte]

\* REPORT LUNS: one field per LUN, and 8 bytes in the declared length for each.
ReportLuns ==
    LET n == Cardinality(LunNumbers)
    IN  Good(Page("luns", 8 * n, 8 * n, {LunField(i) : i \in LunNumbers}))

Resolves(f) == LunNumber(f) \in LunNumbers

NotSupported == Check("ILLEGAL REQUEST", "LUN NOT SUPPORTED")

\* execute and dispatch of a command that stores nothing.  A command that
\* addresses no logical unit is refused first, REPORT LUNS too.
Execute(f, c, fail) ==
    IF ~Resolves(f) THEN NotSupported
    ELSE LET n == LunNumber(f)
             lu == luns[n + 1]
         IN  CASE c.op = "REPORT LUNS" -> ReportLuns
               [] c.op \in {"TEST UNIT READY", "SYNC CACHE", "PREVENT ALLOW", "START STOP"} -> Ok
               [] c.op = "INQUIRY" -> Inquiry(lu, c.evpd, c.page)
               [] c.op = "READ CAPACITY 10" -> ReadCapacity10(lu)
               [] c.op = "SERVICE ACTION IN 16" /\ c.action = 16 -> ReadCapacity16(lu)
               [] c.op = "REQUEST SENSE" -> RequestSense
               [] c.op = "MODE SENSE" -> ModeSense(c.ten, c.page)
               [] c.op = "READ" -> Read(lu, disk[n], c.lba, c.blocks, fail)
               [] OTHER -> Check("ILLEGAL REQUEST", "INVALID OPCODE")

\* The outcomes of cdb::write, with `size` bytes of data, before the medium is
\* touched; none when it gets as far as storing.
WriteRefusals(f, c, size) ==
    IF ~Resolves(f) THEN {NotSupported}
    ELSE LET lu == luns[LunNumber(f) + 1]
         IN  CASE c.blocks = 0 -> {Ok}
               [] c.blocks > 0 /\ ~InRange(lu, c.lba, c.blocks) -> {OutOfRange}
               [] c.blocks > 0 /\ InRange(lu, c.lba, c.blocks) /\ size # c.blocks * BlockSize ->
                     {Check("ILLEGAL REQUEST", "INVALID FIELD IN CDB")}
               [] OTHER -> IF VolumeHas(lu, c.lba, c.blocks) THEN {} ELSE {WriteError}

-----------------------------------------------------------------------------
(* What an initiator sends.  LUN fields and CDBs other than WRITE: *)

Fields == [method : 0 .. 1, number : 0 .. LunByte - 1]

Commands ==
    [op : {"REPORT LUNS", "TEST UNIT READY", "SYNC CACHE", "PREVENT ALLOW", "START STOP",
           "READ CAPACITY 10", "REQUEST SENSE", "OTHER"}]
    \cup [op : {"INQUIRY"}, evpd : BOOLEAN, page : {0, 1, 128, 131}]
    \cup [op : {"SERVICE ACTION IN 16"}, action : {16, 17}]
    \cup [op : {"MODE SENSE"}, ten : BOOLEAN, page : {0, 8, 63}]

Reads ==
    {c \in [op : {"READ"}, ten : BOOLEAN, lba : {r[1] : r \in Ranges}, blocks : {r[2] : r \in Ranges}] :
        <<c.lba, c.blocks>> \in Ranges /\ FitsIn(c.ten, c.lba, c.blocks)}

NoCommand == [lun |-> Unknown, cdb |-> Unknown, failed |-> FALSE, out |-> Ok]

\* Http's handle: LUN 0 has the IQN for a serial, the games have the default.
LunsOf(c) ==
    [i \in 1 .. Len(c) |-> [size |-> c[i],
                            serial |-> IF i = 1 THEN Serial("IQN", IqnLen) ELSE DefaultSerial]]

Init ==
    /\ \E c \in Clients : luns = LunsOf(c)
    /\ disk = [n \in LunNumbers |-> [b \in 0 .. luns[n + 1].size - 1 |-> <<0, b>>]]
    /\ found = Unknown
    /\ cap = [n \in LunNumbers |-> Unknown]
    /\ expect = [n \in LunNumbers |-> [b \in 0 .. luns[n + 1].size - 1 |-> {<<0, b>>}]]
    /\ last = NoCommand
    /\ writes = 0 /\ fails = 0

Idle == last = NoCommand

Answered(f, c, fail) ==
    /\ Idle
    /\ last' = [lun |-> f, cdb |-> c, failed |-> fail, out |-> Execute(f, c, fail)]

\* Any command but READ and WRITE, to any LUN field.
Probe ==
    /\ \E f \in Fields, c \in Commands : Answered(f, c, FALSE)
    /\ UNCHANGED <<luns, disk, found, cap, expect, writes, fails>>

\* Discovery: REPORT LUNS to LUN 0.
Discover ==
    LET c == [op |-> "REPORT LUNS"]
    IN  /\ found = Unknown
        /\ Answered(LunField(0), c, FALSE)
        /\ found' = last'.out.data.body
        /\ UNCHANGED <<luns, disk, cap, expect, writes, fails>>

\* The capacity of a LUN that was reported: READ CAPACITY(10) and, when the
\* answer is all ones, READ CAPACITY(16).
Measure(n) ==
    LET c == [op |-> "READ CAPACITY 10"]
        short == Execute(LunField(n), c, FALSE).data.last
        c16 == [op |-> "SERVICE ACTION IN 16", action |-> 16]
    IN  /\ found # Unknown /\ LunField(n) \in found /\ cap[n] = Unknown
        /\ IF short = U32 - 1 THEN Answered(LunField(n), c16, FALSE)
                              ELSE Answered(LunField(n), c, FALSE)
        /\ cap' = [cap EXCEPT ![n] = last'.out.data.last + 1]
        /\ UNCHANGED <<luns, disk, found, expect, writes, fails>>

\* A READ of a LUN in use, also beyond its end.
Fetch(n) ==
    \E c \in Reads, fail \in BOOLEAN :
        /\ cap[n] # Unknown
        /\ fail => fails < MaxFailures
        /\ Answered(LunField(n), c, fail)
        /\ fails' = IF fail THEN fails + 1 ELSE fails
        /\ UNCHANGED <<luns, disk, found, cap, expect, writes>>

\* What the initiator may find after a write of n bytes: the new bytes or, in
\* the range of a write that failed, old or new ones.
Expected(e, lba, n, v, good) ==
    [b \in DOMAIN e |->
        IF b \in lba * BlockSize .. lba * BlockSize + n - 1
        THEN {<<v, b - lba * BlockSize>>} \cup (IF good THEN {} ELSE e[b])
        ELSE e[b]]

\* A WRITE of a LUN in use, also beyond its end or with the wrong amount of
\* data (`short`: one byte is missing).  It is refused, or stores all blocks,
\* or those that precede a failure of the medium.
Store(n) ==
    \E r \in Ranges, ten \in BOOLEAN, short \in BOOLEAN :
        LET c == [op |-> "WRITE", ten |-> ten, lba |-> r[1], blocks |-> r[2]]
            f == LunField(n)
            size == r[2] * BlockSize - (IF short THEN 1 ELSE 0)
            refusals == WriteRefusals(f, c, size)
            v == writes + 1
        IN  /\ Idle /\ cap[n] # Unknown /\ writes < MaxWrites
            /\ FitsIn(ten, r[1], r[2]) /\ size >= 0
            /\ writes' = writes + 1
            /\ \/ \E out \in refusals :
                    /\ last' = [lun |-> f, cdb |-> c, failed |-> FALSE, out |-> out]
                    /\ UNCHANGED <<disk, expect, fails>>
               \/ \E k \in 0 .. r[2] :
                    /\ refusals = {}
                    /\ k < r[2] => fails < MaxFailures
                    /\ fails' = IF k < r[2] THEN fails + 1 ELSE fails
                    /\ disk' = [disk EXCEPT ![LunNumber(f)] = Stored(@, r[1], k * BlockSize, v)]
                    /\ expect' = [expect EXCEPT ![n] = Expected(@, r[1], size, v, k = r[2])]
                    /\ last' = [lun |-> f, cdb |-> c, failed |-> k < r[2],
                                out |-> IF k < r[2] THEN WriteError ELSE Ok]
            /\ UNCHANGED <<luns, found, cap>>

TakeAnswer ==
    /\ ~Idle /\ last' = NoCommand
    /\ UNCHANGED <<luns, disk, found, cap, expect, writes, fails>>

Next ==
    \/ TakeAnswer
    \/ Probe
    \/ Discover
    \/ \E n \in LunNumbers : Measure(n) \/ Fetch(n) \/ Store(n)

Spec == Init /\ [][Next]_vars

-----------------------------------------------------------------------------
(* Properties *)

\* What an initiator finds is what the target serves.  Every logical unit is
\* listed by REPORT LUNS under a field of its own, and no other field reaches
\* one; and the capacity that READ CAPACITY(10) or, for a disk that needs it,
\* (16) gives is what READ and WRITE address: no block below it is out of range
\* and every block from there on is.
DiscoveryExact ==
    /\ found # Unknown =>
          /\ Cardinality(found) = Len(luns)
          /\ \A f \in Fields : Resolves(f) <=> f \in found
    /\ \A n \in LunNumbers : cap[n] # Unknown =>
          \A lba \in 0 .. U64 - 1 :
              LET c == [op |-> "READ", ten |-> FALSE, lba |-> lba, blocks |-> 1]
              IN  Execute(LunField(n), c, FALSE) = OutOfRange <=> lba >= cap[n]

\* A read returns the blocks it names, with what was last written to them
\* through either size of WRITE, never with what was written to another LUN.
ReadsAsWritten ==
    last.cdb # Unknown /\ last.out.data.page = "blocks" =>
        LET bytes == last.out.data.bytes
            first == last.cdb.lba * BlockSize
        IN  /\ Len(bytes) = last.cdb.blocks * BlockSize
            /\ \A i \in 1 .. Len(bytes) : bytes[i] \in expect[last.lun.number][first + i - 1]

\* An answer describes itself and its cause.  Sense data come with CHECK
\* CONDITION only, blame the medium only when it failed, and blame the range
\* exactly when the range leaves the disk; and a page declares the length that
\* it has, the serial and the designator of a disk included.
AnswersTruthful ==
    /\ last.out.status = "GOOD" <=> last.out.sense = NoSense
    /\ last.out \in {ReadError, WriteError} => last.failed
    /\ last.cdb # Unknown /\ last.cdb.op \in {"READ", "WRITE"} /\ last.cdb.blocks > 0 =>
          (last.out = OutOfRange <=> last.cdb.lba + last.cdb.blocks > cap[last.lun.number])
    /\ "declared" \in DOMAIN last.out.data => last.out.data.declared = last.out.data.length

\* The command that was answered names byte b of LUN n for writing, and got as
\* far as the medium.
NamesByte(n, b) ==
    /\ last'.cdb.op = "WRITE" /\ last'.lun = LunField(n)
    /\ b \div BlockSize \in last'.cdb.lba .. last'.cdb.lba + last'.cdb.blocks - 1
    /\ last'.out \in {Ok, WriteError}

\* A step changes no byte of a disk but those of the range, and the LUN, that
\* its WRITE names, and none if the command is refused before the medium.
OnlyNamedBytes ==
    [][\A n \in LunNumbers : \A b \in DOMAIN disk[n] :
        disk'[n][b] # disk[n][b] => NamesByte(n, b)]_vars

=============================================================================
