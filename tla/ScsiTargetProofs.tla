-------------------------- MODULE ScsiTargetProofs ---------------------------
(***************************************************************************)
(* Proofs about ScsiTarget, for every width of the fields, block size,     *)
(* disks and ranges that its assumptions allow: what an initiator finds is *)
(* what the target serves, it reads what was written, the answers are      *)
(* truthful, and a WRITE changes no byte but those it names.               *)
(***************************************************************************)
EXTENDS ScsiTarget, TLAPS, FiniteSetTheorems, FunctionTheorems

\* The logical units are those of a client, and stay.
LunsInv == \E c \in Clients : luns = LunsOf(c)

Lun(n) == luns[n + 1]

Bytes(n) == 0 .. Lun(n).size - 1

AllFields == {LunField(i) : i \in LunNumbers}

\* Discovery has found nothing yet, or everything; a capacity is unknown or right.
FoundInv == found \in {Unknown, AllFields}

CapInv ==
    /\ DOMAIN cap = LunNumbers
    /\ \A n \in LunNumbers : cap[n] \in {Unknown, TotalBlocks(Lun(n))}

\* The disks hold what the initiator expects.
DiskInv ==
    /\ DOMAIN disk = LunNumbers /\ DOMAIN expect = LunNumbers
    /\ \A n \in LunNumbers :
          /\ DOMAIN disk[n] = Bytes(n) /\ DOMAIN expect[n] = Bytes(n)
          /\ \A b \in Bytes(n) : disk[n][b] \in expect[n][b]

Core == LunsInv /\ FoundInv /\ CapInv /\ DiskInv

TargetInv == Core /\ ReadsAsWritten /\ AnswersTruthful

-----------------------------------------------------------------------------
(* Arithmetic *)

LEMMA MulMono ==
    ASSUME NEW a \in Nat, NEW b \in Nat, NEW c \in Nat, a <= b
    PROVE  a * c <= b * c /\ a * c \in Nat /\ b * c \in Nat
  <1>1. PICK d \in Nat : b = a + d
    <2>1. b - a \in Nat /\ b = a + (b - a)
      OBVIOUS
    <2> QED
      BY <2>1
  <1>2. (a + d) * c = a * c + d * c
    OBVIOUS
  <1>3. a * c \in Nat /\ d * c \in Nat
    OBVIOUS
  <1> QED
    BY <1>1, <1>2, <1>3

\* A block lies on the disk exactly when its number is below the total.
LEMMA BlocksOnDisk ==
    ASSUME NEW size \in Nat, NEW e \in Nat
    PROVE  /\ size \div BlockSize \in Nat
           /\ size \div BlockSize <= size
           /\ size >= BlockSize => size \div BlockSize >= 1
           /\ e <= size \div BlockSize => e * BlockSize <= size
  <1> DEFINE q == size \div BlockSize
             r == size % BlockSize
  <1>1. BlockSize \in Nat /\ BlockSize >= 1
    BY WidthAssumption
  <1>2. /\ q \in Nat /\ r \in Nat /\ r < BlockSize
        /\ size = q * BlockSize + r
    BY <1>1
  <1> HIDE DEF q, r
  <1>3. q * BlockSize \in Nat
    BY <1>1, <1>2
  <1>4. q * 1 <= q * BlockSize
    BY <1>1, <1>2, MulMono
  <1>5. q <= size
    BY <1>1, <1>2, <1>3, <1>4
  <1>6. size >= BlockSize => q >= 1
    <2>1. q = 0 => q * BlockSize = 0
      BY <1>1
    <2> QED
      BY <1>1, <1>2, <1>3, <2>1
  <1>7. e <= q => e * BlockSize <= size
    <2>1. e <= q => e * BlockSize <= q * BlockSize
      BY <1>1, <1>2, MulMono
    <2>2. e * BlockSize \in Nat
      BY <1>1
    <2> QED
      BY <1>1, <1>2, <1>3, <2>1, <2>2
  <1> QED
    BY <1>2, <1>5, <1>6, <1>7 DEF q

\* A byte between two block boundaries is in one of the blocks between them.
LEMMA BlockOfByte ==
    ASSUME NEW b \in Nat, NEW lo \in Nat, NEW hi \in Nat,
           lo * BlockSize <= b, b < hi * BlockSize
    PROVE  b \div BlockSize \in lo .. hi - 1
  <1> DEFINE q == b \div BlockSize
             r == b % BlockSize
  <1>1. BlockSize \in Nat /\ BlockSize >= 1
    BY WidthAssumption
  <1>2. /\ q \in Nat /\ r \in Nat /\ r < BlockSize
        /\ b = q * BlockSize + r
    BY <1>1
  <1> HIDE DEF q, r
  <1>3. q * BlockSize \in Nat /\ lo * BlockSize \in Nat /\ hi * BlockSize \in Nat
    BY <1>1, <1>2
  <1>4. q < hi
    <2>1. hi <= q => hi * BlockSize <= q * BlockSize
      BY <1>1, <1>2, MulMono
    <2> QED
      BY <1>1, <1>2, <1>3, <2>1
  <1>5. lo <= q
    <2>1. q + 1 <= lo => (q + 1) * BlockSize <= lo * BlockSize
      BY <1>1, <1>2, MulMono
    <2>2. (q + 1) * BlockSize = q * BlockSize + BlockSize
      BY <1>1, <1>2
    <2> QED
      BY <1>1, <1>2, <1>3, <2>1, <2>2
  <1> QED
    BY <1>2, <1>4, <1>5 DEF q

-----------------------------------------------------------------------------
(* The logical units *)

LEMMA LunFacts ==
    ASSUME LunsInv
    PROVE  /\ Len(luns) \in 1 .. LunByte /\ LunByte \in Nat
           /\ \A n \in LunNumbers :
                 /\ n \in Nat /\ n < LunByte
                 /\ Lun(n).size \in Nat
                 /\ TotalBlocks(Lun(n)) \in Nat /\ TotalBlocks(Lun(n)) >= 1
                 /\ TotalBlocks(Lun(n)) < U64
                 /\ Lun(n).serial.len \in Nat /\ 24 + Lun(n).serial.len < Byte
                 /\ \A e \in Nat : e <= TotalBlocks(Lun(n)) => e * BlockSize <= Lun(n).size
  <1>1. PICK c \in Clients : luns = LunsOf(c)
    BY DEF LunsInv
  <1>2. /\ c \in Seq(Nat) /\ Len(c) \in 1 .. LunByte
        /\ \A i \in 1 .. Len(c) : c[i] >= BlockSize /\ c[i] < U64
    BY ClientsAssumption
  <1>3. LunByte \in Nat /\ U64 \in Nat /\ Byte \in Nat /\ BlockSize \in Nat
    BY WidthAssumption
  <1>4. Len(luns) = Len(c)
    BY <1>1, <1>2 DEF LunsOf
  <1>5. ASSUME NEW n \in LunNumbers
        PROVE  /\ n \in Nat /\ n < LunByte
               /\ Lun(n).size \in Nat
               /\ TotalBlocks(Lun(n)) \in Nat /\ TotalBlocks(Lun(n)) >= 1
               /\ TotalBlocks(Lun(n)) < U64
               /\ Lun(n).serial.len \in Nat /\ 24 + Lun(n).serial.len < Byte
               /\ \A e \in Nat : e <= TotalBlocks(Lun(n)) => e * BlockSize <= Lun(n).size
    <2>1. n \in Nat /\ n < LunByte /\ n + 1 \in 1 .. Len(c)
      BY <1>2, <1>3, <1>4 DEF LunNumbers
    <2>2. Lun(n) = [size |-> c[n + 1],
                    serial |-> IF n + 1 = 1 THEN Serial("IQN", IqnLen) ELSE DefaultSerial]
      BY <1>1, <2>1 DEF Lun, LunsOf
    <2>3. Lun(n).size = c[n + 1] /\ c[n + 1] \in Nat
      BY <1>2, <2>1, <2>2
    <2>4. Lun(n).serial.len \in {IqnLen, 15}
      BY <2>2 DEF Serial, DefaultSerial
    <2>5. Lun(n).serial.len \in Nat /\ 24 + Lun(n).serial.len < Byte
      BY <1>3, <2>4, IqnAssumption
    <2>6. c[n + 1] >= BlockSize /\ c[n + 1] < U64
      BY <1>2, <2>1
    <2>7. /\ TotalBlocks(Lun(n)) \in Nat /\ TotalBlocks(Lun(n)) >= 1
          /\ TotalBlocks(Lun(n)) <= Lun(n).size
          /\ \A e \in Nat : e <= TotalBlocks(Lun(n)) => e * BlockSize <= Lun(n).size
      BY <2>3, <2>6, BlocksOnDisk DEF TotalBlocks
    <2> QED
      BY <1>3, <2>1, <2>3, <2>5, <2>6, <2>7
  <1> QED
    BY <1>2, <1>3, <1>4, <1>5

\* The field of a LUN leads back to it.
LEMMA FieldOfLun ==
    ASSUME LunsInv, NEW n \in LunNumbers
    PROVE  /\ LunField(n) = [method |-> 0, number |-> n]
           /\ LunNumber(LunField(n)) = n
           /\ LunField(n).number = n
           /\ Resolves(LunField(n))
  <1>1. n \in Nat /\ n < LunByte /\ LunByte \in Nat
    BY LunFacts
  <1>2. n % LunByte = n
    BY <1>1
  <1> QED
    BY <1>2 DEF LunField, LunNumber, Resolves

-----------------------------------------------------------------------------
(* The answers *)

\* What AnswersTruthful says of an outcome alone.
Truthful(o) ==
    /\ o.status = "GOOD" <=> o.sense = NoSense
    /\ "declared" \in DOMAIN o.data => o.data.declared = o.data.length

LEMMA OkTruthful == Truthful(Ok) /\ Ok.data.page # "blocks"
  BY DEF Truthful, Ok, NoData, NoSense

LEMMA CheckTruthful ==
    ASSUME NEW key, NEW asc
    PROVE  Truthful(Check(key, asc)) /\ Check(key, asc).data.page # "blocks"
  <1>1. <<key, asc>> # <<>>
    OBVIOUS
  <1>2. /\ Check(key, asc).status # "GOOD" /\ Check(key, asc).sense = <<key, asc>>
        /\ Check(key, asc).data = NoData
    BY DEF Check
  <1> QED
    BY <1>1, <1>2 DEF Truthful, NoData, NoSense

LEMMA PageTruthful ==
    ASSUME NEW name, NEW declared, NEW length, NEW body, declared = length, name # "blocks"
    PROVE  /\ Truthful(Good(Page(name, declared, length, body)))
           /\ Good(Page(name, declared, length, body)).data.page # "blocks"
           /\ Good(Page(name, declared, length, body)).status = "GOOD"
           /\ Good(Page(name, declared, length, body)).data.body = body
  <1> DEFINE p == Page(name, declared, length, body)
  <1>1. p.declared = declared /\ p.length = length /\ p.page = name /\ p.body = body
    BY DEF Page
  <1> HIDE DEF p
  <1>2. Good(p).status = "GOOD" /\ Good(p).sense = NoSense /\ Good(p).data = p
    BY DEF Good, Ok
  <1> QED
    BY <1>1, <1>2 DEF Truthful, p

LEMMA CapacityTruthful ==
    ASSUME NEW l, NEW bs
    PROVE  /\ Truthful(Good(Capacity(l, bs)))
           /\ Good(Capacity(l, bs)).data.page # "blocks"
           /\ Good(Capacity(l, bs)).status = "GOOD"
           /\ Good(Capacity(l, bs)).data.last = l
  <1> DEFINE p == Capacity(l, bs)
  <1>1. p.page = "capacity" /\ p.last = l /\ DOMAIN p = {"page", "last", "bs"}
    BY DEF Capacity
  <1> HIDE DEF p
  <1>2. Good(p).status = "GOOD" /\ Good(p).sense = NoSense /\ Good(p).data = p
    BY DEF Good, Ok
  <1> QED
    BY <1>1, <1>2 DEF Truthful, p

LEMMA BlocksTruthful ==
    ASSUME NEW bytes
    PROVE  /\ Truthful(Good([page |-> "blocks", bytes |-> bytes]))
           /\ Good([page |-> "blocks", bytes |-> bytes]).status = "GOOD"
           /\ Good([page |-> "blocks", bytes |-> bytes]).data.bytes = bytes
  <1> DEFINE p == [page |-> "blocks", bytes |-> bytes]
  <1>1. p.bytes = bytes /\ DOMAIN p = {"page", "bytes"}
    OBVIOUS
  <1> HIDE DEF p
  <1>2. Good(p).status = "GOOD" /\ Good(p).sense = NoSense /\ Good(p).data = p
    BY DEF Good, Ok
  <1> QED
    BY <1>1, <1>2 DEF Truthful, p

\* An answer without blocks that does not blame the medium.
Plain(o) == Truthful(o) /\ o.data.page # "blocks" /\ o \notin {ReadError, WriteError}

LEMMA GoodBlamesNothing ==
    ASSUME NEW o, o.status = "GOOD"
    PROVE  o \notin {ReadError, WriteError} /\ o # OutOfRange
  <1>1. /\ ReadError.status = "CHECK CONDITION" /\ WriteError.status = "CHECK CONDITION"
        /\ OutOfRange.status = "CHECK CONDITION"
    BY DEF ReadError, WriteError, OutOfRange, Check
  <1> QED
    BY <1>1

LEMMA OkPlain == Plain(Ok) /\ Ok # OutOfRange /\ Ok.status = "GOOD"
  <1>1. Ok.status = "GOOD"
    BY DEF Ok
  <1> QED
    BY <1>1, OkTruthful, GoodBlamesNothing DEF Plain

LEMMA IllegalPlain ==
    ASSUME NEW asc
    PROVE  Plain(Check("ILLEGAL REQUEST", asc))
  <1>1. /\ Check("ILLEGAL REQUEST", asc).sense[1] = "ILLEGAL REQUEST"
        /\ ReadError.sense[1] = "MEDIUM ERROR" /\ WriteError.sense[1] = "MEDIUM ERROR"
    BY DEF Check, ReadError, WriteError
  <1> QED
    BY <1>1, CheckTruthful DEF Plain

LEMMA ErrorsDiffer ==
    /\ ReadError # OutOfRange /\ WriteError # OutOfRange
    /\ Check("ILLEGAL REQUEST", "INVALID FIELD IN CDB") # OutOfRange
  <1>1. /\ ReadError.sense[1] = "MEDIUM ERROR" /\ WriteError.sense[1] = "MEDIUM ERROR"
        /\ OutOfRange.sense[1] = "ILLEGAL REQUEST"
        /\ OutOfRange.sense[2] = "LBA OUT OF RANGE"
        /\ Check("ILLEGAL REQUEST", "INVALID FIELD IN CDB").sense[2] = "INVALID FIELD IN CDB"
    BY DEF ReadError, WriteError, OutOfRange, Check
  <1> QED
    BY <1>1

LEMMA PagePlain ==
    ASSUME NEW name, NEW declared, NEW length, NEW body, declared = length, name # "blocks"
    PROVE  Plain(Good(Page(name, declared, length, body)))
  BY PageTruthful, GoodBlamesNothing DEF Plain

LEMMA CapacityPlain ==
    ASSUME NEW l, NEW bs
    PROVE  Plain(Good(Capacity(l, bs)))
  BY CapacityTruthful, GoodBlamesNothing DEF Plain

LEMMA ReportPlain == Plain(ReportLuns) /\ ReportLuns.data.body = AllFields
  <1> DEFINE n == Cardinality(LunNumbers)
             b == {LunField(i) : i \in LunNumbers}
  <1>1. ReportLuns = Good(Page("luns", 8 * n, 8 * n, b))
    BY DEF ReportLuns
  <1>2. b = AllFields
    BY DEF AllFields
  <1> HIDE DEF n, b
  <1>3. Plain(Good(Page("luns", 8 * n, 8 * n, b)))
    BY PagePlain
  <1>4. Good(Page("luns", 8 * n, 8 * n, b)).data.body = b
    BY PageTruthful
  <1> QED
    BY <1>1, <1>2, <1>3, <1>4

LEMMA InquiryPlain ==
    ASSUME LunsInv, NEW n \in LunNumbers, NEW evpd \in BOOLEAN, NEW page
    PROVE  Plain(Inquiry(Lun(n), evpd, page))
  <1> DEFINE s == Lun(n).serial
  <1>1. s.len \in Nat /\ 24 + s.len < Byte /\ Byte \in Nat
    BY LunFacts, WidthAssumption
  <1>2. s.len % Byte = s.len /\ (24 + s.len) % Byte = 24 + s.len
    BY <1>1
  <1>3. Plain(Good(StandardInquiry)) /\ Plain(Good(VpdSupportedPages))
    BY PagePlain DEF StandardInquiry, VpdSupportedPages
  <1>4. Plain(Good(VpdUnitSerial(Lun(n))))
    BY <1>2, PagePlain DEF VpdUnitSerial
  <1>5. Plain(Good(VpdDeviceId(Lun(n))))
    BY <1>2, PagePlain DEF VpdDeviceId, DeviceIdLength
  <1>6. Plain(Check("ILLEGAL REQUEST", "INVALID FIELD IN CDB"))
    BY IllegalPlain
  <1>7. Inquiry(Lun(n), evpd, page) \in
            {Good(StandardInquiry), Good(VpdSupportedPages), Good(VpdUnitSerial(Lun(n))),
             Good(VpdDeviceId(Lun(n))), Check("ILLEGAL REQUEST", "INVALID FIELD IN CDB")}
    BY DEF Inquiry
  <1> QED
    BY <1>3, <1>4, <1>5, <1>6, <1>7

LEMMA ModePlain ==
    ASSUME NEW ten \in BOOLEAN, NEW page
    PROVE  Plain(ModeSense(ten, page))
  <1> DEFINE pages == IF page \in {8, 63} THEN 20 ELSE 0
             body == IF pages = 0 THEN {} ELSE {"WCE"}
  <1>1. pages \in Nat
    OBVIOUS
  <1>2. ModeSense(ten, page) =
            Good(IF ten THEN Page("mode10", 6 + pages, 8 + pages - 2, body)
                        ELSE Page("mode6", 3 + pages, 4 + pages - 1, body))
    BY DEF ModeSense
  <1> HIDE DEF pages, body
  <1>3. 6 + pages = 8 + pages - 2 /\ 3 + pages = 4 + pages - 1
    BY <1>1
  <1>4. /\ Plain(Good(Page("mode10", 6 + pages, 8 + pages - 2, body)))
        /\ Plain(Good(Page("mode6", 3 + pages, 4 + pages - 1, body)))
    BY <1>3, PagePlain
  <1> QED
    BY <1>2, <1>4

\* A command other than READ and WRITE has a plain answer.
LEMMA ProbePlain ==
    ASSUME LunsInv, NEW f, NEW c \in Commands
    PROVE  Plain(Execute(f, c, FALSE)) /\ c.op \notin {"READ", "WRITE"}
  <1> DEFINE n == LunNumber(f)
             lu == luns[n + 1]
  <1>1. CASE ~ Resolves(f)
    BY <1>1, IllegalPlain DEF Execute, NotSupported, Commands
  <1>2. CASE Resolves(f)
    <2>1. n \in LunNumbers /\ lu = Lun(n)
      BY <1>2 DEF Resolves, Lun
    <2>2. CASE c.op = "REPORT LUNS"
      BY <1>2, <2>2, ReportPlain DEF Execute
    <2>3. CASE c.op \in {"TEST UNIT READY", "SYNC CACHE", "PREVENT ALLOW", "START STOP"}
      BY <1>2, <2>3, OkPlain DEF Execute
    <2>4. CASE c.op = "INQUIRY"
      <3>1. c.evpd \in BOOLEAN
        BY <2>4 DEF Commands
      <3>2. Execute(f, c, FALSE) = Inquiry(lu, c.evpd, c.page)
        BY <1>2, <2>4 DEF Execute
      <3> QED
        BY <2>1, <2>4, <3>1, <3>2, InquiryPlain
    <2>5. CASE c.op = "READ CAPACITY 10"
      BY <1>2, <2>5, CapacityPlain DEF Execute, ReadCapacity10
    <2>6. CASE c.op = "SERVICE ACTION IN 16"
      BY <1>2, <2>6, CapacityPlain, IllegalPlain DEF Execute, ReadCapacity16
    <2>7. CASE c.op = "REQUEST SENSE"
      <3>1. Plain(RequestSense)
        <4> DEFINE b == "NO SENSE"
        <4>1. RequestSense = Good(Page("sense", 10, 10, b))
          BY DEF RequestSense
        <4> HIDE DEF b
        <4> QED
          BY <4>1, PagePlain
      <3> QED
        BY <1>2, <2>7, <3>1 DEF Execute
    <2>8. CASE c.op = "MODE SENSE"
      <3>1. c.ten \in BOOLEAN
        BY <2>8 DEF Commands
      <3>2. Execute(f, c, FALSE) = ModeSense(c.ten, c.page)
        BY <1>2, <2>8 DEF Execute
      <3> QED
        BY <2>8, <3>1, <3>2, ModePlain
    <2>9. CASE c.op = "OTHER"
      BY <1>2, <2>9, IllegalPlain DEF Execute
    <2> QED
      BY <2>2, <2>3, <2>4, <2>5, <2>6, <2>7, <2>8, <2>9 DEF Commands
  <1> QED
    BY <1>1, <1>2

\* The range check of the target leaves no work to the one of the volume, and
\* does not overflow for a range on the disk.
LEMMA RangeChecks ==
    ASSUME LunsInv, NEW n \in LunNumbers, NEW lba \in Nat, NEW blocks \in Nat
    PROVE  /\ InRange(Lun(n), lba, blocks) <=> lba + blocks <= TotalBlocks(Lun(n))
           /\ InRange(Lun(n), lba, blocks) => VolumeHas(Lun(n), lba, blocks)
  <1>1. /\ TotalBlocks(Lun(n)) \in Nat /\ TotalBlocks(Lun(n)) < U64 /\ U64 \in Nat
        /\ lba + blocks \in Nat
        /\ \A e \in Nat : e <= TotalBlocks(Lun(n)) => e * BlockSize <= Lun(n).size
    BY LunFacts, WidthAssumption
  <1>2. InRange(Lun(n), lba, blocks) <=> lba + blocks <= TotalBlocks(Lun(n))
    BY <1>1 DEF InRange
  <1> QED
    BY <1>1, <1>2 DEF VolumeHas

LEMMA ReadOutcome ==
    ASSUME LunsInv, NEW n \in LunNumbers, NEW lba \in Nat, NEW blocks \in Nat,
           NEW fail \in BOOLEAN, NEW d, NEW o, o = Read(Lun(n), d, lba, blocks, fail)
    PROVE  /\ Truthful(o)
           /\ o \in {ReadError, WriteError} => fail
           /\ blocks > 0 => (o = OutOfRange <=> lba + blocks > TotalBlocks(Lun(n)))
           /\ o.data.page = "blocks" =>
                 /\ lba + blocks <= TotalBlocks(Lun(n))
                 /\ o.data.bytes =
                       [i \in 1 .. blocks * BlockSize |-> d[lba * BlockSize + i - 1]]
  <1> DEFINE bytes == [i \in 1 .. blocks * BlockSize |-> d[lba * BlockSize + i - 1]]
  <1>1. CASE blocks = 0
    <2>1. o = Ok
      BY <1>1 DEF Read
    <2> QED
      BY <1>1, <2>1, OkPlain DEF Plain
  <1>2. CASE blocks > 0 /\ ~ InRange(Lun(n), lba, blocks)
    <2>1. o = OutOfRange
      BY <1>2 DEF Read
    <2>2. lba + blocks > TotalBlocks(Lun(n))
      BY <1>2, RangeChecks, LunFacts
    <2> QED
      BY <2>1, <2>2, IllegalPlain DEF OutOfRange, Plain
  <1>3. CASE blocks > 0 /\ InRange(Lun(n), lba, blocks)
    <2>1. VolumeHas(Lun(n), lba, blocks) /\ lba + blocks <= TotalBlocks(Lun(n))
      BY <1>3, RangeChecks
    <2>2. ~ (lba + blocks > TotalBlocks(Lun(n)))
      BY <2>1, LunFacts
    <2>3. o = IF fail THEN ReadError ELSE Good([page |-> "blocks", bytes |-> bytes])
      BY <1>3, <2>1 DEF Read
    <2> HIDE DEF bytes
    <2>4. CASE fail
      <3>1. Truthful(o) /\ o.data.page # "blocks"
        BY <2>3, <2>4, CheckTruthful DEF ReadError
      <3>2. o # OutOfRange
        BY <2>3, <2>4, ErrorsDiffer
      <3> QED
        BY <2>2, <2>4, <3>1, <3>2
    <2>5. CASE ~ fail
      <3>1. Truthful(o) /\ o.status = "GOOD" /\ o.data.bytes = bytes
        BY <2>3, <2>5, BlocksTruthful
      <3> QED
        BY <2>1, <2>2, <3>1, GoodBlamesNothing DEF bytes
    <2> QED
      BY <2>4, <2>5
  <1> QED
    BY <1>1, <1>2, <1>3

-----------------------------------------------------------------------------
(* The steps *)

LEMMA InitInv == Init => TargetInv
  <1> SUFFICES ASSUME Init PROVE TargetInv
    OBVIOUS
  <1>1. LunsInv /\ FoundInv /\ CapInv
    BY DEF Init, LunsInv, FoundInv, CapInv
  <1>2. DiskInv
    BY DEF Init, DiskInv, Bytes, Lun
  <1>3. last = NoCommand
    BY DEF Init
  <1>4. last.cdb = Unknown /\ last.out = Ok
    BY <1>3 DEF NoCommand
  <1>5. ReadsAsWritten /\ AnswersTruthful
    BY <1>4, OkPlain DEF ReadsAsWritten, AnswersTruthful, Plain, Truthful
  <1> QED
    BY <1>1, <1>2, <1>5 DEF TargetInv, Core

LEMMA TakeInv ==
    ASSUME TargetInv, TakeAnswer
    PROVE  TargetInv'
  <1>1. Core'
    BY DEF TargetInv, TakeAnswer, Core, LunsInv, FoundInv, CapInv, DiskInv, AllFields,
           LunNumbers, Lun, Bytes
  <1>2. last' = NoCommand
    BY DEF TakeAnswer
  <1>3. last'.cdb = Unknown /\ last'.out = Ok
    BY <1>2 DEF NoCommand
  <1>4. ReadsAsWritten' /\ AnswersTruthful'
    BY <1>3, OkPlain DEF ReadsAsWritten, AnswersTruthful, Plain, Truthful
  <1> QED
    BY <1>1, <1>4 DEF TargetInv

\* A plain answer to a command that addresses no blocks is as the invariants say.
LEMMA PlainAnswer ==
    ASSUME NEW f, NEW c, NEW o, Plain(o), c.op \notin {"READ", "WRITE"},
           last' = [lun |-> f, cdb |-> c, failed |-> FALSE, out |-> o]
    PROVE  ReadsAsWritten' /\ AnswersTruthful'
  <1>1. last'.cdb = c /\ last'.out = o
    OBVIOUS
  <1>2. ReadsAsWritten'
    BY <1>1 DEF ReadsAsWritten, Plain
  <1>3. AnswersTruthful'
    BY <1>1 DEF AnswersTruthful, Plain, Truthful
  <1> QED
    BY <1>2, <1>3

LEMMA ProbeInv ==
    ASSUME TargetInv, Probe
    PROVE  TargetInv'
  <1>1. Core'
    BY DEF TargetInv, Probe, Core, LunsInv, FoundInv, CapInv, DiskInv, AllFields,
           LunNumbers, Lun, Bytes
  <1>2. PICK f \in Fields, c \in Commands : Answered(f, c, FALSE)
    BY DEF Probe
  <1>3. PICK o : o = Execute(f, c, FALSE)
    OBVIOUS
  <1>4. Plain(o) /\ c.op \notin {"READ", "WRITE"}
    BY <1>3, ProbePlain DEF TargetInv, Core
  <1>5. last' = [lun |-> f, cdb |-> c, failed |-> FALSE, out |-> o]
    BY <1>2, <1>3 DEF Answered
  <1>6. ReadsAsWritten' /\ AnswersTruthful'
    BY <1>4, <1>5, PlainAnswer
  <1> QED
    BY <1>1, <1>6 DEF TargetInv

LEMMA DiscoverInv ==
    ASSUME TargetInv, Discover
    PROVE  TargetInv'
  <1> DEFINE c == [op |-> "REPORT LUNS"]
             f == LunField(0)
  <1>1. LunsInv /\ Answered(f, c, FALSE)
    BY DEF TargetInv, Core, Discover
  <1>2. c \in Commands
    BY DEF Commands
  <1>3. Resolves(f)
    <2>1. 0 \in LunNumbers
      <3>1. Len(luns) \in 1 .. LunByte /\ LunByte \in Nat
        BY <1>1, LunFacts
      <3> QED
        BY <3>1 DEF LunNumbers
    <2> QED
      BY <1>1, <2>1, FieldOfLun
  <1>4. Execute(f, c, FALSE) = ReportLuns
    BY <1>3 DEF Execute
  <1>5. PICK o : o = Execute(f, c, FALSE)
    OBVIOUS
  <1>6. Plain(o) /\ c.op \notin {"READ", "WRITE"}
    BY <1>1, <1>2, <1>5, ProbePlain
  <1>7. last' = [lun |-> f, cdb |-> c, failed |-> FALSE, out |-> o]
    BY <1>1, <1>5 DEF Answered
  <1>8. ReadsAsWritten' /\ AnswersTruthful'
    <2> HIDE DEF c, f
    <2> QED
      BY <1>6, <1>7, PlainAnswer
  <1>9. found' = AllFields
    BY <1>4, <1>5, <1>7, ReportPlain DEF Discover
  <1>10. Core'
    BY <1>9 DEF TargetInv, Discover, Core, LunsInv, FoundInv, CapInv, DiskInv, AllFields,
           LunNumbers, Lun, Bytes
  <1> QED
    BY <1>8, <1>10 DEF TargetInv

\* READ CAPACITY(10) tells the last block unless its number takes all ones or more.
LEMMA CapacityOutcome ==
    ASSUME LunsInv, NEW n \in LunNumbers
    PROVE  /\ Execute(LunField(n), [op |-> "READ CAPACITY 10"], FALSE) = ReadCapacity10(Lun(n))
           /\ Execute(LunField(n), [op |-> "SERVICE ACTION IN 16", action |-> 16], FALSE)
                 = ReadCapacity16(Lun(n))
           /\ ReadCapacity16(Lun(n)).data.last + 1 = TotalBlocks(Lun(n))
           /\ ReadCapacity10(Lun(n)).data.last # U32 - 1 =>
                 ReadCapacity10(Lun(n)).data.last + 1 = TotalBlocks(Lun(n))
  <1>1. Resolves(LunField(n)) /\ luns[LunNumber(LunField(n)) + 1] = Lun(n)
    BY FieldOfLun DEF Lun
  <1>2. Execute(LunField(n), [op |-> "READ CAPACITY 10"], FALSE) = ReadCapacity10(Lun(n))
    BY <1>1 DEF Execute
  <1>3. Execute(LunField(n), [op |-> "SERVICE ACTION IN 16", action |-> 16], FALSE)
            = ReadCapacity16(Lun(n))
    BY <1>1 DEF Execute
  <1>4. LastBlock(Lun(n)) = TotalBlocks(Lun(n)) - 1 /\ TotalBlocks(Lun(n)) \in Nat
    BY LunFacts DEF LastBlock
  <1>5. ReadCapacity16(Lun(n)).data.last = LastBlock(Lun(n))
    BY CapacityTruthful DEF ReadCapacity16
  <1>6. ReadCapacity10(Lun(n)).data.last =
            IF LastBlock(Lun(n)) > U32 - 1 THEN U32 - 1 ELSE LastBlock(Lun(n))
    BY CapacityTruthful DEF ReadCapacity10
  <1>7. ReadCapacity16(Lun(n)).data.last + 1 = TotalBlocks(Lun(n))
    BY <1>4, <1>5
  <1>8. ReadCapacity10(Lun(n)).data.last # U32 - 1 =>
            ReadCapacity10(Lun(n)).data.last + 1 = TotalBlocks(Lun(n))
    BY <1>4, <1>6
  <1> QED
    BY <1>2, <1>3, <1>7, <1>8

LEMMA MeasureInv ==
    ASSUME TargetInv, NEW n \in LunNumbers, Measure(n)
    PROVE  TargetInv'
  <1> DEFINE c10 == [op |-> "READ CAPACITY 10"]
             c16 == [op |-> "SERVICE ACTION IN 16", action |-> 16]
             f == LunField(n)
  <1>1. LunsInv /\ CapInv
    BY DEF TargetInv, Core
  <1>2. c10 \in Commands /\ c16 \in Commands
    BY DEF Commands
  <1>3. PICK c \in {c10, c16} :
            /\ Answered(f, c, FALSE)
            /\ Execute(f, c, FALSE).data.last + 1 = TotalBlocks(Lun(n))
    <2>1. CASE Execute(f, c10, FALSE).data.last = U32 - 1
      BY <1>1, <2>1, CapacityOutcome DEF Measure
    <2>2. CASE Execute(f, c10, FALSE).data.last # U32 - 1
      BY <1>1, <2>2, CapacityOutcome DEF Measure
    <2> QED
      BY <2>1, <2>2
  <1> HIDE DEF c10, c16, f
  <1>4. PICK o : o = Execute(f, c, FALSE)
    OBVIOUS
  <1>5. Plain(o) /\ c.op \notin {"READ", "WRITE"}
    BY <1>1, <1>2, <1>4, ProbePlain
  <1>6. last' = [lun |-> f, cdb |-> c, failed |-> FALSE, out |-> o]
    BY <1>3, <1>4 DEF Answered
  <1>7. ReadsAsWritten' /\ AnswersTruthful'
    BY <1>5, <1>6, PlainAnswer
  <1>8. cap' = [cap EXCEPT ![n] = TotalBlocks(Lun(n))]
    BY <1>3, <1>4, <1>6 DEF Measure
  <1>9. CapInv'
    BY <1>1, <1>8 DEF CapInv, Measure, LunNumbers, Lun
  <1>10. (LunsInv /\ FoundInv /\ DiskInv)'
    BY DEF TargetInv, Measure, Core, LunsInv, FoundInv, DiskInv, AllFields, LunNumbers, Lun, Bytes
  <1> QED
    BY <1>7, <1>9, <1>10 DEF TargetInv, Core

LEMMA FetchInv ==
    ASSUME TargetInv, NEW n \in LunNumbers, Fetch(n)
    PROVE  TargetInv'
  <1>1. PICK c \in Reads, fail \in BOOLEAN : Answered(LunField(n), c, fail)
    BY DEF Fetch
  <1>2. /\ LunsInv /\ CapInv /\ DiskInv /\ cap[n] # Unknown
        /\ UNCHANGED <<luns, disk, found, cap, expect, writes>>
    BY DEF TargetInv, Core, Fetch
  <1>3. Core'
    BY <1>2 DEF TargetInv, Core, LunsInv, FoundInv, CapInv, DiskInv, AllFields,
           LunNumbers, Lun, Bytes
  <1>4. /\ c.op = "READ" /\ c.lba \in Nat /\ c.blocks \in Nat
    <2>1. c.op = "READ" /\ <<c.lba, c.blocks>> \in Ranges
      BY DEF Reads
    <2>2. <<c.lba, c.blocks>> \in (0 .. U64 - 1) \X (0 .. U32 - 1)
      BY <2>1, RangesAssumption
    <2> QED
      BY <2>1, <2>2
  <1>5. cap[n] = TotalBlocks(Lun(n)) /\ TotalBlocks(Lun(n)) \in Nat
    BY <1>2, LunFacts DEF CapInv
  <1>6. PICK o : o = Read(Lun(n), disk[n], c.lba, c.blocks, fail)
    OBVIOUS
  <1>7. last' = [lun |-> LunField(n), cdb |-> c, failed |-> fail, out |-> o]
    <2>1. /\ Resolves(LunField(n)) /\ LunNumber(LunField(n)) = n
          /\ luns[LunNumber(LunField(n)) + 1] = Lun(n)
      BY <1>2, FieldOfLun DEF Lun
    <2>2. Execute(LunField(n), c, fail) = o
      BY <1>4, <1>6, <2>1 DEF Execute
    <2> QED
      BY <1>1, <2>2 DEF Answered
  <1>8. /\ last'.lun.number = n /\ last'.cdb = c /\ last'.out = o /\ last'.failed = fail
    BY <1>2, <1>7, FieldOfLun
  <1> DEFINE lba == c.lba
             blocks == c.blocks
             bytes == [i \in 1 .. blocks * BlockSize |-> disk[n][lba * BlockSize + i - 1]]
  <1>9. /\ Truthful(o)
        /\ o \in {ReadError, WriteError} => fail
        /\ blocks > 0 => (o = OutOfRange <=> lba + blocks > TotalBlocks(Lun(n)))
        /\ o.data.page = "blocks" =>
              lba + blocks <= TotalBlocks(Lun(n)) /\ o.data.bytes = bytes
    BY <1>2, <1>4, <1>6, ReadOutcome
  <1>10. AnswersTruthful'
    BY <1>2, <1>5, <1>8, <1>9 DEF AnswersTruthful, Truthful
  <1>11. ReadsAsWritten'
    <2> SUFFICES ASSUME o.data.page = "blocks"
                 PROVE  /\ Len(bytes) = blocks * BlockSize
                        /\ \A i \in 1 .. Len(bytes) :
                              bytes[i] \in expect[n][lba * BlockSize + i - 1]
      BY <1>2, <1>8, <1>9 DEF ReadsAsWritten
    <2>1. lba \in Nat /\ blocks \in Nat /\ BlockSize \in Nat
      BY <1>4, WidthAssumption
    <2>2. (lba + blocks) * BlockSize <= Lun(n).size /\ Lun(n).size \in Nat
      <3>1. lba + blocks <= TotalBlocks(Lun(n))
        BY <1>9
      <3>2. PICK e \in Nat : e = lba + blocks
        BY <2>1
      <3> HIDE DEF lba, blocks
      <3>3. e <= TotalBlocks(Lun(n)) => e * BlockSize <= Lun(n).size
        BY <1>2, LunFacts
      <3>4. Lun(n).size \in Nat
        BY <1>2, LunFacts
      <3> QED
        BY <3>1, <3>2, <3>3, <3>4
    <2> HIDE DEF lba, blocks
    <2>3. /\ (lba + blocks) * BlockSize = lba * BlockSize + blocks * BlockSize
          /\ lba * BlockSize \in Nat /\ blocks * BlockSize \in Nat
      BY <2>1
    <2>4. Len(bytes) = blocks * BlockSize
      BY <2>3
    <2>5. ASSUME NEW i \in 1 .. blocks * BlockSize
          PROVE  bytes[i] \in expect[n][lba * BlockSize + i - 1]
      <3>1. lba * BlockSize + i - 1 \in Bytes(n)
        BY <2>2, <2>3 DEF Bytes
      <3>2. bytes[i] = disk[n][lba * BlockSize + i - 1]
        OBVIOUS
      <3> QED
        BY <1>2, <3>1, <3>2 DEF DiskInv
    <2> QED
      BY <2>4, <2>5
  <1> QED
    BY <1>3, <1>10, <1>11 DEF TargetInv

\* What a WRITE of LUN n with range lba, blocks may do: it is refused and changes
\* nothing, or stores its first k blocks.
WriteRefused(n, c, o) ==
    /\ last' = [lun |-> LunField(n), cdb |-> c, failed |-> FALSE, out |-> o]
    /\ disk' = disk /\ expect' = expect
    /\ Plain(o)
    /\ c.blocks > 0 => (o = OutOfRange <=> c.lba + c.blocks > TotalBlocks(Lun(n)))

WriteStored(n, c, k, v) ==
    /\ c.blocks > 0 /\ c.lba + c.blocks <= TotalBlocks(Lun(n))
    /\ disk' = [disk EXCEPT ![n] = Stored(disk[n], c.lba, k * BlockSize, v)]
    /\ expect' = [expect EXCEPT ![n] =
                    Expected(expect[n], c.lba, c.blocks * BlockSize, v, k = c.blocks)]
    /\ last' = [lun |-> LunField(n), cdb |-> c, failed |-> k < c.blocks,
                out |-> IF k < c.blocks THEN WriteError ELSE Ok]

LEMMA StoreStep ==
    ASSUME LunsInv, NEW n \in LunNumbers, Store(n)
    PROVE  /\ UNCHANGED <<luns, found, cap>> /\ cap[n] # Unknown
           /\ \E c \in [op : {"WRITE"}, ten : BOOLEAN, lba : Nat, blocks : Nat] :
                 \/ \E o : WriteRefused(n, c, o)
                 \/ \E k \in 0 .. c.blocks : \E v : WriteStored(n, c, k, v)
  <1> DEFINE f == LunField(n)
             Cdb(r, ten) == [op |-> "WRITE", ten |-> ten, lba |-> r[1], blocks |-> r[2]]
             Size(r, short) == r[2] * BlockSize - (IF short THEN 1 ELSE 0)
             Refusals(r, ten, short) == WriteRefusals(f, Cdb(r, ten), Size(r, short))
  <1>1. PICK r \in Ranges, ten \in BOOLEAN, short \in BOOLEAN :
            /\ cap[n] # Unknown /\ Size(r, short) >= 0
            /\ \/ \E o \in Refusals(r, ten, short) :
                     /\ last' = [lun |-> f, cdb |-> Cdb(r, ten), failed |-> FALSE, out |-> o]
                     /\ UNCHANGED <<disk, expect, fails>>
               \/ \E k \in 0 .. r[2] :
                     /\ Refusals(r, ten, short) = {}
                     /\ disk' = [disk EXCEPT ![LunNumber(f)] =
                                    Stored(disk[LunNumber(f)], r[1], k * BlockSize, writes + 1)]
                     /\ expect' = [expect EXCEPT ![n] =
                                    Expected(expect[n], r[1], Size(r, short), writes + 1, k = r[2])]
                     /\ last' = [lun |-> f, cdb |-> Cdb(r, ten), failed |-> k < r[2],
                                 out |-> IF k < r[2] THEN WriteError ELSE Ok]
            /\ UNCHANGED <<luns, found, cap>>
    BY DEF Store
  <1>2. r[1] \in Nat /\ r[2] \in Nat
    BY RangesAssumption
  <1> DEFINE c == Cdb(r, ten)
             size == Size(r, short)
  <1>3. /\ c \in [op : {"WRITE"}, ten : BOOLEAN, lba : Nat, blocks : Nat]
        /\ c.lba = r[1] /\ c.blocks = r[2]
    BY <1>2
  <1>4. /\ Resolves(f) /\ LunNumber(f) = n /\ luns[LunNumber(f) + 1] = Lun(n)
    BY FieldOfLun DEF Lun
  <1>5. /\ InRange(Lun(n), r[1], r[2]) <=> r[1] + r[2] <= TotalBlocks(Lun(n))
        /\ InRange(Lun(n), r[1], r[2]) => VolumeHas(Lun(n), r[1], r[2])
        /\ TotalBlocks(Lun(n)) \in Nat
    BY <1>2, RangeChecks, LunFacts
  <1> DEFINE invalid == Check("ILLEGAL REQUEST", "INVALID FIELD IN CDB")
  <1>6. Refusals(r, ten, short) =
            CASE r[2] = 0 -> {Ok}
              [] r[2] > 0 /\ ~ InRange(Lun(n), r[1], r[2]) -> {OutOfRange}
              [] r[2] > 0 /\ InRange(Lun(n), r[1], r[2]) /\ size # r[2] * BlockSize -> {invalid}
              [] OTHER -> IF VolumeHas(Lun(n), r[1], r[2]) THEN {} ELSE {WriteError}
    BY <1>3, <1>4 DEF WriteRefusals
  <1> HIDE DEF c, f, size, invalid, Refusals, Size
  <1>7. ASSUME NEW o \in Refusals(r, ten, short),
               last' = [lun |-> f, cdb |-> c, failed |-> FALSE, out |-> o],
               UNCHANGED <<disk, expect, fails>>
        PROVE  WriteRefused(n, c, o)
    <2>1. CASE r[2] = 0
      <3>1. o = Ok
        BY <1>6, <1>7, <2>1
      <3> QED
        BY <1>3, <1>7, <2>1, <3>1, OkPlain DEF WriteRefused, f
    <2>2. CASE r[2] > 0 /\ ~ InRange(Lun(n), r[1], r[2])
      <3>1. o = OutOfRange /\ r[1] + r[2] > TotalBlocks(Lun(n))
        BY <1>2, <1>5, <1>6, <1>7, <2>2
      <3> QED
        BY <1>3, <1>7, <3>1, IllegalPlain DEF WriteRefused, OutOfRange, f
    <2>3. CASE r[2] > 0 /\ InRange(Lun(n), r[1], r[2])
      <3>1. o = invalid /\ ~ (r[1] + r[2] > TotalBlocks(Lun(n)))
        BY <1>2, <1>5, <1>6, <1>7, <2>3
      <3>2. Plain(invalid) /\ invalid # OutOfRange
        BY IllegalPlain, ErrorsDiffer DEF invalid
      <3> QED
        BY <1>3, <1>7, <3>1, <3>2 DEF WriteRefused, f
    <2> QED
      BY <1>2, <2>1, <2>2, <2>3
  <1>8. ASSUME NEW k \in 0 .. r[2], Refusals(r, ten, short) = {},
               disk' = [disk EXCEPT ![LunNumber(f)] =
                          Stored(disk[LunNumber(f)], r[1], k * BlockSize, writes + 1)],
               expect' = [expect EXCEPT ![n] =
                          Expected(expect[n], r[1], size, writes + 1, k = r[2])],
               last' = [lun |-> f, cdb |-> c, failed |-> k < r[2],
                        out |-> IF k < r[2] THEN WriteError ELSE Ok]
        PROVE  WriteStored(n, c, k, writes + 1)
    <2>1. r[2] > 0 /\ InRange(Lun(n), r[1], r[2]) /\ size = r[2] * BlockSize
      <3>1. r[2] = 0 => Refusals(r, ten, short) = {Ok}
        BY <1>6
      <3>2. r[2] > 0 /\ ~ InRange(Lun(n), r[1], r[2]) => Refusals(r, ten, short) = {OutOfRange}
        BY <1>6
      <3>3. r[2] > 0 /\ InRange(Lun(n), r[1], r[2]) /\ size # r[2] * BlockSize =>
               Refusals(r, ten, short) = {invalid}
        BY <1>6
      <3>4. r[2] = 0 \/ r[2] > 0
        BY <1>2
      <3> QED
        BY <1>8, <3>1, <3>2, <3>3, <3>4
    <2> QED
      BY <1>3, <1>4, <1>5, <1>8, <2>1 DEF WriteStored, f
  <1> QED
    BY <1>1, <1>3, <1>7, <1>8 DEF c, size

\* The byte a write stores is expected, and so is what a failed write leaves.
LEMMA StoredExpected ==
    ASSUME NEW d, NEW e, NEW D \in SUBSET Nat, DOMAIN d = D, DOMAIN e = D,
           \A b \in D : d[b] \in e[b],
           NEW lba \in Nat, NEW blocks \in Nat, NEW k \in 0 .. blocks, NEW v
    PROVE  /\ DOMAIN Stored(d, lba, k * BlockSize, v) = D
           /\ DOMAIN Expected(e, lba, blocks * BlockSize, v, k = blocks) = D
           /\ \A b \in D : Stored(d, lba, k * BlockSize, v)[b] \in
                            Expected(e, lba, blocks * BlockSize, v, k = blocks)[b]
  <1> DEFINE K == k * BlockSize
             N == blocks * BlockSize
             L == lba * BlockSize
  <1>1. K \in Nat /\ N \in Nat /\ L \in Nat /\ K <= N
    BY WidthAssumption, MulMono
  <1>2. k = blocks => K = N
    OBVIOUS
  <1> HIDE DEF K, N, L
  <1>3. ASSUME NEW b \in D
        PROVE  Stored(d, lba, K, v)[b] \in Expected(e, lba, N, v, k = blocks)[b]
    <2>1. Stored(d, lba, K, v)[b] = IF b >= L /\ b < L + K THEN <<v, b - L>> ELSE d[b]
      BY DEF Stored, L
    <2>2. Expected(e, lba, N, v, k = blocks)[b] =
              IF b \in L .. L + N - 1
              THEN {<<v, b - L>>} \cup (IF k = blocks THEN {} ELSE e[b])
              ELSE e[b]
      BY DEF Expected, L
    <2>3. b \in Nat /\ d[b] \in e[b]
      OBVIOUS
    <2>4. CASE b >= L /\ b < L + K
      <3>1. b \in L .. L + N - 1
        BY <1>1, <2>3, <2>4
      <3> QED
        BY <2>1, <2>2, <2>4, <3>1
    <2>5. CASE ~ (b >= L /\ b < L + K)
      <3>1. b \in L .. L + N - 1 => k # blocks
        BY <1>1, <1>2, <2>3, <2>5
      <3> QED
        BY <2>1, <2>2, <2>3, <2>5, <3>1
    <2> QED
      BY <2>4, <2>5
  <1>4. DOMAIN Stored(d, lba, K, v) = D /\ DOMAIN Expected(e, lba, N, v, k = blocks) = D
    BY DEF Stored, Expected
  <1> QED
    BY <1>3, <1>4 DEF K, N

LEMMA StoreInv ==
    ASSUME TargetInv, NEW n \in LunNumbers, Store(n)
    PROVE  TargetInv'
  <1>1. LunsInv /\ CapInv /\ DiskInv /\ FoundInv
    BY DEF TargetInv, Core
  <1>2. UNCHANGED <<luns, found, cap>> /\ cap[n] # Unknown
    BY <1>1, StoreStep
  <1>3. (LunsInv /\ FoundInv /\ CapInv)'
    BY <1>1, <1>2 DEF LunsInv, FoundInv, CapInv, AllFields, LunNumbers, Lun
  <1>4. cap'[n] = TotalBlocks(Lun(n)) /\ TotalBlocks(Lun(n)) \in Nat
    BY <1>1, <1>2, LunFacts DEF CapInv
  <1>5. LunField(n).number = n /\ Lun(n).size \in Nat
    BY <1>1, FieldOfLun, LunFacts
  <1>6. PICK c \in [op : {"WRITE"}, ten : BOOLEAN, lba : Nat, blocks : Nat] :
            \/ \E o : WriteRefused(n, c, o)
            \/ \E k \in 0 .. c.blocks : \E v : WriteStored(n, c, k, v)
    BY <1>1, StoreStep
  <1>7. c.lba \in Nat /\ c.blocks \in Nat
    OBVIOUS
  <1>8. ASSUME NEW o, WriteRefused(n, c, o)
        PROVE  DiskInv' /\ ReadsAsWritten' /\ AnswersTruthful'
    <2>1. last' = [lun |-> LunField(n), cdb |-> c, failed |-> FALSE, out |-> o]
      BY <1>8 DEF WriteRefused
    <2>2. last'.lun.number = n /\ last'.cdb = c /\ last'.out = o
      BY <1>5, <2>1
    <2>3. disk' = disk /\ expect' = expect /\ Plain(o)
      BY <1>8 DEF WriteRefused
    <2>4. DiskInv'
      BY <1>1, <1>2, <2>3 DEF DiskInv, LunNumbers, Bytes, Lun
    <2>5. ReadsAsWritten'
      BY <2>2, <2>3 DEF ReadsAsWritten, Plain
    <2>6. AnswersTruthful'
      BY <1>4, <1>8, <2>2, <2>3 DEF AnswersTruthful, Plain, Truthful, WriteRefused
    <2> QED
      BY <2>4, <2>5, <2>6
  <1>9. ASSUME NEW k \in 0 .. c.blocks, NEW v, WriteStored(n, c, k, v)
        PROVE  DiskInv' /\ ReadsAsWritten' /\ AnswersTruthful'
    <2> DEFINE d == Stored(disk[n], c.lba, k * BlockSize, v)
               e == Expected(expect[n], c.lba, c.blocks * BlockSize, v, k = c.blocks)
               o == IF k < c.blocks THEN WriteError ELSE Ok
    <2>1. disk' = [disk EXCEPT ![n] = d] /\ expect' = [expect EXCEPT ![n] = e]
      BY <1>9 DEF WriteStored
    <2>2. /\ DOMAIN d = Bytes(n) /\ DOMAIN e = Bytes(n)
          /\ \A b \in Bytes(n) : d[b] \in e[b]
      <3>1. /\ DOMAIN disk[n] = Bytes(n) /\ DOMAIN expect[n] = Bytes(n)
            /\ \A b \in Bytes(n) : disk[n][b] \in expect[n][b]
        BY <1>1 DEF DiskInv
      <3>2. Bytes(n) \in SUBSET Nat
        BY <1>5 DEF Bytes
      <3>3. PICK D \in SUBSET Nat : D = Bytes(n)
        BY <3>2
      <3>4. PICK dn, en : dn = disk[n] /\ en = expect[n]
        OBVIOUS
      <3>5. PICK lba \in Nat, blocks \in Nat : lba = c.lba /\ blocks = c.blocks
        BY <1>7
      <3>6. DOMAIN dn = D /\ DOMAIN en = D /\ \A b \in D : dn[b] \in en[b]
        BY <3>1, <3>3, <3>4
      <3>7. k \in 0 .. blocks
        BY <3>5
      <3>8. /\ DOMAIN Stored(dn, lba, k * BlockSize, v) = D
            /\ DOMAIN Expected(en, lba, blocks * BlockSize, v, k = blocks) = D
            /\ \A b \in D : Stored(dn, lba, k * BlockSize, v)[b] \in
                             Expected(en, lba, blocks * BlockSize, v, k = blocks)[b]
        BY <3>6, <3>7, StoredExpected
      <3> QED
        BY <3>3, <3>5, <3>8, <3>4
    <2>3. last' = [lun |-> LunField(n), cdb |-> c, failed |-> k < c.blocks, out |-> o]
      BY <1>9 DEF WriteStored
    <2>4. c.blocks > 0 /\ c.lba + c.blocks <= TotalBlocks(Lun(n))
      BY <1>9 DEF WriteStored
    <2> HIDE DEF d, e
    <2>5. DiskInv'
      <3>1. DOMAIN disk' = LunNumbers /\ DOMAIN expect' = LunNumbers
        BY <1>1, <2>1 DEF DiskInv
      <3>2. ASSUME NEW m \in LunNumbers
            PROVE  /\ DOMAIN disk'[m] = Bytes(m) /\ DOMAIN expect'[m] = Bytes(m)
                   /\ \A b \in Bytes(m) : disk'[m][b] \in expect'[m][b]
        <4>1. CASE m = n
          <5>1. disk'[m] = d /\ expect'[m] = e
            BY <1>1, <2>1, <4>1 DEF DiskInv
          <5> QED
            BY <2>2, <4>1, <5>1
        <4>2. CASE m # n
          <5>1. disk'[m] = disk[m] /\ expect'[m] = expect[m]
            BY <1>1, <2>1, <4>2 DEF DiskInv
          <5> QED
            BY <1>1, <5>1 DEF DiskInv
        <4> QED
          BY <4>1, <4>2
      <3> QED
        BY <1>2, <3>1, <3>2 DEF DiskInv, LunNumbers, Bytes, Lun
    <2>6. /\ Truthful(o) /\ o.data.page # "blocks" /\ o # OutOfRange
          /\ o \in {ReadError, WriteError} => k < c.blocks
      <3>1. CASE k < c.blocks
        BY <3>1, CheckTruthful, ErrorsDiffer DEF WriteError
      <3>2. CASE ~ (k < c.blocks)
        BY <3>2, OkPlain DEF Plain
      <3> QED
        BY <3>1, <3>2
    <2> HIDE DEF o
    <2>7. /\ last'.lun.number = n /\ last'.cdb = c /\ last'.out = o
          /\ last'.failed = (k < c.blocks)
      BY <1>5, <2>3
    <2>8. ReadsAsWritten'
      BY <2>6, <2>7 DEF ReadsAsWritten
    <2>9. ~ (c.lba + c.blocks > cap'[n])
      BY <1>4, <1>7, <2>4
    <2>10. AnswersTruthful'
      BY <2>6, <2>7, <2>9 DEF AnswersTruthful, Truthful
    <2> QED
      BY <2>5, <2>8, <2>10
  <1>10. DiskInv' /\ ReadsAsWritten' /\ AnswersTruthful'
    BY <1>6, <1>8, <1>9
  <1> QED
    BY <1>3, <1>10 DEF TargetInv, Core

LEMMA NextInv ==
    ASSUME TargetInv, [Next]_vars
    PROVE  TargetInv'
  <1>1. CASE UNCHANGED vars
    BY <1>1 DEF vars, TargetInv, Core, LunsInv, FoundInv, CapInv, DiskInv, AllFields, LunNumbers,
           Lun, Bytes, ReadsAsWritten, AnswersTruthful
  <1> QED
    BY <1>1, TakeInv, ProbeInv, DiscoverInv, MeasureInv, FetchInv, StoreInv DEF Next

LEMMA SpecInv == Spec => []TargetInv
  <1>1. Init => TargetInv
    BY InitInv
  <1>2. TargetInv /\ [Next]_vars => TargetInv'
    BY NextInv
  <1> QED
    BY <1>1, <1>2, PTL DEF Spec

-----------------------------------------------------------------------------
(* The theorems *)

\* Through READ(10) and READ(16) an initiator gets, for every range it names, the
\* bytes last written to that range of that LUN (cdb::read, cdb::write); after a
\* write that failed, old or new ones.
THEOREM ReadsCorrect == Spec => []ReadsAsWritten
  <1>1. TargetInv => ReadsAsWritten
    BY DEF TargetInv
  <1> QED
    BY <1>1, SpecInv, PTL

\* Every answer of ScsiTarget::execute describes itself and its cause: sense data
\* with CHECK CONDITION only, the range blamed exactly when it leaves the disk, the
\* medium only when it failed, and pages as long as they declare.
THEOREM TruthfulAnswers == Spec => []AnswersTruthful
  <1>1. TargetInv => AnswersTruthful
    BY DEF TargetInv
  <1> QED
    BY <1>1, SpecInv, PTL

\* A WRITE changes no byte but those of the range and the LUN that it names, and a
\* refused one none (execute, cdb::write): no other command, LUN or session step
\* touches a disk.
THEOREM NamedBytesOnly == Spec => OnlyNamedBytes
  <1> DEFINE A == \A n \in LunNumbers : \A b \in DOMAIN disk[n] :
                     disk'[n][b] # disk[n][b] => NamesByte(n, b)
  <1>1. ASSUME TargetInv, [Next]_vars PROVE [A]_vars
    <2>1. LunsInv /\ DiskInv
      BY <1>1 DEF TargetInv, Core
    <2>2. CASE disk' = disk
      BY <2>2
    <2>3. ASSUME NEW m \in LunNumbers, Store(m) PROVE A
      <3>1. PICK c \in [op : {"WRITE"}, ten : BOOLEAN, lba : Nat, blocks : Nat] :
                \/ \E o : WriteRefused(m, c, o)
                \/ \E k \in 0 .. c.blocks : \E v : WriteStored(m, c, k, v)
        BY <2>1, <2>3, StoreStep
      <3>2. ASSUME NEW o, WriteRefused(m, c, o) PROVE A
        BY <3>2 DEF WriteRefused
      <3>3. ASSUME NEW k \in 0 .. c.blocks, NEW v, WriteStored(m, c, k, v) PROVE A
        <4> SUFFICES ASSUME NEW n \in LunNumbers, NEW b \in DOMAIN disk[n],
                            disk'[n][b] # disk[n][b]
                     PROVE  NamesByte(n, b)
          OBVIOUS
        <4> DEFINE d == Stored(disk[m], c.lba, k * BlockSize, v)
        <4>1. disk' = [disk EXCEPT ![m] = d]
          BY <3>3 DEF WriteStored
        <4>2. n = m /\ d[b] # disk[m][b] /\ b \in DOMAIN disk[m]
          BY <2>1, <4>1 DEF DiskInv
        <4>3. b >= c.lba * BlockSize /\ b < c.lba * BlockSize + k * BlockSize
          BY <4>2 DEF Stored
        <4>4. b \in Nat
          <5>1. b \in Bytes(m) /\ Lun(m).size \in Nat
            BY <2>1, <4>2, LunFacts DEF DiskInv
          <5> QED
            BY <5>1 DEF Bytes
        <4> DEFINE lba == c.lba
                   blocks == c.blocks
        <4>5. lba \in Nat /\ blocks \in Nat /\ BlockSize \in Nat /\ k \in Nat /\ k <= blocks
          BY WidthAssumption
        <4> HIDE DEF lba, blocks
        <4>6. /\ lba * BlockSize + k * BlockSize = (lba + k) * BlockSize
              /\ lba + k \in Nat /\ lba + blocks \in Nat /\ lba + k <= lba + blocks
          BY <4>5
        <4>7. b < (lba + k) * BlockSize /\ lba * BlockSize <= b
          <5>1. lba * BlockSize \in Nat /\ (lba + k) * BlockSize \in Nat
            BY <4>5
          <5> QED
            BY <4>3, <4>4, <4>6, <5>1 DEF lba
        <4>8. b \div BlockSize \in lba .. (lba + k) - 1
          BY <4>4, <4>5, <4>6, <4>7, BlockOfByte
        <4>9. b \div BlockSize \in lba .. lba + blocks - 1
          BY <4>5, <4>6, <4>8
        <4>10. last' = [lun |-> LunField(m), cdb |-> c, failed |-> k < c.blocks,
                        out |-> IF k < c.blocks THEN WriteError ELSE Ok]
          BY <3>3 DEF WriteStored
        <4>11. /\ last'.lun = LunField(n) /\ last'.cdb = c /\ c.op = "WRITE"
               /\ last'.out \in {Ok, WriteError}
          BY <4>2, <4>10
        <4> QED
          BY <4>9, <4>11 DEF NamesByte, lba, blocks
      <3> QED
        BY <3>1, <3>2, <3>3
    <2>4. CASE UNCHANGED vars
      BY <2>4 DEF vars
    <2> QED
      BY <1>1, <2>2, <2>3, <2>4 DEF Next, TakeAnswer, Probe, Discover, Measure, Fetch
  <1> QED
    BY <1>1, SpecInv, PTL DEF Spec, OnlyNamedBytes

\* REPORT LUNS lists as many fields as there are LUNs.
LEMMA AllFieldsCount ==
    ASSUME LunsInv
    PROVE  Cardinality(AllFields) = Len(luns)
  <1>1. Len(luns) \in Nat /\ Len(luns) >= 1
    BY LunFacts
  <1>2. IsFiniteSet(LunNumbers) /\ Cardinality(LunNumbers) = Len(luns)
    <2>1. /\ IsFiniteSet(0 .. Len(luns) - 1)
          /\ Cardinality(0 .. Len(luns) - 1) =
                IF 0 > Len(luns) - 1 THEN 0 ELSE (Len(luns) - 1) - 0 + 1
      BY <1>1, FS_Interval
    <2> QED
      BY <1>1, <2>1 DEF LunNumbers
  <1> DEFINE g == [i \in LunNumbers |-> LunField(i)]
  <1>3. \A i \in LunNumbers : LunField(i).number = i
    BY FieldOfLun
  <1>4. g \in Bijection(LunNumbers, AllFields)
    <2>1. g \in [LunNumbers -> AllFields]
      BY DEF AllFields
    <2>2. \A i, j \in LunNumbers : g[i] = g[j] => i = j
      BY <1>3
    <2>3. \A f \in AllFields : \E i \in LunNumbers : g[i] = f
      BY DEF AllFields
    <2> QED
      BY <2>1, <2>2, <2>3 DEF Bijection, Injection, Surjection, IsInjective
  <1>5. ExistsBijection(LunNumbers, AllFields)
    BY <1>4 DEF ExistsBijection
  <1> QED
    BY <1>2, <1>5, FS_Bijection

\* What an initiator finds by REPORT LUNS and READ CAPACITY is what the target
\* serves: the LUN fields that resolve, and the blocks that READ reaches, for every
\* field and every 64-bit block number.
THEOREM DiscoveryCorrect == Spec => []DiscoveryExact
  <1>1. ASSUME TargetInv PROVE DiscoveryExact
    <2>1. LunsInv /\ FoundInv /\ CapInv
      BY <1>1 DEF TargetInv, Core
    <2>2. ASSUME found # Unknown
          PROVE  /\ Cardinality(found) = Len(luns)
                 /\ \A f \in Fields : Resolves(f) <=> f \in found
      <3>1. found = AllFields
        BY <2>1, <2>2 DEF FoundInv
      <3>2. ASSUME NEW f \in Fields PROVE Resolves(f) <=> f \in AllFields
        <4>1. ASSUME Resolves(f) PROVE f \in AllFields
          <5>1. LunNumbers \subseteq Nat
            BY <2>1, LunFacts
          <5>2. f.method = 0 /\ f.number \in LunNumbers
            BY <4>1, <5>1, UnknownAssumption DEF Resolves, LunNumber
          <5>3. f = [method |-> 0, number |-> f.number]
            BY <5>2 DEF Fields
          <5>4. LunField(f.number) = [method |-> 0, number |-> f.number]
            BY <2>1, <5>2, FieldOfLun
          <5> QED
            BY <5>2, <5>3, <5>4 DEF AllFields
        <4>2. ASSUME f \in AllFields PROVE Resolves(f)
          BY <2>1, <4>2, FieldOfLun DEF AllFields
        <4> QED
          BY <4>1, <4>2
      <3> QED
        BY <2>1, <3>1, <3>2, AllFieldsCount
    <2>3. ASSUME NEW n \in LunNumbers, cap[n] # Unknown, NEW lba \in 0 .. U64 - 1
          PROVE  Execute(LunField(n),
                         [op |-> "READ", ten |-> FALSE, lba |-> lba, blocks |-> 1], FALSE)
                    = OutOfRange <=> lba >= cap[n]
      <3>1. cap[n] = TotalBlocks(Lun(n)) /\ TotalBlocks(Lun(n)) \in Nat /\ lba \in Nat
        BY <2>1, <2>3, LunFacts, WidthAssumption DEF CapInv
      <3>2. PICK o : o = Read(Lun(n), disk[n], lba, 1, FALSE)
        OBVIOUS
      <3>3. o = OutOfRange <=> lba + 1 > TotalBlocks(Lun(n))
        <4>1. PICK blocks \in Nat, fail \in BOOLEAN, d \in {disk[n]} :
                  blocks = 1 /\ fail = FALSE /\ d = disk[n]
          OBVIOUS
        <4>2. o = Read(Lun(n), d, lba, blocks, fail)
          BY <3>2, <4>1
        <4>3. PICK l \in Nat : l = lba
          BY <3>1
        <4>4. LunsInv /\ o = Read(Lun(n), d, l, blocks, fail)
          BY <2>1, <4>2, <4>3
        <4>5. /\ Truthful(o)
              /\ o \in {ReadError, WriteError} => fail
              /\ blocks > 0 => (o = OutOfRange <=> l + blocks > TotalBlocks(Lun(n)))
              /\ o.data.page = "blocks" =>
                    /\ l + blocks <= TotalBlocks(Lun(n))
                    /\ o.data.bytes =
                          [i \in 1 .. blocks * BlockSize |-> d[l * BlockSize + i - 1]]
          BY <4>4, ReadOutcome
        <4> QED
          BY <4>1, <4>3, <4>5
      <3>4. Execute(LunField(n),
                    [op |-> "READ", ten |-> FALSE, lba |-> lba, blocks |-> 1], FALSE) = o
        <4>1. /\ Resolves(LunField(n)) /\ LunNumber(LunField(n)) = n
              /\ luns[LunNumber(LunField(n)) + 1] = Lun(n)
          BY <2>1, FieldOfLun DEF Lun
        <4> QED
          BY <3>2, <4>1 DEF Execute
      <3>5. lba + 1 > TotalBlocks(Lun(n)) <=> lba >= cap[n]
        BY <3>1
      <3> QED
        BY <3>3, <3>4, <3>5
    <2> QED
      BY <2>2, <2>3 DEF DiscoveryExact
  <1> QED
    BY <1>1, SpecInv, PTL

=============================================================================
