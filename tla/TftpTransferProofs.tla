-------------------------- MODULE TftpTransferProofs --------------------------
(***************************************************************************)
(* Proofs about TftpTransfer, for every file, block size, number of        *)
(* transfers and amount of loss and duplication: the client holds a prefix *)
(* of the file and at the end all of it, a transfer that succeeded has     *)
(* delivered, and server and client are never more than a block apart.     *)
(***************************************************************************)
EXTENDS TftpTransfer, TLAPS, SequenceTheorems

WF == INSTANCE WellFoundedInduction

-----------------------------------------------------------------------------
(* The invariant *)

\* The blocks the client holds: as the task panics before a second block 0, the
\* number acknowledged last is how many they are.
Held == LastAcked

Transfer ==
    [phase : Phases, bs : Nat \ {0}, current : 0 .. BlockMod - 1, retries : 0 .. MaxRetries + 1]

Client ==
    [phase : {"idle", "asking", "receiving", "done", "failed", "off"},
     req : Requests \cup {None}, tid : Tids \cup {None}, bs : Nat \ {0},
     expected : 0 .. BlockMod - 1, got : Seq(Nat)]

\* The client's bytes are those of its blocks.
ClientInv ==
    /\ cl \in Client
    /\ cl.phase \in {"idle", "asking"} => cl.tid = None
    /\ cl.phase = "asking" => cl.req \in Requests
    /\ cl.tid = None => cl.bs = DefaultBlk /\ cl.expected = 1
    /\ cl.phase = "receiving" => cl.tid # None
    /\ cl.phase \in {"asking", "receiving"} => Held * cl.bs <= FileLen
    /\ Len(cl.got) = Smaller(Held * cl.bs, FileLen)
    /\ \A k \in 1 .. Len(cl.got) : cl.got[k] = k
    /\ cl.phase = "done" => Len(cl.got) = FileLen

\* A transfer in state s sends block by block, and only with the client's ACKs
\* does it go on.
Sending(t, s) ==
    /\ s.current \in 1 .. BlockMod - 1 /\ (s.current - 1) * s.bs <= FileLen
    /\ s.retries <= MaxRetries
    /\ cl.tid = t => Held \in {s.current - 1, s.current}
    /\ cl.tid # t => s.current = 1
    /\ cl.tid = None => s.bs = DefaultBlk

ServerOK(t) ==
    /\ srv[t].phase = "free" => cl.tid # t
    /\ srv[t].phase = "oack" => /\ srv[t].current = 1 /\ srv[t].retries = 0
                                /\ cl.tid = t => Held = 0
    /\ srv[t].phase = "data" => Sending(t, srv[t])
    /\ srv[t].phase = "done" => cl.tid = t /\ Len(cl.got) = FileLen
    /\ cl.tid = t => cl.bs = srv[t].bs

ServerInv ==
    /\ srv \in [Tids -> Transfer]
    /\ \A t \in Tids : ServerOK(t)

\* A DATA datagram is a block of its transfer.
DataOK(p) ==
    /\ p.tid \in Tids /\ srv[p.tid].phase \notin {"free", "oack"}
    /\ p.block \in 1 .. BlockMod - 1
    /\ p.from = (p.block - 1) * srv[p.tid].bs /\ p.from <= FileLen
    /\ p.len = Smaller(p.from + srv[p.tid].bs, FileLen) - p.from
    /\ srv[p.tid].phase = "data" => p.block <= srv[p.tid].current
    /\ cl.tid = None => srv[p.tid].bs = DefaultBlk

DatagramOK(p) ==
    /\ p.op \in {"rrq", "wrq", "ack", "refusal", "oack", "data", "error"}
    /\ ToMain(p) => p \in Requests
    /\ p.op = "ack" => p.tid \in Tids /\ p.tid = cl.tid /\ p.block \in 0 .. Held
    /\ p.op = "refusal" => p.tid \in Tids
    /\ p.op = "oack" => p.tid \in Tids /\ srv[p.tid].phase # "free" /\ p.bs = srv[p.tid].bs
    /\ p.op = "data" => DataOK(p)

NetInv == \A p \in InFlight : DatagramOK(p)

TftpInv == ClientInv /\ ServerInv /\ NetInv

-----------------------------------------------------------------------------
(* Bags, block numbers and sizes *)

LEMMA BagAddSet ==
    ASSUME NEW B, NEW x
    PROVE  BagToSet(BagAdd(B, x)) = BagToSet(B) \cup {x}
  BY DEF BagToSet, BagAdd

LEMMA BagRemoveSet ==
    ASSUME NEW B, NEW x
    PROVE  BagToSet(BagRemove(B, x)) \subseteq BagToSet(B)
  BY DEF BagToSet, BagRemove

\* Block numbers count up to the last u16, and then comes 0.
LEMMA BlockNumbers ==
    /\ \A b \in 0 .. BlockMod - 1 :
          /\ NextBlock(b) \in 0 .. BlockMod - 1
          /\ NextBlock(b) = IF b = BlockMod - 1 THEN 0 ELSE b + 1
    /\ \A e \in 0 .. BlockMod - 1 :
          (e + BlockMod - 1) % BlockMod = IF e = 0 THEN BlockMod - 1 ELSE e - 1
  <1> USE TftpAssumption
  <1>1. ASSUME NEW b \in 0 .. BlockMod - 1
        PROVE  /\ NextBlock(b) \in 0 .. BlockMod - 1
               /\ NextBlock(b) = IF b = BlockMod - 1 THEN 0 ELSE b + 1
    <2>1. CASE b = BlockMod - 1
      <3>1. (b + 1) % BlockMod = 0
        <4>1. b + 1 = BlockMod
          BY <2>1
        <4> QED
          BY <4>1
      <3> QED
        BY <2>1, <3>1 DEF NextBlock
    <2>2. CASE b # BlockMod - 1
      BY <2>2 DEF NextBlock
    <2> QED
      BY <2>1, <2>2
  <1>2. ASSUME NEW e \in 0 .. BlockMod - 1
        PROVE  (e + BlockMod - 1) % BlockMod = IF e = 0 THEN BlockMod - 1 ELSE e - 1
    <2>1. CASE e = 0
      <3>1. e + BlockMod - 1 = BlockMod - 1
        BY <2>1
      <3>2. (BlockMod - 1) % BlockMod = BlockMod - 1
        OBVIOUS
      <3> QED
        BY <2>1, <3>1, <3>2
    <2>2. CASE e # 0
      <3>1. PICK k \in 0 .. BlockMod - 2 : k = e - 1
        BY <2>2
      <3>2. e + BlockMod - 1 = k + BlockMod
        BY <3>1
      <3>3. (k + BlockMod) % BlockMod = k
        OBVIOUS
      <3> QED
        BY <2>2, <3>1, <3>2, <3>3
    <2> QED
      BY <2>1, <2>2
  <1> QED
    BY <1>1, <1>2

\* The block before the next one, for all blocks but 0.
LEMMA BlockBefore ==
    ASSUME NEW m \in 1 .. BlockMod - 1, NEW e,
           e = IF m = BlockMod - 1 THEN 0 ELSE m + 1
    PROVE  (IF e = 0 THEN BlockMod - 1 ELSE e - 1) = m
  <1>1. BlockMod \in Nat
    BY TftpAssumption
  <1>2. CASE m = BlockMod - 1
    BY <1>1, <1>2
  <1>3. CASE m # BlockMod - 1
    BY <1>1, <1>3
  <1> QED
    BY <1>2, <1>3

\* What the client holds, by the number it expects.
LEMMA HeldFacts ==
    ASSUME NEW c \in Client
    PROVE  /\ (c.expected + BlockMod - 1) % BlockMod \in 0 .. BlockMod - 1
           /\ c.expected >= 1 => (c.expected + BlockMod - 1) % BlockMod = c.expected - 1
           /\ c.expected = 0 => (c.expected + BlockMod - 1) % BlockMod = BlockMod - 1
  <1>1. PICK e \in 0 .. BlockMod - 1 : e = c.expected
    BY DEF Client
  <1>2. (e + BlockMod - 1) % BlockMod = IF e = 0 THEN BlockMod - 1 ELSE e - 1
    BY BlockNumbers
  <1>3. (e + BlockMod - 1) % BlockMod \in 0 .. BlockMod - 1
    BY <1>2, TftpAssumption
  <1>4. e >= 1 => e # 0
    OBVIOUS
  <1> QED
    BY <1>1, <1>2, <1>3, <1>4

LEMMA MulSucc ==
    ASSUME NEW c \in Nat, NEW b \in Nat
    PROVE  /\ c * b \in Nat
           /\ (c + 1) * b = c * b + b
           /\ 0 * b = 0
  OBVIOUS

\* The slice that is sent, and whether it is the last.
LEMMA ChunkFacts ==
    ASSUME NEW s \in Transfer, s.current # 0, (s.current - 1) * s.bs <= FileLen
    PROVE  /\ Chunk(s).from = (s.current - 1) * s.bs
           /\ Chunk(s).from \in 0 .. FileLen
           /\ Chunk(s).len = Smaller(Chunk(s).from + s.bs, FileLen) - Chunk(s).from
           /\ ~IsLast(s) => s.current * s.bs <= FileLen
           /\ IsLast(s) => s.current * s.bs > FileLen
  <1>1. PICK c \in Nat, b \in Nat \ {0}, f \in Nat : s.current = c + 1 /\ s.bs = b /\ f = c * b
    <2>1. s.current \in 1 .. BlockMod - 1 /\ s.bs \in Nat \ {0}
      BY DEF Transfer
    <2>2. s.current - 1 \in Nat
      BY <2>1, TftpAssumption
    <2>3. (s.current - 1) * s.bs \in Nat
      BY <2>1, <2>2, MulSucc
    <2>4. s.current = (s.current - 1) + 1
      BY <2>1, TftpAssumption
    <2> QED
      BY <2>1, <2>2, <2>3, <2>4
  <1>2. (s.current - 1) * s.bs = f /\ s.current * s.bs = f + b
    BY <1>1, MulSucc
  <1>3. f <= FileLen /\ FileLen \in Nat
    BY <1>2, TftpAssumption
  <1>4. Chunk(s).from = f /\ Chunk(s).len = Smaller(f + b, FileLen) - f
    BY <1>1, <1>2 DEF Chunk
  <1> QED
    BY <1>1, <1>2, <1>3, <1>4 DEF IsLast, Smaller

\* negotiate_blksize yields a block size.
LEMMA FirstExists ==
    ASSUME NEW S \in SUBSET Nat, S # {}
    PROVE  \E i \in S : \A j \in S : i <= j
  <1>1. PICK x \in S : \A y \in S : ~ (<<y, x>> \in WF!OpToRel(<, Nat))
    <2>1. S \subseteq Nat /\ S # {}
      OBVIOUS
    <2> QED
      BY <2>1, WF!NatLessThanWellFounded, WF!WFMin
  <1>2. \A y \in S : ~ (y < x)
    BY <1>1 DEF WF!OpToRel
  <1>3. \A y \in S : y \in Nat /\ x \in Nat
    OBVIOUS
  <1> QED
    BY <1>2, <1>3

LEMMA Negotiated ==
    ASSUME NEW r \in Requests
    PROVE  /\ NegotiateBlksize(r.opts) \in Nat \ {0}
           /\ r.opts = <<>> => NegotiateBlksize(r.opts) = DefaultBlk
  <1> DEFINE o == r.opts
             good == {i \in DOMAIN o : o[i].key = "blksize" /\ o[i].val >= MinBlk}
  <1>1. o \in Seq([key : STRING, val : Nat])
    BY RequestsAssumption
  <1> HIDE DEF o
  <1>2. \A i \in DOMAIN o : i \in Nat /\ o[i].val \in Nat
    <2>1. Len(o) \in Nat /\ DOMAIN o = 1 .. Len(o)
      BY <1>1
    <2>2. \A i \in 1 .. Len(o) : o[i] \in [key : STRING, val : Nat]
      BY <1>1, ElementOfSeq
    <2> QED
      BY <2>1, <2>2
  <1>3. CASE good = {}
    BY <1>3, TftpAssumption DEF NegotiateBlksize, o
  <1>4. CASE good # {}
    <2>1. \E i \in good : \A j \in good : i <= j
      BY <1>2, <1>4, FirstExists
    <2>2. PICK i \in good : i = CHOOSE k \in good : \A j \in good : k <= j
      BY <2>1
    <2>3. o[i].val \in Nat \ {0}
      BY <1>2, <2>2, TftpAssumption
    <2>4. NegotiateBlksize(o) = Smaller(o[i].val, MaxBlk)
      BY <1>4, <2>2 DEF NegotiateBlksize
    <2>5. NegotiateBlksize(o) \in Nat \ {0}
      BY <2>3, <2>4, TftpAssumption DEF Smaller
    <2>6. o # <<>>
      BY <1>4
    <2> QED
      BY <2>5, <2>6 DEF o
  <1> QED
    BY <1>3, <1>4

-----------------------------------------------------------------------------
(* What a step leaves true *)

\* A transfer never starts anew and never goes back, and neither does the
\* client.
Forward ==
    /\ \A t \in Tids :
          /\ srv[t].phase # "free" => srv'[t].phase # "free" /\ srv'[t].bs = srv[t].bs
          /\ srv[t].phase \notin {"free", "oack"} =>
                /\ srv'[t].phase \notin {"free", "oack"}
                /\ srv'[t].phase = "data" => srv[t].phase = "data" /\ srv[t].current <= srv'[t].current
    /\ cl.tid # None => cl'.tid = cl.tid
    /\ Held <= Held'

LEMMA HeldNat ==
    ASSUME ClientInv
    PROVE  Held \in 0 .. BlockMod - 1
  BY HeldFacts DEF ClientInv, Held, LastAcked

\* A datagram under way stays what it was.
LEMMA Kept ==
    ASSUME TftpInv, Held' \in Nat, Forward, \A t \in Tids : srv'[t].current \in Nat,
           NEW p, DatagramOK(p)
    PROVE  DatagramOK(p)'
  <1>1. Held \in Nat /\ Held <= Held'
    BY HeldNat, TftpAssumption DEF TftpInv, Forward
  <1>2. p.op = "ack" => p.tid \in Tids /\ p.tid = cl'.tid /\ p.block \in 0 .. Held'
    BY <1>1, TftpAssumption DEF DatagramOK, Forward
  <1>3. p.op = "oack" => p.tid \in Tids /\ srv'[p.tid].phase # "free" /\ p.bs = srv'[p.tid].bs
    BY DEF DatagramOK, Forward
  <1>4. p.op = "data" => DataOK(p)'
    <2> SUFFICES ASSUME DataOK(p) PROVE DataOK(p)'
      BY DEF DatagramOK
    <2>1. PICK t \in Tids : t = p.tid
      BY DEF DataOK
    <2>2. srv'[t].phase \notin {"free", "oack"} /\ srv'[t].bs = srv[t].bs
      BY <2>1 DEF DataOK, Forward
    <2>3. srv'[t].phase = "data" => p.block <= srv'[t].current
      <3> SUFFICES ASSUME srv'[t].phase = "data" PROVE p.block <= srv'[t].current
        OBVIOUS
      <3>1. srv[t].phase = "data" /\ srv[t].current <= srv'[t].current
        BY <2>1 DEF DataOK, Forward
      <3>2. p.block <= srv[t].current /\ p.block \in Nat
        BY <2>1, <3>1 DEF DataOK
      <3>3. srv[t].current \in Nat /\ srv'[t].current \in Nat
        BY DEF TftpInv, ServerInv, Transfer
      <3> QED
        BY <3>1, <3>2, <3>3
    <2>4. cl'.tid = None => srv'[t].bs = DefaultBlk
      BY <2>1, <2>2 DEF DataOK, Forward
    <2> QED
      BY <2>1, <2>2, <2>3, <2>4 DEF DataOK
  <1> QED
    BY <1>2, <1>3, <1>4 DEF DatagramOK

\* A step of the network, or one that only sends.
LEMMA NetStep ==
    ASSUME TftpInv, srv' = srv, cl' = cl, \A p \in InFlight' : p \in InFlight \/ DatagramOK(p)
    PROVE  TftpInv'
  <1>1. ClientInv'
    BY DEF TftpInv, ClientInv, Held, LastAcked
  <1>2. ServerInv'
    BY DEF TftpInv, ServerInv, ServerOK, Sending, Held, LastAcked
  <1>3. ASSUME NEW p, DatagramOK(p) PROVE DatagramOK(p)'
    BY <1>3 DEF DatagramOK, DataOK, Held, LastAcked
  <1>4. NetInv'
    BY <1>3 DEF TftpInv, NetInv
  <1> QED
    BY <1>1, <1>2, <1>4 DEF TftpInv

\* The state s may follow that of transfer t.
Follows(t, s) ==
    /\ s.phase # "free"
    /\ srv[t].phase # "free" => s.bs = srv[t].bs
    /\ s.phase = "oack" => srv[t].phase = "free" /\ s.current = 1 /\ s.retries = 0
    /\ s.phase = "data" => /\ Sending(t, s)
                           /\ srv[t].phase \in {"free", "oack", "data"}
                           /\ srv[t].phase = "data" => srv[t].current <= s.current
    /\ s.phase = "done" => cl.tid = t /\ Len(cl.got) = FileLen

\* A step of one transfer.
LEMMA ServerStep ==
    ASSUME TftpInv, NEW t \in Tids, NEW s \in Transfer, Follows(t, s),
           srv' = [srv EXCEPT ![t] = s], cl' = cl,
           \A p \in InFlight' : p \in InFlight \/ DatagramOK(p)'
    PROVE  TftpInv'
  <1>1. Held' = Held /\ Held \in Nat
    BY HeldNat, TftpAssumption DEF TftpInv, Held, LastAcked
  <1>2. ClientInv'
    BY <1>1 DEF TftpInv, ClientInv
  <1>3. srv \in [Tids -> Transfer] /\ srv' \in [Tids -> Transfer]
    BY DEF TftpInv, ServerInv
  <1>4. srv'[t] = s /\ \A u \in Tids \ {t} : srv'[u] = srv[u]
    BY <1>3
  <1>5. ASSUME NEW u \in Tids PROVE ServerOK(u)'
    <2>1. CASE u = t
      <3>1. ServerOK(t)
        BY DEF TftpInv, ServerInv
      <3>2. Sending(t, s) => Sending(t, s)'
        BY <1>1 DEF Sending
      <3> QED
        BY <1>1, <1>4, <2>1, <3>1, <3>2 DEF ServerOK, Follows
    <2>2. CASE u # t
      <3>1. ServerOK(u) /\ srv'[u] = srv[u]
        BY <1>4, <2>2 DEF TftpInv, ServerInv
      <3> QED
        BY <1>1, <3>1 DEF ServerOK, Sending
    <2> QED
      BY <2>1, <2>2
  <1>6. ServerInv'
    BY <1>3, <1>5 DEF ServerInv
  <1>7. Forward
    <2>1. \A u \in Tids : srv[u].current \in Nat
      BY <1>3, TftpAssumption DEF Transfer
    <2> QED
      BY <1>1, <1>4, <2>1 DEF Forward, Follows
  <1>8. \A u \in Tids : srv'[u].current \in Nat
    BY <1>3, TftpAssumption DEF Transfer
  <1>9. NetInv'
    <2>1. \A p \in InFlight : DatagramOK(p)'
      BY <1>1, <1>7, <1>8, Kept DEF TftpInv, NetInv
    <2> QED
      BY <2>1 DEF NetInv
  <1> QED
    BY <1>2, <1>6, <1>9 DEF TftpInv

\* A step of the client that takes u for its server, or has done so.
LEMMA ClientStep ==
    ASSUME TftpInv, srv' = srv, ClientInv', Held <= Held',
           NEW u \in Tids \cup {None}, cl'.tid = u, cl.tid \in {None, u},
           u # None => /\ cl'.bs = srv[u].bs /\ srv[u].phase # "free"
                       /\ srv[u].phase = "oack" => Held' = 0
                       /\ srv[u].phase = "data" => Held' \in {srv[u].current - 1, srv[u].current},
           Len(cl.got) = FileLen => Len(cl'.got) = FileLen,
           \A p \in InFlight' : p \in InFlight \/ DatagramOK(p)'
    PROVE  TftpInv'
  <1>1. Held' \in Nat
    BY HeldNat, TftpAssumption DEF ClientInv, Held, LastAcked, Client
  <1>2. ASSUME NEW t \in Tids PROVE ServerOK(t)'
    <2>1. ServerOK(t)
      BY DEF TftpInv, ServerInv
    <2>2. CASE t = u
      BY <2>1, <2>2, TftpAssumption DEF ServerOK, Sending
    <2>3. CASE t # u
      BY <2>1, <2>3, TftpAssumption DEF ServerOK, Sending
    <2> QED
      BY <2>2, <2>3
  <1>3. ServerInv'
    BY <1>2 DEF TftpInv, ServerInv
  <1>4. \A t \in Tids : srv[t].current \in Nat
    BY TftpAssumption DEF TftpInv, ServerInv, Transfer
  <1>5. Forward
    BY <1>4 DEF Forward
  <1>6. NetInv'
    <2>1. \A p \in InFlight : DatagramOK(p)'
      BY <1>1, <1>4, <1>5, Kept DEF TftpInv, NetInv
    <2> QED
      BY <2>1 DEF NetInv
  <1> QED
    BY <1>3, <1>6 DEF TftpInv

-----------------------------------------------------------------------------
(* The steps of the server *)

LEMMA InitInv ==
    ASSUME Init
    PROVE  TftpInv
  <1>1. Held = 0
    <2>1. cl.expected = 1 /\ 1 \in 0 .. BlockMod - 1
      BY TftpAssumption DEF Init
    <2> QED
      BY <2>1, BlockNumbers DEF Held, LastAcked
  <1>2. ClientInv
    <2>1. cl \in Client
      BY TftpAssumption DEF Init, Client
    <2>2. 0 * cl.bs = 0 /\ Len(cl.got) = 0
      BY TftpAssumption DEF Init
    <2>3. Smaller(0, FileLen) = 0
      BY TftpAssumption DEF Smaller
    <2> QED
      BY <1>1, <2>1, <2>2, <2>3, TftpAssumption DEF ClientInv, Init
  <1>3. ServerInv
    <2>1. srv \in [Tids -> Transfer]
      BY TftpAssumption DEF Init, Transfer, Phases
    <2>2. \A t \in Tids : srv[t].phase = "free" /\ cl.tid # t
      BY TftpAssumption DEF Init
    <2> QED
      BY <2>1, <2>2 DEF ServerInv, ServerOK
  <1>4. NetInv
    BY DEF Init, NetInv, InFlight, BagToSet, EmptyBag, SetToBag
  <1> QED
    BY <1>2, <1>3, <1>4 DEF TftpInv

LEMMA Rephased ==
    ASSUME NEW s \in Transfer, NEW ph \in Phases
    PROVE  \E d \in Transfer : /\ d = [s EXCEPT !.phase = ph]
                               /\ d.phase = ph /\ d.bs = s.bs
                               /\ d.current = s.current /\ d.retries = s.retries
  <1> DEFINE d == [s EXCEPT !.phase = ph]
  <1>1. d \in Transfer
    BY DEF Transfer
  <1>2. d.phase = ph /\ d.bs = s.bs /\ d.current = s.current /\ d.retries = s.retries
    BY DEF Transfer
  <1> HIDE DEF d
  <1>3. \E x \in Transfer : /\ x = d
                           /\ x.phase = ph /\ x.bs = s.bs
                           /\ x.current = s.current /\ x.retries = s.retries
    BY <1>1, <1>2
  <1> QED
    BY <1>3 DEF d

LEMMA Advanced ==
    ASSUME NEW s \in Transfer
    PROVE  /\ Advance(s) \in Transfer
           /\ Advance(s).phase = s.phase /\ Advance(s).bs = s.bs
           /\ Advance(s).current = NextBlock(s.current) /\ Advance(s).retries = 0
  <1>1. NextBlock(s.current) \in 0 .. BlockMod - 1
    BY BlockNumbers DEF Transfer
  <1>2. 0 \in 0 .. MaxRetries + 1
    BY TftpAssumption
  <1> QED
    BY <1>1, <1>2 DEF Transfer, Advance

LEMMA Retried ==
    ASSUME NEW s \in Transfer, NEW r \in 0 .. MaxRetries + 1
    PROVE  \E d \in Transfer : /\ d = [s EXCEPT !.retries = r]
                               /\ d.phase = s.phase /\ d.bs = s.bs
                               /\ d.current = s.current /\ d.retries = r
  <1> DEFINE d == [s EXCEPT !.retries = r]
  <1>1. d \in Transfer
    BY DEF Transfer
  <1>2. d.phase = s.phase /\ d.bs = s.bs /\ d.current = s.current /\ d.retries = r
    BY DEF Transfer
  <1> HIDE DEF d
  <1>3. \E x \in Transfer : /\ x = d
                           /\ x.phase = s.phase /\ x.bs = s.bs
                           /\ x.current = s.current /\ x.retries = r
    BY <1>1, <1>2
  <1> QED
    BY <1>3 DEF d

\* A block is sent, or the task panics before block 0.
LEMMA TransmitStep ==
    ASSUME TftpInv, NEW t \in Tids, NEW s \in Transfer, s.phase = "data",
           s.current # 0 => Follows(t, s),
           s.current = 0 => srv[t].phase \in {"oack", "data"} /\ s.bs = srv[t].bs,
           NEW rest, BagToSet(rest) \subseteq InFlight,
           Transmit(t, s, rest), cl' = cl
    PROVE  TftpInv'
  <1>1. CASE s.current = 0
    <2>1. PICK d \in Transfer : d = [s EXCEPT !.phase = "panicked"] /\ d.phase = "panicked" /\ d.bs = s.bs
      BY Rephased DEF Phases
    <2>2. Follows(t, d)
      BY <1>1, <2>1 DEF Follows
    <2>3. srv' = [srv EXCEPT ![t] = d] /\ InFlight' \subseteq InFlight
      BY <1>1, <2>1 DEF Transmit, InFlight
    <2> QED
      BY <2>2, <2>3, ServerStep
  <1>2. CASE s.current # 0
    <2>1. srv' = [srv EXCEPT ![t] = s] /\ net' = BagAdd(rest, Data(t, s))
      BY <1>2 DEF Transmit
    <2>2. InFlight' \subseteq InFlight \cup {Data(t, s)}
      BY <2>1, BagAddSet DEF InFlight
    <2>3. srv'[t] = s
      BY <2>1 DEF TftpInv, ServerInv
    <2>4. Sending(t, s)
      BY <1>2 DEF Follows
    <2>5. PICK p : p = Data(t, s)
      OBVIOUS
    <2>6. /\ p.op = "data" /\ p.tid = t /\ p.block = s.current
          /\ p.from = Chunk(s).from /\ p.len = Chunk(s).len
      BY <2>5 DEF Data
    <2>7. DataOK(p)'
      <3>1. /\ p.from = (s.current - 1) * s.bs /\ p.from \in 0 .. FileLen
            /\ p.len = Smaller(p.from + s.bs, FileLen) - p.from
        BY <1>2, <2>4, <2>6, ChunkFacts DEF Sending
      <3>2. s.current \in 1 .. BlockMod - 1 /\ (cl.tid = None => s.bs = DefaultBlk)
        BY <2>4 DEF Sending
      <3> QED
        BY <2>3, <2>6, <3>1, <3>2, TftpAssumption DEF DataOK
    <2>8. DatagramOK(p)'
      BY <2>6, <2>7 DEF DatagramOK, ToMain
    <2> QED
      BY <1>2, <2>1, <2>2, <2>5, <2>8, ServerStep
  <1> QED
    BY <1>1, <1>2

\* A transfer ends.
LEMMA EndStep ==
    ASSUME TftpInv, NEW t \in Tids, srv[t].phase \in {"oack", "data"},
           NEW ph \in {"gaveup", "failed", "done"},
           ph = "done" => cl.tid = t /\ Len(cl.got) = FileLen,
           EndTransfer(t, ph), cl' = cl, InFlight' \subseteq InFlight
    PROVE  TftpInv'
  <1>1. srv[t] \in Transfer /\ srv \in [Tids -> Transfer]
    BY DEF TftpInv, ServerInv
  <1>2. PICK d \in Transfer : d = [srv[t] EXCEPT !.phase = ph] /\ d.phase = ph /\ d.bs = srv[t].bs
    <2>1. PICK a \in Transfer : a = srv[t]
      BY <1>1
    <2>2. ph \in Phases
      BY DEF Phases
    <2>3. PICK d \in Transfer : /\ d = [a EXCEPT !.phase = ph]
                                /\ d.phase = ph /\ d.bs = a.bs
                                /\ d.current = a.current /\ d.retries = a.retries
      BY <2>2, Rephased
    <2> QED
      BY <2>1, <2>3
  <1>3. Follows(t, d)
    BY <1>2 DEF Follows
  <1>4. srv' = [srv EXCEPT ![t] = d] /\ InFlight' \subseteq InFlight
    BY <1>1, <1>2 DEF EndTransfer
  <1> QED
    BY <1>3, <1>4, ServerStep

\* A block is sent again, or the transfer gives up.
LEMMA RetryStep ==
    ASSUME TftpInv, NEW t \in Tids, srv[t].phase = "data",
           NEW rest, BagToSet(rest) \subseteq InFlight, NEW timedOut,
           Retry(t, rest, timedOut), cl' = cl
    PROVE  TftpInv'
  <1>1. srv[t] \in Transfer /\ srv \in [Tids -> Transfer] /\ Sending(t, srv[t])
    BY DEF TftpInv, ServerInv, ServerOK
  <1>2. PICK s \in Transfer : /\ s = [srv[t] EXCEPT !.retries = srv[t].retries + 1]
                              /\ s.phase = "data" /\ s.bs = srv[t].bs /\ s.current = srv[t].current
                              /\ s.retries = srv[t].retries + 1
    <2>1. srv[t].retries + 1 \in 0 .. MaxRetries + 1
      BY <1>1, TftpAssumption DEF Transfer, Sending
    <2>2. PICK a \in Transfer, r \in 0 .. MaxRetries + 1 : a = srv[t] /\ r = srv[t].retries + 1
      BY <1>1, <2>1
    <2>3. PICK s \in Transfer : /\ s = [a EXCEPT !.retries = r]
                                /\ s.phase = a.phase /\ s.bs = a.bs
                                /\ s.current = a.current /\ s.retries = r
      BY Retried
    <2> QED
      BY <2>2, <2>3
  <1>3. s.current \in 1 .. BlockMod - 1
    BY <1>1, <1>2 DEF Sending
  <1>4. CASE s.retries <= MaxRetries
    <2>1. Transmit(t, s, rest)
      BY <1>2, <1>4 DEF Retry
    <2>2. Sending(t, s)
      BY <1>1, <1>2, <1>4 DEF Sending
    <2>3. Follows(t, s)
      BY <1>2, <1>3, <2>2, TftpAssumption DEF Follows
    <2>4. s.current # 0
      BY <1>3
    <2> QED
      BY <1>2, <2>1, <2>3, <2>4, TransmitStep
  <1>5. CASE ~(s.retries <= MaxRetries)
    <2>1. PICK d \in Transfer : d = [s EXCEPT !.phase = "gaveup"] /\ d.phase = "gaveup" /\ d.bs = s.bs
      BY Rephased DEF Phases
    <2>2. srv' = [srv EXCEPT ![t] = d]
      BY <1>2, <1>5, <2>1 DEF Retry
    <2>3. net' \in {rest, BagAdd(rest, Error(t, 0))}
      BY <1>2, <1>5 DEF Retry
    <2>4. InFlight' \subseteq InFlight \cup {Error(t, 0)}
      BY <2>3, BagAddSet DEF InFlight
    <2>5. Follows(t, d)
      BY <1>2, <2>1 DEF Follows
    <2>6. PICK e : e = Error(t, 0)
      OBVIOUS
    <2>7. DatagramOK(e)'
      BY <2>6 DEF DatagramOK, Error, ToMain
    <2> QED
      BY <2>2, <2>4, <2>5, <2>6, <2>7, ServerStep
  <1> QED
    BY <1>4, <1>5

\* A request is served, by a transfer of its own or not at all.
LEMMA RequestStep ==
    ASSUME TftpInv, NEW p \in InFlight, NEW t \in Tids, HandleRequest(p, t)
    PROVE  TftpInv'
  <1>1. PICK rest : rest = BagRemove(net, p)
    OBVIOUS
  <1>2. BagToSet(rest) \subseteq InFlight
    BY <1>1, BagRemoveSet DEF InFlight
  <1>3. p \in Requests /\ srv[t].phase = "free" /\ cl' = cl
    BY DEF HandleRequest, TftpInv, NetInv, DatagramOK
  <1>4. ASSUME NEW c, net' = BagAdd(rest, Error(None, c)), srv' = srv
        PROVE  TftpInv'
    <2>1. PICK e : e = Error(None, c)
      OBVIOUS
    <2>2. DatagramOK(e)
      BY <2>1 DEF DatagramOK, Error, ToMain
    <2>3. InFlight' \subseteq InFlight \cup {e}
      BY <1>2, <1>4, <2>1, BagAddSet DEF InFlight
    <2> QED
      BY <1>3, <1>4, <2>2, <2>3, NetStep
  <1>5. CASE p.op = "wrq" \/ Lookup[p.name] # "file"
    BY <1>1, <1>4, <1>5 DEF HandleRequest
  <1>6. CASE p.op = "rrq" /\ Lookup[p.name] = "file"
    <2>1. PICK s \in Transfer :
              /\ s = [phase |-> "data", bs |-> NegotiateBlksize(p.opts), current |-> 1, retries |-> 0]
              /\ s.phase = "data" /\ s.current = 1 /\ s.retries = 0
              /\ s.bs = NegotiateBlksize(p.opts)
      <3>1. PICK n \in Nat \ {0} : n = NegotiateBlksize(p.opts)
        BY <1>3, Negotiated
      <3>2. [phase |-> "data", bs |-> n, current |-> 1, retries |-> 0] \in Transfer
        BY TftpAssumption DEF Transfer, Phases
      <3> QED
        BY <3>1, <3>2
    <2>2. CASE p.opts = <<>>
      <3>1. Transmit(t, s, rest)
        BY <1>1, <1>6, <2>1, <2>2 DEF HandleRequest
      <3>2. ServerOK(t)
        BY DEF TftpInv, ServerInv
      <3>3. cl.tid # t /\ s.bs = DefaultBlk
        BY <1>3, <2>1, <2>2, <3>2, Negotiated DEF ServerOK
      <3>4. (s.current - 1) * s.bs = 0
        BY <2>1, <3>3, TftpAssumption
      <3>5. Sending(t, s)
        BY <2>1, <3>3, <3>4, TftpAssumption DEF Sending
      <3>6. Follows(t, s)
        BY <1>3, <2>1, <3>5 DEF Follows
      <3>7. s.current # 0
        BY <2>1
      <3> QED
        BY <1>2, <1>3, <2>1, <3>1, <3>6, <3>7, TransmitStep
    <2>3. CASE p.opts # <<>>
      <3>1. PICK d \in Transfer : /\ d = [s EXCEPT !.phase = "oack"]
                                  /\ d.phase = "oack" /\ d.bs = s.bs /\ d.current = 1 /\ d.retries = 0
        <4>1. "oack" \in Phases
          BY DEF Phases
        <4>2. PICK d \in Transfer : /\ d = [s EXCEPT !.phase = "oack"]
                                    /\ d.phase = "oack" /\ d.bs = s.bs
                                    /\ d.current = s.current /\ d.retries = s.retries
          BY <4>1, Rephased
        <4> QED
          BY <2>1, <4>2
      <3>2. srv' = [srv EXCEPT ![t] = d] /\ net' = BagAdd(rest, Oack(t, s.bs))
        BY <1>1, <1>6, <2>1, <2>3, <3>1 DEF HandleRequest
      <3>3. Follows(t, d)
        BY <1>3, <3>1 DEF Follows
      <3>4. PICK o : o = Oack(t, s.bs)
        OBVIOUS
      <3>5. srv'[t] = d
        BY <3>2 DEF TftpInv, ServerInv
      <3>6. DatagramOK(o)'
        BY <3>1, <3>4, <3>5 DEF DatagramOK, Oack, ToMain
      <3>7. InFlight' \subseteq InFlight \cup {o}
        BY <1>2, <3>2, <3>4, BagAddSet DEF InFlight
      <3> QED
        BY <1>3, <3>2, <3>3, <3>6, <3>7, ServerStep
    <2> QED
      BY <2>2, <2>3
  <1> QED
    BY <1>5, <1>6 DEF HandleRequest

\* An answer reaches the transfer it is for.
LEMMA AnswerStep ==
    ASSUME TftpInv, NEW p \in InFlight, HandleOackAnswer(p) \/ HandleAck(p)
    PROVE  TftpInv'
  <1>1. PICK t, rest : t = p.tid /\ rest = BagRemove(net, p)
    OBVIOUS
  <1>2. BagToSet(rest) \subseteq InFlight
    BY <1>1, BagRemoveSet DEF InFlight
  <1>3. ToTransfer(p) /\ cl' = cl
    BY DEF HandleOackAnswer, HandleAck
  <1>4. DatagramOK(p)
    BY DEF TftpInv, NetInv
  <1>5. t \in Tids
    BY <1>1, <1>3, <1>4 DEF DatagramOK, ToTransfer
  <1>6. srv[t] \in Transfer /\ ServerOK(t)
    BY <1>5 DEF TftpInv, ServerInv
  <1>7. Held \in 0 .. BlockMod - 1
    BY HeldNat DEF TftpInv
  <1>8. CASE HandleOackAnswer(p)
    <2>1. srv[t].phase = "oack"
      BY <1>1, <1>8 DEF HandleOackAnswer
    <2>2. CASE p = Ack(t, 0)
      <3>1. PICK s \in Transfer :
                /\ s = [srv[t] EXCEPT !.phase = "data"]
                /\ s.phase = "data" /\ s.bs = srv[t].bs
                /\ s.current = srv[t].current /\ s.retries = srv[t].retries
        BY <1>6, Rephased DEF Phases
      <3>2. Transmit(t, s, rest)
        BY <1>1, <1>8, <2>2, <3>1 DEF HandleOackAnswer
      <3>3. cl.tid = t /\ s.current = 1 /\ s.retries = 0 /\ Held = 0
        <4>1. p.op = "ack"
          BY <2>2 DEF Ack
        <4>2. cl.tid = t
          BY <1>1, <1>4, <4>1 DEF DatagramOK
        <4> QED
          BY <1>6, <2>1, <3>1, <4>2 DEF ServerOK
      <3>4. (s.current - 1) * s.bs = 0
        BY <3>3 DEF Transfer
      <3>5. Sending(t, s)
        BY <1>5, <3>3, <3>4, TftpAssumption DEF Sending
      <3>6. Follows(t, s)
        BY <2>1, <3>1, <3>5 DEF Follows
      <3>7. s.current # 0
        BY <3>3
      <3> QED
        BY <1>2, <1>3, <1>5, <3>1, <3>2, <3>6, <3>7, TransmitStep
    <2>3. CASE p # Ack(t, 0)
      <3>1. EndTransfer(t, "gaveup") /\ net' = rest
        BY <1>1, <1>8, <2>3 DEF HandleOackAnswer
      <3>2. InFlight' \subseteq InFlight
        BY <1>2, <3>1 DEF InFlight
      <3> QED
        BY <1>3, <1>5, <2>1, <3>1, <3>2, EndStep
    <2> QED
      BY <2>2, <2>3
  <1>9. CASE HandleAck(p)
    <2>1. srv[t].phase = "data" /\ Sending(t, srv[t])
      BY <1>1, <1>6, <1>9 DEF HandleAck, ServerOK
    <2>2. CASE ~Acknowledges(p, srv[t])
      <3>1. Retry(t, rest, FALSE)
        BY <1>1, <1>9, <2>2 DEF HandleAck
      <3> QED
        BY <1>2, <1>3, <1>5, <2>1, <3>1, RetryStep
    <2>3. CASE Acknowledges(p, srv[t])
      <3>1. cl.tid = t /\ Held = srv[t].current
        <4>1. p.op = "ack" /\ p.block = srv[t].current
          BY <2>3 DEF Acknowledges
        <4>2. cl.tid = t /\ srv[t].current <= Held
          BY <1>1, <1>4, <4>1 DEF DatagramOK
        <4>3. Held \in {srv[t].current - 1, srv[t].current} /\ srv[t].current \in Nat
          BY <2>1, <4>2 DEF Sending
        <4> QED
          BY <4>2, <4>3
      <3>2. srv[t].current \in 1 .. BlockMod - 1 /\ (srv[t].current - 1) * srv[t].bs <= FileLen
        BY <2>1 DEF Sending
      <3>3. PICK a \in Transfer : a = srv[t]
        BY <1>6
      <3>4. a.current # 0 /\ (a.current - 1) * a.bs <= FileLen
        BY <3>2, <3>3
      <3>5. CASE IsLast(srv[t])
        <4>1. EndTransfer(t, "done") /\ net' = rest
          BY <1>1, <1>9, <2>3, <3>5 DEF HandleAck
        <4>2. a.current * a.bs > FileLen
          BY <3>3, <3>4, <3>5, ChunkFacts
        <4>3. Held * cl.bs > FileLen
          BY <1>6, <3>1, <3>3, <4>2 DEF ServerOK
        <4>4. Held * cl.bs \in Nat
          BY <1>7, MulSucc DEF TftpInv, ClientInv, Client
        <4>5. Len(cl.got) = FileLen
          BY <4>3, <4>4, TftpAssumption DEF TftpInv, ClientInv, Smaller
        <4>6. InFlight' \subseteq InFlight
          BY <1>2, <4>1 DEF InFlight
        <4> QED
          BY <1>3, <1>5, <2>1, <3>1, <4>1, <4>5, <4>6, EndStep
      <3>6. CASE ~IsLast(srv[t])
        <4>1. NextBlock(a.current) \in 0 .. BlockMod - 1
              /\ NextBlock(a.current) = IF a.current = BlockMod - 1 THEN 0 ELSE a.current + 1
          BY BlockNumbers DEF Transfer
        <4>2. PICK s \in Transfer :
                  /\ s = Advance(srv[t])
                  /\ s.phase = "data" /\ s.bs = srv[t].bs /\ s.retries = 0
                  /\ s.current = NextBlock(a.current)
          BY <2>1, <3>3, Advanced
        <4>3. Transmit(t, s, rest)
          BY <1>1, <1>9, <2>3, <3>6, <4>2 DEF HandleAck
        <4>4. ASSUME s.current # 0 PROVE Follows(t, s)
          <5>1. s.current = a.current + 1 /\ a.current \in Nat
            BY <3>2, <3>3, <4>1, <4>2, <4>4
          <5>2. a.current * a.bs <= FileLen
            BY <3>3, <3>4, <3>6, ChunkFacts
          <5>3. (s.current - 1) * s.bs <= FileLen
            <6>1. s.current - 1 = a.current
              BY <5>1
            <6> QED
              BY <3>3, <4>2, <5>2, <6>1
          <5>4. s.current \in 1 .. BlockMod - 1
            BY <4>1, <4>2, <4>4, TftpAssumption
          <5>5. Held = s.current - 1
            BY <3>1, <3>3, <5>1
          <5>6. Sending(t, s)
            BY <1>5, <3>1, <4>2, <5>3, <5>4, <5>5, TftpAssumption DEF Sending
          <5>7. srv[t].current <= s.current
            BY <3>3, <5>1
          <5> QED
            BY <2>1, <4>2, <5>6, <5>7 DEF Follows
        <4> QED
          BY <1>2, <1>3, <1>5, <2>1, <4>2, <4>3, <4>4, TransmitStep
      <3> QED
        BY <3>5, <3>6
    <2> QED
      BY <2>2, <2>3
  <1> QED
    BY <1>8, <1>9

\* Timeouts and errors of a transfer's socket.
LEMMA AloneStep ==
    ASSUME TftpInv, NEW t \in Tids, ServerTimeout(t) \/ RecvError(t) \/ SendError(t)
    PROVE  TftpInv'
  <1>1. cl' = cl
    BY DEF ServerTimeout, OackTimeout, Timeout, RecvError, SendError
  <1>2. BagToSet(net) \subseteq InFlight
    BY DEF InFlight
  <1>3. CASE srv[t].phase = "data" /\ Retry(t, net, TRUE)
    BY <1>1, <1>2, <1>3, RetryStep
  <1>4. CASE srv[t].phase = "data" /\ Retry(t, net, FALSE)
    BY <1>1, <1>2, <1>4, RetryStep
  <1>5. CASE srv[t].phase = "oack" /\ EndTransfer(t, "gaveup") /\ net' = net
    <2>1. InFlight' \subseteq InFlight
      BY <1>5 DEF InFlight
    <2> QED
      BY <1>1, <1>5, <2>1, EndStep
  <1>6. CASE srv[t].phase \in {"oack", "data"} /\ EndTransfer(t, "failed") /\ net' = net
    <2>1. InFlight' \subseteq InFlight
      BY <1>6 DEF InFlight
    <2> QED
      BY <1>1, <1>6, <2>1, EndStep
  <1> QED
    BY <1>3, <1>4, <1>5, <1>6 DEF ServerTimeout, OackTimeout, Timeout, RecvError, SendError

-----------------------------------------------------------------------------
(* The steps of the client *)

\* A block in order makes a longer prefix of the file.
LEMMA Longer ==
    ASSUME NEW g \in Seq(Nat), \A k \in 1 .. Len(g) : g[k] = k, NEW n \in Nat
    PROVE  LET h == g \o [k \in 1 .. n |-> Len(g) + k]
           IN  h \in Seq(Nat) /\ Len(h) = Len(g) + n /\ \A k \in 1 .. Len(h) : h[k] = k
  <1> DEFINE s == [k \in 1 .. n |-> Len(g) + k]
             h == g \o s
  <1>1. Len(g) \in Nat
    OBVIOUS
  <1>2. s \in Seq(Nat) /\ Len(s) = n
    BY <1>1
  <1>3. \A k \in 1 .. n : s[k] = Len(g) + k
    OBVIOUS
  <1> HIDE DEF s
  <1>4. /\ h \in Seq(Nat) /\ Len(h) = Len(g) + n
        /\ \A k \in 1 .. Len(g) + n : h[k] = IF k <= Len(g) THEN g[k] ELSE s[k - Len(g)]
    BY <1>2, ConcatProperties
  <1>5. ASSUME NEW k \in 1 .. Len(g) + n PROVE h[k] = k
    <2>1. CASE k <= Len(g)
      BY <1>1, <1>4, <2>1
    <2>2. CASE ~(k <= Len(g))
      <3>1. k - Len(g) \in 1 .. n
        BY <1>1, <2>2
      <3>2. s[k - Len(g)] = Len(g) + (k - Len(g))
        BY <1>3, <3>1
      <3>3. h[k] = s[k - Len(g)]
        BY <1>4, <2>2
      <3> QED
        BY <1>1, <3>2, <3>3
    <2> QED
      BY <2>1, <2>2
  <1> QED
    BY <1>4, <1>5 DEF s

\* A block ends where the file does, and is then short.
LEMMA BlockEnds ==
    ASSUME NEW f \in Nat, NEW b \in Nat \ {0}, f <= FileLen,
           NEW l, l = Smaller(f + b, FileLen) - f
    PROVE  /\ l \in Nat /\ f + l = Smaller(f + b, FileLen)
           /\ l < b => f + l = FileLen
           /\ ~(l < b) => f + b <= FileLen
           /\ f = FileLen => f + l = FileLen
  BY TftpAssumption DEF Smaller

\* The client changes its mind, not what it holds.
LEMMA PhaseStep ==
    ASSUME TftpInv, srv' = srv, NEW ph \in {"asking", "failed", "off"},
           NEW r \in Requests \cup {None},
           cl' = [cl EXCEPT !.phase = ph, !.req = r],
           ph = "asking" => cl.tid = None /\ r \in Requests,
           \A p \in InFlight' : p \in InFlight \/ DatagramOK(p)
    PROVE  TftpInv'
  <1>1. cl \in Client
    BY DEF TftpInv, ClientInv
  <1>2. /\ cl' \in Client /\ cl'.phase = ph /\ cl'.req = r
        /\ cl'.tid = cl.tid /\ cl'.bs = cl.bs /\ cl'.expected = cl.expected /\ cl'.got = cl.got
    BY <1>1 DEF Client
  <1>3. Held' = Held /\ Held \in Nat
    BY <1>2, HeldNat, TftpAssumption DEF TftpInv, Held, LastAcked
  <1>4. cl.tid = None => Held * cl.bs <= FileLen
    <2> SUFFICES ASSUME cl.tid = None PROVE Held * cl.bs <= FileLen
      OBVIOUS
    <2>1. Held = 0
      BY <1>1, HeldFacts DEF TftpInv, ClientInv, Held, LastAcked
    <2>2. 0 * cl.bs = 0
      BY <1>1, MulSucc DEF Client
    <2> QED
      BY <2>1, <2>2, TftpAssumption
  <1>5. ClientInv'
    BY <1>2, <1>3, <1>4 DEF TftpInv, ClientInv
  <1>6. ServerInv'
    BY <1>2, <1>3 DEF TftpInv, ServerInv, ServerOK, Sending
  <1>7. ASSUME NEW p, DatagramOK(p) PROVE DatagramOK(p)'
    BY <1>2, <1>3, <1>7 DEF DatagramOK, DataOK
  <1>8. NetInv'
    BY <1>7 DEF TftpInv, NetInv
  <1> QED
    BY <1>5, <1>6, <1>8 DEF TftpInv

\* The client takes the block it waits for.
LEMMA BlockStep ==
    ASSUME TftpInv, NEW p \in InFlight, p.op = "data", Ours(p), srv' = srv,
           cl.phase \in {"asking", "receiving"}, p.block = cl.expected,
           cl' = [cl EXCEPT !.phase = IF p.len < cl.bs THEN "done" ELSE "receiving",
                            !.tid = p.tid,
                            !.expected = NextBlock(cl.expected),
                            !.got = cl.got \o [k \in 1 .. p.len |-> p.from + k]],
           NEW rest, BagToSet(rest) \subseteq InFlight, net' = BagAdd(rest, Ack(p.tid, p.block))
    PROVE  TftpInv'
  <1>1. cl \in Client /\ ClientInv /\ DatagramOK(p)
    BY DEF TftpInv, ClientInv, NetInv
  <1>2. DataOK(p)
    BY <1>1 DEF DatagramOK
  <1>3. PICK u \in Tids : u = p.tid
    BY <1>2 DEF DataOK
  <1>4. ServerOK(u) /\ srv[u] \in Transfer
    BY DEF TftpInv, ServerInv
  <1>5. cl.tid \in {None, u}
    BY <1>1, <1>3 DEF Ours, ClientInv
  <1>6. PICK b \in Nat \ {0} : b = cl.bs /\ b = srv[u].bs
    BY <1>1, <1>2, <1>3, <1>4, <1>5 DEF DataOK, ServerOK, ClientInv, Client
  <1>7. PICK n \in Nat, m \in 1 .. BlockMod - 1 : n = Held /\ m = p.block /\ m = n + 1
    <2>1. p.block \in 1 .. BlockMod - 1
      BY <1>2 DEF DataOK
    <2>2. Held = p.block - 1
      BY <1>1, <2>1, HeldFacts DEF Held, LastAcked
    <2>3. PICK m \in 1 .. BlockMod - 1 : m = p.block
      BY <2>1
    <2>4. PICK n \in Nat : n = m - 1
      BY TftpAssumption
    <2>5. m = n + 1 /\ n = Held
      BY <2>2, <2>3, <2>4, TftpAssumption
    <2> QED
      BY <2>3, <2>5
  <1>8. PICK f \in Nat : f = n * b /\ f = p.from /\ f <= FileLen /\ f = Len(cl.got) /\ m * b = f + b
    <2>1. n * b \in Nat /\ m * b = n * b + b
      BY <1>7, MulSucc
    <2>2. p.from = n * b
      <3>1. m - 1 = n
        BY <1>7
      <3> QED
        BY <1>2, <1>3, <1>6, <1>7, <3>1 DEF DataOK
    <2>3. n * b <= FileLen /\ Len(cl.got) = Smaller(n * b, FileLen)
      BY <1>1, <1>6, <1>7 DEF ClientInv
    <2>4. Len(cl.got) = n * b
      BY <2>1, <2>3, TftpAssumption DEF Smaller
    <2> QED
      BY <2>1, <2>2, <2>3, <2>4
  <1>9. PICK l \in Nat : l = p.len /\ l = Smaller(f + b, FileLen) - f
    <2>1. p.len = Smaller(f + b, FileLen) - f
      BY <1>2, <1>3, <1>6, <1>8 DEF DataOK
    <2> QED
      BY <1>8, <2>1, BlockEnds
  <1>10. PICK h \in Seq(Nat) : /\ h = cl.got \o [k \in 1 .. l |-> f + k]
                               /\ Len(h) = f + l /\ \A k \in 1 .. Len(h) : h[k] = k
    <2>1. PICK g \in Seq(Nat) : g = cl.got /\ Len(g) = f /\ \A k \in 1 .. Len(g) : g[k] = k
      BY <1>1, <1>8 DEF ClientInv, Client
    <2>2. LET h == g \o [k \in 1 .. l |-> Len(g) + k]
          IN  h \in Seq(Nat) /\ Len(h) = Len(g) + l /\ \A k \in 1 .. Len(h) : h[k] = k
      BY <2>1, Longer
    <2> QED
      BY <2>1, <2>2
  <1>11. PICK e \in 0 .. BlockMod - 1 : /\ e = NextBlock(cl.expected)
                                        /\ (e + BlockMod - 1) % BlockMod = m
    <2>1. m \in 0 .. BlockMod - 1 /\ m = cl.expected
      BY <1>7, TftpAssumption
    <2>2. /\ NextBlock(m) \in 0 .. BlockMod - 1
          /\ NextBlock(m) = IF m = BlockMod - 1 THEN 0 ELSE m + 1
      BY <2>1, BlockNumbers
    <2>3. PICK e \in 0 .. BlockMod - 1 : e = NextBlock(m)
      BY <2>2
    <2>4. (e + BlockMod - 1) % BlockMod = IF e = 0 THEN BlockMod - 1 ELSE e - 1
      BY BlockNumbers
    <2>5. (IF e = 0 THEN BlockMod - 1 ELSE e - 1) = m
      <3>1. e = IF m = BlockMod - 1 THEN 0 ELSE m + 1
        BY <2>2, <2>3
      <3> QED
        BY <3>1, BlockBefore
    <2> QED
      BY <2>1, <2>3, <2>4, <2>5
  <1>12. PICK ph \in {"done", "receiving"} : ph = IF l < b THEN "done" ELSE "receiving"
    OBVIOUS
  <1>13. cl' = [cl EXCEPT !.phase = ph, !.tid = u, !.expected = e, !.got = h]
    BY <1>3, <1>6, <1>8, <1>9, <1>10, <1>11, <1>12
  <1>14. /\ cl' \in Client /\ cl'.phase = ph /\ cl'.tid = u /\ cl'.bs = b
         /\ cl'.expected = e /\ cl'.got = h
    BY <1>1, <1>6, <1>13 DEF Client
  <1>15. Held' = m
    BY <1>11, <1>14 DEF Held, LastAcked
  <1>16. /\ Len(h) = Smaller(f + b, FileLen)
         /\ ph = "done" => Len(h) = FileLen
         /\ ph = "receiving" => f + b <= FileLen
         /\ f = FileLen => Len(h) = FileLen
    BY <1>8, <1>9, <1>10, <1>12, BlockEnds
  <1>17. ClientInv'
    BY <1>3, <1>8, <1>10, <1>12, <1>14, <1>15, <1>16, TftpAssumption DEF ClientInv
  <1>18. srv[u].phase \notin {"free", "oack"}
    BY <1>2, <1>3 DEF DataOK
  <1>19. srv[u].phase = "data" => Held' \in {srv[u].current - 1, srv[u].current}
    <2> SUFFICES ASSUME srv[u].phase = "data" PROVE m \in {srv[u].current - 1, srv[u].current}
      BY <1>15
    <2>1. PICK c \in 1 .. BlockMod - 1 : c = srv[u].current /\ Sending(u, srv[u])
      BY <1>4 DEF ServerOK, Sending
    <2>2. m <= c
      BY <1>2, <1>3, <1>7, <2>1 DEF DataOK
    <2>3. CASE cl.tid = u
      <3>1. n \in {c - 1, c}
        BY <1>7, <2>1, <2>3 DEF Sending
      <3> QED
        BY <1>7, <2>1, <2>2, <3>1
    <2>4. CASE cl.tid # u
      <3>1. c = 1
        BY <2>1, <2>4 DEF Sending
      <3> QED
        BY <1>7, <2>1, <2>2, <3>1
    <2> QED
      BY <2>3, <2>4
  <1>20. Held <= Held'
    BY <1>7, <1>15
  <1>21. PICK a : a = Ack(p.tid, p.block) /\ a = [op |-> "ack", tid |-> u, block |-> m]
    BY <1>3, <1>7 DEF Ack
  <1>22. DatagramOK(a)'
    BY <1>7, <1>14, <1>15, <1>21 DEF DatagramOK, ToMain
  <1>23. \A q \in InFlight' : q \in InFlight \/ DatagramOK(q)'
    BY <1>21, <1>22, BagAddSet DEF InFlight
  <1>24. /\ u # None /\ cl'.bs = srv[u].bs
         /\ Len(cl.got) = FileLen => Len(cl'.got) = FileLen
    BY <1>6, <1>8, <1>14, <1>16, TftpAssumption
  <1> QED
    BY <1>5, <1>14, <1>17, <1>18, <1>19, <1>20, <1>23, <1>24, ClientStep

\* The client takes an OACK, for the first time or again.
LEMMA OackStep ==
    ASSUME TftpInv, NEW p \in InFlight, p.op = "oack", Ours(p), srv' = srv,
           cl.phase = "asking" \/ (cl.phase = "receiving" /\ cl.expected = 1),
           cl' = [cl EXCEPT !.phase = "receiving", !.tid = p.tid, !.bs = p.bs],
           NEW rest, BagToSet(rest) \subseteq InFlight, net' = BagAdd(rest, Ack(p.tid, 0))
    PROVE  TftpInv'
  <1>1. cl \in Client /\ ClientInv /\ DatagramOK(p)
    BY DEF TftpInv, ClientInv, NetInv
  <1>2. PICK u \in Tids : u = p.tid /\ srv[u].phase # "free" /\ p.bs = srv[u].bs
    BY <1>1 DEF DatagramOK
  <1>3. ServerOK(u) /\ srv[u] \in Transfer
    BY DEF TftpInv, ServerInv
  <1>4. cl.tid \in {None, u} /\ cl.expected = 1
    BY <1>1, <1>2 DEF Ours, ClientInv
  <1>5. PICK b \in Nat \ {0} : b = srv[u].bs
    BY <1>3 DEF Transfer
  <1>6. cl' = [cl EXCEPT !.phase = "receiving", !.tid = u, !.bs = b]
    BY <1>2, <1>5
  <1>7. /\ cl' \in Client /\ cl'.phase = "receiving" /\ cl'.tid = u /\ cl'.bs = b
        /\ cl'.expected = cl.expected /\ cl'.got = cl.got
    BY <1>1, <1>6 DEF Client
  <1>8. Held = 0 /\ Held' = 0
    BY <1>1, <1>4, <1>7, HeldFacts DEF Held, LastAcked
  <1>9. 0 * b = 0 /\ 0 * cl.bs = 0 /\ Smaller(0, FileLen) = 0
    BY <1>1, MulSucc, TftpAssumption DEF Client, Smaller
  <1>10. ClientInv'
    BY <1>1, <1>7, <1>8, <1>9, TftpAssumption DEF ClientInv
  <1>11. srv[u].phase = "data" => Held' \in {srv[u].current - 1, srv[u].current}
    <2> SUFFICES ASSUME srv[u].phase = "data" PROVE 0 \in {srv[u].current - 1, srv[u].current}
      BY <1>8
    <2>1. Sending(u, srv[u])
      BY <1>3 DEF ServerOK
    <2> QED
      BY <1>8, <2>1 DEF Sending
  <1>12. PICK a : a = Ack(p.tid, 0) /\ a = [op |-> "ack", tid |-> u, block |-> 0]
    BY <1>2 DEF Ack
  <1>13. DatagramOK(a)'
    BY <1>7, <1>8, <1>12 DEF DatagramOK, ToMain
  <1>14. \A q \in InFlight' : q \in InFlight \/ DatagramOK(q)'
    BY <1>12, <1>13, BagAddSet DEF InFlight
  <1>15. /\ u # None /\ cl'.bs = srv[u].bs /\ Held <= Held'
         /\ Len(cl.got) = FileLen => Len(cl'.got) = FileLen
    BY <1>5, <1>7, <1>8, TftpAssumption
  <1> QED
    BY <1>2, <1>4, <1>7, <1>8, <1>10, <1>11, <1>14, <1>15, ClientStep

\* Every datagram that reaches the client.
LEMMA ReceiveStep ==
    ASSUME TftpInv, NEW p \in InFlight, ClientReceive(p)
    PROVE  TftpInv'
  <1>1. PICK rest : rest = BagRemove(net, p) /\ BagToSet(rest) \subseteq InFlight
    BY BagRemoveSet DEF InFlight
  <1>2. srv' = srv /\ ToClient(p) /\ DatagramOK(p)
    BY DEF ClientReceive, TftpInv, NetInv
  <1>3. CASE cl' = cl /\ net' = rest
    <2>1. \A q \in InFlight' : q \in InFlight \/ DatagramOK(q)
      BY <1>1, <1>3 DEF InFlight
    <2> QED
      BY <1>2, <1>3, <2>1, NetStep
  <1>4. ASSUME NEW q, DatagramOK(q), cl' = cl, net' = BagAdd(rest, q)
        PROVE  TftpInv'
    <2>1. \A x \in InFlight' : x \in InFlight \/ DatagramOK(x)
      BY <1>1, <1>4, BagAddSet DEF InFlight
    <2> QED
      BY <1>2, <1>4, <2>1, NetStep
  <1>5. CASE ~Ours(p)
    <2>1. cl' = cl /\ net' = IF p.op = "error" THEN rest ELSE BagAdd(rest, Refusal(p.tid))
      BY <1>1, <1>5 DEF ClientReceive
    <2>2. CASE p.op = "error"
      BY <1>3, <2>1, <2>2
    <2>3. CASE p.op # "error"
      <3>1. p.tid \in Tids
        BY <1>2, <2>3 DEF DatagramOK, ToClient, DataOK
      <3>2. PICK q : q = Refusal(p.tid)
        OBVIOUS
      <3>3. DatagramOK(q)
        BY <3>1, <3>2 DEF DatagramOK, Refusal, ToMain
      <3> QED
        BY <1>4, <2>1, <2>3, <3>2, <3>3
    <2> QED
      BY <2>2, <2>3
  <1>6. CASE Ours(p) /\ TakeOack(p, rest)
    <2>1. CASE cl.phase = "asking" \/ (cl.phase = "receiving" /\ cl.expected = 1)
      BY <1>1, <1>2, <1>6, <2>1, OackStep DEF TakeOack
    <2>2. CASE ~(cl.phase = "asking" \/ (cl.phase = "receiving" /\ cl.expected = 1))
      BY <1>3, <1>6, <2>2 DEF TakeOack
    <2> QED
      BY <2>1, <2>2
  <1>7. CASE Ours(p) /\ TakeData(p, rest)
    <2>1. CASE cl.phase \in {"asking", "receiving"} /\ p.block = cl.expected
      BY <1>1, <1>2, <1>7, <2>1, BlockStep DEF TakeData
    <2>2. CASE ~(cl.phase \in {"asking", "receiving"} /\ p.block = cl.expected)
      <3>1. cl' = cl /\ net' = IF p.block = LastAcked THEN BagAdd(rest, Ack(p.tid, p.block)) ELSE rest
        BY <1>7, <2>2 DEF TakeData
      <3>2. CASE p.block # LastAcked
        BY <1>3, <3>1, <3>2
      <3>3. CASE p.block = LastAcked
        <4>1. DataOK(p) /\ ClientInv
          BY <1>2, <1>7 DEF DatagramOK, TakeData, TftpInv
        <4>2. Held \in 0 .. BlockMod - 1 /\ Held >= 1 /\ Held = p.block
          BY <3>3, <4>1, HeldNat DEF DataOK, Held
        <4>3. cl.tid = p.tid
          <5>1. cl.tid = None => Held = 0
            BY <4>1, HeldFacts DEF ClientInv, Held, LastAcked
          <5> QED
            BY <1>7, <4>1, <4>2, <5>1 DEF Ours, ClientInv
        <4>4. PICK q : q = Ack(p.tid, p.block)
          OBVIOUS
        <4>5. q.op = "ack" /\ q.tid = p.tid /\ q.block = p.block
          BY <4>4 DEF Ack
        <4>6. p.tid \in Tids /\ p.block \in 0 .. Held
          BY <4>1, <4>2, TftpAssumption DEF DataOK
        <4>7. DatagramOK(q)
          BY <4>3, <4>5, <4>6 DEF DatagramOK, ToMain
        <4> QED
          BY <1>4, <3>1, <3>3, <4>4, <4>7
      <3> QED
        BY <3>2, <3>3
    <2> QED
      BY <2>1, <2>2
  <1>8. CASE Ours(p) /\ TakeError(p, rest)
    <2>1. \A q \in InFlight' : q \in InFlight \/ DatagramOK(q)
      BY <1>1, <1>8 DEF TakeError, InFlight
    <2>2. cl \in Client
      BY DEF TftpInv, ClientInv
    <2>3. CASE cl.phase = "done"
      <3>1. cl' = cl
        BY <1>8, <2>2, <2>3 DEF TakeError, Client
      <3> QED
        BY <1>3, <1>8, <3>1 DEF TakeError
    <2>4. CASE cl.phase # "done"
      <3>1. PICK r \in Requests \cup {None} : r = cl.req
        BY <2>2 DEF Client
      <3>2. cl' = [cl EXCEPT !.phase = "failed", !.req = r]
        BY <1>8, <2>2, <2>4, <3>1 DEF TakeError, Client
      <3> QED
        BY <1>2, <2>1, <3>2, PhaseStep
    <2> QED
      BY <2>3, <2>4
  <1> QED
    BY <1>1, <1>5, <1>6, <1>7, <1>8 DEF ClientReceive

\* What the client does of its own accord.
LEMMA OwnStep ==
    ASSUME TftpInv, (\E r \in Requests : Request(r)) \/ ClientTimeout \/ PowerOff
    PROVE  TftpInv'
  <1>1. cl \in Client /\ ClientInv
    BY DEF TftpInv, ClientInv
  <1>2. \A r \in Requests : DatagramOK(r)
    BY RequestsAssumption DEF DatagramOK, ToMain
  <1>3. ASSUME NEW r \in Requests, Request(r) PROVE TftpInv'
    <2>1. srv' = srv /\ cl' = [cl EXCEPT !.phase = "asking", !.req = r] /\ cl.tid = None
      BY <1>1, <1>3 DEF Request, ClientInv
    <2>2. \A q \in InFlight' : q \in InFlight \/ DatagramOK(q)
      <3>1. net' = BagAdd(net, r) /\ DatagramOK(r)
        BY <1>2, <1>3 DEF Request
      <3> QED
        BY <3>1, BagAddSet DEF InFlight
    <2> QED
      BY <2>1, <2>2, PhaseStep
  <1>4. CASE ClientTimeout
    <2>1. srv' = srv /\ cl' = cl
      BY <1>4 DEF ClientTimeout
    <2>2. PICK q : DatagramOK(q) /\ net' = BagAdd(net, q)
      <3>1. CASE cl.phase = "asking" /\ net' = BagAdd(net, cl.req)
        BY <1>1, <1>2, <3>1 DEF ClientInv
      <3>2. CASE cl.phase = "receiving" /\ net' = BagAdd(net, Ack(cl.tid, LastAcked))
        <4>1. cl.tid \in Tids
          BY <1>1, <3>2 DEF ClientInv, Client
        <4>2. Held \in 0 .. Held
          BY <1>1, HeldNat, TftpAssumption
        <4>3. PICK q : q = Ack(cl.tid, LastAcked)
          OBVIOUS
        <4>4. q.op = "ack" /\ q.tid = cl.tid /\ q.block = Held
          BY <4>3 DEF Ack, Held
        <4>5. DatagramOK(q)
          BY <4>1, <4>2, <4>4 DEF DatagramOK, ToMain
        <4> QED
          BY <3>2, <4>3, <4>5
      <3> QED
        BY <1>4, <3>1, <3>2 DEF ClientTimeout
    <2>3. \A x \in InFlight' : x \in InFlight \/ DatagramOK(x)
      BY <2>2, BagAddSet DEF InFlight
    <2> QED
      BY <2>1, <2>3, NetStep
  <1>5. CASE PowerOff
    <2>1. PICK r \in Requests \cup {None} : r = cl.req
      BY <1>1 DEF Client
    <2>2. srv' = srv /\ cl' = [cl EXCEPT !.phase = "off", !.req = r]
      BY <1>1, <1>5, <2>1 DEF PowerOff, Client
    <2>3. \A x \in InFlight' : x \in InFlight \/ DatagramOK(x)
      BY <1>5 DEF PowerOff, InFlight
    <2> QED
      BY <2>2, <2>3, PhaseStep
  <1> QED
    BY <1>3, <1>4, <1>5

-----------------------------------------------------------------------------
(* All steps *)

LEMMA NextInv ==
    ASSUME TftpInv, [Next]_vars
    PROVE  TftpInv'
  <1>1. CASE UNCHANGED vars
    <2>1. srv' = srv /\ cl' = cl /\ \A q \in InFlight' : q \in InFlight \/ DatagramOK(q)
      BY <1>1 DEF vars, InFlight
    <2> QED
      BY <2>1, NetStep
  <1>2. CASE (\E r \in Requests : Request(r)) \/ ClientTimeout \/ PowerOff
    BY <1>2, OwnStep
  <1>3. ASSUME NEW t \in Tids, ServerTimeout(t) \/ RecvError(t) \/ SendError(t)
        PROVE  TftpInv'
    BY <1>3, AloneStep
  <1>4. ASSUME NEW p \in InFlight, ServerReceive(p)
        PROVE  TftpInv'
    BY <1>4, RequestStep, AnswerStep DEF ServerReceive
  <1>5. ASSUME NEW p \in InFlight, ClientReceive(p)
        PROVE  TftpInv'
    BY <1>5, ReceiveStep
  <1>6. ASSUME NEW p \in InFlight, Lose(p) \/ Duplicate(p) \/ Discard(p)
        PROVE  TftpInv'
    <2>1. srv' = srv /\ cl' = cl
      BY <1>6 DEF Lose, Duplicate, Discard
    <2>2. net' = BagRemove(net, p) \/ net' = BagAdd(net, p)
      BY <1>6 DEF Lose, Duplicate, Discard
    <2>3. \A q \in InFlight' : q \in InFlight \/ DatagramOK(q)
      BY <2>2, BagAddSet, BagRemoveSet DEF InFlight
    <2> QED
      BY <2>1, <2>3, NetStep
  <1> QED
    BY <1>1, <1>2, <1>3, <1>4, <1>5, <1>6 DEF Next

LEMMA Invariant == Spec => []TftpInv
  BY InitInv, NextInv, PTL DEF Spec

-----------------------------------------------------------------------------
(* The theorems *)

\* Block numbers stay u16 and retries within their limit, and transfer_blocks
\* never slices beyond the end of the file.
THEOREM TypeCorrect == Spec => []TypeOK
  <1>1. ASSUME TftpInv PROVE TypeOK
    <2>1. srv \in [Tids -> Transfer]
      BY <1>1 DEF TftpInv, ServerInv
    <2>2. ASSUME NEW p \in InFlight, p.op = "data"
          PROVE  p.from \in 0 .. FileLen /\ p.len \in 0 .. FileLen - p.from
      <3>1. DataOK(p)
        BY <1>1, <2>2 DEF TftpInv, NetInv, DatagramOK
      <3>2. PICK b \in Nat \ {0} : b = srv[p.tid].bs
        BY <2>1, <3>1 DEF DataOK, Transfer
      <3>3. PICK c \in Nat : c = p.block - 1
        BY <3>1, TftpAssumption DEF DataOK
      <3>4. PICK f \in Nat : f = p.from /\ f <= FileLen
        BY <3>1, <3>2, <3>3, MulSucc DEF DataOK
      <3>5. p.len = Smaller(f + b, FileLen) - f
        BY <3>1, <3>2, <3>4 DEF DataOK
      <3> QED
        BY <3>2, <3>4, <3>5, TftpAssumption DEF Smaller
    <2> QED
      BY <2>1, <2>2 DEF TypeOK, Transfer
  <1> QED
    BY <1>1, Invariant, PTL

\* Whatever is lost, repeated or overtaken, the client holds a prefix of the
\* file, and all of it when it takes the transfer for finished: transfer_blocks
\* cuts blocks of the size it announced and marks the last by its length.
THEOREM ClientHoldsFile == Spec => []FileExact
  <1>1. ASSUME TftpInv PROVE FileExact
    <2>1. cl \in Client /\ ClientInv /\ Held \in 0 .. BlockMod - 1
      BY <1>1, HeldNat DEF TftpInv, ClientInv
    <2>2. Held * cl.bs \in Nat
      BY <2>1, MulSucc DEF Client
    <2>3. Len(cl.got) <= FileLen
      BY <2>1, <2>2, TftpAssumption DEF ClientInv, Smaller
    <2>4. DOMAIN cl.got = 1 .. Len(cl.got)
      BY <2>1 DEF Client
    <2> QED
      BY <2>1, <2>3, <2>4 DEF FileExact, ClientInv
  <1> QED
    BY <1>1, Invariant, PTL

\* Where transfer_blocks returns Ok, the client has the file from this
\* transfer: a stray, late or repeated ACK is never taken for the final one.
THEOREM DeliveredOnSuccess == Spec => []SuccessMeansDelivered
  <1>1. ASSUME TftpInv PROVE SuccessMeansDelivered
    BY <1>1 DEF TftpInv, ServerInv, ServerOK, SuccessMeansDelivered
  <1> QED
    BY <1>1, Invariant, PTL

\* The block a transfer waits for is the one its client expects or has just
\* acknowledged, also at the last block number there is.
THEOREM ServerClientLockstep == Spec => []Lockstep
  <1>1. ASSUME TftpInv PROVE Lockstep
    <2> SUFFICES ASSUME NEW t \in Tids, srv[t].phase = "data", cl.tid = t
                 PROVE  cl.expected \in {srv[t].current, NextBlock(srv[t].current)}
      BY DEF Lockstep
    <2>1. PICK c \in 1 .. BlockMod - 1 : c = srv[t].current /\ Held \in {c - 1, c}
      BY <1>1 DEF TftpInv, ServerInv, ServerOK, Sending
    <2>2. PICK e \in 0 .. BlockMod - 1 : e = cl.expected
      BY <1>1 DEF TftpInv, ClientInv, Client
    <2>3. Held = IF e = 0 THEN BlockMod - 1 ELSE e - 1
      BY <2>2, BlockNumbers DEF Held, LastAcked
    <2>4. c \in 0 .. BlockMod - 1
      BY TftpAssumption
    <2>5. NextBlock(c) = IF c = BlockMod - 1 THEN 0 ELSE c + 1
      BY <2>4, BlockNumbers
    <2>6. e \in {c, NextBlock(c)}
      BY <2>1, <2>3, <2>5, TftpAssumption
    <2> QED
      BY <2>1, <2>2, <2>6
  <1> QED
    BY <1>1, Invariant, PTL

=============================================================================
