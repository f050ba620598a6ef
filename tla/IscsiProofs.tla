---------------------------- MODULE IscsiProofs -------------------------------
(***************************************************************************)
(* Proofs about the iSCSI target, for every disk, set of tags, block range *)
(* and negotiated parameters.                                              *)
(*                                                                         *)
(* Part 1 is about IscsiTarget, the target against any peer: TargetInv is  *)
(* inductive.  Parts 2 and 3 are about IscsiSession, the target with a     *)
(* conforming initiator.  CoreInv adds where the two sides are in the      *)
(* session and that their sequence numbers differ by what is on its way.   *)
(* FlowInv adds where each command is, what its PDUs carry, what the       *)
(* target has gathered of it and that this, with what is on its way or     *)
(* asked for, makes up the write.  None of it assumes how much an          *)
(* initiator puts into one Data-Out PDU.                                   *)
(***************************************************************************)
EXTENDS IscsiSession, TLAPS

-----------------------------------------------------------------------------
(* Part 1.  The target against any peer *)

\* No R2T is on its way while the parameters may still be negotiated.
NoR2tInLogin == stage = "Login" => \A i \in DOMAIN tx : tx[i].op # "r2t"

\* The inductive invariant.
TargetInv == TypeOK /\ TargetResolved /\ R2tInBurst /\ NoR2tInLogin

-----------------------------------------------------------------------------
(* Facts about the operators *)

LEMMA ModSn == ASSUME NEW n \in Nat PROVE n % SnMod \in Sn
  BY SnAssumption DEF Sn

LEMMA PduType ==
    ASSUME NEW op \in {"login", "scsi", "datain", "r2t", "nopin", "text", "tmf", "logout", "reject"},
           NEW itt \in Itts \cup {None}, NEW sn \in Sn, NEW exp \in Sn, NEW body \in Body
    PROVE  /\ Pdu(op, itt, sn, exp, body) \in Response
           /\ Pdu(op, itt, sn, exp, body).op = op
           /\ Pdu(op, itt, sn, exp, body).body = body
  <1>1. MaxCmdSn(exp) \in Sn
    BY ModSn, SnAssumption DEF MaxCmdSn, Sn
  <1> QED
    BY <1>1 DEF Pdu, Response

\* A response appended to tx keeps the invariants on tx, if it is no R2T or
\* one within the burst.
LEMMA AppendInv ==
    ASSUME tx \in Seq(Response), R2tInBurst, params' = params,
           NEW p \in Response, tx' = Append(tx, p),
           p.op = "r2t" => InBurst(p.body)
    PROVE  /\ tx' \in Seq(Response)
           /\ R2tInBurst'
           /\ (\A i \in DOMAIN tx : tx[i].op # "r2t") /\ p.op # "r2t" =>
                 \A i \in DOMAIN tx' : tx'[i].op # "r2t"
  <1>1. /\ tx' \in Seq(Response)
        /\ DOMAIN tx' = 1 .. Len(tx) + 1
        /\ \A i \in 1 .. Len(tx) : tx'[i] = tx[i]
        /\ tx'[Len(tx) + 1] = p
    OBVIOUS
  <1>2. DOMAIN tx = 1 .. Len(tx) /\ Len(tx) \in Nat
    OBVIOUS
  <1>3. \A i \in DOMAIN tx' : i \in DOMAIN tx \/ i = Len(tx) + 1
    BY <1>1, <1>2
  <1> QED
    BY <1>1, <1>2, <1>3 DEF R2tInBurst, InBurst

\* Respond keeps the types, the burst and the login discipline.
LEMMA RespondInv ==
    ASSUME TargetInv, params' = params,
           NEW op \in {"login", "scsi", "datain", "r2t", "nopin", "text", "tmf", "logout", "reject"},
           NEW itt \in Itts \cup {None}, NEW body \in Body, exp_cmd_sn' \in Sn,
           op = "r2t" => InBurst(body) /\ stage' # "Login",
           stage' = "Login" => stage = "Login",
           Respond(op, itt, body)
    PROVE  /\ tx' \in Seq(Response) /\ stat_sn' \in Sn
           /\ R2tInBurst' /\ NoR2tInLogin'
  <1> DEFINE p == Pdu(op, itt, stat_sn, exp_cmd_sn', body)
  <1>1. stat_sn \in Sn
    BY DEF TargetInv, TypeOK
  <1>2. p \in Response /\ p.op = op /\ p.body = body
    BY <1>1, PduType
  <1>3. tx' = Append(tx, p) /\ stat_sn' \in {stat_sn, (stat_sn + 1) % SnMod}
    BY DEF Respond
  <1>4. stat_sn' \in Sn
    BY <1>3, ModSn DEF TargetInv, TypeOK, Sn
  <1> HIDE DEF p
  <1>5. /\ tx' \in Seq(Response) /\ R2tInBurst'
        /\ (\A i \in DOMAIN tx : tx[i].op # "r2t") /\ op # "r2t" =>
              \A i \in DOMAIN tx' : tx'[i].op # "r2t"
    BY <1>2, <1>3, AppendInv DEF TargetInv, TypeOK
  <1> QED
    BY <1>4, <1>5 DEF TargetInv, NoR2tInLogin

LEMMA PatchedType ==
    ASSUME NEW n, NEW buf \in [0 .. n - 1 -> Val \cup {Blank}],
           NEW off \in Nat, NEW data \in Seq(Val)
    PROVE  Patched(buf, off, data) \in [0 .. n - 1 -> Val \cup {Blank}]
  <1> SUFFICES ASSUME NEW i \in 0 .. n - 1, i >= off, i < off + Len(data)
               PROVE  data[i - off + 1] \in Val
    BY DEF Patched
  <1>1. i - off + 1 \in 1 .. Len(data)
    OBVIOUS
  <1> QED
    BY <1>1

LEMMA SolicitType ==
    ASSUME TypeOK, NEW e \in Nat, NEW r \in Nat, r < e
    PROVE  Solicit(e, r) \in Body /\ InBurst(Solicit(e, r))
  <1>1. Smaller(e - r, params.burst) \in Nat
    BY DEF TypeOK, Smaller
  <1>2. Solicit(e, r) \in [off : Nat, len : Nat]
    BY <1>1 DEF Solicit
  <1>3. InBurst(Solicit(e, r))
    BY DEF TypeOK, Solicit, Smaller, InBurst
  <1> QED
    BY <1>2, <1>3 DEF Body

LEMMA OutcomeType ==
    ASSUME TypeOK, NEW c \in ScsiCommand, NEW o \in Outcomes(c)
    PROVE  o.status \in {"good", "check"} /\ o.data \in Seq(Val \cup {Blank})
  <1>1. ASSUME c.blocks > 0, InRange(c) PROVE ReadData(c) \in Seq(Val \cup {Blank})
    <2>1. c.lba \in Nat /\ c.blocks \in Nat
      BY DEF ScsiCommand
    <2>2. \A i \in 1 .. c.blocks : c.lba + i - 1 \in Lbas
      BY <1>1, <2>1, DiskAssumption DEF InRange, Lbas
    <2>3. ReadData(c) \in [1 .. c.blocks -> Val \cup {Blank}]
      BY <2>2 DEF ReadData, TypeOK
    <2> QED
      BY <2>1, <2>3
  <1>2. <<>> \in Seq(Val \cup {Blank}) /\ <<Blank>> \in Seq(Val \cup {Blank})
    OBVIOUS
  <1>3. \/ o \in {[status |-> "good", data |-> <<>>], [status |-> "check", data |-> <<>>],
                  [status |-> "good", data |-> <<Blank>>]}
        \/ c.blocks > 0 /\ InRange(c) /\ o = [status |-> "good", data |-> ReadData(c)]
    BY Zenon DEF Outcomes
  <1>4. CASE o \in {[status |-> "good", data |-> <<>>], [status |-> "check", data |-> <<>>],
                    [status |-> "good", data |-> <<Blank>>]}
    <2>1. o.status \in {"good", "check"} /\ (o.data = <<>> \/ o.data = <<Blank>>)
      BY <1>4
    <2> QED
      BY <1>2, <2>1
  <1>5. CASE c.blocks > 0 /\ InRange(c) /\ o = [status |-> "good", data |-> ReadData(c)]
    BY <1>1, <1>5
  <1> QED
    BY <1>3, <1>4, <1>5

\* The Data-In PDUs of a read: a sequence of responses, none of them an R2T.
LEMMA ChunksType ==
    ASSUME TypeOK, NEW c \in ScsiCommand, NEW data \in Seq(Val \cup {Blank}),
           NEW sn \in Sn, NEW exp \in Sn
    PROVE  /\ DataInChunks(c, data, sn, exp) \in Seq(Response)
           /\ \A i \in DOMAIN DataInChunks(c, data, sn, exp) :
                 DataInChunks(c, data, sn, exp)[i].op = "datain"
  <1> DEFINE seg == Larger(params.segment, MinSegment)
             n == (Len(data) + seg - 1) \div seg
             piece(i) == SubSeq(data, (i - 1) * seg + 1, Smaller(i * seg, Len(data)))
             body(i) == [final |-> i = n, off |-> (i - 1) * seg, data |-> piece(i)]
             D == DataInChunks(c, data, sn, exp)
  <1>1. seg \in Nat \ {0} /\ Len(data) \in Nat
    BY ParamsAssumption DEF TypeOK, Larger
  <1> HIDE DEF seg
  <1>2. n \in Nat
    BY <1>1
  <1> HIDE DEF n
  <1>3. ASSUME NEW i \in 1 .. n PROVE body(i) \in Body
    <2>1. (i - 1) * seg \in Nat /\ i * seg \in Nat
      BY <1>1, <1>2
    <2>2. Smaller(i * seg, Len(data)) \in 0 .. Len(data)
      BY <1>1, <2>1 DEF Smaller
    <2>3. piece(i) \in Seq(Val \cup {Blank})
      BY <1>1, <2>1, <2>2
    <2> HIDE DEF piece
    <2>4. body(i) \in [final : BOOLEAN, off : Nat, data : Seq(Val \cup {Blank})]
      BY <2>1, <2>3
    <2> QED
      BY <2>4 DEF Body
  <1>4. D = [i \in 1 .. n |-> Pdu("datain", c.itt, sn, exp, body(i))]
    BY DEF DataInChunks, seg, n
  <1> HIDE DEF D, body
  <1>5. c.itt \in Itts
    BY DEF ScsiCommand
  <1>6. \A i \in 1 .. n : /\ Pdu("datain", c.itt, sn, exp, body(i)) \in Response
                          /\ Pdu("datain", c.itt, sn, exp, body(i)).op = "datain"
    BY <1>3, <1>5, PduType
  <1>7. D \in [1 .. n -> Response] /\ \A i \in DOMAIN D : D[i].op = "datain"
    BY <1>4, <1>6
  <1> QED
    BY <1>2, <1>7 DEF D

LEMMA StoredType ==
    ASSUME TypeOK, NEW lba \in Nat, NEW n \in Nat, NEW k \in 0 .. n,
           NEW buf \in [0 .. n - 1 -> Val \cup {Blank}]
    PROVE  Stored(lba, buf, k) \in [Lbas -> Val \cup {Blank}]
  <1> SUFFICES ASSUME NEW l \in Lbas, l >= lba, l < lba + k
               PROVE  buf[l - lba] \in Val \cup {Blank}
    BY DEF Stored, TypeOK
  <1>1. l - lba \in 0 .. n - 1
    BY DiskAssumption DEF Lbas
  <1> QED
    BY <1>1

-----------------------------------------------------------------------------
(* The steps that execute a command *)

LEMMA WriteMediumInv ==
    ASSUME TargetInv, params' = params, exp_cmd_sn' \in Sn, stage' = stage,
           NEW c \in ScsiCommand, NEW buf \in [0 .. c.blocks - 1 -> Val \cup {Blank}],
           WriteMedium(c, buf)
    PROVE  /\ tx' \in Seq(Response) /\ stat_sn' \in Sn /\ R2tInBurst' /\ NoR2tInLogin'
           /\ disk' \in [Lbas -> Val \cup {Blank}]
  <1>1. PICK k \in 0 .. c.blocks :
            /\ disk' = Stored(c.lba, buf, k)
            /\ Respond("scsi", c.itt, Code(IF k = c.blocks THEN "good" ELSE "check"))
    BY DEF WriteMedium
  <1> DEFINE body == Code(IF k = c.blocks THEN "good" ELSE "check")
  <1>2. c.itt \in Itts /\ c.lba \in Nat /\ c.blocks \in Nat
    BY DEF ScsiCommand
  <1>3. body \in Body
    BY DEF Code, Body
  <1> HIDE DEF body
  <1>4. Respond("scsi", c.itt, body)
    BY <1>1 DEF body
  <1>5. tx' \in Seq(Response) /\ stat_sn' \in Sn /\ R2tInBurst' /\ NoR2tInLogin'
    BY <1>2, <1>3, <1>4, RespondInv
  <1> QED
    BY <1>1, <1>2, <1>5, StoredType DEF TargetInv

LEMMA OutcomeRespondInv ==
    ASSUME TargetInv, params' = params, exp_cmd_sn' \in Sn, stage' = stage,
           NEW c \in ScsiCommand, NEW o \in Outcomes(c), Respond("scsi", c.itt, Code(o.status))
    PROVE  tx' \in Seq(Response) /\ stat_sn' \in Sn /\ R2tInBurst' /\ NoR2tInLogin'
  <1>1. c.itt \in Itts
    BY DEF ScsiCommand
  <1>2. Code(o.status) \in Body
    BY OutcomeType DEF Code, Body, TargetInv
  <1> QED
    BY <1>1, <1>2, RespondInv

LEMMA FinishWriteInv ==
    ASSUME TargetInv, params' = params, exp_cmd_sn' \in Sn, stage' = stage,
           NEW c \in ScsiCommand, NEW buf \in [0 .. c.edtl - 1 -> Val \cup {Blank}],
           FinishWrite(c, buf)
    PROVE  /\ tx' \in Seq(Response) /\ stat_sn' \in Sn /\ R2tInBurst' /\ NoR2tInLogin'
           /\ disk' \in [Lbas -> Val \cup {Blank}]
  <1>1. CASE WritesMedium(c, c.edtl)
    <2>1. c.edtl = c.blocks /\ WriteMedium(c, buf)
      BY <1>1 DEF FinishWrite, WritesMedium
    <2> QED
      BY <2>1, WriteMediumInv
  <1>2. CASE ~WritesMedium(c, c.edtl)
    <2>1. PICK o \in Outcomes(c) : Respond("scsi", c.itt, Code(o.status)) /\ UNCHANGED disk
      BY <1>2 DEF FinishWrite
    <2> QED
      BY <2>1, OutcomeRespondInv DEF TargetInv, TypeOK
  <1> QED
    BY <1>1, <1>2

-----------------------------------------------------------------------------
(* The actions *)

LEMMA TargetInit == Init => TargetInv
  <1> SUFFICES ASSUME Init PROVE TargetInv
    OBVIOUS
  <1>1. params \in [burst : Nat, segment : Nat]
    BY ParamsAssumption DEF Init
  <1>2. disk \in [Lbas -> Val \cup {Blank}]
    BY DiskAssumption DEF Init
  <1>3. stat_sn \in Sn /\ exp_cmd_sn \in Sn
    BY SnAssumption DEF Init, Sn
  <1>4. tx \in Seq(Response) /\ DOMAIN tx = {}
    BY DEF Init
  <1>5. /\ in_flight = [i \in Itts |-> in_flight[i]]
        /\ \A i \in Itts : in_flight[i] = None
    BY DEF Init
  <1>6. TypeOK
    BY <1>1, <1>2, <1>3, <1>4, <1>5 DEF Init, TypeOK
  <1> QED
    BY <1>4, <1>5, <1>6 DEF Init, TargetInv, TargetResolved, R2tInBurst, NoR2tInLogin

\* What is left of the invariant when the tables of writes change in one entry.
LEMMA InFlightStep ==
    ASSUME TargetInv, NEW i \in Itts, NEW p, in_flight' = [in_flight EXCEPT ![i] = p],
           p # None => PendingWrite(p), bound, bound' = bound
    PROVE  /\ in_flight' = [j \in Itts |-> in_flight'[j]]
           /\ \A j \in Itts : in_flight'[j] # None => PendingWrite(in_flight'[j])
           /\ TargetResolved'
  <1>1. in_flight = [j \in Itts |-> in_flight[j]]
        /\ \A j \in Itts : in_flight[j] # None => PendingWrite(in_flight[j])
    BY DEF TargetInv, TypeOK
  <1>2. \A j \in Itts : in_flight'[j] = IF j = i THEN p ELSE in_flight[j]
    BY <1>1
  <1>3. in_flight' = [j \in Itts |-> in_flight'[j]]
    BY <1>1
  <1> QED
    BY <1>1, <1>2, <1>3 DEF TargetResolved

LEMMA ExpCmdSnType == TypeOK => ExpCmdSnAfter \in Sn
  BY ModSn DEF TypeOK, ExpCmdSnAfter, Sn

LEMMA LoginInv == ASSUME TargetInv, NEW r \in Request, HandleLogin(r) PROVE TargetInv'
  <1> DEFINE sn == IF stat_sn = 0 THEN r.exp_stat_sn ELSE stat_sn
  <1>1. r \in LoginRequest /\ stage = "Login"
    BY DEF HandleLogin, Request, ScsiCommand, DataOut, OtherRequest
  <1>2. /\ r.cmd_sn \in Sn /\ r.exp_stat_sn \in Sn /\ r.transit \in BOOLEAN
        /\ r.burst \in Nat \cup {None} /\ r.segment \in Nat \cup {None}
    BY <1>1 DEF LoginRequest
  <1>3. TypeOK /\ TargetResolved /\ R2tInBurst /\ \A i \in DOMAIN tx : tx[i].op # "r2t"
    BY <1>1 DEF TargetInv, NoR2tInLogin
  <1>4. sn \in Sn
    BY <1>2, <1>3 DEF TypeOK
  <1> HIDE DEF sn
  <1>5. stat_sn' \in Sn /\ exp_cmd_sn' \in Sn
    <2>1. stat_sn' = (sn + 1) % SnMod /\ exp_cmd_sn' = r.cmd_sn
      BY DEF HandleLogin, sn
    <2>2. sn + 1 \in Nat
      BY <1>4 DEF Sn
    <2> QED
      BY <1>2, <2>1, <2>2, ModSn
  <1>6. PICK code \in {"failed", "transit", "stay"} :
            tx' = Append(tx, Pdu("login", None, sn, r.cmd_sn, Code(code)))
    BY DEF HandleLogin, sn
  <1>7. Code(code) \in Body
    BY DEF Code, Body
  <1>8. /\ Pdu("login", None, sn, r.cmd_sn, Code(code)) \in Response
        /\ Pdu("login", None, sn, r.cmd_sn, Code(code)).op = "login"
    BY <1>2, <1>4, <1>7, PduType
  <1>9. tx' \in Seq(Response) /\ \A i \in DOMAIN tx' : tx'[i].op # "r2t"
    <2> DEFINE p == Pdu("login", None, sn, r.cmd_sn, Code(code))
    <2>1. p \in Response /\ p.op # "r2t" /\ tx' = Append(tx, p) /\ tx \in Seq(Response)
      BY <1>3, <1>6, <1>8 DEF TypeOK
    <2> HIDE DEF p
    <2>2. /\ tx' \in Seq(Response) /\ DOMAIN tx' = 1 .. Len(tx) + 1 /\ DOMAIN tx = 1 .. Len(tx)
          /\ \A i \in 1 .. Len(tx) : tx'[i] = tx[i]
          /\ tx'[Len(tx) + 1] = p /\ Len(tx) \in Nat
      BY <2>1
    <2>3. \A i \in DOMAIN tx' : i \in DOMAIN tx \/ i = Len(tx) + 1
      BY <2>2
    <2> QED
      BY <1>3, <2>1, <2>2, <2>3
  <1>10. params' \in [burst : Nat, segment : Nat]
    <2>1. Negotiated(r) \in [burst : Nat, segment : Nat]
      BY <1>2, <1>3 DEF Negotiated, TypeOK
    <2> QED
      BY <1>3, <2>1 DEF HandleLogin, TypeOK
  <1>11. /\ stage' \in {"Login", "FullFeature", "Closing"}
         /\ bound' \in BOOLEAN /\ (bound => bound')
         /\ stage' = "FullFeature" => bound'
    BY <1>2, <1>3 DEF HandleLogin, LoginFails, TypeOK
  <1>12. UNCHANGED <<in_flight, disk>>
    BY DEF HandleLogin
  <1>13. TypeOK'
    BY <1>3, <1>5, <1>9, <1>10, <1>11, <1>12 DEF TypeOK
  <1>14. TargetResolved'
    BY <1>3, <1>11, <1>12 DEF TargetResolved
  <1> QED
    BY <1>9, <1>13, <1>14 DEF TargetInv, R2tInBurst, NoR2tInLogin

LEMMA ScsiInv == ASSUME TargetInv, NEW c \in Request, HandleScsiCommand(c) PROVE TargetInv'
  <1>1. c \in ScsiCommand
    BY DEF HandleScsiCommand, Request, LoginRequest, DataOut, OtherRequest
  <1>2. /\ c.itt \in Itts /\ c.edtl \in Nat /\ c.blocks \in Nat /\ c.lba \in Nat
        /\ c.data \in Seq(Val) /\ Len(c.data) \in Nat
    BY <1>1 DEF ScsiCommand
  <1>3. /\ UNCHANGED <<stage, bound, params>> /\ stage = "FullFeature" /\ bound
    BY DEF HandleScsiCommand, TargetInv, TargetResolved
  <1>4. CASE ExecuteCommand(c)
    <2>1. exp_cmd_sn' \in Sn /\ UNCHANGED in_flight
      BY <1>4, ExpCmdSnType DEF ExecuteCommand, TargetInv
    <2>2. /\ tx' \in Seq(Response) /\ stat_sn' \in Sn /\ R2tInBurst' /\ NoR2tInLogin'
          /\ disk' \in [Lbas -> Val \cup {Blank}]
      <3>1. CASE WritesMedium(c, Len(c.data))
        <4> DEFINE buf == [i \in 0 .. c.blocks - 1 |-> c.data[i + 1]]
        <4>1. c.blocks = Len(c.data) /\ WriteMedium(c, buf)
          BY <1>4, <3>1 DEF ExecuteCommand, WritesMedium
        <4>2. \A i \in 0 .. c.blocks - 1 : c.data[i + 1] \in Val
          BY <1>2, <4>1
        <4>3. buf \in [0 .. c.blocks - 1 -> Val \cup {Blank}]
          BY <4>2
        <4> HIDE DEF buf
        <4> QED
          BY <1>1, <1>3, <2>1, <4>1, <4>3, WriteMediumInv
      <3>2. CASE ~WritesMedium(c, Len(c.data))
        <4>1. PICK o \in Outcomes(c) :
                 \/ /\ tx' = tx \o DataInChunks(c, o.data, stat_sn, exp_cmd_sn')
                    /\ stat_sn' = (stat_sn + 1) % SnMod
                 \/ Respond("scsi", c.itt, Code(o.status))
          BY <1>4, <3>2 DEF ExecuteCommand
        <4>2. disk' = disk
          BY <1>4, <3>2 DEF ExecuteCommand
        <4>3. CASE Respond("scsi", c.itt, Code(o.status))
          BY <1>1, <1>3, <2>1, <4>2, <4>3, OutcomeRespondInv DEF TargetInv, TypeOK
        <4>4. CASE /\ tx' = tx \o DataInChunks(c, o.data, stat_sn, exp_cmd_sn')
                   /\ stat_sn' = (stat_sn + 1) % SnMod
          <5> DEFINE D == DataInChunks(c, o.data, stat_sn, exp_cmd_sn')
          <5>1. stat_sn \in Sn /\ tx \in Seq(Response) /\ TypeOK
            BY DEF TargetInv, TypeOK
          <5>2. o.data \in Seq(Val \cup {Blank})
            BY <1>1, <5>1, OutcomeType
          <5>3. D \in Seq(Response) /\ \A i \in DOMAIN D : D[i].op = "datain"
            BY <1>1, <2>1, <5>1, <5>2, ChunksType
          <5> HIDE DEF D
          <5>4. tx' = tx \o D
            BY <4>4 DEF D
          <5>5. /\ tx' \in Seq(Response) /\ DOMAIN tx' = 1 .. Len(tx) + Len(D)
                /\ Len(tx) \in Nat /\ Len(D) \in Nat
                /\ DOMAIN tx = 1 .. Len(tx) /\ DOMAIN D = 1 .. Len(D)
                /\ \A i \in 1 .. Len(tx) + Len(D) :
                      tx'[i] = IF i <= Len(tx) THEN tx[i] ELSE D[i - Len(tx)]
            BY <5>1, <5>3, <5>4
          <5>6. \A i \in DOMAIN tx' : tx'[i].op = "r2t" => i \in DOMAIN tx /\ tx'[i] = tx[i]
            <6> SUFFICES ASSUME NEW i \in DOMAIN tx', tx'[i].op = "r2t"
                         PROVE  i \in DOMAIN tx /\ tx'[i] = tx[i]
              OBVIOUS
            <6>1. CASE i <= Len(tx)
              BY <5>5, <6>1
            <6>2. CASE ~(i <= Len(tx))
              <7>1. i - Len(tx) \in DOMAIN D /\ tx'[i] = D[i - Len(tx)]
                BY <5>5, <6>2
              <7> QED
                BY <5>3, <7>1
            <6> QED
              BY <6>1, <6>2
          <5>7. R2tInBurst'
            BY <1>3, <5>6 DEF R2tInBurst, InBurst, TargetInv
          <5>8. stat_sn' \in Sn
            BY <4>4, <5>1, ModSn DEF Sn
          <5> QED
            BY <1>3, <4>2, <5>1, <5>5, <5>7, <5>8 DEF NoR2tInLogin, TypeOK
        <4> QED
          BY <4>1, <4>3, <4>4
      <3> QED
        BY <3>1, <3>2
    <2> QED
      BY <1>3, <2>1, <2>2 DEF TargetInv, TypeOK, TargetResolved
  <1>5. CASE BeginWrite(c)
    <2> DEFINE blank == [i \in 0 .. c.edtl - 1 |-> Blank]
               buf == Patched(blank, 0, c.data)
               pending == [cmd |-> c, buf |-> buf, received |-> Len(c.data)]
    <2>1. exp_cmd_sn' \in Sn
      BY <1>5, ExpCmdSnType DEF BeginWrite, TargetInv
    <2>2. buf \in [0 .. c.edtl - 1 -> Val \cup {Blank}]
      <3>1. blank \in [0 .. c.edtl - 1 -> Val \cup {Blank}]
        OBVIOUS
      <3> HIDE DEF blank
      <3> QED
        BY <1>2, <3>1, PatchedType
    <2> HIDE DEF blank, buf
    <2>3. CASE SendReject(c.itt) /\ UNCHANGED <<in_flight, disk>>
      <3>1. Code("none") \in Body
        BY DEF Code, Body
      <3>2. /\ tx' \in Seq(Response) /\ stat_sn' \in Sn /\ R2tInBurst' /\ NoR2tInLogin'
        BY <1>2, <1>3, <2>1, <2>3, <3>1, RespondInv DEF SendReject
      <3> QED
        BY <1>3, <2>1, <2>3, <3>2 DEF TargetInv, TypeOK, TargetResolved
    <2>4. CASE FinishWrite(c, buf) /\ UNCHANGED in_flight
      <3>1. /\ tx' \in Seq(Response) /\ stat_sn' \in Sn /\ R2tInBurst' /\ NoR2tInLogin'
            /\ disk' \in [Lbas -> Val \cup {Blank}]
        BY <1>1, <1>3, <2>1, <2>2, <2>4, FinishWriteInv
      <3> QED
        BY <1>3, <2>1, <2>4, <3>1 DEF TargetInv, TypeOK, TargetResolved
    <2>5. CASE /\ Len(c.data) < c.edtl
               /\ in_flight' = [in_flight EXCEPT ![c.itt] = pending]
               /\ Respond("r2t", c.itt, Solicit(c.edtl, Len(c.data)))
               /\ UNCHANGED disk
      <3>1. Solicit(c.edtl, Len(c.data)) \in Body /\ InBurst(Solicit(c.edtl, Len(c.data)))
        BY <1>2, <2>5, SolicitType DEF TargetInv
      <3>2. /\ tx' \in Seq(Response) /\ stat_sn' \in Sn /\ R2tInBurst' /\ NoR2tInLogin'
        BY <1>2, <1>3, <2>1, <2>5, <3>1, RespondInv
      <3>3. PendingWrite(pending)
        BY <1>1, <1>2, <2>2, <2>5 DEF PendingWrite
      <3> HIDE DEF pending
      <3>4. /\ in_flight' = [j \in Itts |-> in_flight'[j]]
            /\ \A j \in Itts : in_flight'[j] # None => PendingWrite(in_flight'[j])
            /\ TargetResolved'
        BY <1>2, <1>3, <2>5, <3>3, InFlightStep
      <3> QED
        BY <1>3, <2>1, <2>5, <3>2, <3>4 DEF TargetInv, TypeOK
    <2> QED
      BY <1>5, <2>3, <2>4, <2>5 DEF BeginWrite, buf, blank
  <1> QED
    BY <1>3, <1>4, <1>5 DEF HandleScsiCommand

LEMMA DataOutInv == ASSUME TargetInv, NEW d \in Request, HandleDataOut(d) PROVE TargetInv'
  <1> DEFINE p == in_flight[d.itt]
             received == p.received + Len(d.data)
             buf == Patched(p.buf, d.off, d.data)
  <1>1. d \in DataOut
    BY DEF HandleDataOut, Request, LoginRequest, ScsiCommand, OtherRequest
  <1>2. d.itt \in Itts /\ d.off \in Nat /\ d.data \in Seq(Val) /\ Len(d.data) \in Nat
    BY <1>1 DEF DataOut
  <1>3. /\ UNCHANGED <<stage, bound, params, exp_cmd_sn>> /\ stage = "FullFeature" /\ bound
    BY DEF HandleDataOut, TargetInv, TargetResolved
  <1>4. exp_cmd_sn' \in Sn
    BY <1>3 DEF TargetInv, TypeOK
  <1>5. ASSUME p # None
        PROVE  /\ p.cmd \in ScsiCommand /\ p.cmd.edtl \in Nat /\ p.received \in Nat
               /\ buf \in [0 .. p.cmd.edtl - 1 -> Val \cup {Blank}]
               /\ received \in Nat
    <2>1. PendingWrite(p)
      BY <1>2, <1>5 DEF TargetInv, TypeOK
    <2>2. /\ p.cmd \in ScsiCommand /\ p.received \in Nat
          /\ p.buf \in [0 .. p.cmd.edtl - 1 -> Val \cup {Blank}]
      BY <2>1 DEF PendingWrite
    <2>3. p.cmd.edtl \in Nat
      BY <2>2 DEF ScsiCommand
    <2> DEFINE n == p.cmd.edtl
               b == p.buf
    <2>4. b \in [0 .. n - 1 -> Val \cup {Blank}]
      BY <2>2
    <2> HIDE DEF n, b
    <2>5. Patched(b, d.off, d.data) \in [0 .. n - 1 -> Val \cup {Blank}]
      BY <1>2, <2>4, PatchedType
    <2>6. received \in Nat
      BY <1>2, <2>2
    <2> QED
      BY <2>2, <2>3, <2>5, <2>6 DEF n, b
  <1>6. CASE SendReject(d.itt) /\ UNCHANGED disk /\
             (UNCHANGED in_flight \/ in_flight' = [in_flight EXCEPT ![d.itt] = None])
    <2>1. Code("none") \in Body
      BY DEF Code, Body
    <2>2. /\ tx' \in Seq(Response) /\ stat_sn' \in Sn /\ R2tInBurst' /\ NoR2tInLogin'
      BY <1>2, <1>3, <1>4, <1>6, <2>1, RespondInv DEF SendReject
    <2>3. /\ in_flight' = [j \in Itts |-> in_flight'[j]]
          /\ \A j \in Itts : in_flight'[j] # None => PendingWrite(in_flight'[j])
          /\ TargetResolved'
      <3>1. CASE UNCHANGED in_flight
        BY <1>3, <3>1 DEF TargetInv, TypeOK, TargetResolved
      <3>2. CASE in_flight' = [in_flight EXCEPT ![d.itt] = None]
        BY <1>2, <1>3, <3>2, InFlightStep
      <3> QED
        BY <1>6, <3>1, <3>2
    <2> QED
      BY <1>3, <1>4, <1>6, <2>2, <2>3 DEF TargetInv, TypeOK
  <1>7. CASE p # None /\ MoreToCome(p, received) /\ SolicitNext(p, d, received)
    <2> DEFINE q == [p EXCEPT !.buf = buf, !.received = received]
    <2>1. received < p.cmd.edtl
      BY <1>7 DEF MoreToCome
    <2>2. /\ in_flight' = [in_flight EXCEPT ![d.itt] = q]
          /\ Respond("r2t", d.itt, Solicit(p.cmd.edtl, received))
          /\ UNCHANGED disk
      BY <1>7 DEF SolicitNext
    <2>3. Solicit(p.cmd.edtl, received) \in Body /\ InBurst(Solicit(p.cmd.edtl, received))
      BY <1>5, <1>7, <2>1, SolicitType DEF TargetInv
    <2>4. /\ tx' \in Seq(Response) /\ stat_sn' \in Sn /\ R2tInBurst' /\ NoR2tInLogin'
      BY <1>2, <1>3, <1>4, <2>2, <2>3, RespondInv
    <2>5. PendingWrite(q)
      BY <1>5, <1>7, <2>1 DEF PendingWrite
    <2> HIDE DEF q
    <2>6. /\ in_flight' = [j \in Itts |-> in_flight'[j]]
          /\ \A j \in Itts : in_flight'[j] # None => PendingWrite(in_flight'[j])
          /\ TargetResolved'
      BY <1>2, <1>3, <2>2, <2>5, InFlightStep
    <2> QED
      BY <1>3, <1>4, <2>2, <2>4, <2>6 DEF TargetInv, TypeOK
  <1>8. CASE /\ p # None
             /\ in_flight' = [in_flight EXCEPT ![d.itt] = None]
             /\ FinishWrite(p.cmd, buf)
    <2>1. /\ tx' \in Seq(Response) /\ stat_sn' \in Sn /\ R2tInBurst' /\ NoR2tInLogin'
          /\ disk' \in [Lbas -> Val \cup {Blank}]
      BY <1>3, <1>4, <1>5, <1>8, FinishWriteInv
    <2>2. /\ in_flight' = [j \in Itts |-> in_flight'[j]]
          /\ \A j \in Itts : in_flight'[j] # None => PendingWrite(in_flight'[j])
          /\ TargetResolved'
      BY <1>2, <1>3, <1>8, InFlightStep
    <2> QED
      BY <1>3, <1>4, <2>1, <2>2 DEF TargetInv, TypeOK
  <1> QED
    BY <1>6, <1>7, <1>8 DEF HandleDataOut

\* The requests that only get one response.
LEMMA OtherInv ==
    ASSUME TargetInv, NEW r \in Request, WrongStage(r) \/ HandleOther(r) \/ HandleLogout(r)
    PROVE  TargetInv'
  <1>1. /\ UNCHANGED <<bound, params, exp_cmd_sn, in_flight, disk>>
        /\ stage' \in {stage, "Closing"} /\ stage \in {"Login", "FullFeature"}
    BY DEF WrongStage, HandleOther, HandleLogout
  <1>2. PICK op \in {"reject", "nopin", "text", "tmf", "logout"}, itt \in Itts \cup {None} :
            Respond(op, itt, Code("none"))
    <2>1. r.op # "login" => r.itt \in Itts
      BY DEF Request, LoginRequest, ScsiCommand, DataOut, OtherRequest
    <2>2. \A x \in DOMAIN ResponseTo : ResponseTo[x] \in {"reject", "nopin", "text", "tmf"}
      BY DEF ResponseTo
    <2>3. CASE WrongStage(r)
      BY <2>1, <2>3 DEF WrongStage, SendReject
    <2>4. CASE HandleOther(r)
      BY <2>1, <2>2, <2>4 DEF HandleOther
    <2>5. CASE HandleLogout(r)
      BY <2>1, <2>5 DEF HandleLogout
    <2> QED
      BY <2>3, <2>4, <2>5
  <1>3. Code("none") \in Body
    BY DEF Code, Body
  <1>4. exp_cmd_sn' \in Sn
    BY <1>1 DEF TargetInv, TypeOK
  <1>5. /\ tx' \in Seq(Response) /\ stat_sn' \in Sn /\ R2tInBurst' /\ NoR2tInLogin'
    BY <1>1, <1>2, <1>3, <1>4, RespondInv
  <1> QED
    BY <1>1, <1>4, <1>5 DEF TargetInv, TypeOK, TargetResolved

\* The steps of the transport.
LEMMA TransportInv ==
    ASSUME TargetInv,
           (\E r \in Requests : HandleMalformed(r)) \/ EndConnection \/ Accept \/ Deliver
    PROVE  TargetInv'
  <1>1. CASE (\E r \in Requests : HandleMalformed(r)) \/ EndConnection
    <2>1. /\ stage' = "Closed" /\ in_flight' = [i \in Itts |-> None]
          /\ UNCHANGED <<bound, params, stat_sn, exp_cmd_sn, disk, tx>>
      BY <1>1 DEF HandleMalformed, EndConnection
    <2> QED
      BY <2>1 DEF TargetInv, TypeOK, TargetResolved, R2tInBurst, InBurst, NoR2tInLogin
  <1>2. CASE Accept
    <2>1. params' \in [burst : Nat, segment : Nat]
      BY <1>2, ParamsAssumption DEF Accept
    <2>2. stat_sn' \in Sn /\ exp_cmd_sn' \in Sn
      BY <1>2, SnAssumption DEF Accept, Sn
    <2>3. tx' \in Seq(Response) /\ DOMAIN tx' = {}
      BY <1>2 DEF Accept
    <2>4. /\ in_flight' = [i \in Itts |-> None] /\ UNCHANGED disk
          /\ stage' = "Login" /\ bound' = FALSE
      BY <1>2 DEF Accept
    <2> QED
      BY <2>1, <2>2, <2>3, <2>4
      DEF TargetInv, TypeOK, TargetResolved, R2tInBurst, NoR2tInLogin
  <1>3. CASE Deliver
    <2>1. /\ tx # <<>> /\ tx' = Tail(tx) /\ tx \in Seq(Response)
          /\ UNCHANGED <<stage, bound, params, stat_sn, exp_cmd_sn, in_flight, disk>>
      BY <1>3 DEF Deliver, TargetInv, TypeOK
    <2>2. /\ tx' \in Seq(Response)
          /\ \A i \in DOMAIN tx' : i + 1 \in DOMAIN tx /\ tx'[i] = tx[i + 1]
      BY <2>1
    <2> QED
      BY <2>1, <2>2 DEF TargetInv, TypeOK, TargetResolved, R2tInBurst, InBurst, NoR2tInLogin
  <1> QED
    BY <1>1, <1>2, <1>3

LEMMA TargetNext == TargetInv /\ [Next]_vars => TargetInv'
  <1> SUFFICES ASSUME TargetInv, [Next]_vars PROVE TargetInv'
    OBVIOUS
  <1>1. CASE UNCHANGED vars
    BY <1>1 DEF vars, TargetInv, TypeOK, TargetResolved, R2tInBurst, InBurst, NoR2tInLogin
  <1>2. ASSUME NEW r \in Requests, Handle(r) PROVE TargetInv'
    <2>1. r \in Request
      BY RequestsAssumption
    <2> QED
      BY <1>2, <2>1, LoginInv, ScsiInv, DataOutInv, OtherInv, TransportInv DEF Handle
  <1> QED
    BY <1>1, <1>2, TransportInv DEF Next

LEMMA TargetInvariant == Spec => []TargetInv
  BY TargetInit, TargetNext, PTL DEF Spec

-----------------------------------------------------------------------------
(* The theorems of part 1 *)

\* A connection stays well-formed whatever its peer sends, and a pending write
\* always lacks some of its data (iscsi/session, iscsi/transport.rs).
THEOREM TypeCorrect == Spec => []TypeOK
  <1>1. TargetInv => TypeOK
    BY DEF TargetInv
  <1> QED
    BY <1>1, TargetInvariant, PTL

\* The `expect("target resolved in FullFeature")` of finish_write cannot fail,
\* whatever sequence of logins led to the full-feature stage.
THEOREM TargetAlwaysResolved == Spec => []TargetResolved
  <1>1. TargetInv => TargetResolved
    BY DEF TargetInv
  <1> QED
    BY <1>1, TargetInvariant, PTL

\* Every R2T on its way asks for a burst within the negotiated MaxBurstLength
\* (begin_write, data_out, handle_login).
THEOREM R2tAlwaysInBurst == Spec => []R2tInBurst
  <1>1. TargetInv => R2tInBurst
    BY DEF TargetInv
  <1> QED
    BY <1>1, TargetInvariant, PTL

-----------------------------------------------------------------------------
(* Part 2.  The session and its sequence numbers *)

\* The StatSN that follows a response.
NextStat(p) == IF TakesStatSn(p) THEN (p.stat_sn + 1) % SnMod ELSE p.stat_sn

\* The StatSN that follows the first k responses of s.
StatAfter(first, s, k) == IF k = 0 THEN first ELSE NextStat(s[k])

\* The responses of s count the StatSN on from first to last.
Counts(first, s, last) ==
    /\ \A k \in 1 .. Len(s) : s[k].stat_sn = StatAfter(first, s, k - 1)
    /\ last = StatAfter(first, s, Len(s))

\* A response that belongs to a command has one of the initiator's tags.
Tagged(p) ==
    /\ p.op \in {"r2t", "scsi", "datain", "tmf"} => p.itt \in Itts
    /\ p.op = "r2t" => p.body \in [off : Nat, len : Nat]

LoginPdu ==
    [op |-> "login", cmd_sn |-> FirstSn, exp_stat_sn |-> FirstSn,
     name |-> Target, transit |-> TRUE, csg |-> 0, nsg |-> 3,
     burst |-> OfferedBurst, segment |-> OfferedSegment]

SessionOps == {"login", "scsi", "dataout", "nop", "tmf", "logout"}

\* What the Data-Out PDUs of a write are made of.
Sends(task) == task.val \in Val /\ task.seg \in Nat \ {0}

InitiatorTypes ==
    /\ tasks = [i \in Itts |-> tasks[i]]
    /\ \A i \in Itts : tasks[i] # None /\ tasks[i].op = "write" => Sends(tasks[i])
    /\ aborting \subseteq Itts
    /\ cmd_sn \in Sn /\ max_cmd \in Sn /\ exp_stat \in Sn
    /\ used \in [issued : Nat, nops : Nat, aborts : Nat, conns : Nat]

\* The two streams.
StreamTypes ==
    /\ rx \in Seq(Request)
    /\ \A k \in 1 .. Len(rx) : rx[k].op \in SessionOps
    /\ \A k \in 1 .. Len(tx) : Tagged(tx[k])

\* How far the two sides are apart.
StageInv ==
    /\ istage \in {"down", "login", "up", "logout"}
    /\ stage = "Login" => rx = <<LoginPdu>> /\ tx = <<>> /\ stat_sn = 0
    /\ stage # "Login" => \A k \in 1 .. Len(rx) : rx[k].op # "login"
    /\ stage = "Closed" => rx = <<>>
    /\ istage # "up" => aborting = {} /\ \A i \in Itts : tasks[i] = None
    /\ istage = "login" =>
          /\ cmd_sn = FirstSn /\ exp_stat = FirstSn
          /\ stage # "Login" =>
                /\ rx = <<>> /\ exp_cmd_sn = FirstSn
                /\ Len(tx) = 1 /\ tx[1].op = "login"
                /\ tx[1].body.code = "transit" => stage = "FullFeature"
    /\ istage = "up" =>
          /\ stage = "FullFeature"
          /\ \A k \in 1 .. Len(rx) : rx[k].op # "logout"
          /\ \A k \in 1 .. Len(tx) : tx[k].op \notin {"login", "logout"}
    /\ istage = "logout" => stage # "Login" /\ \A k \in 1 .. Len(tx) : tx[k].op # "login"

\* The MaxCmdSN the initiator will know when it has read s.
LastMax(first, s) == IF s = <<>> THEN first ELSE s[Len(s)].max_cmd_sn

\* The initiator is behind the target by what is on its way.
SnInv ==
    istage # "down" /\ stage # "Login" =>
        /\ Counts(exp_stat, tx, stat_sn)
        /\ LastMax(max_cmd, tx) = MaxCmdSn(exp_cmd_sn)

\* The requests of s count the CmdSN on from first to last.
CommandsCount(first, s, last) ==
    \E f \in [0 .. Len(s) -> Sn] :
        /\ f[0] = first /\ f[Len(s)] = last
        /\ \A k \in 1 .. Len(s) :
              f[k] = IF s[k].op = "scsi" THEN (f[k - 1] + 1) % SnMod ELSE f[k - 1]

\* The target is behind the initiator by the commands on their way.
CmdInv ==
    NopImmediate /\ istage = "up" => CommandsCount(exp_cmd_sn, rx, cmd_sn)

\* The inductive invariant of the session.
CoreInv ==
    TargetInv /\ InitiatorTypes /\ StreamTypes /\ StageInv /\ SnInv /\ CmdInv

-----------------------------------------------------------------------------
(* Sequence numbers *)

LEMMA CountsConcat ==
    ASSUME NEW R, NEW s \in Seq(R), NEW t \in Seq(R), NEW a, NEW b, NEW c,
           Counts(a, s, b), Counts(b, t, c)
    PROVE  Counts(a, s \o t, c)
  <1> DEFINE u == s \o t
  <1>1. /\ Len(u) = Len(s) + Len(t) /\ Len(s) \in Nat /\ Len(t) \in Nat
        /\ \A k \in 1 .. Len(s) : u[k] = s[k]
        /\ \A k \in 1 .. Len(t) : u[k + Len(s)] = t[k]
    OBVIOUS
  <1> HIDE DEF u
  <1>2. \A k \in 0 .. Len(s) : StatAfter(a, u, k) = StatAfter(a, s, k)
    BY <1>1 DEF StatAfter
  <1>3. \A k \in 0 .. Len(t) : StatAfter(a, u, k + Len(s)) = StatAfter(b, t, k)
    <2>1. StatAfter(a, u, Len(s)) = b
      BY <1>1, <1>2 DEF Counts
    <2>2. \A k \in 1 .. Len(t) : StatAfter(a, u, k + Len(s)) = StatAfter(b, t, k)
      BY <1>1 DEF StatAfter
    <2>3. StatAfter(b, t, 0) = b
      BY DEF StatAfter
    <2> QED
      BY <1>1, <2>1, <2>2, <2>3
  <1>4. \A k \in 1 .. Len(u) : u[k].stat_sn = StatAfter(a, u, k - 1)
    <2> SUFFICES ASSUME NEW k \in 1 .. Len(u) PROVE u[k].stat_sn = StatAfter(a, u, k - 1)
      OBVIOUS
    <2>1. CASE k <= Len(s)
      <3>1. u[k] = s[k] /\ s[k].stat_sn = StatAfter(a, s, k - 1) /\ k - 1 \in 0 .. Len(s)
        BY <1>1, <2>1 DEF Counts
      <3> QED
        BY <1>2, <3>1
    <2>2. CASE k > Len(s)
      <3> DEFINE j == k - Len(s)
      <3>1. j \in 1 .. Len(t) /\ j - 1 \in 0 .. Len(t) /\ k = j + Len(s) /\ k - 1 = (j - 1) + Len(s)
        BY <1>1, <2>2
      <3> HIDE DEF j
      <3>2. u[k] = t[j] /\ t[j].stat_sn = StatAfter(b, t, j - 1)
        BY <1>1, <3>1 DEF Counts
      <3> QED
        BY <1>3, <3>1, <3>2
    <2> QED
      BY <1>1, <2>1, <2>2
  <1>5. c = StatAfter(a, u, Len(u))
    BY <1>1, <1>3 DEF Counts
  <1> QED
    BY <1>4, <1>5 DEF Counts, u

LEMMA CountsTail ==
    ASSUME NEW R, NEW s \in Seq(R), s # <<>>, NEW a, NEW b, Counts(a, s, b)
    PROVE  s[1].stat_sn = a /\ Counts(NextStat(s[1]), Tail(s), b)
  <1> DEFINE t == Tail(s)
  <1>1. Len(s) \in Nat \ {0} /\ Len(t) = Len(s) - 1 /\ \A k \in 1 .. Len(t) : t[k] = s[k + 1]
    OBVIOUS
  <1> HIDE DEF t
  <1>2. \A k \in 0 .. Len(t) : StatAfter(NextStat(s[1]), t, k) = StatAfter(a, s, k + 1)
    BY <1>1 DEF StatAfter
  <1>3. s[1].stat_sn = a
    BY <1>1 DEF Counts, StatAfter
  <1>4. \A k \in 1 .. Len(t) : t[k].stat_sn = StatAfter(NextStat(s[1]), t, k - 1)
    <2> SUFFICES ASSUME NEW k \in 1 .. Len(t)
                 PROVE  t[k].stat_sn = StatAfter(NextStat(s[1]), t, k - 1)
      OBVIOUS
    <2>1. t[k] = s[k + 1] /\ s[k + 1].stat_sn = StatAfter(a, s, k) /\ k - 1 \in 0 .. Len(t)
      BY <1>1 DEF Counts
    <2> QED
      BY <1>2, <2>1
  <1>5. b = StatAfter(NextStat(s[1]), t, Len(t))
    BY <1>1, <1>2 DEF Counts
  <1> QED
    BY <1>3, <1>4, <1>5 DEF Counts, t

LEMMA LastMaxConcat ==
    ASSUME NEW R, NEW s \in Seq(R), NEW t \in Seq(R), t # <<>>, NEW a
    PROVE  LastMax(a, s \o t) = t[Len(t)].max_cmd_sn
  <1>1. /\ Len(s \o t) = Len(s) + Len(t) /\ Len(s) \in Nat /\ Len(t) \in Nat \ {0}
        /\ (s \o t)[Len(s) + Len(t)] = t[Len(t)] /\ s \o t # <<>>
    OBVIOUS
  <1> QED
    BY <1>1 DEF LastMax

LEMMA LastMaxTail ==
    ASSUME NEW R, NEW s \in Seq(R), s # <<>>, NEW a
    PROVE  LastMax(s[1].max_cmd_sn, Tail(s)) = LastMax(a, s)
  <1>1. /\ Len(s) \in Nat \ {0} /\ Len(Tail(s)) = Len(s) - 1
        /\ \A k \in 1 .. Len(Tail(s)) : Tail(s)[k] = s[k + 1]
        /\ Tail(s) \in Seq(R)
    OBVIOUS
  <1>2. Tail(s) = <<>> <=> Len(s) = 1
    <2>1. \A u \in Seq(R) : u = <<>> <=> Len(u) = 0
      OBVIOUS
    <2> QED
      BY <1>1, <2>1
  <1>3. Tail(s) # <<>> => Tail(s)[Len(Tail(s))] = s[Len(s)]
    BY <1>1, <1>2
  <1> QED
    BY <1>1, <1>3, <1>2 DEF LastMax

LEMMA CommandsConcat ==
    ASSUME NEW R, NEW s \in Seq(R), NEW t \in Seq(R), NEW a, NEW b, NEW c,
           CommandsCount(a, s, b), CommandsCount(b, t, c)
    PROVE  CommandsCount(a, s \o t, c)
  <1> DEFINE u == s \o t
  <1>1. /\ Len(u) = Len(s) + Len(t) /\ Len(s) \in Nat /\ Len(t) \in Nat
        /\ \A k \in 1 .. Len(s) : u[k] = s[k]
        /\ \A k \in 1 .. Len(t) : u[k + Len(s)] = t[k]
    OBVIOUS
  <1>2. PICK f \in [0 .. Len(s) -> Sn] :
            /\ f[0] = a /\ f[Len(s)] = b
            /\ \A k \in 1 .. Len(s) :
                  f[k] = IF s[k].op = "scsi" THEN (f[k - 1] + 1) % SnMod ELSE f[k - 1]
    BY DEF CommandsCount
  <1>3. PICK g \in [0 .. Len(t) -> Sn] :
            /\ g[0] = b /\ g[Len(t)] = c
            /\ \A k \in 1 .. Len(t) :
                  g[k] = IF t[k].op = "scsi" THEN (g[k - 1] + 1) % SnMod ELSE g[k - 1]
    BY DEF CommandsCount
  <1> HIDE DEF u
  <1> DEFINE h == [k \in 0 .. Len(u) |-> IF k <= Len(s) THEN f[k] ELSE g[k - Len(s)]]
  <1>4. h \in [0 .. Len(u) -> Sn]
    <2>1. \A k \in 0 .. Len(u) : k <= Len(s) => k \in 0 .. Len(s)
      BY <1>1
    <2>2. \A k \in 0 .. Len(u) : ~(k <= Len(s)) => k - Len(s) \in 0 .. Len(t)
      BY <1>1
    <2> QED
      BY <1>2, <1>3, <2>1, <2>2
  <1>5. /\ \A k \in 0 .. Len(s) : h[k] = f[k]
        /\ \A k \in 0 .. Len(t) : h[k + Len(s)] = g[k]
    <2>1. \A k \in 0 .. Len(s) : h[k] = f[k]
      BY <1>1
    <2>2. \A k \in 1 .. Len(t) : h[k + Len(s)] = g[k]
      BY <1>1
    <2>3. h[0 + Len(s)] = g[0]
      BY <1>1, <1>2, <1>3
    <2> QED
      BY <1>1, <2>1, <2>2, <2>3
  <1> HIDE DEF h
  <1>6. \A k \in 1 .. Len(u) : h[k] = IF u[k].op = "scsi" THEN (h[k - 1] + 1) % SnMod ELSE h[k - 1]
    <2> SUFFICES ASSUME NEW k \in 1 .. Len(u)
                 PROVE  h[k] = IF u[k].op = "scsi" THEN (h[k - 1] + 1) % SnMod ELSE h[k - 1]
      OBVIOUS
    <2>1. CASE k <= Len(s)
      <3>1. k \in 1 .. Len(s) /\ k \in 0 .. Len(s) /\ k - 1 \in 0 .. Len(s)
        BY <1>1, <2>1
      <3>2. h[k] = f[k] /\ h[k - 1] = f[k - 1] /\ u[k] = s[k]
        BY <1>1, <1>5, <3>1
      <3> QED
        BY <1>2, <3>1, <3>2
    <2>2. CASE k > Len(s)
      <3> DEFINE j == k - Len(s)
      <3>1. /\ j \in 1 .. Len(t) /\ j \in 0 .. Len(t) /\ j - 1 \in 0 .. Len(t)
            /\ k = j + Len(s) /\ k - 1 = (j - 1) + Len(s)
        BY <1>1, <2>2
      <3> HIDE DEF j
      <3>2. h[k] = g[j] /\ h[k - 1] = g[j - 1] /\ u[k] = t[j]
        BY <1>1, <1>5, <3>1
      <3> QED
        BY <1>3, <3>1, <3>2
    <2> QED
      BY <1>1, <2>1, <2>2
  <1>7. h[0] = a /\ h[Len(u)] = c
    <2>1. 0 \in 0 .. Len(s) /\ Len(t) \in 0 .. Len(t) /\ Len(u) = Len(t) + Len(s)
      BY <1>1
    <2> QED
      BY <1>2, <1>3, <1>5, <2>1
  <1> QED
    BY <1>4, <1>6, <1>7 DEF CommandsCount, u

LEMMA CommandsTail ==
    ASSUME NEW R, NEW s \in Seq(R), s # <<>>, NEW a, NEW c, CommandsCount(a, s, c)
    PROVE  CommandsCount(IF s[1].op = "scsi" THEN (a + 1) % SnMod ELSE a, Tail(s), c)
  <1> DEFINE t == Tail(s)
  <1>1. Len(s) \in Nat \ {0} /\ Len(t) = Len(s) - 1 /\ \A k \in 1 .. Len(t) : t[k] = s[k + 1]
    OBVIOUS
  <1> HIDE DEF t
  <1>2. PICK f \in [0 .. Len(s) -> Sn] :
            /\ f[0] = a /\ f[Len(s)] = c
            /\ \A k \in 1 .. Len(s) :
                  f[k] = IF s[k].op = "scsi" THEN (f[k - 1] + 1) % SnMod ELSE f[k - 1]
    BY DEF CommandsCount
  <1> DEFINE g == [k \in 0 .. Len(t) |-> f[k + 1]]
  <1>3. g \in [0 .. Len(t) -> Sn]
    BY <1>1, <1>2
  <1>4. g[0] = IF s[1].op = "scsi" THEN (a + 1) % SnMod ELSE a
    <2>1. 1 \in 1 .. Len(s) /\ 0 \in 0 .. Len(t)
      BY <1>1
    <2> QED
      BY <1>2, <2>1
  <1>5. g[Len(t)] = c
    BY <1>1, <1>2
  <1>6. \A k \in 1 .. Len(t) : g[k] = IF t[k].op = "scsi" THEN (g[k - 1] + 1) % SnMod ELSE g[k - 1]
    <2> SUFFICES ASSUME NEW k \in 1 .. Len(t)
                 PROVE  g[k] = IF t[k].op = "scsi" THEN (g[k - 1] + 1) % SnMod ELSE g[k - 1]
      OBVIOUS
    <2>1. /\ k + 1 \in 1 .. Len(s) /\ k \in 0 .. Len(t) /\ k - 1 \in 0 .. Len(t)
          /\ (k + 1) - 1 = k /\ (k - 1) + 1 = k
      BY <1>1
    <2>2. g[k] = f[k + 1] /\ g[k - 1] = f[k] /\ t[k] = s[k + 1]
      BY <1>1, <2>1
    <2> QED
      BY <1>2, <2>1, <2>2
  <1> QED
    BY <1>3, <1>4, <1>5, <1>6 DEF CommandsCount, t

\* Requests that are no commands leave the CmdSN where it is.
LEMMA CommandsNone ==
    ASSUME NEW R, NEW s \in Seq(R), \A k \in 1 .. Len(s) : s[k].op # "scsi", NEW a \in Sn
    PROVE  CommandsCount(a, s, a)
  <1> DEFINE f == [k \in 0 .. Len(s) |-> a]
  <1>1. Len(s) \in Nat
    OBVIOUS
  <1>2. f \in [0 .. Len(s) -> Sn] /\ \A k \in 0 .. Len(s) : f[k] = a
    OBVIOUS
  <1> HIDE DEF f
  <1>3. f[0] = a /\ f[Len(s)] = a /\ \A k \in 1 .. Len(s) : f[k] = a /\ f[k - 1] = a
    BY <1>1, <1>2
  <1> QED
    BY <1>2, <1>3 DEF CommandsCount

LEMMA CommandsOne ==
    ASSUME NEW p, p.op = "scsi", NEW a \in Sn
    PROVE  CommandsCount(a, <<p>>, (a + 1) % SnMod)
  <1> DEFINE f == [k \in 0 .. 1 |-> IF k = 0 THEN a ELSE (a + 1) % SnMod]
  <1>1. (a + 1) % SnMod \in Sn
    BY ModSn DEF Sn
  <1>2. f \in [0 .. 1 -> Sn] /\ f[0] = a /\ f[1] = (a + 1) % SnMod
    BY <1>1
  <1> HIDE DEF f
  <1>3. Len(<<p>>) = 1 /\ <<p>>[1] = p /\ \A k \in 1 .. 1 : k = 1 /\ k - 1 = 0
    OBVIOUS
  <1> QED
    BY <1>2, <1>3 DEF CommandsCount

-----------------------------------------------------------------------------
(* What the target answers *)

LEMMA DivRange ==
    ASSUME NEW a \in Nat, NEW b \in Nat \ {0}
    PROVE  /\ (a + b - 1) \div b \in Nat
           /\ a > 0 => (a + b - 1) \div b > 0
           /\ \A k \in 1 .. (a + b - 1) \div b : (k - 1) * b \in Nat /\ (k - 1) * b < a
  <1> DEFINE c == a + b - 1
             n == c \div b
  <1>1. c \in Nat /\ n \in Nat /\ c = (n * b) + (c % b) /\ c % b \in 0 .. b - 1
    OBVIOUS
  <1>2. a > 0 => n > 0
    <2> SUFFICES ASSUME a > 0, n = 0 PROVE FALSE
      BY <1>1
    <2>1. n * b = 0 /\ c >= b
      OBVIOUS
    <2> QED
      BY <1>1, <2>1
  <1>3. ASSUME NEW k \in 1 .. n PROVE (k - 1) * b \in Nat /\ (k - 1) * b < a
    <2> HIDE DEF n
    <2>1. (n - k) * b \in Nat /\ (k - 1) * b \in Nat /\ n * b \in Nat
      BY <1>1
    <2>2. n * b = (n - k) * b + (k - 1) * b + b
      BY <1>1
    <2>3. n * b <= c
      BY <1>1, <2>1
    <2> QED
      BY <2>1, <2>2, <2>3
  <1> QED
    BY <1>1, <1>2, <1>3

LEMMA DataOutsType ==
    ASSUME NEW itt \in Itts, NEW task, Sends(task), NEW r \in [off : Nat, len : Nat]
    PROVE  /\ DataOuts(itt, task, r) \in Seq(Request)
           /\ \A k \in 1 .. Len(DataOuts(itt, task, r)) : DataOuts(itt, task, r)[k].op = "dataout"
  <1> DEFINE seg == task.seg
             n == (r.len + seg - 1) \div seg
             data(k) == [j \in 1 .. Smaller(seg, r.len - (k - 1) * seg) |-> task.val]
             pdu(k) == [op |-> "dataout", itt |-> itt, off |-> r.off + (k - 1) * seg,
                        data |-> data(k)]
  <1>1. r.len \in Nat /\ r.off \in Nat /\ seg \in Nat \ {0}
    BY DEF Sends
  <1>2. n \in Nat /\ \A k \in 1 .. n : (k - 1) * seg \in Nat /\ (k - 1) * seg < r.len
    BY <1>1, DivRange
  <1>3. DataOuts(itt, task, r) = [k \in 1 .. n |-> pdu(k)]
    BY DEF DataOuts
  <1> HIDE DEF n
  <1>4. ASSUME NEW k \in 1 .. n PROVE pdu(k) \in Request /\ pdu(k).op = "dataout"
    <2> DEFINE m == (k - 1) * seg
    <2>1. m \in Nat /\ m < r.len
      BY <1>2
    <2>2. Smaller(seg, r.len - m) \in Nat
      <3> HIDE DEF m
      <3> QED
        BY <1>1, <2>1 DEF Smaller
    <2>3. data(k) \in Seq(Val)
      BY <2>2 DEF Sends
    <2> HIDE DEF data
    <2>4. r.off + (k - 1) * seg \in Nat
      BY <1>1, <1>2
    <2>5. pdu(k) \in DataOut
      BY <2>3, <2>4 DEF DataOut
    <2> QED
      BY <2>5 DEF Request
  <1> HIDE DEF pdu
  <1> QED
    BY <1>2, <1>3, <1>4

\* The target answers x with out.
Answer(x, out) ==
    /\ out \in Seq(Response) /\ out # <<>>
    /\ tx' = tx \o out
    /\ Counts(stat_sn, out, stat_sn')
    /\ out[Len(out)].max_cmd_sn = MaxCmdSn(exp_cmd_sn')
    /\ \A k \in 1 .. Len(out) :
          Tagged(out[k]) /\ out[k].op # "login" /\ (out[k].op = "logout" => x.op = "logout")

LEMMA PduFields ==
    ASSUME NEW op, NEW itt, NEW sn, NEW exp, NEW body
    PROVE  /\ Pdu(op, itt, sn, exp, body).op = op
           /\ Pdu(op, itt, sn, exp, body).itt = itt
           /\ Pdu(op, itt, sn, exp, body).stat_sn = sn
           /\ Pdu(op, itt, sn, exp, body).max_cmd_sn = MaxCmdSn(exp)
           /\ Pdu(op, itt, sn, exp, body).body = body
  BY DEF Pdu

LEMMA RespondAnswer ==
    ASSUME TypeOK, NEW x, exp_cmd_sn' \in Sn, NEW itt \in Itts, NEW body \in Body,
           NEW op \in {"scsi", "r2t", "nopin", "text", "tmf", "logout", "reject"},
           op = "r2t" => body \in [off : Nat, len : Nat],
           op = "logout" => x.op = "logout",
           Respond(op, itt, body)
    PROVE  \E out : Answer(x, out)
  <1> DEFINE p == Pdu(op, itt, stat_sn, exp_cmd_sn', body)
  <1>1. stat_sn \in Sn /\ tx \in Seq(Response)
    BY DEF TypeOK
  <1>2. /\ p \in Response /\ p.op = op /\ p.itt = itt /\ p.body = body
        /\ p.stat_sn = stat_sn /\ p.max_cmd_sn = MaxCmdSn(exp_cmd_sn')
    BY <1>1, PduType, PduFields
  <1>3. /\ tx' = Append(tx, p)
        /\ stat_sn' = IF ConsumesStatSn(p) THEN (stat_sn + 1) % SnMod ELSE stat_sn
    BY DEF Respond
  <1> HIDE DEF p
  <1>4. ConsumesStatSn(p) <=> TakesStatSn(p)
    BY <1>2 DEF ConsumesStatSn, TakesStatSn
  <1>5. /\ <<p>> \in Seq(Response) /\ <<p>> # <<>> /\ Len(<<p>>) = 1 /\ <<p>>[1] = p
        /\ tx' = tx \o <<p>>
    BY <1>1, <1>2, <1>3
  <1>6. Counts(stat_sn, <<p>>, stat_sn')
    BY <1>2, <1>3, <1>4, <1>5 DEF Counts, StatAfter, NextStat
  <1>7. Answer(x, <<p>>)
    BY <1>2, <1>5, <1>6 DEF Answer, Tagged
  <1> QED
    BY <1>7

\* A Data-In PDU for the command c, under sn and exp.
IsDataIn(p, c, sn, exp) ==
    /\ p.op = "datain" /\ p.itt = c.itt
    /\ p.stat_sn = sn /\ p.max_cmd_sn = MaxCmdSn(exp)

LEMMA ChunksFields ==
    ASSUME TypeOK, NEW c \in ScsiCommand, NEW data \in Seq(Val \cup {Blank}), data # <<>>,
           NEW sn \in Sn, NEW exp \in Sn, NEW D, D = DataInChunks(c, data, sn, exp)
    PROVE  /\ Len(D) \in Nat \ {0}
           /\ \A k \in 1 .. Len(D) :
                 IsDataIn(D[k], c, sn, exp) /\ (TakesStatSn(D[k]) <=> k = Len(D))
  <1> DEFINE seg == Larger(params.segment, MinSegment)
             n == (Len(data) + seg - 1) \div seg
             body(i) == [final |-> i = n, off |-> (i - 1) * seg,
                         data |-> SubSeq(data, (i - 1) * seg + 1, Smaller(i * seg, Len(data)))]
  <1>1. seg \in Nat \ {0} /\ Len(data) \in Nat \ {0}
    BY ParamsAssumption DEF TypeOK, Larger
  <1>2. D = [i \in 1 .. n |-> Pdu("datain", c.itt, sn, exp, body(i))]
    BY DEF DataInChunks
  <1> HIDE DEF seg
  <1>3. n \in Nat \ {0}
    BY <1>1, DivRange
  <1> HIDE DEF n
  <1>4. \A i \in 1 .. n : body(i).final <=> i = n
    OBVIOUS
  <1> HIDE DEF body
  <1>5. Len(D) = n /\ \A i \in 1 .. n : D[i] = Pdu("datain", c.itt, sn, exp, body(i))
    BY <1>2, <1>3
  <1>6. \A i \in 1 .. n : TakesStatSn(D[i]) <=> i = n
    BY <1>4, <1>5, PduFields DEF TakesStatSn
  <1> QED
    BY <1>3, <1>5, <1>6, PduFields DEF IsDataIn

LEMMA ChunksAnswer ==
    ASSUME TypeOK, NEW c \in ScsiCommand, NEW data \in Seq(Val \cup {Blank}), data # <<>>,
           exp_cmd_sn' \in Sn,
           tx' = tx \o DataInChunks(c, data, stat_sn, exp_cmd_sn'),
           stat_sn' = (stat_sn + 1) % SnMod
    PROVE  \E out : Answer(c, out)
  <1> DEFINE e == exp_cmd_sn'
  <1>1. PICK D : D = DataInChunks(c, data, stat_sn, e)
    OBVIOUS
  <1>2. stat_sn \in Sn /\ c.itt \in Itts
    BY DEF TypeOK, ScsiCommand
  <1>3. D \in Seq(Response)
    BY <1>1, <1>2, ChunksType
  <1>4. /\ Len(D) \in Nat \ {0}
        /\ \A k \in 1 .. Len(D) :
              IsDataIn(D[k], c, stat_sn, e) /\ (TakesStatSn(D[k]) <=> k = Len(D))
    BY <1>1, <1>2, ChunksFields
  <1>5. D # <<>>
    BY <1>4
  <1>6. Counts(stat_sn, D, stat_sn')
    <2>1. \A k \in 1 .. Len(D) - 1 : NextStat(D[k]) = stat_sn
      BY <1>4 DEF NextStat, IsDataIn
    <2>2. NextStat(D[Len(D)]) = (stat_sn + 1) % SnMod
      BY <1>4 DEF NextStat, IsDataIn
    <2>3. \A k \in 1 .. Len(D) : StatAfter(stat_sn, D, k - 1) = stat_sn
      BY <1>4, <2>1 DEF StatAfter
    <2> QED
      BY <1>4, <2>2, <2>3 DEF Counts, StatAfter, IsDataIn
  <1>7. Answer(c, D)
    BY <1>1, <1>2, <1>3, <1>4, <1>5, <1>6 DEF Answer, Tagged, IsDataIn
  <1> QED
    BY <1>7

LEMMA FinishAnswer ==
    ASSUME TypeOK, NEW x, exp_cmd_sn' \in Sn, NEW c \in ScsiCommand, NEW buf,
           FinishWrite(c, buf)
    PROVE  \E out : Answer(x, out)
  <1>1. PICK code \in {"good", "check"} : Respond("scsi", c.itt, Code(code))
    BY OutcomeType DEF FinishWrite, WriteMedium
  <1>2. Code(code) \in Body /\ c.itt \in Itts
    BY DEF Code, Body, ScsiCommand
  <1> QED
    BY <1>1, <1>2, RespondAnswer

\* In the full-feature stage every request is answered.
LEMMA RequestAnswered ==
    ASSUME TypeOK, TargetResolved, stage = "FullFeature",
           NEW x \in Request, x.op \in SessionOps, x.op # "login", Handle(x)
    PROVE  /\ \E out : Answer(x, out)
           /\ exp_cmd_sn' = IF x.op = "scsi" THEN (exp_cmd_sn + 1) % SnMod ELSE exp_cmd_sn
           /\ stage' = IF x.op = "logout" THEN "Closing" ELSE stage
  <1>1. bound /\ exp_cmd_sn \in Sn /\ Code("none") \in Body
    BY DEF TypeOK, TargetResolved, Code, Body
  <1>2. CASE HandleScsiCommand(x)
    <2>1. x \in ScsiCommand /\ x.op = "scsi"
      BY <1>2 DEF HandleScsiCommand, Request, LoginRequest, DataOut, OtherRequest
    <2>2. x.itt \in Itts /\ x.edtl \in Nat /\ Len(x.data) \in Nat /\ x.data \in Seq(Val)
      BY <2>1 DEF ScsiCommand
    <2>3. exp_cmd_sn' = (exp_cmd_sn + 1) % SnMod /\ exp_cmd_sn' \in Sn /\ stage' = stage
      BY <1>1, <1>2, ExpCmdSnType DEF HandleScsiCommand, ExecuteCommand, BeginWrite, ExpCmdSnAfter
    <2>4. CASE ExecuteCommand(x)
      <3>1. CASE WritesMedium(x, Len(x.data))
        <4>1. PICK code \in {"good", "check"} : Respond("scsi", x.itt, Code(code))
          BY <2>4, <3>1 DEF ExecuteCommand, WriteMedium
        <4>2. Code(code) \in Body
          BY DEF Code, Body
        <4> QED
          BY <2>1, <2>2, <2>3, <4>1, <4>2, RespondAnswer
      <3>2. CASE ~WritesMedium(x, Len(x.data))
        <4>1. PICK o \in Outcomes(x) :
                 \/ /\ o.data # <<>>
                    /\ tx' = tx \o DataInChunks(x, o.data, stat_sn, exp_cmd_sn')
                    /\ stat_sn' = (stat_sn + 1) % SnMod
                 \/ Respond("scsi", x.itt, Code(o.status))
          BY <2>4, <3>2 DEF ExecuteCommand
        <4>2. o.status \in {"good", "check"} /\ o.data \in Seq(Val \cup {Blank})
          BY <2>1, OutcomeType
        <4>3. Code(o.status) \in Body
          BY <4>2 DEF Code, Body
        <4> QED
          BY <2>1, <2>2, <2>3, <4>1, <4>2, <4>3, RespondAnswer, ChunksAnswer
      <3> QED
        BY <2>1, <2>3, <3>1, <3>2
    <2>5. CASE BeginWrite(x)
      <3>1. CASE SendReject(x.itt)
        <4>1. \E out : Answer(x, out)
          BY <1>1, <2>2, <2>3, <3>1, RespondAnswer DEF SendReject
        <4> QED
          BY <2>1, <2>3, <4>1
      <3>2. CASE \E buf : FinishWrite(x, buf)
        BY <2>1, <2>3, <3>2, FinishAnswer
      <3>3. CASE Len(x.data) < x.edtl /\ Respond("r2t", x.itt, Solicit(x.edtl, Len(x.data)))
        <4>1. Solicit(x.edtl, Len(x.data)) \in [off : Nat, len : Nat]
          BY <2>2, <3>3 DEF Solicit, Smaller, TypeOK
        <4>2. Solicit(x.edtl, Len(x.data)) \in Body
          BY <4>1 DEF Body
        <4>3. \E out : Answer(x, out)
          BY <2>2, <2>3, <3>3, <4>1, <4>2, RespondAnswer
        <4> QED
          BY <2>1, <2>3, <4>3
      <3>4. SendReject(x.itt) \/ (\E buf : FinishWrite(x, buf))
            \/ (Len(x.data) < x.edtl /\ Respond("r2t", x.itt, Solicit(x.edtl, Len(x.data))))
        BY <2>5 DEF BeginWrite
      <3> QED
        BY <2>1, <2>3, <3>1, <3>2, <3>3, <3>4
    <2> QED
      BY <1>1, <1>2, <2>1, <2>3, <2>4, <2>5 DEF HandleScsiCommand
  <1>3. CASE HandleDataOut(x)
    <2>1. x \in DataOut /\ x.op = "dataout" /\ exp_cmd_sn' = exp_cmd_sn /\ stage' = stage
      BY <1>3 DEF HandleDataOut, Request, LoginRequest, ScsiCommand, OtherRequest
    <2>2. x.itt \in Itts /\ Len(x.data) \in Nat
      BY <2>1 DEF DataOut
    <2> DEFINE p == in_flight[x.itt]
               received == p.received + Len(x.data)
    <2>3. CASE SendReject(x.itt)
      BY <1>1, <2>1, <2>2, <2>3, RespondAnswer DEF SendReject
    <2>4. ASSUME p # None
          PROVE  p.cmd \in ScsiCommand /\ p.cmd.edtl \in Nat /\ p.received \in Nat
      <3>1. PendingWrite(p)
        BY <2>2, <2>4 DEF TypeOK
      <3> QED
        BY <3>1 DEF PendingWrite, ScsiCommand
    <2>5. CASE p # None /\ MoreToCome(p, received) /\ SolicitNext(p, x, received)
      <3>1. received \in Nat /\ p.cmd.edtl \in Nat /\ received < p.cmd.edtl
        BY <2>2, <2>4, <2>5 DEF MoreToCome
      <3>2. Respond("r2t", x.itt, Solicit(p.cmd.edtl, received))
        BY <2>5 DEF SolicitNext
      <3>3. Solicit(p.cmd.edtl, received) \in [off : Nat, len : Nat]
        BY <3>1 DEF Solicit, Smaller, TypeOK
      <3>4. Solicit(p.cmd.edtl, received) \in Body
        BY <3>3 DEF Body
      <3> QED
        BY <1>1, <2>1, <2>2, <3>2, <3>3, <3>4, RespondAnswer
    <2>6. CASE p # None /\ FinishWrite(p.cmd, Patched(p.buf, x.off, x.data))
      BY <1>1, <2>1, <2>4, <2>6, FinishAnswer
    <2> QED
      BY <1>3, <2>1, <2>3, <2>5, <2>6 DEF HandleDataOut
  <1>4. CASE HandleOther(x) \/ HandleLogout(x)
    <2>1. x.op # "scsi" /\ exp_cmd_sn' = exp_cmd_sn /\ x.op # "login"
          /\ stage' = IF x.op = "logout" THEN "Closing" ELSE stage
      BY <1>1, <1>4 DEF HandleOther, HandleLogout, ResponseTo
    <2>2. x.itt \in Itts
      BY <2>1 DEF Request, LoginRequest, ScsiCommand, DataOut, OtherRequest
    <2>3. PICK op \in {"nopin", "text", "tmf", "logout", "reject"} :
              Respond(op, x.itt, Code("none")) /\ (op = "logout" => x.op = "logout")
      <3>1. CASE HandleOther(x)
        <4>1. ResponseTo[x.op] \in {"nopin", "text", "tmf", "reject"}
          BY <3>1 DEF HandleOther, ResponseTo
        <4> QED
          BY <2>1, <3>1, <4>1 DEF HandleOther
      <3>2. CASE HandleLogout(x)
        BY <3>2 DEF HandleLogout
      <3> QED
        BY <1>4, <3>1, <3>2
    <2>4. exp_cmd_sn' \in Sn
      BY <1>1, <2>1
    <2>5. \E out : Answer(x, out)
      BY <1>1, <2>2, <2>3, <2>4, RespondAnswer
    <2> QED
      BY <2>1, <2>5
  <1>5. /\ ~HandleLogin(x) /\ ~WrongStage(x) /\ ~HandleMalformed(x)
    BY DEF HandleLogin, WrongStage, HandleMalformed, SessionOps
  <1> QED
    BY <1>2, <1>3, <1>4, <1>5 DEF Handle

-----------------------------------------------------------------------------
(* The streams *)

LEMMA TailElems ==
    ASSUME NEW R, NEW s \in Seq(R), s # <<>>
    PROVE  /\ Tail(s) \in Seq(R) /\ Len(s) \in Nat \ {0} /\ Len(Tail(s)) = Len(s) - 1
           /\ \A k \in 1 .. Len(Tail(s)) : k + 1 \in 1 .. Len(s) /\ Tail(s)[k] = s[k + 1]
           /\ Head(s) = s[1] /\ 1 \in 1 .. Len(s)
  <1>1. /\ Tail(s) \in Seq(R) /\ Len(s) \in Nat \ {0} /\ Len(Tail(s)) = Len(s) - 1
        /\ \A k \in 1 .. Len(Tail(s)) : Tail(s)[k] = s[k + 1]
        /\ Head(s) = s[1]
    OBVIOUS
  <1> QED
    BY <1>1

LEMMA ConcatElems ==
    ASSUME NEW R, NEW s \in Seq(R), NEW t \in Seq(R)
    PROVE  /\ s \o t \in Seq(R)
           /\ \A k \in 1 .. Len(s \o t) :
                 \/ k \in 1 .. Len(s) /\ (s \o t)[k] = s[k]
                 \/ \E j \in 1 .. Len(t) : (s \o t)[k] = t[j]
  <1> DEFINE u == s \o t
  <1>1. /\ u \in Seq(R) /\ Len(u) = Len(s) + Len(t) /\ Len(s) \in Nat /\ Len(t) \in Nat
        /\ \A k \in 1 .. Len(s) : u[k] = s[k]
        /\ \A k \in 1 .. Len(t) : u[k + Len(s)] = t[k]
    OBVIOUS
  <1> HIDE DEF u
  <1>2. ASSUME NEW k \in 1 .. Len(u), k > Len(s)
        PROVE  \E j \in 1 .. Len(t) : u[k] = t[j]
    <2> DEFINE j == k - Len(s)
    <2>1. j \in 1 .. Len(t) /\ k = j + Len(s)
      BY <1>1, <1>2
    <2> HIDE DEF j
    <2> QED
      BY <1>1, <2>1
  <1>3. \A k \in 1 .. Len(u) : k \in 1 .. Len(s) \/ k > Len(s)
    BY <1>1
  <1> QED
    BY <1>1, <1>2, <1>3 DEF u

\* A request, or several, sent by the initiator.
LEMMA SendTypes ==
    ASSUME StreamTypes, NEW out \in Seq(Request), rx' = rx \o out, UNCHANGED tx,
           \A k \in 1 .. Len(out) : out[k].op \in SessionOps
    PROVE  StreamTypes'
  <1>1. rx \in Seq(Request)
    BY DEF StreamTypes
  <1>2. rx' \in Seq(Request) /\ \A k \in 1 .. Len(rx') :
            (k \in 1 .. Len(rx) /\ rx'[k] = rx[k]) \/ \E j \in 1 .. Len(out) : rx'[k] = out[j]
    BY <1>1, ConcatElems
  <1> QED
    BY <1>2 DEF StreamTypes, Tagged

-----------------------------------------------------------------------------
(* The initiator's steps *)

LEMMA CoreInit == SessionInit => CoreInv
  <1> SUFFICES ASSUME SessionInit PROVE CoreInv
    OBVIOUS
  <1>1. TargetInv
    BY TargetInit DEF SessionInit
  <1>2. /\ rx = <<>> /\ tx = <<>> /\ istage = "down" /\ stage = "Closed"
        /\ tasks = [i \in Itts |-> None] /\ aborting = {}
        /\ cmd_sn = FirstSn /\ max_cmd = FirstSn /\ exp_stat = FirstSn
        /\ used = [issued |-> 0, nops |-> 0, aborts |-> 0, conns |-> 0]
    BY DEF SessionInit, Init
  <1>3. InitiatorTypes
    BY <1>2, SessionAssumption DEF InitiatorTypes
  <1>4. StreamTypes
    BY <1>2 DEF StreamTypes
  <1> QED
    BY <1>1, <1>2, <1>3, <1>4 DEF CoreInv, StageInv, SnInv, CmdInv

LEMMA ConnectCore == CoreInv /\ Connect => CoreInv'
  <1> SUFFICES ASSUME CoreInv, Connect PROVE CoreInv'
    OBVIOUS
  <1>1. TargetInv'
    BY TransportInv DEF CoreInv, Connect
  <1>2. /\ rx' = <<LoginPdu>> /\ tx' = <<>> /\ istage = "down" /\ istage' = "login"
        /\ stage' = "Login" /\ stat_sn' = 0
        /\ cmd_sn' = FirstSn /\ exp_stat' = FirstSn
        /\ used' = [used EXCEPT !.conns = @ + 1]
        /\ UNCHANGED <<tasks, aborting, max_cmd>>
    BY DEF Connect, Accept, LoginPdu
  <1>3. InitiatorTypes'
    BY <1>2, SessionAssumption DEF InitiatorTypes, CoreInv
  <1>4. LoginPdu \in Request /\ LoginPdu.op = "login"
    BY SessionAssumption DEF LoginPdu, Request, LoginRequest
  <1>5. StreamTypes'
    BY <1>2, <1>4 DEF StreamTypes, SessionOps
  <1> QED
    BY <1>1, <1>2, <1>3, <1>5 DEF CoreInv, StageInv, SnInv, CmdInv

\* What is left to show for a step in which the initiator only sends.
LEMMA SendCore ==
    ASSUME CoreInv, NEW out \in Seq(Request), rx' = rx \o out,
           \A k \in 1 .. Len(out) : out[k].op \in SessionOps \ {"login"},
           istage = "up", UNCHANGED <<vars, max_cmd, exp_stat>>,
           InitiatorTypes',
           \/ /\ istage' = "up" /\ \A k \in 1 .. Len(out) : out[k].op # "logout"
              /\ NopImmediate => CommandsCount(cmd_sn, out, cmd_sn')
           \/ istage' = "logout" /\ aborting' = {} /\ \A i \in Itts : tasks'[i] = None
    PROVE  CoreInv'
  <1>1. TargetInv'
    BY TargetNext DEF CoreInv
  <1>2. UNCHANGED <<stage, tx, stat_sn, exp_cmd_sn>> /\ stage = "FullFeature"
    BY DEF vars, CoreInv, StageInv
  <1>3. StreamTypes'
    BY <1>2, SendTypes DEF CoreInv
  <1>4. rx \in Seq(Request) /\ \A k \in 1 .. Len(rx') :
            (k \in 1 .. Len(rx) /\ rx'[k] = rx[k]) \/ \E j \in 1 .. Len(out) : rx'[k] = out[j]
    BY ConcatElems DEF CoreInv, StreamTypes
  <1>5. StageInv'
    <2>1. \A k \in 1 .. Len(rx') : rx'[k].op # "login"
      BY <1>2, <1>4 DEF CoreInv, StageInv
    <2>2. istage' = "up" => \A k \in 1 .. Len(rx') : rx'[k].op # "logout"
      BY <1>2, <1>4 DEF CoreInv, StageInv
    <2> QED
      BY <1>2, <2>1, <2>2 DEF CoreInv, StageInv
  <1>6. SnInv'
    BY <1>2 DEF CoreInv, SnInv
  <1>7. CmdInv'
    <2> SUFFICES ASSUME NopImmediate, istage' = "up"
                 PROVE  CommandsCount(exp_cmd_sn', rx', cmd_sn')
      BY DEF CmdInv
    <2>1. CommandsCount(exp_cmd_sn, rx, cmd_sn) /\ CommandsCount(cmd_sn, out, cmd_sn')
      BY DEF CoreInv, CmdInv
    <2>2. CommandsCount(exp_cmd_sn, rx \o out, cmd_sn')
      BY <1>4, <2>1, CommandsConcat
    <2> QED
      BY <1>2, <2>2
  <1> QED
    BY <1>1, <1>3, <1>5, <1>6, <1>7 DEF CoreInv

LEMMA AppendOne ==
    ASSUME NEW R, NEW s \in Seq(R), NEW p \in R
    PROVE  /\ <<p>> \in Seq(R) /\ Append(s, p) = s \o <<p>>
           /\ Len(<<p>>) = 1 /\ \A k \in 1 .. Len(<<p>>) : <<p>>[k] = p
  OBVIOUS

LEMMA IssueCore ==
    ASSUME CoreInv, NEW itt \in Itts, NEW task, NEW pdu \in Request, pdu.op = "scsi",
           task.op = "write" => Sends(task), Issue(itt, task, pdu)
    PROVE  CoreInv'
  <1>1. /\ istage = "up" /\ istage' = "up" /\ rx' = Append(rx, pdu)
        /\ tasks' = [tasks EXCEPT ![itt] = task] /\ cmd_sn' = (cmd_sn + 1) % SnMod
        /\ used' = [used EXCEPT !.issued = @ + 1]
        /\ UNCHANGED <<vars, aborting, max_cmd, exp_stat>>
    BY DEF Issue
  <1>2. rx \in Seq(Request) /\ cmd_sn \in Sn
    BY DEF CoreInv, StreamTypes, InitiatorTypes
  <1>3. /\ rx' = rx \o <<pdu>> /\ <<pdu>> \in Seq(Request)
        /\ \A k \in 1 .. Len(<<pdu>>) : <<pdu>>[k] = pdu
    BY <1>1, <1>2, AppendOne
  <1>4. InitiatorTypes'
    <2>1. cmd_sn' \in Sn
      BY <1>1, <1>2, ModSn DEF Sn
    <2>2. \A i \in Itts : tasks'[i] = IF i = itt THEN task ELSE tasks[i]
      BY <1>1 DEF CoreInv, InitiatorTypes
    <2>3. tasks' = [i \in Itts |-> tasks'[i]]
      BY <1>1 DEF CoreInv, InitiatorTypes
    <2>4. used' \in [issued : Nat, nops : Nat, aborts : Nat, conns : Nat]
      BY <1>1 DEF CoreInv, InitiatorTypes
    <2> QED
      BY <1>1, <2>1, <2>2, <2>3, <2>4 DEF CoreInv, InitiatorTypes
  <1>5. CommandsCount(cmd_sn, <<pdu>>, cmd_sn')
    BY <1>1, <1>2, CommandsOne
  <1> QED
    BY <1>1, <1>3, <1>4, <1>5, SendCore DEF SessionOps

LEMMA InitiatorStepCore ==
    ASSUME CoreInv, NEW itt \in Itts, InitiatorStep(itt) PROVE CoreInv'
  <1>1. ASSUME NEW r \in Ranges, IssueRead(itt, r) PROVE CoreInv'
    <2> DEFINE task == [op |-> "read", lba |-> r.lba, n |-> r.n]
               pdu == [op |-> "scsi", itt |-> itt, read |-> TRUE, write |-> FALSE, cdb |-> "read",
                       lba |-> r.lba, blocks |-> r.n, edtl |-> r.n, data |-> <<>>]
    <2>1. r.lba \in Nat /\ r.n \in Nat
      BY SessionAssumption
    <2>2. pdu \in Request
      BY <2>1 DEF Request, ScsiCommand
    <2>3. Issue(itt, task, pdu) /\ pdu.op = "scsi" /\ task.op # "write"
      BY <1>1 DEF IssueRead
    <2> HIDE DEF task, pdu
    <2> QED
      BY <2>2, <2>3, IssueCore
  <1>2. ASSUME NEW r \in Ranges, IssueWrite(itt, r) PROVE CoreInv'
    <2> DEFINE v == used.issued + 1
               task(now, seg) == WriteTaskOf(r, v, now, seg)
               pdu(now) == [op |-> "scsi", itt |-> itt, read |-> FALSE, write |-> TRUE, cdb |-> "write",
                            lba |-> r.lba, blocks |-> r.n, edtl |-> r.n,
                            data |-> [k \in 1 .. now |-> v]]
    <2>1. r.lba \in Nat /\ r.n \in Nat
      BY SessionAssumption
    <2>2. PICK now \in 0 .. Smaller(Immediate, r.n), seg \in Segments :
              Issue(itt, task(now, seg), pdu(now))
      BY <1>2 DEF IssueWrite
    <2>3. now \in Nat
      BY SessionAssumption, <2>1 DEF Smaller
    <2>4. used.issued \in Nat /\ used.issued < MaxIssued
      BY <2>2 DEF CoreInv, InitiatorTypes, Issue
    <2>5. v \in Val
      BY <2>4, SessionAssumption
    <2> HIDE DEF v
    <2>6. [k \in 1 .. now |-> v] \in Seq(Val)
      BY <2>3, <2>5
    <2>7. pdu(now) \in Request
      BY <2>1, <2>6 DEF Request, ScsiCommand
    <2>8. pdu(now).op = "scsi" /\ Sends(task(now, seg))
      BY <2>5, SessionAssumption DEF WriteTaskOf, Sends
    <2> HIDE DEF task, pdu
    <2> QED
      BY <2>2, <2>7, <2>8, IssueCore
  <1>3. CASE SendAbort(itt)
    <2> DEFINE pdu == [op |-> "tmf", itt |-> itt]
    <2>1. /\ istage = "up" /\ istage' = "up" /\ rx' = Append(rx, pdu)
          /\ aborting' = aborting \cup {itt}
          /\ used' = [used EXCEPT !.aborts = @ + 1]
          /\ UNCHANGED <<vars, tasks, cmd_sn, max_cmd, exp_stat>>
      BY <1>3 DEF SendAbort
    <2>2. pdu \in Request /\ pdu.op = "tmf"
      BY DEF Request, OtherRequest
    <2>3. rx \in Seq(Request) /\ cmd_sn \in Sn
      BY DEF CoreInv, StreamTypes, InitiatorTypes
    <2> HIDE DEF pdu
    <2>4. /\ rx' = rx \o <<pdu>> /\ <<pdu>> \in Seq(Request)
          /\ \A k \in 1 .. Len(<<pdu>>) : <<pdu>>[k] = pdu
      BY <2>1, <2>2, <2>3, AppendOne
    <2>5. InitiatorTypes'
      BY <2>1 DEF CoreInv, InitiatorTypes
    <2>6. CommandsCount(cmd_sn, <<pdu>>, cmd_sn')
      BY <2>1, <2>2, <2>3, <2>4, CommandsNone
    <2> QED
      BY <2>1, <2>2, <2>4, <2>5, <2>6, SendCore DEF SessionOps
  <1> QED
    BY <1>1, <1>2, <1>3 DEF InitiatorStep

LEMMA SendOtherCore == CoreInv /\ (SendNop \/ SendLogout) => CoreInv'
  <1> SUFFICES ASSUME CoreInv, SendNop \/ SendLogout PROVE CoreInv'
    OBVIOUS
  <1>1. PICK pdu : pdu \in {[op |-> "nop", itt |-> NoTask], [op |-> "logout", itt |-> NoTask]}
                   /\ rx' = Append(rx, pdu) /\ (SendLogout \/ (SendNop /\ pdu.op = "nop"))
    BY DEF SendNop, SendLogout
  <1>2. NoTask \in Itts
    BY SessionAssumption DEF NoTask
  <1>3. pdu \in Request /\ pdu.op \in {"nop", "logout"}
    BY <1>1, <1>2 DEF Request, OtherRequest
  <1>4. rx \in Seq(Request) /\ cmd_sn \in Sn
    BY DEF CoreInv, StreamTypes, InitiatorTypes
  <1>5. /\ rx' = rx \o <<pdu>> /\ <<pdu>> \in Seq(Request)
        /\ \A k \in 1 .. Len(<<pdu>>) : <<pdu>>[k] = pdu
    BY <1>1, <1>3, <1>4, AppendOne
  <1>6. CASE SendNop /\ pdu.op = "nop"
    <2>1. /\ istage = "up" /\ istage' = "up"
          /\ cmd_sn' = IF NopImmediate THEN cmd_sn ELSE (cmd_sn + 1) % SnMod
          /\ used' = [used EXCEPT !.nops = @ + 1]
          /\ UNCHANGED <<vars, tasks, aborting, max_cmd, exp_stat>>
      BY <1>6 DEF SendNop
    <2>2. cmd_sn' \in Sn
      BY <1>4, <2>1, ModSn DEF Sn
    <2>3. InitiatorTypes'
      BY <2>1, <2>2 DEF CoreInv, InitiatorTypes
    <2>4. NopImmediate => CommandsCount(cmd_sn, <<pdu>>, cmd_sn')
      BY <1>3, <1>4, <1>5, <1>6, <2>1, CommandsNone
    <2> QED
      BY <1>3, <1>5, <1>6, <2>1, <2>3, <2>4, SendCore DEF SessionOps
  <1>7. CASE SendLogout
    <2>1. /\ istage = "up" /\ istage' = "logout" /\ aborting' = {} /\ \A i \in Itts : tasks'[i] = None
          /\ UNCHANGED <<vars, tasks, aborting, cmd_sn, max_cmd, exp_stat, used>>
      BY <1>7 DEF SendLogout
    <2>2. InitiatorTypes'
      BY <2>1 DEF CoreInv, InitiatorTypes
    <2> QED
      BY <1>3, <1>5, <2>1, <2>2, SendCore DEF SessionOps
  <1> QED
    BY <1>1, <1>6, <1>7

LEMMA ReceiveCore == CoreInv /\ Receive => CoreInv'
  <1> SUFFICES ASSUME CoreInv, Receive PROVE CoreInv'
    OBVIOUS
  <1> DEFINE pdu == Head(tx)
             task == tasks[pdu.itt]
  <1>1. /\ istage # "down" /\ Deliver /\ tx # <<>> /\ tx' = Tail(tx)
        /\ max_cmd' = pdu.max_cmd_sn
        /\ exp_stat' = IF TakesStatSn(pdu) THEN (pdu.stat_sn + 1) % SnMod ELSE exp_stat
        /\ UNCHANGED <<cmd_sn, used, stage, stat_sn, exp_cmd_sn>>
    BY DEF Receive, Deliver
  <1>2. TargetInv'
    BY <1>1, TransportInv DEF CoreInv
  <1>3. /\ tx \in Seq(Response) /\ rx \in Seq(Request)
        /\ exp_stat \in Sn /\ stage # "Login"
    BY <1>1 DEF CoreInv, TargetInv, TypeOK, StreamTypes, InitiatorTypes, StageInv
  <1>4. /\ tx' \in Seq(Response) /\ Len(tx) \in Nat \ {0} /\ Len(tx') = Len(tx) - 1
        /\ \A k \in 1 .. Len(tx') : k + 1 \in 1 .. Len(tx) /\ tx'[k] = tx[k + 1]
        /\ pdu = tx[1] /\ 1 \in 1 .. Len(tx)
    BY <1>1, <1>3, TailElems
  <1>5. pdu \in Response /\ Tagged(pdu) /\ pdu.stat_sn \in Sn /\ pdu.max_cmd_sn \in Sn
    <2>1. pdu \in Response /\ Tagged(pdu)
      BY <1>3, <1>4 DEF CoreInv, StreamTypes
    <2> QED
      BY <2>1 DEF Response
  <1>6. /\ \/ rx' = rx
           \/ /\ istage = "up" /\ istage' = "up" /\ \E out \in Seq(Request) :
                    rx' = rx \o out /\ \A k \in 1 .. Len(out) : out[k].op = "dataout"
        /\ tasks' = [i \in Itts |-> tasks'[i]]
        /\ \A i \in Itts : tasks'[i] = tasks[i] \/ tasks'[i] = None
        /\ aborting' \subseteq aborting
        /\ \/ istage' = istage /\ pdu.op \notin {"login", "logout"}
           \/ istage' = "down" /\ pdu.op \in {"login", "logout"} /\ rx' = rx
           \/ istage' = "up" /\ pdu.op = "login" /\ pdu.body.code = "transit" /\ rx' = rx
    <2>1. /\ tasks = [i \in Itts |-> tasks[i]]
          /\ \A i \in Itts : tasks[i] # None /\ tasks[i].op = "write" => Sends(tasks[i])
          /\ istage # "up" => \A i \in Itts : tasks[i] = None
      BY DEF CoreInv, InitiatorTypes, StageInv
    <2>2. CASE pdu.op = "login" /\ istage' = (IF pdu.body.code = "transit" THEN "up" ELSE "down")
               /\ UNCHANGED <<rx, tasks, aborting>>
      BY <2>1, <2>2
    <2>3. CASE /\ pdu.op = "r2t" /\ UNCHANGED <<istage, tasks, aborting>>
               /\ rx' = IF task # None /\ task.op = "write" /\ pdu.itt \notin aborting
                        THEN rx \o DataOuts(pdu.itt, task, pdu.body) ELSE rx
      <3>1. CASE task # None /\ task.op = "write" /\ pdu.itt \notin aborting
        <4>1. pdu.itt \in Itts /\ pdu.body \in [off : Nat, len : Nat] /\ Sends(task)
          BY <1>5, <2>1, <2>3, <3>1 DEF Tagged
        <4>2. istage = "up"
          BY <2>1, <3>1, <4>1
        <4> DEFINE out == DataOuts(pdu.itt, task, pdu.body)
        <4>3. out \in Seq(Request) /\ \A k \in 1 .. Len(out) : out[k].op = "dataout"
          BY <4>1, DataOutsType
        <4>4. rx' = rx \o out
          BY <2>3, <3>1
        <4> HIDE DEF out
        <4>5. \E o \in Seq(Request) :
                    rx' = rx \o o /\ \A k \in 1 .. Len(o) : o[k].op = "dataout"
          BY <4>3, <4>4
        <4> QED
          BY <2>1, <2>3, <4>2, <4>5
      <3>2. CASE ~(task # None /\ task.op = "write" /\ pdu.itt \notin aborting)
        <4>1. rx' = rx
          BY <2>3, <3>2
        <4> QED
          BY <2>1, <2>3, <4>1
      <3> QED
        BY <3>1, <3>2
    <2>4. CASE /\ pdu.op \in {"datain", "scsi", "tmf"} /\ UNCHANGED <<rx, istage>>
               /\ aborting' \in {aborting, aborting \ {pdu.itt}}
               /\ tasks' = [tasks EXCEPT ![pdu.itt] = None] \/ UNCHANGED tasks
      <3>1. /\ tasks' = [i \in Itts |-> tasks'[i]]
            /\ \A i \in Itts : tasks'[i] = tasks[i] \/ tasks'[i] = None
        BY <2>1, <2>4
      <3>2. aborting' \subseteq aborting
        BY <2>4
      <3> QED
        BY <2>4, <3>1, <3>2
    <2>5. CASE pdu.op \in {"nopin", "reject"} /\ UNCHANGED <<rx, istage, tasks, aborting>>
      BY <2>1, <2>5
    <2>6. CASE pdu.op = "logout" /\ istage' = "down" /\ UNCHANGED <<rx, tasks, aborting>>
      BY <2>1, <2>6
    <2> QED
      BY <2>2, <2>3, <2>4, <2>5, <2>6 DEF Receive, End
  <1> HIDE DEF pdu, task
  <1>7. InitiatorTypes'
    <2>1. exp_stat' \in Sn
      <3>1. pdu.stat_sn + 1 \in Nat
        BY <1>5 DEF Sn
      <3>2. (pdu.stat_sn + 1) % SnMod \in Sn
        BY <3>1, ModSn
      <3> QED
        BY <1>1, <1>3, <3>2
    <2> QED
      BY <1>1, <1>5, <1>6, <2>1 DEF CoreInv, InitiatorTypes
  <1>8. /\ rx' \in Seq(Request)
        /\ \A k \in 1 .. Len(rx') : (k \in 1 .. Len(rx) /\ rx'[k] = rx[k]) \/ rx'[k].op = "dataout"
    <2>1. CASE rx' = rx
      BY <1>3, <2>1
    <2>2. ASSUME NEW out \in Seq(Request), rx' = rx \o out,
                 \A k \in 1 .. Len(out) : out[k].op = "dataout"
          PROVE  /\ rx' \in Seq(Request)
                 /\ \A k \in 1 .. Len(rx') :
                       (k \in 1 .. Len(rx) /\ rx'[k] = rx[k]) \/ rx'[k].op = "dataout"
      BY <1>3, <2>2, ConcatElems
    <2> QED
      BY <1>6, <2>1, <2>2
  <1>9. StreamTypes'
    BY <1>4, <1>8 DEF CoreInv, StreamTypes, SessionOps, Tagged
  <1>10. StageInv'
    <2>1. \A k \in 1 .. Len(rx') : rx'[k].op # "login" /\ (istage = "up" => rx'[k].op # "logout")
      BY <1>3, <1>8 DEF CoreInv, StageInv
    <2>2. istage = "up" => pdu.op \notin {"login", "logout"} /\ stage = "FullFeature"
      BY <1>4 DEF CoreInv, StageInv
    <2>3. istage = "login" => /\ Len(tx') = 0 /\ pdu.op = "login" /\ rx = <<>>
                              /\ (pdu.body.code = "transit" => stage = "FullFeature")
      BY <1>3, <1>4 DEF CoreInv, StageInv
    <2>4. istage = "logout" => pdu.op # "login"
      BY <1>4 DEF CoreInv, StageInv
    <2>5. istage # "up" => aborting = {} /\ \A i \in Itts : tasks[i] = None
      BY DEF CoreInv, StageInv
    <2>6. istage \in {"login", "up", "logout"}
      BY <1>1 DEF CoreInv, StageInv
    <2>7. CASE istage = "up"
      <3>1. istage' = "up"
        BY <1>6, <2>2, <2>7
      <3>2. \A k \in 1 .. Len(tx') : tx'[k].op \notin {"login", "logout"}
        BY <1>4, <2>7 DEF CoreInv, StageInv
      <3> QED
        BY <1>1, <1>3, <2>1, <2>2, <2>7, <3>1, <3>2 DEF StageInv
    <2>8. CASE istage = "login"
      <3>1. istage' \in {"up", "down"} /\ rx' = rx /\ (istage' = "up" => stage = "FullFeature")
        BY <1>6, <2>3, <2>8
      <3> QED
        BY <1>1, <1>3, <1>6, <2>1, <2>3, <2>5, <2>8, <3>1 DEF StageInv
    <2>9. CASE istage = "logout"
      <3>1. istage' \in {"logout", "down"} /\ rx' = rx
        BY <1>6, <2>4, <2>9
      <3>2. stage = "Closed" => rx = <<>>
        BY DEF CoreInv, StageInv
      <3>3. \A k \in 1 .. Len(tx') : tx'[k].op # "login"
        BY <1>4, <2>9 DEF CoreInv, StageInv
      <3> QED
        BY <1>1, <1>3, <1>6, <2>1, <2>5, <2>9, <3>1, <3>2, <3>3 DEF StageInv
    <2> QED
      BY <2>6, <2>7, <2>8, <2>9
  <1>11. SnInv'
    <2>1. Counts(exp_stat, tx, stat_sn) /\ LastMax(max_cmd, tx) = MaxCmdSn(exp_cmd_sn)
      BY <1>1, <1>3 DEF CoreInv, SnInv
    <2>2. pdu.stat_sn = exp_stat /\ Counts(NextStat(pdu), tx', stat_sn)
      BY <1>1, <1>3, <1>4, <2>1, CountsTail
    <2>3. exp_stat' = NextStat(pdu)
      BY <1>1, <2>2 DEF NextStat
    <2>4. LastMax(max_cmd', tx') = LastMax(max_cmd, tx)
      BY <1>1, <1>3, <1>4, LastMaxTail
    <2> QED
      BY <1>1, <2>1, <2>2, <2>3, <2>4 DEF SnInv
  <1>12. CmdInv'
    <2> SUFFICES ASSUME NopImmediate, istage' = "up"
                 PROVE  CommandsCount(exp_cmd_sn', rx', cmd_sn')
      BY DEF CmdInv
    <2>1. cmd_sn \in Sn
      BY DEF CoreInv, InitiatorTypes
    <2>2. CASE istage = "up"
      <3>1. CommandsCount(exp_cmd_sn, rx, cmd_sn)
        BY <2>2 DEF CoreInv, CmdInv
      <3>2. CASE rx' = rx
        BY <1>1, <3>1, <3>2
      <3>3. ASSUME NEW out \in Seq(Request), rx' = rx \o out,
                   \A k \in 1 .. Len(out) : out[k].op = "dataout"
            PROVE  CommandsCount(exp_cmd_sn', rx', cmd_sn')
        <4>1. CommandsCount(cmd_sn, out, cmd_sn)
          BY <2>1, <3>3, CommandsNone
        <4>2. CommandsCount(exp_cmd_sn, rx \o out, cmd_sn)
          BY <1>3, <3>1, <4>1, CommandsConcat
        <4> QED
          BY <1>1, <3>3, <4>2
      <3> QED
        BY <1>6, <3>2, <3>3
    <2>3. CASE istage # "up"
      <3>1. istage = "logout" => pdu.op # "login"
        BY <1>4 DEF CoreInv, StageInv
      <3>2. istage = "login" /\ rx' = rx
        <4>1. istage \in {"login", "logout"}
          BY <1>1, <2>3 DEF CoreInv, StageInv
        <4> QED
          BY <1>6, <2>3, <3>1, <4>1
      <3>3. rx' = <<>> /\ exp_cmd_sn' = cmd_sn'
        BY <1>1, <1>3, <3>2 DEF CoreInv, StageInv
      <3>4. <<>> \in Seq(Request) /\ \A k \in 1 .. Len(<<>>) : <<>>[k].op # "scsi"
        OBVIOUS
      <3>5. CommandsCount(cmd_sn, <<>>, cmd_sn)
        BY <2>1, <3>4, CommandsNone
      <3> QED
        BY <1>1, <3>3, <3>5
    <2> QED
      BY <2>2, <2>3
  <1> QED
    BY <1>2, <1>7, <1>9, <1>10, <1>11, <1>12 DEF CoreInv

LEMMA LoseCore == CoreInv /\ Lose => CoreInv'
  <1> SUFFICES ASSUME CoreInv, Lose PROVE CoreInv'
    OBVIOUS
  <1>1. /\ istage' = "down" /\ tasks' = [i \in Itts |-> None] /\ aborting' = {} /\ tx' = <<>>
        /\ UNCHANGED <<stage, bound, params, stat_sn, exp_cmd_sn, in_flight, disk,
                       rx, cmd_sn, max_cmd, exp_stat, used>>
    BY DEF Lose, conn
  <1>2. TargetInv'
    BY <1>1 DEF CoreInv, TargetInv, TypeOK, TargetResolved, R2tInBurst, NoR2tInLogin
  <1>3. InitiatorTypes' /\ StreamTypes'
    BY <1>1 DEF CoreInv, InitiatorTypes, StreamTypes
  <1>4. StageInv'
    BY <1>1 DEF CoreInv, StageInv
  <1> QED
    BY <1>1, <1>2, <1>3, <1>4 DEF CoreInv, SnInv, CmdInv

-----------------------------------------------------------------------------
(* The target's steps *)

LEMMA TargetCloseCore == CoreInv /\ TargetClose => CoreInv'
  <1> SUFFICES ASSUME CoreInv, TargetClose PROVE CoreInv'
    OBVIOUS
  <1>1. /\ stage' = "Closed" /\ rx' = <<>> /\ istage # "up"
        /\ UNCHANGED <<stat_sn, exp_cmd_sn, tx,
                       istage, tasks, aborting, cmd_sn, max_cmd, exp_stat, used>>
    <2>1. stage = "Closing" => istage # "up"
      BY DEF CoreInv, StageInv
    <2> QED
      BY <2>1 DEF TargetClose, EndConnection
  <1>2. TargetInv'
    BY TransportInv DEF CoreInv, TargetClose
  <1>3. InitiatorTypes' /\ StreamTypes'
    BY <1>1 DEF CoreInv, InitiatorTypes, StreamTypes, Tagged
  <1>4. istage # "down" => stage = "Closing"
    BY DEF TargetClose
  <1>5. StageInv'
    <2>1. istage = "login" => /\ stage = "Closing" /\ exp_cmd_sn = FirstSn
                              /\ cmd_sn = FirstSn /\ exp_stat = FirstSn
                              /\ Len(tx) = 1 /\ tx[1].op = "login" /\ tx[1].body.code # "transit"
      BY <1>4 DEF CoreInv, StageInv
    <2>2. istage = "logout" => \A k \in 1 .. Len(tx) : tx[k].op # "login"
      BY DEF CoreInv, StageInv
    <2>3. istage \in {"down", "login", "logout"}
          /\ (istage # "up" => aborting = {} /\ \A i \in Itts : tasks[i] = None)
      BY <1>1 DEF CoreInv, StageInv
    <2> QED
      BY <1>1, <2>1, <2>2, <2>3 DEF StageInv
  <1>6. SnInv'
    BY <1>1, <1>4 DEF CoreInv, SnInv
  <1> QED
    BY <1>1, <1>2, <1>3, <1>5, <1>6 DEF CoreInv, CmdInv

LEMMA TargetStepCore == CoreInv /\ TargetStep => CoreInv'
  <1> SUFFICES ASSUME CoreInv, TargetStep PROVE CoreInv'
    OBVIOUS
  <1> DEFINE x == Head(rx)
  <1>1. /\ rx # <<>> /\ Handle(x) /\ rx' = Tail(rx)
        /\ UNCHANGED <<istage, tasks, aborting, cmd_sn, max_cmd, exp_stat, used>>
    BY DEF TargetStep
  <1>2. rx \in Seq(Request)
    BY DEF CoreInv, StreamTypes
  <1>3. /\ rx' \in Seq(Request) /\ Len(rx') = Len(rx) - 1 /\ Len(rx) \in Nat \ {0}
        /\ \A k \in 1 .. Len(rx') : k + 1 \in 1 .. Len(rx) /\ rx'[k] = rx[k + 1]
        /\ x = rx[1] /\ 1 \in 1 .. Len(rx)
    BY <1>1, <1>2, TailElems
  <1>4. x \in Request /\ x.op \in SessionOps
    BY <1>2, <1>3 DEF CoreInv, StreamTypes
  <1> HIDE DEF x
  <1>5. TargetInv'
    <2>1. ~HandleMalformed(x)
      BY <1>4 DEF HandleMalformed, SessionOps
    <2> QED
      BY <1>1, <1>4, <2>1, LoginInv, ScsiInv, DataOutInv, OtherInv DEF CoreInv, Handle
  <1>6. InitiatorTypes'
    BY <1>1 DEF CoreInv, InitiatorTypes
  <1>7. stage \in {"Login", "FullFeature"}
    BY <1>1, <1>4 DEF Handle, HandleLogin, WrongStage, HandleScsiCommand, HandleDataOut,
                      HandleOther, HandleLogout, HandleMalformed
  <1>8. CASE stage = "Login"
    <2>1. rx = <<LoginPdu>> /\ tx = <<>> /\ stat_sn = 0
      BY <1>8 DEF CoreInv, StageInv
    <2>2. x = LoginPdu /\ x.op = "login" /\ rx' = <<>>
      BY <1>1, <1>3, <2>1 DEF LoginPdu
    <2>3. HandleLogin(x)
      BY <1>1, <1>8, <2>2 DEF Handle, WrongStage, HandleScsiCommand, HandleDataOut,
                      HandleOther, HandleLogout, HandleMalformed
    <2>4. /\ x.cmd_sn = FirstSn /\ x.exp_stat_sn = FirstSn /\ x.transit /\ x.nsg = 3
      BY <2>2 DEF LoginPdu
    <2>5. /\ exp_cmd_sn' = FirstSn /\ stat_sn' = (FirstSn + 1) % SnMod
      BY <2>1, <2>3, <2>4 DEF HandleLogin
    <2>6. PICK code \in {"failed", "transit"} :
             /\ tx' = Append(tx, Pdu("login", None, FirstSn, FirstSn, Code(code)))
             /\ stage' = IF code = "transit" THEN "FullFeature" ELSE "Closing"
      BY <2>1, <2>3, <2>4 DEF HandleLogin
    <2> DEFINE p == Pdu("login", None, FirstSn, FirstSn, Code(code))
    <2>7. tx' = <<p>> /\ Len(tx') = 1 /\ tx'[1] = p
      BY <2>1, <2>6
    <2>8. /\ p.op = "login" /\ p.body.code = code /\ p.stat_sn = FirstSn
          /\ p.max_cmd_sn = MaxCmdSn(FirstSn)
      BY PduFields DEF Code
    <2> HIDE DEF p
    <2>9. StreamTypes'
      BY <2>2, <2>7, <2>8 DEF StreamTypes, Tagged
    <2>10. istage \in {"down", "login"} /\ (istage = "login" => cmd_sn = FirstSn /\ exp_stat = FirstSn)
           /\ (istage # "up" => aborting = {} /\ \A i \in Itts : tasks[i] = None)
      BY <1>8 DEF CoreInv, StageInv
    <2>11. StageInv'
      BY <1>1, <2>2, <2>5, <2>6, <2>7, <2>8, <2>10 DEF StageInv
    <2>12. NextStat(p) = (FirstSn + 1) % SnMod
      BY <2>8 DEF NextStat, TakesStatSn
    <2>13. SnInv'
      BY <1>1, <2>5, <2>7, <2>8, <2>10, <2>12 DEF SnInv, Counts, StatAfter, LastMax
    <2> QED
      BY <1>1, <1>5, <1>6, <2>9, <2>10, <2>11, <2>13 DEF CoreInv, CmdInv
  <1>9. CASE stage = "FullFeature"
    <2>1. x.op # "login" /\ TypeOK /\ TargetResolved
      BY <1>3, <1>9 DEF CoreInv, StageInv, TargetInv
    <2>2. /\ exp_cmd_sn' = IF x.op = "scsi" THEN (exp_cmd_sn + 1) % SnMod ELSE exp_cmd_sn
          /\ stage' = IF x.op = "logout" THEN "Closing" ELSE stage
      BY <1>1, <1>4, <1>9, <2>1, RequestAnswered
    <2>3. PICK out : Answer(x, out)
      BY <1>1, <1>4, <1>9, <2>1, RequestAnswered
    <2>4. /\ out \in Seq(Response) /\ out # <<>> /\ tx' = tx \o out /\ tx \in Seq(Response)
          /\ Counts(stat_sn, out, stat_sn') /\ out[Len(out)].max_cmd_sn = MaxCmdSn(exp_cmd_sn')
          /\ \A k \in 1 .. Len(out) :
                Tagged(out[k]) /\ out[k].op # "login" /\ (out[k].op = "logout" => x.op = "logout")
      BY <2>1, <2>3 DEF Answer, TypeOK
    <2>5. \A k \in 1 .. Len(tx') :
              (k \in 1 .. Len(tx) /\ tx'[k] = tx[k]) \/ \E j \in 1 .. Len(out) : tx'[k] = out[j]
      BY <2>4, ConcatElems
    <2>6. StreamTypes'
      BY <1>3, <2>4, <2>5 DEF CoreInv, StreamTypes
    <2>7. StageInv'
      <3>1. istage = "login" => rx = <<>>
        BY <1>9 DEF CoreInv, StageInv
      <3>2. /\ istage \in {"down", "up", "logout"} /\ stage' \in {"FullFeature", "Closing"}
            /\ istage # "up" => aborting = {} /\ \A i \in Itts : tasks[i] = None
        BY <1>1, <1>9, <2>2, <3>1 DEF CoreInv, StageInv
      <3>3. \A k \in 1 .. Len(rx') : rx'[k].op # "login"
        BY <1>3, <1>9 DEF CoreInv, StageInv
      <3>4. istage = "up" => /\ x.op # "logout" /\ stage' = "FullFeature"
                             /\ \A k \in 1 .. Len(rx') : rx'[k].op # "logout"
                             /\ \A k \in 1 .. Len(tx') : tx'[k].op \notin {"login", "logout"}
        BY <1>3, <1>9, <2>2, <2>4, <2>5 DEF CoreInv, StageInv
      <3>5. istage = "logout" => \A k \in 1 .. Len(tx') : tx'[k].op # "login"
        BY <2>4, <2>5 DEF CoreInv, StageInv
      <3> QED
        BY <1>1, <3>2, <3>3, <3>4, <3>5 DEF StageInv
    <2>8. SnInv'
      <3> SUFFICES ASSUME istage # "down"
                   PROVE  Counts(exp_stat, tx', stat_sn') /\ LastMax(max_cmd, tx') = MaxCmdSn(exp_cmd_sn')
        BY <1>1 DEF SnInv
      <3>1. Counts(exp_stat, tx, stat_sn)
        BY <1>9 DEF CoreInv, SnInv
      <3>2. Counts(exp_stat, tx \o out, stat_sn')
        BY <2>4, <3>1, CountsConcat
      <3>3. LastMax(max_cmd, tx \o out) = out[Len(out)].max_cmd_sn
        BY <2>4, LastMaxConcat
      <3> QED
        BY <2>4, <3>2, <3>3
    <2>9. CmdInv'
      <3> SUFFICES ASSUME NopImmediate, istage = "up"
                   PROVE  CommandsCount(exp_cmd_sn', rx', cmd_sn)
        BY <1>1 DEF CmdInv
      <3>1. CommandsCount(exp_cmd_sn, rx, cmd_sn)
        BY DEF CoreInv, CmdInv
      <3> QED
        BY <1>1, <1>2, <1>3, <2>2, <3>1, CommandsTail
    <2> QED
      BY <1>5, <1>6, <2>6, <2>7, <2>8, <2>9 DEF CoreInv
  <1> QED
    BY <1>7, <1>8, <1>9

LEMMA CoreNext == CoreInv /\ [SessionNext]_allvars => CoreInv'
  <1> SUFFICES ASSUME CoreInv, [SessionNext]_allvars PROVE CoreInv'
    OBVIOUS
  <1>1. CASE UNCHANGED allvars
    <2>1. UNCHANGED <<vars, rx, istage, tasks, aborting, cmd_sn, max_cmd, exp_stat, used>>
      BY <1>1 DEF allvars, initiator
    <2>2. TargetInv'
      BY <2>1, TargetNext DEF CoreInv
    <2>3. UNCHANGED <<stage, stat_sn, exp_cmd_sn, tx>>
      BY <2>1 DEF vars
    <2> QED
      BY <2>1, <2>2, <2>3 DEF CoreInv, InitiatorTypes, StreamTypes, Tagged, StageInv, SnInv, CmdInv
  <1> QED
    BY <1>1, ConnectCore, InitiatorStepCore, SendOtherCore, ReceiveCore, LoseCore,
       TargetStepCore, TargetCloseCore DEF SessionNext

LEMMA CoreInvariant == SessionSpec => []CoreInv
  BY CoreInit, CoreNext, PTL DEF SessionSpec

\* "stat_sn increments once per response-bearing PDU we send" (session and
\* transport design, section 4): every response carries the StatSN the
\* initiator expects next, whatever commands, aborts and lost connections led
\* to it.
THEOREM StatSnAlwaysInOrder == SessionSpec => []StatSnInOrder
  <1>1. CoreInv => StatSnInOrder
    <2> SUFFICES ASSUME CoreInv, istage # "down", tx # <<>> PROVE Head(tx).stat_sn = exp_stat
      BY DEF StatSnInOrder
    <2>1. tx \in Seq(Response) /\ stage # "Login"
      BY DEF CoreInv, TargetInv, TypeOK, StageInv
    <2>2. Counts(exp_stat, tx, stat_sn)
      BY <2>1 DEF CoreInv, SnInv
    <2> QED
      BY <2>1, <2>2, CountsTail
  <1> QED
    BY <1>1, CoreInvariant, PTL

\* "We advertise max_cmd_sn = exp_cmd_sn + QUEUE_DEPTH so the initiator may
\* keep issuing commands" (section 4): with Nop-Outs sent for immediate
\* delivery the window admits a command whenever all is answered.
THEOREM WindowAlwaysOpens == ASSUME NopImmediate PROVE SessionSpec => []WindowOpenAtRest
  <1>1. CoreInv => WindowOpenAtRest
    <2> SUFFICES ASSUME CoreInv, istage = "up", rx = <<>>, tx = <<>> PROVE WindowOpen
      BY DEF WindowOpenAtRest
    <2>1. max_cmd = MaxCmdSn(exp_cmd_sn)
      BY DEF CoreInv, StageInv, SnInv, LastMax
    <2>2. exp_cmd_sn = cmd_sn
      BY DEF CoreInv, CmdInv, CommandsCount
    <2>3. cmd_sn \in Nat /\ cmd_sn < SnMod /\ SnMod \in Nat /\ SnMod > 1
          /\ QueueDepth \in Nat /\ QueueDepth < SnMod \div 2 /\ SnMod \div 2 < SnMod
      BY SnAssumption, WindowAssumption DEF CoreInv, InitiatorTypes, Sn
    <2>4. max_cmd = IF cmd_sn + QueueDepth < SnMod THEN cmd_sn + QueueDepth
                    ELSE cmd_sn + QueueDepth - SnMod
      BY <2>1, <2>2, <2>3 DEF MaxCmdSn
    <2>5. (max_cmd - cmd_sn + SnMod) % SnMod = QueueDepth
      BY <2>3, <2>4
    <2> QED
      BY <2>3, <2>5 DEF WindowOpen
  <1> QED
    BY <1>1, CoreInvariant, PTL

-----------------------------------------------------------------------------
(* Part 3.  The commands on their way.  Every command that is neither        *)
(* answered nor given up is pursued: its PDU is in rx, its write waits for   *)
(* data that is asked for or sent, or its answer is in tx.  Of a write that  *)
(* is gathered exactly, either the Data-Out PDUs in rx continue what has     *)
(* been received up to the end of the buffer (those of later R2Ts come when  *)
(* the write is complete and are rejected), or it is gathered one R2T and    *)
(* one PDU at a time.                                                        *)

\* A PDU that belongs to a command, and one that ends it or begins it.
Work(p) == p.op \in {"scsi", "dataout", "r2t", "datain"}

Final(p) == p.op = "scsi" \/ (p.op = "datain" /\ p.body.final)

Abort(p) == p.op = "tmf"

\* b may not follow a in a stream.
Clash(a, b) ==
    /\ a.itt = b.itt
    /\ \/ Final(a) /\ b.op \in {"scsi", "r2t", "datain"}
       \/ a.op = "scsi" /\ b.op = "dataout"
       \/ Abort(a) /\ (Work(b) \/ Abort(b))

\* The response a and the request b may not be on their way together.
Crosses(a, b) ==
    /\ a.itt = b.itt
    /\ \/ (Final(a) \/ a.op = "r2t") /\ b.op = "scsi"
       \/ Abort(a) /\ (Work(b) \/ Abort(b))

Ordered(s) == \A k \in 1 .. Len(s) : \A j \in 1 .. k - 1 : ~Clash(s[j], s[k])

Ahead(s, t) == \A j \in 1 .. Len(s) : \A k \in 1 .. Len(t) : ~Clash(s[j], t[k])

Apart(s, t) == \A j \in 1 .. Len(s) : \A k \in 1 .. Len(t) : ~Crosses(s[j], t[k])

\* A command as the initiator issues it.
IssuedRead(c) == c.cdb = "read" /\ c.read /\ ~c.write /\ c.data = <<>>

IssuedWrite(c) == c.cdb = "write" /\ ~c.read /\ c.write /\ Len(c.data) <= c.edtl

Issued(c) ==
    /\ c \in ScsiCommand
    /\ c.edtl = c.blocks /\ c.blocks > 0 /\ InRange(c)
    /\ IssuedRead(c) \/ IssuedWrite(c)

\* What may be on its way for cell l under tag i: what the task leaves there,
\* and after the connection is lost anything the initiator may find there.
Sent(i, l) == IF istage = "down" THEN may[l] ELSE tasks[i].after

\* c is the command of the task under tag i.
Of(i, c) ==
    istage # "down" =>
        tasks[i] # None /\ tasks[i].op = c.cdb /\ tasks[i].lba = c.lba /\ tasks[i].n = c.blocks

\* The write command c carries data of the task, and after is what that leaves.
CarriesOf(i, c) ==
    /\ \A j \in 1 .. Len(c.data) : c.data[j] \in Sent(i, c.lba + j - 1)
    /\ istage # "down" =>
          tasks[i].after = After(tasks[i].val, c.edtl - Len(c.data), tasks[i].seg)

RxOk(x) ==
    /\ x.op = "tmf" /\ istage # "down" => x.itt \in aborting
    /\ x.op = "scsi" =>
          Issued(x) /\ Of(x.itt, x) /\ (x.cdb = "write" => CarriesOf(x.itt, x))

\* A Data-In PDU of the read task.
ReadOk(d, task) ==
    /\ d \in [final : BOOLEAN, off : Nat, data : Seq(Val \cup {Blank})]
    /\ d.off + Len(d.data) <= task.n
    /\ \A k \in 1 .. Len(d.data) : d.data[k] \in may[task.lba + d.off + k - 1]
    /\ d.final => d.off + Len(d.data) = task.n

StoredOf(task) == \A l \in Cells(task) : disk[l] \in task.after

TxOk(p) ==
    /\ p.op = "tmf" => p.itt \in aborting
    /\ p.op \in {"scsi", "datain", "r2t"} => tasks[p.itt] # None
    /\ p.op = "scsi" =>
          /\ p.body.code \in {"good", "check"}
          /\ tasks[p.itt].op = "write" /\ p.body.code = "good" => StoredOf(tasks[p.itt])
    /\ p.op = "datain" => tasks[p.itt].op = "read" /\ ReadOk(p.body, tasks[p.itt])
    /\ p.op = "r2t" =>
          /\ tasks[p.itt].op = "write"
          /\ p.body.len > 0 /\ p.body.off + p.body.len <= tasks[p.itt].n

\* The pending writes of n cells.
Pending(n) == [cmd : ScsiCommand, buf : [0 .. n - 1 -> Val \cup {Blank}], received : Nat]

FlightOk ==
    \A i \in Itts : in_flight[i] # None =>
        LET c == in_flight[i].cmd
        IN  /\ in_flight[i] \in Pending(c.edtl)
            /\ Issued(c) /\ IssuedWrite(c) /\ c.itt = i

\* The status of the command under tag i is on its way; its PDU is; its answer is.
Settled(i) == \E k \in 1 .. Len(tx) : tx[k].op = "scsi" /\ tx[k].itt = i

Waiting(i) == \E k \in 1 .. Len(rx) : rx[k].op = "scsi" /\ rx[k].itt = i

Answered(i) == \E k \in 1 .. Len(tx) : Final(tx[k]) /\ tx[k].itt = i

\* Data is on its way under tag i, or asked for.
DataOf(x, i) == x.op = "dataout" /\ x.itt = i

AskOf(p, i) == p.op = "r2t" /\ p.itt = i

Sending(i) == \E k \in 1 .. Len(rx) : DataOf(rx[k], i)

Asked(i) == istage # "down" /\ \E k \in 1 .. Len(tx) : AskOf(tx[k], i)

TaskInv ==
    /\ may \in [Lbas -> SUBSET Content]
    /\ \A i \in Itts : tasks[i] # None =>
          tasks[i] \in ReadTask \cup WriteTask /\ Cells(tasks[i]) \subseteq Lbas
    /\ \A i, j \in Itts :
          i # j /\ tasks[i] # None /\ tasks[j] # None => Cells(tasks[i]) \cap Cells(tasks[j]) = {}
    /\ \A i \in Itts : tasks[i] # None /\ tasks[i].op = "write" =>
          /\ tasks[i].val \in tasks[i].after
          /\ \A l \in Cells(tasks[i]) : tasks[i].after \subseteq may[l]
          /\ ~Settled(i) => \A l \in Cells(tasks[i]) : disk[l] \in tasks[i].before[l]

BurstInv ==
    /\ stage = "Login" => params.burst = DefaultBurst
    /\ stage = "FullFeature" => params.burst = Burst

RxInv == Ordered(rx) /\ \A k \in 1 .. Len(rx) : RxOk(rx[k])

TxInv ==
    istage # "down" =>
        Ordered(tx) /\ Apart(tx, rx) /\ \A k \in 1 .. Len(tx) : TxOk(tx[k])

\* Where the data of a Data-Out PDU ends.
DataEnd(d) == d.off + Len(d.data)

\* The Data-Out PDUs of tag i in s continue each other from `from` on, until
\* one ends at n.
Chain(s, i, from, n) ==
    \A j \in 1 .. Len(s) : DataOf(s[j], i) =>
        \/ \E m \in 1 .. j - 1 : DataOf(s[m], i) /\ DataEnd(s[m]) = n
        \/ /\ \A m \in 1 .. j - 1 : DataOf(s[m], i) => DataEnd(s[m]) <= s[j].off
           /\ \/ s[j].off = from
              \/ \E m \in 1 .. j - 1 : DataOf(s[m], i) /\ DataEnd(s[m]) = s[j].off

\* The Data-Out PDU d carries data of the command c.
PartOf(i, c, d) ==
    /\ d.off + Len(d.data) <= c.edtl
    /\ \A j \in 1 .. Len(d.data) : d.data[j] \in Sent(i, c.lba + d.off + j - 1)

\* The write w may be stored as it is: blanks may be found in its cells.
Scattered(i, w) ==
    \A y \in 0 .. w.cmd.edtl - 1 :
        Blank \in Sent(i, w.cmd.lba + y) /\ w.buf[y] \in Sent(i, w.cmd.lba + y)

Filled(i, w) == \A y \in 0 .. w.received - 1 : w.buf[y] \in Sent(i, w.cmd.lba + y)

\* The data up to the end of the buffer is on its way.
Finishing(i, w) == \E k \in 1 .. Len(rx) : DataOf(rx[k], i) /\ DataEnd(rx[k]) = w.cmd.edtl

\* One R2T asks for what follows, and nothing else is on its way.
NextAsk(w) == Smaller(w.cmd.edtl - w.received, Burst)

Once(s, i) == \A j, k \in 1 .. Len(s) : AskOf(s[j], i) /\ AskOf(s[k], i) => j = k

OneAsked(i, w) ==
    /\ ~Sending(i) /\ Once(tx, i)
    /\ \A k \in 1 .. Len(tx) : AskOf(tx[k], i) =>
          tx[k].body.off = w.received /\ tx[k].body.len = NextAsk(w)

\* One PDU carries a burst, and nothing else is on its way.
OneSent(i, w) ==
    /\ ~Asked(i) /\ Burst <= tasks[i].seg
    /\ \A k \in 1 .. Len(rx) : DataOf(rx[k], i) =>
          rx[k].off = w.received /\ Len(rx[k].data) > 0 /\ DataEnd(rx[k]) < w.cmd.edtl

InOrder(i, w) ==
    /\ Filled(i, w)
    /\ Chain(rx, i, w.received, w.cmd.edtl)
    /\ istage # "down" =>
          /\ Exact(w.cmd.edtl - w.received, tasks[i].seg)
          /\ Finishing(i, w) \/ OneAsked(i, w) \/ OneSent(i, w)

\* The pending write w belongs to the task under tag i.
Held(i, w) ==
    /\ Of(i, w.cmd) /\ ~Waiting(i)
    /\ istage # "down" => ~Settled(i)
    /\ \A k \in 1 .. Len(rx) : DataOf(rx[k], i) => PartOf(i, w.cmd, rx[k])
    /\ Scattered(i, w) \/ InOrder(i, w)

LiveOk(i) == in_flight[i] # None /\ (Sending(i) \/ Asked(i)) => Held(i, in_flight[i])

LiveInv == \A i \in Itts : LiveOk(i)

\* The command under tag i goes on.
Pursued(i) ==
    \/ Waiting(i)
    \/ Answered(i)
    \/ in_flight[i] # None /\ (Sending(i) \/ Asked(i))

PursuedOk(i) == istage = "up" /\ tasks[i] # None /\ i \notin aborting => Pursued(i)

PursuedInv == \A i \in Itts : PursuedOk(i)

\* The inductive invariant of the commands, on top of CoreInv.
FlowInv ==
    /\ StoredAsAcknowledged /\ TaskInv /\ FlightOk /\ BurstInv /\ RxInv /\ TxInv
    /\ LiveInv /\ PursuedInv

LEMMA ClashNeeds ==
    ASSUME NEW a, NEW b, Clash(a, b)
    PROVE  /\ a.itt = b.itt
           /\ Final(a) \/ Abort(a)
           /\ Work(b) \/ Abort(b)
  BY DEF Clash, Final, Work

LEMMA CrossNeeds ==
    ASSUME NEW a, NEW b, Crosses(a, b)
    PROVE  /\ a.itt = b.itt
           /\ Final(a) \/ a.op = "r2t" \/ Abort(a)
           /\ Work(b) \/ Abort(b)
  BY DEF Crosses, Final, Work

LEMMA OrderedTail ==
    ASSUME NEW R, NEW s \in Seq(R), s # <<>>, Ordered(s)
    PROVE  /\ Ordered(Tail(s))
           /\ \A k \in 1 .. Len(Tail(s)) : ~Clash(s[1], Tail(s)[k])
  <1> DEFINE t == Tail(s)
  <1>1. /\ Len(s) \in Nat \ {0} /\ Len(t) = Len(s) - 1
        /\ \A k \in 1 .. Len(t) : k + 1 \in 1 .. Len(s) /\ t[k] = s[k + 1]
    BY TailElems
  <1> HIDE DEF t
  <1>2. ASSUME NEW k \in 1 .. Len(t), NEW j \in 1 .. k - 1 PROVE ~Clash(t[j], t[k])
    <2>1. /\ k + 1 \in 1 .. Len(s) /\ j + 1 \in 1 .. (k + 1) - 1 /\ j \in 1 .. Len(t)
      BY <1>1
    <2>2. t[k] = s[k + 1] /\ t[j] = s[j + 1]
      BY <1>1, <2>1
    <2> QED
      BY <2>1, <2>2 DEF Ordered
  <1>3. ASSUME NEW k \in 1 .. Len(t) PROVE ~Clash(s[1], t[k])
    <2>1. k + 1 \in 1 .. Len(s) /\ 1 \in 1 .. (k + 1) - 1 /\ t[k] = s[k + 1]
      BY <1>1
    <2> QED
      BY <2>1 DEF Ordered
  <1> QED
    BY <1>2, <1>3 DEF Ordered, t

LEMMA OrderedConcat ==
    ASSUME NEW R, NEW s \in Seq(R), NEW t \in Seq(R), Ordered(s), Ordered(t), Ahead(s, t)
    PROVE  Ordered(s \o t)
  <1> DEFINE u == s \o t
  <1>1. /\ Len(u) = Len(s) + Len(t) /\ Len(s) \in Nat /\ Len(t) \in Nat
        /\ \A k \in 1 .. Len(s) : u[k] = s[k]
        /\ \A k \in 1 .. Len(t) : u[k + Len(s)] = t[k]
    OBVIOUS
  <1> HIDE DEF u
  <1>2. \A k \in 1 .. Len(u) : k > Len(s) => k - Len(s) \in 1 .. Len(t) /\ u[k] = t[k - Len(s)]
    <2> SUFFICES ASSUME NEW k \in 1 .. Len(u), k > Len(s)
                 PROVE  k - Len(s) \in 1 .. Len(t) /\ u[k] = t[k - Len(s)]
      OBVIOUS
    <2> DEFINE j == k - Len(s)
    <2>1. j \in 1 .. Len(t) /\ k = j + Len(s)
      BY <1>1
    <2> HIDE DEF j
    <2>2. u[k] = t[j]
      BY <1>1, <2>1
    <2> QED
      BY <2>1, <2>2 DEF j
  <1>3. ASSUME NEW k \in 1 .. Len(u), NEW j \in 1 .. k - 1 PROVE ~Clash(u[j], u[k])
    <2>1. j \in 1 .. Len(u)
      BY <1>1
    <2>2. CASE k <= Len(s)
      <3>1. k \in 1 .. Len(s) /\ j \in 1 .. Len(s)
        BY <1>1, <2>2
      <3> QED
        BY <1>1, <3>1 DEF Ordered
    <2>3. CASE k > Len(s) /\ j <= Len(s)
      <3>1. j \in 1 .. Len(s) /\ u[j] = s[j]
        BY <1>1, <2>3
      <3> QED
        BY <1>2, <2>3, <3>1 DEF Ahead
    <2>4. CASE k > Len(s) /\ j > Len(s)
      <3> DEFINE a == j - Len(s)
                 b == k - Len(s)
      <3>1. a \in 1 .. b - 1 /\ b \in 1 .. Len(t) /\ u[j] = t[a] /\ u[k] = t[b]
        BY <1>1, <1>2, <2>1, <2>4
      <3> HIDE DEF a, b
      <3> QED
        BY <3>1 DEF Ordered
    <2> QED
      BY <1>1, <2>1, <2>2, <2>3, <2>4
  <1> QED
    BY <1>3 DEF Ordered, u

LEMMA OrderedOne == ASSUME NEW p PROVE Ordered(<<p>>)
  <1>1. Len(<<p>>) = 1 /\ \A k \in 1 .. 1 : 1 .. k - 1 = {}
    OBVIOUS
  <1> QED
    BY <1>1 DEF Ordered

\* The tags of what belongs to a command.
LEMMA RequestTag ==
    ASSUME NEW x \in Request
    PROVE  /\ Work(x) \/ Abort(x) => x.itt \in Itts
           /\ x.op = "scsi" => x \in ScsiCommand
           /\ x.op = "dataout" => x \in DataOut /\ x.off \in Nat /\ Len(x.data) \in Nat
           /\ Work(x) => x.op \in {"scsi", "dataout"}
  BY DEF Work, Abort, Request, LoginRequest, ScsiCommand, DataOut, OtherRequest

LEMMA ResponseTag ==
    ASSUME NEW p \in Response, Tagged(p)
    PROVE  /\ Work(p) \/ Abort(p) => p.itt \in Itts
           /\ Work(p) => p.op \in {"scsi", "datain", "r2t"}
           /\ Final(p) => Work(p)
           /\ p.op = "r2t" => p.body \in [off : Nat, len : Nat]
  BY DEF Work, Final, Abort, Response, Tagged

\* While a task is outstanding the session is up.
LEMMA TaskUp ==
    ASSUME CoreInv, NEW i \in Itts, tasks[i] # None \/ i \in aborting
    PROVE  istage = "up" /\ stage = "FullFeature"
  BY DEF CoreInv, StageInv

\* What belongs to a command on its way belongs to an outstanding task.
LEMMA TxOwner ==
    ASSUME NEW p, TxOk(p)
    PROVE  /\ Work(p) /\ p.op # "dataout" => tasks[p.itt] # None
           /\ Abort(p) => p.itt \in aborting
  BY DEF Work, Abort, TxOk

LEMMA RxOwner ==
    ASSUME NEW x, RxOk(x), istage # "down"
    PROVE  /\ x.op = "scsi" => tasks[x.itt] # None
           /\ Abort(x) => x.itt \in aborting
  BY DEF Abort, RxOk, Of

\* A pending write for which data is on its way belongs to a task.
LEMMA LiveOwner ==
    ASSUME NEW i, LiveOk(i), in_flight[i] # None, Sending(i) \/ Asked(i), istage # "down"
    PROVE  tasks[i] # None /\ tasks[i].op = in_flight[i].cmd.cdb
  BY DEF LiveOk, Held, Of

-----------------------------------------------------------------------------
(* How a step changes what is on its way under a tag *)

\* rx loses and gains nothing that counts for tag i.
RxLike(i) ==
    /\ \A k \in 1 .. Len(rx') : DataOf(rx'[k], i) => \E j \in 1 .. Len(rx) : rx[j] = rx'[k]
    /\ \A k \in 1 .. Len(rx) : DataOf(rx[k], i) => \E j \in 1 .. Len(rx') : rx'[j] = rx[k]
    /\ \A from, n : Chain(rx, i, from, n) => Chain(rx', i, from, n)
    /\ Waiting(i)' <=> Waiting(i)

\* tx gains nothing that counts for tag i.
TxLike(i) ==
    /\ \A k \in 1 .. Len(tx') : AskOf(tx'[k], i) => \E j \in 1 .. Len(tx) : tx[j] = tx'[k]
    /\ Once(tx, i) => Once(tx', i)
    /\ Settled(i)' => Settled(i)

LEMMA RxSame == ASSUME NEW i, rx' = rx PROVE RxLike(i)
  BY DEF RxLike, Waiting

LEMMA TxSame == ASSUME NEW i, tx' = tx PROVE TxLike(i)
  BY DEF TxLike, Settled

\* The elements of s \o t.
LEMMA ConcatIndex ==
    ASSUME NEW R, NEW s \in Seq(R), NEW t \in Seq(R), NEW u, u = s \o t
    PROVE  /\ Len(u) = Len(s) + Len(t) /\ Len(s) \in Nat /\ Len(t) \in Nat
           /\ \A k \in 1 .. Len(s) : k \in 1 .. Len(u) /\ u[k] = s[k]
           /\ \A k \in 1 .. Len(t) : k + Len(s) \in 1 .. Len(u) /\ u[k + Len(s)] = t[k]
           /\ \A k \in 1 .. Len(u) : k <= Len(s) \/ (k - Len(s) \in 1 .. Len(t) /\ u[k] = t[k - Len(s)])
  <1>1. /\ Len(u) = Len(s) + Len(t) /\ Len(s) \in Nat /\ Len(t) \in Nat
        /\ \A k \in 1 .. Len(s) : u[k] = s[k]
        /\ \A k \in 1 .. Len(t) : u[k + Len(s)] = t[k]
    OBVIOUS
  <1>2. ASSUME NEW k \in 1 .. Len(u), ~(k <= Len(s))
        PROVE  k - Len(s) \in 1 .. Len(t) /\ u[k] = t[k - Len(s)]
    <2>1. PICK j : j = k - Len(s)
      OBVIOUS
    <2>2. j \in 1 .. Len(t) /\ k = j + Len(s)
      BY <1>1, <1>2, <2>1
    <2>3. u[k] = t[j]
      BY <1>1, <2>2
    <2> QED
      BY <2>1, <2>2, <2>3
  <1> QED
    BY <1>1, <1>2

\* What follows a chain, or comes before one, does not break it.
LEMMA ChainConcat ==
    ASSUME NEW R, NEW s \in Seq(R), NEW t \in Seq(R), NEW i, NEW from, NEW n,
           \/ /\ Chain(s, i, from, n)
              /\ \/ \A k \in 1 .. Len(t) : ~DataOf(t[k], i)
                 \/ \E m \in 1 .. Len(s) : DataOf(s[m], i) /\ DataEnd(s[m]) = n
           \/ Chain(t, i, from, n) /\ \A k \in 1 .. Len(s) : ~DataOf(s[k], i)
    PROVE  Chain(s \o t, i, from, n)
  <1>1. PICK u : u = s \o t
    OBVIOUS
  <1>2. /\ Len(u) = Len(s) + Len(t) /\ Len(s) \in Nat /\ Len(t) \in Nat
        /\ \A k \in 1 .. Len(s) : k \in 1 .. Len(u) /\ u[k] = s[k]
        /\ \A k \in 1 .. Len(t) : k + Len(s) \in 1 .. Len(u) /\ u[k + Len(s)] = t[k]
        /\ \A k \in 1 .. Len(u) : k <= Len(s) \/ (k - Len(s) \in 1 .. Len(t) /\ u[k] = t[k - Len(s)])
    BY <1>1, ConcatIndex
  <1>3. CASE /\ Chain(s, i, from, n)
             /\ \/ \A k \in 1 .. Len(t) : ~DataOf(t[k], i)
                \/ \E m \in 1 .. Len(s) : DataOf(s[m], i) /\ DataEnd(s[m]) = n
    <2>1. ASSUME NEW j \in 1 .. Len(u), DataOf(u[j], i), j <= Len(s)
          PROVE  \/ \E m \in 1 .. j - 1 : DataOf(u[m], i) /\ DataEnd(u[m]) = n
                 \/ /\ \A m \in 1 .. j - 1 : DataOf(u[m], i) => DataEnd(u[m]) <= u[j].off
                    /\ \/ u[j].off = from
                       \/ \E m \in 1 .. j - 1 : DataOf(u[m], i) /\ DataEnd(u[m]) = u[j].off
      <3>1. j \in 1 .. Len(s) /\ \A m \in 1 .. j - 1 : m \in 1 .. Len(s)
        BY <1>2, <2>1
      <3>2. u[j] = s[j] /\ \A m \in 1 .. j - 1 : u[m] = s[m]
        BY <1>2, <3>1
      <3> QED
        BY <1>3, <2>1, <3>1, <3>2 DEF Chain
    <2>2. ASSUME NEW j \in 1 .. Len(u), DataOf(u[j], i), ~(j <= Len(s))
          PROVE  \E m \in 1 .. j - 1 : DataOf(u[m], i) /\ DataEnd(u[m]) = n
      <3>1. PICK q \in 1 .. Len(t) : u[j] = t[q]
        BY <1>2, <2>2
      <3>2. PICK m \in 1 .. Len(s) : DataOf(s[m], i) /\ DataEnd(s[m]) = n
        BY <1>3, <2>2, <3>1
      <3>3. m \in 1 .. j - 1 /\ u[m] = s[m]
        BY <1>2, <2>2, <3>2
      <3> QED
        BY <3>2, <3>3
    <2> QED
      BY <1>1, <2>1, <2>2 DEF Chain
  <1>4. CASE Chain(t, i, from, n) /\ \A k \in 1 .. Len(s) : ~DataOf(s[k], i)
    <2>1. ASSUME NEW j \in 1 .. Len(u), DataOf(u[j], i)
          PROVE  \/ \E m \in 1 .. j - 1 : DataOf(u[m], i) /\ DataEnd(u[m]) = n
                 \/ /\ \A m \in 1 .. j - 1 : DataOf(u[m], i) => DataEnd(u[m]) <= u[j].off
                    /\ \/ u[j].off = from
                       \/ \E m \in 1 .. j - 1 : DataOf(u[m], i) /\ DataEnd(u[m]) = u[j].off
      <3>1. PICK L, q : L = Len(s) /\ q = j - L
        OBVIOUS
      <3>2. q \in 1 .. Len(t) /\ u[j] = t[q] /\ DataOf(t[q], i) /\ L \in Nat
        BY <1>2, <1>4, <2>1, <3>1
      <3>3. ASSUME NEW m \in 1 .. q - 1 PROVE m + L \in 1 .. j - 1 /\ u[m + L] = t[m]
        <4>1. m \in 1 .. Len(t) /\ m + L \in 1 .. j - 1
          BY <3>1, <3>2, <1>2
        <4> QED
          BY <1>2, <3>1, <4>1
      <3>4. ASSUME NEW m \in 1 .. j - 1, DataOf(u[m], i)
            PROVE  \E p \in 1 .. q - 1 : u[m] = t[p] /\ DataOf(t[p], i)
        <4>1. m \in 1 .. Len(u) /\ ~(m <= Len(s))
          BY <1>2, <1>4, <3>4
        <4>2. PICK p : p = m - L
          OBVIOUS
        <4>3. p \in 1 .. Len(t) /\ u[m] = t[p] /\ p < q
          BY <1>2, <3>1, <3>2, <4>1, <4>2
        <4>4. p \in 1 .. q - 1
          BY <3>2, <4>3
        <4> QED
          BY <3>4, <4>3, <4>4
      <3>5. \/ \E m \in 1 .. q - 1 : DataOf(t[m], i) /\ DataEnd(t[m]) = n
            \/ /\ \A m \in 1 .. q - 1 : DataOf(t[m], i) => DataEnd(t[m]) <= t[q].off
               /\ \/ t[q].off = from
                  \/ \E m \in 1 .. q - 1 : DataOf(t[m], i) /\ DataEnd(t[m]) = t[q].off
        BY <1>4, <3>2 DEF Chain
      <3>6. (\E m \in 1 .. q - 1 : DataOf(t[m], i) /\ DataEnd(t[m]) = n) =>
                \E m \in 1 .. j - 1 : DataOf(u[m], i) /\ DataEnd(u[m]) = n
        BY <3>3
      <3>7. (\E m \in 1 .. q - 1 : DataOf(t[m], i) /\ DataEnd(t[m]) = t[q].off) =>
                \E m \in 1 .. j - 1 : DataOf(u[m], i) /\ DataEnd(u[m]) = u[j].off
        BY <3>2, <3>3
      <3>8. (\A m \in 1 .. q - 1 : DataOf(t[m], i) => DataEnd(t[m]) <= t[q].off) =>
                \A m \in 1 .. j - 1 : DataOf(u[m], i) => DataEnd(u[m]) <= u[j].off
        BY <3>2, <3>4
      <3> QED
        BY <3>2, <3>5, <3>6, <3>7, <3>8
    <2> QED
      BY <1>1, <2>1 DEF Chain
  <1> QED
    BY <1>3, <1>4

\* The first Data-Out PDU of a chain starts it, and the others go on from it.
LEMMA ChainTail ==
    ASSUME NEW R, NEW s \in Seq(R), s # <<>>, NEW i, NEW from, NEW n, Chain(s, i, from, n)
    PROVE  /\ DataOf(s[1], i) => s[1].off = from
           /\ ~DataOf(s[1], i) => Chain(Tail(s), i, from, n)
           /\ DataOf(s[1], i) /\ DataEnd(s[1]) # n /\ from \in Nat /\ Len(s[1].data) \in Nat =>
                 Chain(Tail(s), i, DataEnd(s[1]), n)
  <1>1. PICK t : t = Tail(s)
    OBVIOUS
  <1>2. /\ Len(s) \in Nat \ {0} /\ Len(t) = Len(s) - 1
        /\ \A k \in 1 .. Len(t) : k + 1 \in 1 .. Len(s) /\ t[k] = s[k + 1]
    BY <1>1, TailElems
  <1>3. DataOf(s[1], i) => s[1].off = from
    <2>1. 1 \in 1 .. Len(s) /\ 1 .. 1 - 1 = {}
      BY <1>2
    <2> QED
      BY <2>1 DEF Chain
  \* The PDUs before the j-th of t are those before the next one of s, but for the first.
  <1>4. ASSUME NEW j \in 1 .. Len(t), NEW q, q = j + 1
        PROVE  /\ q \in 1 .. Len(s) /\ t[j] = s[q] /\ 1 \in 1 .. q - 1
               /\ \A m \in 1 .. j - 1 : m + 1 \in 1 .. q - 1 /\ t[m] = s[m + 1]
               /\ \A m \in 1 .. q - 1 : m = 1 \/ \E p \in 1 .. j - 1 : t[p] = s[m]
    <2>1. q \in 1 .. Len(s) /\ t[j] = s[q] /\ 1 \in 1 .. q - 1
      BY <1>2, <1>4
    <2>2. \A m \in 1 .. j - 1 : m + 1 \in 1 .. q - 1 /\ t[m] = s[m + 1]
      BY <1>2, <1>4
    <2>3. ASSUME NEW m \in 1 .. q - 1, m # 1 PROVE \E p \in 1 .. j - 1 : t[p] = s[m]
      <3>1. PICK p : p = m - 1
        OBVIOUS
      <3>2. p \in 1 .. j - 1 /\ p + 1 = m
        BY <1>4, <2>3, <3>1
      <3>3. t[p] = s[m]
        BY <2>2, <3>2
      <3> QED
        BY <3>2, <3>3
    <2> QED
      BY <2>1, <2>2, <2>3
  <1>5. ASSUME ~DataOf(s[1], i) PROVE Chain(t, i, from, n)
    <2> SUFFICES ASSUME NEW j \in 1 .. Len(t), DataOf(t[j], i)
                 PROVE  \/ \E m \in 1 .. j - 1 : DataOf(t[m], i) /\ DataEnd(t[m]) = n
                        \/ /\ \A m \in 1 .. j - 1 : DataOf(t[m], i) => DataEnd(t[m]) <= t[j].off
                           /\ \/ t[j].off = from
                              \/ \E m \in 1 .. j - 1 : DataOf(t[m], i) /\ DataEnd(t[m]) = t[j].off
      BY DEF Chain
    <2>1. PICK q : q = j + 1
      OBVIOUS
    <2>2. /\ q \in 1 .. Len(s) /\ t[j] = s[q]
          /\ \A m \in 1 .. j - 1 : m + 1 \in 1 .. q - 1 /\ t[m] = s[m + 1]
          /\ \A m \in 1 .. q - 1 : m = 1 \/ \E p \in 1 .. j - 1 : t[p] = s[m]
      BY <1>4, <2>1
    <2>3. \/ \E m \in 1 .. q - 1 : DataOf(s[m], i) /\ DataEnd(s[m]) = n
          \/ /\ \A m \in 1 .. q - 1 : DataOf(s[m], i) => DataEnd(s[m]) <= s[q].off
             /\ \/ s[q].off = from
                \/ \E m \in 1 .. q - 1 : DataOf(s[m], i) /\ DataEnd(s[m]) = s[q].off
      BY <2>2 DEF Chain
    <2>4. (\E m \in 1 .. q - 1 : DataOf(s[m], i) /\ DataEnd(s[m]) = n) =>
              \E m \in 1 .. j - 1 : DataOf(t[m], i) /\ DataEnd(t[m]) = n
      BY <1>5, <2>2
    <2>5. (\E m \in 1 .. q - 1 : DataOf(s[m], i) /\ DataEnd(s[m]) = s[q].off) =>
              \E m \in 1 .. j - 1 : DataOf(t[m], i) /\ DataEnd(t[m]) = t[j].off
      BY <1>5, <2>2
    <2>6. (\A m \in 1 .. q - 1 : DataOf(s[m], i) => DataEnd(s[m]) <= s[q].off) =>
              \A m \in 1 .. j - 1 : DataOf(t[m], i) => DataEnd(t[m]) <= t[j].off
      BY <2>2
    <2> QED
      BY <2>2, <2>3, <2>4, <2>5, <2>6
  <1>6. ASSUME DataOf(s[1], i), DataEnd(s[1]) # n, from \in Nat, Len(s[1].data) \in Nat
        PROVE  Chain(t, i, DataEnd(s[1]), n)
    <2> DEFINE e == DataEnd(s[1])
    <2> SUFFICES ASSUME NEW j \in 1 .. Len(t), DataOf(t[j], i)
                 PROVE  \/ \E m \in 1 .. j - 1 : DataOf(t[m], i) /\ DataEnd(t[m]) = n
                        \/ /\ \A m \in 1 .. j - 1 : DataOf(t[m], i) => DataEnd(t[m]) <= t[j].off
                           /\ \/ t[j].off = e
                              \/ \E m \in 1 .. j - 1 : DataOf(t[m], i) /\ DataEnd(t[m]) = t[j].off
      BY DEF Chain
    <2>0. e \in Nat /\ e >= from
      BY <1>3, <1>6 DEF DataEnd
    <2>1. PICK q : q = j + 1
      OBVIOUS
    <2>2. /\ q \in 1 .. Len(s) /\ t[j] = s[q] /\ 1 \in 1 .. q - 1
          /\ \A m \in 1 .. j - 1 : m + 1 \in 1 .. q - 1 /\ t[m] = s[m + 1]
          /\ \A m \in 1 .. q - 1 : m = 1 \/ \E p \in 1 .. j - 1 : t[p] = s[m]
      BY <1>4, <2>1
    <2>3. \/ \E m \in 1 .. q - 1 : DataOf(s[m], i) /\ DataEnd(s[m]) = n
          \/ /\ \A m \in 1 .. q - 1 : DataOf(s[m], i) => DataEnd(s[m]) <= s[q].off
             /\ \/ s[q].off = from
                \/ \E m \in 1 .. q - 1 : DataOf(s[m], i) /\ DataEnd(s[m]) = s[q].off
      BY <2>2 DEF Chain
    <2>4. (\E m \in 1 .. q - 1 : DataOf(s[m], i) /\ DataEnd(s[m]) = n) =>
              \E m \in 1 .. j - 1 : DataOf(t[m], i) /\ DataEnd(t[m]) = n
      BY <1>6, <2>2
    <2>5. (\E m \in 1 .. q - 1 : DataOf(s[m], i) /\ DataEnd(s[m]) = s[q].off) =>
              \/ t[j].off = e
              \/ \E m \in 1 .. j - 1 : DataOf(t[m], i) /\ DataEnd(t[m]) = t[j].off
      BY <2>2
    <2>6. (\A m \in 1 .. q - 1 : DataOf(s[m], i) => DataEnd(s[m]) <= s[q].off) =>
              /\ \A m \in 1 .. j - 1 : DataOf(t[m], i) => DataEnd(t[m]) <= t[j].off
              /\ e <= t[j].off
      BY <1>6, <2>2
    <2>7. e <= t[j].off /\ s[q].off = from => t[j].off = e
      BY <2>0, <2>2, <1>6
    <2> HIDE DEF e
    <2> QED
      BY <2>2, <2>3, <2>4, <2>5, <2>6, <2>7
  <1> QED
    BY <1>1, <1>3, <1>5, <1>6

LEMMA RxConcat ==
    ASSUME NEW i, rx \in Seq(Request), NEW D \in Seq(Request), rx' = rx \o D,
           \A k \in 1 .. Len(D) : ~DataOf(D[k], i) /\ ~(D[k].op = "scsi" /\ D[k].itt = i)
    PROVE  RxLike(i)
  <1>1. PICK u : u = rx'
    OBVIOUS
  <1>2. /\ Len(u) = Len(rx) + Len(D) /\ Len(rx) \in Nat /\ Len(D) \in Nat
        /\ \A k \in 1 .. Len(rx) : k \in 1 .. Len(u) /\ u[k] = rx[k]
        /\ \A k \in 1 .. Len(D) : k + Len(rx) \in 1 .. Len(u) /\ u[k + Len(rx)] = D[k]
        /\ \A k \in 1 .. Len(u) : k <= Len(rx) \/ (k - Len(rx) \in 1 .. Len(D) /\ u[k] = D[k - Len(rx)])
    BY <1>1, ConcatIndex
  <1>3. \A k \in 1 .. Len(u) : k \in 1 .. Len(rx) \/ \E j \in 1 .. Len(D) : u[k] = D[j]
    BY <1>2
  <1>4. \A k \in 1 .. Len(u) : DataOf(u[k], i) => \E j \in 1 .. Len(rx) : rx[j] = u[k]
    BY <1>2, <1>3
  <1>5. \A from, n : Chain(rx, i, from, n) => Chain(u, i, from, n)
    BY <1>1, ChainConcat
  <1>6. Waiting(i)' <=> Waiting(i)
    <2>1. Waiting(i)' <=> \E k \in 1 .. Len(u) : u[k].op = "scsi" /\ u[k].itt = i
      BY <1>1 DEF Waiting
    <2> QED
      BY <1>2, <1>3, <2>1 DEF Waiting
  <1> QED
    BY <1>1, <1>2, <1>4, <1>5, <1>6 DEF RxLike

LEMMA RxTail ==
    ASSUME NEW i, rx \in Seq(Request), rx # <<>>, rx' = Tail(rx),
           ~DataOf(rx[1], i), ~(rx[1].op = "scsi" /\ rx[1].itt = i)
    PROVE  RxLike(i)
  <1>1. PICK t : t = rx'
    OBVIOUS
  <1>2. /\ Len(rx) \in Nat \ {0} /\ Len(t) = Len(rx) - 1
        /\ \A k \in 1 .. Len(t) : k + 1 \in 1 .. Len(rx) /\ t[k] = rx[k + 1]
    BY <1>1, TailElems
  <1>3. ASSUME NEW k \in 1 .. Len(rx), k # 1 PROVE \E j \in 1 .. Len(t) : t[j] = rx[k]
    <2>1. PICK j : j = k - 1
      OBVIOUS
    <2>2. j \in 1 .. Len(t) /\ j + 1 = k
      BY <1>2, <1>3, <2>1
    <2>3. t[j] = rx[k]
      BY <1>2, <2>2
    <2> QED
      BY <2>2, <2>3
  <1>4. \A from, n : Chain(rx, i, from, n) => Chain(t, i, from, n)
    BY <1>1, ChainTail
  <1>5. Waiting(i)' <=> Waiting(i)
    <2>1. Waiting(i)' <=> \E k \in 1 .. Len(t) : t[k].op = "scsi" /\ t[k].itt = i
      BY <1>1 DEF Waiting
    <2> QED
      BY <1>2, <1>3, <2>1 DEF Waiting
  <1> QED
    BY <1>1, <1>2, <1>3, <1>4, <1>5 DEF RxLike

\* What is on its way stays, except that the initiator reads the first response.
LEMMA TxTail ==
    ASSUME NEW i, tx \in Seq(Response), tx # <<>>, tx' = Tail(tx)
    PROVE  /\ TxLike(i)
           /\ ~(Final(tx[1]) /\ tx[1].itt = i) => (Answered(i) => Answered(i)')
           /\ ~AskOf(tx[1], i) /\ istage' # "down" => (Asked(i) => Asked(i)')
  <1>1. PICK t : t = tx'
    OBVIOUS
  <1>2. /\ Len(tx) \in Nat \ {0} /\ Len(t) = Len(tx) - 1
        /\ \A k \in 1 .. Len(t) : k + 1 \in 1 .. Len(tx) /\ t[k] = tx[k + 1]
    BY <1>1, TailElems
  <1>3. ASSUME NEW k \in 1 .. Len(tx), k # 1 PROVE \E j \in 1 .. Len(t) : t[j] = tx[k]
    <2>1. PICK j : j = k - 1
      OBVIOUS
    <2>2. j \in 1 .. Len(t) /\ j + 1 = k
      BY <1>2, <1>3, <2>1
    <2>3. t[j] = tx[k]
      BY <1>2, <2>2
    <2> QED
      BY <2>2, <2>3
  <1>4. Once(tx, i) => Once(t, i)
    <2> SUFFICES ASSUME Once(tx, i), NEW j \in 1 .. Len(t), NEW k \in 1 .. Len(t),
                        AskOf(t[j], i), AskOf(t[k], i)
                 PROVE  j = k
      BY DEF Once
    <2>1. j + 1 \in 1 .. Len(tx) /\ k + 1 \in 1 .. Len(tx) /\ t[j] = tx[j + 1] /\ t[k] = tx[k + 1]
      BY <1>2
    <2>2. j + 1 = k + 1
      BY <2>1 DEF Once
    <2> QED
      BY <2>2
  <1>5. Settled(i)' => Settled(i)
    <2>1. Settled(i)' <=> \E k \in 1 .. Len(t) : t[k].op = "scsi" /\ t[k].itt = i
      BY <1>1 DEF Settled
    <2> QED
      BY <1>2, <2>1 DEF Settled
  <1>6. TxLike(i)
    BY <1>1, <1>2, <1>4, <1>5 DEF TxLike
  <1>7. ~(Final(tx[1]) /\ tx[1].itt = i) => (Answered(i) => Answered(i)')
    <2>1. Answered(i)' <=> \E k \in 1 .. Len(t) : Final(t[k]) /\ t[k].itt = i
      BY <1>1 DEF Answered
    <2> QED
      BY <1>3, <2>1 DEF Answered
  <1>8. ~AskOf(tx[1], i) /\ istage' # "down" => (Asked(i) => Asked(i)')
    <2>1. istage' # "down" => (Asked(i)' <=> \E k \in 1 .. Len(t) : AskOf(t[k], i))
      BY <1>1 DEF Asked
    <2> QED
      BY <1>3, <2>1 DEF Asked
  <1> QED
    BY <1>6, <1>7, <1>8

LEMMA TxConcat ==
    ASSUME NEW i, tx \in Seq(Response), NEW out \in Seq(Response), tx' = tx \o out
    PROVE  /\ (\A k \in 1 .. Len(out) : ~AskOf(out[k], i) /\ ~(out[k].op = "scsi" /\ out[k].itt = i))
                 => TxLike(i)
           /\ Answered(i) => Answered(i)'
           /\ istage' # "down" => (Asked(i) => Asked(i)')
  <1>1. PICK u : u = tx'
    OBVIOUS
  <1>2. /\ Len(u) = Len(tx) + Len(out) /\ Len(tx) \in Nat /\ Len(out) \in Nat
        /\ \A k \in 1 .. Len(tx) : k \in 1 .. Len(u) /\ u[k] = tx[k]
        /\ \A k \in 1 .. Len(u) : k <= Len(tx) \/ (k - Len(tx) \in 1 .. Len(out) /\ u[k] = out[k - Len(tx)])
    BY <1>1, ConcatIndex
  <1>3. \A k \in 1 .. Len(u) : k \in 1 .. Len(tx) \/ \E j \in 1 .. Len(out) : u[k] = out[j]
    BY <1>2
  <1>4. ASSUME \A k \in 1 .. Len(out) : ~AskOf(out[k], i) /\ ~(out[k].op = "scsi" /\ out[k].itt = i)
        PROVE  TxLike(i)
    <2>1. \A k \in 1 .. Len(u) : AskOf(u[k], i) => k \in 1 .. Len(tx)
      BY <1>3, <1>4
    <2>2. Settled(i)' <=> \E k \in 1 .. Len(u) : u[k].op = "scsi" /\ u[k].itt = i
      BY <1>1 DEF Settled
    <2>3. Settled(i)' => Settled(i)
      BY <1>2, <1>3, <1>4, <2>2 DEF Settled
    <2>4. Once(tx, i) => Once(u, i)
      BY <1>2, <2>1 DEF Once
    <2> QED
      BY <1>1, <1>2, <2>1, <2>3, <2>4 DEF TxLike
  <1>5. Answered(i) => Answered(i)'
    <2>1. Answered(i)' <=> \E k \in 1 .. Len(u) : Final(u[k]) /\ u[k].itt = i
      BY <1>1 DEF Answered
    <2> QED
      BY <1>2, <2>1 DEF Answered
  <1>6. istage' # "down" => (Asked(i) => Asked(i)')
    <2>1. istage' # "down" => (Asked(i)' <=> \E k \in 1 .. Len(u) : AskOf(u[k], i))
      BY <1>1 DEF Asked
    <2> QED
      BY <1>2, <2>1 DEF Asked
  <1> QED
    BY <1>4, <1>5, <1>6

\* The cells of c may hold what they might.
SentKept(i, c) == \A y \in 0 .. c.edtl - 1 : Sent(i, c.lba + y) \subseteq Sent(i, c.lba + y)'

\* A step that touches nothing of tag i leaves its write as it is.
LEMMA LiveKept ==
    ASSUME NEW i \in Itts, CoreInv, FlightOk, LiveOk(i), RxLike(i), TxLike(i), rx' \in Seq(Request),
           in_flight'[i] = in_flight[i],
           istage' # "down" => istage # "down" /\ tasks'[i] = tasks[i],
           in_flight[i] # None => (Of(i, in_flight[i].cmd) => SentKept(i, in_flight[i].cmd))
    PROVE  LiveOk(i)'
  <1> SUFFICES ASSUME in_flight[i] # None, Sending(i)' \/ Asked(i)'
               PROVE  Held(i, in_flight[i])'
    BY DEF LiveOk
  <1>1. PICK w : w = in_flight[i] /\ w = in_flight'[i]
    OBVIOUS
  <1>2. PICK s, t : s = rx' /\ t = tx'
    OBVIOUS
  <1>3. /\ \A k \in 1 .. Len(s) : DataOf(s[k], i) => \E j \in 1 .. Len(rx) : rx[j] = s[k]
        /\ \A k \in 1 .. Len(rx) : DataOf(rx[k], i) => \E j \in 1 .. Len(s) : s[j] = rx[k]
        /\ \A from, n : Chain(rx, i, from, n) => Chain(s, i, from, n)
        /\ Waiting(i)' <=> Waiting(i)
    BY <1>2 DEF RxLike
  <1>4. /\ \A k \in 1 .. Len(t) : AskOf(t[k], i) => \E j \in 1 .. Len(tx) : tx[j] = t[k]
        /\ Once(tx, i) => Once(t, i)
        /\ Settled(i)' => Settled(i)
    BY <1>2 DEF TxLike
  <1>5. Sending(i)' => Sending(i)
    <2>1. Sending(i)' => \E k \in 1 .. Len(s) : DataOf(s[k], i)
      BY <1>2 DEF Sending
    <2> QED
      BY <1>3, <2>1 DEF Sending
  <1>6. Asked(i)' => Asked(i)
    <2>1. Asked(i)' => istage' # "down" /\ \E k \in 1 .. Len(t) : AskOf(t[k], i)
      BY <1>2 DEF Asked
    <2> QED
      BY <1>4, <2>1 DEF Asked
  <1>7. Held(i, w)
    BY <1>1, <1>5, <1>6 DEF LiveOk
  <1>8. /\ Of(i, w.cmd) /\ ~Waiting(i)
        /\ istage # "down" => ~Settled(i)
        /\ \A k \in 1 .. Len(rx) : DataOf(rx[k], i) => PartOf(i, w.cmd, rx[k])
        /\ Scattered(i, w) \/ InOrder(i, w)
    BY <1>7 DEF Held
  <1>9. PICK a, n, m : a = w.cmd.lba /\ n = w.cmd.edtl /\ m = w.received
    OBVIOUS
  <1>10. a \in Nat /\ n \in Nat /\ m \in Nat /\ m < n
    BY <1>1, <1>9 DEF CoreInv, TargetInv, TypeOK, PendingWrite, ScsiCommand
  <1>11. \A y \in 0 .. n - 1 : Sent(i, a + y) \subseteq Sent(i, a + y)'
    BY <1>1, <1>8, <1>9 DEF SentKept
  <1>12. Of(i, w.cmd)'
    BY <1>8 DEF Of
  <1>13. ASSUME NEW k \in 1 .. Len(s), DataOf(s[k], i) PROVE PartOf(i, w.cmd, s[k])'
    <2>1. PICK d : d = s[k] /\ PartOf(i, w.cmd, d)
      BY <1>3, <1>8, <1>13
    <2>2. PICK off, len : off = d.off /\ len = Len(d.data)
      OBVIOUS
    <2>3. d \in Request
      BY <1>2, <2>1
    <2>4. off \in Nat /\ len \in Nat
      BY <1>13, <2>1, <2>2, <2>3, RequestTag DEF DataOf
    <2>5. off + len <= n /\ \A j \in 1 .. len : d.data[j] \in Sent(i, a + off + j - 1)
      BY <1>9, <2>1, <2>2 DEF PartOf
    <2>6. ASSUME NEW j \in 1 .. len PROVE d.data[j] \in Sent(i, a + off + j - 1)'
      <3>1. PICK y : y = off + j - 1
        OBVIOUS
      <3>2. y \in 0 .. n - 1 /\ a + y = a + off + j - 1
        BY <1>10, <2>4, <2>5, <3>1
      <3>3. PICK l : l = a + y
        OBVIOUS
      <3>4. Sent(i, l) \subseteq Sent(i, l)'
        BY <1>11, <3>2, <3>3
      <3>5. d.data[j] \in Sent(i, l)
        BY <2>5, <3>2, <3>3
      <3>6. d.data[j] \in Sent(i, l)'
        BY <3>4, <3>5
      <3> QED
        BY <3>2, <3>3, <3>6
    <2> QED
      BY <1>9, <2>1, <2>2, <2>5, <2>6 DEF PartOf
  <1>14. Scattered(i, w) => Scattered(i, w)'
    <2> SUFFICES ASSUME Scattered(i, w), NEW y \in 0 .. n - 1
                 PROVE  Blank \in Sent(i, a + y)' /\ w.buf[y] \in Sent(i, a + y)'
      BY <1>9 DEF Scattered
    <2>1. Blank \in Sent(i, a + y) /\ w.buf[y] \in Sent(i, a + y)
      BY <1>9 DEF Scattered
    <2> QED
      BY <1>11, <2>1
  <1>15. InOrder(i, w) => InOrder(i, w)'
    <2> SUFFICES ASSUME InOrder(i, w) PROVE InOrder(i, w)'
      OBVIOUS
    <2>2. Filled(i, w)'
      <3> SUFFICES ASSUME NEW y \in 0 .. m - 1 PROVE w.buf[y] \in Sent(i, a + y)'
        BY <1>9 DEF Filled
      <3>1. w.buf[y] \in Sent(i, a + y)
        BY <1>9 DEF InOrder, Filled
      <3>2. y \in 0 .. n - 1
        BY <1>10
      <3> QED
        BY <1>11, <3>1, <3>2
    <2>3. Chain(rx, i, m, n)' /\ Chain(s, i, m, n)
      BY <1>2, <1>3, <1>9 DEF InOrder
    <2>4. ASSUME istage' # "down" PROVE istage # "down" /\ Exact(n - m, tasks'[i].seg)
      BY <1>9, <2>4 DEF InOrder
    <2>5. ASSUME istage' # "down", Finishing(i, w) PROVE Finishing(i, w)'
      <3>1. \E k \in 1 .. Len(s) : DataOf(s[k], i) /\ DataEnd(s[k]) = w.cmd.edtl
        BY <1>3, <2>5 DEF Finishing
      <3> QED
        BY <1>2, <3>1 DEF Finishing
    <2>6. ASSUME istage' # "down", OneAsked(i, w) PROVE OneAsked(i, w)'
      <3>1. ~Sending(i)' /\ Once(t, i)
        BY <1>4, <1>5, <2>6 DEF OneAsked
      <3>2. \A k \in 1 .. Len(t) : AskOf(t[k], i) =>
                t[k].body.off = w.received /\ t[k].body.len = NextAsk(w)
        BY <1>4, <2>6 DEF OneAsked
      <3> QED
        BY <1>2, <3>1, <3>2 DEF OneAsked
    <2>7. ASSUME istage' # "down", OneSent(i, w) PROVE OneSent(i, w)'
      <3>1. ~Asked(i)' /\ Burst <= tasks'[i].seg
        BY <1>6, <2>7 DEF OneSent
      <3>2. \A k \in 1 .. Len(s) : DataOf(s[k], i) =>
                s[k].off = w.received /\ Len(s[k].data) > 0 /\ DataEnd(s[k]) < w.cmd.edtl
        BY <1>3, <2>7 DEF OneSent
      <3> QED
        BY <1>2, <3>1, <3>2 DEF OneSent
    <2> QED
      BY <1>9, <2>2, <2>3, <2>4, <2>5, <2>6, <2>7 DEF InOrder
  <1>16. Held(i, w)'
    BY <1>2, <1>3, <1>4, <1>8, <1>12, <1>13, <1>14, <1>15 DEF Held
  <1> QED
    BY <1>1, <1>16

\* A step that takes nothing of tag i away leaves the command pursued.
LEMMA PursuedKept ==
    ASSUME NEW i \in Itts, PursuedOk(i), RxLike(i),
           istage' = "up" => istage = "up",
           tasks'[i] # None /\ i \notin aborting' => tasks[i] # None /\ i \notin aborting,
           Answered(i) => Answered(i)',
           in_flight'[i] = in_flight[i],
           istage' = "up" => (Asked(i) => Asked(i)')
    PROVE  PursuedOk(i)'
  <1> SUFFICES ASSUME istage' = "up", tasks'[i] # None, i \notin aborting' PROVE Pursued(i)'
    BY DEF PursuedOk
  <1>1. Pursued(i)
    BY DEF PursuedOk
  <1>2. Waiting(i) => Waiting(i)'
    BY DEF RxLike
  <1>3. Sending(i) => Sending(i)'
    <2>1. PICK s : s = rx'
      OBVIOUS
    <2>2. Sending(i)' <=> \E k \in 1 .. Len(s) : DataOf(s[k], i)
      BY <2>1 DEF Sending
    <2> QED
      BY <2>1, <2>2 DEF RxLike, Sending
  <1> QED
    BY <1>1, <1>2, <1>3 DEF Pursued

-----------------------------------------------------------------------------
(* The steps of the connection *)

LEMMA FlowInit == SessionInit => FlowInv
  <1> SUFFICES ASSUME SessionInit PROVE FlowInv
    OBVIOUS
  <1>1. /\ rx = <<>> /\ tx = <<>> /\ istage = "down" /\ stage = "Closed" /\ disk = Master
        /\ \A i \in Itts : tasks[i] = None /\ in_flight[i] = None
        /\ may = [l \in Lbas |-> {disk[l]}]
    BY DEF SessionInit, Init
  <1>2. StoredAsAcknowledged /\ FlightOk /\ LiveInv /\ PursuedInv
    BY <1>1 DEF StoredAsAcknowledged, FlightOk, LiveInv, LiveOk, PursuedInv, PursuedOk
  <1>3. TaskInv
    BY <1>1, DiskAssumption DEF TaskInv, Content
  <1>4. BurstInv
    BY <1>1 DEF BurstInv
  <1> QED
    BY <1>1, <1>2, <1>3, <1>4 DEF FlowInv, RxInv, TxInv, Ordered

LEMMA ConnectFlow == CoreInv /\ FlowInv /\ Connect => FlowInv'
  <1> SUFFICES ASSUME CoreInv, FlowInv, Connect PROVE FlowInv'
    OBVIOUS
  <1>1. /\ rx' = <<LoginPdu>> /\ tx' = <<>> /\ istage = "down" /\ stage' = "Login"
        /\ istage' = "login" /\ in_flight' = [i \in Itts |-> None]
        /\ params'.burst = DefaultBurst
        /\ UNCHANGED <<disk, tasks, may>>
    BY DEF Connect, Accept, LoginPdu
  <1>2. \A i \in Itts : tasks[i] = None
    BY <1>1 DEF CoreInv, StageInv
  <1>3. StoredAsAcknowledged' /\ FlightOk' /\ LiveInv' /\ PursuedInv'
    BY <1>1 DEF FlowInv, StoredAsAcknowledged, FlightOk, LiveInv, LiveOk, PursuedInv, PursuedOk
  <1>4. TaskInv'
    BY <1>1, <1>2 DEF FlowInv, TaskInv
  <1>5. BurstInv'
    BY <1>1 DEF BurstInv
  <1>6. RxInv'
    <2>1. LoginPdu.op = "login" /\ Len(rx') = 1 /\ rx'[1] = LoginPdu
      BY <1>1 DEF LoginPdu
    <2>2. Ordered(rx')
      BY <1>1, OrderedOne
    <2> QED
      BY <2>1, <2>2 DEF RxInv, RxOk
  <1>7. TxInv'
    BY <1>1 DEF TxInv, Ordered, Apart
  <1> QED
    BY <1>3, <1>4, <1>5, <1>6, <1>7 DEF FlowInv

LEMMA LoseFlow == CoreInv /\ FlowInv /\ Lose => FlowInv'
  <1> SUFFICES ASSUME CoreInv, FlowInv, Lose PROVE FlowInv'
    OBVIOUS
  <1>1. /\ istage # "down" /\ istage' = "down" /\ tx' = <<>>
        /\ \A i \in Itts : tasks'[i] = None
        /\ UNCHANGED <<stage, params, in_flight, disk, rx, may>>
    BY DEF Lose, conn
  <1>2. StoredAsAcknowledged' /\ FlightOk' /\ BurstInv' /\ PursuedInv'
    BY <1>1 DEF FlowInv, StoredAsAcknowledged, FlightOk, BurstInv, PursuedInv, PursuedOk
  <1>3. TaskInv'
    BY <1>1 DEF FlowInv, TaskInv
  <1>4. rx \in Seq(Request) /\ tx \in Seq(Response)
    BY DEF CoreInv, StreamTypes, TargetInv, TypeOK
  \* The data of a write on its way is among what may then be found.
  <1>5. ASSUME NEW c, Issued(c), IssuedWrite(c), Of(c.itt, c), c.itt \in Itts,
               NEW l, l >= c.lba, l < c.lba + c.blocks, l \in Int
        PROVE  Sent(c.itt, l) \subseteq may[l]
    <2>1. c.lba \in Nat /\ c.blocks \in Nat
      BY <1>5 DEF Issued, ScsiCommand
    <2>2. /\ tasks[c.itt] # None /\ tasks[c.itt].op = "write"
          /\ tasks[c.itt].lba = c.lba /\ tasks[c.itt].n = c.blocks
      BY <1>1, <1>5 DEF Of, IssuedWrite
    <2>3. l \in Cells(tasks[c.itt])
      BY <1>5, <2>1, <2>2 DEF Cells
    <2> QED
      BY <1>1, <1>5, <2>2, <2>3 DEF FlowInv, TaskInv, Sent
  <1>6. ASSUME NEW k \in 1 .. Len(rx) PROVE RxOk(rx[k])'
    <2> DEFINE x == rx[k]
    <2>1. RxOk(x) /\ x \in Request
      BY <1>4 DEF FlowInv, RxInv
    <2> HIDE DEF x
    <2>2. CASE x.op = "scsi"
      <3>1. /\ Issued(x) /\ Of(x.itt, x) /\ x \in ScsiCommand
            /\ x.cdb = "write" => \A j \in 1 .. Len(x.data) : x.data[j] \in Sent(x.itt, x.lba + j - 1)
        BY <2>1, <2>2 DEF RxOk, Issued, CarriesOf
      <3>2. x.itt \in Itts /\ x.lba \in Nat /\ x.blocks \in Nat /\ Len(x.data) \in Nat
        BY <3>1 DEF ScsiCommand
      <3>3. ASSUME x.cdb = "write", NEW j \in 1 .. Len(x.data) PROVE x.data[j] \in may[x.lba + j - 1]
        <4>1. IssuedWrite(x) /\ Len(x.data) <= x.blocks
          BY <3>1, <3>2, <3>3 DEF Issued, IssuedRead, IssuedWrite
        <4>2. x.lba + j - 1 \in Int /\ x.lba + j - 1 >= x.lba /\ x.lba + j - 1 < x.lba + x.blocks
          BY <3>2, <4>1
        <4> QED
          BY <1>5, <3>1, <3>2, <3>3, <4>1, <4>2
      <3> QED
        BY <1>1, <2>2, <3>1, <3>3
        DEF RxOk, Of, CarriesOf, Sent, Issued, IssuedRead, IssuedWrite, InRange, x
    <2>3. CASE x.op # "scsi"
      BY <1>1, <2>3 DEF RxOk, x
    <2> QED
      BY <2>2, <2>3
  <1>7. RxInv' /\ TxInv'
    BY <1>1, <1>6 DEF FlowInv, RxInv, TxInv
  <1>8. ASSUME NEW i \in Itts PROVE LiveOk(i)'
    <2>1. RxLike(i)
      BY <1>1, RxSame
    <2>2. TxLike(i)
      BY <1>1 DEF TxLike, Once, Settled
    <2>3. ASSUME in_flight[i] # None, Of(i, in_flight[i].cmd) PROVE SentKept(i, in_flight[i].cmd)
      <3>1. PICK c : c = in_flight[i].cmd
        OBVIOUS
      <3>2. Issued(c) /\ IssuedWrite(c) /\ c.itt = i /\ c.edtl = c.blocks /\ Of(c.itt, c)
        BY <2>3, <3>1 DEF FlowInv, FlightOk, Issued
      <3>3. c.lba \in Nat /\ c.blocks \in Nat
        BY <3>2 DEF Issued, ScsiCommand
      <3>4. ASSUME NEW y \in 0 .. c.edtl - 1
            PROVE  Sent(i, c.lba + y) \subseteq Sent(i, c.lba + y)'
        <4>1. PICK l : l = c.lba + y
          OBVIOUS
        <4>2. l \in Int /\ l >= c.lba /\ l < c.lba + c.blocks
          BY <3>2, <3>3, <4>1
        <4>3. Sent(c.itt, l) \subseteq may[l]
          BY <1>5, <3>2, <4>2
        <4>4. Sent(i, l)' = may[l]
          BY <1>1 DEF Sent
        <4>5. Sent(i, l) \subseteq Sent(i, l)'
          BY <3>2, <4>3, <4>4
        <4> QED
          BY <4>1, <4>5
      <3>5. SentKept(i, c)
        BY <3>4 DEF SentKept
      <3> QED
        BY <3>1, <3>5
    <2> QED
      BY <1>1, <1>4, <2>1, <2>2, <2>3, LiveKept DEF FlowInv, LiveInv
  <1> QED
    BY <1>2, <1>3, <1>7, <1>8 DEF FlowInv, LiveInv

LEMMA TargetCloseFlow == CoreInv /\ FlowInv /\ TargetClose => FlowInv'
  <1> SUFFICES ASSUME CoreInv, FlowInv, TargetClose PROVE FlowInv'
    OBVIOUS
  <1>1. /\ stage' = "Closed" /\ rx' = <<>> /\ \A i \in Itts : in_flight'[i] = None
        /\ istage # "down" => stage = "Closing"
        /\ UNCHANGED <<params, disk, tx, istage, tasks, aborting, may>>
    BY DEF TargetClose, EndConnection
  <1>2. StoredAsAcknowledged' /\ FlightOk' /\ BurstInv' /\ LiveInv'
    BY <1>1 DEF FlowInv, StoredAsAcknowledged, FlightOk, BurstInv, LiveInv, LiveOk
  <1>3. PursuedInv'
    <2>1. istage # "up"
      BY <1>1 DEF CoreInv, StageInv
    <2> QED
      BY <1>1, <2>1 DEF PursuedInv, PursuedOk
  <1>4. TaskInv'
    BY <1>1 DEF FlowInv, TaskInv, Settled
  <1>5. RxInv'
    BY <1>1 DEF RxInv, Ordered
  <1>6. TxInv'
    <2> SUFFICES ASSUME istage # "down"
                 PROVE  Ordered(tx)' /\ Apart(tx, rx)' /\ \A k \in 1 .. Len(tx) : TxOk(tx[k])'
      BY <1>1 DEF TxInv
    <2>1. ASSUME NEW k \in 1 .. Len(tx) PROVE TxOk(tx[k])'
      <3>1. tx[k] \in Response /\ Tagged(tx[k]) /\ TxOk(tx[k])
        BY DEF FlowInv, TxInv, CoreInv, TargetInv, TypeOK, StreamTypes
      <3>2. \A i \in Itts : tasks[i] = None /\ i \notin aborting
        BY <1>1, TaskUp
      <3>3. ~Work(tx[k]) /\ ~Abort(tx[k])
        BY <3>1, <3>2, TxOwner, ResponseTag DEF Work
      <3> QED
        BY <1>1, <3>3 DEF TxOk, Work, Abort
    <2> QED
      BY <1>1, <2>1 DEF FlowInv, TxInv, Apart
  <1> QED
    BY <1>2, <1>3, <1>4, <1>5, <1>6 DEF FlowInv

-----------------------------------------------------------------------------
(* The requests of the initiator *)

\* A response or request on its way is not affected by a step that leaves the
\* target alone, changes no outstanding task, and adds to what may be found.
LEMMA KeptRx ==
    ASSUME NEW x \in Request, RxOk(x), istage = "up", istage' \in {"up", "logout"},
           aborting \subseteq aborting',
           \A i \in Itts : tasks[i] # None => tasks'[i] = tasks[i]
    PROVE  RxOk(x)'
  <1>1. Work(x) \/ Abort(x) => x.itt \in Itts
    BY RequestTag
  <1>2. CASE x.op = "scsi"
    <2>1. x.itt \in Itts /\ tasks'[x.itt] = tasks[x.itt]
      BY <1>1, <1>2, RxOwner DEF Work
    <2> QED
      BY <1>2, <2>1 DEF RxOk, Of, CarriesOf, Sent, Issued, IssuedRead, IssuedWrite, InRange
  <1>3. CASE x.op # "scsi"
    BY <1>3 DEF RxOk
  <1> QED
    BY <1>2, <1>3

\* The cells a Data-In PDU of a task stands for.
LEMMA ReadCells ==
    ASSUME NEW i \in Itts, TaskInv, tasks[i] # None, NEW d, ReadOk(d, tasks[i]),
           NEW k \in 1 .. Len(d.data)
    PROVE  tasks[i].lba + d.off + k - 1 \in Cells(tasks[i])
  <1>1. PICK a, n, off, len : a = tasks[i].lba /\ n = tasks[i].n /\ off = d.off /\ len = Len(d.data)
    OBVIOUS
  <1>2. a \in Nat /\ n \in Nat
    BY <1>1 DEF TaskInv, ReadTask, WriteTask
  <1>3. off \in Nat /\ len \in Nat /\ off + len <= n
    BY <1>1 DEF ReadOk
  <1>4. k \in 1 .. len
    BY <1>1
  <1>5. a + off + k - 1 \in a .. a + n - 1
    BY <1>2, <1>3, <1>4
  <1> QED
    BY <1>1, <1>5 DEF Cells

LEMMA KeptTx ==
    ASSUME TaskInv, NEW p \in Response, Tagged(p), TxOk(p),
           disk' = disk, aborting \subseteq aborting',
           \A i \in Itts : tasks[i] # None => tasks'[i] = tasks[i],
           \A l \in Lbas : may[l] \subseteq may'[l]
    PROVE  TxOk(p)'
  <1>1. p.itt \in Itts \/ p.op \notin {"r2t", "scsi", "datain", "tmf"}
    BY DEF Tagged
  <1>2. CASE p.op = "scsi"
    BY <1>1, <1>2 DEF TxOk, StoredOf, Cells
  <1>3. CASE p.op = "datain"
    <2>1. /\ p.itt \in Itts /\ tasks[p.itt] # None /\ tasks'[p.itt] = tasks[p.itt]
          /\ tasks[p.itt].op = "read" /\ ReadOk(p.body, tasks[p.itt])
      BY <1>1, <1>3 DEF TxOk
    <2>2. ReadOk(p.body, tasks[p.itt])'
      <3>1. ASSUME NEW k \in 1 .. Len(p.body.data)
            PROVE  p.body.data[k] \in may'[tasks[p.itt].lba + p.body.off + k - 1]
        <4>1. tasks[p.itt].lba + p.body.off + k - 1 \in Cells(tasks[p.itt])
          BY <1>3, <2>1, ReadCells
        <4>2. tasks[p.itt].lba + p.body.off + k - 1 \in Lbas
          BY <2>1, <4>1 DEF TaskInv
        <4> QED
          BY <2>1, <4>2 DEF ReadOk
      <3> QED
        BY <2>1, <3>1 DEF ReadOk
    <2> QED
      BY <1>3, <2>1, <2>2 DEF TxOk
  <1>4. CASE p.op = "r2t"
    BY <1>1, <1>4 DEF TxOk
  <1>5. CASE p.op \notin {"scsi", "datain", "r2t"}
    BY <1>5 DEF TxOk
  <1> QED
    BY <1>2, <1>3, <1>4, <1>5

\* What is left to show when the initiator sends one request.
LEMMA SendFlow ==
    ASSUME CoreInv, FlowInv, NEW x \in Request, rx' = Append(rx, x),
           istage = "up", istage' \in {"up", "logout"}, UNCHANGED vars,
           aborting \subseteq aborting',
           \A i \in Itts : tasks'[i] = tasks[i] \/ (x.op = "scsi" /\ i = x.itt),
           \A l \in Lbas : may[l] \subseteq may'[l],
           TaskInv', RxOk(x)', x.op # "dataout",
           Work(x) => tasks[x.itt] = None /\ x.itt \notin aborting,
           Abort(x) => x.itt \notin aborting
    PROVE  FlowInv'
  <1>1. UNCHANGED <<stage, params, in_flight, disk, tx>>
    BY DEF vars
  <1>2. FlightOk' /\ BurstInv'
    BY <1>1 DEF FlowInv, FlightOk, BurstInv
  <1>3. StoredAsAcknowledged'
    BY <1>1 DEF FlowInv, StoredAsAcknowledged
  <1>4. /\ rx \in Seq(Request) /\ tx \in Seq(Response)
        /\ \A k \in 1 .. Len(rx) : rx[k] \in Request /\ RxOk(rx[k])
        /\ \A k \in 1 .. Len(tx) : tx[k] \in Response /\ Tagged(tx[k]) /\ TxOk(tx[k])
    BY DEF CoreInv, StreamTypes, TargetInv, TypeOK, FlowInv, RxInv, TxInv
  <1>5. /\ rx' = rx \o <<x>> /\ <<x>> \in Seq(Request)
        /\ Len(<<x>>) = 1 /\ \A k \in 1 .. Len(<<x>>) : <<x>>[k] = x
    BY <1>4, AppendOne
  <1>6. \A i \in Itts : tasks[i] # None => tasks'[i] = tasks[i]
    BY DEF Work
  <1>7. ASSUME NEW k \in 1 .. Len(rx) PROVE ~Clash(rx[k], x)
    <2>1. rx[k].op = "scsi" => tasks[rx[k].itt] # None
      BY <1>4, RxOwner
    <2>2. Abort(rx[k]) => rx[k].itt \in aborting
      BY <1>4, RxOwner
    <2>3. rx[k].op # "datain"
      BY <1>4, RequestTag DEF Work
    <2> QED
      BY <2>1, <2>2, <2>3 DEF Clash, Final, Work
  <1>8. ASSUME NEW k \in 1 .. Len(tx) PROVE ~Crosses(tx[k], x)
    <2>1. Work(tx[k]) => tasks[tx[k].itt] # None
      BY <1>4, ResponseTag, TxOwner
    <2>2. Abort(tx[k]) => tx[k].itt \in aborting
      BY <1>4, TxOwner
    <2> QED
      BY <2>1, <2>2 DEF Crosses, Final, Work
  <1>9. \A k \in 1 .. Len(rx') : (k \in 1 .. Len(rx) /\ rx'[k] = rx[k]) \/ rx'[k] = x
    BY <1>4, <1>5, ConcatElems
  <1>10. RxInv'
    <2>1. Ordered(rx')
      <3>1. Ordered(rx) /\ Ordered(<<x>>)
        BY OrderedOne DEF FlowInv, RxInv
      <3>2. Ahead(rx, <<x>>)
        BY <1>5, <1>7 DEF Ahead
      <3> QED
        <4>1. PICK s, t : s = rx /\ t = <<x>>
          OBVIOUS
        <4>2. s \in Seq(Request) /\ t \in Seq(Request) /\ rx' = s \o t
          BY <1>4, <1>5, <4>1
        <4>3. Ordered(s) /\ Ordered(t) /\ Ahead(s, t)
          BY <3>1, <3>2, <4>1
        <4> QED
          BY <4>2, <4>3, OrderedConcat
    <2>2. ASSUME NEW k \in 1 .. Len(rx') PROVE RxOk(rx[k])'
      <3>1. CASE k \in 1 .. Len(rx) /\ rx'[k] = rx[k]
        <4>1. PICK y : y = rx[k]
          OBVIOUS
        <4>2. RxOk(y)'
          BY <1>4, <1>6, <3>1, <4>1, KeptRx
        <4>3. y = rx'[k]
          BY <3>1, <4>1
        <4> QED
          BY <4>2, <4>3
      <3>2. CASE rx'[k] = x
        BY <3>2
      <3> QED
        BY <1>9, <3>1, <3>2
    <2> QED
      BY <2>1, <2>2 DEF RxInv
  <1>11. TxInv'
    <2>1. Ordered(tx) /\ Apart(tx, rx)
      BY DEF FlowInv, TxInv
    <2>2. Apart(tx, rx')
      BY <1>8, <1>9, <2>1 DEF Apart
    <2>3. ASSUME NEW k \in 1 .. Len(tx) PROVE TxOk(tx[k])'
      BY <1>1, <1>4, <1>6, KeptTx DEF FlowInv
    <2> QED
      BY <1>1, <2>1, <2>2, <2>3 DEF TxInv
  <1>12. ASSUME NEW i \in Itts PROVE LiveOk(i)' /\ PursuedOk(i)'
    <2>1. CASE x.op = "scsi" /\ x.itt = i
      <3>1. tasks[i] = None /\ LiveOk(i)
        BY <2>1 DEF Work, FlowInv, LiveInv
      <3>2. ~(in_flight[i] # None /\ (Sending(i) \/ Asked(i)))
        BY <3>1, LiveOwner
      <3>3. Sending(i)' => Sending(i)
        <4>1. PICK s : s = rx'
          OBVIOUS
        <4>2. Sending(i)' <=> \E k \in 1 .. Len(s) : DataOf(s[k], i)
          BY <4>1 DEF Sending
        <4>3. ~DataOf(x, i)
          BY DEF DataOf
        <4> QED
          BY <1>9, <4>1, <4>2, <4>3 DEF Sending
      <3>4. Asked(i)' => Asked(i)
        BY <1>1 DEF Asked
      <3>5. LiveOk(i)'
        BY <1>1, <3>2, <3>3, <3>4 DEF LiveOk
      <3>6. Waiting(i)'
        <4>1. PICK s, k : s = rx' /\ k = Len(rx) + 1
          OBVIOUS
        <4>2. k \in 1 .. Len(s) /\ s[k] = x
          BY <1>4, <4>1
        <4>3. Waiting(i)' <=> \E j \in 1 .. Len(s) : s[j].op = "scsi" /\ s[j].itt = i
          BY <4>1 DEF Waiting
        <4> QED
          BY <2>1, <4>2, <4>3
      <3> QED
        BY <3>5, <3>6 DEF PursuedOk, Pursued
    <2>2. CASE ~(x.op = "scsi" /\ x.itt = i)
      <3>1. RxLike(i)
        <4>1. PICK D : D = <<x>>
          OBVIOUS
        <4>2. /\ rx' = rx \o D /\ D \in Seq(Request)
              /\ \A k \in 1 .. Len(D) : ~DataOf(D[k], i) /\ ~(D[k].op = "scsi" /\ D[k].itt = i)
          BY <1>5, <2>2, <4>1 DEF DataOf
        <4> QED
          BY <1>4, <4>2, RxConcat
      <3>2. TxLike(i)
        BY <1>1, TxSame
      <3>3. tasks'[i] = tasks[i]
        BY <2>2
      <3>4. \A c : SentKept(i, c)
        BY <3>3 DEF SentKept, Sent
      <3>5. rx' \in Seq(Request)
        BY <1>4
      <3>6. LiveOk(i)'
        BY <1>1, <3>1, <3>2, <3>3, <3>4, <3>5, LiveKept DEF FlowInv, LiveInv
      <3>7. (Answered(i) => Answered(i)') /\ (Asked(i) => Asked(i)')
        BY <1>1 DEF Answered, Asked
      <3>8. PursuedOk(i)
        BY DEF FlowInv, PursuedInv
      <3>9. PursuedOk(i)'
        BY <1>1, <3>1, <3>3, <3>7, <3>8, PursuedKept
      <3> QED
        BY <3>6, <3>9
    <2> QED
      BY <2>1, <2>2
  <1> QED
    BY <1>2, <1>3, <1>10, <1>11, <1>12 DEF FlowInv, LiveInv, PursuedInv

\* A new command takes cells that no other one is on.
LEMMA IssueFlow ==
    ASSUME CoreInv, FlowInv, NEW itt \in Itts, NEW task \in ReadTask \cup WriteTask,
           NEW c \in Request, c.op = "scsi", c.itt = itt, Issue(itt, task, c),
           Cells(task) \subseteq Lbas,
           may' \in [Lbas -> SUBSET Content], \A l \in Lbas : may[l] \subseteq may'[l],
           task.op = "write" => /\ \A l \in Cells(task) : task.after \subseteq may'[l]
                                /\ task.before = may
                                /\ task.after = After(task.val, c.edtl - Len(c.data), task.seg)
                                /\ \A j \in 1 .. Len(c.data) : c.data[j] \in task.after,
           Issued(c), task.op = c.cdb, task.lba = c.lba, task.n = c.blocks
    PROVE  FlowInv'
  <1>1. /\ istage = "up" /\ istage' = "up" /\ rx' = Append(rx, c) /\ UNCHANGED vars
        /\ tasks[itt] = None /\ itt \notin aborting /\ aborting' = aborting
        /\ tasks' = [tasks EXCEPT ![itt] = task]
        /\ \A l \in Cells(task) : ~Busy(l)
    BY DEF Issue
  <1>2. \A i \in Itts : tasks'[i] = IF i = itt THEN task ELSE tasks[i]
    BY <1>1 DEF CoreInv, InitiatorTypes
  <1>3. task # None
    BY AbsentAssumption
  <1>4. tx' = tx /\ disk' = disk
    BY <1>1 DEF vars
  <1>5. TaskInv'
    <2>1. ASSUME NEW i \in Itts, i # itt, tasks[i] # None PROVE Cells(task) \cap Cells(tasks[i]) = {}
      BY <1>1, <2>1 DEF Busy
    <2>2. \A i, j \in Itts : i # j /\ tasks'[i] # None /\ tasks'[j] # None =>
              Cells(tasks'[i]) \cap Cells(tasks'[j]) = {}
      BY <1>2, <2>1 DEF FlowInv, TaskInv
    <2>3. ASSUME NEW i \in Itts, tasks'[i] # None, tasks'[i].op = "write"
          PROVE  /\ tasks'[i].val \in tasks'[i].after
                 /\ \A l \in Cells(tasks'[i]) : tasks'[i].after \subseteq may'[l]
                 /\ ~Settled(i) => \A l \in Cells(tasks'[i]) : disk[l] \in tasks'[i].before[l]
      <3>1. CASE i = itt
        <4>1. tasks'[i] = task
          BY <1>2, <3>1
        <4> QED
          BY <2>3, <4>1 DEF FlowInv, StoredAsAcknowledged, After
      <3>2. CASE i # itt
        <4>1. tasks'[i] = tasks[i] /\ Cells(tasks[i]) \subseteq Lbas
          BY <1>2, <2>3, <3>2 DEF FlowInv, TaskInv
        <4> QED
          BY <2>3, <4>1 DEF FlowInv, TaskInv
      <3> QED
        BY <3>1, <3>2
    <2>4. \A i \in Itts : tasks'[i] # None =>
              tasks'[i] \in ReadTask \cup WriteTask /\ Cells(tasks'[i]) \subseteq Lbas
      BY <1>2 DEF FlowInv, TaskInv
    <2>5. \A i \in Itts : Settled(i)' <=> Settled(i)
      BY <1>4 DEF Settled
    <2> QED
      BY <1>4, <2>2, <2>3, <2>4, <2>5 DEF TaskInv, Cells
  <1>6. RxOk(c)'
    <2>1. tasks'[c.itt] = task
      BY <1>2
    <2>2. Issued(c)'
      BY DEF Issued, IssuedRead, IssuedWrite, InRange
    <2> QED
      BY <1>1, <1>3, <2>1, <2>2 DEF RxOk, Of, CarriesOf, Sent
  <1>7. ~Abort(c)
    BY DEF Abort
  <1> QED
    BY <1>1, <1>2, <1>5, <1>6, <1>7, SendFlow

LEMMA InitiatorStepFlow ==
    ASSUME CoreInv, FlowInv, NEW itt \in Itts, InitiatorStep(itt) PROVE FlowInv'
  <1>1. ASSUME NEW r \in Ranges, IssueRead(itt, r) PROVE FlowInv'
    <2> DEFINE task == [op |-> "read", lba |-> r.lba, n |-> r.n]
               c == [op |-> "scsi", itt |-> itt, read |-> TRUE, write |-> FALSE, cdb |-> "read",
                     lba |-> r.lba, blocks |-> r.n, edtl |-> r.n, data |-> <<>>]
    <2>1. r.lba \in Nat /\ r.n \in Nat \ {0} /\ r.lba + r.n <= DiskSize
      BY SessionAssumption
    <2>2. Issue(itt, task, c) /\ UNCHANGED may
      BY <1>1 DEF IssueRead
    <2>3. c \in ScsiCommand /\ task \in ReadTask
      BY <2>1 DEF ScsiCommand, ReadTask
    <2>4. c \in Request /\ c.op = "scsi" /\ c.itt = itt /\ Issued(c)
      BY <2>1, <2>3 DEF Request, Issued, IssuedRead, InRange
    <2>5. task.op = "read" /\ c.cdb = "read" /\ task.lba = c.lba /\ task.n = c.blocks
      OBVIOUS
    <2>6. Cells(task) \subseteq Lbas
      BY <2>1, DiskAssumption DEF Cells, Lbas
    <2>7. may' \in [Lbas -> SUBSET Content] /\ \A l \in Lbas : may[l] \subseteq may'[l]
      BY <2>2 DEF FlowInv, TaskInv
    <2> HIDE DEF task, c
    <2> QED
      BY <2>2, <2>3, <2>4, <2>5, <2>6, <2>7, IssueFlow
  <1>2. ASSUME NEW r \in Ranges, IssueWrite(itt, r) PROVE FlowInv'
    <2> DEFINE v == used.issued + 1
               task(now, seg) == WriteTaskOf(r, v, now, seg)
               c(now) == [op |-> "scsi", itt |-> itt, read |-> FALSE, write |-> TRUE, cdb |-> "write",
                          lba |-> r.lba, blocks |-> r.n, edtl |-> r.n,
                          data |-> [k \in 1 .. now |-> v]]
    <2>1. r.lba \in Nat /\ r.n \in Nat \ {0} /\ r.lba + r.n <= DiskSize
      BY SessionAssumption
    <2>2. PICK now \in 0 .. Smaller(Immediate, r.n), seg \in Segments :
              /\ Issue(itt, task(now, seg), c(now))
              /\ may' = [l \in Lbas |->
                            IF l \in Cells(task(now, seg)) THEN may[l] \cup task(now, seg).after
                                                           ELSE may[l]]
      BY <1>2 DEF IssueWrite
    <2>3. now \in Nat /\ now <= r.n /\ seg \in Nat \ {0}
      BY SessionAssumption, <2>1 DEF Smaller
    <2>4. used.issued \in Nat /\ used.issued < MaxIssued
      BY <2>2 DEF CoreInv, InitiatorTypes, Issue
    <2>5. v \in Val
      BY <2>4, SessionAssumption
    <2> HIDE DEF v
    <2>6. PICK after : after = After(v, r.n - now, seg)
      OBVIOUS
    <2>7. after \subseteq Content /\ v \in after
      BY <2>5, <2>6 DEF After, Content
    <2>8. /\ [k \in 1 .. now |-> v] \in Seq(Val) /\ Len([k \in 1 .. now |-> v]) = now
          /\ \A j \in 1 .. now : [k \in 1 .. now |-> v][j] = v
      BY <2>3, <2>5
    <2>9. may \in [Lbas -> SUBSET Content]
      BY DEF FlowInv, TaskInv
    <2>10. PICK t, d : t = task(now, seg) /\ d = c(now)
      OBVIOUS
    <2>11. t = [op |-> "write", lba |-> r.lba, n |-> r.n, val |-> v, seg |-> seg,
                after |-> after, before |-> may]
      BY <2>6, <2>10 DEF WriteTaskOf
    <2>12. t \in WriteTask
      BY <2>1, <2>3, <2>5, <2>7, <2>9, <2>11 DEF WriteTask
    <2>13. d \in ScsiCommand
      BY <2>1, <2>5, <2>8, <2>10 DEF ScsiCommand
    <2>14. /\ d.op = "scsi" /\ d.itt = itt /\ d.cdb = "write" /\ d.lba = r.lba /\ d.blocks = r.n
           /\ d.edtl = r.n /\ Len(d.data) = now /\ \A j \in 1 .. now : d.data[j] = v
      BY <2>8, <2>10
    <2>15. d \in Request /\ Issued(d)
      <3>1. IssuedWrite(d)
        BY <2>3, <2>10, <2>14 DEF IssuedWrite
      <3> QED
        BY <2>1, <2>13, <2>14, <3>1 DEF Request, Issued, InRange
    <2>16. /\ t.op = "write" /\ t.lba = r.lba /\ t.n = r.n /\ t.val = v /\ t.seg = seg
           /\ t.before = may /\ t.after = after
      BY <2>11
    <2>17. Cells(t) \subseteq Lbas
      BY <2>1, <2>16, DiskAssumption DEF Cells, Lbas
    <2>18. Issue(itt, t, d)
      BY <2>2, <2>10
    <2>19. may' = [l \in Lbas |-> IF l \in Cells(t) THEN may[l] \cup after ELSE may[l]]
      BY <2>2, <2>10, <2>16
    <2> HIDE DEF task, c
    <2>20. may' \in [Lbas -> SUBSET Content] /\ \A l \in Lbas : may[l] \subseteq may'[l]
      BY <2>7, <2>9, <2>19
    <2>21. \A l \in Cells(t) : t.after \subseteq may'[l]
      BY <2>16, <2>17, <2>19
    <2>22. t.after = After(t.val, d.edtl - Len(d.data), t.seg)
      BY <2>6, <2>14, <2>16
    <2>23. \A j \in 1 .. Len(d.data) : d.data[j] \in t.after
      BY <2>7, <2>14, <2>16
    <2> QED
      BY <2>12, <2>14, <2>15, <2>16, <2>17, <2>18, <2>20, <2>21, <2>22, <2>23, IssueFlow
  <1>3. CASE SendAbort(itt)
    <2> DEFINE x == [op |-> "tmf", itt |-> itt]
    <2>1. /\ istage = "up" /\ istage' = "up" /\ rx' = Append(rx, x)
          /\ itt \notin aborting /\ aborting' = aborting \cup {itt}
          /\ UNCHANGED <<vars, tasks, may>>
      BY <1>3 DEF SendAbort
    <2>2. x \in Request /\ x.op = "tmf" /\ x.itt = itt
      BY DEF Request, OtherRequest
    <2> HIDE DEF x
    <2>3. ~Work(x) /\ RxOk(x)'
      BY <2>1, <2>2 DEF Work, RxOk
    <2>4. TaskInv'
      BY <2>1 DEF FlowInv, TaskInv, Settled, vars
    <2> QED
      BY <2>1, <2>2, <2>3, <2>4, SendFlow
  <1> QED
    BY <1>1, <1>2, <1>3 DEF InitiatorStep

LEMMA SendOtherFlow == CoreInv /\ FlowInv /\ (SendNop \/ SendLogout) => FlowInv'
  <1> SUFFICES ASSUME CoreInv, FlowInv, SendNop \/ SendLogout PROVE FlowInv'
    OBVIOUS
  <1>1. PICK x : x \in {[op |-> "nop", itt |-> NoTask], [op |-> "logout", itt |-> NoTask]}
                   /\ rx' = Append(rx, x)
    BY DEF SendNop, SendLogout
  <1>2. NoTask \in Itts
    BY SessionAssumption DEF NoTask
  <1>3. x \in Request /\ x.op \in {"nop", "logout"}
    BY <1>1, <1>2 DEF Request, OtherRequest
  <1>4. /\ istage = "up" /\ istage' \in {"up", "logout"} /\ aborting' = aborting
        /\ UNCHANGED <<vars, tasks, may>>
    BY DEF SendNop, SendLogout
  <1>5. ~Work(x) /\ ~Abort(x) /\ RxOk(x)'
    BY <1>3 DEF Work, Abort, RxOk
  <1>6. TaskInv'
    BY <1>4 DEF FlowInv, TaskInv, Settled, vars
  <1> QED
    BY <1>1, <1>3, <1>4, <1>5, <1>6, SendFlow

-----------------------------------------------------------------------------
(* The responses as the initiator reads them *)

LEMMA DivCovers ==
    ASSUME NEW a \in Nat, NEW b \in Nat \ {0}
    PROVE  ((a + b - 1) \div b) * b >= a
  <1> DEFINE c == a + b - 1
             n == c \div b
  <1>1. c \in Nat /\ n \in Nat /\ c = (n * b) + (c % b) /\ c % b \in 0 .. b - 1
    OBVIOUS
  <1>2. n * b \in Nat
    BY <1>1
  <1> HIDE DEF n
  <1>3. n * b >= a
    BY <1>1, <1>2
  <1> QED
    BY <1>3 DEF n

\* The PDUs of D answer the R2T r: they continue each other over what it asks
\* for, and one is enough when it asks for no more than a PDU.
AnswersAsk(D, i, task, r) ==
    /\ D \in Seq(Request) /\ Len(D) \in Nat \ {0}
    /\ \A k \in 1 .. Len(D) :
          /\ D[k].op = "dataout" /\ D[k].itt = i
          /\ D[k].off \in Nat /\ D[k].off >= r.off /\ Len(D[k].data) \in Nat \ {0}
          /\ DataEnd(D[k]) <= r.off + r.len
          /\ \A j \in 1 .. Len(D[k].data) : D[k].data[j] = task.val
    /\ \A m : Chain(D, i, r.off, m)
    /\ DataEnd(D[Len(D)]) = r.off + r.len
    /\ r.len <= task.seg => Len(D) = 1 /\ D[1].off = r.off

LEMMA DataOutsFacts ==
    ASSUME NEW i \in Itts, NEW task, Sends(task), NEW r \in [off : Nat, len : Nat], r.len > 0,
           NEW D, D = DataOuts(i, task, r)
    PROVE  AnswersAsk(D, i, task, r)
  <1> DEFINE seg == task.seg
             len == r.len
             n == (len + seg - 1) \div seg
             P(k) == (k - 1) * seg
             size(k) == Smaller(seg, len - P(k))
             data(k) == [j \in 1 .. size(k) |-> task.val]
             pdu(k) == [op |-> "dataout", itt |-> i, off |-> r.off + P(k), data |-> data(k)]
  <1>1. len \in Nat /\ len > 0 /\ r.off \in Nat /\ seg \in Nat \ {0} /\ task.val \in Val
    BY DEF Sends
  <1>2. D = [k \in 1 .. n |-> pdu(k)]
    BY DEF DataOuts
  <1>3. D \in Seq(Request)
    BY DataOutsType
  <1>4. n \in Nat \ {0} /\ \A k \in 1 .. n : P(k) \in Nat /\ P(k) < len
    BY <1>1, DivRange
  <1>5. n * seg >= len
    BY <1>1, DivCovers
  <1> HIDE DEF n
  <1>6. P(1) = 0 /\ P(n) + seg >= len
    <2>1. P(1) = 0 /\ n * seg = P(n) + seg
      BY <1>1, <1>4
    <2> QED
      BY <1>5, <2>1
  <1>7. ASSUME NEW k \in 1 .. n, NEW j \in 1 .. k - 1 PROVE P(j) + seg <= P(k)
    <2>1. P(k) - P(j) = (k - j) * seg
      BY <1>1, <1>4
    <2>2. k - j >= 1 /\ k - j \in Nat
      BY <1>4
    <2>3. (k - j) * seg >= seg
      BY <1>1, <2>2
    <2>4. P(k) \in Int /\ P(j) \in Int
      BY <1>1, <1>4
    <2> HIDE DEF P
    <2> QED
      BY <1>1, <2>1, <2>3, <2>4
  <1>8. ASSUME NEW k \in 1 .. n, k # 1 PROVE P(k - 1) + seg = P(k) /\ k - 1 \in 1 .. k - 1
    BY <1>1, <1>4, <1>8
  <1> HIDE DEF P
  <1>9. Len(D) = n /\ \A k \in 1 .. n : D[k] = pdu(k)
    BY <1>2, <1>4
  <1>10. ASSUME NEW k \in 1 .. n
         PROVE  /\ D[k].op = "dataout" /\ D[k].itt = i /\ D[k].off = r.off + P(k)
                /\ Len(D[k].data) = size(k) /\ size(k) \in Nat \ {0}
                /\ DataEnd(D[k]) = r.off + P(k) + size(k)
                /\ \A j \in 1 .. Len(D[k].data) : D[k].data[j] = task.val
    <2>1. size(k) \in Nat \ {0}
      BY <1>1, <1>4 DEF Smaller
    <2> HIDE DEF size
    <2>2. Len(data(k)) = size(k) /\ \A j \in 1 .. size(k) : data(k)[j] = task.val
      BY <2>1
    <2> HIDE DEF data
    <2>3. /\ D[k].op = "dataout" /\ D[k].itt = i /\ D[k].off = r.off + P(k) /\ D[k].data = data(k)
      BY <1>9
    <2> QED
      BY <2>1, <2>2, <2>3 DEF DataEnd
  <1>11. ASSUME NEW k \in 1 .. n
         PROVE  size(k) <= seg /\ P(k) + size(k) <= len /\ (k = n => P(k) + size(k) = len)
                /\ (P(k) + seg <= len => size(k) = seg)
    <2>1. PICK p, z : p = P(k) /\ z = size(k)
      OBVIOUS
    <2>2. p \in Nat /\ p < len /\ z = Smaller(seg, len - p) /\ (k = n => p + seg >= len)
      BY <1>4, <1>6, <2>1
    <2>3. z <= seg /\ p + z <= len /\ (p + seg >= len => p + z = len) /\ (p + seg <= len => z = seg)
      BY <1>1, <2>2 DEF Smaller
    <2> QED
      BY <2>1, <2>2, <2>3
  <1> HIDE DEF pdu, data, size
  <1>12. ASSUME NEW k \in 1 .. n, k # 1
         PROVE  DataEnd(D[k - 1]) = D[k].off
    <2>1. PICK j : j = k - 1
      OBVIOUS
    <2>2. j \in 1 .. n /\ P(j) + seg = P(k) /\ P(k) < len
      BY <1>4, <1>8, <1>12, <2>1
    <2>3. size(j) = seg
      BY <1>1, <1>4, <1>11, <2>2
    <2> QED
      BY <1>1, <1>4, <1>10, <2>1, <2>2, <2>3
  <1>13. ASSUME NEW m PROVE Chain(D, i, r.off, m)
    <2> SUFFICES ASSUME NEW k \in 1 .. n
                 PROVE  /\ \A j \in 1 .. k - 1 : DataOf(D[j], i) => DataEnd(D[j]) <= D[k].off
                        /\ \/ D[k].off = r.off
                           \/ \E j \in 1 .. k - 1 : DataOf(D[j], i) /\ DataEnd(D[j]) = D[k].off
      BY <1>9 DEF Chain
    <2>1. ASSUME NEW j \in 1 .. k - 1 PROVE DataEnd(D[j]) <= D[k].off
      <3>1. j \in 1 .. n /\ P(j) + seg <= P(k)
        BY <1>4, <1>7
      <3>2. size(j) <= seg /\ size(j) \in Nat /\ P(j) \in Nat /\ P(k) \in Nat
        BY <1>4, <1>10, <1>11, <3>1
      <3>3. DataEnd(D[j]) = r.off + P(j) + size(j) /\ D[k].off = r.off + P(k)
        BY <1>10, <3>1
      <3> QED
        BY <1>1, <3>1, <3>2, <3>3
    <2>2. CASE k = 1
      BY <1>1, <1>6, <1>10, <2>1, <2>2
    <2>3. CASE k # 1
      <3>1. PICK j : j = k - 1
        OBVIOUS
      <3>2. j \in 1 .. k - 1 /\ j \in 1 .. n /\ DataEnd(D[j]) = D[k].off
        BY <1>4, <1>12, <2>3, <3>1
      <3>3. DataOf(D[j], i)
        BY <1>10, <3>2 DEF DataOf
      <3> QED
        BY <2>1, <3>2, <3>3
    <2> QED
      BY <2>2, <2>3
  <1>14. DataEnd(D[n]) = r.off + len
    <2>1. PICK o, p, z, e : o = r.off /\ p = P(n) /\ z = size(n) /\ e = DataEnd(D[n])
      OBVIOUS
    <2>2. p \in Nat /\ z \in Nat /\ e = o + p + z /\ p + z = len
      BY <1>4, <1>10, <1>11, <2>1
    <2> QED
      BY <1>1, <2>1, <2>2
  <1>15. len <= seg => n = 1 /\ D[1].off = r.off
    <2>1. ASSUME len <= seg, n # 1 PROVE FALSE
      <3>1. P(1) + seg <= P(n) /\ P(n) < len /\ P(n) \in Nat
        BY <1>4, <1>7, <2>1
      <3> QED
        BY <1>1, <1>6, <2>1, <3>1
    <2>2. n = 1 => D[1].off = r.off
      BY <1>1, <1>6, <1>10
    <2> QED
      BY <2>1, <2>2
  <1>16. ASSUME NEW k \in 1 .. n
         PROVE  D[k].off \in Nat /\ D[k].off >= r.off /\ DataEnd(D[k]) <= r.off + len
    <2>1. PICK o, p, z, e, f : o = r.off /\ p = P(k) /\ z = size(k) /\ e = DataEnd(D[k]) /\ f = D[k].off
      OBVIOUS
    <2>2. p \in Nat /\ z \in Nat /\ e = o + p + z /\ f = o + p /\ p + z <= len
      BY <1>4, <1>10, <1>11, <1>16, <2>1
    <2> QED
      BY <1>1, <2>1, <2>2
  <1> QED
    BY <1>3, <1>4, <1>9, <1>10, <1>13, <1>14, <1>15, <1>16 DEF AnswersAsk

\* What is left when the initiator has read the first response.
Rest ==
    /\ Ordered(tx') /\ Apart(tx', rx)
    /\ \A k \in 1 .. Len(tx') :
          /\ tx'[k] \in Response /\ Tagged(tx'[k]) /\ TxOk(tx'[k])
          /\ ~Clash(tx[1], tx'[k])
    /\ \A k \in 1 .. Len(rx) : rx[k] \in Request /\ RxOk(rx[k]) /\ ~Crosses(tx[1], rx[k])
    /\ \A i \in Itts :
          /\ TxLike(i)
          /\ Settled(i) => Settled(i)' \/ (tx[1].op = "scsi" /\ tx[1].itt = i)
          /\ ~(Final(tx[1]) /\ tx[1].itt = i) => (Answered(i) => Answered(i)')
          /\ ~AskOf(tx[1], i) /\ istage' # "down" => (Asked(i) => Asked(i)')

LEMMA ReceiveRest ==
    ASSUME CoreInv, FlowInv, istage # "down", tx # <<>>, tx' = Tail(tx) PROVE Rest
  <1>1. /\ tx \in Seq(Response) /\ rx \in Seq(Request)
        /\ \A k \in 1 .. Len(tx) : tx[k] \in Response /\ Tagged(tx[k])
        /\ \A k \in 1 .. Len(rx) : rx[k] \in Request /\ RxOk(rx[k])
    BY DEF CoreInv, StreamTypes, TargetInv, TypeOK, FlowInv, RxInv
  <1>2. /\ Ordered(tx) /\ Apart(tx, rx)
        /\ \A k \in 1 .. Len(tx) : TxOk(tx[k])
    BY <1>1 DEF FlowInv, TxInv
  <1>3. /\ Len(tx) \in Nat \ {0} /\ Len(tx') = Len(tx) - 1 /\ 1 \in 1 .. Len(tx)
        /\ \A k \in 1 .. Len(tx') : k + 1 \in 1 .. Len(tx) /\ tx'[k] = tx[k + 1]
    BY <1>1, TailElems
  <1>4. Ordered(tx') /\ \A k \in 1 .. Len(tx') : ~Clash(tx[1], tx'[k])
    BY <1>1, <1>2, OrderedTail
  <1>5. Apart(tx', rx) /\ \A k \in 1 .. Len(rx) : ~Crosses(tx[1], rx[k])
    BY <1>2, <1>3 DEF Apart
  <1>6. \A k \in 1 .. Len(tx') : tx'[k] \in Response /\ Tagged(tx'[k]) /\ TxOk(tx'[k])
    <2> SUFFICES ASSUME NEW k \in 1 .. Len(tx')
                 PROVE  tx'[k] \in Response /\ Tagged(tx'[k]) /\ TxOk(tx'[k])
      OBVIOUS
    <2>1. k + 1 \in 1 .. Len(tx) /\ tx'[k] = tx[k + 1]
      BY <1>3
    <2> QED
      BY <1>1, <1>2, <2>1
  <1>7. ASSUME NEW i \in Itts
        PROVE  /\ TxLike(i)
               /\ ~(Final(tx[1]) /\ tx[1].itt = i) => (Answered(i) => Answered(i)')
               /\ ~AskOf(tx[1], i) /\ istage' # "down" => (Asked(i) => Asked(i)')
    BY <1>1, TxTail
  <1>8. ASSUME NEW i \in Itts, Settled(i), ~(tx[1].op = "scsi" /\ tx[1].itt = i) PROVE Settled(i)'
    <2>1. PICK k \in 1 .. Len(tx) : tx[k].op = "scsi" /\ tx[k].itt = i
      BY <1>8 DEF Settled
    <2>2. k # 1
      BY <1>8, <2>1
    <2>3. PICK j : j = k - 1
      OBVIOUS
    <2>4. j \in 1 .. Len(tx') /\ k = j + 1
      BY <1>3, <2>1, <2>2, <2>3
    <2>5. tx'[j] = tx[k]
      BY <1>3, <2>4
    <2> QED
      BY <2>1, <2>4, <2>5 DEF Settled
  <1> QED
    BY <1>1, <1>4, <1>5, <1>6, <1>7, <1>8 DEF Rest

\* A response that ends nothing and that the initiator does not answer.
LEMMA QuietFlow ==
    ASSUME CoreInv, FlowInv, Rest, ~Final(tx[1]), istage # "down",
           tx[1].op = "r2t" => tx[1].itt \in aborting,
           UNCHANGED <<stage, params, in_flight, disk, rx, istage, tasks, aborting, may>>
    PROVE  FlowInv'
  <1>1. StoredAsAcknowledged' /\ FlightOk' /\ BurstInv'
    BY DEF FlowInv, StoredAsAcknowledged, FlightOk, BurstInv
  <1>2. TaskInv'
    BY DEF FlowInv, TaskInv, Rest, Final
  <1>3. ASSUME NEW x, RxOk(x) PROVE RxOk(x)'
    BY <1>3 DEF RxOk, Of, CarriesOf, Sent, Issued, IssuedRead, IssuedWrite, InRange
  <1>4. ASSUME NEW p, TxOk(p) PROVE TxOk(p)'
    BY <1>4 DEF TxOk, ReadOk, StoredOf, Cells
  <1>5. RxInv'
    BY <1>3 DEF FlowInv, RxInv
  <1>6. TxInv'
    BY <1>4 DEF TxInv, Rest, Apart
  <1>7. ASSUME NEW i \in Itts PROVE LiveOk(i)' /\ PursuedOk(i)'
    <2>1. RxLike(i) /\ TxLike(i)
      BY RxSame DEF Rest
    <2>2. \A c : SentKept(i, c)
      BY DEF SentKept, Sent
    <2>3. rx' \in Seq(Request)
      BY DEF CoreInv, StreamTypes
    <2>4. LiveOk(i)'
      BY <2>1, <2>2, <2>3, LiveKept DEF FlowInv, LiveInv
    <2>5. PursuedOk(i)'
      <3>1. CASE i \in aborting
        BY <3>1 DEF PursuedOk
      <3>2. CASE i \notin aborting
        <4>1. ~AskOf(tx[1], i)
          BY <3>2 DEF AskOf
        <4>2. (Answered(i) => Answered(i)') /\ (Asked(i) => Asked(i)')
          BY <4>1 DEF Rest
        <4> QED
          BY <2>1, <4>2, PursuedKept DEF FlowInv, PursuedInv
      <3> QED
        BY <3>1, <3>2
    <2> QED
      BY <2>4, <2>5
  <1> QED
    BY <1>1, <1>2, <1>5, <1>6, <1>7 DEF FlowInv, LiveInv, PursuedInv

\* The end of the login, or of the session.
LEMMA StageFlow ==
    ASSUME CoreInv, FlowInv, Rest, istage # "up", istage # "down",
           UNCHANGED <<stage, params, in_flight, disk, rx, tasks, aborting, may>>
    PROVE  FlowInv'
  <1>1. StoredAsAcknowledged' /\ FlightOk' /\ BurstInv'
    BY DEF FlowInv, StoredAsAcknowledged, FlightOk, BurstInv
  <1>2. \A i \in Itts : tasks[i] = None /\ i \notin aborting
    BY TaskUp
  <1>3. TaskInv'
    BY <1>2 DEF FlowInv, TaskInv
  <1>4. ASSUME NEW x \in Request, RxOk(x) PROVE RxOk(x)'
    <2>1. x.op # "scsi" /\ ~Abort(x)
      BY <1>2, <1>4, RxOwner, RequestTag DEF Work
    <2> QED
      BY <2>1 DEF RxOk, Abort
  <1>5. ASSUME NEW p \in Response, Tagged(p), TxOk(p) PROVE TxOk(p)'
    <2>1. ~Work(p) /\ ~Abort(p)
      BY <1>2, <1>5, TxOwner, ResponseTag
    <2> QED
      BY <2>1 DEF TxOk, Work, Abort
  <1>6. RxInv'
    BY <1>4 DEF FlowInv, RxInv, Rest
  <1>7. TxInv'
    BY <1>5 DEF TxInv, Rest, Apart
  <1>8. ASSUME NEW i \in Itts PROVE LiveOk(i)' /\ PursuedOk(i)'
    <2>1. LiveOk(i) /\ TxLike(i) /\ tasks[i] = None
      BY <1>2 DEF FlowInv, LiveInv, Rest
    <2>2. ~(in_flight[i] # None /\ (Sending(i) \/ Asked(i)))
      BY <2>1, LiveOwner
    <2>3. Sending(i)' <=> Sending(i)
      BY DEF Sending
    <2>4. Asked(i)' => Asked(i)
      BY <2>1 DEF Asked, TxLike
    <2>5. LiveOk(i)'
      BY <2>2, <2>3, <2>4 DEF LiveOk
    <2> QED
      BY <2>1, <2>5 DEF PursuedOk
  <1> QED
    BY <1>1, <1>3, <1>6, <1>7, <1>8 DEF FlowInv, LiveInv, PursuedInv

\* The end of a command: nothing of it is left but Data-Out PDUs that nobody
\* waits for.
LEMMA EndFlow ==
    ASSUME CoreInv, FlowInv, Rest, NEW i \in Itts, tx[1].itt = i,
           Final(tx[1]) \/ Abort(tx[1]), istage # "down", tx \in Seq(Response), tx # <<>>,
           TxOk(tx[1]),
           UNCHANGED <<stage, params, in_flight, disk, rx, istage>>,
           tasks' = [tasks EXCEPT ![i] = None],
           aborting' = IF Abort(tx[1]) THEN aborting \ {i} ELSE aborting,
           may' \in [Lbas -> SUBSET Content],
           \A l \in Lbas : disk[l] \in may'[l],
           \A l \in Lbas : may'[l] = may[l] \/ (tasks[i] # None /\ l \in Cells(tasks[i]))
    PROVE  FlowInv'
  <1>1. StoredAsAcknowledged' /\ FlightOk' /\ BurstInv'
    BY DEF FlowInv, StoredAsAcknowledged, FlightOk, BurstInv
  <1>2. \A j \in Itts : tasks'[j] = IF j = i THEN None ELSE tasks[j]
    BY DEF CoreInv, InitiatorTypes
  <1>3. ASSUME NEW j \in Itts, j # i, tasks[j] # None, NEW l \in Cells(tasks[j])
        PROVE  l \in Lbas /\ may'[l] = may[l]
    <2>1. l \in Lbas
      BY <1>3 DEF FlowInv, TaskInv
    <2>2. tasks[i] # None => l \notin Cells(tasks[i])
      BY <1>3 DEF FlowInv, TaskInv
    <2> QED
      BY <2>1, <2>2
  <1>4. TaskInv'
    <2>1. ASSUME NEW j \in Itts, tasks'[j] # None
          PROVE  /\ tasks'[j] \in ReadTask \cup WriteTask /\ Cells(tasks'[j]) \subseteq Lbas
                 /\ tasks'[j].op = "write" =>
                       /\ tasks'[j].val \in tasks'[j].after
                       /\ \A l \in Cells(tasks'[j]) : tasks'[j].after \subseteq may'[l]
                       /\ ~Settled(j)' => \A l \in Cells(tasks'[j]) : disk'[l] \in tasks'[j].before[l]
      <3>1. j # i /\ tasks'[j] = tasks[j] /\ tasks[j] # None
        BY <1>2, <2>1
      <3>2. Settled(j) => Settled(j)'
        BY <3>1 DEF Rest
      <3> QED
        BY <1>3, <3>1, <3>2 DEF FlowInv, TaskInv
    <2>2. \A j, k \in Itts : j # k /\ tasks'[j] # None /\ tasks'[k] # None =>
              Cells(tasks'[j]) \cap Cells(tasks'[k]) = {}
      BY <1>2 DEF FlowInv, TaskInv
    <2> QED
      BY <2>1, <2>2 DEF TaskInv, Cells
  <1>5. ASSUME NEW x \in Request, RxOk(x), ~Crosses(tx[1], x) PROVE RxOk(x)'
    <2>1. CASE x.op = "scsi"
      <3>1. x.itt \in Itts /\ x.itt # i /\ tasks'[x.itt] = tasks[x.itt]
        BY <1>2, <1>5, <2>1, RequestTag DEF Crosses, Work
      <3> QED
        BY <1>5, <2>1, <3>1
        DEF RxOk, Of, CarriesOf, Sent, Issued, IssuedRead, IssuedWrite, InRange
    <2>2. CASE x.op # "scsi"
      <3>1. Abort(x) => x.itt \in aborting'
        BY <1>5, RxOwner DEF Crosses
      <3> QED
        BY <2>2, <3>1 DEF RxOk, Abort
    <2> QED
      BY <2>1, <2>2
  <1>6. ASSUME NEW p \in Response, Tagged(p), TxOk(p), ~Clash(tx[1], p) PROVE TxOk(p)'
    <2>1. Work(p) => p.itt \in Itts /\ p.itt # i /\ tasks'[p.itt] = tasks[p.itt]
      BY <1>2, <1>6, ResponseTag DEF Clash
    <2>2. Abort(p) => p.itt \in aborting'
      BY <1>6, TxOwner DEF Clash
    <2>3. CASE p.op = "scsi"
      BY <1>6, <2>1, <2>3 DEF TxOk, StoredOf, Cells, Work
    <2>4. CASE p.op = "datain"
      <3>1. /\ p.itt \in Itts /\ p.itt # i /\ tasks'[p.itt] = tasks[p.itt] /\ tasks[p.itt] # None
            /\ tasks[p.itt].op = "read" /\ ReadOk(p.body, tasks[p.itt])
        BY <1>6, <2>1, <2>4 DEF TxOk, Work
      <3>2. ASSUME NEW k \in 1 .. Len(p.body.data)
            PROVE  p.body.data[k] \in may'[tasks[p.itt].lba + p.body.off + k - 1]
        <4>1. tasks[p.itt].lba + p.body.off + k - 1 \in Cells(tasks[p.itt])
          BY <3>1, ReadCells DEF FlowInv
        <4> QED
          BY <1>3, <3>1, <4>1 DEF ReadOk
      <3>3. ReadOk(p.body, tasks[p.itt])'
        BY <3>1, <3>2 DEF ReadOk
      <3> QED
        BY <2>4, <3>1, <3>3 DEF TxOk
    <2>5. CASE p.op = "r2t"
      BY <1>6, <2>1, <2>5 DEF TxOk, Work
    <2>6. CASE p.op \notin {"scsi", "datain", "r2t"}
      BY <2>2, <2>6 DEF TxOk, Abort
    <2> QED
      BY <2>3, <2>4, <2>5, <2>6
  <1>7. RxInv'
    BY <1>5 DEF FlowInv, RxInv, Rest
  <1>8. TxInv'
    BY <1>6 DEF TxInv, Rest, Apart
  <1>9. ASSUME in_flight[i] # None, Sending(i)' \/ Asked(i)' PROVE FALSE
    <2>1. Sending(i)' => Sending(i)
      BY DEF Sending
    <2>2. TxLike(i)
      BY DEF Rest
    <2>3. Asked(i)' => \E k \in 1 .. Len(tx') : AskOf(tx'[k], i)
      BY DEF Asked
    <2>4. Asked(i)' => Asked(i)
      BY <2>2, <2>3 DEF Asked, TxLike
    <2>5. PICK w : w = in_flight[i] /\ Held(i, w)
      BY <1>9, <2>1, <2>4 DEF FlowInv, LiveInv, LiveOk
    <2>6. CASE Abort(tx[1])
      <3>1. ~Sending(i)
        BY <2>6 DEF Rest, Sending, DataOf, Crosses, Work
      <3>2. ~Asked(i)'
        BY <2>3, <2>6 DEF Rest, AskOf, Clash, Work
      <3> QED
        BY <1>9, <2>1, <3>1, <3>2
    <2>7. CASE tx[1].op = "scsi"
      <3>1. Settled(i)
        <4>1. 1 \in 1 .. Len(tx)
          BY TailElems
        <4> QED
          BY <2>7, <4>1 DEF Settled
      <3> QED
        BY <2>5, <3>1 DEF Held
    <2>8. CASE tx[1].op = "datain"
      <3>1. tasks[i].op = "read"
        BY <2>8 DEF TxOk
      <3>2. tasks[i].op = "write"
        BY <1>9, <2>5 DEF Held, Of, FlowInv, FlightOk, IssuedWrite
      <3> QED
        BY <3>1, <3>2
    <2> QED
      BY <2>6, <2>7, <2>8 DEF Final
  <1>10. ASSUME NEW j \in Itts PROVE LiveOk(j)' /\ PursuedOk(j)'
    <2>1. CASE j = i
      BY <1>2, <1>9, <2>1 DEF LiveOk, PursuedOk
    <2>2. CASE j # i
      <3>1. RxLike(j) /\ TxLike(j) /\ tasks'[j] = tasks[j]
        BY <1>2, <2>2, RxSame DEF Rest
      <3>2. \A c : SentKept(j, c)
        BY <3>1 DEF SentKept, Sent
      <3>3. rx' \in Seq(Request)
        BY DEF CoreInv, StreamTypes
      <3>4. LiveOk(j)'
        BY <3>1, <3>2, <3>3, LiveKept DEF FlowInv, LiveInv
      <3>5. (Answered(j) => Answered(j)') /\ (Asked(j) => Asked(j)')
        BY <2>2 DEF Rest, AskOf
      <3>6. j \notin aborting' => j \notin aborting
        BY <2>2
      <3>7. PursuedOk(j)'
        BY <3>1, <3>5, <3>6, PursuedKept DEF FlowInv, PursuedInv
      <3> QED
        BY <3>4, <3>7
    <2> QED
      BY <2>1, <2>2
  <1> QED
    BY <1>1, <1>4, <1>7, <1>8, <1>10 DEF FlowInv, LiveInv, PursuedInv

\* The initiator answers an R2T with the data it asks for.
LEMMA SolicitedFlow ==
    ASSUME CoreInv, FlowInv, Rest, istage # "down", NEW i \in Itts, tx[1].itt = i, tx[1].op = "r2t",
           tx \in Seq(Response), tx # <<>>, tx' = Tail(tx), Tagged(tx[1]), TxOk(tx[1]),
           tasks[i] # None, tasks[i].op = "write", i \notin aborting,
           rx' = rx \o DataOuts(i, tasks[i], tx[1].body),
           UNCHANGED <<stage, params, in_flight, disk, istage, tasks, aborting, may>>
    PROVE  FlowInv'
  <1>1. PICK r, task : r = tx[1].body /\ task = tasks[i]
    OBVIOUS
  <1>2. /\ r \in [off : Nat, len : Nat] /\ Sends(task)
        /\ r.len > 0 /\ r.off + r.len <= task.n
    BY <1>1 DEF Tagged, TxOk, CoreInv, InitiatorTypes
  <1>3. PICK D : D = DataOuts(i, task, r)
    OBVIOUS
  <1>4. /\ D \in Seq(Request) /\ Len(D) \in Nat \ {0}
        /\ \A k \in 1 .. Len(D) :
              /\ D[k].op = "dataout" /\ D[k].itt = i
              /\ D[k].off \in Nat /\ D[k].off >= r.off /\ Len(D[k].data) \in Nat \ {0}
              /\ DataEnd(D[k]) <= r.off + r.len
              /\ \A j \in 1 .. Len(D[k].data) : D[k].data[j] = task.val
        /\ \A m : Chain(D, i, r.off, m)
        /\ DataEnd(D[Len(D)]) = r.off + r.len
        /\ r.len <= task.seg => Len(D) = 1 /\ D[1].off = r.off
    <2>1. AnswersAsk(D, i, task, r)
      BY <1>2, <1>3, DataOutsFacts
    <2> QED
      BY <2>1 DEF AnswersAsk
  <1>5. rx \in Seq(Request) /\ rx' = rx \o D
    BY <1>1, <1>3 DEF CoreInv, StreamTypes
  <1>6. rx' \in Seq(Request) /\ \A k \in 1 .. Len(rx') :
            (k \in 1 .. Len(rx) /\ rx'[k] = rx[k]) \/ \E j \in 1 .. Len(D) : rx'[k] = D[j]
    BY <1>4, <1>5, ConcatElems
  <1>7. StoredAsAcknowledged' /\ FlightOk' /\ BurstInv'
    BY DEF FlowInv, StoredAsAcknowledged, FlightOk, BurstInv
  <1>22. \A k \in 1 .. Len(rx') :
            (k \in 1 .. Len(rx) /\ rx'[k] = rx[k]) \/ (rx'[k].op = "dataout" /\ rx'[k].itt = i)
    <2>1. \A j \in 1 .. Len(D) : D[j].op = "dataout" /\ D[j].itt = i
      BY <1>4
    <2> SUFFICES ASSUME NEW k \in 1 .. Len(rx'), NEW j \in 1 .. Len(D), rx'[k] = D[j]
                 PROVE  rx'[k].op = "dataout" /\ rx'[k].itt = i
      BY <1>6
    <2> QED
      BY <2>1
  <1>8. TaskInv'
    BY DEF FlowInv, TaskInv, Rest
  <1>9. ASSUME NEW x, RxOk(x) PROVE RxOk(x)'
    BY <1>9 DEF RxOk, Of, CarriesOf, Sent, Issued, IssuedRead, IssuedWrite, InRange
  <1>10. ASSUME NEW p, TxOk(p) PROVE TxOk(p)'
    BY <1>10 DEF TxOk, ReadOk, StoredOf, Cells
  <1>11. RxInv'
    <2>1. ASSUME NEW k \in 1 .. Len(rx), NEW j \in 1 .. Len(D) PROVE ~Clash(rx[k], D[j])
      <3>1. rx[k] \in Request /\ RxOk(rx[k]) /\ ~Crosses(tx[1], rx[k])
        BY DEF Rest
      <3>2. ~(rx[k].op = "scsi" /\ rx[k].itt = i)
        BY <3>1 DEF Crosses
      <3>3. Abort(rx[k]) => rx[k].itt # i
        BY <3>1, RxOwner
      <3> QED
        BY <1>4, <3>2, <3>3 DEF Clash
    <2>2. Ahead(rx, D) /\ Ordered(rx)
      BY <2>1 DEF Ahead, FlowInv, RxInv
    <2>3. Ordered(D)
      <3>1. ASSUME NEW k \in 1 .. Len(D), NEW j \in 1 .. k - 1 PROVE ~Clash(D[j], D[k])
        <4>1. j \in 1 .. Len(D)
          BY <1>4
        <4> QED
          BY <1>4, <4>1 DEF Clash, Final, Abort
      <3> QED
        BY <3>1 DEF Ordered
    <2>4. Ordered(rx')
      BY <1>4, <1>5, <2>2, <2>3, OrderedConcat
    <2>5. ASSUME NEW k \in 1 .. Len(rx)' PROVE RxOk(rx[k])'
      <3>1. PICK y : y = rx'[k]
        OBVIOUS
      <3>2. RxOk(y) \/ y.op = "dataout"
        BY <1>22, <3>1 DEF FlowInv, RxInv
      <3>3. RxOk(y)'
        BY <1>9, <3>2 DEF RxOk
      <3> QED
        BY <3>1, <3>3
    <2> QED
      BY <2>4, <2>5 DEF RxInv
  <1>12. TxInv'
    <2>1. ASSUME NEW k \in 1 .. Len(tx'), NEW j \in 1 .. Len(D) PROVE ~Crosses(tx'[k], D[j])
      <3>1. TxOk(tx'[k])
        BY DEF Rest
      <3>2. Abort(tx'[k]) => tx'[k].itt # i
        BY <3>1, TxOwner
      <3> QED
        BY <1>4, <3>2 DEF Crosses
    <2>2. PICK u, v : u = tx' /\ v = rx'
      OBVIOUS
    <2>3. \A k \in 1 .. Len(u) : \A j \in 1 .. Len(rx) : ~Crosses(u[k], rx[j])
      BY <2>2 DEF Apart, Rest
    <2>4. ASSUME NEW k \in 1 .. Len(v)
          PROVE  (\E j \in 1 .. Len(rx) : v[k] = rx[j]) \/ \E j \in 1 .. Len(D) : v[k] = D[j]
      BY <1>6, <2>2
    <2>5. ASSUME NEW k \in 1 .. Len(u), NEW j \in 1 .. Len(v) PROVE ~Crosses(u[k], v[j])
      <3>1. ASSUME NEW m \in 1 .. Len(rx), v[j] = rx[m] PROVE ~Crosses(u[k], v[j])
        BY <2>3, <3>1
      <3>2. ASSUME NEW m \in 1 .. Len(D), v[j] = D[m] PROVE ~Crosses(u[k], v[j])
        <4>1. ~Crosses(u[k], D[m])
          BY <2>1, <2>2
        <4> QED
          BY <3>2, <4>1
      <3> QED
        BY <2>4, <3>1, <3>2
    <2>6. Apart(tx', rx')
      BY <2>2, <2>5 DEF Apart
    <2> QED
      BY <1>10, <2>6 DEF TxInv, Rest
  <1>13. ASSUME NEW j \in Itts PROVE TxLike(j) /\ (Answered(j) => Answered(j)')
    BY DEF Rest, Final
  <1>14. ASSUME NEW j \in Itts, j # i PROVE LiveOk(j)' /\ PursuedOk(j)'
    <2>1. \A k \in 1 .. Len(D) : ~DataOf(D[k], j) /\ ~(D[k].op = "scsi" /\ D[k].itt = j)
      BY <1>4, <1>14 DEF DataOf
    <2>2. RxLike(j)
      BY <1>4, <1>5, <2>1, RxConcat
    <2>3. \A c : SentKept(j, c)
      BY DEF SentKept, Sent
    <2>4. LiveOk(j)'
      BY <1>6, <1>13, <2>2, <2>3, LiveKept DEF FlowInv, LiveInv
    <2>5. Asked(j) => Asked(j)'
      BY <1>14 DEF Rest, AskOf
    <2>6. PursuedOk(j)'
      BY <1>13, <2>2, <2>5, PursuedKept DEF FlowInv, PursuedInv
    <2> QED
      BY <2>4, <2>6
  <1>15. PICK s, t : s = rx' /\ t = tx'
    OBVIOUS
  <1>16. /\ Len(s) = Len(rx) + Len(D) /\ Len(rx) \in Nat
         /\ \A k \in 1 .. Len(rx) : k \in 1 .. Len(s) /\ s[k] = rx[k]
         /\ \A k \in 1 .. Len(D) : k + Len(rx) \in 1 .. Len(s) /\ s[k + Len(rx)] = D[k]
    BY <1>4, <1>5, <1>15, ConcatIndex
  <1>17. \A k \in 1 .. Len(D) : \E j \in 1 .. Len(s) : s[j] = D[k]
    BY <1>16
  <1>18. Sending(i)'
    <2>1. DataOf(D[Len(D)], i) /\ Len(D) \in 1 .. Len(D)
      BY <1>4 DEF DataOf
    <2>2. Sending(i)' <=> \E k \in 1 .. Len(s) : DataOf(s[k], i)
      BY <1>15 DEF Sending
    <2> QED
      BY <1>17, <2>1, <2>2
  <1>19. ASSUME in_flight[i] # None PROVE Held(i, in_flight[i])'
    <2>1. PICK w : w = in_flight[i]
      OBVIOUS
    <2>2. Asked(i)
      <3>1. 1 \in 1 .. Len(tx)
        BY TailElems
      <3> QED
        BY <3>1 DEF Asked, AskOf
    <2>3. /\ Of(i, w.cmd) /\ ~Waiting(i) /\ ~Settled(i)
          /\ \A k \in 1 .. Len(rx) : DataOf(rx[k], i) => PartOf(i, w.cmd, rx[k])
          /\ Scattered(i, w) \/ InOrder(i, w)
      BY <1>19, <2>1, <2>2 DEF FlowInv, LiveInv, LiveOk, Held
    <2>4. PICK a, n, m : a = w.cmd.lba /\ n = w.cmd.edtl /\ m = w.received
      OBVIOUS
    <2>5. a \in Nat /\ n \in Nat /\ m \in Nat /\ m < n /\ n = task.n
      <3>1. PendingWrite(w)
        BY <1>19, <2>1 DEF CoreInv, TargetInv, TypeOK
      <3>2. w.cmd.edtl = w.cmd.blocks
        BY <1>19, <2>1 DEF FlowInv, FlightOk, Issued
      <3>3. task.n = w.cmd.blocks
        BY <1>1, <2>3 DEF Of
      <3> QED
        BY <2>4, <3>1, <3>2, <3>3 DEF PendingWrite, ScsiCommand
    <2>6. Of(i, w.cmd)'
      BY <2>3 DEF Of
    <2>7. ~Waiting(i)'
      <3>1. Waiting(i)' <=> \E k \in 1 .. Len(s) : s[k].op = "scsi" /\ s[k].itt = i
        BY <1>15 DEF Waiting
      <3> QED
        BY <1>22, <1>15, <2>3, <3>1 DEF Waiting
    <2>8. ~Settled(i)'
      BY <1>13, <2>3 DEF TxLike
    <2>9. ASSUME NEW k \in 1 .. Len(s), DataOf(s[k], i) PROVE PartOf(i, w.cmd, s[k])'
      <3>1. PICK d : d = s[k]
        OBVIOUS
      <3>2. CASE \E j \in 1 .. Len(rx) : d = rx[j]
        <4>1. PartOf(i, w.cmd, d)
          BY <2>3, <2>9, <3>1, <3>2
        <4> QED
          BY <3>1, <4>1 DEF PartOf, Sent
      <3>3. CASE \E j \in 1 .. Len(D) : d = D[j]
        <4>1. d.off + Len(d.data) <= n
          <5>1. DataEnd(d) <= r.off + r.len
            BY <1>4, <3>3
          <5>2. d.off \in Nat /\ Len(d.data) \in Nat
            BY <1>4, <3>3
          <5> QED
            BY <1>2, <2>5, <5>1, <5>2 DEF DataEnd
        <4>2. ASSUME NEW j \in 1 .. Len(d.data), NEW l PROVE d.data[j] \in Sent(i, l)'
          <5>1. d.data[j] = task.val
            BY <1>4, <3>3, <4>2
          <5>2. task.val \in task.after
            BY <1>1 DEF FlowInv, TaskInv
          <5>3. Sent(i, l)' = task.after
            BY <1>1 DEF Sent
          <5> QED
            BY <5>1, <5>2, <5>3
        <4>3. PartOf(i, w.cmd, d)'
          BY <2>4, <4>1, <4>2 DEF PartOf
        <4> QED
          BY <3>1, <4>3
      <3> QED
        BY <1>6, <1>15, <3>1, <3>2, <3>3
    <2>10. Scattered(i, w) => Scattered(i, w)'
      BY DEF Scattered, Sent
    <2>11. ASSUME InOrder(i, w) PROVE InOrder(i, w)'
      <3>1. /\ Filled(i, w) /\ Chain(rx, i, m, n) /\ Exact(n - m, task.seg)
            /\ Finishing(i, w) \/ OneAsked(i, w) \/ OneSent(i, w)
        BY <1>1, <2>4, <2>11 DEF InOrder
      <3>2. Filled(i, w)'
        BY <3>1 DEF Filled, Sent
      <3>3. CASE Finishing(i, w)
        <4>1. PICK k \in 1 .. Len(rx) : DataOf(rx[k], i) /\ DataEnd(rx[k]) = n
          BY <2>4, <3>3 DEF Finishing
        <4>2. Finishing(i, w)'
          <5>1. k \in 1 .. Len(s) /\ DataOf(s[k], i) /\ DataEnd(s[k]) = n
            BY <1>16, <4>1
          <5> QED
            BY <1>15, <2>4, <5>1 DEF Finishing
        <4>3. Chain(rx \o D, i, m, n)
          BY <1>4, <1>5, <3>1, <4>1, ChainConcat
        <4> QED
          BY <1>1, <1>5, <2>4, <3>1, <3>2, <4>2, <4>3 DEF InOrder
      <3>4. CASE OneAsked(i, w)
        <4>1. /\ ~Sending(i) /\ Once(tx, i) /\ r.off = m /\ r.len = Smaller(n - m, Burst)
          <5>1. 1 \in 1 .. Len(tx) /\ AskOf(tx[1], i)
            BY TailElems DEF AskOf
          <5> QED
            BY <1>1, <2>4, <3>4, <5>1 DEF OneAsked, NextAsk
        <4>2. Chain(rx \o D, i, m, n)
          <5>1. \A k \in 1 .. Len(rx) : ~DataOf(rx[k], i)
            BY <4>1 DEF Sending
          <5> QED
            BY <1>4, <1>5, <4>1, <5>1, ChainConcat
        <4>3. ASSUME NEW k \in 1 .. Len(t) PROVE ~AskOf(t[k], i)
          <5>1. /\ 1 \in 1 .. Len(tx) /\ k + 1 \in 1 .. Len(tx) /\ t[k] = tx[k + 1]
            BY <1>15, TailElems
          <5>2. AskOf(tx[1], i)
            BY DEF AskOf
          <5>3. k + 1 # 1
            OBVIOUS
          <5> QED
            BY <4>1, <5>1, <5>2, <5>3 DEF Once
        <4>4. Burst \in Nat
          BY SessionAssumption, ParamsAssumption DEF Burst, Smaller
        <4>5. CASE n - m <= Burst
          <5>1. DataEnd(D[Len(D)]) = n /\ DataOf(D[Len(D)], i) /\ Len(D) \in 1 .. Len(D)
            BY <1>4, <2>5, <4>1, <4>5 DEF Smaller, DataOf
          <5>2. PICK k \in 1 .. Len(s) : s[k] = D[Len(D)]
            BY <1>17, <5>1
          <5>3. Finishing(i, w)'
            BY <1>15, <2>4, <5>1, <5>2 DEF Finishing
          <5> QED
            BY <1>1, <1>5, <2>4, <3>1, <3>2, <4>2, <5>3 DEF InOrder
        <4>6. CASE ~(n - m <= Burst)
          <5>1. r.len = Burst /\ Burst <= task.seg
            BY <2>5, <3>1, <4>1, <4>4, <4>6 DEF Smaller, Exact
          <5>2. Len(D) = 1 /\ D[1].off = m /\ Len(D[1].data) > 0 /\ DataEnd(D[1]) < n
            BY <1>2, <1>4, <2>5, <4>1, <4>4, <4>6, <5>1
          <5>3. ASSUME NEW k \in 1 .. Len(s), DataOf(s[k], i)
                PROVE  s[k].off = w.received /\ Len(s[k].data) > 0 /\ DataEnd(s[k]) < w.cmd.edtl
            <6>1. ~\E j \in 1 .. Len(rx) : s[k] = rx[j]
              BY <4>1, <5>3 DEF Sending
            <6>2. PICK j \in 1 .. Len(D) : s[k] = D[j]
              BY <1>6, <1>15, <6>1
            <6>3. j = 1
              BY <5>2
            <6> QED
              BY <2>4, <5>2, <6>2, <6>3
          <5>4. ~Asked(i)'
            BY <1>15, <4>3 DEF Asked
          <5>5. OneSent(i, w)'
            BY <1>1, <1>15, <5>1, <5>3, <5>4 DEF OneSent
          <5> QED
            BY <1>1, <1>5, <2>4, <3>1, <3>2, <4>2, <5>5 DEF InOrder
        <4> QED
          BY <4>5, <4>6
      <3>5. CASE OneSent(i, w)
        BY <2>2, <3>5 DEF OneSent
      <3> QED
        BY <3>1, <3>3, <3>4, <3>5
    <2>12. Held(i, w)'
      BY <1>15, <2>3, <2>6, <2>7, <2>8, <2>9, <2>10, <2>11 DEF Held
    <2> QED
      BY <2>1, <2>12
  <1>20. LiveOk(i)'
    BY <1>19 DEF LiveOk
  <1>21. PursuedOk(i)'
    <2>1. CASE in_flight[i] # None
      BY <1>18, <2>1 DEF PursuedOk, Pursued
    <2>2. CASE in_flight[i] = None
      <3>1. Waiting(i) => Waiting(i)'
        <4>1. Waiting(i)' <=> \E k \in 1 .. Len(s) : s[k].op = "scsi" /\ s[k].itt = i
          BY <1>15 DEF Waiting
        <4> QED
          BY <1>16, <4>1 DEF Waiting
      <3> QED
        BY <1>13, <2>2, <3>1 DEF FlowInv, PursuedInv, PursuedOk, Pursued
    <2> QED
      BY <2>1, <2>2
  <1> QED
    BY <1>7, <1>8, <1>11, <1>12, <1>14, <1>20, <1>21 DEF FlowInv, LiveInv, PursuedInv

\* What the initiator may find after the end of a command.
LEMMA EndMay ==
    ASSUME TaskInv, StoredAsAcknowledged, NEW i \in Itts, NEW ended, End(i, ended),
           tasks[i] # None /\ tasks[i].op = "write" /\ ended = "good" => StoredOf(tasks[i]),
           tasks[i] # None /\ ended = "aborted" => ~Settled(i),
           tasks[i] # None
    PROVE  /\ may' \in [Lbas -> SUBSET Content]
           /\ \A l \in Lbas : disk[l] \in may'[l]
           /\ \A l \in Lbas : may'[l] = may[l] \/ l \in Cells(tasks[i])
  <1> DEFINE task == tasks[i]
             hit(l) == task.op = "write" /\ l \in Cells(task)
             new(l) == IF hit(l) /\ ended = "good" THEN task.after
                       ELSE IF hit(l) /\ ended = "aborted" THEN task.before[l]
                       ELSE may[l]
  <1>1. may' = [l \in Lbas |-> new(l)]
    BY DEF End
  <1>2. ASSUME NEW l \in Lbas PROVE new(l) \in SUBSET Content /\ disk[l] \in new(l)
    <2>1. may[l] \in SUBSET Content /\ disk[l] \in may[l]
      BY DEF TaskInv, StoredAsAcknowledged
    <2>2. ASSUME hit(l)
          PROVE  /\ task.after \in SUBSET Content /\ task.before[l] \in SUBSET Content
                 /\ ended = "good" => disk[l] \in task.after
                 /\ ended = "aborted" => disk[l] \in task.before[l]
      <3>1. task \in WriteTask
        BY <2>2 DEF TaskInv, ReadTask
      <3>2. task.after \in SUBSET Content /\ task.before[l] \in SUBSET Content
        BY <3>1 DEF WriteTask
      <3> QED
        BY <2>2, <3>2 DEF TaskInv, StoredOf
    <2> QED
      BY <2>1, <2>2
  <1>3. \A l \in Lbas : new(l) = may[l] \/ l \in Cells(task)
    OBVIOUS
  <1> HIDE DEF new
  <1> QED
    BY <1>1, <1>2, <1>3

LEMMA ReceiveFlow == ASSUME CoreInv, FlowInv, Receive PROVE FlowInv'
  <1> DEFINE pdu == tx[1]
  <1>1. PICK i : i = pdu.itt
    OBVIOUS
  <1>2. /\ istage # "down" /\ tx # <<>> /\ tx' = Tail(tx)
        /\ UNCHANGED <<stage, params, in_flight, disk>>
    BY DEF Receive, Deliver
  <1>3. /\ Head(tx) = pdu /\ pdu \in Response /\ Tagged(pdu) /\ TxOk(pdu) /\ 1 \in 1 .. Len(tx)
        /\ tx \in Seq(Response)
    <2>1. tx \in Seq(Response)
      BY DEF CoreInv, TargetInv, TypeOK
    <2>2. Head(tx) = tx[1] /\ 1 \in 1 .. Len(tx)
      BY <1>2, <2>1, TailElems
    <2> QED
      BY <1>2, <2>1, <2>2 DEF CoreInv, StreamTypes, FlowInv, TxInv
  <1>4. Rest
    BY <1>2, ReceiveRest
  <1>5. /\ stage # "Login"
        /\ pdu.op \in {"login", "logout"} => istage # "up"
    BY <1>2, <1>3 DEF CoreInv, StageInv
  <1>6. tasks = [j \in Itts |-> tasks[j]] /\ TaskInv /\ StoredAsAcknowledged
    BY DEF CoreInv, InitiatorTypes, FlowInv
  <1>7. CASE pdu.op \in {"login", "logout"} /\ UNCHANGED <<rx, tasks, aborting, may>>
    BY <1>2, <1>4, <1>5, <1>7, StageFlow
  <1>8. CASE ~Final(pdu) /\ (pdu.op = "r2t" => i \in aborting) /\ UNCHANGED <<rx, istage, tasks, aborting, may>>
    BY <1>1, <1>2, <1>4, <1>8, QuietFlow
  <1>9. CASE /\ pdu.op = "r2t" /\ UNCHANGED <<istage, tasks, aborting, may>>
             /\ tasks[i] # None /\ tasks[i].op = "write" /\ i \notin aborting
             /\ rx' = rx \o DataOuts(i, tasks[i], pdu.body)
    <2>1. i \in Itts
      BY <1>1, <1>3, <1>9 DEF Tagged
    <2> QED
      BY <1>1, <1>2, <1>3, <1>4, <1>9, <2>1, SolicitedFlow
  <1>10. ASSUME i \in Itts, Final(pdu) \/ Abort(pdu), aborting' = (IF Abort(pdu) THEN aborting \ {i} ELSE aborting),
               tasks[i] # None, NEW ended, End(i, ended),
               tasks[i] # None /\ tasks[i].op = "write" /\ ended = "good" => StoredOf(tasks[i]),
               tasks[i] # None /\ ended = "aborted" => ~Settled(i)
        PROVE  FlowInv'
    <2>1. /\ may' \in [Lbas -> SUBSET Content]
          /\ \A l \in Lbas : disk[l] \in may'[l]
          /\ \A l \in Lbas : may'[l] = may[l] \/ l \in Cells(tasks[i])
      BY <1>6, <1>10, EndMay
    <2>2. tasks' = [tasks EXCEPT ![i] = None] /\ UNCHANGED <<rx, istage>>
      BY <1>10 DEF End
    <2> QED
      BY <1>1, <1>2, <1>3, <1>4, <1>10, <2>1, <2>2, EndFlow
  <1>11. CASE pdu.op = "datain" /\ pdu.body.final /\ End(i, "good") /\ UNCHANGED aborting
    <2>1. i \in Itts /\ tasks[i] # None /\ tasks[i].op = "read" /\ Final(pdu) /\ ~Abort(pdu)
      BY <1>1, <1>3, <1>11 DEF Tagged, TxOk, Final, Abort
    <2> QED
      BY <1>10, <1>11, <2>1
  <1>12. CASE pdu.op = "scsi" /\ End(i, pdu.body.code) /\ UNCHANGED aborting
    <2>1. /\ i \in Itts /\ tasks[i] # None /\ Final(pdu) /\ ~Abort(pdu)
          /\ pdu.body.code \in {"good", "check"}
          /\ tasks[i].op = "write" /\ pdu.body.code = "good" => StoredOf(tasks[i])
      BY <1>1, <1>3, <1>12 DEF Tagged, TxOk, Final, Abort
    <2> QED
      BY <1>10, <1>12, <2>1
  <1>13. CASE /\ pdu.op = "tmf" /\ aborting' = aborting \ {i}
              /\ IF tasks[i] = None THEN UNCHANGED <<rx, istage, tasks, may>> ELSE End(i, "aborted")
    <2>1. i \in Itts /\ Abort(pdu)
      BY <1>1, <1>3, <1>13 DEF Tagged, Abort
    <2>2. ~Settled(i)
      <3>1. ASSUME Settled(i)' PROVE FALSE
        <4>1. PICK k \in 1 .. Len(tx') : tx'[k].op = "scsi" /\ tx'[k].itt = i
          BY <3>1 DEF Settled
        <4>2. Clash(pdu, tx'[k])
          BY <1>1, <2>1, <4>1 DEF Clash, Work
        <4> QED
          BY <1>4, <4>2 DEF Rest
      <3> QED
        BY <1>4, <1>13, <2>1, <3>1 DEF Rest
    <2>3. CASE tasks[i] = None
      <3>1. tasks' = [tasks EXCEPT ![i] = None] /\ UNCHANGED <<rx, istage, may>>
        BY <1>6, <1>13, <2>3
      <3>2. may' \in [Lbas -> SUBSET Content] /\ \A l \in Lbas : disk[l] \in may'[l]
        BY <1>6, <3>1 DEF TaskInv, StoredAsAcknowledged
      <3> QED
        BY <1>1, <1>2, <1>3, <1>4, <1>13, <2>1, <3>1, <3>2, EndFlow
    <2>4. CASE tasks[i] # None
      BY <1>10, <1>13, <2>1, <2>2, <2>4
    <2> QED
      BY <2>3, <2>4
  <1>14. pdu.op = "r2t" => tasks[i] # None /\ tasks[i].op = "write"
    BY <1>1, <1>3 DEF TxOk
  <1> HIDE DEF pdu
  <1>15. \/ pdu.op \in {"login", "logout"} /\ UNCHANGED <<rx, tasks, aborting, may>>
         \/ ~Final(pdu) /\ (pdu.op = "r2t" => i \in aborting) /\ UNCHANGED <<rx, istage, tasks, aborting, may>>
         \/ /\ pdu.op = "r2t" /\ UNCHANGED <<istage, tasks, aborting, may>>
            /\ tasks[i] # None /\ tasks[i].op = "write" /\ i \notin aborting
            /\ rx' = rx \o DataOuts(i, tasks[i], pdu.body)
         \/ pdu.op = "datain" /\ pdu.body.final /\ End(i, "good") /\ UNCHANGED aborting
         \/ pdu.op = "scsi" /\ End(i, pdu.body.code) /\ UNCHANGED aborting
         \/ /\ pdu.op = "tmf" /\ aborting' = aborting \ {i}
            /\ IF tasks[i] = None THEN UNCHANGED <<rx, istage, tasks, may>> ELSE End(i, "aborted")
    BY <1>1, <1>3, <1>14 DEF Receive, Final
  <1> QED
    BY <1>7, <1>8, <1>9, <1>11, <1>12, <1>13, <1>15

-----------------------------------------------------------------------------
(* What the target does with a request *)

Idle == UNCHANGED <<istage, tasks, aborting, may>>

\* What may be said of the tag i when x, that belongs to it, is handled.
Alone(x, i) ==
    /\ ~Waiting(i)' /\ (istage # "down" => ~Answered(i))
    /\ x.op = "scsi" => ~Sending(i)' /\ ~Asked(i)

\* A response to x.
Fitting(x, p) ==
    /\ Work(p) => Work(x) /\ p.itt = x.itt /\ Alone(x, x.itt)
    /\ Abort(p) => Abort(x) /\ p.itt = x.itt
    /\ istage # "down" => TxOk(p)'

\* The step leaves the pending writes of other tags alone.
OthersKept(x) == \A i \in Itts : in_flight'[i] = in_flight[i] \/ (Work(x) /\ i = x.itt)

\* What a request may do to the rest: it is answered by out; only one that
\* carries a command's data touches the pending write of its tag and the disk.
Served(x, out) ==
    /\ out \in Seq(Response) /\ tx' = tx \o out /\ Ordered(out)
    /\ \A k \in 1 .. Len(out) : Fitting(x, out[k])
    /\ OthersKept(x)
    /\ \A l \in Lbas : disk'[l] = disk[l] \/
          /\ Work(x) /\ disk'[l] \in Sent(x.itt, l)
          /\ istage # "down" =>
                /\ tasks[x.itt] # None /\ tasks[x.itt].op = "write" /\ l \in Cells(tasks[x.itt])
                /\ \E k \in 1 .. Len(out) : out[k].op = "scsi" /\ out[k].itt = x.itt

\* Nothing of a command comes before it, and no data of it behind it.
LEMMA FirstAlone ==
    ASSUME CoreInv, FlowInv, NEW x, rx # <<>>, x = rx[1], rx' = Tail(rx), Work(x),
           x.op = "dataout" => in_flight[x.itt] # None
    PROVE  /\ Alone(x, x.itt)
           /\ x.op = "dataout" => Held(x.itt, in_flight[x.itt])
  <1>1. PICK t, i : t = rx' /\ i = x.itt
    OBVIOUS
  <1>2. /\ rx \in Seq(Request) /\ Ordered(rx) /\ x \in Request /\ RxOk(x) /\ 1 \in 1 .. Len(rx)
        /\ \A k \in 1 .. Len(t) : k + 1 \in 1 .. Len(rx) /\ t[k] = rx[k + 1]
    BY <1>1, TailElems DEF CoreInv, StreamTypes, FlowInv, RxInv
  <1>3. i \in Itts /\ x.op \in {"scsi", "dataout"}
    BY <1>1, <1>2, RequestTag
  <1>4. Waiting(i)' <=> \E k \in 1 .. Len(t) : t[k].op = "scsi" /\ t[k].itt = i
    BY <1>1 DEF Waiting
  <1>5. Sending(i)' <=> \E k \in 1 .. Len(t) : DataOf(t[k], i)
    BY <1>1 DEF Sending
  <1>6. CASE x.op = "scsi"
    <2>1. \A k \in 1 .. Len(t) : ~Clash(x, t[k])
      BY <1>1, <1>2, OrderedTail
    <2>2. ~Waiting(i)'
      BY <1>1, <1>4, <1>6, <2>1 DEF Clash, Final
    <2>3. ~Sending(i)'
      BY <1>1, <1>5, <1>6, <2>1 DEF Clash, DataOf
    <2>4. ASSUME istage # "down", NEW k \in 1 .. Len(tx) PROVE ~Crosses(tx[k], x)
      BY <1>2, <2>4 DEF FlowInv, TxInv, Apart
    <2>5. istage # "down" => ~Answered(i)
      BY <1>1, <1>6, <2>4 DEF Answered, Crosses
    <2>6. ~Asked(i)
      BY <1>1, <1>6, <2>4 DEF Asked, AskOf, Crosses
    <2> QED
      BY <1>1, <1>6, <2>2, <2>3, <2>5, <2>6 DEF Alone
  <1>7. CASE x.op = "dataout"
    <2>1. Sending(i)
      BY <1>1, <1>2, <1>7 DEF Sending, DataOf
    <2>2. PICK w : w = in_flight[i] /\ Held(i, w) /\ w # None
      BY <1>1, <1>3, <1>7, <2>1 DEF FlowInv, LiveInv, LiveOk
    <2>3. ~Waiting(i)'
      BY <1>2, <1>4, <2>2 DEF Held, Waiting
    <2>4. ASSUME istage # "down" PROVE ~Answered(i)
      <3>1. ~Settled(i) /\ tasks[i].op = "write"
        BY <1>3, <2>2, <2>4 DEF Held, Of, FlowInv, FlightOk, IssuedWrite
      <3>2. ASSUME NEW k \in 1 .. Len(tx), tx[k].op = "datain", tx[k].itt = i PROVE FALSE
        <4>1. TxOk(tx[k])
          BY <2>4, <3>2 DEF FlowInv, TxInv
        <4> QED
          BY <3>1, <3>2, <4>1 DEF TxOk
      <3> QED
        BY <3>1, <3>2 DEF Answered, Final, Settled
    <2> QED
      BY <1>1, <1>7, <2>2, <2>3, <2>4 DEF Alone
  <1> QED
    BY <1>3, <1>6, <1>7

LEMMA ServedFlow ==
    ASSUME CoreInv, FlowInv, NEW x, NEW out, rx # <<>>, x = rx[1], rx' = Tail(rx), Served(x, out),
           FlightOk', BurstInv', Idle, Work(x) => LiveOk(x.itt)' /\ PursuedOk(x.itt)'
    PROVE  FlowInv'
  <1>0. UNCHANGED <<istage, tasks, aborting, may>>
    BY DEF Idle
  <1>1. /\ tx \in Seq(Response) /\ rx \in Seq(Request)
        /\ \A k \in 1 .. Len(tx) : tx[k] \in Response /\ Tagged(tx[k])
        /\ \A k \in 1 .. Len(rx) : rx[k] \in Request /\ RxOk(rx[k])
        /\ Ordered(rx)
    BY DEF CoreInv, StreamTypes, TargetInv, TypeOK, FlowInv, RxInv
  <1>2. /\ rx' \in Seq(Request) /\ 1 \in 1 .. Len(rx)
        /\ \A k \in 1 .. Len(rx') : k + 1 \in 1 .. Len(rx) /\ rx'[k] = rx[k + 1]
    BY <1>1, TailElems
  <1>3. x \in Request /\ RxOk(x) /\ (Work(x) \/ Abort(x) => x.itt \in Itts)
    <2>1. x \in Request /\ RxOk(x)
      BY <1>1, <1>2
    <2> QED
      BY <2>1, RequestTag
  <1>4. Ordered(rx') /\ \A k \in 1 .. Len(rx') : ~Clash(x, rx'[k])
    BY <1>1, OrderedTail
  <1>5. \A k \in 1 .. Len(rx') : rx'[k] \in Request /\ RxOk(rx'[k])
    <2> SUFFICES ASSUME NEW k \in 1 .. Len(rx') PROVE rx'[k] \in Request /\ RxOk(rx'[k])
      OBVIOUS
    <2>1. k + 1 \in 1 .. Len(rx) /\ rx'[k] = rx[k + 1]
      BY <1>2
    <2> QED
      BY <1>1, <2>1
  <1>6. /\ out \in Seq(Response) /\ tx' = tx \o out /\ Ordered(out)
        /\ \A k \in 1 .. Len(out) :
              /\ Work(out[k]) => Work(x) /\ out[k].itt = x.itt /\ Alone(x, x.itt)
              /\ Abort(out[k]) => Abort(x) /\ out[k].itt = x.itt
    BY DEF Served, Fitting
  <1>7. \A k \in 1 .. Len(tx') :
            (k \in 1 .. Len(tx) /\ tx'[k] = tx[k]) \/ \E j \in 1 .. Len(out) : tx'[k] = out[j]
    <2>1. PICK u : u = tx \o out
      OBVIOUS
    <2>2. \A k \in 1 .. Len(u) : (k \in 1 .. Len(tx) /\ u[k] = tx[k]) \/ \E j \in 1 .. Len(out) : u[k] = out[j]
      BY <1>1, <1>6, <2>1, ConcatElems
    <2>3. tx' = u
      BY <1>6, <2>1
    <2> QED
      BY <2>2, <2>3
  <1>8. \A k \in 1 .. Len(tx) : k \in 1 .. Len(tx') /\ tx'[k] = tx[k]
    BY <1>1, <1>6
  <1>10. StoredAsAcknowledged'
    <2>1. ASSUME NEW l \in Lbas PROVE disk'[l] \in may[l]
      <3>1. CASE disk'[l] = disk[l]
        BY <3>1 DEF FlowInv, StoredAsAcknowledged
      <3>2. CASE disk'[l] # disk[l]
        <4>1. /\ Work(x) /\ disk'[l] \in Sent(x.itt, l)
              /\ istage # "down" =>
                    tasks[x.itt] # None /\ tasks[x.itt].op = "write" /\ l \in Cells(tasks[x.itt])
          BY <3>2 DEF Served
        <4> QED
          BY <1>3, <4>1 DEF Sent, FlowInv, TaskInv
      <3> QED
        BY <3>1, <3>2
    <2> QED
      BY <1>0, <2>1 DEF StoredAsAcknowledged
  <1>11. ASSUME NEW i \in Itts, tasks[i] # None, NEW l \in Cells(tasks[i])
         PROVE  l \in Lbas /\ (disk'[l] = disk[l] \/ (i = x.itt /\ ~Answered(i) /\ Settled(i)'))
    <2>1. l \in Lbas /\ istage # "down"
      BY <1>11, TaskUp DEF FlowInv, TaskInv
    <2>2. ASSUME disk'[l] # disk[l] PROVE i = x.itt /\ ~Answered(i) /\ Settled(i)'
      <3>1. /\ Work(x) /\ tasks[x.itt] # None /\ l \in Cells(tasks[x.itt])
            /\ \E k \in 1 .. Len(out) : out[k].op = "scsi" /\ out[k].itt = x.itt
        BY <2>1, <2>2 DEF Served
      <3>2. i = x.itt
        BY <1>3, <1>11, <2>1, <3>1 DEF FlowInv, TaskInv
      <3>3. PICK k \in 1 .. Len(out) : out[k].op = "scsi" /\ out[k].itt = i
        BY <3>1, <3>2
      <3>4. k + Len(tx) \in 1 .. Len(tx') /\ tx'[k + Len(tx)] = out[k]
        BY <1>1, <1>6
      <3>5. ~Answered(i)
        BY <1>6, <2>1, <3>2, <3>3 DEF Work, Alone
      <3> QED
        BY <3>2, <3>3, <3>4, <3>5 DEF Settled
    <2> QED
      BY <2>1, <2>2
  <1>12. TaskInv'
    <2>1. \A i \in Itts : Settled(i) => Settled(i)'
      <3> SUFFICES ASSUME NEW i \in Itts, Settled(i) PROVE Settled(i)'
        OBVIOUS
      <3>1. PICK k \in 1 .. Len(tx) : tx[k].op = "scsi" /\ tx[k].itt = i
        BY DEF Settled
      <3>2. k \in 1 .. Len(tx') /\ tx'[k] = tx[k]
        BY <1>8
      <3> QED
        BY <3>1, <3>2 DEF Settled
    <2>2. ASSUME NEW i \in Itts, tasks[i] # None, tasks[i].op = "write", ~Settled(i)',
                 NEW l \in Cells(tasks[i])
          PROVE  disk'[l] \in tasks[i].before[l]
      <3>1. disk'[l] = disk[l] /\ ~Settled(i)
        BY <1>11, <2>1, <2>2
      <3> QED
        BY <2>2, <3>1 DEF FlowInv, TaskInv
    <2> QED
      BY <1>0, <2>2 DEF FlowInv, TaskInv, Cells
  <1>13. RxInv'
    <2>1. ASSUME NEW y, RxOk(y) PROVE RxOk(y)'
      BY <1>0, <2>1 DEF RxOk, Of, CarriesOf, Sent, Issued, IssuedRead, IssuedWrite, InRange
    <2>2. ASSUME NEW k \in 1 .. Len(rx') PROVE RxOk(rx[k])'
      <3>1. PICK y : y = rx'[k]
        OBVIOUS
      <3>2. RxOk(y)'
        BY <1>5, <2>1, <3>1
      <3> QED
        BY <3>1, <3>2
    <2> QED
      BY <1>4, <2>2 DEF RxInv
  <1>14. ASSUME istage # "down" PROVE (Ordered(tx) /\ Apart(tx, rx) /\ \A k \in 1 .. Len(tx) : TxOk(tx[k]))'
    <2>1. /\ Ordered(tx) /\ Apart(tx, rx)
          /\ \A k \in 1 .. Len(tx) : TxOk(tx[k]) /\ ~Crosses(tx[k], x)
      BY <1>2, <1>14 DEF FlowInv, TxInv, Apart
    <2>2. Ahead(tx, out)
      <3> SUFFICES ASSUME NEW j \in 1 .. Len(tx), NEW k \in 1 .. Len(out), Clash(tx[j], out[k])
                   PROVE  FALSE
        BY DEF Ahead
      <3>1. CASE Work(out[k])
        <4>1. Work(x) /\ out[k].itt = x.itt /\ ~Answered(x.itt)
          BY <1>6, <1>14, <3>1 DEF Alone
        <4>2. ~Final(tx[j])
          BY <4>1 DEF Answered, Clash
        <4>3. tx[j].op # "scsi" /\ Abort(tx[j]) /\ tx[j].itt = x.itt
          BY <4>1, <4>2 DEF Clash, Final
        <4> QED
          BY <2>1, <4>1, <4>3 DEF Crosses
      <3>2. CASE Abort(out[k])
        <4>1. Abort(tx[j]) /\ tx[j].itt = x.itt /\ Abort(x)
          BY <1>6, <3>2, ClashNeeds DEF Clash, Abort
        <4> QED
          BY <2>1, <4>1 DEF Crosses
      <3> QED
        BY <3>1, <3>2, ClashNeeds
    <2>3. Apart(out, rx')
      <3> SUFFICES ASSUME NEW j \in 1 .. Len(out), NEW k \in 1 .. Len(rx'), Crosses(out[j], rx'[k])
                   PROVE  FALSE
        BY DEF Apart
      <3>1. CASE Abort(out[j])
        <4>1. Clash(x, rx'[k])
          BY <1>6, <3>1 DEF Crosses, Clash, Final, Abort
        <4> QED
          BY <1>4, <4>1
      <3>2. CASE ~Abort(out[j])
        <4>1. Work(out[j]) /\ rx'[k].op = "scsi" /\ rx'[k].itt = out[j].itt
          BY <3>2 DEF Crosses, Final, Work
        <4>2. ~Waiting(x.itt)' /\ rx'[k].itt = x.itt
          BY <1>6, <4>1 DEF Alone
        <4> QED
          BY <4>1, <4>2 DEF Waiting
      <3> QED
        BY <3>1, <3>2
    <2>4. Apart(tx, rx')
      BY <1>2, <2>1 DEF Apart
    <2>5. Ordered(tx')
      BY <1>1, <1>6, <2>1, <2>2, OrderedConcat
    <2>6. Apart(tx', rx')
      BY <1>7, <2>3, <2>4 DEF Apart
    <2>7. ASSUME NEW p \in Response, Tagged(p), TxOk(p), p.op = "scsi" => Answered(p.itt) PROVE TxOk(p)'
      <3>2. CASE p.op = "scsi"
        <4>1. p.itt \in Itts /\ tasks[p.itt] # None /\ Answered(p.itt)
          BY <2>7, <3>2 DEF TxOk, Tagged
        <4>2. \A l \in Cells(tasks[p.itt]) : disk'[l] = disk[l]
          BY <1>11, <4>1
        <4> QED
          BY <1>0, <2>7, <3>2, <4>1, <4>2 DEF TxOk, StoredOf, Cells
      <3>3. CASE p.op # "scsi"
        BY <1>0, <2>7, <3>3 DEF TxOk, ReadOk
      <3> QED
        BY <3>2, <3>3
    <2>8. ASSUME NEW k \in 1 .. Len(tx') PROVE TxOk(tx[k])'
      <3>1. PICK p : p = tx'[k]
        OBVIOUS
      <3>2. CASE k \in 1 .. Len(tx) /\ p = tx[k]
        <4>1. p \in Response /\ Tagged(p) /\ TxOk(p) /\ (p.op = "scsi" => Answered(p.itt))
          BY <1>1, <2>1, <3>2 DEF Answered, Final
        <4>2. TxOk(p)'
          BY <2>7, <4>1
        <4> QED
          BY <3>1, <4>2
      <3>3. ASSUME NEW j \in 1 .. Len(out), p = out[j] PROVE TxOk(tx[k])'
        <4>1. TxOk(p)'
          BY <1>14, <3>3 DEF Served, Fitting
        <4> QED
          BY <3>1, <4>1
      <3> QED
        BY <1>7, <3>1, <3>2, <3>3
    <2> QED
      BY <2>5, <2>6, <2>8
  <1>15. TxInv'
    BY <1>0, <1>14 DEF TxInv
  <1>16. ASSUME NEW i \in Itts PROVE LiveOk(i)' /\ PursuedOk(i)'
    <2>1. CASE ~(Work(x) /\ i = x.itt)
      <3>1. RxLike(i)
        BY <1>1, <2>1, RxTail DEF Work, DataOf
      <3>2. \A k \in 1 .. Len(out) : ~AskOf(out[k], i) /\ ~(out[k].op = "scsi" /\ out[k].itt = i)
        BY <1>6, <2>1 DEF AskOf, Work
      <3>3. TxLike(i) /\ (Answered(i) => Answered(i)') /\ (istage' # "down" => (Asked(i) => Asked(i)'))
        BY <1>1, <1>6, <3>2, TxConcat
      <3>4. in_flight'[i] = in_flight[i]
        BY <2>1 DEF Served, OthersKept
      <3>5. \A c : SentKept(i, c)
        BY <1>0 DEF SentKept, Sent
      <3>6. LiveOk(i)'
        BY <1>0, <1>2, <3>1, <3>3, <3>4, <3>5, LiveKept DEF FlowInv, LiveInv
      <3>7. PursuedOk(i)'
        BY <1>0, <3>1, <3>3, <3>4, PursuedKept DEF FlowInv, PursuedInv
      <3> QED
        BY <3>6, <3>7
    <2> QED
      BY <2>1
  <1> QED
    BY <1>10, <1>12, <1>13, <1>15, <1>16 DEF FlowInv, LiveInv, PursuedInv

LEMMA OneServed ==
    ASSUME NEW x, NEW p \in Response, tx \in Seq(Response), tx' = Append(tx, p),
           Fitting(x, p), OthersKept(x),
           \A l \in Lbas : disk'[l] = disk[l] \/
              /\ Work(x) /\ disk'[l] \in Sent(x.itt, l) /\ p.op = "scsi" /\ p.itt = x.itt
              /\ istage # "down" =>
                    tasks[x.itt] # None /\ tasks[x.itt].op = "write" /\ l \in Cells(tasks[x.itt])
    PROVE  Served(x, <<p>>)
  <1>1. /\ <<p>> \in Seq(Response) /\ tx' = tx \o <<p>> /\ Len(<<p>>) = 1
        /\ \A k \in 1 .. Len(<<p>>) : <<p>>[k] = p
        /\ 1 \in 1 .. Len(<<p>>) /\ <<p>>[1] = p
    BY AppendOne
  <1>2. Ordered(<<p>>)
    BY OrderedOne
  <1>3. PICK out : out = <<p>>
    OBVIOUS
  <1>4. Served(x, out)
    BY <1>1, <1>2, <1>3 DEF Served
  <1> QED
    BY <1>3, <1>4

LEMMA RespondPdu ==
    ASSUME TypeOK, exp_cmd_sn' \in Sn, NEW itt \in Itts, NEW body \in Body,
           NEW op \in {"scsi", "r2t", "nopin", "text", "tmf", "logout", "reject"},
           Respond(op, itt, body)
    PROVE  \E p \in Response : tx' = Append(tx, p) /\ p.op = op /\ p.itt = itt /\ p.body = body
  <1> DEFINE p == Pdu(op, itt, stat_sn, exp_cmd_sn', body)
  <1>1. stat_sn \in Sn
    BY DEF TypeOK
  <1>2. p \in Response /\ p.op = op /\ p.itt = itt /\ p.body = body
    BY <1>1, PduType, PduFields
  <1>3. tx' = Append(tx, p)
    BY DEF Respond
  <1> HIDE DEF p
  <1> QED
    BY <1>2, <1>3

\* A Nop-Out, an abort or a logout.
LEMMA OtherServed ==
    ASSUME CoreInv, FlowInv, Idle, NEW x \in Request, RxOk(x), x.op \in SessionOps, x.op # "login",
           HandleOther(x) \/ HandleLogout(x)
    PROVE  ~Work(x) /\ \E out : Served(x, out)
  <1>1. /\ x.op \in {"nop", "tmf", "logout"} /\ UNCHANGED <<in_flight, disk, exp_cmd_sn>>
    BY DEF HandleOther, HandleLogout, ResponseTo, SessionOps
  <1>2. x.itt \in Itts /\ Code("none") \in Body /\ TypeOK /\ exp_cmd_sn' \in Sn /\ tx \in Seq(Response)
    BY <1>1 DEF Request, LoginRequest, ScsiCommand, DataOut, OtherRequest, Code, Body,
                CoreInv, TargetInv, TypeOK
  <1>3. PICK op \in {"nopin", "tmf", "logout"} :
            Respond(op, x.itt, Code("none")) /\ (op = "tmf" => x.op = "tmf")
    <2>1. CASE HandleOther(x)
      <3>1. ResponseTo[x.op] \in {"nopin", "tmf"} /\ (ResponseTo[x.op] = "tmf" => x.op = "tmf")
        BY <1>1, <2>1 DEF HandleOther, ResponseTo
      <3> QED
        BY <2>1, <3>1 DEF HandleOther
    <2>2. CASE HandleLogout(x)
      BY <2>2 DEF HandleLogout
    <2> QED
      BY <2>1, <2>2
  <1>4. PICK p \in Response : tx' = Append(tx, p) /\ p.op = op /\ p.itt = x.itt
    BY <1>2, <1>3, RespondPdu
  <1>5. istage # "down" => TxOk(p)'
    BY <1>3, <1>4 DEF TxOk, RxOk, Idle
  <1>6. ~Work(p) /\ (Abort(p) => Abort(x)) /\ ~Work(x)
    BY <1>1, <1>3, <1>4 DEF Work, Abort
  <1>7. OthersKept(x) /\ \A l \in Lbas : disk'[l] = disk[l]
    BY <1>1 DEF OthersKept
  <1>8. Served(x, <<p>>)
    BY <1>2, <1>4, <1>5, <1>6, <1>7, OneServed DEF Fitting
  <1> QED
    BY <1>6, <1>8

\* A command that is answered for good.
LEMMA EndsFlow ==
    ASSUME CoreInv, FlowInv, Idle, NEW x, NEW out, Served(x, out), x.itt \in Itts,
           NEW e \in 1 .. Len(out), Final(out[e]), out[e].itt = x.itt,
           \A k \in 1 .. Len(out) : out[k].op # "r2t",
           in_flight'[x.itt] = None \/ (~Sending(x.itt)' /\ ~Asked(x.itt))
    PROVE  LiveOk(x.itt)' /\ PursuedOk(x.itt)'
  <1>1. PICK u, i : u = tx' /\ i = x.itt
    OBVIOUS
  <1>2. tx \in Seq(Response) /\ out \in Seq(Response) /\ u = tx \o out
    BY <1>1 DEF CoreInv, TargetInv, TypeOK, Served
  <1>3. /\ \A k \in 1 .. Len(out) : k + Len(tx) \in 1 .. Len(u) /\ u[k + Len(tx)] = out[k]
        /\ \A k \in 1 .. Len(tx) : k \in 1 .. Len(u) /\ u[k] = tx[k]
        /\ \A k \in 1 .. Len(u) : k <= Len(tx) \/ (k - Len(tx) \in 1 .. Len(out) /\ u[k] = out[k - Len(tx)])
        /\ Len(tx) \in Nat
    BY <1>2, ConcatIndex
  <1>4. Answered(i)'
    <2>1. PICK k \in 1 .. Len(u) : u[k] = out[e]
      BY <1>3
    <2>2. Answered(i)' <=> \E j \in 1 .. Len(u) : Final(u[j]) /\ u[j].itt = i
      BY <1>1 DEF Answered
    <2> QED
      BY <1>1, <2>1, <2>2
  <1>5. Asked(i)' => Asked(i)
    <2>1. Asked(i)' => istage # "down" /\ \E k \in 1 .. Len(u) : AskOf(u[k], i)
      BY <1>1 DEF Asked, Idle
    <2>2. ASSUME NEW k \in 1 .. Len(u), AskOf(u[k], i) PROVE \E j \in 1 .. Len(tx) : AskOf(tx[j], i)
      <3>1. ~\E j \in 1 .. Len(out) : u[k] = out[j]
        BY <2>2 DEF AskOf
      <3>2. k \in 1 .. Len(tx) /\ u[k] = tx[k]
        BY <1>3, <3>1
      <3> QED
        BY <2>2, <3>2
    <2> QED
      BY <2>1, <2>2 DEF Asked
  <1>6. LiveOk(i)'
    BY <1>1, <1>5 DEF LiveOk
  <1>7. PursuedOk(i)'
    BY <1>4 DEF PursuedOk, Pursued
  <1> QED
    BY <1>1, <1>6, <1>7

\* A write whose data is complete.
LEMMA FinishServed ==
    ASSUME CoreInv, FlowInv, Idle, NEW x, Work(x), x.itt \in Itts, exp_cmd_sn' \in Sn,
           Alone(x, x.itt),
           NEW c \in ScsiCommand, Issued(c), IssuedWrite(c), c.itt = x.itt, Of(x.itt, c),
           NEW buf, \A y \in 0 .. c.blocks - 1 : buf[y] \in Sent(x.itt, c.lba + y),
           FinishWrite(c, buf), OthersKept(x),
           in_flight'[x.itt] = None \/ (~Sending(x.itt)' /\ ~Asked(x.itt))
    PROVE  /\ \E out : Served(x, out)
           /\ LiveOk(x.itt)' /\ PursuedOk(x.itt)'
  <1>1. c.lba \in Nat /\ c.blocks \in Nat /\ c.blocks > 0 /\ c.edtl = c.blocks /\ c.cdb = "write"
    BY DEF ScsiCommand, Issued, IssuedWrite
  <1>2. WriteMedium(c, buf)
    BY <1>1 DEF FinishWrite, WritesMedium, Issued
  <1>3. PICK k \in 0 .. c.blocks :
            /\ disk' = Stored(c.lba, buf, k)
            /\ Respond("scsi", c.itt, Code(IF k = c.blocks THEN "good" ELSE "check"))
    BY <1>2 DEF WriteMedium
  <1>4. PICK code \in {"good", "check"} :
            Respond("scsi", c.itt, Code(code)) /\ (code = "good" => k = c.blocks)
    BY <1>3
  <1>5. Code(code) \in Body /\ Code(code).code = code /\ TypeOK /\ tx \in Seq(Response)
    BY DEF Code, Body, CoreInv, TargetInv, TypeOK
  <1>6. PICK p \in Response :
            tx' = Append(tx, p) /\ p.op = "scsi" /\ p.itt = x.itt /\ p.body = Code(code)
    BY <1>4, <1>5, RespondPdu
  <1>7. ASSUME NEW l \in Lbas, l >= c.lba, l < c.lba + k
        PROVE  disk'[l] \in Sent(x.itt, l)
    <2>1. PICK y : y = l - c.lba
      OBVIOUS
    <2>2. l \in Int
      BY <1>7, DiskAssumption DEF Lbas
    <2>3. y \in 0 .. c.blocks - 1 /\ l = c.lba + y
      BY <1>1, <1>7, <2>1, <2>2
    <2>4. disk'[l] = buf[y]
      BY <1>3, <1>7, <2>1 DEF Stored
    <2> QED
      BY <2>3, <2>4
  <1>8. ASSUME istage # "down"
        PROVE  /\ tasks[x.itt] # None /\ tasks[x.itt].op = "write"
               /\ Cells(tasks[x.itt]) = c.lba .. c.lba + c.blocks - 1
               /\ Cells(tasks[x.itt]) \subseteq Lbas
    BY <1>1, <1>8 DEF Of, Cells, FlowInv, TaskInv
  <1>9. ASSUME istage # "down", code = "good" PROVE StoredOf(tasks[x.itt])'
    <2>1. ASSUME NEW l \in Cells(tasks[x.itt]) PROVE disk'[l] \in tasks[x.itt].after
      <3>1. l \in Lbas /\ l >= c.lba /\ l < c.lba + k
        BY <1>1, <1>4, <1>8, <1>9
      <3> QED
        BY <1>7, <1>9, <3>1 DEF Sent
    <2> QED
      BY <2>1 DEF StoredOf, Cells, Idle
  <1>10. istage # "down" => TxOk(p)'
    BY <1>5, <1>6, <1>8, <1>9 DEF TxOk, Idle
  <1>11. \A l \in Lbas : disk'[l] = disk[l] \/
            /\ Work(x) /\ disk'[l] \in Sent(x.itt, l) /\ p.op = "scsi" /\ p.itt = x.itt
            /\ istage # "down" =>
                  tasks[x.itt] # None /\ tasks[x.itt].op = "write" /\ l \in Cells(tasks[x.itt])
    <2> SUFFICES ASSUME NEW l \in Lbas, disk'[l] # disk[l]
                 PROVE  /\ disk'[l] \in Sent(x.itt, l)
                        /\ istage # "down" =>
                              tasks[x.itt] # None /\ tasks[x.itt].op = "write" /\ l \in Cells(tasks[x.itt])
      BY <1>6
    <2>1. l >= c.lba /\ l < c.lba + k
      BY <1>3 DEF Stored
    <2>2. l \in Int
      BY DiskAssumption DEF Lbas
    <2>3. l \in c.lba .. c.lba + c.blocks - 1
      BY <1>1, <2>1, <2>2
    <2> QED
      BY <1>7, <1>8, <2>1, <2>3
  <1>12. Fitting(x, p)
    BY <1>6, <1>10 DEF Fitting, Abort
  <1>13. Served(x, <<p>>)
    BY <1>5, <1>6, <1>11, <1>12, OneServed
  <1>14. PICK out : out = <<p>>
    OBVIOUS
  <1>15. 1 \in 1 .. Len(out) /\ out[1] = p /\ \A j \in 1 .. Len(out) : out[j] = p
    BY <1>14
  <1>16. Final(out[1]) /\ out[1].itt = x.itt /\ \A j \in 1 .. Len(out) : out[j].op # "r2t"
    BY <1>6, <1>15 DEF Final
  <1>17. LiveOk(x.itt)' /\ PursuedOk(x.itt)'
    BY <1>13, <1>14, <1>15, <1>16, EndsFlow
  <1> QED
    BY <1>13, <1>17

LEMMA BurstSize == Burst \in Nat \ {0}
  BY SessionAssumption, ParamsAssumption DEF Burst, Smaller

\* The R2T p asks for what follows in the write w.
NextOf(i, p, w) ==
    p.op = "r2t" /\ p.itt = i /\ p.body.off = w.received /\ p.body.len = NextAsk(w)

\* A write that waits for more of its data.
LEMMA SolicitServed ==
    ASSUME CoreInv, FlowInv, Idle, NEW x, Work(x), x.itt \in Itts, exp_cmd_sn' \in Sn,
           Alone(x, x.itt), stage = "FullFeature",
           NEW w, in_flight' = [in_flight EXCEPT ![x.itt] = w], w # None,
           Issued(w.cmd), IssuedWrite(w.cmd), Of(x.itt, w.cmd), w.received \in Nat,
           w.received < w.cmd.edtl,
           Respond("r2t", x.itt, Solicit(w.cmd.edtl, w.received)), UNCHANGED disk,
           \A p \in Response : NextOf(x.itt, p, w) /\ tx' = Append(tx, p) => LiveOk(x.itt)'
    PROVE  /\ \E out : Served(x, out)
           /\ LiveOk(x.itt)' /\ PursuedOk(x.itt)'
  <1>1. in_flight'[x.itt] = w /\ OthersKept(x)
    BY DEF CoreInv, TargetInv, TypeOK, OthersKept
  <1>2. PICK n, m : n = w.cmd.edtl /\ m = w.received
    OBVIOUS
  <1>3. n \in Nat /\ m \in Nat /\ m < n /\ n = w.cmd.blocks
    BY <1>2 DEF Issued, ScsiCommand
  <1>4. /\ Solicit(n, m) \in Body /\ TypeOK /\ tx \in Seq(Response)
        /\ params.burst = Burst
    BY <1>3, SolicitType DEF CoreInv, TargetInv, TypeOK, FlowInv, BurstInv
  <1>5. PICK p \in Response :
            tx' = Append(tx, p) /\ p.op = "r2t" /\ p.itt = x.itt /\ p.body = Solicit(n, m)
    BY <1>2, <1>4, RespondPdu
  <1>6. p.body.off = m /\ p.body.len = Smaller(n - m, Burst)
    BY <1>4, <1>5 DEF Solicit
  <1>7. NextOf(x.itt, p, w)
    BY <1>2, <1>5, <1>6 DEF NextOf, NextAsk
  <1>8. p.body.len > 0 /\ p.body.off + p.body.len <= n
    BY <1>3, <1>6, BurstSize DEF Smaller
  <1>9. istage # "down" => TxOk(p)'
    <2>1. istage # "down" =>
              tasks[x.itt] # None /\ tasks[x.itt].op = "write" /\ tasks[x.itt].n = n
      BY <1>3 DEF Of, IssuedWrite
    <2> QED
      BY <1>5, <1>8, <2>1 DEF TxOk, Idle
  <1>10. Fitting(x, p)
    BY <1>5, <1>9 DEF Fitting, Abort
  <1>11. Served(x, <<p>>)
    BY <1>1, <1>4, <1>5, <1>10, OneServed
  <1>12. LiveOk(x.itt)'
    BY <1>5, <1>7
  <1>13. PursuedOk(x.itt)'
    <2>1. PICK u, k : u = tx' /\ k = Len(tx) + 1
      OBVIOUS
    <2>2. k \in 1 .. Len(u) /\ u[k] = p
      BY <1>4, <1>5, <2>1
    <2>3. istage # "down" => Asked(x.itt)'
      BY <1>5, <2>1, <2>2 DEF Asked, AskOf, Idle
    <2> QED
      BY <1>1, <2>3 DEF PursuedOk, Pursued, Idle
  <1> QED
    BY <1>11, <1>12, <1>13

-----------------------------------------------------------------------------
(* A read and its Data-In PDUs *)

LEMMA SubSeqElems ==
    ASSUME NEW R, NEW s \in Seq(R), NEW a \in Nat, NEW b \in Nat, a <= b, b <= Len(s)
    PROVE  /\ SubSeq(s, a + 1, b) \in Seq(R) /\ Len(SubSeq(s, a + 1, b)) = b - a
           /\ \A j \in 1 .. b - a : SubSeq(s, a + 1, b)[j] = s[a + j]
  <1>1. \A j \in 1 .. b - a : a + j \in 1 .. Len(s)
    OBVIOUS
  <1> QED
    BY <1>1

\* b carries the part of data that starts at b.off.
IsPiece(b, data) ==
    /\ b \in [final : BOOLEAN, off : Nat, data : Seq(Val \cup {Blank})]
    /\ b.off + Len(b.data) <= Len(data)
    /\ \A j \in 1 .. Len(b.data) : b.data[j] = data[b.off + j]
    /\ b.final => b.off + Len(b.data) = Len(data)

LEMMA ChunksPieces ==
    ASSUME TypeOK, NEW c \in ScsiCommand, NEW data \in Seq(Val \cup {Blank}), data # <<>>,
           NEW sn \in Sn, NEW exp \in Sn, NEW D, D = DataInChunks(c, data, sn, exp),
           NEW k \in 1 .. Len(D)
    PROVE  IsPiece(D[k].body, data)
  <1> DEFINE seg == Larger(params.segment, MinSegment)
             n == (Len(data) + seg - 1) \div seg
             body(i) == [final |-> i = n, off |-> (i - 1) * seg,
                         data |-> SubSeq(data, (i - 1) * seg + 1, Smaller(i * seg, Len(data)))]
  <1>1. seg \in Nat \ {0} /\ Len(data) \in Nat \ {0}
    BY ParamsAssumption DEF TypeOK, Larger
  <1>2. D = [i \in 1 .. n |-> Pdu("datain", c.itt, sn, exp, body(i))]
    BY DEF DataInChunks
  <1> HIDE DEF seg
  <1>3. n \in Nat \ {0} /\ Len(data) <= n * seg
        /\ \A i \in 1 .. n : (i - 1) * seg \in Nat /\ (i - 1) * seg < Len(data)
    <2>1. PICK len : len = Len(data)
      OBVIOUS
    <2>2. len \in Nat /\ len > 0 /\ n = (len + seg - 1) \div seg
      BY <1>1, <2>1
    <2>3. n \in Nat /\ n > 0 /\ \A i \in 1 .. n : (i - 1) * seg \in Nat /\ (i - 1) * seg < len
      BY <1>1, <2>2, DivRange
    <2>4. n * seg >= len
      BY <1>1, <2>2, DivCovers
    <2>5. n * seg \in Nat
      BY <1>1, <2>3
    <2> QED
      BY <2>1, <2>2, <2>3, <2>4, <2>5
  <1> HIDE DEF n
  <1> DEFINE a == (k - 1) * seg
             b == Smaller(k * seg, Len(data))
             piece == SubSeq(data, a + 1, b)
  <1>4. k \in 1 .. n
    BY <1>2, <1>3
  <1>5. k * seg = a + seg
    BY <1>1, <1>4
  <1>6. a \in Nat /\ a < Len(data)
    BY <1>3, <1>4
  <1>7. b \in Nat /\ a <= b /\ b <= Len(data)
    <2>1. PICK m : m = k * seg
      OBVIOUS
    <2>2. m = a + seg
      BY <1>5, <2>1
    <2> HIDE DEF a
    <2> QED
      BY <1>1, <1>6, <2>1, <2>2 DEF Smaller
  <1>8. k = n => b = Len(data)
    BY <1>1, <1>3 DEF Smaller
  <1>9. PICK f \in BOOLEAN : f = (k = n)
    OBVIOUS
  <1>10. body(k) = [final |-> f, off |-> a, data |-> piece]
    BY <1>9
  <1> HIDE DEF a, b
  <1>11. /\ piece \in Seq(Val \cup {Blank}) /\ Len(piece) = b - a
         /\ \A j \in 1 .. b - a : piece[j] = data[a + j]
    BY <1>6, <1>7, SubSeqElems
  <1> HIDE DEF piece, body
  <1>12. D[k].body = body(k)
    BY <1>2, <1>4, PduFields
  <1>13. IsPiece([final |-> f, off |-> a, data |-> piece], data)
    <2>1. [final |-> f, off |-> a, data |-> piece] \in
              [final : BOOLEAN, off : Nat, data : Seq(Val \cup {Blank})]
      BY <1>6, <1>11
    <2>2. a + Len(piece) = b
      BY <1>6, <1>7, <1>11
    <2>3. f => b = Len(data)
      BY <1>9, <1>8
    <2> QED
      BY <1>7, <1>11, <2>1, <2>2, <2>3 DEF IsPiece
  <1> QED
    BY <1>10, <1>12, <1>13

\* The k-th of the PDUs D of a read: only the last one carries the status.
ChunkOf(D, k, c) ==
    D[k].op = "datain" /\ D[k].itt = c.itt /\ (TakesStatSn(D[k]) <=> k = Len(D))

LEMMA ChunksKind ==
    ASSUME TypeOK, NEW c \in ScsiCommand, NEW data \in Seq(Val \cup {Blank}), data # <<>>,
           NEW sn \in Sn, NEW exp \in Sn, NEW D, D = DataInChunks(c, data, sn, exp),
           NEW k \in 1 .. Len(D)
    PROVE  ChunkOf(D, k, c)
  <1>1. /\ Len(D) \in Nat \ {0}
        /\ \A i \in 1 .. Len(D) :
              IsDataIn(D[i], c, sn, exp) /\ (TakesStatSn(D[i]) <=> i = Len(D))
    BY ChunksFields
  <1> QED
    BY <1>1 DEF IsDataIn, ChunkOf

LEMMA IndexSum ==
    ASSUME NEW a \in Nat, NEW off \in Nat, NEW len \in Nat, NEW n \in Nat, off + len <= n,
           NEW j \in 1 .. len
    PROVE  off + j \in 1 .. n /\ a + (off + j) - 1 = a + off + j - 1
  OBVIOUS

LEMMA ReadServed ==
    ASSUME CoreInv, FlowInv, Idle, NEW x \in ScsiCommand, x.op = "scsi", Issued(x), IssuedRead(x),
           Of(x.itt, x), exp_cmd_sn' \in Sn, ExecuteCommand(x), Alone(x, x.itt)
    PROVE  /\ \E out : Served(x, out)
           /\ LiveOk(x.itt)' /\ PursuedOk(x.itt)'
  <1>1. /\ x.cdb = "read" /\ x.blocks > 0 /\ InRange(x) /\ x.read
        /\ x.itt \in Itts /\ x.lba \in Nat /\ x.blocks \in Nat
    BY DEF ScsiCommand, Issued, IssuedRead
  <1>2. /\ TypeOK /\ stat_sn \in Sn /\ tx \in Seq(Response) /\ disk \in [Lbas -> Val \cup {Blank}]
    BY DEF CoreInv, TargetInv, TypeOK
  <1>3. UNCHANGED <<in_flight, disk>> /\ OthersKept(x)
    BY <1>1 DEF ExecuteCommand, WritesMedium, OthersKept
  <1>4. PICK o \in Outcomes(x) :
           IF x.read /\ o.status = "good" /\ o.data # <<>>
           THEN tx' = tx \o DataInChunks(x, o.data, stat_sn, exp_cmd_sn')
           ELSE Respond("scsi", x.itt, Code(o.status))
    BY <1>1 DEF ExecuteCommand, WritesMedium
  <1>5. \/ o = [status |-> "good", data |-> ReadData(x)]
        \/ o = [status |-> "check", data |-> <<>>]
    BY <1>1, <1>4 DEF Outcomes
  <1>6. Work(x)
    BY DEF Work
  <1>7. istage # "down" =>
            /\ tasks[x.itt] # None /\ tasks[x.itt].op = "read"
            /\ tasks[x.itt].lba = x.lba /\ tasks[x.itt].n = x.blocks
    BY <1>1 DEF Of
  <1>10. ~Sending(x.itt)' /\ ~Asked(x.itt)
    BY DEF Alone
  <1>8. CASE o = [status |-> "check", data |-> <<>>]
    <2>1. Code("check") \in Body /\ Code("check").code = "check"
      BY DEF Code, Body
    <2>2. PICK p \in Response :
              tx' = Append(tx, p) /\ p.op = "scsi" /\ p.itt = x.itt /\ p.body = Code("check")
      BY <1>1, <1>2, <1>4, <1>8, <2>1, RespondPdu
    <2>3. istage # "down" => TxOk(p)'
      BY <1>7, <2>1, <2>2 DEF TxOk, Idle
    <2>4. Fitting(x, p)
      BY <1>6, <2>2, <2>3 DEF Fitting, Abort
    <2>5. Served(x, <<p>>)
      BY <1>2, <1>3, <2>2, <2>4, OneServed
    <2>6. PICK out : out = <<p>>
      OBVIOUS
    <2>7. /\ 1 \in 1 .. Len(out) /\ Final(out[1]) /\ out[1].itt = x.itt
          /\ \A j \in 1 .. Len(out) : out[j].op # "r2t"
      BY <2>2, <2>6 DEF Final
    <2> QED
      BY <1>1, <1>10, <2>5, <2>6, <2>7, EndsFlow
  <1>9. CASE o = [status |-> "good", data |-> ReadData(x)]
    <2>1. PICK data, n, e : data = ReadData(x) /\ n = x.blocks /\ e = exp_cmd_sn'
      OBVIOUS
    <2>2. \A j \in 1 .. x.blocks : x.lba + j - 1 \in Lbas
      BY <1>1, DiskAssumption DEF InRange, Lbas
    <2>3. /\ data \in Seq(Val \cup {Blank}) /\ Len(data) = n /\ n \in Nat /\ n > 0
          /\ \A j \in 1 .. n : data[j] = disk[x.lba + j - 1]
      <3>1. /\ data \in [1 .. n -> Val \cup {Blank}]
            /\ \A j \in 1 .. n : data[j] = disk[x.lba + j - 1]
        BY <1>2, <2>1, <2>2 DEF ReadData
      <3>2. n \in Nat /\ n > 0
        BY <1>1, <2>1
      <3> QED
        BY <3>1, <3>2
    <2>4. data # <<>>
      BY <2>3
    <2>5. PICK D : D = DataInChunks(x, data, stat_sn, e)
      OBVIOUS
    <2>6. tx' = tx \o D /\ e \in Sn
      BY <1>1, <1>4, <1>9, <2>1, <2>4, <2>5
    <2>7. D \in Seq(Response)
      BY <1>2, <2>3, <2>5, <2>6, ChunksType
    <2>8. \A k \in 1 .. Len(D) : ChunkOf(D, k, x)
      BY <1>2, <2>3, <2>4, <2>5, <2>6, ChunksKind
    <2>9. \A k \in 1 .. Len(D) : IsPiece(D[k].body, data)
      BY <1>2, <2>3, <2>4, <2>5, <2>6, ChunksPieces
    <2>10. Ordered(D)
      <3> SUFFICES ASSUME NEW k \in 1 .. Len(D), NEW j \in 1 .. k - 1, Clash(D[j], D[k]) PROVE FALSE
        BY DEF Ordered
      <3>1. j \in 1 .. Len(D) /\ j # Len(D)
        BY <2>7
      <3>2. D[j].op = "datain" /\ ~TakesStatSn(D[j])
        BY <2>8, <3>1 DEF ChunkOf
      <3> QED
        BY <3>2 DEF Clash, Final, Abort, TakesStatSn
    <2>11. ASSUME NEW k \in 1 .. Len(D), istage # "down" PROVE TxOk(D[k])'
      <3>1. PICK p : p = D[k]
        OBVIOUS
      <3>2. p.op = "datain" /\ p.itt = x.itt /\ IsPiece(p.body, data)
        BY <2>8, <2>9, <3>1 DEF ChunkOf
      <3>3. ASSUME NEW j \in 1 .. Len(p.body.data)
            PROVE  p.body.data[j] \in may[x.lba + p.body.off + j - 1]
        <4>1. PICK off, len, a, q :
                  off = p.body.off /\ len = Len(p.body.data) /\ a = x.lba /\ q = off + j
          OBVIOUS
        <4>2. /\ off \in Nat /\ len \in Nat /\ off + len <= n
              /\ a \in Nat /\ n \in Nat /\ j \in 1 .. len
          BY <1>1, <2>3, <3>2, <4>1 DEF IsPiece
        <4>3. q \in 1 .. n /\ a + q - 1 = a + off + j - 1
          <5>1. q = off + j
            BY <4>1
          <5> QED
            BY <4>2, <5>1, IndexSum
        <4>4. p.body.data[j] = data[q]
          BY <3>2, <4>1 DEF IsPiece
        <4>5. p.body.data[j] = disk[a + q - 1] /\ a + q - 1 \in Lbas
          BY <2>1, <2>2, <2>3, <4>1, <4>3, <4>4
        <4> QED
          BY <4>1, <4>3, <4>5 DEF FlowInv, StoredAsAcknowledged
      <3>4. ReadOk(p.body, tasks[x.itt])'
        BY <1>7, <2>1, <2>3, <2>11, <3>2, <3>3 DEF ReadOk, IsPiece, Idle
      <3>5. TxOk(p)'
        BY <1>7, <2>11, <3>2, <3>4 DEF TxOk, Idle
      <3> QED
        BY <3>1, <3>5
    <2>12. ASSUME NEW k \in 1 .. Len(D) PROVE Fitting(x, D[k])
      BY <1>6, <2>8, <2>11, <2>12 DEF Fitting, ChunkOf, Abort
    <2>13. Served(x, D)
      BY <1>3, <2>6, <2>7, <2>10, <2>12 DEF Served
    <2>14. PICK z : z = Len(D)
      OBVIOUS
    <2>15. z \in 1 .. Len(D) /\ Final(D[z]) /\ D[z].itt = x.itt
      <3>1. Len(D) \in Nat \ {0}
        BY <1>2, <2>3, <2>4, <2>5, <2>6, ChunksFields
      <3> QED
        BY <2>8, <2>14, <3>1 DEF ChunkOf, Final, TakesStatSn
    <2>16. \A k \in 1 .. Len(D) : D[k].op # "r2t"
      BY <2>8 DEF ChunkOf
    <2> QED
      BY <1>1, <1>10, <2>13, <2>15, <2>16, EndsFlow
  <1> QED
    BY <1>5, <1>8, <1>9

-----------------------------------------------------------------------------
(* A write and its Data-Out PDUs *)

\* A pending write is not the absence of one.
LEMMA PendingThere ==
    ASSUME NEW n \in 1 .. DiskSize, NEW w \in Pending(n) PROVE w # None
  BY AbsentAssumption DEF Pending

LEMMA IssuedSize ==
    ASSUME NEW c, Issued(c) PROVE c.edtl \in 1 .. DiskSize /\ c.edtl \in Nat /\ c.edtl = c.blocks
  <1>1. c.lba \in Nat /\ c.blocks \in Nat /\ c.edtl = c.blocks /\ c.blocks > 0
        /\ c.lba + c.blocks <= DiskSize
    BY DEF Issued, ScsiCommand, InRange
  <1> QED
    BY <1>1, DiskAssumption

\* After a first R2T has been asked for the rest, one is on its way.
LEMMA AskedOnce ==
    ASSUME NEW i, NEW w, NEW p, tx \in Seq(Response), p \in Response, tx' = Append(tx, p), NextOf(i, p, w),
           ~Sending(i)', istage' = istage, istage # "down", ~Asked(i)
    PROVE  OneAsked(i, w)' /\ (~Settled(i) => ~Settled(i)')
  <1>1. PICK u : u = tx'
    OBVIOUS
  <1>2. \A k \in 1 .. Len(u) : (k \in 1 .. Len(tx) /\ u[k] = tx[k]) \/ (k = Len(tx) + 1 /\ u[k] = p)
    BY <1>1
  <1>3. \A k \in 1 .. Len(tx) : ~AskOf(tx[k], i)
    BY DEF Asked
  <1>4. \A k \in 1 .. Len(u) : AskOf(u[k], i) => k = Len(tx) + 1 /\ u[k] = p
    BY <1>2, <1>3
  <1>5. Once(u, i)
    BY <1>4 DEF Once
  <1>6. \A k \in 1 .. Len(u) : AskOf(u[k], i) => u[k].body.off = w.received /\ u[k].body.len = NextAsk(w)
    BY <1>4 DEF NextOf
  <1>7. OneAsked(i, w)'
    BY <1>1, <1>5, <1>6 DEF OneAsked
  <1>8. ~Settled(i) => ~Settled(i)'
    <2>1. Settled(i)' <=> \E k \in 1 .. Len(u) : u[k].op = "scsi" /\ u[k].itt = i
      BY <1>1 DEF Settled
    <2> QED
      BY <1>2, <2>1 DEF Settled, NextOf
  <1> QED
    BY <1>7, <1>8

LEMMA BeginServed ==
    ASSUME CoreInv, FlowInv, Idle, NEW x \in ScsiCommand, x.op = "scsi", Issued(x), IssuedWrite(x),
           RxOk(x), exp_cmd_sn' \in Sn, BeginWrite(x), Alone(x, x.itt), stage = "FullFeature"
    PROVE  /\ FlightOk' /\ \E out : Served(x, out)
           /\ LiveOk(x.itt)' /\ PursuedOk(x.itt)'
  <1> DEFINE blank == [y \in 0 .. x.edtl - 1 |-> Blank]
             buf == Patched(blank, 0, x.data)
             w == [cmd |-> x, buf |-> buf, received |-> Len(x.data)]
  <1>1. /\ x.itt \in Itts /\ x.data \in Seq(Val) /\ Len(x.data) \in Nat
        /\ x.edtl \in 1 .. DiskSize /\ x.edtl \in Nat /\ x.edtl = x.blocks
        /\ Len(x.data) <= x.edtl /\ x.lba \in Nat
    BY IssuedSize DEF ScsiCommand, IssuedWrite
  <1>2. Work(x) /\ Of(x.itt, x) /\ CarriesOf(x.itt, x)
    BY DEF Work, RxOk, IssuedWrite
  <1>3. buf \in [0 .. x.edtl - 1 -> Val \cup {Blank}]
    <2>1. blank \in [0 .. x.edtl - 1 -> Val \cup {Blank}]
      OBVIOUS
    <2> HIDE DEF blank
    <2> QED
      BY <1>1, <2>1, PatchedType
  <1>4. ASSUME NEW y \in 0 .. Len(x.data) - 1 PROVE buf[y] \in Sent(x.itt, x.lba + y)
    <2>1. PICK j : j = y + 1
      OBVIOUS
    <2>2. j \in 1 .. Len(x.data) /\ x.lba + j - 1 = x.lba + y /\ y \in 0 .. x.edtl - 1
          /\ y >= 0 /\ y < 0 + Len(x.data) /\ y - 0 + 1 = j
      BY <1>1, <2>1
    <2>3. buf[y] = x.data[j]
      BY <2>2 DEF Patched
    <2>4. x.data[j] \in Sent(x.itt, x.lba + j - 1)
      BY <1>2, <2>2 DEF CarriesOf
    <2> QED
      BY <2>2, <2>3, <2>4
  <1>5. ASSUME NEW y \in 0 .. x.edtl - 1, ~(y \in 0 .. Len(x.data) - 1) PROVE buf[y] = Blank
    <2>1. ~(y < 0 + Len(x.data))
      BY <1>1, <1>5
    <2> QED
      BY <2>1 DEF Patched
  <1> HIDE DEF blank, buf
  <1>6. CASE Len(x.data) = x.edtl /\ FinishWrite(x, buf) /\ UNCHANGED in_flight
    <2>1. FlightOk'
      BY <1>6 DEF FlowInv, FlightOk, Issued, IssuedWrite, InRange
    <2>2. \A y \in 0 .. x.blocks - 1 : buf[y] \in Sent(x.itt, x.lba + y)
      BY <1>1, <1>4, <1>6
    <2>3. OthersKept(x) /\ ~Sending(x.itt)' /\ ~Asked(x.itt)
      BY <1>6 DEF OthersKept, Alone
    <2>4. PICK b : b = buf
      OBVIOUS
    <2> QED
      BY <1>1, <1>2, <1>6, <2>1, <2>2, <2>3, <2>4, FinishServed
  <1>7. CASE /\ Len(x.data) < x.edtl
             /\ in_flight' = [in_flight EXCEPT ![x.itt] = w]
             /\ Respond("r2t", x.itt, Solicit(x.edtl, Len(x.data)))
             /\ UNCHANGED disk
    <2>1. w \in Pending(x.edtl) /\ w.cmd = x /\ w.received = Len(x.data) /\ w.buf = buf
      BY <1>1, <1>3 DEF Pending
    <2> HIDE DEF w
    <2>2. PICK v, i, n, m, a : v = w /\ i = x.itt /\ n = x.edtl /\ m = Len(x.data) /\ a = x.lba
      OBVIOUS
    <2>3. v # None /\ v.cmd = x /\ v.received = m /\ v.buf = buf
      BY <1>1, <2>1, <2>2, PendingThere
    <2>4. \A j \in Itts : in_flight'[j] = IF j = i THEN v ELSE in_flight[j]
      BY <1>7, <2>2 DEF CoreInv, TargetInv, TypeOK
    <2>5. FlightOk'
      BY <2>1, <2>2, <2>4 DEF FlowInv, FlightOk, Issued, IssuedWrite, InRange
    <2>6. ASSUME NEW p \in Response, NextOf(i, p, v), tx' = Append(tx, p), istage # "down"
          PROVE  Held(i, v)'
      <3>1. /\ tx \in Seq(Response) /\ istage' = istage /\ may' = may /\ tasks' = tasks
            /\ i \in Itts /\ n \in Nat /\ m \in Nat /\ a \in Nat /\ m < n /\ v.cmd.edtl = n /\ v.cmd.lba = a
        BY <1>1, <1>7, <2>2, <2>3 DEF CoreInv, TargetInv, TypeOK, Idle
      <3>2. ~Sending(i)' /\ ~Asked(i) /\ ~Waiting(i)' /\ ~Settled(i)
        BY <2>2, <2>6 DEF Alone, Answered, Settled, Final
      <3>3. OneAsked(i, v)' /\ ~Settled(i)'
        BY <2>6, <3>1, <3>2, AskedOnce
      <3>4. Of(i, v.cmd)'
        BY <1>2, <2>2, <2>3, <3>1 DEF Of
      <3>5. PICK s : s = rx' /\ \A k \in 1 .. Len(s) : ~DataOf(s[k], i)
        BY <3>2 DEF Sending
      <3>6. \A k \in 1 .. Len(s) : DataOf(s[k], i) => PartOf(i, v.cmd, s[k])'
        BY <3>5
      <3>7. Chain(rx, i, v.received, v.cmd.edtl)'
        BY <3>5 DEF Chain
      <3>8. tasks[i].after = After(tasks[i].val, n - m, tasks[i].seg)
        BY <1>2, <2>2, <2>6 DEF CarriesOf
      <3>9. CASE Exact(n - m, tasks[i].seg)
        <4>1. Filled(i, v)'
          <5>1. \A y \in 0 .. m - 1 : v.buf[y] \in Sent(i, a + y)
            BY <1>4, <2>2, <2>3
          <5> QED
            BY <2>3, <3>1, <5>1 DEF Filled, Sent
        <4>2. InOrder(i, v)'
          BY <2>3, <3>1, <3>3, <3>7, <3>9, <4>1 DEF InOrder
        <4> QED
          BY <3>2, <3>3, <3>4, <3>5, <3>6, <4>2 DEF Held
      <3>10. CASE ~Exact(n - m, tasks[i].seg)
        <4>1. Blank \in tasks[i].after
          BY <3>8, <3>10 DEF After
        <4>2. ASSUME NEW y \in 0 .. n - 1 PROVE v.buf[y] \in Sent(i, a + y) /\ Blank \in Sent(i, a + y)
          BY <1>4, <1>5, <2>2, <2>3, <2>6, <4>1 DEF Sent
        <4>3. Scattered(i, v)'
          BY <3>1, <4>2 DEF Scattered, Sent
        <4> QED
          BY <3>2, <3>3, <3>4, <3>5, <3>6, <4>3 DEF Held
      <3> QED
        BY <3>9, <3>10
    <2>7. ASSUME NEW p \in Response, NextOf(i, p, v), tx' = Append(tx, p) PROVE LiveOk(i)'
      <3>1. in_flight'[i] = v /\ ~Sending(i)'
        BY <1>1, <2>2, <2>4 DEF Alone
      <3>2. Asked(i)' => istage # "down"
        BY DEF Asked, Idle
      <3> QED
        BY <2>6, <2>7, <3>1, <3>2 DEF LiveOk
    <2>8. /\ in_flight' = [in_flight EXCEPT ![x.itt] = v]
          /\ Respond("r2t", x.itt, Solicit(v.cmd.edtl, v.received))
          /\ Issued(v.cmd) /\ IssuedWrite(v.cmd) /\ Of(x.itt, v.cmd)
          /\ v.received \in Nat /\ v.received < v.cmd.edtl /\ UNCHANGED disk
      BY <1>1, <1>2, <1>7, <2>2, <2>3
    <2> QED
      BY <1>1, <1>2, <2>2, <2>3, <2>5, <2>7, <2>8, SolicitServed
  <1> QED
    BY <1>1, <1>6, <1>7 DEF BeginWrite, blank, buf

LEMMA ScsiServed ==
    ASSUME CoreInv, FlowInv, Idle, NEW x \in ScsiCommand, RxOk(x), HandleScsiCommand(x),
           Alone(x, x.itt)
    PROVE  /\ UNCHANGED <<stage, params>> /\ FlightOk'
           /\ \E out : Served(x, out)
           /\ LiveOk(x.itt)' /\ PursuedOk(x.itt)'
  <1>1. /\ x.op = "scsi" /\ UNCHANGED <<stage, params>> /\ bound /\ stage = "FullFeature"
        /\ Issued(x) /\ Of(x.itt, x) /\ (IssuedRead(x) \/ IssuedWrite(x))
    BY DEF HandleScsiCommand, CoreInv, TargetInv, TargetResolved, RxOk, Issued
  <1>2. exp_cmd_sn' \in Sn
    BY <1>1, ExpCmdSnType
       DEF HandleScsiCommand, ExecuteCommand, BeginWrite, ExpCmdSnAfter, CoreInv, TargetInv
  <1>3. CASE ExecuteCommand(x)
    <2>1. IssuedRead(x)
      BY <1>1, <1>3 DEF ExecuteCommand, IssuedWrite
    <2>2. FlightOk'
      BY <1>3 DEF ExecuteCommand, FlowInv, FlightOk, Issued, IssuedWrite, InRange
    <2> QED
      BY <1>1, <1>2, <1>3, <2>1, <2>2, ReadServed
  <1>4. CASE BeginWrite(x)
    <2>1. IssuedWrite(x)
      BY <1>1, <1>4 DEF BeginWrite, IssuedRead
    <2> QED
      BY <1>1, <1>2, <1>4, <2>1, BeginServed
  <1> QED
    BY <1>1, <1>3, <1>4 DEF HandleScsiCommand

\* What the step leaves of the stream that x heads.
Behind(x) ==
    /\ rx \in Seq(Request) /\ rx' \in Seq(Request) /\ rx # <<>> /\ x = rx[1] /\ rx' = Tail(rx)
    /\ \A k \in 1 .. Len(rx') : \E j \in 1 .. Len(rx) : rx'[k] = rx[j]
    /\ \A k \in 1 .. Len(rx) : rx[k] = x \/ \E j \in 1 .. Len(rx') : rx'[j] = rx[k]

LEMMA BehindFirst ==
    ASSUME rx \in Seq(Request), rx # <<>>, NEW x, x = rx[1], rx' = Tail(rx)
    PROVE  Behind(x)
  <1>1. PICK t : t = rx'
    OBVIOUS
  <1>2. /\ t \in Seq(Request) /\ Len(rx) \in Nat \ {0} /\ Len(t) = Len(rx) - 1
        /\ \A k \in 1 .. Len(t) : k + 1 \in 1 .. Len(rx) /\ t[k] = rx[k + 1]
    BY <1>1, TailElems
  <1>3. ASSUME NEW k \in 1 .. Len(rx), k # 1 PROVE \E j \in 1 .. Len(t) : t[j] = rx[k]
    <2>1. PICK j : j = k - 1
      OBVIOUS
    <2>2. j \in 1 .. Len(t) /\ j + 1 = k
      BY <1>2, <1>3, <2>1
    <2>3. t[j] = rx[k]
      BY <1>2, <2>2
    <2> QED
      BY <2>2, <2>3
  <1> QED
    BY <1>1, <1>2, <1>3 DEF Behind

\* A Data-Out PDU for which no write waits.
LEMMA LateServed ==
    ASSUME CoreInv, FlowInv, Idle, NEW x \in DataOut, x.op = "dataout", Behind(x),
           in_flight[x.itt] = None, SendReject(x.itt), UNCHANGED <<in_flight, disk, exp_cmd_sn>>
    PROVE  /\ \E out : Served(x, out)
           /\ LiveOk(x.itt)' /\ PursuedOk(x.itt)'
  <1>1. x.itt \in Itts /\ Code("none") \in Body /\ TypeOK /\ exp_cmd_sn' \in Sn /\ tx \in Seq(Response)
    BY DEF DataOut, Code, Body, CoreInv, TargetInv, TypeOK
  <1>2. PICK p \in Response : tx' = Append(tx, p) /\ p.op = "reject" /\ p.itt = x.itt
    BY <1>1, RespondPdu DEF SendReject
  <1>3. Fitting(x, p)
    BY <1>2 DEF Fitting, Work, Abort, TxOk
  <1>4. OthersKept(x)
    BY DEF OthersKept
  <1>5. Served(x, <<p>>)
    BY <1>1, <1>2, <1>3, <1>4, OneServed
  <1>6. PICK i : i = x.itt
    OBVIOUS
  <1>7. LiveOk(i)'
    BY <1>6 DEF LiveOk
  <1>8. Waiting(i) => Waiting(i)'
    <2>1. PICK t : t = rx'
      OBVIOUS
    <2>2. Waiting(i)' <=> \E k \in 1 .. Len(t) : t[k].op = "scsi" /\ t[k].itt = i
      BY <2>1 DEF Waiting
    <2>3. \A k \in 1 .. Len(rx) : rx[k] = x \/ \E j \in 1 .. Len(t) : t[j] = rx[k]
      BY <2>1 DEF Behind
    <2> SUFFICES ASSUME NEW k \in 1 .. Len(rx), rx[k].op = "scsi", rx[k].itt = i PROVE Waiting(i)'
      BY DEF Waiting
    <2>4. PICK j \in 1 .. Len(t) : t[j] = rx[k]
      BY <2>3
    <2> QED
      BY <2>2, <2>4
  <1>9. Answered(i) => Answered(i)'
    <2>1. PICK out : out = <<p>> /\ out \in Seq(Response) /\ tx' = tx \o out
      BY <1>5 DEF Served
    <2> QED
      BY <1>1, <2>1, TxConcat
  <1>10. PursuedOk(i)'
    BY <1>1, <1>6, <1>8, <1>9 DEF PursuedOk, Pursued, FlowInv, PursuedInv, Idle
  <1> QED
    BY <1>5, <1>6, <1>7, <1>10

\* The buffer of the pending write w with the data of x in it.
Laid(w, x) == Patched(w.buf, x.off, x.data)

LEMMA LaidSent ==
    ASSUME NEW i, NEW w, NEW x \in DataOut, PartOf(i, w.cmd, x), w.cmd.edtl \in Nat, w.cmd.lba \in Nat,
           w.buf \in [0 .. w.cmd.edtl - 1 -> Val \cup {Blank}],
           NEW y \in 0 .. w.cmd.edtl - 1,
           w.buf[y] \in Sent(i, w.cmd.lba + y) \/ (x.off <= y /\ y < x.off + Len(x.data))
    PROVE  Laid(w, x)[y] \in Sent(i, w.cmd.lba + y)
  <1>1. PICK a, o, len, n : a = w.cmd.lba /\ o = x.off /\ len = Len(x.data) /\ n = w.cmd.edtl
    OBVIOUS
  <1>2. a \in Nat /\ o \in Nat /\ len \in Nat /\ n \in Nat /\ y \in Nat /\ y \in 0 .. n - 1
    BY <1>1 DEF DataOut
  <1>3. Laid(w, x)[y] = IF y >= o /\ y < o + len THEN x.data[y - o + 1] ELSE w.buf[y]
    BY <1>1 DEF Laid, Patched
  <1>4. CASE y >= o /\ y < o + len
    <2>1. PICK j : j = y - o + 1
      OBVIOUS
    <2>2. j \in 1 .. len /\ a + o + j - 1 = a + y
      BY <1>2, <1>4, <2>1
    <2>3. x.data[j] \in Sent(i, a + o + j - 1)
      BY <1>1, <2>2 DEF PartOf
    <2> QED
      BY <1>1, <1>3, <1>4, <2>1, <2>2, <2>3
  <1>5. CASE ~(y >= o /\ y < o + len)
    BY <1>1, <1>2, <1>3, <1>5
  <1> QED
    BY <1>4, <1>5

\* The data PDU that heads rx continues what has been received.
LEMMA InOrderFirst ==
    ASSUME NEW x \in DataOut, x.op = "dataout", Behind(x), NEW w, InOrder(x.itt, w),
           w.received \in Nat
    PROVE  /\ x.off = w.received
           /\ DataEnd(x) # w.cmd.edtl => Chain(rx', x.itt, DataEnd(x), w.cmd.edtl)
  <1>1. PICK i, s, n, m : i = x.itt /\ s = rx /\ n = w.cmd.edtl /\ m = w.received
    OBVIOUS
  <1>2. Chain(s, i, m, n) /\ s \in Seq(Request) /\ s # <<>> /\ s[1] = x
    BY <1>1 DEF InOrder, Behind
  <1>3. DataOf(s[1], i) /\ Len(x.data) \in Nat /\ m \in Nat
    BY <1>1, <1>2 DEF DataOf, DataOut
  <1>4. x.off = m /\ (DataEnd(x) # n => Chain(Tail(s), i, DataEnd(x), n))
    BY <1>2, <1>3, ChainTail
  <1> QED
    BY <1>1, <1>4 DEF Behind

\* Of a write gathered one PDU at a time nothing else was on its way.
LEMMA LastSent ==
    ASSUME NEW x \in DataOut, x.op = "dataout", Behind(x), NEW w, OneSent(x.itt, w),
           InOrder(x.itt, w), w.received \in Nat, DataEnd(x) # w.cmd.edtl
    PROVE  ~Sending(x.itt)'
  <1>1. PICK i, t, n, m, e : i = x.itt /\ t = rx' /\ n = w.cmd.edtl /\ m = w.received /\ e = DataEnd(x)
    OBVIOUS
  <1>2. x.off = m /\ Chain(t, i, e, n)
    BY <1>1, InOrderFirst
  <1>3. \A k \in 1 .. Len(rx) : DataOf(rx[k], i) =>
            rx[k].off = m /\ Len(rx[k].data) > 0 /\ DataEnd(rx[k]) < n
    BY <1>1 DEF OneSent
  <1>4. \A k \in 1 .. Len(t) : DataOf(t[k], i) =>
            t[k].off = m /\ Len(t[k].data) > 0 /\ DataEnd(t[k]) < n /\ t[k] \in Request
    BY <1>1, <1>3 DEF Behind
  <1>5. rx \in Seq(Request) /\ 1 \in 1 .. Len(rx) /\ DataOf(rx[1], i) /\ Len(x.data) \in Nat
    BY <1>1, TailElems DEF Behind, DataOf, DataOut
  <1>6. m \in Nat /\ e > m /\ Len(x.data) > 0
    <2>1. Len(x.data) > 0
      BY <1>3, <1>5 DEF Behind
    <2> QED
      BY <1>1, <1>2, <1>5, <2>1 DEF DataEnd
  <1>10. e < n
    BY <1>1, <1>3, <1>5 DEF Behind
  <1>7. ASSUME NEW k \in 1 .. Len(t), DataOf(t[k], i) PROVE FALSE
    <2>1. \/ \E q \in 1 .. k - 1 : DataOf(t[q], i) /\ DataEnd(t[q]) = n
          \/ t[k].off = e
          \/ \E q \in 1 .. k - 1 : DataOf(t[q], i) /\ DataEnd(t[q]) = t[k].off
      BY <1>2, <1>7 DEF Chain
    <2>2. t[k].off = m
      BY <1>4, <1>7
    <2>3. ASSUME NEW q \in 1 .. k - 1, DataOf(t[q], i) PROVE DataEnd(t[q]) # n /\ DataEnd(t[q]) # m
      <3>1. q \in 1 .. Len(t)
        <4>1. Len(t) \in Nat
          BY <1>1 DEF Behind
        <4> QED
          BY <4>1
      <3>2. t[q].off = m /\ Len(t[q].data) > 0 /\ DataEnd(t[q]) < n /\ Len(t[q].data) \in Nat
        BY <1>4, <2>3, <3>1, RequestTag DEF DataOf
      <3>3. PICK b, z : b = t[q].off /\ z = Len(t[q].data)
        OBVIOUS
      <3>4. DataEnd(t[q]) = b + z
        BY <3>3 DEF DataEnd
      <3>5. n # DataEnd(t[q])
        <4>1. DataEnd(t[q]) \in Nat
          BY <1>6, <3>2, <3>3, <3>4
        <4> QED
          BY <3>2, <4>1
      <3> QED
        BY <1>6, <3>2, <3>3, <3>4, <3>5
    <2> QED
      BY <1>6, <2>1, <2>2, <2>3
  <1>8. Sending(i)' <=> \E k \in 1 .. Len(t) : DataOf(t[k], i)
    BY <1>1 DEF Sending
  <1> QED
    BY <1>1, <1>7, <1>8

\* A write of which data has been taken still belongs to its task.
LEMMA HeldOn ==
    ASSUME CoreInv, FlowInv, Idle, NEW x \in DataOut, x.op = "dataout", Behind(x),
           NEW w, Held(x.itt, w), w.cmd.edtl \in Nat, w.cmd.lba \in Nat, w.received \in Nat,
           w.buf \in [0 .. w.cmd.edtl - 1 -> Val \cup {Blank}], PartOf(x.itt, w.cmd, x),
           ~Waiting(x.itt)',
           NEW v, v.cmd = w.cmd, v.buf = Laid(w, x), v.received = w.received + Len(x.data),
           v.received < w.cmd.edtl,
           NEW p \in Response, NextOf(x.itt, p, v), tx' = Append(tx, p)
    PROVE  Held(x.itt, v)'
  <1>1. PICK i, n, m, r, a : i = x.itt /\ n = w.cmd.edtl /\ m = w.received /\ r = v.received
                             /\ a = w.cmd.lba
    OBVIOUS
  <1>2. /\ n \in Nat /\ m \in Nat /\ a \in Nat /\ r \in Nat /\ r < n /\ m <= r
        /\ tx \in Seq(Response) /\ istage' = istage /\ may' = may /\ tasks' = tasks
        /\ v.cmd.edtl = n /\ v.cmd.lba = a /\ v.cmd = w.cmd
    BY <1>1 DEF DataOut, Idle, CoreInv, TargetInv, TypeOK
  <1>3. Of(i, v.cmd)'
    BY <1>1, <1>2 DEF Held, Of
  <1>4. istage # "down" => ~Settled(i)'
    <2> SUFFICES ASSUME istage # "down" PROVE ~Settled(i)'
      OBVIOUS
    <2>1. ~Settled(i)
      BY <1>1 DEF Held
    <2>2. PICK u : u = tx'
      OBVIOUS
    <2>3. \A k \in 1 .. Len(u) : (k \in 1 .. Len(tx) /\ u[k] = tx[k]) \/ u[k] = p
      BY <1>2, <2>2
    <2>4. Settled(i)' <=> \E k \in 1 .. Len(u) : u[k].op = "scsi" /\ u[k].itt = i
      BY <2>2 DEF Settled
    <2> QED
      BY <2>1, <2>3, <2>4 DEF Settled, NextOf
  <1>5. PICK t : t = rx'
    OBVIOUS
  <1>6. /\ \A k \in 1 .. Len(t) : \E j \in 1 .. Len(rx) : t[k] = rx[j]
        /\ \A k \in 1 .. Len(rx) : rx[k] = x \/ \E j \in 1 .. Len(t) : t[j] = rx[k]
    BY <1>5 DEF Behind
  <1>7. \A k \in 1 .. Len(t) : DataOf(t[k], i) => PartOf(i, v.cmd, t[k])'
    <2> SUFFICES ASSUME NEW k \in 1 .. Len(t), DataOf(t[k], i) PROVE PartOf(i, v.cmd, t[k])'
      OBVIOUS
    <2>1. PICK y : y = t[k]
      OBVIOUS
    <2>2. PartOf(i, w.cmd, y)
      BY <1>1, <1>6, <2>1 DEF Held
    <2>3. PartOf(i, v.cmd, y)'
      BY <1>2, <2>2 DEF PartOf, Sent
    <2> QED
      BY <1>5, <2>1, <2>3
  <1>8. ASSUME NEW y \in 0 .. n - 1, w.buf[y] \in Sent(i, a + y) \/ (x.off <= y /\ y < x.off + Len(x.data))
        PROVE  v.buf[y] \in Sent(i, a + y)'
    <2>1. v.buf[y] \in Sent(i, a + y)
      BY <1>1, <1>8, LaidSent
    <2> QED
      BY <1>2, <2>1 DEF Sent
  <1>11. Scattered(i, v)' \/ InOrder(i, v)' => Held(i, v)'
    <2>1. ASSUME NEW k \in 1 .. Len(rx'), DataOf(rx'[k], i) PROVE PartOf(i, v.cmd, rx[k])'
      <3>1. PICK y : y = rx'[k]
        OBVIOUS
      <3>2. k \in 1 .. Len(t) /\ t[k] = y /\ DataOf(t[k], i)
        BY <1>5, <2>1, <3>1
      <3>3. PartOf(i, v.cmd, y)'
        BY <1>7, <3>2
      <3> QED
        BY <3>1, <3>3
    <2>2. ~Waiting(i)'
      BY <1>1
    <2> QED
      BY <1>2, <1>3, <1>4, <2>1, <2>2 DEF Held
  <1>9. CASE Scattered(i, w)
    <2>1. Scattered(i, v)'
      BY <1>1, <1>2, <1>8, <1>9 DEF Scattered, Sent
    <2> QED
      BY <1>1, <1>11, <2>1
  <1>10. CASE InOrder(i, w)
    <2>1. x.off = m /\ DataEnd(x) = r /\ r # n
      BY <1>1, <1>2, <1>10, InOrderFirst DEF DataEnd
    <2>2. Chain(rx, i, v.received, v.cmd.edtl)'
      BY <1>1, <1>2, <1>10, <2>1, InOrderFirst
    <2>3. Filled(i, v)'
      <3>1. ASSUME NEW y \in 0 .. r - 1 PROVE v.buf[y] \in Sent(i, a + y)'
        <4>1. y \in 0 .. n - 1 /\ (y \in 0 .. m - 1 \/ (x.off <= y /\ y < x.off + Len(x.data)))
          BY <1>1, <1>2, <2>1 DEF DataEnd
        <4>2. y \in 0 .. m - 1 => w.buf[y] \in Sent(i, a + y)
          BY <1>1, <1>10 DEF InOrder, Filled
        <4> QED
          BY <1>8, <4>1, <4>2
      <3> QED
        BY <1>1, <1>2, <3>1 DEF Filled
    <2>4. ASSUME istage # "down"
          PROVE  /\ Exact(v.cmd.edtl - v.received, tasks[i].seg)
                 /\ Finishing(i, v)' \/ OneAsked(i, v)' \/ OneSent(i, v)'
      <3>1. Exact(n - m, tasks[i].seg) /\ (Finishing(i, w) \/ OneAsked(i, w) \/ OneSent(i, w))
        BY <1>1, <1>10, <2>4 DEF InOrder
      <3>2. Exact(n - r, tasks[i].seg)
        BY <1>2, <3>1, BurstSize DEF Exact
      <3>3. ~OneAsked(i, w)
        <4>1. 1 \in 1 .. Len(rx) /\ DataOf(rx[1], i)
          BY <1>1, TailElems DEF Behind, DataOf
        <4> QED
          BY <4>1 DEF OneAsked, Sending
      <3>4. CASE Finishing(i, w)
        <4>1. PICK k \in 1 .. Len(rx) : DataOf(rx[k], i) /\ DataEnd(rx[k]) = n
          BY <1>1, <3>4 DEF Finishing
        <4>2. PICK j \in 1 .. Len(t) : t[j] = rx[k]
          BY <1>6, <2>1, <4>1
        <4>3. Finishing(i, v)'
          BY <1>2, <1>5, <4>1, <4>2 DEF Finishing
        <4> QED
          BY <1>1, <1>2, <3>2, <4>3
      <3>5. CASE OneSent(i, w)
        <4>1. ~Sending(i)' /\ ~Asked(i)
          BY <1>1, <1>10, <2>1, <3>5, LastSent DEF OneSent
        <4>2. OneAsked(i, v)'
          BY <1>1, <1>2, <2>4, <4>1, AskedOnce
        <4> QED
          BY <1>1, <1>2, <3>2, <4>2
      <3> QED
        BY <3>1, <3>3, <3>4, <3>5
    <2>5. InOrder(i, v)'
      <3>1. istage' # "down" => Exact(v.cmd.edtl - v.received, tasks'[i].seg)
        BY <1>2, <2>4
      <3> QED
        BY <1>2, <2>2, <2>3, <2>4, <3>1 DEF InOrder
    <2> QED
      BY <1>1, <1>11, <2>5
  <1> QED
    BY <1>1, <1>9, <1>10 DEF Held

LEMMA DataOutServed ==
    ASSUME CoreInv, FlowInv, Idle, NEW x \in DataOut, HandleDataOut(x), Behind(x)
    PROVE  /\ UNCHANGED <<stage, params>> /\ FlightOk'
           /\ \E out : Served(x, out)
           /\ LiveOk(x.itt)' /\ PursuedOk(x.itt)'
  <1>1. /\ x.op = "dataout" /\ UNCHANGED <<stage, params, exp_cmd_sn>> /\ Work(x)
        /\ stage = "FullFeature"
        /\ x.itt \in Itts /\ x.off \in Nat /\ x.data \in Seq(Val) /\ Len(x.data) \in Nat
    BY DEF HandleDataOut, DataOut, Work
  <1>2. exp_cmd_sn' \in Sn /\ rx # <<>> /\ x = rx[1] /\ rx' = Tail(rx)
    BY <1>1 DEF CoreInv, TargetInv, TypeOK, Behind
  <1>3. CASE in_flight[x.itt] = None
    <2>1. SendReject(x.itt) /\ UNCHANGED <<in_flight, disk>>
      BY <1>3 DEF HandleDataOut
    <2>2. FlightOk'
      BY <2>1 DEF FlowInv, FlightOk, Issued, IssuedWrite, InRange
    <2> QED
      BY <1>1, <1>3, <2>1, <2>2, LateServed
  <1>4. CASE in_flight[x.itt] # None
    <2>1. PICK i, w, c, n, r, buf :
              /\ i = x.itt /\ w = in_flight[i] /\ c = w.cmd /\ n = c.edtl
              /\ r = w.received + Len(x.data) /\ buf = Laid(w, x)
      OBVIOUS
    <2>2. Alone(x, i) /\ Held(i, w)
      BY <1>1, <1>2, <1>4, <2>1, FirstAlone
    <2>3. /\ w \in Pending(n) /\ Issued(c) /\ IssuedWrite(c) /\ c.itt = i /\ c \in ScsiCommand
      BY <1>1, <1>4, <2>1 DEF FlowInv, FlightOk, Issued
    <2>4. /\ n \in 1 .. DiskSize /\ n \in Nat /\ n = c.blocks /\ c.lba \in Nat
          /\ w.received \in Nat /\ w.buf \in [0 .. n - 1 -> Val \cup {Blank}]
          /\ Of(i, c) /\ r \in Nat
      BY <1>1, <2>1, <2>2, <2>3, IssuedSize DEF Pending, ScsiCommand, Held
    <2>5. PartOf(i, c, x)
      <3>1. 1 \in 1 .. Len(rx) /\ DataOf(rx[1], i)
        BY <1>1, <2>1, TailElems DEF Behind, DataOf
      <3> QED
        BY <1>2, <2>1, <2>2, <3>1 DEF Held
    <2>6. ~PastEnd(w, x)
      BY <1>1, <2>1, <2>4, <2>5 DEF PastEnd, PartOf
    <2>7. buf \in [0 .. n - 1 -> Val \cup {Blank}]
      <3>1. PICK b : b = w.buf
        OBVIOUS
      <3>2. Patched(b, x.off, x.data) \in [0 .. n - 1 -> Val \cup {Blank}]
        BY <1>1, <2>4, <3>1, PatchedType
      <3> QED
        BY <2>1, <3>1, <3>2 DEF Laid
    <2>8. CASE r < n
      <3>1. /\ in_flight' = [in_flight EXCEPT ![i] = [w EXCEPT !.buf = buf, !.received = r]]
            /\ Respond("r2t", i, Solicit(n, r)) /\ UNCHANGED disk
        BY <1>4, <2>1, <2>6, <2>8 DEF HandleDataOut, SolicitNext, MoreToCome, Laid
      <3>2. PICK v : v = [w EXCEPT !.buf = buf, !.received = r]
        OBVIOUS
      <3>3. v \in Pending(n) /\ v.cmd = c /\ v.buf = buf /\ v.received = r
        BY <2>1, <2>3, <2>4, <2>7, <3>2 DEF Pending
      <3>4. v # None
        BY <2>4, <3>3, PendingThere
      <3>5. in_flight' = [in_flight EXCEPT ![i] = v]
        BY <3>1, <3>2
      <3>6. \A j \in Itts : in_flight'[j] = IF j = i THEN v ELSE in_flight[j]
        BY <3>5 DEF CoreInv, TargetInv, TypeOK
      <3>7. FlightOk'
        BY <2>1, <2>3, <3>3, <3>6 DEF FlowInv, FlightOk, Issued, IssuedWrite, InRange
      <3>8. ASSUME NEW p \in Response, NextOf(i, p, v), tx' = Append(tx, p) PROVE LiveOk(i)'
        <4>1. Held(x.itt, v)'
          BY <1>1, <2>1, <2>2, <2>4, <2>5, <2>8, <3>3, <3>8, HeldOn DEF Alone
        <4> QED
          BY <1>1, <2>1, <3>6, <4>1 DEF LiveOk
      <3>9. /\ Issued(v.cmd) /\ IssuedWrite(v.cmd) /\ Of(x.itt, v.cmd) /\ v.received \in Nat
            /\ v.received < v.cmd.edtl /\ Respond("r2t", x.itt, Solicit(v.cmd.edtl, v.received))
            /\ in_flight' = [in_flight EXCEPT ![x.itt] = v]
        BY <2>1, <2>3, <2>4, <2>8, <3>1, <3>3, <3>5
      <3> QED
        BY <1>1, <1>2, <2>1, <2>2, <3>1, <3>4, <3>7, <3>8, <3>9, SolicitServed
    <2>9. CASE ~(r < n)
      <3>1. in_flight' = [in_flight EXCEPT ![i] = None] /\ FinishWrite(c, buf)
        BY <1>4, <2>1, <2>6, <2>9 DEF HandleDataOut, MoreToCome, Laid
      <3>2. \A j \in Itts : in_flight'[j] = IF j = i THEN None ELSE in_flight[j]
        BY <3>1 DEF CoreInv, TargetInv, TypeOK
      <3>3. OthersKept(x)
        BY <1>1, <2>1, <3>2 DEF OthersKept
      <3>4. FlightOk'
        BY <3>2 DEF FlowInv, FlightOk, Issued, IssuedWrite, InRange
      <3>5. ASSUME NEW y \in 0 .. n - 1
            PROVE  w.buf[y] \in Sent(i, c.lba + y) \/ (x.off <= y /\ y < x.off + Len(x.data))
        <4>1. CASE Scattered(i, w)
          BY <2>1, <4>1 DEF Scattered
        <4>2. CASE InOrder(i, w)
          <5>1. x.off = w.received
            BY <1>1, <2>1, <2>4, <4>2, InOrderFirst
          <5>2. PICK m, len : m = w.received /\ len = Len(x.data)
            OBVIOUS
          <5>3. y \in 0 .. m - 1 \/ (m <= y /\ y < m + len)
            BY <1>1, <2>1, <2>4, <2>9, <5>2
          <5> QED
            BY <2>1, <4>2, <5>1, <5>2, <5>3 DEF InOrder, Filled
        <4> QED
          BY <2>2, <4>1, <4>2 DEF Held
      <3>6. \A y \in 0 .. n - 1 : buf[y] \in Sent(i, c.lba + y)
        BY <2>1, <2>4, <2>5, <3>5, LaidSent
      <3>7. in_flight'[x.itt] = None
        BY <1>1, <2>1, <3>2
      <3>8. Alone(x, x.itt) /\ Of(x.itt, c) /\ c.itt = x.itt
            /\ \A y \in 0 .. c.blocks - 1 : buf[y] \in Sent(x.itt, c.lba + y)
        BY <2>1, <2>2, <2>3, <2>4, <3>6
      <3>9. (\E out : Served(x, out)) /\ LiveOk(x.itt)' /\ PursuedOk(x.itt)'
        BY <1>1, <1>2, <2>3, <3>1, <3>3, <3>7, <3>8, FinishServed
      <3> QED
        BY <1>1, <3>4, <3>9
    <2> QED
      BY <2>8, <2>9
  <1> QED
    BY <1>3, <1>4

-----------------------------------------------------------------------------
(* The login, and every step *)

LEMMA LoginFlow ==
    ASSUME CoreInv, FlowInv, Idle, NEW x, x = LoginPdu, stage = "Login", HandleLogin(x), rx' = <<>>
    PROVE  FlowInv'
  <1>1. /\ istage # "up" /\ tx = <<>> /\ UNCHANGED <<in_flight, disk>>
        /\ stage' \in {"Closing", "FullFeature", "Login"}
    BY DEF CoreInv, StageInv, HandleLogin
  <1>2. PICK p : p.op = "login" /\ tx' = Append(tx, p)
    <2>1. PICK sn, body : tx' = Append(tx, Pdu("login", None, sn, x.cmd_sn, body))
      BY DEF HandleLogin
    <2>2. Pdu("login", None, sn, x.cmd_sn, body).op = "login"
      BY PduFields
    <2> QED
      BY <2>1, <2>2
  <1>3. Len(tx') = 1 /\ tx'[1] = p /\ tx' = <<p>> /\ DOMAIN tx' = {1}
    BY <1>1, <1>2
  <1>4. \A i \in Itts : tasks[i] = None
    BY <1>1 DEF CoreInv, StageInv
  <1>5. StoredAsAcknowledged' /\ FlightOk'
    BY <1>1 DEF FlowInv, StoredAsAcknowledged, FlightOk, Idle, Issued, IssuedWrite, InRange
  <1>6. TaskInv'
    BY <1>4 DEF FlowInv, TaskInv, Idle
  <1>7. BurstInv'
    <2>1. /\ x.transit /\ x.csg = 0 /\ x.nsg = 3 /\ x.burst = OfferedBurst
      BY DEF LoginPdu
    <2>2. \/ params' = params /\ stage' = "Closing"
          \/ params' = Negotiated(x) /\ stage' = "FullFeature"
      BY <2>1 DEF HandleLogin
    <2>3. params.burst = DefaultBurst
      BY DEF FlowInv, BurstInv
    <2>4. Negotiated(x).burst = (IF OfferedBurst # None /\ OfferedBurst < params.burst
                                 THEN OfferedBurst ELSE params.burst)
      BY <2>1 DEF Negotiated
    <2>5. OfferedBurst \in Nat /\ OfferedBurst # None /\ DefaultBurst \in Nat
      BY SessionAssumption, NoneAssumption, ParamsAssumption
    <2>6. Negotiated(x).burst = Burst
      BY <2>3, <2>4, <2>5 DEF Burst, Smaller
    <2> QED
      BY <2>2, <2>6 DEF BurstInv
  <1>8. RxInv'
    BY DEF RxInv, Ordered
  <1>9. TxInv'
    <2>1. Ordered(tx')
      BY <1>3, OrderedOne
    <2>2. Apart(tx', rx')
      BY DEF Apart
    <2>3. TxOk(p)'
      BY <1>2 DEF TxOk
    <2>4. ASSUME NEW k \in 1 .. Len(tx)' PROVE TxOk(tx[k])'
      <3>1. tx'[k] = p
        BY <1>3
      <3> QED
        BY <2>3, <3>1
    <2> QED
      BY <2>1, <2>2, <2>4 DEF TxInv
  <1>10. LiveInv'
    <2> SUFFICES ASSUME NEW i \in Itts PROVE ~Sending(i)' /\ ~Asked(i)'
      BY DEF LiveInv, LiveOk
    <2>1. ~Sending(i)'
      BY DEF Sending
    <2>2. ~Asked(i)'
      BY <1>2, <1>3 DEF Asked, AskOf
    <2> QED
      BY <2>1, <2>2
  <1>11. PursuedInv'
    BY <1>1 DEF PursuedInv, PursuedOk, Idle
  <1> QED
    BY <1>5, <1>6, <1>7, <1>8, <1>9, <1>10, <1>11 DEF FlowInv

LEMMA TargetStepFlow == CoreInv /\ FlowInv /\ TargetStep => FlowInv'
  <1> SUFFICES ASSUME CoreInv, FlowInv, TargetStep PROVE FlowInv'
    OBVIOUS
  <1>1. PICK x : x = rx[1]
    OBVIOUS
  <1>2. rx # <<>> /\ rx' = Tail(rx) /\ Idle /\ rx \in Seq(Request)
    BY DEF TargetStep, Idle, CoreInv, StreamTypes
  <1>3. x = Head(rx) /\ 1 \in 1 .. Len(rx)
    BY <1>1, <1>2, TailElems
  <1>4. x \in Request /\ RxOk(x) /\ x.op \in SessionOps /\ Handle(x)
    BY <1>1, <1>2, <1>3 DEF FlowInv, RxInv, CoreInv, StreamTypes, TargetStep
  <1>5. CASE stage = "Login"
    <2>1. rx = <<LoginPdu>> /\ x = LoginPdu /\ rx' = <<>>
      BY <1>1, <1>2, <1>5 DEF CoreInv, StageInv
    <2>2. HandleLogin(x)
      BY <1>4, <1>5, <2>1
         DEF Handle, WrongStage, HandleScsiCommand, HandleDataOut, HandleOther, HandleLogout,
             HandleMalformed, LoginPdu
    <2> QED
      BY <1>2, <1>5, <2>1, <2>2, LoginFlow
  <1>6. CASE stage # "Login"
    <2>1. x.op # "login"
      BY <1>1, <1>3, <1>6 DEF CoreInv, StageInv
    <2>2. x.op = "scsi" => x \in ScsiCommand
      BY <1>4, RequestTag
    <2>3. x.op = "dataout" => x \in DataOut
      BY <1>4, RequestTag
    <2>4. /\ FlightOk' /\ params' = params /\ stage' \in {stage, "Closing"}
          /\ \E out : Served(x, out)
          /\ Work(x) => LiveOk(x.itt)' /\ PursuedOk(x.itt)'
      <3>1. CASE HandleScsiCommand(x)
        <4>1. x \in ScsiCommand /\ Work(x) /\ x.op # "dataout"
          BY <2>2, <3>1 DEF HandleScsiCommand, Work
        <4>2. Alone(x, x.itt)
          BY <1>1, <1>2, <4>1, FirstAlone
        <4> QED
          BY <1>2, <1>4, <3>1, <4>1, <4>2, ScsiServed
      <3>2. CASE HandleDataOut(x)
        <4>1. x \in DataOut /\ Behind(x)
          BY <1>1, <1>2, <2>3, <3>2, BehindFirst DEF HandleDataOut
        <4> QED
          BY <1>2, <1>4, <3>2, <4>1, DataOutServed
      <3>3. CASE HandleOther(x) \/ HandleLogout(x)
        <4>1. FlightOk' /\ params' = params /\ stage' \in {stage, "Closing"}
          BY <3>3 DEF HandleOther, HandleLogout, FlowInv, FlightOk, Issued, IssuedWrite, InRange
        <4> QED
          BY <1>2, <1>4, <2>1, <3>3, <4>1, OtherServed
      <3>4. ~HandleLogin(x) /\ ~WrongStage(x) /\ ~HandleMalformed(x)
        BY <1>4, <1>6 DEF HandleLogin, WrongStage, HandleMalformed, SessionOps
      <3> QED
        BY <1>4, <3>1, <3>2, <3>3, <3>4 DEF Handle
    <2>5. BurstInv'
      BY <1>6, <2>4 DEF FlowInv, BurstInv
    <2>6. PICK out : Served(x, out)
      BY <2>4
    <2> QED
      BY <1>1, <1>2, <2>4, <2>5, <2>6, ServedFlow
  <1> QED
    BY <1>5, <1>6

LEMMA FlowNext == CoreInv /\ FlowInv /\ [SessionNext]_allvars => FlowInv'
  <1> SUFFICES ASSUME CoreInv, FlowInv, [SessionNext]_allvars PROVE FlowInv'
    OBVIOUS
  <1>1. CASE UNCHANGED allvars
    <2>1. UNCHANGED <<stage, params, in_flight, disk, tx, rx, istage, tasks, aborting, may>>
      BY <1>1 DEF allvars, vars, initiator
    <2>2. StoredAsAcknowledged' /\ FlightOk' /\ BurstInv'
      BY <2>1 DEF FlowInv, StoredAsAcknowledged, FlightOk, BurstInv, Issued, IssuedWrite, InRange
    <2>3. TaskInv'
      BY <2>1 DEF FlowInv, TaskInv, Settled
    <2>4. ASSUME NEW y, RxOk(y) PROVE RxOk(y)'
      BY <2>1, <2>4 DEF RxOk, Of, CarriesOf, Sent, Issued, IssuedRead, IssuedWrite, InRange
    <2>5. ASSUME NEW p, TxOk(p) PROVE TxOk(p)'
      BY <2>1, <2>5 DEF TxOk, ReadOk, StoredOf, Cells
    <2>6. RxInv' /\ TxInv'
      BY <2>1, <2>4, <2>5 DEF FlowInv, RxInv, TxInv
    <2>7. ASSUME NEW i \in Itts PROVE LiveOk(i)' /\ PursuedOk(i)'
      <3>1. RxLike(i) /\ TxLike(i)
        BY <2>1, RxSame, TxSame
      <3>2. (Answered(i) => Answered(i)') /\ (istage' # "down" => (Asked(i) => Asked(i)'))
        BY <2>1 DEF Answered, Asked
      <3>3. \A c : SentKept(i, c)
        BY <2>1 DEF SentKept, Sent
      <3>4. rx' \in Seq(Request) /\ in_flight'[i] = in_flight[i]
        BY <2>1 DEF CoreInv, StreamTypes
      <3>5. LiveOk(i)'
        BY <2>1, <3>1, <3>2, <3>3, <3>4, LiveKept DEF FlowInv, LiveInv
      <3>6. PursuedOk(i)'
        BY <2>1, <3>1, <3>2, <3>4, PursuedKept DEF FlowInv, PursuedInv
      <3> QED
        BY <3>5, <3>6
    <2> QED
      BY <2>2, <2>3, <2>6, <2>7 DEF FlowInv, LiveInv, PursuedInv
  <1>2. CASE Connect
    BY <1>2, ConnectFlow
  <1>3. ASSUME NEW itt \in Itts, InitiatorStep(itt) PROVE FlowInv'
    BY <1>3, InitiatorStepFlow
  <1>4. CASE SendNop \/ SendLogout
    BY <1>4, SendOtherFlow
  <1>5. CASE Receive
    BY <1>5, ReceiveFlow
  <1>6. CASE Lose
    BY <1>6, LoseFlow
  <1>7. CASE TargetStep
    BY <1>7, TargetStepFlow
  <1>8. CASE TargetClose
    BY <1>8, TargetCloseFlow
  <1> QED
    BY <1>1, <1>2, <1>3, <1>4, <1>5, <1>6, <1>7, <1>8 DEF SessionNext

LEMMA FlowInvariant == SessionSpec => [](CoreInv /\ FlowInv)
  <1>1. SessionInit => CoreInv /\ FlowInv
    BY CoreInit, FlowInit
  <1>2. CoreInv /\ FlowInv /\ [SessionNext]_allvars => (CoreInv /\ FlowInv)'
    BY CoreNext, FlowNext
  <1> QED
    BY <1>1, <1>2, PTL DEF SessionSpec

-----------------------------------------------------------------------------
(* The theorems of part 3 *)

\* A command that is neither answered nor given up is still pursued, whatever
\* the sizes of the Data-Out PDUs: data_out answers each of them with an R2T,
\* and what it rejects after the write is complete was not needed.
THEOREM NothingForgottenAlways == SessionSpec => []NothingForgotten
  <1>1. CoreInv /\ FlowInv => NothingForgotten
    <2> SUFFICES ASSUME CoreInv, FlowInv, istage = "up",
                        NEW i \in Itts, tasks[i] # None, i \notin aborting
                 PROVE  \/ \E j \in DOMAIN rx : rx[j].op = "scsi" /\ rx[j].itt = i
                        \/ \E j \in DOMAIN tx : Answers(tx[j]) /\ tx[j].itt = i
                        \/ /\ in_flight[i] # None
                           /\ \/ \E j \in DOMAIN rx : rx[j].op = "dataout" /\ rx[j].itt = i
                              \/ \E j \in DOMAIN tx : tx[j].op = "r2t" /\ tx[j].itt = i
      BY DEF NothingForgotten
    <2>1. DOMAIN rx = 1 .. Len(rx) /\ DOMAIN tx = 1 .. Len(tx)
      BY DEF CoreInv, StreamTypes, TargetInv, TypeOK
    <2>2. Pursued(i)
      BY DEF FlowInv, PursuedInv, PursuedOk
    <2>3. Waiting(i) => \E j \in DOMAIN rx : rx[j].op = "scsi" /\ rx[j].itt = i
      BY <2>1 DEF Waiting
    <2>4. Answered(i) => \E j \in DOMAIN tx : Answers(tx[j]) /\ tx[j].itt = i
      BY <2>1 DEF Answered, Answers, Final
    <2>5. Sending(i) => \E j \in DOMAIN rx : rx[j].op = "dataout" /\ rx[j].itt = i
      BY <2>1 DEF Sending, DataOf
    <2>6. Asked(i) => \E j \in DOMAIN tx : tx[j].op = "r2t" /\ tx[j].itt = i
      BY <2>1 DEF Asked, AskOf
    <2> QED
      BY <2>2, <2>3, <2>4, <2>5, <2>6 DEF Pursued
  <1> QED
    BY <1>1, FlowInvariant, PTL

\* The disk holds what the initiator may find: the data of every write that
\* finish_write acknowledged, the old data where a write was aborted before it
\* was stored, and one of the two where the connection was lost in between.
\* Cells that nobody sent appear only in writes that data_out does not gather
\* exactly: those larger than a burst, sent in PDUs smaller than a burst.
THEOREM AlwaysStoredAsAcknowledged == SessionSpec => []StoredAsAcknowledged
  <1>1. FlowInv => StoredAsAcknowledged
    BY DEF FlowInv
  <1> QED
    BY <1>1, FlowInvariant, PTL

\* The Data-In PDUs of read_response carry what the initiator may find at the
\* place they name, and the last one ends where the command ends.
THEOREM AlwaysReadsAsAcknowledged == SessionSpec => []ReadsAsAcknowledged
  <1>1. CoreInv /\ FlowInv => ReadsAsAcknowledged
    <2> SUFFICES ASSUME CoreInv, FlowInv, NEW i \in DOMAIN tx, tx[i].op = "datain",
                        tasks[tx[i].itt] # None
                 PROVE  LET task == tasks[tx[i].itt]
                            d == tx[i].body
                        IN  /\ \A k \in DOMAIN d.data : d.data[k] \in may[task.lba + d.off + k - 1]
                            /\ d.final => d.off + Len(d.data) = task.n
      BY DEF ReadsAsAcknowledged
    <2>1. PICK p : p = tx[i]
      OBVIOUS
    <2>2. DOMAIN tx = 1 .. Len(tx) /\ Tagged(p)
      <3>1. tx \in Seq(Response)
        BY DEF CoreInv, TargetInv, TypeOK
      <3>2. DOMAIN tx = 1 .. Len(tx)
        BY <3>1
      <3>3. Tagged(tx[i])
        BY <3>2 DEF CoreInv, StreamTypes
      <3> QED
        BY <2>1, <3>2, <3>3
    <2>3. istage # "down"
      BY <2>1, <2>2, TaskUp DEF Tagged
    <2>4. ReadOk(p.body, tasks[p.itt])
      BY <2>1, <2>2, <2>3 DEF FlowInv, TxInv, TxOk
    <2>5. DOMAIN p.body.data = 1 .. Len(p.body.data)
      BY <2>4 DEF ReadOk
    <2> QED
      BY <2>1, <2>4, <2>5 DEF ReadOk
  <1> QED
    BY <1>1, FlowInvariant, PTL
===============================================================================
