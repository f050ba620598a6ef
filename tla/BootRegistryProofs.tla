------------------------- MODULE BootRegistryProofs --------------------------
(***************************************************************************)
(* Proofs about BootRegistry, for every configuration and any number of    *)
(* machines, fetches and writes: a machine that is up has the disks of its *)
(* section, and one with an IQN of its own sees on its home target its own *)
(* writes and nothing else, whatever its lost connections still store.     *)
(***************************************************************************)
EXTENDS BootRegistry, TLAPS, SequenceTheorems, WellFoundedInduction

Target == [disks : Seq(Stores), data : Seq(Nat)]

Machine == [state : {"off", "scripted", "up"}, iqn : Iqns, target : Nat, home : Nat,
            may : Seq(SUBSET Nat), sending : Seq(Nat)]

\* The IQN that machine m is told, if it is served at all.
Served(m) == Resolve(m) # None

Iqn(m) == ClientIqn(Resolve(m))

On(m) == mach[m].state # "off"

TypeInv ==
    /\ targets \in Seq(Target)
    /\ registry \in [Iqns -> 0 .. Len(targets)]
    /\ mach \in [Macs -> Machine]
    /\ sent \subseteq [mac : Macs, target : 1 .. Len(targets), lun : Nat, val : 1 .. writes]
    /\ writes \in Nat

\* A machine that is on uses the IQN of its client; one that is up has a target,
\* not older than its home and not newer than what is registered now.
MachineInv ==
    \A m \in Macs : On(m) =>
        /\ Served(m)
        /\ mach[m].iqn = Iqn(m)
        /\ registry[Iqn(m)] # 0
        /\ mach[m].home <= registry[Iqn(m)]
        /\ mach[m].state = "up" =>
              /\ mach[m].home # 0
              /\ mach[m].home <= mach[m].target
              /\ mach[m].target <= registry[Iqn(m)]

BaseInv == TypeInv /\ MachineInv

\* What is registered for a machine, and what it is connected to, has the disks
\* of its section.
DisksInv ==
    \A m \in Macs : Served(m) =>
        /\ registry[Iqn(m)] # 0 => targets[registry[Iqn(m)]].disks = LunsOf(Resolve(m))
        /\ mach[m].state = "up" => targets[mach[m].target].disks = LunsOf(Resolve(m))

\* No target is registered twice.
RegistryApart == \A q, r \in Iqns : q # r /\ registry[q] # 0 => registry[q] # registry[r]

\* What is registered under another IQN is neither the home of a machine nor the
\* target it is connected to.
OthersApart ==
    \A m \in Macs, q \in Iqns : On(m) /\ q # Iqn(m) =>
        /\ mach[m].home # 0 => registry[q] # mach[m].home
        /\ mach[m].state = "up" => registry[q] # mach[m].target

\* Nobody else is connected to the home of a machine with an IQN of its own.
HomesApart ==
    \A m \in OwnIqn, n \in Macs :
        m # n /\ On(m) /\ mach[m].home # 0 /\ mach[n].state = "up" =>
            mach[m].home # mach[n].target

ApartInv == RegistryApart /\ OthersApart /\ HomesApart

\* A write whose answer is awaited was sent to the target its machine is
\* connected to now.
AwaitInv ==
    \A w \in sent : Awaited(w) =>
        mach[w.mac].state = "up" /\ w.target = mach[w.mac].target

\* The target on which machine m will see its writes: its home, or the one it
\* will find at its first login.
Haven(m) == IF mach[m].home = 0 THEN registry[Iqn(m)] ELSE mach[m].home

\* Machine m has not lost its haven: it would find it at a login, or is on it.
AtHaven(m) ==
    registry[Iqn(m)] = Haven(m) \/ (mach[m].state = "up" /\ mach[m].target = mach[m].home)

\* The LUNs of target t hold what machine m may find there, and so will every
\* write on its way to them.
OnlyOwn(m, t) ==
    /\ DOMAIN mach[m].may = DOMAIN targets[t].data
    /\ \A l \in DOMAIN mach[m].may : targets[t].data[l] \in mach[m].may[l]
    /\ \A w \in sent : w.target = t =>
          w.mac = m /\ (w.lun \in DOMAIN mach[m].may => w.val \in mach[m].may[w.lun])

\* A machine that has not logged in yet expects clean disks.
Clean(m) ==
    mach[m].home = 0 => mach[m].may = [l \in DOMAIN LunsOf(Resolve(m)) |-> {0}]

OwnInv == \A m \in OwnIqn : On(m) => Clean(m) /\ (AtHaven(m) => OnlyOwn(m, Haven(m)))

BootInv == BaseInv /\ ApartInv /\ AwaitInv /\ OwnInv

-----------------------------------------------------------------------------
(* The configuration *)

\* A non-empty set of positions has a last one.
LEMMA LastExists ==
    ASSUME NEW n \in Nat, NEW S \in SUBSET (1 .. n), S # {}
    PROVE  \E i \in S : \A j \in S : j <= i
  <1> DEFINE T == {k \in Nat : \E i \in S : k = n - i}
  <1>1. \A i \in S : n - i \in T
    OBVIOUS
  <1>2. PICK x \in T : \A y \in T : ~ (<<y, x>> \in OpToRel(<, Nat))
    <2>1. T \subseteq Nat
      OBVIOUS
    <2>2. T # {}
      BY <1>1
    <2> QED
      BY <2>1, <2>2, NatLessThanWellFounded, WFMin, Zenon
  <1> HIDE DEF T
  <1>3. \A y \in T : ~ (y < x)
    BY <1>2 DEF OpToRel, T
  <1>4. PICK i \in S : x = n - i
    BY DEF T
  <1>5. \A j \in S : ~ (n - j < n - i)
    BY <1>1, <1>3, <1>4
  <1>6. \A j \in S : j \in Int /\ i \in Int
    OBVIOUS
  <1> QED
    BY <1>5, <1>6

LEMMA ResolveType ==
    ASSUME NEW m \in Macs, Served(m)
    PROVE  /\ Iqn(m) \in Iqns
           /\ Resolve(m).system \in Stores
           /\ Resolve(m).games \in Seq(Stores)
  <1>1. CASE SectionsOf(m) # {}
    <2>1. SectionsOf(m) \in SUBSET (1 .. Len(Clients)) /\ Len(Clients) \in Nat
      BY ConfigAssumption DEF Validated, SectionsOf
    <2>2. PICK i \in SectionsOf(m) :
              i = CHOOSE k \in SectionsOf(m) : \A j \in SectionsOf(m) : j <= k
      BY <1>1, <2>1, LastExists
    <2>3. Clients[i] \in Section
      BY <2>1, <2>2, ConfigAssumption DEF Validated
    <2>4. Resolve(m) = [mac |-> Clients[i].mac, name |-> Clients[i].name,
                        system |-> Clients[i].system, games |-> Clients[i].games]
      BY <1>1, <2>2 DEF Resolve, ClientOf
    <2> QED
      BY <2>3, <2>4 DEF Section, Iqn, ClientIqn, Iqns
  <1>2. CASE SectionsOf(m) = {}
    <2>1. Defaults \in Profile
      BY <1>2, ConfigAssumption DEF Served, Resolve, Validated
    <2>2. Resolve(m) = DefaultClient
      BY <1>2 DEF Served, Resolve
    <2> QED
      BY <2>1, <2>2 DEF DefaultClient, Profile, Iqn, ClientIqn, Iqns
  <1> QED
    BY <1>1, <1>2

LEMMA LunsType ==
    ASSUME NEW m \in Macs, Served(m)
    PROVE  LunsOf(Resolve(m)) \in Seq(Stores)
  <1>1. Resolve(m).system \in Stores /\ Resolve(m).games \in Seq(Stores)
    BY ResolveType
  <1>2. PICK s \in Stores, g \in Seq(Stores) : s = Resolve(m).system /\ g = Resolve(m).games
    BY <1>1
  <1>3. <<s>> \o g \in Seq(Stores)
    OBVIOUS
  <1> QED
    BY <1>2, <1>3 DEF LunsOf

\* The section that is found is the last one, and the defaults if there is none.
LEMMA LunsFound ==
    ASSUME NEW m \in Macs, Served(m)
    PROVE  /\ \A i \in SectionsOf(m) :
                 (\A j \in SectionsOf(m) : i <= j => i = j) =>
                     LunsOf(Resolve(m)) = <<Clients[i].system>> \o Clients[i].games
           /\ SectionsOf(m) = {} =>
                 LunsOf(Resolve(m)) = <<Defaults.system>> \o Defaults.games
  <1>1. ASSUME NEW i \in SectionsOf(m), \A j \in SectionsOf(m) : i <= j => i = j
        PROVE  LunsOf(Resolve(m)) = <<Clients[i].system>> \o Clients[i].games
    <2> DEFINE Last(k) == \A j \in SectionsOf(m) : j <= k
    <2>1. SectionsOf(m) \subseteq Nat
      BY ConfigAssumption DEF Validated, SectionsOf
    <2>2. Last(i)
      BY <1>1, <2>1
    <2>3. PICK k \in SectionsOf(m) : Last(k) /\ k = CHOOSE j \in SectionsOf(m) : Last(j)
      BY <2>2
    <2>4. k = i
      BY <2>1, <2>2, <2>3
    <2>5. Resolve(m) = ClientOf(Clients[i])
      BY <2>3, <2>4 DEF Resolve
    <2> QED
      BY <2>5 DEF ClientOf, LunsOf
  <1>2. SectionsOf(m) = {} => LunsOf(Resolve(m)) = <<Defaults.system>> \o Defaults.games
    BY DEF Served, Resolve, DefaultClient, LunsOf
  <1> QED
    BY <1>1, <1>2

-----------------------------------------------------------------------------
(* What the operations do *)

\* A target that was just built has the disks of the client, all clean.
LEMMA FreshType ==
    ASSUME NEW m \in Macs, Served(m)
    PROVE  /\ Fresh(LunsOf(Resolve(m))) \in Target
           /\ Fresh(LunsOf(Resolve(m))).disks = LunsOf(Resolve(m))
           /\ Fresh(LunsOf(Resolve(m))).data = [l \in DOMAIN LunsOf(Resolve(m)) |-> 0]
           /\ [l \in DOMAIN LunsOf(Resolve(m)) |-> 0] \in Seq(Nat)
           /\ [l \in DOMAIN LunsOf(Resolve(m)) |-> {0}] \in Seq(SUBSET Nat)
  <1> DEFINE d == LunsOf(Resolve(m))
  <1>1. d \in Seq(Stores)
    BY LunsType
  <1> HIDE DEF d
  <1>2. DOMAIN d = 1 .. Len(d) /\ Len(d) \in Nat
    BY <1>1
  <1>3. [l \in DOMAIN d |-> 0] \in Seq(Nat) /\ [l \in DOMAIN d |-> {0}] \in Seq(SUBSET Nat)
    BY <1>2, IsASeq
  <1>4. /\ Fresh(d) \in Target
        /\ Fresh(d).disks = d
        /\ Fresh(d).data = [l \in DOMAIN d |-> 0]
    BY <1>1, <1>3 DEF Fresh, Target
  <1> QED
    BY <1>3, <1>4 DEF d

\* An HTTP request adds a target and registers it, and leaves the rest alone.
LEMMA HandleStep ==
    ASSUME TypeInv, NEW m \in Macs, Handle(m)
    PROVE  /\ Served(m)
           /\ Len(targets) \in Nat
           /\ targets' \in Seq(Target)
           /\ Len(targets') = Len(targets) + 1
           /\ \A i \in 1 .. Len(targets) : targets'[i] = targets[i]
           /\ targets'[Len(targets) + 1] = Fresh(LunsOf(Resolve(m)))
           /\ registry' \in [Iqns -> 0 .. Len(targets')]
           /\ registry'[Iqn(m)] = Len(targets) + 1
           /\ \A q \in Iqns : q # Iqn(m) => registry'[q] = registry[q]
  <1>1. Served(m)
    BY DEF Handle, Served
  <1>2. targets' = Append(targets, Fresh(LunsOf(Resolve(m))))
    BY DEF Handle
  <1>3. registry' = [registry EXCEPT ![Iqn(m)] = Len(targets) + 1]
    BY DEF Handle, Insert, Iqn
  <1>4. Fresh(LunsOf(Resolve(m))) \in Target /\ Iqn(m) \in Iqns
    BY <1>1, FreshType, ResolveType
  <1>5. /\ targets \in Seq(Target) /\ Len(targets) \in Nat
        /\ registry \in [Iqns -> 0 .. Len(targets)]
    BY DEF TypeInv
  <1>6. /\ targets' \in Seq(Target)
        /\ Len(targets') = Len(targets) + 1
        /\ \A i \in 1 .. Len(targets) : targets'[i] = targets[i]
        /\ targets'[Len(targets) + 1] = Fresh(LunsOf(Resolve(m)))
    BY <1>2, <1>4, <1>5, AppendProperties
  <1>7. /\ registry' \in [Iqns -> 0 .. Len(targets')]
        /\ registry'[Iqn(m)] = Len(targets) + 1
        /\ \A q \in Iqns : q # Iqn(m) => registry'[q] = registry[q]
    BY <1>3, <1>4, <1>5, <1>6
  <1> QED
    BY <1>1, <1>5, <1>6, <1>7

\* A write to LUN l.
Put(d, l, v) == [d EXCEPT ![l] = v]

LEMMA PutType ==
    ASSUME NEW S, NEW d \in Seq(S), NEW l, NEW v \in S
    PROVE  /\ Put(d, l, v) \in Seq(S)
           /\ DOMAIN Put(d, l, v) = DOMAIN d
           /\ \A k \in DOMAIN d : Put(d, l, v)[k] = IF k = l THEN v ELSE d[k]
  <1>1. DOMAIN d = 1 .. Len(d) /\ d \in [1 .. Len(d) -> S]
    OBVIOUS
  <1>2. CASE l \in 1 .. Len(d)
    BY <1>1, <1>2, ExceptSeq DEF Put
  <1>3. CASE l \notin 1 .. Len(d)
    <2>1. Put(d, l, v) = d
      BY <1>1, <1>3 DEF Put
    <2> QED
      BY <1>1, <1>3, <2>1
  <1> QED
    BY <1>2, <1>3

\* A write changes one cell of one target, and no disk.
LEMMA StoreStep ==
    ASSUME TypeInv, NEW t \in 1 .. Len(targets), NEW l, NEW v \in Nat, Store(t, l, v)
    PROVE  /\ targets' \in Seq(Target)
           /\ Len(targets') = Len(targets)
           /\ \A i \in 1 .. Len(targets) : targets'[i].disks = targets[i].disks
           /\ \A i \in 1 .. Len(targets) : i # t => targets'[i] = targets[i]
           /\ targets'[t].data = Put(targets[t].data, l, v)
  <1> DEFINE d == targets[t].data
             e == Put(d, l, v)
             u == [targets[t] EXCEPT !.data = e]
  <1>1. targets \in Seq(Target) /\ targets[t] \in Target /\ Len(targets) \in Nat
    BY DEF TypeInv
  <1>2. targets' = [targets EXCEPT ![t] = u]
    BY DEF Store, Put
  <1>3. d \in Seq(Nat)
    BY <1>1 DEF Target
  <1> HIDE DEF d
  <1>4. e \in Seq(Nat)
    BY <1>3, PutType
  <1> HIDE DEF e
  <1>5. u \in Target /\ u.disks = targets[t].disks /\ u.data = e
    BY <1>1, <1>4 DEF Target
  <1> HIDE DEF u
  <1>6. targets' \in Seq(Target) /\ Len(targets') = Len(targets)
    BY <1>1, <1>2, <1>5, ExceptSeq
  <1>7. \A i \in 1 .. Len(targets) : targets'[i] = IF i = t THEN u ELSE targets[i]
    BY <1>1, <1>2
  <1> QED
    BY <1>5, <1>6, <1>7 DEF e, d

\* A machine that has just fetched its script.
Booted(m) == [state |-> "scripted", iqn |-> Iqn(m), target |-> 0, home |-> 0,
              may |-> [l \in DOMAIN LunsOf(Resolve(m)) |-> {0}],
              sending |-> [l \in DOMAIN LunsOf(Resolve(m)) |-> 0]]

\* A step that serves machine m: nothing but Handle, and m may boot.
Serves(m) ==
    /\ Handle(m)
    /\ \A n \in Macs : mach'[n] = mach[n] \/ (n = m /\ mach'[n] = Booted(m))
    /\ mach' \in [Macs -> Machine]
    /\ UNCHANGED <<sent, writes>>

LEMMA BootServes ==
    ASSUME TypeInv, NEW m \in Macs, Boot(m) \/ Refetch(m)
    PROVE  Serves(m)
  <1>1. Handle(m) /\ UNCHANGED <<sent, writes>>
    BY DEF Boot, Refetch
  <1>2. Served(m) /\ mach \in [Macs -> Machine]
    BY <1>1, HandleStep DEF TypeInv
  <1>3. /\ Iqn(m) \in Iqns
        /\ [l \in DOMAIN LunsOf(Resolve(m)) |-> 0] \in Seq(Nat)
        /\ [l \in DOMAIN LunsOf(Resolve(m)) |-> {0}] \in Seq(SUBSET Nat)
    BY <1>2, ResolveType, FreshType
  <1>4. Booted(m) \in Machine
    BY <1>3 DEF Booted, Machine
  <1>5. mach' = mach \/ mach' = [mach EXCEPT ![m] = Booted(m)]
    BY DEF Boot, Refetch, Booted, Iqn
  <1> QED
    BY <1>1, <1>2, <1>4, <1>5 DEF Serves

\* A step that builds no target: what is registered stays, and so do the disks.
KeepsDisks ==
    /\ registry' = registry
    /\ targets' \in Seq(Target)
    /\ Len(targets') = Len(targets)
    /\ \A i \in 1 .. Len(targets) : targets'[i].disks = targets[i].disks
    /\ sent' \subseteq [mac : Macs, target : 1 .. Len(targets), lun : Nat, val : 1 .. writes']
    /\ writes' \in Nat

\* Machine m stays as it is but for what it knows of its LUNs, or goes off.
Stays(m) ==
    /\ mach'[m].state # "off" =>
          On(m) /\ mach'[m].iqn = mach[m].iqn /\ mach'[m].home = mach[m].home
    /\ mach'[m].state = "up" => mach[m].state = "up" /\ mach'[m].target = mach[m].target

\* A step of machine m or of a connection of its own that is not a login.
Moves(m) ==
    /\ KeepsDisks
    /\ mach' \in [Macs -> Machine]
    /\ \A n \in Macs : n # m => mach'[n] = mach[n]
    /\ Stays(m)

LEMMA LoginStep ==
    ASSUME BaseInv, NEW m \in Macs, Login(m)
    PROVE  /\ KeepsDisks
           /\ targets' = targets /\ sent' = sent
           /\ On(m) /\ Served(m) /\ Iqn(m) \in Iqns /\ mach[m].state = "scripted"
           /\ registry[Iqn(m)] \in 1 .. Len(targets)
           /\ mach' \in [Macs -> Machine]
           /\ \A n \in Macs : n # m => mach'[n] = mach[n]
           /\ mach'[m].state = "up" /\ mach'[m].iqn = Iqn(m)
           /\ mach'[m].target = registry[Iqn(m)]
           /\ mach'[m].home = IF mach[m].home = 0 THEN registry[Iqn(m)] ELSE mach[m].home
           /\ mach'[m].may = mach[m].may /\ mach'[m].sending = mach[m].sending
  <1>1. TypeInv /\ MachineInv
    BY DEF BaseInv
  <1>2. /\ On(m) /\ Served(m) /\ mach[m].iqn = Iqn(m)
        /\ mach[m].state = "scripted" /\ registry[Iqn(m)] # 0
    BY <1>1 DEF Login, MachineInv, On
  <1>3. Iqn(m) \in Iqns
    BY <1>2, ResolveType
  <1>4. PICK t : t = registry[Iqn(m)]
    OBVIOUS
  <1>5. t \in 1 .. Len(targets) /\ mach \in [Macs -> Machine] /\ mach[m].home \in Nat
    BY <1>1, <1>2, <1>3, <1>4 DEF TypeInv, Machine
  <1>6. PICK h \in Nat : h = IF mach[m].home = 0 THEN t ELSE mach[m].home
    BY <1>5
  <1>7. PICK u : /\ u = [mach[m] EXCEPT !.state = "up", !.target = t, !.home = h]
                 /\ mach' = [mach EXCEPT ![m] = u]
    BY <1>2, <1>4, <1>6 DEF Login
  <1>8. /\ u \in Machine /\ u.state = "up" /\ u.iqn = Iqn(m) /\ u.target = t /\ u.home = h
        /\ u.may = mach[m].may /\ u.sending = mach[m].sending
    <2>1. t \in Nat /\ h \in Nat /\ mach[m] \in Machine
      BY <1>5
    <2> QED
      BY <1>2, <1>7, <2>1 DEF Machine
  <1>9. /\ mach' \in [Macs -> Machine]
        /\ \A n \in Macs : n # m => mach'[n] = mach[n]
        /\ mach'[m].state = "up" /\ mach'[m].iqn = Iqn(m)
        /\ mach'[m].target = t /\ mach'[m].home = h
        /\ mach'[m].may = mach[m].may /\ mach'[m].sending = mach[m].sending
    BY <1>5, <1>7, <1>8
  <1>10. KeepsDisks /\ targets' = targets /\ sent' = sent
    BY <1>1 DEF Login, KeepsDisks, TypeInv
  <1> QED
    BY <1>2, <1>3, <1>4, <1>5, <1>6, <1>9, <1>10

\* The end of a connection, or of the machine.
LEMMA LeaveStep ==
    ASSUME BaseInv, NEW m \in Macs, Disconnect(m) \/ Crash(m)
    PROVE  /\ Moves(m)
           /\ targets' = targets /\ sent' = sent
           /\ mach'[m].state # "up"
           /\ mach'[m].may = mach[m].may
           /\ \A l \in DOMAIN mach'[m].sending : mach'[m].sending[l] = 0
  <1>1. TypeInv /\ mach \in [Macs -> Machine]
    BY DEF BaseInv, TypeInv
  <1>2. PICK z : z = [l \in DOMAIN mach[m].sending |-> 0]
    OBVIOUS
  <1>3. z \in Seq(Nat) /\ \A l \in DOMAIN z : z[l] = 0
    <2>1. mach[m].sending \in Seq(Nat)
      BY <1>1 DEF Machine
    <2>2. DOMAIN mach[m].sending = 1 .. Len(mach[m].sending) /\ Len(mach[m].sending) \in Nat
      BY <2>1
    <2> QED
      BY <1>2, <2>2, IsASeq
  <1>4. PICK st \in {"off", "scripted"} :
            /\ mach' = [mach EXCEPT ![m] = [mach[m] EXCEPT !.state = st, !.target = 0,
                                                           !.sending = z]]
            /\ st # "off" => mach[m].state = "up"
    BY <1>2 DEF Disconnect, Crash
  <1>5. /\ mach' \in [Macs -> Machine]
        /\ \A n \in Macs : n # m => mach'[n] = mach[n]
        /\ mach'[m].state = st /\ mach'[m].iqn = mach[m].iqn
        /\ mach'[m].home = mach[m].home
        /\ mach'[m].may = mach[m].may /\ mach'[m].sending = z
    BY <1>1, <1>3, <1>4 DEF Machine
  <1>6. KeepsDisks /\ targets' = targets /\ sent' = sent
    BY <1>1 DEF Disconnect, Crash, KeepsDisks, TypeInv
  <1>7. Stays(m)
    BY <1>4, <1>5 DEF Stays, On
  <1> QED
    BY <1>3, <1>5, <1>6, <1>7 DEF Moves

LEMMA SendStep ==
    ASSUME BaseInv, NEW m \in Macs, NEW l \in DOMAIN mach[m].sending, Send(m, l)
    PROVE  /\ Moves(m)
           /\ targets' = targets
           /\ mach[m].state = "up" /\ mach[m].target \in 1 .. Len(targets)
           /\ sent' = sent \cup {[mac |-> m, target |-> mach[m].target, lun |-> l,
                                  val |-> writes']}
           /\ writes' = writes + 1
           /\ mach'[m].state = "up" /\ mach'[m].target = mach[m].target
           /\ mach'[m].home = mach[m].home
           /\ mach'[m].may = Put(mach[m].may, l, mach[m].may[l] \cup {writes'})
           /\ mach'[m].sending = Put(mach[m].sending, l, writes')
  <1>1. TypeInv /\ MachineInv /\ mach[m].state = "up" /\ mach \in [Macs -> Machine]
    BY DEF BaseInv, TypeInv, Send
  <1>2. mach[m].target \in 1 .. Len(targets)
    <2>1. /\ Served(m) /\ mach[m].home # 0 /\ mach[m].home <= mach[m].target
          /\ mach[m].target <= registry[Iqn(m)]
      BY <1>1 DEF MachineInv, On
    <2>2. registry[Iqn(m)] \in 0 .. Len(targets) /\ Len(targets) \in Nat
      BY <1>1, <2>1, ResolveType DEF TypeInv
    <2>3. mach[m].home \in Nat /\ mach[m].target \in Nat
      BY <1>1 DEF Machine
    <2> QED
      BY <2>1, <2>2, <2>3
  <1>3. /\ writes' = writes + 1 /\ UNCHANGED <<registry, targets, gets>>
        /\ sent' = sent \cup {[mac |-> m, target |-> mach[m].target, lun |-> l, val |-> writes']}
    BY DEF Send
  <1>4. /\ mach[m].may \in Seq(SUBSET Nat) /\ mach[m].sending \in Seq(Nat)
        /\ writes \in Nat /\ writes' \in Nat /\ l \in Nat
    <2>1. mach[m].may \in Seq(SUBSET Nat) /\ mach[m].sending \in Seq(Nat)
      BY <1>1 DEF Machine
    <2> QED
      BY <1>1, <1>3, <2>1 DEF TypeInv
  <1>5. PICK y \in Seq(SUBSET Nat), s \in Seq(Nat) :
            /\ y = Put(mach[m].may, l, mach[m].may[l] \cup {writes'})
            /\ s = Put(mach[m].sending, l, writes')
    <2>1. Put(mach[m].sending, l, writes') \in Seq(Nat)
      BY <1>4, PutType
    <2>2. Put(mach[m].may, l, mach[m].may[l] \cup {writes'}) \in Seq(SUBSET Nat)
      <3>1. CASE l \in DOMAIN mach[m].may
        <4>1. mach[m].may[l] \cup {writes'} \in SUBSET Nat
          BY <1>4, <3>1
        <4> QED
          BY <1>4, <4>1, PutType
      <3>2. CASE l \notin DOMAIN mach[m].may
        <4>1. Put(mach[m].may, l, mach[m].may[l] \cup {writes'}) = mach[m].may
          BY <1>4, <3>2 DEF Put
        <4> QED
          BY <1>4, <4>1
      <3> QED
        BY <3>1, <3>2
    <2> QED
      BY <2>1, <2>2
  <1>6. mach' = [mach EXCEPT ![m] = [mach[m] EXCEPT !.sending = s, !.may = y]]
    BY <1>5 DEF Send, Put
  <1>7. /\ mach' \in [Macs -> Machine]
        /\ \A n \in Macs : n # m => mach'[n] = mach[n]
        /\ mach'[m].state = "up" /\ mach'[m].iqn = mach[m].iqn
        /\ mach'[m].target = mach[m].target /\ mach'[m].home = mach[m].home
        /\ mach'[m].may = y /\ mach'[m].sending = s
    BY <1>1, <1>5, <1>6 DEF Machine
  <1>8. sent' \subseteq [mac : Macs, target : 1 .. Len(targets), lun : Nat, val : 1 .. writes']
    BY <1>1, <1>2, <1>3, <1>4 DEF TypeInv
  <1>9. KeepsDisks
    BY <1>1, <1>3, <1>4, <1>8 DEF KeepsDisks, TypeInv
  <1>10. Stays(m)
    BY <1>1, <1>7 DEF Stays, On
  <1> QED
    BY <1>1, <1>2, <1>3, <1>5, <1>7, <1>9, <1>10 DEF Moves

LEMMA HandleWriteStep ==
    ASSUME BaseInv, NEW w \in sent, HandleWrite(w)
    PROVE  /\ w.mac \in Macs /\ w.target \in 1 .. Len(targets) /\ w.val \in Nat
           /\ Moves(w.mac)
           /\ sent' = sent \ {w}
           /\ \A i \in 1 .. Len(targets) : i # w.target => targets'[i] = targets[i]
           /\ targets'[w.target].data = Put(targets[w.target].data, w.lun, w.val)
           /\ mach'[w.mac].state = mach[w.mac].state
           /\ mach'[w.mac].target = mach[w.mac].target
           /\ mach'[w.mac].home = mach[w.mac].home
           /\ Awaited(w) =>
                 /\ mach'[w.mac].may = Put(mach[w.mac].may, w.lun, {w.val} \cup Overdue(w))
                 /\ mach'[w.mac].sending = Put(mach[w.mac].sending, w.lun, 0)
           /\ ~ Awaited(w) => mach'[w.mac] = mach[w.mac]
  <1>1. TypeInv /\ mach \in [Macs -> Machine]
    BY DEF BaseInv, TypeInv
  <1>2. /\ w.mac \in Macs /\ w.target \in 1 .. Len(targets) /\ w.val \in Nat
        /\ \A u \in sent : u.val \in Nat
    BY <1>1 DEF TypeInv
  <1>3. /\ Store(w.target, w.lun, w.val) /\ sent' = sent \ {w}
        /\ UNCHANGED <<registry, gets, writes>>
    BY DEF HandleWrite
  <1>4. /\ targets' \in Seq(Target)
        /\ Len(targets') = Len(targets)
        /\ \A i \in 1 .. Len(targets) : targets'[i].disks = targets[i].disks
        /\ \A i \in 1 .. Len(targets) : i # w.target => targets'[i] = targets[i]
        /\ targets'[w.target].data = Put(targets[w.target].data, w.lun, w.val)
    <2>1. PICK t \in 1 .. Len(targets), v \in Nat : t = w.target /\ v = w.val
      BY <1>2
    <2>2. Store(t, w.lun, v)
      BY <1>3, <2>1
    <2> QED
      BY <1>1, <2>1, <2>2, StoreStep
  <1>5. KeepsDisks
    BY <1>1, <1>3, <1>4 DEF KeepsDisks, TypeInv
  <1>6. PICK m \in Macs : m = w.mac
    BY <1>2
  <1>7. /\ mach' \in [Macs -> Machine]
        /\ \A n \in Macs : n # m => mach'[n] = mach[n]
        /\ mach'[m].state = mach[m].state /\ mach'[m].iqn = mach[m].iqn
        /\ mach'[m].target = mach[m].target /\ mach'[m].home = mach[m].home
        /\ Awaited(w) =>
              /\ mach'[m].may = Put(mach[m].may, w.lun, {w.val} \cup Overdue(w))
              /\ mach'[m].sending = Put(mach[m].sending, w.lun, 0)
        /\ ~ Awaited(w) => mach'[m] = mach[m]
    <2>1. CASE Awaited(w)
      <3>1. PICK y \in Seq(SUBSET Nat), s \in Seq(Nat) :
                /\ y = Put(mach[m].may, w.lun, {w.val} \cup Overdue(w))
                /\ s = Put(mach[m].sending, w.lun, 0)
        <4>1. mach[m].may \in Seq(SUBSET Nat) /\ mach[m].sending \in Seq(Nat)
          BY <1>1 DEF Machine
        <4>2. {w.val} \cup Overdue(w) \in SUBSET Nat
          BY <1>2 DEF Overdue
        <4>3. Put(mach[m].sending, w.lun, 0) \in Seq(Nat)
          BY <4>1, PutType
        <4>4. Put(mach[m].may, w.lun, {w.val} \cup Overdue(w)) \in Seq(SUBSET Nat)
          BY <4>1, <4>2, PutType
        <4> QED
          BY <4>3, <4>4
      <3>2. mach' = [mach EXCEPT ![m] = [mach[m] EXCEPT !.sending = s, !.may = y]]
        BY <1>6, <2>1, <3>1 DEF HandleWrite, Put
      <3> QED
        BY <1>1, <2>1, <3>1, <3>2 DEF Machine
    <2>2. CASE ~ Awaited(w)
      <3>1. mach' = mach
        BY <2>2 DEF HandleWrite
      <3> QED
        BY <1>1, <2>2, <3>1
    <2> QED
      BY <2>1, <2>2
  <1>8. Stays(m)
    BY <1>7 DEF Stays, On
  <1>9. Moves(m)
    BY <1>5, <1>7, <1>8 DEF Moves
  <1> QED
    BY <1>2, <1>3, <1>4, <1>6, <1>7, <1>9

LEMMA GiveUpStep ==
    ASSUME BaseInv, NEW w \in sent, GiveUp(w)
    PROVE  /\ w.mac \in Macs /\ Moves(w.mac)
           /\ sent' = sent \ {w} /\ targets' = targets /\ mach' = mach
  <1>1. TypeInv /\ w.mac \in Macs
    BY DEF BaseInv, TypeInv
  <1>2. sent' = sent \ {w} /\ UNCHANGED <<registry, targets, mach, gets, writes>>
    BY DEF GiveUp
  <1>3. KeepsDisks
    BY <1>1, <1>2 DEF KeepsDisks, TypeInv
  <1> QED
    BY <1>1, <1>2, <1>3 DEF Moves, Stays, On, TypeInv

-----------------------------------------------------------------------------
(* Types and machines *)

LEMMA InitBase == Init => BaseInv
  <1> SUFFICES ASSUME Init PROVE BaseInv
    OBVIOUS
  <1>1. /\ NoMac \in Iqns /\ <<>> \in Seq(Target) /\ <<>> \in Seq(Nat)
        /\ <<>> \in Seq(SUBSET Nat) /\ Len(<<>>) = 0
    BY DEF Iqns
  <1>2. TypeInv
    BY <1>1 DEF Init, TypeInv, Machine
  <1>3. \A m \in Macs : mach[m].state = "off"
    BY DEF Init
  <1>4. MachineInv
    BY <1>3 DEF MachineInv, On
  <1> QED
    BY <1>2, <1>4 DEF BaseInv

LEMMA ServeBase ==
    ASSUME BaseInv, NEW m \in Macs, Serves(m)
    PROVE  BaseInv'
  <1>1. TypeInv /\ MachineInv /\ Handle(m)
    BY DEF BaseInv, Serves
  <1> DEFINE top == Len(targets) + 1
  <1>2. /\ Served(m)
        /\ Len(targets) \in Nat
        /\ targets' \in Seq(Target)
        /\ Len(targets') = top
        /\ registry' \in [Iqns -> 0 .. Len(targets')]
        /\ registry'[Iqn(m)] = top
        /\ \A q \in Iqns : q # Iqn(m) => registry'[q] = registry[q]
    BY <1>1, HandleStep
  <1>3. /\ registry \in [Iqns -> 0 .. Len(targets)]
        /\ mach \in [Macs -> Machine] /\ mach' \in [Macs -> Machine]
        /\ sent \subseteq [mac : Macs, target : 1 .. Len(targets), lun : Nat, val : 1 .. writes]
        /\ sent' = sent /\ writes' = writes /\ writes \in Nat
    BY <1>1 DEF TypeInv, Serves
  <1>4. \A n \in Macs : Served(n) => Iqn(n) \in Iqns
    BY ResolveType
  <1>5. \A n \in Macs : mach'[n] = mach[n] \/ (n = m /\ mach'[n] = Booted(m))
    BY DEF Serves
  <1>6. /\ Booted(m).state = "scripted" /\ Booted(m).iqn = Iqn(m)
        /\ Booted(m).home = 0
    BY DEF Booted
  <1>7. TypeInv'
    <2>1. \A w \in sent : w.target \in 1 .. top
      BY <1>2, <1>3
    <2>2. sent' \subseteq [mac : Macs, target : 1 .. Len(targets'), lun : Nat, val : 1 .. writes']
      BY <1>2, <1>3, <2>1
    <2> QED
      BY <1>2, <1>3, <2>2 DEF TypeInv
  <1>8. MachineInv'
    <2> SUFFICES ASSUME NEW n \in Macs, On(n)'
                 PROVE  /\ Served(n)
                        /\ mach'[n].iqn = Iqn(n)
                        /\ registry'[Iqn(n)] # 0
                        /\ mach'[n].home <= registry'[Iqn(n)]
                        /\ mach'[n].state = "up" =>
                              /\ mach'[n].home # 0
                              /\ mach'[n].home <= mach'[n].target
                              /\ mach'[n].target <= registry'[Iqn(n)]
      BY DEF MachineInv
    <2>1. CASE mach'[n] = mach[n]
      <3>1. /\ Served(n)
            /\ mach[n].iqn = Iqn(n)
            /\ registry[Iqn(n)] # 0
            /\ mach[n].home <= registry[Iqn(n)]
            /\ mach[n].state = "up" =>
                  /\ mach[n].home # 0
                  /\ mach[n].home <= mach[n].target
                  /\ mach[n].target <= registry[Iqn(n)]
        BY <1>1, <2>1 DEF MachineInv, On
      <3>2. Iqn(n) \in Iqns /\ mach[n].home \in Nat /\ mach[n].target \in Nat
        BY <1>3, <1>4, <3>1 DEF Machine
      <3>3. registry[Iqn(n)] \in Nat /\ registry'[Iqn(n)] \in Nat
        BY <1>2, <1>3, <3>2
      <3>4. registry[Iqn(n)] <= registry'[Iqn(n)]
        BY <1>2, <1>3, <3>2, <3>3
      <3> HIDE DEF top
      <3> QED
        BY <2>1, <3>1, <3>2, <3>3, <3>4
    <2>2. CASE n = m /\ mach'[n] = Booted(m)
      BY <1>2, <1>6, <2>2
    <2> QED
      BY <1>5, <2>1, <2>2
  <1> QED
    BY <1>7, <1>8 DEF BaseInv

LEMMA MoveBase ==
    ASSUME BaseInv, NEW m \in Macs, Moves(m)
    PROVE  BaseInv'
  <1>1. TypeInv /\ MachineInv /\ KeepsDisks /\ Stays(m)
        /\ mach' \in [Macs -> Machine] /\ \A n \in Macs : n # m => mach'[n] = mach[n]
    BY DEF BaseInv, Moves
  <1>2. TypeInv'
    BY <1>1 DEF TypeInv, KeepsDisks
  <1>3. registry' = registry
    BY <1>1 DEF KeepsDisks
  <1>4. \A n \in Macs : On(n)' => On(n) /\ mach'[n].iqn = mach[n].iqn /\ mach'[n].home = mach[n].home
    BY <1>1 DEF Stays, On
  <1>5. \A n \in Macs : mach'[n].state = "up" =>
            mach[n].state = "up" /\ mach'[n].target = mach[n].target
    BY <1>1 DEF Stays
  <1>6. MachineInv'
    BY <1>1, <1>3, <1>4, <1>5 DEF MachineInv
  <1> QED
    BY <1>2, <1>6 DEF BaseInv

LEMMA LoginBase ==
    ASSUME BaseInv, NEW m \in Macs, Login(m)
    PROVE  BaseInv'
  <1>1. TypeInv /\ MachineInv /\ registry \in [Iqns -> 0 .. Len(targets)] /\ Len(targets) \in Nat
    BY DEF BaseInv, TypeInv
  <1>2. PICK t : t = registry[Iqn(m)]
    OBVIOUS
  <1>3. /\ KeepsDisks
        /\ Served(m) /\ On(m) /\ t \in 1 .. Len(targets)
        /\ mach' \in [Macs -> Machine]
        /\ \A n \in Macs : n # m => mach'[n] = mach[n]
        /\ mach'[m].state = "up" /\ mach'[m].iqn = Iqn(m)
        /\ mach'[m].target = t
        /\ mach'[m].home = IF mach[m].home = 0 THEN t ELSE mach[m].home
    BY <1>2, LoginStep
  <1>4. TypeInv'
    BY <1>1, <1>3 DEF TypeInv, KeepsDisks
  <1>5. mach[m].home <= t /\ registry' = registry
    BY <1>1, <1>2, <1>3 DEF MachineInv, KeepsDisks
  <1>6. MachineInv'
    <2> SUFFICES ASSUME NEW n \in Macs, On(n)'
                 PROVE  /\ Served(n)
                        /\ mach'[n].iqn = Iqn(n)
                        /\ registry[Iqn(n)] # 0
                        /\ mach'[n].home <= registry[Iqn(n)]
                        /\ mach'[n].state = "up" =>
                              /\ mach'[n].home # 0
                              /\ mach'[n].home <= mach'[n].target
                              /\ mach'[n].target <= registry[Iqn(n)]
      BY <1>5 DEF MachineInv
    <2>1. CASE n = m
      BY <1>1, <1>2, <1>3, <1>5, <2>1
    <2>2. CASE n # m
      BY <1>1, <1>3, <2>2 DEF MachineInv, On
    <2> QED
      BY <2>1, <2>2
  <1> QED
    BY <1>4, <1>6 DEF BaseInv

\* Every step serves a machine, is a login, is a move of one machine, or stutters.
LEMMA NextBase ==
    ASSUME BaseInv, [Next]_vars
    PROVE  BaseInv'
  <1>1. ASSUME NEW m \in Macs, Boot(m) \/ Refetch(m)
        PROVE  BaseInv'
    BY <1>1, BootServes, ServeBase DEF BaseInv
  <1>2. ASSUME NEW m \in Macs, Disconnect(m) \/ Crash(m)
        PROVE  BaseInv'
    BY <1>2, LeaveStep, MoveBase
  <1>3. ASSUME NEW m \in Macs, NEW l \in DOMAIN mach[m].sending, Send(m, l)
        PROVE  BaseInv'
    BY <1>3, SendStep, MoveBase
  <1>4. ASSUME NEW w \in sent, HandleWrite(w)
        PROVE  BaseInv'
    BY <1>4, HandleWriteStep, MoveBase
  <1>5. ASSUME NEW w \in sent, GiveUp(w)
        PROVE  BaseInv'
    BY <1>5, GiveUpStep, MoveBase
  <1>6. CASE UNCHANGED vars
    BY <1>6 DEF vars, BaseInv, TypeInv, MachineInv, On
  <1> QED
    BY <1>1, <1>2, <1>3, <1>4, <1>5, <1>6, LoginBase DEF Next

-----------------------------------------------------------------------------
(* The disks *)

\* What a machine that is up is connected to was built.
LEMMA TargetBuilt ==
    ASSUME BaseInv, NEW m \in Macs, mach[m].state = "up"
    PROVE  /\ Served(m) /\ Iqn(m) \in Iqns
           /\ mach[m].target \in 1 .. Len(targets) /\ mach[m].home \in 1 .. Len(targets)
           /\ registry[Iqn(m)] \in 1 .. Len(targets)
  <1>1. /\ Served(m) /\ mach[m].home # 0 /\ mach[m].home <= mach[m].target
        /\ mach[m].target <= registry[Iqn(m)]
    BY DEF BaseInv, MachineInv, On
  <1>2. Iqn(m) \in Iqns
    BY <1>1, ResolveType
  <1>3. /\ mach[m].target \in Nat /\ mach[m].home \in Nat
        /\ registry[Iqn(m)] \in 0 .. Len(targets) /\ Len(targets) \in Nat
    BY <1>2 DEF BaseInv, TypeInv, Machine
  <1> QED
    BY <1>1, <1>2, <1>3

LEMMA ServeDisks ==
    ASSUME IqnsAgree, BaseInv, DisksInv, NEW m \in Macs, Serves(m)
    PROVE  DisksInv'
  <1> DEFINE top == Len(targets) + 1
  <1>1. TypeInv /\ Handle(m)
    BY DEF BaseInv, Serves
  <1>2. /\ Served(m)
        /\ Len(targets) \in Nat
        /\ \A i \in 1 .. Len(targets) : targets'[i] = targets[i]
        /\ targets'[top] = Fresh(LunsOf(Resolve(m)))
        /\ registry'[Iqn(m)] = top
        /\ \A q \in Iqns : q # Iqn(m) => registry'[q] = registry[q]
    BY <1>1, HandleStep
  <1>3. \A n \in Macs : mach'[n].state = "up" => mach'[n] = mach[n]
    BY DEF Serves, Booted
  <1> SUFFICES ASSUME NEW n \in Macs, Served(n)
               PROVE  /\ registry'[Iqn(n)] # 0 =>
                            targets'[registry'[Iqn(n)]].disks = LunsOf(Resolve(n))
                      /\ mach'[n].state = "up" =>
                            targets'[mach'[n].target].disks = LunsOf(Resolve(n))
    BY DEF DisksInv
  <1>4. /\ registry[Iqn(n)] # 0 => targets[registry[Iqn(n)]].disks = LunsOf(Resolve(n))
        /\ mach[n].state = "up" => targets[mach[n].target].disks = LunsOf(Resolve(n))
    BY DEF DisksInv
  <1>5. Iqn(n) \in Iqns
    BY ResolveType
  <1>6. registry'[Iqn(n)] # 0 => targets'[registry'[Iqn(n)]].disks = LunsOf(Resolve(n))
    <2>1. CASE Iqn(n) = Iqn(m)
      <3>1. LunsOf(Resolve(n)) = LunsOf(Resolve(m))
        BY <1>2, <2>1 DEF IqnsAgree, Served, Iqn
      <3>2. targets'[top].disks = LunsOf(Resolve(m))
        BY <1>2, FreshType
      <3> QED
        BY <1>2, <2>1, <3>1, <3>2
    <2>2. CASE Iqn(n) # Iqn(m)
      <3>1. registry'[Iqn(n)] = registry[Iqn(n)] /\ registry[Iqn(n)] \in 0 .. Len(targets)
        BY <1>1, <1>2, <1>5, <2>2 DEF TypeInv
      <3> QED
        BY <1>2, <1>4, <3>1
    <2> QED
      BY <2>1, <2>2
  <1>7. mach'[n].state = "up" => targets'[mach'[n].target].disks = LunsOf(Resolve(n))
    BY <1>2, <1>3, <1>4, TargetBuilt
  <1> QED
    BY <1>6, <1>7

\* A step that builds no target keeps DisksInv if every machine that is up after it
\* is connected to what it was connected to, or to what is registered for it.
LEMMA KeepDisks ==
    ASSUME BaseInv, DisksInv, KeepsDisks,
           \A n \in Macs : mach'[n].state = "up" =>
              \/ mach[n].state = "up" /\ mach'[n].target = mach[n].target
              \/ /\ Served(n) /\ registry[Iqn(n)] # 0
                 /\ mach'[n].target = registry[Iqn(n)]
    PROVE  DisksInv'
  <1> SUFFICES ASSUME NEW n \in Macs, Served(n)
               PROVE  /\ registry'[Iqn(n)] # 0 =>
                            targets'[registry'[Iqn(n)]].disks = LunsOf(Resolve(n))
                      /\ mach'[n].state = "up" =>
                            targets'[mach'[n].target].disks = LunsOf(Resolve(n))
    BY DEF DisksInv
  <1>1. /\ registry[Iqn(n)] # 0 => targets[registry[Iqn(n)]].disks = LunsOf(Resolve(n))
        /\ mach[n].state = "up" => targets[mach[n].target].disks = LunsOf(Resolve(n))
    BY DEF DisksInv
  <1>2. registry[Iqn(n)] \in 0 .. Len(targets) /\ Len(targets) \in Nat
    BY ResolveType DEF BaseInv, TypeInv
  <1>3. /\ registry' = registry
        /\ \A i \in 1 .. Len(targets) : targets'[i].disks = targets[i].disks
    BY DEF KeepsDisks
  <1>4. mach'[n].state = "up" => targets'[mach'[n].target].disks = LunsOf(Resolve(n))
    BY <1>1, <1>2, <1>3, TargetBuilt
  <1> QED
    BY <1>1, <1>2, <1>3, <1>4

LEMMA NextDisks ==
    ASSUME IqnsAgree, BaseInv, DisksInv, [Next]_vars
    PROVE  DisksInv'
  <1>1. ASSUME NEW m \in Macs, Boot(m) \/ Refetch(m)
        PROVE  DisksInv'
    BY <1>1, BootServes, ServeDisks DEF BaseInv
  <1>2. ASSUME NEW m \in Macs, Login(m)
        PROVE  DisksInv'
    BY <1>2, LoginStep, KeepDisks
  <1>3. ASSUME NEW m \in Macs, Moves(m)
        PROVE  DisksInv'
    BY <1>3, KeepDisks DEF Moves, Stays
  <1>4. ASSUME NEW m \in Macs, Disconnect(m) \/ Crash(m)
        PROVE  DisksInv'
    BY <1>3, <1>4, LeaveStep
  <1>5. ASSUME NEW m \in Macs, NEW l \in DOMAIN mach[m].sending, Send(m, l)
        PROVE  DisksInv'
    BY <1>3, <1>5, SendStep
  <1>6. ASSUME NEW w \in sent, HandleWrite(w)
        PROVE  DisksInv'
    BY <1>3, <1>6, HandleWriteStep
  <1>7. ASSUME NEW w \in sent, GiveUp(w)
        PROVE  DisksInv'
    BY <1>3, <1>7, GiveUpStep
  <1>8. CASE UNCHANGED vars
    BY <1>8 DEF vars, DisksInv
  <1> QED
    BY <1>1, <1>2, <1>4, <1>5, <1>6, <1>7, <1>8 DEF Next

\* For every validated configuration in which machines with the same IQN have the
\* same disks, a machine that is up has the disks of its client section, in the
\* order of build_target: whoever else registers under its IQN in between.
THEOREM DisksOfSection == IqnsAgree => (Spec => []SeesOwnDisks)
  <1> SUFFICES ASSUME IqnsAgree PROVE Spec => []SeesOwnDisks
    OBVIOUS
  <1>1. Init => BaseInv /\ DisksInv
    <2>1. Init => BaseInv
      BY InitBase
    <2>2. Init => DisksInv
      BY ResolveType DEF Init, DisksInv
    <2> QED
      BY <2>1, <2>2
  <1>2. BaseInv /\ DisksInv /\ [Next]_vars => BaseInv' /\ DisksInv'
    BY NextBase, NextDisks
  <1>3. ASSUME BaseInv, DisksInv PROVE SeesOwnDisks
    <2> SUFFICES ASSUME NEW m \in Macs, mach[m].state = "up"
                 PROVE  /\ \A i \in SectionsOf(m) :
                              (\A j \in SectionsOf(m) : i <= j => i = j) =>
                                  targets[mach[m].target].disks
                                      = <<Clients[i].system>> \o Clients[i].games
                        /\ SectionsOf(m) = {} =>
                              targets[mach[m].target].disks
                                  = <<Defaults.system>> \o Defaults.games
      BY DEF SeesOwnDisks, SectionsOf
    <2>1. Served(m) /\ targets[mach[m].target].disks = LunsOf(Resolve(m))
      BY <1>3, TargetBuilt DEF DisksInv
    <2> QED
      BY <2>1, LunsFound
  <1> QED
    BY <1>1, <1>2, <1>3, PTL DEF Spec

-----------------------------------------------------------------------------
(* Whose targets are whose *)

LEMMA OwnApart ==
    ASSUME NEW m \in OwnIqn, NEW n \in Macs, n # m, Served(n)
    PROVE  Served(m) /\ Iqn(m) # Iqn(n)
  BY DEF OwnIqn, Served, Iqn

LEMMA ServeApart ==
    ASSUME BaseInv, ApartInv, NEW m \in Macs, Serves(m)
    PROVE  ApartInv'
  <1> DEFINE top == Len(targets) + 1
  <1>1. TypeInv /\ Handle(m)
    BY DEF BaseInv, Serves
  <1>2. /\ Served(m)
        /\ Len(targets) \in Nat
        /\ registry'[Iqn(m)] = top
        /\ \A q \in Iqns : q # Iqn(m) => registry'[q] = registry[q]
    BY <1>1, HandleStep
  <1>3. \A q \in Iqns : registry[q] \in 0 .. Len(targets)
    BY <1>1 DEF TypeInv
  <1>4. \A n \in Macs : mach'[n] = mach[n] \/ (n = m /\ mach'[n] = Booted(m))
    BY DEF Serves
  <1>5. Booted(m).state = "scripted" /\ Booted(m).home = 0
    BY DEF Booted
  <1>6. \A n \in Macs : On(n) => mach[n].home \in 0 .. Len(targets)
    <2> SUFFICES ASSUME NEW n \in Macs, On(n) PROVE mach[n].home \in 0 .. Len(targets)
      OBVIOUS
    <2>1. Served(n) /\ mach[n].home <= registry[Iqn(n)]
      BY DEF BaseInv, MachineInv
    <2>2. mach[n].home \in Nat /\ registry[Iqn(n)] \in 0 .. Len(targets)
      BY <1>1, <2>1, ResolveType DEF TypeInv, Machine
    <2> QED
      BY <1>2, <2>1, <2>2
  <1>7. \A n \in Macs : mach[n].state = "up" => mach[n].target \in 1 .. Len(targets)
    BY TargetBuilt
  <1>8. RegistryApart'
    BY <1>2, <1>3, ResolveType DEF ApartInv, RegistryApart
  <1>9. OthersApart'
    <2> SUFFICES ASSUME NEW n \in Macs, NEW q \in Iqns, On(n)', q # Iqn(n)
                 PROVE  /\ mach'[n].home # 0 => registry'[q] # mach'[n].home
                        /\ mach'[n].state = "up" => registry'[q] # mach'[n].target
      BY DEF OthersApart
    <2>1. CASE mach'[n] = mach[n]
      <3>1. On(n)
        BY <2>1 DEF On
      <3>2. /\ mach[n].home # 0 => registry[q] # mach[n].home
            /\ mach[n].state = "up" => registry[q] # mach[n].target
        BY <3>1 DEF ApartInv, OthersApart
      <3>3. registry'[q] = registry[q] \/ registry'[q] = top
        BY <1>2
      <3> QED
        BY <1>2, <1>6, <1>7, <2>1, <3>1, <3>2, <3>3
    <2>2. CASE mach'[n] = Booted(m)
      BY <1>5, <2>2
    <2> QED
      BY <1>4, <2>1, <2>2
  <1>10. HomesApart'
    <2> SUFFICES ASSUME NEW n \in OwnIqn, NEW k \in Macs, n # k, On(n)', mach'[n].home # 0,
                        mach'[k].state = "up"
                 PROVE  mach'[n].home # mach'[k].target
      BY DEF HomesApart
    <2>1. n \in Macs
      BY DEF OwnIqn
    <2>2. mach'[n] = mach[n] /\ mach'[k] = mach[k]
      BY <1>4, <1>5, <2>1
    <2> QED
      BY <2>2 DEF ApartInv, HomesApart, On
  <1> QED
    BY <1>8, <1>9, <1>10 DEF ApartInv

LEMMA LoginApart ==
    ASSUME BaseInv, ApartInv, NEW m \in Macs, Login(m)
    PROVE  ApartInv'
  <1>1. PICK t : t = registry[Iqn(m)]
    OBVIOUS
  <1>2. /\ registry' = registry
        /\ On(m) /\ Served(m) /\ Iqn(m) \in Iqns /\ t \in 1 .. Len(targets)
        /\ \A n \in Macs : n # m => mach'[n] = mach[n]
        /\ mach'[m].state = "up" /\ mach'[m].target = t
        /\ mach'[m].home = IF mach[m].home = 0 THEN t ELSE mach[m].home
    BY <1>1, LoginStep DEF KeepsDisks
  <1>3. \A q \in Iqns : q # Iqn(m) => registry[q] # t
    BY <1>1, <1>2 DEF ApartInv, RegistryApart
  <1>4. RegistryApart'
    BY <1>2 DEF ApartInv, RegistryApart
  <1>5. OthersApart'
    <2> SUFFICES ASSUME NEW n \in Macs, NEW q \in Iqns, On(n)', q # Iqn(n)
                 PROVE  /\ mach'[n].home # 0 => registry[q] # mach'[n].home
                        /\ mach'[n].state = "up" => registry[q] # mach'[n].target
      BY <1>2 DEF OthersApart
    <2>1. CASE n = m
      BY <1>2, <1>3, <2>1 DEF ApartInv, OthersApart
    <2>2. CASE n # m
      BY <1>2, <2>2 DEF ApartInv, OthersApart, On
    <2> QED
      BY <2>1, <2>2
  <1>6. HomesApart'
    <2> SUFFICES ASSUME NEW n \in OwnIqn, NEW k \in Macs, n # k, On(n)', mach'[n].home # 0,
                        mach'[k].state = "up"
                 PROVE  mach'[n].home # mach'[k].target
      BY DEF HomesApart
    <2>1. n \in Macs
      BY DEF OwnIqn
    <2>2. CASE n = m
      <3>1. mach'[k] = mach[k] /\ On(k) /\ Served(k)
        BY <1>2, <2>2, TargetBuilt DEF On
      <3>2. Iqn(k) # Iqn(m)
        BY <2>2, <3>1, OwnApart
      <3>3. t # mach[k].target
        BY <1>1, <1>2, <3>1, <3>2 DEF ApartInv, OthersApart
      <3>4. mach[m].home # 0 => mach[m].home # mach[k].target
        BY <1>2, <2>2, <3>1 DEF ApartInv, HomesApart
      <3> QED
        BY <1>2, <2>2, <3>1, <3>3, <3>4
    <2>3. CASE k = m
      <3>1. mach'[n] = mach[n] /\ On(n) /\ Iqn(n) # Iqn(m)
        BY <1>2, <2>1, <2>3, OwnApart DEF On
      <3>2. t # mach[n].home
        BY <1>1, <1>2, <2>1, <3>1 DEF ApartInv, OthersApart
      <3> QED
        BY <1>2, <2>3, <3>1, <3>2
    <2>4. CASE n # m /\ k # m
      BY <1>2, <2>1, <2>4 DEF ApartInv, HomesApart, On
    <2> QED
      BY <2>2, <2>3, <2>4
  <1> QED
    BY <1>4, <1>5, <1>6 DEF ApartInv

LEMMA MoveApart ==
    ASSUME ApartInv, NEW m \in Macs, Moves(m)
    PROVE  ApartInv'
  <1>1. registry' = registry
    BY DEF Moves, KeepsDisks
  <1>2. \A n \in Macs : On(n)' => On(n) /\ mach'[n].home = mach[n].home
    BY DEF Moves, Stays, On
  <1>3. \A n \in Macs : mach'[n].state = "up" =>
            mach[n].state = "up" /\ mach'[n].target = mach[n].target
    BY DEF Moves, Stays
  <1>4. RegistryApart' /\ OthersApart'
    BY <1>1, <1>2, <1>3 DEF ApartInv, RegistryApart, OthersApart
  <1>5. HomesApart'
    BY <1>2, <1>3 DEF ApartInv, HomesApart, OwnIqn
  <1> QED
    BY <1>4, <1>5 DEF ApartInv

-----------------------------------------------------------------------------
(* The writes that are awaited *)

LEMMA ServeAwait ==
    ASSUME BaseInv, AwaitInv, NEW m \in Macs, Serves(m)
    PROVE  AwaitInv'
  <1> SUFFICES ASSUME NEW w \in sent, Awaited(w)'
               PROVE  mach'[w.mac].state = "up" /\ w.target = mach'[w.mac].target
    BY DEF AwaitInv, Serves
  <1>1. w.mac \in Macs /\ w.val # 0
    BY DEF BaseInv, TypeInv
  <1>2. mach'[w.mac] = mach[w.mac] \/ mach'[w.mac] = Booted(m)
    BY <1>1 DEF Serves
  <1>3. mach'[w.mac] = mach[w.mac]
    BY <1>1, <1>2 DEF Booted, Awaited
  <1> QED
    BY <1>3 DEF AwaitInv, Awaited

LEMMA LoginAwait ==
    ASSUME BaseInv, AwaitInv, NEW m \in Macs, Login(m)
    PROVE  AwaitInv'
  <1> SUFFICES ASSUME NEW w \in sent, Awaited(w)'
               PROVE  mach'[w.mac].state = "up" /\ w.target = mach'[w.mac].target
    BY LoginStep DEF AwaitInv
  <1>1. w.mac \in Macs
    BY DEF BaseInv, TypeInv
  <1>2. mach'[w.mac].sending = mach[w.mac].sending
    BY <1>1, LoginStep
  <1>3. mach[w.mac].state = "up" /\ w.target = mach[w.mac].target
    BY <1>2 DEF AwaitInv, Awaited
  <1> QED
    BY <1>1, <1>3, LoginStep

LEMMA LeaveAwait ==
    ASSUME BaseInv, AwaitInv, NEW m \in Macs, Disconnect(m) \/ Crash(m)
    PROVE  AwaitInv'
  <1> SUFFICES ASSUME NEW w \in sent, Awaited(w)'
               PROVE  mach'[w.mac].state = "up" /\ w.target = mach'[w.mac].target
    BY LeaveStep DEF AwaitInv
  <1>1. w.mac \in Macs /\ w.val # 0
    BY DEF BaseInv, TypeInv
  <1>2. w.mac # m
    BY <1>1, LeaveStep DEF Awaited
  <1>3. mach'[w.mac] = mach[w.mac]
    BY <1>1, <1>2, LeaveStep DEF Moves
  <1> QED
    BY <1>3 DEF AwaitInv, Awaited

LEMMA SendAwait ==
    ASSUME BaseInv, AwaitInv, NEW m \in Macs, NEW l \in DOMAIN mach[m].sending, Send(m, l)
    PROVE  AwaitInv'
  <1> SUFFICES ASSUME NEW w \in sent', Awaited(w)'
               PROVE  mach'[w.mac].state = "up" /\ w.target = mach'[w.mac].target
    BY DEF AwaitInv
  <1>1. /\ sent' = sent \cup {[mac |-> m, target |-> mach[m].target, lun |-> l,
                               val |-> writes']}
        /\ writes' = writes + 1
        /\ mach'[m].state = "up" /\ mach'[m].target = mach[m].target
        /\ mach'[m].sending = Put(mach[m].sending, l, writes')
        /\ \A n \in Macs : n # m => mach'[n] = mach[n]
    BY SendStep DEF Moves
  <1>2. CASE w \notin sent
    BY <1>1, <1>2
  <1>3. CASE w \in sent
    <2>1. w.mac \in Macs /\ w.val # writes'
      BY <1>1, <1>3 DEF BaseInv, TypeInv
    <2>2. CASE w.mac # m
      BY <1>1, <1>3, <2>1, <2>2 DEF AwaitInv, Awaited
    <2>3. CASE w.mac = m
      <3>1. mach[m].sending \in Seq(Nat) /\ writes' \in Nat
        <4>1. mach[m] \in Machine /\ writes \in Nat
          BY DEF BaseInv, TypeInv
        <4> QED
          BY <1>1, <4>1 DEF Machine
      <3>2. /\ w.lun \in DOMAIN mach[m].sending
            /\ Put(mach[m].sending, l, writes')[w.lun] = w.val
        BY <1>1, <2>3, <3>1, PutType DEF Awaited
      <3>3. mach[m].sending[w.lun] = w.val
        BY <2>1, <3>1, <3>2, PutType
      <3> QED
        BY <1>1, <1>3, <2>3, <3>2, <3>3 DEF AwaitInv, Awaited
    <2> QED
      BY <2>2, <2>3
  <1> QED
    BY <1>2, <1>3

LEMMA HandleWriteAwait ==
    ASSUME BaseInv, AwaitInv, NEW w \in sent, HandleWrite(w)
    PROVE  AwaitInv'
  <1>1. PICK m \in Macs : m = w.mac
    BY HandleWriteStep
  <1>2. /\ sent' \subseteq sent
        /\ mach'[m].state = mach[m].state /\ mach'[m].target = mach[m].target
        /\ Awaited(w) => mach'[m].sending = Put(mach[m].sending, w.lun, 0)
        /\ ~ Awaited(w) => mach'[m] = mach[m]
        /\ \A n \in Macs : n # m => mach'[n] = mach[n]
    BY <1>1, HandleWriteStep DEF Moves
  <1> SUFFICES ASSUME NEW u \in sent, Awaited(u)'
               PROVE  mach'[u.mac].state = "up" /\ u.target = mach'[u.mac].target
    BY <1>2 DEF AwaitInv
  <1>3. u.mac \in Macs /\ u.val # 0
    BY DEF BaseInv, TypeInv
  <1>4. Awaited(u)
    <2>1. CASE mach'[u.mac] = mach[u.mac]
      BY <2>1 DEF Awaited
    <2>2. CASE u.mac = m /\ Awaited(w)
      <3>1. mach[m].sending \in Seq(Nat)
        BY DEF BaseInv, TypeInv, Machine
      <3>2. u.lun \in DOMAIN mach'[m].sending /\ mach'[m].sending[u.lun] = u.val
        BY <2>2 DEF Awaited
      <3>3. u.lun \in DOMAIN mach[m].sending /\ mach[m].sending[u.lun] = u.val
        BY <1>2, <1>3, <2>2, <3>1, <3>2, PutType
      <3> QED
        BY <2>2, <3>3 DEF Awaited
    <2> QED
      BY <1>2, <1>3, <2>1, <2>2
  <1> QED
    BY <1>2, <1>3, <1>4 DEF AwaitInv

-----------------------------------------------------------------------------
(* The writes of a machine with an IQN of its own *)

\* The haven of a machine that is on was built.
LEMMA HavenBuilt ==
    ASSUME BaseInv, NEW m \in Macs, On(m)
    PROVE  /\ Served(m) /\ Iqn(m) \in Iqns
           /\ Haven(m) \in 1 .. Len(targets) /\ Len(targets) \in Nat
           /\ mach[m].home \in 0 .. Len(targets)
           /\ registry[Iqn(m)] \in 1 .. Len(targets)
  <1>1. Served(m) /\ registry[Iqn(m)] # 0 /\ mach[m].home <= registry[Iqn(m)]
    BY DEF BaseInv, MachineInv
  <1>2. Iqn(m) \in Iqns
    BY <1>1, ResolveType
  <1>3. /\ mach[m].home \in Nat /\ registry[Iqn(m)] \in 0 .. Len(targets)
        /\ Len(targets) \in Nat
    BY <1>2 DEF BaseInv, TypeInv, Machine
  <1> QED
    BY <1>1, <1>2, <1>3 DEF Haven

\* A machine that is up and has not lost its haven is on it.
LEMMA UpAtHaven ==
    ASSUME BaseInv, NEW m \in Macs, mach[m].state = "up", AtHaven(m)
    PROVE  mach[m].target = Haven(m) /\ mach[m].home = Haven(m)
  <1>1. /\ mach[m].home # 0 /\ mach[m].home <= mach[m].target
        /\ mach[m].target <= registry[Iqn(m)]
    BY DEF BaseInv, MachineInv, On
  <1>2. mach[m].home \in Nat /\ mach[m].target \in Nat /\ registry[Iqn(m)] \in Nat
    BY TargetBuilt
  <1> QED
    BY <1>1, <1>2 DEF AtHaven, Haven

\* Nobody else is connected to the haven of a machine with an IQN of its own.
LEMMA HavenApart ==
    ASSUME BaseInv, ApartInv, NEW m \in OwnIqn, On(m), NEW n \in Macs, n # m,
           mach[n].state = "up"
    PROVE  mach[n].target # Haven(m)
  <1>1. m \in Macs /\ Served(n) /\ On(n)
    BY TargetBuilt DEF OwnIqn, On
  <1>2. Iqn(m) # Iqn(n) /\ Iqn(m) \in Iqns
    BY <1>1, OwnApart, HavenBuilt
  <1>3. CASE mach[m].home = 0
    BY <1>1, <1>2, <1>3 DEF ApartInv, OthersApart, Haven
  <1>4. CASE mach[m].home # 0
    BY <1>4 DEF ApartInv, HomesApart, Haven
  <1> QED
    BY <1>3, <1>4

\* A step that changes neither what a machine knows of its LUNs nor what is in
\* target t, and sends nothing new there.
LEMMA StillOnlyOwn ==
    ASSUME NEW m \in Macs, NEW t, OnlyOwn(m, t), mach'[m].may = mach[m].may,
           targets'[t].data = targets[t].data,
           \A w \in sent' : w \in sent \/ w.target # t
    PROVE  OnlyOwn(m, t)'
  BY DEF OnlyOwn

\* A machine that is moved by none of its own keeps its haven.
LEMMA OthersHaven ==
    ASSUME registry' = registry, NEW m \in Macs, mach'[m] = mach[m]
    PROVE  /\ On(m)' <=> On(m)
           /\ Haven(m)' = Haven(m)
           /\ AtHaven(m)' <=> AtHaven(m)
           /\ Clean(m)' <=> Clean(m)
  BY DEF On, Haven, AtHaven, Clean

\* The obligation of a step that keeps the haven of a machine.
LEMMA KeepsOwn ==
    ASSUME OwnInv, NEW m \in OwnIqn, On(m),
           mach'[m].may = mach[m].may,
           Haven(m)' = Haven(m),
           AtHaven(m)' => AtHaven(m),
           mach'[m].home = 0 => mach[m].home = 0,
           AtHaven(m) /\ OnlyOwn(m, Haven(m)) =>
              /\ targets'[Haven(m)].data = targets[Haven(m)].data
              /\ \A w \in sent' : w \in sent \/ w.target # Haven(m)
    PROVE  Clean(m)' /\ (AtHaven(m)' => OnlyOwn(m, Haven(m))')
  <1>1. m \in Macs
    BY DEF OwnIqn
  <1>2. Clean(m) /\ (AtHaven(m) => OnlyOwn(m, Haven(m)))
    BY DEF OwnInv
  <1>3. Clean(m)'
    BY <1>2 DEF Clean
  <1>4. ASSUME AtHaven(m)' PROVE OnlyOwn(m, Haven(m))'
    <2>1. PICK t : t = Haven(m)
      OBVIOUS
    <2>2. OnlyOwn(m, t) /\ AtHaven(m)
      BY <1>2, <1>4, <2>1
    <2>3. /\ targets'[t].data = targets[t].data
          /\ \A w \in sent' : w \in sent \/ w.target # t
      BY <2>1, <2>2
    <2>4. OnlyOwn(m, t)'
      BY <1>1, <2>2, <2>3, StillOnlyOwn
    <2> QED
      BY <2>1, <2>4 DEF OnlyOwn
  <1> QED
    BY <1>3, <1>4

LEMMA ServeOwn ==
    ASSUME BaseInv, OwnInv, NEW m \in Macs, Serves(m)
    PROVE  OwnInv'
  <1>1. TypeInv /\ Handle(m)
    BY DEF BaseInv, Serves
  <1>2. PICK top : top = Len(targets) + 1
    OBVIOUS
  <1>3. PICK zero : zero = [l \in DOMAIN LunsOf(Resolve(m)) |-> 0]
    OBVIOUS
  <1>4. PICK clean : clean = [l \in DOMAIN LunsOf(Resolve(m)) |-> {0}]
    OBVIOUS
  <1>5. /\ Served(m)
        /\ Len(targets) \in Nat
        /\ \A i \in 1 .. Len(targets) : targets'[i] = targets[i]
        /\ targets'[top].data = zero
        /\ registry'[Iqn(m)] = top
        /\ \A q \in Iqns : q # Iqn(m) => registry'[q] = registry[q]
    BY <1>1, <1>2, <1>3, HandleStep, FreshType
  <1>6. sent' = sent /\ \A w \in sent : w.target # top
    BY <1>1, <1>2, <1>5 DEF Serves, TypeInv
  <1>7. Booted(m).home = 0 /\ Booted(m).may = clean
    BY <1>4 DEF Booted
  <1>8. DOMAIN clean = DOMAIN zero /\ \A l \in DOMAIN clean : zero[l] \in clean[l]
    BY <1>3, <1>4
  <1> SUFFICES ASSUME NEW n \in OwnIqn, On(n)'
               PROVE  Clean(n)' /\ (AtHaven(n)' => OnlyOwn(n, Haven(n))')
    BY DEF OwnInv, OwnIqn
  <1>9. n \in Macs
    BY DEF OwnIqn
  <1>10. mach'[n] = mach[n] \/ (n = m /\ mach'[n] = Booted(m))
    BY <1>9 DEF Serves
  <1>11. CASE n = m /\ mach'[n].home = 0
    <2>1. mach'[m].may = clean
      <3>1. CASE mach'[m] = mach[m]
        BY <1>4, <1>11, <3>1 DEF OwnInv, Clean, On
      <3> QED
        BY <1>7, <1>10, <1>11, <3>1
    <2>2. Haven(m)' = top
      BY <1>5, <1>11 DEF Haven
    <2>3. Clean(m)'
      BY <1>4, <2>1 DEF Clean
    <2>4. OnlyOwn(m, top)'
      BY <1>5, <1>6, <1>8, <2>1 DEF OnlyOwn
    <2> QED
      BY <1>11, <2>2, <2>3, <2>4 DEF OnlyOwn
  <1>12. CASE n # m \/ mach'[n].home # 0
    <2>1. mach'[n] = mach[n] /\ On(n)
      BY <1>7, <1>10, <1>12 DEF On
    <2>2. Served(n) /\ Iqn(n) \in Iqns /\ Haven(n) \in 1 .. Len(targets)
      BY <1>9, <2>1, HavenBuilt
    <2>3. n # m => registry'[Iqn(n)] = registry[Iqn(n)]
      BY <1>5, <2>2, OwnApart
    <2>4. Haven(n)' = Haven(n)
      BY <1>12, <2>1, <2>3 DEF Haven
    <2>5. AtHaven(n)' => AtHaven(n)
      <3>1. n = m => registry'[Iqn(n)] # Haven(n)
        BY <1>2, <1>5, <2>2
      <3> QED
        BY <2>1, <2>3, <2>4, <3>1 DEF AtHaven
    <2>6. targets'[Haven(n)].data = targets[Haven(n)].data
      BY <1>5, <2>2
    <2> QED
      BY <1>6, <2>1, <2>4, <2>5, <2>6, KeepsOwn
  <1> QED
    BY <1>11, <1>12

LEMMA LoginOwn ==
    ASSUME BaseInv, OwnInv, NEW m \in Macs, Login(m)
    PROVE  OwnInv'
  <1>1. PICK t : t = registry[Iqn(m)]
    OBVIOUS
  <1>2. /\ registry' = registry /\ targets' = targets /\ sent' = sent
        /\ On(m) /\ mach[m].state = "scripted" /\ t # 0
        /\ \A n \in Macs : n # m => mach'[n] = mach[n]
        /\ mach'[m].state = "up" /\ mach'[m].target = t
        /\ mach'[m].home = IF mach[m].home = 0 THEN t ELSE mach[m].home
        /\ mach'[m].may = mach[m].may
    BY <1>1, LoginStep DEF KeepsDisks
  <1> SUFFICES ASSUME NEW n \in OwnIqn, On(n)'
               PROVE  Clean(n)' /\ (AtHaven(n)' => OnlyOwn(n, Haven(n))')
    BY DEF OwnInv, OwnIqn
  <1>3. n \in Macs
    BY DEF OwnIqn
  <1>4. On(n) /\ mach'[n].may = mach[n].may /\ (mach'[n].home = 0 => mach[n].home = 0)
    BY <1>2, <1>3 DEF On
  <1>5. Haven(n)' = Haven(n) /\ (AtHaven(n)' => AtHaven(n))
    <2>1. CASE n = m
      BY <1>1, <1>2, <2>1 DEF Haven, AtHaven
    <2>2. CASE n # m
      BY <1>2, <1>3, <2>2, OthersHaven
    <2> QED
      BY <2>1, <2>2
  <1> QED
    BY <1>2, <1>4, <1>5, KeepsOwn

LEMMA LeaveOwn ==
    ASSUME BaseInv, OwnInv, NEW m \in Macs, Disconnect(m) \/ Crash(m)
    PROVE  OwnInv'
  <1>1. /\ registry' = registry /\ targets' = targets /\ sent' = sent
        /\ \A n \in Macs : n # m => mach'[n] = mach[n]
        /\ mach'[m].state # "up"
        /\ mach'[m].state # "off" => On(m) /\ mach'[m].home = mach[m].home
        /\ mach'[m].may = mach[m].may
    BY LeaveStep DEF Moves, KeepsDisks, Stays
  <1> SUFFICES ASSUME NEW n \in OwnIqn, On(n)'
               PROVE  Clean(n)' /\ (AtHaven(n)' => OnlyOwn(n, Haven(n))')
    BY DEF OwnInv, OwnIqn
  <1>2. n \in Macs
    BY DEF OwnIqn
  <1>3. On(n) /\ mach'[n].may = mach[n].may /\ mach'[n].home = mach[n].home
    BY <1>1, <1>2 DEF On
  <1>4. Haven(n)' = Haven(n) /\ (AtHaven(n)' => AtHaven(n))
    <2>1. CASE n = m
      BY <1>1, <1>3, <2>1 DEF Haven, AtHaven
    <2>2. CASE n # m
      BY <1>1, <1>2, <2>2, OthersHaven
    <2> QED
      BY <2>1, <2>2
  <1> QED
    BY <1>1, <1>3, <1>4, KeepsOwn

\* A machine knows of the write it sends.
LEMMA SendOwn ==
    ASSUME BaseInv, ApartInv, OwnInv,
           NEW m \in Macs, NEW l \in DOMAIN mach[m].sending, Send(m, l)
    PROVE  OwnInv'
  <1>1. /\ registry' = registry /\ targets' = targets
        /\ mach[m].state = "up" /\ On(m)
        /\ sent' = sent \cup {[mac |-> m, target |-> mach[m].target, lun |-> l,
                               val |-> writes']}
        /\ \A n \in Macs : n # m => mach'[n] = mach[n]
        /\ mach'[m].state = "up" /\ mach'[m].target = mach[m].target
        /\ mach'[m].home = mach[m].home
        /\ mach'[m].may = Put(mach[m].may, l, mach[m].may[l] \cup {writes'})
    BY SendStep DEF Moves, KeepsDisks, On
  <1> SUFFICES ASSUME NEW n \in OwnIqn, On(n)'
               PROVE  Clean(n)' /\ (AtHaven(n)' => OnlyOwn(n, Haven(n))')
    BY DEF OwnInv, OwnIqn
  <1>2. n \in Macs
    BY DEF OwnIqn
  <1>3. CASE n # m
    <2>1. /\ On(n) /\ mach'[n] = mach[n]
          /\ Haven(n)' = Haven(n) /\ (AtHaven(n)' => AtHaven(n))
      BY <1>1, <1>2, <1>3, OthersHaven DEF On
    <2>2. mach[m].target # Haven(n)
      BY <1>1, <1>3, <2>1, HavenApart
    <2> QED
      BY <1>1, <2>1, <2>2, KeepsOwn
  <1>4. CASE n = m
    <2>1. mach[m].home # 0 /\ mach[m].may \in Seq(SUBSET Nat)
      BY <1>1 DEF BaseInv, MachineInv, TypeInv, Machine
    <2>2. Clean(m)' /\ Haven(m)' = Haven(m) /\ (AtHaven(m)' => AtHaven(m))
      BY <1>1, <2>1 DEF Clean, Haven, AtHaven
    <2>3. ASSUME AtHaven(m) PROVE OnlyOwn(m, Haven(m))'
      <3>1. PICK t : t = Haven(m)
        OBVIOUS
      <3>2. OnlyOwn(m, t)
        BY <1>1, <1>4, <2>3, <3>1 DEF OwnInv
      <3>3. /\ DOMAIN mach'[m].may = DOMAIN mach[m].may
            /\ \A k \in DOMAIN mach[m].may : mach[m].may[k] \subseteq mach'[m].may[k]
            /\ l \in DOMAIN mach[m].may => writes' \in mach'[m].may[l]
        <4>1. CASE l \in DOMAIN mach[m].may
          <5>1. PICK v \in SUBSET Nat : v = mach[m].may[l] \cup {writes'}
            <6>1. writes' \in Nat
              BY SendStep DEF Moves, KeepsDisks
            <6>2. mach[m].may[l] \in SUBSET Nat
              BY <2>1, <4>1
            <6>3. mach[m].may[l] \cup {writes'} \in SUBSET Nat
              BY <6>1, <6>2
            <6> QED
              BY <6>3, Zenon
          <5>2. mach'[m].may = Put(mach[m].may, l, v)
            BY <1>1, <5>1
          <5>3. /\ DOMAIN mach'[m].may = DOMAIN mach[m].may
                /\ \A k \in DOMAIN mach[m].may :
                      mach'[m].may[k] = IF k = l THEN v ELSE mach[m].may[k]
            <6>1. PICK s, u : s = mach[m].may /\ u = mach'[m].may /\ s \in Seq(SUBSET Nat) /\ u = Put(s, l, v)
              BY <2>1, <5>2
            <6>2. /\ DOMAIN Put(s, l, v) = DOMAIN s
                  /\ \A k \in DOMAIN s : Put(s, l, v)[k] = IF k = l THEN v ELSE s[k]
              <7>1. PICK S : S = SUBSET Nat
                OBVIOUS
              <7>2. s \in Seq(S) /\ v \in S
                BY <6>1, <7>1
              <7> QED
                BY <7>2, PutType
            <6> QED
              BY <6>1, <6>2
          <5> QED
            BY <4>1, <5>1, <5>3
        <4>2. CASE l \notin DOMAIN mach[m].may
          <5>1. mach'[m].may = mach[m].may
            BY <1>1, <2>1, <4>2 DEF Put
          <5> QED
            BY <4>2, <5>1
        <4> QED
          BY <4>1, <4>2
      <3>4. OnlyOwn(m, t)'
        <4>1. /\ DOMAIN mach'[m].may = DOMAIN targets'[t].data
              /\ \A k \in DOMAIN mach'[m].may : targets'[t].data[k] \in mach'[m].may[k]
          BY <1>1, <3>2, <3>3 DEF OnlyOwn
        <4>2. ASSUME NEW w \in sent', w.target = t
              PROVE  /\ w.mac = m
                     /\ w.lun \in DOMAIN mach'[m].may => w.val \in mach'[m].may[w.lun]
          <5>1. CASE w \in sent
            BY <3>2, <3>3, <4>2, <5>1 DEF OnlyOwn
          <5>2. CASE w \notin sent
            <6>1. w.mac = m /\ w.lun = l /\ w.val = writes'
              BY <1>1, <5>2
            <6> QED
              BY <3>3, <6>1
          <5> QED
            BY <5>1, <5>2
        <4> QED
          BY <4>1, <4>2 DEF OnlyOwn
      <3> QED
        BY <2>2, <3>1, <3>4 DEF OnlyOwn
    <2> QED
      BY <1>4, <2>2, <2>3
  <1> QED
    BY <1>3, <1>4

\* A write that is stored is one its machine may find, and if it learns so, what
\* else may be stored later is still on its way.
LEMMA HandleWriteOwn ==
    ASSUME BaseInv, AwaitInv, OwnInv, NEW w \in sent, HandleWrite(w)
    PROVE  OwnInv'
  <1>1. PICK m \in Macs, t \in 1 .. Len(targets) : m = w.mac /\ t = w.target
    BY HandleWriteStep
  <1>2. /\ registry' = registry
        /\ sent' = sent \ {w}
        /\ \A i \in 1 .. Len(targets) : i # t => targets'[i] = targets[i]
        /\ targets'[t].data = Put(targets[t].data, w.lun, w.val)
        /\ \A n \in Macs : n # m => mach'[n] = mach[n]
        /\ mach'[m].state = mach[m].state
        /\ mach'[m].target = mach[m].target /\ mach'[m].home = mach[m].home
        /\ Awaited(w) => mach'[m].may = Put(mach[m].may, w.lun, {w.val} \cup Overdue(w))
        /\ ~ Awaited(w) => mach'[m] = mach[m]
    BY <1>1, HandleWriteStep DEF Moves, KeepsDisks
  <1>3. w.val \in Nat /\ \A u \in sent : u.val \in Nat
    BY DEF BaseInv, TypeInv
  <1> SUFFICES ASSUME NEW n \in OwnIqn, On(n)'
               PROVE  Clean(n)' /\ (AtHaven(n)' => OnlyOwn(n, Haven(n))')
    BY DEF OwnInv, OwnIqn
  <1>4. n \in Macs
    BY DEF OwnIqn
  <1>5. /\ On(n) /\ mach'[n].home = mach[n].home
        /\ Haven(n)' = Haven(n) /\ (AtHaven(n)' => AtHaven(n))
    BY <1>2, <1>4 DEF On, Haven, AtHaven
  <1>6. PICK h \in 1 .. Len(targets) : h = Haven(n)
    BY <1>4, <1>5, HavenBuilt
  <1>7. CASE mach'[n].may = mach[n].may /\ h # t
    BY <1>2, <1>5, <1>6, <1>7, KeepsOwn
  <1>8. CASE ~ AtHaven(n)
    <2>1. mach'[n].home # 0
      BY <1>5, <1>8 DEF AtHaven, Haven
    <2> QED
      BY <1>5, <1>8, <2>1 DEF Clean
  <1>9. CASE AtHaven(n) /\ n # m
    <2>1. OnlyOwn(n, h)
      BY <1>5, <1>6, <1>9 DEF OwnInv
    <2>2. h # t
      BY <1>1, <1>9, <2>1 DEF OnlyOwn
    <2> QED
      BY <1>2, <1>4, <1>7, <1>9, <2>2
  <1>10. CASE AtHaven(n) /\ n = m /\ ~ (mach'[n].may = mach[n].may /\ h # t)
    <2>1. OnlyOwn(m, h) /\ Clean(m)
      BY <1>5, <1>6, <1>10 DEF OwnInv
    <2>2. h = t
      <3>1. CASE Awaited(w)
        BY <1>1, <1>6, <1>10, <3>1, UpAtHaven DEF AwaitInv
      <3> QED
        BY <1>2, <1>10, <3>1
    <2>3. mach[m].may \in Seq(SUBSET Nat) /\ targets[t].data \in Seq(Nat)
      <3>1. targets[t] \in Target
        BY DEF BaseInv, TypeInv
      <3> QED
        BY <3>1 DEF BaseInv, TypeInv, Machine, Target
    <2>4. /\ DOMAIN mach[m].may = DOMAIN targets[t].data
          /\ \A l \in DOMAIN mach[m].may : targets[t].data[l] \in mach[m].may[l]
          /\ \A u \in sent : u.target = t =>
                u.mac = m /\ (u.lun \in DOMAIN mach[m].may => u.val \in mach[m].may[u.lun])
      BY <2>1, <2>2 DEF OnlyOwn
    <2>5. /\ DOMAIN targets'[t].data = DOMAIN targets[t].data
          /\ \A l \in DOMAIN targets[t].data :
                targets'[t].data[l] = IF l = w.lun THEN w.val ELSE targets[t].data[l]
      <3>1. PICK d \in Seq(Nat), v \in Nat : d = targets[t].data /\ v = w.val
        BY <1>3, <2>3
      <3>2. targets'[t].data = Put(d, w.lun, v)
        BY <1>2, <3>1
      <3> QED
        BY <3>1, <3>2, PutType
    <2>6. CASE Awaited(w)
      <3>1. PICK v \in SUBSET Nat : v = {w.val} \cup Overdue(w)
        BY <1>3 DEF Overdue
      <3>2. /\ DOMAIN mach'[m].may = DOMAIN mach[m].may
            /\ \A l \in DOMAIN mach[m].may :
                  mach'[m].may[l] = IF l = w.lun THEN v ELSE mach[m].may[l]
        BY <1>2, <2>3, <2>6, <3>1, PutType
      <3>3. \A u \in sent' : u.target = t /\ u.lun = w.lun => u.val \in v
        BY <1>1, <1>2, <3>1 DEF Overdue
      <3>4. OnlyOwn(m, t)'
        BY <1>2, <2>4, <2>5, <3>1, <3>2, <3>3 DEF OnlyOwn
      <3>5. mach[m].home # 0
        BY <1>1, <2>6 DEF AwaitInv, BaseInv, MachineInv, On
      <3>6. Clean(m)'
        BY <1>2, <3>5 DEF Clean
      <3> QED
        BY <1>5, <1>6, <1>10, <2>2, <3>4, <3>6 DEF OnlyOwn
    <2>7. CASE ~ Awaited(w)
      <3>1. mach'[m] = mach[m]
        BY <1>2, <2>7
      <3>2. OnlyOwn(m, t)'
        BY <1>1, <1>2, <2>4, <2>5, <3>1 DEF OnlyOwn
      <3>3. Clean(m)'
        BY <2>1, <3>1 DEF Clean
      <3> QED
        BY <1>5, <1>6, <1>10, <2>2, <3>2, <3>3 DEF OnlyOwn
    <2> QED
      BY <2>6, <2>7
  <1> QED
    BY <1>7, <1>8, <1>9, <1>10

LEMMA GiveUpOwn ==
    ASSUME BaseInv, OwnInv, NEW w \in sent, GiveUp(w)
    PROVE  OwnInv'
  <1>1. registry' = registry /\ sent' = sent \ {w} /\ targets' = targets /\ mach' = mach
    BY GiveUpStep DEF Moves, KeepsDisks
  <1> QED
    BY <1>1 DEF OwnInv, OwnIqn, On, Clean, AtHaven, Haven, OnlyOwn

-----------------------------------------------------------------------------
(* The theorem *)

LEMMA InitBoot == Init => BootInv
  <1> SUFFICES ASSUME Init PROVE BootInv
    OBVIOUS
  <1>1. BaseInv
    BY InitBase
  <1>2. /\ \A m \in Macs : mach[m].state = "off"
        /\ \A q \in Iqns : registry[q] = 0
        /\ sent = {}
    BY DEF Init
  <1> QED
    BY <1>1, <1>2 DEF BootInv, ApartInv, RegistryApart, OthersApart, HomesApart, AwaitInv,
                      OwnInv, OwnIqn, On

LEMMA NextBoot ==
    ASSUME BootInv, [Next]_vars
    PROVE  BootInv'
  <1>1. BaseInv /\ ApartInv /\ AwaitInv /\ OwnInv /\ BaseInv'
    BY NextBase DEF BootInv
  <1>2. ASSUME NEW m \in Macs, Boot(m) \/ Refetch(m)
        PROVE  ApartInv' /\ AwaitInv' /\ OwnInv'
    <2>1. Serves(m)
      BY <1>1, <1>2, BootServes DEF BaseInv
    <2> QED
      BY <1>1, <2>1, ServeApart, ServeAwait, ServeOwn
  <1>3. ASSUME NEW m \in Macs, Login(m)
        PROVE  ApartInv' /\ AwaitInv' /\ OwnInv'
    BY <1>1, <1>3, LoginApart, LoginAwait, LoginOwn
  <1>4. ASSUME NEW m \in Macs, Disconnect(m) \/ Crash(m)
        PROVE  ApartInv' /\ AwaitInv' /\ OwnInv'
    <2>1. Moves(m)
      BY <1>1, <1>4, LeaveStep
    <2> QED
      BY <1>1, <1>4, <2>1, MoveApart, LeaveAwait, LeaveOwn
  <1>5. ASSUME NEW m \in Macs, NEW l \in DOMAIN mach[m].sending, Send(m, l)
        PROVE  ApartInv' /\ AwaitInv' /\ OwnInv'
    <2>1. Moves(m)
      BY <1>1, <1>5, SendStep
    <2> QED
      BY <1>1, <1>5, <2>1, MoveApart, SendAwait, SendOwn
  <1>6. ASSUME NEW w \in sent, HandleWrite(w)
        PROVE  ApartInv' /\ AwaitInv' /\ OwnInv'
    <2>1. w.mac \in Macs /\ Moves(w.mac)
      BY <1>1, <1>6, HandleWriteStep
    <2>2. ApartInv'
      BY <1>1, <2>1, MoveApart
    <2> QED
      BY <1>1, <1>6, <2>2, HandleWriteAwait, HandleWriteOwn
  <1>7. ASSUME NEW w \in sent, GiveUp(w)
        PROVE  ApartInv' /\ AwaitInv' /\ OwnInv'
    <2>1. w.mac \in Macs /\ Moves(w.mac) /\ sent' = sent \ {w} /\ mach' = mach
      BY <1>1, <1>7, GiveUpStep
    <2>2. ApartInv'
      BY <1>1, <2>1, MoveApart
    <2>3. AwaitInv'
      BY <1>1, <2>1 DEF AwaitInv, Awaited
    <2> QED
      BY <1>1, <1>7, <2>2, <2>3, GiveUpOwn
  <1>8. ASSUME UNCHANGED vars
        PROVE  ApartInv' /\ AwaitInv' /\ OwnInv'
    <2>1. ApartInv'
      BY <1>1, <1>8 DEF vars, ApartInv, RegistryApart, OthersApart, HomesApart, OwnIqn, On
    <2>2. AwaitInv'
      BY <1>1, <1>8 DEF vars, AwaitInv, Awaited
    <2>3. OwnInv'
      BY <1>1, <1>8 DEF vars, OwnInv, OwnIqn, On, Clean, AtHaven, Haven, OnlyOwn
    <2> QED
      BY <2>1, <2>2, <2>3
  <1>9. ApartInv' /\ AwaitInv' /\ OwnInv'
    BY <1>2, <1>3, <1>4, <1>5, <1>6, <1>7, <1>8 DEF Next
  <1> QED
    BY <1>1, <1>9 DEF BootInv

\* For every validated configuration: a machine with an IQN of its own finds on its
\* home target nothing but its own writes, the last acknowledged one or one that
\* was unanswered when a connection was lost, whatever is fetched, registered
\* anew, still stored for lost connections, or crashes around it.
THEOREM OwnWrites == Spec => []SeesOwnWrites
  <1>1. Init => BootInv
    BY InitBoot
  <1>2. BootInv /\ [Next]_vars => BootInv'
    BY NextBoot
  <1>3. ASSUME BootInv PROVE SeesOwnWrites
    <2> SUFFICES ASSUME NEW m \in OwnIqn, mach[m].state = "up", mach[m].target = mach[m].home,
                        NEW l \in DOMAIN mach[m].may
                 PROVE  targets[mach[m].target].data[l] \in mach[m].may[l]
      BY DEF SeesOwnWrites
    <2>1. m \in Macs /\ On(m) /\ mach[m].home # 0
      BY <1>3 DEF BootInv, BaseInv, MachineInv, OwnIqn, On
    <2>2. Haven(m) = mach[m].target /\ AtHaven(m)
      BY <2>1 DEF Haven, AtHaven
    <2>3. OnlyOwn(m, mach[m].target)
      BY <1>3, <2>1, <2>2 DEF BootInv, OwnInv
    <2> QED
      BY <2>3 DEF OnlyOwn
  <1> QED
    BY <1>1, <1>2, <1>3, PTL DEF Spec

=============================================================================
