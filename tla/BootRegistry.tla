---------------------------- MODULE BootRegistry -----------------------------
(***************************************************************************)
(* The way of a client machine to its disks: the client manager resolves   *)
(* its MAC (manager/mod.rs), the HTTP server builds a target with fresh    *)
(* overlays and registers it (net/http/mod.rs, iscsi/registry.rs), and an  *)
(* iSCSI login takes what the registry holds then.  A connection keeps its *)
(* target (an Arc) when the name is registered again.  There is no session *)
(* reinstatement: the task of a connection that its machine has given up   *)
(* still carries out the writes in its buffer, next to a newer connection. *)
(*                                                                         *)
(* A LUN is one cell over a shared master: 0 while the overlay is empty,   *)
(* else the number of the last write to it; Volume shows that many cells   *)
(* behave alike.  The machines are not part of the repository: a machine   *)
(* fetches its script, logs in, writes, loses its connection and logs in   *)
(* again, crashes and boots again.                                         *)
(***************************************************************************)
EXTENDS Integers, Sequences, FiniteSets

CONSTANTS
    Macs,           \* MAC addresses of the machines, in lower case
    Names,          \* names clients may have
    NoMac,          \* the empty MAC of the default client
    Clients,        \* the [[client]] sections
    Defaults,       \* the [client_defaults] section, or None
    Stores,         \* the disks of type image or game: opened at startup
    None,
    MaxGets,        \* bound: HTTP requests
    MaxWrites       \* bound: writes of the machines

\* A section: the MAC as it is spelled, and the disks.
Profile == [system : Stores, games : Seq(Stores)]

Section == [mac : Macs, spelling : {"lower", "upper"}, name : Names \cup {None},
            system : Stores, games : Seq(Stores)]

\* What config::validate accepts: every reference is to a disk of the right
\* type, and no MAC is spelled twice in the same way.
Validated ==
    /\ Clients \in Seq(Section)
    /\ \A i, j \in DOMAIN Clients :
          Clients[i].mac = Clients[j].mac /\ Clients[i].spelling = Clients[j].spelling => i = j
    /\ Defaults \in Profile \cup {None}

ASSUME ConfigAssumption == Validated

ASSUME NamesAssumption ==
    /\ NoMac \notin Macs \cup Names
    /\ Macs \cap Names = {}
    /\ None \notin Macs \cup Names \cup {NoMac} \cup Profile

VARIABLES
    registry,   \* IQN -> the number of its target, 0 for none
    targets,    \* every target built: its disks and the overlay of each LUN
    mach,       \* per MAC: the machine
    sent,       \* writes in the buffers of the connections, old ones included
    gets, writes

vars == <<registry, targets, mach, sent, gets, writes>>

-----------------------------------------------------------------------------
(* The client manager *)

\* ClientManager::new: the sections by lower-case MAC, where a later one
\* replaces an earlier one, and a default client without MAC and name.
SectionsOf(m) == {i \in DOMAIN Clients : Clients[i].mac = m}

ClientOf(section) ==
    [mac |-> section.mac, name |-> section.name, system |-> section.system, games |-> section.games]

DefaultClient == [mac |-> NoMac, name |-> None, system |-> Defaults.system, games |-> Defaults.games]

\* Mutant of Resolve: the first section in any spelling is kept.
ResolveFirst(m) ==
    IF SectionsOf(m) # {}
    THEN ClientOf(Clients[CHOOSE i \in SectionsOf(m) : \A j \in SectionsOf(m) : i <= j])
    ELSE IF Defaults # None THEN DefaultClient ELSE None

\* ClientManager::resolve
Resolve(m) ==
    IF SectionsOf(m) # {}
    THEN ClientOf(Clients[CHOOSE i \in SectionsOf(m) : \A j \in SectionsOf(m) : j <= i])
    ELSE IF Defaults # None THEN DefaultClient ELSE None

-----------------------------------------------------------------------------
(* The HTTP server *)

\* client_iqn: the name if there is one, else the MAC.
ClientIqn(c) == IF c.name # None THEN c.name ELSE c.mac

Iqns == Names \cup Macs \cup {NoMac}

\* LUN 0 is the system disk, the games follow; get_store finds all the disks of
\* a section that was validated.
LunsOf(c) == <<c.system>> \o c.games

Fresh(disks) == [disks |-> disks, data |-> [l \in DOMAIN disks |-> 0]]

\* Mutant of Insert: a name that is registered keeps its target.
InsertOnce(iqn, t) == IF registry[iqn] = 0 THEN [registry EXCEPT ![iqn] = t] ELSE registry

\* TargetRegistry::insert
Insert(iqn, t) == [registry EXCEPT ![iqn] = t]

\* handle: GET /boot.ipxe?mac=..., answered with the script for the IQN.  A
\* request that is answered 400 or 404 changes nothing.
Handle(m) ==
    LET c == Resolve(m)
    IN  /\ c # None
        /\ gets < MaxGets
        /\ gets' = gets + 1
        /\ targets' = Append(targets, Fresh(LunsOf(c)))
        /\ registry' = Insert(ClientIqn(c), Len(targets) + 1)

-----------------------------------------------------------------------------
(* The machines and their connections *)

\* A machine boots: iPXE fetches the script, and the disks it will see are
\* clean.  Of each LUN the machine knows what it may find there, and the write
\* it has sent and has no answer to, 0 for none.
Boot(m) ==
    LET disks == LunsOf(Resolve(m))
    IN  /\ mach[m].state = "off"
        /\ Handle(m)
        /\ mach' = [mach EXCEPT ![m] = [state |-> "scripted", iqn |-> ClientIqn(Resolve(m)),
                                        target |-> 0, home |-> 0,
                                        may |-> [l \in DOMAIN disks |-> {0}],
                                        sending |-> [l \in DOMAIN disks |-> 0]]]
        /\ UNCHANGED <<sent, writes>>

\* The script is fetched once more, at any time: a retry of iPXE, or someone's
\* diagnosis with curl.
Refetch(m) ==
    /\ Handle(m)
    /\ UNCHANGED <<mach, sent, writes>>

\* The login of a connection: handle_login looks its TargetName up.  The first
\* target since the machine booted is its home.
Login(m) ==
    LET t == registry[mach[m].iqn]
    IN  /\ mach[m].state = "scripted"
        /\ t # 0
        /\ mach' = [mach EXCEPT ![m].state = "up", ![m].target = t,
                                ![m].home = IF @ = 0 THEN t ELSE @]
        /\ UNCHANGED <<registry, targets, sent, gets, writes>>

\* The machine sends a write to LUN l; it does not let two of them overlap.
Send(m, l) ==
    /\ mach[m].state = "up"
    /\ writes < MaxWrites
    /\ writes' = writes + 1
    /\ mach[m].sending[l] = 0
    /\ sent' = sent \cup {[mac |-> m, target |-> mach[m].target, lun |-> l, val |-> writes']}
    /\ mach' = [mach EXCEPT ![m].sending[l] = writes', ![m].may[l] = @ \cup {writes'}]
    /\ UNCHANGED <<registry, targets, gets>>

\* Write number v goes into the overlay of LUN l of target t.
Store(t, l, v) == targets' = [targets EXCEPT ![t].data[l] = v]

\* What connections given up earlier may still store in a LUN.
Overdue(w) == {u.val : u \in {u \in sent : u # w /\ u.target = w.target /\ u.lun = w.lun}}

\* The machine still waits for the answer.
Awaited(w) == w.lun \in DOMAIN mach[w.mac].sending /\ mach[w.mac].sending[w.lun] = w.val

\* The task of a connection handles a write in its buffer.  If the machine is
\* still there it learns that the write is done, and that its LUN holds this
\* write, or one that is overdue on a connection it has given up.
HandleWrite(w) ==
    /\ Store(w.target, w.lun, w.val)
    /\ sent' = sent \ {w}
    /\ mach' = IF Awaited(w)
               THEN [mach EXCEPT ![w.mac].sending[w.lun] = 0,
                                 ![w.mac].may[w.lun] = {w.val} \cup Overdue(w)]
               ELSE mach
    /\ UNCHANGED <<registry, gets, writes>>

\* The connection is lost with what it has in its buffer; the machine runs on,
\* and logs in again.
Disconnect(m) ==
    /\ mach[m].state = "up"
    /\ mach' = [mach EXCEPT ![m].state = "scripted", ![m].target = 0,
                            ![m].sending = [l \in DOMAIN @ |-> 0]]
    /\ UNCHANGED <<registry, targets, sent, gets, writes>>

\* The machine loses power.
Crash(m) ==
    /\ mach[m].state # "off"
    /\ mach' = [mach EXCEPT ![m].state = "off", ![m].target = 0,
                            ![m].sending = [l \in DOMAIN @ |-> 0]]
    /\ UNCHANGED <<registry, targets, sent, gets, writes>>

\* The task of a connection that is given up reads the end of file, or an
\* error, before all that was sent has reached it.
GiveUp(w) ==
    /\ ~Awaited(w)
    /\ sent' = sent \ {w}
    /\ UNCHANGED <<registry, targets, mach, gets, writes>>

Init ==
    /\ registry = [q \in Iqns |-> 0]
    /\ targets = <<>>
    /\ mach = [m \in Macs |-> [state |-> "off", iqn |-> NoMac, target |-> 0, home |-> 0,
                               may |-> <<>>, sending |-> <<>>]]
    /\ sent = {}
    /\ gets = 0
    /\ writes = 0

Next ==
    \/ \E m \in Macs : \/ Boot(m) \/ Refetch(m) \/ Login(m) \/ Disconnect(m) \/ Crash(m)
                       \/ \E l \in DOMAIN mach[m].sending : Send(m, l)
    \/ \E w \in sent : HandleWrite(w) \/ GiveUp(w)

Spec == Init /\ [][Next]_vars

-----------------------------------------------------------------------------
(* Properties *)

\* Machines that are told the same IQN are served the same disks: true of all
\* machines on the defaults, and where no two client names are the same.
IqnsAgree ==
    \A m, n \in Macs :
        /\ Resolve(m) # None /\ Resolve(n) # None
        /\ ClientIqn(Resolve(m)) = ClientIqn(Resolve(n))
        => LunsOf(Resolve(m)) = LunsOf(Resolve(n))

\* The machines that are served and share their IQN with no other.
OwnIqn ==
    {m \in Macs : /\ Resolve(m) # None
                  /\ \A n \in Macs \ {m} : Resolve(n) # None =>
                         ClientIqn(Resolve(m)) # ClientIqn(Resolve(n))}

\* A machine with an IQN of its own finds on its home target, over a clean
\* master, its own last acknowledged write and nothing else, but for writes of
\* its own that were unanswered when it lost a connection since it booted:
\* nothing of another machine or of an earlier boot, nothing lost when it
\* reconnects or when its name is registered anew.
SeesOwnWrites ==
    \A m \in OwnIqn : mach[m].state = "up" /\ mach[m].target = mach[m].home =>
        \A l \in DOMAIN mach[m].may : targets[mach[m].target].data[l] \in mach[m].may[l]

\* A machine that is up has the disks of the last section for its MAC, however
\* that spells it, and those of the defaults if there is none: two spellings of
\* a MAC pass validation, and only one section is in the client manager.
SeesOwnDisks ==
    \A m \in Macs : mach[m].state = "up" =>
        LET disks == targets[mach[m].target].disks
            named == {i \in DOMAIN Clients : Clients[i].mac = m}
        IN  /\ \A i \in named :
                   (\A j \in named : i <= j => i = j) =>
                       disks = <<Clients[i].system>> \o Clients[i].games
            /\ named = {} => disks = <<Defaults.system>> \o Defaults.games

=============================================================================
