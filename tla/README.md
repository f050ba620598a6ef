# XBoot: a verification development

XBoot (`src/`) is a diskless-boot server in Rust on the tokio runtime. A client
machine is served in four stages: proxyDHCP tells its PXE ROM where to boot
from, TFTP hands it the iPXE binary, HTTP hands iPXE a script
(`GET /boot.ipxe?mac=...`) and at the same moment builds and registers an iSCSI
target with fresh copy-on-write overlays over shared, read-only master images,
and iSCSI serves the disks for as long as the machine runs. Nothing is
persisted: all writes of a machine live in RAM overlays and vanish with the
target.

This directory holds TLA+ modules that model the server's stateful parts, TLC
configurations that check them on small instances, and TLAPS proofs of their
main invariants and refinements for all parameters. Paths below are relative to
`src/crates/xboot-core/src/`.

## 1. Inventory

| Component | State it keeps | Operations | What is hard | What makes it correct |
|---|---|---|---|---|
| Copy-on-write volume (`volume/`) | map of overlay blocks behind an `RwLock`; the master | `read_at`, `write_at`, `reset` | `&self` methods called by several connection tasks; one lock acquisition per block, so a call is many steps; read-modify-write of partly covered blocks; short tail block; errors of the master in mid-call | behaves as a flat disk of bytes |
| Block cache (`cache/mod.rs`) | LRU map and `current_bytes` behind a `Mutex` | `read_at` with lookup, fetch outside the lock, put, evict | two readers miss the same block; accounting and eviction at the budget | transparent; exact accounting; budget held; the block just inserted survives |
| iSCSI session (`iscsi/session/`) | stage, negotiated parameters, target, `stat_sn`, `exp_cmd_sn`, writes in flight | one handler per request PDU | any order of requests; R2T and Data-Out of several writes interleave; aborts; wrapping serial numbers | data stored and read is what was acknowledged; StatSN in order; the window stays open; every command ends; no panic |
| iSCSI transport (`iscsi/transport.rs`) | receive buffer and socket of a connection | accept, drain loop, write-out, close | the connection is lost with requests and responses on their way; back-pressure | see session |
| SCSI target (`iscsi/scsi/`) | logical units, each with its volume and serial | execution of a CDB | LUN addressing, capacity beyond 32 bits, ranges at the end of the disk and of the integers, two sizes of command for the same blocks, medium errors | discovery and capacity are what is served; bytes land where they were sent; sense data name the true cause |
| PDU codec (`iscsi/pdu.rs`, `iscsi/text.rs`) | none | parse, encode | byte layout (property-tested in the repository) | round trips |
| Registry, manager, HTTP server (`iscsi/registry.rs`, `manager/`, `net/http/`) | IQN to target; clients by MAC; opened images | resolve, insert, lookup | a name is registered anew while connections still hold the old target; late writes of a machine that is gone; machines that share a name | a machine sees its disks, and on them exactly its own writes |
| TFTP server (`net/tftp/`) | per transfer: block number, retries, block size | request, option negotiation, transfer loop | loss, duplication, reordering, timeouts racing late answers, repeated requests, u16 wrap | the client gets exactly the file; transfers end |
| proxyDHCP (`net/dhcp/`) | none | a reply per datagram, two listeners | firmware and iPXE of one machine ask one after the other, answers are lost and late; other hosts on the network; errors that end the listener | a machine gets from its firmware to its own script; nobody else is disturbed |
| VHD/VHDX/raw images (`storage/`) | parsed tables of an image | open, `read_at`, chain of increments, flatten | layers over their parents, in any directory order; partial sectors, block boundaries, interleaved tables; a flatten that fails or is killed | reads give the bytes last written; a flattened image is the input; what a crash leaves behind shows nothing foreign |
| Configuration (`config/`) | none | load, validate | what passes validation and still is ambiguous | later stages may rely on it |
| Program (`xboot/src/main.rs`) | cancellation token, service tasks | start, shutdown, `flatten` | the first service to end ends all, at any moment | it serves with all of its disks and services or not at all |

Interactions: the HTTP handler calls the manager (shared, immutable after
start) and writes the registry (`RwLock`); the session's login handler reads the
registry and keeps an `Arc` of the target; session handlers call the SCSI
target, which calls the volumes, which call the image's `BlockStore`. DHCP, TFTP
and HTTP do not share mutable state. `CachedStore` is built, tested and
documented, but no code of the server constructs one (the `ram_cache` setting of
a disk is parsed and not used).

`PROJECT.json` lists the hazards found in this survey, each at its line, with
the properties that cover it.

## 2. Modules

| Module | Models | Composition |
|---|---|---|
| `FlatDisk` | abstract: a disk of bytes that concurrent callers read and write chunk by chunk | instantiated by `Volume` and `BlockCache` |
| `BlockGeometry` | block arithmetic of `volume/mod.rs` and `cache/mod.rs` | extended by both |
| `Volume` | the overlay and the calls in progress, one per thread | refines `FlatDisk` |
| `BlockCache` | the LRU and the reads in progress | refines a read-only `FlatDisk` |
| `IscsiTarget` | one connection of the target with its disk, against any peer | extended by `IscsiSession` |
| `IscsiSession` | the same target with a conforming initiator over TCP | extends `IscsiTarget` |
| `TftpTransfer` | the server's transfers, the network, and a client | |
| `BootRegistry` | manager, HTTP handler, registry, and the life of machines and connections | |
| `ScsiTarget` | the logical units of one target and every command on them, with an initiator that finds, measures and uses them | |
| `Images` | opening and reading of raw, VHD and VHDX files and of increment chains, as operators | extended by `Flatten` |
| `ImageFixtures` | how the programs that write such files lay them out (not in the repository; the test fixtures of `storage/` do the same) | extended by `MCFlatten` |
| `Flatten` | `xboot flatten`: open, read, and write a dynamic VHD, write by write | extends `Images` |
| `Program` | `main`: configuration, validation, client manager, services, shutdown | extended by `Netboot` |
| `ProxyDhcp` | `decide.rs` and `server.rs` of proxyDHCP, as operators | extended by `Netboot` |
| `Netboot` | the running program, the DHCP service, a lossy network and a PXE machine from power-on to its script | extends `Program` and `ProxyDhcp` |
| `MC...` | values of the constants for TLC | extend the module they are named after |
| `...Proofs` | theorems about the module they are named after (`IscsiProofs`: `IscsiTarget` and `IscsiSession`; `FlattenProofs`: `Images` and `Flatten`) | extend it and `TLAPS` |

How they correspond to the code (the exact lines are in `PROJECT.json`, "map"):

- **Volume.** A thread is a connection inside `read_at` or `write_at`; `pos` and
  `end` are the loop's cursor. A step is what happens under one acquisition of
  the overlay's lock: a block read from the overlay or else the master, a whole
  block written, or, for a partly covered block, the read into a private copy
  (`rmw`) and, as a second step, the write-back. Reset drops all overlay blocks
  when no call is in progress: only tests call it, in that way. A read of the master may fail and ends the call with an error.
- **BlockCache.** The steps of a read are lookup (under the lock), fetch (without
  it), put, each eviction, and unlock. Recency is a relation between blocks
  instead of the LRU's list. The hit and miss counters are left out.
- **IscsiTarget.** `Handle(req)` is `Connection::handle` together with the
  transport's write-out of its responses, one action per kind of request, with
  the guards, early returns and rejects of the handlers. `SnMod` stands for
  2^32. A cell is a block of the disk and also a unit of data segments; a
  payload is a sequence of cell values. Medium errors may hit any access.
  `SockCap` bounds the responses on their way (`write_all` waits).
- **IscsiSession.** The initiator is not in the repository. It is modelled from
  RFC 7143 as the code relies on it: one collapsed login, commands within the
  window, no overlapping commands, aborts, logout, a lost connection and a new
  login. It answers every R2T, in the order they come, with Data-Out PDUs of one
  of the sizes in `Segments`. The target never declares MaxRecvDataSegmentLength,
  so PDUs of at most 8192 bytes are the rule, against R2Ts of up to 262144; the
  target answers each of them with an R2T of its own, and counts bytes. So data
  comes twice, and a Data-Out whose write has been completed meanwhile is
  rejected. This initiator goes on after a Reject; one that gave up the connection
  would lose what `Lose` loses. Each write carries the number of its command, so that no two
  writes can be mistaken for each other. `may` is the set of values the initiator
  may expect in a cell. It is the written value where `Exact` holds: the data
  still missing after the command fits one R2T, or a PDU carries a whole burst.
  For any other write `may` admits blanks too, bytes that nobody sent: what the
  target then stores is the finding of `iscsi_short_segments`.
- **TftpTransfer.** `srv[t]` holds the locals of `transfer_blocks` for the task on
  socket `t`. The datagrams on their way are a bag. A byte of the file is its own
  offset, so any wrong slice shows. The timeout is a function of the retries and
  is left out. The client follows RFC 1350 and takes the first socket that
  answers for its server.
- **BootRegistry.** A target is a number with its disks and one cell per LUN. A
  machine boots, logs in, writes, loses its connection and logs in again, crashes
  with a write on its way; its script may be fetched again by anyone at any time.
  `home` is the first target a machine logs in to after its boot. `sent` holds
  the writes in the buffers of all connections, those included that a machine has
  lost: there is no session reinstatement, so the task of such a connection still
  stores what it has read (`HandleWrite`), at any time and next to the new
  connection, until it finds the end of file (`GiveUp`). `may` is what a machine
  may find in a LUN: its last acknowledged write, or one of its own that had no
  answer when it lost a connection.

- **ScsiTarget.** `Execute` is `execute` and `dispatch`, `WriteRefusals` and
  `Stored` are `cdb::write`. A page is its payload, the length it has and the
  length it declares. The initiator issues any command to any LUN field, and in
  between finds the LUNs by REPORT LUNS, their capacity by READ CAPACITY (10,
  and 16 if the answer is all ones), and reads and writes them in both sizes.
  `expect` holds what it may find in a byte: after a write that the medium
  failed, old or new contents.
- **Images.** A file is a sequence of sectors, and a sector a record that says
  what is stored there: data, or a structure with the fields the code reads.
  `OpenBacking` is `open_backing` with all refusals, `ReadAt` the `read_at` of
  each kind of store, `ReadUnits` the shared loop of `blockmap.rs`,
  `FindIncrements` the search in the directory, whose order is an argument. A
  byte of a structure that is read as data shows as `MetaByte`.
- **Flatten.** One action per `write_all`; each may fail after some of its
  sectors, and the process may be killed between or within any of them. A failed
  run removes its output, which may fail too. A source carries the bytes the
  guest last left on the disk (`view`), computed by `ImageFixtures` from the
  history of writes and not from the files.
- **Program.** `Validate` gives the kinds of errors `validate` collects;
  `Load`, `Start` and `Exit` are the stages of `main`; a service is spawned,
  binds or fails to, serves, and ends by an error or by the token. A file name in
  the configuration is a name with its form.
- **ProxyDhcp, Netboot.** `Plan` and `HandleDatagram` are the functions of those
  names. The machine is not in the repository: firmware that asks on port 67 and
  then there or on 4011, loads the file it is told, which is iPXE, asks again
  with a user class and fetches its script. It repeats itself while nobody
  answers, and may be switched off at any time. Other hosts ask too (`Strays`).
  An address is its last octet, the other three being the server's. Without the
  broadcast flag a reply goes back to where the request came from (`Sent`): it
  arrives if that is an address (`addressed`), and is lost if it is 0.0.0.0.

Integers that matter keep their width: `SnMod` for serial numbers, `BlockMod` for
TFTP block numbers, `U16`, `U32`, `U64` and `LunByte` for the fields of a CDB.

## 3. Runs

Runs marked (v) end with a violation: the code does not do what a doc or comment
of the repository says (section 6).

| Run | Shows |
|---|---|
| `volume_disjoint` | Two threads that share no block in their writes, with reads that cross everything, resets and master errors: the block in `rmw` is never stale, the volume implements the flat disk, and every call returns. |
| `volume_shared_block` (v) | Two writers of different bytes of one block: one undoes the other. |
| `cache` | Two readers of overlapping ranges and a cache of two blocks: byte accounting, budget, survival of the inserted block, transparency. |
| `iscsi_any_peer` | Any sequence of well-formed and malformed requests, in any stage: a pending write always lacks data (no underflow), a connection that executes commands has a target (no panic), no R2T exceeds the burst in force. |
| `iscsi_session` | With Data-Out PDUs as long as a burst, and with shorter ones: no command is forgotten, though some of its PDUs come too late and are rejected; the disk and the reads are what was acknowledged, also across aborts, medium errors and a lost connection; StatSN is in order across the wrap; the window is open at rest; every command ends. |
| `iscsi_short_segments` (v) | A write of two bursts, each sent in two Data-Out PDUs: bytes nobody sent are stored. |
| `tftp_safety` | All kinds of requests and refusals, loss, duplication, reordering, repeated requests, socket errors, a client that vanishes: the client holds a prefix of the file, all of it when done; the server counts success only then; server and client stay within one block of each other. |
| `tftp_liveness` | Every transfer ends; without options, on a network faster than the timeouts, the file arrives. |
| `boot_registry` | Two machines with sections of their own and two on the defaults, who share an IQN; three fetches of scripts, two writes: a machine has the disks of the last section for its MAC, or of the defaults; one with an IQN of its own finds on its home target its last acknowledged write or one that was unanswered when it lost a connection, and nothing else. |
| `images` | Raw files, fixed and dynamic VHDs, chains of two increments, VHDX files, sound and damaged (VHDX files also with the newer or the older header cut off, or the first region table), in every directory order: a sound image opens and every range of it reads what the guest last left there; a flatten that reports success has produced the same disk; one that was killed leaves an image that shows the input's bytes or zeros; one that reports failure leaves nothing, and never touches an older file. |
| `scsi` | LUNs and capacities that an initiator finds are those it can use; reads give what was written, in either command size; refusals name the true cause and pages their true length; no step changes a byte it was not sent to. |
| `netboot` | With 18 configurations, 17 of them bad in one way each: whoever is served finds all disks open; a machine loads one binary and then its own script, and gets there although datagrams are lost; hosts that are no PXE clients are left alone on either port; the program never goes on without one of its services. |

### Bounds, and why they are enough

- Volume and cache: blocks of 2 bytes and a disk of 5 or 7, so there are whole
  blocks, a short tail, and ranges that start inside, cross, cover and end in
  them. The proofs remove the bounds.
- iSCSI: a disk of 3 cells and bursts of 2, so a write takes two R2Ts, or one
  after immediate data; PDUs of one cell and of two, shorter than a burst and as
  long; three ranges, two of them apart, so that two commands are in progress at
  once and a tag is used again while data of its last command is on its way; two
  commands, which the window of 1 lets out together; serial numbers modulo 8 that
  start at 6, so that they wrap; one abort, one Nop-Out, one reconnection. The
  proofs remove all of these bounds.
- TFTP: a file of two full blocks and the empty one that ends it (or, with the
  block size 3, a full and a short one), in `tftp_liveness` of four and the empty
  one; block numbers just suffice (modulo 4 and 6), so that the last block has
  the highest; two sockets, so that a repeated request
  is served in parallel; one loss, one duplicate, one socket error. In
  `tftp_liveness` the retries (3) equal losses (2) and duplicates (1) together,
  and that is tight: with one retry fewer TLC finds a transfer that is given up.
- Boot: four machines, three fetches and two writes admit: boot, write, lose the
  connection, log in again, write, and the first write stored before or after the
  second; boot, write, crash, boot again with the late write on its way; a fetch
  by another, or of the same script, in between. The proofs remove the bounds.
- Images: sectors of 2 bytes, disks of 4 sectors, blocks of 2 or 4, and two
  increments numbered 2 and 10 (so that their order as text is the wrong one)
  with all sets of written sectors; a VHDX of 3 blocks in all states with a
  sector bitmap entry after every second; all ranges of bytes. Raw disks of 0, 1,
  2, 7 and 8 bytes make last blocks that are short. A BAT entry has 64 values,
  more than any copy has sectors. Two layers, two blocks and
  one boundary of each kind are what the code tells apart.
- SCSI: 32-bit fields have 4 values and 64-bit ones 16, blocks 2 bytes: one
  system disk has 5 blocks and a short tail, more than 32 bits can number, the
  other 4, whose last block is the all-ones value; the LUN byte has 3 values for
  2 LUNs. The IQN has 231 bytes, with which the designator's length is 255.
- Netboot: two exchanges, one of the firmware and one of iPXE, are a boot, and two
  datagrams of the machine on their way let a late answer meet the next request.
  With `MaxXid = 2` a second binary cannot be loaded in the run, so the first
  clause of `ChainloadEnds` rests on its theorem, for any number of exchanges; the
  others, what a machine holds after its binary, are reached.
  One MAC ends in 1 and one in 255, the ends of the range that is moved.

`CHECK_DEADLOCK FALSE` stands where the bounds, or the end of the work, stop the
system; Volume, cache, `iscsi_any_peer` and `scsi` can always go on and are checked
for deadlock. A flatten ends, and `netboot` ends with the program. `tftp_safety` uses the
symmetry of its two sockets and `boot_registry` that of its two machines on the
defaults; they check no liveness.

### Fairness

- Volume: weak fairness of each thread's steps. Locks are held for one step and
  the runtime schedules every task.
- IscsiSession: weak fairness of the target's handling and closing (the
  connection's task is woken when it has input or its peer is gone), and of the
  initiator's reading. The initiator is never obliged to send a command.
- TftpTransfer: weak fairness of the server's timers, of the arrival of
  datagrams that are not lost, and of the client's timeout while its patience
  lasts.
- Netboot: weak fairness of main and of the services (the runtime schedules them,
  and a cancelled token wakes them), of the machine's repetitions and progress
  while it is on; strong fairness of the arrival of the machine's current request
  and of its answer: a datagram that is sent again and again is received at last.
  Losses are otherwise unbounded, and nothing obliges a machine to be switched on.

## 4. Proofs

TLAPS proves, for every value of the constants under the assumptions named in
the modules:

- `VolumeProofs`: `TypeCorrect`; and, if no two threads write a common block
  (`DisjointWriters`), `VolumeIsFlatDisk`. Without the hypothesis the refinement
  is false (`volume_shared_block`). The inductive invariant says, besides types,
  that a thread in the middle of a read-modify-write has in its private copy what
  the overlay or the master holds for that block now (`RmwFresh`). Only another
  thread's write of the same block could disturb it, and the hypothesis excludes
  that. The refinement maps the overlay over the master to the disk and each loop
  iteration to one chunk of the abstract call.
- `BlockCacheProofs`: `TypeCorrect`, `AccountingExact`, `BudgetRespected`,
  `InsertionSurvives`, `CacheIsTransparent`. The inductive invariant `CacheInv`
  adds to them that cached blocks are the master's (`Contents`), that while a
  reader holds the lock its block is the newest (`Newest`), and that no larger
  block than the budget is inserted (`Fits`). `InsertionSurvives` follows because
  the oldest of at least two blocks is not the newest, and a cache that holds one
  block that fits is not over budget. Accounting is proved over cardinalities of
  byte sets, one insertion or eviction at a time.
- `IscsiProofs`, in three parts. Against any peer whatever: `TypeCorrect`,
  `TargetAlwaysResolved`, `R2tAlwaysInBurst`. The invariant `TargetInv`
  strengthens `TargetResolved` (a connection in FullFeature, or with a write
  pending, has a target) and `R2tInBurst` by the absence of R2Ts during login,
  needed because a login may lower the burst under which an R2T was sent.

  With a conforming initiator: `StatSnAlwaysInOrder` and, for one that marks its
  Nop-Outs for immediate delivery (`NopImmediate`; false without it, section 6),
  `WindowAlwaysOpens`. The invariant `CoreInv` says in which stages the two
  sides may be together, that the responses on their way count the StatSN on
  from the one the initiator expects to the target's next, that the last of them
  carries the target's MaxCmdSN, and that the requests on their way count the
  CmdSN on from the target's ExpCmdSN to the initiator's next. All counting is
  modulo `SnMod`, of which no more is assumed than that the queue depth is less
  than half of it (`WindowAssumption`: 16 against 2^31).

  Whatever sizes of Data-Out PDUs the initiator uses (`Segments`), also many to a
  burst: `NothingForgottenAlways`, `AlwaysStoredAsAcknowledged` and
  `AlwaysReadsAsAcknowledged`, with no hypothesis. The invariant `FlowInv` treats
  the responses and behind them the requests on their way as one pipeline
  (`Ordered`, `Ahead`): a command has at most one request, status or final
  Data-In PDU there, and no work on it follows that, or the confirmation of its
  abort. So a tag that is free has nothing left on its way but Data-Out PDUs that
  the target has no write for. It also says what each PDU carries (`RxOk`,
  `TxOk`), and for a pending write whose data is on its way or asked for (`Held`)
  one of two things. A write that is not gathered exactly (`Scattered`) holds the
  written value or blanks, which its `after` admits. Any other (`InOrder`) has all
  bytes up to the count filled (`Filled`), and its Data-Out PDUs continue it in
  order (`Chain`): the first starts at the count, each of the others where one
  before it ends, until one reaches the end of the write; what comes behind that
  was sent again and will find no write. Such a write goes on in one of three
  ways: the PDU that reaches its end is on its way (`Finishing`), one R2T is
  (`OneAsked`), or, where a PDU carries a burst, one PDU is (`OneSent`).
  `PursuedInv` turns this into `NothingForgotten`: a PDU that is rejected belongs
  to a write that has been carried out, so that its status is on its way or has
  come. When the connection is lost, requests already received are still handled,
  with no task to belong to: they carry something the initiator may find there
  afterwards (`Sent`). The tasks are apart on the disk (`TaskInv`), so that the
  end of one does not change what another may find.
- `BootRegistryProofs`: `DisksOfSection` and `OwnWrites`, for any number of
  machines, fetches and writes. `DisksOfSection` has a hypothesis on the
  configuration and is false without it, `IqnsAgree`: clients with one
  IQN have the same disks. Two clients of the same name and different disks pass
  the validation, and the later fetch decides which of them a login finds. The
  checked configuration satisfies it (`MCAssumption`), machines on the defaults
  included. `OwnWrites` has none: it speaks of the machines with an IQN of their
  own (`OwnIqn`) among any others. The inductive invariant `BootInv` turns on the
  *haven* of a machine: its home target or, before its first login, the target it
  will find. As long as a machine can get to its haven, what that holds, and what
  every write on its way to it will put there, is something the machine may find
  (`OwnInv`): its own writes, on whatever connection they were sent. That nobody
  else writes there follows from `ApartInv`: nobody else is connected there, and
  no target is registered twice. Writes of an earlier boot stay with the target
  they were sent to, and a boot moves the haven to a fresh one.
- `ScsiTargetProofs`: `ReadsCorrect`, `TruthfulAnswers`, `DiscoveryCorrect` and
  the action property `NamedBytesOnly`, for every width of the fields, block size
  and set of disks. The invariant `TargetInv` says that the logical units stay
  those of the client, that what discovery has found is nothing or all of them,
  that a known capacity is the right one, and that every byte of a disk is one
  that the initiator expects there; a read is then right because the range that
  it names, of either size, is the range that is compared. Assumed are the
  limits section 5 names, and that a disk's size is a u64.
- `NetbootProofs`: `ClientsDisksOpen`, `ChainloadTerminates` and `OthersIgnored`, for every configuration file, any strays and any number of
  exchanges. `NetbootInv` has three parts: a program that has loaded its
  configuration has validated it and one that runs has opened its disks
  (`ProgramInv`); what the machine holds at each stage (`PcInv`); and what is on
  the network (`NetInv`): any datagram is a request of the machine, an answer to
  it, or an answer to a stray that asks for a boot. Answers with an older number
  may carry either boot file, those with the current one carry the file of the
  stage that runs; that the machine takes a new number when its stage changes is
  what breaks the loop. `ClientsDisksOpen` rests on the lemma that a profile that
  `CheckProfile` passes names only disks that `OpenStores` opens
  (`ProfileOpens`). Assumed are that hardware addresses are unique and that the
  binaries name themselves in their user class, as iPXE does.
- `TftpTransferProofs`: `TypeCorrect`, `ClientHoldsFile`, `DeliveredOnSuccess` and
  `ServerClientLockstep`, for every file, block size, set of sockets and number of
  losses and duplicates. `TftpInv` says that the client's bytes are those of the
  blocks up to the one it has acknowledged last; that the server of the client is
  at that block or the next, and the other transfers, which nobody acknowledges,
  are still at their first; and that an ACK on its way is one of a block the
  client holds, and DATA the slice of the file that its number and transfer say. No bound on the file is
  assumed: at the end of the block numbers the task panics before it sends
  a second block 0, so no number ever stands for two blocks of one transfer.

- `FlattenProofs`: `ReadsSplit`, `DirectoryOrder`, `FlattenExactly`,
  `NothingForeign` and `PathLeftAsFound`, for any image files, increments, VHD
  geometry and BAT, in three parts.

  *Reading.* `StoresOpen`: whatever the files contain, a store that
  `open_backing` accepts has tables whose lookups give an offset, a hole or an
  error. `ReadsSplit`: such a store reads any range as its bytes one by one,
  whatever sectors, blocks and layers the range crosses, and fails exactly if one
  of them cannot be read. That is an induction over the loops of `read_units` and
  `ChainedVhd::read_at` (`FillPart`), done by a least counterexample.
  `DirectoryOrder`: if no two increments of an image have the same number, the
  same store is opened whatever the order of the directory, because
  `FindIncrements` returns the one sequence of them whose numbers ascend. That the
  single bytes of a sound image are those the guest left (`ReadsExact`) is not
  proved: it is a matter of how the files are laid out, and `images` checks it for
  the layouts of `ImageFixtures`.

  *Failing.* The invariant `Shell`: until the input is open, and whenever there
  was an older file, what is at the output path is what was there; the source of
  a writer is a store that can be read. It needs no hypothesis.

  *Writing.* The invariant `Work` says what is in the file at every step. The
  properties speak of finished or abandoned files only and are far from
  inductive: what a file shows depends on the head, each bitmap, each block and
  the BAT, written at different times. While the loop runs there is the head with
  an empty BAT and no footer at the end, the blocks read so far are stored at the
  sectors that `bat` has for them or are zero (`Progress`), and
  `next_block_sector` is the length of the file. A file left behind is one that
  does not open as a VHD (`Draft`), or a complete one with a first part of its
  BAT (`Left`). Appending, and writing over the BAT, disturb no stored block
  (`StoredKept`). `ImageOpens` and `ImageByte` then read the file with the
  operators that read any image, and find each byte zero, in a hole, or the
  input's. The hypothesis of this part, `SourcesFit`, is that the sectors of the
  copy can be counted in 32 bits; without it the theorems are false (section 6).
  The checked configuration satisfies it (`MCAssumption`).

The inductive invariants were checked by TLC as invariants of the runs'
configurations before they were proved.

Only model-checked: all liveness (`CallsReturn`, `CommandsEnd`, `TransfersEnd`,
`FileArrives`, `NeverHalfServing`, `BootReachesScript`: out of the prover's
reach); `RmwFresh`, which the proof of `VolumeIsFlatDisk` uses as an invariant of
disjoint writers and which is no result of its own; and `ReadsExact`, for the
files that the fixtures lay out.

## 5. Not modelled, and why

- Byte layouts (PDU, DHCP, TFTP packets, image headers), texts and logging: no
  state; the repository tests them with examples and property tests.
- The bytes of INQUIRY, MODE SENSE and similar pages; modelled are what they tell
  and their lengths.
- TOML, the parsing of sizes (`config/size.rs`), the command line, `dumpranges`
  and `probe`, the variables `XBOOT_NO_CHAIN` and `XBOOT_IGNORE_BITMAP`, all of
  them without state that the server depends on.
- Memory limits: `begin_write` allocates what the EDTL says, and an aborted write
  keeps its buffer as long as the connection lives; READ(16) allocates what its
  CDB asks for, up to 2^32 - 1 blocks.
- A READ whose CDB asks for more than the EDTL (the target sends more than the
  initiator has room for): the modelled initiator's EDTL is that of its CDB.
- Two connections of one initiator to one target at a time, PDU by PDU. There is
  no session reinstatement: after a reconnection the task of the old connection
  may still handle what is in its buffer. `BootRegistry` models that, with a write
  as one step; `IscsiSession` lets the old connection handle what it has received
  and then end before it opens the new one.
- Values that no check bounds: a client name that makes the IQN longer than 231
  bytes (the designator's length byte wraps), more than 256 LUNs (two are reported
  under one number), a disk of less than a block (reported as one block), a boot
  file name or URL of more than 255 bytes (the option's length byte wraps).
  `ScsiTarget` assumes the first three away, by name.

## 6. Where the code and its documents disagree

Shown by runs (`PROJECT.json`, "findings"): `write_at` can undo another
connection's write to the same block (`volume_shared_block`), and `data_out`
counts bytes instead of tracking ranges (`iscsi_short_segments`). The latter is no
rare case: the target does not declare MaxRecvDataSegmentLength, so an initiator
sends at most 8192 bytes in a PDU, and the first burst of a write is 262144 long.
A write whose data fits one R2T is stored right all the same, which
`AlwaysStoredAsAcknowledged` shows; a longer one in short PDUs may not be.

Met while modelling; the models do what the code does, and no run is kept for
them. Sessions, TFTP and boot:

- A Nop-Out that is not immediate takes a CmdSN, but `nop_in`
  (`iscsi/session/mod.rs:165`) does not advance ExpCmdSN: after a few of them the
  window is closed for good, against the session design's intention to keep it
  open. With `NopImmediate = FALSE` and `MaxNops = 2` TLC finds
  `WindowOpenAtRest` violated.
- After block 65535 the TFTP block number wraps to 0 and the start of the slice
  underflows (`net/tftp/server.rs:236`): the task panics, and a file of more
  blocks than that is not delivered, though the design says never to panic on
  network input. With `BlockMod` one smaller than in `tftp_liveness` TLC finds
  `FileArrives` violated.
- A Data-Out for a write that its own repetition has completed is rejected
  (`iscsi/session/mod.rs:366`), though the initiator has only answered an R2T.
- The default client has neither name nor MAC, so all machines it serves have one
  IQN (`net/http/mod.rs:71`), and a fetch between another's fetch and login gives
  both one target and overlay; the session design says that different clients
  have different targets. `SeesOwnWrites` is about machines with an IQN of their
  own (`OwnIqn`): stated of all `Macs` TLC finds it violated by the two machines on
  the defaults.
- A write that was unanswered when its connection was lost may be stored after a
  newer, acknowledged one of the same machine, since the old connection's task goes
  on (`iscsi/transport.rs:52`). `SeesOwnWrites` admits exactly that.
- `nop_in` gives the answer to a Nop-Out no StatSN of its own, so the next
  response repeats it. The initiator of `IscsiSession` lets that pass, and
  `StatSnInOrder` is stated with this exception.
- A TFTP transfer that runs out of retries on the last block, or on wrong
  datagrams, ends without the ERROR the design names.
- A duplicated or late ACK makes the TFTP server send again a block the client
  holds (the Sorcerer's Apprentice fault, which the design lists as handled).
- The OACK is sent once; if it or its ACK 0 is lost, the transfer ends silently.
  So `FileArrives` speaks of requests without options.
- A lost connection does not discard the overlay, as the session design says: the
  target stays registered, and the next login sees it. `SeesOwnWrites` shows what
  this gives: a reconnecting machine keeps its writes. But any fetch of its
  script in between replaces the target, and a later reconnection then finds
  clean disks.
- Two sections for one MAC, spelled in different case, pass the validation; the
  later one is in force. `boot_registry` includes such a pair.
- Structural errors of a PDU close the connection without the Reject that the
  design describes, and InitialR2T is negotiated by AND where the design says OR.

Images:

- A sector that an increment wrote without setting its bit is read from an older
  increment if that one has the bit set (`storage/vhd/chain.rs:83`, as its comment
  says), although the doc of `block_sector_offset` (`dynamic.rs:134`) holds that
  such a sector still has that layer's data and must win over the base. `images`
  includes clear bits only where no older increment has marked the sector. The
  module doc (`chain.rs:7`) knows only of sectors that a bitmap claims.
- A VHDX file whose newer header has a log to replay is accepted when the older
  header is clean; `images` promises nothing about its contents.
- A flatten that is killed leaves a file that opens: as a raw disk before the
  structures are complete, as a VHD that reads zeros until the BAT is written
  back. Only the exit code tells. If the removal after a failure fails, the same
  file stays.
- The writer refuses an image of 2^32 blocks or more, but its sector numbers are
  u32 as well (`storage/vhd/write.rs:140`, `:165`): beyond about 2 TiB of stored
  blocks they wrap in a release build, and an overflow check stops a debug build;
  a block at sector 2^32 - 1 would pass for a hole. `SourcesFit` is the bound
  the code leaves unchecked: with `BatMod = 11` it is false, and with
  `MCAssumption` left out TLC finds `FlattenExact` violated.
- Increments `.1` and `.001` of one image have the same number; which is the
  newer one is up to the directory.

DHCP and program:

- The module doc of `net/dhcp` (`mod.rs:1`) says that addresses are never assigned,
  and the design that yiaddr is always 0; the replies on port 67 carry an address,
  made of the last byte of the MAC. Two machines whose MACs end alike get the same.
  A machine may get the server's own: the comment at `decide.rs:62` says that the
  server is skipped, but only .1 is, and `server_ip` need not end so. No property
  is stated of these addresses, since those worth stating are false.
- The design has replies to PXE clients only, to the broadcast address; the code
  answers whoever names a supported architecture or iPXE, and sends to the
  sender's address when the broadcast flag is clear.
- Proxy replies carry no server identifier (option 54), which the design lists.
- The listener is documented to survive any bad datagram, but an error of
  `send_to` ends it, and with it the program.
- `main` ends with SUCCESS also when a service has failed, and neither then nor at
  SIGINT waits for the others.
- The doc of the `[boot]` section calls it optional; `main` refuses to start
  without it.
- All games LUNs have the same default serial, so two of them on one machine have
  the same identity.

## 7. Plan

Done: the disks (Volume, BlockCache), the iSCSI session, TFTP, the boot registry,
the images and flatten, the SCSI target, proxyDHCP with the program; proofs of
the safety and action properties that the passing runs check, but for those
section 4 names, and of both refinements.

Open: two connections on one target PDU by PDU (`BootRegistry` has them write by
write), and the composition of sessions with `Volume`.
