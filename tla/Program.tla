------------------------------- MODULE Program -------------------------------
(***************************************************************************)
(* The server process (xboot/src/main.rs): the configuration is loaded and *)
(* validated (config/), the client manager opens the images (manager/),    *)
(* four services are spawned, and the process ends with the first of them  *)
(* or with SIGINT.  What passes between a service and its clients is in    *)
(* modules of their own; here a service starts, serves and ends.           *)
(*                                                                         *)
(* Texts are abstracted to what the checks tell apart: a file name of the  *)
(* [boot] section is a name with its form ("relative", "empty", or one of  *)
(* UnsafeForms), and a disk knows whether open_backing succeeds on it.     *)
(***************************************************************************)
EXTENDS Integers, Sequences, FiniteSets

CONSTANTS
    Files,  \* configuration files: [readable, parses, cfg]
    None

ASSUME NoneAssumption == None \notin Nat

\* The [[disk]] and [[client]] sections are read into vectors.
ASSUME FilesAssumption ==
    \A f \in Files :
        /\ Len(f.cfg.disks) \in Nat /\ DOMAIN f.cfg.disks = 1 .. Len(f.cfg.disks)
        /\ Len(f.cfg.clients) \in Nat /\ DOMAIN f.cfg.clients = 1 .. Len(f.cfg.clients)

VARIABLES
    file,   \* the configuration file the program is started with
    phase,  \* how far main() is
    code,   \* the exit code, or None
    stores, \* ClientManager::stores: the ids of the opened images
    svc,    \* the state of each service's task
    token   \* whether the CancellationToken is cancelled

progVars == <<file, phase, code, stores, svc, token>>

Services == {"dhcp", "tftp", "http", "iscsi"}

-----------------------------------------------------------------------------
(* config::validate: the kinds of the errors it collects *)

Ids(cfg) == {cfg.disks[i].id : i \in DOMAIN cfg.disks}

\* by_id: a later disk of the same id replaces an earlier one.
DiskOf(cfg, id) ==
    cfg.disks[CHOOSE i \in DOMAIN cfg.disks :
                /\ cfg.disks[i].id = id
                /\ \A j \in DOMAIN cfg.disks : cfg.disks[j].id = id => j <= i]

CheckRef(cfg, ref, type) ==
    IF ref \notin Ids(cfg) THEN {"UnknownDisk"}
    ELSE IF DiskOf(cfg, ref).type # type THEN {"WrongDiskType"} ELSE {}

\* Mutant of CheckProfile: the games are not looked at.
CheckProfileNoGames(cfg, p) ==
    CheckRef(cfg, p.system, "image") \cup CheckRef(cfg, p.writeback, "writeback")

CheckProfile(cfg, p) ==
    CheckRef(cfg, p.system, "image")
    \cup (UNION {CheckRef(cfg, p.games[i], "game") : i \in DOMAIN p.games})
    \cup CheckRef(cfg, p.writeback, "writeback")

\* is_safe_filename
UnsafeForms == {"absolute", "drive", "dots"}

CheckFileName(n) ==
    CASE n.form = "empty" -> {"EmptyBootField"}
      [] n.form \in UnsafeForms -> {"BootFileOutsideRoot"}
      [] OTHER -> {}

CheckUrl(u) ==
    CASE u = "empty" -> {"EmptyBootField"}
      [] u \in {"http", "https"} -> {}
      [] OTHER -> {"InvalidHttpUrl"}

CheckBoot(boot) ==
    (IF boot.http_port = 0 THEN {"HttpPortZero"} ELSE {})
    \cup (IF boot.iscsi_port = 0 THEN {"IscsiPortZero"} ELSE {})
    \cup (IF boot.root_is_dir THEN {} ELSE {"TftpRootNotDirectory"})
    \cup CheckFileName(boot.bios) \cup CheckFileName(boot.uefi) \cup CheckUrl(boot.url)

\* MACs are compared as they are spelled.
CheckMacs(cfg) ==
    UNION {IF ~cfg.clients[i].valid THEN {"InvalidMac"}
           ELSE IF \E j \in 1 .. i - 1 : /\ cfg.clients[j].valid
                                         /\ cfg.clients[j].mac = cfg.clients[i].mac
                                         /\ cfg.clients[j].spelling = cfg.clients[i].spelling
                THEN {"DuplicateMac"} ELSE {} : i \in DOMAIN cfg.clients}

Validate(cfg) ==
    (IF Cardinality(Ids(cfg)) < Len(cfg.disks) THEN {"DuplicateDiskId"} ELSE {})
    \cup CheckMacs(cfg)
    \cup (UNION {CheckProfile(cfg, cfg.clients[i]) : i \in DOMAIN cfg.clients})
    \cup (IF cfg.defaults = None THEN {} ELSE CheckProfile(cfg, cfg.defaults))
    \cup (IF cfg.boot = None THEN {} ELSE CheckBoot(cfg.boot))

-----------------------------------------------------------------------------
(* ClientManager *)

Backed(cfg) == {i \in DOMAIN cfg.disks : cfg.disks[i].type \in {"image", "game"}}

\* The stores that ClientManager::new opens.
OpenStores(cfg) == {cfg.disks[i].id : i \in Backed(cfg)}

\* ClientManager::resolve: the last section of the MAC, however it is spelled,
\* or the defaults, or None.
ResolveMac(cfg, mac) ==
    LET mine == {i \in DOMAIN cfg.clients : cfg.clients[i].mac = mac}
    IN  IF mine # {} THEN cfg.clients[CHOOSE i \in mine : \A j \in mine : j <= i]
        ELSE cfg.defaults

-----------------------------------------------------------------------------
(* main *)

NoServices == [s \in Services |-> "none"]

ProgramInit ==
    /\ file \in Files
    /\ phase = "start" /\ code = None
    /\ stores = {} /\ svc = NoServices /\ token = FALSE

\* The process ends; the runtime drops what its tasks were doing.
ExitWith(c) ==
    /\ phase' = "exited" /\ code' = c
    /\ svc' = NoServices
    /\ UNCHANGED <<file, stores, token>>

\* load_from_path, and the [boot] section that main() insists on.
LoadFails ==
    \/ ~file.readable \/ ~file.parses
    \/ Validate(file.cfg) # {}
    \/ file.cfg.boot = None

Load ==
    /\ phase = "start"
    /\ IF LoadFails THEN ExitWith("FAILURE")
       ELSE phase' = "loaded" /\ UNCHANGED <<file, code, stores, svc, token>>

\* ClientManager::new, and the services are spawned.
Start ==
    /\ phase = "loaded"
    /\ IF \E i \in Backed(file.cfg) : ~file.cfg.disks[i].opens THEN ExitWith("FAILURE")
       ELSE /\ phase' = "running"
            /\ stores' = OpenStores(file.cfg)
            /\ svc' = [s \in Services |-> "spawned"]
            /\ UNCHANGED <<file, code, token>>

SetService(s, st) ==
    /\ svc' = [svc EXCEPT ![s] = st]
    /\ UNCHANGED <<file, phase, code, stores, token>>

\* A service binds its sockets, or ends because it cannot.
Bind(s) == svc[s] = "spawned" /\ (SetService(s, "serving") \/ SetService(s, "ended"))

\* recv_from or accept fails, and serve returns the error.
ListenError(s) == svc[s] = "serving" /\ SetService(s, "ended")

\* SIGINT: the ctrl_c task cancels the token, and is done.
Sigint ==
    /\ phase = "running" /\ ~token
    /\ token' = TRUE
    /\ UNCHANGED <<file, phase, code, stores, svc>>

\* A service that serves sees the token, and returns Ok.
Cancelled(s) == token /\ svc[s] = "serving" /\ SetService(s, "ended")

\* Mutant of Ends: the select! has no arm for TFTP.
EndsWithoutTftp == token \/ \E s \in Services \ {"tftp"} : svc[s] = "ended"

\* The select! in main(): a service has ended or ctrl_c has.
Ends == token \/ \E s \in Services : svc[s] = "ended"

Exit == phase = "running" /\ Ends /\ ExitWith("SUCCESS")

ProgramNext ==
    \/ Load \/ Start \/ Sigint \/ Exit
    \/ \E s \in Services : Bind(s) \/ ListenError(s) \/ Cancelled(s)

=============================================================================
