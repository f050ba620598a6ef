--------------------------- MODULE MCBootRegistry ----------------------------
(***************************************************************************)
(* BootRegistry with four machines, two system disks and a game disk.      *)
(***************************************************************************)
EXTENDS BootRegistry, TLC

CONSTANTS a, b, third, fourth, pc, win, lin, game

MCMacs == {a, b, third, fourth}

MCNames == {pc}

MCStores == {win, lin, game}

At(mac, spelling, name, system, games) ==
    [mac |-> mac, spelling |-> spelling, name |-> name, system |-> system, games |-> games]

\* A client with a name and a game, and one without, on the same image.  The
\* first machine has an earlier section, in another spelling, that the later
\* one replaces.
MCTwoClients ==
    <<At(a, "lower", None, lin, <<>>), At(a, "upper", pc, win, <<game>>),
      At(b, "lower", None, win, <<>>)>>

\* The other machines have no section and take the defaults: they share an IQN.
MCDefaults == [system |-> lin, games |-> <<game>>]

\* The machines on the defaults are interchangeable.
MCSymmetry == Permutations({third, fourth})

\* The hypothesis of the theorem on disks holds of this configuration.
ASSUME MCAssumption == IqnsAgree

=============================================================================
