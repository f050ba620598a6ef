------------------------------ MODULE FlatDisk ------------------------------
(***************************************************************************)
(* What a client's virtual disk promises: a flat array of bytes.  This is  *)
(* the reference model of the property test `volume_matches_flat_model`    *)
(* (volume/mod.rs), extended to several callers at once: a request works   *)
(* through its range from left to right, a chunk at a time, and a chunk    *)
(* reads or writes exactly its own bytes and no others.                    *)
(***************************************************************************)
EXTENDS Integers

CONSTANTS
    Size,       \* number of bytes of the disk
    Master,     \* the contents a freshly reset disk shows
    Threads,    \* callers that share the disk
    Payloads,   \* buffers that may be written
    Zeros       \* the buffer a read starts from

VARIABLES
    disk,       \* the bytes
    kind,       \* per caller: "idle", "read" or "write"
    pos,        \* per caller: next address of the request
    end,        \* per caller: first address after the request
    buf,        \* per caller: the caller's buffer, indexed by disk address
    res         \* per caller: outcome of the last request

Cells == 0 .. Size - 1

vars == <<disk, kind, pos, end, buf, res>>

\* f on the addresses of S, g elsewhere.
Splice(f, g, S) == [p \in Cells |-> IF p \in S THEN f[p] ELSE g[p]]

Init ==
    /\ disk = Master
    /\ kind = [t \in Threads |-> "idle"]
    /\ pos = [t \in Threads |-> 0]
    /\ end = [t \in Threads |-> 0]
    /\ buf = [t \in Threads |-> Zeros]
    /\ res = [t \in Threads |-> "none"]

\* A request for the range lo .. hi - 1 starts.
Begin(t, k, b) ==
    /\ kind[t] = "idle"
    /\ kind' = [kind EXCEPT ![t] = k]
    /\ buf' = [buf EXCEPT ![t] = b]
    /\ \E lo, hi \in 0 .. Size :
          /\ pos' = [pos EXCEPT ![t] = lo]
          /\ end' = [end EXCEPT ![t] = hi]
    /\ UNCHANGED <<disk, res>>

\* The next n bytes are copied from the disk to the caller.
ReadChunk(t) ==
    /\ kind[t] = "read"
    /\ \E n \in 1 .. end[t] - pos[t] :
          /\ buf' = [buf EXCEPT ![t] = Splice(disk, @, pos[t] .. pos[t] + n - 1)]
          /\ pos' = [pos EXCEPT ![t] = @ + n]
    /\ UNCHANGED <<disk, kind, end, res>>

\* The next n bytes are copied from the caller to the disk; no other byte of
\* the disk changes.
WriteChunk(t) ==
    /\ kind[t] = "write"
    /\ \E n \in 1 .. end[t] - pos[t] :
          /\ disk' = Splice(buf[t], disk, pos[t] .. pos[t] + n - 1)
          /\ pos' = [pos EXCEPT ![t] = @ + n]
    /\ UNCHANGED <<kind, end, buf, res>>

\* The request returns: successfully only when its whole range is done.
Return(t) ==
    /\ \/ /\ kind[t] # "idle"
          /\ pos[t] < end[t]
          /\ res' = [res EXCEPT ![t] = "err"]
       \/ /\ kind[t] # "idle"
          /\ pos[t] >= end[t]
          /\ res' = [res EXCEPT ![t] = "ok"]
       \/ /\ kind[t] = "idle"
          /\ res' = [res EXCEPT ![t] = "err"]
    /\ kind' = [kind EXCEPT ![t] = "idle"]
    /\ UNCHANGED <<disk, pos, end, buf>>

\* The disk is thrown back to its master contents.
Reset ==
    /\ disk' = Master
    /\ UNCHANGED <<kind, pos, end, buf, res>>

Next ==
    \/ \E t \in Threads :
          \/ Begin(t, "read", Zeros)
          \/ \E b \in Payloads : Begin(t, "write", b)
          \/ ReadChunk(t)
          \/ WriteChunk(t)
          \/ Return(t)
    \/ Reset

Spec == Init /\ [][Next]_vars

=============================================================================
