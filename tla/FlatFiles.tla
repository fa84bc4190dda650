----------------------------- MODULE FlatFiles ------------------------------
(***************************************************************************)
(* What a SPIFFS volume promises: files by name, descriptors open on them, *)
(* calls that change the file they are about and no other.  A write        *)
(* replaces some stretch of its file: where and how long is not said.  A   *)
(* call that fails for lack of space when it has begun to change its file  *)
(* leaves the other files, but tears the volume, of which nothing is       *)
(* promised after that.  A power loss hurts the file the interrupted call  *)
(* was about, of which nothing is promised any more, and no other; a       *)
(* creation or a renaming is done or not done, or has left both names.     *)
(* Bytes carry the number of the call that wrote them.                     *)
(***************************************************************************)
EXTENDS Integers, Sequences

CONSTANTS Names, Fds, None, MaxCalls

VARIABLES files,    \* the bytes of every file, or None
          open,     \* the file a descriptor is open on, or None
          torn,     \* a call failed when it had begun to change a file
          hurt,     \* the files of calls that a power loss interrupted
          result    \* of the last call: "ok" or an error

vars == <<files, open, torn, hurt, result>>

Init == /\ files = [n \in Names |-> None] /\ open = [d \in Fds |-> None]
        /\ torn = FALSE /\ hurt = {} /\ result = "ok"

Succeeds == result' = "ok"
Fails == result' # "ok"

(* Nothing is promised of a file that is hurt.                             *)
Only(S) == \A m \in Names \ (S \cup hurt) : files'[m] = files[m]
Becomes(n, file) == n \in hurt \/ files'[n] = file
IsFile(n) == n \in hurt \/ files[n] # None
IsNone(n) == n \in hurt \/ files[n] = None

(* new is old with some bytes from offset to end replaced by v.            *)
Overwrites(old, new) ==
    /\ old # None /\ new # None /\ Len(new) >= Len(old)
    /\ \E offset \in 0 .. Len(old), end \in 1 .. Len(new), v \in 1 .. MaxCalls :
          /\ end > offset
          /\ \A i \in DOMAIN new : IF i \in offset + 1 .. end THEN new[i] = v
                                    ELSE i <= Len(old) /\ new[i] = old[i]

Open(d, n) ==
    /\ open[d] = None /\ open' = [open EXCEPT ![d] = n]
    /\ Succeeds /\ Only({n})
    /\ (IsFile(n) /\ Becomes(n, files[n])) \/ Becomes(n, <<>>)

Close(d) == open' = [open EXCEPT ![d] = None] /\ Succeeds /\ UNCHANGED files

Read(d) == open[d] # None /\ UNCHANGED <<files, open>> /\ (Succeeds \/ open[d] \in hurt)

(* A write that fails may have changed the bytes there were and added none.*)
Write(d) ==
    /\ open[d] # None /\ UNCHANGED open /\ Only({open[d]})
    /\ open[d] \in hurt \/ Overwrites(files[open[d]], files'[open[d]])

Remove(n) ==
    /\ open' = [d \in Fds |-> IF open[d] = n THEN None ELSE open[d]]
    /\ Succeeds /\ IsFile(n) /\ Only({n}) /\ Becomes(n, None)

Rename(o, n) ==
    /\ open' = [d \in Fds |-> IF open[d] = o THEN n ELSE open[d]]
    /\ Succeeds /\ IsFile(o) /\ IsNone(n)
    /\ Only({o, n}) /\ Becomes(n, files[o]) /\ Becomes(o, None)

FailedCall == Fails /\ UNCHANGED open /\ Only({})

Calls ==
    /\ UNCHANGED hurt
    /\ \/ \E d \in Fds : \/ \E n \in Names : Open(d, n)
                         \/ Close(d) \/ Read(d) \/ Write(d)
       \/ \E n \in Names : Remove(n) \/ \E o \in Names : Rename(o, n)
       \/ FailedCall

PowerLoss ==
    /\ open' = [d \in Fds |-> None] /\ UNCHANGED result
    /\ \/ UNCHANGED <<files, hurt>>
       \/ \E n \in Names : Only({n}) /\ hurt' = hurt \cup {n}
       \/ \E n \in Names : IsNone(n) /\ Only({n}) /\ Becomes(n, <<>>) /\ UNCHANGED hurt
       \/ \E o, n \in Names :
             /\ IsFile(o) /\ IsNone(n) /\ UNCHANGED hurt
             /\ Only({o, n}) /\ Becomes(n, files[o]) /\ (Becomes(o, files[o]) \/ Becomes(o, None))

Mount == Succeeds /\ UNCHANGED <<open, hurt>> /\ Only({})

Next == \/ ~torn' /\ UNCHANGED torn /\ (Calls \/ PowerLoss \/ Mount)
        \/ torn' /\ (torn \/ (Fails /\ \E n \in Names : Only({n})))

Spec == Init /\ [][Next]_vars
=============================================================================
