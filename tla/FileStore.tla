----------------------------- MODULE FileStore ------------------------------
(***************************************************************************)
(* What the files of a SPIFFS volume promise to a program that has every   *)
(* file open at most once: a call takes effect when it returns, as if      *)
(* nothing were ever cached.  A write replaces as many bytes as it was     *)
(* given, at its position; which values they have is not said.             *)
(***************************************************************************)
EXTENDS Integers, Sequences

CONSTANTS Names, Objs, Fds, Bytes, MaxSize, LogPage, Modes, None, Ok, Err

VARIABLES dir,       \* the object a name stands for
          content,   \* the bytes of every object
          handle,    \* the object, rights and position of every descriptor
          result     \* what the last call returned

vars == <<dir, content, handle, result>>

Closed == [obj |-> None, flags |-> {}, offset |-> 0]

Init == /\ dir = [n \in Names |-> None] /\ content = [o \in Objs |-> <<>>]
        /\ handle = [f \in Fds |-> Closed] /\ result = Ok

Unused == Objs \ {dir[n] : n \in Names}

Fails == result' = Err /\ UNCHANGED <<dir, content, handle>>

Opened(f, o, flags) ==
    /\ result' = Ok /\ handle[f].obj = None
    /\ handle' = [handle EXCEPT ![f] = [obj |-> o, flags |-> flags, offset |-> 0]]

Open(n, f, flags) ==
    /\ dir[n] # None /\ Opened(f, dir[n], flags)
    /\ UNCHANGED <<dir, content>>

Truncate(n, f, flags) ==
    /\ dir[n] # None /\ Opened(f, dir[n], flags)
    /\ content' = [content EXCEPT ![dir[n]] = <<>>]
    /\ UNCHANGED dir

Create(n, f, flags) ==
    /\ dir[n] = None
    /\ \E o \in Unused : Opened(f, o, flags) /\ dir' = [dir EXCEPT ![n] = o]
    /\ UNCHANGED content

Following(f) == SubSeq(content[handle[f].obj], handle[f].offset + 1, Len(content[handle[f].obj]))

FirstOf(bytes, len) == SubSeq(bytes, 1, IF len < Len(bytes) THEN len ELSE Len(bytes))

Advance(f, n) == handle' = [handle EXCEPT ![f].offset = @ + n]

Read(f, len) ==
    /\ "RDONLY" \in handle[f].flags
    /\ result' = [read |-> FirstOf(Following(f), len)]
    /\ Advance(f, Len(result'.read))
    /\ UNCHANGED <<dir, content>>

Written(f, bytes) ==
    LET before == SubSeq(content[handle[f].obj], 1, handle[f].offset)
    IN  before \o bytes \o SubSeq(Following(f), Len(bytes) + 1, Len(Following(f)))

Write(f, len) ==
    /\ "WRONLY" \in handle[f].flags
    /\ result' = Ok /\ UNCHANGED dir /\ Advance(f, len)
    /\ \E bytes \in [1 .. len -> Bytes] :
          content' = [content EXCEPT ![handle[f].obj] = Written(f, bytes)]

Seek(f, to) ==
    /\ result' = Ok /\ handle[f].obj # None
    /\ handle' = [handle EXCEPT ![f].offset = to]
    /\ to <= Len(content[handle[f].obj])
    /\ UNCHANGED <<dir, content>>

SeekPastEnd(f) ==
    /\ result' = Err /\ handle[f].obj # None
    /\ handle' = [handle EXCEPT ![f].offset = Len(content[handle[f].obj])]
    /\ UNCHANGED <<dir, content>>

Stat(f) ==
    /\ handle[f].obj # None
    /\ result' = [size |-> Len(content[handle[f].obj])]
    /\ UNCHANGED <<dir, content, handle>>

Close(f) ==
    /\ result' = Ok /\ handle[f].obj # None
    /\ handle' = [handle EXCEPT ![f] = Closed]
    /\ UNCHANGED <<dir, content>>

Remove(f) ==
    /\ "WRONLY" \in handle[f].flags /\ result' = Ok
    /\ dir' = [n \in Names |-> IF dir[n] = handle[f].obj THEN None ELSE dir[n]]
    /\ content' = [content EXCEPT ![handle[f].obj] = <<>>]
    /\ handle' = [handle EXCEPT ![f] = Closed]

Rename(old, new) ==
    /\ dir[old] # None /\ dir[new] = None
    /\ dir' = [dir EXCEPT ![old] = None, ![new] = dir[old]]
    /\ result' = Ok /\ UNCHANGED <<content, handle>>

Use(f) == \/ \E n \in Names, flags \in Modes :
                 Open(n, f, flags) \/ Truncate(n, f, flags) \/ Create(n, f, flags)
          \/ \E len \in 1 .. LogPage : Read(f, len)
          \/ \E len \in 1 .. LogPage : Write(f, len)
          \/ \E to \in 0 .. MaxSize : Seek(f, to)
          \/ SeekPastEnd(f) \/ Stat(f) \/ Close(f) \/ Remove(f)

Next == \/ Fails
        \/ \E f \in Fds : Use(f)
        \/ \E old, new \in Names : Rename(old, new)

Spec == Init /\ [][Next]_vars

=============================================================================
