------------------------------ MODULE FdTable -------------------------------
(***************************************************************************)
(* What a descriptor list promises: a descriptor stands for one item from  *)
(* the call that returns it to the call that removes it.                   *)
(***************************************************************************)
CONSTANT Items

VARIABLE table    \* the item of every descriptor in use

Init == table = [fd \in {} |-> fd]

Add(item) ==
    \E fd \in DOMAIN table' \ DOMAIN table :
        table' = [x \in DOMAIN table \cup {fd} |-> IF x = fd THEN item ELSE table[x]]

Remove(fd) == table' = [x \in DOMAIN table \ {fd} |-> table[x]]

Next == \/ \E item \in Items : Add(item)
        \/ \E fd \in DOMAIN table : Remove(fd)

Spec == Init /\ [][Next]_table

=============================================================================
