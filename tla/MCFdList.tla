------------------------------ MODULE MCFdList ------------------------------
(***************************************************************************)
(* FdList with three readings of memory that was never written: an entry   *)
(* of nothing, one that looks used and one that looks deleted and linked.  *)
(***************************************************************************)
EXTENDS FdList

CONSTANTS a, b, c

Blocks == {a, b, c}

JunkEntries ==
    {[item |-> NoItem, next |-> NoEntry, deleted |-> FALSE],
     [item |-> a, next |-> NoEntry, deleted |-> FALSE],
     [item |-> b, next |-> 0, deleted |-> TRUE]}

=============================================================================
