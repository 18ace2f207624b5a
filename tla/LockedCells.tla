----------------------------- MODULE LockedCells -----------------------------
(***************************************************************************)
(* What the spend commands promise together, with no transactions, fee     *)
(* cells or processes in sight: a locked cell is spent once, alone, for    *)
(* somebody who knows how to open it, and costs the wallet one fee.        *)
(***************************************************************************)
EXTENDS Integers

CONSTANTS
    Locked,     \* the locked cells
    Openable,   \* those that somebody is entitled to
    Start,      \* what the wallet holds at the start
    Fee

VARIABLES
    locked,     \* the locked cells that are not spent
    balance     \* what the wallet holds

vars == <<locked, balance>>

Init == locked = Locked /\ balance = Start

Spend(c) ==
    /\ c \in locked \cap Openable
    /\ Fee <= balance
    /\ locked' = locked \ {c}
    /\ balance' = balance - Fee

Spec == Init /\ [][\E c \in Locked : Spend(c)]_vars
==============================================================================
