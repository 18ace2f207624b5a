----------------------------- MODULE TokenSupply -----------------------------
(***************************************************************************)
(* What a user-defined token promises its holders, with no cells, amounts  *)
(* or transactions in sight: nobody but its owner can create units of it.  *)
(***************************************************************************)
EXTENDS Naturals

CONSTANT Tokens

VARIABLES
    supply,     \* the units of each token in existence
    authority   \* whether the owner of the token is able to act

vars == <<supply, authority>>

Init ==
    /\ supply = [t \in Tokens |-> 0]
    /\ authority \in [Tokens -> BOOLEAN]

\* Tokens are held, transferred and burned; they are minted only where the
\* owner was able to act when the step began. Authority comes and goes freely.
Change ==
    /\ authority' \in [Tokens -> BOOLEAN]
    /\ supply' \in [Tokens -> Nat]
    /\ \A t \in Tokens : supply'[t] > supply[t] => authority[t]

Spec == Init /\ [][Change]_vars
==============================================================================
