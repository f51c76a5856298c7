---------------------------- MODULE CommittedLog ----------------------------
(***************************************************************************)
(* What replication promises the state machines: one growing sequence of    *)
(* decided entries, of which every server knows a prefix.  A server learns  *)
(* more of it, or restarts and learns again from the start; nobody ever     *)
(* learns anything else, and what is decided stays decided.                 *)
(***************************************************************************)
EXTENDS Integers, Sequences

CONSTANT Server

VARIABLES
    decided,  \* the entries decided so far
    learned   \* what each server knows of them

\* l is a beginning of m.
Begins(l, m) == Len(l) <= Len(m) /\ SubSeq(m, 1, Len(l)) = l

Init ==
    /\ decided = <<>>
    /\ learned = [n \in Server |-> <<>>]

Learn(n) ==
    /\ Begins(decided, decided')
    /\ Begins(learned[n], learned'[n])
    /\ Begins(learned'[n], decided')
    /\ \A p \in Server \ {n} : learned'[p] = learned[p]

Forget(n) ==
    /\ learned' = [learned EXCEPT ![n] = <<>>]
    /\ UNCHANGED decided

Next == \E n \in Server : Learn(n) \/ Forget(n)

Spec == Init /\ [][Next]_<<decided, learned>>
=============================================================================
