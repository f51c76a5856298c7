----------------------------- MODULE MCLogStore -----------------------------
(***************************************************************************)
(* Instances of LogStore for TLC.                                           *)
(***************************************************************************)
EXTENDS LogStore

Era(term, log_, commit) == [term |-> term, log |-> log_, commit |-> commit, self |-> FALSE]
OwnEra(term, log_) == [term |-> term, log |-> log_, commit |-> Len(log_), self |-> TRUE]

\* Leader 1 loses entries 2 and 3 to leader 2; the node leads next, and leader
\* 4 keeps one entry of its term and replaces the rest.
FourEras == <<
    Era(1, <<1, 1, 1>>, 1),
    Era(2, <<1, 2, 2>>, 3),
    OwnEra(3, <<1, 2, 2>>),
    Era(4, <<1, 2, 2, 3, 4>>, 4) >>

\* Leader 2 holds a snapshot that is shorter than the log it replaces.
ShortEras == <<
    Era(1, <<1, 1, 1>>, 1),
    Era(2, <<1, 2>>, 2),
    OwnEra(3, <<1, 2>>) >>
=============================================================================
