--------------------------- MODULE MCReplication ---------------------------
(***************************************************************************)
(* Instances of Replication for TLC.                                        *)
(***************************************************************************)
EXTENDS Replication

CONSTANTS s1, s2, s3, s4, s5

ThreeServers == {s1, s2, s3}
ThreeVoters == NewConfiguration(ThreeServers)
FiveServers == {s1, s2, s3, s4, s5}
FiveVoters == NewConfiguration(FiveServers)

\* s1 and s2 lead in turn, one contender for each term.
TakeTurns == [t \in 1 .. MaxTerm |-> IF t % 2 = 0 THEN {s2} ELSE {s1}]

\* s1 and s2 lead in turn, so that each comes back to logs the other has
\* changed; both may spend the first term.
Alternate == [t \in 1 .. MaxTerm |-> IF t % 2 = 0 THEN {s2} ELSE IF t = 1 THEN {s1, s2} ELSE {s1}]

\* Everyone reaches everyone, or s1 and s2 only reach s3.
AllLinks == {{s1, s2}, {s1, s3}, {s2, s3}}
Partition == {{s1, s3}, {s2, s3}}

\* Of five servers s3 only reaches s1, and misses the election s2 wins.
Straggler == {{s1, s2}, {s1, s3}, {s1, s4}, {s2, s4}, {s2, s5}}
=============================================================================
