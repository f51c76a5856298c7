----------------------------- MODULE MCRequests -----------------------------
(***************************************************************************)
(* Instances of Requests for TLC: s1 is the node modelled.  It or s2 leads  *)
(* each of the two terms.                                                   *)
(***************************************************************************)
EXTENDS Requests

CONSTANTS s1, s2, s3, w1, r1

ThreeServers == {s1, s2, s3}
ThreeVoters == NewConfiguration(ThreeServers)
TwoTerms == <<{s1, s2}, {s1, s2}>>

(***************************************************************************)
(* The sorted-index computation of QuorumIndex against its meaning, for     *)
(* every simple or joint configuration over four servers with indices up to *)
(* two: the highest index that a quorum of the members holds.               *)
(***************************************************************************)

FourMembers == 1..4

ASSUME QuorumIndexIsExact ==
    \A voters \in (SUBSET FourMembers) \ {{}}, old \in SUBSET FourMembers,
       match \in [FourMembers -> 0..2] :
        LET c == [NewConfiguration(voters) EXCEPT !.OldVoters = old]
            holders(i) == {m \in FourMembers : match[m] >= i}
            index == QuorumIndex(c, match)
        IN  HasQuorum(c, holders(index)) /\ ~HasQuorum(c, holders(index + 1))
=============================================================================
