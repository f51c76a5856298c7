----------------------------- MODULE MCElection -----------------------------
(***************************************************************************)
(* Instances of Election for TLC.                                           *)
(***************************************************************************)
EXTENDS Election, TLC

CONSTANTS s1, s2, s3

\* Three equal voters, the configuration NewRaftNode builds for three peers.
ThreeServers == {s1, s2, s3}
ThreeVoters == NewConfiguration(ThreeServers)

\* Two of them campaign against each other; the third votes.
Rivals == {s1, s2}
RivalSymmetry == Permutations(Rivals)
=============================================================================
