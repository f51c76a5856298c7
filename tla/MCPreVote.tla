----------------------------- MODULE MCPreVote -----------------------------
(***************************************************************************)
(* Instances of PreVote for TLC.                                            *)
(***************************************************************************)
EXTENDS PreVote, TLC

CONSTANTS s1, s2, s3

\* Three equal voters, of which two time out.
ThreeServers == {s1, s2, s3}
ThreeVoters == NewConfiguration(ThreeServers)
Rivals == {s1, s2}
RivalSymmetry == Permutations(Rivals)
=============================================================================
