---------------------------- MODULE Configuration ----------------------------
(***************************************************************************)
(* Cluster membership and the quorum arithmetic every decision is made      *)
(* against: internal/raft/configuration.go.  A configuration is a record    *)
(* of three sets of server ids; addresses are left out.  OldVoters is empty *)
(* exactly when the configuration is simple (not joint).                    *)
(***************************************************************************)
EXTENDS Integers, FiniteSets, Sequences, Functions

\* Every configuration over a set of servers, valid or not.
Configurations(S) ==
    [Voters : SUBSET S, OldVoters : SUBSET S, Learners : SUBSET S]

NewConfiguration(voters) ==
    [Voters |-> voters, OldVoters |-> {}, Learners |-> {}]

IsJoint(c) == c.OldVoters # {}

Members(c) == c.OldVoters \cup c.Voters \cup c.Learners

Peers(c, self) == Members(c) \ {self}

\* Non-empty voters, and nobody both voter and learner.  The id and address
\* checks of Validate concern data this model leaves out.
Validate(c) ==
    /\ c.Voters # {}
    /\ c.Learners \cap c.Voters = {}

hasMajority(members, have) ==
    \/ members = {}
    \/ Cardinality(members \cap have) > Cardinality(members) \div 2

HasQuorum(c, have) ==
    /\ hasMajority(c.Voters, have)
    /\ IsJoint(c) => hasMajority(c.OldVoters, have)

\* The members sorted by index, the highest first.
Descending(members, matchIndex) ==
    CHOOSE ids \in [1..Cardinality(members) -> members] :
        /\ IsInjective(ids)
        /\ \A i, j \in DOMAIN ids : i < j => matchIndex[ids[i]] >= matchIndex[ids[j]]

\* Defect: off by one, the next higher index.
majorityIndexHigher(members, matchIndex) ==
    IF members = {}
    THEN 0
    ELSE matchIndex[Descending(members, matchIndex)[Cardinality(members) \div 2]]

\* The element len/2 of the sorted indices; the code counts from 0.
majorityIndex(members, matchIndex) ==
    IF members = {}
    THEN 0
    ELSE matchIndex[Descending(members, matchIndex)[Cardinality(members) \div 2 + 1]]

QuorumIndex(c, matchIndex) ==
    LET idx == majorityIndex(c.Voters, matchIndex)
        old == majorityIndex(c.OldVoters, matchIndex)
    IN  IF IsJoint(c) /\ old < idx THEN old ELSE idx

\* The present voters must agree alongside the target's; who is promoted to
\* voter is no learner any more.
EnterJoint(c, target, learners) ==
    [Voters |-> target, OldVoters |-> c.Voters, Learners |-> learners \ target]

LeaveJoint(c) ==
    [Voters |-> c.Voters, OldVoters |-> {}, Learners |-> c.Learners]
=============================================================================
