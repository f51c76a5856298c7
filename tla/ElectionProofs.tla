---------------------------- MODULE ElectionProofs ----------------------------
(***************************************************************************)
(* One vote per term, one leader per term and monotonic terms, for every    *)
(* set of servers, every valid configuration (joint ones included) and all  *)
(* values of the bounds.                                                    *)
(***************************************************************************)
EXTENDS Election, ConfigurationProofs

(***************************************************************************)
(* The inductive invariant                                                  *)
(***************************************************************************)

\* The file is never behind memory, and agrees with it on a vote memory holds
\* in the same term.  It may be ahead: a failed write can still replace it.
DiskCoversMemory ==
    \A n \in Server :
        /\ disk[n].CurrentTerm >= Term(n)
        /\ disk[n].CurrentTerm = Term(n) /\ persistent[n].VotedFor # Nil
               => disk[n].VotedFor = persistent[n].VotedFor

\* A node that voted in a term is still bound by that vote, or past the term.
BallotsBind ==
    \A b \in ballots :
        \/ Term(b[1]) > b[2]
        \/ Term(b[1]) = b[2] /\ persistent[b[1]].VotedFor = b[3]

\* Every granting reply stands for a vote cast.
RepliesHonest ==
    \A m \in msgs : m.type = "RequestVoteResp" /\ m.granted
                        => <<m.from, m.asked, m.to>> \in ballots

\* Every vote in a candidate's tally was cast for it in its present term.
TallyHonest ==
    \A n \in Server : Role[n] = "Candidate"
        => \A v \in votesFrom[n] : <<v, Term(n), n>> \in ballots

\* A pending promotion that still applies has a quorum in the tally.
PromotionHasQuorum ==
    \A n \in Server :
        task[n].kind = "promote" /\ Role[n] = "Candidate" /\ Term(n) = task[n].term
            => HasQuorum(Config, votesFrom[n])

\* Every promotion was carried by a quorum of ballots.
ElectedByQuorum ==
    \A e \in elected :
        \E Q \in SUBSET Server :
            HasQuorum(Config, Q) /\ \A v \in Q : <<v, e[1], e[2]>> \in ballots

IndInv ==
    /\ TypeOK
    /\ DiskCoversMemory
    /\ BallotsBind
    /\ OneVotePerTerm
    /\ RepliesHonest
    /\ TallyHonest
    /\ PromotionHasQuorum
    /\ ElectedByQuorum
    /\ LeaderWasPromoted

(***************************************************************************)
(* Quorums                                                                  *)
(***************************************************************************)

\* A node without peers is a quorum by itself.
LEMMA AloneIsQuorum ==
    ASSUME NEW n \in Server, Peers(Config, n) = {}
    PROVE  HasQuorum(Config, {n})
<1>1. Config.Voters = {n} /\ Config.OldVoters \subseteq {n}
  BY ConfigAssumption DEF Configurations, Validate, Members, Peers
<1>2. Cardinality({n} \cap {n}) > Cardinality({n}) \div 2
  <2>1. {n} \cap {n} = {n}
    OBVIOUS
  <2>2. Cardinality({n}) = 1
    BY FS_Singleton, Zenon
  <2> QED
    BY <2>1, <2>2
<1>3. Config.OldVoters = {} \/ Config.OldVoters = {n}
  BY <1>1
<1> QED
  BY <1>1, <1>2, <1>3 DEF HasQuorum, hasMajority, IsJoint

(***************************************************************************)
(* Type correctness                                                         *)
(***************************************************************************)

\* What a receiver may write: a state of the right type, never behind the
\* present term, and in the present term at most filling in a missing vote.
LEMMA SeenFacts ==
    ASSUME TypeOK, NEW n \in Server, NEW t \in Terms
    PROVE  /\ Seen(n, t) \in PersistentState
           /\ Seen(n, t).CurrentTerm >= Term(n)
           /\ t >= Term(n) => Seen(n, t).CurrentTerm = t
           /\ Seen(n, t).CurrentTerm = Term(n) => Seen(n, t) = persistent[n]
<1>1. persistent[n] \in PersistentState
  BY DEF TypeOK
<1>2. Term(n) \in Int /\ t \in Int
  BY <1>1, BoundAssumption DEF Term, Terms, PersistentState
<1>3. CASE t > Term(n)
  <2>1. Seen(n, t) = [CurrentTerm |-> t, VotedFor |-> Nil]
    BY <1>3 DEF Seen
  <2> QED
    BY <1>2, <1>3, <2>1 DEF PersistentState
<1>4. CASE ~(t > Term(n))
  <2>1. Seen(n, t) = persistent[n]
    BY <1>4 DEF Seen
  <2> QED
    BY <1>1, <1>2, <1>4, <2>1 DEF Term
<1> QED
  BY <1>3, <1>4

LEMMA PersistFailsTypes ==
    ASSUME TypeOK, NEW n \in Server, NEW next \in PersistentState, PersistFails(n, next)
    PROVE  /\ persistent' \in [Server -> PersistentState]
           /\ disk' \in [Server -> PersistentState]
           /\ faults' \in 0..MaxFaults
<1>1. persistent' \in [Server -> PersistentState]
  BY DEF PersistFails, TypeOK
<1>2. disk' = disk \/ disk' = [disk EXCEPT ![n] = next]
  BY DEF PersistFails
<1>3. disk' \in [Server -> PersistentState]
  BY <1>2 DEF TypeOK
<1>4. faults' \in 0..MaxFaults
  BY BoundAssumption DEF PersistFails, Fault, TypeOK
<1> QED
  BY <1>1, <1>3, <1>4

LEMMA DecisionFacts ==
    ASSUME TypeOK, NEW n \in Server, NEW m \in msgs, m.type = "RequestVote",
           NEW u \in BOOLEAN, m.term >= Term(n)
    PROVE  /\ m.term \in Terms /\ m.from \in Server
           /\ VoteDecision(n, m, u) \in PersistentState
           /\ VoteDecision(n, m, u).CurrentTerm = m.term
           /\ m.term = Term(n) => VoteDecision(n, m, u).VotedFor = persistent[n].VotedFor
                                  \/ persistent[n].VotedFor = Nil
           /\ MayGrant(n, m, u) => VoteDecision(n, m, u).VotedFor = m.from
<1>1. m.term \in Terms /\ m.from \in Server
  BY DEF TypeOK, Messages, VoteRequests, VoteReplies, AppendRequests, AppendReplies
<1>2. /\ Seen(n, m.term) \in PersistentState
      /\ Seen(n, m.term).CurrentTerm = m.term
      /\ m.term = Term(n) => Seen(n, m.term) = persistent[n]
  BY <1>1, SeenFacts
<1> QED
  BY <1>1, <1>2 DEF VoteDecision, MayGrant, PersistentState

\* Messages have the fields their type says.
LEMMA MessageFacts ==
    ASSUME TypeOK, NEW m \in msgs
    PROVE  /\ m.term \in Terms
           /\ m.type \in {"RequestVote", "AppendEntries"} => m.from \in Server
           /\ m.type = "RequestVoteResp" => /\ m.from \in Server
                                            /\ m.to \in Server
                                            /\ m.asked \in Terms
  BY DEF TypeOK, Messages, VoteRequests, VoteReplies, AppendRequests, AppendReplies

LEMMA TypeInit == Init => TypeOK
  BY ServerAssumption, BoundAssumption
  DEF Init, TypeOK, PersistentState, Terms, Tasks, Idle

LEMMA TypeStep ==
    ASSUME TypeOK, [Next]_vars
    PROVE  TypeOK'
<1> USE DEF TypeOK
<1>0. TypeOK
  OBVIOUS
<1>1. ASSUME NEW n \in Server, NEW m \in msgs, RefuseVote(n, m)
      PROVE  TypeOK'
  <2>1. m.term \in Terms /\ m.from \in Server /\ Term(n) \in Terms
    BY <1>0, <1>1, MessageFacts DEF RefuseVote, Term, PersistentState
  <2>2. VoteReply(n, m, Term(n), FALSE) \in Messages
    BY <2>1, SMTT(30) DEF VoteReply, Messages, VoteReplies
  <2> QED
    BY <1>1, <2>2, Zenon DEF RefuseVote, Reply, Send, nodeVars, stored, history
<1>2. ASSUME NEW n \in Server, NEW m \in msgs, NEW u \in BOOLEAN, HandleRequestVote(n, m, u)
      PROVE  TypeOK'
  <2>1. /\ m.term \in Terms /\ m.from \in Server
        /\ VoteDecision(n, m, u) \in PersistentState
    BY <1>0, <1>2, DecisionFacts DEF HandleRequestVote
  <2>2. MayGrant(n, m, u) \in BOOLEAN
    BY DEF MayGrant
  <2>3. VoteReply(n, m, m.term, MayGrant(n, m, u)) \in Messages
    BY <2>1, <2>2 DEF VoteReply, Messages, VoteReplies
  <2>4. ballots' \subseteq Server \X Terms \X Server
    BY <1>2, <2>1 DEF HandleRequestVote
  <2>5. leaderLive' \in [Server -> BOOLEAN]
    BY <1>2, <2>2 DEF HandleRequestVote
  <2> QED
    BY <1>2, <2>1, <2>3, <2>4, <2>5, SMTT(30) DEF HandleRequestVote, Reply, Send, CommitPersistent
<1>3. ASSUME NEW n \in Server, NEW m \in msgs, NEW u \in BOOLEAN, HandleRequestVoteFails(n, m, u)
      PROVE  TypeOK'
  <2>1. /\ m.term \in Terms /\ m.from \in Server /\ Term(n) \in Terms
        /\ VoteDecision(n, m, u) \in PersistentState
    BY <1>0, <1>3, DecisionFacts DEF HandleRequestVoteFails, Term, PersistentState
  <2>2. VoteReply(n, m, Term(n), FALSE) \in Messages
    BY <2>1 DEF VoteReply, Messages, VoteReplies
  <2> QED
    BY <1>0, <1>3, <2>1, <2>2, PersistFailsTypes, Zenon DEF HandleRequestVoteFails, Reply, Send, history
<1>4. ASSUME NEW n \in Server, NEW m \in msgs, RefuseAppend(n, m)
      PROVE  TypeOK'
  <2>1. m.from \in Server /\ Term(n) \in Terms
    BY <1>0, <1>4, MessageFacts DEF RefuseAppend, Term, PersistentState
  <2>2. AppendReply(m, Term(n)) \in Messages
    BY <2>1 DEF AppendReply, Messages, AppendReplies
  <2> QED
    BY <1>4, <2>2 DEF RefuseAppend, Reply, Send, nodeVars, stored, history
<1>5. ASSUME NEW n \in Server, NEW m \in msgs, HandleAppendEntries(n, m)
      PROVE  TypeOK'
  <2>1. m.term \in Terms /\ m.from \in Server /\ Seen(n, m.term) \in PersistentState
    BY <1>0, <1>5, MessageFacts, SeenFacts, SMTT(30) DEF HandleAppendEntries
  <2>2. AppendReply(m, m.term) \in Messages
    BY <2>1 DEF AppendReply, Messages, AppendReplies
  <2> QED
    BY <1>5, <2>1, <2>2, SMTT(30)
    DEF HandleAppendEntries, BecomeFollower, CommitPersistent, Reply, Send, history
<1>6. ASSUME NEW n \in Server, NEW m \in msgs, HandleAppendEntriesFails(n, m)
      PROVE  TypeOK'
  <2>1. /\ m.term \in Terms /\ m.from \in Server /\ Term(n) \in Terms
        /\ Seen(n, m.term) \in PersistentState
    BY <1>0, <1>6, MessageFacts, SeenFacts, SMTT(30) DEF HandleAppendEntriesFails, Term, PersistentState
  <2>2. AppendReply(m, Term(n)) \in Messages
    BY <2>1 DEF AppendReply, Messages, AppendReplies
  <2> QED
    BY <1>0, <1>6, <2>1, <2>2, PersistFailsTypes, SMTT(30)
    DEF HandleAppendEntriesFails, Reply, Send, history
<1>7. ASSUME NEW n \in Server, RunElection(n)
      PROVE  TypeOK'
  <2>1. Term(n) + 1 \in Terms
    BY <1>7, BoundAssumption DEF RunElection, TimedOut, Term, Terms, PersistentState
  <2>2. [CurrentTerm |-> Term(n) + 1, VotedFor |-> n] \in PersistentState
    BY <2>1 DEF PersistentState
  <2>3. msgs' \subseteq Messages /\ task' \in [Server -> Tasks]
    BY <1>7, <2>1 DEF RunElection, Send, Then, Messages, VoteRequests, Tasks
  <2>4. ballots' \subseteq Server \X Terms \X Server
    BY <1>7, <2>1 DEF RunElection
  <2> QED
    BY <1>7, <2>2, <2>3, <2>4, ZenonT(30) DEF RunElection, CommitPersistent
<1>8. ASSUME NEW n \in Server, RunElectionFails(n)
      PROVE  TypeOK'
  <2>1. [CurrentTerm |-> Term(n) + 1, VotedFor |-> n] \in PersistentState
    BY <1>8, BoundAssumption DEF RunElectionFails, TimedOut, Term, Terms, PersistentState
  <2> QED
    BY <1>0, <1>8, <2>1, PersistFailsTypes, SMTT(30) DEF RunElectionFails, history
<1>9. ASSUME NEW n \in Server, NEW m \in msgs, HandleVoteResult(n, m)
      PROVE  TypeOK'
  <2>1. m.from \in Server /\ m.asked \in Terms
    BY <1>0, <1>9, MessageFacts, SMTT(30) DEF HandleVoteResult, VoteReceived
  <2>2. votesFrom' \in [Server -> SUBSET Server]
    BY <1>9, <2>1, SMTT(30) DEF HandleVoteResult
  <2>3. [kind |-> "promote", term |-> m.asked] \in Tasks
    BY <2>1 DEF Tasks
  <2>4. task' \in [Server -> Tasks]
    BY <1>9, <2>3 DEF HandleVoteResult, Then
  <2>5. UNCHANGED <<stored, Role, LeaderID, leaderLive, roundOpen, msgs, history>>
    BY <1>9 DEF HandleVoteResult
  <2> QED
    BY <2>2, <2>4, <2>5, SMTT(30) DEF stored, history
<1>10. ASSUME NEW n \in Server, NEW m \in msgs,
              HandleVoteHigherTerm(n, m) \/ HandleStepDown(n, m)
       PROVE  TypeOK'
  <2>1. [kind |-> "stepdown", term |-> m.term] \in Tasks
    BY <1>0, MessageFacts DEF Tasks
  <2>2. UNCHANGED <<nodeVars, roundOpen, msgs, history>> /\ Then(n, "stepdown", m.term)
    BY <1>10 DEF HandleVoteHigherTerm, HandleStepDown
  <2> QED
    BY <2>1, <2>2 DEF Then, nodeVars, stored, history
<1>11. ASSUME NEW n \in Server, BecomeLeader(n)
       PROVE  TypeOK'
  <2>1. Term(n) \in Terms /\ Idle \in Tasks
    BY BoundAssumption DEF Term, PersistentState, Idle, Tasks, Terms
  <2>2. /\ Role' \in [Server -> {"Follower", "Candidate", "Leader"}]
        /\ LeaderID' \in [Server -> Server \cup {Nil}]
        /\ leaderLive' \in [Server -> BOOLEAN]
        /\ elected' \subseteq Terms \X Server
    <3>1. CASE Role[n] = "Candidate" /\ Term(n) = task[n].term
      <4>1. /\ Role' = [Role EXCEPT ![n] = "Leader"]
            /\ LeaderID' = [LeaderID EXCEPT ![n] = n]
            /\ leaderLive' = [leaderLive EXCEPT ![n] = TRUE]
            /\ elected' = elected \cup {<<Term(n), n>>}
        BY <1>11, <3>1 DEF BecomeLeader
      <4>2. <<Term(n), n>> \in Terms \X Server
        BY <2>1
      <4> QED
        BY <4>1, <4>2
    <3>2. CASE ~(Role[n] = "Candidate" /\ Term(n) = task[n].term)
      BY <1>11, <3>2 DEF BecomeLeader
    <3> QED
      BY <3>1, <3>2
  <2> QED
    BY <1>11, <2>1, <2>2, Zenon DEF BecomeLeader, Done, stored
<1>12. ASSUME NEW n \in Server, CheckQuorum(n)
       PROVE  TypeOK'
  BY <1>12 DEF CheckQuorum, Then, Tasks, Term, PersistentState, nodeVars, stored, history
<1>13. ASSUME NEW n \in Server, StepDown(n) \/ StepDownFails(n)
       PROVE  TypeOK'
  <2>1. task[n].term \in Terms /\ Idle \in Tasks
    BY BoundAssumption DEF Idle, Tasks, Terms
  <2>2. Seen(n, task[n].term) \in PersistentState
    BY <1>0, <2>1, SeenFacts, SMTT(30)
  <2>3. CASE StepDown(n)
    BY <2>1, <2>2, <2>3, SMTT(30) DEF StepDown, Done, BecomeFollower, CommitPersistent, history
  <2>4. CASE StepDownFails(n)
    BY <1>0, <2>1, <2>2, <2>4, PersistFailsTypes, SMTT(30) DEF StepDownFails, Done, history
  <2> QED
    BY <1>13, <2>3, <2>4
<1>14. ASSUME NEW n \in Server, OpenRound(n)
       PROVE  TypeOK'
  BY <1>14 DEF OpenRound, nodeVars, stored, history
<1>15. ASSUME NEW n \in Server, ReplicateTo(n)
       PROVE  TypeOK'
  BY <1>15 DEF ReplicateTo, Send, Messages, AppendRequests, Term, PersistentState,
               nodeVars, stored, history
<1>16. ASSUME NEW n \in Server, ContactLapses(n)
       PROVE  TypeOK'
  BY <1>16 DEF ContactLapses, stored, history
<1>17. ASSUME NEW n \in Server, Restart(n)
       PROVE  TypeOK'
  <2>1. Idle \in Tasks
    BY BoundAssumption DEF Idle, Tasks, Terms
  <2> QED
    BY <1>17, <2>1, BoundAssumption DEF Restart, Done, Fault, history
<1>18. ASSUME NEW n \in Server, NEW t \in Terms, StandDown(n, t)
       PROVE  TypeOK'
  BY <1>18 DEF StandDown, Then, Tasks, nodeVars, stored, history
<1>19. CASE UNCHANGED vars
  BY <1>19 DEF vars, nodeVars, stored, history
<1> HIDE DEF TypeOK
<1> QED
  BY <1>1, <1>2, <1>3, <1>4, <1>5, <1>6, <1>7, <1>8, <1>9, <1>10, <1>11, <1>12, <1>13, SMTT(30),
     <1>14, <1>15, <1>16, <1>17, <1>18, <1>19
  DEF Next, Receiver, ControlLoop, Campaign, Environment

\* Every variable of the election keeps its type in every behaviour.
THEOREM TypeCorrect == Spec => []TypeOK
  BY TypeInit, TypeStep, PTL DEF Spec

(***************************************************************************)
(* Durable state: what one step may do to a node's term and vote            *)
(***************************************************************************)

\* A state a node may move to: a later term, or the same term with a vote
\* already cast left alone.
Legal(n, next) ==
    /\ next \in PersistentState
    /\ \/ next.CurrentTerm > Term(n)
       \/ /\ next.CurrentTerm = Term(n)
          /\ persistent[n].VotedFor # Nil => next.VotedFor = persistent[n].VotedFor

LegalStep == \A n \in Server : Legal(n, persistent'[n])

LEMMA LegalStay ==
    ASSUME TypeOK, NEW n \in Server
    PROVE  Legal(n, persistent[n])
  BY DEF TypeOK, Legal, Term

LEMMA LegalSeen ==
    ASSUME TypeOK, NEW n \in Server, NEW t \in Terms
    PROVE  Legal(n, Seen(n, t))
<1>1. Term(n) \in Int /\ Seen(n, t).CurrentTerm \in Int
  BY SeenFacts, BoundAssumption, SMTT(30) DEF TypeOK, Term, PersistentState, Terms
<1> QED
  BY <1>1, SeenFacts DEF Legal

LEMMA LegalDecision ==
    ASSUME TypeOK, NEW n \in Server, NEW m \in msgs, m.type = "RequestVote",
           NEW u \in BOOLEAN, m.term >= Term(n)
    PROVE  Legal(n, VoteDecision(n, m, u))
<1>1. Term(n) \in Int /\ m.term \in Int
  BY DecisionFacts, BoundAssumption, SMTT(30) DEF TypeOK, Term, PersistentState, Terms
<1> QED
  BY <1>1, DecisionFacts DEF Legal

LEMMA LegalCandidate ==
    ASSUME TypeOK, NEW n \in Server, Term(n) < MaxTerm
    PROVE  Legal(n, [CurrentTerm |-> Term(n) + 1, VotedFor |-> n])
<1>1. Term(n) \in Nat /\ Term(n) + 1 \in Terms
  BY BoundAssumption DEF TypeOK, Term, PersistentState, Terms
<1> QED
  BY <1>1 DEF Legal, PersistentState

\* A write that succeeds, and one that fails early or late, both leave the file
\* covering memory.
LEMMA CommitCovers ==
    ASSUME TypeOK, DiskCoversMemory, NEW n \in Server, NEW next, Legal(n, next),
           CommitPersistent(n, next)
    PROVE  DiskCoversMemory' /\ LegalStep /\ persistent'[n] = next
<1>1. persistent'[n] = next /\ \A k \in Server \ {n} : persistent'[k] = persistent[k]
  BY DEF CommitPersistent, TypeOK
<1>2. LegalStep
  BY <1>1, LegalStay DEF LegalStep
<1>3. CASE next = persistent[n]
  <2>1. persistent' = persistent /\ disk' = disk
    BY <1>3 DEF CommitPersistent, TypeOK
  <2> QED
    BY <1>1, <1>2, <2>1 DEF DiskCoversMemory, Term
<1>4. CASE next # persistent[n]
  <2>1. disk'[n] = next /\ \A k \in Server \ {n} : disk'[k] = disk[k]
    BY <1>4 DEF CommitPersistent, TypeOK
  <2>2. next.CurrentTerm >= next.CurrentTerm
    BY BoundAssumption DEF Legal, PersistentState, Terms
  <2>3. DiskCoversMemory'
    BY <1>1, <2>1, <2>2 DEF DiskCoversMemory, Term
  <2> QED
    BY <1>1, <1>2, <2>3
<1> QED
  BY <1>3, <1>4

LEMMA FailureCovers ==
    ASSUME TypeOK, DiskCoversMemory, NEW n \in Server, NEW next, Legal(n, next),
           PersistFails(n, next)
    PROVE  DiskCoversMemory' /\ LegalStep /\ persistent' = persistent
<1>1. persistent' = persistent
  BY DEF PersistFails
<1>2. LegalStep
  BY <1>1, LegalStay DEF LegalStep
<1>3. CASE disk' = disk
  BY <1>1, <1>2, <1>3 DEF DiskCoversMemory, Term
<1>4. CASE disk' = [disk EXCEPT ![n] = next]
  <2>1. disk'[n] = next /\ \A k \in Server \ {n} : disk'[k] = disk[k]
    BY <1>4 DEF TypeOK
  <2>2. next.CurrentTerm \in Int /\ Term(n) \in Int
    BY BoundAssumption DEF Legal, PersistentState, Terms, TypeOK, Term
  <2>3. /\ next.CurrentTerm >= Term(n)
        /\ next.CurrentTerm = Term(n) /\ persistent[n].VotedFor # Nil
               => next.VotedFor = persistent[n].VotedFor
    BY <2>2 DEF Legal
  <2>4. DiskCoversMemory'
    BY <1>1, <2>1, <2>3, SMTT(30) DEF DiskCoversMemory, Term
  <2> QED
    BY <1>1, <1>2, <2>4, SMTT(30)
<1> QED
  BY <1>3, <1>4 DEF PersistFails

\* Ballots are only added, and a new one is the voter's recorded vote.
BallotStep ==
    /\ ballots \subseteq ballots'
    /\ \A b \in ballots' \ ballots :
           /\ b[1] \in Server
           /\ persistent'[b[1]].CurrentTerm = b[2]
           /\ persistent'[b[1]].VotedFor = b[3]

LEMMA DurableStep ==
    ASSUME TypeOK, DiskCoversMemory, [Next]_vars
    PROVE  DiskCoversMemory' /\ LegalStep /\ BallotStep
<1>1. ASSUME persistent' = persistent, disk' = disk, ballots' = ballots
      PROVE  DiskCoversMemory' /\ LegalStep /\ BallotStep
  BY <1>1, LegalStay DEF DiskCoversMemory, LegalStep, BallotStep, Term
<1>2. ASSUME NEW n \in Server, NEW m \in msgs, NEW u \in BOOLEAN, HandleRequestVote(n, m, u)
      PROVE  DiskCoversMemory' /\ LegalStep /\ BallotStep
  <2>1. m.type = "RequestVote" /\ m.term >= Term(n) /\ CommitPersistent(n, VoteDecision(n, m, u))
    BY <1>2 DEF HandleRequestVote
  <2>2. DiskCoversMemory' /\ LegalStep /\ persistent'[n] = VoteDecision(n, m, u)
    BY <2>1, LegalDecision, CommitCovers
  <2>3. CASE MayGrant(n, m, u)
    <3>1. ballots' = ballots \cup {<<n, m.term, m.from>>}
      BY <1>2, <2>3 DEF HandleRequestVote
    <3>2. persistent'[n].CurrentTerm = m.term /\ persistent'[n].VotedFor = m.from
      BY <2>1, <2>2, <2>3, DecisionFacts, SMTT(30)
    <3> QED
      BY <2>2, <3>1, <3>2 DEF BallotStep
  <2>4. CASE ~MayGrant(n, m, u)
    BY <1>2, <2>2, <2>4, SMTT(30) DEF HandleRequestVote, BallotStep
  <2> QED
    BY <2>3, <2>4
<1>3. ASSUME NEW n \in Server, NEW m \in msgs, NEW u \in BOOLEAN, HandleRequestVoteFails(n, m, u)
      PROVE  DiskCoversMemory' /\ LegalStep /\ BallotStep
  <2>1. m.type = "RequestVote" /\ m.term >= Term(n) /\ PersistFails(n, VoteDecision(n, m, u))
    BY <1>3 DEF HandleRequestVoteFails
  <2> QED
    BY <1>3, <2>1, LegalDecision, FailureCovers, SMTT(30) DEF HandleRequestVoteFails, BallotStep, history
<1>4. ASSUME NEW n \in Server, NEW m \in msgs, HandleAppendEntries(n, m)
      PROVE  DiskCoversMemory' /\ LegalStep /\ BallotStep
  <2>1. CommitPersistent(n, Seen(n, m.term)) /\ ballots' = ballots
    BY <1>4 DEF HandleAppendEntries, BecomeFollower, history
  <2>2. Legal(n, Seen(n, m.term))
    BY MessageFacts, LegalSeen
  <2> QED
    BY <2>1, <2>2, CommitCovers DEF BallotStep
<1>5. ASSUME NEW n \in Server, NEW m \in msgs, HandleAppendEntriesFails(n, m)
      PROVE  DiskCoversMemory' /\ LegalStep /\ BallotStep
  <2>1. PersistFails(n, Seen(n, m.term)) /\ ballots' = ballots
    BY <1>5 DEF HandleAppendEntriesFails, history
  <2>2. Legal(n, Seen(n, m.term))
    BY MessageFacts, LegalSeen
  <2> QED
    BY <2>1, <2>2, FailureCovers DEF BallotStep
<1>6. ASSUME NEW n \in Server, RunElection(n)
      PROVE  DiskCoversMemory' /\ LegalStep /\ BallotStep
  <2> DEFINE next == [CurrentTerm |-> Term(n) + 1, VotedFor |-> n]
  <2>1. Term(n) < MaxTerm /\ CommitPersistent(n, next)
    BY <1>6 DEF RunElection, TimedOut
  <2>2. Legal(n, next)
    BY <2>1, LegalCandidate
  <2>3. DiskCoversMemory' /\ LegalStep /\ persistent'[n] = next
    BY <2>1, <2>2, CommitCovers, SMTT(30)
  <2>4. ballots' = ballots \cup {<<n, Term(n) + 1, n>>}
    BY <1>6 DEF RunElection
  <2> QED
    BY <2>3, <2>4, SMTT(30) DEF BallotStep
<1>7. ASSUME NEW n \in Server, RunElectionFails(n)
      PROVE  DiskCoversMemory' /\ LegalStep /\ BallotStep
  BY <1>7, LegalCandidate, FailureCovers, SMTT(30) DEF RunElectionFails, TimedOut, BallotStep, history
<1>8. ASSUME NEW n \in Server, StepDown(n) \/ StepDownFails(n)
      PROVE  DiskCoversMemory' /\ LegalStep /\ BallotStep
  <2>1. Legal(n, Seen(n, task[n].term))
    BY LegalSeen, SMTT(30) DEF TypeOK, Tasks
  <2>2. ballots' = ballots
    BY <1>8, SMTT(30) DEF StepDown, StepDownFails, history
  <2>3. CASE StepDown(n)
    BY <2>1, <2>2, <2>3, CommitCovers, SMTT(30) DEF StepDown, BecomeFollower, BallotStep
  <2>4. CASE StepDownFails(n)
    BY <2>1, <2>2, <2>4, FailureCovers, SMTT(30) DEF StepDownFails, BallotStep
  <2> QED
    BY <1>8, <2>3, <2>4, SMTT(30)
<1>9. ASSUME NEW n \in Server, Restart(n)
      PROVE  DiskCoversMemory' /\ LegalStep /\ BallotStep
  <2>1. /\ persistent'[n] = disk[n]
        /\ \A k \in Server \ {n} : persistent'[k] = persistent[k]
        /\ disk' = disk /\ ballots' = ballots
    BY <1>9 DEF Restart, TypeOK, history
  <2>2. disk[n] \in PersistentState /\ disk[n].CurrentTerm \in Int /\ Term(n) \in Int
    BY BoundAssumption, SMTT(30) DEF TypeOK, Term, PersistentState, Terms
  <2>3. Legal(n, disk[n])
    BY <2>2, SMTT(30) DEF DiskCoversMemory, Legal
  <2>4. LegalStep
    BY <2>1, <2>3, LegalStay, SMTT(30) DEF LegalStep
  <2>5. DiskCoversMemory'
    BY <2>1, <2>2, SMTT(30) DEF DiskCoversMemory, Term
  <2> QED
    BY <2>1, <2>4, <2>5, SMTT(30) DEF BallotStep
<1>10. ASSUME NEW n \in Server, NEW m \in msgs,
              \/ RefuseVote(n, m) \/ RefuseAppend(n, m) \/ HandleVoteResult(n, m)
              \/ HandleVoteHigherTerm(n, m) \/ HandleStepDown(n, m)
       PROVE  persistent' = persistent /\ disk' = disk /\ ballots' = ballots
  BY <1>10, Zenon DEF RefuseVote, RefuseAppend, HandleVoteResult, HandleVoteHigherTerm, HandleStepDown,
               nodeVars, stored, history
<1>11. ASSUME NEW n \in Server,
              \/ BecomeLeader(n) \/ CheckQuorum(n) \/ OpenRound(n) \/ ReplicateTo(n)
              \/ ContactLapses(n) \/ \E t \in Terms : StandDown(n, t)
       PROVE  persistent' = persistent /\ disk' = disk /\ ballots' = ballots
  BY <1>11 DEF BecomeLeader, CheckQuorum, OpenRound, ReplicateTo, ContactLapses, StandDown,
               nodeVars, stored, history
<1>12. CASE UNCHANGED vars
  BY <1>1, <1>12 DEF vars, nodeVars, stored, history
<1> QED
  BY <1>1, <1>2, <1>3, <1>4, <1>5, <1>6, <1>7, <1>8, <1>9, <1>10, <1>11, <1>12, SMTT(30)
  DEF Next, Receiver, ControlLoop, Campaign, Environment

\* A vote binds until the term moves on, so a second one in the same term can
\* only repeat it.
LEMMA VotesStep ==
    ASSUME TypeOK, TypeOK', BallotsBind, OneVotePerTerm, LegalStep, BallotStep
    PROVE  BallotsBind' /\ OneVotePerTerm'
<1> DEFINE Bound(b) == \/ persistent'[b[1]].CurrentTerm > b[2]
                       \/ /\ persistent'[b[1]].CurrentTerm = b[2]
                          /\ persistent'[b[1]].VotedFor = b[3]
<1>1. ASSUME NEW b \in ballots
      PROVE  Bound(b)
  <2>1. b[1] \in Server /\ b[2] \in Int /\ b[3] \in Server /\ b[3] # Nil
    BY ServerAssumption, BoundAssumption DEF TypeOK, Terms
  <2>2. Legal(b[1], persistent'[b[1]])
    BY <2>1 DEF LegalStep
  <2>3. Term(b[1]) \in Int /\ persistent'[b[1]].CurrentTerm \in Int
    BY <2>1, <2>2, BoundAssumption DEF TypeOK, Term, Legal, PersistentState, Terms
  <2> QED
    BY <2>1, <2>2, <2>3, SMTT(30) DEF BallotsBind, Legal, Term
<1>2. ASSUME NEW b \in ballots'
      PROVE  Bound(b)
  BY <1>1, <1>2 DEF BallotStep
<1>3. BallotsBind'
  BY <1>2 DEF BallotsBind, Term
<1>4. ASSUME NEW b \in ballots', NEW c \in ballots', b[1] = c[1], b[2] = c[2]
      PROVE  b[3] = c[3]
  <2>1. b[2] \in Int /\ persistent'[b[1]].CurrentTerm \in Int
    BY BoundAssumption DEF TypeOK, PersistentState, Terms
  <2>2. CASE b \in ballots /\ c \in ballots
    BY <1>4, <2>2 DEF OneVotePerTerm
  <2>3. CASE b \notin ballots \/ c \notin ballots
    <3>1. persistent'[b[1]].CurrentTerm = b[2]
      BY <1>4, <2>3, SMTT(30) DEF BallotStep
    <3>2. persistent'[b[1]].VotedFor = b[3] /\ persistent'[b[1]].VotedFor = c[3]
      BY <1>2, <1>4, <2>1, <3>1, SMTT(30)
    <3> QED
      BY <3>2
  <2> QED
    BY <2>2, <2>3
<1> QED
  BY <1>3, <1>4, SMTT(30) DEF OneVotePerTerm

\* A granting reply is sent only with the vote it reports.
LEMMA RepliesStep ==
    ASSUME TypeOK, RepliesHonest, BallotStep, [Next]_vars
    PROVE  RepliesHonest'
<1> DEFINE Grants(m) == m.type = "RequestVoteResp" /\ m.granted
<1>0. SUFFICES ASSUME NEW r \in msgs' \ msgs, Grants(r)
               PROVE  <<r.from, r.asked, r.to>> \in ballots'
  BY DEF RepliesHonest, BallotStep
<1>1. ASSUME NEW n \in Server, NEW m \in msgs, NEW u \in BOOLEAN, HandleRequestVote(n, m, u)
      PROVE  <<r.from, r.asked, r.to>> \in ballots'
  <2>1. r = VoteReply(n, m, m.term, MayGrant(n, m, u))
    BY <1>1 DEF HandleRequestVote, Reply, Send
  <2>2. MayGrant(n, m, u)
    BY <1>0, <2>1 DEF VoteReply
  <2>3. <<n, m.term, m.from>> \in ballots'
    BY <1>1, <2>2 DEF HandleRequestVote
  <2> QED
    BY <2>1, <2>3 DEF VoteReply
<1>2. ASSUME NEW n \in Server, NEW m \in msgs, NEW u \in BOOLEAN,
             \/ RefuseVote(n, m) \/ HandleRequestVoteFails(n, m, u)
      PROVE  FALSE
  <2>1. r = VoteReply(n, m, Term(n), FALSE)
    BY <1>2, Zenon DEF RefuseVote, HandleRequestVoteFails, Reply, Send
  <2> QED
    BY <1>0, <2>1 DEF VoteReply
<1>3. ASSUME NEW n \in Server, NEW m \in msgs,
             \/ RefuseAppend(n, m) \/ HandleAppendEntries(n, m) \/ HandleAppendEntriesFails(n, m)
      PROVE  FALSE
  <2>1. \E t : r = AppendReply(m, t)
    BY <1>3 DEF RefuseAppend, HandleAppendEntries, HandleAppendEntriesFails, Reply, Send
  <2> QED
    BY <1>0, <2>1 DEF AppendReply
<1>4. ASSUME NEW n \in Server, RunElection(n)
      PROVE  FALSE
  BY <1>0, <1>4, SMTT(30) DEF RunElection, Send
<1>5. ASSUME NEW n \in Server, ReplicateTo(n)
      PROVE  FALSE
  BY <1>0, <1>5, SMTT(30) DEF ReplicateTo, Send
<1>6. ASSUME NEW n \in Server, NEW m \in msgs,
             \/ HandleVoteResult(n, m) \/ HandleVoteHigherTerm(n, m) \/ HandleStepDown(n, m)
      PROVE  FALSE
  BY <1>0, <1>6, SMTT(30) DEF HandleVoteResult, HandleVoteHigherTerm, HandleStepDown
<1>7. ASSUME NEW n \in Server,
             \/ RunElectionFails(n) \/ BecomeLeader(n) \/ CheckQuorum(n) \/ StepDown(n)
             \/ StepDownFails(n) \/ OpenRound(n) \/ ContactLapses(n) \/ Restart(n)
             \/ \E t \in Terms : StandDown(n, t)
      PROVE  FALSE
  BY <1>0, <1>7, ZenonT(30) DEF RunElectionFails, BecomeLeader, CheckQuorum, StepDown, StepDownFails,
                    OpenRound, ContactLapses, Restart, StandDown
<1>8. CASE UNCHANGED vars
  BY <1>0, <1>8, SMTT(30) DEF vars
<1> QED
  BY <1>1, <1>2, <1>3, <1>4, <1>5, <1>6, <1>7, <1>8, Zenon
  DEF Next, Receiver, ControlLoop, Campaign, Environment

(***************************************************************************)
(* Tallies and promotions                                                   *)
(***************************************************************************)

\* TallyHonest, PromotionHasQuorum and LeaderWasPromoted at one node.
NodeOK(n) ==
    /\ Role[n] = "Candidate" => \A v \in votesFrom[n] : <<v, Term(n), n>> \in ballots
    /\ task[n].kind = "promote" /\ Role[n] = "Candidate" /\ Term(n) = task[n].term
           => HasQuorum(Config, votesFrom[n])
    /\ Role[n] = "Leader" => <<Term(n), n>> \in elected

AllNodesOK == \A n \in Server : NodeOK(n)

LEMMA AllNodesOKIs == AllNodesOK <=> TallyHonest /\ PromotionHasQuorum /\ LeaderWasPromoted
  BY ZenonT(30) DEF AllNodesOK, NodeOK, TallyHonest, PromotionHasQuorum, LeaderWasPromoted

\* Two ways a step leaves a node in order: it makes the node a follower, or it
\* keeps role, term and tally and starts no promotion.
LEMMA FollowerOK ==
    ASSUME NEW k \in Server, Role'[k] = "Follower"
    PROVE  NodeOK(k)'
  BY SMTT(30) DEF NodeOK

LEMMA UndisturbedOK ==
    ASSUME NEW k \in Server, NodeOK(k), Role'[k] = Role[k], Term(k)' = Term(k),
           votesFrom'[k] = votesFrom[k],
           task'[k] = task[k] \/ task'[k].kind # "promote",
           ballots \subseteq ballots', elected \subseteq elected'
    PROVE  NodeOK(k)'
  BY ZenonT(30) DEF NodeOK, Term

LEMMA LeadershipStep ==
    ASSUME TypeOK, RepliesHonest, AllNodesOK, ElectedByQuorum, BallotStep, [Next]_vars
    PROVE  AllNodesOK' /\ ElectedByQuorum'
<1>0. ballots \subseteq ballots'
  BY DEF BallotStep
<1>1. ASSUME elected' = elected
      PROVE  ElectedByQuorum'
  BY <1>0, <1>1, SMTT(30) DEF ElectedByQuorum
<1>2. ASSUME NEW n \in Server, NEW m \in msgs, NEW u \in BOOLEAN, HandleRequestVote(n, m, u)
      PROVE  AllNodesOK' /\ elected' = elected
  <2>1. /\ m.term \in Int /\ Term(n) \in Int /\ m.term >= Term(n)
        /\ CommitPersistent(n, VoteDecision(n, m, u))
        /\ VoteDecision(n, m, u).CurrentTerm = m.term
    <3>1. /\ m.type = "RequestVote" /\ m.term >= Term(n)
          /\ CommitPersistent(n, VoteDecision(n, m, u))
      BY <1>2, SMTT(30) DEF HandleRequestVote
    <3>2. m.term \in Terms /\ VoteDecision(n, m, u).CurrentTerm = m.term
      BY <3>1, DecisionFacts
    <3>3. Term(n) \in Terms
      BY SMTT(30) DEF TypeOK, Term, PersistentState
    <3> QED
      BY <3>1, <3>2, <3>3, BoundAssumption, SMTT(30) DEF Terms
  <2>2. ASSUME NEW k \in Server \ {n}
        PROVE  NodeOK(k)'
    BY <1>0, <1>2, UndisturbedOK, ZenonT(30)
    DEF AllNodesOK, HandleRequestVote, CommitPersistent, TypeOK, Term
  <2>3. ASSUME m.term > Term(n)
        PROVE  NodeOK(n)'
    BY <1>2, <2>3, FollowerOK, Zenon DEF HandleRequestVote, TypeOK
  <2>4. ASSUME m.term = Term(n)
        PROVE  NodeOK(n)'
    <3>1. Term(n)' = Term(n)
      BY <2>1, <2>4 DEF CommitPersistent, TypeOK, Term
    <3>2. Role'[n] = Role[n]
      <4>1. Role' = [Role EXCEPT ![n] = IF m.term > Term(n) THEN "Follower" ELSE @]
        BY <1>2 DEF HandleRequestVote
      <4> QED
        BY <2>1, <2>4, <4>1, SMTT(30) DEF TypeOK
    <3> QED
      BY <1>0, <1>2, <3>1, <3>2, UndisturbedOK, Zenon DEF AllNodesOK, HandleRequestVote
  <2>5. NodeOK(n)'
    BY <2>1, <2>3, <2>4
  <2> QED
    BY <1>2, <2>2, <2>5 DEF AllNodesOK, HandleRequestVote
<1>3. ASSUME NEW n \in Server,
             \/ \E m \in msgs : HandleAppendEntries(n, m)
             \/ StepDown(n)
             \/ Restart(n)
      PROVE  AllNodesOK' /\ elected' = elected
  <2>1. /\ Role' = [Role EXCEPT ![n] = "Follower"]
        /\ \E next : persistent' = [persistent EXCEPT ![n] = next]
        /\ task' = task \/ task' = [task EXCEPT ![n] = Idle]
        /\ votesFrom' = votesFrom \/ votesFrom' = [votesFrom EXCEPT ![n] = {}]
        /\ elected' = elected
    BY <1>3, Zenon DEF HandleAppendEntries, StepDown, Restart, BecomeFollower, CommitPersistent, Done,
                history
  <2>2. ASSUME NEW k \in Server \ {n}
        PROVE  NodeOK(k)'
    <3>1. /\ Role'[k] = Role[k] /\ persistent'[k] = persistent[k]
          /\ task'[k] = task[k] /\ votesFrom'[k] = votesFrom[k]
      BY <2>1 DEF TypeOK
    <3> QED
      BY <1>0, <2>1, <3>1, UndisturbedOK, SMTT(30) DEF AllNodesOK, Term
  <2>3. NodeOK(n)'
    BY <2>1, FollowerOK DEF TypeOK
  <2> QED
    BY <2>1, <2>2, <2>3, SMTT(30) DEF AllNodesOK
<1>4. ASSUME NEW n \in Server, RunElection(n)
      PROVE  AllNodesOK' /\ elected' = elected
  <2>1. ASSUME NEW k \in Server \ {n}
        PROVE  NodeOK(k)'
    BY <1>0, <1>4, UndisturbedOK, SMTT(30)
    DEF AllNodesOK, RunElection, TimedOut, CommitPersistent, Then, TypeOK, Term
  <2>2. /\ Role'[n] = "Candidate" /\ Term(n)' = Term(n) + 1 /\ votesFrom'[n] = {n}
        /\ <<n, Term(n) + 1, n>> \in ballots'
    BY <1>4, SMTT(30) DEF RunElection, CommitPersistent, TypeOK, Term
  <2>3. ASSUME Peers(Config, n) = {}
        PROVE  NodeOK(n)'
    <3>1. HasQuorum(Config, votesFrom'[n])
      BY <2>2, <2>3, AloneIsQuorum
    <3>2. \A v \in votesFrom'[n] : <<v, Term(n)', n>> \in ballots'
      BY <2>2
    <3> QED
      BY <2>2, <3>1, <3>2, Zenon DEF NodeOK
  <2>4. ASSUME Peers(Config, n) # {}
        PROVE  NodeOK(n)'
    <3>1. task'[n].kind # "promote"
      <4>1. task' = task
        BY <1>4, <2>4, Zenon DEF RunElection
      <4>2. task[n] = Idle
        BY <1>4, SMTT(30) DEF RunElection, TimedOut
      <4> QED
        BY <4>1, <4>2 DEF Idle
    <3>2. \A v \in votesFrom'[n] : <<v, Term(n)', n>> \in ballots'
      BY <2>2
    <3> QED
      BY <2>2, <3>1, <3>2, SMTT(30) DEF NodeOK
  <2>5. NodeOK(n)' /\ elected' = elected
    BY <1>4, <2>3, <2>4, SMTT(30) DEF RunElection
  <2> QED
    BY <2>1, <2>5, SMTT(30) DEF AllNodesOK
<1>5. ASSUME NEW n \in Server, NEW m \in msgs, HandleVoteResult(n, m)
      PROVE  AllNodesOK' /\ elected' = elected
  <2>1. ASSUME NEW k \in Server \ {n}
        PROVE  NodeOK(k)'
    <3>1. /\ Role'[k] = Role[k] /\ persistent'[k] = persistent[k] /\ task'[k] = task[k]
          /\ votesFrom'[k] = votesFrom[k] /\ elected' = elected
      BY <1>5, SMTT(30) DEF HandleVoteResult, Then, TypeOK, stored, history
    <3>2. NodeOK(k) /\ k \in Server
      BY Zenon DEF AllNodesOK
    <3>3. Term(k)' = Term(k) /\ elected \subseteq elected'
      BY <3>1, Zenon DEF Term
    <3> QED
      BY <1>0, <3>1, <3>2, <3>3, UndisturbedOK, Zenon
  <2>2. /\ Role'[n] = "Candidate" /\ Role[n] = "Candidate" /\ Term(n)' = Term(n)
        /\ votesFrom'[n] = votesFrom[n] \cup {m.from}
        /\ m.asked = Term(n) /\ m.to = n /\ m.type = "RequestVoteResp" /\ m.granted
        /\ ballots' = ballots /\ elected' = elected
    BY <1>5, SMTT(30) DEF HandleVoteResult, VoteReceived, TypeOK, Term, stored, history
  <2>3. <<m.from, Term(n), n>> \in ballots
    BY <2>2 DEF RepliesHonest
  <2>4. \A v \in votesFrom[n] : <<v, Term(n), n>> \in ballots
    BY <2>2, Zenon DEF AllNodesOK, NodeOK
  <2>5. HasQuorum(Config, votesFrom'[n]) \/ task'[n].kind # "promote"
    <3>1. task[n] = Idle
      BY <1>5, Zenon DEF HandleVoteResult, VoteReceived
    <3>2. HasQuorum(Config, votesFrom'[n]) \/ task' = task
      BY <1>5, Zenon DEF HandleVoteResult
    <3>3. Idle.kind # "promote"
      BY DEF Idle
    <3> QED
      BY <3>1, <3>2, <3>3, Zenon
  <2> QED
    BY <2>1, <2>2, <2>3, <2>4, <2>5, ZenonT(30) DEF AllNodesOK, NodeOK, Term
<1>6. ASSUME NEW n \in Server, BecomeLeader(n)
      PROVE  AllNodesOK' /\ ElectedByQuorum'
  <2>1. elected \subseteq elected' /\ task'[n].kind = "idle"
    BY <1>6, SMTT(30) DEF BecomeLeader, Done, Idle, TypeOK
  <2>2. ASSUME NEW k \in Server \ {n}
        PROVE  NodeOK(k)'
    <3>1. Role'[k] = Role[k] /\ persistent'[k] = persistent[k] /\ task'[k] = task[k]
          /\ votesFrom'[k] = votesFrom[k]
      BY <1>6 DEF BecomeLeader, Done, TypeOK, stored
    <3>2. NodeOK(k) /\ k \in Server
      BY Zenon DEF AllNodesOK
    <3>3. Term(k)' = Term(k)
      BY <3>1, Zenon DEF Term
    <3> QED
      BY <1>0, <2>1, <3>1, <3>2, <3>3, UndisturbedOK, Zenon
  <2>3. CASE Role[n] = "Candidate" /\ Term(n) = task[n].term
    <3>1. /\ Role'[n] = "Leader" /\ Term(n)' = Term(n) /\ ballots' = ballots
          /\ elected' = elected \cup {<<Term(n), n>>}
      <4>1. /\ Role' = [Role EXCEPT ![n] = "Leader"] /\ persistent' = persistent
            /\ ballots' = ballots /\ elected' = elected \cup {<<Term(n), n>>}
        BY <1>6, <2>3, Zenon DEF BecomeLeader, stored
      <4>2. DOMAIN Role = Server
        BY DEF TypeOK
      <4>3. Role'[n] = "Leader"
        BY <4>1, <4>2, Zenon
      <4>4. Term(n)' = Term(n)
        BY <4>1, Zenon DEF Term
      <4> QED
        BY <4>1, <4>3, <4>4, Zenon
    <3>2. NodeOK(n)'
      BY <3>1, ZenonT(30) DEF NodeOK, Term
    <3>3. /\ HasQuorum(Config, votesFrom[n])
          /\ \A v \in votesFrom[n] : <<v, Term(n), n>> \in ballots
          /\ votesFrom[n] \in SUBSET Server
      BY <1>6, <2>3, Zenon DEF AllNodesOK, NodeOK, BecomeLeader, TypeOK
    <3>4. ElectedByQuorum'
      <4>1. ASSUME NEW e \in elected'
            PROVE  \E Q \in SUBSET Server :
                       HasQuorum(Config, Q) /\ \A v \in Q : <<v, e[1], e[2]>> \in ballots
        <5>1. CASE e \in elected
          BY <5>1 DEF ElectedByQuorum
        <5>2. CASE e = <<Term(n), n>>
          <6>1. e[1] = Term(n) /\ e[2] = n
            BY <5>2
          <6> QED
            BY <3>3, <6>1
        <5> QED
          BY <3>1, <4>1, <5>1, <5>2
      <4> QED
        BY <3>1, <4>1 DEF ElectedByQuorum
    <3> QED
      BY <2>2, <3>2, <3>4, Zenon DEF AllNodesOK
  <2>4. CASE ~(Role[n] = "Candidate" /\ Term(n) = task[n].term)
    <3>1. /\ Role' = Role /\ persistent' = persistent /\ votesFrom' = votesFrom
          /\ elected' = elected
      BY <1>6, <2>4, Zenon DEF BecomeLeader, stored
    <3>2. NodeOK(n)'
      <4>1. task'[n].kind # "promote"
        BY <2>1
      <4>2. NodeOK(n) /\ Term(n)' = Term(n)
        BY <3>1, Zenon DEF AllNodesOK, Term
      <4> QED
        BY <1>0, <2>1, <3>1, <4>1, <4>2, UndisturbedOK, Zenon
    <3> QED
      BY <1>1, <2>2, <3>1, <3>2, Zenon DEF AllNodesOK
  <2> QED
    BY <2>3, <2>4, Zenon
<1>7. ASSUME NEW n \in Server,
             \/ \E m \in msgs : \/ RefuseVote(n, m) \/ RefuseAppend(n, m)
                                \/ \E u \in BOOLEAN : HandleRequestVoteFails(n, m, u)
                                \/ HandleAppendEntriesFails(n, m)
                                \/ HandleVoteHigherTerm(n, m) \/ HandleStepDown(n, m)
             \/ RunElectionFails(n) \/ CheckQuorum(n) \/ StepDownFails(n)
             \/ OpenRound(n) \/ ReplicateTo(n) \/ ContactLapses(n)
             \/ \E t \in Terms : StandDown(n, t)
      PROVE  AllNodesOK' /\ elected' = elected
  <2>1. /\ Role' = Role /\ persistent' = persistent /\ votesFrom' = votesFrom
        /\ elected' = elected
    BY <1>7, ZenonT(30) DEF RefuseVote, RefuseAppend, HandleRequestVoteFails, HandleAppendEntriesFails,
                HandleVoteHigherTerm, HandleStepDown, RunElectionFails, CheckQuorum,
                StepDownFails, OpenRound, ReplicateTo, ContactLapses, StandDown, PersistFails,
                nodeVars, stored, history
  <2>2. \/ task' = task
        \/ task' = [task EXCEPT ![n] = Idle]
        \/ \E t : task' = [task EXCEPT ![n] = [kind |-> "stepdown", term |-> t]]
    BY <1>7, ZenonT(30) DEF RefuseVote, RefuseAppend, HandleRequestVoteFails, HandleAppendEntriesFails,
                HandleVoteHigherTerm, HandleStepDown, RunElectionFails, CheckQuorum,
                StepDownFails, OpenRound, ReplicateTo, ContactLapses, StandDown, Then, Done
  <2>3. ASSUME NEW k \in Server
        PROVE  task'[k] = task[k] \/ task'[k].kind # "promote"
    <3>0. DOMAIN task = Server
      BY DEF TypeOK
    <3>1. CASE task' = task
      BY <3>1, Zenon
    <3>2. CASE task' = [task EXCEPT ![n] = Idle]
      <4>1. task'[k] = task[k] \/ task'[k] = Idle
        BY <3>0, <3>2, Zenon
      <4> QED
        BY <4>1 DEF Idle
    <3>3. ASSUME NEW t, task' = [task EXCEPT ![n] = [kind |-> "stepdown", term |-> t]]
          PROVE  task'[k] = task[k] \/ task'[k].kind # "promote"
      <4>1. task'[k] = task[k] \/ task'[k] = [kind |-> "stepdown", term |-> t]
        BY <3>0, <3>3, Zenon
      <4> QED
        BY <4>1, SMTT(30)
    <3> QED
      BY <2>2, <3>1, <3>2, <3>3, Zenon
  <2>4. ASSUME NEW k \in Server
        PROVE  NodeOK(k)'
    <3>1. NodeOK(k) /\ Role'[k] = Role[k] /\ votesFrom'[k] = votesFrom[k]
      BY <2>1 DEF AllNodesOK
    <3>2. Term(k)' = Term(k) /\ elected \subseteq elected'
      BY <2>1 DEF Term
    <3>3. task'[k] = task[k] \/ task'[k].kind # "promote"
      BY <2>3, Zenon
    <3> QED
      BY <1>0, <3>1, <3>2, <3>3, UndisturbedOK, Zenon
  <2> QED
    BY <2>1, <2>4, Zenon DEF AllNodesOK
<1>8. CASE UNCHANGED vars
  BY <1>0, <1>1, <1>8, UndisturbedOK, SMTT(30) DEF AllNodesOK, Term, vars, nodeVars, stored, history
<1> QED
  BY <1>1, <1>2, <1>3, <1>4, <1>5, <1>6, <1>7, <1>8, SMTT(30)
  DEF Next, Receiver, ControlLoop, Campaign, Environment

(***************************************************************************)
(* The theorems                                                             *)
(***************************************************************************)

LEMMA IndInvInit == Init => IndInv
<1> SUFFICES ASSUME Init PROVE IndInv
  OBVIOUS
<1>1. TypeOK
  BY TypeInit, SMTT(30)
<1>2. DiskCoversMemory
  BY <1>1, BoundAssumption, SMTT(30) DEF Init, DiskCoversMemory, Term
<1>3. TallyHonest /\ PromotionHasQuorum /\ LeaderWasPromoted
  BY DEF Init, TallyHonest, PromotionHasQuorum, LeaderWasPromoted
<1> QED
  BY <1>1, <1>2, <1>3, SMTT(30)
  DEF Init, IndInv, BallotsBind, OneVotePerTerm, RepliesHonest, ElectedByQuorum

LEMMA IndInvStep == IndInv /\ [Next]_vars => IndInv' /\ LegalStep
<1> SUFFICES ASSUME IndInv, [Next]_vars PROVE IndInv' /\ LegalStep
  OBVIOUS
<1>1. TypeOK /\ TypeOK'
  BY TypeStep DEF IndInv
<1>2. DiskCoversMemory' /\ LegalStep /\ BallotStep
  BY DurableStep DEF IndInv
<1>3. BallotsBind' /\ OneVotePerTerm'
  BY <1>1, <1>2, VotesStep DEF IndInv
<1>4. RepliesHonest'
  BY <1>2, RepliesStep DEF IndInv
<1>5. AllNodesOK' /\ ElectedByQuorum'
  BY <1>2, AllNodesOKIs, LeadershipStep, SMTT(30) DEF IndInv
<1>6. (AllNodesOK <=> TallyHonest /\ PromotionHasQuorum /\ LeaderWasPromoted)'
  BY Zenon DEF AllNodesOK, NodeOK, TallyHonest, PromotionHasQuorum, LeaderWasPromoted
<1> QED
  BY <1>1, <1>2, <1>3, <1>4, <1>5, <1>6, SMTT(30) DEF IndInv

\* Two promotions in one term would need two quorums of ballots; they share a
\* voter, who voted once.
LEMMA IndInvSafe == IndInv => ElectionSafety
<1> SUFFICES ASSUME IndInv, NEW e \in elected, NEW f \in elected, e[1] = f[1]
             PROVE  e[2] = f[2]
  BY DEF ElectionSafety
<1>1. PICK P \in SUBSET Server :
          HasQuorum(Config, P) /\ \A v \in P : <<v, e[1], e[2]>> \in ballots
  BY DEF IndInv, ElectedByQuorum
<1>2. PICK Q \in SUBSET Server :
          HasQuorum(Config, Q) /\ \A v \in Q : <<v, f[1], f[2]>> \in ballots
  BY DEF IndInv, ElectedByQuorum
<1>3. PICK v : v \in P \cap Q
  BY <1>1, <1>2, QuorumsIntersect, ServerAssumption, ConfigAssumption, SMTT(30)
<1>4. <<v, e[1], e[2]>> \in ballots /\ <<v, f[1], f[2]>> \in ballots
  BY <1>1, <1>2, <1>3
<1> QED
  BY <1>4 DEF IndInv, OneVotePerTerm

\* No node votes for two candidates in one term, across restarts and failed or
\* half-failed metadata writes (HandleRequestVote, commitPersistentLocked).
THEOREM VoteOnce == Spec => []OneVotePerTerm
<1>1. IndInv => OneVotePerTerm
  BY DEF IndInv
<1> QED
  BY <1>1, IndInvInit, IndInvStep, PTL DEF Spec

\* At most one node is promoted in any term (handleVoteResult, BecomeLeader),
\* whatever the configuration, joint ones included.
THEOREM OneLeaderPerTerm == Spec => []ElectionSafety
  BY IndInvInit, IndInvStep, IndInvSafe, PTL DEF Spec

\* A node acts as leader only in a term it was promoted in.
THEOREM LeadersArePromoted == Spec => []LeaderWasPromoted
<1>1. IndInv => LeaderWasPromoted
  BY DEF IndInv
<1> QED
  BY <1>1, IndInvInit, IndInvStep, PTL DEF Spec

\* A node's term never decreases, restarts included (commitPersistentLocked,
\* loadPersistentState).
THEOREM TermsAreMonotonic == Spec => TermNeverRegresses
<1>1. IndInv /\ [Next]_vars
        => [\A n \in Server : persistent'[n].CurrentTerm >= persistent[n].CurrentTerm]_vars
  <2> SUFFICES ASSUME IndInv, [Next]_vars, NEW n \in Server
               PROVE  persistent'[n].CurrentTerm >= persistent[n].CurrentTerm
    OBVIOUS
  <2>1. Legal(n, persistent'[n])
    BY IndInvStep, SMTT(30) DEF LegalStep
  <2>2. persistent[n].CurrentTerm \in Int /\ persistent'[n].CurrentTerm \in Int
    BY <2>1, BoundAssumption DEF IndInv, TypeOK, Legal, PersistentState, Terms
  <2> QED
    BY <2>1, <2>2 DEF Legal, Term
<1> QED
  BY <1>1, IndInvInit, IndInvStep, PTL DEF Spec, TermNeverRegresses
=============================================================================
