---------------------------- MODULE PreVoteProofs ----------------------------
(***************************************************************************)
(* Every campaign rests on a poll of its own that a quorum granted, for     *)
(* every set of servers, every configuration and all values of the bounds.  *)
(***************************************************************************)
EXTENDS PreVote, ConfigurationProofs

(***************************************************************************)
(* The inductive invariant                                                  *)
(***************************************************************************)

Granted(n, p) == {n} \cup {v \in Server : <<v, n, p>> \in grants}

\* A node has reached every term it campaigned in.
CampaignsReached == \A c \in campaigns : c[2] >= 1 /\ c[2] <= term[c[1]]

\* A poll is never for a term past the node's next one.
PollIsNext == \A n \in Server : preVoteTerm[n] <= term[n] + 1

\* Every vote tallied was granted to the poll that is open.
TallyGranted ==
    \A n \in Server : preVoteTerm[n] # 0 => preVotes[n] \subseteq Granted(n, preVoteTerm[n])

\* A carried poll has its quorum, is for no term past the next one, and is
\* younger than the node's campaigns.
CarriedGranted ==
    \A n \in Server : carried[n] # 0 =>
        /\ carried[n] <= term[n] + 1
        /\ \A c \in campaigns : c[1] = n => c[2] < carried[n]
        /\ HasQuorum(Config, Granted(n, carried[n]))

\* A refusal is kept only if it comes from a term the poll would not reach.
RefusalsPast == \A r \in refusals : r[3] >= r[2]

\* PolledCampaign with the campaigns of one node written out.
PolledOne(c) ==
    \/ Peers(Config, c[1]) = {}
    \/ \E p \in 1..c[2] :
          /\ \A d \in campaigns : d[1] = c[1] /\ d[2] < c[2] => d[2] < p
          /\ HasQuorum(Config, Granted(c[1], p))

AllPolled == \A c \in campaigns : PolledOne(c)

IndInv ==
    /\ TypeOK
    /\ CampaignsReached
    /\ PollIsNext
    /\ TallyGranted
    /\ CarriedGranted
    /\ RefusalsPast
    /\ AllPolled

(***************************************************************************)
(* Steps that do not touch the poll                                         *)
(***************************************************************************)

\* Terms grow, grants are added, and a poll is kept or dropped as a whole.
Kept ==
    /\ \A n \in Server : term'[n] >= term[n]
    /\ grants \subseteq grants'
    /\ campaigns' = campaigns
    /\ \A n \in Server : preVoteTerm'[n] = 0
                           \/ (preVoteTerm'[n] = preVoteTerm[n] /\ preVotes'[n] = preVotes[n])
    /\ \A n \in Server : carried'[n] \in {0, carried[n]}

\* A step that neither opens a poll, nor counts a vote, nor campaigns (Kept)
\* keeps the invariant.
LEMMA Undisturbed ==
    ASSUME IndInv, TypeOK', RefusalsPast', Kept
    PROVE  IndInv'
<1> USE PreVoteAssumption DEF Kept
<1>1. ASSUME NEW n \in Server
      PROVE  /\ term[n] \in Int /\ term'[n] \in Int /\ preVoteTerm[n] \in Int /\ carried[n] \in Int
             /\ term[n] >= 0 /\ term'[n] >= term[n]
  BY DEF IndInv, TypeOK, Terms
<1>2. ASSUME NEW n \in Server, NEW p, HasQuorum(Config, Granted(n, p))
      PROVE  HasQuorum(Config, Granted(n, p)')
  BY <1>2, QuorumGrows, Granted(n, p) \subseteq Granted(n, p)', Zenon DEF Granted
<1>3. ASSUME NEW c \in campaigns
      PROVE  c[1] \in Server /\ c[2] \in Int
  BY DEF IndInv, TypeOK, Terms
<1>4. CampaignsReached'
  BY <1>1, <1>3 DEF IndInv, CampaignsReached
<1>5. PollIsNext'
  BY <1>1 DEF IndInv, PollIsNext
<1>6. TallyGranted'
  BY DEF IndInv, TallyGranted, Granted
<1>7. CarriedGranted'
  <2> SUFFICES ASSUME NEW n \in Server, carried'[n] # 0
               PROVE  /\ carried'[n] <= term'[n] + 1
                      /\ \A c \in campaigns' : c[1] = n => c[2] < carried'[n]
                      /\ HasQuorum(Config, Granted(n, carried[n])')
                      /\ carried'[n] = carried[n]
    BY DEF CarriedGranted, Granted
  <2>1. carried'[n] = carried[n] /\ carried[n] # 0
    OBVIOUS
  <2>2. /\ carried[n] <= term[n] + 1
        /\ \A c \in campaigns : c[1] = n => c[2] < carried[n]
        /\ HasQuorum(Config, Granted(n, carried[n]))
    BY <2>1 DEF IndInv, CarriedGranted
  <2> QED
    BY <1>1, <1>2, <2>1, <2>2
<1>8. AllPolled'
  <2> SUFFICES ASSUME NEW c \in campaigns
               PROVE  PolledOne(c)'
    BY DEF AllPolled
  <2>1. PolledOne(c)
    BY DEF IndInv, AllPolled
  <2> QED
    BY <1>2, <1>3, <2>1 DEF PolledOne
<1> QED
  BY <1>4, <1>5, <1>6, <1>7, <1>8 DEF IndInv

(***************************************************************************)
(* The steps                                                                *)
(***************************************************************************)

\* What is known of the campaigns rests on the grants alone.
LEMMA Unpolled ==
    ASSUME grants' = grants, campaigns' = campaigns, term' = term
    PROVE  /\ AllPolled => AllPolled'
           /\ carried' = carried /\ CarriedGranted => CarriedGranted'
<1>2. ASSUME NEW c
      PROVE  PolledOne(c)' = PolledOne(c)
  BY DEF PolledOne, Granted
<1>3. AllPolled => AllPolled'
  BY <1>2 DEF AllPolled
<1>4. carried' = carried /\ CarriedGranted => CarriedGranted'
  BY DEF CarriedGranted, Granted
<1> QED
  BY <1>3, <1>4

\* startPreVote opens the poll with the candidate's own vote.
LEMMA StartStep ==
    ASSUME IndInv, NEW n \in Server, StartPreVote(n)
    PROVE  IndInv'
<1> USE PreVoteAssumption
<1>1. /\ preVoteTerm' = [preVoteTerm EXCEPT ![n] = term[n] + 1]
      /\ preVotes' = [preVotes EXCEPT ![n] = {n}]
      /\ polls' = polls \cup {<<n, term[n] + 1>>}
      /\ UNCHANGED <<term, Role, leaderLive, carried, grants, refusals, campaigns, faults>>
  BY DEF StartPreVote, node
<1>2. term[n] + 1 \in Terms /\ carried[n] = 0
  BY DEF IndInv, TypeOK, Terms, StartPreVote, TimedOut, LoopFree
<1>3. TypeOK'
  BY <1>1, <1>2 DEF IndInv, TypeOK
<1>4. PollIsNext' /\ TallyGranted'
  BY <1>1, <1>2 DEF IndInv, TypeOK, PollIsNext, TallyGranted, Granted, Terms
<1>5. CampaignsReached' /\ RefusalsPast'
  BY <1>1 DEF IndInv, CampaignsReached, RefusalsPast
<1>6. CarriedGranted' /\ AllPolled'
  BY <1>1, Unpolled DEF IndInv
<1> QED
  BY <1>3, <1>4, <1>5, <1>6 DEF IndInv

\* handlePreVoteResult: the tally grows by a grant of the open poll, and a quorum
\* turns it into the carried poll.
LEMMA ResultStep ==
    ASSUME IndInv, NEW n \in Server, NEW g \in grants, HandlePreVoteResult(n, g)
    PROVE  IndInv'
<1> USE PreVoteAssumption
<1> DEFINE votes == preVotes[n] \cup {g[1]}
<1>1. /\ g[2] = n /\ g[1] \in Server /\ g[3] = preVoteTerm[n] /\ term[n] < g[3] /\ carried[n] = 0
      /\ preVotes' = [preVotes EXCEPT ![n] = votes]
      /\ UNCHANGED <<term, Role, leaderLive, polls, grants, refusals, campaigns, faults>>
  BY DEF HandlePreVoteResult, Concerns, LoopFree, node, replies, IndInv, TypeOK
<1>2. /\ g = <<g[1], n, preVoteTerm[n]>>
      /\ preVoteTerm[n] \in Terms /\ term[n] \in Terms /\ preVoteTerm[n] # 0
  BY <1>1 DEF IndInv, TypeOK, Terms
<1>3. votes \subseteq Granted(n, preVoteTerm[n])
  BY <1>1, <1>2 DEF IndInv, TallyGranted, Granted
<1>4. CampaignsReached' /\ RefusalsPast' /\ AllPolled'
  BY <1>1, Unpolled DEF IndInv, CampaignsReached, RefusalsPast
<1>5. CASE HasQuorum(Config, votes)
  <2>1. /\ preVoteTerm' = [preVoteTerm EXCEPT ![n] = 0]
        /\ carried' = [carried EXCEPT ![n] = preVoteTerm[n]]
    BY <1>5 DEF HandlePreVoteResult, Closed
  <2>2. TypeOK'
    BY <1>1, <1>2, <2>1 DEF IndInv, TypeOK, Terms
  <2>3. PollIsNext' /\ TallyGranted'
    BY <1>1, <1>2, <2>1 DEF IndInv, TypeOK, PollIsNext, TallyGranted, Granted, Terms
  <2>4. HasQuorum(Config, Granted(n, preVoteTerm[n]))
    BY <1>3, <1>5, QuorumGrows
  <2>5. \A c \in campaigns : c[1] = n => c[2] < preVoteTerm[n]
    BY <1>1, <1>2 DEF IndInv, TypeOK, CampaignsReached, Terms
  <2>6. preVoteTerm[n] <= term[n] + 1
    BY DEF IndInv, PollIsNext
  <2>7. \A k \in Server : carried'[k] = IF k = n THEN preVoteTerm[n] ELSE carried[k]
    BY <2>1 DEF IndInv, TypeOK
  <2>8. \A k \in Server : \A p : Granted(k, p)' = Granted(k, p)
    BY <1>1 DEF Granted
  <2>9. CarriedGranted'
    <3>1. SUFFICES ASSUME NEW k \in Server, carried'[k] # 0
                   PROVE  /\ carried'[k] <= term[k] + 1
                          /\ \A c \in campaigns : c[1] = k => c[2] < carried'[k]
                          /\ HasQuorum(Config, Granted(k, carried'[k]))
      BY <1>1, <2>8, Zenon DEF CarriedGranted
    <3>2. CASE k = n
      BY <2>4, <2>5, <2>6, <2>7, <3>2, Zenon
    <3>3. CASE k # n
      BY <2>7, <3>1, <3>3, Zenon DEF IndInv, CarriedGranted
    <3> QED
      BY <3>2, <3>3
  <2> QED
    BY <1>4, <2>2, <2>3, <2>9 DEF IndInv
<1>6. CASE ~HasQuorum(Config, votes)
  <2>1. UNCHANGED <<preVoteTerm, carried>>
    BY <1>6 DEF HandlePreVoteResult
  <2>2. TypeOK'
    BY <1>1, <2>1 DEF IndInv, TypeOK
  <2>3. TallyGranted'
    BY <1>1, <1>3, <2>1 DEF IndInv, TypeOK, TallyGranted, Granted
  <2>4. PollIsNext' /\ CarriedGranted'
    BY <1>1, <2>1 DEF IndInv, PollIsNext, CarriedGranted, Granted
  <2> QED
    BY <1>4, <2>2, <2>3, <2>4 DEF IndInv
<1> QED
  BY <1>5, <1>6

\* The carried poll is the new campaign's, and no older campaign is disturbed
\* by a younger one.
LEMMA CampaignStep ==
    ASSUME IndInv, NEW n \in Server, Campaign(n), RunElection(n)
    PROVE  IndInv'
<1> USE PreVoteAssumption
<1> DEFINE t == term[n] + 1
<1>1. /\ term' = [term EXCEPT ![n] = t]
      /\ Role' = [Role EXCEPT ![n] = "Candidate"]
      /\ leaderLive' = [leaderLive EXCEPT ![n] = FALSE]
      /\ campaigns' = campaigns \cup {<<n, t>>}
      /\ UNCHANGED <<preVoteTerm, preVotes, polls, grants, refusals, faults>>
  BY DEF Campaign, RunElection, replies
<1>2. carried' = carried \/ carried' = [carried EXCEPT ![n] = 0]
  BY DEF Campaign
<1>3. t \in Terms /\ t >= 1 /\ term[n] \in Nat
  BY DEF IndInv, TypeOK, Terms, RunElection
<1>4. carried'[n] = 0
  BY DEF IndInv, TypeOK, Campaign, TimedOut, LoopFree
<1>5. TypeOK'
  BY <1>1, <1>2, <1>3 DEF IndInv, TypeOK, Terms
<1>6. \A c \in campaigns : c[1] \in Server /\ c[2] \in Nat /\ (c[1] = n => c[2] < t)
  BY <1>3 DEF IndInv, TypeOK, CampaignsReached, Terms
<1>7. CampaignsReached'
  BY <1>1, <1>3, <1>6 DEF IndInv, TypeOK, CampaignsReached, Terms
<1>8. PollIsNext' /\ TallyGranted' /\ RefusalsPast'
  BY <1>1, <1>3 DEF IndInv, TypeOK, PollIsNext, TallyGranted, RefusalsPast, Granted, Terms
<1>9. CarriedGranted'
  <2> SUFFICES ASSUME NEW k \in Server, carried'[k] # 0
               PROVE  /\ carried'[k] <= term'[k] + 1
                      /\ \A c \in campaigns' : c[1] = k => c[2] < carried'[k]
                      /\ HasQuorum(Config, Granted(k, carried[k]))
                      /\ carried'[k] = carried[k]
    BY <1>1, Zenon DEF CarriedGranted, Granted
  <2>1. k # n /\ carried'[k] = carried[k] /\ term'[k] = term[k]
    BY <1>1, <1>2, <1>4 DEF IndInv, TypeOK
  <2> QED
    BY <1>1, <2>1 DEF IndInv, CarriedGranted
<1>10. ASSUME NEW c \in campaigns
       PROVE  PolledOne(c)'
  <2>1. PolledOne(c)
    BY DEF IndInv, AllPolled
  <2>2. ASSUME NEW d \in campaigns', d[1] = c[1], d[2] < c[2]
        PROVE  d \in campaigns
    BY <1>1, <1>3, <1>6, <2>2
  <2> QED
    BY <1>1, <2>1, <2>2 DEF PolledOne, Granted
<1>11. ASSUME NEW c, c = <<n, t>>
       PROVE  PolledOne(c)'
  <2>1. CASE Peers(Config, n) = {}
    BY <1>11, <2>1 DEF PolledOne
  <2>2. CASE Peers(Config, n) # {}
    <3>1. carried[n] # 0
      BY <2>2 DEF Campaign
    <3>2. /\ carried[n] <= t
          /\ \A d \in campaigns : d[1] = n => d[2] < carried[n]
          /\ HasQuorum(Config, Granted(n, carried[n]))
      BY <3>1 DEF IndInv, CarriedGranted
    <3>3. carried[n] \in 1..t
      BY <1>3, <3>1, <3>2 DEF IndInv, TypeOK, Terms
    <3>4. \A d \in campaigns' : d[1] = n /\ d[2] < t => d[2] < carried[n]
      BY <1>1, <1>3, <3>2
    <3>5. \E p \in 1..t : /\ \A d \in campaigns' : d[1] = n /\ d[2] < t => d[2] < p
                          /\ HasQuorum(Config, Granted(n, p))
      BY <3>2, <3>3, <3>4
    <3> QED
      BY <1>1, <1>11, <3>5, Zenon DEF PolledOne, Granted
  <2> QED
    BY <2>1, <2>2
<1>12. AllPolled'
  BY <1>1, <1>10, <1>11 DEF AllPolled
<1> QED
  BY <1>5, <1>7, <1>8, <1>9, <1>12, SMTT(30) DEF IndInv

\* Nothing is polled, granted or campaigned for at the start.
LEMMA InitIndInv == Init => IndInv
  BY PreVoteAssumption DEF Init, IndInv, TypeOK, Terms, CampaignsReached, PollIsNext, TallyGranted,
     CarriedGranted, RefusalsPast, AllPolled

\* Every step of the poll keeps the invariant.
LEMMA PollStep ==
    ASSUME IndInv, NEW n \in Server, Poll(n)
    PROVE  IndInv'
<1> USE PreVoteAssumption
<1>1. CASE StartPreVote(n)
  BY <1>1, StartStep, SMTT(30)
<1>2. ASSUME NEW c \in polls, HandlePreVote(n, c[1], c[2])
      PROVE  IndInv'
  <2>1. TypeOK' /\ RefusalsPast'
    BY <1>2 DEF IndInv, TypeOK, RefusalsPast, HandlePreVote, node, poll
  <2> QED
    BY <1>2, <2>1, Undisturbed DEF Kept, IndInv, TypeOK, Terms, HandlePreVote, node, poll
<1>3. ASSUME NEW c \in polls, RefusePreVote(n, c[1], c[2])
      PROVE  IndInv'
  <2>1. TypeOK'
    BY <1>3 DEF IndInv, TypeOK, RefusePreVote, node, poll
  <2>2. RefusalsPast'
    BY <1>3 DEF IndInv, RefusalsPast, RefusePreVote
  <2> QED
    BY <1>3, <2>1, <2>2, Undisturbed DEF Kept, IndInv, TypeOK, Terms, RefusePreVote, node, poll
<1>4. ASSUME NEW g \in grants, HandlePreVoteResult(n, g)
      PROVE  IndInv'
  BY <1>4, ResultStep, SMTT(30)
<1>5. ASSUME NEW r \in refusals, HandlePreVoteRefusal(n, r)
      PROVE  IndInv'
  <2>1. r[3] \in Terms /\ r[3] >= term[n] /\ term[n] \in Terms
    BY <1>5 DEF IndInv, TypeOK, RefusalsPast, HandlePreVoteRefusal, Concerns, Terms
  <2>2. /\ preVoteTerm' = [preVoteTerm EXCEPT ![n] = 0]
        /\ UNCHANGED <<preVotes, carried, polls, grants, refusals, campaigns>>
        /\ faults' \in 0..MaxFaults
    BY <1>5 DEF IndInv, TypeOK, HandlePreVoteRefusal, Closed, replies, Fault
  <2>3. /\ term' = term \/ term' = [term EXCEPT ![n] = r[3]]
        /\ Role' = Role \/ Role' = [Role EXCEPT ![n] = "Follower"]
        /\ leaderLive' = leaderLive \/ leaderLive' = [leaderLive EXCEPT ![n] = FALSE]
    BY <1>5 DEF HandlePreVoteRefusal, node
  <2>4. TypeOK' /\ RefusalsPast'
    BY <2>1, <2>2, <2>3, Zenon DEF IndInv, TypeOK, RefusalsPast, Terms
  <2> QED
    BY <2>1, <2>2, <2>3, <2>4, Undisturbed, SMTT(30) DEF Kept, IndInv, TypeOK, Terms
<1>6. CASE Campaign(n) /\ RunElection(n)
  BY <1>6, CampaignStep
<1>7. CASE Campaign(n) /\ ElectionAborts
  <2>1. /\ UNCHANGED <<term, Role, leaderLive, campaigns, preVoteTerm, preVotes, polls, grants, refusals>>
        /\ faults' \in 0..MaxFaults
        /\ carried' = carried \/ carried' = [carried EXCEPT ![n] = 0]
    BY <1>7 DEF IndInv, TypeOK, Campaign, ElectionAborts, Fault, node, replies
  <2>2. TypeOK' /\ RefusalsPast'
    BY <2>1 DEF IndInv, TypeOK, RefusalsPast, Terms
  <2> QED
    BY <2>1, <2>2, Undisturbed DEF Kept, IndInv, TypeOK, Terms
<1> QED
  BY <1>1, <1>2, <1>3, <1>4, <1>5, <1>6, <1>7, SMTT(30) DEF Poll, Campaign

\* ... and so does what receivers, timers and restarts do meanwhile.
LEMMA ElsewhereStep ==
    ASSUME IndInv, NEW n \in Server, Elsewhere(n)
    PROVE  IndInv'
<1> USE PreVoteAssumption
<1>1. ASSUME NEW c \in campaigns, HearCampaign(n, c) \/ HearLeader(n, c)
      PROVE  IndInv'
  <2>1. /\ c[2] \in Terms /\ c[2] >= term[n]
        /\ term' = [term EXCEPT ![n] = c[2]]
        /\ Role' = [Role EXCEPT ![n] = "Follower"]
        /\ leaderLive' = leaderLive \/ leaderLive' = [leaderLive EXCEPT ![n] = TRUE]
        /\ UNCHANGED <<preVoteTerm, preVotes, carried, polls, grants, refusals, campaigns, faults>>
    BY <1>1 DEF IndInv, TypeOK, HearCampaign, HearLeader, Terms, poll, replies
  <2>2. TypeOK' /\ RefusalsPast'
    BY <2>1, Zenon DEF IndInv, TypeOK, RefusalsPast
  <2> QED
    BY <2>1, <2>2, Undisturbed DEF Kept, IndInv, TypeOK, Terms
<1>2. CASE BecomeLeader(n) \/ ContactLapses(n)
  <2>1. UNCHANGED <<term, preVoteTerm, preVotes, carried, polls, grants, refusals, campaigns, faults>>
    BY <1>2 DEF BecomeLeader, ContactLapses, poll, replies
  <2>2. TypeOK' /\ RefusalsPast'
    BY <1>2, <2>1, Zenon DEF IndInv, TypeOK, RefusalsPast, BecomeLeader, ContactLapses
  <2> QED
    BY <2>1, <2>2, Undisturbed DEF Kept, IndInv, TypeOK, Terms
<1>3. CASE Restart(n)
  <2>1. /\ UNCHANGED <<term, polls, grants, refusals, campaigns>>
        /\ preVoteTerm' = [preVoteTerm EXCEPT ![n] = 0]
        /\ preVotes' = [preVotes EXCEPT ![n] = {}]
        /\ carried' = [carried EXCEPT ![n] = 0]
        /\ faults' \in 0..MaxFaults
    BY <1>3 DEF IndInv, TypeOK, Restart, Closed, Fault, replies
  <2>2. TypeOK' /\ RefusalsPast'
    BY <1>3, <2>1 DEF IndInv, TypeOK, RefusalsPast, Restart, Terms
  <2>3. /\ preVoteTerm \in [Server -> Terms] /\ carried \in [Server -> Terms]
        /\ preVotes \in [Server -> SUBSET Server]
    BY DEF IndInv, TypeOK
  <2>4. Kept
    BY <2>1, <2>3 DEF Kept, Terms, IndInv, TypeOK
  <2> QED
    BY <2>2, <2>4, Undisturbed
<1> QED
  BY <1>1, <1>2, <1>3, SMTT(30) DEF Elsewhere

\* The invariant is inductive.
LEMMA NextIndInv ==
    ASSUME IndInv, [Next]_vars
    PROVE  IndInv'
<1>1. CASE Next
  BY <1>1, PollStep, ElsewhereStep, SMTT(30) DEF Next
<1>2. CASE UNCHANGED vars
  <2>1. UNCHANGED <<term, Role, leaderLive, preVoteTerm, preVotes, carried,
                    polls, grants, refusals, campaigns, faults>>
    BY <1>2 DEF vars, node, poll, replies
  <2>2. TypeOK' /\ RefusalsPast'
    BY <2>1 DEF IndInv, TypeOK, RefusalsPast
  <2> QED
    BY <2>1, <2>2, PreVoteAssumption, Undisturbed DEF Kept, IndInv, TypeOK, Terms
<1> QED
  BY <1>1, <1>2

\* The invariant contains PolledCampaign.
LEMMA IndInvPolled == IndInv => PolledCampaign
<1> SUFFICES ASSUME IndInv, NEW c \in campaigns, Peers(Config, c[1]) # {}
             PROVE  \E p \in 1..c[2] :
                       /\ \A t \in Campaigned(c[1]) : t < c[2] => t < p
                       /\ HasQuorum(Config, Granted(c[1], p))
  BY DEF PolledCampaign, Granted
<1>1. PICK p \in 1..c[2] :
          /\ \A d \in campaigns : d[1] = c[1] /\ d[2] < c[2] => d[2] < p
          /\ HasQuorum(Config, Granted(c[1], p))
  BY DEF IndInv, AllPolled, PolledOne
<1>2. \A t \in Campaigned(c[1]) : t < c[2] => t < p
  BY <1>1 DEF Campaigned
<1> QED
  BY <1>1, <1>2

\* No node ever takes the cluster to a new term without a quorum having said,
\* in answer to a poll it held since its last campaign, that it could win
\* (startPreVote, handlePreVoteResult, runElection).
THEOREM CampaignsArePolled == Spec => []PolledCampaign
  BY InitIndInv, NextIndInv, IndInvPolled, PTL DEF Spec

\* Every variable keeps its type; in particular no poll is ever held for a term
\* past the bound or counted for a server outside the cluster.
THEOREM PreVoteTypes == Spec => []TypeOK
<1>1. IndInv => TypeOK
  BY DEF IndInv
<1> QED
  BY InitIndInv, NextIndInv, <1>1, PTL DEF Spec
=============================================================================
