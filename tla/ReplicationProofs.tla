------------------------- MODULE ReplicationProofs --------------------------
(***************************************************************************)
(* What the handlers of Replication do to the variables, as changes that    *)
(* keep the invariant (ReplicationLogProofs).                               *)
(***************************************************************************)
EXTENDS ReplicationLogProofs

\* The leaves below are proved by Zenon unless they name another prover.
USE Zenon

(***************************************************************************)
(* From the variables to the state and back                                 *)
(***************************************************************************)

\* s agrees with the variables a receiver writes, and with the others.
Local(s) ==
    /\ s.term = currentTerm /\ s.vote = votedFor /\ s.role = role /\ s.votes = votesFrom
    /\ s.ends = campaign /\ s.cache = [n \in Server |-> log[n].cache]
    /\ s.commit = commitIndex /\ s.chosen = chosen
Remote(s) == s.next = nextIndex /\ s.match = matchIndex /\ s.round = round /\ s.sent = late

LEMMA Views ==
    \E s, t : /\ s = Now /\ Local(s) /\ Remote(s)
              /\ t = Now' /\ Local(t)' /\ Remote(t)'
  <1>1. PICK s, t : s = Now /\ t = Now'
    OBVIOUS
  <1>2. Local(s) /\ Remote(s)
    BY <1>1, SMT DEF Now, State, Local, Remote
  <1>3. Local(t)' /\ Remote(t)'
    BY <1>1, SMT DEF Now, State, Local, Remote
  <1> QED
    BY <1>1, <1>2, <1>3

Fields(u, a, b, c, d, e, f, g, h, i, j, k, l) ==
    /\ u.term = a /\ u.vote = b /\ u.role = c /\ u.votes = d /\ u.ends = e
    /\ u.cache = f /\ u.commit = g /\ u.next = h /\ u.match = i /\ u.round = j
    /\ u.sent = k /\ u.chosen = l

LEMMA StateFields ==
    ASSUME NEW a, NEW b, NEW c, NEW d, NEW e, NEW f, NEW g, NEW h, NEW i, NEW j, NEW k, NEW l
    PROVE  \E u : Fields(u, a, b, c, d, e, f, g, h, i, j, k, l)
  <1>1. PICK u : u = State(a, b, c, d, e, f, g, h, i, j, k, l)
    OBVIOUS
  <1>2. /\ u.term = a /\ u.vote = b /\ u.role = c /\ u.votes = d /\ u.ends = e
        /\ u.cache = f /\ u.commit = g /\ u.next = h /\ u.match = i /\ u.round = j
        /\ u.sent = k /\ u.chosen = l
    BY <1>1, SMT DEF State
  <1> QED
    BY <1>2 DEF Fields

\* Every log of the cluster is one that was never compacted.
LEMMA LogFacts ==
    ASSUME IndInv, NEW q \in Server
    PROVE  /\ LogShape(log[q]) /\ IsChain(log[q].cache) /\ Placed(log[q].cache)
           /\ LatestIndex(log[q]) = Len(log[q].cache) /\ LatestTerm(log[q]) = EndTerm(log[q].cache)
           /\ Len(log[q].cache) \in Nat /\ EndTerm(log[q].cache) \in Nat
  <1>1. PICK s : s = Now /\ Local(s)
    BY Views
  <1>2. SafeInv(s)
    BY <1>1 DEF IndInv
  <1>3. s.cache[q] = log[q].cache
    BY <1>1 DEF Local
  <1>4. IsChain(log[q].cache) /\ log[q].cache \in Seq(Entries) /\ LogShape(log[q])
    BY <1>2, <1>3, CacheFacts DEF SafeInv, IndInv
  <1>5. PICK c : c = log[q].cache
    OBVIOUS
  <1>6. c \in Seq(Entries) /\ Len(c) \in Nat
    BY <1>4, <1>5, SMT
  <1>7. c # <<>> => Len(c) \in DOMAIN c
    BY <1>6, SMT
  <1>8. Placed(c) /\ \A i \in DOMAIN c : c[i].Index = i /\ c[i].Term \in Nat
    BY <1>4, <1>5, ChainEntry DEF Placed
  <1>9. log[q].lastIncludedIndex = 0 /\ log[q].lastIncludedTerm = 0
    BY <1>4, LogShapeFacts
  <1>10. c = <<>> => Len(c) = 0
    BY <1>6, SMT
  <1>11. LatestIndex(log[q]) = Len(c)
    BY <1>5, <1>7, <1>8, <1>9, <1>10 DEF LatestIndex
  <1>12. LatestTerm(log[q]) = EndTerm(c)
    BY <1>5, <1>9 DEF LatestTerm, EndTerm
  <1>13. EndTerm(c) \in Nat
    <2>1. 0 \in Nat
      OBVIOUS
    <2> QED
      BY <1>7, <1>8, <2>1 DEF EndTerm
  <1> QED
    BY <1>4, <1>5, <1>6, <1>8, <1>11, <1>12, <1>13

\* What a variable holds for every server, and an assignment to one of them.
Map(f, S) == f \in [Server -> S]
With(f, n, e) == [f EXCEPT ![n] = e]

LEMMA WithFacts ==
    ASSUME NEW S, NEW f, Map(f, S), NEW n \in Server, NEW e \in S
    PROVE  Map(With(f, n, e), S) /\ Changed(f, With(f, n, e), n, e)
  BY SMT DEF Changed, Map, With

VoteRange == Server \cup {Nil}
RoleRange == {"Follower", "Candidate", "Leader"}
EndRange == [term : Terms, lastLogIndex : Nat, lastLogTerm : Nat]
NextRange == [Server -> 1 .. MaxIndex + 1]
MatchRange == [Server -> Indices]
RoundRange == [Server -> {Idle} \cup [at : {"answered"}, reply : Replies]]

LEMMA TypeMaps ==
    ASSUME NEW s
    PROVE  Types(s) <=> /\ Map(s.term, Terms) /\ Map(s.vote, VoteRange) /\ Map(s.role, RoleRange)
                        /\ Map(s.votes, SUBSET Server) /\ Map(s.ends, EndRange)
                        /\ Map(s.cache, Seq(Entries)) /\ Map(s.commit, Indices)
                        /\ Map(s.next, NextRange) /\ Map(s.match, MatchRange)
                        /\ Map(s.round, RoundRange) /\ s.chosen \in Seq(Entries)
  BY SMT DEF Types, Map, VoteRange, RoleRange, EndRange, NextRange, MatchRange, RoundRange

\* What else there is to show.
LEMMA Restored ==
    ASSUME NEW t, t = Now', SafeInv(t),
           DOMAIN log' = Server, \A n \in Server : LogShape(log'[n]),
           pending' = [n \in Server |-> 0], faults' \in 0 .. MaxFaults,
           IsFiniteSet(late'), Cardinality(late') <= MaxLate
    PROVE  IndInv'
  <1>1. SafeInv(Now)'
    OBVIOUS
  <1> QED
    BY <1>1 DEF IndInv

(***************************************************************************)
(* Elections                                                                *)
(***************************************************************************)

LEMMA RunElectionStep ==
    ASSUME IndInv, NEW n \in Server, RunElection(n)
    PROVE  IndInv'
  <1>1. PICK s, t : /\ s = Now /\ Local(s) /\ Remote(s)
                    /\ t = Now' /\ Local(t)' /\ Remote(t)'
    BY Views
  <1>2. SafeInv(s) /\ Types(s)
    BY <1>1 DEF IndInv, SafeInv
  <1>3. /\ s.cache[n] = log[n].cache /\ LatestIndex(log[n]) = Len(s.cache[n])
        /\ LatestTerm(log[n]) = EndTerm(s.cache[n])
        /\ Len(s.cache[n]) \in Nat /\ EndTerm(s.cache[n]) \in Nat
    BY <1>1, LogFacts DEF Local
  <1>4. PICK k, e : /\ k = s.term[n] + 1
                    /\ e = [term |-> k, lastLogIndex |-> Len(s.cache[n]), lastLogTerm |-> EndTerm(s.cache[n])]
    OBVIOUS
  <1>5. /\ t.term = With(s.term, n, k) /\ t.vote = With(s.vote, n, n)
        /\ t.role = With(s.role, n, "Candidate") /\ t.votes = With(s.votes, n, {n})
        /\ t.ends = With(s.ends, n, e)
    BY <1>1, <1>3, <1>4 DEF Local, RunElection, With
  <1>6. /\ log' = log /\ pending' = pending /\ faults' = faults /\ late' = late
        /\ t.commit = s.commit /\ SameProgress(s, t) /\ t.sent = s.sent /\ t.chosen = s.chosen
    BY <1>1 DEF Local, Remote, SameProgress, RunElection, leaderVars
  <1>7. t.cache = s.cache
    BY <1>1, <1>6 DEF Local
  <1>8. s.role[n] # "Leader" /\ k <= MaxTerm /\ \A p \in Server : s.round[n][p] = Idle
    BY <1>1, <1>4 DEF Local, Remote, RunElection
  <1>9. k \in Terms /\ e \in EndRange
    <2>1. s.term[n] \in Nat
      BY <1>2, TypeFacts
    <2>2. k \in Terms
      BY <1>4, <1>8, <2>1, Bounds, SMT DEF Terms
    <2> QED
      BY <1>3, <1>4, <2>2 DEF EndRange
  <1>10. Types(t)
    <2>1. {n} \in SUBSET Server /\ n \in VoteRange /\ "Candidate" \in RoleRange
      BY SMT DEF VoteRange, RoleRange
    <2>2. /\ Map(s.term, Terms) /\ Map(s.vote, VoteRange) /\ Map(s.role, RoleRange)
          /\ Map(s.votes, SUBSET Server) /\ Map(s.ends, EndRange)
      BY <1>2, TypeMaps
    <2>3. Map(With(s.term, n, k), Terms) /\ Map(With(s.vote, n, n), VoteRange)
      BY <1>9, <2>1, <2>2, WithFacts
    <2>4. Map(With(s.role, n, "Candidate"), RoleRange) /\ Map(With(s.votes, n, {n}), SUBSET Server)
      BY <2>1, <2>2, WithFacts
    <2>5. Map(With(s.ends, n, e), EndRange)
      BY <1>9, <2>2, WithFacts
    <2> QED
      BY <1>2, <1>5, <1>6, <1>7, <2>3, <2>4, <2>5, TypeMaps DEF SameProgress
  <1>11. /\ Changed(s.term, t.term, n, k) /\ Changed(s.vote, t.vote, n, n)
         /\ Changed(s.role, t.role, n, "Candidate") /\ Changed(s.votes, t.votes, n, {n})
         /\ Changed(s.ends, t.ends, n, e)
    BY <1>2, <1>5, SMT DEF Types, Changed, With
  <1>12. Campaign(s, t, n)
    BY <1>4, <1>6, <1>7, <1>8, <1>11 DEF Campaign, Leads, SameLogs, SameCommit
  <1>13. SafeInv(t)
    BY <1>2, <1>10, <1>12, CampaignStep
  <1> QED
    BY <1>1, <1>6, <1>13, Restored DEF IndInv

\* n answers a request for a vote: it follows a later term, then grants or not.
Asked(s, t, n, c, k, grant) ==
    /\ k = s.ends[c].term /\ k >= s.term[n] /\ grant \in BOOLEAN
    /\ grant <=> /\ k > s.term[n] \/ s.vote[n] \in {Nil, c}
                 /\ candidateUpToDate(s.ends[c].lastLogTerm, s.ends[c].lastLogIndex,
                                      EndTerm(s.cache[n]), Len(s.cache[n]))
    /\ t.term = With(s.term, n, k)
    /\ t.role = With(s.role, n, IF k > s.term[n] THEN "Follower" ELSE s.role[n])
    /\ t.vote = With(s.vote, n, IF grant THEN c ELSE IF k > s.term[n] THEN Nil ELSE s.vote[n])
    /\ t.votes = IF grant /\ Runs(s, c) /\ s.term[c] = k THEN With(s.votes, c, s.votes[c] \cup {n})
                 ELSE s.votes
    /\ t.ends = s.ends /\ SameLogs(s, t) /\ SameCommit(s, t) /\ SameProgress(s, t)

\* The state in which the vote is decided.
Poll(s, u, t, n, c, k) ==
    /\ SafeInv(u) /\ u.term = t.term /\ u.role = t.role /\ u.votes = s.votes /\ u.ends = s.ends
    /\ SameLogs(s, u) /\ SameCommit(s, u) /\ SameProgress(s, u)
    /\ u.vote = With(s.vote, n, IF k > s.term[n] THEN Nil ELSE s.vote[n])
    /\ u.term[n] = k /\ u.role[c] = s.role[c] /\ u.term[c] = s.term[c]

LEMMA SameMap ==
    ASSUME NEW S, NEW f, NEW g, Map(f, S), Map(g, S), \A n \in Server : g[n] = f[n]
    PROVE  g = f
  BY SMT DEF Map

LEMMA WithItself ==
    ASSUME NEW S, NEW f, Map(f, S), NEW n \in Server
    PROVE  With(f, n, f[n]) = f
  BY SMT DEF With, Map

LEMMA WithChanged ==
    ASSUME NEW S, NEW f, Map(f, S), NEW n \in Server, NEW e
    PROVE  Changed(f, With(f, n, e), n, e)
  BY SMT DEF With, Map, Changed

LEMMA WithTwice ==
    ASSUME NEW S, NEW f, Map(f, S), NEW n \in Server, NEW d, NEW e
    PROVE  Changed(With(f, n, d), With(f, n, e), n, e)
  BY SMT DEF With, Map, Changed

LEMMA PollFound ==
    ASSUME NEW s, NEW t, SafeInv(s), Types(t), NEW n \in Server, NEW c \in Server,
           NEW k, NEW grant, Asked(s, t, n, c, k, grant)
    PROVE  \E u : Poll(s, u, t, n, c, k)
  <1>1. /\ Types(s) /\ Map(s.term, Terms) /\ Map(s.vote, VoteRange) /\ Map(s.role, RoleRange)
        /\ Map(t.term, Terms) /\ Map(t.role, RoleRange)
    BY TypeMaps DEF SafeInv
  <1>2. s.term[n] \in Nat /\ s.ends[c].term \in Nat /\ s.ends[c].term <= s.term[c]
    BY <1>1, TypeFacts DEF SafeInv, VotesInv
  <1>3. /\ k \in Nat /\ (k > s.term[n] \/ k = s.term[n]) /\ (k > s.term[n] => n # c)
        /\ ~(k = s.term[n] /\ k > s.term[n])
    BY <1>2, SMT DEF Asked
  <1>4. CASE k > s.term[n]
    <2>0. PICK u : Fields(u, t.term, With(s.vote, n, Nil), t.role, s.votes, s.ends, s.cache,
                          s.commit, s.next, s.match, s.round, s.sent, s.chosen)
      BY StateFields
    <2>1. /\ u.term = t.term /\ u.vote = With(s.vote, n, Nil) /\ u.role = t.role
          /\ u.votes = s.votes /\ u.ends = s.ends /\ u.cache = s.cache
          /\ u.commit = s.commit /\ u.next = s.next /\ u.match = s.match
          /\ u.round = s.round /\ u.sent = s.sent /\ u.chosen = s.chosen
      BY <2>0 DEF Fields
    <2>2. Types(u)
      <3>1. Map(With(s.vote, n, Nil), VoteRange)
        <4>1. Nil \in VoteRange
          BY SMT DEF VoteRange
        <4> QED
          BY <1>1, <4>1, WithFacts
      <3> QED
        BY <1>1, <2>1, <3>1, TypeMaps
    <2>3. u.term = With(s.term, n, k) /\ u.role = With(s.role, n, "Follower")
      BY <1>4, <2>1 DEF Asked
    <2>4. /\ Changed(s.term, u.term, n, k) /\ Changed(s.role, u.role, n, "Follower")
          /\ Changed(s.vote, u.vote, n, Nil)
      <3>1. Changed(s.term, With(s.term, n, k), n, k)
        BY <1>1, WithChanged
      <3>2. Changed(s.role, With(s.role, n, "Follower"), n, "Follower")
        BY <1>1, WithChanged
      <3>3. Changed(s.vote, With(s.vote, n, Nil), n, Nil)
        BY <1>1, WithChanged
      <3> QED
        BY <2>1, <2>3, <3>1, <3>2, <3>3
    <2>5. SameLogs(s, u) /\ SameCommit(s, u) /\ SameProgress(s, u)
      BY <2>1 DEF SameLogs, SameCommit, SameProgress
    <2>6. Follow(s, u, n, k)
      BY <1>4, <2>1, <2>4, <2>5 DEF Follow, Asked
    <2>7. SafeInv(u)
      BY <2>2, <2>6, FollowStep
    <2>8. u.term[n] = k /\ u.role[c] = s.role[c] /\ u.term[c] = s.term[c]
      BY <1>3, <1>4, <2>4 DEF Changed
    <2>9. u.vote = With(s.vote, n, IF k > s.term[n] THEN Nil ELSE s.vote[n])
      BY <1>4, <2>1
    <2> QED
      BY <2>1, <2>5, <2>7, <2>8, <2>9 DEF Poll
  <1>5. CASE k = s.term[n]
    <2>1. t.term = With(s.term, n, s.term[n]) /\ t.role = With(s.role, n, s.role[n])
      BY <1>3, <1>5 DEF Asked
    <2>2. t.term = s.term /\ t.role = s.role
      BY <1>1, <2>1, WithItself
    <2>3. s.vote = With(s.vote, n, s.vote[n])
      BY <1>1, WithItself
    <2>4. s.vote = With(s.vote, n, IF k > s.term[n] THEN Nil ELSE s.vote[n])
      BY <1>3, <1>5, <2>3
    <2> QED
      BY <1>5, <2>2, <2>4 DEF Poll, SameLogs, SameCommit, SameProgress
  <1> QED
    BY <1>3, <1>4, <1>5

LEMMA AskedStep ==
    ASSUME NEW s, NEW t, SafeInv(s), Types(t), NEW n \in Server, NEW c \in Server,
           NEW k, NEW grant, Asked(s, t, n, c, k, grant)
    PROVE  SafeInv(t)
  <1>1. PICK u : Poll(s, u, t, n, c, k)
    BY PollFound
  <1>2. Types(u) /\ Map(s.vote, VoteRange) /\ Map(s.votes, SUBSET Server)
    BY <1>1, TypeMaps DEF SafeInv, Poll
  <1>3. PICK v : v = IF k > s.term[n] THEN Nil ELSE s.vote[n]
    OBVIOUS
  <1>4. SafeInv(u) /\ u.vote = With(s.vote, n, v) /\ Changed(s.vote, With(s.vote, n, v), n, v)
    BY <1>1, <1>2, <1>3, WithChanged DEF Poll
  <1>5. u.vote[n] = v
    BY <1>4 DEF Changed
  <1>6. SameLogs(u, t) /\ SameCommit(u, t) /\ SameProgress(u, t)
    BY <1>1 DEF Poll, Asked, SameLogs, SameCommit, SameProgress
  <1>7. CASE grant
    <2>1. v \in {Nil, c}
      BY <1>3, <1>7 DEF Asked
    <2>2. t.vote = With(s.vote, n, c) /\ Changed(With(s.vote, n, v), With(s.vote, n, c), n, c)
      BY <1>2, <1>7, WithTwice DEF Asked
    <2>3. /\ u.cache = s.cache /\ u.ends = s.ends /\ u.term = t.term /\ u.role = t.role
          /\ u.votes = s.votes /\ u.term[n] = k /\ (Runs(u, c) <=> Runs(s, c)) /\ u.term[c] = s.term[c]
      BY <1>1 DEF Poll, SameLogs, Runs
    <2>4. IF Runs(u, c) /\ u.term[c] = u.term[n]
          THEN Changed(u.votes, t.votes, c, u.votes[c] \cup {n}) ELSE t.votes = u.votes
      <3>1. Changed(s.votes, With(s.votes, c, s.votes[c] \cup {n}), c, s.votes[c] \cup {n})
        BY <1>2, WithChanged
      <3> QED
        BY <1>7, <2>3, <3>1 DEF Asked
    <2>5. /\ u.term[n] = u.ends[c].term /\ t.ends = u.ends
          /\ candidateUpToDate(u.ends[c].lastLogTerm, u.ends[c].lastLogIndex,
                               EndTerm(u.cache[n]), Len(u.cache[n]))
      BY <1>7, <2>3 DEF Asked
    <2>6. Grant(u, t, n, c)
      BY <1>4, <1>5, <1>6, <2>1, <2>2, <2>3, <2>4, <2>5 DEF Grant
    <2> QED
      BY <1>4, <2>6, GrantStep
  <1>8. CASE ~grant
    <2>1. t.vote = With(s.vote, n, v) /\ t.votes = s.votes
      BY <1>3, <1>8 DEF Asked
    <2>2. SameElection(u, t)
      BY <1>1, <1>4, <2>1 DEF Asked, Poll, SameElection
    <2>3. Shrink(u, t)
      BY <1>6, <2>2 DEF Shrink, SameLogs
    <2> QED
      BY <1>4, <2>3, ShrinkStep
  <1> QED
    BY <1>7, <1>8

LEMMA HandleRequestVoteStep ==
    ASSUME IndInv, NEW n \in Server, NEW c \in Server, HandleRequestVote(n, c)
    PROVE  IndInv'
  <1>1. PICK s, t : /\ s = Now /\ Local(s) /\ Remote(s)
                    /\ t = Now' /\ Local(t)' /\ Remote(t)'
    BY Views
  <1>2. SafeInv(s) /\ Types(s)
    BY <1>1 DEF IndInv, SafeInv
  <1>3. /\ s.cache[n] = log[n].cache /\ LatestIndex(log[n]) = Len(s.cache[n])
        /\ LatestTerm(log[n]) = EndTerm(s.cache[n])
    BY <1>1, LogFacts DEF Local
  <1>4. PICK k, grant, counts :
           /\ k = s.ends[c].term
           /\ grant = (/\ k > s.term[n] \/ s.vote[n] \in {Nil, c}
                       /\ candidateUpToDate(s.ends[c].lastLogTerm, s.ends[c].lastLogIndex,
                                            EndTerm(s.cache[n]), Len(s.cache[n])))
           /\ counts = (grant /\ s.role[c] = "Candidate" /\ s.term[c] = k)
    OBVIOUS
  <1>5. /\ grant \in BOOLEAN
        /\ grant <=> /\ k > s.term[n] \/ s.vote[n] \in {Nil, c}
                     /\ candidateUpToDate(s.ends[c].lastLogTerm, s.ends[c].lastLogIndex,
                                          EndTerm(s.cache[n]), Len(s.cache[n]))
        /\ counts <=> grant /\ Runs(s, c) /\ s.term[c] = k
    BY <1>4 DEF Runs
  <1>6. /\ t.term = With(s.term, n, k) /\ k >= s.term[n]
        /\ t.role = With(s.role, n, IF k > s.term[n] THEN "Follower" ELSE s.role[n])
    BY <1>1, <1>4 DEF Local, HandleRequestVote, With
  <1>7. t.vote = With(s.vote, n, IF grant THEN c ELSE IF k > s.term[n] THEN Nil ELSE s.vote[n])
    BY <1>1, <1>3, <1>4 DEF Local, HandleRequestVote, With
  <1>8. t.votes = IF counts THEN With(s.votes, c, s.votes[c] \cup {n}) ELSE s.votes
    BY <1>1, <1>3, <1>4 DEF Local, HandleRequestVote, With
  <1>9. /\ log' = log /\ pending' = pending /\ faults' = faults /\ late' = late
        /\ t.ends = s.ends /\ SameCommit(s, t) /\ SameProgress(s, t) /\ t.sent = s.sent
    BY <1>1 DEF Local, Remote, SameProgress, SameCommit, HandleRequestVote, leaderVars
  <1>10. SameLogs(s, t)
    BY <1>1, <1>9 DEF Local, SameLogs
  <1>11. Asked(s, t, n, c, k, grant)
    BY <1>4, <1>5, <1>6, <1>7, <1>8, <1>9, <1>10 DEF Asked
  <1>12. Types(t)
    <2>1. /\ Map(s.term, Terms) /\ Map(s.vote, VoteRange) /\ Map(s.role, RoleRange)
          /\ Map(s.votes, SUBSET Server) /\ Map(s.ends, EndRange)
      BY <1>2, TypeMaps
    <2>2. k \in Terms /\ Nil \in VoteRange /\ c \in VoteRange /\ s.vote[n] \in VoteRange
          /\ "Follower" \in RoleRange /\ s.role[n] \in RoleRange /\ s.votes[c] \cup {n} \in SUBSET Server
      BY <1>4, <2>1, SMT DEF Map, EndRange, VoteRange, RoleRange
    <2>3. Map(t.term, Terms)
      <3>1. Map(With(s.term, n, k), Terms)
        BY <2>1, <2>2, WithFacts
      <3> QED
        BY <1>6, <3>1
    <2>4. Map(t.role, RoleRange)
      <3>1. PICK e : e = IF k > s.term[n] THEN "Follower" ELSE s.role[n]
        OBVIOUS
      <3>2. e \in RoleRange
        BY <2>2, <3>1
      <3>3. Map(With(s.role, n, e), RoleRange)
        BY <2>1, <3>2, WithFacts
      <3> QED
        BY <1>6, <3>1, <3>3
    <2>5. Map(t.vote, VoteRange)
      <3>1. PICK e : e = IF grant THEN c ELSE IF k > s.term[n] THEN Nil ELSE s.vote[n]
        OBVIOUS
      <3>2. e \in VoteRange
        BY <2>2, <3>1
      <3>3. Map(With(s.vote, n, e), VoteRange)
        BY <2>1, <3>2, WithFacts
      <3> QED
        BY <1>7, <3>1, <3>3
    <2>6. Map(t.votes, SUBSET Server)
      <3>1. Map(With(s.votes, c, s.votes[c] \cup {n}), SUBSET Server)
        BY <2>1, <2>2, WithFacts
      <3> QED
        BY <1>8, <2>1, <3>1
    <2> QED
      BY <1>2, <1>9, <1>10, <2>3, <2>4, <2>5, <2>6, TypeMaps
         DEF SameLogs, SameCommit, SameProgress
  <1>13. SafeInv(t)
    BY <1>2, <1>11, <1>12, AskedStep
  <1> QED
    BY <1>1, <1>9, <1>13, Restored DEF IndInv

(***************************************************************************)
(* Appending as leader                                                      *)
(***************************************************************************)

LEMMA AppendLeaderFacts ==
    ASSUME NEW l, LogShape(l), NEW k \in 1 .. MaxTerm, Len(l.cache) < MaxIndex
    PROVE  /\ LogShape(AppendLeader(l, k))
           /\ AppendLeader(l, k).cache = Append(l.cache, [Index |-> Len(l.cache) + 1, Term |-> k])
  <1>1. /\ l.cache \in Seq(Entries) /\ Len(l.cache) \in Nat /\ l.nextIndex = Len(l.cache) + 1
        /\ l = LogOf(l.cache, Len(l.cache) + 1)
    BY LogShapeFacts DEF LogShape
  <1>2. PICK e : e = [Index |-> Len(l.cache) + 1, Term |-> k]
    OBVIOUS
  <1>3. e \in Entries /\ e.Index = Len(l.cache) + 1
    BY <1>1, <1>2, Bounds, SMT DEF Entries
  <1>4. AppendLeader(l, k) = Stored(l, e)
    BY <1>1, <1>2 DEF AppendLeader, LeaderEntry
  <1>5. PICK c : c = Append(l.cache, e)
    OBVIOUS
  <1>6. c \in Seq(Entries) /\ Len(c) = Len(l.cache) + 1
    BY <1>1, <1>3, <1>5, SMT
  <1>7. Stored(l, e) = WithNext(WithCache(l, c), e.Index + 1)
    BY <1>1, <1>5, SMT DEF Stored, WithNext, WithCache, LogOf
  <1>8. WithNext(WithCache(l, c), e.Index + 1) = LogOf(c, e.Index + 1)
    <2>1. PICK i, j : i = e.Index + 1 /\ j = Len(l.cache) + 1
      OBVIOUS
    <2>2. WithCache(LogOf(l.cache, j), c) = LogOf(c, j) /\ WithNext(LogOf(c, j), i) = LogOf(c, i)
      BY LogOfExcept
    <2>3. l = LogOf(l.cache, j)
      BY <1>1, <2>1
    <2>4. WithCache(l, c) = LogOf(c, j)
      BY <2>2, <2>3, SMT
    <2> QED
      BY <2>1, <2>2, <2>4, SMT
  <1>9. e.Index + 1 = Len(c) + 1 /\ LogOf(c, e.Index + 1).cache = c
    BY <1>3, <1>6, LogOfFacts
  <1> QED
    BY <1>2, <1>4, <1>5, <1>6, <1>7, <1>8, <1>9 DEF LogShape

\* log' is log with a new log for n.
Relogged(n, l) == log' = [log EXCEPT ![n] = l]

LEMMA RelogFacts ==
    ASSUME IndInv, NEW n \in Server, NEW l, LogShape(l), Relogged(n, l),
           NEW s, Local(s), NEW t, Local(t)'
    PROVE  /\ DOMAIN log' = Server /\ \A q \in Server : LogShape(log'[q])
           /\ Changed(s.cache, t.cache, n, l.cache) /\ Map(t.cache, Seq(Entries))
  <1>1. DOMAIN log = Server /\ \A q \in Server : LogShape(log[q])
    BY DEF IndInv
  <1>2. DOMAIN log' = Server /\ log'[n] = l /\ \A q \in Server : q # n => log'[q] = log[q]
    BY <1>1, SMT DEF Relogged
  <1>3. \A q \in Server : LogShape(log'[q])
    BY <1>1, <1>2
  <1>4. t.cache = [q \in Server |-> log'[q].cache] /\ s.cache = [q \in Server |-> log[q].cache]
    BY DEF Local
  <1>5. t.cache[n] = l.cache
    BY <1>2, <1>4
  <1>6. ASSUME NEW q \in Server, q # n
        PROVE  t.cache[q] = s.cache[q]
    <2>1. log'[q] = log[q] /\ t.cache[q] = log'[q].cache /\ s.cache[q] = log[q].cache
      BY <1>2, <1>4, <1>6
    <2> QED
      BY <2>1
  <1>7. ASSUME NEW q \in Server
        PROVE  log'[q].cache \in Seq(Entries)
    BY <1>3, LogShapeFacts
  <1>8. Map(t.cache, Seq(Entries))
    BY <1>4, <1>7 DEF Map
  <1> QED
    BY <1>2, <1>3, <1>5, <1>6, <1>8 DEF Changed

LEMMA AppendOwnFacts ==
    ASSUME IndInv, NEW n \in Server, NEW k \in 1 .. MaxTerm, AppendOwn(n, k),
           NEW s, Local(s), NEW t, Local(t)'
    PROVE  /\ DOMAIN log' = Server /\ \A q \in Server : LogShape(log'[q])
           /\ Changed(s.cache, t.cache, n,
                      Append(s.cache[n], [Index |-> Len(s.cache[n]) + 1, Term |-> k]))
           /\ Map(t.cache, Seq(Entries))
  <1>1. LogShape(log[n]) /\ LatestIndex(log[n]) = Len(log[n].cache) /\ s.cache[n] = log[n].cache
    BY LogFacts DEF Local
  <1>2. Len(log[n].cache) < MaxIndex
    BY <1>1 DEF AppendOwn
  <1>3. PICK l : l = AppendLeader(log[n], k)
    OBVIOUS
  <1>4. LogShape(l) /\ l.cache = Append(s.cache[n], [Index |-> Len(s.cache[n]) + 1, Term |-> k])
    BY <1>1, <1>2, <1>3, AppendLeaderFacts
  <1>5. Relogged(n, l)
    BY <1>3 DEF AppendOwn, Relogged
  <1> QED
    BY <1>4, <1>5, RelogFacts

\* A leader's term is one of the terms of entries.
LEMMA LeaderTerm ==
    ASSUME NEW s, Types(s), VotesInv(s), NEW n \in Server, s.role[n] # "Follower"
    PROVE  s.term[n] \in 1 .. MaxTerm
  <1>1. s.term[n] \in Terms /\ s.term[n] > 0
    BY TypeFacts DEF VotesInv
  <1> QED
    BY <1>1, Bounds, SMT DEF Terms

LEMMA HandleProposalStep ==
    ASSUME Windows = {}, IndInv, NEW n \in Server, HandleProposal(n)
    PROVE  IndInv'
  <1>1. PICK s, t : /\ s = Now /\ Local(s) /\ Remote(s)
                    /\ t = Now' /\ Local(t)' /\ Remote(t)'
    BY Views
  <1>2. SafeInv(s) /\ Types(s) /\ VotesInv(s)
    BY <1>1 DEF IndInv, SafeInv
  <1>3. Leads(s, n) /\ "Leader" # "Follower" /\ s.term[n] = currentTerm[n]
    BY <1>1 DEF HandleProposal, Local, Leads
  <1>4. s.term[n] \in 1 .. MaxTerm
    BY <1>2, <1>3, LeaderTerm DEF Leads
  <1>5. AppendOwn(n, s.term[n]) /\ pending' = pending
    BY <1>3 DEF HandleProposal, AppendNowOrLater
  <1>6. /\ faults' = faults /\ late' = late /\ t.sent = s.sent
        /\ SameElection(s, t) /\ SameCommit(s, t) /\ SameProgress(s, t)
    BY <1>1 DEF Local, Remote, SameProgress, SameCommit, SameElection, HandleProposal,
                       leaderVars, electionVars
  <1>7. /\ DOMAIN log' = Server /\ \A q \in Server : LogShape(log'[q])
        /\ Changed(s.cache, t.cache, n,
                   Append(s.cache[n], [Index |-> Len(s.cache[n]) + 1, Term |-> s.term[n]]))
        /\ Map(t.cache, Seq(Entries))
    BY <1>1, <1>4, <1>5, AppendOwnFacts
  <1>8. Types(t)
    BY <1>2, <1>6, <1>7, TypeMaps DEF SameElection, SameCommit, SameProgress
  <1>9. Add(s, t, n)
    BY <1>3, <1>6, <1>7 DEF Add
  <1>10. SafeInv(t)
    BY <1>2, <1>8, <1>9, AddStep
  <1> QED
    BY <1>1, <1>5, <1>6, <1>7, <1>10, Restored DEF IndInv

\* A fault of the behaviour's budget.
LEMMA FaultFacts ==
    ASSUME IndInv, Fault
    PROVE  faults' \in 0 .. MaxFaults
  BY Bounds, SMT DEF IndInv, Fault

LEMMA BecomeLeaderStep ==
    ASSUME Windows = {}, IndInv, NEW n \in Server, BecomeLeader(n)
    PROVE  IndInv'
  <1>1. PICK s, t : /\ s = Now /\ Local(s) /\ Remote(s)
                    /\ t = Now' /\ Local(t)' /\ Remote(t)'
    BY Views
  <1>2. SafeInv(s) /\ Types(s) /\ VotesInv(s) /\ ChainsInv(s)
    BY <1>1 DEF IndInv, SafeInv
  <1>3. Runs(s, n) /\ "Candidate" # "Follower" /\ s.term[n] = currentTerm[n] /\ HasQuorum(Config, s.votes[n])
    BY <1>1 DEF BecomeLeader, Local, Runs
  <1>4. s.term[n] \in 1 .. MaxTerm
    BY <1>2, <1>3, LeaderTerm DEF Runs
  <1>5. PICK end, next, match : /\ end = Len(s.cache[n]) + 1 /\ next = [p \in Server |-> end]
                                /\ match = [p \in Server |-> 0]
    OBVIOUS
  <1>6. LatestIndex(log[n]) + 1 = end
    BY <1>1, <1>5, LogFacts DEF Local
  <1>7. /\ t.role = With(s.role, n, "Leader") /\ t.next = With(s.next, n, next)
        /\ t.match = With(s.match, n, match)
    BY <1>1, <1>5, <1>6, ZenonT(40) DEF Local, Remote, BecomeLeader, InitialMatch, With
  <1>8. next \in NextRange /\ match \in MatchRange /\ "Leader" \in RoleRange
    <2>1. Len(s.cache[n]) \in Nat /\ Len(s.cache[n]) <= MaxIndex
      BY <1>2, CacheFacts
    <2>2. end \in 1 .. MaxIndex + 1 /\ 0 \in Indices
      BY <1>5, <2>1, Bounds, SMT DEF Indices
    <2> QED
      BY <1>5, <2>2 DEF NextRange, MatchRange, RoleRange
  <1>9. /\ late' = late /\ t.sent = s.sent /\ t.term = s.term /\ t.vote = s.vote /\ t.votes = s.votes
        /\ t.ends = s.ends /\ SameCommit(s, t) /\ t.round = s.round
    BY <1>1 DEF Local, Remote, SameCommit, BecomeLeader
  <1>10. PICK u : Fields(u, s.term, s.vote, t.role, s.votes, s.ends, s.cache,
                         s.commit, t.next, t.match, s.round, s.sent, s.chosen)
    BY StateFields
  <1>11. /\ u.term = s.term /\ u.vote = s.vote /\ u.role = t.role
         /\ u.votes = s.votes /\ u.ends = s.ends /\ u.cache = s.cache
         /\ u.commit = s.commit /\ u.next = t.next /\ u.match = t.match
         /\ u.round = s.round /\ u.sent = s.sent /\ u.chosen = s.chosen
    BY <1>10 DEF Fields
  <1>12. Map(s.role, RoleRange) /\ Map(s.next, NextRange) /\ Map(s.match, MatchRange)
    BY <1>2, TypeMaps
  <1>13. Map(t.role, RoleRange) /\ Changed(s.role, t.role, n, "Leader")
    <2>1. /\ Map(With(s.role, n, "Leader"), RoleRange)
          /\ Changed(s.role, With(s.role, n, "Leader"), n, "Leader")
      BY <1>8, <1>12, WithFacts
    <2> QED
      BY <1>7, <2>1
  <1>14. Map(t.next, NextRange) /\ Changed(s.next, t.next, n, next)
    <2>1. /\ Map(With(s.next, n, next), NextRange)
          /\ Changed(s.next, With(s.next, n, next), n, next)
      BY <1>8, <1>12, WithFacts
    <2> QED
      BY <1>7, <2>1
  <1>15. Map(t.match, MatchRange) /\ Changed(s.match, t.match, n, match)
    <2>1. /\ Map(With(s.match, n, match), MatchRange)
          /\ Changed(s.match, With(s.match, n, match), n, match)
      BY <1>8, <1>12, WithFacts
    <2> QED
      BY <1>7, <2>1
  <1>16. Types(u)
    BY <1>2, <1>11, <1>13, <1>14, <1>15, TypeMaps
  <1>17. /\ \A p \in Server : u.next[n][p] = Len(s.cache[n]) + 1 /\ u.match[n][p] = 0
         /\ \A q \in Server : q # n => u.next[q] = s.next[q] /\ u.match[q] = s.match[q]
    <2>1. \A p \in Server : next[p] = end /\ match[p] = 0
      BY <1>5
    <2>2. u.next[n] = next /\ u.match[n] = match
      BY <1>11, <1>14, <1>15 DEF Changed
    <2>3. \A p \in Server : u.next[n][p] = Len(s.cache[n]) + 1 /\ u.match[n][p] = 0
      BY <1>5, <2>1, <2>2, SMT
    <2>4. \A q \in Server : q # n => u.next[q] = s.next[q] /\ u.match[q] = s.match[q]
      BY <1>11, <1>14, <1>15 DEF Changed
    <2> QED
      BY <2>3, <2>4
  <1>18. Crown(s, u, n)
    BY <1>3, <1>11, <1>13, <1>17 DEF Crown, SameLogs, SameCommit
  <1>19. SafeInv(u)
    BY <1>2, <1>16, <1>18, CrownStep
  <1>20. SameElection(u, t) /\ SameCommit(u, t) /\ SameProgress(u, t) /\ t.sent = u.sent
    BY <1>9, <1>11 DEF SameElection, SameCommit, SameProgress
  <1>21. CASE AppendOwn(n, s.term[n]) /\ pending' = pending /\ faults' = faults
    <2>1. /\ DOMAIN log' = Server /\ \A q \in Server : LogShape(log'[q])
          /\ Changed(s.cache, t.cache, n,
                     Append(s.cache[n], [Index |-> Len(s.cache[n]) + 1, Term |-> s.term[n]]))
          /\ Map(t.cache, Seq(Entries))
      BY <1>1, <1>4, <1>21, AppendOwnFacts
    <2>2. Types(t)
      BY <1>2, <1>9, <1>13, <1>14, <1>15, <2>1, TypeMaps DEF SameCommit
    <2>3. Leads(u, n)
      BY <1>11, <1>13 DEF Leads, Changed
    <2>4. Add(u, t, n)
      BY <1>11, <1>20, <2>1, <2>3 DEF Add
    <2>5. SafeInv(t)
      BY <1>19, <2>2, <2>4, AddStep
    <2> QED
      BY <1>1, <1>9, <1>21, <2>1, <2>5, Restored DEF IndInv
  <1>22. CASE Fault /\ log' = log /\ pending' = pending
    <2>1. t.cache = s.cache
      BY <1>1, <1>22 DEF Local
    <2>2. Shrink(u, t)
      BY <1>11, <1>20, <2>1 DEF Shrink
    <2>3. Types(t)
      BY <1>2, <1>9, <1>13, <1>14, <1>15, <2>1, TypeMaps DEF SameCommit
    <2>4. SafeInv(t)
      BY <1>19, <2>2, <2>3, ShrinkStep
    <2>5. faults' \in 0 .. MaxFaults
      BY <1>22, FaultFacts
    <2> QED
      BY <1>1, <1>9, <1>22, <2>4, <2>5, Restored DEF IndInv
  <1> QED
    BY <1>3, <1>21, <1>22 DEF BecomeLeader, AppendNowOrLater

(***************************************************************************)
(* Committing as leader, and restarts                                       *)
(***************************************************************************)

LEMMA TermAtFacts ==
    ASSUME NEW l, LogShape(l), NEW i \in Nat, i > 0
    PROVE  TermAt(l, i) = IF i \in DOMAIN l.cache THEN l.cache[i].Term ELSE 0
  <1>1. l.firstIndex = 1 /\ l.lastIncludedIndex = 0
    BY LogShapeFacts
  <1>2. i - l.firstIndex + 1 = i /\ i # l.lastIncludedIndex
    BY <1>1, SMT
  <1>3. NoEntry.Term = 0
    BY SMT DEF NoEntry
  <1>4. PICK j : j = i - l.firstIndex + 1
    OBVIOUS
  <1>5. GetEntry(l, i) = IF i \in DOMAIN l.cache THEN l.cache[i] ELSE NoEntry
    BY <1>2, <1>4 DEF GetEntry, HasEntry
  <1> QED
    BY <1>2, <1>3, <1>5 DEF TermAt

LEMMA RestartStep ==
    ASSUME IndInv, NEW n \in Server, Restart(n)
    PROVE  IndInv'
  <1>1. PICK s, t : /\ s = Now /\ Local(s) /\ Remote(s)
                    /\ t = Now' /\ Local(t)' /\ Remote(t)'
    BY Views
  <1>2. /\ SafeInv(s) /\ Types(s) /\ Map(s.role, RoleRange) /\ Map(s.votes, SUBSET Server)
        /\ Map(s.commit, Indices) /\ Map(s.round, RoundRange) /\ s.term[n] \in Nat
    BY <1>1, TypeMaps, TypeFacts DEF IndInv, SafeInv
  <1>3. PICK idle : idle = [p \in Server |-> Idle]
    OBVIOUS
  <1>4. /\ t.role = With(s.role, n, "Follower") /\ t.votes = With(s.votes, n, {})
        /\ t.commit = With(s.commit, n, 0) /\ t.round = With(s.round, n, idle)
    BY <1>1, <1>3 DEF Local, Remote, Restart, With
  <1>5. /\ log' = log /\ late' = late /\ t.sent = s.sent /\ t.term = s.term /\ t.vote = s.vote
        /\ t.ends = s.ends /\ t.chosen = s.chosen /\ t.next = s.next /\ t.match = s.match
    BY <1>1 DEF Local, Remote, Restart, leaderVars
  <1>6. t.cache = s.cache
    BY <1>1, <1>5 DEF Local
  <1>7. pending' = [q \in Server |-> 0]
    BY SMT DEF Restart, IndInv
  <1>8. faults' \in 0 .. MaxFaults
    BY FaultFacts DEF Restart
  <1>9. "Follower" \in RoleRange /\ {} \in SUBSET Server /\ 0 \in Indices /\ idle \in RoundRange
    BY <1>3, Bounds, SMT DEF RoleRange, Indices, RoundRange
  <1>10. Map(t.role, RoleRange) /\ Changed(s.role, t.role, n, "Follower")
    <2>1. /\ Map(With(s.role, n, "Follower"), RoleRange)
          /\ Changed(s.role, With(s.role, n, "Follower"), n, "Follower")
      BY <1>2, <1>9, WithFacts
    <2> QED
      BY <1>4, <2>1
  <1>11. Map(t.votes, SUBSET Server) /\ Changed(s.votes, t.votes, n, {})
    <2>1. Map(With(s.votes, n, {}), SUBSET Server) /\ Changed(s.votes, With(s.votes, n, {}), n, {})
      BY <1>2, <1>9, WithFacts
    <2> QED
      BY <1>4, <2>1
  <1>12. Map(t.commit, Indices) /\ Changed(s.commit, t.commit, n, 0)
    <2>1. Map(With(s.commit, n, 0), Indices) /\ Changed(s.commit, With(s.commit, n, 0), n, 0)
      BY <1>2, <1>9, WithFacts
    <2> QED
      BY <1>4, <2>1
  <1>13. Map(t.round, RoundRange) /\ Changed(s.round, t.round, n, idle)
    <2>1. Map(With(s.round, n, idle), RoundRange) /\ Changed(s.round, With(s.round, n, idle), n, idle)
      BY <1>2, <1>9, WithFacts
    <2> QED
      BY <1>4, <2>1
  <1>14. Types(t)
    BY <1>2, <1>5, <1>6, <1>10, <1>11, <1>12, <1>13, TypeMaps
  <1>15. PICK u : Fields(u, s.term, s.vote, t.role, s.votes, s.ends, s.cache,
                         s.commit, s.next, s.match, s.round, s.sent, s.chosen)
    BY StateFields
  <1>16. /\ u.term = s.term /\ u.vote = s.vote /\ u.role = t.role
         /\ u.votes = s.votes /\ u.ends = s.ends /\ u.cache = s.cache
         /\ u.commit = s.commit /\ u.next = s.next /\ u.match = s.match
         /\ u.round = s.round /\ u.sent = s.sent /\ u.chosen = s.chosen
    BY <1>15 DEF Fields
  <1>17. Types(u)
    BY <1>2, <1>10, <1>16, TypeMaps
  <1>18. Follow(s, u, n, s.term[n])
    <2>1. s.term[n] >= s.term[n] /\ ~(s.term[n] > s.term[n])
      BY <1>2, SMT
    <2>2. /\ Changed(s.term, u.term, n, s.term[n])
          /\ Changed(s.vote, u.vote, n, IF s.term[n] > s.term[n] THEN Nil ELSE s.vote[n])
      BY <1>16, <2>1 DEF Changed
    <2> QED
      BY <1>10, <1>16, <2>1, <2>2 DEF Follow, SameLogs, SameCommit, SameProgress
  <1>19. SafeInv(u)
    BY <1>2, <1>17, <1>18, FollowStep
  <1>20. u.role[n] = "Follower" /\ \A q \in Server : q # n => t.round[q] = u.round[q]
    BY <1>10, <1>13, <1>16 DEF Changed
  <1>21. Forget(u, t, n)
    BY <1>5, <1>6, <1>11, <1>12, <1>16, <1>20 DEF Forget, SameLogs
  <1>22. SafeInv(t)
    BY <1>14, <1>19, <1>21, ForgetStep
  <1> QED
    BY <1>1, <1>5, <1>7, <1>8, <1>22, Restored DEF IndInv

(***************************************************************************)
(* A request is handled                                                     *)
(***************************************************************************)

\* The entry before the batch is one p holds.
PrevHeld(old, m) ==
    m.prevLogIndex > 0 => /\ m.prevLogIndex \in DOMAIN old
                          /\ old[m.prevLogIndex] = Chain(m)[m.prevLogIndex]

\* p's commit index moves to c, as far as m has confirmed.
Allowed(s, p, m, c) ==
    /\ c \in Nat /\ c >= s.commit[p]
    /\ c = s.commit[p] \/ (c > 0 /\ c <= m.leaderCommit /\ c <= End(m))
Reported(s, t, p, c) ==
    /\ Changed(s.commit, t.commit, p, c)
    /\ t.chosen = IF c > Len(s.chosen) THEN SubSeq(t.cache[p], 1, c) ELSE s.chosen

Accepted(s, t, p, m) ==
    /\ PrevHeld(s.cache[p], m) /\ Takes(t.cache[p], s.cache[p], m)
    /\ \A q \in Server : q # p => t.cache[q] = s.cache[q]
    /\ \E c : Allowed(s, p, m, c) /\ Reported(s, t, p, c)

Followed(s, t, p, k) ==
    /\ k >= s.term[p]
    /\ Changed(s.term, t.term, p, k) /\ Changed(s.role, t.role, p, "Follower")
    /\ Changed(s.vote, t.vote, p, IF k > s.term[p] THEN Nil ELSE s.vote[p])
    /\ t.votes = s.votes /\ t.ends = s.ends

Refused(s, t, p, m) == ~PrevHeld(s.cache[p], m) /\ t.cache = s.cache /\ SameCommit(s, t)

Ignored(s, t, p, m) ==
    m.term < s.term[p] /\ SameElection(s, t) /\ t.cache = s.cache /\ SameCommit(s, t)

Received(s, t, p, m) ==
    \/ Ignored(s, t, p, m)
    \/ Followed(s, t, p, m.term) /\ (Refused(s, t, p, m) \/ Accepted(s, t, p, m))

LEMMA TakesHas ==
    ASSUME NEW new, NEW old, NEW m, Takes(new, old, m)
    PROVE  Has(new, Chain(m))
  BY DEF Takes

LEMMA ReceivedStep ==
    ASSUME NEW s, NEW t, SafeInv(s), Types(t), NEW p \in Server, NEW m \in s.sent,
           Received(s, t, p, m), t.sent = s.sent, SameProgress(s, t)
    PROVE  SafeInv(t)
  <1>1. Types(s)
    BY DEF SafeInv
  <1>2. CASE Ignored(s, t, p, m)
    <2>1. Shrink(s, t)
      BY <1>2 DEF Ignored, Shrink
    <2> QED
      BY <2>1, ShrinkStep
  <1>3. CASE Followed(s, t, p, m.term) /\ (Refused(s, t, p, m) \/ Accepted(s, t, p, m))
    <2>1. PICK u : Fields(u, t.term, t.vote, t.role, t.votes, t.ends, s.cache,
                          s.commit, s.next, s.match, s.round, s.sent, s.chosen)
      BY StateFields
    <2>2. /\ u.term = t.term /\ u.vote = t.vote /\ u.role = t.role
          /\ u.votes = t.votes /\ u.ends = t.ends /\ u.cache = s.cache
          /\ u.commit = s.commit /\ u.next = s.next /\ u.match = s.match
          /\ u.round = s.round /\ u.sent = s.sent /\ u.chosen = s.chosen
      BY <2>1 DEF Fields
    <2>3. Types(u)
      BY <1>1, <2>2, TypeMaps
    <2>4. Follow(s, u, p, m.term)
      BY <1>3, <2>2 DEF Followed, Follow, SameLogs, SameCommit, SameProgress
    <2>5. SafeInv(u)
      BY <2>3, <2>4, FollowStep
    <2>6. SameElection(u, t) /\ SameProgress(u, t) /\ t.sent = u.sent
      BY <2>2 DEF SameElection, SameProgress
    <2>7. u.role[p] = "Follower" /\ u.term[p] = m.term
      BY <2>4 DEF Follow, Changed
    <2>8. CASE Refused(s, t, p, m)
      <3>1. Shrink(u, t)
        BY <2>2, <2>6, <2>8 DEF Refused, Shrink, SameCommit
      <3> QED
        BY <2>5, <3>1, ShrinkStep
    <2>9. CASE Accepted(s, t, p, m)
      <3>1. PICK c : Allowed(s, p, m, c) /\ Reported(s, t, p, c)
        BY <2>9 DEF Accepted
      <3>2. PICK w : Fields(w, t.term, t.vote, t.role, t.votes, t.ends, t.cache,
                            s.commit, s.next, s.match, s.round, s.sent, s.chosen)
        BY StateFields
      <3>3. /\ w.term = t.term /\ w.vote = t.vote /\ w.role = t.role
            /\ w.votes = t.votes /\ w.ends = t.ends /\ w.cache = t.cache
            /\ w.commit = s.commit /\ w.next = s.next /\ w.match = s.match
            /\ w.round = s.round /\ w.sent = s.sent /\ w.chosen = s.chosen
        BY <3>2 DEF Fields
      <3>4. Types(w)
        BY <1>1, <3>3, TypeMaps
      <3>5. SameElection(u, w) /\ SameCommit(u, w) /\ SameProgress(u, w) /\ w.sent = u.sent /\ m \in u.sent
        BY <2>2, <3>3 DEF SameElection, SameCommit, SameProgress
      <3>6. /\ PrevHeld(u.cache[p], m) /\ Takes(w.cache[p], u.cache[p], m)
            /\ \A q \in Server : q # p => w.cache[q] = u.cache[q]
        BY <2>2, <2>9, <3>3 DEF Accepted
      <3>7. Take(u, w, p, m)
        BY <2>7, <3>5, <3>6 DEF Take, PrevHeld
      <3>8. SafeInv(w)
        BY <2>5, <3>4, <3>7, TakeStep
      <3>9. SameElection(w, t) /\ SameProgress(w, t) /\ SameLogs(w, t)
        BY <3>3 DEF SameElection, SameProgress, SameLogs
      <3>10. Has(w.cache[p], Chain(m)) /\ w.term[p] = m.term /\ m \in w.sent
        BY <2>2, <2>7, <3>3, <3>6, TakesHas
      <3>11. /\ c \in Nat /\ (c = w.commit[p] \/ (c > 0 /\ c <= m.leaderCommit /\ c <= End(m)))
             /\ Changed(w.commit, t.commit, p, c)
             /\ t.chosen = IF c > Len(w.chosen) THEN SubSeq(w.cache[p], 1, c) ELSE w.chosen
        BY <3>1, <3>3 DEF Allowed, Reported
      <3> QED
        BY <3>8, <3>9, <3>10, <3>11, FollowerCommits, SMT
    <2> QED
      BY <1>3, <2>8, <2>9
  <1> QED
    BY <1>2, <1>3 DEF Received

\* The check of the entry before the batch, in terms of the logs.
LEMMA PrevMatchesFacts ==
    ASSUME NEW l, LogShape(l), IsChain(l.cache), LatestIndex(l) = Len(l.cache),
           NEW m, MessageShape(m)
    PROVE  PrevMatches(l, m.prevLogIndex, m.prevLogTerm) <=> PrevHeld(l.cache, m)
  <1>1. PICK i, k : i = m.prevLogIndex /\ k = m.prevLogTerm
    OBVIOUS
  <1>2. i \in Nat /\ (i = 0 <=> k = 0)
    BY <1>1, ChainFacts DEF MessageShape
  <1>3. i > 0 => i \in DOMAIN Chain(m) /\ Chain(m)[i] = [Index |-> i, Term |-> k]
    BY <1>1, ChainFacts
  <1>4. Len(l.cache) \in Nat /\ DOMAIN l.cache = 1 .. Len(l.cache)
    BY LogShapeFacts
  <1>5. i = 0 \/ i > 0
    BY <1>2, SMT
  <1>6. CASE i = 0
    <2>1. ~(i > 0)
      BY <1>6, SMT
    <2> QED
      BY <1>1, <1>6, <2>1 DEF PrevMatches, PrevHeld
  <1>7. CASE i > 0
    <2>1. i # 0 /\ k # 0 /\ (i \in DOMAIN l.cache <=> i <= Len(l.cache))
      BY <1>2, <1>4, <1>7, SMT
    <2>2. TermAt(l, i) = IF i \in DOMAIN l.cache THEN l.cache[i].Term ELSE 0
      BY <1>2, <1>7, TermAtFacts
    <2>3. i \in DOMAIN l.cache => l.cache[i] = [Index |-> i, Term |-> l.cache[i].Term]
      BY ChainEntry, EntryFacts
    <2>4. \A a, b : [Index |-> i, Term |-> a] = [Index |-> i, Term |-> b] => a = b
      OBVIOUS
    <2>5. i \in DOMAIN l.cache => (l.cache[i].Term = k <=> l.cache[i] = Chain(m)[i])
      BY <1>3, <1>7, <2>3, <2>4
    <2>6. PrevMatches(l, i, k) <=> i <= Len(l.cache) /\ TermAt(l, i) = k
      BY <2>1 DEF PrevMatches
    <2>7. PrevHeld(l.cache, m) <=> i \in DOMAIN l.cache /\ l.cache[i] = Chain(m)[i]
      BY <1>1, <1>7 DEF PrevHeld
    <2> QED
      BY <1>1, <2>1, <2>2, <2>5, <2>6, <2>7
  <1> QED
    BY <1>5, <1>6, <1>7

LEMMA MatchIndexFacts ==
    ASSUME NEW m, MessageShape(m), IsChain(Chain(m))
    PROVE  MatchIndex(m.prevLogIndex, m.entries) = End(m)
  <1>1. /\ m.prevLogIndex \in Nat /\ m.entries \in Seq(Entries) /\ Len(m.entries) \in Nat
        /\ End(m) = m.prevLogIndex + Len(m.entries)
        /\ \A k \in 1 .. Len(m.entries) :
              /\ m.prevLogIndex + k \in DOMAIN Chain(m)
              /\ Chain(m)[m.prevLogIndex + k] = m.entries[k]
    BY ChainFacts
  <1>2. CASE m.entries = <<>>
    BY <1>1, <1>2, SMT DEF MatchIndex
  <1>3. CASE m.entries # <<>>
    <2>1. Len(m.entries) \in 1 .. Len(m.entries)
      BY <1>1, <1>3, SMT
    <2>2. End(m) \in DOMAIN Chain(m) /\ Chain(m)[End(m)] = m.entries[Len(m.entries)]
      BY <1>1, <2>1
    <2>3. Chain(m)[End(m)].Index = End(m)
      BY <2>2, ChainEntry
    <2> QED
      BY <1>3, <2>2, <2>3 DEF MatchIndex
  <1> QED
    BY <1>2, <1>3

\* Splice of a request whose previous entry matches.
LEMMA SplicedFacts ==
    ASSUME IndInv, NEW p \in Server, NEW m, MessageShape(m), IsChain(Chain(m))
    PROVE  /\ PrevMatches(log[p], m.prevLogIndex, m.prevLogTerm) <=> PrevHeld(log[p].cache, m)
           /\ LogShape(Spliced(p, m).log)
           /\ PrevHeld(log[p].cache, m) =>
                 Spliced(p, m).ok /\ Takes(Spliced(p, m).log.cache, log[p].cache, m)
           /\ ~PrevHeld(log[p].cache, m) => ~Spliced(p, m).ok /\ Spliced(p, m).log = log[p]
  <1>1. /\ LogShape(log[p]) /\ IsChain(log[p].cache) /\ Placed(log[p].cache)
        /\ LatestIndex(log[p]) = Len(log[p].cache)
    BY LogFacts
  <1>2. PrevMatches(log[p], m.prevLogIndex, m.prevLogTerm) <=> PrevHeld(log[p].cache, m)
    BY <1>1, PrevMatchesFacts
  <1>3. CASE PrevHeld(log[p].cache, m)
    <2>1. Spliced(p, m) = Splice(log[p], m.entries)
      BY <1>2, <1>3 DEF Spliced
    <2>2. m.prevLogIndex > 0 => /\ m.prevLogIndex \in DOMAIN log[p].cache
                                /\ log[p].cache[m.prevLogIndex] = Chain(m)[m.prevLogIndex]
      BY <1>3 DEF PrevHeld
    <2>3. /\ Splice(log[p], m.entries).ok /\ LogShape(Splice(log[p], m.entries).log)
          /\ Takes(Splice(log[p], m.entries).log.cache, log[p].cache, m)
      BY <1>1, <2>2, SpliceResult DEF IndInv, SafeInv
    <2> QED
      BY <1>2, <1>3, <2>1, <2>3
  <1>4. CASE ~PrevHeld(log[p].cache, m)
    <2>1. Spliced(p, m) = [log |-> log[p], ok |-> FALSE]
      BY <1>2, <1>4 DEF Spliced
    <2>2. Spliced(p, m).log = log[p] /\ ~Spliced(p, m).ok
      BY <2>1, SMT
    <2> QED
      BY <1>1, <1>2, <1>4, <2>2
  <1> QED
    BY <1>3, <1>4

LEMMA MinOfTwo ==
    ASSUME NEW a \in Nat, NEW b \in Nat
    PROVE  Min({a, b}) \in Nat /\ Min({a, b}) <= a /\ Min({a, b}) <= b
  <1> DEFINE m == IF a <= b THEN a ELSE b
  <1>1. m \in {a, b} /\ \A y \in {a, b} : m <= y
    BY SMT
  <1>2. Min({a, b}) \in {a, b} /\ \A y \in {a, b} : Min({a, b}) <= y
    BY <1>1, SMT DEF Min
  <1> QED
    BY <1>2, SMT

\* Max of two numbers, as boundaries and rounds are raised.
LEMMA LargerOfTwo ==
    ASSUME NEW a \in Nat, NEW b \in Nat
    PROVE  /\ Max({a, b}) \in Nat
           /\ Max({a, b}) = IF a >= b THEN a ELSE b
  <1> DEFINE m == IF a >= b THEN a ELSE b
  <1>1. m \in {a, b} /\ \A y \in {a, b} : m >= y
    BY SMT
  <1>2. Max({a, b}) \in {a, b} /\ \A y \in {a, b} : Max({a, b}) >= y
    BY <1>1, SMT DEF Max
  <1> QED
    BY <1>2, SMT

LEMMA FollowerCommitFacts ==
    ASSUME NEW s, Types(s), Local(s), NEW p \in Server, NEW m, MessageShape(m)
    PROVE  /\ Allowed(s, p, m, FollowerCommit(p, m.leaderCommit, End(m)))
           /\ FollowerCommit(p, m.leaderCommit, End(m)) \in Indices
  <1>1. commitIndex[p] = s.commit[p] /\ s.commit[p] \in Nat /\ s.commit[p] \in Indices
    BY TypeFacts, TypeMaps, SMT DEF Local, Map
  <1>2. m.leaderCommit \in Indices /\ m.leaderCommit \in Nat /\ End(m) \in Nat
    <2>1. m.leaderCommit \in Indices /\ End(m) \in Nat
      BY ChainFacts
    <2> QED
      BY <2>1, Bounds, SMT DEF Indices
  <1>3. PICK b : b = Min({m.leaderCommit, End(m)})
    OBVIOUS
  <1>4. b \in Nat /\ b <= m.leaderCommit /\ b <= End(m)
    BY <1>2, <1>3, MinOfTwo
  <1>5. PICK c : c = Max({s.commit[p], b})
    OBVIOUS
  <1>6. c \in Nat /\ c = IF s.commit[p] >= b THEN s.commit[p] ELSE b
    BY <1>1, <1>4, <1>5, LargerOfTwo
  <1>7. /\ c >= s.commit[p] /\ (c = s.commit[p] \/ (c > 0 /\ c <= m.leaderCommit /\ c <= End(m)))
    BY <1>1, <1>2, <1>4, <1>6, SMT
  <1>8. c \in Indices
    BY <1>1, <1>2, <1>6, <1>7, Bounds, SMT DEF Indices
  <1>9. FollowerCommit(p, m.leaderCommit, End(m)) = c
    BY <1>1, <1>3, <1>5 DEF FollowerCommit
  <1> QED
    BY <1>6, <1>7, <1>8, <1>9 DEF Allowed

LocalTypes(t) ==
    /\ Map(t.term, Terms) /\ Map(t.vote, VoteRange) /\ Map(t.role, RoleRange)
    /\ Map(t.votes, SUBSET Server) /\ Map(t.ends, EndRange)
    /\ Map(t.cache, Seq(Entries)) /\ Map(t.commit, Indices) /\ t.chosen \in Seq(Entries)

\* becomeFollowerLocked, at a term that is not an earlier one.
LEMMA BecomeFollowerFacts ==
    ASSUME NEW s, Types(s), Local(s), NEW p \in Server, NEW k \in Terms, k >= s.term[p],
           BecomeFollower(p, k), NEW t, Local(t)'
    PROVE  /\ Changed(s.term, t.term, p, k) /\ Changed(s.role, t.role, p, "Follower")
           /\ Changed(s.vote, t.vote, p, IF k > s.term[p] THEN Nil ELSE s.vote[p])
           /\ Map(t.term, Terms) /\ Map(t.vote, VoteRange) /\ Map(t.role, RoleRange)
  <1>1. /\ Map(s.term, Terms) /\ Map(s.vote, VoteRange) /\ Map(s.role, RoleRange)
        /\ s.term[p] \in Nat /\ s.vote[p] \in VoteRange
    BY TypeMaps, TypeFacts DEF VoteRange
  <1>2. k \in Nat
    BY Bounds, SMT DEF Terms
  <1>3. PICK h : h = Max({s.term[p], k})
    OBVIOUS
  <1>4. h = IF s.term[p] >= k THEN s.term[p] ELSE k
    BY <1>1, <1>2, <1>3, LargerOfTwo
  <1>5. h = k
    BY <1>1, <1>2, <1>4, SMT
  <1>6. PICK v : v = IF k > s.term[p] THEN Nil ELSE s.vote[p]
    OBVIOUS
  <1>7. /\ t.term = With(s.term, p, k) /\ t.role = With(s.role, p, "Follower")
        /\ t.vote = With(s.vote, p, v)
    BY <1>3, <1>5, <1>6 DEF BecomeFollower, Local, With
  <1>8. "Follower" \in RoleRange /\ v \in VoteRange
    <2>1. "Follower" \in RoleRange /\ Nil \in VoteRange
      BY SMT DEF RoleRange, VoteRange
    <2> QED
      BY <1>1, <1>6, <2>1
  <1>9. Map(With(s.term, p, k), Terms) /\ Changed(s.term, With(s.term, p, k), p, k)
    BY <1>1, WithFacts
  <1>10. Map(With(s.vote, p, v), VoteRange) /\ Changed(s.vote, With(s.vote, p, v), p, v)
    BY <1>1, <1>8, WithFacts
  <1>11. /\ Map(With(s.role, p, "Follower"), RoleRange)
         /\ Changed(s.role, With(s.role, p, "Follower"), p, "Follower")
    BY <1>1, <1>8, WithFacts
  <1> QED
    BY <1>6, <1>7, <1>9, <1>10, <1>11

\* A commit index within what is known to be committed.
LEMMA CommittedKnown ==
    ASSUME NEW s, SafeInv(s), NEW p \in Server
    PROVE  s.commit[p] \in Nat /\ Len(s.chosen) \in Nat /\ s.commit[p] <= Len(s.chosen)
  <1>1. Types(s) /\ Final(s, s.commit[p], s.term[p])
    BY DEF SafeInv, CommitInv
  <1>2. s.commit[p] \in Nat /\ s.chosen \in Seq(Entries)
    BY <1>1, TypeFacts
  <1>3. s.commit[p] <= Len(s.chosen)
    BY <1>1, <1>2, FinalBound
  <1> QED
    BY <1>2, <1>3, SeqFacts

LEMMA ReportedType ==
    ASSUME NEW s, SafeInv(s), NEW p \in Server, NEW m, MessageShape(m), NEW c, Allowed(s, p, m, c),
           NEW d \in Seq(Entries), Has(d, Chain(m))
    PROVE  c > Len(s.chosen) => SubSeq(d, 1, c) \in Seq(Entries)
  <1> SUFFICES ASSUME c > Len(s.chosen)
               PROVE  SubSeq(d, 1, c) \in Seq(Entries)
    OBVIOUS
  <1>1. s.commit[p] \in Nat /\ Len(s.chosen) \in Nat /\ s.commit[p] <= Len(s.chosen)
    BY CommittedKnown
  <1>2. End(m) \in Nat /\ m.prevLogIndex \in Nat /\ End(m) = m.prevLogIndex + Len(m.entries)
        /\ Len(m.entries) \in Nat
    BY ChainFacts
  <1>3. c \in Nat /\ c > 0 /\ c <= End(m)
    BY <1>1, SMT DEF Allowed
  <1>4. End(m) > 0 /\ End(m) >= m.prevLogIndex /\ End(m) <= End(m)
    BY <1>2, <1>3, SMT
  <1>5. End(m) \in DOMAIN Chain(m)
    BY <1>2, <1>4, ChainFacts
  <1>6. End(m) <= Len(d) /\ Len(d) \in Nat
    BY <1>5, SeqFacts DEF Has
  <1>7. c <= Len(d)
    BY <1>2, <1>3, <1>6, SMT
  <1> QED
    BY <1>3, <1>7, PrefixFacts

\* What the handler does, in terms of the state.
LEMMA HandleAppendEntriesFacts ==
    ASSUME IndInv, NEW p \in Server, NEW m, MessageShape(m), IsChain(Chain(m)),
           HandleAppendEntries(p, m), NEW s, SafeInv(s), Local(s), NEW t, Local(t)'
    PROVE  /\ Received(s, t, p, m) /\ LocalTypes(t)
           /\ DOMAIN log' = Server /\ \A q \in Server : LogShape(log'[q])
  <1>1. Types(s) /\ LocalTypes(s) /\ s.term[p] \in Nat
    BY TypeMaps, TypeFacts DEF SafeInv, LocalTypes
  <1>2. m.term \in Nat /\ m.term \in Terms
    <2>1. m.term \in 1 .. MaxTerm
      BY SMT DEF MessageShape, Requests
    <2> QED
      BY <2>1, Bounds, SMT DEF Terms
  <1>3. currentTerm[p] = s.term[p] /\ s.cache[p] = log[p].cache
    BY DEF Local
  <1>4. CASE m.term < s.term[p]
    <2>1. /\ SameElection(s, t) /\ SameCommit(s, t) /\ log' = log
      BY <1>3, <1>4 DEF HandleAppendEntries, electionVars, Local, SameElection, SameCommit
    <2>2. t.cache = s.cache
      BY <2>1 DEF Local
    <2>3. Received(s, t, p, m)
      BY <1>4, <2>1, <2>2 DEF Received, Ignored
    <2>4. LocalTypes(t)
      BY <1>1, <2>1, <2>2 DEF LocalTypes, SameElection, SameCommit
    <2> QED
      BY <2>1, <2>3, <2>4 DEF IndInv
  <1>5. CASE ~(m.term < s.term[p])
    <2>1. m.term >= s.term[p]
      BY <1>1, <1>2, <1>5, SMT
    <2>2. PICK r, c : r = Spliced(p, m) /\ c = FollowerCommit(p, m.leaderCommit, End(m))
      OBVIOUS
    <2>3. MatchIndex(m.prevLogIndex, m.entries) = End(m)
      BY MatchIndexFacts
    <2>4. /\ BecomeFollower(p, m.term) /\ log' = [log EXCEPT ![p] = r.log]
          /\ IF r.ok THEN Report(p, r.log, c) ELSE UNCHANGED <<commitIndex, chosen>>
          /\ UNCHANGED <<votesFrom, campaign>>
      BY <1>3, <1>5, <2>2, <2>3 DEF HandleAppendEntries
    <2>5. /\ LogShape(r.log) /\ (PrevHeld(s.cache[p], m) => r.ok /\ Takes(r.log.cache, s.cache[p], m))
          /\ ~PrevHeld(s.cache[p], m) => ~r.ok /\ r.log = log[p]
      BY <1>3, <2>2, SplicedFacts
    <2>6. Relogged(p, r.log)
      BY <2>4 DEF Relogged
    <2>7. /\ DOMAIN log' = Server /\ \A q \in Server : LogShape(log'[q])
          /\ Changed(s.cache, t.cache, p, r.log.cache) /\ Map(t.cache, Seq(Entries))
      BY <2>5, <2>6, RelogFacts
    <2>8. t.votes = s.votes /\ t.ends = s.ends
      BY <2>4 DEF Local
    <2>9. /\ Followed(s, t, p, m.term)
          /\ Map(t.term, Terms) /\ Map(t.vote, VoteRange) /\ Map(t.role, RoleRange)
      BY <1>1, <1>2, <2>1, <2>4, <2>8, BecomeFollowerFacts DEF Followed
    <2>10. CASE PrevHeld(s.cache[p], m)
      <3>1. Takes(t.cache[p], s.cache[p], m) /\ r.ok /\ t.cache[p] = r.log.cache
        BY <2>5, <2>7, <2>10 DEF Changed
      <3>2. /\ t.commit = With(s.commit, p, c)
            /\ t.chosen = IF c > Len(s.chosen) THEN SubSeq(t.cache[p], 1, c) ELSE s.chosen
        BY <2>4, <3>1 DEF Report, Local, With, Prefix
      <3>3. Allowed(s, p, m, c) /\ c \in Indices
        BY <1>1, <2>2, FollowerCommitFacts
      <3>4. Map(t.commit, Indices) /\ Changed(s.commit, t.commit, p, c)
        <4>1. Map(With(s.commit, p, c), Indices) /\ Changed(s.commit, With(s.commit, p, c), p, c)
          BY <1>1, <3>3, WithFacts DEF LocalTypes
        <4> QED
          BY <3>2, <4>1
      <3>5. t.chosen \in Seq(Entries)
        <4>1. t.cache[p] \in Seq(Entries) /\ Has(t.cache[p], Chain(m)) /\ s.chosen \in Seq(Entries)
          BY <1>1, <2>7, <3>1, TakesHas DEF Map, LocalTypes
        <4>2. c > Len(s.chosen) => SubSeq(t.cache[p], 1, c) \in Seq(Entries)
          BY <3>3, <4>1, ReportedType
        <4> QED
          BY <3>2, <4>1, <4>2
      <3>6. Accepted(s, t, p, m)
        BY <2>7, <2>10, <3>1, <3>2, <3>3, <3>4 DEF Accepted, Reported, Changed
      <3> QED
        BY <1>1, <2>7, <2>8, <2>9, <3>4, <3>5, <3>6 DEF Received, LocalTypes
    <2>11. CASE ~PrevHeld(s.cache[p], m)
      <3>1. SameCommit(s, t)
        BY <2>4, <2>5, <2>11 DEF Local, SameCommit
      <3>2. t.cache = s.cache
        <4>1. t.cache[p] = s.cache[p] /\ \A q \in Server : q # p => t.cache[q] = s.cache[q]
          BY <1>3, <2>5, <2>7, <2>11 DEF Changed
        <4>2. \A q \in Server : t.cache[q] = s.cache[q]
          BY <4>1
        <4>3. Map(s.cache, Seq(Entries)) /\ Map(t.cache, Seq(Entries))
          BY <1>1, <2>7 DEF LocalTypes
        <4> QED
          BY <4>2, <4>3, SameMap, ZenonT(40)
      <3> QED
        BY <1>1, <2>7, <2>8, <2>9, <2>11, <3>1, <3>2 DEF Received, Refused, LocalTypes, SameCommit
    <2> QED
      BY <2>10, <2>11
  <1> QED
    BY <1>4, <1>5

LEMMA LateArrivesStep ==
    ASSUME IndInv, NEW m \in late, LateArrives(m)
    PROVE  IndInv'
  <1>1. PICK s, t : /\ s = Now /\ Local(s) /\ Remote(s)
                    /\ t = Now' /\ Local(t)' /\ Remote(t)'
    BY Views
  <1>2. SafeInv(s) /\ Types(s) /\ ChainsInv(s) /\ m \in s.sent
    BY <1>1 DEF IndInv, SafeInv, Remote
  <1>3. MessageShape(m) /\ IsChain(Chain(m)) /\ m.to \in Server
    BY <1>2, SentChain, ChainFacts
  <1>4. HandleAppendEntries(m.to, m)
    BY DEF LateArrives
  <1>5. /\ Received(s, t, m.to, m) /\ LocalTypes(t)
        /\ DOMAIN log' = Server /\ \A q \in Server : LogShape(log'[q])
    BY <1>1, <1>2, <1>3, <1>4, HandleAppendEntriesFacts
  <1>6. /\ late' = late /\ pending' = pending /\ faults' = faults /\ t.sent = s.sent
        /\ SameProgress(s, t)
    BY <1>1 DEF LateArrives, Remote, SameProgress, leaderVars
  <1>7. Types(t)
    BY <1>2, <1>5, <1>6, TypeMaps DEF LocalTypes, SameProgress
  <1>8. SafeInv(t)
    BY <1>2, <1>3, <1>5, <1>6, <1>7, ReceivedStep
  <1> QED
    BY <1>1, <1>5, <1>6, <1>8, Restored DEF IndInv

(***************************************************************************)
(* Rounds                                                                   *)
(***************************************************************************)

\* An assignment to what n keeps of p.
Cell(f, g, n, p, e) ==
    /\ g[n][p] = e /\ \A q \in Server : q # n => g[q] = f[q]
    /\ \A q, r \in Server : q # n \/ r # p => g[q][r] = f[q][r]

LEMMA CellFacts ==
    ASSUME NEW S, NEW f \in [Server -> [Server -> S]], NEW n \in Server, NEW p \in Server,
           NEW e \in S, NEW g, g = [f EXCEPT ![n][p] = e]
    PROVE  g \in [Server -> [Server -> S]] /\ Cell(f, g, n, p, e)
  BY SMT DEF Cell

\* What a leader asks of a peer: the end of its log, from where the peer's is
\* believed to end.
Asks(s, n, p, m) ==
    /\ MessageShape(m) /\ m.to = p /\ m.term = s.term[n] /\ m.leaderCommit = s.commit[n]
    /\ m.prevLogIndex + 1 = s.next[n][p] /\ End(m) = Len(s.cache[n])
    /\ Has(s.cache[n], Chain(m)) /\ IsChain(Chain(m))

LEMMA Suffix ==
    ASSUME NEW c \in Seq(Entries), NEW i \in Nat, i <= Len(c)
    PROVE  /\ SubSeq(c, i + 1, Len(c)) \in Seq(Entries) /\ Len(SubSeq(c, i + 1, Len(c))) = Len(c) - i
           /\ \A k \in 1 .. Len(c) - i : SubSeq(c, i + 1, Len(c))[k] = c[i + k]
  BY SMT

\* A part of a chain without gaps is a chain.
LEMMA PartChain ==
    ASSUME NEW y, IsChain(y), NEW x, Has(y, x), \A i, j \in DOMAIN x : \A k \in i .. j : k \in DOMAIN x
    PROVE  IsChain(x)
  <1>1. \A i \in DOMAIN x : i \in DOMAIN y /\ y[i] = x[i]
    BY DEF Has
  <1>2. \A i \in DOMAIN x : i \in Nat /\ i > 0 /\ x[i] \in Entries /\ x[i].Index = i
    BY <1>1 DEF IsChain
  <1>3. \A i, j \in DOMAIN x : i <= j => x[i].Term <= x[j].Term
    BY <1>1 DEF IsChain
  <1> QED
    BY <1>2, <1>3 DEF IsChain

LEMMA RequestAsks ==
    ASSUME IndInv, NEW n \in Server, NEW p \in Server, NEW s, SafeInv(s), Local(s), Remote(s),
           Leads(s, n), NEW m, m = Request(n, Header(n, p))
    PROVE  Asks(s, n, p, m)
  <1>1. Types(s) /\ VotesInv(s) /\ ChainsInv(s) /\ ProgressInv(s)
    BY DEF SafeInv
  <1>2. PICK c, h, i, k : /\ c = s.cache[n] /\ h = s.next[n][p] /\ i = h - 1
                          /\ k = IF h = 1 THEN 0 ELSE TermAt(log[n], i)
    OBVIOUS
  <1>3. LogShape(log[n]) /\ c = log[n].cache
    BY <1>2, LogFacts DEF Local
  <1>4. c \in Seq(Entries) /\ IsChain(c) /\ Len(c) \in Nat /\ Len(c) <= MaxIndex
    BY <1>1, <1>2, CacheFacts
  <1>5. h \in Nat /\ h > 0 /\ h <= Len(c) + 1
    BY <1>1, <1>2, TypeFacts DEF ProgressInv
  <1>6. i \in Nat /\ i <= Len(c) /\ i + 1 = h /\ (i = 0 <=> h = 1) /\ i \in Indices /\ (i = 0 \/ i > 0)
    <2>1. i = h - 1
      BY <1>2
    <2>2. PICK l : l = Len(c)
      OBVIOUS
    <2>3. l \in Nat /\ l <= MaxIndex /\ h <= l + 1
      BY <1>4, <1>5, <2>2
    <2>4. i \in Nat /\ i <= l /\ i + 1 = h /\ (i = 0 <=> h = 1) /\ i \in Indices /\ (i = 0 \/ i > 0)
      BY <1>5, <2>1, <2>3, Bounds, SMT DEF Indices
    <2> QED
      BY <2>2, <2>4
  <1>7. DOMAIN c = 1 .. Len(c) /\ (i > 0 => i \in DOMAIN c)
    BY <1>4, <1>6, SMT
  <1>8. i > 0 => k = c[i].Term
    <2>1. i > 0 => TermAt(log[n], i) = c[i].Term
      BY <1>3, <1>6, <1>7, TermAtFacts
    <2>2. i > 0 => h # 1
      BY <1>6, SMT
    <2> QED
      BY <1>2, <2>1, <2>2
  <1>9. i > 0 => /\ k \in 1 .. MaxTerm /\ c[i] = [Index |-> i, Term |-> k]
    BY <1>4, <1>7, <1>8, ChainEntry, EntryFacts, ZenonT(40)
  <1>10. k \in Terms /\ (i = 0 <=> k = 0)
    <2>1. i = 0 => k = 0
      BY <1>2, <1>6
    <2> QED
      BY <1>6, <1>9, <2>1, Bounds, SMT DEF Terms
  <1>11. GetEntriesFrom(log[n], i + 1) = SubSeq(c, i + 1, Len(c))
    <2>1. log[n].firstIndex = 1
      BY <1>3, LogShapeFacts
    <2>2. PICK j, l : j = i + 1 /\ l = log[n]
      OBVIOUS
    <2>3. ~(j < 1) /\ j - 1 + 1 = j
      BY <1>6, <2>2, SMT
    <2>4. l.firstIndex = 1 /\ l.cache = c
      BY <1>3, <2>1, <2>2
    <2>5. GetEntriesFrom(l, j) = SubSeq(c, j, Len(c))
      BY <2>3, <2>4 DEF GetEntriesFrom
    <2> QED
      BY <2>2, <2>5
  <1>12. PICK b : b = SubSeq(c, i + 1, Len(c))
    OBVIOUS
  <1>13. b \in Seq(Entries) /\ Len(b) = Len(c) - i /\ \A j \in 1 .. Len(c) - i : b[j] = c[i + j]
    BY <1>4, <1>6, <1>12, Suffix
  <1>14. m = [to |-> p, term |-> s.term[n], leaderCommit |-> s.commit[n], prevLogIndex |-> i,
              prevLogTerm |-> k, entries |-> b]
    <2>1. /\ currentTerm[n] = s.term[n] /\ commitIndex[n] = s.commit[n] /\ nextIndex[n][p] = h
          /\ i = h - 1 /\ k = (IF h = 1 THEN 0 ELSE TermAt(log[n], i))
          /\ GetEntriesFrom(log[n], i + 1) = b
      BY <1>2, <1>11, <1>12 DEF Local, Remote
    <2>2. Header(n, p) = [to |-> p, term |-> s.term[n], leaderCommit |-> s.commit[n],
                          prevLogIndex |-> i, prevLogTerm |-> k]
      BY <2>1 DEF Header
    <2>3. PICK d : d = Header(n, p)
      OBVIOUS
    <2>4. /\ d.to = p /\ d.term = s.term[n] /\ d.leaderCommit = s.commit[n]
          /\ d.prevLogIndex = i /\ d.prevLogTerm = k
      BY <2>2, <2>3, SMT
    <2> QED
      BY <2>1, <2>3, <2>4 DEF Request
  <1>15. /\ m.to = p /\ m.term = s.term[n] /\ m.leaderCommit = s.commit[n]
         /\ m.prevLogIndex = i /\ m.prevLogTerm = k /\ m.entries = b
    BY <1>14, SMT
  <1>16. End(m) = Len(c)
    BY <1>4, <1>6, <1>13, <1>15, SMT DEF End
  <1>17. MessageShape(m)
    <2>1. s.term[n] \in 1 .. MaxTerm
      BY <1>1, LeaderTerm DEF Leads
    <2>2. s.commit[n] \in Indices
      BY <1>1, TypeMaps, SMT DEF Map
    <2>3. m \in Requests
      <3>1. i \in Indices /\ k \in Terms /\ b \in Seq(Entries)
        BY <1>6, <1>10, <1>13
      <3> QED
        BY <1>14, <2>1, <2>2, <3>1, SMT DEF Requests
    <2> QED
      BY <1>4, <1>10, <1>15, <1>16, <2>3 DEF MessageShape
  <1>18. \A j : j \in DOMAIN Chain(m) <=> j \in Nat /\ j > 0 /\ j >= i /\ j <= Len(c)
    BY <1>15, <1>16, <1>17, ChainFacts
  <1>19. Has(c, Chain(m))
    <2> SUFFICES ASSUME NEW j \in DOMAIN Chain(m)
                 PROVE  j \in DOMAIN c /\ c[j] = Chain(m)[j]
      BY DEF Has
    <2>1. j \in Nat /\ j > 0 /\ j >= i /\ j <= Len(c)
      BY <1>18
    <2>2. j \in DOMAIN c /\ (j = i \/ j - i \in 1 .. Len(c) - i) /\ i + (j - i) = j
      BY <1>4, <1>6, <1>7, <2>1, SMT
    <2>3. CASE j = i
      BY <1>9, <1>15, <1>17, <2>1, <2>2, <2>3, ChainFacts
    <2>4. CASE j - i \in 1 .. Len(c) - i
      <3>1. PICK d : d = j - i
        OBVIOUS
      <3>2. d \in 1 .. Len(m.entries) /\ i + d = j /\ b[d] = c[i + d]
        BY <1>13, <1>15, <2>2, <2>4, <3>1
      <3>3. Chain(m)[i + d] = m.entries[d]
        BY <1>15, <1>17, <3>2, ChainFacts
      <3> QED
        BY <1>15, <2>2, <3>2, <3>3
    <2> QED
      BY <2>2, <2>3, <2>4
  <1>20. IsChain(Chain(m))
    <2>1. ASSUME NEW j \in DOMAIN Chain(m), NEW l \in DOMAIN Chain(m), NEW d \in j .. l
          PROVE  d \in DOMAIN Chain(m)
      <3>1. /\ j \in Nat /\ j > 0 /\ j >= i /\ l \in Nat /\ l <= Len(c)
        BY <1>18
      <3>2. d \in Nat /\ d > 0 /\ d >= i /\ d <= Len(c)
        BY <1>4, <1>6, <2>1, <3>1, SMT
      <3> QED
        BY <1>18, <3>2
    <2> QED
      BY <1>4, <1>19, <2>1, PartChain
  <1> QED
    BY <1>2, <1>6, <1>15, <1>16, <1>17, <1>19, <1>20 DEF Asks

\* The answer to a request.
Answered(s, p, m, r) ==
    /\ r.asked = m.term /\ r.term = IF m.term >= s.term[p] THEN m.term ELSE s.term[p]
    /\ r.success <=> m.term >= s.term[p] /\ PrevHeld(s.cache[p], m)
    /\ r.success => r.index = End(m)

LEMMA LeastOf ==
    ASSUME Laws, NEW S, S \subseteq Nat, S # {}
    PROVE  Min(S) \in Nat
  <1>1. \E x \in S : \A y \in S : x <= y
    BY DEF Laws, LeastMembers
  <1>2. Min(S) \in S
    BY <1>1 DEF Min
  <1> QED
    BY <1>2

LEMMA ConflictIndexType ==
    ASSUME Laws, NEW l, LatestIndex(l) \in Nat, l.firstIndex = 1, NEW i \in Nat
    PROVE  ConflictIndex(l, i) \in Nat
  <1>1. PICK S : S = {i} \cup {j \in l.firstIndex .. i :
                                 \A k \in j .. i - 1 : GetEntry(l, k).Term = TermAt(l, i)}
    OBVIOUS
  <1>2. l.firstIndex .. i \subseteq Nat
    BY SMT
  <1>3. S \subseteq Nat /\ S # {}
    BY <1>1, <1>2
  <1>4. Min(S) \in Nat
    BY <1>3, LeastOf
  <1>5. LatestIndex(l) + 1 \in Nat
    BY SMT
  <1> QED
    BY <1>1, <1>4, <1>5 DEF ConflictIndex

LEMMA AppendReplyFacts ==
    ASSUME IndInv, NEW p \in Server, NEW m, MessageShape(m), IsChain(Chain(m)),
           NEW s, SafeInv(s), Local(s), NEW r, r = AppendReply(p, m)
    PROVE  Answered(s, p, m, r) /\ r \in Replies
  <1>1. Types(s) /\ s.term[p] \in Nat /\ s.term[p] \in Terms
    BY TypeFacts DEF SafeInv
  <1>2. m.term \in Nat /\ m.term \in Terms /\ m.prevLogIndex \in Nat /\ End(m) \in Nat /\ End(m) \in Indices
    <2>1. m.term \in 1 .. MaxTerm
      BY SMT DEF MessageShape, Requests
    <2>2. m.prevLogIndex \in Nat /\ End(m) \in Nat /\ End(m) \in Indices
      BY ChainFacts
    <2> QED
      BY <2>1, <2>2, Bounds, SMT DEF Terms
  <1>3. currentTerm[p] = s.term[p] /\ s.cache[p] = log[p].cache
    BY DEF Local
  <1>4. PICK k, h : k = m.term /\ h = s.term[p]
    OBVIOUS
  <1>5. PICK d : d = Max({k, h})
    OBVIOUS
  <1>6. d = IF k >= h THEN k ELSE h
    BY <1>1, <1>2, <1>4, <1>5, LargerOfTwo
  <1>7. /\ PrevMatches(log[p], m.prevLogIndex, m.prevLogTerm) <=> PrevHeld(s.cache[p], m)
        /\ PrevHeld(s.cache[p], m) => Spliced(p, m).ok
        /\ ~PrevHeld(s.cache[p], m) => ~Spliced(p, m).ok
    BY <1>3, SplicedFacts
  <1>8. MatchIndex(m.prevLogIndex, m.entries) = End(m)
    BY MatchIndexFacts
  <1>9. PICK x : x = ConflictIndex(log[p], m.prevLogIndex)
    OBVIOUS
  <1>10. x \in Nat
    <2>1. LatestIndex(log[p]) \in Nat /\ log[p].firstIndex = 1
      BY LogFacts, LogShapeFacts
    <2>2. Laws
      BY DEF SafeInv
    <2> QED
      BY <1>2, <1>9, <2>1, <2>2, ConflictIndexType
  <1>11. PICK ok, i : /\ ok = (k >= h /\ Spliced(p, m).ok)
                      /\ i = IF k < h THEN 0
                             ELSE IF Spliced(p, m).ok THEN End(m)
                             ELSE IF PrevMatches(log[p], m.prevLogIndex, m.prevLogTerm) THEN 0
                             ELSE x
    OBVIOUS
  <1>12. r = [asked |-> k, term |-> d, success |-> ok, index |-> i]
    BY <1>3, <1>4, <1>5, <1>8, <1>9, <1>11 DEF AppendReply
  <1>13. r.asked = k /\ r.term = d /\ r.success = ok /\ r.index = i
    BY <1>12, SMT
  <1>14. ok \in BOOLEAN /\ (ok <=> k >= h /\ PrevHeld(s.cache[p], m))
    BY <1>7, <1>11
  <1>15. k >= h => ~(k < h)
    BY <1>1, <1>2, <1>4, SMT
  <1>16. ok => i = End(m)
    BY <1>7, <1>11, <1>14, <1>15
  <1>17. i \in Nat
    <2>1. 0 \in Nat
      OBVIOUS
    <2> QED
      BY <1>2, <1>10, <1>11, <2>1
  <1>18. d >= k /\ d \in Terms /\ k \in Terms
    BY <1>1, <1>2, <1>4, <1>6, SMT
  <1>19. r \in [asked : Terms, term : Terms, success : BOOLEAN, index : Nat]
    <2>1. ok \in BOOLEAN
      BY <1>14
    <2>2. \A a \in Terms, b \in Terms, c \in BOOLEAN, e \in Nat :
             [asked |-> a, term |-> b, success |-> c, index |-> e]
                 \in [asked : Terms, term : Terms, success : BOOLEAN, index : Nat]
      OBVIOUS
    <2>3. [asked |-> k, term |-> d, success |-> ok, index |-> i]
              \in [asked : Terms, term : Terms, success : BOOLEAN, index : Nat]
      BY <1>17, <1>18, <2>1, <2>2, SMT
    <2> QED
      BY <1>12, <2>3, SMT
  <1>20. r \in Replies
    BY <1>2, <1>13, <1>16, <1>18, <1>19 DEF Replies
  <1> QED
    BY <1>4, <1>6, <1>13, <1>14, <1>16, <1>20 DEF Answered

\* Who has received something else than we have sent is not us.
LEMMA OthersUntouched ==
    ASSUME NEW s, NEW u, NEW n \in Server, NEW p \in Server, n # p, NEW m, Received(s, u, p, m)
    PROVE  u.role[n] = s.role[n] /\ u.term[n] = s.term[n] /\ u.cache[n] = s.cache[n]
  <1>1. CASE Ignored(s, u, p, m)
    BY <1>1 DEF Ignored, SameElection
  <1>2. CASE Followed(s, u, p, m.term) /\ (Refused(s, u, p, m) \/ Accepted(s, u, p, m))
    BY <1>2 DEF Followed, Refused, Accepted, Changed
  <1> QED
    BY <1>1, <1>2 DEF Received

\* Two logs that have the same request have the same entries before its end.
LEMMA SameBefore ==
    ASSUME NEW c \in Seq(Entries), NEW d \in Seq(Entries), Match(d, c), NEW m, MessageShape(m),
           Has(c, Chain(m)), Has(d, Chain(m))
    PROVE  End(m) <= Len(c) /\ Has(d, SubSeq(c, 1, End(m)))
  <1>1. /\ End(m) \in Nat /\ m.prevLogIndex \in Nat /\ Len(m.entries) \in Nat
        /\ End(m) = m.prevLogIndex + Len(m.entries) /\ Len(c) \in Nat /\ Len(d) \in Nat
    BY ChainFacts, SeqFacts
  <1>2. CASE End(m) = 0
    <2>1. Has(d, SubSeq(c, 1, 0))
      BY NothingToHave
    <2>2. End(m) <= Len(c)
      BY <1>1, <1>2, SMT
    <2> QED
      BY <1>2, <2>1, <2>2
  <1>3. CASE End(m) # 0
    <2>1. PICK e : e = End(m)
      OBVIOUS
    <2>2. e \in Nat /\ e > 0 /\ e >= m.prevLogIndex /\ e <= e
      BY <1>1, <1>3, <2>1, SMT
    <2>3. e \in DOMAIN Chain(m)
      BY <2>1, <2>2, ChainFacts
    <2>4. e \in DOMAIN c /\ e \in DOMAIN d /\ d[e] = c[e]
      BY <2>3 DEF Has
    <2>5. e <= Len(c) /\ e <= Len(d)
      BY <2>4, SeqFacts
    <2>6. DOMAIN SubSeq(c, 1, e) = 1 .. e /\ \A i \in 1 .. e : SubSeq(c, 1, e)[i] = c[i]
      BY <2>2, <2>5, PrefixFacts
    <2>7. ASSUME NEW i \in 1 .. e
          PROVE  i \in DOMAIN d /\ d[i] = c[i]
      <3>1. i \in DOMAIN d /\ i \in DOMAIN c /\ i <= e
        BY <1>1, <2>2, <2>5, SMT
      <3> QED
        BY <2>4, <3>1 DEF Match
    <2>8. Has(d, SubSeq(c, 1, e))
      BY <2>6, <2>7 DEF Has
    <2> QED
      BY <2>1, <2>5, <2>8
  <1> QED
    BY <1>2, <1>3

LEMMA AnswerIsTruthful ==
    ASSUME NEW s, SafeInv(s), NEW n \in Server, NEW p \in Server, n # p, Leads(s, n),
           NEW m, Asks(s, n, p, m), NEW u, SafeInv(u), Received(s, u, p, m), SameProgress(s, u),
           NEW r, Answered(s, p, m, r)
    PROVE  /\ Leads(u, n) /\ Truthful(u, n, p, r)
           /\ r.success => u.term[p] = u.term[n] /\ r.index \in Nat
  <1>1. Types(s) /\ Types(u) /\ ChainsInv(u) /\ ProgressInv(s)
    BY DEF SafeInv
  <1>2. u.role[n] = s.role[n] /\ u.term[n] = s.term[n] /\ u.cache[n] = s.cache[n]
    BY OthersUntouched
  <1>3. Leads(u, n)
    BY <1>2 DEF Leads
  <1>4. /\ MessageShape(m) /\ m.term = s.term[n] /\ m.prevLogIndex + 1 = s.next[n][p]
        /\ End(m) = Len(s.cache[n]) /\ Has(s.cache[n], Chain(m))
    BY DEF Asks
  <1>5. /\ s.term[n] \in Nat /\ s.term[p] \in Nat /\ s.match[n][p] \in Nat /\ s.next[n][p] \in Nat
        /\ s.cache[n] \in Seq(Entries) /\ u.cache[p] \in Seq(Entries) /\ End(m) \in Nat
        /\ m.prevLogIndex \in Nat
    BY <1>1, <1>4, TypeFacts, ChainFacts
  <1>6. r.asked = u.term[n]
    BY <1>2, <1>4 DEF Answered
  <1>7. ASSUME r.success
        PROVE  /\ Confirmed(u, n, p, r.index) /\ u.term[p] = u.term[n] /\ r.index \in Nat
               /\ r.index + 1 >= u.next[n][p] /\ r.term = r.asked
    <2>1. m.term >= s.term[p] /\ PrevHeld(s.cache[p], m) /\ r.index = End(m)
      BY <1>7 DEF Answered
    <2>2. ~(m.term < s.term[p])
      BY <1>4, <1>5, <2>1, SMT
    <2>3. Followed(s, u, p, m.term) /\ Accepted(s, u, p, m)
      BY <2>1, <2>2 DEF Received, Ignored, Refused
    <2>4. u.term[p] = m.term /\ Has(u.cache[p], Chain(m))
      BY <2>3, TakesHas DEF Followed, Accepted, Changed
    <2>5. Match(u.cache[p], s.cache[n])
      BY <1>1, <1>2, CacheFacts DEF ChainsInv
    <2>6. End(m) <= Len(s.cache[n]) /\ Has(u.cache[p], SubSeq(s.cache[n], 1, End(m)))
      BY <1>4, <1>5, <2>4, <2>5, SameBefore
    <2>7. u.term[p] >= u.term[n] /\ u.term[p] = u.term[n]
      BY <1>2, <1>4, <1>5, <2>4, SMT
    <2>8. Confirmed(u, n, p, End(m))
      BY <1>2, <2>6, <2>7 DEF Confirmed
    <2>9. End(m) + 1 >= u.next[n][p]
      <3>1. s.next[n][p] <= Len(s.cache[n]) + 1 /\ u.next = s.next
        BY <1>1 DEF ProgressInv, SameProgress
      <3>2. PICK x : x = s.next[n][p]
        OBVIOUS
      <3>3. x <= End(m) + 1 /\ x \in Nat
        BY <1>4, <1>5, <3>1, <3>2
      <3>4. End(m) + 1 >= x
        BY <1>5, <3>3, SMT
      <3> QED
        BY <3>1, <3>2, <3>4
    <2>10. r.term = r.asked
      BY <2>1 DEF Answered
    <2> QED
      BY <1>5, <2>1, <2>7, <2>8, <2>9, <2>10
  <1>8. ASSUME ~r.success, r.term = r.asked
        PROVE  u.match[n][p] = 0
    <2>1. m.term >= s.term[p]
      BY <1>4, <1>5, <1>8, SMT DEF Answered
    <2>2. ~PrevHeld(s.cache[p], m)
      BY <1>8, <2>1 DEF Answered
    <2>3. ASSUME s.match[n][p] > 0
          PROVE  PrevHeld(s.cache[p], m)
      <3>1. PICK i : i = m.prevLogIndex
        OBVIOUS
      <3>2. /\ Confirmed(s, n, p, s.match[n][p]) /\ s.next[n][p] = s.match[n][p] + 1
        BY <1>1, <2>3 DEF ProgressInv
      <3>3. s.match[n][p] = i
        BY <1>4, <1>5, <3>1, <3>2, SMT
      <3>4. i \in Nat /\ i > 0 /\ i <= Len(s.cache[n]) /\ s.term[p] >= s.term[n]
        BY <1>5, <2>3, <3>2, <3>3 DEF Confirmed
      <3>5. s.term[p] = s.term[n]
        BY <1>4, <1>5, <2>1, <3>4, SMT
      <3>6. Has(s.cache[p], SubSeq(s.cache[n], 1, i))
        BY <3>2, <3>3, <3>5 DEF Confirmed
      <3>7. /\ DOMAIN SubSeq(s.cache[n], 1, i) = 1 .. i
            /\ \A j \in 1 .. i : SubSeq(s.cache[n], 1, i)[j] = s.cache[n][j]
        BY <1>5, <3>4, PrefixFacts
      <3>8. i \in 1 .. i
        BY <3>4, SMT
      <3>9. i \in DOMAIN s.cache[p] /\ s.cache[p][i] = s.cache[n][i]
        BY <3>6, <3>7, <3>8 DEF Has
      <3>10. i \in DOMAIN Chain(m)
        BY <1>4, <3>1, <3>4, ChainFacts
      <3>11. s.cache[n][i] = Chain(m)[i]
        BY <1>4, <3>10 DEF Has
      <3> QED
        BY <3>1, <3>9, <3>11 DEF PrevHeld
    <2>4. s.match[n][p] = 0
      BY <1>5, <2>2, <2>3, SMT
    <2> QED
      BY <2>4 DEF SameProgress
  <1>9. Truthful(u, n, p, r)
    BY <1>6, <1>7, <1>8 DEF Truthful
  <1> QED
    BY <1>3, <1>7, <1>9

LEMMA SentHandledStep ==
    ASSUME IndInv, NEW n \in Server, NEW p \in Server, n # p, role[n] = "Leader", round[n][p] = Idle,
           NEW m, m = Request(n, Header(n, p)), HandleAppendEntries(p, m),
           SetRound(n, p, [at |-> "answered", reply |-> AppendReply(p, m)]),
           UNCHANGED <<leaderVars, pending, late, faults>>
    PROVE  IndInv'
  <1>1. PICK s, t : /\ s = Now /\ Local(s) /\ Remote(s)
                    /\ t = Now' /\ Local(t)' /\ Remote(t)'
    BY Views
  <1>2. SafeInv(s) /\ Types(s)
    BY <1>1 DEF IndInv, SafeInv
  <1>3. Leads(s, n) /\ s.round[n][p] = Idle
    BY <1>1 DEF Local, Remote, Leads
  <1>4. Asks(s, n, p, m) /\ MessageShape(m) /\ IsChain(Chain(m))
    <2>1. Asks(s, n, p, m)
      BY <1>1, <1>2, <1>3, RequestAsks
    <2> QED
      BY <2>1 DEF Asks
  <1>5. PICK r, a : r = AppendReply(p, m) /\ a = [at |-> "answered", reply |-> r]
    OBVIOUS
  <1>6. Answered(s, p, m, r) /\ r \in Replies
    BY <1>1, <1>2, <1>4, <1>5, AppendReplyFacts
  <1>7. /\ Received(s, t, p, m) /\ LocalTypes(t)
        /\ DOMAIN log' = Server /\ \A q \in Server : LogShape(log'[q])
    BY <1>1, <1>2, <1>4, HandleAppendEntriesFacts
  <1>8. /\ late' = late /\ pending' = pending /\ faults' = faults
        /\ t.sent = s.sent /\ t.next = s.next /\ t.match = s.match
    BY <1>1 DEF leaderVars, Remote
  <1>9. Map(t.round, RoundRange) /\ Cell(s.round, t.round, n, p, a)
    <2>1. t.round = [s.round EXCEPT ![n][p] = a] /\ Map(s.round, RoundRange)
      BY <1>1, <1>2, <1>5, TypeMaps DEF Remote, SetRound
    <2>2. PICK S : S = {Idle} \cup [at : {"answered"}, reply : Replies]
      OBVIOUS
    <2>3. a \in S
      BY <1>5, <1>6, <2>2, SMT
    <2>4. s.round \in [Server -> [Server -> S]]
      BY <2>1, <2>2 DEF Map, RoundRange
    <2>5. t.round \in [Server -> [Server -> S]] /\ Cell(s.round, t.round, n, p, a)
      BY <2>1, <2>3, <2>4, CellFacts, SMT
    <2> QED
      BY <2>2, <2>5 DEF Map, RoundRange
  \* The request is on its way ...
  <1>10. PICK v : Fields(v, s.term, s.vote, s.role, s.votes, s.ends, s.cache,
                         s.commit, s.next, s.match, s.round, s.sent \cup {m}, s.chosen)
    BY StateFields
  <1>11. /\ v.term = s.term /\ v.vote = s.vote /\ v.role = s.role
         /\ v.votes = s.votes /\ v.ends = s.ends /\ v.cache = s.cache
         /\ v.commit = s.commit /\ v.next = s.next /\ v.match = s.match
         /\ v.round = s.round /\ v.sent = s.sent \cup {m} /\ v.chosen = s.chosen
    BY <1>10 DEF Fields
  <1>12. Types(v)
    BY <1>2, <1>11, TypeMaps
  <1>13. Fresh(s, v, n, m)
    BY <1>3, <1>4, <1>11 DEF Fresh, Asks, SameElection, SameCommit, SameProgress
  <1>14. SafeInv(v)
    BY <1>2, <1>12, <1>13, FreshStep
  \* ... is handled ...
  <1>15. PICK u : Fields(u, t.term, t.vote, t.role, t.votes, t.ends, t.cache,
                         t.commit, s.next, s.match, s.round, s.sent \cup {m}, t.chosen)
    BY StateFields
  <1>16. /\ u.term = t.term /\ u.vote = t.vote /\ u.role = t.role
         /\ u.votes = t.votes /\ u.ends = t.ends /\ u.cache = t.cache
         /\ u.commit = t.commit /\ u.next = s.next /\ u.match = s.match
         /\ u.round = s.round /\ u.sent = s.sent \cup {m} /\ u.chosen = t.chosen
    BY <1>15 DEF Fields
  <1>17. Types(u)
    BY <1>2, <1>7, <1>16, TypeMaps DEF LocalTypes
  <1>18. Received(v, u, p, m) /\ Received(s, u, p, m)
    <2>1. CASE Ignored(s, t, p, m)
      BY <1>11, <1>16, <2>1 DEF Received, Ignored, SameElection, SameCommit
    <2>2. CASE Followed(s, t, p, m.term) /\ Refused(s, t, p, m)
      BY <1>11, <1>16, <2>2 DEF Received, Followed, Refused, SameCommit
    <2>3. CASE Followed(s, t, p, m.term) /\ Accepted(s, t, p, m)
      <3>1. PICK c : Allowed(s, p, m, c) /\ Reported(s, t, p, c)
        BY <2>3 DEF Accepted
      <3>2. /\ Allowed(v, p, m, c) /\ Reported(v, u, p, c) /\ Reported(s, u, p, c)
        BY <1>11, <1>16, <3>1 DEF Allowed, Reported
      <3>3. /\ Followed(v, u, p, m.term) /\ Followed(s, u, p, m.term)
        BY <1>11, <1>16, <2>3 DEF Followed
      <3>4. Accepted(v, u, p, m) /\ Accepted(s, u, p, m)
        BY <1>11, <1>16, <2>3, <3>1, <3>2 DEF Accepted
      <3> QED
        BY <3>3, <3>4 DEF Received
    <2> QED
      BY <1>7, <2>1, <2>2, <2>3 DEF Received
  <1>19. SameProgress(v, u) /\ SameProgress(s, u) /\ u.sent = v.sent /\ m \in v.sent
    BY <1>11, <1>16 DEF SameProgress
  <1>20. SafeInv(u)
    BY <1>14, <1>17, <1>18, <1>19, ReceivedStep
  \* ... and answered.
  <1>21. PICK w : Fields(w, t.term, t.vote, t.role, t.votes, t.ends, t.cache,
                         t.commit, s.next, s.match, t.round, s.sent \cup {m}, t.chosen)
    BY StateFields
  <1>22. /\ w.term = t.term /\ w.vote = t.vote /\ w.role = t.role
         /\ w.votes = t.votes /\ w.ends = t.ends /\ w.cache = t.cache
         /\ w.commit = t.commit /\ w.next = s.next /\ w.match = s.match
         /\ w.round = t.round /\ w.sent = s.sent \cup {m} /\ w.chosen = t.chosen
    BY <1>21 DEF Fields
  <1>23. Types(w)
    BY <1>2, <1>7, <1>9, <1>22, TypeMaps DEF LocalTypes
  <1>24. /\ Leads(u, n) /\ Truthful(u, n, p, r)
         /\ r.success => u.term[p] = u.term[n] /\ r.index \in Nat
    BY <1>2, <1>3, <1>4, <1>6, <1>18, <1>19, <1>20, AnswerIsTruthful
  <1>25. OnlyProgress(u, w, n, p)
    BY <1>9, <1>16, <1>22, ZenonT(40) DEF OnlyProgress, Cell, SameElection, SameLogs, SameCommit
  <1>26. Answer(u, w, n, p, r)
    BY <1>3, <1>5, <1>9, <1>16, <1>22, <1>24, <1>25 DEF Answer, Cell
  <1>27. SafeInv(w)
    BY <1>20, <1>23, <1>26, AnswerStep
  <1>28. Shrink(w, t)
    BY <1>8, <1>22 DEF Shrink, SameElection, SameCommit, SameProgress
  <1>29. Types(t)
    BY <1>2, <1>7, <1>8, <1>9, TypeMaps DEF LocalTypes
  <1>30. SafeInv(t)
    BY <1>27, <1>28, <1>29, ShrinkStep
  <1> QED
    BY <1>1, <1>7, <1>8, <1>30, Restored DEF IndInv
=============================================================================
