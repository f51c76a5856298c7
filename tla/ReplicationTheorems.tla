------------------------ MODULE ReplicationTheorems -------------------------
(***************************************************************************)
(* Every step of Replication, with no window open, keeps the invariant; and *)
(* what follows from it.                                                    *)
(***************************************************************************)
EXTENDS ReplicationProofs

\* The leaves below are proved by Zenon unless they name another prover.
USE Zenon

(***************************************************************************)
(* A round ends, or is answered                                             *)
(***************************************************************************)

LEMMA IdleAt == "idle" # "answered" /\ Idle.at = "idle"
  BY SMT DEF Idle

\* A round that ends: its reply is forgotten.
LEMMA RoundOver ==
    ASSUME IndInv, NEW n \in Server, NEW p \in Server, round[n][p].at = "answered",
           SetRound(n, p, Idle), NEW s, Types(s), Remote(s), NEW t, Remote(t)'
    PROVE  /\ Map(t.round, RoundRange) /\ Cell(s.round, t.round, n, p, Idle)
           /\ s.round[n][p] # Idle /\ s.round[n][p] = round[n][p]
  <1>1. t.round = [s.round EXCEPT ![n][p] = Idle] /\ Map(s.round, RoundRange)
        /\ s.round[n][p] = round[n][p]
    BY TypeMaps DEF Remote, SetRound
  <1>2. PICK S : S = {Idle} \cup [at : {"answered"}, reply : Replies]
    OBVIOUS
  <1>3. Idle \in S /\ s.round \in [Server -> [Server -> S]]
    BY <1>1, <1>2 DEF Map, RoundRange
  <1>4. t.round \in [Server -> [Server -> S]] /\ Cell(s.round, t.round, n, p, Idle)
    BY <1>1, <1>3, CellFacts, SMT
  <1>5. s.round[n][p] # Idle
    BY <1>1, IdleAt
  <1> QED
    BY <1>1, <1>2, <1>4, <1>5 DEF Map, RoundRange

LEMMA RoundFailsStep ==
    ASSUME IndInv, NEW n \in Server, NEW p \in Server, RoundFails(n, p)
    PROVE  IndInv'
  <1>1. PICK s, t : /\ s = Now /\ Local(s) /\ Remote(s)
                    /\ t = Now' /\ Local(t)' /\ Remote(t)'
    BY Views
  <1>2. SafeInv(s) /\ Types(s)
    BY <1>1 DEF IndInv, SafeInv
  <1>3. /\ Map(t.round, RoundRange) /\ Cell(s.round, t.round, n, p, Idle) /\ s.round[n][p] # Idle
    BY <1>1, <1>2, RoundOver DEF RoundFails
  <1>4. /\ SameElection(s, t) /\ SameCommit(s, t) /\ log' = log /\ pending' = pending /\ late' = late
        /\ faults' = faults /\ t.next = s.next /\ t.match = s.match /\ t.sent = s.sent
    BY <1>1 DEF RoundFails, electionVars, leaderVars, Local, Remote, SameElection, SameCommit
  <1>5. t.cache = s.cache
    BY <1>1, <1>4 DEF Local
  <1>6. Types(t)
    BY <1>2, <1>3, <1>4, <1>5, TypeMaps DEF SameElection, SameCommit
  <1>7. OnlyProgress(s, t, n, p)
    BY <1>3, <1>4, <1>5 DEF OnlyProgress, Cell, SameLogs
  <1>8. Heard(s, t, n, p, s.round[n][p].reply)
    BY <1>3, <1>4, <1>7 DEF Heard, Cell
  <1>9. SafeInv(t)
    BY <1>2, <1>6, <1>8, HeardStep
  <1> QED
    BY <1>1, <1>4, <1>9, Restored DEF IndInv

\* The reply reports a later term: the leader steps down.
LEMMA SteppedDownStep ==
    ASSUME IndInv, NEW n \in Server, NEW p \in Server, HandleReply(n, p),
           round[n][p].reply.term > round[n][p].reply.asked
    PROVE  IndInv'
  <1>1. PICK s, t : /\ s = Now /\ Local(s) /\ Remote(s)
                    /\ t = Now' /\ Local(t)' /\ Remote(t)'
    BY Views
  <1>2. SafeInv(s) /\ Types(s)
    BY <1>1 DEF IndInv, SafeInv
  <1>3. /\ Map(t.round, RoundRange) /\ Cell(s.round, t.round, n, p, Idle)
        /\ s.round[n][p] # Idle /\ s.round[n][p] = round[n][p]
    BY <1>1, <1>2, RoundOver DEF HandleReply
  <1>4. PICK r : r = s.round[n][p].reply
    OBVIOUS
  <1>5. r.term \in Terms
    <2>1. s.round[n][p] \in [at : {"answered"}, reply : Replies]
      BY <1>2, <1>3, TypeFacts
    <2> QED
      BY <1>4, <2>1, SMT DEF Replies
  <1>6. HandleStepDown(n, r.term) /\ leaderVars' = leaderVars
    BY <1>3, <1>4 DEF HandleReply, leaderVars
  <1>7. /\ t.votes = s.votes /\ t.ends = s.ends /\ SameCommit(s, t) /\ log' = log /\ pending' = pending
        /\ late' = late /\ faults' = faults /\ t.next = s.next /\ t.match = s.match /\ t.sent = s.sent
    BY <1>1, <1>6 DEF HandleReply, leaderVars, Local, Remote, SameCommit
  <1>8. t.cache = s.cache
    BY <1>1, <1>7 DEF Local
  <1>9. PICK u : Fields(u, t.term, t.vote, t.role, t.votes, t.ends, s.cache,
                        s.commit, s.next, s.match, s.round, s.sent, s.chosen)
    BY StateFields
  <1>10. /\ u.term = t.term /\ u.vote = t.vote /\ u.role = t.role
         /\ u.votes = t.votes /\ u.ends = t.ends /\ u.cache = s.cache
         /\ u.commit = s.commit /\ u.next = s.next /\ u.match = s.match
         /\ u.round = s.round /\ u.sent = s.sent /\ u.chosen = s.chosen
    BY <1>9 DEF Fields
  <1>11. SafeInv(u) /\ Map(t.term, Terms) /\ Map(t.vote, VoteRange) /\ Map(t.role, RoleRange)
    <2>1. currentTerm[n] = s.term[n] /\ s.term[n] \in Nat /\ r.term \in Nat
      BY <1>1, <1>2, <1>5, TypeFacts, Bounds, SMT DEF Local, Terms
    <2>2. CASE r.term > s.term[n]
      <3>1. BecomeFollower(n, r.term) /\ r.term >= s.term[n]
        BY <1>6, <2>1, <2>2, SMT DEF HandleStepDown
      <3>2. /\ Changed(s.term, t.term, n, r.term) /\ Changed(s.role, t.role, n, "Follower")
            /\ Changed(s.vote, t.vote, n, IF r.term > s.term[n] THEN Nil ELSE s.vote[n])
            /\ Map(t.term, Terms) /\ Map(t.vote, VoteRange) /\ Map(t.role, RoleRange)
        BY <1>1, <1>2, <1>5, <3>1, BecomeFollowerFacts
      <3>3. Types(u)
        BY <1>2, <1>7, <1>10, <3>2, TypeMaps
      <3>4. Follow(s, u, n, r.term)
        BY <1>7, <1>10, <3>1, <3>2 DEF Follow, SameLogs, SameCommit, SameProgress
      <3> QED
        BY <1>2, <3>2, <3>3, <3>4, FollowStep
    <2>3. CASE ~(r.term > s.term[n])
      <3>1. t.term = s.term /\ t.vote = s.vote /\ t.role = s.role
        BY <1>1, <1>6, <2>1, <2>3 DEF HandleStepDown, Local
      <3>2. Types(u)
        BY <1>2, <1>7, <1>10, <3>1, TypeMaps
      <3>3. Shrink(s, u)
        BY <1>7, <1>10, <3>1 DEF Shrink, SameElection, SameCommit, SameProgress
      <3> QED
        BY <1>2, <3>1, <3>2, <3>3, ShrinkStep, TypeMaps
    <2> QED
      BY <2>2, <2>3
  <1>12. Types(t)
    BY <1>2, <1>3, <1>7, <1>8, <1>11, TypeMaps DEF SameCommit
  <1>13. OnlyProgress(u, t, n, p)
    BY <1>3, <1>7, <1>8, <1>10, ZenonT(40) DEF OnlyProgress, Cell, SameLogs, SameElection, SameCommit
  <1>14. Heard(u, t, n, p, r)
    BY <1>3, <1>4, <1>7, <1>10, <1>13 DEF Heard, Cell
  <1>15. SafeInv(t)
    BY <1>11, <1>12, <1>14, HeardStep
  <1> QED
    BY <1>1, <1>7, <1>15, Restored DEF IndInv

\* BacktrackNextIndex goes back, but not below the first entry.
LEMMA BackFacts ==
    ASSUME NEW h \in Nat, h > 0, NEW c \in Nat
    PROVE  LET b == Max({1, IF c \in 1 .. h - 1 THEN c ELSE h - 1})
           IN  b \in Nat /\ b > 0 /\ b <= h
  <1>1. PICK d : d = IF c \in 1 .. h - 1 THEN c ELSE h - 1
    OBVIOUS
  <1>2. d \in Nat /\ d <= h
    BY <1>1, SMT
  <1>3. Max({1, d}) \in Nat /\ Max({1, d}) = IF 1 >= d THEN 1 ELSE d
    BY <1>2, LargerOfTwo, SMT
  <1>4. Max({1, d}) > 0 /\ Max({1, d}) <= h
    BY <1>2, <1>3, SMT
  <1> QED
    BY <1>1, <1>3, <1>4, SMT

\* What the reply does to the progress.
Learns(s, t, n, p, r) ==
    \/ /\ r.success
       /\ t.match[n][p] = IF s.match[n][p] >= r.index THEN s.match[n][p] ELSE r.index
       /\ t.next[n][p] = IF s.next[n][p] >= r.index + 1 THEN s.next[n][p] ELSE r.index + 1
    \/ /\ ~r.success
       /\ t.next[n][p] <= s.next[n][p] /\ t.match[n][p] = s.match[n][p]

OtherCells(f, g, n, p) == \A q, r \in Server : q # n \/ r # p => g[q][r] = f[q][r]

LEMMA CellOthers ==
    ASSUME NEW f, NEW g, NEW n, NEW p, NEW e, Cell(f, g, n, p, e)
    PROVE  OtherCells(f, g, n, p) /\ g[n][p] = e
  BY DEF Cell, OtherCells

LEMMA LearnsFacts ==
    ASSUME NEW n \in Server, NEW p \in Server, NEW s, Types(s), Remote(s), NEW t, Remote(t)',
           NEW r, r.index \in Nat, r.success => r.index \in Indices,
           IF r.success THEN UpdatePeerProgress(n, p, r.index) ELSE BacktrackNextIndex(n, p, r.index)
    PROVE  /\ Learns(s, t, n, p, r) /\ Map(t.next, NextRange) /\ Map(t.match, MatchRange)
           /\ OtherCells(s.next, t.next, n, p) /\ OtherCells(s.match, t.match, n, p)
  <1>1. Map(s.next, NextRange) /\ Map(s.match, MatchRange)
    BY TypeMaps
  <1>2. s.next \in [Server -> [Server -> 1 .. MaxIndex + 1]] /\ s.match \in [Server -> [Server -> Indices]]
    BY <1>1 DEF Map, NextRange, MatchRange
  <1>3. PICK h, g, c : h = s.next[n][p] /\ g = s.match[n][p] /\ c = r.index
    OBVIOUS
  <1>4. /\ h \in Nat /\ h > 0 /\ h <= MaxIndex + 1 /\ h \in 1 .. MaxIndex + 1
        /\ g \in Nat /\ g \in Indices /\ c \in Nat
    BY <1>2, <1>3, Bounds, SMT DEF Indices
  <1>5. CASE r.success
    <2>1. PICK j, k : j = Max({g, c}) /\ k = Max({h, c + 1})
      OBVIOUS
    <2>2. j = IF g >= c THEN g ELSE c
      BY <1>4, <2>1, LargerOfTwo
    <2>3. k = IF h >= c + 1 THEN h ELSE c + 1
      <3>1. c + 1 \in Nat
        BY <1>4, SMT
      <3> QED
        BY <1>4, <2>1, <3>1, LargerOfTwo, SMT
    <2>4. c \in Indices
      BY <1>3, <1>5
    <2>5. j \in Indices /\ k \in 1 .. MaxIndex + 1
      BY <1>4, <2>2, <2>3, <2>4, Bounds, SMT DEF Indices
    <2>6. t.match = [s.match EXCEPT ![n][p] = j] /\ t.next = [s.next EXCEPT ![n][p] = k]
      BY <1>3, <1>5, <2>1 DEF UpdatePeerProgress, Remote
    <2>7. t.match \in [Server -> [Server -> Indices]] /\ Cell(s.match, t.match, n, p, j)
      BY <1>2, <2>5, <2>6, CellFacts
    <2>8. t.next \in [Server -> [Server -> 1 .. MaxIndex + 1]] /\ Cell(s.next, t.next, n, p, k)
      BY <1>2, <2>5, <2>6, CellFacts
    <2>9. Map(t.next, NextRange) /\ Map(t.match, MatchRange)
      BY <2>7, <2>8 DEF Map, NextRange, MatchRange
    <2>10. /\ OtherCells(s.next, t.next, n, p) /\ OtherCells(s.match, t.match, n, p)
           /\ t.match[n][p] = j /\ t.next[n][p] = k
      BY <2>7, <2>8, CellOthers
    <2>11. Learns(s, t, n, p, r)
      BY <1>3, <1>5, <2>2, <2>3, <2>10 DEF Learns
    <2> QED
      BY <2>9, <2>10, <2>11
  <1>6. CASE ~r.success
    <2>1. PICK k : k = Max({1, IF c \in 1 .. h - 1 THEN c ELSE h - 1})
      OBVIOUS
    <2>2. k \in Nat /\ k > 0 /\ k <= h
      BY <1>4, <2>1, BackFacts, SMT
    <2>3. k \in 1 .. MaxIndex + 1
      BY <1>4, <2>2, Bounds, SMT
    <2>4. t.next = [s.next EXCEPT ![n][p] = k] /\ t.match = s.match
      BY <1>3, <1>6, <2>1 DEF BacktrackNextIndex, Remote
    <2>5. t.next \in [Server -> [Server -> 1 .. MaxIndex + 1]] /\ Cell(s.next, t.next, n, p, k)
      BY <1>2, <2>3, <2>4, CellFacts
    <2>6. OtherCells(s.next, t.next, n, p) /\ t.next[n][p] = k
      BY <2>5, CellOthers
    <2>7. OtherCells(s.match, t.match, n, p)
      BY <2>4 DEF OtherCells
    <2>8. Map(t.next, NextRange)
      BY <2>5 DEF Map, NextRange
    <2>9. Learns(s, t, n, p, r)
      BY <1>3, <1>6, <2>2, <2>4, <2>6 DEF Learns
    <2> QED
      BY <1>1, <2>4, <2>6, <2>7, <2>8, <2>9
  <1> QED
    BY <1>5, <1>6

LEMMA HandleReplyStep ==
    ASSUME IndInv, NEW n \in Server, NEW p \in Server, HandleReply(n, p)
    PROVE  IndInv'
  <1>1. PICK s, t : /\ s = Now /\ Local(s) /\ Remote(s)
                    /\ t = Now' /\ Local(t)' /\ Remote(t)'
    BY Views
  <1>2. SafeInv(s) /\ Types(s)
    BY <1>1 DEF IndInv, SafeInv
  <1>3. /\ Map(t.round, RoundRange) /\ Cell(s.round, t.round, n, p, Idle)
        /\ s.round[n][p] # Idle /\ s.round[n][p] = round[n][p]
    BY <1>1, <1>2, RoundOver DEF HandleReply
  <1>4. PICK r : r = round[n][p].reply
    OBVIOUS
  <1>5. CASE r.term > r.asked
    BY <1>4, <1>5, SteppedDownStep
  <1>6. CASE ~(r.term > r.asked)
    <2>1. /\ r.term \in Nat /\ r.asked \in Nat /\ r.index \in Nat /\ (r.success => r.index \in Indices)
      BY <1>2, <1>3, <1>4, ReplyFacts
    <2>2. r.term <= r.asked
      BY <1>6, <2>1, SMT
    <2>3. /\ IF r.success THEN UpdatePeerProgress(n, p, r.index) ELSE BacktrackNextIndex(n, p, r.index)
          /\ UNCHANGED <<currentTerm, votedFor, role>>
      BY <1>4, <1>6 DEF HandleReply
    <2>4. /\ SameElection(s, t) /\ SameCommit(s, t) /\ log' = log /\ pending' = pending
          /\ late' = late /\ faults' = faults /\ t.sent = s.sent
      BY <1>1, <2>3 DEF HandleReply, Local, Remote, SameCommit, SameElection
    <2>5. t.cache = s.cache
      BY <1>1, <2>4 DEF Local
    <2>6. /\ Learns(s, t, n, p, r) /\ Map(t.next, NextRange) /\ Map(t.match, MatchRange)
          /\ OtherCells(s.next, t.next, n, p) /\ OtherCells(s.match, t.match, n, p)
      BY <1>1, <1>2, <2>1, <2>3, LearnsFacts
    <2>7. Types(t)
      BY <1>2, <1>3, <2>4, <2>5, <2>6, TypeMaps DEF SameElection, SameCommit
    <2>8. OnlyProgress(s, t, n, p)
      BY <1>3, <2>4, <2>5, <2>6, ZenonT(40) DEF OnlyProgress, OtherCells, Cell, SameLogs
    <2>9. Heard(s, t, n, p, r)
      BY <1>3, <1>4, <2>2, <2>6, <2>8 DEF Heard, Cell, Learns
    <2>10. SafeInv(t)
      BY <1>2, <2>7, <2>9, HeardStep
    <2> QED
      BY <1>1, <2>4, <2>10, Restored DEF IndInv
  <1> QED
    BY <1>5, <1>6

\* The index that AdvanceCommitIndex finds is one the leader holds, and those
\* who have confirmed it are a quorum.
LEMMA IndexFound ==
    ASSUME NEW s, SafeInv(s), NEW n \in Server, Leads(s, n), NEW match,
           match = With(s.match[n], n, Len(s.cache[n])), NEW i, i = QuorumIndex(Config, match)
    PROVE  i \in Nat /\ HasQuorum(Config, Acked(s, n, i))
  <1>1. Types(s) /\ Map(s.match, MatchRange) /\ Len(s.cache[n]) \in Nat
    BY TypeMaps, CacheFacts DEF SafeInv
  <1>2. s.match[n] \in [Server -> Nat]
    BY <1>1, Bounds, SMT DEF Map, MatchRange, Indices
  <1>3. match \in [Server -> Nat] /\ \A p \in Server : p # n => match[p] = s.match[n][p]
    BY <1>1, <1>2, SMT DEF With
  <1>4. i \in Nat /\ HasQuorum(Config, {m \in Server : match[m] >= i})
    BY <1>3 DEF SafeInv, Laws, QuorumIndexHeld
  <1>5. {m \in Server : match[m] >= i} \subseteq Acked(s, n, i)
    BY <1>3 DEF Acked
  <1> QED
    BY <1>4, <1>5, Grow DEF SafeInv

\* The leader n commits up to i.
Advances(s, t, n, i) ==
    /\ Leads(s, n) /\ i \in Nat /\ HasQuorum(Config, Acked(s, n, i)) /\ i > s.commit[n]
    /\ i \in DOMAIN s.cache[n] /\ s.cache[n][i].Term = s.term[n]
    /\ t.commit = With(s.commit, n, i)
    /\ t.chosen = IF i > Len(s.chosen) THEN SubSeq(s.cache[n], 1, i) ELSE s.chosen

LEMMA AdvanceFacts ==
    ASSUME IndInv, NEW n \in Server, AdvanceCommitIndex(n),
           NEW s, SafeInv(s), Local(s), Remote(s), NEW t, Local(t)'
    PROVE  \E i : Advances(s, t, n, i)
  <1>1. Local(s) /\ Remote(s) /\ Local(t)'
    OBVIOUS
  <1>2. SafeInv(s) /\ Types(s) /\ VotesInv(s) /\ ChainsInv(s)
    BY DEF SafeInv
  <1>3. Leads(s, n) /\ "Leader" # "Follower"
    BY <1>1 DEF AdvanceCommitIndex, Local, Leads
  <1>4. s.term[n] \in Nat /\ s.term[n] > 0 /\ s.commit[n] \in Nat
    BY <1>2, <1>3, TypeFacts DEF Leads, VotesInv
  <1>5. LogShape(log[n]) /\ s.cache[n] = log[n].cache /\ LatestIndex(log[n]) = Len(s.cache[n])
    BY <1>1, LogFacts DEF Local
  <1>6. PICK match, i : match = With(s.match[n], n, Len(s.cache[n])) /\ i = QuorumIndex(Config, match)
    OBVIOUS
  <1>7. i \in Nat /\ HasQuorum(Config, Acked(s, n, i))
    BY <1>2, <1>3, <1>6, IndexFound, SMT
  <1>8. QuorumIndex(Config, [matchIndex[n] EXCEPT ![n] = LatestIndex(log[n])]) = i
    BY <1>1, <1>5, <1>6 DEF Remote, With
  <1>9. /\ i > s.commit[n] /\ TermAt(log[n], i) = s.term[n]
        /\ t.commit = With(s.commit, n, i)
        /\ t.chosen = IF i > Len(s.chosen) THEN SubSeq(s.cache[n], 1, i) ELSE s.chosen
    BY <1>1, <1>5, <1>8 DEF Local, AdvanceCommitIndex, Commits, Report, Prefix, With
  <1>10. i > 0 /\ 0 # s.term[n]
    BY <1>4, <1>7, <1>9, SMT
  <1>11. i \in DOMAIN s.cache[n] /\ s.cache[n][i].Term = s.term[n]
    BY <1>5, <1>7, <1>9, <1>10, TermAtFacts
  <1>12. Advances(s, t, n, i)
    BY <1>3, <1>7, <1>9, <1>11 DEF Advances
  <1> QED
    BY <1>12

LEMMA AdvanceCommitIndexStep ==
    ASSUME IndInv, NEW n \in Server, AdvanceCommitIndex(n)
    PROVE  IndInv'
  <1>1. PICK s, t : /\ s = Now /\ Local(s) /\ Remote(s)
                    /\ t = Now' /\ Local(t)' /\ Remote(t)'
    BY Views
  <1>2. SafeInv(s) /\ Types(s) /\ VotesInv(s) /\ ChainsInv(s)
    BY <1>1 DEF IndInv, SafeInv
  <1>3. PICK i : Advances(s, t, n, i)
    BY <1>1, <1>2, AdvanceFacts
  <1>4. Leads(s, n) /\ i \in Nat /\ HasQuorum(Config, Acked(s, n, i))
    BY <1>3 DEF Advances
  <1>5. /\ t.commit = With(s.commit, n, i)
        /\ t.chosen = IF i > Len(s.chosen) THEN SubSeq(s.cache[n], 1, i) ELSE s.chosen
    BY <1>3 DEF Advances
  <1>6. i \in DOMAIN s.cache[n] /\ s.cache[n][i].Term = s.term[n]
    BY <1>3 DEF Advances
  <1>7. i \in Indices /\ i <= Len(s.cache[n])
    <2>1. i <= Len(s.cache[n]) /\ Len(s.cache[n]) \in Nat /\ Len(s.cache[n]) <= MaxIndex
      BY <1>2, <1>6, CacheFacts
    <2> QED
      BY <1>4, <2>1, Bounds, SMT DEF Indices
  <1>8. /\ log' = log /\ pending' = pending /\ faults' = faults /\ late' = late /\ t.sent = s.sent
         /\ SameElection(s, t) /\ SameProgress(s, t)
    BY <1>1 DEF Local, Remote, SameElection, SameProgress, AdvanceCommitIndex, leaderVars,
                       electionVars
  <1>9. SameLogs(s, t)
    BY <1>1, <1>8 DEF Local, SameLogs
  <1>10. Map(t.commit, Indices) /\ Changed(s.commit, t.commit, n, i)
    <2>1. Map(With(s.commit, n, i), Indices) /\ Changed(s.commit, With(s.commit, n, i), n, i)
      BY <1>2, <1>7, TypeMaps, WithFacts
    <2> QED
      BY <1>5, <2>1
  <1>11. t.chosen \in Seq(Entries)
    <2>1. s.cache[n] \in Seq(Entries) /\ s.chosen \in Seq(Entries)
      BY <1>2, TypeFacts
    <2>2. SubSeq(s.cache[n], 1, i) \in Seq(Entries)
      BY <1>4, <1>7, <2>1, PrefixFacts
    <2> QED
      BY <1>5, <2>1, <2>2
  <1>12. Types(t)
    BY <1>2, <1>8, <1>9, <1>10, <1>11, TypeMaps DEF SameElection, SameLogs, SameProgress
  <1>13. SafeInv(t)
    BY <1>2, <1>4, <1>5, <1>6, <1>8, <1>9, <1>10, <1>12, LeaderCommits, SMT
  <1> QED
    BY <1>1, <1>8, <1>13, Restored DEF IndInv

\* The request is given up and may still arrive.
LEMMA GivenUpStep ==
    ASSUME IndInv, NEW n \in Server, NEW p \in Server, role[n] = "Leader", round[n][p] = Idle,
           NEW m, m = Request(n, Header(n, p)),
           Cardinality(late) < MaxLate, late' = late \cup {m}, SetRound(n, p, Idle),
           UNCHANGED <<electionVars, log, commitIndex, chosen, leaderVars, pending, faults>>
    PROVE  IndInv'
  <1>1. PICK s, t : /\ s = Now /\ Local(s) /\ Remote(s)
                    /\ t = Now' /\ Local(t)' /\ Remote(t)'
    BY Views
  <1>2. SafeInv(s) /\ Types(s)
    BY <1>1 DEF IndInv, SafeInv
  <1>3. Leads(s, n) /\ s.round[n][p] = Idle
    BY <1>1 DEF Local, Remote, Leads
  <1>4. Asks(s, n, p, m)
    BY <1>1, <1>2, <1>3, RequestAsks
  <1>5. /\ SameElection(s, t) /\ SameCommit(s, t) /\ log' = log /\ pending' = pending
        /\ faults' = faults /\ t.next = s.next /\ t.match = s.match
    BY <1>1 DEF electionVars, leaderVars, Local, Remote, SameElection, SameCommit
  <1>6. t.cache = s.cache
    BY <1>1, <1>5 DEF Local
  <1>7. t.round = s.round
    <2>1. t.round = [s.round EXCEPT ![n][p] = Idle] /\ Map(s.round, RoundRange)
      BY <1>1, <1>2, TypeMaps DEF Remote, SetRound
    <2> QED
      BY <1>3, <2>1, SMT DEF Map, RoundRange
  <1>8. Types(t)
    BY <1>2, <1>5, <1>6, <1>7, TypeMaps DEF SameElection, SameCommit
  <1>9. t.sent = s.sent \cup {m}
    BY <1>1 DEF Remote
  <1>10. Fresh(s, t, n, m)
    BY <1>3, <1>4, <1>5, <1>6, <1>7, <1>9 DEF Fresh, Asks, SameProgress
  <1>11. SafeInv(t)
    BY <1>2, <1>8, <1>10, FreshStep
  <1>12. IsFiniteSet(late') /\ Cardinality(late') <= MaxLate
    <2>1. PICK c, d : c = Cardinality(late) /\ d = Cardinality(late \cup {m})
      OBVIOUS
    <2>2. IsFiniteSet(late \cup {m}) /\ c \in Nat /\ d \in Nat /\ d <= c + 1
      BY <1>2, <2>1 DEF IndInv, SafeInv, Laws, OneMore
    <2>3. d <= MaxLate
      BY <2>1, <2>2, Bounds, SMT
    <2> QED
      BY <2>1, <2>2, <2>3
  <1> QED
    BY <1>1, <1>5, <1>11, <1>12, Restored DEF IndInv

LEMMA ReplicateOnceStep ==
    ASSUME Windows = {}, IndInv, NEW n \in Server, NEW p \in Server, ReplicateOnce(n, p)
    PROVE  IndInv'
  <1>1. n # p /\ role[n] = "Leader" /\ round[n][p] = Idle
    BY DEF ReplicateOnce, Peers
  <1>2. PICK m : m = Request(n, Header(n, p))
    OBVIOUS
  <1>3. Windows \cap {"round", "build"} = {}
    OBVIOUS
  <1>4. Send(n, p, m)
    BY <1>2, <1>3 DEF ReplicateOnce
  <1> QED
    BY <1>1, <1>2, <1>4, SentHandledStep, GivenUpStep DEF Send

(***************************************************************************)
(* The invariant                                                            *)
(***************************************************************************)

LEMMA InitState ==
    ASSUME Init, NEW s, s = Now, Local(s), Remote(s)
    PROVE  /\ \A n \in Server : /\ s.term[n] = 0 /\ s.vote[n] = Nil /\ s.role[n] = "Follower"
                                /\ s.votes[n] = {} /\ s.ends[n].term = 0 /\ s.cache[n] = <<>>
                                /\ s.commit[n] = 0
           /\ s.chosen = <<>> /\ s.sent = {} /\ Types(s)
           /\ log = [n \in Server |-> LogOf(<<>>, 1)]
  <1>1. log = [n \in Server |-> LogOf(<<>>, 1)]
    BY SMT DEF Init, NewRaftLog, LogOf
  <1>2. s.cache = [n \in Server |-> <<>>]
    <2>1. LogOf(<<>>, 1).cache = <<>>
      BY LogOfFacts
    <2> QED
      BY <1>1, <2>1, SMT DEF Local
  <1>3. PICK e : e = [term |-> 0, lastLogIndex |-> 0, lastLogTerm |-> 0]
    OBVIOUS
  <1>4. /\ s.term = [n \in Server |-> 0] /\ s.vote = [n \in Server |-> Nil]
        /\ s.role = [n \in Server |-> "Follower"] /\ s.votes = [n \in Server |-> {}]
        /\ s.ends = [n \in Server |-> e] /\ s.commit = [n \in Server |-> 0]
        /\ s.next = [n \in Server |-> [p \in Server |-> 1]]
        /\ s.match = [n \in Server |-> [p \in Server |-> 0]]
        /\ s.round = [n \in Server |-> [p \in Server |-> Idle]] /\ s.sent = {} /\ s.chosen = <<>>
    BY <1>3 DEF Init, Local, Remote
  <1>5. e \in EndRange /\ e.term = 0 /\ 0 \in Terms /\ 0 \in Indices /\ 1 \in 1 .. MaxIndex + 1
    BY <1>3, Bounds, SMT DEF EndRange, Terms, Indices
  <1>6. Map(s.term, Terms) /\ Map(s.commit, Indices) /\ Map(s.ends, EndRange)
    BY <1>4, <1>5, ZenonT(40) DEF Map
  <1>7. Map(s.vote, VoteRange) /\ Map(s.role, RoleRange) /\ Map(s.votes, SUBSET Server)
    BY <1>4, SMT DEF Map, VoteRange, RoleRange
  <1>8. Map(s.next, NextRange) /\ Map(s.match, MatchRange) /\ Map(s.round, RoundRange)
    BY <1>4, <1>5, SMT DEF Map, NextRange, MatchRange, RoundRange
  <1>9. Map(s.cache, Seq(Entries)) /\ s.chosen \in Seq(Entries)
    BY <1>2, <1>4, SMT DEF Map
  <1>10. Types(s)
    BY <1>6, <1>7, <1>8, <1>9, TypeMaps
  <1>11. \A n \in Server : /\ s.term[n] = 0 /\ s.vote[n] = Nil /\ s.role[n] = "Follower"
                           /\ s.votes[n] = {} /\ s.ends[n].term = 0 /\ s.cache[n] = <<>>
                           /\ s.commit[n] = 0
    BY <1>2, <1>4, <1>5, SMT
  <1> QED
    BY <1>1, <1>4, <1>10, <1>11

LEMMA InitInvariant ==
    ASSUME Laws, Init
    PROVE  IndInv
  <1>1. PICK s : s = Now /\ Local(s) /\ Remote(s)
    BY Views
  <1>2. /\ \A n \in Server : /\ s.term[n] = 0 /\ s.vote[n] = Nil /\ s.role[n] = "Follower"
                             /\ s.votes[n] = {} /\ s.ends[n].term = 0 /\ s.cache[n] = <<>>
                             /\ s.commit[n] = 0
        /\ s.chosen = <<>> /\ s.sent = {} /\ Types(s)
        /\ log = [n \in Server |-> LogOf(<<>>, 1)]
    BY <1>1, InitState
  <1>3. "Follower" # "Leader" /\ "Follower" # "Candidate" /\ 0 <= 0 /\ ~(0 > 0)
    BY SMT
  <1>4. \A n \in Server : ~Leads(s, n) /\ ~Runs(s, n)
    BY <1>2, <1>3 DEF Leads, Runs
  <1>5. VotesInv(s)
    BY <1>2, <1>3, <1>4 DEF VotesInv
  <1>6. \A x \in Chains(s) : x = <<>>
    BY <1>2 DEF Chains
  <1>7. DOMAIN <<>> = {}
    BY SMT
  <1>8. \A x \in Chains(s) : DOMAIN x = {}
    BY <1>6, <1>7, SMT
  <1>9. ClosedInv(s)
    BY <1>2, <1>4, <1>8 DEF ClosedInv
  <1>10. ChainsInv(s)
    <2>1. \A n \in Server : DOMAIN s.cache[n] = {}
      BY <1>2, <1>7, SMT
    <2>2. \A x \in Chains(s) : IsChain(x)
      BY <1>8 DEF IsChain
    <2>3. \A x, y \in Chains(s) : Match(x, y)
      BY <1>8 DEF Match
    <2> QED
      BY <1>2, <2>1, <2>2, <2>3 DEF ChainsInv
  <1>11. LeadersInv(s) /\ AnchorsInv(s) /\ ProgressInv(s)
    BY <1>4 DEF LeadersInv, AnchorsInv, ProgressInv
  <1>12. CommitInv(s)
    <2>1. ASSUME NEW n \in Server
          PROVE  Final(s, s.commit[n], s.term[n]) /\ Has(s.cache[n], SubSeq(s.chosen, 1, s.commit[n]))
      <3>1. s.chosen \in Seq(Entries)
        BY <1>2, TypeFacts
      <3>2. Has(s.cache[n], SubSeq(s.chosen, 1, 0))
        BY <3>1, NothingToHave
      <3> QED
        BY <1>2, <1>3, <3>2 DEF Final
    <2> QED
      BY <1>2, <2>1 DEF CommitInv
  <1>13. SafeInv(Now)
    BY <1>1, <1>2, <1>5, <1>9, <1>10, <1>11, <1>12 DEF SafeInv
  <1>14. DOMAIN log = Server /\ \A n \in Server : LogShape(log[n])
    <2>1. PICK c : c = <<>>
      OBVIOUS
    <2>2. c \in Seq(Entries) /\ 1 = Len(c) + 1
      BY <2>1, SMT
    <2>3. LogOf(c, 1).cache = c
      BY LogOfFacts
    <2>4. LogShape(LogOf(c, 1))
      BY <2>2, <2>3 DEF LogShape
    <2> QED
      BY <1>2, <2>1, <2>4
  <1>15. IsFiniteSet(late) /\ Cardinality(late) <= MaxLate /\ faults \in 0 .. MaxFaults
         /\ pending = [n \in Server |-> 0]
    <2>1. IsFiniteSet(late) /\ Cardinality(late) = 0 /\ faults = 0 /\ pending = [n \in Server |-> 0]
      BY DEF Laws, OneMore, Init
    <2>2. 0 <= MaxLate /\ 0 \in 0 .. MaxFaults
      BY Bounds, SMT
    <2> QED
      BY <2>1, <2>2
  <1> QED
    BY <1>13, <1>14, <1>15 DEF IndInv

\* With no window open nothing is left half done.
LEMMA NothingHalfDone ==
    ASSUME IndInv, NEW n \in Server, NEW p \in Server
    PROVE  pending[n] = 0 /\ round[n][p].at \in {"idle", "answered"}
  <1>1. PICK s : s = Now /\ Local(s) /\ Remote(s)
    BY Views
  <1>2. Types(s)
    BY <1>1 DEF IndInv, SafeInv
  <1>3. round[n][p] = Idle \/ round[n][p].at = "answered"
    BY <1>1, <1>2, ReplyFacts DEF Remote
  <1> QED
    BY <1>3, IdleAt DEF IndInv

LEMMA StutterStep ==
    ASSUME IndInv, UNCHANGED vars
    PROVE  IndInv'
  <1>1. PICK s, t : /\ s = Now /\ Local(s) /\ Remote(s)
                    /\ t = Now' /\ Local(t)' /\ Remote(t)'
    BY Views
  <1>2. SafeInv(s) /\ Types(s)
    BY <1>1 DEF IndInv, SafeInv
  <1>3. /\ SameElection(s, t) /\ SameCommit(s, t) /\ SameProgress(s, t) /\ t.sent = s.sent
        /\ log' = log /\ pending' = pending /\ late' = late /\ faults' = faults
    BY <1>1 DEF vars, electionVars, leaderVars, Local, Remote, SameElection, SameCommit, SameProgress
  <1>4. t.cache = s.cache
    BY <1>1, <1>3 DEF Local
  <1>5. Types(t) /\ Shrink(s, t)
    BY <1>2, <1>3, <1>4, TypeMaps DEF SameElection, SameCommit, SameProgress, Shrink
  <1>6. SafeInv(t)
    BY <1>2, <1>5, ShrinkStep
  <1> QED
    BY <1>1, <1>3, <1>6, Restored DEF IndInv

LEMMA NextStep ==
    ASSUME Windows = {}, IndInv, [Next]_vars
    PROVE  IndInv'
  <1>1. ASSUME NEW m \in late, LateArrives(m)
        PROVE  IndInv'
    BY <1>1, LateArrivesStep
  <1>2. ASSUME NEW n \in Server, RunElection(n)
        PROVE  IndInv'
    BY <1>2, RunElectionStep
  <1>3. ASSUME NEW n \in Server, BecomeLeader(n)
        PROVE  IndInv'
    BY <1>3, BecomeLeaderStep
  <1>4. ASSUME NEW n \in Server, HandleProposal(n)
        PROVE  IndInv'
    BY <1>4, HandleProposalStep
  <1>5. ASSUME NEW n \in Server, AppendPending(n)
        PROVE  IndInv'
    BY <1>5 DEF AppendPending, IndInv
  <1>6. ASSUME NEW n \in Server, AdvanceCommitIndex(n)
        PROVE  IndInv'
    BY <1>6, AdvanceCommitIndexStep
  <1>7. ASSUME NEW n \in Server, Restart(n)
        PROVE  IndInv'
    BY <1>7, RestartStep
  <1>8. ASSUME NEW n \in Server, NEW p \in Server, HandleRequestVote(n, p)
        PROVE  IndInv'
    BY <1>8, HandleRequestVoteStep
  <1>9. ASSUME NEW n \in Server, NEW p \in Server, ReplicateOnce(n, p)
        PROVE  IndInv'
    BY <1>9, ReplicateOnceStep
  <1>10. ASSUME NEW n \in Server, NEW p \in Server, ReadHeader(n, p) \/ ReadEntries(n, p)
         PROVE  IndInv'
    <2>1. round[n][p].at \in {"idle", "answered"}
      BY <1>10, NothingHalfDone
    <2>2. "idle" # "checked" /\ "answered" # "checked" /\ "idle" # "header" /\ "answered" # "header"
      OBVIOUS
    <2> QED
      BY <1>10, <2>1, <2>2 DEF ReadHeader, ReadEntries
  <1>11. ASSUME NEW n \in Server, NEW p \in Server, HandleReply(n, p)
         PROVE  IndInv'
    BY <1>11, HandleReplyStep
  <1>12. ASSUME NEW n \in Server, NEW p \in Server, RoundFails(n, p)
         PROVE  IndInv'
    BY <1>12, RoundFailsStep
  <1>13. CASE UNCHANGED vars
    BY <1>13, StutterStep
  <1> QED
    BY <1>1, <1>2, <1>3, <1>4, <1>5, <1>6, <1>7, <1>8, <1>9, <1>10, <1>11, <1>12, <1>13 DEF Next

(***************************************************************************)
(* The safety properties                                                    *)
(***************************************************************************)

LEMMA Beginning ==
    ASSUME NEW c \in Seq(Entries), NEW d \in Seq(Entries), Has(d, c)
    PROVE  StartOf(c, d)
  <1>1. Len(c) \in Nat /\ Len(c) <= Len(c)
    BY SeqFacts, SMT
  <1>2. SubSeq(d, 1, Len(c)) = SubSeq(c, 1, Len(c)) /\ Len(c) <= Len(d)
    BY <1>1, LongerPrefix
  <1>3. SubSeq(c, 1, Len(c)) = c
    BY SMT
  <1> QED
    BY <1>2, <1>3 DEF StartOf

LEMMA Typed ==
    ASSUME IndInv
    PROVE  TypeOK
  <1>1. PICK s : s = Now /\ Local(s) /\ Remote(s)
    BY Views
  <1>2. Types(s)
    BY <1>1 DEF IndInv, SafeInv
  <1>3. /\ currentTerm \in [Server -> Terms] /\ votedFor \in [Server -> Server \cup {Nil}]
        /\ role \in [Server -> {"Follower", "Candidate", "Leader"}]
        /\ votesFrom \in [Server -> SUBSET Server] /\ commitIndex \in [Server -> Indices]
        /\ nextIndex \in [Server -> [Server -> 1 .. MaxIndex + 1]]
        /\ matchIndex \in [Server -> [Server -> Indices]]
    BY <1>1, <1>2 DEF Types, Local, Remote
  <1>4. \A n \in Server : Range(log[n].cache) \subseteq Entries
    <2>1. ASSUME NEW n \in Server
          PROVE  \A i \in DOMAIN log[n].cache : log[n].cache[i] \in Entries
      BY SeqFacts DEF IndInv, LogShape
    <2> QED
      BY <2>1 DEF Range
  <1>5. pending \in [Server -> Terms]
    BY Bounds, SMT DEF IndInv, Terms
  <1>6. \A n, p \in Server : round[n][p].at \in {"idle", "checked", "header", "answered"}
    BY NothingHalfDone
  <1> QED
    BY <1>3, <1>4, <1>5, <1>6 DEF TypeOK, IndInv

LEMMA Matching ==
    ASSUME IndInv
    PROVE  LogMatching
  <1>1. PICK s : s = Now /\ Local(s) /\ Remote(s)
    BY Views
  <1>2. SafeInv(s) /\ Types(s)
    BY <1>1 DEF IndInv, SafeInv
  <1>3. SUFFICES ASSUME NEW n \in Server, NEW p \in Server,
                        NEW i \in DOMAIN log[n].cache \cap DOMAIN log[p].cache,
                        log[n].cache[i] = log[p].cache[i]
                 PROVE  SubSeq(log[n].cache, 1, i) = SubSeq(log[p].cache, 1, i)
    BY DEF LogMatching, Prefix
  <1>4. PICK c, d : c = log[n].cache /\ d = log[p].cache
    OBVIOUS
  <1>5. c \in Seq(Entries) /\ d \in Seq(Entries)
    BY <1>4 DEF IndInv, LogShape
  <1>6. Match(c, d)
    <2>1. c = s.cache[n] /\ d = s.cache[p]
      BY <1>1, <1>4, SMT DEF Local
    <2>2. c \in Chains(s) /\ d \in Chains(s)
      BY <2>1 DEF Chains
    <2> QED
      BY <1>2, <2>2 DEF SafeInv, ChainsInv
  <1>7. i \in DOMAIN c \cap DOMAIN d /\ c[i] = d[i]
    BY <1>3, <1>4
  <1>8. i \in Nat /\ i <= Len(c) /\ i <= Len(d)
    BY <1>5, <1>7, SMT
  <1>9. \A j \in 1 .. i : c[j] = d[j]
    BY <1>5, <1>6, <1>7, <1>8, SMT DEF Match
  <1>10. SubSeq(c, 1, i) = SubSeq(d, 1, i)
    BY <1>5, <1>8, <1>9, SMT
  <1> QED
    BY <1>4, <1>10

LEMMA Agreeing ==
    ASSUME IndInv, NEW n \in Server
    PROVE  /\ commitIndex[n] \in Nat /\ commitIndex[n] <= Len(log[n].cache)
           /\ commitIndex[n] <= Len(chosen) /\ chosen \in Seq(Entries)
           /\ Prefix(log[n], commitIndex[n]) = SubSeq(chosen, 1, commitIndex[n])
  <1>1. PICK s : s = Now /\ Local(s) /\ Remote(s)
    BY Views
  <1>2. SafeInv(s) /\ Types(s)
    BY <1>1 DEF IndInv, SafeInv
  <1>3. PICK c, d, i : c = log[n].cache /\ d = chosen /\ i = commitIndex[n]
    OBVIOUS
  <1>4. c = s.cache[n] /\ d = s.chosen /\ i = s.commit[n]
    BY <1>1, <1>3, SMT DEF Local
  <1>5. i \in Nat /\ i <= Len(d)
    BY <1>2, <1>4, CommittedKnown
  <1>6. d \in Seq(Entries) /\ c \in Seq(Entries)
    BY <1>2, <1>4, TypeFacts
  <1>7. Has(c, SubSeq(d, 1, i))
    BY <1>2, <1>4 DEF SafeInv, CommitInv
  <1>8. SubSeq(d, 1, i) \in Seq(Entries) /\ Len(SubSeq(d, 1, i)) = i
    BY <1>5, <1>6, PrefixFacts
  <1>9. StartOf(SubSeq(d, 1, i), c)
    BY <1>6, <1>7, <1>8, Beginning
  <1>10. i <= Len(c) /\ SubSeq(c, 1, i) = SubSeq(d, 1, i)
    BY <1>8, <1>9 DEF StartOf
  <1> QED
    BY <1>3, <1>5, <1>6, <1>10 DEF Prefix

LEMMA Committing ==
    ASSUME IndInv
    PROVE  CommittedAgree
  <1> SUFFICES ASSUME NEW n \in Server
               PROVE  commitIndex[n] <= LatestIndex(log[n]) /\ StartOf(Prefix(log[n], commitIndex[n]), chosen)
    BY DEF CommittedAgree
  <1>1. PICK i, d : i = commitIndex[n] /\ d = chosen
    OBVIOUS
  <1>2. /\ i \in Nat /\ i <= Len(log[n].cache) /\ i <= Len(d) /\ d \in Seq(Entries)
        /\ Prefix(log[n], i) = SubSeq(d, 1, i)
    BY <1>1, Agreeing
  <1>3. LatestIndex(log[n]) = Len(log[n].cache)
    BY LogFacts
  <1>4. SubSeq(d, 1, i) \in Seq(Entries) /\ Len(SubSeq(d, 1, i)) = i
    BY <1>2, PrefixFacts
  <1>5. StartOf(SubSeq(d, 1, i), d)
    BY <1>2, <1>4 DEF StartOf
  <1> QED
    BY <1>1, <1>2, <1>3, <1>5

LEMMA Completing ==
    ASSUME IndInv
    PROVE  LeaderComplete
  <1>1. PICK s : s = Now /\ Local(s) /\ Remote(s)
    BY Views
  <1>2. SafeInv(s) /\ Types(s)
    BY <1>1 DEF IndInv, SafeInv
  <1>3. SUFFICES ASSUME NEW n \in Server, role[n] = "Leader",
                        chosen # <<>> => currentTerm[n] >= chosen[Len(chosen)].Term
                 PROVE  StartOf(chosen, log[n].cache)
    BY DEF LeaderComplete
  <1>4. PICK c, d : c = log[n].cache /\ d = chosen
    OBVIOUS
  <1>5. c = s.cache[n] /\ d = s.chosen /\ Leads(s, n) /\ s.term[n] = currentTerm[n]
    BY <1>1, <1>3, <1>4, SMT DEF Local, Leads
  <1>6. d \in Seq(Entries) /\ c \in Seq(Entries)
    BY <1>2, <1>5, TypeFacts
  <1>7. Has(c, d)
    <2>1. CASE d = <<>>
      BY <2>1, SMT DEF Has
    <2>2. CASE d # <<>>
      <3>1. Decided(s, d)
        BY <1>2, <1>5, <2>2 DEF SafeInv, CommitInv
      <3>2. PICK A : Kept(s, d, A)
        BY <1>2, <3>1, DecidedFacts DEF SafeInv
      <3>3. s.term[n] >= TermOf(d)
        BY <1>3, <1>4, <1>5, <2>2 DEF TermOf
      <3> QED
        BY <1>5, <3>2, <3>3 DEF Kept
    <2> QED
      BY <2>1, <2>2
  <1> QED
    BY <1>4, <1>6, <1>7, Beginning

\* What a leader knows of a peer.
LEMMA Knowing ==
    ASSUME IndInv, NEW n \in Server, NEW p \in Server, role[n] = "Leader"
    PROVE  /\ nextIndex[n][p] > matchIndex[n][p]
           /\ currentTerm[p] <= currentTerm[n] =>
                 StartOf(Prefix(log[n], matchIndex[n][p]), log[p].cache)
  <1>1. PICK s : s = Now /\ Local(s) /\ Remote(s)
    BY Views
  <1>2. SafeInv(s) /\ Types(s)
    BY <1>1 DEF IndInv, SafeInv
  <1>3. PICK c, d, i, j : /\ c = log[n].cache /\ d = log[p].cache
                          /\ i = matchIndex[n][p] /\ j = nextIndex[n][p]
    OBVIOUS
  <1>4. /\ c = s.cache[n] /\ d = s.cache[p] /\ i = s.match[n][p] /\ j = s.next[n][p] /\ Leads(s, n)
        /\ s.term[n] = currentTerm[n] /\ s.term[p] = currentTerm[p]
    BY <1>1, <1>3, SMT DEF Local, Remote, Leads
  <1>5. /\ i \in Nat /\ j \in Nat /\ j > 0 /\ s.term[n] \in Nat /\ s.term[p] \in Nat
        /\ c \in Seq(Entries) /\ d \in Seq(Entries)
    <2>1. i \in Indices /\ j \in 1 .. MaxIndex + 1 /\ s.term[n] \in Terms /\ s.term[p] \in Terms
      BY <1>2, <1>4, SMT DEF Types
    <2>2. c \in Seq(Entries) /\ d \in Seq(Entries)
      BY <1>2, <1>4, TypeFacts
    <2> QED
      BY <2>1, <2>2, Bounds, SMT DEF Indices, Terms
  <1>6. Confirmed(s, n, p, i) /\ (i > 0 => j = i + 1)
    BY <1>2, <1>4 DEF SafeInv, ProgressInv
  <1>7. j > i
    BY <1>5, <1>6, SMT
  <1>8. ASSUME currentTerm[p] <= currentTerm[n]
        PROVE  StartOf(SubSeq(c, 1, i), d)
    <2>1. i <= Len(c) /\ (i > 0 => s.term[p] >= s.term[n])
          /\ (s.term[p] = s.term[n] => Has(d, SubSeq(c, 1, i)))
      BY <1>4, <1>6 DEF Confirmed
    <2>2. i = 0 \/ s.term[p] = s.term[n]
      BY <1>4, <1>5, <1>8, <2>1, SMT
    <2>3. Has(d, SubSeq(c, 1, i))
      BY <1>5, <2>1, <2>2, NothingToHave
    <2>4. SubSeq(c, 1, i) \in Seq(Entries)
      BY <1>5, <2>1, PrefixFacts
    <2> QED
      BY <1>5, <2>3, <2>4, Beginning
  <1> QED
    BY <1>3, <1>7, <1>8 DEF Prefix

(***************************************************************************)
(* What a step may do to the logs and to what is committed                  *)
(***************************************************************************)

\* Whoever goes on leading keeps its log; one node reports more committed, of a
\* decided log that at most grows, or forgets what it had reported.
Moves(s, t) ==
    /\ \A q \in Server : Leads(s, q) /\ Leads(t, q) => Has(t.cache[q], s.cache[q])
    /\ \/ SameCommit(s, t)
       \/ \E n \in Server : t.chosen = s.chosen /\ Changed(s.commit, t.commit, n, 0)
       \/ \E n \in Server, c \in Nat :
             Has(t.chosen, s.chosen) /\ c >= s.commit[n] /\ Changed(s.commit, t.commit, n, c)

LEMMA HasItself == \A c : Has(c, c)
  BY DEF Has

LEMMA ReceivedMoves ==
    ASSUME NEW s, SafeInv(s), NEW t, NEW p \in Server, NEW m, m.leaderCommit \in Nat,
           m.leaderCommit <= Len(s.chosen), Received(s, t, p, m)
    PROVE  Moves(s, t)
  <1>1. CASE t.cache = s.cache /\ SameCommit(s, t)
    BY <1>1, HasItself DEF Moves
  <1>2. CASE Followed(s, t, p, m.term) /\ Accepted(s, t, p, m)
    <2>1. t.role[p] = "Follower" /\ "Follower" # "Leader"
      BY <1>2 DEF Followed, Changed
    <2>2. ASSUME NEW q \in Server, Leads(t, q)
          PROVE  Has(t.cache[q], s.cache[q])
      <3>1. q # p
        BY <2>1, <2>2 DEF Leads
      <3>2. t.cache[q] = s.cache[q]
        BY <1>2, <3>1 DEF Accepted
      <3> QED
        BY <3>2, HasItself
    <2>3. PICK c : Allowed(s, p, m, c) /\ Reported(s, t, p, c)
      BY <1>2 DEF Accepted
    <2>4. s.commit[p] \in Nat /\ Len(s.chosen) \in Nat /\ s.commit[p] <= Len(s.chosen)
      BY CommittedKnown
    <2>5. c \in Nat /\ c >= s.commit[p] /\ ~(c > Len(s.chosen))
      BY <2>3, <2>4, SMT DEF Allowed
    <2>6. t.chosen = s.chosen /\ Changed(s.commit, t.commit, p, c)
      BY <2>3, <2>5 DEF Reported
    <2>7. Has(t.chosen, s.chosen)
      BY <2>6, HasItself
    <2> QED
      BY <2>2, <2>5, <2>6, <2>7 DEF Moves
  <1> QED
    BY <1>1, <1>2 DEF Received, Ignored, Refused

LEMMA AdvanceMoves ==
    ASSUME NEW s, SafeInv(s), NEW t, NEW n \in Server, NEW i, Advances(s, t, n, i), t.cache = s.cache
    PROVE  Moves(s, t)
  <1>1. Choice(s, n, i, SubSeq(s.cache[n], 1, i))
    BY LeaderChooses DEF Advances
  <1>2. Has(t.chosen, s.chosen)
    <2>1. CASE i > Len(s.chosen)
      BY <1>1, <2>1 DEF Choice, Advances
    <2>2. CASE ~(i > Len(s.chosen))
      BY <2>2, HasItself DEF Advances
    <2> QED
      BY <2>1, <2>2
  <1>3. Changed(s.commit, With(s.commit, n, i), n, i)
    BY TypeMaps, WithChanged DEF SafeInv
  <1>4. Changed(s.commit, t.commit, n, i) /\ i \in Nat
    BY <1>3 DEF Advances
  <1>5. i >= s.commit[n]
    <2>1. s.commit[n] \in Nat
      BY CommittedKnown
    <2> QED
      BY <1>4, <2>1, SMT DEF Advances
  <1> QED
    BY <1>2, <1>4, <1>5, HasItself DEF Moves

LEMMA QuietMoves ==
    ASSUME UNCHANGED <<log, commitIndex, chosen>>, NEW s, Local(s), NEW t, Local(t)'
    PROVE  Moves(s, t)
  <1>1. log' = log /\ SameCommit(s, t)
    BY DEF Local, SameCommit
  <1>2. t.cache = s.cache
    BY <1>1 DEF Local
  <1> QED
    BY <1>1, <1>2, HasItself DEF Moves

\* The leader adds an entry, or becomes leader and does.
LEMMA AppendMoves ==
    ASSUME IndInv, NEW n \in Server, NEW k \in 1 .. MaxTerm, AppendOwn(n, k),
           UNCHANGED <<commitIndex, chosen>>, NEW s, Local(s), NEW t, Local(t)'
    PROVE  Moves(s, t)
  <1>1. PICK c, e : c = s.cache[n] /\ e = [Index |-> Len(c) + 1, Term |-> k]
    OBVIOUS
  <1>2. Changed(s.cache, t.cache, n, Append(c, e))
    BY <1>1, AppendOwnFacts
  <1>3. c \in Seq(Entries)
    BY <1>1, SMT DEF Local, IndInv, LogShape
  <1>4. Has(Append(c, e), c)
    BY <1>3, SMT DEF Has
  <1>5. \A q \in Server : Has(t.cache[q], s.cache[q])
    BY <1>1, <1>2, <1>4, HasItself DEF Changed
  <1>6. SameCommit(s, t)
    BY DEF Local, SameCommit
  <1> QED
    BY <1>5, <1>6 DEF Moves

LEMMA SendMoves ==
    ASSUME IndInv, NEW n \in Server, NEW p \in Server, role[n] = "Leader",
           Send(n, p, Request(n, Header(n, p))), NEW s, SafeInv(s), Local(s), Remote(s), NEW t, Local(t)'
    PROVE  Moves(s, t)
  <1>1. PICK m : m = Request(n, Header(n, p))
    OBVIOUS
  <1>2. Leads(s, n)
    BY DEF Local, Leads
  <1>3. Asks(s, n, p, m)
    BY <1>1, <1>2, RequestAsks
  <1>4. CASE HandleAppendEntries(p, m)
    <2>1. MessageShape(m) /\ IsChain(Chain(m)) /\ m.leaderCommit = s.commit[n]
      BY <1>3 DEF Asks
    <2>2. Received(s, t, p, m)
      BY <1>4, <2>1, HandleAppendEntriesFacts
    <2>3. m.leaderCommit \in Nat /\ m.leaderCommit <= Len(s.chosen)
      BY <2>1, CommittedKnown
    <2> QED
      BY <2>2, <2>3, ReceivedMoves
  <1>5. CASE UNCHANGED <<log, commitIndex, chosen>>
    BY <1>5, QuietMoves
  <1> QED
    BY <1>1, <1>4, <1>5 DEF Send

LEMMA LateMoves ==
    ASSUME IndInv, NEW m \in late, LateArrives(m), NEW s, SafeInv(s), Local(s), Remote(s), NEW t, Local(t)'
    PROVE  Moves(s, t)
  <1>1. SafeInv(s) /\ Types(s) /\ ChainsInv(s) /\ CommitInv(s) /\ m \in s.sent
    BY DEF SafeInv, Remote
  <1>2. MessageShape(m) /\ IsChain(Chain(m)) /\ m.to \in Server /\ m.leaderCommit \in Indices
    BY <1>1, SentChain, ChainFacts
  <1>3. HandleAppendEntries(m.to, m)
    BY DEF LateArrives
  <1>4. Received(s, t, m.to, m)
    BY <1>2, <1>3, HandleAppendEntriesFacts
  <1>5. m.leaderCommit \in Nat
    BY <1>2, Bounds, SMT DEF Indices
  <1>6. s.chosen \in Seq(Entries) /\ Final(s, m.leaderCommit, m.term)
    BY <1>1, <1>2, TypeFacts DEF CommitInv
  <1>7. m.leaderCommit <= Len(s.chosen)
    BY <1>5, <1>6, FinalBound
  <1> QED
    BY <1>2, <1>4, <1>5, <1>7, ReceivedMoves

LEMMA NextMoves ==
    ASSUME Windows = {}, IndInv, Next, NEW s, SafeInv(s), Local(s), Remote(s), NEW t, Local(t)'
    PROVE  Moves(s, t)
  <1>1. ASSUME NEW m \in late, LateArrives(m)
        PROVE  Moves(s, t)
    BY <1>1, LateMoves
  <1>2. ASSUME NEW n \in Server, RunElection(n)
        PROVE  Moves(s, t)
    BY <1>2, QuietMoves DEF RunElection
  <1>3. ASSUME NEW n \in Server, BecomeLeader(n)
        PROVE  Moves(s, t)
    <2>1. Types(s) /\ VotesInv(s) /\ s.role[n] # "Follower" /\ s.term[n] = currentTerm[n]
      BY <1>3, SMT DEF SafeInv, BecomeLeader, Local
    <2>2. currentTerm[n] \in 1 .. MaxTerm
      BY <2>1, LeaderTerm
    <2>3. UNCHANGED <<commitIndex, chosen>> /\ (AppendOwn(n, currentTerm[n]) \/ UNCHANGED log)
      BY <1>3 DEF BecomeLeader, AppendNowOrLater
    <2> QED
      BY <2>2, <2>3, AppendMoves, QuietMoves
  <1>4. ASSUME NEW n \in Server, HandleProposal(n)
        PROVE  Moves(s, t)
    <2>1. Types(s) /\ VotesInv(s) /\ s.role[n] # "Follower" /\ s.term[n] = currentTerm[n]
      BY <1>4, SMT DEF SafeInv, HandleProposal, Local
    <2>2. currentTerm[n] \in 1 .. MaxTerm
      BY <2>1, LeaderTerm
    <2>3. UNCHANGED <<commitIndex, chosen>> /\ AppendOwn(n, currentTerm[n])
      BY <1>4 DEF HandleProposal, AppendNowOrLater
    <2> QED
      BY <2>2, <2>3, AppendMoves
  <1>5. ASSUME NEW n \in Server, AppendPending(n)
        PROVE  Moves(s, t)
    BY <1>5 DEF AppendPending, IndInv
  <1>6. ASSUME NEW n \in Server, AdvanceCommitIndex(n)
        PROVE  Moves(s, t)
    <2>1. PICK i : Advances(s, t, n, i)
      BY <1>6, AdvanceFacts
    <2>2. log' = log
      BY <1>6 DEF AdvanceCommitIndex
    <2>3. t.cache = s.cache
      BY <2>2 DEF Local
    <2> QED
      BY <2>1, <2>3, AdvanceMoves
  <1>7. ASSUME NEW n \in Server, Restart(n)
        PROVE  Moves(s, t)
    <2>1. t.chosen = s.chosen /\ t.commit = With(s.commit, n, 0) /\ log' = log
      BY <1>7 DEF Restart, Local, With
    <2>2. t.cache = s.cache
      BY <2>1 DEF Local
    <2>3. Changed(s.commit, With(s.commit, n, 0), n, 0)
      BY TypeMaps, WithChanged DEF SafeInv
    <2>4. Changed(s.commit, t.commit, n, 0)
      BY <2>1, <2>3
    <2> QED
      BY <2>1, <2>2, <2>4, HasItself DEF Moves
  <1>8. ASSUME NEW n \in Server, NEW p \in Server, HandleRequestVote(n, p)
        PROVE  Moves(s, t)
    BY <1>8, QuietMoves DEF HandleRequestVote
  <1>9. ASSUME NEW n \in Server, NEW p \in Server, ReplicateOnce(n, p)
        PROVE  Moves(s, t)
    <2>1. Windows \cap {"round", "build"} = {}
      OBVIOUS
    <2>2. role[n] = "Leader" /\ Send(n, p, Request(n, Header(n, p)))
      BY <1>9, <2>1 DEF ReplicateOnce
    <2> QED
      BY <2>2, SendMoves
  <1>10. ASSUME NEW n \in Server, NEW p \in Server, ReadHeader(n, p) \/ ReadEntries(n, p)
         PROVE  Moves(s, t)
    <2>1. round[n][p].at \in {"idle", "answered"}
      BY <1>10, NothingHalfDone
    <2>2. "idle" # "checked" /\ "answered" # "checked" /\ "idle" # "header" /\ "answered" # "header"
      OBVIOUS
    <2> QED
      BY <1>10, <2>1, <2>2 DEF ReadHeader, ReadEntries
  <1>11. ASSUME NEW n \in Server, NEW p \in Server, HandleReply(n, p)
         PROVE  Moves(s, t)
    <2>1. UNCHANGED <<log, commitIndex, chosen>>
      BY <1>11 DEF HandleReply
    <2> QED
      BY <2>1, QuietMoves
  <1>12. ASSUME NEW n \in Server, NEW p \in Server, RoundFails(n, p)
         PROVE  Moves(s, t)
    BY <1>12, QuietMoves DEF RoundFails
  <1> QED
    BY <1>1, <1>2, <1>3, <1>4, <1>5, <1>6, <1>7, <1>8, <1>9, <1>10, <1>11, <1>12 DEF Next

LEMMA AppendOnlyStep ==
    ASSUME Windows = {}, IndInv, IndInv', [Next]_vars
    PROVE  [\A n \in Server : role[n] = "Leader" /\ role'[n] = "Leader"
                                 => StartOf(log[n].cache, log'[n].cache)]_vars
  <1> SUFFICES ASSUME Next, NEW n \in Server, role[n] = "Leader", role'[n] = "Leader"
               PROVE  StartOf(log[n].cache, log'[n].cache)
    OBVIOUS
  <1>1. PICK s, t : /\ s = Now /\ Local(s) /\ Remote(s)
                    /\ t = Now' /\ Local(t)' /\ Remote(t)'
    BY Views
  <1>2. SafeInv(s)
    BY <1>1 DEF IndInv
  <1>3. Moves(s, t)
    BY <1>1, <1>2, NextMoves
  <1>4. s.cache[n] = log[n].cache /\ t.cache[n] = log'[n].cache /\ Leads(s, n) /\ Leads(t, n)
    BY <1>1 DEF Local, Leads
  <1>5. log[n].cache \in Seq(Entries) /\ log'[n].cache \in Seq(Entries)
    BY DEF IndInv, LogShape
  <1>6. Has(log'[n].cache, log[n].cache)
    BY <1>3, <1>4 DEF Moves
  <1> QED
    BY <1>5, <1>6, Beginning

(***************************************************************************)
(* The refinement of CommittedLog                                           *)
(***************************************************************************)

Learned == [n \in Server |-> Prefix(log[n], commitIndex[n])]

\* Two prefixes of a growing log.
LEMMA Beginnings ==
    ASSUME NEW c \in Seq(Entries), NEW d \in Seq(Entries), Has(d, c),
           NEW i \in Nat, NEW j \in Nat, i <= j, i <= Len(c), j <= Len(d)
    PROVE  /\ Decisions!Begins(SubSeq(c, 1, i), SubSeq(d, 1, j))
           /\ Decisions!Begins(SubSeq(d, 1, j), d) /\ Decisions!Begins(c, d)
           /\ SubSeq(d, 1, i) = SubSeq(c, 1, i)
  <1>1. SubSeq(d, 1, i) = SubSeq(c, 1, i) /\ Len(c) <= Len(d)
    BY LongerPrefix
  <1>2. StartOf(c, d)
    BY Beginning
  <1>3. /\ SubSeq(d, 1, j) \in Seq(Entries) /\ Len(SubSeq(d, 1, j)) = j
        /\ \A k \in 1 .. j : SubSeq(d, 1, j)[k] = d[k]
    BY PrefixFacts
  <1>4. Len(SubSeq(c, 1, i)) = i
    BY PrefixFacts
  <1>5. SubSeq(SubSeq(d, 1, j), 1, i) = SubSeq(d, 1, i)
    BY <1>3, SMT
  <1> QED
    BY <1>1, <1>2, <1>3, <1>4, <1>5 DEF Decisions!Begins, StartOf

\* What every node has learned is a prefix of what is decided.
AllLearned ==
    \A n \in Server :
        /\ Learned[n] = SubSeq(chosen, 1, commitIndex[n]) /\ commitIndex[n] \in Nat
        /\ commitIndex[n] <= Len(chosen) /\ chosen \in Seq(Entries)

LEMMA AllLearnedNow == IndInv => AllLearned
  BY Agreeing DEF Learned, AllLearned

LEMMA AllLearnedNext ==
    ASSUME IndInv'
    PROVE  AllLearned'
  BY AllLearnedNow, PTL

LEMMA InitDecisions ==
    ASSUME Init
    PROVE  Decisions!Init
  <1>1. ASSUME NEW n \in Server
        PROVE  Prefix(log[n], commitIndex[n]) = <<>>
    <2>1. log[n] = LogOf(<<>>, 1) /\ commitIndex[n] = 0
      BY SMT DEF Init, NewRaftLog, LogOf
    <2>2. LogOf(<<>>, 1).cache = <<>>
      BY LogOfFacts
    <2> QED
      BY <2>1, <2>2, SMT DEF Prefix
  <1> QED
    BY <1>1 DEF Decisions!Init, Init

\* One node learns more.
LEMMA LearnStep ==
    ASSUME IndInv, IndInv', NEW n \in Server, NEW c \in Nat, Has(chosen', chosen),
           c >= commitIndex[n], Changed(commitIndex, commitIndex', n, c)
    PROVE  Decisions!Learn(n)
  <1>1. PICK a, b, i : a = chosen /\ b = chosen' /\ i = commitIndex[n]
    OBVIOUS
  <1>2. /\ a \in Seq(Entries) /\ Has(b, a) /\ i \in Nat /\ i <= Len(a)
        /\ Learned[n] = SubSeq(a, 1, i)
    BY <1>1, AllLearnedNow DEF AllLearned
  <1>3. b \in Seq(Entries) /\ c <= Len(b) /\ Learned'[n] = SubSeq(b, 1, c)
    BY <1>1, AllLearnedNext DEF AllLearned, Changed
  <1>4. i <= c
    BY <1>1, <1>2, SMT
  <1>5. /\ Decisions!Begins(Learned[n], Learned'[n]) /\ Decisions!Begins(Learned'[n], b)
        /\ Decisions!Begins(a, b)
    <2>1. /\ Decisions!Begins(SubSeq(a, 1, i), SubSeq(b, 1, c))
          /\ Decisions!Begins(SubSeq(b, 1, c), b) /\ Decisions!Begins(a, b)
      BY <1>2, <1>3, <1>4, Beginnings
    <2> QED
      BY <1>2, <1>3, <2>1
  <1>6. ASSUME NEW q \in Server \ {n}
        PROVE  Learned'[q] = Learned[q]
    <2>1. q \in Server /\ q # n
      OBVIOUS
    <2>2. PICK j : j = commitIndex[q]
      OBVIOUS
    <2>3. commitIndex'[q] = j
      BY <2>1, <2>2 DEF Changed
    <2>4. j \in Nat /\ j <= Len(a) /\ Learned[q] = SubSeq(a, 1, j)
      BY <1>1, <2>1, <2>2, AllLearnedNow DEF AllLearned
    <2>5. j <= Len(b) /\ Learned'[q] = SubSeq(b, 1, j)
      BY <1>1, <2>1, <2>3, AllLearnedNext DEF AllLearned
    <2>6. SubSeq(b, 1, j) = SubSeq(a, 1, j)
      BY <1>2, <1>3, <2>4, LongerPrefix
    <2> QED
      BY <2>4, <2>5, <2>6
  <1> QED
    BY <1>1, <1>5, <1>6 DEF Decisions!Learn, Learned



\* One node forgets: it has restarted.
LEMMA ForgetOne ==
    ASSUME IndInv, IndInv', NEW n \in Server, chosen' = chosen, Changed(commitIndex, commitIndex', n, 0)
    PROVE  Decisions!Forget(n)
  <1>1. \A q \in Server : Learned'[q] = SubSeq(chosen, 1, commitIndex'[q])
    BY AllLearnedNext DEF AllLearned
  <1>2. Learned'[n] = <<>>
    <2>1. Learned'[n] = SubSeq(chosen, 1, 0)
      BY <1>1 DEF Changed
    <2>2. chosen \in Seq(Entries)
      BY AllLearnedNow DEF AllLearned
    <2> QED
      BY <2>1, <2>2, SMT
  <1>3. \A q \in Server : q # n => Learned'[q] = Learned[q]
    BY <1>1, AllLearnedNow DEF AllLearned, Changed
  <1>4. Learned' = [Learned EXCEPT ![n] = <<>>]
    <2>1. Learned = [q \in Server |-> Learned[q]] /\ Learned' = [q \in Server |-> Learned'[q]]
      BY SMT DEF Learned
    <2> HIDE DEF Learned
    <2>2. PICK f, g : f = Learned /\ g = Learned'
      OBVIOUS
    <2>3. /\ f = [q \in Server |-> f[q]] /\ g = [q \in Server |-> g[q]]
          /\ g[n] = <<>> /\ \A q \in Server : q # n => g[q] = f[q]
      BY <1>2, <1>3, <2>1, <2>2
    <2>4. g = [f EXCEPT ![n] = <<>>]
      BY <2>3, SMT
    <2> QED
      BY <2>2, <2>4
  <1> QED
    BY <1>4 DEF Decisions!Forget, Learned

LEMMA DecisionsStep ==
    ASSUME Windows = {}, IndInv, IndInv', [Next]_vars
    PROVE  [Decisions!Next]_<<chosen, Learned>>
  <1>1. PICK s, t : /\ s = Now /\ Local(s) /\ Remote(s)
                    /\ t = Now' /\ Local(t)' /\ Remote(t)'
    BY Views
  <1>2. s.commit = commitIndex /\ t.commit = commitIndex' /\ s.chosen = chosen /\ t.chosen = chosen'
    BY <1>1 DEF Local
  <1>3. CASE Next
    <2>1. SafeInv(s)
      BY <1>1 DEF IndInv
    <2>2. Moves(s, t)
      BY <1>1, <1>3, <2>1, NextMoves
    <2>3. CASE SameCommit(s, t)
      <3>1. chosen' = chosen /\ commitIndex' = commitIndex
        BY <1>2, <2>3 DEF SameCommit
      <3>2. \A q \in Server : Learned'[q] = Learned[q]
        BY <3>1, AllLearnedNow, AllLearnedNext DEF AllLearned
      <3>3. Learned' = Learned
        BY <3>2 DEF Learned
      <3> QED
        BY <3>1, <3>3
    <2>4. ASSUME NEW n \in Server, t.chosen = s.chosen, Changed(s.commit, t.commit, n, 0)
          PROVE  Decisions!Next
      <3>1. Decisions!Forget(n)
        BY <1>2, <2>4, ForgetOne
      <3> QED
        BY <3>1 DEF Decisions!Next
    <2>5. ASSUME NEW n \in Server, NEW c \in Nat, Has(t.chosen, s.chosen), c >= s.commit[n],
                 Changed(s.commit, t.commit, n, c)
          PROVE  Decisions!Next
      <3>1. Decisions!Learn(n)
        BY <1>2, <2>5, LearnStep
      <3> QED
        BY <3>1 DEF Decisions!Next
    <2> QED
      BY <2>2, <2>3, <2>4, <2>5 DEF Moves
  <1>4. CASE UNCHANGED vars
    BY <1>4 DEF vars, Learned, Prefix
  <1> QED
    BY <1>3, <1>4

(***************************************************************************)
(* The laws, from what is proved of configurations                          *)
(***************************************************************************)

Quorums == INSTANCE ConfigurationProofs

\* What Configuration defines is what its proofs are about.
LEMMA SameDefinitions ==
    /\ \A S : IsFiniteSet(S) <=> Quorums!IsFiniteSet(S)
    /\ \A S : Cardinality(S) = Quorums!Cardinality(S)
    /\ \A c : Validate(c) <=> Quorums!Validate(c)
    /\ \A c, P : HasQuorum(c, P) <=> Quorums!HasQuorum(c, P)
    /\ \A c, match : QuorumIndex(c, match) = Quorums!QuorumIndex(c, match)
    /\ Configurations(Server) = Quorums!Configurations(Server)
  <1>1. \A S : IsFiniteSet(S) <=> Quorums!IsFiniteSet(S)
    BY DEF IsFiniteSet, Quorums!IsFiniteSet
  <1>2. \A S : Cardinality(S) = Quorums!Cardinality(S)
    BY DEF Cardinality, Quorums!Cardinality, IsFiniteSet, Quorums!IsFiniteSet
  <1>3. \A c : IsJoint(c) <=> Quorums!IsJoint(c)
    BY DEF IsJoint, Quorums!IsJoint
  <1>4. \A M, P : hasMajority(M, P) <=> Quorums!hasMajority(M, P)
    BY <1>2 DEF hasMajority, Quorums!hasMajority
  <1>5. \A M, match : Descending(M, match) = Quorums!Descending(M, match)
    BY <1>2, SMT DEF Descending, Quorums!Descending, IsInjective, Quorums!IsInjective
  <1>6. \A M, match : majorityIndex(M, match) = Quorums!majorityIndex(M, match)
    BY <1>2, <1>5 DEF majorityIndex, Quorums!majorityIndex
  <1>7. \A c, match : QuorumIndex(c, match) = Quorums!QuorumIndex(c, match)
    BY <1>3, <1>6, SMT DEF QuorumIndex, Quorums!QuorumIndex
  <1>8. \A c, P : HasQuorum(c, P) <=> Quorums!HasQuorum(c, P)
    BY <1>3, <1>4 DEF HasQuorum, Quorums!HasQuorum
  <1>9. \A c : Validate(c) <=> Quorums!Validate(c)
    BY DEF Validate, Quorums!Validate
  <1>10. Configurations(Server) = Quorums!Configurations(Server)
    BY DEF Configurations, Quorums!Configurations
  <1> QED
    BY <1>1, <1>2, <1>7, <1>8, <1>9, <1>10

LEMMA LawsHold == Laws
  <1>1. Quorums!IsFiniteSet(Server) /\ Config \in Quorums!Configurations(Server)
        /\ Quorums!Validate(Config)
    BY ReplicationAssumption, SameDefinitions
  <1>2. QuorumsMeet
    <2>1. ASSUME NEW P, NEW Q, Quorums!HasQuorum(Config, P), Quorums!HasQuorum(Config, Q)
          PROVE  P \cap Q # {}
      BY <1>1, <2>1, Quorums!QuorumsIntersect
    <2>2. ASSUME NEW P, NEW Q, HasQuorum(Config, P), HasQuorum(Config, Q)
          PROVE  \E x \in P : x \in Q
      <3>1. P \cap Q # {}
        BY <2>1, <2>2, SameDefinitions
      <3> QED
        BY <3>1
    <2> QED
      BY <2>2 DEF QuorumsMeet
  <1>3. QuorumsGrow
    <2>1. ASSUME NEW P, NEW Q, P \subseteq Q, Quorums!HasQuorum(Config, P)
          PROVE  Quorums!HasQuorum(Config, Q)
      BY <1>1, <2>1, Quorums!QuorumGrows
    <2> QED
      BY <2>1, SameDefinitions DEF QuorumsGrow
  <1>4. QuorumIndexHeld
    <2>1. ASSUME NEW match \in [Server -> Nat]
          PROVE  LET k == Quorums!QuorumIndex(Config, match)
                 IN  /\ k \in Nat
                     /\ \A i \in Nat : Quorums!HasQuorum(Config, {m \in Server : match[m] >= i}) <=> i <= k
      BY <1>1, <2>1, Quorums!QuorumIndexIsHighest
    <2>2. ASSUME NEW match \in [Server -> Nat], NEW k, k = QuorumIndex(Config, match)
          PROVE  /\ k \in Nat
                 /\ HasQuorum(Config, {m \in Server : match[m] >= k})
      <3>1. /\ k \in Nat
            /\ \A i \in Nat : HasQuorum(Config, {m \in Server : match[m] >= i}) <=> i <= k
        BY <2>1, <2>2, SameDefinitions
      <3>2. k <= k
        BY <3>1, SMT
      <3> QED
        BY <3>1, <3>2
    <2> QED
      BY <2>2 DEF QuorumIndexHeld
  <1>5. LeastMembers
    BY Quorums!LeastNatural DEF LeastMembers
  <1>6. OneMore
    <2>1. IsFiniteSet({}) /\ Cardinality({}) = 0
      BY Quorums!FS_EmptySet, SameDefinitions
    <2>2. ASSUME NEW S, NEW x, Quorums!IsFiniteSet(S)
          PROVE  /\ Quorums!Cardinality(S) \in Nat /\ Quorums!IsFiniteSet(S \cup {x})
                 /\ Quorums!Cardinality(S \cup {x}) <= Quorums!Cardinality(S) + 1
      <3>1. Quorums!Cardinality(S) \in Nat
        BY <2>2, Quorums!FS_CardinalityType
      <3>2. /\ Quorums!IsFiniteSet(S \cup {x})
            /\ \/ Quorums!Cardinality(S \cup {x}) = Quorums!Cardinality(S)
               \/ Quorums!Cardinality(S \cup {x}) = Quorums!Cardinality(S) + 1
        BY <2>2, Quorums!FS_AddElement
      <3> QED
        BY <3>1, <3>2, SMT
    <2> QED
      BY <2>1, <2>2, SameDefinitions DEF OneMore
  <1> QED
    BY <1>2, <1>3, <1>4, <1>5, <1>6 DEF Laws

(***************************************************************************)
(* The theorems                                                             *)
(***************************************************************************)

\* With every read of a round and every append made in the step that decides on
\* it, each step of a server keeps the invariant: votes, terms, logs, requests
\* under way and confirmations stay consistent with one committed log.
THEOREM Invariance ==
    ASSUME Windows = {}
    PROVE  Spec => []IndInv
  <1>1. Init => IndInv
    BY LawsHold, InitInvariant
  <1>2. IndInv /\ [Next]_vars => IndInv'
    BY NextStep
  <1> QED
    BY <1>1, <1>2, PTL DEF Spec

\* Every value has one type at every node: roles, votes, logs and indices stay
\* in range through elections, appends, conflicting batches and restarts.
THEOREM TypeCorrect ==
    ASSUME Windows = {}
    PROVE  Spec => []TypeOK
  <1>1. IndInv => TypeOK
    BY Typed
  <1> QED
    BY <1>1, Invariance, PTL

\* Two logs with an entry of the same index and term agree on everything before
\* it, whatever batches, late ones included, HandleAppendEntries and
\* AppendEntriesToLog have spliced into them.
THEOREM LogsMatch ==
    ASSUME Windows = {}
    PROVE  Spec => []LogMatching
  <1>1. IndInv => LogMatching
    BY Matching
  <1> QED
    BY <1>1, Invariance, PTL

\* Every commit index covers entries its node holds, and all of them are a
\* prefix of one committed log (AdvanceCommitIndex, HandleAppendEntries).
THEOREM CommitsAgree ==
    ASSUME Windows = {}
    PROVE  Spec => []CommittedAgree
  <1>1. IndInv => CommittedAgree
    BY Committing
  <1> QED
    BY <1>1, Invariance, PTL

\* A leader of a later term than a committed entry's holds the entry: the
\* up-to-date rule of HandleRequestVote and the commit rule of
\* AdvanceCommitIndex are enough.
THEOREM LeadersComplete ==
    ASSUME Windows = {}
    PROVE  Spec => []LeaderComplete
  <1>1. IndInv => LeaderComplete
    BY Completing
  <1> QED
    BY <1>1, Invariance, PTL

\* What a leader's matchIndex says of a peer the peer holds, unless it has moved
\* to a later term (UpdatePeerProgress, and every batch that may come late).
THEOREM MatchesHeld ==
    ASSUME Windows = {}
    PROVE  Spec => []MatchIsHeld
  <1>1. \A n \in Server : Peers(Config, n) \subseteq Server
    BY ReplicationAssumption DEF Peers
  <1>2. IndInv => MatchIsHeld
    BY <1>1, Knowing DEF MatchIsHeld
  <1> QED
    BY <1>2, Invariance, PTL

\* No order of replies and conflict hints makes a leader probe a peer at or
\* below what it has confirmed (BacktrackNextIndex, UpdatePeerProgress).
THEOREM NextStaysAbove ==
    ASSUME Windows = {}
    PROVE  Spec => []NextAboveMatch
  <1>1. \A n \in Server : Peers(Config, n) \subseteq Server
    BY ReplicationAssumption DEF Peers
  <1>2. IndInv => NextAboveMatch
    BY <1>1, Knowing DEF NextAboveMatch
  <1> QED
    BY <1>2, Invariance, PTL

\* While a node leads it only adds to its log, however its appends, its peers'
\* replies and late requests of other leaders are interleaved.
THEOREM LeadersOnlyAppend ==
    ASSUME Windows = {}
    PROVE  Spec => LeaderAppendOnly
  <1>1. IndInv /\ IndInv' /\ [Next]_vars =>
            [\A n \in Server : role[n] = "Leader" /\ role'[n] = "Leader"
                                  => StartOf(log[n].cache, log'[n].cache)]_vars
    BY AppendOnlyStep
  <1> QED
    BY <1>1, Invariance, PTL DEF Spec, LeaderAppendOnly

\* The cluster implements CommittedLog: what a leader has committed is never
\* replaced, every node learns it in order, and only a restart makes a node's
\* commit index go back.
THEOREM ImplementsCommittedLog ==
    ASSUME Windows = {}
    PROVE  Spec => OneCommittedLog
  <1>1. Init => Decisions!Init
    BY InitDecisions
  <1>2. IndInv /\ IndInv' /\ [Next]_vars => [Decisions!Next]_<<chosen, Learned>>
    BY DecisionsStep
  <1> QED
    BY <1>1, <1>2, Invariance, PTL DEF Spec, OneCommittedLog, Decisions!Spec, Learned
=============================================================================
