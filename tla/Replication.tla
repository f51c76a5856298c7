----------------------------- MODULE Replication -----------------------------
(***************************************************************************)
(* Log replication across the cluster: the leader half in                   *)
(* internal/raft/replicator.go, internal/engine/replicator_loop.go and      *)
(* engine.go, the follower half and the commit rule in                      *)
(* internal/raft/node.go, over the logs of RaftLog.                         *)
(*                                                                          *)
(* Election owns the details of votes and persistence; here a campaign      *)
(* asks each peer in one step, and what a node has written survives.        *)
(* Compaction is left out, so no log is ever behind a snapshot.             *)
(*                                                                          *)
(* Three handlers read shared state under one lock and act on it under      *)
(* another.  A step that may be interrupted there is listed in Windows;     *)
(* with Windows = {} every handler runs undisturbed.                        *)
(***************************************************************************)
EXTENDS RaftLog, Configuration

CONSTANTS
    Server,      \* every member of the cluster
    Config,      \* the cluster configuration, fixed at startup and shared
    Nil,         \* no vote
    Windows,     \* which of "append", "round" and "build" may be interrupted
    MaxTerm,     \* bound: terms
    Contenders,  \* bound: who campaigns for each term
    Links,       \* bound: the pairs of servers that can reach each other
    MaxIndex,    \* bound: log length
    MaxFaults,   \* bound: restarts and failed appends of one behaviour
    MaxLate      \* bound: requests on their way after their round was given up

ASSUME ReplicationAssumption ==
    /\ IsFiniteSet(Server) /\ Nil \notin Server
    /\ Config \in Configurations(Server) /\ Validate(Config) /\ Members(Config) = Server
    /\ Windows \subseteq {"append", "round", "build"}
    /\ {MaxTerm, MaxIndex, MaxFaults, MaxLate} \subseteq Nat
    /\ Links \subseteq SUBSET Server
    /\ Contenders \in [1 .. MaxTerm -> SUBSET Server]

VARIABLES
    currentTerm, \* the persistent term
    votedFor,    \* and the vote cast in it
    role,        \* RaftNode.Role
    votesFrom,   \* RaftNode.votesFrom
    campaign,    \* the last RequestVote each node has sent: term and end of its log
    log,         \* each node's RaftLog
    commitIndex, \* RaftNode.CommitIndex
    nextIndex,   \* RaftNode.NextIndex
    matchIndex,  \* RaftNode.MatchIndex
    pending,     \* the term the control loop is about to append an entry with, or 0
    round,       \* what each peerReplicator is doing
    late,        \* AppendEntries whose round has timed out and that may still arrive
    chosen,      \* history: the longest prefix any node has reported committed
    faults

electionVars == <<currentTerm, votedFor, role, votesFrom, campaign>>
leaderVars == <<nextIndex, matchIndex>>
vars == <<electionVars, log, commitIndex, leaderVars, pending, round, late, chosen, faults>>

Terms == 0 .. MaxTerm
Indices == 0 .. MaxIndex
Entries == [Index : 1 .. MaxIndex, Term : 1 .. MaxTerm]
Idle == [at |-> "idle"]

TypeOK ==
    /\ currentTerm \in [Server -> Terms]
    /\ votedFor \in [Server -> Server \cup {Nil}]
    /\ role \in [Server -> {"Follower", "Candidate", "Leader"}]
    /\ votesFrom \in [Server -> SUBSET Server]
    /\ \A n \in Server : Range(log[n].cache) \subseteq Entries
    /\ commitIndex \in [Server -> Indices]
    /\ nextIndex \in [Server -> [Server -> 1 .. MaxIndex + 1]]
    /\ matchIndex \in [Server -> [Server -> Indices]]
    /\ pending \in [Server -> Terms]
    /\ \A n, p \in Server : round[n][p].at \in {"idle", "checked", "header", "answered"}
    /\ Cardinality(late) <= MaxLate
    /\ faults \in 0 .. MaxFaults

Init ==
    /\ currentTerm = [n \in Server |-> 0]
    /\ votedFor = [n \in Server |-> Nil]
    /\ role = [n \in Server |-> "Follower"]
    /\ votesFrom = [n \in Server |-> {}]
    /\ campaign = [n \in Server |-> [term |-> 0, lastLogIndex |-> 0, lastLogTerm |-> 0]]
    /\ log = [n \in Server |-> NewRaftLog]
    /\ commitIndex = [n \in Server |-> 0]
    /\ nextIndex = [n \in Server |-> [p \in Server |-> 1]]
    /\ matchIndex = [n \in Server |-> [p \in Server |-> 0]]
    /\ pending = [n \in Server |-> 0]
    /\ round = [n \in Server |-> [p \in Server |-> Idle]]
    /\ late = {}
    /\ chosen = <<>>
    /\ faults = 0

Fault == faults < MaxFaults /\ faults' = faults + 1

\* l is a beginning of m.
StartOf(l, m) == Len(l) <= Len(m) /\ SubSeq(m, 1, Len(l)) = l

\* The prefix of l that a commit index of c declares final, and its history.
Prefix(l, c) == SubSeq(l.cache, 1, c)
Report(n, l, c) ==
    /\ commitIndex' = [commitIndex EXCEPT ![n] = c]
    /\ chosen' = IF c > Len(chosen) THEN Prefix(l, c) ELSE chosen

\* Defect: the role survives a higher term.
BecomeFollowerKeepsRole(n, term) ==
    /\ currentTerm' = [currentTerm EXCEPT ![n] = Max({@, term})]
    /\ votedFor' = [votedFor EXCEPT ![n] = IF term > currentTerm[n] THEN Nil ELSE @]
    /\ UNCHANGED role

\* becomeFollowerLocked: a higher term clears the vote.
BecomeFollower(n, term) ==
    /\ role' = [role EXCEPT ![n] = "Follower"]
    /\ currentTerm' = [currentTerm EXCEPT ![n] = Max({@, term})]
    /\ votedFor' = [votedFor EXCEPT ![n] = IF term > currentTerm[n] THEN Nil ELSE @]

(***************************************************************************)
(* Elections                                                                *)
(***************************************************************************)

\* A campaign starts on a tick whose reconcileLeadership has waited for every
\* round of an earlier leadership.
RunElection(n) ==
    LET term == currentTerm[n] + 1
    IN  /\ role[n] # "Leader"
        /\ term <= MaxTerm /\ n \in Contenders[term]
        /\ pending[n] = 0
        /\ \A p \in Server : round[n][p] = Idle
        /\ currentTerm' = [currentTerm EXCEPT ![n] = term]
        /\ votedFor' = [votedFor EXCEPT ![n] = n]
        /\ role' = [role EXCEPT ![n] = "Candidate"]
        /\ votesFrom' = [votesFrom EXCEPT ![n] = {n}]
        /\ campaign' = [campaign EXCEPT ![n] =
                           [term |-> term, lastLogIndex |-> LatestIndex(log[n]),
                            lastLogTerm |-> LatestTerm(log[n])]]
        /\ UNCHANGED <<log, commitIndex, leaderVars, pending, round, late, chosen, faults>>

candidateUpToDate(candTerm, candIndex, voterTerm, voterIndex) ==
    \/ candTerm > voterTerm
    \/ candTerm = voterTerm /\ candIndex >= voterIndex

\* Peer n answers candidate c's request.  The vote counts if c is still a
\* candidate in that term when the reply gets back.
HandleRequestVote(n, c) ==
    LET req   == campaign[c]
        grant == /\ req.term > currentTerm[n] \/ votedFor[n] \in {Nil, c}
                 /\ candidateUpToDate(req.lastLogTerm, req.lastLogIndex,
                                      LatestTerm(log[n]), LatestIndex(log[n]))
        counts == grant /\ role[c] = "Candidate" /\ currentTerm[c] = req.term
    IN  /\ {n, c} \in Links
        /\ req.term > 0 /\ req.term >= currentTerm[n]
        /\ currentTerm' = [currentTerm EXCEPT ![n] = req.term]
        /\ role' = [role EXCEPT ![n] = IF req.term > currentTerm[n] THEN "Follower" ELSE @]
        /\ votedFor' = [votedFor EXCEPT ![n] =
                           IF grant THEN c ELSE IF req.term > currentTerm[n] THEN Nil ELSE @]
        /\ votesFrom' = IF counts THEN [votesFrom EXCEPT ![c] = @ \cup {n}] ELSE votesFrom
        /\ UNCHANGED <<campaign, log, commitIndex, leaderVars, pending, round, late, chosen,
                       faults>>

(***************************************************************************)
(* Appending as leader                                                      *)
(***************************************************************************)

AppendOwn(n, term) ==
    /\ LatestIndex(log[n]) < MaxIndex
    /\ log' = [log EXCEPT ![n] = AppendLeader(@, term)]

\* With the window open the entry is appended in a later step, whatever has
\* become of the leadership by then.
AppendNowOrLater(n, term) ==
    IF "append" \in Windows
    THEN pending' = [pending EXCEPT ![n] = term] /\ UNCHANGED log
    ELSE AppendOwn(n, term) /\ UNCHANGED pending

\* What a new leader assumes its peers hold: nothing.  (Defect: all it has.)
InitialMatchOptimistic(n) == [p \in Server |-> LatestIndex(log[n])]
InitialMatch(n) == [p \in Server |-> 0]

\* becomeLeader: progress starts from the end of our log, then comes the no-op,
\* without which the leader carries on if it cannot be appended.
BecomeLeader(n) ==
    /\ role[n] = "Candidate"
    /\ HasQuorum(Config, votesFrom[n])
    /\ role' = [role EXCEPT ![n] = "Leader"]
    /\ nextIndex' = [nextIndex EXCEPT ![n] = [p \in Server |-> LatestIndex(log[n]) + 1]]
    /\ matchIndex' = [matchIndex EXCEPT ![n] = InitialMatch(n)]
    /\ \/ AppendNowOrLater(n, currentTerm[n]) /\ UNCHANGED faults
       \/ Fault /\ UNCHANGED <<log, pending>>
    /\ UNCHANGED <<currentTerm, votedFor, votesFrom, campaign, commitIndex, round, late, chosen>>

\* handleProposal: the role is checked and the term read before the append.
HandleProposal(n) ==
    /\ role[n] = "Leader"
    /\ pending[n] = 0
    /\ AppendNowOrLater(n, currentTerm[n])
    /\ UNCHANGED <<electionVars, commitIndex, leaderVars, round, late, chosen, faults>>

AppendPending(n) ==
    /\ pending[n] # 0
    /\ pending' = [pending EXCEPT ![n] = 0]
    /\ AppendOwn(n, pending[n])
    /\ UNCHANGED <<electionVars, commitIndex, leaderVars, round, late, chosen, faults>>

\* The commit rule.  (Defect: entries of any term count.)
CommitsAnyTerm(n, index) == index > commitIndex[n]
Commits(n, index) == index > commitIndex[n] /\ TermAt(log[n], index) = currentTerm[n]

\* AdvanceCommitIndex: the highest index a quorum holds, if its entry is of
\* the current term.
AdvanceCommitIndex(n) ==
    LET index == QuorumIndex(Config, [matchIndex[n] EXCEPT ![n] = LatestIndex(log[n])])
    IN  /\ role[n] = "Leader"
        /\ pending[n] = 0
        /\ Commits(n, index)
        /\ Report(n, log[n], index)
        /\ UNCHANGED <<electionVars, log, leaderVars, pending, round, late, faults>>

(***************************************************************************)
(* Replication rounds                                                       *)
(***************************************************************************)

\* The receiver, one critical section: refuse an old term; else follow, check
\* and splice, commit.
Spliced(p, m) ==
    IF PrevMatches(log[p], m.prevLogIndex, m.prevLogTerm)
    THEN Splice(log[p], m.entries)
    ELSE [log |-> log[p], ok |-> FALSE]

\* setFollowerCommitIndexLocked: never past what this request confirmed, and
\* never back.  (Defect: back.)
FollowerCommitBack(p, leaderCommit, match) == Min({leaderCommit, match})
FollowerCommit(p, leaderCommit, match) == Max({commitIndex[p], Min({leaderCommit, match})})

HandleAppendEntries(p, m) ==
    IF m.term < currentTerm[p]
    THEN UNCHANGED <<electionVars, log, commitIndex, chosen>>
    ELSE LET spliced == Spliced(p, m)
             match   == MatchIndex(m.prevLogIndex, m.entries)
         IN  /\ BecomeFollower(p, m.term)
             /\ log' = [log EXCEPT ![p] = spliced.log]
             /\ IF spliced.ok
                THEN Report(p, spliced.log, FollowerCommit(p, m.leaderCommit, match))
                ELSE UNCHANGED <<commitIndex, chosen>>
             /\ UNCHANGED <<votesFrom, campaign>>

\* Its answer; index is the match on success, else the conflict hint.
AppendReply(p, m) ==
    [asked   |-> m.term,
     term    |-> Max({m.term, currentTerm[p]}),
     success |-> m.term >= currentTerm[p] /\ Spliced(p, m).ok,
     index   |-> IF m.term < currentTerm[p] THEN 0
                 ELSE IF Spliced(p, m).ok THEN MatchIndex(m.prevLogIndex, m.entries)
                 ELSE IF PrevMatches(log[p], m.prevLogIndex, m.prevLogTerm) THEN 0
                 ELSE ConflictIndex(log[p], m.prevLogIndex)]

SetRound(n, p, r) == round' = [round EXCEPT ![n][p] = r]

\* ReplicateTo reads the term, the commit index, nextIndex and the term before it ...
Header(n, p) ==
    [to |-> p, term |-> currentTerm[n], leaderCommit |-> commitIndex[n],
     prevLogIndex |-> nextIndex[n][p] - 1,
     prevLogTerm |-> IF nextIndex[n][p] = 1 THEN 0 ELSE TermAt(log[n], nextIndex[n][p] - 1)]

\* ... and then the entries from nextIndex on.
Request(n, header) ==
    [to |-> header.to, term |-> header.term, leaderCommit |-> header.leaderCommit,
     prevLogIndex |-> header.prevLogIndex, prevLogTerm |-> header.prevLogTerm,
     entries |-> GetEntriesFrom(log[n], header.prevLogIndex + 1)]

\* The request is handled and its answer is on the way back, or the client
\* times out and the request may still arrive, once or several times.
Send(n, p, m) ==
    \/ /\ HandleAppendEntries(p, m)
       /\ SetRound(n, p, [at |-> "answered", reply |-> AppendReply(p, m)])
       /\ UNCHANGED <<leaderVars, pending, late, faults>>
    \/ /\ Cardinality(late) < MaxLate
       /\ late' = late \cup {m}
       /\ SetRound(n, p, Idle)
       /\ UNCHANGED <<electionVars, log, commitIndex, chosen, leaderVars, pending, faults>>

LateArrives(m) ==
    /\ HandleAppendEntries(m.to, m)
    /\ UNCHANGED <<leaderVars, pending, round, late, faults>>

\* replicateOnce checks that the node leads; with no window open the reads and
\* the send follow in the same step.
ReplicateOnce(n, p) ==
    /\ p \in Peers(Config, n) /\ {n, p} \in Links
    /\ role[n] = "Leader"
    /\ round[n][p] = Idle
    /\ IF Windows \cap {"round", "build"} = {}
       THEN Send(n, p, Request(n, Header(n, p)))
       ELSE /\ SetRound(n, p, IF "round" \in Windows
                              THEN [at |-> "checked"]
                              ELSE [at |-> "header", header |-> Header(n, p)])
            /\ UNCHANGED <<electionVars, log, commitIndex, leaderVars, pending, late, chosen,
                           faults>>

ReadHeader(n, p) ==
    /\ round[n][p].at = "checked"
    /\ SetRound(n, p, [at |-> "header", header |-> Header(n, p)])
    /\ UNCHANGED <<electionVars, log, commitIndex, leaderVars, pending, late, chosen, faults>>

ReadEntries(n, p) ==
    /\ round[n][p].at = "header"
    /\ Send(n, p, Request(n, round[n][p].header))

\* Defects: nextIndex is one too far, or is left behind.
UpdatePeerProgressTooFar(n, p, match) ==
    /\ matchIndex' = [matchIndex EXCEPT ![n][p] = Max({@, match})]
    /\ nextIndex' = [nextIndex EXCEPT ![n][p] = Max({@, match + 2})]
UpdatePeerProgressMatchOnly(n, p, match) ==
    /\ matchIndex' = [matchIndex EXCEPT ![n][p] = Max({@, match})]
    /\ UNCHANGED nextIndex

\* UpdatePeerProgress: both only ever rise.
UpdatePeerProgress(n, p, match) ==
    /\ matchIndex' = [matchIndex EXCEPT ![n][p] = Max({@, match})]
    /\ nextIndex' = [nextIndex EXCEPT ![n][p] = Max({@, match + 1})]

BacktrackNextIndex(n, p, conflict) ==
    /\ nextIndex' = [nextIndex EXCEPT ![n][p] =
                        Max({1, IF conflict \in 1 .. @ - 1 THEN conflict ELSE @ - 1})]
    /\ UNCHANGED matchIndex

\* handleStepDown ignores a report the node's term has caught up with.
HandleStepDown(n, term) ==
    IF term > currentTerm[n]
    THEN BecomeFollower(n, term)
    ELSE UNCHANGED <<currentTerm, votedFor, role>>

\* The round ends with the reply; a higher term is reported to the control
\* loop, which steps down.
HandleReply(n, p) ==
    LET reply == round[n][p].reply
    IN  /\ round[n][p].at = "answered"
        /\ SetRound(n, p, Idle)
        /\ IF reply.term > reply.asked
           THEN HandleStepDown(n, reply.term) /\ UNCHANGED leaderVars
           ELSE /\ IF reply.success
                   THEN UpdatePeerProgress(n, p, reply.index)
                   ELSE BacktrackNextIndex(n, p, reply.index)
                /\ UNCHANGED <<currentTerm, votedFor, role>>
        /\ UNCHANGED <<votesFrom, campaign, log, commitIndex, pending, late, chosen, faults>>

\* The reply is lost.
RoundFails(n, p) ==
    /\ round[n][p].at = "answered"
    /\ SetRound(n, p, Idle)
    /\ UNCHANGED <<electionVars, log, commitIndex, leaderVars, pending, late, chosen, faults>>

\* A restart keeps what was persisted: the term, the vote and the log.
Restart(n) ==
    /\ Fault
    /\ role' = [role EXCEPT ![n] = "Follower"]
    /\ votesFrom' = [votesFrom EXCEPT ![n] = {}]
    /\ commitIndex' = [commitIndex EXCEPT ![n] = 0]
    /\ pending' = [pending EXCEPT ![n] = 0]
    /\ round' = [round EXCEPT ![n] = [p \in Server |-> Idle]]
    /\ UNCHANGED <<currentTerm, votedFor, campaign, log, leaderVars, late, chosen>>

Next ==
    \/ \E m \in late : LateArrives(m)
    \/ \E n \in Server :
        \/ RunElection(n)
        \/ BecomeLeader(n)
        \/ HandleProposal(n)
        \/ AppendPending(n)
        \/ AdvanceCommitIndex(n)
        \/ Restart(n)
        \/ \E p \in Server :
              \/ HandleRequestVote(n, p)
              \/ ReplicateOnce(n, p)
              \/ ReadHeader(n, p)
              \/ ReadEntries(n, p)
              \/ HandleReply(n, p)
              \/ RoundFails(n, p)

Spec == Init /\ [][Next]_vars

(***************************************************************************)
(* Properties                                                               *)
(***************************************************************************)

\* Log Matching: two logs with an entry of the same index and term agree on
\* everything before it ("a Log Matching violation produced entirely by lock
\* granularity" is what the receivers' critical sections are there to exclude).
LogMatching ==
    \A n, p \in Server : \A i \in DOMAIN log[n].cache \cap DOMAIN log[p].cache :
        log[n].cache[i] = log[p].cache[i]
            => Prefix(log[n], i) = Prefix(log[p], i)

\* What one node has reported committed no node ever contradicts: every commit
\* index covers entries the node holds, and they are a prefix of the longest
\* committed log (State Machine Safety).
CommittedAgree ==
    \A n \in Server :
        /\ commitIndex[n] <= LatestIndex(log[n])
        /\ StartOf(Prefix(log[n], commitIndex[n]), chosen)

\* Leader Completeness: a leader holds every entry committed by a leader of an
\* earlier term (HandleRequestVote's up-to-date rule and the commit rule).
LeaderComplete ==
    \A n \in Server :
        role[n] = "Leader" /\ (chosen # <<>> => currentTerm[n] >= chosen[Len(chosen)].Term)
            => StartOf(chosen, log[n].cache)

\* A leader's matchIndex is true: unless it has moved to a later term, the peer
\* holds the leader's log up to there, whatever late or repeated batches it has
\* processed since (UpdatePeerProgress, AppendEntriesToLog).
MatchIsHeld ==
    \A n \in Server : \A p \in Peers(Config, n) :
        role[n] = "Leader" /\ currentTerm[p] <= currentTerm[n]
            => StartOf(Prefix(log[n], matchIndex[n][p]), log[p].cache)

\* The leader never probes below what the peer has confirmed, however replies
\* and conflict hints are ordered (BacktrackNextIndex).
NextAboveMatch ==
    \A n \in Server : \A p \in Peers(Config, n) :
        role[n] = "Leader" => nextIndex[n][p] > matchIndex[n][p]

\* The cluster implements one decided log that every node learns in order:
\* what any leader has committed is never replaced by another leader's log.
Decisions ==
    INSTANCE CommittedLog
    WITH decided <- chosen, learned <- [n \in Server |-> Prefix(log[n], commitIndex[n])]
OneCommittedLog == Decisions!Spec

\* While a node leads it only adds to its log.
LeaderAppendOnly ==
    [][\A n \in Server :
          role[n] = "Leader" /\ role'[n] = "Leader" => StartOf(log[n].cache, log'[n].cache)]_vars
=============================================================================
