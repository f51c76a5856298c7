------------------------------- MODULE Election -------------------------------
(***************************************************************************)
(* Terms, votes and leadership of a Crystal cluster: the election half of   *)
(* internal/raft/node.go with the control-loop handlers of                  *)
(* internal/engine/engine.go that drive it.                                 *)
(*                                                                          *)
(* The RPC receivers run on HTTP goroutines and hold rn.mu from start to    *)
(* end, so each is one action.  The control loop takes rn.mu several times  *)
(* inside one handler; wherever a receiver can run in between and matter,   *)
(* the handler is split and `task' says what the loop still has to do.      *)
(*                                                                          *)
(* Two things are left open here and closed by other modules: when a node   *)
(* campaigns (PreVote) and whether a candidate's log is up to date, a free  *)
(* choice of the voter (Replication).                                       *)
(***************************************************************************)
EXTENDS Configuration

CONSTANTS
    Server,     \* every member of the cluster
    Config,     \* the cluster configuration, fixed at startup and shared
    Nil,        \* "no vote" (VotedFor = -1) and "no known leader" (LeaderID = 0)
    MaxTerm,    \* bound: no node campaigns past this term
    MaxFaults,  \* bound: restarts and failed writes of one behaviour
    MaxRounds,  \* bound: replication rounds of one behaviour
    Impatient   \* bound: the servers whose election timer may fire

ASSUME ServerAssumption == IsFiniteSet(Server) /\ Nil \notin Server
ASSUME ConfigAssumption ==
    /\ Config \in Configurations(Server)
    /\ Validate(Config)
    /\ Members(Config) = Server
ASSUME BoundAssumption ==
    /\ MaxTerm \in Nat
    /\ MaxFaults \in Nat
    /\ MaxRounds \in Nat
    /\ Impatient \subseteq Server

VARIABLES
    persistent,   \* RaftNode.persistent: the in-memory term and vote
    disk,         \* the metadata file, what a restart reads back
    faults,       \* how many faults have happened
    Role,         \* RaftNode.Role
    LeaderID,     \* RaftNode.LeaderID
    leaderLive,   \* LeaderID # 0 and lastContact is within the minimum election timeout
    votesFrom,    \* RaftNode.votesFrom
    task,         \* the rest of the handler the control loop is inside
    roundOpen,    \* a replicator has passed its IsLeader check and not yet read the term
    msgs,         \* every request and reply sent; any may be lost, late or repeated
    ballots,      \* history: <<voter, term, candidate>> of every vote cast
    elected       \* history: <<term, server>> of every promotion to leader

stored == <<persistent, disk, faults>>
nodeVars == <<stored, Role, LeaderID, leaderLive, votesFrom>>
history == <<ballots, elected>>
vars == <<nodeVars, task, roundOpen, msgs, history>>

Term(n) == persistent[n].CurrentTerm

Terms == 0..MaxTerm
PersistentState == [CurrentTerm : Terms, VotedFor : Server \cup {Nil}]
Idle == [kind |-> "idle", term |-> 0]
Tasks == [kind : {"idle", "promote", "stepdown"}, term : Terms]

VoteRequests == [type : {"RequestVote"}, term : Terms, from : Server]
VoteReplies ==
    [type : {"RequestVoteResp"}, asked : Terms, term : Terms, granted : BOOLEAN,
     from : Server, to : Server]
AppendRequests == [type : {"AppendEntries"}, term : Terms, from : Server]
AppendReplies == [type : {"AppendEntriesResp"}, term : Terms, to : Server]
Messages == VoteRequests \cup VoteReplies \cup AppendRequests \cup AppendReplies

TypeOK ==
    /\ persistent \in [Server -> PersistentState]
    /\ disk \in [Server -> PersistentState]
    /\ faults \in 0..MaxFaults
    /\ Role \in [Server -> {"Follower", "Candidate", "Leader"}]
    /\ LeaderID \in [Server -> Server \cup {Nil}]
    /\ leaderLive \in [Server -> BOOLEAN]
    /\ votesFrom \in [Server -> SUBSET Server]
    /\ task \in [Server -> Tasks]
    /\ roundOpen \in [Server -> BOOLEAN]
    /\ msgs \subseteq Messages
    /\ ballots \subseteq Server \X Terms \X Server
    /\ elected \subseteq Terms \X Server

Init ==
    /\ persistent = [n \in Server |-> [CurrentTerm |-> 0, VotedFor |-> Nil]]
    /\ disk = persistent
    /\ faults = 0
    /\ Role = [n \in Server |-> "Follower"]
    /\ LeaderID = [n \in Server |-> Nil]
    /\ leaderLive = [n \in Server |-> FALSE]
    /\ votesFrom = [n \in Server |-> {}]
    /\ task = [n \in Server |-> Idle]
    /\ roundOpen = [n \in Server |-> FALSE]
    /\ msgs = {}
    /\ ballots = {}
    /\ elected = {}

(***************************************************************************)
(* Helpers                                                                  *)
(***************************************************************************)

Fault == faults < MaxFaults /\ faults' = faults + 1

\* Defect: the value is adopted and never reaches the file.
CommitPersistentUnwritten(n, next) ==
    /\ persistent' = [persistent EXCEPT ![n] = next]
    /\ UNCHANGED <<disk, faults>>

\* The file is replaced before the value is adopted; an unchanged value
\* skips the write.
CommitPersistent(n, next) ==
    /\ persistent' = [persistent EXCEPT ![n] = next]
    /\ disk' = IF next = persistent[n] THEN disk ELSE [disk EXCEPT ![n] = next]
    /\ UNCHANGED faults

\* Save returned an error and nothing is adopted.  When the failing step is
\* the directory fsync, the rename has already replaced the file.
PersistFails(n, next) ==
    /\ next # persistent[n]
    /\ disk' \in {disk, [disk EXCEPT ![n] = next]}
    /\ Fault
    /\ UNCHANGED persistent

\* Defect: off by one, the term after the one that was seen.
SeenNextTerm(n, term) ==
    IF term > Term(n)
    THEN [CurrentTerm |-> term + 1, VotedFor |-> Nil]
    ELSE persistent[n]

\* The persistent state of a node that has seen `term': a higher term starts
\* with a clean vote, an equal or lower one changes nothing.
Seen(n, term) ==
    IF term > Term(n)
    THEN [CurrentTerm |-> term, VotedFor |-> Nil]
    ELSE persistent[n]

Sent(type) == {m \in msgs : m.type = type}

Send(m) == msgs' = msgs \cup {m}

\* A refusal that names no term above the one asked about is dropped by
\* whoever asked, so it is not kept.
Reply(m, asked, granted) ==
    IF granted \/ m.term > asked THEN Send(m) ELSE UNCHANGED msgs

(***************************************************************************)
(* RPC receivers                                                            *)
(***************************************************************************)

VoteReply(n, m, term, granted) ==
    [type |-> "RequestVoteResp", asked |-> m.term, term |-> term,
     granted |-> granted, from |-> n, to |-> m.from]

\* Refused before anything is decided: an old term, or a live leader.
RefuseVote(n, m) ==
    /\ m.type = "RequestVote"
    /\ m.from # n
    /\ m.term < Term(n) \/ leaderLive[n]
    /\ Reply(VoteReply(n, m, Term(n), FALSE), m.term, FALSE)
    /\ UNCHANGED <<nodeVars, task, roundOpen, history>>

\* Defect: this term's vote is not looked at.
MayGrantAgain(n, m, upToDate) == upToDate

\* The vote goes to a candidate with an up-to-date log unless this term's vote
\* is someone else's.
MayGrant(n, m, upToDate) ==
    /\ Seen(n, m.term).VotedFor \in {Nil, m.from}
    /\ upToDate

\* What the receiver wants to record: the stepped-up term, and the vote if granted.
VoteDecision(n, m, upToDate) ==
    IF MayGrant(n, m, upToDate)
    THEN [Seen(n, m.term) EXCEPT !.VotedFor = m.from]
    ELSE Seen(n, m.term)

\* A higher term deposes the node and forgets its leader; a grant also counts
\* as contact, with whatever leader the node still knows.
HandleRequestVote(n, m, upToDate) ==
    /\ m.type = "RequestVote"
    /\ m.from # n
    /\ m.term >= Term(n)
    /\ ~leaderLive[n]
    /\ CommitPersistent(n, VoteDecision(n, m, upToDate))
    /\ Role' = [Role EXCEPT ![n] = IF m.term > Term(n) THEN "Follower" ELSE @]
    /\ LeaderID' = [LeaderID EXCEPT ![n] = IF m.term > Term(n) THEN Nil ELSE @]
    /\ leaderLive' = [leaderLive EXCEPT ![n] = LeaderID'[n] # Nil /\ MayGrant(n, m, upToDate)]
    /\ ballots' = IF MayGrant(n, m, upToDate)
                  THEN ballots \cup {<<n, m.term, m.from>>}
                  ELSE ballots
    /\ Reply(VoteReply(n, m, m.term, MayGrant(n, m, upToDate)), m.term, MayGrant(n, m, upToDate))
    /\ UNCHANGED <<votesFrom, task, roundOpen, elected>>

\* The write failed: nothing is promised and the durable term is reported.
HandleRequestVoteFails(n, m, upToDate) ==
    /\ m.type = "RequestVote"
    /\ m.from # n
    /\ m.term >= Term(n)
    /\ ~leaderLive[n]
    /\ PersistFails(n, VoteDecision(n, m, upToDate))
    /\ Reply(VoteReply(n, m, Term(n), FALSE), m.term, FALSE)
    /\ UNCHANGED <<Role, LeaderID, leaderLive, votesFrom, task, roundOpen, history>>

\* Defect: the term is adopted and the role is kept.
BecomeFollowerKeepsRole(n, term, leader) ==
    /\ CommitPersistent(n, Seen(n, term))
    /\ LeaderID' = [LeaderID EXCEPT ![n] = leader]
    /\ leaderLive' = [leaderLive EXCEPT ![n] = leader # Nil]
    /\ UNCHANGED Role

\* becomeFollowerLocked(term, leader): the node yields whatever its role; the
\* vote survives unless the term moves.
BecomeFollower(n, term, leader) ==
    /\ CommitPersistent(n, Seen(n, term))
    /\ Role' = [Role EXCEPT ![n] = "Follower"]
    /\ LeaderID' = [LeaderID EXCEPT ![n] = leader]
    /\ leaderLive' = [leaderLive EXCEPT ![n] = leader # Nil]

AppendReply(m, term) == [type |-> "AppendEntriesResp", term |-> term, to |-> m.from]

\* AppendEntries, and InstallSnapshot whose term logic is the same: an old
\* term is refused ...
RefuseAppend(n, m) ==
    /\ m.type = "AppendEntries"
    /\ m.from # n
    /\ m.term < Term(n)
    /\ Reply(AppendReply(m, Term(n)), m.term, FALSE)
    /\ UNCHANGED <<nodeVars, task, roundOpen, history>>

\* ... any other is followed and counts as contact.  For a same-term follower
\* BecomeFollower only refreshes the leader.
HandleAppendEntries(n, m) ==
    /\ m.type = "AppendEntries"
    /\ m.from # n
    /\ m.term >= Term(n)
    /\ BecomeFollower(n, m.term, m.from)
    /\ Reply(AppendReply(m, m.term), m.term, FALSE)
    /\ UNCHANGED <<votesFrom, task, roundOpen, history>>

HandleAppendEntriesFails(n, m) ==
    /\ m.type = "AppendEntries"
    /\ m.from # n
    /\ PersistFails(n, Seen(n, m.term))
    /\ Reply(AppendReply(m, Term(n)), m.term, FALSE)
    /\ UNCHANGED <<Role, LeaderID, leaderLive, votesFrom, task, roundOpen, history>>

(***************************************************************************)
(* The control loop                                                         *)
(***************************************************************************)

Then(n, kind, term) == task' = [task EXCEPT ![n] = [kind |-> kind, term |-> term]]
Done(n) == task' = [task EXCEPT ![n] = Idle]

\* The election timer of a node that does not lead has fired.  The tick has
\* reconciled first, which waits for the rounds of a lost leadership.
TimedOut(n) ==
    /\ task[n] = Idle
    /\ Role[n] # "Leader"
    /\ ~roundOpen[n]
    /\ n \in Impatient
    /\ Term(n) < MaxTerm

\* runElection: spend a term on ourselves, durably, then ask the peers; a node
\* without peers has already won.
RunElection(n) ==
    /\ TimedOut(n)
    /\ CommitPersistent(n, [CurrentTerm |-> Term(n) + 1, VotedFor |-> n])
    /\ Role' = [Role EXCEPT ![n] = "Candidate"]
    /\ LeaderID' = [LeaderID EXCEPT ![n] = Nil]
    /\ leaderLive' = [leaderLive EXCEPT ![n] = FALSE]
    /\ votesFrom' = [votesFrom EXCEPT ![n] = {n}]
    /\ ballots' = ballots \cup {<<n, Term(n) + 1, n>>}
    /\ IF Peers(Config, n) = {}
       THEN Then(n, "promote", Term(n) + 1) /\ UNCHANGED msgs
       ELSE Send([type |-> "RequestVote", term |-> Term(n) + 1, from |-> n]) /\ UNCHANGED task
    /\ UNCHANGED <<roundOpen, elected>>

RunElectionFails(n) ==
    /\ TimedOut(n)
    /\ PersistFails(n, [CurrentTerm |-> Term(n) + 1, VotedFor |-> n])
    /\ UNCHANGED <<Role, LeaderID, leaderLive, votesFrom, task, roundOpen, msgs, history>>

\* A reply to the election this node is still a candidate in.
VoteReceived(n, m) ==
    /\ m.type = "RequestVoteResp"
    /\ m.to = n
    /\ task[n] = Idle
    /\ Role[n] = "Candidate"
    /\ m.asked = Term(n)

\* A vote is tallied; the one that completes a quorum leads to promotion.
HandleVoteResult(n, m) ==
    /\ VoteReceived(n, m)
    /\ m.term <= Term(n)
    /\ m.granted
    /\ votesFrom' = [votesFrom EXCEPT ![n] = @ \cup {m.from}]
    /\ IF HasQuorum(Config, votesFrom'[n])
       THEN Then(n, "promote", m.asked)
       ELSE UNCHANGED task
    /\ UNCHANGED <<stored, Role, LeaderID, leaderLive, roundOpen, msgs, history>>

HandleVoteHigherTerm(n, m) ==
    /\ VoteReceived(n, m)
    /\ m.term > Term(n)
    /\ Then(n, "stepdown", m.term)
    /\ UNCHANGED <<nodeVars, roundOpen, msgs, history>>

\* Defect: the promotion trusts the tally and checks nothing again.
BecomeLeaderUnchecked(n) ==
    /\ task[n].kind = "promote"
    /\ Done(n)
    /\ Role' = [Role EXCEPT ![n] = "Leader"]
    /\ LeaderID' = [LeaderID EXCEPT ![n] = n]
    /\ leaderLive' = [leaderLive EXCEPT ![n] = TRUE]
    /\ elected' = elected \cup {<<Term(n), n>>}
    /\ UNCHANGED <<stored, votesFrom, roundOpen, msgs, ballots>>

\* becomeLeader: promoted only if no receiver has moved the node on since the
\* winning vote was counted.
BecomeLeader(n) ==
    /\ task[n].kind = "promote"
    /\ Done(n)
    /\ IF Role[n] = "Candidate" /\ Term(n) = task[n].term
       THEN /\ Role' = [Role EXCEPT ![n] = "Leader"]
            /\ LeaderID' = [LeaderID EXCEPT ![n] = n]
            /\ leaderLive' = [leaderLive EXCEPT ![n] = TRUE]
            /\ elected' = elected \cup {<<Term(n), n>>}
       ELSE UNCHANGED <<Role, LeaderID, leaderLive, elected>>
    /\ UNCHANGED <<stored, votesFrom, roundOpen, msgs, ballots>>

\* A replicator reported a follower's higher term over stepDownCh.
HandleStepDown(n, m) ==
    /\ m.type = "AppendEntriesResp"
    /\ m.to = n
    /\ task[n] = Idle
    /\ m.term > Term(n)
    /\ Then(n, "stepdown", m.term)
    /\ UNCHANGED <<nodeVars, roundOpen, msgs, history>>

\* A peer's answer to a pre-vote poll reported the term it is in, or was in
\* when it answered (PreVote).
StandDown(n, term) ==
    /\ task[n] = Idle
    /\ Role[n] # "Leader"
    /\ n \in Impatient
    /\ term > Term(n)
    /\ \E p \in Server : Term(p) >= term
    /\ Then(n, "stepdown", term)
    /\ UNCHANGED <<nodeVars, roundOpen, msgs, history>>

\* A leader that no majority has answered for a whole window gives up its own term.
CheckQuorum(n) ==
    /\ task[n] = Idle
    /\ Role[n] = "Leader"
    /\ Peers(Config, n) # {}
    /\ Then(n, "stepdown", Term(n))
    /\ UNCHANGED <<nodeVars, roundOpen, msgs, history>>

\* The step-down decided above takes effect; its term may be out of date by now.
StepDown(n) ==
    /\ task[n].kind = "stepdown"
    /\ Done(n)
    /\ BecomeFollower(n, task[n].term, Nil)
    /\ UNCHANGED <<votesFrom, roundOpen, msgs, history>>

StepDownFails(n) ==
    /\ task[n].kind = "stepdown"
    /\ Done(n)
    /\ PersistFails(n, Seen(n, task[n].term))
    /\ UNCHANGED <<Role, LeaderID, leaderLive, votesFrom, roundOpen, msgs, history>>

(***************************************************************************)
(* Replicators, time and restarts                                           *)
(***************************************************************************)

Rounds == Cardinality(Sent("AppendEntries")) + Cardinality({s \in Server : roundOpen[s]})

\* replicateOnce checks that the node leads ...
OpenRound(n) ==
    /\ Role[n] = "Leader"
    /\ Peers(Config, n) # {}
    /\ ~roundOpen[n]
    /\ Rounds < MaxRounds
    /\ roundOpen' = [roundOpen EXCEPT ![n] = TRUE]
    /\ UNCHANGED <<nodeVars, task, msgs, history>>

\* ... and later, in another critical section, reads the term it sends.
ReplicateTo(n) ==
    /\ roundOpen[n]
    /\ roundOpen' = [roundOpen EXCEPT ![n] = FALSE]
    /\ Send([type |-> "AppendEntries", term |-> Term(n), from |-> n])
    /\ UNCHANGED <<nodeVars, task, history>>

\* A minimum election timeout goes by without contact from the known leader.
ContactLapses(n) ==
    /\ leaderLive[n]
    /\ leaderLive' = [leaderLive EXCEPT ![n] = FALSE]
    /\ UNCHANGED <<stored, Role, LeaderID, votesFrom, task, roundOpen, msgs, history>>

\* The process dies at any point and starts again from the metadata file.
Restart(n) ==
    /\ persistent' = [persistent EXCEPT ![n] = disk[n]]
    /\ Role' = [Role EXCEPT ![n] = "Follower"]
    /\ LeaderID' = [LeaderID EXCEPT ![n] = Nil]
    /\ leaderLive' = [leaderLive EXCEPT ![n] = FALSE]
    /\ votesFrom' = [votesFrom EXCEPT ![n] = {}]
    /\ Done(n)
    /\ roundOpen' = [roundOpen EXCEPT ![n] = FALSE]
    /\ Fault
    /\ UNCHANGED <<disk, msgs, history>>

Receiver(n, m) ==
    \/ RefuseVote(n, m)
    \/ \E upToDate \in BOOLEAN : HandleRequestVote(n, m, upToDate)
    \/ \E upToDate \in BOOLEAN : HandleRequestVoteFails(n, m, upToDate)
    \/ RefuseAppend(n, m)
    \/ HandleAppendEntries(n, m)
    \/ HandleAppendEntriesFails(n, m)

ControlLoop(n) ==
    \/ \E m \in msgs : \/ HandleVoteResult(n, m)
                       \/ HandleVoteHigherTerm(n, m)
                       \/ HandleStepDown(n, m)
    \/ BecomeLeader(n)
    \/ CheckQuorum(n)
    \/ StepDown(n)
    \/ StepDownFails(n)

Campaign(n) == RunElection(n) \/ RunElectionFails(n)

Environment(n) ==
    \/ OpenRound(n)
    \/ ReplicateTo(n)
    \/ ContactLapses(n)
    \/ Restart(n)

Next ==
    \E n \in Server :
        \/ \E m \in msgs : Receiver(n, m)
        \/ ControlLoop(n)
        \/ \E term \in Terms : StandDown(n, term)
        \/ Campaign(n)
        \/ Environment(n)

Spec == Init /\ [][Next]_vars

(***************************************************************************)
(* Properties                                                               *)
(***************************************************************************)

\* No node ever votes for two candidates in one term, whatever crashes and
\* failed metadata writes come between the two requests (HandleRequestVote,
\* BecomeCandidate, loadPersistentState).
OneVotePerTerm ==
    \A b, c \in ballots : b[1] = c[1] /\ b[2] = c[2] => b[3] = c[3]

\* At most one node is ever promoted in a term, although the tally and the
\* promotion are separate critical sections (handleVoteResult, BecomeLeader).
ElectionSafety ==
    \A e, f \in elected : e[1] = f[1] => e[2] = f[2]

\* A node acting as leader was promoted in the very term it acts in: no
\* receiver raises a node's term and leaves it leading.
LeaderWasPromoted ==
    \A n \in Server : Role[n] = "Leader" => <<Term(n), n>> \in elected

\* A node's term never moves backwards, not even when it restarts from a file
\* whose last write was reported as failed (commitPersistentLocked).
TermNeverRegresses ==
    [][\A n \in Server : persistent'[n].CurrentTerm >= persistent[n].CurrentTerm]_vars
=============================================================================
