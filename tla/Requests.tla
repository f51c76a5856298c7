------------------------------ MODULE Requests ------------------------------
(***************************************************************************)
(* What clients are told by one node: writes that wait for their entry to   *)
(* commit (internal/engine/engine.go), linearizable reads that wait for a   *)
(* quorum to confirm the leader or, on a follower, for the leader's read    *)
(* index to be applied (internal/engine/quorum.go), CheckQuorum, and the    *)
(* tick that answers, expires and reconciles them.                          *)
(*                                                                          *)
(* The node Self has its whole control loop; receivers run on other         *)
(* goroutines and may depose it between two handlers, and inside a tick if  *)
(* "tick" \in Windows.  Its peers vote, follow and lead, and that is all:   *)
(* an election is one step of a quorum, a round brings the receiver's log   *)
(* up to the sender's or is refused.  Election and Replication have the     *)
(* protocol in small steps.                                                 *)
(***************************************************************************)
EXTENDS Configuration, FiniteSetsExt

CONSTANTS
    Server,
    Self,        \* the node whose engine is modelled
    Config,
    Nil,
    Write,       \* the write requests
    Read,        \* the linearizable reads
    Contender,   \* bound: Contender[t] are the servers that may win term t
    MaxRounds,   \* bound: replication rounds of Self
    MaxRequests, \* bound: requests taken up
    Windows      \* "tick": a receiver may run inside a tick; "noop": the no-op append may fail

ASSUME RequestsAssumption ==
    /\ IsFiniteSet(Server) /\ Self \in Server /\ Nil \notin Server
    /\ Config = NewConfiguration(Server)
    /\ Write \cap Read = {}
    /\ DOMAIN Contender \subseteq Nat \ {0} /\ \A t \in DOMAIN Contender : Contender[t] \subseteq Server
    /\ MaxRounds \in Nat /\ MaxRequests \in Nat
    /\ Windows \subseteq {"tick", "noop"}

VARIABLES
    term,         \* every server's CurrentTerm
    role,         \* every server's Role; candidates are not told from followers
    log,          \* every server's log: entries [term, req], req the write or Nil for a no-op
    commitIndex,  \* RaftNode.CommitIndex
    lastApplied,  \* RaftNode.LastApplied
    matchIndex,   \* RaftNode.MatchIndex
    noopIndex,    \* Engine.noopIndex
    replicating,  \* Engine.replicatorsTerm, 0 when no replicator runs
    roundSeq,     \* Engine.roundSeq
    report,       \* report[p]: what p's replicator has put on ackCh or stepDownCh
    lastAck,      \* Engine.lastAck[p].startSeq
    reachable,    \* the peers p with lastAck[p].at within quorumGrace
    tick,         \* where onTick is: "idle", "follower", or "leader" with the term it read
    request,      \* what became of each request
    decided,      \* history: the longest committed log
    commits       \* history: the indices up to which leaders have committed more of it

cluster == <<term, role, log>>
boundaries == <<commitIndex, lastApplied>>
rounds == <<replicating, roundSeq, report>>
evidence == <<matchIndex, noopIndex, lastAck, reachable>>
history == <<decided, commits>>
vars == <<cluster, boundaries, rounds, evidence, tick, request, history>>

Peer == Peers(Config, Self)
Request == Write \cup Read
Terms == {0} \cup DOMAIN Contender
NoReport == [at |-> "idle"]
NoTick == [at |-> "idle", term |-> 0]
New == [at |-> "new"]
Pending(r) == r.at \in {"waiting", "applying"}

Entries == [term : Terms, req : Write \cup {Nil}]

TypeOK ==
    /\ term \in [Server -> Terms]
    /\ role \in [Server -> {"Follower", "Leader"}]
    /\ log \in [Server -> Seq(Entries)]
    /\ commitIndex \in 0 .. Len(log[Self])
    /\ lastApplied \in 0 .. commitIndex
    /\ matchIndex \in [Peer -> 0 .. Len(log[Self])]
    /\ noopIndex \in 0 .. Len(log[Self])
    /\ replicating \in Terms
    /\ roundSeq \in 0 .. MaxRounds
    /\ lastAck \in [Peer -> 0 .. MaxRounds]
    /\ reachable \subseteq Peer
    /\ \A q \in Request : request[q].at \in {"new", "waiting", "applying", "ok", "failed"}
    /\ decided \in Seq(Entries)
    /\ commits \subseteq 1 .. Len(decided)

Init ==
    /\ term = [n \in Server |-> 0]
    /\ role = [n \in Server |-> "Follower"]
    /\ log = [n \in Server |-> <<>>]
    /\ commitIndex = 0
    /\ lastApplied = 0
    /\ matchIndex = [p \in Peer |-> 0]
    /\ noopIndex = 0
    /\ replicating = 0
    /\ roundSeq = 0
    /\ report = [p \in Peer |-> NoReport]
    /\ lastAck = [p \in Peer |-> 0]
    /\ reachable = {}
    /\ tick = NoTick
    /\ request = [q \in Request |-> New]
    /\ decided = <<>>
    /\ commits = {}

Leads == role[Self] = "Leader"
Deposed == role'[Self] # "Leader"

\* What a leader has learnt is not read again before BecomeLeader and
\* resetLeadershipEvidence have replaced it: it is forgotten with the role.
Keeps ==
    IF Deposed
    THEN /\ matchIndex' = [p \in Peer |-> 0]
         /\ noopIndex' = 0
         /\ lastAck' = [p \in Peer |-> 0]
         /\ reachable' = {}
    ELSE UNCHANGED evidence

MayStart(q) ==
    /\ request[q] = New
    /\ Cardinality({r \in Request : request[r] # New}) < MaxRequests

\* A tick is one step unless "tick" is open: nothing else of the loop runs
\* inside it, and the peers' steps commute with the rest of it unless they are
\* received by Self.
Between == tick = NoTick \/ "tick" \in Windows

(***************************************************************************)
(* The cluster                                                              *)
(***************************************************************************)

UpToDate(l, m) ==
    LET lastTerm(s) == IF s = <<>> THEN 0 ELSE s[Len(s)].term
    IN  \/ lastTerm(l) > lastTerm(m)
        \/ lastTerm(l) = lastTerm(m) /\ Len(l) >= Len(m)

NoOp(t) == [term |-> t, req |-> Nil]

\* n wins term t with the votes of a quorum; who did not vote learns of the term
\* from the winner's first round.
Elected(n, t, appended) ==
    /\ n \in Contender[t]
    /\ role[n] = "Follower"
    /\ \E voters \in SUBSET Server :
          /\ n \in voters
          /\ HasQuorum(Config, voters)
          /\ \A v \in voters : term[v] < t /\ UpToDate(log[n], log[v])
          /\ term' = [x \in Server |-> IF x \in voters THEN t ELSE term[x]]
          /\ role' = [x \in Server |-> IF x = n THEN "Leader"
                                      ELSE IF x \in voters THEN "Follower" ELSE role[x]]
    /\ log' = IF appended THEN [log EXCEPT ![n] = Append(@, NoOp(t))] ELSE log

PeerElected(p, t) ==
    /\ p # Self
    /\ Elected(p, t, TRUE)
    /\ Keeps
    /\ UNCHANGED <<boundaries, rounds, tick, request, history>>

\* The receiver follows the sender; a log that already holds the sender's is kept.
Accepts(from, to) ==
    /\ role[from] = "Leader"
    /\ from # to
    /\ term[from] >= term[to]
    /\ term' = [term EXCEPT ![to] = term[from]]
    /\ role' = [role EXCEPT ![to] = "Follower"]

\* log m begins with all of log l
StartOf(l, m) == Len(l) <= Len(m) /\ SubSeq(m, 1, Len(l)) = l

Caught(from, to) == IF StartOf(log[from], log[to]) THEN log[to] ELSE log[from]

\* How far p may know its log to be committed: it has committed that much
\* itself, or has followed a leader that had.
Known(p) == UNION {0 .. i : i \in {j \in commits : StartOf(SubSeq(decided, 1, j), log[p])}}

\* A leading peer replicates, and Self takes over its commit index.
PeerReplicates(p, to) ==
    /\ p # Self
    /\ Accepts(p, to)
    /\ log' = [log EXCEPT ![to] = Caught(p, to)]
    /\ \/ commitIndex' = commitIndex
       \/ to = Self /\ commitIndex' \in Known(p) /\ commitIndex' > commitIndex
    /\ Keeps
    /\ UNCHANGED <<lastApplied, rounds, tick, request, history>>

\* A leading peer's log, which ends with an entry of its term, has reached a
\* quorum that follows it.  It is committed from then on, whenever the peer
\* finds out.
PeerCommits(p) ==
    /\ p # Self
    /\ role[p] = "Leader"
    /\ Len(log[p]) > Len(decided)
    /\ log[p][Len(log[p])].term = term[p]
    /\ HasQuorum(Config, {x \in Server : term[x] <= term[p] /\ StartOf(log[p], log[x])})
    /\ decided' = log[p]
    /\ commits' = commits \cup {Len(log[p])}
    /\ UNCHANGED <<cluster, boundaries, rounds, evidence, tick, request>>

\* Defect: the floor for reads is the index after the no-op's.
NoopIndexPastEnd(appended) == IF appended THEN Len(log[Self]) + 2 ELSE 0

NoopIndex(appended) == IF appended THEN Len(log[Self]) + 1 ELSE 0

\* Self wins.  A campaign starts in a tick, which has stopped the replicators
\* of an earlier leadership and waited for their rounds; a report of theirs may
\* be left.  becomeLeader: fresh evidence, the no-op, the replicators.
BecomeLeader(t) ==
    /\ tick = NoTick
    /\ replicating = 0
    /\ \E appended \in IF "noop" \in Windows THEN BOOLEAN ELSE {TRUE} :
          /\ Elected(Self, t, appended)
          /\ noopIndex' = NoopIndex(appended)
    /\ matchIndex' = [p \in Peer |-> 0]
    /\ lastAck' = [p \in Peer |-> 0]
    /\ reachable' = Peer
    /\ replicating' = t
    /\ UNCHANGED <<boundaries, roundSeq, report, tick, request, history>>

(***************************************************************************)
(* Rounds                                                                   *)
(***************************************************************************)

\* replicateOnce up to the peer's answer.  The round claims its number before
\* the peer looks at it.
Round(p) ==
    /\ replicating # 0
    /\ Leads
    /\ report[p] = NoReport
    /\ roundSeq < MaxRounds
    /\ roundSeq' = roundSeq + 1

\* The answer is lost or the RPC times out, or the report finds its channel full.
Unreported == UNCHANGED <<matchIndex, report>>

\* The peer follows and takes the entries or refuses them for its log's sake.
\* A reply in the round's own term is, either way, a proof of leadership.
\* UpdatePeerProgress asks neither role nor term.
RoundAccepted(p) ==
    LET acked == report' = [report EXCEPT ![p] = [at |-> "ack", startSeq |-> roundSeq + 1]]
    IN  /\ Round(p)
        /\ Accepts(Self, p)
        /\ \/ /\ log' = [log EXCEPT ![p] = Caught(Self, p)]
              /\ \/ acked /\ matchIndex' = [matchIndex EXCEPT ![p] = Max({@, Len(log[Self])})]
                 \/ Unreported
           \/ /\ UNCHANGED log
              /\ acked /\ UNCHANGED matchIndex
        /\ UNCHANGED <<boundaries, replicating, noopIndex, lastAck, reachable, tick, request, history>>

\* The peer is in a higher term and says so.
RoundRefused(p) ==
    /\ Round(p)
    /\ term[p] > term[Self]
    /\ report' = [report EXCEPT ![p] = [at |-> "higher", term |-> term[p]]]
    /\ UNCHANGED <<cluster, boundaries, replicating, evidence, tick, request, history>>

(***************************************************************************)
(* Answers                                                                  *)
(***************************************************************************)

Failed == [at |-> "failed"]
Succeeded(r) == [r EXCEPT !.at = "ok"]
WaitsFor(r, kind) == r.at = "waiting" /\ r.kind = kind

\* Defect: off by one, the entry after the commit index counts as committed.
FireCommittedNext(readTerm, r) ==
    IF ~WaitsFor(r, "write") THEN r
    ELSE IF r.term # readTerm THEN Failed
    ELSE IF r.index <= commitIndex + 1 THEN Succeeded(r) ELSE r

\* fireCommittedWaiters
FireCommitted(readTerm, r) ==
    IF ~WaitsFor(r, "write") THEN r
    ELSE IF r.term # readTerm THEN Failed
    ELSE IF r.index <= commitIndex THEN Succeeded(r) ELSE r

\* Defect: a round that was already under way when the read came in counts.
ConfirmedByAny(r, acks) == HasQuorum(Config, {Self} \cup {p \in Peer : acks[p] > 0})

\* A quorum has answered rounds started after the read was admitted.
Confirmed(r, acks) == HasQuorum(Config, {Self} \cup {p \in Peer : acks[p] > r.barrier})

\* Only a read the node serves itself waits for its state machine.
readSatisfied(applied, acks, r) ==
    /\ noopIndex <= commitIndex
    /\ r.awaitApply => applied >= r.index
    /\ Confirmed(r, acks)

\* fireReadWaiters
FireRead(applied, acks, r) ==
    IF ~WaitsFor(r, "read") THEN r
    ELSE IF ~Leads \/ term[Self] # r.term THEN Failed
    ELSE IF readSatisfied(applied, acks, r) THEN Succeeded(r) ELSE r

\* Defect: off by one, a follower answers before the read index is applied.
FireApplyEarly(applied, r) == IF r.at = "applying" /\ applied + 1 >= r.index THEN Succeeded(r) ELSE r

\* fireApplyWaiters
FireApply(applied, r) == IF r.at = "applying" /\ applied >= r.index THEN Succeeded(r) ELSE r

\* failAllWaiters, failAllReads
FailAll(kinds, r) == IF r.at = "waiting" /\ r.kind \in kinds THEN Failed ELSE r

\* Defect: waiters for local apply have no deadline.
SweepCommitsOnly(r) == IF r.at = "waiting" /\ r.late THEN Failed ELSE r

\* sweepExpiredWaiters, sweepExpiredReads, sweepExpiredApplyWaiters
Sweep(r) == IF r.at \in {"waiting", "applying"} /\ r.late THEN Failed ELSE r

(***************************************************************************)
(* The control loop: requests and reports                                   *)
(***************************************************************************)

\* A request that is refused on arrival leaves no trace and may come again.
Waiter(kind, index, barrier, awaitApply) ==
    [at |-> "waiting", kind |-> kind, index |-> index, term |-> term[Self], barrier |-> barrier,
     awaitApply |-> awaitApply, floor |-> Len(decided), late |-> FALSE]

\* The leader appends the entry and registers a waiter under its index and term.
HandleProposal(q) ==
    /\ tick = NoTick
    /\ MayStart(q)
    /\ Leads
    /\ log' = [log EXCEPT ![Self] = Append(@, [term |-> term[Self], req |-> q])]
    /\ request' = [request EXCEPT ![q] = Waiter("write", Len(log[Self]) + 1, 0, FALSE)]
    /\ UNCHANGED <<term, role, boundaries, rounds, evidence, tick, history>>

\* handleRead pins the read index and the barrier.  The read is the node's own,
\* or a follower's that came with the ReadIndex RPC and does its own applying.
\* All reads are then looked at, for the sake of a node that is its own quorum.
HandleRead(q) ==
    /\ tick = NoTick
    /\ MayStart(q)
    /\ Leads
    /\ \E awaitApply \in BOOLEAN :
          LET admitted == [request EXCEPT ![q] =
                              Waiter("read", Max({commitIndex, noopIndex}), roundSeq, awaitApply)]
          IN  request' = [r \in Request |-> FireRead(lastApplied, lastAck, admitted[r])]
    /\ UNCHANGED <<cluster, boundaries, rounds, evidence, tick, history>>

\* followerRead: the leader, another node, has confirmed itself after the read
\* came in and returns its index.  awaitApplied and handleApplyWait: it is
\* applied already, or waited for.
FollowerRead(q) ==
    LET index == Len(decided)
    IN  /\ tick = NoTick
        /\ MayStart(q)
        /\ ~Leads
        /\ \E p \in Peer :
              /\ role[p] = "Leader"
              /\ HasQuorum(Config, {x \in Server : term[x] <= term[p]})
              /\ index > 0 /\ decided[index].term = term[p]
        /\ request' = [request EXCEPT ![q] =
                          [at |-> IF lastApplied >= index THEN "ok" ELSE "applying", kind |-> "read",
                           index |-> index, awaitApply |-> TRUE, floor |-> index, late |-> FALSE]]
        /\ UNCHANGED <<cluster, boundaries, rounds, evidence, tick, history>>

\* handleAck: the newest round of the peer, a sign of life, and perhaps a read.
\* The report may be from an earlier leadership of the node.
HandleAck(p) ==
    /\ tick = NoTick
    /\ report[p].at = "ack"
    /\ report' = [report EXCEPT ![p] = NoReport]
    /\ IF Leads
       THEN /\ lastAck' = [lastAck EXCEPT ![p] = Max({@, report[p].startSeq})]
            /\ reachable' = reachable \cup {p}
       ELSE UNCHANGED <<lastAck, reachable>>
    /\ request' = [q \in Request |-> FireRead(lastApplied, lastAck', request[q])]
    /\ UNCHANGED <<cluster, boundaries, replicating, roundSeq, matchIndex, noopIndex, tick, history>>

\* handleStepDown; a report that is no longer higher is dropped.
HandleStepDown(p) ==
    /\ tick = NoTick
    /\ report[p].at = "higher"
    /\ report' = [report EXCEPT ![p] = NoReport]
    /\ IF report[p].term > term[Self]
       THEN /\ term' = [term EXCEPT ![Self] = report[p].term]
            /\ role' = [role EXCEPT ![Self] = "Follower"]
            /\ replicating' = 0
            /\ request' = [q \in Request |-> FailAll({"write", "read"}, request[q])]
       ELSE UNCHANGED <<term, role, replicating, request>>
    /\ Keeps
    /\ UNCHANGED <<log, boundaries, roundSeq, tick, history>>

(***************************************************************************)
(* The tick                                                                 *)
(***************************************************************************)

\* AdvanceCommitIndex(LatestIndex, TermAt, term)
Frontier ==
    LET held == [n \in Server |-> IF n = Self THEN Len(log[Self]) ELSE matchIndex[n]]
        quorumIndex == QuorumIndex(Config, held)
    IN  IF quorumIndex > commitIndex /\ log[Self][quorumIndex].term = term[Self]
        THEN quorumIndex ELSE commitIndex

\* reconcileLeadership tears down what a lost leadership left behind ...
TickFollower ==
    /\ tick = NoTick
    /\ ~Leads
    /\ tick' = [at |-> "follower", term |-> 0]
    /\ replicating' = 0
    /\ request' = [q \in Request |->
                      FailAll(IF replicating # 0 THEN {"write", "read"} ELSE {"read"}, request[q])]
    /\ UNCHANGED <<cluster, boundaries, roundSeq, report, evidence, history>>

\* ... and a leader moves its commit index in the term it has read.
TickLeader ==
    /\ tick = NoTick
    /\ Leads
    /\ tick' = [at |-> "leader", term |-> term[Self]]
    /\ replicating' = term[Self]
    /\ commitIndex' = Frontier
    /\ IF Frontier > Len(decided)
       THEN decided' = SubSeq(log[Self], 1, Frontier) /\ commits' = commits \cup {Frontier}
       ELSE UNCHANGED history
    /\ UNCHANGED <<cluster, lastApplied, roundSeq, report, evidence, request>>

\* Defect: a leader never asks whether anyone still answers.
LosesQuorumNever == FALSE

\* checkQuorum
LosesQuorum ==
    /\ Leads
    /\ Peer # {}
    /\ ~HasQuorum(Config, {Self} \cup reachable)

\* The rest of onTick: waiters are answered with the commit index of this
\* moment and the term read before, everything committed is applied, reads and
\* apply waiters are released, a leader nobody answers yields its own term, and
\* what is past its deadline fails.
TickRest ==
    LET fired(r) == IF tick.at = "leader" THEN FireCommitted(tick.term, r) ELSE r
        released(r) == FireApply(commitIndex, FireRead(commitIndex, lastAck, r))
        yielded(r) == IF LosesQuorum THEN FailAll({"write", "read"}, r) ELSE r
    IN  /\ tick # NoTick
        /\ tick' = NoTick
        /\ lastApplied' = commitIndex
        /\ request' = [q \in Request |-> Sweep(yielded(released(fired(request[q]))))]
        /\ IF LosesQuorum
           THEN role' = [role EXCEPT ![Self] = "Follower"] /\ replicating' = 0
           ELSE UNCHANGED <<role, replicating>>
        /\ Keeps
        /\ UNCHANGED <<term, log, commitIndex, roundSeq, report, history>>

(***************************************************************************)
(* Time                                                                     *)
(***************************************************************************)

\* proposalTimeout or readTimeout runs out.
DeadlinePasses(q) ==
    /\ Pending(request[q])
    /\ ~request[q].late
    /\ request' = [request EXCEPT ![q].late = TRUE]
    /\ UNCHANGED <<cluster, boundaries, rounds, evidence, tick, history>>

\* quorumGrace goes by without an answer from p.
PeerFallsSilent(p) ==
    /\ p \in reachable
    /\ reachable' = reachable \ {p}
    /\ UNCHANGED <<cluster, boundaries, rounds, matchIndex, noopIndex, lastAck, tick, request,
                   history>>

Tick == TickFollower \/ TickLeader \/ TickRest

TimePasses ==
    \/ \E q \in Request : DeadlinePasses(q)
    \/ \E p \in Peer : PeerFallsSilent(p)

Cluster ==
    \/ \E p \in Peer : PeerCommits(p)
    \/ \E p \in Peer, t \in DOMAIN Contender : PeerElected(p, t)
    \/ \E p \in Peer, to \in Server : PeerReplicates(p, to)

Replicator(p) == RoundAccepted(p) \/ RoundRefused(p)

Loop ==
    \/ \E t \in DOMAIN Contender : BecomeLeader(t)
    \/ \E q \in Write : HandleProposal(q)
    \/ \E q \in Read : HandleRead(q) \/ FollowerRead(q)
    \/ \E p \in Peer : HandleAck(p) \/ HandleStepDown(p)

Next ==
    \/ Between /\ Cluster
    \/ Between /\ \E p \in Peer : Replicator(p)
    \/ Loop
    \/ Tick
    \/ TimePasses

\* The ticker of the control loop fires again and again, and time passes.
\* Nothing is asked of the network or of the peers.
Fairness == []<><<Tick>>_vars /\ WF_vars(TimePasses)

Spec == Init /\ [][Next]_vars /\ Fairness

(***************************************************************************)
(* Properties                                                               *)
(***************************************************************************)

\* A client is told its write succeeded only if that very write, not another
\* leader's entry at its index, is in the committed log ("Acknowledging it
\* would be a false positive", fireCommittedWaiters).
AckedIsDecided ==
    \A q \in Write : request[q].at = "ok" =>
        /\ request[q].index <= Len(decided)
        /\ decided[request[q].index].req = q

\* A read is released only at an index that covers everything that was
\* committed anywhere in the cluster when the read was admitted, although the
\* node that admits it may have been deposed without knowing ("Linearizable
\* reads reflect everything committed at the moment the read was admitted").
LinearizableRead ==
    \A q \in Read : request[q].at = "ok" => request[q].index >= request[q].floor

\* A read this node answers from its own state machine sees the committed log
\* up to the read index, whether the node leads or follows.
ReadIsApplied ==
    \A q \in Read : request[q].at = "ok" /\ request[q].awaitApply =>
        /\ lastApplied >= request[q].index
        /\ SubSeq(log[Self], 1, request[q].index) = SubSeq(decided, 1, request[q].index)

\* Every waiter is resolved, whatever happens to the network, the leadership
\* and the entry (sweepExpired..., reconcileLeadership, failAll...).
EveryRequestAnswered ==
    \A q \in Request : Pending(request[q]) ~> ~Pending(request[q])

\* A leader the cluster has left behind stops leading by itself, with no
\* message reaching it ("Left alone, a deposed leader keeps that claim
\* indefinitely", checkQuorum).
DeposedLeaderYields ==
    (Leads /\ HasQuorum(Config, {p \in Peer : term[p] > term[Self]})) ~> ~Leads
=============================================================================
