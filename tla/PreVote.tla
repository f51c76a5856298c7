------------------------------ MODULE PreVote ------------------------------
(***************************************************************************)
(* When a node campaigns: the straw poll that precedes every election       *)
(* (startPreVote, handlePreVoteResult and runElection of                    *)
(* internal/engine/engine.go, HandlePreVote of internal/raft/node.go).      *)
(*                                                                          *)
(* The tally and the campaign it triggers are two critical sections of one  *)
(* handler: `carried' is the time between them, in which receivers on other *)
(* goroutines may run and the control loop may not.  Of the elections       *)
(* themselves only terms and roles are kept; who gets which vote, and       *)
(* metadata writes that fail half-way, are in Election.                     *)
(***************************************************************************)
EXTENDS Configuration

CONSTANTS
    Server,
    Config,
    MaxTerm,    \* bound: no node campaigns past this term
    MaxFaults,  \* bound: restarts and failed writes of one behaviour
    MaxPolls,   \* bound: pre-vote requests, repetitions of one not counted
    Impatient   \* bound: the servers whose election timer may fire

ASSUME PreVoteAssumption ==
    /\ IsFiniteSet(Server)
    /\ Config \in Configurations(Server) /\ Members(Config) = Server
    /\ MaxTerm \in Nat /\ MaxFaults \in Nat /\ MaxPolls \in Nat
    /\ Impatient \subseteq Server

VARIABLES
    term,         \* CurrentTerm, in memory and on disk
    Role,         \* RaftNode.Role
    leaderLive,   \* LeaderID # 0 and lastContact is within the minimum election timeout
    preVoteTerm,  \* Engine.preVoteTerm: the term being polled for, 0 if none
    preVotes,     \* Engine.preVotes: who would vote for us
    carried,      \* the poll that runElection is about to follow, 0 if none
    polls,        \* <<candidate, term>> of every pre-vote request sent
    grants,       \* <<voter, candidate, poll>> of every granting reply
    refusals,     \* <<candidate, poll, term>> of every reply from a term past the poll
    campaigns,    \* history: <<server, term>> of every campaign
    faults        \* how many faults have happened

node == <<term, Role, leaderLive>>
poll == <<preVoteTerm, preVotes, carried>>
replies == <<polls, grants, refusals>>
vars == <<node, poll, replies, campaigns, faults>>

Terms == 0..MaxTerm

TypeOK ==
    /\ term \in [Server -> Terms]
    /\ Role \in [Server -> {"Follower", "Candidate", "Leader"}]
    /\ leaderLive \in [Server -> BOOLEAN]
    /\ preVoteTerm \in [Server -> Terms]
    /\ preVotes \in [Server -> SUBSET Server]
    /\ carried \in [Server -> Terms]
    /\ \A n \in Server : carried[n] # 0 => preVoteTerm[n] = 0
    /\ polls \subseteq Server \X Terms
    /\ grants \subseteq Server \X Server \X Terms
    /\ refusals \subseteq Server \X Terms \X Terms
    /\ campaigns \subseteq Server \X Terms
    /\ faults \in 0..MaxFaults

Init ==
    /\ term = [n \in Server |-> 0]
    /\ Role = [n \in Server |-> "Follower"]
    /\ leaderLive = [n \in Server |-> FALSE]
    /\ preVoteTerm = [n \in Server |-> 0]
    /\ preVotes = [n \in Server |-> {}]
    /\ carried = [n \in Server |-> 0]
    /\ polls = {}
    /\ grants = {}
    /\ refusals = {}
    /\ campaigns = {}
    /\ faults = 0

Fault == faults < MaxFaults /\ faults' = faults + 1

\* The control loop is not between a carried poll and its campaign.
LoopFree(n) == carried[n] = 0

(***************************************************************************)
(* The poll                                                                 *)
(***************************************************************************)

\* onTick: a whole election timeout has passed since the last contact.
TimedOut(n) ==
    /\ LoopFree(n)
    /\ n \in Impatient
    /\ Role[n] # "Leader"
    /\ ~leaderLive[n]
    /\ term[n] < MaxTerm

\* The poll is for the next term.  Term and vote are left alone.
StartPreVote(n) ==
    /\ TimedOut(n)
    /\ Peers(Config, n) # {}
    /\ preVoteTerm' = [preVoteTerm EXCEPT ![n] = term[n] + 1]
    /\ preVotes' = [preVotes EXCEPT ![n] = {n}]
    /\ polls' = polls \cup {<<n, term[n] + 1>>}
    /\ Cardinality(polls') <= MaxPolls
    /\ UNCHANGED <<node, carried, grants, refusals, campaigns, faults>>

\* A peer without a live leader, in an earlier term and with a log no better
\* than the candidate's (which it may or may not be), would vote for it.
HandlePreVote(v, n, p) ==
    /\ v # n
    /\ <<n, p>> \in polls
    /\ ~leaderLive[v]
    /\ p > term[v]
    /\ grants' = grants \cup {<<v, n, p>>}
    /\ UNCHANGED <<node, poll, polls, refusals, campaigns, faults>>

\* A refusal names the peer's term.  One that is not past the poll's tells the
\* candidate nothing and is not kept.
RefusePreVote(v, n, p) ==
    /\ v # n
    /\ <<n, p>> \in polls
    /\ term[v] >= p
    /\ refusals' = refusals \cup {<<n, p, term[v]>>}
    /\ UNCHANGED <<node, poll, polls, grants, campaigns, faults>>

\* Defect: a reply to any poll is counted with those of the present one.
ConcernsAnyPoll(n, p) ==
    /\ LoopFree(n)
    /\ preVoteTerm[n] # 0
    /\ Role[n] # "Leader"
    /\ term[n] < preVoteTerm[n]

\* A reply to the poll that is still open, of a node it can still concern.
Concerns(n, p) ==
    /\ LoopFree(n)
    /\ p = preVoteTerm[n]
    /\ Role[n] # "Leader"
    /\ term[n] < p

\* Defect: the poll stays open when it ends.
NotClosed(n) == preVoteTerm

Closed(n) == [preVoteTerm EXCEPT ![n] = 0]

\* handlePreVoteResult, a grant: the one that completes a quorum ends the poll.
HandlePreVoteResult(n, g) ==
    LET votes == preVotes[n] \cup {g[1]}
    IN  /\ g[2] = n
        /\ Concerns(n, g[3])
        /\ preVotes' = [preVotes EXCEPT ![n] = votes]
        /\ IF HasQuorum(Config, votes)
           THEN /\ preVoteTerm' = Closed(n)
                /\ carried' = [carried EXCEPT ![n] = preVoteTerm[n]]
           ELSE UNCHANGED <<preVoteTerm, carried>>
        /\ UNCHANGED <<node, replies, campaigns, faults>>

\* handlePreVoteResult, a peer in a later term: the node follows, if it can
\* save that term, and the poll ends either way.
HandlePreVoteRefusal(n, r) ==
    /\ r[1] = n
    /\ Concerns(n, r[2])
    /\ preVoteTerm' = Closed(n)
    /\ \/ /\ term' = [term EXCEPT ![n] = r[3]]
          /\ Role' = [Role EXCEPT ![n] = "Follower"]
          /\ leaderLive' = [leaderLive EXCEPT ![n] = FALSE]
          /\ UNCHANGED faults
       \/ UNCHANGED node /\ Fault
    /\ UNCHANGED <<preVotes, carried, replies, campaigns>>

\* runElection: the term after the one the node is in by now is saved, and
\* spent on itself.
RunElection(n) ==
    /\ term[n] < MaxTerm
    /\ term' = [term EXCEPT ![n] = @ + 1]
    /\ Role' = [Role EXCEPT ![n] = "Candidate"]
    /\ leaderLive' = [leaderLive EXCEPT ![n] = FALSE]
    /\ campaigns' = campaigns \cup {<<n, term[n] + 1>>}
    /\ UNCHANGED faults

\* The save fails and the campaign is called off.
ElectionAborts == UNCHANGED <<node, campaigns>> /\ Fault

\* A carried poll is followed by the election.  Alone in the cluster there is
\* nobody to poll.
Campaign(n) ==
    /\ IF Peers(Config, n) = {}
       THEN TimedOut(n) /\ UNCHANGED carried
       ELSE carried[n] # 0 /\ carried' = [carried EXCEPT ![n] = 0]
    /\ RunElection(n) \/ ElectionAborts
    /\ UNCHANGED <<preVoteTerm, preVotes, replies>>

(***************************************************************************)
(* What happens to the node meanwhile                                       *)
(***************************************************************************)

\* A receiver learns of another node's campaign from a RequestVote, which a
\* node with a live leader refuses ...
HearCampaign(n, c) ==
    /\ c[1] # n
    /\ c[2] > term[n]
    /\ ~leaderLive[n]
    /\ term' = [term EXCEPT ![n] = c[2]]
    /\ Role' = [Role EXCEPT ![n] = "Follower"]
    /\ UNCHANGED <<leaderLive, poll, replies, campaigns, faults>>

\* ... or follows the campaign's winner, whose AppendEntries counts as contact.
HearLeader(n, c) ==
    /\ c[1] # n
    /\ c[2] >= term[n]
    /\ term' = [term EXCEPT ![n] = c[2]]
    /\ Role' = [Role EXCEPT ![n] = "Follower"]
    /\ leaderLive' = [leaderLive EXCEPT ![n] = TRUE]
    /\ UNCHANGED <<poll, replies, campaigns, faults>>

\* The candidate wins, which its loop finds out.
BecomeLeader(n) ==
    /\ LoopFree(n)
    /\ Role[n] = "Candidate"
    /\ Role' = [Role EXCEPT ![n] = "Leader"]
    /\ leaderLive' = [leaderLive EXCEPT ![n] = TRUE]
    /\ UNCHANGED <<term, poll, replies, campaigns, faults>>

\* A minimum election timeout without contact; a leader also loses its quorum.
ContactLapses(n) ==
    /\ leaderLive[n]
    /\ Role[n] = "Leader" => LoopFree(n)
    /\ Role' = [Role EXCEPT ![n] = IF @ = "Leader" THEN "Follower" ELSE @]
    /\ leaderLive' = [leaderLive EXCEPT ![n] = FALSE]
    /\ UNCHANGED <<term, poll, replies, campaigns, faults>>

\* The poll is memory only.
Restart(n) ==
    /\ Fault
    /\ Role' = [Role EXCEPT ![n] = "Follower"]
    /\ leaderLive' = [leaderLive EXCEPT ![n] = FALSE]
    /\ preVoteTerm' = Closed(n)
    /\ preVotes' = [preVotes EXCEPT ![n] = {}]
    /\ carried' = [carried EXCEPT ![n] = 0]
    /\ UNCHANGED <<term, replies, campaigns>>

Poll(n) ==
    \/ StartPreVote(n)
    \/ \E c \in polls : HandlePreVote(n, c[1], c[2]) \/ RefusePreVote(n, c[1], c[2])
    \/ \E g \in grants : HandlePreVoteResult(n, g)
    \/ \E r \in refusals : HandlePreVoteRefusal(n, r)
    \/ Campaign(n)

Elsewhere(n) ==
    \/ \E c \in campaigns : HearCampaign(n, c) \/ HearLeader(n, c)
    \/ BecomeLeader(n)
    \/ ContactLapses(n)
    \/ Restart(n)

Next == \E n \in Server : Poll(n) \/ Elsewhere(n)

Spec == Init /\ [][Next]_vars

(***************************************************************************)
(* Properties                                                               *)
(***************************************************************************)

Campaigned(n) == {c[2] : c \in {d \in campaigns : d[1] = n}}

\* Every term a node campaigns in was preceded by a poll of its own, for that
\* term or an earlier one but after the node's previous campaign, that a quorum
\* granted ("the term only moves when a majority says a campaign could
\* succeed", startPreVote).  Late replies to an abandoned poll for the same
\* term are counted with those of its successor, and a receiver may move the
\* term on between the tally and the campaign.
PolledCampaign ==
    \A c \in campaigns :
        \/ Peers(Config, c[1]) = {}
        \/ \E p \in 1..c[2] :
              /\ \A t \in Campaigned(c[1]) : t < c[2] => t < p
              /\ HasQuorum(Config, {c[1]} \cup {v \in Server : <<v, c[1], p>> \in grants})
=============================================================================
