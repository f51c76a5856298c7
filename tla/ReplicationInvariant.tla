------------------------ MODULE ReplicationInvariant ------------------------
(***************************************************************************)
(* The invariant behind the safety of Replication when no handler is        *)
(* interrupted between its critical sections (Windows = {}).                *)
(***************************************************************************)
EXTENDS Replication

(***************************************************************************)
(* The state                                                                *)
(*                                                                          *)
(* The invariant is stated of a record of the variables.  A step that does  *)
(* several things (follow a new term, splice, commit, answer) can then be   *)
(* taken apart, with the states in between; every lemma is of constants.    *)
(***************************************************************************)

State(term, vote, part, votes, ends, cache, commit, next, match, rounds, sent, decided) ==
    [term |-> term, vote |-> vote, role |-> part, votes |-> votes, ends |-> ends,
     cache |-> cache, commit |-> commit, next |-> next, match |-> match, round |-> rounds,
     sent |-> sent, chosen |-> decided]

Now ==
    State(currentTerm, votedFor, role, votesFrom, campaign, [n \in Server |-> log[n].cache],
          commitIndex, nextIndex, matchIndex, round, late, chosen)

(***************************************************************************)
(* Chains                                                                   *)
(*                                                                          *)
(* A log, or the part of one that a request carries: some consecutive       *)
(* entries, by index.  Of the entry before its batch a request has only the *)
(* index and the term, which is all of it.                                  *)
(***************************************************************************)

End(m) == m.prevLogIndex + Len(m.entries)
Chain(m) ==
    [i \in (IF m.prevLogIndex = 0 THEN 1 ELSE m.prevLogIndex) .. End(m) |->
        IF i = m.prevLogIndex THEN [Index |-> i, Term |-> m.prevLogTerm]
        ELSE m.entries[i - m.prevLogIndex]]

\* Every chain there is.
Chains(s) == {s.cache[n] : n \in Server} \cup {Chain(m) : m \in s.sent}

\* Entries are where they say they are, none is left out, and terms rise.
IsChain(x) ==
    /\ \A i \in DOMAIN x : i \in Nat /\ i > 0 /\ x[i] \in Entries /\ x[i].Index = i
    /\ \A i, j \in DOMAIN x : \A k \in i .. j : k \in DOMAIN x
    /\ \A i, j \in DOMAIN x : i <= j => x[i].Term <= x[j].Term

\* Two chains with an entry in common have everything before it in common.
Match(x, y) ==
    \A i, j \in DOMAIN x \cap DOMAIN y : j <= i /\ x[i] = y[i] => x[j] = y[j]

\* y has all of x.
Has(y, x) == \A i \in DOMAIN x : i \in DOMAIN y /\ y[i] = x[i]

\* A log that was never compacted.
LogOf(cache, next) ==
    [cache |-> cache, nextIndex |-> next, firstIndex |-> 1,
     lastIncludedIndex |-> 0, lastIncludedTerm |-> 0]

LogShape(l) == l = LogOf(l.cache, Len(l.cache) + 1) /\ l.cache \in Seq(Entries)

Requests ==
    [to : Server, term : 1 .. MaxTerm, leaderCommit : Indices, prevLogIndex : Indices,
     prevLogTerm : Terms, entries : Seq(Entries)]

MessageShape(m) ==
    /\ m \in Requests
    /\ m.prevLogIndex = 0 <=> m.prevLogTerm = 0
    /\ End(m) <= MaxIndex

(***************************************************************************)
(* Votes and terms                                                          *)
(***************************************************************************)

Leads(s, n) == s.role[n] = "Leader"
Runs(s, n) == s.role[n] = "Candidate"

Replies ==
    {r \in [asked : Terms, term : Terms, success : BOOLEAN, index : Nat] :
        r.term >= r.asked /\ (r.success => r.index \in Indices)}

Types(s) ==
    /\ s.term \in [Server -> Terms]
    /\ s.vote \in [Server -> Server \cup {Nil}]
    /\ s.role \in [Server -> {"Follower", "Candidate", "Leader"}]
    /\ s.votes \in [Server -> SUBSET Server]
    /\ s.ends \in [Server -> [term : Terms, lastLogIndex : Nat, lastLogTerm : Nat]]
    /\ s.cache \in [Server -> Seq(Entries)]
    /\ s.commit \in [Server -> Indices]
    /\ s.next \in [Server -> [Server -> 1 .. MaxIndex + 1]]
    /\ s.match \in [Server -> [Server -> Indices]]
    /\ s.round \in [Server -> [Server -> {Idle} \cup [at : {"answered"}, reply : Replies]]]
    /\ s.chosen \in Seq(Entries)

EndTerm(c) == IF c = <<>> THEN 0 ELSE c[Len(c)].Term

\* A vote is cast for one candidate of a term; a candidate's log is the one it
\* has campaigned with, and it has no round under way.
VotesInv(s) ==
    /\ \A n \in Server : s.ends[n].term <= s.term[n]
    /\ \A n \in Server : s.vote[n] # Nil => s.term[s.vote[n]] >= s.term[n]
    /\ \A n \in Server : s.role[n] # "Follower" =>
          /\ s.ends[n].term = s.term[n] /\ s.term[n] > 0
          /\ \A v \in s.votes[n] :
                s.term[v] > s.term[n] \/ (s.term[v] = s.term[n] /\ s.vote[v] = n)
    /\ \A n, c \in Server :
          n # c /\ s.role[n] # "Follower" /\ s.role[c] # "Follower" /\ s.term[n] = s.term[c]
              => s.votes[n] \cap s.votes[c] = {}
    /\ \A n \in Server : Leads(s, n) => HasQuorum(Config, s.votes[n])
    /\ \A n \in Server : Runs(s, n) =>
          /\ s.ends[n].lastLogIndex = Len(s.cache[n])
          /\ s.ends[n].lastLogTerm = EndTerm(s.cache[n])
          /\ \A p \in Server : s.round[n][p] = Idle

\* v will never help anyone to win term k.
Lost(s, v, k) ==
    /\ s.term[v] >= k
    /\ s.term[v] = k => s.vote[v] # Nil /\ ~(Runs(s, s.vote[v]) /\ s.term[s.vote[v]] = k)
    /\ \A c \in Server : Runs(s, c) /\ s.term[c] = k => v \notin s.votes[c]

\* Nobody wins term k any more.
Closed(s, k) == \E Q \in SUBSET Server : HasQuorum(Config, Q) /\ \A v \in Q : Lost(s, v, k)

ClosedInv(s) ==
    /\ \A n \in Server : Leads(s, n) => Closed(s, s.term[n])
    /\ \A x \in Chains(s) : \A i \in DOMAIN x : Closed(s, x[i].Term)
    /\ \A m \in s.sent : Closed(s, m.term)

(***************************************************************************)
(* Logs and requests                                                        *)
(***************************************************************************)

ChainsInv(s) ==
    /\ \A m \in s.sent : MessageShape(m) /\ \A i \in DOMAIN Chain(m) : Chain(m)[i].Term <= m.term
    /\ \A n \in Server : \A i \in DOMAIN s.cache[n] : s.cache[n][i].Term <= s.term[n]
    /\ \A x \in Chains(s) : IsChain(x)
    /\ \A x, y \in Chains(s) : Match(x, y)

\* n has every entry of its term and all that was sent in it.
Rules(s, n) ==
    /\ \A x \in Chains(s) : \A i \in DOMAIN x :
          x[i].Term = s.term[n] => i \in DOMAIN s.cache[n] /\ s.cache[n][i] = x[i]
    /\ \A m \in s.sent : m.term = s.term[n] => Has(s.cache[n], Chain(m))

LeadersInv(s) == \A n \in Server : Leads(s, n) => Rules(s, n)

(***************************************************************************)
(* What is committed or may yet be.                                         *)
(***************************************************************************)

TermOf(a) == a[Len(a)].Term

\* Entry e is at least as recent as the end of a, in the order of elections.
Above(e, a) == candidateUpToDate(e.Term, e.Index, TermOf(a), Len(a))

\* As far as x goes it could be part of a log that has a.
Fits(x, a) ==
    \A i \in DOMAIN x : /\ i <= Len(a) => x[i] = a[i]
                        /\ i >= Len(a) => x[i].Term >= TermOf(a)

Carries(x, a) == \A i \in DOMAIN x : Above(x[i], a) => i >= Len(a) /\ Fits(x, a)

\* The servers in A have a, and so has whoever leads or wins with a vote of
\* theirs from its term on, and whatever such leaders have written.
Kept(s, a, A) ==
    /\ \A v \in A : Has(s.cache[v], a)
    /\ \A x \in Chains(s) : Carries(x, a)
    /\ \A m \in s.sent : m.term >= TermOf(a) => Fits(Chain(m), a)
    /\ \A c \in Server : Leads(s, c) /\ s.term[c] >= TermOf(a) => Has(s.cache[c], a)
    /\ \A c \in Server : \A v \in s.votes[c] :
          Runs(s, c) /\ s.term[c] > TermOf(a) /\ v \in A => Has(s.cache[c], a)

\* A quorum without A has gone on to a later term.
Passed(s, A, k) ==
    \E Q \in SUBSET Server :
        HasQuorum(Config, Q) /\ \A v \in Q : v \notin A /\ s.term[v] > k

\* The servers in A have confirmed a; it is safe unless it can no longer be
\* committed in its term.
Anchored(s, a, A) ==
    /\ a \in Seq(Entries) /\ Len(a) > 0 /\ A # {} /\ A \subseteq Server
    /\ Closed(s, TermOf(a))
    /\ \A v \in A : s.term[v] >= TermOf(a)
    /\ Passed(s, A, TermOf(a)) \/ Kept(s, a, A)

\* Who has confirmed entry i to leader n.
Acked(s, n, i) ==
    {p \in Server :
        \/ p = n
        \/ s.match[n][p] >= i
        \/ /\ s.round[n][p].at = "answered"
           /\ s.round[n][p].reply.success /\ s.round[n][p].reply.index >= i}

AnchorsInv(s) ==
    \A n \in Server : Leads(s, n) =>
        \A i \in DOMAIN s.cache[n] : s.cache[n][i].Term = s.term[n] =>
            Anchored(s, SubSeq(s.cache[n], 1, i), Acked(s, n, i))

Decided(s, a) == \E A \in SUBSET Server : HasQuorum(Config, A) /\ Anchored(s, a, A)

\* c was committed by term k.
Final(s, c, k) ==
    c > 0 => \E i \in c .. Len(s.chosen) :
                Decided(s, SubSeq(s.chosen, 1, i)) /\ s.chosen[i].Term <= k

CommitInv(s) ==
    /\ s.chosen # <<>> => Decided(s, s.chosen)
    /\ \A n \in Server :
          /\ Final(s, s.commit[n], s.term[n])
          /\ Has(s.cache[n], SubSeq(s.chosen, 1, s.commit[n]))
    /\ \A m \in s.sent : Final(s, m.leaderCommit, m.term)

\* What a leader knows of a peer in its term.
Confirmed(s, n, p, i) ==
    /\ i <= Len(s.cache[n])
    /\ i > 0 => s.term[p] >= s.term[n]
    /\ s.term[p] = s.term[n] => Has(s.cache[p], SubSeq(s.cache[n], 1, i))

\* What the answer to a round under way says.
Truthful(s, n, p, reply) ==
    /\ reply.asked = s.term[n]
    /\ reply.success =>
          /\ Confirmed(s, n, p, reply.index)
          /\ reply.index + 1 >= s.next[n][p] /\ reply.term = reply.asked
    /\ ~reply.success /\ reply.term = reply.asked => s.match[n][p] = 0

ProgressInv(s) ==
    \A n, p \in Server : Leads(s, n) =>
        /\ Confirmed(s, n, p, s.match[n][p])
        /\ s.next[n][p] <= Len(s.cache[n]) + 1
        /\ s.match[n][p] > 0 => s.next[n][p] = s.match[n][p] + 1
        /\ s.round[n][p] # Idle => Truthful(s, n, p, s.round[n][p].reply)

(***************************************************************************)
(* What the argument takes from the configuration and from arithmetic.      *)
(* Nothing here is of the state: ConfigurationProofs has it.                *)
(***************************************************************************)

QuorumsMeet ==
    \A P, Q : HasQuorum(Config, P) /\ HasQuorum(Config, Q) => \E x \in P : x \in Q
QuorumsGrow ==
    \A P, Q : P \subseteq Q /\ HasQuorum(Config, P) => HasQuorum(Config, Q)
QuorumIndexHeld ==
    \A match \in [Server -> Nat] :
        /\ QuorumIndex(Config, match) \in Nat
        /\ HasQuorum(Config, {m \in Server : match[m] >= QuorumIndex(Config, match)})
LeastMembers ==
    \A S : S \subseteq Nat /\ S # {} => \E x \in S : \A y \in S : x <= y
OneMore ==
    /\ IsFiniteSet({}) /\ Cardinality({}) = 0
    /\ \A S, x : IsFiniteSet(S) =>
          /\ Cardinality(S) \in Nat /\ IsFiniteSet(S \cup {x})
          /\ Cardinality(S \cup {x}) <= Cardinality(S) + 1

Laws == QuorumsMeet /\ QuorumsGrow /\ QuorumIndexHeld /\ LeastMembers /\ OneMore

SafeInv(s) ==
    /\ Laws
    /\ Types(s) /\ VotesInv(s) /\ ClosedInv(s) /\ ChainsInv(s) /\ LeadersInv(s)
    /\ AnchorsInv(s) /\ CommitInv(s) /\ ProgressInv(s)

IndInv ==
    /\ DOMAIN log = Server /\ \A n \in Server : LogShape(log[n])
    /\ pending = [n \in Server |-> 0]
    /\ IsFiniteSet(late) /\ Cardinality(late) <= MaxLate
    /\ faults \in 0 .. MaxFaults
    /\ SafeInv(Now)
=============================================================================
