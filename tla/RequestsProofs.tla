--------------------------- MODULE RequestsProofs ---------------------------
(***************************************************************************)
(* What a node tells its clients is right, for every number of servers,     *)
(* terms, rounds and requests, as long as no receiver runs inside a tick    *)
(* and the no-op of a new leader is appended (Windows = {}).                *)
(*                                                                          *)
(* The argument follows the history of the cluster.  An election raises a   *)
(* quorum to a term no server has reached (TermsInv), so leaders come one   *)
(* after the other, and each log is a stretch of some leader's (LogsInv).   *)
(* What is decided is held by a quorum, and every later leader, its voters  *)
(* being up to date only with logs that hold it, has it (DecidedInv).  What *)
(* Self counts towards a commit is held by whoever leads after it unless it *)
(* can no longer be counted by a quorum (EvidenceInv).  The waiters follow  *)
(* from these (WaitersInv).                                                 *)
(***************************************************************************)
EXTENDS Requests, TLAPS

\* Leaves are proved by Zenon unless they name another prover.
USE Zenon

(***************************************************************************)
(* The inductive invariant                                                  *)
(***************************************************************************)

\* The first k entries of two logs are the same.
Agree(l, m, k) == k <= Len(l) /\ k <= Len(m) /\ \A i \in 1 .. k : l[i] = m[i]

LeaderOf(n) == role[n] = "Leader"

\* Who has reached a term.
Reached(t) == {x \in Server : term[x] >= t}

\* A term is reached by a quorum first, and led by one server.
TermsInv ==
    /\ \A n \in Server : HasQuorum(Config, Reached(term[n]))
    /\ \A n, p \in Server : LeaderOf(n) /\ LeaderOf(p) /\ term[n] = term[p] => n = p

\* What the replicators have reported and the loop has not read.
ReportsInv ==
    \A p \in Peer :
        \/ report[p] = NoReport
        \/ report[p] \in [at : {"ack"}, startSeq : 1 .. roundSeq]
        \/ report[p] \in [at : {"higher"}, term : Terms] /\ HasQuorum(Config, Reached(report[p].term))

\* The terms of a log rise to its owner's; two logs with entries of one term
\* agree up to the first of these, and the term's leader has them all.
LogsInv ==
    /\ \A n \in Server : \A i \in DOMAIN log[n] : log[n][i].term <= term[n]
    /\ \A n \in Server : \A i, j \in DOMAIN log[n] : i <= j => log[n][i].term <= log[n][j].term
    /\ \A n, p \in Server : \A i \in DOMAIN log[n], j \in DOMAIN log[p] :
          i <= j /\ log[n][i].term = log[p][j].term => Agree(log[n], log[p], i)
    /\ \A n, p \in Server : \A i \in DOMAIN log[n] :
          LeaderOf(p) /\ log[n][i].term = term[p] => Agree(log[n], log[p], i)

\* n has an entry that a leader after term t wrote.
Later(n, t) == \E i \in DOMAIN log[n] : log[n][i].term > t

\* Whoever leads from the term of entry i on has the decided log up to it.
Anchored(i) ==
    \A n \in Server :
        (LeaderOf(n) /\ term[n] >= decided[i].term) \/ Later(n, decided[i].term)
            => Agree(log[n], decided, i)

DecidedInv ==
    /\ HasQuorum(Config, {x \in Server : Agree(log[x], decided, Len(decided))})
    /\ \A i \in commits : Anchored(i)
    /\ decided # <<>> => Len(decided) \in commits
    /\ Agree(log[Self], decided, commitIndex)
    /\ commitIndex > 0 =>
          \E i \in commitIndex .. Len(decided) : decided[i].term <= term[Self] /\ Anchored(i)

\* Who may yet be counted for entry k by Self, in the term Self leads.
Counted(k) == {x \in Server : x = Self \/ matchIndex[x] >= k \/ term[x] <= term[Self]}

\* An entry of the term Self leads that a quorum may yet be counted for is held
\* by those who are counted for it already and by whoever has led since.
MatchesInv ==
    Leads => \A k \in DOMAIN log[Self] :
        log[Self][k].term = term[Self] /\ HasQuorum(Config, Counted(k)) =>
            \A n \in Peer :
                matchIndex[n] >= k \/ (LeaderOf(n) /\ term[n] > term[Self]) \/ Later(n, term[Self])
                    => Agree(log[n], log[Self], k)

\* Unless a higher term has begun, what is decided and not known to Self is
\* older than its no-op.
FloorInv ==
    Leads /\ (\A x \in Server : term[x] <= term[Self]) =>
        Len(decided) <= commitIndex \/ Len(decided) <= noopIndex

\* What Self has learnt belongs to the term it leads.
EvidenceInv ==
    /\ ~Leads => noopIndex = 0 /\ \A p \in Peer : matchIndex[p] = 0
    /\ \A p \in Peer : matchIndex[p] > 0 => term[p] >= term[Self]
    /\ \A p \in Peer : lastAck[p] <= roundSeq
    /\ MatchesInv /\ FloorInv

TickInv ==
    \/ tick = NoTick
    \/ tick = [at |-> "follower", term |-> 0]
    \/ Leads /\ tick = [at |-> "leader", term |-> term[Self]]

\* Who may yet confirm, with a round after the barrier, that Self leads.
Confirming(barrier) ==
    {x \in Server : \/ x = Self
                    \/ lastAck[x] > barrier
                    \/ report[x].at = "ack" /\ report[x].startSeq > barrier
                    \/ term[x] <= term[Self]}

\* A write that waits in the term Self leads is in its log; a read that waits
\* in it has an index that is high enough, or will not be confirmed.
WaiterInv(q, r) ==
    /\ r \in [at : {"waiting"}, kind : {"write", "read"}, index : Nat, term : Nat, barrier : Nat,
              awaitApply : BOOLEAN, floor : Nat, late : BOOLEAN]
    /\ r.kind = IF q \in Write THEN "write" ELSE "read"
    /\ r.term <= term[Self]
    /\ Leads /\ r.term = term[Self] =>
          /\ q \in Write => r.index \in DOMAIN log[Self] /\ log[Self][r.index].req = q
          /\ q \in Read => r.index >= r.floor \/ ~HasQuorum(Config, Confirming(r.barrier))

AnsweredInv(q, r, applied) ==
    /\ q \in Write => r.index \in DOMAIN decided /\ decided[r.index].req = q
    /\ q \in Read => /\ r.index \in Nat /\ r.floor \in Nat /\ r.index >= r.floor
                     /\ r.awaitApply => r.index <= applied

\* r may be what has become of request q when the log is applied that far.
RequestInv(q, r, applied) ==
    \/ r = New
    \/ r = Failed
    \/ WaiterInv(q, r)
    \/ /\ q \in Read
       /\ r \in [at : {"applying"}, kind : {"read"}, index : Nat, awaitApply : BOOLEAN, floor : Nat,
                 late : BOOLEAN]
       /\ r.index = r.floor
    \/ r.at = "ok" /\ AnsweredInv(q, r, applied)

WaitersInv == DOMAIN request = Request /\ \A q \in Request : RequestInv(q, request[q], lastApplied)

\* TypeOK without the requests, which WaitersInv describes.
Types ==
    /\ term \in [Server -> Terms]
    /\ role \in [Server -> {"Follower", "Leader"}]
    /\ log \in [Server -> Seq(Entries)]
    /\ commitIndex \in 0 .. Len(log[Self])
    /\ lastApplied \in 0 .. commitIndex
    /\ matchIndex \in [Peer -> 0 .. Len(log[Self])]
    /\ noopIndex \in 0 .. Len(log[Self])
    /\ replicating \in Terms
    /\ roundSeq \in 0 .. MaxRounds
    /\ DOMAIN report = Peer
    /\ lastAck \in [Peer -> 0 .. MaxRounds]
    /\ reachable \subseteq Peer
    /\ decided \in Seq(Entries)
    /\ commits \subseteq 1 .. Len(decided)

\* What the proofs use of configurations: the quorums of Config meet and grow,
\* all servers are one, and QuorumIndex is an index that a quorum has.
QuorumsMeet ==
    \A P, Q : HasQuorum(Config, P) /\ HasQuorum(Config, Q) => \E x \in P : x \in Q
QuorumsGrow ==
    \A P, Q : P \subseteq Q /\ HasQuorum(Config, P) => HasQuorum(Config, Q)
QuorumIndexHeld ==
    \A match \in [Server -> Nat] :
        /\ QuorumIndex(Config, match) \in Nat
        /\ \E m \in Server : QuorumIndex(Config, match) = match[m]
        /\ HasQuorum(Config, {m \in Server : match[m] >= QuorumIndex(Config, match)})

Laws == QuorumsMeet /\ QuorumsGrow /\ QuorumIndexHeld /\ HasQuorum(Config, Server)

\* The cluster and Self, without the requests.
NodeInv ==
    Laws /\ Types /\ TermsInv /\ ReportsInv /\ LogsInv /\ DecidedInv /\ EvidenceInv /\ TickInv

IndInv == NodeInv /\ WaitersInv

(***************************************************************************)
(* Quorums and logs                                                         *)
(***************************************************************************)

LEMMA ConfigIsValid ==
    /\ IsFiniteSet(Server) /\ Config \in Configurations(Server) /\ Validate(Config)
    /\ Peer = Server \ {Self} /\ Self \in Server
  BY RequestsAssumption DEF NewConfiguration, Configurations, Validate, Peer, Peers, Members

LEMMA Meet ==
    ASSUME Laws, NEW P, NEW Q, HasQuorum(Config, P), HasQuorum(Config, Q)
    PROVE  \E x \in P : x \in Q
  BY DEF Laws, QuorumsMeet

LEMMA Grow ==
    ASSUME Laws, NEW P, NEW Q, P \subseteq Q, HasQuorum(Config, P)
    PROVE  HasQuorum(Config, Q)
  BY DEF Laws, QuorumsGrow

LEMMA MaxOfTwo ==
    ASSUME NEW a \in Nat, NEW b \in Nat
    PROVE  /\ Max({a, b}) \in Nat
           /\ Max({a, b}) = IF a >= b THEN a ELSE b
  <1> DEFINE m == IF a >= b THEN a ELSE b
  <1>1. m \in {a, b} /\ \A y \in {a, b} : m >= y
    BY SMT
  <1>2. Max({a, b}) \in {a, b} /\ \A y \in {a, b} : Max({a, b}) >= y
    BY <1>1, SMT DEF Max
  <1> QED
    BY <1>2, SMT

LEMMA EntryTypes ==
    ASSUME NEW l \in Seq(Entries)
    PROVE  /\ Len(l) \in Nat /\ DOMAIN l = 1 .. Len(l)
           /\ \A i \in 1 .. Len(l) : l[i] \in Entries /\ l[i].term \in Nat
  <1>1. Terms \subseteq Nat
    BY RequestsAssumption, SMT DEF Terms
  <1>2. Len(l) \in Nat /\ DOMAIN l = 1 .. Len(l) /\ \A i \in 1 .. Len(l) : l[i] \in Entries
    BY SMT
  <1>3. \A e \in Entries : e.term \in Nat
    BY <1>1 DEF Entries
  <1> QED
    BY <1>2, <1>3

\* Agreeing on the first k entries is an equivalence, and weaker the smaller k.
LEMMA AgreeSame ==
    ASSUME NEW l, NEW k, k <= Len(l)
    PROVE  Agree(l, l, k)
  BY DEF Agree

LEMMA AgreeBack ==
    ASSUME NEW l, NEW m, NEW k, Agree(l, m, k)
    PROVE  Agree(m, l, k)
  BY DEF Agree

LEMMA AgreeOn ==
    ASSUME NEW l, NEW m, NEW n, NEW k, Agree(l, m, k), Agree(m, n, k)
    PROVE  Agree(l, n, k)
  BY DEF Agree

LEMMA AgreeLess ==
    ASSUME NEW l \in Seq(Entries), NEW m \in Seq(Entries), NEW k \in Nat, NEW j \in Nat, j <= k,
           Agree(l, m, k)
    PROVE  Agree(l, m, j)
  BY EntryTypes, SMT DEF Agree

LEMMA AgreeAt ==
    ASSUME NEW l \in Seq(Entries), NEW m, NEW k \in Nat, k > 0, Agree(l, m, k)
    PROVE  k \in DOMAIN l /\ l[k] = m[k]
  BY EntryTypes, SMT DEF Agree

\* Appending to a log changes nothing of it.
LEMMA AgreeAppend ==
    ASSUME NEW l \in Seq(Entries), NEW e \in Entries, NEW k \in 0 .. Len(l)
    PROVE  /\ Append(l, e) \in Seq(Entries)
           /\ Len(Append(l, e)) = Len(l) + 1 /\ Append(l, e)[Len(l) + 1] = e
           /\ \A i \in 1 .. Len(l) : Append(l, e)[i] = l[i]
           /\ Agree(Append(l, e), l, k)
  BY EntryTypes, SMT DEF Agree

LEMMA PrefixAgrees ==
    ASSUME NEW l \in Seq(Entries), NEW m \in Seq(Entries)
    PROVE  StartOf(l, m) <=> Agree(l, m, Len(l))
  BY EntryTypes, SMT DEF StartOf, Agree

LEMMA SubSeqAgrees ==
    ASSUME NEW l \in Seq(Entries), NEW k \in 0 .. Len(l)
    PROVE  /\ SubSeq(l, 1, k) \in Seq(Entries) /\ Len(SubSeq(l, 1, k)) = k
           /\ Agree(SubSeq(l, 1, k), l, k)
  BY EntryTypes, SMT DEF Agree

(***************************************************************************)
(* What a step does to the logs.  Either every server keeps its log or      *)
(* takes over the log of a leader it follows, or a leader appends an entry. *)
(***************************************************************************)

Copies(src) ==
    /\ src \in [Server -> Server]
    /\ \A n \in Server :
          /\ log'[n] = log[src[n]]
          /\ term[n] <= term'[n] /\ term[src[n]] <= term'[n]
          /\ role'[n] = "Leader" => LeaderOf(n) /\ term'[n] = term[n] /\ src[n] = n
          /\ src[n] # n => LeaderOf(src[n]) /\ term'[n] = term[src[n]]

Extends(p, e) ==
    /\ e \in Entries /\ e.term = term'[p] /\ role'[p] = "Leader"
    /\ log' = [log EXCEPT ![p] = Append(@, e)]
    /\ \A n \in Server :
          /\ term[n] <= term'[n]
          /\ n # p /\ role'[n] = "Leader" =>
                LeaderOf(n) /\ term'[n] = term[n] /\ term[n] # term'[p]
          /\ \A i \in DOMAIN log[n] : log[n][i].term = term'[p] => Agree(log[n], log[p], i)
    /\ \A i \in DOMAIN log[p] : log[p][i].term <= term'[p]

Typed ==
    /\ term \in [Server -> Nat] /\ log \in [Server -> Seq(Entries)]
    /\ \A n \in Server : Len(log[n]) \in Nat /\ DOMAIN log[n] = 1 .. Len(log[n])
    /\ \A n \in Server : \A i \in DOMAIN log[n] : log[n][i].term \in Nat

LEMMA TypesTyped == Types => Typed
  <1> SUFFICES ASSUME Types PROVE Typed
    OBVIOUS
  <1>1. term \in [Server -> Nat]
    BY RequestsAssumption, SMT DEF Types, Terms
  <1>2. log \in [Server -> Seq(Entries)]
    BY DEF Types
  <1>3. \A n \in Server : log[n] \in Seq(Entries)
    BY <1>2
  <1> QED
    BY <1>1, <1>2, <1>3, EntryTypes DEF Typed

LEMMA CopiesKeepLogs ==
    ASSUME Typed, LogsInv, Typed', NEW src, Copies(src)
    PROVE  LogsInv'
  <1>1. \A n \in Server : /\ src[n] \in Server /\ log'[n] = log[src[n]]
                          /\ term[src[n]] \in Nat /\ term'[n] \in Nat /\ term[src[n]] <= term'[n]
    BY DEF Copies, Typed
  <1>2. \A n \in Server : \A i \in DOMAIN log'[n] : log'[n][i].term <= term'[n]
    <2> SUFFICES ASSUME NEW n \in Server, NEW i \in DOMAIN log'[n]
                 PROVE  log'[n][i].term <= term'[n]
      OBVIOUS
    <2>1. log[src[n]][i].term \in Nat /\ log[src[n]][i].term <= term[src[n]]
      BY <1>1 DEF LogsInv, Typed
    <2> QED
      BY <1>1, <2>1, SMT
  <1>3. \A n \in Server : \A i, j \in DOMAIN log'[n] : i <= j => log'[n][i].term <= log'[n][j].term
    BY <1>1 DEF LogsInv
  <1>4. \A n, p \in Server : \A i \in DOMAIN log'[n], j \in DOMAIN log'[p] :
            i <= j /\ log'[n][i].term = log'[p][j].term => Agree(log'[n], log'[p], i)
    BY <1>1, SMT DEF LogsInv
  <1>5. \A n, p \in Server : \A i \in DOMAIN log'[n] :
            role'[p] = "Leader" /\ log'[n][i].term = term'[p] => Agree(log'[n], log'[p], i)
    <2> SUFFICES ASSUME NEW n \in Server, NEW p \in Server, NEW i \in DOMAIN log'[n],
                        role'[p] = "Leader", log'[n][i].term = term'[p]
                 PROVE  Agree(log'[n], log'[p], i)
      OBVIOUS
    <2>1. LeaderOf(p) /\ term'[p] = term[p] /\ log'[p] = log[p]
      BY DEF Copies
    <2> QED
      BY <1>1, <2>1, SMT DEF LogsInv
  <1> QED
    BY <1>2, <1>3, <1>4, <1>5 DEF LogsInv, LeaderOf

LEMMA ExtendsKeepsLogs ==
    ASSUME Typed, LogsInv, Typed', NEW p \in Server, NEW e, Extends(p, e)
    PROVE  LogsInv'
  <1> DEFINE L == Len(log[p])
  <1>1. /\ \A n \in Server : n # p => log'[n] = log[n]
        /\ log'[p] = Append(log[p], e)
    BY DEF Extends, Typed
  <1>2. /\ L \in Nat /\ Len(log'[p]) = L + 1 /\ log'[p][L + 1] = e /\ e.term = term'[p]
        /\ \A i \in 1 .. L : log'[p][i] = log[p][i]
    BY <1>1, AgreeAppend, SMT DEF Extends, Typed
  <1>3. \A n \in Server : \A i \in DOMAIN log[n] : Agree(log[n], log'[n], i)
    <2> SUFFICES ASSUME NEW n \in Server, NEW i \in DOMAIN log[n]
                 PROVE  Agree(log[n], log'[n], i)
      OBVIOUS
    <2>1. i \in 1 .. Len(log[n]) /\ Len(log[n]) \in Nat
      BY DEF Typed
    <2>2. CASE n # p
      BY <1>1, <2>1, <2>2, AgreeSame, SMT
    <2>3. CASE n = p
      BY <1>2, <2>1, <2>3, SMT DEF Agree
    <2> QED
      BY <2>2, <2>3
  <1>4. \A n \in Server :
            /\ DOMAIN log'[n] = 1 .. Len(log'[n])
            /\ \A i \in DOMAIN log'[n] :
                  \/ i \in DOMAIN log[n] /\ log'[n][i] = log[n][i]
                  \/ n = p /\ i = L + 1 /\ log'[n][i].term = term'[p]
    <2> SUFFICES ASSUME NEW n \in Server, NEW i \in DOMAIN log'[n]
                 PROVE  \/ i \in DOMAIN log[n] /\ log'[n][i] = log[n][i]
                        \/ n = p /\ i = L + 1 /\ log'[n][i].term = term'[p]
      BY DEF Typed
    <2>1. CASE n # p
      BY <1>1, <2>1
    <2>2. CASE n = p
      <3>1. i \in 1 .. L + 1 /\ DOMAIN log[p] = 1 .. L
        BY <1>2, <2>2 DEF Typed
      <3> QED
        BY <1>2, <2>2, <3>1, SMT
    <2> QED
      BY <2>1, <2>2
  <1>5. \A n \in Server : \A i \in DOMAIN log'[n] : log'[n][i].term <= term'[n]
    BY <1>2, <1>4, SMT DEF LogsInv, Extends, Typed
  <1>6. \A n \in Server : \A i, j \in DOMAIN log'[n] : i <= j => log'[n][i].term <= log'[n][j].term
    BY <1>2, <1>4, SMT DEF LogsInv, Extends, Typed
  \* entries of the new one's term are in the log it is appended to
  <1>7. \A n \in Server : \A i \in DOMAIN log'[n] : log'[n][i].term = term'[p] => Agree(log'[n], log'[p], i)
    <2> SUFFICES ASSUME NEW n \in Server, NEW i \in DOMAIN log'[n], log'[n][i].term = term'[p]
                 PROVE  Agree(log'[n], log'[p], i)
      OBVIOUS
    <2>1. CASE n = p
      BY <1>4, <2>1, SMT DEF Agree, Typed
    <2>2. CASE n # p
      <3>1. Agree(log'[n], log[p], i)
        BY <1>1, <2>2 DEF Extends
      <3>2. i \in DOMAIN log[p]
        BY <1>4, <3>1, SMT DEF Agree, Typed
      <3> QED
        BY <1>3, <3>1, <3>2, AgreeOn
    <2> QED
      BY <2>1, <2>2
  <1>8. \A n, m \in Server : \A i \in DOMAIN log'[n], j \in DOMAIN log'[m] :
            i <= j /\ log'[n][i].term = log'[m][j].term => Agree(log'[n], log'[m], i)
    <2> SUFFICES ASSUME NEW n \in Server, NEW m \in Server, NEW i \in DOMAIN log'[n],
                        NEW j \in DOMAIN log'[m], i <= j, log'[n][i].term = log'[m][j].term
                 PROVE  Agree(log'[n], log'[m], i)
      OBVIOUS
    <2>1. CASE log'[n][i].term = term'[p]
      <3>1. Agree(log'[n], log'[p], i) /\ Agree(log'[m], log'[p], j)
        BY <1>7, <2>1
      <3>2. Agree(log'[m], log'[p], i)
        BY <3>1, <1>4, AgreeLess, SMT DEF Typed
      <3> QED
        BY <3>1, <3>2, AgreeBack, AgreeOn
    <2>2. CASE log'[n][i].term # term'[p]
      <3>1. i \in DOMAIN log[n] /\ log'[n][i] = log[n][i] /\ j \in DOMAIN log[m] /\ log'[m][j] = log[m][j]
        BY <1>4, <2>2
      <3>2. Agree(log[n], log[m], i)
        BY <3>1 DEF LogsInv
      <3>3. i \in DOMAIN log[m]
        BY <3>1, <3>2, SMT DEF Agree, Typed
      <3> QED
        BY <1>3, <3>1, <3>2, <3>3, AgreeBack, AgreeOn
    <2> QED
      BY <2>1, <2>2
  <1>9. \A n, m \in Server : \A i \in DOMAIN log'[n] :
            role'[m] = "Leader" /\ log'[n][i].term = term'[m] => Agree(log'[n], log'[m], i)
    <2> SUFFICES ASSUME NEW n \in Server, NEW m \in Server, NEW i \in DOMAIN log'[n],
                        role'[m] = "Leader", log'[n][i].term = term'[m]
                 PROVE  Agree(log'[n], log'[m], i)
      OBVIOUS
    <2>1. CASE m = p
      BY <1>7, <2>1
    <2>2. CASE m # p
      <3>1. LeaderOf(m) /\ term'[m] = term[m] /\ log'[m] = log[m] /\ term'[m] # term'[p]
        BY <1>1, <2>2 DEF Extends
      <3>2. i \in DOMAIN log[n] /\ log'[n][i] = log[n][i]
        BY <1>4, <3>1
      <3>3. Agree(log[n], log[m], i)
        BY <3>1, <3>2 DEF LogsInv
      <3> QED
        BY <1>3, <3>1, <3>2, <3>3, AgreeBack, AgreeOn
    <2> QED
      BY <2>1, <2>2
  <1> QED
    BY <1>5, <1>6, <1>8, <1>9 DEF LogsInv, LeaderOf

(***************************************************************************)
(* Elections                                                                *)
(***************************************************************************)

\* A term that is won is higher than any server's.
LEMMA WonTermIsNew ==
    ASSUME Laws, Typed, TermsInv, NEW t \in Nat, NEW voters \in SUBSET Server, HasQuorum(Config, voters),
           \A v \in voters : term[v] < t
    PROVE  \A x \in Server : term[x] < t
  <1> SUFFICES ASSUME NEW x \in Server PROVE term[x] < t
    OBVIOUS
  <1>1. PICK v \in voters : v \in Reached(term[x])
    BY Meet DEF TermsInv
  <1> QED
    BY <1>1, SMT DEF Reached, Typed

\* Who is as up to date as a voter has what the voter has of a log, if everybody
\* with a later entry has it.
LEMMA UpToDateHolds ==
    ASSUME Typed, LogsInv, NEW n \in Server, NEW v \in Server, UpToDate(log[n], log[v]),
           NEW d \in Seq(Entries), NEW i \in 1 .. Len(d), Agree(log[v], d, i),
           Later(n, d[i].term) => Agree(log[n], d, i)
    PROVE  Agree(log[n], d, i)
  <1> DEFINE N == Len(log[n])
             V == Len(log[v])
  <1>1. /\ N \in Nat /\ V \in Nat /\ i \in Nat /\ i <= V /\ log[v][i] = d[i] /\ log[v] # <<>>
        /\ i \in DOMAIN log[v] /\ V \in DOMAIN log[v]
        /\ log[n] # <<>> => N \in DOMAIN log[n] /\ log[n][N].term \in Nat
    BY EntryTypes, SMT DEF Typed, Agree
  <1>2. d[i].term <= log[v][V].term /\ log[v][V].term \in Nat /\ d[i].term \in Nat
    BY <1>1 DEF LogsInv, Typed
  <1>3. CASE log[n] # <<>> /\ log[n][N].term > log[v][V].term
    BY <1>1, <1>2, <1>3, SMT DEF Later
  <1>4. CASE log[n] # <<>> /\ log[n][N].term = log[v][V].term /\ N >= V
    <2>1. Agree(log[v], log[n], V)
      BY <1>1, <1>4 DEF LogsInv
    <2>2. Agree(log[n], log[v], i)
      BY <1>1, <2>1, AgreeLess, AgreeBack DEF Typed
    <2> QED
      BY <2>2, AgreeOn
  <1>5. CASE log[n] = <<>>
    <2>1. N = 0 /\ V >= 1
      BY <1>1, <1>5, SMT
    <2> QED
      BY <1>1, <1>2, <1>5, <2>1, SMT DEF UpToDate
  <1> QED
    BY <1>1, <1>3, <1>4, <1>5 DEF UpToDate

\* n wins term t with these votes and appends its no-op.
Wins(n, t, voters) ==
    /\ t \in DOMAIN Contender
    /\ voters \in SUBSET Server /\ n \in voters
    /\ HasQuorum(Config, voters)
    /\ \A v \in voters : UpToDate(log[n], log[v])
    /\ \A x \in Server : term[x] < t
    /\ term' = [x \in Server |-> IF x \in voters THEN t ELSE term[x]]
    /\ role' = [x \in Server |-> IF x = n THEN "Leader"
                                ELSE IF x \in voters THEN "Follower" ELSE role[x]]
    /\ log' = [log EXCEPT ![n] = Append(@, NoOp(t))]

LEMMA ElectedWins ==
    ASSUME Laws, Typed, TermsInv, NEW n, NEW t \in DOMAIN Contender, Elected(n, t, TRUE)
    PROVE  \E voters : Wins(n, t, voters)
  <1>0. t \in Nat
    BY RequestsAssumption
  <1>1. PICK voters \in SUBSET Server :
          /\ n \in voters
          /\ HasQuorum(Config, voters)
          /\ \A v \in voters : term[v] < t /\ UpToDate(log[n], log[v])
          /\ term' = [x \in Server |-> IF x \in voters THEN t ELSE term[x]]
          /\ role' = [x \in Server |-> IF x = n THEN "Leader"
                                      ELSE IF x \in voters THEN "Follower" ELSE role[x]]
    BY DEF Elected
  <1>2. \A x \in Server : term[x] < t
    BY <1>0, <1>1, WonTermIsNew
  <1>3. log' = [log EXCEPT ![n] = Append(@, NoOp(t))]
    BY DEF Elected
  <1> QED
    BY <1>1, <1>2, <1>3 DEF Wins

LEMMA WinnerExtends ==
    ASSUME Typed, LogsInv, NEW n, NEW t, NEW voters, Wins(n, t, voters)
    PROVE  n \in Server /\ t \in Nat /\ Extends(n, NoOp(t))
  <1>1. n \in Server /\ t \in Nat /\ t \in Terms
    BY RequestsAssumption DEF Wins, Terms
  <1>2. NoOp(t) \in Entries /\ NoOp(t).term = t /\ term'[n] = t /\ role'[n] = "Leader"
    BY <1>1 DEF NoOp, Entries, Wins
  <1>3. \A x \in Server : \A i \in DOMAIN log[x] : log[x][i].term < t
    BY <1>1, SMT DEF Wins, LogsInv, Typed
  <1>4. \A x \in Server : /\ term[x] \in Nat /\ term[x] < t /\ term[x] <= term'[x]
                          /\ x # n /\ role'[x] = "Leader" => role[x] = "Leader" /\ term'[x] = term[x]
    BY <1>1, SMT DEF Wins, Typed
  <1> QED
    BY <1>1, <1>2, <1>3, <1>4, SMT DEF Wins, Extends, LeaderOf, Typed

LEMMA TermsAfterElection ==
    ASSUME Laws, Typed, TermsInv, NEW n, NEW t, NEW voters, Wins(n, t, voters)
    PROVE  TermsInv'
  <1>1. n \in Server /\ t \in Nat /\ \A x \in Server : term[x] \in Nat /\ term[x] < t
    BY RequestsAssumption DEF Wins, Typed
  <1>2. \A x \in Server : term'[x] = IF x \in voters THEN t ELSE term[x]
    BY DEF Wins
  <1>3. ASSUME NEW x \in Server
        PROVE  HasQuorum(Config, Reached(term[x])')
    <2>1. CASE x \in voters
      <3>1. voters \subseteq Reached(term[x])'
        BY <1>1, <1>2, <2>1, SMT DEF Wins, Reached
      <3> QED
        BY <3>1, Grow DEF Wins
    <2>2. CASE x \notin voters
      <3>1. Reached(term[x]) \subseteq Reached(term[x])'
        BY <1>1, <1>2, <2>2, SMT DEF Reached
      <3> QED
        BY <3>1, Grow DEF TermsInv
    <2> QED
      BY <2>1, <2>2
  <1>4. \A x, y \in Server : role'[x] = "Leader" /\ role'[y] = "Leader" /\ term'[x] = term'[y] => x = y
    BY <1>1, <1>2, SMT DEF Wins, TermsInv, LeaderOf
  <1> QED
    BY <1>3, <1>4 DEF TermsInv, LeaderOf

\* Terms that rise to ones a quorum has reached, nobody becoming leader.
LEMMA TermsAfterRise ==
    ASSUME Laws, Typed, Typed', TermsInv,
           \A n \in Server : /\ term[n] <= term'[n]
                             /\ HasQuorum(Config, Reached(term'[n]))
                             /\ role'[n] = "Leader" => LeaderOf(n) /\ term'[n] = term[n]
    PROVE  TermsInv'
  <1>1. ASSUME NEW n \in Server
        PROVE  HasQuorum(Config, Reached(term[n])')
    <2>1. \A x \in Server : term[x] \in Nat /\ term'[x] \in Nat /\ term[x] <= term'[x]
      BY DEF Typed
    <2>2. \A x \in Server : term[x] >= term'[n] => term'[x] >= term'[n]
      BY <2>1, SMT
    <2>3. Reached(term'[n]) \subseteq Reached(term[n])'
      BY <2>2 DEF Reached
    <2> QED
      BY <2>3, Grow
  <1> QED
    BY <1>1 DEF TermsInv, LeaderOf

(***************************************************************************)
(* What is decided                                                          *)
(***************************************************************************)

\* The history and the commit index as far as the proofs below use their types.
DecidedTyped ==
    /\ decided \in Seq(Entries) /\ Len(decided) \in Nat /\ DOMAIN decided = 1 .. Len(decided)
    /\ \A i \in 1 .. Len(decided) : decided[i] \in Entries /\ decided[i].term \in Nat
    /\ commits \subseteq 1 .. Len(decided)
    /\ commitIndex \in Nat

LEMMA TypesDecidedTyped == Types => DecidedTyped
  <1> SUFFICES ASSUME Types PROVE DecidedTyped
    OBVIOUS
  <1>1. decided \in Seq(Entries) /\ commits \subseteq 1 .. Len(decided)
    BY DEF Types
  <1>2. log[Self] \in Seq(Entries)
    BY ConfigIsValid DEF Types
  <1>3. commitIndex \in 0 .. Len(log[Self]) /\ Len(log[Self]) \in Nat
    BY <1>2, EntryTypes DEF Types
  <1> QED
    BY <1>1, <1>3, EntryTypes, SMT DEF DecidedTyped

LEMMA CopiesKeepAnchors ==
    ASSUME Typed, NEW src, Copies(src), NEW i, Anchored(i), decided' = decided
    PROVE  Anchored(i)'
  <1> SUFFICES ASSUME NEW n \in Server,
                      \/ role'[n] = "Leader" /\ term'[n] >= decided[i].term
                      \/ \E j \in DOMAIN log'[n] : log'[n][j].term > decided[i].term
               PROVE  Agree(log'[n], decided, i)
    BY DEF Anchored, LeaderOf, Later
  <1>1. src[n] \in Server /\ log'[n] = log[src[n]]
    BY DEF Copies
  <1>2. CASE role'[n] = "Leader" /\ term'[n] >= decided[i].term
    BY <1>1, <1>2 DEF Copies, Anchored
  <1>3. CASE \E j \in DOMAIN log'[n] : log'[n][j].term > decided[i].term
    BY <1>1, <1>3 DEF Anchored, Later
  <1> QED
    BY <1>2, <1>3

\* Whoever takes over a leader's log keeps what it held of the decided log.
LEMMA FollowerKeeps ==
    ASSUME Typed, DecidedTyped, NEW src, Copies(src), NEW n \in Server,
           NEW i \in 1 .. Len(decided), Anchored(i), decided[i].term <= term[n],
           NEW k \in 0 .. i, Agree(log[n], decided, k)
    PROVE  Agree(log'[n], decided, k)
  <1>1. src[n] \in Server /\ log'[n] = log[src[n]] /\ log[src[n]] \in Seq(Entries)
    BY DEF Copies, Typed
  <1>2. CASE src[n] = n
    BY <1>1, <1>2
  <1>3. CASE src[n] # n
    <2>1. LeaderOf(src[n]) /\ term[n] <= term[src[n]] /\ term[n] \in Nat /\ term[src[n]] \in Nat
      BY <1>1, <1>3 DEF Copies, Typed
    <2>2. decided[i].term \in Nat /\ i \in Nat /\ k \in Nat /\ k <= i
      BY SMT DEF DecidedTyped
    <2>3. Agree(log[src[n]], decided, i)
      BY <1>1, <2>1, <2>2, SMT DEF Anchored
    <2> QED
      BY <1>1, <2>2, <2>3, AgreeLess DEF DecidedTyped
  <1> QED
    BY <1>2, <1>3

LEMMA CopiesKeepDecided ==
    ASSUME Laws, Typed, Typed', DecidedTyped, LogsInv, DecidedInv, NEW src, Copies(src), history' = history,
           \/ commitIndex' = commitIndex
           \/ \E i \in commits : /\ commitIndex' \in 1 .. i /\ Agree(log'[Self], decided, i)
                               /\ decided[i].term <= term'[Self]
    PROVE  DecidedInv'
  <1> DEFINE D == Len(decided)
             holders == {x \in Server : Agree(log[x], decided, D)}
  <1>1. decided' = decided /\ commits' = commits /\ Self \in Server
    BY ConfigIsValid DEF history
  <1>2. ASSUME NEW x \in Server, Agree(log[x], decided, D)
        PROVE  Agree(log'[x], decided, D)
    <2>1. CASE decided = <<>>
      <3>1. D = 0 /\ Len(log'[x]) \in Nat
        BY <2>1 DEF Typed
      <3> QED
        BY <3>1, SMT DEF Agree
    <2>2. CASE decided # <<>>
      <3>1. D \in 1 .. Len(decided) /\ Anchored(D) /\ D \in Nat
        BY <2>2 DEF DecidedInv, DecidedTyped
      <3>2. D \in DOMAIN log[x] /\ log[x][D] = decided[D]
        BY <1>2, <3>1, AgreeAt, SMT DEF Typed
      <3>3. decided[D].term <= term[x]
        BY <3>2 DEF LogsInv
      <3>4. D \in 0 .. D
        BY <3>1, SMT
      <3> QED
        BY <1>2, <3>1, <3>3, <3>4, FollowerKeeps
    <2> QED
      BY <2>1, <2>2
  <1>3. HasQuorum(Config, {x \in Server : Agree(log'[x], decided, D)})
    <2>1. holders \subseteq {x \in Server : Agree(log'[x], decided, D)}
      BY <1>2
    <2> QED
      BY <2>1, Grow DEF DecidedInv
  <1>4. \A i \in commits : Anchored(i)'
    BY <1>1, CopiesKeepAnchors DEF DecidedInv
  <1>5. Agree(log'[Self], decided, commitIndex)
    <2>1. CASE commitIndex = 0
      BY <1>1, <2>1, SMT DEF Agree, Typed, DecidedTyped
    <2>2. CASE commitIndex > 0
      <3>1. PICK i \in commitIndex .. D : decided[i].term <= term[Self] /\ Anchored(i)
        BY <2>2 DEF DecidedInv
      <3>2. i \in 1 .. D /\ commitIndex \in 0 .. i
        BY <2>2, <3>1, SMT DEF DecidedTyped
      <3> QED
        BY <1>1, <3>1, <3>2, FollowerKeeps DEF DecidedInv
    <2> QED
      BY <2>1, <2>2, SMT DEF DecidedTyped
  <1>6. ASSUME commitIndex > 0
        PROVE  \E i \in commitIndex .. D : decided[i].term <= term'[Self] /\ Anchored(i)'
    <2>1. PICK i \in commitIndex .. D : decided[i].term <= term[Self] /\ Anchored(i)
      BY <1>6 DEF DecidedInv
    <2>2. Anchored(i)'
      BY <1>1, <2>1, CopiesKeepAnchors
    <2>3. i \in 1 .. D /\ decided[i].term \in Nat
      BY <1>6, <2>1, SMT DEF DecidedTyped
    <2>4. term[Self] \in Nat /\ term'[Self] \in Nat /\ term[Self] <= term'[Self]
      BY <1>1 DEF Copies, Typed
    <2>5. decided[i].term <= term'[Self]
      BY <2>1, <2>3, <2>4, SMT
    <2> QED
      BY <2>2, <2>5
  <1>7. CASE commitIndex' = commitIndex
    BY <1>1, <1>3, <1>4, <1>5, <1>6, <1>7 DEF DecidedInv
  <1>8. ASSUME NEW i \in commits, commitIndex' \in 1 .. i, Agree(log'[Self], decided, i),
               decided[i].term <= term'[Self]
        PROVE  DecidedInv'
    <2>1. i \in Nat /\ commitIndex' \in Nat /\ commitIndex' <= i /\ i \in commitIndex' .. D
      BY <1>8, SMT DEF DecidedTyped
    <2>2. Agree(log'[Self], decided, commitIndex')
      BY <1>1, <1>8, <2>1, AgreeLess DEF Typed, DecidedTyped
    <2> QED
      BY <1>1, <1>3, <1>4, <1>8, <2>1, <2>2 DEF DecidedInv
  <1> QED
    BY <1>7, <1>8

\* A leader that appends holds what it must: it led before, or has been elected
\* with everything that is anchored.
LEMMA ExtendsKeepsAnchors ==
    ASSUME Typed, Typed', NEW p \in Server, NEW e, Extends(p, e), decided' = decided, DecidedTyped,
           NEW i \in 1 .. Len(decided), Anchored(i),
           (LeaderOf(p) /\ term'[p] = term[p]) \/ Agree(log[p], decided, i)
    PROVE  Anchored(i)'
  <1>1. /\ log'[p] = Append(log[p], e) /\ log[p] \in Seq(Entries) /\ e \in Entries
        /\ \A n \in Server : n # p => log'[n] = log[n]
    BY DEF Extends, Typed
  <1>2. Agree(log[p], decided, i) => Agree(log'[p], decided, i)
    <2> SUFFICES ASSUME Agree(log[p], decided, i) PROVE Agree(log'[p], decided, i)
      OBVIOUS
    <2>1. i \in 0 .. Len(log[p])
      BY SMT DEF Agree, Typed, DecidedTyped
    <2> QED
      BY <1>1, <2>1, AgreeAppend, AgreeOn, SMT
  <1> SUFFICES ASSUME NEW n \in Server,
                      \/ role'[n] = "Leader" /\ term'[n] >= decided[i].term
                      \/ \E j \in DOMAIN log'[n] : log'[n][j].term > decided[i].term
               PROVE  Agree(log'[n], decided, i)
    BY DEF Anchored, LeaderOf, Later
  <1>3. CASE n # p
    BY <1>1, <1>3 DEF Extends, Anchored, Later
  <1>4. CASE n = p
    <2>1. CASE Agree(log[p], decided, i)
      BY <1>2, <1>4, <2>1
    <2>2. CASE LeaderOf(p) /\ term'[p] = term[p]
      <3>1. /\ term[p] \in Nat /\ decided[i].term \in Nat
            /\ \A j \in DOMAIN log'[p] : log'[p][j].term \in Nat /\ log'[p][j].term <= term[p]
        <4>1. \A j \in DOMAIN log'[p] : log'[p][j] = e \/ (j \in DOMAIN log[p] /\ log'[p][j] = log[p][j])
          <5>1. Len(log[p]) \in Nat /\ 0 \in 0 .. Len(log[p])
            BY SMT DEF Typed
          <5>2. /\ Len(log'[p]) = Len(log[p]) + 1 /\ log'[p][Len(log[p]) + 1] = e
                /\ \A j \in 1 .. Len(log[p]) : log'[p][j] = log[p][j]
            BY <1>1, <5>1, AgreeAppend, SMT
          <5>3. DOMAIN log'[p] = 1 .. Len(log[p]) + 1 /\ DOMAIN log[p] = 1 .. Len(log[p])
            BY <5>2 DEF Typed
          <5> QED
            BY <5>1, <5>2, <5>3, SMT
        <4> QED
          BY <2>2, <4>1 DEF Extends, Typed, DecidedTyped
      <3>2. term[p] >= decided[i].term
        BY <1>4, <2>2, <3>1, SMT
      <3>3. Agree(log[p], decided, i)
        BY <2>2, <3>2 DEF Anchored
      <3> QED
        BY <1>2, <1>4, <3>3
    <2> QED
      BY <2>1, <2>2
  <1> QED
    BY <1>3, <1>4

LEMMA ExtendsKeepsDecided ==
    ASSUME Laws, Typed, Typed', DecidedTyped, DecidedInv, NEW p \in Server, NEW e, Extends(p, e),
           history' = history, commitIndex' = commitIndex,
           \A i \in 1 .. Len(decided) :
               Anchored(i) => (LeaderOf(p) /\ term'[p] = term[p]) \/ Agree(log[p], decided, i)
    PROVE  DecidedInv'
  <1> DEFINE D == Len(decided)
  <1>1. decided' = decided /\ commits' = commits /\ Self \in Server
    BY ConfigIsValid DEF history
  <1>2. ASSUME NEW x \in Server, NEW k \in Nat, Agree(log[x], decided, k)
        PROVE  Agree(log'[x], decided, k)
    <2>1. k \in 0 .. Len(log[x]) /\ log[x] \in Seq(Entries)
      BY <1>2, SMT DEF Agree, Typed
    <2>2. log'[x] = log[x] \/ log'[x] = Append(log[x], e)
      BY DEF Extends, Typed
    <2>3. e \in Entries
      BY DEF Extends
    <2>4. Agree(Append(log[x], e), log[x], k)
      BY <2>1, <2>3, AgreeAppend
    <2> QED
      BY <1>2, <2>2, <2>4, AgreeOn
  <1>3. HasQuorum(Config, {x \in Server : Agree(log'[x], decided, D)})
    <2>1. {x \in Server : Agree(log[x], decided, D)} \subseteq {x \in Server : Agree(log'[x], decided, D)}
      BY <1>2 DEF DecidedTyped
    <2> QED
      BY <2>1, Grow DEF DecidedInv
  <1>4. \A i \in 1 .. D : Anchored(i) => Anchored(i)'
    BY <1>1, ExtendsKeepsAnchors
  <1>5. Agree(log'[Self], decided, commitIndex)
    BY <1>1, <1>2 DEF DecidedInv, DecidedTyped
  <1>6. ASSUME commitIndex > 0
        PROVE  \E i \in commitIndex .. D : decided[i].term <= term'[Self] /\ Anchored(i)'
    <2>1. PICK i \in commitIndex .. D : decided[i].term <= term[Self] /\ Anchored(i)
      BY <1>6 DEF DecidedInv
    <2>2. i \in 1 .. D /\ decided[i].term \in Nat
      BY <1>6, <2>1, SMT DEF DecidedTyped
    <2>3. term[Self] \in Nat /\ term'[Self] \in Nat /\ term[Self] <= term'[Self]
      BY <1>1 DEF Extends, Typed
    <2> QED
      BY <1>4, <2>1, <2>2, <2>3, SMT
  <1> QED
    BY <1>1, <1>3, <1>4, <1>5, <1>6 DEF DecidedInv, DecidedTyped

\* The winner of an election has everything that is decided.
LEMMA WinnerHolds ==
    ASSUME Laws, Typed, LogsInv, DecidedTyped, DecidedInv, NEW n, NEW t, NEW voters, Wins(n, t, voters),
           NEW i \in 1 .. Len(decided), Anchored(i)
    PROVE  Agree(log[n], decided, i)
  <1>1. PICK v \in voters : v \in {x \in Server : Agree(log[x], decided, Len(decided))}
    BY Meet DEF Wins, DecidedInv
  <1>2. n \in Server /\ v \in Server /\ UpToDate(log[n], log[v])
    BY <1>1 DEF Wins
  <1>3. Agree(log[v], decided, i)
    BY <1>1, <1>2, AgreeLess, SMT DEF Typed, DecidedTyped
  <1>4. Later(n, decided[i].term) => Agree(log[n], decided, i)
    BY <1>2 DEF Anchored
  <1> QED
    BY <1>2, <1>3, <1>4, UpToDateHolds DEF DecidedTyped

LEMMA DecidedAfterElection ==
    ASSUME Laws, Typed, Typed', LogsInv, DecidedTyped, DecidedInv, NEW n, NEW t, NEW voters,
           Wins(n, t, voters), history' = history, commitIndex' = commitIndex
    PROVE  DecidedInv'
  BY WinnerExtends, WinnerHolds, ExtendsKeepsDecided

\* A commit: no log changes, and the decided log grows, if at all, by what a
\* quorum holds, up to an index whose entry is anchored.
LEMMA DecidedGrows ==
    ASSUME Typed, DecidedTyped, DecidedTyped', DecidedInv, cluster' = cluster,
           Agree(decided', decided, Len(decided)),
           HasQuorum(Config, {x \in Server : Agree(log[x], decided', Len(decided'))}),
           commits' = commits \/ (commits' = commits \cup {Len(decided')} /\ Anchored(Len(decided))'),
           decided' = decided \/ Len(decided') \in commits',
           \/ commitIndex' = commitIndex
           \/ /\ commitIndex' \in 1 .. Len(decided') /\ Agree(log[Self], decided', commitIndex')
              /\ decided'[commitIndex'].term <= term[Self] /\ Anchored(commitIndex)'
    PROVE  DecidedInv'
  <1>1. term' = term /\ role' = role /\ log' = log /\ Self \in Server
    BY ConfigIsValid DEF cluster
  <1>2. \A i \in 1 .. Len(decided) : decided'[i] = decided[i] /\ i \in 1 .. Len(decided')
    BY SMT DEF Agree, DecidedTyped
  <1>3. ASSUME NEW i \in 1 .. Len(decided), Anchored(i)
        PROVE  Anchored(i)'
    <2> SUFFICES ASSUME NEW n \in Server, Agree(log[n], decided, i)
                 PROVE  Agree(log[n], decided', i)
      BY <1>1, <1>2, <1>3 DEF Anchored, LeaderOf, Later
    <2>1. Agree(decided', decided, i)
      BY AgreeLess, SMT DEF DecidedTyped
    <2> QED
      BY <2>1, AgreeBack, AgreeOn
  <1>4. HasQuorum(Config, {x \in Server : Agree(log'[x], decided', Len(decided'))})
    BY <1>1
  <1>5. \A i \in commits' : Anchored(i)'
    <2> SUFFICES ASSUME NEW i \in commits' PROVE Anchored(i)'
      OBVIOUS
    <2>1. CASE i \in commits
      BY <1>3, <2>1 DEF DecidedInv, DecidedTyped
    <2>2. CASE i \notin commits
      <3>1. i = Len(decided') /\ Anchored(Len(decided))'
        BY <2>2
      <3> QED
        BY <3>1 DEF Anchored
    <2> QED
      BY <2>1, <2>2
  <1>6. decided' # <<>> => Len(decided') \in commits'
    BY SMT DEF DecidedInv
  <1>7. CASE commitIndex' = commitIndex
    <2>1. Agree(log'[Self], decided', commitIndex')
      <3>1. Agree(log[Self], decided, commitIndex) /\ commitIndex \in 0 .. Len(decided)
        BY SMT DEF DecidedInv, DecidedTyped, Agree
      <3>2. Agree(decided', decided, commitIndex)
        BY <3>1, AgreeLess, SMT DEF DecidedTyped
      <3> QED
        BY <1>1, <1>7, <3>1, <3>2, AgreeBack, AgreeOn
    <2>2. ASSUME commitIndex > 0
          PROVE  \E i \in commitIndex .. Len(decided') : decided'[i].term <= term[Self] /\ Anchored(i)'
      <3>1. PICK i \in commitIndex .. Len(decided) : decided[i].term <= term[Self] /\ Anchored(i)
        BY <2>2 DEF DecidedInv
      <3>2. i \in 1 .. Len(decided)
        BY <2>2, <3>1, SMT DEF DecidedTyped
      <3>3. i \in commitIndex .. Len(decided') /\ decided'[i] = decided[i]
        BY <1>2, <3>1, <3>2, SMT DEF DecidedTyped
      <3> QED
        BY <1>3, <3>1, <3>2, <3>3
    <2> QED
      BY <1>1, <1>4, <1>5, <1>6, <1>7, <2>1, <2>2 DEF DecidedInv
  <1>8. CASE /\ commitIndex' \in 1 .. Len(decided') /\ Agree(log[Self], decided', commitIndex')
             /\ decided'[commitIndex'].term <= term[Self] /\ Anchored(commitIndex)'
    <2>1. \E i \in commitIndex' .. Len(decided') : decided'[i].term <= term'[Self] /\ Anchored(i)'
      <3>1. PICK k : k = commitIndex'
        OBVIOUS
      <3>2. Anchored(k)'
        BY <1>8, <3>1 DEF Anchored
      <3>3. k \in commitIndex' .. Len(decided')
        BY <1>8, <3>1, SMT DEF DecidedTyped
      <3> QED
        BY <1>1, <1>8, <3>1, <3>2, <3>3
    <2> QED
      BY <1>1, <1>4, <1>5, <1>6, <1>8, <2>1 DEF DecidedInv
  <1> QED
    BY <1>7, <1>8

\* PeerCommits: nobody has reached a later term, so nobody has led since.
LEMMA PeerCommitsDecides ==
    ASSUME Laws, Typed, TermsInv, LogsInv, DecidedTyped, DecidedTyped', DecidedInv,
           NEW p \in Peer, PeerCommits(p)
    PROVE  DecidedInv' /\ Agree(decided', decided, Len(decided))
  <1> DEFINE holders == {x \in Server : term[x] <= term[p] /\ StartOf(log[p], log[x])}
             L == Len(log[p])
  <1>1. /\ p \in Server /\ LeaderOf(p) /\ L > Len(decided) /\ log[p][L].term = term[p]
        /\ HasQuorum(Config, holders) /\ decided' = log[p] /\ commits' = commits \cup {L}
        /\ cluster' = cluster /\ commitIndex' = commitIndex
    BY ConfigIsValid DEF PeerCommits, LeaderOf, cluster, boundaries
  <1>2. /\ log[p] \in Seq(Entries) /\ L \in Nat /\ Len(decided) \in Nat /\ L \in 1 .. L
        /\ term[p] \in Nat
    BY <1>1 DEF Typed, DecidedTyped
  <1>3. \A x \in holders : x \in Server /\ term[x] <= term[p] /\ Agree(log[x], log[p], L)
    BY <1>2, PrefixAgrees, AgreeBack DEF Typed
  <1>4. \A n \in Server : term[n] <= term[p]
    <2> SUFFICES ASSUME NEW n \in Server PROVE term[n] <= term[p]
      OBVIOUS
    <2>1. PICK x \in holders : x \in Reached(term[n])
      BY <1>1, Meet DEF TermsInv
    <2> QED
      BY <1>2, <1>3, <2>1, SMT DEF Reached, Typed
  <1>5. Agree(log[p], decided, Len(decided))
    <2>1. PICK x \in holders : x \in {y \in Server : Agree(log[y], decided, Len(decided))}
      BY <1>1, Meet DEF DecidedInv
    <2>2. Agree(log[p], log[x], Len(decided))
      BY <1>1, <1>2, <1>3, AgreeLess, AgreeBack, SMT DEF Typed
    <2> QED
      BY <2>1, <2>2, AgreeOn
  <1>6. HasQuorum(Config, {x \in Server : Agree(log[x], decided', Len(decided'))})
    <2>1. holders \subseteq {x \in Server : Agree(log[x], log[p], L)}
      BY <1>3
    <2> QED
      BY <1>1, <2>1, Grow
  <1>7. ASSUME NEW n \in Server, (LeaderOf(n) /\ term[n] >= term[p]) \/ Later(n, term[p])
        PROVE  Agree(log[n], log[p], L)
    <2>1. ~Later(n, term[p])
      BY <1>2, <1>4, SMT DEF Later, LogsInv, Typed
    <2>2. LeaderOf(n) /\ term[n] = term[p]
      BY <1>2, <1>4, <1>7, <2>1, SMT DEF Typed
    <2>3. n = p
      BY <1>1, <2>2 DEF TermsInv
    <2> QED
      BY <1>2, <2>3, AgreeSame, SMT
  <1>8. Anchored(Len(decided))'
    BY <1>1, <1>7 DEF Anchored, cluster, LeaderOf, Later
  <1>9. DecidedInv'
    BY <1>1, <1>5, <1>6, <1>8, DecidedGrows
  <1> QED
    BY <1>1, <1>5, <1>9

\* AdvanceCommitIndex: an index the leader advances to is held by a quorum and by
\* whoever leads in this term or later.
LEMMA FrontierIsHeld ==
    ASSUME Laws, Types, Typed, TermsInv, LogsInv, EvidenceInv, Leads, Frontier # commitIndex
    PROVE  /\ Frontier \in 1 .. Len(log[Self]) /\ Frontier > commitIndex
           /\ log[Self][Frontier].term = term[Self]
           /\ HasQuorum(Config, {x \in Server : Agree(log[x], log[Self], Frontier)})
           /\ \A n \in Server : (LeaderOf(n) /\ term[n] >= term[Self]) \/ Later(n, term[Self])
                  => Agree(log[n], log[Self], Frontier)
  <1> DEFINE held == [n \in Server |-> IF n = Self THEN Len(log[Self]) ELSE matchIndex[n]]
             k == QuorumIndex(Config, held)
             L == Len(log[Self])
             holders == {x \in Server : held[x] >= k}
  <1>1. /\ Self \in Server /\ Peer = Server \ {Self} /\ L \in Nat /\ DOMAIN log[Self] = 1 .. L
        /\ term[Self] \in Nat /\ commitIndex \in Nat /\ log[Self] \in Seq(Entries)
    BY ConfigIsValid, SMT DEF Typed, Types
  <1>2. \A p \in Peer : matchIndex[p] \in 0 .. L
    BY DEF Types
  <1>3. held \in [Server -> Nat] /\ \A n \in Server : held[n] <= L
    BY <1>1, <1>2, SMT
  <1>4. /\ Frontier = k /\ k > commitIndex /\ log[Self][k].term = term[Self]
    BY DEF Frontier
  <1> HIDE DEF held
  <1>5. /\ k \in Nat /\ \E m \in Server : k = held[m]
        /\ HasQuorum(Config, holders)
    BY <1>3 DEF Laws, QuorumIndexHeld
  <1> HIDE DEF k
  <1>6. k \in 1 .. L
    BY <1>1, <1>3, <1>4, <1>5, SMT
  <1>7. HasQuorum(Config, Counted(k))
    <2>1. holders \subseteq Counted(k)
      BY DEF Counted, held
    <2> QED
      BY <1>5, <2>1, Grow
  <1>8. \A n \in Peer : matchIndex[n] >= k \/ (LeaderOf(n) /\ term[n] > term[Self]) \/ Later(n, term[Self])
            => Agree(log[n], log[Self], k)
    BY <1>1, <1>4, <1>6, <1>7 DEF EvidenceInv, MatchesInv
  <1>9. Agree(log[Self], log[Self], k)
    BY <1>6, AgreeSame, SMT
  <1>10. HasQuorum(Config, {x \in Server : Agree(log[x], log[Self], k)})
    <2>1. \A x \in holders : Agree(log[x], log[Self], k)
      BY <1>1, <1>8, <1>9 DEF held
    <2>2. holders \subseteq {x \in Server : Agree(log[x], log[Self], k)}
      BY <2>1
    <2> QED
      BY <1>5, <2>2, Grow
  <1>11. ASSUME NEW n \in Server, (LeaderOf(n) /\ term[n] >= term[Self]) \/ Later(n, term[Self])
         PROVE  Agree(log[n], log[Self], k)
    <2>1. CASE n = Self
      BY <1>9, <2>1
    <2>2. CASE n # Self
      <3>1. LeaderOf(n) /\ term[n] >= term[Self] => term[n] > term[Self]
        BY <1>1, <2>2, SMT DEF TermsInv, LeaderOf, Leads, Typed
      <3> QED
        BY <1>1, <1>8, <1>11, <2>2, <3>1
    <2> QED
      BY <2>1, <2>2
  <1> QED
    BY <1>4, <1>6, <1>10, <1>11

LEMMA TickLeaderDecides ==
    ASSUME Laws, Types, Typed, TermsInv, LogsInv, DecidedTyped, DecidedInv, EvidenceInv, TickLeader
    PROVE  /\ DecidedInv' /\ DecidedTyped' /\ Agree(decided', decided, Len(decided))
           /\ commitIndex' \in commitIndex .. Len(log[Self])
           /\ decided' = decided \/ Len(decided') = commitIndex'
  <1> DEFINE L == Len(log[Self])
             D == Len(decided)
             k == Frontier
  <1>1. /\ Self \in Server /\ L \in Nat /\ log[Self] \in Seq(Entries) /\ D \in Nat
        /\ commitIndex \in 0 .. L /\ commitIndex <= D
        /\ cluster' = cluster /\ commitIndex' = k /\ Leads
    BY ConfigIsValid DEF Typed, Types, TickLeader, DecidedInv, DecidedTyped, Agree
  <1>2. /\ k > D => decided' = SubSeq(log[Self], 1, k) /\ commits' = commits \cup {k}
        /\ ~(k > D) => decided' = decided /\ commits' = commits
    BY DEF TickLeader, history
  <1>3. CASE k = commitIndex
    <2>1. decided' = decided /\ commits' = commits /\ commitIndex' = commitIndex
      BY <1>1, <1>2, <1>3, SMT
    <2>2. Agree(decided', decided, D) /\ DecidedTyped'
      BY <1>1, <2>1, AgreeSame, SMT DEF DecidedTyped
    <2>3. HasQuorum(Config, {x \in Server : Agree(log[x], decided', Len(decided'))})
      BY <2>1 DEF DecidedInv
    <2>4. DecidedInv'
      BY <1>1, <2>1, <2>2, <2>3, DecidedGrows
    <2> QED
      BY <1>1, <2>1, <2>2, <2>4, SMT
  <1>4. CASE k # commitIndex
    <2>1. /\ k \in 1 .. L /\ k > commitIndex /\ log[Self][k].term = term[Self] /\ k \in Nat
          /\ HasQuorum(Config, {x \in Server : Agree(log[x], log[Self], k)})
          /\ \A n \in Server : (LeaderOf(n) /\ term[n] >= term[Self]) \/ Later(n, term[Self])
                 => Agree(log[n], log[Self], k)
      BY <1>1, <1>4, FrontierIsHeld, SMT
    <2> HIDE DEF k
    <2>2. PICK x \in Server : Agree(log[x], log[Self], k) /\ Agree(log[x], decided, D)
      <3>1. PICK x \in {y \in Server : Agree(log[y], log[Self], k)} :
                x \in {y \in Server : Agree(log[y], decided, D)}
        BY <2>1, Meet DEF DecidedInv
      <3> QED
        BY <3>1
    <2>3. log[x] \in Seq(Entries) /\ decided \in Seq(Entries)
      BY DEF Typed, DecidedTyped
    \* the new decided log agrees with the old one and with the leader's
    <2>4. /\ decided' \in Seq(Entries) /\ k <= Len(decided')
          /\ Agree(decided', decided, D) /\ Agree(decided', log[Self], k)
          /\ HasQuorum(Config, {y \in Server : Agree(log[y], decided', Len(decided'))})
          /\ k > D => Len(decided') = k
      <3>1. CASE k > D
        <4>1. decided' \in Seq(Entries) /\ Len(decided') = k /\ Agree(decided', log[Self], k)
          <5>1. k \in 0 .. L
            BY <1>1, <2>1, SMT
          <5> QED
            BY <1>1, <1>2, <3>1, <5>1, SubSeqAgrees
        <4>2. Agree(decided', log[x], k)
          BY <2>2, <4>1, AgreeBack, AgreeOn
        <4>3. Agree(decided', log[x], D)
          BY <1>1, <2>1, <2>3, <3>1, <4>1, <4>2, AgreeLess, SMT
        <4>4. Agree(decided', decided, D)
          BY <2>2, <4>3, AgreeOn
        <4>5. {y \in Server : Agree(log[y], log[Self], k)} \subseteq
              {y \in Server : Agree(log[y], decided', Len(decided'))}
          BY <4>1, AgreeBack, AgreeOn
        <4> QED
          BY <2>1, <4>1, <4>4, <4>5, Grow, SMT
      <3>2. CASE ~(k > D)
        <4>1. decided' = decided /\ k <= D
          BY <1>1, <1>2, <2>1, <3>2, SMT
        <4>2. Agree(log[x], decided, k)
          BY <1>1, <2>1, <2>2, <2>3, <4>1, AgreeLess
        <4>3. Agree(decided, log[Self], k)
          BY <2>2, <4>2, AgreeBack, AgreeOn
        <4> QED
          BY <1>1, <2>3, <3>2, <4>1, <4>3, AgreeSame, SMT DEF DecidedInv
      <3> QED
        BY <3>1, <3>2
    <2>5. Len(decided') \in Nat /\ commits' \subseteq 1 .. Len(decided') /\ DecidedTyped'
      <3>1. Len(decided') \in Nat /\ D <= Len(decided')
        BY <2>4, EntryTypes DEF Agree
      <3>2. commits' \subseteq 1 .. Len(decided')
        <4>1. ASSUME NEW i \in commits PROVE i \in 1 .. Len(decided')
          <5>1. i \in 1 .. D
            BY <4>1 DEF DecidedTyped
          <5> QED
            BY <1>1, <3>1, <5>1, SMT
        <4>2. k > D => k \in 1 .. Len(decided')
          BY <2>1, <2>4, SMT
        <4> QED
          BY <1>2, <4>1, <4>2
      <3> QED
        BY <1>1, <2>1, <2>4, <3>2, EntryTypes DEF DecidedTyped
    <2>6. decided'[k] = log[Self][k] /\ Agree(log[Self], decided', k)
      BY <2>1, <2>4, AgreeAt, AgreeBack, SMT
    <2>7. ASSUME NEW n \in Server,
                 (LeaderOf(n) /\ term[n] >= decided'[k].term) \/ Later(n, decided'[k].term)
          PROVE  Agree(log[n], decided', k)
      BY <2>1, <2>6, <2>7, AgreeOn
    <2>8. Anchored(commitIndex)' /\ (k > D => Anchored(Len(decided))')
      BY <1>1, <2>4, <2>7 DEF Anchored, cluster, LeaderOf, Later
    <2>9. /\ commitIndex' \in 1 .. Len(decided') /\ Agree(log[Self], decided', commitIndex')
          /\ decided'[commitIndex'].term <= term[Self]
      BY <1>1, <2>1, <2>4, <2>5, <2>6, SMT DEF Typed
    <2>10. /\ commits' = commits \/ (commits' = commits \cup {Len(decided')} /\ Anchored(Len(decided))')
           /\ decided' = decided \/ Len(decided') \in commits'
      BY <1>2, <2>4, <2>8
    <2>11. DecidedInv'
      BY <1>1, <2>4, <2>5, <2>8, <2>9, <2>10, DecidedGrows
    <2> QED
      BY <1>1, <1>2, <2>1, <2>4, <2>5, <2>11, SMT
  <1> QED
    BY <1>3, <1>4

(***************************************************************************)
(* What Self counts                                                         *)
(***************************************************************************)

LEMMA DeposedForgets ==
    ASSUME role'[Self] # "Leader", noopIndex' = 0, matchIndex' = [p \in Peer |-> 0],
           lastAck' = [p \in Peer |-> 0], roundSeq' \in Nat
    PROVE  EvidenceInv'
  BY SMT DEF EvidenceInv, MatchesInv, FloorInv, Leads

\* A round that is counted has brought the peer's log up to what it is counted
\* for, in a term Self leads.
LEMMA CopiesKeepMatches ==
    ASSUME Laws, Types, Typed, Typed', TermsInv, LogsInv, EvidenceInv, NEW src, Copies(src),
           role'[Self] = "Leader",
           \A n \in Peer : \/ matchIndex'[n] = matchIndex[n]
                           \/ /\ matchIndex'[n] \in Nat /\ term[n] <= term[Self] /\ term'[n] = term[Self]
                              /\ Agree(log'[n], log[Self], matchIndex'[n])
    PROVE  MatchesInv' /\ \A p \in Peer : matchIndex'[p] > 0 => term'[p] >= term'[Self]
  <1> DEFINE t == term[Self]
             L == Len(log[Self])
  <1>1. /\ Self \in Server /\ Peer = Server \ {Self} /\ Leads /\ term'[Self] = t /\ t \in Nat
        /\ log'[Self] = log[Self] /\ log[Self] \in Seq(Entries) /\ DOMAIN log[Self] = 1 .. L /\ L \in Nat
    BY ConfigIsValid DEF Copies, LeaderOf, Leads, Typed
  <1>2. \A n \in Peer : /\ n \in Server /\ matchIndex[n] \in Nat /\ matchIndex'[n] \in Nat
                        /\ term[n] \in Nat /\ term'[n] \in Nat /\ term[n] <= term'[n]
                        /\ src[n] \in Server /\ log'[n] = log[src[n]]
    <2>1. \A n \in Peer : matchIndex[n] \in 0 .. L
      BY DEF Types
    <2>2. \A n \in Peer : matchIndex[n] \in Nat
      BY <1>1, <2>1, SMT
    <2>3. \A n \in Peer : matchIndex'[n] \in Nat
      BY <2>2
    <2> QED
      BY <1>1, <2>2, <2>3 DEF Typed, Copies
  <1>3. \A p \in Peer : matchIndex'[p] > 0 => term'[p] >= term'[Self]
    BY <1>1, <1>2, SMT DEF EvidenceInv
  <1> SUFFICES ASSUME NEW k \in 1 .. L, log[Self][k].term = t, HasQuorum(Config, Counted(k)'),
                      NEW n \in Peer,
                      \/ matchIndex'[n] >= k
                      \/ role'[n] = "Leader" /\ term'[n] > t
                      \/ \E i \in DOMAIN log'[n] : log'[n][i].term > t
               PROVE  Agree(log'[n], log[Self], k)
    BY <1>1, <1>3 DEF MatchesInv, LeaderOf, Later
  <1>4. HasQuorum(Config, Counted(k))
    <2>1. Counted(k)' \subseteq Counted(k)
      BY <1>1, <1>2, SMT DEF Counted
    <2> QED
      BY <2>1, Grow
  <1>5. \A m \in Peer : matchIndex[m] >= k \/ (LeaderOf(m) /\ term[m] > t) \/ Later(m, t)
            => Agree(log[m], log[Self], k)
    BY <1>1, <1>4 DEF EvidenceInv, MatchesInv
  <1>6. CASE matchIndex'[n] >= k /\ matchIndex'[n] # matchIndex[n]
    <2>1. Agree(log'[n], log[Self], matchIndex'[n]) /\ k <= matchIndex'[n] /\ k \in Nat
      BY <1>6, SMT
    <2> QED
      BY <1>1, <1>2, <2>1, AgreeLess DEF Typed
  <1>7. CASE matchIndex[n] >= k
    <2>1. term[n] >= t
      BY <1>2, <1>7, SMT DEF EvidenceInv
    <2>2. CASE src[n] = n
      BY <1>2, <1>5, <1>7, <2>2
    <2>3. CASE src[n] = Self
      BY <1>1, <1>2, <2>3, AgreeSame, SMT
    <2>4. CASE src[n] # n /\ src[n] # Self
      <3>1. LeaderOf(src[n]) /\ term[src[n]] >= t /\ src[n] \in Peer /\ term[src[n]] \in Nat
        BY <1>1, <1>2, <2>1, <2>4, SMT DEF Copies, Typed
      <3>2. term[src[n]] # t
        BY <1>1, <2>4, <3>1 DEF TermsInv, LeaderOf, Leads
      <3> QED
        BY <1>1, <1>2, <1>5, <3>1, <3>2, SMT
    <2> QED
      BY <2>2, <2>3, <2>4
  <1>8. CASE role'[n] = "Leader" /\ term'[n] > t
    BY <1>2, <1>5, <1>8 DEF Copies
  <1>9. CASE \E i \in DOMAIN log'[n] : log'[n][i].term > t
    <2>1. Later(src[n], t)
      BY <1>2, <1>9 DEF Later
    <2>2. src[n] # Self
      BY <1>1, <2>1, SMT DEF Later, LogsInv, Typed
    <2> QED
      BY <1>1, <1>2, <1>5, <2>1, <2>2
  <1> QED
    BY <1>6, <1>7, <1>8, <1>9

\* A peer is elected without Self's vote.  If a quorum may still be counted for
\* an entry, it was counted for it before it voted.
LEMMA ElectionKeepsMatches ==
    ASSUME Laws, Types, Typed, Typed', TermsInv, LogsInv, EvidenceInv, NEW p \in Peer, NEW t, NEW voters,
           Wins(p, t, voters), role'[Self] = "Leader", matchIndex' = matchIndex
    PROVE  MatchesInv' /\ \A q \in Peer : matchIndex'[q] > 0 => term'[q] >= term'[Self]
  <1> DEFINE s == term[Self]
             L == Len(log[Self])
  <1>1. /\ Self \in Server /\ Peer = Server \ {Self} /\ p \in Server /\ p # Self /\ t \in Nat
        /\ s \in Nat /\ s < t
    BY ConfigIsValid, RequestsAssumption DEF Wins, Typed
  <1>2. /\ Self \notin voters /\ Leads /\ term'[Self] = s /\ log'[Self] = log[Self]
        /\ log[Self] \in Seq(Entries) /\ DOMAIN log[Self] = 1 .. L /\ L \in Nat
    BY <1>1 DEF Wins, Leads, Typed
  <1>3. \A n \in Peer : matchIndex[n] \in Nat
    <2>1. \A n \in Peer : matchIndex[n] \in 0 .. L
      BY DEF Types
    <2> QED
      BY <1>2, <2>1, SMT
  <1>4. \A n \in Server : /\ term[n] \in Nat /\ term'[n] = IF n \in voters THEN t ELSE term[n]
                          /\ term[n] < t
    BY DEF Wins, Typed
  <1>5. \A q \in Peer : matchIndex'[q] > 0 => term'[q] >= term'[Self]
    BY <1>1, <1>2, <1>3, <1>4, SMT DEF EvidenceInv
  <1> SUFFICES ASSUME NEW k \in 1 .. L, log[Self][k].term = s, HasQuorum(Config, Counted(k)'),
                      NEW n \in Peer,
                      \/ matchIndex[n] >= k
                      \/ role'[n] = "Leader" /\ term'[n] > s
                      \/ \E i \in DOMAIN log'[n] : log'[n][i].term > s
               PROVE  Agree(log'[n], log[Self], k)
    BY <1>2, <1>5 DEF MatchesInv, LeaderOf, Later
  <1>6. HasQuorum(Config, Counted(k))
    <2>1. Counted(k)' \subseteq Counted(k)
      BY <1>1, <1>2, <1>4, SMT DEF Counted
    <2> QED
      BY <2>1, Grow
  <1>7. \A m \in Peer : matchIndex[m] >= k \/ (LeaderOf(m) /\ term[m] > s) \/ Later(m, s)
            => Agree(log[m], log[Self], k)
    BY <1>2, <1>6 DEF EvidenceInv, MatchesInv
  <1>8. Agree(log[p], log[Self], k)
    <2>1. PICK v \in voters : v \in Counted(k)'
      BY Meet DEF Wins
    <2>2. v \in Peer /\ v \in Server /\ matchIndex[v] >= k
      BY <1>1, <1>2, <1>4, <2>1, SMT DEF Counted
    <2>3. Agree(log[v], log[Self], k)
      BY <1>7, <2>2
    <2>4. Later(p, s) => Agree(log[p], log[Self], k)
      BY <1>7
    <2>5. UpToDate(log[p], log[v])
      BY <2>1 DEF Wins
    <2> QED
      BY <1>1, <1>2, <2>2, <2>3, <2>4, <2>5, UpToDateHolds
  <1>9. CASE n = p
    <2>1. /\ log'[p] = Append(log[p], NoOp(t)) /\ log[p] \in Seq(Entries) /\ NoOp(t) \in Entries
          /\ k \in 0 .. Len(log[p])
      <3>1. log'[p] = Append(log[p], NoOp(t)) /\ NoOp(t) \in Entries
        <4>1. Extends(p, NoOp(t)) /\ log \in [Server -> Seq(Entries)]
          BY WinnerExtends DEF Typed
        <4> QED
          BY <1>1, <4>1 DEF Extends
      <3>2. log[p] \in Seq(Entries) /\ Len(log[p]) \in Nat /\ k <= Len(log[p])
        BY <1>1, <1>8 DEF Typed, Agree
      <3> QED
        BY <1>1, <1>2, <3>1, <3>2, SMT
    <2> QED
      BY <1>8, <1>9, <2>1, AgreeAppend, AgreeOn, SMT
  <1>10. CASE n # p
    <2>1. log'[n] = log[n] /\ (role'[n] = "Leader" => LeaderOf(n) /\ term'[n] = term[n])
      BY <1>1, <1>4, <1>10 DEF Wins, Typed, LeaderOf
    <2> QED
      BY <1>7, <2>1 DEF Later
  <1> QED
    BY <1>9, <1>10

\* Nobody is counted for a new entry, and a quorum may be only if no later term
\* has begun.
LEMMA ProposalKeepsMatches ==
    ASSUME Laws, Types, Typed, Typed', TermsInv, LogsInv, EvidenceInv, Leads, NEW e \in Entries,
           e.term = term[Self], log' = [log EXCEPT ![Self] = Append(@, e)],
           term' = term, role' = role, matchIndex' = matchIndex
    PROVE  MatchesInv'
  <1> DEFINE s == term[Self]
             L == Len(log[Self])
  <1>1. /\ Self \in Server /\ Peer = Server \ {Self} /\ s \in Nat /\ L \in Nat
        /\ log'[Self] = Append(log[Self], e) /\ log[Self] \in Seq(Entries) /\ DOMAIN log[Self] = 1 .. L
        /\ \A n \in Peer : log'[n] = log[n]
    BY ConfigIsValid DEF Typed
  <1>2. /\ Len(log'[Self]) = L + 1 /\ \A i \in 1 .. L : log'[Self][i] = log[Self][i]
    BY <1>1, AgreeAppend, SMT
  <1>3. \A n \in Peer : matchIndex[n] \in 0 .. L
    BY DEF Types
  <1>4. DOMAIN log'[Self] = 1 .. L + 1
    BY <1>1, <1>2 DEF Typed
  <1> SUFFICES ASSUME NEW k \in 1 .. L + 1, log'[Self][k].term = s, HasQuorum(Config, Counted(k)'),
                      NEW n \in Peer,
                      matchIndex[n] >= k \/ (LeaderOf(n) /\ term[n] > s) \/ Later(n, s)
               PROVE  Agree(log[n], log'[Self], k)
    BY <1>1, <1>4 DEF MatchesInv, LeaderOf, Later
  <1>5. HasQuorum(Config, Counted(k))
    <2>1. Counted(k)' = Counted(k)
      BY DEF Counted
    <2> QED
      BY <2>1
  <1>6. CASE k \in 1 .. L
    <2>1. Agree(log[n], log[Self], k)
      BY <1>1, <1>2, <1>5, <1>6 DEF EvidenceInv, MatchesInv
    <2>2. k \in 0 .. L
      BY <1>6, SMT
    <2> QED
      BY <1>1, <2>1, <2>2, AgreeAppend, AgreeBack, AgreeOn, SMT
  <1>7. CASE k = L + 1
    <2>1. \A x \in Counted(k) : term[x] <= s
      BY <1>1, <1>3, <1>7, SMT DEF Counted
    <2>2. ASSUME NEW x \in Server PROVE term[x] <= s
      <3>1. PICK y \in Counted(k) : y \in Reached(term[x])
        BY <1>5, Meet DEF TermsInv
      <3> QED
        BY <1>1, <2>1, <3>1, SMT DEF Reached, Typed
    <2>3. ~Later(n, s) /\ ~(term[n] > s) /\ ~(matchIndex[n] >= k)
      BY <1>1, <1>3, <1>7, <2>2, SMT DEF Later, LogsInv, Typed
    <2> QED
      BY <2>3
  <1> QED
    BY <1>1, <1>6, <1>7, SMT

(***************************************************************************)
(* The cluster and Self, step by step                                       *)
(***************************************************************************)

LEMMA NodeTypes ==
    ASSUME NodeInv
    PROVE  /\ Laws /\ Typed /\ DecidedTyped /\ Self \in Server /\ Peer = Server \ {Self}
           /\ Terms \subseteq Nat /\ MaxRounds \in Nat
           /\ Len(log[Self]) \in Nat /\ commitIndex \in Nat /\ lastApplied \in Nat /\ noopIndex \in Nat
           /\ roundSeq \in Nat
  <1>1. Laws /\ Typed /\ DecidedTyped /\ Self \in Server /\ Peer = Server \ {Self}
    BY TypesTyped, TypesDecidedTyped, ConfigIsValid DEF NodeInv
  <1>2. Terms \subseteq Nat /\ MaxRounds \in Nat
    BY RequestsAssumption, SMT DEF Terms
  <1>3. Len(log[Self]) \in Nat
    BY <1>1 DEF Typed
  <1> QED
    BY <1>1, <1>2, <1>3, SMT DEF NodeInv, Types

LEMMA TypedAgain ==
    ASSUME term' \in [Server -> Terms], log' \in [Server -> Seq(Entries)]
    PROVE  Typed'
  <1>1. Terms \subseteq Nat
    BY RequestsAssumption, SMT DEF Terms
  <1>2. \A n \in Server : log'[n] \in Seq(Entries)
    OBVIOUS
  <1> QED
    BY <1>1, <1>2, EntryTypes DEF Typed

\* A quorum that has reached a term has reached it for good.
LEMMA ReachedForGood ==
    ASSUME Laws, Typed, Typed', \A n \in Server : term[n] <= term'[n],
           NEW t \in Nat, HasQuorum(Config, Reached(t))
    PROVE  HasQuorum(Config, Reached(t)')
  <1>1. \A x \in Server : term[x] \in Nat /\ term'[x] \in Nat /\ term[x] <= term'[x]
    BY DEF Typed
  <1>2. Reached(t) \subseteq Reached(t)'
    BY <1>1, SMT DEF Reached
  <1> QED
    BY <1>2, Grow

\* Reports stay true while they wait.
LEMMA ReportsWait ==
    ASSUME Laws, Typed, Typed', ReportsInv, \A n \in Server : term[n] <= term'[n],
           roundSeq \in Nat, roundSeq' \in Nat, roundSeq <= roundSeq',
           \A p \in Peer : \/ report'[p] = report[p]
                           \/ report'[p] = NoReport
                           \/ report'[p] \in [at : {"ack"}, startSeq : 1 .. roundSeq']
                           \/ /\ report'[p] \in [at : {"higher"}, term : Terms]
                              /\ HasQuorum(Config, Reached(report'[p].term))
    PROVE  ReportsInv'
  <1>1. Terms \subseteq Nat
    BY RequestsAssumption, SMT DEF Terms
  <1> SUFFICES ASSUME NEW p \in Peer
               PROVE  \/ report'[p] = NoReport
                      \/ report'[p] \in [at : {"ack"}, startSeq : 1 .. roundSeq']
                      \/ /\ report'[p] \in [at : {"higher"}, term : Terms]
                         /\ HasQuorum(Config, Reached(report[p].term)')
    BY DEF ReportsInv
  <1>2. ASSUME report'[p] \in [at : {"higher"}, term : Terms],
               HasQuorum(Config, Reached(report'[p].term))
        PROVE  HasQuorum(Config, Reached(report[p].term)')
    <2>1. PICK t \in Nat : t = report'[p].term
      BY <1>1, <1>2
    <2>2. HasQuorum(Config, Reached(t)')
      BY <1>2, <2>1, ReachedForGood
    <2> QED
      BY <2>1, <2>2 DEF Reached
  <1>3. CASE report'[p] = report[p]
    <2>1. CASE report[p] \in [at : {"ack"}, startSeq : 1 .. roundSeq]
      BY <1>3, <2>1, SMT
    <2> QED
      BY <1>2, <1>3, <2>1 DEF ReportsInv
  <1> QED
    BY <1>2, <1>3

\* They do while Self starts no round and its reports are only read.
LEMMA ReportsKept ==
    ASSUME NodeInv, Typed', \A n \in Server : term[n] <= term'[n], roundSeq' = roundSeq,
           \A p \in Peer : report'[p] = report[p] \/ report'[p] = NoReport
    PROVE  ReportsInv'
  <1>1. Laws /\ Typed /\ ReportsInv /\ roundSeq \in Nat
    BY NodeTypes DEF NodeInv
  <1>2. roundSeq <= roundSeq'
    BY <1>1, SMT
  <1> QED
    BY <1>1, <1>2, ReportsWait

\* What is read of a report.
LEMMA ReportFacts ==
    ASSUME ReportsInv, NEW p \in Peer
    PROVE  /\ report[p].at = "ack" => report[p].startSeq \in 1 .. roundSeq
           /\ report[p].at = "higher" =>
                 report[p].term \in Terms /\ HasQuorum(Config, Reached(report[p].term))
  BY SMT DEF ReportsInv, NoReport

\* Indices and terms that stay in range.


LEMMA SameTerms ==
    ASSUME Typed, term' = term
    PROVE  \A n \in Server : term[n] <= term'[n]
  BY SMT DEF Typed



LEMMA OneLonger ==
    ASSUME NEW l \in Seq(Entries), NEW e \in Entries
    PROVE  Len(Append(l, e)) = Len(l) + 1
  BY SMT

LEMMA MaxIsBound ==
    ASSUME NEW b \in Nat, NEW a \in 0 .. b
    PROVE  Max({a, b}) = b
  <1>1. a \in Nat /\ (a >= b => a = b)
    BY SMT
  <1> QED
    BY <1>1, MaxOfTwo

LEMMA AgreeRange ==
    ASSUME NEW l, NEW d, NEW k \in Nat, Len(l) \in Nat, Agree(l, d, k)
    PROVE  k \in 0 .. Len(l)
  BY SMT DEF Agree

LEMMA AppliedRange ==
    ASSUME NodeInv, NEW k \in Nat, commitIndex <= k
    PROVE  /\ lastApplied \in 0 .. k
           /\ lastApplied' \in {lastApplied, commitIndex} => lastApplied' \in 0 .. k
  <1>1. lastApplied \in 0 .. commitIndex /\ commitIndex \in Nat
    BY NodeTypes DEF NodeInv, Types
  <1> QED
    BY <1>1, SMT

LEMMA FloorStays ==
    ASSUME Typed, Typed', FloorInv, \A n \in Server : term[n] <= term'[n],
           role'[Self] = "Leader" => Leads /\ term'[Self] = term[Self],
           decided' = decided, noopIndex' = noopIndex, commitIndex \in Nat, commitIndex' \in Nat,
           Len(decided) \in Nat, commitIndex <= commitIndex'
    PROVE  FloorInv'
  <1> SUFFICES ASSUME role'[Self] = "Leader", \A x \in Server : term'[x] <= term'[Self]
               PROVE  Len(decided) <= commitIndex' \/ Len(decided) <= noopIndex
    BY DEF FloorInv, Leads
  <1>1. \A x \in Server : term[x] <= term[Self]
    BY ConfigIsValid, SMT DEF Typed
  <1> QED
    BY <1>1, SMT DEF FloorInv

\* What a step that may depose Self leaves of the evidence.
LEMMA KeepsEvidence ==
    ASSUME NodeInv, Typed', Keeps, \A n \in Server : term[n] <= term'[n],
           roundSeq' = roundSeq, decided' = decided, commitIndex' \in Nat, commitIndex <= commitIndex',
           role'[Self] = "Leader" => /\ Leads /\ term'[Self] = term[Self] /\ log'[Self] = log[Self]
                                     /\ matchIndex' = matchIndex => MatchesInv'
    PROVE  /\ EvidenceInv'
           /\ matchIndex' \in [Peer -> 0 .. Len(log'[Self])] /\ noopIndex' \in 0 .. Len(log'[Self])
           /\ lastAck' \in [Peer -> 0 .. MaxRounds] /\ reachable' \subseteq Peer
  <1> USE NodeTypes
  <1>1. CASE role'[Self] # "Leader"
    <2>1. /\ noopIndex' = 0 /\ matchIndex' = [p \in Peer |-> 0] /\ lastAck' = [p \in Peer |-> 0]
          /\ reachable' = {}
      BY <1>1 DEF Keeps, Deposed
    <2>2. Len(log'[Self]) \in Nat
      BY DEF Typed
    <2> QED
      BY <1>1, <2>1, <2>2, DeposedForgets, SMT
  <1>2. CASE role'[Self] = "Leader"
    <2>1. /\ matchIndex' = matchIndex /\ noopIndex' = noopIndex /\ lastAck' = lastAck
          /\ reachable' = reachable
      BY <1>2 DEF Keeps, Deposed, evidence
    <2>2. FloorInv'
      BY <1>2, <2>1, FloorStays DEF NodeInv, EvidenceInv, DecidedTyped
    <2>3. \A p \in Peer : matchIndex'[p] > 0 => term'[p] >= term'[Self]
      BY <1>2, <2>1, SMT DEF NodeInv, EvidenceInv, Typed
    <2>4. MatchesInv'
      BY <1>2, <2>1
    <2> QED
      BY <1>2, <2>1, <2>2, <2>3, <2>4 DEF EvidenceInv, NodeInv, Types, Leads
  <1> QED
    BY <1>1, <1>2

\* AppendEntries and its receiver: the terms, the roles and the logs.
LEMMA AcceptsCopies ==
    ASSUME NodeInv, NEW from \in Server, NEW to \in Server, Accepts(from, to),
           log' = log \/ log' = [log EXCEPT ![to] = log[from]]
    PROVE  /\ \E src : Copies(src)
           /\ term' \in [Server -> Terms] /\ role' \in [Server -> {"Follower", "Leader"}]
           /\ log' \in [Server -> Seq(Entries)] /\ Typed' /\ TermsInv'
           /\ \A n \in Server : term[n] <= term'[n]
           /\ \A n \in Server : role'[n] = "Leader" =>
                  LeaderOf(n) /\ n # to /\ term'[n] = term[n] /\ log'[n] = log[n]
  <1> USE NodeTypes
  <1>1. /\ term \in [Server -> Terms] /\ role \in [Server -> {"Follower", "Leader"}]
        /\ log \in [Server -> Seq(Entries)]
    BY DEF NodeInv, Types
  <1>2. /\ LeaderOf(from) /\ from # to /\ term[from] >= term[to]
        /\ term' = [term EXCEPT ![to] = term[from]] /\ role' = [role EXCEPT ![to] = "Follower"]
    BY DEF Accepts, LeaderOf
  <1>3. /\ term' \in [Server -> Terms] /\ role' \in [Server -> {"Follower", "Leader"}]
        /\ log' \in [Server -> Seq(Entries)]
    BY <1>1, <1>2
  <1>4. Typed'
    BY <1>3, TypedAgain
  <1>5. \A n \in Server : /\ term[n] \in Nat /\ term[n] <= term'[n]
                          /\ term'[n] = IF n = to THEN term[from] ELSE term[n]
                          /\ role'[n] = IF n = to THEN "Follower" ELSE role[n]
    BY <1>1, <1>2, SMT
  <1>6. \A n \in Server : role'[n] = "Leader" =>
            LeaderOf(n) /\ n # to /\ term'[n] = term[n] /\ log'[n] = log[n]
    BY <1>1, <1>5 DEF LeaderOf
  <1>7. TermsInv'
    <2>1. \A n \in Server : HasQuorum(Config, Reached(term'[n]))
      BY <1>5 DEF NodeInv, TermsInv
    <2> QED
      BY <1>4, <1>5, <1>6, <2>1, TermsAfterRise DEF NodeInv
  <1>8. \E src : Copies(src)
    <2>1. CASE log' = log
      <3> DEFINE src == [n \in Server |-> n]
      <3>1. Copies(src)
        BY <1>4, <1>5, <1>6, <2>1 DEF Copies, Typed
      <3> QED
        BY <3>1
    <2>2. CASE log' = [log EXCEPT ![to] = log[from]]
      <3> DEFINE src == [n \in Server |-> IF n = to THEN from ELSE n]
      <3>1. src \in [Server -> Server] /\ \A n \in Server : src[n] = IF n = to THEN from ELSE n
        OBVIOUS
      <3> HIDE DEF src
      <3>2. \A n \in Server : log'[n] = log[src[n]]
        BY <1>1, <2>2, <3>1
      <3>3. \A n \in Server : term[src[n]] <= term'[n] /\ (src[n] # n => LeaderOf(src[n]) /\ term'[n] = term[src[n]])
        BY <1>2, <1>5, <3>1, SMT
      <3>4. Copies(src)
        BY <1>5, <1>6, <3>1, <3>2, <3>3 DEF Copies
      <3> QED
        BY <3>4
    <2> QED
      BY <2>1, <2>2
  <1> QED
    BY <1>3, <1>4, <1>5, <1>6, <1>7, <1>8

\* Who is caught up has everything the sender has.
LEMMA CaughtHolds ==
    ASSUME Typed, NEW from \in Server, NEW to \in Server
    PROVE  /\ Caught(from, to) = log[to] \/ Caught(from, to) = log[from]
           /\ Agree(Caught(from, to), log[from], Len(log[from]))
  <1>1. log[from] \in Seq(Entries) /\ log[to] \in Seq(Entries) /\ Len(log[from]) \in Nat
    BY DEF Typed
  <1> QED
    BY <1>1, PrefixAgrees, AgreeBack, AgreeSame, SMT DEF Caught

LEMMA PeerReplicatesNode ==
    ASSUME NodeInv, NEW p \in Peer, NEW to \in Server, PeerReplicates(p, to), tick = NoTick
    PROVE  NodeInv'
  <1> USE NodeTypes
  <1>1. /\ p \in Server /\ Accepts(p, to) /\ log' = [log EXCEPT ![to] = Caught(p, to)] /\ Keeps
        /\ lastApplied' = lastApplied /\ replicating' = replicating /\ roundSeq' = roundSeq
        /\ report' = report /\ tick' = tick /\ history' = history /\ decided' = decided /\ commits' = commits
    BY DEF PeerReplicates, rounds, history
  <1>2. log' = log \/ log' = [log EXCEPT ![to] = log[p]]
    <2>1. log = [log EXCEPT ![to] = log[to]]
      BY DEF Typed
    <2> QED
      BY <1>1, <2>1, CaughtHolds
  <1>3. /\ term' \in [Server -> Terms] /\ role' \in [Server -> {"Follower", "Leader"}]
        /\ log' \in [Server -> Seq(Entries)] /\ Typed' /\ TermsInv'
        /\ \A n \in Server : term[n] <= term'[n]
        /\ \A n \in Server : role'[n] = "Leader" =>
               LeaderOf(n) /\ n # to /\ term'[n] = term[n] /\ log'[n] = log[n]
    BY <1>1, <1>2, AcceptsCopies
  <1>4. PICK src : Copies(src)
    BY <1>1, <1>2, AcceptsCopies
  <1>5. LogsInv'
    BY <1>3, <1>4, CopiesKeepLogs DEF NodeInv
  <1>6. /\ commitIndex' \in Nat /\ commitIndex <= commitIndex'
        /\ \/ commitIndex' = commitIndex
           \/ \E i \in commits : /\ commitIndex' \in 1 .. i /\ Agree(log'[Self], decided, i)
                               /\ decided[i].term <= term'[Self]
    <2>1. CASE commitIndex' = commitIndex
      BY <2>1, SMT
    <2>2. CASE to = Self /\ commitIndex' \in Known(p) /\ commitIndex' > commitIndex
      <3>1. PICK i \in commits : StartOf(SubSeq(decided, 1, i), log[p]) /\ commitIndex' \in 0 .. i
        BY <2>2 DEF Known
      <3>2. i \in 0 .. Len(decided) /\ i \in Nat /\ i > 0 /\ decided \in Seq(Entries)
        BY SMT DEF DecidedTyped
      <3>3. /\ log[p] \in Seq(Entries) /\ log'[Self] = Caught(p, Self) /\ log'[Self] \in Seq(Entries)
            /\ Len(log[p]) \in Nat /\ term'[Self] = term[p]
        BY <1>1, <1>3, <2>2 DEF Typed, Accepts
      <3>4. Agree(log[p], decided, i)
        <4> DEFINE d == SubSeq(decided, 1, i)
        <4>1. d \in Seq(Entries) /\ Len(d) = i /\ Agree(d, decided, i)
          BY <3>2, SubSeqAgrees
        <4> HIDE DEF d
        <4>2. Agree(d, log[p], i)
          BY <3>1, <3>3, <4>1, PrefixAgrees DEF d
        <4> QED
          BY <4>1, <4>2, AgreeBack, AgreeOn
      <3>5. i <= Len(log[p]) /\ Agree(log'[Self], log[p], Len(log[p]))
        <4>1. i <= Len(log[p])
          BY <3>4 DEF Agree
        <4> QED
          BY <1>1, <3>3, <4>1, CaughtHolds
      <3>6. Agree(log'[Self], decided, i)
        BY <3>2, <3>3, <3>4, <3>5, AgreeLess, AgreeOn
      <3>7. i \in DOMAIN log[p] /\ log[p][i] = decided[i]
        BY <3>2, <3>3, <3>4, AgreeAt, SMT
      <3>8. decided[i].term <= term'[Self]
        BY <1>1, <3>3, <3>7 DEF NodeInv, LogsInv
      <3>9. commitIndex' \in 1 .. i /\ commitIndex' \in Nat
        BY <2>2, <3>1, <3>2, SMT
      <3> QED
        BY <2>2, <3>6, <3>8, <3>9, SMT
    <2> QED
      BY <2>1, <2>2 DEF PeerReplicates
  <1>7. DecidedInv'
    BY <1>1, <1>3, <1>4, <1>6, CopiesKeepDecided DEF NodeInv
  <1>8. /\ EvidenceInv'
        /\ matchIndex' \in [Peer -> 0 .. Len(log'[Self])] /\ noopIndex' \in 0 .. Len(log'[Self])
        /\ lastAck' \in [Peer -> 0 .. MaxRounds] /\ reachable' \subseteq Peer
    <2>1. role'[Self] = "Leader" => /\ Leads /\ term'[Self] = term[Self] /\ log'[Self] = log[Self]
                                    /\ matchIndex' = matchIndex => MatchesInv'
      BY <1>3, <1>4, CopiesKeepMatches DEF NodeInv, LeaderOf, Leads
    <2> QED
      BY <1>1, <1>3, <1>6, <2>1, KeepsEvidence
  <1>9. ReportsInv'
    BY <1>1, <1>3, ReportsKept
  <1>10. commitIndex' \in 0 .. Len(log'[Self]) /\ lastApplied' \in 0 .. commitIndex'
    BY <1>1, <1>3, <1>6, <1>7, AgreeRange, AppliedRange DEF DecidedInv, Typed
  <1>11. Types'
    BY <1>1, <1>3, <1>8, <1>10 DEF NodeInv, Types
  <1> QED
    BY <1>1, <1>3, <1>5, <1>7, <1>8, <1>9, <1>11 DEF NodeInv, TickInv

\* An election: the terms, the roles, the logs and what is decided.
LEMMA ElectionCluster ==
    ASSUME NodeInv, NEW n \in Server, NEW t \in DOMAIN Contender, NEW voters, Wins(n, t, voters),
           history' = history, commitIndex' = commitIndex
    PROVE  /\ term' \in [Server -> Terms] /\ role' \in [Server -> {"Follower", "Leader"}]
           /\ log' \in [Server -> Seq(Entries)] /\ Typed' /\ TermsInv' /\ LogsInv' /\ DecidedInv'
           /\ \A x \in Server : term[x] <= term'[x]
           /\ \A x \in Server : x # n /\ role'[x] = "Leader" =>
                  LeaderOf(x) /\ x \notin voters /\ term'[x] = term[x] /\ log'[x] = log[x]
  <1> USE NodeTypes
  <1>1. /\ term \in [Server -> Terms] /\ role \in [Server -> {"Follower", "Leader"}]
        /\ log \in [Server -> Seq(Entries)] /\ t \in Terms
    BY DEF NodeInv, Types, Terms
  <1>2. n \in Server /\ t \in Nat /\ Extends(n, NoOp(t)) /\ NoOp(t) \in Entries
    BY WinnerExtends DEF NodeInv, Extends
  <1>3. log' \in [Server -> Seq(Entries)]
    BY <1>1, <1>2, SMT DEF Wins
  <1>4. term' \in [Server -> Terms] /\ role' \in [Server -> {"Follower", "Leader"}]
    BY <1>1 DEF Wins
  <1>5. Typed'
    BY <1>3, <1>4, TypedAgain
  <1>6. TermsInv' /\ LogsInv' /\ DecidedInv'
    BY <1>2, <1>5, TermsAfterElection, ExtendsKeepsLogs, DecidedAfterElection DEF NodeInv
  <1>7. \A x \in Server : term[x] <= term'[x]
    BY <1>2 DEF Extends
  <1>8. \A x \in Server : x # n /\ role'[x] = "Leader" =>
            LeaderOf(x) /\ x \notin voters /\ term'[x] = term[x] /\ log'[x] = log[x]
    BY <1>1 DEF Wins, LeaderOf
  <1> QED
    BY <1>3, <1>4, <1>5, <1>6, <1>7, <1>8

LEMMA PeerElectedNode ==
    ASSUME NodeInv, NEW p \in Peer, NEW t \in DOMAIN Contender, PeerElected(p, t), tick = NoTick
    PROVE  NodeInv'
  <1> USE NodeTypes
  <1>1. /\ p \in Server /\ p # Self /\ Elected(p, t, TRUE) /\ Keeps /\ tick' = tick
        /\ commitIndex' = commitIndex /\ lastApplied' = lastApplied /\ replicating' = replicating
        /\ roundSeq' = roundSeq /\ report' = report /\ history' = history
        /\ decided' = decided /\ commits' = commits
    BY DEF PeerElected, rounds, history, boundaries
  <1>2. PICK voters : Wins(p, t, voters)
    BY <1>1, ElectedWins DEF NodeInv
  <1>3. /\ term' \in [Server -> Terms] /\ role' \in [Server -> {"Follower", "Leader"}]
        /\ log' \in [Server -> Seq(Entries)] /\ Typed' /\ TermsInv' /\ LogsInv' /\ DecidedInv'
        /\ \A x \in Server : term[x] <= term'[x]
        /\ \A x \in Server : x # p /\ role'[x] = "Leader" =>
               LeaderOf(x) /\ x \notin voters /\ term'[x] = term[x] /\ log'[x] = log[x]
    <2> HIDE NodeTypes
    <2> QED
      BY <1>1, <1>2, ElectionCluster, SMT
  <1>4. /\ EvidenceInv'
        /\ matchIndex' \in [Peer -> 0 .. Len(log'[Self])] /\ noopIndex' \in 0 .. Len(log'[Self])
        /\ lastAck' \in [Peer -> 0 .. MaxRounds] /\ reachable' \subseteq Peer
    <2>1. role'[Self] = "Leader" => /\ Leads /\ term'[Self] = term[Self] /\ log'[Self] = log[Self]
                                    /\ matchIndex' = matchIndex => MatchesInv'
      BY <1>1, <1>2, <1>3, ElectionKeepsMatches DEF NodeInv, LeaderOf, Leads
    <2>2. commitIndex' \in Nat /\ commitIndex <= commitIndex'
      BY <1>1, SMT
    <2> QED
      BY <1>1, <1>3, <2>1, <2>2, KeepsEvidence
  <1>5. ReportsInv'
    BY <1>1, <1>3, ReportsKept
  <1>6. Types'
    <2>1. commitIndex' \in 0 .. Len(log'[Self])
      BY <1>1, <1>3, AgreeRange DEF DecidedInv, Typed
    <2> QED
      BY <1>1, <1>3, <1>4, <2>1 DEF NodeInv, Types
  <1> QED
    BY <1>1, <1>3, <1>4, <1>5, <1>6 DEF NodeInv, TickInv

\* Self wins: it has all that is decided, and its no-op comes after it.
LEMMA BecomeLeaderNode ==
    ASSUME NodeInv, Windows = {}, NEW t \in DOMAIN Contender, BecomeLeader(t)
    PROVE  NodeInv'
  <1> USE NodeTypes
  <1> DEFINE L == Len(log[Self])
  <1>1. /\ Elected(Self, t, TRUE) /\ noopIndex' = L + 1 /\ tick = NoTick /\ tick' = tick
        /\ matchIndex' = [p \in Peer |-> 0] /\ lastAck' = [p \in Peer |-> 0] /\ reachable' = Peer
        /\ replicating' = t /\ commitIndex' = commitIndex /\ lastApplied' = lastApplied
        /\ roundSeq' = roundSeq /\ report' = report /\ history' = history
        /\ decided' = decided /\ commits' = commits
    BY DEF BecomeLeader, NoopIndex, history, boundaries
  <1>2. PICK voters : Wins(Self, t, voters)
    BY <1>1, ElectedWins DEF NodeInv
  <1>3. /\ term' \in [Server -> Terms] /\ role' \in [Server -> {"Follower", "Leader"}]
        /\ log' \in [Server -> Seq(Entries)] /\ Typed' /\ TermsInv' /\ LogsInv' /\ DecidedInv'
        /\ \A x \in Server : term[x] <= term'[x]
    BY <1>1, <1>2, ElectionCluster
  <1>4. /\ t \in Nat /\ t \in Terms /\ role'[Self] = "Leader" /\ term'[Self] = t
        /\ \A x \in Server : term[x] < t
        /\ log'[Self] = Append(log[Self], NoOp(t)) /\ log[Self] \in Seq(Entries) /\ NoOp(t) \in Entries
        /\ \A x \in Peer : log'[x] = log[x]
    BY <1>2, WinnerExtends DEF NodeInv, Wins, Typed, Terms, Extends
  <1>5. Len(log'[Self]) = L + 1
    BY <1>4, OneLonger
  <1>6. Len(decided) <= L
    <2>1. CASE decided = <<>>
      BY <2>1, SMT
    <2>2. CASE decided # <<>>
      <3>1. Len(decided) \in 1 .. Len(decided) /\ Anchored(Len(decided))
        BY <2>2 DEF NodeInv, DecidedInv, DecidedTyped
      <3>2. Agree(log[Self], decided, Len(decided))
        BY <1>2, <3>1, WinnerHolds DEF NodeInv
      <3> QED
        BY <3>2 DEF Agree
    <2> QED
      BY <2>1, <2>2
  <1>7. MatchesInv'
    <2> SUFFICES ASSUME NEW n \in Peer,
                        (role'[n] = "Leader" /\ term'[n] > t) \/ \E i \in DOMAIN log'[n] : log'[n][i].term > t
                 PROVE  FALSE
      <3>1. \A k \in DOMAIN log'[Self] : ~(0 >= k)
        <4>1. DOMAIN log'[Self] = 1 .. Len(log'[Self])
          BY <1>3 DEF Typed
        <4> QED
          BY <4>1, SMT
      <3> QED
        BY <1>1, <1>4, <3>1 DEF MatchesInv, LeaderOf, Later
    <2>1. term[n] \in Nat /\ term[n] < t /\ (term'[n] = t \/ term'[n] = term[n]) /\ log'[n] = log[n]
      BY <1>2, <1>4 DEF Wins, Typed
    <2>2. \A i \in DOMAIN log[n] : log[n][i].term \in Nat /\ log[n][i].term <= term[n]
      BY DEF NodeInv, LogsInv, Typed
    <2> QED
      BY <1>4, <2>1, <2>2, SMT
  <1>8. EvidenceInv'
    <2>1. ~(0 > 0) /\ 0 <= roundSeq /\ Len(decided) <= L + 1
      BY <1>6, SMT DEF DecidedTyped
    <2> QED
      BY <1>1, <1>4, <1>7, <2>1 DEF EvidenceInv, FloorInv, Leads
  <1>9. ReportsInv'
    BY <1>1, <1>3, ReportsKept
  <1>10. Types'
    <2>1. commitIndex' \in 0 .. Len(log'[Self])
      BY <1>1, <1>3, AgreeRange DEF DecidedInv, Typed
    <2>2. matchIndex' \in [Peer -> 0 .. Len(log'[Self])] /\ lastAck' \in [Peer -> 0 .. MaxRounds]
      BY <1>1, <1>5, SMT
    <2>3. noopIndex' \in 0 .. Len(log'[Self])
      BY <1>1, <1>5, SMT
    <2> QED
      BY <1>1, <1>3, <1>4, <2>1, <2>2, <2>3 DEF NodeInv, Types
  <1> QED
    BY <1>1, <1>3, <1>8, <1>9, <1>10 DEF NodeInv, TickInv

\* Steps that leave the cluster alone.
LEMMA SameCluster ==
    ASSUME NodeInv, cluster' = cluster
    PROVE  /\ term' = term /\ role' = role /\ log' = log /\ Typed' /\ TermsInv' /\ LogsInv'
           /\ \A n \in Server : term[n] <= term'[n]
           /\ history' = history /\ commitIndex' = commitIndex => DecidedInv'
           /\ matchIndex' = matchIndex => MatchesInv'
  <1> USE NodeTypes
  <1>1. term' = term /\ role' = role /\ log' = log
    BY DEF cluster
  <1>2. Typed' /\ \A n \in Server : term[n] <= term'[n]
    BY <1>1, SMT DEF Typed
  <1>3. TermsInv'
    BY <1>1 DEF NodeInv, TermsInv, LeaderOf, Reached
  <1>4. LogsInv'
    BY <1>1 DEF NodeInv, LogsInv, LeaderOf
  <1>5. history' = history /\ commitIndex' = commitIndex => DecidedInv'
    BY <1>1 DEF NodeInv, DecidedInv, history, Anchored, LeaderOf, Later
  <1>6. matchIndex' = matchIndex => MatchesInv'
    BY <1>1 DEF NodeInv, EvidenceInv, MatchesInv, Leads, Counted, LeaderOf, Later
  <1> QED
    BY <1>1, <1>2, <1>3, <1>4, <1>5, <1>6

LEMMA PeerCommitsNode ==
    ASSUME NodeInv, NEW p \in Peer, PeerCommits(p)
    PROVE  NodeInv' /\ Agree(decided', decided, Len(decided))
  <1> USE NodeTypes
  <1>1. /\ cluster' = cluster /\ commitIndex' = commitIndex /\ lastApplied' = lastApplied
        /\ replicating' = replicating /\ roundSeq' = roundSeq /\ report' = report
        /\ matchIndex' = matchIndex /\ noopIndex' = noopIndex /\ lastAck' = lastAck
        /\ reachable' = reachable /\ tick' = tick
    BY DEF PeerCommits, boundaries, rounds, evidence
  <1>2. /\ term' = term /\ role' = role /\ log' = log /\ Typed' /\ TermsInv' /\ LogsInv' /\ MatchesInv'
        /\ \A n \in Server : term[n] <= term'[n]
    BY <1>1, SameCluster
  <1>3. /\ p \in Server /\ role[p] = "Leader" /\ p # Self /\ decided' = log[p] /\ Len(log[p]) > Len(decided)
        /\ commits' = commits \cup {Len(log[p])} /\ log[p] \in Seq(Entries) /\ Len(log[p]) \in Nat
    BY DEF PeerCommits, Typed
  <1>4. decided' \in Seq(Entries) /\ commits' \subseteq 1 .. Len(decided') /\ DecidedTyped'
    <2>1. commits' \subseteq 1 .. Len(decided')
      BY <1>3, SMT DEF DecidedTyped
    <2> QED
      BY <1>1, <1>3, <2>1, EntryTypes DEF DecidedTyped
  <1>5. DecidedInv' /\ Agree(decided', decided, Len(decided))
    BY <1>4, PeerCommitsDecides DEF NodeInv
  <1>6. FloorInv'
    <2> SUFFICES ASSUME Leads, \A x \in Server : term[x] <= term[Self] PROVE FALSE
      BY <1>2 DEF FloorInv, Leads
    <2>1. term[p] < term[Self]
      <3>1. term[p] \in Nat /\ term[Self] \in Nat /\ term[p] <= term[Self] /\ term[p] # term[Self]
        BY <1>3 DEF NodeInv, TermsInv, LeaderOf, Leads, Typed
      <3> QED
        BY <3>1, SMT
    <2>2. PICK x \in {y \in Server : term[y] <= term[p] /\ StartOf(log[p], log[y])} :
              x \in Reached(term[Self])
      BY Meet DEF PeerCommits, NodeInv, TermsInv
    <2> QED
      BY <1>3, <2>1, <2>2, SMT DEF Reached, Typed
  <1>7. EvidenceInv'
    BY <1>1, <1>2, <1>6 DEF NodeInv, EvidenceInv, Leads
  <1>8. ReportsInv'
    BY <1>1, <1>2, ReportsKept
  <1>9. Types'
    BY <1>1, <1>2, <1>4 DEF NodeInv, Types
  <1> QED
    BY <1>1, <1>2, <1>5, <1>7, <1>8, <1>9 DEF NodeInv, TickInv, Leads

\* A round of Self reaches a peer that follows.
LEMMA RoundAcceptedNode ==
    ASSUME NodeInv, NEW p \in Peer, RoundAccepted(p), tick = NoTick
    PROVE  NodeInv'
  <1> USE NodeTypes
  <1> DEFINE L == Len(log[Self])
  <1>1. /\ p \in Server /\ p # Self /\ Accepts(Self, p) /\ Leads /\ roundSeq' = roundSeq + 1
        /\ roundSeq < MaxRounds /\ commitIndex' = commitIndex /\ lastApplied' = lastApplied
        /\ replicating' = replicating /\ noopIndex' = noopIndex /\ lastAck' = lastAck
        /\ reachable' = reachable /\ tick' = tick /\ history' = history /\ decided' = decided
        /\ commits' = commits
    BY DEF RoundAccepted, Round, boundaries, history
  <1>2. /\ report' = report \/ report' = [report EXCEPT ![p] = [at |-> "ack", startSeq |-> roundSeq + 1]]
        /\ \/ matchIndex' = matchIndex /\ log' = log
           \/ matchIndex' = matchIndex /\ log' = [log EXCEPT ![p] = Caught(Self, p)]
           \/ /\ matchIndex' = [matchIndex EXCEPT ![p] = Max({@, L})]
              /\ log' = [log EXCEPT ![p] = Caught(Self, p)]
    BY DEF RoundAccepted, Unreported
  <1>20. DOMAIN report = Peer /\ DOMAIN report' = Peer
    BY <1>2 DEF NodeInv, Types
  <1>3. log' = log \/ log' = [log EXCEPT ![p] = log[Self]]
    <2>1. log = [log EXCEPT ![p] = log[p]]
      BY <1>1 DEF Typed
    <2> QED
      BY <1>1, <1>2, <2>1, CaughtHolds
  <1>4. /\ term' \in [Server -> Terms] /\ role' \in [Server -> {"Follower", "Leader"}]
        /\ log' \in [Server -> Seq(Entries)] /\ Typed' /\ TermsInv'
        /\ \A n \in Server : term[n] <= term'[n]
    BY <1>1, <1>3, AcceptsCopies
  <1>5. PICK src : Copies(src)
    BY <1>1, <1>3, AcceptsCopies
  <1>6. LogsInv' /\ DecidedInv'
    BY <1>1, <1>4, <1>5, CopiesKeepLogs, CopiesKeepDecided DEF NodeInv
  <1>7. /\ log'[Self] = log[Self] /\ role'[Self] = "Leader" /\ term'[Self] = term[Self]
        /\ term'[p] = term[Self] /\ term[p] <= term[Self]
    BY <1>1, <1>3 DEF Accepts, Leads, Typed, NodeInv, Types
  <1>8. \A n \in Peer : matchIndex[n] \in 0 .. L
    BY DEF NodeInv, Types
  <1>9. /\ matchIndex' \in [Peer -> 0 .. L]
        /\ \A n \in Peer : \/ matchIndex'[n] = matchIndex[n]
                            \/ /\ matchIndex'[n] \in Nat /\ term[n] <= term[Self] /\ term'[n] = term[Self]
                               /\ Agree(log'[n], log[Self], matchIndex'[n])
    <2>1. CASE matchIndex' = matchIndex
      BY <2>1 DEF NodeInv, Types
    <2>2. CASE /\ matchIndex' = [matchIndex EXCEPT ![p] = Max({@, L})]
               /\ log' = [log EXCEPT ![p] = Caught(Self, p)]
      <3>1. Max({matchIndex[p], L}) = L
        BY <1>8, MaxIsBound
      <3>2. matchIndex' = [matchIndex EXCEPT ![p] = L]
        BY <2>2, <3>1
      <3>3. log'[p] = Caught(Self, p)
        BY <1>1, <2>2 DEF Typed
      <3>4. Agree(log'[p], log[Self], L)
        BY <1>1, <3>3, CaughtHolds
      <3>5. matchIndex \in [Peer -> 0 .. L]
        BY DEF NodeInv, Types
      <3> QED
        BY <1>7, <3>2, <3>4, <3>5, SMT
    <2> QED
      BY <1>2, <2>1, <2>2
  <1>10. EvidenceInv'
    <2>1. MatchesInv' /\ \A n \in Peer : matchIndex'[n] > 0 => term'[n] >= term'[Self]
      BY <1>4, <1>5, <1>7, <1>9, CopiesKeepMatches DEF NodeInv
    <2>2. FloorInv'
      BY <1>1, <1>4, <1>7, FloorStays, SMT DEF NodeInv, EvidenceInv, DecidedTyped
    <2>3. \A n \in Peer : lastAck'[n] <= roundSeq'
      <3>1. \A n \in Peer : lastAck[n] \in 0 .. MaxRounds /\ lastAck[n] <= roundSeq
        BY DEF NodeInv, Types, EvidenceInv
      <3> QED
        BY <1>1, <3>1, SMT
    <2> QED
      BY <1>7, <2>1, <2>2, <2>3 DEF EvidenceInv, Leads
  <1>11. ReportsInv'
    <2>1. \A n \in Peer : report'[n] = report[n] \/ report'[n] \in [at : {"ack"}, startSeq : 1 .. roundSeq']
      <3>1. [at |-> "ack", startSeq |-> roundSeq + 1] \in [at : {"ack"}, startSeq : 1 .. roundSeq']
        BY <1>1, SMT
      <3> QED
        BY <1>2, <1>20, <3>1
    <2>2. roundSeq' \in Nat /\ roundSeq <= roundSeq'
      BY <1>1, SMT
    <2> QED
      BY <1>4, <2>1, <2>2, ReportsWait DEF NodeInv
  <1>12. Types'
    <2>1. roundSeq' \in 0 .. MaxRounds
      BY <1>1, SMT
    <2> HIDE NodeTypes
    <2> QED
      BY <1>1, <1>4, <1>7, <1>9, <1>20, <2>1 DEF NodeInv, Types
  <1> QED
    BY <1>1, <1>4, <1>6, <1>10, <1>11, <1>12 DEF NodeInv, TickInv

\* Steps in which rounds end, reports are read or waiters are answered, and
\* nothing happens to terms, roles, logs and commit index.
LEMMA QuietNode ==
    ASSUME NodeInv, cluster' = cluster, commitIndex' = commitIndex, history' = history,
           matchIndex' = matchIndex, noopIndex' = noopIndex,
           lastApplied' \in {lastApplied, commitIndex}, roundSeq' \in roundSeq .. MaxRounds,
           replicating' \in Terms, reachable' \subseteq Peer, lastAck' \in [Peer -> 0 .. roundSeq'],
           TickInv', DOMAIN report' = Peer,
           \A p \in Peer : \/ report'[p] = report[p]
                           \/ report'[p] = NoReport
                           \/ /\ report'[p] \in [at : {"higher"}, term : Terms]
                              /\ HasQuorum(Config, Reached(report'[p].term))
    PROVE  NodeInv'
  <1> USE NodeTypes
  <1>1. /\ term' = term /\ role' = role /\ log' = log /\ Typed' /\ TermsInv' /\ LogsInv' /\ DecidedInv'
        /\ MatchesInv' /\ \A n \in Server : term[n] <= term'[n]
    BY SameCluster
  <1>2. decided' = decided /\ commits' = commits
    BY DEF history
  <1>3. roundSeq' \in Nat /\ roundSeq <= roundSeq' /\ roundSeq' \in 0 .. MaxRounds
    BY SMT
  <1>4. \A p \in Peer : lastAck'[p] \in 0 .. MaxRounds /\ lastAck'[p] <= roundSeq'
    BY <1>3, SMT
  <1>5. lastAck' \in [Peer -> 0 .. MaxRounds]
    BY <1>4
  <1>6. EvidenceInv'
    <2>1. FloorInv'
      BY <1>1, <1>2 DEF NodeInv, EvidenceInv, FloorInv, Leads
    <2> QED
      BY <1>1, <1>4, <2>1 DEF NodeInv, EvidenceInv, Leads
  <1>7. ReportsInv'
    BY <1>1, <1>3, ReportsWait DEF NodeInv
  <1>8. lastApplied' \in 0 .. commitIndex
    <2>1. commitIndex <= commitIndex
      BY SMT
    <2> QED
      BY <2>1, AppliedRange
  <1>9. Types'
    <2> HIDE NodeTypes
    <2> QED
      BY <1>1, <1>2, <1>3, <1>5, <1>8 DEF NodeInv, Types
  <1> QED
    BY <1>1, <1>6, <1>7, <1>9 DEF NodeInv

LEMMA QuietAcks ==
    ASSUME NodeInv
    PROVE  /\ lastAck \in [Peer -> 0 .. roundSeq] /\ roundSeq \in roundSeq .. MaxRounds
           /\ replicating \in Terms /\ reachable \subseteq Peer /\ DOMAIN report = Peer
           /\ [p \in Peer |-> 0] \in [Peer -> 0 .. roundSeq]
           /\ ~Leads => matchIndex = [p \in Peer |-> 0] /\ noopIndex = 0
  <1> USE NodeTypes
  <1>1. /\ lastAck \in [Peer -> 0 .. MaxRounds] /\ roundSeq \in 0 .. MaxRounds
        /\ replicating \in Terms /\ reachable \subseteq Peer /\ DOMAIN report = Peer
        /\ matchIndex \in [Peer -> 0 .. Len(log[Self])]
    BY DEF NodeInv, Types
  <1>2. /\ \A p \in Peer : lastAck[p] <= roundSeq
        /\ ~Leads => noopIndex = 0 /\ \A p \in Peer : matchIndex[p] = 0
    BY DEF NodeInv, EvidenceInv
  <1>3. \A p \in Peer : lastAck[p] \in 0 .. roundSeq
    BY <1>1, <1>2, SMT
  <1> QED
    BY <1>1, <1>2, <1>3, SMT

LEMMA RoundRefusedNode ==
    ASSUME NodeInv, NEW p \in Peer, RoundRefused(p)
    PROVE  NodeInv'
  <1> USE NodeTypes
  <1>1. /\ p \in Server /\ cluster' = cluster /\ commitIndex' = commitIndex /\ history' = history
        /\ matchIndex' = matchIndex /\ noopIndex' = noopIndex /\ lastApplied' = lastApplied
        /\ roundSeq' = roundSeq + 1 /\ roundSeq < MaxRounds /\ replicating' = replicating
        /\ reachable' = reachable /\ lastAck' = lastAck /\ tick' = tick
        /\ report' = [report EXCEPT ![p] = [at |-> "higher", term |-> term[p]]]
    BY DEF RoundRefused, Round, boundaries, evidence
  <1>2. roundSeq' \in roundSeq .. MaxRounds
    BY <1>1, SMT
  <1>3. lastAck' \in [Peer -> 0 .. roundSeq']
    <2>1. \A n \in Peer : lastAck[n] \in 0 .. roundSeq'
      BY <1>1, QuietAcks, SMT
    <2> QED
      BY <1>1, <2>1, QuietAcks
  <1>4. TickInv'
    BY <1>1 DEF NodeInv, TickInv, Leads, cluster
  <1>5. DOMAIN report' = Peer
    BY <1>1, QuietAcks
  <1>6. ASSUME NEW n \in Peer
        PROVE  \/ report'[n] = report[n]
               \/ /\ report'[n] \in [at : {"higher"}, term : Terms]
                  /\ HasQuorum(Config, Reached(report'[n].term))
    <2>1. term[p] \in Terms
      BY <1>1 DEF NodeInv, Types
    <2>2. HasQuorum(Config, Reached(term[p]))
      BY <1>1 DEF NodeInv, TermsInv
    <2> QED
      BY <1>1, <2>1, <2>2, QuietAcks
  <1> QED
    BY <1>1, <1>2, <1>3, <1>4, <1>5, <1>6, QuietAcks, QuietNode

LEMMA HandleAckNode ==
    ASSUME NodeInv, NEW p \in Peer, HandleAck(p)
    PROVE  NodeInv'
  <1> USE NodeTypes
  <1>1. /\ cluster' = cluster /\ commitIndex' = commitIndex /\ history' = history
        /\ matchIndex' = matchIndex /\ noopIndex' = noopIndex /\ lastApplied' = lastApplied
        /\ roundSeq' = roundSeq /\ replicating' = replicating /\ tick' = tick
        /\ report' = [report EXCEPT ![p] = NoReport] /\ report[p].at = "ack"
        /\ reachable' = reachable \/ reachable' = reachable \cup {p}
        /\ lastAck' = lastAck \/ lastAck' = [lastAck EXCEPT ![p] = Max({@, report[p].startSeq})]
    BY DEF HandleAck, boundaries
  <1>2. report[p].startSeq \in 1 .. roundSeq
    BY <1>1, ReportFacts DEF NodeInv
  <1>3. Max({lastAck[p], report[p].startSeq}) \in 0 .. roundSeq
    BY <1>2, QuietAcks, MaxOfTwo, SMT
  <1>4. lastAck' \in [Peer -> 0 .. roundSeq']
    BY <1>1, <1>3, QuietAcks
  <1>5. TickInv'
    BY <1>1 DEF NodeInv, TickInv, Leads, cluster
  <1>6. DOMAIN report' = Peer /\ \A n \in Peer : report'[n] = report[n] \/ report'[n] = NoReport
    BY <1>1, QuietAcks
  <1> QED
    BY <1>1, <1>4, <1>5, <1>6, QuietAcks, QuietNode

\* Self gives up the lead, in its term or in a higher one that a quorum reached.
LEMMA SelfFollowsNode ==
    ASSUME NodeInv, NEW t \in Terms, t >= term[Self], HasQuorum(Config, Reached(t)),
           term' = [term EXCEPT ![Self] = t], role' = [role EXCEPT ![Self] = "Follower"], log' = log,
           Keeps, commitIndex' = commitIndex, history' = history, roundSeq' = roundSeq,
           lastApplied' \in {lastApplied, commitIndex}, replicating' \in Terms, tick' = NoTick,
           DOMAIN report' = Peer, \A p \in Peer : report'[p] = report[p] \/ report'[p] = NoReport
    PROVE  NodeInv'
  <1> USE NodeTypes
  <1>1. /\ term \in [Server -> Terms] /\ role \in [Server -> {"Follower", "Leader"}]
        /\ log \in [Server -> Seq(Entries)] /\ decided' = decided /\ commits' = commits
    BY DEF NodeInv, Types, history
  <1>2. /\ term' \in [Server -> Terms] /\ role' \in [Server -> {"Follower", "Leader"}]
        /\ log' \in [Server -> Seq(Entries)]
    BY <1>1
  <1>3. Typed'
    BY <1>2, TypedAgain
  <1>4. \A n \in Server : /\ term[n] <= term'[n] /\ term[n] \in Nat
                          /\ role'[n] = "Leader" => LeaderOf(n) /\ term'[n] = term[n] /\ n # Self
    BY <1>1, SMT DEF LeaderOf, Typed
  <1>5. TermsInv'
    <2>1. \A n \in Server : HasQuorum(Config, Reached(term'[n]))
      BY <1>1 DEF NodeInv, TermsInv
    <2> QED
      BY <1>3, <1>4, <2>1, TermsAfterRise DEF NodeInv
  <1>6. LogsInv' /\ DecidedInv'
    <2> DEFINE src == [n \in Server |-> n]
    <2>1. Copies(src)
      BY <1>4 DEF Copies
    <2> HIDE DEF src
    <2> QED
      BY <1>3, <2>1, CopiesKeepLogs, CopiesKeepDecided DEF NodeInv
  <1>7. /\ EvidenceInv' /\ matchIndex' \in [Peer -> 0 .. Len(log'[Self])]
        /\ noopIndex' \in 0 .. Len(log'[Self]) /\ lastAck' \in [Peer -> 0 .. MaxRounds]
        /\ reachable' \subseteq Peer
    <2>1. commitIndex' \in Nat /\ commitIndex <= commitIndex'
      BY SMT
    <2> QED
      BY <1>1, <1>3, <1>4, <2>1, KeepsEvidence DEF Leads, LeaderOf
  <1>8. ReportsInv'
    BY <1>3, <1>4, ReportsKept
  <1>9. lastApplied' \in 0 .. commitIndex
    <2>1. commitIndex <= commitIndex
      BY SMT
    <2> QED
      BY <2>1, AppliedRange
  <1>10. Types'
    <2> HIDE NodeTypes
    <2> QED
      BY <1>1, <1>2, <1>7, <1>9 DEF NodeInv, Types
  <1> QED
    BY <1>5, <1>6, <1>7, <1>8, <1>10 DEF NodeInv, TickInv

\* Forgetting what a follower has not learnt.
LEMMA KeepsQuiet ==
    ASSUME NodeInv, Keeps, role' = role
    PROVE  /\ matchIndex' = matchIndex /\ noopIndex' = noopIndex /\ reachable' \subseteq Peer
           /\ lastAck' \in [Peer -> 0 .. roundSeq]
  <1>1. CASE Leads
    BY <1>1, QuietAcks DEF Keeps, Deposed, Leads, evidence
  <1>2. CASE ~Leads
    BY <1>2, QuietAcks DEF Keeps, Deposed, Leads
  <1> QED
    BY <1>1, <1>2

LEMMA HandleStepDownNode ==
    ASSUME NodeInv, NEW p \in Peer, HandleStepDown(p)
    PROVE  NodeInv'
  <1> USE NodeTypes
  <1>1. /\ commitIndex' = commitIndex /\ history' = history /\ lastApplied' = lastApplied
        /\ roundSeq' = roundSeq /\ tick' = tick /\ tick = NoTick /\ log' = log /\ Keeps
        /\ report' = [report EXCEPT ![p] = NoReport] /\ report[p].at = "higher"
    BY DEF HandleStepDown, boundaries
  <1>2. DOMAIN report' = Peer /\ \A n \in Peer : report'[n] = report[n] \/ report'[n] = NoReport
    BY <1>1, QuietAcks
  <1>3. report[p].term \in Terms /\ HasQuorum(Config, Reached(report[p].term))
    BY <1>1, ReportFacts DEF NodeInv
  <1>4. CASE report[p].term > term[Self]
    <2>1. /\ term' = [term EXCEPT ![Self] = report[p].term] /\ role' = [role EXCEPT ![Self] = "Follower"]
          /\ replicating' = 0
      BY <1>4 DEF HandleStepDown
    <2>2. report[p].term >= term[Self] /\ 0 \in Terms
      BY <1>3, <1>4, SMT DEF Typed, Terms
    <2> QED
      BY <1>1, <1>2, <1>3, <2>1, <2>2, SelfFollowsNode
  <1>5. CASE ~(report[p].term > term[Self])
    <2>1. term' = term /\ role' = role /\ replicating' = replicating /\ cluster' = cluster
      BY <1>1, <1>5 DEF HandleStepDown, cluster
    <2>2. TickInv'
      BY <1>1 DEF TickInv
    <2> QED
      BY <1>1, <1>2, <2>1, <2>2, KeepsQuiet, QuietAcks, QuietNode
  <1> QED
    BY <1>4, <1>5

LEMMA HandleProposalNode ==
    ASSUME NodeInv, NEW q \in Write, HandleProposal(q)
    PROVE  NodeInv'
  <1> USE NodeTypes
  <1> DEFINE e == [term |-> term[Self], req |-> q]
  <1>1. /\ tick = NoTick /\ tick' = tick /\ Leads /\ log' = [log EXCEPT ![Self] = Append(@, e)]
        /\ term' = term /\ role' = role /\ commitIndex' = commitIndex /\ lastApplied' = lastApplied
        /\ replicating' = replicating /\ roundSeq' = roundSeq /\ report' = report
        /\ matchIndex' = matchIndex /\ noopIndex' = noopIndex /\ lastAck' = lastAck
        /\ reachable' = reachable /\ history' = history /\ decided' = decided /\ commits' = commits
    BY DEF HandleProposal, boundaries, rounds, evidence, history
  <1>2. /\ term \in [Server -> Terms] /\ log \in [Server -> Seq(Entries)]
        /\ role \in [Server -> {"Follower", "Leader"}]
    BY DEF NodeInv, Types
  <1>3. e \in Entries /\ e.term = term[Self]
    BY <1>2 DEF Entries
  <1> HIDE DEF e
  <1>4. log' \in [Server -> Seq(Entries)] /\ Typed'
    <2>1. Append(log[Self], e) \in Seq(Entries)
      BY <1>2, <1>3, SMT
    <2>2. log' \in [Server -> Seq(Entries)]
      BY <1>1, <1>2, <2>1
    <2> QED
      BY <1>1, <1>2, <2>2, TypedAgain
  <1>5. Extends(Self, e)
    <2>1. \A n \in Server : /\ term[n] <= term'[n]
                            /\ n # Self /\ role'[n] = "Leader" =>
                                  LeaderOf(n) /\ term'[n] = term[n] /\ term[n] # term'[Self]
      BY <1>1, SMT DEF NodeInv, TermsInv, LeaderOf, Leads, Typed
    <2>2. \A n \in Server : \A i \in DOMAIN log[n] : log[n][i].term = term[Self] => Agree(log[n], log[Self], i)
      BY <1>1 DEF NodeInv, LogsInv, LeaderOf, Leads
    <2>3. \A i \in DOMAIN log[Self] : log[Self][i].term <= term[Self]
      BY DEF NodeInv, LogsInv
    <2> QED
      BY <1>1, <1>3, <2>1, <2>2, <2>3 DEF Extends, Leads
  <1>6. TermsInv'
    BY <1>1 DEF NodeInv, TermsInv, LeaderOf, Reached
  <1>7. LogsInv' /\ DecidedInv'
    <2>1. LeaderOf(Self) /\ term'[Self] = term[Self]
      BY <1>1 DEF LeaderOf, Leads
    <2> QED
      BY <1>1, <1>4, <1>5, <2>1, ExtendsKeepsLogs, ExtendsKeepsDecided DEF NodeInv
  <1>8. Len(log'[Self]) = Len(log[Self]) + 1
    BY <1>1, <1>2, <1>3, AgreeAppend, SMT DEF Typed
  <1>9. EvidenceInv'
    <2>1. MatchesInv'
      BY <1>1, <1>3, <1>4, ProposalKeepsMatches DEF NodeInv
    <2>2. FloorInv'
      BY <1>1 DEF NodeInv, EvidenceInv, FloorInv, Leads
    <2> QED
      BY <1>1, <2>1, <2>2 DEF NodeInv, EvidenceInv, Leads
  <1>10. ReportsInv'
    BY <1>1 DEF NodeInv, ReportsInv, Reached
  <1>11. Types'
    <2>1. /\ commitIndex \in 0 .. Len(log[Self]) /\ matchIndex \in [Peer -> 0 .. Len(log[Self])]
          /\ noopIndex \in 0 .. Len(log[Self])
      BY DEF NodeInv, Types
    <2>2. commitIndex \in 0 .. Len(log'[Self]) /\ noopIndex \in 0 .. Len(log'[Self])
      BY <1>8, <2>1, SMT
    <2>3. matchIndex \in [Peer -> 0 .. Len(log'[Self])]
      <3>1. \A n \in Peer : matchIndex[n] \in 0 .. Len(log'[Self])
        BY <1>8, <2>1, SMT
      <3> QED
        BY <2>1, <3>1
    <2> HIDE NodeTypes
    <2> QED
      BY <1>1, <1>4, <2>2, <2>3 DEF NodeInv, Types
  <1> QED
    BY <1>1, <1>6, <1>7, <1>9, <1>10, <1>11 DEF NodeInv, TickInv

LEMMA TickFollowerNode ==
    ASSUME NodeInv, TickFollower
    PROVE  NodeInv'
  <1>1. /\ cluster' = cluster /\ commitIndex' = commitIndex /\ history' = history
        /\ matchIndex' = matchIndex /\ noopIndex' = noopIndex /\ lastApplied' = lastApplied
        /\ roundSeq' = roundSeq /\ replicating' = 0 /\ report' = report /\ lastAck' = lastAck
        /\ reachable' = reachable /\ tick' = [at |-> "follower", term |-> 0]
    BY DEF TickFollower, boundaries, evidence
  <1>2. TickInv' /\ 0 \in Terms
    BY <1>1 DEF TickInv, Terms
  <1> QED
    BY <1>1, <1>2, QuietAcks, QuietNode

LEMMA TickLeaderNode ==
    ASSUME NodeInv, TickLeader
    PROVE  NodeInv' /\ Agree(decided', decided, Len(decided))
  <1> USE NodeTypes
  <1>1. /\ cluster' = cluster /\ lastApplied' = lastApplied /\ replicating' = term[Self]
        /\ roundSeq' = roundSeq /\ report' = report /\ matchIndex' = matchIndex
        /\ noopIndex' = noopIndex /\ lastAck' = lastAck /\ reachable' = reachable /\ Leads
        /\ tick' = [at |-> "leader", term |-> term[Self]]
    BY DEF TickLeader, evidence
  <1>2. /\ term' = term /\ role' = role /\ log' = log /\ Typed' /\ TermsInv' /\ LogsInv' /\ MatchesInv'
        /\ \A n \in Server : term[n] <= term'[n]
    BY <1>1, SameCluster
  <1>3. /\ DecidedInv' /\ DecidedTyped' /\ Agree(decided', decided, Len(decided))
        /\ commitIndex' \in commitIndex .. Len(log[Self])
        /\ decided' = decided \/ Len(decided') = commitIndex'
    BY TickLeaderDecides DEF NodeInv
  <1>4. commitIndex' \in Nat /\ commitIndex <= commitIndex' /\ commitIndex' \in 0 .. Len(log[Self])
    BY <1>3, SMT
  <1>5. FloorInv'
    <2>1. CASE decided' = decided
      BY <1>1, <1>2, <1>4, <2>1, FloorStays DEF NodeInv, EvidenceInv, DecidedTyped
    <2>2. CASE Len(decided') = commitIndex'
      BY <1>4, <2>2, SMT DEF FloorInv
    <2> QED
      BY <1>3, <2>1, <2>2
  <1>6. EvidenceInv'
    BY <1>1, <1>2, <1>5 DEF NodeInv, EvidenceInv, Leads
  <1>7. ReportsInv'
    BY <1>1, <1>2, ReportsKept
  <1>8. TickInv'
    BY <1>1, <1>2 DEF TickInv, Leads
  <1>9. Types'
    <2>1. term[Self] \in Terms /\ lastApplied \in 0 .. commitIndex'
      BY <1>4, AppliedRange DEF NodeInv, Types
    <2>2. decided' \in Seq(Entries) /\ commits' \subseteq 1 .. Len(decided')
      BY <1>3 DEF DecidedTyped
    <2> HIDE NodeTypes
    <2> QED
      BY <1>1, <1>2, <1>4, <2>1, <2>2 DEF NodeInv, Types
  <1> QED
    BY <1>2, <1>3, <1>6, <1>7, <1>8, <1>9 DEF NodeInv

LEMMA TickRestNode ==
    ASSUME NodeInv, TickRest
    PROVE  NodeInv'
  <1> USE NodeTypes
  <1>1. /\ tick' = NoTick /\ lastApplied' = commitIndex /\ Keeps /\ term' = term /\ log' = log
        /\ commitIndex' = commitIndex /\ roundSeq' = roundSeq /\ report' = report /\ history' = history
    BY DEF TickRest
  <1>2. CASE LosesQuorum
    <2>1. role' = [role EXCEPT ![Self] = "Follower"] /\ replicating' = 0
      BY <1>2 DEF TickRest
    <2>2. /\ 0 \in Terms /\ term[Self] \in Terms /\ HasQuorum(Config, Reached(term[Self]))
          /\ term[Self] >= term[Self]
      BY SMT DEF Terms, NodeInv, Types, TermsInv, Typed
    <2>3. term' = [term EXCEPT ![Self] = term[Self]]
      BY <1>1 DEF Typed
    <2> QED
      BY <1>1, <2>1, <2>2, <2>3, QuietAcks, SelfFollowsNode
  <1>3. CASE ~LosesQuorum
    <2>1. role' = role /\ replicating' = replicating
      BY <1>3 DEF TickRest
    <2>2. TickInv' /\ cluster' = cluster
      BY <1>1, <2>1 DEF TickInv, cluster
    <2> QED
      BY <1>1, <2>1, <2>2, KeepsQuiet, QuietAcks, QuietNode
  <1> QED
    BY <1>2, <1>3

\* Requests that are taken up, and time.
LEMMA RequestNode ==
    ASSUME NodeInv,
           UNCHANGED <<cluster, boundaries, rounds, matchIndex, noopIndex, lastAck, tick, history>>,
           reachable' \subseteq reachable
    PROVE  NodeInv'
  <1>1. /\ cluster' = cluster /\ commitIndex' = commitIndex /\ history' = history
        /\ matchIndex' = matchIndex /\ noopIndex' = noopIndex /\ lastApplied' = lastApplied
        /\ roundSeq' = roundSeq /\ replicating' = replicating /\ report' = report /\ lastAck' = lastAck
        /\ tick' = tick
    BY DEF boundaries, rounds
  <1>2. TickInv'
    BY <1>1 DEF NodeInv, TickInv, Leads, cluster
  <1> QED
    BY <1>1, <1>2, QuietAcks, QuietNode

(***************************************************************************)
(* The waiters                                                              *)
(***************************************************************************)

\* What a step may do to what the waiters of Self rest on: while Self leads its
\* term its log only grows, and nobody who could not confirm that it leads can
\* do so later.
Continues ==
    /\ term[Self] <= term'[Self]
    /\ Agree(decided', decided, Len(decided))
    /\ (role'[Self] = "Leader" /\ term'[Self] = term[Self]) =>
          /\ Leads
          /\ Agree(log'[Self], log[Self], Len(log[Self]))
          /\ \A b \in Nat : Confirming(b)' \subseteq Confirming(b)

LEMMA RequestStays ==
    ASSUME NodeInv, NodeInv', Continues, NEW q \in Request, NEW r, NEW a \in Nat, RequestInv(q, r, a)
    PROVE  RequestInv(q, r, a)'
  <1> USE NodeTypes
  <1>1. /\ term[Self] \in Nat /\ term'[Self] \in Nat /\ DOMAIN log[Self] = 1 .. Len(log[Self])
        /\ DOMAIN log'[Self] = 1 .. Len(log'[Self]) /\ Len(log'[Self]) \in Nat
        /\ DOMAIN decided = 1 .. Len(decided) /\ DOMAIN decided' = 1 .. Len(decided')
        /\ Len(decided) \in Nat /\ Len(decided') \in Nat
    <2>1. term'[Self] \in Nat
      BY DEF NodeInv, Types
    <2>2. log'[Self] \in Seq(Entries) /\ decided' \in Seq(Entries)
      BY DEF NodeInv, Types
    <2> QED
      BY <2>1, <2>2, SMT DEF Typed, DecidedTyped
  <1>2. CASE WaiterInv(q, r)
    <2>1. /\ r.term \in Nat /\ r.barrier \in Nat /\ r.term <= term[Self]
          /\ r \in [at : {"waiting"}, kind : {"write", "read"}, index : Nat, term : Nat, barrier : Nat,
                    awaitApply : BOOLEAN, floor : Nat, late : BOOLEAN]
          /\ r.kind = IF q \in Write THEN "write" ELSE "read"
      BY <1>2 DEF WaiterInv
    <2>2. r.term <= term'[Self]
      <3>1. term[Self] <= term'[Self]
        BY DEF Continues
      <3> HIDE NodeTypes
      <3> QED
        BY <1>1, <2>1, <3>1, SMT
    <2>3. ASSUME role'[Self] = "Leader", r.term = term'[Self]
          PROVE  /\ q \in Write => r.index \in DOMAIN log'[Self] /\ log'[Self][r.index].req = q
                 /\ q \in Read => r.index >= r.floor \/ ~HasQuorum(Config, Confirming(r.barrier)')
      <3>1. term'[Self] = term[Self]
        <4>1. term[Self] <= term'[Self]
          BY DEF Continues
        <4> HIDE NodeTypes
        <4> QED
          BY <1>1, <2>1, <2>3, <4>1, SMT
      <3>2. /\ Leads /\ Agree(log'[Self], log[Self], Len(log[Self]))
            /\ Confirming(r.barrier)' \subseteq Confirming(r.barrier)
        BY <2>1, <2>3, <3>1 DEF Continues
      <3>3. /\ q \in Write => r.index \in DOMAIN log[Self] /\ log[Self][r.index].req = q
            /\ q \in Read => r.index >= r.floor \/ ~HasQuorum(Config, Confirming(r.barrier))
        BY <1>2, <2>3, <3>1, <3>2 DEF WaiterInv
      <3>4. q \in Write => r.index \in DOMAIN log'[Self] /\ log'[Self][r.index].req = q
        <4> SUFFICES ASSUME q \in Write
                     PROVE  r.index \in DOMAIN log'[Self] /\ log'[Self][r.index].req = q
          OBVIOUS
        <4>1. PICK i \in 1 .. Len(log[Self]) : i = r.index /\ log[Self][i].req = q
          BY <1>1, <3>3
        <4>2. i \in 1 .. Len(log'[Self]) /\ log'[Self][i] = log[Self][i]
          <5> HIDE NodeTypes
          <5> QED
            BY <1>1, <3>2, SMT DEF Agree
        <4> QED
          BY <1>1, <4>1, <4>2
      <3>5. q \in Read => r.index >= r.floor \/ ~HasQuorum(Config, Confirming(r.barrier)')
        BY <3>2, <3>3, Grow
      <3> QED
        BY <3>4, <3>5
    <2>4. WaiterInv(q, r)'
      BY <2>1, <2>2, <2>3 DEF WaiterInv, Leads
    <2> QED
      BY <2>4 DEF RequestInv
  <1>3. CASE r.at = "ok" /\ AnsweredInv(q, r, a)
    <2>1. q \in Write => r.index \in DOMAIN decided' /\ decided'[r.index].req = q
      <3> HIDE NodeTypes
      <3> QED
        BY <1>1, <1>3, SMT DEF AnsweredInv, Continues, Agree
    <2>2. AnsweredInv(q, r, a)'
      BY <1>3, <2>1 DEF AnsweredInv
    <2> QED
      BY <1>3, <2>2 DEF RequestInv
  <1> QED
    BY <1>2, <1>3 DEF RequestInv

\* The answers are right whenever the waiters as the step leaves them are, in the
\* state it finds or in the one it leaves.
LEMMA WaitersStay ==
    ASSUME NodeInv, NodeInv', Continues, DOMAIN request' = Request, lastApplied' \in Nat,
           \A q \in Request : \/ RequestInv(q, request'[q], lastApplied')
                              \/ RequestInv(q, request[q], lastApplied)'
    PROVE  IndInv'
  <1> SUFFICES ASSUME NEW q \in Request, RequestInv(q, request'[q], lastApplied')
               PROVE  RequestInv(q, request[q], lastApplied)'
    BY DEF WaitersInv, IndInv
  <1>1. PICK r : r = request'[q]
    OBVIOUS
  <1>2. PICK a : a = lastApplied'
    OBVIOUS
  <1>3. RequestInv(q, r, a) /\ a \in Nat
    BY <1>1, <1>2
  <1>4. RequestInv(q, r, a)'
    BY <1>3, RequestStays
  <1> QED
    BY <1>1, <1>2, <1>4

\* Applying more of the log does not take back an answer.
LEMMA AppliedGrows ==
    ASSUME NEW q, NEW r, NEW a \in Nat, NEW b \in Nat, a <= b, RequestInv(q, r, a)
    PROVE  RequestInv(q, r, b)
  <1>1. AnsweredInv(q, r, a) => AnsweredInv(q, r, b)
    BY SMT DEF AnsweredInv
  <1> QED
    BY <1>1 DEF RequestInv

LEMMA RequestKinds ==
    ASSUME NEW q \in Request, NEW r, NEW a, RequestInv(q, r, a)
    PROVE  /\ r.at \in {"new", "waiting", "applying", "ok", "failed"}
           /\ r.at = "waiting" => WaiterInv(q, r)
           /\ r.at = "applying" =>
                 /\ q \in Read /\ r.index = r.floor
                 /\ r \in [at : {"applying"}, kind : {"read"}, index : Nat, awaitApply : BOOLEAN,
                           floor : Nat, late : BOOLEAN]
           /\ r.at = "ok" => AnsweredInv(q, r, a)
  <1>1. New.at = "new" /\ Failed.at = "failed"
    BY DEF New, Failed
  <1>2. WaiterInv(q, r) => r.at = "waiting"
    BY DEF WaiterInv
  <1> QED
    BY <1>1, <1>2 DEF RequestInv

LEMMA FailAllKeeps ==
    ASSUME NEW q, NEW r, NEW a, NEW kinds, RequestInv(q, r, a)
    PROVE  RequestInv(q, FailAll(kinds, r), a)
  <1>1. FailAll(kinds, r) = r \/ FailAll(kinds, r) = Failed
    BY DEF FailAll
  <1> QED
    BY <1>1 DEF RequestInv

LEMMA SweepKeeps ==
    ASSUME NEW q, NEW r, NEW a, RequestInv(q, r, a)
    PROVE  RequestInv(q, Sweep(r), a)
  <1>1. Sweep(r) = r \/ Sweep(r) = Failed
    BY DEF Sweep
  <1> QED
    BY <1>1 DEF RequestInv

LEMMA FireApplyKeeps ==
    ASSUME NEW q \in Request, NEW r, NEW a \in Nat, RequestInv(q, r, a)
    PROVE  RequestInv(q, FireApply(a, r), a)
  <1>1. CASE r.at = "applying" /\ a >= r.index
    <2>1. /\ q \in Read /\ r.index = r.floor
          /\ r \in [at : {"applying"}, kind : {"read"}, index : Nat, awaitApply : BOOLEAN,
                    floor : Nat, late : BOOLEAN]
      BY <1>1, RequestKinds
    <2>2. q \notin Write
      BY <2>1, RequestsAssumption
    <2>3. /\ FireApply(a, r) = Succeeded(r) /\ Succeeded(r).at = "ok" /\ Succeeded(r).index = r.index
          /\ Succeeded(r).floor = r.floor /\ r.index \in Nat
      BY <1>1, <2>1 DEF FireApply, Succeeded
    <2>4. AnsweredInv(q, Succeeded(r), a)
      BY <1>1, <2>1, <2>2, <2>3, SMT DEF AnsweredInv
    <2> QED
      BY <2>3, <2>4 DEF RequestInv
  <1>2. CASE ~(r.at = "applying" /\ a >= r.index)
    BY <1>2 DEF FireApply
  <1> QED
    BY <1>1, <1>2

\* A write whose entry is committed in the term that appended it is decided.
LEMMA FireCommittedKeeps ==
    ASSUME NodeInv, Leads, NEW q \in Request, NEW r, NEW a, RequestInv(q, r, a)
    PROVE  RequestInv(q, FireCommitted(term[Self], r), a)
  <1> USE NodeTypes
  <1>1. CASE WaitsFor(r, "write") /\ r.term = term[Self] /\ r.index <= commitIndex
    <2>1. WaiterInv(q, r)
      BY <1>1, RequestKinds DEF WaitsFor
    <2>2. /\ q \in Write /\ r.index \in Nat
          /\ r \in [at : {"waiting"}, kind : {"write", "read"}, index : Nat, term : Nat, barrier : Nat,
                    awaitApply : BOOLEAN, floor : Nat, late : BOOLEAN]
          /\ r.index \in DOMAIN log[Self] /\ log[Self][r.index].req = q
      BY <1>1, <2>1 DEF WaiterInv, WaitsFor
    <2>3. q \notin Read
      BY <2>2, RequestsAssumption
    <2>4. /\ FireCommitted(term[Self], r) = Succeeded(r) /\ Succeeded(r).at = "ok"
          /\ Succeeded(r).index = r.index
      BY <1>1, <2>2 DEF FireCommitted, Succeeded
    <2>5. r.index \in 1 .. commitIndex
      BY <1>1, <2>2, SMT DEF Typed
    <2>6. Agree(log[Self], decided, commitIndex)
      BY DEF NodeInv, DecidedInv
    <2>7. r.index \in DOMAIN decided /\ decided[r.index] = log[Self][r.index]
      BY <2>5, <2>6, SMT DEF Agree, DecidedTyped
    <2>8. AnsweredInv(q, Succeeded(r), a)
      BY <2>2, <2>3, <2>4, <2>7 DEF AnsweredInv
    <2> QED
      BY <2>4, <2>8 DEF RequestInv
  <1>2. CASE ~(WaitsFor(r, "write") /\ r.term = term[Self] /\ r.index <= commitIndex)
    <2>1. FireCommitted(term[Self], r) = r \/ FireCommitted(term[Self], r) = Failed
      BY <1>2 DEF FireCommitted
    <2> QED
      BY <2>1 DEF RequestInv
  <1> QED
    BY <1>1, <1>2

\* A read that a quorum confirms has an index that is high enough.
LEMMA FireReadKeeps ==
    ASSUME NodeInv, NEW q \in Request, NEW r, NEW a \in Nat, RequestInv(q, r, a), NEW acks,
           \A p \in Peer : \/ acks[p] = lastAck[p]
                           \/ report[p].at = "ack" /\ acks[p] = report[p].startSeq
    PROVE  RequestInv(q, FireRead(a, acks, r), a)
  <1> USE NodeTypes
  <1>1. CASE WaitsFor(r, "read") /\ Leads /\ term[Self] = r.term /\ readSatisfied(a, acks, r)
    <2>1. WaiterInv(q, r)
      BY <1>1, RequestKinds DEF WaitsFor
    <2>2. /\ q \in Read /\ q \notin Write
          /\ r \in [at : {"waiting"}, kind : {"write", "read"}, index : Nat, term : Nat, barrier : Nat,
                    awaitApply : BOOLEAN, floor : Nat, late : BOOLEAN]
          /\ r.index >= r.floor \/ ~HasQuorum(Config, Confirming(r.barrier))
      BY <1>1, <2>1 DEF WaiterInv, WaitsFor, Request
    <2>3. /\ FireRead(a, acks, r) = Succeeded(r) /\ Succeeded(r).at = "ok"
          /\ Succeeded(r).index = r.index /\ Succeeded(r).floor = r.floor
          /\ Succeeded(r).awaitApply = r.awaitApply /\ r.index \in Nat /\ r.floor \in Nat
      BY <1>1, <2>2 DEF FireRead, Succeeded
    <2>4. {Self} \cup {p \in Peer : acks[p] > r.barrier} \subseteq Confirming(r.barrier)
      BY DEF Confirming
    <2>5. HasQuorum(Config, {Self} \cup {p \in Peer : acks[p] > r.barrier})
      BY <1>1 DEF readSatisfied, Confirmed
    <2>6. r.index >= r.floor
      BY <2>2, <2>4, <2>5, Grow
    <2>7. r.awaitApply => r.index <= a
      BY <1>1, <2>3 DEF readSatisfied
    <2>8. AnsweredInv(q, Succeeded(r), a)
      BY <2>2, <2>3, <2>6, <2>7 DEF AnsweredInv
    <2> QED
      BY <2>3, <2>8 DEF RequestInv
  <1>2. CASE ~(WaitsFor(r, "read") /\ Leads /\ term[Self] = r.term /\ readSatisfied(a, acks, r))
    <2>1. FireRead(a, acks, r) = r \/ FireRead(a, acks, r) = Failed
      BY <1>2 DEF FireRead
    <2> QED
      BY <2>1 DEF RequestInv
  <1> QED
    BY <1>1, <1>2

LEMMA ConfirmingShrinks ==
    ASSUME NodeInv, NodeInv', term'[Self] = term[Self], \A n \in Server : term[n] <= term'[n],
           \A p \in Peer : \/ lastAck'[p] = lastAck[p]
                           \/ report[p].at = "ack" /\ lastAck'[p] = report[p].startSeq,
           \A p \in Peer : report'[p] = report[p] \/ report'[p].at # "ack" \/ term[p] <= term[Self]
    PROVE  \A b \in Nat : Confirming(b)' \subseteq Confirming(b)
  <1> USE NodeTypes
  <1> SUFFICES ASSUME NEW b \in Nat, NEW x \in Peer,
                      \/ lastAck'[x] > b
                      \/ report'[x].at = "ack" /\ report'[x].startSeq > b
                      \/ term'[x] <= term'[Self]
               PROVE  x \in Confirming(b)
    BY DEF Confirming
  <1>1. x \in Server /\ term[x] \in Nat /\ term'[x] \in Nat /\ term[Self] \in Nat
    <2>1. term'[x] \in Terms
      BY DEF NodeInv, Types
    <2> QED
      BY <2>1 DEF Typed
  <1>2. term'[x] <= term'[Self] => term[x] <= term[Self]
    BY <1>1, SMT
  <1> QED
    BY <1>1, <1>2 DEF Confirming

LEMMA StepContinues ==
    ASSUME NodeInv, NodeInv', \A n \in Server : term[n] <= term'[n],
           Agree(decided', decided, Len(decided)),
           (role'[Self] = "Leader" /\ term'[Self] = term[Self]) =>
              /\ Leads /\ Agree(log'[Self], log[Self], Len(log[Self]))
              /\ \A p \in Peer : \/ lastAck'[p] = lastAck[p]
                                 \/ report[p].at = "ack" /\ lastAck'[p] = report[p].startSeq
              /\ \A p \in Peer : report'[p] = report[p] \/ report'[p].at # "ack" \/ term[p] <= term[Self]
    PROVE  Continues
  <1>1. Self \in Server
    BY ConfigIsValid
  <1> QED
    BY <1>1, ConfirmingShrinks DEF Continues

\* The same, for a step that leaves logs and history alone.
LEMMA SameLogContinues ==
    ASSUME NodeInv, NodeInv', \A n \in Server : term[n] <= term'[n], decided' = decided,
           (role'[Self] = "Leader" /\ term'[Self] = term[Self]) =>
              /\ Leads /\ log'[Self] = log[Self]
              /\ \A p \in Peer : \/ lastAck'[p] = lastAck[p]
                                 \/ report[p].at = "ack" /\ lastAck'[p] = report[p].startSeq
              /\ \A p \in Peer : report'[p] = report[p] \/ report'[p].at # "ack" \/ term[p] <= term[Self]
    PROVE  Continues
  <1>1. Len(decided) <= Len(decided) /\ Len(log[Self]) <= Len(log[Self])
    BY NodeTypes, SMT DEF DecidedTyped
  <1>2. Agree(decided, decided, Len(decided)) /\ Agree(log[Self], log[Self], Len(log[Self]))
    BY <1>1, AgreeSame
  <1> QED
    BY <1>2, StepContinues

LEMMA WaitersUntouched ==
    ASSUME IndInv, NodeInv', Continues, request' = request, lastApplied' = lastApplied
    PROVE  IndInv'
  <1>1. lastApplied \in Nat /\ NodeInv
    BY NodeTypes DEF IndInv
  <1>2. DOMAIN request' = Request /\ \A q \in Request : RequestInv(q, request'[q], lastApplied')
    BY DEF IndInv, WaitersInv
  <1> QED
    BY <1>1, <1>2, WaitersStay

(***************************************************************************)
(* Every step                                                               *)
(***************************************************************************)

LEMMA PeerCommitsStep ==
    ASSUME IndInv, NEW p \in Peer, PeerCommits(p)
    PROVE  IndInv'
  <1>1. NodeInv /\ NodeInv' /\ Agree(decided', decided, Len(decided))
    BY PeerCommitsNode DEF IndInv
  <1>2. /\ cluster' = cluster /\ lastApplied' = lastApplied /\ report' = report /\ lastAck' = lastAck
        /\ request' = request
    BY DEF PeerCommits, boundaries, rounds, evidence
  <1>3. term' = term /\ role' = role /\ log' = log /\ \A n \in Server : term[n] <= term'[n]
    BY <1>1, <1>2, SameCluster
  <1>4. Agree(log[Self], log[Self], Len(log[Self]))
    BY <1>1, NodeTypes, AgreeSame, SMT
  <1>5. Continues
    BY <1>1, <1>2, <1>3, <1>4, StepContinues DEF Leads
  <1> QED
    BY <1>1, <1>2, <1>5, WaitersUntouched

LEMMA TickLeaderStep ==
    ASSUME IndInv, TickLeader
    PROVE  IndInv'
  <1>1. NodeInv /\ NodeInv' /\ Agree(decided', decided, Len(decided))
    BY TickLeaderNode DEF IndInv
  <1>2. /\ cluster' = cluster /\ lastApplied' = lastApplied /\ report' = report /\ lastAck' = lastAck
        /\ request' = request
    BY DEF TickLeader, evidence
  <1>3. term' = term /\ role' = role /\ log' = log /\ \A n \in Server : term[n] <= term'[n]
    BY <1>1, <1>2, SameCluster
  <1>4. Agree(log[Self], log[Self], Len(log[Self]))
    BY <1>1, NodeTypes, AgreeSame, SMT
  <1>5. Continues
    BY <1>1, <1>2, <1>3, <1>4, StepContinues DEF Leads
  <1> QED
    BY <1>1, <1>2, <1>5, WaitersUntouched

LEMMA PeerElectedStep ==
    ASSUME IndInv, NEW p \in Peer, NEW t \in DOMAIN Contender, PeerElected(p, t), tick = NoTick
    PROVE  IndInv'
  <1>1. NodeInv /\ NodeInv'
    BY PeerElectedNode DEF IndInv
  <1> USE NodeTypes
  <1>2. /\ p \in Server /\ p # Self /\ Elected(p, t, TRUE) /\ Keeps /\ commitIndex' = commitIndex
        /\ lastApplied' = lastApplied /\ report' = report /\ history' = history /\ decided' = decided
        /\ request' = request
    BY <1>1 DEF PeerElected, rounds, history, boundaries
  <1>3. PICK voters : Wins(p, t, voters)
    BY <1>1, <1>2, ElectedWins DEF NodeInv
  <1>4. /\ \A x \in Server : term[x] <= term'[x]
        /\ role'[Self] = "Leader" => Leads /\ log'[Self] = log[Self]
    BY <1>1, <1>2, <1>3, ElectionCluster, SMT DEF LeaderOf, Leads
  <1>5. role'[Self] = "Leader" => lastAck' = lastAck
    BY <1>2 DEF Keeps, Deposed, evidence
  <1>6. Continues
    BY <1>1, <1>2, <1>4, <1>5, SameLogContinues
  <1> QED
    BY <1>1, <1>2, <1>6, WaitersUntouched

LEMMA PeerReplicatesStep ==
    ASSUME IndInv, NEW p \in Peer, NEW to \in Server, PeerReplicates(p, to), tick = NoTick
    PROVE  IndInv'
  <1>1. NodeInv /\ NodeInv'
    BY PeerReplicatesNode DEF IndInv
  <1> USE NodeTypes
  <1>2. /\ p \in Server /\ Accepts(p, to) /\ log' = [log EXCEPT ![to] = Caught(p, to)] /\ Keeps
        /\ lastApplied' = lastApplied /\ report' = report /\ decided' = decided /\ request' = request
    BY <1>1 DEF PeerReplicates, rounds, history
  <1>3. log' = log \/ log' = [log EXCEPT ![to] = log[p]]
    <2>1. log = [log EXCEPT ![to] = log[to]]
      BY <1>1 DEF Typed
    <2> QED
      BY <1>1, <1>2, <2>1, CaughtHolds
  <1>4. /\ \A n \in Server : term[n] <= term'[n]
        /\ role'[Self] = "Leader" => Leads /\ log'[Self] = log[Self]
    BY <1>1, <1>2, <1>3, AcceptsCopies DEF LeaderOf, Leads
  <1>5. role'[Self] = "Leader" => lastAck' = lastAck
    BY <1>2 DEF Keeps, Deposed, evidence
  <1>6. Continues
    BY <1>1, <1>2, <1>4, <1>5, SameLogContinues
  <1> QED
    BY <1>1, <1>2, <1>6, WaitersUntouched

LEMMA RoundAcceptedStep ==
    ASSUME IndInv, NEW p \in Peer, RoundAccepted(p), tick = NoTick
    PROVE  IndInv'
  <1>1. NodeInv /\ NodeInv'
    BY RoundAcceptedNode DEF IndInv
  <1> USE NodeTypes
  <1>2. /\ p \in Server /\ p # Self /\ Accepts(Self, p) /\ lastApplied' = lastApplied
        /\ lastAck' = lastAck /\ decided' = decided /\ request' = request /\ Leads
        /\ log' = log \/ log' = [log EXCEPT ![p] = Caught(Self, p)]
        /\ report' = report \/ report' = [report EXCEPT ![p] = [at |-> "ack", startSeq |-> roundSeq + 1]]
    BY <1>1 DEF RoundAccepted, Round, Unreported, boundaries, history
  <1>3. log' = log \/ log' = [log EXCEPT ![p] = log[Self]]
    <2>1. log = [log EXCEPT ![p] = log[p]]
      BY <1>1 DEF Typed
    <2> QED
      BY <1>1, <1>2, <2>1, CaughtHolds
  <1>4. /\ \A n \in Server : term[n] <= term'[n]
        /\ log'[Self] = log[Self] /\ term[p] <= term[Self]
    <2>1. \A n \in Server : term[n] <= term'[n]
      BY <1>1, <1>2, <1>3, AcceptsCopies
    <2> QED
      BY <1>1, <1>2, <1>3, <2>1 DEF Accepts, Typed
  <1>5. \A n \in Peer : report'[n] = report[n] \/ term[n] <= term[Self]
    BY <1>1, <1>2, <1>4, QuietAcks
  <1>6. Continues
    BY <1>1, <1>2, <1>4, <1>5, SameLogContinues
  <1> QED
    BY <1>1, <1>2, <1>6, WaitersUntouched

LEMMA RoundRefusedStep ==
    ASSUME IndInv, NEW p \in Peer, RoundRefused(p)
    PROVE  IndInv'
  <1>1. NodeInv /\ NodeInv'
    BY RoundRefusedNode DEF IndInv
  <1>2. /\ cluster' = cluster /\ lastApplied' = lastApplied /\ lastAck' = lastAck
        /\ decided' = decided /\ request' = request
        /\ report' = [report EXCEPT ![p] = [at |-> "higher", term |-> term[p]]]
    BY DEF RoundRefused, boundaries, evidence, history
  <1>3. term' = term /\ role' = role /\ log' = log /\ \A n \in Server : term[n] <= term'[n]
    BY <1>1, <1>2, SameCluster
  <1>4. \A n \in Peer : report'[n] = report[n] \/ report'[n].at # "ack"
    BY <1>1, <1>2, QuietAcks
  <1>5. Continues
    BY <1>1, <1>2, <1>3, <1>4, SameLogContinues DEF Leads
  <1> QED
    BY <1>1, <1>2, <1>5, WaitersUntouched

LEMMA BecomeLeaderStep ==
    ASSUME IndInv, Windows = {}, NEW t \in DOMAIN Contender, BecomeLeader(t)
    PROVE  IndInv'
  <1>1. NodeInv /\ NodeInv'
    BY BecomeLeaderNode DEF IndInv
  <1> USE NodeTypes
  <1>2. /\ Elected(Self, t, TRUE) /\ commitIndex' = commitIndex /\ lastApplied' = lastApplied
        /\ history' = history /\ decided' = decided /\ request' = request
    BY DEF BecomeLeader, history, boundaries
  <1>3. PICK voters : Wins(Self, t, voters)
    BY <1>1, <1>2, ElectedWins DEF NodeInv
  <1>4. (\A x \in Server : term[x] <= term'[x]) /\ term'[Self] # term[Self]
    <2>1. \A x \in Server : term[x] <= term'[x]
      BY <1>1, <1>2, <1>3, ElectionCluster
    <2>2. term[Self] < t /\ term'[Self] = t
      BY <1>1, <1>3 DEF Wins
    <2> QED
      BY <1>1, <2>1, <2>2, SMT DEF Typed
  <1>5. Continues
    BY <1>1, <1>2, <1>4, SameLogContinues
  <1> QED
    BY <1>1, <1>2, <1>5, WaitersUntouched

\* A write that is taken up is in the log at the index its waiter has.
LEMMA HandleProposalStep ==
    ASSUME IndInv, NEW q \in Write, HandleProposal(q)
    PROVE  IndInv'
  <1>1. NodeInv /\ NodeInv'
    BY HandleProposalNode DEF IndInv
  <1> USE NodeTypes
  <1> DEFINE e == [term |-> term[Self], req |-> q]
             w == Waiter("write", Len(log[Self]) + 1, 0, FALSE)
  <1>2. /\ term' = term /\ role' = role /\ log' = [log EXCEPT ![Self] = Append(@, e)] /\ Leads
        /\ request' = [request EXCEPT ![q] = w] /\ lastApplied' = lastApplied
        /\ report' = report /\ lastAck' = lastAck /\ decided' = decided
    BY DEF HandleProposal, boundaries, rounds, evidence, history
  <1>3. /\ log'[Self] = Append(log[Self], e) /\ term[Self] \in Nat /\ Len(log[Self]) \in Nat
        /\ Len(decided) \in Nat /\ e \in Entries /\ log[Self] \in Seq(Entries)
    BY <1>1, <1>2 DEF Typed, DecidedTyped, Entries, NodeInv, Types
  <1>4. /\ Len(log'[Self]) = Len(log[Self]) + 1 /\ log'[Self][Len(log[Self]) + 1] = e
        /\ Agree(log'[Self], log[Self], Len(log[Self])) /\ DOMAIN log'[Self] = 1 .. Len(log'[Self])
    <2>1. /\ Len(log'[Self]) = Len(log[Self]) + 1 /\ log'[Self][Len(log[Self]) + 1] = e
          /\ DOMAIN log'[Self] = 1 .. Len(log'[Self])
      BY <1>3, SMT
    <2>2. \A i \in 1 .. Len(log[Self]) : log'[Self][i] = log[Self][i]
      BY <1>3, SMT
    <2> QED
      BY <1>3, <2>1, <2>2, SMT DEF Agree
  <1>5. Continues
    <2>1. Agree(decided, decided, Len(decided)) /\ \A n \in Server : term[n] <= term'[n]
      BY <1>1, <1>2, <1>3, AgreeSame, SMT DEF Typed
    <2> QED
      BY <1>1, <1>2, <1>4, <2>1, StepContinues
  <1>6. /\ q \in Request /\ DOMAIN request' = Request /\ request'[q] = w
        /\ \A x \in Request : x # q => request'[x] = request[x] /\ RequestInv(x, request[x], lastApplied)
    BY <1>2 DEF IndInv, WaitersInv, Request
  <1>7. RequestInv(q, request[q], lastApplied)'
    <2>1. /\ w \in [at : {"waiting"}, kind : {"write", "read"}, index : Nat, term : Nat, barrier : Nat,
                    awaitApply : BOOLEAN, floor : Nat, late : BOOLEAN]
          /\ w.kind = "write" /\ w.term = term[Self] /\ w.index = Len(log[Self]) + 1
      BY <1>3, SMT DEF Waiter
    <2>2. PICK r : r = w
      OBVIOUS
    <2>3. q \notin Read
      BY RequestsAssumption
    <2>4. r.index \in DOMAIN log'[Self] /\ log'[Self][r.index].req = q
      <3>1. e.req = q
        OBVIOUS
      <3> HIDE DEF w, e
      <3>2. r.index = Len(log[Self]) + 1 /\ Len(log[Self]) + 1 \in DOMAIN log'[Self]
        BY <1>3, <1>4, <2>1, <2>2, SMT
      <3> QED
        BY <1>4, <3>1, <3>2
    <2> HIDE DEF w, e
    <2>5. r.term <= term'[Self]
      <3>1. r.term = term[Self] /\ term'[Self] = term[Self]
        BY <1>2, <2>1, <2>2
      <3> QED
        BY <1>3, <3>1, SMT
    <2>6. WaiterInv(q, r)'
      BY <2>1, <2>2, <2>3, <2>4, <2>5, ZenonT(40) DEF WaiterInv
    <2> QED
      BY <1>6, <2>2, <2>6, ZenonT(40) DEF RequestInv
  <1> HIDE DEF w, e
  <1>8. lastApplied' \in Nat /\ \A x \in Request : \/ RequestInv(x, request'[x], lastApplied')
                                                  \/ RequestInv(x, request[x], lastApplied)'
    BY <1>1, <1>2, <1>6, <1>7
  <1> QED
    BY <1>1, <1>5, <1>6, <1>8, WaitersStay

\* A read that is admitted has an index above everything decided, or a higher
\* term has begun and no quorum is left that could confirm it.
LEMMA AdmittedRead ==
    ASSUME NodeInv, Leads, NEW q \in Read, NEW awaitApply \in BOOLEAN, NEW a
    PROVE  RequestInv(q, Waiter("read", Max({commitIndex, noopIndex}), roundSeq, awaitApply), a)
  <1> USE NodeTypes
  <1> DEFINE w == Waiter("read", Max({commitIndex, noopIndex}), roundSeq, awaitApply)
  <1>1. /\ Max({commitIndex, noopIndex}) \in Nat /\ commitIndex <= Max({commitIndex, noopIndex})
        /\ noopIndex <= Max({commitIndex, noopIndex}) /\ Len(decided) \in Nat /\ term[Self] \in Nat
    BY MaxOfTwo, SMT DEF DecidedTyped, Typed
  <1>2. /\ w \in [at : {"waiting"}, kind : {"write", "read"}, index : Nat, term : Nat, barrier : Nat,
                  awaitApply : BOOLEAN, floor : Nat, late : BOOLEAN]
        /\ w.kind = "read" /\ w.term = term[Self] /\ w.index = Max({commitIndex, noopIndex})
        /\ w.floor = Len(decided) /\ w.barrier = roundSeq
    BY <1>1 DEF Waiter
  <1>3. q \notin Write
    BY RequestsAssumption
  <1>4. ASSUME \E x \in Server : ~(term[x] <= term[Self])
        PROVE  ~HasQuorum(Config, Confirming(roundSeq))
    <2>1. PICK x \in Server : term[x] > term[Self]
      BY <1>4, SMT DEF Typed
    <2>2. \A y \in Confirming(roundSeq) : y \in Server /\ term[y] <= term[Self]
      <3> SUFFICES ASSUME NEW y \in Peer PROVE y \in Confirming(roundSeq) => term[y] <= term[Self]
        BY <1>1, SMT DEF Confirming
      <3>1. lastAck[y] \in 0 .. roundSeq
        BY QuietAcks
      <3>2. report[y].at = "ack" => report[y].startSeq \in 1 .. roundSeq
        BY ReportFacts DEF NodeInv
      <3> QED
        BY <3>1, <3>2, SMT DEF Confirming
    <2>3. HasQuorum(Config, Reached(term[x]))
      BY DEF NodeInv, TermsInv
    <2>4. ASSUME HasQuorum(Config, Confirming(roundSeq)) PROVE FALSE
      <3>1. PICK y \in Confirming(roundSeq) : y \in Reached(term[x])
        BY <2>3, <2>4, Meet
      <3> QED
        BY <2>1, <2>2, <3>1, SMT DEF Reached, Typed
    <2> QED
      BY <2>4
  <1>5. Max({commitIndex, noopIndex}) >= Len(decided) \/ ~HasQuorum(Config, Confirming(roundSeq))
    <2>1. CASE \A x \in Server : term[x] <= term[Self]
      <3>1. Len(decided) <= commitIndex \/ Len(decided) <= noopIndex
        BY <2>1 DEF NodeInv, EvidenceInv, FloorInv
      <3> QED
        BY <1>1, <3>1, SMT
    <2> QED
      BY <1>4, <2>1
  <1> HIDE DEF w
  <1>6. WaiterInv(q, w)
    <2>1. w.term <= term[Self]
      BY <1>1, <1>2, SMT
    <2> QED
      BY <1>2, <1>3, <1>5, <2>1 DEF WaiterInv
  <1>7. RequestInv(q, w, a)
    BY <1>6 DEF RequestInv
  <1> QED
    BY <1>7 DEF w

LEMMA HandleReadStep ==
    ASSUME IndInv, NEW q \in Read, HandleRead(q)
    PROVE  IndInv'
  <1>1. NodeInv /\ Leads
    BY DEF IndInv, HandleRead
  <1> USE NodeTypes
  <1>2. /\ cluster' = cluster /\ lastApplied' = lastApplied /\ report' = report /\ lastAck' = lastAck
        /\ decided' = decided
    BY DEF HandleRead, boundaries, rounds, evidence, history
  <1>3. NodeInv'
    BY <1>1, RequestNode DEF HandleRead, evidence
  <1>4. term' = term /\ role' = role /\ log' = log /\ \A n \in Server : term[n] <= term'[n]
    BY <1>1, <1>2, SameCluster
  <1>5. Continues
    BY <1>1, <1>2, <1>3, <1>4, SameLogContinues DEF Leads
  <1>6. PICK awaitApply \in BOOLEAN :
            request' = [r \in Request |-> FireRead(lastApplied, lastAck,
                           [request EXCEPT ![q] = Waiter("read", Max({commitIndex, noopIndex}), roundSeq,
                                                         awaitApply)][r])]
    BY DEF HandleRead
  <1>7. ASSUME NEW x \in Request
        PROVE  RequestInv(x, request'[x], lastApplied)
    <2> DEFINE w == Waiter("read", Max({commitIndex, noopIndex}), roundSeq, awaitApply)
    <2>1. RequestInv(q, w, lastApplied)
      BY <1>1, AdmittedRead
    <2> HIDE DEF w
    <2>2. PICK r : r = [request EXCEPT ![q] = w][x]
      OBVIOUS
    <2>3. RequestInv(x, r, lastApplied)
      BY <2>1, <2>2 DEF IndInv, WaitersInv
    <2>4. RequestInv(x, FireRead(lastApplied, lastAck, r), lastApplied)
      BY <1>1, <2>3, FireReadKeeps
    <2> QED
      BY <1>6, <2>2, <2>4 DEF w
  <1> QED
    BY <1>1, <1>2, <1>3, <1>5, <1>6, <1>7, WaitersStay

LEMMA FollowerReadStep ==
    ASSUME IndInv, NEW q \in Read, FollowerRead(q)
    PROVE  IndInv'
  <1>1. NodeInv
    BY DEF IndInv
  <1> USE NodeTypes
  <1>2. /\ cluster' = cluster /\ lastApplied' = lastApplied /\ report' = report /\ lastAck' = lastAck
        /\ decided' = decided
    BY DEF FollowerRead, boundaries, rounds, evidence, history
  <1>3. NodeInv'
    BY <1>1, RequestNode DEF FollowerRead, evidence
  <1>4. term' = term /\ role' = role /\ log' = log /\ \A n \in Server : term[n] <= term'[n]
    BY <1>1, <1>2, SameCluster
  <1>5. Continues
    BY <1>1, <1>2, <1>3, <1>4, SameLogContinues DEF Leads
  <1> DEFINE r == [at |-> IF lastApplied >= Len(decided) THEN "ok" ELSE "applying", kind |-> "read",
                   index |-> Len(decided), awaitApply |-> TRUE, floor |-> Len(decided), late |-> FALSE]
  <1>6. request' = [request EXCEPT ![q] = r]
    BY DEF FollowerRead
  <1>7. q \notin Write /\ q \in Request /\ Len(decided) \in Nat
    BY <1>1, RequestsAssumption DEF Request, DecidedTyped
  <1>8. RequestInv(q, r, lastApplied)
    <2>1. CASE lastApplied >= Len(decided)
      <3>1. /\ r.at = "ok" /\ r.index = Len(decided) /\ r.floor = Len(decided)
            /\ r.index <= lastApplied
        BY <1>1, <1>7, <2>1
      <3> HIDE DEF r
      <3>2. AnsweredInv(q, r, lastApplied)
        BY <1>7, <3>1, SMT DEF AnsweredInv
      <3> QED
        BY <3>1, <3>2 DEF RequestInv
    <2>2. CASE ~(lastApplied >= Len(decided))
      <3>1. /\ r \in [at : {"applying"}, kind : {"read"}, index : Nat, awaitApply : BOOLEAN, floor : Nat,
                      late : BOOLEAN]
            /\ r.index = r.floor
        BY <1>7, <2>2
      <3> HIDE DEF r
      <3> QED
        BY <3>1 DEF RequestInv
    <2> QED
      BY <2>1, <2>2
  <1> HIDE DEF r
  <1>9. DOMAIN request' = Request /\ \A x \in Request : RequestInv(x, request'[x], lastApplied)
    BY <1>6, <1>7, <1>8 DEF IndInv, WaitersInv
  <1> QED
    BY <1>1, <1>2, <1>3, <1>5, <1>9, WaitersStay

LEMMA HandleAckStep ==
    ASSUME IndInv, NEW p \in Peer, HandleAck(p)
    PROVE  IndInv'
  <1>1. NodeInv /\ NodeInv'
    BY HandleAckNode DEF IndInv
  <1> USE NodeTypes
  <1>2. /\ cluster' = cluster /\ lastApplied' = lastApplied /\ decided' = decided
        /\ report' = [report EXCEPT ![p] = NoReport] /\ report[p].at = "ack"
        /\ lastAck' = lastAck \/ lastAck' = [lastAck EXCEPT ![p] = Max({@, report[p].startSeq})]
        /\ request' = [q \in Request |-> FireRead(lastApplied, lastAck', request[q])]
    BY DEF HandleAck, boundaries, history
  <1>3. term' = term /\ role' = role /\ log' = log /\ \A n \in Server : term[n] <= term'[n]
    BY <1>1, <1>2, SameCluster
  <1>4. Max({lastAck[p], report[p].startSeq}) \in {lastAck[p], report[p].startSeq}
    <2>1. report[p].startSeq \in 1 .. roundSeq
      BY <1>1, <1>2, ReportFacts DEF NodeInv
    <2>2. lastAck[p] \in Nat /\ report[p].startSeq \in Nat
      BY <1>1, <2>1, QuietAcks, SMT
    <2> QED
      BY <2>2, MaxOfTwo
  <1>5. \A n \in Peer : \/ lastAck'[n] = lastAck[n]
                        \/ report[n].at = "ack" /\ lastAck'[n] = report[n].startSeq
    BY <1>1, <1>2, <1>4, QuietAcks
  <1>6. \A n \in Peer : report'[n] = report[n] \/ report'[n].at # "ack"
    <2>1. NoReport.at # "ack"
      BY DEF NoReport
    <2> QED
      BY <1>1, <1>2, <2>1, QuietAcks
  <1>7. Continues
    BY <1>1, <1>2, <1>3, <1>5, <1>6, SameLogContinues DEF Leads
  <1>8. PICK acks : acks = lastAck'
    OBVIOUS
  <1>9. ASSUME NEW q \in Request
        PROVE  RequestInv(q, FireRead(lastApplied, acks, request[q]), lastApplied)
    <2>1. PICK r : r = request[q]
      OBVIOUS
    <2>2. RequestInv(q, r, lastApplied)
      BY <2>1 DEF IndInv, WaitersInv
    <2>3. RequestInv(q, FireRead(lastApplied, acks, r), lastApplied)
      BY <1>1, <1>5, <1>8, <2>2, FireReadKeeps
    <2> QED
      BY <2>1, <2>3
  <1>10. DOMAIN request' = Request /\ \A q \in Request : RequestInv(q, request'[q], lastApplied)
    BY <1>2, <1>8, <1>9
  <1> QED
    BY <1>1, <1>2, <1>7, <1>10, WaitersStay

LEMMA HandleStepDownStep ==
    ASSUME IndInv, NEW p \in Peer, HandleStepDown(p)
    PROVE  IndInv'
  <1>1. NodeInv /\ NodeInv'
    BY HandleStepDownNode DEF IndInv
  <1> USE NodeTypes
  <1>2. /\ lastApplied' = lastApplied /\ log' = log /\ Keeps /\ decided' = decided
        /\ report' = [report EXCEPT ![p] = NoReport]
        /\ \/ /\ report[p].term > term[Self] /\ term' = [term EXCEPT ![Self] = report[p].term]
              /\ role' = [role EXCEPT ![Self] = "Follower"]
              /\ request' = [q \in Request |-> FailAll({"write", "read"}, request[q])]
           \/ term' = term /\ role' = role /\ request' = request
    BY DEF HandleStepDown, boundaries, history
  <1>3. \A n \in Server : term[n] <= term'[n]
    <2>1. term \in [Server -> Nat] /\ term' \in [Server -> Terms]
      BY <1>1 DEF Typed, NodeInv, Types
    <2> QED
      BY <1>1, <1>2, <2>1, SMT
  <1>4. role'[Self] = "Leader" => Leads /\ lastAck' = lastAck
    <2>1. role'[Self] = "Leader" => Leads
      BY <1>1, <1>2, SMT DEF Leads, NodeInv, Types
    <2> QED
      BY <1>2, <2>1 DEF Keeps, Deposed, evidence
  <1>5. \A n \in Peer : report'[n] = report[n] \/ report'[n].at # "ack"
    <2>1. NoReport.at # "ack"
      BY DEF NoReport
    <2> QED
      BY <1>1, <1>2, <2>1, QuietAcks
  <1>6. Continues
    BY <1>1, <1>2, <1>3, <1>4, <1>5, SameLogContinues
  <1>7. DOMAIN request' = Request /\ \A q \in Request : RequestInv(q, request'[q], lastApplied)
    <2>1. DOMAIN request = Request /\ \A q \in Request : RequestInv(q, request[q], lastApplied)
      BY DEF IndInv, WaitersInv
    <2>2. \A q \in Request : RequestInv(q, FailAll({"write", "read"}, request[q]), lastApplied)
      BY <2>1, FailAllKeeps
    <2> QED
      BY <1>2, <2>1, <2>2
  <1> QED
    BY <1>1, <1>2, <1>6, <1>7, WaitersStay

LEMMA TickFollowerStep ==
    ASSUME IndInv, TickFollower
    PROVE  IndInv'
  <1>1. NodeInv /\ NodeInv'
    BY TickFollowerNode DEF IndInv
  <1>2. PICK kinds : request' = [q \in Request |-> FailAll(kinds, request[q])]
    BY DEF TickFollower
  <1>3. /\ cluster' = cluster /\ lastApplied' = lastApplied /\ report' = report /\ lastAck' = lastAck
        /\ decided' = decided /\ lastApplied \in Nat
    BY <1>1, NodeTypes DEF TickFollower, boundaries, evidence, history
  <1>4. term' = term /\ role' = role /\ log' = log /\ \A n \in Server : term[n] <= term'[n]
    BY <1>1, <1>3, SameCluster
  <1>5. Continues
    BY <1>1, <1>3, <1>4, SameLogContinues DEF Leads
  <1>6. \A q \in Request : RequestInv(q, FailAll(kinds, request[q]), lastApplied)
    BY FailAllKeeps DEF IndInv, WaitersInv
  <1>7. DOMAIN request' = Request /\ \A q \in Request : RequestInv(q, request'[q], lastApplied)
    BY <1>2, <1>6
  <1> QED
    BY <1>1, <1>3, <1>5, <1>7, WaitersStay

\* The tick answers waiters one after the other: every stage keeps them right.
LEMMA TickRestStep ==
    ASSUME IndInv, TickRest
    PROVE  IndInv'
  <1>1. NodeInv /\ NodeInv'
    BY TickRestNode DEF IndInv
  <1> USE NodeTypes
  <1> DEFINE fired(r) == IF tick.at = "leader" THEN FireCommitted(tick.term, r) ELSE r
             released(r) == FireApply(commitIndex, FireRead(commitIndex, lastAck, r))
             yielded(r) == IF LosesQuorum THEN FailAll({"write", "read"}, r) ELSE r
  <1>2. /\ lastApplied' = commitIndex /\ Keeps /\ term' = term /\ log' = log /\ report' = report
        /\ decided' = decided /\ tick # NoTick
        /\ role' = role \/ role' = [role EXCEPT ![Self] = "Follower"]
        /\ request' = [q \in Request |-> Sweep(yielded(released(fired(request[q]))))]
    BY DEF TickRest, history
  <1>3. role'[Self] = "Leader" => Leads /\ lastAck' = lastAck
    <2>1. role'[Self] = "Leader" => Leads
      BY <1>1, <1>2 DEF Leads, NodeInv, Types
    <2> QED
      BY <1>2, <2>1 DEF Keeps, Deposed, evidence
  <1>4. Continues
    <2>1. \A n \in Server : term[n] <= term'[n]
      BY <1>1, <1>2, SameTerms
    <2> QED
      BY <1>1, <1>2, <1>3, <2>1, SameLogContinues
  <1>5. ASSUME NEW q \in Request
        PROVE  RequestInv(q, Sweep(yielded(released(fired(request[q])))), commitIndex)
    <2>1. commitIndex \in Nat /\ lastApplied \in Nat /\ lastApplied <= commitIndex
      BY <1>1, SMT DEF NodeInv, Types
    <2>2. PICK r0 : r0 = request[q]
      OBVIOUS
    <2>3. RequestInv(q, r0, commitIndex)
      BY <2>1, <2>2, AppliedGrows DEF IndInv, WaitersInv
    <2>4. PICK r1 : r1 = fired(r0)
      OBVIOUS
    <2>5. RequestInv(q, r1, commitIndex)
      <3>1. CASE tick.at = "leader"
        <4>1. Leads /\ tick.term = term[Self]
          BY <1>1, <3>1, SMT DEF NodeInv, TickInv, NoTick
        <4> QED
          BY <1>1, <2>3, <2>4, <3>1, <4>1, FireCommittedKeeps
      <3>2. CASE tick.at # "leader"
        BY <2>3, <2>4, <3>2
      <3> QED
        BY <3>1, <3>2
    <2>6. PICK r2 : r2 = FireRead(commitIndex, lastAck, r1)
      OBVIOUS
    <2>7. RequestInv(q, r2, commitIndex)
      BY <1>1, <2>1, <2>5, <2>6, FireReadKeeps
    <2>8. PICK r3 : r3 = FireApply(commitIndex, r2)
      OBVIOUS
    <2>9. RequestInv(q, r3, commitIndex)
      BY <2>1, <2>7, <2>8, FireApplyKeeps
    <2>10. PICK r4 : r4 = yielded(r3)
      OBVIOUS
    <2>11. RequestInv(q, r4, commitIndex)
      BY <2>9, <2>10, FailAllKeeps
    <2>12. RequestInv(q, Sweep(r4), commitIndex)
      BY <2>11, SweepKeeps
    <2> QED
      BY <2>2, <2>4, <2>6, <2>8, <2>10, <2>12, ZenonT(40)
  <1> HIDE DEF fired, released, yielded
  <1>6. /\ DOMAIN request' = Request /\ lastApplied' \in Nat
        /\ \A q \in Request : RequestInv(q, request'[q], lastApplied')
    BY <1>1, <1>2, <1>5
  <1> QED
    BY <1>1, <1>4, <1>6, WaitersStay

LEMMA DeadlinePassesStep ==
    ASSUME IndInv, NEW q \in Request, DeadlinePasses(q)
    PROVE  IndInv'
  <1>1. NodeInv
    BY DEF IndInv
  <1>2. /\ cluster' = cluster /\ lastApplied' = lastApplied /\ report' = report /\ lastAck' = lastAck
        /\ decided' = decided /\ lastApplied \in Nat
    BY <1>1, NodeTypes DEF DeadlinePasses, boundaries, rounds, evidence, history
  <1>3. NodeInv'
    BY <1>1, RequestNode DEF DeadlinePasses, evidence
  <1>4. term' = term /\ role' = role /\ log' = log /\ \A n \in Server : term[n] <= term'[n]
    BY <1>1, <1>2, SameCluster
  <1>5. Continues
    BY <1>1, <1>2, <1>3, <1>4, SameLogContinues DEF Leads
  <1>6. PICK r : r = request[q]
    OBVIOUS
  <1>7. RequestInv(q, r, lastApplied) /\ r.at \in {"waiting", "applying"}
    BY <1>6 DEF IndInv, WaitersInv, DeadlinePasses, Pending
  <1>8. RequestInv(q, [r EXCEPT !.late = TRUE], lastApplied)
    <2> DEFINE s == [r EXCEPT !.late = TRUE]
    <2>1. CASE r.at = "waiting"
      <3>1. WaiterInv(q, r)
        BY <1>7, <2>1, RequestKinds
      <3>2. /\ s \in [at : {"waiting"}, kind : {"write", "read"}, index : Nat, term : Nat, barrier : Nat,
                      awaitApply : BOOLEAN, floor : Nat, late : BOOLEAN]
            /\ s.kind = r.kind /\ s.term = r.term /\ s.index = r.index /\ s.floor = r.floor
            /\ s.barrier = r.barrier
        BY <3>1 DEF WaiterInv
      <3> HIDE DEF s
      <3>3. WaiterInv(q, s)
        BY <3>1, <3>2 DEF WaiterInv
      <3> QED
        BY <3>3 DEF RequestInv, s
    <2>2. CASE r.at = "applying"
      <3>1. /\ q \in Read /\ r.index = r.floor
            /\ r \in [at : {"applying"}, kind : {"read"}, index : Nat, awaitApply : BOOLEAN,
                      floor : Nat, late : BOOLEAN]
        BY <1>7, <2>2, RequestKinds
      <3>2. /\ s.index = s.floor
            /\ s \in [at : {"applying"}, kind : {"read"}, index : Nat, awaitApply : BOOLEAN,
                      floor : Nat, late : BOOLEAN]
        BY <3>1
      <3> HIDE DEF s
      <3> QED
        BY <3>1, <3>2 DEF RequestInv, s
    <2> QED
      BY <1>7, <2>1, <2>2
  <1>9. DOMAIN request' = Request /\ \A x \in Request : RequestInv(x, request'[x], lastApplied)
    <2>1. request' = [request EXCEPT ![q] = [r EXCEPT !.late = TRUE]]
      BY <1>6 DEF DeadlinePasses
    <2> QED
      BY <1>8, <2>1 DEF IndInv, WaitersInv
  <1> QED
    BY <1>1, <1>2, <1>3, <1>5, <1>9, WaitersStay

LEMMA PeerFallsSilentStep ==
    ASSUME IndInv, NEW p \in Peer, PeerFallsSilent(p)
    PROVE  IndInv'
  <1>1. NodeInv
    BY DEF IndInv
  <1>2. /\ cluster' = cluster /\ lastApplied' = lastApplied /\ report' = report /\ lastAck' = lastAck
        /\ decided' = decided /\ request' = request
    BY DEF PeerFallsSilent, boundaries, rounds, history
  <1>3. NodeInv'
    BY <1>1, RequestNode DEF PeerFallsSilent
  <1>4. term' = term /\ role' = role /\ log' = log /\ \A n \in Server : term[n] <= term'[n]
    BY <1>1, <1>2, SameCluster
  <1>5. Continues
    BY <1>1, <1>2, <1>3, <1>4, SameLogContinues DEF Leads
  <1> QED
    BY <1>2, <1>3, <1>5, WaitersUntouched

LEMMA StutterStep ==
    ASSUME IndInv, vars' = vars
    PROVE  IndInv'
  <1>1. NodeInv
    BY DEF IndInv
  <1>2. /\ cluster' = cluster /\ lastApplied' = lastApplied /\ report' = report /\ lastAck' = lastAck
        /\ decided' = decided /\ request' = request
    BY DEF vars, boundaries, rounds, evidence, history
  <1>3. NodeInv'
    BY <1>1, RequestNode DEF vars, evidence
  <1>4. term' = term /\ role' = role /\ log' = log /\ \A n \in Server : term[n] <= term'[n]
    BY <1>1, <1>2, SameCluster
  <1>5. Continues
    BY <1>1, <1>2, <1>3, <1>4, SameLogContinues DEF Leads
  <1> QED
    BY <1>2, <1>3, <1>5, WaitersUntouched

LEMMA NextIndInv ==
    ASSUME IndInv, Windows = {}, [Next]_vars
    PROVE  IndInv'
  <1>1. CASE Between /\ Cluster
    <2>1. tick = NoTick
      BY <1>1 DEF Between
    <2> QED
      BY <1>1, <2>1, PeerCommitsStep, PeerElectedStep, PeerReplicatesStep DEF Cluster
  <1>2. CASE Between /\ \E p \in Peer : Replicator(p)
    <2>1. tick = NoTick
      BY <1>2 DEF Between
    <2> QED
      BY <1>2, <2>1, RoundAcceptedStep, RoundRefusedStep DEF Replicator
  <1>3. CASE Loop
    BY <1>3, BecomeLeaderStep, HandleProposalStep, HandleReadStep, FollowerReadStep, HandleAckStep,
       HandleStepDownStep DEF Loop
  <1>4. CASE Tick
    BY <1>4, TickFollowerStep, TickLeaderStep, TickRestStep DEF Tick
  <1>5. CASE TimePasses
    BY <1>5, DeadlinePassesStep, PeerFallsSilentStep DEF TimePasses
  <1> QED
    BY <1>1, <1>2, <1>3, <1>4, <1>5, StutterStep DEF Next

(***************************************************************************)
(* The initial state and the theorems                                       *)
(***************************************************************************)

LEMMA InitIndInv ==
    ASSUME Laws, Init
    PROVE  IndInv
  <1>1. Self \in Server /\ Peer = Server \ {Self} /\ MaxRounds \in Nat /\ 0 \in Terms
    BY ConfigIsValid, RequestsAssumption DEF Terms
  <1>2. /\ term = [n \in Server |-> 0] /\ role = [n \in Server |-> "Follower"]
        /\ log = [n \in Server |-> <<>>] /\ decided = <<>> /\ commits = {} /\ commitIndex = 0
        /\ lastApplied = 0 /\ matchIndex = [p \in Peer |-> 0] /\ noopIndex = 0 /\ replicating = 0
        /\ roundSeq = 0 /\ report = [p \in Peer |-> NoReport] /\ lastAck = [p \in Peer |-> 0]
        /\ reachable = {} /\ tick = NoTick /\ request = [q \in Request |-> New]
    BY DEF Init
  <1>3. \A n \in Server : /\ term[n] = 0 /\ role[n] = "Follower" /\ log[n] = <<>> /\ ~LeaderOf(n)
                          /\ DOMAIN log[n] = {} /\ Len(log[n]) = 0
    BY <1>2, SMT DEF LeaderOf
  <1>4. Types
    <2>1. <<>> \in Seq(Entries) /\ Len(log[Self]) = 0 /\ Len(decided) = 0
      BY <1>1, <1>2, <1>3, SMT
    <2> QED
      BY <1>1, <1>2, <2>1, SMT DEF Types
  <1>5. TermsInv
    <2>1. Reached(0) = Server
      BY <1>3, SMT DEF Reached
    <2> QED
      BY <1>3, <2>1 DEF Laws, TermsInv
  <1>6. LogsInv
    BY <1>3 DEF LogsInv
  <1>7. DecidedInv
    <2>1. Len(decided) = 0 /\ \A n \in Server : Agree(log[n], decided, 0)
      BY <1>2, <1>3, SMT DEF Agree
    <2>2. {x \in Server : Agree(log[x], decided, Len(decided))} = Server
      BY <2>1
    <2>3. HasQuorum(Config, {x \in Server : Agree(log[x], decided, Len(decided))})
      BY <2>2 DEF Laws
    <2>4. ~(commitIndex > 0) /\ commits = {} /\ decided = <<>> /\ Agree(log[Self], decided, commitIndex)
      BY <1>1, <1>2, <2>1, SMT
    <2> QED
      BY <2>3, <2>4 DEF DecidedInv
  <1>8. EvidenceInv /\ ReportsInv /\ TickInv
    BY <1>1, <1>2, <1>3, SMT DEF EvidenceInv, MatchesInv, FloorInv, Leads, LeaderOf, ReportsInv, TickInv
  <1>9. WaitersInv
    BY <1>2 DEF WaitersInv, RequestInv
  <1> QED
    BY <1>4, <1>5, <1>6, <1>7, <1>8, <1>9 DEF IndInv, NodeInv

\* What the waiters say of the answers.
LEMMA Answers ==
    ASSUME IndInv, NEW q \in Request, request[q].at = "ok"
    PROVE  AnsweredInv(q, request[q], lastApplied)
  <1>1. PICK r : r = request[q]
    OBVIOUS
  <1>2. RequestInv(q, r, lastApplied)
    BY <1>1 DEF IndInv, WaitersInv
  <1> QED
    BY <1>1, <1>2, RequestKinds

(***************************************************************************)
(* The laws, from what is proved of configurations                          *)
(***************************************************************************)

Quorums == INSTANCE ConfigurationProofs

\* What Configuration defines is what its proofs are about.
LEMMA SameDefinitions ==
    /\ \A S : IsFiniteSet(S) <=> Quorums!IsFiniteSet(S)
    /\ \A S : Cardinality(S) = Quorums!Cardinality(S)
    /\ \A c : Validate(c) <=> Quorums!Validate(c)
    /\ \A c, P : HasQuorum(c, P) <=> Quorums!HasQuorum(c, P)
    /\ \A c, match : QuorumIndex(c, match) = Quorums!QuorumIndex(c, match)
    /\ Configurations(Server) = Quorums!Configurations(Server)
  <1>1. \A S : IsFiniteSet(S) <=> Quorums!IsFiniteSet(S)
    BY DEF IsFiniteSet, Quorums!IsFiniteSet
  <1>2. \A S : Cardinality(S) = Quorums!Cardinality(S)
    BY DEF Cardinality, Quorums!Cardinality, IsFiniteSet, Quorums!IsFiniteSet
  <1>3. \A c : IsJoint(c) <=> Quorums!IsJoint(c)
    BY DEF IsJoint, Quorums!IsJoint
  <1>4. \A M, P : hasMajority(M, P) <=> Quorums!hasMajority(M, P)
    BY <1>2 DEF hasMajority, Quorums!hasMajority
  <1>5. \A M, match : Descending(M, match) = Quorums!Descending(M, match)
    BY <1>2, SMT DEF Descending, Quorums!Descending, IsInjective, Quorums!IsInjective
  <1>6. \A M, match : majorityIndex(M, match) = Quorums!majorityIndex(M, match)
    BY <1>2, <1>5 DEF majorityIndex, Quorums!majorityIndex
  <1>7. \A c, match : QuorumIndex(c, match) = Quorums!QuorumIndex(c, match)
    BY <1>3, <1>6, SMT DEF QuorumIndex, Quorums!QuorumIndex
  <1>8. \A c, P : HasQuorum(c, P) <=> Quorums!HasQuorum(c, P)
    BY <1>3, <1>4 DEF HasQuorum, Quorums!HasQuorum
  <1>9. \A c : Validate(c) <=> Quorums!Validate(c)
    BY DEF Validate, Quorums!Validate
  <1>10. Configurations(Server) = Quorums!Configurations(Server)
    BY DEF Configurations, Quorums!Configurations
  <1> QED
    BY <1>1, <1>2, <1>7, <1>8, <1>9, <1>10

LEMMA LawsHold == Laws
  <1>1. Quorums!IsFiniteSet(Server) /\ Config \in Quorums!Configurations(Server)
        /\ Quorums!Validate(Config)
    BY ConfigIsValid, SameDefinitions
  <1>2. QuorumsMeet
    <2>1. ASSUME NEW P, NEW Q, Quorums!HasQuorum(Config, P), Quorums!HasQuorum(Config, Q)
          PROVE  P \cap Q # {}
      BY <1>1, <2>1, Quorums!QuorumsIntersect
    <2>2. ASSUME NEW P, NEW Q, HasQuorum(Config, P), HasQuorum(Config, Q)
          PROVE  \E x \in P : x \in Q
      <3>1. P \cap Q # {}
        BY <2>1, <2>2, SameDefinitions
      <3> QED
        BY <3>1
    <2> QED
      BY <2>2 DEF QuorumsMeet
  <1>3. QuorumsGrow
    <2>1. ASSUME NEW P, NEW Q, P \subseteq Q, Quorums!HasQuorum(Config, P)
          PROVE  Quorums!HasQuorum(Config, Q)
      BY <1>1, <2>1, Quorums!QuorumGrows
    <2> QED
      BY <2>1, SameDefinitions DEF QuorumsGrow
  <1>4. QuorumIndexHeld
    <2>1. ASSUME NEW match \in [Server -> Nat]
          PROVE  LET k == Quorums!QuorumIndex(Config, match)
                 IN  /\ k \in Nat /\ \E m \in Server : k = match[m]
                     /\ \A i \in Nat : Quorums!HasQuorum(Config, {m \in Server : match[m] >= i}) <=> i <= k
      BY <1>1, <2>1, Quorums!QuorumIndexIsHighest
    <2>2. ASSUME NEW match \in [Server -> Nat], NEW k, k = QuorumIndex(Config, match)
          PROVE  /\ k \in Nat /\ \E m \in Server : k = match[m]
                 /\ HasQuorum(Config, {m \in Server : match[m] >= k})
      <3>1. /\ k \in Nat /\ \E m \in Server : k = match[m]
            /\ \A i \in Nat : HasQuorum(Config, {m \in Server : match[m] >= i}) <=> i <= k
        BY <2>1, <2>2, SameDefinitions
      <3>2. k <= k
        BY <3>1, SMT
      <3> QED
        BY <3>1, <3>2
    <2> QED
      BY <2>2 DEF QuorumIndexHeld
  <1>5. HasQuorum(Config, Server)
    <2>1. Config.Voters = Server /\ Config.OldVoters = {} /\ IsFiniteSet(Server) /\ Server # {}
      BY RequestsAssumption DEF NewConfiguration
    <2>2. Quorums!Cardinality(Server) \in Nat /\ Quorums!Cardinality(Server) # 0
      BY <1>1, <2>1, Quorums!FS_CardinalityType, Quorums!FS_EmptySet
    <2>3. Cardinality(Server) > Cardinality(Server) \div 2
      BY <2>2, SameDefinitions, SMT
    <2>4. Server \cap Server = Server
      OBVIOUS
    <2> QED
      BY <2>1, <2>3, <2>4 DEF HasQuorum, hasMajority, IsJoint
  <1> QED
    BY <1>2, <1>3, <1>4, <1>5 DEF Laws
\* The invariant holds throughout.
LEMMA AlwaysIndInv ==
    ASSUME Windows = {}
    PROVE  Spec => []IndInv
  <1>1. Init => IndInv
    BY LawsHold, InitIndInv
  <1>2. IndInv /\ [Next]_vars => IndInv'
    BY NextIndInv
  <1> QED
    BY <1>1, <1>2, PTL DEF Spec

\* Every variable keeps its type, with any number of servers and requests.
THEOREM RequestsTypes ==
    ASSUME Windows = {}
    PROVE  Spec => []TypeOK
  <1>1. IndInv => TypeOK
    <2> SUFFICES ASSUME IndInv PROVE TypeOK
      OBVIOUS
    <2>1. \A q \in Request : request[q].at \in {"new", "waiting", "applying", "ok", "failed"}
      <3> SUFFICES ASSUME NEW q \in Request
                   PROVE  request[q].at \in {"new", "waiting", "applying", "ok", "failed"}
        OBVIOUS
      <3>1. PICK r : r = request[q]
        OBVIOUS
      <3>2. RequestInv(q, r, lastApplied)
        BY <3>1 DEF IndInv, WaitersInv
      <3> QED
        BY <3>1, <3>2, RequestKinds
    <2> QED
      BY <2>1 DEF IndInv, NodeInv, Types, TypeOK
  <1> QED
    BY <1>1, AlwaysIndInv, PTL

\* A write is acknowledged (fireCommittedWaiters) only if that very write is in
\* the committed log, at the index its waiter was registered under.
THEOREM AcknowledgedWritesAreDecided ==
    ASSUME Windows = {}
    PROVE  Spec => []AckedIsDecided
  <1>1. IndInv => AckedIsDecided
    <2> SUFFICES ASSUME IndInv, NEW q \in Write, request[q].at = "ok"
                 PROVE  /\ request[q].index <= Len(decided)
                        /\ decided[request[q].index].req = q
      BY DEF AckedIsDecided
    <2>1. request[q].index \in DOMAIN decided /\ decided[request[q].index].req = q
      BY Answers DEF AnsweredInv, Request
    <2>2. DOMAIN decided = 1 .. Len(decided) /\ Len(decided) \in Nat
      BY NodeTypes DEF IndInv, DecidedTyped
    <2> QED
      BY <2>1, <2>2, SMT
  <1> QED
    BY <1>1, AlwaysIndInv, PTL

\* A read is answered (fireReadWaiters, fireApplyWaiters) at an index that covers
\* all that was committed anywhere in the cluster when it was admitted.
THEOREM ReadsAreLinearizable ==
    ASSUME Windows = {}
    PROVE  Spec => []LinearizableRead
  <1>1. IndInv => LinearizableRead
    <2> SUFFICES ASSUME IndInv, NEW q \in Read, request[q].at = "ok"
                 PROVE  request[q].index >= request[q].floor
      BY DEF LinearizableRead
    <2> QED
      BY Answers DEF AnsweredInv, Request
  <1> QED
    BY <1>1, AlwaysIndInv, PTL

\* A read the node serves from its own state machine sees the committed log up to
\* the read index (readSatisfied, handleApplyWait).
THEOREM ReadsSeeTheCommittedLog ==
    ASSUME Windows = {}
    PROVE  Spec => []ReadIsApplied
  <1>1. IndInv => ReadIsApplied
    <2> SUFFICES ASSUME IndInv, NEW q \in Read, request[q].at = "ok", request[q].awaitApply
                 PROVE  /\ lastApplied >= request[q].index
                        /\ SubSeq(log[Self], 1, request[q].index) = SubSeq(decided, 1, request[q].index)
      BY DEF ReadIsApplied
    <2>1. PICK k : k = request[q].index
      OBVIOUS
    <2>2. k \in Nat /\ k <= lastApplied
      BY <2>1, Answers DEF AnsweredInv, Request
    <2>3. NodeInv
      BY DEF IndInv
    <2>4. /\ lastApplied \in 0 .. commitIndex /\ commitIndex \in Nat
          /\ Agree(log[Self], decided, commitIndex)
      BY <2>3, NodeTypes DEF NodeInv, Types, DecidedInv
    <2>5. /\ log[Self] \in Seq(Entries) /\ decided \in Seq(Entries)
          /\ Len(log[Self]) \in Nat /\ Len(decided) \in Nat
      BY <2>3, NodeTypes DEF Typed, DecidedTyped
    <2>6. k <= Len(log[Self]) /\ k <= Len(decided) /\ \A i \in 1 .. k : log[Self][i] = decided[i]
      BY <2>2, <2>4, <2>5, SMT DEF Agree
    <2>7. SubSeq(log[Self], 1, k) = SubSeq(decided, 1, k)
      BY <2>2, <2>5, <2>6, SMT
    <2> QED
      BY <2>1, <2>2, <2>4, <2>7
  <1> QED
    BY <1>1, AlwaysIndInv, PTL
=============================================================================
