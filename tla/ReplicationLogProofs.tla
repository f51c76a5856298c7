------------------------ MODULE ReplicationLogProofs ------------------------
(***************************************************************************)
(* Logs, the requests that carry parts of them, and the changes a step of   *)
(* Replication is made of: each keeps the invariant.                        *)
(***************************************************************************)
EXTENDS ReplicationInvariant, TLAPS

(***************************************************************************)
(* Entries, sequences and quorums                                           *)
(***************************************************************************)

LEMMA Bounds == MaxTerm \in Nat /\ MaxIndex \in Nat /\ MaxFaults \in Nat /\ MaxLate \in Nat
  BY ReplicationAssumption, Zenon

\* An entry is its index and its term.
LEMMA EntryFacts ==
    /\ \A e \in Entries : /\ e.Index \in 1 .. MaxIndex /\ e.Term \in 1 .. MaxTerm
                          /\ e = [Index |-> e.Index, Term |-> e.Term]
    /\ \A e \in Entries : e.Index \in Nat /\ e.Term \in Nat /\ e.Term > 0
  <1>1. \A e \in Entries : /\ e.Index \in 1 .. MaxIndex /\ e.Term \in 1 .. MaxTerm
                           /\ e = [Index |-> e.Index, Term |-> e.Term]
    BY DEF Entries
  <1>2. \A i \in 1 .. MaxIndex : i \in Nat
    BY Bounds
  <1>3. \A t \in 1 .. MaxTerm : t \in Nat /\ t > 0
    BY Bounds
  <1> QED
    BY <1>1, <1>2, <1>3, Zenon

LEMMA SeqFacts ==
    ASSUME NEW s \in Seq(Entries)
    PROVE  /\ Len(s) \in Nat /\ DOMAIN s = 1 .. Len(s)
           /\ \A i \in DOMAIN s : i \in Nat /\ i > 0 /\ i <= Len(s) /\ s[i] \in Entries
           /\ \A i \in Nat : i > 0 /\ i <= Len(s) => i \in DOMAIN s
           /\ s = <<>> <=> Len(s) = 0
  OBVIOUS

LEMMA PrefixFacts ==
    ASSUME NEW s \in Seq(Entries), NEW k \in Nat, k <= Len(s)
    PROVE  /\ SubSeq(s, 1, k) \in Seq(Entries) /\ Len(SubSeq(s, 1, k)) = k
           /\ DOMAIN SubSeq(s, 1, k) = 1 .. k
           /\ \A i \in 1 .. k : SubSeq(s, 1, k)[i] = s[i]
  OBVIOUS

LEMMA Meet ==
    ASSUME Laws, NEW P, NEW Q, HasQuorum(Config, P), HasQuorum(Config, Q)
    PROVE  \E x \in P : x \in Q
  BY Zenon DEF Laws, QuorumsMeet

LEMMA Grow ==
    ASSUME Laws, NEW P, NEW Q, P \subseteq Q, HasQuorum(Config, P)
    PROVE  HasQuorum(Config, Q)
  BY Zenon DEF Laws, QuorumsGrow

\* What a request carries.
LEMMA ChainFacts ==
    ASSUME NEW m, MessageShape(m)
    PROVE  /\ m.prevLogIndex \in Nat /\ m.term \in Nat /\ m.term > 0 /\ m.leaderCommit \in Indices
           /\ m.entries \in Seq(Entries) /\ Len(m.entries) \in Nat /\ m.to \in Server
           /\ End(m) \in Indices /\ End(m) \in Nat /\ End(m) = m.prevLogIndex + Len(m.entries)
           /\ \A i : i \in DOMAIN Chain(m) <=>
                        i \in Nat /\ i > 0 /\ i >= m.prevLogIndex /\ i <= End(m)
           /\ \A k \in 1 .. Len(m.entries) :
                 /\ m.prevLogIndex + k \in DOMAIN Chain(m)
                 /\ Chain(m)[m.prevLogIndex + k] = m.entries[k]
           /\ m.prevLogIndex > 0 =>
                 /\ m.prevLogIndex \in DOMAIN Chain(m)
                 /\ Chain(m)[m.prevLogIndex] = [Index |-> m.prevLogIndex, Term |-> m.prevLogTerm]
  <1>1. /\ m.prevLogIndex \in Indices /\ m.term \in 1 .. MaxTerm /\ m.leaderCommit \in Indices
        /\ m.entries \in Seq(Entries) /\ m.to \in Server
    BY DEF MessageShape, Requests
  <1>2. /\ m.prevLogIndex \in Nat /\ m.term \in Nat /\ m.term > 0
        /\ Len(m.entries) \in Nat
    BY <1>1, Bounds DEF Indices
  <1> DEFINE p == m.prevLogIndex
             N == Len(m.entries)
             F == [i \in (IF p = 0 THEN 1 ELSE p) .. End(m) |->
                      IF i = p THEN [Index |-> i, Term |-> m.prevLogTerm] ELSE m.entries[i - p]]
  <1>3. End(m) = p + N /\ End(m) <= MaxIndex
    BY Zenon DEF End, MessageShape
  <1>4. End(m) \in Indices /\ End(m) \in Nat
    BY <1>2, <1>3, Bounds DEF Indices
  <1>5. Chain(m) = F
    BY Zenon DEF Chain
  <1> HIDE DEF p, N
  <1>6. \A i : i \in DOMAIN F <=> i \in Nat /\ i > 0 /\ i >= p /\ i <= End(m)
    BY <1>2, <1>4 DEF p
  <1>7. \A k \in 1 .. N : p + k \in DOMAIN F /\ F[p + k] = m.entries[k]
    <2> SUFFICES ASSUME NEW k \in 1 .. N PROVE p + k \in DOMAIN F /\ F[p + k] = m.entries[k]
      OBVIOUS
    <2>1. p + k \in (IF p = 0 THEN 1 ELSE p) .. End(m) /\ p + k # p /\ p + k - p = k
      BY <1>2, <1>3 DEF p, N
    <2>2. PICK j : j = p + k
      OBVIOUS
    <2>3. j \in DOMAIN F /\ F[j] = m.entries[j - p]
      BY <2>1, <2>2, Zenon
    <2>4. j - p = k
      BY <1>2, <2>2 DEF p
    <2> HIDE DEF F
    <2> QED
      BY <2>2, <2>3, <2>4, Zenon
  <1>8. p > 0 => p \in DOMAIN F /\ F[p] = [Index |-> p, Term |-> m.prevLogTerm]
    <2> SUFFICES ASSUME p > 0 PROVE p \in DOMAIN F /\ F[p] = [Index |-> p, Term |-> m.prevLogTerm]
      OBVIOUS
    <2>1. p \in (IF p = 0 THEN 1 ELSE p) .. End(m)
      BY <1>2, <1>3 DEF p, N
    <2> QED
      BY <2>1, Zenon
  <1> HIDE DEF F
  <1> QED
    BY <1>1, <1>2, <1>3, <1>4, <1>5, <1>6, <1>7, <1>8, Zenon DEF p, N

\* What the batch of m makes of log old: itself, if it has all of it, else a log
\* that ends with it.
Takes(new, old, m) ==
    \/ new = old /\ Has(old, Chain(m))
    \/ /\ Len(new) = End(m) /\ ~Has(old, Chain(m)) /\ Has(new, Chain(m))
       /\ \A i \in 1 .. m.prevLogIndex : i \in DOMAIN old /\ new[i] = old[i]

(***************************************************************************)
(* Chains and what they have of a log                                       *)
(***************************************************************************)

LEMMA ChainEntry ==
    ASSUME NEW x, IsChain(x), NEW i \in DOMAIN x
    PROVE  i \in Nat /\ i > 0 /\ x[i] \in Entries /\ x[i].Index = i /\ x[i].Term \in Nat /\ x[i].Term > 0
  <1>1. i \in Nat /\ i > 0 /\ x[i] \in Entries /\ x[i].Index = i
    BY Zenon DEF IsChain
  <1> QED
    BY <1>1, EntryFacts, Zenon

LEMMA EndFacts ==
    ASSUME NEW a \in Seq(Entries), Len(a) > 0
    PROVE  /\ Len(a) \in Nat /\ Len(a) \in DOMAIN a /\ TermOf(a) \in Nat /\ TermOf(a) > 0
           /\ \A i : i \in DOMAIN a <=> i \in Nat /\ i > 0 /\ i <= Len(a)
  <1>1. Len(a) \in Nat /\ \A i : i \in DOMAIN a <=> i \in Nat /\ i > 0 /\ i <= Len(a)
    OBVIOUS
  <1>2. Len(a) \in DOMAIN a
    BY <1>1
  <1>3. a[Len(a)] \in Entries
    BY <1>2, SeqFacts, Zenon
  <1> QED
    BY <1>1, <1>2, <1>3, EntryFacts, Zenon DEF TermOf

LEMMA SymmetricMatch ==
    ASSUME NEW x, NEW y, Match(x, y)
    PROVE  Match(y, x)
  BY Zenon DEF Match

LEMMA PartFits ==
    ASSUME NEW x, NEW y, NEW a, Has(y, x)
    PROVE  /\ Fits(y, a) => Fits(x, a)
           /\ Carries(y, a) => Carries(x, a)
           /\ \A z : Match(y, z) => Match(x, z)
           /\ \A z : Has(z, y) => Has(z, x)
  <1>1. Fits(y, a) => Fits(x, a)
    BY Zenon DEF Has, Fits
  <1>2. Carries(y, a) => Carries(x, a)
    BY <1>1, Zenon DEF Has, Carries
  <1>3. \A z : Match(y, z) => Match(x, z)
    BY Zenon DEF Has, Match
  <1>4. \A z : Has(z, y) => Has(z, x)
    BY Zenon DEF Has
  <1> QED
    BY <1>1, <1>2, <1>3, <1>4, Zenon

\* A chain that has a is, from the end of a on, of its term or a later one.
LEMMA HasFits ==
    ASSUME NEW y, IsChain(y), NEW a \in Seq(Entries), Len(a) > 0, Has(y, a)
    PROVE  Fits(y, a)
  <1>1. Len(a) \in DOMAIN y /\ y[Len(a)].Term = TermOf(a)
    BY EndFacts, Zenon DEF Has, TermOf
  <1> SUFFICES ASSUME NEW i \in DOMAIN y
               PROVE  /\ i <= Len(a) => y[i] = a[i]
                      /\ i >= Len(a) => y[i].Term >= TermOf(a)
    BY Zenon DEF Fits
  <1>2. i <= Len(a) => i \in DOMAIN a
    BY ChainEntry, EndFacts, Zenon
  <1>3. i <= Len(a) => y[i] = a[i]
    BY <1>2, Zenon DEF Has
  <1>4. i >= Len(a) => y[i].Term >= TermOf(a)
    <2>1. Len(a) \in Nat /\ i \in Nat /\ y[i].Term \in Nat /\ TermOf(a) \in Nat
      BY ChainEntry, EndFacts, Zenon
    <2>2. Len(a) <= i => y[Len(a)].Term <= y[i].Term
      BY <1>1, Zenon DEF IsChain
    <2> QED
      BY <1>1, <2>1, <2>2
  <1> QED
    BY <1>3, <1>4, Zenon

\* A log that is up to date with a has it.
LEMMA CarriesHas ==
    ASSUME NEW c \in Seq(Entries), NEW a \in Seq(Entries), Len(a) > 0, Carries(c, a),
           NEW i \in DOMAIN c, Above(c[i], a)
    PROVE  Has(c, a) /\ Fits(c, a) /\ i >= Len(a)
  <1>1. i >= Len(a) /\ Fits(c, a)
    BY Zenon DEF Carries
  <1>2. ASSUME NEW j \in DOMAIN a PROVE j \in DOMAIN c /\ j <= Len(a)
    BY <1>1, <1>2, SeqFacts
  <1> QED
    BY <1>1, <1>2, Zenon DEF Has, Fits

LEMMA AboveFacts ==
    ASSUME NEW e \in Entries, NEW a \in Seq(Entries), Len(a) > 0
    PROVE  /\ Above(e, a) <=>
                 e.Term > TermOf(a) \/ (e.Term = TermOf(a) /\ e.Index >= Len(a))
           /\ Above(e, a) => e.Term >= TermOf(a)
           /\ e.Term >= TermOf(a) /\ e.Index >= Len(a) => Above(e, a)
  <1>1. Above(e, a) <=> e.Term > TermOf(a) \/ (e.Term = TermOf(a) /\ e.Index >= Len(a))
    BY Zenon DEF Above, candidateUpToDate
  <1>2. e.Term \in Nat /\ e.Index \in Nat /\ TermOf(a) \in Nat /\ Len(a) \in Nat
    BY EntryFacts, EndFacts, Zenon
  <1> QED
    BY <1>1, <1>2

(***************************************************************************)
(* new continues old, up to index p, with the entries of x from p on.       *)
(***************************************************************************)

Joins(new, old, x, p) ==
    /\ p \in Nat /\ \A i \in DOMAIN x : i >= p
    /\ p > 0 => p \in DOMAIN x /\ p \in DOMAIN old /\ x[p] = old[p]
    /\ new \in Seq(Entries) /\ Has(new, x)
    /\ \A i \in DOMAIN new : \/ i \in DOMAIN x /\ new[i] = x[i]
                             \/ i < p /\ i \in DOMAIN old /\ new[i] = old[i]

LEMMA JoinChain ==
    ASSUME NEW new, NEW old, NEW x, NEW p, Joins(new, old, x, p), IsChain(old), IsChain(x)
    PROVE  IsChain(new)
  <1>1. \A i \in DOMAIN new : i \in Nat /\ i > 0 /\ new[i] \in Entries /\ new[i].Index = i
    <2>1. /\ \A i \in DOMAIN x : i \in Nat /\ i > 0 /\ x[i] \in Entries /\ x[i].Index = i
          /\ \A i \in DOMAIN old : i \in Nat /\ i > 0 /\ old[i] \in Entries /\ old[i].Index = i
      BY Zenon DEF IsChain
    <2> QED
      BY <2>1, Zenon DEF Joins
  <1>2. \A i, j \in DOMAIN new : \A k \in i .. j : k \in DOMAIN new
    <2>1. new \in Seq(Entries)
      BY Zenon DEF Joins
    <2> QED
      BY <2>1
  <1>3. ASSUME NEW i \in DOMAIN new, NEW j \in DOMAIN new, i <= j
        PROVE  new[i].Term <= new[j].Term
    <2>1. p \in Nat /\ i \in Nat /\ j \in Nat /\ i > 0
      BY <1>1, Zenon DEF Joins
    <2>2. CASE i \in DOMAIN x /\ new[i] = x[i]
      <3>1. i >= p
        BY <2>2, Zenon DEF Joins
      <3>2. ~(j < p)
        BY <1>3, <2>1, <3>1
      <3>3. j \in DOMAIN x /\ new[j] = x[j]
        BY <3>2, Zenon DEF Joins
      <3> QED
        BY <1>3, <2>2, <3>3, Zenon DEF IsChain
    <2>3. CASE i < p /\ i \in DOMAIN old /\ new[i] = old[i]
      <3>1. i <= p /\ p > 0
        BY <2>1, <2>3
      <3>2. p \in DOMAIN x /\ p \in DOMAIN old /\ x[p] = old[p]
        BY <3>1, Zenon DEF Joins
      <3>3. CASE j < p /\ j \in DOMAIN old /\ new[j] = old[j]
        BY <1>3, <2>3, <3>3, Zenon DEF IsChain
      <3>4. CASE j \in DOMAIN x /\ new[j] = x[j]
        <4>1. p <= j
          <5>1. j >= p
            BY <3>4, Zenon DEF Joins
          <5> QED
            BY <2>1, <5>1
        <4>2. old[i].Term <= old[p].Term /\ x[p].Term <= x[j].Term
          BY <2>3, <3>1, <3>2, <3>4, <4>1, Zenon DEF IsChain
        <4>3. old[i].Term \in Nat /\ old[p].Term \in Nat /\ x[j].Term \in Nat
          BY <2>3, <3>2, <3>4, ChainEntry, Zenon
        <4> QED
          BY <2>3, <3>2, <3>4, <4>2, <4>3
      <3> QED
        BY <3>3, <3>4, Zenon DEF Joins
    <2> QED
      BY <2>2, <2>3, Zenon DEF Joins
  <1> QED
    BY <1>1, <1>2, <1>3, Zenon DEF IsChain

LEMMA JoinMatch ==
    ASSUME NEW new, NEW old, NEW x, NEW p, Joins(new, old, x, p), IsChain(new),
           NEW y, IsChain(y), Match(old, y), Match(x, y)
    PROVE  Match(new, y)
  <1> SUFFICES ASSUME NEW i \in DOMAIN new \cap DOMAIN y, NEW j \in DOMAIN new \cap DOMAIN y,
                      j <= i, new[i] = y[i]
               PROVE  new[j] = y[j]
    BY Zenon DEF Match
  <1>1. p \in Nat /\ i \in Nat /\ j \in Nat /\ j > 0
    BY Zenon DEF Joins, IsChain
  <1>2. CASE i < p /\ i \in DOMAIN old /\ new[i] = old[i]
    <2>1. j < p
      BY <1>1, <1>2
    <2>2. ~(j >= p)
      BY <1>1, <2>1
    <2>3. j \in DOMAIN old /\ new[j] = old[j]
      BY <2>2, Zenon DEF Joins
    <2> QED
      BY <1>2, <2>3, Zenon DEF Match
  <1>3. CASE i \in DOMAIN x /\ new[i] = x[i]
    <2>1. CASE j \in DOMAIN x /\ new[j] = x[j]
      BY <1>3, <2>1, Zenon DEF Match
    <2>2. CASE j < p /\ j \in DOMAIN old /\ new[j] = old[j]
      <3>1. p > 0 /\ j <= p
        BY <1>1, <2>2
      <3>2. p \in DOMAIN x /\ p \in DOMAIN old /\ x[p] = old[p] /\ i >= p
        BY <1>3, <3>1, Zenon DEF Joins
      <3>3. p \in j .. i /\ p <= i
        BY <1>1, <3>1, <3>2
      <3>4. p \in DOMAIN y
        BY <3>3, Zenon DEF IsChain
      <3>5. x[p] = y[p]
        BY <1>3, <3>2, <3>3, <3>4, Zenon DEF Match
      <3> QED
        BY <2>2, <3>1, <3>2, <3>4, <3>5, Zenon DEF Match
    <2> QED
      BY <2>1, <2>2, Zenon DEF Joins
  <1> QED
    BY <1>2, <1>3, Zenon DEF Joins

\* What old and x carry the join carries; some log with a settles what old has
\* below p when x begins inside a.
LEMMA JoinCarries ==
    ASSUME NEW new, NEW old, NEW x, NEW p, Joins(new, old, x, p), IsChain(new), IsChain(old), IsChain(x),
           NEW a \in Seq(Entries), Len(a) > 0, Carries(old, a), Carries(x, a),
           NEW y, Has(y, a), Match(old, y)
    PROVE  Carries(new, a)
  <1>0. Len(a) \in Nat /\ TermOf(a) \in Nat /\ p \in Nat
    BY EndFacts, Zenon DEF Joins
  <1>1. ASSUME p > 0 PROVE p \in DOMAIN x /\ p \in DOMAIN old /\ x[p] = old[p]
    BY <1>1, Zenon DEF Joins
  <1>2. ASSUME Fits(x, a) PROVE p > 0 => \A j \in DOMAIN old : j <= p =>
                                     /\ j <= Len(a) => old[j] = a[j]
                                     /\ j >= Len(a) => old[j].Term >= TermOf(a)
    <2> SUFFICES ASSUME p > 0, NEW j \in DOMAIN old, j <= p
                 PROVE  /\ j <= Len(a) => old[j] = a[j]
                        /\ j >= Len(a) => old[j].Term >= TermOf(a)
      BY Zenon
    <2>1. p \in DOMAIN x /\ p \in DOMAIN old /\ x[p] = old[p]
      BY <1>1, Zenon
    <2>2. j \in Nat /\ j > 0 /\ old[p] \in Entries /\ old[p].Index = p
      BY <2>1, ChainEntry, Zenon
    <2>3. CASE p <= Len(a)
      <3>1. x[p] = a[p] /\ p \in DOMAIN a
        <4>1. p \in DOMAIN a
          BY <1>0, <2>3, EndFacts, Zenon
        <4> QED
          BY <1>2, <2>1, <2>3, <4>1, Zenon DEF Fits
      <3>2. p \in DOMAIN y /\ y[p] = old[p]
        BY <2>1, <3>1, Zenon DEF Has
      <3>3. j <= Len(a)
        BY <1>0, <2>2, <2>3
      <3>4. j \in DOMAIN a
        BY <2>2, <3>3, EndFacts, Zenon
      <3>5. j \in DOMAIN y /\ y[j] = a[j]
        BY <3>4, Zenon DEF Has
      <3>6. old[j] = a[j]
        BY <2>1, <3>2, <3>5, Zenon DEF Match
      <3>7. j >= Len(a) => j = Len(a)
        BY <1>0, <2>2, <3>3
      <3>8. TermOf(a) >= TermOf(a)
        BY <1>0
      <3> QED
        BY <3>6, <3>7, <3>8, Zenon DEF TermOf
    <2>4. CASE p > Len(a)
      <3>1. p >= Len(a)
        BY <1>0, <2>4
      <3>2. old[p].Term >= TermOf(a)
        BY <1>2, <2>1, <3>1, Zenon DEF Fits
      <3>3. Above(old[p], a)
        BY <2>2, <3>1, <3>2, AboveFacts, Zenon
      <3>4. Fits(old, a)
        BY <2>1, <3>3, Zenon DEF Carries
      <3> QED
        BY <3>4, Zenon DEF Fits
    <2> QED
      BY <1>0, <2>3, <2>4
  <1>3. ASSUME Fits(x, a) PROVE Fits(new, a)
    <2> SUFFICES ASSUME NEW i \in DOMAIN new
                 PROVE  /\ i <= Len(a) => new[i] = a[i]
                        /\ i >= Len(a) => new[i].Term >= TermOf(a)
      BY Zenon DEF Fits
    <2>1. CASE i \in DOMAIN x /\ new[i] = x[i]
      BY <1>3, <2>1, Zenon DEF Fits
    <2>2. CASE i < p /\ i \in DOMAIN old /\ new[i] = old[i]
      <3>1. p > 0 /\ i <= p
        <4>1. i \in Nat
          BY <2>2, ChainEntry, Zenon
        <4> QED
          BY <1>0, <2>2, <4>1
      <3> QED
        BY <1>2, <1>3, <2>2, <3>1, Zenon
    <2> QED
      BY <2>1, <2>2, Zenon DEF Joins
  <1> SUFFICES ASSUME NEW i \in DOMAIN new, Above(new[i], a)
               PROVE  i >= Len(a) /\ Fits(x, a)
    BY <1>3, Zenon DEF Carries
  <1>4. CASE i \in DOMAIN x /\ new[i] = x[i]
    BY <1>4, Zenon DEF Carries
  <1>5. CASE i < p /\ i \in DOMAIN old /\ new[i] = old[i]
    <2>1. i \in Nat /\ i > 0 /\ old[i] \in Entries /\ old[i].Term \in Nat
      BY <1>5, ChainEntry, Zenon
    <2>2. p > 0 /\ i <= p
      BY <1>0, <1>5, <2>1
    <2>3. i >= Len(a)
      BY <1>5, Zenon DEF Carries
    <2>4. p \in DOMAIN x /\ x[p] = old[p] /\ p \in DOMAIN old
      BY <1>1, <2>2, Zenon
    <2>5. old[i].Term <= old[p].Term /\ old[p] \in Entries /\ old[p].Index = p /\ old[p].Term \in Nat
      BY <1>5, <2>2, <2>4, ChainEntry, Zenon DEF IsChain
    <2>6. old[i].Term >= TermOf(a)
      BY <1>5, <2>1, AboveFacts, Zenon
    <2>7. old[p].Term >= TermOf(a) /\ p >= Len(a)
      BY <1>0, <2>1, <2>2, <2>3, <2>5, <2>6
    <2>8. Above(x[p], a)
      BY <2>4, <2>5, <2>7, AboveFacts, Zenon
    <2> QED
      BY <2>3, <2>4, <2>8, Zenon DEF Carries
  <1> QED
    BY <1>4, <1>5, Zenon DEF Joins

LEMMA TakesJoins ==
    ASSUME NEW m, MessageShape(m), NEW old, NEW new \in Seq(Entries), Takes(new, old, m),
           m.prevLogIndex > 0 => /\ m.prevLogIndex \in DOMAIN old
                                 /\ old[m.prevLogIndex] = Chain(m)[m.prevLogIndex]
    PROVE  new = old \/ Joins(new, old, Chain(m), m.prevLogIndex)
  <1> SUFFICES ASSUME Len(new) = End(m), Has(new, Chain(m)),
                      \A i \in 1 .. m.prevLogIndex : i \in DOMAIN old /\ new[i] = old[i]
               PROVE  Joins(new, old, Chain(m), m.prevLogIndex)
    BY Zenon DEF Takes
  <1> DEFINE p == m.prevLogIndex
             x == Chain(m)
  <1>1. p \in Nat /\ \A i : i \in DOMAIN x <=> i \in Nat /\ i > 0 /\ i >= p /\ i <= End(m)
    BY ChainFacts, Zenon
  <1>2. p > 0 => p \in DOMAIN x
    BY ChainFacts, Zenon
  <1> HIDE DEF p, x
  <1>3. ASSUME NEW i \in DOMAIN new
        PROVE  i \in DOMAIN x \/ (i < p /\ i \in 1 .. p)
    <2>1. i \in Nat /\ i > 0 /\ i <= End(m)
      BY SeqFacts, Zenon
    <2> QED
      BY <1>1, <2>1
  <1> QED
    BY <1>1, <1>2, <1>3, Zenon DEF Joins, Has, p, x

\* A batch that agrees with what the log has of b leaves that alone.
LEMMA TakesKeeps ==
    ASSUME NEW m, MessageShape(m), NEW old, NEW new \in Seq(Entries), Takes(new, old, m),
           NEW b \in Seq(Entries), Has(old, b),
           \A i \in DOMAIN Chain(m) : i <= Len(b) => Chain(m)[i] = b[i]
    PROVE  Has(new, b)
  <1> SUFFICES ASSUME Len(new) = End(m), Has(new, Chain(m)), ~Has(old, Chain(m)),
                      \A i \in 1 .. m.prevLogIndex : i \in DOMAIN old /\ new[i] = old[i],
                      NEW i \in DOMAIN b
               PROVE  i \in DOMAIN new /\ new[i] = b[i]
    BY Zenon DEF Takes, Has
  <1> DEFINE p == m.prevLogIndex
             x == Chain(m)
  <1>1. p \in Nat /\ \A j : j \in DOMAIN x <=> j \in Nat /\ j > 0 /\ j >= p /\ j <= End(m)
    BY ChainFacts, Zenon
  <1>2. End(m) \in Nat
    BY ChainFacts, Zenon
  <1>3. i \in Nat /\ i > 0 /\ i <= Len(b) /\ Len(b) \in Nat /\ i \in DOMAIN old /\ old[i] = b[i]
    BY SeqFacts, Zenon DEF Has
  <1>4. i <= End(m)
    <2> SUFFICES ASSUME i > End(m) PROVE FALSE
      BY <1>2, <1>3
    <2>1. ASSUME NEW j \in DOMAIN x PROVE j \in DOMAIN b /\ j <= Len(b)
      <3>1. j \in Nat /\ j > 0 /\ j <= End(m)
        BY <1>1, <2>1, Zenon
      <3>2. j <= Len(b)
        BY <1>2, <1>3, <3>1
      <3> QED
        BY <3>1, <3>2, SeqFacts, Zenon
    <2>2. Has(old, x)
      BY <2>1, Zenon DEF Has
    <2> QED
      BY <2>2, Zenon
  <1>5. i \in DOMAIN new
    BY <1>3, <1>4, SeqFacts, Zenon
  <1> HIDE DEF p, x
  <1>6. i \in DOMAIN x \/ i \in 1 .. p
    BY <1>1, <1>3, <1>4
  <1> QED
    BY <1>3, <1>5, <1>6, Zenon DEF Has, p, x

(***************************************************************************)
(* What the invariant says of a state                                       *)
(***************************************************************************)

LEMMA TypeFacts ==
    ASSUME NEW s, Types(s), NEW n \in Server
    PROVE  /\ s.term[n] \in Nat /\ s.term[n] \in Terms /\ s.vote[n] \in Server \cup {Nil}
           /\ s.role[n] \in {"Follower", "Candidate", "Leader"} /\ s.votes[n] \subseteq Server
           /\ s.cache[n] \in Seq(Entries) /\ s.commit[n] \in Nat /\ s.chosen \in Seq(Entries)
           /\ s.ends[n].term \in Nat
           /\ s.ends[n].lastLogIndex \in Nat /\ s.ends[n].lastLogTerm \in Nat
           /\ \A p \in Server :
                 /\ s.next[n][p] \in Nat /\ s.next[n][p] > 0 /\ s.match[n][p] \in Nat
                 /\ s.round[n][p] \in {Idle} \cup [at : {"answered"}, reply : Replies]
  <1>1. /\ \A k \in Terms : k \in Nat
        /\ \A i \in Indices : i \in Nat
        /\ \A i \in 1 .. MaxIndex + 1 : i \in Nat /\ i > 0
    BY Bounds DEF Terms, Indices
  <1>2. s.term[n] \in Terms /\ s.vote[n] \in Server \cup {Nil}
    BY Zenon DEF Types
  <1>3. s.role[n] \in {"Follower", "Candidate", "Leader"} /\ s.votes[n] \subseteq Server
    BY Zenon DEF Types
  <1>4. s.cache[n] \in Seq(Entries) /\ s.commit[n] \in Indices /\ s.chosen \in Seq(Entries)
    BY Zenon DEF Types
  <1>5. s.ends[n].term \in Terms /\ s.ends[n].lastLogIndex \in Nat /\ s.ends[n].lastLogTerm \in Nat
    <2>1. s.ends[n] \in [term : Terms, lastLogIndex : Nat, lastLogTerm : Nat]
      BY Zenon DEF Types
    <2> QED
      BY <2>1, Zenon
  <1>6. ASSUME NEW p \in Server
        PROVE  /\ s.next[n][p] \in 1 .. MaxIndex + 1 /\ s.match[n][p] \in Indices
               /\ s.round[n][p] \in {Idle} \cup [at : {"answered"}, reply : Replies]
    <2>1. /\ s.next[n] \in [Server -> 1 .. MaxIndex + 1] /\ s.match[n] \in [Server -> Indices]
          /\ s.round[n] \in [Server -> {Idle} \cup [at : {"answered"}, reply : Replies]]
      BY Zenon DEF Types
    <2> QED
      BY <2>1, Zenon
  <1> QED
    BY <1>1, <1>2, <1>3, <1>4, <1>5, <1>6, Zenon

LEMMA ReplyFacts ==
    ASSUME NEW s, Types(s), NEW n \in Server, NEW p \in Server, s.round[n][p] # Idle
    PROVE  /\ s.round[n][p].at = "answered"
           /\ s.round[n][p].reply.asked \in Nat /\ s.round[n][p].reply.term \in Nat
           /\ s.round[n][p].reply.success \in BOOLEAN /\ s.round[n][p].reply.index \in Nat
           /\ s.round[n][p].reply.term >= s.round[n][p].reply.asked
           /\ s.round[n][p].reply.success => s.round[n][p].reply.index \in Indices
  <1>1. s.round[n][p] \in [at : {"answered"}, reply : Replies]
    BY TypeFacts, Zenon
  <1>2. s.round[n][p].at = "answered" /\ s.round[n][p].reply \in Replies
    BY <1>1, Zenon
  <1>3. \A k \in Terms : k \in Nat
    BY Bounds DEF Terms
  <1> QED
    BY <1>2, <1>3, Zenon DEF Replies

LEMMA CacheFacts ==
    ASSUME NEW s, Types(s), ChainsInv(s), NEW n \in Server
    PROVE  /\ s.cache[n] \in Chains(s) /\ IsChain(s.cache[n]) /\ s.cache[n] \in Seq(Entries)
           /\ Len(s.cache[n]) \in Nat /\ Len(s.cache[n]) <= MaxIndex
           /\ \A i : i \in DOMAIN s.cache[n] <=> i \in Nat /\ i > 0 /\ i <= Len(s.cache[n])
  <1>1. s.cache[n] \in Seq(Entries)
    BY Zenon DEF Types
  <1>2. s.cache[n] \in Chains(s)
    BY Zenon DEF Chains
  <1>3. IsChain(s.cache[n])
    BY <1>2, Zenon DEF ChainsInv
  <1> DEFINE c == s.cache[n]
  <1>4. /\ Len(c) \in Nat /\ \A i : i \in DOMAIN c <=> i \in Nat /\ i > 0 /\ i <= Len(c)
    BY <1>1
  <1> HIDE DEF c
  <1>5. Len(c) <= MaxIndex
    <2>1. CASE Len(c) = 0
      BY <2>1, Bounds
    <2>2. CASE Len(c) > 0
      <3>1. Len(c) \in DOMAIN c
        BY <1>4, <2>2
      <3>2. c[Len(c)].Index = Len(c) /\ c[Len(c)] \in Entries
        BY <1>3, <3>1, ChainEntry, Zenon DEF c
      <3>3. Len(c) \in 1 .. MaxIndex
        BY <3>2, EntryFacts, Zenon
      <3> QED
        BY <3>3, Bounds
    <2> QED
      BY <1>4, <2>1, <2>2
  <1> QED
    BY <1>1, <1>2, <1>3, <1>4, <1>5, Zenon DEF c

LEMMA SameSequence ==
    ASSUME NEW s \in Seq(Entries), NEW t \in Seq(Entries), Len(s) = Len(t),
           \A i \in DOMAIN s : s[i] = t[i]
    PROVE  s = t
  OBVIOUS

LEMMA AppendFacts ==
    ASSUME NEW s \in Seq(Entries), NEW e \in Entries
    PROVE  /\ Append(s, e) \in Seq(Entries) /\ Len(Append(s, e)) = Len(s) + 1
           /\ Append(s, e)[Len(s) + 1] = e
           /\ \A i \in 1 .. Len(s) : Append(s, e)[i] = s[i]
  OBVIOUS

(***************************************************************************)
(* What a batch makes of a log                                              *)
(***************************************************************************)

\* Induction on the naturals, for a property given as a set.
LEMMA Induction ==
    ASSUME Laws, NEW S, 0 \in S, \A n \in Nat : n \in S => n + 1 \in S
    PROVE  Nat \subseteq S
  <1> SUFFICES ASSUME NEW n \in Nat, n \notin S PROVE FALSE
    OBVIOUS
  <1> DEFINE T == {k \in Nat : k \notin S}
  <1>1. T \subseteq Nat /\ n \in T
    OBVIOUS
  <1>2. PICK x \in T : \A y \in T : x <= y
    BY <1>1, Zenon DEF Laws, LeastMembers
  <1>3. x # 0 /\ x - 1 \in Nat /\ x - 1 < x /\ (x - 1) + 1 = x
    OBVIOUS
  <1>4. x - 1 \in S
    BY <1>2, <1>3
  <1> QED
    BY <1>3, <1>4

\* Splice runs through the batch (the loop of AppendEntriesToLog).
LEMMA SpliceSteps ==
    ASSUME Laws, NEW l, NEW entries, Len(entries) \in Nat
    PROVE  \E f : /\ f[0] = [log |-> l, ok |-> TRUE]
                  /\ \A k \in 1 .. Len(entries) : f[k] = SpliceEntry(f[k - 1], entries[k])
                  /\ Splice(l, entries) = f[Len(entries)]
  <1> DEFINE Is(f, n) == f = [k \in 0 .. n |-> IF k = 0 THEN [log |-> l, ok |-> TRUE]
                                               ELSE SpliceEntry(f[k - 1], entries[k])]
             S == {n \in Nat : \E f : Is(f, n)}
  <1>1. 0 \in S
    <2>1. Is([k \in 0 .. 0 |-> [log |-> l, ok |-> TRUE]], 0)
      OBVIOUS
    <2> QED
      BY <2>1, Zenon
  <1>2. ASSUME NEW n \in Nat, n \in S PROVE n + 1 \in S
    <2>0. PICK f : f = [k \in 0 .. n |-> IF k = 0 THEN [log |-> l, ok |-> TRUE]
                                         ELSE SpliceEntry(f[k - 1], entries[k])]
      BY <1>2, Zenon
    <2> DEFINE g == [k \in 0 .. n + 1 |-> IF k <= n THEN f[k] ELSE SpliceEntry(f[n], entries[k])]
    <2>1. \A k \in 0 .. n + 1 : g[k] = IF k = 0 THEN [log |-> l, ok |-> TRUE]
                                       ELSE SpliceEntry(g[k - 1], entries[k])
      <3> SUFFICES ASSUME NEW k \in 0 .. n + 1
                   PROVE  g[k] = IF k = 0 THEN [log |-> l, ok |-> TRUE]
                                 ELSE SpliceEntry(g[k - 1], entries[k])
        BY Zenon
      <3>1. CASE k = 0
        <4>1. g[k] = f[k] /\ k \in 0 .. n
          BY <3>1
        <4> QED
          BY <2>0, <3>1, <4>1, Zenon
      <3>2. CASE k \in 1 .. n
        <4>1. g[k] = f[k] /\ g[k - 1] = f[k - 1] /\ k # 0 /\ k \in 0 .. n
          BY <3>2
        <4>2. f[k] = IF k = 0 THEN [log |-> l, ok |-> TRUE] ELSE SpliceEntry(f[k - 1], entries[k])
          BY <2>0, <4>1, Zenon
        <4> QED
          BY <4>1, <4>2, Zenon
      <3>3. CASE k = n + 1
        <4>1. g[k] = SpliceEntry(f[n], entries[k]) /\ g[n] = f[n] /\ k - 1 = n /\ k # 0
          BY <3>3
        <4> QED
          BY <4>1, Zenon
      <3> QED
        BY <3>1, <3>2, <3>3
    <2>2. DOMAIN g = 0 .. n + 1 /\ n + 1 \in Nat
      BY SMT
    <2> HIDE DEF g
    <2>3. g = [k \in 0 .. n + 1 |-> g[k]]
      BY <2>2, Zenon DEF g
    <2>4. Is(g, n + 1)
      BY <2>1, <2>3, Zenon
    <2> QED
      BY <2>2, <2>4, Zenon
  <1> HIDE DEF S
  <1>3. Len(entries) \in S
    BY <1>1, <1>2, Induction
  <1>4. PICK f : Is(f, Len(entries))
    BY <1>3 DEF S
  <1> DEFINE h == CHOOSE g : Is(g, Len(entries))
  <1>5. Is(h, Len(entries))
    BY <1>4, Zenon
  <1>6. Splice(l, entries) = h[Len(entries)]
    BY Zenon DEF Splice
  <1> HIDE DEF h
  <1>7. h[0] = [log |-> l, ok |-> TRUE]
    BY <1>5
  <1>8. \A k \in 1 .. Len(entries) : h[k] = SpliceEntry(h[k - 1], entries[k])
    <2> SUFFICES ASSUME NEW k \in 1 .. Len(entries)
                 PROVE  h[k] = SpliceEntry(h[k - 1], entries[k])
      OBVIOUS
    <2>1. k \in 0 .. Len(entries) /\ k # 0
      OBVIOUS
    <2>2. h[k] = IF k = 0 THEN [log |-> l, ok |-> TRUE] ELSE SpliceEntry(h[k - 1], entries[k])
      BY <1>5, <2>1, Zenon
    <2> QED
      BY <2>1, <2>2, Zenon
  <1> QED
    BY <1>6, <1>7, <1>8, Zenon

\* The log has entry e.
Holding(c, e) == e.Index \in DOMAIN c /\ c[e.Index] = e

Placed(c) == \A i \in DOMAIN c : c[i].Index = i

LEMMA LogOfFacts ==
    ASSUME NEW c, NEW n
    PROVE  /\ LogOf(c, n).cache = c /\ LogOf(c, n).nextIndex = n /\ LogOf(c, n).firstIndex = 1
           /\ LogOf(c, n).lastIncludedIndex = 0 /\ LogOf(c, n).lastIncludedTerm = 0
  BY DEF LogOf

WithCache(l, c) == [l EXCEPT !.cache = c]
WithNext(l, n) == [l EXCEPT !.nextIndex = n]

LEMMA LogOfExcept ==
    /\ \A c, n, d : WithCache(LogOf(c, n), d) = LogOf(d, n)
    /\ \A c, n, k : WithNext(LogOf(c, n), k) = LogOf(c, k)
  <1>1. \A c, n, d : [LogOf(c, n) EXCEPT !.cache = d] = LogOf(d, n)
    BY DEF LogOf
  <1>2. \A c, n, k : [LogOf(c, n) EXCEPT !.nextIndex = k] = LogOf(c, k)
    BY DEF LogOf
  <1> QED
    BY <1>1, <1>2, Zenon DEF WithCache, WithNext

LEMMA LogShapeFacts ==
    ASSUME NEW l, LogShape(l)
    PROVE  /\ l.cache \in Seq(Entries) /\ l.nextIndex = Len(l.cache) + 1 /\ l.firstIndex = 1
           /\ l.lastIncludedIndex = 0 /\ l.lastIncludedTerm = 0
           /\ Len(l.cache) \in Nat /\ DOMAIN l.cache = 1 .. Len(l.cache)
  <1>1. PICK c, n : c = l.cache /\ n = Len(c) + 1
    OBVIOUS
  <1>2. l = LogOf(c, n) /\ c \in Seq(Entries)
    BY <1>1, Zenon DEF LogShape
  <1>3. /\ LogOf(c, n).cache = c /\ LogOf(c, n).nextIndex = n /\ LogOf(c, n).firstIndex = 1
        /\ LogOf(c, n).lastIncludedIndex = 0 /\ LogOf(c, n).lastIncludedTerm = 0
    BY LogOfFacts, Zenon
  <1> QED
    BY <1>1, <1>2, <1>3, SeqFacts, Zenon

LEMMA AnswerFacts ==
    ASSUME NEW l, NEW r, r = [log |-> l, ok |-> TRUE]
    PROVE  r.log = l /\ r.ok /\ r = [log |-> r.log, ok |-> TRUE]
  BY Zenon

\* r is log l with one more entry of a batch: it is kept if it has the entry,
\* else the entry ends it.
Added(r, l, e) ==
    /\ r = [log |-> r.log, ok |-> TRUE] /\ LogShape(r.log)
    /\ Holding(l.cache, e) => r.log = l
    /\ ~Holding(l.cache, e) =>
          /\ Len(r.log.cache) = e.Index /\ r.log.cache[e.Index] = e
          /\ \A i \in 1 .. e.Index - 1 : i \in DOMAIN l.cache /\ r.log.cache[i] = l.cache[i]

LEMMA SpliceEntryFacts ==
    ASSUME NEW l, LogShape(l), Placed(l.cache), NEW e \in Entries, e.Index <= Len(l.cache) + 1
    PROVE  Added(SpliceEntry([log |-> l, ok |-> TRUE], e), l, e)
  <1> SUFFICES ASSUME NEW r, r = SpliceEntry([log |-> l, ok |-> TRUE], e)
               PROVE  Added(r, l, e)
    BY Zenon
  <1> USE DEF Added
  <1> DEFINE c == l.cache
             s == [log |-> l, ok |-> TRUE]
             i == e.Index
  <1>1. /\ c \in Seq(Entries) /\ Len(c) \in Nat /\ DOMAIN c = 1 .. Len(c)
        /\ l.firstIndex = 1 /\ i \in Nat /\ i > 0
    <2>1. i \in Nat /\ i > 0
      BY EntryFacts
    <2> QED
      BY <2>1, LogShapeFacts, Zenon
  <1>2. HasEntry(l, i) <=> i \in DOMAIN c
    BY <1>1 DEF HasEntry
  <1>3. i \in DOMAIN c => GetEntry(l, i) = c[i]
    BY <1>1, <1>2 DEF GetEntry
  <1>4. Known(l, e) <=> Holding(c, e)
    <2>1. i \in DOMAIN c => (c[i].Term = e.Term <=> c[i] = e)
      <3>1. i \in DOMAIN c => c[i] \in Entries /\ c[i].Index = i
        BY <1>1, SeqFacts, Zenon DEF Placed
      <3> QED
        BY <3>1, EntryFacts, Zenon
    <2> QED
      BY <1>2, <1>3, <2>1, Zenon DEF Known, Holding
  <1>5. s.log = l /\ s.ok
    BY AnswerFacts, Zenon
  <1> HIDE DEF s
  <1>6. CASE Holding(c, e)
    <2>1. r = s
      BY <1>4, <1>5, <1>6, Zenon DEF SpliceEntry, s
    <2> QED
      BY <1>5, <1>6, <2>1, Zenon DEF s
  <1>7. CASE ~Holding(c, e)
    <2> DEFINE d == SubSeq(c, 1, i - 1)
               room == Room(l, e)
    <2>1. /\ d \in Seq(Entries) /\ Len(d) = i - 1
          /\ \A j \in 1 .. i - 1 : j \in DOMAIN c /\ d[j] = c[j]
      BY <1>1, PrefixFacts
    <2>2. PICK n : room = LogOf(d, n)
      <3>1. CASE Conflicts(l, e)
        <4>1. room = [l EXCEPT !.cache = SubSeq(c, 1, i - l.firstIndex)]
          BY <3>1, Zenon DEF Room, CutBefore
        <4>2. room = [l EXCEPT !.cache = d]
          BY <1>1, <4>1
        <4>3. PICK n : l = LogOf(c, n)
          BY Zenon DEF LogShape
        <4>4. room = WithCache(l, d)
          BY <4>2, Zenon DEF WithCache
        <4>5. WithCache(LogOf(c, n), d) = LogOf(d, n)
          BY LogOfExcept
        <4> HIDE DEF room, d, c
        <4> QED
          BY <4>3, <4>4, <4>5, Zenon
      <3>2. CASE ~Conflicts(l, e)
        <4>1. i \notin DOMAIN c
          BY <1>2, <1>4, <1>7, <3>2, Zenon DEF Conflicts, Known
        <4>2. i - 1 = Len(c)
          BY <1>1, <4>1
        <4>3. d = c
          BY <1>1, <2>1, <4>2, SameSequence
        <4>4. room = l
          BY <3>2, Zenon DEF Room
        <4> QED
          BY <4>3, <4>4, Zenon DEF LogShape
      <3> QED
        BY <3>1, <3>2, Zenon
    <2> HIDE DEF d, room
    <2>3. r = [log |-> Stored(room, e), ok |-> TRUE]
      <3>1. room.firstIndex = 1 /\ room.cache = d
        <4>1. LogOf(d, n).firstIndex = 1 /\ LogOf(d, n).cache = d
          BY LogOfFacts, Zenon
        <4> QED
          BY <2>2, <4>1, Zenon
      <3>2. i = room.firstIndex + Len(room.cache)
        BY <1>1, <2>1, <3>1
      <3> QED
        BY <1>4, <1>5, <1>7, <3>2, Zenon DEF SpliceEntry, room, s
    <2>4. Stored(room, e) = LogOf(Append(d, e), i + 1)
      <3>1. LogOf(d, n).cache = d
        BY LogOfFacts, Zenon
      <3>2. WithCache(LogOf(d, n), Append(d, e)) = LogOf(Append(d, e), n)
        BY LogOfExcept, Zenon
      <3>3. WithNext(LogOf(Append(d, e), n), i + 1) = LogOf(Append(d, e), i + 1)
        BY LogOfExcept
      <3>4. Stored(room, e) = WithNext(WithCache(room, Append(room.cache, e)), i + 1)
        BY Zenon DEF Stored, WithCache, WithNext
      <3> QED
        BY <2>2, <3>1, <3>2, <3>3, <3>4, Zenon
    <2>5. /\ Append(d, e) \in Seq(Entries) /\ Len(Append(d, e)) = i /\ Append(d, e)[i] = e
          /\ \A j \in 1 .. i - 1 : Append(d, e)[j] = d[j]
      BY <1>1, <2>1, AppendFacts
    <2>6. r.log = Stored(room, e) /\ r = [log |-> r.log, ok |-> TRUE]
      BY <2>3, AnswerFacts, Zenon
    <2>7. r.log.cache = Append(d, e) /\ r.log = LogOf(Append(d, e), i + 1)
      <3>1. r.log = LogOf(Append(d, e), i + 1)
        BY <2>4, <2>6, Zenon
      <3>2. LogOf(Append(d, e), i + 1).cache = Append(d, e)
        BY LogOfFacts, Zenon
      <3> QED
        BY <3>1, <3>2, Zenon
    <2>8. LogShape(r.log)
      BY <2>5, <2>7, Zenon DEF LogShape
    <2> QED
      BY <1>7, <2>1, <2>5, <2>6, <2>7, <2>8, Zenon
  <1> QED
    BY <1>6, <1>7, Zenon

LEMMA SpliceResult ==
    ASSUME Laws, NEW l, LogShape(l), Placed(l.cache), NEW m, MessageShape(m), IsChain(Chain(m)),
           m.prevLogIndex > 0 => /\ m.prevLogIndex \in DOMAIN l.cache
                                 /\ l.cache[m.prevLogIndex] = Chain(m)[m.prevLogIndex]
    PROVE  /\ Splice(l, m.entries).ok /\ LogShape(Splice(l, m.entries).log)
           /\ Takes(Splice(l, m.entries).log.cache, l.cache, m)
  <1> DEFINE p == m.prevLogIndex
             N == Len(m.entries)
             old == l.cache
             x == Chain(m)
  <1>1. p \in Nat /\ N \in Nat /\ m.entries \in Seq(Entries) /\ End(m) = p + N
    BY ChainFacts, Zenon
  <1>2. \A k \in 1 .. N : p + k \in DOMAIN x /\ x[p + k] = m.entries[k]
    BY ChainFacts, Zenon
  <1>3. \A i \in DOMAIN x : i \in Nat /\ i > 0 /\ i >= p /\ i <= p + N
    BY ChainFacts, <1>1, Zenon
  <1>4. PICK f : /\ f[0] = [log |-> l, ok |-> TRUE]
                 /\ \A k \in 1 .. N : f[k] = SpliceEntry(f[k - 1], m.entries[k])
                 /\ Splice(l, m.entries) = f[N]
    <2>1. PICK E : E = m.entries
      OBVIOUS
    <2>2. \E f : /\ f[0] = [log |-> l, ok |-> TRUE]
                 /\ \A k \in 1 .. Len(E) : f[k] = SpliceEntry(f[k - 1], E[k])
                 /\ Splice(l, E) = f[Len(E)]
      <3>1. Len(E) \in Nat
        BY <1>1, <2>1, Zenon
      <3> QED
        BY <3>1, SpliceSteps, Zenon
    <2> QED
      BY <2>1, <2>2, Zenon
  <1>5. /\ old \in Seq(Entries) /\ Len(old) \in Nat /\ DOMAIN old = 1 .. Len(old)
    BY LogShapeFacts, Zenon
  <1>6. p <= Len(old) /\ \A i \in 1 .. p : i \in DOMAIN old
    BY <1>1, <1>5
  <1>7. \A i \in DOMAIN x : x[i].Index = i /\ x[i] \in Entries
    BY Zenon DEF IsChain
  <1>8. p > 0 => p \in DOMAIN old /\ old[p] = x[p]
    OBVIOUS
  <1> HIDE DEF p, N, old, x
  <1> DEFINE Good(k) ==
                /\ f[k] = [log |-> f[k].log, ok |-> TRUE]
                /\ LogShape(f[k].log) /\ Placed(f[k].log.cache)
                /\ Len(f[k].log.cache) >= p + k
                /\ \A i \in 1 .. p : f[k].log.cache[i] = old[i]
                /\ \A i \in 1 .. k : f[k].log.cache[p + i] = x[p + i]
                /\ \/ f[k].log = l
                   \/ /\ Len(f[k].log.cache) = p + k
                      /\ \E i \in 1 .. k : ~Holding(old, x[p + i])
             S == {k \in Nat : k <= N => Good(k)}
  <1>9. 0 \in S
    <2>1. f[0].log = l /\ f[0] = [log |-> f[0].log, ok |-> TRUE]
      BY <1>4, AnswerFacts, Zenon
    <2>2. Good(0)
      BY <1>1, <1>5, <1>6, <2>1 DEF old
    <2> QED
      BY <2>2
  <1>10. \A k \in Nat : k \in S => k + 1 \in S
    <2> HIDE DEF Good
    <2> SUFFICES ASSUME NEW k \in Nat, k + 1 <= N, Good(k)
                 PROVE  Good(k + 1)
      BY <1>1
    <2> USE DEF Good
    <2> DEFINE j == p + (k + 1)
               e == m.entries[k + 1]
               c == f[k].log.cache
               d == f[k + 1].log.cache
    <2>1. k + 1 \in 1 .. N /\ (k + 1) - 1 = k /\ j \in Nat /\ j > 0 /\ j - 1 = p + k
      BY <1>1
    <2>2. e = x[j] /\ j \in DOMAIN x /\ e.Index = j /\ e \in Entries
      BY <1>2, <1>7, <2>1, Zenon
    <2>3. f[k + 1] = SpliceEntry([log |-> f[k].log, ok |-> TRUE], e)
      BY <1>4, <2>1, ZenonT(40)
    <2>4. c \in Seq(Entries) /\ Len(c) \in Nat /\ DOMAIN c = 1 .. Len(c)
      BY LogShapeFacts, Zenon
    <2>5. e.Index <= Len(c) + 1
      BY <1>1, <2>2, <2>4
    <2>6. /\ f[k + 1] = [log |-> f[k + 1].log, ok |-> TRUE] /\ LogShape(f[k + 1].log)
          /\ Holding(c, e) => f[k + 1].log = f[k].log
          /\ ~Holding(c, e) =>
                /\ Len(d) = e.Index /\ d[e.Index] = e
                /\ \A i \in 1 .. e.Index - 1 : i \in DOMAIN c /\ d[i] = c[i]
      <3>1. Added(SpliceEntry([log |-> f[k].log, ok |-> TRUE], e), f[k].log, e)
        BY <2>2, <2>5, SpliceEntryFacts, Zenon
      <3> QED
        BY <2>3, <3>1, Zenon DEF Added
    <2> HIDE DEF e, j, c, d
    <2>7. CASE Holding(c, e)
      <3>1. j \in DOMAIN c /\ c[j] = x[j]
        BY <2>2, <2>7, Zenon DEF Holding
      <3>2. Len(c) >= j /\ Len(c) # p + k
        BY <1>1, <2>4, <3>1 DEF j
      <3>3. f[k].log = l
        BY <3>2, Zenon DEF c
      <3>4. \A i \in 1 .. k + 1 : i \in 1 .. k \/ i = k + 1
        OBVIOUS
      <3>5. \A i \in 1 .. k + 1 : c[p + i] = x[p + i]
        BY <3>1, <3>4, Zenon DEF c, j
      <3> QED
        BY <2>6, <2>7, <3>2, <3>3, <3>5, Zenon DEF c, j
    <2>8. CASE ~Holding(c, e)
      <3>1. /\ Len(d) = j /\ d[j] = x[j]
            /\ \A i \in 1 .. p + k : i \in DOMAIN c /\ d[i] = c[i]
        BY <2>1, <2>2, <2>6, <2>8, Zenon
      <3>2. /\ \A i \in 1 .. p : i \in 1 .. p + k
            /\ \A i \in 1 .. k + 1 : i = k + 1 \/ (i \in 1 .. k /\ p + i \in 1 .. p + k)
            /\ \A i \in 1 .. j : i = j \/ i \in 1 .. p + k
            /\ \A i \in 1 .. k : i \in 1 .. k + 1
            /\ k + 1 \in 1 .. k + 1
            /\ j >= p + (k + 1)
        BY <1>1 DEF j
      <3>3. \A i \in 1 .. p : d[i] = old[i]
        BY <3>1, <3>2, Zenon DEF c
      <3>4. \A i \in 1 .. k + 1 : d[p + i] = x[p + i]
        BY <3>1, <3>2, Zenon DEF c, j
      <3>5. DOMAIN d = 1 .. j
        BY <2>6, <3>1, LogShapeFacts, Zenon DEF d
      <3>6. Placed(d)
        <4> SUFFICES ASSUME NEW i \in 1 .. j PROVE d[i].Index = i
          BY <3>5, Zenon DEF Placed
        <4>1. i \in 1 .. p + k => d[i].Index = i
          BY <3>1, Zenon DEF Placed, c
        <4> QED
          BY <2>2, <3>1, <3>2, <4>1, Zenon
      <3>7. \E i \in 1 .. k + 1 : ~Holding(old, x[p + i])
        <4>1. CASE f[k].log = l
          <5>1. ~Holding(old, x[p + (k + 1)])
            BY <2>2, <2>8, <4>1, Zenon DEF old, c, j
          <5> QED
            BY <3>2, <5>1, Zenon
        <4>2. CASE \E i \in 1 .. k : ~Holding(old, x[p + i])
          BY <3>2, <4>2, Zenon
        <4> QED
          BY <4>1, <4>2, Zenon
      <3> QED
        BY <2>6, <3>1, <3>2, <3>3, <3>4, <3>6, <3>7, Zenon DEF d, j
    <2> QED
      BY <2>7, <2>8, Zenon
  <1> HIDE DEF S
  <1>11. N \in S
    BY <1>1, <1>9, <1>10, Induction
  <1>12. Good(N)
    BY <1>1, <1>11 DEF S
  <1> HIDE DEF Good
  <1> DEFINE new == f[N].log.cache
  <1>13. Splice(l, m.entries).ok /\ LogShape(f[N].log) /\ Splice(l, m.entries).log = f[N].log
    <2>1. f[N] = [log |-> f[N].log, ok |-> TRUE] /\ LogShape(f[N].log)
      BY <1>12, Zenon DEF Good
    <2>2. f[N].ok
      BY <2>1, AnswerFacts, Zenon
    <2> QED
      BY <1>4, <2>1, <2>2, Zenon
  <1>14. DOMAIN new = 1 .. Len(new) /\ Len(new) \in Nat
    BY <1>13, LogShapeFacts, Zenon
  <1>15. /\ Len(new) >= p + N
         /\ \A i \in 1 .. p : new[i] = old[i]
         /\ \A i \in 1 .. N : new[p + i] = x[p + i]
         /\ \/ f[N].log = l
            \/ Len(new) = p + N /\ \E i \in 1 .. N : ~Holding(old, x[p + i])
    BY <1>12, Zenon DEF Good
  <1> HIDE DEF new
  <1>16. Has(new, x)
    <2> SUFFICES ASSUME NEW i \in DOMAIN x PROVE i \in DOMAIN new /\ new[i] = x[i]
      BY Zenon DEF Has
    <2>1. i \in DOMAIN new
      BY <1>1, <1>3, <1>14, <1>15
    <2>2. CASE i = p
      <3>1. p > 0 /\ p \in 1 .. p
        BY <1>1, <1>3, <2>2
      <3> QED
        BY <1>8, <1>15, <2>1, <2>2, <3>1, Zenon
    <2>3. CASE i # p
      <3>1. i - p \in 1 .. N /\ p + (i - p) = i
        BY <1>1, <1>3, <2>3
      <3>2. new[p + (i - p)] = x[p + (i - p)]
        BY <1>15, <3>1, Zenon
      <3> QED
        BY <2>1, <3>1, <3>2, Zenon
    <2> QED
      BY <2>2, <2>3, Zenon
  <1>17. Takes(new, old, m)
    <2>1. CASE f[N].log = l
      <3>1. new = old
        BY <2>1, Zenon DEF new, old
      <3> QED
        BY <1>16, <3>1, Zenon DEF Takes, x
    <2>2. CASE Len(new) = p + N /\ \E i \in 1 .. N : ~Holding(old, x[p + i])
      <3>1. ~Has(old, x)
        BY <1>2, <1>7, <2>2, Zenon DEF Has, Holding
      <3> QED
        BY <1>1, <1>6, <1>15, <1>16, <2>2, <3>1, Zenon DEF Takes, x, p
    <2> QED
      BY <1>15, <2>1, <2>2, Zenon
  <1> QED
    BY <1>13, <1>17, Zenon DEF new, old

\* The leaves below are proved by Zenon unless they name another prover.
USE Zenon

LEMMA BelowOrAbove ==
    ASSUME NEW a \in Nat, NEW b \in Nat
    PROVE  (a <= b <=> b >= a) /\ (a <= b \/ a >= b)
  BY SMT

LEMMA StillBelow ==
    ASSUME NEW a \in Nat, NEW b \in Nat, a <= b + 1
    PROVE  a <= (b + 1) + 1
  BY SMT

(***************************************************************************)
(* Winners and decisions                                                    *)
(***************************************************************************)

LEMMA OneWinner ==
    ASSUME Laws, NEW s, VotesInv(s), NEW n \in Server, NEW c \in Server, s.term[n] = s.term[c],
           s.role[n] # "Follower", HasQuorum(Config, s.votes[n]),
           s.role[c] # "Follower", HasQuorum(Config, s.votes[c])
    PROVE  n = c
  <1> SUFFICES ASSUME n # c PROVE FALSE
    OBVIOUS
  <1>1. PICK v \in s.votes[n] : v \in s.votes[c]
    BY Meet
  <1>2. s.votes[n] \cap s.votes[c] = {}
    BY DEF VotesInv
  <1> QED
    BY <1>1, <1>2

LEMMA OneLeader ==
    ASSUME Laws, NEW s, VotesInv(s), NEW n \in Server, NEW c \in Server, s.term[n] = s.term[c],
           Leads(s, n), Leads(s, c)
    PROVE  n = c
  <1>1. /\ s.role[n] # "Follower" /\ HasQuorum(Config, s.votes[n])
        /\ s.role[c] # "Follower" /\ HasQuorum(Config, s.votes[c])
    BY DEF Leads, VotesInv
  <1> QED
    BY <1>1, OneWinner

LEMMA StillOpen ==
    ASSUME Laws, NEW s, NEW n \in Server, Runs(s, n), HasQuorum(Config, s.votes[n])
    PROVE  ~Closed(s, s.term[n])
  <1> SUFFICES ASSUME NEW Q \in SUBSET Server, HasQuorum(Config, Q),
                      \A v \in Q : Lost(s, v, s.term[n])
               PROVE  FALSE
    BY DEF Closed
  <1>1. PICK v \in Q : v \in s.votes[n]
    BY Meet
  <1> QED
    BY <1>1 DEF Lost

\* What a quorum has confirmed is safe.
LEMMA QuorumKept ==
    ASSUME Laws, NEW s, NEW a, NEW A, Anchored(s, a, A), HasQuorum(Config, A)
    PROVE  Kept(s, a, A)
  <1>1. ~Passed(s, A, TermOf(a))
    <2> SUFFICES ASSUME NEW Q \in SUBSET Server, HasQuorum(Config, Q), \A v \in Q : v \notin A
                 PROVE  FALSE
      BY DEF Passed
    <2> QED
      BY Meet
  <1> QED
    BY <1>1 DEF Anchored

LEMMA DecidedFacts ==
    ASSUME Laws, NEW s, NEW a, Decided(s, a)
    PROVE  /\ a \in Seq(Entries) /\ Len(a) > 0
           /\ \E A \in SUBSET Server : A # {} /\ Kept(s, a, A)
  BY QuorumKept DEF Decided, Anchored

(***************************************************************************)
(* Steps                                                                    *)
(***************************************************************************)

SameElection(s, t) ==
    /\ t.term = s.term /\ t.vote = s.vote /\ t.role = s.role /\ t.votes = s.votes
    /\ t.ends = s.ends
SameLogs(s, t) == t.cache = s.cache /\ t.sent = s.sent
LEMMA SameChains ==
    ASSUME NEW s, NEW t, SameLogs(s, t)
    PROVE  Chains(t) = Chains(s)
  <1>1. t.cache = s.cache /\ t.sent = s.sent
    BY DEF SameLogs
  <1> QED
    BY <1>1, SMT DEF Chains

SameCommit(s, t) == t.commit = s.commit /\ t.chosen = s.chosen
SameProgress(s, t) == t.next = s.next /\ t.match = s.match /\ t.round = s.round

\* g is f but for n, where it is e.
Changed(f, g, n, e) == g[n] = e /\ \A q \in Server : q # n => g[q] = f[q]

\* v's log is no more recent than c's.
Grants(s, v, c) ==
    candidateUpToDate(EndTerm(s.cache[c]), Len(s.cache[c]), EndTerm(s.cache[v]), Len(s.cache[v]))

(***************************************************************************)
(* A calm step: terms rise and votes are cast, nobody wins and no log       *)
(* changes.                                                                 *)
(***************************************************************************)

Calm(s, t) ==
    /\ SameLogs(s, t) /\ t.chosen = s.chosen /\ t.next = s.next /\ t.match = s.match
    /\ \A v \in Server : t.term[v] >= s.term[v]
    /\ \A n \in Server : Leads(t, n) =>
          Leads(s, n) /\ t.term[n] = s.term[n] /\ t.round[n] = s.round[n]
    /\ \A n \in Server : t.commit[n] = s.commit[n] \/ t.commit[n] = 0
    /\ \A k \in Nat : Closed(s, k) => Closed(t, k)
    /\ \A c \in Server : Runs(t, c) => \A v \in t.votes[c] :
          \/ v = c
          \/ /\ Runs(s, c) /\ t.term[c] = s.term[c]
             /\ v \in s.votes[c] \/ Grants(s, v, c)

\* Who has a only votes for who has it.
LEMMA GrantCarries ==
    ASSUME NEW s, Types(s), ChainsInv(s), NEW v \in Server, NEW c \in Server, Grants(s, v, c),
           NEW a \in Seq(Entries), Len(a) > 0, Has(s.cache[v], a), Carries(s.cache[c], a)
    PROVE  Has(s.cache[c], a)
  <1> DEFINE x == s.cache[v]
             y == s.cache[c]
  <1>1. /\ x \in Seq(Entries) /\ IsChain(x) /\ Len(x) \in Nat
        /\ \A i : i \in DOMAIN x <=> i \in Nat /\ i > 0 /\ i <= Len(x)
        /\ y \in Seq(Entries) /\ IsChain(y) /\ Len(y) \in Nat
        /\ \A i : i \in DOMAIN y <=> i \in Nat /\ i > 0 /\ i <= Len(y)
    BY CacheFacts
  <1>2. /\ Len(a) \in Nat /\ TermOf(a) \in Nat /\ TermOf(a) > 0
        /\ Len(a) \in DOMAIN x /\ x[Len(a)].Term = TermOf(a)
    BY EndFacts DEF Has, TermOf
  <1>3. candidateUpToDate(EndTerm(y), Len(y), EndTerm(x), Len(x))
    BY DEF Grants
  <1> HIDE DEF x, y
  <1>4. Len(x) \in DOMAIN x /\ Len(x) >= Len(a) /\ Len(a) <= Len(x)
    BY <1>1, <1>2, SMT
  <1>5. EndTerm(x) = x[Len(x)].Term /\ x[Len(x)].Term \in Nat /\ TermOf(a) <= x[Len(x)].Term
    <2>1. x # <<>>
      BY <1>1, <1>4, SMT
    <2>2. x[Len(a)].Term <= x[Len(x)].Term
      BY <1>1, <1>2, <1>4 DEF IsChain
    <2> QED
      BY <1>1, <1>2, <1>4, <2>1, <2>2, ChainEntry DEF EndTerm
  <1>6. Len(y) > 0
    <2>1. CASE y = <<>>
      <3>1. EndTerm(y) = 0
        BY <2>1 DEF EndTerm
      <3> QED
        BY <1>2, <1>3, <1>5, <3>1, SMT DEF candidateUpToDate
    <2>2. CASE y # <<>>
      BY <1>1, <2>2, SMT
    <2> QED
      BY <2>1, <2>2
  <1>7. Len(y) \in DOMAIN y /\ y # <<>>
    BY <1>1, <1>6, SMT
  <1>8. /\ EndTerm(y) = y[Len(y)].Term /\ y[Len(y)] \in Entries
        /\ y[Len(y)].Index = Len(y) /\ y[Len(y)].Term \in Nat
    BY <1>1, <1>7, ChainEntry DEF EndTerm
  <1>9. \/ y[Len(y)].Term > TermOf(a)
        \/ y[Len(y)].Term = TermOf(a) /\ y[Len(y)].Index >= Len(a)
    BY <1>1, <1>2, <1>3, <1>4, <1>5, <1>8, SMT DEF candidateUpToDate
  <1>10. Above(y[Len(y)], a)
    BY <1>8, <1>9, AboveFacts
  <1> QED
    BY <1>1, <1>7, <1>10, CarriesHas DEF y

LEMMA CalmAnchored ==
    ASSUME NEW s, NEW t, Types(s), Types(t), ChainsInv(s), Calm(s, t), NEW a, NEW A, Anchored(s, a, A)
    PROVE  Anchored(t, a, A)
  <1>1. /\ a \in Seq(Entries) /\ Len(a) > 0 /\ A # {} /\ A \subseteq Server
        /\ Closed(t, TermOf(a)) /\ TermOf(a) \in Nat
    <2>1. a \in Seq(Entries) /\ Len(a) > 0 /\ A # {} /\ A \subseteq Server /\ Closed(s, TermOf(a))
      BY DEF Anchored
    <2>2. TermOf(a) \in Nat
      BY <2>1, EndFacts
    <2> QED
      BY <2>1, <2>2 DEF Calm
  <1>2. ASSUME NEW v \in Server
        PROVE  /\ s.term[v] >= TermOf(a) => t.term[v] >= TermOf(a)
               /\ s.term[v] > TermOf(a) => t.term[v] > TermOf(a)
    <2>1. s.term[v] \in Nat /\ t.term[v] \in Nat
      BY TypeFacts
    <2>2. t.term[v] >= s.term[v]
      BY DEF Calm
    <2> QED
      BY <1>1, <2>1, <2>2, SMT
  <1>3. \A v \in A : t.term[v] >= TermOf(a)
    BY <1>1, <1>2 DEF Anchored
  <1>4. Passed(s, A, TermOf(a)) => Passed(t, A, TermOf(a))
    BY <1>2 DEF Passed
  <1>5. ASSUME Kept(s, a, A) PROVE Kept(t, a, A)
    <2>1. t.cache = s.cache /\ t.sent = s.sent /\ Chains(t) = Chains(s)
      BY SameChains DEF Calm, SameLogs
    <2>2. ASSUME NEW c \in Server, Leads(t, c), t.term[c] >= TermOf(a) PROVE Has(t.cache[c], a)
      <3>1. Leads(s, c) /\ t.term[c] = s.term[c]
        BY <2>2 DEF Calm
      <3> QED
        BY <1>5, <2>1, <2>2, <3>1 DEF Kept
    <2>3. ASSUME NEW c \in Server, NEW v \in t.votes[c], Runs(t, c), t.term[c] > TermOf(a), v \in A
          PROVE  Has(t.cache[c], a)
      <3>1. CASE v = c
        BY <1>5, <2>1, <2>3, <3>1 DEF Kept
      <3>2. CASE Runs(s, c) /\ t.term[c] = s.term[c] /\ v \in s.votes[c]
        BY <1>5, <2>1, <2>3, <3>2 DEF Kept
      <3>3. CASE Grants(s, v, c)
        <4>1. Has(s.cache[v], a) /\ Carries(s.cache[c], a) /\ v \in Server
          BY <1>1, <1>5, <2>3, CacheFacts DEF Kept
        <4> QED
          BY <1>1, <2>1, <3>3, <4>1, GrantCarries
      <3> QED
        BY <2>3, <3>1, <3>2, <3>3 DEF Calm
    <2> QED
      BY <1>5, <2>1, <2>2, <2>3 DEF Kept
  <1> QED
    BY <1>1, <1>3, <1>4, <1>5 DEF Anchored

LEMMA ClosedStep ==
    ASSUME NEW s, NEW t, Types(s), ChainsInv(s), ClosedInv(s),
           \A k \in Nat : Closed(s, k) => Closed(t, k),
           Chains(t) = Chains(s), t.sent = s.sent,
           \A n \in Server : Leads(t, n) => Leads(s, n) /\ t.term[n] = s.term[n]
    PROVE  ClosedInv(t)
  <1>1. ASSUME NEW n \in Server, Leads(t, n) PROVE Closed(t, t.term[n])
    <2>1. s.term[n] \in Nat
      BY TypeFacts
    <2> QED
      BY <1>1, <2>1 DEF ClosedInv
  <1>2. ASSUME NEW x \in Chains(s), NEW i \in DOMAIN x PROVE Closed(t, x[i].Term)
    <2>1. IsChain(x)
      BY DEF ChainsInv
    <2>2. x[i].Term \in Nat
      BY <2>1, ChainEntry
    <2> QED
      BY <2>2 DEF ClosedInv
  <1>3. ASSUME NEW m \in s.sent PROVE Closed(t, m.term)
    <2>1. m.term \in Nat
      BY ChainFacts DEF ChainsInv
    <2> QED
      BY <2>1 DEF ClosedInv
  <1> QED
    BY <1>1, <1>2, <1>3 DEF ClosedInv

LEMMA VoteFacts ==
    ASSUME NEW s, Types(s), NEW n \in Server, s.vote[n] # Nil
    PROVE  s.vote[n] \in Server
  BY TypeFacts

LEMMA FinalStep ==
    ASSUME NEW s, NEW t, t.chosen = s.chosen,
           \A a, A : Anchored(s, a, A) => Anchored(t, a, A)
    PROVE  /\ \A a : Decided(s, a) => Decided(t, a)
           /\ \A c, k : Final(s, c, k) => Final(t, c, k)
  <1>1. \A a : Decided(s, a) => Decided(t, a)
    BY DEF Decided
  <1>2. \A c, k : Final(s, c, k) => Final(t, c, k)
    BY <1>1 DEF Final
  <1> QED
    BY <1>1, <1>2

LEMMA LaterFinal ==
    ASSUME NEW s, s.chosen \in Seq(Entries), NEW c \in Nat, NEW k \in Nat, NEW l \in Nat, k <= l,
           Final(s, c, k)
    PROVE  Final(s, c, l)
  <1> SUFFICES ASSUME c > 0 PROVE \E i \in c .. Len(s.chosen) :
                                     Decided(s, SubSeq(s.chosen, 1, i)) /\ s.chosen[i].Term <= l
    BY DEF Final
  <1>1. PICK i \in c .. Len(s.chosen) :
               Decided(s, SubSeq(s.chosen, 1, i)) /\ s.chosen[i].Term <= k
    BY DEF Final
  <1>2. i \in DOMAIN s.chosen
    BY SMT
  <1>3. s.chosen[i].Term \in Nat
    BY <1>2, SeqFacts, EntryFacts
  <1>4. s.chosen[i].Term <= l
    BY <1>1, <1>3, SMT
  <1> QED
    BY <1>1, <1>4

LEMMA NothingToHave ==
    ASSUME NEW c \in Seq(Entries), NEW d
    PROVE  Has(d, SubSeq(c, 1, 0))
  <1>1. DOMAIN SubSeq(c, 1, 0) = {}
    BY SMT
  <1> QED
    BY <1>1 DEF Has

\* What a leader knows stays true when terms rise.
LEMMA ConfirmedStep ==
    ASSUME NEW s, NEW t, Types(s), Types(t), NEW n \in Server, NEW p \in Server, NEW i \in Nat,
           t.cache[n] = s.cache[n], t.cache[p] = s.cache[p],
           t.term[n] = s.term[n], t.term[p] >= s.term[p], Confirmed(s, n, p, i)
    PROVE  Confirmed(t, n, p, i)
  <1>1. s.term[n] \in Nat /\ s.term[p] \in Nat /\ t.term[p] \in Nat /\ s.cache[n] \in Seq(Entries)
    BY TypeFacts
  <1>2. i > 0 => t.term[p] >= t.term[n]
    <2>1. i > 0 => s.term[p] >= s.term[n]
      BY DEF Confirmed
    <2> QED
      BY <1>1, <2>1, SMT
  <1>3. t.term[p] = t.term[n] => i = 0 \/ s.term[p] = s.term[n]
    <2>1. i > 0 => s.term[p] >= s.term[n]
      BY DEF Confirmed
    <2> QED
      BY <1>1, <2>1, SMT
  <1>4. t.term[p] = t.term[n] => Has(t.cache[p], SubSeq(t.cache[n], 1, i))
    <2>1. Has(t.cache[p], SubSeq(s.cache[n], 1, 0))
      BY <1>1, NothingToHave
    <2> QED
      BY <1>3, <2>1 DEF Confirmed
  <1> QED
    BY <1>2, <1>4 DEF Confirmed

LEMMA CalmStep ==
    ASSUME NEW s, NEW t, SafeInv(s), Types(t), VotesInv(t), Calm(s, t)
    PROVE  SafeInv(t)
  <1> USE DEF SafeInv
  <1>1. t.cache = s.cache /\ t.sent = s.sent /\ t.chosen = s.chosen /\ Chains(t) = Chains(s)
    BY SameChains DEF Calm, SameLogs
  <1>2. ASSUME NEW n \in Server, Leads(t, n)
        PROVE  Leads(s, n) /\ t.term[n] = s.term[n] /\ t.round[n] = s.round[n]
    BY <1>2 DEF Calm
  <1>3. ASSUME NEW n \in Server
        PROVE  s.term[n] \in Nat /\ t.term[n] \in Nat /\ s.term[n] <= t.term[n]
    <2>1. s.term[n] \in Nat /\ t.term[n] \in Nat
      BY TypeFacts
    <2>2. t.term[n] >= s.term[n]
      BY DEF Calm
    <2> QED
      BY <2>1, <2>2, SMT
  <1>4. ClosedInv(t)
    <2>1. \A k \in Nat : Closed(s, k) => Closed(t, k)
      BY DEF Calm
    <2> QED
      BY <1>1, <1>2, <2>1, ClosedStep
  <1>5. ChainsInv(t)
    <2>1. ASSUME NEW n \in Server, NEW i \in DOMAIN t.cache[n]
          PROVE  t.cache[n][i].Term <= t.term[n]
      <3>1. t.cache[n][i].Term \in Nat /\ t.cache[n][i].Term <= s.term[n]
        <4>1. IsChain(s.cache[n])
          BY CacheFacts
        <4> QED
          BY <1>1, <2>1, <4>1, ChainEntry DEF ChainsInv
      <3> QED
        BY <1>3, <3>1, SMT
    <2> QED
      BY <1>1, <2>1 DEF ChainsInv
  <1>6. LeadersInv(t)
    <2> SUFFICES ASSUME NEW n \in Server, Leads(t, n)
                 PROVE  Rules(t, n)
      BY DEF LeadersInv
    <2>1. Rules(s, n) /\ t.term[n] = s.term[n]
      BY <1>2 DEF LeadersInv
    <2> QED
      BY <1>1, <2>1 DEF Rules
  <1>7. \A a, A : Anchored(s, a, A) => Anchored(t, a, A)
    BY CalmAnchored
  <1>8. AnchorsInv(t)
    <2> SUFFICES ASSUME NEW n \in Server, Leads(t, n), NEW i \in DOMAIN t.cache[n],
                        t.cache[n][i].Term = t.term[n]
                 PROVE  Anchored(t, SubSeq(t.cache[n], 1, i), Acked(t, n, i))
      BY DEF AnchorsInv
    <2>1. Anchored(s, SubSeq(s.cache[n], 1, i), Acked(s, n, i))
      BY <1>1, <1>2 DEF AnchorsInv
    <2>2. Acked(t, n, i) = Acked(s, n, i)
      <3>1. t.match = s.match /\ t.round[n] = s.round[n]
        BY <1>2 DEF Calm
      <3> QED
        BY <3>1, SMT DEF Acked
    <2> QED
      BY <1>1, <1>7, <2>1, <2>2
  <1>9. CommitInv(t)
    <2>1. s.chosen # <<>> => Decided(t, s.chosen)
      BY <1>1, <1>7, FinalStep DEF CommitInv
    <2>2. ASSUME NEW n \in Server
          PROVE  /\ Final(t, t.commit[n], t.term[n])
                 /\ Has(t.cache[n], SubSeq(t.chosen, 1, t.commit[n]))
      <3>1. CASE t.commit[n] = s.commit[n]
        <4>1. Final(t, s.commit[n], s.term[n])
          BY <1>1, <1>7, FinalStep DEF CommitInv
        <4>2. s.commit[n] \in Nat /\ t.chosen \in Seq(Entries)
          BY TypeFacts
        <4>3. Final(t, s.commit[n], t.term[n])
          BY <1>3, <4>1, <4>2, LaterFinal
        <4> QED
          BY <1>1, <3>1, <4>3 DEF CommitInv
      <3>2. CASE t.commit[n] = 0
        <4>1. t.chosen \in Seq(Entries)
          BY TypeFacts
        <4>2. ~(0 > 0)
          BY SMT
        <4> QED
          BY <3>2, <4>1, <4>2, NothingToHave DEF Final
      <3> QED
        BY <3>1, <3>2 DEF Calm
    <2>3. \A m \in t.sent : Final(t, m.leaderCommit, m.term)
      BY <1>1, <1>7, FinalStep DEF CommitInv
    <2> QED
      BY <1>1, <2>1, <2>2, <2>3 DEF CommitInv
  <1>10. ProgressInv(t)
    <2> SUFFICES ASSUME NEW n \in Server, NEW p \in Server, Leads(t, n)
                 PROVE  /\ Confirmed(t, n, p, t.match[n][p])
                        /\ t.next[n][p] <= Len(t.cache[n]) + 1
                        /\ t.match[n][p] > 0 => t.next[n][p] = t.match[n][p] + 1
                        /\ t.round[n][p] # Idle => Truthful(t, n, p, t.round[n][p].reply)
      BY DEF ProgressInv
    <2>1. /\ t.match = s.match /\ t.next = s.next
          /\ t.round[n] = s.round[n] /\ Leads(s, n) /\ t.term[n] = s.term[n]
      BY <1>2 DEF Calm
    <2>2. \A i \in Nat : Confirmed(s, n, p, i) => Confirmed(t, n, p, i)
      <3>1. t.term[p] >= s.term[p]
        BY DEF Calm
      <3> QED
        BY <1>1, <2>1, <3>1, ConfirmedStep
    <2>3. s.match[n][p] \in Nat
      BY TypeFacts
    <2>4. ASSUME s.round[n][p] # Idle PROVE Truthful(t, n, p, s.round[n][p].reply)
      <3>1. s.round[n][p].reply.index \in Nat
        BY <2>4, ReplyFacts
      <3>2. Truthful(s, n, p, s.round[n][p].reply)
        BY <2>1, <2>4 DEF ProgressInv
      <3> QED
        BY <2>1, <2>2, <3>1, <3>2 DEF Truthful
    <2> QED
      BY <1>1, <2>1, <2>2, <2>3, <2>4 DEF ProgressInv
  <1> QED
    BY <1>4, <1>5, <1>6, <1>8, <1>9, <1>10

\* p follows term k (becomeFollowerLocked).
Follow(s, t, p, k) ==
    /\ k >= s.term[p] /\ Changed(s.term, t.term, p, k) /\ Changed(s.role, t.role, p, "Follower")
    /\ Changed(s.vote, t.vote, p, IF k > s.term[p] THEN Nil ELSE s.vote[p])
    /\ t.votes = s.votes /\ t.ends = s.ends
    /\ SameLogs(s, t) /\ SameCommit(s, t) /\ SameProgress(s, t)

LEMMA FollowStep ==
    ASSUME NEW s, NEW t, SafeInv(s), Types(t), NEW p \in Server, NEW k, Follow(s, t, p, k)
    PROVE  SafeInv(t)
  <1> USE DEF SafeInv
  <1>1. ASSUME NEW n \in Server
        PROVE  /\ s.term[n] \in Nat /\ t.term[n] \in Nat /\ t.term[n] >= s.term[n]
               /\ t.term[n] = s.term[n] => t.vote[n] = s.vote[n]
               /\ t.term[n] # s.term[n] => t.vote[n] = Nil
               /\ t.role[n] # "Follower" =>
                     n # p /\ t.role[n] = s.role[n] /\ t.term[n] = s.term[n]
    <2>1. s.term[n] \in Nat /\ t.term[n] \in Nat
      BY TypeFacts
    <2>2. CASE n = p
      <3>1. /\ t.term[n] = k /\ k >= s.term[n] /\ t.role[n] = "Follower"
            /\ t.vote[n] = IF k > s.term[n] THEN Nil ELSE s.vote[n]
        BY <2>2 DEF Follow, Changed
      <3> QED
        BY <2>1, <3>1, SMT
    <2>3. CASE n # p
      <3>1. t.term[n] = s.term[n] /\ t.role[n] = s.role[n] /\ t.vote[n] = s.vote[n]
        BY <2>3 DEF Follow, Changed
      <3> QED
        BY <2>1, <2>3, <3>1, SMT
    <2> QED
      BY <2>2, <2>3
  <1>2. /\ t.votes = s.votes /\ t.ends = s.ends /\ t.cache = s.cache /\ t.sent = s.sent
        /\ t.round = s.round
    BY DEF Follow, SameLogs, SameProgress
  <1>3. VotesInv(t)
    <2>1. ASSUME NEW n \in Server PROVE t.ends[n].term <= t.term[n]
      <3>1. s.ends[n].term <= s.term[n] /\ s.ends[n].term \in Nat
        BY TypeFacts DEF VotesInv
      <3> QED
        BY <1>1, <1>2, <3>1, SMT
    <2>2. ASSUME NEW n \in Server, t.vote[n] # Nil PROVE t.term[t.vote[n]] >= t.term[n]
      <3>1. t.term[n] = s.term[n] /\ t.vote[n] = s.vote[n] /\ s.vote[n] \in Server
        BY <1>1, <2>2, VoteFacts
      <3>2. s.term[s.vote[n]] >= s.term[n]
        BY <2>2, <3>1 DEF VotesInv
      <3>3. PICK q \in Server : q = s.vote[n]
        BY <3>1
      <3>4. t.term[q] >= t.term[n]
        BY <1>1, <3>1, <3>2, <3>3, SMT
      <3> QED
        BY <3>1, <3>3, <3>4
    <2>3. ASSUME NEW n \in Server, t.role[n] # "Follower"
          PROVE  /\ t.ends[n].term = t.term[n] /\ t.term[n] > 0
                 /\ \A v \in t.votes[n] :
                       t.term[v] > t.term[n] \/ (t.term[v] = t.term[n] /\ t.vote[v] = n)
      <3>1. t.term[n] = s.term[n] /\ s.role[n] # "Follower"
        BY <1>1, <2>3
      <3>2. s.ends[n].term = s.term[n] /\ s.term[n] > 0
        BY <3>1 DEF VotesInv
      <3>3. ASSUME NEW v \in t.votes[n]
            PROVE  t.term[v] > t.term[n] \/ (t.term[v] = t.term[n] /\ t.vote[v] = n)
        <4>1. v \in Server /\ v \in s.votes[n]
          BY <1>2, <3>3, TypeFacts
        <4>2. s.term[v] > s.term[n] \/ (s.term[v] = s.term[n] /\ s.vote[v] = n)
          BY <3>1, <4>1 DEF VotesInv
        <4>3. t.term[v] > s.term[v] \/ (t.term[v] = s.term[v] /\ t.vote[v] = s.vote[v])
          BY <1>1, <4>1, SMT
        <4> QED
          BY <1>1, <3>1, <4>1, <4>2, <4>3, SMT
      <3> QED
        BY <1>2, <3>1, <3>2, <3>3
    <2>4. ASSUME NEW n \in Server, NEW c \in Server, n # c, t.term[n] = t.term[c],
                 t.role[n] # "Follower", t.role[c] # "Follower"
          PROVE  t.votes[n] \cap t.votes[c] = {}
      <3>1. /\ s.role[n] # "Follower" /\ s.role[c] # "Follower" /\ s.term[n] = s.term[c]
        BY <1>1, <2>4
      <3> QED
        BY <1>2, <2>4, <3>1 DEF VotesInv
    <2>5. \A n \in Server : Leads(t, n) => HasQuorum(Config, t.votes[n])
      <3>1. "Leader" # "Follower"
        OBVIOUS
      <3> QED
        BY <1>1, <1>2, <3>1 DEF VotesInv, Leads
    <2>6. ASSUME NEW n \in Server, Runs(t, n)
          PROVE  /\ t.ends[n].lastLogIndex = Len(t.cache[n])
                 /\ t.ends[n].lastLogTerm = EndTerm(t.cache[n])
                 /\ \A q \in Server : t.round[n][q] = Idle
      <3>1. "Candidate" # "Follower"
        OBVIOUS
      <3>2. Runs(s, n)
        BY <1>1, <2>6, <3>1 DEF Runs
      <3>3. /\ s.ends[n].lastLogIndex = Len(s.cache[n])
            /\ s.ends[n].lastLogTerm = EndTerm(s.cache[n])
            /\ \A q \in Server : s.round[n][q] = Idle
        BY <3>2 DEF VotesInv
      <3> QED
        BY <1>2, <3>3
    <2> QED
      BY <2>1, <2>2, <2>3, <2>4, <2>5, <2>6 DEF VotesInv
  <1>4. ASSUME NEW c \in Server PROVE /\ Leads(t, c) => Leads(s, c) /\ t.term[c] = s.term[c]
                                      /\ Runs(t, c) => Runs(s, c) /\ t.term[c] = s.term[c]
    <2>1. "Candidate" # "Follower" /\ "Leader" # "Follower"
      OBVIOUS
    <2> QED
      BY <1>1, <2>1 DEF Runs, Leads
  <1>5. ASSUME NEW v \in Server, NEW j \in Nat, Lost(s, v, j) PROVE Lost(t, v, j)
    <2>1. s.term[v] >= j
      BY <1>5 DEF Lost
    <2>2. /\ t.term[v] >= j
          /\ t.term[v] = j => s.term[v] = j
      BY <1>1, <2>1, SMT
    <2>3. ASSUME t.term[v] = j
          PROVE  t.vote[v] # Nil /\ ~(Runs(t, t.vote[v]) /\ t.term[t.vote[v]] = j)
      <3>1. s.term[v] = j /\ t.vote[v] = s.vote[v]
        BY <1>1, <2>2, <2>3
      <3>2. s.vote[v] # Nil /\ ~(Runs(s, s.vote[v]) /\ s.term[s.vote[v]] = j) /\ s.vote[v] \in Server
        BY <1>5, <3>1, VoteFacts DEF Lost
      <3> QED
        BY <1>4, <3>1, <3>2
    <2>4. \A c \in Server : Runs(t, c) /\ t.term[c] = j => v \notin t.votes[c]
      BY <1>2, <1>4, <1>5 DEF Lost
    <2> QED
      BY <2>2, <2>3, <2>4 DEF Lost
  <1>6. \A j \in Nat : Closed(s, j) => Closed(t, j)
    BY <1>5 DEF Closed
  <1>7. Calm(s, t)
    <2>1. SameLogs(s, t) /\ t.chosen = s.chosen /\ t.next = s.next /\ t.match = s.match
      BY DEF Follow, SameCommit, SameProgress
    <2>2. \A n \in Server : t.commit[n] = s.commit[n]
      BY DEF Follow, SameCommit
    <2>3. \A c \in Server : Runs(t, c) => \A v \in t.votes[c] :
             Runs(s, c) /\ t.term[c] = s.term[c] /\ v \in s.votes[c]
      BY <1>2, <1>4
    <2> QED
      BY <1>1, <1>2, <1>4, <1>6, <2>1, <2>2, <2>3 DEF Calm
  <1> QED
    BY <1>3, <1>7, CalmStep

\* Follower n loses what it had not persisted (a restart).
Forget(s, t, n) ==
    /\ s.role[n] = "Follower"
    /\ t.term = s.term /\ t.vote = s.vote /\ t.role = s.role /\ t.ends = s.ends
    /\ Changed(s.votes, t.votes, n, {}) /\ Changed(s.commit, t.commit, n, 0)
    /\ \A q \in Server : q # n => t.round[q] = s.round[q]
    /\ SameLogs(s, t) /\ t.chosen = s.chosen /\ t.next = s.next /\ t.match = s.match

LEMMA ForgetStep ==
    ASSUME NEW s, NEW t, SafeInv(s), Types(t), NEW n \in Server, Forget(s, t, n)
    PROVE  SafeInv(t)
  <1> USE DEF SafeInv
  <1>1. /\ t.term = s.term /\ t.vote = s.vote /\ t.role = s.role /\ t.ends = s.ends
        /\ t.cache = s.cache
    BY DEF Forget, SameLogs
  <1>2. ASSUME NEW q \in Server, t.role[q] # "Follower"
        PROVE  t.votes[q] = s.votes[q] /\ t.round[q] = s.round[q]
    BY <1>1, <1>2 DEF Forget, Changed
  <1>3. "Candidate" # "Follower" /\ "Leader" # "Follower"
    OBVIOUS
  <1>4. ASSUME NEW q \in Server
        PROVE  /\ Leads(t, q) <=> Leads(s, q)
               /\ Runs(t, q) <=> Runs(s, q)
               /\ Leads(t, q) \/ Runs(t, q) =>
                     t.role[q] # "Follower" /\ t.votes[q] = s.votes[q] /\ t.round[q] = s.round[q]
    BY <1>1, <1>2, <1>3 DEF Leads, Runs
  <1>5. VotesInv(t)
    <2>1. /\ \A q \in Server : t.ends[q].term <= t.term[q]
          /\ \A q \in Server : t.vote[q] # Nil => t.term[t.vote[q]] >= t.term[q]
      BY <1>1 DEF VotesInv
    <2>2. ASSUME NEW q \in Server, t.role[q] # "Follower"
          PROVE  /\ t.ends[q].term = t.term[q] /\ t.term[q] > 0
                 /\ \A v \in t.votes[q] :
                       t.term[v] > t.term[q] \/ (t.term[v] = t.term[q] /\ t.vote[v] = q)
      <3>1. s.role[q] # "Follower" /\ t.votes[q] = s.votes[q]
        BY <1>1, <1>2, <2>2
      <3>2. /\ s.ends[q].term = s.term[q] /\ s.term[q] > 0
            /\ \A v \in s.votes[q] :
                  s.term[v] > s.term[q] \/ (s.term[v] = s.term[q] /\ s.vote[v] = q)
        BY <3>1 DEF VotesInv
      <3> QED
        BY <1>1, <3>1, <3>2
    <2>3. ASSUME NEW q \in Server, NEW c \in Server, q # c, t.term[q] = t.term[c],
                 t.role[q] # "Follower", t.role[c] # "Follower"
          PROVE  t.votes[q] \cap t.votes[c] = {}
      <3>1. s.votes[q] \cap s.votes[c] = {}
        BY <1>1, <2>3 DEF VotesInv
      <3> QED
        BY <1>2, <2>3, <3>1
    <2>4. \A q \in Server : Leads(t, q) => HasQuorum(Config, t.votes[q])
      BY <1>4 DEF VotesInv
    <2>5. ASSUME NEW q \in Server, Runs(t, q)
          PROVE  /\ t.ends[q].lastLogIndex = Len(t.cache[q])
                 /\ t.ends[q].lastLogTerm = EndTerm(t.cache[q])
                 /\ \A p \in Server : t.round[q][p] = Idle
      <3>1. /\ s.ends[q].lastLogIndex = Len(s.cache[q])
            /\ s.ends[q].lastLogTerm = EndTerm(s.cache[q])
            /\ \A p \in Server : s.round[q][p] = Idle
        BY <1>4, <2>5 DEF VotesInv
      <3> QED
        BY <1>1, <1>4, <2>5, <3>1
    <2> QED
      BY <2>1, <2>2, <2>3, <2>4, <2>5 DEF VotesInv
  <1>6. ASSUME NEW v \in Server, NEW j \in Nat, Lost(s, v, j) PROVE Lost(t, v, j)
    <2>1. ASSUME t.term[v] = j
          PROVE  t.vote[v] # Nil /\ ~(Runs(t, t.vote[v]) /\ t.term[t.vote[v]] = j)
      <3>1. s.vote[v] # Nil /\ ~(Runs(s, s.vote[v]) /\ s.term[s.vote[v]] = j) /\ s.vote[v] \in Server
        BY <1>1, <1>6, <2>1, VoteFacts DEF Lost
      <3> QED
        BY <1>1, <1>4, <3>1
    <2>2. ASSUME NEW c \in Server, Runs(t, c), t.term[c] = j PROVE v \notin t.votes[c]
      BY <1>1, <1>4, <1>6, <2>2 DEF Lost
    <2> QED
      BY <1>1, <1>6, <2>1, <2>2 DEF Lost
  <1>7. \A j \in Nat : Closed(s, j) => Closed(t, j)
    BY <1>6 DEF Closed
  <1>8. Calm(s, t)
    <2>1. SameLogs(s, t) /\ t.chosen = s.chosen /\ t.next = s.next /\ t.match = s.match
      BY DEF Forget
    <2>2. \A q \in Server : t.commit[q] = s.commit[q] \/ t.commit[q] = 0
      BY DEF Forget, Changed
    <2>3. ASSUME NEW c \in Server, Runs(t, c), NEW v \in t.votes[c]
          PROVE  Runs(s, c) /\ t.term[c] = s.term[c] /\ v \in s.votes[c]
      BY <1>1, <1>4, <2>3
    <2>4. \A v \in Server : t.term[v] >= s.term[v]
      <3>1. \A v \in Server : s.term[v] \in Nat
        BY TypeFacts
      <3>2. \A k \in Nat : k >= k
        BY SMT
      <3> QED
        BY <1>1, <3>1, <3>2
    <2> QED
      BY <1>1, <1>4, <1>7, <2>1, <2>2, <2>3, <2>4 DEF Calm
  <1> QED
    BY <1>5, <1>8, CalmStep

\* n campaigns for the next term and votes for itself (RunElection).
Campaign(s, t, n) ==
    /\ ~Leads(s, n) /\ \A p \in Server : s.round[n][p] = Idle
    /\ Changed(s.term, t.term, n, s.term[n] + 1) /\ Changed(s.vote, t.vote, n, n)
    /\ Changed(s.role, t.role, n, "Candidate") /\ Changed(s.votes, t.votes, n, {n})
    /\ Changed(s.ends, t.ends, n, [term |-> s.term[n] + 1, lastLogIndex |-> Len(s.cache[n]),
                                   lastLogTerm |-> EndTerm(s.cache[n])])
    /\ SameLogs(s, t) /\ SameCommit(s, t) /\ SameProgress(s, t)

LEMMA CampaignStep ==
    ASSUME NEW s, NEW t, SafeInv(s), Types(t), NEW n \in Server, Campaign(s, t, n)
    PROVE  SafeInv(t)
  <1> USE DEF SafeInv
  <1>1. /\ t.term[n] = s.term[n] + 1 /\ t.vote[n] = n /\ t.role[n] = "Candidate"
        /\ t.votes[n] = {n} /\ t.ends[n].term = s.term[n] + 1
        /\ t.ends[n].lastLogIndex = Len(s.cache[n]) /\ t.ends[n].lastLogTerm = EndTerm(s.cache[n])
    <2>1. t.ends[n] = [term |-> s.term[n] + 1, lastLogIndex |-> Len(s.cache[n]),
                       lastLogTerm |-> EndTerm(s.cache[n])]
      BY DEF Campaign, Changed
    <2>2. /\ t.term[n] = s.term[n] + 1 /\ t.vote[n] = n /\ t.role[n] = "Candidate"
          /\ t.votes[n] = {n}
      BY DEF Campaign, Changed
    <2>3. /\ t.ends[n].term = s.term[n] + 1 /\ t.ends[n].lastLogIndex = Len(s.cache[n])
          /\ t.ends[n].lastLogTerm = EndTerm(s.cache[n])
      BY <2>1, SMT
    <2> QED
      BY <2>2, <2>3
  <1>2. ASSUME NEW q \in Server, q # n
        PROVE  /\ t.term[q] = s.term[q] /\ t.vote[q] = s.vote[q] /\ t.role[q] = s.role[q]
               /\ t.votes[q] = s.votes[q] /\ t.ends[q] = s.ends[q]
    BY <1>2 DEF Campaign, Changed
  <1>3. t.cache = s.cache /\ t.round = s.round /\ \A p \in Server : s.round[n][p] = Idle
    BY DEF Campaign, SameLogs, SameProgress
  <1>4. ASSUME NEW q \in Server
        PROVE  s.term[q] \in Nat /\ t.term[q] \in Nat /\ t.term[q] >= s.term[q]
    <2>1. s.term[q] \in Nat /\ s.term[n] \in Nat
      BY TypeFacts
    <2>2. t.term[q] = s.term[q] + 1 \/ t.term[q] = s.term[q]
      BY <1>1, <1>2
    <2> QED
      BY <2>1, <2>2, SMT
  <1>5. ASSUME NEW q \in Server, s.role[q] # "Follower", NEW v \in s.votes[q]
        PROVE  v \in Server /\ s.term[v] >= s.term[q]
    <2>1. v \in Server
      BY <1>5, TypeFacts
    <2>2. s.term[v] > s.term[q] \/ s.term[v] = s.term[q]
      BY <1>5 DEF VotesInv
    <2> QED
      BY <1>4, <2>1, <2>2, SMT
  <1>6. VotesInv(t)
    <2>1. ASSUME NEW q \in Server PROVE t.ends[q].term <= t.term[q]
      <3>1. q # n => t.ends[q].term <= t.term[q]
        BY <1>2 DEF VotesInv
      <3>2. t.ends[n].term <= t.term[n]
        BY <1>1, <1>4, SMT
      <3> QED
        BY <3>1, <3>2
    <2>2. ASSUME NEW q \in Server, t.vote[q] # Nil PROVE t.term[t.vote[q]] >= t.term[q]
      <3>1. CASE q = n
        <4>1. t.term[n] >= t.term[n]
          BY <1>4, SMT
        <4> QED
          BY <1>1, <3>1, <4>1
      <3>2. CASE q # n
        <4>1. PICK c \in Server : c = s.vote[q]
          BY <1>2, <2>2, <3>2, VoteFacts
        <4>2. s.term[c] >= s.term[q]
          BY <1>2, <2>2, <3>2, <4>1 DEF VotesInv
        <4>3. t.term[q] = s.term[q] /\ t.vote[q] = c
          BY <1>2, <3>2, <4>1
        <4>4. t.term[c] >= t.term[q]
          BY <1>4, <4>2, <4>3, SMT
        <4> QED
          BY <4>3, <4>4
      <3> QED
        BY <3>1, <3>2
    <2>3. ASSUME NEW q \in Server, t.role[q] # "Follower"
          PROVE  /\ t.ends[q].term = t.term[q] /\ t.term[q] > 0
                 /\ \A v \in t.votes[q] :
                       t.term[v] > t.term[q] \/ (t.term[v] = t.term[q] /\ t.vote[v] = q)
      <3>1. CASE q = n
        <4>1. t.term[n] > 0
          BY <1>1, <1>4, SMT
        <4> QED
          BY <1>1, <3>1, <4>1
      <3>2. CASE q # n
        <4>1. s.role[q] # "Follower" /\ t.ends[q].term = t.term[q] /\ t.term[q] > 0
          BY <1>2, <2>3, <3>2 DEF VotesInv
        <4>2. ASSUME NEW v \in t.votes[q]
              PROVE  t.term[v] > t.term[q] \/ (t.term[v] = t.term[q] /\ t.vote[v] = q)
          <5>1. v \in s.votes[q] /\ t.term[q] = s.term[q]
            BY <1>2, <3>2, <4>2
          <5>2. v = n => t.term[v] > t.term[q]
            <6>1. s.term[v] >= s.term[q] /\ v \in Server
              BY <1>5, <4>1, <5>1
            <6> QED
              BY <1>1, <1>4, <5>1, <6>1, SMT
          <5>3. s.term[v] > s.term[q] \/ (s.term[v] = s.term[q] /\ s.vote[v] = q)
            BY <4>1, <5>1 DEF VotesInv
          <5>4. v # n => t.term[v] = s.term[v] /\ t.vote[v] = s.vote[v]
            BY <1>2, <1>5, <4>1, <5>1
          <5> QED
            BY <5>1, <5>2, <5>3, <5>4
        <4> QED
          BY <4>1, <4>2
      <3> QED
        BY <3>1, <3>2
    <2>4. ASSUME NEW q \in Server, q # n, t.role[q] # "Follower", t.term[q] = t.term[n]
          PROVE  n \notin t.votes[q]
      <3> SUFFICES ASSUME n \in s.votes[q] PROVE FALSE
        BY <1>2, <2>4
      <3>1. s.term[n] >= s.term[q]
        BY <1>2, <1>5, <2>4
      <3>2. s.term[q] = s.term[n] + 1
        BY <1>1, <1>2, <2>4
      <3> QED
        BY <1>4, <3>1, <3>2, SMT
    <2>5. ASSUME NEW q \in Server, NEW c \in Server, q # c, t.term[q] = t.term[c],
                 t.role[q] # "Follower", t.role[c] # "Follower"
          PROVE  t.votes[q] \cap t.votes[c] = {}
      <3>1. CASE q = n
        BY <1>1, <2>4, <2>5, <3>1
      <3>2. CASE c = n
        BY <1>1, <2>4, <2>5, <3>2
      <3>3. CASE q # n /\ c # n
        <4>1. s.votes[q] \cap s.votes[c] = {}
          BY <1>2, <2>5, <3>3 DEF VotesInv
        <4> QED
          BY <1>2, <3>3, <4>1
      <3> QED
        BY <3>1, <3>2, <3>3
    <2>6. \A q \in Server : Leads(t, q) => HasQuorum(Config, t.votes[q])
      <3>1. ~Leads(t, n)
        BY <1>1, SMT DEF Leads
      <3> QED
        BY <1>2, <3>1 DEF VotesInv, Leads
    <2>7. ASSUME NEW q \in Server, Runs(t, q)
          PROVE  /\ t.ends[q].lastLogIndex = Len(t.cache[q])
                 /\ t.ends[q].lastLogTerm = EndTerm(t.cache[q])
                 /\ \A p \in Server : t.round[q][p] = Idle
      <3>1. CASE q = n
        BY <1>1, <1>3, <3>1
      <3>2. CASE q # n
        <4>1. /\ s.ends[q].lastLogIndex = Len(s.cache[q])
              /\ s.ends[q].lastLogTerm = EndTerm(s.cache[q])
              /\ \A p \in Server : s.round[q][p] = Idle
          <5>1. Runs(s, q)
            BY <1>2, <2>7, <3>2 DEF Runs
          <5> QED
            BY <5>1 DEF VotesInv
        <4> QED
          BY <1>2, <1>3, <3>2, <4>1
      <3> QED
        BY <3>1, <3>2
    <2> QED
      BY <2>1, <2>2, <2>3, <2>5, <2>6, <2>7 DEF VotesInv
  <1>7. ASSUME NEW v \in Server, NEW j \in Nat, Lost(s, v, j) PROVE Lost(t, v, j)
    <2>1. s.term[v] >= j
      BY <1>7 DEF Lost
    <2>2. t.term[v] >= j /\ (t.term[v] = j => s.term[v] = j /\ v # n)
      BY <1>1, <1>4, <2>1, SMT
    <2>3. ASSUME NEW c \in Server, Runs(t, c), t.term[c] = j
          PROVE  /\ v \notin t.votes[c]
                 /\ v # n => c # s.vote[v] \/ s.term[v] # j
      <3>1. CASE c = n
        <4>1. j = s.term[n] + 1
          BY <1>1, <2>3, <3>1
        <4>2. v # n
          BY <1>4, <2>1, <4>1, SMT
        <4>3. ASSUME s.vote[v] = n PROVE s.term[n] >= s.term[v]
          <5>1. n # Nil
            BY ReplicationAssumption
          <5> QED
            BY <4>3, <5>1 DEF VotesInv
        <4>4. s.vote[v] = n => s.term[v] # j
          BY <1>4, <4>1, <4>3, SMT
        <4> QED
          BY <1>1, <3>1, <4>2, <4>4
      <3>2. CASE c # n
        <4>1. Runs(s, c) /\ s.term[c] = j
          BY <1>2, <2>3, <3>2 DEF Runs
        <4> QED
          BY <1>2, <1>7, <3>2, <4>1 DEF Lost
      <3> QED
        BY <3>1, <3>2
    <2>4. ASSUME t.term[v] = j
          PROVE  t.vote[v] # Nil /\ ~(Runs(t, t.vote[v]) /\ t.term[t.vote[v]] = j)
      <3>1. s.term[v] = j /\ v # n /\ t.vote[v] = s.vote[v]
        BY <1>2, <2>2, <2>4
      <3>2. s.vote[v] # Nil /\ s.vote[v] \in Server
        BY <1>7, <3>1, VoteFacts DEF Lost
      <3> QED
        BY <2>3, <3>1, <3>2
    <2> QED
      BY <2>2, <2>3, <2>4 DEF Lost
  <1>8. \A j \in Nat : Closed(s, j) => Closed(t, j)
    BY <1>7 DEF Closed
  <1>9. Calm(s, t)
    <2>1. SameLogs(s, t) /\ t.chosen = s.chosen /\ t.next = s.next /\ t.match = s.match
      BY DEF Campaign, SameCommit, SameProgress
    <2>2. \A q \in Server : t.commit[q] = s.commit[q]
      BY DEF Campaign, SameCommit
    <2>3. ASSUME NEW q \in Server, Leads(t, q)
          PROVE  Leads(s, q) /\ t.term[q] = s.term[q] /\ t.round[q] = s.round[q]
      <3>1. q # n
        BY <1>1, <2>3, SMT DEF Leads
      <3> QED
        BY <1>2, <1>3, <2>3, <3>1 DEF Leads
    <2>4. ASSUME NEW c \in Server, Runs(t, c), NEW v \in t.votes[c]
          PROVE  v = c \/ (Runs(s, c) /\ t.term[c] = s.term[c] /\ v \in s.votes[c])
      <3>1. c = n => v = c
        BY <1>1, <2>4, SMT
      <3>2. c # n => Runs(s, c) /\ t.term[c] = s.term[c] /\ v \in s.votes[c]
        BY <1>2, <2>4 DEF Runs
      <3> QED
        BY <3>1, <3>2
    <2> QED
      BY <1>4, <1>8, <2>1, <2>2, <2>3, <2>4 DEF Calm
  <1> QED
    BY <1>6, <1>9, CalmStep

\* n votes for c in the term of c's request; the vote counts if c still runs.
Grant(s, t, n, c) ==
    /\ s.term[n] = s.ends[c].term /\ s.vote[n] \in {Nil, c}
    /\ candidateUpToDate(s.ends[c].lastLogTerm, s.ends[c].lastLogIndex,
                         EndTerm(s.cache[n]), Len(s.cache[n]))
    /\ Changed(s.vote, t.vote, n, c)
    /\ IF Runs(s, c) /\ s.term[c] = s.term[n]
       THEN Changed(s.votes, t.votes, c, s.votes[c] \cup {n})
       ELSE t.votes = s.votes
    /\ t.term = s.term /\ t.role = s.role /\ t.ends = s.ends
    /\ SameLogs(s, t) /\ SameCommit(s, t) /\ SameProgress(s, t)

LEMMA GrantStep ==
    ASSUME NEW s, NEW t, SafeInv(s), Types(t), NEW n \in Server, NEW c \in Server, Grant(s, t, n, c)
    PROVE  SafeInv(t)
  <1> USE DEF SafeInv
  <1>1. /\ t.term = s.term /\ t.role = s.role /\ t.ends = s.ends /\ t.cache = s.cache
        /\ t.round = s.round
    BY DEF Grant, SameLogs, SameProgress
  <1>2. /\ t.vote[n] = c /\ \A q \in Server : q # n => t.vote[q] = s.vote[q]
        /\ s.vote[n] = Nil \/ s.vote[n] = c
        /\ s.term[n] = s.ends[c].term
    BY DEF Grant, Changed
  <1>3. Nil \notin Server
    BY ReplicationAssumption
  <1>4. ASSUME NEW q \in Server
        PROVE  /\ q # c => t.votes[q] = s.votes[q]
               /\ \A v \in t.votes[q] :
                     \/ v \in s.votes[q]
                     \/ v = n /\ q = c /\ Runs(s, c) /\ s.term[c] = s.term[n]
               /\ \A v \in s.votes[q] : v \in t.votes[q]
    <2>1. CASE Runs(s, c) /\ s.term[c] = s.term[n]
      <3>1. t.votes[c] = s.votes[c] \cup {n} /\ (q # c => t.votes[q] = s.votes[q])
        BY <2>1 DEF Grant, Changed
      <3> QED
        BY <2>1, <3>1
    <2>2. CASE ~(Runs(s, c) /\ s.term[c] = s.term[n])
      BY <2>2 DEF Grant
    <2> QED
      BY <2>1, <2>2
  <1>5. ASSUME NEW q \in Server PROVE (Leads(t, q) <=> Leads(s, q)) /\ (Runs(t, q) <=> Runs(s, q))
    BY <1>1 DEF Leads, Runs
  <1>6. ASSUME NEW q \in Server PROVE s.vote[q] # Nil => t.vote[q] = s.vote[q]
    BY <1>2
  <1>7. ASSUME NEW q \in Server, s.role[q] # "Follower", NEW v \in t.votes[q]
        PROVE  s.term[v] > s.term[q] \/ (s.term[v] = s.term[q] /\ t.vote[v] = q)
    <2>1. CASE v = n /\ q = c /\ Runs(s, c) /\ s.term[c] = s.term[n]
      BY <1>2, <2>1
    <2>2. CASE v \in s.votes[q]
      <3>1. s.term[v] > s.term[q] \/ (s.term[v] = s.term[q] /\ s.vote[v] = q)
        BY <1>7, <2>2 DEF VotesInv
      <3>2. v \in Server
        BY <1>7, <2>2, TypeFacts
      <3> QED
        BY <1>3, <1>6, <3>1, <3>2
    <2> QED
      BY <1>4, <1>7, <2>1, <2>2
  <1>8. VotesInv(t)
    <2>1. \A q \in Server : t.ends[q].term <= t.term[q]
      BY <1>1 DEF VotesInv
    <2>2. ASSUME NEW q \in Server, t.vote[q] # Nil PROVE t.term[t.vote[q]] >= t.term[q]
      <3>1. CASE q = n
        <4>1. s.ends[c].term <= s.term[c] /\ s.ends[c].term \in Nat /\ s.term[c] \in Nat
          BY TypeFacts DEF VotesInv
        <4>2. s.term[c] >= s.term[n]
          BY <1>2, <4>1, SMT
        <4> QED
          BY <1>1, <1>2, <3>1, <4>2
      <3>2. CASE q # n
        BY <1>1, <1>2, <2>2, <3>2 DEF VotesInv
      <3> QED
        BY <3>1, <3>2
    <2>3. ASSUME NEW q \in Server, t.role[q] # "Follower"
          PROVE  /\ t.ends[q].term = t.term[q] /\ t.term[q] > 0
                 /\ \A v \in t.votes[q] :
                       t.term[v] > t.term[q] \/ (t.term[v] = t.term[q] /\ t.vote[v] = q)
      <3>1. s.ends[q].term = s.term[q] /\ s.term[q] > 0 /\ s.role[q] # "Follower"
        BY <1>1, <2>3 DEF VotesInv
      <3>2. \A v \in t.votes[q] :
               s.term[v] > s.term[q] \/ (s.term[v] = s.term[q] /\ t.vote[v] = q)
        BY <1>7, <3>1
      <3> QED
        BY <1>1, <3>1, <3>2
    <2>4. ASSUME NEW q \in Server, NEW d \in Server, q # d, t.term[q] = t.term[d],
                 t.role[q] # "Follower", t.role[d] # "Follower"
          PROVE  t.votes[q] \cap t.votes[d] = {}
      <3> SUFFICES ASSUME NEW v \in t.votes[q], v \in t.votes[d] PROVE FALSE
        OBVIOUS
      <3>1. s.role[q] # "Follower" /\ s.role[d] # "Follower" /\ s.term[q] = s.term[d]
        BY <1>1, <2>4
      <3>2. /\ s.term[v] > s.term[q] \/ (s.term[v] = s.term[q] /\ t.vote[v] = q)
            /\ s.term[v] > s.term[d] \/ (s.term[v] = s.term[d] /\ t.vote[v] = d)
        BY <1>7, <3>1
      <3>3. ~(v \in s.votes[q] /\ v \in s.votes[d])
        <4>1. s.votes[q] \cap s.votes[d] = {}
          BY <2>4, <3>1 DEF VotesInv
        <4> QED
          BY <4>1
      <3>4. v = n /\ s.term[c] = s.term[n] /\ (q = c \/ d = c)
        BY <1>4, <3>3
      <3>5. ~(s.term[v] > s.term[q])
        <4>1. s.term[v] = s.term[q] /\ s.term[v] \in Nat
          BY <3>1, <3>4, TypeFacts
        <4> QED
          BY <4>1, SMT
      <3> QED
        BY <2>4, <3>1, <3>2, <3>5
    <2>5. ASSUME NEW q \in Server, Leads(t, q) PROVE HasQuorum(Config, t.votes[q])
      <3>1. HasQuorum(Config, s.votes[q])
        BY <1>5, <2>5 DEF VotesInv
      <3>2. s.votes[q] \subseteq t.votes[q]
        BY <1>4
      <3> QED
        BY <3>1, <3>2, Grow
    <2>6. ASSUME NEW q \in Server, Runs(t, q)
          PROVE  /\ t.ends[q].lastLogIndex = Len(t.cache[q])
                 /\ t.ends[q].lastLogTerm = EndTerm(t.cache[q])
                 /\ \A p \in Server : t.round[q][p] = Idle
      <3>1. /\ s.ends[q].lastLogIndex = Len(s.cache[q])
            /\ s.ends[q].lastLogTerm = EndTerm(s.cache[q])
            /\ \A p \in Server : s.round[q][p] = Idle
        BY <1>5, <2>6 DEF VotesInv
      <3> QED
        BY <1>1, <3>1
    <2> QED
      BY <2>1, <2>2, <2>3, <2>4, <2>5, <2>6, ZenonT(40) DEF VotesInv
  <1>9. ASSUME NEW v \in Server, NEW j \in Nat, Lost(s, v, j) PROVE Lost(t, v, j)
    <2>1. ASSUME s.term[v] = j
          PROVE  /\ s.vote[v] # Nil /\ t.vote[v] = s.vote[v] /\ s.vote[v] \in Server
                 /\ ~(Runs(s, s.vote[v]) /\ s.term[s.vote[v]] = j)
      BY <1>6, <1>9, <2>1, VoteFacts DEF Lost
    <2>2. ASSUME t.term[v] = j
          PROVE  t.vote[v] # Nil /\ ~(Runs(t, t.vote[v]) /\ t.term[t.vote[v]] = j)
      BY <1>1, <1>5, <2>1, <2>2
    <2>3. ASSUME NEW q \in Server, Runs(t, q), t.term[q] = j PROVE v \notin t.votes[q]
      <3> SUFFICES ASSUME v \in t.votes[q] PROVE FALSE
        OBVIOUS
      <3>1. v \notin s.votes[q]
        BY <1>1, <1>5, <1>9, <2>3 DEF Lost
      <3>2. v = n /\ q = c /\ Runs(s, c) /\ s.term[c] = s.term[n]
        BY <1>4, <3>1
      <3>3. s.term[v] = j
        BY <1>1, <2>3, <3>2
      <3> QED
        BY <1>2, <2>1, <3>2, <3>3
    <2> QED
      BY <1>1, <1>9, <2>2, <2>3 DEF Lost
  <1>10. \A j \in Nat : Closed(s, j) => Closed(t, j)
    BY <1>9 DEF Closed
  <1>11. Calm(s, t)
    <2>1. SameLogs(s, t) /\ t.chosen = s.chosen /\ t.next = s.next /\ t.match = s.match
      BY DEF Grant, SameCommit, SameProgress
    <2>2. \A q \in Server : t.commit[q] = s.commit[q]
      BY DEF Grant, SameCommit
    <2>3. ASSUME NEW d \in Server, Runs(t, d), NEW v \in t.votes[d]
          PROVE  /\ Runs(s, d) /\ t.term[d] = s.term[d]
                 /\ v \in s.votes[d] \/ Grants(s, v, d)
      <3>1. Runs(s, c) => Grants(s, n, c)
        <4> SUFFICES ASSUME Runs(s, c) PROVE Grants(s, n, c)
          OBVIOUS
        <4>1. /\ s.ends[c].lastLogIndex = Len(s.cache[c])
              /\ s.ends[c].lastLogTerm = EndTerm(s.cache[c])
          BY DEF VotesInv
        <4>2. candidateUpToDate(s.ends[c].lastLogTerm, s.ends[c].lastLogIndex,
                                EndTerm(s.cache[n]), Len(s.cache[n]))
          BY DEF Grant
        <4> QED
          BY <4>1, <4>2 DEF Grants
      <3>2. v \in s.votes[d] \/ (v = n /\ d = c /\ Runs(s, c))
        BY <1>4, <2>3
      <3> QED
        BY <1>1, <1>5, <2>3, <3>1, <3>2
    <2>4. \A v \in Server : t.term[v] >= s.term[v]
      <3>1. \A v \in Server : s.term[v] \in Nat
        BY TypeFacts
      <3>2. \A k \in Nat : k >= k
        BY SMT
      <3> QED
        BY <1>1, <3>1, <3>2
    <2> QED
      BY <1>1, <1>5, <1>10, <2>1, <2>2, <2>3, <2>4 DEF Calm
  <1> QED
    BY <1>8, <1>11, CalmStep

(***************************************************************************)
(* n has a quorum of votes and leads (becomeLeader); it knows nothing of    *)
(* its peers' logs.                                                         *)
(***************************************************************************)

Crown(s, t, n) ==
    /\ Runs(s, n) /\ HasQuorum(Config, s.votes[n]) /\ Changed(s.role, t.role, n, "Leader")
    /\ t.term = s.term /\ t.vote = s.vote /\ t.votes = s.votes /\ t.ends = s.ends
    /\ SameLogs(s, t) /\ SameCommit(s, t) /\ t.round = s.round
    /\ \A p \in Server : t.next[n][p] = Len(s.cache[n]) + 1 /\ t.match[n][p] = 0
    /\ \A q \in Server : q # n => t.next[q] = s.next[q] /\ t.match[q] = s.match[q]

LEMMA CrownStep ==
    ASSUME NEW s, NEW t, SafeInv(s), Types(t), NEW n \in Server, Crown(s, t, n)
    PROVE  SafeInv(t)
  <1> USE DEF SafeInv
  <1>1. /\ t.term = s.term /\ t.vote = s.vote /\ t.votes = s.votes /\ t.ends = s.ends
        /\ t.cache = s.cache /\ t.sent = s.sent /\ t.chosen = s.chosen /\ t.commit = s.commit
        /\ t.round = s.round /\ Chains(t) = Chains(s)
    BY SameChains DEF Crown, SameLogs, SameCommit
  <1>2. /\ Runs(s, n) /\ s.role[n] # "Follower" /\ HasQuorum(Config, s.votes[n])
        /\ Leads(t, n) /\ ~Runs(t, n) /\ t.role[n] # "Follower"
    <2>1. "Candidate" # "Follower" /\ "Leader" # "Follower" /\ "Leader" # "Candidate"
      OBVIOUS
    <2> QED
      BY <2>1 DEF Crown, Changed, Leads, Runs
  <1>3. ASSUME NEW q \in Server, q # n
        PROVE  /\ t.role[q] = s.role[q] /\ (Leads(t, q) <=> Leads(s, q)) /\ (Runs(t, q) <=> Runs(s, q))
               /\ t.next[q] = s.next[q] /\ t.match[q] = s.match[q]
    BY <1>3 DEF Crown, Changed, Leads, Runs
  <1>4. ASSUME NEW q \in Server PROVE t.role[q] # "Follower" <=> s.role[q] # "Follower"
    BY <1>2, <1>3
  <1>5. ASSUME NEW q \in Server, Runs(t, q) PROVE Runs(s, q) /\ q # n
    BY <1>2, <1>3, <1>5
  <1>6. s.term[n] \in Nat /\ ~Closed(s, s.term[n])
    BY <1>2, StillOpen, TypeFacts
  <1>7. VotesInv(t)
    <2>1. /\ \A q \in Server : t.ends[q].term <= t.term[q]
          /\ \A q \in Server : t.vote[q] # Nil => t.term[t.vote[q]] >= t.term[q]
      BY <1>1 DEF VotesInv
    <2>2. ASSUME NEW q \in Server, t.role[q] # "Follower"
          PROVE  /\ t.ends[q].term = t.term[q] /\ t.term[q] > 0
                 /\ \A v \in t.votes[q] :
                       t.term[v] > t.term[q] \/ (t.term[v] = t.term[q] /\ t.vote[v] = q)
      <3>1. /\ s.ends[q].term = s.term[q] /\ s.term[q] > 0
            /\ \A v \in s.votes[q] :
                  s.term[v] > s.term[q] \/ (s.term[v] = s.term[q] /\ s.vote[v] = q)
        BY <1>4, <2>2 DEF VotesInv
      <3> QED
        BY <1>1, <3>1
    <2>3. ASSUME NEW q \in Server, NEW c \in Server, q # c, t.term[q] = t.term[c],
                 t.role[q] # "Follower", t.role[c] # "Follower"
          PROVE  t.votes[q] \cap t.votes[c] = {}
      <3>1. s.votes[q] \cap s.votes[c] = {}
        BY <1>1, <1>4, <2>3, ZenonT(40) DEF VotesInv
      <3> QED
        BY <1>1, <3>1
    <2>4. ASSUME NEW q \in Server, Leads(t, q) PROVE HasQuorum(Config, t.votes[q])
      BY <1>1, <1>2, <1>3, <2>4 DEF VotesInv
    <2>5. ASSUME NEW q \in Server, Runs(t, q)
          PROVE  /\ t.ends[q].lastLogIndex = Len(t.cache[q])
                 /\ t.ends[q].lastLogTerm = EndTerm(t.cache[q])
                 /\ \A p \in Server : t.round[q][p] = Idle
      <3>1. /\ s.ends[q].lastLogIndex = Len(s.cache[q])
            /\ s.ends[q].lastLogTerm = EndTerm(s.cache[q])
            /\ \A p \in Server : s.round[q][p] = Idle
        BY <1>5, <2>5 DEF VotesInv
      <3> QED
        BY <1>1, <3>1
    <2> QED
      BY <2>1, <2>2, <2>3, <2>4, <2>5 DEF VotesInv
  <1>8. ASSUME NEW j, Closed(s, j) PROVE Closed(t, j)
    <2>1. ASSUME NEW v \in Server, Lost(s, v, j) PROVE Lost(t, v, j)
      <3>1. ASSUME t.term[v] = j
            PROVE  t.vote[v] # Nil /\ ~(Runs(t, t.vote[v]) /\ t.term[t.vote[v]] = j)
        <4>1. s.vote[v] # Nil /\ s.vote[v] \in Server /\ ~(Runs(s, s.vote[v]) /\ s.term[s.vote[v]] = j)
          BY <1>1, <2>1, <3>1, VoteFacts DEF Lost
        <4> QED
          BY <1>1, <1>5, <4>1
      <3>2. ASSUME NEW c \in Server, Runs(t, c), t.term[c] = j PROVE v \notin t.votes[c]
        BY <1>1, <1>5, <2>1, <3>2 DEF Lost
      <3> QED
        BY <1>1, <2>1, <3>1, <3>2 DEF Lost
    <2> QED
      BY <1>8, <2>1 DEF Closed
  <1>9. Closed(t, t.term[n])
    <2>1. ASSUME NEW v \in s.votes[n] PROVE Lost(t, v, s.term[n])
      <3>1. s.term[v] > s.term[n] \/ (s.term[v] = s.term[n] /\ s.vote[v] = n)
        BY <1>2, <2>1 DEF VotesInv
      <3>2. v \in Server /\ n # Nil
        BY <2>1, TypeFacts, ReplicationAssumption
      <3>3. s.term[v] \in Nat
        BY <3>2, TypeFacts
      <3>4. s.term[v] >= s.term[n] /\ (s.term[v] = s.term[n] => s.vote[v] = n)
        BY <1>6, <3>1, <3>3, SMT
      <3>5. ASSUME NEW c \in Server, Runs(t, c), t.term[c] = s.term[n] PROVE v \notin t.votes[c]
        <4>1. s.role[c] # "Follower" /\ c # n /\ s.term[c] = s.term[n]
          <5>1. "Candidate" # "Follower"
            OBVIOUS
          <5> QED
            BY <1>1, <1>5, <3>5, <5>1 DEF Runs
        <4>2. s.votes[n] \cap s.votes[c] = {}
          BY <1>2, <4>1 DEF VotesInv
        <4> QED
          BY <1>1, <2>1, <4>2
      <3> QED
        BY <1>1, <1>2, <3>2, <3>4, <3>5 DEF Lost
    <2>2. s.votes[n] \in SUBSET Server
      BY TypeFacts
    <2> QED
      BY <1>1, <1>2, <2>1, <2>2 DEF Closed
  <1>10. ClosedInv(t)
    <2>1. \A q \in Server : Leads(t, q) => Closed(t, t.term[q])
      BY <1>1, <1>3, <1>8, <1>9 DEF ClosedInv
    <2> QED
      BY <1>1, <1>8, <2>1 DEF ClosedInv
  <1>11. ChainsInv(t)
    BY <1>1 DEF ChainsInv
  <1>12. /\ \A x \in Chains(s) : \A i \in DOMAIN x : x[i].Term # s.term[n]
         /\ \A m \in s.sent : m.term # s.term[n]
    BY <1>6 DEF ClosedInv
  <1>13. LeadersInv(t)
    <2>1. Rules(t, n)
      BY <1>1, <1>12 DEF Rules
    <2>2. ASSUME NEW q \in Server, q # n, Leads(t, q) PROVE Rules(t, q)
      <3>1. Rules(s, q)
        BY <1>3, <2>2 DEF LeadersInv
      <3> QED
        BY <1>1, <3>1 DEF Rules
    <2> QED
      BY <2>1, <2>2 DEF LeadersInv
  <1>14. ASSUME NEW a, NEW A, Anchored(s, a, A) PROVE Anchored(t, a, A)
    <2>1. /\ a \in Seq(Entries) /\ Len(a) > 0 /\ A # {} /\ A \subseteq Server
          /\ Closed(s, TermOf(a)) /\ \A v \in A : s.term[v] >= TermOf(a)
      BY <1>14 DEF Anchored
    <2>2. TermOf(a) \in Nat /\ TermOf(a) # s.term[n]
      BY <1>6, <2>1, EndFacts
    <2>3. CASE Passed(s, A, TermOf(a))
      <3>1. Passed(t, A, TermOf(a))
        BY <1>1, <2>3 DEF Passed
      <3> QED
        BY <1>1, <1>8, <2>1, <3>1 DEF Anchored
    <2>4. CASE Kept(s, a, A) /\ s.term[n] > TermOf(a) /\ \A v \in s.votes[n] : v \notin A
      <3>1. ASSUME NEW v \in s.votes[n] PROVE s.term[v] > TermOf(a)
        <4>1. s.term[v] > s.term[n] \/ s.term[v] = s.term[n]
          BY <1>2, <3>1 DEF VotesInv
        <4>2. v \in Server
          BY <3>1, TypeFacts
        <4>3. s.term[v] \in Nat
          BY <4>2, TypeFacts
        <4> QED
          BY <1>6, <2>2, <2>4, <4>1, <4>3, SMT
      <3>2. s.votes[n] \in SUBSET Server
        BY TypeFacts
      <3>3. Passed(t, A, TermOf(a))
        BY <1>1, <1>2, <2>4, <3>1, <3>2 DEF Passed
      <3> QED
        BY <1>1, <1>8, <2>1, <3>3 DEF Anchored
    <2>5. CASE Kept(s, a, A) /\ (s.term[n] > TermOf(a) => \E v \in s.votes[n] : v \in A)
      <3>1. s.term[n] >= TermOf(a) => s.term[n] > TermOf(a)
        BY <1>6, <2>2, SMT
      <3>2. s.term[n] >= TermOf(a) => Has(s.cache[n], a)
        BY <1>2, <2>5, <3>1 DEF Kept
      <3>3. ASSUME NEW c \in Server, Leads(t, c), t.term[c] >= TermOf(a) PROVE Has(t.cache[c], a)
        BY <1>1, <1>3, <2>5, <3>2, <3>3 DEF Kept
      <3>4. ASSUME NEW c \in Server, NEW v \in t.votes[c], Runs(t, c), t.term[c] > TermOf(a), v \in A
            PROVE  Has(t.cache[c], a)
        BY <1>1, <1>5, <2>5, <3>4 DEF Kept
      <3>5. Kept(t, a, A)
        BY <1>1, <2>5, <3>3, <3>4 DEF Kept
      <3> QED
        BY <1>1, <1>8, <2>1, <3>5 DEF Anchored
    <2> QED
      BY <1>14, <2>3, <2>4, <2>5 DEF Anchored
  <1>15. AnchorsInv(t)
    <2> SUFFICES ASSUME NEW q \in Server, Leads(t, q), NEW i \in DOMAIN t.cache[q],
                        t.cache[q][i].Term = t.term[q]
                 PROVE  Anchored(t, SubSeq(t.cache[q], 1, i), Acked(t, q, i))
      BY DEF AnchorsInv
    <2>1. q # n
      <3>1. s.cache[q] \in Chains(s)
        BY CacheFacts
      <3> QED
        BY <1>1, <1>12, <3>1
    <2>2. Anchored(s, SubSeq(s.cache[q], 1, i), Acked(s, q, i))
      BY <1>1, <1>3, <2>1 DEF AnchorsInv
    <2>3. Acked(t, q, i) = Acked(s, q, i)
      <3>1. t.match[q] = s.match[q] /\ t.round = s.round
        BY <1>1, <1>3, <2>1
      <3> QED
        BY <3>1, SMT DEF Acked
    <2> QED
      BY <1>1, <1>14, <2>2, <2>3
  <1>16. CommitInv(t)
    BY <1>1, <1>14, FinalStep DEF CommitInv
  <1>17. ProgressInv(t)
    <2> SUFFICES ASSUME NEW q \in Server, NEW p \in Server, Leads(t, q)
                 PROVE  /\ Confirmed(t, q, p, t.match[q][p])
                        /\ t.next[q][p] <= Len(t.cache[q]) + 1
                        /\ t.match[q][p] > 0 => t.next[q][p] = t.match[q][p] + 1
                        /\ t.round[q][p] # Idle => Truthful(t, q, p, t.round[q][p].reply)
      BY DEF ProgressInv
    <2>1. CASE q = n
      <3>1. t.next[n][p] = Len(s.cache[n]) + 1 /\ t.match[n][p] = 0 /\ s.round[n][p] = Idle
        BY <1>2 DEF Crown, VotesInv
      <3>2. Len(s.cache[n]) \in Nat /\ s.cache[n] \in Seq(Entries)
        BY CacheFacts
      <3>3. /\ ~(0 > 0) /\ 0 <= Len(s.cache[n]) /\ Len(s.cache[n]) + 1 <= Len(s.cache[n]) + 1
        BY <3>2, SMT
      <3>4. Has(s.cache[p], SubSeq(s.cache[n], 1, 0))
        BY <3>2, NothingToHave
      <3>5. Confirmed(t, n, p, 0)
        BY <1>1, <3>3, <3>4 DEF Confirmed
      <3> QED
        BY <1>1, <2>1, <3>1, <3>3, <3>5
    <2>2. CASE q # n
      <3>1. /\ Confirmed(s, q, p, s.match[q][p])
            /\ s.next[q][p] <= Len(s.cache[q]) + 1
            /\ s.match[q][p] > 0 => s.next[q][p] = s.match[q][p] + 1
            /\ s.round[q][p] # Idle => Truthful(s, q, p, s.round[q][p].reply)
        BY <1>3, <2>2 DEF ProgressInv
      <3>2. \A i : Confirmed(s, q, p, i) => Confirmed(t, q, p, i)
        BY <1>1 DEF Confirmed
      <3>3. \A reply : Truthful(s, q, p, reply) => Truthful(t, q, p, reply)
        BY <1>1, <1>3, <2>2, <3>2 DEF Truthful
      <3> QED
        BY <1>1, <1>3, <2>2, <3>1, <3>2, <3>3
    <2> QED
      BY <2>1, <2>2
  <1> QED
    BY <1>7, <1>10, <1>11, <1>13, <1>15, <1>16, <1>17

(***************************************************************************)
(* Leader n writes an entry of its term (AppendLeader).                     *)
(***************************************************************************)

Add(s, t, n) ==
    /\ Leads(s, n)
    /\ Changed(s.cache, t.cache, n,
               Append(s.cache[n], [Index |-> Len(s.cache[n]) + 1, Term |-> s.term[n]]))
    /\ t.sent = s.sent /\ SameElection(s, t) /\ SameCommit(s, t) /\ SameProgress(s, t)

LEMMA HasCarries ==
    ASSUME NEW y, IsChain(y), NEW a \in Seq(Entries), Len(a) > 0, Has(y, a)
    PROVE  Carries(y, a)
  <1>1. Fits(y, a)
    BY HasFits
  <1>2. Len(a) \in DOMAIN a /\ Len(a) \in Nat /\ TermOf(a) \in Nat
    BY EndFacts
  <1>3. Len(a) \in DOMAIN y /\ y[Len(a)].Term = TermOf(a)
    BY <1>2 DEF Has, TermOf
  <1>4. ASSUME NEW i \in DOMAIN y, Above(y[i], a) PROVE i >= Len(a)
    <2>1. y[i] \in Entries /\ y[i].Index = i /\ i \in Nat /\ y[i].Term \in Nat
      BY ChainEntry
    <2>2. y[i].Term > TermOf(a) \/ (y[i].Term = TermOf(a) /\ i >= Len(a))
      BY <1>4, <2>1, AboveFacts
    <2>3. i <= Len(a) => y[i].Term <= TermOf(a)
      BY <1>3 DEF IsChain
    <2> QED
      BY <1>2, <2>1, <2>2, <2>3, SMT
  <1> QED
    BY <1>1, <1>4 DEF Carries

\* Once a later term than k is closed, who has stayed in k or before it can
\* commit nothing there.
LEMMA ClosedPassed ==
    ASSUME NEW s, Types(s), NEW j \in Nat, NEW k \in Nat, j > k, Closed(s, j),
           NEW A, \A v \in A : v \in Server /\ s.term[v] <= k
    PROVE  Passed(s, A, k)
  <1>1. PICK Q \in SUBSET Server : HasQuorum(Config, Q) /\ \A v \in Q : Lost(s, v, j)
    BY DEF Closed
  <1>2. ASSUME NEW v \in Q PROVE v \notin A /\ s.term[v] > k
    <2>1. v \in Server /\ s.term[v] >= j
      BY <1>1 DEF Lost
    <2>2. s.term[v] \in Nat
      BY <2>1, TypeFacts
    <2>3. s.term[v] > k /\ ~(s.term[v] <= k)
      BY <2>1, <2>2, SMT
    <2> QED
      BY <2>3
  <1> QED
    BY <1>1, <1>2 DEF Passed

\* Only n's log changes.
LEMMA OtherChains ==
    ASSUME NEW s, NEW t, NEW n \in Server, t.sent = s.sent,
           \A q \in Server : q # n => t.cache[q] = s.cache[q]
    PROVE  \A x \in Chains(t) : x = t.cache[n] \/ x \in Chains(s)
  <1> SUFFICES ASSUME NEW x \in Chains(t) PROVE x = t.cache[n] \/ x \in Chains(s)
    OBVIOUS
  <1>1. (\E q \in Server : x = t.cache[q]) \/ x \in {Chain(m) : m \in t.sent}
    BY DEF Chains
  <1>2. CASE x \in {Chain(m) : m \in t.sent}
    <2>1. x \in {Chain(m) : m \in s.sent}
      BY <1>2
    <2> QED
      BY <2>1 DEF Chains
  <1>3. ASSUME NEW q \in Server, x = t.cache[q], q # n PROVE x \in Chains(s)
    <2>1. x = s.cache[q]
      BY <1>3
    <2> QED
      BY <2>1 DEF Chains
  <1> QED
    BY <1>1, <1>2, <1>3

\* new is old and an entry of term k.
Longer(new, old, k) ==
    /\ new \in Seq(Entries) /\ Len(new) = Len(old) + 1 /\ Has(new, old)
    /\ new[Len(old) + 1].Term = k /\ new[Len(old) + 1].Index = Len(old) + 1
    /\ \A i \in DOMAIN new : i = Len(old) + 1 \/ (i \in DOMAIN old /\ new[i] = old[i])

LEMMA AddFacts ==
    ASSUME NEW s, NEW t, Types(s), Types(t), NEW n \in Server, Add(s, t, n)
    PROVE  /\ Longer(t.cache[n], s.cache[n], s.term[n])
           /\ \A q \in Server : q # n => t.cache[q] = s.cache[q]
           /\ \A x \in Chains(t) : x = t.cache[n] \/ x \in Chains(s)
  <1>1. /\ s.cache[n] \in Seq(Entries) /\ t.cache[n] \in Seq(Entries) /\ t.sent = s.sent
        /\ \A q \in Server : q # n => t.cache[q] = s.cache[q]
    BY TypeFacts DEF Add, Changed
  <1> DEFINE e == [Index |-> Len(s.cache[n]) + 1, Term |-> s.term[n]]
  <1>2. t.cache[n] = Append(s.cache[n], e)
    BY DEF Add, Changed
  <1>3. e.Index = Len(s.cache[n]) + 1 /\ e.Term = s.term[n]
    OBVIOUS
  <1> HIDE DEF e
  <1>4. /\ Len(t.cache[n]) = Len(s.cache[n]) + 1 /\ t.cache[n][Len(s.cache[n]) + 1] = e
        /\ \A i \in DOMAIN s.cache[n] : i \in DOMAIN t.cache[n] /\ t.cache[n][i] = s.cache[n][i]
        /\ \A i \in DOMAIN t.cache[n] :
              i = Len(s.cache[n]) + 1 \/ (i \in DOMAIN s.cache[n] /\ t.cache[n][i] = s.cache[n][i])
    BY <1>1, <1>2, SMT
  <1>5. Longer(t.cache[n], s.cache[n], s.term[n])
    BY <1>1, <1>3, <1>4 DEF Has, Longer
  <1> QED
    BY <1>1, <1>5, OtherChains

LEMMA AddChains ==
    ASSUME NEW s, NEW t, SafeInv(s), Types(t), NEW n \in Server, Add(s, t, n)
    PROVE  ChainsInv(t)
  <1> USE DEF SafeInv
  <1>1. t.sent = s.sent /\ t.term = s.term /\ Rules(s, n)
    BY DEF Add, SameElection, LeadersInv
  <1> DEFINE old == s.cache[n]
             new == t.cache[n]
  <1>2. /\ new \in Seq(Entries) /\ Has(new, old)
        /\ new[Len(old) + 1].Term = s.term[n] /\ new[Len(old) + 1].Index = Len(old) + 1
        /\ \A i \in DOMAIN new : i = Len(old) + 1 \/ (i \in DOMAIN old /\ new[i] = old[i])
        /\ \A q \in Server : q # n => t.cache[q] = s.cache[q]
        /\ \A x \in Chains(t) : x = new \/ x \in Chains(s)
    <2>1. /\ Longer(new, old, s.term[n])
          /\ \A q \in Server : q # n => t.cache[q] = s.cache[q]
          /\ \A x \in Chains(t) : x = new \/ x \in Chains(s)
      BY AddFacts
    <2> HIDE DEF old, new
    <2> QED
      BY <2>1 DEF Longer
  <1>3. old \in Chains(s) /\ IsChain(old) /\ old \in Seq(Entries) /\ Len(old) \in Nat /\ s.term[n] \in Nat
        /\ \A i : i \in DOMAIN old <=> i \in Nat /\ i > 0 /\ i <= Len(old)
    BY CacheFacts, TypeFacts
  <1> HIDE DEF old, new
  <1>4. \A i \in DOMAIN new : i \in Nat /\ i > 0 /\ new[i] \in Entries /\ new[i].Index = i /\ new[i].Term <= s.term[n]
    <2> SUFFICES ASSUME NEW i \in DOMAIN new
                 PROVE  i \in Nat /\ i > 0 /\ new[i] \in Entries /\ new[i].Index = i /\ new[i].Term <= s.term[n]
      OBVIOUS
    <2>1. i \in Nat /\ i > 0 /\ new[i] \in Entries
      BY <1>2, SeqFacts
    <2>2. s.term[n] <= s.term[n]
      BY <1>3, SMT
    <2>3. CASE i = Len(old) + 1
      BY <1>2, <2>1, <2>2, <2>3
    <2>4. CASE i \in DOMAIN old /\ new[i] = old[i]
      <3>1. old[i].Index = i /\ old[i].Term <= s.term[n]
        BY <1>3, <2>4, ChainEntry DEF ChainsInv, old
      <3> QED
        BY <2>1, <2>4, <3>1
    <2> QED
      BY <1>2, <2>3, <2>4
  <1>5. IsChain(new)
    <2>1. \A i, j \in DOMAIN new : \A k \in i .. j : k \in DOMAIN new
      BY <1>2, SMT
    <2>2. ASSUME NEW i \in DOMAIN new, NEW j \in DOMAIN new, i <= j PROVE new[i].Term <= new[j].Term
      <3>1. CASE j = Len(old) + 1
        BY <1>2, <1>4, <3>1
      <3>2. CASE j \in DOMAIN old /\ new[j] = old[j]
        <4>1. i # Len(old) + 1
          BY <1>3, <1>4, <2>2, <3>2, SMT
        <4>2. i \in DOMAIN old /\ new[i] = old[i]
          BY <1>2, <4>1
        <4> QED
          BY <1>3, <2>2, <3>2, <4>2 DEF IsChain
      <3> QED
        BY <1>2, <3>1, <3>2
    <2> QED
      BY <1>4, <2>1, <2>2 DEF IsChain
  <1>6. ASSUME NEW x \in Chains(s) PROVE Match(new, x)
    <2> SUFFICES ASSUME NEW i \in DOMAIN new \cap DOMAIN x, NEW j \in DOMAIN new \cap DOMAIN x,
                        j <= i, new[i] = x[i]
                 PROVE  new[j] = x[j]
      BY DEF Match
    <2>1. i # Len(old) + 1
      <3> SUFFICES ASSUME i = Len(old) + 1 PROVE FALSE
        OBVIOUS
      <3>1. x[i].Term = s.term[n]
        BY <1>2
      <3>2. i \in DOMAIN old
        BY <1>1, <3>1 DEF Rules, old
      <3> QED
        BY <1>3, <3>2, SMT
    <2>2. i \in DOMAIN old /\ new[i] = old[i]
      BY <1>2, <2>1
    <2>3. j # Len(old) + 1
      BY <1>3, <1>4, <2>2, SMT
    <2>4. j \in DOMAIN old /\ new[j] = old[j]
      BY <1>2, <2>3
    <2>5. Match(old, x)
      BY <1>3 DEF ChainsInv
    <2> QED
      BY <2>2, <2>4, <2>5 DEF Match
  <1>7. \A x, y \in Chains(t) : Match(x, y)
    <2>1. Match(new, new)
      BY DEF Match
    <2>2. \A x \in Chains(s) : Match(x, new)
      BY <1>6, SymmetricMatch
    <2> QED
      BY <1>2, <1>6, <2>1, <2>2 DEF ChainsInv
  <1>8. \A q \in Server : \A i \in DOMAIN t.cache[q] : t.cache[q][i].Term <= t.term[q]
    BY <1>1, <1>2, <1>4 DEF ChainsInv, new
  <1>9. \A x \in Chains(t) : IsChain(x)
    BY <1>2, <1>5 DEF ChainsInv
  <1> QED
    BY <1>1, <1>7, <1>8, <1>9 DEF ChainsInv

LEMMA SameClosed ==
    ASSUME NEW s, NEW t, SameElection(s, t)
    PROVE  /\ \A k : Closed(s, k) => Closed(t, k)
           /\ \A n : (Leads(t, n) <=> Leads(s, n)) /\ (Runs(t, n) <=> Runs(s, n))
           /\ t.term = s.term /\ t.votes = s.votes /\ t.role = s.role
           /\ \A A, k : Passed(s, A, k) => Passed(t, A, k)
  <1>1. t.term = s.term /\ t.vote = s.vote /\ t.role = s.role /\ t.votes = s.votes
    BY DEF SameElection
  <1>2. \A n : (Leads(t, n) <=> Leads(s, n)) /\ (Runs(t, n) <=> Runs(s, n))
    BY <1>1 DEF Leads, Runs
  <1>3. \A v, k : Lost(s, v, k) => Lost(t, v, k)
    BY <1>1, <1>2 DEF Lost
  <1> QED
    BY <1>1, <1>2, <1>3 DEF Closed, Passed

LEMMA SameVotes ==
    ASSUME NEW s, NEW t, VotesInv(s), SameElection(s, t),
           \A q \in Server : Runs(s, q) => t.cache[q] = s.cache[q] /\ t.round[q] = s.round[q]
    PROVE  VotesInv(t)
  <1>1. /\ t.term = s.term /\ t.vote = s.vote /\ t.votes = s.votes /\ t.ends = s.ends
        /\ t.role = s.role /\ \A q : (Leads(t, q) <=> Leads(s, q)) /\ (Runs(t, q) <=> Runs(s, q))
    BY SameClosed DEF SameElection
  <1>2. ASSUME NEW q \in Server, Runs(t, q)
        PROVE  /\ t.ends[q].lastLogIndex = Len(t.cache[q])
               /\ t.ends[q].lastLogTerm = EndTerm(t.cache[q])
               /\ \A p \in Server : t.round[q][p] = Idle
    <2>1. t.cache[q] = s.cache[q] /\ t.round[q] = s.round[q] /\ Runs(s, q)
      BY <1>1, <1>2
    <2>2. /\ s.ends[q].lastLogIndex = Len(s.cache[q])
          /\ s.ends[q].lastLogTerm = EndTerm(s.cache[q])
          /\ \A p \in Server : s.round[q][p] = Idle
      BY <2>1 DEF VotesInv
    <2> QED
      BY <1>1, <2>1, <2>2
  <1>3. /\ \A q \in Server : t.ends[q].term <= t.term[q]
        /\ \A q \in Server : t.vote[q] # Nil => t.term[t.vote[q]] >= t.term[q]
        /\ \A q \in Server : Leads(t, q) => HasQuorum(Config, t.votes[q])
    BY <1>1 DEF VotesInv
  <1>4. ASSUME NEW q \in Server, t.role[q] # "Follower"
        PROVE  /\ t.ends[q].term = t.term[q] /\ t.term[q] > 0
               /\ \A v \in t.votes[q] :
                     t.term[v] > t.term[q] \/ (t.term[v] = t.term[q] /\ t.vote[v] = q)
    <2>1. /\ s.ends[q].term = s.term[q] /\ s.term[q] > 0
          /\ \A v \in s.votes[q] :
                s.term[v] > s.term[q] \/ (s.term[v] = s.term[q] /\ s.vote[v] = q)
      BY <1>1, <1>4 DEF VotesInv
    <2> QED
      BY <1>1, <2>1
  <1>5. ASSUME NEW q \in Server, NEW c \in Server, q # c, t.term[q] = t.term[c],
               t.role[q] # "Follower", t.role[c] # "Follower"
        PROVE  t.votes[q] \cap t.votes[c] = {}
    <2>1. s.votes[q] \cap s.votes[c] = {}
      BY <1>1, <1>5 DEF VotesInv
    <2> QED
      BY <1>1, <2>1
  <1> QED
    BY <1>2, <1>3, <1>4, <1>5 DEF VotesInv

LEMMA AddAnchored ==
    ASSUME NEW s, NEW t, SafeInv(s), Types(t), NEW n \in Server, Add(s, t, n),
           NEW a, NEW A, Anchored(s, a, A)
    PROVE  Anchored(t, a, A)
  <1> USE DEF SafeInv
  <1>1. /\ t.sent = s.sent /\ Leads(s, n) /\ SameElection(s, t) /\ t.term = s.term /\ t.votes = s.votes
        /\ \A q : (Leads(t, q) <=> Leads(s, q)) /\ (Runs(t, q) <=> Runs(s, q))
    BY SameClosed DEF Add
  <1>2. /\ Has(t.cache[n], s.cache[n])
        /\ \A q \in Server : q # n => t.cache[q] = s.cache[q]
        /\ \A x \in Chains(t) : x = t.cache[n] \/ x \in Chains(s)
    <2>1. /\ Longer(t.cache[n], s.cache[n], s.term[n])
          /\ \A q \in Server : q # n => t.cache[q] = s.cache[q]
          /\ \A x \in Chains(t) : x = t.cache[n] \/ x \in Chains(s)
      BY AddFacts
    <2> QED
      BY <2>1 DEF Longer
  <1>3. /\ a \in Seq(Entries) /\ Len(a) > 0 /\ A # {} /\ A \subseteq Server
        /\ Closed(s, TermOf(a)) /\ \A v \in A : s.term[v] >= TermOf(a)
    BY DEF Anchored
  <1>4. CASE Kept(s, a, A)
    <2>1. ASSUME NEW q \in Server, NEW b, Has(s.cache[q], b) PROVE Has(t.cache[q], b)
      <3>1. CASE q = n
        BY <1>2, <2>1, <3>1, PartFits
      <3> QED
        BY <1>2, <2>1, <3>1
    <2>2. Carries(t.cache[n], a)
      <3>1. ChainsInv(t)
        BY AddChains
      <3>2. /\ IsChain(t.cache[n])
            /\ \A i \in DOMAIN t.cache[n] : t.cache[n][i].Term <= s.term[n]
        BY <1>1, <3>1, CacheFacts DEF ChainsInv
      <3>3. CASE s.term[n] >= TermOf(a)
        <4>1. Has(s.cache[n], a)
          BY <1>1, <1>4, <3>3 DEF Kept
        <4> QED
          BY <1>3, <2>1, <3>2, <4>1, HasCarries
      <3>4. CASE ~(s.term[n] >= TermOf(a))
        <4>1. ASSUME NEW i \in DOMAIN t.cache[n] PROVE ~Above(t.cache[n][i], a)
          <5>1. t.cache[n][i] \in Entries /\ t.cache[n][i].Term \in Nat /\ t.cache[n][i].Term <= s.term[n]
            BY <3>2, ChainEntry
          <5>2. s.term[n] \in Nat /\ TermOf(a) \in Nat
            BY <1>3, EndFacts, TypeFacts
          <5>3. ~(t.cache[n][i].Term >= TermOf(a))
            BY <3>4, <5>1, <5>2, SMT
          <5> QED
            BY <1>3, <5>1, <5>3, AboveFacts
        <4> QED
          BY <4>1 DEF Carries
      <3> QED
        BY <3>3, <3>4
    <2>3. Kept(t, a, A)
      <3>1. \A v \in A : Has(t.cache[v], a)
        BY <1>3, <1>4, <2>1 DEF Kept
      <3>2. \A x \in Chains(t) : Carries(x, a)
        BY <1>2, <1>4, <2>2 DEF Kept
      <3>3. \A m \in t.sent : m.term >= TermOf(a) => Fits(Chain(m), a)
        BY <1>1, <1>4 DEF Kept
      <3>4. \A c \in Server : Leads(t, c) /\ t.term[c] >= TermOf(a) => Has(t.cache[c], a)
        BY <1>1, <1>4, <2>1 DEF Kept
      <3>5. \A c \in Server : \A v \in t.votes[c] :
               Runs(t, c) /\ t.term[c] > TermOf(a) /\ v \in A => Has(t.cache[c], a)
        BY <1>1, <1>4, <2>1 DEF Kept
      <3> QED
        BY <3>1, <3>2, <3>3, <3>4, <3>5 DEF Kept
    <2> QED
      BY <1>1, <1>3, <2>3, SameClosed DEF Anchored
  <1>5. CASE Passed(s, A, TermOf(a))
    BY <1>1, <1>3, <1>5, SameClosed DEF Anchored
  <1> QED
    BY <1>4, <1>5 DEF Anchored

\* A new entry is the leader's alone.
LEMMA NewAnchor ==
    ASSUME NEW s, NEW t, SafeInv(s), Types(t), NEW n \in Server, Add(s, t, n), ChainsInv(t)
    PROVE  Anchored(t, t.cache[n], {n})
  <1> USE DEF SafeInv
  <1>1. /\ t.sent = s.sent /\ Leads(s, n) /\ SameElection(s, t) /\ t.term = s.term /\ t.votes = s.votes
        /\ \A q : (Leads(t, q) <=> Leads(s, q)) /\ (Runs(t, q) <=> Runs(s, q))
        /\ \A k : Closed(s, k) => Closed(t, k)
    BY SameClosed DEF Add
  <1> DEFINE a == t.cache[n]
             k == s.term[n]
  <1>2. /\ \A q \in Server : q # n => t.cache[q] = s.cache[q]
        /\ \A x \in Chains(t) : x = a \/ x \in Chains(s)
        /\ Longer(a, s.cache[n], k)
    BY AddFacts, ZenonT(40)
  <1>3. /\ a \in Seq(Entries) /\ Len(a) = Len(s.cache[n]) + 1 /\ Has(a, s.cache[n])
        /\ a[Len(s.cache[n]) + 1].Term = k
    BY <1>2 DEF Longer
  <1>4. Len(s.cache[n]) \in Nat /\ IsChain(a) /\ k \in Nat
        /\ \A i : i \in DOMAIN s.cache[n] <=> i \in Nat /\ i > 0 /\ i <= Len(s.cache[n])
    BY CacheFacts, TypeFacts
  <1>5. Rules(s, n) /\ Closed(s, k)
    BY <1>1 DEF LeadersInv, ClosedInv
  <1> HIDE DEF a, k
  <1>6. Len(a) > 0 /\ TermOf(a) = k /\ Len(a) > Len(s.cache[n])
    <2>1. Len(a) > 0 /\ Len(a) > Len(s.cache[n])
      BY <1>3, <1>4, SMT
    <2> QED
      BY <1>3, <2>1 DEF TermOf
  <1>7. ASSUME NEW i \in DOMAIN s.cache[n] PROVE i < Len(a) /\ ~(i >= Len(a)) /\ i \in Nat
    BY <1>3, <1>4, SMT
  <1>8. k >= k /\ k <= k
    BY <1>4, SMT
  <1>9. ASSUME NEW j \in Nat, j > k, Closed(s, j) PROVE Passed(t, {n}, k)
    <2>1. \A v \in {n} : v \in Server /\ s.term[v] <= k
      BY <1>8 DEF k
    <2> QED
      BY <1>1, <1>4, <1>9, <2>1, ClosedPassed, SameClosed
  <1>10. ASSUME \A j \in Nat : j > k => ~Closed(s, j) PROVE Kept(t, a, {n})
    <2>1. Has(a, a)
      BY DEF Has
    <2>2. Carries(a, a)
      BY <1>3, <1>4, <1>6, <2>1, HasCarries
    <2>3. ASSUME NEW x \in Chains(s), NEW i \in DOMAIN x PROVE ~Above(x[i], a)
      <3>1. x[i] \in Entries /\ x[i].Term \in Nat /\ x[i].Index = i /\ Closed(s, x[i].Term)
        BY ChainEntry DEF ChainsInv, ClosedInv
      <3>2. ~(x[i].Term > k)
        BY <1>10, <3>1
      <3>3. x[i].Term = k => ~(i >= Len(a))
        BY <1>5, <1>7 DEF Rules, k
      <3> QED
        BY <1>3, <1>6, <3>1, <3>2, <3>3, AboveFacts
    <2>4. \A x \in Chains(t) : Carries(x, a)
      BY <1>2, <2>2, <2>3 DEF Carries
    <2>5. ASSUME NEW m \in t.sent, m.term >= TermOf(a) PROVE Fits(Chain(m), a)
      <3>1. m \in s.sent /\ MessageShape(m) /\ Closed(s, m.term)
        BY <1>1 DEF ChainsInv, ClosedInv
      <3>2. m.term \in Nat
        BY <3>1, ChainFacts
      <3>3. ~(m.term > k)
        BY <1>10, <3>1, <3>2
      <3>4. m.term = k
        BY <1>4, <1>6, <2>5, <3>2, <3>3, SMT
      <3>5. Has(s.cache[n], Chain(m))
        BY <1>5, <3>1, <3>4 DEF Rules, k
      <3> QED
        BY <1>3, <1>7, <3>5 DEF Has, Fits
    <2>6. ASSUME NEW c \in Server, Leads(t, c), t.term[c] >= TermOf(a) PROVE Has(t.cache[c], a)
      <3>1. Closed(s, s.term[c]) /\ s.term[c] \in Nat /\ s.term[c] >= k /\ Leads(s, c)
        BY <1>1, <1>6, <2>6, TypeFacts DEF ClosedInv
      <3>2. ~(s.term[c] > k)
        BY <1>10, <3>1
      <3>3. s.term[c] = s.term[n]
        BY <1>4, <3>1, <3>2, SMT DEF k
      <3>4. c = n
        BY <1>1, <3>1, <3>3, OneLeader
      <3> QED
        BY <2>1, <3>4 DEF a
    <2>7. ASSUME NEW c \in Server, Runs(t, c), t.term[c] > TermOf(a), n \in t.votes[c]
          PROVE  FALSE
      <3>1. s.role[c] # "Follower" /\ n \in s.votes[c] /\ s.term[c] > k
        <4>1. "Candidate" # "Follower"
          OBVIOUS
        <4> QED
          BY <1>1, <1>6, <2>7, <4>1 DEF Runs
      <3>2. s.term[n] > s.term[c] \/ s.term[n] = s.term[c]
        BY <3>1 DEF VotesInv
      <3>3. s.term[c] \in Nat
        BY TypeFacts
      <3> QED
        BY <1>4, <3>1, <3>2, <3>3, SMT DEF k
    <2> QED
      BY <2>1, <2>4, <2>5, <2>6, <2>7 DEF Kept, a
  <1>11. Passed(t, {n}, k) \/ Kept(t, a, {n})
    BY <1>9, <1>10
  <1>12. Anchored(t, a, {n})
    <2>1. {n} # {} /\ {n} \subseteq Server
      OBVIOUS
    <2>2. Closed(t, TermOf(a)) /\ \A v \in {n} : t.term[v] >= TermOf(a)
      BY <1>1, <1>5, <1>6, <1>8 DEF k
    <2> QED
      BY <1>3, <1>6, <1>11, <2>1, <2>2 DEF Anchored
  <1> QED
    BY <1>12 DEF a

\* A log that has another begins as it does.
LEMMA LongerPrefix ==
    ASSUME NEW c \in Seq(Entries), NEW d \in Seq(Entries), Has(d, c), NEW i \in Nat, i <= Len(c)
    PROVE  SubSeq(d, 1, i) = SubSeq(c, 1, i) /\ i <= Len(d) /\ Len(c) <= Len(d)
  <1>1. \A j \in 1 .. Len(c) : j \in 1 .. Len(d) /\ d[j] = c[j]
    BY SeqFacts, SMT DEF Has
  <1>2. Len(c) \in Nat /\ Len(d) \in Nat
    BY SMT
  <1>3. Len(c) <= Len(d)
    BY <1>1, <1>2, SMT
  <1>4. \A j \in 1 .. i : d[j] = c[j]
    BY <1>1, <1>2, SMT
  <1> QED
    BY <1>2, <1>3, <1>4, SMT

LEMMA ConfirmedGrows ==
    ASSUME NEW s, NEW t, Types(s), Types(t), NEW n \in Server, NEW p \in Server, NEW i \in Nat,
           Has(t.cache[n], s.cache[n]), \A b : Has(s.cache[p], b) => Has(t.cache[p], b),
           t.term = s.term, Confirmed(s, n, p, i)
    PROVE  Confirmed(t, n, p, i)
  <1>1. s.cache[n] \in Seq(Entries) /\ t.cache[n] \in Seq(Entries)
    BY TypeFacts
  <1>2. i <= Len(s.cache[n])
    BY DEF Confirmed
  <1>3. SubSeq(t.cache[n], 1, i) = SubSeq(s.cache[n], 1, i) /\ i <= Len(t.cache[n])
    <2>1. SubSeq(t.cache[n], 1, i) = SubSeq(s.cache[n], 1, i)
      BY <1>1, <1>2, LongerPrefix
    <2>2. i <= Len(t.cache[n])
      BY <1>1, <1>2, LongerPrefix
    <2> QED
      BY <2>1, <2>2
  <1>4. /\ i > 0 => s.term[p] >= s.term[n]
        /\ s.term[p] = s.term[n] => Has(s.cache[p], SubSeq(s.cache[n], 1, i))
    BY DEF Confirmed
  <1> QED
    BY <1>3, <1>4 DEF Confirmed

\* An entry past the end of n's log nobody has confirmed.
LEMMA NobodyYet ==
    ASSUME NEW s, Types(s), ProgressInv(s), NEW n \in Server, Leads(s, n), NEW i \in Nat,
           i > Len(s.cache[n]), Len(s.cache[n]) \in Nat
    PROVE  Acked(s, n, i) = {n}
  <1>1. ASSUME NEW p \in Server PROVE ~(s.match[n][p] >= i)
    <2>1. s.match[n][p] <= Len(s.cache[n])
      BY DEF ProgressInv, Confirmed
    <2>2. s.match[n][p] \in Nat
      BY TypeFacts
    <2> QED
      BY <2>1, <2>2, SMT
  <1>2. ASSUME NEW p \in Server, s.round[n][p].at = "answered", s.round[n][p].reply.success
        PROVE  ~(s.round[n][p].reply.index >= i)
    <2>1. s.round[n][p] # Idle
      BY <1>2, SMT DEF Idle
    <2>2. s.round[n][p].reply.index <= Len(s.cache[n])
      <3>1. Truthful(s, n, p, s.round[n][p].reply)
        BY <2>1 DEF ProgressInv
      <3> QED
        BY <1>2, <3>1 DEF Truthful, Confirmed
    <2>3. s.round[n][p].reply.index \in Nat
      BY <2>1, ReplyFacts
    <2> QED
      BY <2>2, <2>3, SMT
  <1> QED
    BY <1>1, <1>2 DEF Acked

LEMMA AddStep ==
    ASSUME NEW s, NEW t, SafeInv(s), Types(t), NEW n \in Server, Add(s, t, n)
    PROVE  SafeInv(t)
  <1> USE DEF SafeInv
  <1>1. /\ t.term = s.term /\ t.vote = s.vote /\ t.votes = s.votes /\ t.ends = s.ends
        /\ t.role = s.role /\ t.sent = s.sent /\ t.chosen = s.chosen /\ t.commit = s.commit
        /\ t.next = s.next /\ t.match = s.match /\ t.round = s.round
        /\ Leads(s, n) /\ SameElection(s, t)
    BY DEF Add, SameElection, SameCommit, SameProgress
  <1>2. /\ \A q : (Leads(t, q) <=> Leads(s, q)) /\ (Runs(t, q) <=> Runs(s, q))
        /\ \A k : Closed(s, k) => Closed(t, k)
    BY <1>1, SameClosed
  <1>3. /\ Longer(t.cache[n], s.cache[n], s.term[n])
        /\ \A q \in Server : q # n => t.cache[q] = s.cache[q]
        /\ \A x \in Chains(t) : x = t.cache[n] \/ x \in Chains(s)
    BY AddFacts
  <1>4. /\ Has(t.cache[n], s.cache[n]) /\ t.cache[n] \in Seq(Entries)
        /\ Len(t.cache[n]) = Len(s.cache[n]) + 1
        /\ \A i \in DOMAIN t.cache[n] :
              \/ i = Len(t.cache[n]) /\ t.cache[n][i].Term = s.term[n]
              \/ i \in DOMAIN s.cache[n] /\ t.cache[n][i] = s.cache[n][i]
    BY <1>3 DEF Longer
  <1>5. ASSUME NEW q \in Server PROVE Has(t.cache[q], s.cache[q])
    BY <1>3, <1>4 DEF Has
  <1>6. ASSUME NEW q \in Server, NEW b, Has(s.cache[q], b) PROVE Has(t.cache[q], b)
    BY <1>5, <1>6, PartFits
  <1>7. Runs(s, n) => FALSE
    <2>1. "Candidate" # "Leader"
      OBVIOUS
    <2> QED
      BY <1>1, <2>1 DEF Leads, Runs
  <1>8. VotesInv(t)
    <2>1. \A q \in Server : Runs(s, q) => t.cache[q] = s.cache[q]
      BY <1>3, <1>7
    <2> QED
      BY <1>1, <2>1, SameVotes
  <1>9. ClosedInv(t)
    <2>1. Closed(s, s.term[n]) /\ s.cache[n] \in Chains(s)
      BY <1>1, CacheFacts DEF ClosedInv
    <2>2. \A i \in DOMAIN t.cache[n] : Closed(t, t.cache[n][i].Term)
      BY <1>2, <1>4, <2>1 DEF ClosedInv
    <2>3. \A x \in Chains(t) : \A i \in DOMAIN x : Closed(t, x[i].Term)
      BY <1>2, <1>3, <2>2 DEF ClosedInv
    <2> QED
      BY <1>1, <1>2, <2>3 DEF ClosedInv
  <1>10. ChainsInv(t)
    BY AddChains
  <1>11. LeadersInv(t)
    <2> SUFFICES ASSUME NEW q \in Server, Leads(t, q) PROVE Rules(t, q)
      BY DEF LeadersInv
    <2>1. Rules(s, q) /\ Leads(s, q)
      BY <1>2 DEF LeadersInv
    <2>2. ASSUME NEW x \in Chains(s), NEW i \in DOMAIN x, x[i].Term = s.term[q]
          PROVE  i \in DOMAIN t.cache[q] /\ t.cache[q][i] = x[i]
      <3>1. i \in DOMAIN s.cache[q] /\ s.cache[q][i] = x[i]
        BY <2>1, <2>2 DEF Rules
      <3>2. Has(t.cache[q], s.cache[q])
        BY <1>5
      <3> QED
        BY <3>1, <3>2 DEF Has
    <2>3. ASSUME NEW i \in DOMAIN t.cache[n], t.cache[n][i].Term = s.term[q]
          PROVE  i \in DOMAIN t.cache[q] /\ t.cache[q][i] = t.cache[n][i]
      <3>1. CASE t.cache[n][i].Term = s.term[n]
        <4>1. q = n
          BY <1>1, <2>1, <2>3, <3>1, OneLeader
        <4> QED
          BY <4>1
      <3>2. CASE i \in DOMAIN s.cache[n] /\ t.cache[n][i] = s.cache[n][i]
        <4>1. s.cache[n] \in Chains(s)
          BY CacheFacts
        <4> QED
          BY <2>2, <2>3, <3>2, <4>1
      <3> QED
        BY <1>4, <3>1, <3>2
    <2>4. \A m \in t.sent : m.term = t.term[q] => Has(t.cache[q], Chain(m))
      BY <1>1, <1>6, <2>1 DEF Rules
    <2> QED
      BY <1>1, <1>3, <2>2, <2>3, <2>4, ZenonT(40) DEF Rules
  <1>12. ASSUME NEW a, NEW A, Anchored(s, a, A) PROVE Anchored(t, a, A)
    BY <1>12, AddAnchored
  <1>13. Len(s.cache[n]) \in Nat /\ s.cache[n] \in Seq(Entries)
    BY CacheFacts
  <1>14. ProgressInv(t)
    <2> SUFFICES ASSUME NEW q \in Server, NEW p \in Server, Leads(t, q)
                 PROVE  /\ Confirmed(t, q, p, t.match[q][p])
                        /\ t.next[q][p] <= Len(t.cache[q]) + 1
                        /\ t.match[q][p] > 0 => t.next[q][p] = t.match[q][p] + 1
                        /\ t.round[q][p] # Idle => Truthful(t, q, p, t.round[q][p].reply)
      BY DEF ProgressInv
    <2>1. /\ Confirmed(s, q, p, s.match[q][p])
          /\ s.next[q][p] <= Len(s.cache[q]) + 1
          /\ s.match[q][p] > 0 => s.next[q][p] = s.match[q][p] + 1
          /\ s.round[q][p] # Idle => Truthful(s, q, p, s.round[q][p].reply)
      BY <1>2 DEF ProgressInv
    <2>2. ASSUME NEW i \in Nat, Confirmed(s, q, p, i) PROVE Confirmed(t, q, p, i)
      BY <1>1, <1>5, <1>6, <2>2, ConfirmedGrows
    <2>3. s.match[q][p] \in Nat /\ s.next[q][p] \in Nat
      BY TypeFacts
    <2>4. t.next[q][p] <= Len(t.cache[q]) + 1
      <3>1. CASE q = n
        BY <1>1, <1>4, <1>13, <2>1, <2>3, <3>1, StillBelow
      <3>2. CASE q # n
        BY <1>1, <1>3, <2>1, <3>2
      <3> QED
        BY <3>1, <3>2, ZenonT(40)
    <2>5. ASSUME s.round[q][p] # Idle PROVE Truthful(t, q, p, s.round[q][p].reply)
      <3>1. s.round[q][p].reply.index \in Nat /\ Truthful(s, q, p, s.round[q][p].reply)
        BY <2>1, <2>5, ReplyFacts
      <3> QED
        BY <1>1, <2>2, <3>1 DEF Truthful
    <2> QED
      BY <1>1, <2>1, <2>2, <2>3, <2>4, <2>5
  <1>15. AnchorsInv(t)
    <2> SUFFICES ASSUME NEW q \in Server, Leads(t, q), NEW i \in DOMAIN t.cache[q],
                        t.cache[q][i].Term = t.term[q]
                 PROVE  Anchored(t, SubSeq(t.cache[q], 1, i), Acked(t, q, i))
      BY DEF AnchorsInv
    <2>1. CASE i \in DOMAIN s.cache[q] /\ t.cache[q][i] = s.cache[q][i]
      <3>1. Anchored(s, SubSeq(s.cache[q], 1, i), Acked(s, q, i))
        BY <1>1, <1>2, <2>1 DEF AnchorsInv
      <3>2. Acked(t, q, i) = Acked(s, q, i)
        BY <1>1 DEF Acked
      <3>3. s.cache[q] \in Seq(Entries) /\ t.cache[q] \in Seq(Entries) /\ Has(t.cache[q], s.cache[q])
        BY <1>5, TypeFacts
      <3>4. i \in Nat /\ i <= Len(s.cache[q])
        BY <2>1, <3>3, SeqFacts
      <3>5. SubSeq(t.cache[q], 1, i) = SubSeq(s.cache[q], 1, i)
        BY <3>3, <3>4, LongerPrefix
      <3> QED
        BY <1>12, <3>1, <3>2, <3>5
    <2>2. CASE q = n /\ i = Len(t.cache[n])
      <3>1. Anchored(t, t.cache[n], {n})
        BY <1>10, NewAnchor
      <3>2. i \in Nat /\ i > Len(s.cache[n])
        BY <1>4, <1>13, <2>2, SMT
      <3>3. Acked(s, n, i) = {n}
        BY <1>1, <1>13, <3>2, NobodyYet
      <3>4. Acked(t, n, i) = Acked(s, n, i)
        BY <1>1 DEF Acked
      <3>5. SubSeq(t.cache[n], 1, Len(t.cache[n])) = t.cache[n]
        BY <1>4, SMT
      <3> QED
        BY <2>2, <3>1, <3>3, <3>4, <3>5
    <2> QED
      BY <1>3, <1>4, <2>1, <2>2
  <1>16. CommitInv(t)
    <2>1. /\ \A a : Decided(s, a) => Decided(t, a)
          /\ \A c, k : Final(s, c, k) => Final(t, c, k)
      BY <1>1, <1>12, FinalStep
    <2> QED
      BY <1>1, <1>6, <2>1 DEF CommitInv
  <1> QED
    BY <1>8, <1>9, <1>10, <1>11, <1>14, <1>15, <1>16

(***************************************************************************)
(* Follower p takes the batch of a request of its term (the splice of       *)
(* AppendEntriesToLog).                                                     *)
(***************************************************************************)

Take(s, t, p, m) ==
    /\ s.role[p] = "Follower" /\ s.term[p] = m.term /\ m \in s.sent
    /\ m.prevLogIndex > 0 => /\ m.prevLogIndex \in DOMAIN s.cache[p]
                             /\ s.cache[p][m.prevLogIndex] = Chain(m)[m.prevLogIndex]
    /\ Takes(t.cache[p], s.cache[p], m)
    /\ \A q \in Server : q # p => t.cache[q] = s.cache[q]
    /\ t.sent = s.sent /\ SameElection(s, t) /\ SameCommit(s, t) /\ SameProgress(s, t)

\* x and b do not differ; each entry of new is one of x or of old.
Agrees(x, b) == \A i \in DOMAIN x : i <= Len(b) => x[i] = b[i]
Mixed(new, x, old) ==
    \A i \in DOMAIN new : (i \in DOMAIN x /\ new[i] = x[i]) \/ (i \in DOMAIN old /\ new[i] = old[i])

LEMMA SentChain ==
    ASSUME NEW s, ChainsInv(s), NEW m \in s.sent
    PROVE  MessageShape(m) /\ Chain(m) \in Chains(s) /\ IsChain(Chain(m))
  <1>1. Chain(m) \in Chains(s)
    BY DEF Chains
  <1> QED
    BY <1>1 DEF ChainsInv

\* What becomes of p's log.
LEMMA TakeFacts ==
    ASSUME NEW s, NEW t, Types(s), Types(t), ChainsInv(s), NEW p \in Server, NEW m, Take(s, t, p, m)
    PROVE  /\ IsChain(t.cache[p]) /\ \A y \in Chains(s) : Match(t.cache[p], y)
           /\ Mixed(t.cache[p], Chain(m), s.cache[p])
           /\ \A a \in Seq(Entries) : \A y \in Chains(s) :
                 Len(a) > 0 /\ Carries(s.cache[p], a) /\ Carries(Chain(m), a) /\ Has(y, a)
                     => Carries(t.cache[p], a)
  <1>1. MessageShape(m) /\ Chain(m) \in Chains(s) /\ IsChain(Chain(m))
    BY SentChain DEF Take
  <1> DEFINE old == s.cache[p]
             new == t.cache[p]
             x == Chain(m)
             k == m.prevLogIndex
  <1>2. old \in Chains(s) /\ IsChain(old) /\ new \in Seq(Entries)
    BY CacheFacts, TypeFacts
  <1>3. /\ Takes(new, old, m)
        /\ m.prevLogIndex > 0 => m.prevLogIndex \in DOMAIN old /\ old[m.prevLogIndex] = Chain(m)[m.prevLogIndex]
    BY DEF Take
  <1> HIDE DEF old, new
  <1>5. new = old \/ Joins(new, old, x, k)
    BY <1>1, <1>2, <1>3, TakesJoins
  <1> HIDE DEF x, k
  <1>6. /\ x \in Chains(s) /\ IsChain(x) /\ \A y \in Chains(s) : IsChain(y) /\ Match(old, y) /\ Match(x, y)
    BY <1>1, <1>2 DEF ChainsInv, x
  <1>7. CASE new = old
    BY <1>2, <1>6, <1>7 DEF x, old, new, Mixed
  <1>8. CASE Joins(new, old, x, k)
    <2>1. IsChain(new)
      BY <1>2, <1>6, <1>8, JoinChain
    <2>2. \A y \in Chains(s) : Match(new, y)
      BY <1>6, <1>8, <2>1, JoinMatch
    <2>3. Mixed(new, x, old)
      BY <1>8 DEF Joins, Mixed
    <2>4. ASSUME NEW a \in Seq(Entries), NEW y \in Chains(s),
                 Len(a) > 0, Carries(old, a), Carries(x, a), Has(y, a)
          PROVE  Carries(new, a)
      BY <1>2, <1>6, <1>8, <2>1, <2>4, JoinCarries
    <2> QED
      BY <2>1, <2>2, <2>3, <2>4 DEF x, old, new
  <1> QED
    BY <1>5, <1>7, <1>8

LEMMA TakeHas ==
    ASSUME NEW s, NEW t, Types(t), ChainsInv(s), NEW p \in Server, NEW m, Take(s, t, p, m),
           NEW b \in Seq(Entries), Has(s.cache[p], b), Agrees(Chain(m), b)
    PROVE  Has(t.cache[p], b)
  <1>1. MessageShape(m) /\ Takes(t.cache[p], s.cache[p], m)
    BY SentChain DEF Take
  <1>2. t.cache[p] \in Seq(Entries)
    BY TypeFacts
  <1>3. \A i \in DOMAIN Chain(m) : i <= Len(b) => Chain(m)[i] = b[i]
    BY DEF Agrees
  <1> QED
    BY <1>1, <1>2, <1>3, TakesKeeps

LEMMA TakeAnchored ==
    ASSUME NEW s, NEW t, SafeInv(s), Types(t), NEW p \in Server, NEW m, Take(s, t, p, m),
           NEW a, NEW A, Anchored(s, a, A)
    PROVE  Anchored(t, a, A)
  <1> USE DEF SafeInv
  <1>1. /\ t.sent = s.sent /\ SameElection(s, t) /\ t.term = s.term /\ t.votes = s.votes
        /\ \A q : (Leads(t, q) <=> Leads(s, q)) /\ (Runs(t, q) <=> Runs(s, q))
        /\ \A q \in Server : q # p => t.cache[q] = s.cache[q]
        /\ m \in s.sent /\ m.term = s.term[p]
    BY SameClosed DEF Take
  <1>2. ~Leads(s, p) /\ ~Runs(s, p)
    <2>1. "Candidate" # "Follower" /\ "Leader" # "Follower"
      OBVIOUS
    <2> QED
      BY <2>1 DEF Take, Leads, Runs
  <1>3. /\ a \in Seq(Entries) /\ Len(a) > 0 /\ A # {} /\ A \subseteq Server
        /\ Closed(s, TermOf(a)) /\ \A v \in A : s.term[v] >= TermOf(a)
    BY DEF Anchored
  <1>4. CASE Passed(s, A, TermOf(a))
    BY <1>1, <1>3, <1>4, SameClosed DEF Anchored
  <1>5. CASE Kept(s, a, A)
    <2>1. PICK v \in A : Has(s.cache[v], a)
      BY <1>3, <1>5 DEF Kept
    <2>2. s.cache[v] \in Chains(s) /\ s.cache[p] \in Chains(s) /\ Chain(m) \in Chains(s)
      BY <1>1, <1>3, CacheFacts, SentChain
    <2>3. Carries(t.cache[p], a)
      <3>1. Carries(s.cache[p], a) /\ Carries(Chain(m), a)
        BY <1>5, <2>2 DEF Kept
      <3> QED
        BY <1>3, <2>1, <2>2, <3>1, TakeFacts
    <2>4. ASSUME p \in A PROVE Has(t.cache[p], a)
      <3>1. Has(s.cache[p], a) /\ Fits(Chain(m), a)
        BY <1>1, <1>3, <1>5, <2>4 DEF Kept
      <3>2. Agrees(Chain(m), a)
        BY <3>1 DEF Fits, Agrees
      <3> QED
        BY <1>3, <3>1, <3>2, TakeHas
    <2>5. \A x \in Chains(t) : x = t.cache[p] \/ x \in Chains(s)
      BY <1>1, OtherChains
    <2>6. Kept(t, a, A)
      <3>1. \A q \in A : Has(t.cache[q], a)
        BY <1>1, <1>3, <1>5, <2>4 DEF Kept
      <3>2. \A x \in Chains(t) : Carries(x, a)
        BY <1>5, <2>3, <2>5 DEF Kept
      <3>3. \A r \in t.sent : r.term >= TermOf(a) => Fits(Chain(r), a)
        BY <1>1, <1>5 DEF Kept
      <3>4. \A c \in Server : Leads(t, c) /\ t.term[c] >= TermOf(a) => Has(t.cache[c], a)
        BY <1>1, <1>2, <1>5 DEF Kept
      <3>5. \A c \in Server : \A q \in t.votes[c] :
               Runs(t, c) /\ t.term[c] > TermOf(a) /\ q \in A => Has(t.cache[c], a)
        BY <1>1, <1>2, <1>5 DEF Kept
      <3> QED
        BY <3>1, <3>2, <3>3, <3>4, <3>5 DEF Kept
    <2> QED
      BY <1>1, <1>3, <2>6, SameClosed DEF Anchored
  <1> QED
    BY <1>4, <1>5 DEF Anchored

\* What is committed survives the batch: its leader has it.
LEMMA TakeCommitted ==
    ASSUME NEW s, NEW t, SafeInv(s), Types(t), NEW p \in Server, NEW m, Take(s, t, p, m)
    PROVE  Has(t.cache[p], SubSeq(s.chosen, 1, s.commit[p]))
  <1> USE DEF SafeInv
  <1>1. PICK c, d, k : c = s.commit[p] /\ d = s.chosen /\ k = m.term
    OBVIOUS
  <1>2. /\ c \in Nat /\ d \in Seq(Entries) /\ Final(s, c, k) /\ Has(s.cache[p], SubSeq(d, 1, c))
        /\ m \in s.sent
    BY <1>1, TypeFacts DEF CommitInv, Take
  <1>3. CASE c = 0
    BY <1>1, <1>2, <1>3, NothingToHave
  <1>4. CASE c > 0
    <2>1. PICK i \in c .. Len(d) : Decided(s, SubSeq(d, 1, i)) /\ d[i].Term <= k
      BY <1>1, <1>2, <1>4 DEF Final
    <2>2. i \in Nat /\ i <= Len(d) /\ i > 0 /\ c <= i /\ c <= Len(d) /\ i \in 1 .. i
      BY <1>2, <1>4, SMT
    <2> DEFINE a == SubSeq(d, 1, i)
    <2>3. /\ a \in Seq(Entries) /\ Len(a) = i /\ \A j \in 1 .. i : a[j] = d[j]
      BY <1>2, <2>2, PrefixFacts
    <2> HIDE DEF a
    <2>4. TermOf(a) = d[i].Term
      BY <2>2, <2>3 DEF TermOf
    <2>5. Len(a) > 0 /\ \E A \in SUBSET Server : Kept(s, a, A)
      BY <2>1, DecidedFacts DEF a
    <2>6. m.term >= TermOf(a)
      <3>1. TermOf(a) \in Nat
        BY <2>3, <2>5, EndFacts
      <3>2. MessageShape(m)
        BY <1>2, SentChain
      <3>3. m.term \in Nat
        BY <3>2, ChainFacts
      <3> QED
        BY <1>1, <2>1, <2>4, <3>1, <3>3, SMT
    <2>7. Fits(Chain(m), a)
      BY <1>2, <2>5, <2>6 DEF Kept
    <2> DEFINE b == SubSeq(d, 1, c)
    <2>8. /\ b \in Seq(Entries) /\ Len(b) = c /\ \A j \in 1 .. c : b[j] = d[j]
      BY <1>2, <2>2, PrefixFacts
    <2> HIDE DEF b
    <2>9. ASSUME NEW j \in DOMAIN Chain(m), j <= Len(b) PROVE Chain(m)[j] = b[j]
      <3>1. IsChain(Chain(m))
        BY <1>2, SentChain
      <3>2. j \in Nat /\ j > 0
        BY <3>1, ChainEntry
      <3>3. j \in 1 .. c /\ j \in 1 .. i /\ j <= Len(a)
        BY <1>2, <2>2, <2>3, <2>8, <2>9, <3>2, SMT
      <3>4. Chain(m)[j] = a[j]
        BY <2>7, <3>3 DEF Fits
      <3> QED
        BY <2>3, <2>8, <3>3, <3>4
    <2>10. Has(s.cache[p], b)
      BY <1>2 DEF b
    <2>11. Has(t.cache[p], b)
      <3>1. Agrees(Chain(m), b)
        BY <2>9 DEF Agrees
      <3> QED
        BY <2>8, <2>10, <3>1, TakeHas
    <2> QED
      BY <1>1, <2>11 DEF b
  <1> QED
    BY <1>2, <1>3, <1>4, SMT

\* So does what p has confirmed to the leader of its term.
LEMMA TakeConfirmed ==
    ASSUME NEW s, NEW t, SafeInv(s), Types(t), NEW p \in Server, NEW m, Take(s, t, p, m),
           NEW n \in Server, NEW q \in Server, Leads(s, n), NEW i \in Nat, Confirmed(s, n, q, i)
    PROVE  Confirmed(t, n, q, i)
  <1> USE DEF SafeInv
  <1>1. /\ t.term = s.term /\ m \in s.sent /\ m.term = s.term[p]
        /\ \A r \in Server : r # p => t.cache[r] = s.cache[r]
    BY SameClosed DEF Take
  <1>2. n # p
    <2>1. "Leader" # "Follower"
      OBVIOUS
    <2> QED
      BY <2>1 DEF Take, Leads
  <1>3. PICK c : c = s.cache[n]
    OBVIOUS
  <1>4. /\ t.cache[n] = c /\ c \in Seq(Entries) /\ i <= Len(c)
        /\ i > 0 => s.term[q] >= s.term[n]
        /\ s.term[q] = s.term[n] => Has(s.cache[q], SubSeq(c, 1, i))
    BY <1>1, <1>2, <1>3, TypeFacts DEF Confirmed
  <1>5. ASSUME s.term[q] = s.term[n] PROVE Has(t.cache[q], SubSeq(c, 1, i))
    <2>1. CASE q = p
      <3>1. Has(c, Chain(m))
        BY <1>1, <1>3, <1>5, <2>1 DEF LeadersInv, Rules
      <3> DEFINE b == SubSeq(c, 1, i)
      <3>2. /\ b \in Seq(Entries) /\ Len(b) = i /\ \A j \in 1 .. i : b[j] = c[j]
        BY <1>4, PrefixFacts
      <3> HIDE DEF b
      <3>3. ASSUME NEW j \in DOMAIN Chain(m), j <= Len(b) PROVE Chain(m)[j] = b[j]
        <4>1. IsChain(Chain(m))
          BY <1>1, SentChain
        <4>2. j \in Nat /\ j > 0
          BY <4>1, ChainEntry
        <4>3. j \in 1 .. i
          BY <3>2, <3>3, <4>2, SMT
        <4> QED
          BY <3>1, <3>2, <4>3 DEF Has
      <3>4. Has(s.cache[p], b)
        BY <1>4, <1>5, <2>1 DEF b
      <3>5. Has(t.cache[p], b)
        <4>1. Agrees(Chain(m), b)
          BY <3>3 DEF Agrees
        <4> QED
          BY <3>2, <3>4, <4>1, TakeHas
      <3> QED
        BY <2>1, <3>5 DEF b
    <2>2. CASE q # p
      BY <1>1, <1>4, <1>5, <2>2
    <2> QED
      BY <2>1, <2>2
  <1> QED
    BY <1>1, <1>4, <1>5 DEF Confirmed

LEMMA TakeStep ==
    ASSUME NEW s, NEW t, SafeInv(s), Types(t), NEW p \in Server, NEW m, Take(s, t, p, m)
    PROVE  SafeInv(t)
  <1> USE DEF SafeInv
  <1>1. /\ t.term = s.term /\ t.vote = s.vote /\ t.votes = s.votes /\ t.ends = s.ends
        /\ t.role = s.role /\ t.sent = s.sent /\ t.chosen = s.chosen /\ t.commit = s.commit
        /\ t.next = s.next /\ t.match = s.match /\ t.round = s.round
        /\ SameElection(s, t) /\ m \in s.sent /\ m.term = s.term[p]
        /\ \A q \in Server : q # p => t.cache[q] = s.cache[q]
    BY DEF Take, SameElection, SameCommit, SameProgress
  <1>2. /\ \A q : (Leads(t, q) <=> Leads(s, q)) /\ (Runs(t, q) <=> Runs(s, q))
        /\ \A k : Closed(s, k) => Closed(t, k)
    BY <1>1, SameClosed
  <1>3. ~Leads(s, p) /\ ~Runs(s, p)
    <2>1. "Candidate" # "Follower" /\ "Leader" # "Follower"
      OBVIOUS
    <2> QED
      BY <2>1 DEF Take, Leads, Runs
  <1>4. \A x \in Chains(t) : x = t.cache[p] \/ x \in Chains(s)
    BY <1>1, OtherChains
  <1>5. /\ IsChain(t.cache[p]) /\ \A y \in Chains(s) : Match(t.cache[p], y)
        /\ \A i \in DOMAIN t.cache[p] :
              \/ i \in DOMAIN Chain(m) /\ t.cache[p][i] = Chain(m)[i]
              \/ i \in DOMAIN s.cache[p] /\ t.cache[p][i] = s.cache[p][i]
    <2>1. /\ IsChain(t.cache[p]) /\ \A y \in Chains(s) : Match(t.cache[p], y)
          /\ Mixed(t.cache[p], Chain(m), s.cache[p])
      BY TakeFacts
    <2> QED
      BY <2>1 DEF Mixed
  <1>6. s.cache[p] \in Chains(s) /\ Chain(m) \in Chains(s)
    BY <1>1, CacheFacts, SentChain
  <1>7. VotesInv(t)
    BY <1>1, <1>3, SameVotes
  <1>8. ClosedInv(t)
    <2>1. \A i \in DOMAIN t.cache[p] : Closed(t, t.cache[p][i].Term)
      BY <1>2, <1>5, <1>6 DEF ClosedInv
    <2>2. \A x \in Chains(t) : \A i \in DOMAIN x : Closed(t, x[i].Term)
      BY <1>2, <1>4, <2>1 DEF ClosedInv
    <2> QED
      BY <1>1, <1>2, <2>2 DEF ClosedInv
  <1>9. ChainsInv(t)
    <2>1. \A i \in DOMAIN t.cache[p] : t.cache[p][i].Term <= t.term[p]
      BY <1>1, <1>5 DEF ChainsInv
    <2>2. \A q \in Server : \A i \in DOMAIN t.cache[q] : t.cache[q][i].Term <= t.term[q]
      BY <1>1, <2>1 DEF ChainsInv
    <2>3. \A x \in Chains(t) : IsChain(x)
      BY <1>4, <1>5 DEF ChainsInv
    <2>4. Match(t.cache[p], t.cache[p]) /\ \A x \in Chains(s) : Match(x, t.cache[p])
      <3>1. Match(t.cache[p], t.cache[p])
        BY DEF Match
      <3> QED
        BY <1>5, <3>1, SymmetricMatch
    <2>5. \A x, y \in Chains(t) : Match(x, y)
      BY <1>4, <1>5, <2>4 DEF ChainsInv
    <2> QED
      BY <1>1, <2>2, <2>3, <2>5 DEF ChainsInv
  <1>10. LeadersInv(t)
    <2> SUFFICES ASSUME NEW q \in Server, Leads(t, q) PROVE Rules(t, q)
      BY DEF LeadersInv
    <2>1. Rules(s, q) /\ t.cache[q] = s.cache[q]
      BY <1>1, <1>2, <1>3 DEF LeadersInv
    <2>2. ASSUME NEW x \in Chains(s), NEW i \in DOMAIN x, x[i].Term = t.term[q]
          PROVE  i \in DOMAIN t.cache[q] /\ t.cache[q][i] = x[i]
      <3>1. x[i].Term = s.term[q]
        BY <1>1, <2>2
      <3>2. i \in DOMAIN s.cache[q] /\ s.cache[q][i] = x[i]
        BY <2>1, <3>1 DEF Rules
      <3> QED
        BY <2>1, <3>2
    <2>3. ASSUME NEW i \in DOMAIN t.cache[p], t.cache[p][i].Term = t.term[q]
          PROVE  i \in DOMAIN t.cache[q] /\ t.cache[q][i] = t.cache[p][i]
      BY <1>5, <1>6, <2>2, <2>3
    <2>4. \A r \in t.sent : r.term = t.term[q] => Has(t.cache[q], Chain(r))
      BY <1>1, <2>1 DEF Rules
    <2> QED
      BY <1>4, <2>2, <2>3, <2>4 DEF Rules
  <1>11. ASSUME NEW a, NEW A, Anchored(s, a, A) PROVE Anchored(t, a, A)
    BY <1>11, TakeAnchored
  <1>12. AnchorsInv(t)
    <2> SUFFICES ASSUME NEW q \in Server, Leads(t, q), NEW i \in DOMAIN t.cache[q],
                        t.cache[q][i].Term = t.term[q]
                 PROVE  Anchored(t, SubSeq(t.cache[q], 1, i), Acked(t, q, i))
      BY DEF AnchorsInv
    <2>1. t.cache[q] = s.cache[q] /\ Leads(s, q)
      BY <1>1, <1>2, <1>3
    <2>2. Anchored(s, SubSeq(s.cache[q], 1, i), Acked(s, q, i))
      BY <1>1, <2>1 DEF AnchorsInv
    <2>3. Acked(t, q, i) = Acked(s, q, i)
      BY <1>1 DEF Acked
    <2> QED
      BY <1>11, <2>1, <2>2, <2>3
  <1>13. CommitInv(t)
    <2>1. /\ \A a : Decided(s, a) => Decided(t, a)
          /\ \A c, k : Final(s, c, k) => Final(t, c, k)
      BY <1>1, <1>11, FinalStep
    <2>2. Has(t.cache[p], SubSeq(s.chosen, 1, s.commit[p]))
      BY TakeCommitted
    <2> QED
      BY <1>1, <2>1, <2>2 DEF CommitInv
  <1>14. ProgressInv(t)
    <2> SUFFICES ASSUME NEW q \in Server, NEW r \in Server, Leads(t, q)
                 PROVE  /\ Confirmed(t, q, r, t.match[q][r])
                        /\ t.next[q][r] <= Len(t.cache[q]) + 1
                        /\ t.match[q][r] > 0 => t.next[q][r] = t.match[q][r] + 1
                        /\ t.round[q][r] # Idle => Truthful(t, q, r, t.round[q][r].reply)
      BY DEF ProgressInv
    <2>1. /\ Confirmed(s, q, r, s.match[q][r])
          /\ s.next[q][r] <= Len(s.cache[q]) + 1
          /\ s.match[q][r] > 0 => s.next[q][r] = s.match[q][r] + 1
          /\ s.round[q][r] # Idle => Truthful(s, q, r, s.round[q][r].reply)
      BY <1>2 DEF ProgressInv
    <2>2. ASSUME NEW i \in Nat, Confirmed(s, q, r, i) PROVE Confirmed(t, q, r, i)
      BY <1>2, <2>2, TakeConfirmed
    <2>3. s.match[q][r] \in Nat /\ t.cache[q] = s.cache[q]
      BY <1>1, <1>2, <1>3, TypeFacts, ZenonT(40)
    <2>4. ASSUME s.round[q][r] # Idle PROVE Truthful(t, q, r, s.round[q][r].reply)
      <3>1. s.round[q][r].reply.index \in Nat /\ Truthful(s, q, r, s.round[q][r].reply)
        BY <2>1, <2>4, ReplyFacts
      <3> QED
        BY <1>1, <2>2, <3>1 DEF Truthful
    <2> QED
      BY <1>1, <2>1, <2>2, <2>3, <2>4
  <1> QED
    BY <1>7, <1>8, <1>9, <1>10, <1>12, <1>13, <1>14

(***************************************************************************)
(* n reports that its log is committed up to c.                             *)
(***************************************************************************)

Commit(s, t, n, c) ==
    /\ SameElection(s, t) /\ SameLogs(s, t) /\ SameProgress(s, t)
    /\ Changed(s.commit, t.commit, n, c) /\ Has(t.chosen, s.chosen)
    /\ t.chosen # <<>> => Decided(s, t.chosen)
    /\ Final(t, c, s.term[n]) /\ Has(s.cache[n], SubSeq(t.chosen, 1, c))

LEMMA SameAnchored ==
    ASSUME NEW s, NEW t, SameElection(s, t), SameLogs(s, t)
    PROVE  /\ \A a, A : Anchored(s, a, A) => Anchored(t, a, A)
           /\ \A a : Decided(s, a) => Decided(t, a)
  <1>1. /\ t.term = s.term /\ t.votes = s.votes /\ t.cache = s.cache /\ t.sent = s.sent
        /\ Chains(t) = Chains(s)
        /\ \A q : (Leads(t, q) <=> Leads(s, q)) /\ (Runs(t, q) <=> Runs(s, q))
        /\ \A k : Closed(s, k) => Closed(t, k)
        /\ \A A, k : Passed(s, A, k) => Passed(t, A, k)
    BY SameClosed, SameChains DEF SameElection, SameLogs
  <1>2. ASSUME NEW a, NEW A, Anchored(s, a, A) PROVE Anchored(t, a, A)
    <2>1. Kept(s, a, A) => Kept(t, a, A)
      BY <1>1 DEF Kept
    <2> QED
      BY <1>1, <1>2, <2>1 DEF Anchored
  <1> QED
    BY <1>2 DEF Decided

LEMMA SameRules ==
    ASSUME NEW s, NEW t, LeadersInv(s), SameElection(s, t), SameLogs(s, t)
    PROVE  LeadersInv(t)
  <1>1. /\ t.term = s.term /\ t.cache = s.cache /\ t.sent = s.sent /\ Chains(t) = Chains(s)
        /\ \A q : Leads(t, q) <=> Leads(s, q)
    BY SameClosed, SameChains DEF SameElection, SameLogs
  <1>2. ASSUME NEW q, Rules(s, q) PROVE Rules(t, q)
    <2>1. PICK k, c : k = s.term[q] /\ c = s.cache[q]
      OBVIOUS
    <2>2. /\ \A x \in Chains(s) : \A i \in DOMAIN x : x[i].Term = k => i \in DOMAIN c /\ c[i] = x[i]
          /\ \A m \in s.sent : m.term = k => Has(c, Chain(m))
      BY <1>2, <2>1 DEF Rules
    <2>3. k = t.term[q] /\ c = t.cache[q]
      BY <1>1, <2>1
    <2> QED
      BY <1>1, <2>2, <2>3 DEF Rules
  <1> QED
    BY <1>1, <1>2 DEF LeadersInv

LEMMA FinalBound ==
    ASSUME NEW s, s.chosen \in Seq(Entries), NEW c \in Nat, NEW k, Final(s, c, k)
    PROVE  c <= Len(s.chosen)
  <1>1. CASE c = 0
    BY <1>1, SMT
  <1>2. CASE c > 0
    <2>1. PICK i : i \in c .. Len(s.chosen)
      BY <1>2 DEF Final
    <2> QED
      BY <2>1, SMT
  <1> QED
    BY <1>1, <1>2, SMT

LEMMA LongerFinal ==
    ASSUME NEW s, NEW t, s.chosen \in Seq(Entries), t.chosen \in Seq(Entries),
           Has(t.chosen, s.chosen), \A a : Decided(s, a) => Decided(t, a),
           NEW c \in Nat, NEW k, Final(s, c, k)
    PROVE  Final(t, c, k)
  <1> SUFFICES ASSUME c > 0
               PROVE  \E i \in c .. Len(t.chosen) :
                         Decided(t, SubSeq(t.chosen, 1, i)) /\ t.chosen[i].Term <= k
    BY DEF Final
  <1>1. PICK d, e : d = s.chosen /\ e = t.chosen
    OBVIOUS
  <1>2. d \in Seq(Entries) /\ e \in Seq(Entries) /\ Has(e, d)
    BY <1>1
  <1>3. PICK i \in c .. Len(d) : Decided(s, SubSeq(d, 1, i)) /\ d[i].Term <= k
    BY <1>1 DEF Final
  <1>4. i \in Nat /\ i > 0 /\ i <= Len(d) /\ c <= i
    BY <1>2, SMT
  <1>5. SubSeq(e, 1, i) = SubSeq(d, 1, i)
    BY <1>2, <1>4, LongerPrefix
  <1>6. i <= Len(e)
    BY <1>2, <1>4, LongerPrefix
  <1>7. e[i] = d[i]
    BY <1>2, <1>4, SeqFacts DEF Has
  <1>8. i \in c .. Len(e)
    BY <1>2, <1>4, <1>6, SMT
  <1> QED
    BY <1>1, <1>3, <1>5, <1>7, <1>8

LEMMA CommitStep ==
    ASSUME NEW s, NEW t, SafeInv(s), Types(t), NEW n \in Server, NEW c, Commit(s, t, n, c)
    PROVE  SafeInv(t)
  <1> USE DEF SafeInv
  <1>1. /\ t.term = s.term /\ t.vote = s.vote /\ t.votes = s.votes /\ t.ends = s.ends
        /\ t.role = s.role /\ t.cache = s.cache /\ t.sent = s.sent
        /\ t.next = s.next /\ t.match = s.match /\ t.round = s.round
        /\ SameElection(s, t) /\ SameLogs(s, t) /\ Chains(t) = Chains(s)
    BY SameChains DEF Commit, SameElection, SameLogs, SameProgress
  <1>2. /\ \A q : (Leads(t, q) <=> Leads(s, q)) /\ (Runs(t, q) <=> Runs(s, q))
        /\ \A k : Closed(s, k) => Closed(t, k)
        /\ \A a, A : Anchored(s, a, A) => Anchored(t, a, A)
        /\ \A a : Decided(s, a) => Decided(t, a)
    BY <1>1, SameClosed, SameAnchored
  <1>3. VotesInv(t)
    BY <1>1, SameVotes
  <1>4. ClosedInv(t)
    BY <1>1, <1>2 DEF ClosedInv
  <1>5. ChainsInv(t)
    BY <1>1 DEF ChainsInv
  <1>6. LeadersInv(t)
    BY <1>1, SameRules
  <1>7. AnchorsInv(t)
    <2>1. \A q, i : Acked(t, q, i) = Acked(s, q, i)
      BY <1>1 DEF Acked
    <2> QED
      BY <1>1, <1>2, <2>1 DEF AnchorsInv
  <1>8. CommitInv(t)
    <2>1. s.chosen \in Seq(Entries) /\ t.chosen \in Seq(Entries)
      BY TypeFacts
    <2>2. Has(t.chosen, s.chosen) /\ (t.chosen # <<>> => Decided(t, t.chosen))
      BY <1>2 DEF Commit
    <2>3. \A j \in Nat : \A k : Final(s, j, k) => Final(t, j, k)
      BY <1>2, <2>1, <2>2, LongerFinal
    <2>4. \A m \in t.sent : Final(t, m.leaderCommit, m.term)
      <3>1. \A m \in s.sent : m.leaderCommit \in Nat
        <4>1. \A j \in Indices : j \in Nat
          BY Bounds, SMT DEF Indices
        <4>2. \A m \in s.sent : m.leaderCommit \in Indices
          BY ChainFacts DEF ChainsInv
        <4> QED
          BY <4>1, <4>2
      <3> QED
        BY <1>1, <2>3, <3>1 DEF CommitInv
    <2>5. ASSUME NEW q \in Server, q # n
          PROVE  Final(t, t.commit[q], t.term[q]) /\ Has(t.cache[q], SubSeq(t.chosen, 1, t.commit[q]))
      <3>1. /\ t.commit[q] = s.commit[q] /\ s.commit[q] \in Nat
            /\ Final(s, s.commit[q], s.term[q]) /\ Has(s.cache[q], SubSeq(s.chosen, 1, s.commit[q]))
        BY <2>5, TypeFacts DEF Commit, Changed, CommitInv
      <3>2. s.commit[q] <= Len(s.chosen)
        BY <2>1, <3>1, FinalBound
      <3>3. SubSeq(t.chosen, 1, s.commit[q]) = SubSeq(s.chosen, 1, s.commit[q])
        BY <2>1, <2>2, <3>1, <3>2, LongerPrefix
      <3>4. Final(t, s.commit[q], s.term[q])
        BY <2>3, <3>1
      <3> QED
        BY <1>1, <3>1, <3>3, <3>4
    <2>6. Final(t, t.commit[n], t.term[n]) /\ Has(t.cache[n], SubSeq(t.chosen, 1, t.commit[n]))
      BY <1>1 DEF Commit, Changed
    <2> QED
      BY <2>2, <2>4, <2>5, <2>6 DEF CommitInv
  <1>9. ProgressInv(t)
    <2>1. \A q, p, i : Confirmed(s, q, p, i) => Confirmed(t, q, p, i)
      BY <1>1 DEF Confirmed
    <2>2. \A q, p, reply : Truthful(s, q, p, reply) => Truthful(t, q, p, reply)
      BY <1>1, <2>1 DEF Truthful
    <2> QED
      BY <1>1, <1>2, <2>1, <2>2 DEF ProgressInv
  <1> QED
    BY <1>3, <1>4, <1>5, <1>6, <1>7, <1>8, <1>9

\* What the leader commits extends what was committed, or is part of it.
Choice(s, n, c, a) ==
    /\ Decided(s, a) /\ a \in Seq(Entries) /\ Len(a) = c /\ TermOf(a) = s.term[n]
    /\ Has(s.cache[n], a) /\ c > 0 /\ c \in Nat
    /\ c > Len(s.chosen) => Has(a, s.chosen)
    /\ c <= Len(s.chosen) => Has(s.chosen, a)

LEMMA LeaderChooses ==
    ASSUME NEW s, SafeInv(s), NEW n \in Server, Leads(s, n), NEW c \in DOMAIN s.cache[n],
           s.cache[n][c].Term = s.term[n], HasQuorum(Config, Acked(s, n, c))
    PROVE  Choice(s, n, c, SubSeq(s.cache[n], 1, c))
  <1> USE DEF SafeInv
  <1>1. PICK d, k, l, A, a : /\ d = s.chosen /\ k = s.term[n] /\ l = s.cache[n] /\ A = Acked(s, n, c)
                             /\ a = SubSeq(s.cache[n], 1, c)
    OBVIOUS
  <1>2. /\ d \in Seq(Entries) /\ k \in Nat /\ l \in Seq(Entries) /\ c \in DOMAIN l
        /\ l[c].Term = k /\ a = SubSeq(l, 1, c)
    BY <1>1, TypeFacts
  <1>3. c \in Nat /\ c > 0 /\ c <= Len(l) /\ c \in 1 .. c /\ Len(d) \in Nat
    BY <1>2, SMT
  <1>4. a \in Seq(Entries) /\ Len(a) = c /\ DOMAIN a = 1 .. c /\ \A i \in 1 .. c : a[i] = l[i]
    BY <1>2, <1>3, SMT
  <1>5. Has(l, a) /\ TermOf(a) = k
    <2>1. \A i \in 1 .. c : i \in DOMAIN l
      BY <1>2, <1>3, SMT
    <2> QED
      BY <1>2, <1>3, <1>4, <2>1 DEF Has, TermOf
  <1>6. A \in SUBSET Server /\ Anchored(s, a, A) /\ HasQuorum(Config, A)
    <2>1. Acked(s, n, c) \in SUBSET Server
      BY DEF Acked
    <2>2. Anchored(s, SubSeq(s.cache[n], 1, c), Acked(s, n, c))
      BY DEF AnchorsInv
    <2> QED
      BY <1>1, <1>2, <2>1, <2>2, ZenonT(40)
  <1>7. Decided(s, a) /\ Kept(s, a, A)
    BY <1>6, QuorumKept DEF Decided
  <1>8. \A i : i \in DOMAIN d <=> i \in Nat /\ i > 0 /\ i <= Len(d)
    BY <1>2, SMT
  <1>9. (c > Len(d) => Has(a, d)) /\ (c <= Len(d) => Has(d, a))
    <2>1. CASE Has(l, d)
      <3>1. ASSUME c > Len(d), NEW i \in DOMAIN d PROVE i \in DOMAIN a /\ a[i] = d[i]
        <4>1. i \in 1 .. c
          BY <1>3, <1>8, <3>1, SMT
        <4> QED
          BY <1>4, <2>1, <4>1 DEF Has
      <3>2. ASSUME c <= Len(d), NEW i \in DOMAIN a PROVE i \in DOMAIN d /\ d[i] = a[i]
        <4>1. i \in 1 .. c /\ i \in DOMAIN d
          BY <1>3, <1>4, <1>8, <3>2, SMT
        <4> QED
          BY <1>4, <2>1, <4>1 DEF Has
      <3> QED
        BY <3>1, <3>2 DEF Has
    <2>2. CASE d = <<>>
      <3>1. Has(l, d)
        <4>1. \A i \in DOMAIN d : FALSE
          BY <2>2, SMT
        <4> QED
          BY <4>1 DEF Has
      <3> QED
        BY <2>1, <3>1, SMT
    <2>3. CASE d # <<>>
      <3>1. Decided(s, d)
        BY <1>1, <2>3 DEF CommitInv
      <3>2. Len(d) > 0 /\ \E D \in SUBSET Server : D # {} /\ Kept(s, d, D)
        BY <3>1, DecidedFacts
      <3>3. TermOf(d) \in Nat /\ Len(d) \in DOMAIN d
        BY <1>2, <3>2, EndFacts
      <3>4. CASE k >= TermOf(d)
        <4>1. Has(l, d)
          BY <1>1, <3>2, <3>4 DEF Kept
        <4> QED
          BY <2>1, <4>1, SMT
      <3>5. CASE TermOf(d) > k
        <4>1. PICK v \in Server : Has(s.cache[v], d)
          <5>1. PICK D \in SUBSET Server : D # {} /\ Kept(s, d, D)
            BY <3>2
          <5> QED
            BY <5>1 DEF Kept
        <4>2. PICK y : y = s.cache[v]
          OBVIOUS
        <4>3. y \in Seq(Entries) /\ y \in Chains(s) /\ IsChain(y) /\ Has(y, d)
          BY <4>1, <4>2, CacheFacts
        <4>4. Len(d) \in DOMAIN y /\ y[Len(d)].Term = TermOf(d)
          BY <3>3, <4>3 DEF Has, TermOf
        <4>5. Above(y[Len(d)], a)
          <5>1. y[Len(d)] \in Entries
            BY <4>3, <4>4, ChainEntry
          <5>2. Len(a) > 0
            BY <1>3, <1>4
          <5> QED
            BY <1>4, <1>5, <3>5, <4>4, <5>1, <5>2, AboveFacts
        <4>6. Has(y, a) /\ Len(d) >= Len(a)
          <5>1. Len(a) > 0 /\ Carries(y, a)
            BY <1>3, <1>4, <1>7, <4>3, ZenonT(40) DEF Kept
          <5> QED
            BY <1>4, <4>3, <4>4, <4>5, <5>1, CarriesHas
        <4>7. c <= Len(d) /\ ~(c > Len(d))
          BY <1>3, <1>4, <4>6, SMT
        <4>8. ASSUME NEW i \in DOMAIN a PROVE i \in DOMAIN d /\ d[i] = a[i]
          <5>1. i \in DOMAIN d
            BY <1>3, <1>4, <1>8, <4>7, SMT
          <5> QED
            BY <4>3, <4>6, <5>1 DEF Has
        <4> QED
          BY <4>7, <4>8 DEF Has
      <3> QED
        BY <1>2, <3>3, <3>4, <3>5, SMT
    <2> QED
      BY <2>2, <2>3, SMT
  <1> QED
    BY <1>1, <1>3, <1>4, <1>5, <1>7, <1>9 DEF Choice

\* AdvanceCommitIndex.
LEMMA LeaderCommits ==
    ASSUME NEW s, NEW t, SafeInv(s), Types(t), NEW n \in Server, Leads(s, n),
           NEW c \in DOMAIN s.cache[n], s.cache[n][c].Term = s.term[n],
           HasQuorum(Config, Acked(s, n, c)),
           SameElection(s, t), SameLogs(s, t), SameProgress(s, t), Changed(s.commit, t.commit, n, c),
           t.chosen = IF c > Len(s.chosen) THEN SubSeq(s.cache[n], 1, c) ELSE s.chosen
    PROVE  SafeInv(t)
  <1>1. PICK a : a = SubSeq(s.cache[n], 1, c)
    OBVIOUS
  <1>0. Choice(s, n, c, a)
    BY <1>1, LeaderChooses
  <1>2. /\ Decided(s, a) /\ a \in Seq(Entries) /\ Len(a) = c /\ TermOf(a) = s.term[n]
        /\ Has(s.cache[n], a) /\ c > 0 /\ c \in Nat
    BY <1>0 DEF Choice
  <1>3. /\ c > Len(s.chosen) => Has(a, s.chosen)
        /\ c <= Len(s.chosen) => Has(s.chosen, a)
    BY <1>0 DEF Choice
  <1>4. PICK d, e : d = s.chosen /\ e = t.chosen
    OBVIOUS
  <1>5. /\ d \in Seq(Entries) /\ e \in Seq(Entries) /\ Types(s) /\ CommitInv(s)
        /\ e = IF c > Len(d) THEN a ELSE d
    BY <1>1, <1>4, TypeFacts DEF SafeInv
  <1>6. Has(e, d) /\ Has(e, a)
    <2>1. Has(d, d) /\ Has(a, a)
      BY DEF Has
    <2>2. c > Len(d) \/ c <= Len(d)
      BY <1>2, <1>5, SMT
    <2>3. CASE c > Len(d)
      <3>1. e = a
        BY <1>5, <2>3
      <3> QED
        BY <1>3, <1>4, <2>1, <2>3, <3>1
    <2>4. CASE ~(c > Len(d))
      <3>1. e = d
        BY <1>5, <2>4
      <3> QED
        BY <1>3, <1>4, <2>1, <2>2, <2>4, <3>1
    <2> QED
      BY <2>3, <2>4
  <1>7. e # <<>> => Decided(s, e)
    BY <1>2, <1>4, <1>5 DEF CommitInv
  <1>8. SubSeq(e, 1, c) = a /\ c <= Len(e) /\ e[c] = a[c]
    <2>1. SubSeq(e, 1, c) = SubSeq(a, 1, c)
      <3>1. c <= Len(a)
        BY <1>2, SMT
      <3> QED
        BY <1>2, <1>5, <1>6, <3>1, LongerPrefix
    <2>2. SubSeq(a, 1, c) = a
      BY <1>2, SMT
    <2>3. c \in DOMAIN a /\ c \in DOMAIN e => c <= Len(e)
      BY <1>2, <1>5, SMT
    <2>4. c \in DOMAIN a
      BY <1>2, SMT
    <2> QED
      BY <1>6, <2>1, <2>2, <2>3, <2>4 DEF Has
  <1>9. Final(t, c, s.term[n])
    <2>1. Decided(t, a)
      BY <1>2, SameAnchored
    <2>2. e[c].Term = s.term[n]
      BY <1>2, <1>8 DEF TermOf
    <2>3. s.term[n] <= s.term[n]
      <3>1. s.term[n] \in Nat
        BY <1>5, TypeFacts, ZenonT(40)
      <3> QED
        BY <3>1, SMT
    <2>4. c \in c .. Len(e)
      BY <1>2, <1>5, <1>8, SMT
    <2> QED
      BY <1>4, <1>8, <2>1, <2>2, <2>3, <2>4 DEF Final
  <1>10. Commit(s, t, n, c)
    BY <1>2, <1>4, <1>6, <1>7, <1>8, <1>9 DEF Commit
  <1> QED
    BY <1>10, CommitStep

\* setFollowerCommitIndexLocked: what a request of its term says is committed,
\* as far as the request has confirmed p's log.
LEMMA FollowerHas ==
    ASSUME NEW s, SafeInv(s), NEW p \in Server, NEW m \in s.sent, s.term[p] = m.term,
           Has(s.cache[p], Chain(m)), NEW c \in Nat, c > 0, c <= m.leaderCommit, c <= End(m)
    PROVE  /\ Final(s, c, s.term[p]) /\ c <= Len(s.chosen)
           /\ Has(s.cache[p], SubSeq(s.chosen, 1, c))
  <1> USE DEF SafeInv
  <1>1. PICK d, k, l, x, e : /\ d = s.chosen /\ k = m.leaderCommit /\ l = s.cache[p] /\ x = Chain(m)
                             /\ e = End(m)
    OBVIOUS
  <1>2. MessageShape(m) /\ x \in Chains(s) /\ IsChain(x)
    BY <1>1, SentChain
  <1>3. /\ d \in Seq(Entries) /\ l \in Chains(s) /\ IsChain(l) /\ l \in Seq(Entries) /\ Has(l, x)
        /\ \A i : i \in DOMAIN l <=> i \in Nat /\ i > 0 /\ i <= Len(l)
    BY <1>1, TypeFacts, CacheFacts
  <1>4. k \in Nat /\ e \in Nat /\ c <= k /\ c <= e /\ e > 0 /\ m.term \in Nat
    <2>1. k \in Indices /\ e \in Nat /\ m.term \in Nat
      BY <1>1, <1>2, ChainFacts
    <2> QED
      BY <1>1, <2>1, Bounds, SMT DEF Indices
  <1>5. e \in DOMAIN x
    <2>1. m.prevLogIndex \in Nat /\ e = m.prevLogIndex + Len(m.entries) /\ Len(m.entries) \in Nat
      BY <1>1, <1>2, ChainFacts
    <2>2. e >= m.prevLogIndex /\ e <= e
      BY <2>1, SMT
    <2> QED
      BY <1>1, <1>2, <1>4, <2>2, ChainFacts
  <1>6. PICK i \in k .. Len(d) : Decided(s, SubSeq(d, 1, i)) /\ d[i].Term <= m.term
    <2>1. k > 0
      BY <1>4, SMT
    <2> QED
      BY <1>1, <2>1 DEF CommitInv, Final
  <1>7. i \in Nat /\ i > 0 /\ i <= Len(d) /\ c <= i /\ c <= Len(d) /\ i \in c .. Len(d) /\ i \in 1 .. i
    BY <1>3, <1>4, SMT
  <1>8. Final(s, c, s.term[p])
    BY <1>1, <1>6, <1>7 DEF Final
  <1>9. PICK a : a = SubSeq(d, 1, i)
    OBVIOUS
  <1>10. a \in Seq(Entries) /\ Len(a) = i /\ DOMAIN a = 1 .. i /\ \A j \in 1 .. i : a[j] = d[j]
    BY <1>3, <1>7, <1>9, SMT
  <1>11. TermOf(a) = d[i].Term /\ Len(a) > 0
    BY <1>7, <1>10 DEF TermOf
  <1>12. PICK A \in SUBSET Server : A # {} /\ Kept(s, a, A)
    BY <1>6, <1>9, DecidedFacts
  <1>13. Fits(x, a)
    <2>1. TermOf(a) \in Nat
      BY <1>10, <1>11, EndFacts
    <2>2. m.term >= TermOf(a)
      BY <1>4, <1>6, <1>11, <2>1, BelowOrAbove
    <2> QED
      BY <1>1, <1>12, <2>2 DEF Kept
  <1>14. ASSUME NEW j \in 1 .. c PROVE j \in DOMAIN l /\ l[j] = d[j]
    <2>1. j \in Nat /\ j > 0 /\ j <= e /\ j \in 1 .. i
      BY <1>4, <1>7, SMT
    <2>2. e \in DOMAIN l /\ l[e] = x[e]
      BY <1>3, <1>5 DEF Has
    <2>3. j \in DOMAIN l
      BY <1>3, <1>4, <2>1, <2>2, SMT
    <2>4. CASE e <= i
      <3>1. PICK v \in Server : Has(s.cache[v], a)
        BY <1>12 DEF Kept
      <3>2. PICK y : y = s.cache[v]
        OBVIOUS
      <3>3. y \in Chains(s) /\ Has(y, a)
        BY <3>1, <3>2, CacheFacts
      <3>4. Match(l, y)
        BY <1>3, <3>3 DEF ChainsInv
      <3>5. x[e] = a[e] /\ e \in DOMAIN a
        <4>1. e <= Len(a) /\ e \in DOMAIN a
          BY <1>4, <1>7, <1>10, <2>4, SMT
        <4> QED
          BY <1>5, <1>13, <4>1 DEF Fits
      <3>6. j \in DOMAIN a
        BY <1>10, <2>1
      <3>7. e \in DOMAIN y /\ y[e] = l[e] /\ j \in DOMAIN y /\ y[j] = a[j]
        BY <2>2, <3>3, <3>5, <3>6 DEF Has
      <3>8. l[j] = y[j]
        BY <2>1, <2>2, <2>3, <3>4, <3>7 DEF Match
      <3> QED
        BY <1>10, <2>1, <2>3, <3>7, <3>8
    <2>5. CASE e >= i
      <3>1. x[e].Term >= TermOf(a) /\ x[e] \in Entries /\ x[e].Index = e /\ e >= Len(a)
        BY <1>2, <1>5, <1>10, <1>13, <2>5, ChainEntry DEF Fits
      <3>2. Above(l[e], a)
        BY <1>10, <1>11, <2>2, <3>1, AboveFacts
      <3>3. Carries(l, a)
        BY <1>3, <1>12 DEF Kept
      <3>4. Has(l, a)
        BY <1>3, <1>10, <1>11, <2>2, <3>2, <3>3, CarriesHas
      <3> QED
        BY <1>10, <2>1, <2>3, <3>4 DEF Has
    <2> QED
      BY <1>4, <1>7, <2>4, <2>5, BelowOrAbove
  <1>15. Has(l, SubSeq(d, 1, c))
    <2>1. DOMAIN SubSeq(d, 1, c) = 1 .. c /\ \A j \in 1 .. c : SubSeq(d, 1, c)[j] = d[j]
      BY <1>3, <1>7, SMT
    <2> QED
      BY <1>14, <2>1 DEF Has
  <1> QED
    BY <1>1, <1>7, <1>8, <1>15

LEMMA FollowerCommits ==
    ASSUME NEW s, NEW t, SafeInv(s), Types(t), NEW p \in Server, NEW m \in s.sent,
           s.term[p] = m.term, Has(s.cache[p], Chain(m)),
           NEW c \in Nat, c = s.commit[p] \/ (c > 0 /\ c <= m.leaderCommit /\ c <= End(m)),
           SameElection(s, t), SameLogs(s, t), SameProgress(s, t), Changed(s.commit, t.commit, p, c),
           t.chosen = IF c > Len(s.chosen) THEN SubSeq(s.cache[p], 1, c) ELSE s.chosen
    PROVE  SafeInv(t)
  <1>1. Types(s) /\ CommitInv(s) /\ s.chosen \in Seq(Entries)
    BY TypeFacts DEF SafeInv
  <1>2. /\ Final(s, c, s.term[p]) /\ c <= Len(s.chosen)
        /\ Has(s.cache[p], SubSeq(s.chosen, 1, c))
    <2>1. CASE c = s.commit[p]
      <3>1. Final(s, c, s.term[p]) /\ Has(s.cache[p], SubSeq(s.chosen, 1, c))
        BY <1>1, <2>1 DEF CommitInv
      <3> QED
        BY <1>1, <3>1, FinalBound
    <2>2. CASE c > 0 /\ c <= m.leaderCommit /\ c <= End(m)
      BY <2>2, FollowerHas
    <2> QED
      BY <2>1, <2>2
  <1>3. t.chosen = s.chosen
    BY <1>1, <1>2, SMT
  <1>4. Final(t, c, s.term[p])
    BY <1>2, <1>3, SameAnchored, FinalStep
  <1>5. Has(s.chosen, s.chosen)
    BY DEF Has
  <1>6. Commit(s, t, p, c)
    BY <1>1, <1>2, <1>3, <1>4, <1>5 DEF Commit, CommitInv
  <1> QED
    BY <1>6, CommitStep

(***************************************************************************)
(* Requests come and go                                                     *)
(***************************************************************************)

\* Leader n sends a part of its log.
Fresh(s, t, n, m) ==
    /\ Leads(s, n) /\ MessageShape(m) /\ m.term = s.term[n] /\ m.leaderCommit = s.commit[n]
    /\ Has(s.cache[n], Chain(m)) /\ t.sent = s.sent \cup {m}
    /\ t.cache = s.cache /\ SameElection(s, t) /\ SameCommit(s, t) /\ SameProgress(s, t)

\* Nothing but requests changes.
LEMMA SameRest ==
    ASSUME NEW s, NEW t, t.cache = s.cache, SameElection(s, t), SameProgress(s, t)
    PROVE  /\ VotesInv(s) => VotesInv(t)
           /\ ProgressInv(s) => ProgressInv(t)
           /\ \A q, i : Acked(t, q, i) = Acked(s, q, i)
  <1>1. /\ t.next = s.next /\ t.match = s.match /\ t.round = s.round /\ t.term = s.term
        /\ \A q : (Leads(t, q) <=> Leads(s, q)) /\ (Runs(t, q) <=> Runs(s, q))
    BY SameClosed DEF SameProgress
  <1>2. VotesInv(s) => VotesInv(t)
    BY <1>1, SameVotes
  <1>3. \A q, p, i : Confirmed(s, q, p, i) => Confirmed(t, q, p, i)
    BY <1>1 DEF Confirmed
  <1>4. \A q, p, reply : Truthful(s, q, p, reply) => Truthful(t, q, p, reply)
    BY <1>1, <1>3 DEF Truthful
  <1>5. ProgressInv(s) => ProgressInv(t)
    BY <1>1, <1>3, <1>4 DEF ProgressInv
  <1>6. \A q, i : Acked(t, q, i) = Acked(s, q, i)
    BY <1>1 DEF Acked
  <1> QED
    BY <1>2, <1>5, <1>6

LEMMA FreshStep ==
    ASSUME NEW s, NEW t, SafeInv(s), Types(t), NEW n \in Server, NEW m, Fresh(s, t, n, m)
    PROVE  SafeInv(t)
  <1> USE DEF SafeInv
  <1>1. /\ t.term = s.term /\ t.votes = s.votes /\ t.cache = s.cache /\ t.sent = s.sent \cup {m}
        /\ t.chosen = s.chosen /\ t.commit = s.commit /\ SameElection(s, t) /\ SameProgress(s, t)
        /\ Leads(s, n) /\ MessageShape(m) /\ m.term = s.term[n] /\ m.leaderCommit = s.commit[n]
        /\ Has(s.cache[n], Chain(m))
    BY DEF Fresh, SameElection, SameCommit
  <1>2. /\ \A q : (Leads(t, q) <=> Leads(s, q)) /\ (Runs(t, q) <=> Runs(s, q))
        /\ \A k : Closed(s, k) => Closed(t, k)
        /\ \A A, k : Passed(s, A, k) => Passed(t, A, k)
    BY <1>1, SameClosed
  <1>3. VotesInv(t) /\ ProgressInv(t) /\ \A q, i : Acked(t, q, i) = Acked(s, q, i)
    BY <1>1, SameRest
  <1>4. \A x \in Chains(t) : x = Chain(m) \/ x \in Chains(s)
    <2> SUFFICES ASSUME NEW x \in Chains(t) PROVE x = Chain(m) \/ x \in Chains(s)
      OBVIOUS
    <2>1. x \in {s.cache[q] : q \in Server} \/ \E r \in t.sent : x = Chain(r)
      BY <1>1 DEF Chains
    <2>2. ASSUME NEW r \in t.sent, x = Chain(r) PROVE x = Chain(m) \/ x \in Chains(s)
      <3>1. r = m \/ r \in s.sent
        BY <1>1
      <3> QED
        BY <2>2, <3>1 DEF Chains
    <2> QED
      BY <2>1, <2>2 DEF Chains
  <1>5. s.cache[n] \in Chains(s) /\ IsChain(s.cache[n])
    BY CacheFacts
  <1>6. \A i \in DOMAIN Chain(m) : i \in DOMAIN s.cache[n] /\ Chain(m)[i] = s.cache[n][i]
    BY <1>1 DEF Has
  <1>7. ClosedInv(t)
    <2>1. Closed(s, m.term) /\ \A i \in DOMAIN Chain(m) : Closed(s, Chain(m)[i].Term)
      BY <1>1, <1>5, <1>6 DEF ClosedInv
    <2> QED
      BY <1>1, <1>2, <1>4, <2>1 DEF ClosedInv
  <1>8. ChainsInv(t)
    <2>1. \A i \in DOMAIN Chain(m) : Chain(m)[i].Term <= m.term
      BY <1>1, <1>6 DEF ChainsInv
    <2>2. IsChain(Chain(m))
      <3>1. \A i \in DOMAIN Chain(m) :
               i \in Nat /\ i > 0 /\ Chain(m)[i] \in Entries /\ Chain(m)[i].Index = i
        BY <1>5, <1>6, ChainEntry, ZenonT(40)
      <3>2. \A i, j \in DOMAIN Chain(m) : i <= j => Chain(m)[i].Term <= Chain(m)[j].Term
        BY <1>5, <1>6 DEF IsChain
      <3>3. ASSUME NEW i \in DOMAIN Chain(m), NEW j \in DOMAIN Chain(m), NEW k \in i .. j
            PROVE  k \in DOMAIN Chain(m)
        <4>1. /\ i \in Nat /\ i > 0 /\ i >= m.prevLogIndex /\ j \in Nat /\ j <= End(m)
              /\ m.prevLogIndex \in Nat /\ End(m) \in Nat
          BY <1>1, ChainFacts
        <4>2. k \in Nat /\ k > 0 /\ k >= m.prevLogIndex /\ k <= End(m)
          BY <4>1, SMT
        <4> QED
          BY <1>1, <4>2, ChainFacts
      <3> QED
        BY <3>1, <3>2, <3>3 DEF IsChain
    <2>3. \A y \in Chains(s) : Match(Chain(m), y) /\ Match(y, Chain(m))
      BY <1>1, <1>5, PartFits, SymmetricMatch DEF ChainsInv
    <2>4. Match(Chain(m), Chain(m))
      BY DEF Match
    <2>5. \A x \in Chains(t) : IsChain(x)
      BY <1>4, <2>2 DEF ChainsInv
    <2>6. \A x, y \in Chains(t) : Match(x, y)
      BY <1>4, <2>3, <2>4 DEF ChainsInv
    <2> QED
      BY <1>1, <2>1, <2>5, <2>6 DEF ChainsInv
  <1>9. LeadersInv(t)
    <2> SUFFICES ASSUME NEW q \in Server, Leads(t, q) PROVE Rules(t, q)
      BY DEF LeadersInv
    <2>1. Rules(s, q) /\ Leads(s, q)
      BY <1>2 DEF LeadersInv
    <2>2. ASSUME NEW x \in Chains(s), NEW i \in DOMAIN x, x[i].Term = s.term[q]
          PROVE  i \in DOMAIN s.cache[q] /\ s.cache[q][i] = x[i]
      BY <2>1, <2>2 DEF Rules
    <2>3. ASSUME NEW i \in DOMAIN Chain(m), Chain(m)[i].Term = s.term[q]
          PROVE  i \in DOMAIN s.cache[q] /\ s.cache[q][i] = Chain(m)[i]
      BY <1>5, <1>6, <2>2, <2>3
    <2>4. ASSUME m.term = s.term[q] PROVE Has(s.cache[q], Chain(m))
      <3>1. q = n
        BY <1>1, <2>1, <2>4, OneLeader
      <3> QED
        BY <1>1, <3>1
    <2>5. ASSUME NEW r \in t.sent, r.term = s.term[q] PROVE Has(s.cache[q], Chain(r))
      BY <1>1, <2>1, <2>4, <2>5 DEF Rules
    <2>6. PICK k, c : k = s.term[q] /\ c = s.cache[q]
      OBVIOUS
    <2>7. /\ \A x \in Chains(t) : \A i \in DOMAIN x : x[i].Term = k => i \in DOMAIN c /\ c[i] = x[i]
          /\ \A r \in t.sent : r.term = k => Has(c, Chain(r))
      BY <1>4, <2>2, <2>3, <2>5, <2>6
    <2>8. k = t.term[q] /\ c = t.cache[q]
      BY <1>1, <2>6
    <2> QED
      BY <2>7, <2>8 DEF Rules
  <1>10. ASSUME NEW a, NEW A, Anchored(s, a, A) PROVE Anchored(t, a, A)
    <2>1. /\ a \in Seq(Entries) /\ Len(a) > 0 /\ A # {} /\ A \subseteq Server
          /\ Closed(s, TermOf(a)) /\ \A v \in A : s.term[v] >= TermOf(a)
      BY <1>10 DEF Anchored
    <2>2. CASE Passed(s, A, TermOf(a))
      BY <1>1, <1>2, <2>1, <2>2 DEF Anchored
    <2>3. CASE Kept(s, a, A)
      <3>1. Carries(Chain(m), a)
        BY <1>1, <1>5, <2>3, PartFits DEF Kept
      <3>2. m.term >= TermOf(a) => Fits(Chain(m), a)
        <4>1. m.term >= TermOf(a) => Has(s.cache[n], a)
          BY <1>1, <2>3 DEF Kept
        <4>2. m.term >= TermOf(a) => Fits(s.cache[n], a)
          BY <1>5, <2>1, <4>1, HasFits
        <4> QED
          BY <1>1, <4>2, PartFits
      <3>3. \A x \in Chains(t) : Carries(x, a)
        BY <1>4, <2>3, <3>1 DEF Kept
      <3>4. \A r \in t.sent : r.term >= TermOf(a) => Fits(Chain(r), a)
        BY <1>1, <2>3, <3>2 DEF Kept
      <3>5. Kept(t, a, A)
        BY <1>1, <1>2, <2>3, <3>3, <3>4 DEF Kept
      <3> QED
        BY <1>1, <1>2, <2>1, <3>5 DEF Anchored
    <2> QED
      BY <1>10, <2>2, <2>3 DEF Anchored
  <1>11. AnchorsInv(t)
    BY <1>1, <1>2, <1>3, <1>10 DEF AnchorsInv
  <1>12. CommitInv(t)
    <2>1. /\ \A a : Decided(s, a) => Decided(t, a)
          /\ \A c, k : Final(s, c, k) => Final(t, c, k)
      BY <1>1, <1>10, FinalStep
    <2>2. Final(s, m.leaderCommit, m.term)
      BY <1>1 DEF CommitInv
    <2> QED
      BY <1>1, <2>1, <2>2 DEF CommitInv
  <1> QED
    BY <1>3, <1>7, <1>8, <1>9, <1>11, <1>12

\* Some requests are gone.
Shrink(s, t) ==
    /\ t.sent \subseteq s.sent
    /\ t.cache = s.cache /\ SameElection(s, t) /\ SameCommit(s, t) /\ SameProgress(s, t)

LEMMA ShrinkStep ==
    ASSUME NEW s, NEW t, SafeInv(s), Types(t), Shrink(s, t)
    PROVE  SafeInv(t)
  <1> USE DEF SafeInv
  <1>1. /\ t.term = s.term /\ t.votes = s.votes /\ t.cache = s.cache /\ t.sent \subseteq s.sent
        /\ t.chosen = s.chosen /\ t.commit = s.commit /\ SameElection(s, t) /\ SameProgress(s, t)
    BY DEF Shrink, SameElection, SameCommit
  <1>2. /\ \A q : (Leads(t, q) <=> Leads(s, q)) /\ (Runs(t, q) <=> Runs(s, q))
        /\ \A k : Closed(s, k) => Closed(t, k)
        /\ \A A, k : Passed(s, A, k) => Passed(t, A, k)
    BY <1>1, SameClosed
  <1>3. VotesInv(t) /\ ProgressInv(t) /\ \A q, i : Acked(t, q, i) = Acked(s, q, i)
    BY <1>1, SameRest
  <1>4. \A x \in Chains(t) : x \in Chains(s)
    <2>1. \A x \in Chains(t) : (\E q \in Server : x = s.cache[q]) \/ \E r \in s.sent : x = Chain(r)
      BY <1>1 DEF Chains
    <2> QED
      BY <2>1 DEF Chains
  <1>5. ClosedInv(t)
    BY <1>1, <1>2, <1>4 DEF ClosedInv
  <1>6. ChainsInv(t)
    BY <1>1, <1>4 DEF ChainsInv
  <1>7. LeadersInv(t)
    <2> SUFFICES ASSUME NEW q \in Server, Leads(t, q) PROVE Rules(t, q)
      BY DEF LeadersInv
    <2>1. PICK k, c : k = s.term[q] /\ c = s.cache[q]
      OBVIOUS
    <2>2. /\ \A x \in Chains(s) : \A i \in DOMAIN x : x[i].Term = k => i \in DOMAIN c /\ c[i] = x[i]
          /\ \A r \in s.sent : r.term = k => Has(c, Chain(r))
      BY <1>2, <2>1 DEF LeadersInv, Rules
    <2>3. k = t.term[q] /\ c = t.cache[q]
      BY <1>1, <2>1
    <2> QED
      BY <1>1, <1>4, <2>2, <2>3 DEF Rules
  <1>8. ASSUME NEW a, NEW A, Anchored(s, a, A) PROVE Anchored(t, a, A)
    <2>1. Kept(s, a, A) => Kept(t, a, A)
      BY <1>1, <1>2, <1>4 DEF Kept
    <2> QED
      BY <1>1, <1>2, <1>8, <2>1 DEF Anchored
  <1>9. AnchorsInv(t)
    BY <1>1, <1>2, <1>3, <1>8 DEF AnchorsInv
  <1>10. CommitInv(t)
    BY <1>1, <1>8, FinalStep, ZenonT(40) DEF CommitInv
  <1> QED
    BY <1>3, <1>5, <1>6, <1>7, <1>9, <1>10

(***************************************************************************)
(* Answers come back                                                        *)
(***************************************************************************)

\* Another server that has a in its term stands by it.
LEMMA AnchoredGrows ==
    ASSUME NEW s, Types(s), VotesInv(s), NEW a, NEW A, Anchored(s, a, A),
           NEW p \in Server, s.term[p] = TermOf(a), Has(s.cache[p], a)
    PROVE  Anchored(s, a, A \cup {p})
  <1>1. /\ a \in Seq(Entries) /\ Len(a) > 0 /\ A # {} /\ A \subseteq Server
        /\ Closed(s, TermOf(a)) /\ \A v \in A : s.term[v] >= TermOf(a)
    BY DEF Anchored
  <1>2. PICK k : k = TermOf(a)
    OBVIOUS
  <1>3. s.term[p] = k /\ k \in Nat /\ k >= k /\ ~(k > k)
    <2>1. TermOf(a) \in Nat
      BY <1>1, EndFacts
    <2> QED
      BY <1>2, <2>1, SMT
  <1>4. CASE Passed(s, A, k)
    <2>1. Passed(s, A \cup {p}, k)
      BY <1>3, <1>4 DEF Passed
    <2> QED
      BY <1>1, <1>2, <1>3, <2>1 DEF Anchored
  <1>5. CASE Kept(s, a, A)
    <2>1. ASSUME NEW c \in Server, Runs(s, c), s.term[c] > k, p \in s.votes[c] PROVE FALSE
      <3>1. s.role[c] # "Follower"
        <4>1. "Candidate" # "Follower"
          OBVIOUS
        <4> QED
          BY <2>1, <4>1 DEF Runs
      <3>2. s.term[p] > s.term[c] \/ s.term[p] = s.term[c]
        BY <2>1, <3>1 DEF VotesInv
      <3>3. s.term[c] \in Nat
        BY TypeFacts
      <3> QED
        BY <1>3, <2>1, <3>2, <3>3, SMT
    <2>2. Kept(s, a, A \cup {p})
      BY <1>2, <1>5, <2>1 DEF Kept
    <2> QED
      BY <1>1, <1>2, <1>3, <2>2 DEF Anchored
  <1> QED
    BY <1>2, <1>4, <1>5 DEF Anchored

LEMMA AnchoredShrinks ==
    ASSUME NEW s, NEW a, NEW A, Anchored(s, a, A), NEW B, B \subseteq A, B # {}
    PROVE  Anchored(s, a, B)
  <1>1. Passed(s, A, TermOf(a)) => Passed(s, B, TermOf(a))
    BY DEF Passed
  <1>2. Kept(s, a, A) => Kept(s, a, B)
    BY DEF Kept
  <1> QED
    BY <1>1, <1>2 DEF Anchored

\* The progress of leader n with peer p, and nothing else, changes.
OnlyProgress(s, t, n, p) ==
    /\ \A q, r \in Server : q # n \/ r # p =>
          t.next[q][r] = s.next[q][r] /\ t.match[q][r] = s.match[q][r] /\ t.round[q][r] = s.round[q][r]
    /\ \A q \in Server : q # n => t.round[q] = s.round[q]
    /\ SameElection(s, t) /\ SameLogs(s, t) /\ SameCommit(s, t)

\* What is left to show of such a step.
LEMMA ProgressStep ==
    ASSUME NEW s, NEW t, SafeInv(s), Types(t), NEW n \in Server, NEW p \in Server,
           OnlyProgress(s, t, n, p), ~Runs(s, n),
           Leads(s, n) =>
              /\ Confirmed(s, n, p, t.match[n][p])
              /\ t.next[n][p] <= Len(s.cache[n]) + 1
              /\ t.match[n][p] > 0 => t.next[n][p] = t.match[n][p] + 1
              /\ t.round[n][p] # Idle => Truthful(t, n, p, t.round[n][p].reply)
              /\ \A i \in DOMAIN s.cache[n] : s.cache[n][i].Term = s.term[n] =>
                    Anchored(s, SubSeq(s.cache[n], 1, i), Acked(t, n, i))
    PROVE  SafeInv(t)
  <1> USE DEF SafeInv
  <1>1. /\ t.term = s.term /\ t.cache = s.cache /\ t.sent = s.sent /\ t.chosen = s.chosen
        /\ t.commit = s.commit /\ SameElection(s, t) /\ SameLogs(s, t) /\ Chains(t) = Chains(s)
    BY SameChains DEF OnlyProgress, SameElection, SameLogs, SameCommit
  <1>2. /\ \A q : (Leads(t, q) <=> Leads(s, q)) /\ (Runs(t, q) <=> Runs(s, q))
        /\ \A k : Closed(s, k) => Closed(t, k)
        /\ \A a, A : Anchored(s, a, A) => Anchored(t, a, A)
    BY <1>1, SameClosed, SameAnchored
  <1>3. VotesInv(t)
    <2>1. \A q \in Server : Runs(s, q) => t.cache[q] = s.cache[q] /\ t.round[q] = s.round[q]
      BY <1>1 DEF OnlyProgress
    <2> QED
      BY <1>1, <2>1, SameVotes
  <1>4. ClosedInv(t)
    BY <1>1, <1>2 DEF ClosedInv
  <1>5. ChainsInv(t)
    BY <1>1 DEF ChainsInv
  <1>6. LeadersInv(t)
    BY <1>1, SameRules
  <1>7. ASSUME NEW q \in Server, NEW r \in Server, q # n \/ r # p
        PROVE  /\ t.next[q][r] = s.next[q][r] /\ t.match[q][r] = s.match[q][r]
               /\ t.round[q][r] = s.round[q][r]
    BY <1>7 DEF OnlyProgress
  <1>8. AnchorsInv(t)
    <2> SUFFICES ASSUME NEW q \in Server, Leads(t, q), NEW i \in DOMAIN t.cache[q],
                        t.cache[q][i].Term = t.term[q]
                 PROVE  Anchored(t, SubSeq(t.cache[q], 1, i), Acked(t, q, i))
      BY DEF AnchorsInv
    <2>1. Leads(s, q) /\ i \in DOMAIN s.cache[q] /\ s.cache[q][i].Term = s.term[q]
      BY <1>1, <1>2
    <2>2. CASE q = n
      <3>1. Anchored(s, SubSeq(s.cache[n], 1, i), Acked(t, n, i))
        BY <2>1, <2>2
      <3> QED
        BY <1>1, <1>2, <2>2, <3>1
    <2>3. CASE q # n
      <3>1. Acked(t, q, i) = Acked(s, q, i)
        BY <1>7, <2>3 DEF Acked
      <3>2. Anchored(s, SubSeq(s.cache[q], 1, i), Acked(s, q, i))
        BY <2>1 DEF AnchorsInv
      <3> QED
        BY <1>1, <1>2, <3>1, <3>2
    <2> QED
      BY <2>2, <2>3
  <1>9. CommitInv(t)
    BY <1>1, <1>2, FinalStep, ZenonT(40) DEF CommitInv
  <1>10. ProgressInv(t)
    <2> SUFFICES ASSUME NEW q \in Server, NEW r \in Server, Leads(t, q)
                 PROVE  /\ Confirmed(t, q, r, t.match[q][r])
                        /\ t.next[q][r] <= Len(t.cache[q]) + 1
                        /\ t.match[q][r] > 0 => t.next[q][r] = t.match[q][r] + 1
                        /\ t.round[q][r] # Idle => Truthful(t, q, r, t.round[q][r].reply)
      BY DEF ProgressInv
    <2>1. \A i : Confirmed(s, q, r, i) => Confirmed(t, q, r, i)
      BY <1>1 DEF Confirmed
    <2>2. CASE q = n /\ r = p
      BY <1>1, <1>2, <2>1, <2>2
    <2>3. CASE q # n \/ r # p
      <3>1. /\ Confirmed(s, q, r, s.match[q][r])
            /\ s.next[q][r] <= Len(s.cache[q]) + 1
            /\ s.match[q][r] > 0 => s.next[q][r] = s.match[q][r] + 1
            /\ s.round[q][r] # Idle => Truthful(s, q, r, s.round[q][r].reply)
        BY <1>2 DEF ProgressInv
      <3>2. /\ t.next[q][r] = s.next[q][r] /\ t.match[q][r] = s.match[q][r]
            /\ t.round[q][r] = s.round[q][r]
        BY <1>7, <2>3
      <3>3. \A reply : Truthful(s, q, r, reply) => Truthful(t, q, r, reply)
        BY <1>1, <2>1, <3>2 DEF Truthful
      <3> QED
        BY <1>1, <2>1, <3>1, <3>2, <3>3
    <2> QED
      BY <2>2, <2>3
  <1> QED
    BY <1>3, <1>4, <1>5, <1>6, <1>8, <1>9, <1>10

\* Peer p's answer to leader n is on its way back.
Answer(s, t, n, p, r) ==
    /\ OnlyProgress(s, t, n, p) /\ Leads(s, n) /\ s.round[n][p] = Idle
    /\ t.next[n][p] = s.next[n][p] /\ t.match[n][p] = s.match[n][p]
    /\ t.round[n][p] = [at |-> "answered", reply |-> r]
    /\ Truthful(s, n, p, r) /\ (r.success => s.term[p] = s.term[n] /\ r.index \in Nat)

LEMMA AnswerStep ==
    ASSUME NEW s, NEW t, SafeInv(s), Types(t), NEW n \in Server, NEW p \in Server, NEW r,
           Answer(s, t, n, p, r)
    PROVE  SafeInv(t)
  <1>1. /\ OnlyProgress(s, t, n, p) /\ Leads(s, n) /\ s.round[n][p] = Idle
        /\ t.next[n][p] = s.next[n][p] /\ t.match[n][p] = s.match[n][p]
        /\ Truthful(s, n, p, r) /\ (r.success => s.term[p] = s.term[n] /\ r.index \in Nat)
        /\ Types(s) /\ VotesInv(s) /\ AnchorsInv(s) /\ ProgressInv(s)
    BY DEF Answer, SafeInv
  <1>2. t.round[n][p].at = "answered" /\ t.round[n][p].reply = r /\ s.round[n][p].at # "answered"
    <2>1. t.round[n][p] = [at |-> "answered", reply |-> r]
      BY DEF Answer
    <2>2. t.round[n][p].at = "answered" /\ t.round[n][p].reply = r
      BY <2>1, SMT
    <2>3. s.round[n][p].at # "answered"
      BY <1>1, SMT DEF Idle
    <2> QED
      BY <2>2, <2>3, SMT
  <1>3. ~Runs(s, n)
    <2>1. "Leader" # "Candidate"
      OBVIOUS
    <2> QED
      BY <1>1, <2>1 DEF Leads, Runs
  <1>4. t.term = s.term /\ t.cache = s.cache
    BY <1>1 DEF OnlyProgress, SameElection, SameLogs
  <1>5. Truthful(t, n, p, r)
    <2>1. \A i : Confirmed(s, n, p, i) => Confirmed(t, n, p, i)
      BY <1>4 DEF Confirmed
    <2> QED
      BY <1>1, <1>4, <2>1 DEF Truthful
  <1>6. ASSUME NEW i \in DOMAIN s.cache[n], s.cache[n][i].Term = s.term[n]
        PROVE  Anchored(s, SubSeq(s.cache[n], 1, i), Acked(t, n, i))
    <2>1. Anchored(s, SubSeq(s.cache[n], 1, i), Acked(s, n, i))
      BY <1>1, <1>6 DEF AnchorsInv
    <2>2. ASSUME NEW q \in Server, q # p PROVE q \in Acked(t, n, i) <=> q \in Acked(s, n, i)
      <3>1. t.match[n][q] = s.match[n][q] /\ t.round[n][q] = s.round[n][q]
        BY <1>1, <2>2 DEF OnlyProgress
      <3> QED
        BY <3>1 DEF Acked
    <2>3. Acked(t, n, i) \subseteq Server /\ Acked(s, n, i) \subseteq Server
      BY DEF Acked
    <2>4. CASE r.success /\ r.index >= i
      <3>1. p \in Acked(t, n, i)
        BY <1>2, <2>4 DEF Acked
      <3>2. Acked(t, n, i) = Acked(s, n, i) \cup {p}
        BY <2>2, <2>3, <3>1
      <3>3. PICK c, j, a : c = s.cache[n] /\ j = r.index /\ a = SubSeq(s.cache[n], 1, i)
        OBVIOUS
      <3>4. c \in Seq(Entries) /\ i \in DOMAIN c /\ j \in Nat /\ j >= i /\ c[i].Term = s.term[n]
        BY <1>1, <1>6, <2>4, <3>3, TypeFacts
      <3>5. j <= Len(c) /\ Has(s.cache[p], SubSeq(c, 1, j))
        BY <1>1, <2>4, <3>3 DEF Truthful, Confirmed
      <3>6. /\ a \in Seq(Entries) /\ DOMAIN a = 1 .. i /\ Len(a) = i /\ a[i] = c[i]
            /\ \A l \in 1 .. i : l \in DOMAIN SubSeq(c, 1, j) /\ SubSeq(c, 1, j)[l] = a[l]
        BY <3>3, <3>4, <3>5, SMT
      <3>7. Has(s.cache[p], a)
        BY <3>5, <3>6 DEF Has
      <3>8. s.term[p] = TermOf(a)
        BY <1>1, <2>4, <3>4, <3>6 DEF TermOf
      <3>9. Anchored(s, a, Acked(s, n, i) \cup {p})
        BY <1>1, <2>1, <3>3, <3>7, <3>8, AnchoredGrows
      <3> QED
        BY <3>2, <3>3, <3>9
    <2>5. CASE ~(r.success /\ r.index >= i)
      <3>1. p \in Acked(t, n, i) <=> p \in Acked(s, n, i)
        BY <1>1, <1>2, <2>5 DEF Acked
      <3>2. Acked(t, n, i) = Acked(s, n, i)
        <4>1. \A q \in Server : q \in Acked(t, n, i) <=> q \in Acked(s, n, i)
          BY <2>2, <3>1
        <4> QED
          BY <2>3, <4>1, SMT
      <3> QED
        BY <2>1, <3>2
    <2> QED
      BY <2>4, <2>5
  <1>7. /\ Confirmed(s, n, p, t.match[n][p])
        /\ t.next[n][p] <= Len(s.cache[n]) + 1
        /\ t.match[n][p] > 0 => t.next[n][p] = t.match[n][p] + 1
        /\ t.round[n][p] # Idle => Truthful(t, n, p, t.round[n][p].reply)
    BY <1>1, <1>2, <1>5 DEF ProgressInv
  <1> QED
    BY <1>1, <1>3, <1>6, <1>7, ProgressStep

\* The round is over: its answer was lost or told of a later term, or it is
\* taken into account.
Heard(s, t, n, p, r) ==
    /\ OnlyProgress(s, t, n, p) /\ s.round[n][p] # Idle /\ s.round[n][p].reply = r
    /\ t.round[n][p] = Idle
    /\ \/ t.next[n][p] = s.next[n][p] /\ t.match[n][p] = s.match[n][p]
       \/ /\ r.success
          /\ t.match[n][p] = IF s.match[n][p] >= r.index THEN s.match[n][p] ELSE r.index
          /\ t.next[n][p] = IF s.next[n][p] >= r.index + 1 THEN s.next[n][p] ELSE r.index + 1
       \/ /\ ~r.success /\ r.term <= r.asked
          /\ t.next[n][p] <= s.next[n][p] /\ t.match[n][p] = s.match[n][p]

LEMMA HeardStep ==
    ASSUME NEW s, NEW t, SafeInv(s), Types(t), NEW n \in Server, NEW p \in Server, NEW r,
           Heard(s, t, n, p, r)
    PROVE  SafeInv(t)
  <1>1. /\ OnlyProgress(s, t, n, p) /\ s.round[n][p] # Idle /\ s.round[n][p].reply = r
        /\ t.round[n][p] = Idle
        /\ Types(s) /\ VotesInv(s) /\ AnchorsInv(s) /\ ChainsInv(s) /\ ProgressInv(s)
    BY DEF Heard, SafeInv
  <1>2. ~Runs(s, n)
    BY <1>1 DEF VotesInv
  <1>3. s.round[n][p].at = "answered" /\ t.round[n][p].at # "answered"
    <2>1. s.round[n][p].at = "answered"
      BY <1>1, ReplyFacts
    <2>2. t.round[n][p].at # "answered"
      BY <1>1, SMT DEF Idle
    <2> QED
      BY <2>1, <2>2, SMT
  <1>4. ASSUME Leads(s, n)
        PROVE  /\ Confirmed(s, n, p, t.match[n][p])
               /\ t.next[n][p] <= Len(s.cache[n]) + 1
               /\ t.match[n][p] > 0 => t.next[n][p] = t.match[n][p] + 1
               /\ t.round[n][p] # Idle => Truthful(t, n, p, t.round[n][p].reply)
               /\ \A i \in DOMAIN s.cache[n] : s.cache[n][i].Term = s.term[n] =>
                     Anchored(s, SubSeq(s.cache[n], 1, i), Acked(t, n, i))
    <2>1. PICK k, k1, j, j1, l : /\ k = s.match[n][p] /\ k1 = t.match[n][p] /\ j = s.next[n][p]
                                 /\ j1 = t.next[n][p] /\ l = Len(s.cache[n])
      OBVIOUS
    <2>2. /\ Confirmed(s, n, p, k) /\ j <= l + 1 /\ (k > 0 => j = k + 1) /\ Truthful(s, n, p, r)
      BY <1>1, <1>4, <2>1 DEF ProgressInv
    <2>3. /\ k \in Nat /\ j \in Nat /\ j > 0 /\ k1 \in Nat /\ j1 \in Nat /\ l \in Nat /\ r.index \in Nat
          /\ r.asked \in Nat /\ r.term \in Nat /\ r.term >= r.asked
      BY <1>1, <2>1, TypeFacts, CacheFacts, ReplyFacts
    <2>4. /\ r.success => Confirmed(s, n, p, r.index) /\ r.index + 1 >= j /\ r.index <= l
          /\ ~r.success /\ r.term = r.asked => k = 0
      BY <2>1, <2>2 DEF Truthful, Confirmed
    <2>5. /\ k1 = k \/ (r.success /\ k1 = r.index)
          /\ j1 <= l + 1 /\ (k1 > 0 => j1 = k1 + 1)
      <3>1. CASE j1 = j /\ k1 = k
        BY <2>2, <3>1
      <3>2. CASE /\ r.success /\ k1 = (IF k >= r.index THEN k ELSE r.index)
                 /\ j1 = IF j >= r.index + 1 THEN j ELSE r.index + 1
        <4>1. r.index + 1 >= j /\ r.index <= l
          BY <2>4, <3>2
        <4>2. k <= r.index
          BY <2>2, <2>3, <4>1, SMT
        <4>3. k1 = r.index /\ j1 = r.index + 1
          BY <2>3, <3>2, <4>1, <4>2, SMT
        <4> QED
          BY <2>3, <3>2, <4>1, <4>3, SMT
      <3>3. CASE ~r.success /\ r.term <= r.asked /\ j1 <= j /\ k1 = k
        <4>1. r.term = r.asked
          BY <2>3, <3>3, SMT
        <4>2. k = 0
          BY <2>4, <3>3, <4>1
        <4> QED
          BY <2>2, <2>3, <3>3, <4>2, SMT
      <3> QED
        BY <2>1, <3>1, <3>2, <3>3 DEF Heard
    <2>6. Confirmed(s, n, p, k1)
      BY <2>2, <2>4, <2>5
    <2>7. ASSUME NEW i \in DOMAIN s.cache[n], s.cache[n][i].Term = s.term[n]
          PROVE  Anchored(s, SubSeq(s.cache[n], 1, i), Acked(t, n, i))
      <3>1. Anchored(s, SubSeq(s.cache[n], 1, i), Acked(s, n, i))
        BY <1>1, <1>4, <2>7 DEF AnchorsInv
      <3>2. n \in Acked(t, n, i)
        BY DEF Acked
      <3>3. ASSUME NEW q \in Acked(t, n, i) PROVE q \in Acked(s, n, i)
        <4>1. q \in Server
          BY DEF Acked
        <4>2. CASE q = p
          <5>1. p = n \/ k1 >= i
            BY <1>3, <2>1, <3>3, <4>2 DEF Acked
          <5>2. p = n \/ k >= i \/ (r.success /\ r.index >= i)
            BY <2>5, <5>1
          <5> QED
            BY <1>1, <1>3, <2>1, <4>1, <4>2, <5>2 DEF Acked
        <4>3. CASE q # p
          <5>1. t.match[n][q] = s.match[n][q] /\ t.round[n][q] = s.round[n][q]
            BY <1>1, <4>1, <4>3 DEF OnlyProgress
          <5> QED
            BY <3>3, <5>1 DEF Acked
        <4> QED
          BY <4>2, <4>3
      <3>4. Acked(t, n, i) \subseteq Acked(s, n, i) /\ Acked(t, n, i) # {}
        BY <3>2, <3>3
      <3> QED
        BY <3>1, <3>4, AnchoredShrinks
    <2> QED
      BY <1>1, <2>1, <2>5, <2>6, <2>7
  <1> QED
    BY <1>1, <1>2, <1>4, ProgressStep
=============================================================================
