------------------------- MODULE ConfigurationProofs -------------------------
(***************************************************************************)
(* What every decision of the cluster takes from its configuration: quorums *)
(* meet, within one configuration and across a membership change, and more  *)
(* votes never undo one.                                                    *)
(***************************************************************************)
EXTENDS Configuration, FiniteSetsExt, FiniteSetTheorems, TLAPS

\* Two majorities of one finite set share a member (hasMajority).
LEMMA MajoritiesMeet ==
    ASSUME NEW M, IsFiniteSet(M), M # {},
           NEW P, NEW Q, hasMajority(M, P), hasMajority(M, Q)
    PROVE  P \cap Q # {}
<1>1. /\ Cardinality(M \cap P) > Cardinality(M) \div 2
      /\ Cardinality(M \cap Q) > Cardinality(M) \div 2
  BY DEF hasMajority
<1>2. /\ Cardinality(M) \in Nat
      /\ Cardinality(M \cap P) \in Nat
      /\ Cardinality(M \cap Q) \in Nat
  BY FS_CardinalityType, FS_Subset, M \cap P \subseteq M, M \cap Q \subseteq M
<1>3. Cardinality(M \cap P) + Cardinality(M \cap Q) > Cardinality(M)
  BY <1>1, <1>2
<1>4. (M \cap P) \cap (M \cap Q) # {}
  BY <1>3, FS_MajoritiesIntersect, M \cap P \subseteq M, M \cap Q \subseteq M
<1> QED
  BY <1>4

\* A set that contains a majority is one (hasMajority).
LEMMA MajorityGrows ==
    ASSUME NEW M, IsFiniteSet(M), NEW P, NEW Q, P \subseteq Q, hasMajority(M, P)
    PROVE  hasMajority(M, Q)
<1>1. IsFiniteSet(M \cap Q) /\ M \cap P \subseteq M \cap Q
  BY FS_Subset, M \cap Q \subseteq M
<1>2. /\ Cardinality(M \cap P) \in Nat
      /\ Cardinality(M \cap Q) \in Nat
      /\ Cardinality(M) \in Nat
      /\ Cardinality(M \cap P) <= Cardinality(M \cap Q)
  BY <1>1, FS_Subset, FS_CardinalityType
<1> QED
  BY <1>2 DEF hasMajority

\* The voters of a configuration over finitely many servers are finitely many.
LEMMA VotersAreFinite ==
    ASSUME NEW S, IsFiniteSet(S), NEW c \in Configurations(S)
    PROVE  IsFiniteSet(c.Voters) /\ IsFiniteSet(c.OldVoters)
<1>1. c.Voters \subseteq S /\ c.OldVoters \subseteq S
  BY DEF Configurations
<1> QED
  BY <1>1, FS_Subset

\* Any two quorums of a valid configuration share a voter, joint or not
\* (Configuration.HasQuorum).
THEOREM QuorumsIntersect ==
    ASSUME NEW S, IsFiniteSet(S),
           NEW c \in Configurations(S), Validate(c),
           NEW P, NEW Q, HasQuorum(c, P), HasQuorum(c, Q)
    PROVE  P \cap Q # {}
  BY VotersAreFinite, MajoritiesMeet DEF HasQuorum, Validate

\* More votes never undo a quorum (Configuration.HasQuorum).
THEOREM QuorumGrows ==
    ASSUME NEW S, IsFiniteSet(S), NEW c \in Configurations(S),
           NEW P, NEW Q, P \subseteq Q, HasQuorum(c, P)
    PROVE  HasQuorum(c, Q)
  BY VotersAreFinite, MajorityGrows DEF HasQuorum

\* A membership change is safe at both of its ends ("Agreement requires separate
\* majorities from both the old and new configurations", HasQuorum): whoever the
\* target is, a quorum of the joint configuration meets every quorum of the
\* configuration it was entered from, and every quorum of the one it is left
\* for, so no two of the three elect leaders or commit entries apart
\* (EnterJoint, LeaveJoint).
THEOREM JointQuorumsIntersect ==
    ASSUME NEW S, IsFiniteSet(S),
           NEW c \in Configurations(S), Validate(c),
           NEW target \in SUBSET S, target # {}, NEW learners \in SUBSET S,
           NEW P, HasQuorum(EnterJoint(c, target, learners), P)
    PROVE  /\ Validate(EnterJoint(c, target, learners))
           /\ \A Q : HasQuorum(c, Q) => P \cap Q # {}
           /\ \A Q : HasQuorum(LeaveJoint(EnterJoint(c, target, learners)), Q) => P \cap Q # {}
<1> DEFINE joint == EnterJoint(c, target, learners)
<1>1. joint.Voters = target /\ joint.OldVoters = c.Voters /\ joint.Learners = learners \ target
  BY DEF EnterJoint
<1>2. c.Voters # {} /\ IsFiniteSet(c.Voters) /\ IsFiniteSet(target)
  BY VotersAreFinite, FS_Subset DEF Validate
<1>3. hasMajority(target, P) /\ hasMajority(c.Voters, P)
  BY <1>1, <1>2 DEF HasQuorum, IsJoint
<1>4. ASSUME NEW Q, HasQuorum(c, Q)
      PROVE  P \cap Q # {}
  BY <1>2, <1>3, <1>4, MajoritiesMeet DEF HasQuorum
<1>5. ASSUME NEW Q, HasQuorum(LeaveJoint(joint), Q)
      PROVE  P \cap Q # {}
  <2>1. hasMajority(target, Q)
    BY <1>1, <1>5 DEF LeaveJoint, HasQuorum
  <2> QED
    BY <1>2, <1>3, <2>1, MajoritiesMeet
<1>6. Validate(joint)
  BY <1>1 DEF Validate
<1> QED
  BY <1>4, <1>5, <1>6

(***************************************************************************)
(* The commit index a quorum holds                                          *)
(***************************************************************************)

\* A set of naturals that is not empty has a least element.
LEMMA LeastNatural ==
    ASSUME NEW T, T \subseteq Nat, T # {}
    PROVE  \E x \in T : \A y \in T : x <= y
<1> DEFINE less == OpToRel(<, Nat)
<1>1. PICK x \in T : \A y \in T : <<y, x>> \notin less
  <2>1. IsWellFoundedOn(less, Nat)
    BY NatLessThanWellFounded
  <2> HIDE DEF less
  <2> QED
    BY <2>1, WFMin
<1>2. ASSUME NEW y \in T, y < x
      PROVE  FALSE
  <2>1. <<y, x>> \in less
    BY <1>2, Zenon DEF OpToRel
  <2> QED
    BY <1>1, <2>1, Zenon
<1>3. \A y \in T : x <= y
  BY <1>2
<1> QED
  BY <1>3

\* Induction on the naturals, for a property given as a set.
LEMMA NaturalInduction ==
    ASSUME NEW S, 0 \in S, \A n \in Nat : n \in S => n + 1 \in S
    PROVE  Nat \subseteq S
<1> SUFFICES ASSUME NEW n \in Nat, n \notin S PROVE FALSE
  OBVIOUS
<1> DEFINE T == {k \in Nat : k \notin S}
<1>1. PICK x \in T : \A y \in T : x <= y
  <2>1. T \subseteq Nat /\ n \in T
    OBVIOUS
  <2> HIDE DEF T
  <2> QED
    BY <2>1, LeastNatural
<1>2. x # 0 /\ x - 1 \in Nat /\ x - 1 < x /\ (x - 1) + 1 = x
  OBVIOUS
<1>3. x - 1 \in S
  BY <1>1, <1>2
<1> QED
  BY <1>2, <1>3

\* The sort succeeds: finitely many members can be listed by descending index
\* (majorityIndex).
LEMMA DescendingExists ==
    ASSUME NEW M, IsFiniteSet(M), NEW match, \A m \in M : match[m] \in Nat
    PROVE  \E ids \in [1..Cardinality(M) -> M] :
               /\ IsInjective(ids)
               /\ \A i, j \in DOMAIN ids : i < j => match[ids[i]] >= match[ids[j]]
<1> DEFINE Sorts(ids) == /\ IsInjective(ids)
                         /\ \A i, j \in DOMAIN ids : i < j => match[ids[i]] >= match[ids[j]]
           Sortable == {n \in Nat : \A N \in SUBSET M :
                            Cardinality(N) = n => \E ids \in [1..n -> N] : Sorts(ids)}
<1>1. 0 \in Sortable
  <2> SUFFICES ASSUME NEW N \in SUBSET M, Cardinality(N) = 0
               PROVE  \E ids \in [1..0 -> N] : Sorts(ids)
    OBVIOUS
  <2>1. [i \in 1..0 |-> i] \in [1..0 -> N]
    OBVIOUS
  <2>2. Sorts([i \in 1..0 |-> i])
    BY DEF IsInjective
  <2> QED
    BY <2>1, <2>2
<1>2. ASSUME NEW n \in Nat, n \in Sortable
      PROVE  n + 1 \in Sortable
  <2> SUFFICES ASSUME NEW N \in SUBSET M, Cardinality(N) = n + 1
               PROVE  \E ids \in [1..(n + 1) -> N] : Sorts(ids)
    OBVIOUS
  <2>1. IsFiniteSet(N) /\ N # {}
    BY FS_Subset, FS_EmptySet
  <2>2. PICK x \in N : \A y \in N : match[x] <= match[y]
    <3> DEFINE T == {match[y] : y \in N}
    <3>1. T \subseteq Nat /\ T # {}
      BY <2>1
    <3>2. PICK v \in T : \A w \in T : v <= w
      <4> HIDE DEF T
      <4> QED
        BY <3>1, LeastNatural
    <3> QED
      BY <3>2
  <2>3. Cardinality(N \ {x}) = n /\ N \ {x} \in SUBSET M
    <3>1. Cardinality(N \ {x}) = Cardinality(N) - 1
      BY <2>1, FS_RemoveElement
    <3> QED
      BY <3>1
  <2>4. PICK rest \in [1..n -> N \ {x}] : Sorts(rest)
    BY <1>2, <2>3
  <2> DEFINE ids == [i \in 1..(n + 1) |-> IF i = n + 1 THEN x ELSE rest[i]]
  <2>5. \A i \in 1..(n + 1) : i # n + 1 => i \in 1..n /\ ids[i] = rest[i] /\ rest[i] \in N \ {x}
    OBVIOUS
  <2>6. ids[n + 1] = x /\ DOMAIN ids = 1..(n + 1)
    OBVIOUS
  <2>7. ids \in [1..(n + 1) -> N]
    BY <2>5
  <2>8. IsInjective(ids)
    <3> HIDE DEF ids
    <3> QED
      BY <2>4, <2>5, <2>6 DEF IsInjective
  <2>9. \A i, j \in DOMAIN ids : i < j => match[ids[i]] >= match[ids[j]]
    <3> SUFFICES ASSUME NEW i \in 1..(n + 1), NEW j \in 1..(n + 1), i < j
                 PROVE  match[ids[i]] >= match[ids[j]]
      BY <2>6
    <3>1. i # n + 1 /\ i \in 1..n /\ ids[i] = rest[i] /\ rest[i] \in N
      BY <2>5
    <3>2. CASE j = n + 1
      BY <2>2, <2>6, <3>1, <3>2
    <3>3. CASE j # n + 1
      BY <2>4, <2>5, <3>1, <3>3
    <3> QED
      BY <3>2, <3>3
  <2> QED
    BY <2>7, <2>8, <2>9
<1>3. Nat \subseteq Sortable
  <2> HIDE DEF Sortable
  <2> QED
    BY <1>1, <1>2, NaturalInduction
<1>4. Cardinality(M) \in Nat
  BY FS_CardinalityType
<1> QED
  BY <1>3, <1>4

\* The middle of the sorted indices is the highest index a majority has
\* reached (majorityIndex).
LEMMA MajorityIndexIsExact ==
    ASSUME NEW M, IsFiniteSet(M), M # {}, NEW S, M \subseteq S,
           NEW match, \A m \in S : match[m] \in Nat
    PROVE  /\ majorityIndex(M, match) \in Nat
           /\ \E m \in M : majorityIndex(M, match) = match[m]
           /\ \A i \in Nat : hasMajority(M, {m \in S : match[m] >= i}) <=> i <= majorityIndex(M, match)
<1> DEFINE n == Cardinality(M)
           k == n \div 2 + 1
           ids == Descending(M, match)
           holders(i) == {m \in S : match[m] >= i}
<1>1. n \in Nat /\ n # 0 /\ k \in 1..n
  BY FS_CardinalityType, FS_EmptySet
<1>2. /\ ids \in [1..n -> M]
      /\ IsInjective(ids)
      /\ \A i, j \in 1..n : i < j => match[ids[i]] >= match[ids[j]]
  BY DescendingExists DEF Descending
<1>3. majorityIndex(M, match) = match[ids[k]]
  BY Zenon DEF majorityIndex
<1> HIDE DEF n, k, ids
<1>4. ids[k] \in M /\ match[ids[k]] \in Nat
  BY <1>1, <1>2
<1>5. ASSUME NEW i \in Nat, i <= match[ids[k]]
      PROVE  hasMajority(M, holders(i))
  <2> DEFINE top == [j \in 1..k |-> ids[j]]
  <2>1. \A j \in 1..k : j \in 1..n /\ ids[j] \in M \cap holders(i)
    <3> SUFFICES ASSUME NEW j \in 1..k PROVE j \in 1..n /\ ids[j] \in M \cap holders(i)
      OBVIOUS
    <3>1. j \in 1..n /\ ids[j] \in M /\ match[ids[j]] \in Nat /\ (j < k \/ j = k)
      BY <1>1, <1>2
    <3>2. match[ids[j]] >= match[ids[k]]
      BY <1>1, <1>2, <1>4, <3>1
    <3> QED
      BY <1>4, <1>5, <3>1, <3>2
  <2>2. top \in Injection(1..k, M \cap holders(i))
    BY <1>2, <2>1 DEF Injection, IsInjective
  <2>3. IsFiniteSet(M \cap holders(i))
    BY FS_Subset, M \cap holders(i) \subseteq M
  <2>4. Cardinality(1..k) = k
    BY <1>1, FS_Interval
  <2>5. Cardinality(1..k) <= Cardinality(M \cap holders(i))
    <3> HIDE DEF top
    <3> QED
      BY <2>2, <2>3, FS_Injection
  <2>6. Cardinality(M \cap holders(i)) \in Nat
    BY <2>3, FS_CardinalityType
  <2> QED
    BY <1>1, <2>4, <2>5, <2>6 DEF hasMajority, n, k
<1>6. ASSUME NEW i \in Nat, i > match[ids[k]]
      PROVE  ~hasMajority(M, holders(i))
  <2>1. ids \in Injection(1..n, M)
    BY <1>2 DEF Injection
  <2>2. Cardinality(1..n) = n
    BY <1>1, FS_Interval
  <2>3. ids \in Surjection(1..n, M)
    BY <2>1, <2>2, FS_Injection DEF n
  <2> DEFINE low == [j \in 1..(k - 1) |-> ids[j]]
             high == {ids[j] : j \in 1..(k - 1)}
  <2>4. M \cap holders(i) \subseteq high
    <3> SUFFICES ASSUME NEW m \in M, match[m] >= i PROVE m \in high
      OBVIOUS
    <3>1. PICK j \in 1..n : ids[j] = m
      BY <2>3 DEF Surjection
    <3>2. match[m] \in Nat
      OBVIOUS
    <3>3. ~(k < j) /\ j # k
      BY <1>1, <1>2, <1>4, <1>6, <3>1, <3>2
    <3> QED
      BY <1>1, <3>1, <3>3
  <2>5. low \in Surjection(1..(k - 1), high)
    BY DEF Surjection
  <2>6. IsFiniteSet(1..(k - 1)) /\ Cardinality(1..(k - 1)) = k - 1
    BY <1>1, FS_Interval
  <2>7. IsFiniteSet(high) /\ Cardinality(high) <= k - 1
    <3> HIDE DEF low, high
    <3> QED
      BY <2>5, <2>6, FS_Surjection
  <2>8. /\ Cardinality(M \cap holders(i)) <= Cardinality(high)
        /\ Cardinality(M \cap holders(i)) \in Nat
        /\ Cardinality(high) \in Nat
    <3> HIDE DEF high, holders
    <3> QED
      BY <2>4, <2>7, FS_Subset, FS_CardinalityType
  <2> QED
    BY <1>1, <2>7, <2>8 DEF hasMajority, n, k
<1> QED
  BY <1>3, <1>4, <1>5, <1>6

\* The index a leader commits up to is exactly the highest one a quorum holds,
\* simple or joint (Configuration.QuorumIndex): whatever it is asked for, an
\* index is at most that if and only if the servers that have reached it are a
\* quorum.
THEOREM QuorumIndexIsHighest ==
    ASSUME NEW S, IsFiniteSet(S), NEW c \in Configurations(S), Validate(c),
           NEW match \in [S -> Nat]
    PROVE  /\ QuorumIndex(c, match) \in Nat
           /\ \E m \in S : QuorumIndex(c, match) = match[m]
           /\ \A i \in Nat : HasQuorum(c, {m \in S : match[m] >= i}) <=> i <= QuorumIndex(c, match)
<1> DEFINE holders(i) == {m \in S : match[m] >= i}
           idx == majorityIndex(c.Voters, match)
           old == majorityIndex(c.OldVoters, match)
<1>1. /\ IsFiniteSet(c.Voters) /\ IsFiniteSet(c.OldVoters)
      /\ c.Voters \subseteq S /\ c.OldVoters \subseteq S
      /\ c.Voters # {}
  BY VotersAreFinite DEF Configurations, Validate
<1>2. /\ idx \in Nat
      /\ \E m \in S : idx = match[m]
      /\ \A i \in Nat : hasMajority(c.Voters, holders(i)) <=> i <= idx
  <2>1. \A m \in S : match[m] \in Nat
    OBVIOUS
  <2> HIDE DEF idx
  <2> QED
    BY <1>1, <2>1, MajorityIndexIsExact DEF idx
<1>3. ASSUME c.OldVoters # {}
      PROVE  /\ old \in Nat
             /\ \E m \in S : old = match[m]
             /\ \A i \in Nat : hasMajority(c.OldVoters, holders(i)) <=> i <= old
  <2>1. \A m \in S : match[m] \in Nat
    OBVIOUS
  <2> HIDE DEF old
  <2> QED
    BY <1>1, <1>3, <2>1, MajorityIndexIsExact DEF old
<1>4. QuorumIndex(c, match) = IF IsJoint(c) /\ old < idx THEN old ELSE idx
  BY Zenon DEF QuorumIndex
<1> HIDE DEF idx, old, holders
<1>5. \A i : HasQuorum(c, holders(i)) <=>
               /\ hasMajority(c.Voters, holders(i))
               /\ c.OldVoters # {} => hasMajority(c.OldVoters, holders(i))
  BY DEF HasQuorum, IsJoint
<1>6. /\ QuorumIndex(c, match) \in Nat
      /\ \E m \in S : QuorumIndex(c, match) = match[m]
      /\ \A i \in Nat : HasQuorum(c, holders(i)) <=> i <= QuorumIndex(c, match)
  <2>1. CASE c.OldVoters = {}
    BY <1>2, <1>4, <1>5, <2>1 DEF IsJoint
  <2>2. CASE c.OldVoters # {}
    BY <1>2, <1>3, <1>4, <1>5, <2>2 DEF IsJoint
  <2> QED
    BY <2>1, <2>2
<1> QED
  BY <1>6 DEF holders

\* Max of two numbers, as boundaries and rounds are raised.
LEMMA MaxOfTwo ==
    ASSUME NEW a \in Nat, NEW b \in Nat
    PROVE  /\ Max({a, b}) \in Nat
           /\ Max({a, b}) = IF a >= b THEN a ELSE b
  <1> DEFINE m == IF a >= b THEN a ELSE b
  <1>1. m \in {a, b} /\ \A y \in {a, b} : m >= y
    OBVIOUS
  <1>2. Max({a, b}) \in {a, b} /\ \A y \in {a, b} : Max({a, b}) >= y
    BY <1>1 DEF Max
  <1> QED
    BY <1>2
=============================================================================
