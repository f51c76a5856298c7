--------------------------- MODULE ApplyLoopProofs ---------------------------
(***************************************************************************)
(* The state machine and the snapshot file hold what they claim to, and no  *)
(* entry is missing when its turn comes, for every log, compaction          *)
(* threshold and number of failures and crashes, when installations do not  *)
(* overlap the control loop (Windows = {}).                                 *)
(***************************************************************************)
EXTENDS ApplyLoop, ConfigurationProofs, TLAPS

(***************************************************************************)
(* The inductive invariant                                                  *)
(***************************************************************************)

\* The log and the snapshot file overlap or meet, and what is applied is not
\* beyond what is committed.
Boundaries ==
    /\ committed \in Logs
    /\ {firstIndex, commitIndex, lastApplied, snapshot.index} \subseteq Nat
    /\ firstIndex <= lastApplied + 1
    /\ firstIndex <= snapshot.index + 1
    /\ lastApplied <= commitIndex
    /\ commitIndex <= Len(committed)
    /\ snapshot.index <= Len(committed)

\* The control loop's copies are still what they were copied from.
LoopInStep ==
    /\ loop \in [at : {"idle", "apply", "fetched", "applied", "chosen", "written"},
                 commitIndex : Nat, lastApplied : Nat]
    /\ loop.at \in {"apply", "fetched", "applied", "chosen"} => loop.lastApplied = lastApplied
    /\ loop.at \in {"apply", "fetched", "applied"} => loop.commitIndex <= commitIndex
    /\ loop.at \in {"fetched", "applied"} => loop.lastApplied < loop.commitIndex
    /\ loop.at = "written" => loop.lastApplied <= lastApplied /\ loop.lastApplied <= snapshot.index

\* An installation finds the loop idle and brings the state forward.
InstallInStep ==
    /\ install \in [at : {"none", "restored", "persisted"}, index : Nat]
    /\ install.at = "none" => install = NotInstalling
    /\ install.at # "none" => /\ loop.at = "idle"
                              /\ lastApplied < install.index
                              /\ install.index <= Len(committed)
                              /\ machine = Meaning[committed][install.index]
    /\ install.at = "persisted" => ~unsaved /\ snapshot.index = install.index

IndInv ==
    /\ Boundaries
    /\ LoopInStep
    /\ InstallInStep
    /\ unsaved \in BOOLEAN
    /\ StateMachineSafety
    /\ SnapshotFaithful

(***************************************************************************)
(* Lemmas                                                                   *)
(***************************************************************************)

\* A snapshot gives back the state it was taken of (Snapshot, Restore).
LEMMA RoundTrip ==
    ASSUME NEW log \in Logs, NEW i \in 0 .. Len(log)
    PROVE  /\ Snapshot(Meaning[log][i]) = Meaning[log][i]
           /\ Restore(Meaning[log][i]) = Meaning[log][i]
  BY MeaningAssumption DEF IsMachine, Snapshot, Restore

\* The empty store is the meaning of no command at all.
LEMMA EmptyMeaning ==
    ASSUME NEW log \in Logs
    PROVE  Len(log) \in Nat /\ Meaning[log][0] = NewMemoryStateMachine
  BY ApplyLoopAssumption, MeaningAssumption

(***************************************************************************)
(* Deduplication: what the executed commands of a log prefix look like      *)
(***************************************************************************)

\* The entries of a log are commands.
LEMMA CommandTypes ==
    ASSUME NEW log \in Logs, NEW k \in 1 .. Len(log)
    PROVE  /\ log[k].ClientID \in Client \cup {Anonymous}
           /\ log[k].Seq \in Nat
           /\ log[k].Timestamp \in Nat
  <1> DEFINE Cmds == [Op : {"set", "delete"}, Key : Key, ClientID : Client \cup {Anonymous},
                      Seq : Nat, Timestamp : Nat]
                     \cup [Op : {"noop"}, ClientID : {Anonymous}, Seq : {0}, Timestamp : Nat]
  <1>1. log \in Seq(Cmds)
    BY ApplyLoopAssumption
  <1>2. log[k] \in Cmds
    <2> HIDE DEF Cmds
    <2> QED
      BY <1>1
  <1> QED
    BY <1>2

\* The replicated clock is the highest timestamp so far: it starts at 0 and each
\* command moves it on or leaves it (ClockAt, Advanced).
LEMMA ClockSteps ==
    ASSUME NEW log \in Logs
    PROVE  /\ ClockAt(log, 0) = 0
           /\ \A k \in 0 .. Len(log) : ClockAt(log, k) \in Nat
           /\ \A k \in 1 .. Len(log) :
                 ClockAt(log, k) = Max({ClockAt(log, k - 1), log[k].Timestamp})
           /\ \A i, k \in 0 .. Len(log) : i <= k => ClockAt(log, i) <= ClockAt(log, k)
  <1> DEFINE Stamps(k) == {0} \cup {log[j].Timestamp : j \in 1 .. k}
             IsMax(x, k) == x \in Stamps(k) /\ \A y \in Stamps(k) : x >= y
             S == {k \in Nat : k <= Len(log) => \E x \in Nat : IsMax(x, k)}
  <1>1. Len(log) \in Nat
    BY EmptyMeaning
  <1>2. \A k \in 0 .. Len(log) : Stamps(k) \subseteq Nat
    BY <1>1, CommandTypes
  <1>3. 0 \in S
    <2>1. IsMax(0, 0)
      OBVIOUS
    <2> QED
      BY <2>1
  <1>4. ASSUME NEW k \in Nat, k \in S, k + 1 <= Len(log)
        PROVE  \E x \in Nat : IsMax(x, k + 1)
    <2>1. PICK x \in Nat : IsMax(x, k)
      BY <1>1, <1>4
    <2> DEFINE t == log[k + 1].Timestamp
    <2>2. t \in Nat
      BY <1>1, <1>4, CommandTypes
    <2>3. Stamps(k + 1) = Stamps(k) \cup {t}
      <3>1. \A j \in 1 .. (k + 1) : j \in 1 .. k \/ j = k + 1
        OBVIOUS
      <3>2. \A j \in 1 .. k : j \in 1 .. (k + 1)
        OBVIOUS
      <3>3. k + 1 \in 1 .. (k + 1)
        OBVIOUS
      <3> QED
        BY <3>1, <3>2, <3>3, Zenon
    <2>4. \A y \in Stamps(k) : y \in Nat
      <3>1. k \in 0 .. Len(log)
        BY <1>1, <1>4
      <3> HIDE DEF Stamps
      <3> QED
        BY <1>2, <3>1
    <2>5. IsMax(IF x >= t THEN x ELSE t, k + 1)
      <3> HIDE DEF t, Stamps
      <3> QED
        BY <2>1, <2>2, <2>3, <2>4
    <2> QED
      BY <2>2, <2>5
  <1>5. Nat \subseteq S
    <2>1. ASSUME NEW k \in Nat, k \in S PROVE k + 1 \in S
      <3>1. k + 1 \in Nat
        OBVIOUS
      <3>2. k + 1 <= Len(log) => \E x \in Nat : IsMax(x, k + 1)
        BY <1>4, <2>1, Zenon
      <3> HIDE DEF IsMax
      <3> QED
        BY <3>1, <3>2, Zenon
    <2> HIDE DEF S
    <2> QED
      BY <1>3, <2>1, NaturalInduction
  <1>6. \A k \in 0 .. Len(log) : IsMax(ClockAt(log, k), k) /\ ClockAt(log, k) \in Nat
    <2> SUFFICES ASSUME NEW k \in 0 .. Len(log)
                 PROVE  IsMax(ClockAt(log, k), k) /\ ClockAt(log, k) \in Nat
      OBVIOUS
    <2>1. \E x \in Stamps(k) : \A y \in Stamps(k) : x >= y
      <3>1. k \in Nat /\ k <= Len(log)
        BY <1>1
      <3> HIDE DEF Stamps
      <3> QED
        BY <1>5, <3>1
    <2>2. ClockAt(log, k) = CHOOSE x \in Stamps(k) : \A y \in Stamps(k) : x >= y
      BY Zenon DEF ClockAt, Max
    <2>3. IsMax(ClockAt(log, k), k)
      <3> HIDE DEF Stamps
      <3> QED
        BY <2>1, <2>2
    <2> QED
      BY <1>2, <2>3
  <1>7. ClockAt(log, 0) = 0
    BY <1>1, <1>6
  <1>8. ASSUME NEW k \in 1 .. Len(log)
        PROVE  ClockAt(log, k) = Max({ClockAt(log, k - 1), log[k].Timestamp})
    <2> DEFINE a == ClockAt(log, k - 1)
               b == ClockAt(log, k)
               t == log[k].Timestamp
    <2>1. k - 1 \in 0 .. Len(log) /\ k \in 0 .. Len(log)
      BY <1>1
    <2>2. IsMax(a, k - 1) /\ IsMax(b, k) /\ a \in Nat /\ b \in Nat /\ t \in Nat
      BY <1>6, <2>1, CommandTypes
    <2>3. Stamps(k) = Stamps(k - 1) \cup {t}
      <3>1. \A j \in 1 .. k : j \in 1 .. (k - 1) \/ j = k
        BY <1>1
      <3>2. \A j \in 1 .. (k - 1) : j \in 1 .. k
        BY <1>1
      <3>3. k \in 1 .. k
        BY <1>1
      <3> QED
        BY <3>1, <3>2, <3>3, Zenon
    <2>4. b = IF a >= t THEN a ELSE t
      <3> HIDE DEF a, b, t, Stamps
      <3> QED
        BY <2>2, <2>3
    <2> HIDE DEF a, b, t
    <2>5. Max({a, t}) = IF a >= t THEN a ELSE t
      BY <2>2, MaxOfTwo
    <2> QED
      BY <2>4, <2>5 DEF a, b, t
  <1>9. ASSUME NEW i \in 0 .. Len(log), NEW k \in 0 .. Len(log), i <= k
        PROVE  ClockAt(log, i) <= ClockAt(log, k)
    <2>1. Stamps(i) \subseteq Stamps(k)
      <3>1. \A j \in 1 .. i : j \in 1 .. k
        BY <1>1, <1>9
      <3> QED
        BY <3>1, Zenon
    <2> HIDE DEF Stamps
    <2> QED
      BY <1>6, <2>1
  <1> QED
    BY <1>6, <1>7, <1>8, <1>9

\* What a command finds when it is applied: the clock moved on, and of the dedup
\* table perhaps only the sessions used within the TTL (Advanced, expireSessions).
Swept(m, cmd) == expireSessions(Advanced(m, cmd))

\* A state of the kind the lemmas speak of.
MachineOK(m) ==
    /\ IsMachine(m)
    /\ m.now \in Nat
    /\ DOMAIN m.sessions \subseteq Client
    /\ \A c \in DOMAIN m.sessions : m.sessions[c].LastSeq \in Nat /\ m.sessions[c].LastUsed \in Nat

CommandOK(cmd) ==
    /\ cmd.ClientID \in Client \cup {Anonymous}
    /\ cmd.Seq \in Nat
    /\ cmd.Timestamp \in Nat

\* A sweep forgets only sessions past the TTL, and changes nothing else.
LEMMA SweptFields ==
    ASSUME NEW m, MachineOK(m), NEW cmd, CommandOK(cmd)
    PROVE  /\ MachineOK(Swept(m, cmd))
           /\ Swept(m, cmd).now = Max({m.now, cmd.Timestamp})
           /\ Swept(m, cmd).executed = m.executed
           /\ DOMAIN Swept(m, cmd).sessions \subseteq DOMAIN m.sessions
           /\ \A c \in DOMAIN Swept(m, cmd).sessions : Swept(m, cmd).sessions[c] = m.sessions[c]
           /\ \A c \in DOMAIN m.sessions \ DOMAIN Swept(m, cmd).sessions :
                 m.sessions[c].LastUsed < Swept(m, cmd).now - SessionTTL
  <1> DEFINE a == Advanced(m, cmd)
  <1>1. /\ IsMachine(a)
        /\ a.now = Max({m.now, cmd.Timestamp}) /\ a.now \in Nat
        /\ a.executed = m.executed /\ a.sessions = m.sessions
    BY MaxOfTwo DEF Advanced, MachineOK, IsMachine, CommandOK
  <1>2. Swept(m, cmd) = expireSessions(a)
    BY DEF Swept
  <1> HIDE DEF a
  <1>3. CASE a.appliesSinceSweep + 1 < SweepInterval
    <2>1. expireSessions(a) = [a EXCEPT !.appliesSinceSweep = @ + 1]
      BY <1>3, Zenon DEF expireSessions
    <2>2. /\ IsMachine(expireSessions(a))
          /\ expireSessions(a).now = a.now
          /\ expireSessions(a).executed = a.executed
          /\ expireSessions(a).sessions = a.sessions
      BY <1>1, <2>1 DEF IsMachine
    <2> QED
      BY <1>1, <1>2, <2>2 DEF MachineOK
  <1>4. CASE ~(a.appliesSinceSweep + 1 < SweepInterval)
    <2> DEFINE live == {c \in DOMAIN a.sessions : a.sessions[c].LastUsed >= a.now - SessionTTL}
    <2>1. expireSessions(a) = [a EXCEPT !.appliesSinceSweep = 0,
                                        !.sessions = [c \in live |-> @[c]]]
      BY <1>4, Zenon DEF expireSessions
    <2>2. /\ IsMachine(expireSessions(a))
          /\ expireSessions(a).now = a.now
          /\ expireSessions(a).executed = a.executed
          /\ expireSessions(a).sessions = [c \in live |-> a.sessions[c]]
      <3> HIDE DEF live
      <3> QED
        BY <1>1, <2>1 DEF IsMachine
    <2>3. \A c \in DOMAIN m.sessions \ live : m.sessions[c].LastUsed < a.now - SessionTTL
      BY <1>1, StateMachineAssumption DEF MachineOK
    <2> QED
      BY <1>1, <1>2, <2>2, <2>3 DEF MachineOK
  <1> QED
    BY <1>3, <1>4

\* The dedup table once a command has been recorded.
Table(s, cmd) ==
    IF cmd.ClientID = Anonymous
    THEN s.sessions
    ELSE [c \in DOMAIN s.sessions \cup {cmd.ClientID} |->
             IF c = cmd.ClientID THEN [LastSeq |-> cmd.Seq, LastUsed |-> s.now] ELSE s.sessions[c]]

\* A retransmission changes nothing but what every command does (Duplicate).
LEMMA AppliedDuplicate ==
    ASSUME NEW m, NEW index, NEW cmd, Duplicate(Swept(m, cmd), cmd)
    PROVE  Apply(m, index, cmd) = Swept(m, cmd)
  BY Zenon DEF Apply, Swept

\* A command that is not a retransmission is executed and remembered, with the
\* time of the replicated clock if it has a client (execute, Recorded).
LEMMA AppliedNew ==
    ASSUME NEW m, MachineOK(m), NEW index, NEW cmd, CommandOK(cmd), ~Duplicate(Swept(m, cmd), cmd)
    PROVE  /\ MachineOK(Apply(m, index, cmd))
           /\ Apply(m, index, cmd).now = Swept(m, cmd).now
           /\ Apply(m, index, cmd).executed = m.executed \cup {index}
           /\ Apply(m, index, cmd).sessions = Table(Swept(m, cmd), cmd)
  <1> DEFINE s == Swept(m, cmd)
             x == execute(s, index, cmd)
             table == Table(s, cmd)
  <1>1. MachineOK(s) /\ s.executed = m.executed
    BY SweptFields, Zenon
  <1>2. Apply(m, index, cmd) = Recorded(x, cmd)
    BY Zenon DEF Apply, Swept
  <1> HIDE DEF s
  <1>3. /\ IsMachine(x) /\ x.now = s.now /\ x.sessions = s.sessions
        /\ x.executed = m.executed \cup {index}
    <2> DEFINE d == IF cmd.Op = "noop" THEN s.data
                    ELSE [s.data EXCEPT ![cmd.Key] = IF cmd.Op = "set" THEN index ELSE Absent]
    <2>1. x = [s EXCEPT !.executed = s.executed \cup {index}, !.data = d]
      BY Zenon DEF execute
    <2> HIDE DEF d, x
    <2> QED
      BY <1>1, <2>1 DEF IsMachine, MachineOK
  <1> HIDE DEF x
  <1>4. Recorded(x, cmd) = [x EXCEPT !.sessions = table]
    <2>1. CASE cmd.ClientID = Anonymous
      <3>1. Recorded(x, cmd) = x /\ table = x.sessions
        BY <1>3, <2>1 DEF Recorded, Table
      <3> HIDE DEF table
      <3> QED
        BY <1>3, <3>1 DEF IsMachine
    <2>2. CASE cmd.ClientID # Anonymous
      <3>1. table = [c \in DOMAIN x.sessions \cup {cmd.ClientID} |->
                        IF c = cmd.ClientID THEN [LastSeq |-> cmd.Seq, LastUsed |-> x.now]
                        ELSE x.sessions[c]]
        BY <1>3, <2>2 DEF Table
      <3> HIDE DEF table
      <3> QED
        BY <2>2, <3>1, Zenon DEF Recorded
    <2> QED
      BY <2>1, <2>2
  <1>5. /\ DOMAIN table \subseteq Client
        /\ \A c \in DOMAIN table : table[c].LastSeq \in Nat /\ table[c].LastUsed \in Nat
    BY <1>1 DEF MachineOK, CommandOK, Table
  <1> HIDE DEF table
  <1>6. /\ IsMachine(Recorded(x, cmd)) /\ Recorded(x, cmd).now = x.now
        /\ Recorded(x, cmd).sessions = table
        /\ Recorded(x, cmd).executed = x.executed
    BY <1>3, <1>4 DEF IsMachine
  <1>7. MachineOK(Recorded(x, cmd))
    BY <1>1, <1>3, <1>5, <1>6 DEF MachineOK
  <1> QED
    BY <1>2, <1>3, <1>6, <1>7 DEF s, table

\* The state after k commands: what has been executed is remembered in the dedup
\* table or is older than the TTL; every session was left by an executed command.
Deduplicates(log, k, m) ==
    /\ MachineOK(m)
    /\ m.now = ClockAt(log, k)
    /\ m.executed \subseteq 1 .. k
    /\ \A i \in m.executed : log[i].ClientID # Anonymous =>
          \/ /\ log[i].ClientID \in DOMAIN m.sessions
             /\ m.sessions[log[i].ClientID].LastSeq >= log[i].Seq
             /\ m.sessions[log[i].ClientID].LastUsed >= ClockAt(log, i)
          \/ ClockAt(log, k) - ClockAt(log, i) > SessionTTL
    /\ \A c \in DOMAIN m.sessions :
          \E i \in m.executed : log[i].ClientID = c /\ log[i].Seq = m.sessions[c].LastSeq

\* No two executions of one command within the TTL.
NeverTwice(log, executed) ==
    \A i, j \in executed :
        i < j /\ SameCommand(log, i, j) => ClockAt(log, j) - ClockAt(log, i) > SessionTTL

\* No identified command without an execution.
NeverLost(log, k, executed) ==
    \A j \in 1 .. k : log[j].ClientID # Anonymous =>
        \E i \in executed : i = j \/ SameCommand(log, i, j)

DedupInv(log, k, m) ==
    Deduplicates(log, k, m) /\ NeverTwice(log, m.executed) /\ NeverLost(log, k, m.executed)

\* One more command (Apply).
LEMMA DedupStep ==
    ASSUME NEW log \in Logs, NEW k \in 1 .. Len(log), NEW m, DedupInv(log, k - 1, m)
    PROVE  DedupInv(log, k, Apply(m, k, log[k]))
  <1> DEFINE cmd == log[k]
             s == Swept(m, cmd)
             n == Apply(m, k, cmd)
             clock(i) == ClockAt(log, i)
  <1>1. Len(log) \in Nat
    BY EmptyMeaning
  <1>2. \A i \in 1 .. Len(log) : /\ log[i].ClientID \in Client \cup {Anonymous}
                                /\ log[i].Seq \in Nat
                                /\ log[i].Timestamp \in Nat
                                /\ clock(i) \in Nat
    BY <1>1, CommandTypes, ClockSteps
  <1>3. /\ clock(k - 1) \in Nat /\ clock(k) \in Nat
        /\ clock(k) = Max({clock(k - 1), cmd.Timestamp})
        /\ clock(k) >= clock(k - 1)
    BY <1>1, <1>2, ClockSteps, MaxOfTwo
  <1>4. /\ MachineOK(m) /\ m.now = clock(k - 1) /\ m.executed \subseteq 1 .. (k - 1)
        /\ cmd.ClientID \in Client \cup {Anonymous} /\ cmd.Seq \in Nat /\ cmd.Timestamp \in Nat
        /\ CommandOK(cmd)
    BY <1>2 DEF DedupInv, Deduplicates, CommandOK
  <1> HIDE DEF cmd, s, n
  <1>5. /\ MachineOK(s) /\ s.now = clock(k)
        /\ s.executed = m.executed
        /\ DOMAIN s.sessions \subseteq DOMAIN m.sessions
        /\ \A c \in DOMAIN s.sessions : s.sessions[c] = m.sessions[c]
        /\ \A c \in DOMAIN m.sessions \ DOMAIN s.sessions :
              m.sessions[c].LastUsed < clock(k) - SessionTTL
    <2>1. Max({m.now, cmd.Timestamp}) = clock(k)
      BY <1>3, <1>4
    <2> QED
      BY <1>4, <2>1, SweptFields DEF s
  <1>6. Duplicate(s, cmd) => n = s
    BY AppliedDuplicate DEF s, n
  <1>7. ~Duplicate(s, cmd) => /\ MachineOK(n) /\ n.now = s.now
                              /\ n.executed = m.executed \cup {k}
                              /\ n.sessions = Table(s, cmd)
    BY <1>4, AppliedNew DEF s, n
  <1>8. MachineOK(n) /\ n.now = clock(k)
    BY <1>5, <1>6, <1>7
  <1> DEFINE Fresh(i, t) == /\ log[i].ClientID \in DOMAIN t
                               /\ t[log[i].ClientID].LastSeq >= log[i].Seq
                               /\ t[log[i].ClientID].LastUsed >= clock(i)
             Old(i) == clock(k) - clock(i) > SessionTTL
  \* after the sweep, what was remembered is remembered or old
  <1>9. \A i \in m.executed : log[i].ClientID # Anonymous => Fresh(i, s.sessions) \/ Old(i)
    <2> SUFFICES ASSUME NEW i \in m.executed, log[i].ClientID # Anonymous
                 PROVE  Fresh(i, s.sessions) \/ Old(i)
      OBVIOUS
    <2>1. i \in 1 .. Len(log) /\ clock(i) \in Nat
      BY <1>1, <1>2, <1>4
    <2>2. Fresh(i, m.sessions) \/ clock(k - 1) - clock(i) > SessionTTL
      BY DEF DedupInv, Deduplicates
    <2>3. CASE clock(k - 1) - clock(i) > SessionTTL
      BY <1>3, <2>1, <2>3, StateMachineAssumption
    <2>4. CASE Fresh(i, m.sessions) /\ log[i].ClientID \in DOMAIN s.sessions
      BY <1>5, <2>4
    <2>5. CASE Fresh(i, m.sessions) /\ log[i].ClientID \notin DOMAIN s.sessions
      <3>1. m.sessions[log[i].ClientID].LastUsed < clock(k) - SessionTTL
        BY <1>5, <2>5
      <3>2. m.sessions[log[i].ClientID].LastUsed \in Nat
        BY <1>4, <2>5 DEF MachineOK
      <3> QED
        BY <1>3, <2>1, <2>5, <3>1, <3>2, StateMachineAssumption
    <2> QED
      BY <2>2, <2>3, <2>4, <2>5
  <1>10. \A c \in DOMAIN s.sessions :
             \E i \in m.executed : log[i].ClientID = c /\ log[i].Seq = s.sessions[c].LastSeq
    BY <1>5 DEF DedupInv, Deduplicates
  <1>11. NeverTwice(log, m.executed) /\ NeverLost(log, k - 1, m.executed)
    BY DEF DedupInv
  <1>12. Duplicate(s, cmd) <=> /\ cmd.ClientID # Anonymous
                               /\ cmd.ClientID \in DOMAIN s.sessions
                               /\ cmd.Seq <= s.sessions[cmd.ClientID].LastSeq
    BY Zenon DEF Duplicate
  <1>13. CASE Duplicate(s, cmd)
    <2>1. n.executed = m.executed /\ n.sessions = s.sessions
      BY <1>5, <1>6, <1>13
    <2>2. Deduplicates(log, k, n)
      BY <1>1, <1>4, <1>8, <1>9, <1>10, <2>1 DEF Deduplicates
    <2>3. NeverLost(log, k, m.executed)
      <3>1. PICK i \in m.executed : /\ log[i].ClientID = cmd.ClientID
                                    /\ log[i].Seq = s.sessions[cmd.ClientID].LastSeq
        BY <1>10, <1>12, <1>13
      <3>2. i \in 1 .. (k - 1) /\ i \in DOMAIN log /\ k \in DOMAIN log
        BY <1>1, <1>4, ApplyLoopAssumption
      <3>3. \E h \in m.executed : SameCommand(log, h, k)
        <4>1. CASE cmd.Seq = log[i].Seq
          BY <1>12, <1>13, <3>1, <4>1 DEF SameCommand, cmd
        <4>2. CASE cmd.Seq # log[i].Seq
          <5>1. cmd.Seq < log[i].Seq
            BY <1>1, <1>2, <1>4, <1>12, <1>13, <3>1, <3>2, <4>2
          <5>2. PICK h \in 1 .. (i - 1) : SameCommand(log, h, k)
            <6>1. /\ i < k /\ log[i].ClientID # Anonymous /\ log[i].ClientID = log[k].ClientID
                  /\ ~(log[k].Seq >= log[i].Seq)
              BY <1>1, <1>2, <1>12, <1>13, <3>1, <3>2, <5>1 DEF cmd
            <6> QED
              BY <3>2, <6>1, RetransmissionAssumption
          <5>3. PICK g \in m.executed : g = h \/ SameCommand(log, g, h)
            BY <1>1, <1>11, <3>2, <5>2 DEF NeverLost, SameCommand
          <5> QED
            BY <5>2, <5>3 DEF SameCommand
        <4> QED
          BY <4>1, <4>2
      <3> QED
        BY <1>1, <1>11, <3>3 DEF NeverLost
    <2> QED
      BY <1>11, <2>1, <2>2, <2>3 DEF DedupInv, n, cmd
  <1>14. CASE ~Duplicate(s, cmd)
    <2>1. n.executed = m.executed \cup {k}
      BY <1>7, <1>14
    <2>2. NeverLost(log, k, n.executed)
      BY <1>1, <1>11, <2>1 DEF NeverLost
    <2>3. NeverTwice(log, n.executed)
      <3> SUFFICES ASSUME NEW i \in n.executed, NEW j \in n.executed, i < j, SameCommand(log, i, j)
                   PROVE  clock(j) - clock(i) > SessionTTL
        BY DEF NeverTwice
      <3>1. CASE j \in m.executed
        <4>1. i \in m.executed
          BY <1>1, <1>4, <2>1, <3>1
        <4> QED
          BY <1>11, <3>1, <4>1 DEF NeverTwice
      <3>2. CASE j = k
        <4>1. i \in m.executed
          BY <1>1, <2>1, <3>2
        <4>2. log[i].ClientID # Anonymous /\ log[i].ClientID = cmd.ClientID /\ log[i].Seq = cmd.Seq
          BY <3>2 DEF SameCommand, cmd
        <4>3. ~Fresh(i, s.sessions)
          BY <1>4, <1>5, <1>12, <1>14, <4>2 DEF MachineOK
        <4> QED
          BY <1>9, <3>2, <4>1, <4>2, <4>3
      <3> QED
        BY <2>1, <3>1, <3>2
    <2>4. Deduplicates(log, k, n)
      <3>1. CASE cmd.ClientID = Anonymous
        <4>1. n.sessions = s.sessions
          BY <1>7, <1>14, <3>1 DEF Table
        <4> QED
          BY <1>1, <1>4, <1>8, <1>9, <1>10, <2>1, <3>1, <4>1 DEF Deduplicates, cmd
      <3>2. CASE cmd.ClientID # Anonymous
        <4>1. /\ DOMAIN n.sessions = DOMAIN s.sessions \cup {cmd.ClientID}
              /\ n.sessions[cmd.ClientID].LastSeq = cmd.Seq
              /\ n.sessions[cmd.ClientID].LastUsed = clock(k)
              /\ \A c \in DOMAIN s.sessions : c # cmd.ClientID => n.sessions[c] = s.sessions[c]
          BY <1>5, <1>7, <1>14, <3>2 DEF Table
        <4>2. \A i \in n.executed : log[i].ClientID # Anonymous => Fresh(i, n.sessions) \/ Old(i)
          <5> SUFFICES ASSUME NEW i \in n.executed, log[i].ClientID # Anonymous
                       PROVE  Fresh(i, n.sessions) \/ Old(i)
            OBVIOUS
          <5>1. CASE i = k
            <6>1. log[i] = cmd /\ clock(i) = clock(k)
              BY <5>1 DEF cmd
            <6> QED
              BY <1>3, <1>4, <4>1, <6>1
          <5>2. CASE i \in m.executed /\ log[i].ClientID # cmd.ClientID
            BY <1>9, <4>1, <5>2
          <5>3. CASE i \in m.executed /\ log[i].ClientID = cmd.ClientID
            <6>1. i \in 1 .. Len(log)
              BY <1>1, <1>4, <5>3
            <6>2. SUFFICES ASSUME Fresh(i, s.sessions) PROVE Fresh(i, n.sessions)
              BY <1>9, <5>3
            <6>3. cmd.Seq >= log[i].Seq
              BY <1>2, <1>4, <1>5, <1>12, <1>14, <3>2, <5>3, <6>1, <6>2 DEF MachineOK
            <6>4. clock(k) >= clock(i)
              BY <1>1, <1>4, <5>3, <6>1, ClockSteps
            <6> QED
              BY <4>1, <5>3, <6>3, <6>4
          <5> QED
            BY <2>1, <5>1, <5>2, <5>3
        <4>3. \A c \in DOMAIN n.sessions :
                 \E i \in n.executed : log[i].ClientID = c /\ log[i].Seq = n.sessions[c].LastSeq
          BY <1>10, <2>1, <4>1 DEF cmd
        <4> QED
          BY <1>1, <1>4, <1>8, <2>1, <4>2, <4>3 DEF Deduplicates
      <3> QED
        BY <3>1, <3>2
    <2> QED
      BY <2>2, <2>3, <2>4 DEF DedupInv, n, cmd
  <1> QED
    BY <1>13, <1>14

\* Hence every prefix of every log (MeaningAssumption).
LEMMA MeaningDedup ==
    ASSUME NEW log \in Logs, NEW i \in 0 .. Len(log)
    PROVE  DedupInv(log, i, Meaning[log][i])
  <1> DEFINE S == {k \in Nat : k <= Len(log) => DedupInv(log, k, Meaning[log][k])}
  <1>1. Len(log) \in Nat /\ Meaning[log][0] = NewMemoryStateMachine
    BY EmptyMeaning
  <1>2. 0 \in S
    <2> DEFINE m == NewMemoryStateMachine
    <2>1. /\ IsMachine(m) /\ m.now = 0 /\ m.executed = {} /\ DOMAIN m.sessions = {}
      BY DEF NewMemoryStateMachine, IsMachine
    <2>2. ClockAt(log, 0) = 0
      BY ClockSteps
    <2> HIDE DEF m
    <2>3. DedupInv(log, 0, m)
      BY <2>1, <2>2 DEF DedupInv, Deduplicates, MachineOK, NeverTwice, NeverLost
    <2> QED
      BY <1>1, <2>3 DEF m
  <1>3. ASSUME NEW k \in Nat, k \in S
        PROVE  k + 1 \in S
    <2> SUFFICES ASSUME k + 1 <= Len(log)
                 PROVE  DedupInv(log, k + 1, Meaning[log][k + 1])
      OBVIOUS
    <2>1. /\ k + 1 \in 1 .. Len(log) /\ (k + 1) - 1 = k
          /\ DedupInv(log, k, Meaning[log][k])
      BY <1>1, <1>3
    <2>2. Meaning[log][k + 1] = Apply(Meaning[log][k], k + 1, log[k + 1])
      BY <2>1, MeaningAssumption
    <2> QED
      BY <2>1, <2>2, DedupStep
  <1>4. Nat \subseteq S
    <2> HIDE DEF S
    <2> QED
      BY <1>2, <1>3, NaturalInduction
  <1> QED
    BY <1>1, <1>4

(***************************************************************************)
(* Induction                                                                *)
(***************************************************************************)

\* The initial state has an empty state machine and no snapshot file.
LEMMA InitIndInv == Init => IndInv
  <1> SUFFICES ASSUME Init PROVE IndInv
    OBVIOUS
  <1>1. committed \in Logs /\ Len(committed) \in Nat
    BY EmptyMeaning DEF Init
  <1>2. Boundaries
    BY <1>1 DEF Init, Boundaries, NoSnapshot
  <1>3. LoopInStep /\ InstallInStep
    BY DEF Init, LoopInStep, InstallInStep, NotInstalling, Idle
  <1>4. StateMachineSafety /\ SnapshotFaithful
    BY <1>1, EmptyMeaning DEF Init, StateMachineSafety, SnapshotFaithful, Held, Idle, NoSnapshot
  <1> QED
    BY <1>2, <1>3, <1>4, Zenon DEF Init, IndInv

\* Every step of the control loop, a receiver or a crash keeps the invariant.
LEMMA NextIndInv ==
    ASSUME Windows = {}, IndInv, [Next]_vars
    PROVE  IndInv'
  <1>1. Len(committed) \in Nat
    BY EmptyMeaning DEF IndInv, Boundaries
  <1> USE <1>1 DEF IndInv, node, Unlocked, NotInstalling, Idle
  <1>2. CASE BeginApply
    <2>1. Boundaries'
      BY <1>2 DEF BeginApply, Boundaries, LoopInStep, InstallInStep
    <2>2. LoopInStep'
      BY <1>2 DEF BeginApply, Boundaries, LoopInStep, InstallInStep
    <2>3. InstallInStep' /\ unsaved' \in BOOLEAN
      BY <1>2 DEF BeginApply, Boundaries, LoopInStep, InstallInStep
    <2>4. StateMachineSafety'
      BY <1>2 DEF BeginApply, Boundaries, LoopInStep, InstallInStep, StateMachineSafety,
         SnapshotFaithful, Held
    <2>5. SnapshotFaithful'
      BY <1>2 DEF BeginApply, Boundaries, LoopInStep, InstallInStep, StateMachineSafety,
         SnapshotFaithful, Held
    <2> QED
      BY <2>1, <2>2, <2>3, <2>4, <2>5
  <1>3. CASE FetchEntry
    <2>1. Boundaries'
      BY <1>3 DEF FetchEntry, Boundaries, LoopInStep, InstallInStep
    <2>2. LoopInStep'
      BY <1>3 DEF FetchEntry, Boundaries, LoopInStep, InstallInStep
    <2>3. InstallInStep' /\ unsaved' \in BOOLEAN
      BY <1>3 DEF FetchEntry, Boundaries, LoopInStep, InstallInStep
    <2>4. StateMachineSafety'
      BY <1>3 DEF FetchEntry, Boundaries, LoopInStep, InstallInStep, StateMachineSafety,
         SnapshotFaithful, Held
    <2>5. SnapshotFaithful'
      BY <1>3 DEF FetchEntry, Boundaries, LoopInStep, InstallInStep, StateMachineSafety,
         SnapshotFaithful, Held
    <2> QED
      BY <2>1, <2>2, <2>3, <2>4, <2>5
  <1>4. CASE ApplyEntry
    <2>1. Boundaries'
      BY <1>4 DEF ApplyEntry, Boundaries, LoopInStep, InstallInStep
    <2>2. LoopInStep'
      BY <1>4 DEF ApplyEntry, Boundaries, LoopInStep, InstallInStep
    <2>3. InstallInStep' /\ unsaved' \in BOOLEAN
      BY <1>4 DEF ApplyEntry, Boundaries, LoopInStep, InstallInStep
    <2>4. StateMachineSafety'
      BY <1>4, MeaningAssumption DEF ApplyEntry, Boundaries, LoopInStep, InstallInStep,
         StateMachineSafety, SnapshotFaithful, Held
    <2>5. SnapshotFaithful'
      BY <1>4 DEF ApplyEntry, Boundaries, LoopInStep, InstallInStep, StateMachineSafety,
         SnapshotFaithful, Held
    <2> QED
      BY <2>1, <2>2, <2>3, <2>4, <2>5
  <1>5. CASE AdvanceLastApplied
    <2>1. Boundaries'
      BY <1>5 DEF AdvanceLastApplied, Boundaries, LoopInStep, InstallInStep
    <2>2. LoopInStep'
      <3>1. loop' = [at |-> "apply", commitIndex |-> loop.commitIndex,
                     lastApplied |-> lastApplied + 1]
        BY <1>5, Zenon DEF AdvanceLastApplied, LoopInStep
      <3> QED
        BY <1>5, <3>1 DEF AdvanceLastApplied, Boundaries, LoopInStep
    <2>3. InstallInStep' /\ unsaved' \in BOOLEAN
      BY <1>5 DEF AdvanceLastApplied, Boundaries, LoopInStep, InstallInStep
    <2>4. StateMachineSafety'
      BY <1>5 DEF AdvanceLastApplied, Boundaries, LoopInStep, InstallInStep,
         StateMachineSafety, SnapshotFaithful, Held
    <2>5. SnapshotFaithful'
      BY <1>5 DEF AdvanceLastApplied, Boundaries, LoopInStep, InstallInStep,
         StateMachineSafety, SnapshotFaithful, Held
    <2> QED
      BY <2>1, <2>2, <2>3, <2>4, <2>5
  <1>6. CASE MaybeCompact
    <2>1. Boundaries'
      BY <1>6 DEF MaybeCompact, NeedsCompaction, Boundaries, LoopInStep, InstallInStep
    <2>2. LoopInStep'
      <3>1. \/ loop' = Idle
            \/ loop' = [at |-> "chosen", commitIndex |-> loop.commitIndex,
                        lastApplied |-> lastApplied]
        BY <1>6, Zenon DEF MaybeCompact, LoopInStep
      <3> QED
        BY <1>6, <3>1 DEF MaybeCompact, Boundaries, LoopInStep
    <2>3. InstallInStep' /\ unsaved' \in BOOLEAN
      BY <1>6 DEF MaybeCompact, NeedsCompaction, Boundaries, LoopInStep, InstallInStep
    <2>4. StateMachineSafety'
      BY <1>6 DEF MaybeCompact, NeedsCompaction, Boundaries, LoopInStep, InstallInStep,
         StateMachineSafety, SnapshotFaithful, Held
    <2>5. SnapshotFaithful'
      BY <1>6 DEF MaybeCompact, NeedsCompaction, Boundaries, LoopInStep, InstallInStep,
         StateMachineSafety, SnapshotFaithful, Held
    <2> QED
      BY <2>1, <2>2, <2>3, <2>4, <2>5
  <1>7. CASE WriteSnapshot
    <2>1. Boundaries'
      BY <1>7 DEF WriteSnapshot, Write, Boundaries, LoopInStep, InstallInStep
    <2>2. LoopInStep'
      BY <1>7 DEF WriteSnapshot, Write, Boundaries, LoopInStep, InstallInStep
    <2>3. InstallInStep' /\ unsaved' \in BOOLEAN
      BY <1>7, RoundTrip DEF WriteSnapshot, Write, Boundaries, LoopInStep, InstallInStep
    <2>4. StateMachineSafety'
      BY <1>7, RoundTrip DEF WriteSnapshot, Write, Boundaries, LoopInStep, InstallInStep,
         StateMachineSafety, SnapshotFaithful, Held
    <2>5. SnapshotFaithful'
      BY <1>7, RoundTrip DEF WriteSnapshot, Write, Boundaries, LoopInStep, InstallInStep,
         StateMachineSafety, SnapshotFaithful, Held
    <2> QED
      BY <2>1, <2>2, <2>3, <2>4, <2>5
  <1>8. CASE WriteSnapshotFails
    <2>1. Boundaries'
      BY <1>8 DEF WriteSnapshotFails, Write, Boundaries, LoopInStep, InstallInStep
    <2>2. LoopInStep'
      BY <1>8 DEF WriteSnapshotFails, Write, Boundaries, LoopInStep, InstallInStep
    <2>3. InstallInStep' /\ unsaved' \in BOOLEAN
      BY <1>8, RoundTrip DEF WriteSnapshotFails, Write, Boundaries, LoopInStep, InstallInStep
    <2>4. StateMachineSafety'
      BY <1>8, RoundTrip DEF WriteSnapshotFails, Write, Boundaries, LoopInStep, InstallInStep,
         StateMachineSafety, SnapshotFaithful, Held
    <2>5. SnapshotFaithful'
      BY <1>8, RoundTrip DEF WriteSnapshotFails, Write, Boundaries, LoopInStep, InstallInStep,
         StateMachineSafety, SnapshotFaithful, Held
    <2> QED
      BY <2>1, <2>2, <2>3, <2>4, <2>5
  <1>9. CASE TruncateLog
    <2>1. Boundaries'
      BY <1>9, MaxOfTwo DEF TruncateLog, LogStartsBehind, Boundaries, LoopInStep, InstallInStep
    <2>2. LoopInStep'
      BY <1>9 DEF TruncateLog, LogStartsBehind, Boundaries, LoopInStep, InstallInStep
    <2>3. InstallInStep' /\ unsaved' \in BOOLEAN
      BY <1>9 DEF TruncateLog, LogStartsBehind, Boundaries, LoopInStep, InstallInStep
    <2>4. StateMachineSafety'
      BY <1>9, MaxOfTwo DEF TruncateLog, LogStartsBehind, Boundaries, LoopInStep,
         InstallInStep, StateMachineSafety, SnapshotFaithful, Held
    <2>5. SnapshotFaithful'
      BY <1>9 DEF TruncateLog, LogStartsBehind, Boundaries, LoopInStep, InstallInStep,
         StateMachineSafety, SnapshotFaithful, Held
    <2> QED
      BY <2>1, <2>2, <2>3, <2>4, <2>5
  <1>10. CASE PersistInstalled
    <2>1. Boundaries'
      BY <1>10 DEF PersistInstalled, Write, Boundaries, LoopInStep, InstallInStep
    <2>2. LoopInStep'
      BY <1>10 DEF PersistInstalled, Write, Boundaries, LoopInStep, InstallInStep
    <2>3. InstallInStep' /\ unsaved' \in BOOLEAN
      BY <1>10, RoundTrip, Zenon DEF PersistInstalled, Write, Boundaries, LoopInStep, InstallInStep
    <2>4. StateMachineSafety'
      BY <1>10, RoundTrip DEF PersistInstalled, Write, Boundaries, LoopInStep, InstallInStep,
         StateMachineSafety, SnapshotFaithful, Held
    <2>5. SnapshotFaithful'
      BY <1>10, RoundTrip DEF PersistInstalled, Write, Boundaries, LoopInStep, InstallInStep,
         StateMachineSafety, SnapshotFaithful, Held
    <2> QED
      BY <2>1, <2>2, <2>3, <2>4, <2>5
  <1>11. CASE PersistInstalledFails
    <2>1. Boundaries'
      BY <1>11 DEF PersistInstalledFails, Write, Boundaries, LoopInStep, InstallInStep
    <2>2. LoopInStep'
      BY <1>11 DEF PersistInstalledFails, Write, Boundaries, LoopInStep, InstallInStep
    <2>3. InstallInStep' /\ unsaved' \in BOOLEAN
      BY <1>11, RoundTrip DEF PersistInstalledFails, Write, Boundaries, LoopInStep,
         InstallInStep
    <2>4. StateMachineSafety'
      BY <1>11, RoundTrip DEF PersistInstalledFails, Write, Boundaries, LoopInStep,
         InstallInStep, StateMachineSafety, SnapshotFaithful, Held
    <2>5. SnapshotFaithful'
      BY <1>11, RoundTrip DEF PersistInstalledFails, Write, Boundaries, LoopInStep,
         InstallInStep, StateMachineSafety, SnapshotFaithful, Held
    <2> QED
      BY <2>1, <2>2, <2>3, <2>4, <2>5
  <1>12. CASE FinishInstall
    <2>1. Boundaries'
      BY <1>12, MaxOfTwo DEF FinishInstall, SeedFromSnapshot, LogStartsBehind, Boundaries,
         LoopInStep, InstallInStep
    <2>2. LoopInStep'
      BY <1>12 DEF FinishInstall, SeedFromSnapshot, LogStartsBehind, Boundaries, LoopInStep,
         InstallInStep
    <2>3. InstallInStep' /\ unsaved' \in BOOLEAN
      BY <1>12 DEF FinishInstall, SeedFromSnapshot, LogStartsBehind, Boundaries, LoopInStep,
         InstallInStep
    <2>4. StateMachineSafety'
      BY <1>12, MaxOfTwo DEF FinishInstall, SeedFromSnapshot, LogStartsBehind, Boundaries,
         LoopInStep, InstallInStep, StateMachineSafety, SnapshotFaithful, Held
    <2>5. SnapshotFaithful'
      BY <1>12 DEF FinishInstall, SeedFromSnapshot, LogStartsBehind, Boundaries, LoopInStep,
         InstallInStep, StateMachineSafety, SnapshotFaithful, Held
    <2> QED
      BY <2>1, <2>2, <2>3, <2>4, <2>5
  <1>13. CASE \E index \in 1 .. Len(committed) : LearnCommitted(index)
    <2>1. Boundaries'
      BY <1>13 DEF LearnCommitted, Boundaries, LoopInStep, InstallInStep
    <2>2. LoopInStep'
      BY <1>13 DEF LearnCommitted, Boundaries, LoopInStep, InstallInStep
    <2>3. InstallInStep' /\ unsaved' \in BOOLEAN
      BY <1>13 DEF LearnCommitted, Boundaries, LoopInStep, InstallInStep
    <2>4. StateMachineSafety'
      BY <1>13 DEF LearnCommitted, Boundaries, LoopInStep, InstallInStep, StateMachineSafety,
         SnapshotFaithful, Held
    <2>5. SnapshotFaithful'
      BY <1>13 DEF LearnCommitted, Boundaries, LoopInStep, InstallInStep, StateMachineSafety,
         SnapshotFaithful, Held
    <2> QED
      BY <2>1, <2>2, <2>3, <2>4, <2>5
  <1>14. CASE \E index \in 1 .. Len(committed) : InstallSnapshot(index)
    <2>1. Boundaries'
      BY <1>14 DEF InstallSnapshot, Undisturbed, Boundaries, LoopInStep, InstallInStep
    <2>2. LoopInStep'
      BY <1>14 DEF InstallSnapshot, Undisturbed, Boundaries, LoopInStep, InstallInStep
    <2>3. InstallInStep' /\ unsaved' \in BOOLEAN
      BY <1>14, RoundTrip DEF InstallSnapshot, Undisturbed, Boundaries, LoopInStep,
         InstallInStep
    <2>4. StateMachineSafety'
      BY <1>14, RoundTrip DEF InstallSnapshot, Undisturbed, Boundaries, LoopInStep,
         InstallInStep, StateMachineSafety, SnapshotFaithful, Held
    <2>5. SnapshotFaithful'
      BY <1>14, RoundTrip DEF InstallSnapshot, Undisturbed, Boundaries, LoopInStep,
         InstallInStep, StateMachineSafety, SnapshotFaithful, Held
    <2> QED
      BY <2>1, <2>2, <2>3, <2>4, <2>5
  <1>15. CASE Crash
    <2>1. Boundaries'
      BY <1>15, MaxOfTwo DEF Crash, Boundaries, LoopInStep, InstallInStep
    <2>2. LoopInStep'
      BY <1>15 DEF Crash, Boundaries, LoopInStep, InstallInStep
    <2>3. InstallInStep' /\ unsaved' \in BOOLEAN
      BY <1>15, RoundTrip DEF Crash, Boundaries, LoopInStep, InstallInStep
    <2>4. StateMachineSafety'
      BY <1>15, MaxOfTwo, RoundTrip DEF Crash, Boundaries, LoopInStep, InstallInStep,
         StateMachineSafety, SnapshotFaithful, Held
    <2>5. SnapshotFaithful'
      BY <1>15, RoundTrip DEF Crash, Boundaries, LoopInStep, InstallInStep, StateMachineSafety,
         SnapshotFaithful, Held
    <2> QED
      BY <2>1, <2>2, <2>3, <2>4, <2>5
  <1>16. CASE UNCHANGED vars
    <2>1. Boundaries'
      BY <1>16 DEF vars, Boundaries, LoopInStep, InstallInStep
    <2>2. LoopInStep'
      BY <1>16 DEF vars, Boundaries, LoopInStep, InstallInStep
    <2>3. InstallInStep' /\ unsaved' \in BOOLEAN
      BY <1>16 DEF vars, Boundaries, LoopInStep, InstallInStep
    <2>4. StateMachineSafety'
      BY <1>16 DEF vars, Boundaries, LoopInStep, InstallInStep, StateMachineSafety,
         SnapshotFaithful, Held
    <2>5. SnapshotFaithful'
      BY <1>16 DEF vars, Boundaries, LoopInStep, InstallInStep, StateMachineSafety,
         SnapshotFaithful, Held
    <2> QED
      BY <2>1, <2>2, <2>3, <2>4, <2>5
  <1> QED
    BY <1>2, <1>3, <1>4, <1>5, <1>6, <1>7, <1>8, <1>9, <1>10, <1>11, <1>12, <1>13, <1>14,
       <1>15, <1>16 DEF Next, ControlLoop, Receiver

\* The three facts together.
LEMMA Inductive ==
    ASSUME Windows = {}
    PROVE  Spec => []IndInv
  <1>1. IndInv /\ [Next]_vars => IndInv'
    BY NextIndInv
  <1> QED
    BY InitIndInv, <1>1, PTL DEF Spec

(***************************************************************************)
(* Types                                                                    *)
(***************************************************************************)

\* What IndInv leaves open: where the copies and the bounds end, and the states
\* that are no prefix's meaning because a snapshot could not be persisted.
Typed(log, m) == MachineOK(m) /\ m.executed \subseteq 1 .. Len(log)

TypeInv ==
    /\ firstIndex >= 1
    /\ loop.commitIndex <= Len(committed) /\ loop.lastApplied <= Len(committed)
    /\ failures \in 0 .. MaxFailures /\ crashes \in 0 .. MaxCrashes
    /\ Typed(committed, machine) /\ Typed(committed, snapshot.state)

\* A state that is stored and read back keeps its type (Snapshot, Restore).
LEMMA TypedRoundTrip ==
    ASSUME NEW log, NEW m, Typed(log, m)
    PROVE  Typed(log, Snapshot(m)) /\ Typed(log, Restore(m))
  <1>1. Snapshot(m) = m /\ Restore(m) = m
    BY DEF Typed, MachineOK, IsMachine, Snapshot, Restore
  <1> QED
    BY <1>1

\* The meaning of a prefix has it, and a command keeps it (Apply).
LEMMA TypedMeaning ==
    ASSUME NEW log \in Logs, NEW i \in 0 .. Len(log)
    PROVE  Typed(log, Meaning[log][i])
  <1>1. DedupInv(log, i, Meaning[log][i]) /\ Len(log) \in Nat
    BY MeaningDedup, EmptyMeaning
  <1> QED
    BY <1>1 DEF DedupInv, Deduplicates, Typed

LEMMA TypedApply ==
    ASSUME NEW log \in Logs, NEW i \in 1 .. Len(log), NEW m, Typed(log, m)
    PROVE  Typed(log, Apply(m, i, log[i]))
  <1>1. CommandOK(log[i]) /\ MachineOK(m)
    BY CommandTypes DEF CommandOK, Typed
  <1>2. CASE Duplicate(Swept(m, log[i]), log[i])
    <2>1. Apply(m, i, log[i]) = Swept(m, log[i])
      BY <1>2, AppliedDuplicate
    <2>2. MachineOK(Swept(m, log[i])) /\ Swept(m, log[i]).executed = m.executed
      BY <1>1, SweptFields, Zenon
    <2> QED
      BY <2>1, <2>2 DEF Typed
  <1>3. CASE ~Duplicate(Swept(m, log[i]), log[i])
    <2>1. MachineOK(Apply(m, i, log[i])) /\ Apply(m, i, log[i]).executed = m.executed \cup {i}
      BY <1>1, <1>3, AppliedNew, Zenon
    <2> QED
      BY <2>1 DEF Typed
  <1> QED
    BY <1>2, <1>3

\* Init.
LEMMA InitTypeInv == Init => TypeInv
  <1> SUFFICES ASSUME Init PROVE TypeInv
    OBVIOUS
  <1>1. committed \in Logs /\ Len(committed) \in Nat /\ 0 \in 0 .. Len(committed)
    BY EmptyMeaning DEF Init
  <1>2. Typed(committed, NewMemoryStateMachine)
    BY <1>1, TypedMeaning, EmptyMeaning
  <1> QED
    BY <1>1, <1>2, ApplyLoopAssumption DEF Init, TypeInv, Idle, NoSnapshot

\* Every step.
LEMMA NextTypeInv ==
    ASSUME Windows = {}, IndInv, TypeInv, [Next]_vars
    PROVE  TypeInv'
  <1>1. committed \in Logs /\ Len(committed) \in Nat /\ committed' = committed
    BY EmptyMeaning DEF IndInv, Boundaries, Next, ControlLoop, Receiver, BeginApply, FetchEntry,
       ApplyEntry, AdvanceLastApplied, MaybeCompact, WriteSnapshot, WriteSnapshotFails, TruncateLog,
       PersistInstalled, PersistInstalledFails, FinishInstall, LearnCommitted, InstallSnapshot,
       Crash, vars
  <1>2. Typed(committed, machine')
    <2>1. CASE ApplyEntry
      <3>1. loop.lastApplied + 1 \in 1 .. Len(committed)
        BY <1>1, <2>1 DEF ApplyEntry, IndInv, Boundaries, LoopInStep
      <3>2. machine' = Apply(machine, loop.lastApplied + 1, committed[loop.lastApplied + 1])
        BY <2>1 DEF ApplyEntry
      <3> QED
        BY <1>1, <3>1, <3>2, TypedApply DEF TypeInv
    <2>2. ASSUME NEW index \in 1 .. Len(committed), InstallSnapshot(index)
          PROVE  Typed(committed, machine')
      <3>1. machine' = Restore(Snapshot(Meaning[committed][index]))
        BY <2>2 DEF InstallSnapshot
      <3>2. Typed(committed, Meaning[committed][index])
        BY <1>1, TypedMeaning
      <3> QED
        BY <3>1, <3>2, TypedRoundTrip
    <2>3. CASE Crash
      <3>1. machine' = Restore(snapshot.state)
        BY <2>3 DEF Crash
      <3> QED
        BY <3>1, TypedRoundTrip DEF TypeInv
    <2>4. CASE UNCHANGED machine
      BY <2>4 DEF TypeInv
    <2> QED
      BY <2>1, <2>2, <2>3, <2>4 DEF Next, ControlLoop, Receiver, BeginApply, FetchEntry,
         AdvanceLastApplied, MaybeCompact, WriteSnapshot, WriteSnapshotFails, TruncateLog,
         PersistInstalled, PersistInstalledFails, FinishInstall, LearnCommitted, vars
  <1>3. Typed(committed, snapshot'.state)
    <2>1. ASSUME NEW i, Write(i)
          PROVE  Typed(committed, snapshot'.state)
      <3>1. snapshot'.state = Snapshot(machine)
        BY <2>1 DEF Write
      <3> QED
        BY <3>1, TypedRoundTrip DEF TypeInv
    <2>2. CASE UNCHANGED snapshot
      BY <2>2 DEF TypeInv
    <2> QED
      BY <2>1, <2>2 DEF Next, ControlLoop, Receiver, BeginApply, FetchEntry, ApplyEntry,
         AdvanceLastApplied, MaybeCompact, WriteSnapshot, WriteSnapshotFails, TruncateLog,
         PersistInstalled, PersistInstalledFails, FinishInstall, LearnCommitted, InstallSnapshot,
         Crash, vars
  <1>4. failures' \in 0 .. MaxFailures /\ crashes' \in 0 .. MaxCrashes
    BY ApplyLoopAssumption DEF TypeInv, Next, ControlLoop, Receiver, BeginApply, FetchEntry,
       ApplyEntry, AdvanceLastApplied, MaybeCompact, WriteSnapshot, WriteSnapshotFails, TruncateLog,
       PersistInstalled, PersistInstalledFails, FinishInstall, LearnCommitted, InstallSnapshot,
       Crash, Fault, vars
  <1>5. firstIndex' >= 1
    <2>1. ASSUME NEW i \in Nat, LogStartsBehind(i)
          PROVE  firstIndex' >= 1
      BY <2>1, MaxOfTwo DEF LogStartsBehind, IndInv, Boundaries
    <2>2. CASE UNCHANGED firstIndex
      BY <2>2 DEF TypeInv
    <2>3. CASE Crash
      BY <2>3 DEF Crash, IndInv, Boundaries
    <2>4. loop.lastApplied \in Nat /\ install.index \in Nat
      BY DEF IndInv, LoopInStep, InstallInStep
    <2> QED
      BY <2>1, <2>2, <2>3, <2>4 DEF Next, ControlLoop, Receiver, BeginApply, FetchEntry, ApplyEntry,
         AdvanceLastApplied, MaybeCompact, WriteSnapshot, WriteSnapshotFails, TruncateLog,
         PersistInstalled, PersistInstalledFails, FinishInstall, LearnCommitted, InstallSnapshot,
         node, vars
  <1>6. loop'.commitIndex <= Len(committed) /\ loop'.lastApplied <= Len(committed)
    <2>1. /\ loop = [at |-> loop.at, commitIndex |-> loop.commitIndex, lastApplied |-> loop.lastApplied]
          /\ loop.commitIndex \in Nat /\ loop.lastApplied \in Nat
      BY DEF IndInv, LoopInStep
    <2>2. /\ commitIndex <= Len(committed) /\ lastApplied <= Len(committed)
          /\ lastApplied' \in Nat /\ lastApplied' <= Len(committed)
      <3>1. IndInv'
        BY NextIndInv
      <3> QED
        BY <1>1, <3>1 DEF IndInv, Boundaries
    <2>3. CASE loop' = Idle
      BY <1>1, <2>3 DEF Idle
    <2>4. CASE BeginApply
      BY <2>2, <2>4 DEF BeginApply
    <2>5. CASE AdvanceLastApplied
      BY <2>1, <2>2, <2>5 DEF AdvanceLastApplied, TypeInv
    <2>6. CASE MaybeCompact
      BY <2>1, <2>2, <2>3, <2>6 DEF MaybeCompact, TypeInv
    <2>7. CASE FetchEntry \/ ApplyEntry \/ WriteSnapshot
      BY <2>1, <2>7 DEF FetchEntry, ApplyEntry, WriteSnapshot, TypeInv
    <2>8. CASE UNCHANGED loop
      BY <2>8 DEF TypeInv
    <2> QED
      BY <2>3, <2>4, <2>5, <2>6, <2>7, <2>8 DEF Next, ControlLoop, Receiver, WriteSnapshotFails,
         TruncateLog, PersistInstalled, PersistInstalledFails, FinishInstall, LearnCommitted,
         InstallSnapshot, Crash, vars
  <1> QED
    BY <1>1, <1>2, <1>3, <1>4, <1>5, <1>6 DEF TypeInv

(***************************************************************************)
(* Theorems                                                                 *)
(***************************************************************************)

\* Whatever mixture of applying, compacting, installing, failing and crashing:
\* the state is that of the applied prefix (applyCommitted, State Machine
\* Safety), unless an installed snapshot could not be persisted.
THEOREM StateMachineIsSafe ==
    ASSUME Windows = {}
    PROVE  Spec => []StateMachineSafety
  <1>1. IndInv => StateMachineSafety
    BY DEF IndInv
  <1> QED
    BY Inductive, <1>1, PTL

\* The snapshot file, by whichever path it was written (compact,
\* HandleInstallSnapshot), holds the state of the index it names.
THEOREM SnapshotIsFaithful ==
    ASSUME Windows = {}
    PROVE  Spec => []SnapshotFaithful
  <1>1. IndInv => SnapshotFaithful
    BY DEF IndInv
  <1> QED
    BY Inductive, <1>1, PTL

\* applyCommitted never stops the node over an entry that has been compacted
\* away: the start of the log is never beyond the next entry to apply.
THEOREM NothingIsMissing ==
    ASSUME Windows = {}
    PROVE  Spec => []NothingMissing
  <1>1. IndInv => NothingMissing
    BY DEF IndInv, LoopInStep, NothingMissing
  <1> QED
    BY Inductive, <1>1, PTL

\* A retried command is executed once and not lost, through snapshots, restarts
\* and expiry sweeps, as long as the retry comes within the TTL of the replicated
\* clock (Apply, expireSessions, "Dedup state is state").
THEOREM CommandsRunOnce ==
    ASSUME Windows = {}
    PROVE  Spec => []ExactlyOnce
  <1>1. IndInv => ExactlyOnce
    <2> SUFFICES ASSUME IndInv, ~unsaved
                 PROVE  NeverTwice(committed, machine.executed) /\ NeverLost(committed, Held, machine.executed)
      BY DEF ExactlyOnce, NeverTwice, NeverLost
    <2>1. committed \in Logs /\ Held \in 0 .. Len(committed)
      BY EmptyMeaning DEF IndInv, Boundaries, LoopInStep, InstallInStep, Held, NotInstalling
    <2>2. machine = Meaning[committed][Held]
      BY DEF IndInv, StateMachineSafety
    <2> QED
      BY <2>1, <2>2, MeaningDedup DEF DedupInv
  <1> QED
    BY Inductive, <1>1, PTL

\* Every index the node keeps stays inside the committed log, every copy the
\* control loop took of one, and the state machine only ever holds executions of
\* committed entries and sessions of known clients.
THEOREM ApplyLoopTypes ==
    ASSUME Windows = {}
    PROVE  Spec => []TypeOK
  <1>1. IndInv /\ TypeInv => TypeOK
    <2> SUFFICES ASSUME IndInv, TypeInv PROVE TypeOK
      OBVIOUS
    <2>1. Len(committed) \in Nat
      BY EmptyMeaning DEF IndInv, Boundaries
    <2>2. /\ firstIndex \in 1 .. Len(committed) + 1
          /\ {commitIndex, lastApplied, snapshot.index} \subseteq Indices
      BY <2>1 DEF IndInv, Boundaries, TypeInv, Indices
    <2>3. install.at \in {"none", "restored", "persisted"} /\ install.index \in Indices
      BY <2>1 DEF IndInv, InstallInStep, NotInstalling, Indices
    <2>4. /\ loop.at \in {"idle", "apply", "fetched", "applied", "chosen", "written"}
          /\ {loop.commitIndex, loop.lastApplied} \subseteq Indices
      BY <2>1 DEF IndInv, LoopInStep, TypeInv, Indices
    <2>5. /\ machine.executed \subseteq 1 .. Len(committed) /\ DOMAIN machine.sessions \subseteq Client
          /\ unsaved \in BOOLEAN /\ failures \in 0 .. MaxFailures /\ crashes \in 0 .. MaxCrashes
      BY DEF IndInv, TypeInv, Typed, MachineOK
    <2> QED
      BY <2>2, <2>3, <2>4, <2>5 DEF TypeOK
  <1>2. Init => IndInv /\ TypeInv
    BY InitIndInv, InitTypeInv
  <1>3. IndInv /\ TypeInv /\ [Next]_vars => (IndInv /\ TypeInv)'
    BY NextIndInv, NextTypeInv
  <1> QED
    BY <1>1, <1>2, <1>3, PTL DEF Spec
=============================================================================
