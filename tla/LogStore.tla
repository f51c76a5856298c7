------------------------------- MODULE LogStore -------------------------------
(***************************************************************************)
(* One node's durable log: RaftLog with its write-ahead log and snapshot    *)
(* file (internal/raft/log.go), driven by the receivers and the control     *)
(* loop that use it (HandleAppendEntries, HandleInstallSnapshot,            *)
(* handleProposal, compact) through crashes and failed disk operations.     *)
(*                                                                          *)
(* The rest of the cluster is a script: Eras[i] is the i-th leader, with    *)
(* the log it replicates and how much of that log is committed by the end   *)
(* of its era.  In an era of its own the node is the leader.                *)
(***************************************************************************)
EXTENDS RaftLog, SequencesExt

CONSTANTS
    Eras,                 \* sequence of [term, log, commit, self], log a sequence of terms
    Snapshots,            \* the indices at which leaders hold a snapshot to install
    CompactionThreshold,  \* RaftLog.compactionThreshold
    Overlap,              \* may an InstallSnapshot run during a compaction?
    MaxIndex,             \* bound: the node appends no entry of its own past this index
    MaxFailures,          \* bound: disk operations that fail
    MaxCrashes            \* bound: crashes, all of them before the first failure

Committed(i) == SubSeq(Eras[i].log, 1, Eras[i].commit)

ASSUME ErasAssumption ==
    /\ Len(Eras) > 0
    /\ \A i \in DOMAIN Eras : Eras[i].commit <= Len(Eras[i].log)
    /\ \A i, j \in DOMAIN Eras :
          i < j => Eras[i].term < Eras[j].term /\ IsPrefix(Committed(i), Eras[j].log)

VARIABLES
    log,         \* the RaftLog in memory
    wal,         \* the WAL: frames in file order, how many are fsynced, is the handle open
    snapshot,    \* the boundary recorded in the snapshot file, NoSnapshot if there is none
    lastApplied, \* RaftNode.LastApplied
    compaction,  \* what compact() is doing: stage and boundary
    installing,  \* the boundary HandleInstallSnapshot has persisted and not yet reset to
    era,         \* the current leader, as a position in Eras
    acked,       \* history: entries acknowledged that the current leader still counts on
    failures,
    crashes

disk == <<wal, snapshot>>
vars == <<log, disk, lastApplied, compaction, installing, era, acked, failures, crashes>>

NoSnapshot == [index |-> 0, term |-> 0]
NotCompacting == [stage |-> "none", index |-> 0, term |-> 0]
Torn == [Index |-> -1, Term |-> -1]    \* part of a frame

Leader == Eras[era]
LeaderEntries(from, to) == [i \in 1 .. to - from + 1 |->
                               [Index |-> from + i - 1, Term |-> Leader.log[from + i - 1]]]

Indices == 0 .. MaxIndex + 1
Entries == [Index : Indices, Term : {Eras[i].term : i \in DOMAIN Eras}]
Boundaries == {NoSnapshot} \cup [index : Indices, term : {Eras[i].term : i \in DOMAIN Eras}]

TypeOK ==
    /\ ToSet(log.cache) \subseteq Entries
    /\ {log.nextIndex, log.firstIndex, log.lastIncludedIndex} \subseteq Indices
    /\ ToSet(wal.frames) \subseteq Entries \cup {Torn}
    /\ wal.synced \in 0 .. Len(wal.frames)
    /\ wal.open \in BOOLEAN
    /\ snapshot \in Boundaries
    /\ lastApplied \in Indices
    /\ compaction.stage \in {"none", "chosen", "written"}
    /\ installing \in Boundaries
    /\ era \in DOMAIN Eras
    /\ acked \subseteq Entries
    /\ failures \in 0 .. MaxFailures
    /\ crashes \in 0 .. MaxCrashes

Init ==
    /\ log = NewRaftLog
    /\ wal = [frames |-> <<>>, synced |-> 0, open |-> TRUE]
    /\ snapshot = NoSnapshot
    /\ lastApplied = 0
    /\ compaction = NotCompacting
    /\ installing = NoSnapshot
    /\ era = 1
    /\ acked = {}
    /\ failures = 0
    /\ crashes = 0

(***************************************************************************)
(* Disk operations                                                          *)
(***************************************************************************)

\* A failure is drawn from the budget, unless the handle is closed: then every
\* operation on it fails.
Fault == IF wal.open THEN failures < MaxFailures /\ failures' = failures + 1
                     ELSE UNCHANGED failures

\* Defect: no fsync.
SyncedNever(w) == w
Synced(w) == [w EXCEPT !.synced = Len(w.frames)]
Written(w, entries) == [w EXCEPT !.frames = @ \o entries]

\* writeEntryTo failed, leaving nothing or part of a frame behind.
WriteFails(w) == {w} \cup (IF w.open THEN {Written(w, <<Torn>>)} ELSE {})

\* rewriteWALLocked puts exactly the cache into a fresh, fsynced file.
Rewritten(cache) == [frames |-> cache, synced |-> Len(cache), open |-> TRUE]

\* It failed on the temporary file, on the swap, or after it; from the swap on
\* the old handle is closed.
RewriteFails(w, cache) ==
    {[w EXCEPT !.open = FALSE]}
    \cup (IF w.open THEN {w, [Rewritten(cache) EXCEPT !.open = FALSE]} ELSE {})

\* The file after the batch has been spliced into l and before the fsync.
Appended(w, l, entries) ==
    LET s    == Splice(l, entries).log.cache
        cuts == {e \in ToSet(entries) : Conflicts(l, e)}
        kept == Min({e.Index : e \in cuts}) - l.firstIndex
    IN  IF cuts = {}
        THEN Written(w, SubSeq(s, Len(l.cache) + 1, Len(s)))
        ELSE Written(Rewritten(SubSeq(s, 1, kept)), SubSeq(s, kept + 1, Len(s)))

\* What recover makes of the file: it stops at a torn frame, drops the rest
\* and fsyncs; a snapshot is then reconciled with what was read.
Startup(frames, snap) ==
    LET torn == SelectInSeq(frames, LAMBDA f : f = Torn)
        read == Recovered(IF torn = 0 THEN frames ELSE SubSeq(frames, 1, torn - 1))
    IN  IF snap = NoSnapshot THEN read ELSE RestoreOffset(read, snap.index, snap.term)

(***************************************************************************)
(* AppendEntries from the current leader                                    *)
(***************************************************************************)

\* Batches arrive in any order and any number of times; HandleInstallSnapshot
\* holds rn.mu, so none arrives inside it.
Receives(prev, entries) ==
    /\ ~Leader.self
    /\ installing = NoSnapshot
    /\ PrevMatches(log, prev, IF prev = 0 THEN 0 ELSE Leader.log[prev])

\* An acknowledgement up to `match' covers everything the leader has up to there.
Acknowledge(match) == acked' = acked \cup ToSet(LeaderEntries(1, match))

AppendEntriesToLog(prev, entries) ==
    LET s == Splice(log, entries)
    IN  /\ Receives(prev, entries)
        /\ wal.open \/ s.log = log
        /\ log' = s.log
        /\ wal' = IF s.log = log THEN wal
                  ELSE IF s.ok THEN Synced(Appended(wal, log, entries))
                  ELSE Appended(wal, log, entries)
        /\ IF s.ok THEN Acknowledge(MatchIndex(prev, entries)) ELSE UNCHANGED acked
        /\ UNCHANGED <<snapshot, lastApplied, compaction, installing, era, failures, crashes>>

\* The disk refuses after the first k entries: on the rewrite that cuts a
\* conflict, or on the write of entry k+1.  What has been done stays done.
AppendEntriesFails(prev, entries, k) ==
    LET done == Splice(log, SubSeq(entries, 1, k)).log
        w    == Appended(wal, log, SubSeq(entries, 1, k))
        e    == entries[k + 1]
        room == Room(done, e)
    IN  /\ Receives(prev, entries)
        /\ ~Known(done, e)
        /\ wal.open \/ done = log
        /\ log' = room
        /\ wal' \in IF Conflicts(done, e)
                    THEN RewriteFails(w, room.cache)
                         \cup (IF w.open THEN WriteFails(Rewritten(room.cache)) ELSE {})
                    ELSE WriteFails(w)
        /\ Fault
        /\ UNCHANGED <<snapshot, lastApplied, compaction, installing, era, acked, crashes>>

\* The batch is written and the final fsync fails: it is refused, but it is in
\* the cache.
AppendEntriesSyncFails(prev, entries) ==
    LET s == Splice(log, entries)
    IN  /\ Receives(prev, entries)
        /\ wal.open
        /\ s.ok
        /\ s.log # log
        /\ log' = s.log
        /\ wal' = Appended(wal, log, entries)
        /\ Fault
        /\ UNCHANGED <<snapshot, lastApplied, compaction, installing, era, acked, crashes>>

(***************************************************************************)
(* Proposals of this node as leader                                         *)
(***************************************************************************)

Proposes ==
    /\ Leader.self
    /\ log.nextIndex <= MaxIndex

ProposeEntry ==
    /\ Proposes
    /\ wal.open
    /\ log' = AppendLeader(log, Leader.term)
    /\ wal' = Synced(Written(wal, <<LeaderEntry(log, Leader.term)>>))
    /\ acked' = acked \cup {LeaderEntry(log, Leader.term)}
    /\ UNCHANGED <<snapshot, lastApplied, compaction, installing, era, failures, crashes>>

ProposeEntryFails ==
    /\ Proposes
    /\ wal' \in WriteFails(wal)
                \cup (IF wal.open THEN {Written(wal, <<LeaderEntry(log, Leader.term)>>)} ELSE {})
    /\ Fault
    /\ UNCHANGED <<log, snapshot, lastApplied, compaction, installing, era, acked, crashes>>

(***************************************************************************)
(* Snapshots                                                                *)
(***************************************************************************)

\* applyCommitted moves on to an entry the leader has reported committed and
\* this node has acknowledged.
ApplyCommitted ==
    /\ installing = NoSnapshot
    /\ lastApplied < Leader.commit
    /\ GetEntry(log, lastApplied + 1) \in acked
    /\ lastApplied' = lastApplied + 1
    /\ UNCHANGED <<log, disk, compaction, installing, era, acked, failures, crashes>>

\* Defect: the commit index is taken for the applied one.
ChooseCompactionCommitted ==
    LET index == Min({Leader.commit, LatestIndex(log)})
    IN  /\ compaction = NotCompacting
        /\ Overlap \/ installing = NoSnapshot
        /\ Len(log.cache) >= CompactionThreshold
        /\ TermAt(log, index) # 0
        /\ compaction' = [stage |-> "chosen", index |-> index, term |-> TermAt(log, index)]
        /\ UNCHANGED <<log, disk, lastApplied, installing, era, acked, failures, crashes>>

\* compact: the applied index and its term are read ...
ChooseCompaction ==
    /\ compaction = NotCompacting
    /\ Overlap \/ installing = NoSnapshot
    /\ Len(log.cache) >= CompactionThreshold
    /\ lastApplied > 0
    /\ TermAt(log, lastApplied) # 0
    /\ compaction' = [stage |-> "chosen", index |-> lastApplied,
                      term |-> TermAt(log, lastApplied)]
    /\ UNCHANGED <<log, disk, lastApplied, installing, era, acked, failures, crashes>>

\* ... the snapshot file is replaced ...
WriteCompaction ==
    /\ compaction.stage = "chosen"
    /\ snapshot' = [index |-> compaction.index, term |-> compaction.term]
    /\ compaction' = [compaction EXCEPT !.stage = "written"]
    /\ UNCHANGED <<log, wal, lastApplied, installing, era, acked, failures, crashes>>

\* ... or that fails, before or after the rename, and compact gives up ...
WriteCompactionFails ==
    /\ compaction.stage = "chosen"
    /\ snapshot' \in {snapshot, [index |-> compaction.index, term |-> compaction.term]}
    /\ compaction' = NotCompacting
    /\ failures < MaxFailures /\ failures' = failures + 1
    /\ UNCHANGED <<log, wal, lastApplied, installing, era, acked, crashes>>

\* ... and the log is truncated behind it.
FinishCompaction ==
    LET l == TruncateBeforeIndex(log, compaction.index, compaction.term)
    IN  /\ compaction.stage = "written"
        /\ wal.open \/ l = log
        /\ log' = l
        /\ wal' = IF l = log THEN wal ELSE Rewritten(l.cache)
        /\ compaction' = NotCompacting
        /\ UNCHANGED <<snapshot, lastApplied, installing, era, acked, failures, crashes>>

FinishCompactionFails ==
    LET l == TruncateBeforeIndex(log, compaction.index, compaction.term)
    IN  /\ compaction.stage = "written"
        /\ l # log
        /\ log' = l
        /\ wal' \in RewriteFails(wal, l.cache)
        /\ compaction' = NotCompacting
        /\ Fault
        /\ UNCHANGED <<snapshot, lastApplied, installing, era, acked, crashes>>

\* HandleInstallSnapshot from the current leader.
ReceivesSnapshot(index) ==
    /\ ~Leader.self
    /\ installing = NoSnapshot
    /\ Overlap \/ compaction = NotCompacting
    /\ index <= Leader.commit

\* A boundary the log already starts behind is acknowledged at once.
SnapshotCovered(index) ==
    /\ ReceivesSnapshot(index)
    /\ index <= log.firstIndex - 1
    /\ Acknowledge(index)
    /\ UNCHANGED <<log, disk, lastApplied, compaction, installing, era, failures, crashes>>

\* Any other snapshot is persisted first ...
InstallSnapshot(index) ==
    /\ ReceivesSnapshot(index)
    /\ index > log.firstIndex - 1
    /\ snapshot' = [index |-> index, term |-> Leader.log[index]]
    /\ installing' = snapshot'
    /\ UNCHANGED <<log, wal, lastApplied, compaction, era, acked, failures, crashes>>

\* ... or that fails, before or after the rename, and the request is refused ...
InstallSnapshotFails(index) ==
    /\ ReceivesSnapshot(index)
    /\ index > log.firstIndex - 1
    /\ snapshot' \in {snapshot, [index |-> index, term |-> Leader.log[index]]}
    /\ failures < MaxFailures /\ failures' = failures + 1
    /\ UNCHANGED <<log, wal, lastApplied, compaction, installing, era, acked, crashes>>

\* ... then the boundaries are raised, the log is reset and the leader answered.
FinishInstall ==
    LET l == ResetToSnapshot(log, installing.index, installing.term)
    IN  /\ installing # NoSnapshot
        /\ wal.open \/ l = log
        /\ log' = l
        /\ wal' = IF l = log THEN wal ELSE Rewritten(l.cache)
        /\ installing' = NoSnapshot
        /\ lastApplied' = Max({lastApplied, installing.index})
        /\ Acknowledge(installing.index)
        /\ UNCHANGED <<snapshot, compaction, era, failures, crashes>>

FinishInstallFails ==
    LET l == ResetToSnapshot(log, installing.index, installing.term)
    IN  /\ installing # NoSnapshot
        /\ l # log
        /\ log' = l
        /\ wal' \in RewriteFails(wal, l.cache)
        /\ installing' = NoSnapshot
        /\ lastApplied' = Max({lastApplied, installing.index})
        /\ Fault
        /\ UNCHANGED <<snapshot, compaction, era, acked, crashes>>

(***************************************************************************)
(* Leader changes and crashes                                               *)
(***************************************************************************)

Holds(l, e) == e.Index <= l.lastIncludedIndex \/ GetEntry(l, e.Index) = e

\* The next leader's log has what it keeps of this node's term only if the
\* node made it.  Another node's election discards what its log lacks; this
\* node's own starts from the log the script gives it.
NextEra ==
    /\ era < Len(Eras)
    /\ installing = NoSnapshot
    /\ era' = era + 1
    /\ LET new  == Eras[era + 1]
           have == {[Index |-> i, Term |-> new.log[i]] : i \in DOMAIN new.log}
       IN  /\ \A e \in have :
                 new.self \/ (Leader.self /\ e.Term = Leader.term) => Holds(log, e)
           /\ new.self => LatestIndex(log) = Len(new.log)
           /\ acked' = IF new.self THEN acked ELSE acked \cap have
    /\ UNCHANGED <<log, disk, lastApplied, compaction, installing, failures, crashes>>

\* Frames that were not fsynced may be lost, the last ones first.
Crash ==
    /\ crashes < MaxCrashes /\ failures = 0
    /\ crashes' = crashes + 1
    /\ \E kept \in wal.synced .. Len(wal.frames) :
          log' = Startup(SubSeq(wal.frames, 1, kept), snapshot)
    /\ wal' = Rewritten(log'.cache)
    /\ lastApplied' = snapshot.index
    /\ compaction' = NotCompacting
    /\ installing' = NoSnapshot
    /\ UNCHANGED <<snapshot, era, acked, failures>>

Batch(prev, n) == LeaderEntries(prev + 1, prev + n)

Next ==
    \/ \E prev \in 0 .. Len(Leader.log) : \E n \in 0 .. Len(Leader.log) - prev :
          \/ AppendEntriesToLog(prev, Batch(prev, n))
          \/ AppendEntriesSyncFails(prev, Batch(prev, n))
          \/ \E k \in 0 .. n - 1 : AppendEntriesFails(prev, Batch(prev, n), k)
    \/ ProposeEntry
    \/ ProposeEntryFails
    \/ ApplyCommitted
    \/ ChooseCompaction
    \/ WriteCompaction
    \/ WriteCompactionFails
    \/ FinishCompaction
    \/ FinishCompactionFails
    \/ \E index \in Snapshots : \/ SnapshotCovered(index)
                               \/ InstallSnapshot(index)
                               \/ InstallSnapshotFails(index)
    \/ FinishInstall
    \/ FinishInstallFails
    \/ NextEra
    \/ Crash

Spec == Init /\ [][Next]_vars

(***************************************************************************)
(* Properties                                                               *)
(***************************************************************************)

\* cache[i] holds index firstIndex+i, on which every index translation of the
\* log depends, and nothing is missing between the snapshot and the cache.
Positional ==
    /\ \A i \in DOMAIN log.cache : log.cache[i].Index = log.firstIndex + i - 1
    /\ log.cache # <<>> => log.firstIndex = log.lastIncludedIndex + 1

\* No late, repeated or overlapping batch, compaction or snapshot makes the
\* node lose an entry it has acknowledged and the leader still counts on.
AckedHeld == \A e \in acked : Holds(log, e)

\* ... nor does a crash at this very moment, however much of the file that was
\* not fsynced it takes away ("fsync ensures the entry survives a crash before
\* we acknowledge it").
AckedSurvives ==
    \A kept \in wal.synced .. Len(wal.frames) :
        \A e \in acked : Holds(Startup(SubSeq(wal.frames, 1, kept), snapshot), e)

\* AckedSurvives as long as no write has failed.
CrashLosesNothing == failures = 0 => AckedSurvives

\* applyCommitted always finds its next entry: no compaction, snapshot or
\* restart takes an entry out of the log before it has been applied ("a missing
\* entry means the log lost something it had promised to keep").
NextToApplyKept == log.firstIndex <= lastApplied + 1
=============================================================================
