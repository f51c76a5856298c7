------------------------------ MODULE ApplyLoop ------------------------------
(***************************************************************************)
(* How one node's state machine follows the committed log: applyCommitted   *)
(* and compact on the control loop (internal/engine/engine.go), while       *)
(* HandleInstallSnapshot (internal/raft/node.go) replaces the state from an *)
(* HTTP goroutine, and restoreFromSnapshot (cmd/crystal/main.go) after a    *)
(* crash.                                                                   *)
(*                                                                          *)
(* The receivers and the boundary accessors take rn.mu, which               *)
(* HandleInstallSnapshot holds from start to end; reading the log, applying *)
(* to the state machine, writing the snapshot file and truncating do not.   *)
(* Windows lists the parts of the control loop an installation may overlap. *)
(* LogStore has the log's contents; here only its first index matters.      *)
(* The leader's snapshot is taken to be faithful, as SnapshotFaithful shows *)
(* of every node's own.                                                     *)
(***************************************************************************)
EXTENDS StateMachine

CONSTANTS
    Logs,                 \* the committed logs to consider, sequences of commands
    Meaning,              \* Meaning[log][i]: the state the first i commands of a log stand for
    Windows,              \* which of "apply", "compact" and "stale" installations may hit
    CompactionThreshold,  \* RaftLog.compactionThreshold
    MaxTail,              \* bound: entries in the log beyond the commit index
    MaxFailures,          \* bound: writes that fail
    MaxCrashes            \* bound: crashes

ASSUME ApplyLoopAssumption ==
    /\ Logs \subseteq Seq([Op : {"set", "delete"}, Key : Key, ClientID : Client \cup {Anonymous},
                           Seq : Nat, Timestamp : Nat]
                          \cup [Op : {"noop"}, ClientID : {Anonymous}, Seq : {0}, Timestamp : Nat])
    /\ Windows \subseteq {"apply", "compact", "stale"}
    /\ CompactionThreshold \in Nat \ {0}
    /\ {MaxTail, MaxFailures, MaxCrashes} \subseteq Nat

\* The empty store, and then each command applied once, in order.
ASSUME MeaningAssumption ==
    \A log \in Logs :
        /\ \A i \in 0 .. Len(log) : IsMachine(Meaning[log][i])
        /\ Meaning[log][0] = NewMemoryStateMachine
        /\ \A i \in 1 .. Len(log) : Meaning[log][i] = Apply(Meaning[log][i - 1], i, log[i])

\* Clients number their commands upwards and go on only when the last one is in
\* the log, so that a lower number is one already seen ("the command is a
\* retransmission", Apply).
ASSUME RetransmissionAssumption ==
    \A log \in Logs : \A i, j \in DOMAIN log :
        i < j /\ log[i].ClientID # Anonymous /\ log[i].ClientID = log[j].ClientID =>
            \/ log[j].Seq >= log[i].Seq
            \/ \E h \in 1 .. i - 1 : SameCommand(log, h, j)

VARIABLES
    committed,   \* the cluster's committed log, of which the node learns prefixes
    firstIndex,  \* RaftLog.firstIndex
    commitIndex, \* RaftNode.CommitIndex
    lastApplied, \* RaftNode.LastApplied
    machine,     \* the state machine
    loop,        \* where the control loop is, with its local copies
    snapshot,    \* the snapshot file: LastIncludedIndex and state
    install,     \* the InstallSnapshot being handled: stage and LastIncludedIndex
    unsaved,     \* history: a snapshot was restored that could not be persisted, and none since
    failures,
    crashes

node == <<firstIndex, commitIndex, lastApplied>>
vars == <<committed, node, machine, loop, snapshot, install, unsaved, failures, crashes>>

NotInstalling == [at |-> "none", index |-> 0]
Idle == [at |-> "idle", commitIndex |-> 0, lastApplied |-> 0]
NoSnapshot == [index |-> 0, state |-> NewMemoryStateMachine]

Indices == 0 .. Len(committed)

TypeOK ==
    /\ firstIndex \in 1 .. Len(committed) + 1
    /\ {commitIndex, lastApplied, snapshot.index, install.index} \subseteq Indices
    /\ loop.at \in {"idle", "apply", "fetched", "applied", "chosen", "written", "halted"}
    /\ {loop.commitIndex, loop.lastApplied} \subseteq Indices
    /\ install.at \in {"none", "restored", "persisted"}
    /\ machine.executed \subseteq 1 .. Len(committed)
    /\ DOMAIN machine.sessions \subseteq Client
    /\ unsaved \in BOOLEAN
    /\ failures \in 0 .. MaxFailures
    /\ crashes \in 0 .. MaxCrashes

Init ==
    /\ committed \in Logs
    /\ firstIndex = 1
    /\ commitIndex = 0
    /\ lastApplied = 0
    /\ machine = NewMemoryStateMachine
    /\ loop = Idle
    /\ snapshot = NoSnapshot
    /\ install = NotInstalling
    /\ unsaved = FALSE
    /\ failures = 0
    /\ crashes = 0

Fault == failures < MaxFailures /\ failures' = failures + 1

Unlocked == install = NotInstalling    \* rn.mu is free

(***************************************************************************)
(* Learning and applying                                                    *)
(***************************************************************************)

\* A receiver, or the commit rule on a leader, moves the commit index.
LearnCommitted(index) ==
    /\ Unlocked
    /\ index > commitIndex
    /\ commitIndex' = index
    /\ UNCHANGED <<committed, firstIndex, lastApplied, machine, loop, snapshot, install, unsaved,
                   failures, crashes>>

\* Defect: the commit index is taken for the first index not to apply.
BeginApplyExclusive ==
    /\ loop.at = "idle"
    /\ Unlocked
    /\ loop' = [at |-> "apply", commitIndex |-> Max({0, commitIndex - 1}), lastApplied |-> lastApplied]
    /\ UNCHANGED <<committed, node, machine, snapshot, install, unsaved, failures, crashes>>

\* applyCommitted copies both boundaries once ...
BeginApply ==
    /\ loop.at = "idle"
    /\ Unlocked
    /\ loop' = [at |-> "apply", commitIndex |-> commitIndex, lastApplied |-> lastApplied]
    /\ UNCHANGED <<committed, node, machine, snapshot, install, unsaved, failures, crashes>>

\* Defect: the first entry of the log is not found.
FetchEntryPastFirst ==
    /\ loop.at = "apply"
    /\ loop.lastApplied < loop.commitIndex
    /\ loop' = [loop EXCEPT !.at = IF loop.lastApplied + 1 > firstIndex
                                   THEN "fetched" ELSE "halted"]
    /\ UNCHANGED <<committed, node, machine, snapshot, install, unsaved, failures, crashes>>

\* ... looks up the entry after its copy, without which the node halts ...
FetchEntry ==
    /\ loop.at = "apply"
    /\ loop.lastApplied < loop.commitIndex
    /\ loop' = [loop EXCEPT !.at = IF loop.lastApplied + 1 >= firstIndex
                                   THEN "fetched" ELSE "halted"]
    /\ UNCHANGED <<committed, node, machine, snapshot, install, unsaved, failures, crashes>>

\* ... applies it ...
ApplyEntry ==
    /\ loop.at = "fetched"
    /\ machine' = Apply(machine, loop.lastApplied + 1, committed[loop.lastApplied + 1])
    /\ loop' = [loop EXCEPT !.at = "applied"]
    /\ UNCHANGED <<committed, node, snapshot, install, unsaved, failures, crashes>>

\* Defect: the shared boundary is set from the local copy's end.
AdvanceLastAppliedToCommit ==
    /\ loop.at = "applied"
    /\ Unlocked
    /\ lastApplied' = loop.commitIndex
    /\ loop' = [loop EXCEPT !.at = "apply", !.lastApplied = lastApplied']
    /\ UNCHANGED <<committed, firstIndex, commitIndex, machine, snapshot, install, unsaved,
                   failures, crashes>>

\* ... and increments the shared boundary, whatever it is by now.
AdvanceLastApplied ==
    /\ loop.at = "applied"
    /\ Unlocked
    /\ lastApplied' = lastApplied + 1
    /\ loop' = [loop EXCEPT !.at = "apply", !.lastApplied = lastApplied']
    /\ UNCHANGED <<committed, firstIndex, commitIndex, machine, snapshot, install, unsaved,
                   failures, crashes>>

(***************************************************************************)
(* Compaction                                                               *)
(***************************************************************************)

\* NeedsCompaction, for a cache that holds `tail' entries beyond the commit
\* index; compact also wants the term of the applied entry to be known.
NeedsCompaction(tail) ==
    /\ commitIndex + tail - firstIndex + 1 >= CompactionThreshold
    /\ lastApplied > 0
    /\ lastApplied >= firstIndex - 1

\* Defect: the commit index is taken for the applied one.
MaybeCompactCommitted ==
    /\ loop.at = "apply"
    /\ loop.lastApplied >= loop.commitIndex
    /\ Unlocked
    /\ \E tail \in 0 .. MaxTail :
          loop' = IF NeedsCompaction(tail)
                  THEN [loop EXCEPT !.at = "chosen", !.lastApplied = commitIndex]
                  ELSE Idle
    /\ UNCHANGED <<committed, node, machine, snapshot, install, unsaved, failures, crashes>>

\* maybeCompact reads the applied boundary once more ...
MaybeCompact ==
    /\ loop.at = "apply"
    /\ loop.lastApplied >= loop.commitIndex
    /\ Unlocked
    /\ \E tail \in 0 .. MaxTail :
          loop' = IF NeedsCompaction(tail)
                  THEN [loop EXCEPT !.at = "chosen", !.lastApplied = lastApplied]
                  ELSE Idle
    /\ UNCHANGED <<committed, node, machine, snapshot, install, unsaved, failures, crashes>>

\* SnapshotManager.Write: the state machine as it is now, under the given index.
Write(index) == snapshot' = [index |-> index, state |-> Snapshot(machine)]

\* ... compact writes the state under that index ...
WriteSnapshot ==
    /\ loop.at = "chosen"
    /\ Write(loop.lastApplied)
    /\ loop' = [loop EXCEPT !.at = "written"]
    /\ UNCHANGED <<committed, node, machine, install, unsaved, failures, crashes>>

\* ... or gives up when the file cannot be written, before or after the rename ...
WriteSnapshotFails ==
    /\ loop.at = "chosen"
    /\ Write(loop.lastApplied) \/ UNCHANGED snapshot
    /\ loop' = Idle
    /\ Fault
    /\ UNCHANGED <<committed, node, machine, install, unsaved, crashes>>

\* Defect: the entry after the snapshot's goes with it.
LogStartsPast(index) == firstIndex' = Max({firstIndex, index + 2})

\* TruncateBeforeIndex and ResetToSnapshot move the start of the log in memory
\* before they rewrite its file; a rewrite that fails is LogStore's subject.
LogStartsBehind(index) == firstIndex' = Max({firstIndex, index + 1})

\* ... and truncates the log behind it.
TruncateLog ==
    /\ loop.at = "written"
    /\ LogStartsBehind(loop.lastApplied)
    /\ loop' = Idle
    /\ UNCHANGED <<committed, commitIndex, lastApplied, machine, snapshot, install, unsaved,
                   failures, crashes>>

(***************************************************************************)
(* HandleInstallSnapshot                                                    *)
(***************************************************************************)

\* The control loop is where an installation does not disturb it, or the
\* window is open.
Undisturbed ==
    CASE loop.at \in {"apply", "fetched", "applied"} -> "apply" \in Windows
      [] loop.at \in {"chosen", "written"} -> "compact" \in Windows
      [] OTHER -> loop.at = "idle"

\* The leader's snapshot holds the state after its first `index' entries.  One
\* the log already starts behind changes nothing; any other is restored ...
InstallSnapshot(index) ==
    /\ Unlocked
    /\ Undisturbed
    /\ index > firstIndex - 1
    /\ index > lastApplied \/ "stale" \in Windows
    /\ machine' = Restore(Snapshot(Meaning[committed][index]))
    /\ install' = [at |-> "restored", index |-> index]
    /\ UNCHANGED <<committed, node, loop, snapshot, unsaved, failures, crashes>>

\* ... persisted from the state machine, not from the request ...
PersistInstalled ==
    /\ install.at = "restored"
    /\ Write(install.index)
    /\ install' = [install EXCEPT !.at = "persisted"]
    /\ unsaved' = FALSE
    /\ UNCHANGED <<committed, node, machine, loop, failures, crashes>>

\* ... or refused when that fails, with the restored state left in place ...
PersistInstalledFails ==
    /\ install.at = "restored"
    /\ Write(install.index) \/ UNCHANGED snapshot
    /\ install' = NotInstalling
    /\ unsaved' = TRUE
    /\ Fault
    /\ UNCHANGED <<committed, node, machine, loop, crashes>>

\* seedFromSnapshotLocked: the boundaries are raised, never lowered.
SeedFromSnapshot(index) ==
    /\ commitIndex' = Max({commitIndex, index})
    /\ lastApplied' = Max({lastApplied, index})

\* ... then the boundaries are raised and the log is reset.
FinishInstall ==
    /\ install.at = "persisted"
    /\ SeedFromSnapshot(install.index)
    /\ LogStartsBehind(install.index)
    /\ install' = NotInstalling
    /\ UNCHANGED <<committed, machine, loop, snapshot, unsaved, failures, crashes>>

\* restoreFromSnapshot: the file and the log behind it are all that is left.
Crash ==
    /\ crashes < MaxCrashes
    /\ crashes' = crashes + 1
    /\ machine' = Restore(snapshot.state)
    /\ commitIndex' = snapshot.index
    /\ lastApplied' = snapshot.index
    /\ firstIndex' = snapshot.index + 1
    /\ loop' = Idle
    /\ install' = NotInstalling
    /\ UNCHANGED <<committed, snapshot, unsaved, failures>>

ControlLoop ==
    \/ BeginApply
    \/ FetchEntry
    \/ ApplyEntry
    \/ AdvanceLastApplied
    \/ MaybeCompact
    \/ WriteSnapshot
    \/ WriteSnapshotFails
    \/ TruncateLog

Receiver == PersistInstalled \/ PersistInstalledFails \/ FinishInstall

Next ==
    \/ ControlLoop
    \/ Receiver
    \/ \E index \in 1 .. Len(committed) : LearnCommitted(index) \/ InstallSnapshot(index)
    \/ Crash

\* The control loop runs on, and a receiver that was entered returns.
Spec == Init /\ [][Next]_vars /\ WF_vars(ControlLoop) /\ WF_vars(Receiver)

(***************************************************************************)
(* Properties                                                               *)
(***************************************************************************)

\* How much of the log the state machine holds: the entry just applied counts
\* although lastApplied has not moved yet, and so does a snapshot being installed.
Held == IF install # NotInstalling THEN install.index
        ELSE lastApplied + IF loop.at = "applied" THEN 1 ELSE 0

\* State Machine Safety ("every replica apply the same entries in the same
\* order", applyCommitted): whatever mixture of applying, compacting,
\* installing and restarting brought it there, the state is the one that the
\* applied prefix of the committed log produces.  A snapshot restored but not
\* persisted (node.go:469) leaves the state ahead until the next one.
StateMachineSafety == unsaved \/ machine = Meaning[committed][Held]

\* compact and HandleInstallSnapshot serialise the state machine at a moment of
\* their own: the file must hold the state of the index it names, or a restart
\* or a follower starts from a state nobody was ever in.
SnapshotFaithful == unsaved \/ snapshot.state = Meaning[committed][snapshot.index]

\* Every identified command up to lastApplied has been executed, and executed
\* once, however often the client retried it and whichever snapshots, restarts
\* and expiry sweeps came in between, as long as the retry came within the TTL
\* of the replicated clock ("Dedup state is state").
ExactlyOnce ==
    ~unsaved =>
        /\ \A i, j \in machine.executed :
              i < j /\ SameCommand(committed, i, j)
                  => ClockAt(committed, j) - ClockAt(committed, i) > SessionTTL
        /\ \A j \in 1 .. Held :
              committed[j].ClientID # Anonymous
                  => \E i \in machine.executed : i = j \/ SameCommand(committed, i, j)

\* applyCommitted never finds an entry gone that it still has to apply ("the
\* log lost something it had promised to keep"), on which the node would stop
\* for good: whoever moves the start of the log has moved lastApplied first.
NothingMissing == loop.at # "halted"

\* What the node knows to be committed it eventually applies, unless it crashes
\* and forgets that it knew: the loop never starves and never halts on an
\* entry that has been compacted away.
CommittedIsApplied ==
    \A i \in 1 .. Max({Len(log) : log \in Logs}) :
        (i <= commitIndex) ~> (i <= lastApplied \/ commitIndex < i)
=============================================================================
