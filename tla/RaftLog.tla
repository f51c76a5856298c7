------------------------------- MODULE RaftLog -------------------------------
(***************************************************************************)
(* The in-memory log of internal/raft/log.go as operators on a record       *)
(*   [cache, nextIndex, firstIndex, lastIncludedIndex, lastIncludedTerm].   *)
(* Each operator is the memory half of the method it is named after, run    *)
(* under rl.mu; LogStore adds the write-ahead log.  An entry is a record    *)
(* with at least Index and Term: nothing in the log reads the command.      *)
(***************************************************************************)
EXTENDS Integers, Sequences, FiniteSetsExt

\* The zero LogEntry that getEntryLocked returns beside ok = false.
NoEntry == [Index |-> 0, Term |-> 0]

NewRaftLog ==
    [cache |-> <<>>, nextIndex |-> 1, firstIndex |-> 1,
     lastIncludedIndex |-> 0, lastIncludedTerm |-> 0]

(***************************************************************************)
(* Reading                                                                  *)
(***************************************************************************)

\* The cache is positional: the slot is computed, never searched for.
HasEntry(l, index) == index - l.firstIndex + 1 \in DOMAIN l.cache

GetEntry(l, index) ==
    IF HasEntry(l, index) THEN l.cache[index - l.firstIndex + 1] ELSE NoEntry

LatestIndex(l) == IF l.cache = <<>> THEN l.lastIncludedIndex ELSE l.cache[Len(l.cache)].Index
LatestTerm(l) == IF l.cache = <<>> THEN l.lastIncludedTerm ELSE l.cache[Len(l.cache)].Term

TermAt(l, index) ==
    IF index = l.lastIncludedIndex THEN l.lastIncludedTerm ELSE GetEntry(l, index).Term

GetEntriesFrom(l, index) ==
    IF index < l.firstIndex
    THEN <<>>
    ELSE SubSeq(l.cache, index - l.firstIndex + 1, Len(l.cache))

(***************************************************************************)
(* Appending                                                                *)
(***************************************************************************)

\* Stored(l, e): e goes to the end of the cache, which also moves nextIndex.
Stored(l, e) == [l EXCEPT !.cache = Append(@, e), !.nextIndex = e.Index + 1]

\* Defect: the entry is made before the leader knows its term.
LeaderEntryNoTerm(l, term) == [Index |-> l.nextIndex, Term |-> 0]

\* The entry AppendLeader makes: it takes nextIndex, not the end of the cache.
LeaderEntry(l, term) == [Index |-> l.nextIndex, Term |-> term]
AppendLeader(l, term) == Stored(l, LeaderEntry(l, term))

\* Step 2 of AppendEntries, and what a refusal tells the leader: where our log
\* ends, or the first index we hold of the term that does not match.
PrevMatches(l, prev, prevTerm) ==
    prev = 0 \/ (prev <= LatestIndex(l) /\ TermAt(l, prev) = prevTerm)

ConflictIndex(l, prev) ==
    IF prev > LatestIndex(l)
    THEN LatestIndex(l) + 1
    ELSE Min({prev} \cup
             {i \in l.firstIndex .. prev :
                 \A j \in i .. prev - 1 : GetEntry(l, j).Term = TermAt(l, prev)})

\* Defect: an entry is known by its index alone.
KnownByIndex(l, e) == HasEntry(l, e.Index)

\* Steps 3 and 4, entry by entry: one already held is skipped, a conflicting
\* one cuts the log first, and one that would leave a gap ends the batch.
Known(l, e) == HasEntry(l, e.Index) /\ GetEntry(l, e.Index).Term = e.Term
Conflicts(l, e) == HasEntry(l, e.Index) /\ GetEntry(l, e.Index).Term # e.Term
CutBefore(l, index) == [l EXCEPT !.cache = SubSeq(@, 1, index - l.firstIndex)]
Room(l, e) == IF Conflicts(l, e) THEN CutBefore(l, e.Index) ELSE l

\* Defect: every entry cuts the log, also one that is already held.
SpliceEntryAlwaysCuts(s, e) ==
    [log |-> Stored(CutBefore(s.log, e.Index), e), ok |-> TRUE]

SpliceEntry(s, e) ==
    IF ~s.ok \/ Known(s.log, e)
    THEN s
    ELSE LET room == Room(s.log, e)
         IN  IF e.Index = room.firstIndex + Len(room.cache)
             THEN [log |-> Stored(room, e), ok |-> TRUE]
             ELSE [log |-> room, ok |-> FALSE]

Splice(l, entries) ==
    LET spliced[k \in 0 .. Len(entries)] ==
            IF k = 0 THEN [log |-> l, ok |-> TRUE] ELSE SpliceEntry(spliced[k - 1], entries[k])
    IN  spliced[Len(entries)]

MatchIndex(prev, entries) ==
    IF entries = <<>> THEN prev ELSE entries[Len(entries)].Index

(***************************************************************************)
(* Snapshot boundary                                                        *)
(***************************************************************************)

After(cache, index) == SelectSeq(cache, LAMBDA e : e.Index > index)

\* Defect: firstIndex is not moved along.
TruncateBeforeIndexInPlace(l, index, term) ==
    IF index < l.firstIndex
    THEN l
    ELSE [l EXCEPT !.cache = After(@, index),
                   !.lastIncludedIndex = index, !.lastIncludedTerm = term]

TruncateBeforeIndex(l, index, term) ==
    IF index < l.firstIndex
    THEN l
    ELSE [l EXCEPT !.cache = After(@, index), !.firstIndex = index + 1,
                   !.lastIncludedIndex = index, !.lastIncludedTerm = term]

\* A log that holds the boundary entry keeps what follows it (step 6), any
\* other is discarded (step 7).  nextIndex is only ever raised to firstIndex
\* when nothing is kept.
ResetToSnapshot(l, index, term) ==
    LET holds == HasEntry(l, index) /\ GetEntry(l, index).Term = term
        kept  == IF holds THEN After(l.cache, index) ELSE <<>>
    IN  IF index <= l.lastIncludedIndex
        THEN l
        ELSE [cache |-> kept, firstIndex |-> index + 1,
              lastIncludedIndex |-> index, lastIncludedTerm |-> term,
              nextIndex |-> IF kept = <<>>
                            THEN Max({l.nextIndex, index + 1})
                            ELSE kept[Len(kept)].Index + 1]

\* Startup: frames as recover reads them back, then the reconciliation with
\* the snapshot, which keeps the entries that count up from its boundary.
Recovered(frames) ==
    IF frames = <<>>
    THEN NewRaftLog
    ELSE [NewRaftLog EXCEPT !.cache = frames, !.firstIndex = Head(frames).Index,
                            !.nextIndex = frames[Len(frames)].Index + 1]

Contiguous(cache, from) ==
    LET kept[k \in 0 .. Len(cache)] ==
            IF k = 0 THEN <<>>
            ELSE IF cache[k].Index = from + Len(kept[k - 1]) THEN Append(kept[k - 1], cache[k])
            ELSE kept[k - 1]
    IN  kept[Len(cache)]

RestoreOffset(l, index, term) ==
    LET kept == Contiguous(l.cache, index + 1)
    IN  [cache |-> kept, nextIndex |-> index + 1 + Len(kept), firstIndex |-> index + 1,
         lastIncludedIndex |-> index, lastIncludedTerm |-> term]
=============================================================================
