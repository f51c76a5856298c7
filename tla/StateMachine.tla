---------------------------- MODULE StateMachine ----------------------------
(***************************************************************************)
(* The replicated state machine of internal/store/statemachine.go as        *)
(* operators on a record                                                    *)
(*   [data, sessions, now, appliesSinceSweep, executed].                    *)
(* A value is known by the index of the command that wrote it, so that two  *)
(* executions of one command can be told apart; `executed' is history, the  *)
(* indices of the commands that were executed and not recognised as         *)
(* retransmissions.  A command that fails stops the node (applyCommitted),  *)
(* so a session never has an error to remember.                             *)
(***************************************************************************)
EXTENDS Integers, FiniteSets, Sequences, FiniteSetsExt

CONSTANTS
    Key,            \* the keys of the store
    Client,         \* the clients that identify themselves
    Anonymous,      \* the empty ClientID
    SweepInterval,  \* sweepInterval: applied commands from one expiry sweep to the next
    SessionTTL      \* MemoryStateMachine.sessionTTL

ASSUME StateMachineAssumption ==
    /\ IsFiniteSet(Key) /\ IsFiniteSet(Client) /\ Anonymous \notin Client
    /\ SweepInterval \in Nat \ {0}
    /\ SessionTTL \in Nat

Absent == 0

NewMemoryStateMachine ==
    [data |-> [k \in Key |-> Absent], sessions |-> <<>>, now |-> 0,
     appliesSinceSweep |-> 0, executed |-> {}]

\* A state has these fields and no others.
IsMachine(m) ==
    m = [data |-> m.data, sessions |-> m.sessions, now |-> m.now,
         appliesSinceSweep |-> m.appliesSinceSweep, executed |-> m.executed]

\* The replicated clock only moves forward.
Advanced(m, cmd) == [m EXCEPT !.now = Max({@, cmd.Timestamp})]

\* Defect: a session expires the moment it reaches the TTL, not past it.
expireSessionsEarly(m) ==
    IF m.appliesSinceSweep + 1 < SweepInterval
    THEN [m EXCEPT !.appliesSinceSweep = @ + 1]
    ELSE [m EXCEPT !.appliesSinceSweep = 0,
                   !.sessions = [c \in {d \in DOMAIN @ : @[d].LastUsed > m.now - SessionTTL} |-> @[c]]]

\* Every SweepInterval-th command reclaims the sessions that were last used
\* before the cutoff.
expireSessions(m) ==
    LET live == {c \in DOMAIN m.sessions : m.sessions[c].LastUsed >= m.now - SessionTTL}
    IN  IF m.appliesSinceSweep + 1 < SweepInterval
        THEN [m EXCEPT !.appliesSinceSweep = @ + 1]
        ELSE [m EXCEPT !.appliesSinceSweep = 0,
                       !.sessions = [c \in live |-> @[c]]]

Duplicate(m, cmd) ==
    /\ cmd.ClientID # Anonymous
    /\ cmd.ClientID \in DOMAIN m.sessions
    /\ cmd.Seq <= m.sessions[cmd.ClientID].LastSeq

execute(m, index, cmd) ==
    [m EXCEPT !.executed = @ \cup {index},
              !.data = IF cmd.Op = "noop" THEN @
                       ELSE [@ EXCEPT ![cmd.Key] = IF cmd.Op = "set" THEN index ELSE Absent]]

\* The command's client is remembered with the time of the replicated clock.
Recorded(m, cmd) ==
    IF cmd.ClientID = Anonymous
    THEN m
    ELSE [m EXCEPT !.sessions =
             [c \in DOMAIN @ \cup {cmd.ClientID} |->
                 IF c = cmd.ClientID THEN [LastSeq |-> cmd.Seq, LastUsed |-> m.now] ELSE @[c]]]

Apply(m, index, cmd) ==
    LET swept == expireSessions(Advanced(m, cmd))
    IN  IF Duplicate(swept, cmd) THEN swept ELSE Recorded(execute(swept, index, cmd), cmd)

\* machineState, what a snapshot holds: the data, the dedup table, the clock and
\* the progress to the next sweep.
Snapshot(m) ==
    [data |-> m.data, sessions |-> m.sessions, now |-> m.now,
     appliesSinceSweep |-> m.appliesSinceSweep, executed |-> m.executed]

\* Restore replaces each of them, whatever the state was.
Restore(st) ==
    [data |-> st.data, sessions |-> st.sessions, now |-> st.now,
     appliesSinceSweep |-> st.appliesSinceSweep, executed |-> st.executed]

(***************************************************************************)
(* The reference: what a log means.                                         *)
(***************************************************************************)

\* The state after the first i commands of a log, each applied once, in order.
Replay(log, i) ==
    LET after[k \in 0 .. i] ==
            IF k = 0 THEN NewMemoryStateMachine ELSE Apply(after[k - 1], k, log[k])
    IN  after[i]

\* The replicated clock when the i-th command is applied.
ClockAt(log, i) == Max({0} \cup {log[k].Timestamp : k \in 1 .. i})

SameCommand(log, i, j) ==
    /\ log[i].ClientID # Anonymous
    /\ log[i].ClientID = log[j].ClientID
    /\ log[i].Seq = log[j].Seq
=============================================================================
