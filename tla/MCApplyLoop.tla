---------------------------- MODULE MCApplyLoop ----------------------------
(***************************************************************************)
(* ApplyLoop with logs of MaxLength commands of one client, who retries and *)
(* goes on to its next command only when the last one is in the log, and of *)
(* an anonymous one, stamped by leaders whose clocks run on, jump ahead, or *)
(* go back.                                                                 *)
(***************************************************************************)
EXTENDS ApplyLoop

CONSTANTS k1, c1, nobody

OneKey == {k1}
OneClient == {c1}

MaxLength == 4

Clocks == {<<1, 1, 2, 3>>, <<3, 1, 4, 5>>}

Command(kind, time) ==
    CASE kind = "create" -> [Op |-> "set", Key |-> k1, ClientID |-> c1, Seq |-> 1, Timestamp |-> time]
      [] kind = "remove" -> [Op |-> "delete", Key |-> k1, ClientID |-> c1, Seq |-> 2, Timestamp |-> time]
      [] kind = "recreate" -> [Op |-> "set", Key |-> k1, ClientID |-> nobody, Seq |-> 0, Timestamp |-> time]
      [] kind = "noop" -> [Op |-> "noop", ClientID |-> nobody, Seq |-> 0, Timestamp |-> time]

Kinds == {"create", "remove", "recreate"}

InOrder(log) ==
    \A i \in DOMAIN log :
        log[i].Seq > 1 => \E j \in 1 .. i - 1 :
                             log[j].ClientID = log[i].ClientID /\ log[j].Seq = log[i].Seq - 1

SmallLogs ==
    {log \in {[i \in 1 .. MaxLength |-> Command(script[i], clock[i])] :
                 script \in {"create", "noop"} \X {"create", "recreate"} \X Kinds \X {"create", "remove"},
                 clock \in Clocks} : InOrder(log)}

Replays == [log \in SmallLogs |-> [i \in 0 .. MaxLength |-> Replay(log, i)]]
=============================================================================
