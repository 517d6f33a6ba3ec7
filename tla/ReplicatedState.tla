---------------------------- MODULE ReplicatedState ----------------------------
(***************************************************************************)
(* What Raft promises a validator about the state machine it keeps: the    *)
(* state is always what the first `applied' entries of the committed log   *)
(* produce, whether the replica came there by applying them one by one or  *)
(* by restoring a snapshot after a restart.  RaftRecovery implements it.   *)
(***************************************************************************)
EXTENDS Integers, Sequences

CONSTANTS
    Start,        \* the state before the first entry
    Step(_, _)    \* the state after an entry

VARIABLES log, applied, state

\* The state that the first i entries of l produce.
StateAt(l, i) ==
    LET S[k \in 0..i] == IF k = 0 THEN Start ELSE Step(S[k - 1], l[k])
    IN  S[i]

Init == log = <<>> /\ applied = 0 /\ state = Start

\* The cluster commits an entry.
Commit ==
    /\ Len(log') = Len(log) + 1 /\ SubSeq(log', 1, Len(log)) = log
    /\ UNCHANGED <<applied, state>>

\* The replica moves to another prefix: forward by an entry, back to nothing when
\* the process ends, or to that of a snapshot.
Move ==
    /\ applied' \in 0..Len(log)
    /\ state' = StateAt(log, applied')
    /\ UNCHANGED log

Next == Commit \/ Move

Spec == Init /\ [][Next]_<<log, applied, state>>
=============================================================================
