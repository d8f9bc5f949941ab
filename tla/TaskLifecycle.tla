---------------------------- MODULE TaskLifecycle ----------------------------
(****************************************************************************)
(* What the task queue promises to the rest of the system, with no leases,  *)
(* executions or clocks: a task is attempted at most MaxAttempts times,     *)
(* ends at most once and never leaves its end state, and a message leaves   *)
(* the queue only when its task has ended.                                  *)
(****************************************************************************)
EXTENDS Naturals

CONSTANTS Tasks, Msgs, Target, MaxAttempts

VARIABLES
  phase,     \* where a task is: a wait for the first attempt or for another one is a wait
  attempts,  \* how often it was attempted
  settled    \* the messages that left the queue

vars == <<phase, attempts, settled>>

Ended == {"SUCCEEDED", "SUPERSEDED", "FAILED_MANUAL_REVIEW"}

Init ==
  /\ phase = [t \in Tasks |-> "ABSENT"]
  /\ attempts = [t \in Tasks |-> 0]
  /\ settled = {}

Create(t) ==
  /\ phase[t] = "ABSENT"
  /\ phase' = [phase EXCEPT ![t] = "WAITING"]
  /\ UNCHANGED <<attempts, settled>>

\* An attempt starts only while there is one left.
Start(t) ==
  /\ phase[t] = "WAITING"
  /\ attempts[t] < MaxAttempts
  /\ phase' = [phase EXCEPT ![t] = "RUNNING"]
  /\ attempts' = [attempts EXCEPT ![t] = @ + 1]
  /\ UNCHANGED settled

End(t, s) ==
  /\ phase[t] = "RUNNING"
  /\ s \in {"SUCCEEDED", "SUPERSEDED"}
  /\ phase' = [phase EXCEPT ![t] = s]
  /\ UNCHANGED <<attempts, settled>>

\* Several attempts may be written off at once; the last one of a task sends
\* it to manual review.
WriteOff(S) ==
  /\ \A t \in S : phase[t] = "RUNNING"
  /\ phase' = [t \in Tasks |->
                  IF t \notin S THEN phase[t]
                  ELSE IF attempts[t] = MaxAttempts THEN "FAILED_MANUAL_REVIEW"
                  ELSE "WAITING"]
  /\ UNCHANGED <<attempts, settled>>

Settle(m) ==
  /\ phase[Target[m]] \in Ended
  /\ settled' = settled \cup {m}
  /\ UNCHANGED <<phase, attempts>>

Next ==
  \/ \E t \in Tasks : Create(t) \/ Start(t)
  \/ \E t \in Tasks, s \in Ended : End(t, s)
  \/ \E S \in SUBSET Tasks : WriteOff(S)
  \/ \E m \in Msgs : Settle(m)

Spec == Init /\ [][Next]_vars
==============================================================================
