------------------------------ MODULE RunLifecycle ------------------------------
(***************************************************************************)
(* What a CollaborationRun promises to its clients: it runs in rounds, a   *)
(* round wakes the members at most once, rounds stop at the limit, and it  *)
(* ends once. How the engine stores it is left out.                        *)
(***************************************************************************)
EXTENDS Integers

CONSTANT Ids

VARIABLES
  status,     \* "None" until the run exists
  round,      \* the round the run is at
  limit,      \* MaxReplyRounds
  woken       \* the rounds that woke the members

lvars == <<status, round, limit, woken>>

Ended == {"Completed", "Failed", "Cancelled"}

LInit ==
  /\ status = [i \in Ids |-> "None"]
  /\ round = [i \in Ids |-> 0]
  /\ limit = [i \in Ids |-> 0]
  /\ woken = [i \in Ids |-> {}]

Open(i) ==
  /\ status[i] = "None"
  /\ status' = [status EXCEPT ![i] = "Running"]
  /\ limit' = [limit EXCEPT ![i] = limit'[i]]
  /\ UNCHANGED <<round, woken>>

Advance(i) ==
  /\ status[i] = "Running"
  /\ round[i] < limit[i]
  /\ round' = [round EXCEPT ![i] = @ + 1]
  /\ UNCHANGED <<status, limit, woken>>

Wake(i) ==
  /\ status[i] = "Running"
  /\ round[i] \in 1 .. limit[i]
  /\ round[i] \notin woken[i]
  /\ woken' = [woken EXCEPT ![i] = @ \union {round[i]}]
  /\ UNCHANGED <<status, round, limit>>

Exhaust(i) ==
  /\ status[i] = "Running"
  /\ round[i] >= limit[i]
  /\ round' = [round EXCEPT ![i] = @ + 1]
  /\ status' = [status EXCEPT ![i] = "Failed"]
  /\ UNCHANGED <<limit, woken>>

End(i, s) ==
  /\ status[i] = "Running"
  /\ status' = [status EXCEPT ![i] = s]
  /\ UNCHANGED <<round, limit, woken>>

LNext ==
  \E i \in Ids :
    \/ Open(i)
    \/ Advance(i)
    \/ Wake(i)
    \/ Exhaust(i)
    \/ \E s \in Ended : End(i, s)

Spec == LInit /\ [][LNext]_lvars
================================================================================
