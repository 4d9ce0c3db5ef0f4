------------------------------ MODULE OneShot ------------------------------
(***************************************************************************)
(* What every single-use credential of the service promises: an            *)
(* authorization code, a device code, a magic link.  A ticket is handed    *)
(* out once, pays out at most once, and once it is spent or void it never  *)
(* opens again.                                                            *)
(***************************************************************************)
EXTENDS Naturals

CONSTANT Tickets

VARIABLES
  status,   \* where each ticket stands
  paid      \* how often each has paid out

shot == <<status, paid>>

Init ==
  /\ status = [t \in Tickets |-> "new"]
  /\ paid = [t \in Tickets |-> 0]

Open(t) ==
  /\ status[t] = "new"
  /\ status' = [status EXCEPT ![t] = "open"]
  /\ UNCHANGED paid

Pay(t) ==
  /\ status[t] = "open"
  /\ status' = [status EXCEPT ![t] = "spent"]
  /\ paid' = [paid EXCEPT ![t] = @ + 1]

\* Open tickets lapse: expiry, a failed attempt, a crash.
Void(T) ==
  /\ \A t \in T : status[t] = "open"
  /\ status' = [t \in Tickets |-> IF t \in T THEN "void" ELSE status[t]]
  /\ UNCHANGED paid

Next ==
  \/ \E t \in Tickets : Open(t) \/ Pay(t)
  \/ \E T \in SUBSET Tickets : Void(T)

Spec == Init /\ [][Next]_shot
=============================================================================
