--------------------------- MODULE SessionLedger ---------------------------
(***************************************************************************)
(* What refresh tokens promise, whatever the database does in between: a   *)
(* sign-in opens one session, a live token is exchanged once for one fresh *)
(* token, and a token that ended never comes back.                         *)
(***************************************************************************)
EXTENDS Naturals, FiniteSets

CONSTANT Tokens

VARIABLES live,     \* tokens that open a session
          spent,    \* tokens that once did
          signIns   \* sign-ins so far

ledger == <<live, spent, signIns>>

Init == live = {} /\ spent = {} /\ signIns = 0

Fresh(t) == t \in Tokens /\ t \notin live \cup spent

\* A sign-in opens a session.
Open(t) ==
  /\ Fresh(t)
  /\ live' = live \cup {t}
  /\ signIns' = signIns + 1
  /\ UNCHANGED spent

\* A token is exchanged for its successor.
Exchange(t, c) ==
  /\ t \in live /\ Fresh(c)
  /\ live' = (live \ {t}) \cup {c}
  /\ spent' = spent \cup {t}
  /\ UNCHANGED signIns

\* Sessions end: a revoke, or expiry.
End(gone) ==
  /\ gone \subseteq live
  /\ live' = live \ gone
  /\ spent' = spent \cup gone
  /\ UNCHANGED signIns

Next == \/ \E t \in Tokens : Open(t)
        \/ \E t \in live, c \in Tokens : Exchange(t, c)
        \/ \E gone \in SUBSET live : End(gone)

Spec == Init /\ [][Next]_ledger
=============================================================================
