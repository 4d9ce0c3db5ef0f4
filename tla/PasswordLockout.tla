--------------------------- MODULE PasswordLockout ---------------------------
(***************************************************************************)
(* Signing in to one account with its password, the lockout that misses    *)
(* build up and the administrator's kill switch                            *)
(* (loginWithPassword of src/auth/auth.service.ts,                         *)
(* recordFailedLogin of login-security.service.ts,                         *)
(* revokeAllUserSessions of src/admin/admin.service.ts).                   *)
(*                                                                         *)
(* A step is one database statement with the code up to the next await;    *)
(* bcrypt is an await of its own.  Every write is by user id and checks    *)
(* nothing: it was decided on what an earlier read returned.               *)
(***************************************************************************)
EXTENDS Integers, Sequences, FiniteSets

CONSTANTS Procs,      \* concurrent requests
          Threshold,  \* misses before the first lock
          Tiers,      \* lockoutSchedule: how long each lock lasts, in ticks
          Hours,      \* locks an administrator may ask for, in ticks
          MaxTime,    \* bound of the clock
          MaxFailed   \* bound of the counter: nobody tries beyond it

ASSUME ConstAssumption ==
  /\ IsFiniteSet(Procs)
  /\ Threshold \in Nat \ {0}
  /\ Tiers \in Seq(Nat \ {0}) /\ Len(Tiers) > 0
  /\ Hours \in SUBSET Nat
  /\ MaxTime \in Nat \ {0} /\ MaxFailed \in Nat

VARIABLES
  failed,    \* User.failedLoginCount
  lock,      \* User.lockoutUntil; 0 is NULL
  now,       \* the clock
  req,       \* requests: where each stands and what it has read
  misses,    \* history: misses answered this tick, since the count was cleared
  lapsed,    \* history: whether one of them put a lock that was over by then
  early      \* history: sign-ins that read the row before the present lock

vars == <<failed, lock, now, req, misses, lapsed, early>>

Request ==
  [pc : {"idle", "compare", "record", "clear", "lock"},
   right : BOOLEAN,      \* whether its password is the account's
   failed : Nat,         \* failedLoginCount as read
   wasLocked : BOOLEAN,  \* whether a lockoutUntil, past by then, was read
   until : Nat]          \* the lock it will write
Idle == [pc |-> "idle", right |-> FALSE, failed |-> 0, wasLocked |-> FALSE, until |-> 0]

Init ==
  /\ failed = 0 /\ lock = 0
  /\ now = 1
  /\ req = [p \in Procs |-> Idle]
  /\ misses = 0 /\ lapsed = FALSE /\ early = {}

-----------------------------------------------------------------------------
At(p, l)  == req[p].pc = l
SigningIn == {p \in Procs : req[p].pc \in {"compare", "record", "clear"}}
Answer(p) == req' = [req EXCEPT ![p] = Idle]

\* Mutant: the lock is not looked at before bcrypt.
LockedNever == FALSE

Locked == lock > now

\* loginWithPassword reads the row; a locked account is answered at once.
Login(p, right) ==
  /\ At(p, "idle")
  /\ ~Locked /\ failed < MaxFailed
  /\ req' = [req EXCEPT ![p] = [pc |-> "compare", right |-> right, failed |-> failed,
                                wasLocked |-> lock # 0, until |-> 0]]
  /\ early' = early \ {p}
  /\ UNCHANGED <<failed, lock, now, misses, lapsed>>

\* The lock that n misses deserve, from now on; none below the threshold.
LockFor(n) ==
  IF n < Threshold THEN 0
  ELSE now + Tiers[IF n - Threshold < Len(Tiers) THEN n - Threshold + 1 ELSE Len(Tiers)]

\* bcrypt has answered: a success with nothing to forgive is done, a miss
\* works out its lock.
Compare(p) ==
  /\ At(p, "compare")
  /\ \/ /\ req[p].right /\ (req[p].failed > 0 \/ req[p].wasLocked)
        /\ req' = [req EXCEPT ![p].pc = "clear"]
     \/ /\ req[p].right /\ req[p].failed = 0 /\ ~req[p].wasLocked
        /\ Answer(p)
     \/ /\ ~req[p].right
        /\ req' = [req EXCEPT ![p].pc = "record", ![p].until = LockFor(req[p].failed + 1)]
  /\ UNCHANGED <<failed, lock, now, misses, lapsed, early>>

\* Mutant: the count is written back as it was read.
CountedSame(p) == req[p].failed

\* Mutant: the first lock starts the count afresh.
CountedAfresh(p) == IF req[p].failed + 1 = Threshold THEN 0 ELSE req[p].failed + 1

\* Mutant: the count runs down.
CountedDown(p) == req[p].failed - 1

Counted(p) == req[p].failed + 1

\* recordFailedLogin: one more than was read, and its lock or none.
Record(p) ==
  /\ At(p, "record")
  /\ failed' = Counted(p)
  /\ lock' = req[p].until
  /\ misses' = misses + 1
  /\ lapsed' = (lapsed \/ req[p].until \in 1..now)
  /\ early' = SigningIn \ {p}
  /\ Answer(p)
  /\ UNCHANGED now

\* A success forgives.
Clear(p) ==
  /\ At(p, "clear")
  /\ failed' = 0 /\ lock' = 0
  /\ misses' = 0 /\ lapsed' = FALSE
  /\ early' = SigningIn \ {p}
  /\ Answer(p)
  /\ UNCHANGED now

-----------------------------------------------------------------------------
(* The kill switch *)

\* revokeAllUserSessions takes the time, then revokes every refresh token
\* (RefreshFamily)...
Kill(p, h) ==
  /\ At(p, "idle")
  /\ req' = [req EXCEPT ![p] = [Idle EXCEPT !.pc = "lock", !.until = now + h]]
  /\ UNCHANGED <<failed, lock, now, misses, lapsed, early>>

\* ...then locks the account.
Lock(p) ==
  /\ At(p, "lock")
  /\ failed' = 0 /\ lock' = req[p].until
  /\ misses' = 0 /\ lapsed' = FALSE
  /\ early' = SigningIn
  /\ Answer(p)
  /\ UNCHANGED now

-----------------------------------------------------------------------------
Crash(p) ==
  /\ ~At(p, "idle")
  /\ Answer(p)
  /\ UNCHANGED <<failed, lock, now, misses, lapsed, early>>

Tick ==
  /\ now < MaxTime
  /\ now' = now + 1
  /\ misses' = 0 /\ lapsed' = FALSE
  /\ UNCHANGED <<failed, lock, req, early>>

Next ==
  \/ \E p \in Procs : \/ \E right \in BOOLEAN : Login(p, right)
                      \/ \E h \in Hours : Kill(p, h)
                      \/ Compare(p) \/ Record(p) \/ Clear(p) \/ Lock(p) \/ Crash(p)
  \/ Tick

Spec == Init /\ [][Next]_vars

-----------------------------------------------------------------------------
(* Properties *)

TypeOK ==
  /\ failed \in Nat /\ lock \in Nat
  /\ now \in 1..MaxTime
  /\ req \in [Procs -> Request]
  /\ misses \in Nat /\ lapsed \in BOOLEAN
  /\ early \in SUBSET Procs

\* k requests at a time get at most this many guesses out of t misses: either
\* one of them is left holding its stale count, or the count rises by one.
\* One request at a time gets t; in general it is the number of ways to choose
\* t out of k + t, less one.
Guesses(k, t) == Cardinality({S \in SUBSET (1..(k + t)) : Cardinality(S) = t}) - 1

\* Requests that overlap write counts they read earlier and may lift a lock
\* another has just put; the guesses this buys before the lock holds are
\* bounded all the same, as if the threshold were one higher where a lock came
\* so late that it was over (login-security.service.ts:61-68).
GuessesAreBounded ==
  misses <= Guesses(Cardinality(Procs), IF lapsed THEN Threshold + 1 ELSE Threshold)

\* The row, and every miss under way once it is written, count n at least.
Assured(n) == /\ failed >= n
              /\ \A p \in SigningIn : ~req[p].right => req[p].failed + 1 >= n

\* What is assured stays so: only a success or the administrator starts over.
CountNeverSlips ==
  [][\A n \in 1..MaxFailed :
       Assured(n) => Assured(n)' \/ \E p \in Procs : Clear(p) \/ Lock(p)]_vars

\* A lock is shortened by the administrator, or by a sign-in that had read the
\* row before that lock was put - never by one that began while it stood
\* (auth.service.ts:112-115).
LockStands ==
  [][lock > now /\ lock' < lock
       => \E p \in Procs : Lock(p) \/ (p \in early /\ (Record(p) \/ Clear(p)))]_vars
=============================================================================
