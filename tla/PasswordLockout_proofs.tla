------------------------ MODULE PasswordLockout_proofs ------------------------
(***************************************************************************)
(* Proofs about PasswordLockout, for any number of requests, any threshold *)
(* and any schedule of locks.                                              *)
(***************************************************************************)
EXTENDS PasswordLockout, FiniteSetTheorems, TLAPS

\* The lock that n misses deserve is a time.
LEMMA LockForType == ASSUME NEW n \in Nat, now \in Nat
                     PROVE  LockFor(n) \in Nat
<1>1. CASE n < Threshold
  BY <1>1 DEF LockFor
<1>2. CASE ~(n < Threshold)
  <2> DEFINE i == IF n - Threshold < Len(Tiers) THEN n - Threshold + 1 ELSE Len(Tiers)
  <2>1. i \in 1..Len(Tiers)
    BY <1>2, ConstAssumption
  <2>2. Tiers[i] \in Nat \ {0}
    BY <2>1, ConstAssumption
  <2>3. LockFor(n) = now + Tiers[i]
    BY <1>2 DEF LockFor
  <2> QED BY <2>2, <2>3
<1> QED BY <1>1, <1>2

\* A sign-in compared either answers, or goes on with what it had read: a
\* success to clear, a miss to record.
LEMMA CompareMoves ==
  ASSUME TypeOK, NEW p \in Procs, Compare(p), NEW q \in Procs
  PROVE  \/ q # p /\ req'[q] = req[q]
         \/ q = p /\ req'[q] = Idle
         \/ /\ q = p /\ req[q].pc = "compare"
            /\ req'[q].right = req[q].right /\ req'[q].failed = req[q].failed
            /\ req'[q].pc = IF req[q].right THEN "clear" ELSE "record"
<1> DEFINE u == LockFor(req[p].failed + 1)
<1>1. req[p].pc = "compare" /\ req \in [Procs -> Request]
  BY DEF Compare, At, TypeOK
<1>2. \/ req[p].right /\ req' = [req EXCEPT ![p].pc = "clear"]
      \/ req' = [req EXCEPT ![p] = Idle]
      \/ ~req[p].right /\ req' = [req EXCEPT ![p].pc = "record", ![p].until = u]
  BY DEF Compare, Answer
<1> HIDE DEF u
<1> QED BY <1>1, <1>2 DEF Request

\* Every variable keeps its type (the user row, the requests, the histories).
THEOREM TypeCorrect == Spec => []TypeOK
<1>1. Init => TypeOK
  <2>1. Idle \in Request /\ 1 \in 1..MaxTime
    BY ConstAssumption DEF Request, Idle
  <2>2. Init => lapsed \in BOOLEAN
    BY DEF Init
  <2> HIDE DEF Idle
  <2> QED BY <2>1, <2>2 DEF Init, TypeOK
<1>2. TypeOK /\ [Next]_vars => TypeOK'
  <2> SUFFICES ASSUME TypeOK, [Next]_vars PROVE TypeOK' OBVIOUS
  <2> USE DEF TypeOK
  <2>0. now \in Nat /\ Idle \in Request
    BY ConstAssumption DEF Request, Idle
  <2>1. ASSUME NEW p \in Procs, NEW right \in BOOLEAN, Login(p, right) PROVE TypeOK'
    <3> DEFINE r == [pc |-> "compare", right |-> right, failed |-> failed,
                     wasLocked |-> lock # 0, until |-> 0]
    <3>1. r \in Request
      BY DEF Request
    <3>2. req' = [req EXCEPT ![p] = r]
      BY <2>1 DEF Login
    <3> HIDE DEF r
    <3>3. req' \in [Procs -> Request]
      BY <3>1, <3>2
    <3> QED BY <2>1, <3>3 DEF Login
  <2>2. ASSUME NEW p \in Procs, NEW h \in Hours, Kill(p, h) PROVE TypeOK'
    <3> DEFINE r == [Idle EXCEPT !.pc = "lock", !.until = now + h]
    <3>0. now + h \in Nat
      BY <2>0, ConstAssumption
    <3>1. r \in Request
      BY <3>0 DEF Request, Idle
    <3>2. req' = [req EXCEPT ![p] = r]
      BY <2>2 DEF Kill
    <3> HIDE DEF r
    <3>3. req' \in [Procs -> Request]
      BY <3>1, <3>2
    <3> QED BY <2>2, <3>3 DEF Kill
  <2>3. ASSUME NEW p \in Procs, Compare(p) PROVE TypeOK'
    <3>1. LockFor(req[p].failed + 1) \in Nat
      BY <2>0, LockForType DEF Request
    <3> DEFINE u == LockFor(req[p].failed + 1)
    <3>2. \/ req' = [req EXCEPT ![p].pc = "clear"]
          \/ req' = [req EXCEPT ![p] = Idle]
          \/ req' = [req EXCEPT ![p].pc = "record", ![p].until = u]
      BY <2>3 DEF Compare, Answer
    <3> HIDE DEF u
    <3>3. u \in Nat
      BY <3>1 DEF u
    <3>4. req' \in [Procs -> Request]
      BY <2>0, <3>2, <3>3 DEF Request
    <3> QED BY <2>3, <3>4 DEF Compare
  <2>4. ASSUME NEW p \in Procs, Record(p) \/ Clear(p) \/ Lock(p) \/ Crash(p) PROVE TypeOK'
    <3>1. req' \in [Procs -> Request]
      BY <2>0, <2>4 DEF Record, Clear, Lock, Crash, Answer
    <3>2. req[p].failed \in Nat /\ req[p].until \in Nat
      BY DEF Request
    <3>3. failed' \in Nat /\ lock' \in Nat /\ misses' \in Nat
      BY <2>4, <3>2 DEF Record, Clear, Lock, Crash, Counted
    <3>4. early' \in SUBSET Procs /\ now' = now
      BY <2>4 DEF Record, Clear, Lock, Crash, SigningIn
    <3>5. lapsed' \in BOOLEAN
      <4>1. ASSUME lapsed' = (lapsed \/ req[p].until \in 1..now) PROVE lapsed' \in BOOLEAN
        BY <4>1
      <4>2. ASSUME lapsed' = FALSE \/ lapsed' = lapsed PROVE lapsed' \in BOOLEAN
        BY <4>2
      <4>3. \/ lapsed' = (lapsed \/ req[p].until \in 1..now)
            \/ lapsed' = FALSE \/ lapsed' = lapsed
        BY <2>4, Zenon DEF Record, Clear, Lock, Crash
      <4> QED BY <4>1, <4>2, <4>3
    <3> QED BY <3>1, <3>3, <3>4, <3>5
  <2>5. CASE Tick
    <3>1. lapsed' \in BOOLEAN /\ misses' \in Nat
      BY <2>5 DEF Tick
    <3>2. now' \in 1..MaxTime
      BY <2>5, ConstAssumption DEF Tick
    <3> QED BY <2>5, <3>1, <3>2 DEF Tick
  <2>6. CASE UNCHANGED vars
    BY <2>6 DEF vars
  <2> QED BY <2>1, <2>2, <2>3, <2>4, <2>5, <2>6 DEF Next
<1> QED BY <1>1, <1>2, PTL DEF Spec

\* A sign-in under way that read the row since the present lock was put found
\* it past, and the clock only goes on.
EarlyInv == \A p \in SigningIn \ early : lock <= now

\* The strengthening of TypeOK that LockStands rests on.
LEMMA EarlyCorrect == Spec => []EarlyInv
<1>1. Init => EarlyInv
  BY DEF Init, EarlyInv, SigningIn, Idle
<1>2. TypeOK /\ EarlyInv /\ [Next]_vars => EarlyInv'
  <2> SUFFICES ASSUME TypeOK, EarlyInv, [Next]_vars,
                      NEW q \in (SigningIn \ early)'
               PROVE  lock' <= now'
    BY DEF EarlyInv
  <2> USE DEF TypeOK
  <2>0. now \in Nat /\ q \in Procs /\ q \notin early' /\ req'[q].pc \in {"compare", "record", "clear"}
    BY DEF SigningIn
  <2>1. ASSUME NEW p \in Procs, NEW right \in BOOLEAN, Login(p, right) PROVE lock' <= now'
    BY <2>1 DEF Login, Locked
  <2>2. ASSUME NEW p \in Procs, NEW h \in Hours, Kill(p, h) PROVE lock' <= now'
    <3>1. q # p
      BY <2>0, <2>2 DEF Kill, Idle
    <3>2. q \in SigningIn \ early
      BY <2>0, <2>2, <3>1 DEF Kill, SigningIn
    <3> QED BY <2>2, <3>2 DEF Kill, EarlyInv
  <2>3. ASSUME NEW p \in Procs, Compare(p) PROVE lock' <= now'
    <3>1. req[q].pc \in {"compare", "record", "clear"}
      BY <2>0, <2>3, CompareMoves DEF Idle
    <3> QED BY <2>0, <2>3, <3>1 DEF Compare, EarlyInv, SigningIn
  <2>4. ASSUME NEW p \in Procs, Record(p) \/ Clear(p) \/ Lock(p) PROVE lock' <= now'
    <3>1. q # p /\ req'[q] = req[q]
      BY <2>0, <2>4 DEF Record, Clear, Lock, Answer, Idle
    <3>2. q \in SigningIn
      BY <2>0, <3>1 DEF SigningIn
    <3>3. q \in early'
      BY <2>4, <3>1, <3>2 DEF Record, Clear, Lock
    <3> QED BY <2>0, <3>3
  <2>5. ASSUME NEW p \in Procs, Crash(p) PROVE lock' <= now'
    <3>1. q # p /\ req'[q] = req[q]
      BY <2>0, <2>5 DEF Crash, Answer, Idle
    <3> QED BY <2>0, <2>5, <3>1 DEF Crash, EarlyInv, SigningIn
  <2>6. CASE Tick
    <3>1. lock <= now
      BY <2>0, <2>6 DEF Tick, EarlyInv, SigningIn
    <3> QED BY <2>6, <3>1 DEF Tick
  <2>7. CASE UNCHANGED vars
    BY <2>7 DEF vars, EarlyInv, SigningIn
  <2> QED BY <2>1, <2>2, <2>3, <2>4, <2>5, <2>6, <2>7 DEF Next
<1> QED BY <1>1, <1>2, TypeCorrect, PTL DEF Spec

\* A lock that stands is shortened by the administrator or by a sign-in that
\* had read the row before it was put, never by one that began while it stood.
THEOREM LocksStand == Spec => LockStands
<1>1. TypeOK /\ EarlyInv /\ [Next]_vars
      => [lock > now /\ lock' < lock
            => \E p \in Procs : Lock(p) \/ (p \in early /\ (Record(p) \/ Clear(p)))]_vars
  <2> SUFFICES ASSUME TypeOK, EarlyInv, [Next]_vars, lock > now, lock' < lock
               PROVE  \E p \in Procs : Lock(p) \/ (p \in early /\ (Record(p) \/ Clear(p)))
    OBVIOUS
  <2>1. now \in Nat /\ lock \in Nat
    BY DEF TypeOK
  <2>2. lock' # lock
    BY <2>1
  <2>3. PICK p \in Procs : Record(p) \/ Clear(p) \/ Lock(p)
    BY <2>2 DEF Next, Login, Kill, Compare, Crash, Tick, vars
  <2>4. ASSUME Record(p) \/ Clear(p) PROVE p \in early
    <3>1. p \in SigningIn
      BY <2>4 DEF Record, Clear, SigningIn, At
    <3> QED BY <2>1, <3>1 DEF EarlyInv
  <2> QED BY <2>3, <2>4
<1> QED BY <1>1, TypeCorrect, EarlyCorrect, PTL DEF Spec, LockStands

\* Only a miss is recorded.
MissInv == \A p \in Procs : At(p, "record") => ~req[p].right

\* The fact about requests that CountsNeverSlip rests on.
LEMMA MissCorrect == Spec => []MissInv
<1>1. Init => MissInv
  BY DEF Init, MissInv, At, Idle
<1>2. TypeOK /\ MissInv /\ [Next]_vars => MissInv'
  <2> SUFFICES ASSUME TypeOK, MissInv, [Next]_vars,
                      NEW q \in Procs, req'[q].pc = "record"
               PROVE  ~req'[q].right
    BY DEF MissInv, At
  <2> USE DEF TypeOK, MissInv, At
  <2>1. ASSUME NEW p \in Procs, NEW right \in BOOLEAN, Login(p, right) PROVE ~req'[q].right
    BY <2>1 DEF Login
  <2>2. ASSUME NEW p \in Procs, NEW h \in Hours, Kill(p, h) PROVE ~req'[q].right
    BY <2>2 DEF Kill, Idle
  <2>3. ASSUME NEW p \in Procs, Compare(p) PROVE ~req'[q].right
    BY <2>3, CompareMoves DEF Idle
  <2>4. ASSUME NEW p \in Procs, Record(p) \/ Clear(p) \/ Lock(p) \/ Crash(p)
        PROVE  ~req'[q].right
    BY <2>4 DEF Record, Clear, Lock, Crash, Answer, Idle
  <2>5. CASE Tick \/ UNCHANGED vars
    BY <2>5 DEF Tick, vars
  <2> QED BY <2>1, <2>2, <2>3, <2>4, <2>5 DEF Next
<1> QED BY <1>1, <1>2, TypeCorrect, PTL DEF Spec

\* Overlapping requests never bring the count below what the row and every
\* miss under way assure: only a success or the administrator starts over.
THEOREM CountsNeverSlip == Spec => CountNeverSlips
<1>1. TypeOK /\ MissInv /\ [Next]_vars
      => [\A n \in 1..MaxFailed :
            Assured(n) => Assured(n)' \/ \E p \in Procs : Clear(p) \/ Lock(p)]_vars
  <2> SUFFICES ASSUME TypeOK, MissInv, [Next]_vars, NEW n \in 1..MaxFailed, Assured(n),
                      ~ \E p \in Procs : Clear(p) \/ Lock(p)
               PROVE  Assured(n)'
    OBVIOUS
  <2>0. n \in Nat /\ failed \in Nat /\ failed >= n /\ req \in [Procs -> Request]
    BY DEF Assured, TypeOK
  <2>1. ASSUME NEW q \in Procs, req[q].pc \in {"compare", "record", "clear"}, ~req[q].right
        PROVE  req[q].failed + 1 >= n
    BY <2>1 DEF Assured, SigningIn
  <2>2. failed' >= n
    <3>1. CASE failed' = failed
      BY <2>0, <3>1
    <3>2. ASSUME NEW p \in Procs, Record(p) PROVE failed' >= n
      <4>1. failed' = req[p].failed + 1 /\ req[p].pc = "record" /\ ~req[p].right
        BY <3>2 DEF Record, Counted, At, MissInv
      <4> QED BY <4>1, <2>1
    <3> QED BY <3>1, <3>2 DEF Next, Login, Kill, Compare, Crash, Tick, vars
  <2>3. ASSUME NEW q \in Procs, req'[q].pc \in {"compare", "record", "clear"}, ~req'[q].right
        PROVE  req'[q].failed + 1 >= n
    <3>1. CASE req'[q].failed = failed
      BY <2>0, <3>1
    <3>2. CASE /\ req'[q].failed = req[q].failed /\ req'[q].right = req[q].right
               /\ req[q].pc \in {"compare", "record", "clear"}
      BY <2>1, <2>3, <3>2
    <3>3. ASSUME NEW p \in Procs, NEW right \in BOOLEAN, Login(p, right)
          PROVE  req'[q].failed + 1 >= n
      <4>1. CASE q = p
        BY <2>0, <3>1, <3>3, <4>1 DEF Login
      <4>2. CASE q # p
        BY <2>0, <2>3, <3>2, <3>3, <4>2 DEF Login
      <4> QED BY <4>1, <4>2
    <3>4. ASSUME NEW p \in Procs, NEW h \in Hours, Kill(p, h)
          PROVE  req'[q].failed + 1 >= n
      BY <2>0, <2>3, <3>2, <3>4 DEF Kill, Idle
    <3>5. ASSUME NEW p \in Procs, Compare(p) PROVE req'[q].failed + 1 >= n
      BY <2>3, <3>2, <3>5, CompareMoves DEF Idle
    <3>6. ASSUME NEW p \in Procs, Record(p) \/ Crash(p) PROVE req'[q].failed + 1 >= n
      BY <2>0, <2>3, <3>2, <3>6 DEF Record, Crash, Answer, Idle
    <3>7. CASE Tick \/ UNCHANGED vars
      BY <2>3, <3>2, <3>7 DEF Tick, vars
    <3> QED BY <3>3, <3>4, <3>5, <3>6, <3>7 DEF Next
  <2> QED BY <2>2, <2>3 DEF Assured, SigningIn
<1> QED BY <1>1, TypeCorrect, MissCorrect, PTL DEF Spec, CountNeverSlips

-----------------------------------------------------------------------------
(* Choosing n out of k + n *)

Choices(k, n) == {S \in SUBSET (1..(k + n)) : Cardinality(S) = n}

LEMMA ChoicesAreFinite ==
  ASSUME NEW k \in Nat, NEW n \in Nat
  PROVE  /\ IsFiniteSet(1..(k + n)) /\ Cardinality(1..(k + n)) = k + n
         /\ \A S \in SUBSET (1..(k + n)) : IsFiniteSet(S) /\ Cardinality(S) \in Nat
         /\ IsFiniteSet(Choices(k, n)) /\ Cardinality(Choices(k, n)) \in Nat
         /\ Guesses(k, n) = Cardinality(Choices(k, n)) - 1
<1>1. IsFiniteSet(1..(k + n)) /\ Cardinality(1..(k + n)) = k + n
  <2>1. 1 \in Int /\ k + n \in Int
    OBVIOUS
  <2>2. /\ IsFiniteSet(1..(k + n))
        /\ Cardinality(1..(k + n)) = IF 1 > k + n THEN 0 ELSE k + n - 1 + 1
    BY <2>1, FS_Interval
  <2> QED BY <2>2
<1>2. \A S \in SUBSET (1..(k + n)) : IsFiniteSet(S) /\ Cardinality(S) \in Nat
  BY <1>1, FS_Subset, FS_CardinalityType
<1>3. IsFiniteSet(SUBSET (1..(k + n))) /\ Choices(k, n) \in SUBSET SUBSET (1..(k + n))
  BY <1>1, FS_SUBSET DEF Choices
<1>4. IsFiniteSet(Choices(k, n)) /\ Cardinality(Choices(k, n)) \in Nat
  BY <1>3, FS_Subset, FS_CardinalityType
<1> QED BY <1>1, <1>2, <1>4 DEF Guesses, Choices

\* There is always one choice, so no bound is negative.
LEMMA GuessesType ==
  ASSUME NEW k \in Nat, NEW n \in Nat
  PROVE  Guesses(k, n) \in Nat
<1>1. IsFiniteSet(1..n) /\ Cardinality(1..n) = n
  BY FS_Interval
<1>2. 1..n \in Choices(k, n)
  BY <1>1 DEF Choices
<1>3. /\ IsFiniteSet(Choices(k, n)) /\ Cardinality(Choices(k, n)) \in Nat
      /\ Guesses(k, n) = Cardinality(Choices(k, n)) - 1
  BY ChoicesAreFinite
<1>4. Cardinality(Choices(k, n)) # 0
  BY <1>2, <1>3, FS_EmptySet
<1> QED BY <1>3, <1>4

\* Without requests, or without misses, there are no guesses.
LEMMA NoGuesses ==
  ASSUME NEW k \in Nat, NEW n \in Nat, k = 0 \/ n = 0
  PROVE  Guesses(k, n) = 0
<1>1. IsFiniteSet(1..n) /\ Cardinality(1..n) = n
  BY FS_Interval
<1>2. CASE k = 0
  <2>1. ASSUME NEW S \in Choices(k, n) PROVE S = 1..n
    <3>1. S \in SUBSET (1..n) /\ Cardinality(S) = Cardinality(1..n)
      BY <1>1, <1>2 DEF Choices
    <3> QED BY <1>1, <3>1, FS_Subset
  <2>2. 1..n \in Choices(k, n)
    BY <1>1 DEF Choices
  <2>3. Choices(k, n) = {1..n}
    BY <2>1, <2>2
  <2>4. Cardinality(Choices(k, n)) = 1
    BY <2>3, FS_Singleton
  <2>5. Guesses(k, n) = Cardinality(Choices(k, n)) - 1
    BY ChoicesAreFinite
  <2> QED BY <2>4, <2>5
<1>3. CASE n = 0
  <2>1. ASSUME NEW S \in Choices(k, n) PROVE S = {}
    BY <1>3, <2>1, ChoicesAreFinite, FS_EmptySet DEF Choices
  <2>2. {} \in Choices(k, n)
    BY <1>3, FS_EmptySet DEF Choices
  <2>3. Choices(k, n) = {{}}
    BY <2>1, <2>2
  <2>4. Cardinality(Choices(k, n)) = 1
    BY <2>3, FS_Singleton
  <2>5. Guesses(k, n) = Cardinality(Choices(k, n)) - 1
    BY ChoicesAreFinite
  <2> QED BY <2>4, <2>5
<1> QED BY <1>2, <1>3

\* One request is left holding a stale record, or the count rises by one:
\* a choice is without the last number, or with it.
LEMMA GuessesRise ==
  ASSUME NEW k \in Nat \ {0}, NEW n \in Nat \ {0}
  PROVE  Guesses(k, n) = Guesses(k - 1, n) + Guesses(k, n - 1) + 1
<1> DEFINE N    == k + n
           A    == Choices(k - 1, n)
           B    == Choices(k, n - 1)
           with == {S \in Choices(k, n) : N \in S}
           f    == [S \in B |-> S \cup {N}]
<1>1. N \in Nat \ {0} /\ k - 1 \in Nat /\ n - 1 \in Nat /\ (k - 1) + n = N - 1 /\ k + (n - 1) = N - 1
  OBVIOUS
<1>2. A = {S \in Choices(k, n) : N \notin S}
  <2>1. 1..(N - 1) = (1..N) \ {N}
    BY <1>1
  <2> QED BY <1>1, <2>1 DEF Choices
<1>3. IsFiniteSet(A) /\ IsFiniteSet(B) /\ Cardinality(A) \in Nat /\ Cardinality(B) \in Nat
  BY <1>1, ChoicesAreFinite
<1>4. f \in Bijection(B, with)
  <2>1. ASSUME NEW S \in B
        PROVE  S \subseteq 1..(N - 1) /\ IsFiniteSet(S) /\ Cardinality(S) = n - 1 /\ N \notin S
    <3>1. S \in SUBSET (1..(k + (n - 1))) /\ Cardinality(S) = n - 1
      BY DEF Choices
    <3>2. IsFiniteSet(S)
      BY <1>1, <3>1, ChoicesAreFinite
    <3> QED BY <1>1, <3>1, <3>2
  <2>2. ASSUME NEW S \in B PROVE S \cup {N} \in with
    <3>1. S \subseteq 1..(N - 1) /\ IsFiniteSet(S) /\ Cardinality(S) = n - 1 /\ N \notin S
      BY <2>1
    <3>2. Cardinality(S \cup {N}) = n - 1 + 1
      BY <3>1, FS_AddElement
    <3>3. S \cup {N} \subseteq 1..N
      BY <1>1, <3>1
    <3> QED BY <3>2, <3>3 DEF Choices
  <2>3. ASSUME NEW S \in B, NEW U \in B, S \cup {N} = U \cup {N} PROVE S = U
    <3>1. N \notin S /\ N \notin U
      BY <2>1
    <3>2. S = (S \cup {N}) \ {N} /\ U = (U \cup {N}) \ {N}
      BY <3>1
    <3> QED BY <2>3, <3>2
  <2>4. ASSUME NEW U \in with PROVE \E S \in B : U = S \cup {N}
    <3>1. U \in SUBSET (1..N) /\ N \in U /\ Cardinality(U) = n
      BY DEF Choices
    <3>a. IsFiniteSet(U)
      BY <3>1, ChoicesAreFinite
    <3>2. Cardinality(U \ {N}) = n - 1
      BY <3>1, <3>a, FS_RemoveElement
    <3>3. U \ {N} \in SUBSET (1..(k + (n - 1)))
      BY <1>1, <3>1
    <3>4. U \ {N} \in B
      BY <3>2, <3>3 DEF Choices
    <3>5. U = (U \ {N}) \cup {N}
      BY <3>1
    <3> QED BY <3>4, <3>5
  <2>5. f \in [B -> with] /\ \A S \in B : f[S] = S \cup {N}
    BY <2>2
  <2> HIDE DEF f, B, with
  <2>6. f \in Injection(B, with)
    BY <2>3, <2>5 DEF Injection, IsInjective
  <2>7. f \in Surjection(B, with)
    BY <2>4, <2>5 DEF Surjection
  <2> QED BY <2>6, <2>7 DEF Bijection
<1>5. IsFiniteSet(with) /\ Cardinality(with) = Cardinality(B)
  BY <1>3, <1>4, FS_Bijection DEF ExistsBijection
<1>6. Choices(k, n) = A \cup with /\ A \cap with = {}
  BY <1>2
<1>7. Cardinality(Choices(k, n)) = Cardinality(A) + Cardinality(with) - 0
  BY <1>3, <1>5, <1>6, FS_Union, FS_EmptySet
<1>8. /\ Guesses(k, n) = Cardinality(Choices(k, n)) - 1
      /\ Guesses(k - 1, n) = Cardinality(A) - 1 /\ Guesses(k, n - 1) = Cardinality(B) - 1
  BY <1>1, ChoicesAreFinite
<1> HIDE DEF A, B, with
<1> QED BY <1>3, <1>5, <1>7, <1>8

\* More requests or more misses never mean fewer guesses.
LEMMA GuessesGrow ==
  ASSUME NEW k \in Nat, NEW n \in Nat, NEW i \in 0..k, NEW j \in 0..n
  PROVE  Guesses(i, j) <= Guesses(k, n)
<1> DEFINE J == (k + j + 1)..(k + n)
           f == [S \in Choices(i, j) |-> S \cup J]
<1>1. i \in Nat /\ j \in Nat /\ i <= k /\ j <= n
  OBVIOUS
<1>2. IsFiniteSet(J) /\ Cardinality(J) = n - j
  <2>1. k + j + 1 \in Int /\ k + n \in Int
    BY <1>1
  <2>2. /\ IsFiniteSet(J)
        /\ Cardinality(J) = IF k + j + 1 > k + n THEN 0 ELSE k + n - (k + j + 1) + 1
    BY <2>1, FS_Interval
  <2> QED BY <1>1, <2>2
<1>3. ASSUME NEW S \in Choices(i, j)
      PROVE  S \cup J \in Choices(k, n) /\ S = (S \cup J) \ J
  <2>a. S \in SUBSET (1..(i + j)) /\ Cardinality(S) = j
    BY DEF Choices
  <2>1. S \subseteq 1..(i + j) /\ IsFiniteSet(S) /\ Cardinality(S) = j
    BY <1>1, <2>a, ChoicesAreFinite
  <2>2. S \cap J = {} /\ S \cup J \subseteq 1..(k + n)
    BY <1>1, <2>1
  <2>b. Cardinality(S \cup J) = Cardinality(S) + Cardinality(J) - Cardinality(S \cap J)
    BY <1>2, <2>1, FS_Union
  <2>c. Cardinality(S \cap J) = 0
    BY <2>2, FS_EmptySet
  <2>3. Cardinality(S \cup J) = n
    BY <1>1, <1>2, <2>1, <2>b, <2>c
  <2> QED BY <2>2, <2>3 DEF Choices
<1>4. f \in Injection(Choices(i, j), Choices(k, n))
  <2>1. f \in [Choices(i, j) -> Choices(k, n)]
    BY <1>3
  <2>2. ASSUME NEW S \in Choices(i, j), NEW U \in Choices(i, j), f[S] = f[U] PROVE S = U
    <3>1. S \cup J = U \cup J
      BY <2>2
    <3> QED BY <1>3, <3>1
  <2> HIDE DEF f
  <2> QED BY <2>1, <2>2 DEF Injection, IsInjective
<1>5. /\ IsFiniteSet(Choices(k, n)) /\ Cardinality(Choices(k, n)) \in Nat
      /\ Guesses(k, n) = Cardinality(Choices(k, n)) - 1
      /\ Guesses(i, j) = Cardinality(Choices(i, j)) - 1 /\ Cardinality(Choices(i, j)) \in Nat
  BY <1>1, ChoicesAreFinite
<1>6. Cardinality(Choices(i, j)) <= Cardinality(Choices(k, n))
  BY <1>4, <1>5, FS_Injection
<1> QED BY <1>5, <1>6

-----------------------------------------------------------------------------
(* Room for guesses *)

LEMMA LeastNat ==
  ASSUME NEW T \in SUBSET Nat, NEW t \in T
  PROVE  \E x \in T : \A y \in T : x <= y
<1> DEFINE F == {0..x : x \in T}
<1>1. F \subseteq FiniteSubsetsOf(Nat) /\ F # {}
  <2>1. \A x \in T : IsFiniteSet(0..x) /\ 0..x \in SUBSET Nat
    BY FS_Interval
  <2> QED BY <2>1 DEF FiniteSubsetsOf
<1>2. PICK I \in F : \A J \in F : <<J, I>> \notin StrictSubsetOrdering(Nat)
  BY <1>1, WFMin, FS_StrictSubsetOrderingWellFounded
<1>3. PICK x \in T : I = 0..x
  OBVIOUS
<1>4. ASSUME NEW y \in T, y < x PROVE FALSE
  <2>1. 0..y \in F /\ 0..y \subseteq 0..x /\ x \notin 0..y /\ x \in 0..x
    BY <1>4
  <2>2. <<0..y, 0..x>> \in StrictSubsetOrdering(Nat)
    BY <2>1 DEF StrictSubsetOrdering
  <2> QED BY <1>2, <1>3, <2>1, <2>2
<1> QED BY <1>4

K == Cardinality(Procs)

LEMMA ProcsAreFinite ==
  /\ IsFiniteSet(Procs) /\ K \in Nat
  /\ \A S \in SUBSET Procs : IsFiniteSet(S) /\ Cardinality(S) \in 0..K
<1>1. IsFiniteSet(Procs) /\ K \in Nat
  BY ConstAssumption, FS_CardinalityType DEF K
<1>2. ASSUME NEW S \in SUBSET Procs PROVE IsFiniteSet(S) /\ Cardinality(S) \in 0..K
  <2>1. IsFiniteSet(S) /\ Cardinality(S) <= K /\ Cardinality(S) \in Nat
    BY <1>1, FS_Subset, FS_CardinalityType DEF K
  <2> QED BY <1>1, <2>1
<1> QED BY <1>1, <1>2 DEF K

\* What is left of n guesses is room enough, where m[l] requests are at level l
\* or above, of T: R[l] is room for those that they get.
Counts(T, e) == [l \in 0..T |-> Cardinality({q \in Procs : e[q] >= l})]
RoomBy(T, m, R) ==
  /\ \A l \in 0..T, j \in 0..T : l <= j => R[j] <= R[l]
  /\ \A l \in 0..(T - 1) :
       R[l] >= R[l + 1] + Guesses(m[l], T - l) - Guesses(m[l + 1], T - l)
Room(T, m, n) == \E R \in [0..T -> Nat] : RoomBy(T, m, R) /\ R[0] <= n

\* What counts of levels are.
Falling(T, m) ==
  /\ m \in [0..T -> 0..K]
  /\ \A l \in 0..T, j \in 0..T : l <= j => m[j] <= m[l]

LEMMA CountsFall ==
  ASSUME NEW T \in Nat \ {0}, NEW e \in [Procs -> 0..T]
  PROVE  /\ Falling(T, Counts(T, e)) /\ Counts(T, e)[0] = K
         /\ \A l \in 0..T : Counts(T, e)[l] = Cardinality({q \in Procs : e[q] >= l})
<1>1. \A l \in 0..T : Counts(T, e)[l] = Cardinality({q \in Procs : e[q] >= l})
  BY DEF Counts
<1>2. Counts(T, e) \in [0..T -> 0..K]
  BY ProcsAreFinite DEF Counts
<1>3. ASSUME NEW l \in 0..T, NEW j \in 0..T, l <= j
      PROVE  Counts(T, e)[j] <= Counts(T, e)[l]
  <2>1. \A q \in Procs : e[q] \in Int
    BY ProcsAreFinite
  <2> DEFINE high == {q \in Procs : e[q] >= j}
             low  == {q \in Procs : e[q] >= l}
  <2>2. high \in SUBSET low
    BY <1>3, <2>1
  <2>3. IsFiniteSet(low)
    BY ProcsAreFinite
  <2>4. Counts(T, e)[j] = Cardinality(high) /\ Counts(T, e)[l] = Cardinality(low)
    BY <1>1
  <2> HIDE DEF high, low
  <2> QED BY <2>2, <2>3, <2>4, FS_Subset
<1>4. Counts(T, e)[0] = K
  <2>1. {q \in Procs : e[q] >= 0} = Procs
    BY ProcsAreFinite
  <2>2. 0 \in 0..T
    BY ProcsAreFinite
  <2> QED BY <1>1, <2>1, <2>2 DEF K
<1> QED BY <1>1, <1>2, <1>3, <1>4 DEF Falling

\* A miss recorded at a level leaves room for one less there.
LEMMA Pivot ==
  ASSUME NEW c \in Nat, NEW d \in Nat, NEW g \in Nat, d < g, g <= c, NEW n \in Nat \ {0},
         NEW r \in Nat, NEW s \in Nat, r >= s + Guesses(c, n) - Guesses(d, n)
  PROVE  /\ r - 1 \in Nat /\ r - 1 >= Guesses(g, n - 1)
         /\ r - 1 >= Guesses(g, n - 1) + Guesses(c, n) - Guesses(g, n)
<1>1. g \in Nat \ {0} /\ g - 1 \in Nat /\ n - 1 \in Nat /\ n \in Nat
      /\ d \in 0..(g - 1) /\ g \in 0..c /\ n \in 0..n
  OBVIOUS
<1>2. Guesses(g, n) = Guesses(g - 1, n) + Guesses(g, n - 1) + 1
  BY <1>1, GuessesRise
<1>3. Guesses(d, n) <= Guesses(g - 1, n) /\ Guesses(g, n) <= Guesses(c, n)
  BY <1>1, GuessesGrow
<1>4. /\ Guesses(c, n) \in Nat /\ Guesses(d, n) \in Nat /\ Guesses(g, n) \in Nat
      /\ Guesses(g - 1, n) \in Nat /\ Guesses(g, n - 1) \in Nat
  BY <1>1, GuessesType
<1> QED BY <1>2, <1>3, <1>4

\* Room for all that so many requests can give is always enough.
Most(T, m) == [l \in 0..T |-> Guesses(m[l], T - l)]

LEMMA MostIsRoom ==
  ASSUME NEW T \in Nat \ {0}, NEW m, Falling(T, m)
  PROVE  Most(T, m) \in [0..T -> Nat] /\ RoomBy(T, m, Most(T, m))
<1> DEFINE M == Most(T, m)
<1>0. T \in Nat \ {0} /\ K \in Nat
  BY ProcsAreFinite
<1>1. ASSUME NEW l \in 0..T, NEW j \in 0..T, l <= j
      PROVE  /\ m[l] \in Nat /\ T - l \in Nat /\ T - j \in 0..(T - l) /\ m[j] \in 0..m[l]
             /\ m[j] \in Nat /\ T - j \in Nat
  BY <1>0, <1>1 DEF Falling
<1>2. ASSUME NEW l \in 0..T PROVE M[l] = Guesses(m[l], T - l) /\ M[l] \in Nat
  <2>1. m[l] \in Nat /\ T - l \in Nat
    BY <1>0, <1>1
  <2> QED BY <2>1, GuessesType DEF Most
<1>3. M \in [0..T -> Nat]
  BY <1>2 DEF Most
<1>4. ASSUME NEW l \in 0..T, NEW j \in 0..T, l <= j PROVE M[j] <= M[l]
  BY <1>1, <1>2, <1>4, GuessesGrow
<1>5. ASSUME NEW l \in 0..(T - 1)
      PROVE  M[l] >= M[l + 1] + Guesses(m[l], T - l) - Guesses(m[l + 1], T - l)
  <2>1. l \in 0..T /\ l + 1 \in 0..T /\ l <= l + 1
    BY <1>0
  <2>2. m[l + 1] \in Nat /\ T - l \in Nat /\ T - (l + 1) \in 0..(T - l)
        /\ m[l + 1] \in 0..m[l + 1]
    BY <1>0, <1>1, <2>1
  <2>a. Guesses(m[l + 1], T - (l + 1)) <= Guesses(m[l + 1], T - l)
    BY <2>2, GuessesGrow
  <2>b. Guesses(m[l + 1], T - l) \in Nat
    BY <2>2, GuessesType
  <2>3. M[l + 1] <= Guesses(m[l + 1], T - l) /\ Guesses(m[l + 1], T - l) \in Nat
    BY <1>2, <2>1, <2>a, <2>b
  <2>4. M[l] = Guesses(m[l], T - l) /\ M[l] \in Nat /\ M[l + 1] \in Nat
    BY <1>2, <2>1
  <2> HIDE DEF M
  <2> QED BY <2>3, <2>4
<1> HIDE DEF M
<1>6. RoomBy(T, m, M)
  BY <1>4, <1>5 DEF RoomBy
<1> QED BY <1>3, <1>6 DEF M

\* One less stays a number, above a number that does.
LEMMA OneLess ==
  ASSUME NEW a \in Nat, NEW b \in Nat, a - 1 \in Nat, b >= a
  PROVE  b - 1 \in Nat
OBVIOUS

\* Two chains of bounds.
LEMMA OneBelow ==
  ASSUME NEW a \in Nat, NEW b \in Nat, NEW c \in Nat, NEW d \in Nat,
         a <= b, c - 1 >= b, d >= c
  PROVE  a <= d - 1
OBVIOUS

LEMMA BothLess ==
  ASSUME NEW a \in Int, NEW b \in Int, NEW c \in Int, NEW d \in Int, a >= b + c - d
  PROVE  a - 1 >= b - 1 + c - d
OBVIOUS

\* Where more requests are at a level, and as many at the lower ones, a guess
\* less is to come.
LEMMA RoomFrom ==
  ASSUME NEW T \in Nat \ {0}, NEW m, NEW m2, Falling(T, m), Falling(T, m2), NEW l0 \in 0..(T - 1),
         \A l \in 0..l0 : m2[l] = m[l], m2[l0 + 1] > m[l0 + 1], NEW n \in Int, Room(T, m, n)
  PROVE  Room(T, m2, n - 1)
<1>0. /\ T \in Nat \ {0} /\ K \in Nat /\ l0 \in 0..T /\ l0 + 1 \in 0..T
      /\ T - l0 \in Nat \ {0} /\ l0 \in Nat
  BY ProcsAreFinite
<1>1. PICK R \in [0..T -> Nat] : RoomBy(T, m, R) /\ R[0] <= n
  BY DEF Room
<1>2. PICK A \in [0..T -> Nat] : A = Most(T, m2) /\ RoomBy(T, m2, A)
  BY MostIsRoom
<1>3. \A l \in 0..T : m[l] \in Nat /\ m2[l] \in Nat
  BY <1>0 DEF Falling
<1>4. /\ R[l0] - 1 \in Nat /\ R[l0] - 1 >= A[l0 + 1]
      /\ R[l0] - 1 >= A[l0 + 1] + Guesses(m2[l0], T - l0) - Guesses(m2[l0 + 1], T - l0)
  <2>1. m2[l0 + 1] <= m[l0]
    BY <1>0 DEF Falling
  <2>2. R[l0] >= R[l0 + 1] + Guesses(m[l0], T - l0) - Guesses(m[l0 + 1], T - l0)
    BY <1>1 DEF RoomBy
  <2>3. m[l0 + 1] < m2[l0 + 1] /\ m2[l0] = m[l0]
    BY <1>0, <1>3
  <2>4. /\ m[l0] \in Nat /\ m[l0 + 1] \in Nat /\ m2[l0 + 1] \in Nat
        /\ R[l0] \in Nat /\ R[l0 + 1] \in Nat
    BY <1>0, <1>3
  <2>5. /\ R[l0] - 1 \in Nat /\ R[l0] - 1 >= Guesses(m2[l0 + 1], T - l0 - 1)
        /\ R[l0] - 1 >= Guesses(m2[l0 + 1], T - l0 - 1)
                          + Guesses(m[l0], T - l0) - Guesses(m2[l0 + 1], T - l0)
    BY <1>0, <2>1, <2>2, <2>3, <2>4, Pivot
  <2>6. A[l0 + 1] = Guesses(m2[l0 + 1], T - l0 - 1)
    <3>1. T - (l0 + 1) = T - l0 - 1
      BY <1>0
    <3> QED BY <1>0, <1>2, <3>1 DEF Most
  <2> QED BY <2>3, <2>5, <2>6
<1>a. R[l0] - 1 \in Nat /\ R[l0] - 1 >= A[l0 + 1]
  BY <1>4
<1>5. ASSUME NEW l \in 0..T, l <= l0 PROVE R[l] >= R[l0] /\ R[l] \in Nat /\ R[l0] \in Nat
  BY <1>0, <1>1, <1>5 DEF RoomBy
<1> DEFINE S == [l \in 0..T |-> IF l <= l0 THEN R[l] - 1 ELSE A[l]]
<1>6. ASSUME NEW l \in 0..T
      PROVE  /\ l <= l0 => S[l] = R[l] - 1
             /\ l > l0 => S[l] = A[l]
             /\ S[l] \in Nat /\ l \in Nat
  <2>1. CASE l <= l0
    <3>1. R[l] >= R[l0] /\ R[l] \in Nat /\ R[l0] \in Nat
      BY <1>5, <2>1
    <3>2. R[l] - 1 \in Nat
      BY <1>a, <3>1, OneLess, Zenon
    <3> QED BY <1>0, <2>1, <3>2
  <2>2. CASE l > l0
    <3>1. A[l] \in Nat
      OBVIOUS
    <3> QED BY <1>0, <2>2, <3>1
  <2> QED BY <1>0, <2>1, <2>2
<1>7. S \in [0..T -> Nat]
  BY <1>6
<1>8. S[0] <= n - 1
  BY <1>0, <1>1, <1>6
<1> HIDE DEF S
<1>9. ASSUME NEW l \in 0..T, NEW j \in 0..T, l <= j PROVE S[j] <= S[l]
  <2>1. CASE j <= l0
    <3>1. R[j] <= R[l] /\ R[j] \in Nat /\ R[l] \in Nat
      BY <1>1, <1>9 DEF RoomBy
    <3>2. S[j] = R[j] - 1 /\ S[l] = R[l] - 1
      BY <1>0, <1>6, <1>9, <2>1
    <3> QED BY <3>1, <3>2
  <2>2. CASE l <= l0 /\ j > l0
    <3>1. A[j] <= A[l0 + 1] /\ A[j] \in Nat /\ A[l0 + 1] \in Nat
      BY <1>0, <1>2, <2>2 DEF RoomBy
    <3>2. R[l] >= R[l0] /\ R[l] \in Nat /\ R[l0] \in Nat
      BY <1>5, <2>2
    <3>3. S[j] = A[j] /\ S[l] = R[l] - 1
      BY <1>6, <2>2
    <3>4. R[l0] - 1 >= A[l0 + 1]
      BY <1>a
    <3>6. A[j] <= R[l] - 1
      BY <3>1, <3>2, <3>4, OneBelow, Zenon
    <3> QED BY <3>3, <3>6
  <2>3. CASE l > l0
    <3>1. A[j] <= A[l]
      BY <1>2, <1>9 DEF RoomBy
    <3>2. j > l0
      BY <1>0, <1>9, <2>3
    <3>3. S[j] = A[j] /\ S[l] = A[l]
      BY <1>6, <2>3, <3>2
    <3> QED BY <3>1, <3>3
  <2> QED BY <1>0, <2>1, <2>2, <2>3
<1>10. ASSUME NEW l \in 0..(T - 1)
       PROVE  S[l] >= S[l + 1] + Guesses(m2[l], T - l) - Guesses(m2[l + 1], T - l)
  <2>0. l \in 0..T /\ l + 1 \in 0..T /\ l \in Nat
    BY <1>0
  <2>1. /\ Guesses(m2[l], T - l) \in Int /\ Guesses(m2[l + 1], T - l) \in Int
        /\ R[l] \in Int /\ R[l + 1] \in Int /\ A[l] \in Int /\ A[l + 1] \in Int
    <3>1. m2[l] \in Nat /\ m2[l + 1] \in Nat /\ T - l \in Nat
      BY <1>0, <1>3, <2>0
    <3>2. Guesses(m2[l], T - l) \in Nat /\ Guesses(m2[l + 1], T - l) \in Nat
      BY <3>1, GuessesType
    <3> QED BY <2>0, <3>2
  <2>2. CASE l < l0
    <3>1. S[l] = R[l] - 1 /\ S[l + 1] = R[l + 1] - 1
      BY <1>0, <1>6, <2>0, <2>2
    <3>2. R[l] >= R[l + 1] + Guesses(m[l], T - l) - Guesses(m[l + 1], T - l)
      BY <1>1 DEF RoomBy
    <3>3. m2[l] = m[l] /\ m2[l + 1] = m[l + 1]
      BY <1>0, <2>0, <2>2
    <3>4. /\ R[l] - 1 >= R[l + 1] - 1 + Guesses(m[l], T - l) - Guesses(m[l + 1], T - l)
          /\ Guesses(m2[l], T - l) = Guesses(m[l], T - l)
          /\ Guesses(m2[l + 1], T - l) = Guesses(m[l + 1], T - l)
      <4>1. /\ Guesses(m2[l], T - l) = Guesses(m[l], T - l)
            /\ Guesses(m2[l + 1], T - l) = Guesses(m[l + 1], T - l)
        BY <3>3
      <4>2. Guesses(m[l], T - l) \in Int /\ Guesses(m[l + 1], T - l) \in Int
        BY <2>1, <4>1, Zenon
      <4>3. R[l] - 1 >= R[l + 1] - 1 + Guesses(m[l], T - l) - Guesses(m[l + 1], T - l)
        BY <2>1, <3>2, <4>2, BothLess, Zenon
      <4> QED BY <4>1, <4>3, Zenon
    <3> QED BY <3>1, <3>4
  <2>3. CASE l = l0
    <3>1. S[l] = R[l0] - 1 /\ S[l + 1] = A[l0 + 1]
      BY <1>0, <1>6, <2>0, <2>3
    <3> QED BY <1>4, <2>3, <3>1
  <2>4. CASE l > l0
    <3>1. S[l] = A[l] /\ S[l + 1] = A[l + 1]
      BY <1>0, <1>6, <2>0, <2>4
    <3> QED BY <1>2, <3>1 DEF RoomBy
  <2> QED BY <1>0, <2>0, <2>2, <2>3, <2>4
<1>11. RoomBy(T, m2, S)
  BY <1>9, <1>10 DEF RoomBy
<1> QED BY <1>7, <1>8, <1>11 DEF Room

LEMMA RoomEases ==
  ASSUME NEW T \in Nat \ {0}, NEW m, NEW n \in Int, NEW i \in Int, n <= i, Room(T, m, n)
  PROVE  Room(T, m, i) /\ i >= 0
<1>1. PICK R \in [0..T -> Nat] : RoomBy(T, m, R) /\ R[0] <= n
  BY DEF Room
<1>2. R[0] \in Nat
  BY ProcsAreFinite
<1>3. R[0] <= i /\ i >= 0
  BY <1>1, <1>2
<1> QED BY <1>1, <1>3 DEF Room

\* There is room for all guesses at first.
LEMMA RoomAtFirst ==
  ASSUME NEW T \in Nat \ {0}, NEW e \in [Procs -> 0..T]
  PROVE  Room(T, Counts(T, e), Guesses(K, T))
<1>1. Falling(T, Counts(T, e)) /\ Counts(T, e)[0] = K /\ 0 \in 0..T /\ T \in Nat
  BY CountsFall, ProcsAreFinite
<1>2. Most(T, Counts(T, e)) \in [0..T -> Nat] /\ RoomBy(T, Counts(T, e), Most(T, Counts(T, e)))
  BY <1>1, MostIsRoom
<1>3. Most(T, Counts(T, e))[0] = Guesses(K, T - 0) /\ T - 0 = T
  BY <1>1 DEF Most
<1>4. Most(T, Counts(T, e))[0] = Guesses(K, T) /\ Guesses(K, T) \in Nat
  BY <1>2, <1>3, <1>1, ProcsAreFinite
<1>5. Most(T, Counts(T, e))[0] <= Guesses(K, T)
  BY <1>4
<1> QED BY <1>2, <1>5 DEF Room

\* Levels that only rise leave room enough.
LEMMA RoomRises ==
  ASSUME NEW T \in Nat \ {0}, NEW e \in [Procs -> 0..T], NEW e2 \in [Procs -> 0..T],
         \A q \in Procs : e2[q] >= e[q], NEW n \in Int, Room(T, Counts(T, e), n)
  PROVE  Room(T, Counts(T, e2), n)
<1> DEFINE m  == Counts(T, e)
           m2 == Counts(T, e2)
           D  == {l \in 0..T : m2[l] # m[l]}
<1>0. /\ Falling(T, m) /\ Falling(T, m2) /\ m[0] = m2[0] /\ T \in Nat \ {0} /\ K \in Nat
      /\ \A q \in Procs : e[q] \in Int /\ e2[q] \in Int
  BY CountsFall, ProcsAreFinite
<1>1. ASSUME NEW l \in 0..T PROVE m2[l] >= m[l] /\ m[l] \in Nat /\ m2[l] \in Nat
  <2> DEFINE X == {q \in Procs : e[q] >= l}
             Y == {q \in Procs : e2[q] >= l}
  <2>1. X \in SUBSET Y /\ IsFiniteSet(Y)
    <3>1. X \in SUBSET Y
      BY <1>0
    <3> QED BY <3>1, ProcsAreFinite
  <2>2. m[l] = Cardinality(X) /\ m2[l] = Cardinality(Y)
    BY CountsFall
  <2>3. m[l] \in Nat /\ m2[l] \in Nat
    BY <1>0 DEF Falling
  <2> HIDE DEF X, Y
  <2>4. Cardinality(X) <= Cardinality(Y)
    BY <2>1, FS_Subset
  <2> QED BY <2>2, <2>3, <2>4
<1>2. CASE D = {}
  <2>1. m2 = m
    <3>1. \A l \in 0..T : m2[l] = m[l]
      BY <1>2
    <3> QED BY <3>1 DEF Counts
  <2> QED BY <2>1
<1>3. CASE D # {}
  <2>1. D \in SUBSET Nat
    BY <1>0
  <2> HIDE DEF D
  <2>2. PICK d \in D : \A y \in D : d <= y
    BY <1>3, <2>1, LeastNat
  <2> USE DEF D
  <2>3. d \in 0..T /\ m2[d] > m[d] /\ d # 0
    BY <1>0, <1>1, <2>2
  <2>4. \A l \in 0..(d - 1) : m2[l] = m[l]
    BY <1>0, <2>2, <2>3
  <2>5. d - 1 \in 0..(T - 1) /\ (d - 1) + 1 = d /\ n - 1 \in Int /\ n - 1 <= n
    BY <1>0, <2>3
  <2> HIDE DEF D, m, m2
  <2>6. Room(T, m2, n - 1)
    <3>1. Room(T, m, n)
      BY DEF m
    <3> QED BY <1>0, <2>3, <2>4, <2>5, <3>1, RoomFrom
  <2>7. Room(T, m2, n)
    BY <2>5, <2>6, RoomEases
  <2> QED BY <2>7 DEF m2
<1> QED BY <1>2, <1>3

\* p records its miss: it rises, and what else falls stays above where p was.
LEMMA RoomUsed ==
  ASSUME NEW T \in Nat \ {0}, NEW e \in [Procs -> 0..T], NEW e2 \in [Procs -> 0..T],
         NEW p \in Procs, e2[p] > e[p],
         \A q \in Procs : e2[q] >= e[q] \/ e2[q] > e[p],
         \A q \in Procs : e[q] < e[p] => e2[q] = e[q],
         NEW n \in Int, Room(T, Counts(T, e), n)
  PROVE  Room(T, Counts(T, e2), n - 1)
<1> DEFINE m  == Counts(T, e)
           m2 == Counts(T, e2)
           l0 == e[p]
<1>0. /\ Falling(T, m) /\ Falling(T, m2) /\ T \in Nat \ {0} /\ K \in Nat
      /\ \A q \in Procs : e[q] \in Int /\ e2[q] \in Int
  BY CountsFall, ProcsAreFinite
<1>1. l0 \in 0..(T - 1) /\ l0 + 1 \in 0..T
  BY <1>0
<1>2. ASSUME NEW l \in 0..l0 PROVE m2[l] = m[l]
  <2>1. ASSUME NEW q \in Procs PROVE e2[q] >= l <=> e[q] >= l
    <3>1. CASE e[q] < l0
      BY <3>1
    <3>2. CASE e[q] >= l0
      BY <1>0, <1>1, <3>2
    <3> QED BY <1>0, <3>1, <3>2
  <2>2. {q \in Procs : e2[q] >= l} = {q \in Procs : e[q] >= l}
    BY <2>1
  <2>3. l \in 0..T
    BY <1>0, <1>1
  <2> QED BY <2>2, <2>3, CountsFall
<1>3. m2[l0 + 1] > m[l0 + 1]
  <2> DEFINE X == {q \in Procs : e[q] >= l0 + 1}
             Y == {q \in Procs : e2[q] >= l0 + 1}
  <2>1. p \notin X /\ X \cup {p} \in SUBSET Y
    <3>1. ASSUME NEW q \in X PROVE q \in Y
      BY <1>0
    <3> QED BY <1>0, <3>1
  <2>2. IsFiniteSet(X) /\ IsFiniteSet(Y) /\ Cardinality(X) \in Nat /\ Cardinality(Y) \in Nat
    <3>1. X \in SUBSET Procs /\ Y \in SUBSET Procs
      OBVIOUS
    <3> HIDE DEF X, Y
    <3> QED BY <1>0, <3>1, ProcsAreFinite
  <2>3. m[l0 + 1] = Cardinality(X) /\ m2[l0 + 1] = Cardinality(Y)
    BY <1>1, CountsFall
  <2> HIDE DEF X, Y
  <2>4. Cardinality(X \cup {p}) = Cardinality(X) + 1
    BY <2>1, <2>2, FS_AddElement
  <2>5. Cardinality(X \cup {p}) <= Cardinality(Y)
    BY <2>1, <2>2, FS_Subset
  <2> QED BY <2>2, <2>3, <2>4, <2>5
<1>4. Room(T, m, n)
  OBVIOUS
<1> HIDE DEF m, m2, l0
<1>5. Room(T, m2, n - 1)
  BY <1>0, <1>1, <1>2, <1>3, <1>4, RoomFrom
<1> QED BY <1>5 DEF m2


-----------------------------------------------------------------------------
(* Levels of requests *)

\* f is the level of the row, h[q] that of what q will write: a request in H is
\* at the lower of the two, any other could read the row now.
Lev(f, h, H) == [q \in Procs |-> IF q \in H /\ h[q] < f THEN h[q] ELSE f]

LEMMA LevIs ==
  ASSUME NEW T \in Nat \ {0}, NEW f \in 0..T, NEW h \in [Procs -> Nat], NEW H
  PROVE  /\ Lev(f, h, H) \in [Procs -> 0..T]
         /\ \A q \in Procs : /\ Lev(f, h, H)[q] \in Nat /\ Lev(f, h, H)[q] <= f
                             /\ q \in H => Lev(f, h, H)[q] <= h[q]
                             /\ q \notin H => Lev(f, h, H)[q] = f
                             /\ q \in H /\ h[q] < f => Lev(f, h, H)[q] = h[q]
                             /\ h[q] >= f => Lev(f, h, H)[q] = f
<1>0. f \in Nat /\ T \in Nat /\ f <= T
  OBVIOUS
<1>1. ASSUME NEW q \in Procs
      PROVE  LET v == IF q \in H /\ h[q] < f THEN h[q] ELSE f
             IN  /\ v \in 0..T /\ v \in Nat /\ v <= f
                 /\ q \in H => v <= h[q]
                 /\ q \notin H => v = f
                 /\ q \in H /\ h[q] < f => v = h[q]
                 /\ h[q] >= f => v = f
  <2>1. h[q] \in Nat
    OBVIOUS
  <2>2. CASE q \in H /\ h[q] < f
    BY <1>0, <2>1, <2>2
  <2>3. CASE ~(q \in H /\ h[q] < f)
    BY <1>0, <2>1, <2>3
  <2> QED BY <2>2, <2>3
<1> QED BY <1>1 DEF Lev

\* A step that answers no miss lowers no level.
LEMMA LevelsRise ==
  ASSUME NEW T \in Nat \ {0}, NEW f \in 0..T, NEW f2 \in 0..T, f2 >= f,
         NEW h \in [Procs -> Nat], NEW h2 \in [Procs -> Nat], NEW H, NEW H2,
         \A q \in Procs : q \in H2 /\ h2[q] < f => q \in H /\ h2[q] = h[q],
         NEW n \in Int, Room(T, Counts(T, Lev(f, h, H)), n)
  PROVE  Room(T, Counts(T, Lev(f2, h2, H2)), n)
<1> DEFINE L  == Lev(f, h, H)
           L2 == Lev(f2, h2, H2)
<1>0. f \in Nat /\ f2 \in Nat /\ \A q \in Procs : h[q] \in Nat /\ h2[q] \in Nat
  OBVIOUS
<1>1. /\ L \in [Procs -> 0..T]
      /\ \A q \in Procs : /\ L[q] \in Nat /\ L[q] <= f
                          /\ q \in H => L[q] <= h[q]
  BY LevIs
<1>2. /\ L2 \in [Procs -> 0..T]
      /\ \A q \in Procs : /\ L2[q] \in Nat
                          /\ q \notin H2 => L2[q] = f2
                          /\ q \in H2 /\ h2[q] < f2 => L2[q] = h2[q]
                          /\ h2[q] >= f2 => L2[q] = f2
  BY LevIs
<1>3. Room(T, Counts(T, L), n)
  OBVIOUS
<1> HIDE DEF L, L2
<1>4. ASSUME NEW q \in Procs PROVE L2[q] >= L[q]
  <2>1. CASE q \notin H2 \/ h2[q] >= f2
    BY <1>0, <1>1, <1>2, <2>1
  <2>2. CASE q \in H2 /\ h2[q] < f2 /\ h2[q] >= f
    BY <1>0, <1>1, <1>2, <2>2
  <2>3. CASE q \in H2 /\ h2[q] < f2 /\ h2[q] < f
    BY <1>0, <1>1, <1>2, <2>3
  <2> QED BY <1>0, <2>1, <2>2, <2>3
<1>5. Room(T, Counts(T, L2), n)
  BY <1>1, <1>2, <1>3, <1>4, RoomRises
<1> QED BY <1>5 DEF L2

\* A miss recorded: what p wrote is below what is left.
LEMMA LevelUsed ==
  ASSUME NEW T \in Nat \ {0}, NEW f \in 0..T, NEW f2 \in 0..T,
         NEW h \in [Procs -> Nat], NEW h2 \in [Procs -> Nat], NEW H, NEW p \in Procs, p \in H,
         f2 > h[p], \A q \in Procs : q # p => h2[q] = h[q],
         NEW n \in Int, Room(T, Counts(T, Lev(f, h, H)), n)
  PROVE  Room(T, Counts(T, Lev(f2, h2, H \ {p})), n - 1)
<1> DEFINE H2 == H \ {p}
           L  == Lev(f, h, H)
           L2 == Lev(f2, h2, H2)
<1>0. f \in Nat /\ f2 \in Nat /\ \A q \in Procs : h[q] \in Nat /\ h2[q] \in Nat
  OBVIOUS
<1>1. /\ L \in [Procs -> 0..T]
      /\ \A q \in Procs : /\ L[q] \in Nat /\ L[q] <= f
                          /\ q \in H => L[q] <= h[q]
                          /\ q \notin H => L[q] = f
                          /\ q \in H /\ h[q] < f => L[q] = h[q]
                          /\ h[q] >= f => L[q] = f
  BY LevIs
<1>2. /\ L2 \in [Procs -> 0..T]
      /\ \A q \in Procs : /\ L2[q] \in Nat
                          /\ q \notin H2 => L2[q] = f2
                          /\ q \in H2 /\ h2[q] < f2 => L2[q] = h2[q]
                          /\ h2[q] >= f2 => L2[q] = f2
  BY LevIs
<1>3. Room(T, Counts(T, L), n)
  OBVIOUS
<1> HIDE DEF L, L2
<1>4. L2[p] = f2 /\ L[p] <= h[p] /\ L2[p] > L[p]
  BY <1>0, <1>1, <1>2
<1>5. ASSUME NEW q \in Procs
      PROVE  /\ L2[q] >= L[q] \/ L2[q] > L[p]
             /\ L[q] < L[p] => L2[q] = L[q]
  <2>0. /\ L[q] \in Nat /\ L2[q] \in Nat /\ L[p] \in Nat /\ L2[p] \in Nat
        /\ h[q] \in Nat /\ h[p] \in Nat
    BY <1>0, <1>1, <1>2
  <2>1. CASE q \notin H2
    <3>1. L2[q] = f2 /\ (q = p \/ L[q] = f)
      BY <1>1, <1>2, <2>1
    <3>2. L[p] <= f
      BY <1>1
    <3> QED BY <1>0, <1>4, <2>0, <3>1, <3>2
  <2>2. CASE q \in H2
    <3>1. q \in H /\ h2[q] = h[q]
      BY <2>2
    <3>2. CASE h[q] >= f2
      <4>1. L2[q] = f2
        BY <1>2, <3>1, <3>2
      <4>2. L[q] >= L[p]
        <5>1. CASE h[q] >= f
          <6>1. L[q] = f /\ L[p] <= f
            BY <1>1, <5>1
          <6> QED BY <1>0, <2>0, <6>1
        <5>2. CASE h[q] < f
          <6>1. L[q] = h[q]
            BY <1>1, <3>1, <5>2
          <6> QED BY <1>0, <1>4, <2>0, <3>2, <6>1
        <5> QED BY <1>0, <2>0, <5>1, <5>2
      <4> QED BY <1>0, <1>4, <2>0, <4>1, <4>2
    <3>3. CASE h[q] < f2
      <4>1. L2[q] = h[q] /\ L[q] <= h[q]
        BY <1>1, <1>2, <2>2, <3>1, <3>3
      <4>2. CASE h[q] >= f
        <5>1. L[q] = f /\ L[p] <= f
          BY <1>1, <4>2
        <5> QED BY <1>0, <2>0, <4>1, <5>1
      <4>3. CASE h[q] < f
        <5>1. L[q] = h[q]
          BY <1>1, <3>1, <4>3
        <5> QED BY <1>0, <2>0, <4>1, <5>1
      <4> QED BY <1>0, <2>0, <4>2, <4>3
    <3> QED BY <1>0, <2>0, <3>2, <3>3
  <2> QED BY <2>1, <2>2
<1>6. Room(T, Counts(T, L2), n - 1)
  BY <1>1, <1>2, <1>3, <1>4, <1>5, RoomUsed
<1> QED BY <1>6 DEF L2


-----------------------------------------------------------------------------
(* Guesses are bounded *)

\* Misses under way.
Holding == {q \in Procs : ~req[q].right /\ req[q].pc \in {"compare", "record"}}

\* A lock worked out in an earlier tick, over before it is written.
Late(q) == req[q].pc = "record" /\ req[q].until \in 1..now

\* A count read, below the threshold: a request that read more locks as well.
Short(n) == IF n < Threshold THEN n ELSE Threshold - 1

\* The levels of the row and of what each request read, e more than the counts:
\* a late lock (e = 1 alone allows one) leaves the row open at the threshold.
Floor(e) == IF lock > now THEN Threshold + e ELSE Short(failed) + e
Held(e)  == [q \in Procs |-> IF Late(q) THEN Threshold - 1 ELSE Short(req[q].failed) + e]

GuessRoom(e) == Room(Threshold + e, Counts(Threshold + e, Lev(Floor(e), Held(e), Holding)),
                     Guesses(K, Threshold + e) - misses)

GuessInv == \A e \in {0, 1} : (e = 1 \/ ~lapsed) => GuessRoom(e)

\* Only a miss is recorded, with the lock its count deserves.
RecordInv ==
  \A q \in Procs : req[q].pc = "record" =>
    /\ ~req[q].right
    /\ req[q].failed + 1 < Threshold => req[q].until = 0
    /\ req[q].failed + 1 >= Threshold => req[q].until \in Nat \ {0}

GInv == TypeOK /\ RecordInv /\ GuessInv

LEMMA ConstantsAre ==
  /\ Threshold \in Nat /\ Threshold \in Nat \ {0} /\ Threshold - 1 \in Nat
  /\ \A e \in {0, 1} : Threshold + e \in Nat \ {0} /\ e \in Nat
  /\ \A n \in Nat, e \in {0, 1} : /\ Short(n) + e \in 0..(Threshold + e) /\ Short(n) + e \in Nat
                                  /\ Short(n) + e < Threshold + e
BY ConstAssumption DEF Short

LEMMA TypesAre ==
  ASSUME TypeOK
  PROVE  /\ failed \in Nat /\ lock \in Nat /\ now \in Nat \ {0} /\ misses \in Nat
         /\ \A q \in Procs : req[q].failed \in Nat /\ req[q].until \in Nat
BY DEF TypeOK, Request

LEMMA LevelsAre ==
  ASSUME TypeOK, NEW e \in {0, 1}
  PROVE  Floor(e) \in 0..(Threshold + e) /\ Floor(e) \in Nat /\ Held(e) \in [Procs -> Nat]
<1>1. /\ failed \in Nat /\ \A q \in Procs : req[q].failed \in Nat
  BY TypesAre
<1>2. Floor(e) \in 0..(Threshold + e) /\ Floor(e) \in Nat
  BY <1>1, ConstantsAre DEF Floor
<1>3. \A q \in Procs : Short(req[q].failed) + e \in Nat
  BY <1>1, ConstantsAre
<1>4. Held(e) \in [Procs -> Nat]
  BY <1>3, ConstantsAre DEF Held
<1> QED BY <1>2, <1>4

LEMMA LevelsAreNext ==
  ASSUME TypeOK', NEW e \in {0, 1}
  PROVE  /\ Floor(e)' \in 0..(Threshold + e) /\ Floor(e)' \in Nat /\ Held(e)' \in [Procs -> Nat]
<1>1. /\ failed' \in Nat /\ \A q \in Procs : req'[q].failed \in Nat
  BY DEF TypeOK, Request
<1>2. Floor(e)' \in 0..(Threshold + e) /\ Floor(e)' \in Nat
  BY <1>1, ConstantsAre DEF Floor
<1>3. \A q \in Procs : Short(req'[q].failed) + e \in Nat
  BY <1>1, ConstantsAre
<1>4. Held(e)' \in [Procs -> Nat]
  BY <1>3, ConstantsAre DEF Held
<1> QED BY <1>2, <1>4

\* A request's own fields decide its level.
LEMMA HeldSame ==
  ASSUME NEW e \in {0, 1}, NEW q \in Procs, now' = now, req'[q] = req[q]
  PROVE  /\ Held(e)'[q] = Held(e)[q]
         /\ q \in Holding' <=> q \in Holding
BY DEF Held, Late, Holding

\* Steps that record no miss: no level falls.
LEMMA GuessKeeps ==
  ASSUME TypeOK, TypeOK', GuessInv, UNCHANGED <<failed, lock, now, misses, lapsed>>,
         NEW p \in Procs, \A q \in Procs : q # p => req'[q] = req[q],
         \A e \in {0, 1} : p \in Holding' /\ Held(e)'[p] < Floor(e)
                             => p \in Holding /\ Held(e)'[p] = Held(e)[p]
  PROVE  GuessInv'
<1> SUFFICES ASSUME NEW e \in {0, 1}, e = 1 \/ ~lapsed'
             PROVE  GuessRoom(e)'
  BY DEF GuessInv
<1>1. /\ Floor(e) \in 0..(Threshold + e) /\ Held(e) \in [Procs -> Nat]
      /\ Threshold + e \in Nat \ {0} /\ Floor(e) \in Nat
  BY LevelsAre, ConstantsAre
<1>2. /\ Floor(e)' = Floor(e) /\ Held(e)' \in [Procs -> Nat]
  BY LevelsAreNext DEF Floor
<1>3. Guesses(K, Threshold + e) - misses \in Int /\ GuessRoom(e)
  <2>1. Guesses(K, Threshold + e) \in Nat /\ misses \in Nat
    BY <1>1, ProcsAreFinite, GuessesType, TypesAre
  <2>2. GuessRoom(e)
    BY DEF GuessInv
  <2> QED BY <2>1, <2>2
<1>4. ASSUME NEW q \in Procs, q \in Holding', Held(e)'[q] < Floor(e)
      PROVE  q \in Holding /\ Held(e)'[q] = Held(e)[q]
  <2>1. CASE q = p
    BY <1>4, <2>1
  <2>2. CASE q # p
    BY <1>4, <2>2, HeldSame
  <2> QED BY <2>1, <2>2
<1> DEFINE f == Floor(e)  f2 == Floor(e)'
           h == Held(e)   h2 == Held(e)'
           n == Guesses(K, Threshold + e) - misses
           H == Holding   H2 == Holding'
           T == Threshold + e
<1>5. f2 = f /\ f2 >= f
  BY <1>1, <1>2
<1>6. Room(T, Counts(T, Lev(f, h, H)), n)
  BY <1>3 DEF GuessRoom
<1>7. Room(T, Counts(T, Lev(f2, h2, H2)), n)
  <2>1. /\ T \in Nat \ {0} /\ f \in 0..T /\ f2 \in 0..T /\ n \in Int
        /\ h \in [Procs -> Nat] /\ h2 \in [Procs -> Nat]
    BY <1>1, <1>2, <1>3
  <2>2. \A q \in Procs : q \in H2 /\ h2[q] < f => q \in H /\ h2[q] = h[q]
    BY <1>4
  <2> HIDE DEF f, f2, h, h2, n, H, H2, T
  <2> QED BY <1>5, <1>6, <2>1, <2>2, LevelsRise
<1> QED BY <1>7 DEF GuessRoom


LEMMA GuessLogin ==
  ASSUME TypeOK, TypeOK', GuessInv, NEW p \in Procs, NEW right \in BOOLEAN, Login(p, right)
  PROVE  GuessInv'
<1> DEFINE r == [pc |-> "compare", right |-> right, failed |-> failed,
                 wasLocked |-> lock # 0, until |-> 0]
<1>1. /\ UNCHANGED <<failed, lock, now, misses, lapsed>> /\ req' = [req EXCEPT ![p] = r]
      /\ ~(lock > now)
  BY DEF Login, Locked
<1>2. r.failed = failed /\ r.pc = "compare"
  OBVIOUS
<1> HIDE DEF r
<1>3. req'[p] = r /\ \A q \in Procs : q # p => req'[q] = req[q]
  BY <1>1 DEF TypeOK
<1>4. ASSUME NEW e \in {0, 1} PROVE ~(Held(e)'[p] < Floor(e))
  <2>1. Held(e)'[p] = Short(failed) + e
    BY <1>1, <1>2, <1>3 DEF Held, Late
  <2>2. Floor(e) = Short(failed) + e
    BY <1>1 DEF Floor
  <2> QED BY <2>1, <2>2, LevelsAre
<1> QED BY <1>1, <1>3, <1>4, GuessKeeps

LEMMA GuessLess ==
  ASSUME TypeOK, TypeOK', GuessInv, NEW p \in Procs,
         (\E h \in Hours : Kill(p, h)) \/ Crash(p)
  PROVE  GuessInv'
<1>1. UNCHANGED <<failed, lock, now, misses, lapsed>>
  BY DEF Kill, Crash
<1>2. \A q \in Procs : q # p => req'[q] = req[q]
  BY DEF Kill, Crash, Answer, TypeOK
<1>3. req'[p].pc \in {"lock", "idle"}
  <2>1. ASSUME NEW h \in Hours, Kill(p, h) PROVE req'[p].pc = "lock"
    <3> DEFINE r == [Idle EXCEPT !.pc = "lock", !.until = now + h]
    <3>1. r.pc = "lock"
      BY DEF Idle
    <3>2. req' = [req EXCEPT ![p] = r]
      BY <2>1 DEF Kill
    <3> HIDE DEF r
    <3> QED BY <3>1, <3>2 DEF TypeOK
  <2>2. ASSUME Crash(p) PROVE req'[p].pc = "idle"
    <3>1. Idle.pc = "idle"
      BY DEF Idle
    <3>2. req' = [req EXCEPT ![p] = Idle]
      BY <2>2 DEF Crash, Answer
    <3> HIDE DEF Idle
    <3> QED BY <3>1, <3>2 DEF TypeOK
  <2> QED BY <2>1, <2>2
<1>4. p \notin Holding'
  BY <1>3 DEF Holding
<1> QED BY <1>1, <1>2, <1>4, GuessKeeps

\* A lock worked out now is to come.
LEMMA LockForIs ==
  ASSUME NEW n \in Nat, now \in Nat
  PROVE  /\ n < Threshold => LockFor(n) = 0
         /\ n >= Threshold => LockFor(n) > now
         /\ LockFor(n) \in Nat
<1>1. CASE n < Threshold
  BY <1>1, ConstantsAre DEF LockFor
<1>2. CASE ~(n < Threshold)
  <2> DEFINE i == IF n - Threshold < Len(Tiers) THEN n - Threshold + 1 ELSE Len(Tiers)
  <2>1. i \in 1..Len(Tiers)
    BY <1>2, ConstAssumption
  <2>2. Tiers[i] \in Nat \ {0}
    BY <2>1, ConstAssumption
  <2>3. LockFor(n) = now + Tiers[i]
    BY <1>2 DEF LockFor
  <2> HIDE DEF i
  <2> QED BY <1>2, <2>2, <2>3
<1> QED BY <1>1, <1>2

\* A request that goes on to record carries the lock its count deserves.
LEMMA ToRecord ==
  ASSUME TypeOK, NEW p \in Procs, Compare(p), req'[p].pc = "record"
  PROVE  /\ ~req[p].right /\ req[p].pc = "compare"
         /\ req'[p].right = req[p].right /\ req'[p].failed = req[p].failed
         /\ req'[p].until = LockFor(req[p].failed + 1)
<1> DEFINE u == LockFor(req[p].failed + 1)
<1>1. req[p].pc = "compare" /\ req \in [Procs -> Request]
  BY DEF Compare, At, TypeOK
<1>2. \/ req' = [req EXCEPT ![p].pc = "clear"]
      \/ req' = [req EXCEPT ![p] = Idle]
      \/ ~req[p].right /\ req' = [req EXCEPT ![p].pc = "record", ![p].until = u]
  BY DEF Compare, Answer
<1> HIDE DEF u
<1>3. Idle.pc = "idle"
  BY DEF Idle
<1>4. /\ ~req[p].right /\ req'[p].right = req[p].right /\ req'[p].failed = req[p].failed
      /\ req'[p].until = u
  BY <1>1, <1>2, <1>3 DEF Request
<1> QED BY <1>1, <1>4 DEF u

LEMMA GuessCompare ==
  ASSUME TypeOK, TypeOK', GuessInv, NEW p \in Procs, Compare(p)
  PROVE  GuessInv'
<1>0. UNCHANGED <<failed, lock, now, misses, lapsed>> /\ now \in Nat /\ req[p].failed \in Nat
  BY TypesAre DEF Compare
<1>1. \A q \in Procs : q # p => req'[q] = req[q]
  BY CompareMoves
<1>2. req'[p].pc \in {"idle", "clear", "record"}
  BY CompareMoves DEF Idle
<1>3. ASSUME NEW e \in {0, 1}, p \in Holding'
      PROVE  p \in Holding /\ Held(e)'[p] = Held(e)[p]
  <2>1. req'[p].pc = "record"
    BY <1>2, <1>3 DEF Holding
  <2>2. /\ ~req[p].right /\ req[p].pc = "compare"
        /\ req'[p].failed = req[p].failed
        /\ req'[p].until = LockFor(req[p].failed + 1)
    BY <2>1, ToRecord
  <2>3. LockFor(req[p].failed + 1) = 0 \/ LockFor(req[p].failed + 1) > now
    BY <1>0, LockForIs, ConstantsAre
  <2>4. ~Late(p)' /\ ~Late(p)
    BY <1>0, <2>2, <2>3 DEF Late
  <2>5. Held(e)'[p] = Short(req[p].failed) + e /\ Held(e)[p] = Short(req[p].failed) + e
    BY <2>2, <2>4 DEF Held
  <2> QED BY <2>2, <2>5 DEF Holding
<1> QED BY <1>0, <1>1, <1>3, GuessKeeps

\* The count starts afresh: there is room for all guesses.
LEMMA GuessAfresh ==
  ASSUME TypeOK', misses' = 0
  PROVE  GuessInv'
<1> SUFFICES ASSUME NEW e \in {0, 1} PROVE GuessRoom(e)'
  BY DEF GuessInv
<1> DEFINE f2 == Floor(e)'
           h2 == Held(e)'
           H2 == Holding'
           T == Threshold + e
<1>1. T \in Nat \ {0} /\ f2 \in 0..T /\ h2 \in [Procs -> Nat]
  BY LevelsAreNext, ConstantsAre
<1>2. Guesses(K, T) - misses' = Guesses(K, T)
  <2>1. Guesses(K, T) \in Nat
    BY <1>1, ProcsAreFinite, GuessesType
  <2> QED BY <2>1
<1>3. Room(T, Counts(T, Lev(f2, h2, H2)), Guesses(K, T))
  <2> HIDE DEF f2, h2, H2, T
  <2>1. Lev(f2, h2, H2) \in [Procs -> 0..T]
    BY <1>1, LevIs
  <2> QED BY <1>1, <2>1, RoomAtFirst
<1> QED BY <1>2, <1>3 DEF GuessRoom


\* A miss recorded was counted no higher than what the row then holds.
LEMMA GuessRecord ==
  ASSUME TypeOK, TypeOK', RecordInv, GuessInv, NEW p \in Procs, Record(p)
  PROVE  GuessInv'
<1>0. /\ req[p].pc = "record" /\ failed' = req[p].failed + 1 /\ lock' = req[p].until
      /\ misses' = misses + 1 /\ lapsed' = (lapsed \/ req[p].until \in 1..now) /\ now' = now
      /\ req' = [req EXCEPT ![p] = Idle]
  BY DEF Record, At, Counted, Answer
<1>1. /\ ~req[p].right
      /\ req[p].failed + 1 < Threshold => req[p].until = 0
      /\ req[p].failed + 1 >= Threshold => req[p].until \in Nat \ {0}
      /\ req[p].failed \in Nat /\ now \in Nat /\ misses \in Nat
  BY <1>0, TypesAre DEF RecordInv
<1>2. p \in Holding /\ \A q \in Procs : q # p => req'[q] = req[q]
  BY <1>0, <1>1 DEF Holding, TypeOK
<1>3. Holding' = Holding \ {p}
  <2>1. req'[p].pc = "idle"
    <3>1. Idle.pc = "idle"
      BY DEF Idle
    <3> HIDE DEF Idle
    <3> QED BY <1>0, <3>1 DEF TypeOK
  <2>2. p \notin Holding'
    BY <2>1 DEF Holding
  <2>3. \A q \in Procs : q # p => (q \in Holding' <=> q \in Holding)
    BY <1>2 DEF Holding
  <2>4. Holding' \in SUBSET Procs /\ Holding \in SUBSET Procs
    BY DEF Holding
  <2> QED BY <2>2, <2>3, <2>4
<1> SUFFICES ASSUME NEW e \in {0, 1}, e = 1 \/ ~lapsed'
             PROVE  GuessRoom(e)'
  BY DEF GuessInv
<1>4. e = 1 \/ (~lapsed /\ ~Late(p))
  BY <1>0 DEF Late
<1>5. Floor(e)' > Held(e)[p]
  <2>0. e \in Nat /\ Threshold \in Nat \ {0}
    BY ConstantsAre
  <2>1. Held(e)[p] = IF Late(p) THEN Threshold - 1 ELSE Short(req[p].failed) + e
    BY DEF Held
  <2>2. Floor(e)' = IF req[p].until > now THEN Threshold + e ELSE Short(req[p].failed + 1) + e
    BY <1>0 DEF Floor
  <2>3. CASE req[p].failed + 1 < Threshold
    <3>1. req[p].until = 0 /\ ~Late(p)
      BY <1>1, <2>3 DEF Late
    <3>2. Floor(e)' = req[p].failed + 1 + e /\ Held(e)[p] = req[p].failed + e
      BY <1>1, <2>0, <2>1, <2>2, <2>3, <3>1 DEF Short
    <3> QED BY <1>1, <2>0, <3>2
  <2>4. CASE req[p].failed + 1 >= Threshold
    <3>1. req[p].until \in Nat \ {0}
      BY <1>1, <2>4
    <3>2. CASE Late(p)
      <4>1. e = 1 /\ ~(req[p].until > now)
        BY <1>1, <1>4, <3>2 DEF Late
      <4>2. Floor(e)' = Threshold - 1 + e /\ Held(e)[p] = Threshold - 1
        BY <1>1, <2>0, <2>1, <2>2, <2>4, <3>2, <4>1 DEF Short
      <4> QED BY <2>0, <4>1, <4>2
    <3>3. CASE ~Late(p)
      <4>1. req[p].until > now
        BY <1>0, <1>1, <3>1, <3>3 DEF Late
      <4>2. Floor(e)' = Threshold + e /\ Held(e)[p] = Short(req[p].failed) + e
        BY <2>1, <2>2, <3>3, <4>1
      <4>3. Short(req[p].failed) + e < Threshold + e
        BY <1>1, ConstantsAre
      <4> QED BY <4>2, <4>3
    <3> QED BY <3>2, <3>3
  <2> QED BY <1>1, <2>0, <2>3, <2>4
<1> DEFINE f == Floor(e)  f2 == Floor(e)'
           h == Held(e)   h2 == Held(e)'
           H == Holding
           n == Guesses(K, Threshold + e) - misses
           T == Threshold + e
<1>6. /\ T \in Nat \ {0} /\ f \in 0..T /\ f2 \in 0..T
      /\ h \in [Procs -> Nat] /\ h2 \in [Procs -> Nat]
  BY LevelsAre, LevelsAreNext, ConstantsAre
<1>7. n \in Int /\ GuessRoom(e) /\ Guesses(K, Threshold + e) - misses' = n - 1
  <2>1. Guesses(K, Threshold + e) \in Nat
    BY <1>6, ProcsAreFinite, GuessesType
  <2>2. GuessRoom(e)
    BY <1>4 DEF GuessInv
  <2> QED BY <1>0, <1>1, <2>1, <2>2
<1>8. \A q \in Procs : q # p => h2[q] = h[q]
  BY <1>0, <1>2, HeldSame
<1>9. Room(T, Counts(T, Lev(f, h, H)), n)
  BY <1>7 DEF GuessRoom
<1>10. Room(T, Counts(T, Lev(f2, h2, H \ {p})), n - 1)
  <2>1. f2 > h[p] /\ p \in H /\ n \in Int
    BY <1>2, <1>5, <1>7
  <2> HIDE DEF f, f2, h, h2, H, n, T
  <2> QED BY <1>6, <1>8, <1>9, <2>1, LevelUsed
<1> QED BY <1>3, <1>7, <1>10 DEF GuessRoom

\* What a request carries to its record is kept by every step.
LEMMA RecordKeeps ==
  ASSUME TypeOK, RecordInv, [Next]_vars
  PROVE  RecordInv'
<1> SUFFICES ASSUME NEW q \in Procs, req'[q].pc = "record"
             PROVE  /\ ~req'[q].right
                    /\ req'[q].failed + 1 < Threshold => req'[q].until = 0
                    /\ req'[q].failed + 1 >= Threshold => req'[q].until \in Nat \ {0}
  BY DEF RecordInv
<1>1. CASE req'[q] = req[q]
  BY <1>1 DEF RecordInv
<1>2. ASSUME NEW p \in Procs, NEW right \in BOOLEAN, Login(p, right) PROVE req'[q] = req[q]
  BY <1>2 DEF Login, TypeOK
<1>3. ASSUME NEW p \in Procs, NEW h \in Hours, Kill(p, h) PROVE req'[q] = req[q]
  BY <1>3 DEF Kill, TypeOK, Idle
<1>4. ASSUME NEW p \in Procs, Compare(p), q = p
      PROVE  /\ ~req'[q].right
             /\ req'[q].failed + 1 < Threshold => req'[q].until = 0
             /\ req'[q].failed + 1 >= Threshold => req'[q].until \in Nat \ {0}
  <2>1. /\ ~req[q].right /\ req'[q].right = req[q].right /\ req'[q].failed = req[q].failed
        /\ req'[q].until = LockFor(req[q].failed + 1)
    BY <1>4, ToRecord
  <2>2. req[q].failed + 1 \in Nat /\ now \in Nat
    BY TypesAre
  <2> QED BY <2>1, <2>2, LockForIs
<1>5. ASSUME NEW p \in Procs, Compare(p), q # p PROVE req'[q] = req[q]
  BY <1>5, CompareMoves
<1>6. ASSUME NEW p \in Procs, Record(p) \/ Clear(p) \/ Lock(p) \/ Crash(p)
      PROVE  req'[q] = req[q]
  BY <1>6 DEF Record, Clear, Lock, Crash, Answer, Idle, TypeOK
<1>7. CASE Tick \/ UNCHANGED vars
  BY <1>1, <1>7 DEF Tick, vars
<1> QED BY <1>1, <1>2, <1>3, <1>4, <1>5, <1>6, <1>7 DEF Next

\* The inductive invariant: the requests' types, their locks, and room enough
\* for the guesses that are still to come.
THEOREM GInvHolds == Spec => []GInv
<1>1. Init => RecordInv /\ (TypeOK => GuessInv)
  <2> SUFFICES ASSUME Init PROVE RecordInv /\ (TypeOK => GuessInv)
    OBVIOUS
  <2>1. RecordInv
    BY DEF Init, RecordInv, Idle
  <2>2. ASSUME TypeOK, NEW e \in {0, 1} PROVE GuessRoom(e)
    <3> DEFINE f == Floor(e)
               h == Held(e)
               H == Holding
               T == Threshold + e
    <3>1. T \in Nat \ {0} /\ f \in 0..T /\ h \in [Procs -> Nat]
      BY <2>2, LevelsAre, ConstantsAre
    <3>2. Guesses(K, T) - misses = Guesses(K, T)
      <4>1. Guesses(K, T) \in Nat
        BY <3>1, ProcsAreFinite, GuessesType
      <4> QED BY <4>1 DEF Init
    <3>3. Room(T, Counts(T, Lev(f, h, H)), Guesses(K, T))
      <4> HIDE DEF f, h, H, T
      <4>1. Lev(f, h, H) \in [Procs -> 0..T]
        BY <3>1, LevIs
      <4> QED BY <3>1, <4>1, RoomAtFirst
    <3> QED BY <3>2, <3>3 DEF GuessRoom
  <2> QED BY <2>1, <2>2 DEF GuessInv
<1>2. TypeOK /\ TypeOK' /\ RecordInv /\ GuessInv /\ [Next]_vars => RecordInv' /\ GuessInv'
  <2> SUFFICES ASSUME TypeOK, TypeOK', RecordInv, GuessInv, [Next]_vars
               PROVE  RecordInv' /\ GuessInv'
    OBVIOUS
  <2>1. RecordInv'
    BY RecordKeeps
  <2>2. ASSUME NEW p \in Procs, NEW right \in BOOLEAN, Login(p, right) PROVE GuessInv'
    BY <2>2, GuessLogin
  <2>3. ASSUME NEW p \in Procs, (\E h \in Hours : Kill(p, h)) \/ Crash(p) PROVE GuessInv'
    BY <2>3, GuessLess
  <2>4. ASSUME NEW p \in Procs, Compare(p) PROVE GuessInv'
    BY <2>4, GuessCompare
  <2>5. ASSUME NEW p \in Procs, Record(p) PROVE GuessInv'
    BY <2>5, GuessRecord
  <2>6. ASSUME NEW p \in Procs, Clear(p) \/ Lock(p) PROVE GuessInv'
    <3>1. misses' = 0
      BY <2>6 DEF Clear, Lock
    <3> QED BY <3>1, GuessAfresh
  <2>7. ASSUME Tick PROVE GuessInv'
    <3>1. misses' = 0
      BY <2>7 DEF Tick
    <3> QED BY <3>1, GuessAfresh
  <2>8. ASSUME UNCHANGED vars PROVE GuessInv'
    BY <2>8 DEF vars, GuessInv, GuessRoom, Floor, Held, Late, Holding
  <2>9. ASSUME Next PROVE GuessInv'
    BY <2>2, <2>3, <2>4, <2>5, <2>6, <2>7, <2>9 DEF Next
  <2> QED BY <2>1, <2>8, <2>9
<1> QED BY <1>1, <1>2, TypeCorrect, PTL DEF Spec, GInv

\* In one tick, since the count was last cleared, the account answers no more
\* guesses than overlapping requests can win from one another's stale counts:
\* one threshold's worth, or the next one's where a lock came too late.
THEOREM GuessesBounded == Spec => []GuessesAreBounded
<1>1. GInv => GuessesAreBounded
  <2> SUFFICES ASSUME GInv PROVE GuessesAreBounded
    OBVIOUS
  <2>1. misses \in Nat /\ TypeOK /\ GuessInv
    BY TypesAre DEF GInv
  <2>2. ASSUME NEW e \in {0, 1}, e = 1 \/ ~lapsed PROVE misses <= Guesses(K, Threshold + e)
    <3> DEFINE T == Threshold + e
               m == Counts(T, Lev(Floor(e), Held(e), Holding))
               n == Guesses(K, T) - misses
    <3>1. T \in Nat \ {0} /\ Guesses(K, T) \in Nat
      BY ConstantsAre, ProcsAreFinite, GuessesType
    <3>2. n \in Int /\ Room(T, m, n) /\ n <= n
      BY <2>1, <2>2, <3>1 DEF GuessInv, GuessRoom
    <3>3. n >= 0
      <4> HIDE DEF T, m, n
      <4> QED BY <3>1, <3>2, RoomEases
    <3> QED BY <2>1, <3>1, <3>3
  <2>3. CASE lapsed
    <3>1. misses <= Guesses(K, Threshold + 1)
      BY <2>2
    <3> QED BY <2>3, <3>1 DEF GuessesAreBounded, K
  <2>4. CASE ~lapsed
    <3>1. misses <= Guesses(K, Threshold + 0) /\ Threshold + 0 = Threshold
      BY <2>2, <2>4, ConstantsAre
    <3> QED BY <2>4, <3>1 DEF GuessesAreBounded, K
  <2> QED BY <2>3, <2>4
<1> QED BY <1>1, GInvHolds, PTL
=============================================================================
