---------------------------- MODULE OtpCode_proofs ----------------------------
(***************************************************************************)
(* Proofs about OtpCode, for any number of concurrent requests, codes and  *)
(* attempts, and any durations.                                            *)
(***************************************************************************)
EXTENDS OtpCode, FiniteSetTheorems, TLAPS

\* Where a request stands says what it has read.
RequestInv(p) ==
  /\ req[p].pc \in {"idle", "count", "bump", "put"} => req[p].seen = NoRec
  /\ req[p].pc \in {"lapse", "win", "burn", "back"} => req[p].seen.code # 0
  /\ req[p].seen.attempts < MaxAttempts
  /\ At(p, "back") => req[p].seen.attempts + 1 < MaxAttempts
  /\ req[p].pc \in {"bump", "put"} => req[p].at \in 1..now
  /\ req[p].seen.code # 0 => sentAt[req[p].seen.code] # 0

\* Codes are sent in their order, and what is known of one was sent.
CodeInv ==
  /\ rec.code # 0 => sentAt[rec.code] # 0
  /\ \A c, d \in Codes : d < c /\ sentAt[c] # 0 => sentAt[d] # 0
  /\ wins > 0 => sentAt[Watched] # 0

\* The watched code was accepted, or a newer one was sent.
Settled == wins > 0 \/ \E d \in Codes : d > Watched /\ sentAt[d] # 0

\* Once it is settled, its record is gone and who still holds it is early,
\* unless one of those has written it back.
ShutInv == Settled => revived \/ (rec.code # Watched /\ Holding \subseteq early)

-----------------------------------------------------------------------------
(* Sends within an hour: those sent, and those admitted that are to be sent *)

SentIn(s, lo, hi)  == {c \in Codes : s[c] # 0 /\ s[c] \in lo..hi}
DueIn(r, lo, hi)   == {p \in Procs : r[p].pc = "put" /\ r[p].at \in lo..hi}
Load(s, r, lo, hi) == Cardinality(SentIn(s, lo, hi)) + Cardinality(DueIn(r, lo, hi))
Below(s, r, top)   == /\ \A c \in Codes : s[c] # 0 => s[c] < top
                      /\ \A p \in Procs : r[p].pc = "put" => r[p].at < top

\* When the counted hour began, and will be over.
Over  == sends.resetAt
Since == sends.resetAt - Hour

\* What the request that is to write the count makes of it.
BumpInv(p) ==
  /\ req[p].sends.count \in 1..MaxSends
  /\ \/ req[p].at \in Since..(Over - 1)
        /\ req[p].sends = [count |-> sends.count + 1, resetAt |-> Over]
     \/ req[p].at >= Over
        /\ req[p].sends = [count |-> 1, resetAt |-> req[p].at + Hour]

HourInv ==
  /\ sends.count <= MaxSends
  /\ sends # NoSends => sends.count >= 1 /\ Since \in 1..now

BumpsInv ==
  /\ \A p, q \in Procs : At(p, "bump") /\ At(q, "bump") => p = q
  /\ \A p \in Procs : At(p, "bump") => BumpInv(p)

\* The hour that is counted sees no more than the count, the end of the one
\* before sees one less than the cap, and so every rolling hour is within both.
LoadInv ==
  /\ Below(sentAt, req, Over)
  /\ Load(sentAt, req, Since, Over - 1) <= sends.count
  /\ sends # NoSends => Load(sentAt, req, Since + 1, Over - 1) <= sends.count - 1
  /\ Load(sentAt, req, Since - Hour + 1, Since - 1) <= MaxSends - 1
  /\ \A t \in Nat : Load(sentAt, req, t, t + Hour - 1) < 2 * MaxSends

CapInv == ~overlap => HourInv /\ BumpsInv /\ LoadInv

-----------------------------------------------------------------------------
(* Answers still to come *)

\* How many attempts are gone for who holds no record of the watched code, and
\* for who holds one: no more than if it dropped it.
Floor    == IF rec.code = Watched THEN rec.attempts ELSE MaxAttempts
Level(q) == IF q \in Holding /\ req[q].seen.attempts < Floor
            THEN req[q].seen.attempts ELSE Floor
Levels   == [q \in Procs |-> Level(q)]

\* n answers are room enough, where m[l] requests are at level l or above: R[l]
\* is room for those that they give.
Counts(e) == [l \in 0..MaxAttempts |-> Cardinality({q \in Procs : e[q] >= l})]
RoomBy(m, R) ==
  /\ \A l \in 0..MaxAttempts, j \in 0..MaxAttempts : l <= j => R[j] <= R[l]
  /\ \A l \in 0..(MaxAttempts - 1) :
       R[l] >= R[l + 1] + Answers(m[l], MaxAttempts - l) - Answers(m[l + 1], MaxAttempts - l)
Room(m, n) == \E R \in [0..MaxAttempts -> Nat] : RoomBy(m, R) /\ R[0] <= n

Total == Answers(Cardinality(Procs), MaxAttempts)

TriesInv ==
  /\ sentAt[Watched] = 0 => tries = 0
  /\ Room(Counts(Levels), Total - tries)

Inv == TypeOK /\ (\A p \in Procs : RequestInv(p)) /\ CodeInv /\ ShutInv /\ CapInv /\ TriesInv

-----------------------------------------------------------------------------
(* Choosing n out of k + n *)

Choices(k, n) == {S \in SUBSET (1..(k + n)) : Cardinality(S) = n}

LEMMA ChoicesAreFinite ==
  ASSUME NEW k \in Nat, NEW n \in Nat
  PROVE  /\ IsFiniteSet(1..(k + n)) /\ Cardinality(1..(k + n)) = k + n
         /\ \A S \in SUBSET (1..(k + n)) : IsFiniteSet(S) /\ Cardinality(S) \in Nat
         /\ IsFiniteSet(Choices(k, n)) /\ Cardinality(Choices(k, n)) \in Nat
         /\ Answers(k, n) = Cardinality(Choices(k, n)) - 1
<1>1. IsFiniteSet(1..(k + n)) /\ Cardinality(1..(k + n)) = k + n
  <2>1. 1 \in Int /\ k + n \in Int
    OBVIOUS
  <2>2. /\ IsFiniteSet(1..(k + n))
        /\ Cardinality(1..(k + n)) = IF 1 > k + n THEN 0 ELSE k + n - 1 + 1
    BY <2>1, FS_Interval
  <2> QED BY <2>2
<1>2. \A S \in SUBSET (1..(k + n)) : IsFiniteSet(S) /\ Cardinality(S) \in Nat
  BY <1>1, FS_Subset, FS_CardinalityType
<1>3. IsFiniteSet(SUBSET (1..(k + n))) /\ Choices(k, n) \in SUBSET SUBSET (1..(k + n))
  BY <1>1, FS_SUBSET DEF Choices
<1>4. IsFiniteSet(Choices(k, n)) /\ Cardinality(Choices(k, n)) \in Nat
  BY <1>3, FS_Subset, FS_CardinalityType
<1> QED BY <1>1, <1>2, <1>4 DEF Answers, Choices

\* There is always one choice, so no bound is negative.
LEMMA AnswersType ==
  ASSUME NEW k \in Nat, NEW n \in Nat
  PROVE  Answers(k, n) \in Nat
<1>1. IsFiniteSet(1..n) /\ Cardinality(1..n) = n
  BY FS_Interval
<1>2. 1..n \in Choices(k, n)
  BY <1>1 DEF Choices
<1>3. /\ IsFiniteSet(Choices(k, n)) /\ Cardinality(Choices(k, n)) \in Nat
      /\ Answers(k, n) = Cardinality(Choices(k, n)) - 1
  BY ChoicesAreFinite
<1>4. Cardinality(Choices(k, n)) # 0
  BY <1>2, <1>3, FS_EmptySet
<1> QED BY <1>3, <1>4

\* Without requests, or without attempts, there are no answers.
LEMMA NoAnswers ==
  ASSUME NEW k \in Nat, NEW n \in Nat, k = 0 \/ n = 0
  PROVE  Answers(k, n) = 0
<1>1. IsFiniteSet(1..n) /\ Cardinality(1..n) = n
  BY FS_Interval
<1>2. CASE k = 0
  <2>1. ASSUME NEW S \in Choices(k, n) PROVE S = 1..n
    <3>1. S \in SUBSET (1..n) /\ Cardinality(S) = Cardinality(1..n)
      BY <1>1, <1>2 DEF Choices
    <3> QED BY <1>1, <3>1, FS_Subset
  <2>2. 1..n \in Choices(k, n)
    BY <1>1 DEF Choices
  <2>3. Choices(k, n) = {1..n}
    BY <2>1, <2>2
  <2>4. Cardinality(Choices(k, n)) = 1
    BY <2>3, FS_Singleton
  <2>5. Answers(k, n) = Cardinality(Choices(k, n)) - 1
    BY ChoicesAreFinite
  <2> QED BY <2>4, <2>5
<1>3. CASE n = 0
  <2>1. ASSUME NEW S \in Choices(k, n) PROVE S = {}
    BY <1>3, <2>1, ChoicesAreFinite, FS_EmptySet DEF Choices
  <2>2. {} \in Choices(k, n)
    BY <1>3, FS_EmptySet DEF Choices
  <2>3. Choices(k, n) = {{}}
    BY <2>1, <2>2
  <2>4. Cardinality(Choices(k, n)) = 1
    BY <2>3, FS_Singleton
  <2>5. Answers(k, n) = Cardinality(Choices(k, n)) - 1
    BY ChoicesAreFinite
  <2> QED BY <2>4, <2>5
<1> QED BY <1>2, <1>3

\* One request is left holding a stale record, or the attempts rise by one:
\* a choice is without the last number, or with it.
LEMMA AnswersRise ==
  ASSUME NEW k \in Nat \ {0}, NEW n \in Nat \ {0}
  PROVE  Answers(k, n) = Answers(k - 1, n) + Answers(k, n - 1) + 1
<1> DEFINE N    == k + n
           A    == Choices(k - 1, n)
           B    == Choices(k, n - 1)
           with == {S \in Choices(k, n) : N \in S}
           f    == [S \in B |-> S \cup {N}]
<1>1. N \in Nat \ {0} /\ k - 1 \in Nat /\ n - 1 \in Nat /\ (k - 1) + n = N - 1 /\ k + (n - 1) = N - 1
  OBVIOUS
<1>2. A = {S \in Choices(k, n) : N \notin S}
  <2>1. 1..(N - 1) = (1..N) \ {N}
    BY <1>1
  <2> QED BY <1>1, <2>1 DEF Choices
<1>3. IsFiniteSet(A) /\ IsFiniteSet(B) /\ Cardinality(A) \in Nat /\ Cardinality(B) \in Nat
  BY <1>1, ChoicesAreFinite
<1>4. f \in Bijection(B, with)
  <2>1. ASSUME NEW S \in B
        PROVE  S \subseteq 1..(N - 1) /\ IsFiniteSet(S) /\ Cardinality(S) = n - 1 /\ N \notin S
    <3>1. S \in SUBSET (1..(k + (n - 1))) /\ Cardinality(S) = n - 1
      BY DEF Choices
    <3>2. IsFiniteSet(S)
      BY <1>1, <3>1, ChoicesAreFinite
    <3> QED BY <1>1, <3>1, <3>2
  <2>2. ASSUME NEW S \in B PROVE S \cup {N} \in with
    <3>1. S \subseteq 1..(N - 1) /\ IsFiniteSet(S) /\ Cardinality(S) = n - 1 /\ N \notin S
      BY <2>1
    <3>2. Cardinality(S \cup {N}) = n - 1 + 1
      BY <3>1, FS_AddElement
    <3>3. S \cup {N} \subseteq 1..N
      BY <1>1, <3>1
    <3> QED BY <3>2, <3>3 DEF Choices
  <2>3. ASSUME NEW S \in B, NEW U \in B, S \cup {N} = U \cup {N} PROVE S = U
    <3>1. N \notin S /\ N \notin U
      BY <2>1
    <3>2. S = (S \cup {N}) \ {N} /\ U = (U \cup {N}) \ {N}
      BY <3>1
    <3> QED BY <2>3, <3>2
  <2>4. ASSUME NEW U \in with PROVE \E S \in B : U = S \cup {N}
    <3>1. U \in SUBSET (1..N) /\ N \in U /\ Cardinality(U) = n
      BY DEF Choices
    <3>a. IsFiniteSet(U)
      BY <3>1, ChoicesAreFinite
    <3>2. Cardinality(U \ {N}) = n - 1
      BY <3>1, <3>a, FS_RemoveElement
    <3>3. U \ {N} \in SUBSET (1..(k + (n - 1)))
      BY <1>1, <3>1
    <3>4. U \ {N} \in B
      BY <3>2, <3>3 DEF Choices
    <3>5. U = (U \ {N}) \cup {N}
      BY <3>1
    <3> QED BY <3>4, <3>5
  <2>5. f \in [B -> with] /\ \A S \in B : f[S] = S \cup {N}
    BY <2>2
  <2> HIDE DEF f, B, with
  <2>6. f \in Injection(B, with)
    BY <2>3, <2>5 DEF Injection, IsInjective
  <2>7. f \in Surjection(B, with)
    BY <2>4, <2>5 DEF Surjection
  <2> QED BY <2>6, <2>7 DEF Bijection
<1>5. IsFiniteSet(with) /\ Cardinality(with) = Cardinality(B)
  BY <1>3, <1>4, FS_Bijection DEF ExistsBijection
<1>6. Choices(k, n) = A \cup with /\ A \cap with = {}
  BY <1>2
<1>7. Cardinality(Choices(k, n)) = Cardinality(A) + Cardinality(with) - 0
  BY <1>3, <1>5, <1>6, FS_Union, FS_EmptySet
<1>8. /\ Answers(k, n) = Cardinality(Choices(k, n)) - 1
      /\ Answers(k - 1, n) = Cardinality(A) - 1 /\ Answers(k, n - 1) = Cardinality(B) - 1
  BY <1>1, ChoicesAreFinite
<1> HIDE DEF A, B, with
<1> QED BY <1>3, <1>5, <1>7, <1>8

\* More requests or more attempts never mean fewer answers.
LEMMA AnswersGrow ==
  ASSUME NEW k \in Nat, NEW n \in Nat, NEW i \in 0..k, NEW j \in 0..n
  PROVE  Answers(i, j) <= Answers(k, n)
<1> DEFINE J == (k + j + 1)..(k + n)
           f == [S \in Choices(i, j) |-> S \cup J]
<1>1. i \in Nat /\ j \in Nat /\ i <= k /\ j <= n
  OBVIOUS
<1>2. IsFiniteSet(J) /\ Cardinality(J) = n - j
  <2>1. k + j + 1 \in Int /\ k + n \in Int
    BY <1>1
  <2>2. /\ IsFiniteSet(J)
        /\ Cardinality(J) = IF k + j + 1 > k + n THEN 0 ELSE k + n - (k + j + 1) + 1
    BY <2>1, FS_Interval
  <2> QED BY <1>1, <2>2
<1>3. ASSUME NEW S \in Choices(i, j)
      PROVE  S \cup J \in Choices(k, n) /\ S = (S \cup J) \ J
  <2>a. S \in SUBSET (1..(i + j)) /\ Cardinality(S) = j
    BY DEF Choices
  <2>1. S \subseteq 1..(i + j) /\ IsFiniteSet(S) /\ Cardinality(S) = j
    BY <1>1, <2>a, ChoicesAreFinite
  <2>2. S \cap J = {} /\ S \cup J \subseteq 1..(k + n)
    BY <1>1, <2>1
  <2>b. Cardinality(S \cup J) = Cardinality(S) + Cardinality(J) - Cardinality(S \cap J)
    BY <1>2, <2>1, FS_Union
  <2>c. Cardinality(S \cap J) = 0
    BY <2>2, FS_EmptySet
  <2>3. Cardinality(S \cup J) = n
    BY <1>1, <1>2, <2>1, <2>b, <2>c
  <2> QED BY <2>2, <2>3 DEF Choices
<1>4. f \in Injection(Choices(i, j), Choices(k, n))
  <2>1. f \in [Choices(i, j) -> Choices(k, n)]
    BY <1>3
  <2>2. ASSUME NEW S \in Choices(i, j), NEW U \in Choices(i, j), f[S] = f[U] PROVE S = U
    <3>1. S \cup J = U \cup J
      BY <2>2
    <3> QED BY <1>3, <3>1
  <2> HIDE DEF f
  <2> QED BY <2>1, <2>2 DEF Injection, IsInjective
<1>5. /\ IsFiniteSet(Choices(k, n)) /\ Cardinality(Choices(k, n)) \in Nat
      /\ Answers(k, n) = Cardinality(Choices(k, n)) - 1
      /\ Answers(i, j) = Cardinality(Choices(i, j)) - 1 /\ Cardinality(Choices(i, j)) \in Nat
  BY <1>1, ChoicesAreFinite
<1>6. Cardinality(Choices(i, j)) <= Cardinality(Choices(k, n))
  BY <1>4, <1>5, FS_Injection
<1> QED BY <1>5, <1>6

-----------------------------------------------------------------------------
(* Room for answers *)

LEMMA LeastNat ==
  ASSUME NEW T \in SUBSET Nat, NEW t \in T
  PROVE  \E x \in T : \A y \in T : x <= y
<1> DEFINE F == {0..x : x \in T}
<1>1. F \subseteq FiniteSubsetsOf(Nat) /\ F # {}
  <2>1. \A x \in T : IsFiniteSet(0..x) /\ 0..x \in SUBSET Nat
    BY FS_Interval
  <2> QED BY <2>1 DEF FiniteSubsetsOf
<1>2. PICK I \in F : \A J \in F : <<J, I>> \notin StrictSubsetOrdering(Nat)
  BY <1>1, WFMin, FS_StrictSubsetOrderingWellFounded
<1>3. PICK x \in T : I = 0..x
  OBVIOUS
<1>4. ASSUME NEW y \in T, y < x PROVE FALSE
  <2>1. 0..y \in F /\ 0..y \subseteq 0..x /\ x \notin 0..y /\ x \in 0..x
    BY <1>4
  <2>2. <<0..y, 0..x>> \in StrictSubsetOrdering(Nat)
    BY <2>1 DEF StrictSubsetOrdering
  <2> QED BY <1>2, <1>3, <2>1, <2>2
<1> QED BY <1>4

K == Cardinality(Procs)

LEMMA ProcsAreFinite ==
  /\ IsFiniteSet(Procs) /\ K \in Nat /\ MaxAttempts \in Nat \ {0} /\ Total = Answers(K, MaxAttempts)
  /\ \A S \in SUBSET Procs : IsFiniteSet(S) /\ Cardinality(S) \in 0..K
<1>1. IsFiniteSet(Procs) /\ K \in Nat /\ MaxAttempts \in Nat \ {0}
  BY ConstAssumption, FS_CardinalityType DEF K
<1>2. ASSUME NEW S \in SUBSET Procs PROVE IsFiniteSet(S) /\ Cardinality(S) \in 0..K
  <2>1. IsFiniteSet(S) /\ Cardinality(S) <= K /\ Cardinality(S) \in Nat
    BY <1>1, FS_Subset, FS_CardinalityType DEF K
  <2> QED BY <1>1, <2>1
<1> QED BY <1>1, <1>2 DEF Total, K

\* What counts of levels are.
Falling(m) == /\ m \in [0..MaxAttempts -> 0..K]
              /\ \A l \in 0..MaxAttempts, j \in 0..MaxAttempts : l <= j => m[j] <= m[l]

LEMMA CountsFall ==
  ASSUME NEW e \in [Procs -> 0..MaxAttempts]
  PROVE  /\ Falling(Counts(e)) /\ Counts(e)[0] = K
         /\ \A l \in 0..MaxAttempts : Counts(e)[l] = Cardinality({q \in Procs : e[q] >= l})
<1>1. \A l \in 0..MaxAttempts : Counts(e)[l] = Cardinality({q \in Procs : e[q] >= l})
  BY DEF Counts
<1>2. Counts(e) \in [0..MaxAttempts -> 0..K]
  BY ProcsAreFinite DEF Counts
<1>3. ASSUME NEW l \in 0..MaxAttempts, NEW j \in 0..MaxAttempts, l <= j
      PROVE  Counts(e)[j] <= Counts(e)[l]
  <2>1. \A q \in Procs : e[q] \in Int
    BY ProcsAreFinite
  <2> DEFINE high == {q \in Procs : e[q] >= j}
             low  == {q \in Procs : e[q] >= l}
  <2>2. high \in SUBSET low
    BY <1>3, <2>1
  <2>3. IsFiniteSet(low)
    BY ProcsAreFinite
  <2>4. Counts(e)[j] = Cardinality(high) /\ Counts(e)[l] = Cardinality(low)
    BY <1>1
  <2> HIDE DEF high, low
  <2> QED BY <2>2, <2>3, <2>4, FS_Subset
<1>4. Counts(e)[0] = K
  <2>1. {q \in Procs : e[q] >= 0} = Procs
    BY ProcsAreFinite
  <2>2. 0 \in 0..MaxAttempts
    BY ProcsAreFinite
  <2> QED BY <1>1, <2>1, <2>2 DEF K
<1> QED BY <1>1, <1>2, <1>3, <1>4 DEF Falling

\* An answer given at a level leaves room for one less there.
LEMMA Pivot ==
  ASSUME NEW c \in Nat, NEW d \in Nat, NEW g \in Nat, d < g, g <= c, NEW n \in Nat \ {0},
         NEW r \in Nat, NEW s \in Nat, r >= s + Answers(c, n) - Answers(d, n)
  PROVE  /\ r - 1 \in Nat /\ r - 1 >= Answers(g, n - 1)
         /\ r - 1 >= Answers(g, n - 1) + Answers(c, n) - Answers(g, n)
<1>1. g \in Nat \ {0} /\ g - 1 \in Nat /\ n - 1 \in Nat /\ n \in Nat
      /\ d \in 0..(g - 1) /\ g \in 0..c /\ n \in 0..n
  OBVIOUS
<1>2. Answers(g, n) = Answers(g - 1, n) + Answers(g, n - 1) + 1
  BY <1>1, AnswersRise
<1>3. Answers(d, n) <= Answers(g - 1, n) /\ Answers(g, n) <= Answers(c, n)
  BY <1>1, AnswersGrow
<1>4. /\ Answers(c, n) \in Nat /\ Answers(d, n) \in Nat /\ Answers(g, n) \in Nat
      /\ Answers(g - 1, n) \in Nat /\ Answers(g, n - 1) \in Nat
  BY <1>1, AnswersType
<1> QED BY <1>2, <1>3, <1>4

\* Room for all that so many requests can give is always enough.
Most(m) == [l \in 0..MaxAttempts |-> Answers(m[l], MaxAttempts - l)]

LEMMA MostIsRoom ==
  ASSUME NEW m, Falling(m)
  PROVE  Most(m) \in [0..MaxAttempts -> Nat] /\ RoomBy(m, Most(m))
<1> DEFINE M == Most(m)
           T == MaxAttempts
<1>0. T \in Nat \ {0} /\ K \in Nat
  BY ProcsAreFinite
<1>1. ASSUME NEW l \in 0..T, NEW j \in 0..T, l <= j
      PROVE  /\ m[l] \in Nat /\ T - l \in Nat /\ T - j \in 0..(T - l) /\ m[j] \in 0..m[l]
             /\ m[j] \in Nat /\ T - j \in Nat
  BY <1>0, <1>1 DEF Falling
<1>2. ASSUME NEW l \in 0..T PROVE M[l] = Answers(m[l], T - l) /\ M[l] \in Nat
  <2>1. m[l] \in Nat /\ T - l \in Nat
    BY <1>0, <1>1
  <2> QED BY <2>1, AnswersType DEF Most
<1>3. M \in [0..T -> Nat]
  BY <1>2 DEF Most
<1>4. ASSUME NEW l \in 0..T, NEW j \in 0..T, l <= j PROVE M[j] <= M[l]
  BY <1>1, <1>2, <1>4, AnswersGrow
<1>5. ASSUME NEW l \in 0..(T - 1)
      PROVE  M[l] >= M[l + 1] + Answers(m[l], T - l) - Answers(m[l + 1], T - l)
  <2>1. l \in 0..T /\ l + 1 \in 0..T /\ l <= l + 1
    BY <1>0
  <2>2. m[l + 1] \in Nat /\ T - l \in Nat /\ T - (l + 1) \in 0..(T - l)
        /\ m[l + 1] \in 0..m[l + 1]
    BY <1>0, <1>1, <2>1
  <2>a. Answers(m[l + 1], T - (l + 1)) <= Answers(m[l + 1], T - l)
    BY <2>2, AnswersGrow
  <2>b. Answers(m[l + 1], T - l) \in Nat
    BY <2>2, AnswersType
  <2>3. M[l + 1] <= Answers(m[l + 1], T - l) /\ Answers(m[l + 1], T - l) \in Nat
    BY <1>2, <2>1, <2>a, <2>b
  <2>4. M[l] = Answers(m[l], T - l) /\ M[l] \in Nat /\ M[l + 1] \in Nat
    BY <1>2, <2>1
  <2> HIDE DEF M
  <2> QED BY <2>3, <2>4
<1> HIDE DEF M
<1>6. RoomBy(m, M)
  BY <1>4, <1>5 DEF RoomBy
<1> QED BY <1>3, <1>6 DEF M

\* One less stays a number, above a number that does.
LEMMA OneLess ==
  ASSUME NEW a \in Nat, NEW b \in Nat, a - 1 \in Nat, b >= a
  PROVE  b - 1 \in Nat
OBVIOUS

\* Two chains of bounds.
LEMMA OneBelow ==
  ASSUME NEW a \in Nat, NEW b \in Nat, NEW c \in Nat, NEW d \in Nat,
         a <= b, c - 1 >= b, d >= c
  PROVE  a <= d - 1
OBVIOUS

LEMMA BothLess ==
  ASSUME NEW a \in Int, NEW b \in Int, NEW c \in Int, NEW d \in Int, a >= b + c - d
  PROVE  a - 1 >= b - 1 + c - d
OBVIOUS

\* Where more requests are at a level, and as many at the lower ones, an answer
\* less is to come.
LEMMA RoomFrom ==
  ASSUME NEW m, NEW m2, Falling(m), Falling(m2), NEW l0 \in 0..(MaxAttempts - 1),
         \A l \in 0..l0 : m2[l] = m[l], m2[l0 + 1] > m[l0 + 1], NEW n \in Int, Room(m, n)
  PROVE  Room(m2, n - 1)
<1> DEFINE T == MaxAttempts
<1>0. /\ T \in Nat \ {0} /\ K \in Nat /\ l0 \in 0..T /\ l0 + 1 \in 0..T
      /\ T - l0 \in Nat \ {0} /\ l0 \in Nat
  BY ProcsAreFinite
<1>1. PICK R \in [0..T -> Nat] : RoomBy(m, R) /\ R[0] <= n
  BY DEF Room
<1>2. PICK A \in [0..T -> Nat] : A = Most(m2) /\ RoomBy(m2, A)
  BY MostIsRoom
<1>3. \A l \in 0..T : m[l] \in Nat /\ m2[l] \in Nat
  BY <1>0 DEF Falling
<1>4. /\ R[l0] - 1 \in Nat /\ R[l0] - 1 >= A[l0 + 1]
      /\ R[l0] - 1 >= A[l0 + 1] + Answers(m2[l0], T - l0) - Answers(m2[l0 + 1], T - l0)
  <2>1. m2[l0 + 1] <= m[l0]
    BY <1>0 DEF Falling
  <2>2. R[l0] >= R[l0 + 1] + Answers(m[l0], T - l0) - Answers(m[l0 + 1], T - l0)
    BY <1>1 DEF RoomBy
  <2>3. m[l0 + 1] < m2[l0 + 1] /\ m2[l0] = m[l0]
    BY <1>0, <1>3
  <2>4. /\ m[l0] \in Nat /\ m[l0 + 1] \in Nat /\ m2[l0 + 1] \in Nat
        /\ R[l0] \in Nat /\ R[l0 + 1] \in Nat
    BY <1>0, <1>3
  <2>5. /\ R[l0] - 1 \in Nat /\ R[l0] - 1 >= Answers(m2[l0 + 1], T - l0 - 1)
        /\ R[l0] - 1 >= Answers(m2[l0 + 1], T - l0 - 1)
                          + Answers(m[l0], T - l0) - Answers(m2[l0 + 1], T - l0)
    BY <1>0, <2>1, <2>2, <2>3, <2>4, Pivot
  <2>6. A[l0 + 1] = Answers(m2[l0 + 1], T - l0 - 1)
    <3>1. T - (l0 + 1) = T - l0 - 1
      BY <1>0
    <3> QED BY <1>0, <1>2, <3>1 DEF Most
  <2> QED BY <2>3, <2>5, <2>6
<1>a. R[l0] - 1 \in Nat /\ R[l0] - 1 >= A[l0 + 1]
  BY <1>4
<1>5. ASSUME NEW l \in 0..T, l <= l0 PROVE R[l] >= R[l0] /\ R[l] \in Nat /\ R[l0] \in Nat
  BY <1>0, <1>1, <1>5 DEF RoomBy
<1> DEFINE S == [l \in 0..T |-> IF l <= l0 THEN R[l] - 1 ELSE A[l]]
<1>6. ASSUME NEW l \in 0..T
      PROVE  /\ l <= l0 => S[l] = R[l] - 1
             /\ l > l0 => S[l] = A[l]
             /\ S[l] \in Nat /\ l \in Nat
  <2>1. CASE l <= l0
    <3>1. R[l] >= R[l0] /\ R[l] \in Nat /\ R[l0] \in Nat
      BY <1>5, <2>1
    <3>2. R[l] - 1 \in Nat
      BY <1>a, <3>1, OneLess, Zenon
    <3> QED BY <1>0, <2>1, <3>2
  <2>2. CASE l > l0
    <3>1. A[l] \in Nat
      OBVIOUS
    <3> QED BY <1>0, <2>2, <3>1
  <2> QED BY <1>0, <2>1, <2>2
<1>7. S \in [0..T -> Nat]
  BY <1>6
<1>8. S[0] <= n - 1
  BY <1>0, <1>1, <1>6
<1> HIDE DEF S
<1>9. ASSUME NEW l \in 0..T, NEW j \in 0..T, l <= j PROVE S[j] <= S[l]
  <2>1. CASE j <= l0
    <3>1. R[j] <= R[l] /\ R[j] \in Nat /\ R[l] \in Nat
      BY <1>1, <1>9 DEF RoomBy
    <3>2. S[j] = R[j] - 1 /\ S[l] = R[l] - 1
      BY <1>0, <1>6, <1>9, <2>1
    <3> QED BY <3>1, <3>2
  <2>2. CASE l <= l0 /\ j > l0
    <3>1. A[j] <= A[l0 + 1] /\ A[j] \in Nat /\ A[l0 + 1] \in Nat
      BY <1>0, <1>2, <2>2 DEF RoomBy
    <3>2. R[l] >= R[l0] /\ R[l] \in Nat /\ R[l0] \in Nat
      BY <1>5, <2>2
    <3>3. S[j] = A[j] /\ S[l] = R[l] - 1
      BY <1>6, <2>2
    <3>4. R[l0] - 1 >= A[l0 + 1]
      BY <1>a
    <3>6. A[j] <= R[l] - 1
      BY <3>1, <3>2, <3>4, OneBelow, Zenon
    <3> QED BY <3>3, <3>6
  <2>3. CASE l > l0
    <3>1. A[j] <= A[l]
      BY <1>2, <1>9 DEF RoomBy
    <3>2. j > l0
      BY <1>0, <1>9, <2>3
    <3>3. S[j] = A[j] /\ S[l] = A[l]
      BY <1>6, <2>3, <3>2
    <3> QED BY <3>1, <3>3
  <2> QED BY <1>0, <2>1, <2>2, <2>3
<1>10. ASSUME NEW l \in 0..(T - 1)
       PROVE  S[l] >= S[l + 1] + Answers(m2[l], T - l) - Answers(m2[l + 1], T - l)
  <2>0. l \in 0..T /\ l + 1 \in 0..T /\ l \in Nat
    BY <1>0
  <2>1. /\ Answers(m2[l], T - l) \in Int /\ Answers(m2[l + 1], T - l) \in Int
        /\ R[l] \in Int /\ R[l + 1] \in Int /\ A[l] \in Int /\ A[l + 1] \in Int
    <3>1. m2[l] \in Nat /\ m2[l + 1] \in Nat /\ T - l \in Nat
      BY <1>0, <1>3, <2>0
    <3>2. Answers(m2[l], T - l) \in Nat /\ Answers(m2[l + 1], T - l) \in Nat
      BY <3>1, AnswersType
    <3> QED BY <2>0, <3>2
  <2>2. CASE l < l0
    <3>1. S[l] = R[l] - 1 /\ S[l + 1] = R[l + 1] - 1
      BY <1>0, <1>6, <2>0, <2>2
    <3>2. R[l] >= R[l + 1] + Answers(m[l], T - l) - Answers(m[l + 1], T - l)
      BY <1>1 DEF RoomBy
    <3>3. m2[l] = m[l] /\ m2[l + 1] = m[l + 1]
      BY <1>0, <2>0, <2>2
    <3>4. /\ R[l] - 1 >= R[l + 1] - 1 + Answers(m[l], T - l) - Answers(m[l + 1], T - l)
          /\ Answers(m2[l], T - l) = Answers(m[l], T - l)
          /\ Answers(m2[l + 1], T - l) = Answers(m[l + 1], T - l)
      <4>1. /\ Answers(m2[l], T - l) = Answers(m[l], T - l)
            /\ Answers(m2[l + 1], T - l) = Answers(m[l + 1], T - l)
        BY <3>3
      <4>2. Answers(m[l], T - l) \in Int /\ Answers(m[l + 1], T - l) \in Int
        BY <2>1, <4>1, Zenon
      <4>3. R[l] - 1 >= R[l + 1] - 1 + Answers(m[l], T - l) - Answers(m[l + 1], T - l)
        BY <2>1, <3>2, <4>2, BothLess, Zenon
      <4> QED BY <4>1, <4>3, Zenon
    <3> QED BY <3>1, <3>4
  <2>3. CASE l = l0
    <3>1. S[l] = R[l0] - 1 /\ S[l + 1] = A[l0 + 1]
      BY <1>0, <1>6, <2>0, <2>3
    <3> QED BY <1>4, <2>3, <3>1
  <2>4. CASE l > l0
    <3>1. S[l] = A[l] /\ S[l + 1] = A[l + 1]
      BY <1>0, <1>6, <2>0, <2>4
    <3> QED BY <1>2, <3>1 DEF RoomBy
  <2> QED BY <1>0, <2>0, <2>2, <2>3, <2>4
<1>11. RoomBy(m2, S)
  BY <1>9, <1>10 DEF RoomBy
<1> QED BY <1>7, <1>8, <1>11 DEF Room

LEMMA RoomEases ==
  ASSUME NEW m, NEW n \in Int, NEW i \in Int, n <= i, Room(m, n)
  PROVE  Room(m, i) /\ i >= 0
<1>1. PICK R \in [0..MaxAttempts -> Nat] : RoomBy(m, R) /\ R[0] <= n
  BY DEF Room
<1>2. R[0] \in Nat
  BY ProcsAreFinite
<1>3. R[0] <= i /\ i >= 0
  BY <1>1, <1>2
<1> QED BY <1>1, <1>3 DEF Room

\* There is room for all answers at first.
LEMMA RoomAtFirst ==
  ASSUME NEW e \in [Procs -> 0..MaxAttempts]
  PROVE  Room(Counts(e), Total)
<1>1. Falling(Counts(e)) /\ Counts(e)[0] = K /\ 0 \in 0..MaxAttempts /\ MaxAttempts \in Nat
  BY CountsFall, ProcsAreFinite
<1>2. Most(Counts(e)) \in [0..MaxAttempts -> Nat] /\ RoomBy(Counts(e), Most(Counts(e)))
  BY <1>1, MostIsRoom
<1>3. Most(Counts(e))[0] = Answers(K, MaxAttempts - 0) /\ MaxAttempts - 0 = MaxAttempts
  BY <1>1 DEF Most
<1>4. Most(Counts(e))[0] = Total /\ Total \in Nat
  BY <1>2, <1>3, <1>1, ProcsAreFinite
<1>5. Most(Counts(e))[0] <= Total
  BY <1>4
<1> QED BY <1>2, <1>5 DEF Room

\* Levels that only rise leave room enough.
LEMMA RoomRises ==
  ASSUME NEW e \in [Procs -> 0..MaxAttempts], NEW e2 \in [Procs -> 0..MaxAttempts],
         \A q \in Procs : e2[q] >= e[q], NEW n \in Int, Room(Counts(e), n)
  PROVE  Room(Counts(e2), n)
<1> DEFINE m  == Counts(e)
           m2 == Counts(e2)
           D  == {l \in 0..MaxAttempts : m2[l] # m[l]}
<1>0. /\ Falling(m) /\ Falling(m2) /\ m[0] = m2[0] /\ MaxAttempts \in Nat \ {0} /\ K \in Nat
      /\ \A q \in Procs : e[q] \in Int /\ e2[q] \in Int
  BY CountsFall, ProcsAreFinite
<1>1. ASSUME NEW l \in 0..MaxAttempts PROVE m2[l] >= m[l] /\ m[l] \in Nat /\ m2[l] \in Nat
  <2> DEFINE X == {q \in Procs : e[q] >= l}
             Y == {q \in Procs : e2[q] >= l}
  <2>1. X \in SUBSET Y /\ IsFiniteSet(Y)
    <3>1. X \in SUBSET Y
      BY <1>0
    <3> QED BY <3>1, ProcsAreFinite
  <2>2. m[l] = Cardinality(X) /\ m2[l] = Cardinality(Y)
    BY CountsFall
  <2>3. m[l] \in Nat /\ m2[l] \in Nat
    BY <1>0 DEF Falling
  <2> HIDE DEF X, Y
  <2>4. Cardinality(X) <= Cardinality(Y)
    BY <2>1, FS_Subset
  <2> QED BY <2>2, <2>3, <2>4
<1>2. CASE D = {}
  <2>1. m2 = m
    <3>1. \A l \in 0..MaxAttempts : m2[l] = m[l]
      BY <1>2
    <3> QED BY <3>1 DEF Counts
  <2> QED BY <2>1
<1>3. CASE D # {}
  <2>1. D \in SUBSET Nat
    BY <1>0
  <2> HIDE DEF D
  <2>2. PICK d \in D : \A y \in D : d <= y
    BY <1>3, <2>1, LeastNat
  <2> USE DEF D
  <2>3. d \in 0..MaxAttempts /\ m2[d] > m[d] /\ d # 0
    BY <1>0, <1>1, <2>2
  <2>4. \A l \in 0..(d - 1) : m2[l] = m[l]
    BY <1>0, <2>2, <2>3
  <2>5. d - 1 \in 0..(MaxAttempts - 1) /\ (d - 1) + 1 = d /\ n - 1 \in Int /\ n - 1 <= n
    BY <1>0, <2>3
  <2> HIDE DEF D, m, m2
  <2>6. Room(m2, n - 1)
    <3>1. Room(m, n)
      BY DEF m
    <3> QED BY <1>0, <2>3, <2>4, <2>5, <3>1, RoomFrom
  <2>7. Room(m2, n)
    BY <2>5, <2>6, RoomEases
  <2> QED BY <2>7 DEF m2
<1> QED BY <1>2, <1>3

\* p answers: it rises, and what else falls stays above where p was.
LEMMA RoomUsed ==
  ASSUME NEW e \in [Procs -> 0..MaxAttempts], NEW e2 \in [Procs -> 0..MaxAttempts],
         NEW p \in Procs, e2[p] > e[p],
         \A q \in Procs : e2[q] >= e[q] \/ e2[q] > e[p],
         \A q \in Procs : e[q] < e[p] => e2[q] = e[q],
         NEW n \in Int, Room(Counts(e), n)
  PROVE  Room(Counts(e2), n - 1)
<1> DEFINE m  == Counts(e)
           m2 == Counts(e2)
           l0 == e[p]
<1>0. /\ Falling(m) /\ Falling(m2) /\ MaxAttempts \in Nat \ {0} /\ K \in Nat
      /\ \A q \in Procs : e[q] \in Int /\ e2[q] \in Int
  BY CountsFall, ProcsAreFinite
<1>1. l0 \in 0..(MaxAttempts - 1) /\ l0 + 1 \in 0..MaxAttempts
  BY <1>0
<1>2. ASSUME NEW l \in 0..l0 PROVE m2[l] = m[l]
  <2>1. ASSUME NEW q \in Procs PROVE e2[q] >= l <=> e[q] >= l
    <3>1. CASE e[q] < l0
      BY <3>1
    <3>2. CASE e[q] >= l0
      BY <1>0, <1>1, <3>2
    <3> QED BY <1>0, <3>1, <3>2
  <2>2. {q \in Procs : e2[q] >= l} = {q \in Procs : e[q] >= l}
    BY <2>1
  <2>3. l \in 0..MaxAttempts
    BY <1>0, <1>1
  <2> QED BY <2>2, <2>3, CountsFall
<1>3. m2[l0 + 1] > m[l0 + 1]
  <2> DEFINE X == {q \in Procs : e[q] >= l0 + 1}
             Y == {q \in Procs : e2[q] >= l0 + 1}
  <2>1. p \notin X /\ X \cup {p} \in SUBSET Y
    <3>1. ASSUME NEW q \in X PROVE q \in Y
      BY <1>0
    <3> QED BY <1>0, <3>1
  <2>2. IsFiniteSet(X) /\ IsFiniteSet(Y) /\ Cardinality(X) \in Nat /\ Cardinality(Y) \in Nat
    <3>1. X \in SUBSET Procs /\ Y \in SUBSET Procs
      OBVIOUS
    <3> HIDE DEF X, Y
    <3> QED BY <1>0, <3>1, ProcsAreFinite
  <2>3. m[l0 + 1] = Cardinality(X) /\ m2[l0 + 1] = Cardinality(Y)
    BY <1>1, CountsFall
  <2> HIDE DEF X, Y
  <2>4. Cardinality(X \cup {p}) = Cardinality(X) + 1
    BY <2>1, <2>2, FS_AddElement
  <2>5. Cardinality(X \cup {p}) <= Cardinality(Y)
    BY <2>1, <2>2, FS_Subset
  <2> QED BY <2>2, <2>3, <2>4, <2>5
<1>4. Room(m, n)
  OBVIOUS
<1> HIDE DEF m, m2, l0
<1>5. Room(m2, n - 1)
  BY <1>0, <1>1, <1>2, <1>3, <1>4, RoomFrom
<1> QED BY <1>5 DEF m2

-----------------------------------------------------------------------------
(* Where each step leaves the requests *)

Base == TypeOK /\ (\A p \in Procs : RequestInv(p)) /\ CodeInv

\* p is at l now, holds the record s and the count w, admitted at a.
Moved(p, l, s, w, a) ==
  /\ req' \in [Procs -> Request] /\ \A q \in Procs : q # p => req'[q] = req[q]
  /\ req'[p].pc = l /\ req'[p].seen = s /\ req'[p].sends = w /\ req'[p].at = a

LEMMA RecordsAre ==
  /\ NoRec \in Record /\ NoRec.code = 0 /\ NoRec.attempts = 0 /\ NoRec.expiresAt = 0
  /\ NoSends \in Window /\ NoSends.count = 0 /\ NoSends.resetAt = 0
  /\ MaxCodes \in Nat /\ Watched \in 1..MaxCodes /\ Watched \in Codes /\ Codes \in SUBSET Nat
  /\ Watched # 0 /\ MaxAttempts \in Nat \ {0} /\ MaxSends \in Nat \ {0} /\ CodeTTL \in Nat \ {0}
  /\ Cooldown \in Nat \ {0} /\ Hour \in Nat \ {0} /\ MaxTime \in Nat \ {0}
BY ConstAssumption DEF NoRec, Record, NoSends, Window, Codes

LEMMA RequestsAre ==
  ASSUME TypeOK
  PROVE  /\ \A p \in Procs : /\ req[p] \in Request /\ req[p].seen \in Record
                             /\ req[p].seen.code \in 0..MaxCodes /\ req[p].seen.attempts \in Nat
                             /\ req[p].sends \in Window /\ req[p].at \in Nat
         /\ now \in Nat /\ rec \in Record /\ rec.code \in 0..MaxCodes /\ rec.attempts \in Nat
         /\ sends \in Window /\ sends.count \in Nat /\ sends.resetAt \in Nat
         /\ \A c \in Codes : sentAt[c] \in 0..MaxTime
BY DEF TypeOK, Request, Record, Window

LEMMA Finishes ==
  ASSUME TypeOK, NEW p \in Procs, Finish(p)
  PROVE  Moved(p, "idle", NoRec, NoSends, 0)
<1>1. Idle \in Request /\ Idle.pc = "idle" /\ Idle.seen = NoRec /\ Idle.sends = NoSends /\ Idle.at = 0
  BY RecordsAre DEF Idle, Request
<1>2. req' = [req EXCEPT ![p] = Idle]
  BY DEF Finish
<1>3. req' \in [Procs -> Request] /\ req'[p] = Idle /\ \A q \in Procs : q # p => req'[q] = req[q]
  BY <1>1, <1>2 DEF TypeOK
<1> QED BY <1>1, <1>3 DEF Moved

\* Which steps end in an idle request.
Ends(p) == \/ \E c \in Codes : Put(p, c)
           \/ Lapse(p) \/ Win(p) \/ Burn(p) \/ WriteBack(p) \/ Crash(p)

LEMMA Moves ==
  ASSUME TypeOK, NEW p \in Procs
  PROVE  /\ Admit(p) => Moved(p, "count", req[p].seen, req[p].sends, req[p].at)
         /\ ReadCount(p) => \/ Moved(p, "idle", NoRec, NoSends, 0) /\ UNCHANGED overlap
                            \/ /\ NextSends.count <= MaxSends
                               /\ Moved(p, "bump", NoRec, NextSends, now)
                               /\ overlap' = (overlap \/ \E q \in Procs : At(q, "bump"))
         /\ WriteCount(p) => Moved(p, "put", req[p].seen, NoSends, req[p].at)
         /\ \A right \in BOOLEAN : Verify(p, right) => Moved(p, Verdict(right), rec, NoSends, 0)
         /\ Ends(p) => Moved(p, "idle", NoRec, NoSends, 0)
         /\ NextSends \in Window
<1>0. req[p] \in Request /\ req \in [Procs -> Request]
  BY DEF TypeOK
<1>1. ASSUME Admit(p) PROVE Moved(p, "count", req[p].seen, req[p].sends, req[p].at)
  <2> DEFINE r == [req[p] EXCEPT !.pc = "count"]
  <2>1. r \in Request /\ r.pc = "count" /\ r.seen = req[p].seen /\ r.sends = req[p].sends
        /\ r.at = req[p].at
    BY <1>0 DEF Request
  <2>2. req' = [req EXCEPT ![p] = r]
    BY <1>1 DEF Admit
  <2> HIDE DEF r
  <2> QED BY <1>0, <2>1, <2>2 DEF Moved
<1>2. NextSends \in Window
  BY RecordsAre, RequestsAre DEF NextSends, Window
<1>3. ASSUME ReadCount(p)
      PROVE  \/ Moved(p, "idle", NoRec, NoSends, 0) /\ UNCHANGED overlap
             \/ /\ NextSends.count <= MaxSends
                /\ Moved(p, "bump", NoRec, NextSends, now)
                /\ overlap' = (overlap \/ \E q \in Procs : At(q, "bump"))
  <2> DEFINE r == [Idle EXCEPT !.pc = "bump", !.sends = NextSends, !.at = now]
  <2>1. CASE NextSends.count > MaxSends
    BY <1>3, <2>1, Finishes DEF ReadCount
  <2>2. CASE ~(NextSends.count > MaxSends)
    <3>1. r \in Request /\ r.pc = "bump" /\ r.seen = NoRec /\ r.sends = NextSends /\ r.at = now
      BY <1>2, RecordsAre, RequestsAre DEF Request, Idle
    <3>2. /\ req' = [req EXCEPT ![p] = r]
          /\ overlap' = (overlap \/ \E q \in Procs : At(q, "bump"))
      BY <1>3, <2>2 DEF ReadCount
    <3> HIDE DEF r
    <3>3. Moved(p, "bump", NoRec, NextSends, now)
      BY <1>0, <3>1, <3>2 DEF Moved
    <3>4. NextSends.count <= MaxSends
      BY <1>2, <2>2, RecordsAre DEF Window
    <3> QED BY <3>2, <3>3, <3>4
  <2> QED BY <2>1, <2>2
<1>4. ASSUME WriteCount(p) PROVE Moved(p, "put", req[p].seen, NoSends, req[p].at)
  <2> DEFINE r == [req[p] EXCEPT !.pc = "put", !.sends = NoSends]
  <2>1. r \in Request /\ r.pc = "put" /\ r.seen = req[p].seen /\ r.sends = NoSends
        /\ r.at = req[p].at
    BY <1>0, RecordsAre DEF Request
  <2>2. req' = [req EXCEPT ![p] = r]
    BY <1>4 DEF WriteCount
  <2> HIDE DEF r
  <2> QED BY <1>0, <2>1, <2>2 DEF Moved
<1>5. ASSUME NEW right \in BOOLEAN, Verify(p, right)
      PROVE  Moved(p, Verdict(right), rec, NoSends, 0)
  <2> DEFINE r == [Idle EXCEPT !.pc = Verdict(right), !.seen = rec]
  <2>0. Verdict(right) \in {"lapse", "win", "burn", "back"}
    BY DEF Verdict
  <2>1. r \in Request /\ r.pc = Verdict(right) /\ r.seen = rec /\ r.sends = NoSends /\ r.at = 0
    BY <2>0, RecordsAre, RequestsAre DEF Request, Idle
  <2>2. req' = [req EXCEPT ![p] = r]
    BY <1>5 DEF Verify
  <2> HIDE DEF r
  <2> QED BY <1>0, <2>1, <2>2 DEF Moved
<1>6. Ends(p) => Finish(p)
  BY DEF Ends, Put, Lapse, Win, Burn, WriteBack, Crash, Delete
<1> QED BY <1>1, <1>2, <1>3, <1>4, <1>5, <1>6, Finishes

-----------------------------------------------------------------------------
(* The types, what requests have read, and the order of the codes *)

LEMMA RequestsKeep ==
  ASSUME Base, NEW p \in Procs, NEW l, NEW s, NEW w, NEW a, Moved(p, l, s, w, a),
         now' = now, \A c \in Codes : sentAt[c] # 0 => sentAt'[c] # 0,
         l \in {"idle", "count", "bump", "put"} => s = NoRec,
         l \in {"lapse", "win", "burn", "back"} => s.code # 0,
         s.attempts < MaxAttempts, l = "back" => s.attempts + 1 < MaxAttempts,
         l \in {"bump", "put"} => a \in 1..now,
         s.code # 0 => sentAt'[s.code] # 0
  PROVE  \A q \in Procs : RequestInv(q)'
<1>1. RequestInv(p)'
  BY DEF RequestInv, Moved, At
<1>2. ASSUME NEW q \in Procs, q # p PROVE RequestInv(q)'
  <2>1. req'[q] = req[q] /\ RequestInv(q)
    BY <1>2 DEF Moved, Base
  <2>2. req[q].seen.code # 0 => sentAt'[req[q].seen.code] # 0
    <3>1. req[q].seen.code # 0 => req[q].seen.code \in Codes
      BY RequestsAre, RecordsAre DEF Base, Codes
    <3> QED BY <2>1, <3>1 DEF RequestInv
  <2> QED BY <2>1, <2>2 DEF RequestInv, At
<1> QED BY <1>1, <1>2

LEMMA BaseAdmit ==
  ASSUME Base, NEW p \in Procs, Admit(p) \/ ReadCount(p) \/ WriteCount(p)
  PROVE  Base'
<1>0. TypeOK /\ RequestInv(p) /\ CodeInv /\ now \in 1..MaxTime
  BY DEF Base, TypeOK
<1>1. /\ UNCHANGED <<rec, now, sentAt, tries, wins, early, revived>>
  BY DEF Admit, ReadCount, WriteCount, Ledger
<1>2. CASE Admit(p)
  <2>1. Moved(p, "count", req[p].seen, req[p].sends, req[p].at)
    BY <1>0, <1>2, Moves
  <2>2. req[p].seen = NoRec /\ cooling' = now + Cooldown /\ UNCHANGED <<sends, overlap>>
    BY <1>0, <1>2 DEF Admit, RequestInv, At
  <2>3. \A q \in Procs : RequestInv(q)'
    BY <1>1, <2>1, <2>2, RequestsKeep, RecordsAre
  <2>4. TypeOK'
    BY <1>0, <1>1, <2>1, <2>2, RecordsAre, RequestsAre DEF TypeOK, Moved
  <2> QED BY <1>0, <1>1, <2>3, <2>4 DEF Base, CodeInv
<1>3. CASE ReadCount(p)
  <2>1. UNCHANGED <<cooling, sends>>
    BY <1>3 DEF ReadCount
  <2>2. CASE Moved(p, "idle", NoRec, NoSends, 0) /\ UNCHANGED overlap
    <3>1. \A q \in Procs : RequestInv(q)'
      BY <1>1, <2>2, RequestsKeep, RecordsAre
    <3>2. TypeOK'
      BY <1>0, <1>1, <2>1, <2>2 DEF TypeOK, Moved
    <3> QED BY <1>0, <1>1, <3>1, <3>2 DEF Base, CodeInv
  <2>3. CASE /\ Moved(p, "bump", NoRec, NextSends, now)
             /\ overlap' = (overlap \/ \E q \in Procs : At(q, "bump"))
    <3>1. \A q \in Procs : RequestInv(q)'
      <4>1. now \in 1..now
        BY <1>0, RecordsAre
      <4> QED BY <1>1, <2>3, <4>1, RequestsKeep, RecordsAre
    <3>2. overlap' \in BOOLEAN
      BY <2>3
    <3>3. TypeOK'
      BY <1>0, <1>1, <2>1, <2>3, <3>2 DEF TypeOK, Moved
    <3> QED BY <1>0, <1>1, <3>1, <3>3 DEF Base, CodeInv
  <2> QED BY <1>0, <1>3, <2>2, <2>3, Moves
<1>4. CASE WriteCount(p)
  <2>1. Moved(p, "put", req[p].seen, NoSends, req[p].at)
    BY <1>0, <1>4, Moves
  <2>2. /\ req[p].seen = NoRec /\ req[p].at \in 1..now
        /\ sends' = req[p].sends /\ UNCHANGED <<cooling, overlap>>
    BY <1>0, <1>4 DEF WriteCount, RequestInv, At
  <2>3. \A q \in Procs : RequestInv(q)'
    BY <1>1, <2>1, <2>2, RequestsKeep, RecordsAre
  <2>4. TypeOK'
    BY <1>0, <1>1, <2>1, <2>2, RequestsAre DEF TypeOK, Moved
  <2> QED BY <1>0, <1>1, <2>3, <2>4 DEF Base, CodeInv
<1> QED BY <1>2, <1>3, <1>4

LEMMA BasePut ==
  ASSUME Base, NEW p \in Procs, NEW c \in Codes, Put(p, c)
  PROVE  Base'
<1>0. TypeOK /\ RequestInv(p) /\ CodeInv /\ now \in 1..MaxTime
  BY DEF Base, TypeOK
<1>1. /\ Moved(p, "idle", NoRec, NoSends, 0)
      /\ sentAt[c] = 0 /\ \A d \in Codes : d < c => sentAt[d] # 0
      /\ rec' = [code |-> c, attempts |-> 0, expiresAt |-> now + CodeTTL]
      /\ sentAt' = [sentAt EXCEPT ![c] = req[p].at] /\ early' = Holding
      /\ UNCHANGED <<cooling, sends, now, tries, wins, revived, overlap>>
  BY <1>0, Moves DEF Put, Ends
<1>2. req[p].at \in 1..now
  BY <1>0 DEF Put, RequestInv, At
<1>3. /\ sentAt' \in [Codes -> 0..MaxTime] /\ sentAt'[c] # 0
      /\ \A d \in Codes : d # c => sentAt'[d] = sentAt[d]
  BY <1>0, <1>1, <1>2, RecordsAre DEF TypeOK
<1>4. \A q \in Procs : RequestInv(q)'
  BY <1>1, <1>3, RequestsKeep, RecordsAre
<1>5. rec' \in Record /\ rec'.code = c /\ rec'.attempts = 0 /\ c # 0
  BY <1>0, <1>1, RecordsAre DEF Record, Codes
<1>6. TypeOK'
  BY <1>0, <1>1, <1>3, <1>5, RecordsAre DEF TypeOK, Moved, Holding
<1>7. CodeInv'
  <2>1. ASSUME NEW a \in Codes, NEW b \in Codes, b < a, sentAt'[a] # 0 PROVE sentAt'[b] # 0
    <3>1. CASE a = c
      BY <1>1, <1>3, <2>1, <3>1, RecordsAre
    <3>2. CASE a # c
      BY <1>0, <1>3, <2>1, <3>2 DEF CodeInv
    <3> QED BY <3>1, <3>2
  <2>2. wins' > 0 => sentAt'[Watched] # 0
    BY <1>0, <1>1, <1>3, RecordsAre DEF CodeInv
  <2> QED BY <1>3, <1>5, <2>1, <2>2 DEF CodeInv
<1> QED BY <1>4, <1>6, <1>7 DEF Base

LEMMA BaseVerify ==
  ASSUME Base, NEW p \in Procs, NEW right \in BOOLEAN, Verify(p, right)
  PROVE  Base'
<1>0. TypeOK /\ RequestInv(p) /\ CodeInv
  BY DEF Base
<1>1. /\ Moved(p, Verdict(right), rec, NoSends, 0) /\ rec.code # 0 /\ early' = early \ {p}
      /\ UNCHANGED <<rec, now, cooling, sends, sentAt, overlap, tries, wins, revived>>
  BY <1>0, Moves DEF Verify, Limits
<1>2. /\ Verdict(right) \in {"lapse", "win", "burn", "back"}
      /\ Verdict(right) = "back" => rec.attempts + 1 < MaxAttempts
  <2>1. Verdict(right) \in {"lapse", "win", "burn", "back"}
    BY DEF Verdict
  <2>2. ASSUME rec.attempts + 1 >= MaxAttempts PROVE Verdict(right) # "back"
    <3>0. rec.expiresAt \in Nat /\ now \in Nat
      BY <1>0, RequestsAre DEF Record
    <3>1. CASE rec.expiresAt <= now
      BY <3>0, <3>1 DEF Verdict
    <3>2. CASE rec.expiresAt > now /\ right
      BY <3>0, <3>2 DEF Verdict
    <3>3. CASE rec.expiresAt > now /\ ~right
      BY <2>2, <3>0, <3>3 DEF Verdict
    <3> QED BY <3>0, <3>1, <3>2, <3>3
  <2>3. rec.attempts + 1 >= MaxAttempts \/ rec.attempts + 1 < MaxAttempts
    BY <1>0, RequestsAre, RecordsAre
  <2> QED BY <2>1, <2>2, <2>3
<1>3. rec.attempts < MaxAttempts /\ sentAt[rec.code] # 0
  BY <1>0, <1>1 DEF TypeOK, CodeInv
<1>4. \A q \in Procs : RequestInv(q)'
  BY <1>1, <1>2, <1>3, RequestsKeep
<1>5. TypeOK'
  BY <1>0, <1>1 DEF TypeOK, Moved
<1> QED BY <1>0, <1>1, <1>4, <1>5 DEF Base, CodeInv

\* A record is deleted, written back one attempt on, or stays.
LEMMA BaseAnswer ==
  ASSUME Base, NEW p \in Procs, Lapse(p) \/ Win(p) \/ Burn(p) \/ WriteBack(p) \/ Crash(p)
  PROVE  Base'
<1>0. TypeOK /\ RequestInv(p) /\ CodeInv
  BY DEF Base
<1>1. /\ Moved(p, "idle", NoRec, NoSends, 0) /\ UNCHANGED <<now, cooling, sends, sentAt, overlap>>
  BY <1>0, Moves DEF Ends, Lapse, Win, Burn, WriteBack, Crash, Limits
<1>2. rec' \in Record /\ (rec'.code = 0 => rec' = NoRec) /\ rec'.attempts < MaxAttempts
      /\ (rec'.code # 0 => sentAt'[rec'.code] # 0)
  <2>1. CASE Lapse(p) \/ Win(p) \/ Burn(p)
    BY <2>1, RecordsAre DEF Lapse, Win, Burn, Delete
  <2>2. CASE WriteBack(p)
    <3>1. At(p, "back") /\ rec' = [req[p].seen EXCEPT !.attempts = @ + 1]
      BY <2>2 DEF WriteBack, Missed
    <3>2. /\ req[p].seen \in Record /\ req[p].seen.code # 0 /\ sentAt[req[p].seen.code] # 0
          /\ req[p].seen.attempts + 1 < MaxAttempts
      BY <1>0, <3>1, RequestsAre DEF RequestInv, At
    <3>3. rec' \in Record /\ rec'.code = req[p].seen.code /\ rec'.attempts = req[p].seen.attempts + 1
      BY <3>1, <3>2 DEF Record
    <3> QED BY <1>1, <3>2, <3>3
  <2>3. CASE Crash(p)
    BY <1>0, <1>1, <2>3 DEF Crash, TypeOK, CodeInv
  <2> QED BY <2>1, <2>2, <2>3
<1>3. tries' \in Nat /\ wins' \in Nat
  <2>1. tries' \in {tries, tries + 1} /\ wins' \in {wins, wins + 1}
    BY DEF Lapse, Win, Burn, WriteBack, Crash, Won, Answered, Ledger
  <2> QED BY <1>0, <2>1 DEF TypeOK
<1>4. revived' \in BOOLEAN
  <2>1. ASSUME revived' = (revived \/ p \in early) PROVE revived' \in BOOLEAN
    BY <2>1
  <2>2. WriteBack(p) => revived' = (revived \/ p \in early)
    BY Zenon DEF WriteBack
  <2>3. ~WriteBack(p) => revived' = revived
    BY DEF Lapse, Win, Burn, Crash, Ledger
  <2>4. revived \in BOOLEAN
    BY <1>0 DEF TypeOK
  <2> QED BY <2>1, <2>2, <2>3, <2>4
<1>5. early' \in SUBSET Procs
  BY <1>0 DEF Lapse, Win, Burn, WriteBack, Crash, Delete, Ledger, Holding, TypeOK
<1>6. \A q \in Procs : RequestInv(q)'
  BY <1>1, RequestsKeep, RecordsAre
<1>7. TypeOK'
  BY <1>0, <1>1, <1>2, <1>3, <1>4, <1>5 DEF TypeOK, Moved
<1>8. wins' > 0 => sentAt'[Watched] # 0
  <2>1. wins' = wins \/ p \in Holding
    BY DEF Lapse, Win, Burn, WriteBack, Crash, Won, Ledger
  <2>2. p \in Holding => sentAt[Watched] # 0
    BY <1>0, RecordsAre DEF Holding, RequestInv
  <2> QED BY <1>0, <1>1, <2>1, <2>2 DEF CodeInv
<1> QED BY <1>0, <1>1, <1>2, <1>6, <1>7, <1>8 DEF Base, CodeInv

LEMMA BaseTime ==
  ASSUME Base, Expire \/ Tick
  PROVE  Base'
<1>0. TypeOK /\ CodeInv /\ (\A p \in Procs : RequestInv(p)) /\ now \in 1..MaxTime
  BY DEF Base, TypeOK
<1>1. /\ UNCHANGED <<req, cooling, sends, sentAt, overlap, tries, wins, early, revived>>
      /\ now' \in 1..MaxTime /\ now' >= now /\ rec' \in {rec, NoRec}
  BY <1>0, RecordsAre DEF Expire, Tick, Limits, Ledger
<1>2. TypeOK'
  BY <1>0, <1>1, RecordsAre DEF TypeOK
<1>3. CodeInv'
  BY <1>0, <1>1, RecordsAre DEF CodeInv
<1>4. ASSUME NEW q \in Procs PROVE RequestInv(q)'
  <2>1. \A a \in 1..now : a \in 1..now'
    BY <1>0, <1>1, RecordsAre
  <2> QED BY <1>0, <1>1, <2>1 DEF RequestInv, At
<1> QED BY <1>2, <1>3, <1>4 DEF Base

-----------------------------------------------------------------------------
(* A settled code stays shut *)

LEMMA Holders ==
  ASSUME NEW p \in Procs, NEW l, NEW s, NEW w, NEW a, Moved(p, l, s, w, a)
  PROVE  Holding' = IF s.code = Watched THEN Holding \cup {p} ELSE Holding \ {p}
<1>1. ASSUME NEW q \in Procs
      PROVE  req'[q].seen.code = Watched <=>
               IF q = p THEN s.code = Watched ELSE req[q].seen.code = Watched
  BY DEF Moved
<1>2. Holding' = {q \in Procs : req'[q].seen.code = Watched}
  BY DEF Holding
<1>3. Holding = {q \in Procs : req[q].seen.code = Watched}
  BY DEF Holding
<1> QED BY <1>1, <1>2, <1>3

\* A step of a sender before it sends.
Quiet(p) == Admit(p) \/ ReadCount(p) \/ WriteCount(p)

LEMMA QuietMoves ==
  ASSUME Base, NEW p \in Procs, Quiet(p)
  PROVE  /\ UNCHANGED <<rec, now, sentAt, tries, wins, early, revived>>
         /\ req'[p].seen = NoRec /\ req[p].seen = NoRec
         /\ req' \in [Procs -> Request] /\ \A q \in Procs : q # p => req'[q] = req[q]
         /\ Holding' = Holding
<1>0. TypeOK /\ RequestInv(p)
  BY DEF Base
<1>1. UNCHANGED <<rec, now, sentAt, tries, wins, early, revived>> /\ req[p].seen = NoRec
  BY <1>0 DEF Quiet, Admit, ReadCount, WriteCount, Ledger, RequestInv, At
<1>2. \E l, w, a : Moved(p, l, NoRec, w, a)
  <2>1. CASE Admit(p)
    <3>1. Moved(p, "count", NoRec, req[p].sends, req[p].at)
      BY <1>0, <1>1, <2>1, Moves
    <3> QED BY <3>1
  <2>2. CASE ReadCount(p)
    <3>1. Moved(p, "idle", NoRec, NoSends, 0) \/ Moved(p, "bump", NoRec, NextSends, now)
      BY <1>0, <2>2, Moves
    <3> QED BY <3>1
  <2>3. CASE WriteCount(p)
    <3>1. Moved(p, "put", NoRec, NoSends, req[p].at)
      BY <1>0, <1>1, <2>3, Moves
    <3> QED BY <3>1
  <2> QED BY <2>1, <2>2, <2>3 DEF Quiet
<1>3. PICK l, w, a : Moved(p, l, NoRec, w, a)
  BY <1>2
<1>4. /\ req'[p].seen = NoRec /\ req' \in [Procs -> Request]
      /\ \A q \in Procs : q # p => req'[q] = req[q]
  BY <1>3 DEF Moved
<1>5. Holding' = Holding \ {p}
  BY <1>3, Holders, RecordsAre
<1>6. p \notin Holding
  BY <1>1, RecordsAre DEF Holding
<1> QED BY <1>1, <1>4, <1>5, <1>6

\* A code newer than the watched one is not the watched one, and neither is
\* one that is sent once that one has been accepted.
LEMMA SettledIsSent ==
  ASSUME Base, Settled
  PROVE  sentAt[Watched] # 0
BY RecordsAre DEF Base, CodeInv, Settled

LEMMA ShutAdmit ==
  ASSUME Base, ShutInv, NEW p \in Procs, Quiet(p)
  PROVE  ShutInv'
BY QuietMoves DEF ShutInv, Settled

LEMMA ShutPut ==
  ASSUME Base, ShutInv, NEW p \in Procs, NEW c \in Codes, Put(p, c)
  PROVE  ShutInv'
<1>0. TypeOK /\ RequestInv(p)
  BY DEF Base
<1>1. /\ Moved(p, "idle", NoRec, NoSends, 0)
      /\ sentAt[c] = 0 /\ sentAt' = [sentAt EXCEPT ![c] = req[p].at]
      /\ rec' = [code |-> c, attempts |-> 0, expiresAt |-> now + CodeTTL]
      /\ early' = Holding /\ UNCHANGED <<wins, revived>>
  BY <1>0, Moves DEF Put, Ends
<1>2. Holding' \subseteq early'
  BY <1>1, Holders, RecordsAre
<1>3. ASSUME Settled' PROVE c # Watched
  <2>1. \A d \in Codes : d # c => sentAt'[d] = sentAt[d]
    BY <1>0, <1>1 DEF TypeOK
  <2>2. CASE Settled
    BY <1>1, <2>2, SettledIsSent
  <2>3. CASE ~Settled
    BY <1>1, <1>3, <2>1, <2>3, RecordsAre DEF Settled
  <2> QED BY <2>2, <2>3
<1>4. rec'.code = c
  BY <1>1
<1> QED BY <1>2, <1>3, <1>4 DEF ShutInv

LEMMA ShutVerify ==
  ASSUME Base, ShutInv, NEW p \in Procs, NEW right \in BOOLEAN, Verify(p, right)
  PROVE  ShutInv'
<1>0. TypeOK
  BY DEF Base
<1>1. Moved(p, Verdict(right), rec, NoSends, 0) /\ early' = early \ {p}
      /\ UNCHANGED <<rec, sentAt, wins, revived>>
  BY <1>0, Moves DEF Verify, Limits
<1>2. rec.code # Watched => Holding' = Holding \ {p}
  BY <1>1, Holders
<1> QED BY <1>1, <1>2 DEF ShutInv, Settled

LEMMA ShutAnswer ==
  ASSUME Base, ShutInv, NEW p \in Procs, Lapse(p) \/ Win(p) \/ Burn(p) \/ WriteBack(p) \/ Crash(p)
  PROVE  ShutInv'
<1>0. TypeOK
  BY DEF Base
<1>1. Moved(p, "idle", NoRec, NoSends, 0)
  BY <1>0, Moves DEF Ends
<1>2. Holding' = Holding \ {p}
  BY <1>1, Holders, RecordsAre
<1>3. CASE Lapse(p) \/ Win(p) \/ Burn(p)
  <2>1. rec' = NoRec /\ early' = Holding \ {p}
    BY <1>3 DEF Lapse, Win, Burn, Delete
  <2> QED BY <1>2, <2>1, RecordsAre DEF ShutInv
<1>4. CASE WriteBack(p)
  <2>1. /\ rec' = Missed(p) /\ revived' = (revived \/ p \in early)
        /\ early' = (IF p \in Holding THEN early ELSE Holding) \ {p}
    BY <1>4, Zenon DEF WriteBack
  <2>2. UNCHANGED <<wins, sentAt>>
    BY <1>4 DEF WriteBack, Limits
  <2>3. Missed(p).code = req[p].seen.code
    BY <1>0, RequestsAre DEF Missed, Record
  <2>4. p \in Holding <=> req[p].seen.code = Watched
    BY DEF Holding
  <2>5. Settled' => Settled
    BY <2>2 DEF Settled
  <2>6. ASSUME Settled, ~revived' PROVE rec'.code # Watched /\ Holding' \subseteq early'
    <3>1. ~revived /\ p \notin early
      BY <2>1, <2>6
    <3>2. p \notin Holding
      BY <2>6, <3>1 DEF ShutInv
    <3> QED BY <1>2, <2>1, <2>3, <2>4, <3>2
  <2> QED BY <2>5, <2>6 DEF ShutInv
<1>5. CASE Crash(p)
  <2>1. UNCHANGED <<rec, sentAt, wins, early, revived>>
    BY <1>5 DEF Crash, Limits, Ledger
  <2> QED BY <1>2, <2>1 DEF ShutInv, Settled
<1> QED BY <1>3, <1>4, <1>5

LEMMA ShutTime ==
  ASSUME Base, ShutInv, Expire \/ Tick
  PROVE  ShutInv'
<1>1. UNCHANGED <<req, sentAt, wins, early, revived>> /\ rec' \in {rec, NoRec}
  BY DEF Expire, Tick, Limits, Ledger
<1>2. Holding' = Holding
  BY <1>1 DEF Holding
<1> QED BY <1>1, <1>2, RecordsAre DEF ShutInv, Settled

\* Only a verification that holds the watched code wins it.
LEMMA WinsAreShut ==
  ASSUME Base, ShutInv, Next, wins' > wins, Settled
  PROVE  revived \/ \E p \in early : At(p, "win") /\ req'[p] = Idle
<1>0. TypeOK
  BY DEF Base
<1>1. PICK p \in Procs : Win(p) /\ p \in Holding
  <2>1. ~(wins' = wins)
    BY <1>0 DEF TypeOK
  <2>2. PICK p \in Procs : Win(p)
    BY <2>1 DEF Next, Admit, ReadCount, WriteCount, Put, Verify, Lapse, Burn, WriteBack, Crash,
                Expire, Tick, Ledger
  <2> QED BY <2>1, <2>2 DEF Win, Won
<1>2. At(p, "win") /\ req' = [req EXCEPT ![p] = Idle]
  BY <1>1 DEF Win, Delete, Finish
<1>3. req'[p] = Idle
  BY <1>0, <1>2 DEF TypeOK
<1> QED BY <1>1, <1>2, <1>3 DEF ShutInv

-----------------------------------------------------------------------------
(* Answers are bounded *)

LEMMA LevelsAre ==
  ASSUME TypeOK
  PROVE  /\ Floor \in 0..MaxAttempts /\ Levels \in [Procs -> 0..MaxAttempts]
         /\ \A q \in Procs : /\ Levels[q] <= Floor /\ Levels[q] \in Nat
                             /\ q \in Holding => Levels[q] <= req[q].seen.attempts
                             /\ q \notin Holding => Levels[q] = Floor
                             /\ q \in Holding /\ req[q].seen.attempts < Floor
                                  => Levels[q] = req[q].seen.attempts
                             /\ req[q].seen.attempts >= Floor => Levels[q] = Floor
<1>1. Floor \in 0..MaxAttempts
  BY RequestsAre, RecordsAre DEF Floor, TypeOK
<1>2. ASSUME NEW q \in Procs PROVE req[q].seen.attempts \in Nat
  BY RequestsAre
<1>3. ASSUME NEW q \in Procs PROVE Level(q) \in 0..MaxAttempts /\ Level(q) <= Floor
  <2>1. req[q].seen.attempts \in Nat
    BY <1>2
  <2>2. CASE q \in Holding /\ req[q].seen.attempts < Floor
    BY <1>1, <2>1, <2>2, RecordsAre DEF Level
  <2>3. CASE ~(q \in Holding /\ req[q].seen.attempts < Floor)
    <3>1. Level(q) = Floor
      BY <2>3 DEF Level
    <3> QED BY <1>1, <3>1, RecordsAre
  <2> QED BY <2>2, <2>3
<1>4. Levels \in [Procs -> 0..MaxAttempts] /\ \A q \in Procs : Levels[q] = Level(q)
  BY <1>3 DEF Levels
<1>5. ASSUME NEW q \in Procs
      PROVE  /\ q \in Holding => Level(q) <= req[q].seen.attempts
             /\ q \notin Holding => Level(q) = Floor
             /\ q \in Holding /\ req[q].seen.attempts < Floor => Level(q) = req[q].seen.attempts
             /\ req[q].seen.attempts >= Floor => Level(q) = Floor
  BY <1>1, <1>2, RecordsAre DEF Level
<1> QED BY <1>1, <1>3, <1>4, <1>5, RecordsAre

LEMMA LevelsAreNext ==
  ASSUME TypeOK'
  PROVE  /\ Floor' \in 0..MaxAttempts /\ Levels' \in [Procs -> 0..MaxAttempts]
         /\ \A q \in Procs : /\ Levels'[q] \in Nat
                             /\ q \notin Holding' => Levels'[q] = Floor'
                             /\ q \in Holding' /\ req'[q].seen.attempts < Floor'
                                  => Levels'[q] = req'[q].seen.attempts
                             /\ req'[q].seen.attempts >= Floor' => Levels'[q] = Floor'
                             /\ req'[q].seen.attempts \in Nat
<1>0. /\ rec'.attempts \in Nat /\ rec'.attempts < MaxAttempts
      /\ \A q \in Procs : req'[q].seen.attempts \in Nat
  BY DEF TypeOK, Request, Record
<1>1. Floor' \in 0..MaxAttempts
  BY <1>0, RecordsAre DEF Floor
<1>3. ASSUME NEW q \in Procs PROVE Level(q)' \in 0..MaxAttempts
  <2>1. CASE q \in Holding' /\ req'[q].seen.attempts < Floor'
    BY <1>0, <1>1, <2>1, RecordsAre DEF Level
  <2>2. CASE ~(q \in Holding' /\ req'[q].seen.attempts < Floor')
    <3>1. Level(q)' = Floor'
      BY <2>2 DEF Level
    <3> QED BY <1>1, <3>1, RecordsAre
  <2> QED BY <2>1, <2>2
<1>4. Levels' \in [Procs -> 0..MaxAttempts] /\ \A q \in Procs : Levels'[q] = Level(q)'
  BY <1>3 DEF Levels
<1>5. ASSUME NEW q \in Procs
      PROVE  /\ q \notin Holding' => Level(q)' = Floor'
             /\ q \in Holding' /\ req'[q].seen.attempts < Floor'
                  => Level(q)' = req'[q].seen.attempts
             /\ req'[q].seen.attempts >= Floor' => Level(q)' = Floor'
  BY <1>0, <1>1, RecordsAre DEF Level
<1> QED BY <1>0, <1>1, <1>3, <1>4, <1>5, RecordsAre

\* Steps that answer nothing: no level falls.
LEMMA LevelsRise ==
  ASSUME TypeOK, TypeOK', TriesInv, Floor' >= Floor, tries' = tries,
         \A q \in Procs : q \in Holding' /\ req'[q].seen.attempts < Floor
                            => q \in Holding /\ req'[q].seen = req[q].seen
  PROVE  Room(Counts(Levels'), Total - tries')
<1>1. /\ Floor \in 0..MaxAttempts /\ Levels \in [Procs -> 0..MaxAttempts]
      /\ \A q \in Procs : /\ Levels[q] <= Floor /\ Levels[q] \in Nat
                          /\ q \in Holding => Levels[q] <= req[q].seen.attempts
  BY LevelsAre
<1>2. /\ Floor' \in 0..MaxAttempts /\ Levels' \in [Procs -> 0..MaxAttempts]
      /\ \A q \in Procs : /\ Levels'[q] \in Nat
                          /\ q \notin Holding' => Levels'[q] = Floor'
                          /\ q \in Holding' /\ req'[q].seen.attempts < Floor'
                               => Levels'[q] = req'[q].seen.attempts
                          /\ req'[q].seen.attempts >= Floor' => Levels'[q] = Floor'
                          /\ req'[q].seen.attempts \in Nat
  BY LevelsAreNext
<1>3. ASSUME NEW q \in Procs PROVE Levels'[q] >= Levels[q]
  <2>1. CASE q \notin Holding' \/ req'[q].seen.attempts >= Floor'
    BY <1>1, <1>2, <2>1, RecordsAre
  <2>2. CASE q \in Holding' /\ req'[q].seen.attempts < Floor' /\ req'[q].seen.attempts >= Floor
    BY <1>1, <1>2, <2>2, RecordsAre
  <2>3. CASE q \in Holding' /\ req'[q].seen.attempts < Floor' /\ req'[q].seen.attempts < Floor
    BY <1>1, <1>2, <2>3, RecordsAre
  <2> QED BY <1>1, <1>2, <2>1, <2>2, <2>3, RecordsAre
<1>4. Total - tries \in Int /\ Room(Counts(Levels), Total - tries)
  <2>1. Total \in Nat
    BY ProcsAreFinite, AnswersType
  <2> QED BY <2>1 DEF TypeOK, TriesInv
<1>5. Room(Counts(Levels'), Total - tries)
  BY <1>1, <1>2, <1>3, <1>4, RoomRises
<1> QED BY <1>5

\* A step that answers about the watched code: what p held is below what is left.
LEMMA LevelUsed ==
  ASSUME TypeOK, TypeOK', TriesInv, NEW p \in Procs, p \in Holding, tries' = tries + 1,
         Floor' > req[p].seen.attempts, Holding' = Holding \ {p},
         \A q \in Procs : q # p => req'[q].seen = req[q].seen
  PROVE  Room(Counts(Levels'), Total - tries')
<1>1. /\ Floor \in 0..MaxAttempts /\ Levels \in [Procs -> 0..MaxAttempts]
      /\ \A q \in Procs : /\ Levels[q] <= Floor /\ Levels[q] \in Nat
                          /\ q \in Holding => Levels[q] <= req[q].seen.attempts
                          /\ q \notin Holding => Levels[q] = Floor
                          /\ q \in Holding /\ req[q].seen.attempts < Floor
                                  => Levels[q] = req[q].seen.attempts
                          /\ req[q].seen.attempts >= Floor => Levels[q] = Floor
  BY LevelsAre
<1>2. /\ Floor' \in 0..MaxAttempts /\ Levels' \in [Procs -> 0..MaxAttempts]
      /\ \A q \in Procs : /\ Levels'[q] \in Nat
                          /\ q \notin Holding' => Levels'[q] = Floor'
                          /\ q \in Holding' /\ req'[q].seen.attempts < Floor'
                               => Levels'[q] = req'[q].seen.attempts
                          /\ req'[q].seen.attempts >= Floor' => Levels'[q] = Floor'
                          /\ req'[q].seen.attempts \in Nat
  BY LevelsAreNext
<1>a. \A q \in Procs : req[q].seen.attempts \in Nat
  BY RequestsAre
<1>3. Levels'[p] = Floor' /\ Levels[p] <= req[p].seen.attempts /\ Levels'[p] > Levels[p]
  BY <1>1, <1>2, <1>a, RecordsAre
<1>4. ASSUME NEW q \in Procs
      PROVE  /\ Levels'[q] >= Levels[q] \/ Levels'[q] > Levels[p]
             /\ Levels[q] < Levels[p] => Levels'[q] = Levels[q]
  <2>0. /\ Levels[q] \in Nat /\ Levels'[q] \in Nat /\ Levels[p] \in Nat /\ Levels'[p] \in Nat
        /\ req[q].seen.attempts \in Nat /\ req[p].seen.attempts \in Nat
        /\ Floor \in Nat /\ Floor' \in Nat
    BY <1>1, <1>2, <1>a, RecordsAre
  <2>1. CASE q \notin Holding'
    <3>1. Levels'[q] = Floor' /\ (q = p \/ Levels[q] = Floor)
      BY <1>1, <1>2, <2>1
    <3>2. Levels[p] <= Floor
      BY <1>1
    <3> QED BY <1>3, <2>0, <3>1, <3>2
  <2>2. CASE q \in Holding'
    <3>1. q \in Holding /\ req'[q].seen.attempts = req[q].seen.attempts
      BY <2>2
    <3>2. CASE req[q].seen.attempts >= Floor'
      <4>1. Levels'[q] = Floor'
        BY <1>2, <3>1, <3>2
      <4>2. Levels[q] >= Levels[p]
        <5>1. CASE req[q].seen.attempts >= Floor
          BY <1>1, <5>1
        <5>2. CASE req[q].seen.attempts < Floor
          <6>1. Levels[q] = req[q].seen.attempts
            BY <1>1, <3>1, <5>2
          <6> QED BY <1>3, <2>0, <3>2, <6>1
        <5> QED BY <2>0, <5>1, <5>2
      <4> QED BY <1>3, <2>0, <4>1, <4>2
    <3>3. CASE req[q].seen.attempts < Floor'
      <4>1. Levels'[q] = req[q].seen.attempts /\ Levels[q] <= req[q].seen.attempts
        BY <1>1, <1>2, <2>2, <3>1, <3>3
      <4>2. CASE req[q].seen.attempts >= Floor
        <5>1. Levels[q] = Floor /\ Levels[p] <= Floor
          BY <1>1, <4>2
        <5> QED BY <2>0, <4>1, <5>1
      <4>3. CASE req[q].seen.attempts < Floor
        <5>1. Levels[q] = req[q].seen.attempts
          BY <1>1, <3>1, <4>3
        <5> QED BY <2>0, <4>1, <5>1
      <4> QED BY <2>0, <4>2, <4>3
    <3> QED BY <2>0, <3>2, <3>3
  <2> QED BY <2>1, <2>2
<1>5. /\ Total - tries \in Int /\ Room(Counts(Levels), Total - tries)
      /\ Total - tries' = Total - tries - 1
  <2>1. Total \in Nat
    BY ProcsAreFinite, AnswersType
  <2> QED BY <2>1 DEF TypeOK, TriesInv
<1>6. Room(Counts(Levels'), Total - tries - 1)
  BY <1>1, <1>2, <1>3, <1>4, <1>5, RoomUsed
<1> QED BY <1>5, <1>6

LEMMA TriesAdmit ==
  ASSUME Base, Base', TriesInv, NEW p \in Procs, Quiet(p)
  PROVE  TriesInv'
<1>1. /\ UNCHANGED <<rec, sentAt, tries>> /\ Holding' = Holding
      /\ req'[p].seen = req[p].seen /\ \A q \in Procs : q # p => req'[q] = req[q]
  BY QuietMoves
<1>2. Floor' = Floor /\ Floor \in Nat
  BY <1>1, LevelsAre, RecordsAre DEF Floor, Base
<1>3. \A q \in Procs : req'[q].seen = req[q].seen
  BY <1>1
<1>4. Room(Counts(Levels'), Total - tries')
  BY <1>1, <1>2, <1>3, LevelsRise DEF Base
<1> QED BY <1>1, <1>4 DEF TriesInv

LEMMA TriesPut ==
  ASSUME Base, Base', TriesInv, NEW p \in Procs, NEW c \in Codes, Put(p, c)
  PROVE  TriesInv'
<1>0. TypeOK /\ TypeOK' /\ RequestInv(p) /\ Floor \in 0..MaxAttempts /\ MaxAttempts \in Nat
  BY LevelsAre, RecordsAre DEF Base
<1>1. /\ Moved(p, "idle", NoRec, NoSends, 0)
      /\ sentAt[c] = 0 /\ sentAt' = [sentAt EXCEPT ![c] = req[p].at]
      /\ rec' = [code |-> c, attempts |-> 0, expiresAt |-> now + CodeTTL] /\ tries' = tries
  BY <1>0, Moves DEF Put, Ends
<1>2. req[p].at # 0 /\ \A d \in Codes : d # c => sentAt'[d] = sentAt[d]
  BY <1>0, <1>1 DEF Put, RequestInv, At, TypeOK
<1>3. sentAt'[c] # 0
  BY <1>0, <1>1, <1>2 DEF TypeOK
<1>4. CASE c = Watched
  <2>1. tries' = 0 /\ Total \in Nat
    BY <1>1, <1>4, ProcsAreFinite, AnswersType DEF TriesInv
  <2>2. Levels' \in [Procs -> 0..MaxAttempts]
    BY <1>0, LevelsAreNext
  <2>3. Room(Counts(Levels'), Total)
    BY <2>2, RoomAtFirst
  <2>4. Total - tries' = Total
    BY <2>1
  <2> QED BY <1>3, <1>4, <2>3, <2>4 DEF TriesInv
<1>5. CASE c # Watched
  <2>1. Floor' = MaxAttempts
    BY <1>1, <1>5 DEF Floor
  <2>2. Holding' = Holding \ {p} /\ \A q \in Procs : q # p => req'[q] = req[q]
    BY <1>1, Holders, RecordsAre DEF Moved
  <2>3. Room(Counts(Levels'), Total - tries')
    BY <1>0, <1>1, <2>1, <2>2, LevelsRise
  <2>4. sentAt'[Watched] = sentAt[Watched]
    BY <1>2, <1>5, RecordsAre
  <2> QED BY <1>1, <2>3, <2>4 DEF TriesInv
<1> QED BY <1>4, <1>5

LEMMA TriesVerify ==
  ASSUME Base, Base', TriesInv, NEW p \in Procs, NEW right \in BOOLEAN, Verify(p, right)
  PROVE  TriesInv'
<1>0. TypeOK /\ TypeOK' /\ Floor \in 0..MaxAttempts
  BY LevelsAre DEF Base
<1>1. Moved(p, Verdict(right), rec, NoSends, 0) /\ UNCHANGED <<rec, sentAt, tries>>
  BY <1>0, Moves DEF Verify, Limits
<1>2. Holding' = IF rec.code = Watched THEN Holding \cup {p} ELSE Holding \ {p}
  BY <1>1, Holders
<1>3. Floor' = Floor /\ req'[p].seen = rec /\ \A q \in Procs : q # p => req'[q] = req[q]
  BY <1>1 DEF Floor, Moved
<1>4. p \in Holding' => req'[p].seen.attempts = Floor
  BY <1>2, <1>3 DEF Floor
<1>5. ASSUME NEW q \in Procs, q \in Holding', req'[q].seen.attempts < Floor
      PROVE  q \in Holding /\ req'[q].seen = req[q].seen
  <2>1. q # p
    BY <1>0, <1>4, <1>5
  <2> QED BY <1>2, <1>3, <1>5, <2>1
<1>6. Floor' >= Floor
  BY <1>0, <1>3
<1>7. Room(Counts(Levels'), Total - tries')
  BY <1>0, <1>1, <1>5, <1>6, LevelsRise
<1> QED BY <1>1, <1>7 DEF TriesInv

LEMMA TriesAnswer ==
  ASSUME Base, Base', TriesInv, NEW p \in Procs,
         Lapse(p) \/ Win(p) \/ Burn(p) \/ WriteBack(p) \/ Crash(p)
  PROVE  TriesInv'
<1>0. /\ TypeOK /\ TypeOK' /\ RequestInv(p) /\ Floor \in 0..MaxAttempts /\ MaxAttempts \in Nat
      /\ req[p].seen.attempts \in Nat /\ req[p].seen \in Record /\ req[p].seen.attempts < MaxAttempts
  BY LevelsAre, RecordsAre, RequestsAre DEF Base, RequestInv
<1>1. Moved(p, "idle", NoRec, NoSends, 0) /\ sentAt' = sentAt
  BY <1>0, Moves DEF Ends, Lapse, Win, Burn, WriteBack, Crash, Limits
<1>2. /\ Holding' = Holding \ {p} /\ \A q \in Procs : q # p => req'[q] = req[q]
      /\ \A q \in Procs : q \in Holding' => q \in Holding /\ req'[q].seen = req[q].seen
      /\ \A q \in Procs : q # p => req'[q].seen = req[q].seen
  <2>1. Holding' = Holding \ {p} /\ \A q \in Procs : q # p => req'[q] = req[q]
    BY <1>1, Holders, RecordsAre DEF Moved
  <2> QED BY <2>1
<1>3. p \in Holding => sentAt[Watched] # 0 /\ req[p].seen.code = Watched
  BY <1>0, RecordsAre DEF Holding, RequestInv
<1>4. ASSUME Lapse(p) \/ Win(p) \/ Burn(p) PROVE Floor' = MaxAttempts
  <2>1. rec' = NoRec
    BY <1>4 DEF Lapse, Win, Burn, Delete
  <2> QED BY <2>1, RecordsAre DEF Floor
<1>5. ASSUME WriteBack(p)
      PROVE  Floor' = IF p \in Holding THEN req[p].seen.attempts + 1 ELSE MaxAttempts
  <2>1. rec' = [req[p].seen EXCEPT !.attempts = @ + 1]
    BY <1>5 DEF WriteBack, Missed
  <2>2. rec'.code = req[p].seen.code /\ rec'.attempts = req[p].seen.attempts + 1
    BY <1>0, <2>1 DEF Record
  <2> QED BY <2>2 DEF Floor, Holding
<1>6. CASE tries' = tries /\ Floor' >= Floor
  <2>1. Room(Counts(Levels'), Total - tries')
    BY <1>0, <1>2, <1>6, LevelsRise
  <2> QED BY <1>1, <1>6, <2>1 DEF TriesInv
<1>7. CASE tries' = tries + 1 /\ p \in Holding /\ Floor' > req[p].seen.attempts
  <2>1. Room(Counts(Levels'), Total - tries')
    BY <1>0, <1>2, <1>7, LevelUsed
  <2> QED BY <1>1, <1>3, <1>7, <2>1 DEF TriesInv
<1>8. CASE Lapse(p)
  <2>1. tries' = tries
    BY <1>8 DEF Lapse
  <2>2. Floor' >= Floor
    BY <1>0, <1>4, <1>8
  <2> QED BY <1>6, <2>1, <2>2
<1>9. CASE Win(p) \/ Burn(p)
  <2>1. tries' = IF p \in Holding THEN tries + 1 ELSE tries
    BY <1>9 DEF Win, Burn, Answered
  <2>2. Floor' >= Floor /\ Floor' > req[p].seen.attempts
    BY <1>0, <1>4, <1>9
  <2> QED BY <1>6, <1>7, <2>1, <2>2
<1>10. CASE WriteBack(p)
  <2>1. tries' = IF p \in Holding THEN tries + 1 ELSE tries
    BY <1>10 DEF WriteBack, Answered
  <2>2. p \in Holding => Floor' > req[p].seen.attempts
    BY <1>0, <1>5, <1>10
  <2>3. p \notin Holding => Floor' >= Floor
    BY <1>0, <1>5, <1>10
  <2> QED BY <1>6, <1>7, <2>1, <2>2, <2>3
<1>11. CASE Crash(p)
  <2>1. UNCHANGED <<rec, tries>>
    BY <1>11 DEF Crash, Ledger
  <2>2. Floor' >= Floor
    BY <1>0, <2>1 DEF Floor
  <2> QED BY <1>6, <2>1, <2>2
<1> QED BY <1>8, <1>9, <1>10, <1>11

LEMMA TriesTime ==
  ASSUME Base, Base', TriesInv, Expire \/ Tick
  PROVE  TriesInv'
<1>0. TypeOK /\ TypeOK' /\ Floor \in 0..MaxAttempts /\ MaxAttempts \in Nat
  BY LevelsAre, RecordsAre DEF Base
<1>1. UNCHANGED <<req, sentAt, tries>> /\ rec' \in {rec, NoRec}
  BY DEF Expire, Tick, Limits, Ledger
<1>2. Holding' = Holding /\ \A q \in Procs : req'[q] = req[q]
  BY <1>1 DEF Holding
<1>3. Floor' >= Floor
  <2>1. Floor' = Floor \/ Floor' = MaxAttempts
    BY <1>1, RecordsAre DEF Floor
  <2> QED BY <1>0, <2>1
<1>4. Room(Counts(Levels'), Total - tries')
  BY <1>0, <1>1, <1>2, <1>3, LevelsRise
<1> QED BY <1>1, <1>4 DEF TriesInv

-----------------------------------------------------------------------------
(* The cap on sends *)

LEMMA LoadIs ==
  ASSUME NEW s, NEW r, NEW lo \in Int, NEW hi \in Int
  PROVE  /\ IsFiniteSet(SentIn(s, lo, hi)) /\ Cardinality(SentIn(s, lo, hi)) \in Nat
         /\ IsFiniteSet(DueIn(r, lo, hi)) /\ Cardinality(DueIn(r, lo, hi)) \in Nat
         /\ Load(s, r, lo, hi) \in Nat
         /\ Load(s, r, lo, hi) = Cardinality(SentIn(s, lo, hi)) + Cardinality(DueIn(r, lo, hi))
<1>1. IsFiniteSet(Codes)
  <2>1. 1 \in Int /\ MaxCodes \in Int
    BY RecordsAre
  <2> QED BY <2>1, FS_Interval DEF Codes
<1>2. SentIn(s, lo, hi) \in SUBSET Codes /\ DueIn(r, lo, hi) \in SUBSET Procs
  BY DEF SentIn, DueIn
<1>3. IsFiniteSet(SentIn(s, lo, hi)) /\ Cardinality(SentIn(s, lo, hi)) \in Nat
  BY <1>1, <1>2, FS_Subset, FS_CardinalityType
<1>4. IsFiniteSet(DueIn(r, lo, hi)) /\ Cardinality(DueIn(r, lo, hi)) \in Nat
  BY <1>2, ProcsAreFinite, FS_Subset, FS_CardinalityType
<1> QED BY <1>3, <1>4 DEF Load

LEMMA LoadFrom ==
  ASSUME NEW s, NEW r, NEW s2, NEW r2, NEW lo \in Int, NEW hi \in Int, NEW lo2 \in Int, NEW hi2 \in Int,
         SentIn(s, lo, hi) \subseteq SentIn(s2, lo2, hi2), DueIn(r, lo, hi) \subseteq DueIn(r2, lo2, hi2)
  PROVE  Load(s, r, lo, hi) <= Load(s2, r2, lo2, hi2)
<1>1. /\ Cardinality(SentIn(s, lo, hi)) <= Cardinality(SentIn(s2, lo2, hi2))
      /\ Cardinality(DueIn(r, lo, hi)) <= Cardinality(DueIn(r2, lo2, hi2))
  BY LoadIs, FS_Subset
<1> QED BY <1>1, LoadIs

\* Where times are.
Times(s, r) == (\A c \in Codes : s[c] \in Nat) /\ (\A p \in Procs : r[p].at \in Nat)

\* Nothing is at the top or above.
LEMMA LoadWithin ==
  ASSUME NEW s, NEW r, Times(s, r), NEW top \in Int, Below(s, r, top),
         NEW lo \in Int, NEW hi \in Int, NEW lo2 \in Int, NEW hi2 \in Int,
         lo2 <= lo, hi2 >= hi \/ hi2 >= top - 1
  PROVE  Load(s, r, lo, hi) <= Load(s, r, lo2, hi2)
<1>1. SentIn(s, lo, hi) \subseteq SentIn(s, lo2, hi2)
  BY DEF SentIn, Below, Times
<1>2. DueIn(r, lo, hi) \subseteq DueIn(r, lo2, hi2)
  BY DEF DueIn, Below, Times
<1> QED BY <1>1, <1>2, LoadFrom

LEMMA LoadNone ==
  ASSUME NEW s, NEW r, Times(s, r), NEW top \in Int, Below(s, r, top),
         NEW lo \in Int, NEW hi \in Int, lo >= top \/ top <= 0
  PROVE  Load(s, r, lo, hi) = 0
<1>1. SentIn(s, lo, hi) = {} /\ DueIn(r, lo, hi) = {}
  BY DEF SentIn, DueIn, Below, Times
<1> QED BY <1>1, LoadIs, FS_EmptySet

LEMMA LoadSplit ==
  ASSUME NEW s, NEW r, Times(s, r), NEW lo \in Int, NEW hi \in Int, NEW mid \in Int
  PROVE  Load(s, r, lo, hi) <= Load(s, r, lo, mid - 1) + Load(s, r, mid, hi)
<1> DEFINE S == SentIn(s, lo, hi)
           A == SentIn(s, lo, mid - 1)
           B == SentIn(s, mid, hi)
           D == DueIn(r, lo, hi)
           E == DueIn(r, lo, mid - 1)
           F == DueIn(r, mid, hi)
<1>1. S \subseteq A \cup B /\ D \subseteq E \cup F
  BY DEF SentIn, DueIn, Times
<1>2. /\ IsFiniteSet(A) /\ IsFiniteSet(B) /\ IsFiniteSet(E) /\ IsFiniteSet(F)
      /\ Cardinality(A) \in Nat /\ Cardinality(B) \in Nat
      /\ Cardinality(E) \in Nat /\ Cardinality(F) \in Nat
      /\ Cardinality(S) \in Nat /\ Cardinality(D) \in Nat
      /\ Load(s, r, lo, hi) = Cardinality(S) + Cardinality(D)
      /\ Load(s, r, lo, mid - 1) = Cardinality(A) + Cardinality(E)
      /\ Load(s, r, mid, hi) = Cardinality(B) + Cardinality(F)
  <2>1. mid - 1 \in Int
    OBVIOUS
  <2>2. /\ Cardinality(S) \in Nat /\ Cardinality(D) \in Nat
        /\ Load(s, r, lo, hi) = Cardinality(S) + Cardinality(D)
    BY LoadIs
  <2>3. /\ IsFiniteSet(A) /\ IsFiniteSet(E) /\ Cardinality(A) \in Nat /\ Cardinality(E) \in Nat
        /\ Load(s, r, lo, mid - 1) = Cardinality(A) + Cardinality(E)
    BY <2>1, LoadIs
  <2>4. /\ IsFiniteSet(B) /\ IsFiniteSet(F) /\ Cardinality(B) \in Nat /\ Cardinality(F) \in Nat
        /\ Load(s, r, mid, hi) = Cardinality(B) + Cardinality(F)
    BY LoadIs
  <2> HIDE DEF S, A, B, D, E, F
  <2> QED BY <2>2, <2>3, <2>4
<1> HIDE DEF S, A, B, D, E, F
<1>3. ASSUME NEW X, NEW Y, NEW Z, X \subseteq Y \cup Z, IsFiniteSet(Y), IsFiniteSet(Z),
             Cardinality(X) \in Nat, Cardinality(Y) \in Nat, Cardinality(Z) \in Nat
      PROVE  Cardinality(X) <= Cardinality(Y) + Cardinality(Z)
  <2>1. IsFiniteSet(Y \cup Z) /\ Cardinality(Y \cup Z) = Cardinality(Y) + Cardinality(Z) - Cardinality(Y \cap Z)
    BY <1>3, FS_Union
  <2>2. IsFiniteSet(Y \cap Z) /\ Cardinality(Y \cap Z) \in Nat
    BY <1>3, FS_Intersection, FS_CardinalityType
  <2>3. Cardinality(X) <= Cardinality(Y \cup Z)
    BY <1>3, <2>1, FS_Subset
  <2> QED BY <1>3, <2>1, <2>2, <2>3
<1>4. Cardinality(S) <= Cardinality(A) + Cardinality(B) /\ Cardinality(D) <= Cardinality(E) + Cardinality(F)
  BY <1>1, <1>2, <1>3
<1> QED BY <1>2, <1>4

\* A request that is to send at its own time.
LEMMA LoadRises ==
  ASSUME NEW s, NEW r, NEW r2, NEW p \in Procs, NEW lo \in Int, NEW hi \in Int,
         \A q \in Procs : q # p /\ r2[q].pc = "put" => r[q].pc = "put" /\ r2[q].at = r[q].at
  PROVE  /\ Load(s, r2, lo, hi) <= Load(s, r, lo, hi) + 1
         /\ r2[p].at \notin lo..hi => Load(s, r2, lo, hi) <= Load(s, r, lo, hi)
<1> DEFINE D == DueIn(r, lo, hi)
           E == DueIn(r2, lo, hi)
<1>1. E \subseteq D \cup {p}
  BY DEF DueIn
<1>2. /\ IsFiniteSet(D) /\ Cardinality(D) \in Nat /\ Cardinality(E) \in Nat
      /\ Load(s, r, lo, hi) = Cardinality(SentIn(s, lo, hi)) + Cardinality(D)
      /\ Load(s, r2, lo, hi) = Cardinality(SentIn(s, lo, hi)) + Cardinality(E)
      /\ Cardinality(SentIn(s, lo, hi)) \in Nat
  BY LoadIs
<1>3. ASSUME r2[p].at \notin lo..hi PROVE E \subseteq D
  BY <1>3 DEF DueIn
<1> HIDE DEF D, E
<1>4. /\ IsFiniteSet(D \cup {p})
      /\ Cardinality(D \cup {p}) = IF p \in D THEN Cardinality(D) ELSE Cardinality(D) + 1
  BY <1>2, FS_AddElement
<1>5. Cardinality(E) <= Cardinality(D) + 1
  <2>1. Cardinality(E) <= Cardinality(D \cup {p})
    BY <1>1, <1>4, FS_Subset
  <2> QED BY <1>2, <1>4, <2>1
<1>6. ASSUME r2[p].at \notin lo..hi PROVE Cardinality(E) <= Cardinality(D)
  BY <1>2, <1>3, <1>6, FS_Subset
<1> QED BY <1>2, <1>5, <1>6

\* It sends: it was counted before as due.
LEMMA LoadSent ==
  ASSUME NEW s, NEW s2, NEW r, NEW r2, NEW p \in Procs, NEW c \in Codes, NEW lo \in Int, NEW hi \in Int,
         r[p].pc = "put", r2[p].pc # "put", \A q \in Procs : q # p => r2[q] = r[q],
         s2[c] = r[p].at, \A d \in Codes : d # c => s2[d] = s[d]
  PROVE  Load(s2, r2, lo, hi) <= Load(s, r, lo, hi)
<1> DEFINE S == SentIn(s, lo, hi)
           T == SentIn(s2, lo, hi)
           D == DueIn(r, lo, hi)
           E == DueIn(r2, lo, hi)
<1>1. E = D \ {p} /\ T \subseteq S \cup {c}
  BY DEF SentIn, DueIn
<1>2. r[p].at \notin lo..hi => T \subseteq S
  BY DEF SentIn
<1>3. r[p].at \in lo..hi => p \in D
  BY DEF DueIn
<1>4. /\ IsFiniteSet(S) /\ IsFiniteSet(D) /\ Cardinality(S) \in Nat /\ Cardinality(T) \in Nat
      /\ Cardinality(D) \in Nat /\ Cardinality(E) \in Nat
      /\ Load(s, r, lo, hi) = Cardinality(S) + Cardinality(D)
      /\ Load(s2, r2, lo, hi) = Cardinality(T) + Cardinality(E)
  BY LoadIs
<1> HIDE DEF S, T, D, E
<1>5. Cardinality(E) = IF p \in D THEN Cardinality(D) - 1 ELSE Cardinality(D)
  BY <1>1, <1>4, FS_RemoveElement
<1>6. CASE r[p].at \in lo..hi
  <2>1. /\ IsFiniteSet(S \cup {c})
        /\ Cardinality(S \cup {c}) = IF c \in S THEN Cardinality(S) ELSE Cardinality(S) + 1
    BY <1>4, FS_AddElement
  <2>2. Cardinality(T) <= Cardinality(S \cup {c})
    BY <1>1, <2>1, FS_Subset
  <2> QED BY <1>3, <1>4, <1>5, <1>6, <2>1, <2>2
<1>7. CASE r[p].at \notin lo..hi
  <2>1. Cardinality(T) <= Cardinality(S)
    BY <1>2, <1>4, <1>7, FS_Subset
  <2> QED BY <1>4, <1>5, <2>1
<1> QED BY <1>6, <1>7

LEMMA LoadEases ==
  ASSUME NEW s, NEW r, NEW r2, NEW lo \in Int, NEW hi \in Int,
         \A q \in Procs : r2[q].pc = "put" => r[q].pc = "put" /\ r2[q].at = r[q].at
  PROVE  Load(s, r2, lo, hi) <= Load(s, r, lo, hi)
<1>1. DueIn(r2, lo, hi) \subseteq DueIn(r, lo, hi)
  BY DEF DueIn
<1> QED BY <1>1, LoadFrom

LEMMA TimesAre ==
  ASSUME TypeOK
  PROVE  Times(sentAt, req) /\ Over \in Nat /\ Since \in Int /\ sends.count \in Nat
BY RequestsAre, RecordsAre DEF Times, Over, Since

LEMMA LoadKeeps ==
  ASSUME TypeOK, TypeOK', LoadInv, sends' = sends, Below(sentAt', req', Over),
         \A lo \in Int, hi \in Int : Load(sentAt', req', lo, hi) <= Load(sentAt, req, lo, hi)
  PROVE  LoadInv'
<1>1. Over' = Over /\ Since' = Since /\ Over \in Nat /\ Since \in Int /\ sends.count \in Nat
  BY TimesAre DEF Over, Since
<1>2. /\ Hour \in Nat /\ MaxSends \in Nat /\ Over - 1 \in Int /\ Since + 1 \in Int
      /\ Since - Hour + 1 \in Int /\ Since - 1 \in Int
  BY <1>1, RecordsAre
<1>3. ASSUME NEW lo \in Int, NEW hi \in Int
      PROVE  /\ Load(sentAt', req', lo, hi) \in Nat /\ Load(sentAt, req, lo, hi) \in Nat
             /\ Load(sentAt', req', lo, hi) <= Load(sentAt, req, lo, hi)
  BY LoadIs
<1>4. Load(sentAt', req', Since, Over - 1) <= sends.count
  <2>1. /\ Load(sentAt', req', Since, Over - 1) \in Nat /\ Load(sentAt, req, Since, Over - 1) \in Nat
        /\ Load(sentAt', req', Since, Over - 1) <= Load(sentAt, req, Since, Over - 1)
    BY <1>1, <1>2, <1>3
  <2>2. Load(sentAt, req, Since, Over - 1) <= sends.count
    BY DEF LoadInv
  <2> QED BY <1>1, <2>1, <2>2
<1>5. sends # NoSends => Load(sentAt', req', Since + 1, Over - 1) <= sends.count - 1
  <2>1. /\ Load(sentAt', req', Since + 1, Over - 1) \in Nat
        /\ Load(sentAt, req, Since + 1, Over - 1) \in Nat
        /\ Load(sentAt', req', Since + 1, Over - 1) <= Load(sentAt, req, Since + 1, Over - 1)
    BY <1>2, <1>3
  <2>2. sends # NoSends => Load(sentAt, req, Since + 1, Over - 1) <= sends.count - 1
    BY DEF LoadInv
  <2> QED BY <1>1, <2>1, <2>2
<1>6. Load(sentAt', req', Since - Hour + 1, Since - 1) <= MaxSends - 1
  <2>1. /\ Load(sentAt', req', Since - Hour + 1, Since - 1) \in Nat
        /\ Load(sentAt, req, Since - Hour + 1, Since - 1) \in Nat
        /\ Load(sentAt', req', Since - Hour + 1, Since - 1)
             <= Load(sentAt, req, Since - Hour + 1, Since - 1)
    BY <1>2, <1>3
  <2>2. Load(sentAt, req, Since - Hour + 1, Since - 1) <= MaxSends - 1
    BY DEF LoadInv
  <2> QED BY <1>2, <2>1, <2>2
<1>7. ASSUME NEW t \in Nat PROVE Load(sentAt', req', t, t + Hour - 1) < 2 * MaxSends
  <2>1. t \in Int /\ t + Hour - 1 \in Int
    BY <1>2
  <2>2. Load(sentAt, req, t, t + Hour - 1) < 2 * MaxSends
    BY DEF LoadInv
  <2> QED BY <1>2, <1>3, <2>1, <2>2
<1> QED BY <1>1, <1>4, <1>5, <1>6, <1>7 DEF LoadInv

LEMMA HourKeeps ==
  ASSUME TypeOK, TypeOK', HourInv, sends' = sends, now' >= now
  PROVE  HourInv'
<1>1. Since' = Since /\ Since \in Int /\ now \in Int /\ now' \in Int
  BY TimesAre, RequestsAre, RecordsAre DEF Since, Over, TypeOK
<1>2. Since \in 1..now => Since \in 1..now'
  BY <1>1
<1> QED BY <1>1, <1>2 DEF HourInv

\* The steps that neither read the count nor write it.
LEMMA CapKeeps ==
  ASSUME Base, Base', CapInv, sends' = sends, overlap' = overlap, now' >= now,
         Below(sentAt, req, Over) => Below(sentAt', req', Over),
         ~overlap => \A lo \in Int, hi \in Int : Load(sentAt', req', lo, hi) <= Load(sentAt, req, lo, hi),
         \A q \in Procs : req'[q].pc = "bump" => req'[q] = req[q]
  PROVE  CapInv'
<1> SUFFICES ASSUME ~overlap PROVE HourInv' /\ BumpsInv' /\ LoadInv'
  BY DEF CapInv
<1>0. TypeOK /\ TypeOK' /\ HourInv /\ BumpsInv /\ LoadInv
  BY DEF CapInv, Base
<1>1. HourInv'
  BY <1>0, HourKeeps
<1>2. LoadInv'
  BY <1>0, LoadKeeps DEF LoadInv
<1>3. Over' = Over /\ Since' = Since
  BY DEF Over, Since
<1>4. BumpsInv'
  BY <1>0, <1>3 DEF BumpsInv, BumpInv, At
<1> QED BY <1>1, <1>2, <1>4

\* A request that becomes neither a bumper nor one that is to send.
LEMMA CapMoved ==
  ASSUME Base, Base', CapInv, NEW p \in Procs, NEW l, NEW s, NEW w, NEW a, Moved(p, l, s, w, a),
         l \notin {"bump", "put"}, sends' = sends, overlap' = overlap, now' = now, sentAt' = sentAt
  PROVE  CapInv'
<1>1. ASSUME NEW q \in Procs, req'[q].pc \in {"bump", "put"} PROVE req'[q] = req[q]
  BY <1>1 DEF Moved
<1>2. ASSUME NEW lo \in Int, NEW hi \in Int
      PROVE  Load(sentAt', req', lo, hi) <= Load(sentAt, req, lo, hi)
  BY <1>1, LoadEases
<1>3. Below(sentAt, req, Over) => Below(sentAt', req', Over)
  BY <1>1 DEF Below
<1>4. now' >= now
  BY RequestsAre DEF Base
<1> QED BY <1>1, <1>2, <1>3, <1>4, CapKeeps

LEMMA CapVerify ==
  ASSUME Base, Base', CapInv, NEW p \in Procs,
         \/ Admit(p) \/ \E right \in BOOLEAN : Verify(p, right)
         \/ Lapse(p) \/ Win(p) \/ Burn(p) \/ WriteBack(p) \/ Crash(p)
  PROVE  CapInv'
<1>0. TypeOK
  BY DEF Base
<1>1. CASE Admit(p)
  <2>1. Moved(p, "count", req[p].seen, req[p].sends, req[p].at)
    BY <1>0, <1>1, Moves
  <2>2. UNCHANGED <<sends, overlap, now, sentAt>>
    BY <1>1 DEF Admit
  <2> QED BY <2>1, <2>2, CapMoved
<1>2. CASE \E right \in BOOLEAN : Verify(p, right)
  <2>1. PICK right \in BOOLEAN : Verify(p, right)
    BY <1>2
  <2>2. Moved(p, Verdict(right), rec, NoSends, 0) /\ UNCHANGED <<sends, overlap, now, sentAt>>
    BY <1>0, <2>1, Moves DEF Verify, Limits
  <2>3. Verdict(right) \in {"lapse", "win", "burn", "back"}
    BY DEF Verdict
  <2>4. Verdict(right) \notin {"bump", "put"}
    BY <2>3
  <2> QED BY <2>2, <2>4, CapMoved
<1>3. CASE Lapse(p) \/ Win(p) \/ Burn(p) \/ WriteBack(p) \/ Crash(p)
  <2>1. Moved(p, "idle", NoRec, NoSends, 0) /\ UNCHANGED <<sends, overlap, now, sentAt>>
    BY <1>0, <1>3, Moves DEF Ends, Lapse, Win, Burn, WriteBack, Crash, Limits
  <2> QED BY <2>1, CapMoved
<1> QED BY <1>1, <1>2, <1>3

LEMMA CapTime ==
  ASSUME Base, Base', CapInv, Expire \/ Tick
  PROVE  CapInv'
<1>1. UNCHANGED <<req, sends, overlap, sentAt>> /\ now' >= now
  BY RequestsAre DEF Base, Expire, Tick, Limits
<1>2. ASSUME NEW lo \in Int, NEW hi \in Int
      PROVE  Load(sentAt', req', lo, hi) <= Load(sentAt, req, lo, hi)
  BY <1>1, LoadIs
<1> QED BY <1>1, <1>2, CapKeeps

LEMMA CapPut ==
  ASSUME Base, Base', CapInv, NEW p \in Procs, NEW c \in Codes, Put(p, c)
  PROVE  CapInv'
<1>0. TypeOK
  BY DEF Base
<1>1. /\ Moved(p, "idle", NoRec, NoSends, 0) /\ req[p].pc = "put"
      /\ sentAt' = [sentAt EXCEPT ![c] = req[p].at] /\ UNCHANGED <<sends, overlap, now>>
  BY <1>0, Moves DEF Put, Ends, At
<1>2. sentAt'[c] = req[p].at /\ \A d \in Codes : d # c => sentAt'[d] = sentAt[d]
  BY <1>0, <1>1 DEF TypeOK
<1>3. req'[p].pc = "idle" /\ \A q \in Procs : q # p => req'[q] = req[q]
  BY <1>1 DEF Moved
<1>4. ASSUME NEW lo \in Int, NEW hi \in Int
      PROVE  Load(sentAt', req', lo, hi) <= Load(sentAt, req, lo, hi)
  BY <1>1, <1>2, <1>3, LoadSent
<1>5. Below(sentAt, req, Over) => Below(sentAt', req', Over)
  BY <1>1, <1>2, <1>3 DEF Below
<1>6. now' >= now
  BY <1>1, RequestsAre DEF Base
<1>7. \A q \in Procs : req'[q].pc = "bump" => req'[q] = req[q]
  BY <1>3
<1> QED BY <1>1, <1>4, <1>5, <1>6, <1>7, CapKeeps

LEMMA CapRead ==
  ASSUME Base, Base', CapInv, NEW p \in Procs, ReadCount(p)
  PROVE  CapInv'
<1>0. TypeOK /\ TypeOK' /\ now \in 1..MaxTime
  BY DEF Base, TypeOK
<1>1. UNCHANGED <<sends, now, sentAt>>
  BY DEF ReadCount
<1>2. CASE Moved(p, "idle", NoRec, NoSends, 0) /\ UNCHANGED overlap
  BY <1>1, <1>2, CapMoved
<1>3. CASE /\ NextSends.count <= MaxSends /\ Moved(p, "bump", NoRec, NextSends, now)
           /\ overlap' = (overlap \/ \E q \in Procs : At(q, "bump"))
  <2>1. CASE overlap'
    BY <2>1 DEF CapInv
  <2>2. CASE ~overlap'
    <3>1. HourInv /\ BumpsInv /\ LoadInv /\ \A q \in Procs : ~At(q, "bump")
      BY <1>3, <2>2 DEF CapInv
    <3>2. HourInv'
      <4>1. now' >= now
        BY <1>0, <1>1, RecordsAre
      <4> QED BY <1>0, <1>1, <3>1, <4>1, HourKeeps
    <3>3. \A q \in Procs : req'[q].pc = "put" => req[q].pc = "put" /\ req'[q].at = req[q].at
      BY <1>3 DEF Moved
    <3>4. LoadInv'
      <4>1. ASSUME NEW lo \in Int, NEW hi \in Int
            PROVE  Load(sentAt', req', lo, hi) <= Load(sentAt, req, lo, hi)
        BY <1>1, <3>3, LoadEases
      <4>2. Below(sentAt', req', Over)
        BY <1>1, <3>1, <3>3 DEF LoadInv, Below
      <4> QED BY <1>0, <1>1, <3>1, <4>1, <4>2, LoadKeeps
    <3>5. ASSUME NEW q \in Procs, req'[q].pc = "bump" PROVE q = p
      BY <1>3, <3>1, <3>5 DEF Moved, At
    <3>6. BumpInv(p)'
      <4>1. /\ Over' = Over /\ Since' = Since /\ Since = Over - Hour /\ Over \in Nat /\ Since \in Int
            /\ sends.count \in Nat /\ sends \in Window /\ Over = sends.resetAt
            /\ NoSends.resetAt = 0 /\ MaxSends \in Nat \ {0} /\ Hour \in Nat \ {0}
        BY <1>0, <1>1, TimesAre, RecordsAre, RequestsAre DEF Over, Since
      <4>2. req'[p].sends = NextSends /\ req'[p].at = now
        BY <1>3 DEF Moved
      <4>3. CASE Over > now
        <5>1. NextSends = [count |-> sends.count + 1, resetAt |-> Over]
          BY <4>1, <4>3 DEF NextSends, Window
        <5>2. Since <= now
          BY <1>0, <3>1, <4>1, <4>3, RecordsAre DEF HourInv
        <5>3. now \in Since..(Over - 1) /\ sends.count + 1 \in 1..MaxSends
          BY <1>0, <1>3, <4>1, <4>3, <5>1, <5>2, RecordsAre
        <5> QED BY <1>1, <4>1, <4>2, <5>1, <5>3 DEF BumpInv
      <4>4. CASE ~(Over > now)
        <5>1. NextSends = [count |-> 1, resetAt |-> now + Hour]
          BY <4>1, <4>4 DEF NextSends
        <5>2. now >= Over /\ 1 \in 1..MaxSends
          BY <1>0, <4>1, <4>4, RecordsAre
        <5> QED BY <1>1, <4>1, <4>2, <5>1, <5>2 DEF BumpInv
      <4> QED BY <4>3, <4>4
    <3>7. BumpsInv'
      BY <3>5, <3>6 DEF BumpsInv, At
    <3> QED BY <3>2, <3>4, <3>7 DEF CapInv
  <2> QED BY <2>1, <2>2
<1> QED BY <1>0, <1>2, <1>3, Moves

\* The count is written: in the same hour, or in one that begins with it.
LEMMA CapWrite ==
  ASSUME Base, Base', CapInv, NEW p \in Procs, WriteCount(p)
  PROVE  CapInv'
<1> SUFFICES ASSUME ~overlap PROVE HourInv' /\ BumpsInv' /\ LoadInv'
  BY DEF CapInv, WriteCount
<1> DEFINE a == req[p].at
           L(lo, hi) == Load(sentAt, req, lo, hi)
           M(lo, hi) == Load(sentAt, req', lo, hi)
<1>0. /\ TypeOK /\ TypeOK' /\ RequestInv(p) /\ HourInv /\ BumpsInv /\ LoadInv /\ now \in 1..MaxTime
      /\ At(p, "bump") /\ BumpInv(p)
  BY DEF CapInv, Base, TypeOK, BumpsInv, WriteCount
<1>1. /\ Moved(p, "put", req[p].seen, NoSends, a) /\ sends' = req[p].sends /\ UNCHANGED <<now, sentAt>>
  BY <1>0, Moves DEF WriteCount
<1>2. /\ a \in 1..now /\ now \in Nat /\ a \in Nat /\ Times(sentAt, req) /\ sends.count \in Nat
      /\ Over \in Nat /\ Since \in Int /\ Since = Over - Hour /\ Over = sends.resetAt
      /\ Hour \in Nat \ {0} /\ MaxSends \in Nat \ {0} /\ NoSends.resetAt = 0
  <2>1. a \in 1..now
    BY <1>0 DEF RequestInv, At
  <2>2. now \in Nat /\ a \in Nat
    BY <1>0, RequestsAre
  <2> QED BY <1>0, <2>1, <2>2, TimesAre, RecordsAre DEF Over, Since
<1>3. /\ req'[p].at = a /\ req'[p].pc = "put"
      /\ \A q \in Procs : q # p /\ req'[q].pc = "put" => req[q].pc = "put" /\ req'[q].at = req[q].at
  BY <1>1 DEF Moved
<1>4. BumpsInv'
  <2>1. ASSUME NEW q \in Procs PROVE req'[q].pc # "bump"
    BY <1>0, <1>1 DEF Moved, BumpsInv, At
  <2> QED BY <2>1 DEF BumpsInv, At
<1>5. ASSUME NEW lo \in Int, NEW hi \in Int
      PROVE  /\ M(lo, hi) <= L(lo, hi) + 1
             /\ a \notin lo..hi => M(lo, hi) <= L(lo, hi)
             /\ M(lo, hi) \in Nat /\ L(lo, hi) \in Nat
  BY <1>3, LoadIs, LoadRises
<1>6. /\ Below(sentAt, req, Over) /\ L(Since, Over - 1) <= sends.count
      /\ sends # NoSends => L(Since + 1, Over - 1) <= sends.count - 1
      /\ L(Since - Hour + 1, Since - 1) <= MaxSends - 1
      /\ \A t \in Nat : L(t, t + Hour - 1) < 2 * MaxSends
      /\ sends.count <= MaxSends
      /\ sends # NoSends => Since \in 1..now
  BY <1>0 DEF LoadInv, HourInv
<1>7. ASSUME NEW lo \in Int, NEW hi \in Int, NEW lo2 \in Int, NEW hi2 \in Int,
             lo2 <= lo, hi2 >= hi \/ hi2 >= Over - 1
      PROVE  L(lo, hi) <= L(lo2, hi2)
  BY <1>2, <1>6, <1>7, LoadWithin
<1>8. req[p].sends.count \in 1..MaxSends
  BY <1>0 DEF BumpInv
<1> HIDE DEF a, L, M
\* It is enough that whatever window sees it is not full.
<1>9. ASSUME \A t \in Nat : a \in t..(t + Hour - 1) => L(t, t + Hour - 1) <= 2 * MaxSends - 2
      PROVE  \A t \in Nat : M(t, t + Hour - 1) < 2 * MaxSends
  <2> SUFFICES ASSUME NEW t \in Nat PROVE M(t, t + Hour - 1) < 2 * MaxSends
    OBVIOUS
  <2>1. t \in Int /\ t + Hour - 1 \in Int
    BY <1>2
  <2>2. /\ M(t, t + Hour - 1) <= L(t, t + Hour - 1) + 1
        /\ a \notin t..(t + Hour - 1) => M(t, t + Hour - 1) <= L(t, t + Hour - 1)
        /\ M(t, t + Hour - 1) \in Nat /\ L(t, t + Hour - 1) \in Nat
    BY <1>5, <2>1
  <2>3. L(t, t + Hour - 1) < 2 * MaxSends
    BY <1>6
  <2>4. a \in t..(t + Hour - 1) => L(t, t + Hour - 1) <= 2 * MaxSends - 2
    BY <1>9
  <2> QED BY <1>2, <2>2, <2>3, <2>4
<1>10. CASE a \in Since..(Over - 1) /\ req[p].sends = [count |-> sends.count + 1, resetAt |-> Over]
  <2>1. sends' = [count |-> sends.count + 1, resetAt |-> Over]
    BY <1>1, <1>10
  <2>2. Over' = Over /\ Since' = Since /\ sends'.count = sends.count + 1
    BY <1>2, <2>1 DEF Over, Since
  <2>3. /\ Over >= 2 /\ sends # NoSends /\ sends.count + 1 <= MaxSends /\ Over - 1 \in Int
        /\ Since + 1 \in Int /\ Since - Hour + 1 \in Int /\ Since - 1 \in Int
        /\ a >= Since /\ a < Over
    <3>1. a >= Since /\ a < Over /\ Over >= 2
      BY <1>2, <1>10
    <3>2. sends.count + 1 <= MaxSends
      BY <1>2, <1>8, <1>10
    <3> QED BY <1>2, <3>1, <3>2
  <2>4. HourInv'
    BY <1>1, <1>2, <1>6, <2>2, <2>3 DEF HourInv
  <2>5. Below(sentAt, req', Over)
    BY <1>3, <1>6, <2>3 DEF Below
  <2>6. M(Since, Over - 1) <= sends.count + 1
    <3>1. M(Since, Over - 1) <= L(Since, Over - 1) + 1 /\ M(Since, Over - 1) \in Nat /\ L(Since, Over - 1) \in Nat
      BY <1>2, <1>5, <2>3
    <3> QED BY <1>2, <1>6, <3>1
  <2>7. M(Since + 1, Over - 1) <= sends.count
    <3>1. /\ M(Since + 1, Over - 1) <= L(Since + 1, Over - 1) + 1
          /\ M(Since + 1, Over - 1) \in Nat /\ L(Since + 1, Over - 1) \in Nat
      BY <1>5, <2>3
    <3> QED BY <1>2, <1>6, <2>3, <3>1
  <2>8. M(Since - Hour + 1, Since - 1) <= MaxSends - 1
    <3>1. a \notin (Since - Hour + 1)..(Since - 1)
      BY <1>2, <2>3
    <3>2. /\ M(Since - Hour + 1, Since - 1) <= L(Since - Hour + 1, Since - 1)
          /\ M(Since - Hour + 1, Since - 1) \in Nat /\ L(Since - Hour + 1, Since - 1) \in Nat
      BY <1>5, <2>3, <3>1
    <3> QED BY <1>2, <1>6, <3>2
  <2>9. ASSUME NEW t \in Nat, a \in t..(t + Hour - 1)
        PROVE  L(t, t + Hour - 1) <= 2 * MaxSends - 2
    <3>0. /\ t \in Int /\ t + Hour - 1 \in Int /\ t >= Since - Hour + 1
      BY <1>2, <2>3, <2>9
    <3>a. Since \in Int /\ Since <= Since /\ Over - 1 >= Over - 1 /\ Over - 1 \in Int
      BY <1>2, <2>3
    <3>b. L(Since, t + Hour - 1) <= L(Since, Over - 1)
      BY <1>7, <3>0, <3>a
    <3>1. /\ L(Since, t + Hour - 1) <= L(Since, Over - 1) /\ L(Since, t + Hour - 1) \in Nat
          /\ L(Since, Over - 1) \in Nat
      BY <1>5, <3>0, <3>a, <3>b
    <3>2. CASE t >= Since
      <4>1. L(t, t + Hour - 1) <= L(Since, Over - 1) /\ L(t, t + Hour - 1) \in Nat
        <5>1. L(t, t + Hour - 1) <= L(Since, Over - 1)
          BY <1>7, <3>0, <3>a, <3>2
        <5> QED BY <1>5, <3>0, <5>1
      <4> QED BY <1>2, <1>6, <2>3, <3>1, <4>1
    <3>3. CASE t < Since
      <4>1. L(t, t + Hour - 1) <= L(t, Since - 1) + L(Since, t + Hour - 1)
        BY <1>2, <3>0, LoadSplit DEF L
      <4>2. L(t, Since - 1) <= L(Since - Hour + 1, Since - 1)
        BY <1>7, <2>3, <3>0
      <4>3. /\ L(t, Since - 1) \in Nat /\ L(Since - Hour + 1, Since - 1) \in Nat
            /\ L(t, t + Hour - 1) \in Nat
        BY <1>5, <2>3, <3>0
      <4> QED BY <1>2, <1>6, <2>3, <3>1, <4>1, <4>2, <4>3
    <3> QED BY <1>2, <3>0, <3>2, <3>3
  <2>10. \A t \in Nat : M(t, t + Hour - 1) < 2 * MaxSends
    BY <1>9, <2>9
  <2>11. LoadInv'
    <3>1. sends'.count - 1 = sends.count
      BY <1>2, <2>2
    <3> QED BY <1>1, <2>2, <2>5, <2>6, <2>7, <2>8, <2>10, <3>1 DEF LoadInv, L, M
  <2> QED BY <1>4, <2>4, <2>11
<1>11. CASE a >= Over /\ req[p].sends = [count |-> 1, resetAt |-> a + Hour]
  <2>1. sends' = [count |-> 1, resetAt |-> a + Hour]
    BY <1>1, <1>11
  <2>2. Over' = a + Hour /\ Since' = a /\ sends'.count = 1
    <3>1. Over' = a + Hour /\ sends'.count = 1 /\ Since' = Over' - Hour
      BY <2>1 DEF Over, Since
    <3> QED BY <1>2, <3>1
  <2>3. /\ a + Hour - 1 \in Int /\ a + 1 \in Int /\ a - Hour + 1 \in Int /\ a - 1 \in Int
        /\ Since + 1 \in Int /\ Over - 1 \in Int /\ a \in Int /\ a >= Over /\ a + 1 >= Over
        /\ a < a + Hour /\ Over <= a + Hour
    <3> QED BY <1>2, <1>11
  <2>4. HourInv'
    BY <1>1, <1>2, <2>2 DEF HourInv
  <2>5. Below(sentAt, req', a + Hour)
    <3>1. \A c \in Codes : sentAt[c] # 0 => sentAt[c] < a + Hour
      BY <1>2, <1>6, <2>3 DEF Below, Times
    <3>2. ASSUME NEW q \in Procs, req'[q].pc = "put" PROVE req'[q].at < a + Hour
      <4>1. CASE q = p
        BY <1>3, <2>3, <4>1
      <4>2. CASE q # p
        <5>1. req[q].at \in Nat /\ req[q].at < Over /\ req'[q].at = req[q].at
          BY <1>2, <1>3, <1>6, <3>2, <4>2 DEF Below, Times
        <5> QED BY <1>2, <2>3, <5>1
      <4> QED BY <4>1, <4>2
    <3> QED BY <3>1, <3>2 DEF Below
  <2>6. M(a, a + Hour - 1) <= 1
    <3>1. L(a, a + Hour - 1) = 0
      BY <1>2, <1>6, <2>3, LoadNone DEF L
    <3>2. M(a, a + Hour - 1) <= L(a, a + Hour - 1) + 1
      BY <1>5, <2>3
    <3> QED BY <3>1, <3>2
  <2>7. M(a + 1, a + Hour - 1) <= 0
    <3>1. L(a + 1, a + Hour - 1) = 0
      BY <1>2, <1>6, <2>3, LoadNone DEF L
    <3>2. a \notin (a + 1)..(a + Hour - 1)
      BY <2>3
    <3>3. M(a + 1, a + Hour - 1) <= L(a + 1, a + Hour - 1)
      BY <1>5, <2>3, <3>2
    <3> QED BY <3>1, <3>3
  \* What is within an hour before it is in the last hour, without its first.
  <2>8. ASSUME NEW lo \in Int, NEW hi \in Int, lo >= a - Hour + 1
        PROVE  L(lo, hi) <= MaxSends - 1 /\ L(lo, hi) \in Nat
    <3>0. L(lo, hi) \in Nat
      BY <1>5
    <3>1. CASE sends = NoSends
      <4>1. Over <= 0
        BY <1>2, <3>1
      <4>2. L(lo, hi) = 0
        BY <1>2, <1>6, <4>1, LoadNone DEF L
      <4> QED BY <1>2, <4>2
    <3>2. CASE sends # NoSends
      <4>1. Since + 1 <= lo
        <5> QED BY <1>2, <2>3, <2>8
      <4>2. L(lo, hi) <= L(Since + 1, Over - 1) /\ L(Since + 1, Over - 1) \in Nat
        <5>1. Over - 1 >= Over - 1
          BY <1>2
        <5>2. L(lo, hi) <= L(Since + 1, Over - 1)
          BY <1>7, <2>3, <4>1, <5>1
        <5> QED BY <1>5, <2>3, <5>2
      <4> QED BY <1>2, <1>6, <3>0, <3>2, <4>2
    <3> QED BY <3>0, <3>1, <3>2
  <2>9. M(a - Hour + 1, a - 1) <= MaxSends - 1
    <3>1. L(a - Hour + 1, a - 1) <= MaxSends - 1 /\ L(a - Hour + 1, a - 1) \in Nat
      BY <2>3, <2>8
    <3>2. a \notin (a - Hour + 1)..(a - 1)
      BY <2>3
    <3>3. M(a - Hour + 1, a - 1) <= L(a - Hour + 1, a - 1) /\ M(a - Hour + 1, a - 1) \in Nat
      BY <1>5, <2>3, <3>2
    <3> QED BY <1>2, <3>1, <3>3
  <2>10. ASSUME NEW t \in Nat, a \in t..(t + Hour - 1)
         PROVE  L(t, t + Hour - 1) <= 2 * MaxSends - 2
    <3>1. t \in Int /\ t + Hour - 1 \in Int /\ t >= a - Hour + 1
      <4> QED BY <1>2, <2>10
    <3>2. L(t, t + Hour - 1) <= MaxSends - 1 /\ L(t, t + Hour - 1) \in Nat
      BY <2>8, <3>1
    <3> QED BY <1>2, <3>2
  <2>11. \A t \in Nat : M(t, t + Hour - 1) < 2 * MaxSends
    BY <1>9, <2>10
  <2>12. LoadInv'
    <3>1. /\ sends'.count = 1 /\ sends'.count - 1 = 0 /\ sentAt' = sentAt
          /\ Over' - 1 = a + Hour - 1 /\ Since' + 1 = a + 1
      BY <1>1, <1>2, <2>2, <2>3
    <3>2. Load(sentAt', req', Since', Over' - 1) <= sends'.count
      BY <2>2, <2>6, <3>1 DEF M
    <3>3. Load(sentAt', req', Since' + 1, Over' - 1) <= sends'.count - 1
      BY <2>2, <2>7, <3>1 DEF M
    <3>4. Load(sentAt', req', Since' - Hour + 1, Since' - 1) <= MaxSends - 1
      BY <2>2, <2>9, <3>1 DEF M
    <3>5. \A t \in Nat : Load(sentAt', req', t, t + Hour - 1) < 2 * MaxSends
      BY <2>11, <3>1 DEF M
    <3>6. Below(sentAt', req', Over')
      BY <2>2, <2>5, <3>1
    <3> QED BY <3>2, <3>3, <3>4, <3>5, <3>6 DEF LoadInv
  <2> QED BY <1>4, <2>4, <2>12
<1> QED BY <1>0, <1>10, <1>11 DEF BumpInv, a

-----------------------------------------------------------------------------
(* The theorems *)

LEMMA InitInv == Init => Inv
<1> SUFFICES ASSUME Init PROVE Inv
  OBVIOUS
<1>0. /\ rec = NoRec /\ cooling = 0 /\ sends = NoSends /\ now = 1 /\ tries = 0 /\ wins = 0
      /\ req = [q \in Procs |-> Idle] /\ sentAt = [c \in Codes |-> 0]
      /\ early = {} /\ revived = FALSE /\ overlap = FALSE
  BY DEF Init
<1>1. Idle \in Request /\ Idle.pc = "idle" /\ Idle.seen = NoRec /\ Idle.sends = NoSends
  BY RecordsAre DEF Idle, Request
<1>2. req \in [Procs -> Request] /\ \A q \in Procs : req[q] = Idle
  BY <1>0, <1>1
<1>3. sentAt \in [Codes -> 0..MaxTime] /\ \A c \in Codes : sentAt[c] = 0
  BY <1>0, RecordsAre
<1>4. TypeOK
  <2>1. rec \in Record /\ rec = NoRec /\ rec.attempts < MaxAttempts
    BY <1>0, RecordsAre
  <2>2. now \in 1..MaxTime /\ sends \in Window /\ cooling \in Nat /\ tries \in Nat /\ wins \in Nat
    BY <1>0, RecordsAre
  <2>3. early \in SUBSET Procs /\ revived \in BOOLEAN /\ overlap \in BOOLEAN
    BY <1>0
  <2> QED BY <1>2, <1>3, <2>1, <2>2, <2>3 DEF TypeOK
<1>5. \A q \in Procs : RequestInv(q)
  BY <1>1, <1>2, RecordsAre DEF RequestInv, At
<1>6. CodeInv
  BY <1>0, <1>3, RecordsAre DEF CodeInv
<1>7. ShutInv
  BY <1>0, <1>3, RecordsAre DEF ShutInv, Settled
<1>8. CapInv
  <2>1. Below(sentAt, req, Over)
    BY <1>1, <1>2, <1>3 DEF Below
  <2>2. Times(sentAt, req) /\ Over = 0 /\ Since \in Int
    BY <1>0, <1>4, TimesAre, RecordsAre DEF Over
  <2>3. ASSUME NEW lo \in Int, NEW hi \in Int PROVE Load(sentAt, req, lo, hi) = 0
    BY <2>1, <2>2, LoadNone
  <2>4. /\ Hour \in Nat /\ MaxSends \in Nat \ {0} /\ Over - 1 \in Int /\ Since + 1 \in Int
        /\ Since - Hour + 1 \in Int /\ Since - 1 \in Int /\ sends.count = 0
    BY <1>0, <2>2, RecordsAre
  <2>5. /\ Load(sentAt, req, Since, Over - 1) = 0
        /\ Load(sentAt, req, Since - Hour + 1, Since - 1) = 0
    BY <2>2, <2>3, <2>4
  <2>6. ASSUME NEW t \in Nat PROVE Load(sentAt, req, t, t + Hour - 1) < 2 * MaxSends
    <3>1. t \in Int /\ t + Hour - 1 \in Int
      BY <2>4
    <3>2. Load(sentAt, req, t, t + Hour - 1) = 0
      BY <2>3, <3>1
    <3> QED BY <2>4, <3>2
  <2>7. LoadInv
    BY <1>0, <2>1, <2>4, <2>5, <2>6 DEF LoadInv
  <2>8. HourInv /\ BumpsInv
    BY <1>0, <1>1, <1>2, <2>4 DEF HourInv, BumpsInv, At
  <2> QED BY <2>7, <2>8 DEF CapInv
<1>9. TriesInv
  <2>1. Levels \in [Procs -> 0..MaxAttempts] /\ Total \in Nat
    BY <1>4, LevelsAre, ProcsAreFinite, AnswersType
  <2>2. Total - tries = Total
    BY <1>0, <2>1
  <2> QED BY <1>0, <2>1, <2>2, RoomAtFirst DEF TriesInv
<1> QED BY <1>4, <1>5, <1>6, <1>7, <1>8, <1>9 DEF Inv

LEMMA BaseStep == Base /\ Next => Base'
<1> SUFFICES ASSUME Base, Next PROVE Base'
  OBVIOUS
<1>1. ASSUME NEW p \in Procs, NEW c \in Codes, Put(p, c) PROVE Base'
  BY <1>1, BasePut
<1>2. ASSUME NEW p \in Procs, NEW right \in BOOLEAN, Verify(p, right) PROVE Base'
  BY <1>2, BaseVerify
<1>3. ASSUME NEW p \in Procs, Admit(p) \/ ReadCount(p) \/ WriteCount(p) PROVE Base'
  BY <1>3, BaseAdmit
<1>4. ASSUME NEW p \in Procs, Lapse(p) \/ Win(p) \/ Burn(p) \/ WriteBack(p) \/ Crash(p) PROVE Base'
  BY <1>4, BaseAnswer
<1>5. ASSUME Expire \/ Tick PROVE Base'
  BY <1>5, BaseTime
<1> QED BY <1>1, <1>2, <1>3, <1>4, <1>5 DEF Next

LEMMA NextInv == Inv /\ Next => Inv'
<1> SUFFICES ASSUME Inv, Next PROVE Inv'
  OBVIOUS
<1>0. Base /\ Base' /\ ShutInv /\ CapInv /\ TriesInv
  <2>1. Base /\ ShutInv /\ CapInv /\ TriesInv
    BY DEF Inv, Base
  <2> QED BY <2>1, BaseStep
<1> DEFINE Rest == ShutInv' /\ CapInv' /\ TriesInv'
<1>1. ASSUME NEW p \in Procs, NEW c \in Codes, Put(p, c) PROVE Rest
  BY <1>0, <1>1, ShutPut, CapPut, TriesPut
<1>2. ASSUME NEW p \in Procs, NEW right \in BOOLEAN, Verify(p, right) PROVE Rest
  <2>1. ShutInv' /\ TriesInv'
    BY <1>0, <1>2, ShutVerify, TriesVerify
  <2>2. CapInv'
    BY <1>0, <1>2, CapVerify
  <2> QED BY <2>1, <2>2
<1>3. ASSUME NEW p \in Procs, Admit(p) \/ ReadCount(p) \/ WriteCount(p) PROVE Rest
  <2>1. ShutInv' /\ TriesInv'
    BY <1>0, <1>3, ShutAdmit, TriesAdmit DEF Quiet
  <2>2. CapInv'
    BY <1>0, <1>3, CapVerify, CapRead, CapWrite
  <2> QED BY <2>1, <2>2
<1>4. ASSUME NEW p \in Procs, Lapse(p) \/ Win(p) \/ Burn(p) \/ WriteBack(p) \/ Crash(p) PROVE Rest
  BY <1>0, <1>4, ShutAnswer, CapVerify, TriesAnswer
<1>5. ASSUME Expire \/ Tick PROVE Rest
  BY <1>0, <1>5, ShutTime, CapTime, TriesTime
<1>6. Rest
  BY <1>1, <1>2, <1>3, <1>4, <1>5 DEF Next
<1> QED BY <1>0, <1>6 DEF Inv, Base

LEMMA StutterInv == Inv /\ UNCHANGED vars => Inv'
<1> SUFFICES ASSUME Inv, UNCHANGED vars PROVE Inv'
  OBVIOUS
<1>1. UNCHANGED <<rec, cooling, sends, now, req, sentAt, tries, wins, early, revived, overlap>>
  BY DEF vars
<1>2. TypeOK' /\ (\A p \in Procs : RequestInv(p)') /\ CodeInv'
  BY <1>1 DEF Inv, TypeOK, RequestInv, At, CodeInv
<1>3. ShutInv'
  <2>1. Holding' = Holding
    BY <1>1 DEF Holding
  <2> QED BY <1>1, <2>1 DEF Inv, ShutInv, Settled
<1>4. CapInv'
  <2>1. HourInv' <=> HourInv
    BY <1>1 DEF HourInv, Since
  <2>2. BumpsInv' <=> BumpsInv
    BY <1>1 DEF BumpsInv, BumpInv, At, Over, Since
  <2>3. LoadInv' <=> LoadInv
    BY <1>1 DEF LoadInv, Over, Since
  <2> QED BY <1>1, <2>1, <2>2, <2>3 DEF Inv, CapInv
<1>5. TriesInv'
  BY <1>1 DEF Inv, TriesInv, Levels, Level, Floor, Holding
<1> QED BY <1>2, <1>3, <1>4, <1>5 DEF Inv

\* The inductive invariant: the types, what each request has read, that settled
\* codes are gone, what the hours have seen of sends, and room for the answers
\* that are still to come (otp.service.ts, all of generateAndSend and verify).
THEOREM InvHolds == Spec => []Inv
<1>1. Inv /\ [Next]_vars => Inv'
  BY NextInv, StutterInv
<1> QED BY InitInv, <1>1, PTL DEF Spec

\* The record, the counts and the requests keep their types, and no record is
\* stored with its attempts used up (otp.service.ts:187).
THEOREM TypeCorrect == Spec => []TypeOK
<1>1. Inv => TypeOK
  BY DEF Inv
<1> QED BY <1>1, InvHolds, PTL

\* However many verifications overlap, and whatever they bring back, no code is
\* answered on more often than there are ways to choose the attempts that count
\* (otp.service.ts:22, :187-203).
THEOREM TriesBounded == Spec => []TriesAreBounded
<1>1. Inv => TriesAreBounded
  <2> SUFFICES ASSUME Inv PROVE TriesAreBounded
    OBVIOUS
  <2>1. Total \in Nat /\ tries \in Nat /\ Room(Counts(Levels), Total - tries)
    BY ProcsAreFinite, AnswersType DEF Inv, TypeOK, TriesInv
  <2>2. Total - tries \in Int /\ Total - tries <= Total - tries
    BY <2>1
  <2>3. Total - tries >= 0
    BY <2>1, <2>2, RoomEases
  <2> QED BY <2>1, <2>3 DEF TriesAreBounded, Total
<1> QED BY <1>1, InvHolds, PTL

\* Where no send reads the count while another is about to write it, no rolling
\* hour sees twice the cap (otp.service.ts:24, :220-242).
THEOREM RollingCapHolds == Spec => []RollingCap
<1>1. Inv => RollingCap
  <2> SUFFICES ASSUME Inv, ~overlap, NEW t \in 1..MaxTime
               PROVE  Cardinality({c \in Codes : sentAt[c] \in t..(t + Hour - 1)}) < 2 * MaxSends
    BY DEF RollingCap
  <2>1. t \in Nat /\ t # 0 /\ t \in Int /\ t + Hour - 1 \in Int /\ MaxSends \in Nat
    BY RecordsAre
  <2>2. Load(sentAt, req, t, t + Hour - 1) < 2 * MaxSends
    BY <2>1 DEF Inv, CapInv, LoadInv
  <2>3. {c \in Codes : sentAt[c] \in t..(t + Hour - 1)} = SentIn(sentAt, t, t + Hour - 1)
    BY <2>1 DEF SentIn
  <2>4. /\ Cardinality(SentIn(sentAt, t, t + Hour - 1)) \in Nat
        /\ Cardinality(DueIn(req, t, t + Hour - 1)) \in Nat
        /\ Load(sentAt, req, t, t + Hour - 1)
             = Cardinality(SentIn(sentAt, t, t + Hour - 1)) + Cardinality(DueIn(req, t, t + Hour - 1))
    BY <2>1, LoadIs
  <2>5. Cardinality(SentIn(sentAt, t, t + Hour - 1)) < 2 * MaxSends
    BY <2>1, <2>2, <2>4
  <2> QED BY <2>3, <2>5
<1> QED BY <1>1, InvHolds, PTL

\* A code that was accepted or replaced is accepted again only by one that had
\* read it before, or once such a one has written it back (otp.service.ts:183).
THEOREM SettledStaysShut == Spec => SettledCodeStaysShut
<1> DEFINE Shut == wins' > wins /\ Settled => \/ revived
                                              \/ \E p \in early : At(p, "win") /\ req'[p] = Idle
<1>1. Inv /\ [Next]_vars => Shut
  <2> SUFFICES ASSUME Inv, [Next]_vars, wins' > wins, Settled
               PROVE  revived \/ \E p \in early : At(p, "win") /\ req'[p] = Idle
    OBVIOUS
  <2>1. wins' # wins
    BY DEF Inv, TypeOK
  <2>2. Next
    BY <2>1 DEF vars
  <2> QED BY <2>2, WinsAreShut DEF Inv, Base
<1>2. Inv /\ [Next]_vars => [/\ wins' > wins
                             /\ wins > 0 \/ \E d \in Codes : d > Watched /\ sentAt[d] # 0
                             => \/ revived
                                \/ \E p \in early : At(p, "win") /\ req'[p] = Idle]_vars
  BY <1>1 DEF Settled
<1> QED BY <1>2, InvHolds, PTL DEF Spec, SettledCodeStaysShut
=============================================================================
