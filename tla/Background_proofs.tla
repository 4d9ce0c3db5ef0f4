-------------------------- MODULE Background_proofs --------------------------
(***************************************************************************)
(* Proofs about what goes on behind the requests: the deliveries of        *)
(* security events (SsfDelivery), for any events, streams and overlapping  *)
(* drains, and the reloads of settings (SettingsStore), for any processes  *)
(* and administrators.  The two share no state, only this module.          *)
(***************************************************************************)
EXTENDS SsfDelivery, SettingsStore, FiniteSetTheorems, TLAPS

-----------------------------------------------------------------------------
(* SsfDelivery: how often a row is tried, and what an acknowledgement is worth *)

DrainType == [todo : SUBSET Sets, set : Sets \cup {NoSet}, answer : {"none", "ok", "bad"}]

\* The drains that have read row d as due and not recorded an attempt since.
Holders(d) == {w \in Drains : d \in drain[w].todo \/ drain[w].set = d}

\* A drain has in hand what it has taken off its list.
DrainInv == \A w \in Drains : drain[w].set \notin drain[w].todo

\* What is still to be served has no row yet; nor has an event not yet emitted.
EmitInv ==
  \A e \in Events :
    /\ listed[e] = {} => todo[e] = {} /\ \A s \in Streams : row[<<e, s>>].st = "none"
    /\ \A s \in todo[e] : row[<<e, s>>].st = "none"

\* The attempts a row has had and those the drains may still add; the first push
\* of a row comes before any drain sees it; an acknowledged row is in no hand
\* but one it was in when it was acknowledged.
SetInv(d) ==
  /\ row[d].st = "none" => row[d].attempts = 0 /\ push[d] = "none" /\ Holders(d) = {}
  /\ push[d] # "none" => /\ row[d].st \notin {"none", "failed"}
                         /\ row[d].attempts = 0 /\ Holders(d) = {}
  /\ row[d].attempts + Cardinality(Holders(d)) < MaxAttempts + Cardinality(Drains)
  /\ row[d].st = "acked" /\ (push[d] # "none" \/ Holders(d) # {}) => d \in crossed

Inv == TypeOK /\ DrainInv /\ EmitInv /\ \A d \in Sets : SetInv(d)

-----------------------------------------------------------------------------
(* The drains that hold a row *)

LEMMA NoSetIsNone == NoSet \notin Sets
BY DEF NoSet, Sets

LEMMA SetsArePairs ==
  \A d \in Sets : d[1] \in Events /\ d[2] \in Streams /\ d = <<d[1], d[2]>>
BY DEF Sets

LEMMA HoldersAreFinite ==
  ASSUME NEW d
  PROVE  /\ IsFiniteSet(Holders(d)) /\ Cardinality(Holders(d)) \in Nat
         /\ Cardinality(Holders(d)) <= Cardinality(Drains)
         /\ Cardinality(Drains) \in Nat \ {0}
<1>1. Holders(d) \subseteq Drains
  BY DEF Holders
<1>2. IsFiniteSet(Drains) /\ Drains # {}
  BY ConstAssumption
<1> QED BY <1>1, <1>2, FS_Subset, FS_CardinalityType, FS_EmptySet

\* The same of a set of drains, whatever the state it is read in.
LEMMA SomeDrains ==
  ASSUME NEW H \in SUBSET Drains
  PROVE  /\ IsFiniteSet(H) /\ Cardinality(H) \in Nat
         /\ Cardinality(H) <= Cardinality(Drains) /\ Cardinality(Drains) \in Nat \ {0}
         /\ \A G \in SUBSET H : Cardinality(G) \in Nat /\ Cardinality(G) <= Cardinality(H)
         /\ \A w \in H : Cardinality(H \ {w}) = Cardinality(H) - 1
         /\ H = {} => Cardinality(H) = 0
<1>1. IsFiniteSet(Drains) /\ Drains # {}
  BY ConstAssumption
<1>2. IsFiniteSet(H)
  BY <1>1, FS_Subset
<1>3. Cardinality(H) <= Cardinality(Drains) /\ Cardinality(Drains) \in Nat \ {0}
  BY <1>1, FS_Subset, FS_CardinalityType, FS_EmptySet
<1>4. \A G \in SUBSET H : Cardinality(G) \in Nat /\ Cardinality(G) <= Cardinality(H)
  BY <1>2, FS_Subset, FS_CardinalityType
<1>5. \A w \in H : Cardinality(H \ {w}) = Cardinality(H) - 1
  BY <1>2, FS_RemoveElement
<1> QED BY <1>2, <1>3, <1>4, <1>5, FS_CardinalityType, FS_EmptySet

\* A drain that changes changes only whether it holds a row itself.
LEMMA DrainGoes ==
  ASSUME TypeOK, NEW w \in Drains, NEW r \in DrainType, drain' = [drain EXCEPT ![w] = r]
  PROVE  /\ drain' \in [Drains -> DrainType]
         /\ \A d \in Sets :
              Holders(d)' = (Holders(d) \ {w})
                              \cup (IF d \in r.todo \/ r.set = d THEN {w} ELSE {})
         /\ r.set \notin r.todo /\ DrainInv => DrainInv'
BY DEF TypeOK, DrainType, Holders, DrainInv

\* A row that did not change, and came into no other hand, is as it was.
LEMMA QuietSet ==
  ASSUME TypeOK, TypeOK', NEW d \in Sets, SetInv(d),
         row'[d].st = row[d].st, row'[d].attempts = row[d].attempts,
         push'[d] # "none" => push[d] # "none",
         Holders(d)' \subseteq Holders(d), crossed \subseteq crossed'
  PROVE  SetInv(d)'
<1>1. /\ Holders(d) \in SUBSET Drains /\ Holders(d)' \in SUBSET Holders(d)
  BY DEF Holders
<1>2. /\ Cardinality(Holders(d)) \in Nat /\ Cardinality(Holders(d)') \in Nat
      /\ Cardinality(Holders(d)') <= Cardinality(Holders(d)) /\ Cardinality(Drains) \in Nat
  BY <1>1, SomeDrains
<1>3. row[d].attempts \in Nat /\ MaxAttempts \in Nat
  BY ConstAssumption DEF TypeOK, Row
<1> DEFINE H == Cardinality(Holders(d))
           HH == Cardinality(Holders(d)')
<1>4. row'[d].attempts + HH < MaxAttempts + Cardinality(Drains)
  <2>1. row[d].attempts + H < MaxAttempts + Cardinality(Drains)
    BY DEF SetInv
  <2> HIDE DEF H, HH
  <2>2. H \in Nat /\ HH \in Nat /\ HH <= H
    BY <1>2 DEF H, HH
  <2> QED BY <2>1, <2>2, <1>2, <1>3
<1> QED BY <1>1, <1>4 DEF SetInv

\* The same of every row, when only other things happened.
LEMMA QuietSets ==
  ASSUME TypeOK, TypeOK', \A d \in Sets : SetInv(d), row' = row, drain' = drain,
         \A d \in Sets : push'[d] # "none" => push[d] # "none", crossed \subseteq crossed'
  PROVE  \A d \in Sets : SetInv(d)'
<1> SUFFICES ASSUME NEW d \in Sets PROVE SetInv(d)'
  OBVIOUS
<1>1. Holders(d)' = Holders(d)
  BY DEF Holders
<1> QED BY <1>1, QuietSet

-----------------------------------------------------------------------------
(* What a recorded outcome makes of the rows, and a drain's step of the drain *)

LEMMA RecordMoves ==
  ASSUME TypeOK, NEW d \in Sets, NEW ok \in BOOLEAN, Record(d, ok)
  PROVE  /\ row' \in [Sets -> Row]
         /\ \A x \in Sets : x # d \/ ~Exists(d) => row'[x] = row[x]
         /\ Exists(d) => /\ row'[d].st \in {"delivered", "failed"}
                         /\ row'[d].st = "delivered" => row'[d].attempts = row[d].attempts
                         /\ row'[d].attempts \in {row[d].attempts, row[d].attempts + 1}
<1>1. row[d] \in Row /\ row \in [Sets -> Row]
  BY DEF TypeOK
<1> DEFINE r == IF ok THEN Delivered(row[d]) ELSE Failed(row[d])
<1>2. /\ r \in Row /\ r.st \in {"delivered", "failed"}
      /\ r.st = "delivered" => r.attempts = row[d].attempts
      /\ r.attempts \in {row[d].attempts, row[d].attempts + 1}
  BY <1>1 DEF Delivered, Failed, Row
<1>3. row' = IF ~Exists(d) THEN row ELSE [row EXCEPT ![d] = r]
  BY DEF Record
<1> HIDE DEF r
<1> QED BY <1>1, <1>2, <1>3

LEMMA DrainMoves ==
  ASSUME TypeOK, NEW w \in Drains, Drain(w)
  PROVE  \E r \in DrainType :
           /\ drain' = [drain EXCEPT ![w] = r]
           /\ r.set = NoSet /\ r.todo = {d \in Sets : Due(d) /\ d[2] \in Push}
<1> DEFINE r == [drain[w] EXCEPT !.todo = {d \in Sets : Due(d) /\ d[2] \in Push}]
<1>1. drain[w] \in DrainType /\ drain[w] = Resting
  BY DEF TypeOK, DrainType, Drain
<1>2. r \in DrainType /\ r.set = NoSet /\ r.todo = {d \in Sets : Due(d) /\ d[2] \in Push}
  BY <1>1 DEF DrainType, Resting
<1>3. drain' = [drain EXCEPT ![w] = r]
  BY DEF Drain
<1> HIDE DEF r
<1> QED BY <1>2, <1>3

LEMMA RetryMoves ==
  ASSUME TypeOK, NEW w \in Drains, NEW d \in Sets, NEW here \in BOOLEAN, NEW ok \in BOOLEAN,
         Retry(w, d, here, ok)
  PROVE  \E r \in DrainType :
           /\ drain' = [drain EXCEPT ![w] = r]
           /\ r.set = d /\ r.todo = drain[w].todo \ {d}
           /\ d \in drain[w].todo
<1> DEFINE r == [todo |-> drain[w].todo \ {d}, set |-> d, answer |-> IF ok THEN "ok" ELSE "bad"]
<1>1. drain[w] \in DrainType
  BY DEF TypeOK, DrainType
<1>2. r \in DrainType /\ r.set = d /\ r.todo = drain[w].todo \ {d}
  BY <1>1 DEF DrainType
<1>3. drain' = [drain EXCEPT ![w] = r] /\ d \in drain[w].todo
  BY DEF Retry
<1> HIDE DEF r
<1> QED BY <1>2, <1>3

\* An attempt is recorded, or lost: the drain has let go of the row.
LEMMA LetGoMoves ==
  ASSUME TypeOK, NEW w \in Drains,
         drain' = [drain EXCEPT ![w] = [@ EXCEPT !.set = NoSet, !.answer = "none"]]
  PROVE  \E r \in DrainType :
           /\ drain' = [drain EXCEPT ![w] = r]
           /\ r.set = NoSet /\ r.todo = drain[w].todo
<1> DEFINE r == [drain[w] EXCEPT !.set = NoSet, !.answer = "none"]
<1>1. drain[w] \in DrainType
  BY DEF TypeOK, DrainType
<1>2. r \in DrainType /\ r.set = NoSet /\ r.todo = drain[w].todo
  BY <1>1 DEF DrainType
<1>3. drain' = [drain EXCEPT ![w] = r]
  OBVIOUS
<1> HIDE DEF r
<1> QED BY <1>2, <1>3

LEMMA RestingDrain == Resting \in DrainType /\ Resting.todo = {} /\ Resting.set = NoSet
BY DEF Resting, DrainType

-----------------------------------------------------------------------------
(* The types, kept by every step *)

LEMMA TypeOfEmitter ==
  ASSUME TypeOK, EmitInv, NEW e \in Events, NEW s \in Streams,
         Emit(e) \/ EmitVerification(e, s) \/ Create(e, s) \/ EmissionLost(e)
  PROVE  TypeOK'
<1> USE SetsArePairs
<1>1. ASSUME Emit(e) PROVE TypeOK'
  BY <1>1 DEF TypeOK, Emit
<1>2. ASSUME EmitVerification(e, s) PROVE TypeOK'
  BY <1>2 DEF TypeOK, EmitVerification
<1>3. ASSUME Create(e, s) PROVE TypeOK'
  <2> DEFINE d == <<e, s>>
             r == [row[d] EXCEPT !.st = "pending"]
  <2>1. d \in Sets /\ row[d] \in Row /\ e \in Events /\ s \in Streams
    BY DEF TypeOK, Sets
  <2>2. r \in Row /\ r.st = "pending"
    BY <2>1 DEF Row
  <2>3. \/ row' = row /\ push' = push
        \/ /\ row' = [row EXCEPT ![d] = r]
           /\ push' = push \/ push' = [push EXCEPT ![d] = "sent"]
    BY <1>3 DEF Create
  <2>5. {e} \X todo[e] \subseteq Sets
    BY DEF TypeOK, Sets
  <2>6. todo' \in [Events -> SUBSET Streams] /\ dropped' \in SUBSET Sets
    BY <1>3, <2>5 DEF Create, TypeOK
  <2> HIDE DEF r, d
  <2> DEFINE Pushes == {"none", "sent", "ok", "bad"}
  <2>a. row \in [Sets -> Row] /\ push \in [Sets -> Pushes] /\ "sent" \in Pushes
    BY DEF TypeOK
  <2>b. \A x \in Sets : push[x] # "none" => row[x].st # "none"
    BY DEF TypeOK
  <2> HIDE DEF Pushes
  <2>7. row' \in [Sets -> Row] /\ push' \in [Sets -> Pushes]
    BY <2>1, <2>2, <2>3, <2>a
  <2>8. \A x \in Sets : push'[x] # "none" => row'[x].st # "none"
    BY <2>1, <2>2, <2>3, <2>a, <2>b
  <2> USE DEF Pushes
  <2> QED BY <1>3, <2>6, <2>7, <2>8 DEF Create, TypeOK
<1>4. ASSUME EmissionLost(e) PROVE TypeOK'
  <2>1. {e} \X todo[e] \subseteq Sets
    BY DEF TypeOK, Sets
  <2> QED BY <1>4, <2>1, ConstAssumption DEF TypeOK, EmissionLost, Fault
<1> QED BY <1>1, <1>2, <1>3, <1>4

LEMMA TypeOfPush ==
  ASSUME TypeOK, NEW d \in Sets,
         Deliver(d) \/ PushLost(d) \/ BackoffOver(d)
  PROVE  TypeOK'
<1>1. ASSUME NEW here \in BOOLEAN, NEW ok \in BOOLEAN, Fetch(d, here, ok) PROVE TypeOK'
  BY <1>1 DEF TypeOK, Fetch, Reached
<1>2. ASSUME RecordPush(d) PROVE TypeOK'
  <2>1. Record(d, push[d] = "ok") /\ (push[d] = "ok") \in BOOLEAN
    BY <1>2 DEF RecordPush
  <2>2. /\ row' \in [Sets -> Row]
        /\ \A x \in Sets : x # d \/ ~Exists(d) => row'[x] = row[x]
        /\ Exists(d) => row'[d].st \in {"delivered", "failed"}
    BY <2>1, RecordMoves
  <2>3. \A x \in Sets : push'[x] # "none" => row'[x].st # "none"
    BY <1>2, <2>2 DEF TypeOK, RecordPush
  <2> QED BY <1>2, <2>2, <2>3 DEF TypeOK, RecordPush
<1>3. ASSUME PushLost(d) PROVE TypeOK'
  BY <1>3, ConstAssumption DEF TypeOK, PushLost, Fault
<1>4. ASSUME BackoffOver(d) PROVE TypeOK'
  <2> DEFINE r == [row[d] EXCEPT !.due = TRUE]
  <2>a. row[d] \in Row
    BY DEF TypeOK
  <2>1. r \in Row /\ r.st = row[d].st
    BY <2>a DEF Row
  <2>2. row' = [row EXCEPT ![d] = r]
    BY <1>4 DEF BackoffOver
  <2> HIDE DEF r
  <2> QED BY <1>4, <2>1, <2>2 DEF TypeOK, BackoffOver
<1> QED BY <1>1, <1>2, <1>3, <1>4 DEF Deliver

LEMMA TypeOfDrain ==
  ASSUME TypeOK, NEW w \in Drains, Retrying(w) \/ RetryLost(w) \/ DrainLost(w)
  PROVE  TypeOK'
<1>1. ASSUME Drain(w) PROVE TypeOK'
  <2>1. drain' \in [Drains -> DrainType]
    BY <1>1, DrainMoves, DrainGoes
  <2> QED BY <1>1, <2>1 DEF TypeOK, Drain, DrainType
<1>2. ASSUME RecordRetry(w) PROVE TypeOK'
  <2> DEFINE d == drain[w].set
             ok == drain[w].answer = "ok"
  <2>1. d \in Sets /\ ok \in BOOLEAN /\ Record(d, ok)
    BY <1>2 DEF TypeOK, RecordRetry
  <2>2. /\ row' \in [Sets -> Row]
        /\ \A x \in Sets : x # d \/ ~Exists(d) => row'[x] = row[x]
        /\ Exists(d) => row'[d].st \in {"delivered", "failed"}
    BY <2>1, RecordMoves
  <2>3. drain' \in [Drains -> DrainType]
    BY <1>2, LetGoMoves, DrainGoes DEF RecordRetry
  <2>4. \A x \in Sets : push'[x] # "none" => row'[x].st # "none"
    BY <1>2, <2>2 DEF TypeOK, RecordRetry
  <2> QED BY <1>2, <2>2, <2>3, <2>4 DEF TypeOK, RecordRetry, DrainType
<1>3. ASSUME NEW d \in Sets, NEW here \in BOOLEAN, NEW ok \in BOOLEAN, Retry(w, d, here, ok)
      PROVE  TypeOK'
  <2>1. drain' \in [Drains -> DrainType]
    BY <1>3, RetryMoves, DrainGoes
  <2>2. got' \in SUBSET Sets
    BY <1>3 DEF TypeOK, Retry, Reached
  <2> QED BY <1>3, <2>1, <2>2 DEF TypeOK, Retry, DrainType
<1>4. ASSUME RetryLost(w) PROVE TypeOK'
  <2>1. drain' \in [Drains -> DrainType]
    BY <1>4, LetGoMoves, DrainGoes DEF RetryLost
  <2> QED BY <1>4, <2>1, ConstAssumption DEF TypeOK, RetryLost, DrainType, Fault
<1>5. ASSUME DrainLost(w) PROVE TypeOK'
  <2>1. drain' \in [Drains -> DrainType]
    BY <1>5, RestingDrain, DrainGoes DEF DrainLost
  <2> QED BY <1>5, <2>1, ConstAssumption DEF TypeOK, DrainLost, DrainType, Fault
<1> QED BY <1>1, <1>2, <1>3, <1>4, <1>5 DEF Retrying

LEMMA TypeOfStream ==
  ASSUME TypeOK, NEW s \in Streams, NEW A \in SUBSET Sets, NEW st \in {"enabled", "disabled"},
         Poll(s) \/ Remove(s) \/ Ack(s, A) \/ SetStatus(s, st)
  PROVE  TypeOK'
<1>1. ASSUME Poll(s) PROVE TypeOK'
  BY <1>1 DEF TypeOK, Poll
<1>2. ASSUME Remove(s) PROVE TypeOK'
  <2> DEFINE gone == [NoRow EXCEPT !.st = "deleted"]
  <2>1. gone \in Row /\ gone.st = "deleted"
    BY DEF NoRow, Row
  <2>2. row' = [d \in Sets |-> IF d[2] = s /\ Exists(d) THEN gone ELSE row[d]]
    BY <1>2 DEF Remove
  <2> HIDE DEF gone
  <2>3. row' \in [Sets -> Row]
    BY <2>1, <2>2 DEF TypeOK
  <2>4. \A x \in Sets : push'[x] # "none" => row'[x].st # "none"
    BY <1>2, <2>1, <2>2 DEF TypeOK, Remove
  <2> QED BY <1>2, <2>3, <2>4 DEF TypeOK, Remove
<1>3. ASSUME Ack(s, A) PROVE TypeOK'
  <2>1. \A d \in Sets : [row[d] EXCEPT !.st = "acked"] \in Row
    BY DEF TypeOK, Row
  <2>2. row' \in [Sets -> Row]
    BY <1>3, <2>1 DEF TypeOK, Ack
  <2>3. \A x \in Sets : row'[x].st = row[x].st \/ row'[x].st = "acked"
    BY <1>3 DEF TypeOK, Ack, Row
  <2>4. crossed' \in SUBSET Sets /\ push' = push
    BY <1>3 DEF TypeOK, Ack
  <2> QED BY <1>3, <2>2, <2>3, <2>4 DEF TypeOK, Ack
<1>4. ASSUME SetStatus(s, st) PROVE TypeOK'
  BY <1>4 DEF TypeOK, SetStatus
<1> QED BY <1>1, <1>2, <1>3, <1>4

-----------------------------------------------------------------------------
(* A drain's list and the row in its hand *)

LEMMA DrainStep ==
  ASSUME TypeOK, DrainInv, Next
  PROVE  DrainInv'
<1>1. ASSUME drain' = drain PROVE DrainInv'
  BY <1>1 DEF DrainInv
<1>2. ASSUME NEW w \in Drains, Retrying(w) \/ RetryLost(w) \/ DrainLost(w) PROVE DrainInv'
  <2>0. \A x \in Drains : drain[x].todo \in SUBSET Sets
    BY DEF TypeOK
  <2>a. ASSUME NEW r \in DrainType, drain' = [drain EXCEPT ![w] = r], r.set \notin r.todo
        PROVE  DrainInv'
    BY <2>a, DrainGoes
  <2>1. ASSUME Drain(w) PROVE DrainInv'
    <3>1. PICK r \in DrainType : /\ drain' = [drain EXCEPT ![w] = r] /\ r.set = NoSet
                                 /\ r.todo \in SUBSET Sets
      BY <2>1, DrainMoves DEF DrainType
    <3> QED BY <2>a, <3>1, NoSetIsNone
  <2>2. ASSUME RecordRetry(w) PROVE DrainInv'
    <3>1. PICK r \in DrainType : /\ drain' = [drain EXCEPT ![w] = r] /\ r.set = NoSet
                                 /\ r.todo = drain[w].todo
      BY <2>2, LetGoMoves DEF RecordRetry
    <3> QED BY <2>0, <2>a, <3>1, NoSetIsNone
  <2>3. ASSUME NEW d \in Sets, NEW here \in BOOLEAN, NEW ok \in BOOLEAN, Retry(w, d, here, ok)
        PROVE  DrainInv'
    <3>1. PICK r \in DrainType : /\ drain' = [drain EXCEPT ![w] = r] /\ r.set = d
                                 /\ r.todo = drain[w].todo \ {d}
      BY <2>3, RetryMoves
    <3> QED BY <2>a, <3>1
  <2>4. ASSUME RetryLost(w) PROVE DrainInv'
    <3>1. PICK r \in DrainType : /\ drain' = [drain EXCEPT ![w] = r] /\ r.set = NoSet
                                 /\ r.todo = drain[w].todo
      BY <2>4, LetGoMoves DEF RetryLost
    <3> QED BY <2>0, <2>a, <3>1, NoSetIsNone
  <2>5. ASSUME DrainLost(w) PROVE DrainInv'
    BY <2>5, RestingDrain, DrainGoes DEF DrainLost
  <2> QED BY <1>2, <2>1, <2>2, <2>3, <2>4, <2>5 DEF Retrying
<1>3. ASSUME NEW d \in Sets, Deliver(d) \/ PushLost(d) \/ BackoffOver(d) PROVE drain' = drain
  BY <1>3 DEF Deliver, RecordPush, Fetch, PushLost, BackoffOver
<1> QED
  <2>1. ASSUME NEW e \in Events, Emit(e) \/ Serve(e) \/ EmissionLost(e)
                              \/ \E s \in Streams : EmitVerification(e, s)
        PROVE  drain' = drain
    BY <2>1 DEF Emit, EmitVerification, Serve, Create, EmissionLost
  <2>2. ASSUME NEW s \in Streams,
               \/ Poll(s) \/ Remove(s)
               \/ \E A \in SUBSET Sets : Ack(s, A)
               \/ \E st \in {"enabled", "disabled"} : SetStatus(s, st)
        PROVE  drain' = drain
    BY <2>2 DEF Poll, Remove, Ack, SetStatus
  <2> QED BY <1>1, <1>2, <1>3, <2>1, <2>2 DEF Next

-----------------------------------------------------------------------------
(* What is still to be served has no row *)

\* A step that neither emits nor serves gives no row to what has none.
LEMMA EmitQuiet ==
  ASSUME TypeOK, EmitInv, todo' = todo, listed' = listed,
         \A d \in Sets : row[d].st = "none" => row'[d].st = "none"
  PROVE  EmitInv'
<1>1. \A e \in Events, s \in Streams : <<e, s>> \in Sets
  BY DEF Sets
<1>2. \A e \in Events : todo[e] \subseteq Streams
  BY DEF TypeOK
<1> QED BY <1>1, <1>2 DEF EmitInv

LEMMA EmitOfEmitter ==
  ASSUME TypeOK, TypeOK', EmitInv, NEW e \in Events, NEW s \in Streams,
         Emit(e) \/ EmitVerification(e, s) \/ Create(e, s) \/ EmissionLost(e)
  PROVE  EmitInv'
<1>a. \A x \in Events, y \in Streams : <<x, y>> \in Sets
  BY DEF Sets
<1>b. \A x \in Events : todo[x] \subseteq Streams /\ todo'[x] \subseteq Streams
  BY DEF TypeOK
<1>1. ASSUME Emit(e) PROVE EmitInv'
  <2>1. listed' = [listed EXCEPT ![e] = {x \in Streams : stream[x] = "enabled"}]
        /\ listed'[e] # {} /\ todo' = [todo EXCEPT ![e] = listed'[e]] /\ row' = row
    BY <1>1 DEF Emit, TypeOK
  <2> QED BY <1>1, <1>a, <1>b, <2>1 DEF EmitInv, Emit, TypeOK
<1>2. ASSUME EmitVerification(e, s) PROVE EmitInv'
  <2>1. /\ listed'[e] = {s} /\ todo'[e] = {s} /\ listed[e] = {} /\ row' = row
        /\ \A x \in Events \ {e} : listed'[x] = listed[x] /\ todo'[x] = todo[x]
    BY <1>2 DEF EmitVerification, TypeOK
  <2>2. listed'[e] # {} /\ \A x \in Streams : row[<<e, x>>].st = "none"
    BY <2>1 DEF EmitInv
  <2> QED BY <2>1, <2>2 DEF EmitInv
<1>3. ASSUME Create(e, s) PROVE EmitInv'
  <2>1. listed' = listed /\ listed[e] # {} /\ s \in todo[e]
    BY <1>3 DEF Create, EmitInv
  <2>2. todo'[e] \subseteq todo[e] \ {s} /\ \A x \in Events \ {e} : todo'[x] = todo[x]
    BY <1>3 DEF Create, TypeOK
  <2>3. \A d \in Sets : d # <<e, s>> => row'[d] = row[d]
    BY <1>3, <1>a DEF Create, TypeOK
  <2> QED BY <1>a, <1>b, <2>1, <2>2, <2>3 DEF EmitInv
<1>4. ASSUME EmissionLost(e) PROVE EmitInv'
  BY <1>4, <1>a, <1>b DEF EmitInv, EmissionLost, TypeOK
<1> QED BY <1>1, <1>2, <1>3, <1>4

LEMMA EmitOfOthers ==
  ASSUME TypeOK, EmitInv,
         \/ \E d \in Sets : Deliver(d) \/ PushLost(d) \/ BackoffOver(d)
         \/ \E w \in Drains : Retrying(w) \/ RetryLost(w) \/ DrainLost(w)
         \/ \E s \in Streams : \/ Poll(s) \/ Remove(s)
                               \/ \E A \in SUBSET Sets : Ack(s, A)
                               \/ \E st \in {"enabled", "disabled"} : SetStatus(s, st)
  PROVE  EmitInv'
<1>1. ASSUME NEW d \in Sets, NEW ok \in BOOLEAN, Record(d, ok)
      PROVE  \A x \in Sets : row[x].st = "none" => row'[x].st = "none"
  BY <1>1, RecordMoves DEF Exists
<1>2. ASSUME NEW d \in Sets, Deliver(d) \/ PushLost(d) \/ BackoffOver(d) PROVE EmitInv'
  <2>1. ASSUME row' = row, todo' = todo, listed' = listed PROVE EmitInv'
    BY <2>1, EmitQuiet
  <2>2. ASSUME RecordPush(d) PROVE EmitInv'
    <3>1. (push[d] = "ok") \in BOOLEAN /\ Record(d, push[d] = "ok")
      BY <2>2 DEF RecordPush
    <3> QED BY <1>1, <2>2, <3>1, EmitQuiet DEF RecordPush
  <2>3. ASSUME BackoffOver(d) PROVE EmitInv'
    BY <2>3, EmitQuiet DEF BackoffOver, TypeOK
  <2> QED BY <1>2, <2>1, <2>2, <2>3 DEF Deliver, Fetch, PushLost
<1>3. ASSUME NEW w \in Drains, Retrying(w) \/ RetryLost(w) \/ DrainLost(w) PROVE EmitInv'
  <2>1. ASSUME row' = row, todo' = todo, listed' = listed PROVE EmitInv'
    BY <2>1, EmitQuiet
  <2>2. ASSUME RecordRetry(w) PROVE EmitInv'
    <3>1. /\ drain[w].set \in Sets /\ (drain[w].answer = "ok") \in BOOLEAN
          /\ Record(drain[w].set, drain[w].answer = "ok")
      BY <2>2 DEF RecordRetry, TypeOK
    <3> QED BY <1>1, <2>2, <3>1, EmitQuiet DEF RecordRetry
  <2> QED BY <1>3, <2>1, <2>2 DEF Retrying, Drain, Retry, RetryLost, DrainLost
<1>4. ASSUME NEW s \in Streams, NEW A \in SUBSET Sets, NEW st \in {"enabled", "disabled"},
             Poll(s) \/ Remove(s) \/ Ack(s, A) \/ SetStatus(s, st)
      PROVE  EmitInv'
  <2>1. todo' = todo /\ listed' = listed
    BY <1>4 DEF Poll, Remove, Ack, SetStatus
  <2>2. \A x \in Sets : row[x].st = "none" => row'[x] = row[x]
    BY <1>4 DEF Poll, Remove, Ack, SetStatus, Exists
  <2> QED BY <2>1, <2>2, EmitQuiet
<1> QED BY <1>2, <1>3, <1>4

LEMMA EmitStep ==
  ASSUME TypeOK, TypeOK', EmitInv, Next
  PROVE  EmitInv'
<1>1. ASSUME NEW e \in Events, Emit(e) \/ Serve(e) \/ EmissionLost(e)
                            \/ \E s \in Streams : EmitVerification(e, s)
      PROVE  EmitInv'
  <2>1. \E s \in Streams : TRUE
    BY <1>1 DEF Emit, Serve, EmissionLost, TypeOK
  <2> QED BY <1>1, <2>1, EmitOfEmitter DEF Serve
<1> QED BY <1>1, EmitOfOthers DEF Next

-----------------------------------------------------------------------------
(* Each row's attempts, its first push and its acknowledgement *)

LEMMA SetOfEmitter ==
  ASSUME TypeOK, TypeOK', EmitInv, \A d \in Sets : SetInv(d),
         NEW e \in Events, NEW s \in Streams,
         Emit(e) \/ EmitVerification(e, s) \/ Create(e, s) \/ EmissionLost(e)
  PROVE  \A d \in Sets : SetInv(d)'
<1>1. ASSUME row' = row, drain' = drain, push' = push, crossed' = crossed
      PROVE  \A d \in Sets : SetInv(d)'
  BY <1>1, QuietSets
<1>2. ASSUME Create(e, s), stream[s] # "removed" PROVE \A d \in Sets : SetInv(d)'
  <2> DEFINE x == <<e, s>>
             r == [row[x] EXCEPT !.st = "pending"]
  <2>1. x \in Sets /\ row[x] \in Row /\ row[x].st = "none"
    BY <1>2 DEF TypeOK, Sets, EmitInv, Create
  <2>2. r.st = "pending" /\ r.attempts = row[x].attempts
    BY <2>1 DEF Row
  <2>3. /\ row' = [row EXCEPT ![x] = r] /\ crossed' = crossed /\ drain' = drain
        /\ push' = push \/ push' = [push EXCEPT ![x] = "sent"]
    BY <1>2 DEF Create
  <2> HIDE DEF x, r
  <2>4. SUFFICES ASSUME NEW d \in Sets PROVE SetInv(d)'
    OBVIOUS
  <2>5. Holders(d)' = Holders(d)
    BY <2>3 DEF Holders
  <2>6. CASE d # x
    BY <2>1, <2>3, <2>5, <2>6, QuietSet DEF TypeOK
  <2>7. CASE d = x
    <3>1. row'[d].st = "pending" /\ row'[d].attempts = row[d].attempts
      BY <2>1, <2>2, <2>3, <2>7 DEF TypeOK
    <3>2. row[d].attempts = 0 /\ Holders(d) = {} /\ SetInv(d)
      BY <2>1, <2>7 DEF SetInv
    <3>3. /\ row[d].attempts + Cardinality(Holders(d)) < MaxAttempts + Cardinality(Drains)
      BY <3>2 DEF SetInv
    <3> QED BY <2>5, <3>1, <3>2, <3>3 DEF SetInv
  <2> QED BY <2>6, <2>7
<1> QED BY <1>1, <1>2 DEF Emit, EmitVerification, Create, EmissionLost

LEMMA SetOfPush ==
  ASSUME TypeOK, TypeOK', \A d \in Sets : SetInv(d), NEW x \in Sets,
         Deliver(x) \/ PushLost(x) \/ BackoffOver(x)
  PROVE  \A d \in Sets : SetInv(d)'
<1>1. ASSUME NEW here \in BOOLEAN, NEW ok \in BOOLEAN, Fetch(x, here, ok)
      PROVE  \A d \in Sets : SetInv(d)'
  <2>1. \A d \in Sets : push'[d] # "none" => push[d] # "none"
    BY <1>1 DEF Fetch, TypeOK
  <2> QED BY <1>1, <2>1, QuietSets DEF Fetch
<1>2. ASSUME PushLost(x) PROVE \A d \in Sets : SetInv(d)'
  <2>1. \A d \in Sets : push'[d] # "none" => push[d] # "none"
    BY <1>2 DEF PushLost, TypeOK
  <2> QED BY <1>2, <2>1, QuietSets DEF PushLost
<1>3. ASSUME BackoffOver(x), NEW d \in Sets PROVE SetInv(d)'
  <2>1. row'[d].st = row[d].st /\ row'[d].attempts = row[d].attempts
    BY <1>3 DEF BackoffOver, TypeOK, Row
  <2>2. Holders(d)' = Holders(d) /\ push' = push /\ crossed' = crossed
    BY <1>3 DEF BackoffOver, Holders
  <2> QED BY <2>1, <2>2, QuietSet
<1>4. ASSUME RecordPush(x), NEW d \in Sets PROVE SetInv(d)'
  <2>1. (push[x] = "ok") \in BOOLEAN /\ Record(x, push[x] = "ok") /\ push[x] # "none"
    BY <1>4 DEF RecordPush
  <2>2. /\ \A y \in Sets : y # x \/ ~Exists(x) => row'[y] = row[y]
        /\ Exists(x) => /\ row'[x].st \in {"delivered", "failed"}
                        /\ row'[x].attempts \in {row[x].attempts, row[x].attempts + 1}
    BY <2>1, RecordMoves
  <2>3. /\ Holders(d)' = Holders(d) /\ crossed' = crossed
        /\ push' = [push EXCEPT ![x] = "none"]
    BY <1>4 DEF RecordPush, Holders
  <2>4. CASE row'[d] = row[d]
    BY <2>3, <2>4, QuietSet DEF TypeOK
  <2>5. CASE row'[d] # row[d]
    <3>1. d = x /\ row'[d].st \in {"delivered", "failed"} /\ row'[d].attempts \in {0, 1}
      BY <2>1, <2>2, <2>5 DEF SetInv
    <3>2. Holders(d)' = {} /\ push'[d] = "none"
      BY <2>1, <2>3, <3>1 DEF SetInv, TypeOK
    <3>3. Cardinality(Holders(d)') = 0
      BY <3>2, FS_EmptySet
    <3>4. Cardinality(Drains) \in Nat \ {0} /\ MaxAttempts \in Nat \ {0}
      BY SomeDrains, ConstAssumption
    <3>5. row'[d].attempts + Cardinality(Holders(d)') < MaxAttempts + Cardinality(Drains)
      BY <3>1, <3>3, <3>4
    <3> QED BY <3>1, <3>2, <3>5 DEF SetInv
  <2> QED BY <2>4, <2>5
<1> QED BY <1>1, <1>2, <1>3, <1>4 DEF Deliver

LEMMA SetOfDrain ==
  ASSUME TypeOK, TypeOK', DrainInv, \A d \in Sets : SetInv(d), NEW w \in Drains,
         Retrying(w) \/ RetryLost(w) \/ DrainLost(w)
  PROVE  \A d \in Sets : SetInv(d)'
<1>1. ASSUME Drain(w), NEW d \in Sets PROVE SetInv(d)'
  <2>1. /\ row' = row /\ push' = push /\ crossed' = crossed
    BY <1>1 DEF Drain
  <2>2. Holders(d)' = IF Due(d) /\ d[2] \in Push THEN Holders(d) \cup {w} ELSE Holders(d) \ {w}
    <3>1. PICK r \in DrainType : /\ drain' = [drain EXCEPT ![w] = r] /\ r.set = NoSet
                                 /\ r.todo = {y \in Sets : Due(y) /\ y[2] \in Push}
      BY <1>1, DrainMoves
    <3>2. d \in r.todo \/ r.set = d <=> Due(d) /\ d[2] \in Push
      BY <3>1, NoSetIsNone
    <3>3. Holders(d)' = (Holders(d) \ {w})
                          \cup (IF d \in r.todo \/ r.set = d THEN {w} ELSE {})
      BY <3>1, DrainGoes
    <3> QED BY <3>2, <3>3
  <2>3. CASE ~(Due(d) /\ d[2] \in Push)
    BY <2>1, <2>2, <2>3, QuietSet
  <2>4. CASE Due(d) /\ d[2] \in Push
    <3>1. row[d].st = "failed" /\ row[d].attempts < MaxAttempts /\ push[d] = "none"
      BY <2>4 DEF Due, SetInv
    <3>2. Holders(d)' \in SUBSET Drains
      BY DEF Holders
    <3>3. /\ Cardinality(Holders(d)') \in Nat /\ Cardinality(Drains) \in Nat
          /\ Cardinality(Holders(d)') <= Cardinality(Drains)
      BY <3>2, SomeDrains
    <3>4. row[d].attempts \in Nat /\ MaxAttempts \in Nat
      BY ConstAssumption DEF TypeOK, Row
    <3>5. row'[d].attempts + Cardinality(Holders(d)') < MaxAttempts + Cardinality(Drains)
      BY <2>1, <3>1, <3>3, <3>4
    <3> QED BY <2>1, <3>1, <3>5 DEF SetInv
  <2> QED BY <2>3, <2>4
<1>2. ASSUME NEW x \in Sets, NEW here \in BOOLEAN, NEW ok \in BOOLEAN, Retry(w, x, here, ok),
             NEW d \in Sets
      PROVE  SetInv(d)'
  <2>1. row' = row /\ push' = push /\ crossed' = crossed
    BY <1>2 DEF Retry
  <2>2. Holders(d)' \subseteq Holders(d)
    <3>1. PICK r \in DrainType : /\ drain' = [drain EXCEPT ![w] = r] /\ r.set = x
                                 /\ r.todo = drain[w].todo \ {x} /\ x \in drain[w].todo
      BY <1>2, RetryMoves
    <3> QED BY <3>1, DrainGoes DEF Holders
  <2> QED BY <2>1, <2>2, QuietSet
<1>3. ASSUME drain' = [drain EXCEPT ![w] = [@ EXCEPT !.set = NoSet, !.answer = "none"]],
             NEW d \in Sets
      PROVE  Holders(d)' = IF drain[w].set = d THEN Holders(d) \ {w} ELSE Holders(d)
  <2>1. PICK r \in DrainType : /\ drain' = [drain EXCEPT ![w] = r] /\ r.set = NoSet
                               /\ r.todo = drain[w].todo
    BY <1>3, LetGoMoves
  <2>2. Holders(d)' = (Holders(d) \ {w}) \cup (IF d \in r.todo \/ r.set = d THEN {w} ELSE {})
    BY <2>1, DrainGoes
  <2>3. drain[w].set \notin drain[w].todo
    BY DEF DrainInv
  <2> QED BY <2>1, <2>2, <2>3, NoSetIsNone DEF Holders
<1>4. ASSUME RecordRetry(w), NEW d \in Sets PROVE SetInv(d)'
  <2> DEFINE x == drain[w].set
  <2>1. /\ x \in Sets /\ (drain[w].answer = "ok") \in BOOLEAN /\ Record(x, drain[w].answer = "ok")
    BY <1>4 DEF TypeOK, RecordRetry
  <2>2. /\ \A y \in Sets : y # x \/ ~Exists(x) => row'[y] = row[y]
        /\ Exists(x) => /\ row'[x].st \in {"delivered", "failed"}
                        /\ row'[x].attempts \in {row[x].attempts, row[x].attempts + 1}
    BY <2>1, RecordMoves
  <2>3. /\ push' = push /\ crossed' = crossed
        /\ Holders(d)' = IF x = d THEN Holders(d) \ {w} ELSE Holders(d)
    BY <1>3, <1>4 DEF RecordRetry
  <2>4. CASE row'[d] = row[d]
    BY <2>3, <2>4, QuietSet
  <2>5. CASE row'[d] # row[d]
    <3>1. /\ d = x /\ row'[d].st \in {"delivered", "failed"}
          /\ row'[d].attempts \in {row[d].attempts, row[d].attempts + 1}
      BY <2>1, <2>2, <2>5
    <3>2. w \in Holders(d) /\ Holders(d) \in SUBSET Drains /\ Holders(d)' = Holders(d) \ {w}
      BY <2>3, <3>1 DEF Holders
    <3>3. push[d] = "none" /\ row[d].st # "none"
      BY <3>2 DEF SetInv
    <3>4. /\ Cardinality(Holders(d)') = Cardinality(Holders(d)) - 1
          /\ Cardinality(Holders(d)) \in Nat /\ Cardinality(Drains) \in Nat
      BY <3>2, SomeDrains
    <3>5. row[d].attempts \in Nat /\ row'[d].attempts \in Nat /\ MaxAttempts \in Nat
      BY ConstAssumption DEF TypeOK, Row
    <3>6. row[d].attempts + Cardinality(Holders(d)) < MaxAttempts + Cardinality(Drains)
      BY DEF SetInv
    <3>7. row'[d].attempts + Cardinality(Holders(d)') < MaxAttempts + Cardinality(Drains)
      BY <3>1, <3>4, <3>5, <3>6
    <3> QED BY <2>3, <3>1, <3>3, <3>7 DEF SetInv
  <2> QED BY <2>4, <2>5
<1>5. ASSUME RetryLost(w), NEW d \in Sets PROVE SetInv(d)'
  <2>1. /\ row' = row /\ push' = push /\ crossed' = crossed /\ Holders(d)' \subseteq Holders(d)
    BY <1>3, <1>5 DEF RetryLost
  <2> QED BY <2>1, QuietSet
<1>6. ASSUME DrainLost(w), NEW d \in Sets PROVE SetInv(d)'
  <2>1. row' = row /\ push' = push /\ crossed' = crossed
    BY <1>6 DEF DrainLost
  <2>2. Holders(d)' \subseteq Holders(d)
    <3>1. d \notin Resting.todo /\ Resting.set # d /\ drain' = [drain EXCEPT ![w] = Resting]
      BY <1>6, RestingDrain, NoSetIsNone DEF DrainLost
    <3>2. Holders(d)' = (Holders(d) \ {w})
                          \cup (IF d \in Resting.todo \/ Resting.set = d THEN {w} ELSE {})
      BY <3>1, RestingDrain, DrainGoes
    <3> QED BY <3>1, <3>2
  <2> QED BY <2>1, <2>2, QuietSet
<1> QED BY <1>1, <1>2, <1>4, <1>5, <1>6 DEF Retrying

LEMMA SetOfStream ==
  ASSUME TypeOK, TypeOK', \A d \in Sets : SetInv(d),
         NEW s \in Streams, NEW A \in SUBSET Sets, NEW st \in {"enabled", "disabled"},
         Poll(s) \/ Remove(s) \/ Ack(s, A) \/ SetStatus(s, st)
  PROVE  \A d \in Sets : SetInv(d)'
<1> SUFFICES ASSUME NEW d \in Sets PROVE SetInv(d)'
  OBVIOUS
<1>0. Holders(d)' = Holders(d) /\ push' = push /\ crossed \subseteq crossed'
  BY DEF Poll, Remove, Ack, SetStatus, Holders
<1>1. CASE row'[d] = row[d]
  BY <1>0, <1>1, QuietSet
<1>2. CASE row'[d] # row[d] /\ Remove(s)
  <2>1. row'[d].st = "deleted" /\ row'[d].attempts = 0 /\ row[d].st # "none"
    BY <1>2 DEF Remove, NoRow, Exists
  <2>2. row[d].attempts + Cardinality(Holders(d)) < MaxAttempts + Cardinality(Drains)
    BY DEF SetInv
  <2>3. /\ Cardinality(Holders(d)) \in Nat /\ Cardinality(Drains) \in Nat /\ MaxAttempts \in Nat
        /\ row[d].attempts \in Nat
    BY HoldersAreFinite, ConstAssumption DEF TypeOK, Row
  <2>4. row'[d].attempts + Cardinality(Holders(d)) < MaxAttempts + Cardinality(Drains)
    BY <2>1, <2>2, <2>3
  <2>5. push[d] # "none" => Holders(d) = {}
    BY DEF SetInv
  <2> QED BY <1>0, <2>1, <2>4, <2>5 DEF SetInv
<1>3. CASE row'[d] # row[d] /\ Ack(s, A)
  <2>1. d \in A /\ row[d] \in Row /\ row'[d] = [row[d] EXCEPT !.st = "acked"] /\ Exists(d)
    BY <1>3 DEF Ack, TypeOK
  <2>2. row'[d].st = "acked" /\ row'[d].attempts = row[d].attempts
    BY <2>1 DEF Row
  <2>3. InHand(d) => d \in crossed'
    BY <1>3, <2>1 DEF Ack
  <2>4. push[d] # "none" \/ Holders(d) # {} => InHand(d)
    BY DEF InHand, Holders
  <2>5. push[d] # "none" => row[d].attempts = 0 /\ Holders(d) = {}
    BY DEF SetInv
  <2>6. row[d].attempts + Cardinality(Holders(d)) < MaxAttempts + Cardinality(Drains)
    BY DEF SetInv
  <2> QED BY <1>0, <2>2, <2>3, <2>4, <2>5, <2>6 DEF SetInv
<1> QED BY <1>1, <1>2, <1>3 DEF Poll, SetStatus

-----------------------------------------------------------------------------
(* The invariant *)

LEMMA InitInv == Init => Inv
<1> SUFFICES ASSUME Init PROVE Inv
  OBVIOUS
<1>1. NoRow \in Row /\ NoRow.st = "none" /\ NoRow.attempts = 0
  BY DEF NoRow, Row
<1>2. Resting \in DrainType /\ Resting.todo = {} /\ Resting.set = NoSet
  BY RestingDrain
<1>3. TypeOK
  BY <1>1, <1>2, ConstAssumption DEF Init, TypeOK, DrainType
<1>4. DrainInv
  BY <1>2 DEF Init, DrainInv
<1>5. EmitInv
  BY <1>1 DEF Init, EmitInv, Sets
<1>6. ASSUME NEW d \in Sets PROVE SetInv(d)
  <2>1. Holders(d) = {} /\ Cardinality(Holders(d)) = 0
    BY <1>2, NoSetIsNone, FS_EmptySet DEF Init, Holders
  <2>2. Cardinality(Drains) \in Nat \ {0} /\ MaxAttempts \in Nat \ {0}
    BY HoldersAreFinite, ConstAssumption
  <2> QED BY <1>1, <2>1, <2>2 DEF Init, SetInv
<1> QED BY <1>3, <1>4, <1>5, <1>6 DEF Inv

LEMMA StepInv == Inv /\ [Next]_vars => Inv'
<1> SUFFICES ASSUME Inv, [Next]_vars PROVE Inv'
  OBVIOUS
<1> USE DEF Inv
<1>1. CASE UNCHANGED vars
  <2>1. \A d \in Sets : Holders(d)' = Holders(d)
    BY <1>1 DEF vars, Holders
  <2>2. TypeOK' /\ DrainInv' /\ EmitInv'
    BY <1>1 DEF vars, TypeOK, DrainInv, EmitInv
  <2> QED BY <1>1, <2>1, <2>2 DEF vars, SetInv
<1>2. ASSUME NEW e \in Events, Emit(e) \/ Serve(e) \/ EmissionLost(e)
                            \/ \E s \in Streams : EmitVerification(e, s)
      PROVE  TypeOK' /\ \A d \in Sets : SetInv(d)'
  <2>1. PICK s \in Streams : Emit(e) \/ EmitVerification(e, s) \/ Create(e, s) \/ EmissionLost(e)
    BY <1>2 DEF Emit, Serve, EmissionLost, TypeOK
  <2>2. TypeOK'
    BY <2>1, TypeOfEmitter
  <2> QED BY <2>1, <2>2, SetOfEmitter
<1>3. ASSUME NEW d \in Sets, Deliver(d) \/ PushLost(d) \/ BackoffOver(d)
      PROVE  TypeOK' /\ \A x \in Sets : SetInv(x)'
  BY <1>3, TypeOfPush, SetOfPush
<1>4. ASSUME NEW w \in Drains, Retrying(w) \/ RetryLost(w) \/ DrainLost(w)
      PROVE  TypeOK' /\ \A d \in Sets : SetInv(d)'
  BY <1>4, TypeOfDrain, SetOfDrain
<1>5. ASSUME NEW s \in Streams,
             \/ Poll(s) \/ Remove(s)
             \/ \E A \in SUBSET Sets : Ack(s, A)
             \/ \E st \in {"enabled", "disabled"} : SetStatus(s, st)
      PROVE  TypeOK' /\ \A d \in Sets : SetInv(d)'
  <2>1. PICK A \in SUBSET Sets, st \in {"enabled", "disabled"} :
               Poll(s) \/ Remove(s) \/ Ack(s, A) \/ SetStatus(s, st)
    BY <1>5
  <2>2. TypeOK'
    BY <2>1, TypeOfStream
  <2> QED BY <2>1, <2>2, SetOfStream
<1>6. CASE Next
  <2>1. TypeOK' /\ \A d \in Sets : SetInv(d)'
    BY <1>2, <1>3, <1>4, <1>5, <1>6 DEF Next
  <2> QED BY <1>6, <2>1, DrainStep, EmitStep
<1> QED BY <1>1, <1>6

THEOREM InvHolds == Spec => []Inv
<1> QED BY InitInv, StepInv, PTL DEF Spec

-----------------------------------------------------------------------------
(* The results *)

\* Every row, push and drain is what it should be, and a row is pushed only once
\* it has been inserted (ssf-emitter.service.ts:61-85).
THEOREM TypeCorrect == Spec => []TypeOK
<1>1. Inv => TypeOK
  BY DEF Inv
<1> QED BY <1>1, InvHolds, PTL

\* However many drains overlap, a row's attempts stay below the limit and as
\* many more as there are drains (ssf-delivery.service.ts:39-49).
THEOREM AttemptsBounded == Spec => []AttemptsAreBounded
<1>1. Inv => AttemptsAreBounded
  <2> SUFFICES ASSUME Inv, NEW d \in Sets
               PROVE  row[d].attempts < MaxAttempts + Cardinality(Drains)
    BY DEF AttemptsAreBounded
  <2>1. row[d].attempts + Cardinality(Holders(d)) < MaxAttempts + Cardinality(Drains)
    BY DEF Inv, SetInv
  <2>2. /\ row[d].attempts \in Nat /\ MaxAttempts \in Nat
        /\ Cardinality(Holders(d)) \in Nat /\ Cardinality(Drains) \in Nat
    BY HoldersAreFinite, ConstAssumption DEF Inv, TypeOK, Row
  <2> QED BY <2>1, <2>2
<1> QED BY <1>1, InvHolds, PTL

\* An acknowledged row changes only with the outcome of a push that was in hand
\* when it was acknowledged (ssf-delivery.service.ts:22-28; set-push.service.ts:48,
\* :59).
THEOREM AcknowledgementsStand == Spec => AckStands
<1>1. ASSUME Inv, [Next]_vars, NEW d \in Sets,
             row[d].st = "acked", row'[d].st \notin {"acked", "deleted"}
      PROVE  d \in crossed
  <2> USE DEF Inv
  <2>0. SetInv(d) /\ row \in [Sets -> Row]
    BY <1>1 DEF TypeOK
  <2>1. ASSUME NEW e \in Events, NEW s \in Streams, Create(e, s) PROVE row'[d].st = "acked"
    <3>1. <<e, s>> \in Sets /\ row[<<e, s>>].st = "none"
      BY <1>1, <2>1 DEF Create, EmitInv, Sets, TypeOK
    <3> QED BY <1>1, <2>0, <2>1, <3>1 DEF Create
  <2>2. ASSUME NEW x \in Sets, RecordPush(x) PROVE d \in crossed
    <3>1. (push[x] = "ok") \in BOOLEAN /\ Record(x, push[x] = "ok") /\ push[x] # "none"
      BY <2>2 DEF RecordPush
    <3>2. d = x
      BY <1>1, <3>1, RecordMoves
    <3> QED BY <1>1, <2>0, <3>1, <3>2 DEF SetInv
  <2>3. ASSUME NEW w \in Drains, RecordRetry(w) PROVE d \in crossed
    <3>1. /\ drain[w].set \in Sets /\ (drain[w].answer = "ok") \in BOOLEAN
          /\ Record(drain[w].set, drain[w].answer = "ok")
      BY <1>1, <2>3 DEF RecordRetry, TypeOK
    <3>2. d = drain[w].set
      BY <1>1, <3>1, RecordMoves
    <3>3. w \in Holders(d)
      BY <3>2 DEF Holders
    <3> QED BY <1>1, <2>0, <3>3 DEF SetInv
  <2>4. ASSUME NEW x \in Sets, BackoffOver(x) PROVE row'[d].st = "acked"
    <3>1. row[x].st = "failed" /\ row' = [row EXCEPT ![x].due = TRUE]
      BY <2>4 DEF BackoffOver
    <3> QED BY <1>1, <2>0, <3>1
  <2>5. ASSUME NEW s \in Streams, Remove(s) PROVE row'[d].st \in {"acked", "deleted"}
    BY <1>1, <2>5 DEF Remove, NoRow
  <2>6. ASSUME NEW s \in Streams, NEW A \in SUBSET Sets, Ack(s, A) PROVE row'[d].st = "acked"
    <3>1. row[d] \in Row
      BY <2>0
    <3>2. row'[d] = row[d] \/ row'[d] = [row[d] EXCEPT !.st = "acked"]
      BY <2>6 DEF Ack
    <3> QED BY <1>1, <3>1, <3>2 DEF Row
  <2>7. ASSUME row' = row PROVE FALSE
    BY <1>1, <2>7
  <2>8. ASSUME NEW e \in Events, Emit(e) \/ Serve(e) \/ EmissionLost(e)
                              \/ \E s \in Streams : EmitVerification(e, s)
        PROVE  d \in crossed
    BY <1>1, <2>1, <2>7, <2>8 DEF Serve, Emit, EmissionLost, EmitVerification
  <2>9. ASSUME NEW x \in Sets, Deliver(x) \/ PushLost(x) \/ BackoffOver(x) PROVE d \in crossed
    BY <1>1, <2>2, <2>4, <2>7, <2>9 DEF Deliver, Fetch, PushLost
  <2>10. ASSUME NEW w \in Drains, Retrying(w) \/ RetryLost(w) \/ DrainLost(w) PROVE d \in crossed
    BY <2>3, <2>7, <2>10 DEF Retrying, Drain, Retry, RetryLost, DrainLost
  <2>11. ASSUME NEW s \in Streams,
                \/ Poll(s) \/ Remove(s)
                \/ \E A \in SUBSET Sets : Ack(s, A)
                \/ \E st \in {"enabled", "disabled"} : SetStatus(s, st)
         PROVE  d \in crossed
    BY <1>1, <2>5, <2>6, <2>7, <2>11 DEF Poll, SetStatus
  <2>12. CASE UNCHANGED vars
    BY <2>7, <2>12 DEF vars
  <2> QED BY <1>1, <2>8, <2>9, <2>10, <2>11, <2>12 DEF Next
<1>2. Inv /\ [Next]_vars
        => [\A d \in Sets : row[d].st = "acked" /\ row'[d].st \notin {"acked", "deleted"}
                              => d \in crossed]_vars
  BY <1>1
<1> QED BY <1>2, InvHolds, PTL DEF Spec, AckStands

-----------------------------------------------------------------------------
(* No event is lost without a trace *)

\* The set is still to be served, or was cut short, or has a row; and a pushed row that
\* is pending is being pushed.
Accounted(d) ==
  \/ d \in dropped
  \/ d[2] \in todo[d[1]]
  \/ row[d].st # "none" /\ (row[d].st = "pending" /\ d[2] \in Push => push[d] # "none")

AccountInv == \A d \in Sets : d[2] \in listed[d[1]] => Accounted(d)

LEMMA AccountKept ==
  ASSUME NEW d \in Sets, Accounted(d), dropped \subseteq dropped',
         d[2] \in todo[d[1]] => d[2] \in todo'[d[1]],
         row'[d].st = "none" => row[d].st = "none",
         row'[d].st = "pending" /\ push'[d] = "none" =>
           d \in dropped' \/ (row[d].st = "pending" /\ push[d] = "none")
  PROVE  Accounted(d)'
BY DEF Accounted

LEMMA AccountOfEmitter ==
  ASSUME TypeOK, EmitInv, AccountInv, NEW e \in Events, NEW s \in Streams,
         Emit(e) \/ EmitVerification(e, s) \/ Create(e, s) \/ EmissionLost(e)
  PROVE  AccountInv'
<1> SUFFICES ASSUME NEW d \in Sets, d[2] \in listed'[d[1]] PROVE Accounted(d)'
  BY DEF AccountInv
<1>0. d[1] \in Events /\ d[2] \in Streams /\ d = <<d[1], d[2]>>
  BY SetsArePairs
<1>1. CASE Emit(e) \/ EmitVerification(e, s)
  <2>1. /\ todo' = [todo EXCEPT ![e] = listed'[e]] /\ UNCHANGED <<row, push, dropped>>
        /\ \A x \in Events \ {e} : listed'[x] = listed[x]
    BY <1>1 DEF Emit, EmitVerification, TypeOK
  <2>2. CASE d[1] = e
    <3>1. todo'[d[1]] = listed'[d[1]]
      BY <1>0, <2>1, <2>2 DEF TypeOK
    <3> QED BY <3>1 DEF Accounted
  <2>3. CASE d[1] # e
    <3>1. Accounted(d) /\ todo'[d[1]] = todo[d[1]]
      BY <1>0, <2>1, <2>3 DEF AccountInv, TypeOK
    <3> QED BY <2>1, <3>1, AccountKept
  <2> QED BY <2>2, <2>3
<1>2. CASE Create(e, s)
  <2>1. Accounted(d)
    BY <1>2 DEF Create, AccountInv
  <2>2. CASE stream[s] # "removed" /\ d = <<e, s>>
    <3>1. row[d] \in Row /\ row' = [row EXCEPT ![d].st = "pending"]
      BY <1>2, <2>2 DEF Create, TypeOK
    <3>2. row'[d].st = "pending"
      BY <3>1 DEF TypeOK, Row
    <3>3. d[2] \in Push => push'[d] = "sent"
      BY <1>2, <2>2 DEF Create, TypeOK
    <3> QED BY <3>2, <3>3 DEF Accounted
  <2>3. CASE stream[s] # "removed" /\ d # <<e, s>>
    <3>1. row'[d] = row[d] /\ push'[d] = push[d] /\ dropped' = dropped
      BY <1>2, <2>3 DEF Create, TypeOK
    <3>2. todo' = [todo EXCEPT ![e] = todo[e] \ {s}]
      BY <1>2, <2>3 DEF Create
    <3>3. d[2] \in todo[d[1]] => d[2] \in todo'[d[1]]
      BY <1>0, <2>3, <3>2 DEF TypeOK
    <3> QED BY <2>1, <3>1, <3>3, AccountKept
  <2>4. CASE stream[s] = "removed"
    <3>1. /\ row' = row /\ push' = push /\ dropped' = dropped \cup ({e} \X todo[e])
          /\ todo' = [todo EXCEPT ![e] = {}]
      BY <1>2, <2>4 DEF Create
    <3>2. CASE d[1] = e /\ d[2] \in todo[e]
      <4>1. d \in {e} \X todo[e]
        BY <1>0, <3>2
      <4> QED BY <3>1, <4>1 DEF Accounted
    <3>3. CASE ~(d[1] = e /\ d[2] \in todo[e])
      <4>1. d[2] \in todo[d[1]] => d[2] \in todo'[d[1]]
        BY <1>0, <3>1, <3>3 DEF TypeOK
      <4> QED BY <2>1, <3>1, <4>1, AccountKept
    <3> QED BY <3>2, <3>3
  <2> QED BY <2>2, <2>3, <2>4
<1>3. CASE EmissionLost(e)
  <2>1. /\ row' = row /\ push' = push /\ dropped' = dropped \cup ({e} \X todo[e])
        /\ todo' = [todo EXCEPT ![e] = {}] /\ Accounted(d)
    BY <1>3 DEF EmissionLost, AccountInv
  <2>2. CASE d[1] = e /\ d[2] \in todo[e]
    <3>1. d \in {e} \X todo[e]
      BY <1>0, <2>2
    <3> QED BY <2>1, <3>1 DEF Accounted
  <2>3. CASE ~(d[1] = e /\ d[2] \in todo[e])
    <3>1. d[2] \in todo[d[1]] => d[2] \in todo'[d[1]]
      BY <1>0, <2>1, <2>3 DEF TypeOK
    <3> QED BY <2>1, <3>1, AccountKept
  <2> QED BY <2>2, <2>3
<1> QED BY <1>1, <1>2, <1>3

\* What the other steps leave: emissions, and a pending row the push that is under way.
LEMMA AccountQuiet ==
  ASSUME AccountInv, listed' = listed, todo' = todo, dropped \subseteq dropped',
         \A d \in Sets : row'[d].st \in {"none", "pending"} => row'[d].st = row[d].st,
         \A d \in Sets : push'[d] = "none" =>
           push[d] = "none" \/ d \in dropped' \/ row'[d].st # "pending"
  PROVE  AccountInv'
<1> SUFFICES ASSUME NEW d \in Sets, d[2] \in listed'[d[1]] PROVE Accounted(d)'
  BY DEF AccountInv
<1>1. Accounted(d)
  BY DEF AccountInv
<1>2. row'[d].st = "none" => row[d].st = "none"
  OBVIOUS
<1>3. row'[d].st = "pending" => row[d].st = "pending"
  OBVIOUS
<1>4. push'[d] = "none" => push[d] = "none" \/ d \in dropped' \/ row'[d].st # "pending"
  OBVIOUS
<1>5. /\ d[2] \in todo[d[1]] => d[2] \in todo'[d[1]]
      /\ d \in dropped => d \in dropped'
  OBVIOUS
<1>6. CASE d \in dropped \/ d[2] \in todo[d[1]]
  BY <1>5, <1>6 DEF Accounted
<1>7. CASE row[d].st # "none" /\ (row[d].st = "pending" /\ d[2] \in Push => push[d] # "none")
  BY <1>2, <1>3, <1>4, <1>7 DEF Accounted
<1> QED BY <1>1, <1>6, <1>7 DEF Accounted

LEMMA AccountOfPush ==
  ASSUME TypeOK, AccountInv, NEW x \in Sets, Deliver(x) \/ PushLost(x) \/ BackoffOver(x)
  PROVE  AccountInv'
<1>1. ASSUME NEW here \in BOOLEAN, NEW ok \in BOOLEAN, Fetch(x, here, ok) PROVE AccountInv'
  <2>1. UNCHANGED <<listed, todo, dropped, row>>
    BY <1>1 DEF Fetch
  <2>2. \A d \in Sets : push'[d] = "none" => push[d] = "none"
    BY <1>1 DEF Fetch, TypeOK
  <2> QED BY <2>1, <2>2, AccountQuiet
<1>2. ASSUME RecordPush(x) PROVE AccountInv'
  <2>1. (push[x] = "ok") \in BOOLEAN /\ Record(x, push[x] = "ok")
    BY <1>2 DEF RecordPush
  <2>2. \A d \in Sets : \/ row'[d] = row[d] /\ (d = x => ~Exists(x))
                        \/ row'[d].st \in {"delivered", "failed"}
    BY <2>1, RecordMoves
  <2>3. UNCHANGED <<listed, todo, dropped>> /\ push' = [push EXCEPT ![x] = "none"]
    BY <1>2 DEF RecordPush
  <2>4. ASSUME NEW d \in Sets, push'[d] = "none" PROVE push[d] = "none" \/ row'[d].st # "pending"
    BY <2>2, <2>3, <2>4 DEF TypeOK, Exists
  <2> QED BY <2>2, <2>3, <2>4, AccountQuiet
<1>3. ASSUME PushLost(x) PROVE AccountInv'
  <2>1. /\ UNCHANGED <<listed, todo, row>> /\ dropped' = dropped \cup {x}
        /\ push' = [push EXCEPT ![x] = "none"]
    BY <1>3 DEF PushLost
  <2>2. \A d \in Sets : push'[d] = "none" => push[d] = "none" \/ d \in dropped'
    BY <2>1 DEF TypeOK
  <2> QED BY <2>1, <2>2, AccountQuiet
<1>4. ASSUME BackoffOver(x) PROVE AccountInv'
  <2>1. UNCHANGED <<listed, todo, dropped, push>>
    BY <1>4 DEF BackoffOver
  <2>2. \A d \in Sets : row'[d].st = row[d].st
    BY <1>4 DEF BackoffOver, TypeOK, Row
  <2> QED BY <2>1, <2>2, AccountQuiet
<1> QED BY <1>1, <1>2, <1>3, <1>4 DEF Deliver

LEMMA AccountOfDrain ==
  ASSUME TypeOK, AccountInv, NEW w \in Drains, Retrying(w) \/ RetryLost(w) \/ DrainLost(w)
  PROVE  AccountInv'
<1>1. UNCHANGED <<listed, todo, dropped, push>>
  BY DEF Retrying, Drain, Retry, RecordRetry, RetryLost, DrainLost
<1>2. ASSUME NEW d \in Sets, row'[d].st \in {"none", "pending"} PROVE row'[d].st = row[d].st
  <2>1. CASE RecordRetry(w)
    <3>1. /\ drain[w].set \in Sets /\ (drain[w].answer = "ok") \in BOOLEAN
          /\ Record(drain[w].set, drain[w].answer = "ok")
      BY <2>1 DEF RecordRetry, TypeOK
    <3> QED BY <1>2, <3>1, RecordMoves
  <2>2. CASE ~RecordRetry(w)
    BY <2>2 DEF Retrying, Drain, Retry, RetryLost, DrainLost
  <2> QED BY <2>1, <2>2
<1> QED BY <1>1, <1>2, AccountQuiet

LEMMA AccountOfStream ==
  ASSUME TypeOK, AccountInv,
         NEW s \in Streams, NEW A \in SUBSET Sets, NEW st \in {"enabled", "disabled"},
         Poll(s) \/ Remove(s) \/ Ack(s, A) \/ SetStatus(s, st)
  PROVE  AccountInv'
<1>1. UNCHANGED <<listed, todo, dropped, push>>
  BY DEF Poll, Remove, Ack, SetStatus
<1>2. ASSUME NEW d \in Sets PROVE row'[d] = row[d] \/ row'[d].st \in {"deleted", "acked"}
  <2>1. row[d] \in Row
    BY DEF TypeOK
  <2>2. CASE Remove(s)
    BY <2>2 DEF Remove, NoRow
  <2>3. CASE Ack(s, A)
    <3>1. row'[d] = row[d] \/ row'[d] = [row[d] EXCEPT !.st = "acked"]
      BY <2>3 DEF Ack
    <3> QED BY <2>1, <3>1 DEF Row
  <2>4. CASE Poll(s) \/ SetStatus(s, st)
    BY <2>4 DEF Poll, SetStatus
  <2> QED BY <2>2, <2>3, <2>4
<1> QED BY <1>1, <1>2, AccountQuiet

LEMMA AccountStep == Inv /\ AccountInv /\ [Next]_vars => AccountInv'
<1> SUFFICES ASSUME Inv, AccountInv, [Next]_vars PROVE AccountInv'
  OBVIOUS
<1>0. TypeOK /\ EmitInv
  BY DEF Inv
<1>1. ASSUME NEW e \in Events, Emit(e) \/ Serve(e) \/ EmissionLost(e)
                            \/ \E s \in Streams : EmitVerification(e, s)
      PROVE  AccountInv'
  <2>1. PICK s \in Streams : Emit(e) \/ EmitVerification(e, s) \/ Create(e, s) \/ EmissionLost(e)
    BY <1>0, <1>1 DEF Emit, Serve, EmissionLost, TypeOK
  <2> QED BY <1>0, <2>1, AccountOfEmitter
<1>2. ASSUME NEW x \in Sets, Deliver(x) \/ PushLost(x) \/ BackoffOver(x) PROVE AccountInv'
  BY <1>0, <1>2, AccountOfPush
<1>3. ASSUME NEW w \in Drains, Retrying(w) \/ RetryLost(w) \/ DrainLost(w) PROVE AccountInv'
  BY <1>0, <1>3, AccountOfDrain
<1>4. ASSUME NEW s \in Streams,
             \/ Poll(s) \/ Remove(s)
             \/ \E A \in SUBSET Sets : Ack(s, A)
             \/ \E st \in {"enabled", "disabled"} : SetStatus(s, st)
      PROVE  AccountInv'
  <2>1. PICK A \in SUBSET Sets, st \in {"enabled", "disabled"} :
               Poll(s) \/ Remove(s) \/ Ack(s, A) \/ SetStatus(s, st)
    BY <1>4
  <2> QED BY <1>0, <2>1, AccountOfStream
<1>5. CASE UNCHANGED vars
  BY <1>5 DEF vars, AccountInv, Accounted
<1> QED BY <1>1, <1>2, <1>3, <1>4, <1>5 DEF Next

\* Wherever an event meant for a stream stands, it is settled, or it was cut short by a
\* fault or a removal, or somebody is still at it: the emission, its push, or the drain,
\* for which a failed row with attempts left is there to be read.
NothingIsLost ==
  \A e \in Events, s \in Streams : s \in listed[e] =>
    \/ Settled(<<e, s>>) \/ <<e, s>> \in dropped
    \/ s \in todo[e]
    \/ push[<<e, s>>] # "none"
    \/ row[<<e, s>>].st = "failed" /\ row[<<e, s>>].attempts < MaxAttempts

\* So no row is left where nobody looks: what a push that dies leaves pending is
\* `dropped`, and nothing else is (ssf-emitter.service.ts:61-85, ssf-delivery.service.ts:39-49).
THEOREM EventsAreAccountedFor == Spec => []NothingIsLost
<1>1. Init => AccountInv
  BY SetsArePairs DEF Init, AccountInv
<1>2. Inv /\ AccountInv => NothingIsLost
  <2> SUFFICES ASSUME Inv, AccountInv, NEW e \in Events, NEW s \in Streams, s \in listed[e]
               PROVE  \/ Settled(<<e, s>>) \/ <<e, s>> \in dropped
                      \/ s \in todo[e]
                      \/ push[<<e, s>>] # "none"
                      \/ row[<<e, s>>].st = "failed" /\ row[<<e, s>>].attempts < MaxAttempts
    BY DEF NothingIsLost
  <2> DEFINE d == <<e, s>>
  <2>1. d \in Sets /\ d[1] = e /\ d[2] = s
    BY DEF Sets
  <2>2. Accounted(d)
    BY <2>1 DEF AccountInv
  <2>3. /\ row[d].st \in {"none", "pending", "failed", "delivered", "acked", "deleted"}
        /\ row[d].attempts \in Nat /\ MaxAttempts \in Nat
    BY <2>1, ConstAssumption DEF Inv, TypeOK, Row
  <2> HIDE DEF d
  <2>4. row[d].attempts >= MaxAttempts \/ row[d].attempts < MaxAttempts
    BY <2>3
  <2>5. CASE row[d].st = "pending" /\ d[2] \notin Push
    BY <2>5 DEF Settled, Exists, d
  <2>6. CASE ~(row[d].st = "pending" /\ d[2] \notin Push)
    BY <2>1, <2>2, <2>3, <2>4, <2>6 DEF Settled, Accounted, d
  <2> QED BY <2>5, <2>6
<1> QED BY <1>1, <1>2, AccountStep, InvHolds, PTL DEF Spec

-----------------------------------------------------------------------------
(* SettingsStore: who wrote is answered from what it wrote, or later *)

Request == [pc : {"idle", "invalidate", "reload", "view"}, node : Nodes \cup {NoNode},
            version : Nat]

\* Of the state, what the proof turns on; a request knows its process once it has written.
SettingsTypes ==
  /\ table \in Nat
  /\ snap \in [Nodes -> Nat] /\ floor \in [Nodes -> Nat]
  /\ loads \in [Nodes -> SUBSET (Nat \cup {Unread})]
  /\ req \in [Writers -> Request]
  /\ \A w \in Writers : At(w, "idle") \/ req[w].node \in Nodes

\* What a reload under way has read is no older than what its process has answered,
\* nor is the snapshot; and nobody has answered what was not written.
NodeInv(n) ==
  /\ floor[n] <= table /\ floor[n] <= snap[n]
  /\ \A v \in loads[n] \ {Unread} : floor[n] <= v

\* A writer that has asked for a reload, and has not joined one that was ahead of it,
\* has its write in whatever a reload has read, and in the snapshot once it was reloaded.
WriterInv(w) ==
  /\ req[w].version <= table
  /\ (At(w, "reload") \/ At(w, "view")) /\ w \notin overtaken =>
       /\ \A v \in loads[req[w].node] \ {Unread} : req[w].version <= v
       /\ At(w, "view") => req[w].version <= snap[req[w].node]

SettingsInv ==
  /\ SettingsTypes
  /\ \A n \in Nodes : NodeInv(n)
  /\ \A w \in Writers : WriterInv(w)

LEMMA ReloadedIs ==
  ASSUME NEW n \in Nodes, SettingsTypes
  PROVE  /\ Reloaded(n) \in [Nodes -> SUBSET (Nat \cup {Unread})]
         /\ \A m \in Nodes : Reloaded(n)[m] \ {Unread} = loads[m] \ {Unread}
BY DEF Reloaded, SettingsTypes, Unread

LEMMA SettingsInitTyped ==
  SettingsInit => SettingsTypes
BY DEF SettingsInit, SettingsTypes, Request, Idle, At, Unread

\* A writer sent home is typed as it was at the beginning.
LEMMA IdleTyped == Idle \in Request /\ Idle.pc = "idle" /\ Idle.version = 0
BY DEF Idle, Request

LEMMA SetTyped ==
  ASSUME SettingsTypes, NEW w \in Writers, NEW n \in Nodes, Set(w, n)
  PROVE  SettingsTypes'
<1>1. table' = table + 1 /\ table' \in Nat
  BY DEF Set, SettingsTypes
<1>2. /\ req' = [req EXCEPT ![w] = [pc |-> "invalidate", node |-> n, version |-> table + 1]]
      /\ UNCHANGED <<snap, floor, loads>>
  BY DEF Set
<1>3. [pc |-> "invalidate", node |-> n, version |-> table + 1] \in Request
  BY <1>1 DEF Request
<1>4. req' \in [Writers -> Request]
  BY <1>2, <1>3 DEF SettingsTypes
<1>5. ASSUME NEW u \in Writers PROVE (At(u, "idle") \/ req[u].node \in Nodes)'
  BY <1>2 DEF SettingsTypes, At
<1> QED BY <1>1, <1>2, <1>4, <1>5 DEF SettingsTypes

LEMMA MovedTyped ==
  ASSUME SettingsTypes, NEW w \in Writers, NEW l \in {"reload", "view"},
         ~At(w, "idle"), req' = [req EXCEPT ![w].pc = l]
  PROVE  req' \in [Writers -> Request] /\ \A u \in Writers : (At(u, "idle") \/ req[u].node \in Nodes)'
<1>1. req[w] \in Request
  BY DEF SettingsTypes
<1>2. [req[w] EXCEPT !.pc = l] \in Request
  BY <1>1 DEF Request
<1>3. req' \in [Writers -> Request]
  BY <1>2 DEF SettingsTypes
<1>4. ASSUME NEW u \in Writers PROVE (At(u, "idle") \/ req[u].node \in Nodes)'
  <2>1. CASE u = w
    <3>1. req[w].node \in Nodes
      BY DEF SettingsTypes
    <3>2. req'[w].node = req[w].node
      BY <1>1 DEF SettingsTypes, Request
    <3> QED BY <2>1, <3>1, <3>2
  <2>2. CASE u # w
    <3>1. req'[u] = req[u]
      BY <2>2 DEF SettingsTypes
    <3> QED BY <3>1 DEF SettingsTypes, At
  <2> QED BY <2>1, <2>2
<1> QED BY <1>3, <1>4

LEMMA InvalidateTyped ==
  ASSUME SettingsTypes, NEW w \in Writers, Invalidate(w)
  PROVE  SettingsTypes'
<1>1. /\ ~At(w, "idle") /\ req' = [req EXCEPT ![w].pc = "reload"]
      /\ loads' = Reloaded(req[w].node) /\ UNCHANGED <<table, snap, floor>>
  BY DEF Invalidate, At
<1>2. req[w].node \in Nodes
  BY <1>1 DEF SettingsTypes
<1>3. loads' \in [Nodes -> SUBSET (Nat \cup {Unread})]
  BY <1>1, <1>2, ReloadedIs
<1>4. req' \in [Writers -> Request] /\ \A u \in Writers : (At(u, "idle") \/ req[u].node \in Nodes)'
  BY <1>1, MovedTyped
<1> QED BY <1>1, <1>3, <1>4 DEF SettingsTypes

LEMMA ViewTyped ==
  ASSUME SettingsTypes, NEW w \in Writers, View(w)
  PROVE  SettingsTypes'
<1>1. req' = [req EXCEPT ![w] = Idle] /\ UNCHANGED <<table, snap, loads>>
  BY DEF View
<1>2. req' \in [Writers -> Request]
  BY <1>1, IdleTyped DEF SettingsTypes
<1>3. ASSUME NEW u \in Writers PROVE (At(u, "idle") \/ req[u].node \in Nodes)'
  BY <1>1, IdleTyped DEF SettingsTypes, At
<1>4. req[w].version \in Nat /\ floor \in [Nodes -> Nat]
  BY DEF SettingsTypes, Request
<1>5. floor' \in [Nodes -> Nat]
  <2>1. \/ floor' = floor \/ floor' = [floor EXCEPT ![req[w].node] = req[w].version]
    BY DEF View
  <2> QED BY <1>4, <2>1
<1> QED BY <1>1, <1>2, <1>3, <1>5 DEF SettingsTypes

\* What becomes of the writers that wait for a reload: on to the answer, or home.
LEMMA WaitersTyped ==
  ASSUME SettingsTypes,
         \A w \in Writers : \/ req'[w] = req[w] \/ req'[w] = Idle
                            \/ At(w, "reload") /\ req'[w] = [req[w] EXCEPT !.pc = "view"],
         req' = [w \in Writers |-> req'[w]]
  PROVE  req' \in [Writers -> Request] /\ \A u \in Writers : (At(u, "idle") \/ req[u].node \in Nodes)'
<1>1. ASSUME NEW u \in Writers
      PROVE  req'[u] \in Request /\ (At(u, "idle") \/ req[u].node \in Nodes)'
  <2>1. req[u] \in Request /\ (At(u, "idle") \/ req[u].node \in Nodes)
    BY DEF SettingsTypes
  <2>2. ASSUME req'[u] = req[u] PROVE req'[u] \in Request /\ (At(u, "idle") \/ req[u].node \in Nodes)'
    BY <2>1, <2>2 DEF At
  <2>3. ASSUME req'[u] = Idle PROVE req'[u] \in Request /\ (At(u, "idle") \/ req[u].node \in Nodes)'
    BY <2>3, IdleTyped DEF At
  <2>4. ASSUME At(u, "reload"), req'[u] = [req[u] EXCEPT !.pc = "view"]
        PROVE  req'[u] \in Request /\ (At(u, "idle") \/ req[u].node \in Nodes)'
    <3>1. req[u].node \in Nodes
      BY <2>1, <2>4 DEF At
    <3>2. req'[u] \in Request /\ req'[u].node = req[u].node
      BY <2>1, <2>4 DEF Request
    <3> QED BY <3>1, <3>2
  <2> QED BY <2>2, <2>3, <2>4
<1> QED BY <1>1

LEMMA ApplyMoves ==
  ASSUME SettingsTypes, NEW n \in Nodes, NEW v, Apply(n, v)
  PROVE  /\ req' = [w \in Writers |-> req'[w]]
         /\ \A w \in Writers :
              \/ req'[w] = req[w] /\ ~(At(w, "reload") /\ req[w].node = n)
              \/ /\ At(w, "reload") /\ req[w].node = n
                 /\ req'[w] = [req[w] EXCEPT !.pc = "view"]
BY DEF Apply

LEMMA ReloadFailsMoves ==
  ASSUME SettingsTypes, NEW n \in Nodes, ReloadFails(n)
  PROVE  /\ req' = [w \in Writers |-> req'[w]]
         /\ \A w \in Writers : req'[w] = req[w] \/ req'[w] = Idle
         /\ \A w \in Writers : req'[w] # Idle => (w \in overtaken' <=> w \in overtaken)
BY DEF ReloadFails

LEMMA RestartMoves ==
  ASSUME SettingsTypes, NEW n \in Nodes, Restart(n)
  PROVE  /\ req' = [w \in Writers |-> req'[w]]
         /\ \A w \in Writers : \/ req'[w] = Idle
                               \/ req'[w] = req[w] /\ req[w].node # n
         /\ \A w \in Writers : req'[w] # Idle => (w \in overtaken' <=> w \in overtaken)
BY DEF Restart

LEMMA ApplyTyped ==
  ASSUME SettingsTypes, NEW n \in Nodes, NEW v, Apply(n, v)
  PROVE  SettingsTypes'
<1>1. req' \in [Writers -> Request] /\ \A u \in Writers : (At(u, "idle") \/ req[u].node \in Nodes)'
  BY ApplyMoves, WaitersTyped
<1>2. v \in Nat
  BY DEF Apply, SettingsTypes
<1>3. snap' \in [Nodes -> Nat] /\ loads' \in [Nodes -> SUBSET (Nat \cup {Unread})]
  BY <1>2 DEF Apply, SettingsTypes
<1>4. UNCHANGED <<table, floor>>
  BY DEF Apply
<1> QED BY <1>1, <1>3, <1>4 DEF SettingsTypes

LEMMA ReloadFailsTyped ==
  ASSUME SettingsTypes, NEW n \in Nodes, ReloadFails(n)
  PROVE  SettingsTypes'
<1>1. req' \in [Writers -> Request] /\ \A u \in Writers : (At(u, "idle") \/ req[u].node \in Nodes)'
  BY ReloadFailsMoves, WaitersTyped
<1>2. loads' \in [Nodes -> SUBSET (Nat \cup {Unread})]
  BY DEF ReloadFails, SettingsTypes
<1>3. UNCHANGED <<table, snap, floor>>
  BY DEF ReloadFails
<1> QED BY <1>1, <1>2, <1>3 DEF SettingsTypes

LEMMA RestartTyped ==
  ASSUME SettingsTypes, NEW n \in Nodes, Restart(n)
  PROVE  SettingsTypes'
<1>1. req' \in [Writers -> Request] /\ \A u \in Writers : (At(u, "idle") \/ req[u].node \in Nodes)'
  BY RestartMoves, WaitersTyped
<1>2. loads' \in [Nodes -> SUBSET (Nat \cup {Unread})]
  BY DEF Restart, SettingsTypes
<1>3. snap' \in [Nodes -> Nat] /\ floor' \in [Nodes -> Nat] /\ table' = table
  BY DEF Restart, SettingsTypes
<1> QED BY <1>1, <1>2, <1>3 DEF SettingsTypes

\* The steps that only concern a process' reload and its age.
LEMMA ReadingTyped ==
  ASSUME SettingsTypes, NEW n \in Nodes, Get(n) \/ ReadTable(n) \/ Age(n)
  PROVE  SettingsTypes'
<1>1. UNCHANGED <<table, snap, floor, req>>
  BY DEF Get, ReadTable, Age, Db
<1>2. loads' \in [Nodes -> SUBSET (Nat \cup {Unread})]
  <2>1. CASE Get(n)
    BY <2>1, ReloadedIs DEF Get
  <2>2. CASE ReadTable(n)
    BY <2>2 DEF ReadTable, SettingsTypes
  <2>3. CASE Age(n)
    BY <2>3 DEF Age, SettingsTypes
  <2> QED BY <2>1, <2>2, <2>3
<1> QED BY <1>1, <1>2 DEF SettingsTypes, At

-----------------------------------------------------------------------------
(* The steps that leave the snapshots: what is read is read from the table *)

SnapsStand ==
  /\ table' \in Nat /\ table <= table' /\ snap' = snap
  /\ \A m \in Nodes : loads'[m] \ {Unread} \subseteq (loads[m] \ {Unread}) \cup {table}

LEMMA SetStands ==
  ASSUME SettingsTypes, NEW w \in Writers, NEW n \in Nodes, Set(w, n)
  PROVE  SnapsStand /\ floor' = floor
BY DEF Set, SnapsStand, SettingsTypes

LEMMA InvalidateStands ==
  ASSUME SettingsTypes, NEW w \in Writers, Invalidate(w)
  PROVE  SnapsStand /\ floor' = floor
<1>1. req[w].node \in Nodes
  BY DEF SettingsTypes, Invalidate, At
<1>2. loads' = Reloaded(req[w].node) /\ UNCHANGED <<table, snap, floor>>
  BY DEF Invalidate
<1> QED BY <1>1, <1>2, ReloadedIs DEF SnapsStand, SettingsTypes

LEMMA ViewStands ==
  ASSUME SettingsTypes, NEW w \in Writers, View(w)
  PROVE  SnapsStand
BY DEF View, SnapsStand, SettingsTypes

LEMMA ReloadFailsStands ==
  ASSUME SettingsTypes, NEW n \in Nodes, ReloadFails(n)
  PROVE  SnapsStand /\ floor' = floor
BY DEF ReloadFails, SnapsStand, SettingsTypes

LEMMA ReadingStands ==
  ASSUME SettingsTypes, NEW n \in Nodes, Get(n) \/ ReadTable(n) \/ Age(n)
  PROVE  SnapsStand /\ UNCHANGED <<floor, req, overtaken>>
<1>1. UNCHANGED <<table, snap, floor, req, overtaken>>
  BY DEF Get, ReadTable, Age, Db
<1>2. \A m \in Nodes : loads'[m] \ {Unread} \subseteq (loads[m] \ {Unread}) \cup {table}
  <2>1. CASE Get(n)
    BY <2>1, ReloadedIs DEF Get
  <2>2. CASE ReadTable(n)
    BY <2>2 DEF ReadTable, SettingsTypes
  <2>3. CASE Age(n)
    BY <2>3 DEF Age
  <2> QED BY <2>1, <2>2, <2>3
<1> QED BY <1>1, <1>2 DEF SnapsStand, SettingsTypes

LEMMA ReadIsNumber ==
  ASSUME SettingsTypes, NEW m \in Nodes, NEW v \in loads[m] \ {Unread}
  PROVE  v \in Nat
BY DEF SettingsTypes

LEMMA NodeStands ==
  ASSUME SettingsTypes, SnapsStand, NEW m \in Nodes, NodeInv(m), floor'[m] = floor[m]
  PROVE  NodeInv(m)'
<1>1. floor[m] \in Nat /\ table \in Nat /\ table' \in Nat /\ table <= table' /\ snap'[m] = snap[m]
  BY DEF SnapsStand, SettingsTypes
<1>2. floor[m] <= table /\ floor[m] <= snap[m]
  BY DEF NodeInv
<1>3. floor'[m] <= table' /\ floor'[m] <= snap'[m]
  BY <1>1, <1>2
<1>4. ASSUME NEW v \in loads'[m] \ {Unread} PROVE floor'[m] <= v
  <2>1. v = table \/ v \in loads[m] \ {Unread}
    BY DEF SnapsStand
  <2> QED BY <1>2, <2>1 DEF NodeInv
<1> QED BY <1>3, <1>4 DEF NodeInv

LEMMA WriterStands ==
  ASSUME SettingsTypes, SnapsStand, NEW u \in Writers, WriterInv(u),
         req'[u] = req[u], u \notin overtaken' => u \notin overtaken
  PROVE  WriterInv(u)'
<1>1. /\ req[u].version \in Nat /\ table \in Nat /\ table' \in Nat /\ table <= table'
      /\ snap' = snap /\ req[u].version <= table
  BY DEF SnapsStand, SettingsTypes, Request, WriterInv
<1>2. req'[u].version <= table'
  BY <1>1
<1>3. ASSUME (At(u, "reload") \/ At(u, "view"))', u \notin overtaken'
      PROVE  /\ \A v \in loads'[req'[u].node] \ {Unread} : req'[u].version <= v
             /\ At(u, "view")' => req'[u].version <= snap'[req'[u].node]
  <2>1. (At(u, "reload") \/ At(u, "view")) /\ u \notin overtaken
    BY <1>3 DEF At
  <2>2. req[u].node \in Nodes
    BY <2>1 DEF At, SettingsTypes
  <2>3. At(u, "view")' => req'[u].version <= snap'[req'[u].node]
    BY <1>1, <2>1 DEF At, WriterInv
  <2>4. ASSUME NEW v \in loads'[req'[u].node] \ {Unread} PROVE req'[u].version <= v
    <3>1. v = table \/ v \in loads[req[u].node] \ {Unread}
      BY <2>2, <2>4 DEF SnapsStand
    <3> QED BY <1>1, <2>1, <3>1 DEF WriterInv
  <2> QED BY <2>3, <2>4
<1> QED BY <1>2, <1>3 DEF WriterInv

LEMMA IdleKeeps ==
  ASSUME NEW u \in Writers, req'[u] = Idle, table' \in Nat
  PROVE  WriterInv(u)'
BY IdleTyped DEF WriterInv, At

-----------------------------------------------------------------------------
(* One action after the other *)

LEMMA SetKeeps ==
  ASSUME SettingsInv, NEW w \in Writers, NEW n \in Nodes, Set(w, n)
  PROVE  SettingsInv'
<1>1. SettingsTypes /\ SettingsTypes' /\ SnapsStand /\ floor' = floor
  BY SetTyped, SetStands DEF SettingsInv
<1>2. ASSUME NEW m \in Nodes PROVE NodeInv(m)'
  BY <1>1, NodeStands DEF SettingsInv
<1>3. ASSUME NEW u \in Writers PROVE WriterInv(u)'
  <2>1. CASE u # w
    <3>1. req'[u] = req[u] /\ overtaken' = overtaken
      BY <1>1, <2>1 DEF Set, SettingsTypes
    <3> QED BY <1>1, <3>1, WriterStands DEF SettingsInv
  <2>2. CASE u = w
    <3>1. req'[u].pc = "invalidate" /\ req'[u].version = table' /\ table' \in Nat
      BY <1>1, <2>2 DEF Set, SettingsTypes
    <3> QED BY <3>1 DEF WriterInv, At
  <2> QED BY <2>1, <2>2
<1> QED BY <1>1, <1>2, <1>3 DEF SettingsInv

\* Here a writer is counted as overtaken, or finds nothing read that is older.
LEMMA InvalidateKeeps ==
  ASSUME SettingsInv, NEW w \in Writers, Invalidate(w)
  PROVE  SettingsInv'
<1>1. SettingsTypes /\ SettingsTypes' /\ SnapsStand /\ floor' = floor
  BY InvalidateTyped, InvalidateStands DEF SettingsInv
<1>2. ASSUME NEW m \in Nodes PROVE NodeInv(m)'
  BY <1>1, NodeStands DEF SettingsInv
<1>3. ASSUME NEW u \in Writers PROVE WriterInv(u)'
  <2>1. CASE u # w
    <3>1. req'[u] = req[u] /\ (u \notin overtaken' => u \notin overtaken)
      BY <1>1, <2>1 DEF Invalidate, SettingsTypes
    <3> QED BY <1>1, <3>1, WriterStands DEF SettingsInv
  <2>2. CASE u = w
    <3>1. req[w] \in Request /\ req[w].node \in Nodes /\ req' = [req EXCEPT ![w].pc = "reload"]
      BY <1>1 DEF Invalidate, At, SettingsTypes
    <3>2. /\ req'[w].pc = "reload" /\ req'[w].node = req[w].node
          /\ req'[w].version = req[w].version
      BY <1>1, <3>1 DEF Request, SettingsTypes
    <3>3. req[w].version \in Nat /\ req[w].version <= table /\ table' = table
      BY <3>1 DEF Request, SettingsInv, WriterInv, Invalidate
    <3>4. ASSUME w \notin overtaken', NEW v \in loads'[req[w].node] \ {Unread}
          PROVE  req[w].version <= v
      <4>1. ~ \E x \in loads[req[w].node] \ {Unread} : x < req[w].version
        BY <3>4 DEF Invalidate
      <4>2. v \in loads[req[w].node] \ {Unread}
        BY <1>1, <3>1, <3>4, ReloadedIs DEF Invalidate
      <4>3. v \in Nat
        BY <1>1, <3>1, <4>2, ReadIsNumber
      <4> QED BY <3>3, <4>1, <4>2, <4>3
    <3> QED BY <2>2, <3>2, <3>3, <3>4 DEF WriterInv, At
  <2> QED BY <2>1, <2>2
<1> QED BY <1>1, <1>2, <1>3 DEF SettingsInv

\* Here a write becomes what a process has answered: its snapshot has it.
LEMMA ViewKeeps ==
  ASSUME SettingsInv, NEW w \in Writers, View(w)
  PROVE  SettingsInv'
<1>1. SettingsTypes /\ SettingsTypes' /\ SnapsStand
  BY ViewTyped, ViewStands DEF SettingsInv
<1>2. ASSUME NEW m \in Nodes PROVE NodeInv(m)'
  <2>1. CASE floor'[m] = floor[m]
    BY <1>1, <2>1, NodeStands DEF SettingsInv
  <2>2. CASE floor'[m] # floor[m]
    <3>1. /\ w \notin overtaken /\ m = req[w].node /\ floor'[m] = req[w].version
          /\ UNCHANGED <<table, snap, loads>>
      BY <1>1, <2>2 DEF View, SettingsTypes
    <3> QED BY <3>1 DEF SettingsInv, WriterInv, NodeInv, View
  <2> QED BY <2>1, <2>2
<1>3. ASSUME NEW u \in Writers PROVE WriterInv(u)'
  <2>1. CASE u # w
    <3>1. req'[u] = req[u] /\ (u \notin overtaken' => u \notin overtaken)
      BY <1>1, <2>1 DEF View, SettingsTypes
    <3> QED BY <1>1, <3>1, WriterStands DEF SettingsInv
  <2>2. CASE u = w
    <3>1. req'[u] = Idle /\ table' \in Nat
      BY <1>1, <2>2 DEF View, SettingsTypes
    <3> QED BY <3>1, IdleKeeps
  <2> QED BY <2>1, <2>2
<1> QED BY <1>1, <1>2, <1>3 DEF SettingsInv

LEMMA ReadingKeeps ==
  ASSUME SettingsInv, NEW n \in Nodes, Get(n) \/ ReadTable(n) \/ Age(n)
  PROVE  SettingsInv'
<1>1. /\ SettingsTypes /\ SettingsTypes' /\ SnapsStand
      /\ floor' = floor /\ req' = req /\ overtaken' = overtaken
  BY ReadingTyped, ReadingStands DEF SettingsInv
<1>2. ASSUME NEW m \in Nodes PROVE NodeInv(m)'
  BY <1>1, NodeStands DEF SettingsInv
<1>3. ASSUME NEW u \in Writers PROVE WriterInv(u)'
  BY <1>1, WriterStands DEF SettingsInv
<1> QED BY <1>1, <1>2, <1>3 DEF SettingsInv

LEMMA ReloadFailsKeeps ==
  ASSUME SettingsInv, NEW n \in Nodes, ReloadFails(n)
  PROVE  SettingsInv'
<1>1. SettingsTypes /\ SettingsTypes' /\ SnapsStand /\ floor' = floor
  BY ReloadFailsTyped, ReloadFailsStands DEF SettingsInv
<1>2. ASSUME NEW m \in Nodes PROVE NodeInv(m)'
  BY <1>1, NodeStands DEF SettingsInv
<1>3. ASSUME NEW u \in Writers PROVE WriterInv(u)'
  <2>1. CASE req'[u] = Idle
    BY <1>1, <2>1, IdleKeeps DEF SettingsTypes
  <2>2. CASE req'[u] # Idle
    <3>1. req'[u] = req[u] /\ (u \notin overtaken' => u \notin overtaken)
      BY <1>1, <2>2, ReloadFailsMoves
    <3> QED BY <1>1, <3>1, WriterStands DEF SettingsInv
  <2> QED BY <2>1, <2>2
<1> QED BY <1>1, <1>2, <1>3 DEF SettingsInv

\* A process that comes up has answered nothing yet, and nobody waits for it.
LEMMA RestartKeeps ==
  ASSUME SettingsInv, NEW n \in Nodes, Restart(n)
  PROVE  SettingsInv'
<1>1. SettingsTypes /\ SettingsTypes' /\ table' = table /\ table \in Nat
  BY RestartTyped DEF SettingsInv, SettingsTypes, Restart
<1>2. /\ snap'[n] = 0 /\ loads'[n] = {} /\ floor'[n] = 0
      /\ \A m \in Nodes \ {n} :
           snap'[m] = snap[m] /\ loads'[m] = loads[m] /\ floor'[m] = floor[m]
  BY <1>1 DEF Restart, SettingsTypes
<1>3. ASSUME NEW m \in Nodes PROVE NodeInv(m)'
  <2>1. CASE m = n
    BY <1>1, <1>2, <2>1 DEF NodeInv
  <2>2. CASE m # n
    BY <1>1, <1>2, <2>2 DEF NodeInv, SettingsInv
  <2> QED BY <2>1, <2>2
<1>4. ASSUME NEW u \in Writers PROVE WriterInv(u)'
  <2>1. CASE req'[u] = Idle
    BY <1>1, <2>1, IdleKeeps
  <2>2. CASE req'[u] # Idle
    <3>1. req'[u] = req[u] /\ req[u].node # n /\ (u \notin overtaken' => u \notin overtaken)
      BY <1>1, <2>2, RestartMoves
    <3>2. At(u, "idle") \/ req[u].node \in Nodes \ {n}
      BY <1>1, <3>1 DEF SettingsTypes
    <3>3. WriterInv(u)
      BY DEF SettingsInv
    <3>4. CASE At(u, "idle")
      BY <1>1, <3>1, <3>3, <3>4 DEF WriterInv, At
    <3>5. CASE req[u].node \in Nodes \ {n}
      <4>1. snap'[req[u].node] = snap[req[u].node] /\ loads'[req[u].node] = loads[req[u].node]
        BY <1>2, <3>5
      <4> QED BY <1>1, <3>1, <3>3, <4>1 DEF WriterInv, At
    <3> QED BY <3>2, <3>4, <3>5
  <2> QED BY <2>1, <2>2
<1> QED BY <1>1, <1>3, <1>4 DEF SettingsInv

\* The snapshot is replaced by something read: no older than what was answered, nor
\* than the writes of those that wait for it or have waited.
LEMMA ApplyKeeps ==
  ASSUME SettingsInv, NEW n \in Nodes, NEW v, Apply(n, v)
  PROVE  SettingsInv'
<1>1. SettingsTypes /\ SettingsTypes'
  BY ApplyTyped DEF SettingsInv
<1>2. /\ v \in loads[n] \ {Unread} /\ snap'[n] = v /\ loads'[n] = loads[n] \ {v}
      /\ \A m \in Nodes \ {n} : snap'[m] = snap[m] /\ loads'[m] = loads[m]
      /\ UNCHANGED <<table, overtaken, floor>>
  BY <1>1 DEF Apply, SettingsTypes
<1>3. ASSUME NEW m \in Nodes PROVE NodeInv(m)'
  <2>0. NodeInv(m)
    BY DEF SettingsInv
  <2>1. CASE m = n
    BY <1>2, <2>0, <2>1 DEF NodeInv
  <2>2. CASE m # n
    BY <1>2, <2>0, <2>2 DEF NodeInv
  <2> QED BY <2>1, <2>2
<1>4. ASSUME NEW u \in Writers PROVE WriterInv(u)'
  <2>0. WriterInv(u) /\ req[u] \in Request
    BY <1>1 DEF SettingsInv, SettingsTypes
  <2>1. CASE req'[u] = req[u] /\ ~(At(u, "reload") /\ req[u].node = n)
    <3>1. At(u, "idle") \/ req[u].node \in Nodes
      BY <1>1 DEF SettingsTypes
    <3>2. CASE At(u, "idle")
      BY <1>2, <2>0, <2>1, <3>2 DEF WriterInv, At
    <3>3. CASE req[u].node = n
      BY <1>2, <2>0, <2>1, <3>3 DEF WriterInv, At
    <3>4. CASE req[u].node \in Nodes \ {n}
      <4>1. snap'[req[u].node] = snap[req[u].node] /\ loads'[req[u].node] = loads[req[u].node]
        BY <1>2, <3>4
      <4> QED BY <1>2, <2>0, <2>1, <4>1 DEF WriterInv, At
    <3> QED BY <3>1, <3>2, <3>3, <3>4
  <2>2. CASE At(u, "reload") /\ req[u].node = n /\ req'[u] = [req[u] EXCEPT !.pc = "view"]
    <3>1. req'[u].pc = "view" /\ req'[u].node = n /\ req'[u].version = req[u].version
      BY <2>0, <2>2 DEF Request
    <3>2. u \notin overtaken => \A x \in loads[n] \ {Unread} : req[u].version <= x
      BY <2>0, <2>2 DEF WriterInv, At
    <3>3. req'[u].version <= table'
      BY <1>2, <2>0, <3>1 DEF WriterInv
    <3> QED BY <1>2, <3>1, <3>2, <3>3 DEF WriterInv, At
  <2> QED BY <1>1, <2>1, <2>2, ApplyMoves
<1> QED BY <1>1, <1>3, <1>4 DEF SettingsInv

\* All of it together, in every state.
THEOREM SettingsInvHolds == SettingsSpec => []SettingsInv
<1>1. SettingsInit => SettingsInv
  BY SettingsInitTyped DEF SettingsInit, SettingsInv, NodeInv, WriterInv, Idle, At
<1>2. SettingsInv /\ [SettingsNext]_settings => SettingsInv'
  <2> SUFFICES ASSUME SettingsInv, [SettingsNext]_settings PROVE SettingsInv'
    OBVIOUS
  <2>1. ASSUME NEW n \in Nodes, Get(n) \/ ReadTable(n) \/ Age(n) PROVE SettingsInv'
    BY <2>1, ReadingKeeps
  <2>2. ASSUME NEW n \in Nodes, ReloadFails(n) PROVE SettingsInv'
    BY <2>2, ReloadFailsKeeps
  <2>3. ASSUME NEW n \in Nodes, Restart(n) PROVE SettingsInv'
    BY <2>3, RestartKeeps
  <2>4. ASSUME NEW n \in Nodes, NEW v \in Versions, Apply(n, v) PROVE SettingsInv'
    BY <2>4, ApplyKeeps
  <2>5. ASSUME NEW w \in Writers, NEW n \in Nodes, Set(w, n) PROVE SettingsInv'
    BY <2>5, SetKeeps
  <2>6. ASSUME NEW w \in Writers, Invalidate(w) PROVE SettingsInv'
    BY <2>6, InvalidateKeeps
  <2>7. ASSUME NEW w \in Writers, View(w) PROVE SettingsInv'
    BY <2>7, ViewKeeps
  <2>8. CASE UNCHANGED settings
    BY <2>8 DEF settings, SettingsInv, SettingsTypes, NodeInv, WriterInv, At
  <2> QED BY <2>1, <2>2, <2>3, <2>4, <2>5, <2>6, <2>7, <2>8 DEF SettingsNext
<1> QED BY <1>1, <1>2, PTL DEF SettingsSpec

\* A writer that did not join a reload ahead of it is answered from a snapshot that has
\* its write, and no request of that process is answered from an older one until it
\* restarts (app-settings.store.ts:56-76), however many processes and administrators.
THEOREM WritersSeeTheirWrites == SettingsSpec => []WriterSeesItsWrite
<1>1. SettingsInv => WriterSeesItsWrite
  BY DEF SettingsInv, SettingsTypes, NodeInv, WriterSeesItsWrite
<1> QED BY <1>1, SettingsInvHolds, PTL

-----------------------------------------------------------------------------
(* Whoever waits for a reload waits for one that runs *)

\* A process has one reload under way at most, and no writer waits for a reload when none
\* is under way: `loading` is cleared by the reload that set it, which answers all who
\* share it (app-settings.store.ts:62-68).
NobodyWaitsInVain ==
  /\ \A n \in Nodes : loads[n] = {} \/ \E v \in loads[n] : loads[n] = {v}
  /\ \A w \in Writers : At(w, "reload") => loads[req[w].node] # {}

\* A reload that goes on, begins, or ends for everybody who waits for it.
LEMMA OneReload ==
  ASSUME SettingsTypes, NobodyWaitsInVain, NEW n \in Nodes,
         loads' \in [Nodes -> SUBSET (Nat \cup {Unread})],
         \A m \in Nodes \ {n} : loads'[m] = loads[m],
         loads'[n] = {} \/ \E v : loads'[n] = {v},
         \A w \in Writers : req'[w].pc = "reload" =>
            \/ At(w, "reload") /\ req'[w].node = req[w].node
                               /\ (req[w].node = n /\ loads[n] # {} => loads'[n] # {})
            \/ req'[w].node = n /\ loads'[n] # {}
  PROVE  NobodyWaitsInVain'
<1>1. ASSUME NEW m \in Nodes PROVE loads'[m] = {} \/ \E v \in loads'[m] : loads'[m] = {v}
  <2>1. CASE m = n
    BY <2>1
  <2>2. CASE m # n
    <3>1. loads[m] = {} \/ \E v \in loads[m] : loads[m] = {v}
      BY DEF NobodyWaitsInVain
    <3>2. loads'[m] = loads[m]
      BY <2>2
    <3> QED BY <3>1, <3>2
  <2> QED BY <2>1, <2>2
<1>2. ASSUME NEW w \in Writers, At(w, "reload")' PROVE loads'[req'[w].node] # {}
  <2>1. CASE req'[w].node = n /\ loads'[n] # {}
    BY <2>1
  <2>2. CASE /\ At(w, "reload") /\ req'[w].node = req[w].node
             /\ (req[w].node = n /\ loads[n] # {} => loads'[n] # {})
    <3>1. req[w].node \in Nodes /\ loads[req[w].node] # {}
      BY <2>2 DEF SettingsTypes, NobodyWaitsInVain, At
    <3> QED BY <2>2, <3>1
  <2> QED BY <1>2, <2>1, <2>2 DEF At
<1> QED BY <1>1, <1>2 DEF NobodyWaitsInVain

LEMMA ReloadedOnce ==
  ASSUME SettingsTypes, NobodyWaitsInVain, NEW n \in Nodes
  PROVE  /\ \A m \in Nodes \ {n} : Reloaded(n)[m] = loads[m]
         /\ \E v : Reloaded(n)[n] = {v}
<1>1. CASE loads[n] = {}
  BY <1>1 DEF Reloaded, SettingsTypes
<1>2. CASE loads[n] # {}
  BY <1>2 DEF Reloaded, NobodyWaitsInVain
<1> QED BY <1>1, <1>2

LEMMA WaitsNext ==
  ASSUME SettingsTypes, SettingsTypes', NobodyWaitsInVain, [SettingsNext]_settings
  PROVE  NobodyWaitsInVain'
<1>0. loads' \in [Nodes -> SUBSET (Nat \cup {Unread})]
  BY DEF SettingsTypes
<1>1. ASSUME NEW n \in Nodes, Get(n) PROVE NobodyWaitsInVain'
  <2>1. loads' = Reloaded(n) /\ req' = req
    BY <1>1 DEF Get, Db
  <2>2. (\E v : loads'[n] = {v}) /\ \A m \in Nodes \ {n} : loads'[m] = loads[m]
    BY <2>1, ReloadedOnce
  <2>3. loads'[n] # {}
    BY <2>2
  <2>4. \A w \in Writers : req'[w].pc = "reload" => At(w, "reload") /\ req'[w].node = req[w].node
    BY <2>1 DEF At
  <2> QED BY <1>0, <2>2, <2>3, <2>4, OneReload
<1>2. ASSUME NEW n \in Nodes, ReadTable(n) PROVE NobodyWaitsInVain'
  <2>1. loads[n] = {Unread} /\ req' = req
    BY <1>2 DEF ReadTable, Db, NobodyWaitsInVain
  <2>2. loads'[n] = {table} /\ \A m \in Nodes \ {n} : loads'[m] = loads[m]
    BY <1>2, <2>1 DEF ReadTable, SettingsTypes
  <2> QED BY <1>0, <2>1, <2>2, OneReload DEF At
<1>3. ASSUME NEW n \in Nodes, ReloadFails(n) PROVE NobodyWaitsInVain'
  <2>1. loads[n] = {Unread}
    BY <1>3 DEF ReloadFails, NobodyWaitsInVain
  <2>2. loads'[n] = {} /\ \A m \in Nodes \ {n} : loads'[m] = loads[m]
    BY <1>3, <2>1 DEF ReloadFails, SettingsTypes
  <2>3. ASSUME NEW w \in Writers, req'[w].pc = "reload"
        PROVE  At(w, "reload") /\ req'[w].node = req[w].node /\ req[w].node # n
    BY <1>3, <2>3, IdleTyped DEF ReloadFails, At
  <2> QED BY <1>0, <2>2, <2>3, OneReload
<1>4. ASSUME NEW n \in Nodes, Restart(n) PROVE NobodyWaitsInVain'
  <2>1. loads'[n] = {} /\ \A m \in Nodes \ {n} : loads'[m] = loads[m]
    BY <1>4 DEF Restart, SettingsTypes
  <2>2. ASSUME NEW w \in Writers, req'[w].pc = "reload"
        PROVE  At(w, "reload") /\ req'[w].node = req[w].node /\ req[w].node # n
    BY <1>4, <2>2, IdleTyped DEF Restart, At
  <2> QED BY <1>0, <2>1, <2>2, OneReload
<1>5. ASSUME NEW n \in Nodes, NEW v, Apply(n, v) PROVE NobodyWaitsInVain'
  <2>1. loads[n] = {v}
    BY <1>5 DEF Apply, NobodyWaitsInVain
  <2>2. loads'[n] = {} /\ \A m \in Nodes \ {n} : loads'[m] = loads[m]
    BY <1>5, <2>1 DEF Apply, SettingsTypes
  <2>3. ASSUME NEW w \in Writers, req'[w].pc = "reload"
        PROVE  At(w, "reload") /\ req'[w].node = req[w].node /\ req[w].node # n
    <3>1. req[w] \in Request
      BY DEF SettingsTypes
    <3>2. req'[w] # [req[w] EXCEPT !.pc = "view"]
      BY <2>3, <3>1 DEF Request
    <3> QED BY <1>5, <2>3, <3>2, ApplyMoves DEF At
  <2> QED BY <1>0, <2>2, <2>3, OneReload
<1>6. ASSUME NEW w \in Writers, NEW n \in Nodes, Set(w, n) PROVE NobodyWaitsInVain'
  <2>1. loads' = loads /\ \A u \in Writers : req'[u] = req[u] \/ req'[u].pc = "invalidate"
    BY <1>6 DEF Set, SettingsTypes
  <2>2. \A u \in Writers : At(u, "reload")' => At(u, "reload") /\ req'[u] = req[u]
    BY <2>1 DEF At
  <2> QED BY <2>1, <2>2 DEF NobodyWaitsInVain
<1>7. ASSUME NEW w \in Writers, Invalidate(w) PROVE NobodyWaitsInVain'
  <2>1. req[w] \in Request /\ req[w].node \in Nodes
    BY <1>7 DEF Invalidate, At, SettingsTypes
  <2>2. loads' = Reloaded(req[w].node)
    BY <1>7 DEF Invalidate
  <2>3. req'[w].node = req[w].node /\ \A u \in Writers \ {w} : req'[u] = req[u]
    BY <1>7, <2>1 DEF Invalidate, SettingsTypes, Request
  <2>4. \A u \in Writers : req'[u].pc = "reload" =>
          \/ At(u, "reload") /\ req'[u].node = req[u].node
          \/ req'[u].node = req[w].node
    BY <2>3 DEF At
  <2>5. \E v : loads'[req[w].node] = {v}
    BY <2>1, <2>2, ReloadedOnce
  <2>6. \A m \in Nodes \ {req[w].node} : loads'[m] = loads[m]
    BY <2>1, <2>2, ReloadedOnce
  <2>7. loads'[req[w].node] # {}
    BY <2>5
  <2>8. ASSUME NEW u \in Writers, req'[u].pc = "reload"
        PROVE  \/ /\ At(u, "reload") /\ req'[u].node = req[u].node
                  /\ (req[u].node = req[w].node /\ loads[req[w].node] # {}
                        => loads'[req[w].node] # {})
               \/ req'[u].node = req[w].node /\ loads'[req[w].node] # {}
    BY <2>4, <2>7, <2>8
  <2> QED BY <1>0, <2>1, <2>5, <2>6, <2>8, OneReload
<1>8. ASSUME NEW w \in Writers, View(w) PROVE NobodyWaitsInVain'
  <2>1. loads' = loads /\ \A u \in Writers : req'[u] = req[u] \/ req'[u].pc = "idle"
    BY <1>8, IdleTyped DEF View, SettingsTypes
  <2>2. \A u \in Writers : At(u, "reload")' => At(u, "reload") /\ req'[u] = req[u]
    BY <2>1 DEF At
  <2> QED BY <2>1, <2>2 DEF NobodyWaitsInVain
<1>9. ASSUME loads' = loads /\ req' = req PROVE NobodyWaitsInVain'
  BY <1>9 DEF NobodyWaitsInVain, At
<1>10. ASSUME NEW n \in Nodes, Age(n) PROVE NobodyWaitsInVain'
  BY <1>9, <1>10 DEF Age, Db
<1>11. CASE UNCHANGED settings
  BY <1>9, <1>11 DEF settings
<1> QED BY <1>1, <1>2, <1>3, <1>4, <1>5, <1>6, <1>7, <1>8, <1>10, <1>11 DEF SettingsNext

\* So a request that waits can always go on: its reload reads, fails or is applied.
THEOREM WaitersAreServed == SettingsSpec => []NobodyWaitsInVain
<1>1. SettingsInit => NobodyWaitsInVain
  BY DEF SettingsInit, NobodyWaitsInVain, Idle, At
<1>2. SettingsInv => SettingsTypes
  BY DEF SettingsInv
<1>3. SettingsTypes /\ SettingsTypes' /\ NobodyWaitsInVain /\ [SettingsNext]_settings
        => NobodyWaitsInVain'
  BY WaitsNext
<1> QED BY <1>1, <1>2, <1>3, SettingsInvHolds, PTL DEF SettingsSpec
=============================================================================
