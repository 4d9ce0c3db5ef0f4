-------------------------- MODULE SingleUse_proofs --------------------------
(***************************************************************************)
(* Proofs about SingleUse, for any values, concurrent requests and         *)
(* durations.                                                              *)
(***************************************************************************)
EXTENDS SingleUse, TLAPS

\* What is known of a value by its kind: a key or row that is there tells how
\* often the value was used, and one that is not, when it went.
ValueInv(v) ==
  /\ born[v] = 0 => uses[v] = 0 /\ mark[v].st = "none"
  /\ kind[v] = "uri" /\ uses[v] > 0 => mark[v].st = "none"
  /\ kind[v] = "payload" /\ uses[v] > 0
       => mark[v].st = "used" /\ born[v] + MaxAge < mark[v].until
  /\ kind[v] = "assertion" /\ mark[v].st # "none" => mark[v].until = born[v]
  /\ kind[v] = "assertion" /\ uses[v] > 0 /\ mark[v].st = "none" => born[v] < now
  /\ kind[v] = "proof" /\ uses[v] > 0
       => mark[v].st = "used" /\ mark[v].until = usedAt[v] + JtiTTL
  /\ kind[v] = "link" /\ uses[v] > 0 => mark[v].st # "open"

\* What a request under way knows of its value, if its look came after the
\* value's last use was recorded.
Knows(p) ==
  /\ req[p].value \in Values /\ born[req[p].value] # 0
  /\ At(p, "store") =>
       /\ kind[req[p].value] = "proof"
       /\ uses[req[p].value] > 0 /\ p \notin early
            => born[req[p].value] - usedAt[req[p].value] >= JtiTTL - IatSkew
  /\ At(p, "run") =>
       /\ kind[req[p].value] = "call"
       /\ p \notin early => ~Present(req[p].value)
  /\ At(p, "update") =>
       /\ kind[req[p].value] = "link"
       /\ p \notin early => uses[req[p].value] = 0

RequestInv == \A p \in Procs : ~At(p, "idle") => Knows(p)

Inv == TypeOK /\ RequestInv /\ \A v \in Values : ValueInv(v)

-----------------------------------------------------------------------------
(* What a step does to the requests and the books *)

LEMMA IdleIsRequest == Idle \in Request /\ Idle.pc = "idle"
BY DEF Idle, Request

\* Request p is over.
LEMMA FinishRests ==
  ASSUME TypeOK, NEW p \in Procs, Finish(p)
  PROVE  /\ req' \in [Procs -> Request] /\ req'[p] = Idle
         /\ \A q \in Procs : q # p => req'[q] = req[q]
BY IdleIsRequest DEF TypeOK, Finish

\* A look has decided for v.
LEMMA GoMoves ==
  ASSUME TypeOK, NEW p \in Procs, NEW v \in Values, NEW l \in {"store", "run", "update"},
         Go(p, v, l)
  PROVE  /\ req' \in [Procs -> Request] /\ req'[p].pc = l /\ req'[p].value = v
         /\ \A q \in Procs : q # p => req'[q] = req[q]
         /\ early' = early \ {p} /\ uses' = uses /\ usedAt' = usedAt
<1> DEFINE r == [pc |-> l, value |-> v]
<1>1. r \in Request /\ r.pc = l /\ r.value = v
  BY DEF Request
<1>2. req' = [req EXCEPT ![p] = r] /\ early' = early \ {p} /\ uses' = uses /\ usedAt' = usedAt
  BY DEF Go
<1> HIDE DEF r
<1> QED BY <1>1, <1>2 DEF TypeOK

\* A value is accepted: the books of that value, and who looked before.
LEMMA AcceptMoves ==
  ASSUME TypeOK, NEW p \in Procs, NEW v \in Values, Accept(p, v)
  PROVE  /\ req' \in [Procs -> Request] /\ req'[p] = Idle
         /\ \A q \in Procs : q # p => req'[q] = req[q]
         /\ uses' \in [Values -> Nat] /\ uses'[v] = uses[v] + 1
         /\ usedAt' \in [Values -> 0..MaxTime] /\ usedAt'[v] = now
         /\ \A x \in Values : x # v => uses'[x] = uses[x] /\ usedAt'[x] = usedAt[x]
         /\ early' \in SUBSET Procs
         /\ \A q \in Procs : q # p /\ (q \in early \/ req[q].value = v) => q \in early'
<1>1. /\ req' \in [Procs -> Request] /\ req'[p] = Idle
      /\ \A q \in Procs : q # p => req'[q] = req[q]
  BY FinishRests DEF Accept
<1>2. uses' = [uses EXCEPT ![v] = uses[v] + 1] /\ usedAt' = [usedAt EXCEPT ![v] = now]
  BY DEF Accept
<1>3. now \in 0..MaxTime /\ uses[v] + 1 \in Nat
  BY ConstAssumption DEF TypeOK
<1> QED BY <1>1, <1>2, <1>3 DEF TypeOK, Accept

LEMMA Durations ==
  /\ UriTTL \in Nat \ {0} /\ LinkTTL \in Nat /\ IatSkew \in Nat /\ JtiTTL \in Nat
  /\ FutureSkew \in Nat /\ MaxAge \in Nat /\ Margin \in Nat /\ FutureSkew < Margin
  /\ ReplyTTL \in Nat /\ MaxTime \in Nat \ {0} /\ NoValue \notin Values
BY ConstAssumption

-----------------------------------------------------------------------------
(* The types *)

\* A mark of one value that is one of its kind keeps the table well formed.
LEMMA MarkMoves ==
  ASSUME TypeOK, NEW v \in Values, NEW m \in Mark, mark' = [mark EXCEPT ![v] = m],
         kind' = kind, kind[v] = "uri" => m.st # "used"
  PROVE  /\ mark' \in [Values -> Mark] /\ mark'[v] = m
         /\ \A x \in Values : x # v => mark'[x] = mark[x]
         /\ \A x \in Values : kind'[x] = "uri" => mark'[x].st # "used"
BY DEF TypeOK

LEMMA Marks ==
  /\ Blank \in Mark /\ Blank.st = "none"
  /\ \A t \in Nat : Used(t) \in Mark /\ Used(t).st = "used" /\ Used(t).until = t
BY DEF Blank, Used, Mark

LEMMA TypeOfMakers ==
  ASSUME TypeOK, NEW v \in Values, NEW t \in 1..MaxTime,
         Push(v) \/ GenerateLink(v) \/ Make(v, t)
  PROVE  TypeOK'
<1>1. ASSUME NEW d \in Nat, kind' = kind, born' = [born EXCEPT ![v] = now],
             mark' = [mark EXCEPT ![v] = [st |-> "open", until |-> now + d]],
             UNCHANGED <<now, req, History>>
      PROVE  TypeOK'
  <2> DEFINE m == [st |-> "open", until |-> now + d]
  <2>1. now \in 1..MaxTime /\ now \in Nat
    BY ConstAssumption DEF TypeOK
  <2>2. m \in Mark /\ m.st = "open"
    BY <2>1 DEF Mark
  <2> HIDE DEF m
  <2>3. mark' \in [Values -> Mark] /\ \A x \in Values : kind'[x] = "uri" => mark'[x].st # "used"
    BY <1>1, <2>2, MarkMoves DEF m
  <2>4. born' \in [Values -> 0..MaxTime]
    BY <1>1, <2>1, ConstAssumption DEF TypeOK
  <2> QED BY <1>1, <2>3, <2>4 DEF TypeOK, History
<1>2. ASSUME Push(v) PROVE TypeOK'
  BY <1>1, <1>2, Durations DEF Push
<1>3. ASSUME GenerateLink(v) PROVE TypeOK'
  BY <1>1, <1>3, Durations DEF GenerateLink
<1>4. ASSUME Make(v, t) PROVE TypeOK'
  <2>1. born' \in [Values -> 0..MaxTime]
    BY <1>4, ConstAssumption DEF Make, TypeOK
  <2> QED BY <1>4, <2>1 DEF Make, TypeOK, History
<1> QED BY <1>2, <1>3, <1>4

\* What an accepted value leaves is well formed if the mark it leaves is.
LEMMA TypeOfAccept ==
  ASSUME TypeOK, NEW p \in Procs, NEW v \in Values, NEW m \in Mark, Accept(p, v),
         mark' = [mark EXCEPT ![v] = m], kind[v] = "uri" => m.st # "used",
         UNCHANGED <<kind, born, now>>
  PROVE  TypeOK'
BY AcceptMoves, MarkMoves DEF TypeOK

LEMMA TypeOfLooks ==
  ASSUME TypeOK, NEW p \in Procs, NEW v \in Values,
         Look(p, v) \/ Call(p, v) \/ FindLink(p, v)
  PROVE  TypeOK'
<1>1. PICK l \in {"store", "run", "update"} : Go(p, v, l) /\ UNCHANGED <<kind, born, mark, now>>
  BY DEF Look, Call, FindLink
<1> QED BY <1>1, GoMoves DEF TypeOK

LEMMA TypeOfRests ==
  ASSUME TypeOK, NEW p \in Procs, Finish(p), UNCHANGED <<kind, born, mark, now, History>>
  PROVE  TypeOK'
BY FinishRests DEF TypeOK, History

\* Marks that are gone.
LEMMA TypeOfReaping ==
  ASSUME TypeOK, NEW T \in SUBSET Values,
         mark' = [v \in Values |-> IF v \in T THEN Blank ELSE mark[v]],
         UNCHANGED <<kind, born, now, req, History>>
  PROVE  TypeOK'
BY Marks DEF TypeOK, History

-----------------------------------------------------------------------------
(* The steps, by what they do *)

\* Value v exists, is accepted for p and leaves mark m, as its kind has it.
AcceptsAs(p, v, m) ==
  /\ Accept(p, v) /\ mark' = [mark EXCEPT ![v] = m] /\ UNCHANGED <<kind, born, now>>
  /\ born[v] # 0
  /\ \/ kind[v] = "uri" /\ Present(v) /\ m = Blank
     \/ /\ kind[v] = "payload" /\ ~Present(v) /\ FreshPayload(born[v])
        /\ m = Used(now + PayloadKey)
     \/ kind[v] = "assertion" /\ ~Present(v) /\ m = Used(born[v])
     \/ kind[v] = "proof" /\ At(p, "store") /\ req[p].value = v /\ m = Used(now + JtiKey)
     \/ kind[v] = "call" /\ At(p, "run") /\ req[p].value = v
     \/ /\ kind[v] = "link" /\ At(p, "update") /\ req[p].value = v /\ Present(v)
        /\ m = [mark[v] EXCEPT !.st = "used"]

Accepts(p, v) == \E m \in Mark : AcceptsAs(p, v, m)

Looks(p, v) == Look(p, v) \/ Call(p, v) \/ FindLink(p, v)
Rests(p)    == Finish(p) /\ UNCHANGED <<kind, born, mark, now, History>>

\* The marks of T go: a key taken for nothing, rows whose time is up.
Goes(T) ==
  /\ mark' = [v \in Values |-> IF v \in T THEN Blank ELSE mark[v]]
  /\ \A v \in T : \/ kind[v] = "uri"
                  \/ kind[v] = "link"
                  \/ kind[v] = "assertion" /\ mark[v].st # "none" /\ mark[v].until < now
  /\ UNCHANGED <<kind, born, now, req, History>>

LEMMA StepsAre ==
  ASSUME TypeOK, RequestInv, Next
  PROVE  \/ \E v \in Values, t \in 1..MaxTime : Push(v) \/ GenerateLink(v) \/ Make(v, t)
         \/ \E p \in Procs, v \in Values : Accepts(p, v) \/ Looks(p, v)
         \/ \E p \in Procs : Rests(p)
         \/ \E T \in SUBSET Values : Goes(T)
         \/ Tick
<1>0. \A v \in Values : mark[v] \in Mark /\ born[v] \in Nat /\ now \in Nat /\ 1 \in 1..MaxTime
  BY Durations DEF TypeOK
<1>1. ASSUME NEW p \in Procs, NEW v \in Values, NEW own \in BOOLEAN, Consume(p, v, own)
      PROVE  Accepts(p, v) \/ \E T \in SUBSET Values : Goes(T)
  <2>1. CASE own
    BY <1>1, <2>1, Marks DEF Consume, Accepts, AcceptsAs, Taken, Shown
  <2>2. CASE ~own
    <3>1. mark' = [mark EXCEPT ![v] = Blank] /\ kind[v] = "uri"
          /\ UNCHANGED <<kind, born, now, req, History>>
      BY <1>1, <2>2 DEF Consume, Taken, Shown
    <3>2. mark' = [x \in Values |-> IF x \in {v} THEN Blank ELSE mark[x]]
      BY <3>1 DEF TypeOK
    <3>3. {v} \in SUBSET Values /\ Goes({v})
      BY <3>1, <3>2 DEF Goes
    <3> QED BY <3>3
  <2> QED BY <2>1, <2>2
<1>2. ASSUME NEW p \in Procs, NEW v \in Values, Claim(p, v) PROVE Accepts(p, v)
  <2>1. now + PayloadKey \in Nat
    BY <1>0, Durations DEF PayloadKey
  <2> QED BY <1>2, <2>1, Marks DEF Claim, Accepts, AcceptsAs, Shown
<1>3. ASSUME NEW p \in Procs, NEW v \in Values, Insert(p, v) PROVE Accepts(p, v)
  BY <1>0, <1>3, Marks DEF Insert, Accepts, AcceptsAs, Shown
<1>4. ASSUME NEW p \in Procs, Store(p) PROVE \E v \in Values : Accepts(p, v)
  <2>1. /\ req[p].value \in Values /\ kind[req[p].value] = "proof" /\ born[req[p].value] # 0
    BY <1>4 DEF Store, RequestInv, Knows, At
  <2>2. Used(now + JtiKey) \in Mark
    BY <1>0, <2>1, Durations, Marks DEF JtiKey
  <2> QED BY <1>4, <2>1, <2>2 DEF Store, Accepts, AcceptsAs
<1>5. ASSUME NEW p \in Procs, NEW kept \in BOOLEAN, Run(p, kept)
      PROVE  \E v \in Values : Accepts(p, v)
  <2> DEFINE v == req[p].value
             m == IF kept THEN Used(now + ReplyTTL) ELSE mark[v]
  <2>1. v \in Values /\ kind[v] = "call" /\ born[v] # 0
    BY <1>5 DEF Run, RequestInv, Knows, At
  <2>2. m \in Mark
    BY <1>0, <2>1, Durations, Marks
  <2>3. Accept(p, v) /\ mark' = [mark EXCEPT ![v] = m] /\ UNCHANGED <<kind, born, now>>
        /\ At(p, "run")
    BY <1>5 DEF Run
  <2> HIDE DEF m
  <2> QED BY <2>1, <2>2, <2>3 DEF Accepts, AcceptsAs
<1>6. ASSUME NEW p \in Procs, UseLink(p) PROVE Rests(p) \/ \E v \in Values : Accepts(p, v)
  <2> DEFINE v == req[p].value
             m == [mark[v] EXCEPT !.st = "used"]
  <2>1. v \in Values /\ kind[v] = "link" /\ born[v] # 0 /\ At(p, "update")
    BY <1>6 DEF UseLink, RequestInv, Knows, At
  <2>2. mark[v] \in Mark
    BY <1>0, <2>1
  <2>3. m \in Mark
    BY <2>2 DEF Mark
  <2>4. CASE Present(v)
    <3>1. Accept(p, v) /\ mark' = [mark EXCEPT ![v] = m] /\ UNCHANGED <<kind, born, now>>
      BY <1>6, <2>4 DEF UseLink
    <3> HIDE DEF m
    <3>2. AcceptsAs(p, v, m)
      BY <2>1, <2>4, <3>1 DEF AcceptsAs, m
    <3> QED BY <2>1, <2>3, <3>2 DEF Accepts
  <2>5. CASE ~Present(v)
    BY <1>6, <2>5 DEF UseLink, Rests
  <2> QED BY <2>4, <2>5
<1>7. ASSUME NEW k \in {"assertion", "link"},
             mark' = [v \in Values |-> IF v \in Gone(k) THEN Blank ELSE mark[v]],
             UNCHANGED <<kind, born, now, req, History>>
      PROVE  \E T \in SUBSET Values : Goes(T)
  <2>1. Gone(k) \in SUBSET Values /\ Goes(Gone(k))
    BY <1>7 DEF Gone, Goes, Present
  <2> QED BY <2>1
<1>8. ASSUME NEW p \in Procs, RunFails(p) \/ Crash(p) PROVE Rests(p)
  BY <1>8 DEF RunFails, Crash, Rests
<1> QED BY <1>0, <1>1, <1>2, <1>3, <1>4, <1>5, <1>6, <1>7, <1>8
        DEF Next, Looks, Reap, CleanupLinks

LEMMA TypeStep ==
  ASSUME TypeOK, RequestInv, Next
  PROVE  TypeOK'
<1>1. ASSUME NEW p \in Procs, NEW v \in Values, Accepts(p, v) PROVE TypeOK'
  <2>1. PICK m \in Mark : AcceptsAs(p, v, m)
    BY <1>1 DEF Accepts
  <2>2. kind[v] = "uri" => m.st # "used"
    BY <2>1, Marks DEF AcceptsAs
  <2> QED BY <2>1, <2>2, TypeOfAccept DEF AcceptsAs
<1>2. ASSUME NEW T \in SUBSET Values, Goes(T) PROVE TypeOK'
  BY <1>2, TypeOfReaping DEF Goes
<1>3. ASSUME Tick PROVE TypeOK'
  BY <1>3, ConstAssumption DEF Tick, TypeOK, History
<1> QED BY <1>1, <1>2, <1>3, StepsAre, TypeOfMakers, TypeOfLooks, TypeOfRests
        DEF Looks, Rests

-----------------------------------------------------------------------------
(* What is known of values and requests *)

\* A value nobody touched, at this moment or a later one.
LEMMA ValueQuiet ==
  ASSUME TypeOK, TypeOK', NEW v \in Values, ValueInv(v),
         kind'[v] = kind[v], born'[v] = born[v], mark'[v] = mark[v],
         uses'[v] = uses[v], usedAt'[v] = usedAt[v], now' >= now
  PROVE  ValueInv(v)'
<1>1. born[v] \in Nat /\ now \in Nat /\ now' \in Nat
  BY Durations DEF TypeOK
<1> QED BY <1>1 DEF ValueInv

\* A request nobody touched: its value was not used since its look, or it is
\* known to have looked before.
LEMMA RequestQuiet ==
  ASSUME TypeOK, TypeOK', NEW q \in Procs, ~At(q, "idle") => Knows(q),
         req'[q] = req[q], q \in early => q \in early', kind' = kind, now' >= now,
         ~At(q, "idle") =>
           /\ born'[req[q].value] = born[req[q].value]
           /\ \/ q \in early'
              \/ /\ uses'[req[q].value] = uses[req[q].value]
                 /\ usedAt'[req[q].value] = usedAt[req[q].value]
                 /\ \/ mark'[req[q].value] = mark[req[q].value]
                    \/ mark'[req[q].value].st = "none"
  PROVE  ~At(q, "idle")' => Knows(q)'
<1> SUFFICES ASSUME ~At(q, "idle")' PROVE Knows(q)'
  OBVIOUS
<1> DEFINE v == req[q].value
<1>1. ~At(q, "idle") /\ Knows(q) /\ v \in Values /\ req'[q].value = v
  BY DEF At, Knows
<1>2. now \in Nat /\ now' \in Nat /\ mark[v] \in Mark /\ mark[v].until \in Nat
  BY <1>1, Durations DEF TypeOK, Mark
<1>3. mark'[v] = mark[v] \/ mark'[v].st = "none" => (~Present(v) => ~Present(v)')
  BY <1>2 DEF Present
<1> QED BY <1>1, <1>3 DEF At, Knows

LEMMA KnownOfAccept ==
  ASSUME TypeOK, TypeOK', RequestInv, \A v \in Values : ValueInv(v),
         NEW p \in Procs, NEW v \in Values, Accepts(p, v)
  PROVE  RequestInv' /\ \A x \in Values : ValueInv(x)'
<1>1. PICK m \in Mark : AcceptsAs(p, v, m)
  BY DEF Accepts
<1>2. Accept(p, v) /\ UNCHANGED <<kind, born, now>> /\ mark' = [mark EXCEPT ![v] = m]
  BY <1>1 DEF AcceptsAs
<1>3. /\ req'[p] = Idle /\ \A q \in Procs : q # p => req'[q] = req[q]
      /\ uses'[v] = uses[v] + 1 /\ usedAt'[v] = now
      /\ \A x \in Values : x # v => uses'[x] = uses[x] /\ usedAt'[x] = usedAt[x]
      /\ \A q \in Procs : q # p /\ (q \in early \/ req[q].value = v) => q \in early'
  BY <1>2, AcceptMoves
<1>4. mark'[v] = m /\ \A x \in Values : x # v => mark'[x] = mark[x]
  BY <1>2 DEF TypeOK
<1>5. now \in Nat /\ born[v] \in Nat
  BY Durations DEF TypeOK
<1>6. ASSUME NEW x \in Values, x # v PROVE ValueInv(x)'
  BY <1>2, <1>3, <1>4, <1>5, <1>6, ValueQuiet
<1>7. ValueInv(v)'
  <2>1. CASE kind[v] = "uri"
    BY <1>1, <1>2, <1>4, <2>1, Marks DEF AcceptsAs, ValueInv
  <2>2. CASE kind[v] = "payload"
    <3>1. m = Used(now + PayloadKey) /\ FreshPayload(born[v]) /\ born[v] # 0
      BY <1>1, <2>2 DEF AcceptsAs
    <3>2. now + PayloadKey \in Nat /\ born[v] + MaxAge < now + PayloadKey
      BY <1>5, <3>1, Durations DEF FreshPayload, PayloadKey
    <3>3. mark'[v].st = "used" /\ mark'[v].until = now + PayloadKey
      BY <1>4, <3>1, <3>2, Marks
    <3> QED BY <1>2, <2>2, <3>1, <3>2, <3>3 DEF ValueInv
  <2>3. CASE kind[v] = "assertion"
    BY <1>1, <1>2, <1>4, <1>5, <2>3, Marks DEF AcceptsAs, ValueInv
  <2>4. CASE kind[v] = "proof"
    <3>1. m = Used(now + JtiKey) /\ now + JtiKey \in Nat /\ born[v] # 0
      BY <1>1, <1>5, <2>4, Durations DEF AcceptsAs, JtiKey
    <3>2. mark'[v].st = "used" /\ mark'[v].until = usedAt'[v] + JtiTTL
      BY <1>3, <1>4, <3>1, Marks DEF JtiKey
    <3> QED BY <1>2, <2>4, <3>1, <3>2 DEF ValueInv
  <2>5. CASE kind[v] = "call"
    BY <1>1, <1>2, <2>5 DEF AcceptsAs, ValueInv
  <2>6. CASE kind[v] = "link"
    <3>1. mark[v] \in Mark /\ m = [mark[v] EXCEPT !.st = "used"] /\ born[v] # 0
      BY <1>1, <2>6 DEF AcceptsAs, TypeOK
    <3>2. mark'[v].st = "used"
      BY <1>4, <3>1 DEF Mark
    <3> QED BY <1>2, <2>6, <3>1, <3>2 DEF ValueInv
  <2> QED BY <1>1, <2>1, <2>2, <2>3, <2>4, <2>5, <2>6 DEF AcceptsAs
<1>8. ASSUME NEW q \in Procs, ~At(q, "idle")' PROVE Knows(q)'
  <2>1. q # p
    BY <1>3, <1>8, IdleIsRequest DEF At
  <2>2. req'[q] = req[q] /\ ~At(q, "idle") /\ Knows(q) /\ req[q].value \in Values
    BY <1>3, <1>8, <2>1 DEF At, RequestInv, Knows
  <2>3. now' >= now /\ kind' = kind /\ born' = born
    BY <1>2, <1>5
  <2>4. \/ q \in early'
        \/ /\ uses'[req[q].value] = uses[req[q].value]
           /\ usedAt'[req[q].value] = usedAt[req[q].value]
           /\ mark'[req[q].value] = mark[req[q].value]
    BY <1>3, <1>4, <2>1, <2>2
  <2> QED BY <1>3, <1>8, <2>1, <2>2, <2>3, <2>4, RequestQuiet
<1> QED BY <1>6, <1>7, <1>8 DEF RequestInv

LEMMA KnownOfMakers ==
  ASSUME TypeOK, TypeOK', RequestInv, \A v \in Values : ValueInv(v),
         NEW v \in Values, NEW t \in 1..MaxTime, Push(v) \/ GenerateLink(v) \/ Make(v, t)
  PROVE  RequestInv' /\ \A x \in Values : ValueInv(x)'
<1>0. now \in Nat \ {0} /\ t \in Nat \ {0}
  BY Durations DEF TypeOK
<1>1. /\ UNCHANGED <<kind, now, req, History>> /\ born[v] = 0
      /\ \A x \in Values : x # v => born'[x] = born[x] /\ mark'[x] = mark[x]
  BY DEF Push, GenerateLink, Make, TypeOK
<1>2. \/ kind[v] \in {"uri", "link"} /\ mark'[v].st = "open" /\ born'[v] # 0
      \/ kind[v] \notin {"uri", "link"} /\ mark'[v] = mark[v] /\ born'[v] # 0
  BY <1>0 DEF Push, GenerateLink, Make, TypeOK
<1>3. uses[v] = 0 /\ mark[v].st = "none"
  BY <1>1 DEF ValueInv
<1>4. ValueInv(v)'
  BY <1>1, <1>2, <1>3 DEF ValueInv, History
<1>5. ASSUME NEW x \in Values, x # v PROVE ValueInv(x)'
  BY <1>0, <1>1, <1>5, ValueQuiet DEF History
<1>6. ASSUME NEW q \in Procs, ~At(q, "idle")' PROVE Knows(q)'
  <2>1. req'[q] = req[q] /\ ~At(q, "idle") /\ Knows(q) /\ req[q].value # v
    BY <1>1, <1>6 DEF At, RequestInv, Knows
  <2> QED BY <1>0, <1>1, <1>6, <2>1, RequestQuiet DEF History, Knows
<1> QED BY <1>4, <1>5, <1>6 DEF RequestInv

LEMMA KnownOfLooks ==
  ASSUME TypeOK, TypeOK', RequestInv, \A v \in Values : ValueInv(v),
         NEW p \in Procs, NEW v \in Values, Looks(p, v)
  PROVE  RequestInv' /\ \A x \in Values : ValueInv(x)'
<1>0. now \in Nat /\ born[v] \in Nat /\ usedAt[v] \in Nat /\ mark[v] \in Mark
  BY Durations DEF TypeOK
<1>1. PICK l \in {"store", "run", "update"} :
         /\ Go(p, v, l) /\ UNCHANGED <<kind, born, mark, now>> /\ born[v] # 0
         /\ \/ l = "store" /\ kind[v] = "proof" /\ ~Present(v) /\ FreshProof(born[v])
            \/ l = "run" /\ kind[v] = "call" /\ ~Present(v)
            \/ l = "update" /\ kind[v] = "link" /\ Usable(v)
  BY DEF Looks, Look, Call, FindLink, Shown
<1>2. /\ req'[p].pc = l /\ req'[p].value = v
      /\ \A q \in Procs : q # p => req'[q] = req[q]
      /\ early' = early \ {p} /\ uses' = uses /\ usedAt' = usedAt
  BY <1>1, GoMoves
<1>3. \A x \in Values : ValueInv(x)'
  BY <1>0, <1>1, <1>2, ValueQuiet
<1>4. Knows(p)'
  <2>1. CASE l = "store"
    <3>1. uses[v] > 0 => born[v] - usedAt[v] >= JtiTTL - IatSkew
      <4>1. SUFFICES ASSUME uses[v] > 0 PROVE born[v] - usedAt[v] >= JtiTTL - IatSkew
        OBVIOUS
      <4>2. mark[v].st = "used" /\ mark[v].until = usedAt[v] + JtiTTL
        BY <1>1, <2>1, <4>1 DEF ValueInv
      <4>3. ~(now < usedAt[v] + JtiTTL) /\ now - born[v] <= IatSkew
        BY <1>1, <2>1, <4>2 DEF Present, FreshProof
      <4> QED BY <1>0, <4>3, Durations
    <3> QED BY <1>1, <1>2, <2>1, <3>1 DEF Knows, At
  <2>2. CASE l = "run"
    BY <1>1, <1>2, <2>2 DEF Knows, At, Present
  <2>3. CASE l = "update"
    <3>1. uses[v] = 0
      BY <1>1, <2>3 DEF ValueInv, Usable, TypeOK
    <3> QED BY <1>1, <1>2, <2>3, <3>1 DEF Knows, At
  <2> QED BY <2>1, <2>2, <2>3
<1>5. ASSUME NEW q \in Procs, q # p, ~At(q, "idle")' PROVE Knows(q)'
  <2>1. req'[q] = req[q] /\ ~At(q, "idle") /\ Knows(q)
    BY <1>2, <1>5 DEF At, RequestInv
  <2> QED BY <1>0, <1>1, <1>2, <1>5, <2>1, RequestQuiet
<1> QED BY <1>3, <1>4, <1>5 DEF RequestInv

\* A request that is over, marks that go, time that passes.
LEMMA KnownOfRests ==
  ASSUME TypeOK, TypeOK', RequestInv, \A v \in Values : ValueInv(v),
         NEW p \in Procs, Rests(p)
  PROVE  RequestInv' /\ \A x \in Values : ValueInv(x)'
<1>0. now \in Nat
  BY Durations DEF TypeOK
<1>1. /\ req'[p] = Idle /\ \A q \in Procs : q # p => req'[q] = req[q]
      /\ UNCHANGED <<kind, born, mark, now, uses, usedAt, early>>
  BY FinishRests DEF Rests, History
<1>2. \A x \in Values : ValueInv(x)'
  BY <1>0, <1>1, ValueQuiet
<1>3. ASSUME NEW q \in Procs, ~At(q, "idle")' PROVE Knows(q)'
  <2>1. q # p
    BY <1>1, <1>3, IdleIsRequest DEF At
  <2>2. req'[q] = req[q] /\ ~At(q, "idle") /\ Knows(q)
    BY <1>1, <1>3, <2>1 DEF At, RequestInv
  <2> QED BY <1>0, <1>1, <1>3, <2>2, RequestQuiet
<1> QED BY <1>2, <1>3 DEF RequestInv

LEMMA KnownOfTime ==
  ASSUME TypeOK, TypeOK', RequestInv, \A v \in Values : ValueInv(v),
         Tick \/ \E T \in SUBSET Values : Goes(T)
  PROVE  RequestInv' /\ \A x \in Values : ValueInv(x)'
<1>0. now \in Nat /\ now' \in Nat
  BY Durations DEF TypeOK
<1>1. /\ UNCHANGED <<kind, born, req, uses, usedAt, early>> /\ now' >= now
      /\ \A x \in Values : \/ mark'[x] = mark[x]
                           \/ /\ mark'[x].st = "none"
                              /\ \/ kind[x] \in {"uri", "link"}
                                 \/ /\ kind[x] = "assertion" /\ mark[x].st # "none"
                                    /\ mark[x].until < now /\ now' = now
  BY <1>0, Marks DEF Tick, Goes, History
<1>2. ASSUME NEW x \in Values PROVE ValueInv(x)'
  <2>1. CASE mark'[x] = mark[x]
    BY <1>1, <2>1, ValueQuiet
  <2>2. CASE mark'[x] # mark[x]
    BY <1>1, <2>2 DEF ValueInv
  <2> QED BY <2>1, <2>2
<1>3. ASSUME NEW q \in Procs, ~At(q, "idle")' PROVE Knows(q)'
  <2>1. req'[q] = req[q] /\ ~At(q, "idle") /\ Knows(q) /\ req[q].value \in Values
    BY <1>1, <1>3 DEF At, RequestInv, Knows
  <2> QED BY <1>1, <1>3, <2>1, RequestQuiet
<1> QED BY <1>2, <1>3 DEF RequestInv

-----------------------------------------------------------------------------
(* The invariant *)

LEMMA InitInv == Init => Inv
<1> SUFFICES ASSUME Init PROVE Inv
  OBVIOUS
<1>1. TypeOK
  BY Durations, Marks, IdleIsRequest DEF Init, TypeOK
<1>2. RequestInv /\ \A v \in Values : ValueInv(v)
  BY Marks, IdleIsRequest DEF Init, RequestInv, At, ValueInv
<1> QED BY <1>1, <1>2 DEF Inv

LEMMA StepInv == Inv /\ [Next]_vars => Inv'
<1> SUFFICES ASSUME Inv, [Next]_vars PROVE Inv'
  OBVIOUS
<1> USE DEF Inv
<1>1. CASE UNCHANGED vars
  BY <1>1 DEF vars, TypeOK, RequestInv, Knows, ValueInv, At, Present
<1>2. CASE Next
  <2>1. TypeOK'
    BY <1>2, TypeStep
  <2> QED BY <1>2, <2>1, StepsAre, KnownOfAccept, KnownOfMakers, KnownOfLooks,
             KnownOfRests, KnownOfTime
<1> QED BY <1>1, <1>2

THEOREM InvHolds == Spec => []Inv
<1> QED BY InitInv, StepInv, PTL DEF Spec

-----------------------------------------------------------------------------
(* The results *)

\* Every value, mark and request is what it should be; a pushed request's key is
\* taken, never marked (par.service.ts:58-91).
THEOREM TypeCorrect == Spec => []TypeOK
<1>1. Inv => TypeOK
  BY DEF Inv
<1> QED BY <1>1, InvHolds, PTL

\* Only a step that accepts a value counts a use of it.
LEMMA UsesMove ==
  ASSUME Inv, [Next]_vars, NEW v \in Values
  PROVE  uses'[v] = uses[v] \/ \E p \in Procs : Accepts(p, v)
<1>1. ASSUME NEW p \in Procs, NEW x \in Values, Accepts(p, x), x # v PROVE uses'[v] = uses[v]
  BY <1>1, AcceptMoves DEF Inv, Accepts, AcceptsAs
<1>2. ASSUME UNCHANGED uses PROVE uses'[v] = uses[v]
  BY <1>2
<1>3. CASE UNCHANGED vars
  BY <1>3 DEF vars
<1>4. ASSUME Next,
             \/ \E x \in Values, t \in 1..MaxTime : Push(x) \/ GenerateLink(x) \/ Make(x, t)
             \/ \E p \in Procs, x \in Values : Looks(p, x)
             \/ \E p \in Procs : Rests(p)
             \/ \E T \in SUBSET Values : Goes(T)
             \/ Tick
      PROVE  UNCHANGED uses
  BY <1>4 DEF Push, GenerateLink, Make, Looks, Look, Call, FindLink, Go, Rests, Goes, Tick, History
<1> QED BY <1>1, <1>2, <1>3, <1>4, StepsAre DEF Inv

\* A value is accepted again only by a request that looked before its last use
\* was recorded, or where the clock or a lost reply lets it through: a replayed
\* link, payload or pushed request never is (dpop.service.ts:151-167,
\* client-assertion-jti.store.ts:13-27, magic-link.service.ts:53-98).
THEOREM SecondUses == Spec => SecondUseIsExcused
<1>1. ASSUME Inv, [Next]_vars, NEW v \in Values, uses[v] > 0, uses'[v] > uses[v]
      PROVE  (\E p \in early : req[p].value = v /\ req'[p] = Idle) \/ Excused(v)
  <2> USE DEF Inv
  <2>1. ValueInv(v) /\ uses[v] \in Nat /\ now \in Nat /\ born[v] \in Nat
    BY <1>1, Durations DEF TypeOK
  <2>2. PICK p \in Procs, m \in Mark : AcceptsAs(p, v, m)
    BY <1>1, <2>1, UsesMove DEF Accepts
  <2>3. req'[p] = Idle
    BY <1>1, <2>2, AcceptMoves DEF AcceptsAs
  <2>4. ~At(p, "idle") => Knows(p)
    BY <1>1 DEF RequestInv
  <2>5. CASE kind[v] = "uri"
    BY <1>1, <2>1, <2>2, <2>5 DEF AcceptsAs, ValueInv, Present
  <2>6. CASE kind[v] = "payload"
    <3>1. mark[v].st = "used" /\ born[v] + MaxAge < mark[v].until
      BY <1>1, <2>1, <2>6 DEF ValueInv
    <3>2. mark[v].until \in Nat
      BY <1>1 DEF TypeOK, Mark
    <3>3. ~Present(v) /\ now - born[v] <= MaxAge
      BY <2>2, <2>6 DEF AcceptsAs, FreshPayload
    <3>4. ~(now < mark[v].until)
      BY <2>6, <3>1, <3>3 DEF Present
    <3> QED BY <2>1, <3>1, <3>2, <3>3, <3>4, Durations
  <2>7. CASE kind[v] = "assertion"
    <3>1. mark[v].st = "none"
      BY <2>2, <2>7 DEF AcceptsAs, Present, Rows
    <3> QED BY <1>1, <2>1, <2>7, <3>1 DEF ValueInv, Excused
  <2>8. CASE kind[v] = "proof"
    BY <1>1, <2>2, <2>3, <2>4, <2>8 DEF AcceptsAs, Knows, Excused, At
  <2>9. CASE kind[v] = "call"
    BY <1>1, <2>2, <2>3, <2>4, <2>9 DEF AcceptsAs, Knows, Excused, At
  <2>10. CASE kind[v] = "link"
    BY <1>1, <2>1, <2>2, <2>3, <2>4, <2>10 DEF AcceptsAs, Knows, At
  <2> QED BY <2>2, <2>5, <2>6, <2>7, <2>8, <2>9, <2>10 DEF AcceptsAs
<1>2. Inv /\ [Next]_vars
        => [\A v \in Values :
              uses[v] > 0 /\ uses'[v] > uses[v]
                => \/ \E p \in early : req[p].value = v /\ req'[p] = Idle
                   \/ Excused(v)]_vars
  BY <1>1
<1> QED BY <1>2, InvHolds, PTL DEF Spec, SecondUseIsExcused

-----------------------------------------------------------------------------
(* Values taken with one command implement OneShot *)

LEMMA StandingIs ==
  ASSUME TypeOK, NEW v \in Values
  PROVE  /\ Standing[v] \in {"new", "open", "spent", "void"}
         /\ Standing[v] = "new"   <=> ~Issued(v)
         /\ Standing[v] = "spent" <=> Issued(v) /\ uses[v] > 0
         /\ Standing[v] = "open"  <=> Issued(v) /\ ~(uses[v] > 0) /\ Live(v)
         /\ Payouts[v] = IF kind[v] \in Atomic THEN uses[v] ELSE 0
<1>1. Standing[v] = StandingOf(v) /\ Payouts[v] = PayoutOf(v)
  BY DEF Standing, Payouts
<1> QED BY <1>1 DEF StandingOf, PayoutOf

LEMMA StandingIsNext ==
  ASSUME TypeOK', NEW v \in Values
  PROVE  /\ Standing'[v] \in {"new", "open", "spent", "void"}
         /\ Standing'[v] = "new"   <=> ~Issued(v)'
         /\ Standing'[v] = "spent" <=> Issued(v)' /\ uses'[v] > 0
         /\ Standing'[v] = "open"  <=> Issued(v)' /\ ~(uses'[v] > 0) /\ Live(v)'
         /\ Payouts'[v] = IF kind'[v] \in Atomic THEN uses'[v] ELSE 0
<1>1. Standing'[v] = StandingOf(v)' /\ Payouts'[v] = PayoutOf(v)'
  BY DEF Standing, Payouts
<1> QED BY <1>1 DEF StandingOf, PayoutOf

LEMMA AreFunctions ==
  /\ Standing = [v \in Values |-> Standing[v]] /\ Payouts = [v \in Values |-> Payouts[v]]
  /\ Standing' = [v \in Values |-> Standing'[v]] /\ Payouts' = [v \in Values |-> Payouts'[v]]
BY DEF Standing, Payouts

\* A value that is neither made nor accepted stands as before, or is void.
LEMMA OthersStand ==
  ASSUME Inv, Inv', NEW v \in Values, kind' = kind, born'[v] = born[v], uses'[v] = uses[v],
         now' >= now, \/ mark'[v] = mark[v]
                      \/ mark'[v].st = "none"
  PROVE  /\ Payouts'[v] = Payouts[v]
         /\ \/ Standing'[v] = Standing[v]
            \/ Standing[v] = "open" /\ Standing'[v] = "void"
<1>1. now \in Nat /\ now' \in Nat /\ born[v] \in Nat /\ TypeOK /\ TypeOK'
      /\ mark[v].until \in Nat
  BY Durations DEF Inv, TypeOK, Mark
<1>2. Live(v)' => Live(v)
  BY <1>1, Durations DEF Live, Present
<1>3. Issued(v)' <=> Issued(v)
  BY DEF Issued
<1> QED BY <1>1, <1>2, <1>3, StandingIs, StandingIsNext

\* If that is so of every value, some that were open are void now, or none.
LEMMA RestIsVoid ==
  ASSUME Inv, Inv', kind' = kind, now' >= now,
         \A v \in Values : /\ Issued(v)' <=> Issued(v)
                           /\ Issued(v) => /\ born'[v] = born[v] /\ uses'[v] = uses[v]
                                           /\ \/ mark'[v] = mark[v]
                                              \/ mark'[v].st = "none"
  PROVE  \E T \in SUBSET Values : Ticket!Void(T)
<1> DEFINE T == {v \in Values : Standing'[v] # Standing[v]}
<1>1. ASSUME NEW v \in Values
      PROVE  /\ Payouts'[v] = Payouts[v]
             /\ \/ Standing'[v] = Standing[v]
                \/ Standing[v] = "open" /\ Standing'[v] = "void"
  <2>1. CASE Issued(v)
    BY <2>1, OthersStand
  <2>2. CASE ~Issued(v)
    <3>1. TypeOK /\ TypeOK' /\ ~Issued(v)' /\ ValueInv(v) /\ ValueInv(v)'
      BY <2>2 DEF Inv
    <3>2. Payouts'[v] = 0 /\ Payouts[v] = 0
      BY <2>2, <3>1, StandingIs, StandingIsNext DEF Issued, ValueInv
    <3> QED BY <2>2, <3>1, <3>2, StandingIs, StandingIsNext
  <2> QED BY <2>1, <2>2
<1>2. Payouts' = Payouts
  BY <1>1, AreFunctions
<1>3. Standing' = [v \in Values |-> IF v \in T THEN "void" ELSE Standing[v]]
  BY <1>1, AreFunctions
<1>4. T \in SUBSET Values /\ \A v \in T : Standing[v] = "open"
  BY <1>1
<1> HIDE DEF T
<1> QED BY <1>2, <1>3, <1>4 DEF Ticket!Void

\* A pushed request, or a payload, comes into being as an open ticket.
LEMMA MadeIsOpen ==
  ASSUME Inv, Inv', NEW v \in Values, NEW t \in 1..MaxTime, kind[v] \in Atomic,
         Push(v) \/ GenerateLink(v) \/ Make(v, t)
  PROVE  Ticket!Open(v)
<1>0. TypeOK /\ TypeOK' /\ ValueInv(v) /\ ValueInv(v)' /\ now \in Nat /\ t \in Nat \ {0}
      /\ now # 0
  BY Durations DEF Inv, TypeOK
<1>1. /\ UNCHANGED <<kind, now, req, History>> /\ born[v] = 0 /\ born'[v] # 0
      /\ \A x \in Values : x # v => born'[x] = born[x] /\ mark'[x] = mark[x]
  BY <1>0 DEF Push, GenerateLink, Make, TypeOK
<1>2. uses[v] = 0 /\ uses' = uses
  BY <1>0, <1>1 DEF ValueInv, History
<1>3. Live(v)'
  <2>1. CASE Push(v)
    <3>1. /\ kind'[v] = "uri" /\ mark'[v] = [st |-> "open", until |-> now + UriTTL] /\ now' = now
      BY <1>0, <2>1 DEF Push, TypeOK
    <3>2. mark'[v].st # "none" /\ now' < mark'[v].until
      BY <1>0, <3>1, Durations
    <3> QED BY <3>1, <3>2 DEF Live, Present
  <2>2. CASE Make(v, t)
    <3>1. kind'[v] = "payload" /\ now' = now /\ born'[v] = t /\ t >= now
      BY <1>0, <2>2 DEF Make, TypeOK, Atomic
    <3> QED BY <1>0, <3>1, Durations DEF Live
  <2>3. CASE GenerateLink(v)
    BY <2>3 DEF GenerateLink, Atomic
  <2> QED BY <2>1, <2>2, <2>3
<1>4. /\ Standing[v] = "new" /\ Standing'[v] = "open" /\ Payouts'[v] = Payouts[v]
  BY <1>0, <1>1, <1>2, <1>3, StandingIs, StandingIsNext DEF Issued
<1>5. ASSUME NEW x \in Values, x # v PROVE Standing'[x] = Standing[x] /\ Payouts'[x] = Payouts[x]
  <2>1. (Issued(x)' <=> Issued(x)) /\ (Live(x)' <=> Live(x))
    BY <1>1, <1>5 DEF Issued, Live, Present
  <2> QED BY <1>0, <1>1, <1>2, <2>1, StandingIs, StandingIsNext
<1>6. Standing' = [Standing EXCEPT ![v] = "open"] /\ Payouts' = Payouts
  BY <1>4, <1>5, AreFunctions
<1> QED BY <1>4, <1>6 DEF Ticket!Open

\* One that is accepted was open: it is spent.
LEMMA AcceptIsPay ==
  ASSUME Inv, Inv', NEW p \in Procs, NEW v \in Values, kind[v] \in Atomic, Accepts(p, v)
  PROVE  Ticket!Pay(v)
<1>0. TypeOK /\ TypeOK' /\ ValueInv(v) /\ uses[v] \in Nat /\ now \in Nat /\ born[v] \in Nat
      /\ mark[v].until \in Nat
  BY Durations DEF Inv, TypeOK, Mark
<1>1. PICK m \in Mark : AcceptsAs(p, v, m)
  BY DEF Accepts
<1>2. /\ UNCHANGED <<kind, born, now>> /\ uses'[v] = uses[v] + 1
      /\ \A x \in Values : x # v => uses'[x] = uses[x] /\ mark'[x] = mark[x]
  BY <1>0, <1>1, AcceptMoves DEF AcceptsAs, TypeOK
<1>3. ~(uses[v] > 0) /\ Live(v) /\ Issued(v)
  <2>1. CASE kind[v] = "uri"
    BY <1>0, <1>1, <2>1 DEF AcceptsAs, ValueInv, Live, Issued, Present
  <2>2. CASE kind[v] = "payload"
    <3>1. ~Present(v) /\ now - born[v] <= MaxAge /\ born[v] # 0
      BY <1>1, <2>2 DEF AcceptsAs, FreshPayload
    <3>2. ~(uses[v] > 0)
      <4>1. SUFFICES ASSUME uses[v] > 0 PROVE FALSE
        OBVIOUS
      <4>2. mark[v].st = "used" /\ born[v] + MaxAge < mark[v].until
        BY <1>0, <2>2, <4>1 DEF ValueInv
      <4>3. ~(now < mark[v].until)
        BY <3>1, <4>2 DEF Present
      <4> QED BY <1>0, <3>1, <4>2, <4>3, Durations
    <3> QED BY <2>2, <3>1, <3>2 DEF Live, Issued
  <2> QED BY <2>1, <2>2 DEF Atomic
<1>4. Standing[v] = "open" /\ Standing'[v] = "spent" /\ Payouts'[v] = Payouts[v] + 1
  <2>1. Issued(v)' /\ uses'[v] > 0
    BY <1>0, <1>2, <1>3 DEF Issued
  <2> QED BY <1>0, <1>2, <1>3, <2>1, StandingIs, StandingIsNext
<1>5. ASSUME NEW x \in Values, x # v PROVE Standing'[x] = Standing[x] /\ Payouts'[x] = Payouts[x]
  <2>1. (Issued(x)' <=> Issued(x)) /\ (Live(x)' <=> Live(x))
    BY <1>2, <1>5 DEF Issued, Live, Present
  <2> QED BY <1>0, <1>2, <1>5, <2>1, StandingIs, StandingIsNext
<1>6. Standing' = [Standing EXCEPT ![v] = "spent"] /\ Payouts' = [Payouts EXCEPT ![v] = @ + 1]
  BY <1>4, <1>5, AreFunctions
<1> QED BY <1>4, <1>6 DEF Ticket!Pay

\* A pushed request and a used payload are accepted at most once, whoever asks,
\* however requests overlap and clocks differ (par.service.ts:73-75,
\* telegram-auth.service.ts:141).
THEOREM AtomicValuesImplementOneShot == Spec => AtomicOnesAreOneShot
<1>1. Init => Ticket!Init
  <2> SUFFICES ASSUME Init PROVE Ticket!Init
    OBVIOUS
  <2>1. TypeOK
    BY InitInv DEF Inv
  <2>2. ASSUME NEW v \in Values PROVE Standing[v] = "new" /\ Payouts[v] = 0
    BY <2>1, StandingIs DEF Init, Issued
  <2> QED BY <2>2, AreFunctions DEF Ticket!Init
<1>2. Inv /\ Inv' /\ [Next]_vars => [Ticket!Next]_(Ticket!shot)
  <2> SUFFICES ASSUME Inv, Inv', [Next]_vars PROVE Ticket!Next
    BY DEF Ticket!shot
  <2>0. TypeOK /\ RequestInv /\ now \in Nat
    BY Durations DEF Inv, TypeOK
  <2>1. ASSUME NEW v \in Values, NEW t \in 1..MaxTime, Push(v) \/ GenerateLink(v) \/ Make(v, t)
        PROVE  Ticket!Next
    <3>1. CASE kind[v] \in Atomic
      BY <2>1, <3>1, MadeIsOpen DEF Ticket!Next
    <3>2. CASE kind[v] \notin Atomic
      <4>1. UNCHANGED <<kind, now, uses>>
            /\ \A x \in Values : x # v => born'[x] = born[x] /\ mark'[x] = mark[x]
        BY <2>0, <2>1 DEF Push, GenerateLink, Make, TypeOK, History
      <4> QED BY <2>0, <3>2, <4>1, RestIsVoid DEF Issued, Ticket!Next
    <3> QED BY <3>1, <3>2
  <2>2. ASSUME NEW p \in Procs, NEW v \in Values, Accepts(p, v) PROVE Ticket!Next
    <3>1. CASE kind[v] \in Atomic
      BY <2>2, <3>1, AcceptIsPay DEF Ticket!Next
    <3>2. CASE kind[v] \notin Atomic
      <4>1. UNCHANGED <<kind, born, now>>
            /\ \A x \in Values : x # v => uses'[x] = uses[x] /\ mark'[x] = mark[x]
        BY <2>0, <2>2, AcceptMoves DEF Accepts, AcceptsAs, TypeOK
      <4> QED BY <2>0, <3>2, <4>1, RestIsVoid DEF Issued, Ticket!Next
    <3> QED BY <3>1, <3>2
  <2>3. ASSUME UNCHANGED <<kind, born, uses>>, now' >= now,
               \A v \in Values : mark'[v] = mark[v] \/ mark'[v].st = "none"
        PROVE  Ticket!Next
    BY <2>3, RestIsVoid DEF Issued, Ticket!Next
  <2>4. ASSUME NEW p \in Procs, NEW v \in Values, Looks(p, v) PROVE Ticket!Next
    BY <2>0, <2>3, <2>4 DEF Looks, Look, Call, FindLink, Go
  <2>5. ASSUME NEW p \in Procs, Rests(p) PROVE Ticket!Next
    BY <2>0, <2>3, <2>5 DEF Rests, History
  <2>6. ASSUME NEW T \in SUBSET Values, Goes(T) PROVE Ticket!Next
    BY <2>0, <2>3, <2>6, Marks DEF Goes, History
  <2>7. CASE Tick
    BY <2>0, <2>3, <2>7 DEF Tick, History
  <2>8. CASE UNCHANGED vars
    BY <2>0, <2>3, <2>8 DEF vars
  <2> QED BY <2>0, <2>1, <2>2, <2>4, <2>5, <2>6, <2>7, <2>8, StepsAre
<1> QED
  BY <1>1, <1>2, InvHolds, PTL DEF Spec, AtomicOnesAreOneShot, Ticket!Spec

\* A pushed request or a payload is used at most once.
OneUseOfAtomics == \A v \in Values : kind[v] \in Atomic => uses[v] <= 1

\* Whatever overlaps, and however the clocks of the signer and of the service differ
\* (par.service.ts:73-75, telegram-auth.service.ts:141).
THEOREM AtomicValuesAreUsedOnce == Spec => []OneUseOfAtomics
<1> DEFINE Told == \A t \in Values : Payouts[t] = IF Standing[t] = "spent" THEN 1 ELSE 0
<1>1. Ticket!Init => Told
  BY DEF Ticket!Init
<1>2. Told /\ [Ticket!Next]_(Ticket!shot) => Told'
  <2> SUFFICES ASSUME Told, [Ticket!Next]_(Ticket!shot), NEW t \in Values
               PROVE  Payouts'[t] = IF Standing'[t] = "spent" THEN 1 ELSE 0
    OBVIOUS
  <2>1. Standing = [c \in Values |-> Standing[c]] /\ Payouts = [c \in Values |-> Payouts[c]]
    BY AreFunctions
  <2>2. ASSUME NEW c \in Values, Ticket!Open(c) PROVE Payouts'[t] = IF Standing'[t] = "spent" THEN 1 ELSE 0
    BY <2>1, <2>2 DEF Ticket!Open
  <2>3. ASSUME NEW c \in Values, Ticket!Pay(c) PROVE Payouts'[t] = IF Standing'[t] = "spent" THEN 1 ELSE 0
    <3>1. CASE t = c
      <4>1. Payouts[t] = 0 /\ Standing'[t] = "spent" /\ Payouts'[t] = Payouts[t] + 1
        BY <2>1, <2>3, <3>1 DEF Ticket!Pay
      <4> QED BY <4>1
    <3>2. CASE t # c
      BY <2>1, <2>3, <3>2 DEF Ticket!Pay
    <3> QED BY <3>1, <3>2
  <2>4. ASSUME NEW T \in SUBSET Values, Ticket!Void(T) PROVE Payouts'[t] = IF Standing'[t] = "spent" THEN 1 ELSE 0
    BY <2>4 DEF Ticket!Void
  <2>5. CASE UNCHANGED Ticket!shot
    BY <2>5 DEF Ticket!shot
  <2> QED BY <2>2, <2>3, <2>4, <2>5 DEF Ticket!Next
<1>3. Told => OneUseOfAtomics
  BY DEF OneUseOfAtomics, Payouts, PayoutOf
<1> QED BY <1>1, <1>2, <1>3, AtomicValuesImplementOneShot, PTL DEF Ticket!Spec, AtomicOnesAreOneShot
=============================================================================
