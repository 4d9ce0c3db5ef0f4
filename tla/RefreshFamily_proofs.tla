------------------------ MODULE RefreshFamily_proofs ------------------------
(***************************************************************************)
(* Proofs about RefreshFamily for any set of rows and any number of        *)
(* concurrent requests.                                                    *)
(***************************************************************************)
EXTENDS RefreshFamily, FiniteSetTheorems, TLAPS

\* Labels at which a request works on a token, and on the child it found.
OnToken == {"claim", "reread", "grace", "findChild", "checkChild", "grandchild",
            "revokeOne", "eraseAround"}
OnChild == {"checkChild", "grandchild"}

\* The request variables, typed; a request working on a token holds one.
LocalOK ==
  /\ pc \in [Procs -> PCs]
  /\ op \in [Procs -> Ops]
  /\ tok \in [Procs -> Token0]
  /\ seen \in [Procs -> Row]
  /\ at \in [Procs -> Time0]
  /\ child \in [Procs -> Token0]
  /\ targets \in [Procs -> SUBSET Tokens]
  /\ reply \in [Procs -> Token0]
  /\ dead \in [Procs -> SUBSET Tokens]
  /\ \A p \in Procs : pc[p] \in OnToken => tok[p] \in Tokens
  /\ \A p \in Procs : pc[p] \in OnChild => child[p] \in Tokens

\* The shared variables, typed.
SharedOK ==
  /\ row \in [Tokens -> Row]
  /\ now \in 1..MaxTime
  /\ signIns \in 0..MaxSignIns
  /\ cleaning \in Time0
  /\ cut \in BOOLEAN

-----------------------------------------------------------------------------
(* Rows *)

LEMMA BlankIsRow == Blank \in Row /\ [Blank EXCEPT !.st = "deleted"] \in Row
BY DEF Blank, Row, Token0, Time0

LEMMA NewRowIsRow ==
  ASSUME SharedOK, NEW p \in Token0 PROVE NewRow(p) \in Row
<1>1. now + Life \in Time0
  BY ConstAssumption DEF SharedOK, Time0, Time
<1> QED
  BY <1>1 DEF NewRow, Blank, Row, Time0, Token0

LEMMA ErasedIsRow ==
  ASSUME NEW r \in Row PROVE ErasedKept(r) \in Row
BY DEF ErasedKept, Row, Time0, Token0

LEMMA RevokedIsRow ==
  ASSUME NEW r \in Row, NEW n \in Time0 PROVE RevokedAt(r, n) \in Row
BY DEF RevokedAt, Row

LEMMA SealedIsRow ==
  ASSUME SharedOK, NEW r \in Row, NEW c \in Tokens PROVE Sealed(r, c) \in Row
<1>1. now + Window \in Time0
  BY ConstAssumption DEF SharedOK, Time0, Time
<1> QED
  BY <1>1 DEF Sealed, Row, Token0

LEMMA NowIsTime == ASSUME SharedOK PROVE now \in Time0
BY ConstAssumption DEF SharedOK, Time0, Time

-----------------------------------------------------------------------------
(* The request variables keep their types *)

LEMMA FinishTyped ==
  ASSUME LocalOK, NEW p \in Procs, NEW t \in Token0, Finish(p, t)
  PROVE  LocalOK'
BY BlankIsRow DEF LocalOK, Finish, PCs, Ops, Token0, Time0, OnToken, OnChild

LEMMA BeginTyped ==
  ASSUME LocalOK, SharedOK, NEW p \in Procs, NEW o \in Ops, NEW t \in Token0, NEW l \in PCs,
         Begin(p, o, t, l), l \in OnToken => t \in Tokens, l \notin OnChild
  PROVE  LocalOK'
<1>1. (IF l = "grace" THEN row[t] ELSE Blank) \in Row
  BY BlankIsRow DEF SharedOK, OnToken
<1> QED
  BY <1>1 DEF LocalOK, Begin, PCs, Ops, Token0, Time0

\* A request that goes on, with what it read since.
LEMMA GotoTyped ==
  ASSUME LocalOK, NEW p \in Procs, NEW l \in PCs, Goto(p, l),
         NEW r \in Row, NEW n \in Time0, NEW c \in Token0, NEW T \in SUBSET Tokens,
         seen' \in {seen, [seen EXCEPT ![p] = r]}, at' \in {at, [at EXCEPT ![p] = n]},
         child' \in {child, [child EXCEPT ![p] = c]},
         targets' \in {targets, [targets EXCEPT ![p] = T]},
         l \in OnToken => pc[p] \in OnToken,
         \/ l \notin OnChild
         \/ pc[p] \in OnChild /\ child' = child
         \/ c \in Tokens /\ child' = [child EXCEPT ![p] = c]
  PROVE  LocalOK'
<1>1. /\ pc' \in [Procs -> PCs] /\ op' \in [Procs -> Ops] /\ tok' \in [Procs -> Token0]
      /\ reply' \in [Procs -> Token0] /\ dead' \in [Procs -> SUBSET Tokens]
  BY DEF LocalOK, Goto
<1>2. seen' \in [Procs -> Row] /\ at' \in [Procs -> Time0]
  BY DEF LocalOK
<1>3. child' \in [Procs -> Token0] /\ targets' \in [Procs -> SUBSET Tokens]
  BY DEF LocalOK
<1>4. \A q \in Procs : pc'[q] \in OnToken => tok'[q] \in Tokens
  BY DEF LocalOK, Goto
<1>5. \A q \in Procs : pc'[q] \in OnChild => child'[q] \in Tokens
  BY DEF LocalOK, Goto
<1> QED
  BY <1>1, <1>2, <1>3, <1>4, <1>5 DEF LocalOK

LEMMA KeepTyped ==
  ASSUME LocalOK, NEW p \in Procs, NEW l \in PCs, Goto(p, l),
         UNCHANGED <<seen, at, child, targets>>,
         l \in OnToken => pc[p] \in OnToken, l \in OnChild => pc[p] \in OnChild
  PROVE  LocalOK'
BY DEF LocalOK, Goto

LEMMA NoGraceTyped ==
  ASSUME LocalOK, NEW p \in Procs, NoGrace(p)
  PROVE  LocalOK'
<1>1. NoToken \in Token0 /\ "revoke" \in PCs
  BY DEF Token0, PCs
<1>2. "revoke" \notin OnToken /\ "revoke" \notin OnChild
  BY DEF OnToken, OnChild
<1> QED
  BY <1>1, <1>2, FinishTyped, KeepTyped DEF NoGrace

-----------------------------------------------------------------------------
(* Type correctness *)

LEMMA TypeSplit == LocalOK /\ SharedOK => TypeOK
BY DEF TypeOK, LocalOK, SharedOK

\* Statements of a request that write no row and leave the shared state alone.
LEMMA SharedKept ==
  ASSUME SharedOK, UNCHANGED <<row, now, signIns, cleaning>>, cut' \in BOOLEAN
  PROVE  SharedOK'
BY DEF SharedOK

\* What a request does with the rows keeps the table typed.
LEMMA StartTyped ==
  ASSUME LocalOK, SharedOK, NEW p \in Procs, Start(p)
  PROVE  LocalOK' /\ SharedOK'
<1>0. {"claim", "grace", "revoke", "revokeOne"} \subseteq PCs /\ NoToken \in Token0
  BY DEF PCs, Token0
<1>a. {"claim", "grace", "revoke", "revokeOne"} \cap OnChild = {} /\ "revoke" \notin OnToken
  BY DEF OnToken, OnChild
<1>1. ASSUME NEW t \in Tokens, PresentRefused(p, t) PROVE LocalOK' /\ SharedOK'
  BY <1>0, <1>1, FinishTyped, SharedKept DEF PresentRefused, db, SharedOK
<1>2. ASSUME NEW t \in Tokens, PresentLive(p, t) PROVE LocalOK' /\ SharedOK'
  <2>1. "rotate" \in Ops /\ t \in Token0
    BY DEF Ops, Token0
  <2> QED BY <1>0, <1>2, <2>1, <1>a, BeginTyped, SharedKept DEF PresentLive, db, SharedOK
<1>3. ASSUME NEW t \in Tokens, PresentRevoked(p, t) PROVE LocalOK' /\ SharedOK'
  <2>1. "replay" \in Ops /\ t \in Token0
    BY DEF Ops, Token0
  <2> QED BY <1>0, <1>3, <2>1, <1>a, BeginTyped, SharedKept DEF PresentRevoked, db, SharedOK
<1>4. ASSUME NEW t \in Tokens, NEW o \in Ops, RevokeOne(p, t, o) PROVE LocalOK' /\ SharedOK'
  <2>1. t \in Token0
    BY DEF Token0
  <2> QED BY <1>0, <1>4, <2>1, <1>a, BeginTyped, SharedKept DEF RevokeOne, db, SharedOK
<1>5. ASSUME NEW keep \in Token0, SignOut(p, keep) PROVE LocalOK' /\ SharedOK'
  <2>1. "signOut" \in Ops
    BY DEF Ops
  <2> QED BY <1>0, <1>5, <2>1, <1>a, BeginTyped, SharedKept DEF SignOut, db, SharedOK
<1> QED
  BY <1>1, <1>2, <1>3, <1>4, <1>5 DEF Start

\* The rows after a rotation are rows.
LEMMA ClaimedTyped ==
  ASSUME SharedOK, NEW t \in Tokens, NEW c \in Tokens
  PROVE  Claimed(t, c) \in [Tokens -> Row]
<1>1. [row[t] EXCEPT !.st = "revoked", !.revokedAt = now] \in Row
  BY NowIsTime DEF SharedOK, Row
<1>2. t \in Token0
  BY DEF Token0
<1>3. \A u \in Tokens : row[u] \in Row /\ ErasedKept(row[u]) \in Row
  BY ErasedIsRow DEF SharedOK
<1> QED
  BY <1>1, <1>2, <1>3, SealedIsRow, NewRowIsRow DEF Claimed

LEMMA StepTyped ==
  ASSUME LocalOK, SharedOK, NEW p \in Procs, Step(p)
  PROVE  LocalOK' /\ SharedOK'
<1>0. /\ {"reread", "grace", "findChild", "checkChild", "grandchild", "revoking",
           "erase", "erasing", "eraseAround"} \subseteq PCs
      /\ {"revoking", "erase", "erasing"} \cap OnToken = {} /\ OnChild \subseteq OnToken
      /\ NoToken \in Token0 /\ Tokens \subseteq Token0
      /\ Blank \in Row /\ now \in Time0
  BY BlankIsRow, NowIsTime DEF PCs, Token0, OnToken, OnChild
<1>a. ASSUME pc[p] \in OnToken PROVE tok[p] \in Tokens /\ row[tok[p]] \in Row
  BY <1>a DEF LocalOK, SharedOK
<1>b. \A u \in Tokens : row[u] \in Row /\ ErasedKept(row[u]) \in Row
                          /\ \A n \in Time0 : RevokedAt(row[u], n) \in Row
  BY ErasedIsRow, RevokedIsRow DEF SharedOK
<1>c. {"claim", "reread", "grace", "findChild", "revokeOne", "eraseAround"} \cap OnChild = {}
      /\ {"claim", "reread", "grace", "findChild", "checkChild", "grandchild", "revokeOne",
           "eraseAround"} \subseteq OnToken
      /\ {"checkChild", "grandchild"} \subseteq OnChild
  BY DEF OnChild, OnToken
<1>1. ASSUME NEW c \in Tokens, Rotate(p, c) PROVE LocalOK' /\ SharedOK'
  <2>1. Claimed(tok[p], c) \in [Tokens -> Row]
    BY <1>1, <1>a, <1>c, ClaimedTyped DEF Rotate
  <2>2. LocalOK'
    BY <1>0, <1>1, FinishTyped DEF Rotate
  <2> QED BY <1>1, <2>1, <2>2 DEF Rotate, SharedOK
<1>2. ASSUME LoseClaim(p) PROVE LocalOK' /\ SharedOK'
  <2>1. LocalOK'
    BY <1>2, <1>0, <1>c, KeepTyped DEF LoseClaim
  <2> QED BY <1>2, <2>1, SharedKept DEF LoseClaim, db, SharedOK
<1>3. ASSUME Reread(p) PROVE LocalOK' /\ SharedOK'
  <2>1. LocalOK'
    <3>1. CASE /\ Goto(p, "grace") /\ seen' = [seen EXCEPT ![p] = row[tok[p]]]
               /\ UNCHANGED <<at, child, targets>>
      BY <1>3, <3>1, <1>0, <1>a, <1>c, GotoTyped DEF Reread
    <3>2. CASE Finish(p, NoToken)
      BY <3>2, <1>0, FinishTyped
    <3> QED BY <1>3, <3>1, <3>2 DEF Reread
  <2> QED BY <1>3, <2>1, SharedKept DEF Reread, db, SharedOK
<1>4. ASSUME Grace(p) PROVE LocalOK' /\ SharedOK'
  <2>1. LocalOK'
    <3>1. CASE /\ Goto(p, "findChild") /\ at' = [at EXCEPT ![p] = now]
               /\ UNCHANGED <<seen, child, targets>>
      BY <1>4, <3>1, <1>0, <1>c, GotoTyped DEF Grace
    <3>2. CASE NoGrace(p)
      BY <3>2, NoGraceTyped
    <3> QED BY <1>4, <3>1, <3>2 DEF Grace
  <2>2. row' \in [Tokens -> Row]
    BY <1>4, <1>a, <1>b, <1>c DEF Grace, SharedOK
  <2> QED BY <1>4, <2>1, <2>2 DEF Grace, SharedOK
<1>5. ASSUME FindChild(p) PROVE LocalOK' /\ SharedOK'
  <2>1. LocalOK'
    <3>1. ASSUME NEW c \in Children(tok[p]), Goto(p, "checkChild"),
                 child' = [child EXCEPT ![p] = c], UNCHANGED <<seen, at, targets>>
          PROVE  LocalOK'
      <4>1. c \in Tokens /\ c \in Token0
        BY <1>0 DEF Children
      <4>2. /\ pc[p] \in OnToken /\ "checkChild" \in PCs /\ seen' = seen /\ at' = at
            /\ targets' = targets
        BY <1>0, <1>5, <1>c, <3>1 DEF FindChild
      <4> QED BY <3>1, <4>1, <4>2, <1>0, GotoTyped
    <3>2. CASE NoGrace(p)
      BY <3>2, NoGraceTyped
    <3> QED BY <1>5, <3>1, <3>2 DEF FindChild
  <2> QED BY <1>5, <2>1, SharedKept DEF FindChild, db, SharedOK
<1>6. ASSUME CheckChild(p) PROVE LocalOK' /\ SharedOK'
  <2>1. LocalOK'
    <3>1. CASE Finish(p, seen[p].kept)
      <4>1. seen[p].kept \in Token0
        BY DEF LocalOK, Row
      <4> QED BY <3>1, <4>1, FinishTyped
    <3>2. CASE NoGrace(p)
      BY <3>2, NoGraceTyped
    <3>3. CASE Goto(p, "grandchild") /\ UNCHANGED <<seen, at, child, targets>>
      BY <1>6, <3>3, <1>0, <1>c, KeepTyped DEF CheckChild
    <3> QED BY <1>6, <3>1, <3>2, <3>3 DEF CheckChild
  <2> QED BY <1>6, <2>1, SharedKept DEF CheckChild, db, SharedOK
<1>7. ASSUME CountGrandchildren(p) PROVE LocalOK' /\ SharedOK'
  <2>1. LocalOK'
    BY <1>7, <1>0, FinishTyped, NoGraceTyped DEF CountGrandchildren
  <2> QED BY <1>7, <2>1, SharedKept DEF CountGrandchildren, db, SharedOK
<1>8. ASSUME RevokeStart(p) PROVE LocalOK' /\ SharedOK'
  <2> DEFINE T == IF op[p] = "signOut" THEN Live \ {tok[p]} ELSE Live
  <2>1. T \in SUBSET Tokens
    BY DEF Live
  <2>2. /\ Goto(p, "revoking") /\ targets' = [targets EXCEPT ![p] = T]
        /\ at' = [at EXCEPT ![p] = now] /\ UNCHANGED <<seen, child>>
    BY <1>8 DEF RevokeStart
  <2> HIDE DEF T
  <2>3. LocalOK'
    BY <2>1, <2>2, <1>0, GotoTyped
  <2> QED BY <1>8, <2>3, SharedKept DEF RevokeStart, db, SharedOK
<1>9. ASSUME RevokeApply(p) PROVE LocalOK' /\ SharedOK'
  <2>1. LocalOK'
    BY <1>9, <1>0, <1>c, KeepTyped DEF RevokeApply
  <2>2. at[p] \in Time0
    BY DEF LocalOK
  <2>3. row' \in [Tokens -> Row]
    BY <1>9, <1>b, <2>2 DEF RevokeApply
  <2> QED BY <1>9, <2>1, <2>3 DEF RevokeApply, SharedOK
<1>10. ASSUME EraseStart(p) PROVE LocalOK' /\ SharedOK'
  <2> DEFINE T == {t \in Tokens : row[t].kept # NoToken}
  <2>1. T \in SUBSET Tokens
    OBVIOUS
  <2>2. Goto(p, "erasing") /\ targets' = [targets EXCEPT ![p] = T]
        /\ UNCHANGED <<seen, at, child>>
    BY <1>10 DEF EraseStart
  <2> HIDE DEF T
  <2>3. LocalOK'
    BY <2>1, <2>2, <1>0, GotoTyped
  <2> QED BY <1>10, <2>3, SharedKept DEF EraseStart, db, SharedOK
<1>11. ASSUME EraseApply(p) PROVE LocalOK' /\ SharedOK'
  <2>1. LocalOK'
    BY <1>11, <1>0, FinishTyped DEF EraseApply
  <2>2. row' \in [Tokens -> Row]
    BY <1>11, <1>b DEF EraseApply
  <2> QED BY <1>11, <2>1, <2>2 DEF EraseApply, SharedOK
<1>12. ASSUME RevokeOneApply(p) PROVE LocalOK' /\ SharedOK'
  <2>1. LocalOK'
    BY <1>12, <1>0, <1>c, KeepTyped DEF RevokeOneApply
  <2>2. row' \in [Tokens -> Row] /\ cut' \in BOOLEAN
    BY <1>12, <1>a, <1>b, <1>c, <1>0 DEF RevokeOneApply, SharedOK
  <2> QED BY <1>12, <2>1, <2>2 DEF RevokeOneApply, SharedOK
<1>13. ASSUME EraseAround(p) PROVE LocalOK' /\ SharedOK'
  <2>1. LocalOK'
    BY <1>13, <1>0, FinishTyped DEF EraseAround
  <2>2. row' \in [Tokens -> Row] /\ cut' \in BOOLEAN
    BY <1>13, <1>b DEF EraseAround, SharedOK
  <2> QED BY <1>13, <2>1, <2>2 DEF EraseAround, SharedOK
<1> QED
  BY <1>1, <1>2, <1>3, <1>4, <1>5, <1>6, <1>7, <1>8, <1>9, <1>10, <1>11, <1>12, <1>13 DEF Step

\* Cleanup, crashes, sign-ins and time.
LEMMA RestTyped ==
  ASSUME LocalOK, SharedOK,
         \/ \E t \in Tokens : SignIn(t)
         \/ \E p \in Procs : Crash(p)
         \/ CleanupRows \/ CleanupPairs \/ Tick
  PROVE  LocalOK' /\ SharedOK'
<1>0. NoToken \in Token0 /\ 0 \in Time0
  BY DEF Token0, Time0
<1>b. \A u \in Tokens : row[u] \in Row /\ ErasedKept(row[u]) \in Row
                          /\ [Blank EXCEPT !.st = "deleted", !.parent = row[u].parent] \in Row
  BY ErasedIsRow, BlankIsRow DEF SharedOK, Row
<1>c. ASSUME UNCHANGED <<local, dead>> PROVE LocalOK'
  BY <1>c DEF local, LocalOK
<1>1. ASSUME NEW t \in Tokens, SignIn(t) PROVE LocalOK' /\ SharedOK'
  BY <1>1, <1>0, <1>c, NewRowIsRow, ConstAssumption DEF SignIn, SharedOK
<1>2. ASSUME NEW p \in Procs, Crash(p) PROVE LocalOK' /\ SharedOK'
  BY <1>2, <1>0, FinishTyped, SharedKept DEF Crash, db, SharedOK
<1>3. CASE CleanupRows
  BY <1>3, <1>b, <1>c, NowIsTime DEF CleanupRows, SharedOK
<1>4. CASE CleanupPairs
  BY <1>4, <1>b, <1>c, <1>0 DEF CleanupPairs, SharedOK
<1>5. CASE Tick
  BY <1>5, <1>c, ConstAssumption DEF Tick, SharedOK
<1> QED
  BY <1>1, <1>2, <1>3, <1>4, <1>5

LEMMA TypedInit == Init => LocalOK /\ SharedOK
<1>1. 1 \in 1..MaxTime /\ 0 \in 0..MaxSignIns
  BY ConstAssumption
<1>2. ASSUME Init PROVE SharedOK
  BY <1>1, <1>2, BlankIsRow DEF Init, SharedOK, Time0
<1>3. "idle" \in PCs /\ "none" \in Ops /\ NoToken \in Token0 /\ 0 \in Time0
      /\ "idle" \notin OnToken /\ "idle" \notin OnChild
  BY DEF PCs, Ops, Token0, Time0, OnToken, OnChild
<1>4. ASSUME Init PROVE LocalOK
  BY <1>3, <1>4, BlankIsRow DEF Init, LocalOK
<1> QED
  BY <1>2, <1>4

LEMMA TypedNext == LocalOK /\ SharedOK /\ [Next]_vars => LocalOK' /\ SharedOK'
<1> SUFFICES ASSUME LocalOK, SharedOK, [Next]_vars PROVE LocalOK' /\ SharedOK'
  OBVIOUS
<1>1. CASE UNCHANGED vars
  BY <1>1 DEF vars, LocalOK, SharedOK
<1> QED
  BY <1>1, StartTyped, StepTyped, RestTyped DEF Next

\* The rows, the requests and the history stay within their types, for any
\* number of rows and requests.
THEOREM TypeCorrect == Spec => []TypeOK
<1>1. Spec => [](LocalOK /\ SharedOK)
  BY TypedInit, TypedNext, PTL DEF Spec
<1> QED
  BY <1>1, TypeSplit, PTL

-----------------------------------------------------------------------------
(* What a step may do to the table: rotate a live token into a fresh one,  *)
(* sign in with a fresh one, or fade rows (revoke, delete, erase a pair).  *)

Fade(r, s) ==
  /\ s.parent = r.parent
  /\ r.st = "none" => s.st = "none"
  /\ r.st = "live" => s.st \in {"live", "revoked", "deleted"}
  /\ r.st = "revoked" => s.st \in {"revoked", "deleted"}
  /\ r.st = "deleted" => s.st = "deleted"
  /\ s.kept # NoToken => s.kept = r.kept /\ s.st = r.st

Fades == signIns' = signIns /\ \A t \in Tokens : Fade(row[t], row'[t])

Rotated == \E t \in Tokens, c \in Tokens :
  row[t].st = "live" /\ row[c].st = "none" /\ row' = Claimed(t, c) /\ signIns' = signIns

SignedIn == \E t \in Tokens :
  row[t].st = "none" /\ row' = [row EXCEPT ![t] = NewRow(NoToken)] /\ signIns' = signIns + 1

LEMMA Fading ==
  ASSUME NEW r \in Row, NEW n
  PROVE  /\ Fade(r, r)
         /\ Fade(r, ErasedKept(r))
         /\ r.st = "live" /\ r.kept = NoToken => Fade(r, RevokedAt(r, n))
         /\ r.st = "revoked" => Fade(r, RevokedAt(r, n))
         /\ r.st \in {"live", "revoked"} => Fade(r, [Blank EXCEPT !.st = "deleted", !.parent = r.parent])
BY DEF Row, Fade, ErasedKept, RevokedAt, Blank

\* Only revoked rows keep a pair.
LEMMA LiveKeepsNothing ==
  ASSUME SharedOK, KeptPairIsCurrent, NEW t \in Tokens, row[t].st # "revoked"
  PROVE  row[t].kept = NoToken
BY DEF KeptPairIsCurrent

LEMMA StepOnRows ==
  ASSUME LocalOK, SharedOK, KeptPairIsCurrent, [Next]_vars
  PROVE  Rotated \/ SignedIn \/ Fades
<1>0. \A t \in Tokens : row[t] \in Row
  BY DEF SharedOK
<1>a. ASSUME row' = row, signIns' = signIns PROVE Fades
  BY <1>0, <1>a, Fading DEF Fades
<1>b. ASSUME NEW p \in Procs, pc[p] \in OnToken PROVE tok[p] \in Tokens
  BY <1>b DEF LocalOK
<1>c. \A t \in Tokens : row[t].st \in {"live", "revoked"} =>
        \A n : Fade(row[t], RevokedAt(row[t], n))
  BY <1>0, Fading, LiveKeepsNothing
<1>1. ASSUME NEW t \in Tokens, SignIn(t) PROVE SignedIn
  BY <1>1 DEF SignIn, SignedIn
<1>2. ASSUME NEW p \in Procs, Start(p) PROVE row' = row /\ signIns' = signIns
  BY <1>2 DEF Start, PresentRefused, PresentLive, PresentRevoked, RevokeOne, SignOut, db
<1>3. ASSUME NEW p \in Procs, Step(p) PROVE Rotated \/ Fades
  <2>1. ASSUME NEW c \in Tokens, Rotate(p, c) PROVE Rotated
    <3>1. tok[p] \in Tokens
      BY <1>b, <2>1 DEF Rotate, OnToken
    <3> QED BY <2>1, <3>1 DEF Rotate, Rotated
  <2>2. CASE LoseClaim(p) \/ Reread(p) \/ FindChild(p) \/ CheckChild(p) \/ CountGrandchildren(p)
             \/ RevokeStart(p) \/ EraseStart(p)
    BY <1>a, <2>2 DEF LoseClaim, Reread, FindChild, CheckChild, CountGrandchildren,
                      RevokeStart, EraseStart, db
  <2>3. CASE Grace(p)
    <3>1. tok[p] \in Tokens
      BY <1>b, <2>3 DEF Grace, OnToken
    <3>2. signIns' = signIns /\ (row' = row \/ row' = [row EXCEPT ![tok[p]] = ErasedKept(@)])
      BY <2>3 DEF Grace
    <3> QED BY <1>0, <1>a, <3>1, <3>2, Fading DEF Fades, SharedOK
  <2>4. CASE RevokeApply(p)
    BY <1>0, <1>c, <2>4, Fading DEF RevokeApply, Fades
  <2>5. CASE EraseApply(p)
    BY <1>0, <2>5, Fading DEF EraseApply, Fades
  <2>6. CASE RevokeOneApply(p)
    <3>1. tok[p] \in Tokens
      BY <1>b, <2>6 DEF RevokeOneApply, OnToken
    <3>2. /\ signIns' = signIns
          /\ \/ row' = row
             \/ /\ row[tok[p]].st \in {"live", "revoked"}
                /\ row' = [row EXCEPT ![tok[p]] = RevokedAt(@, now)]
      BY <2>6 DEF RevokeOneApply, Exists
    <3>3. ASSUME row[tok[p]].st \in {"live", "revoked"},
                 row' = [row EXCEPT ![tok[p]] = RevokedAt(@, now)]
          PROVE  \A t \in Tokens : Fade(row[t], row'[t])
      <4>1. Fade(row[tok[p]], RevokedAt(row[tok[p]], now))
        BY <1>c, <3>1, <3>3
      <4>2. \A t \in Tokens : Fade(row[t], row[t])
        BY <1>0, Fading
      <4> QED BY <3>3, <4>1, <4>2 DEF SharedOK
    <3> QED BY <1>a, <3>2, <3>3 DEF Fades
  <2>7. CASE EraseAround(p)
    BY <1>0, <2>7, Fading DEF EraseAround, Fades
  <2> QED BY <1>3, <2>1, <2>2, <2>3, <2>4, <2>5, <2>6, <2>7 DEF Step
<1>4. CASE CleanupRows
  BY <1>0, <1>4, Fading DEF CleanupRows, Fades, Exists
<1>5. CASE CleanupPairs
  BY <1>0, <1>5, Fading DEF CleanupPairs, Fades
<1>6. CASE Tick \/ (\E p \in Procs : Crash(p)) \/ UNCHANGED vars
  BY <1>a, <1>6 DEF Tick, Crash, db, vars
<1> QED
  BY <1>a, <1>1, <1>2, <1>3, <1>4, <1>5, <1>6 DEF Next

-----------------------------------------------------------------------------
(* Rotation is linear *)

\* An id not yet in use has no parent.
FreshRows == \A t \in Tokens : row[t].st = "none" => row[t].parent = NoToken

ChainInv == SharedOK /\ FreshRows /\ OneChain /\ KeptPairIsCurrent

LEMMA FadeKeepsChain ==
  ASSUME ChainInv, Fades, SharedOK'
  PROVE  ChainInv'
<1>1. FreshRows'
  <2>1. \A t \in Tokens : row'[t].st = "none" => row[t].st = "none"
    BY DEF ChainInv, SharedOK, Row, Fades, Fade
  <2> QED BY <2>1 DEF ChainInv, FreshRows, Fades, Fade
<1>2. OneChain'
  BY DEF ChainInv, SharedOK, Row, Token0, OneChain, Fades, Fade
<1>3. KeptPairIsCurrent'
  <2> SUFFICES ASSUME NEW t \in Tokens, row'[t].kept # NoToken
               PROVE  /\ row'[t].st = "revoked"
                      /\ row'[row'[t].kept].parent = t
                      /\ Children(row[t].kept)' = {}
    BY DEF KeptPairIsCurrent
  <2> DEFINE k == row[t].kept
  <2>1. row'[t].kept = row[t].kept /\ row'[t].st = row[t].st
    BY DEF Fades, Fade
  <2>2. row[t].kept \in Tokens
    BY <2>1 DEF ChainInv, SharedOK, Row, Token0
  <2>3. row[t].st = "revoked" /\ row[row[t].kept].parent = t /\ Children(row[t].kept) = {}
    BY <2>1 DEF ChainInv, KeptPairIsCurrent
  <2>4. \A c \in Tokens : Exists(c)' => Exists(c)
    BY DEF ChainInv, SharedOK, Row, Fades, Fade, Exists
  <2>5. {c \in Tokens : Exists(c)' /\ row'[c].parent = k} = {}
    BY <2>3, <2>4 DEF Children, Fades, Fade
  <2>6. Children(row[t].kept)' = {c \in Tokens : Exists(c)' /\ row'[c].parent = k}
    BY <2>1 DEF Children
  <2> QED BY <2>1, <2>2, <2>3, <2>5, <2>6 DEF Fades, Fade
<1> QED
  BY <1>1, <1>2, <1>3 DEF ChainInv

LEMMA SignInKeepsChain ==
  ASSUME ChainInv, SignedIn, SharedOK'
  PROVE  ChainInv'
<1> PICK t \in Tokens : row[t].st = "none" /\ row' = [row EXCEPT ![t] = NewRow(NoToken)]
  BY DEF SignedIn
<1>1. /\ row'[t].st = "live" /\ row'[t].parent = NoToken /\ row'[t].kept = NoToken
      /\ row[t].parent = NoToken /\ row[t].kept = NoToken
      /\ \A u \in Tokens \ {t} : row'[u] = row[u]
  BY DEF NewRow, Blank, ChainInv, SharedOK, FreshRows, KeptPairIsCurrent
<1>2. FreshRows'
  BY <1>1 DEF ChainInv, FreshRows
<1>3. OneChain'
  BY <1>1 DEF ChainInv, SharedOK, Row, Token0, OneChain
<1>4. KeptPairIsCurrent'
  <2> SUFFICES ASSUME NEW u \in Tokens, row'[u].kept # NoToken
               PROVE  /\ row'[u].st = "revoked"
                      /\ row'[row'[u].kept].parent = u
                      /\ Children(row[u].kept)' = {}
    BY DEF KeptPairIsCurrent
  <2> DEFINE k == row[u].kept
  <2>1. row'[u] = row[u] /\ u # t
    BY <1>1
  <2>2. row[u].kept \in Tokens
    BY <2>1 DEF ChainInv, SharedOK, Row, Token0
  <2>3. row[u].st = "revoked" /\ row[row[u].kept].parent = u /\ Children(row[u].kept) = {}
    BY <2>1 DEF ChainInv, KeptPairIsCurrent
  <2>4. k # t /\ row'[t].parent # k
    BY <1>1, <2>1, <2>2, <2>3, ConstAssumption
  <2>5. {c \in Tokens : Exists(c)' /\ row'[c].parent = k} = {}
    BY <1>1, <2>3, <2>4 DEF Children, Exists
  <2>6. Children(row[u].kept)' = {c \in Tokens : Exists(c)' /\ row'[c].parent = k}
    BY <2>1 DEF Children
  <2> QED BY <1>1, <2>1, <2>2, <2>3, <2>4, <2>5, <2>6
<1> QED
  BY <1>2, <1>3, <1>4 DEF ChainInv

\* What the rotation of t into c leaves in each row.
LEMMA RotationRows ==
  ASSUME ChainInv, NEW t \in Tokens, NEW c \in Tokens,
         row[t].st = "live", row[c].st = "none", row' = Claimed(t, c)
  PROVE  /\ t # c
         /\ row'[t].st = "revoked" /\ row'[t].parent = row[t].parent
         /\ row'[t].kept \in {c, NoToken}
         /\ row'[c].st = "live" /\ row'[c].parent = t /\ row'[c].kept = NoToken
         /\ \A u \in Tokens \ {t, c} :
              /\ row'[u].st = row[u].st /\ row'[u].parent = row[u].parent
              /\ row'[u].kept = IF u = row[t].parent THEN NoToken ELSE row[u].kept
<1>1. row[t] \in Row /\ row[t].kept = NoToken
  BY DEF ChainInv, SharedOK, KeptPairIsCurrent
<1>2. \A u \in Tokens : row[u] \in Row
  BY DEF ChainInv, SharedOK
<1> QED
  BY <1>1, <1>2 DEF Claimed, Sealed, NewRow, Blank, ErasedKept, Row

LEMMA RotationKeepsChain ==
  ASSUME ChainInv, Rotated, SharedOK'
  PROVE  ChainInv'
<1> PICK t \in Tokens, c \in Tokens :
      row[t].st = "live" /\ row[c].st = "none" /\ row' = Claimed(t, c)
  BY DEF Rotated
<1>0. \A u \in Tokens : row[u] \in Row
  BY DEF ChainInv, SharedOK
\* No row points at the fresh id, and none at the live token.
<1>1. \A u \in Tokens : row[u].parent \notin {t, c} /\ row[u].kept # c
  <2>1. \A u \in Tokens : row[u].parent \notin {t, c}
    BY <1>0, ConstAssumption DEF ChainInv, OneChain
  <2>2. ASSUME NEW u \in Tokens, row[u].kept = c PROVE FALSE
    <3>1. row[c].parent = u
      BY <2>2, ConstAssumption DEF ChainInv, KeptPairIsCurrent
    <3> QED BY <3>1, ConstAssumption DEF ChainInv, FreshRows
  <2> QED BY <2>1, <2>2
<1>2. FreshRows'
  BY RotationRows DEF ChainInv, FreshRows
<1>3. OneChain'
  <2> SUFFICES ASSUME NEW d \in Tokens, row'[d].parent # NoToken
               PROVE  /\ row'[row'[d].parent].st \in {"revoked", "deleted"}
                      /\ \A e \in Tokens : row'[e].parent = row'[d].parent => e = d
    BY DEF OneChain
  <2>1. CASE d = c
    BY <1>1, <2>1, RotationRows
  <2>2. CASE d # c
    <3>1. row'[d].parent = row[d].parent /\ row[d].parent \in Tokens \ {t, c}
      BY <1>0, <1>1, <2>2, RotationRows DEF Row, Token0
    <3>2. row[row[d].parent].st \in {"revoked", "deleted"}
      BY <3>1 DEF ChainInv, OneChain
    <3>3. \A e \in Tokens : row[e].parent = row[d].parent => e = d
      BY <3>1, ConstAssumption DEF ChainInv, OneChain
    <3> QED BY <3>1, <3>2, <3>3, RotationRows
  <2> QED BY <2>1, <2>2
<1>4. KeptPairIsCurrent'
  <2> SUFFICES ASSUME NEW u \in Tokens, row'[u].kept # NoToken
               PROVE  /\ row'[u].st = "revoked"
                      /\ row'[row'[u].kept].parent = u
                      /\ \A d \in Tokens : row'[d].st \in {"live", "revoked"}
                                           => row'[d].parent # row'[u].kept
    BY DEF KeptPairIsCurrent, Children, Exists
  <2>1. CASE u = t
    BY <1>1, <2>1, RotationRows
  <2>2. CASE u # t
    <3>1. u # c /\ row'[u].kept = row[u].kept /\ u # row[t].parent /\ row[u].kept # NoToken
      BY <2>2, RotationRows
    <3>2. row[u].kept \in Tokens
      BY <1>0, <3>1 DEF Row, Token0
    <3>3. row[u].st = "revoked" /\ row[row[u].kept].parent = u
      BY <3>1 DEF ChainInv, KeptPairIsCurrent
    <3>4. row[u].kept \notin {t, c}
      BY <1>1, <3>1, <3>3
    <3>5. \A d \in Tokens : row[d].st \in {"live", "revoked"} => row[d].parent # row[u].kept
      BY <3>1 DEF ChainInv, KeptPairIsCurrent, Children, Exists
    <3> QED BY <2>2, <3>1, <3>2, <3>3, <3>4, <3>5, RotationRows
  <2> QED BY <2>1, <2>2
<1> QED
  BY <1>2, <1>3, <1>4 DEF ChainInv

LEMMA ChainInit == Init => ChainInv
<1> SUFFICES ASSUME Init PROVE ChainInv
  OBVIOUS
<1>1. SharedOK
  BY TypedInit
<1>2. \A t \in Tokens : row[t].parent = NoToken /\ row[t].kept = NoToken
  BY DEF Init, Blank
<1> QED
  BY <1>1, <1>2 DEF ChainInv, FreshRows, OneChain, KeptPairIsCurrent

LEMMA ChainNext == LocalOK /\ ChainInv /\ [Next]_vars => ChainInv'
<1> SUFFICES ASSUME LocalOK, ChainInv, [Next]_vars PROVE ChainInv'
  OBVIOUS
<1>1. SharedOK /\ KeptPairIsCurrent
  BY DEF ChainInv
<1>2. SharedOK'
  BY <1>1, TypedNext
<1> QED
  BY <1>1, <1>2, StepOnRows, FadeKeepsChain, SignInKeepsChain, RotationKeepsChain

LEMMA ChainAlways == Spec => [](LocalOK /\ ChainInv)
<1>1. LocalOK /\ ChainInv /\ [Next]_vars => LocalOK'
  BY TypedNext DEF ChainInv
<1> QED
  BY <1>1, TypedInit, ChainInit, ChainNext, PTL DEF Spec

\* Rotation is linear whatever requests race, replay, revoke or crash: a token
\* has at most one successor, and a token with a successor is spent.
THEOREM RotationIsLinear == Spec => []OneChain
<1>1. ChainInv => OneChain
  BY DEF ChainInv
<1> QED
  BY <1>1, ChainAlways, PTL

\* A kept pair belongs to its row's one child, and goes when the child rotates.
THEOREM KeptPairsAreCurrent == Spec => []KeptPairIsCurrent
<1>1. ChainInv => KeptPairIsCurrent
  BY DEF ChainInv
<1> QED
  BY <1>1, ChainAlways, PTL

-----------------------------------------------------------------------------
(* Sessions *)

LEMMA LiveAfter ==
  ASSUME ChainInv
  PROVE  /\ \A t, c \in Tokens :
              row[t].st = "live" /\ row[c].st = "none" /\ row' = Claimed(t, c)
              => Live' = (Live \ {t}) \cup {c} /\ Spent' = Spent \cup {t}
         /\ \A t \in Tokens :
              row[t].st = "none" /\ row' = [row EXCEPT ![t] = NewRow(NoToken)]
              => Live' = Live \cup {t} /\ Spent' = Spent
         /\ Fades => Live' \subseteq Live /\ Spent' = Spent \cup (Live \ Live')
<1>1. ASSUME NEW t \in Tokens, NEW c \in Tokens,
             row[t].st = "live", row[c].st = "none", row' = Claimed(t, c)
      PROVE  Live' = (Live \ {t}) \cup {c} /\ Spent' = Spent \cup {t}
  BY <1>1, RotationRows DEF Live, Spent
<1>2. ASSUME NEW t \in Tokens, row[t].st = "none", row' = [row EXCEPT ![t] = NewRow(NoToken)]
      PROVE  Live' = Live \cup {t} /\ Spent' = Spent
  BY <1>2 DEF Live, Spent, NewRow, Blank, ChainInv, SharedOK
<1>3. ASSUME Fades PROVE Live' \subseteq Live /\ Spent' = Spent \cup (Live \ Live')
  BY <1>3 DEF Live, Spent, Fades, Fade, ChainInv, SharedOK, Row
<1> QED
  BY <1>1, <1>2, <1>3

\* The table implements the session ledger.
THEOREM ImplementsLedger == Spec => LedgerSpec
<1>1. Init => Ledger!Init
  BY DEF Init, Ledger!Init, Live, Spent, Blank
<1>2. LocalOK /\ ChainInv /\ [Next]_vars => [Ledger!Next]_(Ledger!ledger)
  <2> SUFFICES ASSUME LocalOK, ChainInv, [Next]_vars PROVE Ledger!Next
    BY DEF Ledger!ledger
  <2>0. SharedOK /\ KeptPairIsCurrent
    BY DEF ChainInv
  <2>1. CASE Rotated
    <3> PICK t \in Tokens, c \in Tokens :
          row[t].st = "live" /\ row[c].st = "none" /\ row' = Claimed(t, c) /\ signIns' = signIns
      BY <2>1 DEF Rotated
    <3>1. t \in Live /\ c \notin Live \cup Spent
      BY DEF Live, Spent
    <3>2. Ledger!Exchange(t, c)
      BY <3>1, LiveAfter DEF Ledger!Exchange, Ledger!Fresh
    <3> QED BY <3>1, <3>2 DEF Ledger!Next
  <2>2. CASE SignedIn
    <3> PICK t \in Tokens : /\ row[t].st = "none" /\ row' = [row EXCEPT ![t] = NewRow(NoToken)]
                            /\ signIns' = signIns + 1
      BY <2>2 DEF SignedIn
    <3>1. t \notin Live \cup Spent
      BY DEF Live, Spent
    <3>2. Ledger!Open(t)
      BY <3>1, LiveAfter DEF Ledger!Open, Ledger!Fresh
    <3> QED BY <3>2 DEF Ledger!Next
  <2>3. CASE Fades
    <3>1. Live' \subseteq Live /\ Spent' = Spent \cup (Live \ Live') /\ signIns' = signIns
      BY <2>3, LiveAfter DEF Fades
    <3>2. Ledger!End(Live \ Live')
      BY <3>1 DEF Ledger!End
    <3> QED BY <3>2 DEF Ledger!Next
  <2> QED
    BY <2>0, <2>1, <2>2, <2>3, StepOnRows
<1> QED
  BY <1>1, <1>2, ChainAlways, PTL DEF Spec, LedgerSpec, Ledger!Spec

\* There are never more live tokens than sign-ins.
THEOREM SessionsNeverMultiply == Spec => []NoExtraSessions
<1> DEFINE Inv == IsFiniteSet(Live) /\ Cardinality(Live) <= signIns
<1>1. Init => Inv
  <2>1. Init => Live = {} /\ signIns = 0
    BY DEF Init, Live, Blank
  <2> QED BY <2>1, FS_EmptySet
<1>2. LocalOK /\ ChainInv /\ Inv /\ [Next]_vars => Inv'
  <2> SUFFICES ASSUME LocalOK, ChainInv, Inv, [Next]_vars PROVE Inv'
    OBVIOUS
  <2>0. SharedOK /\ KeptPairIsCurrent /\ signIns \in Nat
    BY DEF ChainInv, SharedOK
  <2>c. Cardinality(Live) \in Nat
    BY FS_CardinalityType
  <2>1. CASE Rotated
    <3> PICK t \in Tokens, c \in Tokens :
          row[t].st = "live" /\ row[c].st = "none" /\ row' = Claimed(t, c) /\ signIns' = signIns
      BY <2>1 DEF Rotated
    <3>1. t \in Live /\ c \notin Live /\ Live' = (Live \ {t}) \cup {c}
      BY LiveAfter DEF Live
    <3>2. IsFiniteSet(Live \ {t}) /\ Cardinality(Live \ {t}) = Cardinality(Live) - 1
      BY <3>1, FS_RemoveElement
    <3>3. IsFiniteSet(Live') /\ Cardinality(Live') = Cardinality(Live \ {t}) + 1
      BY <3>1, <3>2, FS_AddElement
    <3> QED BY <2>0, <2>c, <3>2, <3>3
  <2>2. CASE SignedIn
    <3> PICK t \in Tokens : /\ row[t].st = "none" /\ row' = [row EXCEPT ![t] = NewRow(NoToken)]
                            /\ signIns' = signIns + 1
      BY <2>2 DEF SignedIn
    <3>1. t \notin Live /\ Live' = Live \cup {t}
      BY LiveAfter DEF Live
    <3>2. IsFiniteSet(Live') /\ Cardinality(Live') = Cardinality(Live) + 1
      BY <3>1, FS_AddElement
    <3> QED BY <2>0, <2>c, <3>2
  <2>3. CASE Fades
    <3>1. Live' \subseteq Live /\ signIns' = signIns
      BY <2>3, LiveAfter DEF Fades
    <3>2. IsFiniteSet(Live') /\ Cardinality(Live') <= Cardinality(Live)
      BY <3>1, FS_Subset
    <3>3. Cardinality(Live') \in Nat
      BY <3>2, FS_CardinalityType
    <3> QED BY <2>0, <2>c, <3>1, <3>2, <3>3
  <2> QED
    BY <2>0, <2>1, <2>2, <2>3, StepOnRows
<1>3. Inv => NoExtraSessions
  BY DEF NoExtraSessions
<1> QED
  BY <1>1, <1>2, <1>3, ChainAlways, PTL DEF Spec

-----------------------------------------------------------------------------
(* What a request has read stays true of the rows *)

OnGrace == {"grace", "findChild", "checkChild", "grandchild"}

\* The pair it read is the token's rotation, the child it found is the token's
\* child, and what was dead when it began still is.
ReadInv(p) ==
  /\ pc[p] \in OnGrace /\ seen[p].kept # NoToken => row[seen[p].kept].parent = tok[p]
  /\ pc[p] \in OnChild => row[child[p]].parent = tok[p]
  /\ \A t \in dead[p] : row[t].st \in {"revoked", "deleted"}

RequestInv == \A p \in Procs : ReadInv(p)

\* No step moves a used row to another parent or brings a dead one back.
LEMMA RowsOnlyAge ==
  ASSUME LocalOK, ChainInv, [Next]_vars, NEW t \in Tokens
  PROVE  /\ row[t].parent # NoToken => row'[t].parent = row[t].parent
         /\ row[t].st \in {"revoked", "deleted"} => row'[t].st \in {"revoked", "deleted"}
<1>0. SharedOK /\ KeptPairIsCurrent
  BY DEF ChainInv
<1>1. CASE Rotated
  <2> PICK u \in Tokens, c \in Tokens :
        row[u].st = "live" /\ row[c].st = "none" /\ row' = Claimed(u, c)
    BY <1>1 DEF Rotated
  <2>1. row[c].parent = NoToken
    BY DEF ChainInv, FreshRows
  <2> QED BY <2>1, RotationRows
<1>2. CASE SignedIn
  BY <1>0, <1>2 DEF SignedIn, NewRow, Blank, ChainInv, FreshRows, SharedOK
<1>3. CASE Fades
  BY <1>3 DEF Fades, Fade
<1> QED
  BY <1>0, <1>1, <1>2, <1>3, StepOnRows

\* Its reads survive what others, or it, do to the rows.
LEMMA ReadsSurvive ==
  ASSUME LocalOK, ChainInv, RequestInv, [Next]_vars, NEW p \in Procs,
         tok'[p] = tok[p], dead'[p] \subseteq dead[p],
         pc'[p] \in OnGrace => pc[p] \in OnGrace /\ seen'[p] = seen[p],
         pc'[p] \in OnChild => pc[p] \in OnChild /\ child'[p] = child[p]
  PROVE  ReadInv(p)'
<1>1. ASSUME pc'[p] \in OnGrace, seen'[p].kept # NoToken PROVE row'[seen'[p].kept].parent = tok'[p]
  <2>1. seen[p].kept \in Tokens
    BY <1>1 DEF LocalOK, Row, Token0
  <2>2. row[seen[p].kept].parent = tok[p]
    BY <1>1 DEF RequestInv, ReadInv
  <2>3. tok[p] # NoToken
    BY <1>1, ConstAssumption DEF LocalOK, OnGrace, OnToken
  <2> QED BY <1>1, <2>1, <2>2, <2>3, RowsOnlyAge
<1>2. ASSUME pc'[p] \in OnChild PROVE row'[child'[p]].parent = tok'[p]
  <2>1. child[p] \in Tokens /\ tok[p] # NoToken
    BY <1>2, ConstAssumption DEF LocalOK, OnChild, OnToken
  <2>2. row[child[p]].parent = tok[p]
    BY <1>2 DEF RequestInv, ReadInv
  <2> QED BY <1>2, <2>1, <2>2, RowsOnlyAge
<1>3. ASSUME NEW t \in dead'[p] PROVE row'[t].st \in {"revoked", "deleted"}
  <2>1. t \in Tokens /\ row[t].st \in {"revoked", "deleted"}
    BY <1>3 DEF LocalOK, RequestInv, ReadInv
  <2> QED BY <2>1, RowsOnlyAge
<1> QED
  BY <1>1, <1>2, <1>3 DEF ReadInv

\* A request that is answered forgets what it read.
LEMMA FinishReads ==
  ASSUME LocalOK, NEW p \in Procs, NEW t, Finish(p, t)
  PROVE  ReadInv(p)'
BY DEF Finish, ReadInv, LocalOK, OnGrace, OnChild

\* A request that begins reads what is there.
LEMMA BeginReads ==
  ASSUME LocalOK, ChainInv, NEW p \in Procs, NEW o, NEW t, NEW l,
         Begin(p, o, t, l), row' = row, l = "grace" => t \in Tokens,
         l \in {"claim", "grace", "revoke", "revokeOne"}
  PROVE  ReadInv(p)'
<1>1. /\ pc'[p] = l /\ tok'[p] = t
      /\ seen'[p] = IF l = "grace" THEN row[t] ELSE Blank
      /\ dead'[p] \subseteq {u \in Tokens : row[u].st \in {"revoked", "deleted"}}
  BY DEF Begin, LocalOK
<1>2. l = "grace" /\ row[t].kept # NoToken => row[row[t].kept].parent = t
  BY DEF ChainInv, KeptPairIsCurrent
<1> QED
  BY <1>1, <1>2 DEF ReadInv, OnGrace, OnChild

LEMMA StepReads ==
  ASSUME LocalOK, ChainInv, RequestInv, NEW p \in Procs, Step(p), [Next]_vars
  PROVE  ReadInv(p)'
<1>1. CASE \E t : Finish(p, t)
  BY <1>1, FinishReads
<1>2. ASSUME NEW l, Goto(p, l), UNCHANGED seen, child' = child, l \notin OnChild \/ pc[p] \in OnChild,
             l \notin OnGrace \/ pc[p] \in OnGrace
      PROVE  ReadInv(p)'
  <2>1. tok'[p] = tok[p] /\ dead'[p] \subseteq dead[p] /\ pc'[p] = l
    BY <1>2 DEF Goto, LocalOK
  <2> QED BY <1>2, <2>1, ReadsSurvive
<1>3. CASE Reread(p)
  <2>1. CASE Goto(p, "grace") /\ seen' = [seen EXCEPT ![p] = row[tok[p]]]
    <3>1. /\ pc'[p] = "grace" /\ seen'[p] = row[tok[p]] /\ tok'[p] = tok[p] /\ dead'[p] = dead[p]
          /\ row' = row /\ tok[p] \in Tokens
      BY <1>3, <2>1 DEF Goto, LocalOK, Reread, db, OnToken
    <3>2. row[tok[p]].kept # NoToken => row[row[tok[p]].kept].parent = tok[p]
      BY <3>1 DEF ChainInv, KeptPairIsCurrent
    <3> QED BY <3>1, <3>2 DEF ReadInv, RequestInv, OnChild
  <2> QED BY <1>1, <1>3, <2>1 DEF Reread
<1>4. CASE FindChild(p)
  <2>1. ASSUME NEW c \in Children(tok[p]), Goto(p, "checkChild"), child' = [child EXCEPT ![p] = c],
               UNCHANGED seen
        PROVE  ReadInv(p)'
    <3>1. /\ pc'[p] = "checkChild" /\ child'[p] = c /\ tok'[p] = tok[p] /\ dead'[p] = dead[p]
          /\ row' = row /\ seen'[p] = seen[p] /\ row[c].parent = tok[p]
      BY <1>4, <2>1 DEF Goto, LocalOK, FindChild, db, Children
    <3> QED BY <1>4, <3>1 DEF ReadInv, RequestInv, FindChild, OnGrace
  <2>2. CASE NoGrace(p)
    BY <1>1, <1>2, <2>2 DEF NoGrace, OnChild, OnGrace
  <2> QED BY <1>4, <2>1, <2>2 DEF FindChild
<1>5. CASE Grace(p)
  BY <1>1, <1>2, <1>5 DEF Grace, NoGrace, OnChild, OnGrace
<1>6. CASE CheckChild(p) \/ CountGrandchildren(p)
  BY <1>1, <1>2, <1>6 DEF CheckChild, CountGrandchildren, NoGrace, OnChild, OnGrace
<1>7. CASE (\E c \in Tokens : Rotate(p, c)) \/ EraseApply(p) \/ EraseAround(p)
  BY <1>1, <1>7 DEF Rotate, EraseApply, EraseAround
<1>8. CASE LoseClaim(p) \/ RevokeStart(p) \/ RevokeApply(p) \/ EraseStart(p) \/ RevokeOneApply(p)
  BY <1>2, <1>8 DEF LoseClaim, RevokeStart, RevokeApply, EraseStart, RevokeOneApply, OnChild, OnGrace
<1> QED
  BY <1>3, <1>4, <1>5, <1>6, <1>7, <1>8 DEF Step

\* A step of one request leaves the others' variables alone.
Untouched(q) ==
  /\ pc'[q] = pc[q] /\ op'[q] = op[q] /\ tok'[q] = tok[q] /\ seen'[q] = seen[q]
  /\ at'[q] = at[q] /\ child'[q] = child[q] /\ dead'[q] = dead[q] /\ reply'[q] = reply[q]

LEMMA OthersUntouched ==
  ASSUME LocalOK, NEW p \in Procs, Start(p) \/ Step(p) \/ Crash(p), NEW q \in Procs, q # p
  PROVE  Untouched(q)
<1>1. ASSUME NEW t, Finish(p, t) PROVE Untouched(q)
  BY <1>1 DEF Finish, Untouched, LocalOK
<1>2. ASSUME NEW o, NEW t, NEW l, Begin(p, o, t, l) PROVE Untouched(q)
  BY <1>2 DEF Begin, Untouched, LocalOK
<1>3. ASSUME NEW l, Goto(p, l), seen'[q] = seen[q], at'[q] = at[q], child'[q] = child[q]
      PROVE  Untouched(q)
  BY <1>3 DEF Goto, Untouched, LocalOK
<1>4. CASE Start(p)
  BY <1>1, <1>2, <1>4 DEF Start, PresentRefused, PresentLive, PresentRevoked, RevokeOne, SignOut
<1>5. CASE Crash(p)
  BY <1>1, <1>5 DEF Crash
<1>6. CASE Step(p)
  <2>1. CASE NoGrace(p)
    BY <1>1, <1>3, <2>1 DEF NoGrace
  <2>2. CASE Reread(p)
    <3>1. CASE Goto(p, "grace") /\ seen' = [seen EXCEPT ![p] = row[tok[p]]] /\ UNCHANGED <<at, child>>
      BY <1>3, <3>1 DEF LocalOK
    <3> QED BY <1>1, <2>2, <3>1 DEF Reread
  <2>3. CASE FindChild(p)
    <3>1. ASSUME NEW c, Goto(p, "checkChild"), child' = [child EXCEPT ![p] = c],
                 UNCHANGED <<seen, at>>
          PROVE  Untouched(q)
      BY <1>3, <3>1 DEF LocalOK
    <3> QED BY <2>1, <2>3, <3>1 DEF FindChild
  <2>4. ASSUME NEW l, Goto(p, l), at' = [at EXCEPT ![p] = now], UNCHANGED <<seen, child>>
        PROVE  Untouched(q)
    BY <1>3, <2>4 DEF LocalOK
  <2>5. CASE Grace(p) \/ RevokeStart(p)
    BY <2>1, <2>4, <2>5 DEF Grace, RevokeStart
  <2> QED
    BY <1>1, <1>3, <1>6, <2>1, <2>2, <2>3, <2>5
    DEF Step, Rotate, LoseClaim, CheckChild, CountGrandchildren, RevokeApply,
        EraseStart, EraseApply, RevokeOneApply, EraseAround
<1> QED
  BY <1>4, <1>5, <1>6

LEMMA RequestNext ==
  LocalOK /\ ChainInv /\ RequestInv /\ [Next]_vars => RequestInv'
<1> SUFFICES ASSUME LocalOK, ChainInv, RequestInv, [Next]_vars, NEW q \in Procs
             PROVE  ReadInv(q)'
  BY DEF RequestInv
<1>1. CASE Untouched(q)
  BY <1>1, ReadsSurvive DEF Untouched
<1>2. ASSUME NEW p \in Procs, Start(p) PROVE ReadInv(q)'
  <2>1. CASE p = q
    <3>1. CASE \E t : Finish(p, t)
      BY <2>1, <3>1, FinishReads
    <3>2. /\ row' = row
          /\ \/ \E t : Finish(p, t)
             \/ \E o, t : \E l \in {"claim", "grace", "revoke", "revokeOne"} :
                  Begin(p, o, t, l) /\ (l = "grace" => t \in Tokens)
      BY <1>2 DEF Start, PresentRefused, PresentLive, PresentRevoked, RevokeOne, SignOut, db
    <3> QED BY <2>1, <3>1, <3>2, BeginReads
  <2> QED BY <1>1, <1>2, <2>1, OthersUntouched
<1>3. ASSUME NEW p \in Procs, Step(p) PROVE ReadInv(q)'
  BY <1>1, <1>3, StepReads, OthersUntouched
<1>4. ASSUME NEW p \in Procs, Crash(p) PROVE ReadInv(q)'
  <2>1. p = q => ReadInv(q)'
    BY <1>4, FinishReads DEF Crash
  <2> QED BY <1>1, <1>4, <2>1, OthersUntouched
<1>5. CASE (\E t \in Tokens : SignIn(t)) \/ CleanupRows \/ CleanupPairs \/ Tick \/ UNCHANGED vars
  BY <1>1, <1>5 DEF SignIn, CleanupRows, CleanupPairs, Tick, vars, local, Untouched
<1> QED
  BY <1>2, <1>3, <1>4, <1>5 DEF Next

LEMMA RequestInit == Init => RequestInv
BY DEF Init, RequestInv, ReadInv, OnGrace, OnChild

LEMMA RequestAlways == Spec => [](LocalOK /\ ChainInv /\ RequestInv)
BY RequestInit, RequestNext, ChainAlways, PTL DEF Spec

-----------------------------------------------------------------------------
(* What a pair that is handed out can be *)

\* Only a rotation or a replay of a live child answers with a pair.
LEMMA PairsComeFrom ==
  ASSUME LocalOK, [Next]_vars, NEW p \in Procs, ReturnsPair(p)
  PROVE  \/ \E c \in Tokens : Rotate(p, c) /\ reply'[p] = c
         \/ /\ CheckChild(p) /\ ChildLive(p) /\ row' = row
            /\ reply'[p] = seen[p].kept /\ seen[p].kept # NoToken
<1>1. ASSUME Untouched(p) PROVE FALSE
  BY <1>1 DEF Untouched, ReturnsPair
<1>2. ASSUME NEW t, Finish(p, t) PROVE reply'[p] = t
  BY <1>2 DEF Finish, LocalOK
<1>3. ASSUME NEW l, Goto(p, l) PROVE l = "idle"
  BY <1>3 DEF Goto, LocalOK, ReturnsPair
<1>4. ASSUME Start(p) PROVE FALSE
  BY <1>4 DEF Start, PresentRefused, PresentLive, PresentRevoked, RevokeOne, SignOut, Begin, ReturnsPair
<1>5. ASSUME Crash(p) PROVE FALSE
  BY <1>2, <1>5 DEF Crash, ReturnsPair
<1>6. ASSUME NoGrace(p) PROVE FALSE
  BY <1>2, <1>3, <1>6 DEF NoGrace, ReturnsPair
<1>7. ASSUME NEW c \in Tokens, Rotate(p, c) PROVE reply'[p] = c
  BY <1>2, <1>7 DEF Rotate
<1>8. CASE CheckChild(p)
  BY <1>2, <1>3, <1>6, <1>8 DEF CheckChild, Opens, db
<1>9. ASSUME \/ LoseClaim(p) \/ Reread(p) \/ Grace(p) \/ FindChild(p) \/ CountGrandchildren(p)
             \/ RevokeStart(p) \/ RevokeApply(p) \/ EraseStart(p) \/ EraseApply(p)
             \/ RevokeOneApply(p) \/ EraseAround(p)
      PROVE  FALSE
  BY <1>2, <1>3, <1>6, <1>9
  DEF LoseClaim, Reread, Grace, FindChild, CountGrandchildren, RevokeStart, RevokeApply,
      EraseStart, EraseApply, RevokeOneApply, EraseAround, ReturnsPair
<1>10. ASSUME NEW q \in Procs, Start(q) \/ Step(q) \/ Crash(q) PROVE q = p
  BY <1>1, <1>10, OthersUntouched
<1>11. ASSUME (\E t \in Tokens : SignIn(t)) \/ CleanupRows \/ CleanupPairs \/ Tick \/ UNCHANGED vars
       PROVE  FALSE
  BY <1>1, <1>11 DEF SignIn, CleanupRows, CleanupPairs, Tick, vars, local, Untouched
<1> QED
  BY <1>4, <1>5, <1>7, <1>8, <1>9, <1>10, <1>11 DEF Next, Step

\* On a replay the pair is the child that was just found live.
LEMMA ReplayedPair ==
  ASSUME LocalOK, ChainInv, RequestInv, NEW p \in Procs, CheckChild(p), seen[p].kept # NoToken
  PROVE  seen[p].kept = child[p] /\ row[child[p]].parent = tok[p]
<1>1. /\ seen[p].kept \in Tokens /\ child[p] \in Tokens /\ tok[p] # NoToken
      /\ row[seen[p].kept].parent = tok[p] /\ row[child[p]].parent = tok[p]
  BY ConstAssumption
  DEF CheckChild, LocalOK, Row, Token0, OnChild, OnToken, OnGrace, RequestInv, ReadInv
<1> QED
  BY <1>1 DEF ChainInv, OneChain

\* Winner, loser and replay of one token are all answered with its one child.
THEOREM PairsAreTheRotations == Spec => PairIsTheRotationsOwn
<1>1. ASSUME LocalOK, ChainInv, RequestInv, [Next]_vars, NEW p \in Procs, ReturnsPair(p)
      PROVE  row'[reply'[p]].parent = tok[p]
  <2>1. CASE \E c \in Tokens : Rotate(p, c) /\ reply'[p] = c
    <3> PICK c \in Tokens : Rotate(p, c) /\ reply'[p] = c
      BY <2>1
    <3>1. tok[p] \in Tokens
      BY <1>1 DEF Rotate, LocalOK, OnToken
    <3> QED BY <1>1, <3>1, RotationRows DEF Rotate
  <2> QED BY <1>1, <2>1, PairsComeFrom, ReplayedPair
<1>2. LocalOK /\ ChainInv /\ RequestInv /\ [Next]_vars
        => [\A p \in Procs : ReturnsPair(p) => row'[reply'[p]].parent = tok[p]]_vars
  BY <1>1
<1> QED
  BY <1>2, RequestAlways, PTL DEF Spec, PairIsTheRotationsOwn

\* A token that was dead when a request came in is never part of its answer.
THEOREM GraceRevivesNothing == Spec => ReplayNeverRevives
<1>1. ASSUME LocalOK, ChainInv, RequestInv, [Next]_vars, NEW p \in Procs, ReturnsPair(p)
      PROVE  reply'[p] \notin dead[p]
  <2>1. \A t \in dead[p] : row[t].st \in {"revoked", "deleted"}
    BY <1>1 DEF RequestInv, ReadInv
  <2> QED BY <1>1, <2>1, PairsComeFrom, ReplayedPair DEF Rotate, ChildLive
<1>2. LocalOK /\ ChainInv /\ RequestInv /\ [Next]_vars
        => [\A p \in Procs : ReturnsPair(p) => reply'[p] \notin dead[p]]_vars
  BY <1>1
<1> QED
  BY <1>2, RequestAlways, PTL DEF Spec, ReplayNeverRevives


-----------------------------------------------------------------------------
(* Honest replays are spared *)

\* As long as rotations alone have ended tokens: every spent token has been
\* rotated, no earlier than it was issued; its pair is kept for the window, while
\* the child lives; the child lives at least as long.
HonestRows ==
  /\ \A t \in Tokens : row[t].st # "deleted"
  /\ \A t \in Tokens : row[t].st = "revoked" =>
       row[t].revokedAt \in 1..now /\ \E c \in Tokens : row[c].parent = t
  /\ \A t \in Tokens : row[t].kept # NoToken => row[t].keptUntil = row[t].revokedAt + Window
  /\ \A t \in Tokens : row[t].expiresAt <= now + Life
  /\ \A c \in Tokens : row[c].parent # NoToken =>
       row[c].expiresAt >= row[row[c].parent].expiresAt
  /\ \A c \in Tokens : GraceOn /\ row[c].st = "live" /\ row[c].parent # NoToken =>
       \/ row[row[c].parent].kept = c
       \/ row[row[c].parent].revokedAt + Window <= now

\* The time by which the grace judges p.
Clock(p) == IF pc[p] = "grace" THEN now ELSE at[p]

\* What p read is still so; the pair was there, or the window is over; a child
\* it passed over was no longer live, or had expired.
HonestReads(p) ==
  /\ pc[p] = "idle" => op[p] = "none"
  /\ pc[p] \in {"claim", "reread"} => op[p] = "rotate"
  /\ pc[p] \in OnGrace /\ (seen[p].kept # NoToken \/ op[p] = "replay") =>
       /\ row[tok[p]].st = "revoked"
       /\ seen[p].revokedAt = row[tok[p]].revokedAt
       /\ seen[p].expiresAt = row[tok[p]].expiresAt
       /\ seen[p].kept # NoToken => seen[p].keptUntil = seen[p].revokedAt + Window
  /\ pc[p] \in OnGrace /\ op[p] = "replay" /\ GraceOn =>
       \A c \in Tokens : row[c].st = "live" /\ row[c].parent = tok[p] =>
         seen[p].kept = c \/ seen[p].revokedAt + Window <= Clock(p)
  /\ pc[p] = "grandchild" =>
       row[child[p]].st # "live" \/ row[child[p]].expiresAt <= at[p]

HonestState == cleaning <= now /\ HonestRows /\ \A p \in Procs : HonestReads(p)
HonestInv   == ~cut => HonestState

\* A pair erased when its window is over; nothing else happens to a row.
Lapses ==
  /\ now' >= now
  /\ \A t \in Tokens :
       \/ row'[t] = row[t]
       \/ /\ row'[t] = ErasedKept(row[t])
          /\ row[t].kept = NoToken \/ row[t].keptUntil <= now

LEMMA TimesAre ==
  ASSUME SharedOK
  PROVE  /\ now \in Nat \ {0} /\ Window \in Nat /\ Life \in Nat /\ cleaning \in Nat
         /\ \A t \in Tokens : /\ row[t].revokedAt \in Nat /\ row[t].expiresAt \in Nat
                              /\ row[t].keptUntil \in Nat /\ row[t].kept \in Token0
                              /\ row[t].parent \in Token0 /\ row[t] \in Row
BY ConstAssumption DEF SharedOK, Row, Time0, Time

\* What the erasure of its pair leaves of a row.
LEMMA ErasedIs ==
  ASSUME NEW r \in Row
  PROVE  LET s == ErasedKept(r)
         IN  /\ s.kept = NoToken /\ s.st = r.st /\ s.parent = r.parent
             /\ s.revokedAt = r.revokedAt /\ s.expiresAt = r.expiresAt
BY DEF ErasedKept, Row

\* What a rotation does to the times.
LEMMA RotationTimes ==
  ASSUME ChainInv, NEW t \in Tokens, NEW c \in Tokens,
         row[t].st = "live", row[c].st = "none", row' = Claimed(t, c)
  PROVE  /\ row'[t].revokedAt = now /\ row'[t].expiresAt = row[t].expiresAt
         /\ GraceOn => row'[t].kept = c /\ row'[t].keptUntil = now + Window
         /\ ~GraceOn => row'[t].kept = NoToken
         /\ row'[c].expiresAt = now + Life
         /\ \A u \in Tokens \ {t, c} :
              /\ row'[u].revokedAt = row[u].revokedAt /\ row'[u].expiresAt = row[u].expiresAt
              /\ row'[u] = row[u] \/ row'[u] = ErasedKept(row[u])
<1>1. row[t] \in Row /\ row[t].kept = NoToken
  BY DEF ChainInv, SharedOK, KeptPairIsCurrent
<1>2. \A u \in Tokens : row[u] \in Row
  BY DEF ChainInv, SharedOK
<1>3. t # c /\ row[t].parent # t
  BY <1>2, ConstAssumption DEF ChainInv, OneChain
<1>4. row'[t] = Sealed([row[t] EXCEPT !.st = "revoked", !.revokedAt = now], c)
  BY DEF Claimed
<1>5. row'[c] = NewRow(t)
  BY <1>3 DEF Claimed
<1>6. \A u \in Tokens \ {t, c} : row'[u] = row[u] \/ row'[u] = ErasedKept(row[u])
  BY DEF Claimed
<1>7. /\ row'[t].revokedAt = now /\ row'[t].expiresAt = row[t].expiresAt
      /\ GraceOn => row'[t].kept = c /\ row'[t].keptUntil = now + Window
      /\ ~GraceOn => row'[t].kept = NoToken
  BY <1>1, <1>4 DEF Sealed, Row
<1>8. row'[c].expiresAt = now + Life
  BY <1>5 DEF NewRow, Blank
<1> QED BY <1>2, <1>6, <1>7, <1>8, ErasedIs


\* While nothing has been cut short, a step rotates, signs in or lets a pair
\* lapse.
LEMMA HonestKinds ==
  ASSUME LocalOK, ChainInv, HonestState, ~cut', [Next]_vars
  PROVE  /\ now' >= now /\ cleaning' <= now'
         /\ \/ Rotated /\ now' = now
            \/ SignedIn /\ now' = now
            \/ Lapses
<1>0. /\ SharedOK /\ KeptPairIsCurrent /\ now \in Nat
      /\ \A t \in Tokens : row[t].keptUntil \in Nat /\ row[t].kept \in Token0
  BY TimesAre DEF ChainInv
<1>a. ASSUME now' = now, cleaning' = cleaning PROVE now' >= now /\ cleaning' <= now'
  BY <1>0, <1>a DEF HonestState
<1>b. ASSUME row' = row, now' >= now PROVE Lapses
  BY <1>b DEF Lapses
<1>1. ASSUME NEW t \in Tokens, SignIn(t) PROVE SignedIn /\ now' = now /\ cleaning' = cleaning
  BY <1>1 DEF SignIn, SignedIn
<1>2. ASSUME NEW p \in Procs, Start(p) \/ Crash(p)
      PROVE  row' = row /\ now' = now /\ cleaning' = cleaning
  BY <1>2 DEF Start, PresentRefused, PresentLive, PresentRevoked, RevokeOne, SignOut, Crash, db
<1>3. ASSUME NEW p \in Procs, Step(p)
      PROVE  (Rotated \/ Lapses) /\ now' = now /\ cleaning' = cleaning
  <2>0. now' = now /\ cleaning' = cleaning
    BY <1>3 DEF Step, Rotate, LoseClaim, Reread, Grace, FindChild, CheckChild, CountGrandchildren,
                RevokeStart, RevokeApply, EraseStart, EraseApply, RevokeOneApply, EraseAround, db
  <2>a. now' >= now
    BY <1>0, <2>0
  <2>1. ASSUME NEW c \in Tokens, Rotate(p, c) PROVE Rotated
    <3>1. tok[p] \in Tokens
      BY <2>1 DEF Rotate, OnToken, LocalOK
    <3> QED BY <2>1, <3>1 DEF Rotate, Rotated
  <2>2. CASE LoseClaim(p) \/ Reread(p) \/ FindChild(p) \/ CheckChild(p) \/ CountGrandchildren(p)
             \/ RevokeStart(p) \/ EraseStart(p)
    BY <2>0, <2>a, <1>b, <2>2 DEF LoseClaim, Reread, FindChild, CheckChild, CountGrandchildren,
                      RevokeStart, EraseStart, db
  <2>3. CASE Grace(p)
    <3>1. tok[p] \in Tokens /\ pc[p] \in OnGrace
      BY <2>3 DEF Grace, OnToken, LocalOK, OnGrace
    <3>2. CASE row' = row
      BY <1>b, <2>0, <2>a, <3>2
    <3>3. CASE /\ seen[p].kept # NoToken /\ seen[p].keptUntil <= now
               /\ row' = [row EXCEPT ![tok[p]] = ErasedKept(@)]
      <4>1. /\ seen[p].revokedAt = row[tok[p]].revokedAt
            /\ seen[p].keptUntil = seen[p].revokedAt + Window
        BY <3>1, <3>3 DEF HonestState, HonestReads
      <4>2. \/ row[tok[p]].kept = NoToken
            \/ row[tok[p]].keptUntil = row[tok[p]].revokedAt + Window
        BY <3>1 DEF HonestState, HonestRows
      <4>3. row[tok[p]].kept = NoToken \/ row[tok[p]].keptUntil <= now
        BY <3>3, <4>1, <4>2
      <4>4. \A t \in Tokens : row'[t] = IF t = tok[p] THEN ErasedKept(row[t]) ELSE row[t]
        BY <3>1, <3>3 DEF ChainInv, SharedOK
      <4> QED BY <2>0, <2>a, <4>3, <4>4 DEF Lapses
    <3> QED BY <2>3, <3>2, <3>3 DEF Grace
  <2>4. CASE RevokeApply(p)
    <3>1. \A t \in targets[p] : row[t].st # "live"
      BY <2>4 DEF RevokeApply
    <3>2. \A t \in Tokens : row'[t] = row[t]
      BY <2>4, <3>1 DEF RevokeApply
    <3> QED BY <2>0, <2>a, <3>2 DEF Lapses
  <2>5. CASE EraseApply(p)
    <3>1. \A t \in targets[p] : row[t].kept = NoToken
      BY <2>5 DEF EraseApply
    <3>2. \A t \in Tokens : row'[t] = IF t \in targets[p] THEN ErasedKept(row[t]) ELSE row[t]
      BY <2>5 DEF EraseApply
    <3> QED BY <2>0, <2>a, <3>1, <3>2 DEF Lapses
  <2>6. CASE RevokeOneApply(p)
    <3>1. row' = row
      BY <2>6 DEF RevokeOneApply
    <3> QED BY <1>b, <2>0, <2>a, <3>1
  <2>7. CASE EraseAround(p)
    <3> DEFINE ids == {tok[p], row[tok[p]].parent}
    <3>1. /\ \A t \in Tokens : row'[t] = IF t \in ids THEN ErasedKept(row[t]) ELSE row[t]
          /\ \A t \in ids \cap Tokens : row[t].kept = NoToken
      BY <2>7 DEF EraseAround
    <3> QED BY <2>0, <2>a, <3>1 DEF Lapses
  <2> QED BY <1>3, <2>0, <2>1, <2>2, <2>3, <2>4, <2>5, <2>6, <2>7 DEF Step
<1>4. ASSUME CleanupRows PROVE Lapses /\ now' = now /\ cleaning' = now
  <2>0. now' = now /\ cleaning' = now
    BY <1>4 DEF CleanupRows
  <2>1. /\ \A t \in Tokens : ~(Exists(t) /\ row[t].expiresAt < now)
        /\ row' = [t \in Tokens |-> IF Exists(t) /\ row[t].expiresAt < now
                              THEN [Blank EXCEPT !.st = "deleted", !.parent = row[t].parent]
                              ELSE row[t]]
    BY <1>4 DEF CleanupRows
  <2>2. \A t \in Tokens : row'[t] = row[t]
    BY <2>1
  <2>3. now' >= now
    BY <1>0, <2>0
  <2> QED BY <2>0, <2>2, <2>3 DEF Lapses
<1>5. ASSUME CleanupPairs PROVE Lapses /\ now' = now /\ cleaning' <= now'
  <2>1. now' = now /\ cleaning' = 0 /\ cleaning \in Nat /\ cleaning <= now
    BY <1>0, <1>5, TimesAre DEF CleanupPairs, HonestState
  <2>2. \A t \in Tokens : row'[t] = IF row[t].keptUntil # 0 /\ row[t].keptUntil < cleaning
                                    THEN ErasedKept(row[t]) ELSE row[t]
    BY <1>5 DEF CleanupPairs
  <2>3. \A t \in Tokens : row[t].keptUntil < cleaning => row[t].keptUntil <= now
    BY <1>0, <2>1
  <2> QED BY <1>0, <2>1, <2>2, <2>3 DEF Lapses
<1>6. ASSUME Tick PROVE Lapses /\ now' >= now /\ cleaning' <= now'
  <2>1. now' = now + 1 /\ row' = row /\ cleaning' = cleaning
    BY <1>6 DEF Tick
  <2> QED BY <1>0, <2>1, <1>b, TimesAre DEF HonestState
<1>7. ASSUME UNCHANGED vars PROVE row' = row /\ now' = now /\ cleaning' = cleaning
  BY <1>7 DEF vars
<1>8. ASSUME now' = now PROVE now' >= now
  BY <1>0, <1>8
<1> QED
  BY <1>0, <1>a, <1>b, <1>1, <1>2, <1>3, <1>4, <1>5, <1>6, <1>7, <1>8 DEF Next


\* What such a step leaves of a row in use: its link and its life; it moves no
\* rotation's time, and brings no token back.
Survives ==
  /\ \A t \in Tokens : row[t].st = "revoked" =>
       row'[t].st = "revoked" /\ row'[t].revokedAt = row[t].revokedAt
  /\ \A t \in Tokens : row[t].st # "none" =>
       /\ row'[t].parent = row[t].parent /\ row'[t].expiresAt = row[t].expiresAt
       /\ row[t].st # "live" => row'[t].st # "live"
  /\ \A t \in Tokens : row[t].parent # NoToken => row[t].st # "none"
  /\ \A t \in Tokens, c \in Tokens :
       row[t].st = "revoked" /\ row'[c].st = "live" /\ row'[c].parent = t
       => row[c].st = "live" /\ row[c].parent = t

LEMMA HonestSurvives ==
  ASSUME ChainInv, (Rotated /\ now' = now) \/ (SignedIn /\ now' = now) \/ Lapses
  PROVE  Survives
<1> USE DEF Survives
<1>0. /\ \A t \in Tokens : row[t] \in Row /\ row[t].parent \in Token0
      /\ \A t \in Tokens : row[t].parent # NoToken => row[t].st # "none"
  BY TimesAre DEF ChainInv, FreshRows
<1>1. CASE Rotated
  <2> PICK t \in Tokens, c \in Tokens :
        row[t].st = "live" /\ row[c].st = "none" /\ row' = Claimed(t, c)
    BY <1>1 DEF Rotated
  <2> QED BY <1>0, RotationRows, RotationTimes
<1>2. CASE SignedIn
  <2> PICK u \in Tokens : row[u].st = "none" /\ row' = [row EXCEPT ![u] = NewRow(NoToken)]
    BY <1>2 DEF SignedIn
  <2>1. /\ row'[u].parent = NoToken
        /\ \A t \in Tokens \ {u} : row'[t] = row[t]
    BY DEF ChainInv, SharedOK, NewRow, Blank
  <2> QED BY <1>0, <2>1, ConstAssumption
<1>3. CASE Lapses
  <2>1. ASSUME NEW t \in Tokens
        PROVE  /\ row'[t].st = row[t].st /\ row'[t].parent = row[t].parent
               /\ row'[t].revokedAt = row[t].revokedAt /\ row'[t].expiresAt = row[t].expiresAt
    BY <1>0, <1>3, ErasedIs DEF Lapses
  <2> QED BY <1>0, <2>1
<1> QED BY <1>1, <1>2, <1>3

LEMMA HonestRotation ==
  ASSUME ChainInv, HonestRows, Rotated, now' = now
  PROVE  HonestRows'
<1> PICK t \in Tokens, c \in Tokens :
      row[t].st = "live" /\ row[c].st = "none" /\ row' = Claimed(t, c)
  BY DEF Rotated
<1>0. /\ now \in Nat \ {0} /\ Life \in Nat /\ Window \in Nat
      /\ \A u \in Tokens : row[u] \in Row /\ row[u].parent \in Token0 /\ row[u].expiresAt \in Nat
  BY TimesAre DEF ChainInv
<1>1. /\ t # c
      /\ row'[t].st = "revoked" /\ row'[t].parent = row[t].parent
      /\ row'[t].kept \in {c, NoToken}
      /\ row'[c].st = "live" /\ row'[c].parent = t /\ row'[c].kept = NoToken
      /\ \A u \in Tokens \ {t, c} :
           /\ row'[u].st = row[u].st /\ row'[u].parent = row[u].parent
           /\ row'[u].kept = IF u = row[t].parent THEN NoToken ELSE row[u].kept
  BY RotationRows
<1>2. /\ row'[t].revokedAt = now /\ row'[t].expiresAt = row[t].expiresAt
      /\ GraceOn => row'[t].kept = c /\ row'[t].keptUntil = now + Window
      /\ ~GraceOn => row'[t].kept = NoToken
      /\ row'[c].expiresAt = now + Life
      /\ \A u \in Tokens \ {t, c} :
           /\ row'[u].revokedAt = row[u].revokedAt /\ row'[u].expiresAt = row[u].expiresAt
           /\ row'[u] = row[u] \/ row'[u] = ErasedKept(row[u])
  BY RotationTimes
<1>3. /\ row[c].parent = NoToken
      /\ \A u \in Tokens : row[u].parent # t /\ row[u].parent # c
  BY <1>0, ConstAssumption DEF ChainInv, FreshRows, OneChain
<1>4. \A u \in Tokens : row'[u].st # "deleted"
  BY <1>1 DEF HonestRows
<1>5. ASSUME NEW u \in Tokens, row'[u].st = "revoked"
      PROVE  row'[u].revokedAt \in 1..now' /\ \E d \in Tokens : row'[d].parent = u
  <2>1. CASE u = t
    BY <1>0, <1>1, <1>2, <2>1
  <2>2. CASE u # t
    <3>1. u # c /\ row[u].st = "revoked"
      BY <1>1, <1>5, <2>2
    <3>2. PICK d \in Tokens : row[d].parent = u
      BY <3>1 DEF HonestRows
    <3>3. d # c
      BY <1>3, <3>2, ConstAssumption
    <3>4. row'[d].parent = u
      BY <1>1, <3>2, <3>3
    <3>5. row'[u].revokedAt = row[u].revokedAt /\ row[u].revokedAt \in 1..now
      BY <1>2, <2>2, <3>1 DEF HonestRows
    <3> QED BY <3>4, <3>5
  <2> QED BY <2>1, <2>2
<1>6. ASSUME NEW u \in Tokens, row'[u].kept # NoToken
      PROVE  row'[u].keptUntil = row'[u].revokedAt + Window
  <2>1. CASE u = t
    BY <1>2, <1>6, <2>1
  <2>2. CASE u # t
    <3>1. u # c /\ row'[u] = row[u]
      BY <1>0, <1>1, <1>2, <1>6, <2>2, ErasedIs
    <3> QED BY <1>6, <3>1 DEF HonestRows
  <2> QED BY <2>1, <2>2
<1>7. ASSUME NEW u \in Tokens PROVE row'[u].expiresAt <= now' + Life
  <2>1. row[u].expiresAt <= now + Life
    BY DEF HonestRows
  <2>2. row'[u].expiresAt = row[u].expiresAt \/ row'[u].expiresAt = now + Life
    BY <1>2
  <2> QED BY <1>0, <2>1, <2>2
<1>8. ASSUME NEW d \in Tokens, row'[d].parent # NoToken
      PROVE  row'[d].expiresAt >= row'[row'[d].parent].expiresAt
  <2>1. CASE d = c
    <3>1. row[t].expiresAt <= now + Life
      BY DEF HonestRows
    <3> QED BY <1>0, <1>1, <1>2, <2>1, <3>1
  <2>2. CASE d # c
    <3>1. row'[d].parent = row[d].parent /\ row[d].parent \in Tokens \ {t, c}
      BY <1>0, <1>1, <1>3, <1>8, <2>2 DEF Token0
    <3>2. row[d].expiresAt >= row[row[d].parent].expiresAt
      BY <1>8, <3>1 DEF HonestRows
    <3>3. row'[d].expiresAt = row[d].expiresAt
      BY <1>2, <2>2
    <3> QED BY <1>2, <3>1, <3>2, <3>3
  <2> QED BY <2>1, <2>2
<1>9. ASSUME NEW d \in Tokens, GraceOn, row'[d].st = "live", row'[d].parent # NoToken
      PROVE  \/ row'[row'[d].parent].kept = d
             \/ row'[row'[d].parent].revokedAt + Window <= now'
  <2>1. CASE d = c
    BY <1>1, <1>2, <1>9, <2>1
  <2>2. CASE d # c
    <3>1. d # t /\ row'[d].parent = row[d].parent /\ row[d].parent \in Tokens \ {t, c}
          /\ row[d].st = "live"
      BY <1>0, <1>1, <1>3, <1>9, <2>2 DEF Token0
    <3>2. row[d].parent # row[t].parent
      BY <1>9, <3>1 DEF ChainInv, OneChain
    <3>3. \/ row[row[d].parent].kept = d
          \/ row[row[d].parent].revokedAt + Window <= now
      BY <1>9, <3>1 DEF HonestRows
    <3> QED BY <1>1, <1>2, <3>1, <3>2, <3>3
  <2> QED BY <2>1, <2>2
<1> QED BY <1>4, <1>5, <1>6, <1>7, <1>8, <1>9 DEF HonestRows


LEMMA HonestSignIn ==
  ASSUME ChainInv, HonestRows, SignedIn, now' = now
  PROVE  HonestRows'
<1> PICK t \in Tokens : row[t].st = "none" /\ row' = [row EXCEPT ![t] = NewRow(NoToken)]
  BY DEF SignedIn
<1>0. /\ now \in Nat \ {0} /\ Life \in Nat
      /\ \A u \in Tokens : row[u] \in Row /\ row[u].parent \in Token0
      /\ row[t].parent = NoToken
  BY TimesAre DEF ChainInv, FreshRows
<1>1. /\ row'[t].st = "live" /\ row'[t].parent = NoToken /\ row'[t].kept = NoToken
      /\ row'[t].expiresAt = now + Life
      /\ \A u \in Tokens \ {t} : row'[u] = row[u]
  BY DEF NewRow, Blank, ChainInv, SharedOK
<1>2. \A u \in Tokens : row[u].parent # t
  BY <1>0, ConstAssumption DEF ChainInv, OneChain
<1>3. ASSUME NEW u \in Tokens PROVE row'[u].st # "deleted" /\ row'[u].expiresAt <= now' + Life
  BY <1>0, <1>1 DEF HonestRows
<1>4. ASSUME NEW u \in Tokens, row'[u].st = "revoked"
      PROVE  row'[u].revokedAt \in 1..now' /\ \E d \in Tokens : row'[d].parent = u
  <2>1. u # t /\ row'[u] = row[u]
    BY <1>1, <1>4
  <2>2. PICK d \in Tokens : row[d].parent = u
    BY <1>4, <2>1 DEF HonestRows
  <2>3. d # t
    BY <1>0, <2>2, ConstAssumption
  <2> QED BY <1>1, <1>4, <2>1, <2>2, <2>3 DEF HonestRows
<1>5. ASSUME NEW u \in Tokens, row'[u].kept # NoToken
      PROVE  row'[u].keptUntil = row'[u].revokedAt + Window
  BY <1>1, <1>5 DEF HonestRows
<1>6. ASSUME NEW d \in Tokens, row'[d].parent # NoToken
      PROVE  /\ row'[d].expiresAt >= row'[row'[d].parent].expiresAt
             /\ GraceOn /\ row'[d].st = "live" =>
                  \/ row'[row'[d].parent].kept = d
                  \/ row'[row'[d].parent].revokedAt + Window <= now'
  <2>1. row'[d] = row[d] /\ row[d].parent \in Tokens \ {t}
    BY <1>0, <1>1, <1>2, <1>6 DEF Token0
  <2>2. row'[row[d].parent] = row[row[d].parent]
    BY <1>1, <2>1
  <2> QED BY <1>6, <2>1, <2>2 DEF HonestRows
<1> QED BY <1>3, <1>4, <1>5, <1>6 DEF HonestRows

LEMMA HonestLapse ==
  ASSUME ChainInv, HonestRows, Lapses, now' \in Nat
  PROVE  HonestRows'
<1>0. /\ now \in Nat \ {0} /\ Life \in Nat /\ Window \in Nat /\ now' >= now
      /\ \A u \in Tokens : /\ row[u] \in Row /\ row[u].parent \in Token0
                           /\ row[u].expiresAt \in Nat /\ row[u].revokedAt \in Nat
  BY TimesAre DEF ChainInv, Lapses
<1>1. ASSUME NEW t \in Tokens
      PROVE  /\ row'[t].st = row[t].st /\ row'[t].parent = row[t].parent
             /\ row'[t].revokedAt = row[t].revokedAt /\ row'[t].expiresAt = row[t].expiresAt
             /\ row'[t].kept # NoToken => row'[t] = row[t]
             /\ row[t].kept = row'[t].kept \/ row[t].keptUntil <= now
  BY <1>0, ErasedIs DEF Lapses
<1>2. ASSUME NEW u \in Tokens PROVE row'[u].st # "deleted" /\ row'[u].expiresAt <= now' + Life
  <2>1. row[u].st # "deleted" /\ row[u].expiresAt <= now + Life
    BY DEF HonestRows
  <2> QED BY <1>0, <1>1, <2>1
<1>3. ASSUME NEW u \in Tokens, row'[u].st = "revoked"
      PROVE  row'[u].revokedAt \in 1..now' /\ \E d \in Tokens : row'[d].parent = u
  <2>1. row[u].revokedAt \in 1..now
    BY <1>1, <1>3 DEF HonestRows
  <2>2. PICK d \in Tokens : row[d].parent = u
    BY <1>1, <1>3 DEF HonestRows
  <2>3. row'[d].parent = u
    BY <1>1, <2>2
  <2>4. row[u].revokedAt \in 1..now'
    BY <1>0, <2>1
  <2> QED BY <1>1, <2>3, <2>4
<1>4. ASSUME NEW u \in Tokens, row'[u].kept # NoToken
      PROVE  row'[u].keptUntil = row'[u].revokedAt + Window
  BY <1>1, <1>4 DEF HonestRows
<1>5. ASSUME NEW d \in Tokens, row'[d].parent # NoToken
      PROVE  row'[d].expiresAt >= row'[row'[d].parent].expiresAt
  <2>1. row'[d].parent = row[d].parent /\ row[d].parent \in Tokens
    BY <1>0, <1>1, <1>5 DEF Token0
  <2> QED BY <1>1, <1>5, <2>1 DEF HonestRows
<1>6. ASSUME NEW d \in Tokens, GraceOn, row'[d].st = "live", row'[d].parent # NoToken
      PROVE  \/ row'[row'[d].parent].kept = d
             \/ row'[row'[d].parent].revokedAt + Window <= now'
  <2> DEFINE w == row[d].parent
  <2>1. row'[d].parent = w /\ w \in Tokens /\ row[d].st = "live" /\ w # NoToken
    BY <1>0, <1>1, <1>6 DEF Token0
  <2>2. row[w].kept = d \/ row[w].revokedAt + Window <= now
    BY <1>6, <2>1 DEF HonestRows
  <2> HIDE DEF w
  <2>3. row'[w].kept = row[w].kept \/ row[w].keptUntil <= now
    BY <1>1, <2>1
  <2>4. row[w].kept # NoToken => row[w].keptUntil = row[w].revokedAt + Window
    BY <2>1 DEF HonestRows
  <2>5. d # NoToken
    BY ConstAssumption
  <2>6. row'[w].kept = d \/ row[w].revokedAt + Window <= now
    BY <2>2, <2>3, <2>4, <2>5
  <2>7. row'[w].revokedAt = row[w].revokedAt /\ row[w].revokedAt \in Nat
    BY <1>0, <1>1, <2>1
  <2>8. row'[w].kept = d \/ row'[w].revokedAt + Window <= now'
    BY <1>0, <2>6, <2>7
  <2> QED BY <2>1, <2>8
<1> QED BY <1>2, <1>3, <1>4, <1>5, <1>6 DEF HonestRows


\* What an honest request has read stays true of the rows.
LEMMA HonestStays ==
  ASSUME LocalOK, ChainInv, RequestInv, Survives, NEW p \in Procs, HonestReads(p),
         now' \in Nat, now' >= now, LocalOK',
         tok'[p] = tok[p],
         pc'[p] = "idle" => op'[p] = "none",
         pc'[p] \in {"claim", "reread"} => op'[p] = "rotate",
         pc'[p] \in OnGrace => /\ pc[p] \in OnGrace /\ seen'[p] = seen[p] /\ op'[p] = op[p]
                               /\ at'[p] = at[p] \/ (pc[p] = "grace" /\ at'[p] = now)
                               /\ pc'[p] = "grace" => pc[p] = "grace"
                               /\ pc[p] = "grace" /\ pc'[p] # "grace" => at'[p] = now,
         pc'[p] = "grandchild" =>
           /\ pc[p] \in OnChild /\ child'[p] = child[p] /\ at'[p] = at[p]
           /\ row[child[p]].st # "live" \/ row[child[p]].expiresAt <= at[p]
  PROVE  HonestReads(p)'
<1>0. /\ SharedOK /\ now \in Nat /\ Window \in Nat /\ seen[p].revokedAt \in Nat
      /\ at[p] \in Nat /\ at'[p] \in Nat
  BY TimesAre, ConstAssumption DEF ChainInv, LocalOK, Row, Time0, Time
<1>1. ASSUME pc'[p] \in OnGrace, seen'[p].kept # NoToken \/ op'[p] = "replay"
      PROVE  /\ row[tok[p]].st = "revoked" /\ tok[p] \in Tokens /\ row[tok[p]].st # "none"
             /\ row'[tok[p]].st = "revoked"
             /\ seen[p].revokedAt = row'[tok[p]].revokedAt
             /\ seen[p].expiresAt = row'[tok[p]].expiresAt
             /\ seen[p].kept # NoToken => seen[p].keptUntil = seen[p].revokedAt + Window
  <2>1. tok[p] \in Tokens
    BY <1>1 DEF LocalOK, OnGrace, OnToken
  <2>2. /\ row[tok[p]].st = "revoked"
        /\ seen[p].revokedAt = row[tok[p]].revokedAt
        /\ seen[p].expiresAt = row[tok[p]].expiresAt
        /\ seen[p].kept # NoToken => seen[p].keptUntil = seen[p].revokedAt + Window
    BY <1>1 DEF HonestReads
  <2> QED BY <2>1, <2>2 DEF Survives
<1>2. ASSUME pc'[p] \in OnGrace, op'[p] = "replay", GraceOn, NEW c \in Tokens,
             row'[c].st = "live", row'[c].parent = tok'[p]
      PROVE  seen'[p].kept = c \/ seen'[p].revokedAt + Window <= Clock(p)'
  <2>1. row[c].st = "live" /\ row[c].parent = tok[p]
    BY <1>1, <1>2 DEF Survives
  <2>2. seen[p].kept = c \/ seen[p].revokedAt + Window <= Clock(p)
    BY <1>2, <2>1 DEF HonestReads
  <2>3. Clock(p)' >= Clock(p) /\ Clock(p) \in Nat /\ Clock(p)' \in Nat
    BY <1>0, <1>2 DEF Clock
  <2> QED BY <1>0, <1>2, <2>2, <2>3
<1>3. ASSUME pc'[p] = "grandchild"
      PROVE  row'[child'[p]].st # "live" \/ row'[child'[p]].expiresAt <= at'[p]
  <2>1. child[p] \in Tokens /\ tok[p] # NoToken /\ row[child[p]].parent = tok[p]
    BY <1>3, ConstAssumption DEF LocalOK, OnChild, OnToken, RequestInv, ReadInv
  <2>2. row[child[p]].st # "none"
    BY <2>1 DEF Survives
  <2> QED BY <1>3, <2>1, <2>2 DEF Survives
<1> QED BY <1>1, <1>2, <1>3 DEF HonestReads

\* A request that is answered has nothing left to remember.
LEMMA HonestFinish ==
  ASSUME LocalOK, NEW p \in Procs, NEW t, Finish(p, t)
  PROVE  HonestReads(p)'
<1>1. pc'[p] = "idle" /\ op'[p] = "none"
  BY DEF Finish, LocalOK
<1> QED BY <1>1 DEF HonestReads, OnGrace

\* A request on its way to the grace reads the row of a spent token.
LEMMA HonestReading ==
  ASSUME LocalOK, ChainInv, HonestRows, NEW p \in Procs, row' = row, now' = now,
         pc'[p] = "grace", tok'[p] \in Tokens, seen'[p] = row[tok'[p]],
         op'[p] = "replay" => row[tok'[p]].st = "revoked"
  PROVE  HonestReads(p)'
<1>1. row[tok'[p]].kept # NoToken => row[tok'[p]].st = "revoked"
  BY DEF ChainInv, KeptPairIsCurrent
<1>2. row[tok'[p]].kept # NoToken => row[tok'[p]].keptUntil = row[tok'[p]].revokedAt + Window
  BY DEF HonestRows
<1>3. ASSUME GraceOn, NEW c \in Tokens, row[c].st = "live", row[c].parent = tok'[p]
      PROVE  row[tok'[p]].kept = c \/ row[tok'[p]].revokedAt + Window <= now
  <2>1. tok'[p] # NoToken
    BY ConstAssumption
  <2> QED BY <1>3, <2>1 DEF HonestRows
<1>4. Clock(p)' = now
  BY DEF Clock
<1> QED BY <1>1, <1>2, <1>3, <1>4 DEF HonestReads


\* Each step of a request keeps what it has read true.
LEMMA HonestStep ==
  ASSUME LocalOK, LocalOK', ChainInv, RequestInv, HonestState, Survives, now' \in Nat, now' >= now,
         NEW p \in Procs, Start(p) \/ Step(p) \/ Crash(p)
  PROVE  HonestReads(p)'
<1>0. HonestReads(p) /\ HonestRows /\ pc \in [Procs -> PCs] /\ at \in [Procs -> Time0]
  BY DEF HonestState, LocalOK
<1>1. ASSUME NEW t, Finish(p, t) PROVE HonestReads(p)'
  BY <1>1, HonestFinish
<1>2. ASSUME NEW o, NEW t, NEW l \in {"claim", "grace", "revoke", "revokeOne"}, Begin(p, o, t, l),
             row' = row, now' = now, l = "claim" => o = "rotate",
             l = "grace" => t \in Tokens /\ row[t].st = "revoked"
      PROVE  HonestReads(p)'
  <2>1. /\ pc'[p] = l /\ op'[p] = o /\ tok'[p] = t
        /\ l = "grace" => seen'[p] = row[t]
    BY <1>2 DEF Begin, LocalOK
  <2>2. CASE l = "grace"
    BY <1>0, <1>2, <2>1, <2>2, HonestReading
  <2>3. CASE l # "grace"
    BY <1>2, <2>1, <2>3 DEF HonestReads, OnGrace
  <2> QED BY <2>2, <2>3
<1>3. ASSUME NEW l, Goto(p, l) PROVE pc'[p] = l /\ op'[p] = op[p] /\ tok'[p] = tok[p]
  BY <1>3 DEF Goto, LocalOK
<1>4. ASSUME NEW l \in {"revoke", "revoking", "erase", "erasing", "eraseAround"}, Goto(p, l)
      PROVE  HonestReads(p)'
  BY <1>3, <1>4 DEF HonestReads, OnGrace
<1>5. CASE Start(p)
  <2>1. ASSUME NEW t \in Tokens, PresentRefused(p, t) PROVE HonestReads(p)'
    BY <1>1, <2>1 DEF PresentRefused
  <2>2. ASSUME NEW t \in Tokens, PresentLive(p, t) PROVE HonestReads(p)'
    BY <1>2, <2>2 DEF PresentLive, db
  <2>3. ASSUME NEW t \in Tokens, PresentRevoked(p, t) PROVE HonestReads(p)'
    BY <1>2, <2>3 DEF PresentRevoked, db
  <2>4. ASSUME NEW t \in Tokens, NEW o \in Ops, RevokeOne(p, t, o) PROVE HonestReads(p)'
    BY <1>2, <2>4 DEF RevokeOne, db
  <2>5. ASSUME NEW t \in Token0, SignOut(p, t) PROVE HonestReads(p)'
    BY <1>2, <2>5 DEF SignOut, db
  <2> QED BY <1>5, <2>1, <2>2, <2>3, <2>4, <2>5 DEF Start
<1>6. CASE Crash(p)
  BY <1>1, <1>6 DEF Crash
<1>7. CASE NoGrace(p)
  BY <1>1, <1>4, <1>7 DEF NoGrace
<1>8. CASE LoseClaim(p)
  <2>1. pc[p] = "claim" /\ pc'[p] = "reread" /\ op'[p] = op[p]
    BY <1>3, <1>8 DEF LoseClaim
  <2> QED BY <1>0, <2>1 DEF HonestReads, OnGrace
<1>9. CASE Reread(p)
  <2>1. CASE Goto(p, "grace") /\ seen' = [seen EXCEPT ![p] = row[tok[p]]]
    <3>1. pc[p] = "reread" /\ row' = row /\ now' = now /\ op[p] = "rotate"
      BY <1>0, <1>9 DEF Reread, db, HonestReads
    <3>2. /\ pc'[p] = "grace" /\ op'[p] = op[p] /\ tok'[p] = tok[p] /\ seen'[p] = row[tok[p]]
          /\ tok[p] \in Tokens
      BY <1>3, <2>1, <3>1 DEF LocalOK, OnToken
    <3> QED BY <1>0, <3>1, <3>2, HonestReading
  <2> QED BY <1>1, <1>9, <2>1 DEF Reread
<1>10. CASE Grace(p)
  <2>1. CASE Goto(p, "findChild") /\ at' = [at EXCEPT ![p] = now] /\ UNCHANGED <<seen, child, targets>>
    <3>1. /\ pc[p] = "grace" /\ pc'[p] = "findChild" /\ at'[p] = now /\ seen'[p] = seen[p]
          /\ op'[p] = op[p] /\ tok'[p] = tok[p]
      BY <1>0, <1>3, <1>10, <2>1 DEF Grace
    <3> QED BY <1>0, <3>1, HonestStays DEF OnGrace
  <2> QED BY <1>7, <1>10, <2>1 DEF Grace
<1>11. CASE FindChild(p)
  <2>1. ASSUME NEW c, Goto(p, "checkChild"), UNCHANGED <<seen, at, targets>> PROVE HonestReads(p)'
    <3>1. /\ pc[p] = "findChild" /\ pc'[p] = "checkChild" /\ at'[p] = at[p] /\ seen'[p] = seen[p]
          /\ op'[p] = op[p] /\ tok'[p] = tok[p]
      BY <1>3, <1>11, <2>1 DEF FindChild
    <3> QED BY <1>0, <3>1, HonestStays DEF OnGrace
  <2> QED BY <1>7, <1>11, <2>1 DEF FindChild
<1>12. CASE CheckChild(p)
  <2>1. CASE ~ChildLive(p) /\ Goto(p, "grandchild") /\ UNCHANGED <<seen, at, child, targets>>
    <3>1. /\ pc[p] = "checkChild" /\ pc'[p] = "grandchild" /\ at'[p] = at[p] /\ seen'[p] = seen[p]
          /\ op'[p] = op[p] /\ tok'[p] = tok[p] /\ child'[p] = child[p]
      BY <1>3, <1>12, <2>1 DEF CheckChild
    <3>2. child[p] \in Tokens /\ row[child[p]].expiresAt \in Nat /\ at[p] \in Nat
      BY <1>0, <3>1, TimesAre, ConstAssumption DEF LocalOK, OnChild, ChainInv, Time0, Time
    <3>3. row[child[p]].st # "live" \/ row[child[p]].expiresAt <= at[p]
      BY <2>1, <3>2 DEF ChildLive
    <3> QED BY <1>0, <3>1, <3>3, HonestStays DEF OnGrace, OnChild
  <2> QED BY <1>1, <1>7, <1>12, <2>1 DEF CheckChild
<1>13. CASE CountGrandchildren(p)
  BY <1>1, <1>7, <1>13 DEF CountGrandchildren
<1>14. CASE (\E c \in Tokens : Rotate(p, c)) \/ EraseApply(p) \/ EraseAround(p)
  BY <1>1, <1>14 DEF Rotate, EraseApply, EraseAround
<1>15. CASE RevokeStart(p) \/ RevokeApply(p) \/ EraseStart(p) \/ RevokeOneApply(p)
  BY <1>4, <1>15 DEF RevokeStart, RevokeApply, EraseStart, RevokeOneApply
<1> QED
  BY <1>5, <1>6, <1>8, <1>9, <1>10, <1>11, <1>12, <1>13, <1>14, <1>15 DEF Step

LEMMA HonestOther ==
  ASSUME LocalOK, LocalOK', ChainInv, RequestInv, HonestState, Survives, now' \in Nat, now' >= now,
         NEW p \in Procs, Untouched(p)
  PROVE  HonestReads(p)'
<1>1. HonestReads(p)
  BY DEF HonestState
<1>2. pc[p] = "grandchild" => row[child[p]].st # "live" \/ row[child[p]].expiresAt <= at[p]
  BY <1>1 DEF HonestReads
<1>3. pc[p] = "idle" => op[p] = "none"
  BY <1>1 DEF HonestReads
<1>4. pc[p] \in {"claim", "reread"} => op[p] = "rotate"
  BY <1>1 DEF HonestReads
<1> QED BY <1>1, <1>2, <1>3, <1>4, HonestStays DEF Untouched, OnChild

LEMMA HonestNext ==
  LocalOK /\ LocalOK' /\ ChainInv /\ ChainInv' /\ RequestInv /\ HonestInv /\ [Next]_vars
  => HonestInv'
<1> SUFFICES ASSUME LocalOK, LocalOK', ChainInv, ChainInv', RequestInv, HonestInv, [Next]_vars, ~cut'
             PROVE  HonestState'
  BY DEF HonestInv
<1>1. ~cut
  <2>2. ASSUME cut PROVE FALSE
    <3>1. ASSUME NEW p \in Procs, Start(p) \/ Step(p) \/ Crash(p) PROVE FALSE
      BY <2>2, <3>1 DEF Start, Step, Crash, PresentRefused, PresentLive, PresentRevoked, RevokeOne,
         SignOut, Rotate, LoseClaim, Reread, Grace, FindChild, CheckChild, CountGrandchildren,
         RevokeStart, RevokeApply, EraseStart, EraseApply, RevokeOneApply, EraseAround
    <3> QED BY <2>2, <3>1 DEF Next, SignIn, CleanupRows, CleanupPairs, Tick, vars
  <2> QED BY <2>2
<1>2. HonestState
  BY <1>1 DEF HonestInv
<1>3. /\ now' >= now /\ cleaning' <= now'
      /\ (Rotated /\ now' = now) \/ (SignedIn /\ now' = now) \/ Lapses
  BY <1>2, HonestKinds
<1>4. Survives
  BY <1>3, HonestSurvives
<1>5. now' \in Nat
  BY ConstAssumption DEF ChainInv, SharedOK
<1>6. HonestRows'
  BY <1>2, <1>3, <1>5, HonestRotation, HonestSignIn, HonestLapse DEF HonestState
<1>7. ASSUME NEW q \in Procs PROVE HonestReads(q)'
  <2>1. CASE Untouched(q)
    BY <1>2, <1>3, <1>4, <1>5, <2>1, HonestOther
  <2>2. ASSUME NEW p \in Procs, Start(p) \/ Step(p) \/ Crash(p) PROVE HonestReads(q)'
    <3>1. CASE p = q
      BY <1>2, <1>3, <1>4, <1>5, <2>2, <3>1, HonestStep
    <3>2. CASE p # q
      BY <2>1, <2>2, <3>2, OthersUntouched
    <3> QED BY <3>1, <3>2
  <2>3. CASE (\E t \in Tokens : SignIn(t)) \/ CleanupRows \/ CleanupPairs \/ Tick \/ UNCHANGED vars
    BY <2>1, <2>3 DEF SignIn, CleanupRows, CleanupPairs, Tick, vars, local, Untouched
  <2> QED BY <2>2, <2>3 DEF Next
<1> QED BY <1>3, <1>6, <1>7 DEF HonestState

LEMMA HonestInit == Init => HonestInv
<1> SUFFICES ASSUME Init PROVE HonestState
  BY DEF HonestInv
<1>1. /\ now = 1 /\ cleaning = 0 /\ Life \in Nat
      /\ \A t \in Tokens : /\ row[t].st = "none" /\ row[t].parent = NoToken
                           /\ row[t].kept = NoToken /\ row[t].expiresAt = 0
  BY ConstAssumption DEF Init, Blank
<1>2. HonestRows
  BY <1>1 DEF HonestRows
<1>3. \A p \in Procs : pc[p] = "idle" /\ op[p] = "none"
  BY DEF Init
<1>4. \A p \in Procs : HonestReads(p)
  BY <1>3 DEF HonestReads, OnGrace
<1> QED BY <1>1, <1>2, <1>4 DEF HonestState

LEMMA HonestAlways == Spec => [](LocalOK /\ ChainInv /\ RequestInv /\ HonestInv)
<1>1. LocalOK /\ ChainInv /\ [Next]_vars => LocalOK'
  BY TypedNext DEF ChainInv
<1> QED
  BY <1>1, HonestInit, HonestNext, ChainNext, RequestAlways, PTL DEF Spec

\* Inside the window a replay reaches the theft branch only if something other
\* than a rotation has ended a token: honest callers sharing a token never trip
\* theft detection on each other.
THEOREM HonestCallersSpared == Spec => HonestReplaySpared
<1>1. ASSUME LocalOK, ChainInv, RequestInv, HonestInv, [Next]_vars, NEW p \in Procs,
             pc[p] # "revoke", pc'[p] = "revoke", op[p] = "replay", GraceOn, Younger(p), ~cut
      PROVE  FALSE
  <2>0. HonestReads(p) /\ HonestRows
    BY <1>1 DEF HonestInv, HonestState
  <2>1. /\ seen[p].expiresAt > Clock(p) /\ Clock(p) - seen[p].revokedAt < Window
    BY <1>1 DEF Younger, Clock
  <2>2. /\ now \in Nat /\ Window \in Nat /\ at[p] \in Nat /\ Clock(p) \in Nat
        /\ seen[p].revokedAt \in Nat /\ seen[p].expiresAt \in Nat
    BY <1>1, TimesAre, ConstAssumption DEF ChainInv, LocalOK, Row, Time0, Time, Clock
  <2>3. ASSUME NEW q \in Procs, Start(q) \/ Step(q) \/ Crash(q) PROVE q = p
    BY <1>1, <2>3, OthersUntouched DEF Untouched
  <2>4. ~Start(p) /\ ~Crash(p)
    <3>1. ASSUME Start(p) PROVE pc[p] = "idle"
      BY <3>1 DEF Start, PresentRefused, PresentLive, PresentRevoked, RevokeOne, SignOut, Begin
    <3>2. ASSUME Crash(p) PROVE pc'[p] = "idle"
      BY <1>1, <3>2 DEF Crash, Finish, LocalOK
    <3> QED BY <1>1, <2>0, <3>1, <3>2 DEF HonestReads
  <2>5. Step(p)
    <3>1. ASSUME (\E t \in Tokens : SignIn(t)) \/ CleanupRows \/ CleanupPairs \/ Tick \/ UNCHANGED vars
          PROVE  FALSE
      BY <1>1, <3>1 DEF SignIn, CleanupRows, CleanupPairs, Tick, vars, local
    <3> QED BY <1>1, <2>3, <2>4, <3>1 DEF Next
  <2>a. ASSUME NEW l, Goto(p, l) PROVE l = "revoke"
    BY <1>1, <2>a DEF Goto, LocalOK
  <2>b. ASSUME NEW t, Finish(p, t) PROVE FALSE
    BY <1>1, <2>b DEF Finish, LocalOK
  <2>6. NoGrace(p) /\ \/ Grace(p) /\ ~WithinGrace(seen[p], now)
                      \/ FindChild(p) /\ Children(tok[p]) = {}
                      \/ CheckChild(p) /\ ChildLive(p) /\ ~Opens(seen[p], at[p])
                      \/ CountGrandchildren(p) /\ Children(child[p]) = {}
    BY <1>1, <2>5, <2>a, <2>b
    DEF Step, Rotate, LoseClaim, Reread, Grace, FindChild, CheckChild, CountGrandchildren,
        RevokeStart, RevokeApply, EraseStart, EraseApply, RevokeOneApply, EraseAround
  <2>7. /\ pc[p] \in OnGrace /\ tok[p] \in Tokens /\ row[tok[p]].st = "revoked"
        /\ seen[p].revokedAt = row[tok[p]].revokedAt
        /\ seen[p].expiresAt = row[tok[p]].expiresAt
        /\ seen[p].kept # NoToken => seen[p].keptUntil = seen[p].revokedAt + Window
        /\ \A c \in Tokens : row[c].st = "live" /\ row[c].parent = tok[p] =>
             seen[p].kept = c \/ seen[p].revokedAt + Window <= Clock(p)
    <3>1. pc[p] \in OnGrace
      BY <2>6 DEF Grace, FindChild, CheckChild, CountGrandchildren, OnGrace
    <3>2. tok[p] \in Tokens
      BY <1>1, <3>1 DEF LocalOK, OnGrace, OnToken
    <3> QED BY <1>1, <2>0, <3>1, <3>2 DEF HonestReads
  <2>8. seen[p].revokedAt \in 1..now /\ \E c \in Tokens : row[c].parent = tok[p]
    BY <2>0, <2>7 DEF HonestRows
  <2>9. \A c \in Tokens : row[c].parent # NoToken => Exists(c)
    <3>1. \A c \in Tokens : row[c].st \in {"none", "live", "revoked", "deleted"}
      BY <1>1 DEF ChainInv, SharedOK, Row
    <3> QED BY <1>1, <2>0, <3>1 DEF HonestRows, ChainInv, FreshRows, Exists
  <2>10. \A t \in Tokens : row[t].st = "revoked" => Children(t) # {}
    <3> SUFFICES ASSUME NEW t \in Tokens, row[t].st = "revoked" PROVE Children(t) # {}
      OBVIOUS
    <3>1. PICK c \in Tokens : row[c].parent = t
      BY <2>0 DEF HonestRows
    <3>2. t # NoToken
      BY ConstAssumption
    <3> QED BY <2>9, <3>1, <3>2 DEF Children
  <2>11. CASE Grace(p) /\ ~WithinGrace(seen[p], now)
    <3>1. Clock(p) = now
      BY <2>11 DEF Grace, Clock
    <3> QED BY <1>1, <2>1, <2>2, <2>8, <2>11, <3>1 DEF WithinGrace
  <2>12. CASE FindChild(p) /\ Children(tok[p]) = {}
    BY <2>7, <2>10, <2>12
  <2>13. ASSUME pc[p] \in {"checkChild", "grandchild"}
         PROVE  /\ child[p] \in Tokens /\ row[child[p]].parent = tok[p] /\ Clock(p) = at[p]
                /\ row[child[p]].expiresAt \in Nat
                /\ row[child[p]].expiresAt > at[p] /\ Exists(child[p])
    <3>1. child[p] \in Tokens /\ row[child[p]].parent = tok[p] /\ Clock(p) = at[p] /\ tok[p] # NoToken
      BY <1>1, <2>7, <2>13, ConstAssumption DEF LocalOK, OnChild, RequestInv, ReadInv, Clock
    <3>2. row[child[p]].expiresAt >= seen[p].expiresAt /\ row[child[p]].expiresAt \in Nat
      BY <1>1, <2>0, <2>7, <3>1, TimesAre DEF HonestRows, ChainInv
    <3>3. row[child[p]].expiresAt > at[p]
      BY <2>1, <2>2, <3>1, <3>2
    <3> QED BY <2>9, <3>1, <3>2, <3>3
  <2>14. CASE CheckChild(p) /\ ChildLive(p) /\ ~Opens(seen[p], at[p])
    <3>1. pc[p] = "checkChild"
      BY <2>14 DEF CheckChild
    <3>2. seen[p].kept = child[p] \/ seen[p].revokedAt + Window <= at[p]
      BY <2>7, <2>13, <2>14, <3>1 DEF ChildLive
    <3>3. at[p] - seen[p].revokedAt < Window
      BY <2>1, <2>13, <3>1
    <3>4. seen[p].kept = child[p] /\ child[p] # NoToken
      BY <2>2, <2>13, <3>1, <3>2, <3>3, ConstAssumption
    <3>5. seen[p].keptUntil > at[p]
      BY <2>2, <2>7, <3>3, <3>4
    <3> QED BY <2>14, <3>4, <3>5 DEF Opens
  <2>15. CASE CountGrandchildren(p) /\ Children(child[p]) = {}
    <3>1. pc[p] = "grandchild"
      BY <2>15 DEF CountGrandchildren
    <3>2. row[child[p]].st # "live" \/ row[child[p]].expiresAt <= at[p]
      BY <2>0, <3>1 DEF HonestReads
    <3>3. row[child[p]].st = "revoked"
      BY <2>2, <2>13, <3>1, <3>2 DEF Exists
    <3> QED BY <2>10, <2>13, <2>15, <3>1, <3>3
  <2> QED BY <2>6, <2>11, <2>12, <2>14, <2>15
<1>2. LocalOK /\ ChainInv /\ RequestInv /\ HonestInv /\ [Next]_vars
        => [\A p \in Procs :
              pc[p] # "revoke" /\ pc'[p] = "revoke" /\ op[p] = "replay" /\ GraceOn /\ Younger(p)
              => cut]_vars
  BY <1>1
<1> QED
  BY <1>2, HonestAlways, PTL DEF Spec, HonestReplaySpared

-----------------------------------------------------------------------------
(* What has ended has ended *)

\* Dead tokens with all the rows that came of them.
Ended(F) ==
  /\ \A t \in F : row[t].st \in {"revoked", "deleted"}
  /\ \A c \in Tokens : row[c].parent \in F => c \in F

\* A family of which no token is live gets no live token any more: no rotation, replay
\* or sign-in adds to it, and nothing in it comes back.
EndedStaysEnded == [][\A F \in SUBSET Tokens : Ended(F) => Ended(F)']_vars

\* With OneChain this is why a family may be taken for its newest token, as CodeGrant does:
\* no other is live, and once that one is dead the family stays so. It says nothing of a
\* family UPDATE: a child rotated under one is newer than its snapshot and stays live.
THEOREM EndedFamiliesStayEnded == Spec => EndedStaysEnded
<1>1. ASSUME LocalOK, ChainInv, [Next]_vars, NEW F \in SUBSET Tokens, Ended(F)
      PROVE  Ended(F)'
  <2>0. SharedOK /\ KeptPairIsCurrent /\ NoToken \notin F
    BY <1>1, ConstAssumption DEF ChainInv
  <2>1. ASSUME NEW t \in F PROVE row'[t].st \in {"revoked", "deleted"}
    BY <1>1, <2>1, RowsOnlyAge DEF Ended
  <2>2. ASSUME NEW c \in Tokens, row'[c].parent \in F PROVE c \in F
    <3>1. CASE Rotated
      <4> PICK t \in Tokens, d \in Tokens :
            row[t].st = "live" /\ row[d].st = "none" /\ row' = Claimed(t, d)
        BY <3>1 DEF Rotated
      <4>1. t \notin F
        BY <1>1 DEF Ended
      <4>2. row'[d].parent = t /\ \A u \in Tokens \ {d} : row'[u].parent = row[u].parent
        BY <1>1, RotationRows
      <4> QED BY <1>1, <2>2, <4>1, <4>2 DEF Ended
    <3>2. CASE SignedIn
      <4> PICK t \in Tokens : row[t].st = "none" /\ row' = [row EXCEPT ![t] = NewRow(NoToken)]
        BY <3>2 DEF SignedIn
      <4>1. row'[t].parent = NoToken /\ \A u \in Tokens \ {t} : row'[u] = row[u]
        BY <2>0 DEF SharedOK, NewRow, Blank
      <4> QED BY <1>1, <2>0, <2>2, <4>1 DEF Ended
    <3>3. CASE Fades
      BY <1>1, <2>2, <3>3 DEF Fades, Fade, Ended
    <3> QED BY <1>1, <2>0, <3>1, <3>2, <3>3, StepOnRows
  <2> QED BY <2>1, <2>2 DEF Ended
<1>2. LocalOK /\ ChainInv /\ [Next]_vars
        => [\A F \in SUBSET Tokens : Ended(F) => Ended(F)']_vars
  BY <1>1
<1> QED BY <1>2, ChainAlways, PTL DEF Spec, EndedStaysEnded

\* What a family UPDATE has taken into its snapshot is in use, and once it was applied,
\* spent.
TargetsInv ==
  \A p \in Procs : \A t \in targets[p] :
    /\ pc[p] = "revoking" => row[t].st # "none"
    /\ pc[p] = "erase" => row[t].st \in {"revoked", "deleted"}

\* No step takes a row out of use.
LEMMA UsedStaysUsed ==
  ASSUME LocalOK, ChainInv, [Next]_vars, NEW t \in Tokens, row[t].st # "none"
  PROVE  row'[t].st # "none"
<1>0. SharedOK /\ KeptPairIsCurrent /\ row[t].st \in {"live", "revoked", "deleted"}
  BY DEF ChainInv, SharedOK, Row
<1>1. CASE Rotated
  <2> PICK u \in Tokens, c \in Tokens :
        row[u].st = "live" /\ row[c].st = "none" /\ row' = Claimed(u, c)
    BY <1>1 DEF Rotated
  <2> QED BY RotationRows
<1>2. CASE SignedIn
  BY <1>0, <1>2 DEF SignedIn, SharedOK
<1>3. CASE Fades
  BY <1>0, <1>3 DEF Fades, Fade
<1> QED BY <1>0, <1>1, <1>2, <1>3, StepOnRows

\* A request that does not go to these labels, or stays there with its snapshot.
LEMMA TargetsKept ==
  ASSUME LocalOK, ChainInv, TargetsInv, [Next]_vars, NEW q \in Procs,
         \/ pc'[q] \notin {"revoking", "erase"}
         \/ pc'[q] = pc[q] /\ targets'[q] = targets[q]
  PROVE  \A t \in targets'[q] :
           /\ pc'[q] = "revoking" => row'[t].st # "none"
           /\ pc'[q] = "erase" => row'[t].st \in {"revoked", "deleted"}
<1>1. CASE pc'[q] \notin {"revoking", "erase"}
  BY <1>1
<1>2. CASE pc'[q] = pc[q] /\ targets'[q] = targets[q]
  <2>1. targets[q] \in SUBSET Tokens
    BY DEF LocalOK
  <2> QED BY <1>2, <2>1, UsedStaysUsed, RowsOnlyAge DEF TargetsInv
<1> QED BY <1>1, <1>2

LEMMA TargetsAside ==
  ASSUME LocalOK, NEW p \in Procs, Start(p) \/ Step(p) \/ Crash(p),
         NEW q \in Procs, q # p
  PROVE  pc'[q] = pc[q] /\ targets'[q] = targets[q]
<1>1. pc'[q] = pc[q]
  BY OthersUntouched DEF Untouched
<1>2. \/ UNCHANGED targets \/ \E T : targets' = [targets EXCEPT ![p] = T]
  <2>1. ASSUME NEW t, Finish(p, t) PROVE \E T : targets' = [targets EXCEPT ![p] = T]
    BY <2>1 DEF Finish
  <2>2. ASSUME NEW o, NEW t, NEW l, Begin(p, o, t, l) PROVE UNCHANGED targets
    BY <2>2 DEF Begin
  <2>3. CASE NoGrace(p)
    BY <2>1, <2>3 DEF NoGrace
  <2>4. CASE Start(p)
    BY <2>1, <2>2, <2>4 DEF Start, PresentRefused, PresentLive, PresentRevoked, RevokeOne, SignOut
  <2>5. CASE Step(p)
    BY <2>1, <2>3, <2>5
    DEF Step, Rotate, LoseClaim, Reread, Grace, FindChild, CheckChild, CountGrandchildren,
        RevokeStart, RevokeApply, EraseStart, EraseApply, RevokeOneApply, EraseAround
  <2>6. CASE Crash(p)
    BY <2>1, <2>6 DEF Crash
  <2> QED BY <2>4, <2>5, <2>6
<1> QED BY <1>1, <1>2 DEF LocalOK

\* Only the family UPDATE itself comes to these labels.
LEMMA TargetsOfStep ==
  ASSUME LocalOK, NEW p \in Procs, Start(p) \/ Step(p) \/ Crash(p)
  PROVE  \/ RevokeStart(p) \/ RevokeApply(p)
         \/ pc'[p] \notin {"revoking", "erase"}
<1>1. ASSUME NEW t, Finish(p, t) PROVE pc'[p] = "idle"
  BY <1>1 DEF Finish, LocalOK
<1>2. ASSUME NEW o, NEW t, NEW l, Begin(p, o, t, l) PROVE pc'[p] = l
  BY <1>2 DEF Begin, LocalOK
<1>3. ASSUME NEW l, Goto(p, l) PROVE pc'[p] = l
  BY <1>3 DEF Goto, LocalOK
<1>4. CASE NoGrace(p)
  BY <1>1, <1>3, <1>4 DEF NoGrace
<1>5. CASE Start(p)
  BY <1>1, <1>2, <1>5 DEF Start, PresentRefused, PresentLive, PresentRevoked, RevokeOne, SignOut
<1>6. CASE Step(p)
  BY <1>1, <1>3, <1>4, <1>6
  DEF Step, Rotate, LoseClaim, Reread, Grace, FindChild, CheckChild, CountGrandchildren,
      EraseStart, EraseApply, RevokeOneApply, EraseAround
<1>7. CASE Crash(p)
  BY <1>1, <1>7 DEF Crash
<1> QED BY <1>5, <1>6, <1>7

LEMMA TargetsNext ==
  LocalOK /\ ChainInv /\ TargetsInv /\ [Next]_vars => TargetsInv'
<1> SUFFICES ASSUME LocalOK, ChainInv, TargetsInv, [Next]_vars, NEW q \in Procs,
                    NEW t \in targets'[q]
             PROVE  /\ pc'[q] = "revoking" => row'[t].st # "none"
                    /\ pc'[q] = "erase" => row'[t].st \in {"revoked", "deleted"}
  BY DEF TargetsInv
<1>1. ASSUME NEW p \in Procs, Start(p) \/ Step(p) \/ Crash(p), q # p
      PROVE  pc'[q] = pc[q] /\ targets'[q] = targets[q]
  BY <1>1, TargetsAside
<1>2. CASE RevokeStart(q)
  <2>1. pc'[q] = "revoking" /\ targets'[q] \subseteq Live /\ row' = row
    BY <1>2 DEF RevokeStart, Goto, LocalOK, db
  <2> QED BY <2>1 DEF Live
<1>3. CASE RevokeApply(q)
  <2>1. /\ pc[q] = "revoking" /\ pc'[q] = "erase" /\ targets'[q] = targets[q]
        /\ t \in Tokens /\ row[t] \in Row /\ row[t].st # "none"
    BY <1>3 DEF RevokeApply, Goto, LocalOK, ChainInv, SharedOK, TargetsInv
  <2>2. row'[t] = IF row[t].st = "live" THEN RevokedAt(row[t], at[q]) ELSE row[t]
    BY <1>3, <2>1 DEF RevokeApply
  <2>3. row'[t].st \in {"revoked", "deleted"}
    BY <2>1, <2>2 DEF RevokedAt, Row
  <2> QED BY <2>1, <2>3
<1>4. ASSUME Start(q) \/ Step(q) \/ Crash(q), ~RevokeStart(q), ~RevokeApply(q)
      PROVE  pc'[q] \notin {"revoking", "erase"}
  BY <1>4, TargetsOfStep
<1>5. CASE (\E u \in Tokens : SignIn(u)) \/ CleanupRows \/ CleanupPairs \/ Tick \/ UNCHANGED vars
  <2>1. pc' = pc /\ targets' = targets
    BY <1>5 DEF SignIn, CleanupRows, CleanupPairs, Tick, vars, local
  <2> QED BY <2>1, TargetsKept
<1>6. ASSUME NEW p \in Procs, Start(p) \/ Step(p) \/ Crash(p)
      PROVE  /\ pc'[q] = "revoking" => row'[t].st # "none"
             /\ pc'[q] = "erase" => row'[t].st \in {"revoked", "deleted"}
  BY <1>1, <1>2, <1>3, <1>4, <1>6, TargetsKept
<1> QED BY <1>5, <1>6 DEF Next

\* A family UPDATE that is done has ended all that was live when it began, but for the
\* token it spares, whatever rotated or was replayed while it waited for its rows.
RevokeEndsWhatItSaw == \A p \in Procs : pc[p] = "erase" => targets[p] \cap Live = {}

\* What VerdictEndsTheFamily claims and the code does not do is more: that nothing
\* came of those tokens in the meantime (refresh-grant.ts:73-76).
THEOREM RevokesEndTheirTargets == Spec => []RevokeEndsWhatItSaw
<1>1. Init => TargetsInv
  BY DEF Init, TargetsInv
<1>2. TargetsInv => RevokeEndsWhatItSaw
  BY DEF TargetsInv, RevokeEndsWhatItSaw, Live
<1> QED BY <1>1, <1>2, TargetsNext, ChainAlways, PTL DEF Spec

-----------------------------------------------------------------------------
(* A kept pair has an end *)

PairEnds(r, n) ==
  r.kept # NoToken =>
    r.keptUntil # 0 /\ r.keptUntil <= r.revokedAt + Window /\ r.keptUntil <= n + Window

PairInv == \A t \in Tokens : PairEnds(row[t], now)

\* What a step makes of a row.
LEMMA PairsOfRows ==
  ASSUME SharedOK, NEW r \in Row, PairEnds(r, now), now' \in Nat, now' >= now
  PROVE  /\ PairEnds(r, now')
         /\ PairEnds(ErasedKept(r), now')
         /\ \A n : n = now \/ r.kept = NoToken => PairEnds(RevokedAt(r, n), now')
         /\ PairEnds([Blank EXCEPT !.st = "deleted", !.parent = r.parent], now')
         /\ \A u : PairEnds(NewRow(u), now')
         /\ \A c : r.kept = NoToken =>
              PairEnds(Sealed([r EXCEPT !.st = "revoked", !.revokedAt = now], c), now')
<1>1. /\ now \in Nat \ {0} /\ Window \in Nat /\ r.keptUntil \in Nat /\ r.revokedAt \in Nat
  BY ConstAssumption DEF SharedOK, Row, Time0, Time
<1>8. now + Window # 0 /\ now + Window <= now + Window /\ now + Window <= now' + Window
  <2>1. now \in Int /\ now > 0 /\ Window \in Int /\ Window >= 0
    BY <1>1
  <2>2. now' \in Int /\ now' >= now
    OBVIOUS
  <2>3. now + Window # 0
    BY <2>1
  <2>4. now + Window <= now + Window
    BY <2>1
  <2>5. now + Window <= now' + Window
    <3>1. \A a, b, w \in Int : b >= a => a + w <= b + w
      OBVIOUS
    <3> QED BY <2>1, <2>2, <3>1
  <2> QED BY <2>3, <2>4, <2>5
<1>2. PairEnds(r, now')
  BY <1>1 DEF PairEnds
<1>3. PairEnds(ErasedKept(r), now')
  BY DEF PairEnds, ErasedKept, Row
<1>4. ASSUME NEW n, n = now \/ r.kept = NoToken PROVE PairEnds(RevokedAt(r, n), now')
  <2>1. RevokedAt(r, n).kept = r.kept /\ RevokedAt(r, n).keptUntil = r.keptUntil
        /\ RevokedAt(r, n).revokedAt = n
    BY DEF RevokedAt, Row
  <2>2. CASE r.kept = NoToken
    BY <2>1, <2>2 DEF PairEnds
  <2>3. CASE r.kept # NoToken /\ n = now
    <3>1. r.keptUntil # 0 /\ r.keptUntil <= now + Window /\ r.keptUntil <= now' + Window
      BY <1>2, <2>3 DEF PairEnds
    <3> QED BY <2>1, <2>3, <3>1 DEF PairEnds
  <2> QED BY <1>4, <2>2, <2>3
<1>5. PairEnds([Blank EXCEPT !.st = "deleted", !.parent = r.parent], now')
  BY DEF PairEnds, Blank
<1>6. ASSUME NEW u PROVE PairEnds(NewRow(u), now')
  BY DEF PairEnds, NewRow, Blank
<1>7. ASSUME NEW c, r.kept = NoToken
      PROVE  PairEnds(Sealed([r EXCEPT !.st = "revoked", !.revokedAt = now], c), now')
  <2> DEFINE s == [r EXCEPT !.st = "revoked", !.revokedAt = now]
  <2>1. s.kept = NoToken /\ s.revokedAt = now
    BY <1>7 DEF Row
  <2>2. CASE GraceOn
    <3>1. /\ Sealed(s, c).keptUntil = now + Window /\ Sealed(s, c).revokedAt = now
      BY <2>2 DEF Sealed, Row
    <3> QED BY <3>1, <1>8 DEF PairEnds
  <2>3. CASE ~GraceOn
    <3>1. Sealed(s, c) = s
      BY <2>3 DEF Sealed
    <3> QED BY <2>1, <3>1 DEF PairEnds
  <2> QED BY <2>2, <2>3
<1> QED BY <1>2, <1>3, <1>4, <1>5, <1>6, <1>7

LEMMA PairNext ==
  LocalOK /\ ChainInv /\ PairInv /\ [Next]_vars => PairInv'
<1> SUFFICES ASSUME LocalOK, ChainInv, PairInv, [Next]_vars PROVE PairInv'
  OBVIOUS
<1>0. /\ SharedOK /\ KeptPairIsCurrent /\ row \in [Tokens -> Row]
      /\ \A t \in Tokens : row[t] \in Row /\ PairEnds(row[t], now)
  BY DEF ChainInv, SharedOK, PairInv
<1>1. now' \in Nat /\ now' >= now
  <2>1. now' = now \/ now' = now + 1
    BY DEF Next, SignIn, Start, PresentRefused, PresentLive, PresentRevoked, RevokeOne, SignOut,
           Step, Rotate, LoseClaim, Reread, Grace, FindChild, CheckChild, CountGrandchildren,
           RevokeStart, RevokeApply, EraseStart, EraseApply, RevokeOneApply, EraseAround,
           CleanupRows, CleanupPairs, Crash, Tick, db, vars
  <2> QED BY <1>0, <2>1 DEF SharedOK
<1>a. \A t \in Tokens :
         /\ PairEnds(row[t], now') /\ PairEnds(ErasedKept(row[t]), now')
         /\ \A n : n = now \/ row[t].kept = NoToken => PairEnds(RevokedAt(row[t], n), now')
         /\ PairEnds([Blank EXCEPT !.st = "deleted", !.parent = row[t].parent], now')
         /\ \A u : PairEnds(NewRow(u), now')
         /\ \A c : row[t].kept = NoToken =>
              PairEnds(Sealed([row[t] EXCEPT !.st = "revoked", !.revokedAt = now], c), now')
  BY <1>0, <1>1, PairsOfRows
<1>b. \A t \in Tokens : row[t].st # "revoked" => row[t].kept = NoToken
  BY <1>0, LiveKeepsNothing
<1>c. \A p \in Procs : pc[p] \in OnToken => tok[p] \in Tokens
  BY DEF LocalOK
<1> SUFFICES ASSUME NEW t \in Tokens PROVE PairEnds(row'[t], now')
  BY DEF PairInv
<1>2. CASE row' = row
  BY <1>a, <1>2
<1>3. ASSUME NEW u \in Tokens, SignIn(u) PROVE PairEnds(row'[t], now')
  <2>1. row'[t] = IF t = u THEN NewRow(NoToken) ELSE row[t]
    BY <1>0, <1>3 DEF SignIn
  <2> QED BY <1>a, <2>1
<1>4. ASSUME NEW p \in Procs, NEW c \in Tokens, Rotate(p, c) PROVE PairEnds(row'[t], now')
  <2>1. row' = Claimed(tok[p], c) /\ row[tok[p]].st = "live"
    BY <1>4 DEF Rotate
  <2>2. CASE t = tok[p]
    <3>1. row'[t] = Sealed([row[t] EXCEPT !.st = "revoked", !.revokedAt = now], c)
      BY <2>1, <2>2 DEF Claimed
    <3>2. row[t].kept = NoToken
      BY <1>b, <2>1, <2>2
    <3> QED BY <1>a, <3>1, <3>2
  <2>3. CASE t # tok[p]
    <3>1. row'[t] \in {NewRow(tok[p]), ErasedKept(row[t]), row[t]}
      BY <2>1, <2>3 DEF Claimed
    <3> QED BY <1>a, <3>1
  <2> QED BY <2>2, <2>3
<1>5. ASSUME NEW p \in Procs, Grace(p) PROVE PairEnds(row'[t], now')
  <2>1. row'[t] \in {row[t], ErasedKept(row[t])}
    BY <1>0, <1>5 DEF Grace
  <2> QED BY <1>a, <2>1
<1>6. ASSUME NEW p \in Procs, RevokeApply(p) PROVE PairEnds(row'[t], now')
  <2>1. row'[t] = IF t \in targets[p] /\ row[t].st = "live" THEN RevokedAt(row[t], at[p]) ELSE row[t]
    BY <1>6 DEF RevokeApply
  <2> QED BY <1>a, <1>b, <2>1
<1>7. ASSUME NEW p \in Procs, EraseApply(p) \/ EraseAround(p) PROVE PairEnds(row'[t], now')
  <2>1. row'[t] \in {row[t], ErasedKept(row[t])}
    BY <1>7 DEF EraseApply, EraseAround
  <2> QED BY <1>a, <2>1
<1>8. ASSUME NEW p \in Procs, RevokeOneApply(p) PROVE PairEnds(row'[t], now')
  <2>1. row'[t] \in {row[t], RevokedAt(row[t], now)}
    BY <1>0, <1>8 DEF RevokeOneApply
  <2> QED BY <1>a, <2>1
<1>9. ASSUME CleanupRows PROVE PairEnds(row'[t], now')
  <2>1. row'[t] \in {row[t], [Blank EXCEPT !.st = "deleted", !.parent = row[t].parent]}
    BY <1>9 DEF CleanupRows
  <2> QED BY <1>a, <2>1
<1>10. ASSUME CleanupPairs PROVE PairEnds(row'[t], now')
  <2>1. row'[t] \in {row[t], ErasedKept(row[t])}
    BY <1>10 DEF CleanupPairs
  <2> QED BY <1>a, <2>1
<1>11. ASSUME NEW p \in Procs, Start(p) \/ Crash(p) PROVE row' = row
  BY <1>11 DEF Start, PresentRefused, PresentLive, PresentRevoked, RevokeOne, SignOut, Crash, db
<1>12. ASSUME NEW p \in Procs, Step(p) PROVE PairEnds(row'[t], now')
  BY <1>2, <1>4, <1>5, <1>6, <1>7, <1>8, <1>12
  DEF Step, LoseClaim, Reread, FindChild, CheckChild, CountGrandchildren, RevokeStart, EraseStart, db
<1>13. CASE Tick \/ UNCHANGED vars
  BY <1>2, <1>13 DEF Tick, vars
<1> QED BY <1>2, <1>3, <1>9, <1>10, <1>11, <1>12, <1>13 DEF Next

\* A pair is kept no longer than the window after its token was revoked, and the date by
\* which it goes is there for the cleanup to find (refresh-grace.ts:18-20 "for the window
\* and no longer").
PairsHaveAnEnd ==
  \A t \in Tokens : row[t].kept # NoToken =>
    row[t].keptUntil # 0 /\ row[t].keptUntil <= row[t].revokedAt + Window

\* Whatever is rotated, revoked, revoked once more or erased meanwhile.
THEOREM KeptPairsHaveAnEnd == Spec => []PairsHaveAnEnd
<1>1. Init => PairInv
  BY DEF Init, PairInv, PairEnds, Blank
<1>2. PairInv => PairsHaveAnEnd
  BY DEF PairInv, PairEnds, PairsHaveAnEnd
<1> QED BY <1>1, <1>2, PairNext, ChainAlways, PTL DEF Spec

\* The cleanup leaves no pair whose window was over when it began.
SweepIsThorough ==
  [][cleaning # 0 /\ cleaning' = 0 =>
       \A t \in Tokens : row'[t].kept # NoToken => row'[t].keptUntil >= cleaning]_vars

\* With the cron running every hour that is the end of every pair (eraseExpiredReplays);
\* that the cron does run is the fairness KeptPairsGo assumes.
THEOREM SweepsAreThorough == Spec => SweepIsThorough
<1>1. ASSUME LocalOK, ChainInv, PairsHaveAnEnd, [Next]_vars, cleaning # 0, cleaning' = 0,
             NEW t \in Tokens, row'[t].kept # NoToken
      PROVE  row'[t].keptUntil >= cleaning
  <2>1. CleanupPairs
    BY <1>1 DEF Next, SignIn, Start, PresentRefused, PresentLive, PresentRevoked, RevokeOne, SignOut,
           Step, Rotate, LoseClaim, Reread, Grace, FindChild, CheckChild, CountGrandchildren,
           RevokeStart, RevokeApply, EraseStart, EraseApply, RevokeOneApply, EraseAround,
           CleanupRows, Crash, Tick, vars
  <2>2. row[t] \in Row /\ cleaning \in Nat
    BY <1>1 DEF ChainInv, SharedOK, Time0, Time
  <2>3. row[t].keptUntil \in Nat
    BY <2>2, ConstAssumption DEF Row, Time0, Time
  <2>4. ErasedKept(row[t]).kept = NoToken
    BY <2>2 DEF ErasedKept, Row
  <2>5. row'[t] = row[t] /\ ~(row[t].keptUntil # 0 /\ row[t].keptUntil < cleaning)
    BY <1>1, <2>1, <2>4 DEF CleanupPairs
  <2>6. row[t].keptUntil # 0
    BY <1>1, <2>5 DEF PairsHaveAnEnd
  <2> QED BY <2>2, <2>3, <2>5, <2>6
<1>2. LocalOK /\ ChainInv /\ PairsHaveAnEnd /\ [Next]_vars
        => [cleaning # 0 /\ cleaning' = 0 =>
              \A t \in Tokens : row'[t].kept # NoToken => row'[t].keptUntil >= cleaning]_vars
  BY <1>1
<1> QED BY <1>2, KeptPairsHaveAnEnd, ChainAlways, PTL DEF Spec, SweepIsThorough

-----------------------------------------------------------------------------
(* A request's own steps *)

\* How far a request has come: the labels in the order its handler passes them.
Rank == [l \in PCs |->
  CASE l = "idle" -> 0       [] l = "claim" -> 1      [] l = "reread" -> 2
    [] l = "grace" -> 3      [] l = "findChild" -> 4  [] l = "checkChild" -> 5
    [] l = "grandchild" -> 6 [] l = "revoke" -> 7     [] l = "revoking" -> 8
    [] l = "erase" -> 9      [] l = "erasing" -> 10
    [] l = "revokeOne" -> 1  [] l = "eraseAround" -> 2]

\* Each step of a request answers it or takes it further along its handler: it never goes
\* back to a statement it has run, whatever the others do to the rows in between
\* (refresh-grant.ts:118: the loser of a race re-reads and does not claim again).
AlwaysForward ==
  [][\A p \in Procs : Step(p) => pc'[p] = "idle" \/ Rank[pc[p]] < Rank[pc'[p]]]_vars

\* So a request is answered within ten of its own steps, whatever it loses to.
THEOREM RequestsOnlyAdvance == Spec => AlwaysForward
<1>1. /\ Rank["claim"] = 1 /\ Rank["reread"] = 2 /\ Rank["grace"] = 3
      /\ Rank["findChild"] = 4 /\ Rank["checkChild"] = 5
  BY DEF Rank, PCs
<1>2. /\ Rank["grandchild"] = 6 /\ Rank["revoke"] = 7 /\ Rank["revoking"] = 8
      /\ Rank["erase"] = 9 /\ Rank["erasing"] = 10
  BY DEF Rank, PCs
<1>3. Rank["revokeOne"] = 1 /\ Rank["eraseAround"] = 2
  BY DEF Rank, PCs
<1>4. ASSUME TypeOK, NEW p \in Procs, Step(p)
      PROVE  pc'[p] = "idle" \/ Rank[pc[p]] < Rank[pc'[p]]
  <2>1. pc \in [Procs -> PCs]
    BY <1>4 DEF TypeOK
  <2>2. ASSUME NEW l, Goto(p, l) PROVE pc'[p] = l
    BY <2>1, <2>2 DEF Goto
  <2>3. ASSUME NEW t, Finish(p, t) PROVE pc'[p] = "idle"
    BY <2>1, <2>3 DEF Finish
  <2>4. ASSUME NoGrace(p) PROVE pc'[p] \in {"idle", "revoke"}
    BY <2>2, <2>3, <2>4 DEF NoGrace
  <2>5. CASE \E c \in Tokens : Rotate(p, c)
    BY <2>3, <2>5 DEF Rotate
  <2>6. CASE LoseClaim(p)
    BY <1>1, <2>2, <2>6 DEF LoseClaim
  <2>7. CASE Reread(p)
    <3>1. pc[p] = "reread" /\ pc'[p] \in {"idle", "grace"}
      BY <2>2, <2>3, <2>7 DEF Reread
    <3> QED BY <1>1, <3>1
  <2>8. CASE Grace(p)
    <3>1. pc[p] = "grace" /\ pc'[p] \in {"idle", "findChild", "revoke"}
      BY <2>2, <2>4, <2>8 DEF Grace
    <3> QED BY <1>1, <1>2, <3>1
  <2>9. CASE FindChild(p)
    <3>1. pc[p] = "findChild" /\ pc'[p] \in {"idle", "checkChild", "revoke"}
      BY <2>2, <2>4, <2>9 DEF FindChild
    <3> QED BY <1>1, <1>2, <3>1
  <2>10. CASE CheckChild(p)
    <3>1. pc[p] = "checkChild" /\ pc'[p] \in {"idle", "grandchild", "revoke"}
      BY <2>2, <2>3, <2>4, <2>10 DEF CheckChild
    <3> QED BY <1>1, <1>2, <3>1
  <2>11. CASE CountGrandchildren(p)
    <3>1. pc[p] = "grandchild" /\ pc'[p] \in {"idle", "revoke"}
      BY <2>3, <2>4, <2>11 DEF CountGrandchildren
    <3> QED BY <1>2, <3>1
  <2>12. CASE RevokeStart(p) \/ RevokeApply(p) \/ EraseStart(p)
    <3>1. \/ pc[p] = "revoke" /\ pc'[p] = "revoking"
          \/ pc[p] = "revoking" /\ pc'[p] = "erase"
          \/ pc[p] = "erase" /\ pc'[p] = "erasing"
      BY <2>2, <2>12 DEF RevokeStart, RevokeApply, EraseStart
    <3> QED BY <1>2, <3>1
  <2>13. CASE EraseApply(p) \/ EraseAround(p)
    BY <2>3, <2>13 DEF EraseApply, EraseAround
  <2>14. CASE RevokeOneApply(p)
    <3>1. pc[p] = "revokeOne" /\ pc'[p] = "eraseAround"
      BY <2>2, <2>14 DEF RevokeOneApply
    <3> QED BY <1>3, <3>1
  <2> QED BY <1>4, <2>5, <2>6, <2>7, <2>8, <2>9, <2>10, <2>11, <2>12, <2>13, <2>14 DEF Step
<1>5. TypeOK => [\A p \in Procs : Step(p) =>
                   pc'[p] = "idle" \/ Rank[pc[p]] < Rank[pc'[p]]]_vars
  BY <1>4
<1> QED BY <1>5, TypeCorrect, PTL DEF AlwaysForward
=============================================================================
