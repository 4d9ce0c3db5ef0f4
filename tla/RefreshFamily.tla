--------------------------- MODULE RefreshFamily ---------------------------
(***************************************************************************)
(* The refresh tokens of one user at one client: rotation, the reuse grace,*)
(* theft detection, the revokes and the hourly cleanup                     *)
(* (src/oauth/refresh-grant.ts, refresh-grace.ts and their callers).       *)
(*                                                                         *)
(* A step is one database statement (or one committed transaction) with    *)
(* the code up to the next await.  Postgres runs at READ COMMITTED: an     *)
(* UPDATE picks its rows from the snapshot taken when it starts, waits for *)
(* rows other transactions hold, and re-evaluates its WHERE on what they   *)
(* committed; a row inserted meanwhile is not in its snapshot.  A family   *)
(* UPDATE is therefore two steps, snapshot and application; an UPDATE by   *)
(* id is one.                                                              *)
(***************************************************************************)
EXTENDS Integers, FiniteSets

CONSTANTS Tokens,     \* ids of RefreshToken rows
          Procs,      \* concurrent requests
          NoToken,    \* a null reference to a row
          Window,     \* graceWindowMs, in ticks
          Life,       \* lifetime of a refresh token, in ticks
          GraceOn,    \* REFRESH_REUSE_GRACE > 0 and FIELD_ENCRYPTION_KEY set
          MaxTime,    \* bound of the clock
          MaxSignIns  \* bound on tokens issued without a rotation

ASSUME ConstAssumption ==
  /\ NoToken \notin Tokens
  /\ Window \in Nat /\ Life \in Nat /\ MaxSignIns \in Nat
  /\ MaxTime \in Nat \ {0}
  /\ GraceOn \in BOOLEAN

VARIABLES
  row,      \* the table: one record per id
  now,      \* the clock
  signIns,  \* tokens issued without a rotation so far
  pc,       \* where each request stands
  op,       \* the operation it runs
  tok,      \* the token it was given
  seen,     \* its last read of that token's row
  at,       \* its own `now`
  child,    \* childState: the child it found
  targets,  \* snapshot of the family UPDATE it runs
  reply,    \* its last answer: the child of the pair it returned, if any
  cleaning, \* cleanupExpired's `now` between its statements, 0 when idle
  dead,     \* history: tokens already dead when the request began
  cut       \* history: a token was ended by something other than a rotation

db    == <<row, now, signIns>>
local == <<pc, op, tok, seen, at, child, targets, reply>>
vars  == <<row, now, signIns, pc, op, tok, seen, at, child, targets, reply,
           cleaning, dead, cut>>

Token0 == Tokens \cup {NoToken}
Time   == 1..(MaxTime + Life + Window)
Time0  == {0} \cup Time        \* 0 is SQL NULL

Row == [st : {"none", "live", "revoked", "deleted"}, parent : Token0,
        revokedAt : Time0, expiresAt : Time0, kept : Token0, keptUntil : Time0]

Blank == [st |-> "none", parent |-> NoToken, revokedAt |-> 0, expiresAt |-> 0,
          kept |-> NoToken, keptUntil |-> 0]

PCs == {"idle", "claim", "reread", "grace", "findChild", "checkChild",
        "grandchild", "revoke", "revoking", "erase", "erasing",
        "revokeOne", "eraseAround"}
Ops == {"none", "rotate", "replay", "signOut", "revokeToken", "revokeSession"}

Exists(t) == row[t].st \in {"live", "revoked"}
Live      == {t \in Tokens : row[t].st = "live"}
Children(t) == {c \in Tokens : Exists(c) /\ row[c].parent = t}

Init ==
  /\ row = [t \in Tokens |-> Blank]
  /\ now = 1
  /\ signIns = 0
  /\ pc = [p \in Procs |-> "idle"]
  /\ op = [p \in Procs |-> "none"]
  /\ tok = [p \in Procs |-> NoToken]
  /\ seen = [p \in Procs |-> Blank]
  /\ at = [p \in Procs |-> 0]
  /\ child = [p \in Procs |-> NoToken]
  /\ targets = [p \in Procs |-> {}]
  /\ reply = [p \in Procs |-> NoToken]
  /\ cleaning = 0
  /\ dead = [p \in Procs |-> {}]
  /\ cut = FALSE

-----------------------------------------------------------------------------
(* Requests *)

\* A request is answered, with the pair of child t or an error (NoToken), and
\* forgets what it read.
Finish(p, t) ==
  /\ pc' = [pc EXCEPT ![p] = "idle"]
  /\ op' = [op EXCEPT ![p] = "none"]
  /\ tok' = [tok EXCEPT ![p] = NoToken]
  /\ seen' = [seen EXCEPT ![p] = Blank]
  /\ at' = [at EXCEPT ![p] = 0]
  /\ child' = [child EXCEPT ![p] = NoToken]
  /\ targets' = [targets EXCEPT ![p] = {}]
  /\ reply' = [reply EXCEPT ![p] = t]
  /\ dead' = [dead EXCEPT ![p] = {}]

\* A request begins operation o on token t, at label l; what it read of the
\* row is kept when the code uses it later.
Begin(p, o, t, l) ==
  /\ pc[p] = "idle"
  /\ pc' = [pc EXCEPT ![p] = l]
  /\ op' = [op EXCEPT ![p] = o]
  /\ tok' = [tok EXCEPT ![p] = t]
  /\ seen' = [seen EXCEPT ![p] = IF l = "grace" THEN row[t] ELSE Blank]
  /\ dead' = [dead EXCEPT ![p] = IF l \in {"claim", "grace"}
                                 THEN {u \in Tokens : row[u].st \in {"revoked", "deleted"}}
                                 ELSE {}]
  /\ reply' = [reply EXCEPT ![p] = NoToken]
  /\ UNCHANGED <<at, child, targets>>

\* A request moves on; it keeps what it has read.
Goto(p, l) ==
  /\ pc' = [pc EXCEPT ![p] = l]
  /\ UNCHANGED <<op, tok, reply, dead>>

\* Mutant: the lifetime in the wrong unit.
NewRowScaled(parent) == [Blank EXCEPT !.st = "live", !.parent = parent,
                                      !.expiresAt = now + 1000 * Life]

\* A new row: rotatedFrom `parent`, seven days to live.
NewRow(parent) == [Blank EXCEPT !.st = "live", !.parent = parent,
                                !.expiresAt = now + Life]

\* Bound: ids never run out under a rotation that has begun.
SpareId == Cardinality({t \in Tokens : row[t].st = "none"})
             > Cardinality({p \in Procs : pc[p] = "claim"})

\* persistRefreshToken without a gate: a sign-in (a code, a device) ends here.
SignIn(t) ==
  /\ signIns < MaxSignIns /\ SpareId
  /\ row[t].st = "none"
  /\ row' = [row EXCEPT ![t] = NewRow(NoToken)]
  /\ signIns' = signIns + 1
  /\ UNCHANGED <<now, local, cleaning, dead, cut>>

\* refresh: unknown token, another client's, expired, or out of its bounds.
PresentRefused(p, t) ==
  /\ pc[p] = "idle"
  /\ row[t].st # "none"
  /\ Finish(p, NoToken)
  /\ UNCHANGED <<db, cleaning, cut>>

\* refresh: a live, unexpired token within its bounds goes on to the claim.
PresentLive(p, t) ==
  /\ row[t].st = "live" /\ row[t].expiresAt >= now /\ SpareId
  /\ Begin(p, "rotate", t, "claim")
  /\ UNCHANGED <<db, cleaning, cut>>

\* refresh: a revoked token, expired or not, goes to `replayed`.
PresentRevoked(p, t) ==
  /\ row[t].st = "revoked"
  /\ Begin(p, "replay", t, "grace")
  /\ UNCHANGED <<db, cleaning, cut>>

\* What sealReplay adds to the claimed row: the pair, named by its child.
Sealed(r, c) == IF GraceOn
                THEN [r EXCEPT !.kept = c, !.keptUntil = now + Window]
                ELSE r

ErasedKept(r) == [r EXCEPT !.kept = NoToken, !.keptUntil = 0]

\* Mutant: the pair kept for the claimed token stays on its parent.
ClaimedStale(t, c) ==
  [u \in Tokens |->
     IF u = t THEN Sealed([row[t] EXCEPT !.st = "revoked", !.revokedAt = now], c)
     ELSE IF u = c THEN NewRow(t)
     ELSE row[u]]

\* Mutant: the child takes over its grandparent's link.
ClaimedRelinked(t, c) ==
  [u \in Tokens |->
     IF u = t THEN Sealed([row[t] EXCEPT !.st = "revoked", !.revokedAt = now], c)
     ELSE IF u = c THEN NewRow(row[t].parent)
     ELSE row[u]]

\* Mutant: the child is inserted and the presented token stays live.
ClaimedUnspent(t, c) ==
  [u \in Tokens |-> IF u = c THEN NewRow(t) ELSE row[u]]

\* The transaction of claimRotation and the insert of the child c.
Claimed(t, c) ==
  [u \in Tokens |->
     IF u = t THEN Sealed([row[t] EXCEPT !.st = "revoked", !.revokedAt = now], c)
     ELSE IF u = c THEN NewRow(t)
     ELSE IF u = row[t].parent THEN ErasedKept(row[u])
     ELSE row[u]]

\* Mutant: the claim trusts the row read before it.
RotateUnclaimed(p, c) ==
  /\ pc[p] = "claim"
  /\ row[c].st = "none"
  /\ row' = Claimed(tok[p], c)
  /\ Finish(p, c)
  /\ UNCHANGED <<now, signIns, cleaning, cut>>

Rotate(p, c) ==
  /\ pc[p] = "claim"
  /\ row[tok[p]].st = "live"
  /\ row[c].st = "none"
  /\ row' = Claimed(tok[p], c)
  /\ Finish(p, c)
  /\ UNCHANGED <<now, signIns, cleaning, cut>>

\* The claim matches no row: RefreshGateRefused aborts the transaction.
LoseClaim(p) ==
  /\ pc[p] = "claim"
  /\ row[tok[p]].st # "live"
  /\ Goto(p, "reread")
  /\ UNCHANGED <<db, seen, at, child, targets, cleaning, cut>>

Reread(p) ==
  /\ pc[p] = "reread"
  /\ \/ /\ Exists(tok[p])
        /\ Goto(p, "grace")
        /\ seen' = [seen EXCEPT ![p] = row[tok[p]]]
        /\ UNCHANGED <<at, child, targets>>
     \/ /\ ~Exists(tok[p])
        /\ Finish(p, NoToken)
  /\ UNCHANGED <<db, cleaning, cut>>

-----------------------------------------------------------------------------
(* The reuse grace *)

\* withinGrace.
WithinGrace(r, n) == /\ GraceOn /\ Window > 0
                     /\ r.revokedAt # 0 /\ r.expiresAt > n
                     /\ n - r.revokedAt <= Window

\* openReplay: the kept pair, while its own window lasts.
Opens(r, n) == r.kept # NoToken /\ r.keptUntil > n

\* The outcome `none`: a refusal for the loser of a claim, theft for a replay.
NoGrace(p) ==
  \/ op[p] = "rotate" /\ Finish(p, NoToken)
  \/ op[p] = "replay" /\ Goto(p, "revoke") /\ UNCHANGED <<seen, at, child, targets>>

\* graceReuse up to childState: a pair read after its window is erased first.
Grace(p) ==
  /\ pc[p] = "grace"
  /\ row' = IF seen[p].kept # NoToken /\ seen[p].keptUntil <= now
            THEN [row EXCEPT ![tok[p]] = ErasedKept(@)] ELSE row
  /\ \/ /\ WithinGrace(seen[p], now)
        /\ Goto(p, "findChild")
        /\ at' = [at EXCEPT ![p] = now]
        /\ UNCHANGED <<seen, child, targets>>
     \/ ~WithinGrace(seen[p], now) /\ NoGrace(p)
  /\ UNCHANGED <<now, signIns, cleaning, cut>>

\* childState: the row rotated from this one.
FindChild(p) ==
  /\ pc[p] = "findChild"
  /\ \/ \E c \in Children(tok[p]) :
          /\ Goto(p, "checkChild")
          /\ child' = [child EXCEPT ![p] = c]
          /\ UNCHANGED <<seen, at, targets>>
     \/ Children(tok[p]) = {} /\ NoGrace(p)
  /\ UNCHANGED <<db, cleaning, cut>>

\* Mutant: any child will do.
ChildAny(p) == Exists(child[p])

\* childState's conditional update, and openReplay when it found the child live.
ChildLive(p) == row[child[p]].st = "live" /\ row[child[p]].expiresAt > at[p]

CheckChild(p) ==
  /\ pc[p] = "checkChild"
  /\ \/ ChildLive(p) /\ Opens(seen[p], at[p]) /\ Finish(p, seen[p].kept)
     \/ ChildLive(p) /\ ~Opens(seen[p], at[p]) /\ NoGrace(p)
     \/ ~ChildLive(p) /\ Goto(p, "grandchild") /\ UNCHANGED <<seen, at, child, targets>>
  /\ UNCHANGED <<db, cleaning, cut>>

\* Mutant: a child that is not live is a stolen one.
CountNone(p) ==
  /\ pc[p] = "grandchild"
  /\ NoGrace(p)
  /\ UNCHANGED <<db, cleaning, cut>>

\* A child that rotated itself is an honest latecomer: refused, nothing revoked.
CountGrandchildren(p) ==
  /\ pc[p] = "grandchild"
  /\ \/ Children(child[p]) # {} /\ Finish(p, NoToken)
     \/ Children(child[p]) = {} /\ NoGrace(p)
  /\ UNCHANGED <<db, cleaning, cut>>

-----------------------------------------------------------------------------
(* Revokes *)

\* Sign-out everywhere, password change, disconnect, code replay: the family's
\* live rows, with `keep` spared ("sign out everywhere else").
SignOut(p, keep) ==
  /\ Begin(p, "signOut", keep, "revoke")
  /\ UNCHANGED <<db, cleaning, cut>>

\* First statement of a family revoke: its snapshot...
RevokeStart(p) ==
  /\ pc[p] = "revoke"
  /\ Goto(p, "revoking")
  /\ targets' = [targets EXCEPT ![p] =
                   IF op[p] = "signOut" THEN Live \ {tok[p]} ELSE Live]
  /\ at' = [at EXCEPT ![p] = now]
  /\ UNCHANGED <<db, seen, child, cleaning, cut>>

RevokedAt(r, n) == [r EXCEPT !.st = "revoked", !.revokedAt = n]

\* ...and its application to those still live.
RevokeApply(p) ==
  /\ pc[p] = "revoking"
  /\ row' = [t \in Tokens |-> IF t \in targets[p] /\ row[t].st = "live"
                              THEN RevokedAt(row[t], at[p]) ELSE row[t]]
  /\ cut' = (cut \/ \E t \in targets[p] : row[t].st = "live")
  /\ Goto(p, "erase")
  /\ UNCHANGED <<now, signIns, seen, at, child, targets, cleaning>>

\* Second statement: the pairs kept on the family's rows (keptPairsIn).
EraseStart(p) ==
  /\ pc[p] = "erase"
  /\ Goto(p, "erasing")
  /\ targets' = [targets EXCEPT ![p] = {t \in Tokens : row[t].kept # NoToken}]
  /\ UNCHANGED <<db, seen, at, child, cleaning, cut>>

EraseApply(p) ==
  /\ pc[p] = "erasing"
  /\ row' = [t \in Tokens |-> IF t \in targets[p] THEN ErasedKept(row[t]) ELSE row[t]]
  /\ cut' = (cut \/ \E t \in targets[p] : row[t].kept # NoToken)
  /\ Finish(p, NoToken)
  /\ UNCHANGED <<now, signIns, cleaning>>

\* revokeToken (RFC 7009) and revokeSession read the row, then update by id.
RevokeOne(p, t, o) ==
  /\ o \in {"revokeToken", "revokeSession"}
  /\ Exists(t)
  /\ Begin(p, o, t, "revokeOne")
  /\ UNCHANGED <<db, cleaning, cut>>

\* revokeSession has no `revoked: false` filter: it re-stamps a revoked row.
RevokeOneApply(p) ==
  /\ pc[p] = "revokeOne"
  /\ LET hit == \/ row[tok[p]].st = "live"
                \/ op[p] = "revokeSession" /\ Exists(tok[p])
     IN  /\ row' = IF hit THEN [row EXCEPT ![tok[p]] = RevokedAt(@, now)] ELSE row
         /\ cut' = (cut \/ hit)
  /\ Goto(p, "eraseAround")
  /\ UNCHANGED <<now, signIns, seen, at, child, targets, cleaning>>

\* keptPairsAround: the pair on the row itself and the one on its parent.
EraseAround(p) ==
  /\ pc[p] = "eraseAround"
  /\ LET ids == {tok[p], row[tok[p]].parent}   \* rotatedFrom never changes
     IN  /\ row' = [t \in Tokens |-> IF t \in ids THEN ErasedKept(row[t]) ELSE row[t]]
         /\ cut' = (cut \/ \E t \in ids \cap Tokens : row[t].kept # NoToken)
  /\ Finish(p, NoToken)
  /\ UNCHANGED <<now, signIns, cleaning>>

-----------------------------------------------------------------------------
(* Cleanup, crashes and time *)

\* cleanupExpired: expired rows go, then pairs whose window has passed.
CleanupRows ==
  /\ cleaning = 0
  /\ cleaning' = now
  /\ row' = [t \in Tokens |-> IF Exists(t) /\ row[t].expiresAt < now
                              THEN [Blank EXCEPT !.st = "deleted", !.parent = row[t].parent]
                              ELSE row[t]]
  /\ cut' = (cut \/ \E t \in Tokens : Exists(t) /\ row[t].expiresAt < now)
  /\ UNCHANGED <<now, signIns, local, dead>>

\* Mutant: the cleanup waits for the token's own expiry.
CleanupPairsLate ==
  /\ cleaning # 0
  /\ cleaning' = 0
  /\ row' = [t \in Tokens |-> IF row[t].keptUntil # 0 /\ row[t].expiresAt + Life < cleaning
                              THEN ErasedKept(row[t]) ELSE row[t]]
  /\ UNCHANGED <<now, signIns, local, dead, cut>>

\* eraseExpiredReplays, by the cleanup's own `now`.
CleanupPairs ==
  /\ cleaning # 0
  /\ cleaning' = 0
  /\ row' = [t \in Tokens |-> IF row[t].keptUntil # 0 /\ row[t].keptUntil < cleaning
                              THEN ErasedKept(row[t]) ELSE row[t]]
  /\ UNCHANGED <<now, signIns, local, dead, cut>>

\* The process dies between two statements: the rest of the request never runs.
Crash(p) ==
  /\ pc[p] # "idle"
  /\ Finish(p, NoToken)
  /\ UNCHANGED <<db, cleaning, cut>>

Tick ==
  /\ now < MaxTime
  /\ now' = now + 1
  /\ UNCHANGED <<row, signIns, local, cleaning, dead, cut>>

-----------------------------------------------------------------------------
\* What a request does once it has begun.
Step(p) ==
  \/ \E c \in Tokens : Rotate(p, c)
  \/ LoseClaim(p) \/ Reread(p)
  \/ Grace(p) \/ FindChild(p) \/ CheckChild(p) \/ CountGrandchildren(p)
  \/ RevokeStart(p) \/ RevokeApply(p) \/ EraseStart(p) \/ EraseApply(p)
  \/ RevokeOneApply(p) \/ EraseAround(p)

Start(p) ==
  \/ \E t \in Tokens : \/ PresentRefused(p, t) \/ PresentLive(p, t) \/ PresentRevoked(p, t)
                       \/ \E o \in Ops : RevokeOne(p, t, o)
  \/ \E keep \in Token0 : SignOut(p, keep)

Next ==
  \/ \E t \in Tokens : SignIn(t)
  \/ \E p \in Procs : Start(p) \/ Step(p) \/ Crash(p)
  \/ CleanupRows \/ CleanupPairs
  \/ Tick

Spec == Init /\ [][Next]_vars

\* Node runs what it began unless it crashes; the cron fires every hour; time passes.
Fairness ==
  /\ \A p \in Procs : WF_vars(Step(p))
  /\ WF_vars(CleanupRows) /\ WF_vars(CleanupPairs) /\ WF_vars(Tick)

FairSpec == Spec /\ Fairness

-----------------------------------------------------------------------------
(* Properties *)

TypeOK ==
  /\ row \in [Tokens -> Row]
  /\ now \in 1..MaxTime
  /\ signIns \in 0..MaxSignIns
  /\ pc \in [Procs -> PCs]
  /\ op \in [Procs -> Ops]
  /\ tok \in [Procs -> Token0]
  /\ seen \in [Procs -> Row]
  /\ at \in [Procs -> Time0]
  /\ child \in [Procs -> Token0]
  /\ targets \in [Procs -> SUBSET Tokens]
  /\ reply \in [Procs -> Token0]
  /\ cleaning \in Time0
  /\ dead \in [Procs -> SUBSET Tokens]
  /\ cut \in BOOLEAN

\* Rotation is linear: a token is rotated at most once, and only a token that
\* is spent has a successor, so a chain never has two live tokens
\* (refresh-grace.ts:18 "One chain only", whatever races, replays or crashes).
OneChain ==
  \A c \in Tokens : row[c].parent # NoToken =>
    /\ row[row[c].parent].st \in {"revoked", "deleted"}
    /\ \A d \in Tokens : row[d].parent = row[c].parent => d = c

\* A kept pair sits on a rotated row, is that row's own child, and is gone once
\* the child has itself rotated: no row keeps a pair that was superseded
\* (claimRotation's second update, refresh-grace.ts:199-206).
KeptPairIsCurrent ==
  \A t \in Tokens : row[t].kept # NoToken =>
    /\ row[t].st = "revoked"
    /\ row[row[t].kept].parent = t
    /\ Children(row[t].kept) = {}

\* p answers, and its answer is a pair.
ReturnsPair(p) == pc[p] # "idle" /\ pc'[p] = "idle" /\ reply'[p] # NoToken

\* Whoever answers with a pair answers with the presented token's own
\* rotation: winner, loser and replay of one token get the same child.
PairIsTheRotationsOwn ==
  [][\A p \in Procs : ReturnsPair(p) => row'[reply'[p]].parent = tok[p]]_vars

\* No answer revives what was dead when the request came in: a revoke that
\* was applied first wins over the grace (refresh-grant.ts:183-187).
ReplayNeverRevives ==
  [][\A p \in Procs : ReturnsPair(p) => reply'[p] \notin dead[p]]_vars

\* Concurrent callers sharing a token never trip theft detection on each
\* other: inside the window a replay reaches the theft branch only if some
\* revoke, sign-out or expiry also ended a token (refresh-grace.ts:8-13).
Younger(p) ==
  LET n == IF pc[p] = "grace" THEN now ELSE at[p]
  IN  seen[p].expiresAt > n /\ n - seen[p].revokedAt < Window

HonestReplaySpared ==
  [][\A p \in Procs :
       pc[p] # "revoke" /\ pc'[p] = "revoke" /\ op[p] = "replay" /\ GraceOn /\ Younger(p)
       => cut]_vars

\* Sessions never multiply: there are at most as many live tokens as sign-ins,
\* however many replays and races there were (refresh-grace.ts:18-19 "no
\* replay, however many, adds a session").
NoExtraSessions == Cardinality(Live) <= signIns

\* The table implements the ledger: what a rotation, a replay, a revoke and
\* the cleanup do to the rows is an exchange, nothing, or an end of sessions.
Spent  == {t \in Tokens : row[t].st \in {"revoked", "deleted"}}
Ledger == INSTANCE SessionLedger WITH live <- Live, spent <- Spent
LedgerSpec == Ledger!Spec

\* A kept pair outlives neither its window nor the cleanup after it
\* (refresh-grace.ts:18-20 "for the window and no longer").
KeptPairsGo ==
  \A t \in Tokens :
    (row[t].kept # NoToken /\ row[t].keptUntil < MaxTime) ~> row[t].kept = NoToken

\* refresh-grant.ts:73-76: a theft verdict revokes "the entire refresh-token
\* family": when its revoke is done, nothing it was to end has a live heir.
VerdictEndsTheFamily ==
  \A p \in Procs : pc[p] = "erase" /\ op[p] = "replay" =>
    \A t \in Live : row[t].parent \notin targets[p]
=============================================================================
