-------------------------- MODULE DeviceFlow_proofs --------------------------
(***************************************************************************)
(* Proofs about DeviceFlow, for any codes, people and concurrent requests. *)
(***************************************************************************)
EXTENDS DeviceFlow, TLAPS

\* What a request under way knows: its code was issued, an approver is a
\* person, an approval it read is one that was given, a row it found past its
\* time is past it still.
Knows(p) ==
  /\ req[p].code \in Codes /\ row[req[p].code].st # "none"
  /\ At(p, "decide") => req[p].op \in {"approve", "deny"}
  /\ At(p, "decide") /\ req[p].op = "approve" => req[p].user \in Users
  /\ At(p, "approve") => req[p].user \in Users
  /\ req[p].seen.st = "approved" => req[p].seen.user \in approved[req[p].code]
  /\ req[p].pc \in {"delete", "issue"} => req[p].seen.st = "approved"
  /\ At(p, "expire") => Lapsed(row[req[p].code])

RequestInv == \A p \in Procs : ~At(p, "idle") => Knows(p)

\* An approved row names who approved it; before a decision nobody has.
RowInv ==
  \A c \in Codes :
    /\ row[c].st = "approved" => row[c].user \in approved[c]
    /\ row[c].st \in {"none", "pending"} => approved[c] = {}

\* Who is paid approved; a code denied for good was and will be approved by
\* nobody.
PayInv ==
  \A c \in Codes :
    /\ paidTo[c] \subseteq approved[c]
    /\ paidTo[c] = {} => paid[c] = 0
    /\ c \in final => /\ approved[c] = {} /\ ~Approving(c)
                     /\ row[c].st \notin {"none", "pending"}

\* A row that is there has paid nothing and nobody is about to be paid for it;
\* of the polls that read one approval one gets that far, once.
OnceInv ==
  \A c \in Codes :
    /\ row[c].st # "deleted" => paid[c] = 0
    /\ \A p \in Procs : At(p, "issue") /\ req[p].code = c =>
         /\ row[c].st = "deleted" /\ paid[c] = 0
         /\ \A q \in Procs : At(q, "issue") /\ req[q].code = c => q = p

Inv == TypeOK /\ RequestInv /\ RowInv /\ PayInv /\ OnceInv

-----------------------------------------------------------------------------
(* What a step does to the request that takes it *)

Answers == {"none", "ok", "approved", "denied", "refused", "pending", "slow_down",
            "access_denied", "expired_token", "invalid_grant", "error", "crashed"}

Others(p) == \A q \in Procs \ {p} : req'[q] = req[q]

\* Request p is over; request p goes on to l.
Rests(p)   == req' \in [Procs -> Request] /\ Others(p) /\ req'[p].pc = "idle"
Goes(p, l) == /\ req' \in [Procs -> Request] /\ Others(p) /\ req'[p].pc = l
              /\ req'[p].op = req[p].op /\ req'[p].code = req[p].code
              /\ req'[p].user = req[p].user

LEMMA IdleFacts == /\ Blank \in Row /\ Blank.st = "none"
                   /\ Idle \in Request /\ Idle.pc = "idle" /\ Idle.seen = Blank
<1>1. Blank \in Row /\ Blank.st = "none"
  BY ConstAssumption DEF Blank, Row, User0
<1>2. Idle \in Request
  BY ConstAssumption DEF Blank, Row, User0, Idle, Request
<1>3. Idle.pc = "idle" /\ Idle.seen = Blank
  BY DEF Idle
<1> QED
  BY <1>1, <1>2, <1>3

LEMMA FinishRests == ASSUME TypeOK, NEW p \in Procs, NEW a \in Answers, Finish(p, a)
                     PROVE  Rests(p)
<1> DEFINE r == [Idle EXCEPT !.answer = a]
<1>1. r \in Request /\ r.pc = "idle"
  BY IdleFacts DEF Request, Answers
<1>2. req' = [req EXCEPT ![p] = r]
  BY DEF Finish
<1> HIDE DEF r
<1> QED
  BY <1>1, <1>2 DEF TypeOK, Rests, Others

LEMMA PcGoes == ASSUME TypeOK, NEW p \in Procs,
                       NEW l \in {"approve", "deny", "delete", "issue"},
                       req' = [req EXCEPT ![p].pc = l]
                PROVE  Goes(p, l) /\ req'[p].seen = req[p].seen
BY DEF TypeOK, Request, Goes, Others

LEMMA BeginGoes ==
  ASSUME TypeOK, NEW p \in Procs, NEW c \in Codes, NEW u \in User0,
         NEW o \in {"approve", "deny", "poll"}, Begin(p, o, c, u)
  PROVE  /\ req' \in [Procs -> Request] /\ Others(p)
         /\ req'[p].pc \in {"decide", "poll"} /\ req'[p].code = c /\ req'[p].user = u
         /\ req'[p].op = o /\ req'[p].seen.st = "none"
         /\ req'[p].pc = "decide" => o # "poll"
<1> DEFINE l == IF o = "poll" THEN "poll" ELSE "decide"
           r == [Idle EXCEPT !.pc = l, !.op = o, !.code = c, !.user = u]
<1>1. l \in {"decide", "poll"}
  OBVIOUS
<1>2. req' = [req EXCEPT ![p] = r]
  BY DEF Begin
<1>3. r \in Request /\ r.pc = l /\ r.code = c /\ r.user = u /\ r.op = o /\ r.seen = Blank
  <2> HIDE DEF l
  <2> QED BY <1>1, IdleFacts DEF Request
<1> HIDE DEF r
<1> QED
  BY <1>1, <1>2, <1>3, IdleFacts DEF TypeOK, Others

LEMMA DecideMoves ==
  ASSUME TypeOK, NEW p \in Procs, Decide(p), req[p].op \in {"approve", "deny"}
  PROVE  \/ Rests(p)
         \/ /\ Goes(p, req[p].op) /\ req'[p].seen = req[p].seen
            /\ row[req[p].code].st = "pending" /\ ~Lapsed(row[req[p].code])
<1>1. CASE req' = [req EXCEPT ![p].pc = req[p].op]
           /\ Decision(p, row[req[p].code]) = "update" /\ ~Lapsed(row[req[p].code])
  <2>1. row[req[p].code].st = "pending"
    BY <1>1 DEF Decision
  <2> QED BY <1>1, <2>1, PcGoes
<1>2. CASE \E a \in Answers : Finish(p, a)
  BY <1>2, FinishRests
<1> QED
  BY <1>1, <1>2 DEF Decide, Answers

LEMMA PollMoves ==
  ASSUME TypeOK, NEW p \in Procs, Poll(p), req[p].code \in Codes
  PROVE  \/ Rests(p)
         \/ \E l \in {"expire", "slow", "touch"} :
              /\ Goes(p, l) /\ req'[p].seen = row[req[p].code] /\ Exists(req[p].code)
              /\ l = "expire" <=> Lapsed(row[req[p].code])
<1>1. CASE Finish(p, "invalid_grant")
  BY <1>1, FinishRests DEF Answers
<1>2. ASSUME Exists(req[p].code), NEW l \in {"expire", "slow", "touch"},
             req' = [req EXCEPT ![p].seen = row[req[p].code], ![p].at = now, ![p].pc = l]
      PROVE  Goes(p, l) /\ req'[p].seen = row[req[p].code]
  <2> DEFINE R == row[req[p].code]
             r == [req[p] EXCEPT !.seen = R, !.at = now, !.pc = l]
  <2>1. R \in Row /\ now \in 0..MaxTime /\ req[p] \in Request
    BY DEF TypeOK
  <2>2. req' = [req EXCEPT ![p] = r]
    BY <1>2
  <2> HIDE DEF R
  <2>3. /\ r \in Request /\ r.pc = l /\ r.seen = R /\ r.op = req[p].op
        /\ r.code = req[p].code /\ r.user = req[p].user
    BY <2>1 DEF Request
  <2> HIDE DEF r
  <2>4. Goes(p, l) /\ req'[p].seen = R
    BY <2>2, <2>3 DEF TypeOK, Goes, Others
  <2> QED BY <2>4 DEF R
<1> QED
  BY <1>1, <1>2 DEF Poll

-----------------------------------------------------------------------------
(* What it does to the row of its code *)

\* The row's status becomes s; all but the status and the poll clock stay.
Marks(c, s) == \E r \in Row : /\ Exists(c) /\ row' = [row EXCEPT ![c] = r]
                              /\ r.st = s /\ r.user = row[c].user
                              /\ r.expiresAt = row[c].expiresAt

LEMMA MarkedIsRow ==
  ASSUME NEW r \in Row, NEW s \in {"approved", "denied", "expired", "deleted"}
  PROVE  LET m == [r EXCEPT !.st = s]
         IN  m \in Row /\ m.st = s /\ m.user = r.user /\ m.expiresAt = r.expiresAt
BY DEF Row

LEMMA PolledIsRow ==
  ASSUME NEW r \in Row, NEW t \in 0..MaxTime, NEW n \in Nat
  PROVE  /\ LET m == [r EXCEPT !.polledAt = t]
            IN  m \in Row /\ m.st = r.st /\ m.user = r.user /\ m.expiresAt = r.expiresAt
         /\ LET m == [r EXCEPT !.polledAt = t, !.interval = n]
            IN  m \in Row /\ m.st = r.st /\ m.user = r.user /\ m.expiresAt = r.expiresAt
BY DEF Row

LEMMA ApproveMoves ==
  ASSUME TypeOK, NEW p \in Procs, ApproveRow(p), req[p].code \in Codes, req[p].user \in Users
  PROVE  /\ Rests(p)
         /\ \/ /\ Exists(req[p].code)
               /\ \E r \in Row : /\ row' = [row EXCEPT ![req[p].code] = r]
                                 /\ r.st = "approved" /\ r.user = req[p].user
                                 /\ r.expiresAt = row[req[p].code].expiresAt
               /\ approved' = [approved EXCEPT ![req[p].code] = @ \cup {req[p].user}]
            \/ UNCHANGED <<row, approved>>
<1> DEFINE c == req[p].code
           r == [row[c] EXCEPT !.st = "approved", !.user = req[p].user]
<1>1. row[c] \in Row /\ req[p].user \in User0
  BY DEF TypeOK, User0
<1>2. r \in Row /\ r.st = "approved" /\ r.user = req[p].user /\ r.expiresAt = row[c].expiresAt
  BY <1>1 DEF Row
<1>3. row' = [row EXCEPT ![c] = r] \/ row' = row
  BY DEF ApproveRow
<1>4. Rests(p)
  BY FinishRests DEF ApproveRow, Answers
<1> QED
  BY <1>2, <1>4 DEF ApproveRow

LEMMA DenyMoves ==
  ASSUME TypeOK, NEW p \in Procs, DenyRow(p), req[p].code \in Codes
  PROVE  /\ Rests(p)
         /\ \/ /\ Marks(req[p].code, "denied")
               /\ \/ final' = final
                  \/ /\ final' = final \cup {req[p].code}
                     /\ row[req[p].code].st = "pending" /\ ~Approving(req[p].code)
            \/ UNCHANGED <<row, final>>
<1>1. Rests(p)
  BY FinishRests DEF DenyRow, Answers
<1>2. row[req[p].code] \in Row
  BY DEF TypeOK
<1> QED
  BY <1>1, <1>2, MarkedIsRow DEF DenyRow, Marks

\* UpdateRow with a row that differs in its status or its poll clock.
LEMMA UpdateMoves ==
  ASSUME TypeOK, NEW p \in Procs, NEW r \in Row, NEW a \in Answers, UpdateRow(p, r, a),
         r.user = row[req[p].code].user, r.expiresAt = row[req[p].code].expiresAt
  PROVE  Rests(p) /\ (Marks(req[p].code, r.st) \/ UNCHANGED row)
<1>1. Rests(p)
  BY FinishRests DEF UpdateRow, Answers
<1> QED
  BY <1>1 DEF UpdateRow, Marks

LEMMA ExpireMoves ==
  ASSUME TypeOK, NEW p \in Procs, MarkExpired(p), req[p].code \in Codes
  PROVE  Rests(p) /\ (Marks(req[p].code, "expired") \/ UNCHANGED row)
<1> DEFINE r == [row[req[p].code] EXCEPT !.st = "expired"]
<1>1. /\ r \in Row /\ r.st = "expired" /\ r.user = row[req[p].code].user
      /\ r.expiresAt = row[req[p].code].expiresAt
  BY MarkedIsRow DEF TypeOK
<1>2. UpdateRow(p, r, "expired_token")
  BY DEF MarkExpired
<1> HIDE DEF r
<1> QED
  BY <1>1, <1>2, UpdateMoves DEF Answers

LEMMA SlowMoves ==
  ASSUME TypeOK, NEW p \in Procs, SlowDown(p), req[p].code \in Codes
  PROVE  Rests(p) /\ (Marks(req[p].code, row[req[p].code].st) \/ UNCHANGED row)
<1> DEFINE r0 == row[req[p].code]
           n == req[p].seen.interval + Penalty
           t == req[p].at
           r == [r0 EXCEPT !.polledAt = t, !.interval = n]
<1>1. req[p].at \in 0..MaxTime /\ req[p].seen.interval + Penalty \in Nat
  <2>1. req[p] \in Request /\ req[p].seen \in Row
    BY DEF TypeOK, Request
  <2> QED BY <2>1, ConstAssumption DEF Request, Row
<1>0. row[req[p].code] \in Row
  BY DEF TypeOK
<1>2. /\ r \in Row /\ r.st = row[req[p].code].st /\ r.user = row[req[p].code].user
      /\ r.expiresAt = row[req[p].code].expiresAt
  <2>1. r0 \in Row /\ t \in 0..MaxTime /\ n \in Nat
    BY <1>0, <1>1
  <2> HIDE DEF r0, n, t
  <2>2. r \in Row /\ r.st = r0.st /\ r.user = r0.user /\ r.expiresAt = r0.expiresAt
    BY <2>1, PolledIsRow
  <2> QED BY <2>2 DEF r0, n, t
<1>3. UpdateRow(p, r, "slow_down")
  BY DEF SlowDown
<1> HIDE DEF r
<1> QED
  BY <1>2, <1>3, UpdateMoves DEF Answers

LEMMA TouchMoves ==
  ASSUME TypeOK, NEW p \in Procs, Touch(p), req[p].code \in Codes
  PROVE  /\ \/ Rests(p)
            \/ /\ Goes(p, "delete") /\ req'[p].seen = req[p].seen
               /\ req[p].seen.st = "approved" /\ Exists(req[p].code)
         /\ Marks(req[p].code, row[req[p].code].st) \/ UNCHANGED row
<1> DEFINE r == Touched(p)
<1>1. req[p].at \in 0..MaxTime /\ row[req[p].code] \in Row
  BY DEF TypeOK, Request
<1>2. /\ r \in Row /\ r.st = row[req[p].code].st /\ r.user = row[req[p].code].user
      /\ r.expiresAt = row[req[p].code].expiresAt
  BY <1>1, PolledIsRow DEF Touched
<1>3. CASE req[p].seen.st # "approved"
  <2> DEFINE a == CASE req[p].seen.st = "denied"  -> "access_denied"
                    [] req[p].seen.st = "pending" -> "pending"
                    [] OTHER                      -> "invalid_grant"
  <2>1. a \in Answers
    BY DEF Answers
  <2>2. UpdateRow(p, r, a)
    BY <1>3 DEF Touch
  <2> HIDE DEF r, a
  <2> QED BY <1>2, <2>1, <2>2, UpdateMoves
<1>4. CASE req[p].seen.st = "approved" /\ Exists(req[p].code)
  <2>1. row' = [row EXCEPT ![req[p].code] = r] /\ req' = [req EXCEPT ![p].pc = "delete"]
    BY <1>4 DEF Touch
  <2> HIDE DEF r
  <2>2. Goes(p, "delete") /\ req'[p].seen = req[p].seen
    BY <2>1, PcGoes
  <2> QED BY <1>2, <1>4, <2>1, <2>2 DEF Marks
<1>5. CASE req[p].seen.st = "approved" /\ ~Exists(req[p].code)
  BY <1>5, FinishRests DEF Touch, Answers
<1> QED
  BY <1>3, <1>4, <1>5

LEMMA DeleteMoves ==
  ASSUME TypeOK, NEW p \in Procs, DeleteRow(p), req[p].code \in Codes
  PROVE  \/ Rests(p) /\ UNCHANGED row
         \/ /\ Goes(p, "issue") /\ req'[p].seen = req[p].seen
            /\ Marks(req[p].code, "deleted")
<1>1. row[req[p].code] \in Row
  BY DEF TypeOK
<1>2. CASE Exists(req[p].code)
  BY <1>1, <1>2, MarkedIsRow, PcGoes DEF DeleteRow, Marks
<1>3. CASE ~Exists(req[p].code)
  BY <1>3, FinishRests DEF DeleteRow, Answers
<1> QED
  BY <1>2, <1>3

LEMMA IssueMoves ==
  ASSUME TypeOK, NEW p \in Procs, IssueTokens(p) PROVE Rests(p)
BY FinishRests DEF IssueTokens, Answers

LEMMA CrashMoves ==
  ASSUME TypeOK, NEW p \in Procs, Crash(p) PROVE Rests(p)
BY FinishRests DEF Crash, Answers

\* What the invariant says of a request under way, by label.
LEMMA UnderWay ==
  ASSUME Inv, NEW p \in Procs, ~At(p, "idle")
  PROVE  /\ req[p].code \in Codes /\ row[req[p].code].st # "none"
         /\ row[req[p].code] \in Row
         /\ At(p, "decide") => req[p].op \in {"approve", "deny"}
         /\ At(p, "approve") => req[p].user \in Users
BY DEF Inv, RequestInv, Knows, TypeOK

LEMMA StepIsUnderWay == ASSUME NEW p \in Procs, Step(p) \/ Crash(p) PROVE ~At(p, "idle")
BY DEF Step, Crash, Decide, ApproveRow, DenyRow, Poll, MarkExpired, SlowDown, Touch, DeleteRow,
       IssueTokens, At

\* The request a step belongs to; the others stand still.
LEMMA RequestsMove ==
  ASSUME Inv, NEW p \in Procs, Start(p) \/ Step(p) \/ Crash(p)
  PROVE  req' \in [Procs -> Request] /\ Others(p)
<1>1. CASE Start(p)
  BY <1>1, BeginGoes DEF Start, Inv, User0
<1>2. CASE Step(p) \/ Crash(p)
  <2>1. /\ req[p].code \in Codes /\ TypeOK
        /\ At(p, "decide") => req[p].op \in {"approve", "deny"}
        /\ At(p, "approve") => req[p].user \in Users
    BY <1>2, UnderWay, StepIsUnderWay DEF Inv
  <2>2. (\E l \in {"approve", "deny", "expire", "slow", "touch", "delete", "issue"} : Goes(p, l))
        \/ Rests(p)
    <3>1. CASE Decide(p) \/ ApproveRow(p) \/ DenyRow(p) \/ Poll(p)
      BY <2>1, <3>1, DecideMoves, ApproveMoves, DenyMoves, PollMoves DEF Decide, ApproveRow
    <3>2. CASE MarkExpired(p) \/ SlowDown(p) \/ Touch(p)
      BY <2>1, <3>2, ExpireMoves, SlowMoves, TouchMoves
    <3>3. CASE DeleteRow(p) \/ IssueTokens(p) \/ Crash(p)
      BY <2>1, <3>3, DeleteMoves, IssueMoves, CrashMoves
    <3> QED BY <1>2, <3>1, <3>2, <3>3 DEF Step
  <2> QED BY <2>2 DEF Goes, Rests
<1> QED
  BY <1>1, <1>2

\* What a step can make of a row that is there: an approval by p, or a mark.
Approves(p) ==
  LET c == req[p].code
  IN  /\ At(p, "approve") /\ Exists(c)
      /\ \E r \in Row : /\ row' = [row EXCEPT ![c] = r]
                        /\ r.st = "approved" /\ r.user = req[p].user
                        /\ r.expiresAt = row[c].expiresAt
      /\ approved' = [approved EXCEPT ![c] = @ \cup {req[p].user}]

Mark(p) == CASE At(p, "deny") -> "denied" [] At(p, "expire") -> "expired"
             [] At(p, "delete") -> "deleted" [] OTHER -> row[req[p].code].st

LEMMA RowsMove ==
  ASSUME Inv, NEW p \in Procs, Start(p) \/ Step(p) \/ Crash(p)
  PROVE  /\ now' = now
         /\ \/ ApproveRow(p) /\ Approves(p)
            \/ UNCHANGED approved /\ Step(p) /\ Marks(req[p].code, Mark(p))
            \/ UNCHANGED <<row, approved>>
<1>1. CASE Start(p)
  BY <1>1 DEF Start, Begin
<1>2. CASE Crash(p)
  BY <1>2 DEF Crash, Ledger
<1>3. CASE Step(p)
  <2>1. /\ req[p].code \in Codes /\ TypeOK
        /\ At(p, "approve") => req[p].user \in Users
    BY <1>3, UnderWay, StepIsUnderWay DEF Inv
  <2>2. CASE Decide(p) \/ Poll(p) \/ IssueTokens(p)
    BY <2>2 DEF Decide, Poll, IssueTokens, Ledger
  <2>3. CASE ApproveRow(p)
    BY <2>1, <2>3, ApproveMoves DEF ApproveRow, Approves
  <2>4. CASE DenyRow(p)
    BY <1>3, <2>1, <2>4, DenyMoves DEF DenyRow, Mark, At
  <2>5. CASE MarkExpired(p)
    BY <1>3, <2>1, <2>5, ExpireMoves DEF MarkExpired, Mark, At, Ledger
  <2>6. CASE SlowDown(p)
    BY <1>3, <2>1, <2>6, SlowMoves DEF SlowDown, Mark, At, Ledger
  <2>7. CASE Touch(p)
    BY <1>3, <2>1, <2>7, TouchMoves DEF Touch, Mark, At, Ledger
  <2>8. CASE DeleteRow(p)
    BY <1>3, <2>1, <2>8, DeleteMoves DEF DeleteRow, Mark, At, Ledger
  <2> QED BY <1>3, <2>2, <2>3, <2>4, <2>5, <2>6, <2>7, <2>8 DEF Step
<1> QED
  BY <1>1, <1>2, <1>3

LEMMA IssueMakes ==
  ASSUME Inv, NEW c \in Codes, Issue(c)
  PROVE  /\ row[c].st = "none" /\ UNCHANGED <<now, req, paid, paidTo, approved, final>>
         /\ \E r \in Row : /\ row' = [row EXCEPT ![c] = r] /\ r.st = "pending" /\ r.user = NoUser
                           /\ r.expiresAt = now + TTL
<1> DEFINE r == [Blank EXCEPT !.st = "pending", !.expiresAt = now + TTL, !.interval = Interval]
<1>1. now + TTL \in 0..(MaxTime + TTL) /\ Interval \in Nat
  BY ConstAssumption DEF Inv, TypeOK
<1>2. r \in Row /\ r.st = "pending" /\ r.user = NoUser /\ r.expiresAt = now + TTL
  <2> DEFINE e == now + TTL
  <2>1. e \in 0..(MaxTime + TTL)
    BY <1>1
  <2> HIDE DEF e
  <2>2. /\ Blank \in Row /\ Blank.user = NoUser
    BY IdleFacts DEF Blank
  <2> QED BY <1>1, <2>1, <2>2 DEF Row, e
<1>3. row' = [row EXCEPT ![c] = r]
  BY DEF Issue
<1> QED
  BY <1>2, <1>3 DEF Issue, Ledger

\* Rows only age: issued once, never unissued, never extended, never undeleted
\* or undecided; approvals only add up.
Ages(c) ==
  /\ row'[c] \in Row
  /\ approved[c] \subseteq approved'[c]
  /\ row[c].st = "none" => row'[c] = row[c] \/ row'[c].st = "pending"
  /\ row[c].st # "none" =>
       /\ row'[c].st # "none" /\ row'[c].expiresAt = row[c].expiresAt
       /\ row[c].st # "pending" => row'[c].st # "pending"
       /\ row[c].st = "deleted" => row'[c].st = "deleted"

LEMMA ClockGoesOn == ASSUME Inv, [Next]_vars PROVE now' \in 1..MaxTime /\ now' >= now
<1>1. now' = now \/ (now < MaxTime /\ now' = now + 1)
  <2>1. ASSUME NEW p \in Procs, Start(p) \/ Step(p) \/ Crash(p) PROVE now' = now
    BY <2>1, RowsMove
  <2>2. CASE Tick
    BY <2>2 DEF Tick
  <2>3. CASE UNCHANGED vars
    BY <2>3 DEF vars
  <2>4. ASSUME NEW c \in Codes, Issue(c) PROVE now' = now
    BY <2>4 DEF Issue
  <2> QED BY <2>1, <2>2, <2>3, <2>4 DEF Next
<1> QED
  BY <1>1, ConstAssumption DEF Inv, TypeOK

LEMMA RowsAge == ASSUME Inv, [Next]_vars, NEW c \in Codes PROVE Ages(c)
<1>0. row \in [Codes -> Row] /\ now \in 1..MaxTime /\ row[c] \in Row
      /\ approved \in [Codes -> SUBSET Users]
  BY DEF Inv, TypeOK
<1>1. ASSUME NEW d \in Codes, Issue(d) PROVE Ages(c)
  <2>1. /\ row[d].st = "none" /\ UNCHANGED <<now, req, paid, paidTo, approved, final>>
    BY <1>1, IssueMakes
  <2>2. PICK r \in Row : /\ row' = [row EXCEPT ![d] = r] /\ r.st = "pending"
    BY <1>1, IssueMakes
  <2> QED BY <1>0, <2>1, <2>2 DEF Ages
<1>2. ASSUME NEW p \in Procs, Start(p) \/ Step(p) \/ Crash(p) PROVE Ages(c)
  <2>1. CASE UNCHANGED <<row, approved>>
    BY <1>0, <2>1 DEF Ages
  <2>2. CASE Approves(p)
    BY <1>0, <2>2 DEF Approves, Ages, Exists
  <2>3. CASE UNCHANGED approved /\ Marks(req[p].code, Mark(p))
    <3>1. PICK r \in Row : /\ row' = [row EXCEPT ![req[p].code] = r]
                           /\ Exists(req[p].code) /\ r.st = Mark(p)
                           /\ r.expiresAt = row[req[p].code].expiresAt
      BY <2>3 DEF Marks
    <3>2. Mark(p) \in {"denied", "expired", "deleted", row[req[p].code].st}
      BY DEF Mark
    <3> QED BY <1>0, <2>3, <3>1, <3>2 DEF Ages, Exists
  <2> QED BY <1>2, <2>1, <2>2, <2>3, RowsMove
<1>3. CASE Tick
  BY <1>0, <1>3, ConstAssumption DEF Tick, Ledger, Ages
<1>4. CASE UNCHANGED vars
  BY <1>0, <1>4 DEF vars, Ages
<1> QED
  BY <1>0, <1>1, <1>2, <1>3, <1>4 DEF Next

-----------------------------------------------------------------------------
(* The invariant *)

\* At the end of a poll, whom it pays is a person.
LEMMA PayeeIsUser ==
  ASSUME Inv, NEW p \in Procs, At(p, "issue")
  PROVE  req[p].code \in Codes /\ Payee(p) \in approved[req[p].code] /\ Payee(p) \in Users
<1>1. Payee(p) \in approved[req[p].code] /\ req[p].code \in Codes
  BY DEF Inv, RequestInv, Knows, At, Payee
<1> QED
  BY <1>1 DEF Inv, TypeOK

LEMMA TypeStep == Inv /\ [Next]_vars => TypeOK'
<1> SUFFICES ASSUME Inv, [Next]_vars PROVE TypeOK'
  OBVIOUS
<1>0. TypeOK
  BY DEF Inv
<1>1. now' \in 1..MaxTime
  BY ClockGoesOn
<1> DEFINE TableOK == row \in [Codes -> Row] /\ approved \in [Codes -> SUBSET Users]
           PayOK   == /\ paid \in [Codes -> Nat] /\ paidTo \in [Codes -> SUBSET Users]
                      /\ final \in SUBSET Codes
<1>2. TableOK'
  <2>1. ASSUME NEW c \in Codes, Issue(c) PROVE TableOK'
    BY <1>0, <2>1, IssueMakes DEF TypeOK
  <2>2. ASSUME NEW p \in Procs, Start(p) \/ Step(p) \/ Crash(p) PROVE TableOK'
    BY <1>0, <2>2, RowsMove, UnderWay DEF TypeOK, Approves, Marks, At
  <2>3. CASE Tick \/ UNCHANGED vars
    BY <1>0, <2>3 DEF Tick, Ledger, vars, TypeOK
  <2> QED BY <2>1, <2>2, <2>3 DEF Next
<1>3. req' \in [Procs -> Request]
  BY <1>0, RequestsMove, IssueMakes DEF Next, Tick, Ledger, vars, TypeOK
<1>4. PayOK'
  <2>1. ASSUME NEW p \in Procs, Step(p) PROVE PayOK'
    <3>1. req[p].code \in Codes
      BY <2>1, StepIsUnderWay, UnderWay
    <3>2. CASE IssueTokens(p)
      <4>1. Payee(p) \in Users
        BY <3>2, PayeeIsUser DEF IssueTokens
      <4> QED BY <1>0, <3>1, <3>2, <4>1 DEF IssueTokens, TypeOK
    <3>3. CASE DenyRow(p)
      BY <1>0, <3>1, <3>3 DEF DenyRow, TypeOK
    <3> QED BY <1>0, <2>1, <3>2, <3>3
          DEF TypeOK, Ledger, Step, Decide, ApproveRow, Poll, MarkExpired, SlowDown, Touch, DeleteRow
  <2>2. ASSUME NEW p \in Procs, Start(p) \/ Crash(p) PROVE PayOK'
    BY <1>0, <2>2 DEF Start, Begin, Crash, Ledger, TypeOK
  <2>3. ASSUME NEW c \in Codes, Issue(c) PROVE PayOK'
    BY <1>0, <2>3, IssueMakes DEF TypeOK
  <2>4. CASE Tick \/ UNCHANGED vars
    BY <1>0, <2>4 DEF Tick, Ledger, vars, TypeOK
  <2> QED BY <2>1, <2>2, <2>3, <2>4 DEF Next
<1> QED
  BY <1>1, <1>2, <1>3, <1>4 DEF TypeOK

\* What a request knows stays true while it stands still.
LEMMA KnowsOn ==
  ASSUME Inv, [Next]_vars, NEW p \in Procs, Knows(p), req'[p] = req[p] PROVE Knows(p)'
<1> DEFINE c == req[p].code
<1>1. c \in Codes /\ row[c].st # "none" /\ row[c] \in Row
  BY DEF Knows, Inv, TypeOK
<1>2. Ages(c) /\ now' >= now /\ now \in Nat /\ now' \in Nat
  BY <1>1, RowsAge, ClockGoesOn, ConstAssumption DEF Inv, TypeOK
<1>3. At(p, "expire") => Lapsed(row[c])'
  BY <1>1, <1>2 DEF Knows, Lapsed, Ages, Row
<1> QED
  BY <1>1, <1>2, <1>3 DEF Knows, At, Ages

\* A request that goes on with what it has read.
LEMMA GoesKnowing ==
  ASSUME Inv, [Next]_vars, NEW p \in Procs, Knows(p),
         NEW l \in {"approve", "deny", "delete", "issue"},
         Goes(p, l), req'[p].seen = req[p].seen,
         l = "approve" => req[p].user \in Users,
         l \in {"delete", "issue"} => req[p].seen.st = "approved"
  PROVE  Knows(p)'
<1> DEFINE c == req[p].code
<1>1. c \in Codes /\ row[c].st # "none" /\ Ages(c)
  BY RowsAge DEF Knows
<1> QED
  BY <1>1 DEF Knows, At, Goes, Ages

LEMMA RequestStep == Inv /\ [Next]_vars => RequestInv'
<1> SUFFICES ASSUME Inv, [Next]_vars, NEW q \in Procs, ~At(q, "idle")'
             PROVE  Knows(q)'
  BY DEF RequestInv
<1>0. TypeOK /\ (~At(q, "idle") => Knows(q))
  BY DEF Inv, RequestInv
<1>1. CASE req'[q] = req[q]
  BY <1>0, <1>1, KnowsOn DEF At
<1>2. ASSUME Start(q) PROVE Knows(q)'
  <2>1. PICK c \in Codes, u \in User0, o \in {"approve", "deny", "poll"} : Begin(q, o, c, u)
                                                                       /\ (o = "approve" => u \in Users)
    BY <1>2 DEF Start, User0
  <2>2. row'[c] = row[c] /\ row[c].st # "none"
    BY <2>1 DEF Begin
  <2>3. /\ req'[q].pc \in {"decide", "poll"} /\ req'[q].code = c /\ req'[q].user = u
        /\ req'[q].op = o /\ req'[q].seen.st = "none"
        /\ req'[q].pc = "decide" => o # "poll"
    BY <2>1, BeginGoes DEF Inv
  <2> QED BY <2>1, <2>2, <2>3 DEF Knows, At
<1>3. ASSUME Step(q) \/ Crash(q) PROVE Knows(q)'
  <2>1. Knows(q) /\ TypeOK /\ req[q].code \in Codes
    BY <1>3, StepIsUnderWay DEF Inv, RequestInv, Knows
  <2>2. ~Rests(q)
    BY DEF Rests, At
  <2>3. CASE Decide(q)
    <3>1. req[q].op \in {"approve", "deny"} /\ Goes(q, req[q].op) /\ req'[q].seen = req[q].seen
      BY <2>1, <2>2, <2>3, DecideMoves DEF Knows, Decide
    <3>2. req[q].op = "approve" => req[q].user \in Users
      BY <2>1, <2>3 DEF Knows, Decide
    <3> QED BY <2>1, <3>1, <3>2, GoesKnowing
  <2>4. CASE Poll(q)
    <3>1. PICK l \in {"expire", "slow", "touch"} :
               /\ Goes(q, l) /\ req'[q].seen = row[req[q].code]
               /\ l = "expire" <=> Lapsed(row[req[q].code])
      BY <2>1, <2>2, <2>4, PollMoves
    <3>2. UNCHANGED <<row, now, approved>>
      BY <2>4 DEF Poll, Ledger
    <3>3. row[req[q].code].st = "approved" => row[req[q].code].user \in approved[req[q].code]
      BY <2>1 DEF Inv, RowInv
    <3> QED BY <2>1, <3>1, <3>2, <3>3 DEF Knows, Goes, At, Lapsed
  <2>5. CASE Touch(q)
    <3>1. Goes(q, "delete") /\ req'[q].seen = req[q].seen /\ req[q].seen.st = "approved"
      BY <2>1, <2>2, <2>5, TouchMoves
    <3> QED BY <2>1, <3>1, GoesKnowing
  <2>6. CASE DeleteRow(q)
    <3>1. Goes(q, "issue") /\ req'[q].seen = req[q].seen /\ req[q].seen.st = "approved"
      BY <2>1, <2>2, <2>6, DeleteMoves DEF DeleteRow, Knows, At
    <3> QED BY <2>1, <3>1, GoesKnowing
  <2>7. CASE ApproveRow(q)
    BY <2>1, <2>2, <2>7, ApproveMoves DEF Knows, ApproveRow
  <2>8. CASE DenyRow(q) \/ MarkExpired(q) \/ SlowDown(q) \/ IssueTokens(q) \/ Crash(q)
    BY <2>1, <2>2, <2>8, DenyMoves, ExpireMoves, SlowMoves, IssueMoves, CrashMoves
  <2> QED BY <1>3, <2>3, <2>4, <2>5, <2>6, <2>7, <2>8 DEF Step
<1>4. ASSUME NEW p \in Procs, p # q, Start(p) \/ Step(p) \/ Crash(p) PROVE req'[q] = req[q]
  BY <1>4, RequestsMove DEF Others
<1>5. (\E c \in Codes : Issue(c)) \/ Tick \/ UNCHANGED vars => req' = req
  BY IssueMakes DEF Tick, vars
<1> QED
  BY <1>1, <1>2, <1>3, <1>4, <1>5 DEF Next

\* Where a step can bring a request, and what it found there.
Arrives(q) ==
  LET c == req[q].code
      l == req'[q].pc
  IN  \/ l = "idle"
      \/ l \in {"decide", "poll"} /\ req'[q].seen.st = "none"
      \/ /\ c \in Codes /\ req'[q].code = c
         /\ \/ /\ l \in {"approve", "deny"} /\ row[c].st = "pending" /\ ~Lapsed(row[c])
               /\ UNCHANGED row
            \/ /\ l \in {"expire", "slow", "touch"}
               /\ req'[q].seen = row[c] /\ Exists(c) /\ (l = "touch" => ~Lapsed(row[c]))
            \/ /\ l = "delete" /\ At(q, "touch") /\ Exists(c) /\ req'[q].seen = req[q].seen
            \/ /\ l = "issue" /\ At(q, "delete") /\ Exists(c) /\ req'[q].seen = req[q].seen
               /\ row'[c].st = "deleted"

LEMMA RequestsArrive ==
  ASSUME Inv, [Next]_vars, NEW q \in Procs, req'[q] # req[q] PROVE Arrives(q)
<1>1. ASSUME Start(q) PROVE Arrives(q)
  <2>1. PICK c \in Codes, u \in User0, o \in {"approve", "deny", "poll"} : Begin(q, o, c, u)
    BY <1>1 DEF Start, User0
  <2> QED BY <2>1, BeginGoes DEF Inv, Arrives
<1>2. ASSUME Step(q) \/ Crash(q), ~Rests(q) PROVE Arrives(q)
  <2>1. TypeOK /\ Knows(q) /\ req[q].code \in Codes /\ row \in [Codes -> Row]
    BY <1>2, StepIsUnderWay DEF Inv, RequestInv, Knows, TypeOK
  <2>2. CASE Decide(q)
    <3>1. /\ req[q].op \in {"approve", "deny"} /\ Goes(q, req[q].op)
          /\ row[req[q].code].st = "pending" /\ ~Lapsed(row[req[q].code])
      BY <1>2, <2>1, <2>2, DecideMoves DEF Knows, Decide
    <3> QED BY <2>1, <2>2, <3>1 DEF Arrives, Goes, Decide
  <2>3. CASE Poll(q)
    BY <1>2, <2>1, <2>3, PollMoves DEF Arrives, Goes
  <2>4. CASE Touch(q)
    BY <1>2, <2>1, <2>4, TouchMoves DEF Arrives, Goes, Touch
  <2>5. CASE DeleteRow(q)
    BY <1>2, <2>1, <2>5, DeleteMoves DEF Arrives, Goes, DeleteRow, Marks
  <2>6. CASE ApproveRow(q) \/ DenyRow(q) \/ MarkExpired(q) \/ SlowDown(q)
             \/ IssueTokens(q) \/ Crash(q)
    BY <1>2, <2>1, <2>6, ApproveMoves, DenyMoves, ExpireMoves, SlowMoves, IssueMoves, CrashMoves
       DEF Knows, ApproveRow
  <2> QED BY <1>2, <2>2, <2>3, <2>4, <2>5, <2>6 DEF Step
<1>3. ASSUME NEW p \in Procs, p # q, Start(p) \/ Step(p) \/ Crash(p) PROVE req'[q] = req[q]
  BY <1>3, RequestsMove DEF Others
<1>4. (\E c \in Codes : Issue(c)) \/ Tick \/ UNCHANGED vars => req' = req
  BY IssueMakes DEF Tick, vars
<1>5. Rests(q) => Arrives(q)
  BY DEF Rests, Arrives
<1> QED
  BY <1>1, <1>2, <1>3, <1>4, <1>5 DEF Next

\* What a step can make of one row.
LEMMA OneRowMoves ==
  ASSUME Inv, [Next]_vars, NEW c \in Codes
  PROVE  \/ row'[c] = row[c] /\ approved'[c] = approved[c]
         \/ row[c].st = "none" /\ row'[c].st = "pending" /\ approved'[c] = approved[c]
         \/ /\ Approving(c) /\ Exists(c) /\ row'[c].st = "approved"
            /\ row'[c].user \in approved'[c]
         \/ /\ \E p \in Procs : /\ req[p].code = c /\ row'[c].st = Mark(p)
                                /\ ~At(p, "idle")
            /\ Exists(c) /\ row'[c].user = row[c].user /\ approved'[c] = approved[c]
<1>0. row \in [Codes -> Row] /\ approved \in [Codes -> SUBSET Users]
  BY DEF Inv, TypeOK
<1>1. ASSUME NEW d \in Codes, Issue(d)
      PROVE  /\ approved' = approved
             /\ row'[c] = row[c] \/ (row[c].st = "none" /\ row'[c].st = "pending")
  BY <1>0, <1>1, IssueMakes
<1>2. ASSUME NEW p \in Procs, Start(p) \/ Step(p) \/ Crash(p)
      PROVE  \/ row'[c] = row[c] /\ approved'[c] = approved[c]
             \/ /\ Approving(c) /\ Exists(c) /\ row'[c].st = "approved"
                /\ row'[c].user \in approved'[c]
             \/ /\ req[p].code = c /\ row'[c].st = Mark(p) /\ ~At(p, "idle")
                /\ Exists(c) /\ row'[c].user = row[c].user /\ approved'[c] = approved[c]
  <2>1. CASE UNCHANGED <<row, approved>>
    BY <2>1
  <2>2. CASE Approves(p)
    <3>1. req[p].code = c => Approving(c)
      BY <2>2 DEF Approves, Approving
    <3> QED BY <1>0, <2>2, <3>1 DEF Approves
  <2>3. CASE UNCHANGED approved /\ Step(p) /\ Marks(req[p].code, Mark(p))
    BY <1>0, <2>3, StepIsUnderWay DEF Marks
  <2> QED BY <1>2, <2>1, <2>2, <2>3, RowsMove
<1>3. Tick \/ UNCHANGED vars => row' = row /\ approved' = approved
  BY DEF Tick, Ledger, vars
<1> QED
  BY <1>1, <1>2, <1>3 DEF Next

LEMMA MarkIs == ASSUME NEW p \in Procs
                PROVE  Mark(p) \in {"denied", "expired", "deleted", row[req[p].code].st}
BY DEF Mark

LEMMA RowStep == Inv /\ [Next]_vars => RowInv'
<1> SUFFICES ASSUME Inv, [Next]_vars, NEW c \in Codes
             PROVE  /\ row'[c].st = "approved" => row'[c].user \in approved'[c]
                    /\ row'[c].st \in {"none", "pending"} => approved'[c] = {}
  BY DEF RowInv
<1>1. /\ row[c].st = "approved" => row[c].user \in approved[c]
      /\ row[c].st \in {"none", "pending"} => approved[c] = {}
  BY DEF Inv, RowInv
<1> QED
  BY <1>1, OneRowMoves, MarkIs

\* The two books: a denial that nothing contests, and a payment.
LEMMA BooksMove ==
  ASSUME Inv, [Next]_vars
  PROVE  /\ \/ final' = final
            \/ \E p \in Procs : /\ final' = final \cup {req[p].code}
                               /\ row[req[p].code].st = "pending" /\ ~Approving(req[p].code)
                               /\ row'[req[p].code].st = "denied"
         /\ \/ UNCHANGED <<paid, paidTo>>
            \/ \E p \in Procs : IssueTokens(p) /\ At(p, "issue") /\ req'[p].pc = "idle"
<1>1. ASSUME NEW p \in Procs, Step(p)
      PROVE  /\ \/ final' = final
                \/ /\ final' = final \cup {req[p].code}
                   /\ row[req[p].code].st = "pending" /\ ~Approving(req[p].code)
                   /\ row'[req[p].code].st = "denied"
             /\ UNCHANGED <<paid, paidTo>> \/ IssueTokens(p)
  <2>1. TypeOK /\ req[p].code \in Codes
    BY <1>1, UnderWay, StepIsUnderWay DEF Inv
  <2>2. CASE DenyRow(p)
    BY <2>1, <2>2, DenyMoves DEF DenyRow, Marks, TypeOK
  <2>3. CASE IssueTokens(p)
    BY <2>3 DEF IssueTokens
  <2> QED BY <1>1, <2>2, <2>3
        DEF Step, Decide, ApproveRow, Poll, MarkExpired, SlowDown, Touch, DeleteRow, Ledger
<1>2. ASSUME NEW p \in Procs, IssueTokens(p) PROVE At(p, "issue") /\ req'[p].pc = "idle"
  BY <1>2, IssueMoves DEF IssueTokens, Rests, Inv
<1>3. ASSUME NEW p \in Procs, Start(p) \/ Crash(p) PROVE UNCHANGED <<paid, paidTo, final>>
  BY <1>3 DEF Start, Begin, Crash, Ledger
<1>4. (\E c \in Codes : Issue(c)) \/ Tick \/ UNCHANGED vars => UNCHANGED <<paid, paidTo, final>>
  BY IssueMakes DEF Tick, Ledger, vars
<1> QED
  BY <1>1, <1>2, <1>3, <1>4 DEF Next

LEMMA PayStep == Inv /\ [Next]_vars => PayInv'
<1> SUFFICES ASSUME Inv, [Next]_vars, NEW c \in Codes
             PROVE  /\ paidTo'[c] \subseteq approved'[c]
                    /\ paidTo'[c] = {} => paid'[c] = 0
                    /\ c \in final' => /\ approved'[c] = {} /\ ~Approving(c)'
                                       /\ row'[c].st \notin {"none", "pending"}
  BY DEF PayInv
<1>0. /\ paidTo[c] \subseteq approved[c] /\ (paidTo[c] = {} => paid[c] = 0)
      /\ paid \in [Codes -> Nat] /\ paidTo \in [Codes -> SUBSET Users]
  BY DEF Inv, PayInv, TypeOK
<1>1. approved[c] \subseteq approved'[c]
  BY RowsAge DEF Ages
<1>2. paidTo'[c] \subseteq approved'[c] /\ (paidTo'[c] = {} => paid'[c] = 0)
  <2>1. CASE UNCHANGED <<paid, paidTo>>
    BY <1>0, <1>1, <2>1
  <2>2. ASSUME NEW p \in Procs, IssueTokens(p), At(p, "issue") PROVE <1>2
    BY <1>0, <1>1, <2>2, PayeeIsUser DEF IssueTokens
  <2> QED BY <2>1, <2>2, BooksMove
<1>3. ASSUME c \in final'
      PROVE  approved'[c] = {} /\ ~Approving(c)' /\ row'[c].st \notin {"none", "pending"}
  <2>1. /\ approved[c] = {} /\ ~Approving(c)
        /\ \/ c \in final /\ row[c].st \notin {"none", "pending"}
           \/ row[c].st = "pending" /\ row'[c].st = "denied"
    BY <1>3, BooksMove DEF Inv, PayInv, RowInv
  <2>2. approved'[c] = {} /\ row'[c].st \notin {"none", "pending"}
    BY <2>1, OneRowMoves, MarkIs
  <2>3. ASSUME NEW q \in Procs, At(q, "approve")', req'[q].code = c PROVE FALSE
    <3>1. req'[q] # req[q]
      BY <2>1, <2>3 DEF Approving, At
    <3>2. row[c].st = "pending" /\ UNCHANGED row
      BY <2>3, <3>1, RequestsArrive DEF Arrives, At
    <3> QED BY <2>1, <3>2
  <2> QED BY <2>2, <2>3 DEF Approving
<1> QED
  BY <1>2, <1>3

LEMMA OnceStep == Inv /\ [Next]_vars => OnceInv'
<1> SUFFICES ASSUME Inv, [Next]_vars, NEW c \in Codes
             PROVE  /\ row'[c].st # "deleted" => paid'[c] = 0
                    /\ \A p \in Procs : At(p, "issue")' /\ req'[p].code = c =>
                         /\ row'[c].st = "deleted" /\ paid'[c] = 0
                         /\ \A q \in Procs : At(q, "issue")' /\ req'[q].code = c => q = p
  BY DEF OnceInv
<1>0. /\ paid \in [Codes -> Nat]
      /\ row[c].st # "deleted" => paid[c] = 0
      /\ \A p \in Procs : At(p, "issue") /\ req[p].code = c =>
           /\ row[c].st = "deleted" /\ paid[c] = 0
           /\ \A q \in Procs : At(q, "issue") /\ req[q].code = c => q = p
  BY DEF Inv, OnceInv, TypeOK
<1>1. row[c].st = "deleted" => row'[c].st = "deleted"
  BY RowsAge DEF Ages
\* Only the request that is about to be paid for is paid for.
<1>2. \/ paid'[c] = paid[c]
      \/ \E p \in Procs : At(p, "issue") /\ req[p].code = c /\ req'[p].pc = "idle"
  <2>1. ASSUME NEW p \in Procs, IssueTokens(p), At(p, "issue"), req'[p].pc = "idle" PROVE <1>2
    BY <1>0, <2>1 DEF IssueTokens
  <2> QED BY <2>1, BooksMove
<1>3. ASSUME NEW p \in Procs, At(p, "issue")', req'[p].code = c
      PROVE  \/ At(p, "issue") /\ req[p].code = c
             \/ At(p, "delete") /\ Exists(c) /\ row'[c].st = "deleted"
                /\ req'[p] # req[p]
  BY <1>3, RequestsArrive DEF Arrives, At
<1>4. row'[c].st # "deleted" => paid'[c] = 0
  BY <1>0, <1>1, <1>2
<1>5. ASSUME NEW p \in Procs, At(p, "issue")', req'[p].code = c
      PROVE  row'[c].st = "deleted" /\ paid'[c] = 0
  <2>1. CASE At(p, "issue") /\ req[p].code = c
    BY <1>0, <1>1, <1>2, <1>5, <2>1 DEF At
  <2>2. CASE Exists(c) /\ row'[c].st = "deleted"
    BY <1>0, <1>2, <2>2 DEF Exists
  <2> QED BY <1>3, <1>5, <2>1, <2>2
<1>6. ASSUME NEW p \in Procs, At(p, "issue")', req'[p].code = c,
             NEW q \in Procs, At(q, "issue")', req'[q].code = c
      PROVE  q = p
  <2>1. CASE At(p, "issue") /\ req[p].code = c
    BY <1>0, <1>3, <1>6, <2>1 DEF Exists
  <2>2. CASE At(q, "issue") /\ req[q].code = c
    BY <1>0, <1>3, <1>6, <2>2 DEF Exists
  <2>3. CASE /\ At(p, "delete") /\ req'[p] # req[p]
             /\ At(q, "delete") /\ req'[q] # req[q]
    <3>1. \A s \in Procs : req'[s] # req[s] => (Start(s) \/ Step(s) \/ Crash(s))
      <4>1. (\E d \in Codes : Issue(d)) \/ Tick \/ UNCHANGED vars => req' = req
        BY IssueMakes DEF Tick, vars
      <4>2. ASSUME NEW r \in Procs, Start(r) \/ Step(r) \/ Crash(r), NEW s \in Procs, s # r
            PROVE  req'[s] = req[s]
        BY <4>2, RequestsMove DEF Others
      <4> QED BY <4>1, <4>2 DEF Next
    <3>2. \A s \in Procs : s # p => req'[s] = req[s]
      BY <2>3, <3>1, RequestsMove DEF Others
    <3> QED BY <2>3, <3>2
  <2> QED BY <1>3, <1>6, <2>1, <2>2, <2>3
<1> QED
  BY <1>4, <1>5, <1>6

LEMMA InitInv == Init => Inv
BY IdleFacts, ConstAssumption
   DEF Init, Inv, TypeOK, RequestInv, Knows, RowInv, PayInv, OnceInv, At, Approving

LEMMA InvStep == Inv /\ [Next]_vars => Inv'
BY TypeStep, RequestStep, RowStep, PayStep, OnceStep DEF Inv

\* The inductive invariant holds in every reachable state.
THEOREM InvHolds == Spec => []Inv
BY InitInv, InvStep, PTL DEF Spec

\* The table, the requests and the books keep their types.
THEOREM TypeCorrect == Spec => []TypeOK
<1>1. Inv => TypeOK
  BY DEF Inv
<1> QED
  BY <1>1, InvHolds, PTL

\* Whoever a device code pays approved that code, and a code denied while
\* nobody was approving it never pays.
THEOREM PaymentsFollowDecisions == Spec => []PaidAsDecided
<1>1. Inv => PaidAsDecided
  <2>1. ASSUME Inv, NEW c \in Codes
        PROVE  /\ paidTo[c] \subseteq approved[c]
               /\ c \in final => paid[c] = 0
    <3>1. /\ paidTo[c] \subseteq approved[c]
          /\ paidTo[c] = {} => paid[c] = 0
          /\ c \in final => approved[c] = {}
      BY <2>1 DEF Inv, PayInv
    <3> QED BY <3>1
  <2>2. Inv => final \subseteq Codes
    BY DEF Inv, TypeOK
  <2> QED BY <2>1, <2>2 DEF PaidAsDecided, PaidToApprover, DeniedIsFinal
<1> QED
  BY <1>1, InvHolds, PTL

\* No poll undoes a decision, whatever it read before the decision was taken.
THEOREM DecisionsAreKept == Spec => DecisionsStand
<1> DEFINE Stands(c) ==
             /\ row[c].st \in {"approved", "denied"} => row'[c].st # "pending"
             /\ row[c].st = "approved" /\ row'[c].st # "approved"
                => \E p \in Procs : /\ req[p].code = c
                                    /\ \/ At(p, "delete") /\ row'[c].st = "deleted"
                                       \/ At(p, "deny") /\ row'[c].st = "denied"
                                       \/ At(p, "expire") /\ Lapsed(row[c])
<1>1. ASSUME Inv, [Next]_vars, NEW c \in Codes PROVE Stands(c)
  <2>1. ASSUME NEW p \in Procs, ~At(p, "idle"), req[p].code = c, row'[c].st = Mark(p),
               row[c].st = "approved", row'[c].st # "approved"
        PROVE  \/ At(p, "delete") /\ row'[c].st = "deleted"
               \/ At(p, "deny") /\ row'[c].st = "denied"
               \/ At(p, "expire") /\ Lapsed(row[c])
    BY <1>1, <2>1 DEF Mark, Inv, RequestInv, Knows
  <2>2. row[c].st \in {"approved", "denied"} => row'[c].st # "pending"
    BY <1>1, OneRowMoves, MarkIs
  <2> QED BY <1>1, <2>1, <2>2, OneRowMoves
<1>2. Inv /\ [Next]_vars => [\A c \in Codes : Stands(c)]_vars
  BY <1>1
<1> QED
  BY <1>2, InvHolds, PTL DEF Spec, DecisionsStand

-----------------------------------------------------------------------------
(* The table implements OneShot *)

LEMMA StandingIs ==
  ASSUME NEW c \in Codes
  PROVE  /\ Standing[c] = StandingOf(c)
         /\ row[c].st = "none" => StandingOf(c) = "new"
         /\ row[c].st # "none" =>
              /\ paid[c] > 0 => StandingOf(c) = "spent"
              /\ ~(paid[c] > 0) => StandingOf(c) = IF Live(c) THEN "open" ELSE "void"
BY DEF Standing, StandingOf

LEMMA StandingIsNext ==
  ASSUME NEW c \in Codes
  PROVE  /\ Standing'[c] = StandingOf(c)'
         /\ row'[c].st = "none" => StandingOf(c)' = "new"
         /\ row'[c].st # "none" =>
              /\ paid'[c] > 0 => StandingOf(c)' = "spent"
              /\ ~(paid'[c] > 0) => StandingOf(c)' = IF Live(c)' THEN "open" ELSE "void"
BY DEF Standing, StandingOf

\* What is void stays void: no step but its issue opens a code.
LEMMA LiveBefore ==
  ASSUME Inv, [Next]_vars, NEW c \in Codes, row[c].st # "none", Live(c)' PROVE Live(c)
<1>0. row[c] \in Row /\ now \in Nat /\ now' \in Nat /\ now' >= now
  BY ClockGoesOn, ConstAssumption DEF Inv, TypeOK
<1>1. Ages(c) /\ (Exists(c)' => Exists(c))
  BY RowsAge DEF Ages, Exists
<1>2. CASE Holding(c)'
  <2>1. PICK q \in Procs : /\ req'[q].code = c /\ req'[q].seen.st = "approved"
                           /\ \/ At(q, "issue")'
                              \/ req'[q].pc \in {"touch", "delete"} /\ Exists(c)'
    BY <1>2 DEF Holding
  <2>2. CASE req'[q] = req[q]
    BY <1>1, <2>1, <2>2 DEF Holding, Live, At
  <2>3. CASE Arrives(q)
    <3>1. CASE req'[q].pc = "touch"
      BY <2>1, <2>3, <3>1 DEF Arrives, Live
    <3>2. CASE req'[q].pc \in {"delete", "issue"}
      BY <2>1, <2>3, <3>2 DEF Arrives, Live, Holding, At
    <3> QED BY <2>1, <3>1, <3>2 DEF At
  <2> QED BY <2>2, <2>3, RequestsArrive
<1>3. CASE (Exists(c) /\ ~Lapsed(row[c]))' /\ (row'[c].st \in {"pending", "approved"} \/ Approving(c)')
  <2>1. Exists(c) /\ ~Lapsed(row[c])
    BY <1>0, <1>1, <1>3 DEF Ages, Lapsed, Row
  <2>2. CASE row'[c].st \in {"pending", "approved"}
    <3>1. row[c].st \in {"pending", "approved"} \/ Approving(c)
      BY <2>1, <2>2, OneRowMoves, MarkIs DEF Exists
    <3> QED BY <2>1, <3>1 DEF Live
  <2>3. CASE Approving(c)'
    <3>1. PICK q \in Procs : At(q, "approve")' /\ req'[q].code = c
      BY <2>3 DEF Approving
    <3>2. Approving(c) \/ row[c].st = "pending"
      BY <3>1, RequestsArrive DEF Arrives, Approving, At
    <3> QED BY <2>1, <3>2 DEF Live
  <2> QED BY <1>3, <2>2, <2>3
<1> QED
  BY <1>2, <1>3 DEF Live

\* What is paid out was open, and is spent.
LEMMA PayIsPay ==
  ASSUME Inv, Inv', [Next]_vars, paid' # paid PROVE \E c \in Codes : Ticket!Pay(c)
<1>1. PICK p \in Procs : IssueTokens(p) /\ At(p, "issue")
  BY BooksMove
<1> DEFINE c == req[p].code
<1>2. c \in Codes /\ req[p].seen.st = "approved" /\ row[c].st = "deleted" /\ paid[c] = 0
  BY <1>1 DEF Inv, RequestInv, Knows, OnceInv, At
<1>3. UNCHANGED <<row, now>> /\ paid' = [paid EXCEPT ![c] = @ + 1]
  BY <1>1 DEF IssueTokens
<1>4. Standing[c] = "open"
  <2>1. Live(c)
    BY <1>1, <1>2 DEF Live, Holding
  <2> QED BY <1>2, <2>1, StandingIs
<1>5. Standing' = [Standing EXCEPT ![c] = "spent"]
  <2>1. Standing'[c] = "spent"
    BY <1>2, <1>3, StandingIsNext DEF Inv, TypeOK
  <2>2. ASSUME NEW d \in Codes, d # c PROVE Standing'[d] = Standing[d]
    <3>1. Others(p) /\ req'[p].pc = "idle"
      BY <1>1, IssueMoves DEF Inv, Rests
    <3>2. Live(d)' <=> Live(d)
      BY <1>2, <1>3, <2>2, <3>1 DEF Live, Holding, Exists, Lapsed, Approving, At, Others
    <3>3. paid'[d] = paid[d]
      BY <1>3, <2>2 DEF Inv, TypeOK
    <3> QED BY <1>3, <3>2, <3>3, StandingIs, StandingIsNext
  <2>3. Standing = [d \in Codes |-> Standing[d]] /\ Standing' = [d \in Codes |-> Standing'[d]]
    BY DEF Standing
  <2> HIDE DEF c
  <2> QED BY <1>2, <2>1, <2>2, <2>3
<1> QED
  BY <1>2, <1>3, <1>4, <1>5 DEF Ticket!Pay

\* A code is opened by being issued.
LEMMA IssueIsOpen ==
  ASSUME Inv, Inv', NEW c \in Codes, Issue(c) PROVE Ticket!Open(c)
<1>1. row[c].st = "none" /\ UNCHANGED <<now, req, paid, paidTo, approved, final>>
  BY IssueMakes
<1>2. PICK r \in Row : row' = [row EXCEPT ![c] = r] /\ r.st = "pending" /\ r.expiresAt = now + TTL
  BY IssueMakes
<1>3. now \in Nat /\ row \in [Codes -> Row]
  BY DEF Inv, TypeOK
<1>4. Standing[c] = "new"
  BY <1>1, StandingIs
<1>5. Standing'[c] = "open"
  <2>1. row'[c].st = "pending" /\ ~Lapsed(row[c])' /\ paid'[c] = 0
    BY <1>1, <1>2, <1>3, ConstAssumption DEF Lapsed, Inv, OnceInv
  <2>2. Live(c)'
    BY <2>1 DEF Live, Exists
  <2> QED BY <2>1, <2>2, StandingIsNext
<1>6. ASSUME NEW d \in Codes, d # c PROVE Standing'[d] = Standing[d]
  <2>1. row'[d] = row[d]
    BY <1>2, <1>3, <1>6
  <2>2. Live(d)' <=> Live(d)
    BY <1>1, <2>1 DEF Live, Holding, Exists, Lapsed, Approving, At
  <2> QED BY <1>1, <2>1, <2>2, StandingIs, StandingIsNext
<1>7. Standing = [d \in Codes |-> Standing[d]] /\ Standing' = [d \in Codes |-> Standing'[d]]
  BY DEF Standing
<1>8. Standing' = [Standing EXCEPT ![c] = "open"]
  BY <1>5, <1>6, <1>7
<1> QED
  BY <1>1, <1>4, <1>8 DEF Ticket!Open

\* Every other step voids some of the open codes, or none.
LEMMA RestIsVoid ==
  ASSUME Inv, Inv', [Next]_vars, paid' = paid, \A c \in Codes : ~Issue(c)
  PROVE  \E T \in SUBSET Codes : Ticket!Void(T)
<1> DEFINE T == {c \in Codes : Standing'[c] # Standing[c]}
<1>1. ASSUME NEW c \in Codes
      PROVE  Standing'[c] = Standing[c] \/ (Standing[c] = "open" /\ Standing'[c] = "void")
  <2>1. row[c].st = "none" => row'[c].st = "none"
    <3>1. ASSUME NEW p \in Procs, Start(p) \/ Step(p) \/ Crash(p), row[c].st = "none"
          PROVE  row'[c] = row[c]
      BY <3>1, RowsMove DEF Approves, Marks, Exists, Inv, TypeOK
    <3> QED BY <3>1 DEF Next, Tick, Ledger, vars
  <2>2. row[c].st # "none" => row'[c].st # "none" /\ (Live(c)' => Live(c))
    BY RowsAge, LiveBefore DEF Ages
  <2> QED BY <2>1, <2>2, StandingIs, StandingIsNext
<1>2. Standing' = [c \in Codes |-> IF c \in T THEN "void" ELSE Standing[c]]
  <2>1. Standing' = [c \in Codes |-> Standing'[c]]
    BY DEF Standing
  <2> QED BY <1>1, <2>1
<1>3. \A c \in T : Standing[c] = "open"
  BY <1>1
<1>4. T \in SUBSET Codes
  OBVIOUS
<1> HIDE DEF T
<1>5. Ticket!Void(T)
  BY <1>2, <1>3 DEF Ticket!Void
<1> QED
  BY <1>4, <1>5

\* The table of device codes implements OneShot: a code pays at most once, and
\* once it is paid, lapsed, denied or deleted nothing opens it again.
THEOREM DeviceCodesImplementOneShot == Spec => DeviceCodesAreOneShot
<1>1. Init => Ticket!Init
  <2>1. ASSUME Init, NEW c \in Codes PROVE Standing[c] = "new"
    BY <2>1, InitInv, IdleFacts, StandingIs DEF Init
  <2>2. Standing = [c \in Codes |-> Standing[c]]
    BY DEF Standing
  <2> QED BY <2>1, <2>2 DEF Init, Ticket!Init
<1>2. Inv /\ Inv' /\ [Next]_vars => [Ticket!Next]_(Ticket!shot)
  <2> SUFFICES ASSUME Inv, Inv', [Next]_vars PROVE Ticket!Next
    BY DEF Ticket!shot
  <2>1. CASE paid' # paid
    BY <2>1, PayIsPay DEF Ticket!Next
  <2>2. ASSUME NEW c \in Codes, Issue(c) PROVE Ticket!Next
    BY <2>2, IssueIsOpen DEF Ticket!Next
  <2>3. CASE paid' = paid /\ \A c \in Codes : ~Issue(c)
    BY <2>3, RestIsVoid DEF Ticket!Next
  <2> QED BY <2>1, <2>2, <2>3
<1> QED
  BY <1>1, <1>2, InvHolds, PTL DEF Spec, DeviceCodesAreOneShot, Ticket!Spec

\* A device code is turned into tokens once at the most.
PaysAtMostOnce == \A c \in Codes : paid[c] <= 1

\* However many polls read the one approval before a row is deleted
\* (device-flow.service.ts:259-263: the delete consumes it, the issue comes after).
THEOREM DeviceCodesPayOnce == Spec => []PaysAtMostOnce
<1> DEFINE Told == \A t \in Codes : paid[t] = IF Standing[t] = "spent" THEN 1 ELSE 0
<1>1. Ticket!Init => Told
  BY DEF Ticket!Init
<1>2. TypeOK /\ Told /\ [Ticket!Next]_(Ticket!shot) => Told'
  <2> SUFFICES ASSUME TypeOK, Told, [Ticket!Next]_(Ticket!shot), NEW t \in Codes
               PROVE  paid'[t] = IF Standing'[t] = "spent" THEN 1 ELSE 0
    OBVIOUS
  <2>1. Standing = [c \in Codes |-> Standing[c]] /\ paid = [c \in Codes |-> paid[c]]
    BY DEF TypeOK, Standing
  <2>2. ASSUME NEW c \in Codes, Ticket!Open(c) PROVE paid'[t] = IF Standing'[t] = "spent" THEN 1 ELSE 0
    BY <2>1, <2>2 DEF Ticket!Open
  <2>3. ASSUME NEW c \in Codes, Ticket!Pay(c) PROVE paid'[t] = IF Standing'[t] = "spent" THEN 1 ELSE 0
    <3>1. CASE t = c
      <4>1. paid[t] = 0 /\ Standing'[t] = "spent" /\ paid'[t] = paid[t] + 1
        BY <2>1, <2>3, <3>1 DEF Ticket!Pay
      <4> QED BY <4>1
    <3>2. CASE t # c
      BY <2>1, <2>3, <3>2 DEF Ticket!Pay
    <3> QED BY <3>1, <3>2
  <2>4. ASSUME NEW T \in SUBSET Codes, Ticket!Void(T) PROVE paid'[t] = IF Standing'[t] = "spent" THEN 1 ELSE 0
    BY <2>4 DEF Ticket!Void
  <2>5. CASE UNCHANGED Ticket!shot
    BY <2>5 DEF Ticket!shot
  <2> QED BY <2>2, <2>3, <2>4, <2>5 DEF Ticket!Next
<1>3. Told => PaysAtMostOnce
  BY DEF PaysAtMostOnce
<1> QED BY <1>1, <1>2, <1>3, DeviceCodesImplementOneShot, TypeCorrect, PTL DEF Ticket!Spec, DeviceCodesAreOneShot
=============================================================================
