----------------------------- MODULE DeviceFlow -----------------------------
(***************************************************************************)
(* The device authorization grant, RFC 8628: a device polls, a person      *)
(* approves or denies (src/oauth/device-flow.service.ts, its endpoints and *)
(* grantDeviceCode of token-grant.service.ts).                             *)
(*                                                                         *)
(* A step is one database statement with the code up to the next await.    *)
(* Every decision is taken on the row as it was read; every update is by   *)
(* id and checks nothing but that the row is still there (P2025).          *)
(***************************************************************************)
EXTENDS Integers, FiniteSets

CONSTANTS Codes,     \* DeviceAuthorization rows
          Procs,     \* concurrent requests
          Users, NoUser,
          TTL,       \* DEFAULT_TTL_SECONDS, in ticks
          Interval,  \* DEFAULT_INTERVAL_SECONDS
          Penalty,   \* what slow_down adds to it
          MaxTime,   \* bound of the clock
          MaxInterval \* bound: a device that is told to slow down gives up

ASSUME ConstAssumption ==
  /\ NoUser \notin Users
  /\ TTL \in Nat /\ Interval \in Nat \ {0} /\ Penalty \in Nat \ {0}
  /\ MaxTime \in Nat \ {0} /\ MaxInterval \in Nat

VARIABLES
  row,      \* the table
  now,      \* the clock
  req,      \* requests: where each stands and what it has read
  paid,     \* how often a code was turned into tokens
  paidTo,   \* for whom
  approved, \* history: who approved a code
  final     \* history: codes denied while nothing else was deciding

vars == <<row, now, req, paid, paidTo, approved, final>>

User0 == Users \cup {NoUser}
Row   == [st : {"none", "pending", "approved", "denied", "expired", "deleted"},
          user : User0, expiresAt : 0..(MaxTime + TTL),
          polledAt : 0..MaxTime,   \* 0 is SQL NULL
          interval : Nat]
Blank == [st |-> "none", user |-> NoUser, expiresAt |-> 0, polledAt |-> 0, interval |-> 0]

Request ==
  [pc : {"idle", "decide", "approve", "deny", "poll", "expire", "slow", "touch",
         "delete", "issue"},
   op : {"none", "approve", "deny", "poll"},
   code : Codes \cup {NoUser}, user : User0, seen : Row, at : 0..MaxTime,
   answer : {"none", "ok", "approved", "denied", "refused", "pending", "slow_down",
             "access_denied", "expired_token", "invalid_grant", "error", "crashed"}]
Idle == [pc |-> "idle", op |-> "none", code |-> NoUser, user |-> NoUser,
         seen |-> Blank, at |-> 0, answer |-> "none"]

Init ==
  /\ row = [c \in Codes |-> Blank]
  /\ now = 1
  /\ req = [p \in Procs |-> Idle]
  /\ paid = [c \in Codes |-> 0]
  /\ paidTo = [c \in Codes |-> {}]
  /\ approved = [c \in Codes |-> {}]
  /\ final = {}

-----------------------------------------------------------------------------
At(p, l)     == req[p].pc = l
Exists(c)    == row[c].st \notin {"none", "deleted"}
Lapsed(r)    == r.expiresAt < now
Finish(p, a) == req' = [req EXCEPT ![p] = [Idle EXCEPT !.answer = a]]

Begin(p, o, c, u) ==
  /\ At(p, "idle") /\ row[c].st # "none"
  /\ req' = [req EXCEPT ![p] = [Idle EXCEPT !.pc = IF o = "poll" THEN "poll" ELSE "decide",
                                            !.op = o, !.code = c, !.user = u]]
  /\ UNCHANGED <<row, now, paid, paidTo, approved, final>>

Ledger == <<paid, paidTo, approved, final>>

\* POST /oauth/device_authorization.
Issue(c) ==
  /\ row[c].st = "none"
  /\ row' = [row EXCEPT ![c] = [Blank EXCEPT !.st = "pending", !.expiresAt = now + TTL,
                                             !.interval = Interval]]
  /\ UNCHANGED <<now, req, Ledger>>

-----------------------------------------------------------------------------
(* The person decides *)

\* Mutant: approve looks the code up and takes it whatever its status.
DecisionAny(p, r) ==
  IF req[p].op = "approve" \/ r.st = "pending" THEN "update" ELSE "ignore"

\* approve and deny, on the row just read: update it, leave it be, or refuse.
Decision(p, r) ==
  CASE r.st = "pending"                                       -> "update"
    [] req[p].op = "approve" /\ r.st = "approved" /\ r.user = req[p].user -> "same"
    [] req[p].op = "approve"                                  -> "refuse"
    [] OTHER                                                  -> "ignore"

\* findByUserCode and the checks on what it found.  The endpoint answers
\* "denied" to every deny.
Decide(p) ==
  LET r == row[req[p].code]
      found == Exists(req[p].code) /\ ~Lapsed(r)
  IN  /\ At(p, "decide")
      /\ \/ ~found /\ Finish(p, IF req[p].op = "deny" THEN "denied" ELSE "refused")
         \/ found /\ Decision(p, r) = "update" /\ req' = [req EXCEPT ![p].pc = req[p].op]
         \/ found /\ Decision(p, r) = "same"   /\ Finish(p, "approved")
         \/ found /\ Decision(p, r) = "refuse" /\ Finish(p, "refused")
         \/ found /\ Decision(p, r) = "ignore" /\ Finish(p, "denied")
      /\ UNCHANGED <<row, now, Ledger>>

\* The update by id; a row that is gone is an error.
ApproveRow(p) ==
  LET c == req[p].code
  IN  /\ At(p, "approve")
      /\ IF Exists(c)
         THEN /\ row' = [row EXCEPT ![c].st = "approved", ![c].user = req[p].user]
              /\ approved' = [approved EXCEPT ![c] = @ \cup {req[p].user}]
              /\ Finish(p, "approved")
         ELSE Finish(p, "error") /\ UNCHANGED <<row, approved>>
      /\ UNCHANGED <<now, paid, paidTo, final>>

Approving(c) == \E q \in Procs : At(q, "approve") /\ req[q].code = c

DenyRow(p) ==
  LET c == req[p].code
  IN  /\ At(p, "deny")
      /\ IF Exists(c)
         THEN /\ row' = [row EXCEPT ![c].st = "denied"]
              /\ final' = IF row[c].st = "pending" /\ ~Approving(c)
                          THEN final \cup {c} ELSE final
              /\ Finish(p, "denied")
         ELSE Finish(p, "error") /\ UNCHANGED <<row, final>>
      /\ UNCHANGED <<now, paid, paidTo, approved>>

-----------------------------------------------------------------------------
(* The device polls *)

\* pollForApproval: the row is read once; a code that is unknown (or another
\* client's) is invalid_grant.
Poll(p) ==
  LET c == req[p].code
      r == row[c]
      soon == r.polledAt # 0 /\ now - r.polledAt < r.interval
  IN  /\ At(p, "poll")
      /\ \/ ~Exists(c) /\ Finish(p, "invalid_grant")
         \/ /\ Exists(c)
            /\ soon => r.interval <= MaxInterval
            /\ req' = [req EXCEPT ![p].seen = r, ![p].at = now,
                                  ![p].pc = CASE Lapsed(r)          -> "expire"
                                              [] ~Lapsed(r) /\ soon -> "slow"
                                              [] OTHER              -> "touch"]
      /\ UNCHANGED <<row, now, Ledger>>

\* An update by id of a row the poll has read: the new row, or P2025.
UpdateRow(p, r, a) ==
  IF Exists(req[p].code)
  THEN row' = [row EXCEPT ![req[p].code] = r] /\ Finish(p, a)
  ELSE Finish(p, "error") /\ UNCHANGED row

MarkExpired(p) ==
  /\ At(p, "expire")
  /\ UpdateRow(p, [row[req[p].code] EXCEPT !.st = "expired"], "expired_token")
  /\ UNCHANGED <<now, Ledger>>

SlowDown(p) ==
  /\ At(p, "slow")
  /\ UpdateRow(p, [row[req[p].code] EXCEPT !.polledAt = req[p].at,
                                           !.interval = req[p].seen.interval + Penalty],
               "slow_down")
  /\ UNCHANGED <<now, Ledger>>

\* Mutant: the poll writes back the whole row it read.
TouchedWhole(p) == [req[p].seen EXCEPT !.polledAt = req[p].at]

Touched(p) == [row[req[p].code] EXCEPT !.polledAt = req[p].at]

\* Mutant: only a denial keeps the tokens back.
TouchUndecided(p) ==
  /\ At(p, "touch")
  /\ IF req[p].seen.st # "denied" /\ Exists(req[p].code)
     THEN /\ row' = [row EXCEPT ![req[p].code] = Touched(p)]
          /\ req' = [req EXCEPT ![p].pc = "delete"]
     ELSE UpdateRow(p, Touched(p), "access_denied")
  /\ UNCHANGED <<now, Ledger>>

\* lastPolledAt, then the answer for the status that was read.
Touch(p) ==
  LET s == req[p].seen.st
  IN  /\ At(p, "touch")
      /\ IF s = "approved"
         THEN IF Exists(req[p].code)
              THEN /\ row' = [row EXCEPT ![req[p].code] = Touched(p)]
                   /\ req' = [req EXCEPT ![p].pc = "delete"]
              ELSE Finish(p, "error") /\ UNCHANGED row
         ELSE UpdateRow(p, Touched(p), CASE s = "denied"  -> "access_denied"
                                         [] s = "pending" -> "pending"
                                         [] OTHER         -> "invalid_grant")
      /\ UNCHANGED <<now, Ledger>>

\* Mutant: deleteMany, which does not mind a row that is gone.
DeleteRowQuiet(p) ==
  /\ At(p, "delete")
  /\ row' = [row EXCEPT ![req[p].code].st = "deleted"]
  /\ req' = [req EXCEPT ![p].pc = "issue"]
  /\ UNCHANGED <<now, Ledger>>

\* "Single-use": of two polls that saw the approval one deletes the row.
DeleteRow(p) ==
  LET c == req[p].code
  IN  /\ At(p, "delete")
      /\ IF Exists(c)
         THEN /\ row' = [row EXCEPT ![c].st = "deleted"]
              /\ req' = [req EXCEPT ![p].pc = "issue"]
         ELSE Finish(p, "error") /\ UNCHANGED row
      /\ UNCHANGED <<now, Ledger>>

\* The user of the row as it was read.
Payee(p) == req[p].seen.user

\* grantDeviceCode: the user, who may be gone, and generateTokens.
IssueTokens(p) ==
  LET c == req[p].code
  IN  /\ At(p, "issue")
      /\ \/ /\ paid' = [paid EXCEPT ![c] = @ + 1]
            /\ paidTo' = [paidTo EXCEPT ![c] = @ \cup {Payee(p)}]
            /\ Finish(p, "ok")
         \/ Finish(p, "invalid_grant") /\ UNCHANGED <<paid, paidTo>>
      /\ UNCHANGED <<row, now, approved, final>>

Crash(p) ==
  /\ ~At(p, "idle")
  /\ Finish(p, "crashed")
  /\ UNCHANGED <<row, now, Ledger>>

Tick ==
  /\ now < MaxTime
  /\ now' = now + 1
  /\ UNCHANGED <<row, req, Ledger>>

-----------------------------------------------------------------------------
Step(p) ==
  \/ Decide(p) \/ ApproveRow(p) \/ DenyRow(p)
  \/ Poll(p) \/ MarkExpired(p) \/ SlowDown(p) \/ Touch(p) \/ DeleteRow(p) \/ IssueTokens(p)

Start(p) ==
  \E c \in Codes : \/ \E u \in Users : Begin(p, "approve", c, u)
                   \/ Begin(p, "deny", c, NoUser)
                   \/ Begin(p, "poll", c, NoUser)

Next ==
  \/ \E c \in Codes : Issue(c)
  \/ \E p \in Procs : Start(p) \/ Step(p) \/ Crash(p)
  \/ Tick

Spec == Init /\ [][Next]_vars

-----------------------------------------------------------------------------
(* Properties *)

TypeOK ==
  /\ row \in [Codes -> Row]
  /\ now \in 1..MaxTime
  /\ req \in [Procs -> Request]
  /\ paid \in [Codes -> Nat]
  /\ paidTo \in [Codes -> SUBSET Users]
  /\ approved \in [Codes -> SUBSET Users]
  /\ final \in SUBSET Codes

\* A device code pays out at most once, and never once it lapsed or its row is
\* gone: the table implements OneShot.  A poll that read the approval in time
\* holds the ticket; a denied code is still open to an approval under way.
Holding(c) == \E p \in Procs :
                /\ req[p].code = c /\ req[p].seen.st = "approved"
                /\ \/ At(p, "issue")
                   \/ req[p].pc \in {"touch", "delete"} /\ Exists(c)
Live(c) == \/ Holding(c)
           \/ /\ Exists(c) /\ ~Lapsed(row[c])
              /\ row[c].st \in {"pending", "approved"} \/ Approving(c)
StandingOf(c) ==
  CASE row[c].st = "none"                               -> "new"
    [] row[c].st # "none" /\ paid[c] > 0                -> "spent"
    [] row[c].st # "none" /\ ~(paid[c] > 0) /\ Live(c)  -> "open"
    [] row[c].st # "none" /\ ~(paid[c] > 0) /\ ~Live(c) -> "void"
Standing == [c \in Codes |-> StandingOf(c)]
Ticket == INSTANCE OneShot WITH Tickets <- Codes, status <- Standing
DeviceCodesAreOneShot == Ticket!Spec

\* Tokens go to a person who approved that code, whoever else raced them.
PaidToApprover == \A c \in Codes : paidTo[c] \subseteq approved[c]

\* A code denied while nobody was approving it never pays out.
DeniedIsFinal == \A c \in final : paid[c] = 0

\* Whom a code pays, and whether, is what was decided about it.
PaidAsDecided == PaidToApprover /\ DeniedIsFinal

\* No poll undoes a decision: a decided code is pending never again, and an
\* approved one in time stays so until a poll that read the approval deletes it
\* or a deny that was under way overwrites it.
DecisionsStand ==
  [][\A c \in Codes :
       /\ row[c].st \in {"approved", "denied"} => row'[c].st # "pending"
       /\ row[c].st = "approved" /\ row'[c].st # "approved"
          => \E p \in Procs : /\ req[p].code = c
                              /\ \/ At(p, "delete") /\ row'[c].st = "deleted"
                                 \/ At(p, "deny") /\ row'[c].st = "denied"
                                 \/ At(p, "expire") /\ Lapsed(row[c])]_vars
=============================================================================
