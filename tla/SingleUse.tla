----------------------------- MODULE SingleUse -----------------------------
(***************************************************************************)
(* The values the service means to accept once, and the ways it keeps      *)
(* count of them:                                                          *)
(*   uri        a key put at issue and taken with GETDEL (par.service.ts;  *)
(*              passkey challenges, SIWE nonces and federation states are  *)
(*              taken the same way)                                        *)
(*   payload    SET NX when it is used (telegram-auth.service.ts)          *)
(*   assertion  a unique row inserted when it is used, reaped hourly       *)
(*              (client-assertion.service.ts, its jti store and reaper)    *)
(*   proof      GET, then SET (dpop.service.ts)                            *)
(*   call       GET, run the handler, then SET (idempotency.interceptor.ts)*)
(*   link       an unused row read, then updated by id                     *)
(*              (magic-link.service.ts)                                    *)
(*                                                                         *)
(* A step is one Redis command or SQL statement with the code around it,   *)
(* from the await before to the await after.                               *)
(***************************************************************************)
EXTENDS Integers, FiniteSets

CONSTANTS Values, NoValue,
          Procs,      \* concurrent requests
          UriTTL,     \* PAR_TTL_SECONDS, in ticks, like every duration below
          LinkTTL,    \* 15 minutes
          IatSkew,    \* IAT_TOLERANCE_S
          JtiTTL,     \* JTI_TTL_S
          Tolerance,  \* clockTolerance
          MaxLife,    \* MAX_ASSERTION_LIFETIME_S
          FutureSkew, \* FUTURE_SKEW_SECONDS
          MaxAge,     \* TELEGRAM_AUTH_MAX_AGE
          Margin,     \* what signIn adds to it
          ReplyTTL,   \* the interceptor's TTL_SECONDS
          MaxTime,    \* bound of the clock, and of the times values carry
          MaxUses     \* bound: a value accepted that often is shown no more

ASSUME ConstAssumption ==
  /\ NoValue \notin Values
  /\ {UriTTL, LinkTTL, IatSkew, JtiTTL, Tolerance, MaxLife, FutureSkew, MaxAge,
      Margin, ReplyTTL} \subseteq Nat
  /\ UriTTL # 0
  /\ MaxTime \in Nat \ {0} /\ MaxUses \in Nat
  /\ FutureSkew < Margin   \* 60 s and 120 s

VARIABLES
  kind,   \* what each value is
  born,   \* the time it carries: of issue, auth_date, exp, iat; 0 before it exists
  mark,   \* its key or row
  now,    \* the clock
  req,    \* requests: where each stands
  uses,   \* how often each value was accepted
  usedAt, \* history: when it last was
  early   \* history: requests that looked their value up before its last use
          \* was recorded

vars == <<kind, born, mark, now, req, uses, usedAt, early>>

Kinds == {"uri", "payload", "assertion", "proof", "call", "link"}
Rows  == {"assertion", "link"}   \* kept in SQL: they stay until deleted
Mark  == [st : {"none", "open", "used"}, until : Nat]
Blank == [st |-> "none", until |-> 0]
Used(t) == [st |-> "used", until |-> t]

Request == [pc : {"idle", "store", "run", "update"}, value : Values \cup {NoValue}]
Idle == [pc |-> "idle", value |-> NoValue]

Init ==
  /\ kind \in [Values -> Kinds]
  /\ born = [v \in Values |-> 0]
  /\ mark = [v \in Values |-> Blank]
  /\ now = 1
  /\ req = [p \in Procs |-> Idle]
  /\ uses = [v \in Values |-> 0]
  /\ usedAt = [v \in Values |-> 0]
  /\ early = {}

-----------------------------------------------------------------------------
At(p, l)  == req[p].pc = l
Finish(p) == req' = [req EXCEPT ![p] = Idle]
History   == <<uses, usedAt, early>>

\* A key is gone when its time is up; a row when it is deleted.
Present(v) == mark[v].st # "none" /\ (kind[v] \in Rows \/ now < mark[v].until)

\* A value of kind k that exists is shown by a request that has nothing else
\* to do.
Shown(p, v, k) == kind[v] = k /\ born[v] # 0 /\ uses[v] < MaxUses /\ At(p, "idle")

\* The look has decided for the value; the request goes on to l.
Go(p, v, l) ==
  /\ req' = [req EXCEPT ![p] = [pc |-> l, value |-> v]]
  /\ early' = early \ {p}
  /\ UNCHANGED <<uses, usedAt>>

\* The value is accepted.
Accept(p, v) ==
  /\ uses' = [uses EXCEPT ![v] = @ + 1]
  /\ usedAt' = [usedAt EXCEPT ![v] = now]
  /\ early' = (early \cup {q \in Procs : req[q].value = v}) \ {p}
  /\ Finish(p)

-----------------------------------------------------------------------------
(* Values come into being *)

\* ParService.push.
Push(v) ==
  /\ kind[v] = "uri" /\ born[v] = 0
  /\ born' = [born EXCEPT ![v] = now]
  /\ mark' = [mark EXCEPT ![v] = [st |-> "open", until |-> now + UriTTL]]
  /\ UNCHANGED <<kind, now, req, History>>

\* generateMagicLink.
GenerateLink(v) ==
  /\ kind[v] = "link" /\ born[v] = 0
  /\ born' = [born EXCEPT ![v] = now]
  /\ mark' = [mark EXCEPT ![v] = [st |-> "open", until |-> now + LinkTTL]]
  /\ UNCHANGED <<kind, now, req, History>>

\* Somebody else makes the value, by a clock that may run ahead.  One that
\* runs behind makes values as if earlier.
Make(v, t) ==
  /\ kind[v] \notin {"uri", "link"} /\ born[v] = 0
  /\ t >= now
  /\ born' = [born EXCEPT ![v] = t]
  /\ UNCHANGED <<kind, mark, now, req, History>>

-----------------------------------------------------------------------------
(* GETDEL *)

\* Mutant: the key is marked, not deleted.
TakenMarked(v) == [mark[v] EXCEPT !.st = "used"]

Taken(v) == Blank

\* ParService.consume: the key goes whoever asks; only its own client gets the
\* request.
Consume(p, v, own) ==
  /\ Shown(p, v, "uri") /\ Present(v)
  /\ mark' = [mark EXCEPT ![v] = Taken(v)]
  /\ IF own THEN Accept(p, v) ELSE UNCHANGED <<req, History>>
  /\ UNCHANGED <<kind, born, now>>

-----------------------------------------------------------------------------
(* SET NX *)

\* assertFresh: auth_date is not far ahead, nor too old.
FreshPayload(t) == t <= now + FutureSkew /\ now - t <= MaxAge

\* Mutant: the key lives as long as a payload's age allows, and no longer.
PayloadKeyBare == MaxAge

PayloadKey == MaxAge + Margin

\* TelegramAuthService.signIn: setIfAbsent decides.
Claim(p, v) ==
  /\ Shown(p, v, "payload") /\ FreshPayload(born[v])
  /\ ~Present(v)
  /\ mark' = [mark EXCEPT ![v] = Used(now + PayloadKey)]
  /\ Accept(p, v)
  /\ UNCHANGED <<kind, born, now>>

-----------------------------------------------------------------------------
(* A unique row *)

\* jwtVerify allows for clocks apart; enforceReplay bounds the lifetime.
LiveAssertion(t) == t > now - Tolerance /\ t - now <= MaxLife

\* ClientAssertionJtiStore.consume: the unique key decides (P2002).
Insert(p, v) ==
  /\ Shown(p, v, "assertion") /\ LiveAssertion(born[v])
  /\ ~Present(v)
  /\ mark' = [mark EXCEPT ![v] = Used(born[v])]
  /\ Accept(p, v)
  /\ UNCHANGED <<kind, born, now>>

Gone(k) == {v \in Values : kind[v] = k /\ Present(v) /\ mark[v].until < now}

\* reapExpired, hourly.
Reap ==
  /\ Gone("assertion") # {}
  /\ mark' = [v \in Values |-> IF v \in Gone("assertion") THEN Blank ELSE mark[v]]
  /\ UNCHANGED <<kind, born, now, req, History>>

-----------------------------------------------------------------------------
(* GET, then SET *)

\* assertBindings: iat within the tolerance of now, either way.
FreshProof(t) == now - t <= IatSkew /\ t - now <= IatSkew

\* assertNotReplayed: the jti is not known...
Look(p, v) ==
  /\ Shown(p, v, "proof") /\ FreshProof(born[v])
  /\ ~Present(v)
  /\ Go(p, v, "store")
  /\ UNCHANGED <<kind, born, mark, now>>

\* Mutant: the jti is forgotten a tick early.
JtiKeyShort == JtiTTL - 1

JtiKey == JtiTTL

\* ...and now it is.
Store(p) ==
  LET v == req[p].value
  IN  /\ At(p, "store")
      /\ mark' = [mark EXCEPT ![v] = Used(now + JtiKey)]
      /\ Accept(p, v)
      /\ UNCHANGED <<kind, born, now>>

-----------------------------------------------------------------------------
(* GET, run, then SET *)

\* intercept: no reply is kept for this call, so the handler runs.
Call(p, v) ==
  /\ Shown(p, v, "call")
  /\ ~Present(v)
  /\ Go(p, v, "run")
  /\ UNCHANGED <<kind, born, mark, now>>

\* It fails, and nothing is kept...
RunFails(p) ==
  /\ At(p, "run")
  /\ Finish(p)
  /\ UNCHANGED <<kind, born, mark, now, History>>

\* ...or answers, and its reply is kept unless that write is lost.
Run(p, kept) ==
  LET v == req[p].value
  IN  /\ At(p, "run")
      /\ mark' = [mark EXCEPT ![v] = IF kept THEN Used(now + ReplyTTL) ELSE @]
      /\ Accept(p, v)
      /\ UNCHANGED <<kind, born, now>>

-----------------------------------------------------------------------------
(* A row read, then updated by id *)

Usable(v) == Present(v) /\ mark[v].st = "open" /\ ~(mark[v].until < now)

\* verifyMagicLink: an unused link in time...
FindLink(p, v) ==
  /\ Shown(p, v, "link") /\ Usable(v)
  /\ Go(p, v, "update")
  /\ UNCHANGED <<kind, born, mark, now>>

\* ...is marked used, unless the cleanup took it (P2025).
UseLink(p) ==
  LET v == req[p].value
  IN  /\ At(p, "update")
      /\ IF Present(v)
         THEN mark' = [mark EXCEPT ![v].st = "used"] /\ Accept(p, v)
         ELSE Finish(p) /\ UNCHANGED <<mark, History>>
      /\ UNCHANGED <<kind, born, now>>

\* cleanupExpired, hourly.
CleanupLinks ==
  /\ Gone("link") # {}
  /\ mark' = [v \in Values |-> IF v \in Gone("link") THEN Blank ELSE mark[v]]
  /\ UNCHANGED <<kind, born, now, req, History>>

-----------------------------------------------------------------------------
Crash(p) ==
  /\ ~At(p, "idle")
  /\ Finish(p)
  /\ UNCHANGED <<kind, born, mark, now, History>>

Tick ==
  /\ now < MaxTime
  /\ now' = now + 1
  /\ UNCHANGED <<kind, born, mark, req, History>>

Next ==
  \/ \E v \in Values : \/ Push(v) \/ GenerateLink(v)
                       \/ \E t \in 1..MaxTime : Make(v, t)
  \/ \E p \in Procs, v \in Values : \/ \E own \in BOOLEAN : Consume(p, v, own)
                                    \/ Claim(p, v) \/ Insert(p, v)
                                    \/ Look(p, v) \/ Call(p, v) \/ FindLink(p, v)
  \/ \E p \in Procs : \/ Store(p) \/ RunFails(p) \/ UseLink(p) \/ Crash(p)
                      \/ \E kept \in BOOLEAN : Run(p, kept)
  \/ Reap \/ CleanupLinks \/ Tick

Spec == Init /\ [][Next]_vars

-----------------------------------------------------------------------------
(* Properties *)

TypeOK ==
  /\ kind \in [Values -> Kinds]
  /\ born \in [Values -> 0..MaxTime]
  /\ mark \in [Values -> Mark]
  /\ \A v \in Values : kind[v] = "uri" => mark[v].st # "used"
  /\ now \in 1..MaxTime
  /\ req \in [Procs -> Request]
  /\ uses \in [Values -> Nat] /\ usedAt \in [Values -> 0..MaxTime]
  /\ early \in SUBSET Procs

Atomic == {"uri", "payload"}

\* A value of these kinds that exists, and one that would still be accepted.
Issued(v) == kind[v] \in Atomic /\ born[v] # 0
Live(v)   == \/ kind[v] = "uri" /\ Present(v)
             \/ kind[v] = "payload" /\ now - born[v] <= MaxAge

\* Where each stands, as a ticket, and how often it was accepted.
StandingOf(v) ==
  CASE ~Issued(v)                               -> "new"
    [] Issued(v) /\ uses[v] > 0                 -> "spent"
    [] Issued(v) /\ ~(uses[v] > 0) /\ Live(v)   -> "open"
    [] Issued(v) /\ ~(uses[v] > 0) /\ ~Live(v)  -> "void"
PayoutOf(v) == IF kind[v] \in Atomic THEN uses[v] ELSE 0

Standing == [v \in Values |-> StandingOf(v)]
Payouts  == [v \in Values |-> PayoutOf(v)]
Ticket   == INSTANCE OneShot WITH Tickets <- Values, status <- Standing, paid <- Payouts

\* A value taken with one atomic command is accepted at most once, whoever asks
\* and however clocks differ: a used payload stays known until it is too old
\* (par.service.ts:73-75, telegram-auth.service.ts:141).
AtomicOnesAreOneShot == Ticket!Spec

\* What it takes for a value to be accepted again by a request that looked it
\* up after its last use was recorded.
Excused(v) ==
  \/ kind[v] = "proof" /\ born[v] - usedAt[v] >= JtiTTL - IatSkew
  \/ kind[v] = "assertion" /\ born[v] < now
  \/ kind[v] = "call" /\ ~Present(v)

\* The other ways accept a value again only to requests that overlap; or a
\* proof whose iat ran ahead so far that its freshness outlasts the key
\* (dpop.service.ts:28-30), an assertion past its own exp, within the tolerance
\* (client-assertion-jti-reaper.service.ts:6), a call whose reply is not kept.
\* A link, not at all.
SecondUseIsExcused ==
  [][\A v \in Values :
       uses[v] > 0 /\ uses'[v] > uses[v]
         => \/ \E p \in early : req[p].value = v /\ req'[p] = Idle
            \/ Excused(v)]_vars
=============================================================================
