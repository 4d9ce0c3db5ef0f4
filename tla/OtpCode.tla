------------------------------ MODULE OtpCode ------------------------------
(***************************************************************************)
(* One-time codes by e-mail or SMS, for one subject                        *)
(* (src/auth/otp/otp.service.ts): a record in Redis that is read, decided  *)
(* on and deleted or written back; a cooldown key; a count of the hour's   *)
(* sends, read and written back.                                           *)
(*                                                                         *)
(* A step is one Redis command with the code up to the next await.         *)
(***************************************************************************)
EXTENDS Integers, FiniteSets

CONSTANTS Procs,        \* concurrent requests
          MaxCodes,     \* bound: codes are numbered, and only so many are sent
          Watched,      \* the code whose fate the histories follow
          MaxAttempts,  \* MAX_ATTEMPTS
          MaxSends,     \* MAX_SENDS_PER_HOUR
          CodeTTL,      \* CODE_TTL_SECONDS, in ticks
          Cooldown,     \* COOLDOWN_SECONDS
          Hour,
          MaxTime       \* bound of the clock

ASSUME ConstAssumption ==
  /\ IsFiniteSet(Procs)
  /\ MaxCodes \in Nat /\ Watched \in 1..MaxCodes
  /\ MaxAttempts \in Nat \ {0} /\ MaxSends \in Nat \ {0}
  /\ CodeTTL \in Nat \ {0} /\ Cooldown \in Nat \ {0} /\ Hour \in Nat \ {0}
  /\ MaxTime \in Nat \ {0}

VARIABLES
  rec,      \* the record under the subject's key
  cooling,  \* until when the cooldown key stands; 0 is never
  sends,    \* the count under the hour's key
  now,      \* the clock
  req,      \* requests: where each stands and what it has read
  sentAt,   \* when each code was admitted; 0 is not yet
  tries,    \* history: verifications answered on the watched code, right or wrong
  wins,     \* history: how often it was accepted
  early,    \* history: verifications that read it before its record went
  revived,  \* history: whether such a one has written it back
  overlap   \* history: a send has read the count while another was about to write it

vars == <<rec, cooling, sends, now, req, sentAt, tries, wins, early, revived, overlap>>

Codes   == 1..MaxCodes
Record  == [code : 0..MaxCodes, attempts : Nat, expiresAt : Nat]   \* code 0: no record
NoRec   == [code |-> 0, attempts |-> 0, expiresAt |-> 0]
Window  == [count : Nat, resetAt : Nat]
NoSends == [count |-> 0, resetAt |-> 0]

Request == [pc : {"idle", "count", "bump", "put", "lapse", "win", "burn", "back"},
            seen : Record, sends : Window, at : Nat]
Idle == [pc |-> "idle", seen |-> NoRec, sends |-> NoSends, at |-> 0]

Init ==
  /\ rec = NoRec /\ cooling = 0 /\ sends = NoSends
  /\ now = 1
  /\ req = [p \in Procs |-> Idle]
  /\ sentAt = [c \in Codes |-> 0]
  /\ tries = 0 /\ wins = 0
  /\ early = {} /\ revived = FALSE /\ overlap = FALSE

-----------------------------------------------------------------------------
At(p, l)  == req[p].pc = l
Finish(p) == req' = [req EXCEPT ![p] = Idle]
Limits    == <<cooling, sends, sentAt, overlap>>
Ledger    == <<tries, wins, early, revived>>

\* Verifications that hold the watched code.
Holding   == {q \in Procs : req[q].seen.code = Watched}

-----------------------------------------------------------------------------
(* generateAndSend *)

\* enforceRateLimits: one send per cooldown (SET NX).
Admit(p) ==
  /\ At(p, "idle") /\ now >= cooling
  /\ cooling' = now + Cooldown
  /\ req' = [req EXCEPT ![p].pc = "count"]
  /\ UNCHANGED <<rec, sends, now, sentAt, overlap, Ledger>>

\* Mutant: the count is not carried on.
NextAfresh == [count |-> 1,
               resetAt |-> IF sends.resetAt > now THEN sends.resetAt ELSE now + Hour]

\* The count with this send; an hour that is over starts anew.
NextSends ==
  IF sends.resetAt > now
  THEN [sends EXCEPT !.count = @ + 1]
  ELSE [count |-> 1, resetAt |-> now + Hour]

\* The hour's count is read...
ReadCount(p) ==
  /\ At(p, "count")
  /\ IF NextSends.count > MaxSends
     THEN Finish(p) /\ UNCHANGED overlap
     ELSE /\ req' = [req EXCEPT ![p] = [Idle EXCEPT !.pc = "bump", !.sends = NextSends, !.at = now]]
          /\ overlap' = (overlap \/ \E q \in Procs : At(q, "bump"))
  /\ UNCHANGED <<rec, cooling, sends, now, sentAt, Ledger>>

\* ...and written back.
WriteCount(p) ==
  /\ At(p, "bump")
  /\ sends' = req[p].sends
  /\ req' = [req EXCEPT ![p].pc = "put", ![p].sends = NoSends]
  /\ UNCHANGED <<rec, cooling, now, sentAt, overlap, Ledger>>

\* A new code takes the key, whatever was there.
Put(p, c) ==
  /\ At(p, "put")
  /\ sentAt[c] = 0 /\ \A d \in Codes : d < c => sentAt[d] # 0
  /\ rec' = [code |-> c, attempts |-> 0, expiresAt |-> now + CodeTTL]
  /\ sentAt' = [sentAt EXCEPT ![c] = req[p].at]
  /\ Finish(p)
  /\ early' = Holding
  /\ UNCHANGED <<cooling, sends, now, tries, wins, revived, overlap>>

-----------------------------------------------------------------------------
(* verify *)

\* Mutant: the misses are counted one too many.
VerdictLate(right) ==
  CASE rec.expiresAt <= now                                     -> "lapse"
    [] rec.expiresAt > now /\ right                             -> "win"
    [] rec.expiresAt > now /\ ~right /\ rec.attempts >= MaxAttempts -> "burn"
    [] OTHER                                                    -> "back"

\* What the record that was read says of the code that was typed.
Verdict(right) ==
  CASE rec.expiresAt <= now                                     -> "lapse"
    [] rec.expiresAt > now /\ right                             -> "win"
    [] rec.expiresAt > now /\ ~right /\ rec.attempts + 1 >= MaxAttempts -> "burn"
    [] OTHER                                                    -> "back"

Verify(p, right) ==
  /\ At(p, "idle") /\ rec.code # 0
  /\ req' = [req EXCEPT ![p] = [Idle EXCEPT !.pc = Verdict(right), !.seen = rec]]
  /\ early' = early \ {p}
  /\ UNCHANGED <<rec, now, Limits, tries, wins, revived>>

\* p is answered; it was about the watched code, or not.
Answered(p) == tries' = IF p \in Holding THEN tries + 1 ELSE tries
Won(p)      == wins' = IF p \in Holding THEN wins + 1 ELSE wins

\* The key is deleted, whatever record it holds by now: that code is settled.
Delete(p) ==
  /\ rec' = NoRec
  /\ early' = Holding \ {p}
  /\ Finish(p)

Lapse(p) ==
  /\ At(p, "lapse")
  /\ Delete(p)
  /\ UNCHANGED <<now, Limits, tries, wins, revived>>

\* Mutant: a code that was accepted stays.
WinKept(p) ==
  /\ At(p, "win")
  /\ Won(p)
  /\ Answered(p)
  /\ Finish(p)
  /\ UNCHANGED <<rec, now, Limits, early, revived>>

Win(p) ==
  /\ At(p, "win")
  /\ Delete(p)
  /\ Won(p)
  /\ Answered(p)
  /\ UNCHANGED <<now, Limits, revived>>

Burn(p) ==
  /\ At(p, "burn")
  /\ Delete(p)
  /\ Answered(p)
  /\ UNCHANGED <<now, Limits, wins, revived>>

\* Mutant: the record is written back as it was read.
MissedSame(p) == req[p].seen

Missed(p) == [req[p].seen EXCEPT !.attempts = @ + 1]

\* A miss writes back what it read, one attempt on.
WriteBack(p) ==
  /\ At(p, "back")
  /\ rec' = Missed(p)
  /\ revived' = (revived \/ p \in early)
  /\ early' = (IF p \in Holding THEN early ELSE Holding) \ {p}
  /\ Answered(p)
  /\ Finish(p)
  /\ UNCHANGED <<now, Limits, wins>>

-----------------------------------------------------------------------------
\* Redis drops the record when its time is up.
Expire ==
  /\ rec.code # 0 /\ rec.expiresAt <= now
  /\ rec' = NoRec
  /\ UNCHANGED <<now, req, Limits, Ledger>>

Crash(p) ==
  /\ ~At(p, "idle")
  /\ Finish(p)
  /\ UNCHANGED <<rec, now, Limits, Ledger>>

Tick ==
  /\ now < MaxTime
  /\ now' = now + 1
  /\ UNCHANGED <<rec, req, Limits, Ledger>>

Next ==
  \/ \E p \in Procs : \/ Admit(p) \/ ReadCount(p) \/ WriteCount(p)
                      \/ \E c \in Codes : Put(p, c)
                      \/ \E right \in BOOLEAN : Verify(p, right)
                      \/ Lapse(p) \/ Win(p) \/ Burn(p) \/ WriteBack(p) \/ Crash(p)
  \/ Expire \/ Tick

Spec == Init /\ [][Next]_vars

-----------------------------------------------------------------------------
(* Properties *)

TypeOK ==
  /\ rec \in Record /\ (rec.code = 0 => rec = NoRec)
  /\ rec.attempts < MaxAttempts
  /\ cooling \in Nat /\ sends \in Window
  /\ now \in 1..MaxTime
  /\ req \in [Procs -> Request]
  /\ sentAt \in [Codes -> 0..MaxTime]
  /\ tries \in Nat /\ wins \in Nat
  /\ early \in SUBSET Procs /\ revived \in BOOLEAN /\ overlap \in BOOLEAN

\* k requests at a time get at most this many answers out of n attempts: one of
\* them is left holding a stale record, or the attempts rise by one, and so it
\* is the number of ways to choose n out of k + n, less one.
Answers(k, n) == Cardinality({S \in SUBSET (1..(k + n)) : Cardinality(S) = n}) - 1

\* Misses that overlap write back what they read, and may bring back a code
\* that was burned meanwhile; what that buys is bounded all the same
\* (otp.service.ts:22, :187-203).
TriesAreBounded == tries <= Answers(Cardinality(Procs), MaxAttempts)

\* A code that was accepted, or replaced by a newer one, is accepted again
\* only by a verification that had read it before, or after such a one has
\* written it back (otp.service.ts:183).
SettledCodeStaysShut ==
  [][/\ wins' > wins
     /\ wins > 0 \/ \E d \in Codes : d > Watched /\ sentAt[d] # 0
     => \/ revived
        \/ \E p \in early : At(p, "win") /\ req'[p] = Idle]_vars

\* The hour is counted from its first send, so a rolling hour sees the end of
\* one and the start of the next: twice the cap less one.  Sends that overlap
\* may lose counts (otp.service.ts:24, :220-242).
RollingCap ==
  ~overlap =>
    \A t \in 1..MaxTime :
      Cardinality({c \in Codes : sentAt[c] \in t..(t + Hour - 1)}) < 2 * MaxSends
=============================================================================
