------------------------------ MODULE CodeGrant ------------------------------
(***************************************************************************)
(* One person and one third-party application: consent, authorization      *)
(* codes, the refresh-token families they start, the agent the application *)
(* acts as, and the disconnect that ends them (src/oauth/oauth.service.ts, *)
(* consent.service.ts, agents.service.ts and their callers).               *)
(*                                                                         *)
(* A step is one database statement or one committed transaction, with the *)
(* code up to the next await.  A family is named by the code it started    *)
(* from and the request that exchanged it.  It is taken for its newest     *)
(* token, the only one that can be live (RefreshFamily's OneChain);        *)
(* "newer" tells the families whose newest token a request has not read.   *)
(* The ids of codes and agents are bounds: a request that finds none left  *)
(* goes no further.                                                        *)
(***************************************************************************)
EXTENDS Integers, FiniteSets

CONSTANTS Codes,   \* authorization code rows
          Procs,   \* concurrent requests
          Scopes,  \* scopes the application may ask for
          Agents,  \* ids of Agent rows
          NoFam, NoAgent

ASSUME ConstAssumption ==
  /\ NoFam \notin Codes \X Procs
  /\ NoAgent \notin Agents

VARIABLES
  consent,  \* OAuthConsent.scopes; {} when there is no row
  code,     \* AuthorizationCode rows
  token,    \* refresh-token families: "live" while the newest token is
  agent,    \* Agent rows
  req,      \* requests: where each stands and what it has read
  newer,    \* families that got a token since the request read the tokens
  asked,    \* history: scopes the person ever approved
  recorded, \* history: scopes recorded since the last disconnect
  mixed,    \* history: an approval straddled another, or the last disconnect
  through,  \* history: silent requests let through before the last disconnect
  allowed,  \* history: codes with permission to pay, and for what they paid to live
  then      \* history: the agents there were when each request began

db      == <<consent, code, token, agent>>
marks   == <<newer, then>>
history == <<asked, recorded, mixed, through, allowed>>
vars    == <<consent, code, token, agent, req, newer,
             asked, recorded, mixed, through, allowed, then>>

Fams   == Codes \X Procs
Asks   == SUBSET Scopes \ {{}}   \* grantableScope never returns an empty scope
Code   == [st : {"none", "fresh", "used", "deleted"}, scope : SUBSET Scopes,
           expired : BOOLEAN, out : BOOLEAN]   \* out: its request has answered
PCs    == {"idle", "checkConsent", "insertCode", "readConsent", "upsert",
           "claim", "verify", "replay", "family", "revoking",
           "findAgent", "createAgent", "refindAgent", "persist",
           "disconnect", "commit", "findAgents", "retire"}

Request ==
  [pc : PCs,
   op : {"none", "approve", "authorize", "exchange", "rotate", "disconnect"},
   fam : Fams \cup {NoFam},     \* the family it starts or rotates; the code it made
   proof : {"good", "badVerifier", "mismatch"},
                                \* an exchange's client, redirect_uri, verifier
   scope : SUBSET Scopes,       \* the scopes it asks for
   merged : SUBSET Scopes,      \* the consent it will write
   act : Agents \cup {NoAgent}, \* the agent its token will name
   targets : SUBSET Fams,       \* families its UPDATE will revoke
   agents : SUBSET Agents,      \* agents its UPDATE will retire
   answer : {"none", "ok", "refused", "crashed"}]

Idle == [pc |-> "idle", op |-> "none", fam |-> NoFam, proof |-> "good",
         scope |-> {}, merged |-> {}, act |-> NoAgent, targets |-> {},
         agents |-> {}, answer |-> "none"]

LiveFams   == {f \in Fams : token[f] = "live"}
LiveAgents == {a \in Agents : agent[a] = "live"}

\* What the properties remember of the moment a request began.
Nothing == [agents |-> {}, gone |-> {}]
Moment  == [agents |-> LiveAgents, gone |-> {a \in Agents : agent[a] = "retired"}]

Init ==
  /\ consent = {}
  /\ code = [c \in Codes |-> [st |-> "none", scope |-> {}, expired |-> FALSE, out |-> FALSE]]
  /\ token = [f \in Fams |-> "none"]
  /\ agent = [a \in Agents |-> "none"]
  /\ req = [p \in Procs |-> Idle]
  /\ newer = [p \in Procs |-> {}]
  /\ asked = {} /\ recorded = {} /\ mixed = FALSE
  /\ through = {} /\ allowed = {}
  /\ then = [p \in Procs |-> Nothing]

-----------------------------------------------------------------------------
(* Requests *)

At(p, l) == req[p].pc = l

Goto(p, l) == req' = [req EXCEPT ![p].pc = l] /\ UNCHANGED marks

\* A request is answered and forgets what it read.
Answer(p, a) ==
  /\ req' = [req EXCEPT ![p] = [Idle EXCEPT !.answer = a]]
  /\ then' = [then EXCEPT ![p] = Nothing]

Finish(p, a) == Answer(p, a) /\ newer' = [newer EXCEPT ![p] = {}]

\* A rotation holds the token it was shown, a revoke its UPDATE's snapshot.
Reading(p) == req[p].op = "rotate" \/ req[p].pc \in {"revoking", "commit", "findAgents", "retire"}

\* Request p gives family f a token, which no request under way has read.
Issues(p, f) ==
  newer' = [q \in Procs |-> IF q = p THEN {}
                             ELSE IF Reading(q) THEN newer[q] \cup {f} ELSE newer[q]]

\* A request r begins.
Begin(p, r) ==
  /\ At(p, "idle")
  /\ req' = [req EXCEPT ![p] = r]
  /\ UNCHANGED newer
  /\ then' = [then EXCEPT ![p] = IF r.op \in {"approve", "authorize"} THEN Nothing ELSE Moment]

-----------------------------------------------------------------------------
(* Issuing a code *)

\* POST /oauth/create-code: the person approved scopes s on the consent screen.
Approve(p, s) ==
  /\ Begin(p, [Idle EXCEPT !.pc = "insertCode", !.op = "approve", !.scope = s])
  /\ asked' = asked \cup s
  /\ UNCHANGED <<db, recorded, mixed, through, allowed>>

\* GET /oauth/authorize with a session, prompt=none or not.
Authorize(p, s) ==
  /\ Begin(p, [Idle EXCEPT !.pc = "checkConsent", !.op = "authorize", !.scope = s])
  /\ through' = through \ {p}
  /\ UNCHANGED <<db, asked, recorded, mixed, allowed>>

\* Mutant: one approved scope is enough.
IsRequiredAny(s) == s \cap consent = {}

\* ConsentService.isRequired, for a third-party application without
\* authorization_details.
IsRequired(s) == ~ s \subseteq consent

\* Consent is missing: the consent screen, or consent_required.
CheckConsent(p) ==
  /\ At(p, "checkConsent")
  /\ IF IsRequired(req[p].scope) THEN Finish(p, "refused") ELSE Goto(p, "insertCode")
  /\ UNCHANGED <<db, history>>

\* An approval, or a consent that stood when the request was let through.
Stands(p) ==
  req[p].op = "approve" \/ mixed \/ req[p].scope \subseteq recorded \/ p \in through

\* createAuthorizationCode; only create-code goes on to record the approval.
InsertCode(p, c) ==
  /\ At(p, "insertCode")
  /\ code[c].st = "none"
  /\ code' = [code EXCEPT ![c] = [st |-> "fresh", scope |-> req[p].scope,
                                  expired |-> FALSE, out |-> req[p].op = "authorize"]]
  /\ IF req[p].op = "approve"
     THEN req' = [req EXCEPT ![p].pc = "readConsent", ![p].fam = <<c, p>>] /\ UNCHANGED marks
     ELSE Finish(p, "ok")
  /\ allowed' = IF Stands(p) THEN allowed \cup {c} ELSE allowed
  /\ through' = through \ {p}
  /\ UNCHANGED <<consent, token, agent, asked, recorded, mixed>>

\* ConsentService.record: read and merge...
ReadConsent(p) ==
  /\ At(p, "readConsent")
  /\ req' = [req EXCEPT ![p].pc = "upsert", ![p].merged = req[p].scope \cup consent]
  /\ UNCHANGED <<db, marks, history>>

\* Another approval has read the consent and not written it yet.
Straddled(p) == \E q \in Procs \ {p} : At(q, "upsert")

\* ...and write the whole list back; the code goes out.
UpsertConsent(p) ==
  /\ At(p, "upsert")
  /\ consent' = req[p].merged
  /\ recorded' = recorded \cup req[p].scope
  /\ code' = [code EXCEPT ![req[p].fam[1]].out = TRUE]
  /\ mixed' = (mixed \/ Straddled(p))
  /\ Finish(p, "ok")
  /\ UNCHANGED <<token, agent, asked, through, allowed>>

-----------------------------------------------------------------------------
(* Exchanging it *)

\* POST /oauth/token, authorization_code, with a code someone was handed.
Exchange(p, c, proof) ==
  /\ code[c].out
  /\ Begin(p, [Idle EXCEPT !.pc = "claim", !.op = "exchange", !.fam = <<c, p>>,
                           !.proof = proof])
  /\ UNCHANGED <<db, history>>

\* Mutant: the claim forgets the expiry.
ClaimableLate(p) ==
  LET c == req[p].fam[1] IN code[c].st = "fresh" /\ req[p].proof # "mismatch"

\* The claim's WHERE.
Claimable(p) ==
  LET c == req[p].fam[1]
  IN  code[c].st = "fresh" /\ ~code[c].expired /\ req[p].proof # "mismatch"

\* One UPDATE ... WHERE used = false takes the code.
ClaimCode(p) ==
  /\ At(p, "claim")
  /\ IF Claimable(p)
     THEN Goto(p, "verify") /\ code' = [code EXCEPT ![req[p].fam[1]].st = "used"]
     ELSE Goto(p, "replay") /\ UNCHANGED code
  /\ UNCHANGED <<consent, token, agent, history>>

\* Mutant: a wrong verifier gives the code back.
VerifyReturns(p) ==
  LET c == req[p].fam[1]
  IN  /\ At(p, "verify")
      /\ IF req[p].proof = "good" THEN Goto(p, "findAgent") /\ UNCHANGED code
         ELSE Finish(p, "refused") /\ code' = [code EXCEPT ![c].st = "fresh"]
      /\ UNCHANGED <<consent, token, agent, history>>

\* The re-read of the claimed code, PKCE and the audience check: a failure
\* after the claim leaves the code used.
Verify(p) ==
  /\ At(p, "verify")
  /\ IF code[req[p].fam[1]].st = "used" /\ req[p].proof = "good"
     THEN Goto(p, "findAgent") ELSE Finish(p, "refused")
  /\ UNCHANGED <<db, history>>

\* Mutant: only a replay of an unexpired code is one.
IsReplayUnexpired(c) == code[c].st = "used" /\ ~code[c].expired

\* handleCodeClaimFailure: a code that exists and was used.
IsReplay(c) == code[c].st = "used"

Replay(p) ==
  /\ At(p, "replay")
  /\ IF IsReplay(req[p].fam[1]) THEN Goto(p, "family") ELSE Finish(p, "refused")
  /\ UNCHANGED <<db, history>>

\* The family UPDATE picks its rows from the snapshot it starts on...
RevokeStart(p) ==
  /\ At(p, "family")
  /\ req' = [req EXCEPT ![p].pc = "revoking", ![p].targets = LiveFams]
  /\ UNCHANGED <<db, marks, history>>

\* An exchange of code c by p that holds the claim with the right verifier.
Holds(p, c) == /\ req[p].op = "exchange" /\ req[p].fam = <<c, p>> /\ req[p].proof = "good"
               /\ req[p].pc \in {"verify", "findAgent", "createAgent", "refindAgent", "persist"}

\* A code in someone's hands: it can still be exchanged, or is being.
Holding(c) == \E p \in Procs : Holds(p, c)
Live(c)    == Holding(c) \/ (code[c].st = "fresh" /\ ~code[c].expired)

\* The codes a revoke of p leaves allowed: those it could not have read the
\* family of, and those still in someone's hands.
Left(p) == {c \in allowed : (\E q \in Procs : <<c, q>> \in newer[p]) \/ Live(c)}

\* Mutant: revoked rows are dropped.
RevokedGone(F) == [f \in Fams |-> IF f \in F /\ token[f] = "live" THEN "deleted" ELSE token[f]]

RevokedIn(F) == [f \in Fams |-> IF f \in F /\ token[f] = "live" THEN "revoked" ELSE token[f]]

\* ...so a token issued or rotated under it stays; the replay is refused.
RevokeApply(p) ==
  /\ At(p, "revoking")
  /\ token' = RevokedIn(req[p].targets \ newer[p])
  /\ allowed' = Left(p)
  /\ Finish(p, "refused")
  /\ UNCHANGED <<consent, code, agent, asked, recorded, mixed, through>>

-----------------------------------------------------------------------------
(* Tokens and the agent they name *)

\* grant_type=refresh_token: RefreshFamily's rotation, seen from generateTokens.
Rotation(p, f) ==
  /\ token[f] = "live"
  /\ Begin(p, [Idle EXCEPT !.pc = "findAgent", !.op = "rotate", !.fam = f])
  /\ UNCHANGED <<db, history>>

\* Mutant: a retired agent will do.
FoundAny(a) == agent[a] # "none"

\* AgentsService.live.
Found(a) == agent[a] = "live"

\* forToken: the live agent, or one to make.
FindAgent(p) ==
  /\ At(p, "findAgent")
  /\ \/ \E a \in Agents : Found(a) /\ req' = [req EXCEPT ![p].pc = "persist", ![p].act = a]
     \/ (\A a \in Agents : ~Found(a)) /\ req' = [req EXCEPT ![p].pc = "createAgent"]
  /\ UNCHANGED <<db, marks, history>>

\* The insert; agents_live_userId_clientId_key lets one agent live (P2002).
CreateAgent(p, a) ==
  /\ At(p, "createAgent")
  /\ agent[a] = "none"
  /\ IF LiveAgents = {}
     THEN /\ agent' = [agent EXCEPT ![a] = "live"]
          /\ req' = [req EXCEPT ![p].pc = "persist", ![p].act = a]
          /\ UNCHANGED marks
     ELSE Goto(p, "refindAgent") /\ UNCHANGED agent
  /\ UNCHANGED <<consent, code, token, history>>

\* The other one made it - unless a disconnect has retired it since.
RefindAgent(p) ==
  /\ At(p, "refindAgent")
  /\ \/ \E a \in LiveAgents : /\ req' = [req EXCEPT ![p].pc = "persist", ![p].act = a]
                              /\ UNCHANGED marks
     \/ LiveAgents = {} /\ Finish(p, "refused")
  /\ UNCHANGED <<db, history>>

\* claimRotation: the token the rotation was shown is still live and the newest.
StillNewest(p) == token[req[p].fam] = "live" /\ req[p].fam \notin newer[p]

\* persistRefreshToken: an exchange starts a family; a rotation that has the
\* claim gives it its next token, one that lost may get the winner's pair.
Persist(p) ==
  /\ At(p, "persist")
  /\ \/ /\ req[p].op = "exchange"
        /\ token' = [token EXCEPT ![req[p].fam] = "live"]
        /\ Answer(p, "ok") /\ Issues(p, req[p].fam)
     \/ /\ req[p].op = "rotate" /\ StillNewest(p)
        /\ Answer(p, "ok") /\ Issues(p, req[p].fam)
        /\ UNCHANGED token
     \/ /\ req[p].op = "rotate" /\ ~StillNewest(p)
        /\ Finish(p, "refused") \/ (token[req[p].fam] = "live" /\ Finish(p, "ok"))
        /\ UNCHANGED token
  /\ UNCHANGED <<consent, code, agent, history>>

-----------------------------------------------------------------------------
(* Disconnect *)

\* DELETE /oauth/consents/:clientId.
Disconnect(p) ==
  /\ Begin(p, [Idle EXCEPT !.pc = "disconnect", !.op = "disconnect"])
  /\ UNCHANGED <<db, history>>

\* ConsentService.revoke is one transaction; its token UPDATE has a snapshot...
DisconnectStart(p) ==
  /\ At(p, "disconnect")
  /\ req' = [req EXCEPT ![p].pc = "commit", ![p].targets = LiveFams]
  /\ UNCHANGED <<db, marks, history>>

\* Silent requests past the consent check, their code not yet inserted.
LetThrough == {q \in Procs : req[q].op = "authorize" /\ At(q, "insertCode")}

\* Mutant: the tokens go, the consent stays.
DisconnectKeepsConsent(p) ==
  /\ At(p, "commit")
  /\ token' = RevokedIn(req[p].targets \ newer[p])
  /\ recorded' = {} /\ mixed' = Straddled(p)
  /\ through' = LetThrough /\ allowed' = Left(p)
  /\ Goto(p, "findAgents")
  /\ UNCHANGED <<consent, code, agent, asked>>

\* ...and it commits the whole; a token issued or rotated under it stays.
DisconnectCommit(p) ==
  /\ At(p, "commit")
  /\ consent' = {}
  /\ token' = RevokedIn(req[p].targets \ newer[p])
  /\ recorded' = {} /\ mixed' = Straddled(p)
  /\ through' = LetThrough /\ allowed' = Left(p)
  /\ Goto(p, "findAgents")
  /\ UNCHANGED <<code, agent, asked>>

\* AgentsService.revoke: the live agents...
FindAgents(p) ==
  /\ At(p, "findAgents")
  /\ IF LiveAgents = {} THEN Finish(p, "ok")
     ELSE /\ req' = [req EXCEPT ![p].pc = "retire", ![p].agents = LiveAgents]
          /\ UNCHANGED marks
  /\ UNCHANGED <<db, history>>

\* ...are retired by id, then signalled (SsfDelivery).
Retire(p) ==
  /\ At(p, "retire")
  /\ agent' = [a \in Agents |-> IF a \in req[p].agents THEN "retired" ELSE agent[a]]
  /\ Finish(p, "ok")
  /\ UNCHANGED <<consent, code, token, history>>

-----------------------------------------------------------------------------
(* Time, cleanup, crashes *)

\* Ten minutes pass for a code.
Expire(c) ==
  /\ code[c].st \in {"fresh", "used"} /\ ~code[c].expired
  /\ code' = [code EXCEPT ![c].expired = TRUE]
  /\ UNCHANGED <<consent, token, agent, req, marks, history>>

\* A family ends elsewhere: expiry, sign-out, theft (RefreshFamily).
FamilyEnds(f) ==
  /\ token[f] = "live"
  /\ token' = [token EXCEPT ![f] = "revoked"]
  /\ UNCHANGED <<consent, code, agent, req, marks, history>>

\* cleanupExpired: expired codes go.
CleanupCodes ==
  /\ \E c \in Codes : code[c].expired /\ code[c].st # "deleted"
  /\ code' = [c \in Codes |-> IF code[c].expired THEN [code[c] EXCEPT !.st = "deleted"]
                              ELSE code[c]]
  /\ UNCHANGED <<consent, token, agent, req, marks, history>>

Crash(p) ==
  /\ ~At(p, "idle")
  /\ Finish(p, "crashed")
  /\ UNCHANGED <<db, history>>

-----------------------------------------------------------------------------
Start(p) ==
  \/ \E s \in Asks : Approve(p, s) \/ Authorize(p, s)
  \/ \E c \in Codes, proof \in {"good", "badVerifier", "mismatch"} : Exchange(p, c, proof)
  \/ \E f \in Fams : Rotation(p, f)
  \/ Disconnect(p)

Step(p) ==
  \/ CheckConsent(p) \/ ReadConsent(p) \/ UpsertConsent(p)
  \/ \E c \in Codes : InsertCode(p, c)
  \/ ClaimCode(p) \/ Verify(p) \/ Replay(p) \/ RevokeStart(p) \/ RevokeApply(p)
  \/ FindAgent(p) \/ RefindAgent(p) \/ Persist(p)
  \/ \E a \in Agents : CreateAgent(p, a)
  \/ DisconnectStart(p) \/ DisconnectCommit(p) \/ FindAgents(p) \/ Retire(p)

Next ==
  \/ \E p \in Procs : Start(p) \/ Step(p) \/ Crash(p)
  \/ \E c \in Codes : Expire(c)
  \/ \E f \in Fams : FamilyEnds(f)
  \/ CleanupCodes

Spec == Init /\ [][Next]_vars

-----------------------------------------------------------------------------
(* Properties *)

TypeOK ==
  /\ consent \in SUBSET Scopes
  /\ code \in [Codes -> Code]
  /\ token \in [Fams -> {"none", "live", "revoked"}]
  /\ agent \in [Agents -> {"none", "live", "retired"}]
  /\ req \in [Procs -> Request]
  /\ newer \in [Procs -> SUBSET Fams]
  /\ asked \in SUBSET Scopes /\ recorded \in SUBSET Scopes
  /\ mixed \in BOOLEAN
  /\ through \in SUBSET Procs /\ allowed \in SUBSET Codes
  /\ then \in [Procs -> [agents : SUBSET Agents, gone : SUBSET Agents]]

\* A code pays out at most once, never after it expired unclaimed, never after
\* a failed attempt, whatever races: the table implements OneShot, where an
\* exchange that holds the claim with the right verifier is still an open ticket.
Payouts    == [c \in Codes |-> Cardinality({p \in Procs : token[<<c, p>>] # "none"})]
StandingOf(c) ==
  CASE code[c].st = "none"                                    -> "new"
    [] code[c].st # "none" /\ Payouts[c] > 0                  -> "spent"
    [] code[c].st # "none" /\ ~(Payouts[c] > 0) /\ Live(c)    -> "open"
    [] code[c].st # "none" /\ ~(Payouts[c] > 0) /\ ~Live(c)   -> "void"
Standing   == [c \in Codes |-> StandingOf(c)]
Ticket     == INSTANCE OneShot WITH Tickets <- Codes, status <- Standing, paid <- Payouts
CodesAreOneShot == Ticket!Spec

\* Every code stands on scopes the person approved: a silent code asks for
\* nothing they never said yes to, across consents lost, merged and forgotten.
NothingUnasked == \A c \in Codes : code[c].scope \subseteq asked

\* A code that can still be exchanged is one the person approved, or a silent
\* one they had approved the scopes of since the last disconnect: a disconnect
\* between the check of the consent and the insert (oauth.controller.ts:91)
\* lets through the requests it finds there and no others.
CodesAreAllowed ==
  \A c \in Codes : code[c].st = "fresh" /\ ~code[c].expired => c \in allowed

\* No family outlives its permission.  A live one comes of a code that was
\* allowed, and no replay or disconnect has ended since that could have read
\* it: what escapes one is the token issued or rotated under its UPDATE and
\* the code still in someone's hands, never an expired, spent or failed code.
LiveIsAllowed == \A f \in LiveFams : f[1] \in allowed

\* A request p that had begun gets its answer without a crash.
Answered(p) == ~At(p, "idle") /\ req'[p].pc = "idle" /\ req'[p].answer # "crashed"

\* When a replayed code is refused (oauth.service.ts:274-290), expired code or
\* not, the only live families are those issued or rotated under the UPDATE.
ReplayEndsWhatItSaw ==
  [][\A p \in Procs :
       Answered(p) /\ req[p].pc \in {"replay", "revoking"} /\ code[req[p].fam[1]].st = "used"
       => LiveFams' \subseteq newer[p]]_vars

\* When a disconnect answers, the only live families are those issued or
\* rotated since its UPDATE began (consent.service.ts:102-107), and no agent
\* is live that was when it came in.
DisconnectEndsWhatItSaw ==
  [][\A p \in Procs : Answered(p) /\ req[p].op = "disconnect"
       => LiveFams' \subseteq newer[p] /\ then[p].agents \cap LiveAgents' = {}]_vars

\* Both revokes end what they can read, whatever runs beside them; of a family
\* rotated under the UPDATE they miss the new token, and it stays live.
RevokesEndWhatTheySaw == ReplayEndsWhatItSaw /\ DisconnectEndsWhatItSaw

\* The consent is what was approved since the last disconnect, no more and no
\* less, unless an approval read it before another write and wrote after it
\* (ConsentService.record reads, merges and upserts).
ConsentIsWhatWasApproved == mixed \/ consent = recorded

\* A token never names an agent that was already retired when its request
\* came in, and one live agent is all there is.
ActIsCurrent ==
  /\ Cardinality(LiveAgents) <= 1
  /\ \A p \in Procs : req[p].act \notin then[p].gone
=============================================================================
