--------------------------- MODULE CodeGrant_proofs ---------------------------
(***************************************************************************)
(* Proofs about CodeGrant, for any codes, scopes, agents and concurrent    *)
(* requests.                                                               *)
(***************************************************************************)
EXTENDS CodeGrant, FiniteSetTheorems, TLAPS

\* Where each kind of request can be, and the family it carries there.
Naming    == {"findAgent", "createAgent", "refindAgent", "persist"}
OwnFam(p) == \E c \in Codes : req[p].fam = <<c, p>>

Shape(p) ==
  LET r == req[p]
  IN  \/ r.pc = "idle"
      \/ r.op = "approve" /\ r.pc = "insertCode"
      \/ r.op = "approve" /\ r.pc \in {"readConsent", "upsert"} /\ r.fam \in Fams
      \/ r.op = "authorize" /\ r.pc \in {"checkConsent", "insertCode"}
      \/ /\ r.op = "exchange" /\ OwnFam(p)
         /\ r.pc \in {"claim", "verify", "replay", "family", "revoking"}
      \/ r.op = "exchange" /\ OwnFam(p) /\ r.pc \in Naming /\ r.proof = "good"
      \/ r.op = "rotate" /\ r.pc \in Naming /\ r.fam \in Fams
      \/ r.op = "disconnect" /\ r.pc \in {"disconnect", "commit", "findAgents", "retire"}

ShapeInv == \A p \in Procs : Shape(p)

\* Everything that can become a code's scope was asked for.
AskInv ==
  /\ consent \subseteq asked
  /\ \A c \in Codes : code[c].scope \subseteq asked
  /\ \A p \in Procs :
       /\ req[p].pc \in {"insertCode", "readConsent", "upsert"} => req[p].scope \subseteq asked
       /\ At(p, "upsert") => req[p].merged \subseteq asked

\* Unless approvals got mixed up, one that is about to write has read the
\* consent as it stands.
ConsentInv ==
  mixed \/ /\ consent = recorded
           /\ \A p \in Procs : At(p, "upsert") => req[p].merged = req[p].scope \cup consent

\* One agent is live, retired ones stay retired, and no request names one that
\* was retired when it began.
AgentInv ==
  /\ \A a \in LiveAgents, b \in LiveAgents : a = b
  /\ \A p \in Procs : /\ then[p].gone \subseteq {a \in Agents : agent[a] = "retired"}
                      /\ req[p].act \notin then[p].gone

\* The request that took a code: no other did, and it has not paid out.
Claims(p) == req[p].op = "exchange" /\ req[p].pc \in Naming \cup {"verify"}

OnceInv ==
  /\ \A c \in Codes : code[c].st = "none" => ~code[c].expired
  /\ \A c \in Codes, p \in Procs : token[<<c, p>>] # "none" =>
       /\ code[c].st \in {"used", "deleted"}
       /\ \A q \in Procs : token[<<c, q>>] # "none" => q = p
  /\ \A c \in Codes, p \in Procs : Claims(p) /\ req[p].fam = <<c, p>> =>
       /\ code[c].st \in {"used", "deleted"}
       /\ \A q \in Procs : token[<<c, q>>] = "none"
       /\ \A q \in Procs : Claims(q) /\ req[q].fam = <<c, q>> => q = p

\* What a revoke is about to end and what it has ended: all that was live when it
\* read the tokens, so that of what is live the rest is newer.
RevokeInv ==
  \A p \in Procs :
    /\ \A a \in then[p].agents : agent[a] # "none"
    /\ req[p].pc \in {"revoking", "commit"} => LiveFams \subseteq req[p].targets \cup newer[p]
    /\ req[p].pc \in {"findAgents", "retire"} => LiveFams \subseteq newer[p]
    /\ At(p, "retire") => then[p].agents \cap LiveAgents \subseteq req[p].agents

\* Permission: who is to insert a code has it, a code in someone's hands has it, and
\* so has the family that came of one.
AllowedInv ==
  /\ \A p \in Procs : At(p, "insertCode") => Stands(p)
  /\ \A c \in Codes : Live(c) => c \in allowed
  /\ LiveIsAllowed

Inv == /\ TypeOK /\ ShapeInv /\ AskInv /\ ConsentInv /\ AgentInv /\ OnceInv
       /\ RevokeInv /\ AllowedInv

-----------------------------------------------------------------------------
(* What a step does to the request that takes it *)

Others(p)  == \A q \in Procs \ {p} : req'[q] = req[q] /\ then'[q] = then[q]
Answers    == {"none", "ok", "refused", "crashed"}
Moments    == [agents : SUBSET Agents, gone : SUBSET Agents]
Requests   == req' \in [Procs -> Request] /\ then' \in [Procs -> Moments]

\* Request p is over; it goes on to l, as the same request.
Rests(p)   == /\ Requests /\ Others(p)
              /\ req'[p].pc = "idle" /\ req'[p].act = NoAgent /\ then'[p] = Nothing
Goes(p, l) == /\ Requests /\ Others(p) /\ then'[p] = then[p] /\ req'[p].pc = l
              /\ newer' = newer
              /\ req'[p].op = req[p].op /\ req'[p].proof = req[p].proof
              /\ req'[p].scope = req[p].scope
Fam(p) == req'[p].fam = req[p].fam
Act(p) == req'[p].act = req[p].act
Tgt(p) == req'[p].targets = req[p].targets

LEMMA IdleFacts ==
  /\ Idle \in Request /\ Idle.pc = "idle" /\ Idle.act = NoAgent
  /\ Nothing \in Moments /\ Moment \in Moments
  /\ Nothing.agents = {} /\ Nothing.gone = {}
<1>1. Idle \in Request /\ Idle.pc = "idle" /\ Idle.act = NoAgent
  BY DEF Idle, Request, PCs
<1>2. Nothing \in Moments /\ Moment \in Moments
  BY DEF Nothing, Moment, Moments, LiveAgents
<1>3. Nothing.agents = {} /\ Nothing.gone = {}
  BY DEF Nothing
<1> QED
  BY <1>1, <1>2, <1>3

LEMMA Typed == ASSUME TypeOK
               PROVE  req \in [Procs -> Request] /\ then \in [Procs -> Moments]
BY DEF TypeOK, Moments

LEMMA AnswerRests == ASSUME TypeOK, NEW p \in Procs, NEW a \in Answers, Answer(p, a)
                     PROVE  Rests(p)
<1> DEFINE r == [Idle EXCEPT !.answer = a]
<1>1. r \in Request /\ r.pc = "idle" /\ r.act = NoAgent
  BY IdleFacts DEF Request, Answers
<1>2. req' = [req EXCEPT ![p] = r] /\ then' = [then EXCEPT ![p] = Nothing]
  BY DEF Answer
<1> HIDE DEF r
<1> QED
  BY <1>1, <1>2, IdleFacts, Typed DEF Rests, Others, Requests

LEMMA FinishRests == ASSUME TypeOK, NEW p \in Procs, NEW a \in Answers, Finish(p, a)
                     PROVE  Rests(p)
BY AnswerRests DEF Finish

\* Only p's request changes.
LEMMA Puts ==
  ASSUME TypeOK, NEW p \in Procs, NEW r \in Request, then' = then, req' = [req EXCEPT ![p] = r]
  PROVE  Requests /\ Others(p) /\ req'[p] = r /\ then'[p] = then[p]
BY Typed DEF Others, Requests

LEMMA GotoGoes == ASSUME TypeOK, NEW p \in Procs, NEW l \in PCs, Goto(p, l)
                  PROVE  Goes(p, l) /\ Fam(p) /\ Act(p) /\ Tgt(p)
<1> DEFINE r == [req[p] EXCEPT !.pc = l]
<1>1. req' = [req EXCEPT ![p] = r] /\ then' = then /\ newer' = newer
  BY DEF Goto, marks
<1>0. req[p] \in Request
  BY Typed
<1>2. /\ r \in Request /\ r.pc = l /\ r.op = req[p].op /\ r.proof = req[p].proof
      /\ r.scope = req[p].scope /\ r.fam = req[p].fam /\ r.act = req[p].act
      /\ r.targets = req[p].targets
  BY <1>0 DEF Request
<1> HIDE DEF r
<1> QED
  BY <1>1, <1>2, Typed DEF Goes, Fam, Act, Tgt, Others, Requests

LEMMA FamGoes ==
  ASSUME TypeOK, NEW p \in Procs, NEW l \in PCs, NEW f \in Fams, UNCHANGED marks,
         req' = [req EXCEPT ![p].pc = l, ![p].fam = f]
  PROVE  Goes(p, l) /\ req'[p].fam = f /\ Act(p) /\ Tgt(p)
<1> DEFINE r == [req[p] EXCEPT !.pc = l, !.fam = f]
<1>1. req' = [req EXCEPT ![p] = r]
  BY Typed
<1>0. req[p] \in Request
  BY Typed
<1>2. /\ r \in Request /\ r.pc = l /\ r.op = req[p].op /\ r.proof = req[p].proof
      /\ r.scope = req[p].scope /\ r.fam = f /\ r.act = req[p].act
      /\ r.targets = req[p].targets
  BY <1>0 DEF Request
<1> HIDE DEF r
<1>3. Requests /\ Others(p) /\ req'[p] = r /\ then'[p] = then[p]
  BY <1>1, <1>2, Puts DEF marks
<1> QED
  BY <1>2, <1>3 DEF Goes, marks, Fam, Act, Tgt

LEMMA MergedGoes ==
  ASSUME TypeOK, NEW p \in Procs, NEW l \in PCs, NEW m \in SUBSET Scopes, UNCHANGED marks,
         req' = [req EXCEPT ![p].pc = l, ![p].merged = m]
  PROVE  Goes(p, l) /\ req'[p].merged = m /\ Fam(p) /\ Act(p) /\ Tgt(p)
<1> DEFINE r == [req[p] EXCEPT !.pc = l, !.merged = m]
<1>1. req' = [req EXCEPT ![p] = r]
  BY Typed
<1>0. req[p] \in Request
  BY Typed
<1>2. /\ r \in Request /\ r.pc = l /\ r.op = req[p].op /\ r.proof = req[p].proof
      /\ r.scope = req[p].scope /\ r.fam = req[p].fam /\ r.act = req[p].act /\ r.merged = m
      /\ r.targets = req[p].targets
  BY <1>0 DEF Request
<1> HIDE DEF r
<1>3. Requests /\ Others(p) /\ req'[p] = r /\ then'[p] = then[p]
  BY <1>1, <1>2, Puts DEF marks
<1> QED
  BY <1>2, <1>3 DEF Goes, marks, Fam, Act, Tgt

LEMMA TargetsGoes ==
  ASSUME TypeOK, NEW p \in Procs, NEW l \in PCs, NEW F \in SUBSET Fams, UNCHANGED marks,
         req' = [req EXCEPT ![p].pc = l, ![p].targets = F]
  PROVE  Goes(p, l) /\ req'[p].targets = F /\ Fam(p) /\ Act(p)
<1> DEFINE r == [req[p] EXCEPT !.pc = l, !.targets = F]
<1>1. req' = [req EXCEPT ![p] = r]
  BY Typed
<1>0. req[p] \in Request
  BY Typed
<1>2. /\ r \in Request /\ r.pc = l /\ r.op = req[p].op /\ r.proof = req[p].proof
      /\ r.scope = req[p].scope /\ r.fam = req[p].fam /\ r.act = req[p].act /\ r.targets = F
  BY <1>0 DEF Request
<1> HIDE DEF r
<1>3. Requests /\ Others(p) /\ req'[p] = r /\ then'[p] = then[p]
  BY <1>1, <1>2, Puts DEF marks
<1> QED
  BY <1>2, <1>3 DEF Goes, marks, Fam, Act, Tgt

LEMMA ActGoes ==
  ASSUME TypeOK, NEW p \in Procs, NEW l \in PCs, NEW a \in Agents, UNCHANGED marks,
         req' = [req EXCEPT ![p].pc = l, ![p].act = a]
  PROVE  Goes(p, l) /\ req'[p].act = a /\ Fam(p)
<1> DEFINE r == [req[p] EXCEPT !.pc = l, !.act = a]
<1>1. req' = [req EXCEPT ![p] = r]
  BY Typed
<1>0. req[p] \in Request
  BY Typed
<1>2. /\ r \in Request /\ r.pc = l /\ r.op = req[p].op /\ r.proof = req[p].proof
      /\ r.scope = req[p].scope /\ r.fam = req[p].fam /\ r.act = a
  BY <1>0 DEF Request
<1> HIDE DEF r
<1>3. Requests /\ Others(p) /\ req'[p] = r /\ then'[p] = then[p]
  BY <1>1, <1>2, Puts DEF marks
<1> QED
  BY <1>2, <1>3 DEF Goes, marks, Fam, Act, Tgt

LEMMA AgentsGoes ==
  ASSUME TypeOK, NEW p \in Procs, NEW l \in PCs, NEW A \in SUBSET Agents, UNCHANGED marks,
         req' = [req EXCEPT ![p].pc = l, ![p].agents = A]
  PROVE  Goes(p, l) /\ req'[p].agents = A /\ Fam(p) /\ Act(p)
<1> DEFINE r == [req[p] EXCEPT !.pc = l, !.agents = A]
<1>1. req' = [req EXCEPT ![p] = r]
  BY Typed
<1>0. req[p] \in Request
  BY Typed
<1>2. /\ r \in Request /\ r.pc = l /\ r.op = req[p].op /\ r.proof = req[p].proof
      /\ r.scope = req[p].scope /\ r.fam = req[p].fam /\ r.act = req[p].act /\ r.agents = A
  BY <1>0 DEF Request
<1> HIDE DEF r
<1>3. Requests /\ Others(p) /\ req'[p] = r /\ then'[p] = then[p]
  BY <1>1, <1>2, Puts DEF marks
<1> QED
  BY <1>2, <1>3 DEF Goes, marks, Fam, Act, Tgt

\* A request begins.
Begins(p) ==
  /\ Requests /\ Others(p) /\ req'[p].act = NoAgent
  /\ \/ /\ req'[p].op = "approve" /\ req'[p].pc = "insertCode" /\ then'[p] = Nothing
        /\ asked' = asked \cup req'[p].scope
     \/ req'[p].op = "authorize" /\ req'[p].pc = "checkConsent" /\ then'[p] = Nothing
     \/ /\ req'[p].op = "exchange" /\ req'[p].pc = "claim" /\ then'[p] = Moment
        /\ \E c \in Codes : req'[p].fam = <<c, p>>
     \/ /\ req'[p].op = "rotate" /\ req'[p].pc = "findAgent" /\ then'[p] = Moment
        /\ req'[p].fam \in Fams
     \/ req'[p].op = "disconnect" /\ req'[p].pc = "disconnect" /\ then'[p] = Moment

LEMMA StartBegins == ASSUME TypeOK, NEW p \in Procs, Start(p) PROVE Begins(p) /\ At(p, "idle")
<1>0. ASSUME NEW r \in Request, Begin(p, r), r.act = NoAgent
      PROVE  /\ Requests /\ Others(p) /\ req'[p] = r /\ At(p, "idle")
             /\ then'[p] = IF r.op \in {"approve", "authorize"} THEN Nothing ELSE Moment
  BY <1>0, Typed, IdleFacts DEF Begin, Others, Requests
<1>1. ASSUME NEW s \in Asks, Approve(p, s) PROVE Begins(p) /\ At(p, "idle")
  <2> DEFINE r == [Idle EXCEPT !.pc = "insertCode", !.op = "approve", !.scope = s]
  <2>1. r \in Request /\ r.pc = "insertCode" /\ r.op = "approve" /\ r.scope = s /\ r.act = NoAgent
    BY IdleFacts DEF Request, Asks, PCs
  <2>2. Begin(p, r) /\ asked' = asked \cup s
    BY <1>1 DEF Approve
  <2> HIDE DEF r
  <2> QED BY <1>0, <2>1, <2>2 DEF Begins
<1>2. ASSUME NEW s \in Asks, Authorize(p, s) PROVE Begins(p) /\ At(p, "idle")
  <2> DEFINE r == [Idle EXCEPT !.pc = "checkConsent", !.op = "authorize", !.scope = s]
  <2>1. r \in Request /\ r.pc = "checkConsent" /\ r.op = "authorize" /\ r.act = NoAgent
    BY IdleFacts DEF Request, Asks, PCs
  <2>2. Begin(p, r)
    BY <1>2 DEF Authorize
  <2> HIDE DEF r
  <2> QED BY <1>0, <2>1, <2>2 DEF Begins
<1>3. ASSUME NEW c \in Codes, NEW proof \in {"good", "badVerifier", "mismatch"},
             Exchange(p, c, proof)
      PROVE  Begins(p) /\ At(p, "idle")
  <2> DEFINE f == <<c, p>>
             r == [Idle EXCEPT !.pc = "claim", !.op = "exchange", !.fam = f, !.proof = proof]
  <2>1. f \in Fams
    BY DEF Fams
  <2>2. Begin(p, r)
    BY <1>3 DEF Exchange
  <2> HIDE DEF f
  <2>3. r \in Request /\ r.pc = "claim" /\ r.op = "exchange" /\ r.fam = f /\ r.act = NoAgent
    BY <2>1, IdleFacts DEF Request, PCs
  <2> HIDE DEF r
  <2> QED BY <1>0, <2>2, <2>3 DEF Begins, f
<1>4. ASSUME NEW f \in Fams, Rotation(p, f) PROVE Begins(p) /\ At(p, "idle")
  <2> DEFINE r == [Idle EXCEPT !.pc = "findAgent", !.op = "rotate", !.fam = f]
  <2>1. r \in Request /\ r.pc = "findAgent" /\ r.op = "rotate" /\ r.fam = f /\ r.act = NoAgent
    BY IdleFacts DEF Request, PCs
  <2>2. Begin(p, r)
    BY <1>4 DEF Rotation
  <2> HIDE DEF r
  <2> QED BY <1>0, <2>1, <2>2 DEF Begins
<1>5. ASSUME Disconnect(p) PROVE Begins(p) /\ At(p, "idle")
  <2> DEFINE r == [Idle EXCEPT !.pc = "disconnect", !.op = "disconnect"]
  <2>1. r \in Request /\ r.pc = "disconnect" /\ r.op = "disconnect" /\ r.act = NoAgent
    BY IdleFacts DEF Request, PCs
  <2>2. Begin(p, r)
    BY <1>5 DEF Disconnect
  <2> HIDE DEF r
  <2> QED BY <1>0, <2>1, <2>2 DEF Begins
<1> QED
  BY <1>1, <1>2, <1>3, <1>4, <1>5 DEF Start

\* A request takes a step: it is over, or goes on to where its step leads.
Moves(p) ==
  \/ Rests(p)
  \/ /\ Fam(p) /\ Act(p)
     /\ \/ Goes(p, "insertCode") /\ At(p, "checkConsent") /\ req[p].scope \subseteq consent
        \/ /\ Goes(p, "upsert") /\ At(p, "readConsent") /\ UNCHANGED consent
           /\ req'[p].merged = req[p].scope \cup consent
        \/ Goes(p, "verify") /\ At(p, "claim") /\ Claimable(p)
        \/ Goes(p, "replay") /\ At(p, "claim")
        \/ Goes(p, "findAgent") /\ At(p, "verify") /\ req[p].proof = "good"
        \/ Goes(p, "family") /\ At(p, "replay")
        \/ Goes(p, "revoking") /\ At(p, "family") /\ UNCHANGED token /\ req'[p].targets = LiveFams
        \/ Goes(p, "createAgent") /\ At(p, "findAgent")
        \/ Goes(p, "refindAgent") /\ At(p, "createAgent")
        \/ Goes(p, "commit") /\ At(p, "disconnect") /\ UNCHANGED token /\ req'[p].targets = LiveFams
        \/ Goes(p, "findAgents") /\ At(p, "commit") /\ token' = RevokedIn(req[p].targets \ newer[p])
        \/ Goes(p, "retire") /\ At(p, "findAgents") /\ UNCHANGED <<token, agent>>
           /\ req'[p].agents = LiveAgents
  \/ /\ Fam(p) /\ Goes(p, "persist") /\ req[p].pc \in {"findAgent", "createAgent", "refindAgent"}
     /\ req'[p].act \in Agents /\ agent[req'[p].act] # "retired"
  \/ /\ Act(p) /\ Goes(p, "readConsent") /\ At(p, "insertCode") /\ req[p].op = "approve"
     /\ req'[p].fam \in Fams

LEMMA StepMoves == ASSUME TypeOK, NEW p \in Procs, Step(p) PROVE Moves(p)
<1>0. /\ {"insertCode", "readConsent", "upsert", "verify", "replay", "findAgent", "family",
           "revoking", "createAgent", "refindAgent", "persist", "commit", "findAgents",
           "retire"} \subseteq PCs
      /\ {"ok", "refused"} \subseteq Answers
  BY DEF PCs, Answers
<1>1. CASE CheckConsent(p)
  BY <1>0, <1>1, FinishRests, GotoGoes DEF CheckConsent, IsRequired, Moves
<1>2. CASE ReadConsent(p)
  <2>1. req[p].scope \cup consent \in SUBSET Scopes
    BY Typed DEF Request, TypeOK
  <2>2. /\ At(p, "readConsent") /\ UNCHANGED <<consent, marks>>
        /\ req' = [req EXCEPT ![p].pc = "upsert", ![p].merged = req[p].scope \cup consent]
    BY <1>2 DEF ReadConsent, db
  <2> DEFINE m == req[p].scope \cup consent
  <2> HIDE DEF m
  <2>3. Goes(p, "upsert") /\ req'[p].merged = m /\ Fam(p) /\ Act(p)
    BY <1>0, <2>1, <2>2, MergedGoes DEF m
  <2> QED BY <2>2, <2>3 DEF Moves, m
<1>3. CASE UpsertConsent(p)
  BY <1>0, <1>3, FinishRests DEF UpsertConsent, Moves
<1>4. ASSUME NEW c \in Codes, InsertCode(p, c) PROVE Moves(p)
  <2>1. <<c, p>> \in Fams
    BY DEF Fams
  <2> DEFINE f == <<c, p>>
  <2>2. /\ At(p, "insertCode")
        /\ \/ /\ req[p].op = "approve" /\ UNCHANGED marks
              /\ req' = [req EXCEPT ![p].pc = "readConsent", ![p].fam = f]
           \/ Finish(p, "ok")
    BY <1>4 DEF InsertCode
  <2>3. f \in Fams
    BY <2>1
  <2> HIDE DEF f
  <2> QED BY <1>0, <2>2, <2>3, FinishRests, FamGoes DEF Moves
<1>5. CASE ClaimCode(p)
  BY <1>0, <1>5, GotoGoes DEF ClaimCode, Moves
<1>6. CASE Verify(p)
  BY <1>0, <1>6, GotoGoes, FinishRests DEF Verify, Moves
<1>7. CASE Replay(p)
  BY <1>0, <1>7, GotoGoes, FinishRests DEF Replay, Moves
<1>8. CASE RevokeStart(p)
  <2>1. /\ At(p, "family") /\ UNCHANGED <<token, marks>>
        /\ req' = [req EXCEPT ![p].pc = "revoking", ![p].targets = LiveFams]
    BY <1>8 DEF RevokeStart, db
  <2>2. LiveFams \in SUBSET Fams
    BY DEF LiveFams
  <2> QED BY <1>0, <2>1, <2>2, TargetsGoes DEF Moves
<1>9. CASE RevokeApply(p)
  BY <1>0, <1>9, FinishRests DEF RevokeApply, Moves
<1>10. CASE FindAgent(p)
  <2>1. ASSUME NEW a \in Agents, Found(a),
               req' = [req EXCEPT ![p].pc = "persist", ![p].act = a]
        PROVE  Moves(p)
    <3>1. At(p, "findAgent") /\ UNCHANGED marks
      BY <1>10 DEF FindAgent
    <3>2. Goes(p, "persist") /\ req'[p].act = a /\ Fam(p)
      BY <1>0, <2>1, <3>1, ActGoes
    <3> QED BY <2>1, <3>1, <3>2 DEF Found, Moves, At
  <2>2. CASE Goto(p, "createAgent")
    BY <1>0, <1>10, <2>2, GotoGoes DEF FindAgent, Moves
  <2> QED BY <1>10, <2>1, <2>2 DEF FindAgent, Goto
<1>11. ASSUME NEW a \in Agents, CreateAgent(p, a) PROVE Moves(p)
  BY <1>0, <1>11, ActGoes, GotoGoes DEF CreateAgent, Moves, At
<1>12. CASE RefindAgent(p)
  <2>1. ASSUME NEW a \in LiveAgents, UNCHANGED marks,
               req' = [req EXCEPT ![p].pc = "persist", ![p].act = a]
        PROVE  Moves(p)
    <3>1. a \in Agents /\ agent[a] = "live" /\ At(p, "refindAgent")
      BY <1>12 DEF RefindAgent, LiveAgents
    <3>2. Goes(p, "persist") /\ req'[p].act = a /\ Fam(p)
      BY <1>0, <2>1, <3>1, ActGoes
    <3> QED BY <3>1, <3>2 DEF Moves, At
  <2> QED BY <1>0, <1>12, <2>1, FinishRests DEF RefindAgent, Moves
<1>13. CASE Persist(p)
  BY <1>0, <1>13, FinishRests, AnswerRests DEF Persist, Moves
<1>14. CASE DisconnectStart(p)
  <2>1. /\ At(p, "disconnect") /\ UNCHANGED <<token, marks>>
        /\ req' = [req EXCEPT ![p].pc = "commit", ![p].targets = LiveFams]
    BY <1>14 DEF DisconnectStart, db
  <2>2. LiveFams \in SUBSET Fams
    BY DEF LiveFams
  <2> QED BY <1>0, <2>1, <2>2, TargetsGoes DEF Moves
<1>15. CASE DisconnectCommit(p)
  BY <1>0, <1>15, GotoGoes DEF DisconnectCommit, Moves
<1>16. CASE FindAgents(p)
  <2>1. LiveAgents \in SUBSET Agents
    BY DEF LiveAgents
  <2> QED BY <1>0, <1>16, <2>1, FinishRests, AgentsGoes DEF FindAgents, Moves, db
<1>17. CASE Retire(p)
  BY <1>0, <1>17, FinishRests DEF Retire, Moves
<1> QED
  BY <1>1, <1>2, <1>3, <1>4, <1>5, <1>6, <1>7, <1>8, <1>9, <1>10, <1>11, <1>12, <1>13, <1>14,
     <1>15, <1>16, <1>17 DEF Step

\* Nobody else's step moves a request, nor what it remembers.
LEMMA RequestsMove ==
  ASSUME TypeOK, [Next]_vars, NEW q \in Procs
  PROVE  \/ req'[q] = req[q] /\ then'[q] = then[q]
         \/ Start(q) /\ Begins(q) /\ At(q, "idle")
         \/ Step(q) /\ Moves(q)
         \/ Crash(q) /\ Rests(q)
<1>1. ASSUME NEW p \in Procs, Crash(p) PROVE Rests(p)
  BY <1>1, FinishRests DEF Crash, Answers
<1>2. ASSUME NEW p \in Procs, Start(p) \/ Step(p) \/ Crash(p) PROVE Requests /\ Others(p)
  BY <1>1, <1>2, StartBegins, StepMoves DEF Begins, Moves, Rests, Goes
<1>3. ASSUME (\E c \in Codes : Expire(c)) \/ (\E f \in Fams : FamilyEnds(f)) \/ CleanupCodes
             \/ UNCHANGED vars
      PROVE  req' = req /\ then' = then
  BY <1>3 DEF Expire, FamilyEnds, CleanupCodes, vars, marks
<1> QED
  BY <1>1, <1>2, <1>3, StartBegins, StepMoves DEF Others, Next

-----------------------------------------------------------------------------
(* What a step does to the tables *)

LEMMA StepIsOn == ASSUME NEW p \in Procs, Step(p) \/ Crash(p) PROVE ~At(p, "idle")
BY DEF Step, Crash, At, CheckConsent, ReadConsent, UpsertConsent, InsertCode, ClaimCode, Verify,
       Replay, RevokeStart, RevokeApply, FindAgent, RefindAgent, Persist, CreateAgent,
       DisconnectStart, DisconnectCommit, FindAgents, Retire

\* The consent: an approval writes what it merged, a disconnect clears it.
LEMMA ConsentMoves ==
  ASSUME [Next]_vars
  PROVE  \/ UNCHANGED <<consent, recorded, mixed>>
         \/ \E p \in Procs : UpsertConsent(p) \/ DisconnectCommit(p)
<1>1. ASSUME NEW p \in Procs, Step(p), ~UpsertConsent(p), ~DisconnectCommit(p)
      PROVE  UNCHANGED <<consent, recorded, mixed>>
  BY <1>1 DEF Step, CheckConsent, ReadConsent, InsertCode, ClaimCode, Verify, Replay, RevokeStart,
       RevokeApply, FindAgent, RefindAgent, Persist, CreateAgent, DisconnectStart, FindAgents,
       Retire, db, history
<1>2. ASSUME NEW p \in Procs, Start(p) \/ Crash(p) PROVE UNCHANGED <<consent, recorded, mixed>>
  BY <1>2 DEF Start, Approve, Authorize, Exchange, Rotation, Disconnect, Crash, db, history
<1>3. ASSUME (\E c \in Codes : Expire(c)) \/ (\E f \in Fams : FamilyEnds(f)) \/ CleanupCodes
             \/ UNCHANGED vars
      PROVE  UNCHANGED <<consent, recorded, mixed>>
  BY <1>3 DEF Expire, FamilyEnds, CleanupCodes, vars, history
<1> QED
  BY <1>1, <1>2, <1>3 DEF Next

\* What was asked for only grows.
LEMMA AskedGrows == ASSUME TypeOK, [Next]_vars
                    PROVE  asked \subseteq asked' /\ asked' \in SUBSET Scopes
<1>1. ASSUME NEW p \in Procs, Step(p) PROVE asked' = asked
  BY <1>1 DEF Step, CheckConsent, ReadConsent, UpsertConsent, InsertCode, ClaimCode, Verify, Replay,
       RevokeStart, RevokeApply, FindAgent, RefindAgent, Persist, CreateAgent, DisconnectStart,
       DisconnectCommit, FindAgents, Retire, history
<1>2. ASSUME NEW p \in Procs, Start(p) \/ Crash(p) PROVE asked \subseteq asked' /\ asked' \in SUBSET Scopes
  BY <1>2 DEF Start, TypeOK, Asks, Approve, Authorize, Exchange, Rotation, Disconnect, Crash, history
<1>3. ASSUME (\E c \in Codes : Expire(c)) \/ (\E f \in Fams : FamilyEnds(f)) \/ CleanupCodes
             \/ UNCHANGED vars
      PROVE  asked' = asked
  BY <1>3 DEF Expire, FamilyEnds, CleanupCodes, vars, history
<1> QED
  BY <1>1, <1>2, <1>3 DEF Next, TypeOK

\* The family of a request that has one.
LEMMA FamOf ==
  ASSUME TypeOK, ShapeInv, NEW p \in Procs,
         req[p].pc \in {"claim", "verify", "replay", "family", "revoking", "upsert"} \cup Naming
  PROVE  /\ req[p].fam \in Fams /\ req[p].fam[1] \in Codes
         /\ req[p].op = "exchange" => req[p].fam = <<req[p].fam[1], p>>
         /\ req[p].pc = "claim" => req[p].op = "exchange"
<1>1. Shape(p)
  BY DEF ShapeInv
<1>2. ASSUME OwnFam(p)
      PROVE  req[p].fam \in Fams /\ req[p].fam = <<req[p].fam[1], p>>
  <2>1. PICK c \in Codes : req[p].fam = <<c, p>>
    BY <1>2 DEF OwnFam
  <2> QED BY <2>1 DEF Fams
<1>3. req[p].fam \in Fams => req[p].fam[1] \in Codes
  BY DEF Fams
<1> QED
  BY <1>1, <1>2, <1>3 DEF Shape, Naming

\* What a step can make of one code: insert it, take it, answer its maker, let
\* it expire, clean it up.
OneCode(c) ==
  \/ code'[c] = code[c]
  \/ /\ code[c].st = "none" /\ code'[c].st = "fresh" /\ ~code'[c].expired
     /\ \E p \in Procs : At(p, "insertCode") /\ InsertCode(p, c) /\ code'[c].scope = req[p].scope
  \/ /\ code[c].st = "fresh" /\ ~code[c].expired /\ code'[c].st = "used" /\ ~code'[c].expired
     /\ code'[c].scope = code[c].scope
     /\ \E p \in Procs : ClaimCode(p) /\ Claimable(p) /\ req[p].fam[1] = c
  \/ /\ code'[c].st = code[c].st /\ code'[c].expired = code[c].expired
     /\ code'[c].scope = code[c].scope
  \/ /\ code[c].st \in {"fresh", "used"} /\ code'[c].st = code[c].st /\ code'[c].expired
     /\ code'[c].scope = code[c].scope
  \/ /\ code[c].expired /\ code'[c].st = "deleted" /\ code'[c].scope = code[c].scope

LEMMA CodesMove ==
  ASSUME TypeOK, ShapeInv, [Next]_vars
  PROVE  /\ code' \in [Codes -> Code] /\ \A c \in Codes : OneCode(c)
         /\ \/ code' = code
            \/ \E p \in Procs : \/ \E c \in Codes : InsertCode(p, c)
                                \/ (ClaimCode(p) /\ Claimable(p)) \/ UpsertConsent(p)
            \/ \E c \in Codes : Expire(c)
            \/ CleanupCodes
<1> DEFINE Good == code' \in [Codes -> Code] /\ \A c \in Codes : OneCode(c)
<1>0. code \in [Codes -> Code]
  BY DEF TypeOK
<1>a. code' = code => Good
  BY <1>0 DEF OneCode
<1>1. ASSUME NEW p \in Procs, NEW c \in Codes, InsertCode(p, c) PROVE Good
  <2> DEFINE o == (req[p].op = "authorize")
             r == [st |-> "fresh", scope |-> req[p].scope, expired |-> FALSE, out |-> o]
  <2>1. req[p].scope \in SUBSET Scopes /\ o \in BOOLEAN
    BY Typed DEF Request
  <2>2. code[c].st = "none" /\ code' = [code EXCEPT ![c] = r] /\ At(p, "insertCode")
    BY <1>1 DEF InsertCode
  <2> HIDE DEF o
  <2>3. r \in Code /\ r.st = "fresh" /\ r.scope = req[p].scope /\ ~r.expired
    BY <2>1 DEF Code
  <2> HIDE DEF r
  <2>4. code' \in [Codes -> Code] /\ \A d \in Codes : d # c => code'[d] = code[d]
    BY <1>0, <2>2, <2>3
  <2>5. code'[c] = r
    BY <1>0, <2>2
  <2>6. OneCode(c)
    BY <1>1, <2>2, <2>3, <2>5 DEF OneCode
  <2> QED BY <2>4, <2>6 DEF OneCode
<1>2. ASSUME NEW p \in Procs, ClaimCode(p), Claimable(p) PROVE Good
  <2> DEFINE c == req[p].fam[1]
             r == [code[c] EXCEPT !.st = "used"]
  <2>1. c \in Codes
    BY <1>2, FamOf DEF ClaimCode, At
  <2>2. code[c].st = "fresh" /\ ~code[c].expired /\ code' = [code EXCEPT ![c] = r]
    BY <1>2 DEF ClaimCode, Claimable
  <2>3. r \in Code /\ r.st = "used" /\ r.scope = code[c].scope /\ r.expired = code[c].expired
    BY <1>0, <2>1 DEF Code
  <2> HIDE DEF r
  <2>4. code' \in [Codes -> Code] /\ code'[c] = r /\ \A d \in Codes : d # c => code'[d] = code[d]
    BY <1>0, <2>1, <2>2, <2>3
  <2>5. OneCode(c)
    BY <1>2, <2>2, <2>3, <2>4 DEF OneCode
  <2> QED BY <2>4, <2>5 DEF OneCode
<1>3. ASSUME NEW p \in Procs, UpsertConsent(p) PROVE Good
  <2> DEFINE c == req[p].fam[1]
             r == [code[c] EXCEPT !.out = TRUE]
  <2>1. c \in Codes
    BY <1>3, FamOf DEF UpsertConsent, At
  <2>2. code' = [code EXCEPT ![c] = r]
    BY <1>3 DEF UpsertConsent
  <2>a. code[c] \in Code
    BY <1>0, <2>1
  <2> HIDE DEF c
  <2>3. r \in Code /\ r.st = code[c].st /\ r.scope = code[c].scope /\ r.expired = code[c].expired
    BY <2>a DEF Code
  <2> HIDE DEF r
  <2>4. code' \in [Codes -> Code] /\ code'[c] = r /\ \A d \in Codes : d # c => code'[d] = code[d]
    BY <1>0, <2>1, <2>2, <2>3
  <2> QED BY <2>3, <2>4 DEF OneCode
<1>4. ASSUME NEW c \in Codes, Expire(c) PROVE Good
  <2> DEFINE r == [code[c] EXCEPT !.expired = TRUE]
  <2>1. code[c].st \in {"fresh", "used"} /\ code' = [code EXCEPT ![c] = r]
    BY <1>4 DEF Expire
  <2>2. r \in Code /\ r.st = code[c].st /\ r.scope = code[c].scope /\ r.expired
    BY <1>0 DEF Code
  <2> HIDE DEF r
  <2> QED BY <1>0, <2>1, <2>2 DEF OneCode
<1>5. ASSUME CleanupCodes PROVE Good
  <2> DEFINE r(c) == [code[c] EXCEPT !.st = "deleted"]
  <2>1. code' = [c \in Codes |-> IF code[c].expired THEN r(c) ELSE code[c]]
    BY <1>5 DEF CleanupCodes
  <2>2. ASSUME NEW c \in Codes
        PROVE  r(c) \in Code /\ r(c).st = "deleted" /\ r(c).scope = code[c].scope
    BY <1>0 DEF Code
  <2> HIDE DEF r
  <2>3. code' \in [Codes -> Code]
    BY <1>0, <2>1, <2>2
  <2>4. ASSUME NEW c \in Codes PROVE OneCode(c)
    BY <2>1, <2>2 DEF OneCode
  <2> QED BY <2>3, <2>4
<1>6. ASSUME NEW p \in Procs, Start(p) \/ Step(p) \/ Crash(p)
      PROVE  \/ code' = code
             \/ \E c \in Codes : InsertCode(p, c)
             \/ (ClaimCode(p) /\ Claimable(p)) \/ UpsertConsent(p)
  <2>1. CASE Step(p)
    BY <2>1 DEF Step, CheckConsent, ReadConsent, ClaimCode, Verify, Replay, RevokeStart,
         RevokeApply, FindAgent, RefindAgent, Persist, CreateAgent, DisconnectStart,
         DisconnectCommit, FindAgents, Retire, db
  <2>2. CASE Start(p) \/ Crash(p)
    BY <2>2 DEF Start, Approve, Authorize, Exchange, Rotation, Disconnect, Crash, db
  <2> QED BY <1>6, <2>1, <2>2
<1>7. (\E f \in Fams : FamilyEnds(f)) \/ UNCHANGED vars => code' = code
  BY DEF FamilyEnds, vars
<1> HIDE DEF Good
<1> DEFINE How == \/ code' = code
                  \/ \E p \in Procs : \/ \E c \in Codes : InsertCode(p, c)
                                      \/ (ClaimCode(p) /\ Claimable(p)) \/ UpsertConsent(p)
                  \/ \E c \in Codes : Expire(c)
                  \/ CleanupCodes
<1>8. How
  BY <1>6, <1>7 DEF Next
<1>9. Good
  BY <1>8, <1>a, <1>1, <1>2, <1>3, <1>4, <1>5
<1> QED
  BY <1>8, <1>9 DEF Good

\* Families start, once, and end.
Persists(p) == /\ Persist(p) /\ At(p, "persist") /\ req[p].op = "exchange" /\ Rests(p)
               /\ token' = [token EXCEPT ![req[p].fam] = "live"]

LEMMA TokensMove ==
  ASSUME TypeOK, ShapeInv, [Next]_vars
  PROVE  /\ token' \in [Fams -> {"none", "live", "revoked"}]
         /\ \/ \E p \in Procs : Persists(p)
            \/ \A f \in Fams : token'[f] = token[f] \/ (token[f] = "live" /\ token'[f] = "revoked")
<1> DEFINE Good == /\ token' \in [Fams -> {"none", "live", "revoked"}]
                   /\ \A f \in Fams :
                        token'[f] = token[f] \/ (token[f] = "live" /\ token'[f] = "revoked")
<1>0. token \in [Fams -> {"none", "live", "revoked"}]
  BY DEF TypeOK
<1>1. ASSUME NEW p \in Procs, Step(p) PROVE Good \/ (Persists(p) /\ token' \in [Fams -> {"none", "live", "revoked"}])
  <2>1. CASE Persist(p)
    <3>1. req[p].op = "exchange" => req[p].fam \in Fams
      BY <2>1, FamOf DEF Persist, At, Naming
    <3> QED BY <1>0, <2>1, <3>1, AnswerRests DEF Persist, Persists, Answers
  <2>2. CASE RevokeApply(p) \/ DisconnectCommit(p)
    BY <1>0, <2>2 DEF RevokeApply, DisconnectCommit, RevokedIn
  <2> QED BY <1>0, <1>1, <2>1, <2>2 DEF Step, CheckConsent, ReadConsent, UpsertConsent, InsertCode,
            ClaimCode, Verify, Replay, RevokeStart, FindAgent, RefindAgent, CreateAgent,
            DisconnectStart, FindAgents, Retire, db
<1>2. ASSUME NEW p \in Procs, Start(p) \/ Crash(p) PROVE token' = token
  BY <1>2 DEF Start, Approve, Authorize, Exchange, Rotation, Disconnect, Crash, db
<1>3. ASSUME NEW f \in Fams, FamilyEnds(f) PROVE Good
  BY <1>0, <1>3 DEF FamilyEnds
<1>4. (\E c \in Codes : Expire(c)) \/ CleanupCodes \/ UNCHANGED vars => token' = token
  BY DEF Expire, CleanupCodes, vars
<1> QED
  BY <1>0, <1>1, <1>2, <1>3, <1>4 DEF Next

\* What a request has not read only grows until it is answered; a new family is
\* among it for every other request that has read the tokens.
LEMMA NewerMoves ==
  ASSUME TypeOK, ShapeInv, [Next]_vars
  PROVE  /\ newer' \in [Procs -> SUBSET Fams]
         /\ \A q \in Procs : Rests(q) \/ newer[q] \subseteq newer'[q]
         /\ \A p \in Procs, q \in Procs :
              Persists(p) /\ q # p /\ Reading(q) => req[p].fam \in newer'[q]
<1> DEFINE Good == /\ newer' \in [Procs -> SUBSET Fams]
                   /\ \A q \in Procs : Rests(q) \/ newer[q] \subseteq newer'[q]
<1>0. newer \in [Procs -> SUBSET Fams]
  BY DEF TypeOK
<1>1. ASSUME NEW p \in Procs, NEW a \in Answers, Finish(p, a) PROVE Good
  BY <1>0, <1>1, FinishRests DEF Finish
<1>2. ASSUME newer' = newer PROVE Good
  BY <1>0, <1>2
<1>3. ASSUME NEW p \in Procs, Persist(p) PROVE Good
  <2>1. req[p].fam \in Fams
    BY <1>3, FamOf DEF Persist, At, Naming
  <2>2. ASSUME Answer(p, "ok"), Issues(p, req[p].fam) PROVE Good
    BY <1>0, <2>1, <2>2, AnswerRests DEF Issues, Answers
  <2> QED BY <1>1, <1>3, <2>2 DEF Persist, Answers
<1> HIDE DEF Good
<1>4. ASSUME NEW p \in Procs, Step(p) PROVE Good
  <2>1. CASE \E a \in Answers : Finish(p, a)
    BY <1>1, <2>1
  <2>2. CASE Persist(p)
    BY <1>3, <2>2
  <2>3. CASE newer' = newer
    BY <1>2, <2>3
  <2> QED BY <1>4, <2>1, <2>2, <2>3 DEF Step, CheckConsent, ReadConsent, UpsertConsent, InsertCode,
            ClaimCode, Verify, Replay, RevokeStart, RevokeApply, FindAgent, RefindAgent,
            CreateAgent, DisconnectStart, DisconnectCommit, FindAgents, Retire, Goto, marks,
            Answers
<1>5. ASSUME NEW p \in Procs, Start(p) PROVE newer' = newer
  BY <1>5 DEF Start, Approve, Authorize, Exchange, Rotation, Disconnect, Begin
<1>6. ASSUME NEW p \in Procs, Crash(p) PROVE Good
  BY <1>1, <1>6 DEF Crash, Answers
<1>7. (\E c \in Codes : Expire(c)) \/ (\E f \in Fams : FamilyEnds(f)) \/ CleanupCodes
        \/ UNCHANGED vars => newer' = newer
  BY DEF Expire, FamilyEnds, CleanupCodes, vars, marks
<1>8. Good
  BY <1>2, <1>4, <1>5, <1>6, <1>7 DEF Next
<1>9. ASSUME NEW p \in Procs, NEW q \in Procs, Persists(p), q # p, Reading(q)
      PROVE  req[p].fam \in newer'[q]
  BY <1>9 DEF Persists, Persist, Issues
<1> QED
  BY <1>8, <1>9 DEF Good

\* A family that is live was, or has just been started.
LEMMA LiveGrows ==
  ASSUME TypeOK, ShapeInv, [Next]_vars, NEW f \in LiveFams'
  PROVE  f \in LiveFams \/ \E p \in Procs : Persists(p) /\ req[p].fam = f
<1>1. f \in Fams /\ token'[f] = "live" /\ token \in [Fams -> {"none", "live", "revoked"}]
  BY DEF LiveFams, TypeOK
<1>2. ASSUME NEW p \in Procs, Persists(p), req[p].fam # f PROVE token[f] = "live"
  BY <1>1, <1>2 DEF Persists
<1> QED
  BY <1>1, <1>2, TokensMove DEF LiveFams

\* Permission comes with a code, and goes with a revoke.
LEMMA AllowedMoves ==
  ASSUME [Next]_vars
  PROVE  \/ UNCHANGED allowed
         \/ \E p \in Procs : \/ \E c \in Codes : InsertCode(p, c)
                             \/ RevokeApply(p) \/ DisconnectCommit(p)
<1>1. ASSUME NEW p \in Procs, Step(p), \A c \in Codes : ~InsertCode(p, c),
             ~RevokeApply(p), ~DisconnectCommit(p)
      PROVE  UNCHANGED allowed
  BY <1>1 DEF Step, CheckConsent, ReadConsent, UpsertConsent, ClaimCode, Verify, Replay,
       RevokeStart, FindAgent, RefindAgent, Persist, CreateAgent, DisconnectStart, FindAgents,
       Retire, history
<1>2. ASSUME NEW p \in Procs, Start(p) \/ Crash(p) PROVE UNCHANGED allowed
  BY <1>2 DEF Start, Approve, Authorize, Exchange, Rotation, Disconnect, Crash, history
<1>3. (\E c \in Codes : Expire(c)) \/ (\E f \in Fams : FamilyEnds(f)) \/ CleanupCodes
        \/ UNCHANGED vars => UNCHANGED allowed
  BY DEF Expire, FamilyEnds, CleanupCodes, vars, history
<1> QED
  BY <1>1, <1>2, <1>3 DEF Next

\* Who is let through stays so until it asks again, has its code, or a disconnect.
LEMMA ThroughMoves ==
  ASSUME [Next]_vars
  PROVE  \/ UNCHANGED through
         \/ \E p \in Procs : \/ \E s \in Asks : Authorize(p, s)
                             \/ \E c \in Codes : InsertCode(p, c)
                             \/ DisconnectCommit(p)
<1>1. ASSUME NEW p \in Procs, Step(p), \A c \in Codes : ~InsertCode(p, c), ~DisconnectCommit(p)
      PROVE  UNCHANGED through
  BY <1>1 DEF Step, CheckConsent, ReadConsent, UpsertConsent, ClaimCode, Verify, Replay,
       RevokeStart, RevokeApply, FindAgent, RefindAgent, Persist, CreateAgent, DisconnectStart,
       FindAgents, Retire, history
<1>2. ASSUME NEW p \in Procs, Start(p) \/ Crash(p), \A s \in Asks : ~Authorize(p, s)
      PROVE  UNCHANGED through
  BY <1>2 DEF Start, Approve, Exchange, Rotation, Disconnect, Crash, history
<1>3. (\E c \in Codes : Expire(c)) \/ (\E f \in Fams : FamilyEnds(f)) \/ CleanupCodes
        \/ UNCHANGED vars => UNCHANGED through
  BY DEF Expire, FamilyEnds, CleanupCodes, vars, history
<1> QED
  BY <1>1, <1>2, <1>3 DEF Next

\* Agents are made while none is live, and retired.
LEMMA AgentsMove ==
  ASSUME TypeOK, [Next]_vars
  PROVE  /\ agent' \in [Agents -> {"none", "live", "retired"}]
         /\ \/ UNCHANGED agent
            \/ \E a \in Agents : agent[a] = "none" /\ LiveAgents = {}
                                /\ agent' = [agent EXCEPT ![a] = "live"]
            \/ \E p \in Procs : /\ Retire(p)
                               /\ agent' = [a \in Agents |-> IF a \in req[p].agents
                                                            THEN "retired" ELSE agent[a]]
<1>0. agent \in [Agents -> {"none", "live", "retired"}]
  BY DEF TypeOK
<1>1. ASSUME NEW p \in Procs, Step(p)
      PROVE  UNCHANGED agent \/ (\E a \in Agents : CreateAgent(p, a)) \/ Retire(p)
  BY <1>1 DEF Step, CheckConsent, ReadConsent, UpsertConsent, InsertCode, ClaimCode, Verify, Replay,
       RevokeStart, RevokeApply, FindAgent, RefindAgent, Persist, DisconnectStart,
       DisconnectCommit, FindAgents, db
<1>2. ASSUME NEW p \in Procs, Start(p) \/ Crash(p) PROVE UNCHANGED agent
  BY <1>2 DEF Start, Approve, Authorize, Exchange, Rotation, Disconnect, Crash, db
<1>3. (\E c \in Codes : Expire(c)) \/ (\E f \in Fams : FamilyEnds(f)) \/ CleanupCodes
        \/ UNCHANGED vars => UNCHANGED agent
  BY DEF Expire, FamilyEnds, CleanupCodes, vars
<1>4. UNCHANGED agent \/ (\E p \in Procs : (\E a \in Agents : CreateAgent(p, a)) \/ Retire(p))
  BY <1>1, <1>2, <1>3 DEF Next
<1> QED
  BY <1>0, <1>4 DEF CreateAgent, Retire

-----------------------------------------------------------------------------
(* The invariant is inductive *)

LEMMA TypeStep == Inv /\ [Next]_vars => TypeOK'
<1> SUFFICES ASSUME Inv, [Next]_vars PROVE TypeOK'
  OBVIOUS
<1>0. TypeOK /\ ShapeInv
  BY DEF Inv
<1>1. req' \in [Procs -> Request] /\ then' \in [Procs -> Moments]
  <2>1. ASSUME NEW p \in Procs, Start(p) \/ Step(p) \/ Crash(p) PROVE Requests
    BY <1>0, <2>1, StartBegins, StepMoves, FinishRests
       DEF Begins, Moves, Rests, Goes, Crash, Answers
  <2>2. ASSUME (\E c \in Codes : Expire(c)) \/ (\E f \in Fams : FamilyEnds(f)) \/ CleanupCodes
               \/ UNCHANGED vars
        PROVE  Requests
    BY <1>0, <2>2, Typed DEF Expire, FamilyEnds, CleanupCodes, vars, marks, Requests
  <2> QED BY <2>1, <2>2 DEF Next, Requests
<1>2. consent' \in SUBSET Scopes /\ recorded' \in SUBSET Scopes
  <2>1. ASSUME NEW p \in Procs, UpsertConsent(p) PROVE <1>2
    BY <1>0, <2>1 DEF UpsertConsent, TypeOK, Request
  <2>2. ASSUME NEW p \in Procs, DisconnectCommit(p) PROVE <1>2
    BY <2>2 DEF DisconnectCommit
  <2> QED BY <1>0, <2>1, <2>2, ConsentMoves DEF TypeOK
<1>3. mixed' \in BOOLEAN
  <2>1. ASSUME NEW p \in Procs, UpsertConsent(p) \/ DisconnectCommit(p) PROVE mixed' \in BOOLEAN
    BY <1>0, <2>1 DEF UpsertConsent, DisconnectCommit, TypeOK, Straddled
  <2> QED BY <1>0, <2>1, ConsentMoves DEF TypeOK
<1>4. newer' \in [Procs -> SUBSET Fams]
  BY <1>0, NewerMoves
<1>5. allowed' \in SUBSET Codes
  <2>1. ASSUME NEW p \in Procs, NEW c \in Codes, InsertCode(p, c) PROVE <1>5
    BY <1>0, <2>1 DEF TypeOK, InsertCode
  <2>2. ASSUME NEW p \in Procs, RevokeApply(p) \/ DisconnectCommit(p) PROVE <1>5
    <3>1. allowed' = Left(p)
      BY <2>2 DEF RevokeApply, DisconnectCommit
    <3> QED BY <1>0, <3>1 DEF TypeOK, Left
  <2> QED BY <1>0, <2>1, <2>2, AllowedMoves DEF TypeOK
<1>6. through' \in SUBSET Procs
  BY <1>0, ThroughMoves DEF TypeOK, Authorize, InsertCode, DisconnectCommit, LetThrough
<1> QED
  BY <1>0, <1>1, <1>2, <1>3, <1>4, <1>5, <1>6, AskedGrows, CodesMove, TokensMove, AgentsMove
     DEF TypeOK, Moments

LEMMA ShapeStep == Inv /\ [Next]_vars => ShapeInv'
<1> SUFFICES ASSUME Inv, [Next]_vars, NEW q \in Procs PROVE Shape(q)'
  BY DEF ShapeInv
<1>0. TypeOK /\ Shape(q)
  BY DEF Inv, ShapeInv
<1>1. CASE req'[q] = req[q]
  BY <1>0, <1>1 DEF Shape, OwnFam
<1>2. CASE Begins(q)
  BY <1>2 DEF Begins, Shape, OwnFam, Naming
<1>3. CASE Moves(q)
  <2>1. Fam(q) /\ OwnFam(q) => OwnFam(q)'
    BY DEF Fam, OwnFam
  <2> QED BY <1>0, <1>3, <2>1 DEF Moves, Shape, Rests, Goes, Fam, At, Naming
<1>4. CASE Rests(q)
  BY <1>4 DEF Rests, Shape
<1> QED
  BY <1>0, <1>1, <1>2, <1>3, <1>4, RequestsMove

LEMMA AskStep == Inv /\ [Next]_vars => AskInv'
<1> SUFFICES ASSUME Inv, [Next]_vars PROVE AskInv'
  OBVIOUS
<1>0. TypeOK /\ ShapeInv /\ AskInv /\ asked \subseteq asked'
  BY AskedGrows DEF Inv
<1>1. consent' \subseteq asked'
  <2>1. ASSUME NEW p \in Procs, UpsertConsent(p) \/ DisconnectCommit(p) PROVE consent' \subseteq asked
    BY <1>0, <2>1 DEF UpsertConsent, DisconnectCommit, AskInv
  <2> QED BY <1>0, <2>1, ConsentMoves DEF AskInv
<1>2. ASSUME NEW c \in Codes PROVE code'[c].scope \subseteq asked'
  <2>1. OneCode(c)
    BY <1>0, CodesMove
  <2> QED BY <1>0, <2>1 DEF AskInv, OneCode, At
<1>3. ASSUME NEW q \in Procs
      PROVE  /\ req'[q].pc \in {"insertCode", "readConsent", "upsert"}
                  => req'[q].scope \subseteq asked'
             /\ At(q, "upsert")' => req'[q].merged \subseteq asked'
  <2>1. CASE req'[q] = req[q]
    BY <1>0, <2>1 DEF AskInv, At
  <2>2. CASE Begins(q)
    BY <1>0, <2>2 DEF Begins, At
  <2>3. CASE Moves(q)
    BY <1>0, <2>3 DEF Moves, Rests, Goes, AskInv, At
  <2>4. CASE Rests(q)
    BY <2>4 DEF Rests, At
  <2> QED BY <1>0, <2>1, <2>2, <2>3, <2>4, RequestsMove
<1> QED
  BY <1>1, <1>2, <1>3 DEF AskInv

LEMMA ConsentStep == Inv /\ [Next]_vars => ConsentInv'
<1> DEFINE Read == \A q \in Procs : At(q, "upsert")' =>
                     req'[q].merged = req'[q].scope \cup consent'
<1> SUFFICES ASSUME Inv, [Next]_vars, ~mixed' PROVE consent' = recorded' /\ Read
  BY DEF ConsentInv
<1>0. TypeOK /\ ConsentInv
  BY DEF Inv
<1>1. ASSUME NEW q \in Procs, At(q, "upsert")'
      PROVE  \/ req'[q] = req[q] /\ At(q, "upsert")
             \/ req'[q].merged = req'[q].scope \cup consent /\ UNCHANGED consent
  <2>1. Moves(q) \/ req'[q] = req[q]
    BY <1>0, <1>1, RequestsMove DEF Begins, Rests, At
  <2> QED BY <1>1, <2>1 DEF Moves, Rests, Goes, At
<1>2. ASSUME NEW p \in Procs, UpsertConsent(p) PROVE consent' = recorded' /\ Read
  <2>1. /\ ~mixed /\ ~Straddled(p) /\ At(p, "upsert") /\ Rests(p)
        /\ consent' = req[p].merged /\ recorded' = recorded \cup req[p].scope
    BY <1>0, <1>2, FinishRests DEF UpsertConsent, Answers
  <2>2. consent' = recorded'
    BY <1>0, <2>1 DEF ConsentInv
  <2>3. ASSUME NEW q \in Procs, At(q, "upsert")' PROVE FALSE
    BY <2>1, <2>3 DEF Straddled, Rests, Others, At
  <2> QED BY <2>2, <2>3
<1>3. ASSUME NEW p \in Procs, DisconnectCommit(p) PROVE consent' = recorded' /\ Read
  <2>1. ~Straddled(p) /\ consent' = {} /\ recorded' = {} /\ Goto(p, "findAgents")
    BY <1>3 DEF DisconnectCommit
  <2>2. Goes(p, "findAgents")
    BY <1>0, <2>1, GotoGoes DEF PCs
  <2>3. ASSUME NEW q \in Procs, At(q, "upsert")' PROVE FALSE
    BY <2>1, <2>2, <2>3 DEF Straddled, Goes, Others, At
  <2> QED BY <2>1, <2>3
<1>4. CASE UNCHANGED <<consent, recorded, mixed>>
  BY <1>0, <1>1, <1>4 DEF ConsentInv
<1> QED
  BY <1>2, <1>3, <1>4, ConsentMoves

LEMMA AgentStep == Inv /\ [Next]_vars => AgentInv'
<1> SUFFICES ASSUME Inv, [Next]_vars PROVE AgentInv'
  OBVIOUS
<1>0. TypeOK /\ ShapeInv /\ AgentInv /\ agent \in [Agents -> {"none", "live", "retired"}]
  BY DEF Inv, TypeOK
<1>1. ASSUME NEW a \in Agents PROVE agent[a] = "retired" => agent'[a] = "retired"
  BY <1>0, AgentsMove
<1>2. ASSUME NEW a \in LiveAgents', NEW b \in LiveAgents' PROVE a = b
  BY <1>0, <1>2, AgentsMove DEF AgentInv, LiveAgents
<1>3. ASSUME NEW q \in Procs
      PROVE  /\ then'[q].gone \subseteq {a \in Agents : agent'[a] = "retired"}
             /\ req'[q].act \notin then'[q].gone
  <2>0. /\ then[q].gone \subseteq {a \in Agents : agent[a] = "retired"}
        /\ req[q].act \notin then[q].gone
        /\ Moment.gone = {a \in Agents : agent[a] = "retired"} /\ Nothing.gone = {}
    BY <1>0 DEF AgentInv, Moment, Nothing
  <2>1. CASE req'[q] = req[q] /\ then'[q] = then[q]
    BY <1>1, <2>0, <2>1
  <2>2. CASE Begins(q)
    BY <1>1, <2>0, <2>2, ConstAssumption DEF Begins
  <2>3. CASE Rests(q)
    BY <2>0, <2>3 DEF Rests
  <2>4. CASE Moves(q) /\ ~Rests(q)
    BY <1>1, <2>0, <2>4 DEF Moves, Goes, Act
  <2> QED BY <1>0, <2>1, <2>2, <2>3, <2>4, RequestsMove
<1> QED
  BY <1>2, <1>3 DEF AgentInv

LEMMA OnceStep == Inv /\ [Next]_vars => OnceInv'
<1> SUFFICES ASSUME Inv, [Next]_vars PROVE OnceInv'
  OBVIOUS
<1>0. TypeOK /\ ShapeInv /\ OnceInv /\ token \in [Fams -> {"none", "live", "revoked"}]
  BY DEF Inv, TypeOK
<1> DEFINE Took(p, c)  == Claims(p) /\ req[p].fam = <<c, p>>
           Began(p, c) == token[<<c, p>>] # "none"
\* A code that was taken stays taken.
<1>1. ASSUME NEW c \in Codes
      PROVE  /\ code[c].st \in {"used", "deleted"} => code'[c].st \in {"used", "deleted"}
             /\ code'[c].st = "none" => ~code'[c].expired
  <2>1. OneCode(c) /\ (code[c].st = "none" => ~code[c].expired)
    BY <1>0, CodesMove DEF OnceInv
  <2> QED BY <2>1 DEF OneCode
\* Who takes a code, and who starts a family.
<1>2. ASSUME NEW p \in Procs, NEW c \in Codes, Took(p, c)'
      PROVE  \/ Took(p, c)
             \/ /\ At(p, "claim") /\ code[c].st = "fresh" /\ UNCHANGED token
                /\ code'[c].st = "used" /\ Others(p)
  <2>1. CASE req'[p] = req[p]
    BY <1>2, <2>1 DEF Claims
  <2>2. CASE Begins(p) \/ Rests(p)
    BY <1>2, <2>2 DEF Begins, Rests, Claims, Naming
  <2>3. CASE Step(p) /\ Moves(p) /\ At(p, "claim") /\ Claimable(p)
    <3>1. Fam(p) /\ Others(p)
      BY <1>2, <2>3 DEF Moves, At, Goes, Rests, Claims, Naming
    <3>2. ClaimCode(p)
      BY <2>3 DEF Step, CheckConsent, ReadConsent, UpsertConsent, InsertCode, ClaimCode, Verify,
         Replay, RevokeStart, RevokeApply, FindAgent, RefindAgent, Persist, CreateAgent,
         DisconnectStart, DisconnectCommit, FindAgents, Retire, At
    <3>3. req[p].fam[1] = c /\ code \in [Codes -> Code]
      BY <1>0, <1>2, <3>1 DEF Fam, TypeOK
    <3> QED BY <2>3, <3>1, <3>2, <3>3 DEF ClaimCode, Claimable, Code
  <2>4. CASE Moves(p) /\ ~(At(p, "claim") /\ Claimable(p))
    <3>1. req[p].pc = "verify" => req[p].op = "exchange"
      BY <1>0 DEF ShapeInv, Shape, Naming
    <3> QED BY <1>2, <2>2, <2>4, <3>1 DEF Moves, Goes, Fam, At, Claims, Naming
  <2> QED BY <1>0, <2>1, <2>2, <2>3, <2>4, RequestsMove
<1>3. ASSUME NEW p \in Procs, NEW c \in Codes, Began(p, c)'
      PROVE  \/ Began(p, c)
             \/ Took(p, c) /\ ~Claims(p)' /\ \A f \in Fams : f # <<c, p>> => token'[f] = token[f]
  <2>0. <<c, p>> \in Fams
    BY DEF Fams
  <2>1. PICK q \in Procs : Began(p, c) \/ (Persists(q) /\ req[q].fam = <<c, p>>)
    BY <1>0, <1>3, <2>0, TokensMove DEF Persists
  <2>2. CASE Persists(q) /\ req[q].fam = <<c, p>>
    <3>1. q = p
      BY <1>0, <2>2, FamOf DEF Persists, At, Naming
    <3> QED BY <1>0, <2>2, <3>1 DEF Persists, Rests, Claims, Naming, At
  <2> QED BY <2>1, <2>2
<1>4. ASSUME NEW p \in Procs, NEW c \in Codes, Began(p, c)'
      PROVE  code'[c].st \in {"used", "deleted"} /\ \A q \in Procs : Began(q, c)' => q = p
  <2>1. code'[c].st \in {"used", "deleted"}
    BY <1>0, <1>1, <1>3, <1>4 DEF OnceInv
  <2>2. ASSUME NEW q \in Procs, Began(q, c)' PROVE q = p
    <3>1. CASE Began(p, c) /\ Began(q, c)
      BY <1>0, <3>1 DEF OnceInv
    <3>2. CASE Took(p, c) /\ Took(q, c)
      BY <1>0, <3>2 DEF OnceInv
    <3>3. ~(Began(p, c) /\ Took(q, c)) /\ ~(Took(p, c) /\ Began(q, c))
      BY <1>0 DEF OnceInv
    <3> QED BY <1>3, <1>4, <2>2, <3>1, <3>2, <3>3
  <2> QED BY <2>1, <2>2
<1>5. ASSUME NEW p \in Procs, NEW c \in Codes, Took(p, c)'
      PROVE  /\ code'[c].st \in {"used", "deleted"} /\ \A q \in Procs : ~Began(q, c)'
             /\ \A q \in Procs : Took(q, c)' => q = p
  <2>1. code'[c].st \in {"used", "deleted"}
    BY <1>0, <1>1, <1>2, <1>5 DEF OnceInv
  <2>2. ASSUME NEW q \in Procs, Began(q, c)' PROVE FALSE
    <3>1. CASE Took(p, c)
      BY <1>0, <1>3, <1>5, <2>2, <3>1 DEF OnceInv
    <3>2. CASE code[c].st = "fresh" /\ UNCHANGED token
      BY <1>0, <2>2, <3>2 DEF OnceInv
    <3> QED BY <1>2, <1>5, <3>1, <3>2
  <2>3. ASSUME NEW q \in Procs, Took(q, c)' PROVE q = p
    <3>1. CASE Took(p, c) /\ Took(q, c)
      BY <1>0, <3>1 DEF OnceInv
    <3>2. CASE At(p, "claim") /\ Others(p) /\ code[c].st = "fresh" /\ q # p
      <4>1. Took(q, c)
        BY <2>3, <3>2 DEF Others, Claims
      <4> QED BY <1>0, <3>2, <4>1 DEF OnceInv
    <3>3. CASE At(q, "claim") /\ Others(q) /\ code[c].st = "fresh" /\ q # p
      <4>1. Took(p, c)
        BY <1>5, <3>3 DEF Others, Claims
      <4> QED BY <1>0, <3>3, <4>1 DEF OnceInv
    <3> QED BY <1>2, <1>5, <2>3, <3>1, <3>2, <3>3
  <2> QED BY <2>1, <2>2, <2>3
<1> QED
  BY <1>1, <1>4, <1>5 DEF OnceInv, Claims

\* What ends has ended: a family or an agent that is not new is never revived.
LEMMA NoRevival ==
  ASSUME Inv, [Next]_vars
  PROVE  /\ \A f \in Fams : token[f] # "none"
              => token'[f] # "none" /\ (token'[f] = "live" => token[f] = "live")
         /\ \A a \in Agents : agent[a] # "none"
              => agent'[a] # "none" /\ (agent'[a] = "live" => agent[a] = "live")
<1>0. TypeOK /\ ShapeInv /\ OnceInv /\ token \in [Fams -> {"none", "live", "revoked"}]
      /\ agent \in [Agents -> {"none", "live", "retired"}]
  BY DEF Inv, TypeOK
<1>1. ASSUME NEW p \in Procs, Persists(p) PROVE req[p].fam \in Fams /\ token[req[p].fam] = "none"
  <2>1. /\ req[p].fam \in Fams /\ req[p].fam[1] \in Codes /\ req[p].fam = <<req[p].fam[1], p>>
        /\ Claims(p)
    BY <1>0, <1>1, FamOf DEF Persists, At, Naming, Claims
  <2>2. PICK c \in Codes : req[p].fam = <<c, p>>
    BY <2>1
  <2> QED BY <1>0, <2>1, <2>2 DEF OnceInv
<1>2. ASSUME NEW f \in Fams, token[f] # "none"
      PROVE  token'[f] # "none" /\ (token'[f] = "live" => token[f] = "live")
  <2>1. ASSUME NEW p \in Procs, Persists(p) PROVE token'[f] = token[f]
    BY <1>0, <1>1, <1>2, <2>1 DEF Persists
  <2> QED BY <1>0, <1>2, <2>1, TokensMove
<1>3. ASSUME NEW a \in Agents, agent[a] # "none"
      PROVE  agent'[a] # "none" /\ (agent'[a] = "live" => agent[a] = "live")
  BY <1>0, <1>3, AgentsMove
<1> QED
  BY <1>2, <1>3

LEMMA RevokeStep == Inv /\ [Next]_vars => RevokeInv'
<1> SUFFICES ASSUME Inv, [Next]_vars, NEW q \in Procs
      PROVE  /\ \A a \in then'[q].agents : agent'[a] # "none"
             /\ req'[q].pc \in {"revoking", "commit"}
                  => LiveFams' \subseteq req'[q].targets \cup newer'[q]
             /\ req'[q].pc \in {"findAgents", "retire"} => LiveFams' \subseteq newer'[q]
             /\ At(q, "retire")' => then'[q].agents \cap LiveAgents' \subseteq req'[q].agents
  BY DEF RevokeInv
<1>0. /\ TypeOK /\ ShapeInv /\ then[q].agents \subseteq Agents
      /\ \A a \in then[q].agents : agent[a] # "none"
      /\ req[q].pc \in {"revoking", "commit"} => LiveFams \subseteq req[q].targets \cup newer[q]
      /\ req[q].pc \in {"findAgents", "retire"} => LiveFams \subseteq newer[q]
      /\ At(q, "retire") => then[q].agents \cap LiveAgents \subseteq req[q].agents
  BY Typed DEF Inv, RevokeInv, Moments
<1>1. then[q].agents \cap LiveAgents' \subseteq then[q].agents \cap LiveAgents
  BY <1>0, NoRevival DEF LiveAgents
<1>2. CASE req'[q] = req[q] /\ then'[q] = then[q]
  <2>1. ASSUME req[q].pc \in {"revoking", "commit", "findAgents", "retire"}
        PROVE  /\ newer[q] \subseteq newer'[q]
               /\ \A f \in LiveFams' : f \in LiveFams \/ f \in newer'[q]
    <3>1. ~Rests(q) /\ Reading(q)
      BY <1>2, <2>1 DEF Rests, Reading
    <3>2. ASSUME NEW p \in Procs, Persists(p) PROVE req[p].fam \in newer'[q]
      <4>1. p # q
        BY <2>1, <3>2 DEF Persists, At
      <4> QED BY <1>0, <3>1, <3>2, <4>1, NewerMoves
    <3>3. ASSUME NEW f \in LiveFams' PROVE f \in LiveFams \/ f \in newer'[q]
      BY <1>0, <3>2, LiveGrows
    <3> QED BY <1>0, <3>1, <3>3, NewerMoves
  <2>2. \A a \in then'[q].agents : agent'[a] # "none"
    BY <1>0, <1>2, NoRevival
  <2>3. req'[q].pc \in {"revoking", "commit"} => LiveFams' \subseteq req'[q].targets \cup newer'[q]
    BY <1>0, <1>2, <2>1
  <2>4. req'[q].pc \in {"findAgents", "retire"} => LiveFams' \subseteq newer'[q]
    BY <1>0, <1>2, <2>1
  <2>5. At(q, "retire")' => then'[q].agents \cap LiveAgents' \subseteq req'[q].agents
    BY <1>0, <1>1, <1>2 DEF At
  <2> QED BY <2>2, <2>3, <2>4, <2>5
<1>3. CASE then'[q] \in {Nothing, Moment}
           /\ req'[q].pc \notin {"revoking", "commit", "findAgents", "retire"}
  <2>1. then'[q].agents \subseteq LiveAgents
    BY <1>3 DEF Nothing, Moment
  <2> QED BY <1>3, <2>1, NoRevival DEF LiveAgents, At
<1>4. CASE Moves(q) /\ ~Rests(q)
  <2>1. then'[q] = then[q] /\ newer' = newer
    BY <1>4 DEF Moves, Goes
  <2>2. \A a \in then'[q].agents : agent'[a] # "none"
    BY <1>0, <2>1, NoRevival
  <2>3. CASE req'[q].pc \in {"revoking", "commit"}
    <3>1. token' = token /\ req'[q].targets = LiveFams
      BY <1>4, <2>3 DEF Moves, Goes
    <3> QED BY <2>2, <2>3, <3>1 DEF LiveFams, At
  <2>4. CASE req'[q].pc = "findAgents"
    <3>1. At(q, "commit") /\ token' = RevokedIn(req[q].targets \ newer[q])
      BY <1>4, <2>4 DEF Moves, Goes
    <3>2. LiveFams' \subseteq newer[q]
      BY <1>0, <3>1 DEF At, RevokedIn, LiveFams
    <3> QED BY <2>1, <2>2, <2>4, <3>2 DEF At
  <2>5. CASE req'[q].pc = "retire"
    <3>1. At(q, "findAgents") /\ agent' = agent /\ token' = token /\ req'[q].agents = LiveAgents
      BY <1>4, <2>5 DEF Moves, Goes
    <3> QED BY <1>0, <1>1, <2>1, <2>2, <2>5, <3>1 DEF At, LiveAgents, LiveFams
  <2> QED BY <2>2, <2>3, <2>4, <2>5 DEF At
<1> QED
  BY <1>0, <1>2, <1>3, <1>4, RequestsMove DEF Begins, Rests

\* What one request holds; another's step does not change it.
LEMMA HoldingIs == ASSUME NEW c
                   PROVE  /\ Holding(c) <=> \E p \in Procs : Holds(p, c)
                          /\ Holding(c)' <=> \E p \in Procs : Holds(p, c)'
BY DEF Holding, Holds

\* A code in someone's hands was so before, unless it is new.
LEMMA LiveFrom ==
  ASSUME Inv, [Next]_vars, NEW c \in Codes, Live(c)'
  PROVE  Live(c) \/ \E p \in Procs : InsertCode(p, c)
<1>0. TypeOK /\ ShapeInv /\ OneCode(c)
  BY CodesMove DEF Inv
<1>1. ASSUME NEW q \in Procs, Holds(q, c)' PROVE Live(c)
  <2>1. CASE Holds(q, c)
    BY <2>1, HoldingIs DEF Live
  <2>2. CASE req'[q] = req[q]
    BY <1>1, <2>1, <2>2 DEF Holds
  <2>3. CASE Moves(q) /\ At(q, "claim") /\ Claimable(q)
    <3>1. req[q].fam = <<c, q>>
      BY <1>1, <2>3 DEF Moves, Holds, Rests, Goes, Fam, At
    <3> QED BY <2>3, <3>1 DEF Claimable, Live
  <2>4. CASE Moves(q) /\ ~(At(q, "claim") /\ Claimable(q))
    BY <1>1, <2>1, <2>4 DEF Moves, Holds, Rests, Goes, Fam, At
  <2>5. CASE Begins(q) \/ Rests(q)
    BY <1>1, <2>5 DEF Begins, Rests, Holds
  <2> QED BY <1>0, <2>2, <2>3, <2>4, <2>5, RequestsMove
<1>2. ASSUME code'[c].st = "fresh", ~code'[c].expired, \A p \in Procs : ~InsertCode(p, c)
      PROVE  Live(c)
  <2>1. code[c].st = "fresh" /\ ~code[c].expired
    BY <1>0, <1>2 DEF OneCode
  <2> QED BY <2>1 DEF Live
<1> QED
  BY <1>1, <1>2, HoldingIs DEF Live

\* What is void stays void.
LEMMA LiveBefore ==
  ASSUME Inv, [Next]_vars, NEW c \in Codes, code[c].st # "none", Live(c)' PROVE Live(c)
BY LiveFrom DEF InsertCode

LEMMA AllowedStep == Inv /\ [Next]_vars => AllowedInv'
<1> SUFFICES ASSUME Inv, [Next]_vars PROVE AllowedInv'
  OBVIOUS
<1>0. /\ TypeOK /\ ShapeInv /\ ConsentInv /\ RevokeInv
      /\ \A p \in Procs : At(p, "insertCode") => Stands(p)
      /\ \A c \in Codes : Live(c) => c \in allowed
      /\ \A f \in LiveFams : f[1] \in allowed
  BY DEF Inv, AllowedInv, LiveIsAllowed
\* Who is to insert a code.
<1>1. ASSUME NEW q \in Procs, At(q, "insertCode")' PROVE Stands(q)'
  <2>1. CASE req'[q] = req[q]
    <3>1. Stands(q) /\ At(q, "insertCode") /\ req[q].op \in {"approve", "authorize"}
      BY <1>0, <1>1, <2>1 DEF At, ShapeInv, Shape, Naming
    <3>2. ASSUME NEW p \in Procs, DisconnectCommit(p), req[q].op = "authorize" PROVE q \in through'
      BY <3>1, <3>2 DEF DisconnectCommit, LetThrough
    <3>3. ASSUME NEW p \in Procs, UpsertConsent(p)
          PROVE  recorded \subseteq recorded' /\ (mixed => mixed')
      BY <3>3 DEF UpsertConsent
    <3>4. ASSUME q \in through, q \notin through', req[q].op = "authorize" PROVE FALSE
      <4>1. ASSUME NEW p \in Procs, NEW s \in Asks, Authorize(p, s) PROVE p # q
        BY <3>1, <4>1 DEF Authorize, Begin, At
      <4>2. ASSUME NEW p \in Procs, NEW c \in Codes, InsertCode(p, c) PROVE p # q
        <5>1. ASSUME InsertCode(q, c) PROVE FALSE
          <6>1. Finish(q, "ok")
            BY <3>4, <5>1 DEF InsertCode
          <6>2. Rests(q)
            BY <1>0, <6>1, FinishRests DEF Answers
          <6> QED BY <1>1, <6>2 DEF Rests, At
        <5> QED BY <4>2, <5>1
      <4> QED BY <3>2, <3>4, <4>1, <4>2, ThroughMoves DEF Authorize, InsertCode
    <3> QED BY <2>1, <3>1, <3>2, <3>3, <3>4, ConsentMoves DEF Stands
  <2>2. CASE Begins(q)
    BY <1>1, <2>2 DEF Begins, At, Stands
  <2>3. CASE Step(q) /\ Moves(q) /\ ~Rests(q)
    <3>1. At(q, "checkConsent") /\ req[q].scope \subseteq consent /\ req'[q].scope = req[q].scope
      BY <1>1, <2>3 DEF Moves, Goes, At
    <3>2. CheckConsent(q)
      BY <2>3, <3>1 DEF Step, CheckConsent, ReadConsent, UpsertConsent, InsertCode, ClaimCode,
         Verify, Replay, RevokeStart, RevokeApply, FindAgent, RefindAgent, Persist, CreateAgent,
         DisconnectStart, DisconnectCommit, FindAgents, Retire, At
    <3>3. mixed' = mixed /\ recorded' = recorded
      BY <3>2 DEF CheckConsent, history
    <3> QED BY <1>0, <3>1, <3>3 DEF ConsentInv, Stands
  <2>4. CASE Rests(q)
    BY <1>1, <2>4 DEF Rests, At
  <2> QED BY <1>0, <2>1, <2>2, <2>3, <2>4, RequestsMove
\* A code in someone's hands.
<1>2. ASSUME NEW c \in Codes, Live(c)' PROVE c \in allowed'
  <2>1. ASSUME NEW p \in Procs, InsertCode(p, c) PROVE c \in allowed'
    BY <1>0, <2>1 DEF InsertCode
  <2>2. CASE Live(c)
    <3>1. c \in allowed
      BY <1>0, <2>2
    <3>2. ASSUME NEW p \in Procs PROVE c \in Left(p)
      BY <2>2, <3>1 DEF Left
    <3>3. ASSUME NEW p \in Procs, NEW d \in Codes, InsertCode(p, d) PROVE c \in allowed'
      BY <3>1, <3>3 DEF InsertCode
    <3> QED BY <3>1, <3>2, <3>3, AllowedMoves DEF RevokeApply, DisconnectCommit
  <2> QED BY <1>2, <2>1, <2>2, LiveFrom
\* A family.
<1>3. ASSUME NEW f \in LiveFams' PROVE f[1] \in allowed'
  <2>1. f \in Fams /\ f = <<f[1], f[2]>> /\ f[1] \in Codes /\ f[2] \in Procs
    BY DEF LiveFams, Fams
  <2>2. ASSUME NEW p \in Procs, Persists(p), req[p].fam = f PROVE f[1] \in allowed'
    <3>1. Holds(p, f[1])
      BY <1>0, <2>2, FamOf DEF Persists, At, Naming, Holds, ShapeInv, Shape
    <3>2. f[1] \in allowed
      BY <1>0, <2>1, <3>1, HoldingIs DEF Live
    <3>3. allowed' = allowed
      BY <2>2 DEF Persists, Persist, history
    <3> QED BY <3>2, <3>3
  <2>3. CASE f \in LiveFams
    <3>1. f[1] \in allowed
      BY <1>0, <2>3
    <3>2. ASSUME NEW p \in Procs, RevokeApply(p) \/ DisconnectCommit(p) PROVE f[1] \in allowed'
      <4>1. token' = RevokedIn(req[p].targets \ newer[p]) /\ allowed' = Left(p)
        BY <3>2 DEF RevokeApply, DisconnectCommit
      <4>2. LiveFams \subseteq req[p].targets \cup newer[p]
        BY <1>0, <3>2 DEF RevokeInv, RevokeApply, DisconnectCommit, At
      <4>3. f \in newer[p]
        BY <2>1, <2>3, <4>1, <4>2 DEF RevokedIn, LiveFams
      <4> QED BY <2>1, <3>1, <4>1, <4>3 DEF Left
    <3>3. ASSUME NEW p \in Procs, NEW d \in Codes, InsertCode(p, d) PROVE f[1] \in allowed'
      BY <3>1, <3>3 DEF InsertCode
    <3> QED BY <3>1, <3>2, <3>3, AllowedMoves
  <2> QED BY <1>0, <2>2, <2>3, LiveGrows
<1> QED
  BY <1>1, <1>2, <1>3 DEF AllowedInv, LiveIsAllowed

LEMMA InitInv == Init => Inv
<1> SUFFICES ASSUME Init PROVE Inv
  OBVIOUS
<1>1. TypeOK
  <2>1. [st |-> "none", scope |-> {}, expired |-> FALSE, out |-> FALSE] \in Code
    BY DEF Code
  <2> QED BY <2>1, IdleFacts DEF Init, TypeOK, Moments
<1>2. ShapeInv /\ OnceInv
  BY IdleFacts DEF Init, ShapeInv, Shape, OnceInv, Claims, Naming, Fams
<1>3. AskInv /\ ConsentInv
  BY IdleFacts DEF Init, AskInv, ConsentInv, At
<1>4. AgentInv /\ RevokeInv
  BY IdleFacts DEF Init, AgentInv, LiveAgents, RevokeInv, At
<1>5. AllowedInv
  BY IdleFacts DEF Init, AllowedInv, At, Live, Holding, Holds, LiveIsAllowed, LiveFams
<1> QED
  BY <1>1, <1>2, <1>3, <1>4, <1>5 DEF Inv

LEMMA InvStep == Inv /\ [Next]_vars => Inv'
BY TypeStep, ShapeStep, AskStep, ConsentStep, AgentStep, OnceStep, RevokeStep,
   AllowedStep DEF Inv

\* The inductive invariant holds in every reachable state.
THEOREM InvHolds == Spec => []Inv
BY InitInv, InvStep, PTL DEF Spec

-----------------------------------------------------------------------------
(* What the runs check *)

\* The tables, the requests and the history keep their types.
THEOREM TypeCorrect == Spec => []TypeOK
<1>1. Inv => TypeOK
  BY DEF Inv
<1> QED
  BY <1>1, InvHolds, PTL

\* Every code stands on scopes the person approved.
THEOREM NoScopeUnasked == Spec => []NothingUnasked
<1>1. Inv => NothingUnasked
  BY DEF Inv, AskInv, NothingUnasked
<1> QED
  BY <1>1, InvHolds, PTL

\* The consent is what was approved since the last disconnect, unless an
\* approval straddled another write.
THEOREM ConsentIsTheApprovals == Spec => []ConsentIsWhatWasApproved
<1>1. Inv => ConsentIsWhatWasApproved
  BY DEF Inv, ConsentInv, ConsentIsWhatWasApproved
<1> QED
  BY <1>1, InvHolds, PTL

\* One agent is live at most, and no token names one that was retired when its
\* request came in.
THEOREM AgentsAreCurrent == Spec => []ActIsCurrent
<1>1. Inv => ActIsCurrent
  <2> SUFFICES ASSUME Inv PROVE Cardinality(LiveAgents) <= 1
    BY DEF Inv, AgentInv, ActIsCurrent
  <2>1. CASE LiveAgents = {}
    BY <2>1, FS_EmptySet
  <2>2. CASE \E a \in LiveAgents : LiveAgents = {a}
    BY <2>2, FS_Singleton
  <2> QED BY <2>1, <2>2 DEF Inv, AgentInv
<1> QED
  BY <1>1, InvHolds, PTL

\* A step that answers a request is one of its own.
LEMMA AnswersAreSteps ==
  ASSUME Inv, [Next]_vars, NEW p \in Procs, Answered(p) PROVE Step(p) /\ Rests(p)
<1>1. ASSUME Crash(p) PROVE FALSE
  <2>1. req' = [req EXCEPT ![p] = [Idle EXCEPT !.answer = "crashed"]]
    BY <1>1 DEF Crash, Finish, Answer
  <2>2. req'[p].answer = "crashed"
    BY <2>1, Typed DEF Inv, Idle
  <2> QED BY <2>2 DEF Answered
<1>2. (Step(p) /\ Moves(p)) \/ (At(p, "idle") \/ req'[p] = req[p])
  BY <1>1, RequestsMove DEF Inv
<1> QED
  BY <1>2 DEF Answered, At, Moves, Goes

\* A code that can still be exchanged was approved, or its scopes had been since the
\* last disconnect when its request was let through (oauth.controller.ts:91-103).
THEOREM CodesStayAllowed == Spec => []CodesAreAllowed
<1>1. Inv => CodesAreAllowed
  BY DEF Inv, AllowedInv, Live, CodesAreAllowed
<1> QED
  BY <1>1, InvHolds, PTL

\* No family outlives its permission: what lives past a replay or a disconnect was
\* issued or rotated under its UPDATE, or paid later on a code still in someone's
\* hands (oauth.service.ts:284-287, consent.service.ts:102-107).
THEOREM LiveStaysAllowed == Spec => []LiveIsAllowed
<1>1. Inv => LiveIsAllowed
  BY DEF Inv, AllowedInv
<1> QED
  BY <1>1, InvHolds, PTL

\* When a replay is refused or a disconnect answers, every live family is one that
\* was issued or rotated after its UPDATE took its snapshot, and no agent the
\* disconnect found is live.
THEOREM RevokesEnd == Spec => RevokesEndWhatTheySaw
<1> DEFINE ReplayEnds(p) ==
             Answered(p) /\ req[p].pc \in {"replay", "revoking"} /\ code[req[p].fam[1]].st = "used"
             => LiveFams' \subseteq newer[p]
           DisconnectEnds(p) ==
             Answered(p) /\ req[p].op = "disconnect"
             => LiveFams' \subseteq newer[p] /\ then[p].agents \cap LiveAgents' = {}
<1>1. ASSUME Inv, [Next]_vars, NEW p \in Procs, Answered(p)
      PROVE  ReplayEnds(p) /\ DisconnectEnds(p)
  <2>0. Step(p) /\ Rests(p) /\ Inv /\ TypeOK /\ Shape(p)
    BY <1>1, AnswersAreSteps DEF Inv, ShapeInv
  <2>1. CASE At(p, "replay")
    <3>1. Replay(p)
      BY <2>0, <2>1 DEF Step, CheckConsent, ReadConsent, UpsertConsent, InsertCode, ClaimCode,
         Verify, Replay, RevokeStart, RevokeApply, FindAgent, RefindAgent, Persist, CreateAgent,
         DisconnectStart, DisconnectCommit, FindAgents, Retire, At
    <3>2. req[p].op # "disconnect"
      BY <2>0, <2>1 DEF Shape, At, Naming
    <3>3. CASE code[req[p].fam[1]].st = "used"
      <4>1. Goto(p, "family")
        BY <3>1, <3>3 DEF Replay, IsReplay
      <4>2. Goes(p, "family")
        BY <2>0, <4>1, GotoGoes DEF PCs
      <4> QED BY <2>0, <4>2 DEF Goes, Rests
    <3> QED BY <3>2, <3>3
  <2>2. CASE At(p, "revoking")
    <3>1. token' = RevokedIn(req[p].targets \ newer[p])
      BY <2>0, <2>2 DEF Step, CheckConsent, ReadConsent, UpsertConsent, InsertCode, ClaimCode,
         Verify, Replay, RevokeStart, RevokeApply, FindAgent, RefindAgent, Persist, CreateAgent,
         DisconnectStart, DisconnectCommit, FindAgents, Retire, At
    <3>2. LiveFams \subseteq req[p].targets \cup newer[p]
      BY <2>0, <2>2 DEF Inv, RevokeInv, At
    <3>3. LiveFams' \subseteq newer[p]
      BY <3>1, <3>2 DEF RevokedIn, LiveFams
    <3>4. req[p].op # "disconnect"
      BY <2>0, <2>2 DEF Shape, At, Naming
    <3> QED BY <3>3, <3>4
  <2>3. CASE At(p, "findAgents") \/ At(p, "retire")
    <3>1. FindAgents(p) \/ Retire(p)
      BY <2>0, <2>3 DEF Step, CheckConsent, ReadConsent, UpsertConsent, InsertCode, ClaimCode,
         Verify, Replay, RevokeStart, RevokeApply, FindAgent, RefindAgent, Persist, CreateAgent,
         DisconnectStart, DisconnectCommit, FindAgents, Retire, At
    <3>2. LiveFams \subseteq newer[p] /\ token' = token /\ then[p].agents \subseteq Agents
      BY <2>0, <2>3, <3>1, Typed DEF Inv, RevokeInv, At, FindAgents, Retire, db, Moments
    <3>3. LiveFams' \subseteq newer[p]
      BY <3>2 DEF LiveFams
    <3>4. CASE Retire(p)
      <4>1. At(p, "retire") /\ agent' = [a \in Agents |-> IF a \in req[p].agents
                                                         THEN "retired" ELSE agent[a]]
        BY <3>4 DEF Retire
      <4>2. then[p].agents \cap LiveAgents \subseteq req[p].agents
        BY <2>0, <4>1 DEF Inv, RevokeInv
      <4>3. then[p].agents \cap LiveAgents' = {}
        BY <3>2, <4>1, <4>2 DEF LiveAgents
      <4> QED BY <2>3, <3>3, <4>3 DEF At
    <3>5. CASE FindAgents(p)
      <4>1. agent' = agent /\ (LiveAgents = {} \/ req' = [req EXCEPT ![p].pc = "retire",
                                                                     ![p].agents = LiveAgents])
        BY <3>5 DEF FindAgents, db
      <4>2. LiveAgents = {}
        BY <2>0, <4>1, Typed DEF Rests, Request
      <4>3. LiveAgents' = {}
        BY <4>1, <4>2 DEF LiveAgents
      <4> QED BY <2>3, <3>3, <4>3 DEF At
    <3> QED BY <3>1, <3>4, <3>5
  <2>4. CASE At(p, "disconnect") \/ At(p, "commit")
    <3>1. DisconnectStart(p) \/ DisconnectCommit(p)
      BY <2>0, <2>4 DEF Step, CheckConsent, ReadConsent, UpsertConsent, InsertCode, ClaimCode,
         Verify, Replay, RevokeStart, RevokeApply, FindAgent, RefindAgent, Persist, CreateAgent,
         DisconnectStart, DisconnectCommit, FindAgents, Retire, At
    <3> QED BY <2>0, <3>1, Typed DEF DisconnectStart, DisconnectCommit, Goto, Rests, Request
  <2> QED BY <2>0, <2>1, <2>2, <2>3, <2>4, StepIsOn DEF Shape, At
<1>2. Inv /\ [Next]_vars => [\A p \in Procs : ReplayEnds(p)]_vars
  BY <1>1
<1>3. Inv /\ [Next]_vars => [\A p \in Procs : DisconnectEnds(p)]_vars
  BY <1>1
<1>4. Spec => ReplayEndsWhatItSaw
  BY <1>2, InvHolds, PTL DEF Spec, ReplayEndsWhatItSaw
<1>5. Spec => DisconnectEndsWhatItSaw
  BY <1>3, InvHolds, PTL DEF Spec, DisconnectEndsWhatItSaw
<1> QED
  BY <1>4, <1>5 DEF RevokesEndWhatTheySaw

-----------------------------------------------------------------------------
(* The table of codes implements OneShot *)

Began(p, c) == token[<<c, p>>] # "none"

LEMMA PayoutsAre ==
  ASSUME OnceInv, NEW c \in Codes
  PROVE  /\ (\A p \in Procs : ~Began(p, c)) => Payouts[c] = 0
         /\ (\E p \in Procs : Began(p, c)) => Payouts[c] = 1
<1> DEFINE S == {p \in Procs : token[<<c, p>>] # "none"}
<1>1. Payouts[c] = Cardinality(S)
  BY DEF Payouts
<1>2. ASSUME \A p \in Procs : ~Began(p, c) PROVE Payouts[c] = 0
  <2>1. S = {}
    BY <1>2 DEF Began
  <2> QED BY <1>1, <2>1, FS_EmptySet
<1>3. ASSUME NEW p \in Procs, Began(p, c) PROVE Payouts[c] = 1
  <2>1. S = {p}
    BY <1>3 DEF Began, OnceInv
  <2> QED BY <1>1, <2>1, FS_Singleton
<1> QED
  BY <1>2, <1>3

LEMMA PayoutsAreNext ==
  ASSUME OnceInv', NEW c \in Codes
  PROVE  /\ (\A p \in Procs : ~Began(p, c)') => Payouts'[c] = 0
         /\ (\E p \in Procs : Began(p, c)') => Payouts'[c] = 1
<1> DEFINE S == {p \in Procs : token'[<<c, p>>] # "none"}
<1>1. Payouts'[c] = Cardinality(S)
  BY DEF Payouts
<1>2. ASSUME \A p \in Procs : ~Began(p, c)' PROVE Payouts'[c] = 0
  <2>1. S = {}
    BY <1>2 DEF Began
  <2> QED BY <1>1, <2>1, FS_EmptySet
<1>3. ASSUME NEW p \in Procs, Began(p, c)' PROVE Payouts'[c] = 1
  <2>1. S = {p}
    BY <1>3 DEF Began, OnceInv
  <2> QED BY <1>1, <2>1, FS_Singleton
<1> QED
  BY <1>2, <1>3

LEMMA StandingIs ==
  ASSUME NEW c \in Codes
  PROVE  /\ Standing[c] = StandingOf(c)
         /\ code[c].st = "none" => StandingOf(c) = "new"
         /\ code[c].st # "none" =>
              /\ Payouts[c] > 0 => StandingOf(c) = "spent"
              /\ ~(Payouts[c] > 0) => StandingOf(c) = IF Live(c) THEN "open" ELSE "void"
BY DEF Standing, StandingOf

LEMMA StandingIsNext ==
  ASSUME NEW c \in Codes
  PROVE  /\ Standing'[c] = StandingOf(c)'
         /\ code'[c].st = "none" => StandingOf(c)' = "new"
         /\ code'[c].st # "none" =>
              /\ Payouts'[c] > 0 => StandingOf(c)' = "spent"
              /\ ~(Payouts'[c] > 0) => StandingOf(c)' = IF Live(c)' THEN "open" ELSE "void"
BY DEF Standing, StandingOf

LEMMA AreFunctions ==
  /\ Standing = [c \in Codes |-> Standing[c]] /\ Standing' = [c \in Codes |-> Standing'[c]]
  /\ Payouts = [c \in Codes |-> Payouts[c]] /\ Payouts' = [c \in Codes |-> Payouts'[c]]
BY DEF Standing, Payouts

\* An exchange that starts a family was an open ticket; it is spent.
LEMMA PersistIsPay ==
  ASSUME Inv, Inv', NEW p \in Procs, Persists(p) PROVE \E c \in Codes : Ticket!Pay(c)
<1>0. TypeOK /\ ShapeInv /\ OnceInv /\ OnceInv' /\ token \in [Fams -> {"none", "live", "revoked"}]
  BY DEF Inv, TypeOK
<1>1. PICK c \in Codes : req[p].fam = <<c, p>>
  BY <1>0, FamOf DEF Persists, At, Naming
<1>2. Claims(p) /\ Holds(p, c)
  BY <1>0, <1>1 DEF Persists, At, Claims, Naming, Holds, ShapeInv, Shape
<1>3. code[c].st # "none" /\ \A q \in Procs : ~Began(q, c)
  BY <1>0, <1>1, <1>2 DEF OnceInv, Began
<1>4. code' = code /\ token' = [token EXCEPT ![<<c, p>>] = "live"] /\ <<c, p>> \in Fams
  BY <1>1 DEF Persists, Persist, Fams
<1>5. Payouts[c] = 0 /\ Payouts'[c] = 1
  BY <1>0, <1>3, <1>4, PayoutsAre, PayoutsAreNext DEF Began
<1>6. Standing[c] = "open" /\ Standing'[c] = "spent"
  BY <1>2, <1>3, <1>4, <1>5, StandingIs, StandingIsNext, HoldingIs DEF Live
<1>7. ASSUME NEW d \in Codes, d # c PROVE Standing'[d] = Standing[d] /\ Payouts'[d] = Payouts[d]
  <2>1. \A q \in Procs : Began(q, d)' <=> Began(q, d)
    BY <1>0, <1>4, <1>7 DEF Began, Fams
  <2>2. Payouts'[d] = Payouts[d]
    BY <1>0, <2>1, PayoutsAre, PayoutsAreNext
  <2>3. \A q \in Procs : Holds(q, d)' <=> Holds(q, d)
    BY <1>1, <1>7 DEF Persists, Rests, Others, Holds
  <2>4. Live(d)' <=> Live(d)
    BY <1>4, <2>3, HoldingIs DEF Live
  <2> QED BY <1>4, <2>2, <2>4, StandingIs, StandingIsNext
<1>8. Standing' = [Standing EXCEPT ![c] = "spent"]
  BY <1>6, <1>7, AreFunctions
<1>9. Payouts' = [Payouts EXCEPT ![c] = @ + 1]
  BY <1>5, <1>7, AreFunctions
<1> QED
  BY <1>6, <1>8, <1>9 DEF Ticket!Pay

\* A code is opened by being inserted.
LEMMA InsertIsOpen ==
  ASSUME Inv, Inv', [Next]_vars, NEW p \in Procs, NEW c \in Codes, InsertCode(p, c)
  PROVE  Ticket!Open(c)
<1>0. TypeOK /\ OnceInv /\ OnceInv' /\ code \in [Codes -> Code]
  BY DEF Inv, TypeOK
<1>1. /\ At(p, "insertCode") /\ code[c].st = "none" /\ UNCHANGED token
      /\ code' = [code EXCEPT ![c] = [st |-> "fresh", scope |-> req[p].scope, expired |-> FALSE,
                                      out |-> req[p].op = "authorize"]]
  BY DEF InsertCode
<1>2. /\ code'[c].st = "fresh" /\ ~code'[c].expired
      /\ \A d \in Codes : d # c => code'[d] = code[d]
  BY <1>0, <1>1
<1>3. Payouts' = Payouts
  BY <1>1 DEF Payouts
<1>4. Standing[c] = "new"
  BY <1>1, StandingIs
<1>5. Standing'[c] = "open"
  <2>1. \A q \in Procs : ~Began(q, c)'
    BY <1>0, <1>1 DEF OnceInv, Began
  <2>2. ~(Payouts'[c] > 0)
    BY <1>0, <2>1, PayoutsAreNext
  <2>3. Live(c)'
    BY <1>2 DEF Live
  <2> QED BY <1>2, <2>2, <2>3, StandingIsNext
<1>6. ASSUME NEW d \in Codes, d # c PROVE Standing'[d] = Standing[d]
  <2>1. Goes(p, "readConsent") \/ Rests(p)
    <3>1. Finish(p, "ok") => Rests(p)
      BY <1>0, FinishRests DEF Answers
    <3>2. <<c, p>> \in Fams /\ "readConsent" \in PCs
      BY DEF Fams, PCs
    <3>3. Finish(p, "ok") \/ (UNCHANGED marks /\
            req' = [req EXCEPT ![p].pc = "readConsent", ![p].fam = <<c, p>>])
      BY DEF InsertCode
    <3> QED BY <1>0, <3>1, <3>2, <3>3, FamGoes
  <2>2. \A q \in Procs : Holds(q, d)' <=> Holds(q, d)
    BY <1>1, <2>1 DEF Rests, Goes, Others, Holds, At
  <2>3. Live(d)' <=> Live(d)
    BY <1>2, <1>6, <2>2, HoldingIs DEF Live
  <2> QED BY <1>2, <1>3, <1>6, <2>3, StandingIs, StandingIsNext
<1>7. Standing' = [Standing EXCEPT ![c] = "open"]
  BY <1>5, <1>6, AreFunctions
<1> QED
  BY <1>3, <1>4, <1>7 DEF Ticket!Open

\* Every other step voids some of the open codes, or none.
LEMMA RestIsVoid ==
  ASSUME Inv, Inv', [Next]_vars, \A p \in Procs : ~Persists(p),
         \A p \in Procs, c \in Codes : ~InsertCode(p, c)
  PROVE  \E T \in SUBSET Codes : Ticket!Void(T)
<1> DEFINE T == {c \in Codes : Standing'[c] # Standing[c]}
<1>0. TypeOK /\ ShapeInv /\ OnceInv /\ OnceInv'
  BY DEF Inv
<1>1. ASSUME NEW c \in Codes, NEW q \in Procs PROVE Began(q, c)' <=> Began(q, c)
  <2>1. <<c, q>> \in Fams
    BY DEF Fams
  <2> QED BY <1>0, <2>1, TokensMove DEF Began
<1>2. ASSUME NEW c \in Codes PROVE Payouts'[c] = Payouts[c]
  BY <1>0, <1>1, PayoutsAre, PayoutsAreNext
<1>3. Payouts' = Payouts
  BY <1>2, AreFunctions
<1>4. ASSUME NEW c \in Codes
      PROVE  Standing'[c] = Standing[c] \/ (Standing[c] = "open" /\ Standing'[c] = "void")
  <2>1. OneCode(c) /\ (code[c].st = "none" => ~code[c].expired)
    BY <1>0, CodesMove DEF OnceInv
  <2>2. code[c].st = "none" <=> code'[c].st = "none"
    BY <2>1 DEF OneCode
  <2>3. code[c].st # "none" => (Live(c)' => Live(c))
    BY LiveBefore
  <2> QED BY <1>2, <2>2, <2>3, StandingIs, StandingIsNext
<1>5. Standing' = [c \in Codes |-> IF c \in T THEN "void" ELSE Standing[c]]
  BY <1>4, AreFunctions
<1>6. \A c \in T : Standing[c] = "open"
  BY <1>4
<1>7. T \in SUBSET Codes
  OBVIOUS
<1> HIDE DEF T
<1>8. Ticket!Void(T)
  BY <1>3, <1>5, <1>6 DEF Ticket!Void
<1> QED
  BY <1>7, <1>8

\* The table of codes implements OneShot: a code pays at most once, and once it
\* is paid, expired or spoilt by a failed attempt nothing opens it again.
THEOREM CodesImplementOneShot == Spec => CodesAreOneShot
<1>1. Init => Ticket!Init
  <2> SUFFICES ASSUME Init PROVE Ticket!Init
    OBVIOUS
  <2>1. ASSUME NEW c \in Codes PROVE Standing[c] = "new" /\ Payouts[c] = 0
    <3>1. OnceInv /\ code[c].st = "none"
      BY InitInv DEF Init, Inv
    <3>2. \A p \in Procs : ~Began(p, c)
      BY <3>1 DEF OnceInv, Began
    <3> QED BY <3>1, <3>2, PayoutsAre, StandingIs
  <2> QED BY <2>1, AreFunctions DEF Ticket!Init
<1>2. Inv /\ Inv' /\ [Next]_vars => [Ticket!Next]_(Ticket!shot)
  <2> SUFFICES ASSUME Inv, Inv', [Next]_vars PROVE Ticket!Next
    BY DEF Ticket!shot
  <2>1. ASSUME NEW p \in Procs, Persists(p) PROVE Ticket!Next
    BY <2>1, PersistIsPay DEF Ticket!Next
  <2>2. ASSUME NEW p \in Procs, NEW c \in Codes, InsertCode(p, c) PROVE Ticket!Next
    BY <2>2, InsertIsOpen DEF Ticket!Next
  <2> QED BY <2>1, <2>2, RestIsVoid DEF Ticket!Next
<1> QED
  BY <1>1, <1>2, InvHolds, PTL DEF Spec, CodesAreOneShot, Ticket!Spec

\* At most one exchange of an authorization code comes to a refresh-token family.
OneFamilyPerCode == \A c \in Codes : Cardinality({p \in Procs : token[<<c, p>>] # "none"}) <= 1

\* However exchanges overlap, crash between two statements or are told to start again
\* (oauth.service.ts:188-203: the claim is one conditional update).
THEOREM CodesPayOnce == Spec => []OneFamilyPerCode
<1> DEFINE Told == \A t \in Codes : Payouts[t] = IF Standing[t] = "spent" THEN 1 ELSE 0
<1>1. Ticket!Init => Told
  BY DEF Ticket!Init
<1>2. Told /\ [Ticket!Next]_(Ticket!shot) => Told'
  <2> SUFFICES ASSUME Told, [Ticket!Next]_(Ticket!shot), NEW t \in Codes
               PROVE  Payouts'[t] = IF Standing'[t] = "spent" THEN 1 ELSE 0
    OBVIOUS
  <2>1. Standing = [c \in Codes |-> Standing[c]] /\ Payouts = [c \in Codes |-> Payouts[c]]
    BY AreFunctions
  <2>2. ASSUME NEW c \in Codes, Ticket!Open(c) PROVE Payouts'[t] = IF Standing'[t] = "spent" THEN 1 ELSE 0
    BY <2>1, <2>2 DEF Ticket!Open
  <2>3. ASSUME NEW c \in Codes, Ticket!Pay(c) PROVE Payouts'[t] = IF Standing'[t] = "spent" THEN 1 ELSE 0
    <3>1. CASE t = c
      <4>1. Payouts[t] = 0 /\ Standing'[t] = "spent" /\ Payouts'[t] = Payouts[t] + 1
        BY <2>1, <2>3, <3>1 DEF Ticket!Pay
      <4> QED BY <4>1
    <3>2. CASE t # c
      BY <2>1, <2>3, <3>2 DEF Ticket!Pay
    <3> QED BY <3>1, <3>2
  <2>4. ASSUME NEW T \in SUBSET Codes, Ticket!Void(T) PROVE Payouts'[t] = IF Standing'[t] = "spent" THEN 1 ELSE 0
    BY <2>4 DEF Ticket!Void
  <2>5. CASE UNCHANGED Ticket!shot
    BY <2>5 DEF Ticket!shot
  <2> QED BY <2>2, <2>3, <2>4, <2>5 DEF Ticket!Next
<1>3. Told => OneFamilyPerCode
  BY DEF OneFamilyPerCode, Payouts
<1> QED BY <1>1, <1>2, <1>3, CodesImplementOneShot, PTL DEF Ticket!Spec, CodesAreOneShot
=============================================================================
