---------------------------- MODULE SsfDelivery ----------------------------
(***************************************************************************)
(* Shared Signals: security events fan out to the streams that want them,  *)
(* one delivery row each, pushed to the receiver, fetched by polling or    *)
(* both, and retried by a drain that every process runs (src/ssf/).        *)
(*                                                                         *)
(* A step is one database statement with the code up to the next await;    *)
(* a push to the receiver is a step of its own, and the receiver may have  *)
(* got it whatever the answer was.                                         *)
(***************************************************************************)
EXTENDS Integers, FiniteSets

CONSTANTS Events,
          Streams,
          Push,         \* streams with a push endpoint; the others are polled
          Drains,       \* runs of the drain that may overlap
          MaxAttempts,  \* MAX_ATTEMPTS
          MaxFaults     \* bound: processes that die and writes that fail

ASSUME ConstAssumption ==
  /\ Push \subseteq Streams
  /\ IsFiniteSet(Drains) /\ Drains # {}
  /\ MaxAttempts \in Nat \ {0} /\ MaxFaults \in Nat

VARIABLES
  stream,  \* SsfStream.status
  listed,  \* history: the streams an event was meant for
  todo,    \* emissions under way: streams still to be served
  row,     \* SetDelivery rows
  push,    \* the emitter's pushes, which nobody waits for
  drain,   \* the drains: rows still to be retried, and the one in hand
  got,     \* SETs the receivers have
  faults,  \* how many there were
  dropped, \* history: SETs whose emission or first push was cut short
  crossed  \* history: rows acknowledged while a push of them was under way

vars == <<stream, listed, todo, row, push, drain, got, faults, dropped, crossed>>

Sets == Events \X Streams
NoSet == <<>>
Row  == [st : {"none", "pending", "failed", "delivered", "acked", "deleted"},
         attempts : Nat, due : BOOLEAN]   \* due: nextAttemptAt is past
NoRow == [st |-> "none", attempts |-> 0, due |-> FALSE]
Resting == [todo |-> {}, set |-> NoSet, answer |-> "none"]

Init ==
  /\ stream = [s \in Streams |-> "enabled"]
  /\ listed = [e \in Events |-> {}] /\ todo = [e \in Events |-> {}]
  /\ row = [d \in Sets |-> NoRow]
  /\ push = [d \in Sets |-> "none"]
  /\ drain = [w \in Drains |-> Resting]
  /\ got = {} /\ faults = 0 /\ dropped = {} /\ crossed = {}

-----------------------------------------------------------------------------
Exists(d) == row[d].st \notin {"none", "deleted"}

\* A push of d is under way, or a drain has read that it should be.
InHand(d) == push[d] # "none" \/ \E w \in Drains : d \in drain[w].todo \/ drain[w].set = d

-----------------------------------------------------------------------------
(* The emitter *)

\* emit: the enabled streams are read once.
Emit(e) ==
  /\ listed[e] = {}
  /\ \E s \in Streams : stream[s] = "enabled"
  /\ listed' = [listed EXCEPT ![e] = {s \in Streams : stream[s] = "enabled"}]
  /\ todo' = [todo EXCEPT ![e] = listed'[e]]
  /\ UNCHANGED <<stream, row, push, drain, got, faults, dropped, crossed>>

\* verify: one stream, enabled or not.
EmitVerification(e, s) ==
  /\ listed[e] = {} /\ stream[s] # "removed"
  /\ listed' = [listed EXCEPT ![e] = {s}]
  /\ todo' = [todo EXCEPT ![e] = {s}]
  /\ UNCHANGED <<stream, row, push, drain, got, faults, dropped, crossed>>

\* Mutant: the push does not wait for the row, nor care whether there is one.
CreateLoose(e, s) ==
  /\ s \in todo[e]
  /\ row' = IF stream[s] # "removed" THEN [row EXCEPT ![<<e, s>>].st = "pending"] ELSE row
  /\ push' = IF s \in Push THEN [push EXCEPT ![<<e, s>>] = "sent"] ELSE push
  /\ todo' = [todo EXCEPT ![e] = @ \ {s}]
  /\ UNCHANGED <<stream, listed, drain, got, faults, dropped, crossed>>

\* emitToStream: the row, and off goes the push.  A stream removed meanwhile
\* fails the insert, and the event is lost for the streams after it.
Create(e, s) ==
  /\ s \in todo[e]
  /\ IF stream[s] # "removed"
     THEN /\ row' = [row EXCEPT ![<<e, s>>].st = "pending"]
          /\ push' = IF s \in Push THEN [push EXCEPT ![<<e, s>>] = "sent"] ELSE push
          /\ todo' = [todo EXCEPT ![e] = @ \ {s}]
          /\ UNCHANGED dropped
     ELSE /\ todo' = [todo EXCEPT ![e] = {}]
          /\ dropped' = dropped \cup ({e} \X todo[e])
          /\ UNCHANGED <<row, push>>
  /\ UNCHANGED <<stream, listed, drain, got, faults, crossed>>

-----------------------------------------------------------------------------
(* SetPushService.deliver, for the emitter and for a drain *)

\* The receiver gets it or not, and the answer is a success only if it did.
Reached(d, here, ok) ==
  /\ ok => here
  /\ got' = IF here THEN got \cup {d} ELSE got

\* Mutant: a failed attempt is recorded without being counted.
FailedUncounted(r) == [r EXCEPT !.st = "failed", !.due = FALSE]

Failed(r)    == [st |-> "failed", attempts |-> r.attempts + 1, due |-> FALSE]
Delivered(r) == [r EXCEPT !.st = "delivered"]

\* mark or fail: an update by id, whatever became of the row; one that is gone
\* is an error that is logged and forgotten.
Record(d, ok) ==
  row' = IF ~Exists(d) THEN row
         ELSE [row EXCEPT ![d] = IF ok THEN Delivered(@) ELSE Failed(@)]

Fetch(d, here, ok) ==
  /\ push[d] = "sent"
  /\ Reached(d, here, ok)
  /\ push' = [push EXCEPT ![d] = IF ok THEN "ok" ELSE "bad"]
  /\ UNCHANGED <<stream, listed, todo, row, drain, faults, dropped, crossed>>

RecordPush(d) ==
  /\ push[d] \in {"ok", "bad"}
  /\ Record(d, push[d] = "ok")
  /\ push' = [push EXCEPT ![d] = "none"]
  /\ UNCHANGED <<stream, listed, todo, drain, got, faults, dropped, crossed>>

-----------------------------------------------------------------------------
(* drainFailedPush *)

\* Mutant: a row is retried for as long as it fails.
DueForever(d) == row[d].st = "failed" /\ row[d].due

\* Mutant: whatever was not delivered at once is retried.
DueAny(d) == row[d].st \in {"failed", "acked"} /\ row[d].due /\ row[d].attempts < MaxAttempts

Due(d) == row[d].st = "failed" /\ row[d].due /\ row[d].attempts < MaxAttempts

\* The failed rows whose time has come are read...
Drain(w) ==
  /\ drain[w] = Resting
  /\ \E d \in Sets : Due(d)
  /\ drain' = [drain EXCEPT ![w].todo = {d \in Sets : Due(d) /\ d[2] \in Push}]
  /\ UNCHANGED <<stream, listed, todo, row, push, got, faults, dropped, crossed>>

\* ...and pushed again, one after the other.
Retry(w, d, here, ok) ==
  /\ drain[w].set = NoSet /\ d \in drain[w].todo
  /\ Reached(d, here, ok)
  /\ drain' = [drain EXCEPT ![w] = [todo |-> @.todo \ {d}, set |-> d,
                                    answer |-> IF ok THEN "ok" ELSE "bad"]]
  /\ UNCHANGED <<stream, listed, todo, row, push, faults, dropped, crossed>>

RecordRetry(w) ==
  /\ drain[w].set # NoSet
  /\ Record(drain[w].set, drain[w].answer = "ok")
  /\ drain' = [drain EXCEPT ![w] = [@ EXCEPT !.set = NoSet, !.answer = "none"]]
  /\ UNCHANGED <<stream, listed, todo, push, got, faults, dropped, crossed>>

\* A minute passes.
BackoffOver(d) ==
  /\ row[d].st = "failed" /\ ~row[d].due
  /\ row' = [row EXCEPT ![d].due = TRUE]
  /\ UNCHANGED <<stream, listed, todo, push, drain, got, faults, dropped, crossed>>

-----------------------------------------------------------------------------
(* Polling and the administrator *)

\* poll: what the receiver confirms is acknowledged, whatever its status...
Ack(s, A) ==
  /\ A # {} /\ A \subseteq {d \in got : d[2] = s /\ Exists(d)}
  /\ row' = [d \in Sets |-> IF d \in A THEN [row[d] EXCEPT !.st = "acked"] ELSE row[d]]
  /\ crossed' = crossed \cup {d \in A : InHand(d)}
  /\ UNCHANGED <<stream, listed, todo, push, drain, got, faults, dropped>>

\* ...and what is pending or failed is handed out.
Poll(s) ==
  /\ got' = got \cup {d \in Sets : d[2] = s /\ row[d].st \in {"pending", "failed"}}
  /\ UNCHANGED <<stream, listed, todo, row, push, drain, faults, dropped, crossed>>

SetStatus(s, st) ==
  /\ stream[s] # "removed"
  /\ stream' = [stream EXCEPT ![s] = st]
  /\ UNCHANGED <<listed, todo, row, push, drain, got, faults, dropped, crossed>>

\* The rows go with their stream.
Remove(s) ==
  /\ stream[s] # "removed"
  /\ stream' = [stream EXCEPT ![s] = "removed"]
  /\ row' = [d \in Sets |-> IF d[2] = s /\ Exists(d) THEN [NoRow EXCEPT !.st = "deleted"]
                                                     ELSE row[d]]
  /\ UNCHANGED <<listed, todo, push, drain, got, faults, dropped, crossed>>

-----------------------------------------------------------------------------
(* A process dies, or a write of an outcome fails and is only logged *)

Fault == faults < MaxFaults /\ faults' = faults + 1

EmissionLost(e) ==
  /\ Fault
  /\ todo[e] # {}
  /\ dropped' = dropped \cup ({e} \X todo[e])
  /\ todo' = [todo EXCEPT ![e] = {}]
  /\ UNCHANGED <<stream, listed, row, push, drain, got, crossed>>

PushLost(d) ==
  /\ Fault
  /\ push[d] # "none"
  /\ push' = [push EXCEPT ![d] = "none"]
  /\ dropped' = dropped \cup {d}
  /\ UNCHANGED <<stream, listed, todo, row, drain, got, crossed>>

RetryLost(w) ==
  /\ Fault
  /\ drain[w].set # NoSet
  /\ drain' = [drain EXCEPT ![w] = [@ EXCEPT !.set = NoSet, !.answer = "none"]]
  /\ UNCHANGED <<stream, listed, todo, row, push, got, dropped, crossed>>

DrainLost(w) ==
  /\ Fault
  /\ drain[w] # Resting
  /\ drain' = [drain EXCEPT ![w] = Resting]
  /\ UNCHANGED <<stream, listed, todo, row, push, got, dropped, crossed>>

-----------------------------------------------------------------------------
Serve(e)     == \E s \in Streams : Create(e, s)
Deliver(d)   == RecordPush(d) \/ \E here, ok \in BOOLEAN : Fetch(d, here, ok)
Retrying(w)  == \/ Drain(w) \/ RecordRetry(w)
                \/ \E d \in Sets, here, ok \in BOOLEAN : Retry(w, d, here, ok)

Next ==
  \/ \E e \in Events : \/ Emit(e) \/ Serve(e) \/ EmissionLost(e)
                       \/ \E s \in Streams : EmitVerification(e, s)
  \/ \E d \in Sets : Deliver(d) \/ PushLost(d) \/ BackoffOver(d)
  \/ \E w \in Drains : Retrying(w) \/ RetryLost(w) \/ DrainLost(w)
  \/ \E s \in Streams : \/ Poll(s) \/ Remove(s)
                        \/ \E A \in SUBSET Sets : Ack(s, A)
                        \/ \E st \in {"enabled", "disabled"} : SetStatus(s, st)

Spec == Init /\ [][Next]_vars

FairSpec ==
  /\ Spec
  /\ \A e \in Events : WF_vars(Serve(e))
  /\ \A d \in Sets : WF_vars(Deliver(d)) /\ WF_vars(BackoffOver(d))
  /\ \A w \in Drains : WF_vars(Retrying(w))

-----------------------------------------------------------------------------
(* Properties *)

TypeOK ==
  /\ stream \in [Streams -> {"enabled", "disabled", "removed"}]
  /\ listed \in [Events -> SUBSET Streams] /\ todo \in [Events -> SUBSET Streams]
  /\ row \in [Sets -> Row]
  /\ push \in [Sets -> {"none", "sent", "ok", "bad"}]
  /\ drain \in [Drains -> [todo : SUBSET Sets, set : Sets \cup {NoSet},
                           answer : {"none", "ok", "bad"}]]
  /\ got \in SUBSET Sets /\ dropped \in SUBSET Sets /\ crossed \in SUBSET Sets
  /\ faults \in 0..MaxFaults
  /\ \A d \in Sets : push[d] # "none" => row[d].st # "none"

\* A row is tried no more often than its limit and the drains that overlap: the
\* count is read when a drain begins and raised when an attempt has failed
\* (ssf-delivery.service.ts:42).
AttemptsAreBounded ==
  \A d \in Sets : row[d].attempts < MaxAttempts + Cardinality(Drains)

\* What a receiver has acknowledged stays so, unless a push was under way when
\* it did: its outcome is written by id (set-push.service.ts:48, :59).
AckStands ==
  [][\A d \in Sets : row[d].st = "acked" /\ row'[d].st \notin {"acked", "deleted"}
                       => d \in crossed]_vars

Settled(d) == \/ row[d].st \in {"delivered", "acked", "deleted"}
              \/ row[d].attempts >= MaxAttempts
              \/ d[2] \notin Push /\ Exists(d)

\* Every stream an event was meant for gets its row, and if it is pushed the
\* push succeeds or is tried to the limit - unless a process died over it, or
\* over a stream before it that was removed: a row left pending is never retried
\* (ssf-emitter.service.ts:44, :73; ssf-delivery.service.ts:41-43).
EventsAreSettled ==
  \A e \in Events, s \in Streams :
    s \in listed[e] ~> Settled(<<e, s>>) \/ <<e, s>> \in dropped
=============================================================================
