--------------------------- MODULE SettingsStore ---------------------------
(***************************************************************************)
(* Runtime settings: a table, and in every process a snapshot of it that   *)
(* requests are answered from (src/common/settings/app-settings.store.ts;  *)
(* src/auth/federation/federation-config.store.ts is kept the same way).   *)
(* A snapshot that is old is still answered from, and reloaded behind the  *)
(* answer; an administrator's write reloads that of its own process.       *)
(*                                                                         *)
(* The table is the number of its last write, and a snapshot that of the   *)
(* last write it saw.  A step is one statement in the database or what a   *)
(* process does from one await to the next.                                *)
(***************************************************************************)
EXTENDS Integers, FiniteSets

CONSTANTS Nodes,       \* processes of the service
          Writers,     \* an administrator's requests
          NoNode,
          MaxWrites,   \* bound
          MaxFailures  \* bound: reloads that fail, processes that restart

ASSUME SettingsAssumption ==
  /\ NoNode \notin Nodes
  /\ MaxWrites \in Nat /\ MaxFailures \in Nat

VARIABLES
  table,     \* the last write
  snap,      \* what each process has
  fresh,     \* whether it is younger than SNAPSHOT_TTL_MS
  loads,     \* reloads under way: those yet to read, and what the others read
  req,       \* writers: where each stands
  failures,
  overtaken, \* history: writers that joined a reload that had read before they wrote
  floor      \* history: the last write answered by each process, but for these

settings == <<table, snap, fresh, loads, req, failures, overtaken, floor>>

Versions == 0..MaxWrites
Unread   == -1
Idle     == [pc |-> "idle", node |-> NoNode, version |-> 0]

\* A process that has started, and whose initial load failed or has not come.
SettingsInit ==
  /\ table = 0
  /\ snap = [n \in Nodes |-> 0]
  /\ fresh = [n \in Nodes |-> FALSE]
  /\ loads = [n \in Nodes |-> {}]
  /\ req = [w \in Writers |-> Idle]
  /\ failures = 0
  /\ overtaken = {}
  /\ floor = [n \in Nodes |-> 0]

-----------------------------------------------------------------------------
At(w, l) == req[w].pc = l
Db       == <<table, req, failures, overtaken, floor>>

\* One reload at a time: who comes while it runs shares it.
Reloaded(n) == IF loads[n] = {} THEN [loads EXCEPT ![n] = {Unread}] ELSE loads

\* Mutant: an old snapshot is answered from, and that is all.
GetOnly(n) == UNCHANGED settings

\* get, all: a request is answered, and an old snapshot reloaded.
Get(n) ==
  /\ ~fresh[n]
  /\ loads' = Reloaded(n)
  /\ UNCHANGED <<snap, fresh, Db>>

\* doReload: the table is read...
ReadTable(n) ==
  /\ Unread \in loads[n]
  /\ loads' = [loads EXCEPT ![n] = (@ \ {Unread}) \cup {table}]
  /\ UNCHANGED <<snap, fresh, Db>>

\* ...and what was read becomes the snapshot, young from now on.
Apply(n, v) ==
  /\ v \in loads[n] \ {Unread}
  /\ loads' = [loads EXCEPT ![n] = @ \ {v}]
  /\ snap' = [snap EXCEPT ![n] = v]
  /\ fresh' = [fresh EXCEPT ![n] = TRUE]
  /\ req' = [w \in Writers |->
               IF At(w, "reload") /\ req[w].node = n THEN [req[w] EXCEPT !.pc = "view"]
               ELSE req[w]]
  /\ UNCHANGED <<table, failures, overtaken, floor>>

\* The read fails: all who wait for it are answered an error, and the
\* snapshot stays as it was, and as old.
ReloadFails(n) ==
  /\ Unread \in loads[n] /\ failures < MaxFailures
  /\ failures' = failures + 1
  /\ loads' = [loads EXCEPT ![n] = @ \ {Unread}]
  /\ req' = [w \in Writers |->
               IF At(w, "reload") /\ req[w].node = n THEN Idle ELSE req[w]]
  /\ overtaken' = {w \in overtaken : req'[w] # Idle}
  /\ UNCHANGED <<table, snap, fresh, floor>>

\* SNAPSHOT_TTL_MS is over.
Age(n) ==
  /\ fresh[n]
  /\ fresh' = [fresh EXCEPT ![n] = FALSE]
  /\ UNCHANGED <<snap, loads, Db>>

\* A process comes up again with nothing but its environment: its first load
\* is still to come, or has failed.
Restart(n) ==
  /\ failures < MaxFailures
  /\ failures' = failures + 1
  /\ snap' = [snap EXCEPT ![n] = 0]
  /\ fresh' = [fresh EXCEPT ![n] = FALSE]
  /\ loads' = [loads EXCEPT ![n] = {}]
  /\ req' = [w \in Writers |-> IF req[w].node = n THEN Idle ELSE req[w]]
  /\ overtaken' = {w \in overtaken : req'[w] # Idle}
  /\ floor' = [floor EXCEPT ![n] = 0]
  /\ UNCHANGED table

-----------------------------------------------------------------------------
(* set, unset *)

\* The upsert or the delete.
Set(w, n) ==
  /\ At(w, "idle") /\ table < MaxWrites
  /\ table' = table + 1
  /\ req' = [req EXCEPT ![w] = [pc |-> "invalidate", node |-> n, version |-> table + 1]]
  /\ UNCHANGED <<snap, fresh, loads, failures, overtaken, floor>>

\* Mutant: the snapshot is only marked old.
InvalidateLazy(w) ==
  /\ At(w, "invalidate")
  /\ fresh' = [fresh EXCEPT ![req[w].node] = FALSE]
  /\ req' = [req EXCEPT ![w].pc = "view"]
  /\ UNCHANGED <<table, snap, loads, failures, overtaken, floor>>

\* invalidate: a reload, or the one that runs.
Invalidate(w) ==
  /\ At(w, "invalidate")
  /\ fresh' = [fresh EXCEPT ![req[w].node] = FALSE]
  /\ loads' = Reloaded(req[w].node)
  /\ req' = [req EXCEPT ![w].pc = "reload"]
  /\ overtaken' = IF \E v \in loads[req[w].node] \ {Unread} : v < req[w].version
                  THEN overtaken \cup {w} ELSE overtaken
  /\ UNCHANGED <<table, snap, failures, floor>>

\* SettingsAdminService: audited, then answered with the setting as it is.
View(w) ==
  /\ At(w, "view")
  /\ req' = [req EXCEPT ![w] = Idle]
  /\ overtaken' = overtaken \ {w}
  /\ floor' = IF w \in overtaken \/ req[w].version < floor[req[w].node] THEN floor
              ELSE [floor EXCEPT ![req[w].node] = req[w].version]
  /\ UNCHANGED <<table, snap, fresh, loads, failures>>

-----------------------------------------------------------------------------
SettingsNext ==
  \/ \E n \in Nodes : \/ Get(n) \/ ReadTable(n) \/ ReloadFails(n)
                      \/ Age(n) \/ Restart(n)
                      \/ \E v \in Versions : Apply(n, v)
  \/ \E w \in Writers : \/ \E n \in Nodes : Set(w, n)
                        \/ Invalidate(w) \/ View(w)

SettingsSpec == SettingsInit /\ [][SettingsNext]_settings

\* Requests keep coming, statements are answered, time passes.
FairSettings ==
  /\ SettingsSpec
  /\ \A n \in Nodes : /\ WF_settings(Get(n)) /\ WF_settings(ReadTable(n)) /\ WF_settings(Age(n))
                      /\ WF_settings(\E v \in Versions : Apply(n, v))

-----------------------------------------------------------------------------
(* Properties *)

\* Whoever wrote is answered from a snapshot that has the write, and from then
\* on so is everybody that process answers: no snapshot goes back behind it.
\* Only a writer that joined a reload which had read before the write may miss
\* it (app-settings.store.ts:10-11 "for immediate consistency", :59, :63).
WriterSeesItsWrite == \A n \in Nodes : snap[n] >= floor[n]

\* A write reaches every process that is asked, unless another follows it.
EveryoneCatchesUp ==
  \A n \in Nodes, v \in Versions : table = v ~> snap[n] >= v
=============================================================================
