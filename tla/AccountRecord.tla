--------------------------- MODULE AccountRecord ---------------------------
(***************************************************************************)
(* One person's row of the users table, where it holds things that work    *)
(* once: the second factor with its backup codes, a pending change of      *)
(* e-mail, the links that verify an address or reset a password            *)
(* (src/identity/identity-mfa.service.ts, identity-email.service.ts,       *)
(* src/auth/auth.service.ts), and the roles an administrator gives         *)
(* (src/admin/admin.service.ts).                                           *)
(*                                                                         *)
(* Codes, pending change and roles share one JSON column: each operation   *)
(* reads it, changes its own key and writes all of it back.  The others    *)
(* are columns of their own.                                               *)
(*                                                                         *)
(* An operation is two steps: the read it decides on, and the update by    *)
(* id.  What is refused changes nothing, so only what is granted is here;  *)
(* a wrong password or code, or a link past its time, is a request that    *)
(* does not begin.                                                         *)
(***************************************************************************)
EXTENDS Integers, FiniteSets

CONSTANTS Procs,     \* concurrent requests
          CodeCount, \* BACKUP_CODE_COUNT
          MaxMinted  \* bound: how many things are ever made

ASSUME ConstAssumption ==
  /\ CodeCount \in Nat \ {0}
  /\ MaxMinted \in Nat /\ MaxMinted > CodeCount

VARIABLES
  row,       \* the row
  minted,    \* secrets, codes, links and role lists are numbered as they are made
  req,       \* requests: what each is to do, and what it will use of its read
  spent,     \* history: what was used, replaced, cancelled or withdrawn
  early,     \* history: <<p, x>>, p had read x before x was spent
  back,      \* history: spent things that a write has brought back
  confirmed, \* history: the secret that enabled the factor last
  behind,    \* history: requests that read the factor before its last write
  crossed    \* history: the factor's last write was decided on an older one

vars == <<row, minted, req, spent, early, back, confirmed, behind, crossed>>

None   == 0
Things == 1..MaxMinted
Thing0 == Things \cup {None}

Meta == [codes : SUBSET Things, pending : Thing0, roles : Thing0]
Row  == [exists : BOOLEAN,
         on : BOOLEAN, secret : Thing0, legacy : BOOLEAN,  \* legacy: not encrypted yet
         verified : BOOLEAN, verify : Thing0, reset : Thing0, meta : Meta]
NewRow == [exists |-> TRUE, on |-> FALSE, secret |-> None, legacy |-> FALSE,
           verified |-> FALSE, verify |-> None, reset |-> None,
           meta |-> [codes |-> {}, pending |-> None, roles |-> None]]

\* An account from before secrets were encrypted, with n codes left.
OldRow(n) == [NewRow EXCEPT !.on = TRUE, !.secret = 1, !.legacy = TRUE,
                            !.meta.codes = 2..(n + 1)]

Ops  == {"setup", "enable", "disable", "totp", "backup", "regenerate", "change", "cancel",
         "confirm", "resend", "verify", "forgot", "reset", "roles", "delete"}

\* Those that write the JSON column.
MetaOps == {"enable", "disable", "backup", "regenerate", "change", "cancel",
            "confirm", "roles"}

\* thing is the code or link it was given, or the secret; meta is the column.
Request == [op : Ops \cup {"idle"}, thing : Thing0, meta : Meta]
Idle == [op |-> "idle", thing |-> None, meta |-> NewRow.meta]

Init ==
  /\ \/ row = NewRow /\ minted = 0 /\ confirmed = None
     \/ \E n \in 0..CodeCount : row = OldRow(n) /\ minted = n + 1 /\ confirmed = 1
  /\ req = [p \in Procs |-> Idle]
  /\ spent = {} /\ early = {} /\ back = {}
  /\ behind = {} /\ crossed = FALSE

-----------------------------------------------------------------------------
At(p, o) == req[p].op = o
Busy     == {p \in Procs : ~At(p, "idle")}
Read(p)  == req[p].meta
History  == <<spent, early, back, confirmed, behind, crossed>>

InMeta(m)  == m.codes \cup ({m.pending, m.roles} \ {None})
Held(r)    == InMeta(r.meta) \cup ({r.verify, r.reset} \ {None})
Carried(p) == InMeta(Read(p)) \cup {req[p].thing}

Fresh == minted + 1
Mint(n) == /\ minted + n <= MaxMinted
           /\ minted' = minted + n

\* The read and what it is checked for.
Begin(p, o, x) ==
  /\ At(p, "idle") /\ row.exists
  /\ req' = [req EXCEPT ![p] = [op |-> o, thing |-> x,
                                meta |-> IF o \in MetaOps THEN row.meta ELSE Idle.meta]]
  /\ UNCHANGED <<row, minted, History>>

\* The update: what the row becomes, and what is to be of no use from now on.
\* Where there is no row it fails, and the request is one that crashed.
Write(p, new, gone) ==
  /\ row.exists
  /\ row' = new
  /\ req' = [req EXCEPT ![p] = Idle]
  /\ spent' = spent \cup gone
  /\ early' = {e \in early : e[1] # p}
                \cup {e \in (Busy \ {p}) \X gone : e[2] \in Carried(e[1])}
  /\ back' = back \cup ((spent \cap Held(new)) \ Held(row))

\* p leaves the factor alone, or has written its columns.
NoFactor(p) == behind' = behind \ {p} /\ UNCHANGED <<confirmed, crossed>>
Factor(p)   == behind' = Busy \ {p}

-----------------------------------------------------------------------------
(* identity-mfa.service.ts *)

\* Mutant: a factor that is on is set up again.
MaySetupAlways == TRUE

MaySetup == ~row.on

\* setup2FA makes a secret.
Setup(p) ==
  /\ At(p, "setup")
  /\ Mint(1)
  /\ Write(p, [row EXCEPT !.secret = Fresh, !.legacy = FALSE], {})
  /\ Factor(p) /\ crossed' = (p \in behind)
  /\ UNCHANGED confirmed

MayEnable == row.secret # None /\ ~row.on

\* Mutant: one code too many.
NewCodesMany == Fresh..(minted + CodeCount + 1)

NewCodes == Fresh..(minted + CodeCount)

\* What the old codes are once there are new ones.
OldCodes(p) == row.meta.codes \cup Read(p).codes

\* enable2FA, the code being right for the secret that was read.
Enable(p) ==
  /\ At(p, "enable")
  /\ Mint(CodeCount)
  /\ Write(p, [row EXCEPT !.on = TRUE,
                          !.meta = [Read(p) EXCEPT !.codes = NewCodes]], OldCodes(p))
  /\ confirmed' = req[p].thing
  /\ Factor(p) /\ crossed' = (p \in behind)

\* disable2FA: without a secret no code is right.
MayDisable == row.on /\ row.secret # None

Disable(p) ==
  /\ At(p, "disable")
  /\ Write(p, [row EXCEPT !.on = FALSE, !.secret = None, !.legacy = FALSE,
                          !.meta = [Read(p) EXCEPT !.codes = {}]], OldCodes(p))
  /\ Factor(p) /\ crossed' = (p \in behind)
  /\ UNCHANGED <<minted, confirmed>>

\* verify2FA accepts the authenticator's code, or a backup code.  The first
\* writes only if the secret is to be encrypted: back what it was given.
MayReencrypt == row.on /\ row.legacy

Totp(p) ==
  /\ At(p, "totp")
  /\ Write(p, [row EXCEPT !.secret = req[p].thing, !.legacy = FALSE], {})
  /\ Factor(p) /\ crossed' = (crossed \/ p \in behind)
  /\ UNCHANGED <<minted, confirmed>>

\* Mutant: the code that was used stays.
SplicedNot(p) == Read(p).codes

\* verify2FA splices the code out of the codes it read.
Spliced(p) == Read(p).codes \ {req[p].thing}

MayUse(c) == row.on /\ row.secret # None /\ c \in row.meta.codes

Backup(p) ==
  /\ At(p, "backup")
  /\ Write(p, [row EXCEPT !.meta = [Read(p) EXCEPT !.codes = Spliced(p)]], {req[p].thing})
  /\ NoFactor(p)
  /\ UNCHANGED minted

\* regenerateBackupCodes
MayRegenerate == row.on

Regenerate(p) ==
  /\ At(p, "regenerate")
  /\ Mint(CodeCount)
  /\ Write(p, [row EXCEPT !.meta = [Read(p) EXCEPT !.codes = NewCodes]], OldCodes(p))
  /\ NoFactor(p)

-----------------------------------------------------------------------------
(* identity-email.service.ts *)

Pending(p) == {row.meta.pending, Read(p).pending} \ {None}

\* requestEmailChange
Change(p) ==
  /\ At(p, "change")
  /\ Mint(1)
  /\ Write(p, [row EXCEPT !.meta = [Read(p) EXCEPT !.pending = Fresh]], Pending(p))
  /\ NoFactor(p)

\* cancelEmailChange
MayCancel == row.meta.pending # None

Cancel(p) ==
  /\ At(p, "cancel")
  /\ Write(p, [row EXCEPT !.meta = [Read(p) EXCEPT !.pending = None]], Pending(p))
  /\ NoFactor(p)
  /\ UNCHANGED minted

\* verifyEmail, with the link of a change...
Confirm(p) ==
  /\ At(p, "confirm")
  /\ Write(p, [row EXCEPT !.verified = TRUE,
                          !.meta = [Read(p) EXCEPT !.pending = None]], Pending(p))
  /\ NoFactor(p)
  /\ UNCHANGED minted

\* ...or of a verification, which resendEmailVerification makes.
MayResend == ~row.verified

Links(p) == {row.verify, req[p].thing} \ {None}

Resend(p) ==
  /\ At(p, "resend")
  /\ Mint(1)
  /\ Write(p, [row EXCEPT !.verify = Fresh], Links(p))
  /\ NoFactor(p)

Verify(p) ==
  /\ At(p, "verify")
  /\ Write(p, [row EXCEPT !.verified = TRUE, !.verify = None], Links(p))
  /\ NoFactor(p)
  /\ UNCHANGED minted

-----------------------------------------------------------------------------
(* auth.service.ts and admin.service.ts *)

Resets(p) == {row.reset, req[p].thing} \ {None}

\* requestPasswordReset
Forgot(p) ==
  /\ At(p, "forgot")
  /\ Mint(1)
  /\ Write(p, [row EXCEPT !.reset = Fresh], Resets(p))
  /\ NoFactor(p)

\* resetPassword: the breach corpus is asked and the password hashed between
\* the read and this.
Reset(p) ==
  /\ At(p, "reset")
  /\ Write(p, [row EXCEPT !.reset = None], Resets(p))
  /\ NoFactor(p)
  /\ UNCHANGED minted

\* updateUserRoles: a list of roles takes the place of another.
Roles(p) ==
  /\ At(p, "roles")
  /\ Mint(1)
  /\ Write(p, [row EXCEPT !.meta = [Read(p) EXCEPT !.roles = Fresh]],
              {row.meta.roles, Read(p).roles} \ {None})
  /\ NoFactor(p)

\* deleteAccount, and an administrator's deleteUser; the histories are done.
Delete(p) ==
  /\ At(p, "delete") /\ row.exists
  /\ row' = [NewRow EXCEPT !.exists = FALSE]
  /\ req' = [req EXCEPT ![p] = Idle]
  /\ spent' = spent \cup Held(row)
  /\ early' = {} /\ back' = {} /\ confirmed' = None /\ behind' = {} /\ crossed' = FALSE
  /\ UNCHANGED minted

-----------------------------------------------------------------------------
\* What a request that reads the row now may set out to do, and with what.
May(o, x) ==
  \/ /\ x = None
     /\ \/ o = "setup" /\ MaySetup
        \/ o = "disable" /\ MayDisable
        \/ o = "regenerate" /\ MayRegenerate
        \/ o = "cancel" /\ MayCancel
        \/ o = "resend" /\ MayResend
        \/ o \in {"change", "forgot", "roles", "delete"}
  \/ /\ x # None
     /\ \/ o = "enable" /\ MayEnable /\ x = row.secret
        \/ o = "totp" /\ MayReencrypt /\ x = row.secret
        \/ o = "backup" /\ MayUse(x)
        \/ o = "confirm" /\ x = row.meta.pending
        \/ o = "verify" /\ x = row.verify
        \/ o = "reset" /\ x = row.reset

Crash(p) ==
  /\ ~At(p, "idle")
  /\ req' = [req EXCEPT ![p] = Idle]
  /\ early' = {e \in early : e[1] # p} /\ behind' = behind \ {p}
  /\ UNCHANGED <<row, minted, spent, back, confirmed, crossed>>

Update(p) ==
  \/ Setup(p) \/ Enable(p) \/ Disable(p) \/ Totp(p) \/ Backup(p) \/ Regenerate(p)
  \/ Change(p) \/ Cancel(p) \/ Confirm(p) \/ Resend(p) \/ Verify(p)
  \/ Forgot(p) \/ Reset(p) \/ Roles(p) \/ Delete(p)

Next ==
  \E p \in Procs :
    \/ \E o \in Ops, x \in Thing0 : May(o, x) /\ Begin(p, o, x)
    \/ Update(p) \/ Crash(p)

Spec == Init /\ [][Next]_vars

-----------------------------------------------------------------------------
(* Properties *)

TypeOK ==
  /\ row \in Row
  /\ Cardinality(row.meta.codes) <= CodeCount
  /\ minted \in 0..MaxMinted
  /\ \A x \in Held(row) : x <= minted
  /\ req \in [Procs -> Request]
  /\ spent \in SUBSET Things /\ early \in SUBSET (Procs \X Things) /\ back \in SUBSET Things
  /\ confirmed \in Thing0 /\ behind \in SUBSET Procs /\ crossed \in BOOLEAN

\* A factor that is on has the secret its owner last confirmed with a code,
\* unless a request that had read the factor before another wrote it has
\* written since: then a new secret may stand unconfirmed, or none at all
\* (identity-mfa.service.ts:105, :142, :202).
FactorIsConfirmed == row.on /\ ~crossed => row.secret = confirmed

\* What was used, replaced, cancelled or withdrawn is of no use again, but to
\* a request that had read it before.  Only what is in the JSON column can come
\* back, with such a request's write, and then works again for anybody; a link
\* in a column of its own never does, nor anything of an account that is gone
\* (identity-mfa.service.ts:256, identity-email.service.ts:168,
\* auth.service.ts:278).
SpentStaysSpent ==
  [][/\ \A x \in (spent \cap Held(row')) \ Held(row) :
          /\ x \in InMeta(row'.meta)
          /\ x \in back \/ \E p \in Procs : <<p, x>> \in early /\ Update(p)
     /\ \A p \in Procs : req[p].thing \in spent /\ Update(p)
          => <<p, req[p].thing>> \in early \/ req[p].thing \in back]_vars
=============================================================================
