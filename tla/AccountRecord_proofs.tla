------------------------ MODULE AccountRecord_proofs ------------------------
(***************************************************************************)
(* Proofs about AccountRecord, for any number of concurrent requests, of   *)
(* backup codes and of things ever made.                                   *)
(***************************************************************************)
EXTENDS AccountRecord, FiniteSetTheorems, TLAPS

\* Numbers are of one kind each: K is what each thing was made as.
Kinds == {"code", "pending", "roles", "verify", "reset", "secret"}
OfKind(K, x, k) == x # None => K[x] = k

MetaKinds(K, m) ==
  /\ \A x \in m.codes : OfKind(K, x, "code")
  /\ OfKind(K, m.pending, "pending") /\ OfKind(K, m.roles, "roles")

RowKinds(K) ==
  /\ MetaKinds(K, row.meta)
  /\ OfKind(K, row.verify, "verify") /\ OfKind(K, row.reset, "reset")
  /\ OfKind(K, row.secret, "secret")

RequestKinds(K, p) ==
  /\ MetaKinds(K, Read(p))
  /\ req[p].op = "backup" => req[p].thing # None /\ OfKind(K, req[p].thing, "code")
  /\ req[p].op = "confirm" => OfKind(K, req[p].thing, "pending")
  /\ req[p].op = "verify" => OfKind(K, req[p].thing, "verify")
  /\ req[p].op = "reset" => OfKind(K, req[p].thing, "reset")
  /\ req[p].op \in {"enable", "totp"} => OfKind(K, req[p].thing, "secret")
  /\ req[p].op \notin {"backup", "confirm", "verify", "reset", "enable", "totp"}
       => req[p].thing = None

\* Some such K fits the row, the requests and what was spent, no secret.
KindsAre(K) ==
  /\ RowKinds(K)
  /\ \A p \in Procs : RequestKinds(K, p)
  /\ \A x \in spent : K[x] # "secret"
KindInv == \E K \in [Things -> Kinds] : KindsAre(K)

\* What was read was there: it has been made, and no more codes than there are.
ReadInv ==
  /\ \A p \in Procs : /\ Cardinality(Read(p).codes) <= CodeCount
                      /\ \A x \in Carried(p) : x <= minted
  /\ row.secret <= minted /\ \A x \in spent : x <= minted

\* Spent things in the row were brought back; a request that carries one had
\* read it before, or found it back.
SpentInv ==
  row.exists =>
    /\ \A x \in spent \cap Held(row) : x \in back
    /\ \A p \in Procs : \A x \in spent \cap Carried(p) :
         ~At(p, "idle") => <<p, x>> \in early \/ x \in back

\* A request that is not behind has read the factor as it is.
FactorInv ==
  row.exists =>
    \A p \in Procs \ behind :
      /\ At(p, "setup") => ~row.on
      /\ req[p].op \in {"enable", "totp"} => req[p].thing = row.secret

Inv == TypeOK /\ KindInv /\ ReadInv /\ SpentInv /\ FactorInv /\ FactorIsConfirmed

-----------------------------------------------------------------------------
(* Records with one field changed *)

LEMMA MetaWith ==
  ASSUME NEW m \in Meta
  PROVE  /\ \A C \in SUBSET Things :
              LET n == [m EXCEPT !.codes = C]
              IN  n \in Meta /\ n.codes = C /\ n.pending = m.pending /\ n.roles = m.roles
         /\ \A x \in Thing0 :
              LET n == [m EXCEPT !.pending = x]
              IN  n \in Meta /\ n.codes = m.codes /\ n.pending = x /\ n.roles = m.roles
         /\ \A x \in Thing0 :
              LET n == [m EXCEPT !.roles = x]
              IN  n \in Meta /\ n.codes = m.codes /\ n.pending = m.pending /\ n.roles = x
BY DEF Meta

\* The columns of a row r, but for those of the factor and verified.
Columns(r, m, ver, res) ==
  r \in Row /\ r.exists /\ r.meta = m /\ r.verify = ver /\ r.reset = res
Factors(r, on, secret) == r.on = on /\ r.secret = secret

LEMMA RowWith ==
  ASSUME row \in Row, row.exists
  PROVE  /\ Columns(row, row.meta, row.verify, row.reset)
         /\ \A m \in Meta :
              /\ Columns([row EXCEPT !.meta = m], m, row.verify, row.reset)
              /\ Factors([row EXCEPT !.meta = m], row.on, row.secret)
              /\ Columns([row EXCEPT !.verified = TRUE, !.meta = m], m, row.verify, row.reset)
              /\ Factors([row EXCEPT !.verified = TRUE, !.meta = m], row.on, row.secret)
              /\ Columns([row EXCEPT !.on = TRUE, !.meta = m], m, row.verify, row.reset)
              /\ Factors([row EXCEPT !.on = TRUE, !.meta = m], TRUE, row.secret)
              /\ Columns([row EXCEPT !.on = FALSE, !.secret = None, !.legacy = FALSE, !.meta = m],
                         m, row.verify, row.reset)
              /\ Factors([row EXCEPT !.on = FALSE, !.secret = None, !.legacy = FALSE, !.meta = m],
                         FALSE, None)
         /\ \A x \in Thing0 :
              /\ Columns([row EXCEPT !.verify = x], row.meta, x, row.reset)
              /\ Factors([row EXCEPT !.verify = x], row.on, row.secret)
              /\ Columns([row EXCEPT !.reset = x], row.meta, row.verify, x)
              /\ Factors([row EXCEPT !.reset = x], row.on, row.secret)
              /\ Columns([row EXCEPT !.secret = x, !.legacy = FALSE],
                         row.meta, row.verify, row.reset)
              /\ Factors([row EXCEPT !.secret = x, !.legacy = FALSE], row.on, x)
         /\ /\ Columns([row EXCEPT !.verified = TRUE, !.verify = None], row.meta, None, row.reset)
            /\ Factors([row EXCEPT !.verified = TRUE, !.verify = None], row.on, row.secret)
<1> USE DEF Columns, Factors, Row, Thing0
<1>1. ASSUME NEW m \in Meta
      PROVE  /\ Columns([row EXCEPT !.meta = m], m, row.verify, row.reset)
             /\ Factors([row EXCEPT !.meta = m], row.on, row.secret)
             /\ Columns([row EXCEPT !.verified = TRUE, !.meta = m], m, row.verify, row.reset)
             /\ Factors([row EXCEPT !.verified = TRUE, !.meta = m], row.on, row.secret)
  OBVIOUS
<1>2. ASSUME NEW m \in Meta
      PROVE  /\ Columns([row EXCEPT !.on = TRUE, !.meta = m], m, row.verify, row.reset)
             /\ Factors([row EXCEPT !.on = TRUE, !.meta = m], TRUE, row.secret)
  OBVIOUS
<1>3. ASSUME NEW m \in Meta
      PROVE  /\ Columns([row EXCEPT !.on = FALSE, !.secret = None, !.legacy = FALSE, !.meta = m],
                        m, row.verify, row.reset)
             /\ Factors([row EXCEPT !.on = FALSE, !.secret = None, !.legacy = FALSE, !.meta = m],
                        FALSE, None)
  OBVIOUS
<1>4. ASSUME NEW x \in Thing0
      PROVE  /\ Columns([row EXCEPT !.verify = x], row.meta, x, row.reset)
             /\ Factors([row EXCEPT !.verify = x], row.on, row.secret)
             /\ Columns([row EXCEPT !.reset = x], row.meta, row.verify, x)
             /\ Factors([row EXCEPT !.reset = x], row.on, row.secret)
  OBVIOUS
<1>5. ASSUME NEW x \in Thing0
      PROVE  /\ Columns([row EXCEPT !.secret = x, !.legacy = FALSE],
                        row.meta, row.verify, row.reset)
             /\ Factors([row EXCEPT !.secret = x, !.legacy = FALSE], row.on, x)
  OBVIOUS
<1>6. /\ Columns([row EXCEPT !.verified = TRUE, !.verify = None], row.meta, None, row.reset)
      /\ Factors([row EXCEPT !.verified = TRUE, !.verify = None], row.on, row.secret)
  OBVIOUS
<1>7. Columns(row, row.meta, row.verify, row.reset)
  OBVIOUS
<1> HIDE DEF Columns, Factors, Row, Thing0
<1> QED BY <1>1, <1>2, <1>3, <1>4, <1>5, <1>6, <1>7

LEMMA Types ==
  ASSUME TypeOK
  PROVE  /\ row \in Row /\ row.meta \in Meta /\ row.meta.codes \in SUBSET Things
         /\ {row.meta.pending, row.meta.roles, row.verify, row.reset, row.secret} \subseteq Thing0
         /\ \A p \in Procs : /\ req[p] \in Request /\ Read(p) \in Meta /\ req[p].thing \in Thing0
                             /\ Read(p).codes \in SUBSET Things
                             /\ Read(p).pending \in Thing0 /\ Read(p).roles \in Thing0
         /\ minted \in Nat /\ MaxMinted \in Nat /\ CodeCount \in Nat \ {0}
         /\ None \in Thing0 /\ Things \subseteq Thing0 /\ Things \subseteq Nat /\ None \notin Things
         /\ \A x \in Thing0 : x # None => x \in Things
BY ConstAssumption DEF TypeOK, Row, Request, Meta, Read, Things, Thing0, None

LEMMA NewCodesAre ==
  ASSUME TypeOK, Mint(CodeCount)
  PROVE  /\ NewCodes \in SUBSET Things /\ Cardinality(NewCodes) <= CodeCount
         /\ \A x \in NewCodes : minted < x /\ x <= minted'
         /\ minted' \in minted..MaxMinted
<1>1. minted \in Nat /\ CodeCount \in Nat \ {0} /\ MaxMinted \in Nat
  BY Types
<1>2. Fresh \in Int /\ minted + CodeCount \in Int /\ minted' = minted + CodeCount
      /\ minted + CodeCount <= MaxMinted
  BY <1>1 DEF Fresh, Mint
<1>3. Cardinality(NewCodes) = CodeCount
  BY <1>1, <1>2, FS_Interval DEF NewCodes, Fresh
<1> QED BY <1>1, <1>2, <1>3 DEF NewCodes, Fresh, Things

LEMMA FreshIs ==
  ASSUME TypeOK, Mint(1)
  PROVE  /\ Fresh \in Things /\ Fresh \in Thing0 /\ minted < Fresh /\ Fresh <= minted'
         /\ minted' \in minted..MaxMinted /\ Fresh # None
BY Types DEF Fresh, Mint, Things, Thing0, None

LEMMA FewCodes ==
  ASSUME NEW C \in SUBSET Things, NEW D \in SUBSET C, Cardinality(C) <= CodeCount
  PROVE  Cardinality(D) <= CodeCount
<1>1. IsFiniteSet(Things)
  BY FS_Interval, ConstAssumption DEF Things
<1>2. /\ IsFiniteSet(C) /\ Cardinality(D) <= Cardinality(C)
      /\ Cardinality(C) \in Nat /\ Cardinality(D) \in Nat /\ CodeCount \in Nat
  BY <1>1, FS_Subset, FS_CardinalityType, ConstAssumption
<1> QED BY <1>2

-----------------------------------------------------------------------------
(* What each update makes of the row, and of what is no more use *)

Made(x) == minted < x /\ x <= minted'

\* Every column holds what it or the request's read had, nothing, or, if it is
\* of kind k, what was just made.
GoodRow(p, k) ==
  /\ row' \in Row /\ row'.exists /\ minted' \in minted..MaxMinted
  /\ Cardinality(row'.meta.codes) <= CodeCount
  /\ \/ row'.meta.codes \subseteq row.meta.codes \cup Read(p).codes
     \/ k = "code" /\ \A x \in row'.meta.codes : Made(x)
  /\ \/ row'.meta.pending \in {None, row.meta.pending, Read(p).pending}
     \/ k = "pending" /\ Made(row'.meta.pending)
  /\ \/ row'.meta.roles \in {None, row.meta.roles, Read(p).roles}
     \/ k = "roles" /\ Made(row'.meta.roles)
  /\ row'.verify \in {None, row.verify} \/ (k = "verify" /\ Made(row'.verify))
  /\ row'.reset \in {None, row.reset} \/ (k = "reset" /\ Made(row'.reset))
  /\ \/ row'.secret \in {None, row.secret}
     \/ At(p, "totp") /\ row'.secret = req[p].thing
     \/ k = "secret" /\ Made(row'.secret)

\* The column of kind j holds x.
InColumn(r, j, x) ==
  \/ j = "code" /\ x \in r.meta.codes
  \/ j = "pending" /\ x = r.meta.pending
  \/ j = "roles" /\ x = r.meta.roles
  \/ j = "verify" /\ x = r.verify
  \/ j = "reset" /\ x = r.reset

\* What is no more use was made before, as kind j, and has left its column.
GoodGone(K, gone, j) ==
  /\ gone \subseteq Things /\ j \in Kinds \ {"secret"}
  /\ \A x \in gone : x <= minted /\ K[x] = j /\ ~InColumn(row', j, x)

GoodWrite(p, K) ==
  \E gone \in SUBSET Things, k, j \in Kinds :
    Write(p, row', gone) /\ GoodRow(p, k) /\ GoodGone(K, gone, j)

LEMMA WriteIs ==
  ASSUME NEW p \in Procs, NEW new, NEW gone, Write(p, new, gone)
  PROVE  row.exists /\ row' = new /\ Write(p, row', gone)
BY DEF Write

\* A request's read and what it carries, by kind.
LEMMA Reads ==
  ASSUME TypeOK, ReadInv, NEW K \in [Things -> Kinds], KindsAre(K), NEW p \in Procs
  PROVE  /\ \A x \in row.meta.codes \cup Read(p).codes :
              x \in Things /\ x <= minted /\ K[x] = "code"
         /\ \A x \in {row.meta.pending, Read(p).pending} \ {None} :
              x \in Things /\ x <= minted /\ K[x] = "pending"
         /\ \A x \in {row.meta.roles, Read(p).roles} \ {None} :
              x \in Things /\ x <= minted /\ K[x] = "roles"
         /\ row.verify # None =>
              row.verify \in Things /\ row.verify <= minted /\ K[row.verify] = "verify"
         /\ row.reset # None =>
              row.reset \in Things /\ row.reset <= minted /\ K[row.reset] = "reset"
         /\ At(p, "backup") =>
              req[p].thing \in Things /\ req[p].thing <= minted /\ K[req[p].thing] = "code"
         /\ At(p, "verify") /\ req[p].thing # None =>
              req[p].thing \in Things /\ req[p].thing <= minted /\ K[req[p].thing] = "verify"
         /\ At(p, "reset") /\ req[p].thing # None =>
              req[p].thing \in Things /\ req[p].thing <= minted /\ K[req[p].thing] = "reset"
         /\ req[p].op \in {"resend", "forgot"} => req[p].thing = None
         /\ Cardinality(row.meta.codes) <= CodeCount /\ Cardinality(Read(p).codes) <= CodeCount
         /\ minted \in minted..MaxMinted
<1>1. \A x \in Held(row) : x <= minted
  BY DEF TypeOK
<1>2. \A x \in Carried(p) : x <= minted
  BY DEF ReadInv
<1>3. RequestKinds(K, p) /\ RowKinds(K)
  BY DEF KindsAre
<1>4. minted \in minted..MaxMinted
  BY DEF TypeOK
<1>5. /\ \A x \in row.meta.codes \cup {row.meta.pending, row.meta.roles, row.verify, row.reset} :
           x # None => x <= minted
      /\ \A x \in Read(p).codes \cup {Read(p).pending, Read(p).roles, req[p].thing} :
           x # None => x <= minted
  BY <1>1, <1>2 DEF Held, Carried, InMeta
<1>6. /\ \A x \in row.meta.codes \cup Read(p).codes : x \in Things /\ x # None /\ K[x] = "code"
  BY <1>3, Types DEF RowKinds, RequestKinds, MetaKinds, OfKind
<1> QED BY <1>3, <1>4, <1>5, <1>6, Types
        DEF RowKinds, RequestKinds, MetaKinds, OfKind, At, TypeOK, ReadInv

LEMMA MetaWrites ==
  ASSUME TypeOK, ReadInv, NEW K \in [Things -> Kinds], KindsAre(K), NEW p \in Procs,
         Backup(p) \/ Regenerate(p) \/ Change(p) \/ Cancel(p) \/ Confirm(p) \/ Roles(p)
  PROVE  GoodWrite(p, K) /\ Factors(row', row.on, row.secret) /\ NoFactor(p)
<1>0. /\ Read(p) \in Meta /\ minted \in minted..MaxMinted /\ row \in Row
      /\ {"code", "pending", "roles"} \subseteq Kinds
  BY Types, Reads DEF Kinds
<1>1. ASSUME Backup(p) PROVE GoodWrite(p, K) /\ Factors(row', row.on, row.secret)
  <2> DEFINE m == [Read(p) EXCEPT !.codes = Spliced(p)]
  <2>1. /\ m \in Meta /\ m.codes = Read(p).codes \ {req[p].thing}
        /\ m.pending = Read(p).pending /\ m.roles = Read(p).roles
    BY <1>0, Types, MetaWith DEF Spliced
  <2>2. Write(p, [row EXCEPT !.meta = m], {req[p].thing}) /\ At(p, "backup") /\ minted' = minted
    BY <1>1 DEF Backup
  <2>3. row.exists /\ row' = [row EXCEPT !.meta = m] /\ Write(p, row', {req[p].thing})
    BY <2>2, WriteIs
  <2> HIDE DEF m
  <2>4. Columns(row', m, row.verify, row.reset) /\ Factors(row', row.on, row.secret)
    BY <1>0, <2>1, <2>3, RowWith
  <2>5. GoodRow(p, "code")
    BY <1>0, <2>1, <2>2, <2>4, Reads, Types, FewCodes DEF GoodRow, Columns, Factors
  <2>6. GoodGone(K, {req[p].thing}, "code") /\ {req[p].thing} \in SUBSET Things
    BY <2>1, <2>2, <2>4, Reads DEF GoodGone, InColumn, Columns, Kinds
  <2> QED BY <1>0, <2>3, <2>4, <2>5, <2>6 DEF GoodWrite
<1>2. ASSUME Regenerate(p) PROVE GoodWrite(p, K) /\ Factors(row', row.on, row.secret)
  <2> DEFINE m == [Read(p) EXCEPT !.codes = NewCodes]
  <2>0. Mint(CodeCount)
    BY <1>2 DEF Regenerate
  <2>1. /\ m \in Meta /\ m.codes = NewCodes
        /\ m.pending = Read(p).pending /\ m.roles = Read(p).roles
    BY <1>0, <2>0, NewCodesAre, MetaWith
  <2>2. Write(p, [row EXCEPT !.meta = m], OldCodes(p))
    BY <1>2 DEF Regenerate
  <2>3. row.exists /\ row' = [row EXCEPT !.meta = m] /\ Write(p, row', OldCodes(p))
    BY <2>2, WriteIs
  <2> HIDE DEF m
  <2>4. Columns(row', m, row.verify, row.reset) /\ Factors(row', row.on, row.secret)
    BY <1>0, <2>1, <2>3, RowWith
  <2>5. GoodRow(p, "code")
    BY <2>0, <2>1, <2>4, NewCodesAre, Types DEF GoodRow, Columns, Factors, Made
  <2>6. GoodGone(K, OldCodes(p), "code") /\ OldCodes(p) \in SUBSET Things
    BY <2>0, <2>1, <2>4, Reads, NewCodesAre, Types DEF GoodGone, InColumn, Columns, Kinds, OldCodes
  <2> QED BY <1>0, <2>3, <2>4, <2>5, <2>6 DEF GoodWrite
<1>3. ASSUME NEW x \in {Fresh, None}, Mint(1) \/ (x = None /\ minted' = minted),
             NEW new \in {[row EXCEPT !.meta = [Read(p) EXCEPT !.pending = x]],
                          [row EXCEPT !.verified = TRUE, !.meta = [Read(p) EXCEPT !.pending = x]]},
             Write(p, new, Pending(p))
      PROVE  GoodWrite(p, K) /\ Factors(row', row.on, row.secret)
  <2> DEFINE m == [Read(p) EXCEPT !.pending = x]
  <2>0. x \in Thing0 /\ (x = None \/ Made(x)) /\ minted' \in minted..MaxMinted
    BY <1>0, <1>3, FreshIs, Types DEF Made
  <2>1. /\ m \in Meta /\ m.codes = Read(p).codes
        /\ m.pending = x /\ m.roles = Read(p).roles
    BY <1>0, <2>0, MetaWith
  <2>2. /\ row' = [row EXCEPT !.meta = m] \/ row' = [row EXCEPT !.verified = TRUE, !.meta = m]
        /\ row.exists /\ Write(p, row', Pending(p))
    BY <1>3, WriteIs
  <2> HIDE DEF m
  <2>4. Columns(row', m, row.verify, row.reset) /\ Factors(row', row.on, row.secret)
    BY <1>0, <2>1, <2>2, RowWith
  <2>5. GoodRow(p, "pending")
    BY <1>0, <1>3, <2>0, <2>1, <2>4, Reads DEF GoodRow, Columns, Factors
  <2>6. GoodGone(K, Pending(p), "pending") /\ Pending(p) \in SUBSET Things
    BY <2>0, <2>1, <2>4, Reads, Types DEF GoodGone, InColumn, Columns, Kinds, Pending, Made
  <2> QED BY <1>0, <2>2, <2>4, <2>5, <2>6 DEF GoodWrite
<1>4. ASSUME Change(p) \/ Cancel(p) \/ Confirm(p)
      PROVE  GoodWrite(p, K) /\ Factors(row', row.on, row.secret)
  BY <1>3, <1>4 DEF Change, Cancel, Confirm
<1>5. ASSUME Roles(p) PROVE GoodWrite(p, K) /\ Factors(row', row.on, row.secret)
  <2> DEFINE m == [Read(p) EXCEPT !.roles = Fresh]
             gone == {row.meta.roles, Read(p).roles} \ {None}
  <2>0. Mint(1)
    BY <1>5 DEF Roles
  <2>1. /\ m \in Meta /\ m.codes = Read(p).codes
        /\ m.pending = Read(p).pending /\ m.roles = Fresh
    BY <1>0, <2>0, FreshIs, MetaWith
  <2>2. Write(p, [row EXCEPT !.meta = m], gone)
    BY <1>5 DEF Roles
  <2>3. row.exists /\ row' = [row EXCEPT !.meta = m] /\ Write(p, row', gone)
    BY <2>2, WriteIs
  <2> HIDE DEF m
  <2>4. Columns(row', m, row.verify, row.reset) /\ Factors(row', row.on, row.secret)
    BY <1>0, <2>1, <2>3, RowWith
  <2>5. GoodRow(p, "roles")
    BY <2>0, <2>1, <2>4, FreshIs, Reads DEF GoodRow, Columns, Factors, Made
  <2>6. GoodGone(K, gone, "roles") /\ gone \in SUBSET Things
    BY <2>0, <2>1, <2>4, Reads, FreshIs, Types DEF GoodGone, InColumn, Columns, Kinds
  <2> HIDE DEF gone
  <2> QED BY <1>0, <2>3, <2>4, <2>5, <2>6 DEF GoodWrite
<1>6. NoFactor(p)
  BY DEF Backup, Regenerate, Change, Cancel, Confirm, Roles
<1> QED BY <1>1, <1>2, <1>4, <1>5, <1>6

LEMMA LinkWrites ==
  ASSUME TypeOK, ReadInv, NEW K \in [Things -> Kinds], KindsAre(K), NEW p \in Procs,
         Resend(p) \/ Verify(p) \/ Forgot(p) \/ Reset(p)
  PROVE  GoodWrite(p, K) /\ Factors(row', row.on, row.secret) /\ NoFactor(p)
<1>0. row \in Row /\ {"verify", "reset"} \subseteq Kinds /\ None \in Thing0
  BY Types DEF Kinds
<1>1. ASSUME Resend(p) \/ Verify(p) PROVE GoodWrite(p, K) /\ Factors(row', row.on, row.secret)
  <2>1. PICK x \in Thing0 :
          /\ \/ row' = [row EXCEPT !.verify = x]
             \/ row' = [row EXCEPT !.verified = TRUE, !.verify = None] /\ x = None
          /\ x = None \/ Made(x)
          /\ row.exists /\ Write(p, row', Links(p)) /\ minted' \in minted..MaxMinted
    <3>1. CASE Resend(p)
      <4>1. Mint(1) /\ Write(p, [row EXCEPT !.verify = Fresh], Links(p))
        BY <3>1 DEF Resend
      <4> QED BY <4>1, WriteIs, FreshIs DEF Made
    <3>2. CASE Verify(p)
      <4>1. /\ minted' = minted
            /\ Write(p, [row EXCEPT !.verified = TRUE, !.verify = None], Links(p))
        BY <3>2 DEF Verify
      <4> QED BY <1>0, <4>1, WriteIs, Reads
    <3> QED BY <1>1, <3>1, <3>2
  <2>2. Columns(row', row.meta, x, row.reset) /\ Factors(row', row.on, row.secret)
    BY <1>0, <2>1, RowWith
  <2>3. GoodRow(p, "verify")
    BY <1>0, <2>1, <2>2, Reads DEF GoodRow, Columns, Factors
  <2>4. GoodGone(K, Links(p), "verify") /\ Links(p) \in SUBSET Things
    <3>1. At(p, "verify") \/ req[p].op = "resend"
      BY <1>1 DEF Resend, Verify, At
    <3>2. \A y \in Links(p) : y \in Things /\ y <= minted /\ K[y] = "verify" /\ y # None
      BY <3>1, Reads DEF Links
    <3> QED BY <2>1, <2>2, <3>2, Types DEF GoodGone, InColumn, Columns, Kinds, Made
  <2> QED BY <1>0, <2>1, <2>2, <2>3, <2>4 DEF GoodWrite
<1>2. ASSUME Forgot(p) \/ Reset(p) PROVE GoodWrite(p, K) /\ Factors(row', row.on, row.secret)
  <2>1. PICK x \in Thing0 :
          /\ row' = [row EXCEPT !.reset = x]
          /\ x = None \/ Made(x)
          /\ row.exists /\ Write(p, row', Resets(p)) /\ minted' \in minted..MaxMinted
    <3>1. CASE Forgot(p)
      <4>1. Mint(1) /\ Write(p, [row EXCEPT !.reset = Fresh], Resets(p))
        BY <3>1 DEF Forgot
      <4> QED BY <4>1, WriteIs, FreshIs DEF Made
    <3>2. CASE Reset(p)
      <4>1. minted' = minted /\ Write(p, [row EXCEPT !.reset = None], Resets(p))
        BY <3>2 DEF Reset
      <4> QED BY <1>0, <4>1, WriteIs, Reads
    <3> QED BY <1>2, <3>1, <3>2
  <2>2. Columns(row', row.meta, row.verify, x) /\ Factors(row', row.on, row.secret)
    BY <1>0, <2>1, RowWith
  <2>3. GoodRow(p, "reset")
    BY <1>0, <2>1, <2>2, Reads DEF GoodRow, Columns, Factors
  <2>4. GoodGone(K, Resets(p), "reset") /\ Resets(p) \in SUBSET Things
    <3>1. At(p, "reset") \/ req[p].op = "forgot"
      BY <1>2 DEF Forgot, Reset, At
    <3>2. \A y \in Resets(p) : y \in Things /\ y <= minted /\ K[y] = "reset" /\ y # None
      BY <3>1, Reads DEF Resets
    <3> QED BY <2>1, <2>2, <3>2, Types DEF GoodGone, InColumn, Columns, Kinds, Made
  <2> QED BY <1>0, <2>1, <2>2, <2>3, <2>4 DEF GoodWrite
<1>3. NoFactor(p)
  BY DEF Resend, Verify, Forgot, Reset
<1> QED BY <1>1, <1>2, <1>3

\* A write of the factor leaves every other request behind; by one that was not
\* behind, the factor is what was confirmed.
GoodFactor(p) ==
  /\ behind' = Busy \ {p}
  /\ \/ At(p, "setup") /\ crossed' = (p \in behind) /\ row'.on = row.on
     \/ /\ At(p, "enable") /\ crossed' = (p \in behind) /\ confirmed' = req[p].thing
        /\ row'.secret = row.secret
     \/ ~row'.on
     \/ /\ At(p, "totp") /\ crossed' = (crossed \/ p \in behind) /\ confirmed' = confirmed
        /\ row'.on = row.on /\ row'.secret = req[p].thing

LEMMA FactorWrites ==
  ASSUME TypeOK, ReadInv, NEW K \in [Things -> Kinds], KindsAre(K), NEW p \in Procs,
         Setup(p) \/ Enable(p) \/ Disable(p) \/ Totp(p)
  PROVE  GoodWrite(p, K) /\ GoodFactor(p)
<1>0. /\ Read(p) \in Meta /\ row \in Row /\ {"code", "secret"} \subseteq Kinds
      /\ {} \in SUBSET Things /\ None \in Thing0 /\ req[p].thing \in Thing0
  BY Types DEF Kinds
<1>1. CASE Setup(p)
  <2>0. Mint(1) /\ Write(p, [row EXCEPT !.secret = Fresh, !.legacy = FALSE], {})
    BY <1>1 DEF Setup
  <2>1. /\ row.exists /\ row' = [row EXCEPT !.secret = Fresh, !.legacy = FALSE]
        /\ Write(p, row', {})
    BY <2>0, WriteIs
  <2>2. Columns(row', row.meta, row.verify, row.reset) /\ Factors(row', row.on, Fresh)
    BY <1>0, <2>0, <2>1, RowWith, FreshIs
  <2>3. GoodRow(p, "secret")
    BY <1>0, <2>0, <2>2, Reads, FreshIs DEF GoodRow, Columns, Factors, Made
  <2>4. GoodGone(K, {}, "code")
    BY DEF GoodGone, Kinds
  <2>5. GoodFactor(p)
    BY <1>1, <2>2 DEF Setup, GoodFactor, Factor, Factors
  <2> QED BY <1>0, <2>1, <2>3, <2>4, <2>5 DEF GoodWrite
<1>2. CASE Enable(p)
  <2> DEFINE m == [Read(p) EXCEPT !.codes = NewCodes]
  <2>0. Mint(CodeCount) /\ Write(p, [row EXCEPT !.on = TRUE, !.meta = m], OldCodes(p))
    BY <1>2 DEF Enable
  <2>1. /\ m \in Meta /\ m.codes = NewCodes
        /\ m.pending = Read(p).pending /\ m.roles = Read(p).roles
    BY <1>0, <2>0, NewCodesAre, MetaWith
  <2>2. row.exists /\ row' = [row EXCEPT !.on = TRUE, !.meta = m] /\ Write(p, row', OldCodes(p))
    BY <2>0, WriteIs
  <2> HIDE DEF m
  <2>3. Columns(row', m, row.verify, row.reset) /\ Factors(row', TRUE, row.secret)
    BY <1>0, <2>1, <2>2, RowWith
  <2>4. GoodRow(p, "code")
    BY <2>0, <2>1, <2>3, NewCodesAre, Types DEF GoodRow, Columns, Factors, Made
  <2>5. GoodGone(K, OldCodes(p), "code") /\ OldCodes(p) \in SUBSET Things
    BY <2>0, <2>1, <2>3, Reads, NewCodesAre, Types DEF GoodGone, InColumn, Columns, Kinds, OldCodes
  <2>6. GoodFactor(p)
    BY <1>2, <2>3 DEF Enable, GoodFactor, Factor, Factors
  <2> QED BY <1>0, <2>2, <2>4, <2>5, <2>6 DEF GoodWrite
<1>3. CASE Disable(p)
  <2> DEFINE m == [Read(p) EXCEPT !.codes = {}]
             new == [row EXCEPT !.on = FALSE, !.secret = None, !.legacy = FALSE, !.meta = m]
  <2>0. Write(p, new, OldCodes(p)) /\ minted' = minted
    BY <1>3 DEF Disable
  <2>1. /\ m \in Meta /\ m.codes = {}
        /\ m.pending = Read(p).pending /\ m.roles = Read(p).roles
    BY <1>0, MetaWith
  <2>2. row.exists /\ row' = new /\ Write(p, row', OldCodes(p))
    BY <2>0, WriteIs
  <2> HIDE DEF m
  <2>3. Columns(row', m, row.verify, row.reset) /\ Factors(row', FALSE, None)
    BY <1>0, <2>1, <2>2, RowWith
  <2>a. Cardinality({}) <= CodeCount
    BY FS_EmptySet, Types
  <2>4. GoodRow(p, "code")
    BY <2>0, <2>1, <2>3, <2>a, Reads DEF GoodRow, Columns, Factors
  <2>5. GoodGone(K, OldCodes(p), "code") /\ OldCodes(p) \in SUBSET Things
    BY <2>1, <2>3, Reads, Types DEF GoodGone, InColumn, Columns, Kinds, OldCodes
  <2>6. GoodFactor(p)
    BY <1>3, <2>3 DEF Disable, GoodFactor, Factor, Factors
  <2> QED BY <1>0, <2>2, <2>4, <2>5, <2>6 DEF GoodWrite
<1>4. CASE Totp(p)
  <2>0. Write(p, [row EXCEPT !.secret = req[p].thing, !.legacy = FALSE], {}) /\ minted' = minted
        /\ At(p, "totp")
    BY <1>4 DEF Totp
  <2>1. /\ row.exists /\ row' = [row EXCEPT !.secret = req[p].thing, !.legacy = FALSE]
        /\ Write(p, row', {})
    BY <2>0, WriteIs
  <2>2. Columns(row', row.meta, row.verify, row.reset) /\ Factors(row', row.on, req[p].thing)
    BY <1>0, <2>1, RowWith
  <2>3. GoodRow(p, "secret")
    BY <1>0, <2>0, <2>2, Reads DEF GoodRow, Columns, Factors
  <2>4. GoodGone(K, {}, "code")
    BY DEF GoodGone, Kinds
  <2>5. GoodFactor(p)
    BY <1>4, <2>2 DEF Totp, GoodFactor, Factor, Factors
  <2> QED BY <1>0, <2>1, <2>3, <2>4, <2>5 DEF GoodWrite
<1> QED BY <1>1, <1>2, <1>3, <1>4

-----------------------------------------------------------------------------
(* What a write keeps *)

LEMMA IdleIs ==
  /\ Idle \in Request /\ Idle.op = "idle" /\ Idle.thing = None
  /\ Idle.meta \in Meta /\ Idle.meta.codes = {}
  /\ Idle.meta.pending = None /\ Idle.meta.roles = None
BY DEF Idle, Request, NewRow, Meta, Thing0, None

\* The request that wrote is over, the others go on.
LEMMA WriteRests ==
  ASSUME TypeOK, NEW p \in Procs, NEW gone \in SUBSET Things, Write(p, row', gone)
  PROVE  /\ req' \in [Procs -> Request] /\ req'[p] = Idle
         /\ \A q \in Procs : q # p => req'[q] = req[q]
         /\ row.exists /\ spent' = spent \cup gone /\ spent' \in SUBSET Things
         /\ back' = back \cup ((spent \cap Held(row')) \ Held(row)) /\ back' \in SUBSET Things
         /\ early' \in SUBSET (Procs \X Things)
         /\ \A q \in Procs, x \in Things :
              q # p => /\ <<q, x>> \in early => <<q, x>> \in early'
                       /\ ~At(q, "idle") /\ x \in gone /\ x \in Carried(q) => <<q, x>> \in early'
BY IdleIs DEF TypeOK, Write, Busy

\* What was just made is of kind k, what was there is as it was.
Recoloured(KK, K, k) == \A x \in Things : KK[x] = IF minted < x THEN k ELSE K[x]

LEMMA RowStaysColoured ==
  ASSUME TypeOK, ReadInv, NEW K \in [Things -> Kinds], KindsAre(K), NEW p \in Procs,
         NEW k \in Kinds, GoodRow(p, k), NEW KK \in [Things -> Kinds], Recoloured(KK, K, k)
  PROVE  /\ RowKinds(KK)'
         /\ \A x \in Held(row') : x <= minted'
         /\ row'.secret <= minted' /\ Held(row') \subseteq Things
<1>1. /\ \A x \in Things : x <= minted => KK[x] = K[x]
      /\ \A x \in Things : Made(x) => KK[x] = k
      /\ \A x \in Things : x <= minted => x <= minted'
  BY Types DEF Recoloured, Made, GoodRow
<1>2. /\ row'.meta \in Meta /\ row'.meta.codes \subseteq Things
      /\ {row'.meta.pending, row'.meta.roles, row'.verify, row'.reset, row'.secret}
           \subseteq Thing0
  BY DEF GoodRow, Row, Meta
<1>3. \A x \in Thing0 : x # None => x \in Things
  BY Types
<1>4. \A x \in row'.meta.codes : KK[x] = "code" /\ x <= minted'
  BY <1>1, <1>2, Reads DEF GoodRow, Made
<1>5. row'.meta.pending # None => KK[row'.meta.pending] = "pending" /\ row'.meta.pending <= minted'
  BY <1>1, <1>2, <1>3, Reads DEF GoodRow, Made
<1>6. row'.meta.roles # None => KK[row'.meta.roles] = "roles" /\ row'.meta.roles <= minted'
  BY <1>1, <1>2, <1>3, Reads DEF GoodRow, Made
<1>7. row'.verify # None => KK[row'.verify] = "verify" /\ row'.verify <= minted'
  BY <1>1, <1>2, <1>3, Reads DEF GoodRow, Made
<1>8. row'.reset # None => KK[row'.reset] = "reset" /\ row'.reset <= minted'
  BY <1>1, <1>2, <1>3, Reads DEF GoodRow, Made
<1>9. row'.secret # None => KK[row'.secret] = "secret" /\ row'.secret <= minted'
  <2>1. row.secret # None => K[row.secret] = "secret" /\ row.secret <= minted /\ row.secret \in Things
    BY <1>3, Types DEF KindsAre, RowKinds, OfKind, ReadInv
  <2>2. At(p, "totp") /\ req[p].thing # None =>
          K[req[p].thing] = "secret" /\ req[p].thing <= minted /\ req[p].thing \in Things
    BY <1>3, Types DEF KindsAre, RequestKinds, OfKind, ReadInv, Carried, At
  <2> QED BY <1>1, <1>2, <1>3, <2>1, <2>2 DEF GoodRow, Made
<1>10. None <= minted'
  BY Types DEF GoodRow, None
<1>11. RowKinds(KK)'
  BY <1>4, <1>5, <1>6, <1>7, <1>8, <1>9 DEF RowKinds, MetaKinds, OfKind
<1>12. \A x \in Held(row') : x <= minted' /\ x \in Things
  BY <1>2, <1>3, <1>4, <1>5, <1>6, <1>7, <1>8 DEF Held, InMeta
<1> QED BY <1>9, <1>10, <1>11, <1>12

\* A thing in the row is in the column of its kind.
LEMMA ColumnOfKind ==
  ASSUME NEW K, RowKinds(K)', NEW x \in Held(row'), x # None
  PROVE  InColumn(row', K[x], x)
BY DEF RowKinds, MetaKinds, OfKind, Held, InMeta, InColumn

LEMMA WriteKeepsKinds ==
  ASSUME TypeOK, ReadInv, NEW K \in [Things -> Kinds], KindsAre(K), NEW p \in Procs,
         NEW k \in Kinds, NEW j \in Kinds, NEW gone \in SUBSET Things,
         Write(p, row', gone), GoodRow(p, k), GoodGone(K, gone, j),
         NEW KK \in [Things -> Kinds], Recoloured(KK, K, k)
  PROVE  KindsAre(KK)'
<1>1. RowKinds(KK)'
  BY RowStaysColoured
<1>2. \A x \in Things : x <= minted => KK[x] = K[x]
  BY Types DEF Recoloured
<1>3. ASSUME NEW q \in Procs PROVE RequestKinds(KK, q)'
  <2>1. CASE q = p
    <3>1. req'[q] = Idle
      BY <2>1, WriteRests
    <3>2. /\ Read(q)' = Idle.meta /\ req'[q].op = "idle" /\ req'[q].thing = None
      BY <3>1, IdleIs DEF Read
    <3> QED BY <3>2, IdleIs DEF RequestKinds, MetaKinds, OfKind
  <2>2. CASE q # p
    <3>1. req'[q] = req[q] /\ Read(q)' = Read(q)
      BY <2>2, WriteRests DEF Read
    <3>2. RequestKinds(K, q)
      BY DEF KindsAre
    <3>3. /\ Read(q).codes \subseteq Things /\ Read(q).pending \in Thing0
          /\ Read(q).roles \in Thing0 /\ req[q].thing \in Thing0
      BY Types
    <3>4. \A x \in Read(q).codes \cup {Read(q).pending, Read(q).roles, req[q].thing} :
            x # None => x \in Things /\ x <= minted
      BY <3>3, Types DEF ReadInv, Carried, InMeta
    <3>5. \A x \in Read(q).codes \cup {Read(q).pending, Read(q).roles, req[q].thing} :
            x # None => KK[x] = K[x]
      BY <1>2, <3>4
    <3> QED BY <3>1, <3>2, <3>5 DEF RequestKinds, MetaKinds, OfKind
  <2> QED BY <2>1, <2>2
<1>4. ASSUME NEW x \in spent' PROVE KK[x] # "secret"
  <2>1. spent' = spent \cup gone /\ x \in Things
    BY WriteRests
  <2>2. x <= minted /\ K[x] # "secret"
    BY <2>1 DEF KindsAre, ReadInv, GoodGone
  <2> QED BY <1>2, <2>1, <2>2
<1> QED BY <1>1, <1>3, <1>4 DEF KindsAre

LEMMA WriteKeeps ==
  ASSUME TypeOK, ReadInv, SpentInv, NEW K \in [Things -> Kinds], KindsAre(K),
         NEW p \in Procs, GoodWrite(p, K)
  PROVE  /\ KindInv' /\ ReadInv' /\ SpentInv'
         /\ row' \in Row /\ Cardinality(row'.meta.codes) <= CodeCount
         /\ minted' \in 0..MaxMinted /\ \A x \in Held(row') : x <= minted'
         /\ req' \in [Procs -> Request] /\ spent' \in SUBSET Things
         /\ early' \in SUBSET (Procs \X Things) /\ back' \in SUBSET Things
<1>1. PICK gone \in SUBSET Things, k \in Kinds, j \in Kinds :
         Write(p, row', gone) /\ GoodRow(p, k) /\ GoodGone(K, gone, j)
  BY DEF GoodWrite
<1> DEFINE KK == [x \in Things |-> IF minted < x THEN k ELSE K[x]]
<1>2. KK \in [Things -> Kinds] /\ Recoloured(KK, K, k)
  BY DEF Recoloured
<1>3. \A x \in Things : x <= minted => KK[x] = K[x]
  BY Types
<1>4. PICK L \in [Things -> Kinds] : L = KK
  BY <1>2
<1>5. /\ KindsAre(L)' /\ RowKinds(L)'
      /\ (\A x \in Held(row') : x <= minted') /\ row'.secret <= minted' /\ Held(row') \subseteq Things
  BY <1>1, <1>2, <1>4, WriteKeepsKinds, RowStaysColoured
<1>6. KindInv'
  BY <1>5 DEF KindInv
<1>7. /\ req' \in [Procs -> Request] /\ req'[p] = Idle
      /\ \A q \in Procs : q # p => req'[q] = req[q]
      /\ row.exists /\ spent' = spent \cup gone /\ spent' \in SUBSET Things
      /\ back' = back \cup ((spent \cap Held(row')) \ Held(row)) /\ back' \in SUBSET Things
      /\ early' \in SUBSET (Procs \X Things)
      /\ \A q \in Procs, x \in Things :
           q # p => /\ <<q, x>> \in early => <<q, x>> \in early'
                    /\ ~At(q, "idle") /\ x \in gone /\ x \in Carried(q) => <<q, x>> \in early'
  BY <1>1, WriteRests
<1>8. minted \in Nat /\ minted' \in Nat /\ minted <= minted' /\ minted' \in 0..MaxMinted
      /\ MaxMinted \in Nat
  BY <1>1, Types DEF GoodRow
<1>9. ASSUME NEW q \in Procs
      PROVE  /\ Cardinality(Read(q)'.codes) <= CodeCount
             /\ \A x \in Carried(q)' : x <= minted'
  <2>1. CASE q = p
    <3>1. Read(q)' = Idle.meta /\ req'[q].thing = None
      BY <1>7, <2>1, IdleIs DEF Read
    <3>2. Cardinality({}) <= CodeCount
      BY FS_EmptySet, Types
    <3> QED BY <1>8, <3>1, <3>2, IdleIs DEF Carried, InMeta, None
  <2>2. CASE q # p
    <3>1. Read(q)' = Read(q) /\ Carried(q)' = Carried(q)
      BY <1>7, <2>2 DEF Read, Carried
    <3>2. \A x \in Carried(q) : x \in Nat /\ x <= minted
      BY Types DEF ReadInv, Carried, InMeta, Thing0, None
    <3> QED BY <1>8, <3>1, <3>2 DEF ReadInv
  <2> QED BY <2>1, <2>2
<1>10. \A x \in spent' : x <= minted'
  BY <1>1, <1>7, <1>8, Types DEF ReadInv, GoodGone
<1>11. ReadInv'
  BY <1>5, <1>9, <1>10 DEF ReadInv
<1>12. ASSUME NEW x \in spent' \cap Held(row') PROVE x \in back'
  <2>1. x \notin gone
    <3>1. SUFFICES ASSUME x \in gone PROVE FALSE
      OBVIOUS
    <3>2. x \in Things /\ x <= minted /\ K[x] = j /\ ~InColumn(row', j, x) /\ x # None
      BY <1>1, <3>1, Types DEF GoodGone
    <3>3. L[x] = j
      BY <1>3, <1>4, <3>2
    <3> QED BY <1>5, <3>2, <3>3, ColumnOfKind
  <2> QED BY <1>7, <2>1 DEF SpentInv
<1>13. ASSUME NEW q \in Procs, ~At(q, "idle")', NEW x \in spent' \cap Carried(q)'
       PROVE  <<q, x>> \in early' \/ x \in back'
  <2>1. q # p
    BY <1>7, <1>13, IdleIs DEF At
  <2>2. Carried(q)' = Carried(q) /\ ~At(q, "idle") /\ x \in Things
    BY <1>7, <1>13, <2>1 DEF Read, Carried, At
  <2> QED BY <1>7, <1>13, <2>1, <2>2 DEF SpentInv
<1>14. SpentInv'
  BY <1>12, <1>13 DEF SpentInv
<1> QED BY <1>1, <1>5, <1>6, <1>7, <1>8, <1>11, <1>14 DEF GoodRow

LEMMA WriteKeepsFactor ==
  ASSUME TypeOK, FactorInv, FactorIsConfirmed, NEW p \in Procs, NEW gone \in SUBSET Things,
         Write(p, row', gone),
         (Factors(row', row.on, row.secret) /\ NoFactor(p)) \/ GoodFactor(p)
  PROVE  FactorInv' /\ FactorIsConfirmed' /\ behind' \in SUBSET Procs
<1>1. /\ req'[p] = Idle /\ Idle.op = "idle" /\ row.exists
      /\ \A q \in Procs : q # p => req'[q] = req[q]
  BY WriteRests, IdleIs
<1>2. behind \in SUBSET Procs
  BY DEF TypeOK
<1>3. CASE Factors(row', row.on, row.secret) /\ NoFactor(p)
  <2>1. ASSUME NEW q \in Procs \ behind'
        PROVE  /\ req'[q].op = "setup" => ~row'.on
               /\ req'[q].op \in {"enable", "totp"} => req'[q].thing = row'.secret
    <3>1. CASE q = p
      BY <1>1, <3>1
    <3>2. CASE q # p
      BY <1>1, <1>3, <3>2 DEF NoFactor, Factors, FactorInv, At
    <3> QED BY <3>1, <3>2
  <2> QED BY <1>2, <1>3, <2>1 DEF FactorInv, FactorIsConfirmed, Factors, NoFactor, At
<1>4. CASE GoodFactor(p)
  <2>1. ASSUME NEW q \in Procs \ behind' PROVE req'[q].op = "idle"
    BY <1>1, <1>4 DEF GoodFactor, Busy, At
  <2>2. FactorInv'
    BY <2>1 DEF FactorInv, At
  <2>3. /\ p \notin behind /\ At(p, "setup") => ~row.on
        /\ p \notin behind /\ (At(p, "enable") \/ At(p, "totp")) => req[p].thing = row.secret
    BY <1>1 DEF FactorInv, At
  <2>4. FactorIsConfirmed'
    BY <1>4, <2>3 DEF GoodFactor, FactorIsConfirmed
  <2> QED BY <1>4, <2>2, <2>4 DEF GoodFactor, Busy
<1> QED BY <1>3, <1>4

LEMMA HistoryTypes ==
  ASSUME TypeOK, NEW p \in Procs, Update(p), ~Delete(p)
  PROVE  confirmed' \in Thing0 /\ crossed' \in BOOLEAN
<1>1. confirmed \in Thing0 /\ crossed \in BOOLEAN /\ req[p].thing \in Thing0
  BY Types DEF TypeOK
<1>2. CASE NoFactor(p)
  BY <1>1, <1>2 DEF NoFactor
<1>3. CASE ~NoFactor(p)
  <2>1. Setup(p) \/ Enable(p) \/ Disable(p) \/ Totp(p)
    BY <1>3 DEF Update, Backup, Regenerate, Change, Cancel, Confirm, Resend, Verify,
                Forgot, Reset, Roles
  <2>2. confirmed' = confirmed \/ confirmed' = req[p].thing
    BY <2>1 DEF Setup, Enable, Disable, Totp
  <2>3. ASSUME crossed' = (p \in behind) PROVE crossed' \in BOOLEAN
    BY <2>3
  <2>4. ASSUME crossed' = (crossed \/ p \in behind) PROVE crossed' \in BOOLEAN
    BY <2>4
  <2>5. Setup(p) \/ Enable(p) \/ Disable(p) => crossed' = (p \in behind)
    BY Zenon DEF Setup, Enable, Disable
  <2>6. Totp(p) => crossed' = (crossed \/ p \in behind)
    BY Zenon DEF Totp
  <2>7. crossed' \in BOOLEAN
    BY <2>1, <2>3, <2>4, <2>5, <2>6, Zenon
  <2> QED BY <1>1, <2>2, <2>7
<1> QED BY <1>2, <1>3

\* Every update but a deletion is a write of the kind above.
LEMMA UpdateIs ==
  ASSUME TypeOK, ReadInv, NEW K \in [Things -> Kinds], KindsAre(K), NEW p \in Procs,
         Update(p), ~Delete(p)
  PROVE  /\ GoodWrite(p, K)
         /\ (Factors(row', row.on, row.secret) /\ NoFactor(p)) \/ GoodFactor(p)
<1>1. CASE \/ Backup(p) \/ Regenerate(p) \/ Change(p) \/ Cancel(p) \/ Confirm(p) \/ Roles(p)
  BY <1>1, MetaWrites
<1>2. CASE \/ Resend(p) \/ Verify(p) \/ Forgot(p) \/ Reset(p)
  BY <1>2, LinkWrites
<1>3. CASE \/ Setup(p) \/ Enable(p) \/ Disable(p) \/ Totp(p)
  BY <1>3, FactorWrites
<1> QED BY <1>1, <1>2, <1>3 DEF Update

LEMMA UpdateKeeps ==
  ASSUME Inv, NEW p \in Procs, Update(p), ~Delete(p)
  PROVE  Inv'
<1>0. TypeOK /\ ReadInv /\ SpentInv /\ FactorInv /\ FactorIsConfirmed /\ KindInv
  BY DEF Inv
<1>1. PICK K \in [Things -> Kinds] : KindsAre(K)
  BY <1>0 DEF KindInv
<1>2. /\ GoodWrite(p, K)
      /\ (Factors(row', row.on, row.secret) /\ NoFactor(p)) \/ GoodFactor(p)
  BY <1>0, <1>1, UpdateIs
<1>3. PICK gone \in SUBSET Things : Write(p, row', gone)
  BY <1>2 DEF GoodWrite
<1>4. FactorInv' /\ FactorIsConfirmed' /\ behind' \in SUBSET Procs
  BY <1>0, <1>2, <1>3, WriteKeepsFactor
<1>5. confirmed' \in Thing0 /\ crossed' \in BOOLEAN
  BY <1>0, HistoryTypes
<1>6. /\ KindInv' /\ ReadInv' /\ SpentInv'
      /\ row' \in Row /\ Cardinality(row'.meta.codes) <= CodeCount
      /\ minted' \in 0..MaxMinted /\ \A x \in Held(row') : x <= minted'
      /\ req' \in [Procs -> Request] /\ spent' \in SUBSET Things
      /\ early' \in SUBSET (Procs \X Things) /\ back' \in SUBSET Things
  BY <1>0, <1>1, <1>2, WriteKeeps
<1>7. TypeOK'
  BY <1>4, <1>5, <1>6 DEF TypeOK, Held
<1> QED BY <1>4, <1>6, <1>7 DEF Inv

-----------------------------------------------------------------------------
(* The other steps *)

\* A request that is over goes back to idle; the others are as they were.
LEMMA OverIs ==
  ASSUME TypeOK, NEW p \in Procs, req' = [req EXCEPT ![p] = Idle]
  PROVE  /\ req' \in [Procs -> Request]
         /\ \A q \in Procs :
              \/ /\ req'[q].op = "idle" /\ req'[q].thing = None
                 /\ Read(q)' = Idle.meta /\ Carried(q)' = {None}
              \/ q # p /\ req'[q] = req[q] /\ Read(q)' = Read(q) /\ Carried(q)' = Carried(q)
<1>1. req' \in [Procs -> Request] /\ req'[p] = Idle
      /\ \A q \in Procs : q # p => req'[q] = req[q]
  BY IdleIs DEF TypeOK
<1>2. /\ req'[p].op = "idle" /\ req'[p].thing = None
      /\ Read(p)' = Idle.meta /\ Carried(p)' = {None}
  BY <1>1, IdleIs DEF Read, Carried, InMeta
<1>3. ASSUME NEW q \in Procs, q # p
      PROVE  req'[q] = req[q] /\ Read(q)' = Read(q) /\ Carried(q)' = Carried(q)
  BY <1>1, <1>3 DEF Read, Carried
<1> QED BY <1>1, <1>2, <1>3

\* Requests keep their kinds while nothing is made.
LEMMA OverKeeps ==
  ASSUME TypeOK, ReadInv, NEW K, \A q \in Procs : RequestKinds(K, q),
         NEW p \in Procs, req' = [req EXCEPT ![p] = Idle], minted' = minted
  PROVE  /\ \A q \in Procs : RequestKinds(K, q)'
         /\ \A q \in Procs : /\ Cardinality(Read(q)'.codes) <= CodeCount
                             /\ \A x \in Carried(q)' : x <= minted'
<1>1. ASSUME NEW q \in Procs PROVE RequestKinds(K, q)'
  <2>1. CASE /\ req'[q].op = "idle" /\ req'[q].thing = None
             /\ Read(q)' = Idle.meta /\ Carried(q)' = {None}
    BY <2>1, IdleIs DEF RequestKinds, MetaKinds, OfKind
  <2>2. CASE req'[q] = req[q] /\ Read(q)' = Read(q) /\ Carried(q)' = Carried(q)
    BY <2>2 DEF RequestKinds, MetaKinds, OfKind
  <2> QED BY <2>1, <2>2, OverIs
<1>2. Cardinality({}) <= CodeCount /\ None <= minted
  BY FS_EmptySet, Types DEF None
<1>3. ASSUME NEW q \in Procs
      PROVE  Cardinality(Read(q)'.codes) <= CodeCount /\ \A x \in Carried(q)' : x <= minted'
  <2>1. CASE Read(q)' = Idle.meta /\ Carried(q)' = {None}
    BY <1>2, <2>1, IdleIs
  <2>2. CASE Read(q)' = Read(q) /\ Carried(q)' = Carried(q)
    BY <2>2 DEF ReadInv
  <2> QED BY <2>1, <2>2, OverIs
<1> QED BY <1>1, <1>3

LEMMA DeleteKeeps ==
  ASSUME Inv, NEW p \in Procs, Delete(p)
  PROVE  Inv'
<1>0. TypeOK /\ ReadInv /\ SpentInv /\ FactorInv /\ FactorIsConfirmed /\ KindInv
  BY DEF Inv
<1>1. /\ row' = [NewRow EXCEPT !.exists = FALSE] /\ req' = [req EXCEPT ![p] = Idle]
      /\ spent' = spent \cup Held(row) /\ minted' = minted
      /\ early' = {} /\ back' = {} /\ confirmed' = None /\ behind' = {} /\ crossed' = FALSE
  BY DEF Delete
<1>2. /\ row' \in Row /\ ~row'.exists /\ ~row'.on /\ row'.secret = None
      /\ row'.verify = None /\ row'.reset = None /\ row'.meta.codes = {}
      /\ row'.meta.pending = None /\ row'.meta.roles = None
  BY <1>1 DEF NewRow, Row, Meta, Thing0, None
<1>a. Cardinality({}) = 0 /\ CodeCount \in Nat
  BY FS_EmptySet, ConstAssumption
<1>b. Held(row') = {}
  BY <1>2 DEF Held, InMeta
<1>3. Cardinality(row'.meta.codes) <= CodeCount /\ Held(row') = {}
  BY <1>2, <1>a, <1>b
<1>4. PICK K \in [Things -> Kinds] : KindsAre(K)
  BY <1>0 DEF KindInv
<1>5. \A x \in Held(row) : x \in Things /\ x <= minted /\ K[x] # "secret"
  <2> SUFFICES ASSUME NEW x \in Held(row)
               PROVE  x \in Things /\ x <= minted /\ K[x] # "secret"
    OBVIOUS
  <2>1. x \in row.meta.codes \/ (x \in {row.meta.pending, row.meta.roles, row.verify, row.reset}
                                 /\ x # None)
    BY DEF Held, InMeta
  <2> QED BY <1>0, <1>4, <2>1, Reads
<1>6. /\ req' \in [Procs -> Request] /\ \A q \in Procs : RequestKinds(K, q)'
      /\ \A q \in Procs : /\ Cardinality(Read(q)'.codes) <= CodeCount
                          /\ \A x \in Carried(q)' : x <= minted'
  BY <1>0, <1>1, <1>4, OverIs, OverKeeps DEF KindsAre
<1>7. TypeOK'
  BY <1>0, <1>1, <1>2, <1>3, <1>5, <1>6 DEF TypeOK, Thing0
<1>8. RowKinds(K)'
  BY <1>2 DEF RowKinds, MetaKinds, OfKind
<1>9. KindInv'
  BY <1>1, <1>4, <1>5, <1>6, <1>8 DEF KindInv, KindsAre
<1>10. ReadInv'
  BY <1>0, <1>1, <1>2, <1>5, <1>6, Types DEF ReadInv, None
<1>11. SpentInv' /\ FactorInv' /\ FactorIsConfirmed'
  BY <1>2 DEF SpentInv, FactorInv, FactorIsConfirmed
<1> QED BY <1>7, <1>9, <1>10, <1>11 DEF Inv

LEMMA CrashKeeps ==
  ASSUME Inv, NEW p \in Procs, Crash(p)
  PROVE  Inv'
<1>0. TypeOK /\ ReadInv /\ SpentInv /\ FactorInv /\ FactorIsConfirmed /\ KindInv
  BY DEF Inv
<1>1. /\ req' = [req EXCEPT ![p] = Idle] /\ early' = {e \in early : e[1] # p}
      /\ behind' = behind \ {p}
      /\ UNCHANGED <<row, minted, spent, back, confirmed, crossed>>
  BY DEF Crash
<1>2. PICK K \in [Things -> Kinds] : KindsAre(K)
  BY <1>0 DEF KindInv
<1>3. /\ req' \in [Procs -> Request] /\ \A q \in Procs : RequestKinds(K, q)'
      /\ \A q \in Procs : /\ Cardinality(Read(q)'.codes) <= CodeCount
                          /\ \A x \in Carried(q)' : x <= minted'
  BY <1>0, <1>1, <1>2, OverIs, OverKeeps DEF KindsAre
<1>4. TypeOK'
  BY <1>0, <1>1, <1>3 DEF TypeOK, Held
<1>5. KindInv'
  BY <1>1, <1>2, <1>3 DEF KindInv, KindsAre, RowKinds
<1>6. ReadInv'
  BY <1>0, <1>1, <1>3 DEF ReadInv
<1>7. ASSUME NEW q \in Procs, req'[q].op # "idle"
      PROVE  q # p /\ req'[q] = req[q] /\ Carried(q)' = Carried(q)
  BY <1>0, <1>1, <1>7, OverIs
<1>8. SpentInv'
  <2>1. ASSUME NEW q \in Procs, ~At(q, "idle")', NEW x \in spent' \cap Carried(q)', row.exists
        PROVE  <<q, x>> \in early' \/ x \in back'
    BY <1>0, <1>1, <1>7, <2>1 DEF SpentInv, At
  <2> QED BY <1>0, <1>1, <2>1 DEF SpentInv, Held
<1>9. FactorInv' /\ FactorIsConfirmed'
  <2>1. ASSUME NEW q \in Procs \ behind', row.exists
        PROVE  /\ req'[q].op = "setup" => ~row.on
               /\ req'[q].op \in {"enable", "totp"} => req'[q].thing = row.secret
    BY <1>0, <1>1, <1>7, <2>1 DEF FactorInv, At
  <2> QED BY <1>0, <1>1, <2>1 DEF FactorInv, FactorIsConfirmed, At
<1> QED BY <1>4, <1>5, <1>6, <1>8, <1>9 DEF Inv

\* What a request that begins carries is in the row.
LEMMA BeginIs ==
  ASSUME TypeOK, NEW p \in Procs, NEW o \in Ops, NEW x \in Thing0, May(o, x), Begin(p, o, x)
  PROVE  /\ req' \in [Procs -> Request] /\ row.exists
         /\ \A q \in Procs : q # p => req'[q] = req[q]
         /\ req'[p].op = o /\ o # "idle" /\ req'[p].thing = x
         /\ req'[p].meta \in {row.meta, Idle.meta} /\ req'[p].meta \in Meta
         /\ UNCHANGED <<row, minted, spent, early, back, confirmed, behind, crossed>>
<1> DEFINE r == [op |-> o, thing |-> x, meta |-> IF o \in MetaOps THEN row.meta ELSE Idle.meta]
<1>1. r \in Request /\ r.op = o /\ r.thing = x /\ r.meta \in {row.meta, Idle.meta}
      /\ r.meta \in Meta
  BY Types, IdleIs DEF Request
<1>2. req' = [req EXCEPT ![p] = r] /\ row.exists
      /\ UNCHANGED <<row, minted, spent, early, back, confirmed, behind, crossed>>
  BY DEF Begin, History
<1> HIDE DEF r
<1>3. req' \in [Procs -> Request] /\ req'[p] = r /\ \A q \in Procs : q # p => req'[q] = req[q]
  BY <1>1, <1>2 DEF TypeOK
<1>4. o # "idle"
  BY DEF Ops
<1> QED BY <1>1, <1>2, <1>3, <1>4

\* What it is given is nothing, or what the column of its kind holds.
LEMMA MayIs ==
  ASSUME NEW o \in Ops, NEW x \in Thing0, May(o, x)
  PROVE  /\ o = "backup" => x \in row.meta.codes /\ x # None
         /\ o = "confirm" => x = row.meta.pending
         /\ o = "verify" => x = row.verify
         /\ o = "reset" => x = row.reset
         /\ o \in {"enable", "totp"} => x = row.secret
         /\ o \notin {"backup", "confirm", "verify", "reset", "enable", "totp"} => x = None
         /\ o = "setup" => ~row.on
         /\ x \in Held(row) \cup {None, row.secret}
<1>1. /\ o = "backup" => x \in row.meta.codes /\ x # None
      /\ o = "confirm" => x = row.meta.pending
      /\ o = "verify" => x = row.verify
      /\ o = "reset" => x = row.reset
  BY DEF May, MayUse
<1>2. /\ o \in {"enable", "totp"} => x = row.secret
      /\ o \notin {"backup", "confirm", "verify", "reset", "enable", "totp"} => x = None
      /\ o = "setup" => ~row.on
  BY DEF May, MaySetup
<1> QED BY <1>1, <1>2 DEF Held, InMeta

LEMMA BeginKeeps ==
  ASSUME Inv, NEW p \in Procs, NEW o \in Ops, NEW x \in Thing0, May(o, x), Begin(p, o, x)
  PROVE  Inv'
<1>0. TypeOK /\ ReadInv /\ SpentInv /\ FactorInv /\ FactorIsConfirmed /\ KindInv
  BY DEF Inv
<1>1. /\ req' \in [Procs -> Request] /\ row.exists
      /\ \A q \in Procs : q # p => req'[q] = req[q]
      /\ req'[p].op = o /\ o # "idle" /\ req'[p].thing = x
      /\ req'[p].meta \in {row.meta, Idle.meta} /\ req'[p].meta \in Meta
      /\ UNCHANGED <<row, minted, spent, early, back, confirmed, behind, crossed>>
  BY <1>0, BeginIs
<1>2. \A q \in Procs : q # p => Read(q)' = Read(q) /\ Carried(q)' = Carried(q)
  BY <1>1 DEF Read, Carried
<1>3. PICK K \in [Things -> Kinds] : KindsAre(K)
  BY <1>0 DEF KindInv
<1>4. Read(p)' \in {row.meta, Idle.meta} /\ Carried(p)' \subseteq Held(row) \cup {None, row.secret}
  <2>1. Read(p)' \in {row.meta, Idle.meta}
    BY <1>1 DEF Read
  <2>2. InMeta(Idle.meta) = {}
    BY IdleIs DEF InMeta
  <2>3. InMeta(Read(p)') \subseteq Held(row)
    BY <2>1, <2>2 DEF Held
  <2>4. Carried(p)' = InMeta(Read(p)') \cup {x}
    BY <1>1 DEF Carried, InMeta
  <2> QED BY <2>1, <2>3, <2>4, MayIs
<1>5. ASSUME NEW q \in Procs PROVE RequestKinds(K, q)'
  <2>1. CASE q # p
    BY <1>1, <1>2, <1>3, <2>1 DEF KindsAre, RequestKinds
  <2>2. CASE q = p
    <3>1. RowKinds(K)
      BY <1>3 DEF KindsAre
    <3>2. MetaKinds(K, row.meta) /\ MetaKinds(K, Idle.meta)
      BY <3>1, IdleIs DEF RowKinds, MetaKinds, OfKind
    <3>3. MetaKinds(K, Read(p)')
      BY <1>4, <3>2
    <3> QED BY <1>1, <2>2, <3>1, <3>3, MayIs DEF RequestKinds, RowKinds, MetaKinds, OfKind
  <2> QED BY <2>1, <2>2
<1>6. KindInv'
  BY <1>1, <1>3, <1>5 DEF KindInv, KindsAre, RowKinds
<1>7. TypeOK'
  BY <1>0, <1>1 DEF TypeOK, Held
<1>8. Cardinality({}) = 0 /\ CodeCount \in Nat /\ minted \in Nat
  BY <1>0, FS_EmptySet, Types
<1>9. ReadInv'
  <2>1. ASSUME NEW q \in Procs
        PROVE  Cardinality(Read(q)'.codes) <= CodeCount /\ \A y \in Carried(q)' : y <= minted
    <3>1. CASE q # p
      BY <1>0, <1>2, <3>1 DEF ReadInv
    <3>2. CASE q = p
      <4>1. Cardinality(row.meta.codes) <= CodeCount /\ Cardinality(Idle.meta.codes) <= CodeCount
        BY <1>0, <1>8, IdleIs DEF TypeOK
      <4>2. \A y \in Held(row) \cup {None, row.secret} : y <= minted
        BY <1>0, <1>8 DEF TypeOK, ReadInv, None
      <4> QED BY <1>4, <3>2, <4>1, <4>2
    <3> QED BY <3>1, <3>2
  <2> QED BY <1>0, <1>1, <2>1 DEF ReadInv
<1>10. SpentInv'
  <2>1. ASSUME NEW q \in Procs, ~At(q, "idle")', NEW y \in spent \cap Carried(q)'
        PROVE  <<q, y>> \in early \/ y \in back
    <3>1. CASE q # p
      BY <1>0, <1>1, <1>2, <2>1, <3>1 DEF SpentInv, At
    <3>2. CASE q = p
      <4>1. y \in Things /\ y # None /\ K[y] # "secret"
        BY <1>0, <1>3, Types DEF KindsAre, TypeOK
      <4>2. y # row.secret
        BY <1>3, <4>1 DEF KindsAre, RowKinds, OfKind
      <4> QED BY <1>0, <1>1, <1>4, <3>2, <4>1, <4>2 DEF SpentInv
    <3> QED BY <3>1, <3>2
  <2> QED BY <1>0, <1>1, <2>1 DEF SpentInv, Held
<1>11. FactorInv' /\ FactorIsConfirmed'
  <2>1. ASSUME NEW q \in Procs \ behind
        PROVE  /\ req'[q].op = "setup" => ~row.on
               /\ req'[q].op \in {"enable", "totp"} => req'[q].thing = row.secret
    <3>1. CASE q # p
      BY <1>0, <1>1, <3>1 DEF FactorInv, At
    <3>2. CASE q = p
      BY <1>1, <3>2, MayIs
    <3> QED BY <3>1, <3>2
  <2> QED BY <1>0, <1>1, <2>1 DEF FactorInv, FactorIsConfirmed, At
<1> QED BY <1>6, <1>7, <1>9, <1>10, <1>11 DEF Inv

LEMMA InitKeeps == Init => Inv
<1> SUFFICES ASSUME Init PROVE Inv
  OBVIOUS
<1>1. /\ req = [p \in Procs |-> Idle]
      /\ spent = {} /\ early = {} /\ back = {} /\ behind = {} /\ crossed = FALSE
  BY DEF Init
<1>2. /\ req \in [Procs -> Request]
      /\ \A p \in Procs : /\ req[p] = Idle /\ Read(p) = Idle.meta /\ Carried(p) = {None}
                          /\ req[p].op = "idle" /\ req[p].thing = None
  BY <1>1, IdleIs DEF Read, Carried, InMeta
<1>3. Cardinality({}) = 0 /\ CodeCount \in Nat \ {0} /\ MaxMinted \in Nat /\ MaxMinted > CodeCount
  BY FS_EmptySet, ConstAssumption
<1>4. /\ row \in Row /\ Cardinality(row.meta.codes) <= CodeCount
      /\ minted \in 0..MaxMinted /\ row.secret = confirmed /\ row.secret <= minted
      /\ row.secret \in Thing0
      /\ row.verify = None /\ row.reset = None /\ row.meta.pending = None /\ row.meta.roles = None
      /\ \A x \in row.meta.codes : x <= minted /\ x # 1 /\ x \in Things
  <2>1. CASE row = NewRow /\ minted = 0 /\ confirmed = None
    <3>1. /\ row \in Row /\ row.meta.codes = {} /\ row.secret = None
          /\ row.verify = None /\ row.reset = None /\ row.meta.pending = None /\ row.meta.roles = None
      BY <2>1 DEF NewRow, Row, Meta, Thing0, None
    <3> QED BY <1>3, <2>1, <3>1 DEF None, Thing0
  <2>2. CASE \E n \in 0..CodeCount : row = OldRow(n) /\ minted = n + 1 /\ confirmed = 1
    <3>1. PICK n \in 0..CodeCount : row = OldRow(n) /\ minted = n + 1 /\ confirmed = 1
      BY <2>2
    <3>2. n \in Nat /\ n <= CodeCount /\ n + 1 <= MaxMinted
      BY <1>3
    <3> DEFINE C == 2..(n + 1)
    <3>3. C \subseteq Things /\ 1 \in Things /\ \A x \in C : x <= n + 1 /\ x # 1
      BY <1>3, <3>2 DEF Things
    <3>4. Cardinality(C) <= CodeCount
      <4>1. Cardinality(C) = IF 2 > n + 1 THEN 0 ELSE n + 1 - 2 + 1
        BY <3>2, FS_Interval
      <4> QED BY <3>2, <4>1
    <3>5. row = [NewRow EXCEPT !.on = TRUE, !.secret = 1, !.legacy = TRUE, !.meta.codes = C]
      BY <3>1 DEF OldRow
    <3> HIDE DEF C
    <3>6. /\ row \in Row /\ row.meta.codes = C /\ row.secret = 1
          /\ row.verify = None /\ row.reset = None /\ row.meta.pending = None /\ row.meta.roles = None
      BY <3>3, <3>5 DEF NewRow, Row, Meta, Thing0, None
    <3> QED BY <1>3, <3>1, <3>2, <3>3, <3>4, <3>6 DEF Thing0
  <2> QED BY <2>1, <2>2 DEF Init
<1>5. Held(row) = row.meta.codes
  BY <1>4 DEF Held, InMeta
<1>6. TypeOK
  BY <1>1, <1>2, <1>4, <1>5 DEF TypeOK
<1>7. KindInv
  <2> DEFINE K == [x \in Things |-> IF x = row.secret THEN "secret" ELSE "code"]
  <2>1. K \in [Things -> Kinds]
    BY DEF Kinds
  <2>2. row.secret \in {None, 1}
    BY <1>4 DEF Init, None
  <2>3. RowKinds(K)
    BY <1>4, <2>2, Types, <1>6 DEF RowKinds, MetaKinds, OfKind
  <2> HIDE DEF K
  <2>4. ASSUME NEW p \in Procs PROVE RequestKinds(K, p)
    <3>1. /\ req[p].op = "idle" /\ req[p].thing = None
          /\ Read(p).codes = {} /\ Read(p).pending = None /\ Read(p).roles = None
      BY <1>2, IdleIs
    <3> QED BY <3>1 DEF RequestKinds, MetaKinds, OfKind
  <2> QED BY <1>1, <2>1, <2>3, <2>4 DEF KindInv, KindsAre
<1>8. ReadInv
  <2>1. ASSUME NEW p \in Procs
        PROVE  Cardinality(Read(p).codes) <= CodeCount /\ \A x \in Carried(p) : x <= minted
    <3>1. Read(p).codes = {} /\ Carried(p) = {0} /\ minted \in Nat /\ CodeCount \in Nat
      BY <1>2, <1>3, <1>4, IdleIs DEF None
    <3> QED BY <1>3, <3>1
  <2>2. row.secret <= minted /\ spent = {}
    BY <1>1, <1>4
  <2> QED BY <2>1, <2>2 DEF ReadInv
<1>9. SpentInv
  BY <1>1 DEF SpentInv
<1>10. FactorInv /\ FactorIsConfirmed
  BY <1>2, <1>4 DEF FactorInv, FactorIsConfirmed, At
<1> QED BY <1>6, <1>7, <1>8, <1>9, <1>10 DEF Inv

LEMMA StepKeeps == Inv /\ [Next]_vars => Inv'
<1> SUFFICES ASSUME Inv, [Next]_vars PROVE Inv'
  OBVIOUS
<1>1. ASSUME NEW p \in Procs, Update(p) PROVE Inv'
  BY <1>1, UpdateKeeps, DeleteKeeps
<1>2. ASSUME NEW p \in Procs, Crash(p) PROVE Inv'
  BY <1>2, CrashKeeps
<1>3. ASSUME NEW p \in Procs, NEW o \in Ops, NEW x \in Thing0, May(o, x), Begin(p, o, x)
      PROVE  Inv'
  BY <1>3, BeginKeeps
<1>4. CASE UNCHANGED vars
  BY <1>4 DEF vars, Inv, TypeOK, KindInv, KindsAre, RowKinds, RequestKinds, ReadInv, SpentInv,
              FactorInv, FactorIsConfirmed, Held, Carried, Read, At
<1> QED BY <1>1, <1>2, <1>3, <1>4 DEF Next

\* The inductive invariant: what is spent or read is of one kind and was there,
\* a spent thing in the row was brought back, a request that is not behind has
\* read the factor as it is.
THEOREM InvHolds == Spec => []Inv
<1>1. Init => Inv
  BY InitKeeps
<1>2. Inv /\ [Next]_vars => Inv'
  BY StepKeeps
<1> QED BY <1>1, <1>2, PTL DEF Spec

\* The row and the requests have their types, and there are never more backup
\* codes than the constant says (identity-mfa.service.ts:27).
THEOREM TypeCorrect == Spec => []TypeOK
<1>1. Inv => TypeOK
  BY DEF Inv
<1> QED BY <1>1, InvHolds, PTL

\* Whatever requests overlap, the factor that is on has the secret its owner
\* confirmed last, but after a write that was decided on an older factor
\* (identity-mfa.service.ts:105, :142, :202).
THEOREM FactorConfirmed == Spec => []FactorIsConfirmed
<1>1. Inv => FactorIsConfirmed
  BY DEF Inv
<1> QED BY <1>1, InvHolds, PTL

LEMMA UpdateUses ==
  ASSUME Inv, NEW p \in Procs, Update(p), NEW x \in spent \cap Carried(p)
  PROVE  <<p, x>> \in early \/ x \in back
<1>1. row.exists /\ ~At(p, "idle")
  BY DEF Update, Write, Delete, At, Setup, Enable, Disable, Totp, Backup, Regenerate, Change,
         Cancel, Confirm, Resend, Verify, Forgot, Reset, Roles
<1> QED BY <1>1 DEF Inv, SpentInv

\* What a write brings back is in the JSON column, and its request had read it.
LEMMA BroughtBackWasRead ==
  ASSUME Inv, NEW p \in Procs, Update(p), NEW x \in (spent \cap Held(row')) \ Held(row)
  PROVE  x \in InMeta(row'.meta) /\ x \in Carried(p)
<1>0. TypeOK /\ ReadInv /\ KindInv
  BY DEF Inv
<1>1. x \in Things /\ x # None /\ x <= minted /\ minted \in Nat
  BY <1>0, Types DEF ReadInv, TypeOK
<1>2. ~Made(x)
  BY <1>1, Types, <1>0 DEF Made
<1>3. CASE Delete(p)
  BY <1>3 DEF Delete, NewRow, Held, InMeta
<1>4. CASE ~Delete(p)
  <2>1. PICK K \in [Things -> Kinds] : KindsAre(K)
    BY <1>0 DEF KindInv
  <2>2. PICK k \in Kinds : GoodRow(p, k)
    BY <1>0, <1>4, <2>1, UpdateIs DEF GoodWrite
  <2>3. x # row'.verify /\ x # row'.reset
    BY <1>1, <1>2, <2>2 DEF GoodRow, Held
  <2>4. x \in row'.meta.codes \/ x = row'.meta.pending \/ x = row'.meta.roles
    BY <2>3 DEF Held, InMeta
  <2>5. x \in InMeta(row'.meta)
    BY <1>1, <2>4 DEF InMeta
  <2>6. /\ x \in row'.meta.codes => x \in Read(p).codes
        /\ x = row'.meta.pending => x = Read(p).pending
        /\ x = row'.meta.roles => x = Read(p).roles
    BY <1>1, <1>2, <2>2 DEF GoodRow, Held, InMeta
  <2> QED BY <1>1, <2>4, <2>5, <2>6 DEF Carried, InMeta
<1> QED BY <1>3, <1>4

\* What was used, replaced, cancelled or withdrawn works again only for a
\* request that had read it before, or after such a request's write has brought
\* it back; and a write brings back nothing but its read of the JSON column
\* (identity-mfa.service.ts:256, identity-email.service.ts:168,
\* auth.service.ts:278).
THEOREM SpentStays == Spec => SpentStaysSpent
<1>1. ASSUME Inv, [Next]_vars, NEW x \in (spent \cap Held(row')) \ Held(row)
      PROVE  /\ x \in InMeta(row'.meta)
             /\ x \in back \/ \E p \in Procs : <<p, x>> \in early /\ Update(p)
  <2>1. row' # row
    BY <1>1
  <2>2. PICK p \in Procs : Update(p)
    BY <1>1, <2>1 DEF Next, Begin, Crash, vars
  <2>3. x \in InMeta(row'.meta) /\ x \in Carried(p)
    BY <1>1, <2>2, BroughtBackWasRead
  <2> QED BY <1>1, <2>2, <2>3, UpdateUses
<1>2. ASSUME Inv, NEW p \in Procs, req[p].thing \in spent, Update(p)
      PROVE  <<p, req[p].thing>> \in early \/ req[p].thing \in back
  BY <1>2, UpdateUses DEF Carried
<1>3. Inv /\ [Next]_vars =>
        [/\ \A x \in (spent \cap Held(row')) \ Held(row) :
              /\ x \in InMeta(row'.meta)
              /\ x \in back \/ \E p \in Procs : <<p, x>> \in early /\ Update(p)
         /\ \A p \in Procs : req[p].thing \in spent /\ Update(p)
              => <<p, req[p].thing>> \in early \/ req[p].thing \in back]_vars
  BY <1>1, <1>2
<1> QED BY <1>3, InvHolds, PTL DEF Spec, SpentStaysSpent
=============================================================================
