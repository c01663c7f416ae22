---------------------- MODULE ManifestRepositoryProofs ----------------------
(***************************************************************************)
(* Proofs about ManifestRepository, for any number of concurrent uploads,  *)
(* keys, components and stored manifests.                                  *)
(***************************************************************************)
EXTENDS ManifestRepository, TLAPS

Inv == TypeOK /\ CheckInv /\ NoDowngradeAfterRegistration /\ OwnerContinues

USE LimitAssumption, KeyAssumption DEF At

\* The empty table and idle uploads satisfy the invariant.
LEMMA InitInv == Init => Inv
  BY DEF Init, Inv, TypeOK, CheckInv, NoDowngradeAfterRegistration, OwnerContinues, Stored,
         UploadState, Idle

\* What a stored row is made of.
LEMMA RowTypes ==
  ASSUME TypeOK, NEW k \in DOMAIN rows
  PROVE  /\ k \in 1 .. Len(rows) /\ Len(rows) \in Nat
         /\ rows[k].seq \in Nat /\ rows[k].before \in Nat
<1>1. rows[k] \in Row /\ k \in 1 .. Len(rows) /\ Len(rows) \in Nat
  BY DEF TypeOK
<1> QED
  BY <1>1 DEF Row

\* Steps that store nothing keep the invariant if the locals of every upload do.
LEMMA ReadOnlyInv ==
  ASSUME Inv, UNCHANGED rows, up' \in [Uploads -> UploadState],
         \A u \in Uploads :
            /\ up'[u].before <= Len(rows)
            /\ up'[u].pc # "idle" => up'[u].env # None
            /\ up'[u].pc \in {"findByKID", "getManifest", "create"} => up'[u].env.kid \in Trusted
            /\ up'[u].pc = "create" => Checked(u)'
  PROVE  Inv'
  BY DEF Inv, TypeOK, CheckInv, NoDowngradeAfterRegistration, OwnerContinues, Stored, Checked

\* The check of SetEnvelope leaves the upload newer than, and signed like, what
\* was stored at its arrival.
LEMMA GetManifestChecks ==
  ASSUME Inv, NEW u \in Uploads, At(u, "getManifest"),
         \/ Stored(up[u].env.component) = {}
         \/ \E i \in Latest(up[u].env.component) : Newer(i, up[u].env) /\ SameKey(i, up[u].env)
  PROVE  Checked(u)
<1>1. CASE Stored(up[u].env.component) = {}
  BY <1>1 DEF Checked
<1>2. ASSUME NEW i \in Latest(up[u].env.component), Newer(i, up[u].env), SameKey(i, up[u].env)
      PROVE  Checked(u)
  <2>1. i \in Stored(up[u].env.component) /\ rows[i].key = up[u].env.kid
    BY <1>2 DEF Latest, SameKey
  <2>2. ASSUME NEW j \in Stored(up[u].env.component)
        PROVE  rows[j].seq < up[u].env.seq /\ rows[j].seq <= rows[i].seq
    <3>1. rows[j].seq <= rows[i].seq /\ rows[i].seq < up[u].env.seq
      BY <1>2 DEF Latest, Newer
    <3>2. rows[j].seq \in Nat /\ rows[i].seq \in Nat
      BY <2>1, RowTypes DEF Stored, Inv
    <3>3. up[u].env.seq \in Nat
      BY DEF Inv, TypeOK, CheckInv, UploadState, Envelope
    <3> QED
      BY <3>1, <3>2, <3>3
  <2> QED
    BY <2>1, <2>2 DEF Checked
<1> QED
  BY <1>1, <1>2

\* Inserting the row keeps the invariant, although other uploads may have
\* inserted rows since the check.
LEMMA InsertInv ==
  ASSUME Inv, NEW u \in Uploads, At(u, "create"), Fits(up[u].env), End(u),
         rows' = Append(rows, [component |-> up[u].env.component, seq |-> up[u].env.seq,
                               key |-> up[u].env.kid, before |-> up[u].before])
  PROVE  Inv'
<1> DEFINE e == up[u].env
           n == Len(rows) + 1
           new == [component |-> e.component, seq |-> e.seq, key |-> e.kid,
                   before |-> up[u].before]
<1>0. /\ rows \in Seq(Row) /\ up \in [Uploads -> UploadState]
      /\ e \in Envelope /\ e.kid \in Trusted /\ Checked(u) /\ up[u].before <= Len(rows)
  BY DEF Inv, TypeOK, CheckInv, UploadState
<1>1. new \in Row
  BY <1>0 DEF Row, Envelope, Fits, UploadState
<1>2. /\ rows' \in Seq(Row) /\ Len(rows') = n
      /\ rows'[n] = new /\ \A i \in DOMAIN rows : rows'[i] = rows[i]
      /\ DOMAIN rows = 1 .. Len(rows) /\ DOMAIN rows' = 1 .. n
      /\ Len(rows) \in Nat /\ n \notin DOMAIN rows /\ DOMAIN rows' = DOMAIN rows \cup {n}
  BY <1>0, <1>1
<1>3. TypeOK'
  BY <1>0, <1>2 DEF TypeOK, End, Idle, UploadState
<1>4. /\ \A x \in Uploads \ {u} : up'[x] = up[x]
      /\ up'[u] = Idle
  BY <1>0 DEF End
<1> HIDE DEF new
<1> DEFINE StoredNow(c) == {k \in DOMAIN rows' : rows'[k].component = c}
<1>5. ASSUME NEW c
      PROVE  /\ Stored(c) \subseteq StoredNow(c) /\ StoredNow(c) \subseteq Stored(c) \cup {n}
             /\ Stored(c) \subseteq DOMAIN rows
  BY <1>2 DEF Stored
<1>6. ASSUME NEW x \in Uploads, up'[x].pc = "create"
      PROVE  Checked(x)'
  <2>1. x # u /\ up'[x] = up[x] /\ Checked(x)
    BY <1>4, <1>6 DEF Idle, Inv, CheckInv
  <2>2. up[x].before \in Nat /\ up[x].before <= Len(rows)
    BY <1>0 DEF Inv, CheckInv, UploadState
  <2> DEFINE c == up[x].env.component
  <2>3. ASSUME NEW j \in StoredNow(c), j <= up[x].before
        PROVE  /\ rows'[j].seq < up[x].env.seq
               /\ \E l \in StoredNow(c) :
                     rows'[l].key = up[x].env.kid /\ rows'[j].seq <= rows'[l].seq
    <3>1. j \in Stored(c)
      BY <1>2, <1>5, <2>2, <2>3
    <3>2. PICK l \in Stored(c) : rows[l].key = up[x].env.kid /\ rows[j].seq <= rows[l].seq
      BY <2>1, <2>3, <3>1 DEF Checked
    <3>3. rows[j].seq < up[x].env.seq
      BY <2>1, <2>3, <3>1 DEF Checked
    <3>4. rows'[j] = rows[j] /\ rows'[l] = rows[l] /\ l \in StoredNow(c)
      BY <1>2, <1>5, <3>1, <3>2
    <3> QED
      BY <3>2, <3>3, <3>4
  <2> QED
    BY <2>1, <2>3 DEF Checked, Stored
<1>7. CheckInv'
  <2>1. \A i \in DOMAIN rows' : rows'[i].before < i
    BY <1>0, <1>2 DEF Inv, CheckInv, UploadState, new
  <2>2. \A x \in Uploads : up'[x].before <= Len(rows')
    BY <1>0, <1>2, <1>4 DEF Inv, CheckInv, UploadState, Idle
  <2> QED
    BY <1>4, <1>6, <2>1, <2>2 DEF Inv, CheckInv, Idle
<1>8. ASSUME NEW i \in DOMAIN rows', NEW j \in StoredNow(rows'[i].component),
             j <= rows'[i].before
      PROVE  /\ rows'[j].seq < rows'[i].seq
             /\ \E l \in StoredNow(rows'[i].component) :
                   l < i /\ rows'[l].key = rows'[i].key /\ rows'[j].seq <= rows'[l].seq
  <2> DEFINE c == rows'[i].component
  <2>1. CASE i \in DOMAIN rows
    <3>1. rows'[i] = rows[i] /\ rows[i].before < i /\ rows[i].before \in Nat /\ i \in 1 .. Len(rows)
      BY <1>2, <2>1, RowTypes DEF Inv, CheckInv
    <3>2. j \in Stored(c) /\ c = rows[i].component /\ j <= rows[i].before
      BY <1>2, <1>5, <1>8, <3>1
    <3>3. rows[j].seq < rows[i].seq
      BY <2>1, <3>2 DEF Inv, NoDowngradeAfterRegistration
    <3>4. PICK l \in Stored(c) : l < i /\ rows[l].key = rows[i].key /\ rows[j].seq <= rows[l].seq
      BY <2>1, <3>2 DEF Inv, OwnerContinues
    <3>5. rows'[j] = rows[j] /\ rows'[l] = rows[l] /\ l \in StoredNow(c)
      BY <1>2, <1>5, <3>2, <3>4
    <3> QED
      BY <3>1, <3>3, <3>4, <3>5
  <2>2. CASE i = n
    <3>1. rows'[i] = new /\ c = e.component /\ new.key = e.kid /\ new.seq = e.seq
          /\ new.before = up[u].before /\ up[u].before \in Nat
      BY <1>0, <1>2, <2>2 DEF new, UploadState
    <3>2. j \in Stored(c) /\ j <= up[u].before
      BY <1>0, <1>2, <1>5, <1>8, <3>1
    <3>3. rows[j].seq < e.seq
      BY <1>0, <3>1, <3>2 DEF Checked
    <3>4. PICK l \in Stored(c) : rows[l].key = e.kid /\ rows[j].seq <= rows[l].seq
      BY <1>0, <3>1, <3>2 DEF Checked
    <3>5. rows'[j] = rows[j] /\ rows'[l] = rows[l] /\ l \in StoredNow(c) /\ l < n
      BY <1>2, <1>5, <3>2, <3>4
    <3> QED
      BY <2>2, <3>1, <3>3, <3>4, <3>5
  <2> QED
    BY <1>2, <2>1, <2>2
<1>9. NoDowngradeAfterRegistration' /\ OwnerContinues'
  BY <1>8 DEF NoDowngradeAfterRegistration, OwnerContinues, Stored
<1> QED
  BY <1>3, <1>7, <1>9 DEF Inv

\* Every step keeps the invariant.
LEMMA NextInv == Inv /\ [Next]_vars => Inv'
<1> SUFFICES ASSUME Inv, [Next]_vars PROVE Inv'
  OBVIOUS
<1>0. /\ up \in [Uploads -> UploadState] /\ rows \in Seq(Row) /\ Len(rows) \in Nat
      /\ \A u \in Uploads :
            /\ up[u].before \in Nat /\ up[u].before <= Len(rows)
            /\ up[u].pc # "idle" => up[u].env # None
            /\ up[u].pc \in {"findByKID", "getManifest", "create"} => up[u].env.kid \in Trusted
            /\ up[u].pc = "create" => Checked(u)
  BY DEF Inv, TypeOK, CheckInv, UploadState
<1>i. Idle \in UploadState /\ Idle.pc = "idle" /\ Idle.before = 0
  BY DEF Idle, UploadState
<1>1. ASSUME NEW u \in Uploads, NEW q \in UploadState, up' = [up EXCEPT ![u] = q], UNCHANGED rows,
             q.before <= Len(rows), q.pc # "idle" => q.env # None,
             q.pc \in {"findByKID", "getManifest", "create"} => q.env.kid \in Trusted,
             q.pc = "create" => Checked(u)'
      PROVE  Inv'
  <2>1. up' \in [Uploads -> UploadState] /\ up'[u] = q /\ \A x \in Uploads \ {u} : up'[x] = up[x]
    BY <1>0, <1>1
  <2>2. \A x \in Uploads \ {u} : Checked(x) => Checked(x)'
    BY <1>1, <2>1 DEF Checked, Stored
  <2> QED
    BY <1>0, <1>1, <2>1, <2>2, ReadOnlyInv
<1>2. ASSUME NEW u \in Uploads, End(u), UNCHANGED rows PROVE Inv'
  <2>1. Idle.before <= Len(rows) /\ up' = [up EXCEPT ![u] = Idle]
    BY <1>0, <1>2, <1>i DEF End
  <2> QED
    BY <1>1, <1>2, <1>i, <2>1
<1>3. ASSUME NEW u \in Uploads, NEW l \in {"findByKID", "getManifest", "create"},
             Goto(u, l), UNCHANGED rows, up[u].env # None, up[u].env.kid \in Trusted,
             l = "create" => Checked(u)
      PROVE  Inv'
  <2> DEFINE q == [up[u] EXCEPT !.pc = l]
  <2>1. q \in UploadState /\ q.before = up[u].before /\ q.env = up[u].env /\ q.pc = l
    BY <1>0 DEF UploadState
  <2>2. up' = [up EXCEPT ![u] = q]
    BY <1>3 DEF Goto
  <2> HIDE DEF q
  <2>3. up'[u] = q
    BY <1>0, <2>2
  <2>4. Checked(u) => Checked(u)'
    BY <1>3, <2>1, <2>3 DEF Checked, Stored
  <2> QED
    BY <1>0, <1>1, <1>3, <2>1, <2>2, <2>4
<1>4. ASSUME NEW u \in Uploads, AddTCManifest(u) PROVE Inv'
  <2>1. PICK e \in Envelope :
          up' = [up EXCEPT ![u] = [pc |-> "getEntityKey", env |-> e, before |-> Len(rows)]]
    BY <1>4 DEF AddTCManifest
  <2> DEFINE q == [pc |-> "getEntityKey", env |-> e, before |-> Len(rows)]
  <2>2. q \in UploadState /\ q.before = Len(rows) /\ q.env = e /\ q.pc = "getEntityKey"
    BY <1>0 DEF UploadState
  <2>3. up' = [up EXCEPT ![u] = q] /\ UNCHANGED rows
    BY <1>4, <2>1 DEF AddTCManifest
  <2>4. e # None /\ q.before <= Len(rows)
    BY <1>0, <2>2, NoneAssumption
  <2> HIDE DEF q
  <2> QED
    BY <1>1, <2>2, <2>3, <2>4
<1>5. ASSUME NEW u \in Uploads, VerifyEnvelope(u) PROVE Inv'
  BY <1>0, <1>2, <1>3, <1>5 DEF VerifyEnvelope
<1>6. ASSUME NEW u \in Uploads, FindSigningKey(u) PROVE Inv'
  BY <1>0, <1>2, <1>3, <1>6 DEF FindSigningKey
<1>7. ASSUME NEW u \in Uploads, GetManifest(u) PROVE Inv'
  BY <1>0, <1>2, <1>3, <1>7, GetManifestChecks DEF GetManifest
<1>8. ASSUME NEW u \in Uploads, Create(u) PROVE Inv'
  BY <1>0, <1>2, <1>8, InsertInv DEF Create
<1>9. CASE Crash
  <2>1. up' = [u \in Uploads |-> Idle] /\ UNCHANGED rows
    BY <1>9 DEF Crash
  <2> QED
    BY <1>0, <1>i, <2>1, ReadOnlyInv
<1>10. CASE UNCHANGED vars
  BY <1>10 DEF vars, Inv, TypeOK, CheckInv, NoDowngradeAfterRegistration, OwnerContinues,
         Stored, Checked
<1> QED
  BY <1>4, <1>5, <1>6, <1>7, <1>8, <1>9, <1>10 DEF Next

\* Type correctness: whatever is uploaded, every stored row has a sequence number
\* below the limit and a trusted signing key.
THEOREM TypeCorrect == Spec => []TypeOK
<1>1. Inv => TypeOK
  BY DEF Inv
<1> QED
  BY <1>1, InitInv, NextInv, PTL DEF Spec

\* However uploads overlap and whenever the process crashes, a manifest that is
\* stored is newer than every manifest of its component whose registration was
\* over when the upload arrived (SetEnvelope's check-then-insert).
THEOREM NoDowngrade == Spec => []NoDowngradeAfterRegistration
<1>1. Inv => NoDowngradeAfterRegistration
  BY DEF Inv
<1> QED
  BY <1>1, InitInv, NextInv, PTL DEF Spec

\* ... and is signed with a key that the component already had by then or got
\* from an upload at least as new.
THEOREM OwnerKept == Spec => []OwnerContinues
<1>1. Inv => OwnerContinues
  BY DEF Inv
<1> QED
  BY <1>1, InitInv, NextInv, PTL DEF Spec
=============================================================================
