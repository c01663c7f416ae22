------------------------- MODULE ManifestRepository -------------------------
(***************************************************************************)
(* Registration of SUIT manifests: addTCManifest in                        *)
(* internal/server/handler.go, SetEnvelope in                              *)
(* internal/tam/manifest_repository_flow.go and the table suit_manifests.  *)
(*                                                                         *)
(* Every upload is served by a goroutine of its own.  The check of the     *)
(* sequence number and of the signing key reads the latest manifest of the *)
(* component in one statement, the row is inserted in another, no          *)
(* transaction surrounds them, and no UNIQUE column backs the check.       *)
(***************************************************************************)
EXTENDS Naturals, Sequences

CONSTANTS
    Uploads,      \* uploads that may be in flight at the same time
    Keys,         \* signing keys of TC developers
    Trusted,      \* keys in the table manifest_signing_keys
    Components,   \* trusted component identifiers
    SeqLimit,     \* stands for math.MaxInt64, which no stored number reaches
    MaxRows,      \* bound on the manifests stored
    None          \* no envelope

ASSUME KeyAssumption == Trusted \subseteq Keys
ASSUME LimitAssumption == SeqLimit \in Nat \ {0} /\ MaxRows \in Nat

\* kid is the key id of the authentication block, signer the key that made the
\* signature.  An upload that cannot be parsed, or whose manifest has not
\* exactly one component, ends with 400 and stores nothing.
Envelope == [component : Components, seq : 0 .. SeqLimit, kid : Keys, signer : Keys]

ASSUME NoneAssumption == None \notin Envelope

VARIABLES
    rows,         \* suit_manifests, in the order of their id
    up            \* the local state of each upload

vars == <<rows, up>>

\* before is history: how many manifests were stored when the upload arrived.
Row == [component : Components, seq : 0 .. SeqLimit - 1, key : Trusted, before : Nat]

UploadState == [pc     : {"idle", "getEntityKey", "findByKID", "getManifest", "create"},
                env    : Envelope \cup {None},
                before : Nat]

Idle == [pc |-> "idle", env |-> None, before |-> 0]

TypeOK ==
    /\ rows \in Seq(Row)
    /\ up \in [Uploads -> UploadState]

Init ==
    /\ rows = <<>>
    /\ up = [u \in Uploads |-> Idle]

-----------------------------------------------------------------------------
At(u, label) == up[u].pc = label

Goto(u, label) == up' = [up EXCEPT ![u].pc = label]

\* The upload ends, with "OK" or with 400 or 500.
End(u) == up' = [up EXCEPT ![u] = Idle]

Stored(c) == {i \in DOMAIN rows : rows[i].component = c}

\* FindLatestByTrustedComponentID: the row with the largest sequence number;
\* among equal ones SQLite may return any.
Latest(c) == {i \in Stored(c) : \A j \in Stored(c) : rows[j].seq <= rows[i].seq}

\* Fault: a manifest with the number of the stored one is accepted.
NewerOrEqual(i, e) == rows[i].seq <= e.seq

\* SetEnvelope: "existingManifest.SequenceNumber >= sequenceNumber" is refused.
Newer(i, e) == rows[i].seq < e.seq

\* Fault: the signing key is not compared.
AnyKey(i, e) == rows[i].key \in Keys

\* SetEnvelope: existingManifest.SigningKeyID = key.ID.
SameKey(i, e) == rows[i].key = e.kid

\* Fault: off by one.
FitsInclusive(e) == e.seq <= SeqLimit

\* SuitManifestRepository.Create refuses "m.SequenceNumber >= math.MaxInt64".
Fits(e) == e.seq < SeqLimit

-----------------------------------------------------------------------------
\* POST /SUITManifestService/RegisterManifest arrives.
AddTCManifest(u) ==
    /\ At(u, "idle")
    /\ \E e \in Envelope :
        up' = [up EXCEPT ![u] = [pc |-> "getEntityKey", env |-> e, before |-> Len(rows)]]
    /\ UNCHANGED rows

\* GetEntityKey and envelope.Verify.
VerifyEnvelope(u) ==
    /\ At(u, "getEntityKey")
    /\ \/ up[u].env.kid \in Trusted /\ up[u].env.signer = up[u].env.kid /\ Goto(u, "findByKID")
       \/ End(u)
    /\ UNCHANGED rows

\* SetEnvelope: the TC developer certainly exists.
FindSigningKey(u) ==
    /\ At(u, "findByKID")
    /\ \/ up[u].env.kid \in Trusted /\ Goto(u, "getManifest")
       \/ End(u)
    /\ UNCHANGED rows

\* SetEnvelope: the latest manifest is read and the new one checked against it.
GetManifest(u) ==
    LET e == up[u].env
    IN  /\ At(u, "getManifest")
        /\ \/ Stored(e.component) = {} /\ Goto(u, "create")
           \/ \E i \in Latest(e.component) :
                Newer(i, e) /\ SameKey(i, e) /\ Goto(u, "create")
           \/ End(u)
        /\ UNCHANGED rows

\* SetEnvelope: the row is inserted, whatever was inserted since the check.
Create(u) ==
    LET e == up[u].env
    IN  /\ At(u, "create")
        /\ \/ /\ Fits(e)
              /\ Len(rows) < MaxRows
              /\ rows' = Append(rows, [component |-> e.component, seq |-> e.seq,
                                       key |-> e.kid, before |-> up[u].before])
           \/ UNCHANGED rows
        /\ End(u)

\* The process dies and is started again on the same database file.
Crash ==
    /\ \E u \in Uploads : ~At(u, "idle")
    /\ up' = [u \in Uploads |-> Idle]
    /\ UNCHANGED rows

Next ==
    \/ \E u \in Uploads :
        \/ AddTCManifest(u)
        \/ VerifyEnvelope(u)
        \/ FindSigningKey(u)
        \/ GetManifest(u)
        \/ Create(u)
    \/ Crash

Spec == Init /\ [][Next]_vars

-----------------------------------------------------------------------------
(***************************************************************************)
(* Properties.                                                             *)
(***************************************************************************)

\* A manifest is newer than every manifest of its component whose registration
\* was over when its own upload arrived: uploads that overlap may overtake each
\* other, but nobody goes back behind a registration that was acknowledged.
NoDowngradeAfterRegistration ==
    \A i \in DOMAIN rows : \A j \in Stored(rows[i].component) :
        j <= rows[i].before => rows[j].seq < rows[i].seq

\* Once a manifest of a component is registered, a later upload is signed with
\* a key under which a manifest of that component, at least as new, was stored.
OwnerContinues ==
    \A i \in DOMAIN rows : \A j \in Stored(rows[i].component) :
        j <= rows[i].before =>
            \E l \in Stored(rows[i].component) :
                l < i /\ rows[l].key = rows[i].key /\ rows[j].seq <= rows[l].seq

\* What doc/TAM_STATUS_SUIT_MANIFEST_REPOSITORY.md says of one component: every
\* manifest is newer than the ones stored before it, and all have one signer.
ComponentStreamIsOrdered ==
    \A i, j \in DOMAIN rows :
        i < j /\ rows[i].component = rows[j].component
            => rows[i].seq < rows[j].seq /\ rows[i].key = rows[j].key

-----------------------------------------------------------------------------
(***************************************************************************)
(* What makes the first two properties inductive: the outcome of the check *)
(* still holds for the manifests that were stored when the upload arrived, *)
(* whatever has been inserted since the check.                             *)
(***************************************************************************)
Checked(u) ==
    \A j \in Stored(up[u].env.component) : j <= up[u].before =>
        /\ rows[j].seq < up[u].env.seq
        /\ \E l \in Stored(up[u].env.component) :
                rows[l].key = up[u].env.kid /\ rows[j].seq <= rows[l].seq

CheckInv ==
    /\ \A i \in DOMAIN rows : rows[i].before < i
    /\ \A u \in Uploads :
        /\ up[u].before <= Len(rows)
        /\ ~At(u, "idle") => up[u].env # None
        /\ up[u].pc \in {"findByKID", "getManifest", "create"} => up[u].env.kid \in Trusted
        /\ At(u, "create") => Checked(u)
=============================================================================
