---------------------------- MODULE Attestation ----------------------------
(***************************************************************************)
(* The appraisal of evidence: submitAttestationPayload and selectVerifier  *)
(* in internal/tam/tam.go, the Verifiers that the resolver creates and     *)
(* keeps, the client of the remote Verifier                                *)
(* (internal/infra/rats/verifier_client.go, attest_response.go) and, for   *)
(* an SGX quote, the Intel QVL backend of CollateralCache.                 *)
(*                                                                         *)
(* Calls come from the goroutines of the requests.  They share the map of  *)
(* the resolver, under a mutex, and the cache directory; a session with    *)
(* the remote Verifier belongs to one call.  A step is one resolution, one *)
(* HTTP exchange or one step of CollateralCache.                           *)
(***************************************************************************)
EXTENDS CollateralCache

VARIABLES
    configured,     \* the flag -challenge-server is not empty
    verifiers,      \* the map of newVerifierResolver
    call            \* the local state of each call of submitAttestationPayload

attVars == <<vars, configured, verifiers, call>>

Backends == {"veraison", "intel-qvl"}

\* Values of type IRAVerifier: the two Verifiers, and an interface that holds a
\* nil *VerifierClient, which is not nil itself.
Verifiers == {"client", "typedNil", "qvl"}

\* The evidence, by its format, and what the quote in a bundle names.
Payload == [format : {"sgx"}, quote : Quote] \cup [format : {"eat"}, quote : {None}]

ASSUME AbsentAssumption == None \notin Payload /\ None \notin Verifiers

\* result.answer is what submitAttestationPayload returns: a result that is
\* affirming or not ("other"), an error, ErrVerifierNotConfigured, or nothing,
\* because it panicked.  found is history: how an appraisal that was completed
\* found the evidence.
Answer == {"affirming", "other", "error", "notConfigured", "panic"}

Result == [answer : Answer \cup {"none"}, found : {"good", "bad", "nothing"}]

NoResult == [answer |-> "none", found |-> "nothing"]

CallState == [pc      : {"idle", "select", "session", "submit", "qvl", "answered"},
              payload : Payload \cup {None},
              result  : Result]

NoCall == [pc |-> "idle", payload |-> None, result |-> NoResult]

AttTypeOK ==
    /\ TypeOK
    /\ configured \in BOOLEAN
    /\ verifiers \in [Backends -> Verifiers \cup {None}]
    /\ call \in [Verifications -> CallState]

AttInit ==
    /\ Init
    /\ configured \in BOOLEAN
    /\ verifiers = [b \in Backends |-> None]
    /\ call = [v \in Verifications |-> NoCall]

-----------------------------------------------------------------------------
\* VerifierBackendForAttestationPayloadFormat
Backend(p) == IF p.format = "sgx" THEN "intel-qvl" ELSE "veraison"

\* Fault: the resolver keeps one Verifier.
AnyKept(b) == IF verifiers[b] # None THEN verifiers[b]
              ELSE CHOOSE x \in {verifiers[k] : k \in Backends} :
                    x # None \/ \A k \in Backends : verifiers[k] = None

\* The Verifier that the resolver keeps for a backend, or None.
Kept(b) == verifiers[b]

\* NewVerifierForBackend; NewIntelQVLVerifier may also fail.
NewVerifierForBackend(b) ==
    IF b = "intel-qvl" THEN "qvl" ELSE IF configured THEN "client" ELSE "typedNil"

\* verifier == nil.  An interface that holds a nil pointer is not nil; Process
\* dereferences its receiver, and net/http recovers the panic and drops the
\* connection.
IsNil(x) == x = None

\* The remote Verifier's answer: its status, and the ear.status of each submod.
Submods == {"PSA_IOT", "GENERIC_EAT"}

Response == [status  : {"complete", "waiting"},
             submods : [Submods -> {"absent", "affirming", "contraindicated"}]]

\* extractEarStatus: the first of the two submods that is there.
EarStatus(r) ==
    IF r.submods["PSA_IOT"] # "absent" THEN r.submods["PSA_IOT"] ELSE r.submods["GENERIC_EAT"]

\* Fault: the result is read before the appraisal is complete.
DecodedAnyway(r) == IF EarStatus(r) = "affirming" THEN "affirming" ELSE "other"

\* DecodeAttestationResponse, selectUpdateArtifact: without the status complete
\* there is no EarStatus.
Decoded(r) ==
    IF r.status = "complete" /\ EarStatus(r) = "affirming" THEN "affirming" ELSE "other"

\* What the remote Verifier may say of evidence it finds good or bad: it affirms
\* bad evidence in no completed appraisal; what it reports on the way is open.
MaySay(r, found) ==
    r.status = "complete" /\ found = "bad" => \A s \in Submods : r.submods[s] # "affirming"

-----------------------------------------------------------------------------
CallAt(v, label) == call[v].pc = label

Step(v, label) == call' = [call EXCEPT ![v].pc = label]

End(v, answer, found) ==
    call' = [call EXCEPT ![v] = [@ EXCEPT !.pc = "answered",
                !.result = [answer |-> answer, found |-> found]]]

\* submitAttestationPayload is called with a payload that is not empty.
SubmitAttestationPayload(v) ==
    /\ CallAt(v, "idle")
    /\ \E p \in Payload : call' = [call EXCEPT ![v] = [@ EXCEPT !.pc = "select", !.payload = p]]
    /\ UNCHANGED <<vars, configured, verifiers>>

\* The goroutine reaches Process with verifier x.
CallProcess(v, x) ==
    \/ /\ x \in {None, "typedNil"}
       /\ End(v, IF IsNil(x) THEN "notConfigured" ELSE "panic", "nothing")
       /\ UNCHANGED run
    \/ /\ x = "client"
       /\ Step(v, "session")
       /\ UNCHANGED run
    \/ /\ x = "qvl"
       /\ Step(v, "qvl")
       /\ Process(v)
       /\ run'[v].quote = call[v].payload.quote

\* selectVerifier finds the Verifier kept for the backend or creates and keeps
\* one; then the check for nil, the decoding of an SGX bundle, which may fail,
\* and the call of Process.
SelectVerifier(v) ==
    LET b == Backend(call[v].payload)
        x == IF Kept(b) # None THEN Kept(b) ELSE NewVerifierForBackend(b)
    IN  /\ CallAt(v, "select")
        /\ verifiers' = [verifiers EXCEPT ![b] = x]
        /\ \/ CallProcess(v, x)
           \/ b = "intel-qvl" /\ End(v, "error", "nothing") /\ UNCHANGED run
        /\ UNCHANGED <<file, clock, appraised, configured>>

\* NewVerifierForBackend fails: nothing is kept.
SelectFails(v) ==
    /\ CallAt(v, "select")
    /\ Kept(Backend(call[v].payload)) = None
    /\ End(v, "error", "nothing")
    /\ UNCHANGED <<vars, configured, verifiers>>

\* createSession
CreateSession(v) ==
    /\ CallAt(v, "session")
    /\ Step(v, "submit")
    /\ UNCHANGED <<vars, configured, verifiers>>

\* submitPayload and DecodeAttestationResponse
SubmitPayload(v) ==
    /\ CallAt(v, "submit")
    /\ \E r \in Response, found \in {"good", "bad"} :
        /\ MaySay(r, found)
        /\ End(v, Decoded(r), found)
    /\ UNCHANGED <<vars, configured, verifiers>>

\* Either exchange fails: unreachable, not 201 or not 2xx, no Location, not
\* decoded, or the 60 seconds of the call are over.
ExchangeFails(v) ==
    /\ call[v].pc \in {"session", "submit"}
    /\ End(v, "error", "nothing")
    /\ UNCHANGED <<vars, configured, verifiers>>

-----------------------------------------------------------------------------
(***************************************************************************)
(* The Intel QVL backend, and the rest of the world.                       *)
(***************************************************************************)

\* A step of IntelQVLVerifier.Process before its result; an error ends it.
QVLWorks(v) ==
    /\ CallAt(v, "qvl")
    /\ \/ Get(v)
       \/ Remove(v)
       \/ Fetch(v)
       \/ CreateTemp(v)
       \/ WriteTemp(v)
       \/ Rename(v)
       \/ VerifyFails(v)
    /\ IF run'[v] = Idle THEN End(v, "error", "nothing") ELSE UNCHANGED call
    /\ UNCHANGED <<configured, verifiers>>

QVLAppraises(v) ==
    /\ CallAt(v, "qvl")
    /\ VerifyQuote(v)
    /\ \E result \in Results :
        IF IsAffirming(result, Outdated(run[v].coll, clock))
        THEN End(v, "affirming", "good") ELSE End(v, "other", "bad")
    /\ UNCHANGED <<configured, verifiers>>

\* The request goes on with the answer.
TakeAnswer(v) ==
    /\ CallAt(v, "answered")
    /\ call' = [call EXCEPT ![v] = NoCall]
    /\ UNCHANGED <<vars, configured, verifiers>>

TimePasses == Tick /\ UNCHANGED <<configured, verifiers, call>>

\* The process dies and is started again, perhaps with other flags.
Restart ==
    /\ run' = [v \in Verifications |-> Idle]
    /\ call' = [v \in Verifications |-> NoCall]
    /\ verifiers' = [b \in Backends |-> None]
    /\ configured' \in BOOLEAN
    /\ UNCHANGED <<file, clock, appraised>>

AttNext ==
    \/ \E v \in Verifications :
        \/ SubmitAttestationPayload(v)
        \/ SelectVerifier(v)
        \/ SelectFails(v)
        \/ CreateSession(v)
        \/ SubmitPayload(v)
        \/ ExchangeFails(v)
        \/ QVLWorks(v)
        \/ QVLAppraises(v)
        \/ TakeAnswer(v)
    \/ TimePasses
    \/ Restart

AttSpec == AttInit /\ [][AttNext]_attVars

-----------------------------------------------------------------------------
(***************************************************************************)
(* Properties.                                                             *)
(***************************************************************************)

\* Evidence is handed to the Verifier of its own format only, whichever call
\* made the resolver create and keep which Verifier first, and whichever
\* creation failed (newVerifierResolver).
EvidenceReachesItsVerifier ==
    \A v \in Verifications :
        /\ call[v].pc \in {"session", "submit"} => call[v].payload.format # "sgx"
        /\ CallAt(v, "qvl") => call[v].payload.format = "sgx"

\* The errors of a call are one to the handler, which answers none of them with
\* a TEEP message.
Outcome(r) ==
    IF r.answer \in {"notConfigured", "panic"} THEN [r EXCEPT !.answer = "error"] ELSE r

A == INSTANCE Appraisal WITH
        Calls <- Verifications,
        Payloads <- Payload,
        asked <- [v \in Verifications |-> call[v].payload],
        got <- [v \in Verifications |-> Outcome(call[v].result)]

\* The calls, with everything they share, look to the handler like the one step
\* TEEPSession makes of them: one answer, and an affirming one only for evidence
\* that a completed appraisal found good.
AppraisalIsSound == A!Spec

-----------------------------------------------------------------------------
(***************************************************************************)
(* What makes the properties inductive: the resolver keeps a Verifier      *)
(* under the backend it was made for, and a call has its payload from its  *)
(* start and its result at its end.                                        *)
(***************************************************************************)
ResolverInv ==
    /\ verifiers \in [Backends -> Verifiers \cup {None}]
    /\ verifiers["intel-qvl"] \in {None, "qvl"}
    /\ verifiers["veraison"] # "qvl"

CallOK(q) ==
    /\ q.payload \in IF q.pc = "idle" THEN {None} ELSE Payload
    /\ q.pc = "answered" => q.result.answer \in Answer
    /\ q.pc # "answered" => q.result = NoResult

CallInv ==
    /\ call \in [Verifications -> CallState]
    /\ \A v \in Verifications : CallOK(call[v])

\* A call of Process that has ended left nothing behind.
IdleInv == \A v \in Verifications : At(v, "idle") => run[v] = Idle
=============================================================================
