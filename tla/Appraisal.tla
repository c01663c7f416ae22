----------------------------- MODULE Appraisal -----------------------------
(***************************************************************************)
(* What the TEEP message handler relies on when it submits evidence        *)
(* (submitAttestationPayload): one answer per call, and an affirming one   *)
(* only if a Verifier has appraised this very evidence, to the end, and    *)
(* found it good.  In TEEPSession the whole call is one step,              *)
(* SubmitAttestationPayload.                                               *)
(***************************************************************************)
CONSTANTS
    Calls,      \* calls that may be in progress at the same time
    Payloads,   \* attestation payloads
    None        \* no payload

VARIABLES
    asked,      \* the evidence that a call was given, None between calls
    got         \* what came of it

vars == <<asked, got>>

\* found is what the Verifier found the evidence to be, "nothing" if it did not
\* come to an end.
Result == [answer : {"error", "affirming", "other"}, found : {"good", "bad", "nothing"}]

Pending == [answer |-> "none", found |-> "nothing"]

Sound(r) == r.answer = "affirming" => r.found = "good"

Init ==
    /\ asked = [c \in Calls |-> None]
    /\ got = [c \in Calls |-> Pending]

Submit(c) ==
    /\ asked[c] = None
    /\ asked'[c] \in Payloads
    /\ asked' = [asked EXCEPT ![c] = asked'[c]]
    /\ UNCHANGED got

Answer(c) ==
    /\ got[c] = Pending
    /\ asked[c] # None
    /\ got'[c] \in Result /\ Sound(got'[c])
    /\ got' = [got EXCEPT ![c] = got'[c]]
    /\ UNCHANGED asked

Take(c) ==
    /\ got[c] # Pending
    /\ asked' = [asked EXCEPT ![c] = None]
    /\ got' = [got EXCEPT ![c] = Pending]

\* The process is lost, and all calls with it.
Lose ==
    /\ asked' = [c \in Calls |-> None]
    /\ got' = [c \in Calls |-> Pending]

Next == (\E c \in Calls : Submit(c) \/ Answer(c) \/ Take(c)) \/ Lose

Spec == Init /\ [][Next]_vars
=============================================================================
