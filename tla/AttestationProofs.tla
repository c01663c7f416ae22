------------------------- MODULE AttestationProofs -------------------------
(***************************************************************************)
(* Proofs about Attestation, for any number of overlapping calls: the      *)
(* calls use the collateral cache as CollateralCache says, evidence        *)
(* reaches the Verifier of its format, and the calls implement Appraisal.  *)
(***************************************************************************)
EXTENDS Attestation, CollateralCacheProofs

-----------------------------------------------------------------------------
(***************************************************************************)
(* The calls and the cache.                                                *)
(***************************************************************************)

\* A call of Process that ends forgets its locals.
LEMMA IdleStep ==
  ASSUME TypeOK, IdleInv, [Next]_vars
  PROVE  IdleInv'
<1>1. ASSUME NEW v \in Verifications, NEW q, run' = [run EXCEPT ![v] = q],
             q.pc = "idle" => q = Idle
      PROVE  IdleInv'
  BY <1>1 DEF TypeOK, IdleInv, At
<1>i. ASSUME NEW v \in Verifications, Return(v) PROVE IdleInv'
  BY <1>1, <1>i DEF Return
<1>g. ASSUME NEW v \in Verifications, NEW l \in {"remove", "fetch"}, Goto(v, l)
      PROVE  IdleInv'
  <2>1. [run[v] EXCEPT !.pc = l].pc = l
    BY DEF TypeOK, RunState
  <2>2. run' = [run EXCEPT ![v] = [run[v] EXCEPT !.pc = l]]
    BY <1>g DEF Goto
  <2> QED
    BY <1>1, <2>1, <2>2
<1>e. ASSUME NEW v \in Verifications, EndPut(v) PROVE IdleInv'
  <2>1. [run[v] EXCEPT !.pc = "verify", !.temp = "none", !.entry = None].pc = "verify"
    BY DEF TypeOK, RunState
  <2> QED
    BY <1>1, <1>e, <2>1 DEF EndPut
<1>2. ASSUME NEW v \in Verifications, Process(v) PROVE IdleInv'
  <2>1. PICK q \in Quote : run' = [run EXCEPT ![v] = [Idle EXCEPT !.pc = "get", !.quote = q]]
    BY <1>2 DEF Process
  <2>2. [Idle EXCEPT !.pc = "get", !.quote = q].pc = "get"
    BY DEF Idle
  <2> QED
    BY <1>1, <2>1, <2>2
<1>3. ASSUME NEW v \in Verifications, Get(v) PROVE IdleInv'
  <2>1. ASSUME NEW c, run' = [run EXCEPT ![v] = [@ EXCEPT !.pc = "verify", !.coll = c]]
        PROVE  IdleInv'
    <3>1. [run[v] EXCEPT !.pc = "verify", !.coll = c].pc = "verify"
      BY DEF TypeOK, RunState
    <3> QED
      BY <1>1, <2>1, <3>1
  <2> QED
    BY <1>3, <1>i, <1>g, <2>1 DEF Get
<1>4. ASSUME NEW v \in Verifications, Fetch(v) PROVE IdleInv'
  <2>1. ASSUME NEW c, run' = [run EXCEPT ![v] = [@ EXCEPT !.pc = "put", !.coll = c]]
        PROVE  IdleInv'
    <3>1. [run[v] EXCEPT !.pc = "put", !.coll = c].pc = "put"
      BY DEF TypeOK, RunState
    <3> QED
      BY <1>1, <2>1, <3>1
  <2> QED
    BY <1>4, <1>i, <2>1 DEF Fetch
<1>5. ASSUME NEW v \in Verifications, CreateTemp(v) PROVE IdleInv'
  <2>1. ASSUME NEW e, run' = [run EXCEPT ![v] = [@ EXCEPT !.temp = "empty", !.entry = e]]
        PROVE  IdleInv'
    <3>1. [run[v] EXCEPT !.temp = "empty", !.entry = e].pc = "put"
      BY <1>5 DEF CreateTemp, At, TypeOK, RunState
    <3> QED
      BY <1>1, <2>1, <3>1
  <2> QED
    BY <1>5, <1>e, <2>1 DEF CreateTemp
<1>6. ASSUME NEW v \in Verifications, WriteTemp(v) PROVE IdleInv'
  <2>1. [run[v] EXCEPT !.temp = "written"].pc = "put"
    BY <1>6 DEF WriteTemp, At, TypeOK, RunState
  <2>2. CASE run' = [run EXCEPT ![v].temp = "written"]
    BY <1>1, <2>1, <2>2
  <2> QED
    BY <1>6, <1>e, <2>2 DEF WriteTemp
<1>7. ASSUME NEW v \in Verifications,
             Remove(v) \/ Rename(v) \/ VerifyQuote(v) \/ VerifyFails(v)
      PROVE  IdleInv'
  BY <1>7, <1>i, <1>g, <1>e DEF Remove, Rename, VerifyQuote, VerifyFails
<1>8. CASE Tick \/ UNCHANGED vars
  BY <1>8 DEF Tick, vars, IdleInv, At
<1>9. CASE Crash
  BY <1>9 DEF Crash, IdleInv
<1> QED
  BY <1>2, <1>3, <1>4, <1>5, <1>6, <1>7, <1>8, <1>9 DEF Next

\* A step of the calls is, on the cache, a step of CollateralCache: a restart
\* is a crash there, or nothing when no Process was running.
LEMMA AttStep ==
  ASSUME TypeOK, IdleInv, [AttNext]_attVars
  PROVE  [Next]_vars
<1>1. ASSUME NEW v \in Verifications, SelectVerifier(v) PROVE [Next]_vars
  <2>1. CASE UNCHANGED run
    BY <1>1, <2>1 DEF SelectVerifier, vars
  <2>2. CASE Process(v)
    BY <2>2 DEF Next
  <2> QED
    BY <1>1, <2>1, <2>2 DEF SelectVerifier, CallProcess
<1>2. ASSUME NEW v \in Verifications, QVLWorks(v) \/ QVLAppraises(v) PROVE [Next]_vars
  BY <1>2 DEF QVLWorks, QVLAppraises, Next
<1>3. ASSUME NEW v \in Verifications,
             \/ SubmitAttestationPayload(v) \/ SelectFails(v) \/ CreateSession(v)
             \/ SubmitPayload(v) \/ ExchangeFails(v) \/ TakeAnswer(v)
      PROVE  [Next]_vars
  BY <1>3 DEF SubmitAttestationPayload, SelectFails, CreateSession, SubmitPayload,
     ExchangeFails, TakeAnswer
<1>4. CASE TimePasses
  BY <1>4 DEF TimePasses, Next
<1>5. CASE Restart
  <2>1. CASE \E v \in Verifications : ~At(v, "idle")
    BY <1>5, <2>1 DEF Restart, Crash, Next
  <2>2. CASE \A v \in Verifications : At(v, "idle")
    <3>1. run' = run
      BY <1>5, <2>2 DEF Restart, IdleInv, TypeOK
    <3> QED
      BY <1>5, <3>1 DEF Restart, vars
  <2> QED
    BY <2>1, <2>2
<1>6. CASE UNCHANGED attVars
  BY <1>6 DEF attVars
<1> QED
  BY <1>1, <1>2, <1>3, <1>4, <1>5, <1>6 DEF AttNext

\* The calls of submitAttestationPayload use the cache as CollateralCache says,
\* restarts included, so all that is proved of the cache holds for them.
THEOREM CallsUseCache == AttSpec => Spec
<1>1. AttInit => Init /\ Inv /\ IdleInv
  <2> SUFFICES ASSUME AttInit PROVE Init /\ Inv /\ IdleInv
    OBVIOUS
  <2>1. Init
    BY DEF AttInit
  <2>2. IdleInv
    BY <2>1 DEF Init, IdleInv
  <2> QED
    BY <2>1, <2>2, InitInv
<1>2. Inv /\ IdleInv /\ [AttNext]_attVars => [Next]_vars
  BY AttStep DEF Inv
<1>3. Inv /\ IdleInv /\ [Next]_vars => Inv' /\ IdleInv'
  BY NextInv, IdleStep DEF Inv
<1> QED
  BY <1>1, <1>2, <1>3, PTL DEF AttSpec, Spec

\* Under concurrent calls, kept Verifiers, failures and restarts a quote is
\* appraised with collateral of its own platform and PCK issuer, and no cache
\* file is unreadable.
THEOREM CallsAppraiseWithGoodCollateral ==
    AttSpec => []CollateralMatchesQuote /\ []CacheIsReadable
  BY CallsUseCache, CollateralMatches, CacheStaysReadable, PTL

-----------------------------------------------------------------------------
(***************************************************************************)
(* The calls and the Verifiers.                                            *)
(***************************************************************************)

\* What a step of call v makes of it: nothing, or q.
Becomes(v, q) == call' = [call EXCEPT ![v] = q]

\* All that is said of calls and resolver.
AttInv == ResolverInv /\ CallInv /\ EvidenceReachesItsVerifier

\* Where a call may go and what it takes along.
CallFits(q) ==
  /\ q \in CallState /\ CallOK(q)
  /\ q.pc \in {"session", "submit"} => q.payload.format # "sgx"
  /\ q.pc = "qvl" => q.payload.format = "sgx"

LEMMA BecomesInv ==
  ASSUME CallInv, EvidenceReachesItsVerifier, NEW v \in Verifications, NEW q, CallFits(q),
         Becomes(v, q)
  PROVE  CallInv' /\ EvidenceReachesItsVerifier'
<1>1. CallInv'
  BY DEF CallInv, Becomes, CallFits
<1>2. \A w \in Verifications : call'[w] = IF w = v THEN q ELSE call[w]
  BY DEF CallInv, Becomes
<1>3. EvidenceReachesItsVerifier'
  BY <1>2 DEF EvidenceReachesItsVerifier, CallFits, CallAt
<1> QED
  BY <1>1, <1>3

\* A call that ends answers Appraisal, soundly.
LEMMA EndStep ==
  ASSUME AttInv, NEW v \in Verifications, call[v].pc \notin {"idle", "answered"},
         NEW answer \in Answer, NEW found \in {"good", "bad", "nothing"},
         answer = "affirming" => found = "good", End(v, answer, found)
  PROVE  CallInv' /\ EvidenceReachesItsVerifier' /\ A!Answer(v)
<1> DEFINE res == [answer |-> answer, found |-> found]
           q == [call[v] EXCEPT !.pc = "answered", !.result = res]
<1>0. call \in [Verifications -> CallState] /\ call[v] \in CallState /\ CallOK(call[v])
  BY DEF AttInv, CallInv
<1>1. call[v].payload \in Payload /\ call[v].payload # None /\ call[v].result = NoResult
  BY <1>0, AbsentAssumption DEF CallOK
<1>2. res \in Result /\ res.answer \in Answer /\ res # NoResult
  BY DEF Result, NoResult, Answer
<1> HIDE DEF res
<1>3. q \in CallState /\ q.pc = "answered" /\ q.payload = call[v].payload /\ q.result = res
  BY <1>0, <1>2 DEF CallState
<1>4. call' = [call EXCEPT ![v] = q]
  BY DEF End, res
<1> HIDE DEF q
<1>5. CallFits(q)
  BY <1>1, <1>2, <1>3 DEF CallFits, CallOK
<1>6. CallInv' /\ EvidenceReachesItsVerifier'
  BY <1>4, <1>5, BecomesInv DEF AttInv, Becomes
<1>7. \A w \in Verifications : call'[w] = IF w = v THEN q ELSE call[w]
  BY <1>0, <1>4
<1>8. A!Answer(v)
  <2>1. Outcome(call[v].result) = A!Pending
    BY <1>1 DEF Outcome, NoResult, A!Pending
  <2>2. Outcome(call'[v].result) = Outcome(res)
    BY <1>3, <1>7
  <2>3. Outcome(res) \in A!Result /\ A!Sound(Outcome(res))
    BY DEF Outcome, res, Answer, A!Result, A!Sound
  <2>4. [w \in Verifications |-> call'[w].payload] = [w \in Verifications |-> call[w].payload]
    BY <1>3, <1>7
  <2>5. [w \in Verifications |-> Outcome(call'[w].result)]
          = [[w \in Verifications |-> Outcome(call[w].result)] EXCEPT ![v] = Outcome(call'[v].result)]
    BY <1>7
  <2> QED
    BY <1>1, <2>1, <2>2, <2>3, <2>4, <2>5 DEF A!Answer
<1> QED
  BY <1>6, <1>8

\* A call that goes on is nothing to Appraisal.
LEMMA GoOnStep ==
  ASSUME AttInv, NEW v \in Verifications, call[v].pc \notin {"idle", "answered"},
         NEW l \in {"session", "submit", "qvl"}, Step(v, l),
         IF l = "qvl" THEN call[v].payload.format = "sgx" ELSE call[v].payload.format # "sgx"
  PROVE  CallInv' /\ EvidenceReachesItsVerifier' /\ UNCHANGED A!vars
<1> DEFINE q == [call[v] EXCEPT !.pc = l]
<1>0. call \in [Verifications -> CallState] /\ call[v] \in CallState /\ CallOK(call[v])
  BY DEF AttInv, CallInv
<1>1. q \in CallState /\ q.pc = l /\ q.payload = call[v].payload /\ q.result = call[v].result
  BY <1>0 DEF CallState
<1>2. call' = [call EXCEPT ![v] = q]
  BY DEF Step
<1> HIDE DEF q
<1>3. CallFits(q)
  BY <1>0, <1>1 DEF CallFits, CallOK
<1>4. CallInv' /\ EvidenceReachesItsVerifier'
  BY <1>2, <1>3, BecomesInv DEF AttInv, Becomes
<1>5. \A w \in Verifications : call'[w] = IF w = v THEN q ELSE call[w]
  BY <1>0, <1>2
<1>6. /\ [w \in Verifications |-> call'[w].payload] = [w \in Verifications |-> call[w].payload]
      /\ [w \in Verifications |-> Outcome(call'[w].result)]
           = [w \in Verifications |-> Outcome(call[w].result)]
  BY <1>1, <1>5
<1> QED
  BY <1>4, <1>6 DEF A!vars

\* A call begins.
LEMMA SubmitStep ==
  ASSUME AttInv, NEW v \in Verifications, SubmitAttestationPayload(v)
  PROVE  CallInv' /\ EvidenceReachesItsVerifier' /\ A!Submit(v)
<1>0. call \in [Verifications -> CallState] /\ call[v] \in CallState /\ CallOK(call[v])
  BY DEF AttInv, CallInv
<1>1. call[v].pc = "idle" /\ call[v].payload = None /\ call[v].result = NoResult
  BY <1>0 DEF SubmitAttestationPayload, CallAt, CallOK
<1>2. PICK p \in Payload : call' = [call EXCEPT ![v] = [call[v] EXCEPT !.pc = "select", !.payload = p]]
  BY DEF SubmitAttestationPayload
<1> DEFINE q == [call[v] EXCEPT !.pc = "select", !.payload = p]
<1>3. q \in CallState /\ q.pc = "select" /\ q.payload = p /\ q.result = NoResult
  BY <1>0, <1>1 DEF CallState
<1>4. call' = [call EXCEPT ![v] = q]
  BY <1>2
<1> HIDE DEF q
<1>5. CallFits(q)
  BY <1>3 DEF CallFits, CallOK
<1>6. CallInv' /\ EvidenceReachesItsVerifier'
  BY <1>4, <1>5, BecomesInv DEF AttInv, Becomes
<1>7. \A w \in Verifications : call'[w] = IF w = v THEN q ELSE call[w]
  BY <1>0, <1>4
<1>8. /\ call'[v].payload = p
      /\ [w \in Verifications |-> call'[w].payload]
           = [[w \in Verifications |-> call[w].payload] EXCEPT ![v] = p]
      /\ [w \in Verifications |-> Outcome(call'[w].result)]
           = [w \in Verifications |-> Outcome(call[w].result)]
  BY <1>1, <1>3, <1>7
<1> QED
  BY <1>1, <1>6, <1>8 DEF A!Submit

\* The request takes the answer of a call.
LEMMA TakeStep ==
  ASSUME AttInv, NEW v \in Verifications, TakeAnswer(v)
  PROVE  CallInv' /\ EvidenceReachesItsVerifier' /\ A!Take(v)
<1>0. call \in [Verifications -> CallState] /\ call[v] \in CallState /\ CallOK(call[v])
  BY DEF AttInv, CallInv
<1>1. call[v].result.answer \in Answer /\ call[v].result \in Result
  BY <1>0 DEF TakeAnswer, CallAt, CallOK, CallState
<1>2. call' = [call EXCEPT ![v] = NoCall]
  BY DEF TakeAnswer
<1>3. /\ NoCall \in CallState /\ CallFits(NoCall)
      /\ NoCall.payload = None /\ NoCall.result = NoResult
  BY DEF NoCall, CallState, NoResult, Result, CallFits, CallOK
<1>4. CallInv' /\ EvidenceReachesItsVerifier'
  BY <1>2, <1>3, BecomesInv DEF AttInv, Becomes
<1>5. \A w \in Verifications : call'[w] = IF w = v THEN NoCall ELSE call[w]
  BY <1>0, <1>2
<1>6. Outcome(call[v].result) # A!Pending /\ Outcome(NoResult) = A!Pending
  BY <1>1 DEF Outcome, Answer, Result, NoResult, A!Pending
<1>7. /\ [w \in Verifications |-> call'[w].payload]
           = [[w \in Verifications |-> call[w].payload] EXCEPT ![v] = None]
      /\ [w \in Verifications |-> Outcome(call'[w].result)]
           = [[w \in Verifications |-> Outcome(call[w].result)] EXCEPT ![v] = A!Pending]
  BY <1>3, <1>5, <1>6
<1> QED
  BY <1>4, <1>6, <1>7 DEF A!Take

\* The resolver hands out, and keeps, a Verifier of the backend asked for.
LEMMA SelectStep ==
  ASSUME AttInv, NEW v \in Verifications, SelectVerifier(v)
  PROVE  AttInv' /\ (A!Answer(v) \/ UNCHANGED A!vars)
<1> DEFINE p == call[v].payload
           b == Backend(p)
           x == IF Kept(b) # None THEN Kept(b) ELSE NewVerifierForBackend(b)
<1>1. call[v].pc = "select" /\ p \in Payload
  BY DEF SelectVerifier, CallAt, AttInv, CallInv, CallOK
<1>2. p.format \in {"sgx", "eat"} /\ b = IF p.format = "sgx" THEN "intel-qvl" ELSE "veraison"
  BY <1>1 DEF Payload, Backend
<1>3. verifiers \in [Backends -> Verifiers \cup {None}] /\ b \in Backends
  BY <1>2 DEF AttInv, ResolverInv, Backends
<1>4. (x = "qvl" \/ x \in {"client", "typedNil", None}) /\ x \in Verifiers \cup {None}
  BY <1>3 DEF Kept, NewVerifierForBackend, Verifiers
<1>5. x = "qvl" <=> p.format = "sgx"
  BY <1>2, <1>3 DEF Kept, NewVerifierForBackend, AttInv, ResolverInv
<1>6. verifiers' = [verifiers EXCEPT ![b] = x]
  BY DEF SelectVerifier
<1>7. (CallProcess(v, x) \/ (b = "intel-qvl" /\ End(v, "error", "nothing")))
  BY DEF SelectVerifier
<1> HIDE DEF x, b
<1>8. ResolverInv'
  <2>1. x \in Verifiers \cup {None} /\ (b = "intel-qvl" => x = "qvl") /\ (b = "veraison" => x # "qvl")
    BY <1>2, <1>4, <1>5 DEF Verifiers
  <2> QED
    BY <1>3, <1>6, <2>1 DEF AttInv, ResolverInv, Backends
<1>9. ASSUME NEW answer \in Answer \ {"affirming"}, End(v, answer, "nothing")
      PROVE  CallInv' /\ EvidenceReachesItsVerifier' /\ A!Answer(v)
  BY <1>1, <1>9, EndStep
<1>10. CASE x \in {None, "typedNil"} /\ End(v, IF IsNil(x) THEN "notConfigured" ELSE "panic", "nothing")
  BY <1>8, <1>9, <1>10 DEF AttInv, Answer
<1>11. CASE x = "client" /\ Step(v, "session")
  <2>1. CallInv' /\ EvidenceReachesItsVerifier' /\ UNCHANGED A!vars
    BY <1>1, <1>5, <1>11, GoOnStep
  <2> QED
    BY <1>8, <2>1 DEF AttInv
<1>12. CASE x = "qvl" /\ Step(v, "qvl")
  <2>1. CallInv' /\ EvidenceReachesItsVerifier' /\ UNCHANGED A!vars
    BY <1>1, <1>5, <1>12, GoOnStep
  <2> QED
    BY <1>8, <2>1 DEF AttInv
<1>13. CASE End(v, "error", "nothing")
  BY <1>8, <1>9, <1>13 DEF AttInv, Answer
<1> QED
  BY <1>7, <1>10, <1>11, <1>12, <1>13 DEF CallProcess

\* An answer that is decoded as affirming comes from a completed appraisal.
LEMMA DecodedSound ==
  ASSUME NEW r \in Response, NEW found \in {"good", "bad"}, MaySay(r, found),
         Decoded(r) = "affirming"
  PROVE  found = "good"
  BY DEF Decoded, EarStatus, MaySay, Submods, Response

\* Every step of the calls keeps AttInv and is a step of Appraisal or none.
LEMMA AttInvStep ==
  ASSUME AttInv, [AttNext]_attVars
  PROVE  AttInv' /\ [A!Next]_(A!vars)
<1>1. ASSUME UNCHANGED verifiers, CallInv', EvidenceReachesItsVerifier' PROVE AttInv'
  BY <1>1 DEF AttInv, ResolverInv
<1>2. ASSUME NEW v \in Verifications, SubmitAttestationPayload(v) \/ TakeAnswer(v)
      PROVE  AttInv' /\ [A!Next]_(A!vars)
  <2>1. UNCHANGED verifiers
    BY <1>2 DEF SubmitAttestationPayload, TakeAnswer
  <2> QED
    BY <1>1, <1>2, <2>1, SubmitStep, TakeStep DEF A!Next
<1>3. ASSUME NEW v \in Verifications, SelectVerifier(v)
      PROVE  AttInv' /\ [A!Next]_(A!vars)
  BY <1>3, SelectStep DEF A!Next
<1>4. ASSUME NEW v \in Verifications, call[v].pc \notin {"idle", "answered"},
             NEW answer \in Answer, NEW found \in {"good", "bad", "nothing"},
             answer = "affirming" => found = "good", End(v, answer, found), UNCHANGED verifiers
      PROVE  AttInv' /\ [A!Next]_(A!vars)
  BY <1>1, <1>4, EndStep DEF A!Next
<1>5. ASSUME NEW v \in Verifications, SelectFails(v) \/ ExchangeFails(v)
      PROVE  AttInv' /\ [A!Next]_(A!vars)
  <2>1. /\ call[v].pc \notin {"idle", "answered"}
        /\ End(v, "error", "nothing") /\ UNCHANGED verifiers
    BY <1>5 DEF SelectFails, ExchangeFails, CallAt
  <2> QED
    BY <1>4, <2>1 DEF Answer
<1>6. ASSUME NEW v \in Verifications, CreateSession(v)
      PROVE  AttInv' /\ [A!Next]_(A!vars)
  <2>1. call[v].pc = "session" /\ Step(v, "submit") /\ UNCHANGED verifiers
    BY <1>6 DEF CreateSession, CallAt
  <2>2. call[v].payload.format # "sgx"
    BY <2>1 DEF AttInv, EvidenceReachesItsVerifier
  <2> QED
    BY <1>1, <2>1, <2>2, GoOnStep
<1>7. ASSUME NEW v \in Verifications, SubmitPayload(v)
      PROVE  AttInv' /\ [A!Next]_(A!vars)
  <2>1. call[v].pc = "submit" /\ UNCHANGED verifiers
    BY <1>7 DEF SubmitPayload, CallAt
  <2>2. PICK r \in Response, found \in {"good", "bad"} :
            MaySay(r, found) /\ End(v, Decoded(r), found)
    BY <1>7 DEF SubmitPayload
  <2>3. Decoded(r) \in Answer
    BY DEF Decoded, Answer
  <2>4. Decoded(r) = "affirming" => found = "good"
    BY <2>2, DecodedSound
  <2> QED
    BY <1>4, <2>1, <2>2, <2>3, <2>4
<1>8. ASSUME NEW v \in Verifications, QVLWorks(v)
      PROVE  AttInv' /\ [A!Next]_(A!vars)
  <2>1. call[v].pc = "qvl" /\ UNCHANGED verifiers /\ (End(v, "error", "nothing") \/ UNCHANGED call)
    BY <1>8 DEF QVLWorks, CallAt
  <2>2. CASE UNCHANGED call
    BY <2>1, <2>2 DEF AttInv, ResolverInv, CallInv, EvidenceReachesItsVerifier, CallAt, A!vars
  <2> QED
    BY <1>4, <2>1, <2>2 DEF Answer
<1>9. ASSUME NEW v \in Verifications, QVLAppraises(v)
      PROVE  AttInv' /\ [A!Next]_(A!vars)
  <2>1. /\ call[v].pc = "qvl" /\ UNCHANGED verifiers
        /\ End(v, "affirming", "good") \/ End(v, "other", "bad")
    BY <1>9 DEF QVLAppraises, CallAt
  <2> QED
    BY <1>4, <2>1 DEF Answer
<1>10. CASE TimePasses \/ UNCHANGED attVars
  <2>1. UNCHANGED <<verifiers, call>>
    BY <1>10 DEF TimePasses, attVars
  <2> QED
    BY <2>1 DEF AttInv, ResolverInv, CallInv, EvidenceReachesItsVerifier, CallAt, A!vars
<1>11. CASE Restart
  <2>1. call' = [v \in Verifications |-> NoCall] /\ verifiers' = [b \in Backends |-> None]
    BY <1>11 DEF Restart
  <2>2. NoCall \in CallState /\ CallFits(NoCall) /\ NoCall.payload = None
        /\ NoCall.result = NoResult /\ Outcome(NoResult) = A!Pending
    BY DEF NoCall, CallState, NoResult, Result, CallFits, CallOK, Outcome, A!Pending
  <2>3. \A v \in Verifications : call'[v] = NoCall
    BY <2>1
  <2>4. CallInv' /\ EvidenceReachesItsVerifier'
    BY <2>1, <2>2, <2>3 DEF CallInv, EvidenceReachesItsVerifier, CallFits, CallAt
  <2>5. ResolverInv'
    BY <2>1, AbsentAssumption DEF ResolverInv, Backends, Verifiers
  <2>6. A!Lose
    BY <2>2, <2>3 DEF A!Lose
  <2> QED
    BY <2>4, <2>5, <2>6 DEF AttInv, A!Next
<1> QED
  BY <1>2, <1>3, <1>5, <1>6, <1>7, <1>8, <1>9, <1>10, <1>11 DEF AttNext
\* AttInv holds at the start, where nothing is kept and nothing is asked.
LEMMA AttInvInit ==
  ASSUME AttInit
  PROVE  AttInv /\ A!Init
<1>1. call = [v \in Verifications |-> NoCall] /\ verifiers = [b \in Backends |-> None]
  BY DEF AttInit
<1>2. /\ NoCall \in CallState /\ CallFits(NoCall) /\ NoCall.payload = None
      /\ NoCall.result = NoResult /\ Outcome(NoResult) = A!Pending
  BY DEF NoCall, CallState, NoResult, Result, CallFits, CallOK, Outcome, A!Pending
<1>3. \A v \in Verifications : call[v] = NoCall
  BY <1>1
<1>4. CallInv /\ EvidenceReachesItsVerifier
  BY <1>1, <1>2, <1>3 DEF CallInv, EvidenceReachesItsVerifier, CallFits, CallAt
<1>5. ResolverInv
  BY <1>1, AbsentAssumption DEF ResolverInv, Backends, Verifiers
<1>6. A!Init
  BY <1>2, <1>3 DEF A!Init
<1> QED
  BY <1>4, <1>5, <1>6 DEF AttInv

\* Evidence is never handed to a Verifier of another format, whichever calls
\* share the resolver and whichever creations fail.
THEOREM EvidenceReaches == AttSpec => []EvidenceReachesItsVerifier
<1>1. AttInit => AttInv
  BY AttInvInit
<1>2. AttInv /\ [AttNext]_attVars => AttInv'
  BY AttInvStep
<1>3. AttInv => EvidenceReachesItsVerifier
  BY DEF AttInv
<1> QED
  BY <1>1, <1>2, <1>3, PTL DEF AttSpec

\* Refinement: the calls, with the resolver, the remote exchanges and the cache
\* they share, implement Appraisal: one answer per call, and an affirming one
\* only for evidence that a completed appraisal found good.
THEOREM AppraisalSound == AttSpec => AppraisalIsSound
<1>1. AttInit => AttInv /\ A!Init
  BY AttInvInit
<1>2. AttInv /\ [AttNext]_attVars => AttInv' /\ [A!Next]_(A!vars)
  BY AttInvStep
<1> QED
  BY <1>1, <1>2, PTL DEF AttSpec, AppraisalIsSound, A!Spec
=============================================================================
