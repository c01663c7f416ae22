------------------------- MODULE TEEPSessionProofs -------------------------
(***************************************************************************)
(* Proofs about TEEPSession, for every set of requests, agents, tokens,    *)
(* challenges, components and messages.                                    *)
(***************************************************************************)
EXTENDS TEEPSession, TLAPS

-----------------------------------------------------------------------------
(***************************************************************************)
(* Types, and what the program counter says of the locals.                 *)
(***************************************************************************)

\* The state of a request that is not running is well formed.
LEMMA IdleOK == Idle \in RequestState /\ LocalOK(Idle)
<1>1. Idle \in RequestState
  BY DEF Idle, RequestState, Labels, NoMessage, SentMessage, EmptyBody
<1>2. LocalOK(Idle)
  BY DEF Idle, LocalOK, Composing, EmptyBody
<1> QED
  BY <1>1, <1>2

\* A request that continues in a well-formed local state, or ends, leaves all
\* requests well formed.
LEMMA ContinueOK ==
  ASSUME TypeOK, LocalInv, NEW r \in Requests, NEW state \in RequestState,
         state.pc # "idle" => LocalOK(state), Continue(r, state)
  PROVE  req' \in [Requests -> RequestState] /\ LocalInv'
<1> DEFINE new == IF state.pc = "idle" THEN Idle ELSE state
<1>1. new \in RequestState /\ LocalOK(new)
  BY IdleOK
<1>2. req' = [req EXCEPT ![r] = new]
  BY DEF Continue
<1> HIDE DEF new
<1> QED
  BY <1>1, <1>2 DEF TypeOK, LocalInv

\* Ending a request leaves all requests well formed.
LEMMA FailOK ==
  ASSUME TypeOK, LocalInv, NEW r \in Requests, Fail(r)
  PROVE  req' \in [Requests -> RequestState] /\ LocalInv'
<1> DEFINE new == [req[r] EXCEPT !.pc = "idle"]
<1>1. new \in RequestState /\ new.pc = "idle"
  BY DEF TypeOK, RequestState, Labels
<1>2. Continue(r, new)
  BY DEF Fail, Goto
<1> HIDE DEF new
<1> QED
  BY <1>1, <1>2, ContinueOK

\* The handler goes on at a label of its own, with the sender known where the
\* next step needs it.
LEMMA DispatchOK ==
  ASSUME NEW m, NEW k, NEW s
  PROVE  /\ Dispatch(m, k, s) \in
              {"idle", "newChallenge", "newToken", "verify", "handleReports"}
         /\ Dispatch(m, k, s) \in {"newToken", "handleReports"} => k # None
  BY DEF Dispatch

\* The empty database with idle requests is well formed.
LEMMA InitOK == Init => TypeOK /\ LocalInv
  BY IdleOK, AgentAssumption, SeqAssumption
     DEF Init, TypeOK, LocalInv, Nonces, UpdateRow, NoUpdate, Enrolment

USE DEF At

\* An arriving body leaves types and locals well formed (StartSession, Receive).
LEMMA ReceiveOK ==
  ASSUME TypeOK, LocalInv, NEW r \in Requests, StartSession(r) \/ Receive(r)
  PROVE  TypeOK' /\ LocalInv'
<1>1. PICK q \in RequestState : LocalOK(q) /\ req' = [req EXCEPT ![r] = q]
  <2>1. CASE StartSession(r)
    <3> DEFINE q == [Idle EXCEPT !.pc = "newToken"]
    <3>1. q \in RequestState /\ LocalOK(q)
      BY IdleOK DEF RequestState, Labels, LocalOK, Composing, Idle, EmptyBody
    <3> QED
      BY <2>1, <3>1 DEF StartSession
  <2>2. CASE Receive(r)
    <3>1. PICK m \in Messages :
            req' = [req EXCEPT ![r] = [Idle EXCEPT
                !.pc = "authenticate", !.msg = m,
                !.barred = (revoked \cup expired) \cap {m.kid, m.evidence.key}]]
      BY <2>2 DEF Receive
    <3> DEFINE q == [Idle EXCEPT
                !.pc = "authenticate", !.msg = m,
                !.barred = (revoked \cup expired) \cap {m.kid, m.evidence.key}]
    <3>2. m \in Message /\ (revoked \cup expired) \cap {m.kid, m.evidence.key} \in SUBSET Agents
      BY MessagesAssumption DEF TypeOK
    <3>3. q \in RequestState
      BY IdleOK, <3>2 DEF RequestState, Labels, Idle
    <3>4. LocalOK(q)
      BY DEF LocalOK, Composing, Idle
    <3> QED
      BY <3>1, <3>3, <3>4
  <2> QED
    BY <2>1, <2>2
<1>2. req' \in [Requests -> RequestState] /\ LocalInv'
  BY <1>1 DEF TypeOK, LocalInv
<1> QED
  BY <1>2 DEF TypeOK, StartSession, Receive, db

\* tryAuthenticate leaves agentKID absent or set to the kid of the message.
LEMMA AuthenticateOK ==
  ASSUME TypeOK, LocalInv, NEW r \in Requests, Authenticate(r)
  PROVE  TypeOK' /\ LocalInv'
<1>1. PICK ok \in BOOLEAN :
        Continue(r, [req[r] EXCEPT
            !.kid = IF ok /\ Authenticated(req[r].msg) THEN req[r].msg.kid ELSE None,
            !.pc  = "consumeToken"])
  BY DEF Authenticate
<1> DEFINE k == IF ok /\ Authenticated(req[r].msg) THEN req[r].msg.kid ELSE None
           q == [req[r] EXCEPT !.kid = k, !.pc = "consumeToken"]
<1>2. k \in Agents \cup {None}
  BY DEF TypeOK, RequestState, Message, EmptyBody
<1>3. q \in RequestState
  BY <1>2 DEF TypeOK, RequestState, Labels
<1>4. LocalOK(q)
  BY DEF TypeOK, RequestState, LocalInv, LocalOK, Composing, Authenticate
<1>5. req' \in [Requests -> RequestState] /\ LocalInv'
  BY <1>1, <1>3, <1>4, ContinueOK
<1> QED
  BY <1>5 DEF TypeOK, Authenticate, db

\* A request that only moves its program counter, to a label whose facts hold.
LEMMA GotoOK ==
  ASSUME TypeOK, LocalInv, NEW r \in Requests, NEW label \in Labels,
         label # "idle" => LocalOK([req[r] EXCEPT !.pc = label]), Goto(r, label)
  PROVE  req' \in [Requests -> RequestState] /\ LocalInv'
<1> DEFINE q == [req[r] EXCEPT !.pc = label]
<1>1. q \in RequestState /\ q.pc = label
  BY DEF TypeOK, RequestState
<1>2. Continue(r, q)
  BY DEF Goto
<1> HIDE DEF q
<1> QED
  BY <1>1, <1>2, ContinueOK DEF q

\* Spending the token leads to a lookup that has a token to look for.
LEMMA ConsumeTokenOK ==
  ASSUME TypeOK, LocalInv, NEW r \in Requests, ConsumeToken(r)
  PROVE  TypeOK' /\ LocalInv'
<1> DEFINE m == req[r].msg
           l == Dispatch(m, req[r].kid, NoMessage)
<1>0. /\ req[r] \in RequestState /\ LocalOK(req[r]) /\ req[r].pc = "consumeToken"
      /\ m.token \in Tokens \cup {None}
  BY DEF ConsumeToken, TypeOK, LocalInv, RequestState, Message, EmptyBody
<1>1. CASE m.token # None /\ nonce' = [nonce EXCEPT ![m.token] = "spent"] /\ Goto(r, "findSent")
  <2>1. LocalOK([req[r] EXCEPT !.pc = "findSent"])
    BY <1>0, <1>1 DEF LocalOK, Composing, RequestState
  <2>2. req' \in [Requests -> RequestState] /\ LocalInv'
    BY <1>1, <2>1, GotoOK DEF Labels
  <2>3. nonce' \in [Nonces -> {"unissued", "outstanding", "spent"}]
    BY <1>1 DEF TypeOK
  <2> QED
    BY <2>2, <2>3 DEF TypeOK, ConsumeToken
<1>2. CASE Goto(r, l) /\ UNCHANGED nonce
  <2>1. l \in Labels /\ l \in {"idle", "newChallenge", "newToken", "verify", "handleReports"}
        /\ (l \in {"newToken", "handleReports"} => req[r].kid # None)
    BY DispatchOK DEF Labels
  <2> HIDE DEF l
  <2>2. LocalOK([req[r] EXCEPT !.pc = l])
    BY <1>0, <2>1 DEF LocalOK, Composing, RequestState
  <2>3. req' \in [Requests -> RequestState] /\ LocalInv'
    BY <1>2, <2>1, <2>2, GotoOK
  <2> QED
    BY <1>2, <2>3 DEF TypeOK, ConsumeToken
<1> QED
  BY <1>1, <1>2 DEF ConsumeToken

\* What a token is found to stand for is a message of the TAM.
LEMMA SentWithTokenOK ==
  ASSUME NEW t \in Tokens
  PROVE  SentWithToken(t) \in SentMessage
  BY DEF SentWithToken, SentMessage, NoMessage

\* searchSentMessageWithToken dispatches only to calls whose inputs are there.
LEMMA FindSentOK ==
  ASSUME TypeOK, LocalInv, NEW r \in Requests, FindSent(r)
  PROVE  TypeOK' /\ LocalInv'
<1> DEFINE m == req[r].msg
<1>0. /\ req[r] \in RequestState /\ LocalOK(req[r]) /\ req[r].pc = "findSent"
      /\ m.token \in Tokens
  BY DEF FindSent, TypeOK, LocalInv, LocalOK
<1>1. PICK s \in {SentWithToken(m.token), NoMessage} :
        /\ Continue(r, [req[r] EXCEPT !.sent = s, !.pc = Dispatch(m, req[r].kid, s)])
        /\ answers' = IF s = NoMessage THEN answers ELSE [answers EXCEPT ![m.token] = @ + 1]
  BY DEF FindSent
<1> DEFINE l == Dispatch(m, req[r].kid, s)
           q == [req[r] EXCEPT !.sent = s, !.pc = l]
<1>2. s \in SentMessage
  BY <1>0, <1>1, SentWithTokenOK DEF NoMessage, SentMessage
<1>3. l \in Labels /\ l \in {"idle", "newChallenge", "newToken", "verify", "handleReports"}
        /\ (l \in {"newToken", "handleReports"} => req[r].kid # None)
  BY DispatchOK DEF Labels
<1>4. Continue(r, q)
  BY <1>1
<1> HIDE DEF l
<1>5. q \in RequestState
  BY <1>0, <1>2, <1>3 DEF RequestState
<1>6. LocalOK(q)
  BY <1>0, <1>3 DEF LocalOK, Composing, RequestState
<1>7. req' \in [Requests -> RequestState] /\ LocalInv'
  BY <1>4, <1>5, <1>6, ContinueOK
<1>8. answers' \in [Nonces -> Nat]
  BY <1>0, <1>1 DEF TypeOK, Nonces
<1> QED
  BY <1>7, <1>8 DEF TypeOK, FindSent, db

\* An affirming answer of the Verifier leads on only with a nonce to spend.
LEMMA SubmitOK ==
  ASSUME TypeOK, LocalInv, NEW r \in Requests, SubmitAttestationPayload(r)
  PROVE  TypeOK' /\ LocalInv'
<1> DEFINE e == req[r].msg.evidence
<1>0. /\ req[r] \in RequestState /\ LocalOK(req[r]) /\ req[r].pc = "verify"
      /\ e \in Evidence
  BY DEF SubmitAttestationPayload, TypeOK, LocalInv, RequestState, Message, EmptyBody,
         NoEvidence, Evidence
<1>1. CASE Fail(r)
  BY <1>1, FailOK DEF TypeOK, SubmitAttestationPayload, db
<1>2. CASE /\ "affirming" \in VerifierAnswers(e) /\ AttestationNonce(e) # None
           /\ Goto(r, "consumeChallenge")
  <2>1. e.key \in Genuine /\ AttestationNonce(e) \in Challenges
    BY <1>0, <1>2 DEF VerifierAnswers, AttestationNonce, Evidence
  <2>2. LocalOK([req[r] EXCEPT !.pc = "consumeChallenge"])
    BY <1>0, <2>1 DEF LocalOK, Composing, RequestState
  <2>3. req' \in [Requests -> RequestState] /\ LocalInv'
    BY <1>2, <2>2, GotoOK DEF Labels
  <2> QED
    BY <2>3 DEF TypeOK, SubmitAttestationPayload, db
<1> QED
  BY <1>1, <1>2 DEF SubmitAttestationPayload

\* Spending the challenge keeps the nonce for the lookup that follows.
LEMMA ConsumeChallengeOK ==
  ASSUME TypeOK, LocalInv, NEW r \in Requests, ConsumeChallenge(r)
  PROVE  TypeOK' /\ LocalInv'
<1> DEFINE c == AttestationNonce(req[r].msg.evidence)
<1>0. req[r] \in RequestState /\ LocalOK(req[r]) /\ req[r].pc = "consumeChallenge"
  BY DEF ConsumeChallenge, TypeOK, LocalInv
<1>1. CASE nonce' = [nonce EXCEPT ![c] = "spent"] /\ Goto(r, "findChallenge")
  <2>1. LocalOK([req[r] EXCEPT !.pc = "findChallenge"])
    BY <1>0 DEF LocalOK, Composing, RequestState
  <2>2. req' \in [Requests -> RequestState] /\ LocalInv'
    BY <1>1, <2>1, GotoOK DEF Labels
  <2>3. nonce' \in [Nonces -> {"unissued", "outstanding", "spent"}]
    BY <1>1 DEF TypeOK
  <2> QED
    BY <2>2, <2>3 DEF TypeOK, ConsumeChallenge
<1>2. CASE Fail(r) /\ UNCHANGED nonce
  BY <1>2, FailOK DEF TypeOK, ConsumeChallenge
<1> QED
  BY <1>1, <1>2 DEF ConsumeChallenge

\* A matched challenge leads on with an agentKID or with a proven attested key.
LEMMA FindChallengeOK ==
  ASSUME TypeOK, LocalInv, NEW r \in Requests, FindChallenge(r)
  PROVE  TypeOK' /\ LocalInv'
<1> DEFINE m == req[r].msg
           c == AttestationNonce(m.evidence)
           l == IF req[r].kid # None THEN AfterAttestation(m)
                ELSE IF ProvesAttestedKey(m) THEN "findKey" ELSE "idle"
           q == [req[r] EXCEPT !.sent = [type |-> "QueryRequest", token |-> None], !.pc = l]
<1>0. req[r] \in RequestState /\ LocalOK(req[r]) /\ req[r].pc = "findChallenge"
  BY DEF FindChallenge, TypeOK, LocalInv
<1>1. CASE answers' = [answers EXCEPT ![c] = @ + 1] /\ Continue(r, q)
  <2>1. /\ l \in {"findKey", "newToken", "idle"}
        /\ l = "findKey" => m.signer = m.evidence.key
        /\ l = "newToken" => req[r].kid # None
    BY DEF AfterAttestation, ProvesAttestedKey
  <2> HIDE DEF l
  <2>2. q \in RequestState
    BY <1>0, <2>1 DEF RequestState, SentMessage, Labels
  <2>3. LocalOK(q)
    BY <1>0, <2>1 DEF LocalOK, Composing, RequestState
  <2>4. req' \in [Requests -> RequestState] /\ LocalInv'
    BY <1>1, <2>2, <2>3, ContinueOK
  <2>5. answers' \in [Nonces -> Nat]
    <3>1. c \in Nonces
      BY <1>0 DEF LocalOK, Nonces
    <3> QED
      BY <1>1, <3>1 DEF TypeOK
  <2> QED
    BY <2>4, <2>5 DEF TypeOK, FindChallenge, db
<1>2. CASE Fail(r) /\ UNCHANGED answers
  BY <1>2, FailOK DEF TypeOK, FindChallenge, db
<1> QED
  BY <1>1, <1>2 DEF FindChallenge

\* setTEEPAgentKey ends with an agentKID, or goes on to insert a proven key.
LEMMA FindKeyOK ==
  ASSUME TypeOK, LocalInv, NEW r \in Requests, FindKey(r)
  PROVE  TypeOK' /\ LocalInv'
<1> DEFINE m == req[r].msg
           k == m.evidence.key
           l == AfterAttestation(m)
           q == [req[r] EXCEPT !.kid = k, !.pc = l]
<1>0. req[r] \in RequestState /\ LocalOK(req[r]) /\ req[r].pc = "findKey"
  BY DEF FindKey, TypeOK, LocalInv
<1>1. CASE k \in agents \ expired /\ Continue(r, q)
  <2>1. l \in {"newToken", "idle"} /\ k \in Agents
    BY <1>1 DEF AfterAttestation, TypeOK
  <2> HIDE DEF l, k
  <2>2. q \in RequestState
    BY <1>0, <2>1 DEF RequestState, Labels
  <2>3. LocalOK(q)
    BY <1>0, <2>1 DEF LocalOK, Composing, RequestState
  <2>4. req' \in [Requests -> RequestState] /\ LocalInv'
    BY <1>1, <2>2, <2>3, ContinueOK
  <2> QED
    BY <2>4 DEF TypeOK, FindKey, db
<1>2. CASE Goto(r, "createKey")
  <2>1. LocalOK([req[r] EXCEPT !.pc = "createKey"])
    BY <1>0 DEF LocalOK, Composing, RequestState
  <2>2. req' \in [Requests -> RequestState] /\ LocalInv'
    BY <1>2, <2>1, GotoOK DEF Labels
  <2> QED
    BY <2>2 DEF TypeOK, FindKey, db
<1>3. CASE Fail(r)
  BY <1>3, FailOK DEF TypeOK, FindKey, db
<1> QED
  BY <1>1, <1>2, <1>3 DEF FindKey

\* Inserting a key keeps the tables typed and sets agentKID to that key.
LEMMA CreateKeyOK ==
  ASSUME TypeOK, LocalInv, NEW r \in Requests, CreateKey(r)
  PROVE  TypeOK' /\ LocalInv'
<1> DEFINE m == req[r].msg
           k == m.evidence.key
           l == AfterAttestation(m)
           q == [req[r] EXCEPT !.kid = k, !.pc = l]
           e == [challenge |-> m.evidence.nonce, signer |-> m.signer]
<1>0. /\ req[r] \in RequestState /\ LocalOK(req[r]) /\ req[r].pc = "createKey"
      /\ k \in Agents /\ e \in Enrolment
  BY AgentAssumption DEF CreateKey, TypeOK, LocalInv, LocalOK, Enrolment, RequestState,
     Message, EmptyBody, NoEvidence, Evidence
<1>1. CASE /\ agents' = agents \cup {k} /\ revoked' = revoked \ {k} /\ expired' = expired \ {k}
           /\ enrolment' = [enrolment EXCEPT ![k] = e]
           /\ Continue(r, q)
  <2>1. l \in {"newToken", "idle"}
    BY DEF AfterAttestation
  <2>a. /\ agents' \subseteq Agents /\ revoked' \subseteq Agents /\ expired' \subseteq Agents
        /\ enrolment' \in [Agents -> Enrolment]
    BY <1>0, <1>1 DEF TypeOK
  <2> HIDE DEF l, k, e
  <2>2. q \in RequestState
    BY <1>0, <2>1 DEF RequestState, Labels
  <2>3. LocalOK(q)
    BY <1>0, <2>1 DEF LocalOK, Composing, RequestState
  <2>4. req' \in [Requests -> RequestState] /\ LocalInv'
    BY <1>1, <2>2, <2>3, ContinueOK
  <2> QED
    BY <2>4, <2>a DEF TypeOK, CreateKey
<1>2. CASE Fail(r) /\ UNCHANGED <<agents, revoked, expired, enrolment>>
  BY <1>2, FailOK DEF TypeOK, CreateKey
<1> QED
  BY <1>1, <1>2 DEF CreateKey

\* A generated token is a fresh nonce that the reply can carry.
LEMMA NewTokenOK ==
  ASSUME TypeOK, LocalInv, NEW r \in Requests, NewToken(r)
  PROVE  TypeOK' /\ LocalInv'
<1> DEFINE l == IF req[r].msg.type = "Empty" THEN "saveQuery"
                ELSE IF req[r].msg.components = {} THEN "idle" ELSE "lookup"
<1>0. req[r] \in RequestState /\ LocalOK(req[r]) /\ req[r].pc = "newToken"
  BY DEF NewToken, TypeOK, LocalInv
<1>1. ASSUME NEW t \in Tokens, nonce' = [nonce EXCEPT ![t] = "outstanding"],
             Continue(r, [req[r] EXCEPT !.fresh = t, !.pc = l])
      PROVE  TypeOK' /\ LocalInv'
  <2> DEFINE q == [req[r] EXCEPT !.fresh = t, !.pc = l]
  <2>1. l \in {"saveQuery", "idle", "lookup"} /\ (l = "lookup" => req[r].msg.type # "Empty")
    OBVIOUS
  <2>2. Continue(r, q)
    BY <1>1
  <2> HIDE DEF l
  <2>3. q \in RequestState
    BY <1>0, <2>1 DEF RequestState, Labels, Nonces
  <2>4. q.pc # "idle" => LocalOK(q)
    BY <1>0, <2>1 DEF LocalOK, Composing, RequestState, Nonces
  <2>5. req' \in [Requests -> RequestState] /\ LocalInv'
    BY <2>2, <2>3, <2>4, ContinueOK
  <2>6. nonce' \in [Nonces -> {"unissued", "outstanding", "spent"}]
    BY <1>1 DEF TypeOK
  <2> QED
    BY <2>5, <2>6 DEF TypeOK, NewToken
<1>2. CASE Fail(r) /\ UNCHANGED nonce
  BY <1>2, FailOK DEF TypeOK, NewToken
<1> QED
  BY <1>1, <1>2 DEF NewToken

\* A generated challenge is a fresh nonce that the reply can carry.
LEMMA NewChallengeOK ==
  ASSUME TypeOK, LocalInv, NEW r \in Requests, NewChallenge(r)
  PROVE  TypeOK' /\ LocalInv'
<1>0. req[r] \in RequestState /\ LocalOK(req[r]) /\ req[r].pc = "newChallenge"
  BY DEF NewChallenge, TypeOK, LocalInv
<1>1. ASSUME NEW c \in Challenges, nonce' = [nonce EXCEPT ![c] = "outstanding"],
             Continue(r, [req[r] EXCEPT !.fresh = c, !.pc = "saveQuery"])
      PROVE  TypeOK' /\ LocalInv'
  <2> DEFINE q == [req[r] EXCEPT !.fresh = c, !.pc = "saveQuery"]
  <2>1. q \in RequestState
    BY <1>0 DEF RequestState, Labels, Nonces
  <2>2. LocalOK(q)
    BY <1>0 DEF LocalOK, Composing, RequestState, Nonces
  <2>3. req' \in [Requests -> RequestState] /\ LocalInv'
    BY <1>1, <2>1, <2>2, ContinueOK
  <2>4. nonce' \in [Nonces -> {"unissued", "outstanding", "spent"}]
    BY <1>1 DEF TypeOK
  <2> QED
    BY <2>3, <2>4 DEF TypeOK, NewChallenge
<1>2. CASE Fail(r) /\ UNCHANGED nonce
  BY <1>2, FailOK DEF TypeOK, NewChallenge
<1> QED
  BY <1>1, <1>2 DEF NewChallenge

\* The row of a QueryRequest is stored under the nonce just generated.
LEMMA SaveQueryOK ==
  ASSUME TypeOK, LocalInv, NEW r \in Requests, SaveQuery(r)
  PROVE  TypeOK' /\ LocalInv'
<1>0. req[r] \in RequestState /\ LocalOK(req[r]) /\ req[r].pc = "saveQuery"
  BY DEF SaveQuery, TypeOK, LocalInv
<1>1. CASE queries' = queries \cup {req[r].fresh} /\ Goto(r, "reply")
  <2>1. LocalOK([req[r] EXCEPT !.pc = "reply"])
    BY <1>0 DEF LocalOK, Composing, RequestState
  <2>2. req' \in [Requests -> RequestState] /\ LocalInv'
    BY <1>1, <2>1, GotoOK DEF Labels
  <2>3. queries' \subseteq Nonces
    BY <1>0, <1>1 DEF TypeOK, LocalOK
  <2> QED
    BY <2>2, <2>3 DEF TypeOK, SaveQuery
<1>2. CASE Fail(r) /\ UNCHANGED queries
  BY <1>2, FailOK DEF TypeOK, SaveQuery
<1> QED
  BY <1>1, <1>2 DEF SaveQuery

\* processQueryResponse picks rows of suit_manifests only.
LEMMA LookupOK ==
  ASSUME TypeOK, LocalInv, NEW r \in Requests, Lookup(r)
  PROVE  TypeOK' /\ LocalInv'
<1>0. req[r] \in RequestState /\ LocalOK(req[r]) /\ req[r].pc = "lookup"
  BY DEF Lookup, TypeOK, LocalInv
<1>1. ASSUME NEW c \in req[r].msg.components,
             Continue(r, [req[r] EXCEPT
                    !.msg.components = req[r].msg.components \ {c},
                    !.picked = req[r].picked \cup LatestManifest(c),
                    !.pc = IF req[r].msg.components \ {c} # {} THEN "lookup"
                           ELSE IF req[r].picked \cup LatestManifest(c) = {} THEN "idle"
                           ELSE "findAgent"])
      PROVE  TypeOK' /\ LocalInv'
  <2> DEFINE rest == req[r].msg.components \ {c}
             got  == req[r].picked \cup LatestManifest(c)
             l    == IF rest # {} THEN "lookup" ELSE IF got = {} THEN "idle" ELSE "findAgent"
             m    == [req[r].msg EXCEPT !.components = rest]
             q    == [req[r] EXCEPT !.msg = m, !.picked = got, !.pc = l]
  <2>1. Continue(r, q)
    BY <1>1
  <2>2. l \in {"lookup", "idle", "findAgent"} /\ (l = "findAgent" => got # {})
    OBVIOUS
  <2>3. m \in Message /\ c \in Components
    BY <1>0 DEF RequestState, Message, EmptyBody
  <2>4. got \in SUBSET Manifests
    <3>1. published[c] \in 0 .. MaxSeq
      BY <2>3 DEF TypeOK
    <3>2. LatestManifest(c) \in SUBSET Manifests
      BY <2>3, <3>1, SeqAssumption DEF LatestManifest, Manifests
    <3> QED
      BY <1>0, <3>2 DEF RequestState
  <2> HIDE DEF l, m, got
  <2>5. q \in RequestState
    BY <1>0, <2>2, <2>3, <2>4 DEF RequestState, Labels
  <2>6. q.pc # "idle" => LocalOK(q)
    BY <1>0, <2>2 DEF LocalOK, Composing, RequestState
  <2>7. req' \in [Requests -> RequestState] /\ LocalInv'
    BY <2>1, <2>5, <2>6, ContinueOK
  <2> QED
    BY <2>7 DEF TypeOK, Lookup, db
<1>2. CASE Fail(r)
  BY <1>2, FailOK DEF TypeOK, Lookup, db
<1> QED
  BY <1>1, <1>2 DEF Lookup

\* The Update is stored for the agent that was authenticated.
LEMMA FindAgentOK ==
  ASSUME TypeOK, LocalInv, NEW r \in Requests, FindAgent(r)
  PROVE  TypeOK' /\ LocalInv'
<1>0. req[r] \in RequestState /\ LocalOK(req[r]) /\ req[r].pc = "findAgent"
  BY DEF FindAgent, TypeOK, LocalInv
<1>1. CASE Goto(r, "insertUpdate")
  <2>1. LocalOK([req[r] EXCEPT !.pc = "insertUpdate"])
    BY <1>0 DEF LocalOK, Composing, RequestState
  <2>2. req' \in [Requests -> RequestState] /\ LocalInv'
    BY <1>1, <2>1, GotoOK DEF Labels
  <2> QED
    BY <2>2 DEF TypeOK, FindAgent, db
<1>2. CASE Fail(r)
  BY <1>2, FailOK DEF TypeOK, FindAgent, db
<1> QED
  BY <1>1, <1>2 DEF FindAgent

\* The row of an Update is stored under the token just generated.
LEMMA InsertUpdateOK ==
  ASSUME TypeOK, LocalInv, NEW r \in Requests, InsertUpdate(r)
  PROVE  TypeOK' /\ LocalInv'
<1> DEFINE t == req[r].fresh
<1>0. /\ req[r] \in RequestState /\ LocalOK(req[r]) /\ req[r].pc = "insertUpdate"
      /\ t \in Tokens /\ req[r].kid \in Agents
  BY DEF InsertUpdate, TypeOK, LocalInv, LocalOK, Composing
<1>1. CASE /\ updates' = [updates EXCEPT ![t] = [agent |-> req[r].kid, manifests |-> {}]]
           /\ Goto(r, "linkManifests")
  <2>1. LocalOK([req[r] EXCEPT !.pc = "linkManifests"])
    BY <1>0 DEF LocalOK, Composing, RequestState
  <2>2. req' \in [Requests -> RequestState] /\ LocalInv'
    BY <1>1, <2>1, GotoOK DEF Labels
  <2>3. updates' \in [Tokens -> UpdateRow]
    BY <1>0, <1>1 DEF TypeOK, UpdateRow
  <2> QED
    BY <2>2, <2>3 DEF TypeOK, InsertUpdate
<1>2. CASE Fail(r) /\ UNCHANGED updates
  BY <1>2, FailOK DEF TypeOK, InsertUpdate
<1> QED
  BY <1>1, <1>2 DEF InsertUpdate

\* Links added to an Update keep its row typed.
LEMMA LinkManifestOK ==
  ASSUME TypeOK, LocalInv, NEW r \in Requests, LinkManifest(r)
  PROVE  TypeOK' /\ LocalInv'
<1> DEFINE t == req[r].fresh
<1>0. /\ req[r] \in RequestState /\ LocalOK(req[r]) /\ req[r].pc = "linkManifests"
      /\ t \in Tokens /\ req[r].picked \in SUBSET Manifests
  BY DEF LinkManifest, TypeOK, LocalInv, LocalOK, Composing, RequestState
<1>1. ASSUME NEW m \in req[r].picked \ updates[t].manifests, NEW l \in {"reply", "linkManifests"},
             updates' = [updates EXCEPT ![t].manifests = updates[t].manifests \cup {m}],
             Goto(r, l)
      PROVE  TypeOK' /\ LocalInv'
  <2>1. LocalOK([req[r] EXCEPT !.pc = l])
    BY <1>0 DEF LocalOK, Composing, RequestState, Nonces
  <2>2. req' \in [Requests -> RequestState] /\ LocalInv'
    BY <1>1, <2>1, GotoOK DEF Labels
  <2>3. updates' \in [Tokens -> UpdateRow]
    BY <1>0, <1>1 DEF TypeOK, UpdateRow
  <2> QED
    BY <2>2, <2>3 DEF TypeOK, LinkManifest
<1>2. CASE Fail(r) /\ UNCHANGED updates
  BY <1>2, FailOK DEF TypeOK, LinkManifest
<1> QED
  BY <1>1, <1>2 DEF LinkManifest

\* The message that leaves is a QueryRequest or an Update with a nonce.
LEMMA ReplyOK ==
  ASSUME TypeOK, LocalInv, NEW r \in Requests, Reply(r)
  PROVE  TypeOK' /\ LocalInv'
<1>0. req[r] \in RequestState /\ LocalOK(req[r]) /\ req[r].pc = "reply"
  BY DEF Reply, TypeOK, LocalInv
<1>1. req' \in [Requests -> RequestState] /\ LocalInv'
  BY FailOK DEF Reply
<1>2. out' \subseteq OutMessage
  BY <1>0 DEF Reply, TypeOK, LocalOK, OutMessage, RequestState
<1> QED
  BY <1>1, <1>2 DEF TypeOK, Reply, db

\* Recording a SUIT_Report keeps holdings and reports typed.
LEMMA HandleReportOK ==
  ASSUME TypeOK, LocalInv, NEW r \in Requests, HandleReport(r)
  PROVE  TypeOK' /\ LocalInv'
<1>0. /\ req[r] \in RequestState /\ LocalOK(req[r]) /\ req[r].pc = "handleReports"
      /\ req[r].kid \in Agents
  BY DEF HandleReport, TypeOK, LocalInv, LocalOK
<1>1. CASE Fail(r) /\ UNCHANGED <<holding, reports>>
  BY <1>1, FailOK DEF TypeOK, HandleReport
<1>2. ASSUME NEW rep \in req[r].msg.reports,
             Continue(r, [req[r] EXCEPT !.msg.reports = @ \ {rep}])
      PROVE  req' \in [Requests -> RequestState] /\ LocalInv'
  <2> DEFINE m == [req[r].msg EXCEPT !.reports = @ \ {rep}]
             q == [req[r] EXCEPT !.msg = m]
  <2>1. Continue(r, q)
    BY <1>2
  <2>2. m \in Message
    BY <1>0 DEF RequestState, Message, EmptyBody
  <2> HIDE DEF m
  <2>3. q \in RequestState
    BY <1>0, <2>2 DEF RequestState
  <2>4. LocalOK(q)
    BY <1>0 DEF LocalOK, Composing, RequestState
  <2> QED
    BY <2>1, <2>3, <2>4, ContinueOK
<1>3. ASSUME NEW rep \in req[r].msg.reports
      PROVE  rep.manifest \in Manifests \cup {None}
  BY <1>0 DEF RequestState, Message, EmptyBody, Report
<1>4. ASSUME NEW m \in Manifests, ReflectManifestSuccess(req[r].kid, m)
      PROVE  holding' \in [Agents -> SUBSET Manifests] /\ reports' \subseteq ReportRow
  <2>1. [agent |-> req[r].kid, manifest |-> m, resolved |-> TRUE] \in ReportRow
    BY <1>0 DEF ReportRow
  <2>2. holding' = [holding EXCEPT ![req[r].kid] =
                        {h \in holding[req[r].kid] : h.component # m.component} \cup {m}]
    BY <1>4 DEF ReflectManifestSuccess
  <2>3. {h \in holding[req[r].kid] : h.component # m.component} \cup {m} \in SUBSET Manifests
    BY <1>0 DEF TypeOK
  <2>4. holding' \in [Agents -> SUBSET Manifests]
    BY <2>2, <2>3 DEF TypeOK
  <2> QED
    BY <1>4, <2>1, <2>4 DEF ReflectManifestSuccess, TypeOK
<1>5. ASSUME NEW m \in Manifests \cup {None}, RecordManifestProcessingFailure(req[r].kid, m)
      PROVE  holding' \in [Agents -> SUBSET Manifests] /\ reports' \subseteq ReportRow
  <2> DEFINE row == [agent |-> req[r].kid, resolved |-> FALSE,
                     manifest |-> IF KnownManifest(m) THEN m ELSE None]
  <2>1. row \in ReportRow
    BY <1>0 DEF ReportRow
  <2>2. reports' = reports \cup {row} /\ UNCHANGED holding
    BY <1>5 DEF RecordManifestProcessingFailure
  <2> HIDE DEF row
  <2> QED
    BY <2>1, <2>2 DEF TypeOK
<1>6. ASSUME NEW rep \in req[r].msg.reports,
             Continue(r, [req[r] EXCEPT !.msg.reports = @ \ {rep}]),
             \/ KnownManifest(rep.manifest) /\ ReflectManifestSuccess(req[r].kid, rep.manifest)
             \/ RecordManifestProcessingFailure(req[r].kid, rep.manifest)
             \/ UNCHANGED <<holding, reports>>
      PROVE  TypeOK' /\ LocalInv'
  <2>1. holding' \in [Agents -> SUBSET Manifests] /\ reports' \subseteq ReportRow
    BY <1>3, <1>4, <1>5, <1>6 DEF KnownManifest, TypeOK
  <2> QED
    BY <1>2, <1>6, <2>1 DEF TypeOK, HandleReport
<1> QED
  BY <1>1, <1>6 DEF HandleReport

\* Administration, the clock and a crash keep types and locals.
LEMMA OthersOK ==
  ASSUME TypeOK, LocalInv,
         \/ \E a \in Agents : Revoke(a) \/ Expire(a)
         \/ \E c \in Components : Publish(c)
         \/ Crash
  PROVE  TypeOK' /\ LocalInv'
<1>1. CASE \E a \in Agents : Revoke(a) \/ Expire(a)
  BY <1>1 DEF Revoke, Expire, TypeOK, LocalInv
<1>2. CASE \E c \in Components : Publish(c)
  BY <1>2, SeqAssumption DEF Publish, TypeOK, LocalInv
<1>3. CASE Crash
  BY <1>3, IdleOK DEF Crash, TypeOK, LocalInv, db
<1> QED
  BY <1>1, <1>2, <1>3

\* Every step keeps the types and what the program counters say.
LEMMA NextOK ==
  ASSUME TypeOK, LocalInv, [Next]_vars
  PROVE  TypeOK' /\ LocalInv'
<1>1. ASSUME NEW r \in Requests, Serve(r)
      PROVE  TypeOK' /\ LocalInv'
  BY <1>1, AuthenticateOK, ConsumeTokenOK, FindSentOK, SubmitOK, ConsumeChallengeOK,
     FindChallengeOK, FindKeyOK, CreateKeyOK, NewTokenOK, NewChallengeOK, SaveQueryOK,
     LookupOK, FindAgentOK, InsertUpdateOK, LinkManifestOK, ReplyOK, HandleReportOK
     DEF Serve
<1>2. CASE UNCHANGED vars
  BY <1>2 DEF vars, TypeOK, LocalInv
<1> QED
  BY <1>1, <1>2, ReceiveOK, OthersOK DEF Next

\* Type correctness: no interleaving of requests, crash, revocation, expiry or
\* new manifest takes the database or a request out of its type, and every
\* request has the locals that the call it is about to make needs.
THEOREM TypeCorrect == Spec => []TypeOK
<1>1. Init => TypeOK /\ LocalInv
  BY InitOK
<1>2. TypeOK /\ LocalInv /\ [Next]_vars => TypeOK' /\ LocalInv'
  BY NextOK
<1> QED
  BY <1>1, <1>2, PTL DEF Spec

\* The same induction, for use in the invariants below.
LEMMA Locals == Spec => [](TypeOK /\ LocalInv)
  BY InitOK, NextOK, PTL DEF Spec

-----------------------------------------------------------------------------
(***************************************************************************)
(* Tokens and challenges are used once.                                    *)
(***************************************************************************)

\* A request that continues changes nobody else's locals.
LEMMA ContinueStep ==
  ASSUME TypeOK, NEW r \in Requests, NEW state \in RequestState, Continue(r, state)
  PROVE  /\ \A x \in Requests \ {r} : req'[x] = req[x]
         /\ req'[r] = IF state.pc = "idle" THEN Idle ELSE state
  BY DEF Continue, TypeOK

\* The same for a request that only moves its program counter.
LEMMA GotoStep ==
  ASSUME TypeOK, NEW r \in Requests, NEW label \in Labels, Goto(r, label)
  PROVE  /\ \A x \in Requests \ {r} : req'[x] = req[x]
         /\ req'[r].pc = label
         /\ label # "idle" => req'[r] = [req[r] EXCEPT !.pc = label]
<1> DEFINE q == [req[r] EXCEPT !.pc = label]
<1>1. Continue(r, q)
  BY DEF Goto
<1>2. q \in RequestState /\ q.pc = label
  BY DEF TypeOK, RequestState
<1> HIDE DEF q
<1>3. /\ \A x \in Requests \ {r} : req'[x] = req[x]
      /\ req'[r] = IF q.pc = "idle" THEN Idle ELSE q
  BY <1>1, <1>2, ContinueStep
<1> QED
  BY <1>2, <1>3 DEF Idle, q

\* A step of r that leaves nonces and answers alone and after which r spends
\* no nonce.
Quiet(r) ==
  /\ UNCHANGED <<nonce, answers>>
  /\ \A x \in Requests \ {r} : req'[x] = req[x]
  /\ req'[r].pc \notin {"findSent", "findChallenge"}

\* Steps that touch neither the tables of nonces nor the matching of answers.
LEMMA QuietSteps ==
  ASSUME TypeOK, LocalInv, NEW r \in Requests,
         \/ StartSession(r) \/ Receive(r) \/ Authenticate(r) \/ SubmitAttestationPayload(r)
         \/ FindKey(r) \/ CreateKey(r) \/ SaveQuery(r) \/ Lookup(r) \/ FindAgent(r)
         \/ InsertUpdate(r) \/ LinkManifest(r) \/ Reply(r) \/ HandleReport(r)
  PROVE  Quiet(r)
<1> USE DEF Quiet
<1>0. req[r] \in RequestState
  BY DEF TypeOK
<1>f. ASSUME Fail(r) PROVE /\ \A x \in Requests \ {r} : req'[x] = req[x]
                           /\ req'[r].pc = "idle"
  BY <1>f, GotoStep DEF Labels, Fail
<1>1. CASE StartSession(r) \/ Receive(r)
  BY <1>1 DEF StartSession, Receive, db, TypeOK, Idle
<1>2. CASE Authenticate(r)
  <2>1. PICK k1 : Continue(r, [req[r] EXCEPT !.kid = k1, !.pc = "consumeToken"])
    BY <1>2 DEF Authenticate
  <2> QED
    BY <1>0, <1>2, <2>1 DEF Continue, Authenticate, db, TypeOK, RequestState
<1>3. CASE SubmitAttestationPayload(r)
  BY <1>3, <1>f, GotoStep DEF Labels, SubmitAttestationPayload, db
<1>4. CASE FindKey(r) \/ CreateKey(r)
  <2> DEFINE l == AfterAttestation(req[r].msg)
             q == [req[r] EXCEPT !.kid = req[r].msg.evidence.key, !.pc = l]
  <2>1. Continue(r, q) \/ Goto(r, "createKey") \/ Fail(r)
    BY <1>4 DEF FindKey, CreateKey
  <2>2. UNCHANGED <<nonce, answers>>
    BY <1>4 DEF FindKey, CreateKey, db
  <2>3. q.pc \in {"newToken", "idle"}
    BY <1>0 DEF AfterAttestation, RequestState
  <2> HIDE DEF q
  <2>4. CASE Continue(r, q)
    BY <2>2, <2>3, <2>4 DEF Continue, Idle, TypeOK
  <2> QED
    BY <1>f, <2>1, <2>2, <2>4, GotoStep DEF Labels
<1>5. CASE SaveQuery(r)
  BY <1>5, <1>f, GotoStep DEF Labels, SaveQuery
<1>6. CASE Lookup(r)
  <2>1. ASSUME NEW c, NEW m, NEW p, NEW l \in {"lookup", "idle", "findAgent"},
               Continue(r, [req[r] EXCEPT !.msg.components = m, !.picked = p, !.pc = l])
        PROVE  Quiet(r)
    BY <1>0, <1>6, <2>1 DEF Continue, Lookup, db, TypeOK, RequestState, Idle
  <2> QED
    BY <1>6, <1>f, <2>1 DEF Lookup, db
<1>7. CASE FindAgent(r)
  BY <1>7, <1>f, GotoStep DEF Labels, FindAgent, db
<1>8. CASE InsertUpdate(r)
  BY <1>8, <1>f, GotoStep DEF Labels, InsertUpdate
<1>9. CASE LinkManifest(r)
  BY <1>9, <1>f, GotoStep DEF Labels, LinkManifest
<1>10. CASE Reply(r)
  BY <1>10, <1>f DEF Reply, db
<1>11. CASE HandleReport(r)
  <2>1. ASSUME NEW rep, Continue(r, [req[r] EXCEPT !.msg.reports = @ \ {rep}])
        PROVE  Quiet(r)
    BY <1>0, <1>11, <2>1 DEF Continue, HandleReport, TypeOK, RequestState, Idle
  <2> QED
    BY <1>11, <1>f, <2>1 DEF HandleReport
<1> QED
  BY <1>1, <1>2, <1>3, <1>4, <1>5, <1>6, <1>7, <1>8, <1>9, <1>10, <1>11

\* A step of r that spends nonce v and will look it up next.
Spends(r, v) ==
  /\ v \in Nonces /\ nonce[v] = "outstanding"
  /\ nonce' = [nonce EXCEPT ![v] = "spent"]
  /\ UNCHANGED answers
  /\ \A x \in Requests \ {r} : req'[x] = req[x]
  /\ Spending(req'[r]) = v

\* A step of r that is accepted as the answer to v, the nonce it had spent.
Accepts(r, v) ==
  /\ v \in Nonces /\ Spending(req[r]) = v
  /\ answers' = [answers EXCEPT ![v] = @ + 1]
  /\ UNCHANGED nonce
  /\ \A x \in Requests \ {r} : req'[x] = req[x]
  /\ req'[r].pc \notin {"findSent", "findChallenge"}

\* A step of r that puts a new nonce v into its table.
Issues(r, v) ==
  /\ v \in Nonces /\ nonce[v] = "unissued"
  /\ nonce' = [nonce EXCEPT ![v] = "outstanding"]
  /\ UNCHANGED answers
  /\ \A x \in Requests \ {r} : req'[x] = req[x]
  /\ req'[r].pc \notin {"findSent", "findChallenge"}

\* Spending a token or a challenge is one conditional UPDATE.
LEMMA SpendSteps ==
  ASSUME TypeOK, LocalInv, NEW r \in Requests, ConsumeToken(r) \/ ConsumeChallenge(r)
  PROVE  Quiet(r) \/ \E v \in Nonces : Spends(r, v)
<1>0. req[r] \in RequestState /\ LocalOK(req[r])
  BY DEF TypeOK, LocalInv
<1>f. ASSUME Fail(r) PROVE /\ \A x \in Requests \ {r} : req'[x] = req[x]
                           /\ req'[r].pc = "idle"
  BY <1>f, GotoStep DEF Fail, Labels
<1>1. CASE ConsumeToken(r)
  <2> DEFINE t == req[r].msg.token
             l == Dispatch(req[r].msg, req[r].kid, NoMessage)
  <2>1. CASE /\ t # None /\ CanConsume(t) /\ nonce' = [nonce EXCEPT ![t] = "spent"]
             /\ Goto(r, "findSent")
    <3>1. t \in Nonces
      BY <1>0, <2>1 DEF RequestState, Message, EmptyBody, Nonces
    <3>2. /\ \A x \in Requests \ {r} : req'[x] = req[x]
          /\ req'[r] = [req[r] EXCEPT !.pc = "findSent"]
      BY <2>1, GotoStep DEF Labels
    <3>3. Spending(req'[r]) = t
      BY <1>0, <3>2 DEF Spending, RequestState
    <3> QED
      BY <1>1, <2>1, <3>1, <3>2, <3>3 DEF Spends, ConsumeToken, CanConsume
  <2>2. CASE Goto(r, l) /\ UNCHANGED nonce
    <3>1. l \in {"idle", "newChallenge", "newToken", "verify", "handleReports"}
      BY DispatchOK
    <3> HIDE DEF l
    <3> QED
      BY <1>1, <2>2, <3>1, GotoStep DEF Quiet, Labels, ConsumeToken
  <2> QED
    BY <1>1, <2>1, <2>2 DEF ConsumeToken
<1>2. CASE ConsumeChallenge(r)
  <2> DEFINE c == AttestationNonce(req[r].msg.evidence)
  <2>1. CASE /\ CanConsume(c) /\ nonce' = [nonce EXCEPT ![c] = "spent"]
             /\ Goto(r, "findChallenge")
    <3>1. c \in Nonces
      BY <1>0, <1>2 DEF ConsumeChallenge, LocalOK, Nonces
    <3>2. /\ \A x \in Requests \ {r} : req'[x] = req[x]
          /\ req'[r] = [req[r] EXCEPT !.pc = "findChallenge"]
      BY <2>1, GotoStep DEF Labels
    <3>3. Spending(req'[r]) = c
      BY <1>0, <3>2 DEF Spending, RequestState
    <3> QED
      BY <1>2, <2>1, <3>1, <3>2, <3>3 DEF Spends, ConsumeChallenge, CanConsume
  <2>2. CASE Fail(r) /\ UNCHANGED nonce
    BY <1>2, <1>f, <2>2 DEF Quiet, ConsumeChallenge
  <2> QED
    BY <1>2, <2>1, <2>2 DEF ConsumeChallenge
<1> QED
  BY <1>1, <1>2

\* Matching a spent nonce with a sent message is a step of its own.
LEMMA AcceptSteps ==
  ASSUME TypeOK, LocalInv, NEW r \in Requests, FindSent(r) \/ FindChallenge(r)
  PROVE  Quiet(r) \/ \E v \in Nonces : Accepts(r, v)
<1>0. req[r] \in RequestState /\ LocalOK(req[r])
  BY DEF TypeOK, LocalInv
<1>f. ASSUME Fail(r) PROVE /\ \A x \in Requests \ {r} : req'[x] = req[x]
                           /\ req'[r].pc = "idle"
  BY <1>f, GotoStep DEF Fail, Labels
<1>1. ASSUME NEW s, NEW l \in {"idle", "newChallenge", "newToken", "verify", "handleReports", "findKey"},
             Continue(r, [req[r] EXCEPT !.sent = s, !.pc = l])
      PROVE  /\ \A x \in Requests \ {r} : req'[x] = req[x]
             /\ req'[r].pc \notin {"findSent", "findChallenge"}
  BY <1>0, <1>1 DEF Continue, TypeOK, RequestState, Idle
<1>2. CASE FindSent(r)
  <2> DEFINE t == req[r].msg.token
  <2>1. PICK s : /\ Continue(r, [req[r] EXCEPT !.sent = s, !.pc = Dispatch(req[r].msg, req[r].kid, s)])
                 /\ answers' = IF s = NoMessage THEN answers ELSE [answers EXCEPT ![t] = @ + 1]
    BY <1>2 DEF FindSent
  <2> DEFINE l == Dispatch(req[r].msg, req[r].kid, s)
  <2>2. l \in {"idle", "newChallenge", "newToken", "verify", "handleReports"}
    BY DispatchOK
  <2>3. Continue(r, [req[r] EXCEPT !.sent = s, !.pc = l])
    BY <2>1
  <2> HIDE DEF l
  <2>4. /\ \A x \in Requests \ {r} : req'[x] = req[x]
        /\ req'[r].pc \notin {"findSent", "findChallenge"}
    BY <1>1, <2>2, <2>3
  <2>5. t \in Nonces /\ Spending(req[r]) = t
    BY <1>0, <1>2 DEF FindSent, LocalOK, Spending, Nonces
  <2> QED
    BY <1>2, <2>1, <2>4, <2>5 DEF FindSent, Quiet, Accepts, db
<1>3. CASE FindChallenge(r)
  <2> DEFINE c == AttestationNonce(req[r].msg.evidence)
             l == IF req[r].kid # None THEN AfterAttestation(req[r].msg)
                  ELSE IF ProvesAttestedKey(req[r].msg) THEN "findKey" ELSE "idle"
             s == [type |-> "QueryRequest", token |-> None]
  <2>1. CASE answers' = [answers EXCEPT ![c] = @ + 1] /\ Continue(r, [req[r] EXCEPT !.sent = s, !.pc = l])
    <3>1. l \in {"newToken", "findKey", "idle"}
      BY DEF AfterAttestation
    <3>2. c \in Nonces /\ Spending(req[r]) = c
      BY <1>0, <1>3 DEF FindChallenge, LocalOK, Spending, Nonces
    <3> HIDE DEF l, s
    <3>3. /\ \A x \in Requests \ {r} : req'[x] = req[x]
          /\ req'[r].pc \notin {"findSent", "findChallenge"}
      BY <1>1, <2>1, <3>1
    <3> QED
      BY <1>3, <2>1, <3>2, <3>3 DEF FindChallenge, Accepts, db
  <2>2. CASE Fail(r) /\ UNCHANGED answers
    BY <1>3, <1>f, <2>2 DEF Quiet, FindChallenge, db
  <2> QED
    BY <1>3, <2>1, <2>2 DEF FindChallenge
<1> QED
  BY <1>2, <1>3

\* A new token or challenge is a value that no row of its table holds.
LEMMA IssueSteps ==
  ASSUME TypeOK, LocalInv, NEW r \in Requests, NewToken(r) \/ NewChallenge(r)
  PROVE  Quiet(r) \/ \E v \in Nonces : Issues(r, v)
<1>0. req[r] \in RequestState
  BY DEF TypeOK
<1>1. ASSUME NEW v \in Nonces, NEW l \in {"saveQuery", "idle", "lookup"},
             IsUnique(v), nonce' = [nonce EXCEPT ![v] = "outstanding"],
             Continue(r, [req[r] EXCEPT !.fresh = v, !.pc = l])
      PROVE  Issues(r, v)
  <2>1. /\ \A x \in Requests \ {r} : req'[x] = req[x]
        /\ req'[r].pc \notin {"findSent", "findChallenge"}
    BY <1>0, <1>1 DEF Continue, TypeOK, RequestState, Idle
  <2>2. UNCHANGED answers
    BY DEF NewToken, NewChallenge
  <2> QED
    BY <1>1, <2>1, <2>2 DEF Issues, IsUnique
<1>2. ASSUME Fail(r), UNCHANGED nonce PROVE Quiet(r)
  <2>1. /\ \A x \in Requests \ {r} : req'[x] = req[x]
        /\ req'[r].pc = "idle"
    BY <1>2, GotoStep DEF Fail, Labels
  <2> QED
    BY <1>2, <2>1 DEF Quiet, NewToken, NewChallenge
<1>3. CASE NewToken(r)
  BY <1>1, <1>2, <1>3 DEF NewToken, Nonces
<1>4. CASE NewChallenge(r)
  BY <1>1, <1>2, <1>4 DEF NewChallenge, Nonces
<1> QED
  BY <1>3, <1>4

\* A step that leaves nonces and answers alone and after which no request
\* spends a nonce it did not spend before.
Calm ==
  /\ UNCHANGED <<nonce, answers>>
  /\ \A x \in Requests : Spending(req'[x]) \in {None, Spending(req[x])}

\* All that a step of the handler may do to the tables of nonces.
LEMMA NonceSteps ==
  ASSUME TypeOK, LocalInv, [Next]_vars
  PROVE  \/ Calm
         \/ \E r \in Requests, v \in Nonces : Spends(r, v) \/ Accepts(r, v) \/ Issues(r, v)
<1>1. ASSUME NEW r \in Requests, Quiet(r) PROVE Calm
  <2>1. Spending(req'[r]) = None
    BY <1>1 DEF Quiet, Spending
  <2> QED
    BY <1>1, <2>1 DEF Quiet, Calm
<1>2. ASSUME NEW r \in Requests, StartSession(r) \/ Receive(r) \/ Serve(r)
      PROVE  \/ Quiet(r)
             \/ \E v \in Nonces : Spends(r, v) \/ Accepts(r, v) \/ Issues(r, v)
  BY <1>2, QuietSteps, SpendSteps, AcceptSteps, IssueSteps DEF Serve
<1>3. CASE \/ \E a \in Agents : Revoke(a) \/ Expire(a)
           \/ \E c \in Components : Publish(c)
  BY <1>3 DEF Revoke, Expire, Publish, Calm
<1>4. CASE Crash
  <2>1. \A x \in Requests : req'[x] = Idle
    BY <1>4 DEF Crash
  <2>2. Spending(Idle) = None
    BY DEF Spending, Idle
  <2> QED
    BY <1>4, <2>1, <2>2 DEF Crash, Calm, db
<1>5. CASE UNCHANGED vars
  BY <1>5 DEF vars, Calm
<1> QED
  BY <1>1, <1>2, <1>3, <1>4, <1>5 DEF Next

\* At most one request holds a spent nonce that was not answered yet, and an
\* answered nonce is spent and was answered once.
LEMMA NonceInvStep ==
  ASSUME TypeOK, LocalInv, NonceInv, [Next]_vars
  PROVE  NonceInv'
<1>0. /\ \A x \in Requests : Spending(req[x]) \in Nonces \cup {None}
      /\ None \notin Nonces
  <2>1. ASSUME NEW x \in Requests PROVE Spending(req[x]) \in Nonces \cup {None}
    BY DEF Spending, TypeOK, LocalInv, LocalOK, Nonces
  <2> QED
    BY <2>1, NoneAssumption DEF Nonces
<1>1. CASE Calm
  BY <1>1 DEF Calm, NonceInv
<1>2. ASSUME NEW r \in Requests, NEW v \in Nonces, Spends(r, v)
      PROVE  NonceInv'
  <2>1. answers[v] = 0 /\ \A x \in Requests : Spending(req[x]) # v
    BY <1>0, <1>2 DEF Spends, NonceInv
  <2>2. /\ nonce'[v] = "spent"
        /\ \A w \in Nonces \ {v} : nonce'[w] = nonce[w]
        /\ answers' = answers
    BY <1>2 DEF Spends, TypeOK
  <2>3. Spending(req'[r]) = v /\ \A x \in Requests \ {r} : Spending(req'[x]) = Spending(req[x])
    BY <1>2 DEF Spends
  <2> QED
    BY <1>0, <2>1, <2>2, <2>3 DEF NonceInv
<1>3. ASSUME NEW r \in Requests, NEW v \in Nonces, Accepts(r, v)
      PROVE  NonceInv'
  <2>1. nonce[v] = "spent" /\ answers[v] = 0 /\ \A x \in Requests \ {r} : Spending(req[x]) # v
    BY <1>0, <1>3 DEF Accepts, NonceInv
  <2>2. /\ answers'[v] = 1
        /\ \A w \in Nonces \ {v} : answers'[w] = answers[w]
        /\ nonce' = nonce
    BY <1>3, <2>1 DEF Accepts, TypeOK
  <2>3. Spending(req'[r]) = None /\ \A x \in Requests \ {r} : Spending(req'[x]) = Spending(req[x])
    BY <1>3 DEF Accepts, Spending
  <2> QED
    BY <1>0, <2>1, <2>2, <2>3 DEF NonceInv
<1>4. ASSUME NEW r \in Requests, NEW v \in Nonces, Issues(r, v)
      PROVE  NonceInv'
  <2>1. answers[v] = 0 /\ \A x \in Requests : Spending(req[x]) # v
    BY <1>0, <1>4 DEF Issues, NonceInv
  <2>2. /\ \A w \in Nonces \ {v} : nonce'[w] = nonce[w]
        /\ answers' = answers
    BY <1>4 DEF Issues, TypeOK
  <2>3. Spending(req'[r]) = None /\ \A x \in Requests \ {r} : Spending(req'[x]) = Spending(req[x])
    BY <1>4 DEF Issues, Spending
  <2> QED
    BY <1>0, <2>1, <2>2, <2>3 DEF NonceInv
<1> QED
  BY <1>1, <1>2, <1>3, <1>4, NonceSteps

\* NonceInv is an invariant: an answered nonce is spent, and answered once.
LEMMA NonceInvariant == Spec => []NonceInv
<1>1. Init => NonceInv
  <2> SUFFICES ASSUME Init PROVE NonceInv
    OBVIOUS
  <2>1. \A x \in Requests : Spending(req[x]) = None
    BY DEF Init, Idle, Spending
  <2>2. \A v \in Nonces : answers[v] = 0
    BY DEF Init
  <2> QED
    BY <2>1, <2>2 DEF NonceInv
<1>2. TypeOK /\ LocalInv /\ NonceInv /\ [Next]_vars => NonceInv'
  BY NonceInvStep
<1> QED
  BY <1>1, <1>2, Locals, PTL DEF Spec

\* Refinement: the handler, with any number of requests in flight, duplicated
\* messages and crashes, implements NonceLedger.  A token or challenge is
\* issued once, spent once, and at most one message is accepted as its answer.
THEOREM NoncesUsedOnce == Spec => OneTimeNonces
<1>1. Init => Ledger!LedgerInit
  BY DEF Init, Ledger!LedgerInit
<1>2. ASSUME TypeOK, LocalInv, NonceInv, [Next]_vars
      PROVE  [Ledger!LedgerNext]_(Ledger!ledger)
  <2>1. CASE Calm
    BY <2>1 DEF Calm, Ledger!ledger
  <2>2. ASSUME NEW r \in Requests, NEW v \in Nonces, Spends(r, v)
        PROVE  Ledger!Spend(v)
    BY <2>2 DEF Spends, Ledger!Spend
  <2>3. ASSUME NEW r \in Requests, NEW v \in Nonces, Accepts(r, v)
        PROVE  Ledger!Accept(v)
    <3>1. v # None
      BY NoneAssumption DEF Nonces
    <3>2. nonce[v] = "spent" /\ answers[v] = 0
      BY <1>2, <2>3, <3>1 DEF Accepts, NonceInv
    <3> QED
      BY <2>3, <3>2 DEF Accepts, Ledger!Accept
  <2>4. ASSUME NEW r \in Requests, NEW v \in Nonces, Issues(r, v)
        PROVE  Ledger!Issue(v)
    BY <2>4 DEF Issues, Ledger!Issue
  <2> QED
    BY <1>2, <2>1, <2>2, <2>3, <2>4, NonceSteps DEF Ledger!LedgerNext
<1> QED
  BY <1>1, <1>2, Locals, NonceInvariant, PTL
     DEF Spec, OneTimeNonces, Ledger!LedgerSpec

-----------------------------------------------------------------------------
(***************************************************************************)
(* Revoked and expired keys stay barred.                                   *)
(***************************************************************************)

\* Request q is recording or sending an Update.
Updating(q) ==
  q.pc \in {"insertUpdate", "linkManifests"} \/ (q.pc = "reply" /\ q.picked # {})

\* No key leaves the table and no revoked or expired key becomes valid again.
KeysKept ==
  agents \subseteq agents' /\ revoked \subseteq revoked' /\ expired \subseteq expired'

\* What a step of request r may do to its sender: r ends, or keeps what it knew
\* to be barred, takes its sender from the table, and comes to record an Update
\* only for a key that is valid at that moment.
Attributes(r) ==
  /\ \A x \in Requests \ {r} : req'[x] = req[x]
  /\ \/ req'[r] = Idle
     \/ /\ req'[r].barred = req[r].barred
        /\ req'[r].kid \in {None, req[r].kid} \cup agents'
        /\ Updating(req'[r]) => /\ req'[r].kid = req[r].kid
                                /\ Updating(req[r]) \/ FindByKID(req[r].kid)

\* A local transition that keeps the sender and does not come to an Update.
LEMMA PlainStep ==
  ASSUME TypeOK, NEW r \in Requests, NEW state, Continue(r, state),
         state.kid = req[r].kid, state.barred = req[r].barred, ~Updating(state)
  PROVE  Attributes(r)
  BY DEF Continue, Attributes, TypeOK

\* The same for a transition that only moves the program counter.
LEMMA PlainGoto ==
  ASSUME TypeOK, NEW r \in Requests, NEW label, Goto(r, label),
         label \notin {"insertUpdate", "linkManifests", "reply"}
  PROVE  Attributes(r)
<1> DEFINE q == [req[r] EXCEPT !.pc = label]
<1>1. q.kid = req[r].kid /\ q.barred = req[r].barred /\ q.pc = label
  BY DEF TypeOK, RequestState
<1>2. ~Updating(q)
  BY <1>1 DEF Updating
<1>3. Continue(r, q)
  BY DEF Goto
<1> HIDE DEF q
<1> QED
  BY <1>1, <1>2, <1>3, PlainStep

\* Ending a request attributes nothing to anybody.
LEMMA PlainFail ==
  ASSUME TypeOK, NEW r \in Requests, Fail(r)
  PROVE  Attributes(r)
  BY PlainGoto DEF Fail

\* Every step of a request's goroutine keeps the keys and attributes properly.
LEMMA ServeAttributes ==
  ASSUME TypeOK, LocalInv, BarredInv, NEW r \in Requests, Serve(r)
  PROVE  KeysKept /\ Attributes(r)
<1>0. req[r] \in RequestState /\ LocalOK(req[r])
  BY DEF TypeOK, LocalInv
<1>1. CASE Authenticate(r)
  <2>1. PICK ok \in BOOLEAN :
          Continue(r, [req[r] EXCEPT
            !.kid = IF ok /\ Authenticated(req[r].msg) THEN req[r].msg.kid ELSE None,
            !.pc  = "consumeToken"])
    BY <1>1 DEF Authenticate
  <2> DEFINE k == IF ok /\ Authenticated(req[r].msg) THEN req[r].msg.kid ELSE None
  <2>2. k \in {None} \cup agents
    BY DEF Authenticated, FindByKID
  <2>3. Continue(r, [req[r] EXCEPT !.kid = k, !.pc = "consumeToken"])
    BY <2>1
  <2> HIDE DEF k
  <2>4. Attributes(r)
    BY <1>0, <1>1, <2>2, <2>3 DEF Continue, Attributes, Updating, Authenticate, db, TypeOK, RequestState
  <2> QED
    BY <1>1, <2>4 DEF Authenticate, KeysKept, db
<1>2. CASE ConsumeToken(r) \/ SubmitAttestationPayload(r) \/ ConsumeChallenge(r)
  <2>1. \E l : Goto(r, l) /\ l \notin {"insertUpdate", "linkManifests", "reply"}
    <3>1. Dispatch(req[r].msg, req[r].kid, NoMessage) \notin {"insertUpdate", "linkManifests", "reply"}
      BY DispatchOK
    <3> QED
      BY <1>2, <3>1 DEF ConsumeToken, SubmitAttestationPayload, ConsumeChallenge, Fail
  <2>2. KeysKept
    BY <1>2 DEF ConsumeToken, SubmitAttestationPayload, ConsumeChallenge, KeysKept, db
  <2> QED
    BY <2>1, <2>2, PlainGoto
<1>3. CASE FindSent(r) \/ FindChallenge(r)
  <2>1. ASSUME NEW s, NEW l \in {"idle", "newChallenge", "newToken", "verify",
                                 "handleReports", "findKey"},
               Continue(r, [req[r] EXCEPT !.sent = s, !.pc = l])
        PROVE  Attributes(r)
    BY <1>0, <2>1 DEF Continue, Attributes, Updating, TypeOK, RequestState
  <2>2. /\ \A s : Dispatch(req[r].msg, req[r].kid, s) \in
              {"idle", "newChallenge", "newToken", "verify", "handleReports"}
        /\ AfterAttestation(req[r].msg) \in {"newToken", "idle"}
    BY DispatchOK DEF AfterAttestation
  <2>3. ASSUME FindSent(r) PROVE Attributes(r)
    <3>1. PICK s : Continue(r, [req[r] EXCEPT !.sent = s, !.pc = Dispatch(req[r].msg, req[r].kid, s)])
      BY <2>3 DEF FindSent
    <3> DEFINE l == Dispatch(req[r].msg, req[r].kid, s)
    <3>2. Continue(r, [req[r] EXCEPT !.sent = s, !.pc = l]) /\ l \in
              {"idle", "newChallenge", "newToken", "verify", "handleReports"}
      BY <2>2, <3>1
    <3> HIDE DEF l
    <3> QED
      BY <2>1, <3>2
  <2>4. ASSUME FindChallenge(r) PROVE Attributes(r)
    <3> DEFINE l == IF req[r].kid # None THEN AfterAttestation(req[r].msg)
                    ELSE IF ProvesAttestedKey(req[r].msg) THEN "findKey" ELSE "idle"
               s == [type |-> "QueryRequest", token |-> None]
    <3>1. Continue(r, [req[r] EXCEPT !.sent = s, !.pc = l]) \/ Fail(r)
      BY <2>4 DEF FindChallenge
    <3>2. l \in {"newToken", "findKey", "idle"}
      BY <2>2
    <3> HIDE DEF l, s
    <3> QED
      BY <2>1, <3>1, <3>2, PlainFail
  <2>5. KeysKept
    BY <1>3 DEF FindSent, FindChallenge, KeysKept, db
  <2> QED
    BY <1>3, <2>3, <2>4, <2>5
<1>4. CASE FindKey(r) \/ CreateKey(r)
  <2> DEFINE k == req[r].msg.evidence.key
             l == AfterAttestation(req[r].msg)
  <2>1. l \in {"newToken", "idle"}
    BY DEF AfterAttestation
  <2>2. \/ Continue(r, [req[r] EXCEPT !.kid = k, !.pc = l]) /\ k \in agents'
        \/ Goto(r, "createKey")
        \/ Fail(r)
    BY <1>4 DEF FindKey, CreateKey, db
  <2>3. KeysKept
    BY <1>4 DEF FindKey, CreateKey, CanCreateKey, KeysKept, BarredInv, db
  <2> HIDE DEF k, l
  <2>4. ASSUME Continue(r, [req[r] EXCEPT !.kid = k, !.pc = l]), k \in agents'
        PROVE  Attributes(r)
    BY <1>0, <2>1, <2>4 DEF Continue, Attributes, Updating, TypeOK, RequestState
  <2> QED
    BY <2>2, <2>3, <2>4, PlainFail, PlainGoto
<1>5. CASE NewToken(r) \/ NewChallenge(r)
  <2>1. ASSUME NEW v, NEW l \in {"saveQuery", "idle", "lookup"},
               Continue(r, [req[r] EXCEPT !.fresh = v, !.pc = l])
        PROVE  Attributes(r)
    BY <1>0, <2>1 DEF Continue, Attributes, Updating, TypeOK, RequestState
  <2>2. KeysKept
    BY <1>5 DEF NewToken, NewChallenge, KeysKept
  <2> QED
    BY <1>5, <2>1, <2>2, PlainFail DEF NewToken, NewChallenge
<1>6. CASE SaveQuery(r)
  <2>1. ASSUME Goto(r, "reply") PROVE Attributes(r)
    <3>1. req[r].picked = {}
      BY <1>0, <1>6 DEF SaveQuery, LocalOK, Composing
    <3> QED
      BY <1>0, <2>1, <3>1, GotoStep DEF Labels, Attributes, Updating, RequestState
  <2> QED
    BY <1>6, <2>1, PlainFail DEF SaveQuery, KeysKept
<1>7. CASE Lookup(r)
  <2>1. ASSUME NEW m, NEW g, NEW l \in {"lookup", "idle", "findAgent"},
               Continue(r, [req[r] EXCEPT !.msg.components = m, !.picked = g, !.pc = l])
        PROVE  Attributes(r)
    BY <1>0, <2>1 DEF Continue, Attributes, Updating, TypeOK, RequestState
  <2>2. Attributes(r)
    BY <1>7, <2>1, PlainFail DEF Lookup
  <2> QED
    BY <1>7, <2>2 DEF Lookup, KeysKept, db
<1>8. CASE FindAgent(r)
  <2>1. ASSUME FindByKID(req[r].kid), Goto(r, "insertUpdate") PROVE Attributes(r)
    BY <1>0, <2>1, GotoStep DEF Labels, Attributes, Updating, RequestState
  <2> QED
    BY <1>8, <2>1, PlainFail DEF FindAgent, KeysKept, db
<1>9. CASE InsertUpdate(r) \/ LinkManifest(r)
  <2>0. Updating(req[r])
    BY <1>9 DEF InsertUpdate, LinkManifest, Updating
  <2>1. ASSUME NEW l \in {"linkManifests", "reply"}, Goto(r, l)
        PROVE  Attributes(r)
    BY <1>0, <2>0, <2>1 DEF Goto, Continue, Attributes, TypeOK, RequestState
  <2>2. Attributes(r)
    BY <1>9, <2>1, PlainFail DEF InsertUpdate, LinkManifest
  <2> QED
    BY <1>9, <2>2 DEF InsertUpdate, LinkManifest, KeysKept
<1>10. CASE Reply(r)
  BY <1>10, PlainFail DEF Reply, KeysKept, db
<1>11. CASE HandleReport(r)
  <2>1. ASSUME NEW rep, Continue(r, [req[r] EXCEPT !.msg.reports = @ \ {rep}])
        PROVE  Attributes(r)
    BY <1>0, <1>11, <2>1 DEF HandleReport, Continue, Attributes, Updating, TypeOK, RequestState
  <2> QED
    BY <1>11, <2>1, PlainFail DEF HandleReport, KeysKept
<1> QED
  BY <1>1, <1>2, <1>3, <1>4, <1>5, <1>6, <1>7, <1>8, <1>9, <1>10, <1>11 DEF Serve

\* No step makes a revoked or expired key valid, records an Update for it, or
\* forgets that it was barred when the request arrived.
LEMMA BarredStep ==
  ASSUME TypeOK, LocalInv, BarredInv, NoUpdateForBarredAgent, [Next]_vars
  PROVE  KeysKept /\ BarredInv' /\ NoUpdateForBarredAgent'
<1> DEFINE Safe(q) == Updating(q) => q.kid \in agents \ q.barred
           Barred(q) == q.barred \subseteq revoked \cup expired /\ (q.kid # None => q.kid \in agents)
<1>0. \A x \in Requests : Safe(req[x]) /\ Barred(req[x])
  BY DEF NoUpdateForBarredAgent, BarredInv, Updating
<1>i. Idle.barred = {} /\ Idle.kid = None /\ ~Updating(Idle)
  BY DEF Idle, Updating
<1>1. ASSUME NEW r \in Requests, Serve(r)
      PROVE  KeysKept /\ BarredInv' /\ NoUpdateForBarredAgent'
  <2>1. KeysKept /\ Attributes(r)
    BY <1>1, ServeAttributes
  <2>2. revoked' \subseteq agents' /\ expired' \subseteq agents'
    <3>1. CASE CreateKey(r)
      BY <3>1 DEF CreateKey, BarredInv
    <3>2. CASE UNCHANGED <<agents, revoked, expired>>
      BY <3>2 DEF BarredInv
    <3> QED
      BY <1>1, <3>1, <3>2 DEF Serve, Authenticate, ConsumeToken, FindSent,
         SubmitAttestationPayload, ConsumeChallenge, FindChallenge, FindKey, NewToken,
         NewChallenge, SaveQuery, Lookup, FindAgent, InsertUpdate, LinkManifest, Reply,
         HandleReport, db
  <2>3. \A x \in Requests \ {r} : req'[x] = req[x]
    BY <2>1 DEF Attributes
  <2>4. /\ req'[r].barred \subseteq revoked' \cup expired'
        /\ req'[r].kid # None => req'[r].kid \in agents'
    BY <1>0, <1>i, <2>1 DEF Attributes, KeysKept
  <2>5. Updating(req'[r]) => req'[r].kid \in agents' \ req'[r].barred
    BY <1>0, <1>i, <2>1 DEF Attributes, KeysKept, FindByKID
  <2>6. BarredInv'
    BY <1>0, <2>1, <2>2, <2>3, <2>4 DEF BarredInv, KeysKept
  <2>7. NoUpdateForBarredAgent'
    BY <1>0, <2>1, <2>3, <2>5 DEF NoUpdateForBarredAgent, KeysKept, Updating
  <2> QED
    BY <2>1, <2>6, <2>7
<1>2. ASSUME NEW r \in Requests, StartSession(r) \/ Receive(r)
      PROVE  KeysKept /\ BarredInv' /\ NoUpdateForBarredAgent'
  <2>1. UNCHANGED <<agents, revoked, expired>>
    BY <1>2 DEF StartSession, Receive, db
  <2>2. /\ \A x \in Requests \ {r} : req'[x] = req[x]
        /\ req'[r].barred \subseteq revoked \cup expired /\ req'[r].kid = None
        /\ ~Updating(req'[r])
    <3>1. CASE StartSession(r)
      BY <3>1 DEF StartSession, Idle, Updating, TypeOK
    <3>2. CASE Receive(r)
      <4>1. PICK m, b : /\ b \subseteq revoked \cup expired
                        /\ req' = [req EXCEPT ![r] = [Idle EXCEPT
                              !.pc = "authenticate", !.msg = m, !.barred = b]]
        BY <3>2 DEF Receive
      <4> QED
        BY <4>1 DEF Idle, Updating, TypeOK
    <3> QED
      BY <1>2, <3>1, <3>2
  <2> QED
    BY <1>0, <2>1, <2>2 DEF KeysKept, BarredInv, NoUpdateForBarredAgent, Updating
<1>3. CASE \E a \in Agents : Revoke(a) \/ Expire(a)
  BY <1>3 DEF Revoke, Expire, KeysKept, BarredInv, NoUpdateForBarredAgent
<1>4. CASE (\E c \in Components : Publish(c)) \/ UNCHANGED vars
  BY <1>4 DEF Publish, vars, KeysKept, BarredInv, NoUpdateForBarredAgent
<1>5. CASE Crash
  <2>1. \A x \in Requests : req'[x] = Idle
    BY <1>5 DEF Crash
  <2>2. UNCHANGED <<agents, revoked, expired>>
    BY <1>5 DEF Crash, db
  <2> QED
    BY <1>i, <2>1, <2>2 DEF KeysKept, BarredInv, NoUpdateForBarredAgent, Updating
<1> QED
  BY <1>1, <1>2, <1>3, <1>4, <1>5 DEF Next

\* BarredInv is an invariant, and with it NoUpdateForBarredAgent.
LEMMA BarredInvariant == Spec => [](BarredInv /\ NoUpdateForBarredAgent)
<1>1. Init => BarredInv /\ NoUpdateForBarredAgent
  BY DEF Init, Idle, BarredInv, NoUpdateForBarredAgent
<1>2. TypeOK /\ LocalInv /\ BarredInv /\ NoUpdateForBarredAgent /\ [Next]_vars
        => BarredInv' /\ NoUpdateForBarredAgent'
  BY BarredStep
<1> QED
  BY <1>1, <1>2, Locals, PTL DEF Spec

\* No Update is recorded or sent for an agent that was revoked or expired when
\* its request arrived, even if it attested again in that request.
THEOREM BarredAgentsGetNoUpdate == Spec => []NoUpdateForBarredAgent
  BY BarredInvariant, PTL

\* Revocation and expiry are final: setTEEPAgentKey never replaces a row, in
\* whichever order enrolments and revocations interleave.
THEOREM RevocationFinal == Spec => RevocationIsFinal
<1>1. TypeOK /\ LocalInv /\ BarredInv /\ NoUpdateForBarredAgent /\ [Next]_vars
        => [KeysKept]_vars
  BY BarredStep
<1>2. Spec => [][KeysKept]_vars
  BY <1>1, Locals, BarredInvariant, PTL DEF Spec
<1> QED
  BY <1>2 DEF RevocationIsFinal, KeysKept

=============================================================================
