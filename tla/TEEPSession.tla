---------------------------- MODULE TEEPSession ----------------------------
(***************************************************************************)
(* The TEEP message handler of the TAM: ResolveTEEPMessage in              *)
(* internal/tam/tam.go and the SQLite repositories it calls.               *)
(*                                                                         *)
(* net/http serves every POST /tam in a goroutine of its own and nothing   *)
(* in the handler locks, so each request is a process.  Its steps are the  *)
(* places where it leaves the process: one SQL statement (or one SQL       *)
(* transaction), one call to the Verifier, one HTTP response.  Two places  *)
(* take several statements together: the SELECT for uniqueness with the    *)
(* INSERT whose UNIQUE column decides (NewToken, NewChallenge), and        *)
(* lookups of a nonce with what follows (SaveQuery, InsertUpdate,          *)
(* FindSent), between which only a nonce that was not yet sent could       *)
(* change.  Between two steps of a request any step of another request,    *)
(* the loss of the process (Crash), a revocation, an expiry or a new       *)
(* manifest may happen.  The database survives a crash; the requests in    *)
(* flight do not.                                                          *)
(*                                                                         *)
(* The outside world is arbitrary: any message of Messages may arrive at   *)
(* any time and any number of times, which covers lost, delayed,           *)
(* reordered and duplicated messages and values that were never issued.    *)
(* A COSE key and its thumbprint (the kid) are one value here: an Agent.   *)
(***************************************************************************)
EXTENDS Naturals, FiniteSets

CONSTANTS
    Requests,     \* HTTP requests that may be in flight at the same time
    Agents,       \* TEEP Agent keys
    Seeded,       \* agents whose keys the demo seeding put in the database
    Genuine,      \* agents whose evidence the Verifier affirms
    Tokens,       \* 32-byte random tokens
    Challenges,   \* 32-byte random challenges
    Components,   \* trusted component identifiers
    MaxSeq,       \* bound on the sequence number of a published manifest
    Messages,     \* the TEEP messages that arrive
    None          \* an absent optional value

Nonces == Tokens \cup Challenges

Manifests == [component : Components, seq : 1 .. MaxSeq]

(***************************************************************************)
(* A SUIT_Report names a manifest by digest (None: a digest of no known    *)
(* manifest) and is ok, failed, or malformed (not CBOR, not SHA-256).      *)
(***************************************************************************)
Report == [manifest : Manifests \cup {None}, kind : {"ok", "failed", "malformed"}]

(***************************************************************************)
(* The attestation payload, by format: an EAT, an Intel SGX quote bundle,  *)
(* any other format, or no payload at all.                                 *)
(***************************************************************************)
Evidence == [format : {"none", "eat", "sgx", "other"},
             nonce  : Challenges \cup {None},
             key    : Agents \cup {None}]

(***************************************************************************)
(* An incoming message: kid is the key id in its COSE header, signer the   *)
(* key that really made its signature.  "Other" is a type the TAM does not *)
(* accept (QueryRequest, Update).  A body that is not a COSE_Sign1 of a    *)
(* TEEP message ends like one without kid: an error and no step at all.    *)
(***************************************************************************)
Message == [type       : {"QueryResponse", "Success", "Error", "Other"},
            kid        : Agents \cup {None},
            signer     : Agents \cup {None},
            token      : Tokens \cup {None},
            evidence   : Evidence,
            components : SUBSET Components,
            reports    : SUBSET Report]

ASSUME NoneAssumption ==
    None \notin Agents \cup Tokens \cup Challenges \cup Components \cup Manifests
ASSUME NonceAssumption == Tokens \cap Challenges = {}
ASSUME AgentAssumption == Seeded \subseteq Agents /\ Genuine \subseteq Agents
ASSUME SeqAssumption == MaxSeq \in Nat \ {0}
ASSUME MessagesAssumption == Messages \subseteq Message

VARIABLES
    \* the database
    nonce,        \* tables tokens and challenges: unissued, outstanding or spent
    queries,      \* table sent_query_request_messages, by its token or challenge
    updates,      \* tables sent_update_messages and its manifests, by token
    agents,       \* table agents
    revoked,      \* agents with revoked_at set
    expired,      \* agents whose expired_at has passed
    published,    \* table suit_manifests: latest sequence number per component
    holding,      \* active rows of agent_holding_suit_manifests
    reports,      \* table suit_reports
    \* the goroutines
    req,          \* the local state of each request
    \* history
    out,          \* every message the TAM has answered with
    answers,      \* how many incoming messages were accepted as answer to a nonce
    enrolment     \* the challenge and signer that put an agent's key in the table

db == <<nonce, queries, updates, agents, revoked, expired, published, holding, reports>>
vars == <<nonce, queries, updates, agents, revoked, expired, published, holding,
          reports, req, out, answers, enrolment>>

(***************************************************************************)
(* Local state of a request.  pc names the next call that leaves the       *)
(* process; sent is the message of the TAM it was found to answer          *)
(* (sentMessage), kid the authenticated sender (agentKID), fresh the       *)
(* token or challenge generated for the reply, picked the manifests of     *)
(* the Update.  barred is history: whichever of the keys the message names *)
(* was already revoked or expired when the request arrived.                *)
(***************************************************************************)
SentMessage == [type : {"none", "QueryRequest", "Update"}, token : Tokens \cup {None}]

NoMessage == [type |-> "none", token |-> None]

NoEvidence == [format |-> "none", nonce |-> None, key |-> None]

EmptyBody == [type |-> "Empty", kid |-> None, signer |-> None, token |-> None,
              evidence |-> NoEvidence, components |-> {}, reports |-> {}]

Labels == {"idle", "authenticate", "consumeToken", "findSent", "verify",
           "consumeChallenge", "findChallenge", "findKey", "createKey",
           "newToken", "newChallenge", "saveQuery", "lookup", "findAgent",
           "insertUpdate", "linkManifests", "reply", "handleReports"}

RequestState == [pc     : Labels,
                 msg    : Message \cup {EmptyBody},
                 kid    : Agents \cup {None},
                 sent   : SentMessage,
                 fresh  : Nonces \cup {None},
                 picked : SUBSET Manifests,
                 barred : SUBSET Agents]

Idle == [pc |-> "idle", msg |-> EmptyBody, kid |-> None, sent |-> NoMessage,
         fresh |-> None, picked |-> {}, barred |-> {}]

UpdateRow == [agent : Agents \cup {None}, manifests : SUBSET Manifests]

NoUpdate == [agent |-> None, manifests |-> {}]

ReportRow == [agent : Agents, manifest : Manifests \cup {None}, resolved : BOOLEAN]

OutMessage == [type : {"QueryRequest", "Update"}, nonce : Nonces,
               manifests : SUBSET Manifests]

Enrolment == [challenge : Challenges \cup {None}, signer : Agents \cup {None}]

TypeOK ==
    /\ nonce \in [Nonces -> {"unissued", "outstanding", "spent"}]
    /\ queries \subseteq Nonces
    /\ updates \in [Tokens -> UpdateRow]
    /\ agents \subseteq Agents
    /\ revoked \subseteq Agents
    /\ expired \subseteq Agents
    /\ published \in [Components -> 0 .. MaxSeq]
    /\ holding \in [Agents -> SUBSET Manifests]
    /\ reports \subseteq ReportRow
    /\ req \in [Requests -> RequestState]
    /\ out \subseteq OutMessage
    /\ answers \in [Nonces -> Nat]
    /\ enrolment \in [Agents -> Enrolment]

Init ==
    /\ nonce = [v \in Nonces |-> "unissued"]
    /\ queries = {}
    /\ updates = [t \in Tokens |-> NoUpdate]
    /\ agents = Seeded
    /\ revoked = {}
    /\ expired = {}
    /\ published = [c \in Components |-> 0]
    /\ holding = [a \in Agents |-> {}]
    /\ reports = {}
    /\ req = [r \in Requests |-> Idle]
    /\ out = {}
    /\ answers = [v \in Nonces |-> 0]
    /\ enrolment = [a \in Agents |-> [challenge |-> None, signer |-> None]]

-----------------------------------------------------------------------------
(***************************************************************************)
(* Repository calls and pure functions of the handler.  A definition       *)
(* introduced as a fault is what a plausible mistake would make of the one *)
(* that follows it; nothing uses it, but the properties must notice it.    *)
(***************************************************************************)

\* Fault: the lookup does not look at revoked_at and expired_at.
FindByKIDUnchecked(a) == a \in agents

\* AgentRepository.FindByKID: a row that is neither revoked nor expired.
FindByKID(a) == a \in agents /\ a \notin revoked /\ a \notin expired

\* getTEEPAgentKey and COSE verification with the key the kid names.
Authenticated(m) == FindByKID(m.kid) /\ m.signer = m.kid

\* Fault: the UPDATE lacks "AND consumed = 0".
CanConsumeAgain(v) == nonce[v] # "unissued"

\* TokenRepository.MarkConsumed and ChallengeRepository.MarkConsumed: the one
\* UPDATE ... WHERE consumed = 0 affects a row.
CanConsume(v) == nonce[v] = "outstanding"

\* Fault: consumed rows are not looked at and not covered by the UNIQUE column.
IsUniqueAmongOutstanding(v) == nonce[v] # "outstanding"

\* GenerateUniqueToken and GenerateUniqueChallenge: 32 random bytes that no
\* row of the table holds (the column is UNIQUE).
IsUnique(v) == nonce[v] = "unissued"

\* searchSentMessageWithToken, after the token is consumed: a QueryRequest
\* row, else an Update row, else nothing.
SentWithToken(t) ==
    CASE t \in queries                -> [type |-> "QueryRequest", token |-> t]
      [] updates[t].agent # None      -> [type |-> "Update", token |-> t]
      [] OTHER                        -> NoMessage

\* The claims TAM itself reads from an affirmed payload: an EAT needs exactly
\* one nonce and a cnf key, an SGX bundle a key bound to report_data; the
\* other formats yield neither nonce nor key.
ClaimsOK(e) ==
    /\ e.format = "eat" => e.nonce # None /\ e.key # None
    /\ e.format = "sgx" => e.key # None

AttestationNonce(e) == IF e.format \in {"eat", "sgx"} THEN e.nonce ELSE None

\* Fault: the message is not verified under the attested key.
AttestedKeyUnproven(m) ==
    m.evidence.format \in {"eat", "sgx"} /\ m.evidence.key # None

\* verifyAttestationPayload, for a sender not authenticated so far: the
\* format carries a key and the message verifies under the attested key.
ProvesAttestedKey(m) ==
    /\ m.evidence.format \in {"eat", "sgx"}
    /\ m.evidence.key # None
    /\ m.signer = m.evidence.key

\* What the Verifier may answer: an error (unreachable, timeout, not
\* configured, malformed result) or its appraisal.
VerifierAnswers(e) ==
    {"error"} \cup IF e.key \in Genuine THEN {"affirming"} ELSE {"contraindicated"}

\* Fault: a component without a manifest is not skipped.
LatestManifestUnchecked(c) == {[component |-> c, seq |-> published[c]]}

\* FindLatestByTrustedComponentID
LatestManifest(c) ==
    IF published[c] = 0 THEN {} ELSE {[component |-> c, seq |-> published[c]]}

\* A digest of a row of suit_manifests.
KnownManifest(m) == m # None /\ m.seq <= published[m.component]

\* processQueryResponse: the token of the answer is the token of the sent
\* message (none when the message was found by challenge).
TokenMatches(m, s) == m.token = s.token

\* Fault: a QueryResponse that matches nothing and carries no evidence is tried
\* again instead of being refused.
DispatchRetrying(m, k, s) ==
    CASE m.type = "QueryResponse" /\ s # NoMessage ->
            IF k = None THEN "newChallenge" ELSE "newToken"
      [] m.type = "QueryResponse" /\ s = NoMessage -> "authenticate"
      [] OTHER -> "idle"

\* Where ResolveTEEPMessage continues once it has looked for the message it
\* was sent: agentKID k and sentMessage s may both be absent.
Dispatch(m, k, s) ==
    CASE m.type = "QueryResponse" /\ s # NoMessage ->
            IF k = None THEN "newChallenge"
            ELSE IF TokenMatches(m, s) THEN "newToken" ELSE "idle"
      [] m.type = "QueryResponse" /\ s = NoMessage ->
            IF m.evidence.format = "none" THEN "idle" ELSE "verify"
      [] m.type \in {"Success", "Error"} ->
            IF k = None \/ s = NoMessage THEN "idle" ELSE "handleReports"
      [] OTHER -> "idle"

-----------------------------------------------------------------------------
(***************************************************************************)
(* Local transitions.  Reaching "idle" ends the request with an HTTP       *)
(* status and no TEEP message (204, 500 or 503), and forgets its locals.   *)
(***************************************************************************)
Continue(r, state) ==
    req' = [req EXCEPT ![r] = IF state.pc = "idle" THEN Idle ELSE state]

Goto(r, label) == Continue(r, [req[r] EXCEPT !.pc = label])

Fail(r) == Goto(r, "idle")

At(r, label) == req[r].pc = label

-----------------------------------------------------------------------------
(***************************************************************************)
(* Requests arrive.                                                        *)
(***************************************************************************)

\* An empty body asks for a new session: generateQueryRequest.
StartSession(r) ==
    /\ At(r, "idle")
    /\ req' = [req EXCEPT ![r] = [Idle EXCEPT !.pc = "newToken"]]
    /\ UNCHANGED <<db, out, answers, enrolment>>

Receive(r) ==
    /\ At(r, "idle")
    /\ \E m \in Messages :
        /\ m.kid # None
        /\ req' = [req EXCEPT ![r] = [Idle EXCEPT
                !.pc = "authenticate", !.msg = m,
                !.barred = (revoked \cup expired) \cap {m.kid, m.evidence.key}]]
    /\ UNCHANGED <<db, out, answers, enrolment>>

\* tryAuthenticateTeepMessage: a sender that cannot be authenticated, be it by
\* a failure of the database, goes on with agentKID = nil.
Authenticate(r) ==
    /\ At(r, "authenticate")
    /\ \E dbOK \in BOOLEAN :
        Continue(r, [req[r] EXCEPT
            !.kid = IF dbOK /\ Authenticated(req[r].msg) THEN req[r].msg.kid ELSE None,
            !.pc  = "consumeToken"])
    /\ UNCHANGED <<db, out, answers, enrolment>>

\* searchSentMessageWithToken, first statement: spend the token, whoever sent
\* it.  No token, an unknown or a spent one, or a failing statement leave
\* sentMessage = nil.
ConsumeToken(r) ==
    LET m == req[r].msg
        k == req[r].kid
    IN  /\ At(r, "consumeToken")
        /\ \/ /\ m.token # None
              /\ CanConsume(m.token)
              /\ nonce' = [nonce EXCEPT ![m.token] = "spent"]
              /\ Goto(r, "findSent")
           \/ /\ Goto(r, Dispatch(m, k, NoMessage))
              /\ UNCHANGED nonce
        /\ UNCHANGED <<queries, updates, agents, revoked, expired, published,
                       holding, reports, out, answers, enrolment>>

\* searchSentMessageWithToken, second part.
FindSent(r) ==
    LET m == req[r].msg
        k == req[r].kid
    IN  /\ At(r, "findSent")
        /\ \E s \in {SentWithToken(m.token), NoMessage} :
            /\ Continue(r, [req[r] EXCEPT !.sent = s, !.pc = Dispatch(m, k, s)])
            /\ answers' = IF s = NoMessage THEN answers
                          ELSE [answers EXCEPT ![m.token] = @ + 1]
        /\ UNCHANGED <<db, out, enrolment>>

-----------------------------------------------------------------------------
(***************************************************************************)
(* Attestation: verifyAttestationPayload and setTEEPAgentKey.              *)
(***************************************************************************)

SubmitAttestationPayload(r) ==
    LET e == req[r].msg.evidence
    IN  /\ At(r, "verify")
        /\ \E answer \in VerifierAnswers(e) :
            IF answer = "affirming" /\ ClaimsOK(e) /\ AttestationNonce(e) # None
            THEN Goto(r, "consumeChallenge")
            ELSE Fail(r)
        /\ UNCHANGED <<db, out, answers, enrolment>>

\* searchSentMessageWithChallenge, first statement.
ConsumeChallenge(r) ==
    LET c == AttestationNonce(req[r].msg.evidence)
    IN  /\ At(r, "consumeChallenge")
        /\ \/ /\ CanConsume(c)
              /\ nonce' = [nonce EXCEPT ![c] = "spent"]
              /\ Goto(r, "findChallenge")
           \/ /\ Fail(r)
              /\ UNCHANGED nonce
        /\ UNCHANGED <<queries, updates, agents, revoked, expired, published,
                       holding, reports, out, answers, enrolment>>

\* The pc of processQueryResponse for a message that answers a challenge: the
\* sent message carries no token.
AfterAttestation(m) ==
    IF TokenMatches(m, [type |-> "QueryRequest", token |-> None]) THEN "newToken" ELSE "idle"

\* searchSentMessageWithChallenge, second statement, and the choice between a
\* sender authenticated by its kid and one that proves the attested key.
FindChallenge(r) ==
    LET m == req[r].msg
        c == AttestationNonce(m.evidence)
    IN  /\ At(r, "findChallenge")
        /\ \/ /\ c \in queries
              /\ answers' = [answers EXCEPT ![c] = @ + 1]
              /\ Continue(r, [req[r] EXCEPT
                    !.sent = [type |-> "QueryRequest", token |-> None],
                    !.pc   = IF req[r].kid # None THEN AfterAttestation(m)
                             ELSE IF ProvesAttestedKey(m) THEN "findKey" ELSE "idle"])
           \/ /\ Fail(r)
              /\ UNCHANGED answers
        /\ UNCHANGED <<db, out, enrolment>>

\* setTEEPAgentKey, FindByKIDIgnoreRevoked: an expired row is an error, any
\* other row is left as it is.
FindKey(r) ==
    LET m == req[r].msg
        k == m.evidence.key
    IN  /\ At(r, "findKey")
        /\ \/ /\ k \in agents \ expired
              /\ Continue(r, [req[r] EXCEPT !.kid = k, !.pc = AfterAttestation(m)])
           \/ /\ k \notin agents
              /\ Goto(r, "createKey")
           \/ Fail(r)
        /\ UNCHANGED <<db, out, answers, enrolment>>

\* Fault: INSERT OR REPLACE.
CanReplaceKey(k) == k \in Agents

\* setTEEPAgentKey, AgentRepository.Create: the column kid is UNIQUE.  The new
\* row is neither revoked nor expired.
CanCreateKey(k) == k \notin agents

CreateKey(r) ==
    LET m == req[r].msg
        k == m.evidence.key
    IN  /\ At(r, "createKey")
        /\ \/ /\ CanCreateKey(k)
              /\ agents' = agents \cup {k}
              /\ revoked' = revoked \ {k}
              /\ expired' = expired \ {k}
              /\ enrolment' = [enrolment EXCEPT ![k] =
                    [challenge |-> m.evidence.nonce, signer |-> m.signer]]
              /\ Continue(r, [req[r] EXCEPT !.kid = k, !.pc = AfterAttestation(m)])
           \/ /\ Fail(r)
              /\ UNCHANGED <<agents, revoked, expired, enrolment>>
        /\ UNCHANGED <<nonce, queries, updates, published, holding, reports, out, answers>>

-----------------------------------------------------------------------------
(***************************************************************************)
(* Answers: QueryRequest with token, QueryRequest with challenge, Update.  *)
(***************************************************************************)

\* generateToken, for a new session or as the first thing an accepted
\* QueryResponse does, before it is known whether there is anything to send.
NewToken(r) ==
    /\ At(r, "newToken")
    /\ \/ \E t \in Tokens :
            /\ IsUnique(t)
            /\ nonce' = [nonce EXCEPT ![t] = "outstanding"]
            /\ Continue(r, [req[r] EXCEPT
                    !.fresh = t,
                    !.pc    = IF req[r].msg.type = "Empty" THEN "saveQuery"
                              ELSE IF req[r].msg.components = {} THEN "idle"
                              ELSE "lookup"])
       \/ /\ Fail(r)
          /\ UNCHANGED nonce
    /\ UNCHANGED <<queries, updates, agents, revoked, expired, published, holding,
                   reports, out, answers, enrolment>>

\* generateChallenge in generateQueryRequestWithAttestation.
NewChallenge(r) ==
    /\ At(r, "newChallenge")
    /\ \/ \E c \in Challenges :
            /\ IsUnique(c)
            /\ nonce' = [nonce EXCEPT ![c] = "outstanding"]
            /\ Continue(r, [req[r] EXCEPT !.fresh = c, !.pc = "saveQuery"])
       \/ /\ Fail(r)
          /\ UNCHANGED nonce
    /\ UNCHANGED <<queries, updates, agents, revoked, expired, published, holding,
                   reports, out, answers, enrolment>>

\* saveSentQueryRequest: CreateWithToken or CreateWithChallenge refuse a value
\* that is already consumed.
SaveQuery(r) ==
    /\ At(r, "saveQuery")
    /\ \/ /\ CanConsume(req[r].fresh)
          /\ queries' = queries \cup {req[r].fresh}
          /\ Goto(r, "reply")
       \/ /\ Fail(r)
          /\ UNCHANGED queries
    /\ UNCHANGED <<nonce, updates, agents, revoked, expired, published, holding,
                   reports, out, answers, enrolment>>

\* processQueryResponse: one SELECT per component of requested-tc-list and
\* tc-list; the rest of the list is what is left in msg.components.
Lookup(r) ==
    /\ At(r, "lookup")
    /\ \/ \E c \in req[r].msg.components :
            LET rest == req[r].msg.components \ {c}
                got  == req[r].picked \cup LatestManifest(c)
            IN  Continue(r, [req[r] EXCEPT
                    !.msg.components = rest,
                    !.picked = got,
                    !.pc = IF rest # {} THEN "lookup"
                           ELSE IF got = {} THEN "idle" ELSE "findAgent"])
       \/ Fail(r)
    /\ UNCHANGED <<db, out, answers, enrolment>>

\* saveSentUpdate, CreateWithToken: the agent must still be known and valid.
FindAgent(r) ==
    /\ At(r, "findAgent")
    /\ \/ FindByKID(req[r].kid) /\ Goto(r, "insertUpdate")
       \/ Fail(r)
    /\ UNCHANGED <<db, out, answers, enrolment>>

\* CreateWithToken: the token must not be consumed; the Update row.
InsertUpdate(r) ==
    LET t == req[r].fresh
    IN  /\ At(r, "insertUpdate")
        /\ \/ /\ CanConsume(t)
              /\ updates' = [updates EXCEPT ![t] = [agent |-> req[r].kid, manifests |-> {}]]
              /\ Goto(r, "linkManifests")
           \/ /\ Fail(r)
              /\ UNCHANGED updates
        /\ UNCHANGED <<nonce, queries, agents, revoked, expired, published, holding,
                       reports, out, answers, enrolment>>

\* Fault: the loop ends after its first turn.
SomeLinked(r, linked) == linked # {}

\* The loop over the manifests of the Update is over.
AllLinked(r, linked) == req[r].picked \subseteq linked

\* CreateWithToken: one row of sent_manifests_in_update_messages per manifest,
\* each in a statement of its own and in no transaction.
LinkManifest(r) ==
    LET t == req[r].fresh
    IN  /\ At(r, "linkManifests")
        /\ \/ \E m \in req[r].picked \ updates[t].manifests :
                LET linked == updates[t].manifests \cup {m}
                IN  /\ updates' = [updates EXCEPT ![t].manifests = linked]
                    /\ Goto(r, IF AllLinked(r, linked) THEN "reply" ELSE "linkManifests")
           \/ /\ Fail(r)
              /\ UNCHANGED updates
        /\ UNCHANGED <<nonce, queries, agents, revoked, expired, published, holding,
                       reports, out, answers, enrolment>>

\* The HTTP response with the signed message (200).
Reply(r) ==
    /\ At(r, "reply")
    /\ out' = out \cup
         {[type |-> IF req[r].picked = {} THEN "QueryRequest" ELSE "Update",
           nonce |-> req[r].fresh, manifests |-> req[r].picked]}
    /\ Fail(r)
    /\ UNCHANGED <<db, answers, enrolment>>

-----------------------------------------------------------------------------
(***************************************************************************)
(* Success and Error: the SUIT_Reports.                                    *)
(***************************************************************************)

\* Fault: the former holding is not marked deleted.
ReflectWithoutDelete(a, m) ==
    /\ holding' = [holding EXCEPT ![a] = @ \cup {m}]
    /\ reports' = reports \cup {[agent |-> a, manifest |-> m, resolved |-> TRUE]}

\* ReflectManifestSuccess, one transaction: the active holding of the same
\* component gives way to the reported manifest.
ReflectManifestSuccess(a, m) ==
    /\ holding' = [holding EXCEPT ![a] =
            {h \in @ : h.component # m.component} \cup {m}]
    /\ reports' = reports \cup {[agent |-> a, manifest |-> m, resolved |-> TRUE]}

\* RecordManifestProcessingFailure
RecordManifestProcessingFailure(a, m) ==
    /\ reports' = reports \cup {[agent |-> a, resolved |-> FALSE,
                                 manifest |-> IF KnownManifest(m) THEN m ELSE None]}
    /\ UNCHANGED holding

\* One turn of the loop over the reports.  Both branches of the type switch
\* look at reports whose result is ok; errors of the database are ignored.
HandleReport(r) ==
    LET m == req[r].msg
    IN  /\ At(r, "handleReports")
        /\ \/ /\ m.reports = {}
              /\ Fail(r)
              /\ UNCHANGED <<holding, reports>>
           \/ \E rep \in m.reports :
                /\ Continue(r, [req[r] EXCEPT !.msg.reports = @ \ {rep}])
                /\ \/ /\ rep.kind = "ok" /\ m.type = "Success"
                      /\ KnownManifest(rep.manifest)
                      /\ ReflectManifestSuccess(req[r].kid, rep.manifest)
                   \/ /\ rep.kind = "ok" /\ m.type = "Error"
                      /\ RecordManifestProcessingFailure(req[r].kid, rep.manifest)
                   \/ UNCHANGED <<holding, reports>>
        /\ UNCHANGED <<nonce, queries, updates, agents, revoked, expired, published,
                       out, answers, enrolment>>

-----------------------------------------------------------------------------
(***************************************************************************)
(* The rest of the program and the passing of time.                        *)
(***************************************************************************)

\* revokeTEEPAgentKey / RevokeByKID.
Revoke(a) ==
    /\ a \in agents \ revoked
    /\ revoked' = revoked \cup {a}
    /\ UNCHANGED <<nonce, queries, updates, agents, expired, published, holding,
                   reports, req, out, answers, enrolment>>

\* The year a key is valid for is over.
Expire(a) ==
    /\ a \in agents \ expired
    /\ expired' = expired \cup {a}
    /\ UNCHANGED <<nonce, queries, updates, agents, revoked, published, holding,
                   reports, req, out, answers, enrolment>>

\* SetEnvelope has accepted the next manifest of a component.
Publish(c) ==
    /\ published[c] < MaxSeq
    /\ published' = [published EXCEPT ![c] = @ + 1]
    /\ UNCHANGED <<nonce, queries, updates, agents, revoked, expired, holding,
                   reports, req, out, answers, enrolment>>

\* The process dies and is started again on the same database file.
Crash ==
    /\ \E r \in Requests : ~At(r, "idle")
    /\ req' = [r \in Requests |-> Idle]
    /\ UNCHANGED <<db, out, answers, enrolment>>

\* One step of the goroutine that serves request r.
Serve(r) ==
    \/ Authenticate(r)
    \/ ConsumeToken(r)
    \/ FindSent(r)
    \/ SubmitAttestationPayload(r)
    \/ ConsumeChallenge(r)
    \/ FindChallenge(r)
    \/ FindKey(r)
    \/ CreateKey(r)
    \/ NewToken(r)
    \/ NewChallenge(r)
    \/ SaveQuery(r)
    \/ Lookup(r)
    \/ FindAgent(r)
    \/ InsertUpdate(r)
    \/ LinkManifest(r)
    \/ Reply(r)
    \/ HandleReport(r)

Next ==
    \/ \E r \in Requests : StartSession(r) \/ Receive(r) \/ Serve(r)
    \/ \E a \in Agents : Revoke(a) \/ Expire(a)
    \/ \E c \in Components : Publish(c)
    \/ Crash

Spec == Init /\ [][Next]_vars

\* A goroutine that can run does run: the Go scheduler is fair, every SQL
\* statement returns and the Verifier client has a timeout.
FairSpec == Spec /\ \A r \in Requests : WF_vars(Serve(r))

-----------------------------------------------------------------------------
(***************************************************************************)
(* Properties.                                                             *)
(***************************************************************************)

Ledger == INSTANCE NonceLedger WITH Values <- Nonces, state <- nonce, answers <- answers

\* Tokens and challenges are issued once, spent once and answered at most once,
\* however many copies of a message are processed at the same time: the handler
\* implements NonceLedger (searchSentMessageWithToken / ...WithChallenge).
OneTimeNonces == Ledger!LedgerSpec

\* A token or challenge names one message of the TAM: no two replies carry the
\* same value with different contents, and no value is recorded both as a
\* QueryRequest and as an Update, although replies are composed concurrently.
NonceNamesOneMessage ==
    /\ \A m1, m2 \in out : m1.nonce = m2.nonce => m1 = m2
    /\ \A t \in Tokens : t \in queries => updates[t].agent = None

\* Whatever the TAM has answered is in the database in full, although rows are
\* written by several statements without a transaction and the process may die
\* between them: an answer to it can be matched (saveSentQueryRequest,
\* SentUpdateMessageRepository.CreateWithToken before the response is sent).
RepliesAreRecorded ==
    \A m \in out :
        IF m.type = "QueryRequest" THEN m.nonce \in queries
        ELSE /\ m.nonce \in Tokens
             /\ updates[m.nonce].agent # None
             /\ updates[m.nonce].manifests = m.manifests

\* A key that was not seeded is in the table of agents only because of a fresh
\* attestation: the Verifier affirmed that very key, its owner signed the
\* message, and the challenge was one the TAM had sent and was answered once
\* (so one challenge never enrols two keys).
EnrolledByFreshAttestation ==
    /\ \A a \in agents \ Seeded :
        LET e == enrolment[a]
        IN  /\ a \in Genuine /\ e.signer = a
            /\ e.challenge \in queries /\ nonce[e.challenge] = "spent"
            /\ answers[e.challenge] = 1
    /\ \A a, b \in agents \ Seeded :
        enrolment[a].challenge = enrolment[b].challenge => a = b

\* No Update is recorded or sent for an agent whose key was already revoked or
\* expired when the request arrived, even if the agent attests again
\* (setTEEPAgentKey accepts a revoked row, CreateWithToken does not).
NoUpdateForBarredAgent ==
    \A r \in Requests :
        req[r].pc \in {"insertUpdate", "linkManifests"} \/ (At(r, "reply") /\ req[r].picked # {})
            => req[r].kid \in agents \ req[r].barred

\* An agent's status shows at most one manifest per component, and only ones
\* the repository has accepted (ReflectManifestSuccess under concurrent,
\* repeated and reordered reports).
HoldingsConsistent ==
    \A a \in Agents : \A h1, h2 \in holding[a] :
        /\ h1.component = h2.component => h1 = h2
        /\ KnownManifest(h1) /\ a \in agents

\* Revocation and expiry are final: no step of any request removes a key or
\* makes a revoked or expired key valid again (setTEEPAgentKey on a key that
\* another request stored and that was revoked in the meantime).
RevocationIsFinal ==
    [][agents \subseteq agents' /\ revoked \subseteq revoked' /\ expired \subseteq expired']_vars

\* What doc/TEEP_MESSAGE_HANDLE.md says of a QueryResponse with a token: the
\* token is the one of a QueryRequest.  ResolveTEEPMessage takes any message of
\* its own for sentMessage, an Update too.
QueryResponseAnswersQueryRequest ==
    \A r \in Requests :
        req[r].msg.type = "QueryResponse" /\ req[r].pc \in {"newToken", "newChallenge"}
            => req[r].sent.type = "QueryRequest"

\* Every request ends, with a message or with a status alone.
RequestsEnd == \A r \in Requests : ~At(r, "idle") ~> At(r, "idle")

-----------------------------------------------------------------------------
(***************************************************************************)
(* What makes those properties inductive: what a request's program counter *)
(* says of its locals, who may still answer a spent nonce, and who owns a  *)
(* nonce between its creation and the reply that carries it.               *)
(***************************************************************************)
Composing == {"lookup", "findAgent", "insertUpdate", "linkManifests"}

LocalOK(q) ==
    /\ q.pc = "findSent" => q.msg.token \in Tokens
    /\ q.pc \in {"consumeChallenge", "findChallenge", "findKey", "createKey"} =>
            /\ AttestationNonce(q.msg.evidence) \in Challenges
            /\ q.msg.evidence.key \in Genuine
    /\ q.pc \in {"findKey", "createKey"} => q.msg.signer = q.msg.evidence.key
    /\ q.pc = "newToken" /\ q.msg.type # "Empty" => q.kid \in Agents
    /\ q.pc = "handleReports" => q.kid \in Agents
    /\ q.pc \in Composing => q.fresh \in Tokens /\ q.kid \in Agents
    /\ q.pc = "reply" /\ q.picked # {} => q.fresh \in Tokens /\ q.kid \in Agents
    /\ q.pc \in {"saveQuery", "reply"} => q.fresh \in Nonces
    /\ q.pc \notin Composing \cup {"saveQuery", "reply"} => q.fresh = None
    /\ q.pc \in {"findAgent", "insertUpdate", "linkManifests"} => q.picked # {}
    /\ q.pc \notin Composing \cup {"reply"} => q.picked = {}

LocalInv == \A r \in Requests : LocalOK(req[r])

\* The nonce that request q has spent and has not yet looked up.
Spending(q) ==
    CASE q.pc = "findSent"      -> q.msg.token
      [] q.pc = "findChallenge" -> AttestationNonce(q.msg.evidence)
      [] OTHER                  -> None

NonceInv ==
    /\ \A v \in Nonces : answers[v] # 0 => nonce[v] = "spent" /\ answers[v] = 1
    /\ \A r \in Requests : Spending(req[r]) # None =>
            nonce[Spending(req[r])] = "spent" /\ answers[Spending(req[r])] = 0
    /\ \A r1, r2 \in Requests :
            Spending(req[r1]) = Spending(req[r2]) /\ Spending(req[r1]) # None => r1 = r2

\* A nonce belongs to the request that generated it until that request ends,
\* and to one row of the database from then on.
OwnerInv ==
    /\ \A v \in Nonces : nonce[v] = "unissued" => v \notin queries
    /\ \A t \in Tokens : nonce[t] = "unissued" => updates[t] = NoUpdate
    /\ \A r \in Requests : req[r].fresh # None =>
            /\ nonce[req[r].fresh] # "unissued"
            /\ \A m \in out : m.nonce # req[r].fresh
    /\ \A r1, r2 \in Requests :
            req[r1].fresh = req[r2].fresh /\ req[r1].fresh # None => r1 = r2
    /\ \A m \in out : nonce[m.nonce] # "unissued"

\* How far the rows for the reply being composed have been written.
RowInv ==
    \A r \in Requests :
        LET q == req[r] IN
        /\ q.pc \in Composing \cup {"saveQuery"} => q.fresh \notin queries
        /\ q.pc \in {"lookup", "findAgent", "insertUpdate", "saveQuery"} /\ q.fresh \in Tokens
                => updates[q.fresh].agent = None
        /\ q.pc = "linkManifests" =>
                /\ updates[q.fresh].agent # None
                /\ updates[q.fresh].manifests \subseteq q.picked
        /\ q.pc = "reply" =>
                IF q.picked = {} THEN q.fresh \in queries
                ELSE /\ updates[q.fresh].agent # None
                     /\ updates[q.fresh].manifests = q.picked

\* An enrolment in progress holds a challenge that was sent, that it alone was
\* accepted for, and that enrolled nobody so far.
EnrolInv ==
    /\ \A r \in Requests : req[r].pc \in {"findKey", "createKey"} =>
        LET c == AttestationNonce(req[r].msg.evidence)
        IN  /\ c \in queries /\ answers[c] = 1
            /\ \A a \in agents \ Seeded : enrolment[a].challenge # c
            /\ \A r2 \in Requests \ {r} :
                req[r2].pc \in {"findKey", "createKey"} =>
                    AttestationNonce(req[r2].msg.evidence) # c

BarredInv ==
    /\ revoked \subseteq agents /\ expired \subseteq agents
    /\ \A r \in Requests :
        /\ req[r].barred \subseteq revoked \cup expired
        /\ req[r].kid # None => req[r].kid \in agents
=============================================================================
