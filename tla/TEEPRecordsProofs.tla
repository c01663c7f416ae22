------------------------- MODULE TEEPRecordsProofs -------------------------
(***************************************************************************)
(* More proofs about TEEPSession: what the tables record of the messages   *)
(* the TAM has sent, of the keys it has enrolled and of the manifests that *)
(* agents hold.  TEEPSessionProofs has the types (TypeOK, LocalInv) and    *)
(* the invariants of nonces (NonceInv) and keys (BarredInv).               *)
(***************************************************************************)
EXTENDS TEEPSessionProofs

USE DEF At

-----------------------------------------------------------------------------
(***************************************************************************)
(* Messages and the rows that record them.                                 *)
(***************************************************************************)

\* A value that was issued stays issued.
Issued == \A v \in Nonces : nonce'[v] = "unissued" => nonce[v] = "unissued"

LEMMA IssuedForGood ==
  ASSUME TypeOK, LocalInv, [Next]_vars
  PROVE  Issued
<1>1. CASE Calm
  BY <1>1 DEF Calm, Issued
<1>2. ASSUME NEW r \in Requests, NEW v \in Nonces, Spends(r, v) \/ Accepts(r, v) \/ Issues(r, v)
      PROVE  Issued
  BY <1>2 DEF Spends, Accepts, Issues, Issued, TypeOK
<1> QED
  BY <1>1, <1>2, NonceSteps

\* The rows of RowInv, for one request.
RowOK(q) ==
  /\ q.pc \in Composing \cup {"saveQuery"} => q.fresh \notin queries
  /\ q.pc \in {"lookup", "findAgent", "insertUpdate", "saveQuery"} /\ q.fresh \in Tokens
        => updates[q.fresh].agent = None
  /\ q.pc = "linkManifests" =>
        /\ updates[q.fresh].agent # None
        /\ updates[q.fresh].manifests \subseteq q.picked
  /\ q.pc = "reply" =>
        IF q.picked = {} THEN q.fresh \in queries
        ELSE /\ updates[q.fresh].agent # None
             /\ updates[q.fresh].manifests = q.picked

\* All that is said of the tables of sent messages.
RecordInv == OwnerInv /\ RowInv /\ NonceNamesOneMessage /\ RepliesAreRecorded

\* A step that records and sends nothing: request r has no value of its own
\* afterwards, or composes an Update with the one it had and has stored nothing.
Follows(r) ==
  /\ UNCHANGED <<queries, updates, out>>
  /\ \A x \in Requests \ {r} : req'[x] = req[x]
  /\ \/ req'[r].fresh = None
     \/ /\ req[r].pc \in {"lookup", "findAgent"}
        /\ req'[r].pc \in {"lookup", "findAgent", "insertUpdate"}
        /\ req'[r].fresh = req[r].fresh

\* A request that has no value yet has none after a local transition that
\* generates none.
LEMMA FollowsFresh ==
  ASSUME TypeOK, NEW r \in Requests, NEW state, Continue(r, state),
         UNCHANGED <<queries, updates, out>>, state.fresh = None \/ state.pc = "idle"
  PROVE  Follows(r)
  BY DEF Continue, Follows, TypeOK, Idle

\* Ending a request gives its value up.
LEMMA FollowsFail ==
  ASSUME TypeOK, NEW r \in Requests, Fail(r), UNCHANGED <<queries, updates, out>>
  PROVE  Follows(r)
<1> DEFINE q == [req[r] EXCEPT !.pc = "idle"]
<1>1. q.pc = "idle"
  BY DEF TypeOK, RequestState
<1>2. Continue(r, q)
  BY DEF Fail, Goto
<1> HIDE DEF q
<1> QED
  BY <1>1, <1>2, FollowsFresh

\* The steps that end in Follows: all but the generation of a value, the
\* statements that record a message and the reply.
LEMMA FollowSteps ==
  ASSUME TypeOK, LocalInv, NEW r \in Requests,
         \/ StartSession(r) \/ Receive(r) \/ Authenticate(r) \/ ConsumeToken(r) \/ FindSent(r)
         \/ SubmitAttestationPayload(r) \/ ConsumeChallenge(r) \/ FindChallenge(r)
         \/ FindKey(r) \/ CreateKey(r) \/ Lookup(r) \/ FindAgent(r) \/ HandleReport(r)
  PROVE  Follows(r)
<1>0. req[r] \in RequestState /\ LocalOK(req[r]) /\ UNCHANGED <<queries, updates, out>>
  BY DEF TypeOK, LocalInv, StartSession, Receive, Authenticate, ConsumeToken, FindSent,
     SubmitAttestationPayload, ConsumeChallenge, FindChallenge, FindKey, CreateKey, Lookup,
     FindAgent, HandleReport, db
<1>1. CASE StartSession(r) \/ Receive(r)
  BY <1>0, <1>1 DEF StartSession, Receive, Follows, TypeOK, Idle
<1>2. ASSUME NEW l, Goto(r, l), req[r].fresh = None PROVE Follows(r)
  <2> DEFINE q == [req[r] EXCEPT !.pc = l]
  <2>1. q.fresh = None /\ Continue(r, q)
    BY <1>0, <1>2 DEF Goto, RequestState
  <2> HIDE DEF q
  <2> QED
    BY <1>0, <2>1, FollowsFresh
<1>3. CASE \/ Authenticate(r) \/ ConsumeToken(r) \/ FindSent(r) \/ SubmitAttestationPayload(r)
           \/ ConsumeChallenge(r) \/ FindChallenge(r) \/ FindKey(r) \/ CreateKey(r)
           \/ HandleReport(r)
  <2>1. req[r].fresh = None
    BY <1>0, <1>3 DEF LocalOK, Composing, Authenticate, ConsumeToken, FindSent,
       SubmitAttestationPayload, ConsumeChallenge, FindChallenge, FindKey, CreateKey, HandleReport
  <2>2. ASSUME NEW k, NEW l, Continue(r, [req[r] EXCEPT !.kid = k, !.pc = l])
        PROVE  Follows(r)
    <3>1. [req[r] EXCEPT !.kid = k, !.pc = l].fresh = None
      BY <1>0, <2>1 DEF RequestState
    <3> QED
      BY <1>0, <2>2, <3>1, FollowsFresh
  <2>3. ASSUME NEW s, NEW l, Continue(r, [req[r] EXCEPT !.sent = s, !.pc = l])
        PROVE  Follows(r)
    <3>1. [req[r] EXCEPT !.sent = s, !.pc = l].fresh = None
      BY <1>0, <2>1 DEF RequestState
    <3> QED
      BY <1>0, <2>3, <3>1, FollowsFresh
  <2>4. ASSUME NEW rep, Continue(r, [req[r] EXCEPT !.msg.reports = @ \ {rep}])
        PROVE  Follows(r)
    <3>1. [req[r] EXCEPT !.msg.reports = @ \ {rep}].fresh = None
      BY <1>0, <2>1 DEF RequestState
    <3> QED
      BY <1>0, <2>4, <3>1, FollowsFresh
  <2>5. CASE Authenticate(r) \/ FindKey(r) \/ CreateKey(r)
    BY <1>0, <1>2, <2>1, <2>2, <2>5, FollowsFail DEF Authenticate, FindKey, CreateKey
  <2>6. CASE ConsumeToken(r) \/ SubmitAttestationPayload(r) \/ ConsumeChallenge(r)
    BY <1>0, <1>2, <2>1, <2>6, FollowsFail DEF ConsumeToken, SubmitAttestationPayload, ConsumeChallenge
  <2>7. CASE FindSent(r)
    BY <2>3, <2>7 DEF FindSent
  <2>8. CASE FindChallenge(r)
    BY <1>0, <2>3, <2>8, FollowsFail DEF FindChallenge
  <2>9. CASE HandleReport(r)
    BY <1>0, <2>4, <2>9, FollowsFail DEF HandleReport
  <2> QED
    BY <1>3, <2>5, <2>6, <2>7, <2>8, <2>9
<1>4. CASE Lookup(r)
  <2>1. ASSUME NEW m, NEW p, NEW l \in {"lookup", "idle", "findAgent"},
               Continue(r, [req[r] EXCEPT !.msg.components = m, !.picked = p, !.pc = l])
        PROVE  Follows(r)
    BY <1>0, <1>4, <2>1 DEF Continue, Follows, Lookup, TypeOK, RequestState, Idle
  <2> QED
    BY <1>0, <1>4, <2>1, FollowsFail DEF Lookup
<1>5. CASE FindAgent(r)
  <2>1. ASSUME Goto(r, "insertUpdate") PROVE Follows(r)
    BY <1>0, <1>5, <2>1 DEF Goto, Continue, Follows, FindAgent, TypeOK, RequestState
  <2> QED
    BY <1>0, <1>5, <2>1, FollowsFail DEF FindAgent
<1> QED
  BY <1>1, <1>3, <1>4, <1>5

\* RowInv is RowOK of every request.
LEMMA RowParts == RowInv <=> \A r \in Requests : RowOK(req[r])
  BY DEF RowInv, RowOK

\* A step that sends and records nothing keeps what the tables say.
LEMMA FollowsInv ==
  ASSUME TypeOK, LocalInv, RecordInv, Issued, NEW r \in Requests, Follows(r),
         TypeOK', LocalInv'
  PROVE  RecordInv'
<1>1. ASSUME NEW x \in Requests
      PROVE  req'[x].fresh = None \/ req'[x].fresh = req[x].fresh
  BY DEF Follows
<1>n. \A x \in Requests : req'[x].fresh \in Nonces \cup {None}
  BY DEF TypeOK, RequestState
<1>o. \A m \in out : m.nonce \in Nonces
  BY DEF TypeOK, OutMessage
<1>2. OwnerInv'
  <2>1. UNCHANGED <<queries, updates, out>>
    BY DEF Follows
  <2>2. /\ \A v \in Nonces : nonce'[v] = "unissued" => v \notin queries'
        /\ \A t \in Tokens : nonce'[t] = "unissued" => updates'[t] = NoUpdate
        /\ \A m \in out' : nonce'[m.nonce] # "unissued"
    BY <1>o, <2>1 DEF RecordInv, OwnerInv, Issued, Nonces
  <2>3. ASSUME NEW x \in Requests, req'[x].fresh # None
        PROVE  nonce'[req'[x].fresh] # "unissued" /\ \A m \in out' : m.nonce # req'[x].fresh
    BY <1>1, <1>n, <2>1, <2>3 DEF RecordInv, OwnerInv, Issued
  <2>4. ASSUME NEW x \in Requests, NEW y \in Requests,
               req'[x].fresh = req'[y].fresh, req'[x].fresh # None
        PROVE  x = y
    BY <1>1, <2>4 DEF RecordInv, OwnerInv
  <2> QED
    BY <2>2, <2>3, <2>4 DEF OwnerInv
<1>3. ASSUME NEW x \in Requests PROVE RowOK(req[x])'
  <2>1. RowOK(req[x]) /\ LocalOK(req'[x])
    BY RowParts DEF RecordInv, LocalInv
  <2>2. CASE req'[x].fresh = None
    <3>1. req'[x].pc \notin Composing \cup {"saveQuery", "reply"}
      BY <2>1, <2>2, NoneAssumption DEF LocalOK, Nonces
    <3> QED
      BY <3>1 DEF RowOK, Composing
  <2>3. CASE req'[x] = req[x]
    BY <2>1, <2>3 DEF RowOK, Follows
  <2>4. CASE /\ req[x].pc \in {"lookup", "findAgent"}
             /\ req'[x].pc \in {"lookup", "findAgent", "insertUpdate"}
             /\ req'[x].fresh = req[x].fresh
    BY <2>1, <2>4 DEF RowOK, Follows, Composing
  <2> QED
    BY <2>2, <2>3, <2>4 DEF Follows
<1>4. RowInv'
  BY <1>3 DEF RowInv, RowOK
<1>5. NonceNamesOneMessage' /\ RepliesAreRecorded'
  BY DEF RecordInv, NonceNamesOneMessage, RepliesAreRecorded, Follows
<1> QED
  BY <1>2, <1>4, <1>5 DEF RecordInv

\* A new token or challenge belongs to the request that generated it; no row
\* and no message of the TAM carries it yet.
LEMMA IssueInv ==
  ASSUME TypeOK, LocalInv, RecordInv, NEW r \in Requests, NEW v \in Nonces,
         NEW l \in {"saveQuery", "lookup"},
         IsUnique(v), nonce' = [nonce EXCEPT ![v] = "outstanding"],
         req' = [req EXCEPT ![r] = [req[r] EXCEPT !.fresh = v, !.pc = l]],
         UNCHANGED <<queries, updates, out>>
  PROVE  RecordInv'
<1>0. /\ req'[r].fresh = v /\ req'[r].pc = l
      /\ \A x \in Requests \ {r} : req'[x] = req[x]
      /\ \A w \in Nonces : nonce'[w] = IF w = v THEN "outstanding" ELSE nonce[w]
  BY DEF TypeOK, RequestState
<1>1. /\ nonce[v] = "unissued" /\ v \notin queries
      /\ v \in Tokens => updates[v] = NoUpdate
      /\ \A m \in out : m.nonce # v /\ m.nonce \in Nonces
      /\ \A x \in Requests : req[x].fresh # v
  BY NoneAssumption DEF IsUnique, RecordInv, OwnerInv, TypeOK, OutMessage, Nonces
<1>n. \A x \in Requests : req[x].fresh \in Nonces \cup {None}
  BY DEF TypeOK, RequestState
<1>2. OwnerInv'
  BY <1>0, <1>1, <1>n DEF RecordInv, OwnerInv, Nonces
<1>3. ASSUME NEW x \in Requests PROVE RowOK(req[x])'
  <2>1. CASE x # r
    BY <1>0, <2>1, RowParts DEF RecordInv, RowOK
  <2>2. CASE x = r
    BY <1>0, <1>1, <2>2 DEF RowOK, NoUpdate, Composing
  <2> QED
    BY <2>1, <2>2
<1>4. RowInv'
  BY <1>3 DEF RowInv, RowOK
<1>5. NonceNamesOneMessage' /\ RepliesAreRecorded'
  BY DEF RecordInv, NonceNamesOneMessage, RepliesAreRecorded
<1> QED
  BY <1>2, <1>4, <1>5 DEF RecordInv

\* The row of a QueryRequest goes under a value that no other request and no
\* message already sent has.
LEMMA SaveQueryInv ==
  ASSUME TypeOK, LocalInv, RecordInv, NEW r \in Requests, SaveQuery(r),
         queries' = queries \cup {req[r].fresh}, Goto(r, "reply")
  PROVE  RecordInv'
<1> DEFINE v == req[r].fresh
<1>0. /\ req[r] \in RequestState /\ LocalOK(req[r]) /\ RowOK(req[r]) /\ req[r].pc = "saveQuery"
      /\ UNCHANGED <<nonce, updates, out>>
  BY RowParts DEF SaveQuery, TypeOK, LocalInv, RecordInv
<1>1. /\ v \in Nonces /\ v # None /\ req[r].picked = {}
  BY <1>0, NoneAssumption DEF LocalOK, Composing, Nonces
<1>2. /\ \A x \in Requests \ {r} : req'[x] = req[x] /\ req[x].fresh # v
      /\ req'[r] = [req[r] EXCEPT !.pc = "reply"]
  BY <1>1, GotoStep DEF Labels, RecordInv, OwnerInv
<1>3. req'[r].fresh = v /\ req'[r].pc = "reply" /\ req'[r].picked = {}
  BY <1>0, <1>1, <1>2 DEF RequestState
<1>4. OwnerInv'
  <2>1. \A x \in Requests : req'[x].fresh = req[x].fresh
    BY <1>2, <1>3
  <2>2. nonce[v] # "unissued"
    BY <1>1 DEF RecordInv, OwnerInv
  <2> QED
    BY <1>0, <2>1, <2>2 DEF RecordInv, OwnerInv
<1>5. ASSUME NEW x \in Requests PROVE RowOK(req[x])'
  <2>1. CASE x # r
    BY <1>0, <1>2, <2>1, RowParts DEF RecordInv, RowOK
  <2>2. CASE x = r
    BY <1>3, <2>2 DEF RowOK, Composing
  <2> QED
    BY <2>1, <2>2
<1>6. RowInv'
  BY <1>5 DEF RowInv, RowOK
<1>7. NonceNamesOneMessage'
  BY <1>0 DEF RecordInv, NonceNamesOneMessage, RowOK
<1>8. RepliesAreRecorded'
  BY <1>0 DEF RecordInv, RepliesAreRecorded
<1> QED
  BY <1>4, <1>6, <1>7, <1>8 DEF RecordInv

\* A statement that changes the row of the Update that r composes changes no
\* row of another request and none of a message already sent.
LEMMA UpdateRowInv ==
  ASSUME TypeOK, LocalInv, RecordInv, NEW r \in Requests, NEW row \in UpdateRow,
         NEW l \in {"linkManifests", "reply"},
         req[r].pc \in {"insertUpdate", "linkManifests"},
         updates' = [updates EXCEPT ![req[r].fresh] = row], row.agent # None,
         row.manifests \subseteq req[r].picked,
         l = "reply" => row.manifests = req[r].picked,
         Goto(r, l), UNCHANGED <<nonce, queries, out>>
  PROVE  RecordInv'
<1> DEFINE v == req[r].fresh
<1>0. /\ req[r] \in RequestState /\ LocalOK(req[r]) /\ RowOK(req[r])
      /\ updates \in [Tokens -> UpdateRow]
  BY RowParts DEF TypeOK, LocalInv, RecordInv
<1>1. v \in Tokens /\ v # None /\ req[r].picked # {} /\ v \notin queries
  BY <1>0, NoneAssumption DEF LocalOK, Composing, RowOK
<1>2. /\ \A x \in Requests \ {r} : req'[x] = req[x] /\ req[x].fresh # v
      /\ req'[r] = [req[r] EXCEPT !.pc = l]
  BY <1>1, GotoStep DEF Labels, RecordInv, OwnerInv
<1>3. req'[r].fresh = v /\ req'[r].pc = l /\ req'[r].picked = req[r].picked
  BY <1>0, <1>2 DEF RequestState
<1>u. /\ updates'[v] = row /\ \A t \in Tokens \ {v} : updates'[t] = updates[t]
      /\ \A m \in out : m.nonce # v
      /\ nonce[v] # "unissued"
  BY <1>0, <1>1 DEF RecordInv, OwnerInv
<1>4. OwnerInv'
  <2>1. \A x \in Requests : req'[x].fresh = req[x].fresh
    BY <1>2, <1>3
  <2> QED
    BY <1>u, <2>1 DEF RecordInv, OwnerInv
<1>5. ASSUME NEW x \in Requests PROVE RowOK(req[x])'
  <2>1. CASE x # r
    <3>1. RowOK(req[x]) /\ LocalOK(req[x]) /\ req'[x] = req[x] /\ req[x].fresh # v
      BY <1>2, <2>1, RowParts DEF RecordInv, LocalInv
    <3>2. req[x].fresh \in Tokens => updates'[req[x].fresh] = updates[req[x].fresh]
      BY <1>u, <3>1
    <3> QED
      BY <3>1, <3>2 DEF RowOK, LocalOK, Composing
  <2>2. CASE x = r
    BY <1>1, <1>3, <1>u, <2>2 DEF RowOK, Composing
  <2> QED
    BY <2>1, <2>2
<1>6. RowInv'
  BY <1>5 DEF RowInv, RowOK
<1>7. NonceNamesOneMessage'
  BY <1>1, <1>u DEF RecordInv, NonceNamesOneMessage
<1>8. RepliesAreRecorded'
  BY <1>u DEF RecordInv, RepliesAreRecorded
<1> QED
  BY <1>4, <1>6, <1>7, <1>8 DEF RecordInv

\* The message that leaves is recorded in full and carries a value that no
\* message before it carried.
LEMMA ReplyInv ==
  ASSUME TypeOK, LocalInv, RecordInv, NEW r \in Requests, Reply(r)
  PROVE  RecordInv'
<1> DEFINE v == req[r].fresh
           new == [type |-> IF req[r].picked = {} THEN "QueryRequest" ELSE "Update",
                   nonce |-> v, manifests |-> req[r].picked]
<1>0. /\ req[r] \in RequestState /\ LocalOK(req[r]) /\ RowOK(req[r]) /\ req[r].pc = "reply"
      /\ UNCHANGED <<nonce, queries, updates>> /\ out' = out \cup {new} /\ Fail(r)
  BY RowParts DEF Reply, TypeOK, LocalInv, RecordInv, db
<1>1. /\ v \in Nonces /\ v # None /\ nonce[v] # "unissued"
      /\ \A m \in out : m.nonce # v
      /\ \A x \in Requests \ {r} : req[x].fresh # v
  BY <1>0, NoneAssumption DEF LocalOK, Nonces, RecordInv, OwnerInv
<1>2. /\ \A x \in Requests \ {r} : req'[x] = req[x]
      /\ req'[r].pc = "idle" /\ req'[r].fresh = None
  <2> DEFINE q == [req[r] EXCEPT !.pc = "idle"]
  <2>1. q.pc = "idle" /\ Continue(r, q)
    BY <1>0 DEF Fail, Goto, RequestState
  <2> HIDE DEF q
  <2> QED
    BY <2>1 DEF Continue, TypeOK, Idle
<1>3. /\ new.nonce = v /\ new.manifests = req[r].picked
      /\ new.type = "QueryRequest" <=> req[r].picked = {}
  OBVIOUS
<1> HIDE DEF new
<1>4. OwnerInv'
  BY <1>0, <1>1, <1>2, <1>3 DEF RecordInv, OwnerInv
<1>5. ASSUME NEW x \in Requests PROVE RowOK(req[x])'
  <2>1. CASE x # r
    BY <1>0, <1>2, <2>1, RowParts DEF RecordInv, RowOK
  <2>2. CASE x = r
    BY <1>2, <2>2 DEF RowOK, Composing
  <2> QED
    BY <2>1, <2>2
<1>6. RowInv'
  BY <1>5 DEF RowInv, RowOK
<1>7. NonceNamesOneMessage'
  BY <1>0, <1>1, <1>3 DEF RecordInv, NonceNamesOneMessage
<1>8. RepliesAreRecorded'
  <2>1. new.type = "QueryRequest" => new.nonce \in queries
    BY <1>0, <1>3 DEF RowOK
  <2>2. new.type # "QueryRequest" =>
          /\ new.nonce \in Tokens /\ updates[new.nonce].agent # None
          /\ updates[new.nonce].manifests = new.manifests
    BY <1>0, <1>3 DEF RowOK, LocalOK
  <2> QED
    BY <1>0, <2>1, <2>2 DEF RecordInv, RepliesAreRecorded
<1> QED
  BY <1>4, <1>6, <1>7, <1>8 DEF RecordInv

\* Every step keeps the tables of sent messages in order.
LEMMA RecordStep ==
  ASSUME TypeOK, LocalInv, RecordInv, [Next]_vars
  PROVE  RecordInv'
<1>0. TypeOK' /\ LocalInv' /\ Issued
  BY NextOK, IssuedForGood
<1>1. ASSUME NEW r \in Requests, Follows(r) PROVE RecordInv'
  BY <1>0, <1>1, FollowsInv
<1>2. ASSUME NEW r \in Requests, NEW v \in Nonces, NEW l \in {"saveQuery", "lookup", "idle"},
             IsUnique(v), nonce' = [nonce EXCEPT ![v] = "outstanding"],
             Continue(r, [req[r] EXCEPT !.fresh = v, !.pc = l]),
             UNCHANGED <<queries, updates, out>>
      PROVE  RecordInv'
  <2>1. [req[r] EXCEPT !.fresh = v, !.pc = l].pc = l
    BY DEF TypeOK, RequestState
  <2>2. CASE l = "idle"
    BY <1>1, <1>2, <2>1, <2>2, FollowsFresh
  <2>3. CASE l # "idle"
    BY <1>2, <2>1, <2>3, IssueInv DEF Continue
  <2> QED
    BY <2>2, <2>3
<1>3. ASSUME NEW r \in Requests, NewToken(r) \/ NewChallenge(r) PROVE RecordInv'
  BY <1>1, <1>2, <1>3, FollowsFail DEF NewToken, NewChallenge, Nonces
<1>4. ASSUME NEW r \in Requests, SaveQuery(r) PROVE RecordInv'
  BY <1>1, <1>4, SaveQueryInv, FollowsFail DEF SaveQuery
<1>5. ASSUME NEW r \in Requests, InsertUpdate(r) PROVE RecordInv'
  <2> DEFINE row == [agent |-> req[r].kid, manifests |-> {}]
  <2>1. CASE updates' = [updates EXCEPT ![req[r].fresh] = row] /\ Goto(r, "linkManifests")
    <3>1. req[r].pc = "insertUpdate" /\ req[r].kid \in Agents /\ UNCHANGED <<nonce, queries, out>>
      BY <1>5 DEF InsertUpdate, LocalInv, LocalOK, Composing
    <3>2. row \in UpdateRow /\ row.agent # None /\ row.manifests \subseteq req[r].picked
      BY <3>1, NoneAssumption DEF UpdateRow
    <3> HIDE DEF row
    <3> QED
      BY <2>1, <3>1, <3>2, UpdateRowInv
  <2>2. CASE Fail(r) /\ UNCHANGED updates
    BY <1>1, <1>5, <2>2, FollowsFail DEF InsertUpdate
  <2> QED
    BY <1>5, <2>1, <2>2 DEF InsertUpdate
<1>6. ASSUME NEW r \in Requests, LinkManifest(r) PROVE RecordInv'
  <2> DEFINE t == req[r].fresh
  <2>0. /\ req[r].pc = "linkManifests" /\ t \in Tokens /\ UNCHANGED <<nonce, queries, out>>
        /\ RowOK(req[r]) /\ updates \in [Tokens -> UpdateRow] /\ req[r].picked \subseteq Manifests
    BY <1>6, RowParts DEF LinkManifest, LocalInv, LocalOK, Composing, RecordInv, TypeOK, RequestState
  <2>1. ASSUME NEW m \in req[r].picked \ updates[t].manifests,
               updates' = [updates EXCEPT ![t].manifests = updates[t].manifests \cup {m}],
               Goto(r, IF AllLinked(r, updates[t].manifests \cup {m}) THEN "reply" ELSE "linkManifests")
        PROVE  RecordInv'
    <3> DEFINE linked == updates[t].manifests \cup {m}
               row == [updates[t] EXCEPT !.manifests = linked]
               l == IF AllLinked(r, linked) THEN "reply" ELSE "linkManifests"
    <3>1. updates[t] \in UpdateRow /\ updates[t].agent # None /\ linked \subseteq req[r].picked
      BY <2>0, <2>1 DEF RowOK
    <3>2. row \in UpdateRow /\ row.agent # None /\ row.manifests = linked
      BY <2>0, <3>1 DEF UpdateRow
    <3>3. updates' = [updates EXCEPT ![t] = row]
      BY <2>0, <2>1
    <3>4. l \in {"linkManifests", "reply"} /\ (l = "reply" => linked = req[r].picked) /\ Goto(r, l)
      BY <2>1, <3>1 DEF AllLinked
    <3> HIDE DEF row, linked, l
    <3> QED
      BY <2>0, <3>1, <3>2, <3>3, <3>4, UpdateRowInv
  <2>2. CASE Fail(r) /\ UNCHANGED updates
    BY <1>1, <2>0, <2>2, FollowsFail
  <2> QED
    BY <1>6, <2>1, <2>2 DEF LinkManifest
<1>7. ASSUME UNCHANGED <<nonce, queries, updates, out>>,
             (\A x \in Requests : req'[x] = req[x]) \/ (\A x \in Requests : req'[x] = Idle)
      PROVE  RecordInv'
  <2>1. RowInv'
    <3>1. RowOK(Idle)
      BY DEF RowOK, Idle, Composing
    <3>2. ASSUME NEW x \in Requests PROVE RowOK(req[x])'
      BY <1>7, <3>1, RowParts DEF RecordInv, RowOK
    <3> QED
      BY <3>2 DEF RowInv, RowOK
  <2>2. OwnerInv'
    BY <1>7 DEF RecordInv, OwnerInv, Idle
  <2> QED
    BY <1>7, <2>1, <2>2 DEF RecordInv, NonceNamesOneMessage, RepliesAreRecorded
<1>8. CASE \/ \E a \in Agents : Revoke(a) \/ Expire(a)
           \/ \E c \in Components : Publish(c)
           \/ Crash
           \/ UNCHANGED vars
  BY <1>7, <1>8 DEF Revoke, Expire, Publish, Crash, vars, db
<1> QED
  BY <1>1, <1>3, <1>4, <1>5, <1>6, <1>8, FollowSteps, ReplyInv DEF Next, Serve

\* RecordInv is an invariant.
LEMMA RecordInvariant == Spec => []RecordInv
<1>1. Init => RecordInv
  <2> SUFFICES ASSUME Init PROVE RecordInv
    OBVIOUS
  <2>1. \A x \in Requests : req[x] = Idle
    BY DEF Init
  <2>2. OwnerInv
    BY <2>1 DEF Init, OwnerInv, Idle
  <2>3. RowInv
    BY <2>1 DEF RowInv, Idle, Composing
  <2> QED
    BY <2>2, <2>3 DEF Init, RecordInv, NonceNamesOneMessage, RepliesAreRecorded
<1>2. TypeOK /\ LocalInv /\ RecordInv /\ [Next]_vars => RecordInv'
  BY RecordStep
<1> QED
  BY <1>1, <1>2, Locals, PTL DEF Spec

\* However replies are composed at the same time, fail and are lost, no two
\* messages of the TAM carry the same token or challenge, and no token stands
\* both for a QueryRequest and for an Update.
THEOREM NoncesNameMessages == Spec => []NonceNamesOneMessage
<1>1. RecordInv => NonceNamesOneMessage
  BY DEF RecordInv
<1> QED
  BY <1>1, RecordInvariant, PTL

\* Every message that left the TAM is in the database in full, although its rows
\* are written one by one and the process may die between any two of them.
THEOREM RepliesRecorded == Spec => []RepliesAreRecorded
<1>1. RecordInv => RepliesAreRecorded
  BY DEF RecordInv
<1> QED
  BY <1>1, RecordInvariant, PTL

-----------------------------------------------------------------------------
(***************************************************************************)
(* Enrolled keys.                                                          *)
(***************************************************************************)

\* Request q is about to enrol the key its evidence attests.
Enrolling(q) == q.pc \in {"findKey", "createKey"}

\* The challenge its evidence answers.
ChallengeOf(q) == AttestationNonce(q.msg.evidence)

\* All that is said of enrolled keys.
KeyInv == EnrolInv /\ EnrolledByFreshAttestation

\* A local transition of r goes where the new state says.
LEMMA PcStep ==
  ASSUME TypeOK, NEW r \in Requests, NEW state, Continue(r, state)
  PROVE  /\ \A x \in Requests \ {r} : req'[x] = req[x]
         /\ req'[r].pc = state.pc
  BY DEF Continue, TypeOK, Idle

\* A step of r that enrols nobody and does not come to enrol anybody.
Bystands(r) ==
  /\ UNCHANGED <<agents, enrolment>> /\ queries \subseteq queries'
  /\ \A x \in Requests \ {r} : req'[x] = req[x]
  /\ ~Enrolling(req'[r])

\* Only the match of a challenge leads to an enrolment.
LEMMA BystandSteps ==
  ASSUME TypeOK, LocalInv, NEW r \in Requests,
         \/ StartSession(r) \/ Receive(r) \/ Authenticate(r) \/ ConsumeToken(r) \/ FindSent(r)
         \/ SubmitAttestationPayload(r) \/ ConsumeChallenge(r) \/ NewToken(r) \/ NewChallenge(r)
         \/ SaveQuery(r) \/ Lookup(r) \/ FindAgent(r) \/ InsertUpdate(r) \/ LinkManifest(r)
         \/ Reply(r) \/ HandleReport(r)
  PROVE  Bystands(r)
<1>0. req[r] \in RequestState /\ UNCHANGED <<agents, enrolment>> /\ queries \subseteq queries'
  BY DEF TypeOK, StartSession, Receive, Authenticate, ConsumeToken, FindSent,
     SubmitAttestationPayload, ConsumeChallenge, NewToken, NewChallenge, SaveQuery, Lookup,
     FindAgent, InsertUpdate, LinkManifest, Reply, HandleReport, db
<1>1. CASE StartSession(r) \/ Receive(r)
  BY <1>0, <1>1 DEF StartSession, Receive, Bystands, Enrolling, TypeOK, Idle
<1>2. ASSUME NEW l, Goto(r, l), l \notin {"findKey", "createKey"} PROVE Bystands(r)
  <2>1. [req[r] EXCEPT !.pc = l].pc = l /\ Continue(r, [req[r] EXCEPT !.pc = l])
    BY <1>0, <1>2 DEF Goto, RequestState
  <2> QED
    BY <1>0, <1>2, <2>1, PcStep DEF Bystands, Enrolling
<1>f. ASSUME Fail(r) PROVE Bystands(r)
  BY <1>2, <1>f DEF Fail
<1>3. CASE Authenticate(r)
  <2>1. PICK k : Continue(r, [req[r] EXCEPT !.kid = k, !.pc = "consumeToken"])
    BY <1>3 DEF Authenticate
  <2>2. [req[r] EXCEPT !.kid = k, !.pc = "consumeToken"].pc = "consumeToken"
    BY <1>0 DEF RequestState
  <2> QED
    BY <1>0, <2>1, <2>2, PcStep DEF Bystands, Enrolling
<1>4. CASE ConsumeToken(r)
  BY <1>2, <1>4, DispatchOK DEF ConsumeToken
<1>5. CASE FindSent(r)
  <2>1. PICK s : Continue(r, [req[r] EXCEPT !.sent = s, !.pc = Dispatch(req[r].msg, req[r].kid, s)])
    BY <1>5 DEF FindSent
  <2> DEFINE l == Dispatch(req[r].msg, req[r].kid, s)
  <2>2. l \notin {"findKey", "createKey"}
    BY DispatchOK
  <2>3. Continue(r, [req[r] EXCEPT !.sent = s, !.pc = l])
    BY <2>1
  <2> HIDE DEF l
  <2>4. [req[r] EXCEPT !.sent = s, !.pc = l].pc = l
    BY <1>0 DEF RequestState
  <2> QED
    BY <1>0, <2>2, <2>3, <2>4, PcStep DEF Bystands, Enrolling
<1>6. CASE SubmitAttestationPayload(r) \/ ConsumeChallenge(r) \/ SaveQuery(r) \/ FindAgent(r)
           \/ InsertUpdate(r) \/ LinkManifest(r) \/ Reply(r)
  BY <1>2, <1>6, <1>f DEF SubmitAttestationPayload, ConsumeChallenge, SaveQuery, FindAgent,
     InsertUpdate, LinkManifest, Reply
<1>7. CASE NewToken(r) \/ NewChallenge(r)
  <2>1. ASSUME NEW v, NEW l \in {"saveQuery", "idle", "lookup"},
               Continue(r, [req[r] EXCEPT !.fresh = v, !.pc = l])
        PROVE  Bystands(r)
    <3>1. [req[r] EXCEPT !.fresh = v, !.pc = l].pc = l
      BY <1>0 DEF RequestState
    <3> QED
      BY <1>0, <2>1, <3>1, PcStep DEF Bystands, Enrolling
  <2> QED
    BY <1>7, <1>f, <2>1 DEF NewToken, NewChallenge
<1>8. CASE Lookup(r)
  <2>1. ASSUME NEW m, NEW g, NEW l \in {"lookup", "idle", "findAgent"},
               Continue(r, [req[r] EXCEPT !.msg.components = m, !.picked = g, !.pc = l])
        PROVE  Bystands(r)
    <3>1. [req[r] EXCEPT !.msg.components = m, !.picked = g, !.pc = l].pc = l
      BY <1>0 DEF RequestState
    <3> QED
      BY <1>0, <2>1, <3>1, PcStep DEF Bystands, Enrolling
  <2> QED
    BY <1>8, <1>f, <2>1 DEF Lookup
<1>9. CASE HandleReport(r)
  <2>1. ASSUME NEW rep, Continue(r, [req[r] EXCEPT !.msg.reports = @ \ {rep}])
        PROVE  Bystands(r)
    <3>1. [req[r] EXCEPT !.msg.reports = @ \ {rep}].pc = "handleReports"
      BY <1>0, <1>9 DEF HandleReport, RequestState
    <3> QED
      BY <1>0, <2>1, <3>1, PcStep DEF Bystands, Enrolling
  <2> QED
    BY <1>9, <1>f, <2>1 DEF HandleReport
<1> QED
  BY <1>1, <1>3, <1>4, <1>5, <1>6, <1>7, <1>8, <1>9

\* An answered value stays spent and answered once.
LEMMA AnsweredForGood ==
  ASSUME TypeOK, LocalInv, NonceInv, [Next]_vars, NEW v \in Nonces, answers[v] = 1
  PROVE  answers'[v] = 1 /\ nonce'[v] = "spent"
<1>1. CASE Calm
  BY <1>1 DEF Calm, NonceInv
<1>2. ASSUME NEW r \in Requests, NEW w \in Nonces, Spends(r, w) \/ Accepts(r, w) \/ Issues(r, w)
      PROVE  answers'[v] = 1
  <2>1. Accepts(r, w) => answers[w] = 0
    BY NoneAssumption DEF Accepts, NonceInv, Nonces
  <2> QED
    BY <1>2, <2>1 DEF Spends, Accepts, Issues, TypeOK
<1>3. answers'[v] = 1
  BY <1>1, <1>2, NonceSteps DEF Calm
<1>4. NonceInv'
  BY NonceInvStep
<1> QED
  BY <1>3, <1>4 DEF NonceInv

\* A step that enrols nobody, and after which only those enrol who did before.
Settled ==
  /\ UNCHANGED <<agents, enrolment>> /\ queries \subseteq queries'
  /\ \A x \in Requests : Enrolling(req'[x]) =>
        Enrolling(req[x]) /\ ChallengeOf(req'[x]) = ChallengeOf(req[x])

\* Request r was accepted for challenge c and goes on to enrol its sender.
StartsEnrolling(r, c) ==
  /\ UNCHANGED <<agents, enrolment, queries>>
  /\ \A x \in Requests \ {r} : req'[x] = req[x]
  /\ c \in Challenges \cap queries /\ answers[c] = 0 /\ answers'[c] = 1
  /\ ChallengeOf(req'[r]) = c

\* Request r puts the attested key k into the table.
Enrols(r, k) ==
  /\ Enrolling(req[r]) /\ k \in Genuine
  /\ agents' = agents \cup {k}
  /\ enrolment' = [enrolment EXCEPT ![k] = [challenge |-> ChallengeOf(req[r]), signer |-> k]]
  /\ UNCHANGED <<queries, nonce, answers>>
  /\ \A x \in Requests \ {r} : req'[x] = req[x]
  /\ ~Enrolling(req'[r])
  /\ k \notin agents

\* KeyInv, clause by clause.
EnrollingFacts ==
  /\ \A r \in Requests : Enrolling(req[r]) =>
        /\ ChallengeOf(req[r]) \in queries /\ answers[ChallengeOf(req[r])] = 1
        /\ \A a \in agents \ Seeded : enrolment[a].challenge # ChallengeOf(req[r])
  /\ \A r1, r2 \in Requests :
        Enrolling(req[r1]) /\ Enrolling(req[r2]) /\ ChallengeOf(req[r1]) = ChallengeOf(req[r2])
          => r1 = r2

EnrolledFacts ==
  /\ \A a \in agents \ Seeded :
        /\ a \in Genuine /\ enrolment[a].signer = a
        /\ enrolment[a].challenge \in queries
        /\ nonce[enrolment[a].challenge] = "spent" /\ answers[enrolment[a].challenge] = 1
  /\ \A a, b \in agents \ Seeded : enrolment[a].challenge = enrolment[b].challenge => a = b

LEMMA KeyParts == KeyInv <=> EnrollingFacts /\ EnrolledFacts
  BY DEF KeyInv, EnrolInv, EnrolledByFreshAttestation, Enrolling, ChallengeOf,
     EnrollingFacts, EnrolledFacts

\* What the matching of a challenge and the enrolment do.
LEMMA EnrolSteps ==
  ASSUME TypeOK, LocalInv, NonceInv, NEW r \in Requests,
         FindChallenge(r) \/ FindKey(r) \/ CreateKey(r)
  PROVE  Settled \/ (\E c \in Challenges : StartsEnrolling(r, c)) \/ (\E k \in Agents : Enrols(r, k))
<1>0. req[r] \in RequestState /\ LocalOK(req[r])
  BY DEF TypeOK, LocalInv
<1> DEFINE m == req[r].msg
           c == AttestationNonce(m.evidence)
           k == m.evidence.key
           q == [req[r] EXCEPT !.kid = k, !.pc = AfterAttestation(m)]
<1>1. ASSUME NEW state, Continue(r, state), state.pc \notin {"findKey", "createKey"},
             UNCHANGED <<agents, enrolment, queries>>
      PROVE  Settled
  BY <1>1, PcStep DEF Settled, Enrolling
<1>f. ASSUME Fail(r), UNCHANGED <<agents, enrolment, queries>> PROVE Settled
  <2>1. [req[r] EXCEPT !.pc = "idle"].pc = "idle"
    BY <1>0 DEF RequestState
  <2> QED
    BY <1>1, <1>f, <2>1 DEF Fail, Goto
<1>2. q.pc \in {"newToken", "idle"}
  BY <1>0 DEF RequestState, AfterAttestation
<1>3. CASE FindChallenge(r)
  <2> DEFINE l == IF req[r].kid # None THEN AfterAttestation(m)
                  ELSE IF ProvesAttestedKey(m) THEN "findKey" ELSE "idle"
             p == [req[r] EXCEPT !.sent = [type |-> "QueryRequest", token |-> None], !.pc = l]
  <2>1. p.pc \in {"newToken", "idle", "findKey"} /\ p.msg = m
    BY <1>0 DEF RequestState, AfterAttestation
  <2>2. CASE Fail(r)
    BY <1>3, <1>f, <2>2 DEF FindChallenge, db
  <2>3. CASE Continue(r, p) /\ p.pc # "findKey"
    <3> HIDE DEF p
    <3>1. UNCHANGED <<agents, enrolment, queries>>
      BY <1>3 DEF FindChallenge, db
    <3> QED
      BY <1>1, <2>1, <2>3, <3>1
  <2>4. CASE Continue(r, p) /\ p.pc = "findKey" /\ c \in queries
             /\ answers' = [answers EXCEPT ![c] = @ + 1]
    <3>1. req[r].pc = "findChallenge" /\ UNCHANGED <<agents, enrolment, queries>>
      BY <1>3 DEF FindChallenge, db
    <3>2. c \in Challenges
      BY <1>0, <3>1 DEF LocalOK
    <3>3. answers[c] = 0
      <4>1. Spending(req[r]) = c
        BY <3>1 DEF Spending
      <4> QED
        BY <3>2, <4>1, NoneAssumption DEF NonceInv
    <3>4. answers'[c] = 1
      BY <2>4, <3>2, <3>3 DEF TypeOK, Nonces
    <3>5. (\A x \in Requests \ {r} : req'[x] = req[x]) /\ req'[r] = p
      <4> HIDE DEF p
      <4> QED
        BY <2>4 DEF Continue, TypeOK
    <3>6. ChallengeOf(req'[r]) = c
      <4> HIDE DEF p
      <4> QED
        BY <2>1, <3>5 DEF ChallengeOf
    <3>7. StartsEnrolling(r, c)
      <4> HIDE DEF c
      <4> QED
        BY <2>4, <3>1, <3>2, <3>3, <3>4, <3>5, <3>6 DEF StartsEnrolling
    <3> QED
      BY <3>2, <3>7
  <2> QED
    BY <1>3, <2>2, <2>3, <2>4 DEF FindChallenge
<1>4. CASE FindKey(r)
  <2>1. UNCHANGED <<agents, enrolment, queries>> /\ req[r].pc = "findKey"
    BY <1>4 DEF FindKey, db
  <2>2. CASE Continue(r, q)
    BY <1>1, <1>2, <2>1, <2>2
  <2>3. CASE Goto(r, "createKey")
    <3>1. req' = [req EXCEPT ![r] = [req[r] EXCEPT !.pc = "createKey"]]
      BY <1>0, <2>3 DEF Goto, Continue, RequestState
    <3>2. \A x \in Requests : Enrolling(req'[x]) => Enrolling(req[x]) /\ req'[x].msg = req[x].msg
      BY <1>0, <2>1, <3>1 DEF TypeOK, Enrolling, RequestState
    <3> QED
      BY <2>1, <3>2 DEF Settled, ChallengeOf
  <2> QED
    BY <1>4, <1>f, <2>1, <2>2, <2>3 DEF FindKey
<1>5. CASE CreateKey(r)
  <2>1. req[r].pc = "createKey" /\ UNCHANGED <<queries, nonce, answers>>
    BY <1>5 DEF CreateKey
  <2>2. CASE Continue(r, q) /\ CanCreateKey(k) /\ agents' = agents \cup {k}
             /\ enrolment' = [enrolment EXCEPT ![k] =
                    [challenge |-> m.evidence.nonce, signer |-> m.signer]]
    <3>1. c \in Challenges /\ k \in Genuine /\ m.signer = k
      BY <1>0, <2>1 DEF LocalOK
    <3>2. ChallengeOf(req[r]) = m.evidence.nonce
      BY <3>1, NoneAssumption DEF ChallengeOf, AttestationNonce
    <3>3. (\A x \in Requests \ {r} : req'[x] = req[x]) /\ ~Enrolling(req'[r])
      <4> HIDE DEF q
      <4> QED
        BY <1>2, <2>2, PcStep DEF Enrolling
    <3>4. Enrols(r, k)
      BY <2>1, <2>2, <3>1, <3>2, <3>3 DEF Enrols, Enrolling, CanCreateKey
    <3> QED
      BY <3>1, <3>4, AgentAssumption
  <2> QED
    BY <1>5, <1>f, <2>1, <2>2 DEF CreateKey
<1> QED
  BY <1>3, <1>4, <1>5

\* KeyInv is inductive.
LEMMA KeyStep ==
  ASSUME TypeOK, LocalInv, NonceInv, KeyInv, [Next]_vars
  PROVE  KeyInv'
<1>0. /\ \A v \in Nonces : answers[v] = 1 => answers'[v] = 1 /\ nonce'[v] = "spent"
      /\ queries \subseteq Nonces
  BY AnsweredForGood DEF TypeOK
<1>k. EnrollingFacts /\ EnrolledFacts
  BY KeyParts
<1>p. EnrollingFacts' /\ EnrolledFacts' => KeyInv'
  BY DEF KeyInv, EnrolInv, EnrolledByFreshAttestation, Enrolling, ChallengeOf,
     EnrollingFacts, EnrolledFacts
<1>1. CASE Settled
  <2>1. EnrollingFacts'
    BY <1>0, <1>k, <1>1 DEF Settled, EnrollingFacts
  <2>2. EnrolledFacts'
    BY <1>0, <1>k, <1>1 DEF Settled, EnrolledFacts
  <2> QED
    BY <1>p, <2>1, <2>2
<1>2. ASSUME NEW r \in Requests, NEW c \in Challenges, StartsEnrolling(r, c)
      PROVE  KeyInv'
  <2>1. EnrollingFacts'
    BY <1>0, <1>k, <1>2 DEF StartsEnrolling, EnrollingFacts, EnrolledFacts
  <2>2. EnrolledFacts'
    BY <1>0, <1>k, <1>2 DEF StartsEnrolling, EnrolledFacts
  <2> QED
    BY <1>p, <2>1, <2>2
<1>3. ASSUME NEW r \in Requests, NEW k \in Agents, Enrols(r, k)
      PROVE  KeyInv'
  <2>1. /\ enrolment'[k] = [challenge |-> ChallengeOf(req[r]), signer |-> k]
        /\ \A a \in agents : enrolment'[a] = enrolment[a]
    BY <1>3 DEF Enrols, TypeOK
  <2>2. enrolment'[k].challenge = ChallengeOf(req[r]) /\ enrolment'[k].signer = k
    BY <2>1
  <2>3. EnrollingFacts'
    BY <1>0, <1>k, <1>3, <2>1, <2>2 DEF Enrols, EnrollingFacts
  <2>4. EnrolledFacts'
    BY <1>0, <1>k, <1>3, <2>1, <2>2 DEF Enrols, EnrollingFacts, EnrolledFacts
  <2> QED
    BY <1>p, <2>3, <2>4
<1>4. ASSUME NEW r \in Requests, Bystands(r)
      PROVE  Settled
  BY <1>4 DEF Bystands, Settled
<1>5. CASE \/ \E a \in Agents : Revoke(a) \/ Expire(a)
           \/ \E c \in Components : Publish(c)
           \/ UNCHANGED vars
  <2>1. UNCHANGED <<agents, enrolment, queries, req>>
    <3>1. CASE \E a \in Agents : Revoke(a) \/ Expire(a)
      BY <3>1 DEF Revoke, Expire
    <3>2. CASE \E c \in Components : Publish(c)
      BY <3>2 DEF Publish
    <3>3. CASE UNCHANGED vars
      BY <3>3 DEF vars
    <3> QED
      BY <1>5, <3>1, <3>2, <3>3
  <2>2. Settled
    BY <2>1 DEF Settled
  <2> QED
    BY <1>1, <2>2
<1>6. CASE Crash
  <2>1. \A x \in Requests : req'[x] = Idle
    BY <1>6 DEF Crash
  <2>2. \A x \in Requests : ~Enrolling(req'[x])
    BY <2>1 DEF Enrolling, Idle
  <2>3. Settled
    BY <1>6, <2>2 DEF Crash, db, Settled
  <2> QED
    BY <1>1, <2>3
<1> QED
  BY <1>1, <1>2, <1>3, <1>4, <1>5, <1>6, BystandSteps, EnrolSteps DEF Next, Serve

\* Whoever was not seeded is in the table of agents because of one fresh
\* attestation of its own, however requests interleave and messages repeat.
THEOREM KeysEnrolledByFreshAttestation == Spec => []EnrolledByFreshAttestation
<1>1. Init => KeyInv
  <2> SUFFICES ASSUME Init PROVE KeyInv
    OBVIOUS
  <2>1. \A x \in Requests : req[x] = Idle
    BY DEF Init
  <2> QED
    BY <2>1 DEF Init, KeyInv, EnrolInv, EnrolledByFreshAttestation, Idle
<1>2. TypeOK /\ LocalInv /\ NonceInv /\ KeyInv /\ [Next]_vars => KeyInv'
  BY KeyStep
<1>3. KeyInv => EnrolledByFreshAttestation
  BY DEF KeyInv
<1> QED
  BY <1>1, <1>2, <1>3, Locals, NonceInvariant, PTL DEF Spec

-----------------------------------------------------------------------------
(***************************************************************************)
(* What agents hold.                                                       *)
(***************************************************************************)

\* Manifests are only ever added to the repository.
LEMMA PublishedGrows ==
  ASSUME TypeOK, [Next]_vars
  PROVE  published' \in [Components -> Nat] /\ \A c \in Components : published[c] <= published'[c]
<1>0. published \in [Components -> Nat]
  BY SeqAssumption DEF TypeOK
<1>1. CASE UNCHANGED published
  BY <1>0, <1>1
<1>2. CASE \E c \in Components : Publish(c)
  BY <1>0, <1>2 DEF Publish
<1> QED
  BY <1>1, <1>2 DEF Next, vars, db, Serve, StartSession, Receive, Authenticate, ConsumeToken,
     FindSent, SubmitAttestationPayload, ConsumeChallenge, FindChallenge, FindKey, CreateKey,
     NewToken, NewChallenge, SaveQuery, Lookup, FindAgent, InsertUpdate, LinkManifest, Reply,
     HandleReport, Revoke, Expire, Crash

\* The holdings change only for a known manifest and a known agent, and the
\* manifest then stands alone for its component.
LEMMA HoldingSteps ==
  ASSUME TypeOK, LocalInv, BarredInv, [Next]_vars
  PROVE  \/ UNCHANGED holding
         \/ \E a \in Agents \cap agents, m \in Manifests :
              /\ KnownManifest(m)
              /\ holding' = [holding EXCEPT ![a] = {h \in @ : h.component # m.component} \cup {m}]
<1>1. ASSUME NEW r \in Requests, HandleReport(r), holding' # holding
      PROVE  \E a \in Agents \cap agents, m \in Manifests :
              /\ KnownManifest(m)
              /\ holding' = [holding EXCEPT ![a] = {h \in @ : h.component # m.component} \cup {m}]
  <2>1. req[r].kid \in Agents /\ req[r].kid # None
    BY <1>1, NoneAssumption DEF HandleReport, LocalInv, LocalOK
  <2>2. req[r].kid \in agents
    BY <2>1 DEF BarredInv
  <2>3. PICK rep \in req[r].msg.reports : /\ KnownManifest(rep.manifest)
                                          /\ ReflectManifestSuccess(req[r].kid, rep.manifest)
    BY <1>1 DEF HandleReport, RecordManifestProcessingFailure
  <2>4. rep.manifest \in Manifests
    <3>1. req[r].msg \in Message \cup {EmptyBody}
      BY DEF TypeOK, RequestState
    <3>2. req[r].msg.reports \subseteq Report
      BY <3>1 DEF Message, EmptyBody
    <3> QED
      BY <2>3, <3>2 DEF Report, KnownManifest
  <2> QED
    BY <2>1, <2>2, <2>3, <2>4 DEF ReflectManifestSuccess
<1>2. ASSUME NEW r \in Requests, HandleReport(r)
      PROVE  \/ UNCHANGED holding
             \/ \E a \in Agents \cap agents, m \in Manifests :
                  /\ KnownManifest(m)
                  /\ holding' = [holding EXCEPT ![a] =
                                    {h \in @ : h.component # m.component} \cup {m}]
  BY <1>1, <1>2
<1> QED
  BY <1>2 DEF Next, vars, db, Serve, StartSession, Receive, Authenticate, ConsumeToken,
     FindSent, SubmitAttestationPayload, ConsumeChallenge, FindChallenge, FindKey, CreateKey,
     NewToken, NewChallenge, SaveQuery, Lookup, FindAgent, InsertUpdate, LinkManifest, Reply,
     Revoke, Expire, Publish, Crash

\* However reports are repeated, reordered and processed at the same time, an
\* agent in the table holds at most one manifest per component, and only
\* manifests the repository has accepted.
THEOREM HoldingsStayConsistent == Spec => []HoldingsConsistent
<1>1. Init => HoldingsConsistent
  BY DEF Init, HoldingsConsistent
<1>2. ASSUME TypeOK, LocalInv, BarredInv, NoUpdateForBarredAgent, HoldingsConsistent, [Next]_vars
      PROVE  HoldingsConsistent'
  <2>1. agents \subseteq agents'
    BY <1>2, BarredStep DEF KeysKept
  <2>2. \A m \in Manifests : KnownManifest(m) => KnownManifest(m)'
    <3> SUFFICES ASSUME NEW m \in Manifests, KnownManifest(m) PROVE KnownManifest(m)'
      OBVIOUS
    <3>1. m.component \in Components /\ m.seq \in Nat /\ published[m.component] \in Nat
      BY <1>2, SeqAssumption DEF Manifests, TypeOK
    <3>2. published'[m.component] \in Nat /\ published[m.component] <= published'[m.component]
      BY <1>2, <3>1, PublishedGrows
    <3> QED
      BY <3>1, <3>2 DEF KnownManifest
  <2>3. \A a \in Agents : \A h1, h2 \in holding[a] :
            (h1.component = h2.component => h1 = h2) /\ KnownManifest(h1)' /\ a \in agents'
    BY <1>2, <2>1, <2>2 DEF HoldingsConsistent, TypeOK
  <2>4. CASE UNCHANGED holding
    BY <2>3, <2>4 DEF HoldingsConsistent
  <2>5. ASSUME NEW b \in Agents \cap agents, NEW m \in Manifests, KnownManifest(m),
               holding' = [holding EXCEPT ![b] = {h \in @ : h.component # m.component} \cup {m}]
        PROVE  HoldingsConsistent'
    <3>1. /\ holding'[b] = {h \in holding[b] : h.component # m.component} \cup {m}
          /\ \A a \in Agents \ {b} : holding'[a] = holding[a]
      BY <1>2, <2>5 DEF TypeOK
    <3>2. KnownManifest(m)' /\ b \in agents'
      BY <2>1, <2>2, <2>5
    <3> HIDE DEF KnownManifest
    <3>3. ASSUME NEW a \in Agents, NEW h1 \in holding'[a], NEW h2 \in holding'[a]
          PROVE  (h1.component = h2.component => h1 = h2) /\ KnownManifest(h1)' /\ a \in agents'
      BY <2>3, <3>1, <3>2, <3>3
    <3> QED
      BY <3>3 DEF HoldingsConsistent
  <2> QED
    BY <1>2, <2>4, <2>5, HoldingSteps
<1> QED
  BY <1>1, <1>2, Locals, BarredInvariant, PTL DEF Spec
=============================================================================
