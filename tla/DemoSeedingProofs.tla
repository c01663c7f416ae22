------------------------- MODULE DemoSeedingProofs -------------------------
(***************************************************************************)
(* Proofs about DemoSeeding, for any bounds and any sequence numbers: what *)
(* a server in demo mode has, why a seeding is refused, and which manifest *)
(* is the latest one.                                                      *)
(***************************************************************************)
EXTENDS DemoSeeding, AgentStatusProofs

-----------------------------------------------------------------------------
(***************************************************************************)
(* The latest of a sequence of manifests.                                  *)
(***************************************************************************)
Row == [seq : Seqs, demo : BOOLEAN]

Tops(s, i) == \A j \in DOMAIN s : s[j].seq <= s[i].seq

LatestOf(s) == s[CHOOSE i \in DOMAIN s : Tops(s, i)].seq

HasTop(s) == s # <<>> => \E i \in DOMAIN s : Tops(s, i)

\* Whichever row of the highest number is chosen, the number is the same.
LEMMA LatestOfTop ==
  ASSUME NEW s \in Seq(Row), NEW i \in DOMAIN s, Tops(s, i)
  PROVE  LatestOf(s) = s[i].seq /\ LatestOf(s) \in Seqs
<1> DEFINE k == CHOOSE x \in DOMAIN s : Tops(s, x)
<1>1. k \in DOMAIN s /\ Tops(s, k)
  OBVIOUS
<1> HIDE DEF k
<1>2. s[i] \in Row /\ s[k] \in Row
  BY <1>1
<1>3. s[i].seq \in Seqs /\ s[k].seq \in Seqs
  BY <1>2 DEF Row
<1>4. s[i].seq <= s[k].seq /\ s[k].seq <= s[i].seq
  BY <1>1 DEF Tops
<1>5. s[i].seq = s[k].seq
  <2>1. \A x, y \in Nat : x <= y /\ y <= x => x = y
    OBVIOUS
  <2>2. s[i].seq \in Nat /\ s[k].seq \in Nat
    BY <1>3, BoundAssumption
  <2> QED
    BY <1>4, <2>1, <2>2, Zenon
<1> QED
  BY <1>3, <1>5 DEF LatestOf, k

\* A row that is added becomes the latest or leaves the latest as it is.
LEMMA AppendLatest ==
  ASSUME NEW s \in Seq(Row), NEW m \in Row, HasTop(s)
  PROVE  /\ HasTop(Append(s, m)) /\ Append(s, m) # <<>>
         /\ s # <<>> => LatestOf(Append(s, m)) >= LatestOf(s)
<1> DEFINE t == Append(s, m)
           n == Len(s) + 1
<1>1. /\ t \in Seq(Row) /\ t # <<>> /\ Len(s) \in Nat /\ DOMAIN s = 1 .. Len(s)
      /\ DOMAIN t = DOMAIN s \cup {n} /\ n \notin DOMAIN s /\ n \in DOMAIN t
      /\ t[n] = m /\ \A j \in DOMAIN s : t[j] = s[j]
  OBVIOUS
<1> HIDE DEF t, n
<1>2. m.seq \in Nat /\ \A j \in DOMAIN s : s[j].seq \in Nat
  <2>1. \A j \in DOMAIN s : s[j] \in Row
    OBVIOUS
  <2> QED
    BY <2>1, BoundAssumption DEF Row
<1>3. CASE s = <<>>
  <2>1. DOMAIN t = {n}
    BY <1>1, <1>3
  <2>2. Tops(t, n)
    <3>1. m.seq <= m.seq
      BY <1>2
    <3> QED
      BY <1>1, <2>1, <3>1, Zenon DEF Tops
  <2> QED
    BY <1>1, <1>3, <2>1, <2>2 DEF HasTop, t
<1>4. CASE s # <<>>
  <2>1. PICK i \in DOMAIN s : Tops(s, i)
    BY <1>4 DEF HasTop
  <2>2. LatestOf(s) = s[i].seq
    BY <2>1, LatestOfTop
  <2>3. CASE m.seq >= s[i].seq
    <3>1. Tops(t, n)
      BY <1>1, <1>2, <2>1, <2>3 DEF Tops
    <3>2. LatestOf(t) = m.seq
      BY <1>1, <3>1, LatestOfTop
    <3> QED
      BY <1>1, <1>2, <2>2, <2>3, <3>1, <3>2 DEF HasTop, t
  <2>4. CASE ~(m.seq >= s[i].seq)
    <3>1. Tops(t, i)
      BY <1>1, <1>2, <2>1, <2>4 DEF Tops
    <3>2. LatestOf(t) = s[i].seq
      BY <1>1, <3>1, LatestOfTop
    <3> QED
      BY <1>1, <1>2, <2>2, <3>1, <3>2 DEF HasTop, t
  <2> QED
    BY <2>3, <2>4
<1> QED
  BY <1>3, <1>4

\* The latest manifest of the model.
LEMMA LatestParts ==
  /\ LatestInv <=> HasTop(manifests)
  /\ Latest = IF manifests = <<>> THEN None ELSE LatestOf(manifests)
  BY DEF LatestInv, HasTop, IsLatest, Tops, Latest, LatestOf

LEMMA LatestPartsPrime ==
  /\ LatestInv' <=> HasTop(manifests')
  /\ Latest' = IF manifests' = <<>> THEN None ELSE LatestOf(manifests')
  BY DEF LatestInv, HasTop, IsLatest, Tops, Latest, LatestOf

-----------------------------------------------------------------------------
(***************************************************************************)
(* Type correctness.                                                       *)
(***************************************************************************)

\* The steps of the seeding.
LEMMA StepsAre ==
  /\ DOMAIN Steps = 1 .. 15 /\ Running = 16 /\ Down = 0
  /\ Steps[1] = "admin" /\ Steps[2] = "adminKey" /\ Steps[3] = "developer"
  /\ Steps[4] = "developerKey" /\ Steps[5] = "deviceAdmin"
  /\ Steps[6] = "manifest" /\ Steps[7] = "trustedKey"
  /\ Steps[13] = "device" /\ Steps[14] = "agent" /\ Steps[15] = "status"
<1>1. DOMAIN Steps = 1 .. 15 /\ Running = 16 /\ Down = 0
  BY DEF Steps, SeedEntities, Running, Down
<1>2. /\ Steps[1] = "admin" /\ Steps[2] = "adminKey" /\ Steps[3] = "developer"
      /\ Steps[4] = "developerKey" /\ Steps[5] = "deviceAdmin"
  BY DEF Steps, SeedEntities
<1>3. /\ Steps[6] = "manifest" /\ Steps[7] = "trustedKey"
      /\ Steps[13] = "device" /\ Steps[14] = "agent" /\ Steps[15] = "status"
  BY DEF Steps, SeedEntities
<1> QED
  BY <1>1, <1>2, <1>3

\* The start-up and the seeding keep the tables well-formed.
LEMMA DemoTypeStep ==
  ASSUME DemoTypeOK, [DemoNext]_demoVars
  PROVE  DemoTypeOK'
<1>0. /\ DOMAIN Steps = 1 .. 15 /\ Running = 16 /\ Down = 0 /\ Down \in 0 .. 16
      /\ at \in 0 .. 16
  BY StepsAre DEF Down, DemoTypeOK
<1>1. ASSUME UNCHANGED vars PROVE TypeOK'
  BY <1>1 DEF vars, DemoTypeOK, TypeOK
<1>2. ASSUME NEW n \in Seqs, NEW a \in Agents,
             ReflectManifestSuccess(a, [component |-> HelloText, seq |-> n])
      PROVE  TypeOK'
  <2>1. [component |-> HelloText, seq |-> n] \in Manifests
    BY DemoAssumption DEF Manifests
  <2> QED
    BY <1>2, <2>1, TypeStep DEF DemoTypeOK, Next
<1>3. CASE \E inDemoMode \in BOOLEAN : StartUp(inDemoMode)
  BY <1>0, <1>1, <1>3 DEF StartUp, DemoTypeOK
<1>r. CASE Refuse
  BY <1>0, <1>1, <1>r DEF Refuse, DemoTypeOK
<1>a. ASSUME at \in DOMAIN Steps, Advance
      PROVE  /\ at' \in Down .. Running /\ UNCHANGED <<revoked, expired, checked, demo>>
             /\ outcome' \in {"none", "running", "failed", "refused"}
  BY <1>0, <1>a DEF Advance, FollowingStep, DemoTypeOK
<1>4. CASE \E item \in Items : Ensure(item)
  <2>1. at \in DOMAIN Steps /\ Advance /\ made' \subseteq Items
        /\ UNCHANGED <<vars, manifests, agents>>
    BY <1>4 DEF Ensure, IsStep, DemoTypeOK
  <2> QED
    BY <1>1, <1>a, <2>1 DEF DemoTypeOK
<1>5. CASE SeedHelloTextManifest
  <2>1. at \in DOMAIN Steps /\ Advance /\ UNCHANGED <<vars, made, agents>>
    BY <1>5 DEF SeedHelloTextManifest, IsStep
  <2>2. [seq |-> 0, demo |-> TRUE] \in Row
    BY DemoAssumption DEF Row
  <2>3. manifests' \in Seq(Row)
    <3>1. manifests \in Seq(Row)
      BY DEF DemoTypeOK, Row
    <3>2. Append(manifests, [seq |-> 0, demo |-> TRUE]) \in Seq(Row)
      BY <2>2, <3>1
    <3> QED
      BY <1>5, <3>1, <3>2 DEF SeedHelloTextManifest
  <2> QED
    BY <1>1, <1>a, <2>1, <2>3 DEF DemoTypeOK, Row
<1>6. CASE EnsureTrustedDemoAgentKey \/ SeedAgent
  <2>1. CASE \E k \in Agents : /\ at \in DOMAIN Steps /\ Advance
                               /\ agents' = agents \cup {k} /\ UNCHANGED <<vars, made, manifests>>
    BY <1>1, <1>a, <2>1 DEF DemoTypeOK
  <2> QED
    BY <1>6, <1>r, <2>1, DemoAssumption DEF EnsureTrustedDemoAgentKey, SeedAgent, IsStep
<1>7. CASE StatusFound
  <2>1. at \in DOMAIN Steps /\ Advance /\ UNCHANGED <<vars, made, manifests, agents>>
    BY <1>7 DEF StatusFound, IsStep
  <2> QED
    BY <1>1, <1>a, <2>1 DEF DemoTypeOK
<1>8. CASE SeedStatus
  <2>1. CASE /\ ReflectManifestSuccess(DemoAgent, [component |-> HelloText, seq |-> 0])
             /\ Advance /\ UNCHANGED <<made, manifests, agents>>
    <3>1. TypeOK'
      BY <1>2, <2>1, DemoAssumption
    <3> QED
      BY <1>8, <1>a, <2>1, <3>1 DEF DemoTypeOK, SeedStatus, IsStep
  <2> QED
    BY <1>8, <1>r, <2>1 DEF SeedStatus
<1>9. CASE StatementFails \/ Crash
  BY <1>0, <1>1, <1>9 DEF StatementFails, Crash, DemoTypeOK
<1>10. ASSUME NEW n \in Seqs, CheckUpload(n) \/ InsertUpload(n) \/ UploadFails(n) PROVE DemoTypeOK'
  <2>1. [seq |-> n, demo |-> FALSE] \in Row
    BY DEF Row
  <2>2. manifests' \in Seq(Row)
    <3>1. manifests \in Seq(Row)
      BY DEF DemoTypeOK, Row
    <3>2. Append(manifests, [seq |-> n, demo |-> FALSE]) \in Seq(Row)
      BY <2>1, <3>1
    <3> QED
      BY <1>10, <3>1, <3>2 DEF CheckUpload, InsertUpload, UploadFails
  <2>3. checked' \subseteq Seqs
    BY <1>10 DEF CheckUpload, InsertUpload, UploadFails, DemoTypeOK
  <2>4. UNCHANGED <<vars, made, agents, revoked, expired, at, demo, outcome>>
    BY <1>10 DEF CheckUpload, InsertUpload, UploadFails
  <2> QED
    BY <1>1, <2>2, <2>3, <2>4 DEF DemoTypeOK, Row
<1>11. ASSUME NEW n \in Seqs, Report(n) PROVE DemoTypeOK'
  <2>1. TypeOK'
    BY <1>2, <1>11, DemoAssumption DEF Report
  <2> QED
    BY <1>11, <2>1 DEF Report, seedVars, DemoTypeOK
<1>12. CASE \E a \in Agents : Revoke(a) \/ Expire(a)
  BY <1>1, <1>12 DEF Revoke, Expire, DemoTypeOK
<1>13. CASE Second
  <2>1. TypeOK'
    BY <1>13, TypeStep DEF Second, DemoTypeOK, Next
  <2> QED
    BY <1>13, <2>1 DEF Second, seedVars, DemoTypeOK
<1>14. CASE UNCHANGED demoVars
  BY <1>1, <1>14 DEF demoVars, seedVars, DemoTypeOK
<1> QED
  BY <1>3, <1>4, <1>5, <1>6, <1>7, <1>8, <1>9, <1>10, <1>11, <1>12, <1>13, <1>14 DEF DemoNext
-----------------------------------------------------------------------------
(***************************************************************************)
(* The latest manifest.                                                    *)
(***************************************************************************)

\* The seeding and the uploads add to the table, and nothing else changes it.
LEMMA LatestStep ==
  ASSUME DemoTypeOK, LatestInv, [DemoNext]_demoVars
  PROVE  LatestInv' /\ (manifests # <<>> => Latest' >= Latest)
<1>0. manifests \in Seq(Row) /\ HasTop(manifests)
  BY LatestParts DEF DemoTypeOK, Row
<1>l. manifests # <<>> => Latest = LatestOf(manifests) /\ Latest \in Seqs
  <2> SUFFICES ASSUME manifests # <<>> PROVE Latest = LatestOf(manifests) /\ Latest \in Seqs
    OBVIOUS
  <2>1. PICK i \in DOMAIN manifests : Tops(manifests, i)
    BY <1>0 DEF HasTop
  <2> QED
    BY <1>0, <2>1, LatestOfTop, LatestParts
<1>1. ASSUME NEW m \in Row, manifests' = Append(manifests, m)
      PROVE  LatestInv' /\ (manifests # <<>> => Latest' >= Latest)
  <2>1. /\ HasTop(manifests') /\ manifests' # <<>>
        /\ manifests # <<>> => LatestOf(manifests') >= LatestOf(manifests)
    BY <1>0, <1>l, <1>1, AppendLatest
  <2>2. manifests' # <<>> => Latest' = LatestOf(manifests')
    BY LatestPartsPrime
  <2> QED
    BY <1>l, <2>1, <2>2, LatestPartsPrime
<1>2. CASE UNCHANGED manifests
  <2>1. LatestInv' /\ Latest' = Latest
    BY <1>0, <1>2, LatestParts, LatestPartsPrime
  <2>2. manifests # <<>> => Latest \in Nat
    BY <1>l, BoundAssumption
  <2> QED
    BY <2>1, <2>2
<1>3. CASE SeedHelloTextManifest
  <2>1. [seq |-> 0, demo |-> TRUE] \in Row
    BY DemoAssumption DEF Row
  <2> QED
    BY <1>1, <1>2, <1>3, <2>1 DEF SeedHelloTextManifest
<1>4. ASSUME NEW n \in Seqs, InsertUpload(n)
      PROVE  LatestInv' /\ (manifests # <<>> => Latest' >= Latest)
  <2>1. [seq |-> n, demo |-> FALSE] \in Row
    BY DEF Row
  <2> QED
    BY <1>1, <1>4, <2>1 DEF InsertUpload
<1> QED
  BY <1>2, <1>3, <1>4 DEF DemoNext, CheckUpload, UploadFails, StartUp, Ensure, EnsureTrustedDemoAgentKey, Refuse, SeedAgent,
     StatusFound, SeedStatus, StatementFails, Crash, Report, Revoke, Expire, Second, demoVars,
     seedVars

\* DemoTypeOK and LatestInv are invariants.
LEMMA LatestInvariant == DemoSpec => [](DemoTypeOK /\ LatestInv)
<1>1. DemoInit => DemoTypeOK /\ LatestInv
  <2> SUFFICES ASSUME DemoInit PROVE DemoTypeOK /\ LatestInv
    OBVIOUS
  <2>1. TypeOK
    BY BoundAssumption DEF DemoInit, Init, TypeOK
  <2>2. at \in Down .. Running
    BY StepsAre DEF DemoInit
  <2>3. manifests \in Seq([seq : Seqs, demo : BOOLEAN]) /\ LatestInv
    BY DEF DemoInit, LatestInv
  <2>4. demo \in BOOLEAN /\ outcome \in {"none", "running", "failed", "refused"}
    BY DEF DemoInit
  <2> QED
    BY <2>1, <2>2, <2>3, <2>4 DEF DemoInit, DemoTypeOK
<1>2. DemoTypeOK /\ LatestInv /\ [DemoNext]_demoVars => DemoTypeOK' /\ LatestInv'
  BY DemoTypeStep, LatestStep
<1> QED
  BY <1>1, <1>2, PTL DEF DemoSpec

\* No start-up and no registration makes an older manifest the latest one.
THEOREM LatestManifestNeverGoesBack == DemoSpec => LatestNeverGoesBack
<1> DEFINE Forward == manifests # <<>> => Latest' >= Latest
<1>1. DemoTypeOK /\ LatestInv /\ [DemoNext]_demoVars => [Forward]_demoVars
  BY LatestStep
<1>2. DemoSpec => [][Forward]_demoVars
  <2> HIDE DEF Forward
  <2> QED
    BY <1>1, LatestInvariant, PTL DEF DemoSpec
<1> QED
  BY <1>2 DEF LatestNeverGoesBack

-----------------------------------------------------------------------------
(***************************************************************************)
(* What the seeding leaves behind.                                         *)
(***************************************************************************)

\* A report of the other agent leaves the holding of the demo agent alone, and
\* no row of an agent appears but by its own report.
LEMMA HoldingStep ==
  ASSUME TypeOK, NEW a \in Agents, NEW n \in Seqs,
         ReflectManifestSuccess(a, [component |-> HelloText, seq |-> n])
  PROVE  /\ DemoAgentHolds \/ a = DemoAgent => DemoAgentHolds'
         /\ (\E i \in DOMAIN rows' : rows'[i].agent = DemoAgent) =>
                a = DemoAgent \/ \E i \in DOMAIN rows : rows[i].agent = DemoAgent
<1> DEFINE m == [component |-> HelloText, seq |-> n]
           new == [agent |-> a, manifest |-> m, created_at |-> clock, deleted |-> FALSE]
<1>0. m \in Manifests /\ m.component = HelloText
  BY DemoAssumption DEF Manifests
<1> HIDE DEF m
<1>1. /\ rows'[Len(rows')] = new
      /\ \A i \in DOMAIN rows :
            /\ i \in DOMAIN rows'
            /\ rows'[i] = IF Superseded(rows[i], a, m)
                          THEN [rows[i] EXCEPT !.deleted = TRUE] ELSE rows[i]
      /\ DOMAIN rows' = DOMAIN rows \cup {Len(rows')}
  BY <1>0, ReflectRows DEF m
<1>2. new.agent = a /\ ~new.deleted /\ new.manifest.component = HelloText
  BY <1>0
<1> HIDE DEF new
<1>3. \A i \in DOMAIN rows : rows'[i].agent = rows[i].agent
  <2> SUFFICES ASSUME NEW i \in DOMAIN rows PROVE rows'[i].agent = rows[i].agent
    OBVIOUS
  <2>1. rows[i] \in Holding
    BY DEF TypeOK
  <2>2. [rows[i] EXCEPT !.deleted = TRUE].agent = rows[i].agent
    BY <2>1 DEF Holding
  <2> QED
    BY <1>1, <2>2
<1>4. a = DemoAgent => DemoAgentHolds'
  BY <1>1, <1>2 DEF DemoAgentHolds, Active
<1>5. ASSUME a # DemoAgent, DemoAgentHolds PROVE DemoAgentHolds'
  <2>1. PICK i \in Active(HelloText) : rows[i].agent = DemoAgent
    BY <1>5 DEF DemoAgentHolds
  <2>2. i \in DOMAIN rows' /\ rows'[i] = rows[i]
    BY <1>1, <1>5, <2>1 DEF Active, Superseded
  <2> QED
    BY <2>1, <2>2 DEF DemoAgentHolds, Active
<1> QED
  BY <1>1, <1>2, <1>3, <1>4, <1>5

\* Nothing of the demo's data goes away.
Kept ==
  /\ made \subseteq made' /\ agents \subseteq agents'
  /\ HasDemoManifest => HasDemoManifest'
  /\ DemoAgentHolds => DemoAgentHolds'

LEMMA ManifestKept ==
  ASSUME DemoTypeOK, NEW m \in Row, manifests' = Append(manifests, m)
  PROVE  HasDemoManifest \/ m.demo => HasDemoManifest'
<1>1. manifests \in Seq(Row)
  BY DEF DemoTypeOK, Row
<1>2. /\ Len(manifests) + 1 \in DOMAIN manifests' /\ manifests'[Len(manifests) + 1] = m
      /\ \A i \in DOMAIN manifests : i \in DOMAIN manifests' /\ manifests'[i] = manifests[i]
  BY <1>1
<1> QED
  BY <1>2 DEF HasDemoManifest

\* A step that is done stays done while the manifests do not change or include
\* the one of the demo.
LEMMA DoneStays ==
  ASSUME Kept, UNCHANGED manifests \/ HasDemoManifest', NEW s, Done(s)
  PROVE  Done(s)'
<1>1. CASE s = "manifest"
  <2>1. UNCHANGED manifests => Latest' = Latest
    BY DEF Latest, IsLatest
  <2> QED
    BY <1>1, <2>1 DEF Done, Kept
<1>2. CASE s # "manifest"
  BY <1>2 DEF Done, Kept
<1> QED
  BY <1>1, <1>2
\* No step of the program takes away what the demo has.
LEMMA KeptStep ==
  ASSUME DemoTypeOK, [DemoNext]_demoVars
  PROVE  Kept
<1>0. TypeOK
  BY DEF DemoTypeOK
<1>r. ASSUME UNCHANGED rows PROVE DemoAgentHolds => DemoAgentHolds'
  BY <1>r DEF DemoAgentHolds, Active
<1>m. ASSUME UNCHANGED manifests PROVE HasDemoManifest => HasDemoManifest'
  BY <1>m DEF HasDemoManifest
<1>1. CASE \/ \E inDemoMode \in BOOLEAN : StartUp(inDemoMode)
           \/ (\E item \in Items : Ensure(item)) \/ EnsureTrustedDemoAgentKey \/ SeedAgent
           \/ StatusFound \/ Refuse \/ StatementFails \/ Crash
           \/ (\E a \in Agents : Revoke(a) \/ Expire(a)) \/ Second \/ UNCHANGED demoVars
           \/ (\E n \in Seqs : CheckUpload(n) \/ UploadFails(n))
  <2>1. made \subseteq made' /\ agents \subseteq agents' /\ UNCHANGED <<rows, manifests>>
    BY <1>1 DEF StartUp, Ensure, EnsureTrustedDemoAgentKey, SeedAgent, StatusFound, Refuse,
       StatementFails, Crash, Revoke, Expire, Second, Tick, CheckUpload, UploadFails, demoVars,
       seedVars, vars
  <2> QED
    BY <1>r, <1>m, <2>1 DEF Kept
<1>2. CASE SeedHelloTextManifest \/ \E n \in Seqs : InsertUpload(n)
  <2>1. UNCHANGED <<rows, made, agents>>
    BY <1>2 DEF SeedHelloTextManifest, InsertUpload, vars
  <2>2. CASE UNCHANGED manifests
    BY <1>r, <1>m, <2>1, <2>2 DEF Kept
  <2>3. ASSUME NEW m \in Row, manifests' = Append(manifests, m) PROVE Kept
    BY <1>r, <2>1, <2>3, ManifestKept DEF Kept
  <2>4. [seq |-> 0, demo |-> TRUE] \in Row /\ \A n \in Seqs : [seq |-> n, demo |-> FALSE] \in Row
    BY DemoAssumption DEF Row
  <2> QED
    BY <1>2, <2>2, <2>3, <2>4 DEF SeedHelloTextManifest, InsertUpload
<1>3. ASSUME NEW a \in Agents, NEW n \in Seqs, UNCHANGED <<made, manifests, agents>>,
             ReflectManifestSuccess(a, [component |-> HelloText, seq |-> n])
      PROVE  Kept
  BY <1>0, <1>m, <1>3, HoldingStep DEF Kept
<1>4. CASE SeedStatus
  BY <1>1, <1>3, <1>4, DemoAssumption DEF SeedStatus
<1>5. ASSUME NEW n \in Seqs, Report(n) PROVE Kept
  BY <1>3, <1>5, DemoAssumption DEF Report, seedVars
<1> QED
  BY <1>1, <1>2, <1>4, <1>5 DEF DemoNext

\* The data of the demo, in the words of RunningHasDemoData.
LEMMA AllDone ==
  ASSUME DemoTypeOK, SeedInv, at = Running, demo
  PROVE  RunningHasDemoData /\ HasDemoManifest
<1>1. \A i \in 1 .. 15 : Done(Steps[i])
  BY StepsAre DEF SeedInv
<1>2. /\ Done("admin") /\ Done("adminKey") /\ Done("developer") /\ Done("developerKey")
      /\ Done("deviceAdmin") /\ Done("device") /\ Done("trustedKey") /\ Done("agent")
      /\ Done("status")
  BY <1>1, StepsAre
<1>3. made = Items
  BY <1>2 DEF Done, Items, DemoTypeOK
<1>4. agents = Agents
  BY <1>2, DemoAssumption DEF Done, DemoTypeOK
<1>5. DemoAgentHolds
  BY <1>2 DEF Done
<1>6. HasDemoManifest
  BY <1>5 DEF SeedInv, DemoAgentHolds, Active
<1> QED
  BY <1>3, <1>4, <1>5, <1>6 DEF RunningHasDemoData, DemoAgentHolds, HasDemoManifest

\* What the seeding has done so far stays done, and each step adds its own.
Progress == demo => \A i \in DOMAIN Steps : i < at => Done(Steps[i])

LEMMA ProgressStep ==
  ASSUME DemoTypeOK, SeedInv, UploadInv, [DemoNext]_demoVars
  PROVE  Progress'
<1>0. /\ Kept /\ at \in 0 .. 16 /\ DOMAIN Steps = 1 .. 15 /\ Running = 16 /\ Down = 0
      /\ demo => \A i \in DOMAIN Steps : i < at => Done(Steps[i])
  BY KeptStep, StepsAre DEF DemoTypeOK, SeedInv
<1>1. ASSUME at' = Down PROVE Progress'
  BY <1>0, <1>1 DEF Progress
<1>2. CASE \E inDemoMode \in BOOLEAN : StartUp(inDemoMode)
  BY <1>0, <1>2 DEF StartUp, Progress
<1>3. ASSUME UNCHANGED <<at, demo>>, UNCHANGED manifests \/ (demo => HasDemoManifest')
      PROVE  Progress'
  BY <1>0, <1>3, DoneStays DEF Progress
<1>4. ASSUME NEW s, IsStep(s), Advance, Done(s)', UNCHANGED manifests \/ HasDemoManifest'
      PROVE  Progress'
  <2>1. at' = at + 1 /\ demo' = demo
    BY <1>4 DEF Advance, FollowingStep
  <2>2. ASSUME demo, NEW i \in DOMAIN Steps, i < at' PROVE Done(Steps[i])'
    <3>1. CASE i < at
      BY <1>0, <1>4, <2>2, <3>1, DoneStays
    <3>2. CASE i = at
      BY <1>4, <3>2 DEF IsStep
    <3> QED
      BY <1>0, <1>4, <2>1, <2>2, <3>1, <3>2 DEF IsStep
  <2> QED
    BY <2>1, <2>2 DEF Progress
<1>5. CASE \E item \in Items : Ensure(item)
  <2>1. PICK item \in Items : Ensure(item)
    BY <1>5
  <2>2. IsStep(item) /\ Advance /\ UNCHANGED manifests /\ item \in made'
    BY <2>1 DEF Ensure
  <2>3. Done(item)'
    BY <2>2 DEF Done, Items
  <2> QED
    BY <1>4, <2>2, <2>3
<1>6. CASE SeedHelloTextManifest
  <2>1. IsStep("manifest") /\ Advance
    BY <1>6 DEF SeedHelloTextManifest
  <2>2. CASE CreatesManifest
    <3>1. [seq |-> 0, demo |-> TRUE] \in Row /\ [seq |-> 0, demo |-> TRUE].demo
      BY DemoAssumption DEF Row
    <3>2. HasDemoManifest'
      BY <1>6, <2>2, <3>1, ManifestKept DEF SeedHelloTextManifest
    <3>3. Done("manifest")'
      BY <3>2 DEF Done
    <3> QED
      BY <1>4, <2>1, <3>2, <3>3
  <2>3. CASE ~CreatesManifest
    <3>1. UNCHANGED manifests /\ Done("manifest")
      BY <1>6, <2>3 DEF SeedHelloTextManifest, CreatesManifest, Done
    <3>2. Done("manifest")'
      BY <1>0, <3>1, DoneStays
    <3> QED
      BY <1>4, <2>1, <3>1, <3>2
  <2> QED
    BY <2>2, <2>3
<1>7. CASE EnsureTrustedDemoAgentKey
  <2>1. CASE Refuse
    BY <1>1, <2>1 DEF Refuse
  <2>2. CASE TrustedKey \in agents' /\ Advance /\ UNCHANGED manifests
    <3>1. Done("trustedKey")'
      BY <2>2 DEF Done
    <3> QED
      BY <1>4, <1>7, <2>2, <3>1 DEF EnsureTrustedDemoAgentKey
  <2> QED
    BY <1>7, <2>1, <2>2 DEF EnsureTrustedDemoAgentKey
<1>8. CASE SeedAgent
  <2>1. CASE Refuse
    BY <1>1, <2>1 DEF Refuse
  <2>2. CASE DemoAgent \in agents' /\ Advance /\ UNCHANGED manifests
    <3>1. Done("agent")'
      BY <2>2 DEF Done
    <3> QED
      BY <1>4, <1>8, <2>2, <3>1 DEF SeedAgent
  <2> QED
    BY <1>8, <2>1, <2>2 DEF SeedAgent
<1>9. CASE StatusFound
  <2>1. IsStep("status") /\ Advance /\ UNCHANGED manifests
    BY <1>9 DEF StatusFound
  <2>2. DemoAgentHolds
    BY <1>9 DEF StatusFound, MayShow, DemoAgentHolds
  <2>3. Done("status")'
    BY <1>0, <2>2 DEF Done, Kept
  <2> QED
    BY <1>4, <2>1, <2>3
<1>10. CASE SeedStatus
  <2>1. CASE Refuse
    BY <1>1, <2>1 DEF Refuse
  <2>2. CASE /\ ReflectManifestSuccess(DemoAgent, [component |-> HelloText, seq |-> 0])
             /\ Advance /\ UNCHANGED manifests
    <3>1. DemoAgentHolds'
      BY <2>2, HoldingStep, DemoAssumption DEF DemoTypeOK
    <3>2. Done("status")'
      BY <3>1 DEF Done
    <3> QED
      BY <1>4, <1>10, <2>2, <3>2 DEF SeedStatus
  <2> QED
    BY <1>10, <2>1, <2>2 DEF SeedStatus
<1>11. CASE StatementFails \/ Crash
  BY <1>1, <1>11 DEF StatementFails, Crash
<1>12. ASSUME NEW n \in Seqs, InsertUpload(n) PROVE Progress'
  <2>1. demo => HasDemoManifest
    BY <1>12, AllDone DEF InsertUpload, UploadInv
  <2> QED
    BY <1>0, <1>3, <1>12, <2>1 DEF InsertUpload, Kept
<1>13. CASE \/ \E n \in Seqs : Report(n) \/ CheckUpload(n) \/ UploadFails(n)
            \/ \E a \in Agents : Revoke(a) \/ Expire(a)
            \/ Second \/ UNCHANGED demoVars
  BY <1>3, <1>13 DEF Report, CheckUpload, UploadFails, Revoke, Expire, Second, demoVars, seedVars
<1> QED
  BY <1>2, <1>5, <1>6, <1>7, <1>8, <1>9, <1>10, <1>11, <1>12, <1>13 DEF DemoNext
\* Only a start-up in demo mode seeds, and a refused one has ended.
LEMMA StartedStep ==
  ASSUME DemoTypeOK, SeedInv, [DemoNext]_demoVars
  PROVE  (at' \in DOMAIN Steps => demo') /\ (outcome' = "refused" => at' = Down)
<1>0. /\ DOMAIN Steps = 1 .. 15 /\ Running = 16 /\ Down = 0 /\ at \in 0 .. 16
      /\ (at \in DOMAIN Steps => demo) /\ (outcome = "refused" => at = Down)
  BY StepsAre DEF SeedInv, DemoTypeOK
<1>1. CASE at' = Down
  BY <1>0, <1>1
<1>2. ASSUME at \in DOMAIN Steps, Advance
      PROVE  (at' \in DOMAIN Steps => demo') /\ (outcome' = "refused" => at' = Down)
  BY <1>0, <1>2 DEF Advance
<1>3. CASE \E inDemoMode \in BOOLEAN : StartUp(inDemoMode)
  BY <1>0, <1>3 DEF StartUp
<1>4. CASE UNCHANGED <<at, demo, outcome>>
  BY <1>0, <1>4
<1> QED
  BY <1>1, <1>2, <1>3, <1>4 DEF DemoNext, Ensure, SeedHelloTextManifest,
     EnsureTrustedDemoAgentKey, Refuse, SeedAgent, StatusFound, SeedStatus, StatementFails, Crash,
     CheckUpload, InsertUpload, UploadFails, Report, Revoke, Expire, Second, demoVars, seedVars, IsStep

\* The demo agent has a row only if the manifest of the demo was there.
LEMMA DemoRowStep ==
  ASSUME DemoTypeOK, SeedInv, [DemoNext]_demoVars,
         \E i \in DOMAIN rows' : rows'[i].agent = DemoAgent
  PROVE  HasDemoManifest'
<1>0. /\ Kept /\ TypeOK
      /\ (\E i \in DOMAIN rows : rows[i].agent = DemoAgent) => HasDemoManifest
  BY KeptStep DEF SeedInv, DemoTypeOK
<1>1. CASE UNCHANGED rows
  BY <1>0, <1>1 DEF Kept
<1>2. CASE SeedStatus
  <2>1. CASE Refuse
    BY <1>1, <2>1 DEF Refuse, vars
  <2>2. CASE HasDemoManifest
    BY <1>0, <2>2 DEF Kept
  <2> QED
    BY <1>2, <2>1, <2>2 DEF SeedStatus, HasDemoManifest
<1>3. ASSUME NEW n \in Seqs, Report(n) PROVE HasDemoManifest'
  <2>1. TrustedKey \in Agents /\ TrustedKey # DemoAgent
    BY DemoAssumption
  <2> QED
    BY <1>0, <1>3, <2>1, HoldingStep DEF Report, Kept
<1> QED
  BY <1>1, <1>2, <1>3 DEF DemoNext, StartUp, Ensure, SeedHelloTextManifest,
     EnsureTrustedDemoAgentKey, Refuse, SeedAgent, StatusFound, StatementFails, Crash,
     CheckUpload, InsertUpload, UploadFails, Revoke, Expire, Second, Tick, demoVars, seedVars, vars

\* A refusal has one of its reasons, and keeps it until the next start-up.
LEMMA ReasonStep ==
  ASSUME DemoTypeOK, SeedInv, UploadInv, RefusedForAReason, [DemoNext]_demoVars
  PROVE  RefusedForAReason'
<1>0. DOMAIN Steps = 1 .. 15 /\ Running = 16 /\ Down = 0 /\ at \in 0 .. 16
  BY StepsAre DEF DemoTypeOK
<1> DEFINE Reason == \/ TrustedKey \in expired
                     \/ DemoAgent \in revoked \cup expired
                     \/ Latest = 0 /\ ~HasDemoManifest
<1>r. (outcome = "refused" => Reason) /\ (Reason' => RefusedForAReason')
  BY DEF RefusedForAReason, HasDemoManifest
<1>1. CASE outcome' # "refused"
  BY <1>1 DEF RefusedForAReason
<1>2. ASSUME outcome = "refused" \/ Reason, UNCHANGED manifests,
             revoked \subseteq revoked', expired \subseteq expired'
      PROVE  RefusedForAReason'
  <2>1. Latest' = Latest /\ HasDemoManifest' = HasDemoManifest
    BY <1>2 DEF Latest, IsLatest, HasDemoManifest
  <2>2. Reason'
    BY <1>r, <1>2, <2>1
  <2> QED
    BY <1>r, <2>2
<1>3. ASSUME Refuse, Reason PROVE RefusedForAReason'
  BY <1>2, <1>3 DEF Refuse
<1>4. ASSUME at \in DOMAIN Steps, Advance PROVE outcome' # "refused"
  BY <1>0, <1>4 DEF Advance, SeedInv
<1>5. CASE EnsureTrustedDemoAgentKey \/ SeedAgent
  BY <1>1, <1>3, <1>4, <1>5 DEF EnsureTrustedDemoAgentKey, SeedAgent, IsStep, Valid, LookupFails
<1>6. CASE SeedStatus
  <2>1. CASE Refuse /\ ~HasDemoManifest
    <3>1. at = 15 /\ demo
      <4>1. at \in DOMAIN Steps /\ Steps[at] = "status" /\ demo
        BY <1>6 DEF SeedStatus, IsStep, SeedInv
      <4>2. at \notin 1 .. 5 /\ at \notin {6, 7, 13, 14}
        BY <4>1, StepsAre
      <4>3. at \notin 8 .. 12
        <5>1. /\ Steps[8] = "admin" /\ Steps[9] = "adminKey" /\ Steps[10] = "developer"
              /\ Steps[11] = "developerKey" /\ Steps[12] = "deviceAdmin"
          BY DEF Steps, SeedEntities
        <5> QED
          BY <4>1, <5>1
      <4> QED
        BY <1>0, <4>1, <4>2, <4>3
    <3>2. Done("manifest")
      BY <1>0, <3>1, StepsAre DEF SeedInv
    <3>3. Latest = 0
      BY <2>1, <3>2 DEF Done
    <3> QED
      BY <1>3, <2>1, <3>3
  <2> QED
    BY <1>1, <1>4, <1>6, <2>1 DEF SeedStatus, IsStep, HasDemoManifest
<1>7. CASE StartUp(TRUE) \/ StartUp(FALSE) \/ StatementFails
  BY <1>1, <1>7 DEF StartUp, StatementFails
<1>8. CASE \/ (\E item \in Items : Ensure(item)) \/ SeedHelloTextManifest \/ StatusFound
  BY <1>1, <1>4, <1>8 DEF Ensure, SeedHelloTextManifest, StatusFound, IsStep
<1>9. CASE \E n \in Seqs : InsertUpload(n)
  BY <1>0, <1>1, <1>9 DEF InsertUpload, SeedInv, UploadInv
<1>10. CASE \/ Crash \/ (\E n \in Seqs : Report(n)) \/ (\E a \in Agents : Revoke(a) \/ Expire(a))
            \/ (\E n \in Seqs : CheckUpload(n) \/ UploadFails(n)) \/ Second \/ UNCHANGED demoVars
  <2>1. /\ UNCHANGED <<manifests, outcome>>
        /\ revoked \subseteq revoked' /\ expired \subseteq expired'
    BY <1>10 DEF Crash, CheckUpload, UploadFails, Report, Revoke, Expire, Second, demoVars, seedVars
  <2> QED
    BY <1>1, <1>2, <2>1
<1> QED
  BY <1>5, <1>6, <1>7, <1>8, <1>9, <1>10 DEF DemoNext

-----------------------------------------------------------------------------
(***************************************************************************)
(* Uploads, and the manifest of the demo.                                  *)
(***************************************************************************)

\* What is said of the table and the uploads under way.
DemoRowsAreZero(s) == \A i \in DOMAIN s : s[i].demo => s[i].seq = 0

HasDemo(s) == \E i \in DOMAIN s : s[i].demo

OnlyAlone(s) == \A i \in DOMAIN s : s[i].demo /\ Tops(s, i) => Len(s) = 1

\* A row may be added to a table if the seeding found no latest number 0, or if
\* the row is not the demo's and, next to one of the demo's, above 0.
LEMMA AppendAlone ==
  ASSUME NEW s \in Seq(Row), NEW m \in Row, HasTop(s), DemoRowsAreZero(s),
         m.demo => m.seq = 0,
         \/ s = <<>>
         \/ LatestOf(s) # 0
         \/ ~m.demo /\ (HasDemo(s) => m.seq # 0)
  PROVE  /\ DemoRowsAreZero(Append(s, m)) /\ OnlyAlone(Append(s, m))
         /\ ~m.demo /\ ~HasDemo(s) => ~HasDemo(Append(s, m))
<1> DEFINE t == Append(s, m)
           n == Len(s) + 1
<1>1. /\ Len(s) \in Nat /\ DOMAIN s = 1 .. Len(s) /\ Len(t) = n
      /\ DOMAIN t = DOMAIN s \cup {n} /\ n \in DOMAIN t /\ t[n] = m
      /\ \A j \in DOMAIN s : t[j] = s[j]
  OBVIOUS
<1>2. m.seq \in Nat /\ \A j \in DOMAIN s : s[j].seq \in Nat
  <2>1. \A j \in DOMAIN s : s[j] \in Row
    OBVIOUS
  <2> QED
    BY <2>1, BoundAssumption DEF Row
<1>3. s = <<>> => Len(t) = 1
  OBVIOUS
<1> HIDE DEF t
<1>4. DemoRowsAreZero(t)
  BY <1>1 DEF DemoRowsAreZero
<1>5. ~m.demo /\ ~HasDemo(s) => ~HasDemo(t)
  BY <1>1 DEF HasDemo
<1>6. ASSUME NEW i \in DOMAIN t, t[i].demo, Tops(t, i), s # <<>> PROVE FALSE
  <2>1. t[i].seq = 0 /\ \A j \in DOMAIN t : t[j].seq = 0
    <3>1. t[i].seq = 0
      BY <1>4, <1>6 DEF DemoRowsAreZero
    <3>2. ASSUME NEW j \in DOMAIN t PROVE t[j].seq = 0
      <4>1. t[j].seq <= 0
        BY <1>6, <3>1 DEF Tops
      <4>2. t[j].seq \in Nat
        BY <1>1, <1>2
      <4> QED
        BY <4>1, <4>2
    <3> QED
      BY <3>1, <3>2
  <2>2. CASE LatestOf(s) # 0
    <3>1. PICK k \in DOMAIN s : Tops(s, k)
      BY <1>6 DEF HasTop
    <3>2. LatestOf(s) = s[k].seq
      BY <3>1, LatestOfTop
    <3> QED
      BY <1>1, <2>1, <2>2, <3>2
  <2>3. CASE ~m.demo /\ (HasDemo(s) => m.seq # 0)
    BY <1>1, <1>6, <2>1, <2>3 DEF HasDemo
  <2> QED
    BY <1>6, <2>2, <2>3
<1> QED
  BY <1>3, <1>4, <1>5, <1>6 DEF OnlyAlone, t

LEMMA UploadParts ==
  /\ UploadInv <=> /\ DemoRowsAreZero(manifests) /\ (HasDemo(manifests) => 0 \notin checked)
                   /\ at # Running => checked = {}
  /\ DemoManifestYields <=> OnlyAlone(manifests)
  BY DEF UploadInv, DemoRowsAreZero, HasDemo, HasDemoManifest, DemoManifestYields, OnlyAlone,
     IsLatest, Tops

LEMMA UploadPartsPrime ==
  /\ UploadInv' <=> /\ DemoRowsAreZero(manifests') /\ (HasDemo(manifests') => 0 \notin checked')
                    /\ at' # Running => checked' = {}
  /\ DemoManifestYields' <=> OnlyAlone(manifests')
  BY DEF UploadInv, DemoRowsAreZero, HasDemo, HasDemoManifest, DemoManifestYields, OnlyAlone,
     IsLatest, Tops

\* Uploads are checked and inserted while the server runs, when nothing is
\* seeded; the seeding meets none of them.
LEMMA UploadStep ==
  ASSUME DemoTypeOK, LatestInv, UploadInv, DemoManifestYields, [DemoNext]_demoVars
  PROVE  UploadInv' /\ DemoManifestYields'
<1>0. /\ manifests \in Seq(Row) /\ HasTop(manifests) /\ checked \subseteq Seqs
      /\ DemoRowsAreZero(manifests) /\ OnlyAlone(manifests)
      /\ HasDemo(manifests) => 0 \notin checked
      /\ at # Running => checked = {}
  BY LatestParts, UploadParts DEF DemoTypeOK, Row
<1>s. DOMAIN Steps = 1 .. 15 /\ Running = 16 /\ Down = 0
  BY StepsAre
<1>1. ASSUME UNCHANGED manifests, checked' \subseteq checked, at' # Running => checked' = {}
      PROVE  UploadInv' /\ DemoManifestYields'
  BY <1>0, <1>1, UploadPartsPrime
<1>2. ASSUME UNCHANGED <<manifests, checked>>, at # Running \/ at' = at
      PROVE  UploadInv' /\ DemoManifestYields'
  BY <1>0, <1>1, <1>2
<1>3. CASE SeedHelloTextManifest
  <2> DEFINE m == [seq |-> 0, demo |-> TRUE]
  <2>1. m \in Row /\ m.seq = 0 /\ m.demo
    BY DemoAssumption DEF Row
  <2>2. checked = {} /\ checked' = checked
    BY <1>0, <1>s, <1>3 DEF SeedHelloTextManifest, IsStep, Advance
  <2>3. CASE CreatesManifest
    <3>1. manifests = <<>> \/ LatestOf(manifests) # 0
      BY <2>3, LatestParts DEF CreatesManifest
    <3>2. manifests' = Append(manifests, m)
      BY <1>3, <2>3 DEF SeedHelloTextManifest
    <3> HIDE DEF m
    <3>3. DemoRowsAreZero(manifests') /\ OnlyAlone(manifests')
      BY <1>0, <2>1, <3>1, <3>2, AppendAlone
    <3> QED
      BY <2>2, <3>3, UploadPartsPrime
  <2>4. CASE ~CreatesManifest
    BY <1>1, <1>3, <2>2, <2>4 DEF SeedHelloTextManifest
  <2> QED
    BY <2>3, <2>4
<1>4. ASSUME NEW n \in Seqs, CheckUpload(n)
      PROVE  UploadInv' /\ DemoManifestYields'
  <2>1. at = Running /\ at' = at /\ UNCHANGED manifests /\ checked' = checked \cup {n}
    BY <1>4 DEF CheckUpload
  <2>2. HasDemo(manifests) => n # 0
    <3> SUFFICES ASSUME HasDemo(manifests) PROVE n # 0
      OBVIOUS
    <3>1. manifests # <<>>
      BY DEF HasDemo
    <3>2. PICK k \in DOMAIN manifests : Tops(manifests, k)
      BY <1>0, <3>1 DEF HasTop
    <3>3. Latest = LatestOf(manifests) /\ Latest \in Seqs
      BY <1>0, <3>1, <3>2, LatestOfTop, LatestParts
    <3>4. n > Latest /\ Latest \in Nat /\ n \in Nat
      BY <1>4, <3>3, DemoAssumption, BoundAssumption DEF CheckUpload
    <3> QED
      BY <3>4
  <2> QED
    BY <1>0, <2>1, <2>2, UploadPartsPrime
<1>5. ASSUME NEW n \in Seqs, InsertUpload(n)
      PROVE  UploadInv' /\ DemoManifestYields'
  <2> DEFINE m == [seq |-> n, demo |-> FALSE]
  <2>1. m \in Row /\ m.seq = n /\ ~m.demo
    BY DEF Row
  <2>2. /\ manifests' = Append(manifests, m) /\ n \in checked
        /\ checked' \subseteq checked /\ at' = at
    BY <1>5 DEF InsertUpload
  <2> HIDE DEF m
  <2>3. HasDemo(manifests) => m.seq # 0
    BY <1>0, <2>1, <2>2
  <2>4. /\ DemoRowsAreZero(manifests') /\ OnlyAlone(manifests')
        /\ ~HasDemo(manifests) => ~HasDemo(manifests')
    BY <1>0, <2>1, <2>2, <2>3, AppendAlone
  <2> QED
    BY <1>0, <2>2, <2>4, UploadPartsPrime
<1>6. ASSUME NEW n \in Seqs, UploadFails(n)
      PROVE  UploadInv' /\ DemoManifestYields'
  BY <1>0, <1>1, <1>6 DEF UploadFails
<1>7. CASE Crash
  BY <1>0, <1>1, <1>7 DEF Crash
<1>8. CASE \/ \E inDemoMode \in BOOLEAN : StartUp(inDemoMode)
           \/ (\E item \in Items : Ensure(item)) \/ EnsureTrustedDemoAgentKey \/ SeedAgent
           \/ StatusFound \/ SeedStatus \/ StatementFails
  <2>1. at # Running
    BY <1>s, <1>8 DEF StartUp, Ensure, EnsureTrustedDemoAgentKey, SeedAgent, StatusFound, SeedStatus,
       StatementFails, IsStep
  <2>2. UNCHANGED <<manifests, checked>>
    BY <1>8 DEF StartUp, Ensure, EnsureTrustedDemoAgentKey, SeedAgent, StatusFound, SeedStatus,
       StatementFails, Refuse, Advance
  <2> QED
    BY <1>2, <2>1, <2>2
<1>9. CASE \/ (\E n \in Seqs : Report(n)) \/ (\E a \in Agents : Revoke(a) \/ Expire(a))
           \/ Second \/ UNCHANGED demoVars
  BY <1>2, <1>9 DEF Report, Revoke, Expire, Second, demoVars, seedVars
<1> QED
  BY <1>3, <1>4, <1>5, <1>6, <1>7, <1>8, <1>9 DEF DemoNext

\* UploadInv and DemoManifestYields are invariants.
LEMMA UploadInvariant == DemoSpec => [](UploadInv /\ DemoManifestYields)
<1>1. DemoInit => UploadInv /\ DemoManifestYields
  <2> SUFFICES ASSUME DemoInit PROVE UploadInv /\ DemoManifestYields
    OBVIOUS
  <2>1. manifests = <<>> /\ checked = {}
    BY DEF DemoInit
  <2> QED
    BY <2>1 DEF UploadInv, HasDemoManifest, DemoManifestYields
<1>2. /\ DemoTypeOK /\ LatestInv /\ UploadInv /\ DemoManifestYields /\ [DemoNext]_demoVars
      => UploadInv' /\ DemoManifestYields'
  BY UploadStep
<1> QED
  BY <1>1, <1>2, LatestInvariant, PTL DEF DemoSpec

\* The manifest of the demo is the latest of hello.txt only while it is the only
\* one, however often it is seeded and however uploads overlap.
THEOREM DemoManifestYieldsToOthers == DemoSpec => []DemoManifestYields
  BY UploadInvariant, PTL

\* SeedInv and RefusedForAReason are invariants.
LEMMA SeedInvariant == DemoSpec => [](SeedInv /\ RefusedForAReason)
<1>1. DemoInit => SeedInv /\ RefusedForAReason
  <2> SUFFICES ASSUME DemoInit PROVE SeedInv /\ RefusedForAReason
    OBVIOUS
  <2>1. demo = FALSE /\ at = 0 /\ outcome = "none" /\ rows = <<>>
    BY StepsAre DEF DemoInit, Init
  <2> QED
    BY <2>1, StepsAre DEF SeedInv, RefusedForAReason
<1>2. ASSUME DemoTypeOK, SeedInv, UploadInv, RefusedForAReason, [DemoNext]_demoVars
      PROVE  SeedInv' /\ RefusedForAReason'
  <2>1. Progress'
    BY <1>2, ProgressStep
  <2>2. (at' \in DOMAIN Steps => demo') /\ (outcome' = "refused" => at' = Down)
    BY <1>2, StartedStep
  <2>3. (\E i \in DOMAIN rows' : rows'[i].agent = DemoAgent) => HasDemoManifest'
    BY <1>2, DemoRowStep
  <2>4. SeedInv'
    BY <2>1, <2>2, <2>3 DEF SeedInv, Progress
  <2> QED
    BY <1>2, <2>4, ReasonStep
<1> QED
  BY <1>1, <1>2, LatestInvariant, UploadInvariant, PTL DEF DemoSpec

\* A server that runs in demo mode has everything the demo needs, however many
\* start-ups failed or died half way before.
THEOREM RunningServerHasDemoData == DemoSpec => []RunningHasDemoData
<1>1. DemoTypeOK /\ SeedInv => RunningHasDemoData
  BY AllDone DEF RunningHasDemoData
<1> QED
  BY <1>1, LatestInvariant, SeedInvariant, PTL

\* Seeding again fails for good only because a key of the demo is no longer
\* valid or because another manifest has taken the number 0.
THEOREM SeedingRefusedForAReason == DemoSpec => []RefusedForAReason
  BY SeedInvariant, PTL
=============================================================================
