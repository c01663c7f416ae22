---------------------------- MODULE DemoSeeding ----------------------------
(***************************************************************************)
(* Start-up of the TAM in insecure demo mode: New in                       *)
(* internal/server/server.go, SeedDemoData in internal/tam/tam.go and      *)
(* internal/demo/demo.go, on a database that outlives the process.         *)
(*                                                                         *)
(* The seeding is a chain of find-or-create steps without a transaction    *)
(* around them.  Any statement may fail, which ends the process, and the   *)
(* process may die at any time: the next start-up meets whatever was       *)
(* written so far, and also what happened while the server was running     *)
(* (manifests, reports, revocations, expiry).  The server may be started   *)
(* without demo mode in between.  Requests are served after the seeding    *)
(* only, so a find and the create that follows it are one step.            *)
(*                                                                         *)
(* Holdings and their query are those of AgentStatus, for the one trusted  *)
(* component of the demo, hello.txt.                                       *)
(***************************************************************************)
EXTENDS AgentStatus

CONSTANTS
    HelloText,      \* the trusted component of the demo
    DemoAgent,      \* DefaultAgentKID: its public key is no key, it never reports
    TrustedKey,     \* DefaultTrustedAgentKey: an agent that may report
    MaxManifests    \* bound on the rows of suit_manifests

ASSUME DemoAssumption ==
    /\ Components = {HelloText}
    /\ Agents = {DemoAgent, TrustedKey}
    /\ DemoAgent # TrustedKey
    /\ 0 \in Seqs /\ None \notin Seqs
    /\ MaxManifests \in Nat

\* Rows that ensureEntity, ensureManifestSigningKey and the device lookup find
\* or create.
Items == {"admin", "adminKey", "developer", "developerKey", "deviceAdmin", "device"}

SeedEntities == <<"admin", "adminKey", "developer", "developerKey", "deviceAdmin">>

\* SeedDemoData: SeedDemoEntities, then SeedDemoAgent, which seeds the entities
\* once more.
Steps == SeedEntities \o <<"manifest", "trustedKey">> \o SeedEntities
         \o <<"device", "agent", "status">>

Down == 0
Running == Len(Steps) + 1

VARIABLES
    made,           \* the items in the database
    manifests,      \* suit_manifests of hello.txt; demo: with the digest of the demo
    agents,         \* table agents
    revoked,        \* agents with revoked_at set
    expired,        \* agents whose expired_at has passed
    checked,        \* numbers that uploads have been found newer with and will insert
    at,             \* Down, the current step of the seeding, or Running
    demo,           \* started in demo mode
    outcome         \* history: how the latest start-up ended

seedVars == <<made, manifests, agents, revoked, expired, checked, at, demo, outcome>>
demoVars == <<vars, seedVars>>

DemoTypeOK ==
    /\ TypeOK
    /\ made \subseteq Items
    /\ manifests \in Seq([seq : Seqs, demo : BOOLEAN])
    /\ agents \subseteq Agents /\ revoked \subseteq agents /\ expired \subseteq agents
    /\ checked \subseteq Seqs
    /\ at \in Down .. Running
    /\ demo \in BOOLEAN
    /\ outcome \in {"none", "running", "failed", "refused"}

DemoInit ==
    /\ Init
    /\ made = {} /\ manifests = <<>>
    /\ agents = {} /\ revoked = {} /\ expired = {}
    /\ checked = {} /\ at = Down /\ demo = FALSE /\ outcome = "none"

-----------------------------------------------------------------------------
(***************************************************************************)
(* Lookups.                                                                *)
(***************************************************************************)

IsLatest(i) == \A j \in DOMAIN manifests : manifests[j].seq <= manifests[i].seq

\* Fault: the latest manifest is the one inserted last.
LatestInserted == IF manifests = <<>> THEN None ELSE manifests[Len(manifests)].seq

\* FindLatestByTrustedComponentID: its sequence number.
Latest ==
    IF manifests = <<>> THEN None
    ELSE manifests[CHOOSE i \in DOMAIN manifests : IsLatest(i)].seq

\* Fault: the manifest is created without a look at the latest one.
AlwaysCreate == TRUE

\* SeedHelloTextManifest: nothing to do only if the latest manifest has number 0.
CreatesManifest == Latest # 0

\* FindByKID finds a key that is neither revoked nor expired.
Valid(a) == a \in agents \ (revoked \cup expired)

\* Fault: setTEEPAgentKey looks with FindByKID.
LooksWithFindByKID(a) == a \in revoked \cup expired

\* setTEEPAgentKey, FindByKIDIgnoreRevoked: an expired row is an error.
LookupFails(a) == a \in expired

\* Fault: the scenario ends where the agent is found.
SkipsStatusOfKnownAgent ==
    IF Steps[at] = "agent" /\ DemoAgent \in agents THEN Running ELSE at + 1

FollowingStep == at + 1

-----------------------------------------------------------------------------
(***************************************************************************)
(* The seeding.                                                            *)
(***************************************************************************)

IsStep(s) == at \in DOMAIN Steps /\ Steps[at] = s

Advance ==
    /\ at' = FollowingStep
    /\ outcome' = IF at' = Running THEN "running" ELSE outcome
    /\ UNCHANGED <<revoked, expired, checked, demo>>

\* What the database holds makes the step an error: New returns it and the
\* process ends.
Refuse ==
    /\ at' = Down
    /\ outcome' = "refused"
    /\ UNCHANGED <<vars, made, manifests, agents, revoked, expired, checked, demo>>

\* New: the seeding begins, or the server runs at once.
StartUp(inDemoMode) ==
    /\ at = Down
    /\ demo' = inDemoMode
    /\ at' = IF inDemoMode THEN 1 ELSE Running
    /\ outcome' = IF inDemoMode THEN "none" ELSE "running"
    /\ UNCHANGED <<vars, made, manifests, agents, revoked, expired, checked>>

\* ensureEntity, ensureManifestSigningKey and the device of SeedAgentScenario.
Ensure(item) ==
    /\ IsStep(item)
    /\ made' = made \cup {item}
    /\ Advance
    /\ UNCHANGED <<vars, manifests, agents>>

SeedHelloTextManifest ==
    /\ IsStep("manifest")
    /\ CreatesManifest => Len(manifests) < MaxManifests
    /\ manifests' = IF CreatesManifest THEN Append(manifests, [seq |-> 0, demo |-> TRUE])
                    ELSE manifests
    /\ Advance
    /\ UNCHANGED <<vars, made, agents>>

\* A key that is found or that setTEEPAgentKey finds revoked is left as it is.
EnsureTrustedDemoAgentKey ==
    /\ IsStep("trustedKey")
    /\ IF ~Valid(TrustedKey) /\ LookupFails(TrustedKey) THEN Refuse
       ELSE /\ agents' = agents \cup {TrustedKey}
            /\ Advance
            /\ UNCHANGED <<vars, made, manifests>>

\* SeedAgentScenario: only an agent that is not there is created.
SeedAgent ==
    /\ IsStep("agent")
    /\ IF DemoAgent \in agents /\ ~Valid(DemoAgent) THEN Refuse
       ELSE /\ agents' = agents \cup {DemoAgent}
            /\ Advance
            /\ UNCHANGED <<vars, made, manifests>>

\* GetAgentStatus shows a manifest of the demo agent, whichever row it ranks
\* first.
StatusFound ==
    /\ IsStep("status")
    /\ MayShow(DemoAgent, HelloText) # {}
    /\ Advance
    /\ UNCHANGED <<vars, made, manifests, agents>>

\* It shows none: the manifest of the demo, found by its digest, becomes the
\* agent's holding.
SeedStatus ==
    /\ IsStep("status")
    /\ MayMiss(DemoAgent, HelloText)
    /\ IF \E i \in DOMAIN manifests : manifests[i].demo
       THEN /\ ReflectManifestSuccess(DemoAgent, [component |-> HelloText, seq |-> 0])
            /\ Advance
            /\ UNCHANGED <<made, manifests, agents>>
       ELSE Refuse

\* A statement fails.
StatementFails ==
    /\ at \in DOMAIN Steps
    /\ at' = Down
    /\ outcome' = "failed"
    /\ UNCHANGED <<vars, made, manifests, agents, revoked, expired, checked, demo>>

\* The process dies or is stopped, and the uploads with it.
Crash ==
    /\ at # Down
    /\ at' = Down
    /\ checked' = {}
    /\ UNCHANGED <<vars, made, manifests, agents, revoked, expired, demo, outcome>>

-----------------------------------------------------------------------------
(***************************************************************************)
(* The running server, and time.                                           *)
(***************************************************************************)

\* SetEnvelope: an upload of the developer, of a manifest that is not the demo's
\* and with the key of the demo, is found newer than the latest manifest of
\* hello.txt.  Any number of uploads with the same number may get here before one
\* of them is inserted.
CheckUpload(n) ==
    /\ at = Running
    /\ "developerKey" \in made
    /\ Latest # None => n > Latest
    /\ checked' = checked \cup {n}
    /\ UNCHANGED <<vars, made, manifests, agents, revoked, expired, at, demo, outcome>>

\* It is inserted, whatever was inserted since; others with its number may follow.
InsertUpload(n) ==
    /\ n \in checked
    /\ Len(manifests) < MaxManifests
    /\ manifests' = Append(manifests, [seq |-> n, demo |-> FALSE])
    /\ checked' \in {checked, checked \ {n}}
    /\ UNCHANGED <<vars, made, agents, revoked, expired, at, demo, outcome>>

\* The INSERT fails.
UploadFails(n) ==
    /\ n \in checked
    /\ checked' = checked \ {n}
    /\ UNCHANGED <<vars, made, manifests, agents, revoked, expired, at, demo, outcome>>

\* The agent with the trusted key reports a manifest.
Report(n) ==
    /\ at = Running
    /\ Valid(TrustedKey)
    /\ \E i \in DOMAIN manifests : manifests[i].seq = n
    /\ ReflectManifestSuccess(TrustedKey, [component |-> HelloText, seq |-> n])
    /\ UNCHANGED seedVars

Revoke(a) ==
    /\ at = Running
    /\ a \in agents \ revoked
    /\ revoked' = revoked \cup {a}
    /\ UNCHANGED <<vars, made, manifests, agents, expired, checked, at, demo, outcome>>

Expire(a) ==
    /\ a \in agents \ expired
    /\ expired' = expired \cup {a}
    /\ UNCHANGED <<vars, made, manifests, agents, revoked, checked, at, demo, outcome>>

Second == Tick /\ UNCHANGED seedVars

DemoNext ==
    \/ \E inDemoMode \in BOOLEAN : StartUp(inDemoMode)
    \/ \E item \in Items : Ensure(item)
    \/ SeedHelloTextManifest
    \/ EnsureTrustedDemoAgentKey
    \/ SeedAgent
    \/ StatusFound
    \/ SeedStatus
    \/ StatementFails
    \/ Crash
    \/ \E n \in Seqs : CheckUpload(n) \/ InsertUpload(n) \/ UploadFails(n) \/ Report(n)
    \/ \E a \in Agents : Revoke(a) \/ Expire(a)
    \/ Second

DemoSpec == DemoInit /\ [][DemoNext]_demoVars

-----------------------------------------------------------------------------
(***************************************************************************)
(* Properties.                                                             *)
(***************************************************************************)

\* A server in demo mode has everything the demo needs, however many start-ups
\* died half way before: all items, both agents, the manifest of the demo and a
\* holding of the demo agent (SeedDemoData).
RunningHasDemoData ==
    at = Running /\ demo =>
        /\ made = Items
        /\ agents = Agents
        /\ \E i \in DOMAIN manifests : manifests[i].demo
        /\ \E i \in Active(HelloText) : rows[i].agent = DemoAgent

\* Seeding a database again, after any crash and whatever was registered or
\* revoked since, is refused for three reasons only: the trusted key has expired,
\* the demo agent is revoked or has expired, or hello.txt has got a manifest with
\* number 0 that is not the one of the demo.
RefusedForAReason ==
    outcome = "refused" =>
        \/ TrustedKey \in expired
        \/ DemoAgent \in revoked \cup expired
        \/ Latest = 0 /\ \A i \in DOMAIN manifests : ~manifests[i].demo

\* The manifest of the demo is the latest one of hello.txt only as long as it is
\* the only one: neither a seeding that repeats it nor an upload that was checked
\* before makes agents be sent it in place of, or next to, another
\* (SeedHelloTextManifest, SetEnvelope).
DemoManifestYields ==
    \A i \in DOMAIN manifests :
        manifests[i].demo /\ IsLatest(i) => Len(manifests) = 1

\* The manifest with number 0, which a restart inserts after newer ones, never
\* takes their place (FindLatestByTrustedComponentID).
LatestNeverGoesBack ==
    [][manifests # <<>> => Latest' >= Latest]_demoVars

-----------------------------------------------------------------------------
(***************************************************************************)
(* What makes the properties inductive: what each step of the seeding      *)
(* leaves behind, for as long as the server it seeded runs.                *)
(***************************************************************************)
HasDemoManifest == \E i \in DOMAIN manifests : manifests[i].demo

DemoAgentHolds == \E i \in Active(HelloText) : rows[i].agent = DemoAgent

Done(s) ==
    CASE s = "manifest"   -> HasDemoManifest \/ Latest = 0
      [] s = "trustedKey" -> TrustedKey \in agents
      [] s = "agent"      -> DemoAgent \in agents
      [] s = "status"     -> DemoAgentHolds
      [] OTHER            -> s \in made

\* Some manifest is the latest.
LatestInv == manifests # <<>> => \E i \in DOMAIN manifests : IsLatest(i)

\* The manifest of the demo has number 0, and no upload that was found newer than
\* it has; no upload lives on while the server starts.
UploadInv ==
    /\ \A i \in DOMAIN manifests : manifests[i].demo => manifests[i].seq = 0
    /\ HasDemoManifest => 0 \notin checked
    /\ at # Running => checked = {}

SeedInv ==
    /\ demo => \A i \in DOMAIN Steps : i < at => Done(Steps[i])
    /\ at \in DOMAIN Steps => demo
    /\ outcome = "refused" => at = Down
    /\ (\E i \in DOMAIN rows : rows[i].agent = DemoAgent) => HasDemoManifest
=============================================================================
