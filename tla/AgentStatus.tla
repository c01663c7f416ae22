---------------------------- MODULE AgentStatus ----------------------------
(***************************************************************************)
(* What the TAM knows of the components an agent has installed: the rows   *)
(* of agent_holding_suit_manifests and suit_reports, written for each      *)
(* SUIT_Report of a Success or Error message, and the query behind         *)
(* GetAgentStatus and ListAgents.                                          *)
(*                                                                         *)
(* TEEPSession models when reports are handled; here every report reaches  *)
(* a database that works, one SQL transaction after the other, so that     *)
(* whatever is missing from the tables was left out by the code.           *)
(***************************************************************************)
EXTENDS Naturals, Sequences

CONSTANTS
    Agents,       \* agents in the table, any of which may report at any time
    Components,   \* trusted component identifiers
    Seqs,         \* sequence numbers of the manifests of each component
    None,         \* no manifest
    MaxTime,      \* bound on the clock, in seconds
    MaxRows       \* bound on the rows written

ASSUME NoneAssumption == None \notin [component : Components, seq : Seqs]
ASSUME BoundAssumption == MaxTime \in Nat /\ MaxRows \in Nat /\ Seqs \subseteq Nat

Manifests == [component : Components, seq : Seqs]

VARIABLES
    rows,         \* agent_holding_suit_manifests, in the order of their id
    unresolved,   \* suit_reports with resolved = 0
    clock,        \* CURRENT_TIMESTAMP, which counts seconds
    installed,    \* history: what each agent reported last, per component
    failed        \* history: the failures that agents have reported

vars == <<rows, unresolved, clock, installed, failed>>

Holding == [agent : Agents, manifest : Manifests, created_at : 0 .. MaxTime, deleted : BOOLEAN]

TypeOK ==
    /\ rows \in Seq(Holding)
    /\ unresolved \subseteq Agents \X Manifests
    /\ clock \in 0 .. MaxTime
    /\ installed \in [Agents -> [Components -> Manifests \cup {None}]]
    /\ failed \subseteq Agents \X Manifests

Init ==
    /\ rows = <<>>
    /\ unresolved = {}
    /\ clock = 0
    /\ installed = [a \in Agents |-> [c \in Components |-> None]]
    /\ failed = {}

-----------------------------------------------------------------------------
(***************************************************************************)
(* Writing.                                                                *)
(***************************************************************************)

\* Fault: the UPDATE looks for the manifest instead of its component and misses
\* the row of an older manifest.
SupersededSameManifest(h, a, m) == h.agent = a /\ h.manifest = m

\* The rows the UPDATE of ReflectManifestSuccess marks deleted.
Superseded(h, a, m) == h.agent = a /\ h.manifest.component = m.component

\* ReflectManifestSuccess, for a report whose result is ok in a Success.
ReflectManifestSuccess(a, m) ==
    /\ Len(rows) < MaxRows
    /\ LET kept == [i \in DOMAIN rows |->
                      IF Superseded(rows[i], a, m) THEN [rows[i] EXCEPT !.deleted = TRUE]
                      ELSE rows[i]]
       IN  rows' = Append(kept, [agent |-> a, manifest |-> m, created_at |-> clock,
                                 deleted |-> FALSE])
    /\ installed' = [installed EXCEPT ![a][m.component] = m]
    /\ UNCHANGED <<unresolved, clock, failed>>

\* Which reports of an Error message are recorded: the same test as in the
\* Success case, result true or reason ok.
RecordsInError(ok) == ok

\* RecordManifestProcessingFailure, for one report of an Error message.
HandleErrorReport(a, m, ok) ==
    /\ unresolved' = IF RecordsInError(ok) THEN unresolved \cup {<<a, m>>} ELSE unresolved
    /\ failed' = IF ok THEN failed ELSE failed \cup {<<a, m>>}
    /\ UNCHANGED <<rows, clock, installed>>

Tick ==
    /\ clock < MaxTime
    /\ clock' = clock + 1
    /\ UNCHANGED <<rows, unresolved, installed, failed>>

Next ==
    \/ \E a \in Agents, m \in Manifests : ReflectManifestSuccess(a, m)
    \/ \E a \in Agents, m \in Manifests, ok \in BOOLEAN : HandleErrorReport(a, m, ok)
    \/ Tick

Spec == Init /\ [][Next]_vars

-----------------------------------------------------------------------------
(***************************************************************************)
(* Reading: GetAgentStatus.                                                *)
(***************************************************************************)

\* Rows that take part in the query: those not deleted.
Active(c) == {i \in DOMAIN rows : ~rows[i].deleted /\ rows[i].manifest.component = c}

\* Fault: ORDER BY created_at without DESC.
RanksFirstOldest(c, i) == \A j \in Active(c) : rows[i].created_at <= rows[j].created_at

\* ROW_NUMBER() OVER (PARTITION BY trusted_component_id ORDER BY created_at
\* DESC) = 1.  Rows of the same second compare equal: any of them may be first.
RanksFirst(c, i) == \A j \in Active(c) : rows[i].created_at >= rows[j].created_at

\* The manifests that GetAgentStatus(a) may show for component c.
MayShow(a, c) ==
    {rows[i].manifest : i \in {j \in Active(c) : RanksFirst(c, j) /\ rows[j].agent = a}}

\* GetAgentStatus(a) may show nothing for c: the row that ranks first is another
\* agent's, or there is none.
MayMiss(a, c) ==
    \/ Active(c) = {}
    \/ \E i \in Active(c) : RanksFirst(c, i) /\ rows[i].agent # a

-----------------------------------------------------------------------------
(***************************************************************************)
(* Properties.                                                             *)
(***************************************************************************)

\* GetAgentStatus shows nothing but what the agent itself reported last for
\* the component, also when several reports arrive within one second, which
\* created_at cannot tell apart.
StatusShowsLastReport ==
    \A a \in Agents, c \in Components : MayShow(a, c) \subseteq {installed[a][c]}

\* The agent that reported a component last of all, in a second of its own, has
\* the component in its status.
NewestReporterIsShown ==
    \A a \in Agents, c \in Components :
        (\E i \in Active(c) : /\ rows[i].agent = a
                              /\ \A j \in Active(c) \ {i} :
                                    rows[j].created_at < rows[i].created_at)
            => MayShow(a, c) = {installed[a][c]}

\* What the comment on GetAgentStatus says: the status of an agent has its
\* active holding for each trusted component.
StatusShowsEveryHolding ==
    \A a \in Agents, c \in Components :
        installed[a][c] # None => installed[a][c] \in MayShow(a, c)

\* What doc/TEEP_MESSAGE_HANDLE.md says of an Error with SUIT reports: the TAM
\* records the error.
FailuresAreRecorded == failed \subseteq unresolved

-----------------------------------------------------------------------------
\* What makes the properties inductive: a row that is not deleted is the last
\* report of its agent for its component.
StatusInv ==
    \A i \in DOMAIN rows : ~rows[i].deleted =>
        installed[rows[i].agent][rows[i].manifest.component] = rows[i].manifest
=============================================================================
