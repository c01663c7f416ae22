------------------------- MODULE AgentStatusProofs -------------------------
(***************************************************************************)
(* Proofs about AgentStatus: the status of an agent shows its own last     *)
(* reports, for any number of agents, components, manifests and rows.      *)
(***************************************************************************)
EXTENDS AgentStatus, TLAPS

\* ReflectManifestSuccess, row by row: the rows it supersedes are marked
\* deleted, the others stay, and one row is added.
LEMMA ReflectRows ==
  ASSUME TypeOK, NEW a \in Agents, NEW m \in Manifests, ReflectManifestSuccess(a, m)
  PROVE  /\ rows' \in Seq(Holding) /\ Len(rows') = Len(rows) + 1
         /\ rows'[Len(rows')] = [agent |-> a, manifest |-> m, created_at |-> clock,
                                 deleted |-> FALSE]
         /\ \A i \in DOMAIN rows :
              /\ i \in DOMAIN rows'
              /\ rows'[i] = IF Superseded(rows[i], a, m)
                            THEN [rows[i] EXCEPT !.deleted = TRUE] ELSE rows[i]
         /\ DOMAIN rows' = DOMAIN rows \cup {Len(rows')}
<1> DEFINE kept == [i \in DOMAIN rows |->
                      IF Superseded(rows[i], a, m) THEN [rows[i] EXCEPT !.deleted = TRUE]
                      ELSE rows[i]]
           new  == [agent |-> a, manifest |-> m, created_at |-> clock, deleted |-> FALSE]
<1>1. rows \in Seq(Holding) /\ DOMAIN rows = 1 .. Len(rows) /\ Len(rows) \in Nat
  BY DEF TypeOK
<1>2. \A i \in DOMAIN rows : kept[i] \in Holding
  <2> SUFFICES ASSUME NEW i \in DOMAIN rows PROVE kept[i] \in Holding
    OBVIOUS
  <2>1. rows[i] \in Holding
    BY <1>1
  <2>2. [rows[i] EXCEPT !.deleted = TRUE] \in Holding
    BY <2>1 DEF Holding
  <2> QED
    BY <2>1, <2>2
<1>3. kept \in Seq(Holding) /\ Len(kept) = Len(rows)
  BY <1>1, <1>2
<1>4. new \in Holding
  BY DEF TypeOK, Holding
<1>5. rows' = Append(kept, new)
  BY DEF ReflectManifestSuccess
<1>6. \A i \in DOMAIN rows : kept[i] = IF Superseded(rows[i], a, m)
                            THEN [rows[i] EXCEPT !.deleted = TRUE] ELSE rows[i]
  OBVIOUS
<1> HIDE DEF kept, new
<1>7. /\ rows' \in Seq(Holding) /\ Len(rows') = Len(rows) + 1
      /\ rows'[Len(rows')] = new
      /\ \A i \in DOMAIN rows : i \in DOMAIN rows' /\ rows'[i] = kept[i]
      /\ DOMAIN rows' = DOMAIN rows \cup {Len(rows')}
  BY <1>1, <1>3, <1>4, <1>5
<1> QED
  BY <1>6, <1>7 DEF new

\* The tables keep their types.
LEMMA TypeStep ==
  ASSUME TypeOK, [Next]_vars
  PROVE  TypeOK'
<1>1. ASSUME NEW a \in Agents, NEW m \in Manifests, ReflectManifestSuccess(a, m)
      PROVE  TypeOK'
  <2>1. rows' \in Seq(Holding)
    BY <1>1, ReflectRows
  <2>2. m.component \in Components
    BY DEF Manifests
  <2>3. installed' \in [Agents -> [Components -> Manifests \cup {None}]]
    BY <1>1, <2>2 DEF ReflectManifestSuccess, TypeOK
  <2> QED
    BY <1>1, <2>1, <2>3 DEF ReflectManifestSuccess, TypeOK
<1>2. ASSUME NEW a \in Agents, NEW m \in Manifests, NEW ok \in BOOLEAN, HandleErrorReport(a, m, ok)
      PROVE  TypeOK'
  BY <1>2 DEF HandleErrorReport, TypeOK
<1>3. CASE Tick
  BY <1>3, BoundAssumption DEF Tick, TypeOK
<1>4. CASE UNCHANGED vars
  BY <1>4 DEF vars, TypeOK
<1> QED
  BY <1>1, <1>2, <1>3, <1>4 DEF Next

\* StatusInv is inductive.
LEMMA StatusStep ==
  ASSUME TypeOK, StatusInv, [Next]_vars
  PROVE  StatusInv'
<1>1. ASSUME NEW a \in Agents, NEW m \in Manifests, ReflectManifestSuccess(a, m)
      PROVE  StatusInv'
  <2> DEFINE Reported(h) == ~h.deleted => installed'[h.agent][h.manifest.component] = h.manifest
  <2>1. m.component \in Components
    BY DEF Manifests
  <2>2. /\ installed'[a][m.component] = m
        /\ \A b \in Agents, c \in Components :
              b # a \/ c # m.component => installed'[b][c] = installed[b][c]
    BY <1>1, <2>1 DEF ReflectManifestSuccess, TypeOK
  <2>3. Reported(rows'[Len(rows')])
    <3>1. rows'[Len(rows')] = [agent |-> a, manifest |-> m, created_at |-> clock,
                               deleted |-> FALSE]
      BY <1>1, ReflectRows
    <3> QED
      BY <2>2, <3>1
  <2>4. ASSUME NEW i \in DOMAIN rows PROVE Reported(rows'[i])
    <3>1. rows[i] \in Holding
      BY DEF TypeOK
    <3>2. rows[i].agent \in Agents /\ rows[i].manifest.component \in Components
      BY <3>1 DEF Holding, Manifests
    <3>3. CASE Superseded(rows[i], a, m)
      <4>1. rows'[i] = [rows[i] EXCEPT !.deleted = TRUE]
        BY <1>1, <3>3, ReflectRows
      <4> QED
        BY <3>1, <4>1 DEF Holding
    <3>4. CASE ~Superseded(rows[i], a, m)
      <4>1. rows'[i] = rows[i]
        BY <1>1, <3>4, ReflectRows
      <4> QED
        BY <2>2, <3>2, <3>4, <4>1 DEF Superseded, StatusInv
    <3> QED
      BY <3>3, <3>4
  <2> HIDE DEF Reported
  <2>5. \A i \in DOMAIN rows' : Reported(rows'[i])
    BY <1>1, <2>3, <2>4, ReflectRows
  <2> QED
    BY <2>5 DEF Reported, StatusInv
<1>2. CASE UNCHANGED <<rows, installed>>
  BY <1>2 DEF StatusInv
<1> QED
  BY <1>1, <1>2 DEF Next, HandleErrorReport, Tick, vars

\* TypeOK and StatusInv are invariants.
LEMMA StatusInvariant == Spec => [](TypeOK /\ StatusInv)
<1>1. Init => TypeOK /\ StatusInv
  BY BoundAssumption DEF Init, TypeOK, StatusInv
<1>2. TypeOK /\ StatusInv /\ [Next]_vars => TypeOK' /\ StatusInv'
  BY TypeStep, StatusStep
<1> QED
  BY <1>1, <1>2, PTL DEF Spec

\* What GetAgentStatus shows is a row that is not deleted.
LEMMA ShownIsReported ==
  ASSUME StatusInv
  PROVE  StatusShowsLastReport
<1> SUFFICES ASSUME NEW a \in Agents, NEW c \in Components, NEW s \in MayShow(a, c)
             PROVE  s = installed[a][c]
  BY DEF StatusShowsLastReport
<1> QED
  BY DEF MayShow, Active, StatusInv

\* A row newer than every other one of its component ranks first alone.
LEMMA NewestIsShown ==
  ASSUME TypeOK, StatusInv
  PROVE  NewestReporterIsShown
<1> SUFFICES ASSUME NEW a \in Agents, NEW c \in Components, NEW i \in Active(c),
                    rows[i].agent = a,
                    \A j \in Active(c) \ {i} : rows[j].created_at < rows[i].created_at
             PROVE  MayShow(a, c) = {installed[a][c]}
  BY DEF NewestReporterIsShown
<1>1. \A j \in Active(c) : rows[j].created_at \in Nat
  <2>1. \A j \in Active(c) : rows[j] \in Holding
    BY DEF TypeOK, Active
  <2> QED
    BY <2>1, BoundAssumption DEF Holding
<1>2. RanksFirst(c, i)
  BY <1>1 DEF RanksFirst
<1>3. rows[i].manifest \in MayShow(a, c)
  BY <1>2 DEF MayShow
<1>4. MayShow(a, c) \subseteq {installed[a][c]}
  BY ShownIsReported DEF StatusShowsLastReport
<1> QED
  BY <1>3, <1>4

\* However many reports arrive, and in whichever second, GetAgentStatus shows
\* nothing but what the agent itself reported last.
THEOREM StatusIsLastReport == Spec => []StatusShowsLastReport
<1>1. StatusInv => StatusShowsLastReport
  BY ShownIsReported
<1> QED
  BY <1>1, StatusInvariant, PTL

\* The agent whose report of a component is the newest has the component in its
\* status, whichever other agents hold it too.
THEOREM NewestReporterShown == Spec => []NewestReporterIsShown
<1>1. TypeOK /\ StatusInv => NewestReporterIsShown
  BY NewestIsShown
<1> QED
  BY <1>1, StatusInvariant, PTL
=============================================================================
