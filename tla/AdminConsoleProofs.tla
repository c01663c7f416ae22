------------------------- MODULE AdminConsoleProofs -------------------------
(***************************************************************************)
(* Proofs about AdminConsole: what a page shows, for any number of         *)
(* overlapping page requests, agents, components and rows.                 *)
(***************************************************************************)
EXTENDS AdminConsole, AgentStatusProofs, FiniteSetTheorems

-----------------------------------------------------------------------------
(***************************************************************************)
(* Least and greatest elements.                                            *)
(***************************************************************************)

\* A set of natural numbers that is not empty has a least element.
LEMMA LeastOfNat ==
  ASSUME NEW S \in SUBSET Nat, S # {}
  PROVE  \E x \in S : \A y \in S : x <= y
<1> DEFINE R == {ss \in Nat \X Nat : ss[1] < ss[2]}
<1>1. OpToRel(<, Nat) = R
  BY DEF OpToRel
<1>2. IsWellFoundedOn(R, Nat)
  BY <1>1, NatLessThanWellFounded, Zenon
<1>3. \A y \in Nat, z \in Nat : y < z => <<y, z>> \in R
  OBVIOUS
<1> HIDE DEF R
<1>4. PICK x \in S : \A y \in S : ~ (<<y, x>> \in R)
  BY <1>2, WFMin
<1>5. ASSUME NEW y \in S PROVE x <= y
  <2>1. ~ (y < x)
    BY <1>3, <1>4
  <2> QED
    BY <2>1
<1> QED
  BY <1>5

\* A set of numbers up to n that is not empty has a greatest element.
LEMMA GreatestUpTo ==
  ASSUME NEW n \in Nat, NEW S \in SUBSET (1 .. n), S # {}
  PROVE  \E x \in S : \A y \in S : y <= x
<1> DEFINE T == {n - y : y \in S}
<1>1. T \in SUBSET Nat /\ T # {}
  <2>1. \A y \in S : n - y \in Nat
    OBVIOUS
  <2> QED
    BY <2>1
<1>2. PICK t \in T : \A u \in T : t <= u
  <2> HIDE DEF T
  <2> QED
    BY <1>1, LeastOfNat
<1>3. PICK x \in S : t = n - x
  OBVIOUS
<1>4. ASSUME NEW y \in S PROVE y <= x
  <2>1. n - x <= n - y
    BY <1>2, <1>3
  <2> QED
    BY <2>1
<1> QED
  BY <1>4

\* Moments that are ordered pairwise have an earliest one.
LEMMA EarliestMoment ==
  ASSUME NEW S \in SUBSET Moment, S # {}, \A m, n \in S : Before(m, n) \/ Before(n, m)
  PROVE  \E m \in S : \A n \in S : Before(m, n)
<1> DEFINE size(m) == m.reports + Cardinality(m.enrolled)
           T == {size(m) : m \in S}
<1>1. ASSUME NEW m \in S
      PROVE  m.reports \in Nat /\ IsFiniteSet(m.enrolled) /\ Cardinality(m.enrolled) \in Nat
  <2>1. m.reports \in Nat /\ m.enrolled \in SUBSET Agents
    BY BoundAssumption DEF Moment
  <2>2. IsFiniteSet(m.enrolled)
    BY <2>1, AgentsAssumption, FS_Subset
  <2> QED
    BY <2>1, <2>2, FS_CardinalityType
<1>2. T \in SUBSET Nat /\ T # {}
  <2>1. \A m \in S : size(m) \in Nat
    BY <1>1
  <2> HIDE DEF size
  <2> QED
    BY <2>1
<1>3. PICK t \in T : \A u \in T : t <= u
  <2> HIDE DEF T
  <2> QED
    BY <1>2, LeastOfNat
<1>4. PICK m \in S : t = size(m)
  <2> HIDE DEF size
  <2> QED
    OBVIOUS
<1>5. ASSUME NEW n \in S PROVE Before(m, n)
  <2>1. size(m) <= size(n)
    <3> HIDE DEF size
    <3> QED
      BY <1>3, <1>4
  <2>2. CASE Before(n, m)
    <3>1. n.reports <= m.reports /\ n.enrolled \in SUBSET m.enrolled
      BY <2>2 DEF Before
    <3>2. /\ Cardinality(n.enrolled) <= Cardinality(m.enrolled)
          /\ Cardinality(m.enrolled) = Cardinality(n.enrolled) => m.enrolled = n.enrolled
      BY <1>1, <3>1, FS_Subset
    <3>3. Cardinality(m.enrolled) = Cardinality(n.enrolled) /\ m.reports = n.reports
      <4>1. \A a, b, c, d \in Nat : a <= b /\ c <= d /\ b + d <= a + c => a = b /\ c = d
        OBVIOUS
      <4>2. /\ m.reports \in Nat /\ n.reports \in Nat
            /\ Cardinality(m.enrolled) \in Nat /\ Cardinality(n.enrolled) \in Nat
        BY <1>1
      <4> QED
        BY <2>1, <3>1, <3>2, <4>1, <4>2
    <3> QED
      BY <1>1, <3>2, <3>3 DEF Before
  <2> QED
    BY <2>2
<1> QED
  BY <1>5

-----------------------------------------------------------------------------
(***************************************************************************)
(* Reports, in the order of their rows.                                    *)
(***************************************************************************)

\* ReportedAt, for any sequence of rows.
Mine(s, a, c, n) == {i \in 1 .. n : s[i].agent = a /\ s[i].manifest.component = c}

LastOf(s, M) == IF M = {} THEN None ELSE s[CHOOSE i \in M : \A j \in M : j <= i].manifest

LastBy(s, a, c, n) == LastOf(s, Mine(s, a, c, n))

\* Rows that agree on agent and manifest agree on the last report.
LEMMA LastBySame ==
  ASSUME NEW s, NEW t, NEW a, NEW c, NEW n \in Nat,
         \A i \in 1 .. n : t[i].agent = s[i].agent /\ t[i].manifest = s[i].manifest
  PROVE  LastBy(t, a, c, n) = LastBy(s, a, c, n)
<1> DEFINE M == Mine(s, a, c, n)
<1>1. Mine(t, a, c, n) = M
  BY DEF Mine
<1>2. M \in SUBSET (1 .. n)
  BY DEF Mine
<1> HIDE DEF M
<1>3. CASE M = {}
  BY <1>1, <1>3 DEF LastBy, LastOf, M
<1>4. CASE M # {}
  <2> DEFINE k == CHOOSE i \in M : \A j \in M : j <= i
  <2>1. k \in M
    BY <1>2, <1>4, GreatestUpTo
  <2>2. LastBy(s, a, c, n) = s[k].manifest /\ LastBy(t, a, c, n) = t[k].manifest
    BY <1>1, <1>4 DEF LastBy, LastOf, M
  <2> HIDE DEF k
  <2> QED
    BY <1>2, <2>1, <2>2
<1> QED
  BY <1>3, <1>4

\* A row is the last report if it is the last of its agent and component.
LEMMA LastByTop ==
  ASSUME NEW s, NEW a, NEW c, NEW n \in Nat \ {0},
         s[n].agent = a, s[n].manifest.component = c
  PROVE  LastBy(s, a, c, n) = s[n].manifest
<1> DEFINE M == Mine(s, a, c, n)
<1>1. n \in M /\ M \in SUBSET (1 .. n)
  BY DEF Mine
<1> HIDE DEF M
<1> DEFINE k == CHOOSE i \in M : \A j \in M : j <= i
<1>2. k \in M /\ \A j \in M : j <= k
  BY <1>1, GreatestUpTo
<1>3. LastBy(s, a, c, n) = s[k].manifest
  BY <1>1 DEF LastBy, LastOf, M
<1> HIDE DEF k
<1>4. k = n
  BY <1>1, <1>2
<1> QED
  BY <1>3, <1>4

\* A row of another agent or component changes nothing.
LEMMA LastByOther ==
  ASSUME NEW s, NEW a, NEW c, NEW n \in Nat,
         s[n + 1].agent # a \/ s[n + 1].manifest.component # c
  PROVE  LastBy(s, a, c, n + 1) = LastBy(s, a, c, n)
<1>1. Mine(s, a, c, n + 1) = Mine(s, a, c, n)
  BY DEF Mine
<1> QED
  BY <1>1 DEF LastBy

\* Rows are added, and never change agent or manifest.
LEMMA RowsStep ==
  ASSUME TypeOK, [Next]_vars
  PROVE  /\ Len(rows) \in Nat /\ Len(rows') \in Nat /\ Len(rows) <= Len(rows')
         /\ \A i \in 1 .. Len(rows) :
              rows'[i].agent = rows[i].agent /\ rows'[i].manifest = rows[i].manifest
<1>0. rows \in Seq(Holding) /\ Len(rows) \in Nat /\ DOMAIN rows = 1 .. Len(rows)
  BY DEF TypeOK
<1>1. CASE UNCHANGED rows
  BY <1>0, <1>1
<1>2. ASSUME NEW a \in Agents, NEW m \in Manifests, ReflectManifestSuccess(a, m)
      PROVE  /\ Len(rows') = Len(rows) + 1
             /\ \A i \in 1 .. Len(rows) :
                  rows'[i].agent = rows[i].agent /\ rows'[i].manifest = rows[i].manifest
  <2>1. ASSUME NEW i \in 1 .. Len(rows)
        PROVE  rows'[i].agent = rows[i].agent /\ rows'[i].manifest = rows[i].manifest
    <3>1. rows[i] \in Holding
      BY <1>0
    <3>2. LET h == [rows[i] EXCEPT !.deleted = TRUE]
          IN  h.agent = rows[i].agent /\ h.manifest = rows[i].manifest
      BY <3>1 DEF Holding
    <3>3. rows'[i] = [rows[i] EXCEPT !.deleted = TRUE] \/ rows'[i] = rows[i]
      BY <1>0, <1>2, ReflectRows
    <3> QED
      BY <3>2, <3>3
  <2> QED
    BY <1>2, <2>1, ReflectRows
<1> QED
  BY <1>0, <1>1, <1>2 DEF Next, HandleErrorReport, Tick, vars

\* What was reported up to some row stays so.
LEMMA ReportedStays ==
  ASSUME TypeOK, [Next]_vars, NEW a, NEW c, NEW n \in 0 .. Len(rows)
  PROVE  LastBy(rows', a, c, n) = LastBy(rows, a, c, n)
<1>1. n \in Nat /\ \A i \in 1 .. n :
        rows'[i].agent = rows[i].agent /\ rows'[i].manifest = rows[i].manifest
  BY RowsStep
<1> QED
  BY <1>1, LastBySame

\* ReportedSince, for any sequence of rows.
SinceIn(s, a, t, n) ==
  t # None => \A c \in Components : t[c] # None =>
    \E k \in n .. Len(s) : t[c] = LastBy(s, a, c, k)

LEMMA SinceStays ==
  ASSUME TypeOK, [Next]_vars, NEW a, NEW t, NEW n \in Nat, SinceIn(rows, a, t, n)
  PROVE  SinceIn(rows', a, t, n)
<1> SUFFICES ASSUME t # None, NEW c \in Components, t[c] # None
             PROVE  \E k \in n .. Len(rows') : t[c] = LastBy(rows', a, c, k)
  BY DEF SinceIn
<1>1. PICK k \in n .. Len(rows) : t[c] = LastBy(rows, a, c, k)
  BY DEF SinceIn
<1>2. k \in 0 .. Len(rows) /\ k \in n .. Len(rows')
  BY <1>1, RowsStep
<1>3. LastBy(rows', a, c, k) = LastBy(rows, a, c, k)
  BY <1>2, ReportedStays
<1> QED
  BY <1>1, <1>2, <1>3

\* installed is what the rows say.
LEMMA InstalledStep ==
  ASSUME TypeOK, InstalledInv, [Next]_vars
  PROVE  InstalledInv'
<1>0. Len(rows) \in Nat /\ Len(rows) \in 0 .. Len(rows)
  BY RowsStep
<1>i. /\ \A a \in Agents, c \in Components : installed[a][c] = LastBy(rows, a, c, Len(rows))
      /\ (\A a \in Agents, c \in Components : installed'[a][c] = LastBy(rows', a, c, Len(rows')))
            => InstalledInv'
  BY DEF InstalledInv, ReportedAt, LastBy, LastOf, Mine
<1>1. CASE UNCHANGED <<rows, installed>>
  BY <1>i, <1>1
<1>2. ASSUME NEW b \in Agents, NEW m \in Manifests, ReflectManifestSuccess(b, m),
             NEW a \in Agents, NEW c \in Components
      PROVE  installed'[a][c] = LastBy(rows', a, c, Len(rows'))
  <2> DEFINE new == rows'[Len(rows) + 1]
  <2>1. Len(rows') = Len(rows) + 1 /\ new.agent = b /\ new.manifest = m
    <3>1. /\ Len(rows') = Len(rows) + 1
          /\ rows'[Len(rows')] = [agent |-> b, manifest |-> m, created_at |-> clock,
                                  deleted |-> FALSE]
      BY <1>2, ReflectRows
    <3> QED
      BY <3>1
  <2>2. m.component \in Components
    BY DEF Manifests
  <2>3. /\ installed'[b][m.component] = m
        /\ b # a \/ m.component # c => installed'[a][c] = installed[a][c]
    BY <1>2, <2>2 DEF ReflectManifestSuccess, TypeOK
  <2>4. CASE b = a /\ m.component = c
    <3>1. LastBy(rows', a, c, Len(rows) + 1) = new.manifest
      BY <1>0, <2>1, <2>4, LastByTop
    <3> QED
      BY <2>1, <2>3, <2>4, <3>1
  <2>5. CASE b # a \/ m.component # c
    <3>1. LastBy(rows', a, c, Len(rows) + 1) = LastBy(rows', a, c, Len(rows))
      BY <1>0, <2>1, <2>5, LastByOther
    <3>2. LastBy(rows', a, c, Len(rows)) = LastBy(rows, a, c, Len(rows))
      BY <1>0, RowsStep, LastBySame
    <3> QED
      BY <1>i, <2>1, <2>3, <2>5, <3>1, <3>2
  <2> QED
    BY <2>4, <2>5
<1>3. ASSUME NEW b \in Agents, NEW m \in Manifests, ReflectManifestSuccess(b, m)
      PROVE  InstalledInv'
  BY <1>i, <1>2, <1>3
<1> QED
  BY <1>1, <1>3 DEF Next, HandleErrorReport, Tick, vars
-----------------------------------------------------------------------------
(***************************************************************************)
(* The invariant, request by request.                                      *)
(***************************************************************************)
FetchedIn(s, q) ==
  /\ q.pc \in {"status", "store", "render"} /\ q.whole => q.arrived.enrolled \subseteq q.kids
  /\ q.pc = "list" => q.got = Nothing
  /\ q.pc = "status" => \A a \in q.kids \ q.todo : q.got[a] # None
  /\ q.pc = "store" => \A a \in q.kids : q.got[a] # None
  /\ q.pc \in {"status", "store"} => \A a \in Agents : SinceIn(s, a, q.got[a], q.arrived.reports)

CachedIn(s, k, i, q) ==
  q.pc = "render" =>
    /\ q.whole /\ i => q.oldest.enrolled \subseteq {a \in q.kids : k[a] # None}
    /\ \A a \in Agents : SinceIn(s, a, k[a], q.oldest.reports)

Ordered(now, x, y) ==
  x.pc # "idle" /\ y.pc # "idle" =>
    /\ Before(x.arrived, now)
    /\ Before(x.oldest, y.arrived)
    /\ Before(x.arrived, y.arrived) \/ Before(y.arrived, x.arrived)

LEMMA InvParts ==
  /\ FetchInv <=> \A p \in Pages : FetchedIn(rows, page[p])
  /\ CacheInv <=> \A p \in Pages : CachedIn(rows, cache, intact, page[p])
  /\ MomentInv <=> \A p, q \in Pages : Ordered(Now, page[p], page[q])
<1>1. FetchInv <=> \A p \in Pages : FetchedIn(rows, page[p])
  BY DEF FetchInv, FetchedIn, ReportedSince, SinceIn, ReportedAt, LastBy, LastOf, Mine, At
<1>2. CacheInv <=> \A p \in Pages : CachedIn(rows, cache, intact, page[p])
  BY DEF CacheInv, CachedIn, OnPage, ReportedSince, SinceIn, ReportedAt, LastBy, LastOf, Mine, At
<1>3. MomentInv <=> \A p, q \in Pages : Ordered(Now, page[p], page[q])
  BY DEF MomentInv, Ordered, At
<1> QED
  BY <1>1, <1>2, <1>3

LEMMA InvPartsPrime ==
  /\ FetchInv' <=> \A p \in Pages : FetchedIn(rows', page'[p])
  /\ CacheInv' <=> \A p \in Pages : CachedIn(rows', cache', intact', page'[p])
  /\ MomentInv' <=> \A p, q \in Pages : Ordered(Now', page'[p], page'[q])
<1>1. FetchInv' <=> \A p \in Pages : FetchedIn(rows', page'[p])
  BY DEF FetchInv, FetchedIn, ReportedSince, SinceIn, ReportedAt, LastBy, LastOf, Mine, At
<1>2. CacheInv' <=> \A p \in Pages : CachedIn(rows', cache', intact', page'[p])
  BY DEF CacheInv, CachedIn, OnPage, ReportedSince, SinceIn, ReportedAt, LastBy, LastOf, Mine, At
<1>3. MomentInv' <=> \A p, q \in Pages : Ordered(Now', page'[p], page'[q])
  BY DEF MomentInv, Ordered, At
<1> QED
  BY <1>1, <1>2, <1>3

\* The types, and the bound on the rows.
Typed == ConsoleTypeOK /\ Len(rows) <= MaxRows

\* All that is said of the requests and the cache.
PagesInv == MomentInv /\ FetchInv /\ CacheInv

LEMMA NowIs ==
  ASSUME Typed
  PROVE  Now \in Moment /\ Len(rows) \in Nat
  BY BoundAssumption DEF Typed, ConsoleTypeOK, TypeOK, Now, Moment

LEMMA BeforeTrans ==
  ASSUME NEW x \in Moment, NEW y \in Moment, NEW z \in Moment, Before(x, y), Before(y, z)
  PROVE  Before(x, z)
<1>1. x.reports \in Nat /\ y.reports \in Nat /\ z.reports \in Nat
  BY BoundAssumption DEF Moment
<1> QED
  BY <1>1 DEF Before

LEMMA BeforeSelf ==
  ASSUME NEW x \in Moment
  PROVE  Before(x, x)
<1>1. x.reports \in Nat
  BY BoundAssumption DEF Moment
<1> QED
  BY <1>1 DEF Before

\* What holds of a request still holds when reports are added.
LEMMA FetchedStays ==
  ASSUME Typed, [Next]_vars, NEW q \in PageState, FetchedIn(rows, q)
  PROVE  FetchedIn(rows', q)
<1>1. q.arrived.reports \in Nat
  BY BoundAssumption DEF PageState, Moment
<1>2. \A a, t : SinceIn(rows, a, t, q.arrived.reports) => SinceIn(rows', a, t, q.arrived.reports)
  BY <1>1, SinceStays DEF Typed, ConsoleTypeOK
<1> QED
  BY <1>2 DEF FetchedIn

LEMMA CachedStays ==
  ASSUME Typed, [Next]_vars, NEW k, NEW i, NEW q \in PageState,
         CachedIn(rows, k, i, q)
  PROVE  CachedIn(rows', k, i, q)
<1>1. q.oldest.reports \in Nat
  BY BoundAssumption DEF PageState, Moment
<1>2. \A a, t : SinceIn(rows, a, t, q.oldest.reports) => SinceIn(rows', a, t, q.oldest.reports)
  BY <1>1, SinceStays DEF Typed, ConsoleTypeOK
<1> QED
  BY <1>2 DEF CachedIn

\* The TAM goes on, and the console does nothing.
LEMMA TAMStep ==
  ASSUME Typed, Typed', PagesInv, [Next]_vars, enrolled \subseteq enrolled',
         UNCHANGED <<cache, page, intact>>
  PROVE  PagesInv'
<1>0. page \in [Pages -> PageState]
  BY DEF Typed, ConsoleTypeOK
<1>1. FetchInv'
  BY <1>0, FetchedStays, InvParts, InvPartsPrime DEF PagesInv
<1>2. CacheInv'
  BY <1>0, CachedStays, InvParts, InvPartsPrime DEF PagesInv
<1>3. MomentInv'
  <2>1. Now \in Moment /\ Now' \in Moment
    BY NowIs, BoundAssumption DEF Typed, ConsoleTypeOK, TypeOK, Now, Moment
  <2>2. Before(Now, Now')
    BY RowsStep DEF Typed, ConsoleTypeOK, Now, Before
  <2>3. \A p \in Pages : page[p].arrived \in Moment
    BY <1>0 DEF PageState
  <2>4. \A p, q \in Pages : Ordered(Now, page[p], page[q])
    BY InvParts DEF PagesInv
  <2>5. \A p, q \in Pages : Ordered(Now', page[p], page[q])
    BY <2>1, <2>2, <2>3, <2>4, BeforeTrans DEF Ordered
  <2> QED
    BY <2>5, InvPartsPrime
<1> QED
  BY <1>1, <1>2, <1>3 DEF PagesInv

\* A request takes a step and the TAM does nothing.
LEMMA PageStep ==
  ASSUME Typed, PagesInv, UNCHANGED <<vars, enrolled>>, NEW p \in Pages, NEW q,
         page' = [page EXCEPT ![p] = q],
         FetchedIn(rows, q),
         q.pc = "idle" \/ /\ page[p].pc # "idle"
                          /\ q.arrived = page[p].arrived /\ q.oldest = page[p].oldest,
         \A x \in Pages \ {p} : CachedIn(rows, cache', intact', page[x]),
         CachedIn(rows, cache', intact', q)
  PROVE  PagesInv'
<1>0. /\ rows' = rows /\ Now' = Now
      /\ \A x \in Pages : page'[x] = IF x = p THEN q ELSE page[x]
  BY DEF vars, Now, Typed, ConsoleTypeOK
<1>1. FetchInv'
  BY <1>0, InvParts, InvPartsPrime DEF PagesInv
<1>2. CacheInv'
  BY <1>0, InvPartsPrime
<1>3. \A x, y \in Pages : Ordered(Now, page'[x], page'[y])
  <2>1. \A x, y \in Pages : Ordered(Now, page[x], page[y])
    BY InvParts DEF PagesInv
  <2> QED
    BY <1>0, <2>1 DEF Ordered
<1>4. MomentInv'
  BY <1>0, <1>3, InvPartsPrime
<1> QED
  BY <1>1, <1>2, <1>4 DEF PagesInv

-----------------------------------------------------------------------------
(***************************************************************************)
(* The types.                                                              *)
(***************************************************************************)

\* To the TAM every step of the console is a stutter.
LEMMA ConsoleStepIsStatusStep ==
  ASSUME [ConsoleNext]_consoleVars
  PROVE  [Next]_vars
<1>1. ASSUME NEW a \in Agents, NEW m \in Manifests, Report(a, m) PROVE Next
  BY <1>1 DEF Report, Next
<1>2. ASSUME Second PROVE Next
  BY <1>2 DEF Second, Next
<1>3. ASSUME NEW p \in Pages,
             \/ OpenPage(p) \/ ListAgents(p) \/ GetAgentStatus(p)
             \/ CallFails(p) \/ Store(p) \/ Render(p)
      PROVE  UNCHANGED vars
  BY <1>3 DEF OpenPage, ListAgents, GetAgentStatus, CallFails, Store, Render
<1>4. ASSUME NEW a \in Agents, Enrol(a) PROVE UNCHANGED vars
  BY <1>4 DEF Enrol
<1>5. ASSUME Restart PROVE UNCHANGED vars
  BY <1>5 DEF Restart
<1>6. ASSUME UNCHANGED consoleVars PROVE UNCHANGED vars
  BY <1>6 DEF consoleVars
<1> QED
  BY <1>1, <1>2, <1>3, <1>4, <1>5, <1>6 DEF ConsoleNext

\* The number of rows stays within its bound.
LEMMA RowsBounded ==
  ASSUME TypeOK, Len(rows) <= MaxRows, [Next]_vars
  PROVE  Len(rows') <= MaxRows
<1>1. Len(rows) \in Nat /\ MaxRows \in Nat
  BY BoundAssumption DEF TypeOK
<1>2. CASE UNCHANGED rows
  BY <1>2
<1>3. ASSUME NEW a \in Agents, NEW m \in Manifests, ReflectManifestSuccess(a, m)
      PROVE  Len(rows') <= MaxRows
  <2>1. Len(rows) < MaxRows
    BY <1>3 DEF ReflectManifestSuccess
  <2>2. Len(rows') = Len(rows) + 1
    BY <1>3, ReflectRows
  <2> QED
    BY <1>1, <2>1, <2>2
<1> QED
  BY <1>2, <1>3 DEF Next, HandleErrorReport, Tick, vars

LEMMA StartIsMoment ==
  Start \in Moment /\ NoPage \in PageState
<1>1. Start \in Moment
  BY BoundAssumption DEF Start, Moment
<1> QED
  BY <1>1 DEF NoPage, PageState, Nothing

\* The moments among which OpenPage chooses, and its choice.
Moments == {page[q].arrived : q \in {x \in Pages : ~At(x, "idle")}} \cup {Now}

Oldest == CHOOSE m \in Moments : \A n \in Moments : Before(m, n)

LEMMA OldestIs ==
  ASSUME Typed, PagesInv
  PROVE  /\ Oldest \in Moment /\ Before(Oldest, Now)
         /\ \A q \in Pages : ~At(q, "idle") => Before(Oldest, page[q].arrived)
<1>0. page \in [Pages -> PageState]
  BY DEF Typed, ConsoleTypeOK
<1>1. Moments \in SUBSET Moment /\ Now \in Moments
  BY <1>0, NowIs DEF Moments, PageState
<1>2. \A m, n \in Moments : Before(m, n) \/ Before(n, m)
  <2>1. Before(Now, Now)
    BY NowIs, BeforeSelf
  <2> QED
    BY <2>1 DEF Moments, PagesInv, MomentInv
<1>3. \E m \in Moments : \A n \in Moments : Before(m, n)
  BY <1>1, <1>2, EarliestMoment
<1>4. Oldest \in Moments /\ \A n \in Moments : Before(Oldest, n)
  BY <1>3 DEF Oldest
<1> QED
  BY <1>1, <1>4 DEF Moments

\* A request changes to a request, and the TAM does nothing.
LEMMA PageTyped ==
  ASSUME Typed, UNCHANGED <<vars, enrolled>>, cache' \in [Agents -> Status \cup {None}],
         intact' \in BOOLEAN, NEW p \in Pages, NEW q \in PageState, page' = [page EXCEPT ![p] = q]
  PROVE  Typed'
<1>1. TypeOK' /\ Len(rows') <= MaxRows
  BY DEF Typed, ConsoleTypeOK, TypeOK, vars
<1>2. page' \in [Pages -> PageState]
  BY DEF Typed, ConsoleTypeOK
<1> QED
  BY <1>1, <1>2 DEF Typed, ConsoleTypeOK

\* The request as ListAgents and GetAgentStatus leave it.
Listed(q, kids) ==
  [q EXCEPT !.kids = kids, !.todo = KidsToFetch(kids), !.whole = kids = enrolled,
            !.pc = IF kids = {} THEN "store"
                   ELSE IF KidsToFetch(kids) = {} THEN "render" ELSE "status"]

Answered(q, a, s) ==
  [q EXCEPT !.todo = @ \ {a}, !.got[a] = s,
            !.pc = IF q.todo = {a} THEN "store" ELSE "status"]

LEMMA ListedIs ==
  ASSUME NEW q \in PageState, NEW kids \in SUBSET Agents
  PROVE  LET r == Listed(q, kids)
         IN  /\ r \in PageState
             /\ r.kids = kids /\ r.todo = kids /\ r.whole = (kids = enrolled)
             /\ r.pc = IF kids = {} THEN "store" ELSE "status"
             /\ r.got = q.got /\ r.arrived = q.arrived /\ r.oldest = q.oldest
<1> DEFINE w == kids = enrolled
           l == IF kids = {} THEN "store" ELSE "status"
<1>1. w \in BOOLEAN /\ l \in {"store", "status"}
  OBVIOUS
<1>2. Listed(q, kids) = [q EXCEPT !.kids = kids, !.todo = kids, !.whole = w, !.pc = l]
  BY DEF Listed, KidsToFetch
<1> HIDE DEF w, l
<1>3. LET r == Listed(q, kids)
      IN  /\ r \in PageState
          /\ r.kids = kids /\ r.todo = kids /\ r.whole = w /\ r.pc = l
          /\ r.got = q.got /\ r.arrived = q.arrived /\ r.oldest = q.oldest
  BY <1>1, <1>2 DEF PageState
<1> QED
  BY <1>3 DEF w, l

LEMMA AnsweredIs ==
  ASSUME NEW q \in PageState, NEW a \in Agents, NEW s \in Status
  PROVE  /\ Answered(q, a, s) \in PageState
         /\ Answered(q, a, s).whole = q.whole /\ Answered(q, a, s).kids = q.kids /\ Answered(q, a, s).todo = q.todo \ {a}
         /\ Answered(q, a, s).pc = IF q.todo = {a} THEN "store" ELSE "status"
         /\ Answered(q, a, s).got[a] = s
         /\ \A b \in Agents \ {a} : Answered(q, a, s).got[b] = q.got[b]
         /\ Answered(q, a, s).arrived = q.arrived /\ Answered(q, a, s).oldest = q.oldest
<1> DEFINE g == [q.got EXCEPT ![a] = s]
<1>1. q.got \in [Agents -> Status \cup {None}]
  BY DEF PageState
<1>2. g \in [Agents -> Status \cup {None}] /\ g[a] = s /\ \A b \in Agents \ {a} : g[b] = q.got[b]
  BY <1>1
<1>3. Answered(q, a, s) = [q EXCEPT !.todo = q.todo \ {a}, !.got = g,
                                    !.pc = IF q.todo = {a} THEN "store" ELSE "status"]
  BY DEF Answered
<1> HIDE DEF g
<1>4. /\ Answered(q, a, s) \in PageState
      /\ Answered(q, a, s).whole = q.whole /\ Answered(q, a, s).kids = q.kids /\ Answered(q, a, s).todo = q.todo \ {a}
      /\ Answered(q, a, s).pc = IF q.todo = {a} THEN "store" ELSE "status"
      /\ Answered(q, a, s).got = g
      /\ Answered(q, a, s).arrived = q.arrived /\ Answered(q, a, s).oldest = q.oldest
  <2> DEFINE t == q.todo \ {a}
             l == IF q.todo = {a} THEN "store" ELSE "status"
  <2>1. t \in SUBSET Agents /\ l \in {"store", "status"}
    BY DEF PageState
  <2>2. Answered(q, a, s) = [q EXCEPT !.todo = t, !.got = g, !.pc = l]
    BY <1>3
  <2> HIDE DEF t, l
  <2>3. /\ Answered(q, a, s) \in PageState
        /\ Answered(q, a, s).whole = q.whole /\ Answered(q, a, s).kids = q.kids /\ Answered(q, a, s).todo = t
        /\ Answered(q, a, s).pc = l /\ Answered(q, a, s).got = g
        /\ Answered(q, a, s).arrived = q.arrived /\ Answered(q, a, s).oldest = q.oldest
    BY <1>2, <2>1, <2>2 DEF PageState
  <2> QED
    BY <2>3 DEF t, l
<1> QED
  BY <1>2, <1>4

\* The request as Store leaves it.
Rendering(q) == [q EXCEPT !.pc = "render", !.got = Nothing]

LEMMA RenderingIs ==
  ASSUME NEW q \in PageState
  PROVE  /\ Rendering(q) \in PageState
         /\ Rendering(q).pc = "render" /\ Rendering(q).kids = q.kids /\ Rendering(q).whole = q.whole
         /\ Rendering(q).arrived = q.arrived /\ Rendering(q).oldest = q.oldest
  BY DEF Rendering, PageState, Nothing

LEMMA StoredIs ==
  ASSUME Typed, NEW q \in PageState
  PROVE  Stored(q.kids, q.got) \in [Agents -> Status \cup {None}]
  BY DEF Stored, PageState, Typed, ConsoleTypeOK

-----------------------------------------------------------------------------
(***************************************************************************)
(* Each step of a request preserves the types and the invariant.           *)
(***************************************************************************)
LEMMA OthersKept ==
  ASSUME PagesInv, UNCHANGED <<cache, intact>>, NEW p \in Pages
  PROVE  CachedIn(rows, cache', intact', page[p])
  BY InvParts DEF PagesInv

\* A request that ends leaves nothing to be shown.
LEMMA NoPageIsFine ==
  FetchedIn(rows, NoPage) /\ CachedIn(rows, cache', intact', NoPage) /\ NoPage.pc = "idle"
  BY DEF FetchedIn, CachedIn, NoPage

LEMMA EndPageStep ==
  ASSUME Typed, PagesInv, NEW p \in Pages, EndPage(p), UNCHANGED <<vars, enrolled, cache, intact>>
  PROVE  Typed' /\ PagesInv'
<1>1. page' = [page EXCEPT ![p] = NoPage]
  BY DEF EndPage
<1>2. Typed'
  BY <1>1, StartIsMoment, PageTyped DEF Typed, ConsoleTypeOK
<1>3. \A x \in Pages \ {p} : CachedIn(rows, cache', intact', page[x])
  BY OthersKept
<1> QED
  BY <1>1, <1>2, <1>3, NoPageIsFine, PageStep

LEMMA ListAgentsStep ==
  ASSUME Typed, PagesInv, NEW p \in Pages, ListAgents(p)
  PROVE  Typed' /\ PagesInv'
<1>0. page[p] \in PageState /\ UNCHANGED <<vars, enrolled, cache, intact>> /\ page[p].pc = "list"
  BY DEF Typed, ConsoleTypeOK, ListAgents, At
<1>1. PICK kids \in GetAll : page' = [page EXCEPT ![p] = Listed(page[p], kids)]
  BY DEF ListAgents, Listed
<1> DEFINE q == Listed(page[p], kids)
<1>2. /\ q \in PageState /\ q.kids = kids /\ q.todo = kids /\ q.whole = (kids = enrolled)
      /\ q.pc = IF kids = {} THEN "store" ELSE "status"
      /\ q.got = page[p].got /\ q.arrived = page[p].arrived /\ q.oldest = page[p].oldest
  <2>1. kids \in SUBSET Agents
    BY DEF GetAll, Typed, ConsoleTypeOK
  <2> QED
    BY <1>0, <2>1, ListedIs
<1> HIDE DEF q
<1>3. Typed'
  BY <1>0, <1>1, <1>2, PageTyped DEF Typed, ConsoleTypeOK, q
<1>4. FetchedIn(rows, q)
  <2>1. q.got = Nothing
    BY <1>0, <1>2 DEF PagesInv, FetchInv, At
  <2>2. q.whole => q.arrived.enrolled \subseteq q.kids
    BY <1>0, <1>2 DEF PagesInv, MomentInv, Before, Now, At
  <2>3. \A a \in Agents : q.got[a] = None
    BY <2>1 DEF Nothing
  <2>4. q.pc \in {"status", "store"} /\ (q.pc = "store" => q.kids = {}) /\ q.kids \ q.todo = {}
    BY <1>2
  <2> QED
    BY <2>2, <2>3, <2>4 DEF FetchedIn, SinceIn
<1>5. \A x \in Pages \ {p} : CachedIn(rows, cache', intact', page[x])
  BY <1>0, OthersKept
<1>6. CachedIn(rows, cache', intact', q)
  BY <1>2 DEF CachedIn
<1>7. page' = [page EXCEPT ![p] = q]
  BY <1>1 DEF q
<1> QED
  BY <1>0, <1>2, <1>3, <1>4, <1>5, <1>6, <1>7, PageStep

\* What the TAM answers now is what the agent has reported last.
LEMMA AnswerIsReported ==
  ASSUME Typed, StatusInv, InstalledInv, NEW a \in Agents, NEW s \in StatusOf(a),
         NEW n \in Nat, n <= Len(rows)
  PROVE  s \in Status /\ s # None /\ SinceIn(rows, a, s, n)
<1>1. s \in Status /\ s # None
  BY StatusAssumption DEF StatusOf
<1>2. ASSUME NEW c \in Components, s[c] # None
      PROVE  s[c] = LastBy(rows, a, c, Len(rows))
  <2>1. s[c] \in MayShow(a, c)
    BY <1>2 DEF StatusOf
  <2>2. s[c] = installed[a][c]
    BY <2>1, ShownIsReported DEF StatusShowsLastReport
  <2>3. installed[a][c] = LastBy(rows, a, c, Len(rows))
    BY DEF InstalledInv, ReportedAt, LastBy, LastOf, Mine
  <2> QED
    BY <2>2, <2>3
<1>3. Len(rows) \in n .. Len(rows)
  BY NowIs
<1> QED
  BY <1>1, <1>2, <1>3 DEF SinceIn

LEMMA GetAgentStatusStep ==
  ASSUME Typed, StatusInv, InstalledInv, PagesInv, NEW p \in Pages, GetAgentStatus(p)
  PROVE  Typed' /\ PagesInv'
<1>0. page[p] \in PageState /\ UNCHANGED <<vars, enrolled, cache, intact>> /\ page[p].pc = "status"
  BY DEF Typed, ConsoleTypeOK, GetAgentStatus, At
<1>1. PICK a \in page[p].todo : \E s \in StatusOf(a) : page' = [page EXCEPT ![p] = Answered(page[p], a, s)]
  BY DEF GetAgentStatus, Answered
<1>2. PICK s \in StatusOf(a) : page' = [page EXCEPT ![p] = Answered(page[p], a, s)]
  BY <1>1
<1>3. /\ a \in Agents /\ page[p].arrived.reports \in Nat
      /\ page[p].arrived.reports <= Len(rows)
  BY <1>0, <1>1, BoundAssumption DEF PageState, Moment, PagesInv, MomentInv, Before, Now, At
<1>4. s \in Status /\ s # None /\ SinceIn(rows, a, s, page[p].arrived.reports)
  BY <1>2, <1>3, AnswerIsReported
<1> DEFINE q == Answered(page[p], a, s)
<1>5. /\ q \in PageState /\ q.kids = page[p].kids /\ q.todo = page[p].todo \ {a}
      /\ q.whole = page[p].whole
      /\ q.pc = IF page[p].todo = {a} THEN "store" ELSE "status"
      /\ q.got[a] = s /\ \A b \in Agents \ {a} : q.got[b] = page[p].got[b]
      /\ q.arrived = page[p].arrived /\ q.oldest = page[p].oldest
  BY <1>0, <1>3, <1>4, AnsweredIs
<1>6. page' = [page EXCEPT ![p] = q]
  BY <1>2
<1> HIDE DEF q
<1>7. Typed'
  BY <1>0, <1>5, <1>6, PageTyped DEF Typed, ConsoleTypeOK
<1>8. FetchedIn(rows, q)
  <2>1. FetchedIn(rows, page[p])
    BY InvParts DEF PagesInv
  <2>2. q.pc \in {"status", "store"} /\ (q.whole => q.arrived.enrolled \subseteq q.kids)
    BY <1>0, <1>5, <2>1 DEF FetchedIn
  <2>3. \A b \in Agents : SinceIn(rows, b, q.got[b], q.arrived.reports)
    BY <1>0, <1>4, <1>5, <2>1 DEF FetchedIn
  <2>4. \A b \in q.kids \ q.todo : q.got[b] # None
    <3>1. q.kids \subseteq Agents
      BY <1>5 DEF PageState
    <3> QED
      BY <1>0, <1>4, <1>5, <2>1, <3>1 DEF FetchedIn
  <2>5. q.pc = "store" => q.todo = {}
    BY <1>5
  <2> QED
    BY <2>2, <2>3, <2>4, <2>5 DEF FetchedIn
<1>9. \A x \in Pages \ {p} : CachedIn(rows, cache', intact', page[x])
  BY <1>0, OthersKept
<1>10. CachedIn(rows, cache', intact', q)
  BY <1>5 DEF CachedIn
<1> QED
  BY <1>0, <1>5, <1>6, <1>7, <1>8, <1>9, <1>10, PageStep

LEMMA SinceEarlier ==
  ASSUME Typed, NEW a, NEW t, NEW n \in Nat, NEW m \in Nat, m <= n, SinceIn(rows, a, t, n)
  PROVE  SinceIn(rows, a, t, m)
<1>1. n .. Len(rows) \subseteq m .. Len(rows)
  BY NowIs
<1> QED
  BY <1>1 DEF SinceIn

\* What a request stores may be shown by every request in flight: it was fetched
\* after the oldest of them had arrived, and nothing is missing unless the list
\* was cut off.
LEMMA StoredMayBeShown ==
  ASSUME Typed, PagesInv, NEW p \in Pages, page[p].pc = "store",
         NEW x \in Pages, page[x].pc # "idle"
  PROVE  /\ page[p].whole => page[x].oldest.enrolled \subseteq
              {a \in page[p].kids : Stored(page[p].kids, page[p].got)[a] # None}
         /\ \A a \in Agents :
              SinceIn(rows, a, Stored(page[p].kids, page[p].got)[a], page[x].oldest.reports)
<1> DEFINE k == Stored(page[p].kids, page[p].got)
<1>0. page[p] \in PageState /\ page[x] \in PageState
  BY DEF Typed, ConsoleTypeOK
<1>1. page[p].arrived.reports \in Nat /\ page[x].oldest.reports \in Nat /\ page[p].kids \subseteq Agents
  BY <1>0, BoundAssumption DEF PageState, Moment
<1>2. FetchedIn(rows, page[p]) /\ Ordered(Now, page[x], page[p])
  BY InvParts DEF PagesInv
<1>3. /\ page[x].oldest.reports <= page[p].arrived.reports
      /\ page[x].oldest.enrolled \subseteq page[p].arrived.enrolled
  BY <1>2 DEF Ordered, Before
<1>4. /\ page[p].whole => page[p].arrived.enrolled \subseteq page[p].kids
      /\ \A a \in page[p].kids : page[p].got[a] # None
      /\ \A a \in Agents : SinceIn(rows, a, page[p].got[a], page[p].arrived.reports)
  BY <1>2 DEF FetchedIn
<1>5. \A a \in Agents : k[a] = IF a \in page[p].kids THEN page[p].got[a] ELSE None
  BY <1>4 DEF Stored
<1> HIDE DEF k
<1>6. page[p].whole => page[x].oldest.enrolled \subseteq {a \in page[p].kids : k[a] # None}
  BY <1>1, <1>3, <1>4, <1>5
<1>7. ASSUME NEW a \in Agents PROVE SinceIn(rows, a, k[a], page[x].oldest.reports)
  <2>1. CASE k[a] = None
    BY <2>1 DEF SinceIn
  <2>2. CASE k[a] = page[p].got[a]
    BY <1>1, <1>3, <1>4, <2>2, SinceEarlier
  <2> QED
    BY <1>5, <2>1, <2>2
<1> QED
  BY <1>6, <1>7 DEF k

LEMMA StoreStep ==
  ASSUME Typed, PagesInv, NEW p \in Pages, Store(p)
  PROVE  Typed' /\ PagesInv'
<1>0. /\ page[p] \in PageState /\ UNCHANGED <<vars, enrolled>> /\ page[p].pc = "store"
      /\ cache' = Stored(page[p].kids, page[p].got) /\ intact' = page[p].whole
  BY DEF Typed, ConsoleTypeOK, Store, At
<1>1. cache' \in [Agents -> Status \cup {None}] /\ intact' \in BOOLEAN
  BY <1>0, StoredIs DEF PageState
<1>2. ASSUME NEW x \in Pages, page[x].pc # "idle"
      PROVE  /\ intact' => page[x].oldest.enrolled \subseteq {a \in page[p].kids : cache'[a] # None}
             /\ \A a \in Agents : SinceIn(rows, a, cache'[a], page[x].oldest.reports)
  BY <1>0, <1>2, StoredMayBeShown
<1>3. ASSUME NEW x \in Pages PROVE CachedIn(rows, cache', intact', page[x])
  <2>1. CASE page[x].pc = "render"
    <3>1. page[x].whole => page[x].oldest.enrolled \subseteq page[x].kids
      <4>1. FetchedIn(rows, page[x]) /\ Ordered(Now, page[x], page[x])
        BY InvParts DEF PagesInv
      <4> QED
        BY <2>1, <4>1 DEF FetchedIn, Ordered, Before
    <3> QED
      BY <1>2, <2>1, <3>1 DEF CachedIn
  <2> QED
    BY <2>1 DEF CachedIn
<1> DEFINE q == Rendering(page[p])
<1>4. page' = [page EXCEPT ![p] = q]
  BY DEF Store, Rendering
<1>5. /\ q \in PageState /\ q.pc = "render" /\ q.kids = page[p].kids /\ q.whole = page[p].whole
      /\ q.arrived = page[p].arrived /\ q.oldest = page[p].oldest
  BY <1>0, RenderingIs
<1> HIDE DEF q
<1>6. Typed'
  BY <1>0, <1>1, <1>4, <1>5, PageTyped
<1>7. FetchedIn(rows, q)
  BY <1>0, <1>5, InvParts DEF PagesInv, FetchedIn
<1>8. CachedIn(rows, cache', intact', q)
  BY <1>0, <1>2, <1>5 DEF CachedIn
<1> QED
  BY <1>0, <1>3, <1>4, <1>5, <1>6, <1>7, <1>8, PageStep

\* The request as OpenPage leaves it.
Opened(m, n) == [NoPage EXCEPT !.pc = "list", !.arrived = m, !.oldest = n]

LEMMA OpenedIs ==
  ASSUME NEW m \in Moment, NEW n \in Moment
  PROVE  /\ Opened(m, n) \in PageState /\ Opened(m, n).pc = "list"
         /\ Opened(m, n).arrived = m /\ Opened(m, n).oldest = n /\ Opened(m, n).got = Nothing
<1>1. NoPage \in PageState /\ NoPage.got = Nothing
  BY StartIsMoment DEF NoPage
<1> QED
  BY <1>1 DEF PageState, Opened

\* A new request arrives after all that are in flight, the oldest of which it
\* keeps in mind.
LEMMA OpenPageStep ==
  ASSUME Typed, PagesInv, NEW p \in Pages, OpenPage(p)
  PROVE  Typed' /\ PagesInv'
<1> DEFINE q == Opened(Now, Oldest)
<1>0. /\ page \in [Pages -> PageState] /\ UNCHANGED <<vars, enrolled, cache, intact>> /\ page[p].pc = "idle"
      /\ page' = [page EXCEPT ![p] = q]
  BY DEF Typed, ConsoleTypeOK, OpenPage, At, Opened, Oldest, Moments
<1>1. /\ Oldest \in Moment /\ Now \in Moment
      /\ Before(Oldest, Now) /\ Before(Now, Now)
      /\ \A x \in Pages : page[x].pc # "idle" => Before(Oldest, page[x].arrived)
  BY OldestIs, NowIs, BeforeSelf DEF At
<1>2. q \in PageState /\ q.pc = "list" /\ q.arrived = Now /\ q.oldest = Oldest /\ q.got = Nothing
  BY <1>1, OpenedIs
<1> HIDE DEF q
<1>3. Typed'
  BY <1>0, <1>2, PageTyped DEF Typed, ConsoleTypeOK
<1>4. /\ rows' = rows /\ Now' = Now /\ cache' = cache /\ intact' = intact
      /\ \A x \in Pages : page'[x] = IF x = p THEN q ELSE page[x]
  BY <1>0 DEF vars, Now
<1>5. FetchInv'
  <2>1. FetchedIn(rows, q)
    BY <1>2 DEF FetchedIn
  <2> QED
    BY <1>4, <2>1, InvParts, InvPartsPrime DEF PagesInv
<1>6. CacheInv'
  <2>1. CachedIn(rows, cache, intact, q)
    BY <1>2 DEF CachedIn
  <2> QED
    BY <1>4, <2>1, InvParts, InvPartsPrime DEF PagesInv
<1>7. MomentInv'
  <2>1. \A x, y \in Pages : Ordered(Now, page[x], page[y])
    BY InvParts DEF PagesInv
  <2>2. ASSUME NEW x \in Pages, page[x].pc # "idle"
        PROVE  /\ Before(page[x].arrived, Now) /\ Before(page[x].oldest, Now)
               /\ Before(Oldest, page[x].arrived)
    <3>1. page[x].arrived \in Moment /\ page[x].oldest \in Moment
      BY <1>0 DEF PageState
    <3>2. Before(page[x].oldest, page[x].arrived) /\ Before(page[x].arrived, Now)
      BY <2>1, <2>2 DEF Ordered
    <3> QED
      BY <1>1, <2>2, <3>1, <3>2, BeforeTrans
  <2>3. Ordered(Now, q, q)
    BY <1>1, <1>2 DEF Ordered
  <2>4. \A x \in Pages : Ordered(Now, q, page[x]) /\ Ordered(Now, page[x], q)
    BY <1>1, <1>2, <2>2 DEF Ordered
  <2>5. \A x, y \in Pages : Ordered(Now, page'[x], page'[y])
    BY <1>4, <2>1, <2>3, <2>4
  <2> QED
    BY <1>4, <2>5, InvPartsPrime
<1> QED
  BY <1>3, <1>5, <1>6, <1>7 DEF PagesInv

LEMMA RestartStep ==
  ASSUME Typed, Restart
  PROVE  Typed' /\ PagesInv'
<1>1. Typed'
  <2>1. TypeOK' /\ Len(rows') <= MaxRows
    BY DEF Typed, ConsoleTypeOK, TypeOK, Restart, vars
  <2>2. page' \in [Pages -> PageState] /\ cache' \in [Agents -> Status \cup {None}]
    BY StartIsMoment DEF Restart, Nothing
  <2> QED
    BY <2>1, <2>2 DEF Typed, ConsoleTypeOK, Restart
<1>2. \A x \in Pages : page'[x] = NoPage /\ page'[x].pc = "idle"
  BY DEF Restart, NoPage
<1>3. FetchInv' /\ CacheInv' /\ MomentInv'
  BY <1>2, InvPartsPrime DEF FetchedIn, CachedIn, Ordered
<1> QED
  BY <1>1, <1>3 DEF PagesInv

\* The TAM enrols an agent, takes a report or lets time pass.
LEMMA StatusServiceStep ==
  ASSUME Typed, PagesInv, [Next]_vars, enrolled \subseteq enrolled', enrolled' \subseteq Agents,
         UNCHANGED <<cache, page, intact>>
  PROVE  Typed' /\ PagesInv'
<1>1. TypeOK' /\ Len(rows') <= MaxRows
  BY TypeStep, RowsBounded DEF Typed, ConsoleTypeOK
<1>2. Typed'
  BY <1>1 DEF Typed, ConsoleTypeOK
<1> QED
  BY <1>2, TAMStep

-----------------------------------------------------------------------------
(***************************************************************************)
(* The invariant and the theorems.                                         *)
(***************************************************************************)
ConsoleInv == Typed /\ StatusInv /\ InstalledInv /\ PagesInv

LEMMA ConsoleInvInit ==
  ASSUME ConsoleInit
  PROVE  ConsoleInv
<1>0. Init /\ rows = <<>> /\ Len(rows) = 0
  BY DEF ConsoleInit, Init
<1>1. TypeOK /\ StatusInv
  BY <1>0, BoundAssumption DEF Init, TypeOK, StatusInv
<1>2. Typed
  BY <1>0, <1>1, StartIsMoment, BoundAssumption DEF Typed, ConsoleTypeOK, ConsoleInit, Nothing
<1>3. InstalledInv
  BY <1>0 DEF InstalledInv, ReportedAt, Init
<1>4. \A x \in Pages : page[x] = NoPage /\ page[x].pc = "idle"
  BY DEF ConsoleInit, NoPage
<1>5. PagesInv
  BY <1>4, InvParts DEF FetchedIn, CachedIn, Ordered, PagesInv
<1> QED
  BY <1>1, <1>2, <1>3, <1>5 DEF ConsoleInv

LEMMA ConsoleInvStep ==
  ASSUME ConsoleInv, [ConsoleNext]_consoleVars
  PROVE  ConsoleInv'
<1>0. Typed /\ TypeOK /\ StatusInv /\ InstalledInv /\ PagesInv /\ enrolled \subseteq Agents
  BY DEF ConsoleInv, Typed, ConsoleTypeOK
<1>1. [Next]_vars
  BY ConsoleStepIsStatusStep
<1>2. StatusInv' /\ InstalledInv'
  BY <1>0, <1>1, StatusStep, InstalledStep
<1>3. Typed' /\ PagesInv'
  <2>1. ASSUME NEW p \in Pages, OpenPage(p) PROVE Typed' /\ PagesInv'
    BY <1>0, <2>1, OpenPageStep
  <2>2. ASSUME NEW p \in Pages, ListAgents(p) PROVE Typed' /\ PagesInv'
    BY <1>0, <2>2, ListAgentsStep
  <2>3. ASSUME NEW p \in Pages, GetAgentStatus(p) PROVE Typed' /\ PagesInv'
    BY <1>0, <2>3, GetAgentStatusStep
  <2>4. ASSUME NEW p \in Pages, CallFails(p) PROVE Typed' /\ PagesInv'
    BY <1>0, <2>4, EndPageStep DEF CallFails, CacheOnError
  <2>5. ASSUME NEW p \in Pages, Store(p) PROVE Typed' /\ PagesInv'
    BY <1>0, <2>5, StoreStep
  <2>6. ASSUME NEW p \in Pages, Render(p) PROVE Typed' /\ PagesInv'
    BY <1>0, <2>6, EndPageStep DEF Render
  <2>7. ASSUME Restart PROVE Typed' /\ PagesInv'
    BY <1>0, <2>7, RestartStep
  <2>8. ASSUME NEW a \in Agents, Enrol(a) PROVE Typed' /\ PagesInv'
    BY <1>0, <1>1, <2>8, StatusServiceStep DEF Enrol
  <2>9. ASSUME NEW a \in Agents, NEW m \in Manifests, Report(a, m) PROVE Typed' /\ PagesInv'
    BY <1>0, <1>1, <2>9, StatusServiceStep DEF Report
  <2>10. ASSUME Second PROVE Typed' /\ PagesInv'
    BY <1>0, <1>1, <2>10, StatusServiceStep DEF Second
  <2>11. ASSUME UNCHANGED consoleVars PROVE Typed' /\ PagesInv'
    BY <1>0, <1>1, <2>11, StatusServiceStep DEF consoleVars
  <2> QED
    BY <2>1, <2>2, <2>3, <2>4, <2>5, <2>6, <2>7, <2>8, <2>9, <2>10, <2>11 DEF ConsoleNext
<1> QED
  BY <1>2, <1>3 DEF ConsoleInv

LEMMA ConsoleInvariant == ConsoleSpec => []ConsoleInv
<1>1. ConsoleInit => ConsoleInv
  BY ConsoleInvInit
<1>2. ConsoleInv /\ [ConsoleNext]_consoleVars => ConsoleInv'
  BY ConsoleInvStep
<1> QED
  BY <1>1, <1>2, PTL DEF ConsoleSpec

\* The variables of the console and of the tables it asks for hold what their
\* types say.
THEOREM ConsoleTypeCorrect == ConsoleSpec => []ConsoleTypeOK
<1>1. ConsoleInv => ConsoleTypeOK
  BY DEF ConsoleInv, Typed
<1> QED
  BY <1>1, ConsoleInvariant, PTL

\* The services the console calls behave as the TAM of AgentStatus: whatever
\* the console does, GetAgentStatus answers from tables written by that
\* specification alone.
THEOREM ConsoleUsesStatus == ConsoleSpec => Spec
<1>1. ConsoleInit => Init
  BY DEF ConsoleInit
<1>2. [ConsoleNext]_consoleVars => [Next]_vars
  BY ConsoleStepIsStatusStep
<1> QED
  BY <1>1, <1>2, PTL DEF ConsoleSpec, Spec

\* fetchTAMDevices never renders, for an agent, anything older than the oldest
\* request in flight when the page was requested, however many requests overlap
\* and overwrite the shared cache in between.
THEOREM PagesAreRecent == ConsoleSpec => []PageIsRecent
<1>1. ASSUME ConsoleInv PROVE PageIsRecent
  <2> SUFFICES ASSUME NEW p \in Pages, At(p, "render"), NEW a \in OnPage(p),
                      NEW c \in Components, cache[a][c] # None
               PROVE  \E n \in page[p].oldest.reports .. Len(rows) :
                        cache[a][c] = ReportedAt(a, c, n)
    BY DEF PageIsRecent
  <2>1. a \in Agents /\ cache[a] # None
    BY <1>1 DEF OnPage, ConsoleInv, Typed, ConsoleTypeOK, PageState
  <2>2. ReportedSince(a, cache[a], page[p].oldest.reports)
    BY <1>1, <2>1 DEF ConsoleInv, PagesInv, CacheInv
  <2> QED
    BY <2>1, <2>2 DEF ReportedSince
<1>2. ConsoleInv => PageIsRecent
  BY <1>1
<1> QED
  BY <1>2, ConsoleInvariant, PTL

\* Although each request deletes from the shared cache the agents that are
\* missing from its own list, and a list that was cut off may have emptied it,
\* fetchTAMDevices finds there every agent enrolled when the oldest of the
\* overlapping requests arrived, once the cache was filled from a whole list.
THEOREM PagesHaveKnownAgents == ConsoleSpec => []PageHasKnownAgents
<1>1. ConsoleInv => PageHasKnownAgents
  BY DEF ConsoleInv, PagesInv, CacheInv, PageHasKnownAgents
<1> QED
  BY <1>1, ConsoleInvariant, PTL
=============================================================================
