---------------------------- MODULE AdminConsole ----------------------------
(***************************************************************************)
(* The page of managed devices of the admin console, fetchTAMDevices in    *)
(* cmd/admin-console/tam_api.go, together with the services of the TAM it  *)
(* calls (ListAgents and GetAgentStatus over the tables of AgentStatus).   *)
(*                                                                         *)
(* Every page request runs in a goroutine of its own.  It asks the TAM for *)
(* the list of agents, then for their statuses, puts them into a cache     *)
(* that all requests share, and renders the page from that cache: the lock *)
(* is released between storing and rendering.  Meanwhile agents enrol and  *)
(* report to the TAM, other pages are requested, calls fail, and the       *)
(* console may be restarted, which empties its cache.                      *)
(*                                                                         *)
(* Reports of failures go to suit_reports, which neither service reads;    *)
(* they are left to AgentStatus.                                           *)
(***************************************************************************)
EXTENDS AgentStatus, FiniteSets

CONSTANT Pages      \* page requests that may be in flight at the same time

ASSUME AgentsAssumption == IsFiniteSet(Agents)

VARIABLES
    enrolled,       \* table agents of the TAM
    cache,          \* byKID: the status of an agent, or None
    page,           \* the local state of each page request
    intact          \* history: the list behind what the cache holds was whole

consoleVars == <<vars, enrolled, cache, page, intact>>

\* SuitManifests of an AgentStatusRecord: the manifest shown for each component.
Status == [Components -> Manifests \cup {None}]

ASSUME StatusAssumption == None \notin Status

\* What had happened in the TAM at some moment; history only.
Moment == [reports : 0 .. MaxRows, enrolled : SUBSET Agents]

Before(m, n) == m.reports <= n.reports /\ m.enrolled \subseteq n.enrolled

\* kids is orderedKIDs, todo the kids of the GetAgentStatus request that the TAM
\* has not looked at yet, got its answer so far.  The rest is history: whole says
\* that kids were all agents of the TAM, arrived is the moment of the request,
\* oldest that of the oldest request in flight at that moment.
PageState == [pc      : {"idle", "list", "status", "store", "render"},
              kids    : SUBSET Agents,
              todo    : SUBSET Agents,
              got     : [Agents -> Status \cup {None}],
              whole   : BOOLEAN,
              arrived : Moment,
              oldest  : Moment]

Nothing == [a \in Agents |-> None]

Start == [reports |-> 0, enrolled |-> {}]

NoPage == [pc |-> "idle", kids |-> {}, todo |-> {}, got |-> Nothing,
           whole |-> FALSE, arrived |-> Start, oldest |-> Start]

ConsoleTypeOK ==
    /\ TypeOK
    /\ enrolled \subseteq Agents
    /\ cache \in [Agents -> Status \cup {None}]
    /\ page \in [Pages -> PageState]
    /\ intact \in BOOLEAN

ConsoleInit ==
    /\ Init
    /\ enrolled = {}
    /\ cache = Nothing
    /\ page = [p \in Pages |-> NoPage]
    /\ intact = TRUE

-----------------------------------------------------------------------------
At(p, label) == page[p].pc = label

EndPage(p) == page' = [page EXCEPT ![p] = NoPage]

Now == [reports |-> Len(rows), enrolled |-> enrolled]

\* AgentRepository.GetAll: the rows that rows.Next gave, in no order.  A read that
\* is cut off ends the loop as the last row does, for rows.Err is not looked at.
GetAll == SUBSET enrolled

\* Fault: a status in the cache is not fetched again unless the UpdatedAt of its
\* agent has changed, and UpdatedAt is the time of the enrolment.
KidsToFetchDelta(kids) == {a \in kids : cache[a] = None}

\* kidsToFetch: every agent of the list.
KidsToFetch(kids) == kids

\* What the TAM may answer for agent a, one query per agent.
StatusOf(a) ==
    {s \in Status : \A c \in Components :
        s[c] \in MayShow(a, c) \/ (s[c] = None /\ MayMiss(a, c))}

\* fetchTAMDevices under cache.mu.Lock: the fetched statuses are stored and the
\* agents that are not in the list deleted.
Stored(kids, got) ==
    [a \in Agents |-> IF a \notin kids THEN None
                      ELSE IF got[a] # None THEN got[a] ELSE cache[a]]

\* Fault: the cache is emptied when the TAM does not answer.
CacheEmptiedOnError == Nothing

\* A failing call ends the request with 502 and leaves the cache alone.
CacheOnError == cache

\* The agents of its own list that a page finds in the cache.
OnPage(p) == {a \in page[p].kids : cache[a] # None}

-----------------------------------------------------------------------------
\* GET /console/view-managed-devices arrives.
OpenPage(p) ==
    /\ At(p, "idle")
    /\ LET inFlight == {q \in Pages : ~At(q, "idle")}
           moments  == {page[q].arrived : q \in inFlight} \cup {Now}
       IN  page' = [page EXCEPT ![p] = [NoPage EXCEPT
                        !.pc = "list", !.arrived = Now,
                        !.oldest = CHOOSE m \in moments : \A n \in moments : Before(m, n)]]
    /\ UNCHANGED <<vars, enrolled, cache, intact>>

\* GET /AgentService/ListAgents: an empty list goes on to empty the cache.
ListAgents(p) ==
    /\ At(p, "list")
    /\ \E kids \in GetAll :
        page' = [page EXCEPT ![p] = [@ EXCEPT
            !.kids = kids, !.todo = KidsToFetch(kids), !.whole = kids = enrolled,
            !.pc = IF kids = {} THEN "store"
                   ELSE IF KidsToFetch(kids) = {} THEN "render" ELSE "status"]]
    /\ UNCHANGED <<vars, enrolled, cache, intact>>

\* POST /AgentService/GetAgentStatus: the TAM looks up one agent after the other.
GetAgentStatus(p) ==
    /\ At(p, "status")
    /\ \E a \in page[p].todo : \E s \in StatusOf(a) :
        page' = [page EXCEPT ![p] = [@ EXCEPT
            !.todo = page[p].todo \ {a}, !.got[a] = s,
            !.pc = IF page[p].todo = {a} THEN "store" ELSE "status"]]
    /\ UNCHANGED <<vars, enrolled, cache, intact>>

\* Either call fails: unreachable, not 2xx, not CBOR.
CallFails(p) ==
    /\ page[p].pc \in {"list", "status"}
    /\ cache' = CacheOnError
    /\ EndPage(p)
    /\ UNCHANGED <<vars, enrolled, intact>>

\* The answer has arrived, or the list was empty and there was nothing to ask.
Store(p) ==
    /\ At(p, "store")
    /\ cache' = Stored(page[p].kids, page[p].got)
    /\ intact' = page[p].whole
    /\ page' = [page EXCEPT ![p] = [@ EXCEPT !.pc = "render", !.got = Nothing]]
    /\ UNCHANGED <<vars, enrolled>>

\* The page with OnPage(p) and what the cache has for them.
Render(p) ==
    /\ At(p, "render")
    /\ EndPage(p)
    /\ UNCHANGED <<vars, enrolled, cache, intact>>

\* The console dies and is started again.
Restart ==
    /\ cache' = Nothing
    /\ page' = [p \in Pages |-> NoPage]
    /\ intact' = TRUE
    /\ UNCHANGED <<vars, enrolled>>

\* The TAM: an agent is enrolled (setTEEPAgentKey), a known one reports that a
\* manifest is installed, time passes.
Enrol(a) ==
    /\ a \notin enrolled
    /\ enrolled' = enrolled \cup {a}
    /\ UNCHANGED <<vars, cache, page, intact>>

Report(a, m) ==
    /\ a \in enrolled
    /\ ReflectManifestSuccess(a, m)
    /\ UNCHANGED <<enrolled, cache, page, intact>>

Second == Tick /\ UNCHANGED <<enrolled, cache, page, intact>>

ConsoleNext ==
    \/ \E p \in Pages :
        \/ OpenPage(p)
        \/ ListAgents(p)
        \/ GetAgentStatus(p)
        \/ CallFails(p)
        \/ Store(p)
        \/ Render(p)
    \/ Restart
    \/ \E a \in Agents : Enrol(a)
    \/ \E a \in Agents, m \in Manifests : Report(a, m)
    \/ Second

ConsoleSpec == ConsoleInit /\ [][ConsoleNext]_consoleVars

-----------------------------------------------------------------------------
(***************************************************************************)
(* Properties.                                                             *)
(***************************************************************************)

\* What agent a had reported last for component c when the TAM had n rows.
ReportedAt(a, c, n) ==
    LET mine == {i \in 1 .. n : rows[i].agent = a /\ rows[i].manifest.component = c}
    IN  IF mine = {} THEN None
        ELSE rows[CHOOSE i \in mine : \A j \in mine : j <= i].manifest

\* Whatever a page shows for an agent was the agent's last report at some moment
\* since the oldest request in flight when the page was requested: a slower
\* request may overwrite the cache between storing and rendering, but nothing
\* older than that ever comes back from it.
PageIsRecent ==
    \A p \in Pages : At(p, "render") =>
        \A a \in OnPage(p), c \in Components :
            cache[a][c] # None =>
                \E n \in page[p].oldest.reports .. Len(rows) :
                    cache[a][c] = ReportedAt(a, c, n)

\* Where neither the list of the page nor the one the cache was last filled from
\* was cut off, every agent that was enrolled when the oldest of the overlapping
\* requests arrived is on the page, although each request deletes from the shared
\* cache the agents missing from its own, maybe older, list, and although other
\* requests may have emptied the cache after a read that was cut off.
PageHasKnownAgents ==
    \A p \in Pages : At(p, "render") /\ page[p].whole /\ intact =>
        page[p].oldest.enrolled \subseteq OnPage(p)

-----------------------------------------------------------------------------
(***************************************************************************)
(* What makes the properties inductive: the moments of the requests in     *)
(* flight are ordered, and what a request has got so far, or what the      *)
(* cache has for a page about to be rendered, was reported since.          *)
(***************************************************************************)

\* Status t of agent a shows reports since the TAM had n rows.
ReportedSince(a, t, n) ==
    t # None => \A c \in Components : t[c] # None =>
        \E k \in n .. Len(rows) : t[c] = ReportedAt(a, c, k)

InstalledInv ==
    \A a \in Agents, c \in Components : installed[a][c] = ReportedAt(a, c, Len(rows))

MomentInv ==
    \A p, q \in Pages : ~At(p, "idle") /\ ~At(q, "idle") =>
        /\ Before(page[p].arrived, Now)
        /\ Before(page[p].oldest, page[q].arrived)
        /\ Before(page[p].arrived, page[q].arrived) \/ Before(page[q].arrived, page[p].arrived)

FetchInv ==
    \A p \in Pages :
        /\ page[p].pc \in {"status", "store", "render"} /\ page[p].whole =>
                page[p].arrived.enrolled \subseteq page[p].kids
        /\ At(p, "list") => page[p].got = Nothing
        /\ At(p, "status") => \A a \in page[p].kids \ page[p].todo : page[p].got[a] # None
        /\ At(p, "store") => \A a \in page[p].kids : page[p].got[a] # None
        /\ page[p].pc \in {"status", "store"} => \A a \in Agents :
                ReportedSince(a, page[p].got[a], page[p].arrived.reports)

CacheInv ==
    \A p \in Pages : At(p, "render") =>
        /\ page[p].whole /\ intact => page[p].oldest.enrolled \subseteq OnPage(p)
        /\ \A a \in Agents : ReportedSince(a, cache[a], page[p].oldest.reports)
=============================================================================
