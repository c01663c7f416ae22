----------------------- MODULE CollateralCacheProofs -----------------------
(***************************************************************************)
(* Proofs about the collateral cache, for any number of overlapping calls, *)
(* platforms, documents and any lifetime.                                  *)
(***************************************************************************)
EXTENDS CollateralCache, WellFoundedInduction, TLAPS

Inv == TypeOK /\ CacheInv

\* A set of natural numbers that is not empty has a least element, which is
\* what Min chooses.
LEMMA MinOfNat ==
    ASSUME NEW S \in SUBSET Nat, S # {}
    PROVE  Min(S) \in S /\ \A y \in S : Min(S) <= y
<1> DEFINE R == {ss \in Nat \X Nat : ss[1] < ss[2]}
<1>1. OpToRel(<, Nat) = R
  BY DEF OpToRel
<1>2. IsWellFoundedOn(R, Nat)
  BY <1>1, NatLessThanWellFounded, Zenon
<1>3. PICK x \in S : \A y \in S : ~ (<<y, x>> \in R)
  <2> HIDE DEF R
  <2> QED BY <1>2, WFMin
<1>4. \A y \in Nat, z \in Nat : y < z => <<y, z>> \in R
  OBVIOUS
<1>5. ASSUME NEW y \in S PROVE x <= y
  <2>1. ~ (y < x)
    <3> HIDE DEF R
    <3> QED BY <1>3, <1>4
  <2> QED BY <2>1
<1> QED BY <1>5 DEF Min

\* The expiry computed by Put comes no later than the lifetime of the cache and
\* every nextUpdate that was found allow.
LEMMA ExpiryBounds ==
    ASSUME NEW c \in Collateral, NEW now \in Time
    PROVE  /\ Expiry(c, now) \in Nat
           /\ Expiry(c, now) <= now + TTL
           /\ \A t \in Found(c) : Expiry(c, now) <= t
<1> DEFINE S == {now + TTL} \cup Found(c)
<1>1. now \in Nat /\ TTL \in Nat
  BY TimeAssumption DEF Time
<1>2. Found(c) \in SUBSET Nat
  BY NextUpdateAssumption DEF Found, Collateral
<1>3. S \in SUBSET Nat /\ S # {}
  BY <1>1, <1>2
<1>4. Min(S) \in S /\ \A y \in S : Min(S) <= y
  <2> HIDE DEF S
  <2> QED BY <1>3, MinOfNat
<1>5. Expiry(c, now) = Min(S)
  BY DEF Expiry
<1> QED
  <2> HIDE DEF Expiry
  <2>1. now + TTL \in S /\ \A t \in Found(c) : t \in S
    OBVIOUS
  <2>2. Min(S) \in Nat
    BY <1>3, <1>4
  <2> QED BY <1>4, <1>5, <2>1, <2>2

\* An empty cache and idle calls satisfy the invariant.
LEMMA InitInv == Init => Inv
<1> SUFFICES ASSUME Init PROVE Inv
  OBVIOUS
<1>1. 0 \in Time
  BY TimeAssumption DEF Time
<1>2. Idle \in RunState
  BY DEF Idle, RunState
<1>3. TypeOK
  BY <1>1, <1>2 DEF Init, TypeOK
<1>4. CacheInv
  BY DEF Init, CacheInv, CollateralMatchesQuote, At, Idle
<1> QED BY <1>3, <1>4 DEF Inv

\* The facts of CacheInv about one call.
RunOK(q) ==
    /\ q.pc # "idle" => q.quote # None
    /\ q.pc \in {"put", "verify"} => q.coll # None /\ Fits(q.coll, q.quote)
    /\ q.temp # "none" =>
        /\ q.pc = "put"
        /\ q.entry # None
        /\ q.entry.collateral = q.coll
        /\ Bounded(q.entry)

\* The facts of CacheInv about one file.
FileOK(k, e) ==
    e # None => e.complete /\ Bounded(e) /\ k = <<e.collateral.fmspc, e.collateral.ca>>

\* CacheInv speaks about each file, each call and the last appraisal.
LEMMA CacheInvParts ==
    CacheInv <=> /\ \A k \in Keys : FileOK(k, file[k])
                 /\ \A v \in Verifications : RunOK(run[v])
                 /\ CollateralMatchesQuote
BY DEF CacheInv, FileOK, RunOK, At

\* A step that changes one call, and neither files, clock nor appraised.
LEMMA LocalStep ==
    ASSUME Inv, NEW v \in Verifications, NEW q \in RunState, RunOK(q),
           run' = [run EXCEPT ![v] = q], UNCHANGED <<file, clock, appraised>>
    PROVE  Inv'
<1>1. TypeOK'
  BY DEF Inv, TypeOK
<1>2. \A w \in Verifications : RunOK(run[w])'
  <2>1. \A w \in Verifications : RunOK(run[w])
    BY CacheInvParts DEF Inv
  <2>2. ASSUME NEW w \in Verifications PROVE RunOK(run'[w])
    <3>1. run'[w] = IF w = v THEN q ELSE run[w]
      BY DEF Inv, TypeOK
    <3> QED BY <2>1, <3>1
  <2> QED BY <2>2 DEF RunOK, Fits, Bounded, Found
<1>3. \A k \in Keys : FileOK(k, file[k])'
  BY CacheInvParts DEF Inv, FileOK, Bounded, Found
<1>4. CollateralMatchesQuote'
  BY CacheInvParts DEF Inv, CollateralMatchesQuote
<1> QED BY <1>1, <1>2, <1>3, <1>4, CacheInvParts DEF Inv, CacheInv, RunOK, FileOK, At

\* A call that ends is idle, and an idle call satisfies its part.
LEMMA IdleOK == Idle \in RunState /\ RunOK(Idle)
BY DEF Idle, RunState, RunOK

\* Leaving Put, with the entry stored or not, keeps the collateral for the
\* appraisal.
LEMMA EndPutOK ==
    ASSUME Inv, NEW v \in Verifications, At(v, "put")
    PROVE  LET q == [run[v] EXCEPT !.pc = "verify", !.temp = "none", !.entry = None]
           IN  q \in RunState /\ RunOK(q)
<1>1. run[v] \in RunState /\ RunOK(run[v])
  BY CacheInvParts DEF Inv, TypeOK
<1> QED BY <1>1 DEF At, RunState, RunOK

\* A call that only moves to a label about which RunOK says nothing new.
LEMMA GotoOK ==
    ASSUME Inv, NEW v \in Verifications, NEW l \in {"remove", "fetch"},
           run[v].pc \in {"get", "remove"}
    PROVE  LET q == [run[v] EXCEPT !.pc = l]
           IN  q \in RunState /\ RunOK(q) /\ [run EXCEPT ![v].pc = l] = [run EXCEPT ![v] = q]
<1>1. run[v] \in RunState /\ RunOK(run[v]) /\ run \in [Verifications -> RunState]
  BY CacheInvParts DEF Inv, TypeOK
<1>2. [run[v] EXCEPT !.pc = l] \in RunState
  BY <1>1 DEF RunState
<1>3. RunOK([run[v] EXCEPT !.pc = l])
  BY <1>1 DEF RunState, RunOK, At
<1> QED BY <1>1, <1>2, <1>3

\* Get hands out collateral of the quote's own key.
LEMMA GetInv ==
    ASSUME Inv, NEW v \in Verifications, Get(v)
    PROVE  Inv'
<1> DEFINE k == CacheKey(run[v].quote)
           e == file[k]
<1>1. run[v] \in RunState /\ RunOK(run[v]) /\ At(v, "get") /\ run[v].quote \in Quote
  BY CacheInvParts DEF Inv, TypeOK, Get, RunState, RunOK, At
<1>2. k \in Keys /\ k = <<run[v].quote.fmspc, run[v].quote.ca>>
  BY <1>1 DEF CacheKey, Keys, Quote
<1>3. e \in Entry \cup {None} /\ FileOK(k, e)
  BY <1>2, CacheInvParts DEF Inv, TypeOK
<1> HIDE DEF k
<1>4. UNCHANGED <<file, clock, appraised>>
  BY DEF Get
<1>5. CASE Goto(v, "fetch") \/ Goto(v, "remove")
  BY <1>1, <1>4, <1>5, GotoOK, LocalStep DEF Goto, At
<1>6. CASE Return(v)
  BY <1>4, <1>6, IdleOK, LocalStep DEF Return
<1>7. CASE /\ e # None
           /\ run' = [run EXCEPT ![v] = [@ EXCEPT !.pc = "verify", !.coll = e.collateral]]
  <2> DEFINE q == [run[v] EXCEPT !.pc = "verify", !.coll = e.collateral]
  <2>1. e \in Entry /\ e.collateral \in Collateral
    BY <1>3, <1>7 DEF Entry
  <2>2. q \in RunState
    BY <1>1, <2>1 DEF RunState
  <2>3. Fits(e.collateral, run[v].quote)
    BY <1>2, <1>3, <1>7 DEF FileOK, Fits
  <2>4. RunOK(q)
    BY <1>1, <2>1, <2>2, <2>3, NoneAssumption DEF RunOK, RunState, At
  <2>5. run' = [run EXCEPT ![v] = q]
    BY <1>7
  <2> QED
    <3> HIDE DEF q
    <3> QED BY <1>4, <2>2, <2>4, <2>5, LocalStep
<1> QED BY <1>5, <1>6, <1>7 DEF Get, k

\* Collateral is retrieved for the quote at hand.
LEMMA FetchInv ==
    ASSUME Inv, NEW v \in Verifications, Fetch(v)
    PROVE  Inv'
<1>1. run[v] \in RunState /\ RunOK(run[v]) /\ At(v, "fetch") /\ run[v].quote \in Quote
  BY CacheInvParts DEF Inv, TypeOK, Fetch, RunState, RunOK, At
<1>2. UNCHANGED <<file, clock, appraised>>
  BY DEF Fetch
<1>3. CASE Return(v)
  BY <1>2, <1>3, IdleOK, LocalStep DEF Return
<1>4. ASSUME NEW n \in [Docs -> NextUpdates],
             run' = [run EXCEPT ![v] = [@ EXCEPT
                !.pc = "put",
                !.coll = [fmspc |-> run[v].quote.fmspc, ca |-> run[v].quote.ca, next |-> n]]]
      PROVE  Inv'
  <2> DEFINE c == [fmspc |-> run[v].quote.fmspc, ca |-> run[v].quote.ca, next |-> n]
             q == [run[v] EXCEPT !.pc = "put", !.coll = c]
  <2>1. c \in Collateral /\ Fits(c, run[v].quote)
    BY <1>1 DEF Quote, Collateral, Fits
  <2> HIDE DEF c
  <2>2. q \in RunState
    BY <1>1, <2>1 DEF RunState
  <2>3. RunOK(q)
    BY <1>1, <2>1, <2>2, NoneAssumption DEF RunOK, RunState, At
  <2>4. run' = [run EXCEPT ![v] = q]
    BY <1>4 DEF c
  <2> QED
    <3> HIDE DEF q
    <3> QED BY <1>2, <2>2, <2>3, <2>4, LocalStep
<1> QED BY <1>3, <1>4 DEF Fetch

\* The entry that Put prepares expires in time.
LEMMA CreateTempInv ==
    ASSUME Inv, NEW v \in Verifications, CreateTemp(v)
    PROVE  Inv'
<1> DEFINE c == run[v].coll
           e == [collateral |-> c, expires |-> Expiry(c, clock),
                 stored |-> clock, complete |-> TRUE]
           q == [run[v] EXCEPT !.temp = "empty", !.entry = e]
<1>1. run[v] \in RunState /\ RunOK(run[v]) /\ At(v, "put") /\ clock \in Time /\ c \in Collateral
  BY CacheInvParts DEF Inv, TypeOK, CreateTemp, RunState, RunOK, At
<1>2. UNCHANGED <<file, clock, appraised>>
  BY DEF CreateTemp
<1>3. CASE EndPut(v)
  BY <1>1, <1>2, <1>3, EndPutOK, LocalStep DEF EndPut
<1>4. CASE run' = [run EXCEPT ![v] = q]
  <2>1. e \in Entry
    BY <1>1, ExpiryBounds DEF Entry
  <2>2. Bounded(e)
    BY <1>1, ExpiryBounds DEF Bounded
  <2>3. e # None
    BY <2>1, NoneAssumption
  <2>4. q \in RunState
    <3> HIDE DEF e
    <3> QED BY <1>1, <2>1 DEF RunState
  <2>5. e.collateral = c
    OBVIOUS
  <2>6. RunOK(q)
    <3> HIDE DEF e
    <3> QED BY <1>1, <2>2, <2>3, <2>4, <2>5 DEF RunOK, RunState, At
  <2> QED
    <3> HIDE DEF q
    <3> QED BY <1>2, <1>4, <2>4, <2>6, LocalStep
<1> QED BY <1>3, <1>4 DEF CreateTemp

\* Writing the temporary file changes nothing that anybody reads.
LEMMA WriteTempInv ==
    ASSUME Inv, NEW v \in Verifications, WriteTemp(v)
    PROVE  Inv'
<1> DEFINE q == [run[v] EXCEPT !.temp = "written"]
<1>1. run[v] \in RunState /\ RunOK(run[v]) /\ At(v, "put") /\ run[v].temp = "empty"
  BY CacheInvParts DEF Inv, TypeOK, WriteTemp
<1>2. UNCHANGED <<file, clock, appraised>>
  BY DEF WriteTemp
<1>3. CASE EndPut(v)
  BY <1>1, <1>2, <1>3, EndPutOK, LocalStep DEF EndPut
<1>4. CASE run' = [run EXCEPT ![v].temp = "written"]
  <2>1. q \in RunState
    BY <1>1 DEF RunState
  <2>2. RunOK(q)
    BY <1>1 DEF RunOK, RunState, At
  <2>3. run' = [run EXCEPT ![v] = q]
    BY <1>4 DEF Inv, TypeOK
  <2> QED
    <3> HIDE DEF q
    <3> QED BY <1>2, <2>1, <2>2, <2>3, LocalStep
<1> QED BY <1>3, <1>4 DEF WriteTemp

\* A step that replaces one file and moves one call.
LEMMA FileStep ==
    ASSUME Inv, NEW v \in Verifications, NEW q \in RunState, RunOK(q),
           run' = [run EXCEPT ![v] = q],
           NEW k \in Keys, NEW e \in Entry \cup {None}, FileOK(k, e),
           file' \in {file, [file EXCEPT ![k] = e]}, UNCHANGED <<clock, appraised>>
    PROVE  Inv'
<1>1. TypeOK'
  BY DEF Inv, TypeOK
<1>2. ASSUME NEW w \in Verifications PROVE RunOK(run'[w])
  <2>1. RunOK(run[w])
    BY CacheInvParts DEF Inv
  <2>2. run'[w] = IF w = v THEN q ELSE run[w]
    BY DEF Inv, TypeOK
  <2> QED BY <2>1, <2>2
<1>3. ASSUME NEW j \in Keys PROVE FileOK(j, file'[j])
  <2>1. FileOK(j, file[j])
    BY CacheInvParts DEF Inv
  <2>2. file'[j] = file[j] \/ (j = k /\ file'[j] = e)
    BY DEF Inv, TypeOK
  <2> QED BY <2>1, <2>2
<1>4. CollateralMatchesQuote'
  BY CacheInvParts DEF Inv, CollateralMatchesQuote
<1> QED BY <1>1, <1>2, <1>3, <1>4 DEF Inv, CacheInv, RunOK, FileOK, At

\* Removing a file, even one that another call has just stored, leaves a miss.
LEMMA RemoveInv ==
    ASSUME Inv, NEW v \in Verifications, Remove(v)
    PROVE  Inv'
<1> DEFINE k == CacheKey(run[v].quote)
           q == [run[v] EXCEPT !.pc = "fetch"]
<1>1. run[v] \in RunState /\ RunOK(run[v]) /\ At(v, "remove") /\ run[v].quote \in Quote
  BY CacheInvParts DEF Inv, TypeOK, Remove, RunState, RunOK, At
<1>2. k \in Keys
  BY <1>1 DEF CacheKey, Keys, Quote
<1>3. q \in RunState /\ RunOK(q) /\ run' = [run EXCEPT ![v] = q]
  BY <1>1, GotoOK DEF Remove, Goto, At
<1>4. FileOK(k, None)
  BY DEF FileOK
<1>5. file' \in {file, [file EXCEPT ![k] = None]} /\ UNCHANGED <<clock, appraised>>
  BY DEF Remove
<1> HIDE DEF k, q
<1> QED BY <1>2, <1>3, <1>4, <1>5, FileStep

\* The file that Put commits is complete, belongs to its key and expires in
\* time, whatever it replaces.
LEMMA RenameInv ==
    ASSUME Inv, NEW v \in Verifications, Rename(v)
    PROVE  Inv'
<1> DEFINE k == CacheKey(run[v].quote)
           q == [run[v] EXCEPT !.pc = "verify", !.temp = "none", !.entry = None]
           e == [run[v].entry EXCEPT !.complete = run[v].temp = "written"]
<1>1. /\ run[v] \in RunState /\ RunOK(run[v]) /\ At(v, "put") /\ run[v].quote \in Quote
      /\ run[v].temp = "written"
  BY CacheInvParts DEF Inv, TypeOK, Rename, ReadyToCommit, RunState, RunOK, At
<1>2. k \in Keys /\ k = <<run[v].quote.fmspc, run[v].quote.ca>>
  BY <1>1 DEF CacheKey, Keys, Quote
<1>3. q \in RunState /\ RunOK(q) /\ run' = [run EXCEPT ![v] = q]
  BY <1>1, EndPutOK DEF Rename, EndPut
<1>4. /\ run[v].entry \in Entry
      /\ run[v].entry.collateral = run[v].coll
      /\ Bounded(run[v].entry)
      /\ Fits(run[v].coll, run[v].quote)
  BY <1>1 DEF RunState, RunOK, At
<1>5. /\ e \in Entry
      /\ e.complete = TRUE
      /\ e.collateral = run[v].coll
      /\ e.stored = run[v].entry.stored
      /\ e.expires = run[v].entry.expires
  BY <1>1, <1>4 DEF Entry
<1>6. FileOK(k, e)
  <2> HIDE DEF e
  <2> QED BY <1>2, <1>4, <1>5 DEF FileOK, Bounded, Fits
<1>7. file' \in {file, [file EXCEPT ![k] = e]} /\ UNCHANGED <<clock, appraised>>
  BY DEF Rename
<1> HIDE DEF k, q, e
<1> QED BY <1>2, <1>3, <1>5, <1>6, <1>7, FileStep

\* The native library is given the collateral that fits the quote.
LEMMA VerifyInv ==
    ASSUME Inv, NEW v \in Verifications, VerifyQuote(v)
    PROVE  Inv'
<1>1. run[v] \in RunState /\ RunOK(run[v]) /\ At(v, "verify") /\ clock \in Time
  BY CacheInvParts DEF Inv, TypeOK, VerifyQuote
<1>2. run[v].quote \in Quote /\ run[v].coll \in Collateral /\ Fits(run[v].coll, run[v].quote)
  BY <1>1 DEF RunState, RunOK, At
<1>3. appraised' = [quote |-> run[v].quote,
                    used |-> [fmspc |-> run[v].coll.fmspc, ca |-> run[v].coll.ca]]
  BY DEF VerifyQuote
<1>4. appraised' \in Use
  BY <1>2, <1>3 DEF Use, Quote, Collateral
<1>5. run' = [run EXCEPT ![v] = Idle] /\ UNCHANGED <<file, clock>>
  BY DEF VerifyQuote, Return
<1>6. TypeOK'
  BY <1>4, <1>5, IdleOK DEF Inv, TypeOK
<1>7. CollateralMatchesQuote'
  BY <1>2, <1>3 DEF CollateralMatchesQuote, Fits, Quote
<1>8. ASSUME NEW w \in Verifications PROVE RunOK(run'[w])
  <2>1. RunOK(run[w])
    BY CacheInvParts DEF Inv
  <2>2. run'[w] = IF w = v THEN Idle ELSE run[w]
    BY <1>5 DEF Inv, TypeOK
  <2> QED BY <2>1, <2>2, IdleOK
<1>9. \A k \in Keys : FileOK(k, file'[k])
  BY <1>5, CacheInvParts DEF Inv
<1> QED BY <1>6, <1>7, <1>8, <1>9 DEF Inv, CacheInv, RunOK, FileOK, At

\* Every step keeps the invariant.
LEMMA NextInv == Inv /\ [Next]_vars => Inv'
<1> SUFFICES ASSUME Inv, [Next]_vars PROVE Inv'
  OBVIOUS
<1>1. ASSUME NEW v \in Verifications, Process(v) PROVE Inv'
  <2>1. PICK q \in Quote : run' = [run EXCEPT ![v] = [Idle EXCEPT !.pc = "get", !.quote = q]]
    BY <1>1 DEF Process
  <2> DEFINE s == [Idle EXCEPT !.pc = "get", !.quote = q]
  <2>2. s \in RunState
    BY DEF Idle, RunState
  <2>3. RunOK(s)
    BY NoneAssumption DEF Idle, RunOK
  <2>4. run' = [run EXCEPT ![v] = s] /\ UNCHANGED <<file, clock, appraised>>
    BY <1>1, <2>1 DEF Process
  <2> HIDE DEF s
  <2> QED BY <2>2, <2>3, <2>4, LocalStep
<1>2. ASSUME NEW v \in Verifications, VerifyFails(v) PROVE Inv'
  BY <1>2, IdleOK, LocalStep DEF VerifyFails, Return
<1>3. CASE Tick
  <2>1. clock' \in Time /\ UNCHANGED <<file, run, appraised>>
    BY <1>3, TimeAssumption DEF Tick, Inv, TypeOK, Time
  <2>2. TypeOK'
    BY <2>1 DEF Inv, TypeOK
  <2>3. CacheInv'
    BY <2>1 DEF Inv, CacheInv, CollateralMatchesQuote, At
  <2> QED BY <2>2, <2>3 DEF Inv
<1>4. CASE Crash
  <2>1. run' = [v \in Verifications |-> Idle] /\ UNCHANGED <<file, clock, appraised>>
    BY <1>4 DEF Crash
  <2>2. TypeOK'
    BY <2>1, IdleOK DEF Inv, TypeOK
  <2>3. \A v \in Verifications : RunOK(run'[v])
    BY <2>1, IdleOK
  <2>4. \A k \in Keys : FileOK(k, file'[k])
    BY <2>1, CacheInvParts DEF Inv
  <2>5. CollateralMatchesQuote'
    BY <2>1, CacheInvParts DEF Inv, CollateralMatchesQuote
  <2> QED BY <2>2, <2>3, <2>4, <2>5 DEF Inv, CacheInv, RunOK, FileOK, At
<1>5. CASE UNCHANGED vars
  BY <1>5 DEF vars, Inv, TypeOK, CacheInv, CollateralMatchesQuote, At
<1> QED
  BY <1>1, <1>2, <1>3, <1>4, <1>5, GetInv, FetchInv, CreateTempInv, WriteTempInv,
     RemoveInv, RenameInv, VerifyInv
  DEF Next

\* Inv is an invariant of every behaviour.
LEMMA Invariant == Spec => []Inv
<1>1. Init => Inv
  BY InitInv
<1>2. Inv /\ [Next]_vars => Inv'
  BY NextInv
<1> QED BY <1>1, <1>2, PTL DEF Spec

\* A quote is appraised with collateral for its own platform family and PCK
\* issuer, whichever call of Process put that collateral in the cache.
THEOREM CollateralMatches == Spec => []CollateralMatchesQuote
<1>1. Inv => CollateralMatchesQuote
  BY DEF Inv, CacheInv
<1> QED BY <1>1, Invariant, PTL

\* No crash, failure or overlap of calls leaves a cache file that Get cannot
\* decode: Put commits with one rename.
THEOREM CacheStaysReadable == Spec => []CacheIsReadable
<1>1. Inv => CacheIsReadable
  BY DEF Inv, CacheInv, CacheIsReadable
<1> QED BY <1>1, Invariant, PTL

\* What Get serves is younger than the lifetime of the cache, and every
\* nextUpdate that Put found in it lies ahead, however many documents state one.
\* A nextUpdate that Put does not find, in Nested, is not spoken of.
THEOREM CacheServesCurrent == Spec => CacheServesCurrentCollateral
<1> DEFINE Served(v) ==
        At(v, "get") /\ run'[v].pc = "verify" =>
            LET e == file[CacheKey(run[v].quote)]
            IN  /\ clock < e.stored + TTL
                /\ \A t \in Found(run'[v].coll) : clock < t
<1>1. ASSUME Inv, [Next]_vars, NEW v \in Verifications, At(v, "get"), run'[v].pc = "verify"
      PROVE  LET e == file[CacheKey(run[v].quote)]
             IN  /\ clock < e.stored + TTL
                 /\ \A t \in Found(run'[v].coll) : clock < t
  <2> DEFINE k == CacheKey(run[v].quote)
             e == file[k]
  <2>1. run \in [Verifications -> RunState] /\ run[v].pc = "get" /\ run'[v].pc # run[v].pc
    BY <1>1 DEF Inv, TypeOK, At
  <2>2. Get(v)
    <3>1. ~Tick /\ ~UNCHANGED vars
      BY <2>1 DEF Tick, vars
    <3>2. ~Crash
      BY <1>1 DEF Crash, Idle
    <3>3. PICK w \in Verifications :
            \/ Process(w) \/ Get(w) \/ Remove(w) \/ Fetch(w) \/ CreateTemp(w)
            \/ WriteTemp(w) \/ Rename(w) \/ VerifyQuote(w) \/ VerifyFails(w)
      BY <1>1, <3>1, <3>2 DEF Next
    <3>4. w = v
      <4> SUFFICES ASSUME w # v PROVE run'[v] = run[v]
        BY <2>1
      <4>1. CASE Process(w) \/ Fetch(w)
        BY <2>1, <4>1 DEF Process, Fetch, Return
      <4>2. CASE Get(w) \/ Remove(w)
        BY <2>1, <4>2 DEF Get, Remove, Goto, Return
      <4>3. CASE CreateTemp(w) \/ WriteTemp(w) \/ Rename(w)
        BY <2>1, <4>3 DEF CreateTemp, WriteTemp, Rename, EndPut
      <4>4. CASE VerifyQuote(w) \/ VerifyFails(w)
        BY <2>1, <4>4 DEF VerifyQuote, VerifyFails, Return
      <4> QED BY <3>3, <4>1, <4>2, <4>3, <4>4
    <3> QED
      BY <2>1, <3>3, <3>4
      DEF At, Process, Remove, Fetch, CreateTemp, WriteTemp, Rename, VerifyQuote, VerifyFails
  <2>3. /\ e # None /\ ValidAt(e, clock)
        /\ run' = [run EXCEPT ![v] = [@ EXCEPT !.pc = "verify", !.coll = e.collateral]]
    <3>1. ~Goto(v, "fetch") /\ ~Goto(v, "remove") /\ ~Return(v)
      BY <1>1, <2>1 DEF Goto, Return, Idle, RunState
    <3> QED BY <2>2, <3>1 DEF Get
  <2>4. k \in Keys
    <3>1. run[v].quote \in Quote
      BY <1>1, <2>1, CacheInvParts DEF Inv, RunOK, RunState
    <3> QED BY <3>1 DEF CacheKey, Keys, Quote
  <2>5. e \in Entry /\ Bounded(e)
    BY <1>1, <2>3, <2>4, CacheInvParts DEF Inv, TypeOK, FileOK
  <2>6. run'[v].coll = e.collateral
    BY <2>1, <2>3 DEF RunState
  <2>7. clock \in Nat /\ TTL \in Nat /\ e.stored \in Nat /\ e.expires \in Nat
    BY <1>1, <2>5, TimeAssumption DEF Inv, TypeOK, Time, Entry
  <2>8. clock < e.stored + TTL
    BY <2>3, <2>5, <2>7 DEF ValidAt, Bounded
  <2>9. ASSUME NEW t \in Found(e.collateral) PROVE clock < t
    <3>1. t \in Nat
      BY <2>5, <2>9, NextUpdateAssumption DEF Found, Entry, Collateral
    <3> QED BY <2>3, <2>5, <2>7, <2>9, <3>1 DEF ValidAt, Bounded
  <2> QED BY <2>6, <2>8, <2>9
<1>2. Inv /\ [Next]_vars => \A v \in Verifications : Served(v)
  BY <1>1
<1> QED BY <1>2, Invariant, PTL DEF Spec, CacheServesCurrentCollateral
=============================================================================
