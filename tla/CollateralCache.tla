-------------------------- MODULE CollateralCache --------------------------
(***************************************************************************)
(* The Intel QVL backend of the Verifier: IntelQVLVerifier.Process and the *)
(* collateral cache on disk (internal/infra/rats/intel_qvl_*.go).          *)
(*                                                                         *)
(* Every attestation with an SGX quote runs Process in the goroutine of    *)
(* its request.  The goroutines share the cache directory and no lock: one *)
(* may find an entry expired, remove or replace it while another reads it. *)
(* A step is one file operation, one retrieval from the Intel PCS or one   *)
(* call of the native library.  Time is discrete; the clock moves between  *)
(* any two steps.  Temporary files that a crash leaves behind are never    *)
(* read again and are not part of the state.                               *)
(***************************************************************************)
EXTENDS Naturals, FiniteSetsExt

CONSTANTS
    Verifications,  \* calls of Process that may be running at the same time
    FMSPCs,         \* platform families
    CAs,            \* issuers of the PCK certificate: processor, platform
    Docs,           \* the documents of a collateral that may state a nextUpdate
    Nested,         \* those that state it inside an inner object, as PCS does
                    \* in TCB info and QE identity
    NextUpdates,    \* values of nextUpdate, None where the document has none
    TTL,            \* intelQVLCollateralCacheTTL
    MaxTime,        \* bound on the clock
    None            \* absent

Time == 0 .. MaxTime

ASSUME TimeAssumption == TTL \in Nat /\ MaxTime \in Nat
ASSUME NextUpdateAssumption == NextUpdates \subseteq Nat \cup {None} /\ None \notin Nat

\* What the cache and the PCS client read from the quote.
Quote == [fmspc : FMSPCs, ca : CAs]

\* intelQVLQuoteCollateral: TCB info is for a platform family, the PCK CRL for
\* an issuer; next holds the nextUpdate that each document states.
Collateral == [fmspc : FMSPCs, ca : CAs, next : [Docs -> NextUpdates]]

\* A cache file.  stored is history: the time at which Put began; complete is
\* FALSE for a file that cannot be decoded.
Entry == [collateral : Collateral, expires : Nat, stored : Time, complete : BOOLEAN]

ASSUME NestedAssumption == Nested \subseteq Docs

ASSUME NoneAssumption == None \notin Quote \cup Collateral \cup Entry

Keys == FMSPCs \X CAs

VARIABLES
    file,           \* the cache directory: an Entry or None for each key
    run,            \* the local state of each call of Process
    clock,
    appraised       \* history: the latest appraisal, None at first

vars == <<file, run, clock, appraised>>

\* temp is the temporary file of Put: none, created and empty, or written.
RunState == [pc    : {"idle", "get", "remove", "fetch", "put", "verify"},
             quote : Quote \cup {None},
             coll  : Collateral \cup {None},
             entry : Entry \cup {None},
             temp  : {"none", "empty", "written"}]

Idle == [pc |-> "idle", quote |-> None, coll |-> None, entry |-> None, temp |-> "none"]

\* The quote and the platform that the collateral it was appraised with was for.
Use == [quote : Quote, used : Quote]

TypeOK ==
    /\ file \in [Keys -> Entry \cup {None}]
    /\ run \in [Verifications -> RunState]
    /\ clock \in Time
    /\ appraised \in Use \cup {None}

Init ==
    /\ file = [k \in Keys |-> None]
    /\ run = [v \in Verifications |-> Idle]
    /\ clock = 0
    /\ appraised = None

-----------------------------------------------------------------------------
(***************************************************************************)
(* Pure functions.  A fault is what a plausible mistake would make of the  *)
(* definition that follows it.                                             *)
(***************************************************************************)

\* Fault: the key leaves out the issuer of the PCK certificate.
CacheKeyOfFamily(q) == <<q.fmspc, CHOOSE ca \in CAs : TRUE>>

\* intelQVLCollateralCacheKey
CacheKey(q) == <<q.fmspc, q.ca>>

\* Every nextUpdate that a document of the collateral states.
Stated(c) == {c.next[d] : d \in {x \in Docs : c.next[x] # None}}

\* intelQVLQuoteCollateralNextUpdate, before the nearest one is chosen: the
\* parser of CRLs finds what they state, intelQVLParseJSONNextUpdate looks at the
\* top level of the document only.
Found(c) == {c.next[d] : d \in {x \in Docs \ Nested : c.next[x] # None}}

\* Fault: nextUpdate.After(nearest) keeps the farthest one.
ExpiryAtFarthest(c, now) ==
    Min({now + TTL} \cup {t \in Found(c) : \A u \in Found(c) : u <= t})

\* intelQVLQuoteCollateralExpiry: the fixed lifetime or the nearest nextUpdate
\* that was found.
Expiry(c, now) == Min({now + TTL} \cup Found(c))

\* intelQVLCollateralCacheEntry.ValidAt
ValidAt(e, now) == now < e.expires

\* The native library compares the time it is given with the collateral.
Outdated(c, now) == \E t \in Stated(c) : t < now

\* classifyIntelQVLResult and isIntelQVLResultAffirmingValue, for what the library
\* may say of a quote.
Results == {"ok", "warning", "bad"}

IsAffirming(result, outdated) == ~outdated /\ result \in {"ok", "warning"}

\* Fault: the file is renamed before it is written.
CreatedForCommit(v) == run[v].temp # "none"

\* Put renames the temporary file once it is written and closed.
ReadyToCommit(v) == run[v].temp = "written"

-----------------------------------------------------------------------------
At(v, label) == run[v].pc = label

Goto(v, label) == run' = [run EXCEPT ![v].pc = label]

\* Process returns a result or an error.
Return(v) == run' = [run EXCEPT ![v] = Idle]

\* Put has ended: the deferred os.Remove takes the temporary file away, an
\* error is only logged, and the collateral is used whether it was stored or
\* not.
EndPut(v) == run' = [run EXCEPT ![v] = [@ EXCEPT !.pc = "verify", !.temp = "none", !.entry = None]]

\* Process is called with a quote.
Process(v) ==
    /\ At(v, "idle")
    /\ \E q \in Quote : run' = [run EXCEPT ![v] = [Idle EXCEPT !.pc = "get", !.quote = q]]
    /\ UNCHANGED <<file, clock, appraised>>

\* Get: a missing entry is a miss, an expired one is a miss once it is removed,
\* one that cannot be decoded or read is an error.
Get(v) ==
    LET e == file[CacheKey(run[v].quote)]
    IN  /\ At(v, "get")
        /\ \/ e = None /\ Goto(v, "fetch")
           \/ e # None /\ e.complete /\ ~ValidAt(e, clock) /\ Goto(v, "remove")
           \/ /\ e # None /\ e.complete /\ ValidAt(e, clock)
              /\ run' = [run EXCEPT ![v] = [@ EXCEPT !.pc = "verify", !.coll = e.collateral]]
           \/ Return(v)
        /\ UNCHANGED <<file, clock, appraised>>

\* Get, os.Remove(path): whatever the path names by now, errors are ignored.
Remove(v) ==
    LET k == CacheKey(run[v].quote)
    IN  /\ At(v, "remove")
        /\ file' \in {file, [file EXCEPT ![k] = None]}
        /\ Goto(v, "fetch")
        /\ UNCHANGED <<clock, appraised>>

\* intelQVLPCSClient.Fetch: four documents for the quote, or an error.
Fetch(v) ==
    /\ At(v, "fetch")
    /\ \/ \E n \in [Docs -> NextUpdates] :
            run' = [run EXCEPT ![v] = [@ EXCEPT
                !.pc = "put",
                !.coll = [fmspc |-> run[v].quote.fmspc, ca |-> run[v].quote.ca, next |-> n]]]
       \/ Return(v)
    /\ UNCHANGED <<file, clock, appraised>>

\* Put: the entry with its expiry, and the temporary file.
CreateTemp(v) ==
    LET c == run[v].coll
    IN  /\ At(v, "put")
        /\ run[v].temp = "none"
        /\ \/ run' = [run EXCEPT ![v] = [@ EXCEPT
                !.temp = "empty",
                !.entry = [collateral |-> c, expires |-> Expiry(c, clock),
                           stored |-> clock, complete |-> TRUE]]]
           \/ EndPut(v)
        /\ UNCHANGED <<file, clock, appraised>>

WriteTemp(v) ==
    /\ At(v, "put")
    /\ run[v].temp = "empty"
    /\ \/ run' = [run EXCEPT ![v].temp = "written"]
       \/ EndPut(v)
    /\ UNCHANGED <<file, clock, appraised>>

\* Put, os.Rename: the file appears under its key at once.
Rename(v) ==
    LET k == CacheKey(run[v].quote)
    IN  /\ At(v, "put")
        /\ ReadyToCommit(v)
        /\ file' \in {file, [file EXCEPT ![k] =
                [run[v].entry EXCEPT !.complete = run[v].temp = "written"]]}
        /\ EndPut(v)
        /\ UNCHANGED <<clock, appraised>>

\* The native library appraises the quote with the collateral at hand; what comes
\* of it (IsAffirming) goes to the caller of Process.
VerifyQuote(v) ==
    LET c == run[v].coll
    IN  /\ At(v, "verify")
        /\ appraised' = [quote |-> run[v].quote, used |-> [fmspc |-> c.fmspc, ca |-> c.ca]]
        /\ Return(v)
        /\ UNCHANGED <<file, clock>>

\* The native library returns an error.
VerifyFails(v) ==
    /\ At(v, "verify")
    /\ Return(v)
    /\ UNCHANGED <<file, clock, appraised>>

Tick ==
    /\ clock < MaxTime
    /\ clock' = clock + 1
    /\ UNCHANGED <<file, run, appraised>>

\* The process dies; the directory stays.
Crash ==
    /\ \E v \in Verifications : ~At(v, "idle")
    /\ run' = [v \in Verifications |-> Idle]
    /\ UNCHANGED <<file, clock, appraised>>

Next ==
    \/ \E v \in Verifications :
        \/ Process(v)
        \/ Get(v)
        \/ Remove(v)
        \/ Fetch(v)
        \/ CreateTemp(v)
        \/ WriteTemp(v)
        \/ Rename(v)
        \/ VerifyQuote(v)
        \/ VerifyFails(v)
    \/ Tick
    \/ Crash

Spec == Init /\ [][Next]_vars

-----------------------------------------------------------------------------
(***************************************************************************)
(* Properties.                                                             *)
(***************************************************************************)

\* A quote is appraised with the collateral of its own platform family and PCK
\* issuer, also when that collateral was stored by another call for another
\* quote (intelQVLCollateralCacheKey).
CollateralMatchesQuote ==
    appraised # None => appraised.used = appraised.quote

\* No file of the cache is ever half written, whatever crashes or fails and
\* however calls of Put overlap: Get never stops every later verification of a
\* platform with a file it cannot decode.
CacheIsReadable == \A k \in Keys : file[k] # None => file[k].complete

\* What Get takes from the cache was stored within the lifetime of the cache,
\* and no nextUpdate that Put found in it has been reached, although the entry
\* may replace another, be replaced, or be read long after it was put together.
CacheServesCurrentCollateral ==
    [][\A v \in Verifications :
        At(v, "get") /\ run'[v].pc = "verify" =>
            LET e == file[CacheKey(run[v].quote)]
            IN  /\ clock < e.stored + TTL
                /\ \A t \in Found(run'[v].coll) : clock < t]_vars

\* What doc/SGX_QUOTE_VERIFICATION.md says: an entry expires at the earlier of
\* the fixed lifetime and the nearest nextUpdate carried by the collateral.
ExpiryIsNearestNextUpdate ==
    \A k \in Keys : file[k] # None =>
        file[k].expires = Min({file[k].stored + TTL} \cup Stated(file[k].collateral))

-----------------------------------------------------------------------------
(***************************************************************************)
(* What makes the properties inductive: a file, an entry on its way to     *)
(* disk and the collateral in use belong to their key, and an entry        *)
(* expires no later than its lifetime and what was found in it allow.      *)
(***************************************************************************)
Fits(c, q) == c.fmspc = q.fmspc /\ c.ca = q.ca

Bounded(e) ==
    /\ e.expires <= e.stored + TTL
    /\ \A t \in Found(e.collateral) : e.expires <= t

CacheInv ==
    /\ \A k \in Keys : file[k] # None =>
        /\ file[k].complete
        /\ Bounded(file[k])
        /\ k = <<file[k].collateral.fmspc, file[k].collateral.ca>>
    /\ \A v \in Verifications :
        /\ ~At(v, "idle") => run[v].quote # None
        /\ run[v].pc \in {"put", "verify"} =>
            run[v].coll # None /\ Fits(run[v].coll, run[v].quote)
        /\ run[v].temp # "none" =>
            /\ At(v, "put")
            /\ run[v].entry # None
            /\ run[v].entry.collateral = run[v].coll
            /\ Bounded(run[v].entry)
    /\ CollateralMatchesQuote
=============================================================================
