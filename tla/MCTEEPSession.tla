--------------------------- MODULE MCTEEPSession ---------------------------
(***************************************************************************)
(* Small instances of TEEPSession for TLC: the messages that arrive, by    *)
(* the question a run asks, and the symmetries of the constants.           *)
(***************************************************************************)
EXTENDS TEEPSession, TLC

\* A message of agent a, signed with its own key and under its own kid.
Plain(type, a, t, comps, reps) ==
    [type |-> type, kid |-> a, signer |-> a, token |-> t, evidence |-> NoEvidence,
     components |-> comps, reports |-> reps]

\* Evidence e, in a QueryResponse signed by s under the kid of a, with token t.
Attested(a, s, t, e) ==
    [type |-> "QueryResponse", kid |-> a, signer |-> s, token |-> t, evidence |-> e,
     components |-> Components, reports |-> {}]

OkReports == {[manifest |-> m, kind |-> "ok"] : m \in Manifests}

\* Answers by token: QueryResponse with something and with nothing to install,
\* Success and Error with reports, and a type the TAM refuses.
TokenMessages ==
    UNION {{Plain("QueryResponse", a, t, Components, {}),
            Plain("QueryResponse", a, t, {}, {}),
            Plain("Success", a, t, {}, OkReports),
            Plain("Error", a, t, {}, OkReports),
            Plain("Other", a, t, {}, {})} : a \in Agents, t \in Tokens}

\* Two answers that race for one token: a QueryResponse that asks for everything,
\* and a Success that reports one component.
RaceMessages ==
    LET c == CHOOSE x \in Components : TRUE
    IN  UNION {{Plain("QueryResponse", a, t, Components, {}),
                Plain("Success", a, t, {}, {rep \in OkReports : rep.manifest.component = c})} :
                    a \in Agents, t \in Tokens}

\* Answers to a challenge: EAT evidence for every key and challenge, in a
\* message signed by the attested key or by another one, with no token or with
\* a left-over one; an SGX bundle without nonce; another format.
EAT(c, k) == [format |-> "eat", nonce |-> c, key |-> k]

AttestationMessages ==
    {Plain("QueryResponse", a, t, Components, {}) : a \in Agents, t \in Tokens}
    \cup {Attested(a, s, None, EAT(c, a)) : a \in Agents, s \in Agents, c \in Challenges}
    \cup {Attested(a, a, t, EAT(c, a)) : a \in Agents, t \in Tokens, c \in Challenges}
    \cup {Attested(a, a, None, [format |-> "sgx", nonce |-> n, key |-> a]) :
            a \in Agents, n \in {None}}
    \cup {Attested(a, a, None, [format |-> "other", nonce |-> None, key |-> None]) : a \in Agents}

\* The answers that can enrol a key, whoever signs them, and answers by token.
EnrolMessages ==
    {Plain("QueryResponse", a, t, Components, {}) : a \in Agents, t \in Tokens}
    \cup {Attested(a, s, None, EAT(c, a)) : a \in Agents, s \in Agents, c \in Challenges}

\* Every kind of message from the agents that are known at first, an
\* attestation from the others.
SessionMessages ==
    {m \in TokenMessages \cup AttestationMessages :
        \/ m.kid \in Seeded /\ m.signer = m.kid
        \/ m.kid = m.signer /\ m.evidence.format = "eat" /\ m.token = None}

Symmetry == Permutations(Requests) \cup Permutations(Tokens) \cup Permutations(Challenges)

\* For instances in which every agent is genuine and none is known at first.
AgentSymmetry == Symmetry \cup Permutations(Agents)
=============================================================================
