---------------------------- MODULE NonceLedger ----------------------------
(***************************************************************************)
(* What the TAM promises about the random values it puts into its          *)
(* messages (tokens in QueryRequest and Update, challenges in an           *)
(* attestation QueryRequest), whatever the requests in flight do:          *)
(*   - a value is issued at most once;                                     *)
(*   - an issued value is spent at most once, and stays spent;             *)
(*   - at most one incoming message is ever accepted as the answer to the  *)
(*     message that carried the value, and only after it has been spent.   *)
(* TEEPSession implements this specification.                              *)
(***************************************************************************)
EXTENDS Naturals

CONSTANT Values            \* every token and every challenge

VARIABLES state,           \* Values -> "unissued", "outstanding" or "spent"
          answers          \* Values -> number of incoming messages accepted for it

ledger == <<state, answers>>

LedgerTypeOK ==
    /\ state \in [Values -> {"unissued", "outstanding", "spent"}]
    /\ answers \in [Values -> Nat]

LedgerInit ==
    /\ state = [v \in Values |-> "unissued"]
    /\ answers = [v \in Values |-> 0]

Issue(v) ==
    /\ state[v] = "unissued"
    /\ state' = [state EXCEPT ![v] = "outstanding"]
    /\ UNCHANGED answers

Spend(v) ==
    /\ state[v] = "outstanding"
    /\ state' = [state EXCEPT ![v] = "spent"]
    /\ UNCHANGED answers

Accept(v) ==
    /\ state[v] = "spent"
    /\ answers[v] = 0
    /\ answers' = [answers EXCEPT ![v] = 1]
    /\ UNCHANGED state

LedgerNext == \E v \in Values : Issue(v) \/ Spend(v) \/ Accept(v)

LedgerSpec == LedgerInit /\ [][LedgerNext]_ledger
=============================================================================
