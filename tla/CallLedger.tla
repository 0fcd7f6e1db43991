------------------------------ MODULE CallLedger ------------------------------
(***************************************************************************)
(* What the host is promised by the control channel, with pages, streams,  *)
(* timers and queues left out: a ledger of calls.  A call is issued once,  *)
(* handed to a page at most once, and settles once: resolved by a page it  *)
(* was handed to, or given up on together with every other open call.      *)
(* Sealing the ledger settles everything that is open, for good.           *)
(***************************************************************************)
EXTENDS Naturals

CONSTANT MaxCalls    \* how many calls a behaviour may issue, a natural number

VARIABLES
  issued,     \* number of calls issued so far
  promise,    \* what each call's promise has come to
  starts,     \* how many times a page began to run each call
  sealed      \* no call is accepted any more

ledger == <<issued, promise, starts, sealed>>

Calls == 1..MaxCalls
PromiseStates == {"none", "pending", "resolved", "gone"}

(* Every open call is given up on; settled ones keep their outcome. *)
GiveUp(p) == [i \in DOMAIN p |-> IF p[i] = "pending" THEN "gone" ELSE p[i]]

LedgerInit ==
  /\ issued = 0
  /\ promise = [i \in Calls |-> "none"]
  /\ starts = [i \in Calls |-> 0]
  /\ sealed = FALSE

Issue ==
  /\ ~sealed
  /\ issued < MaxCalls
  /\ issued' = issued + 1
  /\ promise' = [promise EXCEPT ![issued + 1] = "pending"]
  /\ UNCHANGED <<starts, sealed>>

Start(i) ==
  /\ i <= issued
  /\ starts[i] = 0
  /\ starts' = [starts EXCEPT ![i] = 1]
  /\ UNCHANGED <<issued, promise, sealed>>

Resolve(i) ==
  /\ promise[i] = "pending"
  /\ starts[i] = 1
  /\ promise' = [promise EXCEPT ![i] = "resolved"]
  /\ UNCHANGED <<issued, starts, sealed>>

Abandon ==
  /\ promise' = GiveUp(promise)
  /\ UNCHANGED <<issued, starts, sealed>>

Seal ==
  /\ sealed' = TRUE
  /\ promise' = GiveUp(promise)
  /\ UNCHANGED <<issued, starts>>

LedgerNext ==
  \/ Issue
  \/ \E i \in Calls : Start(i) \/ Resolve(i)
  \/ Abandon
  \/ Seal

LedgerSpec == LedgerInit /\ [][LedgerNext]_ledger
=============================================================================
