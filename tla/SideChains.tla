----------------------------- MODULE SideChains -----------------------------
(***************************************************************************)
(* The call chains that services start on the transaction context of the   *)
(* chain that called them (src/type/service.ts):                           *)
(*   - the children of a deep insert, started together and awaited with    *)
(*     Promise.all, which rejects with the first that fails and leaves the *)
(*     others running (_deepInsert);                                       *)
(*   - event hooks (afterCreate, ...), started and not awaited             *)
(*     (executeHooks).                                                     *)
(* Such a chain asks for the context's runner and works on it whenever it  *)
(* runs.  A context belongs to a request (RequestHandler) or to an atom    *)
(* group (Batch), which say when chains start and who waits for them.      *)
(* Children that insert children of their own are left out.                *)
(***************************************************************************)
EXTENDS Transaction

CONSTANTS
  Child,        \* the chains that insert the children of a deep insert
  Event,        \* the chains of event hooks
  ContextOf,    \* the context each of them works on
  ChildErrors   \* TRUE: a child may be refused (validation, a hook)

Side == Child \cup Event

ASSUME ChainAssumption ==
  /\ Task = Ctx \cup Side
  /\ Ctx \cap Side = {} /\ Child \cap Event = {}
  /\ ContextOf \in [Side -> Ctx]
ASSUME ChildErrorsAssumption == ChildErrors \in BOOLEAN

VARIABLE side   \* where each side chain is

SideTypeOK == side \in [Side -> {"unborn", "running", "done", "failed"}]

SideInit == side = [s \in Side |-> "unborn"]

SidesOf(c) == {s \in Side : ContextOf[s] = c}
ChildrenOf(c) == {s \in Child : ContextOf[s] = c}

StartChains(chains) ==
  side' = [s \in Side |-> IF s \in chains THEN "running" ELSE side[s]]

ChainWorks(s) ==
  /\ side[s] = "running" /\ pc[s] = "idle"
  /\ \/ Get(s, ContextOf[s])
     \/ Write(s)
     \/ WriteThrows(s)
  /\ UNCHANGED side

\* A hook ends the transaction it finds itself in, as getOrCreateTransaction
\* asks its callers to; another hook may do so too.
ChainEnds(s) ==
  /\ s \in Event /\ side[s] = "running" /\ pc[s] = "idle" /\ qr[s] # None
  /\ \E fate \in Over : End(s, ContextOf[s], fate)
  /\ UNCHANGED side

ChainReturns(s) ==
  /\ side[s] = "running" /\ pc[s] = "idle" /\ qr[s] # None
  /\ side' = [side EXCEPT ![s] = "done"]
  /\ UNCHANGED vars

\* A call on the store or a statement threw, or the child is refused.
ChainFails(s) ==
  /\ side[s] = "running"
  /\ pc[s] = "threw" \/ (ChildErrors /\ s \in Child /\ pc[s] = "idle")
  /\ side' = [side EXCEPT ![s] = "failed"]
  /\ UNCHANGED vars
=============================================================================
