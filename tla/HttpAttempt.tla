----------------------------- MODULE HttpAttempt -----------------------------
(***************************************************************************)
(* The HTTP proxy of one service: every request earns retry budget, picks  *)
(* a backend, and moves on to another one when the connection fails or,    *)
(* within the budget, when an idempotent request is answered 502/503/504.  *)
(* Requests run concurrently on one balancer and one budget, and a client  *)
(* may go away at any time.                                                *)
(***************************************************************************)
EXTENDS Balancer

CONSTANTS
    RetryCost,     \* requests that earn one retry (1 / RETRY_BUDGET_RATIO)
    BudgetMax,     \* RETRY_BUDGET_MAX, in units of RETRY_BUDGET_RATIO
    MaxRequests    \* bound: requests

ASSUME HttpAttemptAssumption ==
    /\ RetryCost \in Nat \ {0} /\ BudgetMax \in Nat /\ MaxRequests \in Nat

VARIABLES
    tokens,        \* the retry budget, in units of RETRY_BUDGET_RATIO
    req,           \* the state of each request
    requests,      \* requests handled so far
    retries        \* retries spent from the budget so far

http == <<current, active, outlier, slots, tokens, req, requests, retries>>

(* node: the backend in use; fallback: the one whose 5xx answer is kept;   *)
(* reached: the backends that may have acted on the request.               *)
NoRequest == [pc |-> "gone", idempotent |-> FALSE, replayable |-> FALSE,
              cand |-> NoBackends, tried |-> {}, node |-> 0, fallback |-> 0,
              reached |-> {}, answered |-> FALSE]

Request == [pc : {"gone", "prepare", "pick", "sent", "retry", "failed",
                  "error", "response", "body", "refused"},
            idempotent : BOOLEAN, replayable : BOOLEAN,
            cand : Instances, tried : SUBSET Node,
            node : Node \cup {0}, fallback : Node \cup {0},
            reached : SUBSET Node, answered : BOOLEAN]

HttpTypeOK ==
    /\ BalancerTypeOK
    /\ tokens \in 0 .. BudgetMax
    /\ requests \in 0 .. MaxRequests /\ retries \in Nat
    /\ req \in [Client -> Request]

HttpInit ==
    /\ BalancerInit
    /\ tokens = BudgetMax
    /\ req = [r \in Client |-> NoRequest]
    /\ requests = 0 /\ retries = 0

At(r, where) == req[r].pc = where

Held(r) == {s \in slots : s.client = r}

HeldOn(r, n) == {s \in Held(r) : s.node = n}

(* Slot guards dropped together.                                           *)
DropSlots(S) ==
    /\ slots' = slots \ S
    /\ active' = [n \in Node |-> active[n] - Cardinality({s \in S : s.node = n})]
    /\ UNCHANGED <<current, outlier>>

-----------------------------------------------------------------------------
Deposit == Min({tokens + 1, BudgetMax})

(* handle: the budget is credited, then the body is awaited.               *)
Handle(r) ==
    /\ At(r, "gone") /\ requests < MaxRequests
    /\ requests' = requests + 1
    /\ tokens' = Deposit
    /\ \E idempotent, replayable \in BOOLEAN :
          req' = [req EXCEPT ![r] = [NoRequest EXCEPT !.pc = "prepare",
                     !.idempotent = idempotent, !.replayable = replayable]]
    /\ UNCHANGED <<balancer, retries>>

(* attempt, up to its loop: the instances the config has by then, the      *)
(* subset of them the request's route selects, and prefer_healthy within   *)
(* it.  With no candidate the request fails.                               *)
StartAttempt(r) ==
    /\ At(r, "prepare")
    /\ \E all \in Instances :
        /\ RetainNodes(DOMAIN all)
        /\ \E subset \in SUBSET Node : \E backends \in Preferred(DOMAIN all \cap subset) :
              req' = [req EXCEPT ![r] =
                        [@ EXCEPT !.pc = IF backends = {} THEN "error" ELSE "pick",
                                  !.cand = [n \in backends |-> all[n]]]]
    /\ UNCHANGED <<tokens, requests, retries>>

(* A buffered body can be sent again; a streamed one goes out once.        *)
HasBody(r) == req[r].replayable \/ req[r].tried = {}

(* A backend is picked and the request goes out, unless its body is spent. *)
PickBackend(r) ==
    /\ At(r, "pick")
    /\ Cardinality(req[r].tried) < Attempts(req[r].cand)
    /\ \E n \in Node :
        /\ Choose(r, req[r].cand, req[r].tried, n)
        /\ req' = [req EXCEPT ![r] =
                     [@ EXCEPT !.pc = IF HasBody(r) THEN "sent" ELSE "error",
                               !.node = n, !.tried = req[r].tried \cup {n}]]
    /\ UNCHANGED <<tokens, requests, retries>>

(* Attempts used up, or every untried backend at its limit.                *)
NoBackendLeft(r) ==
    /\ At(r, "pick")
    /\ \/ Cardinality(req[r].tried) >= Attempts(req[r].cand)
       \/ Open(req[r].cand, req[r].tried) = {}
    /\ req' = [req EXCEPT ![r] = [@ EXCEPT !.pc = "error", !.node = 0]]
    /\ UNCHANGED <<balancer, tokens, requests, retries>>

(* Mutant: any method is retried.                                          *)
RetryAnyMethod(r, bad) ==
    /\ bad /\ req[r].replayable
    /\ Cardinality(req[r].tried) < Attempts(req[r].cand)

(* A response is retried if its status is 502, 503 or 504 (`bad`), ...     *)
WorthRetrying(r, bad) ==
    /\ bad /\ req[r].idempotent /\ req[r].replayable
    /\ Cardinality(req[r].tried) < Attempts(req[r].cand)

Respond(r) ==
    /\ At(r, "sent")
    /\ RecordSuccess(req[r].node)
    /\ \E bad \in BOOLEAN :
        req' = [req EXCEPT ![r] =
                  [@ EXCEPT !.pc = IF WorthRetrying(r, bad) THEN "retry" ELSE "response",
                            !.reached = req[r].reached \cup {req[r].node}, !.answered = TRUE]]
    /\ UNCHANGED <<tokens, requests, retries>>

(* Mutant: any token left allows a retry.                                  *)
AnyTokenLeft == tokens > 0

CanWithdraw == tokens >= RetryCost

(* try_withdraw.  The answer is kept as the fallback, in place of (and     *)
(* dropping) an earlier one.                                               *)
Withdraw(r) ==
    /\ At(r, "retry")
    /\ IF CanWithdraw
       THEN /\ tokens' = tokens - RetryCost /\ retries' = retries + 1
            /\ DropSlots(HeldOn(r, req[r].fallback))
            /\ req' = [req EXCEPT ![r] = [@ EXCEPT !.pc = "pick", !.node = 0,
                                                   !.fallback = req[r].node]]
       ELSE /\ req' = [req EXCEPT ![r].pc = "response"]
            /\ UNCHANGED <<balancer, tokens, retries>>
    /\ UNCHANGED <<requests>>

(* No connection: the request was not sent.                                *)
ConnectFails(r) ==
    /\ At(r, "sent")
    /\ RecordFailure(req[r].node)
    /\ req' = [req EXCEPT ![r].pc = "failed"]
    /\ UNCHANGED <<tokens, requests, retries>>

NextAttempt(r) ==
    /\ At(r, "failed")
    /\ DropSlots(HeldOn(r, req[r].node))
    /\ req' = [req EXCEPT ![r] =
                 [@ EXCEPT !.pc = IF req[r].replayable THEN "pick" ELSE "error", !.node = 0]]
    /\ UNCHANGED <<tokens, requests, retries>>

(* requestTimeoutMs runs out, or the connection breaks later: the backend  *)
(* may have acted on the request.                                          *)
SentFails(r) ==
    /\ At(r, "sent")
    /\ req' = [req EXCEPT ![r] = [@ EXCEPT !.pc = "error",
                                           !.reached = req[r].reached \cup {req[r].node}]]
    /\ UNCHANGED <<balancer, tokens, requests, retries>>

(* Mutant: the fallback is forgotten.                                      *)
KeptResponse(r) == IF At(r, "response") THEN req[r].node ELSE 0

(* The loop ended.  An answer kept as the fallback beats an error.         *)
Kept(r) == IF At(r, "response") THEN req[r].node ELSE req[r].fallback

(* Mutant: the slot of a fallback that was not needed is kept.             *)
SpareCurrent(r) == HeldOn(r, req[r].node) \ HeldOn(r, Kept(r))

Spare(r) == Held(r) \ HeldOn(r, Kept(r))

Conclude(r) ==
    /\ req[r].pc \in {"error", "response"}
    /\ DropSlots(Spare(r))
    /\ req' = [req EXCEPT ![r] =
                 [@ EXCEPT !.pc = IF Kept(r) = 0 THEN "refused" ELSE "body",
                           !.node = Kept(r), !.fallback = 0]]
    /\ UNCHANGED <<tokens, requests, retries>>

(* The response body (or the upgraded stream) ends, or the client goes     *)
(* away (also while its body is read): hyper drops the request's future or *)
(* response with all it holds.                                             *)
Leave(r) ==
    /\ ~At(r, "gone")
    /\ DropSlots(Held(r))
    /\ req' = [req EXCEPT ![r] = NoRequest]
    /\ UNCHANGED <<tokens, requests, retries>>

Advance(r) == \/ Handle(r) \/ StartAttempt(r) \/ PickBackend(r) \/ NoBackendLeft(r)
              \/ Respond(r) \/ Withdraw(r) \/ ConnectFails(r) \/ NextAttempt(r)
              \/ SentFails(r) \/ Conclude(r) \/ Leave(r)

HttpNext == \/ \E r \in Client : Advance(r)
            \/ Tick /\ UNCHANGED <<tokens, req, requests, retries>>

HttpSpec == HttpInit /\ [][HttpNext]_http

-----------------------------------------------------------------------------
(* A request that is not idempotent, or whose body cannot be sent again,   *)
(* reaches at most one backend, however its attempts fail.                 *)
ActedOnOnce ==
    \A r \in Client :
        ~(req[r].idempotent /\ req[r].replayable) => Cardinality(req[r].reached) <= 1

(* A real backend answer beats a proxy-generated error: a request that     *)
(* some backend answered is never refused by the proxy itself.             *)
AnswerBeatsError == \A r \in Client : At(r, "refused") => ~req[r].answered

(* Retries on a status stay within the budget: one per RetryCost requests, *)
(* plus the burst the budget starts with, over all requests together.      *)
RetriesWithinBudget == RetryCost * retries <= BudgetMax + requests

(* A request holds at most the slot of its current backend and that of its *)
(* fallback, and none once it is over.                                     *)
TwoSlotsAtMost ==
    \A r \in Client :
        {s.node : s \in Held(r)} \subseteq {req[r].node, req[r].fallback}
=============================================================================
