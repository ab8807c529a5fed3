-------------------------------- MODULE Gate --------------------------------
(***************************************************************************)
(* What the client gateway promises about who may act: a request is        *)
(* carried out for an account only if it carries the token issued for that *)
(* account; a token is issued once, for a new account, in the answer to a  *)
(* request that created the account; and what has been issued survives     *)
(* every restart.  Gateway.tla, the model of the handlers, implements this *)
(* specification; Service.tla uses it.                                     *)
(***************************************************************************)
CONSTANTS
  Threads,        \* requests in service
  AccountId, Seed, Hash,
  Claims,         \* what a request may say of itself: an account and what its token
                  \* hashes to, ...
  NewClaim        \* ... or that it wants a new account

VARIABLES
  stage,          \* of each request: "idle", "asked", "admitted" or "done"
  claim,
  code,           \* the HTTP status it is answered
  issued          \* the tokens made so far

vars == <<stage, claim, code, issued>>

Row == [account_id : AccountId \ {Seed}, token_hash : Hash]

Init ==
  /\ stage = [t \in Threads |-> "idle"]
  /\ claim = [t \in Threads |-> NewClaim]
  /\ code = [t \in Threads |-> 0]
  /\ issued = {}

Become(t, s) == stage' = [stage EXCEPT ![t] = s]

Done(t, c) == Become(t, "done") /\ code' = [code EXCEPT ![t] = c] /\ UNCHANGED claim

Arrive(t, c) ==
  /\ stage[t] = "idle"
  /\ Become(t, "asked")
  /\ claim' = [claim EXCEPT ![t] = c]
  /\ UNCHANGED <<code, issued>>

\* A request may always be turned away: it is malformed, its token is missing, wrong
\* or expired, or auth.db3 cannot be read.
TurnAway(t, c) == stage[t] = "asked" /\ Done(t, c) /\ UNCHANGED issued

\* create_account_handler() needs no token, the other handlers one for the account.
Admit(t) ==
  /\ stage[t] = "asked"
  /\ claim[t] = NewClaim \/ claim[t] \in issued
  /\ Become(t, "admitted")
  /\ UNCHANGED <<claim, code, issued>>

Answer(t, c) ==
  /\ stage[t] = "admitted"
  /\ c = 200 => claim[t] \in issued
  /\ Done(t, c)
  /\ UNCHANGED issued

Issue(t, row) ==
  /\ stage[t] = "admitted" /\ claim[t] = NewClaim
  /\ \A old \in issued : old.account_id # row.account_id
  /\ issued' = issued \cup {row}
  /\ Done(t, 200)

\* The answer has been sent.
Forget(t) ==
  /\ stage[t] = "done"
  /\ Become(t, "idle")
  /\ claim' = [claim EXCEPT ![t] = NewClaim]
  /\ code' = [code EXCEPT ![t] = 0]
  /\ UNCHANGED issued

\* The gateway dies and is started again.
Die ==
  /\ stage' = [t \in Threads |-> "idle"]
  /\ claim' = [t \in Threads |-> NewClaim]
  /\ code' = [t \in Threads |-> 0]
  /\ UNCHANGED issued

Serve(t) ==
  \/ \E c \in Claims : Arrive(t, c)
  \/ \E c \in {400, 401, 500} : TurnAway(t, c)
  \/ Admit(t)
  \/ \E c \in {200, 400, 500} : Answer(t, c)
  \/ \E row \in Row : Issue(t, row)
  \/ Forget(t)

Next == Die \/ \E t \in Threads : Serve(t)

Spec == Init /\ [][Next]_vars
=============================================================================
