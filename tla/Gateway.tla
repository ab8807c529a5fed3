------------------------------ MODULE Gateway -------------------------------
(***************************************************************************)
(* The client gateway: the HTTP handlers of client_gateway.rs and the      *)
(* access tokens of auth.rs.                                               *)
(*                                                                         *)
(* Every request has a thread of the server and, while it works on tokens, *)
(* a connection of its own to auth.db3.  That file is not in WAL mode: a   *)
(* SELECT holds a shared lock while bcrypt compares, create_token() holds  *)
(* an exclusive lock while bcrypt hashes, and each waits for the other at  *)
(* most for rusqlite's busy timeout.                                       *)
(*                                                                         *)
(* The core appears as the accounts it has and as calls that may be        *)
(* executed or not, answered or not, as in Rpc.tla.  What it answers about *)
(* transactions is not modelled here.                                      *)
(***************************************************************************)
EXTENDS Naturals

CONSTANTS
  Threads,        \* threads of the HTTP server
  AccountId, Seed,
  Token,          \* what Token::new() may draw
  Hash, Digest,   \* bcrypt: Digest[k] is what hash() keeps of token k
  Lifetime,       \* 30 days
  Requests,       \* the HTTP requests that clients send
  MaxTime,        \* bound on the clock
  NoAccount, NoToken,
  Garbled         \* an account id or a token that does not parse

VARIABLES
  accounts,       \* the accounts the core has
  auth,           \* the auth table, as committed: a set of rows
  now,            \* the day
  up,             \* whether the gateway runs
  held,           \* the lock each thread's connection holds on auth.db3
  pc, request,    \* of each thread: its program counter and what it serves
  arrived,        \* the day the request arrived
  created,        \* the locals of create_account_handler() and create_token()
  response

locals == <<request, arrived, created, response>>
vars   == <<accounts, auth, now, up, held, pc, locals>>

AccountRequests == {"get_account", "get_transactions", "get_transaction", "create_transaction"}

HttpRequest ==
  [type : AccountRequests \cup {"create_account"},
   header : {"Authorization", "Authentication"},     \* where the client puts its token
   token : Token \cup {NoToken, Garbled},
   account_id : AccountId \cup {NoAccount, Garbled},
   arguments : {"given", "omitted", "garbled"}]      \* the body, dates or transaction id

ASSUME GatewayAssumption ==
  /\ Seed \in AccountId /\ {NoAccount, Garbled} \cap AccountId = {}
  /\ {NoToken, Garbled} \cap Token = {} /\ NoToken # Garbled
  /\ Digest \in [Token -> Hash]
  /\ Lifetime \in Nat /\ MaxTime \in Nat
  /\ Requests \subseteq HttpRequest

AuthRow == [token_hash : Hash, account_id : AccountId, expiry : Nat]

Creation(a, k, expiry) == [account_id |-> a, token |-> k, expiry |-> expiry]
NoCreation == Creation(NoAccount, NoToken, 0)
NoRequest  == [type |-> "none"]

Codes  == {200, 400, 401, 500}
Labels == {"idle", "parse", "create", "created", "begin", "hash", "commit",
           "select", "verify", "arguments", "call", "respond"}

Init ==
  /\ accounts = {Seed}
  /\ auth = {}
  /\ now = 0
  /\ up = FALSE
  /\ held = [t \in Threads |-> "none"]
  /\ pc = [t \in Threads |-> "idle"]
  /\ request = [t \in Threads |-> NoRequest]
  /\ arrived = [t \in Threads |-> 0]
  /\ created = [t \in Threads |-> NoCreation]
  /\ response = [t \in Threads |-> 0]

Goto(t, label)    == pc' = [pc EXCEPT ![t] = label]
Release(t)        == held' = [held EXCEPT ![t] = "none"]
Respond(t, code)  == /\ Goto(t, "respond")
                     /\ response' = [response EXCEPT ![t] = code]
                     /\ UNCHANGED <<now, up, request, arrived>>

\* bearer_token(): the header is called Authorization.
BearerToken(r) == IF r.header = "Authorization" THEN r.token ELSE NoToken

-----------------------------------------------------------------------------
\* main(): the table is kept if it exists.
Start ==
  /\ ~up
  /\ up' = TRUE
  /\ UNCHANGED <<accounts, auth, now, held, pc, locals>>

Arrive(t) ==
  /\ up /\ pc[t] = "idle"
  /\ \E r \in Requests : request' = [request EXCEPT ![t] = r]
  /\ arrived' = [arrived EXCEPT ![t] = now]
  /\ Goto(t, "parse")
  /\ UNCHANGED <<accounts, auth, now, up, held, created, response>>

\* Dates and ids that parse; a parameter that is left out does not.
ArgumentsParse(r) == r.arguments = "given"

\* What is refused before anything is looked up, with status 400.
BadRequest(r) ==
  \/ r.type = "create_account" /\ BearerToken(r) # NoToken
  \/ r.type # "create_account" /\ r.account_id = Garbled
  \/ r.type = "get_transaction" /\ ~ArgumentsParse(r)

Parse(t) ==
  LET r == request[t]
  IN /\ pc[t] = "parse"
     /\ \/ BadRequest(r) /\ Respond(t, 400)
        \/ /\ ~BadRequest(r) /\ r.type # "create_account"
           /\ BearerToken(r) = NoToken
           /\ Respond(t, 401)
        \/ /\ ~BadRequest(r)
           /\ \/ r.type = "create_account" /\ Goto(t, "create")
              \/ r.type # "create_account" /\ BearerToken(r) # NoToken /\ Goto(t, "select")
           /\ UNCHANGED <<now, up, request, arrived, response>>
     /\ UNCHANGED <<accounts, auth, held, created>>

-----------------------------------------------------------------------------
\* create_account_handler()

\* A mutant: the core's account table has no primary key.
NewAccountDuplicate == AccountId \ {Seed}

\* The core makes random ids and refuses the ones it has.
NewAccount == AccountId \ accounts

\* The core executes CreateNewAccount.
CreateAccount(t) ==
  /\ pc[t] = "create"
  /\ \E a \in NewAccount :
       /\ accounts' = accounts \cup {a}
       /\ created' = [created EXCEPT ![t] = Creation(a, NoToken, 0)]
  /\ Goto(t, "created")
  /\ UNCHANGED <<auth, now, up, held, request, arrived, response>>

\* A mutant: a token is made whether or not the core has answered.
CoreAnswersOrNot(t) ==
  /\ \/ pc[t] \in {"create", "created"} /\ Goto(t, "begin")
        /\ UNCHANGED <<now, up, request, arrived, response>>
     \/ pc[t] \in {"create", "created"} /\ Respond(t, 500)
  /\ UNCHANGED <<accounts, auth, held, created>>

\* Its response arrives, or it does not: it is too late, lost or an error.
CoreAnswers(t) ==
  /\ \/ pc[t] = "created" /\ Goto(t, "begin") /\ UNCHANGED <<now, up, request, arrived, response>>
     \/ pc[t] \in {"create", "created"} /\ Respond(t, 500)
  /\ UNCHANGED <<accounts, auth, held, created>>

\* What thread t may not share the file with.
Blocked(t, lock) ==
  \E u \in Threads \ {t} :
    held[u] = "exclusive" \/ (lock = "exclusive" /\ held[u] = "shared")

Lock(t, lock) ==
  /\ ~Blocked(t, lock)
  /\ held' = [held EXCEPT ![t] = lock]

\* create_token(): BEGIN EXCLUSIVE.
BeginExclusive(t) ==
  /\ pc[t] = "begin"
  /\ Lock(t, "exclusive")
  /\ Goto(t, "hash")
  /\ UNCHANGED <<accounts, auth, now, up, locals>>

\* A random token, its expiry and its hash, while the lock is held.
HashToken(t) ==
  /\ pc[t] = "hash"
  /\ \E k \in Token :
       created' = [created EXCEPT ![t] = Creation(created[t].account_id, k, now + Lifetime)]
  /\ Goto(t, "commit")
  /\ UNCHANGED <<accounts, auth, now, up, held, request, arrived, response>>

\* A mutant: the transaction is dropped, not committed.
CommitTokenForgotten(t) ==
  /\ pc[t] = "commit"
  /\ UNCHANGED <<accounts, auth, created>>
  /\ Release(t)
  /\ Respond(t, 200)

\* INSERT and COMMIT: only now can other connections see the row.
CommitToken(t) ==
  LET c == created[t]
  IN /\ pc[t] = "commit"
     /\ auth' = auth \cup {[token_hash |-> Digest[c.token], account_id |-> c.account_id,
                            expiry |-> c.expiry]}
     /\ Release(t)
     /\ Respond(t, 200)
     /\ UNCHANGED <<accounts, created>>

\* A mutant: there is no busy timeout.
NotBusy(t) == FALSE

\* The busy timeout ends a wait for a lock.  validate_token_response() takes every
\* error for an invalid token.
Busy(t) ==
  /\ \/ pc[t] = "begin" /\ Blocked(t, "exclusive") /\ Respond(t, 500)
     \/ pc[t] = "select" /\ Blocked(t, "shared") /\ Respond(t, 401)
  /\ UNCHANGED <<accounts, auth, held, created>>

\* A mutant: a failure leaves the lock behind.
AuthFailsLocked(t) ==
  /\ \/ pc[t] \in {"begin", "hash", "commit", "select"} /\ Respond(t, 500)
     \/ pc[t] \in {"select", "verify"} /\ Respond(t, 401)
  /\ UNCHANGED <<accounts, auth, held, created>>

\* Opening the file, a statement or bcrypt fails; the transaction is rolled back.
AuthFails(t) ==
  /\ \/ pc[t] \in {"begin", "hash", "commit", "select"} /\ Respond(t, 500)
     \/ pc[t] \in {"select", "verify"} /\ Respond(t, 401)
  /\ Release(t)
  /\ UNCHANGED <<accounts, auth, created>>

-----------------------------------------------------------------------------
\* The handlers for an account.

\* Token::from_hex_string() takes 256 hexadecimal digits and nothing else.
FromHexString(token) == IF token = Garbled THEN {} ELSE {token}

\* validate_token(): a token must parse; the SELECT takes a shared lock, which lasts
\* until the rows are done with.
SelectTokens(t) ==
  /\ pc[t] = "select"
  /\ \/ FromHexString(BearerToken(request[t])) = {} /\ Respond(t, 401) /\ UNCHANGED held
     \/ /\ FromHexString(BearerToken(request[t])) # {}
        /\ Lock(t, "shared")
        /\ Goto(t, "verify")
        /\ UNCHANGED <<now, up, request, arrived, response>>
  /\ UNCHANGED <<accounts, auth, created>>

\* A mutant: validate_token() selects the rows of every account.
MatchingAnyAccount(r) == {row \in auth : row.token_hash = Digest[r.token]}

\* bcrypt::verify(), with the rows of the account.
Matching(r) == {row \in auth : row.account_id = r.account_id /\ row.token_hash = Digest[r.token]}

\* A mutant: expiry is not looked at.
VerifyTokenExpired(t) ==
  /\ pc[t] = "verify"
  /\ Release(t)
  /\ \/ Matching(request[t]) = {} /\ Respond(t, 401)
     \/ \E row \in Matching(request[t]) :
          Goto(t, "arguments") /\ UNCHANGED <<now, up, request, arrived, response>>
  /\ UNCHANGED <<accounts, auth, created>>

\* The first row that matches decides; a token is good up to its expiry.
VerifyToken(t) ==
  /\ pc[t] = "verify"
  /\ Release(t)
  /\ \/ Matching(request[t]) = {} /\ Respond(t, 401)
     \/ \E row \in Matching(request[t]) :
          \/ now > row.expiry /\ Respond(t, 401)
          \/ now <= row.expiry /\ Goto(t, "arguments")
             /\ UNCHANGED <<now, up, request, arrived, response>>
  /\ UNCHANGED <<accounts, auth, created>>

\* get_transactions needs both dates, create_transaction a body that parses.
NeedsArguments(r) == r.type \in {"get_transactions", "create_transaction"}

CheckArguments(t) ==
  LET bad == NeedsArguments(request[t]) /\ ~ArgumentsParse(request[t])
  IN /\ pc[t] = "arguments"
     /\ \/ bad /\ Respond(t, 400)
        \/ ~bad /\ Goto(t, "call") /\ UNCHANGED <<now, up, request, arrived, response>>
     /\ UNCHANGED <<accounts, auth, held, created>>

\* The core's Ok, if it may come; its Err, or none of both.
AnswerOf(t, type, ok) ==
  /\ pc[t] = "call" /\ request[t].type = type
  /\ Respond(t, 500) \/ (ok /\ Respond(t, 200))
  /\ UNCHANGED <<accounts, auth, held, created>>

\* The core shows an account, and makes a payment, only if the account exists.
GetAccount(t)        == AnswerOf(t, "get_account", request[t].account_id \in accounts)
GetTransactions(t)   == AnswerOf(t, "get_transactions", TRUE)
GetTransaction(t)    == AnswerOf(t, "get_transaction", TRUE)
CreateTransaction(t) == AnswerOf(t, "create_transaction", request[t].account_id \in accounts)

CallCore(t) ==
  GetAccount(t) \/ GetTransactions(t) \/ GetTransaction(t) \/ CreateTransaction(t)

\* The response goes out and the handler's locals are gone.
Forget(t) ==
  /\ request' = [request EXCEPT ![t] = NoRequest]
  /\ arrived' = [arrived EXCEPT ![t] = 0]
  /\ created' = [created EXCEPT ![t] = NoCreation]
  /\ response' = [response EXCEPT ![t] = 0]

Finish(t) ==
  /\ pc[t] = "respond"
  /\ Goto(t, "idle")
  /\ Forget(t)
  /\ UNCHANGED <<accounts, auth, now, up, held>>

-----------------------------------------------------------------------------
\* The gateway dies: its connections are closed and roll back.
Die ==
  /\ up
  /\ up' = FALSE
  /\ held' = [t \in Threads |-> "none"]
  /\ pc' = [t \in Threads |-> "idle"]
  /\ request' = [t \in Threads |-> NoRequest]
  /\ arrived' = [t \in Threads |-> 0]
  /\ created' = [t \in Threads |-> NoCreation]
  /\ response' = [t \in Threads |-> 0]
  /\ UNCHANGED <<accounts, auth, now>>

\* The core creates an account for a call that was given up, or for another client.
OtherAccount ==
  /\ \E a \in NewAccount : accounts' = accounts \cup {a}
  /\ UNCHANGED <<auth, now, up, held, pc, locals>>

Tick ==
  /\ now < MaxTime
  /\ now' = now + 1
  /\ UNCHANGED <<accounts, auth, up, held, pc, locals>>

ThreadStep(t) ==
  \/ Parse(t)
  \/ CreateAccount(t) \/ CoreAnswers(t) \/ BeginExclusive(t) \/ HashToken(t) \/ CommitToken(t)
  \/ SelectTokens(t) \/ VerifyToken(t) \/ CheckArguments(t) \/ CallCore(t)
  \/ Busy(t) \/ Finish(t)

Next ==
  \/ Start \/ Die \/ OtherAccount \/ Tick
  \/ \E t \in Threads : Arrive(t) \/ ThreadStep(t) \/ AuthFails(t)

Spec == Init /\ [][Next]_vars

\* Threads run on: send_and_recv_msg() always returns, and bcrypt ends.
Fairness == \A t \in Threads : WF_vars(ThreadStep(t))

FairSpec == Spec /\ Fairness

-----------------------------------------------------------------------------
TypeOK ==
  /\ accounts \subseteq AccountId
  /\ auth \subseteq AuthRow
  /\ now \in 0..MaxTime
  /\ up \in BOOLEAN
  /\ held \in [Threads -> {"none", "shared", "exclusive"}]
  /\ pc \in [Threads -> Labels]
  /\ request \in [Threads -> Requests \cup {NoRequest}]
  /\ arrived \in [Threads -> 0..MaxTime]
  /\ created \in [Threads -> [account_id : AccountId \cup {NoAccount},
                              token : Token \cup {NoToken}, expiry : Nat]]
  /\ response \in [Threads -> {0} \cup Codes]

\* The two databases agree although nothing but create_account_handler() ties them
\* together: each token's account is in the core, has no other token, and is not the
\* seed account (README.md: "not accessible from the gateway service").
TokensNameAccounts ==
  /\ \A row \in auth : row.account_id \in accounts \ {Seed}
  /\ \A row1, row2 \in auth : row1.account_id = row2.account_id => row1 = row2

\* auth.db3 is never written while another thread reads or writes it, and no early
\* return or error keeps a lock that would lock out every other request.
AuthLocks ==
  \A t \in Threads :
    /\ held[t] = "exclusive" <=> pc[t] \in {"hash", "commit"}
    /\ held[t] = "shared" <=> pc[t] = "verify"
    /\ held[t] # "none" => ~Blocked(t, held[t])

Answered(t, type, code) ==
  pc[t] = "respond" /\ request[t].type = type /\ response[t] = code

Usable(c) ==
  /\ c.account_id \in accounts
  /\ \E row \in auth : /\ row.account_id = c.account_id
                       /\ row.token_hash = Digest[c.token]
                       /\ row.expiry = c.expiry

\* A client that is told its new account and token can use them, until the expiry it
\* is told, whatever other threads, failures and restarts did in between.
CreatedMeansUsable ==
  \A t \in Threads : Answered(t, "create_account", 200) => Usable(created[t])

\* Between the check of the token and the answer.
Acting(t) ==
  \/ pc[t] \in {"arguments", "call"}
  \/ \E type \in AccountRequests : Answered(t, type, 200)

HeldBySender(t) ==
  /\ request[t].account_id # Seed
  /\ \E row \in Matching(request[t]) : arrived[t] <= row.expiry

\* Nothing is done or shown for an account unless the request carries its token and
\* the token had not expired when the request arrived; it may expire between the
\* check and the call to the core.  In particular nothing is done for the seed.
ActsForHolder == \A t \in Threads : Acting(t) => HeldBySender(t)

\* What a request claims, and how far a thread is with it, to the eyes of Gate.
ClaimOf(r) ==
  IF r.type \in AccountRequests
  THEN [account_id |-> r.account_id,
        token_hash |-> IF r.token \in Token THEN Digest[r.token] ELSE r.token]
  ELSE NoRequest

Stage(label) ==
  CASE label = "idle" -> "idle"
    [] label \in {"parse", "select", "verify"} -> "asked"
    [] label = "respond" -> "done"
    [] OTHER -> "admitted"

Stages     == [t \in Threads |-> Stage(pc[t])]
ClaimsMade == [t \in Threads |-> ClaimOf(request[t])]
Issued     == {[account_id |-> row.account_id, token_hash |-> row.token_hash] : row \in auth}

G == INSTANCE Gate WITH
       Claims <- {ClaimOf(r) : r \in Requests}, NewClaim <- NoRequest,
       stage <- Stages, claim <- ClaimsMade, code <- response, issued <- Issued

\* The handlers implement Gate: locks, failures, expiring tokens and restarts never
\* admit a request without its account's token, nor issue an account two of them.
ImplementsGate == G!Spec

\* Every request is answered unless the gateway dies: readers and writers of the
\* tokens cannot keep each other waiting for ever.
EveryRequestAnswered ==
  \A t \in Threads : pc[t] = "parse" ~> pc[t] = "idle"

\* README.md, REST API Example: "Clients should set `Authentication: Bearer {TOKEN}`
\* for all endpoints, except account creation."  A client that does, with a token that
\* is good, is not turned away before its token has been looked up.
DocumentedHeaderWorks ==
  [][\A t \in Threads :
       /\ pc[t] = "parse"
       /\ request[t].type \in AccountRequests
       /\ request[t].header = "Authentication" /\ request[t].token \in Token
       /\ \E row \in Matching(request[t]) : now <= row.expiry
       => response'[t] # 401]_vars

\* README.md, Get Transactions: `start` and `end` are "(Optional)".  A request without
\* them is not refused as a bad one.
DatesAreOptional ==
  \A t \in Threads :
    Answered(t, "get_transactions", 400) => request[t].arguments # "omitted"
=============================================================================
