------------------------------ MODULE Service -------------------------------
(***************************************************************************)
(* The service from end to end, as the clients of its REST API see it: an  *)
(* HTTP request passes the gateway (Gate), becomes a call (Rpc) and is     *)
(* executed by the core (Bank); its response may get lost on the way back. *)
(*                                                                         *)
(* The module puts the handlers of client_gateway.rs that change something *)
(* or look up what was changed between the specifications that Gateway,    *)
(* Transport and Core implement.  Each request has an id of its own, which *)
(* is also that of its call.  The handlers that read a balance or a list   *)
(* of transactions take the same path as get_transaction_handler().        *)
(***************************************************************************)
EXTENDS Totals

CONSTANTS
  AccountId, Seed, SeedFunds, TransactionId, Token,
  Calls,          \* HTTP requests
  Requests,       \* what clients may ask for
  Nothing         \* no token, no value

VARIABLES
  accounts, ledger,             \* the bank
  status, executions,           \* the calls
  stage, claim, code, issued,   \* the gateway
  asked,          \* what each request asks for
  result,         \* what the core has answered it, once it has executed it
  told            \* the response that has reached the client

ClientRequest ==
       [type : {"create_account"}]
  \cup [type : {"get_transaction"}, account_id : AccountId, token : Token,
        transaction_id : TransactionId]
  \cup [type : {"create_transaction"}, account_id : AccountId, token : Token,
        receiver : AccountId, amount : Int]

ASSUME ServiceAssumption ==
  /\ Seed \in AccountId /\ SeedFunds \in Nat
  /\ Requests \subseteq ClientRequest
  /\ Nothing \notin Token

ResultKinds == {"none", "ok", "TransactionDoesNotExist", "PermissionDenied", "OtherError"}

NotAsked  == [type |-> "none"]
NotTold   == [code |-> 0, value |-> Nothing]
NoResult  == [is |-> "none", value |-> Nothing]
Ok(v)     == [is |-> "ok", value |-> v]
Err(e)    == [is |-> e, value |-> Nothing]

\* What a request says of itself: the account it works for and its token.
NewClaim == [account_id |-> Seed, token_hash |-> Nothing]
ClaimOf(r) ==
  IF r.type = "create_account" THEN NewClaim
  ELSE [account_id |-> r.account_id, token_hash |-> r.token]

B == INSTANCE Bank
R == INSTANCE Rpc
G == INSTANCE Gate WITH Threads <- Calls, Hash <- Token, Claims <- {ClaimOf(r) : r \in Requests}

bankVars == <<accounts, ledger>>
rpcVars  == <<status, executions>>
gateVars == <<stage, claim, code, issued>>
vars     == <<bankVars, rpcVars, gateVars, asked, result, told>>

Init ==
  /\ B!Init /\ R!Init /\ G!Init
  /\ asked = [i \in Calls |-> NotAsked]
  /\ result = [i \in Calls |-> NoResult]
  /\ told = [i \in Calls |-> NotTold]

-----------------------------------------------------------------------------
\* The gateway.

Arrive(i) ==
  /\ asked[i] = NotAsked
  /\ \E r \in Requests :
       G!Arrive(i, ClaimOf(r)) /\ asked' = [asked EXCEPT ![i] = r]
  /\ UNCHANGED <<bankVars, rpcVars, result, told>>

\* The request is refused, or goes on to its handler's body; there a body of
\* create_transaction that does not parse is answered 400.
Check(i) ==
  /\ \/ \E c \in {400, 401, 500} : G!TurnAway(i, c)
     \/ G!Admit(i)
     \/ asked[i].type = "create_transaction" /\ status[i] = "new" /\ G!Answer(i, 400)
  /\ UNCHANGED <<bankVars, rpcVars, asked, result, told>>

\* send_and_recv_msg() sends the request ...
Call(i) ==
  /\ stage[i] = "admitted"
  /\ R!Issue(i)
  /\ UNCHANGED <<bankVars, gateVars, asked, result, told>>

\* ... and returns the core's response, ...
Return(i) ==
  /\ stage[i] = "admitted"
  /\ R!Return(i)
  /\ UNCHANGED <<bankVars, gateVars, asked, result, told>>

\* ... or nothing, which every handler answers with 500.
Fail(i) ==
  /\ R!Refuse(i) \/ R!GiveUp({i})
  /\ G!Answer(i, 500)
  /\ UNCHANGED <<bankVars, asked, result, told>>

\* A mutant: an error of the core is passed on as if it were a receipt.
StatusOfAnyAnswer(r) == 200

\* The core's Ok is answered 200 and its Err 500.
StatusOf(r) == IF r.is = "ok" THEN 200 ELSE 500

Reply(i) ==
  /\ status[i] = "answered" /\ asked[i].type # "create_account"
  /\ G!Answer(i, StatusOf(result[i]))
  /\ UNCHANGED <<bankVars, rpcVars, asked, result, told>>

\* create_account_handler() makes a token for the account, if it can.
ReplyNewAccount(i) ==
  /\ status[i] = "answered" /\ asked[i].type = "create_account"
  /\ \/ G!Answer(i, 500)
     \/ /\ result[i].is = "ok"
        /\ \E k \in Token : G!Issue(i, [account_id |-> result[i].value, token_hash |-> k])
  /\ UNCHANGED <<bankVars, rpcVars, asked, result, told>>

\* What is in a response: the core's answer, with the token of a new account.
Body(i) ==
  IF code[i] # 200 THEN Nothing
  ELSE IF asked[i].type = "create_account"
       THEN CHOOSE row \in issued : row.account_id = result[i].value
       ELSE result[i].value

\* The response goes out, and reaches the client or not.
Finish(i) ==
  /\ G!Forget(i)
  /\ \/ told' = [told EXCEPT ![i] = [code |-> code[i], value |-> Body(i)]]
     \/ UNCHANGED told
  /\ UNCHANGED <<bankVars, rpcVars, asked, result>>

\* The gateway dies and is started again; the calls it had sent may still be executed.
Die ==
  /\ G!Die
  /\ R!GiveUp({i \in Calls : status[i] = "open"})
  /\ UNCHANGED <<bankVars, asked, result, told>>

-----------------------------------------------------------------------------
\* The core executes a request, perhaps long after the gateway has given it up.

Executed(i, r) ==
  /\ R!Execute(i)
  /\ result' = [result EXCEPT ![i] = r]
  /\ UNCHANGED <<gateVars, asked, told>>

ExecuteCreateAccount(i) ==
  /\ asked[i].type = "create_account"
  /\ \E a \in AccountId \ {Seed} : B!CreateAccount(a) /\ Executed(i, Ok(a))

ExecuteCreateTransaction(i) ==
  /\ asked[i].type = "create_transaction"
  /\ \E t \in TransactionId :
       B!Transfer(t, asked[i].account_id, asked[i].receiver, asked[i].amount) /\ Executed(i, Ok(t))

\* A mutant: only the receiver may see a transaction.
IsPartyReceiver(a, row) == a = row.receiver_account_id

IsParty(a, row) == a \in {row.sender_account_id, row.receiver_account_id}

\* Only a party to the transaction may see it.
ExecuteGetTransaction(i) ==
  LET t == asked[i].transaction_id
  IN /\ asked[i].type = "get_transaction"
     /\ \/ t \notin DOMAIN ledger /\ Executed(i, Err("TransactionDoesNotExist"))
        \/ /\ t \in DOMAIN ledger
           /\ Executed(i, IF IsParty(asked[i].account_id, ledger[t])
                          THEN Ok(ledger[t]) ELSE Err("PermissionDenied"))
     /\ UNCHANGED bankVars

\* The core refuses a payment, or a statement fails: nothing has changed.
ExecuteInVain(i) == Executed(i, Err("OtherError")) /\ UNCHANGED bankVars

Execute(i) ==
  \/ ExecuteCreateAccount(i) \/ ExecuteCreateTransaction(i)
  \/ ExecuteGetTransaction(i) \/ ExecuteInVain(i)

\* The core's start, and the stipends and transfers that stipend.rs and seed_tx.rs
\* make from the seed account.
Others ==
  /\ \/ B!CreateSeedAccount
     \/ \E t \in TransactionId, r \in AccountId, n \in 1..SeedFunds : B!Transfer(t, Seed, r, n)
  /\ UNCHANGED <<rpcVars, gateVars, asked, result, told>>

Serve(i) ==
  \/ Arrive(i) \/ Check(i) \/ Call(i) \/ Return(i) \/ Fail(i)
  \/ Reply(i) \/ ReplyNewAccount(i) \/ Finish(i)

Next ==
  \/ \E i \in Calls : Serve(i) \/ Execute(i)
  \/ Die \/ Others

Spec == Init /\ [][Next]_vars

-----------------------------------------------------------------------------
TypeOK ==
  /\ IsTable(accounts, AccountId, Nat) /\ IsTable(ledger, TransactionId, B!Entry)
  /\ status \in [Calls -> {"new", "open", "answered", "refused", "unknown"}]
  /\ executions \in [Calls -> {0, 1}]
  /\ stage \in [Calls -> {"idle", "asked", "admitted", "done"}]
  /\ claim \in [Calls -> {NewClaim} \cup {ClaimOf(r) : r \in Requests}]
  /\ code \in [Calls -> {0, 200, 400, 401, 500}]
  /\ issued \subseteq G!Row
  /\ asked \in [Calls -> Requests \cup {NotAsked}]
  /\ DOMAIN result = Calls /\ \A i \in Calls : result[i].is \in ResultKinds
  /\ DOMAIN told = Calls /\ \A i \in Calls : told[i].code \in {0, 200, 400, 401, 500}

\* The payment that request i asks for.
PaymentOf(i) ==
  [sender_account_id |-> asked[i].account_id, receiver_account_id |-> asked[i].receiver,
   amount |-> asked[i].amount]

\* Transaction t is what the core has answered to the payment that request i asks for.
Paid(i, t) ==
  asked[i].type = "create_transaction" /\ result[i].is = "ok" /\ result[i].value = t

\* Every coin that leaves an account leaves it for one request that carried the
\* account's token and asked for exactly that, and no request pays twice, although
\* calls are given up, executed late or cut off by a crash.  An account whose token was
\* never made, because its creation was answered 500, keeps what it is sent.
HoldersSpend ==
  \A t \in DOMAIN ledger :
    ledger[t].sender_account_id # Seed =>
      \E i \in Calls :
        /\ Paid(i, t) /\ ledger[t] = PaymentOf(i)
        /\ ClaimOf(asked[i]) \in issued
        /\ \A j \in Calls : Paid(j, t) => j = i

\* What a client is told is true, whatever it is not told: a 200 to a payment names a
\* ledger row that is this payment and nobody else's, a 200 to an account creation names
\* an account that exists and a token good for it, and a request answered 400 or 401
\* has not been executed and never will be.
AnswersTellTheTruth ==
  \A i \in Calls :
    /\ told[i].code = 200 /\ asked[i].type = "create_transaction" =>
         /\ told[i].value \in DOMAIN ledger
         /\ ledger[told[i].value] = PaymentOf(i)
         /\ \A j \in Calls \ {i} : asked[j].type = "create_transaction" =>
              told[j].value # told[i].value \/ told[j].code # 200
    /\ told[i].code = 200 /\ asked[i].type = "create_account" =>
         told[i].value \in issued /\ told[i].value.account_id \in DOMAIN accounts
    /\ told[i].code \in {400, 401} => status[i] = "new" /\ stage[i] = "idle"

\* A client that has its receipt can look the transaction up from then on, as a party
\* to it: the core never says that there is no such transaction, or that it is not theirs.
ReceiptsAreHonoured ==
  [][\A i, j \in Calls :
       /\ told[i].code = 200 /\ asked[i].type = "create_transaction"
       /\ asked[j].type = "get_transaction" /\ result[j] = NoResult
       /\ asked[j].transaction_id = told[i].value
       /\ asked[j].account_id \in {asked[i].account_id, asked[i].receiver}
       => result'[j] \notin {Err("TransactionDoesNotExist"), Err("PermissionDenied")}]_vars
=============================================================================
