--------------------------- MODULE ServiceProofs ----------------------------
(***************************************************************************)
(* Proofs about Service, for any number of requests, accounts, tokens and  *)
(* transactions: coins leave an account only as the holder of its token    *)
(* asked, and what the clients are told is true.                           *)
(***************************************************************************)
EXTENDS Service, TLAPS

\* The request, the gateway's work on it and its call are in step.
InStep(i) ==
  /\ stage[i] # "idle" => asked[i] # NotAsked /\ claim[i] = ClaimOf(asked[i])
  /\ stage[i] = "asked" => status[i] = "new"
  /\ status[i] # "new" => asked[i] # NotAsked
  /\ executions[i] = 1 => status[i] \in {"open", "answered", "unknown"}
  /\ executions[i] = 0 => result[i] = NoResult

\* Only a request that was admitted is at work or has been sent to the core.
Admitted(i) ==
  stage[i] = "admitted" \/ status[i] \in {"open", "answered", "unknown"} =>
    ClaimOf(asked[i]) \in issued \cup {NewClaim}

\* What the core's Ok says has happened.
OkIsTrue(i) ==
  result[i].is = "ok" =>
    /\ asked[i].type = "create_transaction" =>
         /\ result[i].value \in DOMAIN ledger
         /\ ledger[result[i].value] = PaymentOf(i)
         /\ ClaimOf(asked[i]) \in issued
    /\ asked[i].type = "create_account" => result[i].value \in DOMAIN accounts \ {Seed}

\* What a status code says, in the gateway or when it has reached the client.
CodeIsTrue(i, c) ==
  /\ c = 200 => result[i].is = "ok"
  /\ c = 200 /\ asked[i].type = "create_account" =>
       \E row \in issued : row.account_id = result[i].value
  /\ c \in {400, 401} => status[i] = "new"

ToldIsTrue(i) ==
  /\ told[i].code # 0 => stage[i] = "idle" /\ asked[i] # NotAsked
  /\ CodeIsTrue(i, told[i].code)
  /\ told[i].code = 200 =>
       IF asked[i].type = "create_account"
       THEN told[i].value \in issued /\ told[i].value.account_id = result[i].value
       ELSE told[i].value = result[i].value

Part(i) ==
  /\ InStep(i) /\ Admitted(i) /\ OkIsTrue(i) /\ ToldIsTrue(i)
  /\ stage[i] = "done" => CodeIsTrue(i, code[i])

\* No two payments are the same transaction, ...
Distinct ==
  \A i, j \in Calls, t \in TransactionId : Paid(i, t) /\ Paid(j, t) => i = j

\* ... and each transaction that the seed did not make is a payment.
Explained ==
  \A t \in DOMAIN ledger :
    ledger[t].sender_account_id # Seed => \E i \in Calls : Paid(i, t)

\* The inductive invariant.
IInv ==
  /\ TypeOK
  /\ \A i \in Calls : Part(i)
  /\ Distinct /\ Explained


-----------------------------------------------------------------------------
\* Nothing is ever removed: tokens, accounts and transactions stay.
Grows ==
  /\ issued \subseteq issued' /\ DOMAIN accounts \subseteq DOMAIN accounts'
  /\ \A t \in DOMAIN ledger : t \in DOMAIN ledger' /\ ledger'[t] = ledger[t]

\* A step that has nothing to do with request i.
Same(i) ==
  /\ asked'[i] = asked[i] /\ result'[i] = result[i] /\ told'[i] = told[i]
  /\ status'[i] = status[i] /\ executions'[i] = executions[i]
  /\ stage'[i] = stage[i] /\ claim'[i] = claim[i] /\ code'[i] = code[i]

LEMMA TransferGrows ==
  ASSUME NEW t \in TransactionId, NEW s, NEW r, NEW n, B!Transfer(t, s, r, n)
  PROVE  /\ DOMAIN accounts' = DOMAIN accounts
         /\ t \notin DOMAIN ledger /\ DOMAIN ledger' = DOMAIN ledger \cup {t}
         /\ ledger'[t] = [sender_account_id |-> s, receiver_account_id |-> r, amount |-> n]
         /\ \A u \in DOMAIN ledger : ledger'[u] = ledger[u]
<1> DEFINE row == [sender_account_id |-> s, receiver_account_id |-> r, amount |-> n]
<1>1. t \notin DOMAIN ledger /\ ledger' = B!Put(ledger, t, row)
  BY DEF B!Transfer, B!Record
<1>2. DOMAIN accounts' = DOMAIN accounts
  BY DEF B!Transfer
<1> HIDE DEF row
<1>3. /\ DOMAIN ledger' = DOMAIN ledger \cup {t} /\ ledger'[t] = row
      /\ \A u \in DOMAIN ledger : ledger'[u] = ledger[u]
  BY <1>1 DEF B!Put
<1>4. QED
  BY <1>1, <1>2, <1>3 DEF row

LEMMA Frame ==
  ASSUME IInv, NEW i \in Calls, Grows, Same(i)
  PROVE  Part(i)'
<1>1. Part(i)
  BY DEF IInv
<1>2. InStep(i)' /\ Admitted(i)'
  BY <1>1 DEF Part, InStep, Admitted, Same, Grows
<1>3. OkIsTrue(i)'
  BY <1>1 DEF Part, OkIsTrue, PaymentOf, Same, Grows
<1>4. \A c : CodeIsTrue(i, c) => CodeIsTrue(i, c)'
  BY DEF CodeIsTrue, Same, Grows
<1>5. ToldIsTrue(i)'
  BY <1>1, <1>4 DEF Part, ToldIsTrue, Same, Grows
<1>6. QED
  BY <1>1, <1>2, <1>3, <1>4, <1>5 DEF Part, Same

LEMMA ServeShape ==
  ASSUME TypeOK, NEW i \in Calls, Serve(i)
  PROVE  /\ Grows /\ UNCHANGED bankVars
         /\ \A j \in Calls : j # i => Same(j)
<1> USE DEF Grows, Same, TypeOK, bankVars, rpcVars, gateVars
<1>1. CASE Arrive(i) \/ Check(i)
  BY <1>1 DEF Arrive, Check, G!Arrive, G!Become, G!TurnAway, G!Admit, G!Answer, G!Done
<1>2. CASE Call(i) \/ Return(i)
  BY <1>2 DEF Call, Return, R!Issue, R!Return, R!Become
<1>3. CASE Fail(i)
  BY <1>3 DEF Fail, R!Refuse, R!GiveUp, R!Become, G!Answer, G!Done, G!Become
<1>4. CASE Reply(i) \/ ReplyNewAccount(i)
  BY <1>4 DEF Reply, ReplyNewAccount, G!Issue, G!Answer, G!Done, G!Become
<1>5. CASE Finish(i)
  BY <1>5 DEF Finish, G!Forget, G!Become
<1>6. QED
  BY <1>1, <1>2, <1>3, <1>4, <1>5 DEF Serve

LEMMA ExecuteShape ==
  ASSUME TypeOK, NEW i \in Calls, Execute(i)
  PROVE  /\ Grows
         /\ \A j \in Calls : j # i => Same(j)
         /\ UNCHANGED <<issued, asked, told, status, stage, claim, code>>
         /\ status[i] \in {"open", "unknown"} /\ executions[i] = 0 /\ executions'[i] = 1
<1> USE DEF Grows, Same, TypeOK, Executed, R!Execute, gateVars
<1>1. CASE ExecuteCreateAccount(i)
  <2>1. PICK a : B!CreateAccount(a) /\ Executed(i, Ok(a))
    BY <1>1 DEF ExecuteCreateAccount
  <2>2. a \notin DOMAIN accounts /\ accounts' = B!Put(accounts, a, 0) /\ UNCHANGED ledger
    BY <2>1 DEF B!CreateAccount
  <2>3. DOMAIN accounts \subseteq DOMAIN accounts'
    BY <2>2 DEF B!Put
  <2>4. QED
    BY <2>1, <2>2, <2>3
<1>2. CASE ExecuteCreateTransaction(i)
  <2>1. PICK t \in TransactionId :
          /\ B!Transfer(t, asked[i].account_id, asked[i].receiver, asked[i].amount)
          /\ Executed(i, Ok(t))
    BY <1>2 DEF ExecuteCreateTransaction
  <2>2. /\ DOMAIN accounts' = DOMAIN accounts /\ DOMAIN ledger' = DOMAIN ledger \cup {t}
        /\ \A u \in DOMAIN ledger : ledger'[u] = ledger[u]
    BY ONLY <2>1, TransferGrows
  <2>3. QED
    BY <2>1, <2>2
<1>3. CASE ExecuteGetTransaction(i) \/ ExecuteInVain(i)
  BY <1>3 DEF ExecuteGetTransaction, ExecuteInVain, bankVars
<1>4. QED
  BY <1>1, <1>2, <1>3 DEF Execute

-----------------------------------------------------------------------------
\* Types.

TypeServe ==
  /\ status \in [Calls -> {"new", "open", "answered", "refused", "unknown"}]
  /\ executions \in [Calls -> {0, 1}]
  /\ stage \in [Calls -> {"idle", "asked", "admitted", "done"}]
  /\ claim \in [Calls -> {NewClaim} \cup {ClaimOf(r) : r \in Requests}]
  /\ code \in [Calls -> {0, 200, 400, 401, 500}]
  /\ asked \in [Calls -> Requests \cup {NotAsked}]
  /\ DOMAIN result = Calls /\ \A i \in Calls : result[i].is \in ResultKinds
  /\ DOMAIN told = Calls /\ \A i \in Calls : told[i].code \in {0, 200, 400, 401, 500}

LEMMA ServeType ==
  ASSUME TypeServe, NEW i \in Calls, Serve(i)
  PROVE  TypeServe'
<1> USE DEF TypeServe, bankVars, rpcVars, gateVars
<1>1. CASE Arrive(i)
  BY <1>1 DEF Arrive, G!Arrive, G!Become
<1>2. CASE Check(i)
  <2>1. CASE \E c \in {400, 401, 500} : G!TurnAway(i, c)
    BY <1>2, <2>1 DEF Check, G!Become, G!TurnAway, G!Done
  <2>2. CASE G!Admit(i)
    BY <1>2, <2>2 DEF Check, G!Become, G!Admit
  <2>3. CASE G!Answer(i, 400)
    BY <1>2, <2>3 DEF Check, G!Become, G!Answer, G!Done
  <2>4. QED
    BY <1>2, <2>1, <2>2, <2>3 DEF Check
<1>3. CASE Call(i) \/ Return(i)
  <2>1. \E s \in {"open", "answered"} : status' = [status EXCEPT ![i] = s]
    BY <1>3 DEF Call, Return, R!Issue, R!Return, R!Become
  <2>2. UNCHANGED <<executions, stage, claim, code, asked, result, told>>
    BY <1>3 DEF Call, Return, R!Issue, R!Return
  <2>3. QED
    BY <2>1, <2>2
<1>4. CASE Fail(i)
  BY <1>4 DEF Fail, R!Refuse, R!GiveUp, R!Become, G!Answer, G!Done, G!Become
<1>5. CASE Reply(i) \/ ReplyNewAccount(i)
  BY <1>5 DEF Reply, ReplyNewAccount, StatusOf, G!Issue, G!Answer, G!Done, G!Become
<1>6. CASE Finish(i)
  BY <1>6 DEF Finish, G!Forget, G!Become
<1>7. QED
  BY <1>1, <1>2, <1>3, <1>4, <1>5, <1>6 DEF Serve

-----------------------------------------------------------------------------
\* What each step does to the request it is about.

LEMMA ArrivePart ==
  ASSUME IInv, NEW i \in Calls, Arrive(i)
  PROVE  Part(i)'
<1>1. Part(i) /\ asked[i] = NotAsked /\ i \in DOMAIN asked /\ i \in DOMAIN stage /\ i \in DOMAIN claim
  BY DEF IInv, TypeOK, Arrive
<1>2. stage[i] = "idle" /\ status[i] = "new" /\ executions[i] = 0 /\ result[i] = NoResult /\ told[i].code = 0
  BY <1>1 DEF IInv, TypeOK, Part, InStep, ToldIsTrue
<1>3. PICK r \in Requests : G!Arrive(i, ClaimOf(r)) /\ asked' = [asked EXCEPT ![i] = r]
  BY DEF Arrive
<1>4. /\ stage'[i] = "asked" /\ claim'[i] = ClaimOf(r) /\ asked'[i] = r
      /\ UNCHANGED <<status, executions, result, told, issued, accounts, ledger>>
  BY <1>1, <1>3 DEF Arrive, G!Arrive, G!Become, bankVars, rpcVars
<1>5. r.type # "none" /\ r # NotAsked
  BY ServiceAssumption DEF ClientRequest, NotAsked
<1>6. InStep(i)' /\ Admitted(i)' /\ OkIsTrue(i)' /\ ToldIsTrue(i)' /\ stage'[i] # "done"
  BY <1>2, <1>4, <1>5 DEF InStep, Admitted, OkIsTrue, ToldIsTrue, CodeIsTrue, NoResult
<1>7. QED
  BY <1>6 DEF Part

LEMMA AdmitPart ==
  ASSUME IInv, NEW i \in Calls, G!Admit(i),
         UNCHANGED <<bankVars, rpcVars, asked, result, told>>
  PROVE  Part(i)'
<1>1. Part(i) /\ i \in DOMAIN stage
  BY DEF IInv, TypeOK
<1>2. /\ stage[i] = "asked" /\ stage'[i] = "admitted"
      /\ claim[i] = NewClaim \/ claim[i] \in issued
      /\ UNCHANGED <<status, executions, result, told, issued, accounts, ledger, asked, claim, code>>
  BY <1>1 DEF G!Admit, G!Become, bankVars, rpcVars
<1>3. InStep(i)' /\ Admitted(i)'
  BY <1>1, <1>2 DEF Part, InStep, Admitted
<1>4. OkIsTrue(i)' /\ ToldIsTrue(i)' /\ stage'[i] # "done"
  BY <1>1, <1>2 DEF Part, OkIsTrue, PaymentOf, ToldIsTrue, CodeIsTrue
<1>5. QED
  BY <1>3, <1>4 DEF Part

LEMMA CallPart ==
  ASSUME IInv, NEW i \in Calls, Call(i) \/ Return(i)
  PROVE  Part(i)'
<1>1. Part(i) /\ i \in DOMAIN status
  BY DEF IInv, TypeOK
<1>2. /\ stage[i] = "admitted" /\ status'[i] \in {"open", "answered"}
      /\ UNCHANGED <<executions, result, told, issued, accounts, ledger, asked, stage, claim, code>>
  BY <1>1 DEF Call, Return, R!Issue, R!Return, R!Become, gateVars, bankVars
<1>3. InStep(i)' /\ Admitted(i)'
  BY <1>1, <1>2 DEF Part, InStep, Admitted
<1>4. OkIsTrue(i)' /\ ToldIsTrue(i)' /\ stage'[i] # "done"
  BY <1>1, <1>2 DEF Part, OkIsTrue, PaymentOf, ToldIsTrue, CodeIsTrue
<1>5. QED
  BY <1>3, <1>4 DEF Part

\* An answer that is true, to a request that is at work.
Ends(i, c) ==
  /\ stage[i] \in {"asked", "admitted"} /\ stage'[i] = "done" /\ code'[i] = c
  /\ claim'[i] = claim[i] /\ executions'[i] = executions[i]
  /\ UNCHANGED <<bankVars, asked, result, told>>
  /\ \/ status'[i] = status[i]
     \/ status'[i] = "refused" /\ stage[i] = "admitted" /\ executions[i] = 0
     \/ status'[i] = "unknown" /\ stage[i] = "admitted"

LEMMA EndsPart ==
  ASSUME IInv, NEW i \in Calls, Grows, NEW c, Ends(i, c), CodeIsTrue(i, c)'
  PROVE  Part(i)'
<1>1. Part(i)
  BY DEF IInv
<1>2. InStep(i)' /\ Admitted(i)'
  BY <1>1 DEF Part, InStep, Admitted, Ends, Grows
<1>3. OkIsTrue(i)'
  BY <1>1 DEF Part, OkIsTrue, PaymentOf, Ends, Grows, bankVars
<1>4. told[i].code = 0
  BY <1>1 DEF Part, ToldIsTrue, Ends
<1>5. ToldIsTrue(i)'
  BY <1>4 DEF ToldIsTrue, CodeIsTrue, Ends
<1>6. QED
  BY <1>2, <1>3, <1>5 DEF Part, Ends

LEMMA CheckPart ==
  ASSUME IInv, NEW i \in Calls, Check(i), Grows
  PROVE  Part(i)'
<1>1. Part(i) /\ i \in DOMAIN stage /\ i \in DOMAIN code
  BY DEF IInv, TypeOK
<1>2. UNCHANGED <<bankVars, rpcVars, asked, result, told>>
  BY DEF Check
<1>3. CASE G!Admit(i)
  BY <1>2, <1>3, AdmitPart
<1>4. CASE \E c \in {400, 401, 500} : G!TurnAway(i, c)
  <2>1. PICK c \in {400, 401, 500} : G!TurnAway(i, c)
    BY <1>4
  <2>2. Ends(i, c) /\ CodeIsTrue(i, c)'
    BY <1>1, <1>2, <2>1 DEF G!TurnAway, G!Done, G!Become, Ends, CodeIsTrue, rpcVars, Part, InStep
  <2>3. QED
    BY <2>2, EndsPart
<1>5. CASE status[i] = "new" /\ G!Answer(i, 400)
  <2>1. Ends(i, 400) /\ CodeIsTrue(i, 400)'
    BY <1>1, <1>2, <1>5 DEF G!Answer, G!Done, G!Become, Ends, CodeIsTrue, rpcVars
  <2>2. QED
    BY <2>1, EndsPart
<1>6. QED
  BY <1>3, <1>4, <1>5 DEF Check

LEMMA FailPart ==
  ASSUME IInv, NEW i \in Calls, Fail(i), Grows
  PROVE  Part(i)'
<1>1. i \in DOMAIN stage /\ i \in DOMAIN code /\ i \in DOMAIN status
  BY DEF IInv, TypeOK
<1>2. /\ status'[i] = "unknown" \/ (status'[i] = "refused" /\ executions[i] = 0)
      /\ UNCHANGED executions
  BY <1>1 DEF Fail, R!Refuse, R!GiveUp, R!Become
<1>3. Ends(i, 500) /\ CodeIsTrue(i, 500)'
  BY <1>1, <1>2 DEF Fail, G!Answer, G!Done, G!Become, Ends, CodeIsTrue
<1>4. QED
  BY <1>3, EndsPart

LEMMA ReplyPart ==
  ASSUME IInv, NEW i \in Calls, Reply(i), Grows
  PROVE  Part(i)'
<1>1. i \in DOMAIN stage /\ i \in DOMAIN code
  BY DEF IInv, TypeOK
<1>2. /\ stage[i] = "admitted" /\ stage'[i] = "done" /\ code'[i] = StatusOf(result[i])
      /\ asked[i].type # "create_account"
      /\ UNCHANGED <<bankVars, rpcVars, asked, result, told, claim>>
  BY <1>1 DEF Reply, G!Answer, G!Done, G!Become
<1>3. Ends(i, StatusOf(result[i])) /\ CodeIsTrue(i, StatusOf(result[i]))'
  BY <1>2 DEF Ends, CodeIsTrue, StatusOf, rpcVars
<1>4. QED
  BY <1>2, <1>3, EndsPart

LEMMA ReplyNewAccountPart ==
  ASSUME IInv, NEW i \in Calls, ReplyNewAccount(i), Grows
  PROVE  Part(i)'
<1>1. i \in DOMAIN stage /\ i \in DOMAIN code
  BY DEF IInv, TypeOK
<1>2. CASE G!Answer(i, 500)
  <2>1. Ends(i, 500) /\ CodeIsTrue(i, 500)'
    BY <1>1, <1>2 DEF ReplyNewAccount, G!Answer, G!Done, G!Become, Ends, CodeIsTrue, rpcVars
  <2>2. QED
    BY <2>1, EndsPart
<1>3. CASE result[i].is = "ok"
           /\ \E k \in Token :
                G!Issue(i, [account_id |-> result[i].value, token_hash |-> k])
  <2>1. PICK k \in Token : G!Issue(i, [account_id |-> result[i].value, token_hash |-> k])
    BY <1>3
  <2>2. Ends(i, 200)
    BY <1>1, <2>1 DEF ReplyNewAccount, G!Issue, G!Done, G!Become, Ends, rpcVars
  <2>3. \E row \in issued' : row.account_id = result[i].value
    <3> DEFINE row == [account_id |-> result[i].value, token_hash |-> k]
    <3>1. row \in issued'
      BY <2>1 DEF G!Issue
    <3>2. row.account_id = result[i].value
      OBVIOUS
    <3>3. QED
      BY <3>1, <3>2
  <2>4. CodeIsTrue(i, 200)'
    BY <1>3, <2>2, <2>3 DEF Ends, CodeIsTrue
  <2>5. QED
    BY <2>2, <2>4, EndsPart
<1>4. QED
  BY <1>2, <1>3 DEF ReplyNewAccount

LEMMA FinishPart ==
  ASSUME IInv, NEW i \in Calls, Finish(i)
  PROVE  Part(i)'
<1>1. Part(i) /\ i \in DOMAIN stage /\ i \in DOMAIN told
  BY DEF IInv, TypeOK
<1>2. /\ stage[i] = "done" /\ stage'[i] = "idle"
      /\ UNCHANGED <<issued, accounts, ledger, status, executions, asked, result>>
  BY <1>1 DEF Finish, G!Forget, G!Become, bankVars, rpcVars
<1>3. \/ told'[i] = told[i]
      \/ told'[i].code = code[i] /\ told'[i].value = Body(i)
  BY <1>1 DEF Finish
<1>4. asked[i] # NotAsked /\ CodeIsTrue(i, code[i]) /\ told[i].code = 0
  BY <1>1, <1>2 DEF Part, InStep, ToldIsTrue
<1>5. InStep(i)' /\ Admitted(i)' /\ OkIsTrue(i)'
  BY <1>1, <1>2 DEF Part, InStep, Admitted, OkIsTrue, PaymentOf
<1>6. code[i] = 200 =>
        IF asked[i].type = "create_account"
        THEN Body(i) \in issued /\ Body(i).account_id = result[i].value
        ELSE Body(i) = result[i].value
  BY <1>4 DEF CodeIsTrue, Body
<1>7. ToldIsTrue(i)'
  BY <1>2, <1>3, <1>4, <1>6 DEF ToldIsTrue, CodeIsTrue
<1>8. QED
  BY <1>2, <1>5, <1>7 DEF Part

LEMMA ServePart ==
  ASSUME IInv, NEW i \in Calls, Serve(i)
  PROVE  Part(i)'
<1>1. Grows
  BY ServeShape DEF IInv
<1>2. QED
  BY <1>1, ArrivePart, CheckPart, CallPart, FailPart, ReplyPart, ReplyNewAccountPart, FinishPart
     DEF Serve

\* The core executes the request: what its Ok says must be so.
LEMMA ExecutePart ==
  ASSUME IInv, NEW i \in Calls, Execute(i), OkIsTrue(i)'
  PROVE  Part(i)'
<1>1. Part(i)
  BY DEF IInv
<1>2. /\ Grows /\ UNCHANGED <<issued, asked, told, status, stage, claim, code>>
      /\ status[i] \in {"open", "unknown"} /\ executions[i] = 0 /\ executions'[i] = 1
  BY ExecuteShape DEF IInv
<1>3. result[i].is = "none"
  BY <1>1, <1>2 DEF Part, InStep, NoResult
<1>4. InStep(i)' /\ Admitted(i)'
  BY <1>1, <1>2 DEF Part, InStep, Admitted
<1>5. \A c : CodeIsTrue(i, c) => c \notin {200, 400, 401}
  BY <1>2, <1>3 DEF CodeIsTrue
<1>6. told[i].code \notin {200, 400, 401} /\ (stage[i] = "done" => code[i] \notin {200, 400, 401})
  BY <1>1, <1>5 DEF Part, ToldIsTrue
<1>7. ToldIsTrue(i)'
  BY <1>1, <1>2, <1>6 DEF Part, ToldIsTrue, CodeIsTrue
<1>8. (stage[i] = "done" => CodeIsTrue(i, code[i]))'
  BY <1>2, <1>6 DEF CodeIsTrue
<1>9. QED
  BY <1>4, <1>7, <1>8 DEF Part

LEMMA PayerHoldsToken ==
  ASSUME IInv, NEW i \in Calls, asked[i].type = "create_transaction",
         status[i] \in {"open", "unknown"}
  PROVE  ClaimOf(asked[i]) \in issued
<1>1. Admitted(i) /\ asked[i] \in Requests
  BY DEF IInv, Part, InStep, TypeOK, NotAsked
<1>2. asked[i].token \in Token
  BY <1>1, ServiceAssumption DEF ClientRequest
<1>3. ClaimOf(asked[i]).token_hash = asked[i].token /\ NewClaim.token_hash = Nothing
  BY DEF ClaimOf, NewClaim
<1>4. QED
  BY <1>1, <1>2, <1>3, ServiceAssumption DEF Admitted

LEMMA ExecuteOkIsTrue ==
  ASSUME IInv, NEW i \in Calls, Execute(i)
  PROVE  OkIsTrue(i)'
<1>1. i \in DOMAIN result
  BY DEF IInv, TypeOK
<1>2. /\ UNCHANGED <<issued, asked>> /\ status[i] \in {"open", "unknown"}
  BY ExecuteShape DEF IInv
<1>3. CASE ExecuteCreateAccount(i)
  <2>1. PICK a \in AccountId \ {Seed} : B!CreateAccount(a) /\ Executed(i, Ok(a))
    BY <1>3 DEF ExecuteCreateAccount
  <2>2. result'[i].value = a /\ a \in DOMAIN accounts' \ {Seed}
    BY <1>1, <2>1 DEF B!CreateAccount, B!Put, Executed, Ok
  <2>3. QED
    BY <1>2, <1>3, <2>2 DEF OkIsTrue, ExecuteCreateAccount
<1>4. CASE ExecuteCreateTransaction(i)
  <2>1. PICK t \in TransactionId :
          /\ B!Transfer(t, asked[i].account_id, asked[i].receiver, asked[i].amount)
          /\ Executed(i, Ok(t))
    BY <1>4 DEF ExecuteCreateTransaction
  <2>2. DOMAIN ledger' = DOMAIN ledger \cup {t} /\ ledger'[t] = PaymentOf(i)
    BY <2>1, TransferGrows DEF PaymentOf
  <2>3. result'[i].value = t
    BY <1>1, <2>1 DEF Executed, Ok
  <2>4. QED
    BY <1>2, <1>4, <2>2, <2>3, PayerHoldsToken DEF OkIsTrue, ExecuteCreateTransaction, PaymentOf
<1>5. CASE ExecuteGetTransaction(i)
  BY <1>2, <1>5 DEF OkIsTrue, ExecuteGetTransaction
<1>6. CASE ExecuteInVain(i)
  BY <1>1, <1>6 DEF OkIsTrue, ExecuteInVain, Executed, Err
<1>7. QED
  BY <1>3, <1>4, <1>5, <1>6 DEF Execute

LEMMA DiePart ==
  ASSUME IInv, Die, NEW i \in Calls
  PROVE  Part(i)'
<1>1. Part(i)
  BY DEF IInv
<1>2. /\ UNCHANGED <<issued, accounts, ledger, executions, asked, result, told>>
      /\ stage'[i] = "idle"
      /\ status'[i] = status[i] \/ (status[i] = "open" /\ status'[i] = "unknown")
  BY DEF Die, G!Die, R!GiveUp, bankVars
<1>3. InStep(i)' /\ Admitted(i)'
  BY <1>1, <1>2 DEF Part, InStep, Admitted
<1>4. OkIsTrue(i)' /\ ToldIsTrue(i)'
  BY <1>1, <1>2 DEF Part, OkIsTrue, PaymentOf, ToldIsTrue, CodeIsTrue
<1>5. QED
  BY <1>2, <1>3, <1>4 DEF Part

LEMMA OthersShape ==
  ASSUME TypeOK, Others
  PROVE  /\ Grows /\ \A i \in Calls : Same(i)
         /\ \A t \in DOMAIN ledger' \ DOMAIN ledger : ledger'[t].sender_account_id = Seed
<1> USE DEF Grows, Same, rpcVars, gateVars
<1>1. UNCHANGED <<rpcVars, gateVars, asked, result, told>>
  BY DEF Others
<1>2. CASE B!CreateSeedAccount
  <2>1. UNCHANGED ledger /\ DOMAIN accounts \subseteq DOMAIN accounts'
    BY <1>2 DEF B!CreateSeedAccount, B!Put
  <2>2. QED
    BY <1>1, <2>1
<1>3. CASE \E t \in TransactionId, r \in AccountId, n \in 1..SeedFunds : B!Transfer(t, Seed, r, n)
  <2>1. PICK t \in TransactionId, r \in AccountId, n \in 1..SeedFunds : B!Transfer(t, Seed, r, n)
    BY <1>3
  <2>2. /\ DOMAIN accounts' = DOMAIN accounts /\ DOMAIN ledger' = DOMAIN ledger \cup {t}
        /\ ledger'[t] = [sender_account_id |-> Seed, receiver_account_id |-> r, amount |-> n]
        /\ \A u \in DOMAIN ledger : ledger'[u] = ledger[u]
    BY ONLY <2>1, TransferGrows
  <2>3. QED
    BY <1>1, <2>2
<1>4. QED
  BY <1>2, <1>3 DEF Others

-----------------------------------------------------------------------------
\* The tables keep their types.

TablesOK == IsTable(accounts, AccountId, Nat) /\ IsTable(ledger, TransactionId, B!Entry)

LEMMA TransferTables ==
  ASSUME TablesOK, NEW t \in TransactionId, NEW s, NEW r, NEW n, B!Transfer(t, s, r, n)
  PROVE  TablesOK'
<1> DEFINE row == [sender_account_id |-> s, receiver_account_id |-> r, amount |-> n]
<1>1. /\ s \in DOMAIN accounts /\ r \in DOMAIN accounts /\ s # r
      /\ accounts[s] \in Nat /\ accounts[r] \in Nat
      /\ s \in AccountId /\ r \in AccountId
  BY DEF TablesOK, IsTable, B!Transfer
<1>2. n \in Nat /\ n > 0 /\ n <= accounts[s]
  BY <1>1 DEF B!Transfer
<1>3. accounts' = [accounts EXCEPT ![s] = accounts[s] - n, ![r] = accounts[r] + n]
  BY <1>1 DEF B!Transfer
<1>4. accounts[s] - n \in Nat /\ accounts[r] + n \in Nat
  BY <1>1, <1>2
<1>5. IsTable(accounts, AccountId, Nat)'
  BY <1>3, <1>4 DEF TablesOK, IsTable
<1>6. row \in B!Entry
  BY <1>1, <1>2 DEF B!Entry
<1>7. ledger' = B!Put(ledger, t, row)
  BY DEF B!Transfer, B!Record
<1> HIDE DEF row
<1>8. IsTable(ledger, TransactionId, B!Entry)'
  BY <1>6, <1>7 DEF TablesOK, IsTable, B!Put
<1>9. QED
  BY <1>5, <1>8 DEF TablesOK

LEMMA AccountTables ==
  ASSUME TablesOK, NEW a \in AccountId, NEW n \in Nat,
         accounts' = B!Put(accounts, a, n), UNCHANGED ledger
  PROVE  TablesOK'
BY DEF TablesOK, IsTable, B!Put

LEMMA ExecuteType ==
  ASSUME TypeOK, NEW i \in Calls, Execute(i)
  PROVE  TypeOK'
<1>1. TypeServe /\ TablesOK
  BY DEF TypeOK, TypeServe, TablesOK
<1>2. UNCHANGED <<issued, asked, told, status, stage, claim, code>>
  BY ExecuteShape
<1>3. \E r : r.is \in ResultKinds /\ Executed(i, r)
  <2>1. \A v : Ok(v).is \in ResultKinds /\ Err("OtherError").is \in ResultKinds
    BY DEF Ok, Err, ResultKinds
  <2>2. /\ Err("TransactionDoesNotExist").is \in ResultKinds
        /\ Err("PermissionDenied").is \in ResultKinds
    BY DEF Err, ResultKinds
  <2>3. QED
    BY <2>1, <2>2 DEF Execute, ExecuteCreateAccount, ExecuteCreateTransaction,
                      ExecuteGetTransaction, ExecuteInVain
<1>4. DOMAIN result' = Calls /\ \A j \in Calls : result'[j].is \in ResultKinds
  BY <1>1, <1>3 DEF TypeServe, Executed
<1>5. executions' \in [Calls -> {0, 1}]
  BY <1>1, <1>3 DEF TypeServe, Executed, R!Execute
<1>6. TablesOK'
  <2>1. CASE ExecuteCreateAccount(i)
    <3>1. PICK a \in AccountId : B!CreateAccount(a)
      BY <2>1 DEF ExecuteCreateAccount
    <3>2. accounts' = B!Put(accounts, a, 0) /\ UNCHANGED ledger /\ 0 \in Nat
      BY <3>1 DEF B!CreateAccount
    <3>3. QED
      BY <1>1, <3>2, AccountTables
  <2>2. CASE ExecuteCreateTransaction(i)
    <3>1. PICK t \in TransactionId :
            B!Transfer(t, asked[i].account_id, asked[i].receiver, asked[i].amount)
      BY <2>2 DEF ExecuteCreateTransaction
    <3>2. QED
      BY ONLY <1>1, <3>1, TransferTables
  <2>3. CASE ExecuteGetTransaction(i) \/ ExecuteInVain(i)
    BY <1>1, <2>3 DEF ExecuteGetTransaction, ExecuteInVain, TablesOK, bankVars
  <2>4. QED
    BY <2>1, <2>2, <2>3 DEF Execute
<1>7. QED
  BY <1>1, <1>2, <1>4, <1>5, <1>6 DEF TypeOK, TypeServe, TablesOK

LEMMA NewRow ==
  ASSUME IInv, NEW i \in Calls, ReplyNewAccount(i)
  PROVE  issued' \subseteq G!Row
<1>1. Part(i) /\ issued \subseteq G!Row /\ DOMAIN accounts \subseteq AccountId
  BY DEF IInv, TypeOK, IsTable
<1>2. CASE G!Answer(i, 500)
  BY <1>1, <1>2 DEF G!Answer
<1>3. CASE result[i].is = "ok"
           /\ \E k \in Token :
                G!Issue(i, [account_id |-> result[i].value, token_hash |-> k])
  <2>1. PICK k \in Token : G!Issue(i, [account_id |-> result[i].value, token_hash |-> k])
    BY <1>3
  <2>2. result[i].value \in AccountId \ {Seed}
    BY <1>1, <1>3 DEF Part, OkIsTrue, ReplyNewAccount
  <2>3. [account_id |-> result[i].value, token_hash |-> k] \in G!Row
    BY <2>2 DEF G!Row
  <2>4. QED
    BY <1>1, <2>1, <2>3 DEF G!Issue
<1>4. QED
  BY <1>2, <1>3 DEF ReplyNewAccount

LEMMA IssuedServe ==
  ASSUME IInv, NEW i \in Calls, Serve(i)
  PROVE  issued' \subseteq G!Row
<1>1. CASE ReplyNewAccount(i)
  BY <1>1, NewRow
<1>2. CASE ~ReplyNewAccount(i)
  <2>1. UNCHANGED issued
    BY <1>2 DEF Serve, Arrive, Check, Call, Return, Fail, Reply, Finish, gateVars,
                G!Arrive, G!TurnAway, G!Admit, G!Answer, G!Forget
  <2>2. QED
    BY <2>1 DEF IInv, TypeOK
<1>3. QED
  BY <1>1, <1>2

-----------------------------------------------------------------------------
\* Payments.

LEMMA ServePaid ==
  ASSUME IInv, NEW i \in Calls, Serve(i), NEW j \in Calls, NEW t
  PROVE  Paid(j, t)' <=> Paid(j, t)
<1>1. CASE j # i
  <2>1. Same(j)
    BY <1>1, ServeShape DEF IInv
  <2>2. QED
    BY <2>1 DEF Same, Paid
<1>2. CASE Arrive(i) /\ j = i
  <2>1. InStep(i) /\ asked[i] = NotAsked /\ result' = result
    BY <1>2 DEF IInv, Part, Arrive
  <2>2. result[i] = NoResult
    BY <2>1 DEF InStep, IInv, TypeOK
  <2>3. QED
    BY <1>2, <2>1, <2>2 DEF Paid, NoResult
<1>3. CASE ~Arrive(i)
  <2>1. UNCHANGED <<asked, result>>
    BY <1>3 DEF Serve, Check, Call, Return, Fail, Reply, ReplyNewAccount, Finish
  <2>2. QED
    BY <2>1 DEF Paid
<1>4. QED
  BY <1>1, <1>2, <1>3

LEMMA ServePayments ==
  ASSUME IInv, NEW i \in Calls, Serve(i)
  PROVE  Distinct' /\ Explained'
<1>1. \A j \in Calls : \A t : Paid(j, t)' <=> Paid(j, t)
  BY ServePaid
<1>2. UNCHANGED ledger
  BY ServeShape DEF IInv, bankVars
<1>3. Distinct'
  BY <1>1 DEF IInv, Distinct
<1>4. Explained'
  BY <1>1, <1>2 DEF IInv, Explained
<1>5. QED
  BY <1>3, <1>4

LEMMA PaidIsRecorded ==
  ASSUME IInv, NEW i \in Calls, NEW t, Paid(i, t)
  PROVE  /\ t \in DOMAIN ledger /\ ledger[t] = PaymentOf(i)
         /\ ClaimOf(asked[i]) \in issued
BY DEF IInv, Part, OkIsTrue, Paid

LEMMA ExecutePayments ==
  ASSUME IInv, NEW i \in Calls, Execute(i)
  PROVE  Distinct' /\ Explained'
<1>1. /\ Grows /\ UNCHANGED asked /\ executions[i] = 0
      /\ \A j \in Calls : j # i => Same(j)
  BY ExecuteShape DEF IInv
<1>2. \A t : ~Paid(i, t)
  BY <1>1 DEF IInv, Part, InStep, Paid, NoResult
<1>3. \A j \in Calls : \A t : j # i => (Paid(j, t)' <=> Paid(j, t))
  BY <1>1 DEF Same, Paid
<1>4. /\ \A t : Paid(i, t)' => t \notin DOMAIN ledger
      /\ \A t \in DOMAIN ledger' \ DOMAIN ledger : Paid(i, t)'
  <2>1. i \in DOMAIN result
    BY DEF IInv, TypeOK
  <2>2. CASE ExecuteCreateTransaction(i)
    <3>1. PICK t \in TransactionId :
            /\ B!Transfer(t, asked[i].account_id, asked[i].receiver, asked[i].amount)
            /\ Executed(i, Ok(t))
      BY <2>2 DEF ExecuteCreateTransaction
    <3>2. t \notin DOMAIN ledger /\ DOMAIN ledger' = DOMAIN ledger \cup {t}
      BY ONLY <3>1, TransferGrows
    <3>3. result'[i].is = "ok" /\ result'[i].value = t
      BY <2>1, <3>1 DEF Executed, Ok
    <3>4. QED
      BY <1>1, <2>2, <3>2, <3>3 DEF Paid, ExecuteCreateTransaction
  <2>3. CASE ~ExecuteCreateTransaction(i)
    <3>1. UNCHANGED ledger
      BY <2>3 DEF Execute, ExecuteCreateAccount, ExecuteGetTransaction, ExecuteInVain,
                  B!CreateAccount, bankVars
    <3>2. asked[i].type # "create_transaction" \/ result'[i].is # "ok"
      BY <2>1, <2>3 DEF Execute, ExecuteCreateAccount, ExecuteGetTransaction, ExecuteInVain,
                        Executed, Err
    <3>3. QED
      BY <1>1, <3>1, <3>2 DEF Paid
  <2>4. QED
    BY <2>2, <2>3
<1>5. \A j \in Calls : \A t : Paid(j, t) => t \in DOMAIN ledger
  BY PaidIsRecorded
<1>6. Distinct'
  BY <1>3, <1>4, <1>5 DEF IInv, Distinct
<1>7. Explained'
  <2>1. SUFFICES ASSUME NEW t \in DOMAIN ledger', ledger'[t].sender_account_id # Seed
                 PROVE  \E j \in Calls : Paid(j, t)'
    BY DEF Explained
  <2>2. CASE t \in DOMAIN ledger
    <3>1. PICK j \in Calls : Paid(j, t)
      BY <1>1, <2>1, <2>2 DEF IInv, Explained, Grows
    <3>2. QED
      BY <1>2, <1>3, <3>1
  <2>3. QED
    BY <1>4, <2>2
<1>8. QED
  BY <1>6, <1>7

LEMMA QuietPayments ==
  ASSUME IInv, UNCHANGED <<asked, result>>, Grows,
         \A t \in DOMAIN ledger' \ DOMAIN ledger : ledger'[t].sender_account_id = Seed
  PROVE  Distinct' /\ Explained'
<1>1. \A j \in Calls : \A t : Paid(j, t)' <=> Paid(j, t)
  BY DEF Paid
<1>2. Distinct'
  BY <1>1 DEF IInv, Distinct
<1>3. Explained'
  BY <1>1 DEF IInv, Explained, Grows
<1>4. QED
  BY <1>2, <1>3

-----------------------------------------------------------------------------
LEMMA InvInit == Init => IInv
<1> SUFFICES ASSUME Init PROVE IInv
  OBVIOUS
<1> USE DEF Init, B!Init, R!Init, G!Init
<1>1. TypeOK
  BY DEF TypeOK, IsTable, B!EmptyTable, NoResult, NotTold, ResultKinds
<1>2. ASSUME NEW i \in Calls PROVE Part(i)
  BY DEF Part, InStep, Admitted, OkIsTrue, ToldIsTrue, CodeIsTrue, NotTold, NoResult, NotAsked
<1>3. Distinct
  BY DEF Distinct, Paid, NotAsked
<1>4. Explained
  BY DEF Explained, B!EmptyTable
<1>5. QED
  BY <1>1, <1>2, <1>3, <1>4 DEF IInv

LEMMA InvServe ==
  ASSUME IInv, NEW i \in Calls, Serve(i)
  PROVE  IInv'
<1>1. TypeOK /\ TypeServe
  BY DEF IInv, TypeOK, TypeServe
<1>2. /\ Grows /\ UNCHANGED bankVars
      /\ \A j \in Calls : j # i => Same(j)
  BY <1>1, ServeShape
<1>3. TypeOK'
  BY <1>1, <1>2, ServeType, IssuedServe DEF TypeOK, TypeServe, bankVars
<1>4. \A j \in Calls : Part(j)'
  BY <1>2, Frame, ServePart
<1>5. QED
  BY <1>3, <1>4, ServePayments DEF IInv

LEMMA InvExecute ==
  ASSUME IInv, NEW i \in Calls, Execute(i)
  PROVE  IInv'
<1>1. Grows /\ \A j \in Calls : j # i => Same(j)
  BY ExecuteShape DEF IInv
<1>2. TypeOK'
  BY ExecuteType DEF IInv
<1>3. \A j \in Calls : Part(j)'
  BY <1>1, Frame, ExecutePart, ExecuteOkIsTrue
<1>4. QED
  BY <1>2, <1>3, ExecutePayments DEF IInv

LEMMA InvDie ==
  ASSUME IInv, Die
  PROVE  IInv'
<1>1. UNCHANGED <<accounts, ledger, executions, issued, asked, result, told>>
  BY DEF Die, G!Die, R!GiveUp, bankVars
<1>2. TypeOK'
  BY <1>1 DEF IInv, TypeOK, Die, G!Die, R!GiveUp
<1>3. Distinct' /\ Explained'
  BY <1>1, QuietPayments DEF Grows
<1>4. QED
  BY <1>2, <1>3, DiePart DEF IInv

LEMMA InvOthers ==
  ASSUME IInv, Others
  PROVE  IInv'
<1>1. /\ Grows /\ \A i \in Calls : Same(i)
      /\ \A t \in DOMAIN ledger' \ DOMAIN ledger : ledger'[t].sender_account_id = Seed
  BY OthersShape DEF IInv
<1>2. UNCHANGED <<rpcVars, gateVars, asked, result, told>>
  BY DEF Others
<1>3. TablesOK'
  <2>1. TablesOK
    BY DEF IInv, TypeOK, TablesOK
  <2>2. CASE B!CreateSeedAccount
    BY <2>1, <2>2, AccountTables, ServiceAssumption DEF B!CreateSeedAccount
  <2>3. CASE \E t \in TransactionId, r \in AccountId, n \in 1..SeedFunds :
               B!Transfer(t, Seed, r, n)
    <3>1. PICK t \in TransactionId, r \in AccountId, n \in 1..SeedFunds : B!Transfer(t, Seed, r, n)
      BY <2>3
    <3>2. QED
      BY ONLY <2>1, <3>1, TransferTables
  <2>4. QED
    BY <2>2, <2>3 DEF Others
<1>4. TypeOK'
  BY <1>2, <1>3 DEF IInv, TypeOK, TablesOK, rpcVars, gateVars
<1>5. Distinct' /\ Explained'
  BY <1>1, <1>2, QuietPayments
<1>6. QED
  BY <1>1, <1>4, <1>5, Frame DEF IInv

LEMMA InvNext == IInv /\ [Next]_vars => IInv'
<1> SUFFICES ASSUME IInv, [Next]_vars PROVE IInv'
  OBVIOUS
<1>1. CASE UNCHANGED vars
  <2>1. \A i \in Calls : Same(i)
    BY <1>1 DEF vars, rpcVars, gateVars, Same
  <2>2. Grows /\ UNCHANGED <<asked, result>> /\ DOMAIN ledger' = DOMAIN ledger
    BY <1>1 DEF vars, bankVars, gateVars, Grows
  <2>3. \A i \in Calls : Part(i)'
    BY <2>1, <2>2, Frame
  <2>4. Distinct' /\ Explained'
    BY <2>2, QuietPayments
  <2>5. TypeOK'
    BY <1>1 DEF IInv, TypeOK, vars, bankVars, rpcVars, gateVars
  <2>6. QED
    BY <2>3, <2>4, <2>5 DEF IInv
<1>2. QED
  BY <1>1, InvServe, InvExecute, InvDie, InvOthers DEF Next

LEMMA Invariant == Spec => []IInv
BY InvInit, InvNext, PTL DEF Spec

-----------------------------------------------------------------------------
\* The values of the variables, for any number of requests and accounts (the records
\* that client_gateway.rs, message.rs and the two databases exchange).
THEOREM ServiceTypeOK == Spec => []TypeOK
<1>1. IInv => TypeOK
  BY DEF IInv
<1>2. QED
  BY <1>1, Invariant, PTL

\* Coins leave an account for one request that carried its token and asked for just that
\* (create_transaction_handler() and save_transaction()).
THEOREM ServiceHoldersSpend == Spec => []HoldersSpend
<1>1. IInv => HoldersSpend
  <2>1. SUFFICES ASSUME IInv, NEW t \in DOMAIN ledger, ledger[t].sender_account_id # Seed
                 PROVE  \E i \in Calls :
                          /\ Paid(i, t) /\ ledger[t] = PaymentOf(i)
                          /\ ClaimOf(asked[i]) \in issued
                          /\ \A j \in Calls : Paid(j, t) => j = i
    BY DEF HoldersSpend
  <2>2. PICK i \in Calls : Paid(i, t)
    BY <2>1 DEF IInv, Explained
  <2>3. t \in TransactionId
    BY <2>1 DEF IInv, TypeOK, IsTable
  <2>4. \A j \in Calls : Paid(j, t) => j = i
    BY <2>1, <2>2, <2>3 DEF IInv, Distinct
  <2>5. ledger[t] = PaymentOf(i) /\ ClaimOf(asked[i]) \in issued
    BY <2>1, <2>2, PaidIsRecorded
  <2>6. QED
    BY <2>2, <2>4, <2>5
<1>2. QED
  BY <1>1, Invariant, PTL

\* What the responses of the handlers say has happened, or not, is so.
THEOREM ServiceAnswersTellTheTruth == Spec => []AnswersTellTheTruth
<1>1. IInv => AnswersTellTheTruth
  <2>1. SUFFICES ASSUME IInv PROVE AnswersTellTheTruth
    OBVIOUS
  <2>2. \A i \in Calls : told[i].code = 200 /\ asked[i].type = "create_transaction" =>
          Paid(i, told[i].value)
    BY <2>1 DEF IInv, Part, ToldIsTrue, CodeIsTrue, Paid
  <2>3. \A i \in Calls : told[i].code = 200 /\ asked[i].type = "create_transaction" =>
          told[i].value \in DOMAIN ledger /\ ledger[told[i].value] = PaymentOf(i)
    BY <2>1, <2>2, PaidIsRecorded
  <2>4. DOMAIN ledger \subseteq TransactionId
    BY <2>1 DEF IInv, TypeOK, IsTable
  <2>5. ASSUME NEW i \in Calls, told[i].code = 200, asked[i].type = "create_transaction",
               NEW j \in Calls \ {i}, asked[j].type = "create_transaction"
        PROVE  told[j].value # told[i].value \/ told[j].code # 200
    BY <2>1, <2>2, <2>3, <2>4, <2>5 DEF IInv, Distinct
  <2>6. ASSUME NEW i \in Calls, told[i].code = 200, asked[i].type = "create_account"
        PROVE  told[i].value \in issued /\ told[i].value.account_id \in DOMAIN accounts
    BY <2>1, <2>6 DEF IInv, Part, OkIsTrue, ToldIsTrue, CodeIsTrue
  <2>7. ASSUME NEW i \in Calls, told[i].code \in {400, 401}
        PROVE  status[i] = "new" /\ stage[i] = "idle"
    BY <2>1, <2>7 DEF IInv, Part, ToldIsTrue, CodeIsTrue
  <2>8. QED
    BY <2>3, <2>5, <2>6, <2>7 DEF AnswersTellTheTruth
<1>2. QED
  BY <1>1, Invariant, PTL

\* get_transaction() finds what a receipt names, and shows it to its parties.
THEOREM ServiceReceiptsAreHonoured == Spec => ReceiptsAreHonoured
<1> DEFINE Asks(i, j) ==
      /\ told[i].code = 200 /\ asked[i].type = "create_transaction"
      /\ asked[j].type = "get_transaction" /\ result[j] = NoResult
      /\ asked[j].transaction_id = told[i].value
      /\ asked[j].account_id \in {asked[i].account_id, asked[i].receiver}
    Denied == {Err("TransactionDoesNotExist"), Err("PermissionDenied")}
<1>1. ASSUME IInv, [Next]_vars, NEW i \in Calls, NEW j \in Calls, Asks(i, j)
      PROVE  result'[j] \notin Denied
  <2>1. Paid(i, told[i].value)
    BY <1>1 DEF IInv, Part, ToldIsTrue, CodeIsTrue, Paid
  <2>2. /\ asked[j].transaction_id \in DOMAIN ledger
        /\ IsParty(asked[j].account_id, ledger[asked[j].transaction_id])
    <3>1. /\ told[i].value \in DOMAIN ledger
          /\ ledger[told[i].value] = PaymentOf(i)
      BY <1>1, <2>1, PaidIsRecorded
    <3>2. /\ PaymentOf(i).sender_account_id = asked[i].account_id
          /\ PaymentOf(i).receiver_account_id = asked[i].receiver
      BY DEF PaymentOf
    <3>3. QED
      BY <1>1, <3>1, <3>2 DEF IsParty
  <2>3. CASE result'[j] = result[j]
    BY <1>1, <2>3 DEF NoResult, Err
  <2>4. CASE Execute(j)
    <3>1. j \in DOMAIN result
      BY <1>1 DEF IInv, TypeOK
    <3>2. CASE ExecuteGetTransaction(j)
      BY <2>2, <3>1, <3>2 DEF ExecuteGetTransaction, Executed, Ok, Err
    <3>3. CASE ExecuteInVain(j)
      BY <3>1, <3>3 DEF ExecuteInVain, Executed, Err
    <3>4. QED
      BY <1>1, <2>4, <3>2, <3>3 DEF Execute, ExecuteCreateAccount, ExecuteCreateTransaction
  <2>5. CASE result'[j] # result[j]
    <3>1. ~UNCHANGED result
      BY <2>5
    <3>2. ~UNCHANGED vars /\ ~Die /\ ~Others
      BY <3>1 DEF vars, Die, Others
    <3>3. PICK k \in Calls : Serve(k) \/ Execute(k)
      BY <1>1, <3>2 DEF Next
    <3>4. ~Serve(k)
      BY <3>1 DEF Serve, Arrive, Check, Call, Return, Fail, Reply, ReplyNewAccount, Finish
    <3>5. k = j
      BY <1>1, <2>5, <3>3, <3>4, ExecuteShape DEF IInv, Same
    <3>6. QED
      BY <2>4, <3>3, <3>4, <3>5
  <2>6. QED
    BY <2>3, <2>5
<1>2. IInv /\ [Next]_vars => [\A i, j \in Calls : Asks(i, j) => result'[j] \notin Denied]_vars
  BY <1>1
<1>3. QED
  BY <1>2, Invariant, PTL DEF Spec, ReceiptsAreHonoured

\* No request is executed for an account, to pay or to look up, unless it carried a token
\* issued for that account, however late the core gets to it and whatever the gateway has
\* forgotten since.  The handlers of client_gateway.rs send such a request only after
\* validate_token_response().
THEOREM ServiceExecutesOnlyAuthorised ==
  Spec => [](\A i \in Calls : executions[i] = 1 /\ asked[i].type # "create_account" =>
               ClaimOf(asked[i]) \in issued)
<1>1. ASSUME IInv, NEW i \in Calls, executions[i] = 1, asked[i].type # "create_account"
      PROVE  ClaimOf(asked[i]) \in issued
  <2>1. InStep(i) /\ Admitted(i)
    BY <1>1 DEF IInv, Part
  <2>2. status[i] \in {"open", "answered", "unknown"} /\ asked[i] # NotAsked
    BY <1>1, <2>1 DEF InStep
  <2>3. ClaimOf(asked[i]) \in issued \cup {NewClaim}
    BY <2>1, <2>2 DEF Admitted
  <2>4. asked[i] \in ClientRequest
    BY <1>1, <2>2, ServiceAssumption DEF IInv, TypeOK
  <2>5. asked[i].token \in Token
    BY <1>1, <2>4 DEF ClientRequest
  <2>6. ClaimOf(asked[i]) # NewClaim
    BY <1>1, <2>5, ServiceAssumption DEF ClaimOf, NewClaim
  <2>7. QED
    BY <2>3, <2>6
<1>2. IInv => \A i \in Calls : executions[i] = 1 /\ asked[i].type # "create_account" =>
                ClaimOf(asked[i]) \in issued
  BY <1>1
<1>3. QED
  BY <1>2, Invariant, PTL

-----------------------------------------------------------------------------
\* The whole is made of its parts: every behaviour of Service, seen at the bank or
\* at the gateway, is one that Bank or Gate allows.

LEMMA ExecuteIsBankStep ==
  ASSUME IInv, NEW i \in Calls, Execute(i)
  PROVE  [B!Next]_(B!vars)
<1>1. CASE ExecuteCreateAccount(i)
  BY <1>1 DEF ExecuteCreateAccount, B!Next
<1>2. CASE ExecuteCreateTransaction(i)
  <2> DEFINE s == asked[i].account_id
             r == asked[i].receiver
             n == asked[i].amount
  <2>1. PICK t \in TransactionId : B!Transfer(t, s, r, n)
    BY <1>2 DEF ExecuteCreateTransaction
  <2>2. IsTable(accounts, AccountId, Nat)
    BY DEF IInv, TypeOK
  <2> HIDE DEF s, r, n
  <2>3. /\ s \in DOMAIN accounts /\ r \in DOMAIN accounts
        /\ n \in 1..accounts[s]
    BY <2>1 DEF B!Transfer
  <2>4. s \in AccountId /\ r \in AccountId /\ accounts[s] \in Nat
    BY <2>2, <2>3 DEF IsTable
  <2>5. n \in 1..(accounts[s] + 1)
    BY <2>3, <2>4
  <2>6. QED
    BY <2>1, <2>3, <2>4, <2>5 DEF B!Next
<1>3. CASE ExecuteGetTransaction(i) \/ ExecuteInVain(i)
  BY <1>3 DEF ExecuteGetTransaction, ExecuteInVain, bankVars, B!vars
<1>4. QED
  BY <1>1, <1>2, <1>3 DEF Execute

LEMMA OthersIsBankStep ==
  ASSUME IInv, Others
  PROVE  B!Next
<1>1. CASE B!CreateSeedAccount
  BY <1>1 DEF B!Next
<1>2. CASE \E t \in TransactionId, r \in AccountId, n \in 1..SeedFunds : B!Transfer(t, Seed, r, n)
  <2>1. PICK t \in TransactionId, r \in AccountId, n \in 1..SeedFunds : B!Transfer(t, Seed, r, n)
    BY <1>2
  <2>2. Seed \in DOMAIN accounts /\ n \in 1..accounts[Seed]
    BY <2>1 DEF B!Transfer
  <2>3. accounts[Seed] \in Nat
    BY <2>2 DEF IInv, TypeOK, IsTable
  <2>4. n \in 1..(accounts[Seed] + 1)
    BY <2>2, <2>3
  <2>5. QED
    BY <2>1, <2>2, <2>4, ServiceAssumption DEF B!Next
<1>3. QED
  BY <1>1, <1>2 DEF Others

LEMMA NextIsBankStep == IInv /\ [Next]_vars => [B!Next]_(B!vars)
<1> SUFFICES ASSUME IInv, [Next]_vars PROVE [B!Next]_(B!vars)
  OBVIOUS
<1>1. CASE UNCHANGED bankVars
  BY <1>1 DEF bankVars, B!vars
<1>2. ASSUME NEW i \in Calls, Serve(i) PROVE UNCHANGED bankVars
  BY <1>2, ServeShape DEF IInv
<1>3. QED
  BY <1>1, <1>2, ExecuteIsBankStep, OthersIsBankStep DEF Next, Die, vars

LEMMA NextIsGateStep == IInv /\ [Next]_vars => [G!Next]_(G!vars)
<1> SUFFICES ASSUME IInv, [Next]_vars PROVE [G!Next]_(G!vars)
  OBVIOUS
<1>1. CASE UNCHANGED gateVars
  BY <1>1 DEF gateVars, G!vars
<1>2. ASSUME NEW i \in Calls, G!Serve(i) PROVE G!Next
  BY <1>2 DEF G!Next
<1>3. ASSUME NEW i \in Calls, Serve(i), ~UNCHANGED gateVars PROVE G!Serve(i)
  <2>1. CASE Arrive(i)
    BY <2>1 DEF Arrive, G!Serve
  <2>2. CASE Check(i)
    BY <2>2 DEF Check, G!Serve
  <2>3. CASE Fail(i) \/ Reply(i)
    BY <2>3 DEF Fail, Reply, StatusOf, G!Serve
  <2>4. CASE ReplyNewAccount(i)
    <3>1. CASE G!Answer(i, 500)
      BY <3>1 DEF G!Serve
    <3>2. CASE result[i].is = "ok"
               /\ \E k \in Token :
                    G!Issue(i, [account_id |-> result[i].value, token_hash |-> k])
      <4>1. PICK k \in Token : G!Issue(i, [account_id |-> result[i].value, token_hash |-> k])
        BY <3>2
      <4>2. result[i].value \in DOMAIN accounts \ {Seed} /\ DOMAIN accounts \subseteq AccountId
        BY <2>4, <3>2 DEF ReplyNewAccount, IInv, Part, OkIsTrue, TypeOK, IsTable
      <4>3. [account_id |-> result[i].value, token_hash |-> k] \in G!Row
        BY <4>2 DEF G!Row
      <4>4. QED
        BY <4>1, <4>3 DEF G!Serve
    <3>3. QED
      BY <2>4, <3>1, <3>2 DEF ReplyNewAccount
  <2>5. CASE Finish(i)
    BY <2>5 DEF Finish, G!Serve
  <2>6. QED
    BY <1>3, <2>1, <2>2, <2>3, <2>4, <2>5 DEF Serve, Call, Return
<1>4. ASSUME NEW i \in Calls, Execute(i) PROVE UNCHANGED gateVars
  BY <1>4 DEF Execute, ExecuteCreateAccount, ExecuteCreateTransaction, ExecuteGetTransaction,
              ExecuteInVain, Executed
<1>5. CASE Die
  BY <1>5 DEF Die, G!Next
<1>6. QED
  BY <1>1, <1>2, <1>3, <1>4, <1>5 DEF Next, Others, vars

\* The gateway's requests, the stipends and the transfers drive the core only by the
\* steps that Bank has (src/src/bin/client_gateway.rs, stipend.rs, seed_tx.rs).
THEOREM ServiceUsesBank == Spec => B!Spec
<1>1. Init => B!Init
  BY DEF Init
<1>2. QED
  BY <1>1, NextIsBankStep, Invariant, PTL DEF Spec, B!Spec

\* Whatever the core answers, and whenever it does, the gateway admits requests, answers
\* them and makes tokens only as Gate allows.
THEOREM ServiceUsesGate == Spec => G!Spec
<1>1. Init => G!Init
  BY DEF Init
<1>2. QED
  BY <1>1, NextIsGateStep, Invariant, PTL DEF Spec, G!Spec

-----------------------------------------------------------------------------
\* What BankProofs proves of Bank therefore holds of the service's bank.

P == INSTANCE BankProofs

LEMMA BankIsBank ==
  /\ B!Init <=> P!Init
  /\ [B!Next]_(B!vars) <=> [P!Next]_(P!vars)
<1>1. B!Init <=> P!Init
  BY DEF B!Init, P!Init, B!EmptyTable, P!EmptyTable
<1>2. B!Next <=> P!Next
  BY DEF B!Next, P!Next, B!CreateSeedAccount, P!CreateSeedAccount, B!CreateAccount,
         P!CreateAccount, B!Transfer, P!Transfer, B!Record, P!Record, B!Put, P!Put
<1>3. (UNCHANGED B!vars) <=> UNCHANGED P!vars
  BY DEF B!vars, P!vars
<1>4. QED
  BY <1>1, <1>2, <1>3

LEMMA SameTotals == \A f : P!Total(f) = B!Total(f)
<1> SUFFICES ASSUME NEW f PROVE P!Total(f) = B!Total(f)
  OBVIOUS
<1>1. P!Coins(f) = B!Coins(f)
  BY DEF P!Coins, B!Coins
<1>2. QED
  BY <1>1, Zenon DEF P!Total, B!Total, P!Cardinality, B!Cardinality

\* End to end, the coins that clients see come from the seed's endowment, and the ledger
\* explains every balance: no failure between a client and the core breaks the books.
THEOREM ServiceKeepsTheBooks == Spec => [](B!Conservation /\ B!Audit)
<1>1. P!BankAssumption
  BY ServiceAssumption DEF P!BankAssumption
<1>2. P!Spec => []P!Conservation /\ []P!Audit
  BY <1>1, P!BankConservation, P!BankAudit
<1>3. P!Conservation <=> B!Conservation
  BY SameTotals DEF P!Conservation, B!Conservation, P!Circulation, B!Circulation
<1>4. P!Audit <=> B!Audit
  <2>1. \A a : P!Endowment(a) = B!Endowment(a)
    BY DEF P!Endowment, B!Endowment
  <2>2. \A S : P!Amounts(S) = B!Amounts(S)
    BY DEF P!Amounts, B!Amounts
  <2>3. \A a : P!SentBy(a) = B!SentBy(a) /\ P!ReceivedBy(a) = B!ReceivedBy(a)
    BY DEF P!SentBy, B!SentBy, P!ReceivedBy, B!ReceivedBy
  <2>4. QED
    BY <2>1, <2>2, <2>3, SameTotals DEF P!Audit, B!Audit
<1>5. QED
  BY <1>2, <1>3, <1>4, BankIsBank, ServiceUsesBank, PTL DEF B!Spec, P!Spec
=============================================================================
