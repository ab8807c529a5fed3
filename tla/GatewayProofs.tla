--------------------------- MODULE GatewayProofs ----------------------------
(***************************************************************************)
(* Proofs about Gateway, for any number of threads, accounts and tokens:   *)
(* the two databases agree, and nothing is done for an account but for the *)
(* holder of its token.                                                    *)
(***************************************************************************)
EXTENDS Gateway, TLAPS

\* From the core's answer to the commit of the token.
Making(t) == pc[t] \in {"created", "begin", "hash", "commit"}

\* A thread works for the right kind of request.
Kind(t) ==
  /\ pc[t] = "parse" => request[t] \in Requests
  /\ pc[t] \in {"create", "created", "begin", "hash", "commit"} =>
       request[t].type = "create_account"
  /\ pc[t] \in {"select", "verify", "arguments", "call"} => request[t].type \in AccountRequests
  /\ pc[t] = "commit" => created[t].token \in Token
  /\ pc[t] # "idle" => arrived[t] <= now

\* The account that a thread makes a token for exists and has none yet.
Pending(t) ==
  Making(t) => /\ created[t].account_id \in accounts \ {Seed}
               /\ \A row \in auth : row.account_id # created[t].account_id

Part(t) ==
  /\ Kind(t)
  /\ Pending(t)
  /\ Answered(t, "create_account", 200) => Usable(created[t])
  /\ Acting(t) => HeldBySender(t)

\* No two threads make a token for the same account.
Distinct ==
  \A t, u \in Threads :
    Making(t) /\ Making(u) /\ created[t].account_id = created[u].account_id => t = u

\* The inductive invariant.
IInv ==
  /\ TypeOK
  /\ Seed \in accounts
  /\ TokensNameAccounts
  /\ Distinct
  /\ \A t \in Threads : Part(t)

-----------------------------------------------------------------------------
\* Nothing is ever removed from either database, and time does not run backwards.
Grows == accounts \subseteq accounts' /\ auth \subseteq auth' /\ now <= now'

SameLocals(t) ==
  /\ pc'[t] = pc[t] /\ request'[t] = request[t] /\ arrived'[t] = arrived[t]
  /\ created'[t] = created[t] /\ response'[t] = response[t]

\* The only rows that a step of thread t can add are for the account it has made.
RowsOf(t) ==
  \A row \in auth' \ auth : pc[t] = "commit" /\ row.account_id = created[t].account_id

AnyStep(t) == Arrive(t) \/ ThreadStep(t) \/ AuthFails(t)

LEMMA StepShape ==
  ASSUME TypeOK, NEW t \in Threads, AnyStep(t)
  PROVE  /\ Grows /\ RowsOf(t)
         /\ \A u \in Threads : u # t => SameLocals(u)
<1> USE GatewayAssumption DEF Grows, RowsOf, SameLocals, Goto, Respond, TypeOK
<1>1. CASE Arrive(t) \/ Parse(t)
  BY <1>1 DEF Arrive, Parse
<1>2. CASE CreateAccount(t)
  BY <1>2 DEF CreateAccount
<1>3. CASE CoreAnswers(t)
  BY <1>3 DEF CoreAnswers
<1>4. CASE BeginExclusive(t)
  BY <1>4 DEF BeginExclusive, locals
<1>5. CASE HashToken(t)
  BY <1>5 DEF HashToken
<1>6. CASE CommitToken(t)
  BY <1>6 DEF CommitToken
<1>7. CASE SelectTokens(t) \/ VerifyToken(t) \/ CheckArguments(t) \/ CallCore(t)
  BY <1>7
  DEF SelectTokens, FromHexString, VerifyToken, CheckArguments, CallCore, GetAccount,
      GetTransactions, GetTransaction, CreateTransaction, AnswerOf
<1>8. CASE Busy(t) \/ AuthFails(t) \/ Finish(t)
  BY <1>8 DEF Busy, AuthFails, Finish, Forget
<1>9. QED
  BY <1>1, <1>2, <1>3, <1>4, <1>5, <1>6, <1>7, <1>8 DEF AnyStep, ThreadStep

\* A thread whose locals stay the same keeps its part, as long as nobody else makes a
\* token for the account it is making one for.
LEMMA Frame ==
  ASSUME IInv, NEW u \in Threads, Grows, SameLocals(u),
         \A row \in auth' \ auth : Making(u) => row.account_id # created[u].account_id,
         now' \in Nat
  PROVE  Part(u)'
<1>1. Part(u)
  BY DEF IInv
<1>2. Kind(u)'
  BY <1>1 DEF Part, Kind, SameLocals, Grows, IInv, TypeOK
<1>3. Pending(u)'
  BY <1>1 DEF Part, Pending, Making, SameLocals, Grows
<1>4. (Answered(u, "create_account", 200) => Usable(created[u]))'
  BY <1>1 DEF Part, Answered, Usable, SameLocals, Grows
<1>5. (Acting(u) => HeldBySender(u))'
  BY <1>1 DEF Part, Acting, Answered, HeldBySender, Matching, SameLocals, Grows
<1>6. QED
  BY <1>2, <1>3, <1>4, <1>5 DEF Part

-----------------------------------------------------------------------------
\* Types.

LEMMA CreationType ==
  ASSUME NEW a \in AccountId \cup {NoAccount}, NEW k \in Token \cup {NoToken}, NEW n \in Nat
  PROVE  Creation(a, k, n) \in [account_id : AccountId \cup {NoAccount},
                                token : Token \cup {NoToken}, expiry : Nat]
BY DEF Creation

LEMMA GotoType ==
  ASSUME TypeOK, NEW t \in Threads, NEW label \in Labels, Goto(t, label)
  PROVE  pc' \in [Threads -> Labels]
BY DEF TypeOK, Goto

LEMMA RespondType ==
  ASSUME TypeOK, NEW t \in Threads, NEW code \in Codes, Respond(t, code)
  PROVE  /\ pc' \in [Threads -> Labels]
         /\ response' \in [Threads -> {0} \cup Codes]
         /\ UNCHANGED <<now, up, request, arrived>>
<1>1. "respond" \in Labels
  BY DEF Labels
<1>2. QED
  BY <1>1, GotoType DEF TypeOK, Respond

\* The steps that end in a response or go on to another label, and touch nothing but
\* their thread's lock besides.
LEMMA PlainType ==
  ASSUME TypeOK, NEW t \in Threads,
         \/ \E code \in Codes : Respond(t, code)
         \/ \E label \in Labels : Goto(t, label) /\ UNCHANGED <<now, up, request, arrived, response>>,
         UNCHANGED <<accounts, auth, created>>,
         UNCHANGED held \/ Release(t) \/ \E l \in {"shared", "exclusive"} : Lock(t, l)
  PROVE  TypeOK'
<1>1. /\ pc' \in [Threads -> Labels]
      /\ response' \in [Threads -> {0} \cup Codes]
      /\ UNCHANGED <<now, up, request, arrived>>
  BY GotoType, RespondType DEF TypeOK
<1>2. held' \in [Threads -> {"none", "shared", "exclusive"}]
  BY DEF TypeOK, Release, Lock
<1>3. QED
  BY <1>1, <1>2 DEF TypeOK

LEMMA StepType ==
  ASSUME IInv, NEW t \in Threads, AnyStep(t)
  PROVE  TypeOK'
<1> USE DEF IInv
<1>l. /\ {"parse", "create", "created", "begin", "hash", "commit", "select", "verify", "arguments",
           "call", "idle"} \subseteq Labels
      /\ {200, 400, 401, 500} \subseteq Codes
  BY DEF Labels, Codes
<1>1. CASE Arrive(t)
  <2>1. pc' \in [Threads -> Labels]
    BY <1>l, <1>1, GotoType DEF Arrive
  <2>2. QED
    BY <1>1, <2>1 DEF Arrive, TypeOK
<1>2. CASE Parse(t)
  BY <1>l, <1>2, PlainType DEF Parse
<1>3. CASE CreateAccount(t)
  <2>1. pc' \in [Threads -> Labels]
    BY <1>l, <1>3, GotoType DEF CreateAccount
  <2>2. PICK a \in NewAccount : /\ accounts' = accounts \cup {a}
                                /\ created' = [created EXCEPT ![t] = Creation(a, NoToken, 0)]
    BY <1>3 DEF CreateAccount
  <2>3. a \in AccountId
    BY <2>2 DEF NewAccount
  <2>4. QED
    BY <1>3, <2>1, <2>2, <2>3, CreationType DEF CreateAccount, TypeOK
<1>4. CASE CoreAnswers(t)
  BY <1>l, <1>4, PlainType DEF CoreAnswers
<1>5. CASE BeginExclusive(t)
  BY <1>l, <1>5, PlainType DEF BeginExclusive, locals
<1>6. CASE HashToken(t)
  <2>1. pc' \in [Threads -> Labels]
    BY <1>l, <1>6, GotoType DEF HashToken
  <2>2. PICK k \in Token : created' =
          [created EXCEPT ![t] = Creation(created[t].account_id, k, now + Lifetime)]
    BY <1>6 DEF HashToken
  <2>3. now + Lifetime \in Nat /\ created[t].account_id \in AccountId \cup {NoAccount}
    BY GatewayAssumption DEF TypeOK
  <2>4. QED
    BY <1>6, <2>1, <2>2, <2>3, CreationType DEF HashToken, TypeOK
<1>7. CASE CommitToken(t)
  <2>1. created[t].token \in Token /\ created[t].account_id \in AccountId
    BY <1>7 DEF CommitToken, Part, Kind, Pending, Making, TypeOK
  <2>2. [token_hash |-> Digest[created[t].token], account_id |-> created[t].account_id,
         expiry |-> created[t].expiry] \in AuthRow
    BY <2>1, GatewayAssumption DEF AuthRow, TypeOK
  <2>3. /\ pc' \in [Threads -> Labels]
        /\ response' \in [Threads -> {0} \cup Codes]
        /\ UNCHANGED <<now, up, request, arrived>>
    BY <1>l, <1>7, RespondType DEF CommitToken
  <2>4. QED
    BY <1>7, <2>2, <2>3 DEF CommitToken, TypeOK, Release
<1>8. CASE SelectTokens(t)
  BY <1>l, <1>8, PlainType DEF SelectTokens, FromHexString
<1>9. CASE VerifyToken(t)
  BY <1>l, <1>9, PlainType DEF VerifyToken
<1>10. CASE CheckArguments(t) \/ CallCore(t)
  BY <1>l, <1>10, PlainType
  DEF CheckArguments, CallCore, GetAccount, GetTransactions, GetTransaction,
      CreateTransaction, AnswerOf
<1>11. CASE Busy(t) \/ AuthFails(t)
  BY <1>l, <1>11, PlainType DEF Busy, AuthFails
<1>12. CASE Finish(t)
  <2>1. pc' \in [Threads -> Labels]
    BY <1>l, <1>12, GotoType DEF Finish
  <2>2. created' \in [Threads -> [account_id : AccountId \cup {NoAccount},
                                  token : Token \cup {NoToken}, expiry : Nat]]
    BY <1>12, CreationType DEF Finish, Forget, NoCreation, TypeOK
  <2>3. 0 \in 0..MaxTime
    BY GatewayAssumption
  <2>4. QED
    BY <1>12, <2>1, <2>2, <2>3 DEF Finish, Forget, TypeOK
<1>13. QED
  BY <1>1, <1>2, <1>3, <1>4, <1>5, <1>6, <1>7, <1>8, <1>9, <1>10, <1>11, <1>12 DEF AnyStep,
    ThreadStep

-----------------------------------------------------------------------------
\* A thread keeps its own part.

LEMMA GotoAt ==
  ASSUME TypeOK, NEW t \in Threads, NEW label, Goto(t, label)
  PROVE  pc'[t] = label
BY DEF TypeOK, Goto

LEMMA RespondAt ==
  ASSUME TypeOK, NEW t \in Threads, NEW code, Respond(t, code)
  PROVE  /\ pc'[t] = "respond" /\ response'[t] = code
         /\ UNCHANGED <<now, up, request, arrived>>
BY DEF TypeOK, Respond, Goto

\* A response that is not 200 promises nothing.
LEMMA Refused ==
  ASSUME IInv, NEW t \in Threads, NEW code \in Codes \ {200}, Respond(t, code), pc[t] # "idle"
  PROVE  Part(t)'
<1>1. /\ pc'[t] = "respond" /\ response'[t] # 200
      /\ UNCHANGED <<now, up, request, arrived>>
  BY RespondAt DEF IInv
<1>2. Kind(t)'
  BY <1>1 DEF Kind, IInv, Part
<1>3. QED
  BY <1>1, <1>2 DEF Part, Pending, Making, Acting, Answered

\* Going on to a label where nothing has been promised yet and no token is being made.
LEMMA Onward ==
  ASSUME IInv, NEW t \in Threads, NEW label \in {"create", "select", "verify", "call"},
         Goto(t, label), UNCHANGED <<now, request, arrived>>, pc[t] # "idle",
         label = "create" => request[t].type = "create_account",
         label # "create" => request[t].type \in AccountRequests,
         label = "call" => HeldBySender(t)'
  PROVE  Part(t)'
<1>1. pc'[t] = label
  BY GotoAt DEF IInv
<1>2. Kind(t)'
  BY <1>1 DEF Kind, IInv, Part
<1>3. QED
  BY <1>1, <1>2 DEF Part, Pending, Making, Acting, Answered

LEMMA StepPart ==
  ASSUME IInv, NEW t \in Threads, AnyStep(t), TypeOK'
  PROVE  Part(t)'
<1> USE DEF IInv
<1>c. {400, 401, 500} \subseteq Codes \ {200}
  BY DEF Codes
<1>p. Part(t)
  OBVIOUS
<1>1. CASE Arrive(t)
  <2>1. pc'[t] = "parse"
    BY <1>1, GotoAt DEF Arrive
  <2>2. arrived'[t] <= now' /\ request'[t] \in Requests
    BY <1>1 DEF Arrive, TypeOK
  <2>3. QED
    BY <2>1, <2>2 DEF Part, Kind, Pending, Making, Acting, Answered
<1>2. CASE Parse(t)
  <2>1. request[t].type \in AccountRequests \cup {"create_account"}
    BY <1>p, <1>2, GatewayAssumption DEF Parse, Part, Kind, HttpRequest
  <2>2. QED
    BY <1>c, <1>2, <2>1, Refused, Onward DEF Parse
<1>3. CASE CreateAccount(t)
  <2>1. PICK a \in NewAccount : /\ accounts' = accounts \cup {a}
                                /\ created' = [created EXCEPT ![t] = Creation(a, NoToken, 0)]
    BY <1>3 DEF CreateAccount
  <2>2. pc'[t] = "created"
    BY <1>3, GotoAt DEF CreateAccount
  <2>3. created'[t].account_id = a
    BY <2>1 DEF Creation, TypeOK
  <2>4. a \in accounts' \ {Seed} /\ \A row \in auth' : row.account_id # a
    BY <1>3, <2>1 DEF CreateAccount, NewAccount, TokensNameAccounts
  <2>5. Kind(t)'
    BY <1>p, <1>3, <2>2 DEF CreateAccount, Part, Kind
  <2>6. QED
    BY <2>2, <2>3, <2>4, <2>5 DEF Part, Pending, Acting, Answered
<1>4. CASE CoreAnswers(t)
  <2>1. CASE pc[t] = "created" /\ Goto(t, "begin") /\ UNCHANGED <<now, up, request, arrived, response>>
    <3>1. pc'[t] = "begin"
      BY <2>1, GotoAt
    <3>2. Kind(t)' /\ Pending(t)'
      BY <1>p, <1>4, <2>1, <3>1 DEF CoreAnswers, Part, Kind, Pending, Making
    <3>3. QED
      BY <3>1, <3>2 DEF Part, Acting, Answered
  <2>2. QED
    BY <1>c, <1>4, <2>1, Refused DEF CoreAnswers
<1>5. CASE BeginExclusive(t)
  <2>1. pc'[t] = "hash"
    BY <1>5, GotoAt DEF BeginExclusive
  <2>2. Kind(t)' /\ Pending(t)'
    BY <1>p, <1>5, <2>1 DEF BeginExclusive, locals, Part, Kind, Pending, Making
  <2>3. QED
    BY <2>1, <2>2 DEF Part, Acting, Answered
<1>6. CASE HashToken(t)
  <2>1. pc'[t] = "commit"
    BY <1>6, GotoAt DEF HashToken
  <2>2. PICK k \in Token : created' =
          [created EXCEPT ![t] = Creation(created[t].account_id, k, now + Lifetime)]
    BY <1>6 DEF HashToken
  <2>3. created'[t].account_id = created[t].account_id /\ created'[t].token \in Token
    BY <2>2 DEF Creation, TypeOK
  <2>4. Kind(t)' /\ Pending(t)'
    BY <1>p, <1>6, <2>1, <2>3 DEF HashToken, Part, Kind, Pending, Making
  <2>5. QED
    BY <2>1, <2>4 DEF Part, Acting, Answered
<1>7. CASE CommitToken(t)
  <2>1. /\ pc'[t] = "respond" /\ response'[t] = 200
        /\ UNCHANGED <<now, up, request, arrived>>
    BY <1>7, RespondAt DEF CommitToken
  <2>2. request'[t].type = "create_account"
    BY <1>p, <1>7, <2>1 DEF CommitToken, Part, Kind
  <2>3. Usable(created[t])'
    <3>1. created[t].account_id \in accounts' /\ created' = created
      BY <1>p, <1>7 DEF CommitToken, Part, Pending, Making
    <3>2. [token_hash |-> Digest[created[t].token], account_id |-> created[t].account_id,
           expiry |-> created[t].expiry] \in auth'
      BY <1>7 DEF CommitToken
    <3>3. QED
      BY <3>1, <3>2 DEF Usable
  <2>4. Kind(t)'
    BY <1>p, <1>7, <2>1 DEF CommitToken, Part, Kind
  <2>5. QED
    BY <2>1, <2>2, <2>3, <2>4 DEF Part, Pending, Making, Acting, Answered, AccountRequests
<1>8. CASE SelectTokens(t)
  BY <1>c, <1>p, <1>8, Refused, Onward DEF SelectTokens, FromHexString, Part, Kind
<1>9. CASE VerifyToken(t)
  <2>1. CASE Respond(t, 401)
    BY <1>c, <1>9, <2>1, Refused DEF VerifyToken
  <2>2. CASE \E row \in Matching(request[t]) :
               now <= row.expiry /\ Goto(t, "arguments")
               /\ UNCHANGED <<now, up, request, arrived, response>>
    <3>1. PICK row \in Matching(request[t]) : now <= row.expiry
      BY <2>2
    <3>2. pc'[t] = "arguments" /\ UNCHANGED <<now, request, arrived>>
      BY <2>2, GotoAt
    <3>3. Kind(t)'
      BY <1>p, <1>9, <3>2 DEF VerifyToken, Part, Kind
    <3>4. arrived[t] <= row.expiry
      BY <1>p, <1>9, <3>1 DEF VerifyToken, Part, Kind, TypeOK, Matching, AuthRow
    <3>5. row \in auth /\ row.account_id = request[t].account_id /\ row.account_id # Seed
      BY <3>1 DEF Matching, TokensNameAccounts
    <3>6. HeldBySender(t)'
      BY <1>9, <3>1, <3>2, <3>4, <3>5 DEF VerifyToken, HeldBySender, Matching
    <3>7. QED
      BY <3>2, <3>3, <3>6 DEF Part, Pending, Making, Answered
  <2>3. QED
    BY <1>9, <2>1, <2>2 DEF VerifyToken
<1>10. CASE CheckArguments(t)
  <2>1. CASE Goto(t, "call") /\ UNCHANGED <<now, up, request, arrived, response>>
    <3>1. HeldBySender(t)'
      BY <1>p, <1>10, <2>1 DEF CheckArguments, Part, Acting, HeldBySender, Matching
    <3>2. QED
      BY <1>p, <1>10, <2>1, <3>1, Onward DEF CheckArguments, Part, Kind
  <2>2. QED
    BY <1>c, <1>10, <2>1, Refused DEF CheckArguments
<1>11. CASE CallCore(t)
  <2>1. CASE Respond(t, 200)
    <3>1. /\ pc'[t] = "respond" /\ UNCHANGED <<now, request, arrived>>
      BY <2>1, RespondAt
    <3>2. HeldBySender(t)'
      BY <1>p, <1>11, <3>1
      DEF CallCore, GetAccount, GetTransactions, GetTransaction, CreateTransaction, AnswerOf,
          Part, Acting, HeldBySender, Matching
    <3>3. Kind(t)' /\ request'[t].type # "create_account"
      BY <1>p, <1>11, <3>1
      DEF CallCore, GetAccount, GetTransactions, GetTransaction, CreateTransaction, AnswerOf,
          Part, Kind, AccountRequests
    <3>4. QED
      BY <3>1, <3>2, <3>3 DEF Part, Pending, Making, Answered
  <2>2. QED
    BY <1>c, <1>11, <2>1, Refused
    DEF CallCore, GetAccount, GetTransactions, GetTransaction, CreateTransaction, AnswerOf
<1>12. CASE Busy(t) \/ AuthFails(t)
  BY <1>c, <1>12, Refused DEF Busy, AuthFails
<1>13. CASE Finish(t)
  <2>1. pc'[t] = "idle"
    BY <1>13, GotoAt DEF Finish
  <2>2. QED
    BY <2>1 DEF Part, Kind, Pending, Making, Acting, Answered
<1>14. QED
  BY <1>1, <1>2, <1>3, <1>4, <1>5, <1>6, <1>7, <1>8, <1>9, <1>10, <1>11, <1>12, <1>13
     DEF AnyStep, ThreadStep

-----------------------------------------------------------------------------
\* The steps of a thread keep the invariant.

LEMMA StepTokens ==
  ASSUME IInv, NEW t \in Threads, AnyStep(t)
  PROVE  TokensNameAccounts'
<1> USE DEF IInv
<1>1. Grows /\ RowsOf(t)
  BY StepShape
<1>2. CASE auth' = auth
  BY <1>1, <1>2 DEF Grows, TokensNameAccounts
<1>3. CASE auth' # auth
  <2>1. pc[t] = "commit"
    BY <1>1, <1>3 DEF Grows, RowsOf
  <2>2. /\ created[t].account_id \in accounts \ {Seed}
        /\ \A row \in auth : row.account_id # created[t].account_id
    BY <2>1 DEF Part, Pending, Making
  <2>3. CommitToken(t)
    BY <1>3
    DEF AnyStep, ThreadStep, Arrive, Parse, CreateAccount, CoreAnswers, BeginExclusive,
        HashToken, SelectTokens, FromHexString, VerifyToken, CheckArguments, CallCore,
        GetAccount, GetTransactions, GetTransaction, CreateTransaction, AnswerOf, Busy,
        AuthFails, Finish
  <2> DEFINE new == [token_hash |-> Digest[created[t].token],
                     account_id |-> created[t].account_id, expiry |-> created[t].expiry]
  <2>4. auth' = auth \cup {new} /\ new.account_id = created[t].account_id
    BY <2>3 DEF CommitToken
  <2> HIDE DEF new
  <2>5. QED
    BY <1>1, <2>2, <2>4 DEF Grows, TokensNameAccounts
<1>4. QED
  BY <1>2, <1>3

\* Only the core's answer gives a thread an account to make a token for, and it is new.
LEMMA StepMaking ==
  ASSUME IInv, NEW t \in Threads, AnyStep(t), Making(t)'
  PROVE  \/ Making(t) /\ created'[t].account_id = created[t].account_id
         \/ created'[t].account_id \notin accounts
<1> USE DEF IInv
<1>1. CASE CreateAccount(t)
  BY <1>1 DEF CreateAccount, NewAccount, Creation, TypeOK
<1>2. CASE CoreAnswers(t)
  BY <1>2, GotoAt, RespondAt DEF CoreAnswers, Making
<1>3. CASE BeginExclusive(t)
  BY <1>3 DEF BeginExclusive, locals, Making
<1>4. CASE HashToken(t)
  BY <1>4 DEF HashToken, Creation, Making, TypeOK
<1>5. CASE CommitToken(t)
  BY <1>5, RespondAt DEF CommitToken, Making
<1>6. CASE Arrive(t) \/ Parse(t) \/ Finish(t)
  <2>1. pc'[t] \in {"parse", "respond", "create", "select", "idle"}
    BY <1>6, GotoAt, RespondAt DEF Arrive, Parse, Finish
  <2>2. QED
    BY <2>1 DEF Making
<1>7. CASE SelectTokens(t) \/ VerifyToken(t) \/ CheckArguments(t) \/ CallCore(t)
  <2>1. pc'[t] \in {"respond", "verify", "arguments", "call"}
    BY <1>7, GotoAt, RespondAt
    DEF SelectTokens, FromHexString, VerifyToken, CheckArguments, CallCore, GetAccount,
        GetTransactions, GetTransaction, CreateTransaction, AnswerOf
  <2>2. QED
    BY <2>1 DEF Making
<1>8. CASE Busy(t) \/ AuthFails(t)
  <2>1. pc'[t] = "respond"
    BY <1>8, RespondAt DEF Busy, AuthFails
  <2>2. QED
    BY <2>1 DEF Making
<1>9. QED
  BY <1>1, <1>2, <1>3, <1>4, <1>5, <1>6, <1>7, <1>8 DEF AnyStep, ThreadStep

LEMMA StepDistinct ==
  ASSUME IInv, NEW t \in Threads, AnyStep(t)
  PROVE  Distinct'
<1> USE DEF IInv
<1>1. \A u \in Threads : u # t => SameLocals(u)
  BY StepShape
<1>2. \A u \in Threads : Making(u) => created[u].account_id \in accounts
  BY DEF Part, Pending
<1>3. Making(t)' => \/ Making(t) /\ created'[t].account_id = created[t].account_id
                    \/ created'[t].account_id \notin accounts
  BY StepMaking
<1>4. \A u \in Threads \ {t} :
        Making(u)' => Making(u) /\ created'[u].account_id = created[u].account_id
  BY <1>1 DEF SameLocals, Making
<1>5. QED
  BY <1>2, <1>3, <1>4 DEF Distinct

LEMMA StepInv ==
  ASSUME IInv, NEW t \in Threads, AnyStep(t)
  PROVE  IInv'
<1>1. TypeOK'
  BY StepType
<1>2. Grows /\ RowsOf(t) /\ \A u \in Threads : u # t => SameLocals(u)
  BY StepShape DEF IInv
<1>3. (Seed \in accounts)'
  BY <1>2 DEF Grows, IInv
<1>4. TokensNameAccounts' /\ Distinct'
  BY StepTokens, StepDistinct
<1>5. ASSUME NEW u \in Threads PROVE Part(u)'
  <2>1. CASE u = t
    BY <1>1, <2>1, StepPart
  <2>2. CASE u # t
    <3>1. \A row \in auth' \ auth : Making(u) => row.account_id # created[u].account_id
      BY <1>2, <2>2 DEF RowsOf, Making, IInv, Distinct
    <3>2. now' \in Nat
      BY <1>1, GatewayAssumption DEF TypeOK
    <3>3. QED
      BY <1>2, <2>2, <3>1, <3>2, Frame
  <2>3. QED
    BY <2>1, <2>2
<1>6. QED
  BY <1>1, <1>3, <1>4, <1>5 DEF IInv

-----------------------------------------------------------------------------
\* The steps of no thread.

\* The gateway starts, the core makes an account, a day passes.
LEMMA QuietInv ==
  ASSUME IInv, Start \/ OtherAccount \/ Tick
  PROVE  IInv'
<1>1. TypeOK'
  <2>1. CASE Start \/ OtherAccount
    BY <2>1 DEF IInv, TypeOK, Start, OtherAccount, NewAccount, locals
  <2>2. CASE Tick
    <3>1. now' \in 0..MaxTime /\ UNCHANGED <<accounts, auth, up, held, pc, locals>>
      BY <2>2, GatewayAssumption DEF IInv, TypeOK, Tick
    <3>2. QED
      BY <3>1 DEF IInv, TypeOK, locals
  <2>3. QED
    BY <2>1, <2>2
<1>2. Grows /\ auth' = auth /\ \A u \in Threads : SameLocals(u)
  BY DEF Start, OtherAccount, Tick, locals, Grows, SameLocals, IInv, TypeOK
<1>3. TokensNameAccounts' /\ (Seed \in accounts)'
  BY <1>2 DEF Grows, IInv, TokensNameAccounts
<1>4. Distinct'
  BY <1>2 DEF IInv, Distinct, Making, SameLocals
<1>5. now' \in Nat
  BY <1>1, GatewayAssumption DEF TypeOK
<1>6. \A u \in Threads : Part(u)'
  BY <1>2, <1>5, Frame
<1>7. QED
  BY <1>1, <1>3, <1>4, <1>6 DEF IInv

\* A thread that is idle has promised nothing.
LEMMA IdlePart ==
  ASSUME NEW u \in Threads, pc[u] = "idle"
  PROVE  Part(u) /\ ~Making(u)
BY DEF Part, Kind, Pending, Making, Acting, Answered

LEMMA DieInv ==
  ASSUME IInv, Die
  PROVE  IInv'
<1>1. \A u \in Threads : pc'[u] = "idle"
  BY DEF Die
<1>2. TypeOK'
  <2>1. "idle" \in Labels /\ 0 \in 0..MaxTime
    BY GatewayAssumption DEF Labels
  <2>2. NoCreation \in [account_id : AccountId \cup {NoAccount},
                        token : Token \cup {NoToken}, expiry : Nat]
    BY CreationType DEF NoCreation
  <2>3. QED
    BY <2>1, <2>2 DEF Die, IInv, TypeOK
<1>3. \A u \in Threads : Part(u)' /\ ~Making(u)'
  BY <1>1 DEF Part, Kind, Pending, Making, Acting, Answered
<1>4. QED
  BY <1>2, <1>3 DEF Die, IInv, TokensNameAccounts, Distinct

LEMMA InitInv == Init => IInv
<1> SUFFICES ASSUME Init PROVE IInv
  OBVIOUS
<1>1. TypeOK
  <2>1. "idle" \in Labels /\ 0 \in 0..MaxTime /\ Seed \in AccountId
    BY GatewayAssumption DEF Labels
  <2>2. NoCreation \in [account_id : AccountId \cup {NoAccount},
                        token : Token \cup {NoToken}, expiry : Nat]
    BY CreationType DEF NoCreation
  <2>3. QED
    BY <2>1, <2>2 DEF Init, TypeOK
<1>2. \A u \in Threads : Part(u) /\ ~Making(u)
  BY IdlePart DEF Init
<1>3. QED
  BY <1>1, <1>2 DEF Init, IInv, TokensNameAccounts, Distinct

LEMMA Inductive == IInv /\ [Next]_vars => IInv'
<1> SUFFICES ASSUME IInv, [Next]_vars PROVE IInv'
  OBVIOUS
<1>1. CASE Start \/ OtherAccount \/ Tick
  BY <1>1, QuietInv
<1>2. CASE Die
  BY <1>2, DieInv
<1>3. CASE \E t \in Threads : AnyStep(t)
  BY <1>3, StepInv
<1>4. CASE UNCHANGED vars
  BY <1>4 DEF vars, locals, IInv, TypeOK, TokensNameAccounts, Distinct, Making, Part, Kind,
              Pending, Usable, Acting, Answered, HeldBySender, Matching
<1>5. QED
  BY <1>1, <1>2, <1>3, <1>4 DEF Next, AnyStep

\* Every state that the gateway reaches satisfies the inductive invariant.
THEOREM Invariant == Spec => []IInv
BY InitInv, Inductive, PTL DEF Spec

\* Every variable keeps its type, for any number of threads and requests.
THEOREM GatewayTypeOK == Spec => []TypeOK
<1>1. IInv => TypeOK
  BY DEF IInv
<1>2. QED
  BY <1>1, Invariant, PTL

\* create_account_handler() is the only tie between core.db3 and auth.db3, and it is
\* enough: each token's account exists, has no other token and is not the seed.
THEOREM GatewayTokens == Spec => []TokensNameAccounts
<1>1. IInv => TokensNameAccounts
  BY DEF IInv
<1>2. QED
  BY <1>1, Invariant, PTL

\* A client that create_account_handler() tells its account and token can use them.
THEOREM GatewayCreated == Spec => []CreatedMeansUsable
<1>1. IInv => CreatedMeansUsable
  BY DEF IInv, Part, CreatedMeansUsable
<1>2. QED
  BY <1>1, Invariant, PTL

\* Between validate_token() and the answer, a handler works only for an account whose
\* token the request carries, unexpired when it arrived, and never for the seed.
THEOREM GatewayActs == Spec => []ActsForHolder
<1>1. IInv => ActsForHolder
  BY DEF IInv, Part, ActsForHolder
<1>2. QED
  BY <1>1, Invariant, PTL

-----------------------------------------------------------------------------
\* The locks on auth.db3.

\* A thread's lock is the one its program counter calls for.
LockAt(t) ==
  /\ held[t] = "exclusive" <=> pc[t] \in {"hash", "commit"}
  /\ held[t] = "shared" <=> pc[t] = "verify"

\* A step of t changes only t's lock, and takes one only if no other thread objects.
OwnLock(t) ==
  /\ \A u \in Threads \ {t} : held'[u] = held[u] /\ pc'[u] = pc[u]
  /\ held'[t] \in {held[t], "none"} \/ ~Blocked(t, held'[t])

LEMMA LockStep ==
  ASSUME TypeOK, NEW t \in Threads, LockAt(t), AnyStep(t)
  PROVE  LockAt(t)' /\ OwnLock(t)
<1>0. \A label : Goto(t, label) =>
        pc'[t] = label /\ \A u \in Threads \ {t} : pc'[u] = pc[u]
  BY DEF Goto, TypeOK
<1>1. \A code : Respond(t, code) =>
        pc'[t] = "respond" /\ \A u \in Threads \ {t} : pc'[u] = pc[u]
  BY <1>0 DEF Respond
<1>2. Release(t) => held'[t] = "none" /\ \A u \in Threads \ {t} : held'[u] = held[u]
  BY DEF Release, TypeOK
<1>3. \A lock : Lock(t, lock) =>
        /\ held'[t] = lock /\ ~Blocked(t, lock)
        /\ \A u \in Threads \ {t} : held'[u] = held[u]
  BY DEF Lock, TypeOK
<1>4. held[t] \in {"none", "shared", "exclusive"}
  BY DEF TypeOK
<1> USE DEF LockAt, OwnLock
<1>5. CASE Arrive(t) \/ Parse(t) \/ CreateAccount(t) \/ CoreAnswers(t)
  BY <1>0, <1>1, <1>5 DEF Arrive, Parse, CreateAccount, CoreAnswers
<1>6. CASE BeginExclusive(t)
  BY <1>0, <1>3, <1>6 DEF BeginExclusive
<1>7. CASE HashToken(t)
  BY <1>0, <1>7 DEF HashToken
<1>8. CASE CommitToken(t)
  BY <1>1, <1>2, <1>8 DEF CommitToken
<1>9. CASE SelectTokens(t)
  BY <1>0, <1>1, <1>3, <1>9 DEF SelectTokens, FromHexString
<1>10. CASE VerifyToken(t)
  BY <1>0, <1>1, <1>2, <1>10 DEF VerifyToken
<1>11. CASE CheckArguments(t) \/ CallCore(t)
  BY <1>0, <1>1, <1>11
  DEF CheckArguments, CallCore, GetAccount, GetTransactions, GetTransaction,
      CreateTransaction, AnswerOf
<1>12. CASE Busy(t)
  BY <1>1, <1>12 DEF Busy
<1>13. CASE AuthFails(t)
  BY <1>1, <1>2, <1>13 DEF AuthFails
<1>14. CASE Finish(t)
  BY <1>0, <1>14 DEF Finish
<1>15. QED
  BY <1>5, <1>6, <1>7, <1>8, <1>9, <1>10, <1>11, <1>12, <1>13, <1>14 DEF AnyStep, ThreadStep

LEMMA LocksInductive == IInv /\ AuthLocks /\ [Next]_vars => AuthLocks'
<1> SUFFICES ASSUME IInv, AuthLocks, [Next]_vars PROVE AuthLocks'
  OBVIOUS
<1>1. CASE UNCHANGED <<held, pc>>
  BY <1>1 DEF AuthLocks, Blocked
<1>2. CASE Die
  BY <1>2 DEF Die, AuthLocks
<1>3. ASSUME NEW t \in Threads, AnyStep(t) PROVE AuthLocks'
  <2>1. LockAt(t)' /\ OwnLock(t)
    BY <1>3, LockStep DEF IInv, AuthLocks, LockAt
  <2>2. ASSUME NEW u \in Threads PROVE LockAt(u)'
    BY <2>1 DEF OwnLock, AuthLocks, LockAt
  <2>3. ASSUME NEW u \in Threads, NEW w \in Threads \ {u}, held'[u] # "none"
        PROVE  held'[w] # "exclusive" /\ ~(held'[u] = "exclusive" /\ held'[w] = "shared")
    BY <2>1, <2>3 DEF OwnLock, AuthLocks, Blocked, IInv, TypeOK
  <2>4. QED
    BY <2>2, <2>3 DEF LockAt, AuthLocks, Blocked
<1>4. CASE Start \/ OtherAccount \/ Tick \/ UNCHANGED vars
  BY <1>1, <1>4 DEF Start, OtherAccount, Tick, vars
<1>5. QED
  BY <1>2, <1>3, <1>4 DEF Next, AnyStep

\* auth.db3 is never written while another thread uses it, and each early return and
\* error of create_token() and validate_token() lets its lock go.
THEOREM GatewayLocks == Spec => []AuthLocks
<1>1. Init => AuthLocks
  BY DEF Init, AuthLocks
<1>2. QED
  BY <1>1, Invariant, LocksInductive, PTL DEF Spec

-----------------------------------------------------------------------------
\* The refinement: a request that works for an account has presented a token.

Presented(t) ==
  /\ pc[t] = "select" => BearerToken(request[t]) # NoToken
  /\ pc[t] \in {"verify", "arguments", "call"} => request[t].token \in Token

LEMMA PresentedStep ==
  ASSUME IInv, NEW t \in Threads, AnyStep(t), Presented(t)
  PROVE  Presented(t)'
<1> USE DEF IInv
<1>1. CASE Parse(t)
  <2>1. CASE Goto(t, "select") /\ BearerToken(request[t]) # NoToken /\ UNCHANGED request
    BY <2>1, GotoAt DEF Presented
  <2>2. CASE pc'[t] \in {"respond", "create"}
    BY <2>2 DEF Presented
  <2>3. QED
    BY <1>1, <2>1, <2>2, GotoAt, RespondAt DEF Parse
<1>2. CASE SelectTokens(t)
  <2>1. request[t] \in HttpRequest
    BY <1>2, GatewayAssumption DEF SelectTokens, FromHexString, Part, Kind, TypeOK, NoRequest,
      AccountRequests
  <2>2. CASE /\ BearerToken(request[t]) # Garbled /\ Goto(t, "verify") /\ UNCHANGED request
    <3>1. BearerToken(request[t]) \notin {NoToken, Garbled}
      BY <1>2, <2>2 DEF SelectTokens, FromHexString, Presented
    <3>2. request[t].token \in Token
      BY <2>1, <3>1 DEF BearerToken, HttpRequest
    <3>3. QED
      BY <2>2, <3>2, GotoAt DEF Presented
  <2>3. QED
    BY <1>2, <2>2, RespondAt DEF SelectTokens, FromHexString, Presented
<1>3. CASE VerifyToken(t) \/ CheckArguments(t) \/ CallCore(t)
  <2>1. CASE pc'[t] = "respond"
    BY <2>1 DEF Presented
  <2>2. QED
    BY <1>3, <2>1, GotoAt, RespondAt
    DEF VerifyToken, CheckArguments, CallCore, GetAccount, GetTransactions, GetTransaction,
        CreateTransaction, AnswerOf, Presented
<1>4. CASE Busy(t) \/ AuthFails(t)
  BY <1>4, RespondAt DEF Busy, AuthFails, Presented
<1>5. CASE Arrive(t) \/ Finish(t) \/ CreateAccount(t) \/ CoreAnswers(t)
           \/ BeginExclusive(t) \/ HashToken(t) \/ CommitToken(t)
  <2>1. pc'[t] \in {"parse", "idle", "created", "begin", "respond", "hash", "commit"}
    BY <1>5, GotoAt, RespondAt
    DEF Arrive, Finish, CreateAccount, CoreAnswers, BeginExclusive, HashToken, CommitToken
  <2>2. QED
    BY <2>1 DEF Presented
<1>6. QED
  BY <1>1, <1>2, <1>3, <1>4, <1>5 DEF AnyStep, ThreadStep

LEMMA GotoMaps ==
  ASSUME TypeOK, NEW t \in Threads, NEW label, Goto(t, label)
  PROVE  Stages' = [Stages EXCEPT ![t] = Stage(label)]
BY DEF TypeOK, Goto, Stages

\* A step to a label of the same stage that Gate does not see.
LEMMA Unseen ==
  ASSUME TypeOK, NEW t \in Threads, NEW label, Goto(t, label),
         Stage(label) = Stage(pc[t]), UNCHANGED <<auth, request, response>>
  PROVE  UNCHANGED G!vars
<1>1. Stages' = Stages
  BY GotoMaps DEF Stages
<1>2. QED
  BY <1>1 DEF G!vars, ClaimsMade, Issued

LEMMA RespondMaps ==
  ASSUME TypeOK, NEW t \in Threads, NEW c, Respond(t, c)
  PROVE  G!Done(t, c)
<1>1. Stages' = [Stages EXCEPT ![t] = "done"]
  BY GotoMaps DEF Respond, Stage
<1>2. QED
  BY <1>1 DEF Respond, G!Done, G!Become, ClaimsMade

LEMMA TurnedAway ==
  ASSUME TypeOK, NEW t \in Threads, NEW c \in {400, 401, 500}, Respond(t, c),
         pc[t] \in {"parse", "select", "verify"}, UNCHANGED auth
  PROVE  G!Serve(t)
<1>1. Stages[t] = "asked"
  BY DEF Stages, Stage
<1>2. QED
  BY <1>1, RespondMaps DEF G!Serve, G!TurnAway, Issued

LEMMA Answering ==
  ASSUME TypeOK, NEW t \in Threads, NEW c \in {200, 400, 500}, Respond(t, c),
         pc[t] \notin {"idle", "parse", "select", "verify", "respond"}, UNCHANGED auth,
         c = 200 => ClaimOf(request[t]) \in Issued
  PROVE  G!Serve(t)
<1>1. Stages[t] = "admitted" /\ ClaimsMade[t] = ClaimOf(request[t])
  BY DEF Stages, Stage, ClaimsMade
<1>2. QED
  BY <1>1, RespondMaps DEF G!Serve, G!Answer, Issued

\* A request that acts for its holder claims a token that has been issued.
LEMMA HolderClaims ==
  ASSUME NEW t \in Threads, request[t].type \in AccountRequests, request[t].token \in Token,
         NEW row \in Matching(request[t])
  PROVE  ClaimOf(request[t]) \in Issued
BY DEF ClaimOf, Matching, Issued

LEMMA IssuedGrows ==
  ASSUME NEW x, auth' = auth \cup {x}
  PROVE  Issued' = Issued \cup {[account_id |-> x.account_id, token_hash |-> x.token_hash]}
BY DEF Issued

LEMMA StepMaps ==
  ASSUME IInv, NEW t \in Threads, AnyStep(t), Presented(t)
  PROVE  G!Serve(t) \/ UNCHANGED G!vars
<1> USE DEF IInv
<1>1. CASE Arrive(t)
  <2>1. PICK r \in Requests : request' = [request EXCEPT ![t] = r]
    BY <1>1 DEF Arrive
  <2>2. Stages[t] = "idle" /\ Stages' = [Stages EXCEPT ![t] = "asked"]
    BY <1>1, GotoMaps DEF Arrive, Stages, Stage
  <2>3. ClaimsMade' = [ClaimsMade EXCEPT ![t] = ClaimOf(r)]
    BY <2>1 DEF ClaimsMade, TypeOK
  <2>4. G!Arrive(t, ClaimOf(r))
    BY <1>1, <2>2, <2>3 DEF Arrive, G!Arrive, G!Become, Issued
  <2>5. QED
    BY <2>4 DEF G!Serve
<1>2. CASE Parse(t)
  <2>1. CASE Goto(t, "create") /\ request[t].type = "create_account" /\ UNCHANGED <<request, response>>
    <3>1. Stages[t] = "asked" /\ Stages' = [Stages EXCEPT ![t] = "admitted"]
      BY <1>2, <2>1, GotoMaps DEF Parse, Stages, Stage
    <3>2. ClaimsMade[t] = NoRequest
      BY <2>1 DEF ClaimsMade, ClaimOf, AccountRequests
    <3>3. G!Admit(t)
      BY <1>2, <2>1, <3>1, <3>2 DEF Parse, G!Admit, G!Become, ClaimsMade, Issued
    <3>4. QED
      BY <3>3 DEF G!Serve
  <2>2. CASE Goto(t, "select") /\ UNCHANGED <<request, response>>
    BY <1>2, <2>2, Unseen DEF Parse, Stage
  <2>3. QED
    BY <1>2, <2>1, <2>2, TurnedAway DEF Parse
<1>3. CASE CreateAccount(t)
  BY <1>3, Unseen DEF CreateAccount, Stage
<1>4. CASE CoreAnswers(t)
  BY <1>4, Unseen, Answering DEF CoreAnswers, Stage
<1>5. CASE BeginExclusive(t)
  BY <1>5, Unseen DEF BeginExclusive, locals, Stage
<1>6. CASE HashToken(t)
  BY <1>6, Unseen DEF HashToken, Stage
<1>7. CASE CommitToken(t)
  <2> DEFINE c == created[t]
             new == [token_hash |-> Digest[c.token], account_id |-> c.account_id,
                     expiry |-> c.expiry]
             row == [account_id |-> c.account_id, token_hash |-> Digest[c.token]]
  <2>1. /\ c.account_id \in AccountId \ {Seed} /\ c.token \in Token
        /\ request[t].type = "create_account"
        /\ \A old \in auth : old.account_id # c.account_id
    BY <1>7 DEF CommitToken, Part, Kind, Pending, Making, TypeOK
  <2>2. row \in G!Row
    BY <2>1, GatewayAssumption DEF G!Row
  <2>3. Stages[t] = "admitted" /\ ClaimsMade[t] = NoRequest
    BY <1>7, <2>1 DEF CommitToken, Stages, Stage, ClaimsMade, ClaimOf, AccountRequests
  <2>4. auth' = auth \cup {new} /\ new.account_id = c.account_id /\ new.token_hash = Digest[c.token]
    BY <1>7 DEF CommitToken
  <2>5. Issued' = Issued \cup {row}
    <3> HIDE DEF new
    <3>1. QED
      BY <2>4, IssuedGrows
  <2>6. \A old \in Issued : old.account_id # row.account_id
    BY <2>1 DEF Issued
  <2>7. G!Done(t, 200)
    BY <1>7, RespondMaps DEF CommitToken
  <2>8. G!Issue(t, row)
    BY <2>3, <2>5, <2>6, <2>7 DEF G!Issue
  <2>9. QED
    BY <2>2, <2>8 DEF G!Serve
<1>8. CASE SelectTokens(t)
  BY <1>8, Unseen, TurnedAway DEF SelectTokens, FromHexString, Stage
<1>9. CASE VerifyToken(t)
  <2>1. CASE /\ Goto(t, "arguments") /\ Matching(request[t]) # {}
             /\ UNCHANGED <<request, response>>
    <3>1. Stages[t] = "asked" /\ Stages' = [Stages EXCEPT ![t] = "admitted"]
      BY <1>9, <2>1, GotoMaps DEF VerifyToken, Stages, Stage
    <3>2. ClaimsMade[t] \in Issued
      BY <1>9, <2>1, HolderClaims DEF VerifyToken, Presented, Part, Kind, ClaimsMade
    <3>3. G!Admit(t)
      BY <1>9, <2>1, <3>1, <3>2 DEF VerifyToken, G!Admit, G!Become, ClaimsMade, Issued
    <3>4. QED
      BY <3>3 DEF G!Serve
  <2>2. QED
    BY <1>9, <2>1, TurnedAway DEF VerifyToken
<1>10. CASE CheckArguments(t)
  BY <1>10, Unseen, Answering DEF CheckArguments, Stage
<1>11. CASE CallCore(t)
  <2>1. ClaimOf(request[t]) \in Issued
    BY <1>11, HolderClaims
    DEF CallCore, GetAccount, GetTransactions, GetTransaction, CreateTransaction, AnswerOf,
        Presented, Part, Kind, Acting, HeldBySender
  <2>2. QED
    BY <1>11, <2>1, Answering
    DEF CallCore, GetAccount, GetTransactions, GetTransaction, CreateTransaction, AnswerOf
<1>12. CASE Busy(t) \/ AuthFails(t)
  BY <1>12, TurnedAway, Answering DEF Busy, AuthFails
<1>13. CASE Finish(t)
  <2>1. Stages[t] = "done" /\ Stages' = [Stages EXCEPT ![t] = "idle"]
    BY <1>13, GotoMaps DEF Finish, Stages, Stage
  <2>2. ClaimsMade' = [ClaimsMade EXCEPT ![t] = NoRequest]
    BY <1>13 DEF Finish, Forget, ClaimsMade, ClaimOf, NoRequest, AccountRequests, TypeOK
  <2>3. G!Forget(t)
    BY <1>13, <2>1, <2>2 DEF Finish, Forget, G!Forget, G!Become, Issued
  <2>4. QED
    BY <2>3 DEF G!Serve
<1>14. QED
  BY <1>1, <1>2, <1>3, <1>4, <1>5, <1>6, <1>7, <1>8, <1>9, <1>10, <1>11, <1>12, <1>13
     DEF AnyStep, ThreadStep

\* What the refinement rests on, besides the invariant.
AllPresented == \A t \in Threads : Presented(t)

LEMMA PresentedInductive == IInv /\ AllPresented /\ [Next]_vars => AllPresented'
<1> SUFFICES ASSUME IInv, AllPresented, [Next]_vars PROVE AllPresented'
  OBVIOUS
<1>1. ASSUME NEW t \in Threads, AnyStep(t) PROVE AllPresented'
  <2>1. \A u \in Threads \ {t} : SameLocals(u)
    BY <1>1, StepShape DEF IInv
  <2>2. QED
    BY <1>1, <2>1, PresentedStep DEF AllPresented, Presented, SameLocals
<1>2. CASE Die
  BY <1>2 DEF Die, AllPresented, Presented
<1>3. CASE Start \/ OtherAccount \/ Tick \/ UNCHANGED vars
  BY <1>3 DEF Start, OtherAccount, Tick, vars, locals, AllPresented, Presented
<1>4. QED
  BY <1>1, <1>2, <1>3 DEF Next, AnyStep

LEMMA NextIsGateStep == IInv /\ AllPresented /\ [Next]_vars => [G!Next]_(G!vars)
<1> SUFFICES ASSUME IInv, AllPresented, [Next]_vars PROVE [G!Next]_(G!vars)
  OBVIOUS
<1>1. CASE \E t \in Threads : AnyStep(t)
  BY <1>1, StepMaps DEF AllPresented, G!Next
<1>2. CASE Die
  <2>1. /\ Stages' = [t \in Threads |-> "idle"]
        /\ ClaimsMade' = [t \in Threads |-> NoRequest]
    BY <1>2 DEF Die, Stages, Stage, ClaimsMade, ClaimOf, NoRequest, AccountRequests
  <2>2. QED
    BY <1>2, <2>1 DEF Die, G!Next, G!Die, Issued
<1>3. CASE Start \/ OtherAccount \/ Tick \/ UNCHANGED vars
  BY <1>3 DEF Start, OtherAccount, Tick, vars, locals, G!vars, Stages, ClaimsMade, Issued
<1>4. QED
  BY <1>1, <1>2, <1>3 DEF Next, AnyStep

\* The handlers and auth.rs implement Gate, for any number of threads, accounts, tokens
\* and requests: nobody is admitted without the account's token.
THEOREM GatewayImplementsGate == Spec => ImplementsGate
<1>1. Init => AllPresented /\ G!Init
  BY DEF Init, AllPresented, Presented, G!Init, Stages, Stage, ClaimsMade, ClaimOf, NoRequest,
         AccountRequests, Issued
<1>2. QED
  BY <1>1, Invariant, PresentedInductive, NextIsGateStep, PTL DEF Spec, ImplementsGate, G!Spec
=============================================================================
