----------------------------- MODULE CoreProofs -----------------------------
(***************************************************************************)
(* Proofs about Core: its types, the integrity of its transactions, and    *)
(* that it implements Bank, for any number of cores, accounts, requests    *)
(* and transactions.                                                       *)
(***************************************************************************)
EXTENDS Core, TLAPS

\* The inductive invariant.
IInv == TypeOK /\ TransactionIntegrity

-----------------------------------------------------------------------------
\* Facts about the data.

LEMMA PaymentType ==
  ASSUME NEW m \in ClientMessage \cup {SeedMessage, NoMessage}, m.type = "CreateTransaction"
  PROVE  m.sender_id \in AccountId /\ m.receiver_id \in AccountId /\ m.amount \in Int
BY DEF ClientMessage, SeedMessage, NoMessage

LEMMA PutTable ==
  ASSUME NEW f, NEW K, NEW V, NEW k \in K, NEW v \in V, IsTable(f, K, V)
  PROVE  IsTable(Put(f, k, v), K, V)
BY DEF IsTable, Put

LEMMA UpdateTable ==
  ASSUME NEW f, NEW K, NEW V, NEW k, NEW v \in V, IsTable(f, K, V)
  PROVE  IsTable([f EXCEPT ![k] = v], K, V)
BY DEF IsTable

LEMMA EmptyIsTable == ASSUME NEW K, NEW V PROVE IsTable(EmptyTable, K, V)
BY DEF IsTable, EmptyTable

LEMMA NoDraftType ==
  /\ IsTable(NoDraft.accounts, AccountId, Nat)
  /\ IsTable(NoDraft.transactions, TransactionId, Row)
BY EmptyIsTable DEF NoDraft

\* A column's entries are in its range.
LEMMA TableEntry ==
  ASSUME NEW f, NEW K, NEW V, IsTable(f, K, V), NEW k \in DOMAIN f
  PROVE  f[k] \in V
BY DEF IsTable

-----------------------------------------------------------------------------
\* A core only touches its own locals, and the database only while it holds the
\* lock or takes it.

SameLocals(c) ==
  pc'[c] = pc[c] /\ msg'[c] = msg[c] /\ new'[c] = new[c] /\ tx_funds'[c] = tx_funds[c]

LEMMA OthersKeepLocals ==
  ASSUME TypeOK, NEW c \in Cores, CoreStep(c), NEW d \in Cores, d # c
  PROVE  SameLocals(d)
<1> USE DEF SameLocals, TypeOK, Goto, Answer, Abort, NewRecord, ForgetRequest
<1>1. CASE \/ Start(c) \/ CreateAccountsTable(c) \/ CreateLedgerTable(c)
           \/ Receive(c) \/ Respond(c) \/ Exit(c)
  BY <1>1 DEF Start, CreateAccountsTable, CreateLedgerTable, Receive, Respond, Exit
<1>2. CASE Read(c) \/ StatementFails(c)
  BY <1>2 DEF Read, LoadAccount, GetAccounts, GetTransactions, GetTransaction, StatementFails
<1>3. CASE Write(c)
  <2>1. CASE DispatchCreateAccount(c) \/ DispatchCreateTransaction(c)
    BY <2>1 DEF DispatchCreateAccount, DispatchCreateTransaction
  <2>2. CASE Begin(c) \/ BeginBusy(c) \/ InsertAccount(c) \/ Commit(c)
    BY <2>2 DEF Begin, BeginBusy, NobodyWrites, InsertAccount, Commit
  <2>3. CASE SelectFunds(c) \/ UpdateSender(c) \/ UpdateReceiver(c) \/ InsertTransaction(c)
    BY <2>3 DEF SelectFunds, UpdateSender, UpdateReceiver, InsertTransaction
  <2>4. QED
    BY <1>3, <2>1, <2>2, <2>3 DEF Write
<1>4. QED
  BY <1>1, <1>2, <1>3 DEF CoreStep

LEMMA OthersKeepDatabase ==
  ASSUME NEW c \in Cores, TransactionIntegrity, CoreStep(c)
  PROVE  UNCHANGED dbVars \/ writer \in {c, NoCore}
<1> USE DEF TransactionIntegrity, LockDiscipline, InTransaction, dbVars, Goto, Answer, Abort
<1>1. CASE \/ Start(c) \/ CreateAccountsTable(c) \/ CreateLedgerTable(c)
           \/ Receive(c) \/ Respond(c) \/ Exit(c)
  BY <1>1 DEF Start, CreateAccountsTable, CreateLedgerTable, Receive, Respond, Exit
<1>2. CASE Read(c) \/ StatementFails(c)
  BY <1>2 DEF Read, LoadAccount, GetAccounts, GetTransactions, GetTransaction, StatementFails
<1>3. CASE Write(c)
  <2>1. CASE DispatchCreateAccount(c) \/ DispatchCreateTransaction(c)
    BY <2>1 DEF DispatchCreateAccount, DispatchCreateTransaction
  <2>2. CASE Begin(c) \/ BeginBusy(c) \/ InsertAccount(c) \/ Commit(c)
    BY <2>2 DEF Begin, BeginBusy, NobodyWrites, InsertAccount, Commit
  <2>3. CASE SelectFunds(c) \/ UpdateSender(c) \/ UpdateReceiver(c) \/ InsertTransaction(c)
    BY <2>3 DEF SelectFunds, UpdateSender, UpdateReceiver, InsertTransaction
  <2>4. QED
    BY <1>3, <2>1, <2>2, <2>3 DEF Write
<1>4. QED
  BY <1>1, <1>2, <1>3 DEF CoreStep

\* A core outside a transaction has nothing to say about the draft, ...
LEMMA OutsideMatches ==
  ASSUME NEW c \in Cores, pc[c] \notin InTransaction
  PROVE  DraftMatches(c)
BY DEF DraftMatches, InTransaction

\* ... and one that is not in a writing handler nothing about its request.
LEMMA IdleMatches ==
  ASSUME NEW c \in Cores, pc[c] \notin InTransaction \cup {"begin", "dispatch"}
  PROVE  RequestMatches(c) /\ DraftMatches(c)
BY DEF RequestMatches, DraftMatches, InTransaction

LEMMA Frame ==
  ASSUME IInv, NEW c \in Cores, CoreStep(c), NEW d \in Cores, d # c
  PROVE  RequestMatches(d)' /\ DraftMatches(d)'
<1>1. SameLocals(d)
  BY OthersKeepLocals DEF IInv
<1>2. RequestMatches(d) /\ DraftMatches(d)
  BY DEF IInv, TransactionIntegrity
<1>3. RequestMatches(d)'
  BY <1>1, <1>2 DEF SameLocals, RequestMatches, Paying
<1>4. CASE UNCHANGED dbVars
  BY <1>1, <1>2, <1>3, <1>4
  DEF SameLocals, dbVars, DraftMatches, Paying, Affordable, Debited, Credited, Recorded, Opened
<1>5. CASE writer \in {c, NoCore}
  <2>1. pc[d] \notin InTransaction
    BY <1>5, CoreAssumption DEF IInv, TransactionIntegrity, LockDiscipline
  <2>2. pc'[d] \notin InTransaction
    BY <1>1, <2>1 DEF SameLocals
  <2>3. DraftMatches(d)'
    BY <2>2 DEF DraftMatches, InTransaction
  <2>4. QED
    BY <1>3, <2>3
<1>6. QED
  BY <1>4, <1>5, OthersKeepDatabase DEF IInv

-----------------------------------------------------------------------------
\* Each step of a core keeps the types, the lock discipline and its own matches.

Kept(c) == TypeOK' /\ LockDiscipline' /\ RequestMatches(c)' /\ DraftMatches(c)'

\* A step outside any transaction that goes to an idle label.
LEMMA QuietKeeps ==
  ASSUME IInv, NEW c \in Cores, UNCHANGED dbVars, pc[c] \notin InTransaction,
         NEW label \in {"down", "boot", "ledger_table", "recv", "respond"}, Goto(c, label), TypeOK'
  PROVE  Kept(c)
<1>1. pc' = [pc EXCEPT ![c] = label] /\ pc'[c] = label
  BY DEF IInv, TypeOK, Goto
<1>2. LockDiscipline'
  BY <1>1 DEF IInv, TransactionIntegrity, LockDiscipline, InTransaction, dbVars
<1>3. QED
  BY <1>1, <1>2 DEF Kept, RequestMatches, DraftMatches, InTransaction

\* An early return out of the open transaction.
LEMMA AbortKeeps ==
  ASSUME IInv, NEW c \in Cores, pc[c] \in InTransaction, NEW e, Abort(c, e)
  PROVE  Kept(c)
<1>1. pc' = [pc EXCEPT ![c] = "respond"] /\ pc'[c] = "respond"
  BY DEF IInv, TypeOK, Abort, Answer, Goto
<1>2. writer = c
  BY DEF IInv, TransactionIntegrity, LockDiscipline
<1>3. TypeOK'
  BY <1>1, NoDraftType DEF IInv, TypeOK, Abort, Answer
<1>4. LockDiscipline'
  BY <1>1, <1>2, CoreAssumption
  DEF IInv, TransactionIntegrity, LockDiscipline, InTransaction, Abort, Answer
<1>5. QED
  BY <1>1, <1>3, <1>4 DEF Kept, RequestMatches, DraftMatches, InTransaction

LEMMA BootAndServeKeep ==
  ASSUME IInv, NEW c \in Cores,
         \/ Start(c) \/ CreateAccountsTable(c) \/ CreateLedgerTable(c)
         \/ Receive(c) \/ Respond(c)
  PROVE  Kept(c)
<1>1. CASE Start(c)
  <2>1. TypeOK'
    BY <1>1 DEF IInv, TypeOK, Start, Goto, dbVars
  <2>2. QED
    BY <1>1, <2>1, QuietKeeps DEF Start, InTransaction
<1>2. CASE CreateAccountsTable(c)
  <2>1. TypeOK'
    BY <1>2 DEF IInv, TypeOK, CreateAccountsTable, Goto, dbVars
  <2>2. QED
    BY <1>2, <2>1, QuietKeeps DEF CreateAccountsTable, InTransaction
<1>3. CASE CreateLedgerTable(c)
  <2>1. TypeOK'
    BY <1>3, CoreAssumption DEF IInv, TypeOK, CreateLedgerTable, Goto, dbVars
  <2>2. pc' = [pc EXCEPT ![c] = "begin"] /\ pc'[c] = "begin"
        /\ msg'[c] = SeedMessage /\ new'[c].id = Seed
    BY <1>3 DEF IInv, TypeOK, CreateLedgerTable, Goto
  <2>3. LockDiscipline'
    BY <1>3, <2>2
    DEF CreateLedgerTable, IInv, TransactionIntegrity, LockDiscipline, InTransaction, dbVars
  <2>4. RequestMatches(c)'
    BY <2>2, CoreAssumption DEF RequestMatches, InTransaction, Paying, SeedMessage
  <2>5. QED
    BY <2>1, <2>2, <2>3, <2>4 DEF Kept, DraftMatches, InTransaction
<1>4. CASE Receive(c)
  <2>1. PICK m \in Requests : msg' = [msg EXCEPT ![c] = m]
    BY <1>4 DEF Receive
  <2>2. TypeOK'
    BY <1>4, <2>1, CoreAssumption DEF IInv, TypeOK, Receive, Goto, dbVars
  <2>3. pc' = [pc EXCEPT ![c] = "dispatch"] /\ pc'[c] = "dispatch" /\ msg'[c] \in Requests
    BY <1>4, <2>1 DEF IInv, TypeOK, Receive, Goto
  <2>4. LockDiscipline'
    BY <1>4, <2>3 DEF Receive, IInv, TransactionIntegrity, LockDiscipline, InTransaction, dbVars
  <2>5. QED
    BY <2>2, <2>3, <2>4 DEF Kept, RequestMatches, DraftMatches, InTransaction
<1>5. CASE Respond(c)
  <2>1. TypeOK'
    BY <1>5 DEF IInv, TypeOK, Respond, ForgetRequest, Goto, dbVars, NoRecord
  <2>2. QED
    BY <1>5, <2>1, QuietKeeps DEF Respond, InTransaction
<1>6. QED
  BY <1>1, <1>2, <1>3, <1>4, <1>5

\* An answer given without a transaction.
LEMMA AnswerKeeps ==
  ASSUME IInv, NEW c \in Cores, UNCHANGED dbVars, pc[c] \notin InTransaction,
         NEW r, Answer(c, r)
  PROVE  Kept(c)
<1>1. TypeOK'
  BY DEF IInv, TypeOK, Answer, Goto, dbVars
<1>2. QED
  BY <1>1, QuietKeeps DEF Answer

LEMMA ReadKeeps ==
  ASSUME IInv, NEW c \in Cores, Read(c)
  PROVE  Kept(c)
<1>1. pc[c] \notin InTransaction /\ UNCHANGED dbVars
  BY DEF Read, LoadAccount, GetAccounts, GetTransactions, GetTransaction, InTransaction
<1>2. PICK r : Answer(c, r)
  BY DEF Read, LoadAccount, GetAccounts, GetTransactions, GetTransaction
<1>3. QED
  BY <1>1, <1>2, AnswerKeeps

LEMMA FailureKeeps ==
  ASSUME IInv, NEW c \in Cores, StatementFails(c) \/ Exit(c)
  PROVE  Kept(c)
<1>1. CASE StatementFails(c)
  <2>1. CASE pc[c] \in InTransaction /\ Abort(c, "SQLError")
    BY <2>1, AbortKeeps
  <2>2. CASE pc[c] \in {"begin", "dispatch"} /\ Answer(c, Err("SQLError")) /\ UNCHANGED dbVars
    BY <2>2, AnswerKeeps DEF InTransaction
  <2>3. QED
    BY <1>1, <2>1, <2>2 DEF StatementFails
<1>2. CASE Exit(c)
  <2>1. pc' = [pc EXCEPT ![c] = "down"] /\ pc'[c] = "down"
    BY <1>2 DEF IInv, TypeOK, Exit, Goto
  <2>2. TypeOK'
    BY <1>2, <2>1, NoDraftType DEF IInv, TypeOK, Exit, ForgetRequest, NoRecord
  <2>3. LockDiscipline'
    BY <1>2, <2>1, CoreAssumption
    DEF Exit, IInv, TransactionIntegrity, LockDiscipline, InTransaction
  <2>4. QED
    BY <2>1, <2>2, <2>3 DEF Kept, RequestMatches, DraftMatches, InTransaction
<1>3. QED
  BY <1>1, <1>2

LEMMA DispatchKeeps ==
  ASSUME IInv, NEW c \in Cores, DispatchCreateAccount(c) \/ DispatchCreateTransaction(c)
  PROVE  Kept(c)
<1>1. pc[c] = "dispatch" /\ UNCHANGED dbVars
  BY DEF DispatchCreateAccount, DispatchCreateTransaction
<1>2. ASSUME NEW i \in AccountId \cup TransactionId,
             new' = [new EXCEPT ![c] = [id |-> i, timestamp |-> now]],
             Goto(c, "begin"), UNCHANGED <<dbVars, now, msg, tx_funds, reply>>
      PROVE  /\ TypeOK' /\ LockDiscipline' /\ DraftMatches(c)'
             /\ pc'[c] = "begin" /\ new'[c].id = i /\ msg'[c] = msg[c]
  <2>1. pc' = [pc EXCEPT ![c] = "begin"] /\ pc'[c] = "begin" /\ new'[c].id = i /\ msg'[c] = msg[c]
    BY <1>2 DEF IInv, TypeOK, Goto
  <2>2. TypeOK'
    BY <1>2 DEF IInv, TypeOK, Goto, dbVars
  <2>3. LockDiscipline'
    BY <1>1, <2>1 DEF IInv, TransactionIntegrity, LockDiscipline, InTransaction, dbVars
  <2>4. QED
    BY <2>1, <2>2, <2>3 DEF DraftMatches, InTransaction
<1>3. CASE DispatchCreateAccount(c)
  <2>1. PICK i \in AccountId \ {Seed} : new' = [new EXCEPT ![c] = [id |-> i, timestamp |-> now]]
    BY <1>3 DEF DispatchCreateAccount, NewRecord
  <2>2. RequestMatches(c)'
    BY <1>2, <1>3, <2>1 DEF DispatchCreateAccount, RequestMatches, Paying, InTransaction
  <2>3. QED
    BY <1>2, <1>3, <2>1, <2>2 DEF DispatchCreateAccount, Kept
<1>4. CASE DispatchCreateTransaction(c)
  <2>1. CASE /\ SanityErrors(msg[c]) = {} /\ NewRecord(c, TransactionId)
             /\ Goto(c, "begin") /\ UNCHANGED <<dbVars, now, msg, tx_funds, reply>>
    <3>1. PICK i \in TransactionId : new' = [new EXCEPT ![c] = [id |-> i, timestamp |-> now]]
      BY <2>1 DEF NewRecord
    <3>2. msg[c].type = "CreateTransaction" /\ msg[c].amount \in Int
      BY <1>4, PaymentType DEF DispatchCreateTransaction, IInv, TypeOK
    <3>3. msg[c].amount > 0 /\ msg[c].sender_id # msg[c].receiver_id
      BY <2>1, <3>2 DEF SanityErrors
    <3>4. RequestMatches(c)'
      BY <1>2, <2>1, <3>1, <3>2, <3>3 DEF RequestMatches, Paying, InTransaction
    <3>5. QED
      BY <1>2, <2>1, <3>1, <3>4 DEF Kept
  <2>2. CASE \E e \in SanityErrors(msg[c]) : Answer(c, Err(e))
    BY <1>1, <2>2, AnswerKeeps DEF InTransaction
  <2>3. QED
    BY <1>4, <2>1, <2>2 DEF DispatchCreateTransaction
<1>5. QED
  BY <1>3, <1>4

LEMMA BeginKeeps ==
  ASSUME IInv, NEW c \in Cores, Begin(c) \/ BeginBusy(c)
  PROVE  Kept(c)
<1>1. CASE BeginBusy(c)
  BY <1>1, AnswerKeeps DEF BeginBusy, InTransaction
<1>2. CASE Begin(c)
  <2>1. RequestMatches(c)
    BY DEF IInv, TransactionIntegrity
  <2>2. /\ pc' = [pc EXCEPT ![c] = pc'[c]]
        /\ pc'[c] \in {"select_funds", "insert_account"}
        /\ pc'[c] = "select_funds" <=> msg[c].type = "CreateTransaction"
        /\ pc[c] = "begin"
        /\ \A d \in Cores : d # c => pc'[d] = pc[d]
    BY <1>2 DEF Begin, Goto, IInv, TypeOK
  <2>3. TypeOK'
    BY <1>2, <2>2 DEF Begin, IInv, TypeOK, InTransaction
  <2>4. LockDiscipline'
    <3>1. writer' = c /\ writer = NoCore
      BY <1>2 DEF Begin, NobodyWrites
    <3>2. ASSUME NEW d \in Cores PROVE writer' = d <=> pc'[d] \in InTransaction
      BY <2>2, <3>1, CoreAssumption DEF IInv, TransactionIntegrity, LockDiscipline, InTransaction
    <3>3. QED
      BY <3>1, <3>2, CoreAssumption DEF LockDiscipline
  <2>5. RequestMatches(c)'
    BY <1>2, <2>1, <2>2 DEF Begin, RequestMatches, Paying, InTransaction
  <2>6. DraftMatches(c)'
    BY <1>2, <2>2 DEF Begin, DraftMatches, InTransaction
  <2>7. QED
    BY <2>3, <2>4, <2>5, <2>6 DEF Kept
<1>3. QED
  BY <1>1, <1>2

\* One statement of the open transaction of core c, which goes on to label.
Statement(c, label) ==
  /\ pc[c] \in InTransaction /\ label \in InTransaction
  /\ Goto(c, label)
  /\ UNCHANGED <<accounts, transactions, writer, now, msg, new>>

LEMMA StatementFacts ==
  ASSUME IInv, NEW c \in Cores, NEW label, Statement(c, label)
  PROVE  pc' = [pc EXCEPT ![c] = label] /\ pc'[c] = label /\ writer = c /\ LockDiscipline'
<1>1. pc' = [pc EXCEPT ![c] = label] /\ pc'[c] = label
      /\ \A d \in Cores : d # c => pc'[d] = pc[d]
  BY DEF Statement, Goto, IInv, TypeOK
<1>2. writer = c /\ writer' = writer
  BY DEF Statement, IInv, TransactionIntegrity, LockDiscipline
<1>3. ASSUME NEW d \in Cores PROVE writer' = d <=> pc'[d] \in InTransaction
  BY <1>1, <1>2 DEF Statement, IInv, TransactionIntegrity, LockDiscipline
<1>4. QED
  BY <1>1, <1>2, <1>3, CoreAssumption DEF LockDiscipline

LEMMA StatementType ==
  ASSUME IInv, NEW c \in Cores, NEW label, Statement(c, label),
         IsTable(draft'.accounts, AccountId, Nat),
         IsTable(draft'.transactions, TransactionId, Row),
         tx_funds' \in [Cores -> Nat]
  PROVE  TypeOK'
BY DEF IInv, TypeOK, Statement, Goto

LEMMA InsertAccountKeeps ==
  ASSUME IInv, NEW c \in Cores, InsertAccount(c)
  PROVE  Kept(c)
<1>1. /\ pc[c] = "insert_account" /\ RequestMatches(c) /\ DraftMatches(c)
      /\ pc[c] \in InTransaction
  BY DEF InsertAccount, IInv, TransactionIntegrity, InTransaction
<1>2. CASE Abort(c, "AccountAlreadyExists")
  BY <1>1, <1>2, AbortKeeps
<1>3. CASE /\ new[c].id \notin DOMAIN draft.accounts
           /\ WriteAccounts(Put(draft.accounts, new[c].id, OpeningBalance(c)))
           /\ Goto(c, "commit")
           /\ UNCHANGED <<accounts, transactions, writer, now, msg, new, tx_funds, reply>>
  <2>1. Statement(c, "commit")
    BY <1>1, <1>3 DEF Statement, InTransaction
  <2>2. /\ ~Paying(c) /\ new[c].id \in AccountId
        /\ draft.accounts = accounts /\ draft.transactions = transactions
    BY <1>1 DEF RequestMatches, DraftMatches, Paying, InTransaction
  <2>3. OpeningBalance(c) \in Nat
    BY CoreAssumption DEF OpeningBalance
  <2>4. IsTable(draft'.accounts, AccountId, Nat) /\ IsTable(draft'.transactions, TransactionId, Row)
    BY <1>3, <2>2, <2>3, PutTable DEF WriteAccounts, IInv, TypeOK
  <2>5. TypeOK'
    BY <1>3, <2>1, <2>4, StatementType DEF IInv, TypeOK
  <2>6. pc'[c] = "commit" /\ LockDiscipline'
    BY <2>1, StatementFacts
  <2>7. RequestMatches(c)'
    BY <1>1, <1>3, <2>2, <2>6 DEF RequestMatches, Paying, InTransaction
  <2>8. DraftMatches(c)'
    BY <1>3, <2>2, <2>6 DEF DraftMatches, Paying, Opened, WriteAccounts, OpeningBalance,
      InTransaction
  <2>9. QED
    BY <2>5, <2>6, <2>7, <2>8 DEF Kept
<1>4. QED
  BY <1>2, <1>3 DEF InsertAccount

LEMMA SelectFundsKeeps ==
  ASSUME IInv, NEW c \in Cores, SelectFunds(c)
  PROVE  Kept(c)
<1>1. /\ pc[c] = "select_funds" /\ RequestMatches(c) /\ DraftMatches(c)
      /\ pc[c] \in InTransaction
  BY DEF SelectFunds, IInv, TransactionIntegrity, InTransaction
<1>2. CASE Abort(c, "SenderAccountDoesNotExist") \/ Abort(c, "SenderAccountNotEnoughFunds")
  BY <1>1, <1>2, AbortKeeps
<1>3. CASE /\ msg[c].sender_id \in DOMAIN draft.accounts
           /\ draft.accounts[msg[c].sender_id] - msg[c].amount >= 0
           /\ tx_funds' = [tx_funds EXCEPT ![c] = draft.accounts[msg[c].sender_id] - msg[c].amount]
           /\ Goto(c, "update_sender")
           /\ UNCHANGED <<dbVars, now, msg, new, reply>>
  <2>1. Statement(c, "update_sender")
    BY <1>1, <1>3 DEF Statement, InTransaction, dbVars
  <2>2. /\ Paying(c) /\ draft.accounts = accounts /\ draft.transactions = transactions
    BY <1>1 DEF RequestMatches, DraftMatches, InTransaction
  <2>3. msg[c].amount \in Int
    BY <2>2, PaymentType DEF Paying, IInv, TypeOK
  <2>4. draft.accounts[msg[c].sender_id] \in Nat
    BY <1>3, TableEntry DEF IInv, TypeOK
  <2>5. tx_funds' \in [Cores -> Nat] /\ tx_funds'[c] = accounts[msg[c].sender_id] - msg[c].amount
    BY <1>3, <2>2, <2>3, <2>4 DEF IInv, TypeOK
  <2>6. TypeOK'
    BY <1>3, <2>1, <2>5, StatementType DEF IInv, TypeOK, dbVars
  <2>7. pc'[c] = "update_sender" /\ LockDiscipline'
    BY <2>1, StatementFacts
  <2>8. RequestMatches(c)'
    BY <1>1, <1>3, <2>2, <2>7 DEF RequestMatches, Paying, InTransaction
  <2>9. DraftMatches(c)'
    BY <1>3, <2>2, <2>5, <2>7 DEF DraftMatches, Affordable, InTransaction, dbVars
  <2>10. QED
    BY <2>6, <2>7, <2>8, <2>9 DEF Kept
<1>4. QED
  BY <1>2, <1>3 DEF SelectFunds, EnoughFunds, Deducted

\* What the integrity of a transfer that has passed the funds check says of it.
LEMMA PayingFacts ==
  ASSUME IInv, NEW c \in Cores,
         pc[c] \in {"update_sender", "update_receiver", "insert_transaction"}
  PROVE  /\ RequestMatches(c) /\ DraftMatches(c) /\ pc[c] \in InTransaction
         /\ Paying(c) /\ Affordable(c) /\ draft.transactions = transactions
         /\ msg[c].sender_id # msg[c].receiver_id /\ msg[c].amount \in Nat \ {0}
         /\ msg[c].sender_id \in AccountId /\ msg[c].receiver_id \in AccountId
         /\ new[c].id \in TransactionId /\ tx_funds[c] \in Nat
<1>1. RequestMatches(c) /\ DraftMatches(c) /\ pc[c] \in InTransaction
  BY DEF IInv, TransactionIntegrity, InTransaction
<1>2. Paying(c)
  BY <1>1 DEF RequestMatches, InTransaction
<1>3. /\ msg[c].sender_id \in AccountId /\ msg[c].receiver_id \in AccountId
      /\ msg[c].amount \in Int
  BY <1>2, PaymentType DEF Paying, IInv, TypeOK
<1>4. QED
  BY <1>1, <1>2, <1>3 DEF RequestMatches, DraftMatches, InTransaction, IInv, TypeOK

LEMMA UpdateSenderKeeps ==
  ASSUME IInv, NEW c \in Cores, UpdateSender(c)
  PROVE  Kept(c)
<1>1. pc[c] = "update_sender"
  BY DEF UpdateSender
<1>2. draft.accounts = accounts
  BY <1>1, PayingFacts DEF DraftMatches
<1>3. Statement(c, "update_receiver")
  BY <1>1 DEF UpdateSender, Statement, InTransaction
<1>4. IsTable(draft'.accounts, AccountId, Nat) /\ IsTable(draft'.transactions, TransactionId, Row)
  BY <1>1, PayingFacts, UpdateTable DEF UpdateSender, WriteAccounts, IInv, TypeOK
<1>5. TypeOK'
  BY <1>3, <1>4, StatementType DEF UpdateSender, IInv, TypeOK
<1>6. pc'[c] = "update_receiver" /\ LockDiscipline'
  BY <1>3, StatementFacts
<1>7. RequestMatches(c)'
  BY <1>1, <1>6, PayingFacts DEF UpdateSender, RequestMatches, Paying, InTransaction
<1>8. draft'.accounts = Debited(c) /\ draft'.transactions = transactions
  BY <1>1, <1>2, PayingFacts DEF UpdateSender, WriteAccounts, Debited, Affordable
<1>9. DraftMatches(c)'
  BY <1>1, <1>6, <1>8, PayingFacts DEF UpdateSender, DraftMatches, Affordable, Debited,
    InTransaction
<1>10. QED
  BY <1>5, <1>6, <1>7, <1>9 DEF Kept

LEMMA UpdateReceiverKeeps ==
  ASSUME IInv, NEW c \in Cores, UpdateReceiver(c)
  PROVE  Kept(c)
<1>1. pc[c] = "update_receiver"
  BY DEF UpdateReceiver
<1>2. CASE Abort(c, "ReceiverAccountDoesNotExist")
  BY <1>1, <1>2, AbortKeeps DEF InTransaction
<1>3. CASE /\ msg[c].receiver_id \in DOMAIN draft.accounts
           /\ WriteAccounts([draft.accounts EXCEPT ![msg[c].receiver_id] = @ + msg[c].amount])
           /\ Goto(c, "insert_transaction")
           /\ UNCHANGED <<accounts, transactions, writer, now, msg, new, tx_funds, reply>>
  <2>1. draft.accounts = Debited(c)
    BY <1>1, PayingFacts DEF DraftMatches
  <2>2. Statement(c, "insert_transaction")
    BY <1>1, <1>3 DEF Statement, InTransaction
  <2>3. draft.accounts[msg[c].receiver_id] + msg[c].amount \in Nat
    BY <1>1, <1>3, PayingFacts, TableEntry DEF IInv, TypeOK
  <2>4. IsTable(draft'.accounts, AccountId, Nat) /\ IsTable(draft'.transactions, TransactionId, Row)
    BY <1>3, <2>3, UpdateTable DEF WriteAccounts, IInv, TypeOK
  <2>5. TypeOK'
    BY <1>3, <2>2, <2>4, StatementType DEF IInv, TypeOK
  <2>6. pc'[c] = "insert_transaction" /\ LockDiscipline'
    BY <2>2, StatementFacts
  <2>7. RequestMatches(c)'
    BY <1>1, <1>3, <2>6, PayingFacts DEF RequestMatches, Paying, InTransaction
  <2>8. /\ msg[c].receiver_id \in DOMAIN accounts
        /\ draft'.accounts = Credited(c) /\ draft'.transactions = transactions
    BY <1>1, <1>3, <2>1, PayingFacts DEF WriteAccounts, Debited, Credited
  <2>9. DraftMatches(c)'
    BY <1>1, <1>3, <2>6, <2>8, PayingFacts
    DEF DraftMatches, Affordable, Credited, InTransaction
  <2>10. QED
    BY <2>5, <2>6, <2>7, <2>9 DEF Kept
<1>4. QED
  BY <1>2, <1>3 DEF UpdateReceiver

LEMMA InsertTransactionKeeps ==
  ASSUME IInv, NEW c \in Cores, InsertTransaction(c)
  PROVE  Kept(c)
<1>1. pc[c] = "insert_transaction"
  BY DEF InsertTransaction
<1>2. CASE Abort(c, "SQLError")
  BY <1>1, <1>2, AbortKeeps DEF InTransaction
<1>3. CASE /\ new[c].id \notin DOMAIN draft.transactions
           /\ WriteTransactions(Put(draft.transactions, new[c].id, LedgerRow(c)))
           /\ Goto(c, "commit")
           /\ UNCHANGED <<accounts, transactions, writer, now, msg, new, tx_funds, reply>>
  <2>1. msg[c].receiver_id \in DOMAIN accounts /\ draft.accounts = Credited(c)
    BY <1>1, PayingFacts DEF DraftMatches
  <2>2. Statement(c, "commit")
    BY <1>1, <1>3 DEF Statement, InTransaction
  <2>3. LedgerRow(c) \in Row
    BY <1>1, PayingFacts DEF LedgerRow, Stamp, Row, IInv, TypeOK
  <2>4. IsTable(draft'.accounts, AccountId, Nat) /\ IsTable(draft'.transactions, TransactionId, Row)
    BY <1>1, <1>3, <2>3, PayingFacts, PutTable DEF WriteTransactions, IInv, TypeOK
  <2>5. TypeOK'
    BY <1>3, <2>2, <2>4, StatementType DEF IInv, TypeOK
  <2>6. pc'[c] = "commit" /\ LockDiscipline'
    BY <2>2, StatementFacts
  <2>7. RequestMatches(c)'
    BY <1>1, <1>3, <2>6, PayingFacts DEF RequestMatches, Paying, InTransaction
  <2>8. /\ new[c].id \notin DOMAIN transactions
        /\ draft'.transactions = Put(transactions, new[c].id, LedgerRow(c))
        /\ draft'.transactions[new[c].id] = LedgerRow(c)
        /\ draft'.accounts = draft.accounts
    BY <1>1, <1>3, PayingFacts DEF WriteTransactions, Put
  <2>9. Recorded(c)'
    BY <1>3, <2>8 DEF Recorded, LedgerRow
  <2>10. DraftMatches(c)'
    BY <1>1, <1>3, <2>1, <2>6, <2>8, <2>9, PayingFacts
    DEF DraftMatches, Paying, Affordable, Credited, InTransaction
  <2>11. QED
    BY <2>5, <2>6, <2>7, <2>10 DEF Kept
<1>4. QED
  BY <1>2, <1>3 DEF InsertTransaction

LEMMA CommitKeeps ==
  ASSUME IInv, NEW c \in Cores, Commit(c)
  PROVE  Kept(c)
<1>1. pc[c] = "commit" /\ writer = c
  BY DEF Commit, IInv, TransactionIntegrity, LockDiscipline, InTransaction
<1>2. pc' = [pc EXCEPT ![c] = "respond"] /\ pc'[c] = "respond"
      /\ \A d \in Cores : d # c => pc'[d] = pc[d]
  BY DEF Commit, Answer, Goto, IInv, TypeOK
<1>3. TypeOK'
  BY <1>2, NoDraftType DEF Commit, Published, Answer, IInv, TypeOK
<1>4. LockDiscipline'
  BY <1>1, <1>2, CoreAssumption
  DEF Commit, IInv, TransactionIntegrity, LockDiscipline, InTransaction
<1>5. QED
  BY <1>2, <1>3, <1>4 DEF Kept, RequestMatches, DraftMatches, InTransaction

-----------------------------------------------------------------------------
LEMMA InitInv == Init => IInv
<1> SUFFICES ASSUME Init PROVE IInv
  OBVIOUS
<1>1. TypeOK
  BY CoreAssumption, EmptyIsTable
  DEF Init, TypeOK, NoDraft, NoRecord, NoMessage, InTransaction
<1>2. LockDiscipline
  BY CoreAssumption DEF Init, LockDiscipline, InTransaction
<1>3. ASSUME NEW c \in Cores PROVE RequestMatches(c) /\ DraftMatches(c)
  BY IdleMatches DEF Init, InTransaction
<1>4. QED
  BY <1>1, <1>2, <1>3 DEF IInv, TransactionIntegrity

LEMMA CoreStepInv ==
  ASSUME IInv, NEW c \in Cores, CoreStep(c)
  PROVE  IInv'
<1>1. Kept(c)
  BY BootAndServeKeep, ReadKeeps, FailureKeeps, DispatchKeeps, BeginKeeps,
     InsertAccountKeeps, SelectFundsKeeps, UpdateSenderKeeps, UpdateReceiverKeeps,
     InsertTransactionKeeps, CommitKeeps DEF CoreStep, Write
<1>2. ASSUME NEW d \in Cores PROVE RequestMatches(d)' /\ DraftMatches(d)'
  BY <1>1, Frame DEF Kept
<1>3. QED
  BY <1>1, <1>2 DEF Kept, IInv, TransactionIntegrity

LEMMA NextInv == IInv /\ [Next]_vars => IInv'
<1> SUFFICES ASSUME IInv, [Next]_vars PROVE IInv'
  OBVIOUS
<1>1. CASE \E c \in Cores : CoreStep(c)
  BY <1>1, CoreStepInv
<1>2. CASE Tick \/ UNCHANGED vars
  <2>1. UNCHANGED <<accounts, transactions, writer, draft, pc, msg, new, tx_funds>> /\ now' \in Nat
    BY <1>2 DEF Tick, vars, dbVars, coreVars, IInv, TypeOK
  <2>2. TypeOK'
    BY <2>1 DEF IInv, TypeOK
  <2>3. TransactionIntegrity'
    BY <2>1 DEF IInv, TransactionIntegrity, LockDiscipline, RequestMatches, DraftMatches,
                Paying, Affordable, Debited, Credited, Recorded, Opened
  <2>4. QED
    BY <2>2, <2>3 DEF IInv
<1>3. QED
  BY <1>1, <1>2 DEF Next

LEMMA CoreInvariant == Spec => []IInv
BY InitInv, NextInv, PTL DEF Spec

\* The tables hold only rows that the schema allows and every local has its type,
\* in every reachable state of any number of cores.
THEOREM CoreTypeOK == Spec => []TypeOK
<1>1. IInv => TypeOK
  BY DEF IInv
<1>2. QED
  BY <1>1, CoreInvariant, PTL

\* One transaction at a time, and what it has written is always the prefix of a
\* whole transfer or a whole account creation.
THEOREM CoreTransactionIntegrity == Spec => []TransactionIntegrity
<1>1. IInv => TransactionIntegrity
  BY DEF IInv
<1>2. QED
  BY <1>1, CoreInvariant, PTL

-----------------------------------------------------------------------------
\* The refinement: only a COMMIT changes the committed tables, and what it commits
\* is one step of Bank.

LEMMA OnlyCommitWrites ==
  ASSUME NEW c \in Cores, CoreStep(c), ~Commit(c)
  PROVE  UNCHANGED <<accounts, transactions>>
<1> USE DEF dbVars, Abort
<1>1. CASE \/ Start(c) \/ CreateAccountsTable(c) \/ CreateLedgerTable(c)
           \/ Receive(c) \/ Respond(c) \/ Exit(c)
  BY <1>1 DEF Start, CreateAccountsTable, CreateLedgerTable, Receive, Respond, Exit
<1>2. CASE Read(c) \/ StatementFails(c)
  BY <1>2 DEF Read, LoadAccount, GetAccounts, GetTransactions, GetTransaction, StatementFails
<1>3. CASE Write(c)
  <2>1. CASE DispatchCreateAccount(c) \/ DispatchCreateTransaction(c)
    BY <2>1 DEF DispatchCreateAccount, DispatchCreateTransaction
  <2>2. CASE Begin(c) \/ BeginBusy(c) \/ InsertAccount(c)
    BY <2>2 DEF Begin, BeginBusy, InsertAccount
  <2>3. CASE SelectFunds(c) \/ UpdateSender(c) \/ UpdateReceiver(c) \/ InsertTransaction(c)
    BY <2>3 DEF SelectFunds, UpdateSender, UpdateReceiver, InsertTransaction
  <2>4. QED
    BY <1>3, <2>1, <2>2, <2>3 DEF Write
<1>4. QED
  BY <1>1, <1>2, <1>3 DEF CoreStep

LEMMA LedgerOfPut ==
  ASSUME NEW rows, NEW t, t \notin DOMAIN rows, NEW row
  PROVE  LedgerOf(Put(rows, t, row)) =
           B!Put(LedgerOf(rows), t, [sender_account_id   |-> row.sender_account_id,
                                     receiver_account_id |-> row.receiver_account_id,
                                     amount              |-> row.amount])
BY DEF LedgerOf, Put, B!Put

LEMMA CommitIsBankStep ==
  ASSUME IInv, NEW c \in Cores, Commit(c)
  PROVE  B!Next
<1>1. RequestMatches(c) /\ DraftMatches(c) /\ pc[c] = "commit"
  BY DEF IInv, TransactionIntegrity, Commit
<1>2. accounts' = draft.accounts /\ transactions' = draft.transactions
  BY DEF Commit, Published
<1>3. CASE Paying(c)
  <2> DEFINE m == msg[c]
             row == draft.transactions[new[c].id]
  <2>1. /\ m.sender_id \in AccountId /\ m.receiver_id \in AccountId /\ m.amount \in Nat \ {0}
        /\ m.sender_id # m.receiver_id /\ new[c].id \in TransactionId /\ tx_funds[c] \in Nat
    BY <1>1, <1>3, PaymentType DEF RequestMatches, Paying, InTransaction, IInv, TypeOK
  <2>2. /\ Affordable(c) /\ m.receiver_id \in DOMAIN accounts
        /\ draft.accounts = Credited(c) /\ Recorded(c)
    BY <1>1, <1>3 DEF DraftMatches
  <2>3. accounts[m.sender_id] \in Nat
    BY <2>2, TableEntry DEF Affordable, IInv, TypeOK
  <2>4. m.sender_id \in DOMAIN accounts /\ m.amount \in 1..accounts[m.sender_id]
    BY <2>1, <2>2, <2>3 DEF Affordable
  <2>5. accounts' = [accounts EXCEPT ![m.sender_id] = @ - m.amount, ![m.receiver_id] = @ + m.amount]
    BY <1>2, <2>2 DEF Credited
  <2>6. B!Record(new[c].id, m.sender_id, m.receiver_id, m.amount)
    <3>1. /\ new[c].id \notin DOMAIN transactions
          /\ transactions' = Put(transactions, new[c].id, row)
          /\ row.sender_account_id = m.sender_id
          /\ row.receiver_account_id = m.receiver_id /\ row.amount = m.amount
      BY <1>2, <2>2 DEF Recorded
    <3>2. new[c].id \notin DOMAIN LedgerOf(transactions)
      BY <3>1 DEF LedgerOf
    <3>3. LedgerOf(Put(transactions, new[c].id, row)) =
            B!Put(LedgerOf(transactions), new[c].id,
                  [sender_account_id |-> m.sender_id, receiver_account_id |-> m.receiver_id,
                   amount |-> m.amount])
      BY <3>1, LedgerOfPut
    <3>4. QED
      BY <3>1, <3>2, <3>3 DEF B!Record
  <2>7. B!Transfer(new[c].id, m.sender_id, m.receiver_id, m.amount)
    BY <2>1, <2>2, <2>4, <2>5, <2>6 DEF B!Transfer
  <2>8. m.amount \in 1..(accounts[m.sender_id] + 1)
    BY <2>3, <2>4
  <2>9. QED
    BY <2>1, <2>4, <2>7, <2>8 DEF B!Next
<1>4. CASE ~Paying(c)
  <2>1. /\ new[c].id \in AccountId /\ new[c].id \notin DOMAIN accounts
        /\ new[c].id = Seed <=> msg[c].type = "Seed"
    BY <1>1, <1>4 DEF RequestMatches, DraftMatches, Opened, InTransaction
  <2>2. /\ accounts' = Put(accounts, new[c].id, IF msg[c].type = "Seed" THEN SeedFunds ELSE 0)
        /\ UNCHANGED transactions
    BY <1>1, <1>2, <1>4 DEF DraftMatches, Opened
  <2>3. UNCHANGED LedgerOf(transactions)
    BY <2>2
  <2>4. CASE new[c].id = Seed
    BY <2>1, <2>2, <2>3, <2>4 DEF B!Next, B!CreateSeedAccount, B!Put, Put
  <2>5. CASE new[c].id # Seed
    BY <2>1, <2>2, <2>3, <2>5 DEF B!Next, B!CreateAccount, B!Put, Put
  <2>6. QED
    BY <2>4, <2>5
<1>5. QED
  BY <1>3, <1>4

LEMMA NextIsBankStep == IInv /\ [Next]_vars => [B!Next]_(B!vars)
<1> SUFFICES ASSUME IInv, [Next]_vars PROVE [B!Next]_(B!vars)
  OBVIOUS
<1>1. CASE \E c \in Cores : Commit(c)
  BY <1>1, CommitIsBankStep
<1>2. CASE UNCHANGED <<accounts, transactions>>
  BY <1>2 DEF B!vars
<1>3. QED
  BY <1>1, <1>2, OnlyCommitWrites DEF Next, Tick, vars, dbVars

\* The core implements Bank: whatever the interleaving, the failures and the crashes,
\* its committed tables change only by whole account creations and whole transfers.
THEOREM CoreImplementsBank == Spec => ImplementsBank
<1>1. Init => B!Init
  BY DEF Init, B!Init, LedgerOf, EmptyTable, B!EmptyTable
<1>2. QED
  BY <1>1, NextIsBankStep, CoreInvariant, PTL DEF Spec, ImplementsBank, B!Spec

-----------------------------------------------------------------------------
\* What BankProofs proves of Bank therefore holds of the core.

P == INSTANCE BankProofs WITH ledger <- LedgerOf(transactions)

LEMMA BankIsBank ==
  /\ B!Init <=> P!Init
  /\ [B!Next]_(B!vars) <=> [P!Next]_(P!vars)
<1>1. B!Init <=> P!Init
  BY DEF B!Init, P!Init, B!EmptyTable, P!EmptyTable
<1>2. B!Next <=> P!Next
  BY DEF B!Next, P!Next, B!CreateSeedAccount, P!CreateSeedAccount, B!CreateAccount,
         P!CreateAccount, B!Transfer, P!Transfer, B!Record, P!Record, B!Put, P!Put
<1>3. (UNCHANGED B!vars) <=> UNCHANGED P!vars
  BY DEF B!vars, P!vars
<1>4. QED
  BY <1>1, <1>2, <1>3

LEMMA SameTotals == \A f : P!Total(f) = B!Total(f)
<1> SUFFICES ASSUME NEW f PROVE P!Total(f) = B!Total(f)
  OBVIOUS
<1>1. P!Coins(f) = B!Coins(f)
  BY DEF P!Coins, B!Coins
<1>2. QED
  BY <1>1, Zenon DEF P!Total, B!Total, P!Cardinality, B!Cardinality

\* No core, crash, failure or race makes or destroys a coin.
THEOREM CoreConservesMoney == Spec => []B!Conservation
<1>1. P!BankAssumption
  BY CoreAssumption DEF P!BankAssumption
<1>2. P!Spec => []P!Conservation
  BY <1>1, P!BankConservation
<1>3. P!Conservation <=> B!Conservation
  <2>1. P!Circulation = B!Circulation
    BY DEF P!Circulation, B!Circulation
  <2>2. QED
    BY <2>1, SameTotals DEF P!Conservation, B!Conservation
<1>4. QED
  BY <1>2, <1>3, BankIsBank, CoreImplementsBank, PTL DEF ImplementsBank, B!Spec, P!Spec

\* The accounts table and the ledger that any number of cores write, statement by
\* statement, tell one story: every balance is explained by the ledger's rows, and each
\* row names two different accounts that exist.
THEOREM CoreKeepsTheBooks == Spec => [](B!Audit /\ B!LedgerPartiesExist)
<1>1. P!BankAssumption
  BY CoreAssumption DEF P!BankAssumption
<1>2. P!Spec => []P!Audit /\ []P!LedgerPartiesExist
  BY <1>1, P!BankAudit, P!BankLedgerParties
<1>3. P!Audit <=> B!Audit
  <2>1. \A a : P!Endowment(a) = B!Endowment(a)
    BY DEF P!Endowment, B!Endowment
  <2>2. \A S : P!Amounts(S) = B!Amounts(S)
    BY DEF P!Amounts, B!Amounts
  <2>3. \A a : P!SentBy(a) = B!SentBy(a) /\ P!ReceivedBy(a) = B!ReceivedBy(a)
    BY DEF P!SentBy, B!SentBy, P!ReceivedBy, B!ReceivedBy
  <2>4. QED
    BY <2>1, <2>2, <2>3, SameTotals DEF P!Audit, B!Audit
<1>4. P!LedgerPartiesExist <=> B!LedgerPartiesExist
  BY DEF P!LedgerPartiesExist, B!LedgerPartiesExist
<1>5. QED
  BY <1>2, <1>3, <1>4, BankIsBank, CoreImplementsBank, PTL DEF ImplementsBank, B!Spec, P!Spec
=============================================================================
