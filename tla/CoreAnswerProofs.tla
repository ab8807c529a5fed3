-------------------------- MODULE CoreAnswerProofs --------------------------
(***************************************************************************)
(* Proofs about what a core answers: an Ok is about something committed,   *)
(* a receipt is exact, a balance sheet is one snapshot and adds up, and    *)
(* the ledger is committed in the order of its timestamps.                 *)
(***************************************************************************)
EXTENDS CoreProofs

\* The rows of the ledger are as old as their timestamps say, and the row that an
\* open transaction is about to commit is the youngest: nobody else has committed
\* since it was stamped.
StampsInOrder ==
  /\ \A t \in DOMAIN transactions : transactions[t].timestamp <= now
  /\ \A c \in Cores : pc[c] = "commit" /\ Paying(c) =>
       LET stamp == draft.transactions[new[c].id].timestamp
       IN /\ stamp <= now
          /\ \A t \in DOMAIN transactions : transactions[t].timestamp <= stamp

\* What an Ok in core c's hands says of the committed tables.
AnswerHolds(c) ==
  /\ Answered(c, "CreateTransaction") =>
       LET r == reply[c].value
       IN /\ r.transaction_id \in DOMAIN transactions
          /\ transactions[r.transaction_id] =
               [timestamp |-> r.timestamp, sender_account_id |-> r.sender_account_id,
                receiver_account_id |-> r.receiver_account_id, amount |-> msg[c].amount]
  /\ Answered(c, "CreateNewAccount") => reply[c].value \in DOMAIN accounts
  /\ Answered(c, "GetTransactions") =>
       \A t \in DOMAIN reply[c].value :
         t \in DOMAIN transactions /\ transactions[t] = reply[c].value[t]
  /\ Answered(c, "GetAccounts") =>
       Total(reply[c].value) = IF Seed \in DOMAIN reply[c].value THEN SeedFunds ELSE 0

\* The inductive invariant, to which IInv and the conservation of money are given.
AInv ==
  /\ DOMAIN reply = Cores
  /\ \A c \in Cores : AnswerHolds(c)
  /\ StampsInOrder

-----------------------------------------------------------------------------
\* Frames.

\* A core answers only for itself, and only the clock changes the time.
LEMMA OthersKeepReplies ==
  ASSUME DOMAIN reply = Cores, NEW c \in Cores, CoreStep(c)
  PROVE  /\ now' = now /\ DOMAIN reply' = Cores
         /\ \A d \in Cores : d # c => reply'[d] = reply[d]
<1> USE DEF Answer, Abort, NewRecord, ForgetRequest
<1>1. CASE \/ Start(c) \/ CreateAccountsTable(c) \/ CreateLedgerTable(c)
           \/ Receive(c) \/ Respond(c) \/ Exit(c)
  BY <1>1 DEF Start, CreateAccountsTable, CreateLedgerTable, Receive, Respond, Exit
<1>2. CASE Read(c) \/ StatementFails(c)
  BY <1>2 DEF Read, LoadAccount, GetAccounts, GetTransactions, GetTransaction, StatementFails
<1>3. CASE Write(c)
  <2>1. CASE DispatchCreateAccount(c) \/ DispatchCreateTransaction(c)
    BY <2>1 DEF DispatchCreateAccount, DispatchCreateTransaction
  <2>2. CASE Begin(c) \/ BeginBusy(c) \/ InsertAccount(c) \/ Commit(c)
    BY <2>2 DEF Begin, BeginBusy, InsertAccount, Commit
  <2>3. CASE SelectFunds(c) \/ UpdateSender(c) \/ UpdateReceiver(c) \/ InsertTransaction(c)
    BY <2>3 DEF SelectFunds, UpdateSender, UpdateReceiver, InsertTransaction
  <2>4. QED
    BY <1>3, <2>1, <2>2, <2>3 DEF Write
<1>4. QED
  BY <1>1, <1>2, <1>3 DEF CoreStep

\* What a COMMIT does to the committed tables.
LEMMA CommitFacts ==
  ASSUME IInv, NEW c \in Cores, Commit(c)
  PROVE  IF Paying(c)
         THEN /\ Affordable(c) /\ msg[c].receiver_id \in DOMAIN accounts
              /\ accounts' = Credited(c) /\ Recorded(c)
              /\ transactions' = Put(transactions, new[c].id, draft.transactions[new[c].id])
         ELSE /\ accounts' = Put(accounts, new[c].id, OpeningBalance(c))
              /\ transactions' = transactions
<1>1. DraftMatches(c) /\ pc[c] = "commit"
  BY DEF IInv, TransactionIntegrity, Commit
<1>2. QED
  BY <1>1 DEF Commit, Published, DraftMatches, Recorded, Opened, OpeningBalance

\* Accounts are never closed and the ledger's rows never change.
LEMMA TablesGrow ==
  ASSUME IInv, NEW c \in Cores, CoreStep(c)
  PROVE  /\ DOMAIN accounts \subseteq DOMAIN accounts'
         /\ DOMAIN transactions \subseteq DOMAIN transactions'
         /\ \A t \in DOMAIN transactions : transactions'[t] = transactions[t]
<1>1. CASE Commit(c)
  BY <1>1, CommitFacts DEF Credited, Recorded, Put
<1>2. CASE ~Commit(c)
  BY <1>2, OnlyCommitWrites
<1>3. QED
  BY <1>1, <1>2

\* An answer stays true while its core holds it.
LEMMA AnswerStays ==
  ASSUME NEW d \in Cores, AnswerHolds(d),
         pc'[d] = pc[d], msg'[d] = msg[d], reply'[d] = reply[d],
         DOMAIN accounts \subseteq DOMAIN accounts',
         DOMAIN transactions \subseteq DOMAIN transactions',
         \A t \in DOMAIN transactions : transactions'[t] = transactions[t]
  PROVE  AnswerHolds(d)'
<1>1. ASSUME NEW type PROVE Answered(d, type)' <=> Answered(d, type)
  BY DEF Answered
<1>2. Answered(d, "CreateTransaction")' =>
        LET r == reply'[d].value
        IN /\ r.transaction_id \in DOMAIN transactions'
           /\ transactions'[r.transaction_id] =
                [timestamp |-> r.timestamp, sender_account_id |-> r.sender_account_id,
                 receiver_account_id |-> r.receiver_account_id, amount |-> msg'[d].amount]
  BY <1>1 DEF AnswerHolds
<1>3. Answered(d, "CreateNewAccount")' => reply'[d].value \in DOMAIN accounts'
  BY <1>1 DEF AnswerHolds
<1>4. Answered(d, "GetTransactions")' =>
        \A t \in DOMAIN reply'[d].value :
          t \in DOMAIN transactions' /\ transactions'[t] = reply'[d].value[t]
  BY <1>1 DEF AnswerHolds
<1>5. Answered(d, "GetAccounts")' =>
        Total(reply'[d].value) = IF Seed \in DOMAIN reply'[d].value THEN SeedFunds ELSE 0
  BY <1>1 DEF AnswerHolds
<1>6. QED
  BY <1>2, <1>3, <1>4, <1>5 DEF AnswerHolds

-----------------------------------------------------------------------------
\* The answers a core gives.

\* Apart from the reads and a COMMIT, a step gives no answer or an error.
LEMMA SilentOrError ==
  ASSUME IInv, DOMAIN reply = Cores, NEW c \in Cores, CoreStep(c), ~Read(c), ~Commit(c)
  PROVE  pc'[c] # "respond" \/ ~reply'[c].ok
<1> USE DEF IInv, TypeOK, Goto, Answer, Abort, Err
<1>1. CASE \/ Start(c) \/ CreateAccountsTable(c) \/ CreateLedgerTable(c)
           \/ Receive(c) \/ Respond(c) \/ Exit(c)
  BY <1>1 DEF Start, CreateAccountsTable, CreateLedgerTable, Receive, Respond, Exit
<1>2. CASE StatementFails(c)
  BY <1>2 DEF StatementFails
<1>3. CASE DispatchCreateAccount(c) \/ DispatchCreateTransaction(c)
  BY <1>3 DEF DispatchCreateAccount, DispatchCreateTransaction
<1>4. CASE Begin(c) \/ BeginBusy(c) \/ InsertAccount(c)
  BY <1>4 DEF Begin, BeginBusy, InsertAccount
<1>5. CASE SelectFunds(c) \/ UpdateSender(c) \/ UpdateReceiver(c) \/ InsertTransaction(c)
  BY <1>5 DEF SelectFunds, UpdateSender, UpdateReceiver, InsertTransaction
<1>6. QED
  BY <1>1, <1>2, <1>3, <1>4, <1>5 DEF CoreStep, Write

\* Answer(c, r) leaves core c with r and with the request it is about.
LEMMA AnswerFacts ==
  ASSUME IInv, DOMAIN reply = Cores, NEW c \in Cores, NEW r, Answer(c, r)
  PROVE  pc'[c] = "respond" /\ reply'[c] = r /\ msg'[c] = msg[c] /\ new'[c] = new[c]
BY DEF Answer, Goto, IInv, TypeOK

\* The money that Bank conserves is the money of the core's accounts.
LEMMA MoneyIsTotal ==
  B!Conservation <=> Total(accounts) = IF Seed \in DOMAIN accounts THEN SeedFunds ELSE 0
<1>1. B!Coins(accounts) = Coins(accounts)
  BY DEF B!Coins, Coins
<1>2. B!Total(accounts) = Total(accounts)
  BY <1>1, Zenon DEF B!Total, Total, B!Cardinality, Cardinality
<1>3. QED
  BY <1>2 DEF B!Conservation, B!Circulation

LEMMA ReadAnswerHolds ==
  ASSUME IInv, DOMAIN reply = Cores, B!Conservation, NEW c \in Cores, Read(c)
  PROVE  AnswerHolds(c)'
<1>1. CASE LoadAccount(c) \/ GetTransaction(c)
  <2>1. PICK r : Answer(c, r)
    BY <1>1 DEF LoadAccount, GetTransaction
  <2>2. msg'[c].type \in {"GetAccount", "GetTransaction"}
    BY <1>1, <2>1, AnswerFacts DEF LoadAccount, GetTransaction
  <2>3. QED
    BY <2>2 DEF AnswerHolds, Answered
<1>2. CASE GetAccounts(c)
  <2>1. Answer(c, Ok(accounts)) /\ msg[c].type = "GetAccounts"
    BY <1>2 DEF GetAccounts, VisibleAccounts
  <2>2. reply'[c].value = accounts /\ msg'[c].type = "GetAccounts"
    BY <2>1, AnswerFacts DEF Ok
  <2>3. Total(reply'[c].value) = IF Seed \in DOMAIN reply'[c].value THEN SeedFunds ELSE 0
    BY <2>2, MoneyIsTotal
  <2>4. QED
    BY <2>2, <2>3 DEF AnswerHolds, Answered
<1>3. CASE GetTransactions(c)
  <2> DEFINE found == {t \in DOMAIN transactions :
                         /\ IsParty(msg[c].account_id, transactions[t])
                         /\ transactions[t].timestamp \in msg[c].start..msg[c].end}
             rows == [t \in found |-> transactions[t]]
  <2>1. Answer(c, Ok(rows)) /\ msg[c].type = "GetTransactions" /\ transactions' = transactions
    BY <1>3 DEF GetTransactions, VisibleTransactions, dbVars
  <2>2. /\ found \subseteq DOMAIN transactions
        /\ DOMAIN rows = found /\ \A t \in found : rows[t] = transactions[t]
    OBVIOUS
  <2> HIDE DEF found, rows
  <2>3. reply'[c].value = rows /\ msg'[c].type = "GetTransactions"
    BY <2>1, AnswerFacts DEF Ok
  <2>4. QED
    BY <2>1, <2>2, <2>3 DEF AnswerHolds, Answered
<1>4. QED
  BY <1>1, <1>2, <1>3 DEF Read

LEMMA CommitAnswerHolds ==
  ASSUME IInv, DOMAIN reply = Cores, NEW c \in Cores, Commit(c)
  PROVE  AnswerHolds(c)'
<1>1. RequestMatches(c) /\ pc[c] = "commit"
  BY DEF IInv, TransactionIntegrity, Commit
<1>2. CASE Paying(c)
  <2>1. Answer(c, Ok(Receipt(c)))
    BY <1>2 DEF Commit, Paying
  <2>2. reply'[c].value = Receipt(c) /\ msg'[c] = msg[c] /\ msg'[c].type = "CreateTransaction"
    BY <1>2, <2>1, AnswerFacts DEF Ok, Paying
  <2> DEFINE row == draft.transactions[new[c].id]
  <2>3. /\ new[c].id \in DOMAIN transactions' /\ transactions'[new[c].id] = row
        /\ row.sender_account_id = msg[c].sender_id
        /\ row.receiver_account_id = msg[c].receiver_id /\ row.amount = msg[c].amount
    BY <1>2, CommitFacts DEF Put, Recorded
  <2>4. row \in Row
    <3>1. new[c].id \in DOMAIN draft.transactions
      BY <1>2, CommitFacts DEF Put, Recorded
    <3>2. QED
      BY <3>1, TableEntry DEF IInv, TypeOK
  <2>5. row = [timestamp |-> row.timestamp, sender_account_id |-> msg[c].sender_id,
               receiver_account_id |-> msg[c].receiver_id, amount |-> msg[c].amount]
    BY <2>3, <2>4 DEF Row
  <2>6. QED
    BY <2>2, <2>3, <2>5 DEF AnswerHolds, Answered, Receipt
<1>3. CASE ~Paying(c)
  <2>1. Answer(c, Ok(new[c].id))
    BY <1>3 DEF Commit, Paying
  <2>2. reply'[c].value = new[c].id /\ msg'[c].type \in {"CreateNewAccount", "Seed"}
    BY <1>1, <1>3, <2>1, AnswerFacts DEF Ok, Paying, RequestMatches
  <2>3. new[c].id \in DOMAIN accounts'
    BY <1>3, CommitFacts DEF Put
  <2>4. QED
    BY <2>2, <2>3 DEF AnswerHolds, Answered
<1>4. QED
  BY <1>2, <1>3

LEMMA AnswersInv ==
  ASSUME IInv, B!Conservation, AInv, NEW c \in Cores, CoreStep(c), NEW d \in Cores
  PROVE  AnswerHolds(d)'
<1>1. CASE d # c
  <2>1. pc'[d] = pc[d] /\ msg'[d] = msg[d]
    BY <1>1, OthersKeepLocals DEF IInv, SameLocals
  <2>2. reply'[d] = reply[d]
    BY <1>1, OthersKeepReplies DEF AInv
  <2>3. QED
    BY <2>1, <2>2, TablesGrow, AnswerStays DEF AInv
<1>2. CASE d = c
  <2>1. CASE Read(c) \/ Commit(c)
    BY <1>2, <2>1, ReadAnswerHolds, CommitAnswerHolds DEF AInv
  <2>2. CASE ~Read(c) /\ ~Commit(c)
    BY <1>2, <2>2, SilentOrError DEF AInv, AnswerHolds, Answered
  <2>3. QED
    BY <2>1, <2>2
<1>3. QED
  BY <1>1, <1>2
-----------------------------------------------------------------------------
\* The time stamps.

\* Only an INSERT brings a core to its COMMIT.
LEMMA OnlyInsertsCommit ==
  ASSUME IInv, NEW c \in Cores, CoreStep(c), ~InsertAccount(c), ~InsertTransaction(c)
  PROVE  pc'[c] # "commit"
<1> USE DEF IInv, TypeOK, Goto, Answer, Abort
<1>1. CASE \/ Start(c) \/ CreateAccountsTable(c) \/ CreateLedgerTable(c)
           \/ Receive(c) \/ Respond(c) \/ Exit(c)
  BY <1>1 DEF Start, CreateAccountsTable, CreateLedgerTable, Receive, Respond, Exit
<1>2. CASE Read(c) \/ StatementFails(c)
  BY <1>2 DEF Read, LoadAccount, GetAccounts, GetTransactions, GetTransaction, StatementFails
<1>3. CASE DispatchCreateAccount(c) \/ DispatchCreateTransaction(c)
  BY <1>3 DEF DispatchCreateAccount, DispatchCreateTransaction
<1>4. CASE Begin(c) \/ BeginBusy(c) \/ Commit(c)
  BY <1>4 DEF Begin, BeginBusy, Commit
<1>5. CASE SelectFunds(c) \/ UpdateSender(c) \/ UpdateReceiver(c)
  BY <1>5 DEF SelectFunds, UpdateSender, UpdateReceiver
<1>6. QED
  BY <1>1, <1>2, <1>3, <1>4, <1>5 DEF CoreStep, Write

\* The row about to be committed by core c is younger than the ledger and not of
\* the future.
StampIsLatest(c) ==
  LET stamp == draft.transactions[new[c].id].timestamp
  IN /\ stamp <= now
     /\ \A t \in DOMAIN transactions : transactions[t].timestamp <= stamp

LEMMA OthersKeepStamp ==
  ASSUME IInv, DOMAIN reply = Cores, NEW c \in Cores, CoreStep(c), NEW d \in Cores, d # c,
         pc[d] = "commit", StampIsLatest(d)
  PROVE  StampIsLatest(d)'
<1>1. writer = d
  BY DEF IInv, TransactionIntegrity, LockDiscipline, InTransaction
<1>2. UNCHANGED dbVars
  BY <1>1, OthersKeepDatabase, CoreAssumption DEF IInv
<1>3. new'[d] = new[d] /\ now' = now
  BY OthersKeepLocals, OthersKeepReplies DEF IInv, SameLocals
<1>4. QED
  BY <1>2, <1>3 DEF StampIsLatest, dbVars

\* The statement that stamps the row reads the clock under the lock.
LEMMA StampedNow ==
  ASSUME IInv, StampsInOrder, NEW c \in Cores, InsertTransaction(c), pc'[c] = "commit"
  PROVE  StampIsLatest(c)'
<1>1. pc'[c] # "respond" /\ pc[c] = "insert_transaction"
  BY DEF InsertTransaction
<1>2. /\ WriteTransactions(Put(draft.transactions, new[c].id, LedgerRow(c)))
      /\ UNCHANGED <<transactions, now, new>>
  BY <1>1 DEF InsertTransaction, Abort, Answer, Goto, IInv, TypeOK
<1>3. draft'.transactions[new'[c].id].timestamp = now
  BY <1>2 DEF WriteTransactions, Put, LedgerRow, Stamp
<1>4. now <= now
  BY DEF IInv, TypeOK
<1>5. QED
  BY <1>2, <1>3, <1>4 DEF StampIsLatest, StampsInOrder

LEMMA StampsInv ==
  ASSUME IInv, AInv, NEW c \in Cores, CoreStep(c)
  PROVE  StampsInOrder'
<1>1. now' = now
  BY OthersKeepReplies DEF AInv
<1>2. \A d \in Cores : pc[d] = "commit" /\ Paying(d) => StampIsLatest(d)
  BY DEF AInv, StampsInOrder, StampIsLatest
<1>3. ASSUME NEW t \in DOMAIN transactions' PROVE transactions'[t].timestamp <= now'
  <2>1. CASE Commit(c) /\ Paying(c)
    <3>1. StampIsLatest(c) /\ transactions' = Put(transactions, new[c].id,
                                                   draft.transactions[new[c].id])
      BY <1>2, <2>1, CommitFacts DEF Commit
    <3>2. CASE t = new[c].id
      BY <1>1, <3>1, <3>2 DEF Put, StampIsLatest
    <3>3. CASE t # new[c].id
      BY <1>1, <3>1, <3>3 DEF Put, AInv, StampsInOrder
    <3>4. QED
      BY <3>2, <3>3
  <2>2. CASE ~Commit(c) \/ ~Paying(c)
    BY <1>1, <2>2, CommitFacts, OnlyCommitWrites DEF AInv, StampsInOrder
  <2>3. QED
    BY <2>1, <2>2
<1>4. ASSUME NEW d \in Cores, pc'[d] = "commit", Paying(d)' PROVE StampIsLatest(d)'
  <2>1. CASE d # c
    <3>1. pc[d] = "commit" /\ Paying(d)
      BY <1>4, <2>1, OthersKeepLocals DEF IInv, SameLocals, Paying
    <3>2. QED
      BY <1>2, <2>1, <3>1, OthersKeepStamp DEF AInv
  <2>2. CASE d = c /\ InsertTransaction(c)
    BY <1>4, <2>2, StampedNow DEF AInv
  <2>3. CASE d = c /\ InsertAccount(c)
    <3>1. msg'[c] = msg[c] /\ pc[c] = "insert_account"
      BY <2>3 DEF InsertAccount, Abort, Answer
    <3>2. ~Paying(c)
      BY <3>1 DEF IInv, TransactionIntegrity, RequestMatches, Paying
    <3>3. QED
      BY <1>4, <2>3, <3>1, <3>2 DEF Paying
  <2>4. QED
    BY <1>4, <2>1, <2>2, <2>3, OnlyInsertsCommit
<1>5. QED
  BY <1>3, <1>4 DEF StampsInOrder, StampIsLatest

LEMMA RowStamp ==
  ASSUME NEW rows, IsTable(rows, TransactionId, Row), NEW t \in DOMAIN rows
  PROVE  rows[t].timestamp \in Nat
<1>1. rows[t] \in Row
  BY TableEntry
<1>2. QED
  BY <1>1 DEF Row

\* Time passes, or nothing does.
LEMMA TimePasses ==
  ASSUME IInv, AInv, Tick \/ UNCHANGED vars
  PROVE  AInv'
<1>1. /\ UNCHANGED <<accounts, transactions, writer, draft, pc, msg, new, tx_funds, reply>>
      /\ now \in Nat /\ now' \in Nat /\ now <= now'
  BY DEF Tick, vars, dbVars, coreVars, IInv, TypeOK
<1>2. DOMAIN reply' = Cores
  BY <1>1 DEF AInv
<1>3. ASSUME NEW c \in Cores PROVE AnswerHolds(c)'
  BY <1>1, AnswerStays DEF AInv
<1>4. ASSUME NEW t \in DOMAIN transactions PROVE transactions[t].timestamp <= now'
  <2>1. transactions[t].timestamp \in Nat
    BY RowStamp DEF IInv, TypeOK
  <2>2. QED
    BY <1>1, <2>1 DEF AInv, StampsInOrder
<1>5. ASSUME NEW c \in Cores, pc[c] = "commit", Paying(c) PROVE StampIsLatest(c)'
  <2>1. new[c].id \in DOMAIN draft.transactions
    BY <1>5 DEF IInv, TransactionIntegrity, DraftMatches, Recorded, Put
  <2>2. draft.transactions[new[c].id].timestamp \in Nat
    BY <2>1, RowStamp DEF IInv, TypeOK
  <2>3. StampIsLatest(c)
    BY <1>5 DEF AInv, StampsInOrder, StampIsLatest
  <2>4. QED
    BY <1>1, <2>2, <2>3 DEF StampIsLatest
<1>6. StampsInOrder'
  BY <1>1, <1>4, <1>5 DEF StampsInOrder, StampIsLatest, Paying
<1>7. QED
  BY <1>2, <1>3, <1>6 DEF AInv

-----------------------------------------------------------------------------
LEMMA AnswersInit == Init => AInv
BY DEF Init, AInv, AnswerHolds, Answered, StampsInOrder, EmptyTable

LEMMA AnswersNext == IInv /\ B!Conservation /\ AInv /\ [Next]_vars => AInv'
<1> SUFFICES ASSUME IInv, B!Conservation, AInv, [Next]_vars PROVE AInv'
  OBVIOUS
<1>1. CASE \E c \in Cores : CoreStep(c)
  BY <1>1, OthersKeepReplies, AnswersInv, StampsInv DEF AInv
<1>2. CASE Tick \/ UNCHANGED vars
  BY <1>2, TimePasses
<1>3. QED
  BY <1>1, <1>2 DEF Next

LEMMA AnswersInvariant == Spec => []AInv
BY AnswersInit, AnswersNext, CoreInvariant, CoreConservesMoney, PTL DEF Spec

\* An Ok response is never about something that was not committed, and stays true
\* while other cores commit, fail and crash.
THEOREM CoreOkMeansCommitted == Spec => []OkMeansCommitted
<1>1. AInv => OkMeansCommitted
  BY DEF AInv, AnswerHolds, OkMeansCommitted
<1>2. QED
  BY <1>1, AnswersInvariant, PTL

\* No GetTransactions response shows a row that could still be rolled back.
THEOREM CoreHistoryIsCommitted == Spec => []HistoryIsCommitted
<1>1. AInv => HistoryIsCommitted
  BY DEF AInv, AnswerHolds, HistoryIsCommitted
<1>2. QED
  BY <1>1, AnswersInvariant, PTL

\* The balances of a GetAccounts response add up to the circulation, although
\* another core may be in the middle of a transfer.
THEOREM CoreBalanceSheetAddsUp == Spec => []BalanceSheetAddsUp
<1>1. AInv => BalanceSheetAddsUp
  BY DEF AInv, AnswerHolds, BalanceSheetAddsUp
<1>2. QED
  BY <1>1, AnswersInvariant, PTL

\* What has been committed stays: no core, failure or crash closes an account or changes
\* or removes a ledger row.
THEOREM CoreHistoryIsPermanent ==
  Spec => [][/\ DOMAIN accounts \subseteq DOMAIN accounts'
             /\ \A t \in DOMAIN transactions :
                  t \in DOMAIN transactions' /\ transactions'[t] = transactions[t]]_vars
<1> DEFINE Stays == /\ DOMAIN accounts \subseteq DOMAIN accounts'
                    /\ \A t \in DOMAIN transactions :
                         t \in DOMAIN transactions' /\ transactions'[t] = transactions[t]
<1>1. IInv /\ [Next]_vars => [Stays]_vars
  BY TablesGrow DEF Next, Tick, dbVars
<1> HIDE DEF Stays
<1>2. Spec => [][Stays]_vars
  BY <1>1, CoreInvariant, PTL DEF Spec
<1>3. QED
  BY <1>2 DEF Stays

-----------------------------------------------------------------------------
\* What the step that commits a ledger row does.

\* A new row is the row of the one core that commits, and that core pays.
LEMMA NewRowIsCommitted ==
  ASSUME IInv, [Next]_vars, NEW t \in DOMAIN transactions' \ DOMAIN transactions
  PROVE  \E c \in Cores : CoreStep(c) /\ Commit(c) /\ Paying(c) /\ t = new[c].id
<1>1. PICK c \in Cores : CoreStep(c) /\ Commit(c)
  BY OnlyCommitWrites DEF Next, Tick, vars, dbVars
<1>2. Paying(c) /\ t = new[c].id
  <2>1. CASE ~Paying(c)
    BY <1>1, <2>1, CommitFacts
  <2>2. CASE Paying(c)
    <3>1. transactions' = Put(transactions, new[c].id, draft.transactions[new[c].id])
      BY <1>1, <2>2, CommitFacts
    <3>2. QED
      BY <2>2, <3>1 DEF Put
  <2>3. QED
    BY <2>1, <2>2
<1>3. QED
  BY <1>1, <1>2

\* A ledger row appears only together with the receipt for it, and the receipt
\* shows the sender's balance right after that row.
THEOREM CoreReceiptIsExact == Spec => ReceiptIsExact
<1> DEFINE Exact(t, c) ==
      /\ Answered(c, "CreateTransaction")'
      /\ reply'[c].value.transaction_id = t
      /\ reply'[c].value.sender_account_funds = accounts'[transactions'[t].sender_account_id]
<1>1. ASSUME IInv, AInv, NEW c \in Cores, Commit(c), Paying(c)
      PROVE  Exact(new[c].id, c)
  <2>1. Answer(c, Ok(Receipt(c)))
    BY <1>1 DEF Commit, Paying
  <2>2. /\ Answered(c, "CreateTransaction")' /\ reply'[c].value = Receipt(c)
    BY <1>1, <2>1, AnswerFacts DEF AInv, Ok, Answered, Paying
  <2>3. msg[c].sender_id # msg[c].receiver_id
    BY <1>1 DEF IInv, TransactionIntegrity, RequestMatches, InTransaction, Commit
  <2>4. accounts'[msg[c].sender_id] = tx_funds[c]
    BY <1>1, <2>3, CommitFacts DEF Affordable, Credited
  <2>5. transactions'[new[c].id].sender_account_id = msg[c].sender_id
    BY <1>1, CommitFacts DEF Recorded, Put
  <2>6. QED
    BY <2>2, <2>4, <2>5 DEF Receipt, FundsShown
<1> HIDE DEF Exact
<1>2. ASSUME IInv, AInv, [Next]_vars, NEW t \in DOMAIN transactions' \ DOMAIN transactions
      PROVE  \E c \in Cores : Exact(t, c)
  BY <1>1, <1>2, NewRowIsCommitted
<1>3. IInv /\ AInv /\ [Next]_vars =>
        [\A t \in DOMAIN transactions' \ DOMAIN transactions :
           \E c \in Cores :
             /\ Answered(c, "CreateTransaction")'
             /\ reply'[c].value.transaction_id = t
             /\ reply'[c].value.sender_account_funds =
                  accounts'[transactions'[t].sender_account_id]]_vars
  BY <1>2 DEF Exact
<1>4. QED
  BY <1>3, CoreInvariant, AnswersInvariant, PTL DEF Spec, ReceiptIsExact

\* Rows are committed in the order of their timestamps, with any number of cores.
THEOREM CoreTimestampsInCommitOrder == Spec => TimestampsInCommitOrder
<1>1. ASSUME IInv, AInv, [Next]_vars,
             NEW t \in DOMAIN transactions' \ DOMAIN transactions, NEW u \in DOMAIN transactions
      PROVE  transactions'[t].timestamp >= transactions[u].timestamp
  <2>1. PICK c \in Cores : Commit(c) /\ Paying(c) /\ t = new[c].id
    BY <1>1, NewRowIsCommitted
  <2>2. transactions'[t] = draft.transactions[t]
    BY <1>1, <2>1, CommitFacts DEF Put
  <2>3. transactions[u].timestamp <= draft.transactions[t].timestamp
    BY <1>1, <2>1 DEF AInv, StampsInOrder, Commit
  <2>4. QED
    BY <2>2, <2>3
<1>2. IInv /\ AInv /\ [Next]_vars =>
        [\A t \in DOMAIN transactions' \ DOMAIN transactions, u \in DOMAIN transactions :
           transactions'[t].timestamp >= transactions[u].timestamp]_vars
  BY <1>1
<1>3. QED
  BY <1>2, CoreInvariant, AnswersInvariant, PTL DEF Spec, TimestampsInCommitOrder
=============================================================================
