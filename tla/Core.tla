-------------------------------- MODULE Core --------------------------------
(***************************************************************************)
(* The core process (src/src/bin/core.rs) and its database, one SQL        *)
(* statement at a time: main() up to the serving loop, message_dispatch(), *)
(* and the functions of account.rs and ledger.rs it calls.                 *)
(*                                                                         *)
(* A handler that writes opens an EXCLUSIVE transaction, runs its          *)
(* statements on a draft of the database that nobody else sees, and        *)
(* commits; every early return drops the transaction, which rolls it back. *)
(* Any statement may fail with an SQL error, and the process may die       *)
(* between any two steps.  The code does not stop a second core from being *)
(* started on the same database file, so the model has a set of them.      *)
(*                                                                         *)
(* How requests arrive and how responses travel back is not modelled here: *)
(* a core receives any of Requests and holds its response until it is      *)
(* sent.  The fee, which message_dispatch() fixes at 0, is left out.       *)
(***************************************************************************)
EXTENDS Totals

CONSTANTS
  Cores,          \* core processes that may be run on the database file
  AccountId, Seed, SeedFunds, TransactionId,
  Requests,       \* the ClientMessages that clients send
  MaxTime,        \* bound on the clock
  NoCore, NoId

VARIABLES
  accounts,       \* the accounts table, as committed: account_id -> funds
  transactions,   \* the transactions table, as committed: transaction_id -> row
  now,            \* OffsetDateTime::now_utc(): one clock for the machine
  writer,         \* the core whose exclusive transaction is open, or NoCore
  draft,          \* both tables as the open transaction sees them
  pc,             \* where each core is
  msg,            \* the request each core is handling
  new,            \* the id and timestamp made by Account::new() or Transaction::new()
  tx_funds,       \* the local of save_transaction()
  reply           \* the response each core is about to send

dbVars   == <<accounts, transactions, writer, draft>>
coreVars == <<pc, msg, new, tx_funds, reply>>
vars     == <<accounts, transactions, now, writer, draft, pc, msg, new, tx_funds, reply>>

\* A message_dispatch() request.  "Seed" stands for the account that main()
\* saves before it serves, "None" for no request.
ClientMessage ==
       [type : {"CreateNewAccount", "GetAccounts"}]
  \cup [type : {"GetAccount"}, account_id : AccountId]
  \cup [type : {"GetTransactions"}, account_id : AccountId, start : Nat, end : Nat]
  \cup [type : {"GetTransaction"}, account_id : AccountId, transaction_id : TransactionId]
  \cup [type : {"CreateTransaction"}, sender_id : AccountId, receiver_id : AccountId,
        amount : Int]

ASSUME CoreAssumption ==
  /\ Seed \in AccountId /\ SeedFunds \in Nat
  /\ Requests \subseteq ClientMessage
  /\ NoCore \notin Cores
  /\ MaxTime \in Nat

SeedMessage == [type |-> "Seed"]
NoMessage   == [type |-> "None"]
NoReply     == [ok |-> FALSE, value |-> "None"]
NoRecord    == [id |-> NoId, timestamp |-> 0]
NoDraft     == [accounts |-> EmptyTable, transactions |-> EmptyTable]

Row == [timestamp : Nat, sender_account_id : AccountId,
        receiver_account_id : AccountId, amount : Nat \ {0}]

InTransaction == {"insert_account", "select_funds", "update_sender", "update_receiver",
                  "insert_transaction", "commit"}

Init ==
  /\ accounts = EmptyTable /\ transactions = EmptyTable
  /\ now = 0
  /\ writer = NoCore /\ draft = NoDraft
  /\ pc = [c \in Cores |-> "down"]
  /\ msg = [c \in Cores |-> NoMessage]
  /\ new = [c \in Cores |-> NoRecord]
  /\ tx_funds = [c \in Cores |-> 0]
  /\ reply = [c \in Cores |-> NoReply]

Goto(c, label) == pc' = [pc EXCEPT ![c] = label]

\* The locals of a handler are gone once it has returned and answered.
ForgetRequest(c) ==
  /\ msg' = [msg EXCEPT ![c] = NoMessage]
  /\ new' = [new EXCEPT ![c] = NoRecord]
  /\ tx_funds' = [tx_funds EXCEPT ![c] = 0]
  /\ reply' = [reply EXCEPT ![c] = NoReply]

\* The handler returns Ok(v) or Err(e).
Answer(c, r) ==
  /\ Goto(c, "respond")
  /\ reply' = [reply EXCEPT ![c] = r]
  /\ UNCHANGED <<now, msg, new, tx_funds>>

Ok(v)  == [ok |-> TRUE, value |-> v]
Err(e) == [ok |-> FALSE, value |-> e]

\* A mutant: an early return leaves the transaction open.
AbortKeepingLock(c, e) ==
  /\ UNCHANGED dbVars
  /\ Answer(c, Err(e))

\* An early return inside the transaction: dropping tx rolls it back.
Abort(c, e) ==
  /\ writer' = NoCore
  /\ draft' = NoDraft
  /\ UNCHANGED <<accounts, transactions>>
  /\ Answer(c, Err(e))

-----------------------------------------------------------------------------
\* main(): opening the file and choosing WAL mode change no row.
Start(c) ==
  /\ pc[c] = "down"
  /\ Goto(c, "boot")
  /\ UNCHANGED <<dbVars, now, msg, new, tx_funds, reply>>

\* A mutant: transactions are begun DEFERRED, which takes no lock.
NobodyWritesDeferred == TRUE

\* No connection holds the write lock of the database.
NobodyWrites == writer = NoCore

\* create_accounts_table() keeps an existing table and its rows, but replaces the
\* view on it, for which it needs the write lock.
CreateAccountsTable(c) ==
  /\ pc[c] = "boot"
  /\ NobodyWrites
  /\ Goto(c, "ledger_table")
  /\ UNCHANGED <<dbVars, now, msg, new, tx_funds, reply>>

\* create_ledger_table() in a transaction of its own; then main() calls
\* save_account() on the seed account.
CreateLedgerTable(c) ==
  /\ pc[c] = "ledger_table"
  /\ NobodyWrites
  /\ Goto(c, "begin")
  /\ msg' = [msg EXCEPT ![c] = SeedMessage]
  /\ new' = [new EXCEPT ![c] = [id |-> Seed, timestamp |-> 0]]
  /\ UNCHANGED <<dbVars, now, tx_funds, reply>>

\* recv_from() hands over a packet that parses.
Receive(c) ==
  /\ pc[c] = "recv"
  /\ Goto(c, "dispatch")
  /\ \E m \in Requests : msg' = [msg EXCEPT ![c] = m]
  /\ UNCHANGED <<dbVars, now, new, tx_funds, reply>>

\* Account::new() or Transaction::new(): a random id and the time of day.
NewRecord(c, ids) ==
  \E i \in ids : new' = [new EXCEPT ![c] = [id |-> i, timestamp |-> now]]

DispatchCreateAccount(c) ==
  /\ pc[c] = "dispatch"
  /\ msg[c].type = "CreateNewAccount"
  /\ NewRecord(c, AccountId \ {Seed})
  /\ Goto(c, "begin")
  /\ UNCHANGED <<dbVars, now, msg, tx_funds, reply>>

\* save_transaction()'s checks that need no database, each with its error.
SanityErrors(m) ==
       {e \in {"AmountIsZero"} : m.amount = 0}
  \cup {e \in {"AmountIsNegative"} : m.amount < 0}
  \cup {e \in {"SenderReceiverAreTheSame"} : m.amount > 0 /\ m.sender_id = m.receiver_id}

DispatchCreateTransaction(c) ==
  /\ pc[c] = "dispatch"
  /\ msg[c].type = "CreateTransaction"
  /\ \/ /\ SanityErrors(msg[c]) = {}
        /\ NewRecord(c, TransactionId)
        /\ Goto(c, "begin")
        /\ UNCHANGED <<dbVars, now, msg, tx_funds, reply>>
     \/ /\ \E e \in SanityErrors(msg[c]) : Answer(c, Err(e))
        /\ UNCHANGED dbVars

-----------------------------------------------------------------------------
\* BEGIN EXCLUSIVE waits until no other connection writes.
Begin(c) ==
  /\ pc[c] = "begin"
  /\ NobodyWrites
  /\ writer' = c
  /\ draft' = [accounts |-> accounts, transactions |-> transactions]
  /\ Goto(c, IF msg[c].type = "CreateTransaction" THEN "select_funds" ELSE "insert_account")
  /\ UNCHANGED <<accounts, transactions, now, msg, new, tx_funds, reply>>

\* A mutant: the wait for the lock never ends.
WaitForever(c) == FALSE

\* rusqlite's busy timeout: the wait ends with SQLITE_BUSY.
BeginBusy(c) ==
  /\ pc[c] = "begin"
  /\ ~NobodyWrites
  /\ Answer(c, Err("SQLError"))
  /\ UNCHANGED dbVars

\* What a statement of the open transaction leaves of either table.
WriteAccounts(rows)     == draft' = [accounts |-> rows, transactions |-> draft.transactions]
WriteTransactions(rows) == draft' = [accounts |-> draft.accounts, transactions |-> rows]

\* create_seed_account() or Account::new().
OpeningBalance(c) == IF msg[c].type = "Seed" THEN SeedFunds ELSE 0

\* save_account(): the PRIMARY KEY refuses an id that is taken.
InsertAccount(c) ==
  /\ pc[c] = "insert_account"
  /\ \/ /\ new[c].id \in DOMAIN draft.accounts
        /\ Abort(c, "AccountAlreadyExists")
     \/ /\ new[c].id \notin DOMAIN draft.accounts
        /\ WriteAccounts(Put(draft.accounts, new[c].id, OpeningBalance(c)))
        /\ Goto(c, "commit")
        /\ UNCHANGED <<accounts, transactions, writer, now, msg, new, tx_funds, reply>>

\* What a payment would leave of the sender's funds.
Deducted(c) == draft.accounts[msg[c].sender_id] - msg[c].amount

\* A mutant: the funds check is left to the CHECK clause of the table.
EnoughFundsUnchecked(c) == TRUE

EnoughFunds(c) == Deducted(c) >= 0

\* save_transaction(), the sender's funds.
SelectFunds(c) ==
  LET known == msg[c].sender_id \in DOMAIN draft.accounts
  IN /\ pc[c] = "select_funds"
     /\ \/ ~known /\ Abort(c, "SenderAccountDoesNotExist")
        \/ known /\ ~EnoughFunds(c) /\ Abort(c, "SenderAccountNotEnoughFunds")
        \/ /\ known /\ EnoughFunds(c)
           /\ tx_funds' = [tx_funds EXCEPT ![c] = Deducted(c)]
           /\ Goto(c, "update_sender")
           /\ UNCHANGED <<dbVars, now, msg, new, reply>>

\* The row is there: the SELECT of the same transaction found it.  A CHECK clause
\* of the table refuses negative funds, which is one of StatementFails's failures.
UpdateSender(c) ==
  /\ pc[c] = "update_sender"
  /\ tx_funds[c] >= 0
  /\ WriteAccounts([draft.accounts EXCEPT ![msg[c].sender_id] = tx_funds[c]])
  /\ Goto(c, "update_receiver")
  /\ UNCHANGED <<accounts, transactions, writer, now, msg, new, tx_funds, reply>>

\* An UPDATE of no row means that there is no such receiver.
UpdateReceiver(c) ==
  LET r == msg[c].receiver_id
  IN /\ pc[c] = "update_receiver"
     /\ \/ /\ r \notin DOMAIN draft.accounts
           /\ Abort(c, "ReceiverAccountDoesNotExist")
        \/ /\ r \in DOMAIN draft.accounts
           /\ WriteAccounts([draft.accounts EXCEPT ![r] = @ + msg[c].amount])
           /\ Goto(c, "insert_transaction")
           /\ UNCHANGED <<accounts, transactions, writer, now, msg, new, tx_funds, reply>>

\* A mutant: the row carries the timestamp of Transaction::new().
StampAsRequested(c) == new[c].timestamp

\* The row is stamped here, under the lock: "we are the authority".
Stamp(c) == now

LedgerRow(c) ==
  [timestamp |-> Stamp(c), sender_account_id |-> msg[c].sender_id,
   receiver_account_id |-> msg[c].receiver_id, amount |-> msg[c].amount]

InsertTransaction(c) ==
  /\ pc[c] = "insert_transaction"
  /\ \/ /\ new[c].id \in DOMAIN draft.transactions
        /\ Abort(c, "SQLError")
     \/ /\ new[c].id \notin DOMAIN draft.transactions
        /\ LedgerRow(c).amount > 0
        /\ WriteTransactions(Put(draft.transactions, new[c].id, LedgerRow(c)))
        /\ Goto(c, "commit")
        /\ UNCHANGED <<accounts, transactions, writer, now, msg, new, tx_funds, reply>>

\* A mutant: the receipt shows the funds that the sender had before.
FundsShownBefore(c) == tx_funds[c] + msg[c].amount

FundsShown(c) == tx_funds[c]

Receipt(c) ==
  [transaction_id |-> new[c].id, timestamp |-> draft.transactions[new[c].id].timestamp,
   sender_account_id |-> msg[c].sender_id, receiver_account_id |-> msg[c].receiver_id,
   sender_account_funds |-> FundsShown(c)]

\* A mutant: tx.commit() is forgotten, so that dropping tx rolls it back.
PublishedNothing == [accounts |-> accounts, transactions |-> transactions]

Published == draft

\* COMMIT publishes the draft, releases the lock and lets the handler return Ok.
Commit(c) ==
  /\ pc[c] = "commit"
  /\ accounts' = Published.accounts
  /\ transactions' = Published.transactions
  /\ writer' = NoCore
  /\ draft' = NoDraft
  /\ Answer(c, Ok(IF msg[c].type = "CreateTransaction" THEN Receipt(c) ELSE new[c].id))

-----------------------------------------------------------------------------
\* The reads are single SELECTs outside a transaction: in WAL mode each sees the
\* last commit, whether or not another connection is writing.
LoadAccount(c) ==
  LET a == msg[c].account_id
  IN /\ pc[c] = "dispatch"
     /\ msg[c].type = "GetAccount"
     /\ Answer(c, IF a \in DOMAIN accounts
                  THEN Ok([account_id |-> a, funds |-> accounts[a]])
                  ELSE Err("AccountDoesNotExist"))
     /\ UNCHANGED dbVars

\* A mutant: the rows are read from the draft of an open transaction.
VisibleAccountsDirty == IF writer = NoCore THEN accounts ELSE draft.accounts

\* The rows of the accounts table that get_accounts() steps over.
VisibleAccounts == accounts

GetAccounts(c) ==
  /\ pc[c] = "dispatch"
  /\ msg[c].type = "GetAccounts"
  /\ Answer(c, Ok(VisibleAccounts))
  /\ UNCHANGED dbVars

\* A mutant: the ledger is read from the draft of an open transaction.
VisibleTransactionsDirty == IF writer = NoCore THEN transactions ELSE draft.transactions

\* The rows of the ledger that get_transactions() steps over.
VisibleTransactions == transactions

IsParty(a, row) == a \in {row.sender_account_id, row.receiver_account_id}

GetTransactions(c) ==
  LET m == msg[c]
      found == {t \in DOMAIN VisibleTransactions :
                  /\ IsParty(m.account_id, VisibleTransactions[t])
                  /\ VisibleTransactions[t].timestamp \in m.start..m.end}
  IN /\ pc[c] = "dispatch"
     /\ m.type = "GetTransactions"
     /\ Answer(c, Ok([t \in found |-> VisibleTransactions[t]]))
     /\ UNCHANGED dbVars

\* Only a party to the transaction may see it.
GetTransaction(c) ==
  LET t == msg[c].transaction_id
  IN /\ pc[c] = "dispatch"
     /\ msg[c].type = "GetTransaction"
     /\ Answer(c, IF t \notin DOMAIN transactions THEN Err("TransactionDoesNotExist")
                  ELSE IF ~IsParty(msg[c].account_id, transactions[t])
                       THEN Err("PermissionDenied")
                       ELSE Ok(transactions[t]))
     /\ UNCHANGED dbVars

\* Any statement may fail: `Err(err) => return Err(err.into())`, or `?`.
StatementFails(c) ==
  \/ /\ pc[c] \in InTransaction
     /\ Abort(c, "SQLError")
  \/ /\ \/ pc[c] = "begin"
        \/ pc[c] = "dispatch" /\ msg[c].type # "CreateNewAccount"
                              /\ msg[c].type # "CreateTransaction"
     /\ Answer(c, Err("SQLError"))
     /\ UNCHANGED dbVars

\* The loop sends the response and goes back to recv_from(); after the seed
\* account, main() logs an error if there was one and enters the loop.
Respond(c) ==
  /\ pc[c] = "respond"
  /\ Goto(c, "recv")
  /\ ForgetRequest(c)
  /\ UNCHANGED <<dbVars, now>>

\* The process ends: killed anywhere, by an error of main() before it serves, or
\* by an interrupt that the loop notices in "recv".  Its transaction is rolled back.
Exit(c) ==
  /\ pc[c] # "down"
  /\ Goto(c, "down")
  /\ ForgetRequest(c)
  /\ writer' = IF writer = c THEN NoCore ELSE writer
  /\ draft' = IF writer = c THEN NoDraft ELSE draft
  /\ UNCHANGED <<accounts, transactions, now>>

Tick ==
  /\ now < MaxTime
  /\ now' = now + 1
  /\ UNCHANGED <<dbVars, coreVars>>

Read(c) == LoadAccount(c) \/ GetAccounts(c) \/ GetTransactions(c) \/ GetTransaction(c)

Write(c) ==
  \/ DispatchCreateAccount(c) \/ DispatchCreateTransaction(c)
  \/ Begin(c) \/ BeginBusy(c)
  \/ InsertAccount(c)
  \/ SelectFunds(c) \/ UpdateSender(c) \/ UpdateReceiver(c) \/ InsertTransaction(c)
  \/ Commit(c)

CoreStep(c) ==
  \/ Start(c) \/ CreateAccountsTable(c) \/ CreateLedgerTable(c) \/ Receive(c)
  \/ Read(c) \/ Write(c) \/ StatementFails(c)
  \/ Respond(c) \/ Exit(c)

Next == Tick \/ \E c \in Cores : CoreStep(c)

Spec == Init /\ [][Next]_vars

\* The single thread of each core keeps executing its handler; nothing is assumed
\* about requests arriving, statements failing, restarts or the clock.
Fairness == \A c \in Cores : WF_vars(Read(c) \/ Write(c))

FairSpec == Spec /\ Fairness
-----------------------------------------------------------------------------
\* The tables hold rows the schema allows, and every local has its type.
TypeOK ==
  /\ IsTable(accounts, AccountId, Nat)
  /\ IsTable(transactions, TransactionId, Row)
  /\ IsTable(draft.accounts, AccountId, Nat)
  /\ IsTable(draft.transactions, TransactionId, Row)
  /\ now \in Nat
  /\ writer \in Cores \cup {NoCore}
  /\ pc \in [Cores -> InTransaction \cup {"down", "boot", "ledger_table", "recv", "dispatch",
                                         "begin", "respond"}]
  /\ msg \in [Cores -> ClientMessage \cup {SeedMessage, NoMessage}]
  /\ new \in [Cores -> [id : AccountId \cup TransactionId \cup {NoId}, timestamp : Nat]]
  /\ tx_funds \in [Cores -> Nat]

\* An open transaction belongs to the one core that is between its BEGIN and its
\* COMMIT; no early return, failure or crash leaves the lock behind.
LockDiscipline ==
  /\ \A c \in Cores : writer = c <=> pc[c] \in InTransaction
  /\ writer = NoCore => draft = NoDraft

Paying(c) == msg[c].type = "CreateTransaction"

\* Each writing handler works for the right request, on a record of the right kind,
\* and a transfer in progress has passed the sanity checks.
RequestMatches(c) ==
  /\ pc[c] = "dispatch" => msg[c] \in Requests
  /\ pc[c] \in {"begin", "commit"} =>
       msg[c].type \in {"CreateTransaction", "CreateNewAccount", "Seed"}
  /\ pc[c] = "insert_account" => msg[c].type \in {"CreateNewAccount", "Seed"}
  /\ pc[c] \in InTransaction \ {"insert_account", "commit"} => Paying(c)
  /\ pc[c] \in InTransaction \cup {"begin"} =>
       IF Paying(c)
       THEN new[c].id \in TransactionId /\ msg[c].amount > 0 /\ msg[c].sender_id # msg[c].receiver_id
       ELSE new[c].id \in AccountId /\ (new[c].id = Seed <=> msg[c].type = "Seed")

\* The sender can pay, and tx_funds is what the payment leaves it.
Affordable(c) ==
  /\ msg[c].sender_id \in DOMAIN accounts
  /\ tx_funds[c] = accounts[msg[c].sender_id] - msg[c].amount

Debited(c)  == [accounts EXCEPT ![msg[c].sender_id] = @ - msg[c].amount]
Credited(c) == [accounts EXCEPT ![msg[c].sender_id] = @ - msg[c].amount,
                                ![msg[c].receiver_id] = @ + msg[c].amount]

Recorded(c) ==
  /\ new[c].id \notin DOMAIN transactions
  /\ draft.transactions = Put(transactions, new[c].id, draft.transactions[new[c].id])
  /\ LET row == draft.transactions[new[c].id]
     IN /\ row.sender_account_id = msg[c].sender_id
        /\ row.receiver_account_id = msg[c].receiver_id
        /\ row.amount = msg[c].amount

Opened(c) ==
  /\ new[c].id \notin DOMAIN accounts
  /\ draft.accounts = Put(accounts, new[c].id, IF msg[c].type = "Seed" THEN SeedFunds ELSE 0)

\* What the open transaction has done so far to the committed tables: at its COMMIT
\* it is a whole transfer or a whole account, whatever other cores did meanwhile.
DraftMatches(c) ==
  /\ pc[c] \in {"insert_account", "select_funds", "update_sender"} => draft.accounts = accounts
  /\ pc[c] \in InTransaction \ {"commit"} => draft.transactions = transactions
  /\ pc[c] \in {"update_sender", "update_receiver", "insert_transaction"} => Affordable(c)
  /\ pc[c] = "update_receiver" => draft.accounts = Debited(c)
  /\ pc[c] = "insert_transaction" =>
       msg[c].receiver_id \in DOMAIN accounts /\ draft.accounts = Credited(c)
  /\ pc[c] = "commit" /\ Paying(c) =>
       /\ Affordable(c) /\ msg[c].receiver_id \in DOMAIN accounts
       /\ draft.accounts = Credited(c)
       /\ Recorded(c)
  /\ pc[c] = "commit" /\ ~Paying(c) =>
       Opened(c) /\ draft.transactions = transactions

\* The inductive invariant behind everything the core promises: the statements of
\* save_transaction() and save_account() compose to a transaction that is
\* all or nothing (ledger.rs, account.rs).
TransactionIntegrity ==
  LockDiscipline /\ \A c \in Cores : RequestMatches(c) /\ DraftMatches(c)

\* What the rows say, apart from when.
LedgerOf(rows) ==
  [t \in DOMAIN rows |-> [sender_account_id   |-> rows[t].sender_account_id,
                          receiver_account_id |-> rows[t].receiver_account_id,
                          amount              |-> rows[t].amount]]

B == INSTANCE Bank WITH ledger <- LedgerOf(transactions)

\* The core implements Bank: with every interleaving, failure and crash, its
\* committed tables change only by whole account creations and whole transfers.
ImplementsBank == B!Spec

Answered(c, type) == pc[c] = "respond" /\ reply[c].ok /\ msg[c].type = type

\* An Ok response is never about something that was not committed: the receipt's
\* row is in the ledger, with the receipt's timestamp, and the account exists.
OkMeansCommitted ==
  \A c \in Cores :
    /\ Answered(c, "CreateTransaction") =>
         LET r == reply[c].value
         IN /\ r.transaction_id \in DOMAIN transactions
            /\ transactions[r.transaction_id] =
                 [timestamp |-> r.timestamp, sender_account_id |-> r.sender_account_id,
                  receiver_account_id |-> r.receiver_account_id, amount |-> msg[c].amount]
    /\ Answered(c, "CreateNewAccount") => reply[c].value \in DOMAIN accounts

\* A ledger row appears only in the step that gives its core the receipt for it, and
\* the receipt shows the sender's balance right after that row.
ReceiptIsExact ==
  [][\A t \in DOMAIN transactions' \ DOMAIN transactions :
       \E c \in Cores :
         /\ Answered(c, "CreateTransaction")'
         /\ reply'[c].value.transaction_id = t
         /\ reply'[c].value.sender_account_funds =
              accounts'[transactions'[t].sender_account_id]]_vars

\* "we are the authority": rows are stamped under the lock, so even with two cores
\* they are committed in the order of their timestamps and the history only grows
\* at its end.
TimestampsInCommitOrder ==
  [][\A t \in DOMAIN transactions' \ DOMAIN transactions, u \in DOMAIN transactions :
       transactions'[t].timestamp >= transactions[u].timestamp]_vars

\* A GetAccounts response is one snapshot: its balances add up to the circulation,
\* although another core may be between the two UPDATEs of a transfer.
BalanceSheetAddsUp ==
  \A c \in Cores :
    Answered(c, "GetAccounts") =>
      Total(reply[c].value) = IF Seed \in DOMAIN reply[c].value THEN SeedFunds ELSE 0

\* A row that a GetTransactions response shows is in the ledger for good, although
\* another core's transaction may still roll back.
HistoryIsCommitted ==
  \A c \in Cores :
    Answered(c, "GetTransactions") =>
      \A t \in DOMAIN reply[c].value :
        t \in DOMAIN transactions /\ transactions[t] = reply[c].value[t]

\* A request that reaches its handler is answered, unless the core dies: no wait
\* for the lock lasts for ever, even when another core keeps taking it.
EveryRequestAnswered ==
  \A c \in Cores : pc[c] = "dispatch" ~> pc[c] \in {"respond", "down"}

\* README.md, Economics: 'There is a "seed" account [...] which has 100,000 coin
\* when the database is created.'  A core that serves should have one.
ServingMeansSeeded ==
  \A c \in Cores : pc[c] \in {"recv", "dispatch"} => Seed \in DOMAIN accounts
=============================================================================
