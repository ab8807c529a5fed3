------------------------------ MODULE Stipend -------------------------------
(***************************************************************************)
(* The programs that pay from the seed account: bin/stipend.rs lists the   *)
(* accounts and pays a stipend to each that holds at most a minimum, and   *)
(* bin/seed_tx.rs pays the one account that it is given.                   *)
(*                                                                         *)
(* The module puts the programs between the two abstract specifications    *)
(* they rely on: their calls behave as Rpc says, and the core that         *)
(* executes them as Bank says.  Runs may overlap, and other clients use    *)
(* the bank meanwhile.                                                     *)
(***************************************************************************)
EXTENDS Totals

CONSTANTS
  AccountId, Seed, SeedFunds, TransactionId,
  Runs,           \* runs of the programs, ...
  Transfers,      \* ... those of seed_tx.rs among them
  Minimum, Receiver, Amount,  \* their arguments; each run is given an amount
  Limit,          \* the most that a run may ask for: 100
  Calls,          \* message ids
  NoRun, NoAccount, NoCall

ASSUME StipendAssumption ==
  /\ Seed \in AccountId /\ SeedFunds \in Nat
  /\ Transfers \subseteq Runs /\ Receiver \in [Transfers -> AccountId]
  /\ Minimum \in Int /\ Amount \in [Runs -> Int] /\ Limit \in Nat
  /\ NoRun \notin Runs /\ NoAccount \notin AccountId /\ NoCall \notin Calls

VARIABLES
  accounts, ledger,     \* the bank
  status, executions,   \* the calls
  request,        \* of each call: the run that made it, and the receiver if it pays
  result,         \* of each call: what the core answered, once it has executed it
  pc,             \* where each run is
  call,           \* the call each run waits for
  todo            \* the accounts each run has still to pay

B == INSTANCE Bank
R == INSTANCE Rpc

bankVars == <<accounts, ledger>>
rpcVars  == <<status, executions>>
vars     == <<bankVars, rpcVars, request, result, pc, call, todo>>

NoRequest == [run |-> NoRun, receiver |-> NoAccount]

Init ==
  /\ B!Init /\ R!Init
  /\ request = [i \in Calls |-> NoRequest]
  /\ result = [i \in Calls |-> EmptyTable]
  /\ pc = [r \in Runs |-> "new"]
  /\ call = [r \in Runs |-> NoCall]
  /\ todo = [r \in Runs |-> {}]

Goto(r, label) == pc' = [pc EXCEPT ![r] = label]

\* send_and_recv_msg() is called with a new message id; which one does not matter.
NewCall == CHOOSE i \in Calls : status[i] = "new"

Ask(r, receiver) ==
  /\ call[r] = NoCall
  /\ \E i \in Calls : status[i] = "new"
  /\ R!Issue(NewCall)
  /\ request' = [request EXCEPT ![NewCall] = [run |-> r, receiver |-> receiver]]
  /\ call' = [call EXCEPT ![r] = NewCall]

\* An amount over the limit ends a program before it does anything.
TooMuch(r) ==
  /\ Amount[r] > Limit
  /\ Goto(r, "done")
  /\ UNCHANGED <<rpcVars, request, call>>

\* stipend.rs asks for the accounts first, ...
Start(r) ==
  /\ pc[r] = "new" /\ r \notin Transfers
  /\ TooMuch(r) \/ (Amount[r] <= Limit /\ Goto(r, "list") /\ Ask(r, NoAccount))
  /\ UNCHANGED <<bankVars, result, todo>>

\* ... seed_tx.rs pays at once, and that is all it does.
StartTransfer(r) ==
  /\ pc[r] = "new" /\ r \in Transfers
  /\ TooMuch(r) \/ (Amount[r] <= Limit /\ Goto(r, "transfer") /\ Ask(r, Receiver[r]))
  /\ UNCHANGED <<bankVars, result, todo>>

\* It prints a receipt or the core's error, and ends.
Transferred(r) ==
  /\ pc[r] = "transfer"
  /\ R!Return(call[r])
  /\ call' = [call EXCEPT ![r] = NoCall]
  /\ Goto(r, "done")
  /\ UNCHANGED <<bankVars, request, result, todo>>

\* A mutant: the minimum itself is excluded.
EligibleBelow(table) == {a \in DOMAIN table : table[a] < Minimum}

Eligible(table) == {a \in DOMAIN table : table[a] <= Minimum}

\* The accounts come back; an error in their place is a panic.
Listed(r) ==
  /\ pc[r] = "list"
  /\ R!Return(call[r])
  /\ \/ Goto(r, "pay") /\ todo' = [todo EXCEPT ![r] = Eligible(result[call[r]])]
     \/ Goto(r, "panicked") /\ UNCHANGED todo
  /\ call' = [call EXCEPT ![r] = NoCall]
  /\ UNCHANGED <<bankVars, request, result>>

Pay(r) ==
  /\ pc[r] = "pay"
  /\ \E a \in todo[r] : Ask(r, a) /\ todo' = [todo EXCEPT ![r] = @ \ {a}]
  /\ UNCHANGED <<bankVars, result, pc>>

\* A receipt, or an error of the core, which is only printed.
Paid(r) ==
  /\ pc[r] = "pay" /\ call[r] # NoCall
  /\ R!Return(call[r])
  /\ call' = [call EXCEPT ![r] = NoCall]
  /\ UNCHANGED <<bankVars, request, result, pc, todo>>

Finish(r) ==
  /\ pc[r] = "pay" /\ call[r] = NoCall /\ todo[r] = {}
  /\ Goto(r, "done")
  /\ UNCHANGED <<bankVars, rpcVars, request, result, call, todo>>

\* A mutant: a payment without an answer is skipped.
PanicNot(r) == pc' = [pc EXCEPT ![r] = IF @ = "pay" THEN @ ELSE "panicked"] /\ UNCHANGED todo

\* A mutant: a payment without an answer is made once more.
PanicRetry(r) ==
  /\ pc' = [pc EXCEPT ![r] = IF @ = "pay" THEN @ ELSE "panicked"]
  /\ todo' = [todo EXCEPT ![r] = @ \cup {request[call[r]].receiver}]

\* A mutant: the program waits for the answer for ever.
PanicNever(r) == FALSE

Panic(r) == Goto(r, "panicked") /\ UNCHANGED todo

\* expect() panics when there is no answer, whatever became of the request.
Unanswered(r) ==
  LET i == call[r]
  IN /\ i # NoCall
     /\ R!Refuse(i) \/ R!GiveUp({i})
     /\ call' = [call EXCEPT ![r] = NoCall]
     /\ Panic(r)
     /\ UNCHANGED <<bankVars, request, result>>

\* The program is killed between two calls.
Killed(r) ==
  /\ pc[r] = "pay" /\ call[r] = NoCall
  /\ Goto(r, "panicked")
  /\ UNCHANGED <<bankVars, rpcVars, request, result, call, todo>>

-----------------------------------------------------------------------------
\* The core executes a request, perhaps long after the run has ended.

GetAccounts(i) ==
  /\ request[i].receiver = NoAccount
  /\ R!Execute(i)
  /\ result' = [result EXCEPT ![i] = accounts]
  /\ UNCHANGED <<bankVars, request, pc, call, todo>>

\* What the core's Ok and Err look like here: the receiver's account, or nothing.
CreateTransaction(i) ==
  LET a == request[i].receiver
      amount == Amount[request[i].run]
  IN /\ a \in AccountId
     /\ R!Execute(i)
     /\ \/ /\ \E t \in TransactionId : B!Transfer(t, Seed, a, amount)
           /\ result' = [result EXCEPT ![i] = [x \in {a} |-> amount]]
        \/ UNCHANGED <<bankVars, result>>
     /\ UNCHANGED <<request, pc, call, todo>>

\* Other clients.
Others ==
  /\ B!Next
  /\ UNCHANGED <<rpcVars, request, result, pc, call, todo>>

Proceed(r) ==
  Transferred(r) \/ Listed(r) \/ Pay(r) \/ Paid(r) \/ Finish(r) \/ Unanswered(r)

RunStep(r) == Start(r) \/ StartTransfer(r) \/ Proceed(r) \/ Killed(r)

Next ==
  \/ \E r \in Runs : RunStep(r)
  \/ \E i \in Calls : GetAccounts(i) \/ CreateTransaction(i)
  \/ Others

Spec == Init /\ [][Next]_vars

\* A run goes on once it has been started: send_and_recv_msg() returns.
Fairness == \A r \in Runs : WF_vars(Proceed(r))

FairSpec == Spec /\ Fairness

-----------------------------------------------------------------------------
PaymentsOf(r, a) == {i \in Calls : request[i].run = r /\ request[i].receiver = a}
Succeeded(i)     == result[i] # EmptyTable

\* No run pays an account twice, although its calls time out and are executed late:
\* a run never sends what it may have sent already.
PaidOncePerRun ==
  \A r \in Runs, a \in AccountId :
    \A i, j \in PaymentsOf(r, a) : Succeeded(i) /\ Succeeded(j) => i = j

\* Of a run's calls at most the last is in doubt, and only if the run did not finish:
\* what a finished run printed is the whole truth.
OneInDoubt ==
  \A r \in Runs, i, j \in Calls :
    request[i].run = r /\ status[i] = "unknown" =>
      /\ pc[r] = "panicked"
      /\ request[j].run = r /\ status[j] # "answered" => i = j

\* The accounts a run has to pay: those at or below the minimum when the core listed
\* the accounts, or the one it was given.
Owed(r) ==
  IF r \in Transfers THEN {Receiver[r]}
  ELSE {a \in AccountId : \E i \in PaymentsOf(r, NoAccount) :
                            a \in DOMAIN result[i] /\ result[i][a] <= Minimum}

\* A finished run, unless it asked for too much, has asked the core to pay each account
\* it had to, and has the core's answer to each, however the core's state has changed.
FinishedMeansAnswered ==
  \A r \in Runs : pc[r] = "done" /\ Amount[r] <= Limit =>
    \A a \in Owed(r) : \E j \in PaymentsOf(r, a) : status[j] = "answered"

\* Every run ends: other clients that create accounts and spend cannot prolong it.
EveryRunEnds ==
  \A r \in Runs : pc[r] \in {"list", "pay", "transfer"} ~> pc[r] \in {"done", "panicked"}
=============================================================================
