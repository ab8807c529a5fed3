--------------------------- MODULE StipendProofs ----------------------------
(***************************************************************************)
(* Proofs about Stipend: no run pays an account twice, at most one call of *)
(* a run is in doubt, a finished run has done all it had to, and nothing   *)
(* the runs do makes or destroys a coin.                                   *)
(***************************************************************************)
EXTENDS Stipend, TLAPS

CallsOf(r) == {i \in Calls : request[i].run = r}

CallsTypeOK ==
  /\ IsTable(accounts, AccountId, Nat)
  /\ status \in [Calls -> {"new", "open", "answered", "refused", "unknown"}]
  /\ executions \in [Calls -> {0, 1}]
  /\ request \in [Calls -> [run : Runs \cup {NoRun}, receiver : AccountId \cup {NoAccount}]]
  /\ DOMAIN result = Calls
  /\ \A i \in Calls : DOMAIN result[i] \subseteq AccountId

RunsTypeOK ==
  /\ pc \in [Runs -> {"new", "list", "transfer", "pay", "done", "panicked"}]
  /\ call \in [Runs -> Calls \cup {NoCall}]
  /\ todo \in [Runs -> SUBSET AccountId]

TypeOK == CallsTypeOK /\ RunsTypeOK

\* Only a call that a run has made has a request, and only an executed one a result.
CallsMatch ==
  \A i \in Calls :
    /\ status[i] = "new" => request[i] = NoRequest
    /\ request[i] # NoRequest => request[i].run \in Runs
    /\ executions[i] = 0 => result[i] = EmptyTable

\* A waiting run waits for an open call of its own, of the kind its place asks for.
Waits(r) ==
  call[r] # NoCall =>
    LET i == call[r]
    IN /\ request[i].run = r /\ status[i] = "open"
       /\ pc[r] \in {"list", "transfer", "pay"}
       /\ pc[r] = "list" => request[i].receiver = NoAccount
       /\ pc[r] = "transfer" => request[i].receiver = Receiver[r]
       /\ pc[r] = "pay" => request[i].receiver \in AccountId

\* How far a run has got.
Progress(r) ==
  /\ pc[r] = "new" => CallsOf(r) = {}
  /\ pc[r] \in {"list", "transfer"} => call[r] # NoCall
  /\ pc[r] = "list" => CallsOf(r) = {call[r]}
  /\ pc[r] \notin {"pay", "panicked"} => todo[r] = {}
  /\ pc[r] \in {"list", "pay"} => r \notin Transfers
  /\ pc[r] = "transfer" => r \in Transfers

\* Every call but the one a run waits for has its answer; a run that panicked may
\* have left one without.
Settled(r) ==
  /\ pc[r] # "panicked" => \A i \in CallsOf(r) : i = call[r] \/ status[i] = "answered"
  /\ pc[r] = "panicked" =>
       \A i, j \in CallsOf(r) : status[i] # "answered" /\ status[j] # "answered" => i = j

\* What was sent once, whatever became of it, is not sent again.
SentOnce(r) ==
  /\ \A i, j \in CallsOf(r) : request[i].receiver = request[j].receiver => i = j
  /\ \A i \in CallsOf(r) : request[i].receiver \notin todo[r]

\* What a run owes it has paid or is about to.
Accounted(r) ==
  pc[r] \in {"transfer", "pay"} \/ (pc[r] = "done" /\ Amount[r] <= Limit) =>
    \A a \in Owed(r) : a \in todo[r] \/ \E i \in CallsOf(r) : request[i].receiver = a

RunOK(r) == Waits(r) /\ Progress(r) /\ Settled(r) /\ SentOnce(r) /\ Accounted(r)

\* The inductive invariant.
IInv == TypeOK /\ CallsMatch /\ \A r \in Runs : RunOK(r)
-----------------------------------------------------------------------------
\* Sending a request.

\* The call i is made by run r for the account a.
Sends(i, r, a) ==
  /\ call[r] = NoCall /\ status[i] = "new"
  /\ status' = [status EXCEPT ![i] = "open"]
  /\ request' = [request EXCEPT ![i] = [run |-> r, receiver |-> a]]
  /\ call' = [call EXCEPT ![r] = i]
  /\ UNCHANGED executions

LEMMA AskSends ==
  ASSUME NEW r, NEW a, Ask(r, a)
  PROVE  \E i \in Calls : Sends(i, r, a)
<1>1. NewCall \in Calls
  BY DEF Ask, NewCall
<1>2. Sends(NewCall, r, a)
  BY DEF Ask, Sends, R!Issue, R!Become
<1>3. QED
  BY <1>1, <1>2

LEMMA SendFacts ==
  ASSUME IInv, NEW r \in Runs, NEW a \in AccountId \cup {NoAccount}, NEW i \in Calls,
         Sends(i, r, a), UNCHANGED <<accounts, result>>
  PROVE  /\ CallsTypeOK' /\ CallsMatch' /\ call' \in [Runs -> Calls \cup {NoCall}]
         /\ call'[r] = i /\ status'[i] = "open" /\ request'[i] = [run |-> r, receiver |-> a]
         /\ \A j \in Calls : j # i => request'[j] = request[j] /\ status'[j] = status[j]
         /\ request[i].run = NoRun /\ i \notin CallsOf(r)
         /\ CallsOf(r)' = CallsOf(r) \cup {i}
<1>1. request[i] = NoRequest
  BY DEF IInv, CallsMatch, Sends
<1>2. request[i].run = NoRun /\ i \notin CallsOf(r)
  BY <1>1, StipendAssumption DEF NoRequest, CallsOf
<1>3. /\ call'[r] = i /\ status'[i] = "open" /\ request'[i] = [run |-> r, receiver |-> a]
      /\ \A j \in Calls : j # i => request'[j] = request[j] /\ status'[j] = status[j]
      /\ call' \in [Runs -> Calls \cup {NoCall}]
  BY DEF IInv, TypeOK, CallsTypeOK, RunsTypeOK, Sends
<1>4. CallsTypeOK'
  BY DEF IInv, TypeOK, CallsTypeOK, Sends
<1>5. CallsMatch'
  BY <1>3 DEF IInv, CallsMatch, Sends
<1>6. CallsOf(r)' = CallsOf(r) \cup {i}
  BY <1>3 DEF CallsOf
<1>7. QED
  BY <1>2, <1>3, <1>4, <1>5, <1>6

-----------------------------------------------------------------------------
\* A run that takes no step.

LEMMA OtherRun ==
  ASSUME IInv, NEW d \in Runs,
         pc'[d] = pc[d], call'[d] = call[d], todo'[d] = todo[d],
         \A i \in Calls : request[i].run = d \/ request'[i].run = d =>
           request'[i] = request[i] /\ status'[i] = status[i] /\ result'[i] = result[i]
  PROVE  RunOK(d)'
<1>1. RunOK(d) /\ call[d] \in Calls \cup {NoCall}
  BY DEF IInv, TypeOK, RunsTypeOK
<1>2. /\ CallsOf(d)' = CallsOf(d)
      /\ \A i \in CallsOf(d) :
           request'[i] = request[i] /\ status'[i] = status[i] /\ result'[i] = result[i]
  BY DEF CallsOf
<1>3. Waits(d)'
  BY <1>1 DEF RunOK, Waits
<1>4. Progress(d)'
  BY <1>1, <1>2 DEF RunOK, Progress
<1>5. Settled(d)'
  BY <1>1, <1>2 DEF RunOK, Settled
<1>6. SentOnce(d)'
  BY <1>1, <1>2 DEF RunOK, SentOnce
<1>7. Accounted(d)'
  <2>1. Owed(d)' = Owed(d)
    BY DEF Owed, PaymentsOf
  <2>2. QED
    BY <1>1, <1>2, <2>1 DEF RunOK, Accounted
<1>8. QED
  BY <1>3, <1>4, <1>5, <1>6, <1>7 DEF RunOK

\* What every step of run r keeps.
Kept(r) == TypeOK' /\ CallsMatch' /\ \A d \in Runs : RunOK(d)'

\* A run that sends does not disturb the others.
LEMMA SendKeeps ==
  ASSUME IInv, NEW r \in Runs, NEW a \in AccountId \cup {NoAccount}, NEW i \in Calls,
         Sends(i, r, a), UNCHANGED <<accounts, result>>,
         RunsTypeOK', RunOK(r)',
         \A d \in Runs : d # r => pc'[d] = pc[d] /\ todo'[d] = todo[d]
  PROVE  Kept(r)
<1>1. ASSUME NEW d \in Runs, d # r PROVE RunOK(d)'
  <2>1. call'[d] = call[d]
    BY <1>1 DEF Sends, IInv, TypeOK, RunsTypeOK
  <2>2. /\ request[i].run = NoRun /\ request'[i] = [run |-> r, receiver |-> a]
        /\ \A j \in Calls : j # i => request'[j] = request[j] /\ status'[j] = status[j]
    BY SendFacts
  <2>3. request[i].run # d /\ request'[i].run # d
    BY <1>1, <2>2, StipendAssumption
  <2>4. \A j \in Calls : request[j].run = d \/ request'[j].run = d =>
          request'[j] = request[j] /\ status'[j] = status[j] /\ result'[j] = result[j]
    BY <2>2, <2>3
  <2>5. QED
    BY <1>1, <2>1, <2>4, OtherRun
<1>2. QED
  BY <1>1, SendFacts DEF Kept, TypeOK

LEMMA StartKeeps ==
  ASSUME IInv, NEW r \in Runs, Start(r), Amount[r] <= Limit
  PROVE  Kept(r)
<1>1. /\ pc[r] = "new" /\ r \notin Transfers /\ Goto(r, "list") /\ Ask(r, NoAccount)
      /\ UNCHANGED <<accounts, result, todo>>
  BY StipendAssumption DEF Start, TooMuch, bankVars
<1>2. PICK i \in Calls : Sends(i, r, NoAccount)
  BY <1>1, AskSends
<1>3. CallsOf(r) = {} /\ todo[r] = {}
  BY <1>1 DEF IInv, RunOK, Progress
<1>4. pc' = [pc EXCEPT ![r] = "list"] /\ pc'[r] = "list" /\ todo'[r] = {}
  BY <1>1, <1>3 DEF Goto, IInv, TypeOK, RunsTypeOK
<1>5. CallsOf(r)' = {i} /\ call'[r] = i /\ status'[i] = "open"
      /\ request'[i] = [run |-> r, receiver |-> NoAccount]
  BY <1>1, <1>2, <1>3, SendFacts
<1>6. Waits(r)' /\ Progress(r)'
  BY <1>1, <1>4, <1>5, StipendAssumption DEF Waits, Progress
<1>7. Settled(r)' /\ SentOnce(r)' /\ Accounted(r)'
  BY <1>4, <1>5 DEF Settled, SentOnce, Accounted
<1>8. RunsTypeOK'
  BY <1>1, <1>2, <1>4, SendFacts DEF IInv, TypeOK, RunsTypeOK
<1>9. \A d \in Runs : d # r => pc'[d] = pc[d] /\ todo'[d] = todo[d]
  BY <1>1, <1>4 DEF IInv, TypeOK, RunsTypeOK
<1>10. QED
  BY <1>1, <1>2, <1>6, <1>7, <1>8, <1>9, SendKeeps DEF RunOK

LEMMA StartTransferKeeps ==
  ASSUME IInv, NEW r \in Runs, StartTransfer(r), Amount[r] <= Limit
  PROVE  Kept(r)
<1>1. /\ pc[r] = "new" /\ r \in Transfers /\ Goto(r, "transfer") /\ Ask(r, Receiver[r])
      /\ UNCHANGED <<accounts, result, todo>> /\ Receiver[r] \in AccountId
  BY StipendAssumption DEF StartTransfer, TooMuch, bankVars
<1>2. PICK i \in Calls : Sends(i, r, Receiver[r])
  BY <1>1, AskSends
<1>3. CallsOf(r) = {} /\ todo[r] = {}
  BY <1>1 DEF IInv, RunOK, Progress
<1>4. pc' = [pc EXCEPT ![r] = "transfer"] /\ pc'[r] = "transfer" /\ todo'[r] = {}
  BY <1>1, <1>3 DEF Goto, IInv, TypeOK, RunsTypeOK
<1>5. CallsOf(r)' = {i} /\ call'[r] = i /\ status'[i] = "open"
      /\ request'[i] = [run |-> r, receiver |-> Receiver[r]]
  BY <1>1, <1>2, <1>3, SendFacts
<1>6. Waits(r)' /\ Progress(r)'
  BY <1>1, <1>4, <1>5, StipendAssumption DEF Waits, Progress
<1>7. Settled(r)' /\ SentOnce(r)'
  BY <1>4, <1>5 DEF Settled, SentOnce
<1>8. Accounted(r)'
  BY <1>1, <1>5 DEF Accounted, Owed
<1>9. RunsTypeOK'
  BY <1>1, <1>2, <1>4, SendFacts DEF IInv, TypeOK, RunsTypeOK
<1>10. \A d \in Runs : d # r => pc'[d] = pc[d] /\ todo'[d] = todo[d]
  BY <1>1, <1>4 DEF IInv, TypeOK, RunsTypeOK
<1>11. QED
  BY <1>1, <1>2, <1>6, <1>7, <1>8, <1>9, <1>10, SendKeeps DEF RunOK

LEMMA NoCallIsNone == NoCall \notin Calls
BY StipendAssumption

LEMMA PayKeeps ==
  ASSUME IInv, NEW r \in Runs, Pay(r)
  PROVE  Kept(r)
<1>1. PICK a \in todo[r] : Ask(r, a) /\ todo' = [todo EXCEPT ![r] = @ \ {a}]
  BY DEF Pay
<1>2. /\ pc[r] = "pay" /\ pc' = pc /\ UNCHANGED <<accounts, result>>
  BY DEF Pay, bankVars
<1>3. a \in AccountId
  BY <1>1 DEF IInv, TypeOK, RunsTypeOK
<1>4. PICK i \in Calls : Sends(i, r, a)
  BY <1>1, AskSends
<1>5. /\ RunOK(r) /\ call[r] = NoCall /\ todo'[r] = todo[r] \ {a}
      /\ \A d \in Runs : d # r => todo'[d] = todo[d]
  BY <1>1, <1>4 DEF Sends, IInv, TypeOK, RunsTypeOK
<1>6. /\ i \notin CallsOf(r) /\ CallsOf(r)' = CallsOf(r) \cup {i}
      /\ call'[r] = i /\ status'[i] = "open" /\ request'[i] = [run |-> r, receiver |-> a]
      /\ \A j \in CallsOf(r) : request'[j] = request[j] /\ status'[j] = status[j]
  <2>1. \A j \in CallsOf(r) : j \in Calls
    BY DEF CallsOf
  <2>2. QED
    BY <1>2, <1>3, <1>4, <2>1, SendFacts
<1>7. Waits(r)'
  BY <1>2, <1>3, <1>6 DEF Waits
<1>8. Progress(r)'
  BY <1>2, <1>5 DEF RunOK, Progress
<1>9. Settled(r)'
  <2>1. \A j \in CallsOf(r) : status[j] = "answered"
    BY <1>2, <1>5, NoCallIsNone DEF RunOK, Settled, CallsOf
  <2>2. QED
    BY <1>2, <1>6, <2>1 DEF Settled
<1>10. SentOnce(r)'
  <2>1. \A j \in CallsOf(r) : request[j].receiver # a
    BY <1>1, <1>5 DEF RunOK, SentOnce
  <2>2. QED
    BY <1>5, <1>6, <2>1 DEF RunOK, SentOnce
<1>11. Accounted(r)'
  <2>1. Owed(r)' \subseteq Owed(r)
    <3>1. PaymentsOf(r, NoAccount)' \subseteq PaymentsOf(r, NoAccount)
      BY <1>3, <1>6, StipendAssumption DEF PaymentsOf, CallsOf
    <3>2. QED
      BY <1>2, <3>1 DEF Owed
  <2>2. \A x \in Owed(r) : x \in todo[r] \/ \E j \in CallsOf(r) : request[j].receiver = x
    BY <1>2, <1>5 DEF RunOK, Accounted
  <2>3. ASSUME NEW x \in Owed(r)'
        PROVE  x \in todo'[r] \/ \E j \in CallsOf(r)' : request'[j].receiver = x
    <3>1. CASE x = a
      BY <1>6, <3>1
    <3>2. CASE x # a
      BY <1>5, <1>6, <2>1, <2>2, <3>2
    <3>3. QED
      BY <3>1, <3>2
  <2>4. QED
    BY <2>3 DEF Accounted
<1>12. RunsTypeOK'
  BY <1>1, <1>2, <1>3, <1>4, SendFacts DEF IInv, TypeOK, RunsTypeOK
<1>13. QED
  BY <1>2, <1>3, <1>4, <1>5, <1>7, <1>8, <1>9, <1>10, <1>11, <1>12, SendKeeps DEF RunOK

-----------------------------------------------------------------------------
\* The call of a run ends, one way or another.

\* The call of run r ends as s says, and the run goes on to label with a list.
Ends(r, s, label, list) ==
  /\ call[r] # NoCall
  /\ status' = [status EXCEPT ![call[r]] = s]
  /\ call' = [call EXCEPT ![r] = NoCall]
  /\ pc' = [pc EXCEPT ![r] = label]
  /\ todo' = [todo EXCEPT ![r] = list]
  /\ UNCHANGED <<accounts, executions, request, result>>

LEMMA EndKeeps ==
  ASSUME IInv, NEW r \in Runs, NEW s \in {"answered", "refused", "unknown"},
         NEW label \in {"pay", "done", "panicked"}, NEW list \in SUBSET AccountId,
         Ends(r, s, label, list),
         label # "panicked" => s = "answered",
         label = "pay" => r \notin Transfers,
         label = "done" => list = {},
         \A i \in CallsOf(r) : request[i].receiver \notin list,
         label # "panicked" =>
           \A a \in Owed(r) : a \in list \/ \E i \in CallsOf(r) : request[i].receiver = a
  PROVE  Kept(r)
<1>1. call[r] \in Calls /\ RunOK(r)
  BY DEF Ends, IInv, TypeOK, RunsTypeOK
<1>2. /\ request[call[r]].run = r /\ status[call[r]] = "open"
      /\ pc[r] # "panicked"
  BY <1>1 DEF RunOK, Waits, Ends
<1>3. /\ status'[call[r]] = s /\ \A i \in Calls : i # call[r] => status'[i] = status[i]
      /\ call'[r] = NoCall /\ pc'[r] = label /\ todo'[r] = list
      /\ \A d \in Runs : d # r => pc'[d] = pc[d] /\ call'[d] = call[d] /\ todo'[d] = todo[d]
  BY <1>1 DEF Ends, IInv, TypeOK, CallsTypeOK, RunsTypeOK
<1>4. TypeOK'
  BY <1>1 DEF Ends, IInv, TypeOK, CallsTypeOK, RunsTypeOK
<1>5. CallsMatch'
  BY <1>1, <1>3 DEF Ends, IInv, CallsMatch
<1>6. ASSUME NEW d \in Runs, d # r PROVE RunOK(d)'
  <2>1. \A i \in Calls : request[i].run = d \/ request'[i].run = d =>
          request'[i] = request[i] /\ status'[i] = status[i] /\ result'[i] = result[i]
    BY <1>2, <1>3, <1>6 DEF Ends
  <2>2. QED
    BY <1>3, <1>6, <2>1, OtherRun
<1>7. RunOK(r)'
  <2>1. CallsOf(r)' = CallsOf(r) /\ \A i \in CallsOf(r) : i \in Calls
    BY DEF CallsOf, Ends
  <2>2. Waits(r)' /\ Progress(r)'
    BY <1>3 DEF Waits, Progress
  <2>3. \A i \in CallsOf(r) : i = call[r] \/ status'[i] = "answered"
    BY <1>1, <1>2, <1>3, <2>1 DEF RunOK, Settled
  <2>4. Settled(r)'
    BY <1>3, <2>1, <2>3 DEF Settled
  <2>5. SentOnce(r)'
    BY <1>1, <1>3, <2>1 DEF RunOK, SentOnce, Ends
  <2>6. Owed(r)' = Owed(r)
    BY DEF Owed, PaymentsOf, Ends
  <2>7. Accounted(r)'
    BY <1>3, <2>1, <2>6 DEF Accounted, Ends
  <2>8. QED
    BY <2>2, <2>4, <2>5, <2>7 DEF RunOK
<1>8. QED
  BY <1>4, <1>5, <1>6, <1>7 DEF Kept

LEMMA TransferredKeeps ==
  ASSUME IInv, NEW r \in Runs, Transferred(r)
  PROVE  Kept(r)
<1>1. RunOK(r) /\ pc[r] = "transfer" /\ call[r] # NoCall
  BY DEF Transferred, IInv, RunOK, Progress
<1>2. r \in Transfers /\ todo[r] = {}
  BY <1>1 DEF RunOK, Progress
<1>3. todo = [todo EXCEPT ![r] = {}]
  BY <1>2 DEF IInv, TypeOK, RunsTypeOK
<1>4. Ends(r, "answered", "done", {})
  BY <1>1, <1>3 DEF Transferred, Ends, R!Return, R!Become, Goto, bankVars
<1>5. \A a \in Owed(r) : \E i \in CallsOf(r) : request[i].receiver = a
  BY <1>1, <1>2 DEF RunOK, Accounted
<1>6. QED
  BY <1>4, <1>5, EndKeeps

LEMMA ListedKeeps ==
  ASSUME IInv, NEW r \in Runs, Listed(r)
  PROVE  Kept(r)
<1> DEFINE i == call[r]
<1>1. RunOK(r) /\ pc[r] = "list" /\ i # NoCall /\ i \in Calls
  BY DEF Listed, IInv, RunOK, Progress, TypeOK, RunsTypeOK
<1>2. /\ CallsOf(r) = {i} /\ request[i].run = r /\ request[i].receiver = NoAccount
      /\ r \notin Transfers /\ todo[r] = {}
  BY <1>1 DEF RunOK, Progress, Waits
<1>3. CASE Goto(r, "pay") /\ todo' = [todo EXCEPT ![r] = Eligible(result[i])]
  <2>1. Eligible(result[i]) \in SUBSET AccountId
    BY <1>1 DEF Eligible, IInv, TypeOK, CallsTypeOK
  <2>2. Ends(r, "answered", "pay", Eligible(result[i]))
    BY <1>1, <1>3 DEF Listed, Ends, R!Return, R!Become, Goto, bankVars
  <2>3. \A j \in CallsOf(r) : request[j].receiver \notin Eligible(result[i])
    BY <1>2, <2>1, StipendAssumption
  <2>4. Owed(r) \subseteq Eligible(result[i])
    BY <1>2 DEF Owed, PaymentsOf, CallsOf, Eligible
  <2>5. QED
    BY <1>2, <2>1, <2>2, <2>3, <2>4, EndKeeps
<1>4. CASE Goto(r, "panicked") /\ UNCHANGED todo
  <2>1. todo = [todo EXCEPT ![r] = {}]
    BY <1>2 DEF IInv, TypeOK, RunsTypeOK
  <2>2. Ends(r, "answered", "panicked", {})
    BY <1>1, <1>4, <2>1 DEF Listed, Ends, R!Return, R!Become, Goto, bankVars
  <2>3. QED
    BY <2>2, EndKeeps
<1>5. QED
  BY <1>3, <1>4 DEF Listed

LEMMA PaidKeeps ==
  ASSUME IInv, NEW r \in Runs, Paid(r)
  PROVE  Kept(r)
<1>1. RunOK(r) /\ pc[r] = "pay" /\ call[r] # NoCall
  BY DEF Paid, IInv
<1>2. /\ todo = [todo EXCEPT ![r] = todo[r]] /\ pc = [pc EXCEPT ![r] = "pay"]
      /\ todo[r] \in SUBSET AccountId
  BY <1>1 DEF IInv, TypeOK, RunsTypeOK
<1>3. Ends(r, "answered", "pay", todo[r])
  BY <1>1, <1>2 DEF Paid, Ends, R!Return, R!Become, bankVars
<1>4. /\ r \notin Transfers
      /\ \A i \in CallsOf(r) : request[i].receiver \notin todo[r]
      /\ \A a \in Owed(r) : a \in todo[r] \/ \E i \in CallsOf(r) : request[i].receiver = a
  BY <1>1 DEF RunOK, Progress, SentOnce, Accounted
<1>5. QED
  BY <1>2, <1>3, <1>4, EndKeeps

LEMMA UnansweredKeeps ==
  ASSUME IInv, NEW r \in Runs, Unanswered(r)
  PROVE  Kept(r)
<1>1. RunOK(r) /\ call[r] # NoCall /\ call[r] \in Calls
  BY DEF Unanswered, IInv, TypeOK, RunsTypeOK
<1>2. /\ todo = [todo EXCEPT ![r] = todo[r]] /\ todo[r] \in SUBSET AccountId
  BY DEF IInv, TypeOK, RunsTypeOK
<1>3. \A i \in CallsOf(r) : request[i].receiver \notin todo[r]
  BY <1>1 DEF RunOK, SentOnce
<1>4. CASE R!Refuse(call[r])
  <2>1. Ends(r, "refused", "panicked", todo[r])
    BY <1>1, <1>2, <1>4 DEF Unanswered, Ends, Panic, R!Refuse, R!Become, Goto, bankVars
  <2>2. QED
    BY <1>2, <1>3, <2>1, EndKeeps
<1>5. CASE R!GiveUp({call[r]})
  <2>1. status' = [status EXCEPT ![call[r]] = "unknown"]
    BY <1>5 DEF R!GiveUp, IInv, TypeOK, CallsTypeOK
  <2>2. Ends(r, "unknown", "panicked", todo[r])
    BY <1>1, <1>2, <1>5, <2>1 DEF Unanswered, Ends, Panic, R!GiveUp, Goto, bankVars
  <2>3. QED
    BY <1>2, <1>3, <2>2, EndKeeps
<1>6. QED
  BY <1>4, <1>5 DEF Unanswered

-----------------------------------------------------------------------------
\* A run that waits for nothing ends.

LEMMA StopKeeps ==
  ASSUME IInv, NEW r \in Runs, NEW label \in {"done", "panicked"},
         call[r] = NoCall, pc[r] # "panicked", Goto(r, label),
         UNCHANGED <<bankVars, rpcVars, request, result, call, todo>>,
         label = "done" => todo[r] = {},
         label = "done" => pc[r] = "pay" \/ Amount[r] > Limit
  PROVE  Kept(r)
<1>1. RunOK(r) /\ pc'[r] = label /\ \A d \in Runs : d # r => pc'[d] = pc[d]
  BY DEF Goto, IInv, TypeOK, RunsTypeOK
<1>2. TypeOK'
  BY DEF Goto, IInv, TypeOK, CallsTypeOK, RunsTypeOK, bankVars, rpcVars
<1>3. CallsMatch'
  BY DEF IInv, CallsMatch, rpcVars
<1>4. ASSUME NEW d \in Runs, d # r PROVE RunOK(d)'
  BY <1>1, <1>4, OtherRun DEF rpcVars
<1>5. RunOK(r)'
  <2>1. CallsOf(r)' = CallsOf(r) /\ Owed(r)' = Owed(r)
        /\ UNCHANGED <<status, request, call, todo>>
    BY DEF CallsOf, Owed, PaymentsOf, rpcVars
  <2>2. Waits(r)' /\ Progress(r)'
    BY <1>1, <2>1 DEF Waits, Progress
  <2>3. \A i \in CallsOf(r) : status[i] = "answered"
    BY <1>1, NoCallIsNone DEF RunOK, Settled, CallsOf
  <2>4. Settled(r)'
    BY <2>1, <2>3 DEF Settled
  <2>5. SentOnce(r)'
    BY <1>1, <2>1 DEF RunOK, SentOnce
  <2>6. Accounted(r)'
    <3>1. CASE label = "done" /\ pc[r] = "pay"
      BY <1>1, <2>1, <3>1 DEF RunOK, Accounted
    <3>2. CASE label = "done" /\ Amount[r] > Limit
      BY <1>1, <2>1, <3>2, StipendAssumption DEF Accounted
    <3>3. CASE label = "panicked"
      BY <1>1, <3>3 DEF Accounted
    <3>4. QED
      BY <3>1, <3>2, <3>3
  <2>7. QED
    BY <2>2, <2>4, <2>5, <2>6 DEF RunOK
<1>6. QED
  BY <1>2, <1>3, <1>4, <1>5 DEF Kept

LEMMA StopsKeep ==
  ASSUME IInv, NEW r \in Runs,
         \/ (Start(r) \/ StartTransfer(r)) /\ Amount[r] > Limit
         \/ Finish(r) \/ Killed(r)
  PROVE  Kept(r)
<1>1. CASE (Start(r) \/ StartTransfer(r)) /\ Amount[r] > Limit
  <2>1. pc[r] = "new" /\ TooMuch(r) /\ UNCHANGED <<bankVars, result, todo>>
    BY <1>1, StipendAssumption DEF Start, StartTransfer
  <2>2. call[r] = NoCall /\ todo[r] = {}
    BY <2>1 DEF IInv, RunOK, Waits, Progress
  <2>3. QED
    BY <2>1, <2>2, StopKeeps DEF TooMuch
<1>2. CASE Finish(r)
  BY <1>2, StopKeeps DEF Finish
<1>3. CASE Killed(r)
  BY <1>3, StopKeeps DEF Killed
<1>4. QED
  BY <1>1, <1>2, <1>3

LEMMA RunStepInv ==
  ASSUME IInv, NEW r \in Runs, RunStep(r)
  PROVE  IInv'
<1>1. Amount[r] <= Limit \/ Amount[r] > Limit
  BY StipendAssumption
<1>2. Kept(r)
  BY <1>1, StartKeeps, StartTransferKeeps, TransferredKeeps, ListedKeeps, PayKeeps, PaidKeeps,
     UnansweredKeeps, StopsKeep DEF RunStep, Proceed
<1>3. QED
  BY <1>2 DEF Kept, IInv

-----------------------------------------------------------------------------
\* The bank.

\* Accounts hold whole coins, whoever changes them.
LEMMA TransferType ==
  ASSUME IsTable(accounts, AccountId, Nat), NEW t, NEW s, NEW d, NEW n \in Int,
         B!Transfer(t, s, d, n)
  PROVE  /\ IsTable(accounts', AccountId, Nat) /\ n \in 1..(accounts[s] + 1)
         /\ s \in DOMAIN accounts /\ d \in DOMAIN accounts
<1>1. /\ s \in DOMAIN accounts /\ d \in DOMAIN accounts /\ s # d /\ n \in 1..accounts[s]
      /\ accounts' = [accounts EXCEPT ![s] = @ - n, ![d] = @ + n]
  BY DEF B!Transfer
<1>2. accounts[s] \in Nat /\ accounts[d] \in Nat
  BY <1>1 DEF IsTable
<1>3. accounts[s] - n \in Nat /\ accounts[d] + n \in Nat /\ n \in 1..(accounts[s] + 1)
  BY <1>1, <1>2
<1>4. QED
  BY <1>1, <1>3 DEF IsTable

LEMMA BankType ==
  ASSUME IsTable(accounts, AccountId, Nat), B!Next
  PROVE  IsTable(accounts', AccountId, Nat)
<1>1. CASE B!CreateSeedAccount
  BY <1>1, StipendAssumption DEF B!CreateSeedAccount, B!Put, IsTable
<1>2. CASE \E a \in AccountId \ {Seed} : B!CreateAccount(a)
  BY <1>2 DEF B!CreateAccount, B!Put, IsTable
<1>3. ASSUME NEW t \in TransactionId, NEW s \in AccountId, NEW d \in AccountId,
             s \in DOMAIN accounts, NEW n \in 1..(accounts[s] + 1), B!Transfer(t, s, d, n)
      PROVE  IsTable(accounts', AccountId, Nat)
  BY <1>3, TransferType
<1>4. QED
  BY <1>1, <1>2, <1>3 DEF B!Next

-----------------------------------------------------------------------------
\* The core executes a request: no run notices until its call ends.

LEMMA ExecuteInv ==
  ASSUME IInv, NEW i \in Calls, R!Execute(i),
         IsTable(accounts', AccountId, Nat),
         NEW v, result' = [result EXCEPT ![i] = v] \/ UNCHANGED result,
         DOMAIN v \subseteq AccountId,
         UNCHANGED <<request, pc, call, todo>>
  PROVE  IInv'
<1>1. /\ status' = status /\ status[i] # "answered"
      /\ executions'[i] = 1 /\ executions' \in [Calls -> {0, 1}]
      /\ \A j \in Calls : j # i => executions'[j] = executions[j] /\ result'[j] = result[j]
      /\ DOMAIN result' = Calls /\ \A j \in Calls : DOMAIN result'[j] \subseteq AccountId
  BY DEF R!Execute, IInv, TypeOK, CallsTypeOK
<1>2. TypeOK'
  BY <1>1 DEF IInv, TypeOK, CallsTypeOK, RunsTypeOK
<1>3. CallsMatch'
  BY <1>1 DEF IInv, CallsMatch
<1>4. ASSUME NEW r \in Runs PROVE RunOK(r)'
  <2>1. RunOK(r) /\ CallsOf(r)' = CallsOf(r)
    BY DEF IInv, CallsOf
  <2>2. Waits(r)' /\ Progress(r)' /\ Settled(r)' /\ SentOnce(r)'
    BY <1>1, <2>1 DEF RunOK, Waits, Progress, Settled, SentOnce
  <2>3. Accounted(r)'
    <3>1. CASE r \in Transfers
      BY <2>1, <3>1 DEF RunOK, Accounted, Owed
    <3>2. CASE r \notin Transfers /\ pc[r] \in {"pay", "done"}
      <4>1. PaymentsOf(r, NoAccount)' = PaymentsOf(r, NoAccount)
        BY DEF PaymentsOf
      <4>2. i \notin PaymentsOf(r, NoAccount)
        <5>1. SUFFICES ASSUME i \in PaymentsOf(r, NoAccount) PROVE FALSE
          OBVIOUS
        <5>2. i \in CallsOf(r) /\ request[i].receiver = NoAccount
          BY <5>1 DEF PaymentsOf, CallsOf
        <5>3. i = call[r]
          BY <1>1, <2>1, <3>2, <5>2 DEF RunOK, Settled
        <5>4. QED
          BY <2>1, <3>2, <5>2, <5>3, StipendAssumption, NoCallIsNone DEF RunOK, Waits
      <4>3. Owed(r)' = Owed(r)
        BY <1>1, <3>2, <4>1, <4>2 DEF Owed, PaymentsOf
      <4>4. QED
        BY <2>1, <4>3 DEF RunOK, Accounted
    <3>3. CASE r \notin Transfers /\ pc[r] \notin {"pay", "done"}
      BY <2>1, <3>3 DEF RunOK, Progress, Accounted
    <3>4. QED
      BY <3>1, <3>2, <3>3
  <2>4. QED
    BY <2>2, <2>3 DEF RunOK
<1>5. QED
  BY <1>2, <1>3, <1>4 DEF IInv

LEMMA GetAccountsInv ==
  ASSUME IInv, NEW i \in Calls, GetAccounts(i)
  PROVE  IInv'
<1>1. IsTable(accounts, AccountId, Nat) /\ accounts' = accounts
  BY DEF IInv, TypeOK, CallsTypeOK, GetAccounts, bankVars
<1>2. DOMAIN accounts \subseteq AccountId
  BY <1>1 DEF IsTable
<1>3. QED
  BY <1>1, <1>2, ExecuteInv DEF GetAccounts

\* A payment is executed for a run, whose amount therefore is a number.
LEMMA PaymentRequest ==
  ASSUME IInv, NEW i \in Calls, CreateTransaction(i)
  PROVE  Amount[request[i].run] \in Int /\ request[i].receiver \in AccountId
<1>1. request[i].receiver \in AccountId
  BY DEF CreateTransaction
<1>2. request[i] # NoRequest
  BY <1>1, StipendAssumption DEF NoRequest
<1>3. request[i].run \in Runs
  BY <1>2 DEF IInv, CallsMatch
<1>4. QED
  BY <1>1, <1>3, StipendAssumption

LEMMA CreateTransactionInv ==
  ASSUME IInv, NEW i \in Calls, CreateTransaction(i)
  PROVE  IInv'
<1> DEFINE a == request[i].receiver
           amount == Amount[request[i].run]
           receipt == [x \in {a} |-> amount]
<1>1. /\ a \in AccountId /\ amount \in Int /\ R!Execute(i) /\ IsTable(accounts, AccountId, Nat)
      /\ UNCHANGED <<request, pc, call, todo>>
  BY PaymentRequest DEF CreateTransaction, IInv, TypeOK, CallsTypeOK
<1>2. DOMAIN receipt \subseteq AccountId
  BY <1>1
<1>3. CASE /\ \E t \in TransactionId : B!Transfer(t, Seed, a, amount)
           /\ result' = [result EXCEPT ![i] = receipt]
  <2>1. IsTable(accounts', AccountId, Nat)
    BY <1>1, <1>3, TransferType
  <2> HIDE DEF receipt
  <2>2. QED
    BY <1>1, <1>2, <1>3, <2>1, ExecuteInv
<1>4. CASE UNCHANGED <<bankVars, result>>
  <2>1. IsTable(accounts', AccountId, Nat)
    BY <1>1, <1>4 DEF bankVars
  <2> HIDE DEF receipt
  <2>2. QED
    BY <1>1, <1>2, <1>4, <2>1, ExecuteInv
<1>5. QED
  BY <1>3, <1>4 DEF CreateTransaction

\* Other clients, or nobody, take a step.
LEMMA OthersInv ==
  ASSUME IInv, Others \/ UNCHANGED vars
  PROVE  IInv'
<1>1. UNCHANGED <<status, executions, request, result, pc, call, todo>>
  BY DEF Others, vars, rpcVars
<1>2. IsTable(accounts', AccountId, Nat)
  BY BankType DEF Others, vars, bankVars, IInv, TypeOK, CallsTypeOK
<1>3. TypeOK' /\ CallsMatch'
  BY <1>1, <1>2 DEF IInv, TypeOK, CallsTypeOK, RunsTypeOK, CallsMatch
<1>4. ASSUME NEW r \in Runs PROVE RunOK(r)'
  BY <1>1, OtherRun
<1>5. QED
  BY <1>3, <1>4 DEF IInv

-----------------------------------------------------------------------------
LEMMA InitInv == Init => IInv
<1> SUFFICES ASSUME Init PROVE IInv
  OBVIOUS
<1>1. TypeOK /\ CallsMatch
  BY DEF Init, B!Init, R!Init, B!EmptyTable, EmptyTable, NoRequest, IsTable, TypeOK,
         CallsTypeOK, RunsTypeOK, CallsMatch
<1>2. ASSUME NEW r \in Runs PROVE RunOK(r)
  <2>1. CallsOf(r) = {}
    BY StipendAssumption DEF Init, CallsOf, NoRequest
  <2>2. QED
    BY <2>1 DEF Init, RunOK, Waits, Progress, Settled, SentOnce, Accounted
<1>3. QED
  BY <1>1, <1>2 DEF IInv

LEMMA NextInv == IInv /\ [Next]_vars => IInv'
BY RunStepInv, GetAccountsInv, CreateTransactionInv, OthersInv DEF Next

LEMMA StipendInvariant == Spec => []IInv
BY InitInv, NextInv, PTL DEF Spec

\* No run pays an account twice, although its calls time out and are executed late.
THEOREM StipendPaidOncePerRun == Spec => []PaidOncePerRun
<1>1. IInv => PaidOncePerRun
  BY DEF IInv, RunOK, SentOnce, CallsOf, PaidOncePerRun, PaymentsOf
<1>2. QED
  BY <1>1, StipendInvariant, PTL

\* Of a run's calls at most the last is in doubt, and only if the run did not finish.
THEOREM StipendOneInDoubt == Spec => []OneInDoubt
<1>1. ASSUME IInv, NEW r \in Runs, NEW i \in Calls, NEW j \in Calls,
             request[i].run = r, status[i] = "unknown"
      PROVE  pc[r] = "panicked" /\ (request[j].run = r /\ status[j] # "answered" => i = j)
  <2>1. RunOK(r) /\ i \in CallsOf(r)
    BY <1>1 DEF IInv, CallsOf
  <2>2. pc[r] = "panicked"
    <3>1. CASE i = call[r]
      BY <1>1, <2>1, <3>1, NoCallIsNone DEF RunOK, Waits
    <3>2. CASE i # call[r]
      BY <1>1, <2>1, <3>2 DEF RunOK, Settled
    <3>3. QED
      BY <3>1, <3>2
  <2>3. QED
    BY <1>1, <2>1, <2>2 DEF RunOK, Settled, CallsOf
<1>2. IInv => OneInDoubt
  BY <1>1 DEF OneInDoubt
<1>3. QED
  BY <1>2, StipendInvariant, PTL

\* A finished run has the core's answer to each payment it had to make.
THEOREM StipendFinishedMeansAnswered == Spec => []FinishedMeansAnswered
<1>1. ASSUME IInv, NEW r \in Runs, pc[r] = "done", Amount[r] <= Limit, NEW a \in Owed(r)
      PROVE  \E j \in PaymentsOf(r, a) : status[j] = "answered"
  <2>1. RunOK(r)
    BY <1>1 DEF IInv
  <2>2. todo[r] = {} /\ call[r] = NoCall
    BY <1>1, <2>1 DEF RunOK, Progress, Waits
  <2>3. PICK j \in CallsOf(r) : request[j].receiver = a
    BY <1>1, <2>1, <2>2 DEF RunOK, Accounted
  <2>4. status[j] = "answered"
    BY <1>1, <2>1, <2>2, <2>3, NoCallIsNone DEF RunOK, Settled, CallsOf
  <2>5. QED
    BY <2>3, <2>4 DEF CallsOf, PaymentsOf
<1>2. IInv => FinishedMeansAnswered
  BY <1>1 DEF FinishedMeansAnswered
<1>3. QED
  BY <1>2, StipendInvariant, PTL

\* The calls of a run are made one after the other: a run sends a request only when the
\* core has answered every request it has sent before, so that none of them is still to
\* be executed (the loop of stipend.rs awaits send_and_recv_msg() and panics without an
\* answer).
THEOREM StipendCallsInTurn ==
  Spec => [][\A i, j \in Calls :
               request'[i] # request[i] /\ request[j].run = request'[i].run =>
                 status[j] = "answered"]_vars
<1> DEFINE InTurn == \A i, j \in Calls :
                       request'[i] # request[i] /\ request[j].run = request'[i].run =>
                         status[j] = "answered"
<1>1. ASSUME IInv, NEW r \in Runs, NEW a \in AccountId \cup {NoAccount}, Ask(r, a),
             pc[r] # "panicked"
      PROVE  InTurn
  <2>1. PICK k \in Calls : Sends(k, r, a)
    BY <1>1, AskSends
  <2>2. /\ call[r] = NoCall /\ DOMAIN request = Calls
        /\ request' = [request EXCEPT ![k] = [run |-> r, receiver |-> a]]
    BY <1>1, <2>1 DEF Sends, IInv, TypeOK, CallsTypeOK
  <2>3. ASSUME NEW i \in Calls, NEW j \in Calls, request'[i] # request[i],
               request[j].run = request'[i].run
        PROVE  status[j] = "answered"
    <3>1. i = k /\ request'[i].run = r
      BY <2>2, <2>3
    <3>2. j \in CallsOf(r)
      BY <2>3, <3>1 DEF CallsOf
    <3>3. j = call[r] \/ status[j] = "answered"
      BY <1>1, <3>2 DEF IInv, RunOK, Settled
    <3>4. QED
      BY <2>2, <3>3, StipendAssumption
  <2>4. QED
    BY <2>3
<1>2. ASSUME UNCHANGED request PROVE InTurn
  BY <1>2
<1>3. ASSUME IInv, NEW r \in Runs, RunStep(r), ~UNCHANGED request PROVE InTurn
  <2>1. CASE Start(r)
    BY <1>1, <1>3, <2>1 DEF Start, TooMuch
  <2>2. CASE StartTransfer(r)
    BY <1>1, <1>3, <2>2, StipendAssumption DEF StartTransfer, TooMuch
  <2>3. CASE Pay(r)
    <3>1. todo[r] \subseteq AccountId
      BY <1>3 DEF IInv, TypeOK, RunsTypeOK
    <3>2. QED
      BY <1>1, <1>3, <2>3, <3>1 DEF Pay
  <2>4. QED
    BY <1>3, <2>1, <2>2, <2>3 DEF RunStep, Proceed, Transferred, Listed, Paid, Finish,
       Unanswered, Killed
<1>4. IInv /\ [Next]_vars => [InTurn]_vars
  BY <1>2, <1>3 DEF Next, GetAccounts, CreateTransaction, Others, vars
<1>5. QED
  BY <1>4, StipendInvariant, PTL DEF Spec

-----------------------------------------------------------------------------
\* The programs and the other clients drive the bank by nothing but the steps of Bank.

LEMMA RunStepShape ==
  ASSUME NEW r \in Runs, RunStep(r)
  PROVE  UNCHANGED bankVars
BY DEF RunStep, Proceed, Start, StartTransfer, Transferred, Listed, Pay, Paid, Finish,
       Unanswered, Killed

LEMMA NextIsBankStep == IInv /\ [Next]_vars => [B!Next]_(B!vars)
<1> SUFFICES ASSUME IInv, [Next]_vars PROVE [B!Next]_(B!vars)
  OBVIOUS
<1>1. CASE UNCHANGED bankVars
  BY <1>1 DEF bankVars, B!vars
<1>2. ASSUME NEW i \in Calls, CreateTransaction(i), ~UNCHANGED bankVars PROVE B!Next
  <2> DEFINE a == request[i].receiver
             amount == Amount[request[i].run]
  <2>1. amount \in Int /\ a \in AccountId /\ IsTable(accounts, AccountId, Nat)
    BY <1>2, PaymentRequest DEF IInv, TypeOK, CallsTypeOK
  <2>2. PICK t \in TransactionId : B!Transfer(t, Seed, a, amount)
    BY <1>2 DEF CreateTransaction, bankVars
  <2>3. amount \in 1..(accounts[Seed] + 1) /\ Seed \in DOMAIN accounts
    BY <2>1, <2>2, TransferType
  <2> HIDE DEF a, amount
  <2>4. QED
    BY <2>1, <2>2, <2>3, StipendAssumption DEF B!Next
<1>3. QED
  BY <1>1, <1>2, RunStepShape DEF Next, GetAccounts, Others, vars

\* Whatever the runs do and however they end, the bank only takes the steps of Bank.
THEOREM StipendUsesBank == Spec => B!Spec
<1>1. Init => B!Init
  BY DEF Init
<1>2. QED
  BY <1>1, NextIsBankStep, StipendInvariant, PTL DEF Spec, B!Spec

-----------------------------------------------------------------------------
\* What BankProofs proves of Bank therefore holds of the bank that the runs pay from.

P == INSTANCE BankProofs

LEMMA BankIsBank ==
  /\ B!Init <=> P!Init
  /\ [B!Next]_(B!vars) <=> [P!Next]_(P!vars)
<1>1. B!Init <=> P!Init
  BY DEF B!Init, P!Init, B!EmptyTable, P!EmptyTable
<1>2. B!Next <=> P!Next
  BY DEF B!Next, P!Next, B!CreateSeedAccount, P!CreateSeedAccount, B!CreateAccount,
         P!CreateAccount, B!Transfer, P!Transfer, B!Record, P!Record, B!Put, P!Put
<1>3. (UNCHANGED B!vars) <=> UNCHANGED P!vars
  BY DEF B!vars, P!vars
<1>4. QED
  BY <1>1, <1>2, <1>3

LEMMA SameTotals == \A f : P!Total(f) = B!Total(f)
<1> SUFFICES ASSUME NEW f PROVE P!Total(f) = B!Total(f)
  OBVIOUS
<1>1. P!Coins(f) = B!Coins(f)
  BY DEF P!Coins, B!Coins
<1>2. QED
  BY <1>1, Zenon DEF P!Total, B!Total, P!Cardinality, B!Cardinality

\* No stipend and no transfer makes or destroys a coin or goes unrecorded, whether or
\* not the program that asked for it learns of it.
THEOREM StipendKeepsTheBooks == Spec => [](B!Conservation /\ B!Audit)
<1>1. P!BankAssumption
  BY StipendAssumption DEF P!BankAssumption
<1>2. P!Spec => []P!Conservation /\ []P!Audit
  BY <1>1, P!BankConservation, P!BankAudit
<1>3. P!Conservation <=> B!Conservation
  BY SameTotals DEF P!Conservation, B!Conservation, P!Circulation, B!Circulation
<1>4. P!Audit <=> B!Audit
  <2>1. \A a : P!Endowment(a) = B!Endowment(a)
    BY DEF P!Endowment, B!Endowment
  <2>2. \A S : P!Amounts(S) = B!Amounts(S)
    BY DEF P!Amounts, B!Amounts
  <2>3. \A a : P!SentBy(a) = B!SentBy(a) /\ P!ReceivedBy(a) = B!ReceivedBy(a)
    BY DEF P!SentBy, B!SentBy, P!ReceivedBy, B!ReceivedBy
  <2>4. QED
    BY <2>1, <2>2, <2>3, SameTotals DEF P!Audit, B!Audit
<1>5. QED
  BY <1>2, <1>3, <1>4, BankIsBank, StipendUsesBank, PTL DEF B!Spec, P!Spec
=============================================================================
