-------------------------------- MODULE Rpc ---------------------------------
(***************************************************************************)
(* What send_and_recv_msg() promises its callers: a request is executed at *)
(* most once, an answer means that it was executed, and a call that failed *)
(* may have been executed, or may still be, unless it never left.          *)
(* Transport.tla, the model of the sockets, implements this specification. *)
(***************************************************************************)
EXTENDS Naturals

CONSTANT Calls

VARIABLES
  status,         \* of each call: "new", "open", "answered", "refused" or "unknown"
  executions      \* how often the core has executed its request

vars == <<status, executions>>

Init ==
  /\ status = [i \in Calls |-> "new"]
  /\ executions = [i \in Calls |-> 0]

Become(i, s) == status' = [status EXCEPT ![i] = s]

Issue(i) == status[i] = "new" /\ Become(i, "open") /\ UNCHANGED executions

\* A mutant: a request that was given up is sent again.
ExecuteAgain(i) ==
  /\ status[i] \in {"open", "unknown"}
  /\ executions' = [executions EXCEPT ![i] = 1]
  /\ UNCHANGED status

\* A failed call's request may still be waiting for the core.
Execute(i) ==
  /\ status[i] \in {"open", "unknown"}
  /\ executions[i] = 0
  /\ executions' = [executions EXCEPT ![i] = 1]
  /\ UNCHANGED status

Return(i) ==
  /\ status[i] = "open" /\ executions[i] = 1
  /\ Become(i, "answered")
  /\ UNCHANGED executions

\* The call failed before its request was sent: it is never executed.
Refuse(i) ==
  /\ status[i] \in {"new", "open"} /\ executions[i] = 0
  /\ Become(i, "refused")
  /\ UNCHANGED executions

\* The callers gave up on requests that they may have sent, all of a process at once
\* when it dies.
GiveUp(S) ==
  /\ \A i \in S : status[i] = "open"
  /\ status' = [i \in Calls |-> IF i \in S THEN "unknown" ELSE status[i]]
  /\ UNCHANGED executions

Next ==
  \/ \E i \in Calls : Issue(i) \/ Execute(i) \/ Return(i) \/ Refuse(i)
  \/ \E S \in SUBSET Calls : GiveUp(S)

Spec == Init /\ [][Next]_vars
=============================================================================
