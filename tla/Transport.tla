----------------------------- MODULE Transport ------------------------------
(***************************************************************************)
(* Calls to the core over Unix datagram sockets: send_and_recv_msg() and   *)
(* make_client_sock_address() of client_util.rs on the one side,           *)
(* socket_server() of core.rs on the other.                                *)
(*                                                                         *)
(* Client threads live in processes.  A call binds a socket of its own to  *)
(* a path made of the process id and a millisecond reading, which only     *)
(* that call may use until the file is removed; what a thread leaves       *)
(* behind when it fails, and what a process leaves when it dies, stays on  *)
(* disk.  A restarted process may get the same process id again, and its   *)
(* milliseconds start from 0.  Cores can be stopped, restarted, and started *)
(* while another one runs.                                                 *)
(*                                                                         *)
(* What a request does is not modelled here, only how often it is done.    *)
(***************************************************************************)
EXTENDS Naturals, Sequences, FiniteSets

CONSTANTS
  Threads,        \* client threads
  Processes,      \* process ids
  ProcessOf,      \* the process of each thread
  Calls,          \* message ids, one for each call: to_packet() makes a new one
  Cores,
  MaxMillis,      \* bound: no call is made later than this in a process's life
  QueueLimit,     \* datagrams that wait at one socket (net.unix.max_dgram_qlen)
  NoCall, NoCore,
  NoFile,         \* nothing at CORE_SOCKET_PATH
  Stale           \* the file of a dead core

ASSUME TransportAssumption ==
  /\ ProcessOf \in [Threads -> Processes]
  /\ NoCall \notin Calls
  /\ {NoCore, NoFile, Stale} \cap Cores = {} /\ NoFile # Stale
  /\ MaxMillis \in Nat /\ QueueLimit \in Nat \ {0}

VARIABLES
  started,        \* processes that have initialised START_TIME
  millis,         \* of each process: milliseconds since then
  files,          \* client socket files: path -> the call that bound it
  pc, call, path, peer,   \* of each thread: its program counter and locals
  mailbox,        \* datagrams that wait at each thread's socket
  outcome,        \* what became of each call
  executions,     \* how often the core has executed each request
  server,         \* whose socket is at CORE_SOCKET_PATH
  corepc,         \* where each core is in socket_server()
  inbox,          \* datagrams that wait at each core's socket
  handling        \* the datagram each core is handling

clientVars == <<started, millis, files, pc, call, path, peer, outcome>>
coreVars   == <<server, corepc, inbox, handling>>
vars       == <<clientVars, mailbox, executions, coreVars>>

Paths   == Processes \X (0..MaxMillis)
Packets == [message_id : Calls, from : Paths]
NoPath  == <<>>
NoPacket == [message_id |-> NoCall, from |-> NoPath]

Init ==
  /\ started = {}
  /\ millis = [p \in Processes |-> 0]
  /\ files = [x \in {} |-> NoCall]
  /\ pc = [t \in Threads |-> "idle"]
  /\ call = [t \in Threads |-> NoCall]
  /\ path = [t \in Threads |-> NoPath]
  /\ peer = [t \in Threads |-> NoCore]
  /\ mailbox = [t \in Threads |-> <<>>]
  /\ outcome = [i \in Calls |-> "new"]
  /\ executions = [i \in Calls |-> 0]
  /\ server = NoFile
  /\ corepc = [k \in Cores |-> "down"]
  /\ inbox = [k \in Cores |-> <<>>]
  /\ handling = [k \in Cores |-> NoPacket]

-----------------------------------------------------------------------------
\* The clients.

\* The thread's call is over: it returns, or unwinds, with this outcome, and its
\* socket is closed.  Whether the file is removed is up to the action.
Over(t, o) ==
  /\ outcome' = [outcome EXCEPT ![call[t]] = o]
  /\ pc' = [pc EXCEPT ![t] = "idle"]
  /\ call' = [call EXCEPT ![t] = NoCall]
  /\ path' = [path EXCEPT ![t] = NoPath]
  /\ peer' = [peer EXCEPT ![t] = NoCore]
  /\ mailbox' = [mailbox EXCEPT ![t] = <<>>]

Remove(x) == files' = [y \in DOMAIN files \ {x} |-> files[y]]

\* bind() fails if the path exists, whether a live socket owns it or not.
Bind(t, i, x) ==
  \/ /\ x \in DOMAIN files
     /\ outcome' = [outcome EXCEPT ![i] = "refused"]
     /\ UNCHANGED <<files, pc, call, path>>
  \/ /\ x \notin DOMAIN files
     /\ outcome' = [outcome EXCEPT ![i] = "open"]
     /\ files' = [y \in DOMAIN files \cup {x} |-> IF y = x THEN i ELSE files[y]]
     /\ pc' = [pc EXCEPT ![t] = "bound"]
     /\ call' = [call EXCEPT ![t] = i]
     /\ path' = [path EXCEPT ![t] = x]

\* send_and_recv_msg() up to its bind().  The first call of a process reads 0.
Call(t) ==
  LET p == ProcessOf[t]
  IN /\ pc[t] = "idle"
     /\ millis[p] <= MaxMillis
     /\ started' = started \cup {p}
     /\ \E i \in Calls : outcome[i] = "new" /\ Bind(t, i, <<p, millis[p]>>)
     /\ UNCHANGED <<millis, peer, mailbox, executions, coreVars>>

\* A mutant: the error of connect() is not looked at.
ConnectIgnoringError(t) ==
  /\ pc[t] = "bound"
  /\ peer' = [peer EXCEPT ![t] = server]
  /\ pc' = [pc EXCEPT ![t] = "connected"]
  /\ UNCHANGED <<started, millis, files, call, path, mailbox, outcome, executions, coreVars>>

\* connect() needs a live core at the path.
Connect(t) ==
  /\ pc[t] = "bound"
  /\ \/ /\ server \in Cores
        /\ peer' = [peer EXCEPT ![t] = server]
        /\ pc' = [pc EXCEPT ![t] = "connected"]
        /\ UNCHANGED <<call, path, mailbox, outcome>>
     \/ /\ server \notin Cores
        /\ Over(t, "refused")
  /\ UNCHANGED <<started, millis, files, executions, coreVars>>

\* The request in its packet; the core learns the path from the datagram.
Packet(t) == [message_id |-> call[t], from |-> path[t]]

\* send() waits while the core's queue is full; unwrap() panics if the core that
\* the socket is connected to has gone.
Send(t) ==
  /\ pc[t] = "connected"
  /\ \/ LET k == peer[t]
        IN /\ k \in Cores
           /\ Len(inbox[k]) < QueueLimit
           /\ inbox' = [inbox EXCEPT ![k] = Append(@, Packet(t))]
           /\ pc' = [pc EXCEPT ![t] = "waiting"]
           /\ UNCHANGED <<call, path, peer, mailbox, outcome>>
     \/ /\ peer[t] = NoCore
        /\ Over(t, "panicked")
        /\ UNCHANGED inbox
  /\ UNCHANGED <<started, millis, files, executions, server, corepc, handling>>

\* What the caller makes of the datagram at the head of its queue.  A response longer
\* than the 1 MiB buffer is cut and does not parse; ids are compared if it does.
Understood(t) ==
  {"unreadable", IF Head(mailbox[t]) = call[t] THEN "answered" ELSE "mismatched"}

\* A mutant: an answered call leaves its file behind.
RecvKeepingFile(t) ==
  /\ pc[t] = "waiting"
  /\ mailbox[t] # <<>>
  /\ \E o \in Understood(t) : Over(t, o)
  /\ UNCHANGED <<started, millis, files, executions, coreVars>>

\* A response arrives: it is parsed, the socket's file is removed, and only then the
\* id is compared.
Recv(t) ==
  /\ pc[t] = "waiting"
  /\ mailbox[t] # <<>>
  /\ Remove(path[t])
  /\ \E o \in Understood(t) : Over(t, o)
  /\ UNCHANGED <<started, millis, executions, coreVars>>

\* The clock of a process moves on; it is only watched up to MaxMillis.
Later(p) == [millis EXCEPT ![p] = IF @ > MaxMillis THEN @ ELSE @ + 1]

\* A mutant: a call that times out removes its file, as an answered one does.
TimeoutCleaningUp(t) ==
  /\ pc[t] = "waiting"
  /\ mailbox[t] = <<>>
  /\ Over(t, "timed_out")
  /\ Remove(path[t])
  /\ millis' = Later(ProcessOf[t])
  /\ UNCHANGED <<started, executions, coreVars>>

\* A mutant: a call that times out sends its request once more.
TimeoutRetrying(t) ==
  LET k == peer[t]
  IN /\ pc[t] = "waiting"
     /\ mailbox[t] = <<>>
     /\ k \in Cores /\ Len(inbox[k]) < QueueLimit
     /\ inbox' = [inbox EXCEPT ![k] = Append(@, Packet(t))]
     /\ millis' = Later(ProcessOf[t])
     /\ UNCHANGED <<started, files, pc, call, path, peer, outcome, mailbox, executions, server,
                    corepc, handling>>


\* recv() gives up after a second and the file stays.
Timeout(t) ==
  /\ pc[t] = "waiting"
  /\ mailbox[t] = <<>>
  /\ Over(t, "timed_out")
  /\ millis' = Later(ProcessOf[t])
  /\ UNCHANGED <<started, files, executions, coreVars>>

Tick(p) ==
  /\ p \in started /\ millis[p] <= MaxMillis
  /\ millis' = Later(p)
  /\ UNCHANGED <<started, files, pc, call, path, peer, outcome, mailbox, executions, coreVars>>

\* The process dies, by a signal or by a panic of its main thread: its sockets are
\* closed and their files stay.  Its successor has the same process id.
Die(p) ==
  LET mine == {t \in Threads : ProcessOf[t] = p}
  IN /\ p \in started
     /\ started' = started \ {p}
     /\ millis' = [millis EXCEPT ![p] = 0]
     /\ outcome' = [i \in Calls |-> IF \E t \in mine : call[t] = i THEN "killed" ELSE outcome[i]]
     /\ pc' = [t \in Threads |-> IF t \in mine THEN "idle" ELSE pc[t]]
     /\ call' = [t \in Threads |-> IF t \in mine THEN NoCall ELSE call[t]]
     /\ path' = [t \in Threads |-> IF t \in mine THEN NoPath ELSE path[t]]
     /\ peer' = [t \in Threads |-> IF t \in mine THEN NoCore ELSE peer[t]]
     /\ mailbox' = [t \in Threads |-> IF t \in mine THEN <<>> ELSE mailbox[t]]
     /\ UNCHANGED <<files, executions, coreVars>>

-----------------------------------------------------------------------------
\* The cores.

CoreGoto(k, label) == corepc' = [corepc EXCEPT ![k] = label]

\* main() has come to socket_server(): is there a file at the path?
StartCore(k) ==
  /\ corepc[k] = "down"
  /\ CoreGoto(k, IF server = NoFile THEN "bind" ELSE "unlink")
  /\ UNCHANGED <<clientVars, mailbox, executions, server, inbox, handling>>

\* remove_file() fails if the file has gone meanwhile, which ends the core.  It does
\* not ask whether another core is still serving behind the file.
Unlink(k) ==
  /\ corepc[k] = "unlink"
  /\ CoreGoto(k, IF server = NoFile THEN "down" ELSE "bind")
  /\ server' = NoFile
  /\ UNCHANGED <<clientVars, mailbox, executions, inbox, handling>>

\* bind() fails if another core was faster, which ends this one.
BindCore(k) ==
  /\ corepc[k] = "bind"
  /\ \/ /\ server = NoFile
        /\ server' = k
        /\ CoreGoto(k, "recv")
     \/ /\ server # NoFile
        /\ CoreGoto(k, "down")
        /\ UNCHANGED server
  /\ UNCHANGED <<clientVars, mailbox, executions, inbox, handling>>

CoreRecv(k) ==
  /\ corepc[k] = "recv"
  /\ inbox[k] # <<>>
  /\ handling' = [handling EXCEPT ![k] = Head(inbox[k])]
  /\ inbox' = [inbox EXCEPT ![k] = Tail(@)]
  /\ CoreGoto(k, "dispatch")
  /\ UNCHANGED <<clientVars, mailbox, executions, server>>

\* message_dispatch(): its effects, if any, are committed.
Dispatch(k) ==
  /\ corepc[k] = "dispatch"
  /\ executions' = [executions EXCEPT ![handling[k].message_id] = @ + 1]
  /\ CoreGoto(k, "send")
  /\ UNCHANGED <<clientVars, mailbox, server, inbox, handling>>

\* A response carries the id of its request.
AsRespFor(packet) == packet.message_id

\* The threads whose socket a datagram from core k to path x reaches: the one bound
\* to it, unless it is connected to another core, dead or alive.
Reached(k, x) ==
  {t \in Threads : /\ pc[t] # "idle" /\ path[t] = x /\ files[x] = call[t]
                   /\ pc[t] = "bound" \/ peer[t] = k}

\* send_to(): an error, as for a file that has gone or a response that is too large for
\* a datagram, is only logged.
SendTo(k) ==
  LET x == handling[k].from
  IN /\ corepc[k] = "send"
     /\ CoreGoto(k, "recv")
     /\ handling' = [handling EXCEPT ![k] = NoPacket]
     /\ \/ /\ x \in DOMAIN files
           /\ mailbox' = [t \in Threads |-> IF t \in Reached(k, x)
                                           THEN Append(mailbox[t], AsRespFor(handling[k]))
                                           ELSE mailbox[t]]
        \/ UNCHANGED mailbox
     /\ UNCHANGED <<clientVars, executions, server, inbox>>

\* The core dies, or its loop ends on an interrupt or a socket error: its socket is
\* closed, what waits there is lost, and its file, if it is still there, stays.
StopCore(k) ==
  /\ corepc[k] # "down"
  /\ CoreGoto(k, "down")
  /\ inbox' = [inbox EXCEPT ![k] = <<>>]
  /\ handling' = [handling EXCEPT ![k] = NoPacket]
  /\ server' = IF server = k THEN Stale ELSE server
  /\ peer' = [t \in Threads |-> IF peer[t] = k THEN NoCore ELSE peer[t]]
  /\ UNCHANGED <<started, millis, files, pc, call, path, outcome, mailbox, executions>>

ClientStep(t) == Connect(t) \/ Send(t) \/ Recv(t) \/ Timeout(t)
ServeStep(k)  == CoreRecv(k) \/ Dispatch(k) \/ SendTo(k)

Next ==
  \/ \E t \in Threads : Call(t) \/ ClientStep(t)
  \/ \E p \in Processes : Tick(p) \/ Die(p)
  \/ \E k \in Cores : StartCore(k) \/ Unlink(k) \/ BindCore(k) \/ ServeStep(k) \/ StopCore(k)

Spec == Init /\ [][Next]_vars

\* A thread runs on once it has called, and a serving core keeps serving; nothing
\* is assumed about new calls, deaths, restarts or the clock.
Fairness ==
  /\ \A t \in Threads : WF_vars(ClientStep(t))
  /\ \A k \in Cores : WF_vars(ServeStep(k))

FairSpec == Spec /\ Fairness

-----------------------------------------------------------------------------
TypeOK ==
  /\ started \subseteq Processes
  /\ millis \in [Processes -> 0..(MaxMillis + 1)]
  /\ DOMAIN files \subseteq Paths /\ \A x \in DOMAIN files : files[x] \in Calls
  /\ pc \in [Threads -> {"idle", "bound", "connected", "waiting"}]
  /\ call \in [Threads -> Calls \cup {NoCall}]
  /\ path \in [Threads -> Paths \cup {NoPath}]
  /\ peer \in [Threads -> Cores \cup {NoCore}]
  /\ mailbox \in [Threads -> Seq(Calls)]
  /\ outcome \in [Calls -> {"new", "open", "answered", "refused", "panicked", "timed_out",
                            "mismatched", "unreadable", "killed"}]
  /\ executions \in [Calls -> Nat]
  /\ server \in Cores \cup {NoFile, Stale}
  /\ corepc \in [Cores -> {"down", "unlink", "bind", "recv", "dispatch", "send"}]
  /\ inbox \in [Cores -> Seq(Packets)]
  /\ handling \in [Cores -> Packets \cup {NoPacket}]

\* No response ever reaches another call's socket, although paths are not unique and
\* a core may answer a request long after its caller, or its caller's process, has
\* gone: the file that a failed call leaves behind keeps its path from being reused.
\* The comparison of message ids is a second line of defence that is never needed.
AnswersMatch ==
  \A t \in Threads : mailbox[t] \in {<<>>, <<call[t]>>}

\* A socket file on disk belongs to a call that is open or that ended without a
\* response: answered calls do not use up paths.
AnsweredCallsCleanUp ==
  \A x \in DOMAIN files : outcome[files[x]] \notin {"answered", "unreadable"}

\* What a caller may conclude.  An answer means that the request was executed
\* exactly once; bind(), connect() and send() failing mean that it never is; after a
\* timeout it may have been executed, once, or may still be.
StatusOf(o) ==
  CASE o \in {"new", "open", "answered"} -> o
    [] o \in {"refused", "panicked"} -> "refused"
    [] OTHER -> "unknown"

R == INSTANCE Rpc WITH status <- [i \in Calls |-> StatusOf(outcome[i])]

\* The sockets implement Rpc with every interleaving, timeout, death and restart.
ImplementsRpc == R!Spec

=============================================================================
