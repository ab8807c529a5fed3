-------------------------- MODULE TransportProofs ---------------------------
(***************************************************************************)
(* Proofs about Transport, for any number of threads, processes, cores and *)
(* calls: a response reaches its own call only, and the sockets implement  *)
(* Rpc.                                                                    *)
(***************************************************************************)
EXTENDS Transport, TLAPS

\* The places where a request can be with core k: in hand (0), or waiting.
Slots(k) ==
  (IF corepc[k] \in {"dispatch", "send"} THEN {0} ELSE {}) \cup 1..Len(inbox[k])

At(k, n) == IF n = 0 THEN handling[k] ELSE inbox[k][n]

\* Dispatch() has executed it and the response has not been sent.
Executed(k, n) == n = 0 /\ corepc[k] = "send"

\* A call that may still get a response, if there is a caller left to take it.
Pending == {"open", "timed_out", "killed"}

\* While a request is with a core, the file that it came from belongs to its call.
Fits(k, n) ==
  /\ At(k, n) \in Packets
  /\ At(k, n).from \in DOMAIN files
  /\ files[At(k, n).from] = At(k, n).message_id
  /\ outcome[At(k, n).message_id] \in Pending
  /\ executions[At(k, n).message_id] = IF Executed(k, n) THEN 1 ELSE 0

RequestsFit == \A k \in Cores : \A n \in Slots(k) : Fits(k, n)

\* A request is in one place only.
SentOnce ==
  \A k, l \in Cores : \A n \in Slots(k), m \in Slots(l) :
    At(k, n).message_id = At(l, m).message_id => k = l /\ n = m

\* A thread without a call has nothing, one with a call has the call's file, and its
\* queue holds at most the response.
Local(t) ==
  IF pc[t] = "idle" THEN call[t] = NoCall /\ mailbox[t] = <<>>
  ELSE /\ call[t] \in Calls /\ outcome[call[t]] = "open"
       /\ path[t] \in DOMAIN files /\ files[path[t]] = call[t]
       /\ \/ mailbox[t] = <<>>
          \/ pc[t] = "waiting" /\ mailbox[t] = <<call[t]>> /\ executions[call[t]] = 1
       /\ pc[t] \in {"bound", "connected"} => executions[call[t]] = 0

\* A request that is with a core has been sent and its caller has no response yet.
Unanswered(t) ==
  \A k \in Cores : \A n \in Slots(k) :
    At(k, n).message_id = call[t] => pc[t] = "waiting" /\ mailbox[t] = <<>>

OwnCalls == \A t, u \in Threads : call[t] = call[u] /\ pc[t] # "idle" => t = u

\* A call has one file, until it is answered.
OwnFiles ==
  /\ \A x \in DOMAIN files : outcome[files[x]] \in Pending \cup {"refused", "panicked"}
  /\ \A x, y \in DOMAIN files : files[x] = files[y] => x = y

NotSent == \A i \in Calls : outcome[i] \in {"new", "refused", "panicked"} => executions[i] = 0

\* The inductive invariant.
IInv ==
  /\ TypeOK
  /\ RequestsFit /\ SentOnce
  /\ \A t \in Threads : Local(t) /\ Unanswered(t)
  /\ OwnCalls /\ OwnFiles /\ NotSent

-----------------------------------------------------------------------------
\* Types.

LEMMA NoPacketHere == NoCall \notin Calls
BY TransportAssumption

LEMMA OverTypes ==
  ASSUME TypeOK, NEW t \in Threads, call[t] \in Calls,
         NEW o \in {"answered", "refused", "panicked", "timed_out", "mismatched", "unreadable"},
         Over(t, o)
  PROVE  /\ outcome' \in [Calls -> {"new", "open", "answered", "refused", "panicked", "timed_out",
                                     "mismatched", "unreadable", "killed"}]
         /\ pc' \in [Threads -> {"idle", "bound", "connected", "waiting"}]
         /\ call' \in [Threads -> Calls \cup {NoCall}]
         /\ path' \in [Threads -> Paths \cup {NoPath}]
         /\ peer' \in [Threads -> Cores \cup {NoCore}]
         /\ mailbox' \in [Threads -> Seq(Calls)]
BY DEF TypeOK, Over

LEMMA MillisTypes ==
  ASSUME TypeOK, NEW p \in Processes
  PROVE  Later(p) \in [Processes -> 0..(MaxMillis + 1)]
BY TransportAssumption DEF TypeOK, Later

LEMMA CallTypes ==
  ASSUME TypeOK, NEW t \in Threads, Call(t)
  PROVE  TypeOK'
<1>1. ProcessOf[t] \in Processes
  BY TransportAssumption
<1>2. PICK i \in Calls : outcome[i] = "new" /\ Bind(t, i, <<ProcessOf[t], millis[ProcessOf[t]]>>)
  BY DEF Call
<1> DEFINE x == <<ProcessOf[t], millis[ProcessOf[t]]>>
<1>3. x \in Paths
  BY <1>1, TransportAssumption DEF TypeOK, Call, Paths
<1>4. UNCHANGED <<millis, peer, mailbox, executions, coreVars>> /\ started' \subseteq Processes
  BY <1>1 DEF Call, TypeOK
<1>5. CASE x \in DOMAIN files
  BY <1>2, <1>4, <1>5 DEF TypeOK, Bind, coreVars
<1>6. CASE x \notin DOMAIN files
  <2> HIDE DEF x
  <2>1. /\ files' = [y \in DOMAIN files \cup {x} |-> IF y = x THEN i ELSE files[y]]
        /\ outcome' = [outcome EXCEPT ![i] = "open"]
        /\ pc' = [pc EXCEPT ![t] = "bound"]
        /\ call' = [call EXCEPT ![t] = i]
        /\ path' = [path EXCEPT ![t] = x]
    BY <1>2, <1>6 DEF Bind, x
  <2>2. QED
    BY <2>1, <1>3, <1>4, <1>6 DEF TypeOK, coreVars
<1>7. QED
  BY <1>5, <1>6

LEMMA ClientTypes ==
  ASSUME IInv, NEW t \in Threads, ClientStep(t)
  PROVE  TypeOK'
<1>1. ProcessOf[t] \in Processes /\ TypeOK /\ Local(t)
  BY TransportAssumption DEF IInv
<1>2. pc[t] # "idle" /\ call[t] \in Calls
  BY <1>1 DEF ClientStep, Connect, Send, Recv, Timeout, Local
<1>3. CASE Connect(t)
  <2>1. CASE server \in Cores
    BY <1>1, <1>3, <2>1 DEF TypeOK, Connect, coreVars
  <2>2. CASE server \notin Cores
    BY <1>1, <1>2, <1>3, <2>2, OverTypes DEF TypeOK, Connect, coreVars
  <2>3. QED
    BY <2>1, <2>2
<1>4. CASE Send(t)
  <2>1. CASE Over(t, "panicked") /\ UNCHANGED inbox
    BY <1>1, <1>2, <1>4, <2>1, OverTypes DEF TypeOK, Send
  <2>2. CASE ~(Over(t, "panicked") /\ UNCHANGED inbox)
    <3>1. /\ pc' = [pc EXCEPT ![t] = "waiting"]
          /\ inbox' = [inbox EXCEPT ![peer[t]] = Append(@, Packet(t))]
          /\ peer[t] \in Cores
          /\ UNCHANGED <<started, millis, files, call, path, peer, mailbox, outcome, executions,
                         server, corepc, handling>>
      BY <1>4, <2>2 DEF Send
    <3>2. Packet(t) \in Packets
      BY <1>1, <1>2 DEF Packet, Packets, Local, TypeOK
    <3>3. inbox' \in [Cores -> Seq(Packets)]
      BY <3>1, <3>2, <1>1 DEF TypeOK
    <3>4. QED
      BY <3>1, <3>3, <1>1 DEF TypeOK
  <2>3. QED
    BY <2>1, <2>2
<1>5. CASE Recv(t)
  <2>1. PICK o \in Understood(t) : Over(t, o)
    BY <1>5 DEF Recv
  <2>2. o \in {"answered", "refused", "panicked", "timed_out", "mismatched", "unreadable"}
    BY <2>1 DEF Understood
  <2>3. DOMAIN files' \subseteq Paths /\ \A x \in DOMAIN files' : files'[x] \in Calls
    BY <1>5, <1>1 DEF Recv, Remove, TypeOK
  <2>4. UNCHANGED <<started, millis, executions, coreVars>>
    BY <1>5 DEF Recv
  <2>5. QED
    BY <1>1, <1>2, <2>1, <2>2, <2>3, <2>4, OverTypes DEF TypeOK, coreVars
<1>6. CASE Timeout(t)
  BY <1>1, <1>2, <1>6, OverTypes, MillisTypes DEF TypeOK, Timeout, coreVars
<1>7. QED
  BY <1>3, <1>4, <1>5, <1>6 DEF ClientStep

LEMMA ProcessTypes ==
  ASSUME TypeOK, NEW p \in Processes, Tick(p) \/ Die(p)
  PROVE  TypeOK'
<1>1. CASE Tick(p)
  BY <1>1, MillisTypes DEF TypeOK, Tick, coreVars
<1>2. CASE Die(p)
  <2>1. millis' \in [Processes -> 0..(MaxMillis + 1)]
    BY <1>2, TransportAssumption DEF TypeOK, Die
  <2>2. QED
    BY <1>2, <2>1 DEF TypeOK, Die, coreVars
<1>3. QED
  BY <1>1, <1>2

LEMMA CoreTypes ==
  ASSUME IInv, NEW k \in Cores,
         StartCore(k) \/ Unlink(k) \/ BindCore(k) \/ ServeStep(k) \/ StopCore(k)
  PROVE  TypeOK'
<1>1. TypeOK /\ \A n \in Slots(k) : Fits(k, n)
  BY DEF IInv, RequestsFit
<1>2. CASE StartCore(k) \/ Unlink(k) \/ BindCore(k)
  BY <1>1, <1>2 DEF TypeOK, StartCore, Unlink, BindCore, CoreGoto, clientVars
<1>3. CASE CoreRecv(k)
  <2>1. Head(inbox[k]) \in Packets /\ Tail(inbox[k]) \in Seq(Packets)
    BY <1>1, <1>3 DEF CoreRecv, TypeOK
  <2>2. QED
    BY <1>1, <1>3, <2>1 DEF TypeOK, CoreRecv, CoreGoto, clientVars
<1>4. CASE Dispatch(k)
  <2>1. handling[k].message_id \in Calls
    <3>1. 0 \in Slots(k)
      BY <1>4 DEF Dispatch, Slots
    <3>2. QED
      BY <3>1, <1>1 DEF Fits, At, Packets
  <2>2. QED
    BY <1>1, <1>4, <2>1 DEF TypeOK, Dispatch, CoreGoto, clientVars
<1>5. CASE SendTo(k)
  <2>1. AsRespFor(handling[k]) \in Calls
    <3>1. 0 \in Slots(k)
      BY <1>5 DEF SendTo, Slots
    <3>2. QED
      BY <3>1, <1>1 DEF Fits, At, Packets, AsRespFor
  <2>2. mailbox' \in [Threads -> Seq(Calls)]
    <3>1. CASE UNCHANGED mailbox
      BY <1>1, <3>1 DEF TypeOK
    <3>2. CASE ~UNCHANGED mailbox
      <4>1. mailbox' = [t \in Threads |-> IF t \in Reached(k, handling[k].from)
                                         THEN Append(mailbox[t], AsRespFor(handling[k]))
                                         ELSE mailbox[t]]
        BY <1>5, <3>2 DEF SendTo
      <4>2. \A t \in Threads : mailbox[t] \in Seq(Calls)
        BY <1>1 DEF TypeOK
      <4>3. \A t \in Threads : Append(mailbox[t], AsRespFor(handling[k])) \in Seq(Calls)
        BY <2>1, <4>2
      <4>4. QED
        BY <4>1, <4>2, <4>3
    <3>3. QED
      BY <3>1, <3>2
  <2>3. QED
    BY <1>1, <1>5, <2>2 DEF TypeOK, SendTo, CoreGoto, clientVars
<1>6. CASE StopCore(k)
  BY <1>1, <1>6 DEF TypeOK, StopCore, CoreGoto
<1>7. QED
  BY <1>2, <1>3, <1>4, <1>5, <1>6 DEF ServeStep

-----------------------------------------------------------------------------
\* Steps of the clients.

LEMMA SamePlaces ==
  ASSUME UNCHANGED <<inbox, handling, corepc>>
  PROVE  \A k, n : Slots(k)' = Slots(k) /\ At(k, n)' = At(k, n) /\ (Executed(k, n)' <=> Executed(k, n))
BY DEF Slots, At, Executed

LEMMA PacketFields ==
  ASSUME IInv, NEW k \in Cores, NEW n \in Slots(k)
  PROVE  /\ At(k, n).message_id \in Calls /\ At(k, n).from \in DOMAIN files
         /\ files[At(k, n).from] = At(k, n).message_id
         /\ outcome[At(k, n).message_id] \in Pending
BY DEF IInv, RequestsFit, Fits, Packets

LEMMA CallKeeps ==
  ASSUME IInv, NEW t \in Threads, Call(t)
  PROVE  IInv'
<1>1. TypeOK'
  BY CallTypes DEF IInv
<1> DEFINE x == <<ProcessOf[t], millis[ProcessOf[t]]>>
<1>2. PICK i \in Calls : outcome[i] = "new" /\ Bind(t, i, x)
  BY DEF Call
<1> HIDE DEF x
<1>3. UNCHANGED <<mailbox, executions, inbox, handling, corepc>> /\ pc[t] = "idle"
  BY DEF Call, coreVars
<1>4. \A k, n : Slots(k)' = Slots(k) /\ At(k, n)' = At(k, n) /\ (Executed(k, n)' <=> Executed(k, n))
  BY <1>3, SamePlaces
<1>5. SentOnce'
  BY <1>4 DEF IInv, SentOnce
<1>6. i # NoCall /\ executions[i] = 0
  BY <1>2, NoPacketHere DEF IInv, NotSent
<1>7. CASE x \in DOMAIN files
  <2>1. outcome' = [outcome EXCEPT ![i] = "refused"] /\ UNCHANGED <<files, pc, call, path>>
    BY <1>2, <1>7 DEF Bind
  <2>2. RequestsFit'
    <3>1. SUFFICES ASSUME NEW k \in Cores, NEW n \in Slots(k)
                   PROVE  Fits(k, n)'
      BY <1>4 DEF RequestsFit
    <3>2. Fits(k, n)
      BY DEF IInv, RequestsFit
    <3>3. At(k, n).message_id # i
      BY <1>2, <3>2 DEF Fits, Pending
    <3>4. QED
      BY <1>3, <1>4, <2>1, <3>2, <3>3 DEF IInv, TypeOK, Fits, Packets
  <2>3. \A u \in Threads : Local(u)'
    BY <1>2, <1>3, <2>1 DEF IInv, TypeOK, Local
  <2>4. \A u \in Threads : Unanswered(u)'
    BY <1>3, <1>4, <2>1 DEF IInv, Unanswered
  <2>5. OwnCalls' /\ OwnFiles' /\ NotSent'
    BY <1>2, <1>3, <1>6, <2>1 DEF IInv, TypeOK, OwnCalls, OwnFiles, NotSent
  <2>6. QED
    BY <1>1, <1>5, <2>2, <2>3, <2>4, <2>5 DEF IInv
<1>8. CASE x \notin DOMAIN files
  <2>1. /\ files' = [y \in DOMAIN files \cup {x} |-> IF y = x THEN i ELSE files[y]]
        /\ outcome' = [outcome EXCEPT ![i] = "open"]
        /\ pc' = [pc EXCEPT ![t] = "bound"]
        /\ call' = [call EXCEPT ![t] = i]
        /\ path' = [path EXCEPT ![t] = x]
    BY <1>2, <1>8 DEF Bind
  <2>2. RequestsFit'
    BY <1>2, <1>3, <1>4, <1>8, <2>1 DEF IInv, TypeOK, RequestsFit, Fits, Pending
  <2>3. \A u \in Threads : Local(u)'
    BY <1>2, <1>3, <1>6, <1>8, <2>1 DEF IInv, TypeOK, Local
  <2>4. \A u \in Threads : Unanswered(u)'
    <3>1. SUFFICES ASSUME NEW u \in Threads, NEW k \in Cores, NEW n \in Slots(k),
                          At(k, n).message_id = call'[u]
                   PROVE  pc'[u] = "waiting" /\ mailbox[u] = <<>>
      BY <1>3, <1>4 DEF Unanswered
    <3>2. At(k, n).message_id # i
      BY <1>2, PacketFields DEF Pending
    <3>3. u # t
      BY <2>1, <3>1, <3>2 DEF IInv, TypeOK
    <3>4. QED
      BY <2>1, <3>1, <3>3 DEF IInv, TypeOK, Unanswered
  <2>5. OwnCalls'
    BY <1>2, <1>3, <1>6, <2>1 DEF IInv, TypeOK, OwnCalls, Local
  <2>6. OwnFiles'
    BY <1>2, <1>8, <2>1 DEF IInv, TypeOK, OwnFiles, Pending
  <2>7. NotSent'
    BY <1>3, <2>1 DEF IInv, TypeOK, NotSent
  <2>8. QED
    BY <1>1, <1>5, <2>2, <2>3, <2>4, <2>5, <2>6, <2>7 DEF IInv
<1>9. QED
  BY <1>7, <1>8

\* A call that ends without a response leaves its file behind.
LEMMA FailureKeeps ==
  ASSUME IInv, TypeOK', NEW t \in Threads, pc[t] # "idle",
         NEW o \in {"refused", "panicked", "timed_out"}, Over(t, o),
         o = "timed_out" \/ pc[t] \in {"bound", "connected"},
         UNCHANGED <<files, executions, inbox, handling, corepc>>
  PROVE  IInv'
<1>1. \A k, n : Slots(k)' = Slots(k) /\ At(k, n)' = At(k, n) /\ (Executed(k, n)' <=> Executed(k, n))
  BY SamePlaces
<1>2. SentOnce'
  BY <1>1 DEF IInv, SentOnce
<1>3. call[t] \in Calls /\ outcome[call[t]] = "open" /\ call[t] # NoCall
  BY NoPacketHere DEF IInv, Local
<1>4. RequestsFit'
  <2>1. SUFFICES ASSUME NEW k \in Cores, NEW n \in Slots(k)
                 PROVE  Fits(k, n)'
    BY <1>1 DEF RequestsFit
  <2>2. Fits(k, n)
    BY DEF IInv, RequestsFit
  <2>3. At(k, n).message_id = call[t] => pc[t] = "waiting"
    BY DEF IInv, Unanswered
  <2>4. QED
    BY <1>1, <1>3, <2>2, <2>3 DEF IInv, TypeOK, Fits, Over, Pending, Packets
<1>5. \A u \in Threads : Local(u)'
  BY <1>3 DEF IInv, TypeOK, Local, Over, OwnCalls
<1>6. \A u \in Threads : Unanswered(u)'
  BY <1>1, <1>3, NoPacketHere, PacketFields DEF IInv, TypeOK, Unanswered, Over
<1>7. OwnCalls'
  BY <1>3, NoPacketHere DEF IInv, TypeOK, OwnCalls, Over, Local
<1>8. OwnFiles'
  BY DEF IInv, TypeOK, OwnFiles, Over, Pending
<1>9. NotSent'
  BY <1>3 DEF IInv, TypeOK, NotSent, Over, Local
<1>10. QED
  BY <1>2, <1>4, <1>5, <1>6, <1>7, <1>8, <1>9 DEF IInv

LEMMA ConnectKeeps ==
  ASSUME IInv, NEW t \in Threads, Connect(t)
  PROVE  IInv'
<1>1. TypeOK'
  BY ClientTypes DEF ClientStep
<1>2. UNCHANGED <<files, executions, inbox, handling, corepc>> /\ pc[t] = "bound"
  BY DEF Connect, coreVars
<1>3. CASE server \in Cores
  <2>1. pc' = [pc EXCEPT ![t] = "connected"] /\ UNCHANGED <<call, path, mailbox, outcome>>
    BY <1>3 DEF Connect
  <2>2. \A k, n : Slots(k)' = Slots(k) /\ At(k, n)' = At(k, n) /\ (Executed(k, n)' <=> Executed(k, n))
    BY <1>2, SamePlaces
  <2>3. RequestsFit' /\ SentOnce'
    BY <1>2, <2>1, <2>2 DEF IInv, RequestsFit, Fits, SentOnce
  <2>4. \A u \in Threads : Local(u)'
    BY <1>2, <2>1 DEF IInv, TypeOK, Local
  <2>5. \A u \in Threads : Unanswered(u)'
    BY <1>2, <2>1, <2>2 DEF IInv, TypeOK, Unanswered
  <2>6. OwnCalls' /\ OwnFiles' /\ NotSent'
    BY <1>2, <2>1 DEF IInv, TypeOK, OwnCalls, OwnFiles, NotSent
  <2>7. QED
    BY <1>1, <2>3, <2>4, <2>5, <2>6 DEF IInv
<1>4. CASE server \notin Cores
  BY <1>1, <1>2, <1>4, FailureKeeps DEF Connect
<1>5. QED
  BY <1>3, <1>4

LEMMA TimeoutKeeps ==
  ASSUME IInv, NEW t \in Threads, Timeout(t)
  PROVE  IInv'
<1>1. TypeOK'
  BY ClientTypes DEF ClientStep
<1>2. QED
  BY <1>1, FailureKeeps DEF Timeout, coreVars

LEMMA SendKeeps ==
  ASSUME IInv, NEW t \in Threads, Send(t)
  PROVE  IInv'
<1>1. TypeOK'
  BY ClientTypes DEF ClientStep
<1>2. UNCHANGED <<files, executions, handling, corepc>> /\ pc[t] = "connected"
  BY DEF Send
<1>3. CASE Over(t, "panicked") /\ UNCHANGED inbox
  BY <1>1, <1>2, <1>3, FailureKeeps
<1>4. CASE ~(Over(t, "panicked") /\ UNCHANGED inbox)
  <2> DEFINE k == peer[t]
             N == Len(inbox[k]) + 1
  <2>1. /\ k \in Cores
        /\ inbox' = [inbox EXCEPT ![k] = Append(@, Packet(t))]
        /\ pc' = [pc EXCEPT ![t] = "waiting"]
        /\ UNCHANGED <<call, path, mailbox, outcome>>
    BY <1>4 DEF Send
  <2> HIDE DEF k
  <2>2. inbox \in [Cores -> Seq(Packets)] /\ N \in Nat \ {0}
    BY <2>1 DEF IInv, TypeOK
  <2>3. inbox'[k] = Append(inbox[k], Packet(t)) /\ inbox[k] \in Seq(Packets)
    BY <2>1, <2>2
  <2>4. /\ Len(inbox'[k]) = N /\ inbox'[k][N] = Packet(t)
        /\ \A n \in 1..Len(inbox[k]) : inbox'[k][n] = inbox[k][n]
    BY <2>3
  <2>5. \A l \in Cores : \A n \in Slots(l)' :
          \/ l = k /\ n = N /\ At(l, n)' = Packet(t)
          \/ n \in Slots(l) /\ At(l, n)' = At(l, n)
    <3>1. SUFFICES ASSUME NEW l \in Cores, NEW n \in Slots(l)'
                   PROVE  \/ l = k /\ n = N /\ At(l, n)' = Packet(t)
                          \/ n \in Slots(l) /\ At(l, n)' = At(l, n)
      OBVIOUS
    <3>2. CASE l # k
      BY <1>2, <2>1, <2>2, <3>2 DEF Slots, At
    <3>3. CASE l = k /\ n = N
      BY <2>2, <2>4, <3>3 DEF At
    <3>4. CASE l = k /\ n # N
      BY <1>2, <2>2, <2>4, <3>4 DEF Slots, At
    <3>5. QED
      BY <3>2, <3>3, <3>4
  <2>6. \A l, n : Executed(l, n)' <=> Executed(l, n)
    BY <1>2 DEF Executed
  <2> HIDE DEF N
  <2>7. /\ call[t] \in Calls /\ outcome[call[t]] = "open" /\ executions[call[t]] = 0
        /\ path[t] \in DOMAIN files /\ files[path[t]] = call[t] /\ mailbox[t] = <<>>
    BY <1>2 DEF IInv, Local
  <2>8. Packet(t) \in Packets /\ Packet(t).message_id = call[t] /\ Packet(t).from = path[t]
    BY <2>7 DEF IInv, TypeOK, Packet, Packets
  <2>9. \A l \in Cores : \A n \in Slots(l) : At(l, n).message_id # call[t]
    BY <1>2 DEF IInv, Unanswered
  <2>10. N # 0
    BY <2>2
  <2>11. RequestsFit'
    <3>1. SUFFICES ASSUME NEW l \in Cores, NEW n \in Slots(l)'
                   PROVE  Fits(l, n)'
      BY DEF RequestsFit
    <3>2. CASE n = N /\ At(l, n)' = Packet(t)
      BY <1>2, <2>1, <2>7, <2>8, <2>10, <3>2 DEF Fits, Executed, Pending
    <3>3. CASE n \in Slots(l) /\ At(l, n)' = At(l, n)
      BY <1>2, <2>1, <2>6, <3>3 DEF IInv, RequestsFit, Fits
    <3>4. QED
      BY <2>5, <3>2, <3>3
  <2>12. SentOnce'
    <3>1. SUFFICES ASSUME NEW l \in Cores, NEW m \in Cores, NEW n \in Slots(l)', NEW o \in Slots(m)',
                          At(l, n)'.message_id = At(m, o)'.message_id
                   PROVE  l = m /\ n = o
      BY DEF SentOnce
    <3>2. \/ l = k /\ n = N /\ At(l, n)' = Packet(t)
          \/ n \in Slots(l) /\ At(l, n)' = At(l, n)
      BY <2>5
    <3>3. \/ m = k /\ o = N /\ At(m, o)' = Packet(t)
          \/ o \in Slots(m) /\ At(m, o)' = At(m, o)
      BY <2>5
    <3>4. QED
      BY <2>8, <2>9, <3>1, <3>2, <3>3 DEF IInv, SentOnce
  <2>13. \A u \in Threads : Local(u)'
    BY <1>2, <2>1, <2>7 DEF IInv, TypeOK, Local
  <2>14. \A u \in Threads : Unanswered(u)'
    <3>1. SUFFICES ASSUME NEW u \in Threads, NEW l \in Cores, NEW n \in Slots(l)',
                          At(l, n)'.message_id = call[u]
                   PROVE  pc'[u] = "waiting" /\ mailbox[u] = <<>>
      BY <2>1 DEF Unanswered
    <3>2. CASE At(l, n)' = Packet(t)
      <4>1. call[u] = call[t]
        BY <2>8, <3>1, <3>2
      <4>2. u = t
        BY <1>2, <4>1 DEF IInv, OwnCalls
      <4>3. QED
        BY <1>2, <2>1, <2>7, <4>2 DEF IInv, TypeOK
    <3>3. CASE n \in Slots(l) /\ At(l, n)' = At(l, n)
      <4>1. pc[u] = "waiting" /\ mailbox[u] = <<>>
        BY <3>1, <3>3 DEF IInv, Unanswered
      <4>2. QED
        BY <1>2, <2>1, <4>1 DEF IInv, TypeOK
    <3>4. QED
      BY <2>5, <3>2, <3>3
  <2>15. OwnCalls' /\ OwnFiles' /\ NotSent'
    BY <1>2, <2>1 DEF IInv, TypeOK, OwnCalls, OwnFiles, NotSent
  <2>16. QED
    BY <1>1, <2>11, <2>12, <2>13, <2>14, <2>15 DEF IInv
<1>5. QED
  BY <1>3, <1>4

LEMMA RecvKeeps ==
  ASSUME IInv, NEW t \in Threads, Recv(t)
  PROVE  IInv'
<1>1. TypeOK'
  BY ClientTypes DEF ClientStep
<1>2. /\ UNCHANGED <<executions, inbox, handling, corepc>> /\ pc[t] = "waiting"
      /\ files' = [y \in DOMAIN files \ {path[t]} |-> files[y]]
  BY DEF Recv, coreVars, Remove
<1>3. /\ call[t] \in Calls /\ outcome[call[t]] = "open" /\ call[t] # NoCall
      /\ path[t] \in DOMAIN files /\ files[path[t]] = call[t]
      /\ mailbox[t] = <<call[t]>>
  BY NoPacketHere DEF IInv, Local, Recv
<1>4. PICK o \in {"answered", "unreadable"} : Over(t, o)
  BY <1>3 DEF Recv, Understood
<1>5. \A k, n : Slots(k)' = Slots(k) /\ At(k, n)' = At(k, n) /\ (Executed(k, n)' <=> Executed(k, n))
  BY <1>2, SamePlaces
<1>6. SentOnce'
  BY <1>5 DEF IInv, SentOnce
<1>7. \A k \in Cores : \A n \in Slots(k) : At(k, n).message_id # call[t]
  <2>1. mailbox[t] # <<>>
    BY DEF Recv
  <2>2. QED
    BY <2>1 DEF IInv, Unanswered
<1>8. RequestsFit'
  <2>1. SUFFICES ASSUME NEW k \in Cores, NEW n \in Slots(k)
                 PROVE  Fits(k, n)'
    BY <1>5 DEF RequestsFit
  <2>2. Fits(k, n) /\ At(k, n).message_id # call[t]
    BY <1>7 DEF IInv, RequestsFit
  <2>3. QED
    BY <1>2, <1>3, <1>4, <1>5, <2>2 DEF IInv, TypeOK, Fits, Over, Packets
<1>9. \A u \in Threads : Local(u)'
  BY <1>2, <1>3, <1>4 DEF IInv, TypeOK, Local, Over, OwnCalls
<1>10. \A u \in Threads : Unanswered(u)'
  BY <1>3, <1>4, <1>5, PacketFields, NoPacketHere DEF IInv, TypeOK, Unanswered, Over
<1>11. OwnCalls'
  BY <1>3, <1>4, NoPacketHere DEF IInv, TypeOK, OwnCalls, Over, Local
<1>12. OwnFiles'
  BY <1>2, <1>3, <1>4 DEF IInv, TypeOK, OwnFiles, Over
<1>13. NotSent'
  BY <1>2, <1>4 DEF IInv, TypeOK, NotSent, Over
<1>14. QED
  BY <1>1, <1>6, <1>8, <1>9, <1>10, <1>11, <1>12, <1>13 DEF IInv

LEMMA TickKeeps ==
  ASSUME IInv, NEW p \in Processes, Tick(p)
  PROVE  IInv'
<1>1. TypeOK'
  BY ProcessTypes DEF IInv
<1>2. UNCHANGED <<files, pc, call, path, outcome, mailbox, executions, inbox, handling, corepc>>
  BY DEF Tick, coreVars
<1>3. \A k, n : Slots(k)' = Slots(k) /\ At(k, n)' = At(k, n) /\ (Executed(k, n)' <=> Executed(k, n))
  BY <1>2, SamePlaces
<1>4. QED
  BY <1>1, <1>2, <1>3
  DEF IInv, RequestsFit, Fits, SentOnce, Local, Unanswered, OwnCalls, OwnFiles, NotSent

LEMMA DieKeeps ==
  ASSUME IInv, NEW p \in Processes, Die(p)
  PROVE  IInv'
<1>1. TypeOK'
  BY ProcessTypes DEF IInv
<1> DEFINE mine == {t \in Threads : ProcessOf[t] = p}
<1>2. /\ UNCHANGED <<files, executions, inbox, handling, corepc>>
      /\ outcome' = [i \in Calls |-> IF \E t \in mine : call[t] = i THEN "killed" ELSE outcome[i]]
      /\ pc' = [t \in Threads |-> IF t \in mine THEN "idle" ELSE pc[t]]
      /\ call' = [t \in Threads |-> IF t \in mine THEN NoCall ELSE call[t]]
      /\ path' = [t \in Threads |-> IF t \in mine THEN NoPath ELSE path[t]]
      /\ mailbox' = [t \in Threads |-> IF t \in mine THEN <<>> ELSE mailbox[t]]
  BY DEF Die, coreVars
<1>3. mine \subseteq Threads
  OBVIOUS
<1> HIDE DEF mine
<1>4. \A k, n : Slots(k)' = Slots(k) /\ At(k, n)' = At(k, n) /\ (Executed(k, n)' <=> Executed(k, n))
  BY <1>2, SamePlaces
<1>5. SentOnce'
  BY <1>4 DEF IInv, SentOnce
<1>6. \A i \in Calls : outcome'[i] \in {outcome[i], "killed"}
  BY <1>2
<1>7. RequestsFit'
  <2>1. SUFFICES ASSUME NEW k \in Cores, NEW n \in Slots(k)
                 PROVE  Fits(k, n)'
    BY <1>4 DEF RequestsFit
  <2>2. Fits(k, n) /\ At(k, n).message_id \in Calls
    BY PacketFields DEF IInv, RequestsFit
  <2>3. QED
    BY <1>2, <1>4, <1>6, <2>2 DEF Fits, Pending
<1>8. \A u \in Threads : Local(u)'
  <2>1. SUFFICES ASSUME NEW u \in Threads
                 PROVE  Local(u)'
    OBVIOUS
  <2>2. CASE u \in mine
    BY <1>2, <2>2 DEF Local
  <2>3. CASE u \notin mine
    <3>1. pc[u] # "idle" => \A t \in mine : call[t] # call[u]
      BY <1>3, <2>3 DEF IInv, OwnCalls
    <3>2. QED
      BY <1>2, <2>3, <3>1 DEF IInv, Local
  <2>4. QED
    BY <2>2, <2>3
<1>9. \A u \in Threads : Unanswered(u)'
  <2>1. SUFFICES ASSUME NEW u \in Threads, NEW k \in Cores, NEW n \in Slots(k),
                        At(k, n).message_id = call'[u]
                 PROVE  pc'[u] = "waiting" /\ mailbox'[u] = <<>>
    BY <1>4 DEF Unanswered
  <2>2. u \notin mine
    BY <1>2, <2>1, PacketFields, NoPacketHere
  <2>3. QED
    BY <1>2, <2>1, <2>2 DEF IInv, Unanswered
<1>10. OwnCalls'
  BY <1>2, NoPacketHere DEF IInv, OwnCalls, Local
<1>11. OwnFiles'
  BY <1>2, <1>6 DEF IInv, TypeOK, OwnFiles, Pending
<1>12. NotSent'
  BY <1>2, <1>6 DEF IInv, NotSent
<1>13. QED
  BY <1>1, <1>5, <1>7, <1>8, <1>9, <1>10, <1>11, <1>12 DEF IInv

-----------------------------------------------------------------------------
\* Steps of the cores.

\* What no step of a core changes.
LEMMA CoreFrame ==
  ASSUME IInv, TypeOK', UNCHANGED <<files, pc, call, path, outcome>>,
         RequestsFit', SentOnce', \A t \in Threads : Local(t)' /\ Unanswered(t)', NotSent'
  PROVE  IInv'
BY DEF IInv, OwnCalls, OwnFiles

\* A step that only takes requests away, or moves them from one place to another.
LEMMA FewerRequests ==
  ASSUME IInv, TypeOK', UNCHANGED <<files, pc, call, path, outcome, mailbox, executions>>,
         NEW shift \in [Cores -> {0, 1}],
         \A k \in Cores : \A n \in Slots(k)' :
           /\ n \in Nat /\ n + shift[k] \in Slots(k) /\ At(k, n)' = At(k, n + shift[k])
           /\ Executed(k, n)' <=> Executed(k, n + shift[k])
  PROVE  IInv'
<1>1. RequestsFit'
  BY DEF IInv, RequestsFit, Fits
<1>2. SentOnce'
  <2>1. SUFFICES ASSUME NEW k \in Cores, NEW l \in Cores, NEW n \in Slots(k)', NEW m \in Slots(l)',
                        At(k, n)'.message_id = At(l, m)'.message_id
                 PROVE  k = l /\ n = m
    BY DEF SentOnce
  <2>2. k = l /\ n + shift[k] = m + shift[l]
    BY <2>1 DEF IInv, SentOnce
  <2>3. QED
    BY <2>2
<1>3. \A t \in Threads : Local(t)'
  BY DEF IInv, Local
<1>4. \A t \in Threads : Unanswered(t)'
  BY DEF IInv, Unanswered
<1>5. NotSent'
  BY DEF IInv, NotSent
<1>6. QED
  BY <1>1, <1>2, <1>3, <1>4, <1>5, CoreFrame

LEMMA StartKeeps ==
  ASSUME IInv, NEW k \in Cores, StartCore(k) \/ Unlink(k) \/ BindCore(k)
  PROVE  IInv'
<1>1. TypeOK'
  BY CoreTypes
<1>2. UNCHANGED <<files, pc, call, path, outcome, mailbox, executions, inbox, handling>>
  BY DEF StartCore, Unlink, BindCore, clientVars
<1>3. \A l \in Cores : corepc[l] \in {"dispatch", "send"} \/ corepc'[l] \in {"dispatch", "send"} =>
                        corepc'[l] = corepc[l]
  BY DEF StartCore, Unlink, BindCore, CoreGoto, IInv, TypeOK
<1>4. \A l \in Cores : \A n \in Slots(l)' :
        n \in Nat /\ n \in Slots(l) /\ At(l, n)' = At(l, n) /\ (Executed(l, n)' <=> Executed(l, n))
  BY <1>1, <1>2, <1>3 DEF Slots, At, Executed, TypeOK
<1> DEFINE shift == [l \in Cores |-> 0]
<1>5. shift \in [Cores -> {0, 1}] /\ \A l \in Cores, n \in Nat : n + shift[l] = n
  OBVIOUS
<1> HIDE DEF shift
<1>6. QED
  BY <1>1, <1>2, <1>4, <1>5, FewerRequests

LEMMA StopKeeps ==
  ASSUME IInv, NEW k \in Cores, StopCore(k)
  PROVE  IInv'
<1>1. TypeOK'
  BY CoreTypes
<1>2. UNCHANGED <<files, pc, call, path, outcome, mailbox, executions>>
  BY DEF StopCore
<1>3. /\ corepc' = [corepc EXCEPT ![k] = "down"] /\ inbox' = [inbox EXCEPT ![k] = <<>>]
      /\ handling' = [handling EXCEPT ![k] = NoPacket]
  BY DEF StopCore, CoreGoto
<1>4. \A l \in Cores : \A n \in Slots(l)' :
        n \in Nat /\ n \in Slots(l) /\ At(l, n)' = At(l, n) /\ (Executed(l, n)' <=> Executed(l, n))
  BY <1>1, <1>3 DEF Slots, At, Executed, IInv, TypeOK
<1> DEFINE shift == [l \in Cores |-> 0]
<1>5. shift \in [Cores -> {0, 1}] /\ \A l \in Cores, n \in Nat : n + shift[l] = n
  OBVIOUS
<1> HIDE DEF shift
<1>6. QED
  BY <1>1, <1>2, <1>4, <1>5, FewerRequests

LEMMA CoreRecvKeeps ==
  ASSUME IInv, NEW k \in Cores, CoreRecv(k)
  PROVE  IInv'
<1>1. TypeOK'
  BY CoreTypes DEF ServeStep
<1>2. UNCHANGED <<files, pc, call, path, outcome, mailbox, executions>>
  BY DEF CoreRecv, clientVars
<1>3. /\ corepc[k] = "recv" /\ corepc' = [corepc EXCEPT ![k] = "dispatch"]
      /\ inbox[k] # <<>> /\ inbox' = [inbox EXCEPT ![k] = Tail(@)]
      /\ handling' = [handling EXCEPT ![k] = Head(inbox[k])]
  BY DEF CoreRecv, CoreGoto
<1> DEFINE shift == [l \in Cores |-> IF l = k THEN 1 ELSE 0]
<1>4. shift \in [Cores -> {0, 1}] /\ \A l \in Cores : shift[l] = IF l = k THEN 1 ELSE 0
  OBVIOUS
<1> HIDE DEF shift
<1>5. \A l \in Cores : \A n \in Slots(l)' :
        /\ n \in Nat /\ n + shift[l] \in Slots(l) /\ At(l, n)' = At(l, n + shift[l])
        /\ Executed(l, n)' <=> Executed(l, n + shift[l])
  <2>1. SUFFICES ASSUME NEW l \in Cores, NEW n \in Slots(l)'
                 PROVE  /\ n \in Nat /\ n + shift[l] \in Slots(l) /\ At(l, n)' = At(l, n + shift[l])
                        /\ Executed(l, n)' <=> Executed(l, n + shift[l])
    OBVIOUS
  <2>2. CASE l # k
    BY <1>1, <1>3, <1>4, <2>2 DEF Slots, At, Executed, IInv, TypeOK
  <2>3. CASE l = k
    <3>1. /\ inbox[k] \in Seq(Packets) /\ Len(inbox[k]) \in Nat \ {0}
          /\ Len(inbox'[k]) = Len(inbox[k]) - 1
          /\ handling'[k] = inbox[k][1]
          /\ \A j \in 1..Len(inbox'[k]) : inbox'[k][j] = inbox[k][j + 1]
      BY <1>3 DEF IInv, TypeOK
    <3>2. corepc'[k] = "dispatch" /\ shift[k] = 1
      BY <1>3, <1>4 DEF IInv, TypeOK
    <3>3. n \in 0..(Len(inbox[k]) - 1)
      BY <2>3, <3>1, <3>2 DEF Slots
    <3>4. CASE n = 0
      BY <1>3, <2>3, <3>1, <3>2, <3>4 DEF Slots, At, Executed
    <3>5. CASE n # 0
      BY <1>3, <2>3, <3>1, <3>2, <3>3, <3>5 DEF Slots, At, Executed
    <3>6. QED
      BY <3>4, <3>5
  <2>4. QED
    BY <2>2, <2>3
<1>6. QED
  BY <1>1, <1>2, <1>4, <1>5, FewerRequests

LEMMA DispatchKeeps ==
  ASSUME IInv, NEW k \in Cores, Dispatch(k)
  PROVE  IInv' /\ executions[handling[k].message_id] = 0 /\ handling[k].message_id \in Calls
         /\ outcome[handling[k].message_id] \in Pending
<1> DEFINE i == handling[k].message_id
<1>1. TypeOK'
  BY CoreTypes DEF ServeStep
<1>2. /\ UNCHANGED <<files, pc, call, path, outcome, mailbox, inbox, handling>>
      /\ corepc[k] = "dispatch" /\ corepc' = [corepc EXCEPT ![k] = "send"]
      /\ executions' = [executions EXCEPT ![i] = @ + 1]
  BY DEF Dispatch, CoreGoto, clientVars
<1>3. 0 \in Slots(k) /\ At(k, 0).message_id = i
  BY <1>2 DEF Slots, At
<1>4. i \in Calls /\ executions[i] = 0 /\ outcome[i] \in Pending
  BY <1>2, <1>3, PacketFields DEF IInv, RequestsFit, Fits, Executed
<1> HIDE DEF i
<1>5. executions'[i] = 1 /\ \A j \in Calls : j # i => executions'[j] = executions[j]
  BY <1>2, <1>4 DEF IInv, TypeOK
<1>6. \A l \in Cores : Slots(l)' = Slots(l) /\ \A n \in Slots(l) : At(l, n)' = At(l, n)
  BY <1>2 DEF IInv, TypeOK, Slots, At
<1>7. \A l \in Cores : \A n \in Slots(l) : At(l, n).message_id = i => l = k /\ n = 0
  BY <1>3 DEF IInv, SentOnce
<1>8. RequestsFit'
  <2>1. SUFFICES ASSUME NEW l \in Cores, NEW n \in Slots(l)
                 PROVE  Fits(l, n)'
    BY <1>6 DEF RequestsFit
  <2>2. Fits(l, n) /\ At(l, n)' = At(l, n) /\ At(l, n).message_id \in Calls
    BY <1>6, PacketFields DEF IInv, RequestsFit
  <2>3. CASE l = k /\ n = 0
    <3>1. Executed(l, n)'
      BY <1>2, <2>3 DEF IInv, TypeOK, Executed
    <3>2. QED
      BY <1>2, <1>3, <1>5, <2>2, <2>3, <3>1 DEF Fits
  <2>4. CASE ~(l = k /\ n = 0)
    <3>1. Executed(l, n)' <=> Executed(l, n)
      BY <1>2, <2>4 DEF IInv, TypeOK, Executed
    <3>2. QED
      BY <1>2, <1>5, <1>7, <2>2, <2>4, <3>1 DEF Fits
  <2>5. QED
    BY <2>3, <2>4
<1>9. SentOnce'
  BY <1>6 DEF IInv, SentOnce
<1>10. \A t \in Threads : Local(t)'
  <2>1. SUFFICES ASSUME NEW t \in Threads
                 PROVE  Local(t)'
    OBVIOUS
  <2>2. Local(t) /\ (i = call[t] => pc[t] = "waiting" /\ mailbox[t] = <<>>)
    BY <1>3 DEF IInv, Unanswered
  <2>3. QED
    BY <1>2, <1>5, <2>2 DEF Local
<1>11. \A t \in Threads : Unanswered(t)'
  BY <1>2, <1>6 DEF IInv, Unanswered
<1>12. NotSent'
  BY <1>2, <1>4, <1>5 DEF IInv, NotSent, Pending
<1>13. QED
  BY <1>1, <1>2, <1>4, <1>8, <1>9, <1>10, <1>11, <1>12, CoreFrame DEF i

LEMMA SendToKeeps ==
  ASSUME IInv, NEW k \in Cores, SendTo(k)
  PROVE  IInv'
<1> DEFINE i == handling[k].message_id
           x == handling[k].from
<1>1. TypeOK'
  BY CoreTypes DEF ServeStep
<1>2. /\ UNCHANGED <<files, pc, call, path, outcome, executions, inbox>>
      /\ corepc[k] = "send" /\ corepc' = [corepc EXCEPT ![k] = "recv"]
      /\ handling' = [handling EXCEPT ![k] = NoPacket]
  BY DEF SendTo, CoreGoto, clientVars
<1>3. 0 \in Slots(k) /\ At(k, 0).message_id = i /\ At(k, 0).from = x /\ Executed(k, 0)
  BY <1>2 DEF Slots, At, Executed
<1>4. i \in Calls /\ executions[i] = 1 /\ x \in DOMAIN files /\ files[x] = i
  BY <1>3, PacketFields DEF IInv, RequestsFit, Fits
<1>5. \A t \in Threads : \/ mailbox'[t] = mailbox[t]
                         \/ call[t] = i /\ pc[t] # "idle" /\ mailbox'[t] = <<i>>
  <2>1. \A t \in Reached(k, x) : call[t] = i /\ pc[t] # "idle" /\ mailbox[t] = <<>>
    BY <1>3, <1>4 DEF IInv, Reached, Unanswered
  <2>2. CASE UNCHANGED mailbox
    BY <2>2
  <2>3. CASE mailbox' = [t \in Threads |-> IF t \in Reached(k, x) THEN Append(mailbox[t], i)
                                          ELSE mailbox[t]]
    <3>1. Append(<<>>, i) = <<i>>
      OBVIOUS
    <3>2. QED
      BY <2>1, <2>3, <3>1
  <2>4. QED
    BY <2>2, <2>3 DEF SendTo, AsRespFor
<1> HIDE DEF i, x
<1>6. \A l \in Cores : \A n \in Slots(l)' :
        /\ n \in Slots(l) /\ At(l, n)' = At(l, n) /\ (Executed(l, n)' <=> Executed(l, n))
        /\ ~(l = k /\ n = 0)
  BY <1>2 DEF IInv, TypeOK, Slots, At, Executed
<1>7. \A l \in Cores : \A n \in Slots(l)' : At(l, n).message_id # i
  BY <1>3, <1>6 DEF IInv, SentOnce
<1>8. RequestsFit'
  BY <1>2, <1>6 DEF IInv, RequestsFit, Fits
<1>9. SentOnce'
  BY <1>6 DEF IInv, SentOnce
<1>10. \A t \in Threads : Local(t)'
  <2>1. SUFFICES ASSUME NEW t \in Threads
                 PROVE  Local(t)'
    OBVIOUS
  <2>2. Local(t) /\ (i = call[t] => pc[t] = "waiting" /\ mailbox[t] = <<>>)
    BY <1>3 DEF IInv, Unanswered
  <2>3. QED
    BY <1>2, <1>4, <1>5, <2>2 DEF Local
<1>11. \A t \in Threads : Unanswered(t)'
  <2>1. SUFFICES ASSUME NEW t \in Threads, NEW l \in Cores, NEW n \in Slots(l)',
                        At(l, n).message_id = call[t]
                 PROVE  pc[t] = "waiting" /\ mailbox'[t] = <<>>
    BY <1>2, <1>6 DEF Unanswered
  <2>2. pc[t] = "waiting" /\ mailbox[t] = <<>>
    BY <1>6, <2>1 DEF IInv, Unanswered
  <2>3. QED
    BY <1>5, <1>7, <2>1, <2>2
<1>12. NotSent'
  BY <1>2 DEF IInv, NotSent
<1>13. QED
  BY <1>1, <1>2, <1>8, <1>9, <1>10, <1>11, <1>12, CoreFrame

-----------------------------------------------------------------------------
\* The theorems.

LEMMA InitHolds ==
  ASSUME Init
  PROVE  IInv
<1>1. TypeOK
  BY TransportAssumption DEF Init, TypeOK
<1>2. \A k \in Cores : Slots(k) = {}
  BY DEF Init, Slots
<1>3. QED
  BY <1>1, <1>2, NoPacketHere
  DEF Init, IInv, RequestsFit, SentOnce, Local, Unanswered, OwnCalls, OwnFiles, NotSent

\* Each step keeps the invariant.
LEMMA NextKeeps ==
  ASSUME IInv, [Next]_vars
  PROVE  IInv'
<1>1. CASE Next
  BY <1>1, CallKeeps, ConnectKeeps, SendKeeps, RecvKeeps, TimeoutKeeps, TickKeeps, DieKeeps,
     StartKeeps, CoreRecvKeeps, DispatchKeeps, SendToKeeps, StopKeeps
  DEF Next, ClientStep, ServeStep
<1>2. CASE UNCHANGED vars
  <2>1. \A k, n : Slots(k)' = Slots(k) /\ At(k, n)' = At(k, n) /\ (Executed(k, n)' <=> Executed(k, n))
    BY <1>2, SamePlaces DEF vars, coreVars
  <2>2. QED
    BY <1>2, <2>1 DEF vars, clientVars, coreVars, IInv, TypeOK, RequestsFit, Fits, SentOnce, Local,
       Unanswered, OwnCalls, OwnFiles, NotSent
<1>3. QED
  BY <1>1, <1>2

\* Reachable states satisfy the inductive invariant.
THEOREM TransportInductive == Spec => []IInv
<1>1. Init => IInv
  BY InitHolds
<1>2. IInv /\ [Next]_vars => IInv'
  BY NextKeeps
<1>3. QED
  BY <1>1, <1>2, PTL DEF Spec

\* Types, for any number of threads, processes, cores and calls.
THEOREM TransportTypeOK == Spec => []TypeOK
<1>1. IInv => TypeOK
  BY DEF IInv
<1>2. QED
  BY <1>1, TransportInductive, PTL

\* No response reaches another call's socket, although process ids and milliseconds
\* repeat and cores answer late.
THEOREM TransportAnswersMatch == Spec => []AnswersMatch
<1>1. IInv => AnswersMatch
  BY DEF IInv, Local, AnswersMatch
<1>2. QED
  BY <1>1, TransportInductive, PTL

\* Only calls without a response leave files behind.
THEOREM TransportAnsweredCallsCleanUp == Spec => []AnsweredCallsCleanUp
<1>1. IInv => AnsweredCallsCleanUp
  BY DEF IInv, OwnFiles, AnsweredCallsCleanUp, Pending
<1>2. QED
  BY <1>1, TransportInductive, PTL

-----------------------------------------------------------------------------
\* The sockets implement Rpc.

status == [i \in Calls |-> StatusOf(outcome[i])]

LEMMA SameStatus ==
  ASSUME UNCHANGED <<outcome, executions>>
  PROVE  UNCHANGED R!vars
BY DEF R!vars, StatusOf

\* What becomes of one call's outcome becomes of its status.
LEMMA OneStatus ==
  ASSUME TypeOK, NEW i \in Calls, NEW o, outcome' = [outcome EXCEPT ![i] = o]
  PROVE  status' = [status EXCEPT ![i] = StatusOf(o)]
BY DEF TypeOK, status, StatusOf

LEMMA CallImplements ==
  ASSUME IInv, NEW t \in Threads, Call(t)
  PROVE  R!Next
<1>1. PICK i \in Calls : outcome[i] = "new" /\ \E x \in Processes \X Nat : Bind(t, i, x)
  BY TransportAssumption DEF Call, IInv, TypeOK
<1>2. TypeOK /\ executions[i] = 0 /\ status[i] = "new" /\ UNCHANGED executions
  BY <1>1 DEF IInv, NotSent, status, StatusOf, Call
<1>3. CASE outcome' = [outcome EXCEPT ![i] = "refused"]
  <2>1. status' = [status EXCEPT ![i] = "refused"]
    BY <1>2, <1>3, OneStatus DEF StatusOf
  <2>2. R!Refuse(i)
    BY <1>2, <2>1 DEF status, R!Refuse, R!Become
  <2>3. QED
    BY <2>2 DEF R!Next
<1>4. CASE outcome' = [outcome EXCEPT ![i] = "open"]
  <2>1. status' = [status EXCEPT ![i] = "open"]
    BY <1>2, <1>4, OneStatus DEF StatusOf
  <2>2. R!Issue(i)
    BY <1>2, <2>1 DEF status, R!Issue, R!Become
  <2>3. QED
    BY <2>2 DEF R!Next
<1>5. QED
  BY <1>1, <1>3, <1>4 DEF Bind

LEMMA OverImplements ==
  ASSUME IInv, NEW t \in Threads, pc[t] # "idle", NEW o, Over(t, o), UNCHANGED executions,
         \/ o \in {"refused", "panicked"} /\ pc[t] \in {"bound", "connected"}
         \/ o = "answered" /\ mailbox[t] # <<>>
         \/ o \in {"unreadable", "timed_out"}
  PROVE  R!Next
<1> DEFINE i == call[t]
<1>1. i \in Calls /\ outcome[i] = "open" /\ TypeOK
  BY DEF IInv, Local
<1>2. status[i] = "open" /\ status' = [status EXCEPT ![i] = StatusOf(o)]
  BY <1>1, OneStatus DEF Over, status, StatusOf
<1> HIDE DEF i
<1>3. CASE o \in {"refused", "panicked"} /\ pc[t] \in {"bound", "connected"}
  <2>1. executions[i] = 0 /\ StatusOf(o) = "refused"
    BY <1>3 DEF IInv, Local, StatusOf, i
  <2>2. R!Refuse(i)
    BY <1>2, <2>1 DEF status, R!Refuse, R!Become
  <2>3. QED
    BY <1>1, <2>2 DEF R!Next
<1>4. CASE o = "answered" /\ mailbox[t] # <<>>
  <2>1. executions[i] = 1 /\ StatusOf(o) = "answered"
    BY <1>4 DEF IInv, Local, StatusOf, i
  <2>2. R!Return(i)
    BY <1>2, <2>1 DEF status, R!Return, R!Become
  <2>3. QED
    BY <1>1, <2>2 DEF R!Next
<1>5. CASE o \in {"unreadable", "timed_out"}
  <2>1. StatusOf(o) = "unknown"
    BY <1>5 DEF StatusOf
  <2>2. status' = [j \in Calls |-> IF j \in {i} THEN "unknown" ELSE status[j]]
    BY <1>1, <1>2, <2>1 DEF status
  <2>3. R!GiveUp({i})
    BY <1>2, <2>2 DEF status, R!GiveUp
  <2>4. QED
    BY <1>1, <2>3 DEF R!Next
<1>6. QED
  BY <1>3, <1>4, <1>5

LEMMA ClientImplements ==
  ASSUME IInv, NEW t \in Threads, ClientStep(t)
  PROVE  R!Next \/ UNCHANGED R!vars
<1>1. CASE Connect(t)
  <2>1. CASE server \in Cores
    BY <1>1, <2>1, SameStatus DEF Connect
  <2>2. CASE server \notin Cores
    BY <1>1, <2>2, OverImplements DEF Connect
  <2>3. QED
    BY <2>1, <2>2
<1>2. CASE Send(t)
  <2>1. CASE UNCHANGED outcome
    BY <1>2, <2>1, SameStatus DEF Send
  <2>2. CASE Over(t, "panicked")
    BY <1>2, <2>2, OverImplements DEF Send
  <2>3. QED
    BY <1>2, <2>1, <2>2 DEF Send
<1>3. CASE Recv(t)
  <2>1. mailbox[t] = <<call[t]>>
    BY <1>3 DEF IInv, Local, Recv
  <2>2. PICK o \in {"answered", "unreadable"} : Over(t, o)
    BY <1>3, <2>1 DEF Recv, Understood
  <2>3. QED
    BY <1>3, <2>1, <2>2, OverImplements DEF Recv
<1>4. CASE Timeout(t)
  BY <1>4, OverImplements DEF Timeout
<1>5. QED
  BY <1>1, <1>2, <1>3, <1>4 DEF ClientStep

LEMMA DieImplements ==
  ASSUME IInv, NEW p \in Processes, Die(p)
  PROVE  R!Next
<1> DEFINE S == {i \in Calls : \E t \in Threads : ProcessOf[t] = p /\ call[t] = i}
<1>1. \A i \in S : status[i] = "open"
  BY NoPacketHere DEF IInv, Local, status, StatusOf
<1>2. status' = [i \in Calls |-> IF i \in S THEN "unknown" ELSE status[i]]
  BY DEF Die, status, StatusOf
<1>3. UNCHANGED executions /\ S \in SUBSET Calls
  BY DEF Die
<1> HIDE DEF S
<1>4. R!GiveUp(S)
  BY <1>1, <1>2, <1>3 DEF status, R!GiveUp
<1>5. QED
  BY <1>3, <1>4 DEF R!Next

LEMMA DispatchImplements ==
  ASSUME IInv, NEW k \in Cores, Dispatch(k)
  PROVE  R!Next
<1> DEFINE i == handling[k].message_id
<1>1. i \in Calls /\ executions[i] = 0 /\ outcome[i] \in Pending /\ TypeOK
  BY DispatchKeeps DEF IInv
<1>2. status[i] \in {"open", "unknown"}
  BY <1>1 DEF status, StatusOf, Pending
<1>3. status' = status /\ executions' = [executions EXCEPT ![i] = 1]
  BY <1>1 DEF Dispatch, clientVars, status, TypeOK
<1> HIDE DEF i
<1>4. R!Execute(i)
  BY <1>1, <1>2, <1>3 DEF status, R!Execute
<1>5. QED
  BY <1>1, <1>4 DEF R!Next

LEMMA NextImplements ==
  ASSUME IInv, [Next]_vars
  PROVE  [R!Next]_(R!vars)
<1>1. CASE \E t \in Threads : Call(t) \/ ClientStep(t)
  BY <1>1, CallImplements, ClientImplements
<1>2. CASE \E p \in Processes : Tick(p) \/ Die(p)
  BY <1>2, DieImplements, SameStatus DEF Tick
<1>3. CASE \E k \in Cores : Dispatch(k)
  BY <1>3, DispatchImplements
<1>4. CASE \E k \in Cores : \/ StartCore(k) \/ Unlink(k) \/ BindCore(k) \/ StopCore(k)
                          \/ CoreRecv(k) \/ SendTo(k)
  BY <1>4, SameStatus
  DEF StartCore, Unlink, BindCore, StopCore, CoreRecv, SendTo, clientVars
<1>5. CASE UNCHANGED vars
  BY <1>5, SameStatus DEF vars, clientVars
<1>6. QED
  BY <1>1, <1>2, <1>3, <1>4, <1>5 DEF Next, ServeStep

\* Whatever dies, restarts, times out or is taken over, a request is executed at most
\* once, an answer means that it was, and a call that never left never is.
THEOREM TransportImplementsRpc == Spec => ImplementsRpc
<1>1. Init => R!Init
  BY DEF Init, R!Init, StatusOf
<1>2. IInv /\ [Next]_vars => [R!Next]_(R!vars)
  BY NextImplements
<1>3. QED
  BY <1>1, <1>2, TransportInductive, PTL DEF Spec, ImplementsRpc, R!Spec
=============================================================================
