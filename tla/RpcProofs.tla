----------------------------- MODULE RpcProofs ------------------------------
(***************************************************************************)
(* Proofs about the RPC layer, for any number of calls, attempts, client   *)
(* and server processes, with or without loss, panics and timeouts.        *)
(***************************************************************************)
EXTENDS Rpc, TLAPS

USE RpcAssumption

(***************************************************************************)
(* The calls under way have ids given out by the present client process,   *)
(* no two the same.                                                        *)
(***************************************************************************)
CallsNumbered ==
  \A c \in Active :
    /\ call[c].rpc_id \in 1 .. next_id - 1
    /\ call[c].attempt \in Nat \ {0}
    /\ \A d \in Active : call[c].rpc_id = call[d].rpc_id => c = d

\* A map from keys to values stays one when entries are added or taken out.
MapOf(map, keys, values) ==
  DOMAIN map \subseteq keys /\ \A k \in DOMAIN map : map[k] \in values

LEMMA PutType ==
  ASSUME NEW map, NEW keys, NEW values, MapOf(map, keys, values),
         NEW key \in keys, NEW value \in values
  PROVE  MapOf(Put(map, key, value), keys, values)
BY DEF MapOf, Put

LEMMA DropType ==
  ASSUME NEW map, NEW keys, NEW values, MapOf(map, keys, values), NEW gone
  PROVE  MapOf(Drop(map, gone), keys, values)
BY DEF MapOf, Drop

\* Initially every variable has its type and no call is under way.
LEMMA InitType == Init => TypeOK /\ CallsNumbered
<1> SUFFICES ASSUME Init PROVE TypeOK /\ CallsNumbered
  OBVIOUS
<1> USE DEF Init
<1>1. /\ call \in [Calls -> CallState] /\ next_id \in Nat \ {0}
      /\ lives \in Nat \ {0} /\ servers \in Nat \ {0}
  BY DEF Idle, CallState
<1>2. DOMAIN waiters = {} /\ DOMAIN dedup = {}
  BY DEF EmptyMap
<1>3. TypeOK
  BY <1>1, <1>2 DEF TypeOK
<1>4. Active = {}
  BY DEF Active, Idle
<1>5. QED
  BY <1>3, <1>4 DEF CallsNumbered

\* A step of a call keeps the numbering.
LEMMA CallNumbered ==
  ASSUME TypeOK, CallsNumbered, NEW c \in Calls, Begin(c) \/ CallStep(c)
  PROVE  CallsNumbered'
<1> USE DEF TypeOK, CallState, CallsNumbered, Active
<1>1. CASE Begin(c)
  <2>1. Active' = Active \cup {c} /\ c \notin Active
    BY <1>1 DEF Begin
  <2>2. \A d \in Active : call'[d] = call[d] /\ d # c
    BY <1>1, <2>1 DEF Begin
  <2>3. call'[c].rpc_id = next_id /\ call'[c].attempt = 1 /\ next_id' = next_id + 1
    BY <1>1 DEF Begin
  <2>4. QED
    BY <2>1, <2>2, <2>3
<1>2. CASE CallStep(c)
  <2>1. c \in Active /\ call'[c].rpc_id = call[c].rpc_id /\ next_id' = next_id
    BY <1>2 DEF CallStep, Register, SendRequest, Sent, SendTimesOut, Succeed,
                AttemptTimesOut, Unregister, Step
  <2>2. \A d \in Calls : d # c => call'[d] = call[d]
    BY <1>2 DEF CallStep, Register, SendRequest, Sent, SendTimesOut, Succeed,
                AttemptTimesOut, Unregister, Step
  <2>3. call'[c].attempt \in Nat \ {0}
    <3>1. CASE Unregister(c)
      BY <2>1, <3>1 DEF Unregister
    <3>2. CASE ~Unregister(c)
      BY <1>2, <2>1, <3>2 DEF CallStep, Register, SendRequest, Sent, SendTimesOut,
                              Succeed, AttemptTimesOut, Step
    <3>3. QED
      BY <3>1, <3>2
  <2>4. QED
    BY <2>1, <2>2, <2>3
<1>3. QED
  BY <1>1, <1>2

\* A step of a call keeps the types.
LEMMA CallType ==
  ASSUME TypeOK, CallsNumbered, NEW c \in Calls, Begin(c) \/ CallStep(c)
  PROVE  TypeOK'
<1> USE DEF TypeOK, CallState, clientVars, serverVars
<1>1. CASE Begin(c)
  BY <1>1 DEF Begin
<1>2. CASE Register(c)
  <2>1. call[c].rpc_id \in 1 .. next_id - 1
    BY <1>2 DEF Register, Step, CallsNumbered, Active
  <2>2. call' \in [Calls -> CallState] /\ next_id' = next_id
    BY <1>2 DEF Register, Step
  <2>3. MapOf(waiters', 1 .. next_id - 1, Calls)
    <3>1. MapOf(waiters, 1 .. next_id - 1, Calls)
      BY DEF MapOf
    <3>2. waiters' = Put(waiters, call[c].rpc_id, c)
      BY <1>2 DEF Register
    <3>3. QED
      BY <2>1, <3>1, <3>2, PutType
  <2>4. QED
    BY <1>2, <2>2, <2>3 DEF Register, MapOf
<1>3. CASE SendRequest(c)
  <2>1. call[c].attempt \in Nat \ {0} /\ call[c].rpc_id \in Nat
    BY <1>3 DEF SendRequest, Step, CallsNumbered, Active
  <2>2. Request(c) \in RequestFrame
    BY <2>1 DEF Request, RequestFrame
  <2>3. call' \in [Calls -> CallState]
    BY <1>3 DEF SendRequest, Step
  <2>4. QED
    BY <1>3, <2>2, <2>3 DEF SendRequest
<1>4. CASE Sent(c)
  BY <1>4 DEF Sent, Step
<1>5. CASE SendTimesOut(c)
  BY <1>5 DEF SendTimesOut, Step, CloseChannel, Free
<1>6. CASE Succeed(c)
  BY <1>6 DEF Succeed, Step, CloseChannel, Free
<1>7. CASE AttemptTimesOut(c)
  BY <1>7 DEF AttemptTimesOut, Step
<1>8. CASE Unregister(c)
  <2>1. call' \in [Calls -> CallState]
    BY <1>8 DEF Unregister
  <2>2. result' \in [Calls -> Calls \cup {"pending", "timedOut"}]
    BY <1>8 DEF Unregister
  <2>3. MapOf(waiters', 1 .. next_id - 1, Calls)
    <3>1. MapOf(waiters, 1 .. next_id - 1, Calls)
      BY DEF MapOf
    <3>2. waiters' = Drop(waiters, {call[c].rpc_id})
      BY <1>8 DEF Unregister
    <3>3. QED
      BY <3>1, <3>2, DropType
  <2>4. /\ channel' \in [Calls -> Calls \cup {"none"}]
        /\ held' = Free \/ held' \in [call : Calls, body : Calls]
    BY <1>8 DEF Unregister, CloseChannel
  <2>5. QED
    BY <1>8, <2>1, <2>2, <2>3, <2>4 DEF Unregister, MapOf
<1>9. QED
  BY <1>1, <1>2, <1>3, <1>4, <1>5, <1>6, <1>7, <1>8 DEF CallStep

(***************************************************************************)
(* The other steps: dispatcher, restart, server and transport.             *)
(***************************************************************************)
OtherStep ==
  \/ \E r \in responses : Take(r) \/ LoseResponse(r)
  \/ \E q \in requests : HandleRequest(q) \/ LoseRequest(q)
  \/ \E w \in workers : WorkerStep(w)
  \/ HandOver \/ RestartClient \/ StopServer \/ RestartServer

\* They keep the types.
LEMMA OtherType ==
  ASSUME TypeOK, CallsNumbered, OtherStep
  PROVE  TypeOK'
<1> USE DEF TypeOK, clientVars, serverVars
<1>1. ASSUME NEW r \in responses, Take(r) PROVE TypeOK'
  <2>1. MapOf(waiters', 1 .. next_id - 1, Calls)
    <3>1. MapOf(waiters, 1 .. next_id - 1, Calls)
      BY DEF MapOf
    <3>2. waiters' = Drop(waiters, {r.rpc_id})
      BY <1>1 DEF Take
    <3>3. QED
      BY <3>1, <3>2, DropType
  <2>2. held' = Free \/ held' \in [call : Calls, body : Calls]
    BY <1>1 DEF Take, ResponseFrame
  <2>3. QED
    BY <1>1, <2>1, <2>2 DEF Take, MapOf
<1>2. ASSUME NEW r \in responses, LoseResponse(r) PROVE TypeOK'
  BY <1>2 DEF LoseResponse
<1>3. ASSUME NEW q \in requests, HandleRequest(q) PROVE TypeOK'
  <2>1. q.rpc_id \in Nat /\ q.call \in Calls /\ q.attempt \in Nat \ {0}
    BY DEF RequestFrame
  <2>2. Worker(q) \in WorkerState
    BY <2>1 DEF Worker, WorkerState
  <2>3. CASE q.rpc_id \notin DOMAIN dedup
    <3>1. MapOf(dedup', Nat, Calls \cup {"computing"})
      <4>1. MapOf(dedup, Nat, Calls \cup {"computing"})
        BY DEF MapOf
      <4>2. dedup' = Put(dedup, q.rpc_id, "computing")
        BY <1>3, <2>3 DEF HandleRequest
      <4>3. QED
        BY <2>1, <4>1, <4>2, PutType
    <3>2. QED
      BY <1>3, <2>2, <2>3, <3>1 DEF HandleRequest, MapOf
  <2>4. CASE q.rpc_id \in DOMAIN dedup
    <3>1. dedup[q.rpc_id] # "computing" => Response(q, dedup[q.rpc_id]) \in ResponseFrame
      BY <2>1, <2>4 DEF Response, ResponseFrame
    <3>2. QED
      BY <1>3, <2>1, <2>4, <3>1 DEF HandleRequest
  <2>5. QED
    BY <2>3, <2>4
<1>4. ASSUME NEW q \in requests, LoseRequest(q) PROVE TypeOK'
  BY <1>4 DEF LoseRequest
<1>5. ASSUME NEW w \in workers, WorkerStep(w) PROVE TypeOK'
  <2>1. w \in WorkerState
    OBVIOUS
  <2>2. CASE RunHandler(w)
    BY <2>1, <2>2 DEF RunHandler, WorkerState
  <2>3. CASE Panic(w)
    BY <2>1, <2>3 DEF Panic, WorkerState
  <2>4. CASE Respond(w)
    <3>1. Response(w, w.call) \in ResponseFrame
      BY <2>1 DEF Response, ResponseFrame, WorkerState
    <3>2. QED
      BY <2>1, <2>4, <3>1 DEF Respond, WorkerState
  <2>5. CASE StoreResponse(w)
    <3>1. MapOf(dedup', Nat, Calls \cup {"computing"})
      <4>1. MapOf(dedup, Nat, Calls \cup {"computing"})
        BY DEF MapOf
      <4>2. dedup' = Put(dedup, w.rpc_id, w.call)
        BY <2>5 DEF StoreResponse
      <4>3. QED
        BY <2>1, <4>1, <4>2, PutType DEF WorkerState
    <3>2. QED
      BY <2>5, <3>1 DEF StoreResponse, MapOf
  <2>6. QED
    BY <1>5, <2>2, <2>3, <2>4, <2>5 DEF WorkerStep
<1>6. CASE HandOver
  BY <1>6 DEF HandOver
<1>7. CASE RestartClient
  <2>1. call' \in [Calls -> CallState]
    BY <1>7 DEF RestartClient, CallState
  <2>2. DOMAIN waiters' = {}
    BY <1>7 DEF RestartClient, EmptyMap
  <2>3. QED
    BY <1>7, <2>1, <2>2 DEF RestartClient
<1>8. CASE StopServer
  BY <1>8 DEF StopServer
<1>9. CASE RestartServer
  <2>1. Copies \subseteq RequestFrame
    BY DEF Copies, CallsNumbered, Active, Request, RequestFrame, CallState
  <2>2. requests' \subseteq RequestFrame
    BY <1>9, <2>1 DEF RestartServer
  <2>3. DOMAIN dedup' = {}
    BY <1>9 DEF RestartServer, EmptyMap
  <2>4. runs' \in [Calls -> Nat] /\ servers' \in Nat \ {0}
    BY <1>9 DEF RestartServer
  <2>5. QED
    BY <1>9, <2>2, <2>3, <2>4 DEF RestartServer
<1>10. QED
  BY <1>1, <1>2, <1>3, <1>4, <1>5, <1>6, <1>7, <1>8, <1>9 DEF OtherStep

\* They leave the calls alone, or kill all that are under way.
LEMMA OtherNumbered ==
  ASSUME TypeOK, CallsNumbered, OtherStep
  PROVE  CallsNumbered'
<1>1. CASE RestartClient
  <2>1. Active' = {}
    BY <1>1 DEF RestartClient, Active, TypeOK, CallState
  <2>2. QED
    BY <2>1 DEF CallsNumbered
<1>2. CASE ~RestartClient
  <2>1. UNCHANGED <<call, next_id>>
    BY <1>2 DEF OtherStep, Take, LoseResponse, HandleRequest, LoseRequest, WorkerStep,
                RunHandler, Panic, Respond, StoreResponse, HandOver, StopServer, RestartServer, clientVars
  <2>2. QED
    BY <2>1 DEF CallsNumbered, Active
<1>3. QED
  BY <1>1, <1>2

\* Next, sorted into the steps of the calls and the others.
LEMMA NextCases == Next => OtherStep \/ \E c \in Calls : Begin(c) \/ CallStep(c)
BY DEF Next, OtherStep

(***************************************************************************)
(* Every variable keeps its type, and the calls under way their numbers.   *)
(***************************************************************************)
THEOREM TypeAndNumbers == Spec => [](TypeOK /\ CallsNumbered)
<1>1. TypeOK /\ CallsNumbered /\ [Next]_vars => TypeOK' /\ CallsNumbered'
  <2> SUFFICES ASSUME TypeOK, CallsNumbered, [Next]_vars PROVE TypeOK' /\ CallsNumbered'
    OBVIOUS
  <2>1. CASE Next
    BY <2>1, NextCases, CallType, CallNumbered, OtherType, OtherNumbered
  <2>2. CASE UNCHANGED vars
    BY <2>2 DEF vars, clientVars, serverVars, TypeOK, CallsNumbered, Active
  <2>3. QED
    BY <2>1, <2>2
<1>2. QED
  BY <1>1, InitType, PTL DEF Spec

\* Every variable keeps its type.
THEOREM RpcTypeCorrect == Spec => []TypeOK
BY TypeAndNumbers, PTL

-----------------------------------------------------------------------------
(***************************************************************************)
(* WaitingIsReachable is inductive: only the dispatcher takes the Sender   *)
(* of a waiting call out of waiters, and it then holds it.                 *)
(***************************************************************************)
Waiting(c) == call[c].pc \in {"send", "sending", "wait"}
Reachable(c) ==
  \/ call[c].rpc_id \in DOMAIN waiters /\ waiters[call[c].rpc_id] = c
  \/ held.call = c
  \/ channel[c] # "none"

\* A step of one call does not touch what another one waits for.
LEMMA OthersStayReachable ==
  ASSUME TypeOK, CallsNumbered, WaitingIsReachable,
         NEW c \in Calls, Begin(c) \/ CallStep(c),
         NEW d \in Calls, d # c, Waiting(d)'
  PROVE  Reachable(d)'
<1> USE DEF Waiting, Reachable, WaitingIsReachable
<1>1. call'[d] = call[d] /\ Reachable(d) /\ d \in Active
  BY DEF TypeOK, Begin, CallStep, Register, SendRequest, Sent, SendTimesOut, Succeed,
         AttemptTimesOut, Unregister, Step, Active
<1>2. channel'[d] = channel[d]
  BY DEF TypeOK, Begin, CallStep, Register, SendRequest, Sent, SendTimesOut, Succeed,
         AttemptTimesOut, Unregister, CloseChannel
<1>3. held.call = d => held' = held
  BY DEF Begin, CallStep, Register, SendRequest, Sent, SendTimesOut, Succeed,
         AttemptTimesOut, Unregister, CloseChannel
<1>4. ASSUME call[d].rpc_id \in DOMAIN waiters, waiters[call[d].rpc_id] = d
      PROVE  call[d].rpc_id \in DOMAIN waiters' /\ waiters'[call[d].rpc_id] = d
  <2>1. CASE Register(c)
    <3>1. call[c].rpc_id # call[d].rpc_id
      BY <1>1, <2>1 DEF Register, Step, Active, CallsNumbered
    <3>2. waiters' = Put(waiters, call[c].rpc_id, c)
      BY <2>1 DEF Register
    <3>3. QED
      BY <1>4, <3>1, <3>2 DEF Put
  <2>2. CASE Unregister(c)
    <3>1. call[c].rpc_id # call[d].rpc_id
      BY <1>1, <2>2 DEF Unregister, Active, CallsNumbered
    <3>2. waiters' = Drop(waiters, {call[c].rpc_id})
      BY <2>2 DEF Unregister
    <3>3. QED
      BY <1>4, <3>1, <3>2 DEF Drop
  <2>3. CASE ~Register(c) /\ ~Unregister(c)
    BY <1>4, <2>3 DEF Begin, CallStep, SendRequest, Sent, SendTimesOut, Succeed, AttemptTimesOut
  <2>4. QED
    BY <2>1, <2>2, <2>3
<1>5. QED
  BY <1>1, <1>2, <1>3, <1>4

\* The call that steps is registered before it sends.
LEMMA StaysReachable ==
  ASSUME TypeOK, WaitingIsReachable,
         NEW c \in Calls, Begin(c) \/ CallStep(c), Waiting(c)'
  PROVE  Reachable(c)'
<1> USE DEF Waiting, Reachable, WaitingIsReachable
<1>1. CASE Register(c)
  <2>1. waiters' = Put(waiters, call[c].rpc_id, c) /\ call'[c].rpc_id = call[c].rpc_id
    BY <1>1 DEF Register, Step, TypeOK
  <2>2. QED
    BY <2>1 DEF Put
<1>2. CASE SendRequest(c) \/ Sent(c)
  BY <1>2 DEF SendRequest, Sent, Step, TypeOK, CallState
<1>3. CASE Begin(c) \/ SendTimesOut(c) \/ Succeed(c) \/ AttemptTimesOut(c) \/ Unregister(c)
  <2>1. call'[c].pc \in {"register", "unregister", "done"}
    BY <1>3 DEF Begin, SendTimesOut, Succeed, AttemptTimesOut, Unregister, Step, TypeOK, CallState
  <2>2. QED
    BY <2>1
<1>4. QED
  BY <1>1, <1>2, <1>3 DEF CallStep

LEMMA OtherReachable ==
  ASSUME TypeOK, WaitingIsReachable, OtherStep
  PROVE  WaitingIsReachable'
<1> SUFFICES ASSUME NEW c \in Calls, Waiting(c)' PROVE Reachable(c)'
  BY DEF Waiting, Reachable, WaitingIsReachable
<1> USE DEF Waiting, Reachable, WaitingIsReachable
<1>1. ASSUME NEW r \in responses, Take(r) PROVE Reachable(c)'
  <2>1. call' = call /\ channel' = channel /\ held = Free /\ held.call # c
    BY <1>1 DEF Take, Free
  <2>2. CASE r.rpc_id = call[c].rpc_id /\ r.rpc_id \in DOMAIN waiters /\ waiters[r.rpc_id] = c
    BY <1>1, <2>1, <2>2 DEF Take, Listening
  <2>3. CASE call[c].rpc_id \in DOMAIN waiters /\ waiters[call[c].rpc_id] = c /\ r.rpc_id # call[c].rpc_id
    BY <1>1, <2>1, <2>3 DEF Take, Drop
  <2>4. QED
    BY <2>1, <2>2, <2>3
<1>2. CASE HandOver
  <2>1. held \in [call : Calls, body : Calls]
    BY <1>2 DEF HandOver, TypeOK
  <2>2. call' = call /\ waiters' = waiters /\ channel' = [channel EXCEPT ![held.call] = held.body]
    BY <1>2 DEF HandOver
  <2>3. held.call = c => channel'[c] # "none"
    BY <2>1, <2>2 DEF TypeOK
  <2>4. channel[c] # "none" => channel'[c] # "none"
    BY <2>1, <2>2 DEF TypeOK
  <2>5. QED
    BY <2>2, <2>3, <2>4
<1>3. CASE RestartClient
  <2>1. call'[c].pc \notin {"send", "sending", "wait"}
    BY <1>3 DEF RestartClient, Active, TypeOK
  <2>2. QED
    BY <2>1
<1>4. CASE UNCHANGED <<call, waiters, held, channel>>
  BY <1>4
<1>5. QED
  BY <1>1, <1>2, <1>3, <1>4 DEF OtherStep, LoseResponse, HandleRequest, LoseRequest, WorkerStep,
       RunHandler, Panic, Respond, StoreResponse, StopServer, RestartServer, clientVars

(***************************************************************************)
(* A call that waits can be reached by its response, whatever the          *)
(* dispatcher, other calls, timeouts and restarts do.                      *)
(***************************************************************************)
THEOREM CallsAreReachable == Spec => []WaitingIsReachable
<1>1. Init => WaitingIsReachable
  BY DEF Init, Idle, WaitingIsReachable
<1>2. TypeOK /\ CallsNumbered /\ WaitingIsReachable /\ [Next]_vars => WaitingIsReachable'
  <2> SUFFICES ASSUME TypeOK, CallsNumbered, WaitingIsReachable, [Next]_vars
               PROVE  WaitingIsReachable'
    OBVIOUS
  <2>1. ASSUME NEW c \in Calls, Begin(c) \/ CallStep(c) PROVE WaitingIsReachable'
    BY <2>1, OthersStayReachable, StaysReachable DEF WaitingIsReachable, Waiting, Reachable
  <2>2. CASE UNCHANGED vars
    BY <2>2 DEF vars, clientVars, WaitingIsReachable
  <2>3. QED
    BY <2>1, <2>2, NextCases, OtherReachable
<1>3. QED
  BY <1>1, <1>2, TypeAndNumbers, PTL DEF Spec

-----------------------------------------------------------------------------
(***************************************************************************)
(* Why a server runs the handler at most once: a request carries the       *)
(* rpc_id of its call for ever, a worker has its placeholder in the map,   *)
(* a handler that has run left its id there, and the map loses nothing as  *)
(* long as its process lives.                                              *)
(***************************************************************************)
Made(c) == c \in Calls /\ call[c].pc # "idle"

RequestsFaithful == \A q \in requests : Made(q.call) /\ q.rpc_id = call[q.call].rpc_id

WorkersFaithful ==
  \A w \in workers :
    /\ Made(w.call) /\ w.rpc_id = call[w.call].rpc_id
    /\ w.rpc_id \in DOMAIN dedup
    /\ w.pc = "run" => runs[w.call] = 0
    /\ \A v \in workers : v.rpc_id = w.rpc_id => v = w

RunsRecorded ==
  \A c \in Calls :
    \/ runs[c] = 0
    \/ runs[c] = 1 /\ Made(c) /\ call[c].rpc_id \in DOMAIN dedup

HandlingInv == RequestsFaithful /\ WorkersFaithful /\ RunsRecorded

\* A step of a call changes no other call, and of its own the id only at first.
LEMMA OneCallSteps ==
  ASSUME TypeOK, NEW c \in Calls, Begin(c) \/ CallStep(c)
  PROVE  /\ \A d \in Calls : d # c => call'[d] = call[d]
         /\ call'[c].pc # "idle"
         /\ CallStep(c) => /\ call'[c].rpc_id = call[c].rpc_id /\ next_id' = next_id
                           /\ call[c].pc # "idle"
<1> USE DEF TypeOK, CallState
<1>1. CASE Begin(c)
  <2>1. ~CallStep(c)
    BY <1>1 DEF Begin, CallStep, Register, SendRequest, Sent, SendTimesOut, Succeed,
       AttemptTimesOut, Unregister, Step
  <2>2. QED
    BY <1>1, <2>1 DEF Begin
<1>2. CASE Unregister(c)
  <2>1. /\ call' = [call EXCEPT ![c] = call'[c]]
        /\ call'[c].rpc_id = call[c].rpc_id /\ call'[c].pc # "idle"
    BY <1>2 DEF Unregister
  <2>2. QED
    BY <1>2, <2>1 DEF Unregister
<1>3. CASE Register(c) \/ SendRequest(c) \/ Sent(c) \/ SendTimesOut(c) \/ Succeed(c) \/ AttemptTimesOut(c)
  BY <1>3 DEF Register, SendRequest, Sent, SendTimesOut, Succeed, AttemptTimesOut, Step
<1>4. QED
  BY <1>1, <1>2, <1>3 DEF CallStep

\* The id of a call never changes once the call is made.
LEMMA IdsStay ==
  ASSUME TypeOK, [Next]_vars, NEW c, Made(c)
  PROVE  Made(c)' /\ call'[c].rpc_id = call[c].rpc_id
<1> USE DEF Made, TypeOK, CallState
<1>1. ASSUME NEW d \in Calls, Begin(d) \/ CallStep(d)
      PROVE  Made(c)' /\ call'[c].rpc_id = call[c].rpc_id
  <2>1. CASE d = c
    BY <1>1, <2>1, OneCallSteps DEF Begin
  <2>2. CASE d # c
    BY <1>1, <2>2, OneCallSteps
  <2>3. QED
    BY <2>1, <2>2
<1>2. CASE RestartClient
  BY <1>2 DEF RestartClient
<1>3. CASE UNCHANGED call
  BY <1>3
<1>4. QED
  BY <1>1, <1>2, <1>3, NextCases DEF OtherStep, Take, HandOver, LoseResponse, HandleRequest,
       LoseRequest, WorkerStep, RunHandler, Panic, Respond, StoreResponse, StopServer, RestartServer,
       clientVars, vars

LEMMA CallHandling ==
  ASSUME TypeOK, HandlingInv, NEW c \in Calls, Begin(c) \/ CallStep(c)
  PROVE  HandlingInv'
<1> USE DEF HandlingInv
<1>1. \A d : Made(d) => Made(d)' /\ call'[d].rpc_id = call[d].rpc_id
  BY IdsStay DEF Next
<1>2. UNCHANGED <<workers, dedup, runs>>
  BY DEF Begin, CallStep, Register, SendRequest, Sent, SendTimesOut, Succeed,
         AttemptTimesOut, Unregister, serverVars
<1>3. RequestsFaithful'
  <2>1. CASE SendRequest(c)
    <3>1. Made(c) /\ Request(c).call = c /\ Request(c).rpc_id = call[c].rpc_id
      BY <2>1 DEF SendRequest, Step, Made, Request
    <3>2. requests' = requests \cup {Request(c)}
      BY <2>1 DEF SendRequest
    <3>3. QED
      BY <1>1, <3>1, <3>2 DEF RequestsFaithful
  <2>2. CASE ~SendRequest(c)
    <3>1. requests' \subseteq requests
      BY <2>2 DEF Begin, CallStep, Register, Sent, SendTimesOut, Succeed,
                  AttemptTimesOut, Unregister
    <3>2. QED
      BY <1>1, <3>1 DEF RequestsFaithful
  <2>3. QED
    BY <2>1, <2>2
<1>4. WorkersFaithful' /\ RunsRecorded'
  BY <1>1, <1>2 DEF WorkersFaithful, RunsRecorded
<1>5. QED
  BY <1>3, <1>4

LEMMA ServerHandling ==
  ASSUME TypeOK, HandlingInv, OtherStep
  PROVE  HandlingInv'
<1> USE DEF HandlingInv
<1>1. \A d : Made(d) => Made(d)' /\ call'[d].rpc_id = call[d].rpc_id
  BY IdsStay DEF Next, OtherStep
<1>2. requests' \subseteq requests \cup Copies
  BY DEF OtherStep, Take, HandOver, RestartClient, LoseResponse, HandleRequest, LoseRequest,
         WorkerStep, RunHandler, Panic, Respond, StoreResponse, StopServer, RestartServer
<1>3. RequestsFaithful'
  <2>1. \A q \in Copies : Made(q.call) /\ q.rpc_id = call[q.call].rpc_id
    BY DEF Copies, Request, Made
  <2>2. QED
    BY <1>1, <1>2, <2>1 DEF RequestsFaithful
<1>4. ASSUME NEW q \in requests, HandleRequest(q), q.rpc_id \notin DOMAIN dedup
      PROVE  WorkersFaithful' /\ RunsRecorded'
  <2>1. /\ call' = call /\ runs' = runs /\ workers' = workers \cup {Worker(q)}
        /\ DOMAIN dedup' = DOMAIN dedup \cup {q.rpc_id}
    BY <1>4 DEF HandleRequest, clientVars, Put
  <2>2. Made(q.call) /\ q.rpc_id = call[q.call].rpc_id /\ runs[q.call] = 0
    BY <1>4 DEF RequestsFaithful, RunsRecorded, Made
  <2>3. Worker(q).call = q.call /\ Worker(q).rpc_id = q.rpc_id
    BY DEF Worker
  <2>4. \A w \in workers : w.rpc_id # q.rpc_id
    BY <1>4 DEF WorkersFaithful
  <2>5. QED
    BY <2>1, <2>2, <2>3, <2>4 DEF WorkersFaithful, RunsRecorded, Made
<1>5. ASSUME NEW w \in workers, RunHandler(w) \/ Panic(w)
      PROVE  WorkersFaithful' /\ RunsRecorded'
  <2>1. /\ call' = call /\ dedup' = dedup
        /\ workers' \subseteq (workers \ {w}) \cup {[w EXCEPT !.pc = "respond"]}
        /\ runs' = [runs EXCEPT ![w.call] = @ + 1]
    BY <1>5 DEF RunHandler, Panic, clientVars
  <2>2. w \in WorkerState /\ w.pc = "run" /\ runs[w.call] = 0 /\ Made(w.call)
    BY <1>5 DEF RunHandler, Panic, WorkersFaithful, TypeOK
  <2>3. runs'[w.call] = 1 /\ \A c \in Calls : c # w.call => runs'[c] = runs[c]
    BY <2>1, <2>2 DEF TypeOK, Made
  <2>4. \A v \in workers : v # w => v.call # w.call
    BY DEF WorkersFaithful
  <2>5. RunsRecorded'
    BY <2>1, <2>2, <2>3 DEF RunsRecorded, WorkersFaithful, Made
  <2>6. ASSUME NEW v \in workers, v # w
        PROVE  /\ Made(v.call)' /\ v.rpc_id = call'[v.call].rpc_id
               /\ v.rpc_id \in DOMAIN dedup' /\ v.rpc_id # w.rpc_id
               /\ v.pc = "run" => runs'[v.call] = 0
    BY <2>1, <2>3, <2>4, <2>6 DEF WorkersFaithful, Made
  <2>7. DEFINE u == [w EXCEPT !.pc = "respond"]
  <2>8. u.rpc_id = w.rpc_id /\ u.call = w.call /\ u.pc # "run"
    BY <2>2 DEF WorkerState
  <2>9. /\ Made(u.call)' /\ u.rpc_id = call'[u.call].rpc_id /\ u.rpc_id \in DOMAIN dedup'
    BY <2>1, <2>8 DEF WorkersFaithful, Made
  <2>10. workers' \subseteq (workers \ {w}) \cup {u}
    BY <2>1
  <2> HIDE DEF u
  <2>11. WorkersFaithful'
    BY <2>6, <2>8, <2>9, <2>10 DEF WorkersFaithful
  <2>12. QED
    BY <2>5, <2>11
<1>6. ASSUME NEW w \in workers, Respond(w) \/ StoreResponse(w)
      PROVE  WorkersFaithful' /\ RunsRecorded'
  <2>1. /\ call' = call /\ runs' = runs
        /\ workers' \subseteq (workers \ {w}) \cup {[w EXCEPT !.pc = "store"]}
        /\ DOMAIN dedup \subseteq DOMAIN dedup'
    BY <1>6 DEF Respond, StoreResponse, clientVars, Put
  <2>2. DEFINE u == [w EXCEPT !.pc = "store"]
  <2>3. u.rpc_id = w.rpc_id /\ u.call = w.call /\ u.pc # "run"
    BY DEF WorkerState, TypeOK
  <2>4. workers' \subseteq (workers \ {w}) \cup {u}
    BY <2>1
  <2> HIDE DEF u
  <2>5. QED
    BY <2>1, <2>3, <2>4 DEF WorkersFaithful, RunsRecorded, Made
<1>7. CASE UNCHANGED <<workers, dedup, runs>>
  <2>1. workers' = workers /\ dedup' = dedup /\ runs' = runs
    BY <1>7
  <2>2. WorkersFaithful'
    BY <1>1, <2>1 DEF WorkersFaithful
  <2>3. RunsRecorded'
    BY <1>1, <2>1 DEF RunsRecorded
  <2>4. QED
    BY <1>3, <2>2, <2>3
<1>8. CASE RestartServer
  <2>1. workers' = {} /\ \A c \in Calls : runs'[c] = 0
    BY <1>8 DEF RestartServer
  <2>2. QED
    BY <1>3, <2>1 DEF WorkersFaithful, RunsRecorded
<1>9. QED
  <2>1. \/ UNCHANGED <<workers, dedup, runs>> \/ RestartServer
        \/ \E q \in requests : HandleRequest(q) /\ q.rpc_id \notin DOMAIN dedup
        \/ \E w \in workers : RunHandler(w) \/ Panic(w) \/ Respond(w) \/ StoreResponse(w)
    BY DEF OtherStep, Take, HandOver, RestartClient, LoseResponse, HandleRequest, LoseRequest,
           WorkerStep, StopServer, RestartServer, serverVars
  <2>2. QED
    BY <1>3, <1>4, <1>5, <1>6, <1>7, <1>8, <2>1

LEMMA HandlingStep ==
  ASSUME TypeOK, HandlingInv, [Next]_vars PROVE HandlingInv'
<1>1. CASE UNCHANGED vars
  BY <1>1 DEF vars, clientVars, serverVars, HandlingInv, RequestsFaithful, WorkersFaithful,
              RunsRecorded, Made
<1>2. QED
  BY <1>1, NextCases, CallHandling, ServerHandling

LEMMA HandlingHolds == Spec => []HandlingInv
<1>1. Init => HandlingInv
  BY DEF Init, HandlingInv, RequestsFaithful, WorkersFaithful, RunsRecorded
<1>2. QED
  BY <1>1, HandlingStep, RpcTypeCorrect, PTL DEF Spec

(***************************************************************************)
(* A server process runs the handler at most once for a call, however      *)
(* often its request is repeated, whether by attempts or after a restart,  *)
(* and however many client processes use the same ids.                     *)
(***************************************************************************)
THEOREM HandledOnce == Spec => []HandledAtMostOnce
<1>1. HandlingInv => HandledAtMostOnce
  BY DEF HandlingInv, RunsRecorded, HandledAtMostOnce
<1>2. QED
  BY <1>1, HandlingHolds, PTL

-----------------------------------------------------------------------------
(***************************************************************************)
(* The calls of the clients before the present one are over, and while the *)
(* first client lives there are none.                                      *)
(***************************************************************************)
FormerInv ==
  /\ \A c \in former : call[c].pc \in {"done", "dead"}
  /\ lives = 1 => former = {}

LEMMA FormerHolds == Spec => []FormerInv
<1>1. Init => FormerInv
  BY DEF Init, FormerInv
<1>2. TypeOK /\ FormerInv /\ [Next]_vars => FormerInv'
  <2> SUFFICES ASSUME TypeOK, FormerInv, [Next]_vars PROVE FormerInv'
    OBVIOUS
  <2>1. ASSUME NEW c \in Calls, Begin(c) \/ CallStep(c) PROVE FormerInv'
    <3>1. former' = former /\ lives' = lives /\ call[c].pc \notin {"done", "dead"}
      BY <2>1 DEF Begin, CallStep, Register, SendRequest, Sent, SendTimesOut, Succeed,
         AttemptTimesOut, Unregister, Step
    <3>2. \A d \in Calls : d # c => call'[d] = call[d]
      BY <2>1 DEF Begin, CallStep, Register, SendRequest, Sent, SendTimesOut, Succeed,
         AttemptTimesOut, Unregister, Step, TypeOK
    <3>3. QED
      BY <3>1, <3>2 DEF FormerInv, TypeOK
  <2>2. CASE RestartClient
    <3>1. lives' # 1 /\ former' = {c \in Calls : call[c].pc # "idle"}
      BY <2>2 DEF RestartClient, TypeOK
    <3>2. \A c \in former' : call'[c].pc \in {"done", "dead"}
      BY <2>2, <3>1 DEF RestartClient, Active, TypeOK, CallState
    <3>3. QED
      BY <3>1, <3>2 DEF FormerInv
  <2>3. CASE UNCHANGED <<call, former, lives>>
    BY <2>3 DEF FormerInv
  <2>4. QED
    BY <2>1, <2>2, <2>3, NextCases DEF OtherStep, Take, HandOver, LoseResponse, HandleRequest,
       LoseRequest, WorkerStep, RunHandler, Panic, Respond, StoreResponse, StopServer,
       RestartServer, clientVars, vars
<1>3. QED
  BY <1>1, <1>2, RpcTypeCorrect, PTL DEF Spec

(***************************************************************************)
(* For one client process an rpc_id names one call.  Every response in the *)
(* server's map, under way, and in the client's hands is the one a handler *)
(* computed for a call that has its id: the call that waits for it, or one *)
(* of a former client.                                                     *)
(***************************************************************************)
Present == {c \in Calls : Made(c) /\ c \notin former}

IdsUnique ==
  \A c \in Present :
    /\ call[c].rpc_id \in 1 .. next_id - 1
    /\ \A d \in Present : call[d].rpc_id = call[c].rpc_id => d = c

Ran(id, c) == Made(c) /\ call[c].rpc_id = id /\ c \in handled

StoredRight == \A id \in DOMAIN dedup : dedup[id] # "computing" => Ran(id, dedup[id])
ResponsesRight == \A r \in responses : Ran(r.rpc_id, r.body)
WorkersRan == \A w \in workers : w.pc # "run" => Ran(w.rpc_id, w.call)
RunsAreHandled == \A c \in Calls : runs[c] # 0 => c \in handled
ServerRight == StoredRight /\ ResponsesRight /\ WorkersRan /\ RunsAreHandled

WaitersOwn == \A id \in DOMAIN waiters : waiters[id] \in Present /\ call[waiters[id]].rpc_id = id
Answer(c, body) == c \in Present /\ body \in handled \cap ({c} \cup former)
HeldRight == held # Free => Answer(held.call, held.body)
ChannelRight == \A c \in Calls : channel[c] # "none" => Answer(c, channel[c])
Unfinished == \A c \in Calls : call[c].pc # "done" => result[c] = "pending"
ClientRight == WaitersOwn /\ HeldRight /\ ChannelRight /\ Unfinished

\* A step of a call makes no call a former one, and Begin(c) makes c present.
LEMMA CallPresent ==
  ASSUME TypeOK, FormerInv, NEW c \in Calls, Begin(c) \/ CallStep(c)
  PROVE  former' = former /\ Present' = Present \cup {c} /\ (CallStep(c) => c \in Present)
<1>1. former' = former /\ call[c].pc \notin {"done", "dead"} /\ (CallStep(c) => call[c].pc # "idle")
  BY DEF Begin, CallStep, Register, SendRequest, Sent, SendTimesOut, Succeed, AttemptTimesOut,
     Unregister, Step
<1>2. /\ call'[c].pc # "idle" /\ c \notin former
      /\ \A d \in Calls : d # c => call'[d] = call[d]
  BY <1>1, OneCallSteps DEF FormerInv
<1>3. QED
  BY <1>1, <1>2 DEF Present, Made

\* Nor do the other steps, unless the client is replaced.
LEMMA OtherPresent ==
  ASSUME OtherStep \/ UNCHANGED vars
  PROVE  \/ UNCHANGED <<call, next_id, former, result>> /\ Present' = Present
         \/ RestartClient
<1>1. UNCHANGED <<call, next_id, former, result>> \/ RestartClient
  BY DEF OtherStep, Take, HandOver, LoseResponse, HandleRequest, LoseRequest, WorkerStep,
     RunHandler, Panic, Respond, StoreResponse, StopServer, RestartServer, clientVars, vars
<1>2. QED
  BY <1>1 DEF Present, Made

\* The present client is new: it has made no call.
LEMMA NewClientHasNone ==
  ASSUME TypeOK, RestartClient PROVE Present' = {}
<1>1. \A c \in Calls : call'[c].pc # "idle" => c \in former'
  BY DEF RestartClient, TypeOK, CallState, Active
<1>2. QED
  BY <1>1 DEF Present, Made

LEMMA IdsStayUnique ==
  ASSUME TypeOK, FormerInv, IdsUnique, [Next]_vars
  PROVE  IdsUnique'
<1>1. ASSUME NEW c \in Calls, Begin(c) PROVE IdsUnique'
  <2>1. /\ Present' = Present \cup {c}
        /\ \A d \in Calls : d # c => call'[d] = call[d]
    BY <1>1, CallPresent, OneCallSteps
  <2>2. c \notin Present /\ next_id' = next_id + 1 /\ call'[c].rpc_id = next_id
    BY <1>1 DEF Begin, TypeOK, Present, Made
  <2>3. QED
    BY <2>1, <2>2 DEF IdsUnique, Present, TypeOK
<1>2. ASSUME NEW c \in Calls, CallStep(c) PROVE IdsUnique'
  <2>1. Present' = Present /\ next_id' = next_id
    BY <1>2, CallPresent, OneCallSteps
  <2>2. \A d \in Present : call'[d].rpc_id = call[d].rpc_id
    BY IdsStay DEF Present
  <2>3. QED
    BY <2>1, <2>2 DEF IdsUnique
<1>3. ASSUME OtherStep \/ UNCHANGED vars PROVE IdsUnique'
  BY <1>3, OtherPresent, NewClientHasNone DEF IdsUnique
<1>4. QED
  BY <1>1, <1>2, <1>3, NextCases

\* handled only grows, by the calls for which a handler runs.
LEMMA HandledGrows ==
  ASSUME [Next]_vars
  PROVE  \/ handled' = handled /\ (runs' = runs \/ RestartServer)
         \/ \E w \in workers : (RunHandler(w) \/ Panic(w)) /\ handled' = handled \cup {w.call}
BY NextCases DEF OtherStep, Take, HandOver, RestartClient, LoseResponse, HandleRequest,
   LoseRequest, WorkerStep, RunHandler, Panic, Respond, StoreResponse, StopServer, RestartServer,
   serverVars, vars, Begin, CallStep, Register, SendRequest, Sent, SendTimesOut, Succeed,
   AttemptTimesOut, Unregister

\* That a handler has run for the call with this id stays true.
LEMMA RanStays ==
  ASSUME TypeOK, [Next]_vars, NEW id, NEW c, Ran(id, c)
  PROVE  Ran(id, c)'
<1>1. Made(c)' /\ call'[c].rpc_id = id
  BY IdsStay DEF Ran
<1>2. QED
  BY <1>1, HandledGrows DEF Ran

LEMMA RunsStayHandled ==
  ASSUME TypeOK, RunsAreHandled, [Next]_vars
  PROVE  RunsAreHandled'
<1>1. ASSUME NEW w \in workers, RunHandler(w) \/ Panic(w) PROVE RunsAreHandled'
  BY <1>1 DEF RunHandler, Panic, RunsAreHandled, TypeOK
<1>2. CASE RestartServer
  BY <1>2 DEF RestartServer, RunsAreHandled
<1>3. CASE handled' = handled /\ runs' = runs
  BY <1>3 DEF RunsAreHandled
<1>4. QED
  BY <1>1, <1>2, <1>3, HandledGrows

\* What the server stores and sends stays right.
LEMMA ServerStaysRight ==
  ASSUME TypeOK, HandlingInv, ServerRight, [Next]_vars
  PROVE  ServerRight'
<1> USE DEF ServerRight
<1>1. RunsAreHandled' /\ \A id, c : Ran(id, c) => Ran(id, c)'
  BY RanStays, RunsStayHandled
<1>2. ASSUME UNCHANGED <<dedup, workers>>, responses' \subseteq responses PROVE ServerRight'
  BY <1>1, <1>2 DEF StoredRight, ResponsesRight, WorkersRan
<1>3. ASSUME NEW q \in requests, HandleRequest(q) PROVE ServerRight'
  <2>1. CASE q.rpc_id \notin DOMAIN dedup
    <3>1. /\ responses' = responses /\ workers' = workers \cup {Worker(q)}
          /\ dedup' = Put(dedup, q.rpc_id, "computing")
      BY <1>3, <2>1 DEF HandleRequest
    <3>2. Worker(q).pc = "run"
      BY DEF Worker
    <3>3. StoredRight'
      BY <1>1, <3>1 DEF StoredRight, Put
    <3>4. QED
      BY <1>1, <3>1, <3>2, <3>3 DEF ResponsesRight, WorkersRan
  <2>2. CASE q.rpc_id \in DOMAIN dedup /\ dedup[q.rpc_id] = "computing"
    BY <1>2, <1>3, <2>2 DEF HandleRequest
  <2>3. CASE q.rpc_id \in DOMAIN dedup /\ dedup[q.rpc_id] # "computing"
    <3>1. /\ responses' = responses \cup {Response(q, dedup[q.rpc_id])}
          /\ workers' = workers /\ dedup' = dedup
      BY <1>3, <2>3 DEF HandleRequest
    <3>2. LET r == Response(q, dedup[q.rpc_id]) IN Ran(r.rpc_id, r.body)
      BY <2>3 DEF StoredRight, Response
    <3>3. QED
      BY <1>1, <3>1, <3>2 DEF StoredRight, ResponsesRight, WorkersRan
  <2>4. QED
    BY <2>1, <2>2, <2>3
<1>4. ASSUME NEW w \in workers, WorkerStep(w) PROVE ServerRight'
  <2>1. w.call \in Calls /\ Made(w.call) /\ w.rpc_id = call[w.call].rpc_id
    BY DEF HandlingInv, WorkersFaithful, TypeOK, WorkerState
  <2>2. CASE RunHandler(w) \/ Panic(w)
    <3>1. /\ call' = call /\ dedup' = dedup /\ responses' = responses
          /\ workers' \subseteq (workers \ {w}) \cup {[w EXCEPT !.pc = "respond"]}
          /\ handled' = handled \cup {w.call}
      BY <2>2 DEF RunHandler, Panic, clientVars
    <3>3. Ran(w.rpc_id, w.call)'
      BY <2>1, <3>1 DEF Ran, Made
    <3>4. LET u == [w EXCEPT !.pc = "respond"] IN u.call = w.call /\ u.rpc_id = w.rpc_id
      BY DEF TypeOK, WorkerState
    <3>5. WorkersRan'
      BY <1>1, <3>1, <3>3, <3>4 DEF WorkersRan
    <3>6. QED
      BY <1>1, <3>1, <3>5 DEF StoredRight, ResponsesRight
  <2>3. CASE Respond(w)
    <3>1. /\ dedup' = dedup /\ responses' = responses \cup {Response(w, w.call)}
          /\ workers' = (workers \ {w}) \cup {[w EXCEPT !.pc = "store"]}
      BY <2>3 DEF Respond
    <3>2. Ran(w.rpc_id, w.call)
      BY <2>3 DEF Respond, WorkersRan
    <3>3. LET r == Response(w, w.call) IN r.rpc_id = w.rpc_id /\ r.body = w.call
      BY DEF Response
    <3>4. LET u == [w EXCEPT !.pc = "store"] IN u.call = w.call /\ u.rpc_id = w.rpc_id
      BY DEF TypeOK, WorkerState
    <3>5. WorkersRan'
      BY <1>1, <3>1, <3>2, <3>4 DEF WorkersRan
    <3>6. ResponsesRight'
      BY <1>1, <3>1, <3>2, <3>3 DEF ResponsesRight
    <3>7. QED
      BY <1>1, <3>1, <3>5, <3>6 DEF StoredRight
  <2>4. CASE StoreResponse(w)
    <3>1. /\ dedup' = Put(dedup, w.rpc_id, w.call) /\ responses' = responses
          /\ workers' = workers \ {w}
      BY <2>4 DEF StoreResponse
    <3>2. Ran(w.rpc_id, w.call)
      BY <2>4 DEF StoreResponse, WorkersRan
    <3>3. StoredRight'
      BY <1>1, <3>1, <3>2 DEF StoredRight, Put
    <3>4. QED
      BY <1>1, <3>1, <3>3 DEF ResponsesRight, WorkersRan
  <2>5. QED
    BY <1>4, <2>2, <2>3, <2>4 DEF WorkerStep
<1>5. CASE RestartServer
  <2>1. DOMAIN dedup' = {} /\ workers' = {} /\ responses' = responses
    BY <1>5 DEF RestartServer, EmptyMap
  <2>2. QED
    BY <1>1, <2>1 DEF StoredRight, ResponsesRight, WorkersRan
<1>6. QED
  BY <1>2, <1>3, <1>4, <1>5, NextCases DEF OtherStep, Take, HandOver, RestartClient, LoseResponse,
     LoseRequest, StopServer, serverVars, vars, Begin, CallStep, Register, SendRequest, Sent,
     SendTimesOut, Succeed, AttemptTimesOut, Unregister

\* What the client holds for a call stays an answer to it: calls.
LEMMA CallStaysRight ==
  ASSUME TypeOK, FormerInv, ClientRight, NEW c \in Calls, Begin(c) \/ CallStep(c)
  PROVE  ClientRight'
<1> USE DEF ClientRight
<1>1. \A d : Made(d) => Made(d)' /\ call'[d].rpc_id = call[d].rpc_id
  BY IdsStay DEF Next
<1>2. /\ handled' = handled /\ former' = former /\ Present \subseteq Present'
      /\ \A d \in Calls : d # c => call'[d] = call[d]
  <2>1. handled' = handled
    BY DEF Begin, CallStep, Register, SendRequest, Sent, SendTimesOut, Succeed, AttemptTimesOut,
           Unregister, serverVars
  <2>2. QED
    BY <2>1, CallPresent, OneCallSteps
<1>3. \A d, body : Answer(d, body) => Answer(d, body)'
  BY <1>2 DEF Answer
<1>4. held' = held \/ held' = Free
  BY DEF Begin, CallStep, Register, SendRequest, Sent, SendTimesOut, Succeed, AttemptTimesOut,
         Unregister, CloseChannel
<1>5. \A d \in Calls : channel'[d] = channel[d] \/ channel'[d] = "none"
  BY DEF Begin, CallStep, Register, SendRequest, Sent, SendTimesOut, Succeed, AttemptTimesOut,
         Unregister, CloseChannel, TypeOK
<1>6. HeldRight' /\ ChannelRight'
  BY <1>3, <1>4, <1>5 DEF HeldRight, ChannelRight
<1>7. WaitersOwn'
  <2>1. CASE Register(c)
    <3>1. c \in Present /\ waiters' = Put(waiters, call[c].rpc_id, c)
      BY <2>1, CallPresent DEF Register, CallStep
    <3>2. QED
      BY <1>1, <1>2, <3>1 DEF WaitersOwn, Put, Present
  <2>2. CASE Unregister(c)
    <3>1. waiters' = Drop(waiters, {call[c].rpc_id})
      BY <2>2 DEF Unregister
    <3>2. QED
      BY <1>1, <1>2, <3>1 DEF WaitersOwn, Drop, Present
  <2>3. CASE ~Register(c) /\ ~Unregister(c)
    <3>1. waiters' = waiters
      BY <2>3 DEF Begin, CallStep, SendRequest, Sent, SendTimesOut, Succeed, AttemptTimesOut
    <3>2. QED
      BY <1>1, <1>2, <3>1 DEF WaitersOwn, Present
  <2>4. QED
    BY <2>1, <2>2, <2>3
<1>8. Unfinished'
  <2>1. ASSUME NEW d \in Calls, d # c, call'[d].pc # "done" PROVE result'[d] = "pending"
    BY <1>2, <2>1 DEF Unfinished, Begin, CallStep, Register, SendRequest, Sent, SendTimesOut,
       Succeed, AttemptTimesOut, Unregister, TypeOK
  <2>2. ASSUME call'[c].pc # "done" PROVE result'[c] = "pending"
    <3>1. call[c].pc # "done" /\ ~Succeed(c) /\ ~SendTimesOut(c)
      BY <2>2 DEF Begin, CallStep, Register, SendRequest, Sent, SendTimesOut, Succeed,
         AttemptTimesOut, Unregister, Step, TypeOK, CallState
    <3>2. result' = result
      BY <2>2, <3>1 DEF Begin, CallStep, Register, SendRequest, Sent, AttemptTimesOut,
         Unregister, TypeOK, CallState
    <3>3. QED
      BY <3>1, <3>2 DEF Unfinished
  <2>3. QED
    BY <2>1, <2>2 DEF Unfinished
<1>9. QED
  BY <1>6, <1>7, <1>8

\* And the others: the dispatcher finds the waiter of the present call.
LEMMA DispatchStaysRight ==
  ASSUME TypeOK, FormerInv, IdsUnique, ServerRight, ClientRight, OtherStep \/ UNCHANGED vars
  PROVE  ClientRight'
<1> USE DEF ClientRight
<1>1. CASE RestartClient
  <2>1. /\ DOMAIN waiters' = {} /\ held' = Free /\ \A c \in Calls : channel'[c] = "none"
        /\ result' = result /\ \A c \in Calls : call'[c].pc = "done" <=> call[c].pc = "done"
    BY <1>1 DEF RestartClient, EmptyMap, TypeOK, CallState, Active
  <2>2. QED
    BY <2>1 DEF WaitersOwn, HeldRight, ChannelRight, Unfinished
<1>2. CASE UNCHANGED <<call, next_id, former, result>> /\ Present' = Present
  <2>1. call' = call /\ result' = result /\ former' = former /\ Present' = Present
    BY <1>2
  <2>2. handled \subseteq handled'
    BY HandledGrows DEF Next, OtherStep
  <2>3. \A d, body : Answer(d, body) => Answer(d, body)'
    BY <2>1, <2>2 DEF Answer
  <2>4. Unfinished'
    BY <2>1 DEF Unfinished
  <2>5. ASSUME NEW r \in responses, Take(r) PROVE ClientRight'
    <3>1. channel' = channel /\ waiters' = Drop(waiters, {r.rpc_id})
      BY <2>5 DEF Take
    <3>2. WaitersOwn' /\ ChannelRight'
      BY <2>1, <2>3, <3>1 DEF WaitersOwn, ChannelRight, Drop
    <3>3. CASE r.rpc_id \in DOMAIN waiters /\ waiters[r.rpc_id] \in Listening
      <4>1. waiters[r.rpc_id] \in Present /\ call[waiters[r.rpc_id]].rpc_id = r.rpc_id
        BY <3>3 DEF WaitersOwn
      <4>2. Made(r.body) /\ call[r.body].rpc_id = r.rpc_id /\ r.body \in handled
        BY DEF ServerRight, ResponsesRight, Ran
      <4>3. r.body = waiters[r.rpc_id] \/ r.body \in former
        BY <4>1, <4>2 DEF IdsUnique, Present, Made
      <4>4. Answer(waiters[r.rpc_id], r.body)
        BY <4>1, <4>2, <4>3 DEF Answer
      <4>5. held' = [call |-> waiters[r.rpc_id], body |-> r.body]
        BY <2>5, <3>3 DEF Take
      <4>6. QED
        BY <2>3, <2>4, <3>2, <4>4, <4>5 DEF HeldRight
    <3>4. CASE ~(r.rpc_id \in DOMAIN waiters /\ waiters[r.rpc_id] \in Listening)
      BY <2>4, <2>5, <3>2, <3>4 DEF Take, HeldRight
    <3>5. QED
      BY <3>3, <3>4
  <2>6. CASE HandOver
    <3>1. /\ Answer(held.call, held.body) /\ held' = Free /\ waiters' = waiters
          /\ channel' = [channel EXCEPT ![held.call] = held.body]
      BY <2>6 DEF HandOver, HeldRight
    <3>2. ChannelRight'
      BY <2>3, <3>1 DEF ChannelRight, TypeOK
    <3>3. QED
      BY <2>1, <2>4, <3>1, <3>2 DEF HeldRight, WaitersOwn
  <2>7. CASE UNCHANGED <<held, waiters, channel>>
    BY <2>1, <2>3, <2>4, <2>7 DEF HeldRight, WaitersOwn, ChannelRight
  <2>8. QED
    BY <1>1, <2>5, <2>6, <2>7 DEF OtherStep, LoseResponse, HandleRequest, LoseRequest, WorkerStep,
       RunHandler, Panic, Respond, StoreResponse, StopServer, RestartServer, clientVars, vars
<1>3. QED
  BY <1>1, <1>2, OtherPresent

(***************************************************************************)
(* Every step of the RPC layer is a step of the service or changes nothing *)
(* of it.                                                                  *)
(***************************************************************************)
Made0 == {c \in Calls : call[c].pc # "idle"}

LEMMA StepRefines ==
  ASSUME TypeOK, HandlingInv, FormerInv, ClientRight, [Next]_vars
  PROVE  [Service!Next]_<<Made0, former, runs, handled, result>>
<1> DEFINE called == Made0
<1> SUFFICES Service!Next \/ UNCHANGED <<called, former, runs, handled, result>>
  OBVIOUS
<1> USE DEF TypeOK, CallState, Made0
<1>1. ASSUME NEW c \in Calls, Begin(c) PROVE Service!Call(c)
  <2>1. c \notin called /\ called' = called \cup {c}
    BY <1>1 DEF Begin
  <2>2. QED
    BY <1>1, <2>1 DEF Begin, Service!Call, serverVars
<1>2. ASSUME NEW c \in Calls, CallStep(c)
      PROVE  \/ Service!Succeed(c) \/ Service!Fail(c)
             \/ UNCHANGED <<called, former, runs, handled, result>>
  <2>1. c \in called \ former /\ call[c].pc # "done"
    BY <1>2, CallPresent DEF CallStep, Register, SendRequest, Sent, SendTimesOut, Succeed,
       AttemptTimesOut, Unregister, Step, Present, Made
  <2>2. runs' = runs /\ handled' = handled /\ former' = former
    BY <1>2 DEF CallStep, Register, SendRequest, Sent, SendTimesOut, Succeed,
       AttemptTimesOut, Unregister, serverVars
  <2>3. called' = called
    <3>1. call'[c].pc # "idle" /\ \A d \in Calls : d # c => call'[d] = call[d]
      BY <1>2 DEF CallStep, Register, SendRequest, Sent, SendTimesOut, Succeed,
         AttemptTimesOut, Unregister, Step
    <3>2. QED
      BY <2>1, <3>1
  <2>4. result[c] = "pending"
    BY <2>1 DEF ClientRight, Unfinished
  <2>5. CASE Succeed(c)
    <3>1. /\ channel[c] \in handled \cap ({c} \cup former)
          /\ result' = [result EXCEPT ![c] = channel[c]]
      BY <2>5 DEF Succeed, ClientRight, ChannelRight, Answer
    <3>2. QED
      BY <2>1, <2>2, <2>3, <2>4, <3>1 DEF Service!Succeed
  <2>6. CASE SendTimesOut(c) \/ Unregister(c)
    <3>1. result' = result \/ result' = [result EXCEPT ![c] = "timedOut"]
      BY <2>6 DEF SendTimesOut, Unregister
    <3>2. QED
      BY <2>1, <2>2, <2>3, <2>4, <3>1 DEF Service!Fail
  <2>7. CASE Register(c) \/ SendRequest(c) \/ Sent(c) \/ AttemptTimesOut(c)
    <3>1. result' = result
      BY <2>7 DEF Register, SendRequest, Sent, AttemptTimesOut
    <3>2. QED
      BY <2>2, <2>3, <3>1
  <2>8. QED
    BY <1>2, <2>5, <2>6, <2>7 DEF CallStep
<1>3. ASSUME NEW w \in workers, RunHandler(w) \/ Panic(w)
      PROVE  w.call \in Calls /\ Service!Run(w.call)
  <2>1. w.call \in called /\ runs[w.call] = 0
    BY <1>3 DEF RunHandler, Panic, HandlingInv, WorkersFaithful, Made
  <2>2. /\ call' = call /\ former' = former /\ result' = result
        /\ runs' = [runs EXCEPT ![w.call] = 1] /\ handled' = handled \cup {w.call}
    BY <1>3, <2>1 DEF RunHandler, Panic, clientVars
  <2>3. QED
    BY <2>1, <2>2 DEF Service!Run
<1>4. CASE UNCHANGED <<call, former, runs, handled, result>>
  BY <1>4
<1>5. ASSUME RestartServer PROVE Service!NewServer
  <2>1. call' = call /\ former' = former /\ result' = result /\ handled' = handled
    BY <1>5 DEF RestartServer, clientVars
  <2>2. called' = called /\ runs' = [c \in Calls |-> 0]
    BY <1>5, <2>1 DEF RestartServer
  <2>3. QED
    BY <2>1, <2>2 DEF Service!NewServer
<1>6. ASSUME RestartClient PROVE Service!NewClient
  <2>1. called' = called /\ former' = called
    BY <1>6 DEF RestartClient, Active
  <2>2. runs' = runs /\ handled' = handled /\ result' = result
    BY <1>6 DEF RestartClient, serverVars
  <2>3. QED
    BY <2>1, <2>2 DEF Service!NewClient
<1>7. QED
  <2>1. \/ UNCHANGED <<call, former, runs, handled, result>>
        \/ \E w \in workers : RunHandler(w) \/ Panic(w)
        \/ \E c \in Calls : Begin(c) \/ CallStep(c)
        \/ RestartServer \/ RestartClient
    BY NextCases DEF OtherStep, Take, HandOver, LoseResponse, HandleRequest, LoseRequest,
       WorkerStep, Respond, StoreResponse, StopServer, clientVars, serverVars, vars
  <2>2. QED
    BY <1>1, <1>2, <1>3, <1>4, <1>5, <1>6, <2>1 DEF Service!Next

RightInv == IdsUnique /\ ServerRight /\ ClientRight

LEMMA RightHolds == Spec => []RightInv
<1>1. Init => RightInv
  <2> SUFFICES ASSUME Init PROVE RightInv
    OBVIOUS
  <2>1. DOMAIN waiters = {} /\ DOMAIN dedup = {}
    BY DEF Init, EmptyMap
  <2>2. \A c \in Calls : ~Made(c)
    BY DEF Init, Idle, Made
  <2>3. IdsUnique /\ RunsAreHandled
    BY <2>2 DEF Init, IdsUnique, RunsAreHandled, Present
  <2>4. QED
    BY <2>1, <2>2, <2>3 DEF Init, RightInv, ServerRight, StoredRight, ResponsesRight,
       WorkersRan, ClientRight, WaitersOwn, HeldRight, ChannelRight, Unfinished
<1>2. TypeOK /\ HandlingInv /\ FormerInv /\ RightInv /\ [Next]_vars => RightInv'
  BY NextCases, IdsStayUnique, ServerStaysRight, CallStaysRight, DispatchStaysRight DEF RightInv
<1>3. QED
  BY <1>1, <1>2, RpcTypeCorrect, HandlingHolds, FormerHolds, PTL DEF Spec

(***************************************************************************)
(* The RPC layer implements RpcService, as far as the transport keeps its  *)
(* frames whole: at most one run of the handler per call and server        *)
(* process, and no call gets the answer of another call of its client,     *)
(* whatever is lost, late, repeated or restarted.                          *)
(***************************************************************************)
THEOREM RpcImplements == Spec => ImplementsRpcService
<1>1. Init => Service!Init
  BY DEF Init, Idle, Service!Init
<1>2. TypeOK /\ HandlingInv /\ FormerInv /\ RightInv /\ [Next]_vars
        => [Service!Next]_<<{c \in Calls : call[c].pc # "idle"}, former, runs, handled, result>>
  BY StepRefines DEF RightInv, Made0
<1>3. QED
  BY <1>1, <1>2, RpcTypeCorrect, HandlingHolds, FormerHolds, RightHolds, PTL
     DEF Spec, ImplementsRpcService, Service!Spec

-----------------------------------------------------------------------------
(***************************************************************************)
(* A placeholder in the server's map has its worker, or the handler has    *)
(* panicked.                                                               *)
(***************************************************************************)
Explained(id) ==
  \/ \E w \in workers : w.rpc_id = id
  \/ \E c \in Calls : Panicked(c) /\ call[c].rpc_id = id

LEMMA PanickedStays ==
  ASSUME TypeOK, HandlingInv, [Next]_vars, ~RestartServer,
         NEW id, NEW c \in Calls, Panicked(c), call[c].rpc_id = id
  PROVE  Explained(id)'
<1>1. Made(c) /\ runs[c] = 1
  BY DEF Panicked, HandlingInv, RunsRecorded
<1>2. Made(c)' /\ call'[c].rpc_id = id
  BY <1>1, IdsStay
<1>3. ASSUME NEW w \in workers, RunHandler(w) \/ Panic(w) PROVE runs'[c] = 1
  <2>1. w.call # c
    BY <1>1, <1>3 DEF RunHandler, Panic, HandlingInv, WorkersFaithful
  <2>2. QED
    BY <1>1, <1>3, <2>1 DEF RunHandler, Panic, TypeOK
<1>4. runs'[c] = 1
  BY <1>1, <1>3, HandledGrows
<1>5. QED
  BY <1>2, <1>4 DEF Made, Panicked, Explained

\* The worker of a placeholder is there until it stores or panics.
LEMMA WorkerExplains ==
  ASSUME TypeOK, HandlingInv, [Next]_vars,
         NEW w \in workers, w.rpc_id \in DOMAIN dedup', dedup'[w.rpc_id] = "computing"
  PROVE  Explained(w.rpc_id)'
<1>1. w \in WorkerState /\ w.call \in Calls /\ w.rpc_id = call[w.call].rpc_id
  BY DEF TypeOK, WorkerState, HandlingInv, WorkersFaithful
<1>2. CASE RunHandler(w) \/ Respond(w)
  <2>1. \/ [w EXCEPT !.pc = "respond"] \in workers'
        \/ [w EXCEPT !.pc = "store"] \in workers'
    BY <1>2 DEF RunHandler, Respond
  <2>2. /\ [w EXCEPT !.pc = "respond"].rpc_id = w.rpc_id
        /\ [w EXCEPT !.pc = "store"].rpc_id = w.rpc_id
    BY <1>1 DEF WorkerState
  <2>3. QED
    BY <2>1, <2>2 DEF Explained
<1>3. CASE Panic(w)
  <2>1. runs[w.call] = 0
    BY <1>3 DEF Panic, HandlingInv, WorkersFaithful
  <2>2. Panicked(w.call)' /\ call' = call
    BY <1>1, <1>3, <2>1 DEF Panic, Panicked, TypeOK, clientVars
  <2>3. QED
    BY <1>1, <2>2 DEF Explained
<1>4. CASE StoreResponse(w)
  BY <1>1, <1>4 DEF StoreResponse, Put
<1>5. CASE w \in workers'
  BY <1>5 DEF Explained
<1>6. w \notin workers' => WorkerStep(w) \/ RestartServer
  BY NextCases DEF OtherStep, WorkerStep, RunHandler, Panic, Respond, StoreResponse, Take,
     HandOver, RestartClient, LoseResponse, HandleRequest, LoseRequest, StopServer, RestartServer, serverVars,
     vars, Begin, CallStep, Register, SendRequest, Sent, SendTimesOut, Succeed,
     AttemptTimesOut, Unregister
<1>7. ~RestartServer
  BY DEF RestartServer, EmptyMap
<1>8. QED
  BY <1>2, <1>3, <1>4, <1>5, <1>6, <1>7 DEF WorkerStep

\* A new placeholder comes with a worker.
LEMMA NewPlaceholder ==
  ASSUME TypeOK, [Next]_vars, NEW id \in DOMAIN dedup', dedup'[id] = "computing",
         ~(id \in DOMAIN dedup /\ dedup[id] = "computing")
  PROVE  Explained(id)'
<1>1. ASSUME NEW w \in workers, StoreResponse(w) PROVE FALSE
  <2>1. dedup' = Put(dedup, w.rpc_id, w.call) /\ w.call # "computing"
    BY <1>1 DEF StoreResponse, TypeOK, WorkerState
  <2>2. QED
    BY <2>1 DEF Put
<1>2. ASSUME NEW q \in requests, HandleRequest(q) PROVE Explained(id)'
  <2>1. dedup' = Put(dedup, q.rpc_id, "computing") /\ Worker(q) \in workers'
    BY <1>2 DEF HandleRequest
  <2>2. id = q.rpc_id
    BY <2>1 DEF Put
  <2>3. Worker(q).rpc_id = q.rpc_id
    BY DEF Worker
  <2>4. QED
    BY <2>1, <2>2, <2>3 DEF Explained
<1>3. ~RestartServer
  BY DEF RestartServer, EmptyMap
<1>4. QED
  BY <1>1, <1>2, <1>3, NextCases DEF OtherStep, WorkerStep, RunHandler, Panic, Respond, Take,
     HandOver, RestartClient, LoseResponse, LoseRequest, StopServer, RestartServer, serverVars,
     vars, Begin, CallStep, Register, SendRequest, Sent, SendTimesOut, Succeed,
     AttemptTimesOut, Unregister

(***************************************************************************)
(* An entry of the server's map that says "being computed" has a worker    *)
(* that will store the response, unless the handler of its call panicked:  *)
(* with any number of calls, clients in turn, and lost messages.           *)
(***************************************************************************)
THEOREM PlaceholdersAreComputing == Spec => []PlaceholderIsComputing
<1>1. Init => PlaceholderIsComputing
  BY DEF Init, EmptyMap, PlaceholderIsComputing
<1>2. TypeOK /\ HandlingInv /\ PlaceholderIsComputing /\ [Next]_vars => PlaceholderIsComputing'
  <2> SUFFICES ASSUME TypeOK, HandlingInv, PlaceholderIsComputing, [Next]_vars,
                      NEW id \in DOMAIN dedup', dedup'[id] = "computing"
               PROVE  Explained(id)'
    BY DEF PlaceholderIsComputing, Explained
  <2>0. ~RestartServer
    BY DEF RestartServer, EmptyMap
  <2>1. CASE id \in DOMAIN dedup /\ dedup[id] = "computing"
    BY <2>0, <2>1, WorkerExplains, PanickedStays DEF PlaceholderIsComputing
  <2>2. QED
    BY <2>1, NewPlaceholder
<1>3. QED
  BY <1>1, <1>2, RpcTypeCorrect, HandlingHolds, PTL DEF Spec

-----------------------------------------------------------------------------
(***************************************************************************)
(* Why an attempt starves in one case only: from the moment its request is *)
(* sent, an answer is under way or the request was dropped too late.       *)
(* While the first client and the first server live nobody else has the id *)
(* of the call, so that what is lost, taken or stored under it is its own. *)
(***************************************************************************)
Careful == Calls \ (Lossy \cup Panicking)
Asked(c) == call[c].pc \in {"sending", "wait"}
Served(c) == AnswerComing(c) \/ <<c, call[c].attempt>> \in late
FirstOnes == lives = 1 /\ servers = 1
ServedInv == FirstOnes => \A c \in Careful : Asked(c) => Served(c)

\* What a step leaves in place goes on serving the call.
LEMMA StillServed ==
  ASSUME NEW c \in Calls, Served(c), call'[c] = call[c], late \subseteq late',
         channel[c] # "none" => channel'[c] # "none",
         held.call = c => held'.call = c \/ channel'[c] # "none",
         \A r \in responses : r.rpc_id = call[c].rpc_id => r \in responses' \/ AnswerComing(c)',
         \A w \in workers : w.rpc_id = call[c].rpc_id /\ w.pc # "store"
                            => w \in workers' \/ AnswerComing(c)',
         Request(c) \in requests => Request(c) \in requests' \/ Served(c)'
  PROVE  Served(c)'
<1>1. Request(c)' = Request(c)
  BY DEF Request
<1>2. QED
  BY <1>1 DEF Served, AnswerComing

\* A step of another call takes nothing away from this one.
LEMMA OthersStayServed ==
  ASSUME TypeOK, NEW c \in Calls, Served(c),
         NEW d \in Calls, d # c, Begin(d) \/ CallStep(d)
  PROVE  Served(c)'
<1>1. /\ call'[c] = call[c] /\ channel'[c] = channel[c]
      /\ late' = late /\ responses' = responses /\ workers' = workers
  BY DEF TypeOK, Begin, CallStep, Register, SendRequest, Sent, SendTimesOut, Succeed,
         AttemptTimesOut, Unregister, Step, CloseChannel, serverVars
<1>2. held.call = c => held' = held
  BY DEF Begin, CallStep, Register, SendRequest, Sent, SendTimesOut, Succeed,
         AttemptTimesOut, Unregister, CloseChannel
<1>3. requests \ {Request(d)} \subseteq requests'
  BY DEF Begin, CallStep, Register, SendRequest, Sent, SendTimesOut, Succeed,
         AttemptTimesOut, Unregister
<1>4. Request(d) # Request(c)
  BY DEF Request
<1>5. QED
  BY <1>1, <1>2, <1>3, <1>4, StillServed

\* The call itself: its request is on its way when it begins to wait.
LEMMA OwnStepServed ==
  ASSUME TypeOK, NEW c \in Calls, Asked(c) => Served(c), Begin(c) \/ CallStep(c), Asked(c)'
  PROVE  Served(c)'
<1>1. CASE SendRequest(c)
  <2>1. call'[c].rpc_id = call[c].rpc_id /\ call'[c].attempt = call[c].attempt
    BY <1>1 DEF SendRequest, Step, TypeOK, CallState
  <2>2. Request(c)' = Request(c) /\ Request(c) \in requests'
    BY <1>1, <2>1 DEF SendRequest, Request
  <2>3. QED
    BY <2>2 DEF Served, AnswerComing
<1>2. CASE Sent(c)
  <2>1. Asked(c) /\ call'[c].rpc_id = call[c].rpc_id /\ call'[c].attempt = call[c].attempt
    BY <1>2 DEF Sent, Step, TypeOK, CallState, Asked
  <2>2. Request(c)' = Request(c)
    BY <2>1 DEF Request
  <2>3. QED
    BY <1>2, <2>1, <2>2 DEF Sent, Served, AnswerComing, serverVars
<1>3. CASE Begin(c) \/ Register(c) \/ SendTimesOut(c) \/ Succeed(c) \/ AttemptTimesOut(c) \/ Unregister(c)
  BY <1>3 DEF Begin, Register, SendTimesOut, Succeed, AttemptTimesOut, Unregister, Step,
     TypeOK, CallState, Asked
<1>4. QED
  BY <1>1, <1>2, <1>3 DEF CallStep

\* An id is the id of one call.
LEMMA OneOwner ==
  ASSUME HandlingInv, RightInv, FormerInv, FirstOnes, NEW c \in Calls, call[c].pc # "idle"
  PROVE  /\ \A r \in responses : r.rpc_id = call[c].rpc_id => r.body = c
         /\ \A w \in workers : w.rpc_id = call[c].rpc_id => w.call = c
         /\ \A d \in Calls : Panicked(d) /\ call[d].rpc_id = call[c].rpc_id => d = c
<1>1. former = {} /\ c \in Present
  BY DEF FormerInv, FirstOnes, Present, Made
<1>2. \A d \in Calls : Made(d) /\ call[d].rpc_id = call[c].rpc_id => d = c
  BY <1>1 DEF RightInv, IdsUnique, Present
<1>3. QED
  BY <1>2 DEF HandlingInv, WorkersFaithful, RunsRecorded, RightInv, ServerRight,
     ResponsesRight, Ran, Made, Panicked

\* The dispatcher takes a response of this call only to hand it over.
LEMMA DispatcherServes ==
  ASSUME TypeOK, WaitingIsReachable, NEW c \in Calls, Asked(c), Served(c),
         HandOver \/ \E r \in responses : Take(r)
  PROVE  Served(c)'
<1>1. ASSUME NEW r \in responses, Take(r) PROVE Served(c)'
  <2>1. /\ call' = call /\ channel' = channel /\ workers' = workers /\ late' = late
        /\ requests' = requests /\ responses' = responses \ {r} /\ held.call # c
    BY <1>1 DEF Take, serverVars, Free
  <2>2. r.rpc_id = call[c].rpc_id => AnswerComing(c)'
    <3>1. CASE r.rpc_id = call[c].rpc_id /\ r.rpc_id \in DOMAIN waiters /\ waiters[r.rpc_id] = c
      <4>1. held' = [call |-> c, body |-> r.body]
        BY <1>1, <3>1 DEF Take, Listening, Asked
      <4>2. QED
        BY <4>1 DEF AnswerComing
    <3>2. CASE channel[c] # "none"
      BY <2>1, <3>2 DEF AnswerComing
    <3>3. QED
      BY <2>1, <3>1, <3>2 DEF WaitingIsReachable, Asked
  <2>3. QED
    BY <2>1, <2>2, StillServed
<1>2. CASE HandOver
  <2>1. held \in [call : Calls, body : Calls] /\ channel' = [channel EXCEPT ![held.call] = held.body]
    BY <1>2 DEF HandOver, TypeOK
  <2>2. /\ held.call = c => channel'[c] # "none"
        /\ channel[c] # "none" => channel'[c] # "none"
    BY <2>1 DEF TypeOK
  <2>3. QED
    BY <1>2, <2>2, StillServed DEF HandOver, serverVars
<1>3. QED
  BY <1>1, <1>2

\* The receive loop turns a request into a worker or a response, or is late.
LEMMA RequestServes ==
  ASSUME TypeOK, HandlingInv, RightInv, FormerInv, FirstOnes, PlaceholderIsComputing,
         NEW c \in Careful, Asked(c), Served(c), NEW q \in requests, HandleRequest(q)
  PROVE  Served(c)'
<1>1. /\ call' = call /\ channel' = channel /\ held' = held /\ requests' = requests \ {q}
      /\ workers \subseteq workers' /\ late \subseteq late' /\ responses \subseteq responses'
  BY DEF HandleRequest, clientVars
<1>2. ASSUME q = Request(c) PROVE Served(c)'
  <2>1. q.rpc_id = call[c].rpc_id /\ q.call = c /\ q.attempt = call[c].attempt
    BY <1>2 DEF Request
  <2>2. CASE q.rpc_id \notin DOMAIN dedup
    <3>1. Worker(q) \in workers'
      BY <2>2 DEF HandleRequest
    <3>2. Worker(q).rpc_id = call[c].rpc_id /\ Worker(q).pc # "store"
      BY <2>1 DEF Worker
    <3>3. QED
      BY <1>1, <3>1, <3>2 DEF Served, AnswerComing
  <2>3. CASE q.rpc_id \in DOMAIN dedup /\ dedup[q.rpc_id] = "computing"
    <3>1. PICK w \in workers : w.rpc_id = q.rpc_id
      <4>1. \A d \in Calls : Panicked(d) => call[d].rpc_id # q.rpc_id
        BY <2>1, OneOwner DEF Careful, Asked, Panicked
      <4>2. QED
        BY <2>3, <4>1 DEF PlaceholderIsComputing
    <3>2. CASE w.pc = "store"
      <4>1. ResponseSent(q)
        BY <3>1, <3>2 DEF ResponseSent
      <4>2. <<c, call[c].attempt>> \in late'
        BY <2>1, <2>3, <4>1 DEF HandleRequest
      <4>3. QED
        BY <1>1, <4>2 DEF Served
    <3>3. CASE w.pc # "store"
      BY <1>1, <2>1, <3>1, <3>3 DEF Served, AnswerComing
    <3>4. QED
      BY <3>2, <3>3
  <2>4. CASE q.rpc_id \in DOMAIN dedup /\ dedup[q.rpc_id] # "computing"
    <3>1. Response(q, dedup[q.rpc_id]) \in responses'
      BY <2>4 DEF HandleRequest
    <3>2. Response(q, dedup[q.rpc_id]).rpc_id = call[c].rpc_id
      BY <2>1 DEF Response
    <3>3. QED
      BY <1>1, <3>1, <3>2 DEF Served, AnswerComing
  <2>5. QED
    BY <2>2, <2>3, <2>4
<1>3. QED
  BY <1>1, <1>2, StillServed DEF Careful

\* A worker answers before it leaves the state in which it will.
LEMMA WorkerServes ==
  ASSUME TypeOK, HandlingInv, RightInv, FormerInv, FirstOnes,
         NEW c \in Careful, Asked(c), Served(c),
         NEW w \in workers, WorkerStep(w)
  PROVE  Served(c)'
<1>1. /\ call' = call /\ channel' = channel /\ held' = held /\ requests' = requests
      /\ late' = late /\ responses \subseteq responses' /\ workers \ {w} \subseteq workers'
  BY DEF WorkerStep, RunHandler, Panic, Respond, StoreResponse, clientVars
<1>2. ASSUME w.rpc_id = call[c].rpc_id, w.pc # "store" PROVE AnswerComing(c)'
  <2>1. ~Panic(w) /\ ~StoreResponse(w)
    BY <1>2, OneOwner DEF Panic, StoreResponse, Careful, Asked
  <2>2. CASE RunHandler(w)
    <3>1. [w EXCEPT !.pc = "respond"] \in workers'
      BY <2>2 DEF RunHandler
    <3>2. /\ [w EXCEPT !.pc = "respond"].rpc_id = call[c].rpc_id
          /\ [w EXCEPT !.pc = "respond"].pc # "store"
      BY <1>2 DEF TypeOK, WorkerState
    <3>3. QED
      BY <1>1, <3>1, <3>2 DEF AnswerComing
  <2>3. CASE Respond(w)
    <3>1. Response(w, w.call) \in responses' /\ Response(w, w.call).rpc_id = call[c].rpc_id
      BY <1>2, <2>3 DEF Respond, Response
    <3>2. QED
      BY <1>1, <3>1 DEF AnswerComing
  <2>4. QED
    BY <2>1, <2>2, <2>3 DEF WorkerStep
<1>3. QED
  BY <1>1, <1>2, StillServed DEF Careful

\* And the losses are those of other calls.
LEMMA LossSpares ==
  ASSUME HandlingInv, RightInv, FormerInv, FirstOnes, NEW c \in Careful, Asked(c), Served(c),
         \/ \E r \in responses : LoseResponse(r)
         \/ \E q \in requests : LoseRequest(q)
  PROVE  Served(c)'
<1>1. ASSUME NEW r \in responses, LoseResponse(r) PROVE Served(c)'
  <2>1. r.rpc_id # call[c].rpc_id
    BY <1>1, OneOwner DEF LoseResponse, Careful, Asked
  <2>2. QED
    BY <1>1, <2>1, StillServed DEF LoseResponse, Careful, clientVars, serverVars
<1>2. ASSUME NEW q \in requests, LoseRequest(q) PROVE Served(c)'
  <2>1. q # Request(c)
    BY <1>2 DEF LoseRequest, Careful, Request
  <2>2. QED
    BY <1>2, <2>1, StillServed DEF LoseRequest, Careful, clientVars, serverVars
<1>3. QED
  BY <1>1, <1>2

\* Processes are counted up.
LEMMA FirstOnesBefore ==
  ASSUME TypeOK, [Next]_vars, FirstOnes' PROVE FirstOnes /\ ~RestartClient /\ ~RestartServer
<1>1. ~RestartClient /\ ~RestartServer
  BY DEF RestartClient, RestartServer, FirstOnes, TypeOK
<1>2. lives' = lives /\ servers' = servers
  BY <1>1, NextCases DEF OtherStep, Take, HandOver, LoseResponse, HandleRequest, LoseRequest,
     WorkerStep, RunHandler, Panic, Respond, StoreResponse, StopServer, clientVars, serverVars, vars,
     Begin, CallStep, Register, SendRequest, Sent, SendTimesOut, Succeed, AttemptTimesOut, Unregister
<1>3. QED
  BY <1>1, <1>2 DEF FirstOnes

(***************************************************************************)
(* As long as neither process was replaced, an attempt of a call that lost *)
(* no message and whose handler does not panic waits in vain only if its   *)
(* request came between the worker's send_to and its insertion of the      *)
(* response.                                                               *)
(***************************************************************************)
THEOREM StarvesOnlyIfLate == Spec => []StarvedOnlyIfLate
<1>1. Init => ServedInv
  BY DEF Init, Idle, ServedInv, Asked, Careful
<1>2. TypeOK /\ HandlingInv /\ FormerInv /\ RightInv /\ PlaceholderIsComputing
        /\ WaitingIsReachable /\ ServedInv /\ [Next]_vars => ServedInv'
  <2> SUFFICES ASSUME TypeOK, HandlingInv, FormerInv, RightInv, PlaceholderIsComputing,
                      WaitingIsReachable, ServedInv, [Next]_vars, FirstOnes',
                      NEW c \in Careful, Asked(c)'
               PROVE  Served(c)'
    BY DEF ServedInv, Careful
  <2>0. FirstOnes /\ ~RestartClient /\ ~RestartServer
    BY FirstOnesBefore
  <2>1. c \in Calls /\ (Asked(c) => Served(c))
    BY <2>0 DEF Careful, ServedInv
  <2>2. ASSUME NEW d \in Calls, Begin(d) \/ CallStep(d) PROVE Served(c)'
    <3>1. CASE d = c
      BY <2>1, <2>2, <3>1, OwnStepServed
    <3>2. CASE d # c
      <4>1. call'[c] = call[c]
        BY <2>1, <2>2, <3>2 DEF TypeOK, Begin, CallStep, Register, SendRequest, Sent,
           SendTimesOut, Succeed, AttemptTimesOut, Unregister, Step
      <4>2. QED
        BY <2>1, <2>2, <3>2, <4>1, OthersStayServed DEF Asked
    <3>3. QED
      BY <3>1, <3>2
  <2>3. ASSUME OtherStep \/ UNCHANGED vars PROVE Served(c)'
    <3>1. call' = call
      BY <2>0, <2>3, OtherPresent
    <3>2. Asked(c) /\ Served(c)
      BY <2>1, <3>1 DEF Asked
    <3>3. CASE StopServer \/ UNCHANGED vars
      BY <2>1, <3>2, <3>3, StillServed DEF StopServer, vars, clientVars, serverVars
    <3>4. QED
      BY <2>0, <2>1, <2>3, <3>2, <3>3, DispatcherServes, RequestServes, WorkerServes,
         LossSpares DEF OtherStep
  <2>4. QED
    BY <2>2, <2>3, NextCases
<1>3. TypeOK /\ ServedInv => StarvedOnlyIfLate
  BY DEF TypeOK, ServedInv, FirstOnes, Served, Asked, Careful, StarvedOnlyIfLate
<1>4. QED
  BY <1>1, <1>2, <1>3, RpcTypeCorrect, HandlingHolds, FormerHolds, RightHolds,
     PlaceholdersAreComputing, CallsAreReachable, PTL DEF Spec

-----------------------------------------------------------------------------
(***************************************************************************)
(* What stays in waiters.  A call has its Sender there only under its own  *)
(* id, and no longer once a response was taken for it; so the thread that  *)
(* gets its answer has nothing left to remove.                             *)
(***************************************************************************)
Registered(c) == call[c].rpc_id \in DOMAIN waiters /\ waiters[call[c].rpc_id] = c
Known(id, c) == call[c].rpc_id = id /\ (c \in Listening \/ LeftThroughSend(c))

TakenOnce ==
  \A c \in Calls : held.call = c \/ channel[c] # "none" => c \in Listening /\ ~Registered(c)
LongSends == \A c \in Calls : call[c].pc = "sending" => c \in LongRequests
LeakInv == TakenOnce /\ LongSends /\ OnlyTimedOutSendsLeak

\* A call finds no entry of its own where it has none to leave.
LEMMA OwnEntry ==
  ASSUME TypeOK, LeakInv, NEW c \in Calls, call[c].pc \notin {"sending", "done"},
         ~Registered(c) \/ call[c].pc \in {"idle", "register"},
         NEW id \in DOMAIN waiters
  PROVE  waiters[id] # c
BY DEF LeakInv, OnlyTimedOutSendsLeak, Listening, LeftThroughSend, Registered

\* The entries after a step of a call.
LEMMA EntriesOfStep ==
  ASSUME TypeOK, NEW c \in Calls, Begin(c) \/ CallStep(c), NEW id \in DOMAIN waiters'
  PROVE  \/ Register(c) /\ id = call[c].rpc_id /\ waiters'[id] = c
         \/ /\ id \in DOMAIN waiters /\ waiters'[id] = waiters[id]
            /\ Unregister(c) => id # call[c].rpc_id
<1>1. CASE Register(c)
  <2>1. waiters' = Put(waiters, call[c].rpc_id, c) /\ ~Unregister(c)
    BY <1>1 DEF Register, Unregister, Step
  <2>2. QED
    BY <1>1, <2>1 DEF Put
<1>2. CASE Unregister(c)
  BY <1>2 DEF Unregister, Drop
<1>3. CASE ~Register(c) /\ ~Unregister(c)
  BY <1>3 DEF Begin, CallStep, SendRequest, Sent, SendTimesOut, Succeed, AttemptTimesOut
<1>4. QED
  BY <1>1, <1>2, <1>3

\* Where the thread stands after a step, and what it leaves in its channel.
LEMMA StateOfStep ==
  ASSUME TypeOK, NEW c \in Calls, Begin(c) \/ CallStep(c)
  PROVE  \/ /\ Begin(c) \/ Register(c)
            /\ UNCHANGED <<held, channel>>
            /\ call[c].pc \in {"idle", "register"} /\ call'[c].pc \in {"register", "send"}
         \/ /\ SendRequest(c) \/ Sent(c) \/ AttemptTimesOut(c)
            /\ UNCHANGED <<held, channel>>
            /\ c \in Listening /\ c \in Listening'
            /\ call'[c].pc = "sending" => c \in LongRequests
         \/ /\ SendTimesOut(c) \/ Succeed(c) \/ Unregister(c)
            /\ CloseChannel(c)
            /\ call'[c].pc \in {"register", "done"}
<1> USE DEF TypeOK, CallState
<1>1. CASE Begin(c) \/ Register(c)
  BY <1>1 DEF Begin, Register, Step
<1>2. CASE SendRequest(c) \/ Sent(c) \/ AttemptTimesOut(c)
  <2>1. /\ UNCHANGED <<held, channel>> /\ call[c].pc \in {"send", "sending", "wait"}
        /\ call'[c].pc \in {"sending", "wait", "unregister"}
        /\ call'[c].pc = "sending" => c \in LongRequests
    BY <1>2 DEF SendRequest, Sent, AttemptTimesOut, Step
  <2>2. QED
    BY <1>2, <2>1 DEF Listening
<1>3. CASE SendTimesOut(c) \/ Succeed(c) \/ Unregister(c)
  <2>1. call'[c].pc \in {"register", "done"}
    BY <1>3 DEF SendTimesOut, Succeed, Unregister, Step
  <2>2. CloseChannel(c)
    BY <1>3 DEF SendTimesOut, Succeed, Unregister
  <2>3. QED
    BY <1>3, <2>1, <2>2
<1>4. QED
  BY <1>1, <1>2, <1>3 DEF CallStep

LEMMA CallLeaks ==
  ASSUME TypeOK, LeakInv, NEW c \in Calls, Begin(c) \/ CallStep(c)
  PROVE  LeakInv'
<1>1. ASSUME NEW d \in Calls, d # c
      PROVE  /\ call'[d] = call[d] /\ channel'[d] = channel[d] /\ result'[d] = result[d]
             /\ held'.call = d => held.call = d
  <2>1. call'[d] = call[d]
    BY <1>1, OneCallSteps
  <2>2. channel'[d] = channel[d] /\ (held'.call = d => held.call = d)
    BY <1>1, StateOfStep DEF CloseChannel, Free, TypeOK
  <2>3. result'[d] = result[d]
    BY <1>1 DEF Begin, CallStep, Register, SendRequest, Sent, SendTimesOut, Succeed,
       AttemptTimesOut, Unregister, TypeOK
  <2>4. QED
    BY <2>1, <2>2, <2>3
<1>2. LongSends'
  <2>1. call'[c].pc = "sending" => c \in LongRequests
    BY StateOfStep
  <2>2. QED
    BY <1>1, <2>1 DEF LeakInv, LongSends
<1>3. TakenOnce'
  <2>1. ASSUME NEW d \in Calls, d # c, held'.call = d \/ channel'[d] # "none"
        PROVE  (d \in Listening /\ ~Registered(d))'
    <3>1. d \in Listening /\ ~Registered(d)
      BY <1>1, <2>1 DEF LeakInv, TakenOnce
    <3>2. QED
      BY <1>1, <2>1, <3>1, EntriesOfStep DEF Listening, Registered
  <2>2. ASSUME held'.call = c \/ channel'[c] # "none"
        PROVE  (c \in Listening /\ ~Registered(c))'
    <3>1. ~CloseChannel(c)
      BY <2>2 DEF CloseChannel, Free, TypeOK
    <3>2. UNCHANGED <<held, channel>>
      BY <3>1, StateOfStep
    <3>3. c \in Listening /\ ~Registered(c)
      BY <2>2, <3>2 DEF LeakInv, TakenOnce
    <3>4. ~Begin(c) /\ ~Register(c) /\ c \in Listening'
      BY <3>1, <3>3, StateOfStep DEF Listening, Begin, Register, Step
    <3>5. call'[c].rpc_id = call[c].rpc_id
      BY <3>4, OneCallSteps
    <3>6. QED
      BY <3>3, <3>4, <3>5, EntriesOfStep DEF Registered
  <2>3. QED
    BY <2>1, <2>2 DEF TakenOnce
<1>4. ASSUME NEW id \in DOMAIN waiters' PROVE Known(id, waiters[id])'
  <2>1. CASE Register(c) /\ id = call[c].rpc_id /\ waiters'[id] = c
    BY <2>1 DEF Register, Step, Known, Listening, TypeOK, CallState
  <2>2. CASE /\ id \in DOMAIN waiters /\ waiters'[id] = waiters[id]
             /\ Unregister(c) => id # call[c].rpc_id
    <3>1. Known(id, waiters[id]) /\ waiters[id] \in Calls
      BY <2>2 DEF LeakInv, OnlyTimedOutSendsLeak, Known, TypeOK
    <3>2. CASE waiters[id] # c
      BY <1>1, <2>2, <3>1, <3>2 DEF Known, Listening, LeftThroughSend
    <3>3. CASE waiters[id] = c
      <4>1. id = call[c].rpc_id /\ Registered(c) /\ ~Unregister(c)
        BY <2>2, <3>1, <3>3 DEF Known, Registered
      <4>2. ~Succeed(c)
        BY <4>1 DEF Succeed, LeakInv, TakenOnce
      <4>3. call[c].pc \notin {"idle", "register"}
        BY <2>2, <3>3, OwnEntry
      <4>4. CallStep(c) /\ call'[c].rpc_id = call[c].rpc_id
        BY <4>3, OneCallSteps DEF Begin
      <4>5. CASE SendTimesOut(c)
        BY <2>2, <3>3, <4>1, <4>4, <4>5 DEF SendTimesOut, Step, LeakInv, LongSends, Known,
           LeftThroughSend, TypeOK, CallState
      <4>6. CASE c \in Listening'
        BY <2>2, <3>3, <4>1, <4>4, <4>6 DEF Known
      <4>7. QED
        BY <4>1, <4>2, <4>3, <4>5, <4>6, StateOfStep
    <3>4. QED
      BY <3>2, <3>3
  <2>3. QED
    BY <2>1, <2>2, EntriesOfStep
<1>5. OnlyTimedOutSendsLeak'
  BY <1>4 DEF OnlyTimedOutSendsLeak, Known
<1>6. QED
  BY <1>2, <1>3, <1>5 DEF LeakInv

\* The dispatcher takes the Sender it holds out of the map.
LEMMA OtherLeaks ==
  ASSUME TypeOK, LeakInv, OtherStep \/ UNCHANGED vars
  PROVE  LeakInv'
<1> USE DEF LeakInv
<1>1. CASE RestartClient
  <2>1. /\ DOMAIN waiters' = {} /\ held'.call = "none" /\ \A c \in Calls : channel'[c] = "none"
        /\ \A c \in Calls : call'[c].pc # "sending"
    BY <1>1 DEF RestartClient, EmptyMap, Free, Active, TypeOK, CallState
  <2>2. QED
    BY <2>1 DEF TakenOnce, LongSends, OnlyTimedOutSendsLeak
<1>2. CASE UNCHANGED <<call, result>>
  <2>1. call' = call /\ result' = result /\ LongSends'
    BY <1>2 DEF LongSends
  <2>2. ASSUME NEW r \in responses, Take(r) PROVE LeakInv'
    <3>1. /\ channel' = channel /\ waiters' = Drop(waiters, {r.rpc_id})
          /\ held' = IF r.rpc_id \in DOMAIN waiters /\ waiters[r.rpc_id] \in Listening
                     THEN [call |-> waiters[r.rpc_id], body |-> r.body] ELSE Free
      BY <2>2 DEF Take
    <3>2. OnlyTimedOutSendsLeak'
      BY <2>1, <3>1 DEF OnlyTimedOutSendsLeak, Drop, Listening, LeftThroughSend
    <3>3. ASSUME NEW c \in Calls, held'.call = c \/ channel'[c] # "none"
          PROVE  (c \in Listening /\ ~Registered(c))'
      <4>1. CASE channel'[c] # "none"
        BY <2>1, <3>1, <4>1 DEF TakenOnce, Registered, Listening, Drop
      <4>2. CASE held'.call = c
        <5>1. r.rpc_id \in DOMAIN waiters /\ waiters[r.rpc_id] = c /\ c \in Listening
          BY <3>1, <4>2 DEF Free
        <5>2. call[c].rpc_id = r.rpc_id
          BY <5>1 DEF OnlyTimedOutSendsLeak
        <5>3. QED
          BY <2>1, <3>1, <5>1, <5>2 DEF Registered, Listening, Drop
      <4>3. QED
        BY <3>3, <4>1, <4>2
    <3>4. QED
      BY <2>1, <3>2, <3>3 DEF TakenOnce
  <2>3. CASE HandOver
    <3>1. /\ held \in [call : Calls, body : Calls] /\ held' = Free /\ waiters' = waiters
          /\ channel' = [channel EXCEPT ![held.call] = held.body]
      BY <2>3 DEF HandOver, TypeOK
    <3>2. ASSUME NEW c \in Calls, held'.call = c \/ channel'[c] # "none"
          PROVE  (c \in Listening /\ ~Registered(c))'
      <4>1. held.call = c \/ channel[c] # "none"
        BY <3>1, <3>2 DEF Free, TypeOK
      <4>2. QED
        BY <2>1, <3>1, <4>1 DEF TakenOnce, Listening, Registered
    <3>3. QED
      BY <2>1, <3>1, <3>2 DEF TakenOnce, OnlyTimedOutSendsLeak, Listening, LeftThroughSend
  <2>4. CASE UNCHANGED <<held, waiters, channel>>
    BY <2>1, <2>4 DEF TakenOnce, OnlyTimedOutSendsLeak, Listening, LeftThroughSend, Registered
  <2>5. QED
    BY <1>1, <2>2, <2>3, <2>4 DEF OtherStep, LoseResponse, HandleRequest, LoseRequest, WorkerStep,
       RunHandler, Panic, Respond, StoreResponse, StopServer, RestartServer, clientVars, vars
<1>3. QED
  BY <1>1, <1>2, OtherPresent

(***************************************************************************)
(* The waiters of calls that have ended are those of send_to timeouts.     *)
(***************************************************************************)
THEOREM LeakIsKnown == Spec => []OnlyTimedOutSendsLeak
<1>1. Init => LeakInv
  <2> SUFFICES ASSUME Init PROVE LeakInv
    OBVIOUS
  <2>1. /\ DOMAIN waiters = {} /\ held.call = "none" /\ \A c \in Calls : channel[c] = "none"
        /\ \A c \in Calls : call[c].pc = "idle"
    BY DEF Init, EmptyMap, Free, Idle
  <2>2. QED
    BY <2>1 DEF LeakInv, TakenOnce, LongSends, OnlyTimedOutSendsLeak
<1>2. TypeOK /\ LeakInv /\ [Next]_vars => LeakInv'
  BY NextCases, CallLeaks, OtherLeaks
<1>3. LeakInv => OnlyTimedOutSendsLeak
  BY DEF LeakInv
<1>4. QED
  BY <1>1, <1>2, <1>3, RpcTypeCorrect, PTL DEF Spec
=============================================================================
