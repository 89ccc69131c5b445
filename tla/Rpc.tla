-------------------------------- MODULE Rpc ---------------------------------
(***************************************************************************)
(* The RPC layer, src/rpc/mod.rs: the calls of one client and the server   *)
(* they go to.                                                             *)
(*                                                                         *)
(* The two talk in messages of the transport, which is taken as its users  *)
(* see it (module MessageService): a frame that was sent is handed up      *)
(* whole, at most once by one process, in any order, and perhaps never.  A *)
(* frame under way is in requests or responses.  A payload is named by the *)
(* call it belongs to, and so is the response the handler computes from it.*)
(*                                                                         *)
(* "Whole" is a premise.  Both endpoints bind with the default windows,    *)
(* which are not multiples of packet_size; with such windows a frame       *)
(* longer than the unscheduled window may be handed up with holes (run     *)
(* claim_whole).  What is said here is said of frames that fit the window, *)
(* and of longer ones as far as the transport keeps them whole.            *)
(*                                                                         *)
(* Client: any number of threads in call_with_timeout and one dispatcher.  *)
(* Server: one receive loop and a worker thread per request.  Each action  *)
(* is one critical section or one blocking call of one of these threads.   *)
(***************************************************************************)
EXTENDS Naturals, FiniteSets, Maps

CONSTANTS
  Calls,         \* the calls that are made
  MaxAttempts,   \* MaxAttempts[c]: max_attempts.max(1) of call c
  Patient,       \* calls whose max_attempts has no limit
  LongRequests,  \* calls whose request has to wait for grants in send_to
  Panicking,     \* calls for which the handler may panic
  Lossy,         \* calls whose messages the transport may lose
  MaxLives,      \* how many client processes use the address in turn
  MaxServers,    \* how many server processes do
  ServerStops    \* TRUE: the RpcServer may be dropped, or killed

ASSUME RpcAssumption ==
  /\ MaxAttempts \in [Calls -> Nat \ {0}]
  /\ Patient \subseteq Calls
  /\ LongRequests \subseteq Calls
  /\ Panicking \subseteq Calls
  /\ Lossy \subseteq Calls
  /\ MaxLives \in Nat
  /\ MaxServers \in Nat
  /\ ServerStops \in BOOLEAN
  /\ \A c \in Calls : c \notin {"pending", "timedOut", "computing", "none"}

VARIABLES
  next_id,    \* RpcClient.next_id
  call,       \* the threads: where each is, its rpc_id, its attempt
  waiters,    \* rpc_id -> the call whose channel is registered
  channel,    \* channel[c]: the response in the channel of the attempt
  held,       \* the Sender and the response the dispatcher holds
  result,     \* what call_with_timeout returned
  lives,      \* how many client processes there have been
  former,     \* calls made by those that are gone
  requests,   \* request frames under way
  responses,  \* response frames under way
  dedup,      \* (client, rpc_id) -> "computing" or the response
  workers,    \* the server's worker threads
  serverUp,   \* the receive loop is running
  servers,    \* how many server processes there have been
  runs,       \* runs[c]: how often the present one has run the handler for c
  handled,    \* calls for which the handler of any of them has run
  late        \* requests dropped after their response had been sent

clientVars == <<next_id, call, waiters, channel, held, result, lives, former>>
serverVars == <<dedup, workers, serverUp, servers, runs, handled, late>>
vars == <<clientVars, requests, responses, serverVars>>

Request(c) ==
  [rpc_id |-> call[c].rpc_id, call |-> c, attempt |-> call[c].attempt]
Response(req, body) ==
  [rpc_id |-> req.rpc_id, body |-> body, attempt |-> req.attempt]

Idle == [pc |-> "idle", rpc_id |-> 0, attempt |-> 0]
Free == [call |-> "none", body |-> "none"]

Init ==
  /\ next_id = 1
  /\ call = [c \in Calls |-> Idle]
  /\ waiters = EmptyMap
  /\ channel = [c \in Calls |-> "none"]
  /\ held = Free
  /\ result = [c \in Calls |-> "pending"]
  /\ lives = 1
  /\ former = {}
  /\ requests = {} /\ responses = {}
  /\ dedup = EmptyMap
  /\ workers = {}
  /\ serverUp = TRUE
  /\ servers = 1
  /\ runs = [c \in Calls |-> 0]
  /\ handled = {}
  /\ late = {}

-----------------------------------------------------------------------------
(***************************************************************************)
(* call_with_timeout, one action per step of its loop.                     *)
(***************************************************************************)
Step(c, from, to) == call[c].pc = from /\ call' = [call EXCEPT ![c].pc = to]

\* Mutant of Begin: the counter is read and not advanced.
Begin_SameId(c) ==
  /\ call[c].pc = "idle"
  /\ call' = [call EXCEPT ![c] = [pc |-> "register", rpc_id |-> next_id, attempt |-> 1]]
  /\ UNCHANGED <<next_id, waiters, channel, held, result, lives, former, requests, responses, serverVars>>

\* next_id.fetch_add
Begin(c) ==
  /\ call[c].pc = "idle"
  /\ call' = [call EXCEPT ![c] = [pc |-> "register", rpc_id |-> next_id, attempt |-> 1]]
  /\ next_id' = next_id + 1
  /\ UNCHANGED <<waiters, channel, held, result, lives, former, requests, responses, serverVars>>

\* Mutant of Register: the Sender goes into the map once, before the loop.
Register_Once(c) ==
  /\ Step(c, "register", "send")
  /\ waiters' = IF call[c].attempt = 1 THEN Put(waiters, call[c].rpc_id, c) ELSE waiters
  /\ UNCHANGED <<next_id, channel, held, result, lives, former, requests, responses, serverVars>>

\* A fresh channel, its Sender into waiters.
Register(c) ==
  /\ Step(c, "register", "send")
  /\ waiters' = Put(waiters, call[c].rpc_id, c)
  /\ UNCHANGED <<next_id, channel, held, result, lives, former, requests, responses, serverVars>>

\* send_to starts; a short request is on its way when it returns.
SendRequest(c) ==
  /\ Step(c, "send", IF c \in LongRequests THEN "sending" ELSE "wait")
  /\ requests' = requests \cup {Request(c)}
  /\ UNCHANGED <<next_id, waiters, channel, held, result, lives, former, responses, serverVars>>

Sent(c) ==
  /\ Step(c, "sending", "wait")
  /\ UNCHANGED <<next_id, waiters, channel, held, result, lives, former, requests, responses, serverVars>>

(***************************************************************************)
(* The attempt is over and its Receiver is dropped: what the dispatcher    *)
(* holds for it can no longer be sent.                                     *)
(***************************************************************************)
CloseChannel(c) ==
  /\ channel' = [channel EXCEPT ![c] = "none"]
  /\ held' = IF held.call = c THEN Free ELSE held

(***************************************************************************)
(* send_to returns TimedOut and `?' passes it on.  The message may be gone *)
(* or have arrived all the same; the Sender stays in waiters.              *)
(***************************************************************************)
SendTimesOut(c) ==
  /\ Step(c, "sending", "done")
  /\ result' = [result EXCEPT ![c] = "timedOut"]
  /\ CloseChannel(c)
  /\ requests' \in {requests, requests \ {Request(c)}}
  /\ UNCHANGED <<next_id, waiters, lives, former, responses, serverVars>>

\* recv_timeout returns the response.
Succeed(c) ==
  /\ channel[c] # "none"
  /\ Step(c, "wait", "done")
  /\ result' = [result EXCEPT ![c] = channel[c]]
  /\ CloseChannel(c)
  /\ UNCHANGED <<next_id, waiters, lives, former, requests, responses, serverVars>>

\* recv_timeout finds nothing in time.
AttemptTimesOut(c) ==
  /\ channel[c] = "none"
  /\ Step(c, "wait", "unregister")
  /\ UNCHANGED <<next_id, waiters, channel, held, result, lives, former, requests, responses, serverVars>>

\* Mutant of Unregister: the waiter of the last attempt stays.
Unregister_LastStays(c) ==
  /\ CloseChannel(c)
  /\ \/ /\ call[c].attempt < MaxAttempts[c]
        /\ call' = [call EXCEPT ![c].pc = "register", ![c].attempt = @ + 1]
        /\ waiters' = Drop(waiters, {call[c].rpc_id})
        /\ UNCHANGED result
     \/ /\ call[c].attempt >= MaxAttempts[c] /\ c \notin Patient
        /\ call' = [call EXCEPT ![c].pc = "done"]
        /\ result' = [result EXCEPT ![c] = "timedOut"]
        /\ UNCHANGED waiters
  /\ call[c].pc = "unregister"
  /\ UNCHANGED <<next_id, lives, former, requests, responses, serverVars>>

\* Mutant of Unregister: the loop does not count.
Unregister_NotCounted(c) ==
  /\ Step(c, "unregister", "register")
  /\ waiters' = Drop(waiters, {call[c].rpc_id})
  /\ CloseChannel(c)
  /\ UNCHANGED <<next_id, result, lives, former, requests, responses, serverVars>>

(***************************************************************************)
(* The waiter is removed; then the next attempt, with the same rpc_id, or  *)
(* TimedOut.  A patient call numbers its attempts in a circle.             *)
(***************************************************************************)
Unregister(c) ==
  /\ waiters' = Drop(waiters, {call[c].rpc_id})
  /\ CloseChannel(c)
  /\ \/ /\ call[c].attempt < MaxAttempts[c]
        /\ call' = [call EXCEPT ![c].pc = "register", ![c].attempt = @ + 1]
        /\ UNCHANGED result
     \/ /\ call[c].attempt >= MaxAttempts[c] /\ c \in Patient
        /\ call' = [call EXCEPT ![c].pc = "register", ![c].attempt = 1]
        /\ UNCHANGED result
     \/ /\ call[c].attempt >= MaxAttempts[c] /\ c \notin Patient
        /\ call' = [call EXCEPT ![c].pc = "done"]
        /\ result' = [result EXCEPT ![c] = "timedOut"]
  /\ call[c].pc = "unregister"
  /\ UNCHANGED <<next_id, lives, former, requests, responses, serverVars>>

-----------------------------------------------------------------------------
(***************************************************************************)
(* The dispatcher takes the Sender registered for a response out of        *)
(* waiters and only then sends into it.  A response nobody waits for, or   *)
(* whose Sender outlived its Receiver, is dropped.                         *)
(***************************************************************************)
Listening == {c \in Calls : call[c].pc \in {"send", "sending", "wait", "unregister"}}

\* Mutant of Take: the Sender of any call that waits will do.
Take_AnyWaiter(r) ==
  /\ held = Free
  /\ responses' = responses \ {r}
  /\ \E id \in DOMAIN waiters :
       /\ waiters' = Drop(waiters, {id})
       /\ held' = IF waiters[id] \in Listening
                  THEN [call |-> waiters[id], body |-> r.body] ELSE Free
  /\ UNCHANGED <<next_id, call, channel, result, lives, former, requests, serverVars>>

Take(r) ==
  /\ held = Free
  /\ responses' = responses \ {r}
  /\ waiters' = Drop(waiters, {r.rpc_id})
  /\ held' = IF r.rpc_id \in DOMAIN waiters /\ waiters[r.rpc_id] \in Listening
             THEN [call |-> waiters[r.rpc_id], body |-> r.body] ELSE Free
  /\ UNCHANGED <<next_id, call, channel, result, lives, former, requests, serverVars>>

HandOver ==
  /\ held # Free
  /\ channel' = [channel EXCEPT ![held.call] = held.body]
  /\ held' = Free
  /\ UNCHANGED <<next_id, call, waiters, result, lives, former, requests, responses, serverVars>>

(***************************************************************************)
(* The client process is killed and another one binds its address: it      *)
(* counts its ids from 1 again.  What the old one sent may still arrive.   *)
(***************************************************************************)
Active == {c \in Calls : call[c].pc \notin {"idle", "done", "dead"}}

RestartClient ==
  /\ lives < MaxLives
  /\ lives' = lives + 1
  /\ former' = {c \in Calls : call[c].pc # "idle"}
  /\ next_id' = 1
  /\ call' = [c \in Calls |-> IF c \in Active THEN [call[c] EXCEPT !.pc = "dead"] ELSE call[c]]
  /\ waiters' = EmptyMap
  /\ channel' = [c \in Calls |-> "none"]
  /\ held' = Free
  /\ UNCHANGED <<result, requests, responses, serverVars>>

-----------------------------------------------------------------------------
(***************************************************************************)
(* The receive loop of the server takes a request: it starts a worker for  *)
(* a new one, answers one that has been computed from the map, and drops   *)
(* one that is being computed (or whose computation has panicked).         *)
(***************************************************************************)
Worker(q) == [rpc_id |-> q.rpc_id, call |-> q.call, attempt |-> q.attempt, pc |-> "run"]
ResponseSent(q) == \E w \in workers : w.rpc_id = q.rpc_id /\ w.pc = "store"

\* Mutant of HandleRequest: no placeholder while the handler runs.
HandleRequest_NoPlaceholder(q) ==
  /\ serverUp
  /\ requests' = requests \ {q}
  /\ \/ /\ q.rpc_id \notin DOMAIN dedup
        /\ workers' = workers \cup {Worker(q)}
        /\ UNCHANGED <<responses, dedup, late>>
     \/ /\ q.rpc_id \in DOMAIN dedup
        /\ responses' = responses \cup {Response(q, dedup[q.rpc_id])}
        /\ UNCHANGED <<dedup, workers, late>>
  /\ UNCHANGED <<clientVars, serverUp, servers, runs, handled>>

\* Mutant of HandleRequest: a repeated request is dropped, answered or not.
HandleRequest_NoReplay(q) ==
  /\ serverUp
  /\ requests' = requests \ {q}
  /\ \/ /\ q.rpc_id \notin DOMAIN dedup
        /\ dedup' = Put(dedup, q.rpc_id, "computing")
        /\ workers' = workers \cup {Worker(q)}
     \/ /\ q.rpc_id \in DOMAIN dedup
        /\ UNCHANGED <<dedup, workers>>
  /\ UNCHANGED <<clientVars, responses, serverUp, servers, runs, handled, late>>

HandleRequest(q) ==
  /\ serverUp
  /\ requests' = requests \ {q}
  /\ \/ /\ q.rpc_id \notin DOMAIN dedup
        /\ dedup' = Put(dedup, q.rpc_id, "computing")
        /\ workers' = workers \cup {Worker(q)}
        /\ UNCHANGED <<responses, late>>
     \/ /\ q.rpc_id \in DOMAIN dedup
        /\ IF dedup[q.rpc_id] = "computing"
           THEN /\ late' = IF ResponseSent(q) THEN late \cup {<<q.call, q.attempt>>} ELSE late
                /\ UNCHANGED responses
           ELSE /\ responses' = responses \cup {Response(q, dedup[q.rpc_id])}
                /\ UNCHANGED late
        /\ UNCHANGED <<dedup, workers>>
  /\ UNCHANGED <<clientVars, serverUp, servers, runs, handled>>

\* A worker: the handler, then send_to, then the entry in the map.
RunHandler(w) ==
  /\ w.pc = "run"
  /\ runs' = [runs EXCEPT ![w.call] = @ + 1]
  /\ handled' = handled \cup {w.call}
  /\ workers' = (workers \ {w}) \cup {[w EXCEPT !.pc = "respond"]}
  /\ UNCHANGED <<clientVars, requests, responses, dedup, serverUp, servers, late>>

\* The handler panics and takes the thread with it.
Panic(w) ==
  /\ w.pc = "run" /\ w.call \in Panicking
  /\ runs' = [runs EXCEPT ![w.call] = @ + 1]
  /\ handled' = handled \cup {w.call}
  /\ workers' = workers \ {w}
  /\ UNCHANGED <<clientVars, requests, responses, dedup, serverUp, servers, late>>

Respond(w) ==
  /\ w.pc = "respond"
  /\ responses' = responses \cup {Response(w, w.call)}
  /\ workers' = (workers \ {w}) \cup {[w EXCEPT !.pc = "store"]}
  /\ UNCHANGED <<clientVars, requests, dedup, serverUp, servers, runs, handled, late>>

\* Mutant of StoreResponse: the thread ends without an entry in the map.
StoreResponse_Skipped(w) ==
  /\ w.pc = "store"
  /\ workers' = workers \ {w}
  /\ UNCHANGED <<clientVars, requests, responses, dedup, serverUp, servers, runs, handled, late>>

StoreResponse(w) ==
  /\ w.pc = "store"
  /\ dedup' = Put(dedup, w.rpc_id, w.call)
  /\ workers' = workers \ {w}
  /\ UNCHANGED <<clientVars, requests, responses, serverUp, servers, runs, handled, late>>

\* RpcServer is dropped: the receive loop ends, the workers go on.
StopServer ==
  /\ ServerStops /\ serverUp
  /\ serverUp' = FALSE
  /\ UNCHANGED <<clientVars, requests, responses, dedup, workers, servers, runs, handled, late>>

(***************************************************************************)
(* Another server binds the address, with an empty map.  The workers of    *)
(* the old one are gone: killed with their process, or, since they hold    *)
(* the old socket, at their end before the address was free.  Its          *)
(* transport knows no key of the old one, and may hand up a second time    *)
(* the request of a call that is under way.                                *)
(***************************************************************************)
Copies == {Request(c) : c \in {d \in Calls : call[d].pc \in {"sending", "wait", "unregister"}}}

RestartServer ==
  /\ ~serverUp /\ servers < MaxServers
  /\ serverUp' = TRUE
  /\ servers' = servers + 1
  /\ dedup' = EmptyMap
  /\ workers' = {}
  /\ runs' = [c \in Calls |-> 0]
  /\ requests' \in {requests \cup again : again \in SUBSET Copies}
  /\ UNCHANGED <<clientVars, responses, handled, late>>

-----------------------------------------------------------------------------
\* The transport loses a message.
LoseRequest(q) ==
  /\ q.call \in Lossy
  /\ requests' = requests \ {q}
  /\ UNCHANGED <<clientVars, responses, serverVars>>
LoseResponse(r) ==
  /\ r.body \in Lossy
  /\ responses' = responses \ {r}
  /\ UNCHANGED <<clientVars, requests, serverVars>>

\* What the thread of a call does once the call is made.
CallStep(c) ==
  \/ Register(c) \/ SendRequest(c) \/ Sent(c) \/ SendTimesOut(c)
  \/ Succeed(c) \/ AttemptTimesOut(c) \/ Unregister(c)

WorkerStep(w) == RunHandler(w) \/ Panic(w) \/ Respond(w) \/ StoreResponse(w)

Next ==
  \/ \E c \in Calls : Begin(c) \/ CallStep(c)
  \/ \E r \in responses : Take(r) \/ LoseResponse(r)
  \/ \E q \in requests : HandleRequest(q) \/ LoseRequest(q)
  \/ \E w \in workers : WorkerStep(w)
  \/ HandOver
  \/ RestartClient
  \/ StopServer
  \/ RestartServer

Spec == Init /\ [][Next]_vars

(***************************************************************************)
(* Fairness.  recv_timeout and send_to return by their deadlines, the      *)
(* threads run.  For a patient call the transport may lose any message but *)
(* not every copy, and round trips are now and then shorter than           *)
(* attempt_timeout: while the call waits, its request is handled, its      *)
(* response taken and handed over.                                         *)
(***************************************************************************)
Threads ==
  /\ \A c \in Calls : WF_vars(CallStep(c))
  /\ WF_vars(HandOver)
  /\ WF_vars(\E w \in workers : WorkerStep(w))

InTime(c, A) == call[c].pc = "wait" /\ A

RoundTrips ==
  \A c \in Patient :
    /\ SF_vars(InTime(c, \E q \in requests : q.call = c /\ HandleRequest(q)))
    /\ SF_vars(InTime(c, \E r \in responses : r.rpc_id = call[c].rpc_id /\ Take(r)))
    /\ SF_vars(InTime(c, held.call = c /\ HandOver))

FairSpec == Spec /\ Threads /\ RoundTrips

-----------------------------------------------------------------------------
CallState ==
  [pc : {"idle", "register", "send", "sending", "wait", "unregister", "done", "dead"},
   rpc_id : Nat, attempt : Nat]
RequestFrame  == [rpc_id : Nat, call : Calls, attempt : Nat \ {0}]
ResponseFrame == [rpc_id : Nat, body : Calls, attempt : Nat \ {0}]
WorkerState   == [rpc_id : Nat, call : Calls, attempt : Nat \ {0},
                  pc : {"run", "respond", "store"}]

\* Every variable keeps its type; the registered ids are ids given out.
TypeOK ==
  /\ next_id \in Nat \ {0}
  /\ call \in [Calls -> CallState]
  /\ DOMAIN waiters \subseteq 1 .. next_id - 1
  /\ \A id \in DOMAIN waiters : waiters[id] \in Calls
  /\ channel \in [Calls -> Calls \cup {"none"}]
  /\ held = Free \/ held \in [call : Calls, body : Calls]
  /\ result \in [Calls -> Calls \cup {"pending", "timedOut"}]
  /\ lives \in Nat \ {0}
  /\ former \subseteq Calls
  /\ requests \subseteq RequestFrame
  /\ responses \subseteq ResponseFrame
  /\ DOMAIN dedup \subseteq Nat
  /\ \A id \in DOMAIN dedup : dedup[id] \in Calls \cup {"computing"}
  /\ workers \subseteq WorkerState
  /\ serverUp \in BOOLEAN
  /\ servers \in Nat \ {0}
  /\ runs \in [Calls -> Nat]
  /\ handled \subseteq Calls
  /\ late \subseteq Calls \X (Nat \ {0})

(***************************************************************************)
(* A thread in send_to or recv_timeout can be reached by a response: its   *)
(* Sender is in waiters, in the dispatcher's hands, or has been used.  Two *)
(* steps of the dispatcher and the removal and re-insertion between two    *)
(* attempts leave no moment in which a response would miss a waiting call. *)
(***************************************************************************)
WaitingIsReachable ==
  \A c \in Calls : call[c].pc \in {"send", "sending", "wait"} =>
    \/ call[c].rpc_id \in DOMAIN waiters /\ waiters[call[c].rpc_id] = c
    \/ held.call = c
    \/ channel[c] # "none"

(***************************************************************************)
(* What stays in waiters when a call has ended: only the Sender of a call  *)
(* whose send_to timed out and left call_with_timeout through `?'.  A call *)
(* that was answered, or has used up its attempts, leaves nothing behind,  *)
(* however response, timeout and dispatcher cross.                         *)
(***************************************************************************)
LeftThroughSend(c) ==
  c \in LongRequests /\ call[c].pc = "done" /\ result[c] = "timedOut"

OnlyTimedOutSendsLeak ==
  \A id \in DOMAIN waiters :
    LET c == waiters[id]
    IN  call[c].rpc_id = id /\ (c \in Listening \/ LeftThroughSend(c))

(***************************************************************************)
(* One server process runs the handler at most once for a call, panics and *)
(* restarts of the client included: entry and placeholder of its map are   *)
(* never taken back.  (The next process starts with an empty map and may   *)
(* run it again.)                                                          *)
(***************************************************************************)
HandledAtMostOnce == \A c \in Calls : runs[c] <= 1

(***************************************************************************)
(* An entry that says "being computed" belongs to a worker thread, so that *)
(* dropping the repeated requests meanwhile is no loss.  The exception is  *)
(* a handler that panicked: its entry says so for ever.                    *)
(***************************************************************************)
Panicked(c) == c \in Panicking /\ runs[c] = 1

PlaceholderIsComputing ==
  \A id \in DOMAIN dedup : dedup[id] = "computing" =>
    \/ \E w \in workers : w.rpc_id = id
    \/ \E c \in Calls : Panicked(c) /\ call[c].rpc_id = id

(***************************************************************************)
(* What may still answer call c: a response on its way, a worker that will *)
(* send one, or a request that starts or replays the computation.          *)
(***************************************************************************)
AnswerComing(c) ==
  \/ channel[c] # "none" \/ held.call = c
  \/ \E r \in responses : r.rpc_id = call[c].rpc_id
  \/ \E w \in workers : w.rpc_id = call[c].rpc_id /\ w.pc # "store"
  \/ Request(c) \in requests

(***************************************************************************)
(* An attempt of a call that lost no message and whose handler does not    *)
(* panic waits in vain in one case: its request was dropped as "being      *)
(* computed" in the time between the worker's send_to and its insertion of *)
(* the response.  (That is as long as no process was replaced: a second    *)
(* client could take the answer, a second server starts without it.)       *)
(***************************************************************************)
StarvedOnlyIfLate ==
  \A c \in Calls \ (Lossy \cup Panicking) : call[c].pc = "wait" =>
    AnswerComing(c) \/ <<c, call[c].attempt>> \in late \/ lives > 1 \/ servers > 1

(***************************************************************************)
(* The RPC layer implements the service that RpcService states: one run of *)
(* the handler per call and server process, and for a call the answer to   *)
(* it, unless the client before it left one under the same rpc_id.         *)
(***************************************************************************)
Service == INSTANCE RpcService
  WITH called <- {c \in Calls : call[c].pc # "idle"}, former <- former,
       runs <- runs, handled <- handled, result <- result
ImplementsRpcService == Service!Spec

(***************************************************************************)
(* No call hangs: whatever is lost, and whether or not there is a server,  *)
(* call_with_timeout returns, unless max_attempts has no limit.            *)
(***************************************************************************)
CallsEnd ==
  \A c \in Calls \ Patient : call[c].pc # "idle" ~> call[c].pc \in {"done", "dead"}

(***************************************************************************)
(* At least once: a call that goes on trying gets its answer, whichever    *)
(* requests and responses are lost, dropped as duplicates or too late, and *)
(* whichever server processes die, as long as one remains.                 *)
(***************************************************************************)
PatientCallsSucceed ==
  \A c \in Patient : call[c].pc # "idle" ~> result[c] = c \/ []~serverUp
=============================================================================
