# agent-transport: models, checks and proofs

agent-transport is a message-oriented transport over UDP in the style of Homa
(`src/src/transport`) with a small RPC layer on top of it (`src/src/rpc`). This
directory holds TLA+ modules translated from that source, TLC configurations
that check them on small instances, and TLAPS proofs of the central properties
for all values of the constants. All line numbers are lines of the source as it
stands beside this directory.

The result in short: when the unscheduled window and the grant increment are
multiples of `packet_size`, the exchange of messages keeps its promises, and
the safety part of that is proved, from the endpoints with their threads and
queues down to the abstract service of which they are an implementation. With the
defaults (10240, 65536 and 1200) they are not multiples, and three of the
promises fail. The RPC layer, as far as its frames arrive whole, runs a handler at
most once per call and server process, and a call returns its own answer or, after
a restart of the client under the same address, that of a call of the former
process; that is proved too. Whether frames arrive whole is the same question
again: both RPC endpoints bind with the defaults (`rpc/mod.rs` 54 and 135), so a
frame longer than the unscheduled window is not covered. What comments and
documents promise beyond this is in section 4.

## 1. Inventory

| Component | Source | State | Operations |
|---|---|---|---|
| Sender state machine | `transport/sender.rs` | `out`: per message `granted_to`, `next_send`, `done_at`, `last_progress` | `start`, `handle_grant`, `handle_resend`, `handle_busy`, `tick`, `is_done`, `finish`; inside: `pump`, `chunk_range` |
| Receiver state machine | `transport/receiver.rs` | `incoming`: per message buffer, bitmap, `received_bytes`, `granted_to`, timers, `unanswered_resends`; `granting`; `completed` (last 4096 keys) | `handle_data`, `tick`; inside: `schedule`, `issue_grant`, `deliver` |
| Packets | `transport/packet.rs` | none | `encode`, `decode` |
| Priorities, tx queues | `transport/priority.rs`, `txqueue.rs` | eight FIFO queues | `classify`, `pop_batch` |
| Transport handle and IO loop | `transport/mod.rs` | the mutex `State` (both cores, `completed`, `tx`), condition variable, `msg_counter`, `shutdown` | `bind`, `send_to`, `recv`, `shutdown`, `Drop`; `io_loop`, `drain` |
| RPC server | `rpc/mod.rs` 41-118 | de-duplication map: computing or answered | receive loop, one worker thread per request |
| RPC client | `rpc/mod.rs` 120-209 | `next_id`, `waiters` | `call`, `call_with_timeout`, dispatcher thread |
| TCP baseline, benches, scripts | `rpc/mod.rs` 211-295, `benches/`, `scripts/` | none of the protocol's | comparison and load |

**How they interact.** A user thread calls `send_to`: it takes a fresh id,
locks `State`, calls `SenderCore::start`, locks again to `dispatch` the packets
(DATA through the tx queues, control packets directly), and waits on the
condition variable until the sender's books say that all bytes were sent, or
until its deadline. The one IO thread of the endpoint takes a datagram, locks
`State`, calls the handler of the core the packet is for, and drains what the
handler produced: packets to the network, delivered messages to
`State.completed`, where `recv` finds them. Every 5 ms, whatever arrives, it
runs both ticks. The RPC client sends a request with `send_to`, waits for the
response on a channel, and repeats the request under the same `rpc_id`; the
server keeps one entry per request so that the handler runs once.

**What is hard.** Datagrams are lost, repeated and reordered, and the two ends
keep separate books about the same message: the sender what it has sent and was
granted, the receiver which slots have arrived, how many bytes, and what it has
granted. Every loss must be repaired by probe or RESEND (a lost GRANT too: see
`GrantedHaveGap`), and neither may disturb the books of the other end. The receiver
may refuse a message (BUSY) and may forget one (40 unanswered RESENDs), after
which a probe rebuilds it. The grant set is a cached choice over messages that
change with each packet. Above, several threads share `State` and a condition
variable, and the RPC layer retries what may have been done already.

**What makes each part correct.**

- Sender: never far past its credit; its books cover what the receiver has;
  all bytes get out in the end; a refused or lost message is tried again.
- Receiver: a message is delivered at most once and whole; every message in
  reassembly can still ask for something; credit is bounded; the grant set is
  the shortest `overcommit` messages, each with credit; nothing stays for ever.
- Packets: what one end writes is what the other reads, in 32 bits.
- Tx queues: FIFO within a level, higher levels first, nothing lost.
- Transport: a waiter is woken when its message is done; what is delivered is
  received once; shutdown ends the threads.
- RPC: at-least-once towards the server, at most one handler run per call and
  server process, a response belongs to its call, and no call leaves a waiter
  behind except through `?`.

`PROJECT.json` lists every hazard with its line and the properties that cover it.

## 2. Modules

| Module | What it is | Extends or instantiates |
|---|---|---|
| `Maps` | functions with a changing domain, as the code uses HashMap | |
| `Wire` | packets, u32 casts, the UDP network | `Maps` |
| `SenderCore` | `sender.rs`, one operator per operation | `Wire` |
| `ReceiverCore` | `receiver.rs`, one operator per operation | `Wire` |
| `Exchange` | a sending and a receiving endpoint with the network between them; the properties | `SenderCore`, `ReceiverCore`; implements `MessageService` |
| `MessageService` | abstract: what users of the transport are promised | |
| `AlignedExchange` | the assumption `Aligned` and the inductive invariant `GridInv` | `Exchange` |
| `TxQueues` | `txqueue.rs` and `priority.rs`: pure operators on the queues | |
| `QueueLog` | the queues by themselves, with a log of what went in and out | `TxQueues` |
| `Transport` | the threads of `mod.rs`: `send_to`, `recv`, two `io_loop`s, the condition variable, the queues | `TxQueues`; instantiates and implements `Exchange` |
| `Rpc` | `rpc/mod.rs`: the calls of a client, its dispatcher, the server and its workers | `Maps`; implements `RpcService` |
| `RpcService` | abstract: what users of the RPC layer are promised | |
| `ExchangeClaims`, `TransportClaims` | what comments and documents say and the code does not keep | `Exchange`, `Transport` |
| `MCExchange`, `MCTransport`, `MCQueueLog`, `MCRpc` | constants for TLC | the claims, `QueueLog`, `Rpc` |
| `NatLemmas` | least elements, induction over an interval, arithmetic of the packet grid | |
| `ExchangeProofs` | types, credit, overshoot, the grant set, the cache of delivered keys | `Exchange` |
| `AlignedProofs` | `GridInv`: lemmas of each side, then the theorems; refinement of `MessageService` | `AlignedExchange`, `ExchangeProofs` |
| `QueueProofs` | what the operators of `TxQueues` compute | `TxQueues` |
| `QueueLogProofs` | order and blocking in the queues | `QueueLog`, `QueueProofs` |
| `TransportProofs` | types, no packet forgotten, no lost wake-up, refinement of `Exchange` | `Transport`, `QueueProofs` |
| `EndToEnd` | what holds of `Exchange` holds of `Transport` | `AlignedProofs`; instantiates `Transport` |
| `RpcProofs` | types, reachability, at most one execution, placeholders, late answers, leaks, refinement of `RpcService` | `Rpc` |

The layers meet in three refinements. `Transport` implements `Exchange`, which
implements `MessageService` (when aligned and while the cache of delivered keys
lasts), and `Rpc` is written over what `MessageService` leaves: a message that
was sent arrives whole, at most once for one process, in any order, perhaps never.
That it is whole is a premise of `Rpc` and of all that is said about it:
`MessageService` is implemented when `Aligned` holds, and the endpoints of
`rpc/mod.rs` use the defaults, for which it does not. A frame of at most
`unscheduled_bytes` is sent at once and is never granted anything, which is the
situation of short requests and responses; longer ones can be handed up with holes
(`claim_whole`), and then neither frame nor id tells.

### How state and actions correspond to the code

`out` and `incoming` are the two HashMaps, as functions whose domain grows and
shrinks; the fields keep their names. `done_at` is the Boolean `done`. `buf` is
not a byte string: it is the set of positions that hold the byte that belongs
there, and a DATA packet carries in `source` the position its payload was cut
from, so that a payload written to the wrong place (offset cut to 32 bits) or a
position never written can be told from a right one. `received` is the bitmap as
a set of slots. `granting` is a set: the code's vector has no repetitions and its
order shows only in the order of packets. `completed` is the bounded cache of
delivered keys. `inbox` is `State.completed`, kept as a log: `recv` only takes
from its front, so it is left out, and the log tells what all calls of `recv`
will return between them. `started` and `timedOut` record what `send_to` did.

An action of `Exchange` is one critical section of the mutex: `SendTo`,
`TimeOut`, one `Recv...` per packet type, `TickSender`, `TickReceiver`. Each
does everything the handler does: `HandleData` and `ReceiverTick` end with
`Schedule`, which chooses the grant set, extends windows and sends the GRANTs.
`io_loop` runs both ticks in one section; each endpoint of the model uses one of
its two cores, and the tick of the other changes nothing.

Time. The cores compare timestamps with timeouts. Which messages have passed
a timeout is an input of the tick (`lingered`, `stalled`, `hung`, `starved`), any
subset that respects the order of the timeouts: more behaviours than the code
has, and none of its own is missing. A `starved` message enters the grant set
whatever its length, as in the code. That `hung` is a subset of `stalled` uses
the early `continue` of `tick` (line 146), not the values of the timeouts. A
message that was granted by force in this tick is not starved in the `schedule`
that follows, since `last_grant` was just set.

The network. `net` is the set of datagrams that may still arrive. With
`Duplicating`, receipt leaves a datagram in `net`, so it may arrive again at any
later time; a datagram that is never received is lost for all that a safety
property can see, so the safety runs need no `Lossy`. For liveness `Lossy` adds
the action `LosePacket`. Between lock and wire the code has the tx queues and a
second lock in `dispatch`: both delay and reorder packets, as the network does.
The order of packets produced by one handler is not kept for the same reason.

### The threads: `Transport`

`Transport` superposes the threads of `mod.rs` on `Exchange`. Each of its
actions is one critical section and performs one action of `Exchange` (taken
from `X == INSTANCE Exchange`) or none, which is what `ImplementsExchange` says.

- `sending[m]` is where the thread in `send_to` stands: `SendTo` (the section of
  `start`), `Dispatch` (the second section), then `check`, from which it goes to
  `ok`, gives up, or sleeps on the condition variable. A sleeper is woken by a
  notification or by its deadline (`Rouse`).
- `reading[r]` is the same for a thread in `recv`; `taken` counts the messages
  popped from the front of `inbox`.
- `net` is what the cores have produced. A DATA packet is `pending` between the
  two sections of `send_to`, then in `queues`, then in `wire`; `Drain` queues
  the packets of the handler and flushes one batch, whoever calls it. The
  receiver takes DATA from `wire` only. The order of the packets of one handler
  is ascending within a message, and any between messages, as in the tick, which
  walks a HashMap (`Bursts`).
- `io_loop` of the sender takes GRANT, RESEND, BUSY, also stale ones and those of
  unknown messages, which change no book but flush the queues, and in the case of
  a GRANT notify. Control packets go straight to the socket and stay in `net`.
- `Shutdown` stops one `io_loop`; threads in `send_to` and `recv` go on.

The network of this module repeats and delays; a packet that is never received
is lost, so no action loses one (`TransportAssumption`), and a packet of `net`
can be told from one that has not been sent.

`QueueLog` drives the same queue operators with bursts of several messages of
the same and of different levels, where a log shows order and blocking.

### The RPC layer: `Rpc`

A frame is a record that names its call; `requests` and `responses` are the
frames under way. `attempt` is carried for the properties only. A call is a
thread with a program counter: `Begin` (a fresh id), then for each attempt
`Register`, `SendRequest`, perhaps a wait in `send_to` that can time out,
`Succeed` or `AttemptTimesOut`, `Unregister`. The dispatcher takes a Sender out
of `waiters` (`Take`) and sends into it in a second step (`HandOver`); between
them it holds it in `held`. A Sender whose Receiver has been dropped swallows
what is sent into it.

The server: `HandleRequest` is one turn of the receive loop with its three cases
(new, computing, answered); a worker runs the handler (or panics), sends the
response, and stores it, in this order. `StopServer` ends the receive loop, the
workers finish. `RestartServer` is another `RpcServer::spawn` on the address: map,
placeholders and workers are gone (the workers with their process, or before the
address was free, since they hold the socket), and the new transport, which knows
no key of the old one, may hand up requests again (`Copies`). `runs` counts what the
present server process has run, `handled` what any has. `RestartClient` ends the
client process in the middle of what its calls are doing and starts one with the
same address; frames and the server's map survive, and `former` keeps the calls of
the processes that are gone. `late` records the attempts whose request was dropped as "being
computed" after the response had been sent; it is read by properties only.

The server's map is keyed by client address and id. Clients at different
addresses share no entry, so one address is modelled. The replay of a stored
response runs in a thread of its own that does nothing but send: it is one step.

### Left out

`Exchange` leaves out the priority of packets, which neither core reads (it is
in the queues of `Transport`), and the `length` of a GRANT, which nobody reads.
Messages to other destinations are other elements of `Msgs` (the key is address
and id); `send_to` gives each its own id, so no two share a key. The traffic in
the opposite direction uses the other core of each endpoint and shares nothing
with it but the mutex and the tx queues. Both ends use one configuration.

Not modelled, and why:

- A process that restarts under the address of another one reuses its message
  ids. The receiver still knows them, and drops or mixes the new messages. In
  `Exchange` a message and its key are one; a model would need a map between
  them, and no document says what should happen. For the RPC layer, where a
  restart shows to the user, `RestartClient` models it.
- A new server process may be handed copies of requests whose calls have ended, or
  were those of a dead client, as long as such datagrams are under way. `Copies`
  takes the calls that are waiting; the others would run a handler whose answer
  nobody takes.
- Frames with holes above the transport (see *The layers meet* above): what a
  handler makes of a damaged body is its own affair, and a damaged id would need
  the bytes of a frame in the model.
- Byte layout: `encode` and `decode` are straight-line code with tests of their
  own. Datagrams that do not decode are skipped by `io_loop`, together with the
  tick of that iteration (line 267): see *hazards*.
- Errors of the socket other than loss: `drain` ignores them, so they are losses.
- `bind`, `local_addr`, `debug_state`, `active_count`, `is_empty`, `len`: they set
  up or only read.
- `tcp_baseline`, `benches/`, `scripts/`: no part of the protocol.

## 3. Runs

Sizes are in bytes with packets of 2 bytes, the smallest size at which a chunk
can be full, short or cut in the middle.

| Run | Instance | What it shows |
|---|---|---|
| `exchange_one` | one message of 9 bytes (5 chunks, the last one short), window 4, increment 4, room for 1 | `TypeOK`, `WholeMessages`, `DeliveredIsDone`, `NeverWedged`, `CreditBounded`, `GrantedHaveGap`, `GridInv`, and that `Exchange` implements `MessageService` |
| `exchange_two` | messages of 6 and 4 bytes, window 3, increment 5 (both end inside a packet, as the defaults do), room for 2, `Overcommit` 1, cache 1, at most 4 deliveries | `KeptOutByShorter`, `GrantSetHasCredit`, `RedeliveryNeedsEviction`, `OvershootBounded` |
| `live_lossy` | one message of 5 bytes, window 2, increment 2, lossy and duplicating | `SendCompletes`, `EveryReassemblyEnds` |
| `live_busy` | messages of 4 and 3 bytes, window 2, room for 1, no loss | `SentIsDelivered` |
| `transport_one` | one message of 3 chunks, window of one, increment of two, budget of one packet, one reader | `TypeOK`, `AccountedFor`, that `Transport` implements `Exchange`, `NoFalseTimeout`, `SendReturns`, `QueuedIsSent` |
| `transport_two` | messages of 4 and 2 bytes on two levels, room for 1, two readers | `NoneStranded` |
| `queue_log` | four messages on three levels, bursts of up to 3, budget 2 | `FifoPerLevel`, `ShortNotBlocked`, `BacklogDrains` |
| `rpc_calls` | two calls: one of one attempt, one without a limit of attempts, whose messages may be lost; two server processes, either of which may stop | `CallsEnd`, `PatientCallsSucceed` |
| `rpc_restart` | two calls, of two attempts and of one, two client and two server processes; one call has a long request and loses nothing, of the other messages may be lost and the handler may panic | `TypeOK`, `HandledAtMostOnce`, `WaitingIsReachable`, `PlaceholderIsComputing`, `OnlyTimedOutSendsLeak`, `StarvedOnlyIfLate`, that `Rpc` implements `RpcService` |
| `claim_*` | see section 4 | a statement of the documents or comments that the code does not keep |

**Why the bounds are enough.** Five chunks with a window of two need two grants
past the window, so that early, late and lost grants, gaps before and after
the granted edge, and a short last chunk that arrives first all occur. A GRANT
repeated by force does not, and `GrantedHaveGap` says why: a stalled message has a
gap in its window, which `tick` looks for first. In `exchange_two` windows and
grants end inside a packet, so that the sender really goes past its credit.
`MAX_UNANSWERED_RESENDS` is 1 instead of 40: abandonment comes after the second
RESEND in a row, so a message is abandoned, rebuilt and abandoned again within
the state space. `COMPLETED_CACHE` has room for every message except in
`exchange_two`, where it holds one key, so that each delivery evicts the key of
the other message while copies of its packets are under way; messages can then
be delivered without end, and `MaxDeliveries` (in `MCExchange`) stops after four,
when each message has been delivered twice. Two messages with one place in
the grant set, and two with one place in `incoming`, are the smallest in which
SRPT and BUSY choose. `U32` is 16, above every length.

In the `transport` runs a grant of two packets meets a budget of one, so that a
backlog forms, is flushed by a tick, by another GRANT and by a RESEND, and
survives the return of `send_to`. `MaxBacklog` bounds the queues at two packets:
repeated probes and RESENDs could fill them without end. The tick without probes
only shortens them, so the bound never stops the tick that fairness asks for.
With one place in `incoming` the second message of `transport_two` is refused,
and BUSY and unknown control packets arrive. Two readers and two messages are
the least for a reader to be woken for a message that another one takes.

Two calls are the least to confuse with each other, and two attempts give a late
answer, and a repeated request, to the first and to the last. `Lossy`, `Panicking`,
`LongRequests` and `Patient` are sets of calls, as `MaxAttempts` is given per call:
in `rpc_restart` one call loses nothing and does not panic, of which
`StarvedOnlyIfLate` speaks, and the other does both, so that
`PlaceholderIsComputing` meets both cases. Two processes at either end are enough
for a reused id, and for a call that runs a second time. In `rpc_calls` `CallsEnd`
speaks of the call with a limit and `PatientCallsSucceed` of the one that loses
messages and goes on trying, whose attempts are numbered in a circle, here of one.

Deadlock is checked in the runs of `Exchange`, `Transport` and `QueueLog`, where
a tick is always possible. The `rpc` runs switch it off: a behaviour has a fixed
set of calls, and when all have returned nothing is left to do; that no call is
stuck before is `CallsEnd`.

**Properties.** `WholeMessages`: each delivered message has each of its bytes in
its place. `DeliveredIsDone`: the sender's books are complete once the receiver
has delivered. `NeverWedged`: every message in reassembly has a missing slot
that a RESEND can ask for. `GrantedHaveGap`: and if it is in the grant set, already
in its window, so that a lost GRANT is repaired by a RESEND.
`CreditBounded`, `OvershootBounded`: what the receiver gives, and that the sender
takes less than a packet beyond it, however often the window moves by GRANT and
RESEND. (The documents say that it takes nothing: section 4.) `KeptOutByShorter`,
`GrantSetHasCredit`: the scheduler's cached choice is right between any two
handlers. `ImplementsService`: at most one delivery, only of messages sent, and
whole. `RedeliveryNeedsEviction`: what remains of that when the cache is too
small for all messages: between two deliveries of a message lie at least as many
others as the cache has places. `SendCompletes`, `EveryReassemblyEnds`,
`SentIsDelivered`: progress.

`AccountedFor`: every DATA packet a core has produced is pending, queued or
written. `ImplementsExchange`: nothing the threads do between two sections makes
a core do what it would not do in `Exchange`; among other things `send_to` never
reports a timeout for a message that is done. `NoFalseTimeout`: nor for one that
the receiver has handed up, which relates the books of both ends at the moment
of the deadline. `NoneStranded`: no lost wake-up in
`recv`. `SendReturns`: nor a `send_to` that never returns. `QueuedIsSent`,
`BacklogDrains`, `ShortNotBlocked`, `FifoPerLevel`: the budget delays packets and
neither loses, reorders nor blocks them; under an endless load of shorter
messages a long one may wait for ever, by design, and the load of a run is finite.

`HandledAtMostOnce`, `ImplementsRpcService`: one execution at most for each server
process, and for a call the answer to it, or to a call of a former client process
that had its id; never that of another call of the same process.
`WaitingIsReachable`: between the two steps of the
dispatcher, and between the removal of a waiter and its return for the next
attempt, there is no state in which a waiting call cannot be reached.
`PlaceholderIsComputing`: an entry that says "being computed" has its worker,
unless the handler panicked, so that a request dropped for its sake is no loss.
`StarvedOnlyIfLate`: of a call that loses no message and whose handler does not
panic, the only attempt that waits in vain is one whose request fell between the
worker's send and its insertion (while neither process has been replaced).
`OnlyTimedOutSendsLeak`: an answer, a timeout and the dispatcher may cross in any
order; the only call that leaves a waiter behind is the one that left through `?`.
`CallsEnd`, `PatientCallsSucceed`: progress.

**Fairness.** `FairSpec` assumes, per message:

- strong fairness of the receipt of a packet that still matters, by type: a DATA
  packet that changes the receiver, a GRANT that is not stale, a RESEND for
  the first gap. A network may lose any packet, not each copy of one that is sent
  again and again; without this no retransmission protocol makes progress.
- weak fairness of the sender's probe and of a receiver tick for which all of the
  message's timeouts have elapsed: `io_loop` ticks every 5 ms also under load,
  and an interval with no progress reaches every timeout. A tick serves all
  messages in one step; the assumption is that each message is served again
  and again.

Nothing is assumed of `linger` or of `send_to`'s deadline: they may expire at
any time or never. `PatientSpec`, for `SentIsDelivered`, also rules out that the
receiver abandons a message, which needs 41 RESENDs in a row without an answer.
`SendCompletes` allows for it: a receiver that abandons a message for ever can
keep it from ending. It holds for a sender that has not given up: after
`TimeOut` the message is no longer in `out`, which `IsDone` counts as done,
as `is_done` does.

`Transport.FairSpec`: threads run, `send_timeout` passes (a thread that looks at
its deadline again and again finds it over in the end: strong fairness of
`GiveUp`, weak of every other step of `send_to`), and the `io_loop` of the sender
ticks while it runs. Nothing is assumed of the receiver or of the network.
`QueueLog.FairSpec`: the tick.

`Rpc.FairSpec`: the threads of calls, dispatcher and workers run, and
`recv_timeout` and `send_to` return by their deadlines. Of the network and the
server nothing is assumed except for a patient call: strong fairness of the three
steps of a round trip while the call is waiting. Of the requests and responses
that are sent again and again some arrive, and now and then a round trip is
shorter than the attempt's timeout. If the timeout is always shorter than the
round trip, or the last server has stopped, a call never succeeds.

## 4. Findings

Each is a run that ends in a violation of one property, and an entry of
`findings` in `PROJECT.json` with the quoted statement.

| Run | What the code does |
|---|---|
| `claim_whole` | Window 3 and increment 5 with packets of 2: a RESEND ends inside a chunk (`sender.rs` 112), the next packets are cut off the grid, share a bitmap slot with others, and a message is delivered with a hole. |
| `claim_busy` | A refused message that fits the window is done for its sender, and `tick` never probes it (line 140). |
| `claim_wakeup` | A RESEND that completes a message wakes nobody: the thread in `send_to` sleeps on until another message or its deadline wakes it (`mod.rs` 279). |

`claim_whole` needs an unscheduled window or an increment that is no multiple of
`packet_size`. The defaults are of this kind: 10240 is 640 more than a multiple of
1200, and 65536 is 736 more. `RpcServer` and `RpcClient` use them.

### At most once, or at least once

Of how often a handler runs the repository says two things. `rpc/mod.rs` 3-6, the
head of the module: "at-least-once", the handler may be called several times and
must be idempotent; the draft (193-195) agrees. `WIRE.md` 74: the de-duplication
cache "guarantees each `rpc_id` is executed at most once"; the draft (357-361) and
the comment at `rpc/mod.rs` 63-65 agree with that. What the code does is what
`HandledAtMostOnce` states: at most once for a call and a server process, panics,
retries and restarts of the client included. A server that is spawned again on the
address has an empty map (line 66), and a retry then runs the handler a second time,
in `rpc_restart` as in the code. So the sentence of `WIRE.md` holds for one process
and no longer, and the head of the module is the contract to program against. (A
second reading is at fault as well: two calls of successive client processes share an
`rpc_id`, and the second is not executed at all but given the first one's answer.)

### Seen while modelling

These follow from the same code and have no run of their own. Where one needs
only other constants, they are named.

- With the constants of `claim_whole`, `DeliveredIsDone` and `NeverWedged` fail
  too. `handle_resend` sends a whole chunk and books the part that was asked for
  (`sender.rs` 110): the receiver completes and `send_to` waits for a grant until
  it times out. Or the bitmap fills up before all bytes are counted
  (`receiver.rs` 131): no delivery, no gap to ask for.
- An empty message sends no packet at all, and `send_to` returns Ok
  (`sender.rs` 184), although the receiver has a branch for it (`receiver.rs` 114).
- A length of 2^32 or more is cut to 32 bits without an error (`sender.rs` 54):
  with `U32` = 4 and a message of 4 bytes `WholeMessages` fails.
- A packet that crosses the granted edge is sent whole (`sender.rs` 184). `WIRE.md`
  62, the draft (321-322) and the comment at `sender.rs` 5 say that bytes beyond
  the window wait for a grant. What holds is `OvershootBounded`: less than one
  packet, never adding up. In `exchange_two`, where windows end inside a packet as
  with the defaults, the stronger statement (`next_send <= granted_to`) fails in the
  first `send_to`.
- The forced GRANT of `tick` (`receiver.rs` 178-184) is never sent when windows are
  on the packet grid and the increment is at least 2 (`StallsAskForChunks`). A
  message in the grant set has outstanding credit, or is granted to its end; either
  way the range it was granted has a gap, and `tick` takes the branch of line 153. A
  lost GRANT is repaired by a RESEND for the granted range, on which
  `handle_resend` catches up. `WIRE.md` 69-70 and the draft (343-345) describe a
  re-sent GRANT.
- `send_to` returns while packets beyond the budget of the flush are still queued
  (`mod.rs` 175, against the comment at line 160). It needs more than 256 packets
  in one drain, which the defaults do not produce for a single message (a grant
  is 55 packets) but many probes, or a larger increment, do.
- The worker sends before it stores (`rpc/mod.rs` 98): a request repeated in
  between is dropped although the response has gone, and has missed its waiter.
  `StarvedOnlyIfLate` says that this is the only such case.
- A handler that panics leaves "being computed" in the map for ever
  (`rpc/mod.rs` 96), and every retry of its request is dropped: the exception that
  `PlaceholderIsComputing` names.
- A `send_to` that times out ends the call: `?` at line 184 of `rpc/mod.rs`
  returns from the loop of attempts, while `transport/mod.rs` 52 leaves the retry
  to the RPC layer.
- A client process that takes over an address gets the cached answers of its
  predecessor, whose ids it counts again from 1 (`rpc/mod.rs` 157). `RpcService`
  allows that, and nothing more.

## 5. Proofs

All theorems are checked by TLAPS with SMT, Zenon and LS4. `Spec` has no
fairness in them.

Assumptions on the constants stand beside their declarations and are little more
than their types: `WireAssumption`, `ReceiverAssumption`, `QueueAssumption`,
`LogAssumption`, `RpcAssumption` (natural numbers, packets of at least one byte, a
budget of at least one packet). `TransportAssumption` adds the kind of network,
one that repeats and delays (section 2). What a theorem needs beyond them is in
its statement.

**The exchange, for all constants:**

- `TypeCorrect`, `CreditIsBounded`, `OvershootIsBounded` (`ExchangeProofs`). The
  inductive invariant is `BooksOK`: the types together with the two bounds. The
  bounds need the types for arithmetic, and `OvershootBounded` needs no more than
  the books of each message: `pump` and `handle_resend` move both `next_send`
  and `granted_to`, and the maximum of `granted_to` keeps pace.
- `ScheduleIsUpToDate`, `GrantedHaveCredit` (`ExchangeProofs`). The invariant
  `Scheduled` joins both to the facts about `incoming` that make them inductive.
  Every step that touches `incoming` ends in `Schedule`; the lemma about
  `Schedule` shows that it establishes them from any `incoming`, through the
  cardinality of the set it chose: granting a window changes neither `Remaining`
  nor the choice.

**The exchange, aligned** (`Aligned`: the unscheduled window is positive,
it and the increment are multiples of `packet_size`, lengths are below 2^32):

- `GridInvariant`, and from it `DeliveryIsWhole`, `DeliveryIsKnown`,
  `NothingWedged` (`AlignedProofs`).
- `StallsAskForChunks` (`AlignedProofs`, increment of at least 2): `NeverWedged` gives
  a missing chunk, and `GrantSetHasCredit` that it begins below `granted_to`.

None of the three properties is inductive by itself: what the receiver writes
depends on packets under way, which depend on the sender's books, which depend
on grants and RESENDs under way, which depend on the receiver's books. `GridInv`
says of each of these that it stands on the packet grid, and that a fragment, a
received byte or a delivery is covered by the sender's books. One exception
makes it delicate: when the short last chunk has been received, `received_bytes`
is no multiple of `packet_size` and neither is the next grant; but then the
sender has sent everything and grants no longer matter (`SentAll`). The byte
count equals the cardinality of the received slots' bytes, so a count that
reaches `total_len` means that every slot is there: `DeliveryIsWhole`; and a
count short of it means that a slot is missing: `NothingWedged`.

TLC checks `GridInv` as an invariant of `exchange_one`, and `claim_whole` shows
that `Aligned` cannot be dropped.

**Deliveries.** `CacheKeepsCopiesOut` (`ExchangeProofs`, all constants) rests on
the invariant `Recent`: the cache holds the keys of the newest messages of
`inbox`, in their order. A key that is not in it is at least a whole cache away.
`ServiceIsImplemented` (`AlignedProofs`) adds the assumption that the cache has
room for every message: then its keys are pairwise different, by the pigeonhole
principle it is not full without holding all of them, so a message that is
delivered is new; that it is whole and was sent is `GridInv`. So under `Aligned`
`Exchange` implements `MessageService`.

**Queues** (`QueueProofs`, `QueueLogProofs`; any thresholds, budget and bursts).
`Enqueue` and `Room` are recursive functions. That such a function exists, and
what it computes, is shown with `Induction` of `NatLemmas`: the set of numbers up to
`n` for which a statement holds contains 0 and is closed under successor, so it is
`0..n` (a statement about a set, which needs no operator parameter). The
lemmas: a burst is appended behind what is queued, whatever that is
(`EnqueueBehind`), adds its packets and no others (`EnqueueContents`), and a batch is
the front of each queue, where something stays behind only if the room of its
level was used up (`BatchSplits`). `LevelsAreFifo` follows with the types, and
`ShortIsNotBlocked` from the equation that what went out of the levels up to `l`
and the room left for the next add up to the budget.

**Threads** (`TransportProofs`; any number of messages, readers and levels).

- `TransportImplements`: every step of `Transport` is a step of `Exchange` or leaves
  its variables alone.
- `TransportTyped` (the variables of the threads and the contents of the queues; the
  books of the endpoints are in `TransportSchedules`) and `NoPacketForgotten`. The invariant `TransportInv` is the types
  of the threads with `PacketsInv`: queued entries are packets of `net` at a level
  that exists, what is written is in `net`, and a thread that has not called
  `start` has nothing pending. `AccountedFor` is not inductive without them:
  `start` would overwrite what was pending, and a packet whose priority is no
  level would join no queue. The lemma `DrainAccounts` is the step that
  all handlers share. The packets of a handler form a finite set: an infinite one
  could not be put into a queue, and each handler's are shown to be finite.
- `NoWakeupIsLost`: `NoneStranded` is inductive with the type of `reading`, since
  only a delivery makes it wrong, which notifies, and only a thread that has seen
  the queue empty goes to sleep, in the same section.

**End to end** (`EndToEnd`). `TransportIsExchange` turns `T!Spec` into the `Spec` of
`Exchange`, over the same variables, and so carries the theorems about `Exchange`
over to the endpoints with threads and queues: `TransportSchedules` (with the types of
the books) for all constants, `TransportDeliversWhole` when aligned, and `TransportIsService` when the
cache has room for all messages too: threads, queues, condition variable, cores
and network together implement `MessageService`. `TimeoutsAreTrue` needs both
layers: the thread reports a timeout only when `IsDone` is false, and by
`DeliveryIsKnown` that is never so for a delivered message. (`Transport`
instantiates `Exchange` under a name of its own; the lemmas `SameInit` to
`SameReceiverLoop` unfold both copies of the handlers and find them equal.)

**RPC** (`RpcProofs`; any number of calls, attempts and processes).

- `TypeAndNumbers` and `RpcTypeCorrect`: types, and that calls that are under
  way have ids that were handed out, no two the same.
- `CallsAreReachable`: `WaitingIsReachable` is inductive given the types: a waiter
  leaves the map only into the dispatcher's hands or by its own call.
- `HandledOnce`: the invariant `HandlingInv` says that a request carries the id of
  its call, that a worker's id is in the map and no two workers share one, and
  that a handler that has run has left its id there. The map is never emptied,
  so the id stays after the worker.
- `RpcImplements`: for one client process an id names one call (`IdsUnique`, over
  the calls of the present process), so that what is stored and under way under an
  id is the answer of a call that has the id, and what the client holds is the
  answer to its own call or to one of a former process (`RightInv`).
- `LeakIsKnown`: `OnlyTimedOutSendsLeak` becomes inductive with the fact that a
  response is taken for a call only together with its entry in `waiters`
  (`TakenOnce`): the thread that gets its answer has nothing to remove.
- `PlaceholdersAreComputing`, with a panic as the only exception: the id that a
  worker computes for stays in the map, and a worker leaves only by storing the
  response or by the panic of the handler of the call that has this id.
- `StarvesOnlyIfLate`: while neither process was replaced, from the moment the request of an
  attempt is sent, something that will answer it exists, or the request was
  dropped too late (`ServedInv`). Every step that takes one such thing away puts
  the next one there: the request becomes a worker or a response, the worker a
  response, the response a Sender in the dispatcher's hands, that a message in the
  channel. It needs `IdsUnique` and the placeholder invariant: only the call's own
  dropped request can find its entry computing.

**Only model-checked.** Liveness: `SendCompletes`, `EveryReassemblyEnds`,
`SentIsDelivered`, `SendReturns`, `QueuedIsSent`, `BacklogDrains`, `CallsEnd`,
`PatientCallsSucceed`. Progress under fairness, with its `ENABLED`, is beyond the
prover. Every invariant and every safety property of a passing run has a theorem.
Of these `WholeMessages`, `DeliveredIsDone`, `NeverWedged`, `NoFalseTimeout` and
`ImplementsService` need `Aligned`, and `claim_whole` and section 4 show that they
fail without it; `GrantedHaveGap` also needs an increment of at least 2. The
theorems about `Rpc` need no assumption but `RpcAssumption`, and the premise of the
model that frames are whole.

## 6. What could be added

1. Message ids that are reused after a restart of an endpoint, with the receiver's
   stale `completed` and `incoming`.
2. Several patient calls in `rpc_calls`, with a fairness that speaks of a round
   trip as a whole: the dispatcher may be holding the answer of one whenever that
   of another arrives in time.
