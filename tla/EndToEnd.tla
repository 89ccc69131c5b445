------------------------------ MODULE EndToEnd ------------------------------
(***************************************************************************)
(* What is proved of the exchange holds of the whole transport: of the     *)
(* threads in send_to and recv, the io_loops, the locks and the queues of  *)
(* module Transport (T below), for every value of the constants.           *)
(*                                                                         *)
(* T uses Exchange through an instance of its own (T!X below).  The first  *)
(* lemmas unfold the definitions of both, to see that they are the same.   *)
(***************************************************************************)
EXTENDS AlignedProofs

CONSTANTS Thresholds, FlushBudget, Readers, MaxBacklog

VARIABLES wire, pending, queues, sending, reading, taken, up

T == INSTANCE Transport

LEMMA SameInit == T!X!Init => Init
BY DEF T!X!Init, Init, T!X!SenderInit, SenderInit, T!X!ReceiverInit, ReceiverInit,
       T!X!EmptyMap, EmptyMap

LEMMA SameCalls ==
  ASSUME NEW m \in Msgs
  PROVE  /\ T!X!SendTo(m) => SendTo(m)
         /\ T!X!TimeOut(m) => TimeOut(m)
<1>1. T!X!SendTo(m) => SendTo(m)
  BY DEF T!X!SendTo, SendTo, T!X!Start, Start, T!X!Pump, Pump, T!X!PumpSends, PumpSends,
         T!X!Rounds, Rounds, T!X!Emit, Emit, T!X!Put, Put, T!X!Slice, Slice, T!X!Data, Data,
         T!X!AsU32, AsU32, T!X!Lesser, Lesser, T!X!Greater, Greater,
         T!X!receiverVars, receiverVars
<1>2. T!X!TimeOut(m) => TimeOut(m)
  BY DEF T!X!TimeOut, TimeOut, T!X!IsDone, IsDone, T!X!Finish, Finish, T!X!Drop, Drop,
         T!X!receiverVars, receiverVars
<1>3. QED
  BY <1>1, <1>2

LEMMA SameSenderLoop ==
  /\ \A p : T!X!RecvGrant(p) => RecvGrant(p)
  /\ \A p : T!X!RecvResend(p) => RecvResend(p)
  /\ \A p : T!X!RecvBusy(p) => RecvBusy(p)
  /\ T!X!TickSender => TickSender
<1>1. \A p : T!X!RecvGrant(p) => RecvGrant(p)
  BY DEF T!X!RecvGrant, RecvGrant, T!X!HandleGrant, HandleGrant, T!X!Answer, Answer,
         T!X!Without, Without, T!X!Pump, Pump, T!X!PumpSends, PumpSends, T!X!Rounds, Rounds,
         T!X!Slice, Slice, T!X!Data, Data, T!X!AsU32, AsU32, T!X!Lesser, Lesser,
         T!X!Greater, Greater, T!X!receiverVars, receiverVars
<1>2. \A p : T!X!RecvResend(p) => RecvResend(p)
  BY DEF T!X!RecvResend, RecvResend, T!X!HandleResend, HandleResend, T!X!Answer, Answer,
         T!X!Without, Without, T!X!Catchup, Catchup, T!X!ResendStart, ResendStart,
         T!X!ResendEnd, ResendEnd, T!X!Chunk, Chunk, T!X!Slice, Slice, T!X!Data, Data,
         T!X!AsU32, AsU32, T!X!Lesser, Lesser, T!X!Greater, Greater,
         T!X!receiverVars, receiverVars
<1>3. \A p : T!X!RecvBusy(p) => RecvBusy(p)
  BY DEF T!X!RecvBusy, RecvBusy, T!X!HandleBusy, HandleBusy, T!X!Answer, Answer,
         T!X!Without, Without, T!X!receiverVars, receiverVars
<1>4. T!X!TickSender => TickSender
  BY DEF T!X!TickSender, TickSender, T!X!SenderTick, SenderTick, T!X!Finished, Finished,
         T!X!Probe, Probe, T!X!Emit, Emit, T!X!Drop, Drop, T!X!Chunk, Chunk, T!X!Slice, Slice,
         T!X!Data, Data, T!X!AsU32, AsU32, T!X!Lesser, Lesser, T!X!receiverVars, receiverVars
<1>5. QED
  BY <1>1, <1>2, <1>3, <1>4

LEMMA SameSchedule ==
  \A msgs, starved, underWay :
    T!X!Schedule(msgs, starved, underWay) <=> Schedule(msgs, starved, underWay)
BY SMT DEF T!X!Schedule, Schedule, T!X!Candidates, Candidates, T!X!IsShortest, IsShortest,
           T!X!Cardinality, Cardinality, T!X!NeedsGrant, NeedsGrant, T!X!Complete, Complete,
           T!X!Remaining, Remaining, T!X!IssueGrant, IssueGrant, T!X!IssuesGrant, IssuesGrant,
           T!X!Outstanding, Outstanding, T!X!GrantTarget, GrantTarget, T!X!Grant, Grant,
           T!X!Lesser, Lesser, T!X!Greater, Greater

LEMMA SameReceiverLoop ==
  /\ \A p : T!X!RecvData(p) => RecvData(p)
  /\ T!X!TickReceiver => TickReceiver
<1>1. \A p : T!X!RecvData(p) => RecvData(p)
  <2>1. \A p : T!X!RefuseData(p) => RefuseData(p)
    BY SMT DEF T!X!RefuseData, RefuseData, T!X!KeysIn, KeysIn, T!X!Refused, Refused,
               T!X!Cardinality, Cardinality, T!X!Answer, Answer, T!X!Without, Without,
               T!X!Busy, Busy, T!X!receiverVars, receiverVars
  <2>2. \A p : T!X!Absorb(p) = Absorb(p)
    BY SMT DEF T!X!Absorb, Absorb, T!X!Current, Current, T!X!NewInMsg, NewInMsg, T!X!Fits, Fits,
               T!X!Missing, Missing, T!X!Chunks, Chunks, T!X!Write, Write, T!X!Lesser, Lesser,
               T!X!Greater, Greater
  <2>3. \A p : T!X!KeysIn(completed) = KeysIn(completed) /\ (T!X!Refused(p) <=> Refused(p))
    BY SMT DEF T!X!KeysIn, KeysIn, T!X!Refused, Refused, T!X!Cardinality, Cardinality
  <2>4. /\ \A p : T!X!Without(p) = Without(p)
        /\ \A msg : T!X!Complete(msg) <=> Complete(msg)
        /\ \A m, buf : T!X!Deliver(m, buf) <=> Deliver(m, buf)
        /\ \A map, keys : T!X!Drop(map, keys) = Drop(map, keys)
        /\ \A map, key, value : T!X!Put(map, key, value) = Put(map, key, value)
    BY SMT DEF T!X!Without, Without, T!X!Complete, Complete, T!X!Deliver, Deliver,
               T!X!Drop, Drop, T!X!Put, Put
  <2>5. \A p, starved : T!X!HandleData(p, starved) => HandleData(p, starved)
    BY <2>2, <2>3, <2>4, SameSchedule DEF T!X!HandleData, HandleData
  <2>6. QED
    BY <2>1, <2>5 DEF T!X!RecvData, RecvData, T!X!senderSide, senderSide
<1>2. T!X!TickReceiver => TickReceiver
  BY SameSchedule
     DEF T!X!TickReceiver, TickReceiver, T!X!ReceiverTick, ReceiverTick, T!X!GapInWindow,
         GapInWindow, T!X!FirstMissing, FirstMissing, T!X!Missing, Missing, T!X!Chunks, Chunks,
         T!X!IssueGrant, IssueGrant, T!X!IssuesGrant, IssuesGrant, T!X!Outstanding, Outstanding,
         T!X!GrantTarget, GrantTarget, T!X!Grant, Grant, T!X!ResendFor, ResendFor,
         T!X!Resend, Resend, T!X!Lesser, Lesser, T!X!Greater, Greater,
         T!X!senderSide, senderSide
<1>3. QED
  BY <1>1, <1>2
-----------------------------------------------------------------------------
\* A step of a thread or an io_loop is a step of the exchange, or none.
LEMMA ThreadsRefine == ASSUME [T!Next]_(T!vars) PROVE [Next]_vars
<1> SUFFICES Next \/ UNCHANGED vars
  OBVIOUS
<1>1. ASSUME NEW m \in Msgs, T!SendTo(m) \/ T!SendStep(m) PROVE Next \/ UNCHANGED vars
  <2>1. CASE T!SendTo(m)
    BY <2>1, SameCalls DEF T!SendTo, Next
  <2>2. CASE T!GiveUp(m)
    BY <2>2, SameCalls DEF T!GiveUp, Next
  <2>3. CASE T!Dispatch(m) \/ T!Return(m) \/ T!Sleep(m) \/ T!Rouse(m)
    BY <2>3 DEF T!Dispatch, T!Return, T!Sleep, T!Rouse, T!xvars, vars
  <2>4. QED
    BY <1>1, <2>1, <2>2, <2>3 DEF T!SendStep
<1>2. ASSUME NEW r \in Readers, T!Recv(r) \/ T!TakeMsg(r) \/ T!RecvNothing(r) \/ T!RouseReader(r)
      PROVE  UNCHANGED vars
  BY <1>2 DEF T!Recv, T!TakeMsg, T!RecvNothing, T!RouseReader, T!MoveReader, T!xvars, vars
<1>3. CASE T!SenderLoop
  <2>1. ASSUME NEW p \in net, T!RecvGrant(p) \/ T!RecvResend(p) \/ T!RecvBusy(p) PROVE Next
    BY <2>1, SameSenderLoop DEF T!RecvGrant, T!RecvResend, T!RecvBusy, Next, Receive
  <2>2. ASSUME NEW p, T!IgnoreGrant(p) \/ T!IgnoreControl(p) PROVE UNCHANGED vars
    BY <2>2 DEF T!IgnoreGrant, T!IgnoreControl, T!xvars, vars
  <2>3. ASSUME T!TickSender PROVE Next
    <3>1. T!X!TickSender
      BY <2>3 DEF T!TickSender, T!X!TickSender, T!X!receiverVars
    <3>2. QED
      BY <3>1, SameSenderLoop DEF Next
  <2>4. QED
    BY <1>3, <2>1, <2>2, <2>3 DEF T!SenderLoop
<1>4. CASE T!ReceiverLoop
  BY <1>4, SameReceiverLoop DEF T!ReceiverLoop, T!RecvData, Next, Receive
<1>5. ASSUME NEW e, T!Shutdown(e) PROVE UNCHANGED vars
  BY <1>5 DEF T!Shutdown, T!xvars, vars
<1>6. CASE UNCHANGED T!vars
  BY <1>6 DEF T!vars, T!xvars, vars
<1>7. QED
  BY <1>1, <1>2, <1>3, <1>4, <1>5, <1>6 DEF T!Next

LEMMA TransportIsExchange == T!Spec => Spec
<1>1. T!Init => Init
  BY SameInit DEF T!Init
<1>2. [T!Next]_(T!vars) => [Next]_vars
  BY ThreadsRefine
<1>3. QED
  BY <1>1, <1>2, PTL DEF T!Spec, Spec

(***************************************************************************)
(* Whatever the threads and queues do, the books of sender and receiver    *)
(* keep their types, the credit under way and the sender's overshoot are   *)
(* bounded, the grant set is up to date and never short of credit, and     *)
(* copies are kept out by the cache (sender.rs, receiver.rs).              *)
(***************************************************************************)
THEOREM TransportSchedules ==
  T!Spec => [](/\ TypeOK /\ CreditBounded /\ OvershootBounded
               /\ KeptOutByShorter /\ GrantSetHasCredit
               /\ RedeliveryNeedsEviction)
BY TransportIsExchange, TypeCorrect, CreditIsBounded, OvershootIsBounded, ScheduleIsUpToDate,
   GrantedHaveCredit, CacheKeepsCopiesOut, PTL

(***************************************************************************)
(* With windows on the packet grid, recv returns whole messages only, and  *)
(* no reassembly is wedged, under any interleaving of the threads.         *)
(***************************************************************************)
THEOREM TransportDeliversWhole ==
  ASSUME Aligned PROVE T!Spec => [](WholeMessages /\ DeliveredIsDone /\ NeverWedged)
BY TransportIsExchange, DeliveryIsWhole, DeliveryIsKnown, NothingWedged, PTL

(***************************************************************************)
(* send_to reports TimedOut only for messages that have not been handed    *)
(* up: it looks at is_done first, and handle_resend keeps the books.       *)
(***************************************************************************)
THEOREM TimeoutsAreTrue == ASSUME Aligned PROVE T!Spec => T!NoFalseTimeout
<1>1. DeliveredIsDone /\ [T!Next]_(T!vars)
        => [\A m \in timedOut' \ timedOut : m \notin T!X!Delivered]_(T!vars)
  <2> SUFFICES ASSUME DeliveredIsDone, [Next]_vars, NEW m \in timedOut' \ timedOut
               PROVE  m \notin T!X!Delivered
    BY ThreadsRefine
  <2>1. ~IsDone(m)
    BY DEF Next, vars, SendTo, TimeOut, Receive, RecvGrant, RecvResend, RecvBusy, RecvData,
           TickSender, TickReceiver, LosePacket, senderSide
  <2>2. m \notin Delivered
    BY <2>1 DEF DeliveredIsDone
  <2>3. QED
    BY <2>2 DEF T!X!Delivered, Delivered
<1>2. T!Spec => []DeliveredIsDone
  BY TransportIsExchange, DeliveryIsKnown, PTL
<1>3. QED
  BY <1>1, <1>2, PTL DEF T!Spec, T!NoFalseTimeout

(***************************************************************************)
(* The transport is the service its users are promised: every message that *)
(* was sent is handed up at most once, and then whole.                     *)
(***************************************************************************)
THEOREM TransportIsService ==
  ASSUME Aligned, IsFiniteSet(Msgs), Cardinality(Msgs) <= CompletedCache
  PROVE  T!Spec => ImplementsService
BY TransportIsExchange, ServiceIsImplemented, PTL
=============================================================================
