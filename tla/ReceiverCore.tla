---------------------------- MODULE ReceiverCore ----------------------------
(***************************************************************************)
(* The receiving state machine, src/transport/receiver.rs: reassembly and  *)
(* the GRANT scheduler (SRPT, overcommit, anti-starvation).                *)
(*                                                                         *)
(* incoming is the HashMap of messages being reassembled.  buf is the set  *)
(* of positions that hold the byte that belongs there (the rest of the     *)
(* zero-filled buffer was never written, or was written with another       *)
(* byte); received is the bitmap, as the set of indices that are true.     *)
(* last_progress and last_grant are read only against timeouts; the inputs *)
(* stalled, hung and starved say whose resend_timeout, grant_timeout and   *)
(* starve_threshold have elapsed.  inbox is State.completed of             *)
(* src/transport/mod.rs, where drain puts every Deliver action.            *)
(***************************************************************************)
EXTENDS Wire, Sequences, FiniteSets

CONSTANTS
  GrantIncrement,        \* cfg.grant_increment
  MaxIncoming,           \* cfg.max_incoming
  Overcommit,            \* cfg.overcommit
  MaxUnansweredResends,  \* MAX_UNANSWERED_RESENDS, 40 in the code
  CompletedCache         \* COMPLETED_CACHE, 4096 in the code

ASSUME ReceiverAssumption ==
  /\ GrantIncrement \in Nat
  /\ MaxIncoming \in Nat
  /\ Overcommit \in Nat
  /\ MaxUnansweredResends \in Nat
  /\ CompletedCache \in Nat \ {0}

VARIABLES incoming, granting, completed, inbox
receiverVars == <<incoming, granting, completed, inbox>>

InMsg == [total_len : Nat, buf : SUBSET Nat, received : SUBSET Nat,
          received_bytes : Nat, granted_to : Nat, unanswered : Nat]

NewInMsg(total) ==
  [total_len |-> total, buf |-> {}, received |-> {}, received_bytes |-> 0,
   granted_to |-> Lesser(UnscheduledBytes, total), unanswered |-> 0]

Chunks(total) == Greater((total + PacketSize - 1) \div PacketSize, 1)
Remaining(msg) == msg.total_len - msg.received_bytes
Complete(msg)  == msg.received_bytes = msg.total_len
NeedsGrant(msg) == ~Complete(msg) /\ msg.granted_to < msg.total_len

\* first_missing_offset, compared with the granted window.
Missing(msg) == {i \in 0 .. Chunks(msg.total_len) - 1 : i \notin msg.received}
FirstMissing(msg) == CHOOSE i \in Missing(msg) : \A j \in Missing(msg) : i <= j
\* Mutant of GapInWindow: only a gap before something that arrived counts.
GapInWindow_HolesOnly(msg) ==
  Missing(msg) # {} /\ \E i \in msg.received : FirstMissing(msg) < i
GapInWindow(msg) ==
  Missing(msg) # {} /\ FirstMissing(msg) * PacketSize < msg.granted_to

(***************************************************************************)
(* issue_grant: extend the granted window to one increment past what has   *)
(* arrived, unless at least half an increment is still outstanding.        *)
(***************************************************************************)
Outstanding(msg) == Greater(msg.granted_to - msg.received_bytes, 0)
\* Mutant of GrantTarget: every GRANT, repeated ones too, adds an increment.
GrantTarget_Accumulates(msg) == Lesser(msg.granted_to + GrantIncrement, msg.total_len)
GrantTarget(msg) ==
  Greater(Lesser(msg.received_bytes + GrantIncrement, msg.total_len), msg.granted_to)

IssuesGrant(msg, force) ==
  force \/ /\ Outstanding(msg) < GrantIncrement \div 2
           /\ GrantTarget(msg) # msg.granted_to

\* Mutant of IssueGrant: the GRANT goes out and the window stays.
IssueGrant_NotKept(msg, force) == msg
IssueGrant(msg, force) ==
  IF IssuesGrant(msg, force) THEN [msg EXCEPT !.granted_to = GrantTarget(msg)] ELSE msg

(***************************************************************************)
(* schedule, run on the messages msgs: the overcommit shortest of those    *)
(* that need a grant (a stable sort of a HashMap: ties break either way)   *)
(* and all that starve enter the grant set.  The GRANTs join the packets   *)
(* underWay.                                                               *)
(***************************************************************************)
Candidates(msgs) == {m \in DOMAIN msgs : NeedsGrant(msgs[m])}

\* Mutant of IsShortest: sorted the other way round.
IsShortest_Longest(chosen, msgs) ==
  LET cands == Candidates(msgs)
  IN  /\ chosen \subseteq cands
      /\ Cardinality(chosen) = Lesser(Greater(Overcommit, 1), Cardinality(cands))
      /\ \A m \in chosen, n \in cands \ chosen : Remaining(msgs[m]) >= Remaining(msgs[n])

IsShortest(chosen, msgs) ==
  LET cands == Candidates(msgs)
  IN  /\ chosen \subseteq cands
      /\ Cardinality(chosen) = Lesser(Greater(Overcommit, 1), Cardinality(cands))
      /\ \A m \in chosen, n \in cands \ chosen : Remaining(msgs[m]) <= Remaining(msgs[n])

Schedule(msgs, starved, underWay) ==
  \E chosen \in SUBSET Candidates(msgs) :
    LET selected == chosen \cup (starved \cap Candidates(msgs))
    IN  /\ IsShortest(chosen, msgs)
        /\ granting' = selected
        /\ incoming' = [m \in DOMAIN msgs |->
                          IF m \in selected THEN IssueGrant(msgs[m], FALSE) ELSE msgs[m]]
        /\ net' = underWay \cup {Grant(m, GrantTarget(msgs[m])) :
                                    m \in {n \in selected : IssuesGrant(msgs[n], FALSE)}}

-----------------------------------------------------------------------------
ReceiverInit ==
  /\ incoming = EmptyMap
  /\ granting = {}
  /\ completed = <<>>
  /\ inbox = <<>>

KeysIn(seq) == {seq[i] : i \in DOMAIN seq}

(***************************************************************************)
(* handle_data.  A packet of a delivered message is ignored; one of an     *)
(* unknown message is refused with BUSY when max_incoming messages are     *)
(* being received.  Otherwise the payload is written if its bitmap slot is *)
(* free and it fits, a complete message is delivered, and schedule runs.   *)
(***************************************************************************)
Refused(p) ==
  p.msg_id \notin DOMAIN incoming /\ Cardinality(DOMAIN incoming) >= MaxIncoming

Current(p) ==
  IF p.msg_id \in DOMAIN incoming THEN incoming[p.msg_id] ELSE NewInMsg(p.msg_len)

\* Mutant of Fits: a chunk that has arrived is taken again.
Fits_Again(p, msg) == p.offset + p.length <= p.msg_len

Fits(p, msg) ==
  /\ p.offset \div PacketSize \in Missing(msg)
  /\ p.offset + p.length <= p.msg_len

\* Mutant of Write: every chunk counts as a full packet, the last one too.
Write_CountsPackets(p, msg) ==
  LET span == p.offset .. p.offset + p.length - 1
  IN  [msg EXCEPT !.buf = (@ \ span) \cup (IF p.source = p.offset THEN span ELSE {}),
                  !.received = @ \cup {p.offset \div PacketSize},
                  !.received_bytes = @ + PacketSize, !.unanswered = 0]

Write(p, msg) ==
  LET span == p.offset .. p.offset + p.length - 1
  IN  [total_len |-> msg.total_len,
       buf |-> (msg.buf \ span) \cup (IF p.source = p.offset THEN span ELSE {}),
       received |-> msg.received \cup {p.offset \div PacketSize},
       received_bytes |-> msg.received_bytes + p.length,
       granted_to |-> msg.granted_to,
       unanswered |-> 0]

\* Mutant of Absorb: a duplicate is taken for a sign of progress.
Absorb_DuplicateIsProgress(p) ==
  [(IF Fits(p, Current(p)) THEN Write(p, Current(p)) ELSE Current(p)) EXCEPT !.unanswered = 0]

Absorb(p) == IF Fits(p, Current(p)) THEN Write(p, Current(p)) ELSE Current(p)

\* Mutant of Deliver: the key is not remembered.
Deliver_Forgets(m, buf) ==
  UNCHANGED completed /\ inbox' = Append(inbox, [msg_id |-> m, buf |-> buf])

\* Mutant of Deliver: appends before it looks whether the cache is full.
Deliver_EvictsEarly(m, buf) ==
  /\ completed' = IF Len(completed) + 1 >= CompletedCache
                  THEN Tail(Append(completed, m)) ELSE Append(completed, m)
  /\ inbox' = Append(inbox, [msg_id |-> m, buf |-> buf])

\* deliver: remember the key (evicting the oldest) and hand the bytes up.
Deliver(m, buf) ==
  /\ completed' = Append(IF Len(completed) >= CompletedCache
                         THEN Tail(completed) ELSE completed, m)
  /\ inbox' = Append(inbox, [msg_id |-> m, buf |-> buf])

RefuseData(p) ==
  /\ p.msg_id \notin KeysIn(completed)
  /\ Refused(p)
  /\ Answer(p, {Busy(p.msg_id)})
  /\ UNCHANGED receiverVars

\* Mutant of HandleData: a delivered message does not reschedule the others.
HandleData_StaleGrants(p, starved) ==
  LET m   == p.msg_id
      msg == Absorb(p)
  IN  /\ m \notin KeysIn(completed)
      /\ ~Refused(p)
      /\ starved \subseteq DOMAIN incoming
      /\ IF p.msg_len = 0 \/ Complete(msg)
         THEN /\ Deliver(m, IF p.msg_len = 0 THEN {} ELSE msg.buf)
              /\ incoming' = Drop(incoming, {m})
              /\ net' = Without(p)
              /\ UNCHANGED granting
         ELSE /\ UNCHANGED <<completed, inbox>>
              /\ Schedule(Put(incoming, m, msg), starved, Without(p))

HandleData(p, starved) ==
  LET m   == p.msg_id
      msg == Absorb(p)
  IN  /\ m \notin KeysIn(completed)
      /\ ~Refused(p)
      /\ starved \subseteq DOMAIN incoming
      /\ IF p.msg_len = 0 \/ Complete(msg)
         THEN /\ Deliver(m, IF p.msg_len = 0 THEN {} ELSE msg.buf)
              /\ Schedule(Drop(incoming, {m}), starved, Without(p))
         ELSE /\ UNCHANGED <<completed, inbox>>
              /\ Schedule(Put(incoming, m, msg), starved, Without(p))

(***************************************************************************)
(* tick.  A stalled message with a gap in its granted window asks for the  *)
(* gap to be sent again, and is abandoned after too many such requests in  *)
(* a row; one without a gap whose grant_timeout has elapsed too gets its   *)
(* GRANT again if it is in the grant set.  Then schedule runs.             *)
(***************************************************************************)
ResendFor(m) ==
  LET off == FirstMissing(incoming[m]) * PacketSize
  IN  Resend(m, off, Lesser(incoming[m].granted_to - off, GrantIncrement))

ReceiverTick(stalled, hung, starved) ==
  LET gaps      == {m \in stalled : GapInWindow(incoming[m])}
      abandoned == {m \in gaps : incoming[m].unanswered >= MaxUnansweredResends}
      regrants  == (hung \cap granting) \ gaps
      ticked    == [m \in DOMAIN incoming \ abandoned |->
                      IF m \in gaps THEN [incoming[m] EXCEPT !.unanswered = @ + 1]
                      ELSE IF m \in regrants THEN IssueGrant(incoming[m], TRUE)
                      ELSE incoming[m]]
  IN  /\ stalled \subseteq DOMAIN incoming
      /\ hung \subseteq stalled
      /\ starved \subseteq DOMAIN incoming
      /\ Schedule(ticked, starved \ regrants,
                  net \cup {ResendFor(m) : m \in gaps}
                      \cup {Grant(m, GrantTarget(incoming[m])) : m \in regrants})
      /\ UNCHANGED <<completed, inbox>>
=============================================================================
