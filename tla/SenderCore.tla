----------------------------- MODULE SenderCore -----------------------------
(***************************************************************************)
(* The sending state machine, src/transport/sender.rs.                     *)
(*                                                                         *)
(* out is the HashMap of messages being sent.  The bytes of a message are  *)
(* DataLen (module Wire); done_at is kept as the Boolean done; the         *)
(* timestamps last_progress and done_at are read only by tick, whose       *)
(* inputs say for which messages poke_timeout or linger has elapsed.       *)
(***************************************************************************)
EXTENDS Wire

VARIABLE out

OutMsg == [granted_to : Nat, next_send : Nat, done : BOOLEAN]

(***************************************************************************)
(* Fragments.  Slice is the packet pump cuts at next_send, wherever that   *)
(* is; Chunk is the packet chunk_range cuts: the one of the fixed grid     *)
(* that holds byte off.                                                    *)
(***************************************************************************)
Slice(m, off) == Data(m, off, Lesser(PacketSize, DataLen[m] - off))
\* Mutant of Chunk: cut where the request starts, not where the slot does.
Chunk_OffGrid(m, off) == Slice(m, off)
Chunk(m, off) == Slice(m, (off \div PacketSize) * PacketSize)

(***************************************************************************)
(* pump: send [next_send, limit) in steps of packet_size.  Rounds is how   *)
(* often the loop runs; the last packet may reach past the limit, never    *)
(* past the end of the message.                                            *)
(***************************************************************************)
Rounds(from, to) == IF from < to THEN (to - from + PacketSize - 1) \div PacketSize ELSE 0

PumpSends(m, msg, limit) ==
  IF msg.done THEN {}
  ELSE {Slice(m, msg.next_send + i * PacketSize) :
          i \in 0 .. Rounds(msg.next_send, Lesser(limit, DataLen[m])) - 1}

\* Mutant of Pump: the grant is used and not entered in the books.
Pump_LimitNotKept(m, msg, limit) ==
  LET to   == Lesser(limit, DataLen[m])
      sent == Lesser(msg.next_send + Rounds(msg.next_send, to) * PacketSize, DataLen[m])
  IN  IF msg.done THEN msg
      ELSE [msg EXCEPT !.next_send = sent, !.done = sent >= DataLen[m]]

Pump(m, msg, limit) ==
  LET to   == Lesser(limit, DataLen[m])
      sent == Lesser(msg.next_send + Rounds(msg.next_send, to) * PacketSize, DataLen[m])
  IN  IF msg.done THEN msg
      ELSE [granted_to |-> Greater(msg.granted_to, to),
            next_send  |-> sent,
            done       |-> sent >= DataLen[m]]

-----------------------------------------------------------------------------
SenderInit == out = EmptyMap

\* start: register the message and send its unscheduled window at once.
Start(m) ==
  LET unscheduled == Lesser(UnscheduledBytes, DataLen[m])
      msg == [granted_to |-> unscheduled, next_send |-> 0, done |-> FALSE]
  IN  /\ out' = Put(out, m, Pump(m, msg, unscheduled))
      /\ Emit(PumpSends(m, msg, unscheduled))

\* handle_grant: a cumulative grant that is not stale unlocks more bytes.
HandleGrant(p) ==
  LET m     == p.msg_id
      limit == Lesser(p.offset, DataLen[m])
  IN  /\ m \in DOMAIN out
      /\ limit > out[m].granted_to
      /\ out' = [out EXCEPT ![m] = Pump(m, @, limit)]
      /\ Answer(p, PumpSends(m, out[m], limit))

(***************************************************************************)
(* handle_resend: send again every chunk that holds a byte of              *)
(* [offset, offset + length).  The request is also an authorisation: the   *)
(* books move up to its end, which need not be a chunk boundary.           *)
(***************************************************************************)
ResendStart(p) == Lesser(p.offset, DataLen[p.msg_id])
ResendEnd(p)   == Lesser(ResendStart(p) + p.length, DataLen[p.msg_id])

\* Mutant of Catchup: chunks are sent again without touching the books.
Catchup_None(m, msg, end) == msg

Catchup(m, msg, end) ==
  [granted_to |-> Greater(msg.granted_to, end),
   next_send  |-> Greater(msg.next_send, end),
   done       |-> msg.done \/ (msg.next_send < end /\ end >= DataLen[m])]

HandleResend(p) ==
  LET m == p.msg_id
  IN  /\ m \in DOMAIN out
      /\ out' = [out EXCEPT ![m] = Catchup(m, @, ResendEnd(p))]
      /\ Answer(p, {Chunk(m, off) : off \in ResendStart(p) .. ResendEnd(p) - 1})

\* handle_busy: only restarts the stall timer, which is an input of SenderTick.
HandleBusy(p) ==
  /\ p.msg_id \in DOMAIN out
  /\ UNCHANGED out
  /\ Answer(p, {})

(***************************************************************************)
(* tick: forget the done messages whose linger has elapsed, then send for  *)
(* every stalled one the last chunk sent so far, as a probe.               *)
(***************************************************************************)
Finished == {m \in DOMAIN out : out[m].done}

Probe(m) == Chunk(m, IF out[m].next_send = 0 THEN 0 ELSE out[m].next_send - 1)

\* Mutant of SenderTick: no probes.
SenderTick_NoProbes(lingered, stalled) ==
  /\ lingered \subseteq Finished
  /\ stalled \subseteq DOMAIN out \ Finished
  /\ out' = Drop(out, lingered)
  /\ UNCHANGED net

SenderTick(lingered, stalled) ==
  /\ lingered \subseteq Finished
  /\ stalled \subseteq DOMAIN out \ Finished
  /\ out' = Drop(out, lingered)
  /\ Emit({Probe(m) : m \in stalled})

\* is_done: all bytes sent, or no longer known.
IsDone(m) == m \in DOMAIN out => out[m].done

\* finish: drop the message at once (send_to gave up).
Finish(m) ==
  /\ out' = Drop(out, {m})
  /\ UNCHANGED net
=============================================================================
