----------------------------- MODULE RpcService -----------------------------
(***************************************************************************)
(* What the RPC layer does for its users, seen from above the frames: one  *)
(* server process runs the handler at most once for a call, and a call     *)
(* that succeeds returns what a handler computed for it.  A call that      *)
(* fails may have run or not.                                              *)
(*                                                                         *)
(* On the first of these the repository speaks in two voices.  WIRE.md     *)
(* (line 74), the draft (357-361) and a comment in rpc/mod.rs (63-65) say  *)
(* that the handler runs at most once for an rpc_id.  The head of          *)
(* rpc/mod.rs (3-6) and the draft again (193-195) say at-least-once: it    *)
(* may be called several times and has to be idempotent.  The code is      *)
(* between the two: at most once per server process, as the map that knows *)
(* a call lives and dies with it.                                          *)
(*                                                                         *)
(* The second has an exception no document speaks of.  A client process    *)
(* that binds the address of an earlier one uses its rpc_ids again, and    *)
(* may be given the answers to the calls of the former.                    *)
(***************************************************************************)
CONSTANT Calls

VARIABLES
  called,   \* calls the clients have made
  former,   \* calls of client processes that are gone
  runs,     \* runs[c]: how often the present server has run the handler for c
  handled,  \* calls for which the handler of any server has run
  result    \* result[c]: "pending", "timedOut", or the call whose answer c got

Init ==
  /\ called = {} /\ former = {}
  /\ runs = [c \in Calls |-> 0]
  /\ handled = {}
  /\ result = [c \in Calls |-> "pending"]

Call(c) ==
  /\ c \notin called
  /\ called' = called \cup {c}
  /\ UNCHANGED <<former, runs, handled, result>>

Run(c) ==
  /\ c \in called /\ runs[c] = 0
  /\ runs' = [runs EXCEPT ![c] = 1]
  /\ handled' = handled \cup {c}
  /\ UNCHANGED <<called, former, result>>

Succeed(c) ==
  /\ result[c] = "pending" /\ c \in called \ former
  /\ \E d \in handled \cap ({c} \cup former) : result' = [result EXCEPT ![c] = d]
  /\ UNCHANGED <<called, former, runs, handled>>

Fail(c) ==
  /\ result[c] = "pending" /\ c \in called \ former
  /\ result' = [result EXCEPT ![c] = "timedOut"]
  /\ UNCHANGED <<called, former, runs, handled>>

\* A new process knows nothing of what the old one has run.
NewServer ==
  /\ runs' = [c \in Calls |-> 0]
  /\ UNCHANGED <<called, former, handled, result>>

NewClient ==
  /\ former' = called
  /\ UNCHANGED <<called, runs, handled, result>>

Next ==
  \/ \E c \in Calls : Call(c) \/ Run(c) \/ Succeed(c) \/ Fail(c)
  \/ NewServer \/ NewClient

Spec == Init /\ [][Next]_<<called, former, runs, handled, result>>
=============================================================================
