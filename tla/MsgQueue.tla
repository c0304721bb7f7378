------------------------------ MODULE MsgQueue ------------------------------
(***************************************************************************)
(* What a message FIFO of the 4G HIF is to its two processors: a bounded   *)
(* queue whose reader looks at messages before it takes them.              *)
(***************************************************************************)
EXTENDS Integers, Sequences

CONSTANTS
  Msg,      \* messages
  MSG_NB    \* cells; the queue holds one message less

VARIABLES
  q,        \* messages posted and not taken
  seen      \* messages the reader has looked at since it last took some

queueVars == <<q, seen>>

MQInit == q = << >> /\ seen = << >>

MQPost(m) ==
  /\ Len(q) < MSG_NB - 1
  /\ q' = Append(q, m)
  /\ UNCHANGED seen

MQLook ==
  /\ Len(seen) < Len(q)
  /\ seen' = Append(seen, q[Len(seen) + 1])
  /\ UNCHANGED q

MQTake(k) ==
  /\ k <= Len(seen)
  /\ q' = SubSeq(q, k + 1, Len(q))
  /\ seen' = << >>

MQNext ==
  \/ \E m \in Msg : MQPost(m)
  \/ MQLook
  \/ \E k \in 0 .. Len(seen) : MQTake(k)

MQSpec == MQInit /\ [][MQNext]_queueVars
==============================================================================
