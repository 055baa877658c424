--------------------------- MODULE RawEventFifo ----------------------------
(***************************************************************************)
(* What a LocalQueue promises the one thread that fills it and the one     *)
(* thread that drains it: a bounded first-in first-out buffer of pointers  *)
(* to raw events.  An event is refused only when the buffer is full, and   *)
(* the drain is told NULL when the buffer is empty.                        *)
(***************************************************************************)
EXTENDS Naturals, Sequences

CONSTANTS Event, NULL, Capacity

VARIABLES
  buf,      \* the events accepted and not yet handed over
  reply,    \* what the filling thread was last told: <<event, accepted>>
  out       \* what the draining thread was last handed, or NULL

Init ==
  /\ buf = <<>>
  /\ reply = <<>>
  /\ out = NULL

Accept(e) ==
  /\ Len(buf) < Capacity
  /\ buf' = Append(buf, e)
  /\ reply' = <<e, TRUE>>
  /\ UNCHANGED out

Refuse(e) ==
  /\ Len(buf) = Capacity
  /\ reply' = <<e, FALSE>>
  /\ UNCHANGED <<buf, out>>

HandOver ==
  /\ buf # <<>>
  /\ out' = Head(buf)
  /\ buf' = Tail(buf)
  /\ UNCHANGED reply

Nothing ==
  /\ buf = <<>>
  /\ out' = NULL
  /\ UNCHANGED <<buf, reply>>

Next ==
  \/ \E e \in Event : Accept(e) \/ Refuse(e)
  \/ HandOver
  \/ Nothing

Spec == Init /\ [][Next]_<<buf, reply, out>>
=============================================================================
