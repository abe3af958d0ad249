---------------------------- MODULE BoundedFifo -----------------------------
(***************************************************************************)
(* What a queue between an interrupt and a task promises: the entries come *)
(* out in the order they went in, each once and whole, and one is refused  *)
(* only when Capacity others are waiting.                                  *)
(***************************************************************************)
EXTENDS Naturals, Sequences

CONSTANTS Entry, Capacity, Nothing

VARIABLES
  queue,    \* the entries waiting
  current,  \* the entry the task works on, or Nothing
  refused   \* an entry has been refused

vars == <<queue, current, refused>>

Init == queue = <<>> /\ current = Nothing /\ refused = FALSE

Put(e) ==
  /\ Len(queue) < Capacity
  /\ queue' = Append(queue, e)
  /\ UNCHANGED <<current, refused>>

Refuse ==
  /\ Len(queue) = Capacity
  /\ refused' = TRUE
  /\ UNCHANGED <<queue, current>>

Get ==
  /\ current = Nothing /\ queue # <<>>
  /\ current' = Head(queue)
  /\ queue' = Tail(queue)
  /\ UNCHANGED refused

Done ==
  /\ current' = Nothing
  /\ UNCHANGED <<queue, refused>>

Next == Done \/ Refuse \/ Get \/ \E e \in Entry : Put(e)

Spec == Init /\ [][Next]_vars

=============================================================================
