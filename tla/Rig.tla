-------------------------------- MODULE Rig --------------------------------
(***************************************************************************)
(* What the sampler promises about its outputs, without saying how: a set  *)
(* of machines, each with the outputs it may drive; an output is on only   *)
(* while a machine that may drive it is busy; a busy machine gets done.    *)
(***************************************************************************)
CONSTANTS
  Machine,  \* the process state machines
  Output,   \* the valves, stirrers, motors and pumps
  reach     \* reach[m]: the outputs machine m may switch

VARIABLES
  busy,     \* the machines with a job in hand
  on        \* the outputs the machines have switched on

Reached(ms) == UNION {reach[m] : m \in ms}

Init == busy = {} /\ on = {}

\* An accepted start: the machine was free.
Start(m) ==
  /\ m \notin busy
  /\ busy' = busy \cup {m}
  /\ on \subseteq on' /\ on' \subseteq on \cup reach[m]

\* One stage of the job: only outputs the machine may switch change.
Work(m) ==
  /\ m \in busy
  /\ busy' = busy
  /\ on \ reach[m] = on' \ reach[m]
  /\ on' \subseteq Output

\* The end of the job: what only this machine could have left on is off.
Finish(m) ==
  /\ m \in busy
  /\ busy' = busy \ {m}
  /\ on' \subseteq on
  /\ on \ reach[m] = on' \ reach[m]
  /\ on' \subseteq Reached(busy')

\* Outputs are switched off or taken over from outside; jobs may be ended
\* with it, but none of their outputs is left on.
Withdraw ==
  /\ busy' \subseteq busy
  /\ on' \subseteq on
  /\ on' \subseteq Reached(busy')

Next == Withdraw \/ \E m \in Machine : Start(m) \/ Work(m) \/ Finish(m)

Spec == Init /\ [][Next]_<<busy, on>>

\* Every job comes to an end.
EveryJobEnds == \A m \in Machine : (m \in busy) ~> (m \notin busy)

=============================================================================
