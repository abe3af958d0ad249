------------------------------ MODULE CommMode ------------------------------
(***************************************************************************)
(* The communication mode of the automatic scheduler (sched_comm of        *)
(* app_scheduler.c) and the Modbus writes that feed it (mb_write_single of *)
(* app_modbus.c).  The two share one slot, g_comm_trigger_req, without a   *)
(* lock.  Task04 fills it statement by statement; Task02, of higher        *)
(* priority, wakes up between any two of them, and runs its poll to the    *)
(* end before Task04 goes on.                                              *)
(***************************************************************************)
EXTENDS Naturals, Sequences

CONSTANTS
  Samples,   \* cycle_time_min / interval_min: the samples of a cycle
  Types,     \* the types of request the collector sends,
  Buckets    \* and the buckets it names: the high byte of the value written

Auto == 2    \* "0 = A, 1 = B, 2 = automatic"; the code takes any other byte for
             \* a bucket, and all but 0 for B
Byte == 0 .. 255
Type == {"SAMPLING", "DELIVERY", "DRAIN"}

Requests == Types \X Buckets

VARIABLES
  req,        \* g_comm_trigger_req: type, bucket and pending flag
  todo,       \* the assignments Task04 has yet to make
  running,    \* the scheduler runs, in communication mode
  sampling,   \* sampling_is_active()
  bucket,     \* s_sched.active_bucket
  samples,    \* s_sched.total_samples, modulo Samples
  asked,      \* history: the requests Task04 has begun to write
  did,        \* history: the request Task02 executed last
  overlap,    \* history: a request was written before its predecessor was taken
  filled      \* history: the samples taken into the active bucket since it
              \* became the active one

vars == <<req, todo, running, sampling, bucket, samples, asked, did, overlap, filled>>

Nothing == <<"NONE", 0>>

TypeOK ==
  /\ req \in [type : Type \cup {"NONE"}, bucket : Byte, pending : BOOLEAN]
  /\ Len(todo) <= 3
  /\ running \in BOOLEAN /\ sampling \in BOOLEAN /\ overlap \in BOOLEAN
  /\ bucket \in {0, 1}
  /\ samples \in 0 .. Samples - 1
  /\ asked \subseteq Requests
  /\ did \in (Type \X Byte) \cup {Nothing}
  /\ filled \in 0 .. Samples + 1

Init ==
  /\ req = [type |-> "NONE", bucket |-> 0, pending |-> FALSE]
  /\ todo = <<>>
  /\ running = FALSE /\ sampling = FALSE
  /\ bucket = 0 /\ samples = 0
  /\ asked = {} /\ did = Nothing /\ overlap = FALSE /\ filled = 0

-----------------------------------------------------------------------------
(* Task04 *)

\* Mutant: the flag is raised first.
scheduler_notify_comm_flag_first(r) ==
  <<<<"pending", TRUE>>, <<"type", r[1]>>, <<"bucket", r[2]>>>>

\* The assignments, in the order of the code (the volume is never read).
scheduler_notify_comm(r) ==
  <<<<"type", r[1]>>, <<"bucket", r[2]>>, <<"pending", TRUE>>>>

\* A write to holding register 40, 41 or 42.
mb_write_single ==
  /\ todo = <<>>
  /\ \E r \in Requests :
       /\ todo' = scheduler_notify_comm(r)
       /\ asked' = asked \cup {r}
  /\ overlap' = (overlap \/ req.pending)
  /\ UNCHANGED <<req, running, sampling, bucket, samples, did, filled>>

Assign ==
  /\ todo # <<>>
  /\ req' = [req EXCEPT ![Head(todo)[1]] = Head(todo)[2]]
  /\ todo' = Tail(todo)
  /\ UNCHANGED <<running, sampling, bucket, samples, asked, did, overlap, filled>>

-----------------------------------------------------------------------------
(* Task02 *)

Cleared == [req EXCEPT !.pending = FALSE, !.type = "NONE"]
Active(b) == IF b = Auto THEN bucket ELSE b

Other(b) == 1 - b

\* Mutant: the bucket changes with the first sample of the next cycle.
CycleFullLate(n) == n = 1

\* The sample that makes total_samples a multiple of a cycle's fills the cycle.
CycleFull(n) == n = 0

Sample ==
  LET n == (samples + 1) % Samples
      switch == req.bucket = Auto /\ CycleFull(n)
      into == filled + IF Active(req.bucket) = bucket THEN 1 ELSE 0
  IN /\ ~sampling
     /\ sampling' = TRUE
     /\ samples' = n
     /\ bucket' = IF switch THEN Other(bucket) ELSE bucket
     /\ filled' = IF switch THEN 0 ELSE IF into > Samples THEN Samples + 1 ELSE into
     /\ did' = <<req.type, req.bucket>>

\* Draining is started; what is automatic drains bucket A.
Drain ==
  /\ did' = <<req.type, req.bucket>>
  /\ UNCHANGED <<sampling, bucket, samples, filled>>

\* A request that starts nothing: sampling is busy, the buckets hold no water
\* (nothing writes a non-zero water_a or water_b), or the type is gone.
Drop ==
  /\ req.type = "SAMPLING" => sampling
  /\ req.type # "DRAIN"
  /\ UNCHANGED <<sampling, bucket, samples, filled, did>>

\* sched_comm: whatever becomes of it, the request leaves the slot.
sched_comm ==
  /\ running /\ req.pending
  /\ \/ req.type = "SAMPLING" /\ Sample
     \/ req.type = "DRAIN" /\ Drain
     \/ Drop
  /\ req' = Cleared
  /\ UNCHANGED <<todo, running, asked, overlap>>

SampEnds ==
  /\ sampling /\ sampling' = FALSE
  /\ UNCHANGED <<req, todo, running, bucket, samples, asked, did, overlap, filled>>

\* SYS_START clears the scheduler's state, not the slot.
scheduler_start ==
  /\ running' = TRUE /\ bucket' = 0 /\ samples' = 0 /\ filled' = 0
  /\ UNCHANGED <<req, todo, sampling, asked, did, overlap>>

scheduler_stop ==
  /\ running' = FALSE
  /\ UNCHANGED <<req, todo, sampling, bucket, samples, asked, did, overlap, filled>>

Next ==
  \/ mb_write_single \/ Assign
  \/ sched_comm \/ SampEnds
  \/ scheduler_start \/ scheduler_stop

Spec == Init /\ [][Next]_vars

-----------------------------------------------------------------------------
(* Properties *)

(***************************************************************************)
(* As long as the collector writes no request before its predecessor was   *)
(* taken, Task02 may wake up between any two assignments of Task04 and     *)
(* still executes only what was written.                                   *)
(***************************************************************************)
SpacedRequestsIntact == ~overlap => did \in asked \cup {Nothing}

(***************************************************************************)
(* If every request leaves the bucket to the scheduler, the active bucket  *)
(* changes when, and only when, a cycle's samples have gone into it.       *)
(***************************************************************************)
AutoFillsCycles ==
  (\A r \in asked : r[2] = Auto) => filled = samples

(***************************************************************************)
(* The design (2026-02-24-auto-scheduler-design.md, 4.7): "purely command  *)
(* driven": Task02 executes only requests the collector wrote.             *)
(***************************************************************************)
PurelyCommanded == did \in asked \cup {Nothing}

(***************************************************************************)
(* The same section: "the bucket is switched by the number of samples      *)
(* (samples_per_cycle)": a bucket is left only when a cycle's samples have *)
(* gone into it.                                                           *)
(***************************************************************************)
SwitchedWhenFull ==
  [][bucket' # bucket /\ samples' # samples => filled = Samples - 1]_vars

=============================================================================
