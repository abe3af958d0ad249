---------------------------- MODULE AtomicUpdate ----------------------------
(***************************************************************************)
(* What a firmware update promises, without saying how: the board has one  *)
(* firmware; an update replaces it as a whole, in one step, while the      *)
(* present one runs; whatever starts is exactly that firmware.  Power may  *)
(* go at any time.  A board that is down loses its records only for an     *)
(* update.                                                                 *)
(***************************************************************************)
CONSTANT Image  \* what the program area may hold as a whole

VARIABLES
  firmware,  \* the image the next start runs
  running,   \* the image that runs, or none
  pending,   \* an update was made and has not been started yet
  records    \* the board still has the records it kept

None == <<>>

Init ==
  /\ firmware \in Image /\ running = None
  /\ pending \in BOOLEAN /\ records \in BOOLEAN

\* An update, made by the firmware that runs; power may go at this moment.
Commit ==
  /\ running # None
  /\ firmware' \in Image
  /\ running' \in {running, None}
  /\ pending' = TRUE
  /\ UNCHANGED records

Start ==
  /\ running = None
  /\ running' = firmware
  /\ pending' = FALSE
  /\ UNCHANGED <<firmware, records>>

Stop ==
  /\ running' = None
  /\ UNCHANGED <<firmware, pending, records>>

\* A record is kept, or their place is full and used again.
Record ==
  /\ running # None
  /\ records' \in BOOLEAN
  /\ UNCHANGED <<firmware, running, pending>>

\* On the way to the first start the records may be given up, once.
Prepare ==
  /\ running = None /\ pending
  /\ pending' = FALSE
  /\ records' \in {records, FALSE}
  /\ UNCHANGED <<firmware, running>>

Next == Commit \/ Start \/ Stop \/ Record \/ Prepare

Spec == Init /\ [][Next]_<<firmware, running, pending, records>>

=============================================================================
