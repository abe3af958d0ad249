-------------------------- MODULE ScreenLinkProofs --------------------------
(***************************************************************************)
(* The ring between the panel's interrupt and Task03 implements a bounded  *)
(* queue, and Task03 with the interrupt acts as if each frame were handled *)
(* at its arrival while none overtakes another: for every size of the ring *)
(* and every set of values, passwords and commands.                        *)
(*                                                                         *)
(* The inductive invariant says what Task03 has read so far: in the middle *)
(* of taking a command out, the ring is not empty and the copies are those *)
(* of its oldest entry, which the interrupt never writes to.               *)
(***************************************************************************)
EXTENDS ScreenLink, SequenceTheorems, TLAPS

Copied ==
  /\ step \in {"value", "advance"} => ~IsEmpty /\ class = s_cmd_buf[s_cmd_rd].class
  /\ step = "advance" => value = s_cmd_buf[s_cmd_rd].value

IInv == LinkTypeOK /\ Copied

-----------------------------------------------------------------------------
LEMMA SuccFact ==
  ASSUME NEW i \in Slot
  PROVE  Succ(i) = (IF i = N - 1 THEN 0 ELSE i + 1) /\ Succ(i) \in Slot
<1> USE RingAssumption DEF Slot, Succ
<1>1. CASE i = N - 1
  <2>1. N % N = 0
    BY SMT
  <2> QED BY <1>1, <2>1
<1>2. CASE i # N - 1
  <2>1. (i + 1) % N = i + 1
    BY <1>2, SMTT(30)
  <2> QED BY <1>2, <2>1
<1> QED BY <1>1, <1>2

LEMMA QueueFact ==
  ASSUME LinkTypeOK
  PROVE  /\ Waiting \in 0 .. N - 1
         /\ \A i \in 1 .. Waiting : Place(i) \in Slot
         /\ Queue \in Seq(Command) /\ Len(Queue) = Waiting
         /\ IsEmpty <=> Waiting = 0
         /\ IsFull <=> Waiting = N - 1
<1> USE RingAssumption DEF LinkTypeOK
<1>1. Waiting \in 0 .. N - 1 /\ (IsEmpty <=> Waiting = 0)
  BY DEF Waiting, Slot, IsEmpty
<1>2. \A i \in 1 .. Waiting : Place(i) \in Slot
  BY <1>1 DEF Place, Slot
<1>3. Queue \in Seq(Command) /\ Len(Queue) = Waiting
  BY <1>1, <1>2 DEF Queue
<1>4. Succ(s_cmd_wr) = IF s_cmd_wr = N - 1 THEN 0 ELSE s_cmd_wr + 1
  BY SuccFact
<1>5. IsFull <=> Waiting = N - 1
  BY <1>4 DEF IsFull, Waiting, Slot
<1> QED BY <1>1, <1>2, <1>3, <1>5

-----------------------------------------------------------------------------
(* The invariant *)

LEMMA InitIInv == LinkInit => IInv
<1> SUFFICES ASSUME LinkInit PROVE IInv
  OBVIOUS
<1>1. 0 \in Payload
  BY LoginAssumption
<1>2. Zero \in Command /\ 0 \in Slot
  BY <1>1, RingAssumption DEF Zero, Command, Class, Slot
<1>3. class \in Class /\ value \in Payload
  BY <1>1 DEF LinkInit, Zero, Class
<1>4. Now \in State /\ told = Now
  BY <1>1 DEF LinkInit, Now, State, Page
<1>5. LinkTypeOK
  BY <1>2, <1>3, <1>4 DEF LinkInit, LinkTypeOK, Step
<1> QED BY <1>5 DEF IInv, Copied, LinkInit

\* Each frame leaves a page and a login.
LEMMA OutcomeType ==
  ASSUME NEW s \in State
  PROVE  /\ Entered(s) \in State
         /\ \A p \in Page : Shown(s, p) \in State
         /\ \A word \in Payload : Given(s, word) \in State
         /\ \A c \in Command : Outcome(s, c) \in State
<1>1. ASSUME NEW t \in State PROVE Entered(t) \in State
  BY LoginAssumption DEF Entered, State, Page
<1>2. ASSUME NEW t \in State, NEW p \in Page PROVE Shown(t, p) \in State
  BY DEF Shown, State
<1>3. ASSUME NEW t \in State, NEW word \in Payload PROVE Given(t, word) \in State
  BY DEF Given, State
<1>4. "SETTINGS" \in Page /\ "MANUAL" \in Page
  BY DEF Page
<1>5. ASSUME NEW c \in Command PROVE Outcome(s, c) \in State
  <2>1. c.value \in Payload
    BY DEF Command
  <2>2. Shown(s, "SETTINGS") \in State /\ Shown(s, "MANUAL") \in State
    BY <1>2, <1>4
  <2>3. Given(Shown(s, "SETTINGS"), c.value) \in State
    BY <1>3, <2>1, <2>2
  <2>4. Entered(s) \in State /\ Entered(Shown(s, "SETTINGS")) \in State
    BY <1>1, <2>2
  <2> QED BY <2>2, <2>3, <2>4 DEF Outcome
<1> QED BY <1>1, <1>2, <1>3, <1>5

LEMMA BeforeType == LinkTypeOK => Before \in State
BY DEF LinkTypeOK, Before

LEMMA NextIInv == IInv /\ [LinkNext]_linkVars => IInv'
<1> SUFFICES ASSUME IInv, [LinkNext]_linkVars PROVE IInv'
  OBVIOUS
<1> USE RingAssumption DEF IInv, LinkTypeOK, Copied, IsEmpty
<1>0. Before \in State
  BY BeforeType
<1>s. page \in Page /\ password \in Payload /\ waiting \in BOOLEAN /\ 0 \in Payload
  BY LoginAssumption DEF Now, State
<1>1. CASE CommandArrives
  <2>1. PICK c \in Commands : Arrives(c)
    BY <1>1 DEF CommandArrives
  <2>c. c \in Command
    BY CommandsAssumption
  <2>a. UNCHANGED <<task, screen>> /\ Now' = Now
    BY <2>1 DEF Arrives, screen, Now
  <2>2. CASE ~Queued(c) \/ IsFull
    <3>1. UNCHANGED <<ring, told, overtaken>> /\ full' \in BOOLEAN
      BY <2>1, <2>2 DEF Arrives, history
    <3> QED BY <2>a, <3>1 DEF ring, task
  <2>3. CASE Queued(c) /\ ~IsFull
    <3>1. /\ s_cmd_buf' = [s_cmd_buf EXCEPT ![s_cmd_wr] = c]
          /\ s_cmd_wr' = Succ(s_cmd_wr)
          /\ UNCHANGED <<s_cmd_rd, full>>
          /\ told' = Outcome(Before, c) /\ overtaken' = (overtaken /\ ~Quiet)
      BY <2>1, <2>3 DEF Arrives
    <3>t. told' \in State /\ overtaken' \in BOOLEAN
      BY <1>0, <2>c, <3>1, OutcomeType
    <3>2. LinkTypeOK'
      BY <2>c, <2>a, <3>1, <3>t, SuccFact DEF task
    <3>3. ~IsEmpty => s_cmd_buf'[s_cmd_rd] = s_cmd_buf[s_cmd_rd]
      BY <3>1
    <3>4. s_cmd_wr' # s_cmd_rd
      BY <2>3, <3>1 DEF IsFull
    <3> QED BY <2>a, <3>1, <3>2, <3>3, <3>4 DEF task
  <2> QED BY <2>2, <2>3
<1>2. CASE PageNotice
  <2>1. told' \in State /\ overtaken' \in BOOLEAN /\ Now' \in State
    BY <1>0, <1>2, <1>s, OutcomeType DEF PageNotice, HandledNow, Now, State
  <2> QED BY <1>2, <2>1 DEF PageNotice, ring, task
<1>3. CASE Password
  <2>1. told' \in State /\ overtaken' \in BOOLEAN /\ Now' \in State
    BY <1>0, <1>3, <1>s, OutcomeType DEF Password, HandledNow, Now, State
  <2> QED BY <1>3, <2>1 DEF Password, ring, task
<1>4. CASE LoginConfirm
  <2>1. told' \in State /\ overtaken' \in BOOLEAN
    BY <1>0, <1>4, OutcomeType DEF LoginConfirm, HandledNow
  <2>2. Now' \in State
    BY <1>4, <1>s DEF LoginConfirm, Opened, Page, Now, State, screen
  <2> QED BY <1>4, <2>1, <2>2 DEF LoginConfirm, ring, task
<1>5. CASE ReadClass
  BY <1>5 DEF ReadClass, ring, screen, history, Now, Command, Step
<1>6. CASE ReadValue
  BY <1>6 DEF ReadValue, ring, screen, history, Now, Command, Step
<1>7. CASE Advance
  BY <1>7, SuccFact DEF Advance, screen, history, Now, Step, Handling
<1>8. CASE Handle
  <2>1. Now' \in State
    BY <1>8, <1>s DEF Handle, Page, Now, State
  <2>2. step' \in {"poll", "store", "confirm"}
    BY <1>8 DEF Handle
  <2> QED BY <1>8, <2>1, <2>2 DEF Handle, ring, history, Step, Handling
<1>9. CASE Store \/ Ask \/ Confirm \/ Judge \/ SwitchSent \/ Clear \/ Done \/ Refresh \/ Sent
  <2>1. Now' \in State
    BY <1>9, <1>s DEF Store, Ask, Confirm, Judge, SwitchSent, Clear, Done, Refresh, Sent,
         To, screen, Opened, Page, Now, State
  <2>2. /\ UNCHANGED <<ring, class, value, history>>
        /\ step' \in Step \ {"value", "advance"}
    BY <1>9 DEF Store, Ask, Confirm, Judge, SwitchSent, Clear, Done, Refresh, Sent,
         To, Step, Handling
  <2> QED BY <2>1, <2>2 DEF ring, history
<1>10. CASE UNCHANGED linkVars
  BY <1>10 DEF linkVars, ring, task, screen, history, Now
<1> QED BY <1>1, <1>2, <1>3, <1>4, <1>5, <1>6, <1>7, <1>8, <1>9, <1>10 DEF LinkNext

\* Every variable keeps its type.
THEOREM TypeCorrect == LinkSpec => []LinkTypeOK
<1>1. IInv => LinkTypeOK
  BY DEF IInv
<1> QED BY InitIInv, NextIInv, <1>1, PTL DEF LinkSpec

-----------------------------------------------------------------------------
(* The steps *)

LEMMA PutStep ==
  ASSUME IInv, NEW c \in Command, ~IsFull,
         s_cmd_buf' = [s_cmd_buf EXCEPT ![s_cmd_wr] = c],
         s_cmd_wr' = Succ(s_cmd_wr), s_cmd_rd' = s_cmd_rd
  PROVE  Len(Queue) < N - 1 /\ Queue' = Append(Queue, c)
<1> USE RingAssumption
<1>1. s_cmd_wr \in Slot /\ s_cmd_rd \in Slot /\ s_cmd_buf \in [Slot -> Command]
  BY DEF IInv, LinkTypeOK
<1>2. Len(Queue) = Waiting /\ Waiting \in 0 .. N - 2 /\ Queue \in Seq(Command)
  BY QueueFact DEF IInv
<1>3. s_cmd_wr' = IF s_cmd_wr = N - 1 THEN 0 ELSE s_cmd_wr + 1
  BY <1>1, SuccFact
<1>4. s_cmd_wr' # s_cmd_rd
  BY DEF IsFull
<1>5. Waiting' = Waiting + 1
  BY <1>1, <1>3, <1>4 DEF Waiting, Slot
<1>6. \A i \in 1 .. Waiting : Place(i)' = Place(i) /\ Place(i) # s_cmd_wr /\ Place(i) \in Slot
  BY <1>1, <1>2 DEF Place, Waiting, Slot
<1>w. PICK w \in 0 .. N - 2 : w = Waiting
  BY <1>2
<1>7. Place(w + 1)' = s_cmd_wr
  BY <1>1, <1>w DEF Place, Waiting, Slot
<1>8. Queue' = [i \in 1 .. Waiting + 1 |-> s_cmd_buf'[Place(i)']]
  BY <1>5 DEF Queue
<1>9. \A i \in 1 .. Waiting : Queue'[i] = Queue[i]
  <2> TAKE i \in 1 .. Waiting
  <2>1. Queue'[i] = s_cmd_buf'[Place(i)']
    BY <1>2, <1>8
  <2>2. Queue[i] = s_cmd_buf[Place(i)]
    BY DEF Queue
  <2> QED BY <1>1, <1>6, <2>1, <2>2
<1>10. Queue'[w + 1] = c
  BY <1>1, <1>w, <1>7, <1>8
<1>11. \A i \in 1 .. w + 1 : s_cmd_buf'[Place(i)'] \in Command
  <2> TAKE i \in 1 .. w + 1
  <2>1. CASE i = w + 1
    BY <1>1, <1>7, <2>1
  <2>2. CASE i # w + 1
    <3>1. i \in 1 .. Waiting
      BY <1>w, <2>2
    <3> QED BY <1>1, <1>6, <3>1
  <2> QED BY <2>1, <2>2
<1>12. Queue' \in Seq(Command) /\ Len(Queue') = Waiting + 1
  BY <1>w, <1>8, <1>11
<1>13. /\ Append(Queue, c) \in Seq(Command) /\ Len(Append(Queue, c)) = Waiting + 1
       /\ \A i \in 1 .. Waiting : Append(Queue, c)[i] = Queue[i]
       /\ Append(Queue, c)[Waiting + 1] = c
  BY <1>2, AppendProperties
<1>14. \A i \in 1 .. Waiting + 1 : Queue'[i] = Append(Queue, c)[i]
  <2> TAKE i \in 1 .. Waiting + 1
  <2>1. i \in 1 .. Waiting \/ i = Waiting + 1
    BY <1>2
  <2> QED BY <1>w, <1>9, <1>10, <1>13, <2>1
<1>15. Queue' = Append(Queue, c)
  BY <1>12, <1>13, <1>14, SeqEqual
<1> QED BY <1>2, <1>15

LEMMA GetStep ==
  ASSUME IInv, step = "advance", s_cmd_rd' = Succ(s_cmd_rd),
         s_cmd_buf' = s_cmd_buf, s_cmd_wr' = s_cmd_wr
  PROVE  /\ Queue # <<>>
         /\ Head(Queue) = [class |-> class, value |-> value]
         /\ Queue' = Tail(Queue)
<1> USE RingAssumption
<1>1. s_cmd_wr \in Slot /\ s_cmd_rd \in Slot /\ s_cmd_buf \in [Slot -> Command]
  BY DEF IInv, LinkTypeOK
<1>2. s_cmd_rd # s_cmd_wr
  BY DEF IInv, Copied, IsEmpty
<1>3. Len(Queue) = Waiting /\ Waiting \in 1 .. N - 1 /\ Queue \in Seq(Command)
  BY <1>2, QueueFact DEF IInv, IsEmpty
<1>4. s_cmd_rd' = IF s_cmd_rd = N - 1 THEN 0 ELSE s_cmd_rd + 1
  BY <1>1, SuccFact
<1>5. Waiting' = Waiting - 1
  BY <1>1, <1>2, <1>4 DEF Waiting, Slot
<1>6. \A i \in 1 .. Waiting - 1 :
        Place(i)' = Place(i + 1) /\ i + 1 \in 1 .. Waiting /\ Place(i + 1) \in Slot
  BY <1>1, <1>3, <1>4 DEF Place, Waiting, Slot
<1>7. Queue' = [i \in 1 .. Waiting - 1 |-> s_cmd_buf[Place(i)']]
  BY <1>5 DEF Queue
<1>8. Queue' \in Seq(Command) /\ Len(Queue') = Waiting - 1
  BY <1>1, <1>3, <1>6, <1>7
<1>9. /\ Tail(Queue) \in Seq(Command) /\ Len(Tail(Queue)) = Waiting - 1
      /\ \A i \in 1 .. Waiting - 1 : Tail(Queue)[i] = Queue[i + 1]
  <2>1. Queue # <<>>
    BY <1>3
  <2> QED BY <1>3, <2>1, HeadTailProperties
<1>10. \A i \in 1 .. Waiting - 1 : Queue'[i] = Queue[i + 1]
  BY <1>6, <1>7 DEF Queue
<1>11. Queue' = Tail(Queue)
  BY <1>8, <1>9, <1>10, SeqEqual
<1>12. Head(Queue) = s_cmd_buf[s_cmd_rd]
  BY <1>1, <1>3 DEF Queue, Place, Slot
<1>13. s_cmd_buf[s_cmd_rd] \in Command
  BY <1>1
<1>14. class = s_cmd_buf[s_cmd_rd].class /\ value = s_cmd_buf[s_cmd_rd].value
  BY DEF IInv, Copied
<1>15. s_cmd_buf[s_cmd_rd] = [class |-> class, value |-> value]
  BY <1>13, <1>14 DEF Command
<1> QED BY <1>3, <1>11, <1>12, <1>15

\* What leaves the ring, and the entry being handled, alone is a stutter.
LEMMA StutterAside ==
  ASSUME UNCHANGED <<ring, task, full>>
  PROVE  UNCHANGED Fifo!vars
<1>1. Queue' = Queue
  BY DEF Queue, Waiting, Place, ring
<1>2. Current' = Current
  BY DEF Current, task
<1> QED BY <1>1, <1>2 DEF Fifo!vars

LEMMA StutterCopy ==
  ASSUME UNCHANGED <<ring, full>>,
         \/ step \notin Handling /\ step' \notin Handling
         \/ step \in Handling /\ step' \in Handling /\ UNCHANGED <<class, value>>
  PROVE  UNCHANGED Fifo!vars
<1>1. Queue' = Queue
  BY DEF Queue, Waiting, Place, ring
<1>2. Current' = Current
  BY DEF Current
<1> QED BY <1>1, <1>2 DEF Fifo!vars

LEMMA InitRefines == LinkInit => Fifo!Init
<1> SUFFICES ASSUME LinkInit PROVE Fifo!Init
  OBVIOUS
<1>1. Waiting = 0
  BY DEF LinkInit, Waiting
<1>2. Queue = <<>>
  BY <1>1 DEF Queue
<1>3. Current = Nothing /\ full = FALSE
  BY DEF LinkInit, Current, Handling
<1> QED BY <1>2, <1>3 DEF Fifo!Init

\* The statement after which Task03 is done with an entry.
LEMMA Finished ==
  ASSUME UNCHANGED <<ring, full>>, step' = "poll"
  PROVE  Fifo!Done
<1>1. Queue' = Queue
  BY DEF Queue, Waiting, Place, ring
<1>2. Current' = Nothing
  BY DEF Current, Handling
<1> QED BY <1>1, <1>2 DEF Fifo!Done

LEMMA NextRefines == IInv /\ IInv' /\ [LinkNext]_linkVars => [Fifo!Next]_Fifo!vars
<1> SUFFICES ASSUME IInv, IInv', [LinkNext]_linkVars PROVE [Fifo!Next]_Fifo!vars
  OBVIOUS
<1>1. CASE CommandArrives
  <2>1. PICK c \in Command : Arrives(c)
    BY <1>1, CommandsAssumption DEF CommandArrives
  <2>2. CASE ~Queued(c)
    BY <2>1, <2>2, StutterAside DEF Arrives, history
  <2>3. Current' = Current
    BY <2>1 DEF Arrives, Current, task
  <2>4. CASE Queued(c) /\ IsFull
    <3>1. Queue' = Queue
      BY <2>1, <2>4 DEF Arrives, Queue, Waiting, Place, ring
    <3>2. Len(Queue) = N - 1
      BY <2>4, QueueFact DEF IInv
    <3>3. Fifo!Refuse
      BY <2>1, <2>3, <2>4, <3>1, <3>2 DEF Arrives, Fifo!Refuse
    <3> QED BY <3>3 DEF Fifo!Next
  <2>5. CASE Queued(c) /\ ~IsFull
    <3>1. Len(Queue) < N - 1 /\ Queue' = Append(Queue, c)
      BY <2>1, <2>5, PutStep DEF Arrives, IInv
    <3>2. Fifo!Put(c)
      BY <2>1, <2>3, <2>5, <3>1 DEF Arrives, Fifo!Put
    <3> QED BY <3>2 DEF Fifo!Next
  <2> QED BY <2>2, <2>4, <2>5
<1>2. CASE PageNotice \/ Password \/ LoginConfirm
  BY <1>2, StutterAside DEF PageNotice, Password, LoginConfirm
<1>3. CASE ReadClass \/ ReadValue \/ Refresh \/ Sent
  <2>1. UNCHANGED <<ring, full>> /\ step \notin Handling /\ step' \notin Handling
    BY <1>3 DEF ReadClass, ReadValue, Refresh, Sent, Idle, To, history, Handling
  <2>2. UNCHANGED Fifo!vars
    BY <2>1, StutterCopy
  <2> QED BY <2>2
<1>4. CASE Advance
  <2>1. /\ Queue # <<>> /\ Queue' = Tail(Queue)
        /\ Head(Queue) = [class |-> class, value |-> value]
    BY <1>4, GetStep DEF Advance
  <2>2. Current = Nothing /\ Current' = [class |-> class, value |-> value]
    BY <1>4 DEF Advance, Current, Handling
  <2>3. Fifo!Get
    BY <1>4, <2>1, <2>2 DEF Fifo!Get, Advance, history
  <2> QED BY <2>3 DEF Fifo!Next
<1>5. CASE Handle \/ Store \/ Ask \/ Confirm \/ Judge \/ SwitchSent \/ Clear \/ Done
  <2>1. UNCHANGED <<ring, class, value, full>> /\ step \in Handling
    BY <1>5 DEF Handle, Store, Ask, Confirm, Judge, SwitchSent, Clear, Done, To, history, Handling
  <2>2. step' = "poll" \/ step' \in Handling
    BY <1>5 DEF Handle, Store, Ask, Confirm, Judge, SwitchSent, Clear, Done, To, Handling
  <2>3. CASE step' = "poll"
    BY <2>1, <2>3, Finished DEF Fifo!Next
  <2>4. CASE step' \in Handling
    BY <2>1, <2>4, StutterCopy
  <2> QED BY <2>2, <2>3, <2>4
<1>6. CASE UNCHANGED linkVars
  BY <1>6, StutterAside DEF linkVars, history
<1> QED BY <1>1, <1>2, <1>3, <1>4, <1>5, <1>6 DEF LinkNext

\* The ring is a queue of N - 1 places: whenever the interrupt strikes, commands
\* are handled in their order, each once and whole, and dropped only when it is
\* full.
THEOREM Refinement == LinkSpec => ImplementsFifo
<1>1. IInv /\ IInv' /\ [LinkNext]_linkVars => [Fifo!Next]_Fifo!vars
  BY NextRefines
<1> QED BY InitIInv, NextIInv, InitRefines, <1>1, PTL DEF LinkSpec, ImplementsFifo, Fifo!Spec

-----------------------------------------------------------------------------
(* Page and login.  While no frame has overtaken another, handling the rest *)
(* of the current command and then, one after the other, all that wait in  *)
(* the ring leads from the state there is to the one the frames have told. *)

\* The state when Task03 is done with the command it has taken out.
Rest ==
  CASE step = "handle"  -> Outcome(Now, [class |-> class, value |-> value])
    [] step = "confirm" -> Entered(Now)
    [] step = "judge"   -> [page |-> Opened(password), password |-> 0, waiting |-> FALSE]
    [] step \in {"switch", "clear"} -> [page |-> page, password |-> 0, waiting |-> FALSE]
    [] step = "done"    -> [page |-> page, password |-> password, waiting |-> FALSE]
    [] step = "store"   -> [page |-> page, password |-> value, waiting |-> TRUE]
    [] step = "ask"     -> [page |-> page, password |-> password, waiting |-> TRUE]
    [] OTHER            -> Now

\* f[i] is the state when the first i commands of the ring have been handled.
Leads(f, last) ==
  /\ f[0] = Rest
  /\ \A i \in 1 .. Waiting : f[i] = Outcome(f[i - 1], Queue[i])
  /\ f[Waiting] = last

OrderInv == ~overtaken => \E f : Leads(f, told)

\* With nothing waiting and no command in hand, the state leads to itself.
LEMMA QuietLeads ==
  ASSUME Waiting = 0, step \in {"poll", "send"}
  PROVE  \E f : Leads(f, Now)
<1> DEFINE f == [i \in {0} |-> Now]
<1>1. Rest = Now
  BY DEF Rest
<1>2. Leads(f, Now)
  BY <1>1 DEF Leads
<1> QED BY <1>2

LEMMA InitOrder == LinkInit => OrderInv
<1> SUFFICES ASSUME LinkInit PROVE OrderInv
  OBVIOUS
<1>1. Waiting = 0 /\ step = "poll" /\ told = Now
  BY DEF LinkInit, Waiting
<1> QED BY <1>1, QuietLeads DEF OrderInv

\* A statement of Task03 that does its part of the current command.
LEMMA OrderAside ==
  ASSUME OrderInv, UNCHANGED <<ring, told, overtaken>>, Rest' = Rest
  PROVE  OrderInv'
<1>1. Queue' = Queue /\ Waiting' = Waiting
  BY DEF Queue, Waiting, Place, ring
<1>2. SUFFICES ASSUME ~overtaken' PROVE (\E f : Leads(f, told))'
  BY DEF OrderInv
<1>3. PICK f : Leads(f, told)
  BY <1>2 DEF OrderInv
<1>4. /\ f[0] = Rest'
      /\ \A i \in 1 .. Waiting' : f[i] = Outcome(f[i - 1], Queue'[i])
      /\ f[Waiting'] = told'
  BY <1>1, <1>3 DEF Leads
<1> QED BY <1>4 DEF Leads

\* The interrupt puts a command behind those that wait.
LEMMA OrderPut ==
  ASSUME IInv, OrderInv, NEW c \in Command, ~IsFull,
         s_cmd_buf' = [s_cmd_buf EXCEPT ![s_cmd_wr] = c],
         s_cmd_wr' = Succ(s_cmd_wr), s_cmd_rd' = s_cmd_rd,
         UNCHANGED <<task, screen>>,
         told' = Outcome(Before, c), overtaken' = (overtaken /\ ~Quiet)
  PROVE  OrderInv'
<1>0. Len(Queue) = Waiting /\ Waiting \in Nat /\ (IsEmpty <=> Waiting = 0)
      /\ Queue \in Seq(Command)
  BY QueueFact, RingAssumption DEF IInv
<1>1. Queue' = Append(Queue, c)
  BY PutStep
<1>2. Waiting' = Waiting + 1
  <2>1. s_cmd_wr' = IF s_cmd_wr = N - 1 THEN 0 ELSE s_cmd_wr + 1
    BY SuccFact DEF IInv, LinkTypeOK
  <2>2. s_cmd_wr' # s_cmd_rd
    BY DEF IsFull
  <2> QED BY <2>1, <2>2, RingAssumption DEF Waiting, IInv, LinkTypeOK, Slot
<1>3. /\ \A i \in 1 .. Waiting : Append(Queue, c)[i] = Queue[i]
      /\ Append(Queue, c)[Waiting + 1] = c
  BY <1>0, AppendProperties
<1>4. Rest' = Rest
  BY DEF Rest, Now, task, screen
<1>5. SUFFICES ASSUME ~overtaken' PROVE (\E f : Leads(f, told))'
  BY DEF OrderInv
<1>6. PICK f : Leads(f, Before)
  <2>1. CASE Quiet
    BY <1>0, <2>1, QuietLeads DEF Quiet, Before
  <2>2. CASE ~Quiet
    BY <1>5, <2>2 DEF OrderInv, Before
  <2> QED BY <2>1, <2>2
<1> DEFINE g == [i \in 0 .. Waiting + 1 |-> IF i = Waiting + 1 THEN told' ELSE f[i]]
<1>7. g[0] = Rest'
  BY <1>0, <1>4, <1>6 DEF Leads
<1>8. ASSUME NEW i \in 1 .. Waiting + 1
      PROVE  g[i] = Outcome(g[i - 1], Append(Queue, c)[i])
  <2>1. CASE i = Waiting + 1
    <3>1. g[i] = told' /\ g[i - 1] = f[Waiting]
      BY <1>0, <2>1
    <3> QED BY <1>3, <1>6, <2>1, <3>1 DEF Leads
  <2>2. CASE i # Waiting + 1
    <3>1. i \in 1 .. Waiting /\ g[i] = f[i] /\ g[i - 1] = f[i - 1]
      BY <1>0, <2>2
    <3> QED BY <1>3, <1>6, <3>1 DEF Leads
  <2> QED BY <2>1, <2>2
<1>9. g[Waiting + 1] = told'
  BY <1>0
<1>10. /\ g[0] = Rest'
       /\ \A i \in 1 .. Waiting' : g[i] = Outcome(g[i - 1], Queue'[i])
       /\ g[Waiting'] = told'
  BY <1>1, <1>2, <1>7, <1>8, <1>9
<1> HIDE DEF g
<1> QED BY <1>10 DEF Leads

\* Task03 takes the oldest command out: it becomes the current one.
LEMMA OrderGet ==
  ASSUME IInv, OrderInv, Advance
  PROVE  OrderInv'
<1>0. Len(Queue) = Waiting /\ Waiting \in Nat /\ Queue \in Seq(Command)
  BY QueueFact, RingAssumption DEF IInv
<1>1. /\ step = "advance" /\ s_cmd_rd' = Succ(s_cmd_rd) /\ step' = "handle"
      /\ UNCHANGED <<s_cmd_buf, s_cmd_wr, class, value, page, password, waiting>>
      /\ UNCHANGED <<told, overtaken>>
  BY DEF Advance, screen, history
<1>2. Queue # <<>> /\ Queue' = Tail(Queue) /\ Head(Queue) = [class |-> class, value |-> value]
  BY <1>1, GetStep
<1>3. /\ Waiting \in Nat \ {0} /\ Queue[1] = Head(Queue)
      /\ \A i \in 1 .. Waiting - 1 : Tail(Queue)[i] = Queue[i + 1]
  BY <1>0, <1>2, HeadTailProperties
<1>4. Waiting' = Waiting - 1
  <2>1. s_cmd_rd' = (IF s_cmd_rd = N - 1 THEN 0 ELSE s_cmd_rd + 1) /\ s_cmd_rd # s_cmd_wr
    BY <1>1, SuccFact DEF IInv, LinkTypeOK, Copied, IsEmpty
  <2> QED BY <1>1, <2>1, RingAssumption DEF Waiting, IInv, LinkTypeOK, Slot
<1>5. Rest = Now /\ Rest' = Outcome(Now, [class |-> class, value |-> value])
  <2>1. Now' = Now
    BY <1>1 DEF Now
  <2> QED BY <1>1, <2>1 DEF Rest
<1>6. SUFFICES ASSUME ~overtaken' PROVE (\E f : Leads(f, told))'
  BY DEF OrderInv
<1>7. PICK f : Leads(f, told)
  BY <1>1, <1>6 DEF OrderInv
<1> DEFINE g == [i \in 0 .. Waiting - 1 |-> f[i + 1]]
<1>8. g[0] = Rest'
  BY <1>2, <1>3, <1>5, <1>7 DEF Leads
<1>9. ASSUME NEW i \in 1 .. Waiting - 1
      PROVE  g[i] = Outcome(g[i - 1], Tail(Queue)[i])
  <2>1. i + 1 \in 1 .. Waiting /\ g[i] = f[i + 1] /\ g[i - 1] = f[i]
    BY <1>3
  <2>2. f[i + 1] = Outcome(f[(i + 1) - 1], Queue[i + 1]) /\ (i + 1) - 1 = i
    BY <1>7, <2>1 DEF Leads
  <2> QED BY <1>3, <2>1, <2>2
<1>10. g[Waiting - 1] = told
  BY <1>3, <1>7 DEF Leads
<1>11. /\ g[0] = Rest'
       /\ \A i \in 1 .. Waiting' : g[i] = Outcome(g[i - 1], Queue'[i])
       /\ g[Waiting'] = told'
  BY <1>1, <1>2, <1>4, <1>8, <1>9, <1>10
<1> HIDE DEF g
<1> QED BY <1>11 DEF Leads

\* The interrupt handles a frame itself: with nothing waiting it counts from
\* here on, otherwise it overtakes.
LEMMA OrderNow ==
  ASSUME IInv, NEW s, HandledNow(s), UNCHANGED <<ring, task>>, Quiet => Now' = s
  PROVE  OrderInv'
<1>0. IsEmpty <=> Waiting = 0
  BY QueueFact DEF IInv
<1>1. SUFFICES ASSUME Quiet PROVE (\E f : Leads(f, told))'
  BY DEF OrderInv, HandledNow
<1>2. Waiting' = 0 /\ step' \in {"poll", "send"}
  BY <1>0, <1>1 DEF Waiting, Quiet, ring, task
<1>3. told' = Now'
  BY <1>1 DEF HandledNow
<1>4. (\E f : Leads(f, Now))'
  <2>1. ASSUME Waiting' = 0, step' \in {"poll", "send"} PROVE (\E f : Leads(f, Now))'
    <3> DEFINE g == [i \in {0} |-> Now']
    <3>1. Rest' = Now'
      BY <2>1 DEF Rest
    <3>2. g[0] = Rest' /\ (\A i \in 1 .. Waiting' : g[i] = Outcome(g[i - 1], Queue'[i]))
          /\ g[Waiting'] = Now'
      BY <2>1, <3>1
    <3> HIDE DEF g
    <3> QED BY <3>2 DEF Leads
  <2> QED BY <1>2, <2>1
<1> QED BY <1>3, <1>4 DEF Leads

LEMMA NextOrder == IInv /\ OrderInv /\ [LinkNext]_linkVars => OrderInv'
<1> SUFFICES ASSUME IInv, OrderInv, [LinkNext]_linkVars PROVE OrderInv'
  OBVIOUS
<1>1. CASE CommandArrives
  <2>1. PICK c \in Command : Arrives(c)
    BY <1>1, CommandsAssumption DEF CommandArrives
  <2>2. CASE ~Queued(c) \/ IsFull
    <3>1. UNCHANGED <<ring, told, overtaken, task, screen>>
      BY <2>1, <2>2 DEF Arrives, history
    <3>2. Rest' = Rest
      BY <3>1 DEF Rest, Now, task, screen
    <3> QED BY <3>1, <3>2, OrderAside
  <2>3. CASE Queued(c) /\ ~IsFull
    BY <2>1, <2>3, OrderPut DEF Arrives
  <2> QED BY <2>2, <2>3
<1>2. CASE PageNotice
  <2>1. PICK p \in Page : /\ page' = p /\ HandledNow(Shown(Before, p))
                          /\ UNCHANGED <<ring, task, password, waiting, full>>
    BY <1>2 DEF PageNotice
  <2>2. Quiet => Now' = Shown(Before, p)
    BY <2>1 DEF Before, Now, Shown
  <2> QED BY <2>1, <2>2, OrderNow
<1>3. CASE Password
  <2>1. PICK word \in Payload : /\ password' = word /\ waiting' = TRUE
                                /\ HandledNow(Given(Before, word))
                                /\ UNCHANGED <<ring, task, page, full>>
    BY <1>3 DEF Password
  <2>2. Now' = [page |-> page, password |-> word, waiting |-> TRUE]
    BY <2>1 DEF Now
  <2>3. Given(Now, word) = [page |-> page, password |-> word, waiting |-> TRUE]
    BY DEF Now, Given
  <2>4. Quiet => Now' = Given(Before, word)
    BY <2>2, <2>3 DEF Before
  <2> QED BY <2>1, <2>4, OrderNow
<1>4. CASE LoginConfirm
  <2>1. HandledNow(Entered(Before)) /\ UNCHANGED <<ring, task, full>>
    BY <1>4 DEF LoginConfirm
  <2>2. Quiet => Now' = Entered(Before)
    BY <1>4 DEF LoginConfirm, Before, Now, Entered, Opened, screen
  <2> QED BY <2>1, <2>2, OrderNow
<1>5. CASE Advance
  BY <1>5, OrderGet
<1>6. CASE ReadClass \/ ReadValue \/ Refresh \/ Sent
  <2>1. /\ UNCHANGED <<ring, told, overtaken, screen>>
        /\ step \in {"poll", "value", "send"} /\ step' \in {"poll", "value", "advance", "send"}
    BY <1>6 DEF ReadClass, ReadValue, Refresh, Sent, Idle, To, history
  <2>2. Rest = Now /\ Rest' = Now' /\ Now' = Now
    BY <2>1 DEF Rest, Now, screen
  <2> QED BY <2>1, <2>2, OrderAside
<1>7. CASE Handle
  <2>1. UNCHANGED <<ring, told, overtaken, class, value, password, waiting>>
    BY <1>7 DEF Handle, history
  <2>t. class \in Class /\ value \in Payload
    BY DEF IInv, LinkTypeOK
  <2>2. Rest = Outcome(Now, [class |-> class, value |-> value])
    BY <1>7 DEF Handle, Rest
  <2>3. CASE class = "PASSWORD"
    <3>1. Rest' = [page |-> "SETTINGS", password |-> value, waiting |-> TRUE]
      BY <1>7, <2>1, <2>3 DEF Handle, Rest
    <3>2. Rest = [page |-> "SETTINGS", password |-> value, waiting |-> TRUE]
      BY <2>2, <2>3 DEF Outcome, Given, Shown, Now
    <3> QED BY <2>1, <3>1, <3>2, OrderAside
  <2>4. CASE class \in {"ENTER", "CONFIRM"} /\ value = LOGIN
    <3>1. step' = "confirm"
      BY <1>7, <2>4 DEF Handle
    <3>2. Rest' = Entered(Now')
      BY <3>1 DEF Rest, Entered, Now
    <3>3. Now' = IF class = "ENTER" THEN Shown(Now, "SETTINGS") ELSE Now
      BY <1>7, <2>1, <2>4 DEF Handle, Now, Shown
    <3>4. Rest = IF class = "ENTER" THEN Entered(Shown(Now, "SETTINGS")) ELSE Entered(Now)
      BY <2>2, <2>4 DEF Outcome
    <3> QED BY <2>1, <3>2, <3>3, <3>4, OrderAside
  <2>5. CASE class # "PASSWORD" /\ ~(class \in {"ENTER", "CONFIRM"} /\ value = LOGIN)
    <3>1. step' = "poll"
      BY <1>7, <2>5 DEF Handle
    <3>2. Rest' = Now'
      BY <3>1 DEF Rest, Now
    <3>3. Now' = CASE class \in {"SETTINGS", "ENTER"} -> Shown(Now, "SETTINGS")
                   [] class = "MANUAL" -> Shown(Now, "MANUAL")
                   [] OTHER -> Now
      BY <1>7, <2>1, <2>5 DEF Handle, Now, Shown
    <3>4. Rest = CASE class \in {"SETTINGS", "ENTER"} -> Shown(Now, "SETTINGS")
                   [] class = "MANUAL" -> Shown(Now, "MANUAL")
                   [] OTHER -> Now
      BY <2>t, <2>2, <2>5 DEF Outcome, Class
    <3> QED BY <2>1, <3>2, <3>3, <3>4, OrderAside
  <2> QED BY <2>3, <2>4, <2>5
<1>8. CASE Store \/ Ask \/ Judge \/ SwitchSent \/ Clear \/ Done
  <2>1. UNCHANGED <<ring, told, overtaken>>
    BY <1>8 DEF Store, Ask, Judge, SwitchSent, Clear, Done, To, history
  <2>2. CASE Store
    BY <2>1, <2>2, OrderAside DEF Store, To, Rest
  <2>3. CASE Ask
    BY <2>1, <2>3, OrderAside DEF Ask, To, Rest, Now
  <2>4. CASE Judge
    BY <2>1, <2>4, OrderAside DEF Judge, To, Rest
  <2>5. CASE SwitchSent
    BY <2>1, <2>5, OrderAside DEF SwitchSent, To, Rest, screen
  <2>6. CASE Clear
    BY <2>1, <2>6, OrderAside DEF Clear, To, Rest
  <2>7. CASE Done
    BY <2>1, <2>7, OrderAside DEF Done, To, Rest, Now
  <2> QED BY <1>8, <2>2, <2>3, <2>4, <2>5, <2>6, <2>7
<1>9. CASE Confirm
  <2>1. UNCHANGED <<ring, told, overtaken, page, password, waiting>> /\ step = "confirm"
    BY <1>9 DEF Confirm, To, screen, history
  <2>2. Rest = Entered(Now)
    BY <2>1 DEF Rest
  <2>3. CASE waiting
    <3>1. step' = "judge"
      BY <1>9, <2>3 DEF Confirm, To
    <3> QED BY <2>1, <2>2, <2>3, <3>1, OrderAside DEF Rest, Entered, Opened, Now
  <2>4. CASE ~waiting
    <3>1. step' = "poll"
      BY <1>9, <2>4 DEF Confirm, To
    <3> QED BY <2>1, <2>2, <2>4, <3>1, OrderAside DEF Rest, Entered, Now
  <2> QED BY <2>3, <2>4
<1>10. CASE UNCHANGED linkVars
  <2>1. UNCHANGED <<ring, task, screen, told, overtaken>>
    BY <1>10 DEF linkVars, history
  <2>2. Rest' = Rest
    BY <2>1 DEF Rest, Now, task, screen
  <2> QED BY <2>1, <2>2, OrderAside
<1> QED BY <1>1, <1>2, <1>3, <1>4, <1>5, <1>6, <1>7, <1>8, <1>9, <1>10 DEF LinkNext

\* With every command handled, page and login are what they would be had each
\* frame been handled whole at its arrival, unless one has overtaken another.
THEOREM OrderSafe == LinkSpec => []AsOnArrival
<1>1. IInv /\ OrderInv => AsOnArrival
  <2> SUFFICES ASSUME IInv, OrderInv, Quiet, ~overtaken PROVE Now = told
    BY DEF AsOnArrival
  <2>1. Waiting = 0
    BY QueueFact DEF IInv, Quiet
  <2>2. PICK f : Leads(f, told)
    BY DEF OrderInv
  <2>3. Rest = Now
    BY DEF Rest, Quiet
  <2> QED BY <2>1, <2>2, <2>3 DEF Leads
<1> QED BY InitIInv, NextIInv, InitOrder, NextOrder, <1>1, PTL DEF LinkSpec

=============================================================================
