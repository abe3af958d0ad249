----------------------------- MODULE ScreenLink -----------------------------
(***************************************************************************)
(* The link between the touch panel and the controller (app_screen.c): the *)
(* receive interrupt (screen_isr_callback), which handles page notices, a  *)
(* password and the login itself and puts every other command into a ring, *)
(* and Task03, which takes the commands out of the ring, handles them and  *)
(* refreshes the home page.  The interrupt may strike between any two      *)
(* reads and writes of Task03, and in the middle of a frame it sends.      *)
(*                                                                         *)
(* Of a command the model keeps the class of its address and its value; of *)
(* what its handler does, the page the controller believes is shown and    *)
(* the login.  Any command may come while any page is shown: the panel     *)
(* sends 0x50xx and 0x52xx from several of them.                           *)
(***************************************************************************)
EXTENDS Integers, Sequences

CONSTANTS
  N,         \* SCR_CMD_BUF_SIZE, 32 in the code
  Payload,   \* values of commands
  LOGIN,     \* 0x3701, SCR_ACT_LOGIN_CONFIRM with its parameter
  Passwords, \* the passwords that open a page; 0x0000 is one of them
  Commands   \* the commands that come from the panel

\* 0x50xx and 0x51xx, of these 0x5002 and 0x5004, then 0x52xx, 0x0001 to
\* 0x00FF, 0x0000, and the legacy addresses.
Class == {"SETTINGS", "PASSWORD", "ENTER", "MANUAL", "CONFIRM", "ZERO", "LEGACY"}
Command == [class : Class, value : Payload]

ASSUME RingAssumption == N \in Nat \ {0, 1}
ASSUME LoginAssumption ==
  LOGIN \in Payload /\ 0 \in Passwords /\ Passwords \subseteq Payload \ {LOGIN}

ASSUME CommandsAssumption == Commands \subseteq Command

Page == {"HOME", "SETTINGS", "MANUAL", "UNKNOWN"}
Slot == 0 .. N - 1
Zero == [class |-> "ZERO", value |-> 0]
Nothing == [class |-> "NONE"]

VARIABLES
  s_cmd_buf, s_cmd_wr, s_cmd_rd,   \* the ring
  step,         \* Task03: the statement it is at
  class, value, \* its copies of the entry
  page,         \* s_scr_state.current_page
  password,     \* s_login_password
  waiting,      \* s_login_wait_confirm
  full,         \* history: a command was dropped because the ring was full
  told,         \* history: page and login, had each frame been handled at once
  overtaken     \* history: a frame was handled while earlier ones waited

ring == <<s_cmd_buf, s_cmd_wr, s_cmd_rd>>
task == <<step, class, value>>
screen == <<page, password, waiting>>
history == <<full, told, overtaken>>
linkVars == <<ring, task, screen, history>>

\* Task03 between taking an entry out and being done with it.
Handling == {"handle", "confirm", "judge", "switch", "clear", "done", "store", "ask"}
Step == Handling \cup {"poll", "value", "advance", "send"}

\* What a frame can change: page and login.
State == [page : Page, password : Payload, waiting : BOOLEAN]
Now == [page |-> page, password |-> password, waiting |-> waiting]

LinkTypeOK ==
  /\ s_cmd_buf \in [Slot -> Command] /\ s_cmd_wr \in Slot /\ s_cmd_rd \in Slot
  /\ step \in Step /\ class \in Class /\ value \in Payload
  /\ Now \in State /\ told \in State
  /\ full \in BOOLEAN /\ overtaken \in BOOLEAN

LinkInit ==
  /\ s_cmd_buf = [i \in Slot |-> Zero]
  /\ s_cmd_wr = 0 /\ s_cmd_rd = 0
  /\ step = "poll" /\ class = Zero.class /\ value = Zero.value
  /\ page = "HOME" /\ password = 0 /\ waiting = FALSE
  /\ full = FALSE /\ told = Now /\ overtaken = FALSE

-----------------------------------------------------------------------------
\* Mutants: the index is not taken round; the write index itself is compared.
SuccUnwrapped(i) == i + 1

Succ(i) == (i + 1) % N

IsFullByIndex == s_cmd_wr = s_cmd_rd

IsFull == Succ(s_cmd_wr) = s_cmd_rd
IsEmpty == s_cmd_rd = s_cmd_wr
Idle == step = "poll" /\ IsEmpty

\* The page that a login opens, or the one that says it has failed.
Opened(word) == IF word \in Passwords THEN "SETTINGS" ELSE "UNKNOWN"

-----------------------------------------------------------------------------
(* History: what the frames tell when each is handled as it arrives.  With *)
(* nothing waiting this starts afresh from the state there is.             *)

Quiet == step \in {"poll", "send"} /\ IsEmpty
Before == IF Quiet THEN Now ELSE told

\* A login is asked for.
Entered(s) ==
  IF s.waiting
  THEN [page |-> IF s.password \in Passwords THEN "SETTINGS" ELSE "UNKNOWN",
        password |-> 0, waiting |-> FALSE]
  ELSE s

Shown(s, p) == [s EXCEPT !.page = p]
Given(s, word) == [page |-> s.page, password |-> word, waiting |-> TRUE]

\* What handling command c in state s comes to.
Outcome(s, c) ==
  CASE c.class = "SETTINGS" -> Shown(s, "SETTINGS")
    [] c.class = "PASSWORD" -> Given(Shown(s, "SETTINGS"), c.value)
    [] c.class = "MANUAL"   -> Shown(s, "MANUAL")
    [] c.class = "ENTER"    -> IF c.value = LOGIN THEN Entered(Shown(s, "SETTINGS"))
                               ELSE Shown(s, "SETTINGS")
    [] c.class = "CONFIRM"  -> IF c.value = LOGIN THEN Entered(s) ELSE s
    [] OTHER                -> s

\* A frame that the interrupt handles itself overtakes those that wait.
HandledNow(s) == told' = s /\ overtaken' = ~Quiet

-----------------------------------------------------------------------------
(* The receive interrupt, with the frames the panel sends *)

\* Address 0x0000 is for the login and home notices; the rest goes nowhere.
LoginFrame == [class |-> "ZERO", value |-> LOGIN]
Queued(c) == c.class # "ZERO"

Arrives(c) ==
  /\ IF ~Queued(c)
     THEN UNCHANGED <<ring, history>>
     ELSE IF IsFull
     THEN full' = TRUE /\ UNCHANGED <<ring, told, overtaken>>
     ELSE /\ s_cmd_buf' = [s_cmd_buf EXCEPT ![s_cmd_wr] = c]
          /\ s_cmd_wr' = Succ(s_cmd_wr)
          /\ told' = Outcome(Before, c)
          /\ overtaken' = (overtaken /\ ~Quiet)
          /\ UNCHANGED <<s_cmd_rd, full>>
  /\ UNCHANGED <<task, screen>>

CommandArrives == \E c \in Commands \ {LoginFrame} : Arrives(c)

\* The page register, or the home notice at 0x0000.
PageNotice ==
  \E p \in Page :
    /\ page' = p
    /\ HandledNow(Shown(Before, p))
    /\ UNCHANGED <<ring, task, password, waiting, full>>

\* 0x5002 with a word count of 1; with another count it goes into the ring.
Password ==
  \E word \in Payload :
    /\ password' = word /\ waiting' = TRUE
    /\ HandledNow(Given(Before, word))
    /\ UNCHANGED <<ring, task, page, full>>

\* The login at 0x0000; the interrupt itself sends the page switch.
LoginConfirm ==
  /\ IF waiting
     THEN page' = Opened(password) /\ password' = 0 /\ waiting' = FALSE
     ELSE UNCHANGED screen
  /\ HandledNow(Entered(Before))
  /\ UNCHANGED <<ring, task, full>>

-----------------------------------------------------------------------------
(* Task03 *)

ReadClass ==
  /\ step = "poll" /\ ~IsEmpty
  /\ class' = s_cmd_buf[s_cmd_rd].class
  /\ step' = "value"
  /\ UNCHANGED <<ring, value, screen, history>>

ReadValue ==
  /\ step = "value"
  /\ value' = s_cmd_buf[s_cmd_rd].value
  /\ step' = "advance"
  /\ UNCHANGED <<ring, class, screen, history>>

Advance ==
  /\ step = "advance"
  /\ s_cmd_rd' = Succ(s_cmd_rd)
  /\ step' = "handle"
  /\ UNCHANGED <<s_cmd_buf, s_cmd_wr, class, value, screen, history>>

\* screen_handle_command sets the page by the type of the address, then calls
\* the handler of that type.
Handle ==
  /\ step = "handle"
  /\ page' = CASE class \in {"SETTINGS", "PASSWORD", "ENTER"} -> "SETTINGS"
               [] class = "MANUAL" -> "MANUAL"
               [] OTHER -> page
  /\ step' = CASE class = "PASSWORD" -> "store"
               [] class \in {"ENTER", "CONFIRM"} /\ value = LOGIN -> "confirm"
               [] OTHER -> "poll"
  /\ UNCHANGED <<ring, class, value, password, waiting, history>>

\* Task03's next statement, which leaves all but what is said of the screen.
To(next) == step' = next /\ UNCHANGED <<ring, class, value, history>>

\* screen_handle_settings, case 0x02
Store == step = "store" /\ password' = value /\ UNCHANGED <<page, waiting>> /\ To("ask")
Ask == step = "ask" /\ waiting' = TRUE /\ UNCHANGED <<page, password>> /\ To("poll")

\* screen_handle_confirm, case SCR_ACT_LOGIN_CONFIRM
Confirm ==
  /\ step = "confirm"
  /\ IF waiting THEN To("judge") ELSE To("poll")
  /\ UNCHANGED screen

Judge ==
  /\ step = "judge"
  /\ page' = Opened(password)
  /\ UNCHANGED <<password, waiting>>
  /\ To("switch")

SwitchSent == step = "switch" /\ UNCHANGED screen /\ To("clear")

Clear == step = "clear" /\ password' = 0 /\ UNCHANGED <<page, waiting>> /\ To("done")

\* Mutant: the login stays open.
DoneOpen == step = "done" /\ UNCHANGED screen /\ To("poll")

Done == step = "done" /\ waiting' = FALSE /\ UNCHANGED <<page, password>> /\ To("poll")

\* screen_refresh_home: only of the home page.
Refresh == Idle /\ page = "HOME" /\ UNCHANGED screen /\ To("send")
Sent == step = "send" /\ UNCHANGED screen /\ To("poll")

-----------------------------------------------------------------------------
LinkNext ==
  \/ CommandArrives \/ PageNotice \/ Password \/ LoginConfirm
  \/ ReadClass \/ ReadValue \/ Advance \/ Handle
  \/ Store \/ Ask
  \/ Confirm \/ Judge \/ SwitchSent \/ Clear \/ Done
  \/ Refresh \/ Sent

LinkSpec == LinkInit /\ [][LinkNext]_linkVars

-----------------------------------------------------------------------------
(* Properties *)

Waiting == IF s_cmd_wr >= s_cmd_rd THEN s_cmd_wr - s_cmd_rd ELSE s_cmd_wr - s_cmd_rd + N
Place(i) == IF s_cmd_rd + i - 1 < N THEN s_cmd_rd + i - 1 ELSE s_cmd_rd + i - 1 - N

Queue == [i \in 1 .. Waiting |-> s_cmd_buf[Place(i)]]
Current == IF step \in Handling THEN [class |-> class, value |-> value] ELSE Nothing

Fifo == INSTANCE BoundedFifo WITH
  Entry <- Command, Capacity <- N - 1, queue <- Queue, current <- Current,
  refused <- full

(***************************************************************************)
(* The ring is a queue of N - 1 places: whenever the interrupt strikes,    *)
(* the commands are handled in the order they came, each once and whole,   *)
(* and one is dropped only when N - 1 others are waiting.                  *)
(***************************************************************************)
ImplementsFifo == Fifo!Spec

(***************************************************************************)
(* Page and login are shared by the interrupt and Task03, which both read  *)
(* and write them statement by statement (app_screen.c:134-167, 204-208,   *)
(* 731-756, 829-833).  With every command handled they are what they would *)
(* be had each frame that found room been handled whole at its arrival,    *)
(* unless the interrupt handled a frame while earlier ones were waiting.   *)
(***************************************************************************)
AsOnArrival == Quiet /\ ~overtaken => Now = told

(***************************************************************************)
(* screen_refactor.md:493, "the MCU must track the page currently shown":  *)
(* the same of the page, without exception.  A command taken from the ring *)
(* after the notice of a new page puts its own page back.                  *)
(***************************************************************************)
PageTracked == Quiet => page = told.page

(***************************************************************************)
(* screen_refactor.md:416, "put into the send queue; the send thread takes *)
(* the frames from the queue and sends them": no frame is sent in the      *)
(* middle of another, so the login is not answered while Task03 sends.     *)
(***************************************************************************)
FramesWhole == [][LoginConfirm /\ waiting => step \notin {"send", "switch"}]_linkVars

=============================================================================
