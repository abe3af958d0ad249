--------------------------- MODULE ScreenConfirm ---------------------------
(***************************************************************************)
(* The fate of the confirm commands that the panel sends to address 0x0000 *)
(* on the link of module ScreenLink.  The same values do reach the handler *)
(* through 0x5004 (class "ENTER") and 0x0001 to 0x00FF (class "CONFIRM").  *)
(* Of what samplingA/middlewares/bsp/screen.c:3711-3739 lists, the         *)
(* interruption of a run (03 00) and the retention by hand (25 01) come at *)
(* 0x0000 only; the others are first sent through 0x5004 as well.          *)
(***************************************************************************)
EXTENDS ScreenLink

ConfirmCommands == [class : {"ZERO", "CONFIRM", "ENTER"}, value : {0}]

VARIABLE asked  \* history: a confirm command came at 0x0000, not handled yet

ConfirmInit == LinkInit /\ asked = FALSE

ConfirmNext ==
  \/ \E c \in Commands \ {LoginFrame} :
       Arrives(c) /\ asked' = (asked \/ c.class = "ZERO")
  \/ Handle /\ asked' = (asked /\ class # "ZERO")
  \/ /\ PageNotice \/ Password \/ LoginConfirm
        \/ ReadClass \/ ReadValue \/ Advance \/ Store \/ Ask
        \/ Confirm \/ Judge \/ SwitchSent \/ Clear \/ Done \/ Refresh \/ Sent
     /\ UNCHANGED asked

ConfirmSpec == ConfirmInit /\ [][ConfirmNext]_<<linkVars, asked>>

(***************************************************************************)
(* app_screen.c:643, "confirm commands: high byte of the address = 0x00":  *)
(* a confirm command that came at 0x0000 has been handled when the ring is *)
(* empty, if there was room for it.                                        *)
(***************************************************************************)
ConfirmIsHandled == Idle /\ ~full => ~asked

=============================================================================
