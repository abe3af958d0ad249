------------------------------ MODULE Operator ------------------------------
(***************************************************************************)
(* What the operator reaches: the link of the touch panel (ScreenLink) and *)
(* the machines that its commands start, abort and stop (Sampling).        *)
(* Sampling lets every command come at any time and ScreenLink lets every  *)
(* handler take any time, so neither has to know the state of the other: a *)
(* behaviour is one of a single side, chosen at the start, and what holds  *)
(* of the sum holds of each.                                               *)
(***************************************************************************)
EXTENDS Sampling, ScreenLink

\* A right password and a wrong one, a login, a command that sets the page and
\* one that goes nowhere.
PanelCommands ==
  {[class |-> "PASSWORD", value |-> 0], [class |-> "PASSWORD", value |-> LOGIN],
   [class |-> "ENTER", value |-> LOGIN],
   [class |-> "MANUAL", value |-> 0], [class |-> "ZERO", value |-> 0]}

VARIABLE side  \* the side this behaviour is about

operatorVars == <<side, vars, linkVars>>

OperatorInit == side \in {"machines", "panel"} /\ Init /\ LinkInit

OperatorNext ==
  \/ side = "machines" /\ Next /\ UNCHANGED <<side, linkVars>>
  \/ side = "panel" /\ LinkNext /\ UNCHANGED <<side, vars>>

OperatorSpec == OperatorInit /\ [][OperatorNext]_operatorVars

=============================================================================
