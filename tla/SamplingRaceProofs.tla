------------------------- MODULE SamplingRaceProofs -------------------------
(***************************************************************************)
(* Proofs about SamplingRace, for every set of buckets: however the two    *)
(* tasks interleave their statements.                                      *)
(*                                                                         *)
(* The invariants speak of the line as it will be once the statements      *)
(* still to come have been executed (Will): executing one of them changes  *)
(* the line and what is to come, but not what will be.                     *)
(***************************************************************************)
EXTENDS SamplingRace, SequenceTheorems, TLAPS

Field == {"stage", "bucket", "motor", "ext", "inlet", "running"}

\* The statements of a list, and those still to come of a task and of both.
Of(q) == {q[i] : i \in 1 .. Len(q)}
Ahead(t) == Of(todo[t])
All == Ahead("Task02") \cup Ahead("Task03")

\* The statements the handlers are made of.
Code ==
  {<<"bucket", b>> : b \in Bucket} \cup {<<"shows", b>> : b \in Bucket}
  \cup {<<"start?", b>> : b \in Bucket} \cup {<<"stage", s>> : s \in Stage}
  \cup {<<"motor", v>> : v \in {"off", "CW", "CCW"}} \cup {<<"ext", v>> : v \in BOOLEAN}
  \cup {<<"inlet", v>> : v \in BOOLEAN} \cup {<<"running", v>> : v \in BOOLEAN}
  \cup {<<"mine", 0>>, <<"timer", 0>>, <<"step?", 0>>, <<"running?", 0>>, <<"abort?", 0>>}

InletOn  == <<"inlet", TRUE>>
InletOff == <<"inlet", FALSE>>
ExtOn    == <<"ext", TRUE>>
ExtOff   == <<"ext", FALSE>>
Stopped  == <<"running", FALSE>>

\* A list assigns a field once or twice the same, and does not name the
\* bucket it will set to IDLE.
Fits(A) ==
  /\ \A x, y \in A : x[1] = y[1] => x[2] = y[2]
  /\ (\E x \in A : x[1] = "mine") => \A x \in A : x[1] \notin {"bucket", "shows"}

Last(q) == \A i \in 1 .. Len(q) : q[i][1] \in {"running?", "start?"} => i = Len(q)

Has(A, k) == \E x \in A : x[1] = k

\* Where the guards stand in a list q of task t, in handler h.
Shape(t, q, h) ==
  /\ Fits(Of(q)) /\ Last(q)
  /\ Has(Of(q), "step?") => t = "Task02" /\ q = PollCode
  /\ Has(Of(q), "running?") => t = "Task02"
  /\ Has(Of(q), "abort?") =>
       t = "Task03" /\ q \in {EstopCode, Tail(EstopCode), <<<<"abort?", 0>>>>}
  /\ Has(Of(q), "start?") => h # "start"

ShapeInv == \A t \in Task : Shape(t, todo[t], handler[t])

TypeInv == TypeOK /\ todo \in [Task -> Seq(Code)]

\* A run or a board not overlapped: one task has nothing to do.
Apart == clean # "no" => \E t \in Task : Idle(t)

-----------------------------------------------------------------------------
(* The line l, with the bucket states s, as it will be when the statements  *)
(* A have been executed.  With the guard of an abort before it, what       *)
(* follows is not known: then it is the line as it is.                     *)

Comes(l, A, f, v) ==
  \/ \E x \in A : x[1] = f /\ x[2] = v
  \/ l[f] = v /\ \A x \in A : x[1] # f

Will(l, A, f, v) == IF Has(A, "abort?") THEN l[f] = v ELSE Comes(l, A, f, v)

WillShow(l, s, A, b) ==
  IF Has(A, "abort?") THEN s[b] = "SAMPLING"
  ELSE \/ \E x \in A : x[1] = "shows" /\ x[2] = b
       \/ s[b] = "SAMPLING" /\ ~(l["bucket"] = b /\ Has(A, "mine"))

\* The motor in stage g.
MotorIn(g) ==
  IF g \in {"PRE_BLOW", "POST_BLOW"} THEN "CCW" ELSE IF g = "MEASURE" THEN "CW" ELSE "off"

Agrees(l, s, A) ==
  \A g \in Stage : Will(l, A, "stage", g) =>
    /\ Will(l, A, "motor", MotorIn(g))
    /\ IF g = "IMPROVE" THEN Will(l, A, "ext", TRUE) ELSE Will(l, A, "ext", FALSE)
    /\ IF g \in AtRest THEN Will(l, A, "inlet", FALSE) ELSE Will(l, A, "inlet", TRUE)
    /\ \A b \in Bucket :
         WillShow(l, s, A, b) <=> (g \notin AtRest /\ Will(l, A, "bucket", b))

\* Stages the pump is switched off before.
Drained == {"TUBE_HOLD", "MEASURE", "DELAY_AFTER_MEAS", "POST_BLOW"}

Heals(l, A) ==
  \A g \in Stage : Will(l, A, "stage", g) =>
    /\ g \in AtRest => /\ Will(l, A, "motor", "off") /\ Will(l, A, "ext", FALSE)
                       /\ Will(l, A, "inlet", FALSE)
    /\ g \in Drained => Will(l, A, "ext", FALSE)

Stays(l, A) ==
  /\ Comes(l, A, "running", FALSE) /\ Comes(l, A, "ext", FALSE) /\ Comes(l, A, "inlet", FALSE)
  /\ ~Has(A, "abort?") => \E g \in AtRest : Comes(l, A, "stage", g)

AgreeInv == clean = "always" => Agrees(line, bucketState, All)

HealInv == clean # "no" => Heals(line, All)

EstopInv ==
  undisturbed =>
    /\ \A x \in Ahead("Task02") : x[1] \in {"step?", "running?"}
    /\ ~Has(All, "start?")
    /\ \E t \in Task : Idle(t)
    /\ Stays(line, All)

RaceInv == TypeInv /\ ShapeInv /\ Apart /\ AgreeInv /\ HealInv /\ EstopInv

-----------------------------------------------------------------------------
(* Lists and the statements in them *)

LEMMA OfNone == Of(<<>>) = {}
BY DEF Of

LEMMA OfOne == ASSUME NEW a PROVE Of(<<a>>) = {a}
BY 1 .. 1 = {1} DEF Of

LEMMA OfTwo == ASSUME NEW a, NEW b PROVE Of(<<a, b>>) = {a, b}
BY 1 .. 2 = {1, 2} DEF Of

LEMMA OfThree == ASSUME NEW a, NEW b, NEW c PROVE Of(<<a, b, c>>) = {a, b, c}
BY 1 .. 3 = {1, 2, 3} DEF Of

LEMMA OfFour == ASSUME NEW a, NEW b, NEW c, NEW d PROVE Of(<<a, b, c, d>>) = {a, b, c, d}
BY 1 .. 4 = {1, 2, 3, 4} DEF Of

LEMMA OfFive ==
  ASSUME NEW a, NEW b, NEW c, NEW d, NEW e PROVE Of(<<a, b, c, d, e>>) = {a, b, c, d, e}
BY 1 .. 5 = {1, 2, 3, 4, 5} DEF Of

LEMMA OfSix ==
  ASSUME NEW a, NEW b, NEW c, NEW d, NEW e, NEW f
  PROVE  Of(<<a, b, c, d, e, f>>) = {a, b, c, d, e, f}
BY 1 .. 6 = {1, 2, 3, 4, 5, 6} DEF Of

\* A list is its first statement and the rest.
LEMMA OfSplit ==
  ASSUME NEW S, NEW q \in Seq(S), q # <<>>
  PROVE  /\ Of(q) = {Head(q)} \cup Of(Tail(q))
         /\ Head(q) \in S /\ Tail(q) \in Seq(S)
<1>1. Len(q) \in Nat /\ Len(q) >= 1 /\ Head(q) = q[1] /\ Len(Tail(q)) = Len(q) - 1
  OBVIOUS
<1>2. \A i \in 1 .. Len(Tail(q)) : Tail(q)[i] = q[i + 1]
  BY <1>1
<1>3. ASSUME NEW x \in Of(q) PROVE x \in {Head(q)} \cup Of(Tail(q))
  <2>1. PICK i \in 1 .. Len(q) : x = q[i]
    BY <1>3 DEF Of
  <2>2. CASE i = 1
    BY <2>1, <2>2, <1>1
  <2>3. CASE i # 1
    <3>1. i - 1 \in 1 .. Len(Tail(q)) /\ Tail(q)[i - 1] = x
      BY <2>1, <2>3, <1>1, <1>2
    <3> QED BY <3>1 DEF Of
  <2> QED BY <2>2, <2>3
<1>4. ASSUME NEW x \in {Head(q)} \cup Of(Tail(q)) PROVE x \in Of(q)
  <2>1. CASE x = Head(q)
    BY <2>1, <1>1 DEF Of
  <2>2. CASE x \in Of(Tail(q))
    <3>1. PICK i \in 1 .. Len(Tail(q)) : x = Tail(q)[i]
      BY <2>2 DEF Of
    <3>2. i + 1 \in 1 .. Len(q) /\ q[i + 1] = x
      BY <3>1, <1>1, <1>2
    <3> QED BY <3>2 DEF Of
  <2> QED BY <1>4, <2>1, <2>2
<1> QED BY <1>3, <1>4, <1>1

LEMMA OfJoin ==
  ASSUME NEW S, NEW p \in Seq(S), NEW q \in Seq(S)
  PROVE  Of(p \o q) = Of(p) \cup Of(q) /\ p \o q \in Seq(S)
<1>1. Len(p \o q) = Len(p) + Len(q) /\ Len(p) \in Nat /\ Len(q) \in Nat
  OBVIOUS
<1>2. \A i \in 1 .. Len(p) : (p \o q)[i] = p[i]
  OBVIOUS
<1>3. \A i \in 1 .. Len(q) : (p \o q)[Len(p) + i] = q[i]
  OBVIOUS
<1>4. ASSUME NEW x \in Of(p \o q) PROVE x \in Of(p) \cup Of(q)
  <2>1. PICK i \in 1 .. Len(p) + Len(q) : x = (p \o q)[i]
    BY <1>1, <1>4 DEF Of
  <2>2. CASE i \in 1 .. Len(p)
    BY <2>1, <2>2, <1>2 DEF Of
  <2>3. CASE i - Len(p) \in 1 .. Len(q)
    <3>1. x = q[i - Len(p)]
      BY <2>1, <2>3, <1>3, <1>1
    <3> QED BY <3>1, <2>3 DEF Of
  <2> QED BY <2>1, <2>2, <2>3, <1>1
<1>5. ASSUME NEW x \in Of(p) \cup Of(q) PROVE x \in Of(p \o q)
  <2>1. CASE x \in Of(p)
    BY <2>1, <1>1, <1>2 DEF Of
  <2>2. CASE x \in Of(q)
    <3>1. PICK i \in 1 .. Len(q) : x = q[i]
      BY <2>2 DEF Of
    <3>2. Len(p) + i \in 1 .. Len(p \o q) /\ (p \o q)[Len(p) + i] = x
      BY <3>1, <1>1, <1>3
    <3> QED BY <3>2 DEF Of
  <2> QED BY <1>5, <2>1, <2>2
<1> QED BY <1>4, <1>5

\* A guard that is to be last may end a list without one.
LEMMA LastOf ==
  ASSUME NEW S, NEW q \in Seq(S), \A x \in Of(q) : x[1] \notin {"running?", "start?"}
  PROVE  Last(q) /\ \A g \in S : Last(q \o <<g>>)
<1>1. \A i \in 1 .. Len(q) : q[i][1] \notin {"running?", "start?"}
  BY DEF Of
<1>2. ASSUME NEW g \in S PROVE Last(q \o <<g>>)
  <2>1. Len(q \o <<g>>) = Len(q) + 1 /\ Len(q) \in Nat
    OBVIOUS
  <2>2. \A i \in 1 .. Len(q) : (q \o <<g>>)[i] = q[i]
    OBVIOUS
  <2> QED BY <1>1, <2>1, <2>2 DEF Last
<1> QED BY <1>1, <1>2 DEF Last

LEMMA LastOne == ASSUME NEW a PROVE Last(<<a>>)
<1>1. Len(<<a>>) = 1 /\ 1 .. 1 = {1}
  OBVIOUS
<1> QED BY <1>1 DEF Last

LEMMA LastTail ==
  ASSUME NEW S, NEW q \in Seq(S), q # <<>>, Last(q)
  PROVE  /\ Last(Tail(q))
         /\ Head(q)[1] \in {"running?", "start?"} => Tail(q) = <<>> /\ Of(q) = {Head(q)}
<1>1. /\ Len(q) \in Nat /\ Len(q) >= 1 /\ Head(q) = q[1] /\ Len(Tail(q)) = Len(q) - 1
      /\ Tail(q) \in Seq(S)
  OBVIOUS
<1>2. \A i \in 1 .. Len(Tail(q)) : Tail(q)[i] = q[i + 1]
  BY <1>1
<1>3. ASSUME NEW i \in 1 .. Len(Tail(q)), Tail(q)[i][1] \in {"running?", "start?"}
      PROVE  i = Len(Tail(q))
  <2>1. i + 1 \in 1 .. Len(q) /\ q[i + 1][1] \in {"running?", "start?"}
    BY <1>1, <1>2, <1>3
  <2>2. i + 1 = Len(q)
    BY <2>1 DEF Last
  <2> QED BY <2>2, <1>1
<1>4. ASSUME Head(q)[1] \in {"running?", "start?"} PROVE Tail(q) = <<>>
  <2>1. 1 \in 1 .. Len(q) /\ q[1][1] \in {"running?", "start?"}
    BY <1>1, <1>4
  <2>2. 1 = Len(q)
    BY <2>1 DEF Last
  <2> QED BY <2>2, <1>1, EmptySeq
<1>5. Last(Tail(q))
  BY <1>3 DEF Last
<1>6. ASSUME Tail(q) = <<>> PROVE Of(q) = {Head(q)}
  BY <1>6, OfSplit, OfNone
<1> QED BY <1>4, <1>5, <1>6

-----------------------------------------------------------------------------
(* The lists of the handlers *)

LEMMA Outputs ==
  /\ InletOn[1] = "inlet" /\ InletOn[2] = TRUE /\ InletOff[1] = "inlet" /\ InletOff[2] = FALSE
  /\ ExtOn[1] = "ext" /\ ExtOn[2] = TRUE /\ ExtOff[1] = "ext" /\ ExtOff[2] = FALSE
  /\ Stopped[1] = "running" /\ Stopped[2] = FALSE
BY DEF InletOn, InletOff, ExtOn, ExtOff, Stopped

LEMMA InCode ==
  /\ {InletOn, InletOff, ExtOn, ExtOff, Stopped} \subseteq Code
  /\ \A b \in Bucket : {<<"bucket", b>>, <<"shows", b>>, <<"start?", b>>} \subseteq Code
  /\ \A s \in Stage : <<"stage", s>> \in Code
  /\ \A v \in {"off", "CW", "CCW"} : <<"motor", v>> \in Code
  /\ \A v \in BOOLEAN : <<"running", v>> \in Code
  /\ {<<"mine", 0>>, <<"timer", 0>>, <<"step?", 0>>, <<"running?", 0>>, <<"abort?", 0>>} \subseteq Code
<1>1. InletOn \in Code /\ InletOff \in Code
  BY DEF Code, InletOn, InletOff
<1>2. ExtOn \in Code /\ ExtOff \in Code
  BY DEF Code, ExtOn, ExtOff
<1>3. Stopped \in Code /\ \A v \in BOOLEAN : <<"running", v>> \in Code
  BY DEF Code, Stopped
<1>4. \A b \in Bucket : {<<"bucket", b>>, <<"shows", b>>, <<"start?", b>>} \subseteq Code
  BY DEF Code
<1>5. /\ \A s \in Stage : <<"stage", s>> \in Code
      /\ \A v \in {"off", "CW", "CCW"} : <<"motor", v>> \in Code
  BY DEF Code
<1>6. {<<"mine", 0>>, <<"timer", 0>>, <<"step?", 0>>, <<"running?", 0>>, <<"abort?", 0>>} \subseteq Code
  BY DEF Code
<1> QED BY <1>1, <1>2, <1>3, <1>4, <1>5, <1>6

\* What a statement may say.
LEMMA CodeSays ==
  ASSUME NEW x \in Code
  PROVE  /\ x[1] = "stage" => x[2] \in Stage
         /\ x[1] \in {"bucket", "shows", "start?"} => x[2] \in Bucket
         /\ x[1] = "motor" => x[2] \in {"off", "CW", "CCW"}
         /\ x[1] \in {"ext", "inlet", "running"} => x[2] \in BOOLEAN
<1>1. CASE x \in {<<"bucket", b>> : b \in Bucket} \cup {<<"shows", b>> : b \in Bucket}
                 \cup {<<"start?", b>> : b \in Bucket}
  BY <1>1
<1>2. CASE x \in {<<"stage", s>> : s \in Stage}
  BY <1>2
<1>3. CASE x \in {<<"motor", v>> : v \in {"off", "CW", "CCW"}}
  BY <1>3
<1>4. CASE x \in {<<"ext", v>> : v \in BOOLEAN} \cup {<<"inlet", v>> : v \in BOOLEAN}
                 \cup {<<"running", v>> : v \in BOOLEAN}
  BY <1>4
<1>5. CASE x \in {<<"mine", 0>>, <<"timer", 0>>, <<"step?", 0>>, <<"running?", 0>>, <<"abort?", 0>>}
  BY <1>5
<1> QED BY <1>1, <1>2, <1>3, <1>4, <1>5 DEF Code

LEMMA StartList ==
  ASSUME NEW b \in Bucket
  PROVE  /\ StartCode(b) \in Seq(Code) /\ StartCode(b) # <<>>
         /\ Of(StartCode(b)) = {<<"bucket", b>>, InletOn, <<"stage", "PRE_BLOW">>,
                                <<"timer", 0>>, <<"motor", "CCW">>, <<"shows", b>>}
<1>1. StartCode(b) = <<<<"bucket", b>>, InletOn, <<"stage", "PRE_BLOW">>, <<"timer", 0>>,
                       <<"motor", "CCW">>, <<"shows", b>>>>
  BY DEF StartCode, InletOn
<1>2. {<<"bucket", b>>, InletOn, <<"stage", "PRE_BLOW">>, <<"timer", 0>>,
       <<"motor", "CCW">>, <<"shows", b>>} \subseteq Code
  BY InCode DEF Stage
<1> QED BY <1>1, <1>2, OfSix

LEMMA TwoStatements ==
  ASSUME NEW a \in Code, NEW b \in Code
  PROVE  <<a, b>> \in Seq(Code) /\ <<a, b>> # <<>> /\ Of(<<a, b>>) = {a, b}
<1>1. <<a, b>> \in Seq(Code)
  OBVIOUS
<1>2. <<a, b>> # <<>>
  OBVIOUS
<1> QED BY <1>1, <1>2, OfTwo

LEMMA FourStatements ==
  ASSUME NEW a \in Code, NEW b \in Code, NEW c \in Code, NEW d \in Code
  PROVE  /\ <<a, b, c, d>> \in Seq(Code) /\ <<a, b, c, d>> # <<>>
         /\ Of(<<a, b, c, d>>) = {a, b, c, d}
<1>1. <<a, b, c, d>> \in Seq(Code)
  OBVIOUS
<1>2. <<a, b, c, d>> # <<>>
  OBVIOUS
<1> QED BY <1>1, <1>2, OfFour

LEMMA TailOfThree == ASSUME NEW a, NEW b, NEW c PROVE Tail(<<a, b, c>>) = <<b, c>>
OBVIOUS

\* The statements of a step, by the stage it ends.
LEMMA StepList ==
  ASSUME NEW s \in Stage \ AtRest
  PROVE  /\ StepCode(s) \in Seq(Code) /\ StepCode(s) # <<>>
         /\ s = "PRE_BLOW" => Of(StepCode(s)) = {<<"motor", "off">>, <<"stage", "DELAY_AFTER_PRE">>}
         /\ s = "DELAY_AFTER_PRE" => Of(StepCode(s)) = {ExtOn, <<"stage", "IMPROVE">>}
         /\ s = "IMPROVE" => Of(StepCode(s)) = {ExtOff, <<"stage", "TUBE_HOLD">>}
         /\ s = "TUBE_HOLD" => Of(StepCode(s)) = {<<"motor", "CW">>, <<"stage", "MEASURE">>}
         /\ s = "MEASURE" => Of(StepCode(s)) = {<<"motor", "off">>, <<"stage", "DELAY_AFTER_MEAS">>}
         /\ s = "DELAY_AFTER_MEAS" => Of(StepCode(s)) = {<<"motor", "CCW">>, <<"stage", "POST_BLOW">>}
         /\ s = "POST_BLOW" => Of(StepCode(s)) = {<<"motor", "off">>, InletOff, <<"stage", "DONE">>, <<"mine", 0>>}
<1> USE DEF Stage, AtRest
<1>1. CASE s = "PRE_BLOW"
  <2>1. StepCode(s) = <<<<"motor", "off">>, <<"stage", "DELAY_AFTER_PRE">>>>
    BY <1>1 DEF StepCode
  <2>2. {<<"motor", "off">>, <<"stage", "DELAY_AFTER_PRE">>} \subseteq Code
    BY InCode
  <2>3. /\ StepCode(s) \in Seq(Code) /\ StepCode(s) # <<>>
        /\ Of(StepCode(s)) = {<<"motor", "off">>, <<"stage", "DELAY_AFTER_PRE">>}
    BY <2>1, <2>2, TwoStatements
  <2> QED BY <1>1, <2>3
<1>2. CASE s = "DELAY_AFTER_PRE"
  <2>1. StepCode(s) = <<ExtOn, <<"stage", "IMPROVE">>>>
    BY <1>2 DEF StepCode, ExtOn
  <2>2. {ExtOn, <<"stage", "IMPROVE">>} \subseteq Code
    BY InCode
  <2>3. /\ StepCode(s) \in Seq(Code) /\ StepCode(s) # <<>>
        /\ Of(StepCode(s)) = {ExtOn, <<"stage", "IMPROVE">>}
    BY <2>1, <2>2, TwoStatements
  <2> QED BY <1>2, <2>3
<1>3. CASE s = "IMPROVE"
  <2>1. StepCode(s) = <<ExtOff, <<"stage", "TUBE_HOLD">>>>
    BY <1>3 DEF StepCode, ExtOff
  <2>2. {ExtOff, <<"stage", "TUBE_HOLD">>} \subseteq Code
    BY InCode
  <2>3. /\ StepCode(s) \in Seq(Code) /\ StepCode(s) # <<>>
        /\ Of(StepCode(s)) = {ExtOff, <<"stage", "TUBE_HOLD">>}
    BY <2>1, <2>2, TwoStatements
  <2> QED BY <1>3, <2>3
<1>4. CASE s = "TUBE_HOLD"
  <2>1. StepCode(s) = <<<<"motor", "CW">>, <<"stage", "MEASURE">>>>
    BY <1>4 DEF StepCode
  <2>2. {<<"motor", "CW">>, <<"stage", "MEASURE">>} \subseteq Code
    BY InCode
  <2>3. /\ StepCode(s) \in Seq(Code) /\ StepCode(s) # <<>>
        /\ Of(StepCode(s)) = {<<"motor", "CW">>, <<"stage", "MEASURE">>}
    BY <2>1, <2>2, TwoStatements
  <2> QED BY <1>4, <2>3
<1>5. CASE s = "MEASURE"
  <2>1. StepCode(s) = <<<<"motor", "off">>, <<"stage", "DELAY_AFTER_MEAS">>>>
    BY <1>5 DEF StepCode
  <2>2. {<<"motor", "off">>, <<"stage", "DELAY_AFTER_MEAS">>} \subseteq Code
    BY InCode
  <2>3. /\ StepCode(s) \in Seq(Code) /\ StepCode(s) # <<>>
        /\ Of(StepCode(s)) = {<<"motor", "off">>, <<"stage", "DELAY_AFTER_MEAS">>}
    BY <2>1, <2>2, TwoStatements
  <2> QED BY <1>5, <2>3
<1>6. CASE s = "DELAY_AFTER_MEAS"
  <2>1. StepCode(s) = <<<<"motor", "CCW">>, <<"stage", "POST_BLOW">>>>
    BY <1>6 DEF StepCode
  <2>2. {<<"motor", "CCW">>, <<"stage", "POST_BLOW">>} \subseteq Code
    BY InCode
  <2>3. /\ StepCode(s) \in Seq(Code) /\ StepCode(s) # <<>>
        /\ Of(StepCode(s)) = {<<"motor", "CCW">>, <<"stage", "POST_BLOW">>}
    BY <2>1, <2>2, TwoStatements
  <2> QED BY <1>6, <2>3
<1>7. CASE s = "POST_BLOW"
  <2>1. StepCode(s) = <<<<"motor", "off">>, InletOff, <<"stage", "DONE">>, <<"mine", 0>>>>
    BY <1>7 DEF StepCode, InletOff
  <2>2. {<<"motor", "off">>, InletOff, <<"stage", "DONE">>, <<"mine", 0>>} \subseteq Code
    BY InCode
  <2>3. /\ StepCode(s) \in Seq(Code) /\ StepCode(s) # <<>>
        /\ Of(StepCode(s)) = {<<"motor", "off">>, InletOff, <<"stage", "DONE">>, <<"mine", 0>>}
    BY <2>1, <2>2, FourStatements
  <2> QED BY <1>7, <2>3
<1> QED BY <1>1, <1>2, <1>3, <1>4, <1>5, <1>6, <1>7

LEMMA AbortList ==
  /\ AbortCode \in Seq(Code) /\ AbortCode # <<>>
  /\ Of(AbortCode) = {<<"motor", "off">>, ExtOff, InletOff, <<"stage", "ABORT">>, <<"mine", 0>>}
<1>1. AbortCode = <<<<"motor", "off">>, ExtOff, InletOff, <<"stage", "ABORT">>, <<"mine", 0>>>>
  BY DEF AbortCode, ExtOff, InletOff
<1> QED BY <1>1, OfFive, InCode DEF Stage

\* The emergency stop up to the guard of its abort, and from there.
LEMMA EstopList ==
  /\ EstopCode \in Seq(Code) /\ EstopCode # <<>>
  /\ EstopCode = <<Stopped, <<"abort?", 0>>, InletOff, ExtOff>>
  /\ Of(EstopCode) = {Stopped, <<"abort?", 0>>, InletOff, ExtOff}
  /\ Tail(EstopCode) = <<<<"abort?", 0>>, InletOff, ExtOff>>
  /\ Of(Tail(EstopCode)) = {<<"abort?", 0>>, InletOff, ExtOff}
  /\ Tail(Tail(EstopCode)) = <<InletOff, ExtOff>>
  /\ Of(Tail(Tail(EstopCode))) = {InletOff, ExtOff}
<1>1. EstopCode = <<Stopped, <<"abort?", 0>>, InletOff, ExtOff>>
  BY DEF EstopCode, Stopped, ExtOff, InletOff
<1>2. Tail(EstopCode) = <<<<"abort?", 0>>, InletOff, ExtOff>>
  BY <1>1
<1>3. Tail(Tail(EstopCode)) = <<InletOff, ExtOff>>
  BY <1>2, TailOfThree
<1> QED BY <1>1, <1>2, <1>3, OfFour, OfThree, OfTwo, InCode

LEMMA PollList ==
  /\ PollCode \in Seq(Code) /\ PollCode # <<>>
  /\ PollCode = <<<<"step?", 0>>, <<"running?", 0>>>>
  /\ Of(PollCode) = {<<"step?", 0>>, <<"running?", 0>>}
  /\ Tail(PollCode) = <<<<"running?", 0>>>>
  /\ Of(Tail(PollCode)) = {<<"running?", 0>>}
<1>1. PollCode = <<<<"step?", 0>>, <<"running?", 0>>>>
  BY DEF PollCode
<1>2. Tail(PollCode) = <<<<"running?", 0>>>>
  BY <1>1
<1> QED BY <1>1, <1>2, OfOne, OfTwo, InCode

-----------------------------------------------------------------------------
(* What a step of one task leaves alone *)

Guard == {"step?", "running?", "abort?", "start?"}

LEMMA PlainShape ==
  ASSUME NEW t \in Task, NEW q \in Seq(Code), NEW h, Fits(Of(q)), \A x \in Of(q) : x[1] \notin Guard
  PROVE  Shape(t, q, h)
<1>1. Last(q)
  BY LastOf DEF Guard
<1> QED BY <1>1 DEF Shape, Has, Guard

LEMMA ContinueStep ==
  ASSUME TypeInv, Apart, ShapeInv, NEW t \in Task, NEW h \in Handler, NEW c \in Seq(Code),
         Continue(t, h, c), Shape(t, c, h),
         c # <<>> \/ (todo[t] # <<>> /\ (h = handler[t] \/ h # "start"))
  PROVE  /\ todo' \in [Task -> Seq(Code)] /\ handler' \in [Task -> Handler]
         /\ todo'[t] = c /\ \A u \in Task \ {t} : todo'[u] = todo[u]
         /\ clean' \in {"always", "run", "no"}
         /\ ShapeInv' /\ Apart'
         /\ clean' = "always" => clean = "always"
         /\ clean' # "no" =>
              /\ clean # "no" \/ (h = "start" /\ handler[t] # "start")
              /\ All = Ahead(t) /\ All' = Of(c)
<1>1. /\ todo \in [Task -> Seq(Code)] /\ handler \in [Task -> Handler]
      /\ clean \in {"always", "run", "no"}
  BY DEF TypeInv, TypeOK
<1>2. /\ todo' = [todo EXCEPT ![t] = c] /\ handler' = [handler EXCEPT ![t] = h]
      /\ clean' = IF \A u \in Task : todo'[u] # <<>> THEN "no"
                  ELSE IF h = "start" /\ handler[t] # "start" /\ clean = "no" THEN "run"
                  ELSE clean
  BY DEF Continue
<1>3. /\ todo' \in [Task -> Seq(Code)] /\ handler' \in [Task -> Handler]
      /\ todo'[t] = c /\ handler'[t] = h
      /\ \A u \in Task \ {t} : todo'[u] = todo[u] /\ handler'[u] = handler[u]
  BY <1>1, <1>2
<1>4. clean' \in {"always", "run", "no"} /\ (clean' = "always" => clean = "always")
  BY <1>1, <1>2
<1>5. ShapeInv'
  BY <1>3 DEF ShapeInv
<1>6. Apart'
  BY <1>2 DEF Apart, Idle
<1>7. ASSUME clean' # "no" PROVE clean # "no" \/ (h = "start" /\ handler[t] # "start")
  BY <1>2, <1>7
<1>8. ASSUME clean' # "no" PROVE \A u \in Task \ {t} : todo[u] = <<>>
  <2>1. CASE c # <<>>
    <3>1. PICK u \in Task : todo'[u] = <<>>
      BY <1>2, <1>8
    <3> QED BY <2>1, <3>1, <1>3 DEF Task
  <2>2. CASE todo[t] # <<>> /\ (h = handler[t] \/ h # "start")
    <3>1. PICK u \in Task : todo[u] = <<>>
      BY <1>7, <1>8, <2>2 DEF Apart, Idle
    <3> QED BY <2>2, <3>1 DEF Task
  <2> QED BY <2>1, <2>2
<1>9. ASSUME clean' # "no" PROVE All = Ahead(t) /\ All' = Of(c)
  <2>1. \A u \in Task \ {t} : Ahead(u) = {} /\ Ahead(u)' = {}
    BY <1>3, <1>8, <1>9, OfNone DEF Ahead
  <2>2. Ahead(t)' = Of(c)
    BY <1>3 DEF Ahead
  <2> QED BY <2>1, <2>2 DEF All, Task
<1> QED BY <1>3, <1>4, <1>5, <1>6, <1>7, <1>9

\* A step that only moves a task on leaves the types of the rest.
LEMMA KeptTypes ==
  ASSUME TypeInv, UNCHANGED <<line, bucketState>>, begun' \in BOOLEAN, undisturbed' \in BOOLEAN,
         todo' \in [Task -> Seq(Code)], handler' \in [Task -> Handler],
         clean' \in {"always", "run", "no"}
  PROVE  TypeInv'
BY DEF TypeInv, TypeOK

-----------------------------------------------------------------------------
(* What a statement does to the line to come *)

\* Statements that leave the outputs, the stage and the buckets alone, for now.
Passive(A) ==
  Has(A, "abort?") \/ \A x \in A : x[1] \in {"step?", "running?", "start?", "running"}

LEMMA PassiveWill ==
  ASSUME NEW l, NEW s, NEW A, Passive(A)
  PROVE  /\ \A f \in Field \ {"running"} : \A v : Will(l, A, f, v) <=> l[f] = v
         /\ \A b \in Bucket : WillShow(l, s, A, b) <=> s[b] = "SAMPLING"
BY DEF Passive, Has, Will, WillShow, Comes, Field

\* What will be is the same before and after.
SameWill(l, s, A, m, r, B) ==
  /\ \A f \in Field \ {"running"} : \A v : Will(l, A, f, v) <=> Will(m, B, f, v)
  /\ \A b \in Bucket : WillShow(l, s, A, b) <=> WillShow(m, r, B, b)

LEMMA SameKeeps ==
  ASSUME NEW l, NEW s, NEW A, NEW m, NEW r, NEW B, SameWill(l, s, A, m, r, B)
  PROVE  /\ Agrees(l, s, A) => Agrees(m, r, B)
         /\ Heals(l, A) => Heals(m, B)
BY DEF SameWill, Agrees, Heals, Field

LEMMA PassiveSame ==
  ASSUME NEW l, NEW s, NEW A, NEW B, Passive(A), Passive(B)
  PROVE  SameWill(l, s, A, l, s, B)
BY PassiveWill DEF SameWill

\* What will be of the fields, when what is to come is not in doubt.
SameComes(l, A, m, B) ==
  \A f \in Field : \A v : Comes(l, A, f, v) <=> Comes(m, B, f, v)

LEMMA StaysKept ==
  ASSUME NEW l, NEW A, NEW m, NEW B, SameComes(l, A, m, B), Has(A, "abort?") <=> Has(B, "abort?"),
         Stays(l, A)
  PROVE  Stays(m, B)
BY DEF SameComes, Stays, Field

\* Statement x of A assigns a field; B are the others.
LEMMA AssignComes ==
  ASSUME NEW l, DOMAIN l = Field, NEW A, NEW B, NEW x, NEW m, A = {x} \cup B, Fits(A),
         x[1] \in Field, m = [l EXCEPT ![x[1]] = x[2]]
  PROVE  SameComes(l, A, m, B)
<1>1. m[x[1]] = x[2] /\ \A f \in Field \ {x[1]} : m[f] = l[f]
  OBVIOUS
<1>2. ASSUME NEW f \in Field, NEW v PROVE Comes(l, A, f, v) <=> Comes(m, B, f, v)
  <2>1. CASE f = x[1]
    <3>1. Comes(l, A, f, v) <=> v = x[2]
      BY <2>1 DEF Comes, Fits
    <3>2. Comes(m, B, f, v) <=> v = x[2]
      BY <1>1, <2>1 DEF Comes, Fits
    <3> QED BY <3>1, <3>2
  <2>2. CASE f # x[1]
    BY <1>1, <1>2, <2>2 DEF Comes
  <2> QED BY <2>1, <2>2
<1> QED BY <1>2 DEF SameComes

\* Another statement changes no field.
LEMMA OtherComes ==
  ASSUME NEW l, NEW A, NEW B, NEW x, A = {x} \cup B, x[1] \notin Field
  PROVE  SameComes(l, A, l, B)
BY DEF SameComes, Comes

LEMMA AssignSame ==
  ASSUME NEW l, DOMAIN l = Field, NEW s, NEW A, NEW B, NEW x, NEW m, A = {x} \cup B, Fits(A),
         ~Has(A, "abort?"), x[1] \in Field, m = [l EXCEPT ![x[1]] = x[2]]
  PROVE  SameWill(l, s, A, m, s, B)
<1>1. \A f \in Field \ {x[1]} : m[f] = l[f]
  OBVIOUS
<1>2. ~Has(B, "abort?")
  BY DEF Has
<1>3. SameComes(l, A, m, B)
  BY AssignComes
<1>4. ASSUME NEW b \in Bucket PROVE WillShow(l, s, A, b) <=> WillShow(m, s, B, b)
  <2>1. x[1] \notin {"mine", "shows"}
    BY DEF Field
  <2>2. Has(A, "mine") <=> Has(B, "mine")
    BY <2>1 DEF Has
  <2>3. Has(A, "mine") => m["bucket"] = l["bucket"]
    <3> SUFFICES ASSUME Has(A, "mine") PROVE m["bucket"] = l["bucket"]
      OBVIOUS
    <3>1. x[1] # "bucket"
      BY DEF Fits, Has
    <3> QED BY <1>1, <3>1 DEF Field
  <2>4. (\E y \in A : y[1] = "shows" /\ y[2] = b) <=> (\E y \in B : y[1] = "shows" /\ y[2] = b)
    BY <2>1
  <2> QED BY <1>2, <2>2, <2>3, <2>4 DEF WillShow
<1> QED BY <1>2, <1>3, <1>4 DEF SameWill, SameComes, Will

LEMMA MineSame ==
  ASSUME NEW l, NEW s \in [Bucket -> {"IDLE", "SAMPLING"}], NEW A, NEW B, NEW x, NEW r,
         A = {x} \cup B, Fits(A), ~Has(A, "abort?"), x[1] = "mine", l["bucket"] \in Bucket,
         r = [s EXCEPT ![l["bucket"]] = "IDLE"]
  PROVE  SameWill(l, s, A, l, r, B)
<1>1. r[l["bucket"]] = "IDLE" /\ \A b \in Bucket \ {l["bucket"]} : r[b] = s[b]
  OBVIOUS
<1>2. ~Has(B, "abort?") /\ Has(A, "mine")
  BY DEF Has
<1>3. SameComes(l, A, l, B)
  BY OtherComes DEF Field
<1>4. ASSUME NEW b \in Bucket PROVE WillShow(l, s, A, b) <=> WillShow(l, r, B, b)
  <2>1. ~\E y \in A : y[1] = "shows"
    BY <1>2 DEF Fits, Has
  <2>2. CASE b = l["bucket"]
    BY <1>1, <1>2, <2>1, <2>2 DEF WillShow
  <2>3. CASE b # l["bucket"]
    BY <1>1, <1>2, <2>1, <2>3 DEF WillShow
  <2> QED BY <2>2, <2>3
<1> QED BY <1>2, <1>3, <1>4 DEF SameWill, SameComes, Will

LEMMA ShowsSame ==
  ASSUME NEW l, NEW s \in [Bucket -> {"IDLE", "SAMPLING"}], NEW A, NEW B, NEW x, NEW r,
         A = {x} \cup B, Fits(A), ~Has(A, "abort?"), x[1] = "shows", x[2] \in Bucket,
         r = [s EXCEPT ![x[2]] = "SAMPLING"]
  PROVE  SameWill(l, s, A, l, r, B)
<1>1. r[x[2]] = "SAMPLING" /\ \A b \in Bucket \ {x[2]} : r[b] = s[b]
  OBVIOUS
<1>2. ~Has(B, "abort?") /\ ~Has(A, "mine") /\ ~Has(B, "mine")
  BY DEF Has, Fits
<1>3. SameComes(l, A, l, B)
  BY OtherComes DEF Field
<1>4. ASSUME NEW b \in Bucket PROVE WillShow(l, s, A, b) <=> WillShow(l, r, B, b)
  <2>1. \A y \in A : y[1] = "shows" => y[2] = x[2]
    BY DEF Fits
  <2>2. CASE b = x[2]
    BY <1>1, <1>2, <2>2 DEF WillShow
  <2>3. CASE b # x[2]
    BY <1>1, <1>2, <2>1, <2>3 DEF WillShow
  <2> QED BY <2>2, <2>3
<1> QED BY <1>2, <1>3, <1>4 DEF SameWill, SameComes, Will

LEMMA TimerSame ==
  ASSUME NEW l, NEW s, NEW A, NEW B, NEW x, A = {x} \cup B, x[1] = "timer"
  PROVE  SameWill(l, s, A, l, s, B)
<1>1. \A k \in {"abort?", "mine"} : Has(A, k) <=> Has(B, k)
  BY DEF Has
<1>2. SameComes(l, A, l, B)
  BY OtherComes DEF Field
<1>3. \A b \in Bucket : WillShow(l, s, A, b) <=> WillShow(l, s, B, b)
  BY <1>1 DEF WillShow
<1> QED BY <1>1, <1>2, <1>3 DEF SameWill, SameComes, Will

-----------------------------------------------------------------------------
(* From the steps of a task to the invariants *)

\* What the invariants say with nothing to come that matters.
LEMMA PassiveMeans ==
  ASSUME NEW l, NEW s, NEW A, Passive(A), l["stage"] \in Stage
  PROVE  /\ Agrees(l, s, A) <=>
              /\ l["motor"] = MotorIn(l["stage"])
              /\ IF l["stage"] = "IMPROVE" THEN l["ext"] = TRUE ELSE l["ext"] = FALSE
              /\ IF l["stage"] \in AtRest THEN l["inlet"] = FALSE ELSE l["inlet"] = TRUE
              /\ \A b \in Bucket : s[b] = "SAMPLING" <=> (l["stage"] \notin AtRest /\ l["bucket"] = b)
         /\ Heals(l, A) <=>
              /\ l["stage"] \in AtRest =>
                   l["motor"] = "off" /\ l["ext"] = FALSE /\ l["inlet"] = FALSE
              /\ l["stage"] \in Drained => l["ext"] = FALSE
<1>1. /\ \A v : Will(l, A, "stage", v) <=> l["stage"] = v
      /\ \A v : Will(l, A, "motor", v) <=> l["motor"] = v
      /\ \A v : Will(l, A, "ext", v) <=> l["ext"] = v
      /\ \A v : Will(l, A, "inlet", v) <=> l["inlet"] = v
      /\ \A v : Will(l, A, "bucket", v) <=> l["bucket"] = v
  BY PassiveWill DEF Field
<1>2. \A b \in Bucket : WillShow(l, s, A, b) <=> s[b] = "SAMPLING"
  BY PassiveWill
<1>3. Heals(l, A) <=>
        /\ l["stage"] \in AtRest =>
             l["motor"] = "off" /\ l["ext"] = FALSE /\ l["inlet"] = FALSE
        /\ l["stage"] \in Drained => l["ext"] = FALSE
  BY <1>1 DEF Heals
<1>4. Will(l, A, "motor", MotorIn(l["stage"])) <=> l["motor"] = MotorIn(l["stage"])
  BY <1>1
<1> QED BY <1>1, <1>2, <1>3, <1>4 DEF Agrees

\* A step after which the line will be the same.
LEMMA Kept ==
  ASSUME TypeInv, ShapeInv, Apart, AgreeInv, HealInv,
         NEW t \in Task, NEW h \in Handler, NEW c \in Seq(Code),
         Continue(t, h, c), Shape(t, c, h),
         c # <<>> \/ (todo[t] # <<>> /\ (h = handler[t] \/ h # "start")),
         h = "start" => handler[t] = "start",
         SameWill(line, bucketState, Ahead(t), line', bucketState', Of(c))
  PROVE  AgreeInv' /\ HealInv'
<1>1. /\ clean' = "always" => clean = "always"
      /\ clean' # "no" => clean # "no" /\ All = Ahead(t) /\ All' = Of(c)
  BY ContinueStep
<1>2. ASSUME clean' = "always" PROVE Agrees(line', bucketState', All')
  BY <1>1, <1>2, SameKeeps DEF AgreeInv
<1>3. ASSUME clean' # "no" PROVE Heals(line', All')
  BY <1>1, <1>3, SameKeeps DEF HealInv
<1> QED BY <1>2, <1>3 DEF AgreeInv, HealInv

\* During an undisturbed emergency stop, task t is the only one at work.
LEMMA EstopBefore ==
  ASSUME EstopInv, undisturbed, NEW t \in Task, ~Idle(t)
  PROVE  /\ Stays(line, Ahead(t)) /\ ~Has(Ahead(t), "start?")
         /\ t = "Task02" => \A x \in Ahead(t) : x[1] \in {"step?", "running?"}
         /\ \A u \in Task \ {t} : Idle(u)
<1>1. \A u \in Task \ {t} : Idle(u)
  BY DEF EstopInv, Task
<1>2. \A u \in Task \ {t} : Ahead(u) = {}
  BY <1>1, OfNone DEF Ahead, Idle
<1>3. All = Ahead(t)
  BY <1>2 DEF All, Task
<1> QED BY <1>1, <1>3 DEF EstopInv

LEMMA EstopAfter ==
  ASSUME NEW t \in Task, NEW c \in Seq(Code), todo'[t] = c,
         \A u \in Task \ {t} : todo'[u] = <<>>,
         t = "Task02" => \A x \in Of(c) : x[1] \in {"step?", "running?"},
         ~Has(Of(c), "start?"), Stays(line', Of(c))
  PROVE  EstopInv'
<1>1. Ahead(t)' = Of(c) /\ \A u \in Task \ {t} : Ahead(u)' = {}
  BY OfNone DEF Ahead
<1>2. All' = Of(c)
  BY <1>1 DEF All, Task
<1>3. \E u \in Task : Idle(u)'
  BY DEF Task, Idle
<1>4. \A x \in Ahead("Task02")' : x[1] \in {"step?", "running?"}
  BY <1>1 DEF Task
<1> QED BY <1>2, <1>3, <1>4 DEF EstopInv

LEMMA InitRace == Init => RaceInv
<1> SUFFICES ASSUME Init PROVE RaceInv
  OBVIOUS
<1>1. (CHOOSE b \in Bucket : TRUE) \in Bucket
  BY RaceAssumption
<1>2. /\ line.stage = "IDLE" /\ line.motor = "off" /\ line.ext = FALSE
      /\ line.inlet = FALSE /\ line.running = FALSE
      /\ line \in [stage : Stage, bucket : Bucket, motor : {"off", "CW", "CCW"},
                   ext : BOOLEAN, inlet : BOOLEAN, running : BOOLEAN]
  BY <1>1 DEF Init, Stage
<1>3. TypeInv
  <2>1. <<>> \in Seq(Code)
    OBVIOUS
  <2>2. todo \in [Task -> Seq(Code)] /\ DOMAIN todo = Task
    BY <2>1 DEF Init
  <2>3. handler \in [Task -> Handler]
    BY DEF Init, Handler
  <2>4. bucketState \in [Bucket -> {"IDLE", "SAMPLING"}]
    BY DEF Init
  <2>5. begun \in BOOLEAN /\ undisturbed \in BOOLEAN /\ clean \in {"always", "run", "no"}
    BY DEF Init
  <2> QED BY <1>2, <2>2, <2>3, <2>4, <2>5 DEF TypeInv, TypeOK
<1>4. \A t \in Task : Ahead(t) = {} /\ Idle(t)
  BY OfNone DEF Init, Ahead, Idle
<1>5. All = {}
  BY <1>4 DEF All, Task
<1>6. ShapeInv
  BY <1>4, PlainShape, EmptySeq DEF ShapeInv, Idle, Fits, Ahead
<1>7. Apart /\ EstopInv
  BY <1>4 DEF Apart, EstopInv, Init, Task
<1>8. Passive({}) /\ ~Has({}, "abort?")
  BY DEF Passive, Has
<1>9. \A b \in Bucket : bucketState[b] # "SAMPLING"
  BY DEF Init
<1>10. MotorIn(line["stage"]) = "off" /\ line["stage"] \in AtRest /\ line["stage"] \in Stage
  BY <1>2 DEF MotorIn, AtRest, Stage
<1>11. Agrees(line, bucketState, {}) /\ Heals(line, {})
  BY <1>2, <1>8, <1>9, <1>10, PassiveMeans DEF Drained
<1> QED BY <1>3, <1>5, <1>6, <1>7, <1>11 DEF RaceInv, AgreeInv, HealInv

-----------------------------------------------------------------------------
(* The guards *)

LEMMA AtGuard ==
  ASSUME TypeInv, ShapeInv, NEW t \in Task, NEW g, Reads(t, g)
  PROVE  /\ todo[t] # <<>> /\ Statement(t) \in Code /\ Statement(t)[1] = g /\ Rest(t) \in Seq(Code)
         /\ Ahead(t) = {Statement(t)} \cup Of(Rest(t)) /\ Shape(t, todo[t], handler[t])
         /\ g = "step?" => t = "Task02" /\ todo[t] = PollCode
         /\ g \in {"running?", "start?"} => Rest(t) = <<>> /\ Ahead(t) = {Statement(t)}
         /\ g = "abort?" => Rest(t) \in {<<>>, Tail(Tail(EstopCode))}
<1>1. todo[t] \in Seq(Code) /\ todo[t] # <<>> /\ Head(todo[t])[1] = g
  BY DEF TypeInv, Reads, Idle, Statement
<1>2. Of(todo[t]) = {Head(todo[t])} \cup Of(Tail(todo[t])) /\ Head(todo[t]) \in Code
      /\ Tail(todo[t]) \in Seq(Code)
  BY <1>1, OfSplit
<1>3. Shape(t, todo[t], handler[t])
  BY DEF ShapeInv
<1>4. Has(Of(todo[t]), g)
  BY <1>1, <1>2 DEF Has
<1>5. g = "step?" => t = "Task02" /\ todo[t] = PollCode
  BY <1>3, <1>4 DEF Shape
<1>6. g \in {"running?", "start?"} => Tail(todo[t]) = <<>> /\ Of(todo[t]) = {Head(todo[t])}
  BY <1>1, <1>3, LastTail DEF Shape
<1>7. ASSUME g = "abort?" PROVE Tail(todo[t]) \in {<<>>, Tail(Tail(EstopCode))}
  <2>1. todo[t] \in {EstopCode, Tail(EstopCode), <<<<"abort?", 0>>>>}
    BY <1>3, <1>4, <1>7 DEF Shape
  <2>2. todo[t] # EstopCode
    <3>1. Head(EstopCode) = Stopped
      BY EstopList
    <3> QED BY <1>1, <1>7, <3>1, Outputs
  <2>3. Tail(<<<<"abort?", 0>>>>) = <<>>
    OBVIOUS
  <2> QED BY <2>1, <2>2, <2>3
<1> QED BY <1>1, <1>2, <1>3, <1>5, <1>6, <1>7 DEF Statement, Rest, Ahead

\* A step from one list without effects to another.
LEMMA GuardKeeps ==
  ASSUME RaceInv, NEW t \in Task, NEW h \in Handler, NEW c \in Seq(Code),
         Continue(t, h, c), Shape(t, c, h),
         c # <<>> \/ (todo[t] # <<>> /\ (h = handler[t] \/ h # "start")),
         h = "start" => handler[t] = "start",
         UNCHANGED <<line, bucketState>>, begun' \in BOOLEAN, undisturbed' \in BOOLEAN,
         Passive(Ahead(t)), Passive(Of(c))
  PROVE  /\ TypeInv' /\ ShapeInv' /\ Apart' /\ AgreeInv' /\ HealInv'
         /\ todo'[t] = c /\ \A u \in Task \ {t} : todo'[u] = todo[u]
<1> USE DEF RaceInv
<1>1. /\ todo' \in [Task -> Seq(Code)] /\ handler' \in [Task -> Handler]
      /\ todo'[t] = c /\ \A u \in Task \ {t} : todo'[u] = todo[u]
      /\ clean' \in {"always", "run", "no"} /\ ShapeInv' /\ Apart'
  BY ContinueStep
<1>2. TypeInv'
  BY <1>1, KeptTypes
<1>3. SameWill(line, bucketState, Ahead(t), line, bucketState, Of(c))
  BY PassiveSame
<1>4. SameWill(line, bucketState, Ahead(t), line', bucketState', Of(c))
  BY <1>3
<1>5. AgreeInv' /\ HealInv'
  BY <1>4, Kept
<1> QED BY <1>1, <1>2, <1>5

LEMMA GuardTypes == TypeInv => begun \in BOOLEAN /\ undisturbed \in BOOLEAN /\ handler \in [Task -> Handler]
BY DEF TypeInv, TypeOK

LEMMA StaysGuards ==
  ASSUME NEW l, NEW A, NEW B, Stays(l, A),
         \A x \in A \cup B : x[1] \in {"step?", "running?", "start?"}
  PROVE  Stays(l, B)
BY DEF Stays, Comes, Has

LEMMA StepWaitsKeeps == RaceInv /\ StepWaits => RaceInv'
<1> SUFFICES ASSUME RaceInv, StepWaits PROVE RaceInv'
  OBVIOUS
<1>0. TypeInv /\ ShapeInv /\ EstopInv
  BY DEF RaceInv
<1> DEFINE t == "Task02"
           c == Tail(PollCode)
<1>1. Reads(t, "step?") /\ Continue(t, "poll", Rest(t)) /\ LineKept /\ t \in Task /\ "poll" \in Handler
  BY DEF StepWaits, Task, Handler
<1>2. todo[t] = PollCode /\ todo[t] # <<>>
  BY <1>0, <1>1, AtGuard
<1>3. Rest(t) = c /\ c \in Seq(Code) /\ Of(c) = {<<"running?", 0>>}
      /\ Ahead(t) = {<<"step?", 0>>, <<"running?", 0>>}
  BY <1>2, PollList, <1>0, <1>1, AtGuard DEF Rest, Ahead
<1>4. Passive(Ahead(t)) /\ Passive(Of(c))
  BY <1>3 DEF Passive
<1>5. Shape(t, c, "poll")
  <2>1. c = <<<<"running?", 0>>>>
    BY PollList
  <2>2. Last(c)
    BY <2>1, LastOne
  <2> QED BY <1>3, <2>2 DEF Shape, Fits, Has
<1>6. UNCHANGED <<line, bucketState>> /\ begun' \in BOOLEAN /\ undisturbed' \in BOOLEAN
      /\ undisturbed' = undisturbed
  BY <1>0, <1>1, GuardTypes DEF LineKept
<1> HIDE DEF c
<1>7. /\ TypeInv' /\ ShapeInv' /\ Apart' /\ AgreeInv' /\ HealInv'
      /\ todo'[t] = c /\ \A u \in Task \ {t} : todo'[u] = todo[u]
  BY <1>1, <1>2, <1>3, <1>4, <1>5, <1>6, GuardKeeps
<1>8. EstopInv'
  <2> SUFFICES ASSUME undisturbed PROVE EstopInv'
    BY <1>6 DEF EstopInv
  <2>1. Stays(line, Ahead(t)) /\ \A u \in Task \ {t} : Idle(u)
    BY <1>0, <1>1, EstopBefore DEF Reads
  <2>2. Stays(line, Of(c))
    BY <1>3, <2>1, StaysGuards
  <2>3. Stays(line', Of(c))
    BY <1>6, <2>2
  <2>4. \A u \in Task \ {t} : todo'[u] = <<>>
    BY <1>7, <2>1 DEF Idle
  <2>5. ~Has(Of(c), "start?") /\ \A x \in Of(c) : x[1] \in {"step?", "running?"}
    BY <1>3 DEF Has
  <2> QED BY <1>1, <1>3, <1>7, <2>3, <2>4, <2>5, EstopAfter
<1> QED BY <1>7, <1>8 DEF RaceInv

LEMMA SchedulerDecidesKeeps == RaceInv /\ SchedulerDecides => RaceInv'
<1> SUFFICES ASSUME RaceInv, SchedulerDecides PROVE RaceInv'
  OBVIOUS
<1>0. TypeInv /\ ShapeInv /\ EstopInv
  BY DEF RaceInv
<1> DEFINE t == "Task02"
<1>1. PICK c \in {<<>>} \cup {<<<<"start?", b>>>> : b \in Bucket} :
        /\ Continue(t, "poll", c)
        /\ c = <<>> \/ line.running
  BY DEF SchedulerDecides
<1>2. Reads(t, "running?") /\ LineKept /\ t \in Task /\ "poll" \in Handler
  BY DEF SchedulerDecides, Task, Handler
<1>3. todo[t] # <<>> /\ Ahead(t) = {Statement(t)} /\ Statement(t)[1] = "running?"
  BY <1>0, <1>2, AtGuard
<1>4. /\ c \in Seq(Code) /\ Of(c) \in {{}} \cup {{<<"start?", b>>} : b \in Bucket}
      /\ Last(c)
  <2>1. CASE c = <<>>
    <3>1. <<>> \in Seq(Code) /\ Last(<<>>)
      BY DEF Last
    <3> QED BY <2>1, <3>1, OfNone
  <2>2. ASSUME NEW b \in Bucket, c = <<<<"start?", b>>>>
        PROVE  /\ c \in Seq(Code) /\ Of(c) \in {{}} \cup {{<<"start?", d>>} : d \in Bucket}
               /\ Last(c)
    <3>1. <<"start?", b>> \in Code
      BY InCode
    <3>2. c \in Seq(Code) /\ Last(c)
      BY <2>2, <3>1 DEF Last
    <3>3. Of(c) = {<<"start?", b>>}
      BY <2>2, OfOne
    <3> QED BY <3>2, <3>3
  <2> QED BY <2>1, <2>2
<1>5. Passive(Ahead(t)) /\ Passive(Of(c))
  BY <1>3, <1>4 DEF Passive
<1>6. Shape(t, c, "poll")
  BY <1>4 DEF Shape, Fits, Has
<1>7. UNCHANGED <<line, bucketState>> /\ begun' \in BOOLEAN /\ undisturbed' \in BOOLEAN
      /\ undisturbed' = undisturbed
  BY <1>0, <1>2, GuardTypes DEF LineKept
<1>8. /\ TypeInv' /\ ShapeInv' /\ Apart' /\ AgreeInv' /\ HealInv'
      /\ todo'[t] = c /\ \A u \in Task \ {t} : todo'[u] = todo[u]
  BY <1>1, <1>2, <1>3, <1>4, <1>5, <1>6, <1>7, GuardKeeps
<1>9. EstopInv'
  <2> SUFFICES ASSUME undisturbed PROVE EstopInv'
    BY <1>7 DEF EstopInv
  <2>1. Stays(line, Ahead(t)) /\ \A u \in Task \ {t} : Idle(u)
    BY <1>0, <1>2, EstopBefore DEF Reads
  <2>2. line["running"] = FALSE
    BY <1>3, <2>1 DEF Stays, Comes
  <2>3. c = <<>>
    BY <1>1, <2>2
  <2>4. Stays(line, Of(c)) /\ Of(c) = {}
    BY <1>3, <2>1, <2>3, OfNone, StaysGuards
  <2>5. Stays(line', Of(c))
    BY <1>7, <2>4
  <2>6. \A u \in Task \ {t} : todo'[u] = <<>>
    BY <1>8, <2>1 DEF Idle
  <2> QED BY <1>2, <1>4, <1>8, <2>4, <2>5, <2>6, EstopAfter DEF Has
<1> QED BY <1>8, <1>9 DEF RaceInv

LEMMA PollKeeps == RaceInv /\ Poll => RaceInv'
<1> SUFFICES ASSUME RaceInv, Poll PROVE RaceInv'
  OBVIOUS
<1>0. TypeInv /\ ShapeInv /\ EstopInv
  BY DEF RaceInv
<1> DEFINE t == "Task02"
<1>1. Idle(t) /\ Continue(t, "poll", PollCode) /\ t \in Task /\ "poll" \in Handler
  BY DEF Poll, Task, Handler
<1>2. Ahead(t) = {}
  BY <1>1, OfNone DEF Ahead, Idle
<1>3. Passive(Ahead(t)) /\ Passive(Of(PollCode))
  BY <1>2, PollList DEF Passive
<1>4. Shape(t, PollCode, "poll")
  <2>1. Last(PollCode)
    <3>1. Len(PollCode) = 2 /\ PollCode[1][1] = "step?"
      BY DEF PollCode
    <3> QED BY <3>1, 1 .. 2 = {1, 2} DEF Last
  <2> QED BY <2>1, PollList DEF Shape, Fits, Has
<1>5. UNCHANGED <<line, bucketState>> /\ begun' \in BOOLEAN /\ undisturbed' \in BOOLEAN
      /\ (undisturbed' => undisturbed /\ Idle("Task03"))
  BY DEF Poll
<1>6. /\ TypeInv' /\ ShapeInv' /\ Apart' /\ AgreeInv' /\ HealInv'
      /\ todo'[t] = PollCode /\ \A u \in Task \ {t} : todo'[u] = todo[u]
  BY <1>1, <1>3, <1>4, <1>5, PollList, GuardKeeps
<1>7. EstopInv'
  <2> SUFFICES ASSUME undisturbed, Idle("Task03") PROVE EstopInv'
    BY <1>5 DEF EstopInv
  <2>1. All = {}
    BY <1>1, OfNone DEF All, Ahead, Idle
  <2>2. Stays(line, {})
    BY <1>0, <2>1 DEF EstopInv
  <2>3. Stays(line, Of(PollCode))
    BY <2>2, PollList, StaysGuards
  <2>4. Stays(line', Of(PollCode))
    BY <1>5, <2>3
  <2>5. ~Has(Of(PollCode), "start?") /\ \A x \in Of(PollCode) : x[1] \in {"step?", "running?"}
    BY PollList DEF Has
  <2>6. \A u \in Task \ {t} : todo'[u] = <<>>
    BY <1>6 DEF Idle, Task
  <2> QED BY <1>1, <1>6, <2>4, <2>5, <2>6, PollList, EstopAfter
<1> QED BY <1>6, <1>7 DEF RaceInv

\* A command begins with a list without effects.
LEMMA CommandKeeps ==
  ASSUME RaceInv, NEW h \in Handler, h # "start", NEW c \in Seq(Code), c # <<>>, Command(h, c),
         Shape("Task03", c, h), Passive(Of(c)),
         h = "estop" => ~Has(Of(c), "start?") /\ Stays(line, Of(c))
  PROVE  RaceInv'
<1> DEFINE t == "Task03"
<1>1. Idle(t) /\ Continue(t, h, c) /\ t \in Task
  BY DEF Command, Task
<1>2. Ahead(t) = {}
  BY <1>1, OfNone DEF Ahead, Idle
<1>3. Passive(Ahead(t))
  BY <1>2 DEF Passive
<1>4. UNCHANGED <<line, bucketState>> /\ begun' \in BOOLEAN /\ undisturbed' \in BOOLEAN
      /\ (undisturbed' => h = "estop" /\ Idle("Task02"))
  BY DEF Command
<1>5. /\ TypeInv' /\ ShapeInv' /\ Apart' /\ AgreeInv' /\ HealInv'
      /\ todo'[t] = c /\ \A u \in Task \ {t} : todo'[u] = todo[u]
  BY <1>1, <1>3, <1>4, GuardKeeps
<1>6. EstopInv'
  <2> SUFFICES ASSUME h = "estop", Idle("Task02") PROVE EstopInv'
    BY <1>4 DEF EstopInv
  <2>1. Stays(line', Of(c)) /\ ~Has(Of(c), "start?")
    BY <1>4
  <2>2. \A u \in Task \ {t} : todo'[u] = <<>>
    BY <1>5 DEF Idle, Task
  <2> QED BY <1>1, <1>5, <2>1, <2>2, EstopAfter
<1> QED BY <1>5, <1>6 DEF RaceInv

LEMMA OneStatement ==
  ASSUME NEW a \in Code
  PROVE  <<a>> \in Seq(Code) /\ <<a>> # <<>> /\ Of(<<a>>) = {a} /\ Last(<<a>>)
<1>1. <<a>> \in Seq(Code)
  OBVIOUS
<1>2. <<a>> # <<>>
  OBVIOUS
<1> QED BY <1>1, <1>2, OfOne, LastOne

LEMMA PressKeeps == RaceInv /\ (PressStart \/ PressAbort \/ PressEstop \/ PressRun) => RaceInv'
<1> SUFFICES ASSUME RaceInv PROVE (PressStart \/ PressAbort \/ PressEstop \/ PressRun) => RaceInv'
  OBVIOUS
<1>0. {"control", "abort", "estop"} \subseteq Handler
  BY DEF Handler
<1>1. ASSUME NEW b \in Bucket, Command("control", <<<<"start?", b>>>>) PROVE RaceInv'
  <2> DEFINE a == <<"start?", b>>
             c == <<a>>
  <2>1. a \in Code /\ a[1] = "start?"
    BY InCode
  <2> HIDE DEF a
  <2>2. c \in Seq(Code) /\ c # <<>> /\ Of(c) = {a} /\ Last(c)
    BY <2>1, OneStatement
  <2>3. Command("control", c)
    BY <1>1 DEF a
  <2> HIDE DEF c
  <2>4. Shape("Task03", c, "control") /\ Passive(Of(c))
    BY <2>1, <2>2 DEF Shape, Fits, Has, Passive
  <2> QED BY <1>0, <2>2, <2>3, <2>4, CommandKeeps
<1>2. ASSUME NEW on \in BOOLEAN, Command("control", <<<<"running", on>>>>) PROVE RaceInv'
  <2> DEFINE a == <<"running", on>>
             c == <<a>>
  <2>1. a \in Code
    BY InCode
  <2>2. a[1] = "running"
    OBVIOUS
  <2> HIDE DEF a
  <2>3. c \in Seq(Code) /\ c # <<>> /\ Of(c) = {a} /\ Last(c)
    BY <2>1, OneStatement
  <2>4. Command("control", c)
    BY <1>2 DEF a
  <2> HIDE DEF c
  <2>5. Shape("Task03", c, "control") /\ Passive(Of(c))
    BY <2>2, <2>3 DEF Shape, Fits, Has, Passive
  <2> QED BY <1>0, <2>3, <2>4, <2>5, CommandKeeps
<1>3. ASSUME PressAbort PROVE RaceInv'
  <2> DEFINE a == <<"abort?", 0>>
             c == <<a>>
  <2>1. a \in Code /\ a[1] = "abort?"
    BY InCode
  <2> HIDE DEF a
  <2>2. c \in Seq(Code) /\ c # <<>> /\ Of(c) = {a} /\ Last(c)
    BY <2>1, OneStatement
  <2>3. Command("abort", c) /\ c \in {EstopCode, Tail(EstopCode), <<<<"abort?", 0>>>>}
    BY <1>3 DEF a, PressAbort
  <2> HIDE DEF c
  <2>4. Shape("Task03", c, "abort") /\ Passive(Of(c))
    BY <2>1, <2>2, <2>3 DEF Shape, Fits, Has, Passive
  <2> QED BY <1>0, <2>2, <2>3, <2>4, CommandKeeps
<1>4. ASSUME PressEstop PROVE RaceInv'
  <2> DEFINE c == EstopCode
             x == <<"abort?", 0>>
  <2>1. x[1] = "abort?"
    OBVIOUS
  <2>2. Of(c) = {Stopped, x, InletOff, ExtOff} /\ c \in Seq(Code) /\ c # <<>>
    BY EstopList
  <2> HIDE DEF x
  <2>3. Passive(Of(c)) /\ Has(Of(c), "abort?")
    BY <2>1, <2>2 DEF Passive, Has
  <2>4. Stays(line, Of(c))
    BY <2>2, <2>3, Outputs DEF Stays, Comes
  <2>5. \A k \in {"step?", "running?", "start?", "mine"} : ~Has(Of(c), k)
    BY <2>1, <2>2, Outputs DEF Has
  <2>6. Fits(Of(c))
    BY <2>1, <2>2, <2>5, Outputs DEF Fits, Has
  <2>7. Last(c)
    BY <2>2, <2>5, LastOf DEF Has
  <2>8. Shape("Task03", c, "estop")
    BY <2>5, <2>6, <2>7 DEF Shape
  <2>9. Command("estop", c)
    BY <1>4 DEF PressEstop
  <2> HIDE DEF c
  <2> QED BY <1>0, <2>2, <2>3, <2>4, <2>5, <2>8, <2>9, CommandKeeps
<1> QED BY <1>1, <1>2, <1>3, <1>4 DEF PressStart, PressRun

-----------------------------------------------------------------------------
(* The guards that let something begin *)

LEMMA Changed ==
  ASSUME RaceInv, NEW t \in Task, NEW h \in Handler, NEW c \in Seq(Code),
         Continue(t, h, c), Shape(t, c, h),
         c # <<>> \/ (todo[t] # <<>> /\ (h = handler[t] \/ h # "start")),
         LineKept,
         Agrees(line, bucketState, Ahead(t)) => Agrees(line, bucketState, Of(c)),
         h # "start" \/ handler[t] = "start" => (Heals(line, Ahead(t)) => Heals(line, Of(c))),
         h = "start" /\ handler[t] # "start" => Heals(line, Of(c))
  PROVE  /\ TypeInv' /\ ShapeInv' /\ Apart' /\ AgreeInv' /\ HealInv'
         /\ todo'[t] = c /\ \A u \in Task \ {t} : todo'[u] = todo[u]
<1>1. TypeInv /\ ShapeInv /\ Apart /\ AgreeInv /\ HealInv
  BY DEF RaceInv
<1>2. /\ todo' \in [Task -> Seq(Code)] /\ handler' \in [Task -> Handler]
      /\ todo'[t] = c /\ \A u \in Task \ {t} : todo'[u] = todo[u]
      /\ clean' \in {"always", "run", "no"} /\ ShapeInv' /\ Apart'
      /\ clean' = "always" => clean = "always"
      /\ clean' # "no" => /\ clean # "no" \/ (h = "start" /\ handler[t] # "start")
                          /\ All = Ahead(t) /\ All' = Of(c)
  BY <1>1, ContinueStep
<1>3. UNCHANGED <<line, bucketState>> /\ begun' \in BOOLEAN /\ undisturbed' \in BOOLEAN
  BY <1>1, GuardTypes DEF LineKept
<1>4. TypeInv'
  BY <1>1, <1>2, <1>3, KeptTypes
<1>5. ASSUME clean' = "always" PROVE Agrees(line', bucketState', All')
  <2>1. Agrees(line, bucketState, Of(c)) /\ All' = Of(c)
    BY <1>1, <1>2, <1>5 DEF AgreeInv
  <2> QED BY <1>3, <2>1
<1>6. ASSUME clean' # "no" PROVE Heals(line', All')
  <2>1. Heals(line, Of(c)) /\ All' = Of(c)
    BY <1>1, <1>2, <1>6 DEF HealInv
  <2> QED BY <1>3, <2>1
<1> QED BY <1>2, <1>4, <1>5, <1>6 DEF AgreeInv, HealInv

\* With sampling at rest, an emergency stop switches off what is off.
LEMMA OffAgain ==
  ASSUME NEW l, NEW s, NEW A, NEW B, Passive(A), l["stage"] \in AtRest,
         B \in {{}, {InletOff, ExtOff}}
  PROVE  /\ Agrees(l, s, A) => Agrees(l, s, B)
         /\ Heals(l, A) => Heals(l, B)
<1>1. l["stage"] \in Stage /\ MotorIn(l["stage"]) = "off" /\ l["stage"] # "IMPROVE"
      /\ l["stage"] \notin Drained
  BY DEF AtRest, Stage, MotorIn, Drained
<1>2. \A x \in B : (x[1] = "inlet" \/ x[1] = "ext") /\ x[2] = FALSE
  BY Outputs
<1>3. ~Has(B, "abort?") /\ ~Has(B, "mine") /\ ~Has(B, "shows")
  BY <1>2 DEF Has
<1>4. /\ \A v : Will(l, B, "stage", v) <=> l["stage"] = v
      /\ \A v : Will(l, B, "motor", v) <=> l["motor"] = v
      /\ \A v : Will(l, B, "bucket", v) <=> l["bucket"] = v
      /\ l["ext"] = FALSE => Will(l, B, "ext", FALSE)
      /\ l["inlet"] = FALSE => Will(l, B, "inlet", FALSE)
  BY <1>2, <1>3 DEF Will, Comes
<1>5. \A b \in Bucket : WillShow(l, s, B, b) <=> s[b] = "SAMPLING"
  BY <1>3 DEF WillShow, Has
<1>6. ASSUME Agrees(l, s, A) PROVE Agrees(l, s, B)
  <2>1. /\ l["motor"] = "off" /\ l["ext"] = FALSE /\ l["inlet"] = FALSE
        /\ \A b \in Bucket : s[b] # "SAMPLING"
    BY <1>1, <1>6, PassiveMeans
  <2> QED BY <1>1, <1>4, <1>5, <2>1 DEF Agrees
<1>7. ASSUME Heals(l, A) PROVE Heals(l, B)
  <2>1. l["motor"] = "off" /\ l["ext"] = FALSE /\ l["inlet"] = FALSE
    BY <1>1, <1>7, PassiveMeans
  <2> QED BY <1>4, <2>1 DEF Heals
<1> QED BY <1>6, <1>7

\* An abort puts sampling at rest, whatever was on.
LEMMA AbortAgrees ==
  ASSUME NEW l, NEW s, NEW A, NEW B, Passive(A), l["stage"] \in Stage \ AtRest,
         B = Of(AbortCode)
  PROVE  /\ Agrees(l, s, A) => Agrees(l, s, B)
         /\ Heals(l, B)
         /\ Comes(l, B, "ext", FALSE) /\ Comes(l, B, "inlet", FALSE)
         /\ \E g \in AtRest : Comes(l, B, "stage", g)
         /\ l["running"] = FALSE => Comes(l, B, "running", FALSE)
         /\ \A k \in Guard : ~Has(B, k)
         /\ Fits(B)
<1> DEFINE m == <<"motor", "off">>
           g == <<"stage", "ABORT">>
           e == <<"mine", 0>>
<1>1. /\ m[1] = "motor" /\ m[2] = "off" /\ g[1] = "stage" /\ g[2] = "ABORT" /\ e[1] = "mine"
      /\ B = {m, ExtOff, InletOff, g, e}
  BY AbortList
<1> HIDE DEF m, g, e
<1>2. /\ \A k \in Guard : ~Has(B, k)
      /\ Has(B, "mine") /\ ~Has(B, "shows")
      /\ ~Has(B, "running") /\ ~Has(B, "bucket")
  BY <1>1, Outputs DEF Has, Guard
<1>3. /\ \A v : Comes(l, B, "stage", v) <=> v = "ABORT"
      /\ \A v : Comes(l, B, "motor", v) <=> v = "off"
      /\ \A v : Comes(l, B, "bucket", v) <=> l["bucket"] = v
      /\ Comes(l, B, "ext", FALSE) /\ Comes(l, B, "inlet", FALSE)
  BY <1>1, Outputs DEF Comes
<1>4. ~Has(B, "abort?")
  BY <1>2 DEF Guard
<1>5. ASSUME Agrees(l, s, A) PROVE Agrees(l, s, B)
  <2>1. \A b \in Bucket : s[b] = "SAMPLING" <=> l["bucket"] = b
    BY <1>5, PassiveMeans
  <2>2. \A b \in Bucket : ~WillShow(l, s, B, b)
    BY <1>2, <1>4, <2>1 DEF WillShow, Has
  <2>3. "ABORT" \in AtRest /\ MotorIn("ABORT") = "off"
    BY DEF AtRest, MotorIn
  <2> QED BY <1>3, <1>4, <2>2, <2>3 DEF Agrees, Will
<1>6. Heals(l, B)
  BY <1>3, <1>4 DEF Heals, Will, AtRest, Drained
<1>7. Fits(B)
  BY <1>1, <1>2, Outputs DEF Fits, Has
<1>8. l["running"] = FALSE => Comes(l, B, "running", FALSE)
  BY <1>2 DEF Has, Comes
<1> QED BY <1>2, <1>3, <1>5, <1>6, <1>7, <1>8 DEF AtRest

LEMMA TryAbortKeeps == RaceInv /\ TryAbort => RaceInv'
<1> SUFFICES ASSUME RaceInv, TryAbort PROVE RaceInv'
  OBVIOUS
<1>0. TypeInv /\ ShapeInv /\ EstopInv
  BY DEF RaceInv
<1> DEFINE t == "Task03"
           h == handler[t]
<1>1. PICK c : /\ Continue(t, h, c)
               /\ c = IF Active THEN AbortCode \o Rest(t) ELSE Rest(t)
  BY DEF TryAbort
<1>2. Reads(t, "abort?") /\ LineKept /\ t \in Task
  BY DEF TryAbort, Task
<1>3. /\ todo[t] # <<>> /\ Statement(t) \in Code /\ Statement(t)[1] = "abort?" /\ Rest(t) \in Seq(Code)
      /\ Ahead(t) = {Statement(t)} \cup Of(Rest(t))
      /\ Rest(t) \in {<<>>, Tail(Tail(EstopCode))}
  BY <1>0, <1>2, AtGuard
<1>4. Passive(Ahead(t)) /\ Has(Ahead(t), "abort?")
  BY <1>3 DEF Passive, Has
<1>5. Of(Rest(t)) \in {{}, {InletOff, ExtOff}}
  BY <1>3, OfNone, EstopList
<1>6. h \in Handler /\ line["stage"] \in Stage
  BY <1>0, <1>2, GuardTypes DEF TypeInv, TypeOK
<1>7. ASSUME Active
      PROVE  c \in Seq(Code) /\ Of(c) = Of(AbortCode)
  <2>1. c \in Seq(Code) /\ Of(c) = Of(AbortCode) \cup Of(Rest(t))
    BY <1>1, <1>3, <1>7, AbortList, OfJoin
  <2> QED BY <1>5, <2>1, AbortList
<1>8. /\ c \in Seq(Code)
      /\ \A k \in Guard : ~Has(Of(c), k)
      /\ Fits(Of(c))
      /\ Agrees(line, bucketState, Ahead(t)) => Agrees(line, bucketState, Of(c))
      /\ Heals(line, Ahead(t)) => Heals(line, Of(c))
      /\ Stays(line, Ahead(t)) => Stays(line, Of(c))
  <2>1. CASE Active
    <3>1. line["stage"] \in Stage \ AtRest
      BY <1>6, <2>1 DEF Active
    <3>2. Stays(line, Ahead(t)) => line["running"] = FALSE
      BY <1>3, <1>5, Outputs DEF Stays, Comes
    <3>3. /\ Agrees(line, bucketState, Ahead(t)) => Agrees(line, bucketState, Of(c))
          /\ Heals(line, Of(c))
          /\ Comes(line, Of(c), "ext", FALSE) /\ Comes(line, Of(c), "inlet", FALSE)
          /\ \E g \in AtRest : Comes(line, Of(c), "stage", g)
          /\ line["running"] = FALSE => Comes(line, Of(c), "running", FALSE)
          /\ \A k \in Guard : ~Has(Of(c), k)
          /\ Fits(Of(c))
      BY <1>4, <1>7, <2>1, <3>1, AbortAgrees
    <3> QED BY <1>7, <2>1, <3>2, <3>3 DEF Stays
  <2>2. CASE ~Active
    <3>1. line["stage"] \in AtRest /\ c = Rest(t)
      BY <1>1, <2>2 DEF Active
    <3>2. \A x \in Of(c) : (x[1] = "inlet" \/ x[1] = "ext") /\ x[2] = FALSE
      BY <1>5, <3>1, Outputs
    <3>3. Fits(Of(c)) /\ \A k \in Guard : ~Has(Of(c), k)
      BY <3>2 DEF Fits, Has, Guard
    <3>4. /\ Agrees(line, bucketState, Ahead(t)) => Agrees(line, bucketState, Of(c))
          /\ Heals(line, Ahead(t)) => Heals(line, Of(c))
      BY <1>4, <1>5, <3>1, OffAgain
    <3>5. Stays(line, Ahead(t)) => Stays(line, Of(c))
      <4>1. Ahead(t) = {Statement(t)} \cup Of(c)
        BY <1>3, <3>1
      <4> QED BY <1>3, <3>1, <3>2, <4>1 DEF Stays, Comes
    <3> QED BY <1>3, <3>1, <3>3, <3>4, <3>5
  <2> QED BY <2>1, <2>2
<1>9. Shape(t, c, h)
  BY <1>2, <1>8, PlainShape DEF Has
<1>10. /\ TypeInv' /\ ShapeInv' /\ Apart' /\ AgreeInv' /\ HealInv'
       /\ todo'[t] = c /\ \A u \in Task \ {t} : todo'[u] = todo[u]
  BY <1>1, <1>2, <1>3, <1>6, <1>8, <1>9, Changed
<1>11. EstopInv'
  <2> SUFFICES ASSUME undisturbed PROVE EstopInv'
    BY <1>2 DEF EstopInv, LineKept
  <2>1. Stays(line, Ahead(t)) /\ \A u \in Task \ {t} : Idle(u)
    BY <1>0, <1>2, EstopBefore DEF Reads
  <2>2. Stays(line, Of(c)) /\ ~Has(Of(c), "start?")
    BY <1>8, <2>1 DEF Guard
  <2>3. Stays(line', Of(c))
    BY <1>2, <2>2 DEF LineKept
  <2>4. \A u \in Task \ {t} : todo'[u] = <<>>
    BY <1>10, <2>1 DEF Idle
  <2> QED BY <1>2, <1>8, <1>10, <2>2, <2>3, <2>4, EstopAfter
<1> QED BY <1>10, <1>11 DEF RaceInv

LEMMA StartAgrees ==
  ASSUME NEW l, NEW s, NEW A, NEW b \in Bucket, Passive(A), l["stage"] \in AtRest
  PROVE  LET B == Of(StartCode(b)) IN
         /\ Agrees(l, s, A) => Agrees(l, s, B)
         /\ Heals(l, B)
         /\ Fits(B) /\ \A k \in Guard : ~Has(B, k)
<1> DEFINE u == <<"bucket", b>>
           g == <<"stage", "PRE_BLOW">>
           i == <<"timer", 0>>
           m == <<"motor", "CCW">>
           w == <<"shows", b>>
           B == Of(StartCode(b))
<1>1. /\ u[1] = "bucket" /\ u[2] = b /\ g[1] = "stage" /\ g[2] = "PRE_BLOW" /\ i[1] = "timer"
      /\ m[1] = "motor" /\ m[2] = "CCW" /\ w[1] = "shows" /\ w[2] = b
      /\ B = {u, InletOn, g, i, m, w}
  BY StartList
<1> HIDE DEF u, g, i, m, w, B
<1>2. (\A k \in Guard : ~Has(B, k)) /\ ~Has(B, "mine") /\ ~Has(B, "ext")
  BY <1>1, Outputs DEF Has, Guard
<1>3. /\ \A v : Comes(l, B, "stage", v) <=> v = "PRE_BLOW"
      /\ Comes(l, B, "motor", "CCW")
      /\ Comes(l, B, "inlet", TRUE)
      /\ \A v : Comes(l, B, "ext", v) <=> l["ext"] = v
      /\ \A v : Comes(l, B, "bucket", v) <=> v = b
  BY <1>1, <1>2, Outputs DEF Comes, Has
<1>4. ~Has(B, "abort?")
  BY <1>2 DEF Guard
<1>5. ASSUME Agrees(l, s, A) PROVE Agrees(l, s, B)
  <2>1. l["ext"] = FALSE /\ \A d \in Bucket : s[d] # "SAMPLING"
    BY <1>5, PassiveMeans DEF AtRest, Stage
  <2>2. \A d \in Bucket : WillShow(l, s, B, d) <=> d = b
    BY <1>1, <1>4, <2>1, Outputs DEF WillShow
  <2>3. "PRE_BLOW" \notin AtRest /\ MotorIn("PRE_BLOW") = "CCW"
    BY DEF AtRest, MotorIn
  <2> QED BY <1>3, <1>4, <2>1, <2>2, <2>3 DEF Agrees, Will
<1>6. Heals(l, B)
  BY <1>3, <1>4 DEF Heals, Will, AtRest, Drained
<1>7. Fits(B)
  BY <1>1, <1>2, Outputs DEF Fits, Has
<1> QED BY <1>2, <1>5, <1>6, <1>7 DEF B

LEMMA TryStartKeeps == ASSUME RaceInv, NEW t \in Task, TryStart(t) PROVE RaceInv'
<1>0. TypeInv /\ ShapeInv /\ EstopInv
  BY DEF RaceInv
<1>1. Reads(t, "start?") /\ LineKept
  BY DEF TryStart
<1>2. /\ todo[t] # <<>> /\ Statement(t) \in Code /\ Statement(t)[1] = "start?"
      /\ Ahead(t) = {Statement(t)} /\ Shape(t, todo[t], handler[t])
  BY <1>0, <1>1, AtGuard
<1>3. Passive(Ahead(t)) /\ Has(Ahead(t), "start?")
  BY <1>2 DEF Passive, Has
<1>4. Statement(t)[2] \in Bucket
  BY <1>2, CodeSays
<1>5. handler[t] \in Handler /\ handler[t] # "start" /\ "start" \in Handler
  BY <1>0, <1>2, <1>3, GuardTypes DEF Shape, Ahead, Handler
<1>6. UNCHANGED <<line, bucketState>> /\ begun' \in BOOLEAN /\ undisturbed' \in BOOLEAN
  BY <1>0, <1>1, GuardTypes DEF LineKept
<1>7. TypeInv' /\ ShapeInv' /\ Apart' /\ AgreeInv' /\ HealInv'
  <2>1. CASE Active
    <3> DEFINE c == <<>>
    <3>1. Continue(t, handler[t], c)
      BY <2>1 DEF TryStart
    <3>2. c \in Seq(Code) /\ Of(c) = {}
      BY OfNone
    <3> HIDE DEF c
    <3>3. Passive(Of(c)) /\ Fits(Of(c))
      BY <3>2 DEF Passive, Fits
    <3>4. Shape(t, c, handler[t])
      BY <3>2, <3>3, PlainShape
    <3> QED BY <1>2, <1>3, <1>5, <1>6, <3>1, <3>2, <3>3, <3>4, GuardKeeps
  <2>2. CASE ~Active
    <3> DEFINE b == Statement(t)[2]
               c == StartCode(b)
    <3>1. Continue(t, "start", c) /\ c \in Seq(Code) /\ c # <<>>
      BY <1>4, <2>2, StartList DEF TryStart
    <3>2. line["stage"] \in AtRest
      BY <2>2 DEF Active
    <3>3. /\ Agrees(line, bucketState, Ahead(t)) => Agrees(line, bucketState, Of(c))
          /\ Heals(line, Of(c))
          /\ Fits(Of(c)) /\ \A k \in Guard : ~Has(Of(c), k)
      BY <1>3, <1>4, <3>2, StartAgrees
    <3> HIDE DEF c
    <3>4. Shape(t, c, "start")
      BY <3>1, <3>3, PlainShape DEF Has
    <3> QED BY <1>1, <1>5, <3>1, <3>3, <3>4, Changed
  <2> QED BY <2>1, <2>2
<1>8. EstopInv'
  <2>1. ~undisturbed
    BY <1>0, <1>1, <1>3, EstopBefore DEF Reads
  <2> QED BY <1>1, <2>1 DEF EstopInv, LineKept
<1> QED BY <1>7, <1>8 DEF RaceInv

\* A relay, the next stage, and the guard after the step.
StepOf(x, y, r) == {x, y, r}

\* What the line l will be after a step of this form.
MovesOn(l, s, B, x, y) ==
  /\ \A v : Will(l, B, "stage", v) <=> v = y[2]
  /\ \A v : Will(l, B, "inlet", v) <=> l["inlet"] = v
  /\ \A v : Will(l, B, "bucket", v) <=> l["bucket"] = v
  /\ x[1] = "motor" => /\ \A v : Will(l, B, "motor", v) <=> v = x[2]
                       /\ \A v : Will(l, B, "ext", v) <=> l["ext"] = v
  /\ x[1] = "ext" => /\ \A v : Will(l, B, "ext", v) <=> v = x[2]
                     /\ \A v : Will(l, B, "motor", v) <=> l["motor"] = v
  /\ \A b \in Bucket : WillShow(l, s, B, b) <=> s[b] = "SAMPLING"

LEMMA StepMeans ==
  ASSUME NEW l, NEW s, NEW x, NEW y, NEW r, NEW B, B = StepOf(x, y, r),
         x[1] \in {"motor", "ext"}, y[1] = "stage", r[1] = "running?"
  PROVE  /\ MovesOn(l, s, B, x, y)
         /\ Fits(B) /\ \A k \in Guard \ {"running?"} : ~Has(B, k)
<1>0. B = {x, y, r}
  BY DEF StepOf
<1>1. (\A k \in Guard \ {"running?"} : ~Has(B, k)) /\ ~Has(B, "mine") /\ ~Has(B, "shows")
  BY <1>0 DEF Has, Guard
<1>2. ~Has(B, "abort?")
  BY <1>1 DEF Guard
<1>3. /\ \A v : Comes(l, B, "stage", v) <=> v = y[2]
      /\ \A v : Comes(l, B, "inlet", v) <=> l["inlet"] = v
      /\ \A v : Comes(l, B, "bucket", v) <=> l["bucket"] = v
  BY <1>0 DEF Comes
<1>4. /\ x[1] = "motor" => /\ \A v : Comes(l, B, "motor", v) <=> v = x[2]
                           /\ \A v : Comes(l, B, "ext", v) <=> l["ext"] = v
      /\ x[1] = "ext" => /\ \A v : Comes(l, B, "ext", v) <=> v = x[2]
                         /\ \A v : Comes(l, B, "motor", v) <=> l["motor"] = v
  BY <1>0 DEF Comes
<1>5. \A b \in Bucket : WillShow(l, s, B, b) <=> s[b] = "SAMPLING"
  BY <1>1, <1>2 DEF WillShow, Has
<1>6. Fits(B)
  BY <1>0, <1>1 DEF Fits, Has
<1> QED BY <1>1, <1>2, <1>3, <1>4, <1>5, <1>6 DEF Will, MovesOn

\* A step moves the line from what its stage calls for to what the next does.
LEMMA StepAgrees ==
  ASSUME NEW l, NEW s, NEW A, NEW r, NEW B, Passive(A), l["stage"] \in Stage \ AtRest,
         r[1] = "running?", B = Of(StepCode(l["stage"])) \cup {r}
  PROVE  /\ Agrees(l, s, A) => Agrees(l, s, B)
         /\ Heals(l, A) => Heals(l, B)
         /\ Fits(B) /\ \A k \in Guard \ {"running?"} : ~Has(B, k)
<1>a. /\ Agrees(l, s, A) =>
           /\ l["motor"] = MotorIn(l["stage"])
           /\ IF l["stage"] = "IMPROVE" THEN l["ext"] = TRUE ELSE l["ext"] = FALSE
           /\ l["inlet"] = TRUE
           /\ \A b \in Bucket : s[b] = "SAMPLING" <=> l["bucket"] = b
      /\ Heals(l, A) => (l["stage"] \in Drained => l["ext"] = FALSE)
  BY PassiveMeans
<1>1. CASE l["stage"] = "PRE_BLOW"
  <2> DEFINE x == <<"motor", "off">>
             y == <<"stage", "DELAY_AFTER_PRE">>
  <2>1. B = StepOf(x, y, r) /\ x[1] = "motor" /\ x[2] = "off" /\ y[1] = "stage" /\ y[2] = "DELAY_AFTER_PRE"
    BY <1>1, StepList DEF StepOf
  <2> HIDE DEF x, y
  <2>2. /\ MovesOn(l, s, B, x, y)
        /\ Fits(B) /\ \A k \in Guard \ {"running?"} : ~Has(B, k)
    BY <2>1, StepMeans
  <2>3. /\ \A v : Will(l, B, "stage", v) <=> v = "DELAY_AFTER_PRE"
        /\ \A v : Will(l, B, "inlet", v) <=> l["inlet"] = v
        /\ \A v : Will(l, B, "bucket", v) <=> l["bucket"] = v
        /\ \A v : Will(l, B, "motor", v) <=> v = "off"
        /\ \A v : Will(l, B, "ext", v) <=> l["ext"] = v
        /\ \A b \in Bucket : WillShow(l, s, B, b) <=> s[b] = "SAMPLING"
    BY <2>1, <2>2 DEF MovesOn
  <2>4. Agrees(l, s, A) => Agrees(l, s, B)
    BY <1>a, <1>1, <2>3 DEF Agrees, AtRest, MotorIn
  <2>5. Heals(l, A) => Heals(l, B)
    BY <1>a, <1>1, <2>3 DEF Heals, AtRest, Drained
  <2> QED BY <2>2, <2>4, <2>5
<1>2. CASE l["stage"] = "DELAY_AFTER_PRE"
  <2> DEFINE x == ExtOn
             y == <<"stage", "IMPROVE">>
  <2>1. B = StepOf(x, y, r) /\ x[1] = "ext" /\ x[2] = TRUE /\ y[1] = "stage" /\ y[2] = "IMPROVE"
    BY <1>2, StepList, Outputs DEF StepOf
  <2> HIDE DEF x, y
  <2>2. /\ MovesOn(l, s, B, x, y)
        /\ Fits(B) /\ \A k \in Guard \ {"running?"} : ~Has(B, k)
    BY <2>1, StepMeans
  <2>3. /\ \A v : Will(l, B, "stage", v) <=> v = "IMPROVE"
        /\ \A v : Will(l, B, "inlet", v) <=> l["inlet"] = v
        /\ \A v : Will(l, B, "bucket", v) <=> l["bucket"] = v
        /\ Will(l, B, "ext", TRUE)
        /\ \A v : Will(l, B, "motor", v) <=> l["motor"] = v
        /\ \A b \in Bucket : WillShow(l, s, B, b) <=> s[b] = "SAMPLING"
    BY <2>1, <2>2 DEF MovesOn
  <2>4. Agrees(l, s, A) => Agrees(l, s, B)
    BY <1>a, <1>2, <2>3 DEF Agrees, AtRest, MotorIn
  <2>5. Heals(l, A) => Heals(l, B)
    BY <1>a, <1>2, <2>3 DEF Heals, AtRest, Drained
  <2> QED BY <2>2, <2>4, <2>5
<1>3. CASE l["stage"] = "IMPROVE"
  <2> DEFINE x == ExtOff
             y == <<"stage", "TUBE_HOLD">>
  <2>1. B = StepOf(x, y, r) /\ x[1] = "ext" /\ x[2] = FALSE /\ y[1] = "stage" /\ y[2] = "TUBE_HOLD"
    BY <1>3, StepList, Outputs DEF StepOf
  <2> HIDE DEF x, y
  <2>2. /\ MovesOn(l, s, B, x, y)
        /\ Fits(B) /\ \A k \in Guard \ {"running?"} : ~Has(B, k)
    BY <2>1, StepMeans
  <2>3. /\ \A v : Will(l, B, "stage", v) <=> v = "TUBE_HOLD"
        /\ \A v : Will(l, B, "inlet", v) <=> l["inlet"] = v
        /\ \A v : Will(l, B, "bucket", v) <=> l["bucket"] = v
        /\ Will(l, B, "ext", FALSE)
        /\ \A v : Will(l, B, "motor", v) <=> l["motor"] = v
        /\ \A b \in Bucket : WillShow(l, s, B, b) <=> s[b] = "SAMPLING"
    BY <2>1, <2>2 DEF MovesOn
  <2>4. Agrees(l, s, A) => Agrees(l, s, B)
    BY <1>a, <1>3, <2>3 DEF Agrees, AtRest, MotorIn
  <2>5. Heals(l, A) => Heals(l, B)
    BY <1>a, <1>3, <2>3 DEF Heals, AtRest, Drained
  <2> QED BY <2>2, <2>4, <2>5
<1>4. CASE l["stage"] = "TUBE_HOLD"
  <2> DEFINE x == <<"motor", "CW">>
             y == <<"stage", "MEASURE">>
  <2>1. B = StepOf(x, y, r) /\ x[1] = "motor" /\ x[2] = "CW" /\ y[1] = "stage" /\ y[2] = "MEASURE"
    BY <1>4, StepList DEF StepOf
  <2> HIDE DEF x, y
  <2>2. /\ MovesOn(l, s, B, x, y)
        /\ Fits(B) /\ \A k \in Guard \ {"running?"} : ~Has(B, k)
    BY <2>1, StepMeans
  <2>3. /\ \A v : Will(l, B, "stage", v) <=> v = "MEASURE"
        /\ \A v : Will(l, B, "inlet", v) <=> l["inlet"] = v
        /\ \A v : Will(l, B, "bucket", v) <=> l["bucket"] = v
        /\ \A v : Will(l, B, "motor", v) <=> v = "CW"
        /\ \A v : Will(l, B, "ext", v) <=> l["ext"] = v
        /\ \A b \in Bucket : WillShow(l, s, B, b) <=> s[b] = "SAMPLING"
    BY <2>1, <2>2 DEF MovesOn
  <2>4. Agrees(l, s, A) => Agrees(l, s, B)
    BY <1>a, <1>4, <2>3 DEF Agrees, AtRest, MotorIn
  <2>5. Heals(l, A) => Heals(l, B)
    BY <1>a, <1>4, <2>3 DEF Heals, AtRest, Drained
  <2> QED BY <2>2, <2>4, <2>5
<1>5. CASE l["stage"] = "MEASURE"
  <2> DEFINE x == <<"motor", "off">>
             y == <<"stage", "DELAY_AFTER_MEAS">>
  <2>1. B = StepOf(x, y, r) /\ x[1] = "motor" /\ x[2] = "off" /\ y[1] = "stage" /\ y[2] = "DELAY_AFTER_MEAS"
    BY <1>5, StepList DEF StepOf
  <2> HIDE DEF x, y
  <2>2. /\ MovesOn(l, s, B, x, y)
        /\ Fits(B) /\ \A k \in Guard \ {"running?"} : ~Has(B, k)
    BY <2>1, StepMeans
  <2>3. /\ \A v : Will(l, B, "stage", v) <=> v = "DELAY_AFTER_MEAS"
        /\ \A v : Will(l, B, "inlet", v) <=> l["inlet"] = v
        /\ \A v : Will(l, B, "bucket", v) <=> l["bucket"] = v
        /\ \A v : Will(l, B, "motor", v) <=> v = "off"
        /\ \A v : Will(l, B, "ext", v) <=> l["ext"] = v
        /\ \A b \in Bucket : WillShow(l, s, B, b) <=> s[b] = "SAMPLING"
    BY <2>1, <2>2 DEF MovesOn
  <2>4. Agrees(l, s, A) => Agrees(l, s, B)
    BY <1>a, <1>5, <2>3 DEF Agrees, AtRest, MotorIn
  <2>5. Heals(l, A) => Heals(l, B)
    BY <1>a, <1>5, <2>3 DEF Heals, AtRest, Drained
  <2> QED BY <2>2, <2>4, <2>5
<1>6. CASE l["stage"] = "DELAY_AFTER_MEAS"
  <2> DEFINE x == <<"motor", "CCW">>
             y == <<"stage", "POST_BLOW">>
  <2>1. B = StepOf(x, y, r) /\ x[1] = "motor" /\ x[2] = "CCW" /\ y[1] = "stage" /\ y[2] = "POST_BLOW"
    BY <1>6, StepList DEF StepOf
  <2> HIDE DEF x, y
  <2>2. /\ MovesOn(l, s, B, x, y)
        /\ Fits(B) /\ \A k \in Guard \ {"running?"} : ~Has(B, k)
    BY <2>1, StepMeans
  <2>3. /\ \A v : Will(l, B, "stage", v) <=> v = "POST_BLOW"
        /\ \A v : Will(l, B, "inlet", v) <=> l["inlet"] = v
        /\ \A v : Will(l, B, "bucket", v) <=> l["bucket"] = v
        /\ \A v : Will(l, B, "motor", v) <=> v = "CCW"
        /\ \A v : Will(l, B, "ext", v) <=> l["ext"] = v
        /\ \A b \in Bucket : WillShow(l, s, B, b) <=> s[b] = "SAMPLING"
    BY <2>1, <2>2 DEF MovesOn
  <2>4. Agrees(l, s, A) => Agrees(l, s, B)
    BY <1>a, <1>6, <2>3 DEF Agrees, AtRest, MotorIn
  <2>5. Heals(l, A) => Heals(l, B)
    BY <1>a, <1>6, <2>3 DEF Heals, AtRest, Drained
  <2> QED BY <2>2, <2>4, <2>5
<1>7. CASE l["stage"] = "POST_BLOW"
  <2> DEFINE m == <<"motor", "off">>
             g == <<"stage", "DONE">>
             e == <<"mine", 0>>
  <2>1. /\ m[1] = "motor" /\ m[2] = "off" /\ g[1] = "stage" /\ g[2] = "DONE" /\ e[1] = "mine"
        /\ B = {m, InletOff, g, e, r}
    BY <1>7, StepList
  <2> HIDE DEF m, g, e
  <2>2. (\A k \in Guard \ {"running?"} : ~Has(B, k)) /\ Has(B, "mine") /\ ~Has(B, "shows")
        /\ ~Has(B, "bucket") /\ ~Has(B, "ext")
    BY <2>1, Outputs DEF Has, Guard
  <2>3. /\ \A v : Comes(l, B, "stage", v) <=> v = "DONE"
        /\ Comes(l, B, "motor", "off") /\ Comes(l, B, "inlet", FALSE)
        /\ \A v : Comes(l, B, "ext", v) <=> l["ext"] = v
        /\ \A v : Comes(l, B, "bucket", v) <=> l["bucket"] = v
    BY <2>1, <2>2, Outputs DEF Comes, Has
  <2>4. ~Has(B, "abort?")
    BY <2>2 DEF Guard
  <2>5. ASSUME Agrees(l, s, A) PROVE Agrees(l, s, B)
    <3>1. \A b \in Bucket : ~WillShow(l, s, B, b)
      BY <1>a, <2>2, <2>4, <2>5 DEF WillShow, Has
    <3>2. "DONE" \in AtRest /\ MotorIn("DONE") = "off"
      BY DEF AtRest, MotorIn
    <3>3. l["ext"] = FALSE
      BY <1>a, <1>7, <2>5
    <3> QED BY <2>3, <2>4, <3>1, <3>2, <3>3 DEF Agrees, Will
  <2>6. Heals(l, A) => Heals(l, B)
    BY <1>a, <1>7, <2>3, <2>4 DEF Heals, Will, Drained
  <2>7. Fits(B)
    BY <2>1, <2>2, Outputs DEF Fits, Has
  <2> QED BY <2>2, <2>5, <2>6, <2>7
<1> QED BY <1>1, <1>2, <1>3, <1>4, <1>5, <1>6, <1>7 DEF Stage, AtRest

LEMMA StepDueKeeps == RaceInv /\ StepDue => RaceInv'
<1> SUFFICES ASSUME RaceInv, StepDue PROVE RaceInv'
  OBVIOUS
<1>0. TypeInv /\ ShapeInv /\ EstopInv
  BY DEF RaceInv
<1> DEFINE t == "Task02"
           p == StepCode(line.stage)
           r == <<"running?", 0>>
           q == <<r>>
           c == p \o q
<1>1. Reads(t, "step?") /\ Active /\ Continue(t, "poll", p \o Rest(t)) /\ LineKept
      /\ t \in Task /\ "poll" \in Handler
  BY DEF StepDue, Task, Handler
<1>2. todo[t] # <<>> /\ todo[t] = PollCode
  BY <1>0, <1>1, AtGuard
<1>3. Rest(t) = <<r>> /\ Ahead(t) = {<<"step?", 0>>, r} /\ r[1] = "running?"
  BY <1>2, PollList DEF Rest, Ahead
<1>4. Passive(Ahead(t))
  BY <1>3 DEF Passive
<1>5. line["stage"] \in Stage \ AtRest
  BY <1>0, <1>1 DEF Active, TypeInv, TypeOK
<1>6. p \in Seq(Code) /\ p # <<>>
  BY <1>5, StepList
<1>7. r \in Code /\ q \in Seq(Code) /\ Of(q) = {r}
  BY InCode, OneStatement
<1>8. Continue(t, "poll", c)
  BY <1>1, <1>3
<1> HIDE DEF r
<1> HIDE DEF p, q
<1>9. c \in Seq(Code) /\ Of(c) = Of(p) \cup {r}
  BY <1>6, <1>7, OfJoin
<1>10. /\ Agrees(line, bucketState, Ahead(t)) => Agrees(line, bucketState, Of(c))
       /\ Heals(line, Ahead(t)) => Heals(line, Of(c))
       /\ Fits(Of(c)) /\ \A k \in Guard \ {"running?"} : ~Has(Of(c), k)
  BY <1>3, <1>4, <1>5, <1>9, StepAgrees DEF p
<1>11. Last(c)
  <2>1. \A x \in Of(p) : x[1] \notin {"running?", "start?"}
    BY <1>5, StepList, Outputs DEF Stage, AtRest, p
  <2> QED BY <1>6, <1>7, <2>1, LastOf DEF q
<1>12. Has(Of(c), "running?") /\ c # <<>>
  <2>1. Has(Of(c), "running?")
    BY <1>3, <1>9 DEF Has
  <2>2. Of(<<>>) = {}
    BY OfNone
  <2> QED BY <2>1, <2>2 DEF Has
<1> HIDE DEF c
<1>13. Shape(t, c, "poll")
  BY <1>10, <1>11 DEF Shape, Guard
<1>14. TypeInv' /\ ShapeInv' /\ Apart' /\ AgreeInv' /\ HealInv'
  BY <1>1, <1>2, <1>8, <1>9, <1>10, <1>12, <1>13, Changed
<1>15. EstopInv'
  <2>1. ASSUME undisturbed PROVE FALSE
    <3>1. Stays(line, Ahead(t))
      BY <1>0, <1>1, <2>1, EstopBefore DEF Reads
    <3>2. ~Has(Ahead(t), "abort?")
      BY <1>3 DEF Has
    <3>3. PICK g \in AtRest : Comes(line, Ahead(t), "stage", g)
      BY <3>1, <3>2 DEF Stays
    <3>4. line["stage"] = g
      BY <1>3, <3>3 DEF Comes
    <3> QED BY <1>5, <3>4
  <2> QED BY <1>1, <2>1 DEF EstopInv, LineKept
<1> QED BY <1>14, <1>15 DEF RaceInv

-----------------------------------------------------------------------------
(* The assignments *)

LineType == [stage : Stage, bucket : Bucket, motor : {"off", "CW", "CCW"},
             ext : BOOLEAN, inlet : BOOLEAN, running : BOOLEAN]

LEMMA AssignTypes ==
  ASSUME NEW l \in LineType, NEW x \in Code, x[1] \in Field
  PROVE  [l EXCEPT ![x[1]] = x[2]] \in LineType /\ DOMAIN l = Field
<1>1. DOMAIN l = Field
  BY DEF LineType, Field
<1>2. CASE x[1] = "stage"
  <2>1. [l EXCEPT !["stage"] = x[2]] \in LineType
    BY <1>2, CodeSays DEF LineType
  <2> QED BY <1>1, <1>2, <2>1
<1>3. CASE x[1] = "bucket"
  <2>1. [l EXCEPT !["bucket"] = x[2]] \in LineType
    BY <1>3, CodeSays DEF LineType
  <2> QED BY <1>1, <1>3, <2>1
<1>4. CASE x[1] = "motor"
  <2>1. [l EXCEPT !["motor"] = x[2]] \in LineType
    BY <1>4, CodeSays DEF LineType
  <2> QED BY <1>1, <1>4, <2>1
<1>5. CASE x[1] = "ext"
  <2>1. [l EXCEPT !["ext"] = x[2]] \in LineType
    BY <1>5, CodeSays DEF LineType
  <2> QED BY <1>1, <1>5, <2>1
<1>6. CASE x[1] = "inlet"
  <2>1. [l EXCEPT !["inlet"] = x[2]] \in LineType
    BY <1>6, CodeSays DEF LineType
  <2> QED BY <1>1, <1>6, <2>1
<1>7. CASE x[1] = "running"
  <2>1. [l EXCEPT !["running"] = x[2]] \in LineType
    BY <1>7, CodeSays DEF LineType
  <2> QED BY <1>1, <1>7, <2>1
<1> QED BY <1>2, <1>3, <1>4, <1>5, <1>6, <1>7 DEF Field

\* The list that is left when a statement that is no guard has been executed.
LEMMA RestShape ==
  ASSUME TypeInv, ShapeInv, NEW t \in Task, ~Idle(t), Statement(t)[1] \notin Guard
  PROVE  /\ Statement(t) \in Code /\ Rest(t) \in Seq(Code) /\ todo[t] # <<>>
         /\ Ahead(t) = {Statement(t)} \cup Of(Rest(t)) /\ Fits(Ahead(t))
         /\ Shape(t, Rest(t), handler[t])
         /\ Has(Ahead(t), "abort?") => /\ Statement(t) = Stopped
                                       /\ Rest(t) = Tail(EstopCode)
<1> DEFINE q == todo[t]
<1>1. q \in Seq(Code) /\ q # <<>>
  BY DEF TypeInv, Idle
<1>2. Of(q) = {Head(q)} \cup Of(Tail(q)) /\ Head(q) \in Code /\ Tail(q) \in Seq(Code)
  BY <1>1, OfSplit
<1>3. Shape(t, q, handler[t])
  BY DEF ShapeInv
<1>4. Fits(Of(q)) /\ Last(q)
  BY <1>3 DEF Shape
<1>5. Last(Tail(q))
  BY <1>1, <1>4, LastTail
<1>6. Fits(Of(Tail(q)))
  BY <1>2, <1>4 DEF Fits
<1>7. Head(q)[1] \notin Guard
  BY DEF Statement
<1>8. \A k : Has(Of(Tail(q)), k) => Has(Of(q), k)
  BY <1>2 DEF Has
<1>9. ~Has(Of(q), "step?")
  <2>1. ASSUME Has(Of(q), "step?") PROVE FALSE
    <3>1. q = PollCode
      BY <1>3, <2>1 DEF Shape
    <3>2. Head(PollCode)[1] = "step?"
      BY PollList
    <3> QED BY <1>7, <3>1, <3>2 DEF Guard
  <2> QED BY <2>1
<1>10. ASSUME Has(Of(q), "abort?") PROVE t = "Task03" /\ q = EstopCode
  <2>1. t = "Task03" /\ q \in {EstopCode, Tail(EstopCode), <<<<"abort?", 0>>>>}
    BY <1>3, <1>10 DEF Shape
  <2>2. Head(Tail(EstopCode))[1] = "abort?"
    BY EstopList
  <2>3. Head(<<<<"abort?", 0>>>>)[1] = "abort?"
    OBVIOUS
  <2> QED BY <1>7, <2>1, <2>2, <2>3 DEF Guard
<1>11. Head(EstopCode) = Stopped
  BY EstopList
<1>12. Shape(t, Tail(q), handler[t])
  <2>1. Has(Of(Tail(q)), "abort?") =>
          t = "Task03" /\ Tail(q) \in {EstopCode, Tail(EstopCode), <<<<"abort?", 0>>>>}
    BY <1>8, <1>10
  <2> QED BY <1>3, <1>5, <1>6, <1>8, <1>9, <2>1 DEF Shape
<1> QED BY <1>1, <1>2, <1>4, <1>10, <1>11, <1>12 DEF Statement, Rest, Ahead

LEMMA ExecKeeps == ASSUME RaceInv, NEW t \in Task, Exec(t) PROVE RaceInv'
<1>0. TypeInv /\ ShapeInv /\ Apart /\ AgreeInv /\ HealInv /\ EstopInv
  BY DEF RaceInv
<1> DEFINE x == Statement(t)
           c == Rest(t)
           A == Ahead(t)
           B == Of(c)
<1>1. line \in LineType /\ bucketState \in [Bucket -> {"IDLE", "SAMPLING"}] /\ handler[t] \in Handler
  BY <1>0 DEF TypeInv, TypeOK, LineType
<1>2. DOMAIN line = Field /\ line["bucket"] \in Bucket
  BY <1>1 DEF LineType, Field
<1>3. /\ ~Idle(t) /\ Continue(t, handler[t], c)
      /\ begun' = begun /\ undisturbed' = undisturbed
      /\ \/ x[1] \in Field /\ line' = [line EXCEPT ![x[1]] = x[2]] /\ UNCHANGED bucketState
         \/ /\ x[1] = "mine" /\ UNCHANGED line
            /\ bucketState' = [bucketState EXCEPT ![line["bucket"]] = "IDLE"]
         \/ /\ x[1] = "shows" /\ UNCHANGED line
            /\ bucketState' = [bucketState EXCEPT ![x[2]] = "SAMPLING"]
         \/ x[1] = "timer" /\ UNCHANGED <<line, bucketState>>
  BY <1>2 DEF Exec
<1>4. x[1] \in Field \cup {"mine", "shows", "timer"} /\ x[1] \notin Guard
  BY <1>3 DEF Field, Guard
<1>5. /\ x \in Code /\ c \in Seq(Code) /\ todo[t] # <<>>
      /\ A = {x} \cup B /\ Fits(A) /\ Shape(t, c, handler[t])
      /\ Has(A, "abort?") => x = Stopped /\ c = Tail(EstopCode)
  BY <1>0, <1>3, <1>4, RestShape
<1>6. x[1] = "shows" => x[2] \in Bucket
  BY <1>5, CodeSays
<1> HIDE DEF x, c, A, B
<1>7. SameWill(line, bucketState, A, line', bucketState', B)
  <2>1. CASE Has(A, "abort?")
    <3>1. x = Stopped /\ B = Of(Tail(EstopCode))
      BY <1>5, <2>1 DEF B
    <3>2. x[1] = "running" /\ line' = [line EXCEPT ![x[1]] = x[2]] /\ UNCHANGED bucketState
      BY <1>3, <3>1, Outputs
    <3>3. \A f \in Field \ {"running"} : line'[f] = line[f]
      BY <1>2, <3>2
    <3>4. Passive(A) /\ Passive(B)
      BY <2>1, <3>1, EstopList DEF Passive, Has
    <3>5. /\ \A f \in Field \ {"running"} : \A v : Will(line, A, f, v) <=> line[f] = v
          /\ \A b \in Bucket : WillShow(line, bucketState, A, b) <=> bucketState[b] = "SAMPLING"
      BY <3>4, PassiveWill
    <3>6. /\ \A f \in Field \ {"running"} : \A v : Will(line', B, f, v) <=> line'[f] = v
          /\ \A b \in Bucket : WillShow(line', bucketState', B, b) <=> bucketState'[b] = "SAMPLING"
      BY <3>4, PassiveWill
    <3>7. ASSUME NEW f \in Field \ {"running"}, NEW v
          PROVE  Will(line, A, f, v) <=> Will(line', B, f, v)
      <4>1. (Will(line, A, f, v) <=> line[f] = v) /\ (Will(line', B, f, v) <=> line'[f] = v)
        BY <3>5, <3>6
      <4>2. line'[f] = line[f]
        BY <3>3
      <4> QED BY <4>1, <4>2
    <3>8. \A b \in Bucket : WillShow(line, bucketState, A, b) <=> WillShow(line', bucketState', B, b)
      BY <3>2, <3>5, <3>6
    <3> QED BY <3>7, <3>8 DEF SameWill
  <2>2. CASE ~Has(A, "abort?")
    <3>1. CASE x[1] \in Field
      <4>1. line' = [line EXCEPT ![x[1]] = x[2]] /\ bucketState' = bucketState
        BY <1>3, <3>1 DEF Field
      <4>2. SameWill(line, bucketState, A, line', bucketState, B)
        BY <1>2, <1>5, <2>2, <3>1, <4>1, AssignSame
      <4> QED BY <4>1, <4>2
    <3>2. CASE x[1] = "mine"
      <4>1. line' = line /\ bucketState' = [bucketState EXCEPT ![line["bucket"]] = "IDLE"]
        BY <1>3, <3>2 DEF Field
      <4>2. SameWill(line, bucketState, A, line, bucketState', B)
        BY <1>1, <1>2, <1>5, <2>2, <3>2, <4>1, MineSame
      <4> QED BY <4>1, <4>2
    <3>3. CASE x[1] = "shows"
      <4>1. line' = line /\ bucketState' = [bucketState EXCEPT ![x[2]] = "SAMPLING"]
        BY <1>3, <3>3 DEF Field
      <4>2. SameWill(line, bucketState, A, line, bucketState', B)
        BY <1>1, <1>5, <1>6, <2>2, <3>3, <4>1, ShowsSame
      <4> QED BY <4>1, <4>2
    <3>4. CASE x[1] = "timer"
      <4>1. line' = line /\ bucketState' = bucketState
        BY <1>3, <3>4 DEF Field
      <4>2. SameWill(line, bucketState, A, line, bucketState, B)
        BY <1>5, <3>4, TimerSame
      <4> QED BY <4>1, <4>2
    <3> QED BY <1>4, <3>1, <3>2, <3>3, <3>4
  <2> QED BY <2>1, <2>2
<1>8. line' \in LineType /\ bucketState' \in [Bucket -> {"IDLE", "SAMPLING"}]
  <2>1. CASE x[1] \in Field
    <3>1. line' = [line EXCEPT ![x[1]] = x[2]] /\ bucketState' = bucketState
      BY <1>3, <2>1 DEF Field
    <3> QED BY <1>1, <1>5, <2>1, <3>1, AssignTypes
  <2>2. CASE x[1] \in {"mine", "shows", "timer"}
    BY <1>1, <1>2, <1>3, <1>6, <2>2 DEF Field
  <2> QED BY <1>4, <2>1, <2>2
<1>9. /\ todo' \in [Task -> Seq(Code)] /\ handler' \in [Task -> Handler]
      /\ todo'[t] = c /\ \A u \in Task \ {t} : todo'[u] = todo[u]
      /\ clean' \in {"always", "run", "no"} /\ ShapeInv' /\ Apart'
  BY <1>0, <1>1, <1>3, <1>5, ContinueStep
<1>10. TypeInv'
  <2>1. begun' \in BOOLEAN /\ undisturbed' \in BOOLEAN
    BY <1>0, <1>3, GuardTypes
  <2> QED BY <1>8, <1>9, <2>1 DEF TypeInv, TypeOK, LineType
<1>11. AgreeInv' /\ HealInv'
  BY <1>0, <1>1, <1>3, <1>5, <1>7, Kept DEF A, B
<1>12. EstopInv'
  <2> SUFFICES ASSUME undisturbed PROVE EstopInv'
    BY <1>3 DEF EstopInv
  <2>1. /\ Stays(line, A) /\ ~Has(A, "start?")
        /\ t = "Task02" => \A y \in A : y[1] \in {"step?", "running?"}
        /\ \A u \in Task \ {t} : Idle(u)
    BY <1>0, <1>3, EstopBefore DEF A
  <2>2. t # "Task02"
    BY <1>4, <1>5, <2>1 DEF Guard
  <2>3. ~Has(B, "start?") /\ (Has(A, "abort?") <=> Has(B, "abort?"))
    BY <1>4, <1>5, <2>1 DEF Has, Guard
  <2>4. SameComes(line, A, line', B)
    <3>1. CASE x[1] \in Field
      <4>1. line' = [line EXCEPT ![x[1]] = x[2]]
        BY <1>3, <3>1 DEF Field
      <4> QED BY <1>2, <1>5, <3>1, <4>1, AssignComes
    <3>2. CASE x[1] \notin Field
      <4>1. line' = line
        BY <1>3, <3>2
      <4>2. SameComes(line, A, line, B)
        BY <1>5, <3>2, OtherComes
      <4> QED BY <4>1, <4>2
    <3> QED BY <3>1, <3>2
  <2>5. Stays(line', B)
    BY <2>1, <2>3, <2>4, StaysKept
  <2>6. \A u \in Task \ {t} : todo'[u] = <<>>
    BY <1>9, <2>1 DEF Idle
  <2> QED BY <1>5, <1>9, <2>2, <2>3, <2>5, <2>6, EstopAfter DEF B
<1> QED BY <1>9, <1>10, <1>11, <1>12 DEF RaceInv

-----------------------------------------------------------------------------
(* The theorems *)

LEMMA RaceNext == RaceInv /\ [Next]_vars => RaceInv'
<1> SUFFICES ASSUME RaceInv, [Next]_vars PROVE RaceInv'
  OBVIOUS
<1>1. ASSUME NEW t \in Task, Exec(t) PROVE RaceInv'
  BY <1>1, ExecKeeps
<1>2. ASSUME NEW t \in Task, TryStart(t) PROVE RaceInv'
  BY <1>2, TryStartKeeps
<1>3. CASE StepDue
  BY <1>3, StepDueKeeps
<1>4. CASE StepWaits
  BY <1>4, StepWaitsKeeps
<1>5. CASE SchedulerDecides
  BY <1>5, SchedulerDecidesKeeps
<1>6. CASE TryAbort
  BY <1>6, TryAbortKeeps
<1>7. CASE Poll
  BY <1>7, PollKeeps
<1>8. CASE PressStart \/ PressAbort \/ PressEstop \/ PressRun
  BY <1>8, PressKeeps
<1>9. CASE UNCHANGED vars
  <2> USE <1>9 DEF vars
  <2>1. TypeInv'
    BY DEF RaceInv, TypeInv, TypeOK
  <2>2. ShapeInv'
    BY DEF RaceInv, ShapeInv
  <2>3. Apart'
    BY DEF RaceInv, Apart, Idle
  <2>4. All' = All /\ Ahead("Task02")' = Ahead("Task02")
    BY DEF All, Ahead
  <2>5. AgreeInv' /\ HealInv'
    BY <2>4 DEF RaceInv, AgreeInv, HealInv
  <2>6. EstopInv'
    BY <2>4 DEF RaceInv, EstopInv, Idle
  <2> QED BY <2>1, <2>2, <2>3, <2>5, <2>6 DEF RaceInv
<1> QED BY <1>1, <1>2, <1>3, <1>4, <1>5, <1>6, <1>7, <1>8, <1>9 DEF Next

LEMMA RaceAlways == Spec => []RaceInv
BY InitRace, RaceNext, PTL DEF Spec

(***************************************************************************)
(* However the tasks interleave, the line, the buckets' states and the     *)
(* handlers keep their types.                                              *)
(***************************************************************************)
THEOREM RaceTypeCorrect == Spec => []TypeOK
<1>1. RaceInv => TypeOK
  BY DEF RaceInv, TypeInv
<1> QED BY <1>1, RaceAlways, PTL

\* Between handlers nothing is to come, and what will be is what is.
LEMMA NothingAhead == Between => All = {} /\ Passive(All)
<1>1. Between => All = {}
  BY OfNone DEF Between, All, Ahead, Idle, Task
<1> QED BY <1>1 DEF Passive

(***************************************************************************)
(* As long as no two handlers have overlapped, what is on between handlers *)
(* is what the stage calls for, and a bucket shows SAMPLING exactly while  *)
(* it is being sampled.                                                    *)
(***************************************************************************)
THEOREM AtomicHandlersCorrect == Spec => []AtomicHandlersAgree
<1>1. RaceInv => AtomicHandlersAgree
  <2> SUFFICES ASSUME RaceInv, clean = "always", Between PROVE AtomicHandlersAgree
    BY DEF AtomicHandlersAgree
  <2>1. Agrees(line, bucketState, All) /\ Passive(All)
    BY NothingAhead DEF RaceInv, AgreeInv
  <2>2. line["stage"] \in Stage
    BY DEF RaceInv, TypeInv, TypeOK
  <2>3. /\ line["motor"] = MotorIn(line["stage"])
        /\ IF line["stage"] = "IMPROVE" THEN line["ext"] = TRUE ELSE line["ext"] = FALSE
        /\ IF line["stage"] \in AtRest THEN line["inlet"] = FALSE ELSE line["inlet"] = TRUE
        /\ \A b \in Bucket : bucketState[b] = "SAMPLING"
                             <=> (line["stage"] \notin AtRest /\ line["bucket"] = b)
    BY <2>1, <2>2, PassiveMeans
  <2> QED BY <2>2, <2>3 DEF AtomicHandlersAgree, Active, Holds, MotorIn, Stage, AtRest
<1> QED BY <1>1, RaceAlways, PTL

(***************************************************************************)
(* Whatever earlier overlaps left on, a run of sampling that itself meets  *)
(* none ends with motor, pump and valve off.                               *)
(***************************************************************************)
THEOREM UndisturbedRunCorrect == Spec => []UndisturbedRunHeals
<1>1. RaceInv => UndisturbedRunHeals
  <2> SUFFICES ASSUME RaceInv, clean \in {"always", "run"}, Between, ~Active
               PROVE  Holds("off", FALSE, FALSE)
    BY DEF UndisturbedRunHeals
  <2>1. Heals(line, All) /\ Passive(All)
    BY NothingAhead DEF RaceInv, HealInv
  <2>2. line["stage"] \in Stage /\ line["stage"] \in AtRest
    BY DEF RaceInv, TypeInv, TypeOK, Active
  <2> QED BY <2>1, <2>2, PassiveMeans DEF Holds
<1> QED BY <1>1, RaceAlways, PTL

(***************************************************************************)
(* Whatever earlier overlaps left on, an emergency stop during which       *)
(* Task02 is asleep leaves sampling at rest, the pump and the valve off    *)
(* and the scheduler stopped, until the next command.                      *)
(***************************************************************************)
THEOREM UndisturbedEstopCorrect == Spec => []UndisturbedEstopHolds
<1>1. RaceInv => UndisturbedEstopHolds
  <2> SUFFICES ASSUME RaceInv, undisturbed, Idle("Task03")
               PROVE  ~Active /\ ~line.running /\ ~line.ext /\ ~line.inlet
    BY DEF UndisturbedEstopHolds
  <2>1. Ahead("Task03") = {}
    BY OfNone DEF Ahead, Idle
  <2>2. Stays(line, All) /\ \A x \in All : x[1] \in {"step?", "running?"}
    BY <2>1 DEF RaceInv, EstopInv, All
  <2>3. ~Has(All, "abort?")
    BY <2>2 DEF Has
  <2> QED BY <2>2, <2>3 DEF Stays, Comes, Active
<1> QED BY <1>1, RaceAlways, PTL

=============================================================================
