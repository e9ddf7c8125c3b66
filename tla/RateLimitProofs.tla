--------------------------- MODULE RateLimitProofs ---------------------------
(***************************************************************************)
(* What the rate limit of a session guarantees, for every limit, every     *)
(* length of a second and every bound on the clock.                        *)
(*                                                                         *)
(* The properties compare messages that are a limit or two apart; what     *)
(* makes them inductive is where the windows are in the history: the last  *)
(* msg_count messages are in the present window, those before them came no *)
(* later than its beginning, and those more than a limit before them a     *)
(* second earlier still.                                                   *)
(***************************************************************************)
EXTENDS RateLimit, TLAPS

M == MAX_MSG_PER_SEC

\* The counters and the history.
Counters ==
  /\ now \in Nat /\ window_start \in Nat /\ msg_count \in Nat
  /\ now <= MaxTime /\ window_start <= now /\ msg_count <= M + 1
  /\ session \in {"open", "closed", "cut"}
  /\ session = "cut" <=> msg_count > M
  /\ passed \in Seq(Nat)
  /\ \A i \in 1..Len(passed) : passed[i] <= now

\* The windows in the history of a session that was not cut.
Windows ==
  session # "cut" =>
    /\ msg_count <= Len(passed)
    /\ \A i \in 1..Len(passed) :
         /\ i > Len(passed) - msg_count => passed[i] >= window_start
         /\ i <= Len(passed) - msg_count => passed[i] <= window_start
         /\ i <= Len(passed) - msg_count - M => passed[i] <= window_start - Second

IInv == Counters /\ Windows /\ AtMostTwice

LEMMA Initially == Init => IInv
BY LimitAssumption DEF Init, IInv, Counters, Windows, AtMostTwice, M

\* The message that passes is far enough from the one two limits before it.
LEMMA AcceptKeeps == IInv /\ Accept => IInv'
<1> SUFFICES ASSUME IInv, Accept PROVE IInv'
  OBVIOUS
<1> USE LimitAssumption DEF M
<1>1. /\ passed \in Seq(Nat) /\ now \in Nat
      /\ passed' = Append(passed, now) /\ now' = now /\ session' = session
      /\ session = "open"
  BY DEF IInv, Counters, Accept
<1>2. /\ Len(passed) \in Nat
      /\ passed' \in Seq(Nat)
      /\ Len(passed') = Len(passed) + 1
      /\ \A i \in 1..Len(passed) : passed'[i] = passed[i]
      /\ passed'[Len(passed) + 1] = now
  BY <1>1
<1>3. Counters'
  BY <1>1, <1>2 DEF IInv, Counters, Accept, CountWith, WindowOver
<1>4. \A i \in 1..Len(passed) : passed[i] \in Nat /\ passed[i] <= now
  BY <1>1 DEF IInv, Counters
<1>5. Windows'
  <2>1. CASE WindowOver
    <3>1. window_start' = now /\ msg_count' = 1 /\ window_start <= now - Second
      BY <2>1, <1>1 DEF Accept, CountWith, WindowOver, IInv, Counters
    <3>2. \A i \in 1..Len(passed) : i <= Len(passed) - M => passed[i] <= window_start
      BY <1>1, <1>2, <1>4 DEF IInv, Windows, Counters
    <3>3. \A i \in 1..Len(passed) : i <= Len(passed) - M => passed[i] <= now - Second
      BY <1>1, <1>2, <1>4, <3>1, <3>2 DEF IInv, Counters
    <3>4. \A i \in 1..Len(passed') :
            /\ i > Len(passed') - 1 => passed'[i] >= now
            /\ i <= Len(passed') - 1 => passed'[i] <= now
            /\ i <= Len(passed') - 1 - M => passed'[i] <= now - Second
      BY <1>1, <1>2, <1>4, <3>3
    <3>5. QED
      BY <1>1, <1>2, <3>1, <3>4 DEF Windows
  <2>2. CASE ~ WindowOver
    <3>1. window_start' = window_start /\ msg_count' = msg_count + 1
      BY <2>2, <1>1 DEF Accept, CountWith
    <3>2. msg_count \in Nat /\ window_start \in Nat /\ window_start <= now
      BY DEF IInv, Counters
    <3>3. QED
      BY <1>1, <1>2, <1>4, <3>1, <3>2 DEF IInv, Windows
  <2>3. QED
    BY <2>1, <2>2
<1>6. AtMostTwice'
  <2>1. SUFFICES ASSUME NEW i \in 1..Len(passed'), i + 2 * M \in 1..Len(passed')
                 PROVE  passed'[i + 2 * M] - passed'[i] >= Second
    BY DEF AtMostTwice
  <2>2. i \in 1..Len(passed) /\ passed'[i] = passed[i] /\ passed[i] \in Nat
    BY <1>2, <1>4, <2>1
  <2>3. CASE i + 2 * M <= Len(passed)
    <3>1. i + 2 * M \in 1..Len(passed) /\ passed'[i + 2 * M] = passed[i + 2 * M]
      BY <1>2, <2>1, <2>2, <2>3
    <3>2. QED
      BY <2>2, <3>1 DEF IInv, AtMostTwice
  <2>4. CASE i + 2 * M = Len(passed) + 1
    <3>1. passed'[i + 2 * M] = now
      BY <1>2, <2>4
    <3>2. i <= Len(passed') - msg_count' - M
      BY <1>2, <1>1, <1>3, <2>1, <2>4 DEF Counters
    <3>3. passed'[i] <= window_start' - Second
      BY <1>1, <1>5, <2>1, <3>2 DEF Windows
    <3>4. window_start' \in Nat /\ window_start' <= now
      BY <1>1, <1>3 DEF Counters
    <3>5. QED
      BY <1>1, <2>2, <3>1, <3>3, <3>4
  <2>5. QED
    BY <1>2, <2>1, <2>3, <2>4
<1>7. QED
  BY <1>3, <1>5, <1>6 DEF IInv

LEMMA StepKeeps == IInv /\ [Next]_vars => IInv'
<1> SUFFICES ASSUME IInv, [Next]_vars PROVE IInv'
  OBVIOUS
<1> USE LimitAssumption DEF M
<1>1. CASE Accept
  BY <1>1, AcceptKeeps
<1>2. CASE Refuse
  BY <1>2 DEF IInv, Counters, Windows, AtMostTwice, Refuse, CountWith, WindowOver
<1>3. CASE Leave
  BY <1>3 DEF IInv, Counters, Windows, AtMostTwice, Leave
<1>4. CASE Tick
  BY <1>4 DEF IInv, Counters, Windows, AtMostTwice, Tick
<1>5. CASE UNCHANGED vars
  BY <1>5 DEF IInv, Counters, Windows, AtMostTwice, vars
<1>6. QED
  BY <1>1, <1>2, <1>3, <1>4, <1>5 DEF Next

THEOREM Invariance == Spec => []IInv
BY Initially, StepKeeps, PTL DEF Spec

\* The counters keep their types in every reachable state.
THEOREM TypeCorrect == Spec => []TypeOK
<1>1. IInv => TypeOK
  <2> SUFFICES ASSUME IInv PROVE TypeOK
    OBVIOUS
  <2>1. passed \in Seq(0..now)
    <3>1. passed \in Seq(Nat) /\ now \in Nat
          /\ \A i \in 1..Len(passed) : passed[i] <= now
      BY DEF IInv, Counters
    <3>2. \A i \in 1..Len(passed) : passed[i] \in 0..now
      BY <3>1
    <3>3. QED
      BY <3>1, <3>2
  <2>2. QED
    BY <2>1, LimitAssumption DEF IInv, Counters, TypeOK, M
<1>2. QED
  BY <1>1, Invariance, PTL

\* No stretch of less than a second lets more than twice the limit pass.
THEOREM NeverMoreThanTwice == Spec => []AtMostTwice
<1>1. IInv => AtMostTwice
  BY DEF IInv
<1>2. QED
  BY <1>1, Invariance, PTL

\* A session is cut only for more than the limit in less than a second.
THEOREM CutOnlyForABurst == Spec => PatientClientKept
<1>1. ASSUME IInv, [Next]_vars, session = "open", session' = "cut"
      PROVE  /\ Len(passed) >= MAX_MSG_PER_SEC
             /\ now - passed[Len(passed) - MAX_MSG_PER_SEC + 1] < Second
  <2> USE LimitAssumption
  <2>1. Refuse
    BY <1>1 DEF Next, vars, Accept, Leave, Tick
  <2>2. ~ WindowOver /\ msg_count = M
    BY <1>1, <2>1 DEF Refuse, CountWith, IInv, Counters, M
  <2>3. /\ Len(passed) \in Nat /\ M <= Len(passed)
        /\ Len(passed) - M + 1 \in 1..Len(passed)
    BY <1>1, <2>2 DEF IInv, Counters, Windows, M
  <2>4. /\ passed[Len(passed) - M + 1] >= window_start
        /\ passed[Len(passed) - M + 1] \in Nat
    BY <1>1, <2>2, <2>3 DEF IInv, Counters, Windows, M
  <2>5. QED
    BY <1>1, <2>2, <2>3, <2>4 DEF WindowOver, IInv, Counters, M
<1>2. QED
  BY <1>1, Invariance, PTL DEF Spec, PatientClientKept
=============================================================================
