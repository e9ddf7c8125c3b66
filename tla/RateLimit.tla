------------------------------ MODULE RateLimit ------------------------------
(***************************************************************************)
(* The rate limit of a session (handle, src/backend/src/session.rs): the   *)
(* messages are counted in windows, and a window begins with the first     *)
(* message that is read a second or more after the last one began.         *)
(*                                                                         *)
(* A message is the time at which it is read; what it says does not        *)
(* matter, not even whether it can be decoded.  Frames that are not binary *)
(* do not count.                                                           *)
(***************************************************************************)
EXTENDS Integers, Sequences

CONSTANTS
  MAX_MSG_PER_SEC,
  Second,        \* the length of a second
  MaxTime        \* bound: the clock stops there

ASSUME LimitAssumption ==
  MAX_MSG_PER_SEC \in Nat \ {0} /\ Second \in Nat \ {0} /\ MaxTime \in Nat

VARIABLES
  now,           \* Instant::now()
  window_start,
  msg_count,
  session,       \* runs, was closed by the client, or was ended by the limit
  passed         \* history: when the messages that passed were read

vars == <<now, window_start, msg_count, session, passed>>

Init ==
  /\ now = 0 /\ window_start = 0 /\ msg_count = 0
  /\ session = "open" /\ passed = << >>

WindowOver == now - window_start >= Second

\* Where the counter stands when a message has been counted.
CountWith(n) == IF WindowOver THEN 1 ELSE n + 1

\* Seeded fault: the new window does not count its first message.
Accept_FirstFree ==
  /\ session = "open"
  /\ WindowOver \/ msg_count < MAX_MSG_PER_SEC
  /\ msg_count' = IF WindowOver THEN 0 ELSE msg_count + 1
  /\ window_start' = IF WindowOver THEN now ELSE window_start
  /\ passed' = Append(passed, now)
  /\ UNCHANGED <<now, session>>

\* A message is counted and goes on to dispatch.
Accept ==
  /\ session = "open"
  /\ CountWith(msg_count) <= MAX_MSG_PER_SEC
  /\ msg_count' = CountWith(msg_count)
  /\ window_start' = IF WindowOver THEN now ELSE window_start
  /\ passed' = Append(passed, now)
  /\ UNCHANGED <<now, session>>

\* Seeded fault: a window lasts until the session has been quiet for a second.
Refuse_Sticky ==
  /\ session = "open"
  /\ msg_count + 1 > MAX_MSG_PER_SEC
  /\ msg_count' = msg_count + 1
  /\ session' = "cut"
  /\ UNCHANGED <<now, window_start, passed>>

\* Seeded fault: the loop continues after the error.
Refuse_Continues ==
  /\ session = "open"
  /\ CountWith(msg_count) > MAX_MSG_PER_SEC
  /\ msg_count' = CountWith(msg_count)
  /\ UNCHANGED <<now, window_start, session, passed>>

\* One too many: an error is sent and the session ends.
Refuse ==
  /\ session = "open"
  /\ CountWith(msg_count) > MAX_MSG_PER_SEC
  /\ msg_count' = CountWith(msg_count)
  /\ session' = "cut"
  /\ UNCHANGED <<now, window_start, passed>>

\* The client closes, or the socket fails.
Leave ==
  /\ session = "open" /\ session' = "closed"
  /\ UNCHANGED <<now, window_start, msg_count, passed>>

Tick ==
  /\ now < MaxTime /\ now' = now + 1
  /\ UNCHANGED <<window_start, msg_count, session, passed>>

Next == Accept \/ Refuse \/ Leave \/ Tick

Spec == Init /\ [][Next]_vars

-----------------------------------------------------------------------------
(* Properties.                                                             *)

\* The counter exceeds the limit exactly in the session it has ended, and time
\* only passes.
TypeOK ==
  /\ now \in 0..MaxTime /\ window_start \in 0..now
  /\ msg_count \in 0..MAX_MSG_PER_SEC + 1
  /\ session \in {"open", "closed", "cut"}
  /\ session = "cut" <=> msg_count > MAX_MSG_PER_SEC
  /\ passed \in Seq(0..now)

\* "Max 30 messages per second" holds for windows, not for every second: a
\* burst at the end of one window and another at the beginning of the next both
\* pass.  Less than a second never sees more than twice the limit, though.
AtMostTwice ==
  \A i \in 1..Len(passed) :
    i + 2 * MAX_MSG_PER_SEC \in 1..Len(passed)
      => passed[i + 2 * MAX_MSG_PER_SEC] - passed[i] >= Second

\* The limit ends a session only when the message that is refused and the
\* MAX_MSG_PER_SEC before it were all read in less than a second.
PatientClientKept ==
  [][session = "open" /\ session' = "cut" =>
       /\ Len(passed) >= MAX_MSG_PER_SEC
       /\ now - passed[Len(passed) - MAX_MSG_PER_SEC + 1] < Second]_vars
=============================================================================
