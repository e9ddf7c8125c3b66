----------------------------- MODULE MCChoreStore -----------------------------
(* Small instances of ChoreStore for TLC.                                  *)
EXTENDS ChoreStore, TLC

CONSTANTS u1, u2, c1, c2, e1

MCUser == {u1, u2}
TwoChores == {c1, c2}
MCEventId == {e1}

FormOf(tag, secs, seen, done) ==
  [kind |-> [tag |-> tag, secs |-> secs], visible_to |-> seen, can_complete |-> done]

\* Every kind of chore with a due date that varies.  The deadline falls within
\* the bound on time, one chore is visible to one user only; one delay leads
\* past the last date and one turns negative.
AllKinds ==
  {FormOf("OneTime", 0, {u1}, {u1}),
   FormOf("RecurringAfterCompletion", 1, MCUser, {u1}),
   FormOf("RecurringAfterCompletion", 3, MCUser, {u2}),
   FormOf("RecurringAfterCompletion", 7, MCUser, {u1}),
   FormOf("WithDeadline", 1, MCUser, {u2})}

TwoSymmetry == Permutations(TwoChores)
=============================================================================
