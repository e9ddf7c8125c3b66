------------------------------ MODULE MCChoreSync ------------------------------
(* Small instances of ChoreSync for TLC.                                   *)
EXTENDS ChoreSync, TLC

CONSTANTS u1, u2, c1, c2, e1, s1, s2

TwoUsers == {u1, u2}
TwoSessions == {s1, s2}
OneChore == {c1}
TwoChores == {c1, c2}
OneEvent == {e1}
NoEvent == {}
NoChore == {}

\* The two tabs belong to two users.
OwnTab == (s1 :> u1) @@ (s2 :> u2)

FormOf(tag, who, done) ==
  [kind |-> [tag |-> tag, secs |-> 0], visible_to |-> who, can_complete |-> done]

Shared == {FormOf("OneTime", TwoUsers, TwoUsers)}
SharedAndPrivate == {FormOf("OneTime", TwoUsers, {u2}), FormOf("OneTime", {u1}, {u1})}

\* What may be found in db.cbor: nothing, nothing but that a chore was there
\* once, a chore of u1's own and a chore for everyone that waits for it, an
\* event nobody has ticked off.
Empty == [chores |-> << >>, events |-> << >>, clock |-> 0,
          born |-> [c \in ChoreId |-> 0], issuedEvents |-> {}]

OldChore(who, deps) ==
  [kind |-> [tag |-> "OneTime", secs |-> 0], visible_to |-> who, can_complete |-> who,
   depends_on |-> deps, depends_on_events |-> {}, created_by |-> u1, completions |-> << >>]

Deleted == [Empty EXCEPT !.born = (c1 :> 0) @@ (c2 :> 1)]

Waiting == [Empty EXCEPT !.chores = (c1 :> OldChore({u1}, {})) @@ (c2 :> OldChore(TwoUsers, {c1})),
                         !.born = (c1 :> 1) @@ (c2 :> 2)]

Unticked == [Empty EXCEPT !.events = (e1 :> [created_by |-> u1, triggered_by |-> Nobody]),
                          !.issuedEvents = {e1}]

FirstStart == {Empty}
WithChores == {Deleted, Waiting}
WithEvent == {Empty, Unticked}
=============================================================================
