------------------------------ MODULE ChoreStore ------------------------------
(***************************************************************************)
(* The chore database of the chorgly server and the operations on it.      *)
(*                                                                         *)
(* SharedState (src/backend/src/state.rs) keeps one Database behind one    *)
(* RwLock.  Every operation on chores and events takes the write lock,     *)
(* decides, changes the two tables and releases the lock: one action of    *)
(* this module per operation.  What happens after the lock is released     *)
(* (the broadcast and the reply) is the subject of module ChoreSync.       *)
(*                                                                         *)
(* The meaning of a chore (who may complete it, when it is due, whether it *)
(* is blocked) is src/core/src/chore.rs; its methods are pure operators    *)
(* here.                                                                   *)
(*                                                                         *)
(* Abstracted: titles, descriptions, assignees and creation times decide   *)
(* nothing on the server.  depends_on and depends_on_events are Vecs in    *)
(* the code, but only ever asked "any element such that", so they are sets *)
(* here.  A HashMap is a function whose domain is the set of its keys.     *)
(***************************************************************************)
EXTENDS Integers, Sequences, FiniteSets

CONSTANTS
  User,            \* the users known to the server
  ChoreId,         \* a pool of chore ids, standing for the 122-bit UUIDs
  EventId,         \* a pool of event ids
  Form,            \* the add-chore forms in use: kind and permission fields
  Nobody,          \* Option::None in triggered_by
  HalfI64,         \* 2^63: a u64 from here on is negative as an i64
  MaxDelta,        \* the longest chrono::Duration, in seconds
  MaxInstant,      \* the farthest second a DateTime<Utc> can hold
  MaxTime,         \* bound: the server clock stops there
  MaxCompletions   \* bound: the longest completion history of one chore

-----------------------------------------------------------------------------
(* Types of chore.rs and event.rs.                                         *)

KindTag ==
  {"OneTime", "RecurringAfterCompletion", "RecurringScheduled", "WithDeadline"}

\* secs is delay_secs (a u64) of RecurringAfterCompletion, the deadline of
\* WithDeadline, and 0 for the kinds that carry no time.
ChoreKind == [tag : KindTag, secs : 0..2 * HalfI64 - 1]

\* Option<Vec<UserId>>; None, "everyone", is the set of all users.
Audience == SUBSET User

ChoreForm == [kind : ChoreKind, visible_to : Audience, can_complete : Audience]

Completion == [by : User, at : Nat]

Chore == [kind : ChoreKind, visible_to : Audience, can_complete : Audience,
          depends_on : SUBSET ChoreId, depends_on_events : SUBSET EventId,
          created_by : User, completions : Seq(Completion)]

\* triggered, triggered_at and triggered_by are always written together;
\* the user who ticked the event off stands for the three.
ExternalEvent == [created_by : User, triggered_by : User \cup {Nobody}]

\* An Option<DateTime<Utc>> is the set of at most one instant.
None == {}
Some(t) == {t}

ASSUME NobodyAssumption == Nobody \notin User
ASSUME FormAssumption == Form \subseteq ChoreForm
ASSUME WidthAssumption ==
  /\ HalfI64 \in Nat /\ MaxDelta \in Nat /\ MaxInstant \in Nat
  /\ MaxTime < MaxInstant /\ MaxInstant <= MaxDelta /\ MaxDelta < HalfI64
ASSUME BoundAssumption == MaxTime \in Nat /\ MaxCompletions \in Nat
ASSUME PoolAssumption == IsFiniteSet(ChoreId) /\ IsFiniteSet(EventId)

-----------------------------------------------------------------------------
(* The methods of Chore.                                                   *)

Done(r) == r.completions # <<>>

\* Seeded fault: the first entry of the history taken for the most recent.
LastCompletion_First(r) == r.completions[1]

LastCompletion(r) == r.completions[Len(r.completions)]

VisibleTo(r, u) == u \in r.visible_to

CompletableBy(r, u) == u \in r.can_complete

\* The cast "as i64" of a u64.
AsI64(n) == IF n < HalfI64 THEN n ELSE n - 2 * HalfI64

\* Where a repeating chore's timer runs out.
TimerEnd(r) == LastCompletion(r).at + AsI64(r.kind.secs)

\* Seeded fault: the timer is computed for a chore that was never completed.
TimerPanics_Eager(r) ==
  /\ r.kind.tag = "RecurringAfterCompletion"
  /\ \/ AsI64(r.kind.secs) \notin -MaxDelta..MaxDelta
     \/ AsI64(r.kind.secs) \notin -MaxInstant..MaxInstant

\* chrono panics where the delay is no Duration, or where the sum is no
\* DateTime<Utc>: next_due then returns nothing to its caller.
TimerPanics(r) ==
  /\ r.kind.tag = "RecurringAfterCompletion" /\ Done(r)
  /\ \/ AsI64(r.kind.secs) \notin -MaxDelta..MaxDelta
     \/ TimerEnd(r) \notin -MaxInstant..MaxInstant

\* Seeded fault: the deadline compared the wrong way round.
NextDue_Flipped(r, now) ==
  CASE r.kind.tag = "OneTime" -> IF Done(r) THEN None ELSE Some(now)
    [] r.kind.tag = "RecurringAfterCompletion" ->
         IF Done(r) THEN Some(TimerEnd(r)) ELSE Some(now)
    [] r.kind.tag = "RecurringScheduled" -> Some(now)
    [] r.kind.tag = "WithDeadline" ->
         IF r.kind.secs <= now /\ ~Done(r) THEN Some(r.kind.secs) ELSE None

\* What next_due returns, unless TimerPanics.
NextDue(r, now) ==
  CASE r.kind.tag = "OneTime" -> IF Done(r) THEN None ELSE Some(now)
    [] r.kind.tag = "RecurringAfterCompletion" ->
         IF Done(r) THEN Some(TimerEnd(r)) ELSE Some(now)
    [] r.kind.tag = "RecurringScheduled" -> Some(now)
    [] r.kind.tag = "WithDeadline" ->
         IF r.kind.secs > now /\ ~Done(r) THEN Some(r.kind.secs) ELSE None

\* Seeded fault: a chore counts as completed only until it is done again.
CompletedChores_Once(cs) == {c \in DOMAIN cs : Len(cs[c].completions) = 1}

CompletedChores(cs) == {c \in DOMAIN cs : Done(cs[c])}

TriggeredEvents(es) == {e \in DOMAIN es : es[e].triggered_by # Nobody}

\* Seeded fault: a dependency that is not in the table does not count.
IsBlocked_KnownOnly(r, cs, es) ==
  \/ ~ (r.depends_on \cap DOMAIN cs \subseteq CompletedChores(cs))
  \/ ~ (r.depends_on_events \subseteq TriggeredEvents(es))

IsBlocked(r, cs, es) ==
  \/ ~ (r.depends_on \subseteq CompletedChores(cs))
  \/ ~ (r.depends_on_events \subseteq TriggeredEvents(es))

\* list_chores: the part of the table a user is given.
VisibleChores(u, cs) == [c \in {d \in DOMAIN cs : VisibleTo(cs[d], u)} |-> cs[c]]

\* pending_chores_json calls next_due on every chore of the replica cs that
\* its user may see, and on every chore while AppState::current_user is None:
\* one panic costs the client the whole list.
PendingListPanics(me, cs) ==
  \E c \in DOMAIN cs : TimerPanics(cs[c]) /\ \A u \in me : VisibleTo(cs[c], u)

\* HashMap::insert and HashMap::remove.
Insert(table, k, v) ==
  [i \in DOMAIN table \cup {k} |-> IF i = k THEN v ELSE table[i]]
Remove(table, k) == [i \in DOMAIN table \ {k} |-> table[i]]

-----------------------------------------------------------------------------
VARIABLES
  chores,        \* Database::chores
  events,        \* Database::events
  clock,         \* Utc::now(), read while the write lock is held
  born,          \* history: born[c] = n if c was the n-th chore id issued, 0 if it was not
  issuedEvents   \* history: the event ids issued so far

vars == <<chores, events, clock, born, issuedEvents>>

Live == DOMAIN chores
Issued == {c \in ChoreId : born[c] # 0}

Init ==
  /\ chores = << >>
  /\ events = << >>
  /\ clock = 0
  /\ born = [c \in ChoreId |-> 0]
  /\ issuedEvents = {}

-----------------------------------------------------------------------------
(* Operations.  Each is called by an authenticated session for user u.     *)

NewChore(u, form, deps, evs) ==
  [kind |-> form.kind, visible_to |-> form.visible_to,
   can_complete |-> form.can_complete, depends_on |-> deps,
   depends_on_events |-> evs, created_by |-> u, completions |-> << >>]

\* Seeded fault: the client picks the id, so a chore may name itself.
AddChore_ClientId(u, c, form, deps, evs) ==
  /\ c \in ChoreId \ Issued
  /\ deps \subseteq Issued \cup {c}
  /\ evs \subseteq issuedEvents
  /\ chores' = Insert(chores, c, NewChore(u, form, deps, evs))
  /\ born' = [born EXCEPT ![c] = Cardinality(Issued) + 1]
  /\ UNCHANGED <<events, clock, issuedEvents>>

\* Seeded fault: the id of a deleted chore is given out again.
AddChore_Recycled(u, c, form, deps, evs) ==
  /\ c \in ChoreId \ Live
  /\ deps \subseteq Issued
  /\ evs \subseteq issuedEvents
  /\ chores' = Insert(chores, c, NewChore(u, form, deps, evs))
  /\ born' = [born EXCEPT ![c] = Cardinality(Issued) + 1]
  /\ UNCHANGED <<events, clock, issuedEvents>>

\* Uuid::new_v4(): an id that no chore has had.  The dependencies are sent
\* by the client: ids it has seen, live or deleted.
AddChore(u, c, form, deps, evs) ==
  /\ c \in ChoreId \ Issued
  /\ deps \subseteq Issued
  /\ evs \subseteq issuedEvents
  /\ chores' = Insert(chores, c, NewChore(u, form, deps, evs))
  /\ born' = [born EXCEPT ![c] = Cardinality(Issued) + 1]
  /\ UNCHANGED <<events, clock, issuedEvents>>

\* Seeded fault: the dependencies are not checked.
MayComplete_Unchecked(u, c) ==
  /\ c \in Live
  /\ CompletableBy(chores[c], u)

MayComplete(u, c) ==
  /\ c \in Live
  /\ CompletableBy(chores[c], u)
  /\ ~ IsBlocked(chores[c], chores, events)

\* Seeded fault: the new completion is put in front of the older ones.
CompleteChore_Prepend(u, c) ==
  /\ MayComplete(u, c)
  /\ Len(chores[c].completions) < MaxCompletions
  /\ chores' = [chores EXCEPT ![c].completions = << [by |-> u, at |-> clock] >> \o @]
  /\ UNCHANGED <<events, clock, born, issuedEvents>>

\* next_due is not consulted: a chore may be completed again at any time.
CompleteChore(u, c) ==
  /\ MayComplete(u, c)
  /\ Len(chores[c].completions) < MaxCompletions
  /\ chores' = [chores EXCEPT ![c].completions = Append(@, [by |-> u, at |-> clock])]
  /\ UNCHANGED <<events, clock, born, issuedEvents>>

MayDeleteChore(u, c) == c \in Live /\ chores[c].created_by = u

DeleteChore(u, c) ==
  /\ MayDeleteChore(u, c)
  /\ chores' = Remove(chores, c)
  /\ UNCHANGED <<events, clock, born, issuedEvents>>

AddEvent(u, e) ==
  /\ e \in EventId \ issuedEvents
  /\ events' = Insert(events, e, [created_by |-> u, triggered_by |-> Nobody])
  /\ issuedEvents' = issuedEvents \cup {e}
  /\ UNCHANGED <<chores, clock, born>>

\* Seeded fault: triggering an event that is not there creates it.
TriggerEvent_Upsert(u, e) ==
  /\ events' = Insert(events, e, [created_by |-> u, triggered_by |-> u])
  /\ UNCHANGED <<chores, clock, born, issuedEvents>>

\* Seeded fault: a second tick takes the first one back.
TriggerEvent_Toggle(u, e) ==
  /\ e \in DOMAIN events
  /\ events' = [events EXCEPT ![e].triggered_by = IF @ = Nobody THEN u ELSE Nobody]
  /\ UNCHANGED <<chores, clock, born, issuedEvents>>

\* Triggering again overwrites who did it.
TriggerEvent(u, e) ==
  /\ e \in DOMAIN events
  /\ events' = [events EXCEPT ![e].triggered_by = u]
  /\ UNCHANGED <<chores, clock, born, issuedEvents>>

MayDeleteEvent(u, e) == e \in DOMAIN events /\ events[e].created_by = u

DeleteEvent(u, e) ==
  /\ MayDeleteEvent(u, e)
  /\ events' = Remove(events, e)
  /\ UNCHANGED <<chores, clock, born, issuedEvents>>

\* A request the server answers with Error: not found, not allowed, blocked.
Refuse(u) ==
  /\ \/ \E c \in ChoreId : ~ MayComplete(u, c) \/ ~ MayDeleteChore(u, c)
     \/ \E e \in EventId : e \notin DOMAIN events \/ ~ MayDeleteEvent(u, e)
  /\ UNCHANGED vars

\* Time passes.  The host clock is taken not to step back.
Tick ==
  /\ clock < MaxTime
  /\ clock' = clock + 1
  /\ UNCHANGED <<chores, events, born, issuedEvents>>

Next ==
  \/ \E u \in User :
       \/ \E c \in ChoreId, form \in Form, deps \in SUBSET ChoreId, evs \in SUBSET EventId :
            AddChore(u, c, form, deps, evs)
       \/ \E c \in ChoreId : CompleteChore(u, c)
       \/ \E c \in ChoreId : DeleteChore(u, c)
       \/ \E e \in EventId : AddEvent(u, e)
       \/ \E e \in EventId : TriggerEvent(u, e)
       \/ \E e \in EventId : DeleteEvent(u, e)
       \/ Refuse(u)
  \/ Tick

Spec == Init /\ [][Next]_vars

-----------------------------------------------------------------------------
(* Properties.                                                             *)

\* Every table entry has the type the code declares, and only ids that were
\* issued are keys of a table.
TypeOK ==
  /\ DOMAIN chores \subseteq Issued
  /\ \A c \in DOMAIN chores : chores[c] \in Chore
  /\ DOMAIN events \subseteq issuedEvents
  /\ \A e \in DOMAIN events : events[e] \in ExternalEvent
  /\ clock \in 0..MaxTime
  /\ born \in [ChoreId -> Nat]
  /\ issuedEvents \subseteq EventId

\* The dependency graph: chores never wait for each other in a ring.  In
\* every set of live chores some chore waits for no chore of the set, so
\* is_blocked cannot hold a group of chores up for good by itself.
NoCircularWait ==
  \A S \in SUBSET Live : S # {} => \E c \in S : chores[c].depends_on \cap S = {}

\* complete_chore honours the dependencies: the first completion of a chore
\* is not earlier than the first completion of any chore it depends on that
\* is still there, and the events it depends on that are still there have
\* been triggered.
DependenciesCameFirst ==
  \A c \in Live : Done(chores[c]) =>
    /\ \A d \in chores[c].depends_on \cap Live :
         /\ Done(chores[d])
         /\ chores[d].completions[1].at <= chores[c].completions[1].at
    /\ chores[c].depends_on_events \cap DOMAIN events \subseteq TriggeredEvents(events)

\* The completion history, "most-recent last" (chore.rs): what
\* last_completion returns is the latest one, and it is not in the future.
HistoryMostRecentLast ==
  \A c \in Live : Done(chores[c]) =>
    LET h == chores[c].completions IN
      /\ \A i \in 1..Len(h) : h[i].at <= LastCompletion(chores[c]).at
      /\ LastCompletion(chores[c]).at <= clock

\* Why no ring can close: a client can only name ids that exist, so a chore
\* depends on older chores only.
BirthOrder ==
  /\ \A c \in Issued : born[c] <= Cardinality(Issued)
  /\ \A c \in Live : \A d \in chores[c].depends_on : d \in Issued /\ born[d] < born[c]

\* Why a deleted dependency stays unmet: what a chore names was issued, and
\* ids are issued once.
NamesIssued ==
  \A c \in Live : /\ chores[c].depends_on \subseteq Issued
                  /\ chores[c].depends_on_events \subseteq issuedEvents

\* What the operations keep, whatever they are applied to, and so what a
\* database that was saved and is loaded again looks like.
Sound ==
  TypeOK /\ BirthOrder /\ NamesIssued /\ HistoryMostRecentLast /\ DependenciesCameFirst

\* A chore that is not blocked becomes blocked again only in a step that
\* deletes a chore or an event it depends on: completing, triggering, adding
\* and the passing of time never do that.
OnlyDeletionReblocks ==
  [][\A c \in Live \cap Live' :
       (~ IsBlocked(chores[c], chores, events) /\ IsBlocked(chores[c], chores, events)')
         => \/ chores[c].depends_on \cap (Live \ Live') # {}
            \/ chores[c].depends_on_events \cap (DOMAIN events \ DOMAIN events') # {}]_vars

\* What a deletion leaves behind: ids are never issued twice, so a chore that
\* names a deleted chore or event stays blocked, and its completion history
\* stays what it was, until the chore itself is deleted.
Dangling(c) ==
  ~ (chores[c].depends_on \subseteq Live /\ chores[c].depends_on_events \subseteq DOMAIN events)

DeletedDependencyFreezes ==
  [][\A c \in Live \cap Live' : Dangling(c) =>
       /\ IsBlocked(chores[c], chores, events)'
       /\ Dangling(c)'
       /\ chores'[c].completions = chores[c].completions]_vars

\* "Completing a recurring chore resets the timer for everyone": whoever
\* completes it, the chore is then due one delay from now, and no other step
\* moves the date.  This takes a delay that the client's clock can add.
CompletionResetsTimer ==
  [][\A c \in Live \cap Live' :
       (/\ chores[c].kind.tag = "RecurringAfterCompletion" /\ Done(chores'[c])
        /\ chores[c].kind.secs + MaxTime <= MaxInstant) =>
         /\ ~ TimerPanics(chores'[c])
         /\ NextDue(chores'[c], clock') =
              IF chores'[c] = chores[c] THEN NextDue(chores[c], clock)
                                        ELSE Some(clock + chores[c].kind.secs)]_vars

\* The part of a table a replica holds.
Part(cs, S) == [c \in DOMAIN cs \cap S |-> cs[c]]

\* A delay that is too long is accepted and does no harm while the chore
\* waits for its first completion: the pending list of a client, whichever
\* part of the table its replica holds and whether or not it knows its user,
\* breaks only in a step that completes such a chore of the list, not by
\* adding it and not by the passing of time.
OnlyCompletionBreaksList ==
  [][\A me \in {None} \cup {Some(u) : u \in User}, S \in SUBSET ChoreId :
       (PendingListPanics(me, Part(chores', S)) /\ ~ PendingListPanics(me, Part(chores, S))) =>
         \E c \in S \cap Live \cap Live' :
           /\ \A u \in me : VisibleTo(chores[c], u)
           /\ chores[c].kind.secs + MaxTime > MaxInstant
           /\ Len(chores'[c].completions) = Len(chores[c].completions) + 1]_chores

\* A one-time chore or a chore with a deadline that has left the pending list
\* (next_due is None) never comes back to it, whatever users do and however
\* long they wait.
OneOffLeavesForGood ==
  [][\A c \in Live \cap Live' :
       NextDue(chores[c], clock) = None => NextDue(chores'[c], clock') = None]_vars

\* complete_chore takes a one-off chore any number of times.  A further
\* completion does no harm: it blocks and unblocks nothing and puts nothing
\* on or off the pending list.
SecondCompletionHarmless ==
  [][\A c \in Live \cap Live' :
       (/\ chores[c].kind.tag \in {"OneTime", "WithDeadline"}
        /\ Done(chores[c]) /\ chores'[c] # chores[c]) =>
         \A d \in Live :
           /\ IsBlocked(chores'[d], chores', events') <=> IsBlocked(chores[d], chores, events)
           /\ NextDue(chores'[d], clock') = NextDue(chores[d], clock)]_vars
=============================================================================
