------------------------------ MODULE ChoreSync ------------------------------
(***************************************************************************)
(* The live half of the chorgly server: the WebSocket sessions, the        *)
(* broadcast channel between them and the replicas in the browsers.        *)
(*                                                                         *)
(* A session (handle, src/backend/src/session.rs) is one task in a         *)
(* select! loop: it either forwards the next broadcast to its client or    *)
(* takes the next request from it.  A mutating request runs in three steps *)
(* that other sessions interleave with:                                    *)
(*   commit   change the tables under the write lock     (ChoreStore)      *)
(*   Publish  broadcast.send, after the lock is released                   *)
(*   Reply    answer the own client                                        *)
(* ListAll reads the two tables under two separate read locks.             *)
(*                                                                         *)
(* The channel is tokio::sync::broadcast: a ring of Capacity messages and  *)
(* a position per receiver.  It is kept here as the sequence of everything *)
(* ever sent; a receiver more than Capacity behind loses the oldest.       *)
(*                                                                         *)
(* The client (AppState, src/frontend/src/state.rs) applies every message  *)
(* in the order it arrives, so sending and applying are one step here: a   *)
(* connection that breaks with messages in flight looks to the client like *)
(* one that broke earlier.  Every request here is one whose signature the  *)
(* server has accepted; module KeyRegistry has the ones it does not.       *)
(*                                                                         *)
(* A behaviour is one run of the server: it starts with the database that  *)
(* is found in db.cbor and with an empty channel.                          *)
(***************************************************************************)
EXTENDS Integers, Sequences, FiniteSets

CONSTANTS
  User, ChoreId, EventId, Form, Nobody,                            \* see ChoreStore
  HalfI64, MaxDelta, MaxInstant, MaxTime, MaxCompletions,          \* see ChoreStore
  Session,     \* connection slots; a slot is one browser tab
  UserOf,      \* the user whose key a tab signs with
  Capacity,    \* broadcast::channel(256)
  Gone,        \* in place of an entry: ChoreDeleted, EventDeleted
  Database,    \* what may be found in db.cbor at the start; all but the tables is history
  MaxOps       \* bound: how many mutations are committed in a behaviour

ASSUME SessionAssumption == UserOf \in [Session -> User]
ASSUME CapacityAssumption == Capacity \in Nat \ {0} /\ MaxOps \in Nat

VARIABLES
  chores, events, clock, born, issuedEvents,  \* SharedState::db, see ChoreStore
  bus,       \* SharedState::broadcast: every message sent so far
  phase,     \* where the task of a session stands in its select! loop
  cursor,    \* how much of the bus the session's receiver has taken
  authed,    \* AuthState::Authenticated
  out,       \* the message the session is about to publish or to send
  view,      \* AppState of the tab: its chores and events
  synced,    \* history: the tab has a Snapshot of this connection
  missed,    \* history: broadcasts were lost since the last Snapshot was read
  crossed,   \* history: the entries last changed under an outstanding broadcast
  loaded     \* history: the tables at the start of the server

Store == INSTANCE ChoreStore

ASSUME StoreAssumption ==   \* those of ChoreStore
  /\ Nobody \notin User /\ Form \subseteq Store!ChoreForm
  /\ HalfI64 \in Nat /\ MaxDelta \in Nat /\ MaxInstant \in Nat
  /\ MaxTime < MaxInstant /\ MaxInstant <= MaxDelta /\ MaxDelta < HalfI64
  /\ MaxTime \in Nat /\ MaxCompletions \in Nat
  /\ IsFiniteSet(ChoreId) /\ IsFiniteSet(EventId)

ASSUME GoneAssumption == Gone \notin Store!Chore /\ Gone \notin Store!ExternalEvent

store == <<chores, events, clock, born, issuedEvents, crossed, loaded>>
sessions == <<phase, cursor, authed, out, view, synced, missed>>
vars == <<chores, events, clock, born, issuedEvents, bus,
          phase, cursor, authed, out, view, synced, missed, crossed, loaded>>

Phases == {"off", "idle", "publish", "list", "reply"}

Table == {"chores", "events"}
Db == [chores |-> chores, events |-> events]
EmptyView == [chores |-> << >>, events |-> << >>]

\* The ServerMsgs.  ChoreAdded and ChoreUpdated are applied alike.
Delta(table, id, value) == [msg |-> "delta", table |-> table, id |-> id, value |-> value]
Snapshot(v) == [msg |-> "snapshot", view |-> v]
Error == [msg |-> "error"]

\* AppState::apply.
Apply(v, m) ==
  CASE m.msg = "error" -> v
    [] m.msg = "snapshot" -> m.view
    [] m.msg = "delta" ->
         [v EXCEPT ![m.table] = IF m.value = Gone THEN Store!Remove(@, m.id)
                                                  ELSE Store!Insert(@, m.id, m.value)]

\* The entry a table or a replica has for an id.
Entry(v, t, i) == IF i \in DOMAIN v[t] THEN v[t][i] ELSE Gone

-----------------------------------------------------------------------------
\* load_or_default: the tables are those of a database that was saved, and so
\* one the operations can leave behind (theorem AlwaysSound of
\* ChoreStoreProofs), or empty ones.  Nothing has been broadcast of them.
Load(d) ==
  /\ chores = d.chores /\ events = d.events /\ clock = d.clock
  /\ born = d.born /\ issuedEvents = d.issuedEvents
  /\ Store!Sound
  /\ loaded = Db

Init ==
  /\ \E d \in Database : Load(d)
  /\ bus = << >>
  /\ phase = [s \in Session |-> "off"]
  /\ cursor = [s \in Session |-> 0]
  /\ authed = [s \in Session |-> FALSE]
  /\ out = [s \in Session |-> Error]
  /\ view = [s \in Session |-> EmptyView]
  /\ synced = [s \in Session |-> FALSE]
  /\ missed = [s \in Session |-> FALSE]
  /\ crossed = {}

-----------------------------------------------------------------------------
(* Connections.                                                            *)

\* Seeded fault: the receiver starts behind the next message.
Connect_SkipsOne(s) ==
  /\ phase[s] = "off"
  /\ phase' = [phase EXCEPT ![s] = "idle"]
  /\ cursor' = [cursor EXCEPT ![s] = Len(bus) + 1]
  /\ \E v \in {view[s], EmptyView} : view' = [view EXCEPT ![s] = v]
  /\ UNCHANGED <<store, bus, authed, out, synced, missed>>

\* handle: subscribe to the broadcasts, unauthenticated.  A tab that only
\* lost its connection keeps its AppState; a reloaded page starts empty.
Connect(s) ==
  /\ phase[s] = "off"
  /\ phase' = [phase EXCEPT ![s] = "idle"]
  /\ cursor' = [cursor EXCEPT ![s] = Len(bus)]
  /\ \E v \in {view[s], EmptyView} : view' = [view EXCEPT ![s] = v]
  /\ UNCHANGED <<store, bus, authed, out, synced, missed>>

\* The stream ends, the rate limit breaks the loop, or sink.send fails: seen
\* where the task waits for the socket, never in the middle of a dispatch.
\* The locals of the session go with it.
Drop(s) ==
  /\ phase[s] \in {"idle", "reply"}
  /\ phase' = [phase EXCEPT ![s] = "off"]
  /\ cursor' = [cursor EXCEPT ![s] = 0]
  /\ authed' = [authed EXCEPT ![s] = FALSE]
  /\ out' = [out EXCEPT ![s] = Error]
  /\ synced' = [synced EXCEPT ![s] = FALSE]
  /\ missed' = [missed EXCEPT ![s] = FALSE]
  /\ UNCHANGED <<store, bus, view>>

-----------------------------------------------------------------------------
(* Requests.                                                               *)

Pending == {s \in Session : phase[s] = "publish"}

\* A verified request arrives while the session waits in select!; it sets
\* AuthState::Authenticated and ends in phase p with message m to deliver.
\* (RequestChallenge and ConfirmKey would take that state back; the client of
\* this repository sends them before its first request on a connection only.)
Handle(s, p, m) ==
  /\ phase[s] = "idle"
  /\ phase' = [phase EXCEPT ![s] = p]
  /\ authed' = [authed EXCEPT ![s] = TRUE]
  /\ out' = [out EXCEPT ![s] = m]
  /\ UNCHANGED <<bus, cursor, view, synced, loaded>>

\* The outstanding broadcast of session r tells of an entry.
About(r, t, i) == out[r].table = t /\ out[r].id = i

\* A mutation: the commit, with the message to broadcast built from the entry
\* as it was left when the write lock was released.
Commit(s, m) ==
  /\ Len(bus) + Cardinality(Pending) < MaxOps
  /\ Handle(s, "publish", m)
  /\ crossed' = IF \E r \in Pending : About(r, m.table, m.id)
                THEN crossed \cup {<<m.table, m.id>>}
                ELSE crossed \ {<<m.table, m.id>>}
  /\ UNCHANGED missed

AddChore(s, c, form, deps, evs) ==
  /\ Store!AddChore(UserOf[s], c, form, deps, evs)
  /\ Commit(s, Delta("chores", c, chores'[c]))

\* Seeded fault: the entry is cloned for the broadcast before it is changed.
CompleteChore_ClonedFirst(s, c) ==
  /\ Store!CompleteChore(UserOf[s], c)
  /\ Commit(s, Delta("chores", c, chores[c]))

CompleteChore(s, c) ==
  /\ Store!CompleteChore(UserOf[s], c)
  /\ Commit(s, Delta("chores", c, chores'[c]))

\* Seeded fault: the deletion is answered but broadcast to nobody.
DeleteChore_Quiet(s, c) ==
  /\ Store!DeleteChore(UserOf[s], c)
  /\ Len(bus) + Cardinality(Pending) < MaxOps
  /\ Handle(s, "reply", Delta("chores", c, Gone))
  /\ UNCHANGED <<missed, crossed>>

DeleteChore(s, c) ==
  /\ Store!DeleteChore(UserOf[s], c)
  /\ Commit(s, Delta("chores", c, Gone))

AddEvent(s, e) ==
  /\ Store!AddEvent(UserOf[s], e)
  /\ Commit(s, Delta("events", e, events'[e]))

\* Seeded fault: triggering is answered but broadcast to nobody.
TriggerEvent_Quiet(s, e) ==
  /\ Store!TriggerEvent(UserOf[s], e)
  /\ Len(bus) + Cardinality(Pending) < MaxOps
  /\ Handle(s, "reply", Delta("events", e, events'[e]))
  /\ UNCHANGED <<missed, crossed>>

TriggerEvent(s, e) ==
  /\ Store!TriggerEvent(UserOf[s], e)
  /\ Commit(s, Delta("events", e, events'[e]))

DeleteEvent(s, e) ==
  /\ Store!DeleteEvent(UserOf[s], e)
  /\ Commit(s, Delta("events", e, Gone))

Refuse(s) ==
  /\ Store!Refuse(UserOf[s])
  /\ Handle(s, "reply", Error)
  /\ UNCHANGED <<missed, crossed>>

\* ListAll: list_chores under the first read lock ...
ListChores(s) ==
  /\ Handle(s, "list", Snapshot([chores |-> Store!VisibleChores(UserOf[s], chores), events |-> << >>]))
  /\ missed' = [missed EXCEPT ![s] = FALSE]
  /\ UNCHANGED store

\* ... and list_events under the second.
ListEvents(s) ==
  /\ phase[s] = "list"
  /\ phase' = [phase EXCEPT ![s] = "reply"]
  /\ out' = [out EXCEPT ![s] = Snapshot([@.view EXCEPT !.events = events])]
  /\ UNCHANGED <<store, bus, cursor, authed, view, synced, missed>>

-----------------------------------------------------------------------------
(* Deliveries.                                                             *)

\* Seeded fault: a channel that waits for its slowest receiver.
Publish_Waits(s) ==
  /\ phase[s] = "publish"
  /\ \A r \in Session : phase[r] # "off" => Len(bus) - cursor[r] < Capacity
  /\ bus' = Append(bus, out[s])
  /\ phase' = [phase EXCEPT ![s] = "reply"]
  /\ UNCHANGED <<store, cursor, authed, out, view, synced, missed>>

\* broadcast.send, after drop(db): other sessions may have committed, and
\* published, since.
Publish(s) ==
  /\ phase[s] = "publish"
  /\ bus' = Append(bus, out[s])
  /\ phase' = [phase EXCEPT ![s] = "reply"]
  /\ UNCHANGED <<store, cursor, authed, out, view, synced, missed>>

\* Seeded fault: a snapshot is taken to make the queued broadcasts obsolete.
Reply_Flush(s) ==
  /\ phase[s] = "reply"
  /\ view' = [view EXCEPT ![s] = Apply(@, out[s])]
  /\ synced' = [synced EXCEPT ![s] = @ \/ out[s].msg = "snapshot"]
  /\ cursor' = [cursor EXCEPT ![s] = IF out[s].msg = "snapshot" THEN Len(bus) ELSE @]
  /\ phase' = [phase EXCEPT ![s] = "idle"]
  /\ out' = [out EXCEPT ![s] = Error]
  /\ UNCHANGED <<store, bus, authed, missed>>

\* sink.send of the answer.  It overtakes the broadcasts still queued for
\* this session.
Reply(s) ==
  /\ phase[s] = "reply"
  /\ view' = [view EXCEPT ![s] = Apply(@, out[s])]
  /\ synced' = [synced EXCEPT ![s] = @ \/ out[s].msg = "snapshot"]
  /\ phase' = [phase EXCEPT ![s] = "idle"]
  /\ out' = [out EXCEPT ![s] = Error]
  /\ UNCHANGED <<store, bus, cursor, authed, missed>>

Behind(s) == Len(bus) - cursor[s]

\* broadcast_rx.recv() = Ok(msg): forwarded, or dropped while the session is
\* not authenticated.
Forward(s) ==
  /\ phase[s] = "idle"
  /\ Behind(s) \in 1..Capacity
  /\ cursor' = [cursor EXCEPT ![s] = @ + 1]
  /\ view' = IF authed[s]
             THEN [view EXCEPT ![s] = Apply(@, bus[cursor[s] + 1])]
             ELSE view
  /\ UNCHANGED <<store, bus, phase, authed, out, synced, missed>>

\* Seeded fault: the receiver stays where its messages were overwritten.
Lag_Stuck(s) ==
  /\ phase[s] = "idle"
  /\ Behind(s) > Capacity
  /\ missed' = [missed EXCEPT ![s] = TRUE]
  /\ UNCHANGED <<store, bus, phase, cursor, authed, out, view, synced>>

\* broadcast_rx.recv() = Err(Lagged): the loop goes on and nobody is told.
Lag(s) ==
  /\ phase[s] = "idle"
  /\ Behind(s) > Capacity
  /\ cursor' = [cursor EXCEPT ![s] = Len(bus) - Capacity]
  /\ missed' = [missed EXCEPT ![s] = TRUE]
  /\ UNCHANGED <<store, bus, phase, authed, out, view, synced>>

Receive(s) == Forward(s) \/ Lag(s)

Tick == Store!Tick /\ UNCHANGED <<bus, sessions, crossed, loaded>>

Next ==
  \/ \E s \in Session :
       \/ Connect(s) \/ Drop(s)
       \/ \E c \in ChoreId, form \in Form, deps \in SUBSET ChoreId, evs \in SUBSET EventId :
            AddChore(s, c, form, deps, evs)
       \/ \E c \in ChoreId : CompleteChore(s, c) \/ DeleteChore(s, c)
       \/ \E e \in EventId : AddEvent(s, e) \/ TriggerEvent(s, e) \/ DeleteEvent(s, e)
       \/ Refuse(s) \/ ListChores(s) \/ ListEvents(s)
       \/ Publish(s) \/ Reply(s) \/ Forward(s) \/ Lag(s)
  \/ Tick

Spec == Init /\ [][Next]_vars

\* The runtime keeps running a task that can run.  tokio::select! polls its
\* branches in random order, so a receiver that is ready over and over is
\* taken in the end, however busy the client is: strong fairness.  Nothing
\* obliges a client to send, to connect or to leave.
Fairness ==
  \A s \in Session :
    /\ WF_vars(Publish(s)) /\ WF_vars(ListEvents(s)) /\ WF_vars(Reply(s))
    /\ SF_vars(Receive(s))

FairSpec == Spec /\ Fairness

-----------------------------------------------------------------------------
(* Properties.                                                             *)

\* The state has the types above, the replicas hold entries of the declared
\* types, and a receiver is never ahead of the channel.
TypeOK ==
  /\ Store!TypeOK
  /\ phase \in [Session -> Phases]
  /\ cursor \in [Session -> 0..Len(bus)]
  /\ authed \in [Session -> BOOLEAN]
  /\ synced \in [Session -> BOOLEAN]
  /\ missed \in [Session -> BOOLEAN]
  /\ crossed \subseteq Table \X (ChoreId \cup EventId)
  /\ \A s \in Session :
       /\ \A c \in DOMAIN view[s].chores : c \in ChoreId /\ view[s].chores[c] \in Store!Chore
       /\ \A e \in DOMAIN view[s].events : e \in EventId /\ view[s].events[e] \in Store!ExternalEvent

\* Nothing is under way between the tables and the replica of s.
Quiet(s) == phase[s] = "idle" /\ cursor[s] = Len(bus) /\ Pending = {}

Ids(t) == IF t = "chores" THEN ChoreId ELSE EventId

Mentions(t, i) == {n \in 1..Len(bus) : bus[n].table = t /\ bus[n].id = i}

\* The last broadcast about an entry tells what the table now says of it.
InOrder(t, i) ==
  \A n \in Mentions(t, i) :
    (\A m \in Mentions(t, i) : m <= n) => bus[n].value = Entry(Db, t, i)

\* Broadcasts go out in the wrong order only where two sessions change the
\* same entry and the second commits before the first has published: with one
\* change at a time, the last broadcast about an entry is true of it as soon as
\* none is outstanding, however sessions and other entries interleave.
DisorderNeedsOverlap ==
  Pending = {} =>
    \A t \in Table : \A i \in Ids(t) : <<t, i>> \notin crossed => InOrder(t, i)

\* What the replica of s should say of an entry: what the table says, except
\* that an entry its user may not see may be absent.
Mirrors(s, t, i) ==
  \/ Entry(view[s], t, i) = Entry(Db, t, i)
  \/ /\ t = "chores" /\ i \in DOMAIN chores
     /\ ~ Store!VisibleTo(chores[i], UserOf[s])
     /\ Entry(view[s], t, i) = Gone

\* Subscribing before the snapshot, dropping broadcasts before
\* authentication, taking the snapshot in two reads and answering ahead of
\* the queue lose nothing: once a tab has its snapshot and the system is
\* quiet, it mirrors every entry, unless the channel overran the session or
\* the broadcasts about that very entry went out in the wrong order.
ReplicaMirrorsStore ==
  \A s \in Session : (Quiet(s) /\ synced[s] /\ ~ missed[s]) =>
    \A t \in Table : \A i \in Ids(t) : InOrder(t, i) => Mirrors(s, t, i)

\* No silent change: when no broadcast is outstanding, every entry is either
\* as it was loaded, and the channel has said nothing of it, or the channel
\* has carried its present value, or its end if it was deleted.
EveryChangePublished ==
  Pending = {} =>
    \A t \in Table : \A i \in Ids(t) :
      \/ Entry(Db, t, i) = Entry(loaded, t, i) /\ Mentions(t, i) = {}
      \/ \E n \in Mentions(t, i) : bus[n].value = Entry(Db, t, i)

\* The badge "blocked" (is_chore_blocked in the frontend) is computed from the
\* replica, which lacks chores its user may not see, holds others of them that
\* came by broadcast, and was read in two parts.  In a quiet tab it never
\* says "free" of a chore the server would refuse, and it says "blocked" of a
\* free chore only where the replica lacks a dependency its user may not see
\* - unless the channel overran the session or broadcasts about the chore or
\* about something it waits for went out in the wrong order.
BadgeErrsOnlyOnHidden ==
  \A s \in Session : (Quiet(s) /\ synced[s] /\ ~ missed[s]) =>
    \A c \in DOMAIN view[s].chores :
      LET mine == view[s].chores
          r == mine[c]
          hidden == {d \in DOMAIN chores \ DOMAIN mine : ~ Store!VisibleTo(chores[d], UserOf[s])}
      IN  (/\ \A d \in r.depends_on \cup {c} : InOrder("chores", d)
           /\ \A e \in r.depends_on_events : InOrder("events", e)) =>
            /\ c \in DOMAIN chores
            /\ Store!IsBlocked(r, mine, view[s].events) <=>
                 \/ Store!IsBlocked(chores[c], chores, events)
                 \/ chores[c].depends_on \cap hidden # {}

\* Every request is answered, unless the client leaves: no session waits for
\* another, whatever the others do and however full the channel is.
RequestsAnswered ==
  \A s \in Session :
    phase[s] \in {"publish", "list", "reply"} ~> phase[s] \in {"idle", "off"}

\* A connected session catches up: every broadcast is forwarded or given up
\* as lost, however busy the client is.
UpdatesDelivered ==
  \A s \in Session : \A n \in 1..MaxOps :
    (phase[s] # "off" /\ Len(bus) >= n) ~> (phase[s] = "off" \/ cursor[s] >= n)

(***************************************************************************)
(* What the documentation says and the code does not do.                   *)
(***************************************************************************)

\* frontend state.rs: "Client-side application state (mirrors the server's
\* view)".
ReplicaAlwaysMirrors ==
  \A s \in Session : (Quiet(s) /\ synced[s] /\ ~ missed[s]) =>
    \A t \in Table : \A i \in Ids(t) : Mirrors(s, t, i)
=============================================================================
