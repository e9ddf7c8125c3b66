---------------------------- MODULE ChoreSyncProofs ----------------------------
(***************************************************************************)
(* Theorems about ChoreSync, for every set of users, sessions and ids, and *)
(* every capacity of the channel.                                          *)
(***************************************************************************)
EXTENDS ChoreSync, TLAPS, SequenceTheorems

Theory == INSTANCE ChoreStoreProofs

-----------------------------------------------------------------------------
(* The sessions change the tables by the operations of ChoreStore only.    *)

Committing(s) ==
  \/ \E c \in ChoreId, form \in Form, deps \in SUBSET ChoreId, evs \in SUBSET EventId :
       AddChore(s, c, form, deps, evs)
  \/ \E c \in ChoreId : CompleteChore(s, c) \/ DeleteChore(s, c)
  \/ \E e \in EventId : AddEvent(s, e) \/ TriggerEvent(s, e) \/ DeleteEvent(s, e)

LEMMA StoreStep == [Next]_vars => [Store!Next]_(Store!vars)
<1> SUFFICES ASSUME [Next]_vars PROVE Store!Next \/ UNCHANGED Store!vars
  OBVIOUS
<1>1. ASSUME NEW s \in Session, Committing(s) PROVE Store!Next
  <2>1. UserOf[s] \in User
    BY SessionAssumption
  <2> QED BY <1>1, <2>1 DEF Committing, AddChore, CompleteChore, DeleteChore, AddEvent,
               TriggerEvent, DeleteEvent, Store!Next
<1>2. ASSUME NEW s \in Session,
             \/ Connect(s) \/ Drop(s) \/ ListChores(s) \/ ListEvents(s)
             \/ Publish(s) \/ Reply(s) \/ Forward(s) \/ Lag(s) \/ Refuse(s)
      PROVE  UNCHANGED Store!vars
  BY <1>2 DEF Connect, Drop, ListChores, ListEvents, Publish, Reply, Forward, Lag, Refuse,
       store, Store!vars, Store!Refuse
<1>3. CASE Tick
  BY <1>3 DEF Tick, Store!Next
<1>4. CASE UNCHANGED vars
  BY <1>4 DEF vars, Store!vars
<1> QED BY <1>1, <1>2, <1>3, <1>4 DEF Next, Committing

-----------------------------------------------------------------------------
(* What is proved of ChoreStore holds of the running server: Theory is the *)
(* same specification as Store, seen with its theorems.                    *)

\* The constants are as ChoreStore takes them.
LEMMA TheoryAssumption ==
  /\ Nobody \notin User /\ Form \subseteq Theory!ChoreForm
  /\ HalfI64 \in Nat /\ MaxDelta \in Nat /\ MaxInstant \in Nat
  /\ MaxTime < MaxInstant /\ MaxInstant <= MaxDelta /\ MaxDelta < HalfI64
  /\ MaxTime \in Nat /\ MaxCompletions \in Nat
  /\ Theory!IsFiniteSet(ChoreId) /\ Theory!IsFiniteSet(EventId)
<1>1. Theory!IsFiniteSet(ChoreId) /\ Theory!IsFiniteSet(EventId)
  BY StoreAssumption DEF IsFiniteSet, Theory!IsFiniteSet
<1>2. Form \subseteq Theory!ChoreForm
  BY StoreAssumption DEF Store!ChoreForm, Store!ChoreKind, Store!KindTag, Store!Audience,
       Theory!ChoreForm, Theory!ChoreKind, Theory!KindTag, Theory!Audience
<1> QED BY <1>1, <1>2, StoreAssumption

LEMMA TheoryCardinality == \A S : Store!Cardinality(S) = Theory!Cardinality(S)
BY DEF Store!Cardinality, Theory!Cardinality

LEMMA TheoryBlocked ==
  \A r, cs, es : Store!IsBlocked(r, cs, es) <=> Theory!IsBlocked(r, cs, es)
BY DEF Store!IsBlocked, Store!CompletedChores, Store!Done, Store!TriggeredEvents,
       Theory!IsBlocked, Theory!CompletedChores, Theory!Done, Theory!TriggeredEvents

LEMMA TheoryTypes == Store!TypeOK <=> Theory!TypeOK
BY DEF Store!TypeOK, Store!Issued, Store!Chore, Store!ExternalEvent, Store!ChoreKind,
       Store!KindTag, Store!Audience, Store!Completion,
       Theory!TypeOK, Theory!Issued, Theory!Chore, Theory!ExternalEvent, Theory!ChoreKind,
       Theory!KindTag, Theory!Audience, Theory!Completion

LEMMA TheorySound == Store!Sound <=> Theory!Sound
<1>1. Store!BirthOrder <=> Theory!BirthOrder
  BY TheoryCardinality DEF Store!BirthOrder, Store!Issued, Store!Live,
       Theory!BirthOrder, Theory!Issued, Theory!Live
<1>2. Store!NamesIssued <=> Theory!NamesIssued
  BY DEF Store!NamesIssued, Store!Issued, Store!Live,
         Theory!NamesIssued, Theory!Issued, Theory!Live
<1>3. Store!HistoryMostRecentLast <=> Theory!HistoryMostRecentLast
  BY DEF Theory!HistoryMostRecentLast, Theory!Live, Theory!Done, Theory!LastCompletion,
         Store!HistoryMostRecentLast, Store!Live, Store!Done, Store!LastCompletion
<1>4. Store!DependenciesCameFirst <=> Theory!DependenciesCameFirst
  BY DEF Theory!DependenciesCameFirst, Theory!Live, Theory!Done, Theory!TriggeredEvents,
         Store!DependenciesCameFirst, Store!Live, Store!Done, Store!TriggeredEvents
<1> QED BY <1>1, <1>2, <1>3, <1>4, TheoryTypes DEF Store!Sound, Theory!Sound

LEMMA TheoryNext == [Store!Next]_(Store!vars) <=> [Theory!Next]_(Theory!vars)
<1>1. \A u, c, form, deps, evs :
        Store!AddChore(u, c, form, deps, evs) <=> Theory!AddChore(u, c, form, deps, evs)
  BY TheoryCardinality DEF Store!AddChore, Store!Issued, Store!Insert, Store!NewChore,
       Theory!AddChore, Theory!Issued, Theory!Insert, Theory!NewChore
<1>2. \A u, c : Store!MayComplete(u, c) <=> Theory!MayComplete(u, c)
  BY TheoryBlocked DEF Store!MayComplete, Store!Live, Store!CompletableBy,
       Theory!MayComplete, Theory!Live, Theory!CompletableBy
<1>3. \A u, c : Store!CompleteChore(u, c) <=> Theory!CompleteChore(u, c)
  BY <1>2 DEF Store!CompleteChore, Theory!CompleteChore
<1>4. \A u, c : /\ Store!MayDeleteChore(u, c) <=> Theory!MayDeleteChore(u, c)
                /\ Store!DeleteChore(u, c) <=> Theory!DeleteChore(u, c)
  BY DEF Store!DeleteChore, Store!MayDeleteChore, Store!Live, Store!Remove,
       Theory!DeleteChore, Theory!MayDeleteChore, Theory!Live, Theory!Remove
<1>5. \A u, e : /\ Store!AddEvent(u, e) <=> Theory!AddEvent(u, e)
                /\ Store!TriggerEvent(u, e) <=> Theory!TriggerEvent(u, e)
  BY DEF Store!AddEvent, Store!TriggerEvent, Store!Insert,
       Theory!AddEvent, Theory!TriggerEvent, Theory!Insert
<1>6. \A u, e : /\ Store!MayDeleteEvent(u, e) <=> Theory!MayDeleteEvent(u, e)
                /\ Store!DeleteEvent(u, e) <=> Theory!DeleteEvent(u, e)
  BY DEF Store!DeleteEvent, Store!MayDeleteEvent, Store!Remove,
       Theory!DeleteEvent, Theory!MayDeleteEvent, Theory!Remove
<1>7. UNCHANGED Store!vars <=> UNCHANGED Theory!vars
  BY DEF Store!vars, Theory!vars
<1>8. \A u : Store!Refuse(u) <=> Theory!Refuse(u)
  BY <1>2, <1>4, <1>6, <1>7 DEF Store!Refuse, Theory!Refuse
<1>9. Store!Tick <=> Theory!Tick
  BY DEF Store!Tick, Theory!Tick
<1>10. Store!Next <=> Theory!Next
  BY <1>1, <1>3, <1>4, <1>5, <1>6, <1>8, <1>9 DEF Store!Next, Theory!Next
<1> QED BY <1>7, <1>10

\* A run of the server is a run of the store from the sound tables it loads.
LEMMA TheoryRuns == Spec => Theory!Sound /\ [][Theory!Next]_(Theory!vars)
<1>1. Init => Theory!Sound
  BY TheorySound DEF Init, Load
<1>2. [Next]_vars => [Theory!Next]_(Theory!vars)
  BY StoreStep, TheoryNext
<1> QED BY <1>1, <1>2, PTL DEF Spec

\* What holds of the chores holds while sessions work on them, whatever
\* database the server loads: they never wait for each other in a ring,
\* dependencies were completed first, and the last entry of a completion
\* history is the latest.
THEOREM ServingKeepsOrder ==
  Spec => [](Store!NoCircularWait /\ Store!DependenciesCameFirst /\ Store!HistoryMostRecentLast)
<1>1. Theory!Sound /\ [][Theory!Next]_(Theory!vars) => []Theory!Sound
  BY Theory!SoundForever, TheoryAssumption
<1>2. Theory!Sound => Theory!NoCircularWait
  BY Theory!BirthOrderIsEnough, TheoryAssumption DEF Theory!Sound
<1>3. Theory!NoCircularWait => Store!NoCircularWait
  BY DEF Theory!NoCircularWait, Store!NoCircularWait, Theory!Live, Store!Live
<1>4. Theory!Sound =>
        Store!NoCircularWait /\ Store!DependenciesCameFirst /\ Store!HistoryMostRecentLast
  BY <1>2, <1>3, TheorySound DEF Store!Sound
<1> QED BY <1>1, <1>4, TheoryRuns, PTL

\* Between the steps of the sessions, too, only a deletion blocks a chore
\* again, and what it leaves behind stays blocked with its history.
THEOREM ServingReblocksByDeletion ==
  Spec => Store!OnlyDeletionReblocks /\ Store!DeletedDependencyFreezes
<1>1. Theory!TypeOK /\ [][Theory!Next]_(Theory!vars) => Theory!OnlyDeletionReblocks
  BY Theory!ReblockedFromAnyTables, TheoryAssumption
<1>2. Theory!TypeOK /\ Theory!NamesIssued /\ [][Theory!Next]_(Theory!vars)
        => Theory!DeletedDependencyFreezes
  BY Theory!FrozenFromAnyTables, TheoryAssumption
<1>3. \A c : /\ Theory!IsBlocked(chores[c], chores, events) <=> Store!IsBlocked(chores[c], chores, events)
             /\ Theory!IsBlocked(chores[c], chores, events)' <=> Store!IsBlocked(chores[c], chores, events)'
             /\ Theory!Dangling(c) <=> Store!Dangling(c)
             /\ Theory!Dangling(c)' <=> Store!Dangling(c)'
  BY TheoryBlocked DEF Theory!Dangling, Store!Dangling, Theory!Live, Store!Live
<1>4. /\ Theory!Live = Store!Live /\ Theory!Live' = Store!Live'
      /\ UNCHANGED Theory!vars <=> UNCHANGED Store!vars
  BY DEF Theory!Live, Store!Live, Theory!vars, Store!vars
<1>5. [\A c \in Theory!Live \cap Theory!Live' :
          (~ Theory!IsBlocked(chores[c], chores, events) /\ Theory!IsBlocked(chores[c], chores, events)')
            => \/ chores[c].depends_on \cap (Theory!Live \ Theory!Live') # {}
               \/ chores[c].depends_on_events \cap (DOMAIN events \ DOMAIN events') # {}]_(Theory!vars)
      => [\A c \in Store!Live \cap Store!Live' :
          (~ Store!IsBlocked(chores[c], chores, events) /\ Store!IsBlocked(chores[c], chores, events)')
            => \/ chores[c].depends_on \cap (Store!Live \ Store!Live') # {}
               \/ chores[c].depends_on_events \cap (DOMAIN events \ DOMAIN events') # {}]_(Store!vars)
  BY <1>3, <1>4
<1>6. [\A c \in Theory!Live \cap Theory!Live' : Theory!Dangling(c) =>
         /\ Theory!IsBlocked(chores[c], chores, events)'
         /\ Theory!Dangling(c)'
         /\ chores'[c].completions = chores[c].completions]_(Theory!vars)
      => [\A c \in Store!Live \cap Store!Live' : Store!Dangling(c) =>
         /\ Store!IsBlocked(chores[c], chores, events)'
         /\ Store!Dangling(c)'
         /\ chores'[c].completions = chores[c].completions]_(Store!vars)
  BY <1>3, <1>4
<1>7. Theory!OnlyDeletionReblocks => Store!OnlyDeletionReblocks
  BY <1>5, PTL DEF Theory!OnlyDeletionReblocks, Store!OnlyDeletionReblocks
<1>8. Theory!DeletedDependencyFreezes => Store!DeletedDependencyFreezes
  BY <1>6, PTL DEF Theory!DeletedDependencyFreezes, Store!DeletedDependencyFreezes
<1>9. Theory!Sound => Theory!TypeOK /\ Theory!NamesIssued
  BY DEF Theory!Sound
<1> QED BY <1>1, <1>2, <1>7, <1>8, <1>9, TheoryRuns, PTL

-----------------------------------------------------------------------------
(* One table, one row.                                                     *)

Rows(t) == IF t = "chores" THEN chores ELSE events

LEMMA DbRows == \A t \in Table : Db[t] = Rows(t)
BY DEF Table, Db, Rows

IsView(v) == v = [chores |-> v.chores, events |-> v.events]

\* Applying a message about one entry.
LEMMA ApplyDelta ==
  ASSUME NEW v, IsView(v), NEW t \in Table, NEW i, NEW x
  PROVE  LET w == Apply(v, Delta(t, i, x)) IN
           /\ IsView(w)
           /\ Entry(w, t, i) = x
           /\ \A u \in Table : \A j : (u # t \/ j # i) => Entry(w, u, j) = Entry(v, u, j)
<1> DEFINE m == Delta(t, i, x)
           w == Apply(v, m)
           f == IF x = Gone THEN Store!Remove(v[t], i) ELSE Store!Insert(v[t], i, x)
<1>1. m.msg = "delta" /\ m.table = t /\ m.id = i /\ m.value = x
  BY DEF Delta
<1>2. w = [v EXCEPT ![t] = f]
  BY <1>1 DEF Apply
<1>3. DOMAIN v = Table /\ v = [u \in Table |-> v[u]]
  BY DEF IsView, Table
<1> HIDE DEF m, w, f
<1>4. DOMAIN w = Table /\ w[t] = f /\ \A u \in Table : u # t => w[u] = v[u]
  BY <1>2, <1>3
<1>5. IsView(w)
  <2>1. w = [u \in Table |-> w[u]]
    BY <1>2, <1>3, <1>4
  <2> QED BY <2>1 DEF IsView, Table
<1>6. /\ i \in DOMAIN f <=> x # Gone
      /\ x # Gone => f[i] = x
      /\ \A j : j # i => (j \in DOMAIN f <=> j \in DOMAIN v[t])
      /\ \A j : (j # i /\ j \in DOMAIN v[t]) => f[j] = v[t][j]
  BY DEF f, Store!Insert, Store!Remove
<1>7. Entry(w, t, i) = x
  BY <1>4, <1>6 DEF Entry
<1>8. ASSUME NEW u \in Table, NEW j, u # t \/ j # i
      PROVE  Entry(w, u, j) = Entry(v, u, j)
  BY <1>4, <1>6, <1>8 DEF Entry
<1> QED BY <1>5, <1>7, <1>8 DEF w, m

-----------------------------------------------------------------------------
(* What is where: the strengthening every other proof rests on.             *)

IsDelta(m) == m.table \in Table /\ m = Delta(m.table, m.id, m.value)
IsSnapshot(m) == IsView(m.view) /\ m = Snapshot(m.view)

Sent == {bus[n] : n \in 1..Len(bus)}

BusShape == bus \in Seq(Sent) /\ \A n \in 1..Len(bus) : IsDelta(bus[n])

SessionShape ==
  /\ phase \in [Session -> Phases]
  /\ cursor \in [Session -> Nat]
  /\ authed \in [Session -> BOOLEAN]
  /\ synced \in [Session -> BOOLEAN]
  /\ missed \in [Session -> BOOLEAN]
  /\ DOMAIN out = Session /\ DOMAIN view = Session

\* What a session is about to deliver fits the phase it is in, and only a
\* connected and authenticated one has a snapshot.
Deliverable(s) ==
  /\ phase[s] = "publish" => IsDelta(out[s])
  /\ phase[s] = "list" => IsSnapshot(out[s])
  /\ phase[s] = "reply" => IsDelta(out[s]) \/ IsSnapshot(out[s]) \/ out[s] = Error
  /\ phase[s] \in {"publish", "list", "reply"} => authed[s]
  /\ synced[s] => authed[s] /\ phase[s] # "off"
  /\ cursor[s] <= Len(bus)
  /\ IsView(view[s])

Shape ==
  /\ DOMAIN born = ChoreId
  /\ BusShape
  /\ SessionShape
  /\ \A s \in Session : Deliverable(s)

\* The kinds of message differ.
LEMMA Kinds ==
  ASSUME NEW m
  PROVE  /\ IsDelta(m) => m.msg = "delta"
         /\ IsSnapshot(m) => m.msg = "snapshot"
         /\ m = Error => m.msg = "error"
<1>1. Error.msg = "error" /\ (\A v : Snapshot(v).msg = "snapshot")
      /\ \A t, i, x : Delta(t, i, x).msg = "delta"
  BY DEF Error, Snapshot, Delta
<1> QED BY <1>1 DEF IsDelta, IsSnapshot

\* Appending to the channel.
LEMMA BusGrows ==
  ASSUME BusShape, NEW m, IsDelta(m), bus' = Append(bus, m)
  PROVE  /\ BusShape'
         /\ Len(bus) \in Nat /\ Len(bus') = Len(bus) + 1
         /\ bus'[Len(bus) + 1] = m
         /\ \A n \in 1..Len(bus) : bus'[n] = bus[n]
<1> DEFINE T == Sent \cup {m}
<1>1. bus \in Seq(T)
  BY SeqMonotonic DEF BusShape
<1>2. m \in T
  OBVIOUS
<1> HIDE DEF T
<1>3. /\ bus' \in Seq(T) /\ Len(bus') = Len(bus) + 1 /\ Len(bus) \in Nat
      /\ bus'[Len(bus) + 1] = m
      /\ \A n \in 1..Len(bus) : bus'[n] = bus[n]
  BY <1>1, <1>2, AppendProperties, LenProperties
<1>4. \A n \in 1..Len(bus') : n \in 1..Len(bus) \/ n = Len(bus) + 1
  BY <1>3
<1>5. \A n \in 1..Len(bus') : IsDelta(bus'[n])
  BY <1>3, <1>4 DEF BusShape
<1>6. T \subseteq Sent'
  <2>1. Len(bus) + 1 \in 1..Len(bus') /\ 1..Len(bus) \subseteq 1..Len(bus')
    BY <1>3
  <2> QED BY <1>3, <2>1 DEF T, Sent
<1>7. bus' \in Seq(Sent')
  BY <1>3, <1>6, SeqMonotonic
<1> QED BY <1>3, <1>5, <1>7 DEF BusShape

LEMMA BusLength == BusShape => Len(bus) \in Nat
BY LenProperties DEF BusShape

-----------------------------------------------------------------------------
(* What a mutation does, whichever it is.                                  *)

\* The row of an entry is what it was.
SameRow(t, i) ==
  /\ i \in DOMAIN Db'[t] <=> i \in DOMAIN Db[t]
  /\ i \in DOMAIN Db[t] => Db'[t][i] = Db[t][i]

\* One row (t, i) changes, and the session is left with the new row to
\* publish.
Commits(s, t, i) ==
  /\ phase[s] = "idle"
  /\ phase' = [phase EXCEPT ![s] = "publish"]
  /\ authed' = [authed EXCEPT ![s] = TRUE]
  /\ out' = [out EXCEPT ![s] = Delta(t, i, Entry(Db', t, i))]
  /\ UNCHANGED <<bus, cursor, view, synced, missed, loaded>>
  /\ crossed' = IF \E r \in Pending : About(r, t, i) THEN crossed \cup {<<t, i>>}
                                                      ELSE crossed \ {<<t, i>>}
  /\ \A u \in Table : \A j : (u # t \/ j # i) => SameRow(u, j)
  /\ DOMAIN born = ChoreId => DOMAIN born' = ChoreId

LEMMA CommitShape ==
  ASSUME DOMAIN born = ChoreId, NEW s \in Session, Committing(s)
  PROVE  \E t \in Table : \E i \in Ids(t) : Commits(s, t, i)
<1> DEFINE Ok == \E t \in Table : \E i \in Ids(t) : Commits(s, t, i)
<1>0. /\ "chores" \in Table /\ "events" \in Table
      /\ Ids("chores") = ChoreId /\ Ids("events") = EventId
      /\ \A t \in Table : t = "chores" \/ t = "events"
      /\ "chores" # "events"
      /\ Db["chores"] = chores /\ Db["events"] = events
      /\ Db'["chores"] = chores' /\ Db'["events"] = events'
  BY DEF Table, Ids, Db
<1>1. ASSUME NEW c \in ChoreId, NEW m, Commit(s, m), m = Delta("chores", c, Entry(Db', "chores", c)),
             UNCHANGED events,
             \A j : j # c => (j \in DOMAIN chores' <=> j \in DOMAIN chores),
             \A j \in DOMAIN chores : j # c => chores'[j] = chores[j],
             DOMAIN born' = ChoreId
      PROVE  Ok
  <2>1. m.table = "chores" /\ m.id = c
    BY <1>1 DEF Delta
  <2>2. Commits(s, "chores", c)
    BY <1>0, <1>1, <2>1 DEF Commits, Commit, Handle, SameRow
  <2> QED BY <1>0, <2>2
<1>2. ASSUME NEW e \in EventId, NEW m, Commit(s, m), m = Delta("events", e, Entry(Db', "events", e)),
             UNCHANGED <<chores, born>>,
             \A j : j # e => (j \in DOMAIN events' <=> j \in DOMAIN events),
             \A j \in DOMAIN events : j # e => events'[j] = events[j]
      PROVE  Ok
  <2>2. m.table = "events" /\ m.id = e
    BY <1>2 DEF Delta
  <2>3. Commits(s, "events", e)
    BY <1>0, <1>2, <2>2 DEF Commits, Commit, Handle, SameRow
  <2> QED BY <1>0, <2>3
<1>3. ASSUME NEW c \in ChoreId, NEW form \in Form, NEW deps \in SUBSET ChoreId,
             NEW evs \in SUBSET EventId, AddChore(s, c, form, deps, evs)
      PROVE  Ok
  <2> DEFINE x == Store!NewChore(UserOf[s], form, deps, evs)
  <2>1. /\ chores' = Store!Insert(chores, c, x)
        /\ \E n : born' = [born EXCEPT ![c] = n]
        /\ UNCHANGED events
        /\ Commit(s, Delta("chores", c, chores'[c]))
    BY <1>3 DEF AddChore, Store!AddChore
  <2> HIDE DEF x
  <2>2. /\ c \in DOMAIN chores'
        /\ \A j : j # c => (j \in DOMAIN chores' <=> j \in DOMAIN chores)
        /\ \A j \in DOMAIN chores : j # c => chores'[j] = chores[j]
    BY <2>1 DEF Store!Insert
  <2>3. DOMAIN born' = ChoreId
    BY <2>1
  <2>4. Entry(Db', "chores", c) = chores'[c]
    BY <1>0, <2>2 DEF Entry
  <2> QED BY <1>1, <2>1, <2>2, <2>3, <2>4
<1>4. ASSUME NEW c \in ChoreId, CompleteChore(s, c) PROVE Ok
  <2>1. /\ chores' = [chores EXCEPT ![c].completions =
                        Append(@, [by |-> UserOf[s], at |-> clock])]
        /\ c \in DOMAIN chores
        /\ UNCHANGED <<events, born, issuedEvents>>
        /\ Commit(s, Delta("chores", c, chores'[c]))
    BY <1>4 DEF CompleteChore, Store!CompleteChore, Store!MayComplete, Store!Live
  <2>2. /\ DOMAIN chores' = DOMAIN chores
        /\ \A j \in DOMAIN chores : j # c => chores'[j] = chores[j]
    BY <2>1
  <2>3. Entry(Db', "chores", c) = chores'[c]
    BY <1>0, <2>1, <2>2 DEF Entry
  <2> QED BY <1>1, <2>1, <2>2, <2>3
<1>5. ASSUME NEW c \in ChoreId, DeleteChore(s, c) PROVE Ok
  <2>1. /\ chores' = Store!Remove(chores, c)
        /\ UNCHANGED <<events, born, issuedEvents>>
        /\ Commit(s, Delta("chores", c, Gone))
    BY <1>5 DEF DeleteChore, Store!DeleteChore
  <2>2. /\ c \notin DOMAIN chores'
        /\ \A j : j # c => (j \in DOMAIN chores' <=> j \in DOMAIN chores)
        /\ \A j \in DOMAIN chores : j # c => chores'[j] = chores[j]
    BY <2>1 DEF Store!Remove
  <2>3. Entry(Db', "chores", c) = Gone
    BY <1>0, <2>2 DEF Entry
  <2> QED BY <1>1, <2>1, <2>2, <2>3
<1>6. ASSUME NEW e \in EventId, AddEvent(s, e) PROVE Ok
  <2> DEFINE x == [created_by |-> UserOf[s], triggered_by |-> Nobody]
  <2>1. /\ events' = Store!Insert(events, e, x)
        /\ UNCHANGED <<chores, born>>
        /\ Commit(s, Delta("events", e, events'[e]))
    BY <1>6 DEF AddEvent, Store!AddEvent
  <2> HIDE DEF x
  <2>2. /\ e \in DOMAIN events'
        /\ \A j : j # e => (j \in DOMAIN events' <=> j \in DOMAIN events)
        /\ \A j \in DOMAIN events : j # e => events'[j] = events[j]
    BY <2>1 DEF Store!Insert
  <2>3. Entry(Db', "events", e) = events'[e]
    BY <1>0, <2>2 DEF Entry
  <2> QED BY <1>2, <2>1, <2>2, <2>3
<1>7. ASSUME NEW e \in EventId, TriggerEvent(s, e) PROVE Ok
  <2>1. /\ events' = [events EXCEPT ![e].triggered_by = UserOf[s]]
        /\ e \in DOMAIN events
        /\ UNCHANGED <<chores, born, issuedEvents>>
        /\ Commit(s, Delta("events", e, events'[e]))
    BY <1>7 DEF TriggerEvent, Store!TriggerEvent
  <2>2. /\ DOMAIN events' = DOMAIN events
        /\ \A j \in DOMAIN events : j # e => events'[j] = events[j]
    BY <2>1
  <2>3. Entry(Db', "events", e) = events'[e]
    BY <1>0, <2>1, <2>2 DEF Entry
  <2> QED BY <1>2, <2>1, <2>2, <2>3
<1>8. ASSUME NEW e \in EventId, DeleteEvent(s, e) PROVE Ok
  <2>1. /\ events' = Store!Remove(events, e)
        /\ UNCHANGED <<chores, born, issuedEvents>>
        /\ Commit(s, Delta("events", e, Gone))
    BY <1>8 DEF DeleteEvent, Store!DeleteEvent
  <2>2. /\ e \notin DOMAIN events'
        /\ \A j : j # e => (j \in DOMAIN events' <=> j \in DOMAIN events)
        /\ \A j \in DOMAIN events : j # e => events'[j] = events[j]
    BY <2>1 DEF Store!Remove
  <2>3. Entry(Db', "events", e) = Gone
    BY <1>0, <2>2 DEF Entry
  <2> QED BY <1>2, <2>1, <2>2, <2>3
<1> QED BY <1>3, <1>4, <1>5, <1>6, <1>7, <1>8 DEF Committing

\* Applying a message of any kind leaves a view.
LEMMA ApplyShape ==
  ASSUME NEW v, IsView(v), NEW m, IsDelta(m) \/ IsSnapshot(m) \/ m = Error
  PROVE  IsView(Apply(v, m))
<1>1. CASE IsDelta(m)
  BY <1>1, ApplyDelta DEF IsDelta
<1>2. CASE IsSnapshot(m)
  BY <1>2, Kinds DEF IsSnapshot, Apply
<1>3. CASE m = Error
  BY <1>3, Kinds DEF Apply
<1> QED BY <1>1, <1>2, <1>3

LEMMA InitShape == Init => Shape
<1> SUFFICES ASSUME Init PROVE Shape
  OBVIOUS
<1>1. bus = << >> /\ Len(bus) = 0
  BY DEF Init
<1>2. BusShape
  BY <1>1 DEF BusShape, Sent
<1>3. \A s \in Session : IsView(view[s])
  BY DEF Init, EmptyView, IsView
<1>4. SessionShape
  BY DEF Init, SessionShape, Phases
<1>5. DOMAIN born = ChoreId
  BY DEF Init, Load, Store!Sound, Store!TypeOK
<1>6. \A s \in Session : phase[s] = "off" /\ ~ synced[s] /\ cursor[s] = 0
  BY DEF Init
<1>7. \A s \in Session : Deliverable(s)
  BY <1>1, <1>3, <1>6 DEF Deliverable
<1> QED BY <1>2, <1>4, <1>5, <1>7 DEF Shape

\* A session keeps its shape when nothing of it changes and the channel does
\* not shrink.
LEMMA BystanderShape ==
  ASSUME Shape, NEW r \in Session, Len(bus) <= Len(bus'), BusShape',
         phase'[r] = phase[r], cursor'[r] = cursor[r], authed'[r] = authed[r],
         out'[r] = out[r], view'[r] = view[r], synced'[r] = synced[r]
  PROVE  Deliverable(r)'
<1>1. Deliverable(r) /\ cursor[r] \in Nat /\ Len(bus) \in Nat /\ Len(bus') \in Nat
  <2>1. Len(bus) \in Nat
    BY BusLength DEF Shape
  <2>2. Len(bus') \in Nat
    BY LenProperties DEF BusShape
  <2> QED BY <2>1, <2>2 DEF Shape, SessionShape
<1> QED BY <1>1 DEF Deliverable

LEMMA NextShape == Shape /\ [Next]_vars => Shape'
<1> SUFFICES ASSUME Shape, [Next]_vars PROVE Shape'
  OBVIOUS
<1>0. /\ BusShape /\ SessionShape /\ Len(bus) \in Nat
      /\ \A s \in Session : Deliverable(s)
  BY BusLength DEF Shape
<1>1. ASSUME UNCHANGED bus PROVE BusShape' /\ Len(bus) <= Len(bus')
  BY <1>0, <1>1 DEF BusShape, Sent
<1>2. ASSUME NEW s \in Session, SessionShape', BusShape', Len(bus) <= Len(bus'),
             DOMAIN born' = ChoreId, Deliverable(s)',
             \A r \in Session \ {s} :
               /\ phase'[r] = phase[r] /\ cursor'[r] = cursor[r] /\ authed'[r] = authed[r]
               /\ out'[r] = out[r] /\ view'[r] = view[r] /\ synced'[r] = synced[r]
      PROVE  Shape'
  <2>1. \A r \in Session : Deliverable(r)'
    BY <1>2, BystanderShape
  <2> QED BY <1>2, <2>1 DEF Shape
<1>3. ASSUME NEW s \in Session, NEW t \in Table, NEW i \in Ids(t), Commits(s, t, i)
      PROVE  Shape'
  <2>1. SessionShape'
    BY <1>0, <1>3 DEF Commits, SessionShape, Phases
  <2>2. IsDelta(Delta(t, i, Entry(Db', t, i)))
    BY DEF IsDelta, Delta
  <2>3. /\ phase'[s] = "publish" /\ authed'[s] = TRUE
        /\ out'[s] = Delta(t, i, Entry(Db', t, i))
    BY <1>0, <1>3 DEF Commits, SessionShape
  <2>4. Deliverable(s)'
    BY <1>0, <1>3, <2>2, <2>3 DEF Deliverable, Commits
  <2>5. DOMAIN born' = ChoreId
    BY <1>3 DEF Commits, Shape
  <2>6. UNCHANGED bus
    BY <1>3 DEF Commits
  <2>7. \A r \in Session \ {s} :
          /\ phase'[r] = phase[r] /\ cursor'[r] = cursor[r] /\ authed'[r] = authed[r]
          /\ out'[r] = out[r] /\ view'[r] = view[r] /\ synced'[r] = synced[r]
    BY <1>0, <1>3 DEF Commits, SessionShape
  <2> QED BY <1>1, <1>2, <2>1, <2>4, <2>5, <2>6, <2>7
<1>4. ASSUME NEW s \in Session, Connect(s) PROVE Shape'
  <2>1. SessionShape'
    BY <1>0, <1>4 DEF Connect, SessionShape, Phases
  <2>2. IsView(EmptyView)
    BY DEF IsView, EmptyView
  <2>3. Deliverable(s)'
    BY <1>0, <1>4, <2>2 DEF Connect, Deliverable, SessionShape
  <2>4. \A r \in Session \ {s} :
          /\ phase'[r] = phase[r] /\ cursor'[r] = cursor[r] /\ authed'[r] = authed[r]
          /\ out'[r] = out[r] /\ view'[r] = view[r] /\ synced'[r] = synced[r]
    BY <1>0, <1>4 DEF Connect, SessionShape
  <2>5. UNCHANGED <<bus, born>>
    BY <1>4 DEF Connect, store
  <2> QED BY <1>1, <1>2, <2>1, <2>3, <2>4, <2>5 DEF Shape
<1>5. ASSUME NEW s \in Session, Drop(s) PROVE Shape'
  <2>1. SessionShape'
    BY <1>0, <1>5 DEF Drop, SessionShape, Phases
  <2>2. Deliverable(s)'
    BY <1>0, <1>5 DEF Drop, Deliverable, SessionShape
  <2>3. \A r \in Session \ {s} :
          /\ phase'[r] = phase[r] /\ cursor'[r] = cursor[r] /\ authed'[r] = authed[r]
          /\ out'[r] = out[r] /\ view'[r] = view[r] /\ synced'[r] = synced[r]
    BY <1>0, <1>5 DEF Drop, SessionShape
  <2>4. UNCHANGED <<bus, born>>
    BY <1>5 DEF Drop, store
  <2> QED BY <1>1, <1>2, <2>1, <2>2, <2>3, <2>4 DEF Shape
<1>6. ASSUME NEW s \in Session, Refuse(s) \/ ListChores(s) PROVE Shape'
  <2> DEFINE m == Snapshot([chores |-> Store!VisibleChores(UserOf[s], chores), events |-> << >>])
  <2>1. IsSnapshot(m)
    BY DEF IsSnapshot, Snapshot, IsView
  <2>2. \/ Handle(s, "reply", Error) /\ UNCHANGED missed /\ UNCHANGED born
        \/ /\ Handle(s, "list", m) /\ missed' = [missed EXCEPT ![s] = FALSE] /\ UNCHANGED born
    BY <1>6 DEF Refuse, ListChores, Store!Refuse, Store!vars, store
  <2> HIDE DEF m
  <2>3. SessionShape'
    BY <1>0, <2>2 DEF Handle, SessionShape, Phases
  <2>4. Deliverable(s)'
    BY <1>0, <2>1, <2>2 DEF Handle, Deliverable, SessionShape
  <2>5. \A r \in Session \ {s} :
          /\ phase'[r] = phase[r] /\ cursor'[r] = cursor[r] /\ authed'[r] = authed[r]
          /\ out'[r] = out[r] /\ view'[r] = view[r] /\ synced'[r] = synced[r]
    BY <1>0, <2>2 DEF Handle, SessionShape
  <2>6. UNCHANGED <<bus, born>>
    BY <2>2 DEF Handle
  <2> QED BY <1>1, <1>2, <2>3, <2>4, <2>5, <2>6 DEF Shape
<1>7. ASSUME NEW s \in Session, ListEvents(s) PROVE Shape'
  <2> DEFINE m == Snapshot([out[s].view EXCEPT !.events = events])
  <2>1. IsSnapshot(out[s])
    BY <1>0, <1>7 DEF ListEvents, Deliverable
  <2>2. IsSnapshot(m)
    BY <2>1 DEF IsSnapshot, Snapshot, IsView
  <2>3. /\ phase[s] = "list" /\ phase' = [phase EXCEPT ![s] = "reply"]
        /\ out' = [out EXCEPT ![s] = m]
        /\ UNCHANGED <<born, bus, cursor, authed, view, synced, missed>>
    BY <1>7 DEF ListEvents, store
  <2> HIDE DEF m
  <2>4. SessionShape'
    BY <1>0, <2>3 DEF SessionShape, Phases
  <2>5. Deliverable(s)'
    BY <1>0, <2>2, <2>3 DEF Deliverable, SessionShape
  <2>6. \A r \in Session \ {s} :
          /\ phase'[r] = phase[r] /\ cursor'[r] = cursor[r] /\ authed'[r] = authed[r]
          /\ out'[r] = out[r] /\ view'[r] = view[r] /\ synced'[r] = synced[r]
    BY <1>0, <2>3 DEF SessionShape
  <2> QED BY <1>1, <1>2, <2>3, <2>4, <2>5, <2>6 DEF Shape
<1>8. ASSUME NEW s \in Session, Publish(s) PROVE Shape'
  <2>1. /\ phase[s] = "publish" /\ phase' = [phase EXCEPT ![s] = "reply"]
        /\ bus' = Append(bus, out[s])
        /\ UNCHANGED <<born, out, cursor, authed, view, synced, missed>>
    BY <1>8 DEF Publish, store
  <2>2. IsDelta(out[s])
    BY <1>0, <2>1 DEF Deliverable
  <2>3. BusShape' /\ Len(bus') = Len(bus) + 1
    BY <1>0, <2>1, <2>2, BusGrows
  <2>4. SessionShape'
    BY <1>0, <2>1 DEF SessionShape, Phases
  <2>5. Deliverable(s)'
    <3>1. cursor[s] <= Len(bus')
      BY <1>0, <2>3 DEF Deliverable, SessionShape
    <3> QED BY <1>0, <2>1, <2>2, <3>1 DEF Deliverable, SessionShape
  <2>6. \A r \in Session \ {s} :
          /\ phase'[r] = phase[r] /\ cursor'[r] = cursor[r] /\ authed'[r] = authed[r]
          /\ out'[r] = out[r] /\ view'[r] = view[r] /\ synced'[r] = synced[r]
    BY <1>0, <2>1 DEF SessionShape
  <2> QED BY <1>0, <1>2, <2>1, <2>3, <2>4, <2>5, <2>6 DEF Shape
<1>9. ASSUME NEW s \in Session, Reply(s) PROVE Shape'
  <2>1. /\ phase[s] = "reply" /\ phase' = [phase EXCEPT ![s] = "idle"]
        /\ out' = [out EXCEPT ![s] = Error]
        /\ view' = [view EXCEPT ![s] = Apply(@, out[s])]
        /\ synced' = [synced EXCEPT ![s] = @ \/ out[s].msg = "snapshot"]
        /\ UNCHANGED <<born, bus, cursor, authed, missed>>
    BY <1>9 DEF Reply, store
  <2>2. IsDelta(out[s]) \/ IsSnapshot(out[s]) \/ out[s] = Error
    BY <1>0, <2>1 DEF Deliverable
  <2>3. IsView(Apply(view[s], out[s]))
    BY <1>0, <2>2, ApplyShape DEF Deliverable
  <2>4. SessionShape'
    BY <1>0, <2>1 DEF SessionShape, Phases
  <2>5. authed[s]
    BY <1>0, <2>1 DEF Deliverable
  <2>6. Deliverable(s)'
    BY <1>0, <2>1, <2>3, <2>5 DEF Deliverable, SessionShape
  <2>7. \A r \in Session \ {s} :
          /\ phase'[r] = phase[r] /\ cursor'[r] = cursor[r] /\ authed'[r] = authed[r]
          /\ out'[r] = out[r] /\ view'[r] = view[r] /\ synced'[r] = synced[r]
    BY <1>0, <2>1 DEF SessionShape
  <2> QED BY <1>1, <1>2, <2>1, <2>4, <2>6, <2>7 DEF Shape
<1>10. ASSUME NEW s \in Session, Forward(s) \/ Lag(s) PROVE Shape'
  <2>1. /\ phase[s] = "idle" /\ UNCHANGED <<born, bus, phase, authed, out, synced>>
        /\ DOMAIN view' = Session /\ missed' \in [Session -> BOOLEAN]
        /\ \E n : cursor' = [cursor EXCEPT ![s] = n]
        /\ \A r \in Session \ {s} : view'[r] = view[r]
    BY <1>0, <1>10 DEF Forward, Lag, store, SessionShape
  <2>2. cursor'[s] \in Nat /\ cursor'[s] <= Len(bus)
    BY <1>0, <1>10, CapacityAssumption DEF Forward, Lag, Behind, SessionShape
  <2>3. IsView(view'[s])
    <3>1. CASE Lag(s)
      BY <1>0, <3>1 DEF Lag, Deliverable
    <3>2. CASE Forward(s) /\ ~ authed[s]
      BY <1>0, <3>2 DEF Forward, Deliverable
    <3>3. CASE Forward(s) /\ authed[s]
      <4>1. cursor[s] + 1 \in 1..Len(bus)
        BY <1>0, <3>3, CapacityAssumption DEF Forward, Behind, SessionShape
      <4>2. IsDelta(bus[cursor[s] + 1])
        BY <1>0, <4>1 DEF BusShape
      <4>3. view'[s] = Apply(view[s], bus[cursor[s] + 1])
        BY <1>0, <3>3 DEF Forward, SessionShape
      <4> QED BY <1>0, <4>2, <4>3, ApplyShape DEF Deliverable
    <3> QED BY <1>0, <1>10, <3>1, <3>2, <3>3 DEF SessionShape
  <2>4. SessionShape'
    BY <1>0, <2>1, <2>2 DEF SessionShape
  <2>5. Deliverable(s)'
    BY <1>0, <2>1, <2>2, <2>3 DEF Deliverable
  <2>6. \A r \in Session \ {s} :
          /\ phase'[r] = phase[r] /\ cursor'[r] = cursor[r] /\ authed'[r] = authed[r]
          /\ out'[r] = out[r] /\ view'[r] = view[r] /\ synced'[r] = synced[r]
    BY <1>0, <2>1 DEF SessionShape
  <2> QED BY <1>1, <1>2, <2>1, <2>4, <2>5, <2>6 DEF Shape
<1>11. CASE Tick \/ UNCHANGED vars
  <2>1. UNCHANGED <<born, bus, phase, cursor, authed, out, view, synced, missed>>
    BY <1>11 DEF Tick, Store!Tick, sessions, vars
  <2> QED BY <2>1, <1>0 DEF Shape, BusShape, Sent, SessionShape, Deliverable
<1>12. ASSUME NEW s \in Session, Committing(s) PROVE Shape'
  BY <1>3, <1>12, CommitShape DEF Shape
<1> QED BY <1>4, <1>5, <1>6, <1>7, <1>8, <1>9, <1>10, <1>11, <1>12 DEF Next, Committing

\* The shape of messages, sessions and channel is an invariant.
THEOREM ShapeHolds == Spec => []Shape
BY InitShape, NextShape, PTL DEF Spec

-----------------------------------------------------------------------------
(* Type correctness.  The replicas hold what they are sent, so the         *)
(* invariant reaches into the channel and into the answers under way.      *)

RowType(t) == IF t = "chores" THEN Store!Chore ELSE Store!ExternalEvent

TypedView(v) == \A t \in Table : \A i \in DOMAIN v[t] : i \in Ids(t) /\ v[t][i] \in RowType(t)

TypedMsg(m) ==
  /\ m.msg = "delta" => m.id \in Ids(m.table) /\ (m.value = Gone \/ m.value \in RowType(m.table))
  /\ m.msg = "snapshot" => TypedView(m.view)

Typed ==
  /\ Store!TypeOK
  /\ \A n \in 1..Len(bus) : TypedMsg(bus[n])
  /\ \A s \in Session : TypedMsg(out[s]) /\ TypedView(view[s])
  /\ crossed \subseteq Table \X (ChoreId \cup EventId)

LEMMA NextStoreTypes == Store!TypeOK /\ [Next]_vars => Store!TypeOK'
<1>1. Theory!TypeOK /\ [Theory!Next]_(Theory!vars) => Theory!TypeOK'
  BY Theory!NextTypeOK, TheoryAssumption
<1>2. (Store!TypeOK <=> Theory!TypeOK) /\ (Store!TypeOK <=> Theory!TypeOK)'
  BY TheoryTypes, PTL
<1> QED BY <1>1, <1>2, StoreStep, TheoryNext

\* The tables themselves are a typed view.
LEMMA TypedTables == Store!TypeOK => TypedView(Db)
BY DEF Store!TypeOK, Store!Issued, TypedView, RowType, Ids, Db, Table

\* A message of each kind is as typed as what it carries.
LEMMA TypedMessages ==
  /\ TypedMsg(Error)
  /\ \A v : TypedView(v) => TypedMsg(Snapshot(v))
  /\ \A t \in Table : \A i \in Ids(t) : \A x :
       (x = Gone \/ x \in RowType(t)) => TypedMsg(Delta(t, i, x))
<1>1. TypedMsg(Error)
  BY DEF TypedMsg, Error
<1>2. \A v : TypedView(v) => TypedMsg(Snapshot(v))
  BY DEF TypedMsg, Snapshot
<1>3. ASSUME NEW t \in Table, NEW i \in Ids(t), NEW x, x = Gone \/ x \in RowType(t)
      PROVE  TypedMsg(Delta(t, i, x))
  <2>1. LET m == Delta(t, i, x) IN m.msg = "delta" /\ m.table = t /\ m.id = i /\ m.value = x
    BY DEF Delta
  <2> QED BY <1>3, <2>1 DEF TypedMsg
<1> QED BY <1>1, <1>2, <1>3

\* A replica stays typed whatever typed message it applies.
LEMMA ApplyTyped ==
  ASSUME NEW v, IsView(v), TypedView(v),
         NEW m, IsDelta(m) \/ IsSnapshot(m) \/ m = Error, TypedMsg(m)
  PROVE  TypedView(Apply(v, m))
<1>1. CASE IsDelta(m)
  <2>1. m.msg = "delta" /\ m.table \in Table
    BY <1>1, Kinds DEF IsDelta
  <2> DEFINE f == IF m.value = Gone THEN Store!Remove(v[m.table], m.id)
                                    ELSE Store!Insert(v[m.table], m.id, m.value)
             w == Apply(v, m)
  <2>2. w = [v EXCEPT ![m.table] = f]
    BY <2>1 DEF Apply
  <2>3. \A i \in DOMAIN f : i \in Ids(m.table) /\ f[i] \in RowType(m.table)
    BY <2>1 DEF TypedMsg, TypedView, Store!Remove, Store!Insert
  <2>4. DOMAIN v = Table
    BY DEF IsView, Table
  <2> HIDE DEF f, w
  <2>5. w[m.table] = f /\ \A t \in Table : t # m.table => w[t] = v[t]
    BY <2>1, <2>2, <2>4
  <2>6. TypedView(w)
    BY <2>3, <2>5 DEF TypedView
  <2> QED BY <2>6 DEF w
<1>2. CASE IsSnapshot(m)
  BY <1>2, Kinds DEF IsSnapshot, Apply, TypedMsg
<1>3. CASE m = Error
  BY <1>3, Kinds DEF Apply
<1> QED BY <1>1, <1>2, <1>3

LEMMA InitTyped == Init => Typed
<1> SUFFICES ASSUME Init PROVE Typed
  OBVIOUS
<1>1. Store!TypeOK
  BY DEF Init, Load, Store!Sound
<1>2. TypedView(EmptyView)
  BY DEF TypedView, EmptyView, Table
<1> QED BY <1>1, <1>2, TypedMessages DEF Init, Typed

\* A step keeps the types if it keeps them in the message and the replica of
\* the one session it is about.
LEMMA TypedStep ==
  ASSUME Typed, [Next]_vars, NEW s \in Session,
         \A n \in 1..Len(bus') : TypedMsg(bus'[n]),
         TypedMsg(out'[s]), TypedView(view'[s]), crossed' \subseteq Table \X (ChoreId \cup EventId),
         \A r \in Session \ {s} : out'[r] = out[r] /\ view'[r] = view[r]
  PROVE  Typed'
<1>1. Store!TypeOK'
  BY NextStoreTypes DEF Typed
<1>2. \A r \in Session : TypedMsg(out'[r]) /\ TypedView(view'[r])
  BY DEF Typed
<1> QED BY <1>1, <1>2 DEF Typed, TypedMsg, TypedView, RowType

LEMMA NextTyped == Shape /\ Typed /\ [Next]_vars => Typed'
<1> SUFFICES ASSUME Shape, Typed, [Next]_vars PROVE Typed'
  OBVIOUS
<1>0. /\ BusShape /\ SessionShape /\ Len(bus) \in Nat
      /\ \A s \in Session : Deliverable(s)
      /\ \A n \in 1..Len(bus) : TypedMsg(bus[n])
      /\ \A s \in Session : TypedMsg(out[s]) /\ TypedView(view[s])
      /\ UNCHANGED crossed => crossed' \subseteq Table \X (ChoreId \cup EventId)
  BY BusLength DEF Shape, Typed
<1>1. ASSUME NEW s \in Session, Committing(s) PROVE Typed'
  <2>1. PICK t \in Table : \E i \in Ids(t) : Commits(s, t, i)
    BY <1>1, CommitShape DEF Shape
  <2>2. PICK i \in Ids(t) : Commits(s, t, i)
    BY <2>1
  <2>3. /\ UNCHANGED <<bus, view>> /\ out'[s] = Delta(t, i, Entry(Db', t, i))
        /\ \A r \in Session \ {s} : out'[r] = out[r]
        /\ crossed' \subseteq crossed \cup {<<t, i>>}
    BY <1>0, <2>2 DEF Commits, SessionShape
  <2>4. TypedView(Db')
    <3>1. Store!TypeOK'
      BY NextStoreTypes DEF Typed
    <3>2. Store!TypeOK' => TypedView(Db')
      BY DEF Store!TypeOK, Store!Issued, TypedView, RowType, Ids, Db, Table
    <3> QED BY <3>1, <3>2
  <2>5. Entry(Db', t, i) = Gone \/ Entry(Db', t, i) \in RowType(t)
    BY <2>4 DEF Entry, TypedView
  <2>6. TypedMsg(out'[s])
    BY <2>3, <2>5, TypedMessages
  <2>7. crossed' \subseteq Table \X (ChoreId \cup EventId)
    BY <2>3 DEF Typed, Ids
  <2> QED BY <1>0, <2>3, <2>6, <2>7, TypedStep
<1>2. ASSUME NEW s \in Session, Connect(s) \/ Drop(s) \/ Refuse(s) PROVE Typed'
  <2>1. /\ UNCHANGED <<bus, crossed>> /\ out'[s] \in {out[s], Error} /\ view'[s] \in {view[s], EmptyView}
        /\ \A r \in Session \ {s} : out'[r] = out[r] /\ view'[r] = view[r]
    BY <1>0, <1>2 DEF Connect, Drop, Refuse, Handle, SessionShape, store
  <2>2. TypedView(EmptyView)
    BY DEF TypedView, EmptyView, Table
  <2>3. TypedMsg(out'[s]) /\ TypedView(view'[s])
    BY <1>0, <2>1, <2>2, TypedMessages
  <2> QED BY <1>0, <2>1, <2>3, TypedStep
<1>3. ASSUME NEW s \in Session, ListChores(s) PROVE Typed'
  <2> DEFINE v == [chores |-> Store!VisibleChores(UserOf[s], chores), events |-> << >>]
  <2>1. TypedView(v)
    BY DEF Typed, Store!TypeOK, Store!Issued, Store!VisibleChores, TypedView, RowType, Ids, Table
  <2>2. /\ UNCHANGED <<bus, view, crossed>> /\ out'[s] = Snapshot(v)
        /\ \A r \in Session \ {s} : out'[r] = out[r]
    BY <1>0, <1>3 DEF ListChores, Handle, SessionShape, store
  <2> HIDE DEF v
  <2>3. TypedMsg(out'[s])
    BY <2>1, <2>2, TypedMessages
  <2> QED BY <1>0, <2>2, <2>3, TypedStep
<1>4. ASSUME NEW s \in Session, ListEvents(s) PROVE Typed'
  <2> DEFINE v == [out[s].view EXCEPT !.events = events]
  <2>1. IsSnapshot(out[s]) /\ out[s].msg = "snapshot"
    BY <1>0, <1>4, Kinds DEF ListEvents, Deliverable
  <2>2. v = [chores |-> out[s].view.chores, events |-> events]
    BY <2>1 DEF IsSnapshot, IsView
  <2>3. TypedView(out[s].view)
    BY <1>0, <2>1 DEF TypedMsg
  <2>4. TypedView(v)
    BY <2>2, <2>3 DEF Typed, Store!TypeOK, TypedView, RowType, Ids, Table
  <2>5. /\ UNCHANGED <<bus, view, crossed>> /\ out'[s] = Snapshot(v)
        /\ \A r \in Session \ {s} : out'[r] = out[r]
    BY <1>0, <1>4 DEF ListEvents, SessionShape, store
  <2> HIDE DEF v
  <2>6. TypedMsg(out'[s])
    BY <2>4, <2>5, TypedMessages
  <2> QED BY <1>0, <2>5, <2>6, TypedStep
<1>5. ASSUME NEW s \in Session, Publish(s) PROVE Typed'
  <2>1. phase[s] = "publish" /\ bus' = Append(bus, out[s]) /\ UNCHANGED <<out, view, crossed>>
    BY <1>5 DEF Publish, store
  <2>2. IsDelta(out[s])
    BY <1>0, <2>1 DEF Deliverable
  <2>3. /\ Len(bus') = Len(bus) + 1 /\ bus'[Len(bus) + 1] = out[s]
        /\ \A n \in 1..Len(bus) : bus'[n] = bus[n]
    BY <1>0, <2>1, <2>2, BusGrows
  <2>4. \A n \in 1..Len(bus') : n \in 1..Len(bus) \/ n = Len(bus) + 1
    BY <1>0, <2>3
  <2>5. \A n \in 1..Len(bus') : TypedMsg(bus'[n])
    BY <1>0, <2>3, <2>4
  <2> QED BY <1>0, <2>1, <2>5, TypedStep
<1>6. ASSUME NEW s \in Session, Reply(s) PROVE Typed'
  <2>1. /\ phase[s] = "reply" /\ UNCHANGED <<bus, crossed>>
        /\ out'[s] = Error /\ view'[s] = Apply(view[s], out[s])
        /\ \A r \in Session \ {s} : out'[r] = out[r] /\ view'[r] = view[r]
    BY <1>0, <1>6 DEF Reply, SessionShape, store
  <2>2. TypedView(view'[s])
    BY <1>0, <2>1, ApplyTyped DEF Deliverable
  <2> QED BY <1>0, <2>1, <2>2, TypedMessages, TypedStep
<1>7. ASSUME NEW s \in Session, Forward(s) \/ Lag(s) PROVE Typed'
  <2>1. /\ UNCHANGED <<bus, out, crossed>>
        /\ \A r \in Session \ {s} : view'[r] = view[r]
        /\ \/ view'[s] = view[s]
           \/ Forward(s) /\ view'[s] = Apply(view[s], bus[cursor[s] + 1])
    BY <1>0, <1>7 DEF Forward, Lag, SessionShape, store
  <2>2. CASE Forward(s) /\ view'[s] = Apply(view[s], bus[cursor[s] + 1])
    <3>1. cursor[s] + 1 \in 1..Len(bus)
      BY <1>0, <2>2, CapacityAssumption DEF Forward, Behind, SessionShape
    <3>2. IsDelta(bus[cursor[s] + 1])
      BY <1>0, <3>1 DEF BusShape
    <3>3. TypedView(view'[s])
      BY <1>0, <2>2, <3>1, <3>2, ApplyTyped DEF Deliverable
    <3> QED BY <1>0, <2>1, <3>3, TypedStep
  <2> QED BY <1>0, <2>1, <2>2, TypedStep
<1>8. CASE Tick \/ UNCHANGED vars
  <2>1. UNCHANGED <<bus, out, view, crossed>>
    BY <1>8 DEF Tick, sessions, vars
  <2>2. Store!TypeOK'
    BY NextStoreTypes DEF Typed
  <2> QED BY <1>0, <2>1, <2>2 DEF Typed, TypedMsg, TypedView, RowType
<1> QED BY <1>1, <1>2, <1>3, <1>4, <1>5, <1>6, <1>7, <1>8 DEF Next, Committing

\* The tables, the replicas in the browsers and the positions of the receivers
\* always have the declared types.
THEOREM TypeCorrect == Spec => []TypeOK
<1>1. Shape /\ Typed => TypeOK
  <2> SUFFICES ASSUME Shape, Typed PROVE TypeOK
    OBVIOUS
  <2>1. Len(bus) \in Nat /\ SessionShape /\ \A s \in Session : Deliverable(s)
    BY BusLength DEF Shape
  <2>2. cursor \in [Session -> 0..Len(bus)]
    BY <2>1 DEF SessionShape, Deliverable
  <2>3. \A s \in Session :
          /\ \A c \in DOMAIN view[s].chores : c \in ChoreId /\ view[s].chores[c] \in Store!Chore
          /\ \A e \in DOMAIN view[s].events : e \in EventId /\ view[s].events[e] \in Store!ExternalEvent
    BY DEF Typed, TypedView, Table, RowType, Ids
  <2> QED BY <2>1, <2>2, <2>3 DEF Typed, TypeOK, SessionShape
<1> QED BY <1>1, InitShape, NextShape, InitTyped, NextTyped, PTL DEF Spec

-----------------------------------------------------------------------------
(* What a step may do to the channel, to the outstanding broadcasts and to *)
(* the tables: messages are only added, an outstanding broadcast leaves    *)
(* only for the channel, and a row changes only together with a broadcast  *)
(* of what it became.                                                      *)

Carries(t, i) == \E r \in Pending : out[r] = Delta(t, i, Entry(Db, t, i))

BusKept ==
  /\ Len(bus) \in Nat /\ Len(bus') \in Nat /\ Len(bus) <= Len(bus')
  /\ \A n \in 1..Len(bus) : bus'[n] = bus[n]

PendingKept ==
  \A p \in Pending :
    \/ p \in Pending' /\ out'[p] = out[p]
    \/ Len(bus') = Len(bus) + 1 /\ bus'[Len(bus) + 1] = out[p]

RowsKept == \A t \in Table : \A i : Carries(t, i)' \/ SameRow(t, i)

LEMMA Environment ==
  ASSUME Shape, [Next]_vars PROVE BusKept /\ PendingKept /\ RowsKept
<1>0. /\ BusShape /\ SessionShape /\ Len(bus) \in Nat
      /\ \A s \in Session : Deliverable(s)
  BY BusLength DEF Shape
<1>1. ASSUME UNCHANGED bus PROVE BusKept
  BY <1>0, <1>1 DEF BusKept
<1>2. ASSUME UNCHANGED <<chores, events>> PROVE RowsKept
  BY <1>2 DEF RowsKept, SameRow, Db
<1>3. ASSUME NEW s \in Session, phase[s] # "publish",
             \A r \in Session \ {s} : phase'[r] = phase[r] /\ out'[r] = out[r]
      PROVE  PendingKept
  BY <1>3 DEF PendingKept, Pending
<1>4. ASSUME NEW s \in Session, NEW t \in Table, NEW i \in Ids(t), Commits(s, t, i)
      PROVE  BusKept /\ PendingKept /\ RowsKept
  <2>1. /\ UNCHANGED bus /\ phase[s] = "idle"
        /\ \A r \in Session \ {s} : phase'[r] = phase[r] /\ out'[r] = out[r]
        /\ phase'[s] = "publish" /\ out'[s] = Delta(t, i, Entry(Db', t, i))
    BY <1>0, <1>4 DEF Commits, SessionShape
  <2>2. Carries(t, i)'
    BY <2>1 DEF Carries, Pending
  <2>3. RowsKept
    BY <1>4, <2>2 DEF Commits, RowsKept
  <2> QED BY <1>1, <1>3, <2>1, <2>3
<1>5. ASSUME NEW s \in Session,
             \/ Connect(s) \/ Drop(s) \/ Refuse(s) \/ ListChores(s)
             \/ ListEvents(s) \/ Reply(s) \/ Forward(s) \/ Lag(s)
      PROVE  BusKept /\ PendingKept /\ RowsKept
  <2>1. UNCHANGED <<bus, chores, events, born, issuedEvents>> /\ phase[s] # "publish"
    BY <1>5 DEF Connect, Drop, Refuse, Store!Refuse, Store!vars, Handle, ListChores, ListEvents,
         Reply, Forward, Lag, store
  <2>2. \A r \in Session \ {s} : phase'[r] = phase[r] /\ out'[r] = out[r]
    BY <1>0, <1>5 DEF Connect, Drop, Refuse, Handle, ListChores, ListEvents,
         Reply, Forward, Lag, SessionShape
  <2> QED BY <1>1, <1>2, <1>3, <2>1, <2>2
<1>6. ASSUME NEW s \in Session, Publish(s) PROVE BusKept /\ PendingKept /\ RowsKept
  <2>1. /\ phase[s] = "publish" /\ bus' = Append(bus, out[s])
        /\ phase' = [phase EXCEPT ![s] = "reply"]
        /\ UNCHANGED <<out, chores, events, born, issuedEvents>>
    BY <1>6 DEF Publish, store
  <2>2. IsDelta(out[s])
    BY <1>0, <2>1 DEF Deliverable
  <2>3. /\ Len(bus') = Len(bus) + 1 /\ bus'[Len(bus) + 1] = out[s]
        /\ \A n \in 1..Len(bus) : bus'[n] = bus[n]
    BY <1>0, <2>1, <2>2, BusGrows
  <2>4. BusKept
    BY <1>0, <2>3 DEF BusKept
  <2>5. \A r \in Session \ {s} : phase'[r] = phase[r] /\ out'[r] = out[r]
    BY <1>0, <2>1 DEF SessionShape
  <2>6. PendingKept
    BY <2>3, <2>5 DEF PendingKept, Pending
  <2> QED BY <1>2, <2>1, <2>4, <2>6
<1>7. CASE Tick \/ UNCHANGED vars
  <2>1. UNCHANGED <<bus, phase, out, chores, events, born, issuedEvents>>
    BY <1>7 DEF Tick, Store!Tick, sessions, vars
  <2>2. PendingKept
    BY <2>1 DEF PendingKept, Pending
  <2> QED BY <1>1, <1>2, <2>1, <2>2
<1>8. ASSUME NEW s \in Session, Committing(s) PROVE BusKept /\ PendingKept /\ RowsKept
  BY <1>4, <1>8, CommitShape DEF Shape
<1> QED BY <1>5, <1>6, <1>7, <1>8 DEF Next, Committing

\* An unchanged row is an unchanged entry.
LEMMA SameEntry ==
  ASSUME NEW t, NEW i, SameRow(t, i) PROVE Entry(Db', t, i) = Entry(Db, t, i)
BY DEF SameRow, Entry

-----------------------------------------------------------------------------
(* No silent change.                                                       *)

\* A broadcast about an entry is outstanding.
Coming(t, i) == \E r \in Pending : out[r].table = t /\ out[r].id = i

\* The channel has said nothing of an entry and is not about to, and the entry
\* is as it was loaded.
Untouched(t, i) ==
  Entry(Db, t, i) = Entry(loaded, t, i) /\ Mentions(t, i) = {} /\ ~ Coming(t, i)

\* The present value of an entry was sent, or is about to be.
Told(t, i) == Carries(t, i) \/ \E n \in Mentions(t, i) : bus[n].value = Entry(Db, t, i)

ChangesTold == \A t \in Table : \A i : Untouched(t, i) \/ Told(t, i)

\* A broadcast about an entry comes up only together with a change of it.
LEMMA SilenceKept ==
  ASSUME Shape, [Next]_vars, NEW t \in Table, NEW i, ~ Carries(t, i)',
         Mentions(t, i) = {}, ~ Coming(t, i)
  PROVE  Mentions(t, i)' = {} /\ ~ Coming(t, i)' /\ UNCHANGED loaded
<1>0. BusShape /\ SessionShape /\ Len(bus) \in Nat /\ \A s \in Session : Deliverable(s)
  BY BusLength DEF Shape
<1>1. ASSUME NEW s \in Session, UNCHANGED <<bus, loaded>>,
             phase'[s] = "publish" => out'[s].table # t \/ out'[s].id # i,
             \A r \in Session \ {s} : phase'[r] = phase[r] /\ out'[r] = out[r]
      PROVE  Mentions(t, i)' = {} /\ ~ Coming(t, i)' /\ UNCHANGED loaded
  BY <1>1 DEF Mentions, Coming, Pending
<1>2. ASSUME NEW s \in Session, NEW u \in Table, NEW j \in Ids(u), Commits(s, u, j)
      PROVE  Mentions(t, i)' = {} /\ ~ Coming(t, i)' /\ UNCHANGED loaded
  <2>1. /\ UNCHANGED <<bus, loaded>>
        /\ phase'[s] = "publish" /\ out'[s] = Delta(u, j, Entry(Db', u, j))
        /\ \A r \in Session \ {s} : phase'[r] = phase[r] /\ out'[r] = out[r]
    BY <1>0, <1>2 DEF Commits, SessionShape
  <2>2. out'[s].table = u /\ out'[s].id = j /\ Carries(u, j)'
    BY <2>1 DEF Carries, Pending, Delta
  <2> QED BY <1>1, <2>1, <2>2
<1>3. ASSUME NEW s \in Session, Publish(s)
      PROVE  Mentions(t, i)' = {} /\ ~ Coming(t, i)' /\ UNCHANGED loaded
  <2>1. /\ phase[s] = "publish" /\ bus' = Append(bus, out[s])
        /\ phase' = [phase EXCEPT ![s] = "reply"]
        /\ UNCHANGED <<out, loaded>>
    BY <1>3 DEF Publish, store
  <2>2. IsDelta(out[s])
    BY <1>0, <2>1 DEF Deliverable
  <2>3. /\ Len(bus') = Len(bus) + 1 /\ bus'[Len(bus) + 1] = out[s]
        /\ \A n \in 1..Len(bus) : bus'[n] = bus[n]
    BY <1>0, <2>1, <2>2, BusGrows
  <2>4. Pending' \subseteq Pending
    BY <1>0, <2>1 DEF Pending, SessionShape
  <2>5. out[s].table # t \/ out[s].id # i
    BY <2>1 DEF Coming, Pending
  <2>6. \A n \in 1..Len(bus') : n \in 1..Len(bus) \/ n = Len(bus) + 1
    BY <1>0, <2>3
  <2>7. Mentions(t, i)' = {}
    BY <2>3, <2>5, <2>6 DEF Mentions
  <2> QED BY <2>1, <2>4, <2>7 DEF Coming
<1>4. ASSUME NEW s \in Session,
             \/ Connect(s) \/ Drop(s) \/ Refuse(s) \/ ListChores(s)
             \/ ListEvents(s) \/ Reply(s) \/ Forward(s) \/ Lag(s)
      PROVE  Mentions(t, i)' = {} /\ ~ Coming(t, i)' /\ UNCHANGED loaded
  <2>1. UNCHANGED <<bus, loaded>> /\ phase'[s] # "publish"
    BY <1>0, <1>4 DEF Connect, Drop, Refuse, Handle, ListChores,
         ListEvents, Reply, Forward, Lag, store, SessionShape
  <2>2. \A r \in Session \ {s} : phase'[r] = phase[r] /\ out'[r] = out[r]
    BY <1>0, <1>4 DEF Connect, Drop, Refuse, Handle, ListChores, ListEvents,
         Reply, Forward, Lag, SessionShape
  <2> QED BY <1>1, <2>1, <2>2
<1>5. CASE Tick \/ UNCHANGED vars
  <2>1. UNCHANGED <<bus, phase, out, loaded>>
    BY <1>5 DEF Tick, sessions, vars
  <2> QED BY <2>1 DEF Mentions, Coming, Pending
<1>6. ASSUME NEW s \in Session, Committing(s)
      PROVE  Mentions(t, i)' = {} /\ ~ Coming(t, i)' /\ UNCHANGED loaded
  BY <1>2, <1>6, CommitShape DEF Shape
<1> QED BY <1>3, <1>4, <1>5, <1>6 DEF Next, Committing

LEMMA NextChangesTold == Shape /\ ChangesTold /\ [Next]_vars => ChangesTold'
<1> SUFFICES ASSUME Shape, ChangesTold, [Next]_vars, NEW t \in Table, NEW i
             PROVE  Untouched(t, i)' \/ Told(t, i)'
  BY DEF ChangesTold
<1>0. BusKept /\ PendingKept /\ RowsKept
  BY Environment
<1>1. CASE Carries(t, i)'
  BY <1>1 DEF Told
<1>2. CASE ~ Carries(t, i)'
  <2>1. Entry(Db', t, i) = Entry(Db, t, i)
    BY <1>0, <1>2, SameEntry DEF RowsKept
  <2>2. CASE Untouched(t, i)
    BY <1>2, <2>1, <2>2, SilenceKept DEF Untouched
  <2>3. ASSUME NEW n \in Mentions(t, i), bus[n].value = Entry(Db, t, i)
        PROVE  n \in Mentions(t, i)' /\ bus'[n].value = Entry(Db', t, i)
    BY <1>0, <2>1, <2>3 DEF Mentions, BusKept
  <2>4. ASSUME NEW r \in Pending, out[r] = Delta(t, i, Entry(Db, t, i))
        PROVE  /\ Len(bus) + 1 \in Mentions(t, i)'
               /\ bus'[Len(bus) + 1].value = Entry(Db', t, i)
    <3>1. ~ (r \in Pending' /\ out'[r] = out[r])
      BY <1>2, <2>1, <2>4 DEF Carries
    <3>2. Len(bus') = Len(bus) + 1 /\ bus'[Len(bus) + 1] = Delta(t, i, Entry(Db, t, i))
      BY <1>0, <2>4, <3>1 DEF PendingKept
    <3>3. Len(bus) + 1 \in 1..Len(bus')
      BY <1>0, <3>2 DEF BusKept
    <3> QED BY <2>1, <3>2, <3>3 DEF Mentions, Delta
  <2> QED BY <2>2, <2>3, <2>4 DEF ChangesTold, Told, Carries
<1> QED BY <1>1, <1>2

\* When no broadcast is outstanding, an entry is as it was loaded, and nothing
\* was said of it, or the channel has carried its present value.
THEOREM NoSilentChange == Spec => []EveryChangePublished
<1>1. Init => ChangesTold
  <2> SUFFICES ASSUME Init, NEW t \in Table, NEW i PROVE Untouched(t, i)
    BY DEF ChangesTold
  <2>1. bus = << >> /\ Pending = {} /\ loaded = Db
    BY DEF Init, Load, Pending
  <2> QED BY <2>1 DEF Untouched, Mentions, Coming
<1>2. ChangesTold => EveryChangePublished
  BY DEF ChangesTold, Untouched, Told, Carries, EveryChangePublished
<1>3. Shape /\ ChangesTold /\ [Next]_vars => ChangesTold'
  BY NextChangesTold
<1> QED BY <1>1, <1>2, <1>3, ShapeHolds, PTL DEF Spec

-----------------------------------------------------------------------------
(* The order of broadcasts.                                                *)

\* The sessions with a broadcast about an entry outstanding.
Telling(t, i) == {r \in Pending : About(r, t, i)}

\* Nobody is about to tell of the entry and the channel is right about it, or
\* one session is, and it tells what the table says.
Settled(t, i) ==
  \/ Telling(t, i) = {} /\ InOrder(t, i)
  \/ \E r \in Session : Telling(t, i) = {r} /\ out[r].value = Entry(Db, t, i)

UncrossedSettled ==
  \A t \in Table : \A i \in Ids(t) : <<t, i>> \notin crossed => Settled(t, i)

\* An entry stays settled when nothing is said or done about it.
LEMMA KeepSettled ==
  ASSUME NEW t, NEW i, Settled(t, i), SameRow(t, i),
         Telling(t, i)' = Telling(t, i), \A r \in Telling(t, i) : out'[r] = out[r],
         Mentions(t, i)' = Mentions(t, i), \A n \in Mentions(t, i) : bus'[n] = bus[n]
  PROVE  Settled(t, i)'
<1>1. Entry(Db', t, i) = Entry(Db, t, i)
  BY SameEntry
<1>2. CASE Telling(t, i) = {} /\ InOrder(t, i)
  <2>1. InOrder(t, i)'
    BY <1>1, <1>2 DEF InOrder
  <2> QED BY <1>2, <2>1 DEF Settled
<1>3. ASSUME NEW r \in Session, Telling(t, i) = {r}, out[r].value = Entry(Db, t, i)
      PROVE  Settled(t, i)'
  BY <1>1, <1>3 DEF Settled
<1> QED BY <1>2, <1>3 DEF Settled

\* A commit settles the entry it changes unless another broadcast about it is
\* outstanding, and leaves the others as they were.
LEMMA CommitSettled ==
  ASSUME Shape, UncrossedSettled, NEW s \in Session, NEW t \in Table, NEW i \in Ids(t),
         Commits(s, t, i), NEW u \in Table, NEW j \in Ids(u), <<u, j>> \notin crossed'
  PROVE  Settled(u, j)'
<1>1. /\ phase[s] = "idle" /\ phase'[s] = "publish" /\ UNCHANGED bus
      /\ out'[s] = Delta(t, i, Entry(Db', t, i))
      /\ \A r \in Session \ {s} : phase'[r] = phase[r] /\ out'[r] = out[r]
  BY DEF Commits, Shape, SessionShape
<1>2. /\ out'[s].table = t /\ out'[s].id = i /\ out'[s].value = Entry(Db', t, i)
  BY <1>1 DEF Delta
<1>3. CASE u = t /\ j = i
  <2>1. \A r \in Pending : ~ About(r, t, i)
    BY <1>3 DEF Commits
  <2>2. Telling(t, i)' = {s}
    BY <1>1, <1>2, <2>1 DEF Telling, Pending, About
  <2> QED BY <1>2, <1>3, <2>2 DEF Settled
<1>4. CASE u # t \/ j # i
  <2>1. <<u, j>> \notin crossed
    BY <1>4 DEF Commits
  <2>2. SameRow(u, j)
    BY <1>4 DEF Commits
  <2>3. Telling(u, j)' = Telling(u, j) /\ \A r \in Telling(u, j) : out'[r] = out[r]
    BY <1>1, <1>2, <1>4 DEF Telling, Pending, About
  <2>4. Mentions(u, j)' = Mentions(u, j)
    BY <1>1 DEF Mentions
  <2> QED BY <1>1, <2>1, <2>2, <2>3, <2>4, KeepSettled DEF UncrossedSettled
<1> QED BY <1>3, <1>4

\* The broadcast of a settled entry is the last word about it, and right.
LEMMA PublishSettled ==
  ASSUME Shape, UncrossedSettled, NEW s \in Session, Publish(s),
         NEW t \in Table, NEW i \in Ids(t), <<t, i>> \notin crossed'
  PROVE  Settled(t, i)'
<1>1. /\ phase[s] = "publish" /\ phase'[s] = "reply" /\ bus' = Append(bus, out[s])
      /\ \A r \in Session \ {s} : phase'[r] = phase[r]
      /\ UNCHANGED <<out, chores, events, crossed>>
  BY DEF Publish, Shape, SessionShape, store
<1>2. IsDelta(out[s]) /\ BusShape
  BY <1>1 DEF Shape, Deliverable
<1>3. /\ Len(bus) \in Nat /\ Len(bus') = Len(bus) + 1 /\ bus'[Len(bus) + 1] = out[s]
      /\ \A n \in 1..Len(bus) : bus'[n] = bus[n]
  BY <1>1, <1>2, BusGrows
<1>4. Settled(t, i) /\ SameRow(t, i) /\ Entry(Db', t, i) = Entry(Db, t, i)
  BY <1>1 DEF UncrossedSettled, SameRow, Db
<1>5. CASE About(s, t, i)
  <2>1. s \in Telling(t, i)
    BY <1>1, <1>5 DEF Telling, Pending
  <2>2. Telling(t, i) = {s} /\ out[s].value = Entry(Db, t, i)
    BY <1>4, <2>1 DEF Settled
  <2>3. Telling(t, i)' = {}
    BY <1>1, <2>2 DEF Telling, Pending, About
  <2>4. Len(bus) + 1 \in Mentions(t, i)'
    BY <1>3, <1>5 DEF Mentions, About
  <2>5. ASSUME NEW n \in Mentions(t, i)', \A m \in Mentions(t, i)' : m <= n
        PROVE  bus'[n].value = Entry(Db', t, i)
    <3>1. n = Len(bus) + 1
      BY <1>3, <2>4, <2>5 DEF Mentions
    <3> QED BY <1>3, <1>4, <2>2, <3>1
  <2>6. InOrder(t, i)'
    BY <2>5 DEF InOrder
  <2> QED BY <2>3, <2>6 DEF Settled
<1>6. CASE ~ About(s, t, i)
  <2>1. Telling(t, i)' = Telling(t, i) /\ \A r \in Telling(t, i) : out'[r] = out[r]
    BY <1>1, <1>6 DEF Telling, Pending, About
  <2>2. Mentions(t, i)' = Mentions(t, i)
    BY <1>3, <1>6 DEF Mentions, About
  <2>3. \A n \in Mentions(t, i) : bus'[n] = bus[n]
    BY <1>3 DEF Mentions
  <2> QED BY <1>4, <2>1, <2>2, <2>3, KeepSettled
<1> QED BY <1>5, <1>6

\* A step that neither commits nor publishes settles and unsettles nothing.
LEMMA OtherSettled ==
  ASSUME UncrossedSettled, UNCHANGED <<bus, chores, events, crossed>>,
         Pending' = Pending, \A r \in Pending : out'[r] = out[r],
         NEW t \in Table, NEW i \in Ids(t), <<t, i>> \notin crossed'
  PROVE  Settled(t, i)'
<1>1. Settled(t, i) /\ SameRow(t, i)
  BY DEF UncrossedSettled, SameRow, Db
<1>2. Telling(t, i)' = Telling(t, i) /\ \A r \in Telling(t, i) : out'[r] = out[r]
  BY DEF Telling, About
<1>3. Mentions(t, i)' = Mentions(t, i)
  BY DEF Mentions
<1> QED BY <1>1, <1>2, <1>3, KeepSettled

LEMMA NextUncrossedSettled ==
  Shape /\ UncrossedSettled /\ [Next]_vars => UncrossedSettled'
<1> SUFFICES ASSUME Shape, UncrossedSettled, [Next]_vars,
                    NEW t \in Table, NEW i \in Ids(t), <<t, i>> \notin crossed'
             PROVE  Settled(t, i)'
  BY DEF UncrossedSettled, Table, Ids
<1>0. SessionShape
  BY DEF Shape
<1>1. ASSUME NEW s \in Session, Committing(s) PROVE Settled(t, i)'
  BY <1>1, CommitShape, CommitSettled DEF Shape
<1>2. ASSUME NEW s \in Session, Publish(s) PROVE Settled(t, i)'
  BY <1>2, PublishSettled
<1>3. ASSUME NEW s \in Session,
             \/ Connect(s) \/ Drop(s) \/ Refuse(s) \/ ListChores(s)
             \/ ListEvents(s) \/ Reply(s) \/ Forward(s) \/ Lag(s)
      PROVE  Settled(t, i)'
  <2>1. UNCHANGED <<bus, chores, events, crossed>> /\ phase[s] # "publish"
    BY <1>3 DEF Connect, Drop, Refuse, Store!Refuse, Store!vars, Handle, ListChores, ListEvents,
         Reply, Forward, Lag, store
  <2>2. phase'[s] # "publish"
    BY <1>0, <1>3 DEF Connect, Drop, Refuse, Handle, ListChores, ListEvents,
         Reply, Forward, Lag, SessionShape
  <2>3. \A r \in Session \ {s} : phase'[r] = phase[r] /\ out'[r] = out[r]
    BY <1>0, <1>3 DEF Connect, Drop, Refuse, Handle, ListChores, ListEvents,
         Reply, Forward, Lag, SessionShape
  <2>4. Pending' = Pending /\ \A r \in Pending : out'[r] = out[r]
    BY <2>1, <2>2, <2>3 DEF Pending
  <2> QED BY <2>1, <2>4, OtherSettled
<1>4. CASE Tick \/ UNCHANGED vars
  <2>1. UNCHANGED <<bus, phase, out, chores, events, crossed>>
    BY <1>4 DEF Tick, Store!Tick, sessions, vars
  <2> QED BY <2>1, OtherSettled DEF Pending
<1> QED BY <1>1, <1>2, <1>3, <1>4 DEF Next, Committing

\* Two sessions at work on the same entry at a time are the only cause of
\* broadcasts in the wrong order.
THEOREM OverlapCausesDisorder == Spec => []DisorderNeedsOverlap
<1>1. Init => UncrossedSettled
  <2> SUFFICES ASSUME Init, NEW t \in Table, NEW i \in Ids(t) PROVE Settled(t, i)
    BY DEF UncrossedSettled
  <2>1. Len(bus) = 0 /\ Pending = {}
    BY DEF Init, Pending
  <2> QED BY <2>1 DEF Settled, Telling, InOrder, Mentions
<1>2. UncrossedSettled => DisorderNeedsOverlap
  BY DEF UncrossedSettled, Settled, Telling, DisorderNeedsOverlap
<1> QED BY <1>1, <1>2, NextUncrossedSettled, ShapeHolds, PTL DEF Spec

-----------------------------------------------------------------------------
(* The replicas.  ReplicaMirrorsStore speaks of quiet states only; the     *)
(* invariant behind it says what holds in between.  Whatever a replica, or *)
(* a snapshot on its way to one, says of an entry is what the table says,  *)
(* or what the last broadcast about the entry said, or a broadcast about   *)
(* it is still to come.                                                    *)

Queued(s, t, i) == \E n \in Mentions(t, i) : n > cursor[s]
Due(s, t, i) == Queued(s, t, i) \/ Coming(t, i)

\* The session is on the way from the first read of a ListAll to its answer.
Listing(s) == phase[s] = "list" \/ (phase[s] = "reply" /\ out[s].msg = "snapshot")

\* The replica repeats the last broadcast about the entry.
Repeats(s, t, i) ==
  \E n \in Mentions(t, i) :
    /\ n <= cursor[s]
    /\ \A m \in Mentions(t, i) : m <= n
    /\ Entry(view[s], t, i) = bus[n].value

\* Mirrors, for the snapshot the session is about to send.
Promises(s, t, i) ==
  \/ Entry(out[s].view, t, i) = Entry(Db, t, i)
  \/ /\ t = "chores" /\ i \in DOMAIN chores
     /\ ~ Store!VisibleTo(chores[i], UserOf[s])
     /\ Entry(out[s].view, t, i) = Gone

ReplicaGood(s) ==
  (synced[s] /\ ~ missed[s] /\ ~ Listing(s)) =>
    \A t \in Table : \A i \in Ids(t) : Due(s, t, i) \/ Repeats(s, t, i) \/ Mirrors(s, t, i)

SnapshotGood(s) ==
  Listing(s) =>
    \A t \in Table : (t = "chores" \/ phase[s] = "reply") =>
      \A i \in Ids(t) : Due(s, t, i) \/ Promises(s, t, i)

\* The answer to a mutation overtakes its broadcast, which is still queued.
AnswerAhead(s) ==
  (phase[s] = "reply" /\ out[s].msg = "delta") => Queued(s, out[s].table, out[s].id)

Good(s) == ReplicaGood(s) /\ SnapshotGood(s) /\ AnswerAhead(s)

\* A queued broadcast stays queued while the receiver does not move.
LEMMA KeepQueued ==
  ASSUME BusKept, NEW s, cursor'[s] = cursor[s], NEW t, NEW i, Queued(s, t, i)
  PROVE  Queued(s, t, i)'
BY DEF Queued, Mentions, BusKept

\* A broadcast that is still to come stays so while the receiver does not
\* move.
LEMMA KeepDue ==
  ASSUME Shape, BusKept, PendingKept, NEW s \in Session, cursor'[s] = cursor[s],
         NEW t, NEW i, Due(s, t, i)
  PROVE  Due(s, t, i)'
<1>1. CASE Queued(s, t, i)
  BY <1>1, KeepQueued DEF Due
<1>2. ASSUME NEW r \in Pending, out[r].table = t, out[r].id = i
      PROVE  Due(s, t, i)'
  <2>1. CASE r \in Pending' /\ out'[r] = out[r]
    BY <1>2, <2>1 DEF Due, Coming
  <2>2. CASE Len(bus') = Len(bus) + 1 /\ bus'[Len(bus) + 1] = out[r]
    <3>1. cursor[s] \in Nat /\ cursor[s] <= Len(bus) /\ Len(bus) \in Nat
      BY DEF Shape, SessionShape, Deliverable, BusKept
    <3>2. Len(bus) + 1 \in 1..Len(bus') /\ Len(bus) + 1 > cursor'[s]
      BY <2>2, <3>1
    <3> QED BY <1>2, <2>2, <3>2 DEF Due, Queued, Mentions
  <2> QED BY <1>2, <2>1, <2>2 DEF PendingKept
<1> QED BY <1>1, <1>2 DEF Due, Coming

\* A row that changes is due for everyone.
LEMMA ChangedIsDue ==
  ASSUME RowsKept, NEW s, NEW t \in Table, NEW i, ~ Due(s, t, i)'
  PROVE  SameRow(t, i)
<1>1. ASSUME Carries(t, i)' PROVE Coming(t, i)'
  <2>1. \A x : Delta(t, i, x).table = t /\ Delta(t, i, x).id = i
    BY DEF Delta
  <2> QED BY <1>1, <2>1 DEF Carries, Coming
<1> QED BY <1>1 DEF RowsKept, Due

\* While the row stays, a replica or a snapshot with the same entry still
\* mirrors it.
LEMMA KeepMirrors ==
  ASSUME NEW s, NEW t \in Table, NEW i, SameRow(t, i),
         Entry(view'[s], t, i) = Entry(view[s], t, i), Mirrors(s, t, i)
  PROVE  Mirrors(s, t, i)'
<1>1. Entry(Db', t, i) = Entry(Db, t, i)
  BY SameEntry
<1>2. t = "chores" => /\ i \in DOMAIN chores' <=> i \in DOMAIN chores
                      /\ i \in DOMAIN chores => chores'[i] = chores[i]
  BY DEF SameRow, Db
<1> QED BY <1>1, <1>2 DEF Mirrors, Store!VisibleTo

LEMMA KeepPromises ==
  ASSUME NEW s, NEW t \in Table, NEW i, SameRow(t, i),
         Entry(out'[s].view, t, i) = Entry(out[s].view, t, i), Promises(s, t, i)
  PROVE  Promises(s, t, i)'
<1>1. Entry(Db', t, i) = Entry(Db, t, i)
  BY SameEntry
<1>2. t = "chores" => /\ i \in DOMAIN chores' <=> i \in DOMAIN chores
                      /\ i \in DOMAIN chores => chores'[i] = chores[i]
  BY DEF SameRow, Db
<1> QED BY <1>1, <1>2 DEF Promises, Store!VisibleTo

\* A replica that repeats the last broadcast does so until the next one.
LEMMA KeepRepeats ==
  ASSUME Shape, BusKept, NEW s \in Session, cursor'[s] = cursor[s], NEW t, NEW i,
         Entry(view'[s], t, i) = Entry(view[s], t, i),
         Repeats(s, t, i), ~ Due(s, t, i)'
  PROVE  Repeats(s, t, i)'
<1>1. PICK n \in Mentions(t, i) :
        /\ n <= cursor[s] /\ (\A m \in Mentions(t, i) : m <= n)
        /\ Entry(view[s], t, i) = bus[n].value
  BY DEF Repeats
<1>2. cursor[s] \in Nat /\ cursor[s] <= Len(bus)
  BY DEF Shape, SessionShape, Deliverable
<1>3. n \in Mentions(t, i)' /\ bus'[n] = bus[n]
  BY DEF Mentions, BusKept
<1>4. \A m \in Mentions(t, i)' : m <= cursor[s]
  BY <1>2 DEF Due, Queued, Mentions, BusKept
<1>5. \A m \in Mentions(t, i)' : m \in Mentions(t, i)
  BY <1>2, <1>4 DEF Mentions, BusKept
<1> QED BY <1>1, <1>3, <1>5 DEF Repeats

\* A replica that is not touched stays good.
LEMMA KeepReplica ==
  ASSUME Shape, BusKept, PendingKept, RowsKept, NEW s \in Session,
         cursor'[s] = cursor[s], view'[s] = view[s],
         synced[s], ~ missed[s], ~ Listing(s), ReplicaGood(s),
         NEW t \in Table, NEW i \in Ids(t)
  PROVE  (Due(s, t, i) \/ Repeats(s, t, i) \/ Mirrors(s, t, i))'
<1>1. Due(s, t, i) \/ Repeats(s, t, i) \/ Mirrors(s, t, i)
  BY DEF ReplicaGood
<1>2. CASE Due(s, t, i)'
  BY <1>2
<1>3. CASE ~ Due(s, t, i)'
  <2>1. SameRow(t, i) /\ ~ Due(s, t, i)
    BY <1>3, ChangedIsDue, KeepDue
  <2>2. Repeats(s, t, i) => Repeats(s, t, i)'
    BY <1>3, KeepRepeats
  <2>3. Mirrors(s, t, i) => Mirrors(s, t, i)'
    BY <2>1, KeepMirrors
  <2> QED BY <1>1, <2>1, <2>2, <2>3
<1> QED BY <1>2, <1>3

\* A snapshot that is not touched stays good.
LEMMA KeepSnapshot ==
  ASSUME Shape, BusKept, PendingKept, RowsKept, NEW s \in Session,
         cursor'[s] = cursor[s], NEW t \in Table, NEW i \in Ids(t),
         Entry(out'[s].view, t, i) = Entry(out[s].view, t, i),
         Due(s, t, i) \/ Promises(s, t, i)
  PROVE  (Due(s, t, i) \/ Promises(s, t, i))'
<1>1. CASE Due(s, t, i)'
  BY <1>1
<1>2. CASE ~ Due(s, t, i)'
  <2>1. SameRow(t, i) /\ ~ Due(s, t, i)
    BY <1>2, ChangedIsDue, KeepDue
  <2> QED BY <2>1, KeepPromises
<1> QED BY <1>1, <1>2

\* A session that takes no part in a step stays good.
LEMMA BystanderGood ==
  ASSUME Shape, BusKept, PendingKept, RowsKept, NEW r \in Session, Good(r),
         phase'[r] = phase[r], cursor'[r] = cursor[r], out'[r] = out[r],
         view'[r] = view[r], synced'[r] = synced[r], missed'[r] = missed[r]
  PROVE  Good(r)'
<1>1. Listing(r)' <=> Listing(r)
  BY DEF Listing
<1>2. ReplicaGood(r)'
  <2> SUFFICES ASSUME synced[r], ~ missed[r], ~ Listing(r), NEW t \in Table, NEW i \in Ids(t)
               PROVE  (Due(r, t, i) \/ Repeats(r, t, i) \/ Mirrors(r, t, i))'
    BY <1>1 DEF ReplicaGood, Ids
  <2> QED BY KeepReplica DEF Good
<1>3. SnapshotGood(r)'
  <2> SUFFICES ASSUME Listing(r), NEW t \in Table, t = "chores" \/ phase[r] = "reply",
                      NEW i \in Ids(t)
               PROVE  (Due(r, t, i) \/ Promises(r, t, i))'
    BY <1>1 DEF SnapshotGood, Ids
  <2>1. Due(r, t, i) \/ Promises(r, t, i)
    BY DEF Good, SnapshotGood
  <2> QED BY <2>1, KeepSnapshot
<1>4. AnswerAhead(r)'
  BY KeepQueued DEF Good, AnswerAhead
<1> QED BY <1>2, <1>3, <1>4 DEF Good

\* A session that comes to wait in select!, to publish or to answer with an
\* error, its replica untouched.
LEMMA UntouchedGood ==
  ASSUME Shape, BusKept, PendingKept, RowsKept, NEW s \in Session, Good(s),
         ~ Listing(s), ~ Listing(s)', ~ (phase[s] = "reply" /\ out[s].msg = "delta")',
         cursor'[s] = cursor[s], view'[s] = view[s],
         synced'[s] = synced[s], missed'[s] = missed[s]
  PROVE  Good(s)'
<1>1. ReplicaGood(s)'
  <2> SUFFICES ASSUME synced[s], ~ missed[s], NEW t \in Table, NEW i \in Ids(t)
               PROVE  (Due(s, t, i) \/ Repeats(s, t, i) \/ Mirrors(s, t, i))'
    BY DEF ReplicaGood, Ids
  <2> QED BY KeepReplica DEF Good
<1> QED BY <1>1 DEF Good, SnapshotGood, AnswerAhead

\* Forwarding: the last broadcast about an entry is now what the replica says.
LEMMA ForwardGood ==
  ASSUME Shape, BusKept, PendingKept, RowsKept, NEW s \in Session, Good(s), Forward(s)
  PROVE  Good(s)'
<1> DEFINE n == cursor[s] + 1
           m == bus[n]
<1>1. /\ Len(bus) \in Nat /\ cursor[s] \in Nat /\ n \in 1..Len(bus)
      /\ phase[s] = "idle" /\ phase'[s] = "idle"
      /\ UNCHANGED <<bus, synced, missed, out>>
      /\ cursor'[s] = n
      /\ view'[s] = IF authed[s] THEN Apply(view[s], m) ELSE view[s]
  BY CapacityAssumption DEF Shape, SessionShape, BusKept, Forward, Behind
<1>2. ~ Listing(s) /\ ~ Listing(s)'
  BY <1>1 DEF Listing
<1>3. IsView(view[s]) /\ (synced[s] => authed[s]) /\ IsDelta(m)
  BY <1>1 DEF Shape, Deliverable, BusShape
<1>4. ASSUME synced[s], ~ missed[s], NEW t \in Table, NEW i \in Ids(t)
      PROVE  (Due(s, t, i) \/ Repeats(s, t, i) \/ Mirrors(s, t, i))'
  <2>1. view'[s] = Apply(view[s], m) /\ m = Delta(m.table, m.id, m.value) /\ m.table \in Table
    BY <1>1, <1>3, <1>4 DEF IsDelta
  <2>2. /\ Entry(view'[s], m.table, m.id) = m.value
        /\ \A u \in Table : \A j : (u # m.table \/ j # m.id) => Entry(view'[s], u, j) = Entry(view[s], u, j)
    BY <1>3, <2>1, ApplyDelta
  <2>3. Mentions(t, i)' = Mentions(t, i)
    BY <1>1 DEF Mentions
  <2>4. \A k \in Mentions(t, i) : k \in Nat
    BY <1>1 DEF Mentions
  <2>5. CASE m.table = t /\ m.id = i
    <3>1. n \in Mentions(t, i)
      BY <1>1, <2>5 DEF Mentions
    <3>2. CASE \E k \in Mentions(t, i) : k > n
      BY <1>1, <2>3, <3>2 DEF Due, Queued
    <3>3. CASE \A k \in Mentions(t, i) : ~ (k > n)
      <4>1. \A k \in Mentions(t, i) : k <= n
        BY <1>1, <2>4, <3>3
      <4>2. Entry(view'[s], t, i) = bus'[n].value
        BY <1>1, <2>2, <2>5
      <4>3. n <= cursor'[s] /\ n \in Mentions(t, i)'
        BY <1>1, <2>3, <3>1
      <4> QED BY <2>3, <4>1, <4>2, <4>3 DEF Repeats
    <3> QED BY <3>2, <3>3
  <2>6. CASE m.table # t \/ m.id # i
    <3>1. Entry(view'[s], t, i) = Entry(view[s], t, i) /\ n \notin Mentions(t, i)
      BY <2>2, <2>6 DEF Mentions
    <3>2. \A k \in Mentions(t, i) : k > cursor[s] => k > n
      BY <1>1, <2>4, <3>1
    <3>3. Due(s, t, i) => Due(s, t, i)'
      <4>1. Queued(s, t, i) => Queued(s, t, i)'
        BY <1>1, <2>3, <3>2 DEF Queued
      <4>2. UNCHANGED <<phase, out>>
        BY DEF Forward
      <4>3. Coming(t, i) => Coming(t, i)'
        BY <4>2 DEF Coming, Pending
      <4> QED BY <4>1, <4>3 DEF Due
    <3>4. Repeats(s, t, i) => Repeats(s, t, i)'
      <4>1. \A k \in Mentions(t, i) : k <= cursor[s] => k <= cursor'[s]
        BY <1>1, <2>4
      <4> QED BY <1>1, <2>3, <3>1, <4>1 DEF Repeats
    <3>5. ASSUME Mirrors(s, t, i), ~ Due(s, t, i)' PROVE Mirrors(s, t, i)'
      BY <3>1, <3>5, ChangedIsDue, KeepMirrors
    <3>6. Due(s, t, i) \/ Repeats(s, t, i) \/ Mirrors(s, t, i)
      BY <1>2, <1>4 DEF Good, ReplicaGood
    <3> QED BY <3>3, <3>4, <3>5, <3>6
  <2> QED BY <2>5, <2>6
<1>5. ReplicaGood(s)'
  BY <1>1, <1>4 DEF ReplicaGood, Ids
<1> QED BY <1>1, <1>2, <1>5 DEF Good, SnapshotGood, AnswerAhead

\* Answering: an error changes nothing, a snapshot brings what it promises,
\* and what the answer to a mutation says will be said again by its
\* broadcast.
LEMMA ReplyGood ==
  ASSUME Shape, BusKept, PendingKept, RowsKept, NEW s \in Session, Good(s), Reply(s)
  PROVE  Good(s)'
<1> DEFINE m == out[s]
<1>1. /\ phase[s] = "reply" /\ phase'[s] = "idle"
      /\ UNCHANGED <<bus, cursor, missed>>
      /\ view'[s] = Apply(view[s], m)
      /\ synced'[s] = (synced[s] \/ m.msg = "snapshot")
  BY DEF Shape, SessionShape, Reply
<1>2. IsView(view[s]) /\ (IsDelta(m) \/ IsSnapshot(m) \/ m = Error)
  BY <1>1 DEF Shape, Deliverable
<1>3. ~ Listing(s)'
  BY <1>1 DEF Listing
<1>4. CASE IsSnapshot(m)
  <2>1. m.msg = "snapshot" /\ view'[s] = m.view /\ Listing(s)
    BY <1>1, <1>4, Kinds DEF Apply, Listing
  <2>2. ASSUME NEW t \in Table, NEW i \in Ids(t), ~ Due(s, t, i)'
        PROVE  Mirrors(s, t, i)'
    <3>1. SameRow(t, i) /\ ~ Due(s, t, i)
      BY <1>1, <2>2, ChangedIsDue, KeepDue
    <3>2. Promises(s, t, i)
      BY <1>1, <2>1, <3>1 DEF Good, SnapshotGood
    <3>3. Entry(Db', t, i) = Entry(Db, t, i)
      BY <3>1, SameEntry
    <3>4. t = "chores" => /\ i \in DOMAIN chores' <=> i \in DOMAIN chores
                          /\ i \in DOMAIN chores => chores'[i] = chores[i]
      BY <3>1 DEF SameRow, Db
    <3> QED BY <2>1, <3>2, <3>3, <3>4 DEF Promises, Mirrors, Store!VisibleTo
  <2>3. ReplicaGood(s)'
    BY <2>2 DEF ReplicaGood, Ids
  <2> QED BY <1>1, <1>3, <2>3 DEF Good, SnapshotGood, AnswerAhead
<1>5. CASE IsDelta(m)
  <2>1. m.msg = "delta" /\ ~ Listing(s)
    BY <1>1, <1>5, Kinds DEF Listing
  <2>2. m.table \in Table /\ m = Delta(m.table, m.id, m.value)
    BY <1>5 DEF IsDelta
  <2>3. \A u \in Table : \A j : (u # m.table \/ j # m.id) => Entry(view'[s], u, j) = Entry(view[s], u, j)
    BY <1>1, <1>2, <2>2, ApplyDelta
  <2>4. ASSUME NEW t, NEW i, t = m.table, i = m.id PROVE Queued(s, t, i)'
    <3>1. Queued(s, t, i)
      BY <1>1, <2>1, <2>4 DEF Good, AnswerAhead
    <3> QED BY <1>1, <3>1, KeepQueued
  <2>5. synced'[s] = synced[s]
    BY <1>1, <2>1 DEF Shape, SessionShape
  <2>6. ASSUME synced[s], ~ missed[s], NEW t \in Table, NEW i \in Ids(t), ~ Due(s, t, i)'
        PROVE  (Repeats(s, t, i) \/ Mirrors(s, t, i))'
    <3>1. t # m.table \/ i # m.id
      BY <2>4, <2>6 DEF Due
    <3>2. Entry(view'[s], t, i) = Entry(view[s], t, i)
      BY <2>3, <3>1
    <3>3. SameRow(t, i) /\ ~ Due(s, t, i)
      BY <1>1, <2>6, ChangedIsDue, KeepDue
    <3>4. Repeats(s, t, i) \/ Mirrors(s, t, i)
      BY <2>1, <2>6, <3>3 DEF Good, ReplicaGood
    <3> QED BY <1>1, <2>6, <3>2, <3>3, <3>4, KeepRepeats, KeepMirrors
  <2>7. ReplicaGood(s)'
    BY <1>1, <2>5, <2>6 DEF ReplicaGood, Ids
  <2> QED BY <1>1, <1>3, <2>7 DEF Good, SnapshotGood, AnswerAhead
<1>6. CASE m = Error
  <2>1. m.msg = "error" /\ view'[s] = view[s]
    BY <1>1, <1>6, Kinds DEF Apply
  <2>2. ~ Listing(s) /\ synced'[s] = synced[s]
    BY <1>1, <2>1 DEF Listing, Shape, SessionShape
  <2> QED BY <1>1, <1>3, <2>1, <2>2, UntouchedGood
<1> QED BY <1>2, <1>4, <1>5, <1>6

\* The two reads of ListAll.
LEMMA ListGood ==
  ASSUME Shape, BusKept, PendingKept, RowsKept, NEW s \in Session, Good(s),
         ListChores(s) \/ ListEvents(s)
  PROVE  Good(s)'
<1>1. CASE ListChores(s)
  <2> DEFINE mine == Store!VisibleChores(UserOf[s], chores)
             v == [chores |-> mine, events |-> << >>]
  <2>1. /\ phase'[s] = "list" /\ out'[s] = Snapshot(v)
        /\ UNCHANGED <<chores, events>>
    BY <1>1 DEF ListChores, Handle, Shape, SessionShape, store
  <2>2. out'[s].view = v /\ v["chores"] = mine
    BY <2>1 DEF Snapshot
  <2>3. ASSUME NEW i \in Ids("chores") PROVE Promises(s, "chores", i)'
    <3>1. /\ DOMAIN mine \subseteq DOMAIN chores
          /\ \A c \in DOMAIN mine : mine[c] = chores[c]
          /\ \A c \in DOMAIN chores \ DOMAIN mine : ~ Store!VisibleTo(chores[c], UserOf[s])
      BY DEF Store!VisibleChores
    <3>2. Db'["chores"] = chores
      BY <2>1 DEF Db
    <3> HIDE DEF mine
    <3>3. CASE i \in DOMAIN mine \/ i \notin DOMAIN chores
      <4>1. Entry(out'[s].view, "chores", i) = Entry(Db', "chores", i)
        BY <2>2, <3>1, <3>2, <3>3 DEF Entry
      <4> QED BY <4>1 DEF Promises
    <3>4. CASE i \in DOMAIN chores /\ i \notin DOMAIN mine
      <4>1. Entry(out'[s].view, "chores", i) = Gone
        BY <2>2, <3>4 DEF Entry
      <4>2. i \in DOMAIN chores' /\ ~ Store!VisibleTo(chores'[i], UserOf[s])
        BY <2>1, <3>1, <3>4
      <4> QED BY <4>1, <4>2 DEF Promises, Store!VisibleTo
    <3> QED BY <3>3, <3>4
  <2>4. Listing(s)' /\ phase'[s] # "reply"
    BY <2>1 DEF Listing
  <2>5. SnapshotGood(s)'
    BY <2>3, <2>4 DEF SnapshotGood, Ids
  <2> QED BY <2>4, <2>5 DEF Good, ReplicaGood, AnswerAhead
<1>2. CASE ListEvents(s)
  <2> DEFINE v == [out[s].view EXCEPT !.events = events]
  <2>1. /\ phase[s] = "list" /\ phase'[s] = "reply" /\ out'[s] = Snapshot(v)
        /\ UNCHANGED <<chores, events, bus, cursor>>
    BY <1>2 DEF ListEvents, Shape, SessionShape, store
  <2>2. IsView(out[s].view)
    BY <2>1 DEF Shape, Deliverable, IsSnapshot
  <2>3. out'[s].view = v /\ out'[s].msg = "snapshot"
    BY <2>1 DEF Snapshot
  <2>4. v["events"] = events /\ v["chores"] = out[s].view["chores"]
    BY <2>2 DEF IsView
  <2>5. ASSUME NEW i \in Ids("chores") PROVE (Due(s, "chores", i) \/ Promises(s, "chores", i))'
    <3>1. "chores" \in Table /\ (Due(s, "chores", i) \/ Promises(s, "chores", i))
      BY <2>1 DEF Good, SnapshotGood, Listing, Table
    <3>2. Entry(out'[s].view, "chores", i) = Entry(out[s].view, "chores", i)
      BY <2>3, <2>4 DEF Entry
    <3> QED BY <2>1, <3>1, <3>2, KeepSnapshot
  <2>6. ASSUME NEW i \in Ids("events") PROVE Promises(s, "events", i)'
    <3>1. Db'["events"] = events
      BY <2>1 DEF Db
    <3>2. Entry(out'[s].view, "events", i) = Entry(Db', "events", i)
      BY <2>3, <2>4, <3>1 DEF Entry
    <3> QED BY <3>2 DEF Promises
  <2>7. SnapshotGood(s)'
    BY <2>5, <2>6 DEF SnapshotGood, Ids, Table
  <2>8. Listing(s)'
    BY <2>1, <2>3 DEF Listing
  <2> QED BY <2>3, <2>7, <2>8 DEF Good, ReplicaGood, AnswerAhead
<1> QED BY <1>1, <1>2

\* Publishing: the session's own broadcast now waits in its own queue.
LEMMA PublishGood ==
  ASSUME Shape, BusKept, PendingKept, RowsKept, NEW s \in Session, Good(s), Publish(s)
  PROVE  Good(s)'
<1>1. /\ phase[s] = "publish" /\ phase'[s] = "reply" /\ bus' = Append(bus, out[s])
      /\ UNCHANGED <<cursor, out, view, synced, missed>>
  BY DEF Publish, Shape, SessionShape
<1>2. IsDelta(out[s]) /\ cursor[s] \in Nat /\ cursor[s] <= Len(bus) /\ BusShape
  BY <1>1 DEF Shape, Deliverable, SessionShape
<1>3. Len(bus) \in Nat /\ Len(bus') = Len(bus) + 1 /\ bus'[Len(bus) + 1] = out[s]
  BY <1>1, <1>2, BusGrows
<1>4. ~ Listing(s) /\ ~ Listing(s)'
  BY <1>1, <1>2, Kinds DEF Listing
<1>5. ReplicaGood(s)'
  <2> SUFFICES ASSUME synced[s], ~ missed[s], NEW t \in Table, NEW i \in Ids(t)
               PROVE  (Due(s, t, i) \/ Repeats(s, t, i) \/ Mirrors(s, t, i))'
    BY <1>1 DEF ReplicaGood, Ids
  <2> QED BY <1>1, <1>4, KeepReplica DEF Good
<1>6. ASSUME NEW t, NEW i, t = out[s].table, i = out[s].id PROVE Queued(s, t, i)'
  <2>1. Len(bus) + 1 \in 1..Len(bus') /\ Len(bus) + 1 > cursor'[s]
    BY <1>1, <1>2, <1>3
  <2> QED BY <1>3, <1>6, <2>1 DEF Queued, Mentions
<1> QED BY <1>1, <1>4, <1>5, <1>6 DEF Good, SnapshotGood, AnswerAhead

LEMMA NextGood ==
  Shape /\ (\A s \in Session : Good(s)) /\ [Next]_vars => (\A s \in Session : Good(s))'
<1> SUFFICES ASSUME Shape, \A s \in Session : Good(s), [Next]_vars
             PROVE  \A s \in Session : Good(s)'
  OBVIOUS
<1>0. BusKept /\ PendingKept /\ RowsKept /\ SessionShape
  BY Environment DEF Shape
<1> DEFINE Others(s) == \A r \in Session \ {s} :
      /\ phase'[r] = phase[r] /\ cursor'[r] = cursor[r] /\ out'[r] = out[r]
      /\ view'[r] = view[r] /\ synced'[r] = synced[r] /\ missed'[r] = missed[r]
<1>1. ASSUME NEW s \in Session, Others(s), Good(s)' PROVE \A r \in Session : Good(r)'
  BY <1>0, <1>1, BystanderGood
<1>2. ASSUME NEW s \in Session, NEW t \in Table, NEW i \in Ids(t), Commits(s, t, i)
      PROVE  \A r \in Session : Good(r)'
  <2>1. /\ phase[s] = "idle" /\ phase'[s] = "publish"
        /\ UNCHANGED <<cursor, view, synced, missed>> /\ Others(s)
    BY <1>0, <1>2 DEF Commits, SessionShape
  <2>2. ~ Listing(s) /\ ~ Listing(s)'
    BY <2>1 DEF Listing
  <2> QED BY <1>0, <1>1, <2>1, <2>2, UntouchedGood
<1>3. ASSUME NEW s \in Session, Refuse(s) PROVE \A r \in Session : Good(r)'
  <2>1. /\ phase[s] = "idle" /\ phase'[s] = "reply" /\ out'[s] = Error
        /\ UNCHANGED <<cursor, view, synced, missed>> /\ Others(s)
    BY <1>0, <1>3 DEF Refuse, Handle, SessionShape
  <2>2. out'[s].msg # "snapshot" /\ out'[s].msg # "delta"
    BY <2>1, Kinds
  <2>3. ~ Listing(s) /\ ~ Listing(s)'
    BY <2>1, <2>2 DEF Listing
  <2> QED BY <1>0, <1>1, <2>1, <2>2, <2>3, UntouchedGood
<1>4. ASSUME NEW s \in Session, Connect(s) \/ Drop(s) PROVE \A r \in Session : Good(r)'
  <2>1. phase'[s] \in {"idle", "off"} /\ Others(s)
    BY <1>0, <1>4 DEF Connect, Drop, SessionShape
  <2>2. ~ synced'[s]
    BY <1>0, <1>4 DEF Connect, Drop, SessionShape, Shape, Deliverable
  <2>3. Good(s)'
    BY <2>1, <2>2 DEF Good, ReplicaGood, SnapshotGood, AnswerAhead, Listing
  <2> QED BY <1>1, <2>1, <2>3
<1>5. ASSUME NEW s \in Session, ListChores(s) \/ ListEvents(s) PROVE \A r \in Session : Good(r)'
  <2>1. Others(s)
    BY <1>0, <1>5 DEF ListChores, ListEvents, Handle, SessionShape
  <2> QED BY <1>0, <1>1, <1>5, <2>1, ListGood
<1>6. ASSUME NEW s \in Session, Publish(s) PROVE \A r \in Session : Good(r)'
  <2>1. Others(s)
    BY <1>0, <1>6 DEF Publish, SessionShape
  <2> QED BY <1>0, <1>1, <1>6, <2>1, PublishGood
<1>7. ASSUME NEW s \in Session, Reply(s) PROVE \A r \in Session : Good(r)'
  <2>1. Others(s)
    BY <1>0, <1>7 DEF Reply, SessionShape
  <2> QED BY <1>0, <1>1, <1>7, <2>1, ReplyGood
<1>8. ASSUME NEW s \in Session, Forward(s) PROVE \A r \in Session : Good(r)'
  <2>1. Others(s)
    BY <1>0, <1>8 DEF Forward, SessionShape
  <2> QED BY <1>0, <1>1, <1>8, <2>1, ForwardGood
<1>9. ASSUME NEW s \in Session, Lag(s) PROVE \A r \in Session : Good(r)'
  <2>1. phase'[s] = "idle" /\ missed'[s] = TRUE /\ Others(s)
    BY <1>0, <1>9 DEF Lag, SessionShape
  <2>2. Good(s)'
    BY <2>1 DEF Good, ReplicaGood, SnapshotGood, AnswerAhead, Listing
  <2> QED BY <1>1, <2>1, <2>2
<1>10. CASE Tick \/ UNCHANGED vars
  <2>1. UNCHANGED <<phase, cursor, out, view, synced, missed>>
    BY <1>10 DEF Tick, sessions, vars
  <2> QED BY <1>0, <2>1, BystanderGood
<1>11. ASSUME NEW s \in Session, Committing(s) PROVE \A r \in Session : Good(r)'
  BY <1>2, <1>11, CommitShape DEF Shape
<1> QED BY <1>3, <1>4, <1>5, <1>6, <1>7, <1>8, <1>9, <1>10, <1>11 DEF Next, Committing

\* When nothing about it is under way, a good replica mirrors the tables, but
\* for entries whose broadcasts went out in the wrong order.
LEMMA QuietMirrors ==
  ASSUME Shape, NEW s \in Session, Good(s), Quiet(s), synced[s], ~ missed[s],
         NEW t \in Table, NEW i \in Ids(t), InOrder(t, i)
  PROVE  Mirrors(s, t, i)
<1>1. Len(bus) \in Nat
  BY BusLength DEF Shape
<1>2. ~ Listing(s) /\ ~ Due(s, t, i)
  BY <1>1 DEF Quiet, Listing, Due, Queued, Coming, Mentions
<1>3. Repeats(s, t, i) => Entry(view[s], t, i) = Entry(Db, t, i)
  BY DEF Repeats, InOrder
<1> QED BY <1>2, <1>3 DEF Good, ReplicaGood, Mirrors

\* Once a tab has its snapshot and the system is quiet, it mirrors every
\* entry its user may see.
THEOREM QuietReplicasMirror == Spec => []ReplicaMirrorsStore
<1> DEFINE AllGood == \A s \in Session : Good(s)
<1>1. Init => AllGood
  BY DEF Init, Good, ReplicaGood, SnapshotGood, AnswerAhead, Listing
<1>2. Shape /\ AllGood /\ [Next]_vars => AllGood'
  BY NextGood
<1>3. Shape /\ AllGood => ReplicaMirrorsStore
  BY QuietMirrors DEF ReplicaMirrorsStore
<1> QED BY <1>1, <1>2, <1>3, ShapeHolds, PTL DEF Spec

\* The two together: a quiet tab that missed nothing mirrors every entry that
\* was not last changed under an outstanding broadcast about it.
THEOREM OneAtATimeMirrors ==
  Spec => [](\A s \in Session : (Quiet(s) /\ synced[s] /\ ~ missed[s]) =>
               \A t \in Table : \A i \in Ids(t) : <<t, i>> \notin crossed => Mirrors(s, t, i))
<1>1. ReplicaMirrorsStore /\ DisorderNeedsOverlap =>
        \A s \in Session : (Quiet(s) /\ synced[s] /\ ~ missed[s]) =>
          \A t \in Table : \A i \in Ids(t) : <<t, i>> \notin crossed => Mirrors(s, t, i)
  BY DEF ReplicaMirrorsStore, DisorderNeedsOverlap, Quiet
<1> QED BY <1>1, QuietReplicasMirror, OverlapCausesDisorder, PTL

\* The badge of a quiet tab never says "free" of a blocked chore, and it says
\* "blocked" of a free one only where the replica lacks a hidden dependency.
THEOREM BadgeIsCautious == Spec => []BadgeErrsOnlyOnHidden
<1>1. ASSUME TypeOK, ReplicaMirrorsStore PROVE BadgeErrsOnlyOnHidden
  <2> SUFFICES ASSUME NEW s \in Session, Quiet(s), synced[s], ~ missed[s],
                      NEW c \in DOMAIN view[s].chores,
                      \A d \in view[s].chores[c].depends_on \cup {c} : InOrder("chores", d),
                      \A e \in view[s].chores[c].depends_on_events : InOrder("events", e)
               PROVE  LET mine == view[s].chores
                          r == mine[c]
                          hidden == {d \in DOMAIN chores \ DOMAIN mine :
                                       ~ Store!VisibleTo(chores[d], UserOf[s])}
                      IN /\ c \in DOMAIN chores
                         /\ Store!IsBlocked(r, mine, view[s].events) <=>
                              \/ Store!IsBlocked(chores[c], chores, events)
                              \/ chores[c].depends_on \cap hidden # {}
    BY DEF BadgeErrsOnlyOnHidden
  <2> DEFINE mine == view[s].chores
             r == mine[c]
             told == view[s].events
             hidden == {d \in DOMAIN chores \ DOMAIN mine :
                          ~ Store!VisibleTo(chores[d], UserOf[s])}
  <2>1. /\ c \in ChoreId /\ r \in Store!Chore
        /\ \A d \in DOMAIN mine : mine[d] # Gone
        /\ \A e \in DOMAIN told : told[e] # Gone
        /\ \A d \in DOMAIN chores : chores[d] # Gone
        /\ \A e \in DOMAIN events : events[e] # Gone
    BY <1>1, GoneAssumption DEF TypeOK, Store!TypeOK
  <2>2. r.depends_on \subseteq ChoreId /\ r.depends_on_events \subseteq EventId
    BY <2>1 DEF Store!Chore
  <2>3. \A d \in r.depends_on \cup {c} : Mirrors(s, "chores", d)
    BY <1>1, <2>1, <2>2 DEF ReplicaMirrorsStore, Table, Ids
  <2>4. \A e \in r.depends_on_events : Mirrors(s, "events", e)
    BY <1>1, <2>2 DEF ReplicaMirrorsStore, Table, Ids
  <2> HIDE DEF mine, r, told, hidden
  <2>5. /\ \A d : Entry(Db, "chores", d) = IF d \in DOMAIN chores THEN chores[d] ELSE Gone
        /\ \A e : Entry(Db, "events", e) = IF e \in DOMAIN events THEN events[e] ELSE Gone
        /\ \A d : Entry(view[s], "chores", d) = IF d \in DOMAIN mine THEN mine[d] ELSE Gone
        /\ \A e : Entry(view[s], "events", e) = IF e \in DOMAIN told THEN told[e] ELSE Gone
    BY DEF Entry, Db, mine, told
  <2>6. \A d \in r.depends_on \cup {c} :
          \/ d \in DOMAIN mine /\ d \in DOMAIN chores /\ mine[d] = chores[d]
          \/ d \notin DOMAIN mine /\ d \notin DOMAIN chores
          \/ d \in hidden
    BY <2>1, <2>3, <2>5 DEF Mirrors, hidden
  <2>7. \A e \in r.depends_on_events :
          \/ e \in DOMAIN told /\ e \in DOMAIN events /\ told[e] = events[e]
          \/ e \notin DOMAIN told /\ e \notin DOMAIN events
    BY <2>1, <2>4, <2>5 DEF Mirrors
  <2>8. c \in DOMAIN mine /\ hidden \cap DOMAIN mine = {} /\ r = mine[c]
    BY DEF mine, hidden, r
  <2>9. c \in DOMAIN chores /\ r = chores[c]
    BY <2>6, <2>8
  <2>10. r.depends_on \subseteq Store!CompletedChores(mine) <=>
           r.depends_on \subseteq Store!CompletedChores(chores) /\ r.depends_on \cap hidden = {}
    BY <2>6, <2>8 DEF Store!CompletedChores
  <2>11. r.depends_on_events \subseteq Store!TriggeredEvents(told) <=>
           r.depends_on_events \subseteq Store!TriggeredEvents(events)
    BY <2>7 DEF Store!TriggeredEvents
  <2>12. Store!IsBlocked(r, mine, told) <=>
           Store!IsBlocked(chores[c], chores, events) \/ chores[c].depends_on \cap hidden # {}
    BY <2>9, <2>10, <2>11 DEF Store!IsBlocked
  <2> QED BY <2>9, <2>12 DEF mine, r, told, hidden
<1> QED BY <1>1, TypeCorrect, QuietReplicasMirror, PTL
=============================================================================
