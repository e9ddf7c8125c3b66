--------------------------- MODULE ChoreStoreProofs ---------------------------
(***************************************************************************)
(* Theorems about ChoreStore, for every set of users, ids and forms and    *)
(* every bound.                                                            *)
(***************************************************************************)
EXTENDS ChoreStore, TLAPS, FiniteSetTheorems, WellFoundedInduction

-----------------------------------------------------------------------------
(* Lemmas about the tables.                                                *)

\* The only effect of complete_chore on the table: one completion appended to
\* one chore; its dependencies and permissions and all other chores stay.
LEMMA CompleteFacts ==
  ASSUME TypeOK, NEW u \in User, NEW c \in ChoreId, CompleteChore(u, c)
  PROVE  /\ c \in Live /\ Live' = Live
         /\ chores'[c] \in Chore
         /\ chores'[c].depends_on = chores[c].depends_on
         /\ chores'[c].depends_on_events = chores[c].depends_on_events
         /\ chores'[c].kind = chores[c].kind
         /\ chores'[c].visible_to = chores[c].visible_to
         /\ chores'[c].completions = Append(chores[c].completions, [by |-> u, at |-> clock])
         /\ \A d \in Live \ {c} : chores'[d] = chores[d]
<1>1. c \in Live /\ chores[c] \in Chore
  BY DEF CompleteChore, MayComplete, Live, TypeOK
<1>2. [by |-> u, at |-> clock] \in Completion
  BY BoundAssumption DEF TypeOK, Completion
<1>3. chores' = [chores EXCEPT ![c].completions = Append(@, [by |-> u, at |-> clock])]
  BY DEF CompleteChore
<1>4. Append(chores[c].completions, [by |-> u, at |-> clock]) \in Seq(Completion)
  BY <1>1, <1>2 DEF Chore
<1>5. chores'[c] = [chores[c] EXCEPT !.completions = Append(@, [by |-> u, at |-> clock])]
  BY <1>1, <1>3 DEF Live
<1>6. Live' = Live /\ \A d \in Live \ {c} : chores'[d] = chores[d]
  BY <1>3 DEF Live
<1>7. chores'[c] \in Chore
  BY <1>1, <1>4, <1>5 DEF Chore
<1> QED BY <1>1, <1>5, <1>6, <1>7 DEF Chore

-----------------------------------------------------------------------------
(* Type correctness.                                                       *)

LEMMA InitTypeOK == Init => TypeOK
BY BoundAssumption DEF Init, TypeOK, Issued

LEMMA NextTypeOK == TypeOK /\ [Next]_vars => TypeOK'
<1> SUFFICES ASSUME TypeOK, [Next]_vars PROVE TypeOK'
  OBVIOUS
<1> USE DEF Issued
<1>1. ASSUME NEW u \in User, NEW c \in ChoreId, NEW form \in Form,
             NEW deps \in SUBSET ChoreId, NEW evs \in SUBSET EventId,
             AddChore(u, c, form, deps, evs)
      PROVE  TypeOK'
  <2> DEFINE r == NewChore(u, form, deps, evs)
  <2>1. r \in Chore
    BY FormAssumption DEF NewChore, Chore, ChoreForm
  <2>2. chores' = Insert(chores, c, r)
    BY <1>1 DEF AddChore
  <2> HIDE DEF r
  <2>3. /\ DOMAIN chores' = DOMAIN chores \cup {c}
        /\ chores'[c] = r
        /\ \A d \in DOMAIN chores \ {c} : chores'[d] = chores[d]
    BY <2>2 DEF Insert
  <2>6. \A d \in DOMAIN chores' : chores'[d] \in Chore
    BY <2>1, <2>3 DEF TypeOK
  <2>4. Cardinality(Issued) \in Nat
    BY PoolAssumption, FS_Subset, FS_CardinalityType DEF Issued
  <2>5. /\ born' \in [ChoreId -> Nat]
        /\ DOMAIN chores' \subseteq Issued'
    <3>1. born' = [born EXCEPT ![c] = Cardinality(Issued) + 1]
      BY <1>1 DEF AddChore
    <3> QED BY <2>3, <2>4, <3>1 DEF TypeOK
  <2> QED BY <1>1, <2>5, <2>6 DEF AddChore, TypeOK
<1>2. ASSUME NEW u \in User, NEW c \in ChoreId, CompleteChore(u, c)
      PROVE  TypeOK'
  <2>1. \A d \in DOMAIN chores' : chores'[d] \in Chore
    BY <1>2, CompleteFacts DEF Live, TypeOK
  <2>2. DOMAIN chores' = DOMAIN chores
    BY <1>2, CompleteFacts DEF Live
  <2> QED BY <1>2, <2>1, <2>2 DEF CompleteChore, TypeOK
<1>3. ASSUME NEW u \in User, NEW c \in ChoreId, DeleteChore(u, c)
      PROVE  TypeOK'
  <2>1. chores' = Remove(chores, c)
    BY <1>3 DEF DeleteChore
  <2>2. /\ DOMAIN chores' = DOMAIN chores \ {c}
        /\ \A d \in DOMAIN chores \ {c} : chores'[d] = chores[d]
    BY <2>1 DEF Remove
  <2> QED BY <1>3, <2>2 DEF DeleteChore, TypeOK
<1>4. ASSUME NEW u \in User, NEW e \in EventId, AddEvent(u, e)
      PROVE  TypeOK'
  <2>1. [created_by |-> u, triggered_by |-> Nobody] \in ExternalEvent
    BY DEF ExternalEvent
  <2>2. events' = Insert(events, e, [created_by |-> u, triggered_by |-> Nobody])
    BY <1>4 DEF AddEvent
  <2>3. /\ DOMAIN events' = DOMAIN events \cup {e}
        /\ events'[e] \in ExternalEvent
        /\ \A f \in DOMAIN events \ {e} : events'[f] = events[f]
    BY <2>1, <2>2 DEF Insert
  <2>4. \A f \in DOMAIN events' : events'[f] \in ExternalEvent
    BY <2>3 DEF TypeOK
  <2> QED BY <1>4, <2>3, <2>4 DEF AddEvent, TypeOK
<1>5. ASSUME NEW u \in User, NEW e \in EventId, TriggerEvent(u, e)
      PROVE  TypeOK'
  BY <1>5 DEF TriggerEvent, TypeOK, ExternalEvent
<1>6. ASSUME NEW u \in User, NEW e \in EventId, DeleteEvent(u, e)
      PROVE  TypeOK'
  <2>1. events' = Remove(events, e)
    BY <1>6 DEF DeleteEvent
  <2>2. /\ DOMAIN events' = DOMAIN events \ {e}
        /\ \A f \in DOMAIN events \ {e} : events'[f] = events[f]
    BY <2>1 DEF Remove
  <2> QED BY <1>6, <2>2 DEF DeleteEvent, TypeOK
<1>7. CASE Tick
  BY <1>7, BoundAssumption DEF Tick, TypeOK
<1>8. CASE UNCHANGED vars
  BY <1>8 DEF vars, TypeOK
<1>9. ASSUME NEW u \in User, Refuse(u) PROVE TypeOK'
  BY <1>8, <1>9 DEF Refuse
<1> QED BY <1>1, <1>2, <1>3, <1>4, <1>5, <1>6, <1>7, <1>8, <1>9 DEF Next

\* Type correctness: the tables only ever hold values of the declared types
\* under ids that were issued.
THEOREM TypeCorrect == Spec => []TypeOK
BY InitTypeOK, NextTypeOK, PTL DEF Spec

-----------------------------------------------------------------------------
(* Chores never wait for each other in a ring.  NoCircularWait is not       *)
(* inductive: it does not say why a new chore cannot close a ring.  The     *)
(* reason is the order of issue: a client can only name ids that exist, so  *)
(* a chore depends on older chores only.                                    *)

\* The number of ids issued so far is a natural number.
LEMMA IssuedCount == Cardinality(Issued) \in Nat /\ IsFiniteSet(Issued)
BY PoolAssumption, FS_Subset, FS_CardinalityType DEF Issued

\* Every nonempty set of issued chores has an oldest one.
LEMMA OldestExists ==
  ASSUME TypeOK, NEW S \in SUBSET ChoreId, S # {}
  PROVE  \E c \in S : \A d \in S : ~ (born[d] < born[c])
<1> DEFINE N == {born[c] : c \in S}
<1>1. N \subseteq Nat /\ N # {}
  BY DEF TypeOK
<1>2. PICK n \in N : \A m \in N : ~ (<<m, n>> \in OpToRel(<, Nat))
  <2> HIDE DEF N
  <2> QED BY <1>1, NatLessThanWellFounded, WFMin
<1>3. \A m \in N : ~ (m < n)
  BY <1>1, <1>2 DEF OpToRel
<1> QED BY <1>3

LEMMA BirthOrderIsEnough == TypeOK /\ BirthOrder => NoCircularWait
<1> SUFFICES ASSUME TypeOK, BirthOrder, NEW S \in SUBSET Live, S # {}
             PROVE  \E c \in S : chores[c].depends_on \cap S = {}
  BY DEF NoCircularWait
<1>1. S \in SUBSET ChoreId
  BY DEF TypeOK, Live, Issued
<1>2. PICK c \in S : \A d \in S : ~ (born[d] < born[c])
  BY <1>1, OldestExists
<1>3. chores[c].depends_on \cap S = {}
  BY <1>2 DEF BirthOrder
<1> QED BY <1>3

\* A step that issues no id, adds no chore and changes no dependency keeps
\* the order.
LEMMA BirthOrderKept ==
  ASSUME BirthOrder, UNCHANGED born, Live' \subseteq Live,
         \A d \in Live' : chores'[d].depends_on = chores[d].depends_on
  PROVE  BirthOrder'
BY DEF BirthOrder, Issued

LEMMA NextBirthOrder == TypeOK /\ BirthOrder /\ [Next]_vars => BirthOrder'
<1> SUFFICES ASSUME TypeOK, BirthOrder, [Next]_vars PROVE BirthOrder'
  OBVIOUS
<1>1. ASSUME NEW u \in User, NEW c \in ChoreId, NEW form \in Form,
             NEW deps \in SUBSET ChoreId, NEW evs \in SUBSET EventId,
             AddChore(u, c, form, deps, evs)
      PROVE  BirthOrder'
  <2>1. /\ DOMAIN chores' = DOMAIN chores \cup {c}
        /\ chores'[c].depends_on = deps
        /\ \A d \in DOMAIN chores \ {c} : chores'[d] = chores[d]
    BY <1>1 DEF AddChore, Insert, NewChore
  <2>2. c \notin Issued /\ deps \subseteq Issued
    BY <1>1 DEF AddChore
  <2>3. born' = [born EXCEPT ![c] = Cardinality(Issued) + 1]
    BY <1>1 DEF AddChore
  <2>4. born'[c] = Cardinality(Issued) + 1 /\ \A d \in ChoreId \ {c} : born'[d] = born[d]
    BY <2>3 DEF TypeOK
  <2>5. Issued' = Issued \cup {c}
    BY <2>4, IssuedCount DEF Issued
  <2>6. Cardinality(Issued') = Cardinality(Issued) + 1
    BY <2>2, <2>5, IssuedCount, FS_AddElement
  <2>7. \A d \in Issued : d \in ChoreId /\ d # c /\ born[d] \in Nat
    BY <2>2 DEF Issued, TypeOK
  <2>8. \A d \in Issued' : born'[d] <= Cardinality(Issued')
    BY <2>4, <2>5, <2>6, <2>7, IssuedCount DEF BirthOrder
  <2>9. \A d \in deps : d \in Issued' /\ born'[d] < born'[c]
    BY <2>2, <2>4, <2>5, <2>7, IssuedCount DEF BirthOrder
  <2>10. ASSUME NEW b \in Live, b # c, NEW d \in chores[b].depends_on
         PROVE  d \in Issued' /\ born'[d] < born'[b]
    BY <2>4, <2>5, <2>7, <2>10 DEF BirthOrder, Live, TypeOK
  <2>11. \A b \in Live' : \A d \in chores'[b].depends_on : d \in Issued' /\ born'[d] < born'[b]
    BY <2>1, <2>9, <2>10 DEF Live
  <2> QED BY <2>8, <2>11 DEF BirthOrder
<1>2. ASSUME NEW u \in User, NEW c \in ChoreId, CompleteChore(u, c)
      PROVE  BirthOrder'
  <2>1. Live' = Live /\ \A d \in Live' : chores'[d].depends_on = chores[d].depends_on
    BY <1>2, CompleteFacts
  <2> QED BY <1>2, <2>1, BirthOrderKept DEF CompleteChore
<1>3. ASSUME NEW u \in User, NEW c \in ChoreId, DeleteChore(u, c)
      PROVE  BirthOrder'
  <2>1. Live' \subseteq Live /\ \A d \in Live' : chores'[d] = chores[d]
    BY <1>3 DEF DeleteChore, Remove, Live
  <2> QED BY <1>3, <2>1, BirthOrderKept DEF DeleteChore
<1>4. CASE UNCHANGED <<chores, born>>
  BY <1>4, BirthOrderKept DEF Live
<1> QED BY <1>1, <1>2, <1>3, <1>4
        DEF Next, AddEvent, TriggerEvent, DeleteEvent, Refuse, Tick, vars

\* No ring of chores waiting for each other can ever come about.
THEOREM NoRing == Spec => []NoCircularWait
<1>1. Init => BirthOrder
  BY DEF Init, BirthOrder, Live, Issued
<1>2. TypeOK /\ BirthOrder /\ [Next]_vars => (TypeOK /\ BirthOrder)'
  BY NextTypeOK, NextBirthOrder
<1> QED BY <1>1, <1>2, InitTypeOK, BirthOrderIsEnough, PTL DEF Spec

-----------------------------------------------------------------------------
(* What one step does to one chore and to one event.                        *)

\* A chore that is there before and after a step keeps its kind and its
\* dependencies; it is unchanged, or it was not blocked and one completion,
\* at the time of the step, was appended to its history.
LEMMA StepOnChore ==
  ASSUME TypeOK, [Next]_vars, NEW c \in Live, c \in Live'
  PROVE  /\ chores'[c].kind = chores[c].kind
         /\ chores'[c].visible_to = chores[c].visible_to
         /\ chores'[c].depends_on = chores[c].depends_on
         /\ chores'[c].depends_on_events = chores[c].depends_on_events
         /\ \/ chores'[c] = chores[c]
            \/ /\ ~ IsBlocked(chores[c], chores, events)
               /\ clock' = clock
               /\ \E u \in User : chores'[c].completions =
                    Append(chores[c].completions, [by |-> u, at |-> clock])
<1>0. c \in Issued
  BY DEF TypeOK, Live
<1>1. ASSUME NEW u \in User, NEW b \in ChoreId, NEW form \in Form,
             NEW deps \in SUBSET ChoreId, NEW evs \in SUBSET EventId,
             AddChore(u, b, form, deps, evs)
      PROVE  chores'[c] = chores[c]
  <2>1. b # c
    BY <1>0, <1>1 DEF AddChore
  <2> QED BY <1>1, <2>1 DEF AddChore, Insert, Live
<1>2. ASSUME NEW u \in User, NEW b \in ChoreId, CompleteChore(u, b), b # c
      PROVE  chores'[c] = chores[c]
  BY <1>2, CompleteFacts
<1>3. ASSUME NEW u \in User, CompleteChore(u, c)
      PROVE  /\ chores'[c].kind = chores[c].kind
             /\ chores'[c].visible_to = chores[c].visible_to
             /\ chores'[c].depends_on = chores[c].depends_on
             /\ chores'[c].depends_on_events = chores[c].depends_on_events
             /\ ~ IsBlocked(chores[c], chores, events)
             /\ clock' = clock
             /\ chores'[c].completions =
                  Append(chores[c].completions, [by |-> u, at |-> clock])
  <2>1. c \in ChoreId
    BY <1>0 DEF Issued
  <2> QED BY <1>3, <2>1, CompleteFacts DEF CompleteChore, MayComplete
<1>4. ASSUME NEW u \in User, NEW b \in ChoreId, DeleteChore(u, b)
      PROVE  chores'[c] = chores[c]
  BY <1>4 DEF DeleteChore, Remove, Live
<1>5. CASE UNCHANGED chores
  BY <1>5
<1> QED BY <1>1, <1>2, <1>3, <1>4, <1>5
        DEF Next, AddEvent, TriggerEvent, DeleteEvent, Refuse, Tick, vars

\* Only new ids enter a table, a triggered event stays triggered as long as
\* it is there, and time does not run backwards.
LEMMA StepOnTables ==
  ASSUME TypeOK, [Next]_vars
  PROVE  /\ Live' \cap Issued \subseteq Live
         /\ DOMAIN events' \cap issuedEvents \subseteq DOMAIN events
         /\ TriggeredEvents(events) \cap DOMAIN events' \subseteq TriggeredEvents(events')
         /\ clock \in Nat /\ clock' \in Nat /\ clock <= clock'
<1>0. clock \in Nat
  BY BoundAssumption DEF TypeOK
<1> DEFINE ChorePart == Live' \cap Issued \subseteq Live
<1> DEFINE EventPart == /\ DOMAIN events' \cap issuedEvents \subseteq DOMAIN events
                        /\ TriggeredEvents(events) \cap DOMAIN events' \subseteq TriggeredEvents(events')
<1>1. ASSUME NEW u \in User, NEW b \in ChoreId, NEW form \in Form,
             NEW deps \in SUBSET ChoreId, NEW evs \in SUBSET EventId,
             AddChore(u, b, form, deps, evs)
      PROVE  ChorePart
  BY <1>1 DEF AddChore, Insert, NewChore, Live
<1>2. ASSUME NEW u \in User, NEW b \in ChoreId, CompleteChore(u, b)
      PROVE  ChorePart
  BY <1>2, CompleteFacts
<1>3. ASSUME NEW u \in User, NEW b \in ChoreId, DeleteChore(u, b)
      PROVE  ChorePart
  BY <1>3 DEF DeleteChore, Remove, Live
<1>4. ASSUME NEW u \in User, NEW e \in EventId, AddEvent(u, e)
      PROVE  EventPart
  <2>1. /\ DOMAIN events' = DOMAIN events \cup {e}
        /\ \A f \in DOMAIN events \ {e} : events'[f] = events[f]
    BY <1>4 DEF AddEvent, Insert
  <2>2. e \notin issuedEvents /\ DOMAIN events \subseteq issuedEvents
    BY <1>4 DEF AddEvent, TypeOK
  <2> QED BY <2>1, <2>2 DEF TriggeredEvents
<1>5. ASSUME NEW u \in User, NEW e \in EventId, TriggerEvent(u, e)
      PROVE  EventPart
  <2>1. events' = [events EXCEPT ![e].triggered_by = u] /\ e \in DOMAIN events
    BY <1>5 DEF TriggerEvent
  <2>2. /\ DOMAIN events' = DOMAIN events
        /\ \A f \in DOMAIN events \ {e} : events'[f] = events[f]
    BY <2>1
  <2>3. events'[e].triggered_by = u
    BY <2>1 DEF TypeOK, ExternalEvent
  <2>4. u # Nobody
    BY NobodyAssumption
  <2> QED BY <2>2, <2>3, <2>4 DEF TriggeredEvents
<1>6. ASSUME NEW u \in User, NEW e \in EventId, DeleteEvent(u, e)
      PROVE  EventPart
  BY <1>6 DEF DeleteEvent, Remove, TriggeredEvents
<1>7. UNCHANGED chores => ChorePart
  BY DEF Live
<1>8. UNCHANGED events => EventPart
  BY DEF TriggeredEvents
<1>9. clock' = clock \/ clock' = clock + 1
  BY DEF Next, AddChore, CompleteChore, DeleteChore, AddEvent, TriggerEvent, DeleteEvent,
         Refuse, Tick, vars
<1>10. ChorePart
  BY <1>1, <1>2, <1>3, <1>7
     DEF Next, AddEvent, TriggerEvent, DeleteEvent, Refuse, Tick, vars
<1>11. EventPart
  BY <1>4, <1>5, <1>6, <1>8
     DEF Next, AddChore, CompleteChore, DeleteChore, Refuse, Tick, vars
<1> QED BY <1>0, <1>9, <1>10, <1>11

\* A completion is never taken back.
LEMMA DoneStaysDone ==
  ASSUME TypeOK, [Next]_vars, NEW c \in Live, c \in Live', Done(chores[c])
  PROVE  Done(chores'[c])
<1>1. chores[c].completions \in Seq(Completion)
  BY DEF TypeOK, Live, Chore
<1>2. \/ chores'[c] = chores[c]
      \/ \E u \in User : chores'[c].completions =
           Append(chores[c].completions, [by |-> u, at |-> clock])
  BY StepOnChore
<1>3. CASE chores'[c] = chores[c]
  BY <1>3
<1>4. ASSUME NEW u \in User,
             chores'[c].completions = Append(chores[c].completions, [by |-> u, at |-> clock])
      PROVE  Done(chores'[c])
  BY <1>1, <1>4 DEF Done
<1> QED BY <1>2, <1>3, <1>4

\* Whatever the tables the server starts with, a step blocks a chore again
\* only by deleting something it depends on.
LEMMA ReblockedFromAnyTables == TypeOK /\ [][Next]_vars => OnlyDeletionReblocks
<1> DEFINE Step ==
      \A c \in Live \cap Live' :
        (~ IsBlocked(chores[c], chores, events) /\ IsBlocked(chores[c], chores, events)')
          => \/ chores[c].depends_on \cap (Live \ Live') # {}
             \/ chores[c].depends_on_events \cap (DOMAIN events \ DOMAIN events') # {}
<1>1. ASSUME TypeOK, [Next]_vars, NEW c \in Live \cap Live',
             ~ IsBlocked(chores[c], chores, events),
             chores[c].depends_on \subseteq Live',
             chores[c].depends_on_events \subseteq DOMAIN events'
      PROVE  ~ IsBlocked(chores'[c], chores', events')
  <2>1. \A d \in chores[c].depends_on : d \in Live /\ d \in Live' /\ Done(chores[d])
    BY <1>1 DEF IsBlocked, CompletedChores, Live
  <2>2. \A d \in chores[c].depends_on : Done(chores'[d])
    BY <1>1, <2>1, DoneStaysDone
  <2>3. chores[c].depends_on \subseteq CompletedChores(chores')
    BY <2>1, <2>2 DEF CompletedChores, Live
  <2>4. chores[c].depends_on_events \subseteq TriggeredEvents(events')
    BY <1>1, StepOnTables DEF IsBlocked
  <2>5. /\ chores'[c].depends_on = chores[c].depends_on
        /\ chores'[c].depends_on_events = chores[c].depends_on_events
    BY <1>1, StepOnChore
  <2> QED BY <2>3, <2>4, <2>5 DEF IsBlocked
<1>2. TypeOK /\ [Next]_vars => Step
  <2> SUFFICES ASSUME TypeOK, [Next]_vars, NEW c \in Live \cap Live',
                      ~ IsBlocked(chores[c], chores, events),
                      IsBlocked(chores'[c], chores', events')
               PROVE  \/ chores[c].depends_on \cap (Live \ Live') # {}
                      \/ chores[c].depends_on_events \cap (DOMAIN events \ DOMAIN events') # {}
    OBVIOUS
  <2>1. \/ ~ (chores[c].depends_on \subseteq Live')
        \/ ~ (chores[c].depends_on_events \subseteq DOMAIN events')
    BY <1>1
  <2>2. /\ chores[c].depends_on \subseteq Live
        /\ chores[c].depends_on_events \subseteq DOMAIN events
    BY DEF IsBlocked, CompletedChores, TriggeredEvents, Live
  <2> QED BY <2>1, <2>2
<1>3. TypeOK /\ [Next]_vars => [Step]_vars
  BY <1>2
<1> QED BY <1>3, NextTypeOK, PTL DEF OnlyDeletionReblocks

\* A step blocks a chore again only by deleting something it depends on.
THEOREM ReblockedByDeletionOnly == Spec => OnlyDeletionReblocks
BY InitTypeOK, ReblockedFromAnyTables, PTL DEF Spec

-----------------------------------------------------------------------------
(* What a deletion leaves behind.  That ids are never reused helps only    *)
(* because a chore names issued ids: an id issued later cannot be one that *)
(* a chore already waits for.                                              *)

LEMMA InitNamesIssued == Init => NamesIssued
BY DEF Init, NamesIssued, Live

LEMMA NextNamesIssued == TypeOK /\ NamesIssued /\ [Next]_vars => NamesIssued'
<1> SUFFICES ASSUME TypeOK, NamesIssued, [Next]_vars PROVE NamesIssued'
  OBVIOUS
<1>1. ASSUME NEW u \in User, NEW b \in ChoreId, NEW form \in Form,
             NEW deps \in SUBSET ChoreId, NEW evs \in SUBSET EventId,
             AddChore(u, b, form, deps, evs)
      PROVE  /\ Issued \subseteq Issued' /\ issuedEvents \subseteq issuedEvents'
             /\ \A c \in Live' \ Live : /\ chores'[c].depends_on \subseteq Issued
                                        /\ chores'[c].depends_on_events \subseteq issuedEvents
  <2>1. /\ Live' = Live \cup {b}
        /\ chores'[b].depends_on = deps /\ chores'[b].depends_on_events = evs
    BY <1>1 DEF AddChore, Insert, NewChore, Live
  <2>2. deps \subseteq Issued /\ evs \subseteq issuedEvents /\ UNCHANGED issuedEvents
    BY <1>1 DEF AddChore
  <2>3. Issued \subseteq Issued'
    <3>1. born' = [born EXCEPT ![b] = Cardinality(Issued) + 1] /\ b \notin Issued
      BY <1>1 DEF AddChore
    <3> QED BY <3>1 DEF Issued, TypeOK
  <2> QED BY <2>1, <2>2, <2>3
<1>2. ASSUME NEW u \in User, NEW b \in ChoreId, CompleteChore(u, b)
      PROVE  Live' = Live
  BY <1>2, CompleteFacts
<1>3. ASSUME NEW u \in User, NEW b \in ChoreId, DeleteChore(u, b)
      PROVE  Live' \subseteq Live
  BY <1>3 DEF DeleteChore, Remove, Live
<1>4. ASSUME UNCHANGED born, issuedEvents \subseteq issuedEvents', Live' \subseteq Live
      PROVE  /\ Issued \subseteq Issued' /\ issuedEvents \subseteq issuedEvents'
             /\ \A c \in Live' \ Live : /\ chores'[c].depends_on \subseteq Issued
                                        /\ chores'[c].depends_on_events \subseteq issuedEvents
  BY <1>4 DEF Issued
<1>5. /\ Issued \subseteq Issued' /\ issuedEvents \subseteq issuedEvents'
      /\ \A c \in Live' \ Live : /\ chores'[c].depends_on \subseteq Issued
                                 /\ chores'[c].depends_on_events \subseteq issuedEvents
  <2>1. CASE UNCHANGED <<chores, born>> /\ issuedEvents \subseteq issuedEvents'
    BY <1>4, <2>1 DEF Live
  <2>2. ASSUME NEW u \in User, NEW b \in ChoreId, CompleteChore(u, b) \/ DeleteChore(u, b)
        PROVE  Live' \subseteq Live /\ UNCHANGED <<born, issuedEvents>>
    BY <1>2, <1>3, <2>2 DEF CompleteChore, DeleteChore
  <2> QED BY <1>1, <1>4, <2>1, <2>2
          DEF Next, AddEvent, TriggerEvent, DeleteEvent, Refuse, Tick, vars
<1>6. \A c \in Live \cap Live' : /\ chores'[c].depends_on = chores[c].depends_on
                                 /\ chores'[c].depends_on_events = chores[c].depends_on_events
  BY StepOnChore
<1> QED BY <1>5, <1>6 DEF NamesIssued

\* Whatever the tables the server starts with, a chore that names something
\* deleted is blocked and stays as it is.
LEMMA FrozenFromAnyTables ==
  TypeOK /\ NamesIssued /\ [][Next]_vars => DeletedDependencyFreezes
<1> DEFINE Step == \A c \in Live \cap Live' : Dangling(c) =>
                     /\ IsBlocked(chores[c], chores, events)'
                     /\ Dangling(c)'
                     /\ chores'[c].completions = chores[c].completions
<1>1. ASSUME TypeOK, NamesIssued, [Next]_vars, NEW c \in Live, c \in Live', Dangling(c)
      PROVE  /\ IsBlocked(chores'[c], chores', events')
             /\ Dangling(c)'
             /\ chores'[c].completions = chores[c].completions
  <2>1. IsBlocked(chores[c], chores, events)
    BY <1>1 DEF Dangling, IsBlocked, CompletedChores, TriggeredEvents, Live
  <2>2. chores'[c] = chores[c]
    BY <1>1, <2>1, StepOnChore
  <2>3. \/ ~ (chores[c].depends_on \subseteq Live')
        \/ ~ (chores[c].depends_on_events \subseteq DOMAIN events')
    BY <1>1, StepOnTables DEF Dangling, NamesIssued
  <2>4. Dangling(c)'
    BY <2>2, <2>3 DEF Dangling
  <2>5. IsBlocked(chores'[c], chores', events')
    BY <2>2, <2>3 DEF IsBlocked, CompletedChores, TriggeredEvents, Live
  <2> QED BY <2>2, <2>4, <2>5
<1>2. TypeOK /\ NamesIssued /\ [Next]_vars => [Step]_vars
  BY <1>1
<1>3. TypeOK /\ NamesIssued /\ [Next]_vars => (TypeOK /\ NamesIssued)'
  BY NextTypeOK, NextNamesIssued
<1> QED BY <1>2, <1>3, PTL DEF DeletedDependencyFreezes

\* A chore that names something deleted is blocked and stays as it is for as
\* long as it is there.
THEOREM DanglingIsForever == Spec => DeletedDependencyFreezes
BY InitTypeOK, InitNamesIssued, FrozenFromAnyTables, PTL DEF Spec

-----------------------------------------------------------------------------
(* Due dates.                                                              *)

\* next_due is None exactly for a one-off chore that is done and for a
\* deadline that has passed.
LEMMA NoDueMeans ==
  ASSUME NEW r \in Chore, NEW now \in Nat
  PROVE  NextDue(r, now) = None <=>
           \/ r.kind.tag = "OneTime" /\ Done(r)
           \/ r.kind.tag = "WithDeadline" /\ (Done(r) \/ r.kind.secs <= now)
<1>1. r.kind.tag \in KindTag /\ r.kind.secs \in Nat
  BY WidthAssumption DEF Chore, ChoreKind
<1>2. \A t : Some(t) # None
  BY DEF Some, None
<1> QED BY <1>1, <1>2 DEF NextDue, KindTag

\* A one-off chore that has left the pending list never returns to it.
THEOREM GoneForGood == Spec => OneOffLeavesForGood
<1> DEFINE Step == \A c \in Live \cap Live' :
                     NextDue(chores[c], clock) = None => NextDue(chores'[c], clock') = None
<1>1. ASSUME TypeOK, TypeOK', [Next]_vars, NEW c \in Live, c \in Live',
             NextDue(chores[c], clock) = None
      PROVE  NextDue(chores'[c], clock') = None
  <2>1. chores[c] \in Chore /\ chores'[c] \in Chore
    BY <1>1 DEF TypeOK, Live
  <2>2. clock \in Nat /\ clock' \in Nat /\ clock <= clock'
    BY <1>1, StepOnTables
  <2>3. chores'[c].kind = chores[c].kind
    BY <1>1, StepOnChore
  <2>4. Done(chores[c]) => Done(chores'[c])
    BY <1>1, DoneStaysDone
  <2>5. chores[c].kind.secs \in Nat
    BY <2>1, WidthAssumption DEF Chore, ChoreKind
  <2>6. \/ chores[c].kind.tag = "OneTime" /\ Done(chores[c])
        \/ chores[c].kind.tag = "WithDeadline" /\ (Done(chores[c]) \/ chores[c].kind.secs <= clock)
    BY <1>1, <2>1, <2>2, NoDueMeans
  <2>7. \/ chores'[c].kind.tag = "OneTime" /\ Done(chores'[c])
        \/ chores'[c].kind.tag = "WithDeadline" /\ (Done(chores'[c]) \/ chores'[c].kind.secs <= clock')
    BY <2>2, <2>3, <2>4, <2>5, <2>6
  <2> QED BY <2>1, <2>2, <2>7, NoDueMeans
<1>2. TypeOK /\ TypeOK' /\ [Next]_vars => [Step]_vars
  BY <1>1
<1> QED BY <1>2, TypeCorrect, PTL DEF Spec, OneOffLeavesForGood

-----------------------------------------------------------------------------
(* The completion history.                                                 *)

\* A chore enters the table with an empty history.
LEMMA FreshIsUndone ==
  ASSUME TypeOK, [Next]_vars, NEW c \in Live', c \notin Live
  PROVE  ~ Done(chores'[c])
<1>1. ASSUME NEW u \in User, NEW b \in ChoreId, NEW form \in Form,
             NEW deps \in SUBSET ChoreId, NEW evs \in SUBSET EventId,
             AddChore(u, b, form, deps, evs)
      PROVE  ~ Done(chores'[c])
  BY <1>1 DEF AddChore, Insert, NewChore, Live, Done
<1>2. ASSUME NEW u \in User, NEW b \in ChoreId, CompleteChore(u, b)
      PROVE  FALSE
  BY <1>2, CompleteFacts
<1>3. ASSUME NEW u \in User, NEW b \in ChoreId, DeleteChore(u, b)
      PROVE  FALSE
  BY <1>3 DEF DeleteChore, Remove, Live
<1>4. CASE UNCHANGED chores
  BY <1>4 DEF Live
<1> QED BY <1>1, <1>2, <1>3, <1>4
        DEF Next, AddEvent, TriggerEvent, DeleteEvent, Refuse, Tick, vars

\* The shape of a history before and after a step, entry by entry.
LEMMA StepOnHistory ==
  ASSUME TypeOK, [Next]_vars, NEW c \in Live, c \in Live'
  PROVE  LET h == chores[c].completions
             k == chores'[c].completions
         IN  /\ Len(h) \in Nat /\ \A i \in 1..Len(h) : h[i].at \in Nat
             /\ Done(chores[c]) <=> Len(h) > 0
             /\ \/ k = h
                \/ /\ Len(k) = Len(h) + 1 /\ clock' = clock
                   /\ k[Len(k)].at = clock
                   /\ \A i \in 1..Len(h) : k[i] = h[i]
<1> DEFINE h == chores[c].completions
<1>1. h \in Seq(Completion)
  BY DEF TypeOK, Live, Chore
<1>2. \A i \in 1..Len(h) : h[i] \in Completion
  BY <1>1
<1>3. ASSUME NEW u \in User, clock' = clock,
             chores'[c].completions = Append(h, [by |-> u, at |-> clock])
      PROVE  LET k == chores'[c].completions
             IN  /\ Len(k) = Len(h) + 1 /\ clock' = clock
                 /\ k[Len(k)].at = clock
                 /\ \A i \in 1..Len(h) : k[i] = h[i]
  <2> DEFINE n == [by |-> u, at |-> clock]
  <2>1. n \in Completion /\ n.at = clock
    BY BoundAssumption DEF TypeOK, Completion
  <2> HIDE DEF n, h
  <2>2. /\ Len(Append(h, n)) = Len(h) + 1
        /\ Append(h, n)[Len(h) + 1] = n
        /\ \A i \in 1..Len(h) : Append(h, n)[i] = h[i]
    BY <1>1, <2>1
  <2> QED BY <1>3, <2>1, <2>2 DEF n
<1>4. \A i \in 1..Len(h) : h[i].at \in Nat
  BY <1>2 DEF Completion
<1>5. Done(chores[c]) <=> Len(h) > 0
  BY <1>1 DEF Done
<1>6. \/ chores'[c].completions = h
      \/ \E u \in User : /\ clock' = clock
                         /\ chores'[c].completions = Append(h, [by |-> u, at |-> clock])
  BY StepOnChore
<1>7. Len(h) \in Nat
  BY <1>1
<1> HIDE DEF h
<1> QED BY <1>3, <1>4, <1>5, <1>6, <1>7 DEF h

\* A completion is stamped with the present time, under the lock.
LEMMA NextHistory ==
  TypeOK /\ HistoryMostRecentLast /\ [Next]_vars => HistoryMostRecentLast'
<1> SUFFICES ASSUME TypeOK, HistoryMostRecentLast, [Next]_vars,
                    NEW c \in Live', Done(chores'[c])
             PROVE  LET k == chores'[c].completions IN
                      /\ \A i \in 1..Len(k) : k[i].at <= k[Len(k)].at
                      /\ k[Len(k)].at <= clock'
  BY DEF HistoryMostRecentLast, LastCompletion
<1>1. c \in Live
  BY FreshIsUndone
<1> DEFINE h == chores[c].completions
           k == chores'[c].completions
<1>2. /\ Len(h) \in Nat /\ \A i \in 1..Len(h) : h[i].at \in Nat
      /\ Done(chores[c]) <=> Len(h) > 0
      /\ \/ k = h
         \/ /\ Len(k) = Len(h) + 1 /\ clock' = clock
            /\ k[Len(k)].at = clock
            /\ \A i \in 1..Len(h) : k[i] = h[i]
  BY <1>1, StepOnHistory
<1>3. clock \in Nat /\ clock' \in Nat /\ clock <= clock'
  BY StepOnTables
<1>4. Done(chores[c]) => /\ \A i \in 1..Len(h) : h[i].at <= h[Len(h)].at
                         /\ h[Len(h)].at <= clock
  BY <1>1 DEF HistoryMostRecentLast, LastCompletion
<1>5. CASE k = h
  <2>1. Done(chores[c])
    BY <1>5 DEF Done
  <2> HIDE DEF h, k
  <2>2. Len(h) \in 1..Len(h)
    BY <1>2, <2>1
  <2> QED BY <1>2, <1>3, <1>4, <1>5, <2>1, <2>2 DEF k
<1>6. CASE /\ Len(k) = Len(h) + 1 /\ clock' = clock
           /\ k[Len(k)].at = clock
           /\ \A i \in 1..Len(h) : k[i] = h[i]
  <2> HIDE DEF h, k
  <2>1. \A i \in 1..Len(h) : k[i].at <= clock
    <3> SUFFICES ASSUME NEW i \in 1..Len(h) PROVE k[i].at <= clock
      OBVIOUS
    <3>1. Len(h) > 0 /\ Len(h) \in 1..Len(h)
      BY <1>2
    <3> QED BY <1>2, <1>3, <1>4, <1>6, <3>1
  <2>2. \A i \in 1..Len(k) : i = Len(k) \/ i \in 1..Len(h)
    BY <1>2, <1>6
  <2>3. \A i \in 1..Len(k) : k[i].at <= clock
    BY <1>3, <1>6, <2>1, <2>2
  <2> QED BY <1>3, <1>6, <2>3 DEF k
<1> QED BY <1>2, <1>5, <1>6

\* The last entry of a history is the latest, and it is not in the future.
THEOREM LastIsLatest == Spec => []HistoryMostRecentLast
<1>1. Init => HistoryMostRecentLast
  BY DEF Init, HistoryMostRecentLast, Live
<1>2. TypeOK /\ HistoryMostRecentLast /\ [Next]_vars => HistoryMostRecentLast'
  BY NextHistory
<1> QED BY <1>1, <1>2, TypeCorrect, PTL DEF Spec

\* The first completion of a chore never came before that of a chore it
\* depends on, nor before the events it depends on were triggered.  What was
\* deleted cannot come back to contradict this, because a chore names issued
\* ids only; a completion now is not earlier than any in the history.
LEMMA NextDependencies ==
  TypeOK /\ NamesIssued /\ HistoryMostRecentLast /\ DependenciesCameFirst /\ [Next]_vars
    => DependenciesCameFirst'
<1> SUFFICES ASSUME TypeOK, NamesIssued, HistoryMostRecentLast, DependenciesCameFirst,
                    [Next]_vars, NEW c \in Live', Done(chores'[c])
             PROVE  /\ \A d \in chores'[c].depends_on \cap Live' :
                         /\ Done(chores'[d])
                         /\ chores'[d].completions[1].at <= chores'[c].completions[1].at
                    /\ chores'[c].depends_on_events \cap DOMAIN events'
                         \subseteq TriggeredEvents(events')
  BY DEF DependenciesCameFirst
<1>1. c \in Live
  BY FreshIsUndone
<1>2. /\ chores'[c].depends_on = chores[c].depends_on
      /\ chores'[c].depends_on_events = chores[c].depends_on_events
  BY <1>1, StepOnChore
<1>3. \A d \in chores[c].depends_on \cap Live' : d \in Live
  BY <1>1, StepOnTables DEF NamesIssued
<1>4. chores[c].depends_on_events \cap DOMAIN events' \subseteq DOMAIN events
  BY <1>1, StepOnTables DEF NamesIssued
<1>5. ASSUME NEW d \in Live, d \in Live', Done(chores[d])
      PROVE  /\ Done(chores'[d])
             /\ chores'[d].completions[1] = chores[d].completions[1]
             /\ chores[d].completions[1].at \in Nat
             /\ chores[d].completions[1].at <= clock
  <2> DEFINE h == chores[d].completions
             k == chores'[d].completions
  <2>1. /\ Len(h) \in Nat /\ \A i \in 1..Len(h) : h[i].at \in Nat
        /\ Len(h) > 0
        /\ k = h \/ \A i \in 1..Len(h) : k[i] = h[i]
    BY <1>5, StepOnHistory
  <2>2. (\A i \in 1..Len(h) : h[i].at <= h[Len(h)].at) /\ h[Len(h)].at <= clock
    BY <1>5 DEF HistoryMostRecentLast, LastCompletion
  <2>3. clock \in Nat
    BY StepOnTables
  <2>4. Done(chores'[d])
    BY <1>5, DoneStaysDone
  <2> HIDE DEF h, k
  <2>5. 1 \in 1..Len(h) /\ Len(h) \in 1..Len(h)
    BY <2>1
  <2>6. k[1] = h[1] /\ h[1].at \in Nat /\ h[1].at <= clock
    BY <2>1, <2>2, <2>3, <2>5
  <2> QED BY <2>4, <2>6 DEF h, k
<1>6. CASE Done(chores[c])
  <2>1. /\ \A d \in chores[c].depends_on \cap Live :
             /\ Done(chores[d])
             /\ chores[d].completions[1].at <= chores[c].completions[1].at
        /\ chores[c].depends_on_events \cap DOMAIN events \subseteq TriggeredEvents(events)
    BY <1>1, <1>6 DEF DependenciesCameFirst
  <2>2. chores'[c].completions[1] = chores[c].completions[1]
    BY <1>1, <1>5, <1>6
  <2>3. \A d \in chores[c].depends_on \cap Live' :
          /\ Done(chores'[d])
          /\ chores'[d].completions[1].at <= chores'[c].completions[1].at
    BY <1>3, <1>5, <2>1, <2>2
  <2>4. chores[c].depends_on_events \cap DOMAIN events' \subseteq TriggeredEvents(events')
    BY <1>4, <2>1, StepOnTables
  <2> QED BY <1>2, <2>3, <2>4
<1>7. CASE ~ Done(chores[c])
  <2> DEFINE h == chores[c].completions
             k == chores'[c].completions
  <2>1. ~ IsBlocked(chores[c], chores, events)
    BY <1>1, <1>7, StepOnChore
  <2>2. k # h
    BY <1>7 DEF Done
  <2>3. Len(h) \in Nat /\ ~ (Len(h) > 0) /\ Len(k) = Len(h) + 1 /\ k[Len(k)].at = clock
    BY <1>1, <1>7, <2>2, StepOnHistory
  <2> HIDE DEF h, k
  <2>4. k[1].at = clock
    BY <2>3
  <2>5. \A d \in chores[c].depends_on : d \in Live /\ Done(chores[d])
    BY <2>1 DEF IsBlocked, CompletedChores, Live
  <2>6. \A d \in chores[c].depends_on \cap Live' :
          /\ Done(chores'[d])
          /\ chores'[d].completions[1].at <= k[1].at
    BY <1>5, <2>4, <2>5
  <2>7. chores[c].depends_on_events \cap DOMAIN events' \subseteq TriggeredEvents(events')
    BY <2>1, StepOnTables DEF IsBlocked
  <2> QED BY <1>2, <2>6, <2>7 DEF k
<1> QED BY <1>6, <1>7

\* What the operations keep, they keep from any sound tables on.
LEMMA SoundForever == Sound /\ [][Next]_vars => []Sound
<1>1. Sound /\ [Next]_vars => Sound'
  BY NextTypeOK, NextBirthOrder, NextNamesIssued, NextHistory, NextDependencies DEF Sound
<1> QED BY <1>1, PTL

\* From empty tables the operations reach sound ones only: a database that was
\* saved and is loaded again is sound.
THEOREM AlwaysSound == Spec => []Sound
<1>1. Init => BirthOrder
  BY DEF Init, BirthOrder, Live, Issued
<1>2. Init => Sound
  BY <1>1, InitTypeOK, InitNamesIssued
     DEF Init, Sound, HistoryMostRecentLast, DependenciesCameFirst, Live
<1> QED BY <1>2, SoundForever, PTL DEF Spec

\* A chore that is done was done after everything it depends on.
THEOREM DependenciesFirst == Spec => []DependenciesCameFirst
<1>1. Sound => DependenciesCameFirst
  BY DEF Sound
<1> QED BY <1>1, AlwaysSound, PTL

-----------------------------------------------------------------------------
(* Completing again.                                                       *)

\* A step that changes a chore that stays is a completion of that chore, and
\* leaves the rest of the store alone.
LEMMA OnlyCompletionChanges ==
  ASSUME TypeOK, [Next]_vars, NEW c \in Live, c \in Live', chores'[c] # chores[c]
  PROVE  /\ Live' = Live /\ UNCHANGED <<events, clock>>
         /\ \A d \in Live \ {c} : chores'[d] = chores[d]
<1>0. c \in Issued
  BY DEF TypeOK, Live
<1>1. ASSUME NEW u \in User, NEW b \in ChoreId, NEW form \in Form,
             NEW deps \in SUBSET ChoreId, NEW evs \in SUBSET EventId,
             AddChore(u, b, form, deps, evs)
      PROVE  FALSE
  <2>1. b # c
    BY <1>0, <1>1 DEF AddChore
  <2> QED BY <1>1, <2>1 DEF AddChore, Insert, Live
<1>2. ASSUME NEW u \in User, NEW b \in ChoreId, CompleteChore(u, b)
      PROVE  /\ Live' = Live /\ UNCHANGED <<events, clock>>
             /\ \A d \in Live \ {c} : chores'[d] = chores[d]
  <2>1. b = c
    BY <1>2, CompleteFacts
  <2> QED BY <1>2, <2>1, CompleteFacts DEF CompleteChore
<1>3. ASSUME NEW u \in User, NEW b \in ChoreId, DeleteChore(u, b)
      PROVE  FALSE
  BY <1>3 DEF DeleteChore, Remove, Live
<1> QED BY <1>1, <1>2, <1>3
        DEF Next, AddEvent, TriggerEvent, DeleteEvent, Refuse, Tick, vars

\* A one-off chore completed again blocks and unblocks nothing and moves no
\* due date.
THEOREM AgainIsHarmless == Spec => SecondCompletionHarmless
<1> DEFINE Step ==
      \A c \in Live \cap Live' :
        (/\ chores[c].kind.tag \in {"OneTime", "WithDeadline"}
         /\ Done(chores[c]) /\ chores'[c] # chores[c]) =>
          \A d \in Live :
            /\ IsBlocked(chores'[d], chores', events') <=> IsBlocked(chores[d], chores, events)
            /\ NextDue(chores'[d], clock') = NextDue(chores[d], clock)
<1>1. ASSUME TypeOK, [Next]_vars, NEW c \in Live, c \in Live',
             chores[c].kind.tag \in {"OneTime", "WithDeadline"},
             Done(chores[c]), chores'[c] # chores[c], NEW d \in Live
      PROVE  /\ IsBlocked(chores'[d], chores', events') <=> IsBlocked(chores[d], chores, events)
             /\ NextDue(chores'[d], clock') = NextDue(chores[d], clock)
  <2>1. /\ Live' = Live /\ events' = events /\ clock' = clock
        /\ \A b \in Live \ {c} : chores'[b] = chores[b]
    BY <1>1, OnlyCompletionChanges
  <2>2. Done(chores'[c])
    BY <1>1, DoneStaysDone
  <2>3. CompletedChores(chores') = CompletedChores(chores)
    BY <1>1, <2>1, <2>2 DEF CompletedChores, Live
  <2>4. /\ chores'[d].depends_on = chores[d].depends_on
        /\ chores'[d].depends_on_events = chores[d].depends_on_events
    BY <1>1, <2>1, StepOnChore
  <2>5. IsBlocked(chores'[d], chores', events') <=> IsBlocked(chores[d], chores, events)
    BY <2>1, <2>3, <2>4 DEF IsBlocked
  <2>6. chores'[c].kind = chores[c].kind
    BY <1>1, StepOnChore
  <2>7. NextDue(chores[c], clock) = None /\ NextDue(chores'[c], clock') = None
    BY <1>1, <2>2, <2>6 DEF NextDue
  <2>8. NextDue(chores'[d], clock') = NextDue(chores[d], clock)
    BY <2>1, <2>7
  <2> QED BY <2>5, <2>8
<1>2. TypeOK /\ [Next]_vars => [Step]_vars
  BY <1>1
<1> QED BY <1>2, TypeCorrect, PTL DEF Spec, SecondCompletionHarmless

-----------------------------------------------------------------------------
(* The timer of a repeating chore.                                         *)

\* A delay short enough to be added at the end of time is short enough for
\* chrono, and the cast leaves it alone: such a chore never panics, as long
\* as its last completion lies in a time that has been.
LEMMA ShortDelayIsSafe ==
  ASSUME NEW r \in Chore, r.kind.secs + MaxTime <= MaxInstant,
         Done(r) => LastCompletion(r).at \in 0..MaxTime
  PROVE  /\ AsI64(r.kind.secs) = r.kind.secs
         /\ ~ TimerPanics(r)
<1>1. r.kind.secs \in Nat
  BY WidthAssumption DEF Chore, ChoreKind
<1>2. r.kind.secs < HalfI64
  BY <1>1, WidthAssumption, BoundAssumption
<1>3. AsI64(r.kind.secs) = r.kind.secs
  BY <1>2 DEF AsI64
<1>4. r.kind.secs \in -MaxDelta..MaxDelta
  BY <1>1, WidthAssumption, BoundAssumption
<1>5. Done(r) => LastCompletion(r).at + r.kind.secs \in -MaxInstant..MaxInstant
  <2> SUFFICES ASSUME Done(r) PROVE LastCompletion(r).at + r.kind.secs \in -MaxInstant..MaxInstant
    OBVIOUS
  <2> DEFINE a == LastCompletion(r).at
  <2>1. a \in 0..MaxTime
    OBVIOUS
  <2> HIDE DEF a
  <2>2. a + r.kind.secs \in -MaxInstant..MaxInstant
    BY <1>1, <2>1, WidthAssumption, BoundAssumption
  <2> QED BY <2>2 DEF a
<1> QED BY <1>3, <1>4, <1>5 DEF TimerPanics, TimerEnd

\* After a step, the last completion of a chore lies in the past.
LEMMA LastInRange ==
  ASSUME TypeOK', HistoryMostRecentLast', NEW c \in Live', Done(chores'[c])
  PROVE  LastCompletion(chores'[c]).at \in 0..MaxTime
<1> DEFINE h == chores'[c].completions
<1>1. h \in Seq(Completion) /\ h # << >>
  BY DEF TypeOK, Live, Chore, Done
<1>2. h[Len(h)].at <= clock' /\ clock' \in 0..MaxTime
  BY DEF HistoryMostRecentLast, LastCompletion, TypeOK
<1> HIDE DEF h
<1>3. h[Len(h)] \in Completion
  BY <1>1
<1>4. h[Len(h)].at \in Nat
  BY <1>3 DEF Completion
<1>5. h[Len(h)].at \in 0..MaxTime
  BY <1>2, <1>4, BoundAssumption
<1> QED BY <1>5 DEF h, LastCompletion

\* A chore that changes in a step has a longer history after it.
LEMMA CompletionGrows ==
  ASSUME TypeOK, [Next]_vars, NEW c \in Live, c \in Live', chores'[c] # chores[c]
  PROVE  chores'[c].completions # chores[c].completions
<1> DEFINE h == chores[c].completions
<1>1. PICK u \in User : chores'[c].completions = Append(h, [by |-> u, at |-> clock])
  BY StepOnChore
<1>2. h \in Seq(Completion)
  BY DEF TypeOK, Live, Chore
<1>3. [by |-> u, at |-> clock] \in Completion
  BY BoundAssumption DEF TypeOK, Completion
<1> HIDE DEF h
<1>4. Append(h, [by |-> u, at |-> clock]) # h
  BY <1>2, <1>3
<1> QED BY <1>1, <1>4 DEF h

\* Completing a repeating chore, and nothing else, restarts its timer.
THEOREM TimerRestarts == Spec => CompletionResetsTimer
<1> DEFINE Step ==
      \A c \in Live \cap Live' :
        (/\ chores[c].kind.tag = "RecurringAfterCompletion" /\ Done(chores'[c])
         /\ chores[c].kind.secs + MaxTime <= MaxInstant) =>
          /\ ~ TimerPanics(chores'[c])
          /\ NextDue(chores'[c], clock') =
               IF chores'[c] = chores[c] THEN NextDue(chores[c], clock)
                                         ELSE Some(clock + chores[c].kind.secs)
<1> DEFINE Inv == TypeOK /\ HistoryMostRecentLast
<1>1. ASSUME Inv, Inv', [Next]_vars, NEW c \in Live, c \in Live',
             chores[c].kind.tag = "RecurringAfterCompletion", Done(chores'[c]),
             chores[c].kind.secs + MaxTime <= MaxInstant
      PROVE  /\ ~ TimerPanics(chores'[c])
             /\ NextDue(chores'[c], clock') =
                  IF chores'[c] = chores[c] THEN NextDue(chores[c], clock)
                                            ELSE Some(clock + chores[c].kind.secs)
  <2>1. chores'[c].kind = chores[c].kind /\ chores'[c] \in Chore
    BY <1>1, StepOnChore DEF TypeOK, Live
  <2>2. LastCompletion(chores'[c]).at \in 0..MaxTime
    BY <1>1, LastInRange
  <2>3. ~ TimerPanics(chores'[c]) /\ AsI64(chores'[c].kind.secs) = chores'[c].kind.secs
    BY <1>1, <2>1, <2>2, ShortDelayIsSafe
  <2>4. NextDue(chores'[c], clock') =
          Some(LastCompletion(chores'[c]).at + chores[c].kind.secs)
    BY <1>1, <2>1, <2>3 DEF NextDue, TimerEnd
  <2>5. CASE chores'[c] = chores[c]
    <3>1. NextDue(chores[c], clock) =
            Some(LastCompletion(chores'[c]).at + chores[c].kind.secs)
      BY <1>1, <2>3, <2>5 DEF NextDue, TimerEnd
    <3> QED BY <2>3, <2>4, <2>5, <3>1
  <2>6. CASE chores'[c] # chores[c]
    <3>1. LastCompletion(chores'[c]).at = clock
      <4>1. ~ (chores'[c].completions = chores[c].completions)
        BY <1>1, <2>6, CompletionGrows
      <4> QED BY <1>1, <4>1, StepOnHistory DEF LastCompletion
    <3> QED BY <2>3, <2>4, <2>6, <3>1
  <2> QED BY <2>5, <2>6
<1>2. Inv /\ Inv' /\ [Next]_vars => [Step]_vars
  BY <1>1
<1> QED BY <1>2, TypeCorrect, LastIsLatest, PTL DEF Spec, CompletionResetsTimer

\* The pending list of a client breaks only in a step that completes a chore
\* of the list whose delay is too long.
THEOREM ListBreaksByCompletion == Spec => OnlyCompletionBreaksList
<1> DEFINE Step ==
      \A me \in {None} \cup {Some(u) : u \in User}, S \in SUBSET ChoreId :
        (PendingListPanics(me, Part(chores', S)) /\ ~ PendingListPanics(me, Part(chores, S))) =>
          \E c \in S \cap Live \cap Live' :
            /\ \A u \in me : VisibleTo(chores[c], u)
            /\ chores[c].kind.secs + MaxTime > MaxInstant
            /\ Len(chores'[c].completions) = Len(chores[c].completions) + 1
<1> DEFINE Inv == TypeOK /\ HistoryMostRecentLast
<1>1. ASSUME Inv, Inv', [Next]_vars, NEW me, NEW S \in SUBSET ChoreId,
             ~ PendingListPanics(me, Part(chores, S)), PendingListPanics(me, Part(chores', S))
      PROVE  \E c \in S \cap Live \cap Live' :
               /\ \A u \in me : VisibleTo(chores[c], u)
               /\ chores[c].kind.secs + MaxTime > MaxInstant
               /\ Len(chores'[c].completions) = Len(chores[c].completions) + 1
  <2>1. PICK c \in S \cap Live' : /\ \A u \in me : VisibleTo(chores'[c], u)
                                 /\ TimerPanics(chores'[c])
    BY <1>1 DEF PendingListPanics, Part, Live
  <2>2. Done(chores'[c])
    BY <2>1 DEF TimerPanics
  <2>3. c \in Live
    BY <1>1, <2>2, FreshIsUndone
  <2>4. chores'[c] # chores[c]
    BY <1>1, <2>1, <2>3 DEF PendingListPanics, Part, Live
  <2>5. ~ (chores'[c].completions = chores[c].completions)
    BY <1>1, <2>3, <2>4, CompletionGrows
  <2>6. Len(chores'[c].completions) = Len(chores[c].completions) + 1
    BY <1>1, <2>3, <2>5, StepOnHistory
  <2>7. /\ chores'[c].kind = chores[c].kind
        /\ chores'[c] \in Chore /\ chores[c].kind.secs \in Nat
    BY <1>1, <2>3, StepOnChore, WidthAssumption DEF TypeOK, Live, Chore, ChoreKind
  <2>8. LastCompletion(chores'[c]).at \in 0..MaxTime
    BY <1>1, <2>2, LastInRange
  <2>9. ~ (chores[c].kind.secs + MaxTime <= MaxInstant)
    BY <2>1, <2>7, <2>8, ShortDelayIsSafe
  <2>10. chores[c].kind.secs + MaxTime > MaxInstant
    BY <2>7, <2>9, WidthAssumption, BoundAssumption
  <2>11. \A u \in me : VisibleTo(chores[c], u)
    BY <1>1, <2>1, <2>3, StepOnChore DEF VisibleTo
  <2> QED BY <2>1, <2>3, <2>6, <2>10, <2>11
<1>2. Inv /\ Inv' /\ [Next]_vars => [Step]_chores
  BY <1>1
<1> QED BY <1>2, TypeCorrect, LastIsLatest, PTL DEF Spec, OnlyCompletionBreaksList
=============================================================================
