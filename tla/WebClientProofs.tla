--------------------------- MODULE WebClientProofs ---------------------------
(***************************************************************************)
(* Theorems about WebClient, for every set of users, keys, sessions,       *)
(* browsers and tabs and every bound.                                      *)
(*                                                                         *)
(* The inductive invariant comes in layers.  TypeInv: types, and how pages *)
(* and connections go together.  KeyInv: which browser a key belongs to,   *)
(* and that a key that is being retired is in no browser any more.         *)
(* OwnInv: what has to do with a user's keys is done in the user's         *)
(* sessions.  SideInv: what runs over the connections of a registration    *)
(* and of the app.  BrowserInv: a browser without a mishap.  AccessInv:    *)
(* what KeyRegistry keeps, of db.cbor as well.                             *)
(***************************************************************************)
EXTENDS WebClient, SequenceTheorems, TLAPS

Keys == INSTANCE KeyRegistryProofs

MaybeKey == KeyId \cup {NoKey}
Msg == [what : Kind \cup {"link", "confirm"}, priv : MaybeKey, id : MaybeKey, new : MaybeKey]
Note == {"challenge", "ok", "fail", "snapshot"}

ClientTypes ==
  /\ store \in [Browser -> [key : MaybeKey, added : 0..MaxTime]]
  /\ page \in [Tab -> Page] /\ conn \in [Tab -> Session \cup {Nowhere}]
  /\ task \in [Tab -> [Kind -> Task]] /\ listed \in [Tab -> BOOLEAN]
  /\ sock \in [Session -> Seq(Msg)] /\ back \in [Session -> Seq(Note)]
  /\ saved \in [tokens : SUBSET User, pubkeys : [User -> SUBSET Registry!PublicKey]]
  /\ rekeyed \in [Browser -> BOOLEAN] /\ mishap \in [Browser -> BOOLEAN]

\* How pages, connections and sessions go together.
Wiring ==
  /\ \A t, r \in Tab : conn[t] = conn[r] => t = r \/ conn[t] = Nowhere
  /\ \A t \in Tab : page[t] = "none" => conn[t] = Nowhere
  /\ \A s \in Session : ~ Connected(s) => back[s] = << >>
  /\ \A s \in Session : ~ Registry!At(s, "ready") => sock[s] # << >>

TypeInv == Keys!TypeInv /\ ClientTypes /\ Wiring

\* The keys a re-key under way in tab t works with.
TaskKeys(t) == {task[t]["rekey"].priv, task[t]["rekey"].id} \ {NoKey}

\* A signed message is being handled.
Handling(s) == Registry!At(s, "verified") \/ Registry!At(s, "retire") \/ Registry!At(s, "rekey")

\* A key is in one browser only; one that a ReKey replaces or that is retiring
\* is in none any more.
KeyInv ==
  /\ \A b, c \in Browser : store[b].key = store[c].key => b = c \/ store[b].key = NoKey
  /\ \A t \in Tab : \A b \in Browser : store[b].key \in TaskKeys(t) => b = BrowserOf[t]
  /\ \A t \in Tab : task[t]["rekey"].at = "sign" => task[t]["rekey"].id # NoKey
  /\ \A s \in Session : \A i \in 1..Len(sock[s]) :
       sock[s][i].what = "rekey" =>
         /\ sock[s][i].id # NoKey
         /\ \A b \in Browser : store[b].key # sock[s][i].id
  /\ \A s \in Session : \A i \in 1..Len(sock[s]) :
       (sock[s][i].what = "rekey") = (sock[s][i].new # NoKey)
  /\ \A s \in Session : Handling(s) =>
       sock[s][1].id = work[s].key /\ sock[s][1].new = work[s].new
  /\ \A b \in Browser : \A r \in pubkeys[Person[b]] \cup saved.pubkeys[Person[b]] :
       r.retiring => store[b].key # r.id

\* What has to do with a user's keys is done in the user's sessions.
OwnInv ==
  /\ \A u \in User : Registry!Ids(pubkeys[u] \cup saved.pubkeys[u]) \subseteq Registry!KeysOf(u)
  /\ \A s \in Session :
       /\ pending[s] \in Registry!KeysOf(SessionUser[s]) \cup {NoKey}
       /\ work[s].user = SessionUser[s]
       /\ work[s].new \in Registry!KeysOf(SessionUser[s]) \cup {NoKey}
  /\ \A t \in Tab : conn[t] # Nowhere => SessionUser[conn[t]] = Person[BrowserOf[t]]
  /\ tokens \subseteq saved.tokens

\* A registration runs in session s.
RegisteringIn(s) ==
  \/ auth[s] = "PendingChallenge" \/ Registry!At(s, "announce") \/ Registry!At(s, "consume")
  \/ \E i \in 1..Len(sock[s]) : sock[s][i].what \in {"link", "confirm"}

\* Registrations and re-keys use different connections.
SideInv ==
  /\ \A s \in Session : RegisteringIn(s) => \A i \in 1..Len(sock[s]) : sock[s][i].what # "rekey"
  /\ \A t \in Tab :
       /\ page[t] \in {"none", "register"} => task[t]["rekey"] = Idle
       /\ page[t] = "register" => conn[t] # Nowhere
  /\ \A t \in Tab : \A s \in Session : conn[t] = s =>
       /\ task[t]["rekey"] # Idle => ~ RegisteringIn(s)
       /\ page[t] = "register" => \A i \in 1..Len(sock[s]) : sock[s][i].what # "rekey"
       /\ \A i \in 1..Len(sock[s]) : \A b \in Browser :
            Introduces(sock[s][i], b) => b = BrowserOf[t]
  /\ \A t, r \in Tab : BrowserOf[t] # BrowserOf[r] => TaskKeys(t) \cap TaskKeys(r) = {}
  /\ \A b \in Browser : Introducing(b) => rekeyed[b]

\* A ReKey with the old key, or to the new key, k is on its way.
Replacing(k) ==
  \E s \in Session : \E i \in 1..Len(sock[s]) : sock[s][i].what = "rekey" /\ sock[s][i].id = k
Coming(k) ==
  \E s \in Session : \E i \in 1..Len(sock[s]) : sock[s][i].what = "rekey" /\ sock[s][i].new = k

\* The server would accept a ReKey signed with k now, and none is under way
\* but the one at (s, i).
Current(b, k) == \E r \in pubkeys[Person[b]] : r.id = k /\ ~ r.retiring
OnlyAt(k, s, i) ==
  \A q \in Session : \A j \in 1..Len(sock[q]) :
    sock[q][j].what = "rekey" /\ sock[q][j].id = k => q = s /\ j = i

\* Browser b, which holds the key k, has one re-key under way at most: it is
\* being signed, or it is on its way, with a key that the server knows until
\* then.
OneReKey(b) ==
  \A t, r \in Tab : BrowserOf[t] = b /\ BrowserOf[r] = b /\ task[t]["rekey"] # Idle
                      /\ task[r]["rekey"] # Idle => t = r
SigningSafe(b, k) ==
  \A t \in Tab : \A x \in MaybeKey :
    BrowserOf[t] = b /\ conn[t] # Nowhere /\ task[t]["rekey"] # Idle /\ task[t]["rekey"].priv = x =>
      /\ x # NoKey /\ {task[t]["rekey"].id, k} \subseteq {NoKey, x}
      /\ Current(b, x) /\ ~ Replacing(x) /\ ~ Coming(k)
ComingSafe(b, k) ==
  \A s \in Session : \A i \in 1..Len(sock[s]) : \A x \in MaybeKey :
    sock[s][i].what = "rekey" /\ sock[s][i].new = k /\ sock[s][i].id = x =>
      /\ SessionUser[s] = Person[b] /\ sock[s][i].priv = x
      /\ Current(b, x) /\ OnlyAt(x, s, i)
      /\ \A t \in Tab : BrowserOf[t] # b => x \notin TaskKeys(t)
SignedSafe(b, k) ==
  Coming(k) => \A t \in Tab : BrowserOf[t] = b => task[t]["rekey"] = Idle
ReKeySafe(b, k) == OneReKey(b) /\ SigningSafe(b, k) /\ ComingSafe(b, k) /\ SignedSafe(b, k)

\* If k needs the link, nothing but the registration of k can burn the token;
\* and if it came with the link, the server can be restarted.
Unknown(b, k) == k \notin KnownKeys(b) \cup {NoKey} /\ ~ Coming(k)
LinkFor(s, k) ==
  /\ ~ Registry!At(s, "announce") /\ ~ Registry!At(s, "consume")
  /\ pending[s] \in {NoKey, k}
  /\ \A i \in 1..Len(sock[s]) : sock[s][i].what = "link" => sock[s][i].id = k
LinkSafe(b, k) ==
  /\ Unknown(b, k) =>
       Person[b] \in tokens /\ \A s \in Session : SessionUser[s] = Person[b] => LinkFor(s, k)
  /\ ~ rekeyed[b] /\ k # NoKey =>
       k \in Registry!Ids(saved.pubkeys[Person[b]]) \/ Person[b] \in saved.tokens

SafeBrowser(b) == \A k \in MaybeKey : store[b].key = k => ReKeySafe(b, k) /\ LinkSafe(b, k)

BrowserInv == \A b \in Browser : ~ mishap[b] => SafeBrowser(b)

-----------------------------------------------------------------------------
(* The registry's part: every step but a restart is a step of KeyRegistry.  *)

LEMMA SameTypes ==
  Keys!TypeInv <=> /\ Registry!TypeOK
                   /\ \A s \in Session : Registry!At(s, "rekey") => work[s].new # NoKey
BY DEF Keys!TypeInv, Keys!ReKeyHasKey, Keys!TypeOK, Keys!PublicKey, Keys!AuthState, Keys!Work,
       Keys!Stage, Keys!At, Registry!TypeOK, Registry!PublicKey, Registry!AuthState,
       Registry!Work, Registry!Stage, Registry!At

LEMMA Types ==
  ASSUME TypeInv
  PROVE  /\ tokens \subseteq User /\ pubkeys \in [User -> SUBSET Registry!PublicKey]
         /\ clock \in 0..MaxTime /\ auth \in [Session -> Registry!AuthState]
         /\ pending \in [Session -> MaybeKey] /\ work \in [Session -> Registry!Work]
         /\ \A s \in Session : (auth[s] = "PendingChallenge") = (pending[s] # NoKey)
         /\ \A s \in Session : Registry!At(s, "rekey") => work[s].new # NoKey
         /\ announced \subseteq User /\ TypeOK
BY SameTypes DEF TypeInv, ClientTypes, Wiring, TypeOK, Registry!TypeOK, MaybeKey

LEMMA RegistrySteps ==
  ASSUME TypeInv, Next, ~ Restart
  PROVE  [Registry!Next]_registry
<1>1. ASSUME NEW s \in Session, Serve(s)
      PROVE  [Registry!Next]_registry
  <2>1. CASE HandleLink(s)
    BY <2>1 DEF HandleLink, Registry!Next, Registry!RequestChallenge, Registry!KeysOf
  <2>2. CASE HandleConfirm(s)
    BY <2>2 DEF HandleConfirm, Registry!Next
  <2>3. CASE HandleStaleConfirm(s)
    BY <2>3 DEF HandleStaleConfirm, Registry!Next
  <2>4. CASE AnnounceKey(s)
    BY <2>4 DEF AnnounceKey, Registry!Next
  <2>5. CASE BurnToken(s)
    BY <2>5 DEF BurnToken, Registry!Next
  <2>6. CASE HandleSigned(s)
    <3> DEFINE m == Head(sock[s])
    <3>1. Registry!UserByKeyId(s, m.id, m.new)
      BY <2>6 DEF HandleSigned
    <3> HIDE DEF m
    <3>2. \A u \in User : \A r \in pubkeys[u] : r.id \in KeyId
      BY Types DEF Registry!PublicKey
    <3>3. m.id \in KeyId /\ m.new \in KeyId \cup {NoKey}
      BY <3>1, <3>2 DEF Registry!UserByKeyId, Registry!KeysOf
    <3> QED BY <3>1, <3>3 DEF Registry!Next
  <2>7. CASE Refuse(s)
    BY <2>7 DEF Refuse, Registry!Reject, Registry!vars, registry
  <2>8. CASE CheckRetiring(s)
    BY <2>8 DEF CheckRetiring, Registry!Next
  <2>9. CASE RetireOldKeys(s)
    BY <2>9 DEF RetireOldKeys, Registry!Next
  <2>10. CASE ApplyReKey(s)
    BY <2>10 DEF ApplyReKey, Registry!Next
  <2> QED BY <1>1, <2>1, <2>2, <2>3, <2>4, <2>5, <2>6, <2>7, <2>8, <2>9, <2>10 DEF Serve
<1>2. ASSUME NEW s \in Session, EndSession(s)
      PROVE  [Registry!Next]_registry
  BY <1>2 DEF EndSession, Registry!Next
<1>3. CASE Tick
  BY <1>3 DEF Tick, Registry!Next
<1>4. CASE UNCHANGED registry
  BY <1>4
<1> QED BY <1>1, <1>2, <1>3, <1>4
        DEF Next, OpenLink, OpenApp, Connect, GiveUp, Break, Close, Click, TaskStep, ReadKeyId,
            FinishSigned, FinishReKey, FinishReKeyThrows, Receive, ReceiveChallenge,
            ReceiveRegistered, ReceiveUnregistered, ReceiveAuthOk, ReceiveAuthFail,
            ReceiveSnapshot, Save

LEMMA SameRegistry == [Registry!Next]_registry => [Keys!Next]_(Keys!vars)
BY DEF registry, Registry!Next, Registry!RequestChallenge, Registry!ConfirmKey,
       Registry!ConfirmFails, Registry!SendAuthOk, Registry!ConsumeInitToken,
       Registry!UserByKeyId, Registry!CheckRetiring, Registry!RetireOldKeys,
       Registry!ApplyReKey, Registry!Reject, Registry!Drop, Registry!Tick, Registry!vars,
       Registry!At, Registry!Done, Registry!GoTo, Registry!Proceed, Registry!Ready,
       Registry!NewKey, Registry!ValidAt, Registry!Ids, Registry!KeysOf,
       Keys!Next, Keys!RequestChallenge, Keys!ConfirmKey, Keys!ConfirmFails,
       Keys!SendAuthOk, Keys!ConsumeInitToken, Keys!UserByKeyId, Keys!CheckRetiring,
       Keys!RetireOldKeys, Keys!ApplyReKey, Keys!Reject, Keys!Drop, Keys!Tick, Keys!vars,
       Keys!At, Keys!Done, Keys!GoTo, Keys!Proceed, Keys!Ready, Keys!NewKey, Keys!ValidAt,
       Keys!Ids, Keys!KeysOf

\* What comes back from db.cbor is a registry.
LEMMA RestartedRegistry ==
  ASSUME TypeInv, Restart
  PROVE  Keys!TypeInv'
<1>1. /\ tokens' \subseteq User /\ pubkeys' \in [User -> SUBSET Registry!PublicKey]
      /\ clock' = clock /\ announced' = announced
  BY Types DEF TypeInv, ClientTypes, Restart
<1>2. /\ auth' = [s \in Session |-> "Unauthenticated"] /\ pending' = [s \in Session |-> NoKey]
      /\ work' = [s \in Session |-> Registry!Ready(SessionUser[s])]
  BY DEF Restart
<1>3. work' \in [Session -> Registry!Work]
  BY <1>2, RegistryAssumption DEF Registry!Ready, Registry!Work, Registry!Stage
<1>4. \A s \in Session : ~ Registry!At(s, "rekey")'
  BY <1>2 DEF Registry!At, Registry!Ready
<1>5. Registry!TypeOK'
  BY <1>1, <1>2, <1>3, Types DEF Registry!TypeOK, Registry!AuthState, MaybeKey
<1>6. (Keys!TypeInv <=> /\ Registry!TypeOK
                        /\ \A s \in Session : Registry!At(s, "rekey") => work[s].new # NoKey)'
  BY SameTypes, PTL
<1> QED BY <1>4, <1>5, <1>6

LEMMA RegistryTyped ==
  ASSUME TypeInv, [Next]_vars
  PROVE  Keys!TypeInv'
<1>1. CASE Restart
  BY <1>1, RestartedRegistry
<1>2. CASE Next /\ ~ Restart
  <2>1. [Keys!Next]_(Keys!vars)
    BY <1>2, RegistrySteps, SameRegistry
  <2> QED BY <2>1, Keys!NextTypeInv, RegistryAssumption DEF TypeInv
<1>3. CASE UNCHANGED vars
  <2>1. [Registry!Next]_registry
    BY <1>3 DEF vars
  <2>2. [Keys!Next]_(Keys!vars)
    BY <2>1, SameRegistry
  <2> QED BY <2>2, Keys!NextTypeInv, RegistryAssumption DEF TypeInv
<1> QED BY <1>1, <1>2, <1>3

-----------------------------------------------------------------------------
(* What is taken with CHOOSE.                                               *)

LEMMA FreshKeyFacts ==
  ASSUME TypeInv, NEW b \in Browser, HasFreshKey(b)
  PROVE  LET k == FreshKey(b) IN
         /\ k \in KeyId /\ k \in Registry!KeysOf(Person[b]) /\ k # NoKey
         /\ \A c \in Browser : store[c].key # k
         /\ \A u \in User : \A r \in pubkeys[u] \cup saved.pubkeys[u] : r.id # k
         /\ \A s \in Session : pending[s] # k
         /\ \A s \in Session : \A i \in 1..Len(sock[s]) :
              sock[s][i].priv # k /\ sock[s][i].id # k /\ sock[s][i].new # k
         /\ \A t \in Tab : \A kind \in Kind : task[t][kind].priv # k /\ task[t][kind].id # k
<1> DEFINE k == FreshKey(b)
<1>1. k \in Registry!KeysOf(Person[b]) /\ k \notin InUse
  BY DEF FreshKey, HasFreshKey
<1> HIDE DEF k
<1>2. k \in KeyId /\ k # NoKey
  BY <1>1, RegistryAssumption DEF Registry!KeysOf
<1>3. /\ k \notin {store[c].key : c \in Browser}
      /\ k \notin UNION {Registry!Ids(pubkeys[u] \cup saved.pubkeys[u]) : u \in User}
      /\ k \notin UNION {UNION {{m.priv, m.id, m.new} : m \in Range(sock[s])} : s \in Session}
      /\ k \notin UNION {{task[t][kind].priv, task[t][kind].id} : t \in Tab, kind \in Kind}
      /\ k \notin {pending[s] : s \in Session}
  <2> DEFINE A == {store[c].key : c \in Browser}
             B == UNION {Registry!Ids(pubkeys[u] \cup saved.pubkeys[u]) : u \in User}
             C == UNION {UNION {{m.priv, m.id, m.new} : m \in Range(sock[s])} : s \in Session}
             D == UNION {{task[t][kind].priv, task[t][kind].id} : t \in Tab, kind \in Kind}
             E == {pending[s] : s \in Session}
  <2>1. InUse = A \cup B \cup C \cup D \cup E
    BY DEF InUse
  <2> HIDE DEF A, B, C, D, E
  <2>2. k \notin A /\ k \notin B /\ k \notin C /\ k \notin D /\ k \notin E
    BY <1>1, <2>1
  <2> QED BY <2>2 DEF A, B, C, D, E
<1>4. ASSUME NEW u \in User, NEW r \in pubkeys[u] \cup saved.pubkeys[u]
      PROVE  r.id # k
  <2> DEFINE ids == Registry!Ids(pubkeys[u] \cup saved.pubkeys[u])
  <2>1. r.id \in ids
    BY DEF Registry!Ids
  <2>2. ids \in {Registry!Ids(pubkeys[v] \cup saved.pubkeys[v]) : v \in User}
    OBVIOUS
  <2> HIDE DEF ids
  <2>3. k \notin ids
    BY <1>3, <2>2
  <2> QED BY <2>1, <2>3
<1>5. ASSUME NEW t \in Tab, NEW kind \in Kind
      PROVE  task[t][kind].priv # k /\ task[t][kind].id # k
  <2> DEFINE pair == {task[t][kind].priv, task[t][kind].id}
  <2>1. pair \in {{task[r][knd].priv, task[r][knd].id} : r \in Tab, knd \in Kind}
    OBVIOUS
  <2> HIDE DEF pair
  <2>2. k \notin pair
    BY <1>3, <2>1
  <2> QED BY <2>2 DEF pair
<1>6. ASSUME NEW s \in Session, NEW i \in 1..Len(sock[s])
      PROVE  sock[s][i].priv # k /\ sock[s][i].id # k /\ sock[s][i].new # k
  <2> DEFINE keys == UNION {{m.priv, m.id, m.new} : m \in Range(sock[s])}
  <2>1. sock[s] \in Seq(Msg)
    BY DEF TypeInv, ClientTypes
  <2>2. sock[s][i] \in Range(sock[s])
    BY <2>1 DEF Range
  <2>3. {sock[s][i].priv, sock[s][i].id, sock[s][i].new} \subseteq keys
    BY <2>2
  <2>4. keys \in {UNION {{m.priv, m.id, m.new} : m \in Range(sock[q])} : q \in Session}
    OBVIOUS
  <2> HIDE DEF keys
  <2>5. k \notin keys
    BY <1>3, <2>4
  <2> QED BY <2>3, <2>5
<1> QED BY <1>1, <1>2, <1>3, <1>4, <1>5, <1>6 DEF k

LEMMA NewPlaceFacts ==
  ASSUME TypeInv, NEW b \in Browser, HasPlace(b)
  PROVE  LET s == NewPlace(b) IN
         /\ s \in Session /\ SessionUser[s] = Person[b] /\ s # Nowhere
         /\ sock[s] = << >> /\ back[s] = << >> /\ \A t \in Tab : conn[t] # s
         /\ auth[s] = "Unauthenticated" /\ work[s].at = "ready"
<1> DEFINE s == NewPlace(b)
<1>1. s \in Session /\ Free(s) /\ SessionUser[s] = Person[b]
  BY DEF NewPlace, HasPlace
<1> HIDE DEF s
<1>2. /\ sock[s] = << >> /\ \A t \in Tab : conn[t] # s
      /\ auth[s] = "Unauthenticated" /\ work[s].at = "ready"
  BY <1>1 DEF Free, Registry!At
<1>3. back[s] = << >>
  BY <1>1, <1>2 DEF TypeInv, Wiring, Connected
<1> QED BY <1>1, <1>2, <1>3, PlaceAssumption DEF s

-----------------------------------------------------------------------------
(* What the queues look like after a step.                                  *)

LEMMA SendFacts ==
  ASSUME TypeInv, NEW t \in Tab, NEW m \in Msg, Send(t, m)
  PROVE  /\ sock' \in [Session -> Seq(Msg)]
         /\ \A s \in Session : conn[t] # s => sock'[s] = sock[s]
         /\ \A s \in Session : conn[t] = s =>
              /\ Len(sock'[s]) = Len(sock[s]) + 1 /\ sock'[s][Len(sock[s]) + 1] = m
              /\ \A i \in 1..Len(sock[s]) : sock'[s][i] = sock[s][i]
              /\ sock'[s] # << >>
<1>1. sock \in [Session -> Seq(Msg)] /\ conn[t] \in Session \cup {Nowhere}
  BY DEF TypeInv, ClientTypes
<1>2. CASE conn[t] = Nowhere
  BY <1>1, <1>2, PlaceAssumption DEF Send
<1>3. CASE conn[t] \in Session
  <2>1. sock' = [sock EXCEPT ![conn[t]] = Append(sock[conn[t]], m)]
    BY <1>3, PlaceAssumption DEF Send
  <2>2. /\ Append(sock[conn[t]], m) \in Seq(Msg)
        /\ Len(Append(sock[conn[t]], m)) = Len(sock[conn[t]]) + 1
        /\ Append(sock[conn[t]], m)[Len(sock[conn[t]]) + 1] = m
        /\ \A i \in 1..Len(sock[conn[t]]) : Append(sock[conn[t]], m)[i] = sock[conn[t]][i]
        /\ Append(sock[conn[t]], m) # << >>
    BY <1>1, <1>3, AppendProperties
  <2> QED BY <1>1, <1>3, <2>1, <2>2
<1> QED BY <1>1, <1>2, <1>3

\* A queue without its head, or without some of its end.
Part(q, p) ==
  \E d \in {0, 1} : \A i \in 1..Len(q) : i + d \in 1..Len(p) /\ q[i] = p[i + d]

LEMMA PopFacts ==
  ASSUME NEW q \in Seq(Msg), q # << >>
  PROVE  /\ Tail(q) \in Seq(Msg) /\ Head(q) = q[1] /\ Head(q) \in Msg
         /\ Len(q) \in Nat \ {0} /\ Len(Tail(q)) = Len(q) - 1
         /\ \A i \in 1..Len(Tail(q)) : i + 1 \in 1..Len(q) /\ Tail(q)[i] = q[i + 1]
         /\ Part(Tail(q), q)
<1>1. /\ Tail(q) \in Seq(Msg) /\ Head(q) = q[1] /\ Head(q) \in Msg
      /\ Len(q) \in Nat \ {0} /\ Len(Tail(q)) = Len(q) - 1
      /\ \A i \in 1..Len(Tail(q)) : i + 1 \in 1..Len(q) /\ Tail(q)[i] = q[i + 1]
  BY EmptySeq, HeadTailProperties
<1> QED BY <1>1 DEF Part

LEMMA CutFacts ==
  ASSUME NEW q \in Seq(Msg), NEW n \in 0..Len(q)
  PROVE  /\ SubSeq(q, 1, n) \in Seq(Msg) /\ Len(SubSeq(q, 1, n)) = n
         /\ \A i \in 1..n : SubSeq(q, 1, n)[i] = q[i]
         /\ n > 0 => SubSeq(q, 1, n) # << >>
         /\ Part(SubSeq(q, 1, n), q)
<1>1. Len(q) \in Nat
  BY LenProperties
<1>2. /\ SubSeq(q, 1, n) \in Seq(Msg) /\ Len(SubSeq(q, 1, n)) = n
      /\ \A i \in 1..n : SubSeq(q, 1, n)[i] = q[i]
  BY <1>1, SubSeqProperties
<1>3. n > 0 => SubSeq(q, 1, n) # << >>
  BY <1>2, EmptySeq
<1>4. Part(SubSeq(q, 1, n), q)
  BY <1>1, <1>2 DEF Part
<1> QED BY <1>2, <1>3, <1>4

LEMMA PartRefl ==
  ASSUME NEW q \in Seq(Msg)
  PROVE  Part(q, q) /\ Part(<< >>, q)
BY LenProperties, EmptySeq DEF Part

-----------------------------------------------------------------------------
(* Types and wiring.                                                        *)

LEMMA TabTypes ==
  ASSUME TypeInv, NEW t \in Tab
  PROVE  /\ BrowserOf[t] \in Browser /\ Person[BrowserOf[t]] \in User
         /\ Home(t) = store[BrowserOf[t]] /\ Home(t).key \in MaybeKey
         /\ Home(t).added \in 0..MaxTime
         /\ page[t] \in Page /\ conn[t] \in Session \cup {Nowhere}
         /\ task[t] \in [Kind -> Task] /\ \A kind \in Kind : task[t][kind] \in Task
         /\ task[t]["rekey"] \in Task /\ task[t]["rekey"].priv \in MaybeKey
         /\ task[t]["rekey"].id \in MaybeKey
         /\ store[BrowserOf[t]] \in [key : MaybeKey, added : 0..MaxTime]
<1>1. /\ store \in [Browser -> [key : MaybeKey, added : 0..MaxTime]]
      /\ page \in [Tab -> Page] /\ conn \in [Tab -> Session \cup {Nowhere}]
      /\ task \in [Tab -> [Kind -> Task]]
  BY DEF TypeInv, ClientTypes
<1>2. "rekey" \in Kind
  BY DEF Kind
<1> QED BY <1>1, <1>2, PlaceAssumption DEF Home, Task, MaybeKey

LEMMA TaskTypes ==
  /\ Idle \in Task
  /\ \A k \in MaybeKey : [at |-> "import", priv |-> k, id |-> NoKey] \in Task
  /\ \A j \in Task : \A k \in MaybeKey :
       /\ [j EXCEPT !.at = "sign", !.id = k] \in Task
       /\ [j EXCEPT !.at = "sign", !.id = k].at = "sign"
       /\ [j EXCEPT !.at = "sign", !.id = k].priv = j.priv
       /\ [j EXCEPT !.at = "sign", !.id = k].id = k
BY DEF Idle, Task, MaybeKey

\* One send of a tab moves on.
LEMMA TaskUpdate ==
  ASSUME TypeInv, NEW t \in Tab, NEW kind \in Kind, NEW x \in Task,
         task' = [task EXCEPT ![t][kind] = x]
  PROVE  /\ task' \in [Tab -> [Kind -> Task]]
         /\ \A r \in Tab \ {t} : task'[r] = task[r]
         /\ \A knd \in Kind \ {kind} : task'[t][knd] = task[t][knd]
         /\ task'[t][kind] = x
<1>1. task \in [Tab -> [Kind -> Task]]
  BY DEF TypeInv, ClientTypes
<1>2. task' = [task EXCEPT ![t] = [task[t] EXCEPT ![kind] = x]]
  OBVIOUS
<1>3. [task[t] EXCEPT ![kind] = x] \in [Kind -> Task]
  BY <1>1
<1> QED BY <1>1, <1>2, <1>3

\* All the sends of a tab are forgotten.
LEMMA TasksForgotten ==
  ASSUME TypeInv, NEW t \in Tab, task' = [task EXCEPT ![t] = [kind \in Kind |-> Idle]]
  PROVE  /\ task' \in [Tab -> [Kind -> Task]]
         /\ \A r \in Tab \ {t} : task'[r] = task[r]
         /\ \A kind \in Kind : task'[t][kind] = Idle
<1>1. task \in [Tab -> [Kind -> Task]]
  BY DEF TypeInv, ClientTypes
<1> QED BY <1>1, TaskTypes

LEMMA StartFacts ==
  ASSUME TypeInv, NEW t \in Tab, NEW kind \in Kind, Start(t, kind)
  PROVE  /\ task' \in [Tab -> [Kind -> Task]]
         /\ \A r \in Tab \ {t} : task'[r] = task[r]
         /\ \A knd \in Kind \ {kind} : task'[t][knd] = task[t][knd]
         /\ task'[t][kind] = [at |-> "import", priv |-> Home(t).key, id |-> NoKey]
<1> DEFINE x == [at |-> "import", priv |-> Home(t).key, id |-> NoKey]
<1>1. x \in Task
  BY TabTypes, TaskTypes
<1>2. task' = [task EXCEPT ![t][kind] = x]
  BY DEF Start
<1> HIDE DEF x
<1>3. /\ task' \in [Tab -> [Kind -> Task]]
      /\ \A r \in Tab \ {t} : task'[r] = task[r]
      /\ \A knd \in Kind \ {kind} : task'[t][knd] = task[t][knd]
      /\ task'[t][kind] = x
  BY <1>1, <1>2, TaskUpdate
<1> QED BY <1>3 DEF x

LEMMA MsgTypes ==
  /\ Confirm \in Msg
  /\ \A k \in MaybeKey : Link(k) \in Msg
  /\ \A kind \in Kind : \A j \in Task : \A k \in MaybeKey : Signed(kind, j, k) \in Msg
BY DEF Confirm, Link, Signed, Msg, MaybeKey, Task

LEMMA OpenLinkTyped ==
  ASSUME TypeInv, NEW t \in Tab, OpenLink(t)
  PROVE  ClientTypes' /\ Wiring'
<1> DEFINE b == BrowserOf[t]
           k == FreshKey(b)
           s == NewPlace(b)
<1>1. b \in Browser /\ HasFreshKey(b) /\ HasPlace(b)
  BY TabTypes DEF OpenLink
<1>2. k \in MaybeKey
  BY <1>1, FreshKeyFacts DEF MaybeKey
<1>3. s \in Session /\ s # Nowhere /\ back[s] = << >> /\ \A r \in Tab : conn[r] # s
  BY <1>1, NewPlaceFacts
<1>4. /\ page[t] = "none" /\ store' = [store EXCEPT ![b] = [key |-> k, added |-> clock]]
      /\ page' = [page EXCEPT ![t] = "register"] /\ conn' = [conn EXCEPT ![t] = s]
      /\ sock' = [sock EXCEPT ![s] = <<Link(k)>>]
      /\ rekeyed' = [rekeyed EXCEPT ![b] = FALSE]
      /\ UNCHANGED <<registry, server, task, listed, clicks, back>>
  BY DEF OpenLink
<1>5. mishap' \in [Browser -> BOOLEAN]
  BY DEF OpenLink, TypeInv, ClientTypes
<1> HIDE DEF b, k, s
<1>6. <<Link(k)>> \in Seq(Msg) /\ <<Link(k)>> # << >>
  BY <1>2, MsgTypes
<1>7. clock \in 0..MaxTime
  BY Types
<1>8. ClientTypes'
  BY <1>1, <1>2, <1>3, <1>4, <1>5, <1>6, <1>7 DEF TypeInv, ClientTypes, Page, server
<1>9. conn[t] = Nowhere
  BY <1>4 DEF TypeInv, Wiring
<1>10. \A r, q \in Tab : conn'[r] = conn'[q] => r = q \/ conn'[r] = Nowhere
  BY <1>3, <1>4 DEF TypeInv, Wiring, ClientTypes
<1>11. \A r \in Tab : page'[r] = "none" => conn'[r] = Nowhere
  BY <1>3, <1>4 DEF TypeInv, Wiring, ClientTypes
<1>12. ASSUME NEW q \in Session, ~ Connected(q)' PROVE back'[q] = << >>
  <2>1. \A r \in Tab : conn[r] = q => r = t
    BY <1>4, <1>12 DEF Connected, TypeInv, ClientTypes
  <2>2. ~ Connected(q)
    BY <1>9, <2>1, PlaceAssumption DEF Connected
  <2> QED BY <1>4, <2>2 DEF TypeInv, Wiring
<1>13. ASSUME NEW q \in Session, ~ Registry!At(q, "ready")' PROVE sock'[q] # << >>
  BY <1>4, <1>6, <1>13 DEF TypeInv, Wiring, ClientTypes, Registry!At, registry
<1> QED BY <1>8, <1>10, <1>11, <1>12, <1>13 DEF Wiring

\* Nobody connects or disconnects.
LEMMA StayWired ==
  ASSUME TypeInv, conn' = conn,
         \A r \in Tab : page'[r] = "none" => page[r] = "none" \/ conn[r] = Nowhere,
         \A q \in Session : ~ Connected(q) => back'[q] = back[q],
         \A q \in Session : work'[q].at # "ready" => sock'[q] # << >>
  PROVE  Wiring'
BY DEF TypeInv, Wiring, Connected, Registry!At

\* Tab t leaves its connection, if it has one, and what was on its way to it
\* is lost.
LEMMA LeaveWired ==
  ASSUME TypeInv, NEW t \in Tab,
         conn' = [conn EXCEPT ![t] = Nowhere],
         \A r \in Tab \ {t} : page'[r] = page[r],
         \A q \in Session : back'[q] = IF q = conn[t] THEN << >> ELSE back[q],
         \A q \in Session : work'[q].at # "ready" => sock'[q] # << >>
  PROVE  Wiring'
<1>1. conn \in [Tab -> Session \cup {Nowhere}] /\ Nowhere \notin Session
  BY PlaceAssumption DEF TypeInv, ClientTypes
<1>2. \A r, q \in Tab : conn'[r] = conn'[q] => r = q \/ conn'[r] = Nowhere
  BY <1>1 DEF TypeInv, Wiring
<1>3. \A r \in Tab : page'[r] = "none" => conn'[r] = Nowhere
  BY <1>1 DEF TypeInv, Wiring
<1>4. ASSUME NEW q \in Session, ~ Connected(q)' PROVE back'[q] = << >>
  <2>1. CASE q = conn[t]
    BY <2>1
  <2>2. CASE q # conn[t]
    <3>1. ~ Connected(q)
      BY <1>1, <1>4, <2>2 DEF Connected
    <3> QED BY <2>2, <3>1 DEF TypeInv, Wiring
  <2> QED BY <2>1, <2>2
<1> QED BY <1>2, <1>3, <1>4 DEF Wiring, Registry!At

LEMMA ConnectTyped ==
  ASSUME TypeInv, NEW t \in Tab, Connect(t)
  PROVE  ClientTypes' /\ Wiring'
<1> DEFINE b == BrowserOf[t]
           s == NewPlace(b)
<1>1. b \in Browser /\ HasPlace(b)
  BY TabTypes DEF Connect
<1>2. s \in Session /\ s # Nowhere /\ \A r \in Tab : conn[r] # s
  BY <1>1, NewPlaceFacts
<1>3. /\ page[t] # "none" /\ conn[t] = Nowhere /\ conn' = [conn EXCEPT ![t] = s]
      /\ UNCHANGED <<registry, server, net, store, page, listed, rekeyed>>
  BY DEF Connect
<1>4. mishap' \in [Browser -> BOOLEAN]
  BY DEF Connect, Hurt, TypeInv, ClientTypes
<1>5. \E kind \in Kind : Start(t, kind)
  BY DEF Connect, Kind
<1>6. task' \in [Tab -> [Kind -> Task]]
  BY <1>5, StartFacts
<1> HIDE DEF b, s
<1>7. ClientTypes'
  BY <1>2, <1>3, <1>4, <1>6 DEF TypeInv, ClientTypes, server, net
<1>8. \A r, q \in Tab : conn'[r] = conn'[q] => r = q \/ conn'[r] = Nowhere
  BY <1>2, <1>3 DEF TypeInv, Wiring, ClientTypes
<1>9. \A r \in Tab : page'[r] = "none" => conn'[r] = Nowhere
  BY <1>2, <1>3 DEF TypeInv, Wiring, ClientTypes
<1>10. ASSUME NEW q \in Session, ~ Connected(q)' PROVE back'[q] = << >>
  <2>1. \A r \in Tab : conn[r] = q => r = t
    BY <1>3, <1>10 DEF Connected, TypeInv, ClientTypes
  <2>2. ~ Connected(q)
    BY <1>3, <2>1, PlaceAssumption DEF Connected
  <2> QED BY <1>3, <2>2 DEF TypeInv, Wiring, net
<1>11. \A q \in Session : ~ Registry!At(q, "ready")' => sock'[q] # << >>
  BY <1>3 DEF TypeInv, Wiring, Registry!At, registry, net
<1> QED BY <1>7, <1>8, <1>9, <1>10, <1>11 DEF Wiring

LEMMA CutQueues ==
  ASSUME TypeInv, NEW b \in Browser, NEW s \in Session, Cut(b, s)
  PROVE  /\ sock' \in [Session -> Seq(Msg)] /\ back' \in [Session -> Seq(Note)]
         /\ \A q \in Session : back'[q] = IF q = s THEN << >> ELSE back[q]
         /\ \A q \in Session : work[q].at # "ready" => sock'[q] # << >>
         /\ \A q \in Session \ {s} : sock'[q] = sock[q]
         /\ mishap' \in [Browser -> BOOLEAN]
         /\ \E n \in 0..Len(sock[s]) :
              /\ work[s].at # "ready" => n > 0
              /\ Len(sock'[s]) = n /\ \A i \in 1..n : sock'[s][i] = sock[s][i]
              /\ Part(sock'[s], sock[s])
              /\ mishap' = [mishap EXCEPT ![b] = @ \/
                              \E i \in n + 1..Len(sock[s]) : Introduces(sock[s][i], b)]
<1>1. /\ sock \in [Session -> Seq(Msg)] /\ back \in [Session -> Seq(Note)]
      /\ mishap \in [Browser -> BOOLEAN]
  BY DEF TypeInv, ClientTypes
<1>2. PICK n \in 0..Len(sock[s]) :
        /\ work[s].at # "ready" => n > 0
        /\ sock' = [sock EXCEPT ![s] = SubSeq(@, 1, n)]
        /\ back' = [back EXCEPT ![s] = << >>]
        /\ mishap' = [mishap EXCEPT ![b] = @ \/
                        \E i \in n + 1..Len(sock[s]) : Introduces(sock[s][i], b)]
  BY DEF Cut, Hurt, Registry!At
<1>3. /\ SubSeq(sock[s], 1, n) \in Seq(Msg) /\ Len(SubSeq(sock[s], 1, n)) = n
      /\ \A i \in 1..n : SubSeq(sock[s], 1, n)[i] = sock[s][i]
      /\ n > 0 => SubSeq(sock[s], 1, n) # << >>
      /\ Part(SubSeq(sock[s], 1, n), sock[s])
  BY <1>1, CutFacts
<1>4. sock'[s] = SubSeq(sock[s], 1, n) /\ \A q \in Session \ {s} : sock'[q] = sock[q]
  BY <1>1, <1>2
<1>5. \A q \in Session : work[q].at # "ready" => sock[q] # << >>
  BY DEF TypeInv, Wiring, Registry!At
<1>6. sock' \in [Session -> Seq(Msg)]
  BY <1>1, <1>2, <1>3
<1>7. << >> \in Seq(Note)
  BY EmptySeq
<1>8. /\ back' \in [Session -> Seq(Note)]
      /\ \A q \in Session : back'[q] = IF q = s THEN << >> ELSE back[q]
  BY <1>1, <1>2, <1>7
<1>9. \A q \in Session : work[q].at # "ready" => sock'[q] # << >>
  BY <1>2, <1>3, <1>4, <1>5
<1>10. mishap' \in [Browser -> BOOLEAN]
  BY <1>1, <1>2
<1> QED BY <1>2, <1>3, <1>4, <1>6, <1>8, <1>9, <1>10

\* The pages, as far as nothing goes over the network.
LEMMA PageTyped ==
  ASSUME TypeInv, NEW t \in Tab, OpenApp(t) \/ GiveUp(t) \/ Click(t)
  PROVE  ClientTypes' /\ Wiring'
<1>1. /\ conn' = conn /\ back' = back /\ sock' = sock /\ work' = work /\ store' = store
      /\ saved' = saved /\ listed' = listed /\ rekeyed' = rekeyed /\ mishap' = mishap
  BY DEF OpenApp, GiveUp, Click, registry, server, net, past
<1>2. \A q \in Session : work'[q].at # "ready" => sock'[q] # << >>
  BY <1>1 DEF TypeInv, Wiring, Registry!At
<1>3. page' \in [Tab -> Page]
  BY DEF OpenApp, GiveUp, Click, StartOrAuth, TypeInv, ClientTypes, Page
<1>4. task' \in [Tab -> [Kind -> Task]]
  <2>1. CASE OpenApp(t)
    BY <2>1 DEF OpenApp, TypeInv, ClientTypes
  <2>2. CASE GiveUp(t)
    BY <2>2, TasksForgotten DEF GiveUp
  <2>3. CASE Click(t)
    BY <2>3, StartFacts DEF Click, StartOrAuth, Kind, TypeInv, ClientTypes
  <2> QED BY <2>1, <2>2, <2>3
<1>5. \A r \in Tab : page'[r] = "none" => page[r] = "none" \/ conn[r] = Nowhere
  BY DEF OpenApp, GiveUp, Click, StartOrAuth, TypeInv, ClientTypes
<1>6. Wiring'
  BY <1>1, <1>2, <1>5, StayWired
<1> QED BY <1>1, <1>3, <1>4, <1>6 DEF TypeInv, ClientTypes

LEMMA LeaveTyped ==
  ASSUME TypeInv, NEW t \in Tab, Break(t) \/ Close(t)
  PROVE  ClientTypes' /\ Wiring'
<1>1. /\ conn' = [conn EXCEPT ![t] = Nowhere] /\ listed' = [listed EXCEPT ![t] = FALSE]
      /\ store' = store /\ saved' = saved /\ rekeyed' = rekeyed /\ work' = work
      /\ \/ Disconnected(t)
         \/ conn[t] = Nowhere /\ back' = back /\ sock' = sock /\ mishap' = mishap
  BY DEF Break, Close, registry, net, past
<1>2. page' \in [Tab -> Page] /\ \A r \in Tab \ {t} : page'[r] = page[r]
  BY DEF Break, Close, TypeInv, ClientTypes, Page
<1>3. task' \in [Tab -> [Kind -> Task]]
  BY TasksForgotten DEF Break, Close, TypeInv, ClientTypes
<1>4. /\ sock' \in [Session -> Seq(Msg)] /\ back' \in [Session -> Seq(Note)]
      /\ \A q \in Session : back'[q] = IF q = conn[t] THEN << >> ELSE back[q]
      /\ \A q \in Session : work[q].at # "ready" => sock'[q] # << >>
      /\ mishap' \in [Browser -> BOOLEAN]
  <2>1. CASE Disconnected(t)
    <3>1. conn[t] \in Session /\ BrowserOf[t] \in Browser /\ Cut(BrowserOf[t], conn[t])
      BY <2>1, TabTypes DEF Disconnected
    <3> QED BY <3>1, CutQueues
  <2>2. CASE conn[t] = Nowhere /\ back' = back /\ sock' = sock /\ mishap' = mishap
    BY <2>2, PlaceAssumption DEF TypeInv, ClientTypes, Wiring, Registry!At
  <2> QED BY <1>1, <2>1, <2>2
<1>5. Wiring'
  BY <1>1, <1>2, <1>4, LeaveWired
<1> QED BY <1>1, <1>2, <1>3, <1>4, <1>5 DEF TypeInv, ClientTypes

LEMMA TaskStepTyped ==
  ASSUME TypeInv, NEW t \in Tab, NEW kind \in Kind, TaskStep(t, kind)
  PROVE  ClientTypes' /\ Wiring'
<1>1. /\ conn' = conn /\ back' = back /\ page' = page /\ work' = work
      /\ saved' = saved /\ listed' = listed
  BY DEF TaskStep, ReadKeyId, FinishSigned, FinishReKey, FinishReKeyThrows, registry, server,
         net, past
<1>2. "rekey" \in Kind /\ Idle \in Task /\ task[t]["rekey"] \in Task
  BY TabTypes, TaskTypes DEF Kind
<1>3. task' \in [Tab -> [Kind -> Task]]
  <2>1. CASE ReadKeyId(t, kind)
    <3> DEFINE x == IF Home(t).key = NoKey THEN Idle
                    ELSE [task[t][kind] EXCEPT !.at = "sign", !.id = Home(t).key]
    <3>1. x \in Task
      BY TabTypes, TaskTypes
    <3>2. task' = [task EXCEPT ![t][kind] = x]
      BY <2>1 DEF ReadKeyId
    <3> QED BY <3>1, <3>2, TaskUpdate
  <2>2. CASE task' = [task EXCEPT ![t][kind] = Idle]
    BY <1>2, <2>2, TaskUpdate
  <2>3. CASE task' = [task EXCEPT ![t]["rekey"] = Idle]
    BY <1>2, <2>3, TaskUpdate
  <2> QED BY <2>1, <2>2, <2>3 DEF TaskStep, FinishSigned, FinishReKey, FinishReKeyThrows
<1>4. \A r \in Tab : page'[r] = "none" => page[r] = "none" \/ conn[r] = Nowhere
  BY <1>1
<1>5. \A q \in Session : work[q].at # "ready" => sock[q] # << >>
  BY DEF TypeInv, Wiring, Registry!At
<1>6. CASE ReadKeyId(t, kind) \/ FinishReKeyThrows(t)
  <2>1. sock' = sock /\ store' = store /\ rekeyed' = rekeyed /\ mishap' = mishap
    BY <1>6 DEF ReadKeyId, FinishReKeyThrows, net, past
  <2>2. Wiring'
    BY <1>1, <1>4, <1>5, <2>1, StayWired
  <2> QED BY <1>1, <1>3, <2>1, <2>2 DEF TypeInv, ClientTypes
<1>7. CASE FinishSigned(t, kind)
  <2>1. store' = store /\ rekeyed' = rekeyed /\ mishap' = mishap
    BY <1>7 DEF FinishSigned, past
  <2>2. Signed(kind, task[t][kind], NoKey) \in Msg
    BY TabTypes, MsgTypes DEF MaybeKey
  <2>3. sock' \in [Session -> Seq(Msg)] /\ \A q \in Session : sock[q] # << >> => sock'[q] # << >>
    BY <1>7, <2>2, SendFacts DEF FinishSigned
  <2>4. Wiring'
    BY <1>1, <1>4, <1>5, <2>3, StayWired
  <2> QED BY <1>1, <1>3, <2>1, <2>3, <2>4 DEF TypeInv, ClientTypes
<1>8. CASE FinishReKey(t)
  <2> DEFINE b == BrowserOf[t]
             k == FreshKey(b)
  <2>1. b \in Browser /\ HasFreshKey(b)
    BY <1>8, TabTypes DEF FinishReKey
  <2>2. k \in MaybeKey
    BY <2>1, FreshKeyFacts DEF MaybeKey
  <2>3. /\ Send(t, Signed("rekey", task[t]["rekey"], k))
        /\ store' = [store EXCEPT ![b] = [key |-> k, added |-> clock]]
        /\ rekeyed' = [rekeyed EXCEPT ![b] = TRUE]
        /\ mishap' = [mishap EXCEPT ![b] = @ \/ conn[t] = Nowhere]
    BY <1>8 DEF FinishReKey, Hurt
  <2> HIDE DEF b, k
  <2>4. Signed("rekey", task[t]["rekey"], k) \in Msg
    BY <1>2, <2>2, MsgTypes
  <2>5. sock' \in [Session -> Seq(Msg)] /\ \A q \in Session : sock[q] # << >> => sock'[q] # << >>
    BY <2>3, <2>4, SendFacts
  <2>6. Wiring'
    BY <1>1, <1>4, <1>5, <2>5, StayWired
  <2>7. clock \in 0..MaxTime
    BY Types
  <2>8. store' \in [Browser -> [key : MaybeKey, added : 0..MaxTime]]
    BY <2>1, <2>2, <2>3, <2>7 DEF TypeInv, ClientTypes
  <2>9. rekeyed' \in [Browser -> BOOLEAN] /\ mishap' \in [Browser -> BOOLEAN]
    BY <2>1, <2>3 DEF TypeInv, ClientTypes
  <2> QED BY <1>1, <1>3, <2>5, <2>6, <2>8, <2>9 DEF TypeInv, ClientTypes
<1> QED BY <1>6, <1>7, <1>8 DEF TaskStep

LEMMA NoteFacts ==
  ASSUME NEW q \in Seq(Note), q # << >>
  PROVE  Tail(q) \in Seq(Note)
BY EmptySeq, HeadTailProperties

LEMMA ReceiveTyped ==
  ASSUME TypeInv, NEW t \in Tab, Receive(t)
  PROVE  ClientTypes' /\ Wiring'
<1>1. /\ work' = work /\ saved' = saved /\ rekeyed' = rekeyed /\ mishap' = mishap
  BY DEF Receive, ReceiveChallenge, ReceiveRegistered, ReceiveUnregistered, ReceiveAuthOk,
         ReceiveAuthFail, ReceiveSnapshot, registry, server, tabs, past
<1>2. conn[t] \in Session /\ back[conn[t]] # << >>
  BY TabTypes DEF Receive, ReceiveChallenge, ReceiveRegistered, ReceiveUnregistered,
                  ReceiveAuthOk, ReceiveAuthFail, ReceiveSnapshot, Incoming
<1>3. \A q \in Session : work[q].at # "ready" => sock[q] # << >>
  BY DEF TypeInv, Wiring, Registry!At
<1>4. sock' \in [Session -> Seq(Msg)] /\ \A q \in Session : sock[q] # << >> => sock'[q] # << >>
  <2>1. CASE ReceiveChallenge(t)
    BY <2>1, MsgTypes, SendFacts DEF ReceiveChallenge
  <2>2. CASE sock' = sock
    BY <2>2 DEF TypeInv, ClientTypes
  <2> QED BY <2>1, <2>2 DEF Receive, ReceiveRegistered, ReceiveUnregistered, ReceiveAuthOk,
                            ReceiveAuthFail, ReceiveSnapshot
<1>5. page' \in [Tab -> Page] /\ \A r \in Tab \ {t} : page'[r] = page[r]
  BY DEF Receive, ReceiveChallenge, ReceiveRegistered, ReceiveUnregistered, ReceiveAuthOk,
         ReceiveAuthFail, ReceiveSnapshot, tabs, TypeInv, ClientTypes, Page
<1>6. store' \in [Browser -> [key : MaybeKey, added : 0..MaxTime]]
  <2>1. CASE store' = [store EXCEPT ![BrowserOf[t]].key = NoKey]
    BY <2>1 DEF TypeInv, ClientTypes, MaybeKey
  <2>2. CASE store' = store
    BY <2>2 DEF TypeInv, ClientTypes
  <2> QED BY <2>1, <2>2 DEF Receive, ReceiveChallenge, ReceiveRegistered, ReceiveUnregistered,
                            ReceiveAuthOk, ReceiveAuthFail, ReceiveSnapshot, tabs
<1>7. task' \in [Tab -> [Kind -> Task]]
  <2>1. CASE Start(t, "list")
    BY <2>1, StartFacts DEF Kind
  <2>2. CASE task' = task
    BY <2>2 DEF TypeInv, ClientTypes
  <2> QED BY <2>1, <2>2 DEF Receive, ReceiveChallenge, ReceiveRegistered, ReceiveUnregistered,
                            ReceiveAuthOk, ReceiveAuthFail, ReceiveSnapshot, tabs
<1>8. listed' \in [Tab -> BOOLEAN]
  BY DEF Receive, ReceiveChallenge, ReceiveRegistered, ReceiveUnregistered, ReceiveAuthOk,
         ReceiveAuthFail, ReceiveSnapshot, tabs, TypeInv, ClientTypes
<1>9. CASE ReceiveRegistered(t) \/ ReceiveUnregistered(t)
  <2>1. conn' = [conn EXCEPT ![t] = Nowhere] /\ back' = [back EXCEPT ![conn[t]] = << >>]
    BY <1>9 DEF ReceiveRegistered, ReceiveUnregistered
  <2>2. << >> \in Seq(Note)
    BY EmptySeq
  <2>3. /\ back' \in [Session -> Seq(Note)]
        /\ \A q \in Session : back'[q] = IF q = conn[t] THEN << >> ELSE back[q]
    BY <1>2, <2>1, <2>2 DEF TypeInv, ClientTypes
  <2>4. Wiring'
    BY <1>1, <1>3, <1>4, <1>5, <2>1, <2>3, LeaveWired
  <2>5. conn' \in [Tab -> Session \cup {Nowhere}]
    BY <2>1 DEF TypeInv, ClientTypes
  <2> QED BY <1>1, <1>4, <1>5, <1>6, <1>7, <1>8, <2>3, <2>4, <2>5 DEF TypeInv, ClientTypes
<1>10. CASE conn' = conn /\ Pop(t)
  <2>1. /\ back' \in [Session -> Seq(Note)]
        /\ \A q \in Session \ {conn[t]} : back'[q] = back[q]
    BY <1>2, <1>10, NoteFacts DEF Pop, TypeInv, ClientTypes
  <2>2. \A r \in Tab : page'[r] = "none" => page[r] = "none" \/ conn[r] = Nowhere
    <3>1. page'[t] = page[t] \/ page'[t] \in {"auth", "app"} \/ conn' # conn
      BY <1>2, PlaceAssumption
         DEF Receive, ReceiveChallenge, ReceiveRegistered, ReceiveUnregistered, ReceiveAuthOk,
             ReceiveAuthFail, ReceiveSnapshot, tabs, TypeInv, ClientTypes
    <3> QED BY <1>5, <1>10, <3>1
  <2>3. Wiring'
    BY <1>1, <1>3, <1>4, <1>10, <2>1, <2>2, StayWired DEF Connected
  <2> QED BY <1>1, <1>4, <1>5, <1>6, <1>7, <1>8, <1>10, <2>1, <2>3 DEF TypeInv, ClientTypes
<1> QED BY <1>9, <1>10 DEF Receive, ReceiveChallenge, ReceiveAuthOk, ReceiveAuthFail,
                           ReceiveSnapshot, tabs

-----------------------------------------------------------------------------
(* What each step of the server changes.                                    *)

\* The request of s has been dealt with.
Popped(s) == sock[s] # << >> /\ sock' = [sock EXCEPT ![s] = Tail(@)]

LEMMA HandledFacts ==
  ASSUME TypeInv, NEW s \in Session, sock[s] # << >>, NEW msgs \in Seq(Note), Handled(s, msgs)
  PROVE  /\ Popped(s) /\ sock' \in [Session -> Seq(Msg)]
         /\ back' \in [Session -> Seq(Note)]
         /\ \A q \in Session : ~ Connected(q) => back'[q] = back[q]
<1>1. sock \in [Session -> Seq(Msg)] /\ back \in [Session -> Seq(Note)]
  BY DEF TypeInv, ClientTypes
<1>2. Popped(s)
  BY DEF Handled, Popped
<1>3. Tail(sock[s]) \in Seq(Msg)
  BY <1>1, PopFacts
<1>4. back[s] \o msgs \in Seq(Note)
  BY <1>1, ConcatProperties
<1> QED BY <1>1, <1>2, <1>3, <1>4 DEF Handled, Popped

LEMMA PoppedFacts ==
  ASSUME TypeInv, NEW s \in Session, Popped(s)
  PROVE  /\ sock' \in [Session -> Seq(Msg)] /\ \A q \in Session \ {s} : sock'[q] = sock[q]
         /\ sock[s] \in Seq(Msg) /\ sock[s] # << >> /\ sock[s][1] \in Msg
         /\ Head(sock[s]) = sock[s][1] /\ Len(sock[s]) \in Nat \ {0}
         /\ Len(sock'[s]) = Len(sock[s]) - 1
         /\ \A i \in 1..Len(sock'[s]) : i + 1 \in 1..Len(sock[s]) /\ sock'[s][i] = sock[s][i + 1]
         /\ Part(sock'[s], sock[s])
<1>1. sock \in [Session -> Seq(Msg)]
  BY DEF TypeInv, ClientTypes
<1>2. sock[s] # << >> /\ sock' = [sock EXCEPT ![s] = Tail(sock[s])]
  BY DEF Popped
<1>3. /\ Tail(sock[s]) \in Seq(Msg) /\ Head(sock[s]) = sock[s][1] /\ Head(sock[s]) \in Msg
      /\ Len(sock[s]) \in Nat \ {0} /\ Len(Tail(sock[s])) = Len(sock[s]) - 1
      /\ \A i \in 1..Len(Tail(sock[s])) : i + 1 \in 1..Len(sock[s]) /\ Tail(sock[s])[i] = sock[s][i + 1]
      /\ Part(Tail(sock[s]), sock[s])
  BY <1>1, <1>2, PopFacts
<1>4. sock'[s] = Tail(sock[s]) /\ \A q \in Session \ {s} : sock'[q] = sock[q]
  BY <1>1, <1>2
<1>5. sock' \in [Session -> Seq(Msg)]
  BY <1>1, <1>2, <1>3
<1> QED BY <1>1, <1>2, <1>3, <1>4, <1>5

LEMMA RequestFacts ==
  ASSUME TypeInv, NEW s \in Session, NEW what, Request(s, what)
  PROVE  /\ sock[s] \in Seq(Msg) /\ sock[s] # << >> /\ Head(sock[s]) = sock[s][1]
         /\ sock[s][1] \in Msg /\ sock[s][1].what \in what
         /\ Len(sock[s]) \in Nat \ {0} /\ 1 \in 1..Len(sock[s])
<1>1. sock[s] \in Seq(Msg) /\ sock[s] # << >>
  BY DEF TypeInv, ClientTypes, Request
<1>2. /\ Head(sock[s]) = sock[s][1] /\ Head(sock[s]) \in Msg /\ Len(sock[s]) \in Nat \ {0}
  BY <1>1, PopFacts
<1>3. 1 \in 1..Len(sock[s])
  BY <1>2
<1> QED BY <1>1, <1>2, <1>3 DEF Request

LEMMA WorkFacts ==
  ASSUME TypeInv, NEW s \in Session
  PROVE  /\ work \in [Session -> Registry!Work]
         /\ work[s] \in Registry!Work /\ work[s].user \in User
         /\ Registry!Done(s) =>
              /\ work'[s] = Registry!Ready(SessionUser[s])
              /\ work'[s].at = "ready" /\ work'[s].user = SessionUser[s] /\ work'[s].new = NoKey
              /\ \A q \in Session \ {s} : work'[q] = work[q]
         /\ \A stage : Registry!GoTo(s, stage) =>
              /\ work'[s].at = stage /\ work'[s].user = work[s].user
              /\ work'[s].key = work[s].key /\ work'[s].new = work[s].new
              /\ \A q \in Session \ {s} : work'[q] = work[q]
<1>1. work \in [Session -> Registry!Work]
  BY Types
<1> QED BY <1>1 DEF Registry!Done, Registry!GoTo, Registry!Ready, Registry!Work

\* The notes to the client, if it is there, are the last that changes.
Quiet == sock' = sock /\ back' \in [Session -> Seq(Note)]
            /\ \A q \in Session : ~ Connected(q) => back'[q] = back[q]
Answer(s) == Popped(s) /\ back' \in [Session -> Seq(Note)]
            /\ \A q \in Session : ~ Connected(q) => back'[q] = back[q]

LEMMA NetUnchanged == ASSUME TypeInv, UNCHANGED net PROVE Quiet
BY DEF Quiet, net, TypeInv, ClientTypes

LEMMA NoteTypes ==
  /\ << >> \in Seq(Note) /\ <<"challenge">> \in Seq(Note) /\ <<"fail">> \in Seq(Note)
  /\ <<"snapshot">> \in Seq(Note) /\ <<"ok">> \in Seq(Note)
BY EmptySeq DEF Note

LEMMA HandleLinkFacts ==
  ASSUME TypeInv, NEW s \in Session, HandleLink(s)
  PROVE  /\ Answer(s) /\ sock[s][1].what = "link" /\ work[s].at = "ready"
         /\ SessionUser[s] \in tokens /\ sock[s][1].id \in Registry!KeysOf(SessionUser[s])
         /\ auth'[s] = "PendingChallenge" /\ \A q \in Session \ {s} : auth'[q] = auth[q]
         /\ pending'[s] = sock[s][1].id /\ \A q \in Session \ {s} : pending'[q] = pending[q]
         /\ tokens' = tokens /\ pubkeys' = pubkeys /\ work' = work
<1>1. /\ sock[s] # << >> /\ Head(sock[s]) = sock[s][1] /\ sock[s][1].what = "link"
  BY RequestFacts DEF HandleLink
<1>2. Answer(s)
  BY <1>1, NoteTypes, HandledFacts DEF HandleLink, Answer
<1>3. auth \in [Session -> Registry!AuthState] /\ pending \in [Session -> MaybeKey]
  BY Types
<1> QED BY <1>1, <1>2, <1>3 DEF HandleLink, Registry!RequestChallenge, Registry!At

LEMMA HandleConfirmFacts ==
  ASSUME TypeInv, NEW s \in Session, HandleConfirm(s)
  PROVE  /\ Quiet /\ sock[s] # << >> /\ sock[s][1].what = "confirm" /\ work[s].at = "ready"
         /\ auth[s] = "PendingChallenge" /\ pending[s] \in KeyId
         /\ auth'[s] = "Authenticated" /\ \A q \in Session \ {s} : auth'[q] = auth[q]
         /\ pending'[s] = NoKey /\ \A q \in Session \ {s} : pending'[q] = pending[q]
         /\ work'[s].at = "announce" /\ work'[s].user = work[s].user
         /\ work'[s].new = work[s].new /\ \A q \in Session \ {s} : work'[q] = work[q]
         /\ tokens' = tokens
         /\ \A u \in User \ {SessionUser[s]} : pubkeys'[u] = pubkeys[u]
         /\ pubkeys'[SessionUser[s]] = pubkeys[SessionUser[s]] \cup {Registry!NewKey(pending[s])}
<1>1. /\ sock[s] # << >> /\ sock[s][1].what = "confirm"
  BY RequestFacts DEF HandleConfirm
<1>2. Quiet
  BY NetUnchanged DEF HandleConfirm
<1>3. /\ auth \in [Session -> Registry!AuthState] /\ pending \in [Session -> MaybeKey]
      /\ pubkeys \in [User -> SUBSET Registry!PublicKey]
      /\ (auth[s] = "PendingChallenge") = (pending[s] # NoKey)
      /\ SessionUser[s] \in User
  BY Types, RegistryAssumption
<1>4. /\ work'[s].at = "announce" /\ work'[s].user = work[s].user
      /\ work'[s].new = work[s].new /\ \A q \in Session \ {s} : work'[q] = work[q]
  BY WorkFacts DEF HandleConfirm, Registry!ConfirmKey
<1>5. /\ work[s].at = "ready" /\ auth[s] = "PendingChallenge"
      /\ pubkeys' = [pubkeys EXCEPT ![SessionUser[s]] = @ \cup {Registry!NewKey(pending[s])}]
      /\ auth' = [auth EXCEPT ![s] = "Authenticated"] /\ pending' = [pending EXCEPT ![s] = NoKey]
      /\ tokens' = tokens
  BY DEF HandleConfirm, Registry!ConfirmKey, Registry!At
<1>6. pending[s] \in KeyId
  BY <1>3, <1>5 DEF MaybeKey
<1> QED BY <1>1, <1>2, <1>3, <1>4, <1>5, <1>6

LEMMA HandleStaleConfirmFacts ==
  ASSUME TypeInv, NEW s \in Session, HandleStaleConfirm(s)
  PROVE  /\ Answer(s) /\ sock[s][1].what = "confirm" /\ work[s].at = "ready"
         /\ auth'[s] = "Unauthenticated" /\ \A q \in Session \ {s} : auth'[q] = auth[q]
         /\ pending'[s] = NoKey /\ \A q \in Session \ {s} : pending'[q] = pending[q]
         /\ tokens' = tokens /\ pubkeys' = pubkeys /\ work' = work
<1>1. /\ sock[s] # << >> /\ sock[s][1].what = "confirm"
  BY RequestFacts DEF HandleStaleConfirm
<1>2. Answer(s)
  BY <1>1, NoteTypes, HandledFacts DEF HandleStaleConfirm, Answer
<1>3. auth \in [Session -> Registry!AuthState] /\ pending \in [Session -> MaybeKey]
  BY Types
<1> QED BY <1>1, <1>2, <1>3 DEF HandleStaleConfirm, Registry!ConfirmFails, Registry!At

LEMMA AnnounceKeyFacts ==
  ASSUME TypeInv, NEW s \in Session, AnnounceKey(s)
  PROVE  /\ Quiet /\ sock[s] # << >> /\ work[s].at = "announce" /\ work'[s].at = "consume"
         /\ work'[s].user = work[s].user /\ work'[s].new = work[s].new
         /\ \A q \in Session \ {s} : work'[q] = work[q]
         /\ auth' = auth /\ pending' = pending /\ tokens' = tokens /\ pubkeys' = pubkeys
<1>1. work[s].at = "announce"
  BY DEF AnnounceKey, Registry!SendAuthOk, Registry!At
<1>2. sock[s] # << >>
  BY <1>1 DEF TypeInv, Wiring, Registry!At
<1>3. back \in [Session -> Seq(Note)] /\ "ok" \in Note
  BY DEF TypeInv, ClientTypes, Note
<1>4. Append(back[s], "ok") \in Seq(Note)
  BY <1>3, AppendProperties
<1>5. Quiet
  BY <1>3, <1>4 DEF AnnounceKey, Quiet
<1>6. /\ work'[s].at = "consume" /\ work'[s].user = work[s].user
      /\ work'[s].new = work[s].new /\ \A q \in Session \ {s} : work'[q] = work[q]
  BY WorkFacts DEF AnnounceKey, Registry!SendAuthOk
<1> QED BY <1>1, <1>2, <1>5, <1>6 DEF AnnounceKey, Registry!SendAuthOk

LEMMA BurnTokenFacts ==
  ASSUME TypeInv, NEW s \in Session, BurnToken(s)
  PROVE  /\ Answer(s) /\ work[s].at = "consume" /\ work'[s].at = "ready"
         /\ work'[s].user = SessionUser[s] /\ work'[s].new = NoKey
         /\ \A q \in Session \ {s} : work'[q] = work[q]
         /\ auth' = auth /\ pending' = pending /\ tokens' = tokens \ {SessionUser[s]}
         /\ pubkeys' = pubkeys
<1>1. work[s].at = "consume"
  BY DEF BurnToken, Registry!ConsumeInitToken, Registry!At
<1>2. sock[s] # << >>
  BY <1>1 DEF TypeInv, Wiring, Registry!At
<1>3. Answer(s)
  BY <1>2, NoteTypes, HandledFacts DEF BurnToken, Answer
<1>4. /\ work'[s].at = "ready" /\ work'[s].user = SessionUser[s] /\ work'[s].new = NoKey
      /\ \A q \in Session \ {s} : work'[q] = work[q]
  BY WorkFacts DEF BurnToken, Registry!ConsumeInitToken
<1> QED BY <1>1, <1>3, <1>4 DEF BurnToken, Registry!ConsumeInitToken

LEMMA HandleSignedFacts ==
  ASSUME TypeInv, NEW s \in Session, HandleSigned(s)
  PROVE  /\ Quiet /\ sock[s] # << >> /\ sock[s][1].what \in Kind /\ work[s].at = "ready"
         /\ sock[s][1].new \in Registry!KeysOf(SessionUser[s]) \cup {NoKey}
         /\ sock[s][1].id \in Registry!KeysOf(SessionUser[s]) \cup {NoKey}
         /\ \E u \in User : \E r \in pubkeys[u] :
              /\ r.id = sock[s][1].id /\ work'[s].user = u
         /\ work'[s].at = "verified" /\ work'[s].key = sock[s][1].id
         /\ work'[s].new = sock[s][1].new
         /\ \A q \in Session \ {s} : work'[q] = work[q]
         /\ auth' = auth /\ pending' = pending /\ tokens' = tokens /\ pubkeys' = pubkeys
<1>1. /\ sock[s] # << >> /\ sock[s][1].what \in Kind /\ Head(sock[s]) = sock[s][1]
  BY RequestFacts DEF HandleSigned
<1>2. Quiet
  BY NetUnchanged DEF HandleSigned
<1>3. Registry!UserByKeyId(s, sock[s][1].id, sock[s][1].new)
  BY <1>1 DEF HandleSigned
<1>4. PICK u \in User : \E r \in pubkeys[u] :
        /\ r.id = sock[s][1].id
        /\ work' = [work EXCEPT ![s] = [at |-> "verified", user |-> u, key |-> sock[s][1].id,
                                        new |-> sock[s][1].new]]
  BY <1>3 DEF Registry!UserByKeyId
<1>5. work \in [Session -> Registry!Work]
  BY Types
<1>6. /\ work'[s] = [at |-> "verified", user |-> u, key |-> sock[s][1].id, new |-> sock[s][1].new]
      /\ \A q \in Session \ {s} : work'[q] = work[q]
  BY <1>4, <1>5
<1>7. /\ work'[s].at = "verified" /\ work'[s].key = sock[s][1].id
      /\ work'[s].new = sock[s][1].new /\ work'[s].user = u
  BY <1>6
<1> QED BY <1>1, <1>2, <1>3, <1>4, <1>6, <1>7 DEF Registry!UserByKeyId, Registry!At

LEMMA RefuseFacts ==
  ASSUME TypeInv, NEW s \in Session, Refuse(s)
  PROVE  /\ Answer(s) /\ work[s].at = "ready"
         /\ \/ sock[s][1].what = "link" /\ SessionUser[s] \notin tokens
            \/ /\ sock[s][1].what \in Kind
               /\ \/ sock[s][1].priv # sock[s][1].id
                  \/ \A r \in pubkeys[SessionUser[s]] :
                       ~ (r.id = sock[s][1].id /\ Registry!ValidAt(r, clock))
         /\ UNCHANGED registry
         /\ mishap' = [b \in Browser |-> mishap[b] \/
              /\ Introduces(sock[s][1], b)
              /\ \E r \in pubkeys[SessionUser[s]] :
                   r.id = sock[s][1].id /\ ~ Registry!ValidAt(r, clock)]
<1>1. Request(s, {"link"}) \/ Request(s, Kind)
  BY DEF Refuse
<1>2. sock[s] # << >> /\ Head(sock[s]) = sock[s][1]
  BY <1>1, RequestFacts
<1>3. Answer(s)
  BY <1>2, NoteTypes, HandledFacts DEF Refuse, Answer
<1> QED BY <1>2, <1>3 DEF Refuse, Request, Registry!Reject, Registry!At, Registry!vars, registry

\* A signed request goes on: to its re-key, or to its end.
Onward(s) ==
  /\ auth'[s] = "Authenticated" /\ \A q \in Session \ {s} : auth'[q] = auth[q]
  /\ pending'[s] = NoKey /\ \A q \in Session \ {s} : pending'[q] = pending[q]
  /\ work'[s].user \in {work[s].user, SessionUser[s]}
  /\ \A q \in Session \ {s} : work'[q] = work[q]
  /\ \/ work[s].new = NoKey /\ work'[s].new = NoKey /\ work'[s].at = "ready" /\ Answer(s)
        /\ work'[s].user = SessionUser[s]
     \/ /\ work[s].new # NoKey /\ work'[s].at = "rekey" /\ Quiet
        /\ work'[s].new = work[s].new /\ work'[s].key = work[s].key
        /\ work'[s].user = work[s].user

LEMMA ProceedFacts ==
  ASSUME TypeInv, NEW s \in Session, work[s].at # "ready", Registry!Proceed(s), Answered(s)
  PROVE  Onward(s)
<1>1. sock[s] # << >>
  BY DEF TypeInv, Wiring, Registry!At
<1>2. auth \in [Session -> Registry!AuthState] /\ pending \in [Session -> MaybeKey]
  BY Types
<1>3. /\ auth'[s] = "Authenticated" /\ \A q \in Session \ {s} : auth'[q] = auth[q]
      /\ pending'[s] = NoKey /\ \A q \in Session \ {s} : pending'[q] = pending[q]
  BY <1>2 DEF Registry!Proceed
<1>4. CASE work[s].new = NoKey
  <2>1. Registry!Done(s)
    BY <1>4 DEF Registry!Proceed
  <2>2. /\ work'[s].at = "ready" /\ work'[s].user = SessionUser[s] /\ work'[s].new = NoKey
        /\ \A q \in Session \ {s} : work'[q] = work[q]
    BY <2>1, WorkFacts
  <2>3. \E msgs \in Seq(Note) : Handled(s, msgs)
    BY <2>2, NoteTypes DEF Answered, Registry!At
  <2>4. Answer(s)
    BY <1>1, <2>3, HandledFacts DEF Answer
  <2> QED BY <1>3, <1>4, <2>2, <2>4 DEF Onward
<1>5. CASE work[s].new # NoKey
  <2>1. Registry!GoTo(s, "rekey")
    BY <1>5 DEF Registry!Proceed
  <2>2. /\ work'[s].at = "rekey" /\ work'[s].user = work[s].user
        /\ work'[s].key = work[s].key /\ work'[s].new = work[s].new
        /\ \A q \in Session \ {s} : work'[q] = work[q]
    BY <2>1, WorkFacts
  <2>3. Quiet
    BY <2>2, NetUnchanged DEF Answered, Registry!At
  <2> QED BY <1>3, <1>5, <2>2, <2>3 DEF Onward
<1> QED BY <1>4, <1>5

LEMMA CheckRetiringFacts ==
  ASSUME TypeInv, NEW s \in Session, CheckRetiring(s)
  PROVE  /\ work[s].at = "verified" /\ sock[s] # << >>
         /\ tokens' = tokens /\ pubkeys' = pubkeys
         /\ \/ Onward(s)
            \/ /\ Quiet /\ auth' = auth /\ pending' = pending
               /\ work'[s].at = "retire" /\ work'[s].user = work[s].user
               /\ work'[s].key = work[s].key /\ work'[s].new = work[s].new
               /\ \A q \in Session \ {s} : work'[q] = work[q]
<1>1. work[s].at = "verified" /\ tokens' = tokens /\ pubkeys' = pubkeys
  BY DEF CheckRetiring, Registry!CheckRetiring, Registry!At
<1>2. sock[s] # << >>
  BY <1>1 DEF TypeInv, Wiring, Registry!At
<1>3. CASE Registry!Proceed(s)
  BY <1>1, <1>2, <1>3, ProceedFacts DEF CheckRetiring
<1>4. CASE Registry!GoTo(s, "retire") /\ auth' = auth /\ pending' = pending
  <2>1. /\ work'[s].at = "retire" /\ work'[s].user = work[s].user
        /\ work'[s].key = work[s].key /\ work'[s].new = work[s].new
        /\ \A q \in Session \ {s} : work'[q] = work[q]
    BY <1>4, WorkFacts
  <2>2. Quiet
    BY <2>1, NetUnchanged DEF CheckRetiring, Answered, Registry!At
  <2> QED BY <1>1, <1>2, <1>4, <2>1, <2>2
<1> QED BY <1>3, <1>4 DEF CheckRetiring, Registry!CheckRetiring

LEMMA RetireOldKeysFacts ==
  ASSUME TypeInv, NEW s \in Session, RetireOldKeys(s)
  PROVE  /\ work[s].at = "retire" /\ sock[s] # << >> /\ Onward(s) /\ tokens' = tokens
         /\ \A u \in User \ {work[s].user} : pubkeys'[u] = pubkeys[u]
         /\ pubkeys'[work[s].user] =
              {r \in pubkeys[work[s].user] : ~ r.retiring \/ r.id = work[s].key}
<1>1. /\ work[s].at = "retire" /\ tokens' = tokens
      /\ pubkeys' = [pubkeys EXCEPT ![work[s].user] =
                       {r \in @ : ~ r.retiring \/ r.id = work[s].key}]
  BY DEF RetireOldKeys, Registry!RetireOldKeys, Registry!At
<1>2. sock[s] # << >>
  BY <1>1 DEF TypeInv, Wiring, Registry!At
<1>3. Onward(s)
  BY <1>1, ProceedFacts DEF RetireOldKeys, Registry!RetireOldKeys
<1>4. work[s].user \in User /\ pubkeys \in [User -> SUBSET Registry!PublicKey]
  BY WorkFacts, Types
<1> QED BY <1>1, <1>2, <1>3, <1>4

LEMMA ApplyReKeyFacts ==
  ASSUME TypeInv, NEW s \in Session, ApplyReKey(s)
  PROVE  /\ work[s].at = "rekey" /\ Answer(s) /\ work[s].new # NoKey
         /\ work'[s].at = "ready" /\ work'[s].user = SessionUser[s] /\ work'[s].new = NoKey
         /\ \A q \in Session \ {s} : work'[q] = work[q]
         /\ auth' = auth /\ pending' = pending /\ tokens' = tokens
         /\ \A u \in User \ {work[s].user} : pubkeys'[u] = pubkeys[u]
         /\ \/ /\ work[s].new \in Registry!Ids(pubkeys[work[s].user])
               /\ pubkeys'[work[s].user] = pubkeys[work[s].user]
            \/ pubkeys'[work[s].user] =
                 {IF r.id = work[s].key THEN [r EXCEPT !.retiring = TRUE] ELSE r :
                    r \in pubkeys[work[s].user]} \cup {Registry!NewKey(work[s].new)}
<1>1. work[s].at = "rekey" /\ auth' = auth /\ pending' = pending /\ tokens' = tokens
  BY DEF ApplyReKey, Registry!ApplyReKey, Registry!At
<1>2. sock[s] # << >> /\ work[s].new # NoKey
  BY <1>1, Types DEF TypeInv, Wiring, Registry!At
<1>3. \E msgs \in Seq(Note) : Handled(s, msgs)
  BY NoteTypes DEF ApplyReKey
<1>4. Answer(s)
  BY <1>2, <1>3, HandledFacts DEF Answer
<1>5. /\ work'[s].at = "ready" /\ work'[s].user = SessionUser[s] /\ work'[s].new = NoKey
      /\ \A q \in Session \ {s} : work'[q] = work[q]
  BY WorkFacts DEF ApplyReKey, Registry!ApplyReKey
<1>6. work[s].user \in User /\ pubkeys \in [User -> SUBSET Registry!PublicKey]
  BY WorkFacts, Types
<1>7. \/ work[s].new \in Registry!Ids(pubkeys[work[s].user]) /\ pubkeys' = pubkeys
      \/ pubkeys' = [pubkeys EXCEPT ![work[s].user] =
           {IF r.id = work[s].key THEN [r EXCEPT !.retiring = TRUE] ELSE r :
              r \in pubkeys[work[s].user]} \cup {Registry!NewKey(work[s].new)}]
  BY DEF ApplyReKey, Registry!ApplyReKey
<1> QED BY <1>1, <1>2, <1>4, <1>5, <1>6, <1>7

LEMMA EndSessionFacts ==
  ASSUME TypeInv, NEW s \in Session, EndSession(s)
  PROVE  /\ ~ Connected(s) /\ (sock[s] = << >> \/ work[s].at = "announce")
         /\ sock'[s] = << >> /\ sock' \in [Session -> Seq(Msg)]
         /\ \A q \in Session \ {s} : sock'[q] = sock[q]
         /\ back' = back /\ work'[s].at = "ready" /\ work'[s].user = SessionUser[s]
         /\ work'[s].new = NoKey /\ \A q \in Session \ {s} : work'[q] = work[q]
         /\ auth'[s] = "Unauthenticated" /\ \A q \in Session \ {s} : auth'[q] = auth[q]
         /\ pending'[s] = NoKey /\ \A q \in Session \ {s} : pending'[q] = pending[q]
         /\ tokens' = tokens /\ pubkeys' = pubkeys
<1>1. << >> \in Seq(Msg) /\ sock \in [Session -> Seq(Msg)]
  BY EmptySeq DEF TypeInv, ClientTypes
<1>2. auth \in [Session -> Registry!AuthState] /\ pending \in [Session -> MaybeKey]
  BY Types
<1>3. /\ work'[s].at = "ready" /\ work'[s].user = SessionUser[s] /\ work'[s].new = NoKey
      /\ \A q \in Session \ {s} : work'[q] = work[q]
  BY WorkFacts DEF EndSession, Registry!Drop
<1> QED BY <1>1, <1>2, <1>3 DEF EndSession, Registry!Drop, Registry!At

LEMMA ServeTyped ==
  ASSUME TypeInv, NEW s \in Session, Serve(s)
  PROVE  ClientTypes' /\ Wiring'
<1>1. /\ store' = store /\ page' = page /\ conn' = conn /\ task' = task /\ listed' = listed
      /\ rekeyed' = rekeyed /\ saved' = saved
  BY DEF Serve, past, server
<1>2. mishap' \in [Browser -> BOOLEAN]
  <2>1. CASE Refuse(s)
    BY <2>1, RefuseFacts
  <2>2. CASE mishap' = mishap
    BY <2>2 DEF TypeInv, ClientTypes
  <2> QED BY <2>1, <2>2 DEF Serve
<1>3. /\ \/ Answer(s) /\ work'[s].at = "ready"
         \/ Quiet /\ sock[s] # << >>
      /\ \A q \in Session \ {s} : work'[q] = work[q]
  <2>1. CASE HandleLink(s)
    BY <2>1, HandleLinkFacts
  <2>2. CASE HandleConfirm(s)
    BY <2>2, HandleConfirmFacts
  <2>3. CASE HandleStaleConfirm(s)
    BY <2>3, HandleStaleConfirmFacts
  <2>4. CASE AnnounceKey(s)
    BY <2>4, AnnounceKeyFacts
  <2>5. CASE BurnToken(s)
    BY <2>5, BurnTokenFacts
  <2>6. CASE HandleSigned(s)
    BY <2>6, HandleSignedFacts
  <2>7. CASE Refuse(s)
    BY <2>7, RefuseFacts DEF registry
  <2>8. CASE CheckRetiring(s)
    BY <2>8, CheckRetiringFacts DEF Onward
  <2>9. CASE RetireOldKeys(s)
    BY <2>9, RetireOldKeysFacts DEF Onward
  <2>10. CASE ApplyReKey(s)
    BY <2>10, ApplyReKeyFacts
  <2> QED BY <2>1, <2>2, <2>3, <2>4, <2>5, <2>6, <2>7, <2>8, <2>9, <2>10 DEF Serve
<1>4. \A q \in Session : work[q].at # "ready" => sock[q] # << >>
  BY DEF TypeInv, Wiring, Registry!At
<1>5. /\ sock' \in [Session -> Seq(Msg)] /\ back' \in [Session -> Seq(Note)]
      /\ \A q \in Session : ~ Connected(q) => back'[q] = back[q]
      /\ \A q \in Session : work'[q].at # "ready" => sock'[q] # << >>
  <2>1. CASE Answer(s) /\ work'[s].at = "ready"
    <3>1. sock' \in [Session -> Seq(Msg)] /\ \A q \in Session \ {s} : sock'[q] = sock[q]
      BY <2>1, PoppedFacts DEF Answer
    <3> QED BY <1>3, <1>4, <2>1, <3>1 DEF Answer
  <2>2. CASE Quiet /\ sock[s] # << >>
    BY <1>3, <1>4, <2>2 DEF Quiet, TypeInv, ClientTypes
  <2> QED BY <1>3, <2>1, <2>2
<1>6. Wiring'
  BY <1>1, <1>5, StayWired
<1> QED BY <1>1, <1>2, <1>5, <1>6 DEF TypeInv, ClientTypes

LEMMA EndSessionTyped ==
  ASSUME TypeInv, NEW s \in Session, EndSession(s)
  PROVE  ClientTypes' /\ Wiring'
<1>1. /\ store' = store /\ page' = page /\ conn' = conn /\ task' = task /\ listed' = listed
      /\ rekeyed' = rekeyed /\ saved' = saved /\ mishap' = mishap
  BY DEF EndSession, tabs, past, server
<1>2. \A q \in Session : work[q].at # "ready" => sock[q] # << >>
  BY DEF TypeInv, Wiring, Registry!At
<1>3. /\ back' = back /\ \A q \in Session : work'[q].at # "ready" => sock'[q] # << >>
  BY <1>2, EndSessionFacts
<1>4. Wiring'
  BY <1>1, <1>3, StayWired
<1> QED BY <1>1, <1>3, <1>4, EndSessionFacts DEF TypeInv, ClientTypes

LEMMA RestartTyped ==
  ASSUME TypeInv, Restart
  PROVE  ClientTypes' /\ Wiring'
<1>1. /\ store' = store /\ task' = task /\ rekeyed' = rekeyed /\ saved' = saved
      /\ sock' = [s \in Session |-> << >>] /\ back' = [s \in Session |-> << >>]
      /\ conn' = [t \in Tab |-> Nowhere] /\ listed' = [t \in Tab |-> FALSE]
      /\ page' = [t \in Tab |-> IF page[t] = "register" THEN "none" ELSE page[t]]
      /\ \A s \in Session : work'[s].at = "ready"
      /\ mishap' \in [Browser -> BOOLEAN]
  BY DEF Restart, past, Registry!Ready, TypeInv, ClientTypes
<1>2. << >> \in Seq(Msg) /\ << >> \in Seq(Note)
  BY EmptySeq
<1>3. ClientTypes'
  BY <1>1, <1>2 DEF TypeInv, ClientTypes, Page
<1> QED BY <1>1, <1>3 DEF Wiring, Registry!At

LEMMA NextTypeInv ==
  ASSUME TypeInv, [Next]_vars
  PROVE  TypeInv'
<1>1. Keys!TypeInv'
  BY RegistryTyped
<1> SUFFICES ClientTypes' /\ Wiring'
  BY <1>1 DEF TypeInv
<1>2. ASSUME NEW t \in Tab, OpenLink(t)
      PROVE  ClientTypes' /\ Wiring'
  BY <1>2, OpenLinkTyped
<1>3. ASSUME NEW t \in Tab, Connect(t)
      PROVE  ClientTypes' /\ Wiring'
  BY <1>3, ConnectTyped
<1>4. ASSUME NEW t \in Tab, OpenApp(t) \/ GiveUp(t) \/ Click(t)
      PROVE  ClientTypes' /\ Wiring'
  BY <1>4, PageTyped
<1>5. ASSUME NEW t \in Tab, Break(t) \/ Close(t)
      PROVE  ClientTypes' /\ Wiring'
  BY <1>5, LeaveTyped
<1>6. ASSUME NEW t \in Tab, NEW kind \in Kind, TaskStep(t, kind)
      PROVE  ClientTypes' /\ Wiring'
  BY <1>6, TaskStepTyped
<1>7. ASSUME NEW t \in Tab, Receive(t)
      PROVE  ClientTypes' /\ Wiring'
  BY <1>7, ReceiveTyped
<1>8. ASSUME NEW s \in Session, Serve(s) \/ EndSession(s)
      PROVE  ClientTypes' /\ Wiring'
  BY <1>8, ServeTyped, EndSessionTyped
<1>9. CASE Restart
  BY <1>9, RestartTyped
<1>10. CASE Save
  <2>1. /\ tokens \subseteq User /\ pubkeys \in [User -> SUBSET Registry!PublicKey]
    BY Types
  <2>2. saved' \in [tokens : SUBSET User, pubkeys : [User -> SUBSET Registry!PublicKey]]
    BY <1>10, <2>1 DEF Save
  <2> QED BY <1>10, <2>2 DEF Save, TypeInv, ClientTypes, Wiring, Connected, Registry!At,
                             registry, net, tabs, past
<1>11. CASE Tick
  BY <1>11 DEF Tick, Registry!Tick, TypeInv, ClientTypes, Wiring, Connected, Registry!At,
               tabs, net, server, past
<1>12. CASE UNCHANGED vars
  BY <1>12 DEF vars, TypeInv, ClientTypes, Wiring, Connected, Registry!At,
               tabs, net, server, registry, past
<1> QED BY <1>2, <1>3, <1>4, <1>5, <1>6, <1>7, <1>8, <1>9, <1>10, <1>11, <1>12 DEF Next

LEMMA InitTypeInv == Init => TypeInv
<1> SUFFICES ASSUME Init PROVE TypeInv
  OBVIOUS
<1>1. /\ tokens \subseteq User /\ clock = 0 /\ announced \subseteq User
      /\ pubkeys \in [User -> SUBSET {Registry!NewKey(k) : k \in KeyId}]
      /\ auth = [s \in Session |-> "Unauthenticated"] /\ pending = [s \in Session |-> NoKey]
      /\ work = [s \in Session |-> Registry!Ready(SessionUser[s])]
  BY DEF Init, Registry!Init
<1>2. \A k \in KeyId : Registry!NewKey(k) \in Registry!PublicKey
  BY <1>1, RegistryAssumption DEF Registry!NewKey, Registry!PublicKey
<1>3. pubkeys \in [User -> SUBSET Registry!PublicKey]
  BY <1>1, <1>2
<1>4. work \in [Session -> Registry!Work]
  BY <1>1, RegistryAssumption DEF Registry!Ready, Registry!Work, Registry!Stage
<1>5. \A s \in Session : work[s].at = "ready"
  BY <1>1 DEF Registry!Ready
<1>6. clock \in 0..MaxTime
  BY <1>1, RegistryAssumption
<1>7. Registry!TypeOK
  BY <1>1, <1>3, <1>4, <1>5, <1>6 DEF Registry!TypeOK, Registry!AuthState, Registry!At
<1>8. Keys!TypeInv
  BY <1>5, <1>7, SameTypes DEF Registry!At
<1>9. << >> \in Seq(Msg) /\ << >> \in Seq(Note)
  BY EmptySeq
<1>10. {0} \subseteq 0..MaxTime
  BY RegistryAssumption
<1>11. ClientTypes
  <2>1. store \in [Browser -> [key : MaybeKey, added : 0..MaxTime]]
    BY <1>10 DEF Init, MaybeKey
  <2>2. task \in [Tab -> [Kind -> Task]]
    BY TaskTypes DEF Init
  <2>3. saved \in [tokens : SUBSET User, pubkeys : [User -> SUBSET Registry!PublicKey]]
    BY <1>1, <1>3 DEF Init
  <2> QED BY <1>9, <2>1, <2>2, <2>3 DEF Init, ClientTypes, Page
<1>12. Wiring
  BY <1>5 DEF Init, Wiring, Registry!At
<1> QED BY <1>8, <1>11, <1>12 DEF TypeInv

\* Types, one connection to a tab, and a request at the head of the queue while
\* the server is at it.
THEOREM TypeInvariant == Spec => []TypeInv
<1>1. TypeInv /\ [Next]_vars => TypeInv'
  BY NextTypeInv
<1> QED BY InitTypeInv, <1>1, PTL DEF Spec

\* Every run stays among the states TypeOK describes: one connection to a tab,
\* no answer for a tab that is gone, and a request in its place until the
\* server has answered it.
THEOREM TypeCorrect == Spec => []TypeOK
<1>1. TypeInv => TypeOK
  BY Types
<1> QED BY TypeInvariant, <1>1, PTL

-----------------------------------------------------------------------------
(* What each step of a page changes.                                        *)

\* Nobody has the key or refers to it.
Unused(k) ==
  /\ k \in KeyId
  /\ \A c \in Browser : store[c].key # k
  /\ \A u \in User : \A r \in pubkeys[u] \cup saved.pubkeys[u] : r.id # k
  /\ \A s \in Session : pending[s] # k
  /\ \A s \in Session : \A i \in 1..Len(sock[s]) :
       sock[s][i].priv # k /\ sock[s][i].id # k /\ sock[s][i].new # k
  /\ \A t \in Tab : \A kind \in Kind : task[t][kind].priv # k /\ task[t][kind].id # k

\* The server does nothing.
ServerStays ==
  /\ tokens' = tokens /\ pubkeys' = pubkeys /\ auth' = auth /\ pending' = pending
  /\ work' = work /\ saved' = saved /\ clock' = clock

\* Tab t of browser b registers the key k in session s.
Opened(t, b, k, s) ==
  /\ k \in KeyId /\ Unused(k) /\ k \in Registry!KeysOf(Person[b])
  /\ s \in Session /\ SessionUser[s] = Person[b]
  /\ sock[s] = << >> /\ \A r \in Tab : conn[r] # s
  /\ auth[s] = "Unauthenticated" /\ work[s].at = "ready"
  /\ store'[b].key = k /\ \A c \in Browser \ {b} : store'[c] = store[c]
  /\ Len(sock'[s]) = 1 /\ sock'[s][1] = Link(k)
  /\ \A q \in Session \ {s} : sock'[q] = sock[q]
  /\ conn'[t] = s /\ \A r \in Tab \ {t} : conn'[r] = conn[r]

LEMMA OpenLinkFacts ==
  ASSUME TypeInv, NEW t \in Tab, OpenLink(t), NEW b, b = BrowserOf[t]
  PROVE  /\ ServerStays /\ task' = task /\ page[t] = "none" /\ conn[t] = Nowhere /\ b \in Browser
         /\ page'[t] = "register" /\ \A r \in Tab \ {t} : page'[r] = page[r]
         /\ \E k, s : Opened(t, b, k, s)
         /\ rekeyed'[b] = FALSE /\ \A c \in Browser \ {b} : rekeyed'[c] = rekeyed[c]
         /\ mishap' = [c \in Browser |-> mishap[c] \/
              IF c = b THEN Person[b] \notin tokens \/ Registering(Person[b]) \/ ReKeying(b)
                       ELSE Person[c] = Person[b] /\ Waiting(c)]
<1> DEFINE k == FreshKey(b)
           s == NewPlace(b)
<1>1. b \in Browser /\ HasFreshKey(b) /\ HasPlace(b)
  BY TabTypes DEF OpenLink
<1>2. k \in KeyId /\ k \in Registry!KeysOf(Person[b]) /\ Unused(k)
  BY <1>1, FreshKeyFacts DEF Unused
<1>3. /\ s \in Session /\ SessionUser[s] = Person[b] /\ sock[s] = << >>
      /\ \A r \in Tab : conn[r] # s
      /\ auth[s] = "Unauthenticated" /\ work[s].at = "ready"
  BY <1>1, NewPlaceFacts
<1>4. /\ page[t] = "none" /\ store' = [store EXCEPT ![b] = [key |-> k, added |-> clock]]
      /\ page' = [page EXCEPT ![t] = "register"] /\ conn' = [conn EXCEPT ![t] = s]
      /\ sock' = [sock EXCEPT ![s] = <<Link(k)>>]
      /\ rekeyed' = [rekeyed EXCEPT ![b] = FALSE]
  BY DEF OpenLink
<1>5. ServerStays /\ task' = task
  BY DEF OpenLink, ServerStays, registry, server
<1>6. mishap' = [c \in Browser |-> mishap[c] \/
              IF c = b THEN Person[b] \notin tokens \/ Registering(Person[b]) \/ ReKeying(b)
                       ELSE Person[c] = Person[b] /\ Waiting(c)]
  BY DEF OpenLink
<1> HIDE DEF k, s
<1>7. /\ store \in [Browser -> [key : MaybeKey, added : 0..MaxTime]]
      /\ page \in [Tab -> Page] /\ conn \in [Tab -> Session \cup {Nowhere}]
      /\ sock \in [Session -> Seq(Msg)] /\ rekeyed \in [Browser -> BOOLEAN]
      /\ conn[t] = Nowhere
  BY <1>4 DEF TypeInv, ClientTypes, Wiring
<1>8. sock'[s] = <<Link(k)>> /\ \A q \in Session \ {s} : sock'[q] = sock[q]
  BY <1>3, <1>4, <1>7
<1>9. Len(sock'[s]) = 1 /\ sock'[s][1] = Link(k)
  BY <1>8
<1>10. store'[b].key = k /\ \A c \in Browser \ {b} : store'[c] = store[c]
  BY <1>1, <1>4, <1>7
<1>11. conn'[t] = s /\ \A r \in Tab \ {t} : conn'[r] = conn[r]
  BY <1>4, <1>7
<1>12. page'[t] = "register" /\ \A r \in Tab \ {t} : page'[r] = page[r]
  BY <1>4, <1>7
<1>13. rekeyed'[b] = FALSE /\ \A c \in Browser \ {b} : rekeyed'[c] = rekeyed[c]
  BY <1>1, <1>4, <1>7
<1>14. Opened(t, b, k, s)
  BY <1>2, <1>3, <1>8, <1>9, <1>10, <1>11 DEF Opened
<1> QED BY <1>1, <1>4, <1>5, <1>6, <1>7, <1>12, <1>13, <1>14

\* Tab t of browser b is connected to session s.
Joined(t, b, s) ==
  /\ s \in Session /\ SessionUser[s] = Person[b] /\ \A r \in Tab : conn[r] # s
  /\ sock[s] = << >> /\ auth[s] = "Unauthenticated" /\ work[s].at = "ready"
  /\ conn'[t] = s /\ \A r \in Tab \ {t} : conn'[r] = conn[r]

LEMMA ConnectFacts ==
  ASSUME TypeInv, NEW t \in Tab, Connect(t), NEW b, b = BrowserOf[t]
  PROVE  /\ ServerStays /\ sock' = sock /\ store' = store /\ page' = page /\ rekeyed' = rekeyed
         /\ page[t] \in {"app", "auth"} /\ conn[t] = Nowhere /\ task[t]["rekey"] = Idle
         /\ b \in Browser /\ store[b].key # NoKey
         /\ \A r \in Tab \ {t} : task'[r] = task[r]
         /\ \E s : Joined(t, b, s)
         /\ \/ task'[t]["rekey"] = Idle /\ mishap' = mishap
            \/ /\ task'[t]["rekey"] = [at |-> "import", priv |-> store[b].key, id |-> NoKey]
               /\ mishap'[b] = (mishap[b] \/
                    store[b].key \notin KnownKeys(b) \/ Introducing(b) \/ ReKeying(b))
               /\ \A c \in Browser \ {b} : mishap'[c] = mishap[c]
<1> DEFINE s == NewPlace(b)
<1>1. b \in Browser /\ HasPlace(b)
  BY TabTypes DEF Connect
<1>2. /\ s \in Session /\ SessionUser[s] = Person[b] /\ \A r \in Tab : conn[r] # s
      /\ sock[s] = << >> /\ auth[s] = "Unauthenticated" /\ work[s].at = "ready"
  BY <1>1, NewPlaceFacts
<1>3. /\ page[t] \in {"app", "auth"} /\ conn[t] = Nowhere /\ task[t]["rekey"] = Idle
      /\ store[b].key # NoKey /\ conn' = [conn EXCEPT ![t] = s]
  BY DEF Connect, Home
<1>4. ServerStays /\ sock' = sock /\ store' = store /\ page' = page /\ rekeyed' = rekeyed
  BY DEF Connect, ServerStays, registry, server, net, past
<1> HIDE DEF s
<1>5. conn'[t] = s /\ \A r \in Tab \ {t} : conn'[r] = conn[r]
  BY <1>3 DEF TypeInv, ClientTypes
<1>6. \/ Start(t, "list") /\ mishap' = mishap
      \/ /\ Start(t, "rekey")
         /\ Hurt(b, store[b].key \notin KnownKeys(b) \/ Introducing(b) \/ ReKeying(b))
  BY DEF Connect, Home
<1>7. "list" \in Kind /\ "rekey" \in Kind /\ "rekey" # "list"
  BY DEF Kind
<1>8. /\ \A r \in Tab \ {t} : task'[r] = task[r]
      /\ \/ task'[t]["rekey"] = Idle /\ mishap' = mishap
         \/ /\ task'[t]["rekey"] = [at |-> "import", priv |-> store[b].key, id |-> NoKey]
            /\ mishap'[b] = (mishap[b] \/
                    store[b].key \notin KnownKeys(b) \/ Introducing(b) \/ ReKeying(b))
            /\ \A c \in Browser \ {b} : mishap'[c] = mishap[c]
  <2>1. CASE Start(t, "list") /\ mishap' = mishap
    BY <1>3, <1>7, <2>1, StartFacts
  <2>2. CASE /\ Start(t, "rekey")
             /\ Hurt(b, store[b].key \notin KnownKeys(b) \/ Introducing(b) \/ ReKeying(b))
    <3>1. mishap \in [Browser -> BOOLEAN]
      BY DEF TypeInv, ClientTypes
    <3>2. /\ mishap'[b] = (mishap[b] \/
                    store[b].key \notin KnownKeys(b) \/ Introducing(b) \/ ReKeying(b))
          /\ \A c \in Browser \ {b} : mishap'[c] = mishap[c]
      BY <1>1, <2>2, <3>1 DEF Hurt
    <3>3. /\ \A r \in Tab \ {t} : task'[r] = task[r]
          /\ task'[t]["rekey"] = [at |-> "import", priv |-> store[b].key, id |-> NoKey]
      BY <1>7, <2>2, StartFacts DEF Home
    <3> QED BY <3>2, <3>3
  <2> QED BY <1>6, <2>1, <2>2
<1>9. Joined(t, b, s)
  BY <1>2, <1>5 DEF Joined
<1> QED BY <1>1, <1>3, <1>4, <1>8, <1>9

LEMMA PageFacts ==
  ASSUME TypeInv, NEW t \in Tab, OpenApp(t) \/ GiveUp(t) \/ Click(t)
  PROVE  /\ ServerStays /\ sock' = sock /\ store' = store /\ conn' = conn
         /\ rekeyed' = rekeyed /\ mishap' = mishap
         /\ \A r \in Tab : task'[r]["rekey"] \in {task[r]["rekey"], Idle}
         /\ \A r \in Tab \ {t} : page'[r] = page[r]
         /\ \/ page'[t] = page[t] \/ page'[t] \in {"app", "auth"}
            \/ page'[t] = "none" /\ task'[t]["rekey"] = Idle
<1>1. /\ ServerStays /\ sock' = sock /\ store' = store /\ conn' = conn
      /\ rekeyed' = rekeyed /\ mishap' = mishap
  BY DEF OpenApp, GiveUp, Click, ServerStays, registry, server, net, past
<1>2. page \in [Tab -> Page]
  BY DEF TypeInv, ClientTypes
<1>3. "rekey" \in Kind /\ "chore" \in Kind /\ "chore" # "rekey"
  BY DEF Kind
<1>4. CASE OpenApp(t)
  BY <1>1, <1>2, <1>4 DEF OpenApp
<1>5. CASE GiveUp(t)
  <2>1. \A r \in Tab \ {t} : task'[r] = task[r]
    BY <1>5, TasksForgotten DEF GiveUp
  <2>2. task'[t]["rekey"] = Idle
    BY <1>3, <1>5, TasksForgotten DEF GiveUp
  <2> QED BY <1>1, <1>2, <1>5, <2>1, <2>2 DEF GiveUp
<1>6. CASE Click(t)
  <2>1. \A r \in Tab : task'[r]["rekey"] = task[r]["rekey"]
    <3>1. CASE Start(t, "chore")
      <4>1. /\ \A r \in Tab \ {t} : task'[r] = task[r]
            /\ \A knd \in Kind \ {"chore"} : task'[t][knd] = task[t][knd]
        BY <1>3, <3>1, StartFacts
      <4> QED BY <1>3, <4>1
    <3>2. CASE task' = task
      BY <3>2
    <3> QED BY <1>6, <3>1, <3>2 DEF Click, StartOrAuth
  <2> QED BY <1>1, <1>2, <1>6, <2>1 DEF Click, StartOrAuth
<1> QED BY <1>4, <1>5, <1>6

LEMMA LeaveFacts ==
  ASSUME TypeInv, NEW t \in Tab, Break(t) \/ Close(t), NEW b, b = BrowserOf[t]
  PROVE  /\ ServerStays /\ store' = store /\ rekeyed' = rekeyed /\ b \in Browser
         /\ conn'[t] = Nowhere /\ \A r \in Tab \ {t} : conn'[r] = conn[r]
         /\ page'[t] # "register" /\ \A r \in Tab \ {t} : page'[r] = page[r]
         /\ page'[t] = "none" => page[t] = "register" \/ task'[t]["rekey"] = Idle
         /\ \A r \in Tab : task'[r]["rekey"] \in {task[r]["rekey"], Idle}
         /\ \/ conn[t] = Nowhere /\ sock' = sock /\ mishap' = mishap
            \/ \E s \in Session : conn[t] = s /\ Cut(b, s)
<1>1. ServerStays /\ store' = store /\ rekeyed' = rekeyed
  BY DEF Break, Close, ServerStays, registry, past
<1>2. /\ page \in [Tab -> Page] /\ conn \in [Tab -> Session \cup {Nowhere}]
      /\ b \in Browser /\ "rekey" \in Kind
  BY TabTypes DEF TypeInv, ClientTypes, Kind
<1>3. conn'[t] = Nowhere /\ \A r \in Tab \ {t} : conn'[r] = conn[r]
  BY <1>2 DEF Break, Close
<1>4. /\ \/ conn[t] = Nowhere /\ sock' = sock /\ mishap' = mishap
         \/ \E s \in Session : conn[t] = s /\ Cut(b, s)
  BY <1>2 DEF Break, Close, Disconnected, net
<1>5. CASE Break(t)
  <2>1. page[t] # "none"
    BY <1>5 DEF Break, Disconnected, TypeInv, Wiring
  <2>2. /\ page'[t] = IF page[t] = "register" THEN "none" ELSE page[t]
        /\ \A r \in Tab \ {t} : page'[r] = page[r]
        /\ task' = task
    BY <1>2, <1>5 DEF Break
  <2> QED BY <1>1, <1>2, <1>3, <1>4, <2>1, <2>2
<1>6. CASE Close(t)
  <2>1. page'[t] = "none" /\ \A r \in Tab \ {t} : page'[r] = page[r]
    BY <1>2, <1>6 DEF Close
  <2>2. task'[t]["rekey"] = Idle /\ \A r \in Tab \ {t} : task'[r] = task[r]
    BY <1>2, <1>6, TasksForgotten DEF Close
  <2> QED BY <1>1, <1>2, <1>3, <1>4, <2>1, <2>2
<1> QED BY <1>5, <1>6

\* The sends that change nothing but the task.
LEMMA ReadFacts ==
  ASSUME TypeInv, NEW t \in Tab, NEW kind \in Kind,
         ReadKeyId(t, kind) \/ FinishReKeyThrows(t), NEW b, b = BrowserOf[t]
  PROVE  /\ ServerStays /\ sock' = sock /\ store' = store /\ page' = page /\ conn' = conn
         /\ rekeyed' = rekeyed /\ mishap' = mishap /\ b \in Browser
         /\ \A r \in Tab \ {t} : task'[r] = task[r]
         /\ \/ task'[t]["rekey"] \in {task[t]["rekey"], Idle}
            \/ /\ task[t]["rekey"].at = "import" /\ store[b].key # NoKey
               /\ task'[t]["rekey"].at = "sign"
               /\ task'[t]["rekey"].priv = task[t]["rekey"].priv
               /\ task'[t]["rekey"].id = store[b].key
<1>1. /\ ServerStays /\ sock' = sock /\ store' = store /\ page' = page /\ conn' = conn
      /\ rekeyed' = rekeyed /\ mishap' = mishap
  BY DEF ReadKeyId, FinishReKeyThrows, ServerStays, registry, server, net, past
<1>2. /\ b \in Browser /\ "rekey" \in Kind /\ Idle \in Task /\ store[b].key \in MaybeKey
      /\ task[t][kind] \in Task
  BY TabTypes, TaskTypes DEF Kind
<1>3. CASE ReadKeyId(t, kind)
  <2> DEFINE j == [task[t][kind] EXCEPT !.at = "sign", !.id = store[b].key]
             x == IF store[b].key = NoKey THEN Idle ELSE j
  <2>1. j \in Task /\ j.at = "sign" /\ j.priv = task[t][kind].priv /\ j.id = store[b].key
    BY <1>2, TaskTypes
  <2>2. task' = [task EXCEPT ![t][kind] = x] /\ task[t][kind].at = "import"
    BY <1>3 DEF ReadKeyId, Home
  <2> HIDE DEF j
  <2>3. x \in Task /\ x \in {Idle, j} /\ (x = j => store[b].key # NoKey \/ j = Idle)
    BY <1>2, <2>1
  <2> HIDE DEF x
  <2>4. /\ \A r \in Tab \ {t} : task'[r] = task[r]
        /\ \A knd \in Kind \ {kind} : task'[t][knd] = task[t][knd]
        /\ task'[t][kind] = x
    BY <2>2, <2>3, TaskUpdate
  <2>5. Idle.at # "sign"
    BY DEF Idle
  <2> QED BY <1>1, <1>2, <2>1, <2>2, <2>3, <2>4, <2>5
<1>4. CASE FinishReKeyThrows(t)
  <2>1. task' = [task EXCEPT ![t]["rekey"] = Idle]
    BY <1>4 DEF FinishReKeyThrows
  <2>2. /\ \A r \in Tab \ {t} : task'[r] = task[r]
        /\ task'[t]["rekey"] = Idle
    BY <1>2, <2>1, TaskUpdate
  <2> QED BY <1>1, <1>2, <2>2
<1> QED BY <1>3, <1>4

LEMMA FinishSignedFacts ==
  ASSUME TypeInv, NEW t \in Tab, NEW kind \in Kind, FinishSigned(t, kind)
  PROVE  /\ ServerStays /\ store' = store /\ page' = page /\ conn' = conn
         /\ rekeyed' = rekeyed /\ mishap' = mishap
         /\ \A r \in Tab : task'[r]["rekey"] = task[r]["rekey"]
         /\ \E m \in Msg : m.what \in {"list", "chore"} /\ m.new = NoKey /\ Send(t, m)
<1>1. /\ ServerStays /\ store' = store /\ page' = page /\ conn' = conn
      /\ rekeyed' = rekeyed /\ mishap' = mishap
  BY DEF FinishSigned, ServerStays, registry, server, past
<1>2. kind # "rekey" /\ task' = [task EXCEPT ![t][kind] = Idle]
  BY DEF FinishSigned
<1>3. /\ \A r \in Tab \ {t} : task'[r] = task[r]
      /\ \A knd \in Kind \ {kind} : task'[t][knd] = task[t][knd]
  BY <1>2, TaskTypes, TaskUpdate
<1>4. \A r \in Tab : task'[r]["rekey"] = task[r]["rekey"]
  BY <1>2, <1>3 DEF Kind
<1> DEFINE m == Signed(kind, task[t][kind], NoKey)
<1>5. m \in Msg
  BY TabTypes, MsgTypes DEF MaybeKey
<1>6. m.what \in {"list", "chore"} /\ m.new = NoKey /\ Send(t, m)
  BY <1>2 DEF Signed, Kind, FinishSigned
<1> QED BY <1>1, <1>4, <1>5, <1>6

\* Tab t of browser b sends m to replace the key with k.
Replaced(t, b, j, k, m) ==
  /\ k \in KeyId /\ Unused(k) /\ k \in Registry!KeysOf(Person[b]) /\ m \in Msg
  /\ store'[b].key = k /\ \A c \in Browser \ {b} : store'[c] = store[c]
  /\ m.what = "rekey" /\ m.new = k /\ m.priv = j.priv /\ m.id = j.id
  /\ Send(t, m)

LEMMA FinishReKeyFacts ==
  ASSUME TypeInv, NEW t \in Tab, FinishReKey(t), NEW b, b = BrowserOf[t],
         NEW j, j = task[t]["rekey"]
  PROVE  /\ ServerStays /\ page' = page /\ conn' = conn /\ b \in Browser
         /\ j.at = "sign" /\ task'[t]["rekey"] = Idle
         /\ \A r \in Tab \ {t} : task'[r] = task[r]
         /\ \E k, m : Replaced(t, b, j, k, m)
         /\ rekeyed'[b] = TRUE /\ \A c \in Browser \ {b} : rekeyed'[c] = rekeyed[c]
         /\ mishap'[b] = (mishap[b] \/ conn[t] = Nowhere)
         /\ \A c \in Browser \ {b} : mishap'[c] = mishap[c]
<1> DEFINE k == FreshKey(b)
           m == Signed("rekey", j, k)
<1>1. b \in Browser /\ HasFreshKey(b) /\ "rekey" \in Kind /\ j \in Task
  BY TabTypes DEF FinishReKey, Kind
<1>2. k \in KeyId /\ k \in Registry!KeysOf(Person[b]) /\ Unused(k)
  BY <1>1, FreshKeyFacts DEF Unused
<1>3. ServerStays /\ page' = page /\ conn' = conn
  BY DEF FinishReKey, ServerStays, registry, server
<1>4. /\ store' = [store EXCEPT ![b] = [key |-> k, added |-> clock]]
      /\ rekeyed' = [rekeyed EXCEPT ![b] = TRUE]
      /\ Hurt(b, conn[t] = Nowhere) /\ j.at = "sign" /\ Send(t, m)
      /\ task' = [task EXCEPT ![t]["rekey"] = Idle]
  BY DEF FinishReKey
<1>5. m \in Msg /\ m.what = "rekey" /\ m.new = k /\ m.priv = j.priv /\ m.id = j.id
  BY <1>1, <1>2, MsgTypes DEF MaybeKey, Signed
<1> HIDE DEF k, m
<1>6. /\ store \in [Browser -> [key : MaybeKey, added : 0..MaxTime]]
      /\ rekeyed \in [Browser -> BOOLEAN] /\ mishap \in [Browser -> BOOLEAN]
  BY DEF TypeInv, ClientTypes
<1>7. store'[b].key = k /\ \A c \in Browser \ {b} : store'[c] = store[c]
  BY <1>1, <1>4, <1>6
<1>8. /\ rekeyed'[b] = TRUE /\ \A c \in Browser \ {b} : rekeyed'[c] = rekeyed[c]
      /\ mishap'[b] = (mishap[b] \/ conn[t] = Nowhere)
      /\ \A c \in Browser \ {b} : mishap'[c] = mishap[c]
  BY <1>1, <1>4, <1>6 DEF Hurt
<1>9. task'[t]["rekey"] = Idle /\ \A r \in Tab \ {t} : task'[r] = task[r]
  BY <1>1, <1>4, TaskTypes, TaskUpdate
<1>10. Replaced(t, b, j, k, m)
  BY <1>2, <1>4, <1>5, <1>7 DEF Replaced
<1> QED BY <1>1, <1>3, <1>4, <1>8, <1>9, <1>10

LEMMA ReceiveFacts ==
  ASSUME TypeInv, NEW t \in Tab, Receive(t), NEW b, b = BrowserOf[t]
  PROVE  /\ ServerStays /\ rekeyed' = rekeyed /\ mishap' = mishap /\ b \in Browser
         /\ conn[t] \in Session
         /\ \A r \in Tab : task'[r]["rekey"] = task[r]["rekey"]
         /\ \A c \in Browser \ {b} : store'[c] = store[c]
         /\ store'[b].key \in {store[b].key, NoKey}
         /\ \A r \in Tab \ {t} : page'[r] = page[r] /\ conn'[r] = conn[r]
         /\ \/ conn'[t] = conn[t] /\ page'[t] = page[t]
            \/ conn'[t] = conn[t] /\ page[t] # "register" /\ page'[t] \in {"app", "auth"}
            \/ conn'[t] = Nowhere /\ page[t] = "register" /\ page'[t] \in {"app", "none"}
         /\ sock' = sock \/ (page[t] = "register" /\ Send(t, Confirm))
<1>1. /\ ServerStays /\ rekeyed' = rekeyed /\ mishap' = mishap
  BY DEF Receive, ReceiveChallenge, ReceiveRegistered, ReceiveUnregistered, ReceiveAuthOk,
         ReceiveAuthFail, ReceiveSnapshot, ServerStays, registry, server, tabs, past
<1>2. b \in Browser /\ conn[t] \in Session /\ "rekey" # "list" /\ "list" \in Kind /\ "rekey" \in Kind
  BY TabTypes DEF Receive, ReceiveChallenge, ReceiveRegistered, ReceiveUnregistered,
                  ReceiveAuthOk, ReceiveAuthFail, ReceiveSnapshot, Incoming, Kind
<1>3. /\ page \in [Tab -> Page] /\ conn \in [Tab -> Session \cup {Nowhere}]
      /\ store \in [Browser -> [key : MaybeKey, added : 0..MaxTime]]
  BY DEF TypeInv, ClientTypes
<1>4. \A r \in Tab : task'[r]["rekey"] = task[r]["rekey"]
  <2>1. CASE Start(t, "list")
    BY <1>2, <2>1, StartFacts
  <2>2. CASE task' = task
    BY <2>2
  <2> QED BY <2>1, <2>2 DEF Receive, ReceiveChallenge, ReceiveRegistered, ReceiveUnregistered,
                            ReceiveAuthOk, ReceiveAuthFail, ReceiveSnapshot, tabs
<1>5. /\ \A c \in Browser \ {b} : store'[c] = store[c]
      /\ store'[b].key \in {store[b].key, NoKey}
  <2>1. CASE store' = [store EXCEPT ![b].key = NoKey]
    BY <1>2, <1>3, <2>1
  <2>2. CASE store' = store
    BY <2>2
  <2> QED BY <2>1, <2>2 DEF Receive, ReceiveChallenge, ReceiveRegistered, ReceiveUnregistered,
                            ReceiveAuthOk, ReceiveAuthFail, ReceiveSnapshot, tabs
<1>6. \A r \in Tab \ {t} : page'[r] = page[r] /\ conn'[r] = conn[r]
  BY <1>3 DEF Receive, ReceiveChallenge, ReceiveRegistered, ReceiveUnregistered, ReceiveAuthOk,
              ReceiveAuthFail, ReceiveSnapshot, tabs
<1>7. \/ conn'[t] = conn[t] /\ page'[t] = page[t]
      \/ conn'[t] = conn[t] /\ page[t] # "register" /\ page'[t] \in {"app", "auth"}
      \/ conn'[t] = Nowhere /\ page[t] = "register" /\ page'[t] \in {"app", "none"}
  BY <1>3 DEF Receive, ReceiveChallenge, ReceiveRegistered, ReceiveUnregistered, ReceiveAuthOk,
              ReceiveAuthFail, ReceiveSnapshot, tabs
<1>8. sock' = sock \/ (page[t] = "register" /\ Send(t, Confirm))
  <2>1. CASE ReceiveChallenge(t)
    BY <2>1 DEF ReceiveChallenge
  <2>2. CASE sock' = sock
    BY <2>2
  <2> QED BY <2>1, <2>2 DEF Receive, ReceiveRegistered, ReceiveUnregistered, ReceiveAuthOk,
                            ReceiveAuthFail, ReceiveSnapshot
<1> QED BY <1>1, <1>2, <1>4, <1>5, <1>6, <1>7, <1>8

-----------------------------------------------------------------------------
(* KeyInv: a key is in one browser only.                                    *)

\* The head of every queue is what the server is handling.
HeadInv == \A s \in Session : Handling(s) =>
  sock[s][1].id = work[s].key /\ sock[s][1].new = work[s].new

\* What a step may do to keys: a browser gets a new one or forgets the one it
\* has; a re-key begins with the stored key, reads its id, and is sent with a
\* new key; no stored key begins to retire.
LEMMA KeysKept ==
  ASSUME TypeInv, KeyInv,
         \A b \in Browser : store'[b].key \in {store[b].key, NoKey} \/ Unused(store'[b].key),
         \A b, c \in Browser :
           Unused(store'[b].key) /\ store'[b].key = store'[c].key => b = c,
         \A t \in Tab : LET j == task[t]["rekey"]  n == task'[t]["rekey"] IN
           \/ n \in {j, Idle}
           \/ n = [at |-> "import", priv |-> store[BrowserOf[t]].key, id |-> NoKey]
           \/ /\ n.at = "sign" /\ n.priv = j.priv
              /\ n.id = store[BrowserOf[t]].key /\ n.id # NoKey,
         \A s \in Session : \A i \in 1..Len(sock'[s]) : LET m == sock'[s][i] IN
           \/ m.what # "rekey" /\ m.new = NoKey
           \/ \E j \in 1..Len(sock[s]) : m = sock[s][j]
           \/ m.what = "rekey" /\ m.new \in KeyId /\ \E t \in Tab :
                /\ task[t]["rekey"].at = "sign" /\ m.id = task[t]["rekey"].id
                /\ Unused(store'[BrowserOf[t]].key),
         HeadInv',
         \A u \in User : \A r \in pubkeys'[u] \cup saved'.pubkeys[u] : r.retiring =>
           r.id # NoKey /\ ( \/ \E o \in pubkeys[u] \cup saved.pubkeys[u] : o.retiring /\ o.id = r.id
                             \/ \A b \in Browser : store'[b].key # r.id)
  PROVE  KeyInv'
<1>1. ASSUME NEW b \in Browser, NEW c \in Browser, store'[b].key = store'[c].key, b # c
      PROVE  store'[b].key = NoKey
  BY <1>1 DEF KeyInv
<1>2. ASSUME NEW t \in Tab, NEW b \in Browser, store'[b].key \in TaskKeys(t)', b # BrowserOf[t]
      PROVE  FALSE
  <2> DEFINE j == task[t]["rekey"]
             n == task'[t]["rekey"]
             h == store[BrowserOf[t]].key
             k == store'[b].key
  <2>1. k # NoKey /\ k \in {n.priv, n.id}
    BY <1>2 DEF TaskKeys
  <2>2. k = store[b].key \/ Unused(k)
    BY <2>1
  <2>3. n \in {j, Idle} \/ n = [at |-> "import", priv |-> h, id |-> NoKey]
        \/ (n.priv = j.priv /\ n.id = h)
    OBVIOUS
  <2>4. k \in {j.priv, j.id, h}
    BY <2>1, <2>3 DEF Idle
  <2>5. ~ Unused(k)
    BY <2>4, PlaceAssumption DEF Unused, Kind
  <2>6. k = store[b].key /\ BrowserOf[t] \in Browser
    BY <2>2, <2>5, PlaceAssumption
  <2> HIDE DEF k, n
  <2>7. k \in {j.priv, j.id}
    BY <1>2, <2>1, <2>4, <2>6 DEF KeyInv
  <2> QED BY <1>2, <2>1, <2>6, <2>7 DEF KeyInv, TaskKeys
<1>3. ASSUME NEW t \in Tab, task'[t]["rekey"].at = "sign" PROVE task'[t]["rekey"].id # NoKey
  <2> DEFINE j == task[t]["rekey"]
             n == task'[t]["rekey"]
  <2>1. \/ n \in {j, Idle} \/ n = [at |-> "import", priv |-> store[BrowserOf[t]].key, id |-> NoKey]
        \/ n.id # NoKey
    OBVIOUS
  <2>2. Idle.at # "sign"
    BY DEF Idle
  <2>3. j.at = "sign" => j.id # NoKey
    BY DEF KeyInv
  <2> HIDE DEF j
  <2> QED BY <1>3, <2>1, <2>2, <2>3
<1>4. ASSUME NEW s \in Session, NEW i \in 1..Len(sock'[s]), sock'[s][i].what = "rekey"
      PROVE  sock'[s][i].id # NoKey /\ \A b \in Browser : store'[b].key # sock'[s][i].id
  <2> DEFINE m == sock'[s][i]
  <2>1. CASE \E j \in 1..Len(sock[s]) : m = sock[s][j]
    <3>1. PICK j \in 1..Len(sock[s]) : m = sock[s][j]
      BY <2>1
    <3>2. m.id # NoKey /\ \A b \in Browser : store[b].key # m.id
      BY <1>4, <3>1 DEF KeyInv
    <3>3. ~ Unused(m.id)
      BY <3>1 DEF Unused
    <3> HIDE DEF m
    <3>4. m.id # NoKey /\ \A b \in Browser : store'[b].key # m.id
      BY <3>2, <3>3
    <3> QED BY <3>4 DEF m
  <2>2. CASE \E t \in Tab : /\ task[t]["rekey"].at = "sign" /\ m.id = task[t]["rekey"].id
                            /\ Unused(store'[BrowserOf[t]].key)
    <3>1. PICK t \in Tab : /\ task[t]["rekey"].at = "sign" /\ m.id = task[t]["rekey"].id
                           /\ Unused(store'[BrowserOf[t]].key)
      BY <2>2
    <3> HIDE DEF m
    <3>2. m.id # NoKey /\ m.id \in TaskKeys(t) /\ ~ Unused(m.id)
      BY <3>1 DEF KeyInv, TaskKeys, Unused, Kind
    <3>3. \A b \in Browser : store[b].key = m.id => b = BrowserOf[t]
      BY <3>2 DEF KeyInv
    <3>4. m.id # NoKey /\ \A b \in Browser : store'[b].key # m.id
      BY <3>1, <3>2, <3>3
    <3> QED BY <3>4 DEF m
  <2> QED BY <1>4, <2>1, <2>2
<1>5. ASSUME NEW s \in Session, NEW i \in 1..Len(sock'[s])
      PROVE  (sock'[s][i].what = "rekey") = (sock'[s][i].new # NoKey)
  BY RegistryAssumption DEF KeyInv
<1>6. ASSUME NEW b \in Browser, NEW r \in pubkeys'[Person[b]] \cup saved'.pubkeys[Person[b]],
             r.retiring
      PROVE  store'[b].key # r.id
  <2>1. Person[b] \in User
    BY PlaceAssumption
  <2>2. CASE \E o \in pubkeys[Person[b]] \cup saved.pubkeys[Person[b]] : o.retiring /\ o.id = r.id
    <3>1. store[b].key # r.id /\ ~ Unused(r.id) /\ r.id # NoKey
      BY <1>6, <2>1, <2>2 DEF KeyInv, Unused
    <3> QED BY <3>1
  <2> QED BY <1>6, <2>1, <2>2
<1>7. HeadInv'
  OBVIOUS
<1> QED BY <1>1, <1>2, <1>3, <1>4, <1>5, <1>6, <1>7 DEF KeyInv, HeadInv

LEMMA KeyIds ==
  ASSUME TypeInv, NEW u \in User, NEW r \in pubkeys[u] \cup saved.pubkeys[u]
  PROVE  r \in Registry!PublicKey /\ r.id \in KeyId /\ r.id # NoKey /\ r.retiring \in BOOLEAN
<1>1. pubkeys \in [User -> SUBSET Registry!PublicKey]
  BY Types
<1>2. saved.pubkeys \in [User -> SUBSET Registry!PublicKey]
  BY DEF TypeInv, ClientTypes
<1> QED BY <1>1, <1>2, RegistryAssumption DEF Registry!PublicKey

\* The pages, while the server does nothing.
LEMMA KeysKeptByTabs ==
  ASSUME TypeInv, KeyInv, ServerStays,
         \A b \in Browser : store'[b].key \in {store[b].key, NoKey} \/ Unused(store'[b].key),
         \A b, c \in Browser :
           Unused(store'[b].key) /\ store'[b].key = store'[c].key => b = c,
         \A t \in Tab : LET j == task[t]["rekey"]  n == task'[t]["rekey"] IN
           \/ n \in {j, Idle}
           \/ n = [at |-> "import", priv |-> store[BrowserOf[t]].key, id |-> NoKey]
           \/ /\ n.at = "sign" /\ n.priv = j.priv
              /\ n.id = store[BrowserOf[t]].key /\ n.id # NoKey,
         \A s \in Session : \A i \in 1..Len(sock'[s]) : LET m == sock'[s][i] IN
           \/ m.what # "rekey" /\ m.new = NoKey
           \/ \E j \in 1..Len(sock[s]) : m = sock[s][j]
           \/ m.what = "rekey" /\ m.new \in KeyId /\ \E t \in Tab :
                /\ task[t]["rekey"].at = "sign" /\ m.id = task[t]["rekey"].id
                /\ Unused(store'[BrowserOf[t]].key),
         \A s \in Session : work[s].at # "ready" => sock'[s][1] = sock[s][1]
  PROVE  KeyInv'
<1>1. HeadInv'
  BY DEF HeadInv, KeyInv, Handling, ServerStays, Registry!At
<1>2. \A u \in User : \A r \in pubkeys'[u] \cup saved'.pubkeys[u] : r.retiring =>
        r.id # NoKey /\ ( \/ \E o \in pubkeys[u] \cup saved.pubkeys[u] : o.retiring /\ o.id = r.id
                          \/ \A b \in Browser : store'[b].key # r.id)
  BY KeyIds DEF ServerStays
<1> QED BY <1>1, <1>2, KeysKept

\* The server, while the pages do nothing.
LEMMA KeysKeptByServer ==
  ASSUME TypeInv, KeyInv, NEW s \in Session, store' = store, task' = task,
         \/ Answer(s) /\ work'[s].at = "ready"
         \/ Quiet /\ (Handling(s)' => sock[s][1].id = work'[s].key /\ sock[s][1].new = work'[s].new),
         \A q \in Session \ {s} : work'[q] = work[q],
         \A u \in User : \A r \in pubkeys'[u] \cup saved'.pubkeys[u] : r.retiring =>
           r.id # NoKey /\ ( \/ \E o \in pubkeys[u] \cup saved.pubkeys[u] : o.retiring /\ o.id = r.id
                             \/ \A b \in Browser : store[b].key # r.id)
  PROVE  KeyInv'
<1>1. \A b \in Browser : store'[b].key \in {store[b].key, NoKey} \/ Unused(store'[b].key)
  OBVIOUS
<1>2. \A b, c \in Browser : Unused(store'[b].key) /\ store'[b].key = store'[c].key => b = c
  BY DEF Unused
<1>3. \A t \in Tab : task'[t]["rekey"] \in {task[t]["rekey"], Idle}
  OBVIOUS
<1>4. \A q \in Session : \A i \in 1..Len(sock'[q]) :
        \E j \in 1..Len(sock[q]) : sock'[q][i] = sock[q][j]
  <2>1. CASE Answer(s)
    <3>1. /\ \A q \in Session \ {s} : sock'[q] = sock[q]
          /\ \A i \in 1..Len(sock'[s]) : i + 1 \in 1..Len(sock[s]) /\ sock'[s][i] = sock[s][i + 1]
      BY <2>1, PoppedFacts DEF Answer
    <3> QED BY <3>1
  <2>2. CASE Quiet
    BY <2>2 DEF Quiet
  <2> QED BY <2>1, <2>2
<1>5. HeadInv'
  <2>1. \A q \in Session \ {s} : Handling(q)' => Handling(q) /\ sock'[q] = sock[q]
    <3>1. \A q \in Session \ {s} : sock'[q] = sock[q]
      <4>1. CASE Answer(s)
        BY <4>1, PoppedFacts DEF Answer
      <4>2. CASE Quiet
        BY <4>2 DEF Quiet
      <4> QED BY <4>1, <4>2
    <3> QED BY <3>1 DEF Handling, Registry!At
  <2>2. \A q \in Session \ {s} : Handling(q)' =>
          sock'[q][1].id = work'[q].key /\ sock'[q][1].new = work'[q].new
    BY <2>1 DEF KeyInv
  <2>3. Handling(s)' => sock'[s][1].id = work'[s].key /\ sock'[s][1].new = work'[s].new
    BY DEF Handling, Registry!At, Quiet
  <2> QED BY <2>2, <2>3 DEF HeadInv
<1> QED BY <1>1, <1>2, <1>3, <1>4, <1>5, KeysKept

LEMMA OpenLinkKeys ==
  ASSUME TypeInv, KeyInv, NEW t \in Tab, OpenLink(t)
  PROVE  KeyInv'
<1> PICK b : b = BrowserOf[t]
  OBVIOUS
<1>1. ServerStays /\ task' = task
  BY OpenLinkFacts
<1> PICK k, s : Opened(t, b, k, s)
  BY OpenLinkFacts
<1>2. /\ Unused(k) /\ sock[s] = << >> /\ work[s].at = "ready"
      /\ store'[b].key = k /\ \A c \in Browser \ {b} : store'[c] = store[c]
      /\ Len(sock'[s]) = 1 /\ sock'[s][1] = Link(k)
      /\ \A q \in Session \ {s} : sock'[q] = sock[q]
  BY DEF Opened
<1>3. \A c \in Browser : store'[c].key \in {store[c].key, NoKey} \/ Unused(store'[c].key)
  BY <1>2
<1>4. \A c, d \in Browser : Unused(store'[c].key) /\ store'[c].key = store'[d].key => c = d
  BY <1>2 DEF Unused
<1>5. \A q \in Session : \A i \in 1..Len(sock'[q]) :
        \/ sock'[q][i].what # "rekey" /\ sock'[q][i].new = NoKey
        \/ \E j \in 1..Len(sock[q]) : sock'[q][i] = sock[q][j]
  BY <1>2 DEF Link
<1>6. \A q \in Session : work[q].at # "ready" => sock'[q][1] = sock[q][1]
  BY <1>2
<1> QED BY <1>1, <1>3, <1>4, <1>5, <1>6, KeysKeptByTabs

LEMMA FinishReKeyKeys ==
  ASSUME TypeInv, KeyInv, NEW t \in Tab, FinishReKey(t)
  PROVE  KeyInv'
<1> PICK b, j : b = BrowserOf[t] /\ j = task[t]["rekey"]
  OBVIOUS
<1>1. /\ ServerStays /\ j.at = "sign" /\ task'[t]["rekey"] = Idle
      /\ \A r \in Tab \ {t} : task'[r] = task[r]
  BY FinishReKeyFacts
<1> PICK k, m : Replaced(t, b, j, k, m)
  BY FinishReKeyFacts
<1>2. /\ Unused(k) /\ k \in KeyId /\ m \in Msg
      /\ store'[b].key = k /\ \A c \in Browser \ {b} : store'[c] = store[c]
      /\ m.what = "rekey" /\ m.new = k /\ m.priv = j.priv /\ m.id = j.id
      /\ Send(t, m)
  BY DEF Replaced
<1>3. /\ \A q \in Session : conn[t] # q => sock'[q] = sock[q]
      /\ \A q \in Session : conn[t] = q =>
              /\ Len(sock'[q]) = Len(sock[q]) + 1 /\ sock'[q][Len(sock[q]) + 1] = m
              /\ \A i \in 1..Len(sock[q]) : sock'[q][i] = sock[q][i]
  BY <1>2, SendFacts
<1>4. \A q \in Session : sock[q] \in Seq(Msg) /\ (work[q].at # "ready" => sock[q] # << >>)
  BY DEF TypeInv, ClientTypes, Wiring, Registry!At
<1>5. \A q \in Session : work[q].at # "ready" => sock'[q][1] = sock[q][1]
  <2>1. \A q \in Session : work[q].at # "ready" => 1 \in 1..Len(sock[q])
    BY <1>4, PopFacts
  <2> QED BY <1>3, <2>1
<1>6. \A r \in Tab : task'[r]["rekey"] \in {task[r]["rekey"], Idle}
  BY <1>1
<1>7. \A c \in Browser : store'[c].key \in {store[c].key, NoKey} \/ Unused(store'[c].key)
  BY <1>2
<1>8. \A c, d \in Browser : Unused(store'[c].key) /\ store'[c].key = store'[d].key => c = d
  BY <1>2 DEF Unused
<1>9. ASSUME NEW q \in Session, NEW i \in 1..Len(sock'[q])
      PROVE  \/ \E x \in 1..Len(sock[q]) : sock'[q][i] = sock[q][x]
             \/ /\ sock'[q][i].what = "rekey" /\ sock'[q][i].new \in KeyId
                /\ \E r \in Tab :
                     /\ task[r]["rekey"].at = "sign" /\ sock'[q][i].id = task[r]["rekey"].id
                     /\ Unused(store'[BrowserOf[r]].key)
  <2>1. CASE conn[t] = q /\ i = Len(sock[q]) + 1
    BY <1>1, <1>2, <1>3, <2>1
  <2>2. CASE ~ (conn[t] = q /\ i = Len(sock[q]) + 1)
    <3>1. i \in 1..Len(sock[q]) /\ sock'[q][i] = sock[q][i]
      BY <1>3, <1>4, <2>2, LenProperties
    <3> QED BY <3>1
  <2> QED BY <2>1, <2>2
<1> QED BY <1>1, <1>5, <1>6, <1>7, <1>8, <1>9, KeysKeptByTabs

\* A message that changes no key is sent.
LEMMA SendKeys ==
  ASSUME TypeInv, KeyInv, ServerStays, NEW t \in Tab, NEW m \in Msg, Send(t, m),
         m.what # "rekey", m.new = NoKey,
         \A b \in Browser : store'[b].key \in {store[b].key, NoKey},
         \A r \in Tab : task'[r]["rekey"] = task[r]["rekey"]
  PROVE  KeyInv'
<1>1. /\ \A q \in Session : conn[t] # q => sock'[q] = sock[q]
      /\ \A q \in Session : conn[t] = q =>
              /\ Len(sock'[q]) = Len(sock[q]) + 1 /\ sock'[q][Len(sock[q]) + 1] = m
              /\ \A i \in 1..Len(sock[q]) : sock'[q][i] = sock[q][i]
  BY SendFacts, Z3
<1>2. \A q \in Session : sock[q] \in Seq(Msg) /\ (work[q].at # "ready" => sock[q] # << >>)
  BY DEF TypeInv, ClientTypes, Wiring, Registry!At
<1>3. \A q \in Session : work[q].at # "ready" => sock'[q][1] = sock[q][1]
  <2>1. \A q \in Session : work[q].at # "ready" => 1 \in 1..Len(sock[q])
    BY <1>2, PopFacts
  <2> QED BY <1>1, <2>1
<1>4. \A q \in Session : \A i \in 1..Len(sock'[q]) :
        \/ sock'[q][i].what # "rekey" /\ sock'[q][i].new = NoKey
        \/ \E j \in 1..Len(sock[q]) : sock'[q][i] = sock[q][j]
  BY <1>1, <1>2, LenProperties
<1>5. \A b, c \in Browser : Unused(store'[b].key) /\ store'[b].key = store'[c].key => b = c
  BY RegistryAssumption DEF Unused
<1> QED BY <1>3, <1>4, <1>5, KeysKeptByTabs

\* No message is new, and no key is.
LEMMA QuietKeys ==
  ASSUME TypeInv, KeyInv, ServerStays, sock' = sock,
         \A b \in Browser : store'[b].key \in {store[b].key, NoKey},
         \A t \in Tab : LET j == task[t]["rekey"]  n == task'[t]["rekey"] IN
           \/ n \in {j, Idle}
           \/ n = [at |-> "import", priv |-> store[BrowserOf[t]].key, id |-> NoKey]
           \/ /\ n.at = "sign" /\ n.priv = j.priv
              /\ n.id = store[BrowserOf[t]].key /\ n.id # NoKey
  PROVE  KeyInv'
<1>1. \A b, c \in Browser : Unused(store'[b].key) /\ store'[b].key = store'[c].key => b = c
  BY RegistryAssumption DEF Unused
<1>2. \A q \in Session : work[q].at # "ready" => sock'[q][1] = sock[q][1]
  OBVIOUS
<1>3. \A q \in Session : \A i \in 1..Len(sock'[q]) :
        \E j \in 1..Len(sock[q]) : sock'[q][i] = sock[q][j]
  OBVIOUS
<1> QED BY <1>1, <1>2, <1>3, KeysKeptByTabs

LEMMA LeaveKeys ==
  ASSUME TypeInv, KeyInv, NEW t \in Tab, Break(t) \/ Close(t)
  PROVE  KeyInv'
<1> DEFINE b == BrowserOf[t]
<1>1. /\ ServerStays /\ store' = store
      /\ \A r \in Tab : task'[r]["rekey"] \in {task[r]["rekey"], Idle}
      /\ b \in Browser
      /\ \/ conn[t] = Nowhere /\ sock' = sock /\ mishap' = mishap
         \/ \E s \in Session : conn[t] = s /\ Cut(b, s)
  BY LeaveFacts
<1> HIDE DEF b
<1>2. CASE sock' = sock
  BY <1>1, <1>2, QuietKeys
<1>3. ASSUME NEW s \in Session, Cut(b, s) PROVE KeyInv'
  <2>1. PICK n \in 0..Len(sock[s]) :
          /\ work[s].at # "ready" => n > 0
          /\ Len(sock'[s]) = n /\ \A i \in 1..n : sock'[s][i] = sock[s][i]
    <3>1. PICK n \in 0..Len(sock[s]) :
            /\ ~ Registry!At(s, "ready") => n > 0
            /\ sock' = [sock EXCEPT ![s] = SubSeq(@, 1, n)]
      BY <1>3 DEF Cut
    <3>2. sock \in [Session -> Seq(Msg)] /\ sock[s] \in Seq(Msg)
      BY DEF TypeInv, ClientTypes
    <3>3. /\ Len(SubSeq(sock[s], 1, n)) = n
          /\ \A i \in 1..n : SubSeq(sock[s], 1, n)[i] = sock[s][i]
      BY <3>2, CutFacts
    <3>4. sock'[s] = SubSeq(sock[s], 1, n)
      BY <3>1, <3>2
    <3> QED BY <3>1, <3>3, <3>4 DEF Registry!At
  <2>2. \A q \in Session \ {s} : sock'[q] = sock[q]
    BY <1>1, <1>3, CutQueues
  <2>3. Len(sock[s]) \in Nat
    BY LenProperties DEF TypeInv, ClientTypes
  <2>4. \A q \in Session : work[q].at # "ready" => sock'[q][1] = sock[q][1]
    BY <2>1, <2>2, <2>3
  <2>5. \A q \in Session : \A i \in 1..Len(sock'[q]) :
          \E j \in 1..Len(sock[q]) : sock'[q][i] = sock[q][j]
    BY <2>1, <2>2, <2>3
  <2>6. \A c, d \in Browser : Unused(store'[c].key) /\ store'[c].key = store'[d].key => c = d
    BY <1>1 DEF Unused
  <2> QED BY <1>1, <2>4, <2>5, <2>6, KeysKeptByTabs
<1> QED BY <1>1, <1>2, <1>3

LEMMA TabKeys ==
  ASSUME TypeInv, KeyInv, NEW t \in Tab,
         \/ OpenLink(t) \/ OpenApp(t) \/ Connect(t) \/ GiveUp(t) \/ Break(t) \/ Close(t)
         \/ Click(t) \/ (\E kind \in Kind : TaskStep(t, kind)) \/ Receive(t)
  PROVE  KeyInv'
<1> DEFINE b == BrowserOf[t]
<1>1. CASE OpenLink(t)
  BY <1>1, OpenLinkKeys
<1>2. CASE Connect(t)
  <2>1. /\ ServerStays /\ sock' = sock /\ store' = store
        /\ \A r \in Tab \ {t} : task'[r] = task[r]
        /\ \/ task'[t]["rekey"] = Idle
           \/ task'[t]["rekey"] = [at |-> "import", priv |-> store[b].key, id |-> NoKey]
    BY <1>2, ConnectFacts
  <2> QED BY <2>1, QuietKeys
<1>3. CASE OpenApp(t) \/ GiveUp(t) \/ Click(t)
  BY <1>3, PageFacts, QuietKeys
<1>4. CASE Break(t) \/ Close(t)
  BY <1>4, LeaveKeys
<1>5. ASSUME NEW kind \in Kind, ReadKeyId(t, kind) \/ FinishReKeyThrows(t)
      PROVE  KeyInv'
  <2>1. /\ ServerStays /\ sock' = sock /\ store' = store
        /\ \A r \in Tab \ {t} : task'[r] = task[r]
        /\ \/ task'[t]["rekey"] \in {task[t]["rekey"], Idle}
           \/ /\ task'[t]["rekey"].at = "sign" /\ store[b].key # NoKey
              /\ task'[t]["rekey"].priv = task[t]["rekey"].priv
              /\ task'[t]["rekey"].id = store[b].key
    BY <1>5, ReadFacts
  <2> QED BY <2>1, QuietKeys
<1>6. ASSUME NEW kind \in Kind, FinishSigned(t, kind)
      PROVE  KeyInv'
  <2>1. /\ ServerStays /\ store' = store
        /\ \A r \in Tab : task'[r]["rekey"] = task[r]["rekey"]
        /\ \E m \in Msg : m.what \in {"list", "chore"} /\ m.new = NoKey /\ Send(t, m)
    BY <1>6, FinishSignedFacts
  <2> QED BY <2>1, SendKeys
<1>7. CASE FinishReKey(t)
  BY <1>7, FinishReKeyKeys
<1>8. CASE Receive(t)
  <2>1. /\ ServerStays /\ b \in Browser
        /\ \A r \in Tab : task'[r]["rekey"] = task[r]["rekey"]
        /\ \A c \in Browser \ {b} : store'[c] = store[c]
        /\ store'[b].key \in {store[b].key, NoKey}
        /\ sock' = sock \/ Send(t, Confirm)
    BY <1>8, ReceiveFacts
  <2>2. CASE sock' = sock
    BY <2>1, <2>2, QuietKeys
  <2>3. CASE Send(t, Confirm)
    <3>1. Confirm \in Msg /\ Confirm.what # "rekey" /\ Confirm.new = NoKey
      BY MsgTypes DEF Confirm
    <3> QED BY <2>1, <2>3, <3>1, SendKeys
  <2> QED BY <2>1, <2>2, <2>3
<1> QED BY <1>1, <1>2, <1>3, <1>4, <1>5, <1>6, <1>7, <1>8 DEF TaskStep

\* No key of u begins to retire that a browser has.
RetiresNone(u) ==
  \A r \in pubkeys'[u] \cup saved'.pubkeys[u] : r.retiring =>
    r.id # NoKey /\ ( \/ \E o \in pubkeys[u] \cup saved.pubkeys[u] : o.retiring /\ o.id = r.id
                      \/ \A b \in Browser : store[b].key # r.id)

LEMMA FewerKeys ==
  ASSUME TypeInv, NEW u \in User, saved' = saved,
         \A r \in pubkeys'[u] : r.retiring => r \in pubkeys[u]
  PROVE  RetiresNone(u)
BY KeyIds DEF RetiresNone

LEMMA ApplyReKeyRetires ==
  ASSUME TypeInv, KeyInv, NEW s \in Session, ApplyReKey(s), saved' = saved, NEW u \in User
  PROVE  RetiresNone(u)
<1>1. /\ work[s].at = "rekey" /\ work[s].new # NoKey /\ sock[s] # << >>
      /\ \A v \in User \ {work[s].user} : pubkeys'[v] = pubkeys[v]
      /\ \/ pubkeys'[work[s].user] = pubkeys[work[s].user]
         \/ pubkeys'[work[s].user] =
              {IF r.id = work[s].key THEN [r EXCEPT !.retiring = TRUE] ELSE r :
                 r \in pubkeys[work[s].user]} \cup {Registry!NewKey(work[s].new)}
  BY ApplyReKeyFacts DEF Answer, Popped
<1>2. CASE pubkeys'[u] = pubkeys[u]
  BY <1>2, FewerKeys
<1>3. CASE u = work[s].user /\ pubkeys'[u] =
             {IF r.id = work[s].key THEN [r EXCEPT !.retiring = TRUE] ELSE r :
                r \in pubkeys[u]} \cup {Registry!NewKey(work[s].new)}
  <2>1. Handling(s) /\ 1 \in 1..Len(sock[s])
    BY <1>1, PopFacts DEF Handling, Registry!At, TypeInv, ClientTypes
  <2>2. sock[s][1].what = "rekey" /\ sock[s][1].id = work[s].key
    BY <1>1, <2>1 DEF KeyInv
  <2>3. work[s].key # NoKey /\ \A b \in Browser : store[b].key # work[s].key
    BY <2>1, <2>2 DEF KeyInv
  <2>4. ASSUME NEW r \in pubkeys'[u], r.retiring
        PROVE  \/ r \in pubkeys[u]
               \/ r.id = work[s].key
    <3>1. CASE r = Registry!NewKey(work[s].new)
      BY <2>4, <3>1 DEF Registry!NewKey
    <3>2. CASE \E o \in pubkeys[u] : r = IF o.id = work[s].key THEN [o EXCEPT !.retiring = TRUE] ELSE o
      <4>1. PICK o \in pubkeys[u] :
              r = IF o.id = work[s].key THEN [o EXCEPT !.retiring = TRUE] ELSE o
        BY <3>2
      <4>2. o \in Registry!PublicKey
        BY KeyIds
      <4> QED BY <4>1, <4>2 DEF Registry!PublicKey
    <3> QED BY <1>3, <3>1, <3>2
  <2> QED BY <2>3, <2>4, KeyIds DEF RetiresNone
<1> QED BY <1>1, <1>2, <1>3

LEMMA ServeKeys ==
  ASSUME TypeInv, KeyInv, NEW s \in Session, Serve(s)
  PROVE  KeyInv'
<1>1. store' = store /\ task' = task /\ saved' = saved
  BY DEF Serve, server
<1>2. pubkeys' = pubkeys => \A u \in User : RetiresNone(u)
  BY <1>1, FewerKeys
<1>3. ASSUME \A u \in User : RetiresNone(u), \A q \in Session \ {s} : work'[q] = work[q],
             \/ Answer(s) /\ work'[s].at = "ready"
             \/ Quiet /\ (Handling(s)' => sock[s][1].id = work'[s].key /\ sock[s][1].new = work'[s].new)
      PROVE  KeyInv'
  <2>1. \A u \in User : \A r \in pubkeys'[u] \cup saved'.pubkeys[u] : r.retiring =>
          r.id # NoKey /\ ( \/ \E o \in pubkeys[u] \cup saved.pubkeys[u] : o.retiring /\ o.id = r.id
                            \/ \A b \in Browser : store[b].key # r.id)
    BY <1>3 DEF RetiresNone
  <2> QED BY <1>1, <1>3, <2>1, KeysKeptByServer
<1>4. CASE HandleLink(s)
  BY <1>2, <1>3, <1>4, HandleLinkFacts
<1>5. CASE HandleConfirm(s)
  <2>1. /\ Quiet /\ work'[s].at = "announce" /\ \A q \in Session \ {s} : work'[q] = work[q]
        /\ \A u \in User \ {SessionUser[s]} : pubkeys'[u] = pubkeys[u]
        /\ pubkeys'[SessionUser[s]] = pubkeys[SessionUser[s]] \cup {Registry!NewKey(pending[s])}
    BY <1>5, HandleConfirmFacts
  <2>2. \A u \in User : \A r \in pubkeys'[u] : r.retiring => r \in pubkeys[u]
    BY <2>1 DEF Registry!NewKey
  <2>3. ~ Handling(s)'
    BY <2>1 DEF Handling, Registry!At
  <2> QED BY <1>1, <1>3, <2>1, <2>2, <2>3, FewerKeys
<1>6. CASE HandleStaleConfirm(s)
  BY <1>2, <1>3, <1>6, HandleStaleConfirmFacts
<1>7. CASE AnnounceKey(s)
  <2>1. /\ Quiet /\ work'[s].at = "consume" /\ \A q \in Session \ {s} : work'[q] = work[q]
        /\ pubkeys' = pubkeys
    BY <1>7, AnnounceKeyFacts
  <2>2. ~ Handling(s)'
    BY <2>1 DEF Handling, Registry!At
  <2> QED BY <1>2, <1>3, <2>1, <2>2
<1>8. CASE BurnToken(s)
  BY <1>2, <1>3, <1>8, BurnTokenFacts
<1>9. CASE HandleSigned(s)
  BY <1>2, <1>3, <1>9, HandleSignedFacts
<1>10. CASE Refuse(s)
  BY <1>2, <1>3, <1>10, RefuseFacts DEF registry
<1>11. work[s].at \in {"verified", "retire"} =>
         sock[s][1].id = work[s].key /\ sock[s][1].new = work[s].new
  BY DEF KeyInv, Handling, Registry!At
<1>12. CASE CheckRetiring(s)
  BY <1>2, <1>3, <1>11, <1>12, CheckRetiringFacts DEF Onward
<1>13. CASE RetireOldKeys(s)
  <2>1. /\ work[s].at = "retire" /\ Onward(s)
        /\ \A u \in User \ {work[s].user} : pubkeys'[u] = pubkeys[u]
        /\ pubkeys'[work[s].user] =
              {r \in pubkeys[work[s].user] : ~ r.retiring \/ r.id = work[s].key}
    BY <1>13, RetireOldKeysFacts
  <2>2. \A u \in User : \A r \in pubkeys'[u] : r \in pubkeys[u]
    BY <2>1
  <2>3. \A u \in User : RetiresNone(u)
    BY <1>1, <2>2, FewerKeys
  <2> QED BY <1>3, <1>11, <2>1, <2>3 DEF Onward
<1>14. CASE ApplyReKey(s)
  BY <1>1, <1>3, <1>14, ApplyReKeyFacts, ApplyReKeyRetires
<1> QED BY <1>4, <1>5, <1>6, <1>7, <1>8, <1>9, <1>10, <1>12, <1>13, <1>14 DEF Serve

LEMMA NextKeyInv ==
  ASSUME TypeInv, KeyInv, [Next]_vars
  PROVE  KeyInv'
<1>1. ASSUME NEW t \in Tab,
             \/ OpenLink(t) \/ OpenApp(t) \/ Connect(t) \/ GiveUp(t) \/ Break(t) \/ Close(t)
             \/ Click(t) \/ (\E kind \in Kind : TaskStep(t, kind)) \/ Receive(t)
      PROVE  KeyInv'
  BY <1>1, TabKeys
<1>2. ASSUME NEW s \in Session, Serve(s)
      PROVE  KeyInv'
  BY <1>2, ServeKeys
<1>3. ASSUME NEW s \in Session, EndSession(s)
      PROVE  KeyInv'
  <2>1. store' = store /\ task' = task /\ saved' = saved
    BY <1>3 DEF EndSession, tabs, server
  <2>2. /\ sock'[s] = << >> /\ \A q \in Session \ {s} : sock'[q] = sock[q]
        /\ work'[s].at = "ready" /\ \A q \in Session \ {s} : work'[q] = work[q]
        /\ pubkeys' = pubkeys
    BY <1>3, EndSessionFacts
  <2>3. \A q \in Session : \A i \in 1..Len(sock'[q]) :
          q # s /\ \E j \in 1..Len(sock[q]) : sock'[q][i] = sock[q][j]
    BY <2>2
  <2>4. HeadInv'
    BY <2>2 DEF HeadInv, KeyInv, Handling, Registry!At
  <2>5. \A u \in User : RetiresNone(u)
    BY <2>1, <2>2, FewerKeys
  <2>6. \A u \in User : \A r \in pubkeys'[u] \cup saved'.pubkeys[u] : r.retiring =>
          r.id # NoKey /\ ( \/ \E o \in pubkeys[u] \cup saved.pubkeys[u] : o.retiring /\ o.id = r.id
                            \/ \A b \in Browser : store'[b].key # r.id)
    BY <2>1, <2>5 DEF RetiresNone
  <2>7. \A b, c \in Browser : Unused(store'[b].key) /\ store'[b].key = store'[c].key => b = c
    BY <2>1 DEF Unused
  <2> QED BY <2>1, <2>3, <2>4, <2>6, <2>7, KeysKept
<1>4. CASE Save
  <2>1. /\ store' = store /\ task' = task /\ sock' = sock /\ work' = work /\ pubkeys' = pubkeys
        /\ saved'.pubkeys = pubkeys
    BY <1>4 DEF Save, registry, net, tabs
  <2> QED BY <2>1 DEF KeyInv, TaskKeys, Handling, Registry!At
<1>5. CASE Restart
  <2>1. /\ store' = store /\ task' = task /\ saved' = saved /\ pubkeys' = saved.pubkeys
        /\ \A s \in Session : work'[s].at = "ready" /\ Len(sock'[s]) = 0
    BY <1>5 DEF Restart, Registry!Ready
  <2> QED BY <2>1 DEF KeyInv, TaskKeys, Handling, Registry!At
<1>6. CASE Tick \/ UNCHANGED vars
  <2>1. /\ store' = store /\ task' = task /\ sock' = sock /\ work' = work /\ pubkeys' = pubkeys
        /\ saved' = saved
    BY <1>6 DEF Tick, Registry!Tick, vars, registry, net, tabs, server
  <2> QED BY <2>1 DEF KeyInv, TaskKeys, Handling, Registry!At
<1> QED BY <1>1, <1>2, <1>3, <1>4, <1>5, <1>6 DEF Next

LEMMA InitKeyInv == Init => KeyInv
<1> SUFFICES ASSUME Init PROVE KeyInv
  OBVIOUS
<1>1. TypeInv
  BY InitTypeInv
<1>2. /\ saved.pubkeys = pubkeys /\ \A t \in Tab : task[t]["rekey"] = Idle
      /\ \A s \in Session : Len(sock[s]) = 0 /\ work[s].at = "ready"
  BY DEF Init, Registry!Init, Registry!Ready, Kind
<1>3. pubkeys \in [User -> SUBSET {Registry!NewKey(k) : k \in KeyId}]
  BY DEF Init, Registry!Init
<1>4. \A u \in User : \A r \in pubkeys[u] : ~ r.retiring
  BY <1>3 DEF Registry!NewKey
<1>5. ASSUME NEW b \in Browser, NEW c \in Browser, store[b].key = store[c].key,
             store[b].key # NoKey
      PROVE  b = c
  <2>1. store[b].key \in Registry!Ids(pubkeys[Person[b]])
    BY <1>5 DEF Init
  <2>2. Registry!Ids(pubkeys[Person[b]]) \subseteq Registry!Ids(UNION {pubkeys[u] : u \in User})
    BY PlaceAssumption DEF Registry!Ids
  <2>3. \E d \in Browser : \A e \in Browser : store[e].key = store[b].key <=> e = d
    BY <2>1, <2>2 DEF Init
  <2> QED BY <1>5, <2>3
<1>6. \A t \in Tab : TaskKeys(t) = {}
  BY <1>2 DEF TaskKeys, Idle
<1> QED BY <1>2, <1>4, <1>5, <1>6, PlaceAssumption DEF KeyInv, Handling, Registry!At, Idle

\* A key is in one browser only, and a key that is being replaced, or is
\* retiring in memory or in db.cbor, is in none any more: initiateReKey has
\* stored its successor before the ReKey could arrive.
THEOREM KeyInvariant == Spec => []KeyInv
<1>1. TypeInv /\ KeyInv /\ [Next]_vars => KeyInv'
  BY NextKeyInv
<1> QED BY TypeInvariant, InitKeyInv, <1>1, PTL DEF Spec

Counted == breaks \in Nat

LEMMA BreaksCounted == Spec => []Counted
<1>1. Init => Counted
  BY DEF Init, Counted
<1>2. Counted /\ [Next]_vars => Counted'
  <2> SUFFICES ASSUME breaks \in Nat, [Next]_vars PROVE breaks' \in {breaks, breaks + 1}
    BY DEF Counted
  <2>1. ASSUME NEW s \in Session, Serve(s) \/ EndSession(s) PROVE breaks' = breaks
    BY <2>1 DEF Serve, EndSession, server
  <2>2. ASSUME NEW t \in Tab, Receive(t) PROVE breaks' = breaks
    BY <2>2 DEF Receive, ReceiveChallenge, ReceiveRegistered, ReceiveUnregistered, ReceiveAuthOk,
                ReceiveAuthFail, ReceiveSnapshot, server
  <2>3. ASSUME NEW t \in Tab, NEW kind \in Kind, TaskStep(t, kind) PROVE breaks' = breaks
    BY <2>3 DEF TaskStep, ReadKeyId, FinishSigned, FinishReKey, FinishReKeyThrows, server
  <2>4. ASSUME NEW t \in Tab,
               OpenLink(t) \/ OpenApp(t) \/ Connect(t) \/ GiveUp(t) \/ Break(t) \/ Close(t) \/ Click(t)
        PROVE  breaks' \in {breaks, breaks + 1}
    BY <2>4 DEF OpenLink, OpenApp, Connect, GiveUp, Break, Close, Disconnected, Click, server
  <2>5. Save \/ Restart \/ Tick \/ UNCHANGED vars => breaks' \in {breaks, breaks + 1}
    BY DEF Save, Restart, Tick, vars, server
  <2> QED BY <2>1, <2>2, <2>3, <2>4, <2>5 DEF Next
<1> QED BY <1>1, <1>2, PTL DEF Spec

\* What the server forgets while it runs was retiring.
LEMMA OnlyRetiringForgotten ==
  ASSUME TypeInv, breaks \in Nat, [Next]_vars, breaks' = breaks, NEW u \in User,
         NEW k \in Registry!Ids(pubkeys[u]), k \notin Registry!Ids(pubkeys'[u])
  PROVE  \E r \in pubkeys[u] : r.id = k /\ r.retiring
<1>1. PICK r \in pubkeys[u] : r.id = k
  BY DEF Registry!Ids
<1>2. r \notin pubkeys'[u] /\ pubkeys' # pubkeys /\ pubkeys'[u] # pubkeys[u]
  BY <1>1 DEF Registry!Ids
<1>3. ASSUME NEW s \in Session, Serve(s) PROVE r.retiring
  <2>1. CASE HandleConfirm(s)
    <3>1. /\ \A v \in User \ {SessionUser[s]} : pubkeys'[v] = pubkeys[v]
          /\ pubkeys'[SessionUser[s]] = pubkeys[SessionUser[s]] \cup {Registry!NewKey(pending[s])}
      BY <2>1, HandleConfirmFacts
    <3> QED BY <1>2, <3>1
  <2>2. CASE RetireOldKeys(s)
    <3>1. /\ \A v \in User \ {work[s].user} : pubkeys'[v] = pubkeys[v]
          /\ pubkeys'[work[s].user] =
               {o \in pubkeys[work[s].user] : ~ o.retiring \/ o.id = work[s].key}
      BY <2>2, RetireOldKeysFacts
    <3> QED BY <1>2, <3>1, KeyIds
  <2>3. CASE ApplyReKey(s)
    <3>1. /\ \A v \in User \ {work[s].user} : pubkeys'[v] = pubkeys[v]
          /\ \/ pubkeys'[work[s].user] = pubkeys[work[s].user]
             \/ pubkeys'[work[s].user] =
                  {IF o.id = work[s].key THEN [o EXCEPT !.retiring = TRUE] ELSE o :
                     o \in pubkeys[work[s].user]} \cup {Registry!NewKey(work[s].new)}
      BY <2>3, ApplyReKeyFacts
    <3>2. u = work[s].user /\ pubkeys'[u] =
             {IF o.id = work[s].key THEN [o EXCEPT !.retiring = TRUE] ELSE o :
                o \in pubkeys[u]} \cup {Registry!NewKey(work[s].new)}
      BY <1>2, <3>1
    <3> DEFINE n == IF r.id = work[s].key THEN [r EXCEPT !.retiring = TRUE] ELSE r
    <3>3. n \in pubkeys'[u]
      BY <3>2
    <3>4. n.id = k
      BY <1>1, KeyIds DEF Registry!PublicKey
    <3> QED BY <3>3, <3>4 DEF Registry!Ids
  <2>4. CASE HandleLink(s)
    BY <1>2, <2>4, HandleLinkFacts
  <2>5. CASE HandleStaleConfirm(s)
    BY <1>2, <2>5, HandleStaleConfirmFacts
  <2>6. CASE AnnounceKey(s)
    BY <1>2, <2>6, AnnounceKeyFacts
  <2>7. CASE BurnToken(s)
    BY <1>2, <2>7, BurnTokenFacts
  <2>8. CASE HandleSigned(s)
    BY <1>2, <2>8, HandleSignedFacts
  <2>9. CASE Refuse(s)
    BY <1>2, <2>9, RefuseFacts DEF registry
  <2>10. CASE CheckRetiring(s)
    BY <1>2, <2>10, CheckRetiringFacts
  <2> QED BY <1>3, <2>1, <2>2, <2>3, <2>4, <2>5, <2>6, <2>7, <2>8, <2>9, <2>10 DEF Serve
<1>4. ASSUME NEW s \in Session, EndSession(s) PROVE FALSE
  BY <1>2, <1>4, EndSessionFacts
<1>5. ~ Restart
  BY DEF Restart
<1>6. ASSUME NEW t \in Tab,
             \/ OpenLink(t) \/ OpenApp(t) \/ Connect(t) \/ GiveUp(t) \/ Break(t) \/ Close(t)
             \/ Click(t) \/ (\E kind \in Kind : TaskStep(t, kind)) \/ Receive(t)
      PROVE  FALSE
  BY <1>2, <1>6 DEF OpenLink, OpenApp, Connect, GiveUp, Break, Close, Click, TaskStep, ReadKeyId,
            FinishSigned, FinishReKey, FinishReKeyThrows, Receive, ReceiveChallenge,
            ReceiveRegistered, ReceiveUnregistered, ReceiveAuthOk, ReceiveAuthFail,
            ReceiveSnapshot, registry
<1>7. ~ (Save \/ Tick \/ UNCHANGED vars)
  BY <1>2 DEF Save, Tick, Registry!Tick, vars, registry
<1>8. r.retiring
  BY <1>3, <1>4, <1>5, <1>6, <1>7 DEF Next
<1> QED BY <1>1, <1>8

\* While the server runs it never forgets the key that is in a browser: what
\* retire_old_keys removes is a key that the browser has replaced, in every
\* order of re-keys, signed messages and reconnections of any number of tabs.
THEOREM KeyInUseIsKept == Spec => ForgottenOnlyWhenReplaced
<1>1. TypeInv /\ KeyInv /\ Counted /\ [Next]_vars =>
        [breaks' = breaks =>
           \A b \in Browser : \A k \in KnownKeys(b) \ KnownKeys(b)' : store[b].key # k]_vars
  <2> SUFFICES ASSUME TypeInv, KeyInv, breaks \in Nat, [Next]_vars, breaks' = breaks,
                      NEW b \in Browser, NEW k \in KnownKeys(b) \ KnownKeys(b)'
               PROVE  store[b].key # k
    BY DEF Counted
  <2>1. Person[b] \in User
    BY PlaceAssumption
  <2>2. k \in Registry!Ids(pubkeys[Person[b]]) /\ k \notin Registry!Ids(pubkeys'[Person[b]])
    BY DEF KnownKeys, Registry!Ids
  <2>3. \E r \in pubkeys[Person[b]] : r.id = k /\ r.retiring
    BY <2>1, <2>2, OnlyRetiringForgotten
  <2> QED BY <2>3 DEF KeyInv
<1> QED BY TypeInvariant, KeyInvariant, BreaksCounted, <1>1, PTL
        DEF Spec, ForgottenOnlyWhenReplaced

-----------------------------------------------------------------------------
(* OwnInv: every user's keys in the user's own sessions.                    *)

LEMMA OwnIds ==
  ASSUME TypeInv, NEW u \in User, NEW rs, rs \subseteq Registry!PublicKey
  PROVE  Registry!Ids(rs) \subseteq Registry!KeysOf(u) <=> \A r \in rs : KeyOwner[r.id] = u
BY DEF Registry!Ids, Registry!KeysOf, Registry!PublicKey

\* OwnInv, with a row for each table.
KeysOwned == \A u \in User : \A r \in pubkeys[u] \cup saved.pubkeys[u] : KeyOwner[r.id] = u
SessionOwned(s) ==
  /\ pending[s] \in Registry!KeysOf(SessionUser[s]) \cup {NoKey}
  /\ work[s].user = SessionUser[s]
  /\ work[s].new \in Registry!KeysOf(SessionUser[s]) \cup {NoKey}
TabsOwned == \A t \in Tab : conn[t] # Nowhere => SessionUser[conn[t]] = Person[BrowserOf[t]]

LEMMA OwnParts ==
  TypeInv => (OwnInv <=> KeysOwned /\ (\A s \in Session : SessionOwned(s)) /\ TabsOwned
                           /\ tokens \subseteq saved.tokens)
<1> SUFFICES ASSUME TypeInv
             PROVE  OwnInv <=> KeysOwned /\ (\A s \in Session : SessionOwned(s)) /\ TabsOwned
                                 /\ tokens \subseteq saved.tokens
  OBVIOUS
<1>1. /\ pubkeys \in [User -> SUBSET Registry!PublicKey]
      /\ saved.pubkeys \in [User -> SUBSET Registry!PublicKey]
  BY Types DEF TypeInv, ClientTypes
<1>2. \A u \in User : Registry!Ids(pubkeys[u] \cup saved.pubkeys[u]) \subseteq Registry!KeysOf(u)
        <=> \A r \in pubkeys[u] \cup saved.pubkeys[u] : KeyOwner[r.id] = u
  <2> TAKE u \in User
  <2> DEFINE rs == pubkeys[u] \cup saved.pubkeys[u]
  <2>1. rs \subseteq Registry!PublicKey
    BY <1>1
  <2> HIDE DEF rs
  <2>2. Registry!Ids(rs) \subseteq Registry!KeysOf(u) <=> \A r \in rs : KeyOwner[r.id] = u
    BY <2>1, OwnIds
  <2> QED BY <2>2 DEF rs
<1>3. OwnInv <=> /\ \A u \in User : Registry!Ids(pubkeys[u] \cup saved.pubkeys[u]) \subseteq Registry!KeysOf(u)
                 /\ (\A s \in Session : SessionOwned(s)) /\ TabsOwned
                 /\ tokens \subseteq saved.tokens
  BY DEF OwnInv, SessionOwned, TabsOwned
<1> QED BY <1>2, <1>3 DEF KeysOwned

LEMMA ServeOwned ==
  ASSUME TypeInv, OwnInv, NEW s \in Session, Serve(s)
  PROVE  KeysOwned' /\ (\A q \in Session : SessionOwned(q)') /\ TabsOwned'
           /\ tokens' \subseteq saved'.tokens
<1>1. KeysOwned /\ (\A q \in Session : SessionOwned(q)) /\ TabsOwned /\ tokens \subseteq saved.tokens
  BY OwnParts
<1>2. conn' = conn /\ saved' = saved
  BY DEF Serve, server
<1>3. TabsOwned'
  BY <1>1, <1>2 DEF TabsOwned
<1>4. SessionUser[s] \in User
  BY RegistryAssumption
<1>5. pubkeys' = pubkeys => KeysOwned'
  BY <1>1, <1>2 DEF KeysOwned
<1>6. \A q \in Session : work'[q] = work[q] /\ pending'[q] = pending[q] => SessionOwned(q)'
  BY <1>1 DEF SessionOwned
<1> DEFINE mine == Registry!KeysOf(SessionUser[s]) \cup {NoKey}
<1>7. pending[s] \in mine /\ work[s].user = SessionUser[s] /\ work[s].new \in mine /\ NoKey \in mine
  BY <1>1 DEF SessionOwned
<1> HIDE DEF mine
<1>8. pending'[s] \in mine /\ work'[s].user = SessionUser[s] /\ work'[s].new \in mine => SessionOwned(s)'
  BY DEF SessionOwned, mine
<1>9. Onward(s) => \A q \in Session : SessionOwned(q)'
  BY <1>6, <1>7, <1>8 DEF Onward
<1>10. CASE HandleLink(s)
  <2>1. /\ sock[s][1].id \in mine /\ pending'[s] = sock[s][1].id
        /\ \A q \in Session \ {s} : pending'[q] = pending[q]
        /\ tokens' = tokens /\ pubkeys' = pubkeys /\ work' = work
    BY <1>10, HandleLinkFacts DEF mine
  <2> QED BY <1>1, <1>2, <1>3, <1>5, <1>6, <1>7, <1>8, <2>1
<1>11. CASE HandleConfirm(s)
  <2>1. /\ pending'[s] = NoKey /\ \A q \in Session \ {s} : pending'[q] = pending[q]
        /\ work'[s].user = work[s].user /\ pending[s] # NoKey
        /\ work'[s].new = work[s].new /\ \A q \in Session \ {s} : work'[q] = work[q]
        /\ tokens' = tokens
        /\ \A u \in User \ {SessionUser[s]} : pubkeys'[u] = pubkeys[u]
        /\ pubkeys'[SessionUser[s]] = pubkeys[SessionUser[s]] \cup {Registry!NewKey(pending[s])}
    BY <1>11, HandleConfirmFacts, RegistryAssumption
  <2>2. KeyOwner[pending[s]] = SessionUser[s]
    BY <1>7, <2>1 DEF mine, Registry!KeysOf
  <2>3. KeysOwned'
    BY <1>1, <1>2, <2>1, <2>2 DEF KeysOwned, Registry!NewKey
  <2> QED BY <1>1, <1>2, <1>3, <1>6, <1>7, <1>8, <2>1, <2>3
<1>12. CASE HandleStaleConfirm(s)
  BY <1>1, <1>2, <1>3, <1>5, <1>6, <1>7, <1>8, <1>12, HandleStaleConfirmFacts
<1>13. CASE AnnounceKey(s)
  BY <1>1, <1>2, <1>3, <1>5, <1>6, <1>7, <1>8, <1>13, AnnounceKeyFacts
<1>14. CASE BurnToken(s)
  BY <1>1, <1>2, <1>3, <1>5, <1>6, <1>7, <1>8, <1>14, BurnTokenFacts
<1>15. CASE HandleSigned(s)
  <2>1. /\ sock[s][1].new \in mine /\ sock[s][1].id \in mine
        /\ work'[s].new = sock[s][1].new
        /\ \A q \in Session \ {s} : work'[q] = work[q]
        /\ pending' = pending /\ tokens' = tokens /\ pubkeys' = pubkeys
    BY <1>15, HandleSignedFacts DEF mine
  <2>2. PICK u \in User : \E r \in pubkeys[u] : r.id = sock[s][1].id /\ work'[s].user = u
    BY <1>15, HandleSignedFacts
  <2>3. sock[s][1].id # NoKey /\ KeyOwner[sock[s][1].id] = u
    BY <1>1, <2>2, KeyIds DEF KeysOwned
  <2>4. u = SessionUser[s]
    BY <2>1, <2>3 DEF mine, Registry!KeysOf
  <2> QED BY <1>1, <1>2, <1>3, <1>5, <1>6, <1>7, <1>8, <2>1, <2>2, <2>4
<1>16. CASE Refuse(s)
  BY <1>1, <1>2, <1>3, <1>5, <1>6, <1>16, RefuseFacts DEF registry
<1>17. CASE CheckRetiring(s)
  BY <1>1, <1>2, <1>3, <1>5, <1>6, <1>7, <1>8, <1>9, <1>17, CheckRetiringFacts
<1>18. CASE RetireOldKeys(s)
  <2>1. /\ Onward(s) /\ tokens' = tokens
        /\ \A u \in User \ {work[s].user} : pubkeys'[u] = pubkeys[u]
        /\ pubkeys'[work[s].user] =
              {r \in pubkeys[work[s].user] : ~ r.retiring \/ r.id = work[s].key}
    BY <1>18, RetireOldKeysFacts
  <2>2. \A u \in User : pubkeys'[u] \subseteq pubkeys[u]
    BY <2>1
  <2>3. KeysOwned'
    BY <1>1, <1>2, <2>2 DEF KeysOwned
  <2> QED BY <1>1, <1>2, <1>3, <1>9, <2>1, <2>3
<1>19. CASE ApplyReKey(s)
  <2> DEFINE u == work[s].user
  <2>1. /\ work'[s].user = SessionUser[s] /\ work'[s].new = NoKey /\ work[s].new # NoKey
        /\ \A q \in Session \ {s} : work'[q] = work[q]
        /\ pending' = pending /\ tokens' = tokens
        /\ \A v \in User \ {u} : pubkeys'[v] = pubkeys[v]
        /\ \/ pubkeys'[u] = pubkeys[u]
           \/ pubkeys'[u] =
                 {IF r.id = work[s].key THEN [r EXCEPT !.retiring = TRUE] ELSE r :
                    r \in pubkeys[u]} \cup {Registry!NewKey(work[s].new)}
    BY <1>19, ApplyReKeyFacts
  <2>2. u = SessionUser[s] /\ KeyOwner[work[s].new] = u
    BY <1>7, <2>1 DEF mine, Registry!KeysOf
  <2> HIDE DEF u
  <2>3. ASSUME NEW r \in pubkeys'[u] PROVE KeyOwner[r.id] = u
    <3>1. CASE r = Registry!NewKey(work[s].new)
      BY <2>2, <3>1 DEF Registry!NewKey
    <3>2. CASE \E o \in pubkeys[u] :
                 r = IF o.id = work[s].key THEN [o EXCEPT !.retiring = TRUE] ELSE o
      <4>1. PICK o \in pubkeys[u] :
                 r = IF o.id = work[s].key THEN [o EXCEPT !.retiring = TRUE] ELSE o
        BY <3>2
      <4>2. o \in Registry!PublicKey
        BY <1>4, <2>2, KeyIds
      <4>3. r.id = o.id
        BY <4>1, <4>2 DEF Registry!PublicKey
      <4> QED BY <1>1, <1>4, <2>2, <4>3 DEF KeysOwned
    <3>3. CASE pubkeys'[u] = pubkeys[u]
      BY <1>1, <1>4, <2>2, <3>3 DEF KeysOwned
    <3> QED BY <2>1, <3>1, <3>2, <3>3
  <2>4. KeysOwned'
    BY <1>1, <1>2, <2>1, <2>3 DEF KeysOwned
  <2> QED BY <1>1, <1>2, <1>3, <1>6, <1>7, <1>8, <2>1, <2>4
<1> QED BY <1>10, <1>11, <1>12, <1>13, <1>14, <1>15, <1>16, <1>17, <1>18, <1>19 DEF Serve

LEMMA NextOwnInv ==
  ASSUME TypeInv, OwnInv, [Next]_vars, TypeInv'
  PROVE  OwnInv'
<1>1. (OwnInv <=> KeysOwned /\ (\A s \in Session : SessionOwned(s)) /\ TabsOwned
                      /\ tokens \subseteq saved.tokens)'
  <2>1. (TypeInv => (OwnInv <=> KeysOwned /\ (\A s \in Session : SessionOwned(s)) /\ TabsOwned
                                 /\ tokens \subseteq saved.tokens))'
    BY OwnParts, PTL
  <2> QED BY <2>1
<1> SUFFICES KeysOwned' /\ (\A s \in Session : SessionOwned(s)') /\ TabsOwned'
               /\ tokens' \subseteq saved'.tokens
  BY <1>1
<1>2. KeysOwned /\ (\A s \in Session : SessionOwned(s)) /\ TabsOwned /\ tokens \subseteq saved.tokens
  BY OwnParts
<1>3. ASSUME ServerStays
      PROVE  KeysOwned' /\ (\A s \in Session : SessionOwned(s)') /\ tokens' \subseteq saved'.tokens
  BY <1>2, <1>3 DEF KeysOwned, SessionOwned, ServerStays
<1>4. ASSUME NEW t \in Tab, \A r \in Tab \ {t} : conn'[r] = conn[r],
             conn'[t] # Nowhere => SessionUser[conn'[t]] = Person[BrowserOf[t]]
      PROVE  TabsOwned'
  BY <1>2, <1>4 DEF TabsOwned
<1>5. conn' = conn => TabsOwned'
  BY <1>2 DEF TabsOwned
<1>6. ASSUME NEW t \in Tab,
             \/ OpenLink(t) \/ OpenApp(t) \/ Connect(t) \/ GiveUp(t) \/ Break(t) \/ Close(t)
             \/ Click(t) \/ (\E kind \in Kind : TaskStep(t, kind)) \/ Receive(t)
      PROVE  ServerStays /\ TabsOwned'
  <2> PICK b : b = BrowserOf[t]
    OBVIOUS
  <2>1. CASE OpenLink(t)
    <3>1. ServerStays
      BY <2>1, OpenLinkFacts
    <3>2. \E k, s : Opened(t, b, k, s)
      BY <2>1, OpenLinkFacts
    <3> QED BY <1>4, <3>1, <3>2 DEF Opened
  <2>2. CASE Connect(t)
    <3>1. ServerStays
      BY <2>2, ConnectFacts
    <3>2. \E s : Joined(t, b, s)
      BY <2>2, ConnectFacts
    <3> QED BY <1>4, <3>1, <3>2 DEF Joined
  <2>3. CASE OpenApp(t) \/ GiveUp(t) \/ Click(t)
    BY <1>5, <2>3, PageFacts
  <2>4. CASE Break(t) \/ Close(t)
    BY <1>4, <2>4, LeaveFacts
  <2>5. ASSUME NEW kind \in Kind, TaskStep(t, kind) PROVE ServerStays /\ TabsOwned'
    <3>1. CASE ReadKeyId(t, kind) \/ FinishReKeyThrows(t)
      BY <1>5, <3>1, ReadFacts
    <3>2. CASE FinishSigned(t, kind)
      BY <1>5, <3>2, FinishSignedFacts
    <3>3. CASE FinishReKey(t)
      BY <1>5, <3>3, FinishReKeyFacts
    <3> QED BY <2>5, <3>1, <3>2, <3>3 DEF TaskStep
  <2>6. CASE Receive(t)
    <3>1. /\ ServerStays /\ conn[t] \in Session
          /\ \A r \in Tab \ {t} : conn'[r] = conn[r]
          /\ conn'[t] = conn[t] \/ conn'[t] = Nowhere
      BY <2>6, ReceiveFacts
    <3> QED BY <1>2, <1>4, <3>1, PlaceAssumption DEF TabsOwned
  <2> QED BY <1>6, <2>1, <2>2, <2>3, <2>4, <2>5, <2>6
<1>7. ASSUME NEW s \in Session, Serve(s)
      PROVE  KeysOwned' /\ (\A q \in Session : SessionOwned(q)') /\ TabsOwned'
               /\ tokens' \subseteq saved'.tokens
  BY <1>7, ServeOwned
<1>8. ASSUME NEW s \in Session, EndSession(s)
      PROVE  KeysOwned' /\ (\A q \in Session : SessionOwned(q)') /\ TabsOwned'
               /\ tokens' \subseteq saved'.tokens
  <2>1. conn' = conn /\ saved' = saved
    BY <1>8 DEF EndSession, tabs, server
  <2>2. /\ work'[s].user = SessionUser[s] /\ work'[s].new = NoKey
        /\ \A q \in Session \ {s} : work'[q] = work[q]
        /\ pending'[s] = NoKey /\ \A q \in Session \ {s} : pending'[q] = pending[q]
        /\ tokens' = tokens /\ pubkeys' = pubkeys
    BY <1>8, EndSessionFacts
  <2> QED BY <1>2, <2>1, <2>2 DEF KeysOwned, SessionOwned, TabsOwned
<1>9. CASE Restart
  <2>1. /\ pubkeys' = saved.pubkeys /\ tokens' = saved.tokens /\ saved' = saved
        /\ \A s \in Session : work'[s].user = SessionUser[s] /\ work'[s].new = NoKey /\ pending'[s] = NoKey
        /\ \A t \in Tab : conn'[t] = Nowhere
    BY <1>9 DEF Restart, Registry!Ready
  <2> QED BY <1>2, <2>1 DEF KeysOwned, SessionOwned, TabsOwned
<1>10. CASE Save
  <2>1. /\ pubkeys' = pubkeys /\ tokens' = tokens /\ saved'.pubkeys = pubkeys /\ saved'.tokens = tokens
        /\ work' = work /\ pending' = pending /\ conn' = conn
    BY <1>10 DEF Save, registry, tabs
  <2> QED BY <1>2, <2>1 DEF KeysOwned, SessionOwned, TabsOwned
<1>11. CASE Tick \/ UNCHANGED vars
  <2>1. /\ pubkeys' = pubkeys /\ tokens' = tokens /\ saved' = saved
        /\ work' = work /\ pending' = pending /\ conn' = conn
    BY <1>11 DEF Tick, Registry!Tick, vars, registry, tabs, server
  <2> QED BY <1>2, <2>1 DEF KeysOwned, SessionOwned, TabsOwned
<1> QED BY <1>3, <1>6, <1>7, <1>8, <1>9, <1>10, <1>11 DEF Next

LEMMA InitOwnInv == Init => OwnInv
<1> SUFFICES ASSUME Init PROVE OwnInv
  OBVIOUS
<1>1. /\ saved.pubkeys = pubkeys /\ saved.tokens = tokens
      /\ \A s \in Session : pending[s] = NoKey /\ work[s].user = SessionUser[s] /\ work[s].new = NoKey
      /\ \A t \in Tab : conn[t] = Nowhere
      /\ \A u \in User : Registry!Ids(pubkeys[u]) \subseteq Registry!KeysOf(u)
  BY DEF Init, Registry!Init, Registry!Ready
<1> QED BY <1>1 DEF OwnInv

\* The keys a session works with, sends or registers are its user's, and so are
\* the tabs connected to it.
THEOREM OwnInvariant == Spec => []OwnInv
<1>1. TypeInv /\ OwnInv /\ [Next]_vars /\ TypeInv' => OwnInv'
  BY NextOwnInv
<1> QED BY TypeInvariant, InitOwnInv, <1>1, PTL DEF Spec

-----------------------------------------------------------------------------
(* SideInv: registrations and re-keys do not meet.                          *)

NoReKey(q) == \A i \in 1..Len(q) : q[i].what # "rekey"

\* The message m to session s is a ReKey that a tab has just sent.
JustSent(s, m) == \E t \in Tab :
  /\ conn[t] = s /\ task[t]["rekey"] # Idle
  /\ m.new = store'[BrowserOf[t]].key /\ Unused(m.new) /\ rekeyed'[BrowserOf[t]]

\* What a step may do, as far as registrations and re-keys are concerned.
StoreMoves ==
  \A b \in Browser : \/ store'[b].key = store[b].key /\ rekeyed'[b] = rekeyed[b]
                     \/ store'[b].key = NoKey /\ rekeyed'[b] = rekeyed[b]
                     \/ Unused(store'[b].key)
SessionMoves ==
  \A s \in Session : RegisteringIn(s)' =>
    RegisteringIn(s) \/ \E t \in Tab : conn'[t] = s /\ page'[t] = "register"
SockMoves ==
  \A s \in Session : \A i \in 1..Len(sock'[s]) : LET m == sock'[s][i] IN
    m.what = "rekey" => JustSent(s, m) \/ \E j \in 1..Len(sock[s]) : m = sock[s][j]
PageMoves ==
  \A t \in Tab :
    /\ page'[t] = "register" =>
         /\ conn'[t] # Nowhere
         /\ \/ page[t] = "register" /\ conn'[t] = conn[t]
            \/ NoReKey(sock'[conn'[t]])
    /\ page'[t] \in {"none", "register"} =>
         page[t] \in {"none", "register"} \/ task'[t]["rekey"] = Idle
ConnMoves ==
  \A t \in Tab :
    conn'[t] \in {conn[t], Nowhere} \/ (NoReKey(sock'[conn'[t]]) /\ ~ RegisteringIn(conn'[t]))
TaskMoves ==
  \A t \in Tab : LET j == task[t]["rekey"]  n == task'[t]["rekey"] IN
    \/ n \in {j, Idle}
    \/ /\ n = [at |-> "import", priv |-> store[BrowserOf[t]].key, id |-> NoKey]
       /\ page'[t] \notin {"none", "register"} /\ ~ RegisteringIn(conn'[t])
    \/ j.at = "import" /\ n.priv = j.priv /\ n.id = store[BrowserOf[t]].key

LEMMA SideKept ==
  ASSUME TypeInv, KeyInv, SideInv, TypeInv', KeyInv', StoreMoves, SessionMoves, SockMoves,
         PageMoves, ConnMoves, TaskMoves
  PROVE  SideInv'
<1>1. \A t, r \in Tab : conn[t] = conn[r] => t = r \/ conn[t] = Nowhere
  BY DEF TypeInv, Wiring
<1>2. \A t, r \in Tab : conn'[t] = conn'[r] => t = r \/ conn'[t] = Nowhere
  BY DEF TypeInv, Wiring
<1>3. /\ conn' \in [Tab -> Session \cup {Nowhere}] /\ conn \in [Tab -> Session \cup {Nowhere}]
      /\ Nowhere \notin Session
  BY PlaceAssumption DEF TypeInv, ClientTypes
<1>4. ASSUME NEW t \in Tab, page'[t] \in {"none", "register"}
      PROVE  task'[t]["rekey"] = Idle
  <2>1. CASE page[t] \in {"none", "register"}
    <3>1. task[t]["rekey"] = Idle /\ Idle.at # "import"
      BY <2>1 DEF SideInv, Idle
    <3> QED BY <1>4, <3>1 DEF TaskMoves
  <2> QED BY <1>4, <2>1 DEF PageMoves
<1>5. ASSUME NEW s \in Session, RegisteringIn(s)', NEW i \in 1..Len(sock'[s]),
             sock'[s][i].what = "rekey"
      PROVE  FALSE
  <2>1. JustSent(s, sock'[s][i]) \/ ~ NoReKey(sock[s])
    BY <1>5 DEF SockMoves, NoReKey
  <2>2. JustSent(s, sock'[s][i]) =>
          \E r \in Tab : conn[r] = s /\ task[r]["rekey"] # Idle
    BY DEF JustSent
  <2>3. CASE RegisteringIn(s)
    <3>1. NoReKey(sock[s])
      BY <2>3 DEF SideInv, NoReKey
    <3>2. PICK r \in Tab : conn[r] = s /\ task[r]["rekey"] # Idle
      BY <2>1, <2>2, <3>1
    <3> QED BY <1>3, <2>3, <3>2 DEF SideInv
  <2>4. CASE \E t \in Tab : conn'[t] = s /\ page'[t] = "register"
    <3>1. PICK t \in Tab : conn'[t] = s /\ page'[t] = "register"
      BY <2>4
    <3>2. page[t] = "register" /\ conn[t] = s
      BY <1>5, <3>1 DEF PageMoves, NoReKey
    <3>3. NoReKey(sock[s]) /\ task[t]["rekey"] = Idle
      BY <3>2 DEF SideInv, NoReKey
    <3>4. PICK r \in Tab : conn[r] = s /\ task[r]["rekey"] # Idle
      BY <2>1, <2>2, <3>3
    <3> QED BY <1>1, <1>3, <3>2, <3>3, <3>4
  <2> QED BY <1>5, <2>3, <2>4 DEF SessionMoves
<1>6. ASSUME NEW t \in Tab, NEW s \in Session, conn'[t] = s, task'[t]["rekey"] # Idle,
             RegisteringIn(s)'
      PROVE  FALSE
  <2>1. s # Nowhere
    BY <1>3
  <2>2. CASE \E r \in Tab : conn'[r] = s /\ page'[r] = "register"
    BY <1>2, <1>4, <1>6, <2>1, <2>2
  <2>3. CASE RegisteringIn(s)
    <3>1. s = conn[t]
      BY <1>6, <2>1, <2>3 DEF ConnMoves
    <3>2. task[t]["rekey"] = Idle /\ Idle.at # "import"
      BY <2>3, <3>1 DEF SideInv, Idle
    <3> QED BY <1>6, <2>3, <3>2 DEF TaskMoves
  <2> QED BY <1>6, <2>2, <2>3 DEF SessionMoves
<1>7. ASSUME NEW t \in Tab, page'[t] = "register"
      PROVE  conn'[t] # Nowhere /\ \A s \in Session : conn'[t] = s => NoReKey(sock'[s])
  <2>1. conn'[t] # Nowhere
    BY <1>7 DEF PageMoves
  <2>2. CASE page[t] = "register" /\ conn'[t] = conn[t]
    <3>1. NoReKey(sock[conn[t]]) /\ task[t]["rekey"] = Idle /\ conn[t] \in Session
      BY <1>3, <2>1, <2>2 DEF SideInv, NoReKey
    <3>2. \A m : ~ JustSent(conn[t], m)
      BY <1>1, <1>3, <3>1 DEF JustSent
    <3> QED BY <2>1, <2>2, <3>1, <3>2 DEF SockMoves, NoReKey
  <2> QED BY <1>7, <2>1, <2>2 DEF PageMoves
\* A message that was there before tells of a key that was there before.
<1>8. ASSUME NEW s \in Session, NEW j \in 1..Len(sock[s]), NEW b \in Browser,
             sock[s][j].what = "rekey", sock[s][j].new = store'[b].key
      PROVE  Introduces(sock[s][j], b) /\ rekeyed'[b] = rekeyed[b]
  <2>1. sock[s][j].new # NoKey
    BY <1>8 DEF KeyInv
  <2>2. ~ Unused(sock[s][j].new)
    BY DEF Unused
  <2> QED BY <1>8, <2>1, <2>2 DEF StoreMoves, Introduces
\* One that has just been sent tells of the new key of its sender.
<1>9. ASSUME NEW s \in Session, NEW m, JustSent(s, m), NEW b \in Browser, m.new = store'[b].key
      PROVE  \E t \in Tab : conn[t] = s /\ b = BrowserOf[t] /\ rekeyed'[b]
  <2>1. PICK t \in Tab : /\ conn[t] = s /\ m.new = store'[BrowserOf[t]].key /\ Unused(m.new)
                         /\ rekeyed'[BrowserOf[t]]
    BY <1>9 DEF JustSent
  <2>2. m.new # NoKey /\ BrowserOf[t] \in Browser
    BY <2>1, RegistryAssumption, PlaceAssumption DEF Unused
  <2>3. \A c, d \in Browser : store'[c].key = store'[d].key => c = d \/ store'[c].key = NoKey
    BY DEF KeyInv
  <2>4. b = BrowserOf[t]
    BY <1>9, <2>1, <2>2, <2>3
  <2> QED BY <2>1, <2>4
<1>10. ASSUME NEW t \in Tab, NEW s \in Session, conn'[t] = s, NEW i \in 1..Len(sock'[s]),
              NEW b \in Browser, sock'[s][i].what = "rekey", sock'[s][i].new = store'[b].key
       PROVE  b = BrowserOf[t]
  <2>1. s = conn[t] /\ s # Nowhere
    BY <1>3, <1>10 DEF ConnMoves, NoReKey
  <2>2. CASE JustSent(s, sock'[s][i])
    <3>1. \E r \in Tab : conn[r] = s /\ b = BrowserOf[r]
      BY <1>9, <1>10, <2>2
    <3> QED BY <1>1, <2>1, <3>1
  <2>3. CASE \E j \in 1..Len(sock[s]) : sock'[s][i] = sock[s][j]
    <3>1. PICK j \in 1..Len(sock[s]) : sock'[s][i] = sock[s][j]
      BY <2>3
    <3>2. Introduces(sock[s][j], b)
      BY <1>8, <1>10, <3>1
    <3> QED BY <2>1, <3>2 DEF SideInv
  <2> QED BY <1>10, <2>2, <2>3 DEF SockMoves
<1>11. ASSUME NEW t \in Tab, NEW r \in Tab, BrowserOf[t] # BrowserOf[r],
              NEW k \in TaskKeys(t)', k \in TaskKeys(r)'
       PROVE  FALSE
  <2>1. k # NoKey /\ BrowserOf[t] \in Browser /\ BrowserOf[r] \in Browser
    BY PlaceAssumption DEF TaskKeys
  <2>2. ASSUME NEW q \in Tab, k \in TaskKeys(q)'
        PROVE  k \in TaskKeys(q) \/ k = store[BrowserOf[q]].key
    <3> DEFINE j == task[q]["rekey"]
               n == task'[q]["rekey"]
    <3>1. k \in {n.priv, n.id}
      BY <2>2 DEF TaskKeys
    <3>2. \/ n \in {j, Idle}
          \/ n.priv \in {j.priv, store[BrowserOf[q]].key} /\ n.id \in {NoKey, store[BrowserOf[q]].key}
      <4>1. \/ n \in {j, Idle}
            \/ n = [at |-> "import", priv |-> store[BrowserOf[q]].key, id |-> NoKey]
            \/ n.priv = j.priv /\ n.id = store[BrowserOf[q]].key
        BY DEF TaskMoves
      <4> HIDE DEF n, j
      <4> QED BY <4>1
    <3> HIDE DEF n
    <3>3. k \in {j.priv, j.id, NoKey, store[BrowserOf[q]].key}
      BY <3>1, <3>2 DEF Idle
    <3> QED BY <2>1, <3>3 DEF TaskKeys
  <2>3. k \in TaskKeys(t) \/ k = store[BrowserOf[t]].key
    BY <2>2
  <2>4. k \in TaskKeys(r) \/ k = store[BrowserOf[r]].key
    BY <1>11, <2>2
  <2>5. ~ (k \in TaskKeys(t) /\ k \in TaskKeys(r))
    BY <1>11 DEF SideInv
  <2> QED BY <1>11, <2>1, <2>3, <2>4, <2>5 DEF KeyInv
<1>12. ASSUME NEW b \in Browser, Introducing(b)' PROVE rekeyed'[b]
  <2>1. PICK s \in Session : \E i \in 1..Len(sock'[s]) :
          sock'[s][i].what = "rekey" /\ sock'[s][i].new = store'[b].key
    BY <1>12 DEF Introducing, Introduces
  <2> PICK i \in 1..Len(sock'[s]) : sock'[s][i].what = "rekey" /\ sock'[s][i].new = store'[b].key
    BY <2>1
  <2>2. CASE JustSent(s, sock'[s][i])
    BY <1>9, <2>2
  <2>3. CASE \E j \in 1..Len(sock[s]) : sock'[s][i] = sock[s][j]
    <3>1. PICK j \in 1..Len(sock[s]) : sock'[s][i] = sock[s][j]
      BY <2>3
    <3>2. Introduces(sock[s][j], b) /\ rekeyed'[b] = rekeyed[b]
      BY <1>8, <3>1
    <3> QED BY <3>2 DEF SideInv, Introducing
  <2> QED BY <2>2, <2>3 DEF SockMoves
<1>13. \A t \in Tab : \A s \in Session : conn'[t] = s =>
         /\ task'[t]["rekey"] # Idle => ~ RegisteringIn(s)'
         /\ page'[t] = "register" => \A i \in 1..Len(sock'[s]) : sock'[s][i].what # "rekey"
         /\ \A i \in 1..Len(sock'[s]) : \A b \in Browser :
              sock'[s][i].what = "rekey" /\ sock'[s][i].new = store'[b].key => b = BrowserOf[t]
  BY <1>6, <1>7, <1>10 DEF NoReKey
<1> QED BY <1>4, <1>5, <1>7, <1>11, <1>12, <1>13 DEF SideInv, Introduces

\* Where the messages after a step come from.
OldMessages ==
  \A s \in Session : \A i \in 1..Len(sock'[s]) : \E j \in 1..Len(sock[s]) : sock'[s][i] = sock[s][j]

LEMMA SentMessages ==
  ASSUME TypeInv, NEW t \in Tab, NEW m \in Msg, Send(t, m)
  PROVE  \A s \in Session : \A i \in 1..Len(sock'[s]) :
           \/ \E j \in 1..Len(sock[s]) : sock'[s][i] = sock[s][j]
           \/ conn[t] = s /\ sock'[s][i] = m
<1>1. /\ \A q \in Session : conn[t] # q => sock'[q] = sock[q]
      /\ \A q \in Session : conn[t] = q =>
              /\ Len(sock'[q]) = Len(sock[q]) + 1 /\ sock'[q][Len(sock[q]) + 1] = m
              /\ \A i \in 1..Len(sock[q]) : sock'[q][i] = sock[q][i]
  BY SendFacts, Z3
<1>2. \A q \in Session : Len(sock[q]) \in Nat
  BY LenProperties DEF TypeInv, ClientTypes
<1> QED BY <1>1, <1>2

LEMMA CutMessages ==
  ASSUME TypeInv, NEW b \in Browser, NEW s \in Session, Cut(b, s)
  PROVE  OldMessages
<1>1. \A q \in Session \ {s} : sock'[q] = sock[q]
  BY CutQueues
<1>2. PICK n \in 0..Len(sock[s]) :
        Len(sock'[s]) = n /\ \A i \in 1..n : sock'[s][i] = sock[s][i]
  BY CutQueues, Z3
<1>3. Len(sock[s]) \in Nat
  BY LenProperties DEF TypeInv, ClientTypes
<1> QED BY <1>1, <1>2, <1>3 DEF OldMessages

LEMMA ServedMessages ==
  ASSUME TypeInv, NEW s \in Session, Answer(s) \/ Quiet
  PROVE  OldMessages /\ \A q \in Session \ {s} : sock'[q] = sock[q]
<1>1. CASE Answer(s)
  <2>1. /\ \A q \in Session \ {s} : sock'[q] = sock[q]
        /\ \A i \in 1..Len(sock'[s]) : i + 1 \in 1..Len(sock[s]) /\ sock'[s][i] = sock[s][i + 1]
    BY <1>1, PoppedFacts DEF Answer
  <2> QED BY <2>1 DEF OldMessages
<1>2. CASE Quiet
  BY <1>2 DEF Quiet, OldMessages
<1> QED BY <1>1, <1>2

LEMMA OldSock ==
  ASSUME OldMessages
  PROVE  SockMoves
BY DEF OldMessages, SockMoves

LEMMA OldSessions ==
  ASSUME ServerStays,
         \A s \in Session : \A i \in 1..Len(sock'[s]) :
           \/ sock'[s][i].what \notin {"link", "confirm"}
           \/ \E j \in 1..Len(sock[s]) : sock'[s][i] = sock[s][j]
  PROVE  SessionMoves
BY DEF SessionMoves, RegisteringIn, ServerStays, Registry!At

\* A free session registers nobody.
LEMMA FreeSide ==
  ASSUME NEW s \in Session, sock[s] = << >>, auth[s] = "Unauthenticated", work[s].at = "ready"
  PROVE  ~ RegisteringIn(s) /\ NoReKey(sock[s])
BY DEF RegisteringIn, Registry!At, NoReKey

LEMMA OpenLinkSide ==
  ASSUME TypeInv, KeyInv, SideInv, NEW t \in Tab, OpenLink(t)
  PROVE  StoreMoves /\ SessionMoves /\ SockMoves /\ PageMoves /\ ConnMoves /\ TaskMoves
<1> PICK b : b = BrowserOf[t]
  OBVIOUS
<1>1. /\ ServerStays /\ task' = task /\ page[t] = "none" /\ conn[t] = Nowhere
      /\ page'[t] = "register" /\ \A r \in Tab \ {t} : page'[r] = page[r]
      /\ rekeyed'[b] = FALSE /\ \A c \in Browser \ {b} : rekeyed'[c] = rekeyed[c]
  BY OpenLinkFacts
<1> PICK k, s : Opened(t, b, k, s)
  BY OpenLinkFacts
<1>2. /\ Unused(k) /\ s \in Session /\ s # Nowhere
      /\ sock[s] = << >> /\ auth[s] = "Unauthenticated" /\ work[s].at = "ready"
      /\ \A r \in Tab : conn[r] # s
      /\ store'[b].key = k /\ \A c \in Browser \ {b} : store'[c] = store[c]
      /\ Len(sock'[s]) = 1 /\ sock'[s][1].what = "link"
      /\ \A q \in Session \ {s} : sock'[q] = sock[q]
      /\ conn'[t] = s /\ \A r \in Tab \ {t} : conn'[r] = conn[r]
  BY PlaceAssumption DEF Opened, Link
<1>3. StoreMoves
  BY <1>1, <1>2 DEF StoreMoves
<1>4. NoReKey(sock'[s]) /\ ~ RegisteringIn(s)
  BY <1>2, FreeSide DEF NoReKey
<1>5. SessionMoves
  BY <1>1, <1>2 DEF SessionMoves, RegisteringIn, ServerStays, Registry!At
<1>6. SockMoves
  BY <1>2 DEF SockMoves
<1>7. PageMoves
  <2>1. \A r \in Tab \ {t} : page[r] = "register" => conn[r] # Nowhere
    BY DEF SideInv
  <2> QED BY <1>1, <1>2, <1>4, <2>1 DEF PageMoves
<1>8. ConnMoves
  BY <1>2, <1>4 DEF ConnMoves
<1>9. TaskMoves
  BY <1>1 DEF TaskMoves
<1> QED BY <1>3, <1>5, <1>6, <1>7, <1>8, <1>9

LEMMA ConnectSide ==
  ASSUME TypeInv, KeyInv, SideInv, NEW t \in Tab, Connect(t)
  PROVE  StoreMoves /\ SessionMoves /\ SockMoves /\ PageMoves /\ ConnMoves /\ TaskMoves
<1> PICK b : b = BrowserOf[t]
  OBVIOUS
<1>1. /\ ServerStays /\ sock' = sock /\ store' = store /\ page' = page /\ rekeyed' = rekeyed
      /\ page[t] \in {"app", "auth"}
      /\ \A r \in Tab \ {t} : task'[r] = task[r]
      /\ \/ task'[t]["rekey"] = Idle
         \/ task'[t]["rekey"] = [at |-> "import", priv |-> store[b].key, id |-> NoKey]
  BY ConnectFacts
<1> PICK s : Joined(t, b, s)
  BY ConnectFacts
<1>2. /\ s \in Session /\ sock[s] = << >> /\ auth[s] = "Unauthenticated" /\ work[s].at = "ready"
      /\ conn'[t] = s /\ \A r \in Tab \ {t} : conn'[r] = conn[r]
  BY DEF Joined
<1>3. NoReKey(sock'[s]) /\ ~ RegisteringIn(s)
  BY <1>1, <1>2, FreeSide
<1>4. StoreMoves /\ SockMoves
  BY <1>1 DEF StoreMoves, SockMoves
<1>5. SessionMoves
  BY <1>1, OldSessions
<1>6. PageMoves
  <2>1. \A r \in Tab : page[r] = "register" => conn[r] # Nowhere
    BY DEF SideInv
  <2> QED BY <1>1, <1>2, <2>1 DEF PageMoves
<1>7. ConnMoves
  BY <1>2, <1>3 DEF ConnMoves
<1>8. TaskMoves
  BY <1>1, <1>2, <1>3 DEF TaskMoves
<1> QED BY <1>4, <1>5, <1>6, <1>7, <1>8

LEMMA FinishReKeySide ==
  ASSUME TypeInv, KeyInv, SideInv, NEW t \in Tab, FinishReKey(t)
  PROVE  StoreMoves /\ SessionMoves /\ SockMoves /\ PageMoves /\ ConnMoves /\ TaskMoves
<1> PICK b, j : b = BrowserOf[t] /\ j = task[t]["rekey"]
  OBVIOUS
<1>1. /\ ServerStays /\ page' = page /\ conn' = conn /\ b \in Browser
      /\ j.at = "sign" /\ task'[t]["rekey"] = Idle
      /\ \A r \in Tab \ {t} : task'[r] = task[r]
      /\ rekeyed'[b] = TRUE /\ \A c \in Browser \ {b} : rekeyed'[c] = rekeyed[c]
  BY FinishReKeyFacts
<1> PICK k, m : Replaced(t, b, j, k, m)
  BY FinishReKeyFacts
<1>2. /\ Unused(k) /\ m \in Msg /\ Send(t, m) /\ m.what = "rekey" /\ m.new = k
      /\ store'[b].key = k /\ \A c \in Browser \ {b} : store'[c] = store[c]
  BY DEF Replaced
<1>3. \A s \in Session : \A i \in 1..Len(sock'[s]) :
        \/ \E x \in 1..Len(sock[s]) : sock'[s][i] = sock[s][x]
        \/ conn[t] = s /\ sock'[s][i] = m
  BY <1>2, SentMessages
<1>4. StoreMoves
  BY <1>1, <1>2 DEF StoreMoves
<1>5. task[t]["rekey"] # Idle
  BY <1>1 DEF Idle
<1>6. \A s \in Session : conn[t] = s => JustSent(s, m)
  BY <1>1, <1>2, <1>5 DEF JustSent
<1>7. SockMoves
  BY <1>3, <1>6 DEF SockMoves
<1>8. SessionMoves
  BY <1>1, <1>2, <1>3, OldSessions
<1>9. PageMoves
  <2>1. \A r \in Tab : page[r] = "register" => conn[r] # Nowhere
    BY DEF SideInv
  <2> QED BY <1>1, <2>1 DEF PageMoves
<1>10. ConnMoves /\ TaskMoves
  BY <1>1 DEF ConnMoves, TaskMoves
<1> QED BY <1>4, <1>7, <1>8, <1>9, <1>10

LEMMA ReceiveSide ==
  ASSUME TypeInv, KeyInv, SideInv, NEW t \in Tab, Receive(t)
  PROVE  StoreMoves /\ SessionMoves /\ SockMoves /\ PageMoves /\ ConnMoves /\ TaskMoves
<1> PICK b : b = BrowserOf[t]
  OBVIOUS
<1>1. /\ ServerStays /\ rekeyed' = rekeyed /\ b \in Browser /\ conn[t] \in Session
      /\ \A r \in Tab : task'[r]["rekey"] = task[r]["rekey"]
      /\ \A c \in Browser \ {b} : store'[c] = store[c]
      /\ store'[b].key \in {store[b].key, NoKey}
      /\ \A r \in Tab \ {t} : page'[r] = page[r] /\ conn'[r] = conn[r]
      /\ \/ conn'[t] = conn[t] /\ page'[t] = page[t]
         \/ conn'[t] = conn[t] /\ page[t] # "register" /\ page'[t] \in {"app", "auth"}
         \/ conn'[t] = Nowhere /\ page[t] = "register" /\ page'[t] \in {"app", "none"}
  BY ReceiveFacts
<1>2. StoreMoves
  BY <1>1 DEF StoreMoves
<1>3. PageMoves
  <2>1. \A r \in Tab : page[r] = "register" => conn[r] # Nowhere
    BY DEF SideInv
  <2> QED BY <1>1, <2>1 DEF PageMoves
<1>4. ConnMoves /\ TaskMoves
  BY <1>1 DEF ConnMoves, TaskMoves
<1>5. CASE sock' = sock
  <2>1. SockMoves
    BY <1>5 DEF SockMoves
  <2>2. SessionMoves
    BY <1>1, <1>5, OldSessions
  <2> QED BY <1>2, <1>3, <1>4, <2>1, <2>2
<1>6. CASE page[t] = "register" /\ Send(t, Confirm)
  <2>1. \A s \in Session : \A i \in 1..Len(sock'[s]) :
          \/ \E j \in 1..Len(sock[s]) : sock'[s][i] = sock[s][j]
          \/ conn[t] = s /\ sock'[s][i] = Confirm
    BY <1>6, MsgTypes, SentMessages
  <2>2. SockMoves
    BY <2>1 DEF SockMoves, Confirm
  <2>3. conn'[t] = conn[t] /\ page'[t] = "register"
    <3>1. sock' # sock
      <4>1. Confirm \in Msg
        BY MsgTypes
      <4>2. \A q \in Session : conn[t] = q => Len(sock'[q]) = Len(sock[q]) + 1
        BY <1>6, <4>1, SendFacts, Z3
      <4>3. \A q \in Session : Len(sock[q]) \in Nat
        BY LenProperties DEF TypeInv, ClientTypes
      <4> QED BY <1>1, <4>2, <4>3
    <3>2. ReceiveChallenge(t)
      BY <3>1 DEF Receive, ReceiveRegistered, ReceiveUnregistered, ReceiveAuthOk, ReceiveAuthFail,
                  ReceiveSnapshot
    <3> QED BY <1>6, <3>2 DEF ReceiveChallenge, tabs
  <2>4. \A s \in Session : RegisteringIn(s)' => RegisteringIn(s) \/ conn[t] = s
    BY <1>1, <2>1 DEF RegisteringIn, ServerStays, Registry!At
  <2>5. SessionMoves
    BY <2>3, <2>4 DEF SessionMoves
  <2> QED BY <1>2, <1>3, <1>4, <2>2, <2>5
<1> QED BY <1>5, <1>6, ReceiveFacts

\* Steps that send nothing, or what changes no key.
LEMMA PlainSide ==
  ASSUME TypeInv, KeyInv, SideInv, NEW t \in Tab,
         \/ OpenApp(t) \/ GiveUp(t) \/ Click(t) \/ Break(t) \/ Close(t)
         \/ \E kind \in Kind : ReadKeyId(t, kind) \/ FinishReKeyThrows(t) \/ FinishSigned(t, kind)
  PROVE  StoreMoves /\ SessionMoves /\ SockMoves /\ PageMoves /\ ConnMoves /\ TaskMoves
<1> PICK b : b = BrowserOf[t]
  OBVIOUS
<1>1. \A r \in Tab : page[r] = "register" => conn[r] # Nowhere
  BY DEF SideInv
<1>2. CASE OpenApp(t) \/ GiveUp(t) \/ Click(t)
  <2>1. /\ ServerStays /\ sock' = sock /\ store' = store /\ conn' = conn
        /\ rekeyed' = rekeyed
        /\ \A r \in Tab : task'[r]["rekey"] \in {task[r]["rekey"], Idle}
        /\ \A r \in Tab \ {t} : page'[r] = page[r]
        /\ \/ page'[t] = page[t] \/ page'[t] \in {"app", "auth"}
           \/ page'[t] = "none" /\ task'[t]["rekey"] = Idle
    BY <1>2, PageFacts
  <2>2. SessionMoves
    BY <2>1, OldSessions
  <2>3. StoreMoves /\ SockMoves /\ ConnMoves
    BY <2>1 DEF StoreMoves, SockMoves, ConnMoves
  <2>4. PageMoves
    BY <1>1, <2>1 DEF PageMoves
  <2>5. TaskMoves
    BY <2>1 DEF TaskMoves
  <2> QED BY <2>2, <2>3, <2>4, <2>5
<1>3. CASE Break(t) \/ Close(t)
  <2>1. /\ ServerStays /\ store' = store /\ rekeyed' = rekeyed /\ b \in Browser
        /\ conn'[t] = Nowhere /\ \A r \in Tab \ {t} : conn'[r] = conn[r]
        /\ page'[t] # "register" /\ \A r \in Tab \ {t} : page'[r] = page[r]
        /\ page'[t] = "none" => page[t] = "register" \/ task'[t]["rekey"] = Idle
        /\ \A r \in Tab : task'[r]["rekey"] \in {task[r]["rekey"], Idle}
        /\ sock' = sock \/ \E s \in Session : Cut(b, s)
    BY <1>3, LeaveFacts
  <2>2. OldMessages
    BY <2>1, CutMessages DEF OldMessages
  <2>3. SockMoves
    BY <2>2, OldSock
  <2>4. SessionMoves
    BY <2>1, <2>2, OldSessions DEF OldMessages
  <2>5. StoreMoves /\ ConnMoves /\ TaskMoves
    BY <2>1 DEF StoreMoves, ConnMoves, TaskMoves
  <2>6. PageMoves
    BY <1>1, <2>1 DEF PageMoves
  <2> QED BY <2>3, <2>4, <2>5, <2>6
<1>4. ASSUME NEW kind \in Kind, ReadKeyId(t, kind) \/ FinishReKeyThrows(t)
      PROVE  StoreMoves /\ SessionMoves /\ SockMoves /\ PageMoves /\ ConnMoves /\ TaskMoves
  <2>1. /\ ServerStays /\ sock' = sock /\ store' = store /\ page' = page /\ conn' = conn
        /\ rekeyed' = rekeyed
        /\ \A r \in Tab \ {t} : task'[r] = task[r]
        /\ \/ task'[t]["rekey"] \in {task[t]["rekey"], Idle}
           \/ /\ task[t]["rekey"].at = "import"
              /\ task'[t]["rekey"].priv = task[t]["rekey"].priv
              /\ task'[t]["rekey"].id = store[b].key
    BY <1>4, ReadFacts
  <2>2. SessionMoves
    BY <2>1, OldSessions
  <2>3. StoreMoves /\ SockMoves /\ ConnMoves
    BY <2>1 DEF StoreMoves, SockMoves, ConnMoves
  <2>4. PageMoves
    BY <1>1, <2>1 DEF PageMoves
  <2>5. TaskMoves
    BY <2>1 DEF TaskMoves
  <2> QED BY <2>2, <2>3, <2>4, <2>5
<1>5. ASSUME NEW kind \in Kind, FinishSigned(t, kind)
      PROVE  StoreMoves /\ SessionMoves /\ SockMoves /\ PageMoves /\ ConnMoves /\ TaskMoves
  <2>1. /\ ServerStays /\ store' = store /\ page' = page /\ conn' = conn /\ rekeyed' = rekeyed
        /\ \A r \in Tab : task'[r]["rekey"] = task[r]["rekey"]
        /\ \E m \in Msg : m.what \in {"list", "chore"} /\ m.new = NoKey /\ Send(t, m)
    BY <1>5, FinishSignedFacts
  <2>2. PICK m \in Msg : m.what \in {"list", "chore"} /\ Send(t, m)
    BY <2>1
  <2>3. \A s \in Session : \A i \in 1..Len(sock'[s]) :
          \/ \E j \in 1..Len(sock[s]) : sock'[s][i] = sock[s][j]
          \/ conn[t] = s /\ sock'[s][i] = m
    BY <2>2, SentMessages
  <2>4. SessionMoves
    BY <2>1, <2>2, <2>3, OldSessions
  <2>5. SockMoves
    BY <2>2, <2>3 DEF SockMoves
  <2>6. StoreMoves /\ ConnMoves /\ TaskMoves
    BY <2>1 DEF StoreMoves, ConnMoves, TaskMoves
  <2>7. PageMoves
    BY <1>1, <2>1 DEF PageMoves
  <2> QED BY <2>4, <2>5, <2>6, <2>7
<1> QED BY <1>2, <1>3, <1>4, <1>5

\* The server registers nobody who was not being registered.
LEMMA ServeSessions ==
  ASSUME TypeInv, NEW s \in Session, Serve(s)
  PROVE  OldMessages /\ SessionMoves
<1>1. ASSUME Answer(s) \/ Quiet, \A q \in Session \ {s} : auth'[q] = auth[q] /\ work'[q] = work[q],
             auth'[s] = "PendingChallenge" \/ work'[s].at \in {"announce", "consume"} => RegisteringIn(s)
      PROVE  OldMessages /\ SessionMoves
  <2>1. OldMessages /\ \A q \in Session \ {s} : sock'[q] = sock[q]
    BY <1>1, ServedMessages
  <2>2. \A q \in Session \ {s} : RegisteringIn(q)' => RegisteringIn(q)
    BY <1>1, <2>1 DEF RegisteringIn, Registry!At
  <2>3. RegisteringIn(s)' => RegisteringIn(s)
    BY <1>1, <2>1 DEF RegisteringIn, Registry!At, OldMessages
  <2> QED BY <2>1, <2>2, <2>3 DEF SessionMoves
<1>2. sock[s] # << >> /\ sock[s][1].what \in {"link", "confirm"} => RegisteringIn(s)
  <2>1. sock[s] # << >> => 1 \in 1..Len(sock[s])
    BY PopFacts DEF TypeInv, ClientTypes
  <2> QED BY <2>1 DEF RegisteringIn
<1>3. auth[s] = "PendingChallenge" \/ work[s].at \in {"announce", "consume"} => RegisteringIn(s)
  BY DEF RegisteringIn, Registry!At
<1>4. CASE HandleLink(s)
  <2>1. /\ Answer(s) /\ sock[s][1].what = "link" /\ work' = work
        /\ \A q \in Session \ {s} : auth'[q] = auth[q]
    BY <1>4, HandleLinkFacts
  <2>2. RegisteringIn(s)
    BY <1>2, <2>1 DEF Answer, Popped
  <2> QED BY <1>1, <2>1, <2>2
<1>5. CASE HandleConfirm(s)
  <2>1. /\ Quiet /\ sock[s] # << >> /\ sock[s][1].what = "confirm"
        /\ \A q \in Session \ {s} : auth'[q] = auth[q] /\ work'[q] = work[q]
    BY <1>5, HandleConfirmFacts
  <2>2. RegisteringIn(s)
    BY <1>2, <2>1
  <2> QED BY <1>1, <2>1, <2>2
<1>6. CASE HandleStaleConfirm(s)
  BY <1>1, <1>3, <1>6, HandleStaleConfirmFacts
<1>7. CASE AnnounceKey(s)
  BY <1>1, <1>3, <1>7, AnnounceKeyFacts
<1>8. CASE BurnToken(s)
  BY <1>1, <1>3, <1>8, BurnTokenFacts
<1>9. CASE HandleSigned(s)
  BY <1>1, <1>3, <1>9, HandleSignedFacts
<1>10. CASE Refuse(s)
  BY <1>1, <1>3, <1>10, RefuseFacts DEF registry
<1>11. CASE Onward(s)
  BY <1>1, <1>11 DEF Onward
<1>12. CASE CheckRetiring(s)
  BY <1>1, <1>3, <1>11, <1>12, CheckRetiringFacts
<1>13. CASE RetireOldKeys(s)
  BY <1>11, <1>13, RetireOldKeysFacts
<1>14. CASE ApplyReKey(s)
  BY <1>1, <1>3, <1>14, ApplyReKeyFacts
<1> QED BY <1>4, <1>5, <1>6, <1>7, <1>8, <1>9, <1>10, <1>12, <1>13, <1>14 DEF Serve

LEMMA ServerSide ==
  ASSUME TypeInv, KeyInv, SideInv, NEW s \in Session, Serve(s) \/ EndSession(s)
  PROVE  StoreMoves /\ SessionMoves /\ SockMoves /\ PageMoves /\ ConnMoves /\ TaskMoves
<1>1. store' = store /\ page' = page /\ conn' = conn /\ task' = task /\ rekeyed' = rekeyed
  BY DEF Serve, EndSession, past, tabs
<1>2. StoreMoves /\ ConnMoves /\ TaskMoves
  BY <1>1 DEF StoreMoves, ConnMoves, TaskMoves
<1>3. PageMoves
  BY <1>1 DEF PageMoves, SideInv
<1>4. CASE Serve(s)
  BY <1>2, <1>3, <1>4, ServeSessions, OldSock
<1>5. CASE EndSession(s)
  <2>1. /\ sock'[s] = << >> /\ \A q \in Session \ {s} : sock'[q] = sock[q]
        /\ work'[s].at = "ready" /\ \A q \in Session \ {s} : work'[q] = work[q]
        /\ auth'[s] = "Unauthenticated" /\ \A q \in Session \ {s} : auth'[q] = auth[q]
    BY <1>5, EndSessionFacts
  <2>2. SockMoves
    BY <2>1 DEF SockMoves
  <2>3. SessionMoves
    BY <2>1 DEF SessionMoves, RegisteringIn, Registry!At
  <2> QED BY <1>2, <1>3, <2>2, <2>3
<1> QED BY <1>4, <1>5

LEMMA RestartSide ==
  ASSUME TypeInv, KeyInv, SideInv, Restart
  PROVE  StoreMoves /\ SessionMoves /\ SockMoves /\ PageMoves /\ ConnMoves /\ TaskMoves
<1>1. /\ store' = store /\ task' = task /\ rekeyed' = rekeyed
      /\ \A s \in Session : /\ Len(sock'[s]) = 0 /\ work'[s].at = "ready"
                            /\ auth'[s] = "Unauthenticated"
      /\ \A t \in Tab : /\ conn'[t] = Nowhere
                        /\ page'[t] = IF page[t] = "register" THEN "none" ELSE page[t]
  BY DEF Restart, past, Registry!Ready
<1>2. StoreMoves /\ ConnMoves /\ TaskMoves /\ SockMoves
  BY <1>1 DEF StoreMoves, ConnMoves, TaskMoves, SockMoves
<1>3. SessionMoves
  BY <1>1 DEF SessionMoves, RegisteringIn, Registry!At
<1>4. PageMoves
  BY <1>1 DEF PageMoves
<1> QED BY <1>2, <1>3, <1>4

LEMMA NextSideInv ==
  ASSUME TypeInv, KeyInv, SideInv, [Next]_vars
  PROVE  SideInv'
<1>1. TypeInv' /\ KeyInv'
  BY NextTypeInv, NextKeyInv
<1> SUFFICES StoreMoves /\ SessionMoves /\ SockMoves /\ PageMoves /\ ConnMoves /\ TaskMoves
  BY <1>1, SideKept
<1>2. ASSUME NEW t \in Tab, OpenLink(t)
      PROVE  StoreMoves /\ SessionMoves /\ SockMoves /\ PageMoves /\ ConnMoves /\ TaskMoves
  BY <1>2, OpenLinkSide
<1>3. ASSUME NEW t \in Tab, Connect(t)
      PROVE  StoreMoves /\ SessionMoves /\ SockMoves /\ PageMoves /\ ConnMoves /\ TaskMoves
  BY <1>3, ConnectSide
<1>4. ASSUME NEW t \in Tab,
             \/ OpenApp(t) \/ GiveUp(t) \/ Click(t) \/ Break(t) \/ Close(t)
             \/ \E kind \in Kind : ReadKeyId(t, kind) \/ FinishReKeyThrows(t) \/ FinishSigned(t, kind)
      PROVE  StoreMoves /\ SessionMoves /\ SockMoves /\ PageMoves /\ ConnMoves /\ TaskMoves
  BY <1>4, PlainSide
<1>5. ASSUME NEW t \in Tab, FinishReKey(t)
      PROVE  StoreMoves /\ SessionMoves /\ SockMoves /\ PageMoves /\ ConnMoves /\ TaskMoves
  BY <1>5, FinishReKeySide
<1>6. ASSUME NEW t \in Tab, Receive(t)
      PROVE  StoreMoves /\ SessionMoves /\ SockMoves /\ PageMoves /\ ConnMoves /\ TaskMoves
  BY <1>6, ReceiveSide
<1>7. ASSUME NEW s \in Session, Serve(s) \/ EndSession(s)
      PROVE  StoreMoves /\ SessionMoves /\ SockMoves /\ PageMoves /\ ConnMoves /\ TaskMoves
  BY <1>7, ServerSide
<1>8. CASE Restart
  BY <1>8, RestartSide
<1>9. CASE Save \/ Tick \/ UNCHANGED vars
  <2>1. /\ store' = store /\ page' = page /\ conn' = conn /\ task' = task /\ rekeyed' = rekeyed
        /\ sock' = sock /\ auth' = auth /\ work' = work
    BY <1>9 DEF Save, Tick, Registry!Tick, vars, registry, tabs, net, past
  <2>2. StoreMoves /\ ConnMoves /\ TaskMoves /\ SockMoves
    BY <2>1 DEF StoreMoves, ConnMoves, TaskMoves, SockMoves
  <2>3. SessionMoves
    BY <2>1 DEF SessionMoves, RegisteringIn, Registry!At
  <2>4. PageMoves
    BY <2>1 DEF PageMoves, SideInv
  <2> QED BY <2>2, <2>3, <2>4
<1> QED BY <1>2, <1>3, <1>4, <1>5, <1>6, <1>7, <1>8, <1>9 DEF Next, TaskStep

LEMMA InitSideInv == Init => SideInv
<1> SUFFICES ASSUME Init PROVE SideInv
  OBVIOUS
<1>1. /\ \A t \in Tab : task[t]["rekey"] = Idle /\ page[t] = "none" /\ conn[t] = Nowhere
      /\ \A s \in Session : Len(sock[s]) = 0
  BY DEF Init, Kind
<1>2. \A t \in Tab : TaskKeys(t) = {}
  BY <1>1 DEF TaskKeys, Idle
<1> QED BY <1>1, <1>2, PlaceAssumption DEF SideInv, Introducing

\* A ReKey and a registration never share a connection, in the queue or in the
\* tab that is still signing, and only the tabs of a browser introduce its key.
THEOREM SideInvariant == Spec => []SideInv
<1>1. TypeInv /\ KeyInv /\ SideInv /\ [Next]_vars => SideInv'
  BY NextSideInv
<1> QED BY TypeInvariant, KeyInvariant, InitSideInv, <1>1, PTL DEF Spec

-----------------------------------------------------------------------------
(* BrowserInv: a browser without a mishap keeps a usable key.               *)

\* Where the messages of session s are after a step: d places further to the
\* front, or new and sent by another browser than b, which holds the key k.
Shifted(b, k, s, d) ==
  \A i \in 1..Len(sock'[s]) : sock'[s][i].what = "rekey" =>
    \/ i + d \in 1..Len(sock[s]) /\ sock'[s][i] = sock[s][i + d]
    \/ /\ sock'[s][i].new # k
       /\ \E r \in Tab : BrowserOf[r] # b /\ sock'[s][i].id \in TaskKeys(r)
MailMoves(b, k) == \A s \in Session : \E d \in {0, 1} : Shifted(b, k, s, d)

\* What the other steps do to the re-keys.
TasksMove(b, k) ==
  \A t \in Tab :
    /\ BrowserOf[t] = b =>
         \/ task'[t]["rekey"] = Idle
         \/ /\ task[t]["rekey"] # Idle /\ (conn'[t] # Nowhere => conn[t] # Nowhere)
            /\ task'[t]["rekey"].priv = task[t]["rekey"].priv
            /\ task'[t]["rekey"].id \in {task[t]["rekey"].id, k}
    /\ BrowserOf[t] # b =>
         \A x \in {task'[t]["rekey"].priv, task'[t]["rekey"].id} \ {NoKey} :
           x \in TaskKeys(t) \/ \E c \in Browser : store[c].key = x
Marked(b, k, x) == \E s \in Session :
  1 \in 1..Len(sock[s]) /\ sock[s][1].what = "rekey" /\ sock[s][1].id = x /\ Shifted(b, k, s, 1)
CurrentMoves(b, k) ==
  \A x \in MaybeKey : Current(b, x) =>
    Marked(b, k, x) \/ \E r \in pubkeys'[Person[b]] : r.id = x /\ ~ r.retiring

LEMMA ReKeyKept ==
  ASSUME TypeInv, KeyInv, SideInv, TypeInv', KeyInv',
         NEW b \in Browser, NEW k \in MaybeKey, store[b].key = k, ReKeySafe(b, k),
         NEW l \in {k, NoKey},
         MailMoves(b, k), TasksMove(b, k), CurrentMoves(b, k)
  PROVE  ReKeySafe(b, l)'
<1>1. \A s \in Session : \A i \in 1..Len(sock'[s]) : sock'[s][i].what = "rekey" => sock'[s][i].new # NoKey
  BY DEF KeyInv
<1>2. \A s \in Session : \A i \in 1..Len(sock[s]) : \A c \in Browser :
        sock[s][i].what = "rekey" => store[c].key # sock[s][i].id
  BY DEF KeyInv
<1>3. \A t, r \in Tab : BrowserOf[t] # BrowserOf[r] => TaskKeys(t) \cap TaskKeys(r) = {}
  BY DEF SideInv
<1>4. \A s \in Session : \A i \in 1..Len(sock'[s]) : sock'[s][i].id \in MaybeKey
  <2>1. \A s \in Session : sock'[s] \in Seq(Msg)
    BY DEF TypeInv, ClientTypes
  <2>2. \A s \in Session : \A i \in 1..Len(sock'[s]) : sock'[s][i] \in Msg
    BY <2>1, ElementOfSeq
  <2> QED BY <2>2 DEF Msg
<1>5. \A s \in Session : \A i \in 1..Len(sock'[s]) :
        sock'[s][i].what = "rekey" /\ sock'[s][i].new = l =>
          l = k /\ \E j \in 1..Len(sock[s]) : sock[s][j] = sock'[s][i]
  BY <1>1 DEF MailMoves, Shifted
<1>6. Coming(l)' => l = k /\ Coming(k)
  BY <1>5 DEF Coming
<1>7. OneReKey(b)'
  BY DEF ReKeySafe, OneReKey, TasksMove
<1>8. SigningSafe(b, l)'
  <2> SUFFICES ASSUME NEW t \in Tab, NEW x \in MaybeKey, BrowserOf[t] = b, conn'[t] # Nowhere,
                      task'[t]["rekey"] # Idle, task'[t]["rekey"].priv = x
               PROVE  /\ x # NoKey /\ {task'[t]["rekey"].id, l} \subseteq {NoKey, x}
                      /\ Current(b, x)' /\ ~ Replacing(x)' /\ ~ Coming(l)'
    BY DEF SigningSafe
  <2>1. /\ task[t]["rekey"] # Idle /\ conn[t] # Nowhere /\ task[t]["rekey"].priv = x
        /\ task'[t]["rekey"].id \in {task[t]["rekey"].id, k}
    BY DEF TasksMove
  <2>2. /\ x # NoKey /\ {task[t]["rekey"].id, k} \subseteq {NoKey, x}
        /\ Current(b, x) /\ ~ Replacing(x) /\ ~ Coming(k)
    BY <2>1 DEF ReKeySafe, SigningSafe
  <2>3. ~ Marked(b, k, x)
    BY <2>2 DEF Marked, Replacing
  <2>4. Current(b, x)'
    BY <2>2, <2>3 DEF CurrentMoves, Current
  <2>5. x \in TaskKeys(t)
    BY <2>1, <2>2 DEF TaskKeys
  <2>6. \A s \in Session : \A i \in 1..Len(sock'[s]) :
          ~ (sock'[s][i].what = "rekey" /\ sock'[s][i].id = x)
    <3> SUFFICES ASSUME NEW s \in Session, NEW i \in 1..Len(sock'[s]),
                        sock'[s][i].what = "rekey", sock'[s][i].id = x
                 PROVE  FALSE
      OBVIOUS
    <3>1. PICK d \in {0, 1} : Shifted(b, k, s, d)
      BY DEF MailMoves
    <3>2. ~ \E r \in Tab : BrowserOf[r] # b /\ x \in TaskKeys(r)
      BY <1>3, <2>5
    <3>3. i + d \in 1..Len(sock[s]) /\ sock'[s][i] = sock[s][i + d]
      BY <3>1, <3>2 DEF Shifted
    <3> QED BY <2>2, <3>3 DEF Replacing
  <2>7. ~ Replacing(x)'
    BY <2>6 DEF Replacing
  <2> QED BY <1>6, <2>1, <2>2, <2>4, <2>7
<1>9. ComingSafe(b, l)'
  <2> SUFFICES ASSUME NEW s \in Session, NEW i \in 1..Len(sock'[s]), NEW x \in MaybeKey,
                      sock'[s][i].what = "rekey", sock'[s][i].new = l, sock'[s][i].id = x
               PROVE  /\ SessionUser[s] = Person[b] /\ sock'[s][i].priv = x
                      /\ Current(b, x)' /\ OnlyAt(x, s, i)'
                      /\ \A t \in Tab : BrowserOf[t] # b =>
                           x \notin {task'[t]["rekey"].priv, task'[t]["rekey"].id} \ {NoKey}
    BY DEF ComingSafe, TaskKeys
  <2>1. l = k
    BY <1>5
  <2>2. PICK d \in {0, 1} : Shifted(b, k, s, d)
    BY DEF MailMoves
  <2>3. i + d \in 1..Len(sock[s]) /\ sock'[s][i] = sock[s][i + d]
    BY <2>1, <2>2 DEF Shifted
  <2>4. /\ SessionUser[s] = Person[b] /\ sock[s][i + d].priv = x
        /\ Current(b, x) /\ OnlyAt(x, s, i + d)
        /\ \A t \in Tab : BrowserOf[t] # b => x \notin TaskKeys(t)
    BY <2>1, <2>3 DEF ReKeySafe, ComingSafe
  <2>5. ~ Marked(b, k, x)
    <3> SUFFICES ASSUME NEW q \in Session, 1 \in 1..Len(sock[q]), sock[q][1].what = "rekey",
                        sock[q][1].id = x, Shifted(b, k, q, 1)
                 PROVE  FALSE
      BY DEF Marked
    <3>1. q = s
      BY <2>4 DEF OnlyAt
    <3>2. i + 1 \in 1..Len(sock[s]) /\ sock'[s][i] = sock[s][i + 1]
      BY <2>1, <3>1 DEF Shifted
    <3>3. i + 1 = i + d /\ 1 = i + d
      BY <2>4, <3>1, <3>2 DEF OnlyAt
    <3> QED BY <3>3
  <2>6. Current(b, x)'
    BY <2>4, <2>5 DEF CurrentMoves, Current
  <2>7. \A t \in Tab : BrowserOf[t] # b =>
                           x \notin {task'[t]["rekey"].priv, task'[t]["rekey"].id} \ {NoKey}
    BY <1>2, <2>3, <2>4 DEF TasksMove
  <2>8. ASSUME NEW q \in Session, NEW j \in 1..Len(sock'[q]),
               sock'[q][j].what = "rekey", sock'[q][j].id = x
        PROVE  q = s /\ j = i
    <3>1. ~ \E r \in Tab : BrowserOf[r] # b /\ x \in TaskKeys(r)
      BY <2>4
    <3>2. CASE q = s
      <4>1. j + d \in 1..Len(sock[s]) /\ sock'[s][j] = sock[s][j + d]
        BY <2>2, <2>8, <3>1, <3>2 DEF Shifted
      <4>2. j + d = i + d
        BY <2>4, <2>8, <3>2, <4>1 DEF OnlyAt
      <4> QED BY <3>2, <4>2
    <3>3. CASE q # s
      <4>1. PICK e \in {0, 1} : Shifted(b, k, q, e)
        BY DEF MailMoves
      <4>2. j + e \in 1..Len(sock[q]) /\ sock'[q][j] = sock[q][j + e]
        BY <2>8, <3>1, <4>1 DEF Shifted
      <4> QED BY <2>4, <2>8, <3>3, <4>2 DEF OnlyAt
    <3> QED BY <3>2, <3>3
  <2>9. OnlyAt(x, s, i)'
    BY <2>8 DEF OnlyAt
  <2> QED BY <2>3, <2>4, <2>6, <2>7, <2>9
<1>10. SignedSafe(b, l)'
  BY <1>6 DEF SignedSafe, ReKeySafe, TasksMove
<1> QED BY <1>7, <1>8, <1>9, <1>10 DEF ReKeySafe

\* What the other steps do to a key that needs the link.
LinkMoves(b, k) ==
  /\ rekeyed'[b] = rekeyed[b] /\ saved' = saved
  /\ k # NoKey /\ Unknown(b, k)' =>
       /\ Unknown(b, k)
       /\ Person[b] \in tokens => Person[b] \in tokens' \/ \E s \in Session :
            SessionUser[s] = Person[b] /\ ~ LinkFor(s, k)
       /\ \A s \in Session : SessionUser[s] = Person[b] /\ LinkFor(s, k) => LinkFor(s, k)'

LEMMA LinkKept ==
  ASSUME NEW b \in Browser, NEW k \in MaybeKey, LinkSafe(b, k), LinkMoves(b, k),
         NEW l \in {k, NoKey}
  PROVE  LinkSafe(b, l)'
<1>1. CASE l = NoKey
  BY <1>1 DEF LinkSafe, Unknown
<1>2. CASE l = k /\ k # NoKey
  <2>1. Unknown(b, k)' => /\ Person[b] \in tokens'
                          /\ \A s \in Session : SessionUser[s] = Person[b] => LinkFor(s, k)'
    BY <1>2 DEF LinkSafe, LinkMoves
  <2>2. rekeyed'[b] = rekeyed[b] /\ saved' = saved
    BY DEF LinkMoves
  <2>3. ~ rekeyed'[b] /\ k # NoKey =>
          k \in Registry!Ids(saved.pubkeys[Person[b]])' \/ Person[b] \in saved'.tokens
    BY <2>2 DEF LinkSafe, Registry!Ids
  <2> QED BY <1>2, <2>1, <2>3 DEF LinkSafe
<1> QED BY <1>1, <1>2

\* The steps that begin something.
LEMMA OpenLinkSafe ==
  ASSUME TypeInv, OwnInv, SideInv, NEW t \in Tab, OpenLink(t), NEW b, b = BrowserOf[t], ~ mishap'[b]
  PROVE  SafeBrowser(b)'
<1>1. /\ ServerStays /\ task' = task /\ page[t] = "none" /\ conn[t] = Nowhere /\ b \in Browser
      /\ rekeyed'[b] = FALSE
  BY OpenLinkFacts
<1>2. Person[b] \in tokens /\ ~ Registering(Person[b]) /\ ~ ReKeying(b)
  BY <1>1 DEF OpenLink
<1>3. \E k, s : Opened(t, b, k, s)
  BY OpenLinkFacts
<1> PICK k, s : Opened(t, b, k, s)
  BY <1>3
<1>4. /\ k \in KeyId /\ Unused(k) /\ s \in Session
      /\ auth[s] = "Unauthenticated" /\ work[s].at = "ready" /\ store'[b].key = k
      /\ Len(sock'[s]) = 1 /\ sock'[s][1] = Link(k)
      /\ \A q \in Session \ {s} : sock'[q] = sock[q]
  BY DEF Opened
<1>5. \A r \in Tab : BrowserOf[r] = b => task[r]["rekey"] = Idle
  BY <1>2 DEF ReKeying
<1>6. \A q \in Session : \A i \in 1..Len(sock'[q]) :
        ~ (sock'[q][i].what = "rekey" /\ sock'[q][i].new = k)
  BY <1>4 DEF Unused, Link
<1>7. ~ Coming(k)'
  BY <1>6 DEF Coming
<1>8. ReKeySafe(b, k)'
  <2>1. OneReKey(b)' /\ SigningSafe(b, k)'
    BY <1>1, <1>5 DEF OneReKey, SigningSafe
  <2>2. ComingSafe(b, k)' /\ SignedSafe(b, k)'
    BY <1>6, <1>7 DEF ComingSafe, SignedSafe
  <2> QED BY <2>1, <2>2 DEF ReKeySafe
<1>9. ASSUME NEW q \in Session, SessionUser[q] = Person[b]
      PROVE  LinkFor(q, k)'
  <2>1. /\ auth[q] # "PendingChallenge" /\ work[q].at \notin {"announce", "consume"}
        /\ \A i \in 1..Len(sock[q]) : sock[q][i].what # "link"
    BY <1>2, <1>9 DEF Registering, Registry!At
  <2>2. pending[q] = NoKey
    BY <2>1, Types DEF MaybeKey
  <2>3. \A i \in 1..Len(sock'[q]) : sock'[q][i].what = "link" => sock'[q][i].id = k
    BY <1>4, <2>1 DEF Link
  <2> QED BY <1>1, <2>1, <2>2, <2>3 DEF LinkFor, ServerStays, Registry!At
<1>10. Person[b] \in tokens' /\ Person[b] \in saved'.tokens
  BY <1>1, <1>2 DEF OwnInv, ServerStays
<1>11. LinkSafe(b, k)'
  BY <1>9, <1>10 DEF LinkSafe
<1> QED BY <1>4, <1>8, <1>11 DEF SafeBrowser

LEMMA FinishReKeySafe ==
  ASSUME TypeInv, KeyInv, OwnInv, SideInv, NEW t \in Tab, FinishReKey(t), NEW b, b = BrowserOf[t],
         SafeBrowser(b), ~ mishap'[b]
  PROVE  SafeBrowser(b)'
<1> PICK j, x, k0 : j = task[t]["rekey"] /\ x = j.priv /\ k0 = store[b].key
  OBVIOUS
<1>1. /\ ServerStays /\ page' = page /\ conn' = conn /\ b \in Browser
      /\ j.at = "sign" /\ task'[t]["rekey"] = Idle
      /\ \A r \in Tab \ {t} : task'[r] = task[r]
      /\ rekeyed'[b] = TRUE /\ mishap'[b] = (mishap[b] \/ conn[t] = Nowhere)
  BY FinishReKeyFacts
<1>2. PICK k, m : Replaced(t, b, j, k, m)
  BY FinishReKeyFacts
<1>3. /\ k \in KeyId /\ Unused(k) /\ store'[b].key = k /\ m \in Msg
      /\ m.what = "rekey" /\ m.new = k /\ m.priv = j.priv /\ m.id = j.id /\ Send(t, m)
  BY <1>2 DEF Replaced
<1>4. x \in MaybeKey /\ k0 \in MaybeKey /\ conn[t] \in Session /\ j # Idle
  <2>1. conn[t] # Nowhere
    BY <1>1
  <2>2. x \in MaybeKey /\ k0 \in MaybeKey /\ conn[t] \in Session \cup {Nowhere}
    BY TabTypes, Z3
  <2> QED BY <1>1, <2>1, <2>2 DEF Idle
<1>5. PICK s \in Session : conn[t] = s
  BY <1>4
<1>6. /\ \A q \in Session \ {s} : sock'[q] = sock[q]
      /\ Len(sock'[s]) = Len(sock[s]) + 1 /\ sock'[s][Len(sock[s]) + 1] = m
      /\ \A i \in 1..Len(sock[s]) : sock'[s][i] = sock[s][i]
  BY <1>3, <1>5, SendFacts, Z3
<1>7. Len(sock[s]) \in Nat
  BY LenProperties DEF TypeInv, ClientTypes
<1>8. ReKeySafe(b, k0)
  BY <1>4 DEF SafeBrowser
<1>9. /\ x # NoKey /\ j.id \in {NoKey, x} /\ Current(b, x) /\ ~ Replacing(x)
  BY <1>4, <1>5, <1>8, PlaceAssumption DEF ReKeySafe, SigningSafe
<1>10. j.id = x
  BY <1>1, <1>9 DEF KeyInv
<1>11. \A r \in Tab : BrowserOf[r] = b => task'[r]["rekey"] = Idle
  BY <1>1, <1>4, <1>8 DEF ReKeySafe, OneReKey
<1>12. x \in TaskKeys(t) /\ \A r \in Tab : BrowserOf[r] # b => x \notin TaskKeys(r)
  <2>1. x \in TaskKeys(t)
    BY <1>9 DEF TaskKeys
  <2> QED BY <2>1 DEF SideInv
<1> PICK n : n = Len(sock[s]) + 1
  OBVIOUS
<1>13. \A q \in Session : \A i \in 1..Len(sock'[q]) :
        \/ q = s /\ i = n /\ sock'[q][i] = m
        \/ i \in 1..Len(sock[q]) /\ sock'[q][i] = sock[q][i] /\ (q = s => i # n)
  BY <1>6, <1>7
<1>14. n \in 1..Len(sock'[s])
  BY <1>6, <1>7
<1>15. \A q \in Session : \A i \in 1..Len(sock'[q]) :
        sock'[q][i].what = "rekey" /\ sock'[q][i].id = x => q = s /\ i = n
  BY <1>9, <1>13 DEF Replacing
<1>16. \A q \in Session : \A i \in 1..Len(sock'[q]) :
        sock'[q][i].what = "rekey" /\ sock'[q][i].new = k => q = s /\ i = n /\ sock'[q][i] = m
  BY <1>3, <1>13 DEF Unused
<1>17. ReKeySafe(b, k)'
  <2>1. OneReKey(b)' /\ SigningSafe(b, k)' /\ SignedSafe(b, k)'
    BY <1>11 DEF OneReKey, SigningSafe, SignedSafe
  <2>2. SessionUser[s] = Person[b]
    BY <1>5, PlaceAssumption DEF OwnInv
  <2>3. \E r \in pubkeys'[Person[b]] : r.id = x /\ ~ r.retiring
    BY <1>1, <1>9 DEF ServerStays, Current
  <2>4. OnlyAt(x, s, n)'
    BY <1>15 DEF OnlyAt
  <2>5. \A r \in Tab : BrowserOf[r] # b => x \notin {task'[r]["rekey"].priv, task'[r]["rekey"].id} \ {NoKey}
    BY <1>1, <1>12 DEF TaskKeys
  <2>6. ComingSafe(b, k)'
    <3> SUFFICES ASSUME NEW q \in Session, NEW i \in 1..Len(sock'[q]), NEW y \in MaybeKey,
                        sock'[q][i].what = "rekey", sock'[q][i].new = k, sock'[q][i].id = y
                 PROVE  /\ SessionUser[q] = Person[b] /\ sock'[q][i].priv = y
                        /\ Current(b, y)' /\ OnlyAt(y, q, i)'
                        /\ \A r \in Tab : BrowserOf[r] # b =>
                             y \notin {task'[r]["rekey"].priv, task'[r]["rekey"].id} \ {NoKey}
      BY DEF ComingSafe, TaskKeys
    <3>1. q = s /\ i = n /\ sock'[q][i] = m
      BY <1>16
    <3>2. y = x
      BY <1>3, <1>10, <3>1
    <3>3. OnlyAt(y, q, i)'
      BY <2>4, <3>1, <3>2 DEF OnlyAt
    <3>4. Current(b, y)'
      BY <2>3, <3>2 DEF Current
    <3> QED BY <1>3, <2>2, <2>5, <3>1, <3>2, <3>3, <3>4
  <2> QED BY <2>1, <2>6 DEF ReKeySafe
<1>18. Coming(k)'
  <2>1. sock'[s][n].what = "rekey" /\ sock'[s][n].new = k
    BY <1>3, <1>6
  <2> QED BY <1>14, <2>1 DEF Coming
<1>19. LinkSafe(b, k)'
  BY <1>1, <1>18 DEF LinkSafe, Unknown
<1> QED BY <1>3, <1>17, <1>19 DEF SafeBrowser

LEMMA ConnectSafe ==
  ASSUME TypeInv, KeyInv, NEW t \in Tab, Connect(t), NEW b, b = BrowserOf[t],
         task'[t]["rekey"] # Idle, SafeBrowser(b), ~ mishap'[b]
  PROVE  SafeBrowser(b)'
<1> PICK k : k = store[b].key
  OBVIOUS
<1>1. /\ ServerStays /\ sock' = sock /\ store' = store /\ page' = page /\ rekeyed' = rekeyed
      /\ b \in Browser /\ k # NoKey
      /\ \A r \in Tab \ {t} : task'[r] = task[r]
      /\ task'[t]["rekey"] = [at |-> "import", priv |-> k, id |-> NoKey]
      /\ mishap'[b] = (mishap[b] \/
                    store[b].key \notin KnownKeys(b) \/ Introducing(b) \/ ReKeying(b))
  BY ConnectFacts
<1>2. k \in KnownKeys(b) /\ ~ Introducing(b) /\ ~ ReKeying(b)
  BY <1>1
<1>3. k \in MaybeKey
  BY <1>1, TabTypes
<1>4. ReKeySafe(b, k) /\ LinkSafe(b, k)
  BY <1>3 DEF SafeBrowser
<1>5. ~ Coming(k)
  BY <1>2 DEF Introducing, Introduces, Coming
<1>6. \A r \in Tab : BrowserOf[r] = b => task[r]["rekey"] = Idle
  BY <1>2 DEF ReKeying
<1>7. \E r \in pubkeys[Person[b]] : r.id = k /\ ~ r.retiring
  BY <1>1, <1>2 DEF KnownKeys, Registry!Ids, KeyInv
<1>8. ~ Replacing(k)
  BY <1>1 DEF KeyInv, Replacing
<1>9. Current(b, k)' /\ ~ Replacing(k)' /\ ~ Coming(k)'
  BY <1>1, <1>5, <1>7, <1>8 DEF Current, Replacing, Coming, ServerStays
<1>10. OneReKey(b)'
  BY <1>1, <1>6 DEF OneReKey
<1>11. SigningSafe(b, k)'
  <2> SUFFICES ASSUME NEW r \in Tab, NEW x \in MaybeKey, BrowserOf[r] = b,
                      task'[r]["rekey"] # Idle, task'[r]["rekey"].priv = x
               PROVE  /\ x # NoKey /\ {task'[r]["rekey"].id, k} \subseteq {NoKey, x}
                      /\ Current(b, x)' /\ ~ Replacing(x)' /\ ~ Coming(k)'
    BY DEF SigningSafe
  <2>1. r = t /\ x = k
    BY <1>1, <1>6
  <2>2. Current(b, x)' /\ ~ Replacing(x)'
    BY <1>9, <2>1 DEF Current, Replacing
  <2> QED BY <1>1, <1>9, <2>1, <2>2
<1>12. ComingSafe(b, k)' /\ SignedSafe(b, k)'
  BY <1>9 DEF ComingSafe, SignedSafe, Coming
<1>13. LinkSafe(b, k)'
  <2>1. k \in KnownKeys(b)'
    BY <1>1, <1>2 DEF KnownKeys, ServerStays, Registry!Ids
  <2>2. ~ rekeyed'[b] /\ k # NoKey =>
          k \in Registry!Ids(saved.pubkeys[Person[b]])' \/ Person[b] \in saved'.tokens
    BY <1>1, <1>4 DEF LinkSafe, ServerStays, Registry!Ids
  <2> QED BY <2>1, <2>2 DEF LinkSafe, Unknown
<1> QED BY <1>1, <1>10, <1>11, <1>12, <1>13 DEF SafeBrowser, ReKeySafe

\* All that SafeBrowser needs of the other steps.
Harmless(b, k) ==
  /\ store'[b].key \in {k, NoKey}
  /\ MailMoves(b, k) /\ TasksMove(b, k) /\ CurrentMoves(b, k) /\ LinkMoves(b, k)

LEMMA HarmlessSafe ==
  ASSUME TypeInv, KeyInv, SideInv, TypeInv', KeyInv', NEW b \in Browser, SafeBrowser(b),
         NEW k, k = store[b].key, Harmless(b, k)
  PROVE  SafeBrowser(b)'
<1>1. k \in MaybeKey
  BY DEF TypeInv, ClientTypes
<1>2. ReKeySafe(b, k) /\ LinkSafe(b, k)
  BY <1>1 DEF SafeBrowser
<1>3. ASSUME NEW l \in MaybeKey, store'[b].key = l PROVE ReKeySafe(b, l)' /\ LinkSafe(b, l)'
  <2>1. l \in {k, NoKey}
    BY <1>3 DEF Harmless
  <2>2. ReKeySafe(b, l)'
    BY <1>1, <1>2, <2>1, ReKeyKept DEF Harmless
  <2>3. LinkSafe(b, l)'
    BY <1>1, <1>2, <2>1, LinkKept DEF Harmless
  <2> QED BY <2>2, <2>3
<1> QED BY <1>3 DEF SafeBrowser

\* The messages are still there, and no ReKey is new.
Kept(b, k) ==
  /\ MailMoves(b, k) /\ (Coming(k) => Coming(k)')
  /\ \A s \in Session : SessionUser[s] = Person[b] =>
       \A i \in 1..Len(sock'[s]) : sock'[s][i].what = "link" =>
         \E j \in 1..Len(sock[s]) : sock[s][j] = sock'[s][i]

LEMMA ClientHarmless ==
  ASSUME ServerStays, NEW b \in Browser, NEW k, rekeyed'[b] = rekeyed[b], Kept(b, k)
  PROVE  MailMoves(b, k) /\ CurrentMoves(b, k) /\ LinkMoves(b, k)
<1>1. CurrentMoves(b, k)
  BY DEF CurrentMoves, ServerStays, Current
<1>2. Unknown(b, k)' => Unknown(b, k)
  BY DEF Unknown, Kept, ServerStays, KnownKeys, Registry!Ids
<1>3. \A s \in Session : SessionUser[s] = Person[b] /\ LinkFor(s, k) => LinkFor(s, k)'
  BY DEF LinkFor, ServerStays, Kept, Registry!At
<1> QED BY <1>1, <1>2, <1>3 DEF LinkMoves, ServerStays, Kept

LEMMA KeptAll ==
  ASSUME TypeInv, NEW b, NEW k, sock' = sock
  PROVE  Kept(b, k)
<1>1. \A s \in Session : Shifted(b, k, s, 0)
  <2>1. \A s \in Session : Len(sock[s]) \in Nat
    BY LenProperties DEF TypeInv, ClientTypes
  <2> QED BY <2>1 DEF Shifted
<1> QED BY <1>1 DEF Kept, MailMoves, Coming

LEMMA KeptSent ==
  ASSUME TypeInv, NEW b \in Browser, NEW k, NEW t \in Tab, NEW m \in Msg, Send(t, m),
         m.what # "link", m.what = "rekey" => m.new # k /\ BrowserOf[t] # b /\ m.id \in TaskKeys(t)
  PROVE  Kept(b, k)
<1>1. /\ \A q \in Session : conn[t] # q => sock'[q] = sock[q]
      /\ \A q \in Session : conn[t] = q =>
              /\ Len(sock'[q]) = Len(sock[q]) + 1 /\ sock'[q][Len(sock[q]) + 1] = m
              /\ \A i \in 1..Len(sock[q]) : sock'[q][i] = sock[q][i]
  BY SendFacts, Z3
<1>2. \A q \in Session : Len(sock[q]) \in Nat
  BY LenProperties DEF TypeInv, ClientTypes
<1>3. \A q \in Session : \A i \in 1..Len(sock[q]) : i \in 1..Len(sock'[q]) /\ sock'[q][i] = sock[q][i]
  BY <1>1, <1>2
<1>4. \A q \in Session : \A i \in 1..Len(sock'[q]) :
        \/ i \in 1..Len(sock[q]) /\ sock'[q][i] = sock[q][i] /\ i + 0 = i
        \/ sock'[q][i] = m
  BY <1>1, <1>2
<1>5. \A s \in Session : Shifted(b, k, s, 0)
  BY <1>4 DEF Shifted
<1>6. Coming(k) => Coming(k)'
  BY <1>3 DEF Coming
<1> QED BY <1>4, <1>5, <1>6 DEF Kept, MailMoves

LEMMA TasksKept ==
  ASSUME NEW b, NEW k,
         \A r \in Tab : task'[r]["rekey"] \in {task[r]["rekey"], Idle},
         \A r \in Tab : BrowserOf[r] = b =>
           conn'[r] \in {conn[r], Nowhere} \/ task'[r]["rekey"] = Idle
  PROVE  TasksMove(b, k)
BY DEF TasksMove, TaskKeys, Idle

LEMMA OpenLinkHarmless ==
  ASSUME TypeInv, SideInv, NEW t \in Tab, OpenLink(t), NEW b \in Browser, b # BrowserOf[t],
         ~ mishap'[b], NEW k, k = store[b].key
  PROVE  Harmless(b, k)
<1> PICK c : c = BrowserOf[t]
  OBVIOUS
<1>1. /\ ServerStays /\ task' = task /\ page[t] = "none" /\ c \in Browser
      /\ \A o \in Browser \ {c} : rekeyed'[o] = rekeyed[o]
  BY OpenLinkFacts
<1>2. ~ (Person[b] = Person[c] /\ Waiting(b))
  BY DEF OpenLink
<1>3. \E l, s : Opened(t, c, l, s)
  BY OpenLinkFacts
<1> PICK l, s : Opened(t, c, l, s)
  BY <1>3
<1>4. /\ s \in Session /\ SessionUser[s] = Person[c] /\ sock[s] = << >>
      /\ \A o \in Browser \ {c} : store'[o] = store[o]
      /\ Len(sock'[s]) = 1 /\ sock'[s][1] = Link(l)
      /\ \A q \in Session \ {s} : sock'[q] = sock[q]
      /\ \A r \in Tab \ {t} : conn'[r] = conn[r]
  BY DEF Opened
<1>5. \A q \in Session : Len(sock[q]) \in Nat
  BY LenProperties DEF TypeInv, ClientTypes
<1>6. \A q \in Session : Shifted(b, k, q, 0)
  BY <1>4, <1>5 DEF Shifted, Link
<1>7. Coming(k) => Coming(k)'
  <2>1. Len(sock[s]) = 0
    BY <1>4, EmptySeq
  <2> QED BY <1>4, <2>1 DEF Coming
<1>8. TasksMove(b, k)
  BY <1>1, <1>4, TasksKept
<1>9. CurrentMoves(b, k)
  BY <1>1 DEF CurrentMoves, ServerStays, Current
<1>10. Waiting(b) <=> Unknown(b, k)
  BY DEF Waiting, Unknown, Introducing, Introduces, Coming
<1>11. Unknown(b, k)' => Unknown(b, k)
  BY <1>1, <1>7 DEF Unknown, ServerStays, KnownKeys, Registry!Ids
<1>12. Unknown(b, k) => \A q \in Session : SessionUser[q] = Person[b] /\ LinkFor(q, k) => LinkFor(q, k)'
  BY <1>1, <1>2, <1>4, <1>10 DEF LinkFor, ServerStays, Registry!At
<1>13. LinkMoves(b, k)
  BY <1>1, <1>11, <1>12 DEF LinkMoves, ServerStays
<1> QED BY <1>4, <1>6, <1>8, <1>9, <1>13 DEF Harmless, MailMoves

LEMMA ConnectHarmless ==
  ASSUME TypeInv, NEW t \in Tab, Connect(t), NEW b \in Browser,
         b # BrowserOf[t] \/ task'[t]["rekey"] = Idle, NEW k, k = store[b].key
  PROVE  Harmless(b, k)
<1> PICK c : c = BrowserOf[t]
  OBVIOUS
<1>1. /\ ServerStays /\ sock' = sock /\ store' = store /\ page' = page /\ rekeyed' = rekeyed
      /\ c \in Browser /\ \A r \in Tab \ {t} : task'[r] = task[r]
      /\ \/ task'[t]["rekey"] = Idle
         \/ task'[t]["rekey"] = [at |-> "import", priv |-> store[c].key, id |-> NoKey]
  BY ConnectFacts
<1>2. \E s : Joined(t, c, s)
  BY ConnectFacts
<1>3. \A r \in Tab \ {t} : conn'[r] = conn[r]
  BY <1>2 DEF Joined
<1>4. Kept(b, k)
  BY <1>1, KeptAll
<1>5. TasksMove(b, k)
  BY <1>1, <1>3 DEF TasksMove, TaskKeys, Idle
<1> QED BY <1>1, <1>4, <1>5, ClientHarmless DEF Harmless

LEMMA FinishReKeySends ==
  ASSUME TypeInv, NEW t \in Tab, FinishReKey(t), NEW b, b = BrowserOf[t],
         NEW j, j = task[t]["rekey"]
  PROVE  \E k, m : Replaced(t, b, j, k, m)
BY FinishReKeyFacts

LEMMA FinishReKeyHarmless ==
  ASSUME TypeInv, KeyInv, NEW t \in Tab, FinishReKey(t), NEW b \in Browser, b # BrowserOf[t],
         NEW h, h = store[b].key
  PROVE  Harmless(b, h)
<1> PICK c, j : c = BrowserOf[t] /\ j = task[t]["rekey"]
  OBVIOUS
<1>1. /\ ServerStays /\ conn' = conn /\ c \in Browser
      /\ j.at = "sign" /\ task'[t]["rekey"] = Idle
      /\ \A r \in Tab \ {t} : task'[r] = task[r]
      /\ rekeyed'[c] = TRUE /\ \A o \in Browser \ {c} : rekeyed'[o] = rekeyed[o]
  BY FinishReKeyFacts
<1> PICK k, m : Replaced(t, c, j, k, m)
  BY FinishReKeySends
<1>3. /\ Unused(k) /\ m \in Msg /\ \A o \in Browser \ {c} : store'[o] = store[o]
      /\ m.what = "rekey" /\ m.new = k /\ m.id = j.id /\ Send(t, m)
  BY DEF Replaced
<1>4. m.new # h
  BY <1>3 DEF Unused
<1>5. m.id \in TaskKeys(t)
  BY <1>1, <1>3 DEF KeyInv, TaskKeys
<1>6. Kept(b, h)
  BY <1>3, <1>4, <1>5, KeptSent
<1>7. TasksMove(b, h)
  BY <1>1, TasksKept
<1>8. store'[b].key = h
  BY <1>3
<1> QED BY <1>1, <1>6, <1>7, <1>8, ClientHarmless DEF Harmless

LEMMA ReceiveHarmless ==
  ASSUME TypeInv, NEW t \in Tab, Receive(t), NEW b \in Browser, NEW k, k = store[b].key
  PROVE  Harmless(b, k)
<1> PICK c : c = BrowserOf[t]
  OBVIOUS
<1>1. /\ ServerStays /\ rekeyed' = rekeyed /\ c \in Browser
      /\ \A r \in Tab : task'[r]["rekey"] = task[r]["rekey"]
      /\ \A o \in Browser \ {c} : store'[o] = store[o]
      /\ store'[c].key \in {store[c].key, NoKey}
      /\ \A r \in Tab \ {t} : conn'[r] = conn[r]
      /\ conn'[t] \in {conn[t], Nowhere}
      /\ sock' = sock \/ Send(t, Confirm)
  BY ReceiveFacts
<1>2. Kept(b, k)
  <2>1. CASE sock' = sock
    BY <2>1, KeptAll
  <2>2. CASE Send(t, Confirm)
    <3>1. Confirm \in Msg /\ Confirm.what \notin {"link", "rekey"}
      BY MsgTypes DEF Confirm
    <3> QED BY <2>2, <3>1, KeptSent
  <2> QED BY <1>1, <2>1, <2>2
<1>3. TasksMove(b, k)
  BY <1>1, TasksKept
<1>4. store'[b].key \in {k, NoKey}
  BY <1>1
<1> QED BY <1>1, <1>2, <1>3, <1>4, ClientHarmless DEF Harmless

LEMMA LeaveHarmless ==
  ASSUME TypeInv, SideInv, NEW t \in Tab, Break(t) \/ Close(t), NEW b \in Browser, ~ mishap'[b],
         NEW k, k = store[b].key
  PROVE  Harmless(b, k)
<1> PICK c : c = BrowserOf[t]
  OBVIOUS
<1>1. /\ ServerStays /\ store' = store /\ rekeyed' = rekeyed /\ c \in Browser
      /\ conn'[t] = Nowhere /\ \A r \in Tab \ {t} : conn'[r] = conn[r]
      /\ \A r \in Tab : task'[r]["rekey"] \in {task[r]["rekey"], Idle}
      /\ \/ conn[t] = Nowhere /\ sock' = sock /\ mishap' = mishap
         \/ \E s \in Session : conn[t] = s /\ Cut(c, s)
  BY LeaveFacts
<1>2. TasksMove(b, k)
  BY <1>1, TasksKept
<1>3. ASSUME NEW s \in Session, conn[t] = s, Cut(c, s)
      PROVE  Kept(b, k)
  <2>1. PICK n \in 0..Len(sock[s]) :
          /\ sock' = [sock EXCEPT ![s] = SubSeq(@, 1, n)]
          /\ Hurt(c, \E i \in n + 1..Len(sock[s]) : Introduces(sock[s][i], c))
    BY <1>3 DEF Cut
  <2>2. sock \in [Session -> Seq(Msg)] /\ \A q \in Session : Len(sock[q]) \in Nat
    BY LenProperties DEF TypeInv, ClientTypes
  <2>3. /\ Len(sock'[s]) = n /\ \A i \in 1..n : sock'[s][i] = sock[s][i]
        /\ \A q \in Session \ {s} : sock'[q] = sock[q]
    <3>1. Len(SubSeq(sock[s], 1, n)) = n /\ \A i \in 1..n : SubSeq(sock[s], 1, n)[i] = sock[s][i]
      BY <2>2, CutFacts
    <3> QED BY <2>1, <2>2, <3>1
  <2>4. \A q \in Session : \A i \in 1..Len(sock'[q]) :
          i \in 1..Len(sock[q]) /\ sock'[q][i] = sock[q][i] /\ i + 0 = i
    <3> TAKE q \in Session
    <3> TAKE i \in 1..Len(sock'[q])
    <3>1. CASE q = s
      BY <2>2, <2>3, <3>1
    <3>2. CASE q # s
      BY <2>2, <2>3, <3>2
    <3> QED BY <3>1, <3>2
  <2>5. MailMoves(b, k)
    BY <2>4 DEF MailMoves, Shifted
  <2>6. Coming(k) => Coming(k)'
    <3> SUFFICES ASSUME NEW q \in Session, NEW i \in 1..Len(sock[q]),
                        sock[q][i].what = "rekey", sock[q][i].new = k
                 PROVE  Coming(k)'
      BY DEF Coming
    <3>1. i \in 1..Len(sock'[q]) /\ sock'[q][i] = sock[q][i]
      <4>1. CASE q # s
        BY <2>3, <4>1
      <4>2. CASE q = s /\ i \in 1..n
        BY <2>3, <4>2
      <4>3. CASE q = s /\ i \notin 1..n
        <5>1. i \in n + 1..Len(sock[s])
          BY <2>2, <4>3
        <5>2. Introduces(sock[s][i], b)
          BY <4>3 DEF Introduces
        <5>3. b = c
          BY <1>3, <4>3, <5>2 DEF SideInv
        <5>4. mishap'[b]
          BY <2>1, <5>1, <5>2, <5>3 DEF Hurt, TypeInv, ClientTypes
        <5> QED BY <5>4
      <4> QED BY <4>1, <4>2, <4>3
    <3> QED BY <3>1 DEF Coming
  <2> QED BY <2>4, <2>5, <2>6 DEF Kept
<1>4. Kept(b, k)
  BY <1>1, <1>3, KeptAll
<1> QED BY <1>1, <1>2, <1>4, ClientHarmless DEF Harmless

LEMMA PlainHarmless ==
  ASSUME TypeInv, NEW t \in Tab, NEW b \in Browser, NEW k, k = store[b].key,
         \/ OpenApp(t) \/ GiveUp(t) \/ Click(t)
         \/ \E kind \in Kind : ReadKeyId(t, kind) \/ FinishReKeyThrows(t) \/ FinishSigned(t, kind)
  PROVE  Harmless(b, k)
<1> PICK c : c = BrowserOf[t]
  OBVIOUS
<1>1. CASE OpenApp(t) \/ GiveUp(t) \/ Click(t)
  <2>1. /\ ServerStays /\ sock' = sock /\ store' = store /\ conn' = conn
        /\ rekeyed' = rekeyed /\ mishap' = mishap
        /\ \A r \in Tab : task'[r]["rekey"] \in {task[r]["rekey"], Idle}
    BY <1>1, PageFacts
  <2>2. Kept(b, k) /\ TasksMove(b, k)
    BY <2>1, KeptAll, TasksKept
  <2> QED BY <2>1, <2>2, ClientHarmless DEF Harmless
<1>2. ASSUME NEW kind \in Kind, ReadKeyId(t, kind) \/ FinishReKeyThrows(t)
      PROVE  Harmless(b, k)
  <2>1. /\ ServerStays /\ sock' = sock /\ store' = store /\ page' = page /\ conn' = conn
        /\ rekeyed' = rekeyed /\ mishap' = mishap /\ c \in Browser
        /\ \A r \in Tab \ {t} : task'[r] = task[r]
        /\ \/ task'[t]["rekey"] \in {task[t]["rekey"], Idle}
           \/ /\ task[t]["rekey"].at = "import" /\ store[c].key # NoKey
              /\ task'[t]["rekey"].at = "sign"
              /\ task'[t]["rekey"].priv = task[t]["rekey"].priv
              /\ task'[t]["rekey"].id = store[c].key
    BY <1>2, ReadFacts
  <2>2. TasksMove(b, k)
    BY <2>1 DEF TasksMove, TaskKeys, Idle
  <2>3. Kept(b, k)
    BY <2>1, KeptAll
  <2> QED BY <2>1, <2>2, <2>3, ClientHarmless DEF Harmless
<1>3. ASSUME NEW kind \in Kind, FinishSigned(t, kind)
      PROVE  Harmless(b, k)
  <2>1. /\ ServerStays /\ store' = store /\ page' = page /\ conn' = conn
        /\ rekeyed' = rekeyed /\ mishap' = mishap
        /\ \A r \in Tab : task'[r]["rekey"] = task[r]["rekey"]
        /\ \E m \in Msg : m.what \in {"list", "chore"} /\ m.new = NoKey /\ Send(t, m)
    BY <1>3, FinishSignedFacts
  <2>2. PICK m \in Msg : m.what \in {"list", "chore"} /\ Send(t, m)
    BY <2>1
  <2>3. Kept(b, k)
    BY <2>2, KeptSent
  <2>4. TasksMove(b, k)
    BY <2>1, TasksKept
  <2> QED BY <2>1, <2>3, <2>4, ClientHarmless DEF Harmless
<1> QED BY <1>1, <1>2, <1>3

LEMMA TabSafe ==
  ASSUME TypeInv, KeyInv, OwnInv, SideInv, TypeInv', KeyInv', NEW t \in Tab,
         \/ OpenLink(t) \/ OpenApp(t) \/ Connect(t) \/ GiveUp(t) \/ Break(t) \/ Close(t)
         \/ Click(t) \/ (\E kind \in Kind : TaskStep(t, kind)) \/ Receive(t),
         NEW b \in Browser, ~ mishap[b] => SafeBrowser(b), ~ mishap'[b]
  PROVE  SafeBrowser(b)'
<1> PICK k : k = store[b].key
  OBVIOUS
<1>1. CASE OpenLink(t) /\ b = BrowserOf[t]
  BY <1>1, OpenLinkSafe
<1>2. ~ mishap[b]
  <2>1. mishap \in [Browser -> BOOLEAN]
    BY DEF TypeInv, ClientTypes
  <2> PICK c : c = BrowserOf[t]
    OBVIOUS
  <2>2. CASE OpenLink(t)
    BY <2>2 DEF OpenLink
  <2>3. CASE Connect(t)
    <3>1. \/ mishap' = mishap
          \/ /\ mishap'[c] = (mishap[c] \/
                    store[c].key \notin KnownKeys(c) \/ Introducing(c) \/ ReKeying(c))
             /\ \A o \in Browser \ {c} : mishap'[o] = mishap[o]
      BY <2>3, ConnectFacts
    <3> QED BY <3>1
  <2>4. CASE FinishReKey(t)
    BY <2>1, <2>4 DEF FinishReKey, Hurt
  <2>5. CASE Break(t) \/ Close(t)
    <3>1. \/ mishap' = mishap
          \/ c \in Browser /\ \E s \in Session : Cut(c, s)
      BY <2>5, LeaveFacts
    <3> QED BY <2>1, <3>1 DEF Cut, Hurt
  <2>6. CASE mishap' = mishap
    BY <2>6
  <2>7. OpenApp(t) \/ GiveUp(t) \/ Click(t) => mishap' = mishap
    BY PageFacts
  <2>8. Receive(t) => mishap' = mishap
    BY ReceiveFacts
  <2>9. ASSUME NEW kind \in Kind, ReadKeyId(t, kind) \/ FinishReKeyThrows(t) \/ FinishSigned(t, kind)
        PROVE  mishap' = mishap
    BY <2>9 DEF ReadKeyId, FinishReKeyThrows, FinishSigned
  <2> QED BY <2>2, <2>3, <2>4, <2>5, <2>6, <2>7, <2>8, <2>9 DEF TaskStep
<1>3. SafeBrowser(b)
  BY <1>2
<1>4. Harmless(b, k) => SafeBrowser(b)'
  BY <1>3, HarmlessSafe
<1>5. CASE OpenLink(t) /\ b # BrowserOf[t]
  BY <1>4, <1>5, OpenLinkHarmless
<1>6. CASE Connect(t)
  BY <1>3, <1>4, <1>6, ConnectSafe, ConnectHarmless
<1>7. CASE Break(t) \/ Close(t)
  BY <1>4, <1>7, LeaveHarmless
<1>8. CASE FinishReKey(t)
  BY <1>3, <1>4, <1>8, FinishReKeySafe, FinishReKeyHarmless
<1>9. CASE Receive(t)
  BY <1>4, <1>9, ReceiveHarmless
<1>10. CASE \/ OpenApp(t) \/ GiveUp(t) \/ Click(t)
            \/ \E kind \in Kind : ReadKeyId(t, kind) \/ FinishReKeyThrows(t) \/ FinishSigned(t, kind)
  BY <1>4, <1>10, PlainHarmless
<1> QED BY <1>1, <1>5, <1>6, <1>7, <1>8, <1>9, <1>10 DEF TaskStep

LEMMA ServedMail ==
  ASSUME TypeInv, NEW s \in Session, NEW b, NEW k, Answer(s) \/ Quiet
  PROVE  /\ MailMoves(b, k) /\ (Answer(s) => Shifted(b, k, s, 1))
         /\ \A q \in Session : \A i \in 1..Len(sock[q]) :
              \/ i \in 1..Len(sock'[q]) /\ sock'[q][i] = sock[q][i]
              \/ Answer(s) /\ q = s /\ i = 1
              \/ q = s /\ \E j \in 1..Len(sock'[q]) : sock'[q][j] = sock[q][i]
<1>1. \A q \in Session : Len(sock[q]) \in Nat
  BY LenProperties DEF TypeInv, ClientTypes
<1>2. \A q \in Session : sock'[q] = sock[q] => Shifted(b, k, q, 0)
  BY <1>1 DEF Shifted
<1>3. CASE Answer(s)
  <2>1. /\ \A q \in Session \ {s} : sock'[q] = sock[q]
        /\ Len(sock[s]) \in Nat \ {0} /\ Len(sock'[s]) = Len(sock[s]) - 1
        /\ \A i \in 1..Len(sock'[s]) : i + 1 \in 1..Len(sock[s]) /\ sock'[s][i] = sock[s][i + 1]
    BY <1>3, PoppedFacts DEF Answer
  <2>2. Shifted(b, k, s, 1)
    BY <2>1 DEF Shifted
  <2>3. MailMoves(b, k)
    BY <1>2, <2>1, <2>2 DEF MailMoves
  <2>4. ASSUME NEW i \in 1..Len(sock[s]), i # 1
        PROVE  \E j \in 1..Len(sock'[s]) : sock'[s][j] = sock[s][i]
    <3>1. i - 1 \in 1..Len(sock'[s]) /\ (i - 1) + 1 = i
      BY <2>1, <2>4
    <3> QED BY <2>1, <3>1
  <2> QED BY <1>3, <2>1, <2>2, <2>3, <2>4
<1>4. CASE Quiet /\ ~ Answer(s)
  BY <1>2, <1>4 DEF Quiet, MailMoves
<1> QED BY <1>3, <1>4

LEMMA ServeCurrent ==
  ASSUME TypeInv, KeyInv, NEW s \in Session, Serve(s), NEW b \in Browser, NEW k
  PROVE  CurrentMoves(b, k)
<1>1. pubkeys' = pubkeys => CurrentMoves(b, k)
  BY DEF CurrentMoves, Current
<1>2. Person[b] \in User
  BY PlaceAssumption
<1>3. CASE HandleConfirm(s)
  <2>1. /\ \A u \in User \ {SessionUser[s]} : pubkeys'[u] = pubkeys[u]
        /\ pubkeys'[SessionUser[s]] = pubkeys[SessionUser[s]] \cup {Registry!NewKey(pending[s])}
    BY <1>3, HandleConfirmFacts
  <2>2. pubkeys[Person[b]] \subseteq pubkeys'[Person[b]]
    BY <1>2, <2>1
  <2> QED BY <2>2 DEF CurrentMoves, Current
<1>4. CASE RetireOldKeys(s)
  <2>1. /\ \A u \in User \ {work[s].user} : pubkeys'[u] = pubkeys[u]
        /\ pubkeys'[work[s].user] =
              {r \in pubkeys[work[s].user] : ~ r.retiring \/ r.id = work[s].key}
    BY <1>4, RetireOldKeysFacts
  <2>2. \A r \in pubkeys[Person[b]] : ~ r.retiring => r \in pubkeys'[Person[b]]
    BY <1>2, <2>1
  <2> QED BY <2>2 DEF CurrentMoves, Current
<1>5. CASE ApplyReKey(s)
  <2>1. /\ work[s].at = "rekey" /\ Answer(s) /\ work[s].new # NoKey
        /\ \A u \in User \ {work[s].user} : pubkeys'[u] = pubkeys[u]
        /\ \/ pubkeys'[work[s].user] = pubkeys[work[s].user]
           \/ pubkeys'[work[s].user] =
                 {IF r.id = work[s].key THEN [r EXCEPT !.retiring = TRUE] ELSE r :
                    r \in pubkeys[work[s].user]} \cup {Registry!NewKey(work[s].new)}
    BY <1>5, ApplyReKeyFacts
  <2>2. 1 \in 1..Len(sock[s])
    BY <2>1, PoppedFacts DEF Answer
  <2>3. sock[s][1].id = work[s].key /\ sock[s][1].what = "rekey"
    BY <2>1, <2>2 DEF KeyInv, Handling, Registry!At
  <2>4. Marked(b, k, work[s].key)
    BY <2>1, <2>2, <2>3, ServedMail DEF Marked
  <2>5. \A r \in pubkeys[Person[b]] : r.id # work[s].key => r \in pubkeys'[Person[b]]
    BY <1>2, <2>1
  <2> QED BY <2>4, <2>5 DEF CurrentMoves, Current
<1> QED BY <1>1, <1>3, <1>4, <1>5, HandleLinkFacts, HandleStaleConfirmFacts, AnnounceKeyFacts,
           BurnTokenFacts, HandleSignedFacts, RefuseFacts, CheckRetiringFacts DEF Serve, registry

\* What the server does for a browser whose key it does not know.
LEMMA ServedLink ==
  ASSUME TypeInv, KeyInv, NEW s \in Session, Serve(s), NEW b \in Browser, NEW k \in MaybeKey,
         k = store[b].key, Answer(s) \/ Quiet,
         Answer(s) /\ sock[s][1].what = "rekey" /\ sock[s][1].new = k => k \in KnownKeys(b)',
         tokens' = tokens \/ (tokens' = tokens \ {SessionUser[s]} /\ work[s].at = "consume"),
         \A q \in Session \ {s} : work'[q] = work[q] /\ pending'[q] = pending[q],
         SessionUser[s] = Person[b] /\ LinkFor(s, k) /\ Unknown(b, k)' =>
           work'[s].at \notin {"announce", "consume"} /\ pending'[s] \in {NoKey, k}
  PROVE  LinkMoves(b, k)
<1>1. rekeyed' = rekeyed /\ saved' = saved
  BY DEF Serve, past, server
<1>2. ASSUME k # NoKey, k \in KnownKeys(b)
      PROVE  k \in KnownKeys(b)'
  <2>1. Current(b, k)
    BY <1>2 DEF Current, KnownKeys, Registry!Ids, KeyInv
  <2>2. ~ Marked(b, k, k)
    BY DEF Marked, KeyInv
  <2>3. CurrentMoves(b, k)
    BY ServeCurrent
  <2> QED BY <2>1, <2>2, <2>3 DEF CurrentMoves, KnownKeys, Registry!Ids
<1>3. Coming(k) => Coming(k)' \/ k \in KnownKeys(b)'
  <2> SUFFICES ASSUME NEW q \in Session, NEW i \in 1..Len(sock[q]),
                      sock[q][i].what = "rekey", sock[q][i].new = k
               PROVE  Coming(k)' \/ k \in KnownKeys(b)'
    BY DEF Coming
  <2>1. \/ \E j \in 1..Len(sock'[q]) : sock'[q][j] = sock[q][i]
        \/ Answer(s) /\ q = s /\ i = 1
    <3>1. \/ i \in 1..Len(sock'[q]) /\ sock'[q][i] = sock[q][i]
          \/ Answer(s) /\ q = s /\ i = 1
          \/ q = s /\ \E j \in 1..Len(sock'[q]) : sock'[q][j] = sock[q][i]
      BY ServedMail
    <3> QED BY <3>1
  <2> QED BY <2>1 DEF Coming
<1>4. k # NoKey /\ Unknown(b, k)' => Unknown(b, k)
  BY <1>2, <1>3 DEF Unknown
<1>5. Person[b] \in tokens => Person[b] \in tokens' \/ \E q \in Session :
            SessionUser[q] = Person[b] /\ ~ LinkFor(q, k)
  BY DEF LinkFor, Registry!At
<1>6. \A q \in Session : \A i \in 1..Len(sock'[q]) : \E j \in 1..Len(sock[q]) : sock[q][j] = sock'[q][i]
  BY ServedMessages DEF OldMessages
<1>7. Unknown(b, k)' =>
        \A q \in Session : SessionUser[q] = Person[b] /\ LinkFor(q, k) => LinkFor(q, k)'
  BY <1>6 DEF LinkFor, Registry!At
<1> QED BY <1>1, <1>4, <1>5, <1>7 DEF LinkMoves

LEMMA QuietNoAnswer ==
  ASSUME TypeInv, NEW s \in Session, Quiet
  PROVE  ~ Answer(s)
<1>1. Answer(s) => Len(sock[s]) \in Nat /\ Len(sock'[s]) = Len(sock[s]) - 1
  BY PoppedFacts DEF Answer
<1> QED BY <1>1 DEF Quiet

LEMMA ServeSafe ==
  ASSUME TypeInv, KeyInv, OwnInv, SideInv, TypeInv', KeyInv', NEW s \in Session, Serve(s),
         NEW b \in Browser, SafeBrowser(b), ~ mishap'[b]
  PROVE  SafeBrowser(b)'
<1> PICK k : k = store[b].key
  OBVIOUS
<1>1. store' = store /\ conn' = conn /\ task' = task
  BY DEF Serve
<1>2. TasksMove(b, k) /\ CurrentMoves(b, k)
  BY <1>1, ServeCurrent, TasksKept
<1>3. k \in MaybeKey
  BY DEF TypeInv, ClientTypes
<1>4. ReKeySafe(b, k)
  BY <1>3 DEF SafeBrowser
<1>5. SUFFICES (Answer(s) \/ Quiet) /\ LinkMoves(b, k)
  <2>1. Answer(s) \/ Quiet => MailMoves(b, k)
    BY ServedMail
  <2> QED BY <1>1, <1>2, <1>5, <2>1, HarmlessSafe DEF Harmless
<1>6. ASSUME Onward(s), work[s].at \in {"verified", "retire"}, tokens' = tokens
      PROVE  (Answer(s) \/ Quiet) /\ LinkMoves(b, k)
  <2>1. Answer(s) \/ Quiet
    BY <1>6 DEF Onward
  <2>2. Answer(s) => sock[s][1].what # "rekey" \/ Quiet
    <3>1. CASE work[s].new = NoKey
      <4>1. sock[s][1].new = NoKey
        BY <1>6, <3>1 DEF KeyInv, Handling, Registry!At
      <4>2. Answer(s) => 1 \in 1..Len(sock[s])
        BY PoppedFacts DEF Answer
      <4> QED BY <4>1, <4>2 DEF KeyInv
    <3>2. CASE Quiet
      BY <3>2
    <3> QED BY <1>6, <3>1, <3>2 DEF Onward
  <2>3. Quiet => ~ Answer(s)
    BY QuietNoAnswer
  <2>4. pending'[s] = NoKey /\ work'[s].at \in {"ready", "rekey"}
        /\ \A q \in Session \ {s} : work'[q] = work[q] /\ pending'[q] = pending[q]
    BY <1>6 DEF Onward
  <2> QED BY <1>3, <1>6, <2>1, <2>2, <2>3, <2>4, ServedLink
<1>7. CASE HandleLink(s)
  <2>1. /\ Answer(s) /\ sock[s][1].what = "link" /\ work[s].at = "ready"
        /\ pending'[s] = sock[s][1].id /\ \A q \in Session \ {s} : pending'[q] = pending[q]
        /\ tokens' = tokens /\ work' = work
    BY <1>7, HandleLinkFacts
  <2>2. 1 \in 1..Len(sock[s])
    BY <2>1, PoppedFacts DEF Answer
  <2>3. LinkFor(s, k) => pending'[s] = k
    BY <2>1, <2>2 DEF LinkFor
  <2> QED BY <1>3, <2>1, <2>3, ServedLink
<1>8. CASE HandleConfirm(s)
  <2>1. /\ Quiet /\ sock[s] # << >> /\ sock[s][1].what = "confirm" /\ pending[s] \in KeyId
        /\ pending'[s] = NoKey /\ \A q \in Session \ {s} : pending'[q] = pending[q]
        /\ \A q \in Session \ {s} : work'[q] = work[q] /\ tokens' = tokens
        /\ pubkeys'[SessionUser[s]] = pubkeys[SessionUser[s]] \cup {Registry!NewKey(pending[s])}
    BY <1>8, HandleConfirmFacts
  <2>2. SessionUser[s] = Person[b] /\ LinkFor(s, k) => k \in KnownKeys(b)'
    <3> DEFINE r == Registry!NewKey(pending[s])
    <3>1. r.id = pending[s] /\ r \in pubkeys'[SessionUser[s]]
      BY <2>1 DEF Registry!NewKey
    <3>2. LinkFor(s, k) => pending[s] = k
      BY <2>1, RegistryAssumption DEF LinkFor
    <3> HIDE DEF r
    <3> QED BY <3>1, <3>2 DEF KnownKeys, Registry!Ids
  <2>3. tokens' = tokens
    BY <1>8 DEF HandleConfirm, Registry!ConfirmKey
  <2> QED BY <1>3, <2>1, <2>2, <2>3, ServedLink DEF Unknown
<1>9. CASE HandleStaleConfirm(s)
  <2>1. /\ Answer(s) /\ sock[s][1].what = "confirm" /\ work[s].at = "ready"
        /\ pending'[s] = NoKey /\ \A q \in Session \ {s} : pending'[q] = pending[q]
        /\ tokens' = tokens /\ work' = work
    BY <1>9, HandleStaleConfirmFacts
  <2> QED BY <1>3, <2>1, ServedLink
<1>10. CASE AnnounceKey(s)
  <2>1. /\ Quiet /\ work[s].at = "announce"
        /\ \A q \in Session \ {s} : work'[q] = work[q]
        /\ pending' = pending /\ tokens' = tokens
    BY <1>10, AnnounceKeyFacts
  <2>2. ~ LinkFor(s, k)
    BY <2>1 DEF LinkFor, Registry!At
  <2>3. ~ Answer(s)
    BY <2>1, QuietNoAnswer
  <2> QED BY <1>3, <2>1, <2>2, <2>3, ServedLink
<1>11. CASE BurnToken(s)
  <2>1. /\ Answer(s) /\ work[s].at = "consume" /\ work'[s].at = "ready"
        /\ \A q \in Session \ {s} : work'[q] = work[q]
        /\ pending' = pending /\ tokens' = tokens \ {SessionUser[s]}
    BY <1>11, BurnTokenFacts
  <2>2. 1 \in 1..Len(sock[s])
    BY <2>1, PoppedFacts DEF Answer
  <2>3. sock[s][1].what # "rekey" /\ ~ LinkFor(s, k)
    BY <2>1, <2>2 DEF SideInv, RegisteringIn, LinkFor, Registry!At
  <2> QED BY <1>3, <2>1, <2>3, ServedLink
<1>12. CASE HandleSigned(s)
  <2>1. /\ Quiet /\ work'[s].at = "verified"
        /\ \A q \in Session \ {s} : work'[q] = work[q]
        /\ pending' = pending /\ tokens' = tokens
    BY <1>12, HandleSignedFacts
  <2>2. ~ Answer(s)
    BY <2>1, QuietNoAnswer
  <2>3. LinkFor(s, k) => pending'[s] \in {NoKey, k}
    BY <2>1 DEF LinkFor
  <2> QED BY <1>3, <2>1, <2>2, <2>3, ServedLink
<1>13. CASE Refuse(s)
  <2>1. /\ Answer(s) /\ work[s].at = "ready"
        /\ \/ sock[s][1].what = "link" /\ SessionUser[s] \notin tokens
           \/ /\ sock[s][1].what \in Kind
              /\ \/ sock[s][1].priv # sock[s][1].id
                 \/ \A r \in pubkeys[SessionUser[s]] :
                      ~ (r.id = sock[s][1].id /\ Registry!ValidAt(r, clock))
        /\ UNCHANGED registry
    BY <1>13, RefuseFacts
  <2>2. 1 \in 1..Len(sock[s]) /\ sock[s][1] \in Msg /\ Head(sock[s]) = sock[s][1]
    BY <2>1, PoppedFacts DEF Answer
  <2>3. ~ (sock[s][1].what = "rekey" /\ sock[s][1].new = k)
    <3> SUFFICES ASSUME sock[s][1].what = "rekey", sock[s][1].new = k
                 PROVE  FALSE
      OBVIOUS
    <3> PICK x : x = sock[s][1].id
      OBVIOUS
    <3>1. x \in MaybeKey
      BY <2>2 DEF Msg
    <3>2. SessionUser[s] = Person[b] /\ sock[s][1].priv = x /\ Current(b, x)
      BY <1>4, <2>2, <3>1 DEF ReKeySafe, ComingSafe
    <3>3. \E r \in pubkeys[SessionUser[s]] : r.id = x /\ ~ Registry!ValidAt(r, clock)
      BY <2>1, <3>2 DEF Current
    <3>4. Introduces(sock[s][1], b)
      BY DEF Introduces
    <3> QED BY <1>13, <2>2, <3>3, <3>4 DEF Refuse
  <2>4. work' = work /\ pending' = pending /\ tokens' = tokens
    BY <2>1 DEF registry
  <2>5. LinkFor(s, k) => pending'[s] \in {NoKey, k}
    BY <2>4 DEF LinkFor
  <2> QED BY <1>3, <2>1, <2>3, <2>4, <2>5, ServedLink
<1>14. CASE CheckRetiring(s)
  <2>1. /\ work[s].at = "verified" /\ tokens' = tokens
        /\ \/ Onward(s)
           \/ /\ Quiet /\ pending' = pending /\ work'[s].at = "retire"
              /\ \A q \in Session \ {s} : work'[q] = work[q]
    BY <1>14, CheckRetiringFacts
  <2>2. CASE Quiet /\ pending' = pending /\ work'[s].at = "retire"
              /\ \A q \in Session \ {s} : work'[q] = work[q]
    <3>1. ~ Answer(s)
      BY <2>2, QuietNoAnswer
    <3>2. LinkFor(s, k) => pending'[s] \in {NoKey, k}
      BY <2>2 DEF LinkFor
    <3> QED BY <1>3, <2>1, <2>2, <3>1, <3>2, ServedLink
  <2> QED BY <1>6, <2>1, <2>2
<1>15. CASE RetireOldKeys(s)
  BY <1>6, <1>15, RetireOldKeysFacts
<1>16. CASE ApplyReKey(s)
  <2> DEFINE u == work[s].user
  <2>1. /\ work[s].at = "rekey" /\ Answer(s) /\ work'[s].at = "ready"
        /\ \A q \in Session \ {s} : work'[q] = work[q]
        /\ pending' = pending /\ tokens' = tokens
        /\ \/ work[s].new \in Registry!Ids(pubkeys[u]) /\ pubkeys'[u] = pubkeys[u]
           \/ pubkeys'[u] =
                 {IF r.id = work[s].key THEN [r EXCEPT !.retiring = TRUE] ELSE r :
                    r \in pubkeys[u]} \cup {Registry!NewKey(work[s].new)}
    BY <1>16, ApplyReKeyFacts
  <2>2. u = SessionUser[s]
    BY DEF OwnInv
  <2> HIDE DEF u
  <2>3. \E r \in pubkeys'[u] : r.id = work[s].new
    <3> DEFINE n == Registry!NewKey(work[s].new)
    <3>1. n.id = work[s].new
      BY DEF Registry!NewKey
    <3>2. n \in pubkeys'[u] \/ (work[s].new \in Registry!Ids(pubkeys[u]) /\ pubkeys'[u] = pubkeys[u])
      BY <2>1
    <3> HIDE DEF n
    <3> QED BY <3>1, <3>2 DEF Registry!Ids
  <2>4. 1 \in 1..Len(sock[s]) /\ sock[s][1] \in Msg
    BY <2>1, PoppedFacts DEF Answer
  <2>5. sock[s][1].new = work[s].new
    BY <2>1 DEF KeyInv, Handling, Registry!At
  <2>6. sock[s][1].what = "rekey" /\ sock[s][1].new = k => SessionUser[s] = Person[b]
    BY <1>4, <2>4 DEF ReKeySafe, ComingSafe, Msg
  <2>7. sock[s][1].what = "rekey" /\ sock[s][1].new = k => k \in KnownKeys(b)'
    BY <2>2, <2>3, <2>5, <2>6 DEF KnownKeys, Registry!Ids
  <2>8. LinkFor(s, k) => pending'[s] \in {NoKey, k}
    BY <2>1 DEF LinkFor
  <2> QED BY <1>3, <2>1, <2>7, <2>8, ServedLink
<1> QED BY <1>7, <1>8, <1>9, <1>10, <1>11, <1>12, <1>13, <1>14, <1>15, <1>16 DEF Serve

LEMMA EndSessionSafe ==
  ASSUME TypeInv, KeyInv, SideInv, TypeInv', KeyInv', NEW s \in Session, EndSession(s),
         NEW b \in Browser, SafeBrowser(b)
  PROVE  SafeBrowser(b)'
<1> PICK k : k = store[b].key
  OBVIOUS
<1>1. store' = store /\ conn' = conn /\ task' = task /\ rekeyed' = rekeyed /\ saved' = saved
  BY DEF EndSession, tabs, past, server
<1>2. /\ sock[s] = << >> \/ work[s].at = "announce"
      /\ sock'[s] = << >> /\ \A q \in Session \ {s} : sock'[q] = sock[q]
      /\ work'[s].at = "ready" /\ \A q \in Session \ {s} : work'[q] = work[q]
      /\ pending'[s] = NoKey /\ \A q \in Session \ {s} : pending'[q] = pending[q]
      /\ tokens' = tokens /\ pubkeys' = pubkeys
  BY EndSessionFacts
<1>3. /\ \A q \in Session : Len(sock[q]) \in Nat
      /\ Len(sock'[s]) = 0 /\ (sock[s] = << >> => Len(sock[s]) = 0)
  BY <1>2, LenProperties, EmptySeq DEF TypeInv, ClientTypes
<1>4. \A i \in 1..Len(sock[s]) : sock[s][i].what # "rekey"
  BY <1>2, <1>3 DEF SideInv, RegisteringIn, Registry!At
<1>5. \A q \in Session : Shifted(b, k, q, 0)
  BY <1>2, <1>3 DEF Shifted
<1>6. Coming(k) => Coming(k)'
  BY <1>2, <1>4 DEF Coming
<1>7. TasksMove(b, k) /\ CurrentMoves(b, k)
  BY <1>1, <1>2, TasksKept DEF CurrentMoves, Current
<1>8. Unknown(b, k)' => Unknown(b, k)
  BY <1>2, <1>6 DEF Unknown, KnownKeys, Registry!Ids
<1>9. \A q \in Session : SessionUser[q] = Person[b] /\ LinkFor(q, k) => LinkFor(q, k)'
  BY <1>2, <1>3 DEF LinkFor, Registry!At
<1>10. LinkMoves(b, k)
  BY <1>1, <1>2, <1>8, <1>9 DEF LinkMoves
<1> QED BY <1>1, <1>5, <1>7, <1>10, HarmlessSafe DEF Harmless, MailMoves

LEMMA RestartSafe ==
  ASSUME TypeInv, Restart, NEW b \in Browser, SafeBrowser(b), ~ mishap'[b]
  PROVE  SafeBrowser(b)'
<1> PICK k : k = store[b].key
  OBVIOUS
<1>1. k \in MaybeKey
  BY DEF TypeInv, ClientTypes
<1>2. /\ store' = store /\ task' = task /\ rekeyed' = rekeyed /\ saved' = saved
      /\ tokens' = saved.tokens /\ pubkeys' = saved.pubkeys
      /\ \A s \in Session : /\ Len(sock'[s]) = 0 /\ work'[s].at = "ready"
                            /\ pending'[s] = NoKey
      /\ \A t \in Tab : conn'[t] = Nowhere
  BY DEF Restart, past, Registry!Ready
<1>3. ~ Introducing(b) /\ (rekeyed[b] => k \in Registry!Ids(saved.pubkeys[Person[b]]))
  BY DEF Restart
<1>4. ReKeySafe(b, k) /\ LinkSafe(b, k)
  BY <1>1 DEF SafeBrowser
<1>5. OneReKey(b)' /\ SigningSafe(b, k)' /\ ComingSafe(b, k)' /\ SignedSafe(b, k)'
  BY <1>2, <1>4 DEF ReKeySafe, OneReKey, SigningSafe, ComingSafe, SignedSafe, Coming
<1>6. Unknown(b, k)' => Person[b] \in tokens'
  BY <1>2, <1>3, <1>4 DEF LinkSafe, Unknown, KnownKeys, Registry!Ids
<1>7. \A s \in Session : LinkFor(s, k)'
  BY <1>2 DEF LinkFor, Registry!At
<1>8. ~ rekeyed'[b] /\ k # NoKey =>
        k \in Registry!Ids(saved.pubkeys[Person[b]])' \/ Person[b] \in saved'.tokens
  BY <1>2, <1>4 DEF LinkSafe, Registry!Ids
<1>9. LinkSafe(b, k)'
  BY <1>6, <1>7, <1>8 DEF LinkSafe
<1> QED BY <1>2, <1>5, <1>9 DEF SafeBrowser, ReKeySafe

LEMMA SaveSafe ==
  ASSUME TypeInv, OwnInv, SideInv, Save \/ Tick \/ UNCHANGED vars, NEW b \in Browser, SafeBrowser(b)
  PROVE  SafeBrowser(b)'
<1> PICK k : k = store[b].key
  OBVIOUS
<1>1. k \in MaybeKey
  BY DEF TypeInv, ClientTypes
<1>2. /\ store' = store /\ task' = task /\ conn' = conn /\ rekeyed' = rekeyed /\ sock' = sock
      /\ tokens' = tokens /\ pubkeys' = pubkeys /\ work' = work /\ pending' = pending
      /\ \/ saved' = saved
         \/ saved'.tokens = tokens /\ saved'.pubkeys = pubkeys
  BY DEF Save, Tick, Registry!Tick, vars, registry, tabs, past, net, server
<1>3. ReKeySafe(b, k) /\ LinkSafe(b, k)
  BY <1>1 DEF SafeBrowser
<1>4. ReKeySafe(b, k)'
  BY <1>2, <1>3 DEF ReKeySafe, OneReKey, SigningSafe, ComingSafe, SignedSafe, Coming, Replacing,
                    Current, OnlyAt, TaskKeys
<1>5. Unknown(b, k)' => Unknown(b, k)
  BY <1>2 DEF Unknown, Coming, KnownKeys, Registry!Ids
<1>6. \A s \in Session : LinkFor(s, k) => LinkFor(s, k)'
  BY <1>2 DEF LinkFor, Registry!At
<1>7. ~ rekeyed[b] => ~ Coming(k)
  BY DEF SideInv, Introducing, Introduces, Coming
<1>8. ~ rekeyed'[b] /\ k # NoKey =>
        k \in Registry!Ids(saved.pubkeys[Person[b]])' \/ Person[b] \in saved'.tokens
  BY <1>2, <1>3, <1>7 DEF LinkSafe, Unknown, KnownKeys, Registry!Ids
<1>9. LinkSafe(b, k)'
  BY <1>2, <1>3, <1>5, <1>6, <1>8 DEF LinkSafe
<1> QED BY <1>2, <1>4, <1>9 DEF SafeBrowser

LEMMA NextBrowserInv ==
  ASSUME TypeInv, KeyInv, OwnInv, SideInv, BrowserInv, [Next]_vars, TypeInv', KeyInv'
  PROVE  BrowserInv'
<1> SUFFICES ASSUME NEW b \in Browser, ~ mishap'[b]
             PROVE  SafeBrowser(b)'
  BY DEF BrowserInv
<1>1. ~ mishap[b] => SafeBrowser(b)
  BY DEF BrowserInv
<1>2. ASSUME NEW t \in Tab,
             \/ OpenLink(t) \/ OpenApp(t) \/ Connect(t) \/ GiveUp(t) \/ Break(t) \/ Close(t)
             \/ Click(t) \/ (\E kind \in Kind : TaskStep(t, kind)) \/ Receive(t)
      PROVE  SafeBrowser(b)'
  BY <1>1, <1>2, TabSafe
<1>3. ASSUME NEW s \in Session, Serve(s)
      PROVE  SafeBrowser(b)'
  <2>1. ~ mishap[b]
    BY <1>3 DEF Serve, Refuse
  <2> QED BY <1>1, <1>3, <2>1, ServeSafe
<1>4. ASSUME NEW s \in Session, EndSession(s)
      PROVE  SafeBrowser(b)'
  <2>1. ~ mishap[b]
    BY <1>4 DEF EndSession, tabs
  <2> QED BY <1>1, <1>4, <2>1, EndSessionSafe
<1>5. CASE Restart
  <2>1. ~ mishap[b]
    BY <1>5 DEF Restart
  <2> QED BY <1>1, <1>5, <2>1, RestartSafe
<1>6. CASE Save \/ Tick \/ UNCHANGED vars
  <2>1. ~ mishap[b]
    BY <1>6 DEF Save, Tick, vars, tabs
  <2> QED BY <1>1, <1>6, <2>1, SaveSafe
<1> QED BY <1>2, <1>3, <1>4, <1>5, <1>6 DEF Next

LEMMA InitBrowserInv == Init => BrowserInv
<1> SUFFICES ASSUME Init, NEW b \in Browser, NEW k \in MaybeKey, store[b].key = k
             PROVE  ReKeySafe(b, k) /\ LinkSafe(b, k)
  BY DEF BrowserInv, SafeBrowser
<1>1. /\ \A t \in Tab : task[t]["rekey"] = Idle
      /\ \A s \in Session : Len(sock[s]) = 0
      /\ saved.pubkeys = pubkeys /\ k \in Registry!Ids(pubkeys[Person[b]]) \cup {NoKey}
  BY DEF Init, Kind
<1>2. ReKeySafe(b, k)
  BY <1>1 DEF ReKeySafe, OneReKey, SigningSafe, ComingSafe, SignedSafe
<1>3. LinkSafe(b, k)
  BY <1>1 DEF LinkSafe, Unknown, KnownKeys, Registry!Ids
<1> QED BY <1>2, <1>3

\* A browser without a mishap: one re-key at a time, signed with a key the
\* server knows, and a stored key that is known, on its way to the server, or
\* in the hands of a registration whose token still works.
THEOREM BrowserInvariant == Spec => []BrowserInv
<1>1. TypeInv /\ KeyInv /\ OwnInv /\ SideInv /\ BrowserInv /\ [Next]_vars /\ TypeInv' /\ KeyInv' => BrowserInv'
  BY NextBrowserInv
<1> QED BY TypeInvariant, KeyInvariant, OwnInvariant, SideInvariant, InitBrowserInv, <1>1, PTL DEF Spec

LEMMA SafeIsUsable ==
  ASSUME TypeInv, BrowserInv
  PROVE  KeyLostOnlyByMishap
<1> SUFFICES ASSUME NEW b \in Browser, ~ mishap[b]
             PROVE  KeyUsable(b)
  BY DEF KeyLostOnlyByMishap
<1> PICK k : k = store[b].key
  OBVIOUS
<1>1. k \in MaybeKey
  BY DEF TypeInv, ClientTypes
<1>2. LinkSafe(b, k)
  BY <1>1 DEF BrowserInv, SafeBrowser
<1>3. Coming(k) => Introducing(b)
  BY DEF Coming, Introducing, Introduces
<1> QED BY <1>2, <1>3 DEF LinkSafe, Unknown, KeyUsable

\* A browser is left with a key that the server will never accept only by the
\* mishaps that KeyLostOnlyByMishap lists: in every order of lost connections,
\* crashes of the server, registrations, re-keys and clicks of any number of
\* tabs and browsers, one that has had none of them can go on.
THEOREM KeyStaysUsable == Spec => []KeyLostOnlyByMishap
<1>1. TypeInv /\ BrowserInv => KeyLostOnlyByMishap
  BY SafeIsUsable
<1> QED BY TypeInvariant, BrowserInvariant, <1>1, PTL

-----------------------------------------------------------------------------
(* Crashes.  What KeyRegistry keeps is kept of db.cbor too, and comes back. *)

SavedInv ==
  /\ \A u \in User \ saved.tokens : u \in announced /\ saved.pubkeys[u] # {}
  /\ \A u \in User : Keys!AccessOf(saved.pubkeys[u], clock)

AccessInv == Keys!AccessInv /\ Keys!TokenInv /\ SavedInv

\* The order among a user's keys stays as time passes.
LEMMA LaterAccess ==
  ASSUME TypeInv, NEW u \in User, clock' \in {clock, clock + 1},
         Keys!AccessOf(saved.pubkeys[u], clock)
  PROVE  Keys!AccessOf(saved.pubkeys[u], clock')
<1>1. saved.pubkeys[u] \in SUBSET Registry!PublicKey /\ clock \in Nat /\ Validity \in Nat
  BY Types, RegistryAssumption DEF TypeInv, ClientTypes
<1>2. \A r \in saved.pubkeys[u] : r.expires \in Nat
  BY <1>1, RegistryAssumption DEF Registry!PublicKey
<1> QED BY <1>1, <1>2 DEF Keys!AccessOf

LEMMA InitAccessInv == Init => AccessInv
<1> SUFFICES ASSUME Init PROVE AccessInv
  OBVIOUS
<1>1. Keys!Init
  <2>1. \A S : Registry!Cardinality(S) = Keys!Cardinality(S)
    BY DEF Registry!Cardinality, Keys!Cardinality
  <2>2. /\ \A S : Registry!Ids(S) = Keys!Ids(S)
        /\ \A u : Registry!KeysOf(u) = Keys!KeysOf(u) /\ Registry!Ready(u) = Keys!Ready(u)
        /\ \A k : Registry!NewKey(k) = Keys!NewKey(k)
    BY DEF Registry!Ids, Registry!KeysOf, Registry!Ready, Registry!NewKey,
           Keys!Ids, Keys!KeysOf, Keys!Ready, Keys!NewKey
  <2> QED BY <2>1, <2>2 DEF Init, Registry!Init, Keys!Init
<1>2. Keys!AccessInv
  BY <1>1, Keys!InitAccess, RegistryAssumption
<1>3. Keys!TokenInv
  BY <1>1 DEF Keys!Init, Keys!TokenInv, Keys!TokenBurntOnlyForAKey, Keys!At, Keys!Ready
<1>4. saved.tokens = tokens /\ saved.pubkeys = pubkeys
  BY DEF Init
<1> QED BY <1>2, <1>3, <1>4
        DEF AccessInv, SavedInv, Keys!AccessInv, Keys!TokenInv, Keys!TokenBurntOnlyForAKey

LEMMA NextAccessInv ==
  ASSUME TypeInv, AccessInv, [Next]_vars
  PROVE  AccessInv'
<1>1. ASSUME [Keys!Next]_(Keys!vars) PROVE Keys!AccessInv' /\ Keys!TokenInv'
  <2>1. Keys!TypeInv /\ Keys!AccessInv /\ Keys!TokenInv
    BY DEF TypeInv, AccessInv
  <2>2. Keys!AccessInv'
    BY <1>1, <2>1, Keys!StepOnKeys, RegistryAssumption
  <2>3. Keys!TokenInv'
    BY <1>1, <2>1, Keys!NextToken, RegistryAssumption
  <2> QED BY <2>2, <2>3
<1>2. CASE Restart
  <2>1. /\ tokens' = saved.tokens /\ pubkeys' = saved.pubkeys
        /\ UNCHANGED <<clock, announced, saved>>
        /\ \A s \in Session : ~ Keys!At(s, "announce")' /\ ~ Keys!At(s, "consume")'
    BY <1>2 DEF Restart, Registry!Ready, Keys!At
  <2> QED BY <2>1
          DEF AccessInv, SavedInv, Keys!AccessInv, Keys!TokenInv, Keys!TokenBurntOnlyForAKey
<1>3. CASE Next /\ ~ Restart
  <2>1. [Registry!Next]_registry /\ [Keys!Next]_(Keys!vars)
    BY <1>3, RegistrySteps, SameRegistry
  <2>2. announced \subseteq announced' /\ clock' \in {clock, clock + 1}
    BY <2>1 DEF registry, Registry!Next, Registry!RequestChallenge, Registry!ConfirmKey,
       Registry!ConfirmFails, Registry!SendAuthOk, Registry!ConsumeInitToken,
       Registry!UserByKeyId, Registry!CheckRetiring, Registry!RetireOldKeys,
       Registry!ApplyReKey, Registry!Reject, Registry!Drop, Registry!Tick, Registry!vars
  <2>3. Keys!AccessInv' /\ Keys!TokenInv'
    BY <1>1, <2>1
  <2>4. saved' = saved \/ Save
    <3>1. ASSUME NEW t \in Tab,
                 \/ OpenLink(t) \/ OpenApp(t) \/ Connect(t) \/ GiveUp(t) \/ Break(t) \/ Close(t)
                 \/ Click(t) \/ Receive(t)
          PROVE  saved' = saved
      BY <3>1 DEF OpenLink, OpenApp, Connect, GiveUp, Break, Close, Click, Receive,
         ReceiveChallenge, ReceiveRegistered, ReceiveUnregistered, ReceiveAuthOk,
         ReceiveAuthFail, ReceiveSnapshot, server
    <3>2. ASSUME NEW t \in Tab, NEW kind \in Kind, TaskStep(t, kind)
          PROVE  saved' = saved
      BY <3>2 DEF TaskStep, ReadKeyId, FinishSigned, FinishReKey, FinishReKeyThrows, server
    <3>3. ASSUME NEW s \in Session, Serve(s) \/ EndSession(s)
          PROVE  saved' = saved
      BY <3>3 DEF Serve, EndSession, server
    <3>4. CASE Tick
      BY <3>4 DEF Tick, server
    <3> QED BY <1>3, <3>1, <3>2, <3>3, <3>4 DEF Next
  <2>5. CASE saved' = saved
    <3>1. \A u \in User : Keys!AccessOf(saved.pubkeys[u], clock')
      BY <2>2, LaterAccess DEF AccessInv, SavedInv
    <3> QED BY <2>2, <2>3, <2>5, <3>1 DEF AccessInv, SavedInv
  <2>6. CASE Save
    <3>1. /\ saved'.tokens = tokens /\ saved'.pubkeys = pubkeys
          /\ UNCHANGED <<clock, announced>>
      BY <2>6 DEF Save, registry
    <3> QED BY <2>3, <3>1 DEF AccessInv, SavedInv, Keys!AccessInv, Keys!TokenInv,
                               Keys!TokenBurntOnlyForAKey
  <2> QED BY <2>4, <2>5, <2>6
<1>4. CASE UNCHANGED vars
  <2>1. UNCHANGED registry /\ saved' = saved /\ clock' = clock /\ announced' = announced
    BY <1>4 DEF vars, registry, server
  <2>2. [Keys!Next]_(Keys!vars)
    BY <2>1, SameRegistry
  <2> QED BY <1>1, <2>1, <2>2 DEF AccessInv, SavedInv
<1> QED BY <1>2, <1>3, <1>4

\* A crash of the server and a restart from a file of any age never leave a
\* user with a used token and no key, nor a retiring key without the one that
\* replaces it.
THEOREM AccessSurvives == Spec => []AccessOutlivesCrashes
<1>1. AccessInv => AccessOutlivesCrashes
  BY DEF AccessInv, AccessOutlivesCrashes, Keys!AccessInv, Keys!AccessOf, Keys!TokenInv,
         Keys!TokenBurntOnlyForAKey, Registry!TokenBurntOnlyForAKey,
         Registry!RetiringHasSuccessor
<1>2. TypeInv /\ AccessInv /\ [Next]_vars => AccessInv'
  BY NextAccessInv
<1> QED BY <1>1, <1>2, InitAccessInv, TypeInvariant, PTL DEF Spec
=============================================================================
