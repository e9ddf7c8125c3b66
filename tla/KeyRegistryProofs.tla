-------------------------- MODULE KeyRegistryProofs --------------------------
(***************************************************************************)
(* Theorems about KeyRegistry, for every set of users, keys and sessions   *)
(* and every validity period.                                              *)
(***************************************************************************)
EXTENDS KeyRegistry, TLAPS

-----------------------------------------------------------------------------
(* Type correctness.                                                       *)

\* A key made now is a key, and is good for the whole validity period.
LEMMA NewKeyFacts ==
  ASSUME TypeOK, NEW k \in KeyId
  PROVE  /\ NewKey(k) \in PublicKey
         /\ NewKey(k).id = k /\ ~ NewKey(k).retiring
         /\ NewKey(k).expires = clock + Validity
         /\ clock \in Nat
BY TimeAssumption DEF TypeOK, NewKey, PublicKey

\* The bookkeeping of a request keeps its type.
LEMMA WorkType ==
  ASSUME TypeOK, NEW s \in Session
  PROVE  /\ Done(s) => work' \in [Session -> Work]
         /\ \A stage \in Stage : GoTo(s, stage) => work' \in [Session -> Work]
<1>1. work \in [Session -> Work] /\ work[s] \in Work
  BY DEF TypeOK
<1>2. Ready(SessionUser[s]) \in Work
  BY OwnerAssumption DEF Ready, Work, Stage
<1>3. \A stage \in Stage : [work[s] EXCEPT !.at = stage] \in Work
  BY <1>1 DEF Work
<1>4. ASSUME NEW stage \in Stage, GoTo(s, stage)
      PROVE  work' \in [Session -> Work]
  <2>1. work' = [work EXCEPT ![s] = [work[s] EXCEPT !.at = stage]]
    BY <1>4 DEF GoTo
  <2> QED BY <1>1, <1>3, <2>1
<1> QED BY <1>1, <1>2, <1>4 DEF Done

\* The keys of a user with those of one id marked as retiring.
Marked(rs, id) == {IF r.id = id THEN [r EXCEPT !.retiring = TRUE] ELSE r : r \in rs}

LEMMA MarkedType ==
  ASSUME NEW rs \in SUBSET PublicKey, NEW id
  PROVE  Marked(rs, id) \in SUBSET PublicKey
BY DEF Marked, PublicKey

\* What apply_rekey does to the keys of the user of the session.
LEMMA ApplyReKeyFacts ==
  ASSUME TypeOK, NEW s \in Session, ApplyReKey(s), work[s].new \in KeyId
  PROVE  \/ UNCHANGED pubkeys
         \/ /\ work[s].new \notin Ids(pubkeys[work[s].user])
            /\ pubkeys' = [pubkeys EXCEPT ![work[s].user] =
                             Marked(pubkeys[work[s].user], work[s].key) \cup {NewKey(work[s].new)}]
BY DEF ApplyReKey, Marked

\* The new key of a request at stage "rekey" is a key: only a ReKey gets there.
ReKeyHasKey == \A s \in Session : At(s, "rekey") => work[s].new # NoKey

TypeInv == TypeOK /\ ReKeyHasKey

LEMMA InitTypeInv == Init => TypeInv
<1> SUFFICES ASSUME Init PROVE TypeInv
  OBVIOUS
<1>1. \A k \in KeyId : NewKey(k) \in PublicKey
  BY TimeAssumption DEF Init, NewKey, PublicKey
<1>2. pubkeys \in [User -> SUBSET PublicKey]
  BY <1>1 DEF Init
<1>3. \A s \in Session : Ready(SessionUser[s]) \in Work
  BY OwnerAssumption DEF Ready, Work, Stage
<1>4. ReKeyHasKey
  BY DEF Init, ReKeyHasKey, At, Ready
<1> QED BY <1>2, <1>3, <1>4, TimeAssumption DEF Init, TypeInv, TypeOK, AuthState

LEMMA NextTypeInv == TypeInv /\ [Next]_vars => TypeInv'
<1> SUFFICES ASSUME TypeOK, ReKeyHasKey, [Next]_vars PROVE TypeInv'
  BY DEF TypeInv
<1> USE DEF AuthState
<1>1. ASSUME NEW s \in Session, NEW k \in KeyId, RequestChallenge(s, k)
      PROVE  TypeInv'
  BY <1>1, NoKeyAssumption DEF RequestChallenge, TypeInv, TypeOK, ReKeyHasKey, At
<1>2. ASSUME NEW s \in Session, ConfirmKey(s)
      PROVE  TypeInv'
  <2>1. pending[s] \in KeyId
    BY <1>2 DEF ConfirmKey, TypeOK
  <2>2. pubkeys' \in [User -> SUBSET PublicKey]
    <3>1. NewKey(pending[s]) \in PublicKey
      BY <2>1, NewKeyFacts
    <3>2. pubkeys' = [pubkeys EXCEPT ![SessionUser[s]] = @ \cup {NewKey(pending[s])}]
      BY <1>2 DEF ConfirmKey
    <3> QED BY <3>1, <3>2 DEF TypeOK
  <2>3. work' \in [Session -> Work]
    BY <1>2, WorkType DEF ConfirmKey, Stage
  <2>4. ReKeyHasKey'
    BY <1>2 DEF ConfirmKey, GoTo, TypeOK, Work, ReKeyHasKey, At
  <2> QED BY <1>2, <2>2, <2>3, <2>4 DEF ConfirmKey, TypeInv, TypeOK
<1>3. ASSUME NEW s \in Session, ConfirmFails(s)
      PROVE  TypeInv'
  BY <1>3 DEF ConfirmFails, TypeInv, TypeOK, ReKeyHasKey, At
<1>4. ASSUME NEW s \in Session, SendAuthOk(s)
      PROVE  TypeInv'
  <2>1. work' \in [Session -> Work]
    BY <1>4, WorkType DEF SendAuthOk, Stage
  <2>2. ReKeyHasKey'
    BY <1>4 DEF SendAuthOk, GoTo, TypeOK, Work, ReKeyHasKey, At
  <2> QED BY <1>4, <2>1, <2>2, OwnerAssumption DEF SendAuthOk, TypeInv, TypeOK
<1>5. ASSUME NEW s \in Session, ConsumeInitToken(s)
      PROVE  TypeInv'
  <2>1. work' \in [Session -> Work]
    BY <1>5, WorkType DEF ConsumeInitToken
  <2>2. ReKeyHasKey'
    BY <1>5 DEF ConsumeInitToken, Done, Ready, TypeOK, ReKeyHasKey, At
  <2> QED BY <1>5, <2>1, <2>2 DEF ConsumeInitToken, TypeInv, TypeOK
<1>6. ASSUME NEW s \in Session, NEW k \in KeyId, NEW new \in KeyId \cup {NoKey},
             UserByKeyId(s, k, new)
      PROVE  TypeInv'
  <2>1. PICK u \in User :
          work' = [work EXCEPT ![s] = [at |-> "verified", user |-> u, key |-> k, new |-> new]]
    BY <1>6 DEF UserByKeyId
  <2>2. work' \in [Session -> Work]
    BY <2>1 DEF TypeOK, Work, Stage
  <2>3. ReKeyHasKey'
    BY <2>1 DEF TypeOK, ReKeyHasKey, At
  <2> QED BY <1>6, <2>2, <2>3 DEF UserByKeyId, TypeInv, TypeOK
<1>7. ASSUME NEW s \in Session, Proceed(s)
      PROVE  /\ work' \in [Session -> Work] /\ ReKeyHasKey'
             /\ auth' \in [Session -> AuthState] /\ pending' \in [Session -> KeyId \cup {NoKey}]
             /\ \A t \in Session : (auth'[t] = "PendingChallenge") = (pending'[t] # NoKey)
  <2>1. work' \in [Session -> Work]
    BY <1>7, WorkType DEF Proceed, Stage
  <2>2. ReKeyHasKey'
    BY <1>7 DEF Proceed, Done, GoTo, Ready, TypeOK, Work, ReKeyHasKey, At
  <2> QED BY <1>7, <2>1, <2>2 DEF Proceed, TypeOK
<1>8. ASSUME NEW s \in Session, CheckRetiring(s)
      PROVE  TypeInv'
  <2>1. CASE Proceed(s)
    BY <1>8, <1>7, <2>1 DEF CheckRetiring, TypeInv, TypeOK
  <2>2. CASE GoTo(s, "retire") /\ UNCHANGED <<auth, pending>>
    <3>1. work' \in [Session -> Work]
      BY <2>2, WorkType DEF Stage
    <3>2. ReKeyHasKey'
      BY <2>2 DEF GoTo, TypeOK, Work, ReKeyHasKey, At
    <3> QED BY <1>8, <2>2, <3>1, <3>2 DEF CheckRetiring, TypeInv, TypeOK
  <2> QED BY <1>8, <2>1, <2>2 DEF CheckRetiring
<1>9. ASSUME NEW s \in Session, RetireOldKeys(s)
      PROVE  TypeInv'
  <2>1. pubkeys' \in [User -> SUBSET PublicKey]
    BY <1>9 DEF RetireOldKeys, TypeOK
  <2>2. Proceed(s)
    BY <1>9 DEF RetireOldKeys
  <2> QED BY <1>9, <1>7, <2>1, <2>2 DEF RetireOldKeys, TypeInv, TypeOK
<1>10. ASSUME NEW s \in Session, ApplyReKey(s)
       PROVE  TypeInv'
  <2>1. work[s].new \in KeyId /\ work[s].user \in User
    BY <1>10 DEF ApplyReKey, ReKeyHasKey, TypeOK, Work
  <2>2. pubkeys' \in [User -> SUBSET PublicKey]
    BY <1>10, <2>1, ApplyReKeyFacts, NewKeyFacts, MarkedType DEF TypeOK
  <2>3. work' \in [Session -> Work]
    BY <1>10, WorkType DEF ApplyReKey
  <2>4. ReKeyHasKey'
    BY <1>10 DEF ApplyReKey, Done, Ready, TypeOK, ReKeyHasKey, At
  <2> QED BY <1>10, <2>2, <2>3, <2>4 DEF ApplyReKey, TypeInv, TypeOK
<1>11. ASSUME NEW s \in Session, Drop(s)
       PROVE  TypeInv'
  <2>1. work' \in [Session -> Work]
    BY <1>11, WorkType DEF Drop
  <2>2. ReKeyHasKey'
    BY <1>11 DEF Drop, Done, Ready, TypeOK, ReKeyHasKey, At
  <2> QED BY <1>11, <2>1, <2>2 DEF Drop, TypeInv, TypeOK
<1>12. CASE Tick
  BY <1>12, TimeAssumption DEF Tick, TypeInv, TypeOK, ReKeyHasKey, At
<1>13. CASE UNCHANGED vars
  BY <1>13 DEF vars, TypeInv, TypeOK, ReKeyHasKey, At
<1>14. ASSUME NEW s \in Session, Reject(s) PROVE TypeInv'
  BY <1>13, <1>14 DEF Reject
<1> QED BY <1>1, <1>2, <1>3, <1>4, <1>5, <1>6, <1>8, <1>9, <1>10, <1>11, <1>12, <1>13, <1>14
        DEF Next

\* Type correctness of the registry and of the sessions.
THEOREM TypeCorrect == Spec => []TypeOK
<1>1. TypeInv => TypeOK
  BY DEF TypeInv
<1> QED BY <1>1, InitTypeInv, NextTypeInv, PTL DEF Spec

-----------------------------------------------------------------------------
(* Access is never shortened.  RetiringHasSuccessor needs one more fact to  *)
(* be inductive: no key is good for longer than a key made now.             *)

AccessOf(rs, now) ==
  /\ \A r \in rs : r.expires <= now + Validity
  /\ \A r \in rs : r.retiring => \E a \in rs : ~ a.retiring /\ a.expires >= r.expires

AccessInv == \A u \in User : AccessOf(pubkeys[u], clock)

\* Adding a key made now, to a set of keys of which some were just marked as
\* retiring, leaves every one of them with a successor.
LEMMA NewKeySucceeds ==
  ASSUME NEW rs \in SUBSET PublicKey, NEW now \in Nat, AccessOf(rs, now), NEW id,
         NEW n \in PublicKey, ~ n.retiring, n.expires = now + Validity
  PROVE  AccessOf(Marked(rs, id) \cup {n}, now)
<1>1. \A r \in Marked(rs, id) : r.expires <= n.expires
  BY DEF Marked, AccessOf, PublicKey
<1>2. Validity \in Nat
  BY TimeAssumption
<1> QED BY <1>1, <1>2 DEF AccessOf

\* A new key in a set of keys in order.
LEMMA AddingKeepsAccess ==
  ASSUME NEW rs \in SUBSET PublicKey, NEW now \in Nat, AccessOf(rs, now),
         NEW n \in PublicKey, ~ n.retiring, n.expires = now + Validity
  PROVE  AccessOf(rs \cup {n}, now)
BY TimeAssumption DEF AccessOf, PublicKey

\* Dropping retiring keys keeps the order: a successor is not retiring.
LEMMA RetiringKeepsAccess ==
  ASSUME NEW rs \in SUBSET PublicKey, NEW now \in Nat, AccessOf(rs, now), NEW id
  PROVE  /\ AccessOf({r \in rs : ~ r.retiring \/ r.id = id}, now)
         /\ rs # {} => {r \in rs : ~ r.retiring \/ r.id = id} # {}
BY DEF AccessOf

\* One step keeps every user's keys in order and leaves nobody without a key
\* who had one.
LEMMA StepOnKeys ==
  ASSUME TypeInv, AccessInv, [Next]_vars
  PROVE  /\ AccessInv'
         /\ \A u \in User : pubkeys[u] # {} => pubkeys'[u] # {}
<1> DEFINE Goal == /\ AccessInv'
                   /\ \A u \in User : pubkeys[u] # {} => pubkeys'[u] # {}
<1>0. TypeOK /\ ReKeyHasKey /\ pubkeys \in [User -> SUBSET PublicKey] /\ clock \in Nat
  BY TimeAssumption DEF TypeInv, TypeOK
<1>1. ASSUME NEW s \in Session, ConfirmKey(s)
      PROVE  Goal
  <2>1. pending[s] \in KeyId
    BY <1>0, <1>1 DEF ConfirmKey, TypeOK
  <2>2. /\ NewKey(pending[s]) \in PublicKey /\ ~ NewKey(pending[s]).retiring
        /\ NewKey(pending[s]).expires = clock + Validity
    BY <1>0, <2>1, NewKeyFacts
  <2>3. AccessOf(pubkeys[SessionUser[s]] \cup {NewKey(pending[s])}, clock)
    <3>1. SessionUser[s] \in User
      BY OwnerAssumption
    <3>2. AccessOf(pubkeys[SessionUser[s]], clock) /\ pubkeys[SessionUser[s]] \in SUBSET PublicKey
      BY <1>0, <3>1 DEF AccessInv
    <3> QED BY <1>0, <2>2, <3>2, AddingKeepsAccess
  <2>4. /\ pubkeys' = [pubkeys EXCEPT ![SessionUser[s]] = @ \cup {NewKey(pending[s])}]
        /\ clock' = clock
    BY <1>1 DEF ConfirmKey
  <2>5. \A u \in User : AccessOf(pubkeys'[u], clock')
    BY <1>0, <2>3, <2>4 DEF AccessInv
  <2>6. \A u \in User : pubkeys[u] # {} => pubkeys'[u] # {}
    BY <1>0, <2>4
  <2> QED BY <2>5, <2>6 DEF AccessInv
<1>2. ASSUME NEW s \in Session, RetireOldKeys(s)
      PROVE  Goal
  <2> DEFINE u0 == work[s].user
  <2>1. u0 \in User
    BY <1>0 DEF TypeOK, Work
  <2>2. /\ pubkeys' = [pubkeys EXCEPT ![u0] = {r \in @ : ~ r.retiring \/ r.id = work[s].key}]
        /\ clock' = clock
    BY <1>2 DEF RetireOldKeys
  <2>3. /\ AccessOf({r \in pubkeys[u0] : ~ r.retiring \/ r.id = work[s].key}, clock)
        /\ pubkeys[u0] # {} => {r \in pubkeys[u0] : ~ r.retiring \/ r.id = work[s].key} # {}
    BY <1>0, <2>1, RetiringKeepsAccess DEF AccessInv
  <2> HIDE DEF u0
  <2>4. \A u \in User : AccessOf(pubkeys'[u], clock')
    BY <1>0, <2>2, <2>3 DEF AccessInv
  <2>5. \A u \in User : pubkeys[u] # {} => pubkeys'[u] # {}
    BY <1>0, <2>2, <2>3
  <2> QED BY <2>4, <2>5 DEF AccessInv
<1>3. ASSUME NEW s \in Session, ApplyReKey(s)
      PROVE  Goal
  <2> DEFINE u0 == work[s].user
             n == NewKey(work[s].new)
  <2>1. u0 \in User /\ work[s].new \in KeyId
    BY <1>0, <1>3 DEF ApplyReKey, ReKeyHasKey, TypeOK, Work
  <2>2. n \in PublicKey /\ ~ n.retiring /\ n.expires = clock + Validity
    BY <1>0, <2>1, NewKeyFacts
  <2>3. \/ UNCHANGED pubkeys
        \/ pubkeys' = [pubkeys EXCEPT ![u0] = Marked(pubkeys[u0], work[s].key) \cup {n}]
    BY <1>0, <1>3, <2>1, ApplyReKeyFacts
  <2>4. clock' = clock
    BY <1>3 DEF ApplyReKey
  <2> HIDE DEF n, u0
  <2>5. AccessOf(Marked(pubkeys[u0], work[s].key) \cup {n}, clock)
    BY <1>0, <2>1, <2>2, NewKeySucceeds DEF AccessInv
  <2>6. \A u \in User : AccessOf(pubkeys'[u], clock')
    BY <1>0, <2>3, <2>4, <2>5 DEF AccessInv
  <2>7. \A u \in User : pubkeys[u] # {} => pubkeys'[u] # {}
    BY <1>0, <2>3
  <2> QED BY <2>6, <2>7 DEF AccessInv
<1>4. CASE UNCHANGED pubkeys /\ (clock' = clock \/ clock' = clock + 1)
  <2>1. \A u \in User : \A r \in pubkeys[u] : r.expires \in Nat
    BY <1>0 DEF PublicKey
  <2>2. \A u \in User : AccessOf(pubkeys[u], clock')
    BY <1>0, <1>4, <2>1, TimeAssumption DEF AccessInv, AccessOf
  <2> QED BY <1>4, <2>2 DEF AccessInv
<1> QED BY <1>1, <1>2, <1>3, <1>4
        DEF Next, RequestChallenge, ConfirmFails, SendAuthOk, ConsumeInitToken, UserByKeyId,
            CheckRetiring, Reject, Drop, Tick, vars

LEMMA InitAccess == Init => AccessInv
<1> SUFFICES ASSUME Init, NEW u \in User PROVE AccessOf(pubkeys[u], clock)
  BY DEF AccessInv
<1>1. \A r \in pubkeys[u] : ~ r.retiring /\ r.expires = clock + Validity
  BY DEF Init, NewKey
<1> QED BY <1>1, TimeAssumption DEF AccessOf, Init

\* Beside every retiring key there is an active one good for as long.
THEOREM AccessNotShortened == Spec => []RetiringHasSuccessor
<1>1. AccessInv => RetiringHasSuccessor
  BY DEF AccessInv, AccessOf, RetiringHasSuccessor
<1>2. TypeInv /\ AccessInv /\ [Next]_vars => AccessInv'
  BY StepOnKeys
<1> QED BY <1>1, <1>2, InitAccess, InitTypeInv, NextTypeInv, PTL DEF Spec

-----------------------------------------------------------------------------
(* The token.  A user has a key from the moment a registration is under     *)
(* way, and the session that consumes the token is one that sent AuthOk.    *)

TokenInv ==
  /\ TokenBurntOnlyForAKey
  /\ \A s \in Session : At(s, "announce") \/ At(s, "consume") => pubkeys[SessionUser[s]] # {}
  /\ \A s \in Session : At(s, "consume") => SessionUser[s] \in announced

\* A step that burns no token, forgets no AuthOk and starts no announcement.
LEMMA TokenKept ==
  ASSUME TokenInv, tokens' = tokens, announced \subseteq announced',
         \A u \in User : pubkeys[u] # {} => pubkeys'[u] # {},
         \A s \in Session : At(s, "announce")' => At(s, "announce"),
         \A s \in Session : At(s, "consume")' => At(s, "consume")
  PROVE  TokenInv'
<1>1. \A s \in Session : SessionUser[s] \in User
  BY OwnerAssumption
<1> QED BY <1>1 DEF TokenInv, TokenBurntOnlyForAKey

LEMMA NextToken == TypeInv /\ AccessInv /\ TokenInv /\ [Next]_vars => TokenInv'
<1> SUFFICES ASSUME TypeInv, AccessInv, TokenInv, [Next]_vars PROVE TokenInv'
  OBVIOUS
<1>0. /\ work \in [Session -> Work] /\ pubkeys \in [User -> SUBSET PublicKey]
      /\ \A u \in User : pubkeys[u] # {} => pubkeys'[u] # {}
      /\ \A s \in Session : SessionUser[s] \in User
  BY StepOnKeys, OwnerAssumption DEF TypeInv, TypeOK
<1>1. ASSUME NEW s \in Session, ConfirmKey(s)
      PROVE  TokenInv'
  <2>1. pubkeys'[SessionUser[s]] # {}
    BY <1>0, <1>1 DEF ConfirmKey
  <2>2. \A t \in Session \ {s} : work'[t] = work[t]
    BY <1>0, <1>1 DEF ConfirmKey, GoTo
  <2>3. ~ At(s, "consume")'
    BY <1>0, <1>1 DEF ConfirmKey, GoTo, At, Work
  <2>4. UNCHANGED <<tokens, announced>>
    BY <1>1 DEF ConfirmKey
  <2> QED BY <1>0, <2>1, <2>2, <2>3, <2>4 DEF TokenInv, TokenBurntOnlyForAKey, At
<1>2. ASSUME NEW s \in Session, SendAuthOk(s)
      PROVE  TokenInv'
  <2>1. \A t \in Session \ {s} : work'[t] = work[t]
    BY <1>0, <1>2 DEF SendAuthOk, GoTo
  <2>2. At(s, "announce") /\ announced' = announced \cup {SessionUser[s]}
    BY <1>2 DEF SendAuthOk
  <2>3. UNCHANGED <<tokens, pubkeys>>
    BY <1>2 DEF SendAuthOk
  <2> QED BY <1>0, <2>1, <2>2, <2>3 DEF TokenInv, TokenBurntOnlyForAKey, At
<1>3. ASSUME NEW s \in Session, ConsumeInitToken(s)
      PROVE  TokenInv'
  <2>1. \A t \in Session \ {s} : work'[t] = work[t]
    BY <1>0, <1>3 DEF ConsumeInitToken, Done
  <2>2. ~ At(s, "consume")' /\ ~ At(s, "announce")'
    BY <1>0, <1>3 DEF ConsumeInitToken, Done, Ready, At
  <2>3. SessionUser[s] \in announced /\ pubkeys[SessionUser[s]] # {}
    BY <1>3 DEF ConsumeInitToken, TokenInv
  <2>4. tokens' = tokens \ {SessionUser[s]} /\ UNCHANGED <<pubkeys, announced>>
    BY <1>3 DEF ConsumeInitToken
  <2> QED BY <1>0, <2>1, <2>2, <2>3, <2>4 DEF TokenInv, TokenBurntOnlyForAKey, At
<1>4. ASSUME UNCHANGED <<tokens, announced>>,
             \A t \in Session : \/ work'[t] = work[t]
                                \/ ~ At(t, "announce")' /\ ~ At(t, "consume")'
      PROVE  TokenInv'
  BY <1>0, <1>4, TokenKept DEF At
<1>5. ASSUME NEW s \in Session, Proceed(s) \/ Done(s) \/ GoTo(s, "retire")
      PROVE  \A t \in Session : \/ work'[t] = work[t]
                                \/ ~ At(t, "announce")' /\ ~ At(t, "consume")'
  BY <1>0, <1>5 DEF Proceed, Done, GoTo, Ready, At, Work
<1>6. ASSUME NEW s \in Session, NEW k \in KeyId, NEW new \in KeyId \cup {NoKey},
             UserByKeyId(s, k, new)
      PROVE  \A t \in Session : \/ work'[t] = work[t]
                                \/ ~ At(t, "announce")' /\ ~ At(t, "consume")'
  BY <1>0, <1>6 DEF UserByKeyId, At
<1>7. ASSUME NEW s \in Session, CheckRetiring(s) \/ RetireOldKeys(s) \/ ApplyReKey(s) \/ Drop(s)
      PROVE  TokenInv'
  <2>1. Proceed(s) \/ Done(s) \/ GoTo(s, "retire")
    BY <1>7 DEF CheckRetiring, RetireOldKeys, ApplyReKey, Drop
  <2>2. UNCHANGED <<tokens, announced>>
    BY <1>7 DEF CheckRetiring, RetireOldKeys, ApplyReKey, Drop
  <2> QED BY <1>4, <1>5, <2>1, <2>2
<1>8. ASSUME NEW s \in Session, NEW k \in KeyId, NEW new \in KeyId \cup {NoKey},
             UserByKeyId(s, k, new)
      PROVE  TokenInv'
  <2>1. UNCHANGED <<tokens, announced>>
    BY <1>8 DEF UserByKeyId
  <2> QED BY <1>4, <1>6, <1>8, <2>1
<1>9. CASE UNCHANGED <<tokens, announced, work>>
  BY <1>4, <1>9
<1> QED BY <1>1, <1>2, <1>3, <1>7, <1>8, <1>9
        DEF Next, RequestChallenge, ConfirmFails, Reject, Tick, vars

\* Every user without a token has a key, and a socket took the AuthOk of a
\* registration before the token was consumed: a connection that is found broken
\* by then leaves the token as it was.
THEOREM TokenNotWasted == Spec => []TokenBurntOnlyForAKey
<1>1. Init => TokenInv
  BY DEF Init, TokenInv, TokenBurntOnlyForAKey, At, Ready
<1>2. TokenInv => TokenBurntOnlyForAKey
  BY DEF TokenInv
<1>3. TypeInv /\ AccessInv /\ [Next]_vars => AccessInv'
  BY StepOnKeys
<1> QED BY <1>1, <1>2, <1>3, InitAccess, InitTypeInv, NextTypeInv, NextToken, PTL DEF Spec
=============================================================================
