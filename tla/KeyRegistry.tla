----------------------------- MODULE KeyRegistry -----------------------------
(***************************************************************************)
(* Who may talk to the chorgly server: the init token and the public keys  *)
(* of each user (src/core/src/user.rs), and the authentication half of a   *)
(* session (dispatch, src/backend/src/session.rs) that reads and changes   *)
(* them.                                                                   *)
(*                                                                         *)
(* The registry is part of the Database behind the RwLock, but a request   *)
(* takes the lock several times and lets it go in between:                 *)
(*   registration  check_init_token | register_pubkey | AuthOk is sent |   *)
(*                 consume_init_token                                      *)
(*   signed        user_by_key_id | any key retiring? | retire_old_keys |  *)
(*                 apply_rekey (when the payload is ReKey)                 *)
(* Each is an action, and the sessions interleave between them.            *)
(*                                                                         *)
(* Abstracted: a key pair is a member of KeyId, and a session signs with   *)
(* the keys of its own user, so a signature verifies or it does not        *)
(* (Reject, ConfirmFails).  The token of a user is the user's membership   *)
(* of tokens: the server never issues one, so there is at most one each.   *)
(* pubkeys is a Vec that is only searched, so it is a set.  register_pubkey *)
(* and apply_rekey read the clock just before they take the lock: the wait *)
(* for the lock is taken to be shorter than a tick of the model's clock.   *)
(***************************************************************************)
EXTENDS Integers, FiniteSets

CONSTANTS
  User, KeyId, Session,
  KeyOwner,      \* whose key pair it is
  SessionUser,   \* who sits in front of the connection
  NoKey,         \* no key: no challenge pending, a payload other than ReKey
  Validity,      \* KEY_VALIDITY_DAYS
  MaxTime        \* bound: the clock stops there

ASSUME OwnerAssumption == KeyOwner \in [KeyId -> User] /\ SessionUser \in [Session -> User]
ASSUME NoKeyAssumption == NoKey \notin KeyId
ASSUME TimeAssumption == Validity \in Nat \ {0} /\ MaxTime \in Nat

KeysOf(u) == {k \in KeyId : KeyOwner[k] = u}

PublicKey == [id : KeyId, expires : Nat, retiring : BOOLEAN]

AuthState == {"Unauthenticated", "PendingChallenge", "Authenticated"}

\* Where a session stands in dispatch, for which user and with which key it
\* was called, and the new key of a ReKey payload.
Stage == {"ready", "announce", "consume", "verified", "retire", "rekey"}
Work == [at : Stage, user : User, key : KeyId \cup {NoKey}, new : KeyId \cup {NoKey}]

VARIABLES
  tokens,     \* the users whose init_token is Some
  pubkeys,    \* User::pubkeys
  clock,      \* Utc::now()
  auth,       \* the session's AuthState
  pending,    \* PendingChallenge::pubkey_spki
  work,       \* the request the session is handling
  announced   \* history: the users for whom the socket took the AuthOk of a registration

vars == <<tokens, pubkeys, clock, auth, pending, work, announced>>

Ready(u) == [at |-> "ready", user |-> u, key |-> NoKey, new |-> NoKey]

NewKey(k) == [id |-> k, expires |-> clock + Validity, retiring |-> FALSE]

ValidAt(r, now) == now < r.expires

Ids(rs) == {r.id : r \in rs}

\* Users come from the admin tool: add-user and revoke-keys leave a token and
\* no key, reset-init-token a token beside the key.
Init ==
  /\ tokens \in SUBSET User
  /\ clock = 0
  /\ pubkeys \in [User -> SUBSET {NewKey(k) : k \in KeyId}]
  /\ \A u \in User :
       /\ Ids(pubkeys[u]) \subseteq KeysOf(u) /\ Cardinality(pubkeys[u]) <= 1
       /\ u \notin tokens => pubkeys[u] # {}
  /\ auth = [s \in Session |-> "Unauthenticated"]
  /\ pending = [s \in Session |-> NoKey]
  /\ work = [s \in Session |-> Ready(SessionUser[s])]
  /\ announced = User \ tokens

-----------------------------------------------------------------------------
(* Registration of a first key.                                            *)

At(s, stage) == work[s].at = stage

\* Leave the request, or go on with it at another stage.
Done(s) == work' = [work EXCEPT ![s] = Ready(SessionUser[s])]
GoTo(s, stage) == work' = [work EXCEPT ![s].at = stage]

\* Seeded fault: the token is consumed by the request for a challenge.
RequestChallenge_Burns(s, k) ==
  /\ At(s, "ready")
  /\ SessionUser[s] \in tokens
  /\ k \in KeysOf(SessionUser[s])
  /\ tokens' = tokens \ {SessionUser[s]}
  /\ auth' = [auth EXCEPT ![s] = "PendingChallenge"]
  /\ pending' = [pending EXCEPT ![s] = k]
  /\ UNCHANGED <<pubkeys, clock, work, announced>>

\* check_init_token finds the user; the challenge goes out.
RequestChallenge(s, k) ==
  /\ At(s, "ready")
  /\ SessionUser[s] \in tokens
  /\ k \in KeysOf(SessionUser[s])
  /\ auth' = [auth EXCEPT ![s] = "PendingChallenge"]
  /\ pending' = [pending EXCEPT ![s] = k]
  /\ UNCHANGED <<tokens, pubkeys, clock, work, announced>>

\* The signature of the challenge verifies: register_pubkey.  The token is
\* not looked at again.
ConfirmKey(s) ==
  /\ At(s, "ready")
  /\ auth[s] = "PendingChallenge"
  /\ pubkeys' = [pubkeys EXCEPT ![SessionUser[s]] = @ \cup {NewKey(pending[s])}]
  /\ auth' = [auth EXCEPT ![s] = "Authenticated"]
  /\ pending' = [pending EXCEPT ![s] = NoKey]
  /\ GoTo(s, "announce")
  /\ UNCHANGED <<tokens, clock, announced>>

\* Seeded fault: the challenge survives a wrong answer.
ConfirmFails_Keeps(s) ==
  /\ At(s, "ready")
  /\ auth' = [auth EXCEPT ![s] = "Unauthenticated"]
  /\ UNCHANGED <<tokens, pubkeys, clock, pending, work, announced>>

\* No challenge is pending, or its signature is wrong: the session forgets
\* what it was, even that it was authenticated.
ConfirmFails(s) ==
  /\ At(s, "ready")
  /\ auth' = [auth EXCEPT ![s] = "Unauthenticated"]
  /\ pending' = [pending EXCEPT ![s] = NoKey]
  /\ UNCHANGED <<tokens, pubkeys, clock, work, announced>>

\* handle: AuthOk is handed to the socket first (Drop is the send that fails);
\* that it is delivered is not awaited ...
SendAuthOk(s) ==
  /\ At(s, "announce")
  /\ announced' = announced \cup {SessionUser[s]}
  /\ GoTo(s, "consume")
  /\ UNCHANGED <<tokens, pubkeys, clock, auth, pending>>

\* ... and only then the token is consumed.
ConsumeInitToken(s) ==
  /\ At(s, "consume")
  /\ tokens' = tokens \ {SessionUser[s]}
  /\ Done(s)
  /\ UNCHANGED <<pubkeys, clock, auth, pending, announced>>

-----------------------------------------------------------------------------
(* A signed message.                                                       *)

\* user_by_key_id: some user has the key and it has not expired (a retiring
\* key counts), and the signature verifies.  new is the key of a ReKey.
UserByKeyId(s, k, new) ==
  /\ At(s, "ready")
  /\ {k, new} \subseteq KeysOf(SessionUser[s]) \cup {NoKey}
  /\ \E u \in User : \E r \in pubkeys[u] :
       /\ r.id = k /\ ValidAt(r, clock)
       /\ work' = [work EXCEPT ![s] = [at |-> "verified", user |-> u, key |-> k, new |-> new]]
  /\ UNCHANGED <<tokens, pubkeys, clock, auth, pending, announced>>

\* After the retiring keys are dealt with the session is authenticated; a
\* payload that touches no key is none of this module's business.
Proceed(s) ==
  /\ auth' = [auth EXCEPT ![s] = "Authenticated"]
  /\ pending' = [pending EXCEPT ![s] = NoKey]
  /\ IF work[s].new = NoKey THEN Done(s) ELSE GoTo(s, "rekey")

\* has_retiring, under a read lock of its own.
CheckRetiring(s) ==
  /\ At(s, "verified")
  /\ IF \E r \in pubkeys[work[s].user] : r.retiring
     THEN GoTo(s, "retire") /\ UNCHANGED <<auth, pending>>
     ELSE Proceed(s)
  /\ UNCHANGED <<tokens, pubkeys, clock, announced>>

\* Seeded fault: every other key goes, retiring or not.
RetireOldKeys_AllOthers(s) ==
  /\ At(s, "retire")
  /\ pubkeys' = [pubkeys EXCEPT ![work[s].user] = {r \in @ : r.id = work[s].key}]
  /\ Proceed(s)
  /\ UNCHANGED <<tokens, clock, announced>>

\* retire_old_keys: every retiring key goes, except the one that signed this
\* message.
RetireOldKeys(s) ==
  /\ At(s, "retire")
  /\ pubkeys' = [pubkeys EXCEPT ![work[s].user] =
                   {r \in @ : ~ r.retiring \/ r.id = work[s].key}]
  /\ Proceed(s)
  /\ UNCHANGED <<tokens, clock, announced>>

\* Seeded fault: the old key is retired before the new one is looked at.
ApplyReKey_Early(s) ==
  /\ At(s, "rekey")
  /\ LET u == work[s].user
         marked == {IF r.id = work[s].key THEN [r EXCEPT !.retiring = TRUE] ELSE r :
                      r \in pubkeys[u]}
     IN  IF work[s].new \in Ids(pubkeys[u])
         THEN pubkeys' = [pubkeys EXCEPT ![u] = marked]
         ELSE pubkeys' = [pubkeys EXCEPT ![u] = marked \cup {NewKey(work[s].new)}]
  /\ Done(s)
  /\ UNCHANGED <<tokens, clock, auth, pending, announced>>

\* apply_rekey: refused if the new key is registered already; otherwise the
\* old key, if it is still there, is marked and the new one added.
ApplyReKey(s) ==
  /\ At(s, "rekey")
  /\ LET u == work[s].user
         marked == {IF r.id = work[s].key THEN [r EXCEPT !.retiring = TRUE] ELSE r :
                      r \in pubkeys[u]}
     IN  IF work[s].new \in Ids(pubkeys[u])
         THEN UNCHANGED pubkeys
         ELSE pubkeys' = [pubkeys EXCEPT ![u] = marked \cup {NewKey(work[s].new)}]
  /\ Done(s)
  /\ UNCHANGED <<tokens, clock, auth, pending, announced>>

-----------------------------------------------------------------------------
\* AuthFail, leaving everything as it is: no such token, not a public key,
\* an unknown or expired key, a wrong signature.
Reject(s) == At(s, "ready") /\ UNCHANGED vars

\* The connection ends between two requests, or the socket does not take AuthOk;
\* the client may connect again.
Drop(s) ==
  /\ At(s, "ready") \/ At(s, "announce")
  /\ auth' = [auth EXCEPT ![s] = "Unauthenticated"]
  /\ pending' = [pending EXCEPT ![s] = NoKey]
  /\ Done(s)
  /\ UNCHANGED <<tokens, pubkeys, clock, announced>>

Tick ==
  /\ clock < MaxTime
  /\ clock' = clock + 1
  /\ UNCHANGED <<tokens, pubkeys, auth, pending, work, announced>>

Next ==
  \/ \E s \in Session :
       \/ \E k \in KeyId : RequestChallenge(s, k)
       \/ ConfirmKey(s) \/ ConfirmFails(s) \/ SendAuthOk(s) \/ ConsumeInitToken(s)
       \/ \E k \in KeyId, new \in KeyId \cup {NoKey} : UserByKeyId(s, k, new)
       \/ CheckRetiring(s) \/ RetireOldKeys(s) \/ ApplyReKey(s)
       \/ Reject(s) \/ Drop(s)
  \/ Tick

Spec == Init /\ [][Next]_vars

-----------------------------------------------------------------------------
(* Properties.                                                             *)

\* The registry holds keys, and a session is in a state dispatch knows; a
\* challenge is pending exactly for a session that waits for ConfirmKey.
TypeOK ==
  /\ tokens \subseteq User
  /\ pubkeys \in [User -> SUBSET PublicKey]
  /\ clock \in 0..MaxTime
  /\ auth \in [Session -> AuthState]
  /\ pending \in [Session -> KeyId \cup {NoKey}]
  /\ \A s \in Session : (auth[s] = "PendingChallenge") = (pending[s] # NoKey)
  /\ work \in [Session -> Work]
  /\ announced \subseteq User

\* A re-key never shortens a user's access: beside every retiring key there
\* is an active one that is good for at least as long, so when the retiring
\* keys are dropped, by whatever message and in whatever interleaving, the
\* user is left with a key.
RetiringHasSuccessor ==
  \A u \in User : \A r \in pubkeys[u] : r.retiring =>
    \E a \in pubkeys[u] : ~ a.retiring /\ a.expires >= r.expires

\* A token is gone only for a key: its user has a key that works, and a socket
\* took the AuthOk of a registration first (or the user had a key and no token
\* to begin with).  Whether the AuthOk arrived nobody knows: one that is lost
\* behind sink.send burns the token all the same, although dispatch's caller
\* says "so a dropped connection before delivery doesn't burn the token".
TokenBurntOnlyForAKey ==
  \A u \in User \ tokens : u \in announced /\ pubkeys[u] # {}

(***************************************************************************)
(* What the documentation says and the code does not do.                   *)
(***************************************************************************)

\* user.rs: "One-time admin link token; consumed on first successful key
\* registration".
OneRegistrationPerToken ==
  [][\A s \in Session :
       (~ At(s, "announce") /\ At(s, "announce")') => SessionUser[s] \in tokens]_vars
=============================================================================
