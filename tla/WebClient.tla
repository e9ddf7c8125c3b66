------------------------------ MODULE WebClient ------------------------------
(***************************************************************************)
(* The web client (docs/app.js) in front of the key registry: how a        *)
(* browser gets a key, keeps it, replaces it and loses it.                 *)
(*                                                                         *)
(* All tabs of a browser share one localStorage.  A tab is single-threaded *)
(* but its functions await: sendSigned and initiateReKey read the private  *)
(* key, wait for its import, read the key id, wait for the signatures and  *)
(* send.  Other handlers of the tab, the other tabs, the network and the   *)
(* server run in between.  The server's side of every message is an action *)
(* of KeyRegistry, taken together with the queues it reads and fills.      *)
(*                                                                         *)
(* sock and back are the two directions of a WebSocket: in order, and cut  *)
(* at any point when the connection breaks.  The head of sock is the       *)
(* message the server is handling; it is removed with its answer.          *)
(*                                                                         *)
(* Abstracted: what is in a chore (ChoreSync), the challenge, and the      *)
(* broadcasts, which carry no keys.  A socket that is being opened is not  *)
(* there yet, and the three seconds before a new attempt are any time.     *)
(***************************************************************************)
EXTENDS Integers, Sequences, Functions

CONSTANTS
  User, KeyId, Session, KeyOwner, SessionUser, NoKey, Validity, MaxTime,  \* see KeyRegistry
  Browser, Tab,
  BrowserOf,     \* the browser of a tab
  Person,        \* who uses the browser
  Nowhere,       \* no connection
  RekeyAfter,    \* REKEY_TRIGGER_MS
  MaxLinks,      \* bound: how often the link with the token is opened
  MaxClicks,     \* bound: how often a button is pressed
  MaxBreaks      \* bound: how often a connection breaks or the server dies

ASSUME RegistryAssumption ==   \* those of KeyRegistry
  /\ KeyOwner \in [KeyId -> User] /\ SessionUser \in [Session -> User]
  /\ NoKey \notin KeyId
  /\ Validity \in Nat \ {0} /\ MaxTime \in Nat
ASSUME PlaceAssumption ==
  /\ BrowserOf \in [Tab -> Browser] /\ Person \in [Browser -> User]
  /\ Nowhere \notin Session
ASSUME LimitAssumption ==
  RekeyAfter \in Nat /\ MaxLinks \in Nat /\ MaxClicks \in Nat /\ MaxBreaks \in Nat

\* The asynchronous sends: sendSigned of ListAll and of a user's action, and
\* initiateReKey.  A tab has one of each kind under way at most (bound).
Kind == {"list", "chore", "rekey"}

VARIABLES
  tokens, pubkeys, clock, auth, pending, work, announced,  \* see KeyRegistry
  saved,     \* the tokens and keys in db.cbor
  breaks,    \* how often a connection broke or the server died
  store,     \* localStorage: the key, and when it was added
  page,      \* what runs in the tab
  conn,      \* the tab's ws: the session it is connected to
  sock,      \* from the client to the session
  back,      \* from the session to the client
  task,      \* the sends that are waiting for crypto.subtle
  listed,    \* history: a Snapshot came over the present connection
  links,     \* how often the link was opened
  clicks,    \* how often a button was pressed
  rekeyed,   \* history: the stored key came by a re-key
  mixup,     \* history: a good key may be forgotten, see AccessLostOnlyByMixup
  mishap     \* history: the stored key may be of no use, see KeyLostOnlyByMishap

registry == <<tokens, pubkeys, clock, auth, pending, work, announced>>
past == <<links, clicks, rekeyed, mixup>>
tabs == <<store, page, conn, task, listed, past, mishap>>
net == <<sock, back>>
server == <<saved, breaks>>
vars == <<registry, tabs, net, server>>

Registry == INSTANCE KeyRegistry

\* "none": no page, or one whose code has come to an end.
Page == {"none", "register", "app", "auth"}

Idle == [at |-> "idle", priv |-> NoKey, id |-> NoKey]
Task == [at : {"idle", "import", "sign"}, priv : KeyId \cup {NoKey}, id : KeyId \cup {NoKey}]

\* ClientMsg: RequestChallenge, ConfirmKey and Signed, whose signature was
\* made with priv and whose payload may be a ReKey to the key new.
Link(k) == [what |-> "link", priv |-> k, id |-> k, new |-> NoKey]
Confirm == [what |-> "confirm", priv |-> NoKey, id |-> NoKey, new |-> NoKey]
Signed(kind, j, new) == [what |-> kind, priv |-> j.priv, id |-> j.id, new |-> new]

Home(t) == store[BrowserOf[t]]
Free(s) ==
  /\ s \notin {conn[t] : t \in Tab}
  /\ auth[s] = "Unauthenticated" /\ Registry!At(s, "ready") /\ sock[s] = << >>
Connected(s) == \E t \in Tab : conn[t] = s

Init ==
  /\ Registry!Init
  /\ saved = [tokens |-> tokens, pubkeys |-> pubkeys] /\ breaks = 0
  /\ store \in [Browser -> [key : KeyId \cup {NoKey}, added : {0}]]
  /\ \A b \in Browser :
       store[b].key \in Registry!Ids(pubkeys[Person[b]]) \cup {NoKey}
  /\ \A k \in Registry!Ids(UNION {pubkeys[u] : u \in User}) :
       \E b \in Browser : \A c \in Browser : store[c].key = k <=> c = b
  /\ page = [t \in Tab |-> "none"] /\ conn = [t \in Tab |-> Nowhere]
  /\ sock = [s \in Session |-> << >>] /\ back = [s \in Session |-> << >>]
  /\ task = [t \in Tab |-> [kind \in Kind |-> Idle]]
  /\ listed = [t \in Tab |-> FALSE]
  /\ links = 0 /\ clicks = 0
  /\ rekeyed = [b \in Browser |-> FALSE] /\ mishap = [b \in Browser |-> FALSE]
  /\ mixup = [b \in Browser |-> store[b].key = NoKey /\ Person[b] \notin tokens]

-----------------------------------------------------------------------------
(* Pages and connections.                                                  *)

KnownKeys(b) == Registry!Ids(pubkeys[Person[b]])

\* The ReKey that makes the stored key known is on its way to the server, or
\* being handled.
Introduces(m, b) == m.what = "rekey" /\ m.new = store[b].key
Introducing(b) ==
  \E s \in Session : \E i \in 1..Len(sock[s]) : Introduces(sock[s][i], b)

\* The stored key needs the link, or is of no use.
Waiting(b) == store[b].key \notin KnownKeys(b) \cup {NoKey} /\ ~ Introducing(b)

\* A registration with the token of u is under way: the server may still burn
\* the token for it.
Registering(u) ==
  \E s \in Session : SessionUser[s] = u /\
    \/ auth[s] = "PendingChallenge" \/ Registry!At(s, "announce") \/ Registry!At(s, "consume")
    \/ \E i \in 1..Len(sock[s]) : sock[s][i].what \in {"link", "confirm"}

\* A ReKey of the browser's is being signed.
ReKeying(b) == \E t \in Tab : BrowserOf[t] = b /\ task[t]["rekey"] # Idle

\* generateKeyPair: a key pair that nobody has or refers to any more.  Which
\* one makes no difference.
InUse ==
  {store[b].key : b \in Browser}
    \cup (UNION {Registry!Ids(pubkeys[u] \cup saved.pubkeys[u]) : u \in User})
    \cup (UNION {UNION {{m.priv, m.id, m.new} : m \in Range(sock[s])} : s \in Session})
    \cup (UNION {{task[t][kind].priv, task[t][kind].id} : t \in Tab, kind \in Kind})
    \cup {pending[s] : s \in Session}
FreshKey(b) == CHOOSE k \in Registry!KeysOf(Person[b]) : k \notin InUse
HasFreshKey(b) == \E k \in Registry!KeysOf(Person[b]) : k \notin InUse   \* bound: of the keys

\* The connection slots of a user are interchangeable too.
NewPlace(b) == CHOOSE s \in Session : Free(s) /\ SessionUser[s] = Person[b]
HasPlace(b) == \E s \in Session : Free(s) /\ SessionUser[s] = Person[b]

\* One more of the browsers has had a mishap, or a mixup, if P.
Hurt(b, P) == mishap' = [mishap EXCEPT ![b] = @ \/ P]
Mix(b, P) == mixup' = [mixup EXCEPT ![b] = @ \/ P]

\* A message that the stored key should fit is being prepared in the browser, a
\* request of the browser has no answer yet, or its refusal is on the way: not a
\* good time to change that key.
Busy(b) ==
  \E t \in Tab : BrowserOf[t] = b /\
    \/ \E kind \in {"list", "chore"} : task[t][kind] # Idle
    \/ conn[t] # Nowhere /\ (sock[conn[t]] # << >> \/ "fail" \in Range(back[conn[t]]))

\* The stored key will be good, but is not yet: its registration is under way,
\* or its ReKey is, on another connection than s.
TooEarly(b, s) ==
  /\ store[b].key \notin KnownKeys(b)
  /\ \/ Registering(Person[b])
     \/ \E r \in Session \ {s} : \E i \in 1..Len(sock[r]) : Introduces(sock[r][i], b)

Start(t, kind) ==
  task' = [task EXCEPT ![t][kind] = [at |-> "import", priv |-> Home(t).key, id |-> NoKey]]

\* main with a token, registerNewKey, connectForRegistration: the new key is
\* stored before the connection is whatever was stored before.  A mishap for
\* this browser if the token is used up or in use or its key is being replaced,
\* and for another one that still needs the token.
OpenLink(t) == LET b == BrowserOf[t]  k == FreshKey(b)  s == NewPlace(b) IN
  /\ page[t] = "none" /\ links < MaxLinks /\ HasPlace(b) /\ HasFreshKey(b)
  /\ store' = [store EXCEPT ![b] = [key |-> k, added |-> clock]]
  /\ links' = links + 1
  /\ page' = [page EXCEPT ![t] = "register"]
  /\ conn' = [conn EXCEPT ![t] = s]
  /\ sock' = [sock EXCEPT ![s] = <<Link(k)>>]
  /\ rekeyed' = [rekeyed EXCEPT ![b] = FALSE]
  /\ mishap' = [c \in Browser |-> mishap[c] \/
       IF c = b THEN Person[b] \notin tokens \/ Registering(Person[b]) \/ ReKeying(b)
                ELSE Person[c] = Person[b] /\ Waiting(c)]
  /\ mixup' = [c \in Browser |-> mixup[c] \/
       IF c = b THEN Busy(b) ELSE Person[c] = Person[b] /\ store[c].key = NoKey]
  /\ UNCHANGED <<registry, server, task, listed, clicks, back>>

\* main without a token: a returning user.
OpenApp(t) ==
  /\ page[t] = "none" /\ Home(t).key # NoKey
  /\ page' = [page EXCEPT ![t] = "app"]
  /\ UNCHANGED <<registry, server, net, store, conn, task, listed, past, mishap>>

\* connect, and its open handler: re-key if the key is old enough, otherwise
\* ask for the lists.  To re-key is a mishap if the key is being replaced
\* already, or is not known to the server yet.
Connect(t) == LET b == BrowserOf[t] IN
  /\ page[t] \in {"app", "auth"} /\ conn[t] = Nowhere /\ Home(t).key # NoKey
  /\ HasPlace(b)
  /\ task[t]["list"] = Idle /\ task[t]["rekey"] = Idle
  /\ conn' = [conn EXCEPT ![t] = NewPlace(b)]
  /\ IF clock - Home(t).added >= RekeyAfter
     THEN Start(t, "rekey") /\ Hurt(b, Home(t).key \notin KnownKeys(b) \/ Introducing(b) \/ ReKeying(b))
     ELSE Start(t, "list") /\ UNCHANGED mishap
  /\ Mix(b, TooEarly(b, Nowhere))
  /\ UNCHANGED <<registry, server, net, store, page, listed, links, clicks, rekeyed>>

\* The close handler finds no key and does not try again.
GiveUp(t) ==
  /\ page[t] \in {"app", "auth"} /\ conn[t] = Nowhere /\ Home(t).key = NoKey
  /\ page' = [page EXCEPT ![t] = "none"]
  /\ task' = [task EXCEPT ![t] = [kind \in Kind |-> Idle]]
  /\ UNCHANGED <<registry, server, net, store, conn, listed, past, mishap>>

\* Seeded fault: the answers on their way to the old socket arrive all the same.
Cut_KeepsMail(b, s) ==
  \E n \in 0..Len(sock[s]) :
    /\ ~ Registry!At(s, "ready") => n > 0
    /\ sock' = [sock EXCEPT ![s] = SubSeq(@, 1, n)]
    /\ UNCHANGED back
    /\ Hurt(b, \E i \in n + 1..Len(sock[s]) : Introduces(sock[s][i], b))

\* The connection to s is gone.  The network still delivers some of the
\* requests on their way: the one the server is handling, at least.  If the
\* ReKey to the browser's key is not among them, that is a mishap.
Cut(b, s) ==
  \E n \in 0..Len(sock[s]) :
    /\ ~ Registry!At(s, "ready") => n > 0
    /\ sock' = [sock EXCEPT ![s] = SubSeq(@, 1, n)]
    /\ back' = [back EXCEPT ![s] = << >>]
    /\ Hurt(b, \E i \in n + 1..Len(sock[s]) : Introduces(sock[s][i], b))

Disconnected(t) ==
  /\ breaks < MaxBreaks /\ breaks' = breaks + 1
  /\ conn[t] # Nowhere /\ Cut(BrowserOf[t], conn[t])

\* The connection breaks.  Registration does not try again; the page stays
\* as it is and does nothing more.
Break(t) ==
  /\ Disconnected(t)
  /\ conn' = [conn EXCEPT ![t] = Nowhere]
  /\ listed' = [listed EXCEPT ![t] = FALSE]
  /\ page' = [page EXCEPT ![t] = IF @ = "register" THEN "none" ELSE @]
  /\ UNCHANGED <<registry, saved, store, task, past>>

\* The page is closed, or loaded again: its memory is gone.
Close(t) ==
  /\ page[t] \in {"app", "auth"}
  /\ \/ Disconnected(t)
     \/ conn[t] = Nowhere /\ UNCHANGED <<net, mishap, breaks>>
  /\ conn' = [conn EXCEPT ![t] = Nowhere]
  /\ listed' = [listed EXCEPT ![t] = FALSE]
  /\ page' = [page EXCEPT ![t] = "none"]
  /\ task' = [task EXCEPT ![t] = [kind \in Kind |-> Idle]]
  /\ UNCHANGED <<registry, saved, store, past>>

-----------------------------------------------------------------------------
(* Sending.                                                                *)

\* sendSigned: nothing happens without a connection, and without a key the
\* auth screen comes up; a registration goes on behind it.
StartOrAuth(t, kind) ==
  IF Home(t).key = NoKey
  THEN page' = [page EXCEPT ![t] = IF @ = "register" THEN @ ELSE "auth"] /\ UNCHANGED task
  ELSE Start(t, kind) /\ UNCHANGED page

\* The user presses a button.  The app is on the screen while the page
\* registers, too.
Click(t) ==
  /\ page[t] \in {"register", "app"} /\ conn[t] # Nowhere /\ task[t]["chore"] = Idle
  /\ clicks < MaxClicks /\ clicks' = clicks + 1
  /\ StartOrAuth(t, "chore")
  /\ Mix(BrowserOf[t], TooEarly(BrowserOf[t], conn[t]))
  /\ UNCHANGED <<registry, server, net, store, conn, listed, links, rekeyed, mishap>>

\* The private key is imported; only now is the key id read.  If it is gone
\* meanwhile, encoding the message throws.
ReadKeyId(t, kind) ==
  /\ task[t][kind].at = "import"
  /\ task' = [task EXCEPT ![t][kind] =
                IF Home(t).key = NoKey THEN Idle
                ELSE [@ EXCEPT !.at = "sign", !.id = Home(t).key]]
  /\ UNCHANGED <<registry, server, net, store, page, conn, listed, past, mishap>>

\* ws.send: on a closed socket the message disappears.
Send(t, m) ==
  sock' = IF conn[t] = Nowhere THEN sock ELSE [sock EXCEPT ![conn[t]] = Append(@, m)]

\* The message is signed and sent.
FinishSigned(t, kind) ==
  /\ kind # "rekey" /\ task[t][kind].at = "sign"
  /\ task' = [task EXCEPT ![t][kind] = Idle]
  /\ Send(t, Signed(kind, task[t][kind], NoKey))
  /\ UNCHANGED <<registry, server, back, store, page, conn, listed, past, mishap>>

\* initiateReKey sends the ReKey and stores the new key in the same turn,
\* whether or not the message goes anywhere.
FinishReKey(t) == LET b == BrowserOf[t]  k == FreshKey(b) IN
  /\ task[t]["rekey"].at = "sign" /\ HasFreshKey(b)
  /\ task' = [task EXCEPT ![t]["rekey"] = Idle]
  /\ Send(t, Signed("rekey", task[t]["rekey"], k))
  /\ store' = [store EXCEPT ![b] = [key |-> k, added |-> clock]]
  /\ rekeyed' = [rekeyed EXCEPT ![b] = TRUE]
  /\ Hurt(b, conn[t] = Nowhere)
  /\ Mix(b, Busy(b))
  /\ UNCHANGED <<registry, server, back, page, conn, listed, links, clicks>>

\* While the next socket is being opened, ws.send throws instead: the old key
\* stays.
FinishReKeyThrows(t) ==
  /\ task[t]["rekey"].at = "sign" /\ conn[t] = Nowhere
  /\ task' = [task EXCEPT ![t]["rekey"] = Idle]
  /\ UNCHANGED <<registry, server, net, store, page, conn, listed, past, mishap>>

TaskStep(t, kind) ==
  \/ ReadKeyId(t, kind) \/ FinishSigned(t, kind)
  \/ kind = "rekey" /\ (FinishReKey(t) \/ FinishReKeyThrows(t))

-----------------------------------------------------------------------------
(* Receiving.                                                              *)

Incoming(t, m) == conn[t] # Nowhere /\ back[conn[t]] # << >> /\ Head(back[conn[t]]) = m

Pop(t) == back' = [back EXCEPT ![conn[t]] = Tail(@)]

\* The registration socket: the challenge is signed with the page's own new
\* key, whatever is stored by now, and returned.
ReceiveChallenge(t) ==
  /\ page[t] = "register" /\ Incoming(t, "challenge")
  /\ Pop(t) /\ Send(t, Confirm)
  /\ UNCHANGED <<registry, server, tabs>>

\* AuthOk of a registration: close, and connect as a returning user.
ReceiveRegistered(t) ==
  /\ page[t] = "register" /\ Incoming(t, "ok")
  /\ back' = [back EXCEPT ![conn[t]] = << >>]
  /\ page' = [page EXCEPT ![t] = "app"]
  /\ conn' = [conn EXCEPT ![t] = Nowhere]
  /\ UNCHANGED <<registry, server, sock, store, task, listed, past, mishap>>

\* AuthFail of a registration: clearStoredKey, whatever key is stored by now.
ReceiveUnregistered(t) ==
  /\ page[t] = "register" /\ Incoming(t, "fail")
  /\ store' = [store EXCEPT ![BrowserOf[t]].key = NoKey]
  /\ back' = [back EXCEPT ![conn[t]] = << >>]
  /\ page' = [page EXCEPT ![t] = "none"]
  /\ conn' = [conn EXCEPT ![t] = Nowhere]
  /\ UNCHANGED <<registry, server, sock, task, listed, past, mishap>>

\* Seeded fault: after a re-key the page shows what it has.
ReceiveAuthOk_Silent(t) ==
  /\ page[t] # "register" /\ Incoming(t, "ok") /\ task[t]["list"] = Idle
  /\ Pop(t)
  /\ page' = [page EXCEPT ![t] = IF Home(t).key = NoKey THEN "auth" ELSE "app"]
  /\ UNCHANGED <<registry, server, sock, store, conn, task, listed, past, mishap>>

\* AuthOk of a ReKey: the lists are asked for now.
ReceiveAuthOk(t) ==
  /\ page[t] # "register" /\ Incoming(t, "ok") /\ task[t]["list"] = Idle
  /\ Pop(t)
  /\ IF Home(t).key = NoKey
     THEN page' = [page EXCEPT ![t] = "auth"] /\ UNCHANGED task
     ELSE page' = [page EXCEPT ![t] = "app"] /\ Start(t, "list")
  /\ Mix(BrowserOf[t], TooEarly(BrowserOf[t], conn[t]))
  /\ UNCHANGED <<registry, server, sock, store, conn, listed, links, clicks, rekeyed, mishap>>

\* AuthFail: the key is forgotten, whichever it is by now; the connection
\* stays.
ReceiveAuthFail(t) ==
  /\ page[t] # "register" /\ Incoming(t, "fail")
  /\ Pop(t)
  /\ store' = [store EXCEPT ![BrowserOf[t]].key = NoKey]
  /\ page' = [page EXCEPT ![t] = "auth"]
  /\ UNCHANGED <<registry, server, sock, conn, task, listed, past, mishap>>

ReceiveSnapshot(t) ==
  /\ Incoming(t, "snapshot")
  /\ Pop(t)
  /\ listed' = [listed EXCEPT ![t] = TRUE]
  /\ UNCHANGED <<registry, server, sock, store, page, conn, task, past, mishap>>

Receive(t) ==
  \/ ReceiveChallenge(t) \/ ReceiveRegistered(t) \/ ReceiveUnregistered(t)
  \/ ReceiveAuthOk(t) \/ ReceiveAuthFail(t) \/ ReceiveSnapshot(t)

-----------------------------------------------------------------------------
(* The server, see KeyRegistry.  Each request is handled to its end before *)
(* the next is read.                                                       *)

Request(s, what) == sock[s] # << >> /\ Head(sock[s]).what \in what

\* The request is dealt with, and answered by msgs.
Handled(s, msgs) ==
  /\ sock' = [sock EXCEPT ![s] = Tail(@)]
  /\ back' = IF Connected(s) THEN [back EXCEPT ![s] = @ \o msgs] ELSE back

HandleLink(s) ==
  /\ Request(s, {"link"})
  /\ Registry!RequestChallenge(s, Head(sock[s]).id)
  /\ Handled(s, <<"challenge">>)

HandleConfirm(s) ==
  /\ Request(s, {"confirm"})
  /\ Registry!ConfirmKey(s)
  /\ UNCHANGED net

\* A request signed with a known key has come between the challenge and its
\* answer.
HandleStaleConfirm(s) ==
  /\ Request(s, {"confirm"}) /\ auth[s] # "PendingChallenge"
  /\ Registry!ConfirmFails(s)
  /\ Handled(s, <<"fail">>)

\* The socket takes AuthOk even for a client that is gone, until the server
\* notices (EndSession).
AnnounceKey(s) ==
  /\ Registry!SendAuthOk(s)
  /\ back' = IF Connected(s) THEN [back EXCEPT ![s] = Append(@, "ok")] ELSE back
  /\ UNCHANGED sock

BurnToken(s) == Registry!ConsumeInitToken(s) /\ Handled(s, << >>)

\* Verifies, that is.
HandleSigned(s) == LET m == Head(sock[s]) IN
  /\ Request(s, Kind) /\ m.priv = m.id
  /\ Registry!UserByKeyId(s, m.id, m.new)
  /\ UNCHANGED net

\* A used token; a key that is unknown or has expired; the signature of
\* another key.  A mishap for a browser that re-keys with an expired key.
Refuse(s) == LET m == Head(sock[s]) IN
  /\ \/ Request(s, {"link"}) /\ SessionUser[s] \notin tokens
     \/ /\ Request(s, Kind)
        /\ \/ m.priv # m.id
           \/ \A r \in pubkeys[SessionUser[s]] : ~ (r.id = m.id /\ Registry!ValidAt(r, clock))
  /\ Registry!Reject(s)
  /\ Handled(s, <<"fail">>)
  /\ mishap' = [b \in Browser |-> mishap[b] \/
       /\ Introduces(m, b)
       /\ \E r \in pubkeys[SessionUser[s]] : r.id = m.id /\ ~ Registry!ValidAt(r, clock)]
  /\ mixup' = [b \in Browser |-> mixup[b] \/
       /\ Person[b] = SessionUser[s]
       /\ \E r \in pubkeys[SessionUser[s]] : r.id = m.id /\ ~ Registry!ValidAt(r, clock)]

\* The answer to a request that touched no key; broadcasts and the answers to
\* the user's actions say nothing about keys.
Answered(s) ==
  IF Registry!At(s, "ready")'
  THEN Handled(s, IF Request(s, {"list"}) THEN <<"snapshot">> ELSE << >>)
  ELSE UNCHANGED net

CheckRetiring(s) == Registry!CheckRetiring(s) /\ Answered(s)
RetireOldKeys(s) == Registry!RetireOldKeys(s) /\ Answered(s)
ApplyReKey(s) ==
  /\ Registry!ApplyReKey(s)
  /\ Handled(s, IF work[s].new \in Registry!Ids(pubkeys[work[s].user]) THEN << >> ELSE <<"ok">>)

Serve(s) ==
  /\ \/ Refuse(s)
     \/ /\ \/ HandleLink(s) \/ HandleConfirm(s) \/ HandleStaleConfirm(s)
           \/ AnnounceKey(s) \/ BurnToken(s) \/ HandleSigned(s)
           \/ CheckRetiring(s) \/ RetireOldKeys(s) \/ ApplyReKey(s)
        /\ UNCHANGED <<mishap, mixup>>
  /\ UNCHANGED <<store, page, conn, task, listed, links, clicks, rekeyed, server>>

\* The client is gone and everything it sent is handled, or AuthOk cannot be
\* sent to it any more.
EndSession(s) ==
  /\ ~ Connected(s) /\ ~ Free(s)
  /\ sock[s] = << >> \/ Registry!At(s, "announce")
  /\ Registry!Drop(s)
  /\ sock' = [sock EXCEPT ![s] = << >>]
  /\ UNCHANGED <<back, tabs, server>>

\* Seeded fault: the tokens are saved at once and the keys with the next
\* flush.
Save_TokensOnly ==
  /\ breaks < MaxBreaks
  /\ saved' = [saved EXCEPT !.tokens = tokens]
  /\ UNCHANGED <<registry, net, tabs, breaks>>

\* The hourly flush.
Save ==
  /\ breaks < MaxBreaks
  /\ saved' = [tokens |-> tokens, pubkeys |-> pubkeys]
  /\ UNCHANGED <<registry, net, tabs, breaks>>

\* The server dies and is started again from db.cbor.
Restart ==
  /\ breaks < MaxBreaks /\ breaks' = breaks + 1
  /\ tokens' = saved.tokens /\ pubkeys' = saved.pubkeys
  /\ auth' = [s \in Session |-> "Unauthenticated"]
  /\ pending' = [s \in Session |-> NoKey]
  /\ work' = [s \in Session |-> Registry!Ready(SessionUser[s])]
  /\ sock' = [s \in Session |-> << >>] /\ back' = [s \in Session |-> << >>]
  /\ conn' = [t \in Tab |-> Nowhere]
  /\ listed' = [t \in Tab |-> FALSE]
  /\ page' = [t \in Tab |-> IF page[t] = "register" THEN "none" ELSE page[t]]
  /\ mishap' = [b \in Browser |-> mishap[b] \/ Introducing(b)
                 \/ (rekeyed[b] /\ store[b].key \notin Registry!Ids(saved.pubkeys[Person[b]]))]
  /\ UNCHANGED <<clock, announced, saved, store, task, past>>

Tick == Registry!Tick /\ UNCHANGED <<tabs, net, server>>

Next ==
  \/ \E t \in Tab :
       \/ OpenLink(t) \/ OpenApp(t) \/ Connect(t) \/ GiveUp(t) \/ Break(t) \/ Close(t)
       \/ Click(t) \/ (\E kind \in Kind : TaskStep(t, kind)) \/ Receive(t)
  \/ \E s \in Session : Serve(s) \/ EndSession(s)
  \/ Save \/ Restart \/ Tick

Spec == Init /\ [][Next]_vars

\* Promises settle, sockets deliver, the server's tasks run.  People, networks
\* and servers come and go as they like.
Fairness ==
  /\ \A t \in Tab : WF_vars(Receive(t)) /\ \A kind \in Kind : WF_vars(TaskStep(t, kind))
  /\ \A s \in Session : WF_vars(Serve(s))

FairSpec == Spec /\ Fairness

-----------------------------------------------------------------------------
(* Properties.                                                             *)

\* Every tab has a connection of its own, nothing is on its way to a tab that
\* is not connected, and a request stays where it is while the server handles
\* it.
TypeOK ==
  /\ Registry!TypeOK
  /\ store \in [Browser -> [key : KeyId \cup {NoKey}, added : 0..MaxTime]]
  /\ page \in [Tab -> Page] /\ conn \in [Tab -> Session \cup {Nowhere}]
  /\ task \in [Tab -> [Kind -> Task]]
  /\ listed \in [Tab -> BOOLEAN]
  /\ \A t, r \in Tab : conn[t] = conn[r] => t = r \/ conn[t] = Nowhere
  /\ \A s \in Session : ~ Connected(s) => back[s] = << >>
  /\ \A s \in Session : ~ Registry!At(s, "ready") => sock[s] # << >>

\* The key in localStorage, if there is one, is good for something: the server
\* knows it or is about to be told, or the link that introduces it still works.
KeyUsable(b) ==
  \/ store[b].key \in KnownKeys(b) \cup {NoKey}
  \/ Introducing(b)
  \/ Person[b] \in tokens

\* A browser keeps a key that the server will never accept only by one of
\* these: the link is opened when it is used up, while a registration with it
\* is under way or while the key is being replaced, or another browser uses it
\* up (registerNewKey stores the new key first); a re-key begins before the key
\* is known or the last re-key is done, in another tab or after a reconnection,
\* or its key has expired when it arrives; a ReKey is not delivered; the server
\* dies before the flush that saves a re-key.  This says nothing of a key that
\* is forgotten: see AccessLostOnlyByMixup.
KeyLostOnlyByMishap == \A b \in Browser : ~ mishap[b] => KeyUsable(b)

\* The browser has a key that the server knows or is about to be told of, or
\* the link still works; having forgotten its key is no excuse.
HasAccess(b) ==
  store[b].key \in KnownKeys(b) \/ Introducing(b) \/ Person[b] \in tokens

\* AuthFail makes the browser forget its key, whichever message was refused.
\* Without a mishap this locks a user out only by one of these: the stored key
\* changes while another message of the browser is being prepared or waits for
\* its answer (it carries the old key, or the new key's id over the old key's
\* signature); a message is begun with a key whose registration, or whose ReKey
\* on another connection, the server has not finished; a message is refused
\* because its key has expired.  (And another browser may use the link that one
\* without a key was waiting for.)  In every other interleaving of tabs,
\* clicks, re-keys, registrations cut short and begun again, broken connections
\* and restarts, a refused message comes from a browser that can register again.
AccessLostOnlyByMixup ==
  \A b \in Browser : ~ mishap[b] /\ ~ mixup[b] => HasAccess(b)

\* While it runs the server never drops the key a browser holds: when
\* retire_old_keys removes a key, by a message signed with whatever key in
\* whatever tab, the browser has already moved on to another.
ForgottenOnlyWhenReplaced ==
  [][breaks' = breaks =>
       \A b \in Browser : \A k \in KnownKeys(b) \ KnownKeys(b)' : store[b].key # k]_vars

\* What KeyRegistry promises of one run of the server holds across crashes and
\* restarts: db.cbor, however old, never has a user's token used up without a
\* key to show for it, and never a retiring key without its successor.
AccessOutlivesCrashes ==
  Registry!TokenBurntOnlyForAKey /\ Registry!RetiringHasSuccessor

\* A connection that began with ListAll or with a re-key gets its lists, unless
\* it is lost, the key is refused or forgotten, or the page is left: the open
\* handler asks for the lists in one case and the AuthOk of the ReKey in the
\* other.
ListsArrive ==
  \A t \in Tab :
    (page[t] = "app" /\ conn[t] # Nowhere /\ (task[t]["list"] # Idle \/ task[t]["rekey"] # Idle))
      ~> (listed[t] \/ page[t] # "app" \/ conn[t] = Nowhere \/ Home(t).key = NoKey)

(***************************************************************************)
(* What a comment says and the code does not do.                           *)
(***************************************************************************)

\* initiateReKey: "Store new key material (will be active after server accepts
\* ReKey)"; the old key is gone before the server has accepted anything.
KeyAlwaysUsable == \A b \in Browser : KeyUsable(b)
=============================================================================
